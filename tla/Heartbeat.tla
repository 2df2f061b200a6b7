------------------------------ MODULE Heartbeat ------------------------------
(***************************************************************************)
(* PluginImpl (proxy/plugin_proxy.cc): Ping, and the watch over the pings  *)
(* of Snap.  Time is counted in the ticks of system_clock.                 *)
(***************************************************************************)
EXTENDS Naturals

CONSTANTS TicksPerSecond,
          PingTimeoutDuration,  \* in seconds
          PingTimeoutLimit,
          MaxTime               \* bound on time

VARIABLES now, lastPing,
          watch,  \* where HeartbeatWatch is
          count,  \* its count of missed pings
          wake    \* when it has slept enough

vars == <<now, lastPing, watch, count, wake>>

Duration == PingTimeoutDuration * TicksPerSecond

Ping ==
    /\ watch # "expired"
    /\ lastPing' = now
    /\ UNCHANGED <<now, watch, count, wake>>

StartWatch ==
    /\ watch = "off"
    /\ lastPing' = now /\ count' = 0 /\ watch' = "check"
    /\ UNCHANGED <<now, wake>>

\* (now() - _lastPing).count() >= _pingTimeoutDuration.count(): the number of
\* ticks on the left is compared with the number of seconds on the right.
TimedOut == now - lastPing >= PingTimeoutDuration

Sleep == watch' = "asleep" /\ wake' = now + Duration

CheckMissed ==
    /\ watch = "check" /\ TimedOut
    /\ count' = count + 1
    /\ IF count' >= PingTimeoutLimit THEN watch' = "expired" /\ UNCHANGED wake
                                     ELSE Sleep
    /\ UNCHANGED <<now, lastPing>>

CheckMet ==
    /\ watch = "check" /\ ~TimedOut
    /\ count' = 0
    /\ Sleep
    /\ UNCHANGED <<now, lastPing>>

WakeUp ==
    /\ watch = "asleep" /\ now >= wake
    /\ watch' = "check"
    /\ UNCHANGED <<now, lastPing, count, wake>>

Tick ==
    /\ watch # "expired" /\ now < MaxTime
    /\ now' = now + 1
    /\ UNCHANGED <<lastPing, watch, count, wake>>

Init == now = 0 /\ lastPing = 0 /\ watch = "off" /\ count = 0 /\ wake = 0

Next == Ping \/ StartWatch \/ CheckMissed \/ CheckMet \/ WakeUp \/ Tick

Spec == Init /\ [][Next]_vars

-----------------------------------------------------------------------------
\* The watch stops a plugin only when the last ping is older than the
\* duration in which one should be received.
PingsKeepAlive == watch = "expired" => now - lastPing >= Duration
=============================================================================
