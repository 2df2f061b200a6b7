SPECIFICATION FairSpec
CONSTANTS
    Threads = {t1, t2, t3}
    Values = {a, b}
    Nothing = Nothing
    Capacity = 2
INVARIANTS
    ChannelInv
    ClosedWakesAll
    ItemsAreCovered
PROPERTIES
    ImplementsAtomicChannel
    CloseWakesSleepers
    ItemsReachSleepers
\* Every caller may be asleep in get on an open, empty channel.
CHECK_DEADLOCK FALSE
