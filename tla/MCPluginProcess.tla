--------------------------- MODULE MCPluginProcess ---------------------------
(***************************************************************************)
(* Instances of PluginProcess: command lines that reach each way out of    *)
(* parsing and of start-up, and answers of none, one and two metrics.      *)
(***************************************************************************)
EXTENDS PluginProcess

CONSTANTS user, root, m1, m2,
          good,                      \* a number, the name of a file that loads
          bad,                       \* no number, no file, no JSON
          ca1, ca2,                  \* certificates
          strings, bools,            \* JSON for --config
          mixed, rotten, spoilt,     \* lists of paths
          closed, elsewhere,
          cfg                        \* an options file

Given(kind) == [NoConfig EXCEPT ![kind][user] = root]
ConfigOf == [t \in Stored |-> CASE t = strings -> Given("string")
                                [] t = bools -> Given("bool")
                                [] OTHER -> NoConfig]
FileOf == [t \in Stored |-> IF t = good THEN ca1 ELSE "empty"]

File(f) == [is |-> "file", files |-> {f}]
Directory(fs) == [is |-> "directory", files |-> fs]
Closed == [is |-> "closed", files |-> {ca1}]
Neither == [is |-> "neither", files |-> {ca1}]

\* The text "" is split into one path, which is nothing.
PathsOf ==
    [t \in Stored |-> CASE t = good -> <<File(ca1), Directory({ca2}), Neither>>
                        [] t = mixed -> <<File("empty"), Directory({ca1, ca2}), File(ca1)>>
                        [] t = rotten -> <<File("empty"), Directory({})>>
                        [] t = spoilt -> <<File(ca1), Directory({ca2, "empty"}), File(ca2)>>
                        [] t = closed -> <<File(ca1), Closed>>
                        [] OTHER -> <<Neither>>]

Opt(o, t) == [option |-> o, text |-> t]
Switch(o) == Opt(o, "on")
Entry(k, v) == [key |-> k, value |-> v]

\* The options file has an option of the command line, and one it leaves out.
FileOptions ==
    [t \in Stored |-> IF t = cfg THEN <<Switch("stand-alone"), Switch("tls")>> ELSE <<>>]

Line(args) == [is_json |-> FALSE, json |-> <<>>, plain |-> args]
Daemon(entries, args) == [is_json |-> TRUE, json |-> entries, plain |-> args]

\* What the daemon gives: the entries it has, one of them unknown here.
Snap(crt, key, level, roots, tls) ==
    <<Entry("CertPath", crt), Entry("KeyPath", key), Entry("LogLevel", level),
      Entry("PingTimeoutDuration", good), Entry("RootCertPaths", roots),
      Entry("TLSEnabled", tls)>>

Help == Line(<<Switch("version"), Switch("help")>>)
Version == Line(<<Switch("version")>>)
Unknown == Line(<<Switch("version"), Switch("unknown")>>)
NotANumber == Line(<<Switch("tls"), Opt("log-level", bad), Switch("version")>>)
ConfigLines == {Line(<<Opt("config", t)>>): t \in {strings, bools, bad}}
StandAlone == Line(<<Switch("stand-alone"), Opt("options-file", cfg)>>)
Insecure == Daemon(Snap(good, good, good, mixed, FALSE), <<Opt("port", good)>>)
Lists == {good, mixed, rotten, spoilt, closed, elsewhere}
TlsLines ==
    {Daemon(Snap(good, good, good, roots, good), <<>>): roots \in Lists}
    \cup {Daemon(Snap(good, bad, good, good, good), <<>>),
          Daemon(Snap(bad, good, good, good, good), <<>>),
          Daemon(Snap(good, good, good, rotten, FALSE),
                 <<Switch("tls"), Opt("options-file", good)>>),
          Line(<<Switch("tls"), Opt("key-path", good), Opt("cert-path", good),
                 Opt("root-cert-paths", mixed)>>)}
\* The framework's flags fail at the level, or at the option given twice.
BadLevel == Daemon(Snap(good, good, bad, good, good), <<>>)
Twice == Daemon(Snap(good, good, good, good, good),
                <<Switch("stand-alone"), Opt("key-path", good)>>)
TwoLists == Daemon(Snap(good, good, good, mixed, good), <<Opt("root-cert-paths", good)>>)

CommandLineSet ==
    {Help, Version, Unknown, NotANumber, StandAlone, Insecure, BadLevel, Twice, TwoLists}
    \cup ConfigLines \cup TlsLines

ResultSet == {<<>>, <<m1>>, <<m1, m2>>}
=============================================================================
