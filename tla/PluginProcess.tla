---------------------------- MODULE PluginProcess ----------------------------
(***************************************************************************)
(* The process of a plugin: its main thread in start_collector and its     *)
(* like (plugin.cc), which parses its flags, prints diagnostics or exports *)
(* the plugin (GRPCExportImpl of grpc_export.cc), and the server's handlers *)
(* beside it.                                                              *)
(***************************************************************************)
EXTENDS ConfigPolicy, PluginService, FlagParsing

CONSTANTS ConfigIn,   \* the values in a text of --config
          Malformed,  \* the texts of --config that no values are in
          Contents,   \* what may be in a file of keys or certificates
          FileAt,     \* the file at a path of --key-path or --cert-path
          PathsIn,    \* the paths in a text of --root-cert-paths
          MaxRules    \* bound on calls of add_rule

VARIABLES type,       \* what kind of plugin it is
          cli,        \* its flags, as Meta::use_cli_args keeps them, and two more
          main,       \* the place of the main thread
          rules,      \* how many rules the plugin has added
          policy,     \* the plugin's ConfigPolicy
          config,     \* DiagnosticPrinter::cfgmap
          nextPath,   \* the path load_tls_ca is at, of those of --root-cert-paths
          tls_ca,     \* what load_tls_ca has read so far
          secure,     \* whether credentials are those of TLS
          server,     \* what BuildAndStart returned
          announced   \* whether the preamble is to be had

diagnosticVars == <<rules, policy, config>>
exportVars == <<nextPath, tls_ca, secure, server, announced>>
vars == <<type, cli, main, diagnosticVars, exportVars, call, flagVars>>

\* A file, as read_if_exists finds it: there is no difference between one
\* that is empty, absent or unreadable.
Files == Contents \cup {"empty"}

\* An entry of the list of --root-cert-paths: what stat says, and the files
\* there.  A directory may be closed to the process.
Paths == [is: {"file", "directory", "closed", "neither"}, files: SUBSET Files]

Flags == [version: BOOLEAN, framework: BOOLEAN, stand_alone: BOOLEAN, config: ConfigMaps,
          malformed: BOOLEAN, tls: BOOLEAN, key: Files, crt: Files, roots: Seq(Paths)]

NoConfig == [kind \in Kinds |-> [k \in Keys |-> None]]

\* Meta's constructor.
NoFlags == [version |-> FALSE, framework |-> FALSE, stand_alone |-> FALSE, config |-> NoConfig,
            malformed |-> FALSE, tls |-> FALSE, key |-> "empty", crt |-> "empty", roots |-> <<>>]

ASSUME TextsMeanAssumption ==
    /\ ConfigIn \in [Stored -> ConfigMaps] /\ Malformed \subseteq Texts
    /\ FileAt \in [Stored -> Files] /\ PathsIn \in [Stored -> Seq(Paths)]
ASSUME ContentsAssumption == "empty" \notin Contents
ASSUME MaxRulesAssumption == MaxRules \in Nat

Ended == {"exited", "terminated", "crashed"}
Places == Ended \cup {"flags", "start", "policy", "types", "collect", "credentials", "authority",
                      "configure", "register", "announce", "http", "http_serving", "join",
                      "waiting"}

Goto(from, to) == main = from /\ main' = to

-----------------------------------------------------------------------------
(***************************************************************************)
(* The constructor of Flags, whose callers do not ask whether it parsed    *)
(* them, and Meta::use_cli_args.  What is absent is read as "", 0 or {}.   *)
(***************************************************************************)
FlagsConstructed ==
    /\ main = "flags"
    /\ ParseFlags
    /\ main' = IF parse'.at = "helped" THEN "exited" ELSE "flags"
    /\ UNCHANGED <<type, cli, diagnosticVars, exportVars, call>>

use_cli_args ==
    /\ FlagsParsed
    /\ Goto("flags", "start")
    /\ cli' = [version |-> IsParsedFlag("version"),
               framework |-> _framework_json_parsed,
               stand_alone |-> IsParsedFlag("stand-alone"),
               config |-> ConfigIn[_flags["config"]],
               malformed |-> _flags["config"] \in Malformed,
               tls |-> IsParsedFlag("tls"),
               key |-> FileAt[_flags["key-path"]],
               crt |-> FileAt[_flags["cert-path"]],
               roots |-> PathsIn[_flags["root-cert-paths"]]]
    /\ UNCHANGED <<type, diagnosticVars, exportVars, call, flagVars>>

-----------------------------------------------------------------------------
(***************************************************************************)
(* start_collector, start_processor, start_publisher and                   *)
(* start_stream_collector.                                                 *)
(***************************************************************************)
diagnostic_enabled == ~cli.stand_alone /\ ~cli.framework

PrintVersion ==
    /\ cli.version
    /\ Goto("start", "exited")
    /\ UNCHANGED <<type, cli, diagnosticVars, exportVars, call, flagVars>>

StartPlugin ==
    /\ ~cli.version
    /\ type = "collector" => ~diagnostic_enabled
    /\ Goto("start", "credentials")
    /\ UNCHANGED <<type, cli, diagnosticVars, exportVars, call, flagVars>>

\* The printer's map is made from the JSON of --config; what its parser
\* throws is caught by nobody.
StartDiagnostics ==
    /\ ~cli.version /\ type = "collector" /\ diagnostic_enabled
    /\ IF cli.malformed
       THEN Goto("start", "terminated") /\ UNCHANGED config
       ELSE Goto("start", "policy") /\ config' = cli.config
    /\ UNCHANGED <<type, cli, rules, policy, exportVars, call, flagVars>>

-----------------------------------------------------------------------------
(***************************************************************************)
(* DiagnosticPrinter::show.  What the plugin throws is caught by nobody.   *)
(***************************************************************************)
\* The plugin makes its policy when get_config_policy asks for it.
PluginAddsRule(kind, ns, rule) ==
    /\ main = "policy"
    /\ rules < MaxRules
    /\ rules' = rules + 1
    /\ policy' = AddRule(policy, kind, ns, rule)
    /\ UNCHANGED <<type, cli, main, config, exportVars, call, flagVars>>

print_config_policy ==
    /\ config' \in ApplyDefaults(config, policy)
    /\ Goto("policy", IF Missing(config', policy) # {} THEN "exited" ELSE "types")
    /\ UNCHANGED <<type, cli, rules, policy, exportVars, call, flagVars>>

print_metric_types ==
    /\ Goto("types", "collect")
    /\ UNCHANGED <<type, cli, diagnosticVars, exportVars, call, flagVars>>

print_collect_metrics ==
    /\ Goto("collect", "exited")
    /\ UNCHANGED <<type, cli, diagnosticVars, exportVars, call, flagVars>>

DiagnosedPluginThrows ==
    /\ \E place \in {"policy", "types", "collect"}: Goto(place, "terminated")
    /\ UNCHANGED <<type, cli, diagnosticVars, exportVars, call, flagVars>>

-----------------------------------------------------------------------------
(***************************************************************************)
(* GRPCExportImpl::DoExport, and the future that start_plugin waits for.   *)
(***************************************************************************)
\* load_key throws at a file without contents.
Loads(file) == file # "empty"

InsecureServerCredentials ==
    /\ ~cli.tls
    /\ Goto("credentials", "configure")
    /\ UNCHANGED <<type, cli, diagnosticVars, exportVars, call, flagVars>>

KeyAndCertificateLoad ==
    /\ cli.tls
    /\ Goto("credentials", IF Loads(cli.key) /\ Loads(cli.crt) THEN "authority" ELSE "terminated")
    /\ UNCHANGED <<type, cli, diagnosticVars, exportVars, call, flagVars>>

\* The loop of load_tls_ca tries a file, not a directory: load_directory
\* throws if it cannot list it, or at its first file without contents.
PathThrows(path) ==
    \/ path.is = "closed"
    \/ path.is = "directory" /\ "empty" \in path.files

CertificatesAt(path) == IF path.is = "neither" THEN {} ELSE path.files \ {"empty"}

MorePaths == nextPath \in DOMAIN cli.roots
Path == cli.roots[nextPath]

\* One path of the loop: an exception ends it and the process.
TryPath(throws, read) ==
    /\ main = "authority" /\ MorePaths
    /\ IF throws
       THEN main' = "terminated" /\ UNCHANGED <<nextPath, tls_ca>>
       ELSE nextPath' = nextPath + 1 /\ tls_ca' = read /\ UNCHANGED main
    /\ UNCHANGED <<type, cli, diagnosticVars, secure, server, announced, call, flagVars>>

\* Forms of the next definition that plausible slips would have given.
KeepsLastOnly == TryPath(PathThrows(Path), CertificatesAt(Path))
TriesNoFile ==
    TryPath(PathThrows(Path) \/ "empty" \in Path.files, tls_ca \cup CertificatesAt(Path))

load_tls_ca == TryPath(PathThrows(Path), tls_ca \cup CertificatesAt(Path))

\* Its loop is over: it throws if it has read nothing.
SslServerCredentials ==
    /\ ~MorePaths
    /\ IF tls_ca = {}
       THEN Goto("authority", "terminated") /\ UNCHANGED secure
       ELSE Goto("authority", "configure") /\ secure' = TRUE
    /\ UNCHANGED <<type, cli, diagnosticVars, nextPath, tls_ca, server, announced, call, flagVars>>

\* The service is of the plugin's type, the port and the credentials are set.
doConfigure ==
    /\ Goto("configure", "register")
    /\ UNCHANGED <<type, cli, diagnosticVars, exportVars, call, flagVars>>

\* BuildAndStart gives no server if it cannot listen at the port.
doRegister ==
    /\ Goto("register", IF cli.stand_alone THEN "http" ELSE "announce")
    /\ server' \in {"serving", "null"}
    /\ UNCHANGED <<type, cli, diagnosticVars, nextPath, tls_ca, secure, announced, call, flagVars>>

\* cout << printPreamble()
PrintPreamble ==
    /\ Goto("announce", "join")
    /\ announced' = TRUE
    /\ UNCHANGED <<type, cli, diagnosticVars, nextPath, tls_ca, secure, server, call, flagVars>>

\* start_stand_alone runs an HTTP server that shows the preamble, in
\* this thread; what it throws ends it, and nobody reads what it returns.
HttpRuns ==
    /\ Goto("http", "http_serving")
    /\ announced' = TRUE
    /\ UNCHANGED <<type, cli, diagnosticVars, nextPath, tls_ca, secure, server, call, flagVars>>

HttpFails ==
    /\ \E place \in {"http", "http_serving"}: Goto(place, "join")
    /\ announced' = FALSE
    /\ UNCHANGED <<type, cli, diagnosticVars, nextPath, tls_ca, secure, server, call, flagVars>>

\* server->Wait(), through a pointer that may be null.
doJoin ==
    /\ Goto("join", IF server = "serving" THEN "waiting" ELSE "crashed")
    /\ UNCHANGED <<type, cli, diagnosticVars, exportVars, call, flagVars>>

\* From BuildAndStart on the server's threads handle calls.
Handler ==
    /\ server = "serving"
    /\ Serve(type)
    /\ UNCHANGED <<type, cli, main, diagnosticVars, exportVars, flagVars>>

-----------------------------------------------------------------------------
Init ==
    /\ type \in Types
    /\ cli = NoFlags
    /\ main = "flags"
    /\ rules = 0 /\ policy = EmptyPolicy
    /\ config = NoConfig
    /\ nextPath = 1 /\ tls_ca = {}
    /\ secure = FALSE /\ server = "none" /\ announced = FALSE
    /\ NoCalls
    /\ FlagsInit

MainStep ==
    \/ FlagsConstructed \/ use_cli_args
    \/ PrintVersion \/ StartPlugin \/ StartDiagnostics
    \/ print_config_policy \/ print_metric_types \/ print_collect_metrics
    \/ InsecureServerCredentials \/ KeyAndCertificateLoad \/ load_tls_ca
    \/ SslServerCredentials \/ doConfigure \/ doRegister
    \/ PrintPreamble \/ HttpRuns \/ HttpFails \/ doJoin

Next ==
    \/ MainStep
    \/ DiagnosedPluginThrows
    \/ \E kind \in Kinds, ns \in Namespaces, rule \in Rules: PluginAddsRule(kind, ns, rule)
    \/ Handler

Spec == Init /\ [][Next]_vars

-----------------------------------------------------------------------------
TypeOK ==
    /\ FlagsTypeOK
    /\ type \in Types /\ cli \in Flags /\ main \in Places
    /\ rules \in 0..MaxRules /\ policy \in Policies /\ config \in ConfigMaps
    /\ nextPath \in Nat /\ tls_ca \subseteq Contents
    /\ secure \in BOOLEAN /\ announced \in BOOLEAN
    /\ server \in {"none", "serving", "null"}
    /\ call \in [Handlers -> Calls \cup {Idle}]

Exporting == type = "collector" => ~diagnostic_enabled
Diagnosing == main \in {"policy", "types", "collect"}

\* What a list of paths has, and what has been read of it so far.
CertificatesIn(paths) == UNION {CertificatesAt(paths[i]): i \in DOMAIN paths}
ReadSoFar ==
    /\ \A i \in 1..nextPath - 1: ~PathThrows(cli.roots[i])
    /\ tls_ca = UNION {CertificatesAt(cli.roots[i]): i \in 1..nextPath - 1}

Usable(c) ==
    /\ Loads(c.key) /\ Loads(c.crt)
    /\ \A i \in DOMAIN c.roots: ~PathThrows(c.roots[i])
    /\ CertificatesIn(c.roots) # {}

Configured ==
    main \in {"configure", "register", "announce", "http", "http_serving", "join", "waiting",
              "crashed"}

CredentialsKept ==
    /\ nextPath \in 1..Len(cli.roots) + 1
    /\ main \in {"flags", "start", "policy", "types", "collect", "credentials"} =>
          nextPath = 1 /\ tls_ca = {}
    /\ main = "authority" => cli.tls /\ Loads(cli.key) /\ Loads(cli.crt) /\ ReadSoFar
    /\ ~Configured => ~secure
    /\ Configured => /\ secure = cli.tls
                     /\ secure => Usable(cli) /\ tls_ca = CertificatesIn(cli.roots)
    /\ Exporting => ~Diagnosing

\* There is no server before doRegister, and the flags are those parsed.
NoServerYet == server # "none" => Configured

CliAsParsed ==
    main \notin {"flags", "exited"} =>
        /\ cli.tls = IsParsedFlag("tls") /\ cli.framework = _framework_json_parsed
        /\ cli.roots = PathsIn[_flags["root-cert-paths"]]

MainInv == TypeOK /\ StoredInOrder /\ CredentialsKept /\ CallsInStep
ProcessInv == MainInv /\ SwitchesAreOn /\ NoServerYet /\ CliAsParsed

\* The daemon that starts a plugin and finds its JSON taken gets TLS if and
\* only if it, or the rest of the command line, asked for it.
SecureAsTold ==
    server = "serving" /\ cli.framework =>
        (secure <=> Told("tls", "on") \/ ToldByJson("tls", "on"))

\* A value given with --config is the one the plugin is shown: no default
\* takes its place, whatever the order in which the rules are met.
GivenKept ==
    Diagnosing => \A kind \in Kinds, k \in Keys:
        cli.config[kind][k] # None => config[kind][k] = cli.config[kind][k]

\* The plugin is asked for its metric types and its metrics only with a
\* config its policy is content with: no default is left out, and no string
\* the policy requires is without a value.
CollectsVetted ==
    main \in {"types", "collect"} =>
        \A kind \in Kinds: \A r \in RulesOf(policy, kind):
            /\ r.default # None => config[kind][r.key] # None
            /\ kind = "string" /\ r.required => config[kind][r.key] # None

\* The line itself names the paths in this text, or the daemon's JSON does.
NamesPaths(text) ==
    \/ CommandLineTaken /\ Told("root-cert-paths", text)
    \/ cli.framework /\ ToldByJson("root-cert-paths", text)

\* The server checks its clients by the certificates of the paths that the
\* command line names, all of them and no other, and there is one: whatever
\* its loop logged and skipped, and whatever was tried of the line before.
AuthorityAsTold ==
    server = "serving" /\ secure =>
        /\ tls_ca # {}
        /\ \A text \in Texts: NamesPaths(text) => tls_ca = CertificatesIn(PathsIn[text])

\* A plugin that was to export itself and ends at once had a cause: TLS was
\* asked for, and its key or certificate does not load, or a directory of
\* the authority does not, or all its paths together have no certificate.
\* That some path of the list is nothing, or an empty file, is no cause.
EndsForCause == main = "terminated" /\ Exporting => cli.tls /\ ~Usable(cli)
=============================================================================
