---------------------------- MODULE FlagParsing ----------------------------
(***************************************************************************)
(* Flags of flags.cc: how a command line, whose first argument may be a    *)
(* JSON object of the Snap daemon, and a file of options become the        *)
(* entries of boost's variables_map.  What boost does is external; it is   *)
(* modelled one entry at a time, for an exception leaves what is stored.   *)
(***************************************************************************)
EXTENDS Naturals, Sequences

CONSTANTS CommandLines,  \* the command lines a plugin may be started with
          Texts,         \* the values of arguments
          Numbers,       \* those that an int is parsed from
          OptionsIn      \* the options in the file of a name, none if it is absent

VARIABLES argv,       \* the command line
          parse,      \* where parsing is
          _flags,     \* the entries of the variables_map
          final,      \* its entries that later calls of store leave alone
          _framework_json_parsed

flagVars == <<argv, parse, _flags, final, _framework_json_parsed>>

Commands == {"help", "version"}
Switches == Commands \cup {"pprof", "tls", "stand-alone"}
Ints == {"log-level", "stand-alone-port", "max-collect-duration", "max-metrics-buffer"}
Defaulted == Ints \cup {"port", "addr", "cert-path", "key-path", "root-cert-paths",
                        "options-file"}
Options == Switches \cup Defaulted \cup {"config"}
Global == Options \ (Commands \cup {"options-file"})

\* An argument is an option, "unknown" if no option has its name, or a
\* "word" beside the options.  "on" is the text of a switch.
Arguments == [option: Options \cup {"unknown", "word"}, text: Texts \cup {"on", "missing"}]

_pretty_flags == [TLSEnabled |-> "tls", LogLevel |-> "log-level", CertPath |-> "cert-path",
                  KeyPath |-> "key-path", RootCertPaths |-> "root-cert-paths", Pprof |-> "pprof"]
isFlag(key) == key \in DOMAIN _pretty_flags

\* An object's entries come in the order of their keys, each key once.
Entries == [key: DOMAIN _pretty_flags \cup {"PingTimeoutDuration"}, value: Texts \cup {FALSE}]

\* Whether argv[1] is a JSON object, its entries, and the other arguments.
Lines == [is_json: BOOLEAN, json: Seq(Entries), plain: Seq(Arguments)]

\* What an entry may be beside a text: "broken" is left where a value was
\* not a number.
Absent == {"absent", "default"}
Stored == Texts \cup {"on", "broken"} \cup Absent

ASSUME TextsAssumption ==
    /\ Texts \cap ({"on", "missing", "broken"} \cup Absent) = {} /\ FALSE \notin Texts
    /\ Numbers \subseteq Texts
ASSUME CommandLinesAssumption == CommandLines \subseteq Lines
ASSUME FilesAssumption == OptionsIn \in [Stored -> Seq(Arguments)]

-----------------------------------------------------------------------------
\* An entry that removeUnusedFlags erases is given as a word, which store
\* passes over.  After a switch the value is a word too.
\* The first is a form of the next that a plausible slip would have given.
KeyUnknown(e) == ~isFlag(e.key)
Unused(e) == ~isFlag(e.key) \/ e.value = FALSE

Flag(e) ==
    IF Unused(e) THEN [option |-> "word", text |-> "missing"]
    ELSE LET o == _pretty_flags[e.key]
         IN [option |-> o, text |-> IF o \in Switches THEN "on" ELSE e.value]

generateCommandLineFromJson(json) == [j \in DOMAIN json |-> Flag(json[j])]

\* A form of the next definition that a plausible slip would have given.
DropsLastArgument(line) ==
    SubSeq(line.plain, 1, Len(line.plain) - 1) \o generateCommandLineFromJson(line.json)

newArgv(line) == line.plain \o generateCommandLineFromJson(line.json)

parsejsonFlags ==
    /\ parse.at = "start" /\ argv.is_json
    /\ parse' = [at |-> "json", args |-> newArgv(argv), next |-> 1]
    /\ UNCHANGED <<argv, _flags, final, _framework_json_parsed>>

Plain == [at |-> "plain", args |-> argv.plain, next |-> 1]

\* argv[1] is no JSON object: an exception, or argc is 1.
NoJson ==
    /\ parse.at = "start" /\ ~argv.is_json
    /\ parse' = Plain
    /\ UNCHANGED <<argv, _flags, final, _framework_json_parsed>>

-----------------------------------------------------------------------------
\* What the parser of boost accepts: known options, with a text if and only
\* if they take one.  In a file only those of _config_file are known.
Reads(a) ==
    /\ a.option # "unknown"
    /\ a.option \in Switches => a.text = "on"
    /\ a.option \in Options \ Switches => a.text \in Texts
    /\ parse.at = "file" => a.option \in Global

\* _config_file holds _global twice (107 and 284), so boost finds its
\* options ambiguous.
Found(o) == parse.at = "file" => o \notin Global

Storing == parse.at \in {"json", "plain", "file"}
Readable == \A i \in DOMAIN parse.args: Reads(parse.args[i])
More == parse.next \in DOMAIN parse.args
Current == parse.args[parse.next]

\* An exception: what is stored stays.  That of the JSON's flags is caught
\* by parsejsonFlags' caller, which then parses the line as it is.
Thrown ==
    parse' = CASE parse.at = "json" -> Plain
               [] parse.at = "plain" -> [parse EXCEPT !.at = "failed"]
               [] parse.at = "file" -> [parse EXCEPT !.at = "file_failed"]

Unreadable ==
    /\ Storing /\ ~Readable
    /\ Thrown
    /\ UNCHANGED <<argv, _flags, final, _framework_json_parsed>>

Skips(a) == a.option = "word" \/ a.option \in final

Skip ==
    /\ Storing /\ Readable /\ More /\ Skips(Current)
    /\ parse' = [parse EXCEPT !.next = @ + 1]
    /\ UNCHANGED <<argv, _flags, final, _framework_json_parsed>>

\* Each option once, and for an int a number.
HasNoValue(o) == _flags[o] \in Absent \cup {"broken"}
Takes(a) == HasNoValue(a.option) /\ (a.option \in Ints => a.text \in Numbers)

Store ==
    /\ Storing /\ Readable /\ More /\ ~Skips(Current)
    /\ Found(Current.option) /\ Takes(Current)
    /\ _flags' = [_flags EXCEPT ![Current.option] = Current.text]
    /\ parse' = [parse EXCEPT !.next = @ + 1]
    /\ UNCHANGED <<argv, final, _framework_json_parsed>>

StoreThrows ==
    /\ Storing /\ Readable /\ More /\ ~Skips(Current)
    /\ ~(Found(Current.option) /\ Takes(Current))
    /\ _flags' = IF Found(Current.option) /\ HasNoValue(Current.option)
                 THEN [_flags EXCEPT ![Current.option] = "broken"]
                 ELSE _flags
    /\ Thrown
    /\ UNCHANGED <<argv, final, _framework_json_parsed>>

\* The end of store on the command line: its options are final, but for
\* config, which is composing, and the others get their defaults.
parseCommandLineFlags ==
    /\ parse.at \in {"json", "plain"} /\ Readable /\ ~More
    /\ final' = {parse.args[i].option: i \in DOMAIN parse.args} \cap (Options \ {"config"})
    /\ _flags' = [o \in Options |-> IF o \in Defaulted /\ _flags[o] = "absent"
                                    THEN "default" ELSE _flags[o]]
    /\ IF _flags["help"] # "absent"
       THEN /\ parse' = [parse EXCEPT !.at = "helped"]
            /\ UNCHANGED _framework_json_parsed
       ELSE /\ parse' = [at |-> "file", args |-> OptionsIn[_flags'["options-file"]], next |-> 1]
            /\ _framework_json_parsed' = (parse.at = "json")
    /\ UNCHANGED argv

parseConfigFileFlags ==
    /\ parse.at = "file" /\ Readable /\ ~More
    /\ parse' = [parse EXCEPT !.at = "done"]
    /\ UNCHANGED <<argv, _flags, final, _framework_json_parsed>>

-----------------------------------------------------------------------------
FlagsInit ==
    /\ argv \in CommandLines
    /\ parse = [at |-> "start", args |-> <<>>, next |-> 1]
    /\ _flags = [o \in Options |-> "absent"]
    /\ final = {}
    /\ _framework_json_parsed = FALSE

ParseFlags ==
    \/ parsejsonFlags \/ NoJson \/ Unreadable \/ Skip \/ Store \/ StoreThrows
    \/ parseCommandLineFlags \/ parseConfigFileFlags

\* ParseFlags has returned, whatever it returned.
FlagsParsed == parse.at \in {"failed", "file_failed", "done"}

IsParsedFlag(o) == _flags[o] # "absent"

-----------------------------------------------------------------------------
Stages == {"start", "json", "plain", "file", "helped", "failed", "file_failed", "done"}

FlagsTypeOK ==
    /\ argv \in CommandLines
    /\ parse \in [at: Stages, args: Seq(Arguments), next: Nat \ {0}]
    /\ _flags \in [Options -> Stored] /\ final \subseteq Options
    /\ _framework_json_parsed \in BOOLEAN

CommandLineTaken == parse.at \in {"file", "file_failed", "done"}

Told(o, text) == \E i \in DOMAIN argv.plain: argv.plain[i] = [option |-> o, text |-> text]

ToldByJson(o, text) ==
    /\ argv.is_json
    /\ \E j \in DOMAIN argv.json:
          /\ isFlag(argv.json[j].key) /\ _pretty_flags[argv.json[j].key] = o
          /\ argv.json[j].value # FALSE
          /\ text = IF o \in Switches THEN "on" ELSE argv.json[j].value

\* What store has seen of the command line is stored, and of a line with
\* the framework's flags nothing else is.
Has(i) == parse.args[i].option \in Options => _flags[parse.args[i].option] = parse.args[i].text
Seen == (1..parse.next - 1) \cap DOMAIN parse.args
Gives(i, o) == parse.args[i] = [option |-> o, text |-> _flags[o]]
HasOnlySeen == \A o \in Options: _flags[o] \in Texts \cup {"on"} => \E i \in Seen: Gives(i, o)

\* Once the command line is taken each of its options has the value given
\* for it, whatever the options file holds and whatever was tried before.
\* When the flags are said to come from the framework, all that its JSON
\* tells is there too, and nothing else.
ArgumentsHonoured ==
    CommandLineTaken =>
        \A o \in Options, text \in Texts \cup {"on"}:
            /\ Told(o, text) => _flags[o] = text
            /\ _framework_json_parsed =>
                  (_flags[o] = text <=> Told(o, text) \/ ToldByJson(o, text))

SwitchesAreOn == \A o \in Switches: _flags[o] \in {"on", "absent"}

StoredInOrder ==
    /\ parse.at \in {"start", "json", "plain"} => final = {}
    /\ _framework_json_parsed => CommandLineTaken
    /\ parse.at = "start" => parse.args = <<>> /\ HasOnlySeen
    /\ parse.at = "json" => argv.is_json /\ parse.args = newArgv(argv) /\ HasOnlySeen
    /\ parse.at = "plain" => parse.args = argv.plain
    /\ parse.at \in {"json", "plain"} => \A i \in Seen: Has(i)
    /\ ArgumentsHonoured
=============================================================================
