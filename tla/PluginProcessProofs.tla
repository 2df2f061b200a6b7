------------------------- MODULE PluginProcessProofs -------------------------
(***************************************************************************)
(* Start-up, diagnostics and unary calls: proofs for any policy, config,   *)
(* command lines, handlers and answers of the plugin.                      *)
(***************************************************************************)
EXTENDS PluginProcess, TLAPS

(***************************************************************************)
(* Parsing.                                                                *)
(***************************************************************************)
\* An entry becomes an argument, with its value unless a switch has none.
LEMMA FlagOfEntry ==
    ASSUME NEW e \in Entries
    PROVE  /\ Flag(e) \in Arguments
           /\ ~Unused(e) => /\ Flag(e).option = _pretty_flags[e.key]
                            /\ Flag(e).option \in Options
                            /\ Flag(e).text = IF Flag(e).option \in Switches THEN "on"
                                                                            ELSE e.value
           /\ Unused(e) => Flag(e).option = "word"
<1>1. \A k \in DOMAIN _pretty_flags: _pretty_flags[k] \in Options
  BY DEF _pretty_flags, Options, Switches, Commands, Defaulted, Ints
<1>2. CASE Unused(e) BY <1>2 DEF Flag, Arguments
<1>3. CASE ~Unused(e)
  <2>1. e.key \in DOMAIN _pretty_flags /\ e.value \in Texts
    BY <1>3 DEF Unused, isFlag, Entries
  <2>2. _pretty_flags[e.key] \in Options BY <1>1, <2>1
  <2> QED BY <1>3, <2>1, <2>2 DEF Flag, Arguments
<1> QED BY <1>2, <1>3

LEMMA ConcatIs ==
    ASSUME NEW S, NEW a \in Seq(S), NEW b \in Seq(S)
    PROVE  /\ a \o b \in Seq(S)
           /\ Len(a \o b) = Len(a) + Len(b)
           /\ \A i \in 1..Len(a): (a \o b)[i] = a[i]
           /\ \A j \in 1..Len(b): (a \o b)[Len(a) + j] = b[j]
<1>1. \A j \in 1..Len(b): Len(a) + j \in 1..Len(a) + Len(b) /\ Len(a) + j - Len(a) = j
  OBVIOUS
<1> QED BY <1>1

\* The rest of the line comes first, then the flags of the JSON.
LEMMA NewArgvIs ==
    ASSUME NEW line \in Lines
    PROVE  /\ newArgv(line) \in Seq(Arguments)
           /\ Len(newArgv(line)) = Len(line.plain) + Len(line.json)
           /\ \A i \in 1..Len(line.plain): newArgv(line)[i] = line.plain[i]
           /\ \A j \in 1..Len(line.json):
                  newArgv(line)[Len(line.plain) + j] = Flag(line.json[j])
<1> DEFINE flags == generateCommandLineFromJson(line.json)
<1>1. line.plain \in Seq(Arguments) /\ line.json \in Seq(Entries) BY DEF Lines
<1>2. flags = [j \in 1..Len(line.json) |-> Flag(line.json[j])]
  BY <1>1 DEF generateCommandLineFromJson
<1>3. \A j \in 1..Len(line.json): Flag(line.json[j]) \in Arguments
  BY <1>1, FlagOfEntry
<1> HIDE DEF flags
<1>4. flags \in Seq(Arguments) /\ Len(flags) = Len(line.json)
  <2>1. Len(line.json) \in Nat BY <1>1
  <2>2. flags \in [1..Len(line.json) -> Arguments] BY <1>2, <1>3
  <2> QED BY <2>1, <2>2
<1>5. \A j \in 1..Len(line.json): flags[j] = Flag(line.json[j]) BY <1>2
<1>6. newArgv(line) = line.plain \o flags BY DEF newArgv, flags
<1> HIDE DEF flags
<1>7. line.plain \in Seq(Arguments) /\ flags \in Seq(Arguments) /\ Len(flags) = Len(line.json)
  BY <1>1, <1>4
<1>8. ASSUME NEW a \in Seq(Arguments), NEW b \in Seq(Arguments)
      PROVE  /\ a \o b \in Seq(Arguments)
             /\ Len(a \o b) = Len(a) + Len(b)
             /\ \A i \in 1..Len(a): (a \o b)[i] = a[i]
             /\ \A j \in 1..Len(b): (a \o b)[Len(a) + j] = b[j]
  BY ConcatIs
<1>9. /\ line.plain \o flags \in Seq(Arguments)
      /\ Len(line.plain \o flags) = Len(line.plain) + Len(flags)
      /\ \A i \in 1..Len(line.plain): (line.plain \o flags)[i] = line.plain[i]
      /\ \A j \in 1..Len(flags): (line.plain \o flags)[Len(line.plain) + j] = flags[j]
  BY <1>7, <1>8, Zenon
<1> QED BY <1>5, <1>6, <1>7, <1>9, Zenon

\* A line of the plugin's is one of Lines.
LEMMA LineTyped == FlagsTypeOK => argv \in Lines
BY CommandLinesAssumption DEF FlagsTypeOK

LEMMA FlagsTyped ==
    ASSUME FlagsTypeOK, ParseFlags
    PROVE  FlagsTypeOK'
<1>0. argv \in Lines /\ argv.plain \in Seq(Arguments) BY LineTyped DEF Lines
<1> USE <1>0 DEF FlagsTypeOK, Stages
<1>1. CASE parsejsonFlags
  <2>1. newArgv(argv) \in Seq(Arguments) BY NewArgvIs
  <2> QED BY <1>1, <2>1 DEF parsejsonFlags
<1>2. CASE NoJson BY <1>2 DEF NoJson, Plain
<1>3. ASSUME Thrown, Storing PROVE parse' \in [at: Stages, args: Seq(Arguments), next: Nat \ {0}]
  <2>1. CASE parse.at = "json" BY <1>3, <2>1 DEF Thrown, Plain
  <2>2. CASE parse.at = "plain" BY <1>3, <2>2 DEF Thrown
  <2>3. CASE parse.at = "file" BY <1>3, <2>3 DEF Thrown
  <2> QED BY <1>3, <2>1, <2>2, <2>3 DEF Storing
<1>4. CASE Unreadable BY <1>3, <1>4 DEF Unreadable
<1>5. CASE Skip BY <1>5 DEF Skip
<1>6. Storing /\ Readable /\ More /\ ~Skips(Current) =>
         Current \in Arguments /\ Current.option \in Options
  <2>1. More => Current \in Arguments /\ parse.next \in DOMAIN parse.args BY DEF More, Current
  <2>2. Current \in Arguments => Current.option \in Options \cup {"unknown", "word"}
    BY DEF Arguments
  <2> QED BY <2>1, <2>2 DEF Readable, Reads, Skips, Current
<1>7. CASE Store
  <2>1. Current.text \in Stored
    BY <1>6, <1>7 DEF Store, Readable, Reads, More, Current, Stored, Arguments
  <2> QED BY <1>6, <1>7, <2>1 DEF Store
<1>8. CASE StoreThrows
  <2>1. _flags' \in [Options -> Stored] BY <1>6, <1>8 DEF StoreThrows, Stored
  <2> QED BY <1>3, <1>8, <2>1 DEF StoreThrows
<1>9. CASE parseCommandLineFlags
  <2>1. _flags' \in [Options -> Stored] BY <1>9 DEF parseCommandLineFlags, Stored, Absent
  <2>2. OptionsIn[_flags'["options-file"]] \in Seq(Arguments)
    BY <2>1, FilesAssumption DEF Options, Defaulted
  <2>3. final' \subseteq Options /\ UNCHANGED argv BY <1>9 DEF parseCommandLineFlags
  <2>4. CASE _flags["help"] # "absent"
    BY <1>9, <2>1, <2>3, <2>4 DEF parseCommandLineFlags
  <2>5. CASE _flags["help"] = "absent"
    BY <1>9, <2>1, <2>2, <2>3, <2>5 DEF parseCommandLineFlags
  <2> QED BY <2>4, <2>5
<1>10. CASE parseConfigFileFlags BY <1>10 DEF parseConfigFileFlags
<1> QED BY <1>1, <1>2, <1>4, <1>5, <1>7, <1>8, <1>9, <1>10 DEF ParseFlags

\* What a text is not.
LEMMA TextIsNone ==
    ASSUME NEW t \in Texts \cup {"on"}
    PROVE  t \notin Absent \cup {"broken"}
BY TextsAssumption DEF Absent

LEMMA StoredInit == FlagsInit => FlagsTypeOK /\ StoredInOrder
<1> SUFFICES ASSUME FlagsInit PROVE FlagsTypeOK /\ StoredInOrder
  OBVIOUS
<1>1. FlagsTypeOK
  <2>1. parse \in [at: Stages, args: Seq(Arguments), next: Nat \ {0}]
    BY DEF FlagsInit, Stages
  <2>2. _flags \in [Options -> Stored] BY DEF FlagsInit, Stored, Absent
  <2> QED BY <2>1, <2>2 DEF FlagsInit, FlagsTypeOK
<1>2. HasOnlySeen BY TextIsNone DEF FlagsInit, HasOnlySeen, Absent
<1>3. ArgumentsHonoured BY DEF FlagsInit, ArgumentsHonoured, CommandLineTaken
<1> QED BY <1>1, <1>2, <1>3 DEF FlagsInit, StoredInOrder

\* Where store is now, nothing is ahead of it yet.
LEMMA StartsOver ==
    ASSUME FlagsTypeOK, StoredInOrder, parse' = Plain, parse.at \in {"start", "json"},
           UNCHANGED <<argv, final, _framework_json_parsed>>
    PROVE  StoredInOrder'
<1>1. Seen' = {} BY DEF Plain, Seen
<1>2. ArgumentsHonoured' BY DEF Plain, ArgumentsHonoured, CommandLineTaken
<1> QED BY <1>1, <1>2 DEF Plain, StoredInOrder, CommandLineTaken

\* With the entries as they were, the line stays honoured.
LEMMA StaysHonoured ==
    ASSUME StoredInOrder, UNCHANGED <<argv, _flags, _framework_json_parsed>>,
           parse.at = "file", parse'.at \in {"file", "file_failed", "done"}
    PROVE  StoredInOrder'
<1>1. \A o \in Options, t \in Texts \cup {"on"}:
         (Told(o, t))' = Told(o, t) /\ (ToldByJson(o, t))' = ToldByJson(o, t)
  BY DEF Told, ToldByJson
<1>2. ArgumentsHonoured' BY <1>1 DEF StoredInOrder, ArgumentsHonoured, CommandLineTaken
<1> QED BY <1>2 DEF StoredInOrder, CommandLineTaken

\* An exception on the command line: it is parsed once more, or given up.
LEMMA ThrownKeeps ==
    ASSUME FlagsTypeOK, StoredInOrder, Thrown, Storing,
           UNCHANGED <<argv, final, _framework_json_parsed>>,
           parse.at = "file" => UNCHANGED _flags
    PROVE  StoredInOrder'
<1>1. CASE parse.at = "json"
  <2>1. parse' = Plain BY <1>1 DEF Thrown
  <2> QED BY <1>1, <2>1, StartsOver
<1>2. CASE parse.at = "plain"
  <2>1. parse'.at = "failed" BY <1>2 DEF Thrown, FlagsTypeOK
  <2> QED BY <1>2, <2>1 DEF StoredInOrder, ArgumentsHonoured, CommandLineTaken
<1>3. CASE parse.at = "file"
  <2>1. parse'.at = "file_failed" BY <1>3 DEF Thrown, FlagsTypeOK
  <2> QED BY <1>3, <2>1, StaysHonoured
<1> QED BY <1>1, <1>2, <1>3 DEF Storing

\* On to the next argument of the command line.
LEMMA SeenGrows ==
    ASSUME FlagsTypeOK, More, parse' = [parse EXCEPT !.next = @ + 1]
    PROVE  /\ parse'.at = parse.at /\ parse'.args = parse.args
           /\ Seen' = Seen \cup {parse.next} /\ parse.next \notin Seen
<1>1. /\ parse'.at = parse.at /\ parse'.args = parse.args /\ parse'.next = parse.next + 1
      /\ parse.next \in Nat \ {0} /\ parse.next \in DOMAIN parse.args
  BY DEF FlagsTypeOK, More
<1> QED BY <1>1 DEF Seen

LEMMA SkipKeeps ==
    ASSUME FlagsTypeOK, StoredInOrder, Skip
    PROVE  StoredInOrder'
<1>0. /\ parse'.at = parse.at /\ parse'.args = parse.args
      /\ Seen' = Seen \cup {parse.next}
  BY SeenGrows DEF Skip
<1>1. CASE parse.at = "file" BY <1>0, <1>1, StaysHonoured DEF Skip
<1>2. CASE parse.at \in {"json", "plain"}
  <2>1. Current.option = "word" BY <1>2 DEF Skip, Skips, StoredInOrder
  <2>2. "word" \notin Options BY DEF Options, Switches, Commands, Defaulted, Ints
  <2>3. \A i \in Seen': Has(i)'
    BY <1>0, <1>2, <2>1, <2>2 DEF StoredInOrder, Has, Current, Skip
  <2>4. parse.at = "json" => HasOnlySeen'
    BY <1>0 DEF StoredInOrder, HasOnlySeen, Gives, Skip
  <2>5. ArgumentsHonoured' BY <1>0, <1>2 DEF ArgumentsHonoured, CommandLineTaken
  <2> QED BY <1>0, <1>2, <2>3, <2>4, <2>5 DEF StoredInOrder, Skip, CommandLineTaken
<1> QED BY <1>1, <1>2 DEF Skip, Storing

\* An option that is stored had no value, so none before it was the same.
LEMMA StoreKeeps ==
    ASSUME FlagsTypeOK, StoredInOrder, Store
    PROVE  StoredInOrder'
<1> DEFINE a == Current
<1>0. /\ parse'.at = parse.at /\ parse'.args = parse.args
      /\ Seen' = Seen \cup {parse.next} /\ parse.next \notin Seen
  BY SeenGrows DEF Store
<1>1. a = parse.args[parse.next] /\ a \in Arguments /\ Reads(a)
  BY DEF Store, More, Current, Readable, FlagsTypeOK
<1>2. a.option \in Options /\ a.text \in Texts \cup {"on"}
  BY <1>1 DEF Store, Skips, Reads, Arguments
<1>3. parse.at \in {"json", "plain"}
  <2>1. parse.at # "file" BY <1>1 DEF Store, Found, Reads, FlagsTypeOK
  <2> QED BY <2>1 DEF Store, Storing
<1>4. _flags' = [_flags EXCEPT ![a.option] = a.text] /\ HasNoValue(a.option)
  BY DEF Store, Takes
<1> HIDE DEF a
<1>5. \A i \in Seen': Has(i)'
  <2> SUFFICES ASSUME NEW i \in Seen' PROVE Has(i)'
    OBVIOUS
  <2>1. CASE i = parse.next BY <1>0, <1>1, <1>2, <1>4, <2>1 DEF Has, FlagsTypeOK
  <2>2. CASE i \in Seen
    <3>1. Has(i) /\ parse.args[i] \in Arguments /\ Reads(parse.args[i])
      BY <1>3, <2>2 DEF StoredInOrder, Seen, FlagsTypeOK, Store, Readable
    <3>2. parse.args[i].option \in Options => parse.args[i].text \in Texts \cup {"on"}
      BY <3>1 DEF Reads
    <3>3. parse.args[i].option # a.option
      BY <1>2, <1>4, <3>1, <3>2, TextIsNone DEF Has, HasNoValue
    <3> QED BY <1>0, <1>4, <3>1, <3>3 DEF Has, FlagsTypeOK
  <2> QED BY <1>0, <2>1, <2>2
<1>6. ASSUME parse.at = "json" PROVE HasOnlySeen'
  <2> SUFFICES ASSUME NEW o \in Options, _flags'[o] \in Texts \cup {"on"}
               PROVE  \E i \in Seen': Gives(i, o)'
    BY DEF HasOnlySeen
  <2>1. CASE o = a.option
    <3>1. a = [option |-> o, text |-> _flags'[o]] BY <1>1, <1>4, <2>1 DEF Arguments, FlagsTypeOK
    <3> QED BY <1>0, <1>1, <3>1 DEF Gives
  <2>2. CASE o # a.option
    <3>1. _flags'[o] = _flags[o] BY <1>4, <2>2 DEF FlagsTypeOK
    <3> QED BY <1>0, <1>6, <3>1 DEF StoredInOrder, HasOnlySeen, Gives
  <2> QED BY <2>1, <2>2
<1>7. ArgumentsHonoured' BY <1>0, <1>3 DEF ArgumentsHonoured, CommandLineTaken
<1> QED BY <1>0, <1>3, <1>5, <1>6, <1>7 DEF StoredInOrder, Store, CommandLineTaken

\* With all arguments seen the line is honoured; a default is no text.
LEMMA TakenIsHonoured ==
    ASSUME FlagsTypeOK, StoredInOrder, parseCommandLineFlags, _flags["help"] = "absent"
    PROVE  ArgumentsHonoured'
<1>0. argv \in Lines /\ argv.plain \in Seq(Arguments) /\ argv.json \in Seq(Entries)
  BY LineTyped DEF Lines
<1> DEFINE n == Len(argv.plain)
           m == Len(argv.json)
<1>a. n \in Nat /\ DOMAIN argv.plain = 1..n /\ m \in Nat /\ DOMAIN argv.json = 1..m
  BY <1>0
<1>b. ASSUME parse.at = "json"
      PROVE  /\ DOMAIN parse.args = 1..n + m
             /\ \A i \in 1..n: parse.args[i] = argv.plain[i]
             /\ \A j \in 1..m: parse.args[n + j] = Flag(argv.json[j])
  <2>1. parse.args = newArgv(argv) BY <1>b DEF StoredInOrder
  <2>2. DOMAIN parse.args = 1..Len(parse.args) BY DEF FlagsTypeOK
  <2>3. /\ Len(newArgv(argv)) = n + m
        /\ \A i \in 1..n: newArgv(argv)[i] = argv.plain[i]
        /\ \A j \in 1..m: newArgv(argv)[n + j] = Flag(argv.json[j])
    BY <1>0, NewArgvIs
  <2> HIDE DEF n, m
  <2> QED BY <2>1, <2>2, <2>3
<1> HIDE DEF n, m
<1>1. Seen = DOMAIN parse.args
  <2>1. parse.next \notin 1..Len(parse.args) /\ parse.next \in Nat \ {0}
        /\ DOMAIN parse.args = 1..Len(parse.args) /\ Len(parse.args) \in Nat
    BY DEF parseCommandLineFlags, More, FlagsTypeOK
  <2> QED BY <2>1 DEF Seen
<1>2. /\ UNCHANGED argv /\ parse'.at = "file"
      /\ _framework_json_parsed' = (parse.at = "json") /\ parse.at \in {"json", "plain"}
  BY DEF parseCommandLineFlags
<1>3. \A o \in Options, t \in Texts \cup {"on"}: _flags'[o] = t <=> _flags[o] = t
  <2> TAKE o \in Options, t \in Texts \cup {"on"}
  <2>1. t \notin {"absent", "default"} BY TextIsNone DEF Absent
  <2>2. _flags'[o] = IF o \in Defaulted /\ _flags[o] = "absent" THEN "default" ELSE _flags[o]
    BY DEF parseCommandLineFlags
  <2> QED BY <2>1, <2>2
<1>4. \A i \in DOMAIN parse.args: Has(i) BY <1>1, <1>2 DEF StoredInOrder
<1>5. ASSUME NEW o \in Options, NEW t \in Texts \cup {"on"}, Told(o, t) PROVE _flags[o] = t
  <2>1. PICK i \in DOMAIN argv.plain: argv.plain[i] = [option |-> o, text |-> t]
    BY <1>5 DEF Told
  <2>2. i \in DOMAIN parse.args /\ parse.args[i] = argv.plain[i]
    <3>1. CASE parse.at = "plain" BY <3>1 DEF StoredInOrder
    <3>2. CASE parse.at = "json"
      <4>1. i \in 1..n /\ i \in 1..n + m BY <1>a, <2>1
      <4> QED BY <1>b, <2>1, <3>2, <4>1
    <3> QED BY <1>2, <3>1, <3>2
  <2> QED BY <1>4, <2>1, <2>2 DEF Has
<1>6. ASSUME parse.at = "json", NEW o \in Options, NEW t \in Texts \cup {"on"}
      PROVE  _flags[o] = t <=> Told(o, t) \/ ToldByJson(o, t)
  <2>0. argv.is_json /\ HasOnlySeen BY <1>6 DEF StoredInOrder
  <2>1. ASSUME ToldByJson(o, t) PROVE _flags[o] = t
    <3>1. PICK j \in DOMAIN argv.json:
             /\ isFlag(argv.json[j].key) /\ _pretty_flags[argv.json[j].key] = o
             /\ argv.json[j].value # FALSE
             /\ t = IF o \in Switches THEN "on" ELSE argv.json[j].value
      BY <2>1 DEF ToldByJson
    <3>2. j \in 1..m /\ argv.json[j] \in Entries BY <1>0, <1>a
    <3>3. Flag(argv.json[j]).option = o /\ Flag(argv.json[j]).text = t
      BY <3>1, <3>2, FlagOfEntry DEF Unused
    <3>4. n + j \in DOMAIN parse.args /\ parse.args[n + j] = Flag(argv.json[j])
      <4>1. n + j \in 1..n + m BY <1>a, <3>2
      <4> QED BY <1>6, <1>b, <3>2, <4>1
    <3> QED BY <1>4, <3>3, <3>4 DEF Has
  <2>2. ASSUME _flags[o] = t PROVE Told(o, t) \/ ToldByJson(o, t)
    <3>1. PICK i \in DOMAIN parse.args: parse.args[i] = [option |-> o, text |-> t]
      BY <1>1, <2>0, <2>2 DEF HasOnlySeen, Gives
    <3>2. CASE i \in 1..n
      <4>1. parse.args[i] = argv.plain[i] BY <1>6, <1>b, <3>2
      <4> QED BY <1>a, <3>1, <3>2, <4>1 DEF Told
    <3>3. CASE i \notin 1..n
      <4>1. i \in 1..n + m /\ n \in Nat /\ m \in Nat BY <1>6, <1>a, <1>b, <3>1
      <4>2. PICK j \in 1..m: i = n + j
        <5>1. i - n \in 1..m /\ i = n + (i - n) BY <3>3, <4>1
        <5> QED BY <5>1
      <4>3. parse.args[i] = Flag(argv.json[j]) /\ argv.json[j] \in Entries
        BY <1>0, <1>6, <1>a, <1>b, <4>2
      <4>4. ~Unused(argv.json[j])
        <5>1. o # "word" BY DEF Options, Switches, Commands, Defaulted, Ints
        <5> QED BY <3>1, <4>3, <5>1, FlagOfEntry
      <4>5. Flag(argv.json[j]).option = o /\ Flag(argv.json[j]).text = t BY <3>1, <4>3
      <4>6. isFlag(argv.json[j].key) /\ argv.json[j].value # FALSE BY <4>4 DEF Unused
      <4>7. /\ _pretty_flags[argv.json[j].key] = o
            /\ t = IF o \in Switches THEN "on" ELSE argv.json[j].value
        BY <4>3, <4>4, <4>5, FlagOfEntry
      <4> QED BY <1>a, <2>0, <4>2, <4>6, <4>7 DEF ToldByJson
    <3> QED BY <3>2, <3>3
  <2> QED BY <1>5, <2>1, <2>2
<1>7. \A o \in Options, t \in Texts \cup {"on"}:
         (Told(o, t))' = Told(o, t) /\ (ToldByJson(o, t))' = ToldByJson(o, t)
  BY <1>2 DEF Told, ToldByJson
<1> QED BY <1>2, <1>3, <1>5, <1>6, <1>7 DEF ArgumentsHonoured

LEMMA ParsingKeeps ==
    ASSUME FlagsTypeOK, StoredInOrder, ParseFlags
    PROVE  FlagsTypeOK' /\ StoredInOrder'
<1>1. CASE parsejsonFlags
  <2>1. parse'.at = "json" /\ parse'.args = newArgv(argv) /\ Seen' = {}
    BY <1>1 DEF parsejsonFlags, Seen
  <2>2. \A o \in Options: _flags'[o] \notin Texts \cup {"on"}
    BY <1>1 DEF parsejsonFlags, StoredInOrder, HasOnlySeen, Seen
  <2>3. HasOnlySeen' BY <2>2 DEF HasOnlySeen
  <2>4. ArgumentsHonoured' BY <2>1 DEF ArgumentsHonoured, CommandLineTaken
  <2>5. parse'.args = newArgv(argv)' /\ argv.is_json'
    BY <1>1 DEF parsejsonFlags, newArgv, generateCommandLineFromJson
  <2>6. final' = {} /\ ~_framework_json_parsed' BY <1>1 DEF parsejsonFlags, StoredInOrder, CommandLineTaken
  <2>7. StoredInOrder' BY <2>1, <2>3, <2>4, <2>5, <2>6 DEF StoredInOrder
  <2> QED BY <2>7, FlagsTyped
<1>2. CASE NoJson
  <2>1. /\ parse' = Plain /\ parse.at \in {"start", "json"}
        /\ UNCHANGED <<argv, final, _framework_json_parsed>>
    BY <1>2 DEF NoJson
  <2> QED BY <2>1, StartsOver, FlagsTyped
<1>3. CASE Unreadable
  <2>1. /\ Thrown /\ Storing /\ UNCHANGED <<argv, final, _framework_json_parsed>>
        /\ UNCHANGED _flags
    BY <1>3 DEF Unreadable
  <2> QED BY <2>1, ThrownKeeps, FlagsTyped
<1>4. CASE StoreThrows
  <2>1. parse.at = "file" => UNCHANGED _flags
    <3>1. Reads(Current) /\ Current.option # "word"
      BY <1>4 DEF StoreThrows, Readable, More, Current, Skips
    <3> QED BY <1>4, <3>1 DEF StoreThrows, Found, Reads
  <2>2. Thrown /\ Storing /\ UNCHANGED <<argv, final, _framework_json_parsed>>
    BY <1>4 DEF StoreThrows
  <2> QED BY <2>1, <2>2, ThrownKeeps, FlagsTyped
<1>5. CASE parseCommandLineFlags
  <2>1. CASE _flags["help"] = "absent"
    <3>1. parse'.at = "file" BY <1>5, <2>1 DEF parseCommandLineFlags
    <3>2. ArgumentsHonoured' BY <1>5, <2>1, TakenIsHonoured
    <3>3. StoredInOrder' BY <3>1, <3>2 DEF StoredInOrder, CommandLineTaken
    <3> QED BY <3>3, FlagsTyped
  <2>2. CASE _flags["help"] # "absent"
    <3>1. parse'.at = "helped" /\ ~_framework_json_parsed'
      BY <1>5, <2>2
      DEF parseCommandLineFlags, FlagsTypeOK, StoredInOrder, CommandLineTaken
    <3>2. StoredInOrder' BY <3>1 DEF StoredInOrder, ArgumentsHonoured, CommandLineTaken
    <3> QED BY <3>2, FlagsTyped
  <2> QED BY <2>1, <2>2
<1>6. CASE parseConfigFileFlags
  <2>1. parse.at = "file" /\ parse'.at = "done" /\ UNCHANGED <<argv, _flags, _framework_json_parsed>>
    BY <1>6 DEF parseConfigFileFlags, FlagsTypeOK
  <2> QED BY <2>1, StaysHonoured, FlagsTyped
<1> QED BY <1>1, <1>2, <1>3, <1>4, <1>5, <1>6, SkipKeeps, StoreKeeps, FlagsTyped DEF ParseFlags

(***************************************************************************)
(* The handlers.                                                           *)
(***************************************************************************)
\* A step of a handler that leaves its call as it should be leaves all so.
LEMMA OneCall ==
    ASSUME NEW h \in Handlers, NEW c, Handle(h, c),
           call \in [Handlers -> Calls \cup {Idle}], CallsInStep,
           c = Idle \/ (c \in Calls /\ CallInStep(c))
    PROVE  call' \in [Handlers -> Calls \cup {Idle}] /\ CallsInStep'
BY DEF Handle, CallsInStep

LEMMA ReceiveKeeps ==
    ASSUME call \in [Handlers -> Calls \cup {Idle}], CallsInStep,
           NEW h \in Handlers, NEW op \in Ops, Receive(h, op)
    PROVE  call' \in [Handlers -> Calls \cup {Idle}] /\ CallsInStep'
<1> DEFINE asks == op \notin {"Ping", "Kill"}
           c == [op |-> op, at |-> IF asks THEN "plugin" ELSE "done",
                 result |-> <<>>, metrics |-> <<>>, error |-> FALSE,
                 status |-> IF asks THEN "none" ELSE "OK"]
<1>1. c \in Calls BY DEF Calls
<1>2. CallInStep(c)
  <2>1. Filled(c, 0) BY DEF Filled
  <2>2. Len(c.result) = 0 OBVIOUS
  <2> QED BY <2>1, <2>2 DEF CallInStep, Whole
<1>3. Handle(h, c) BY DEF Receive
<1> QED BY <1>1, <1>2, <1>3, OneCall

LEMMA AnswerKeeps ==
    ASSUME call \in [Handlers -> Calls \cup {Idle}], CallsInStep,
           NEW h \in Handlers, NEW r \in Results, PluginAnswers(h, r)
    PROVE  call' \in [Handlers -> Calls \cup {Idle}] /\ CallsInStep'
<1> DEFINE c == [call[h] EXCEPT !.result = r, !.at = "fill"]
<1>0. call[h] \in Calls /\ CallInStep(call[h]) /\ call[h].at = "plugin"
  BY DEF PluginAnswers, At, CallsInStep
<1>1. c \in Calls BY <1>0, ResultsAssumption DEF Calls
<1>2. CallInStep(c)
  <2>1. c.metrics = <<>> /\ c.status = "none" /\ ~c.error /\ c.at = "fill"
    BY <1>0 DEF CallInStep, Calls
  <2>2. Filled(c, 0) BY <2>1 DEF Filled
  <2>3. 0 \in 0..Len(c.result) BY <1>1 DEF Calls
  <2> QED BY <2>1, <2>2, <2>3 DEF CallInStep
<1>3. Handle(h, c) BY DEF PluginAnswers
<1> QED BY <1>1, <1>2, <1>3, OneCall

LEMMA DoneKeeps ==
    ASSUME call \in [Handlers -> Calls \cup {Idle}], CallsInStep,
           NEW h \in Handlers, PluginDoes(h) \/ PluginThrows(h)
    PROVE  call' \in [Handlers -> Calls \cup {Idle}] /\ CallsInStep'
<1>0. call[h] \in Calls /\ CallInStep(call[h]) /\ call[h].at = "plugin"
  BY DEF PluginDoes, PluginThrows, At, CallsInStep
<1>1. CASE PluginDoes(h)
  <2> DEFINE c == [call[h] EXCEPT !.status = "OK", !.at = "done"]
  <2>1. c \in Calls BY <1>0 DEF Calls
  <2>2. c.metrics = <<>> /\ c.result = <<>> /\ ~c.error /\ c.status = "OK" /\ c.at = "done"
    BY <1>0 DEF CallInStep, Calls
  <2>3. Filled(c, 0) /\ Len(c.result) = 0 BY <2>2 DEF Filled
  <2>4. CallInStep(c) BY <2>2, <2>3 DEF CallInStep, Whole
  <2>5. Handle(h, c) BY <1>1 DEF PluginDoes
  <2> QED BY <2>1, <2>4, <2>5, OneCall
<1>2. CASE PluginThrows(h)
  <2> DEFINE c == [call[h] EXCEPT !.error = TRUE, !.status = "UNKNOWN", !.at = "done"]
  <2>1. c \in Calls BY <1>0 DEF Calls
  <2>2. c.metrics = <<>> /\ c.error /\ c.status = "UNKNOWN" /\ c.at = "done"
    BY <1>0 DEF CallInStep, Calls
  <2>3. CallInStep(c) BY <2>2 DEF CallInStep, Whole
  <2>4. Handle(h, c) BY <1>2 DEF PluginThrows
  <2> QED BY <2>1, <2>3, <2>4, OneCall
<1> QED BY <1>1, <1>2

\* One more metric is copied, or the last was.
LEMMA FillKeeps ==
    ASSUME call \in [Handlers -> Calls \cup {Idle}], CallsInStep,
           NEW h \in Handlers, Fill(h)
    PROVE  call' \in [Handlers -> Calls \cup {Idle}] /\ CallsInStep'
<1> DEFINE c == call[h]
           n == Len(c.metrics)
           met == Replied(c.op, c.result[n + 1])
           done == [c EXCEPT !.status = "OK", !.at = "done"]
           more == [c EXCEPT !.metrics = Append(c.metrics, met)]
<1>0. c \in Calls /\ CallInStep(c) /\ c.at = "fill" BY DEF Fill, At, CallsInStep
<1>1. PICK m \in 0..Len(c.result): Filled(c, m) BY <1>0 DEF CallInStep
<1>2. m = n /\ n \in 0..Len(c.result) /\ c.status = "none" /\ ~c.error
  <2>1. c.metrics \in Seq([met: Metrics, stamped: BOOLEAN]) /\ m \in Nat
    BY <1>0, <1>1 DEF Calls
  <2>2. DOMAIN c.metrics = 1..m BY <1>1 DEF Filled
  <2>3. m = n BY <2>1, <2>2
  <2> QED BY <1>0, <1>1, <2>3 DEF CallInStep
<1>3. CASE n = Len(c.result)
  <2>1. done \in Calls BY <1>0 DEF Calls
  <2>2. done.metrics = c.metrics /\ done.result = c.result /\ done.op = c.op
        /\ done.status = "OK" /\ done.at = "done" /\ ~done.error
    BY <1>0, <1>2 DEF Calls
  <2>3. Filled(done, Len(done.result)) BY <1>1, <1>2, <1>3, <2>2 DEF Filled
  <2>4. CallInStep(done) BY <2>2, <2>3 DEF CallInStep, Whole
  <2>5. Handle(h, done) BY <1>3 DEF Fill
  <2> QED BY <2>1, <2>4, <2>5, OneCall
<1>4. CASE n # Len(c.result)
  <2>1. n + 1 \in 1..Len(c.result) /\ c.result \in Seq(Metrics)
        /\ c.metrics \in Seq([met: Metrics, stamped: BOOLEAN])
    BY <1>0, <1>2, <1>4 DEF Calls
  <2>2. met \in [met: Metrics, stamped: BOOLEAN] BY <2>1 DEF Replied
  <2>3. Append(c.metrics, met) \in Seq([met: Metrics, stamped: BOOLEAN]) BY <2>1, <2>2
  <2>4. more \in Calls BY <1>0, <2>3 DEF Calls
  <2>5. more.metrics = Append(c.metrics, met) /\ more.result = c.result /\ more.op = c.op
        /\ more.status = "none" /\ more.at = "fill" /\ ~more.error
    BY <1>0, <1>2 DEF Calls
  <2>6. Append(c.metrics, met) = [i \in 1..n + 1 |-> Replied(c.op, c.result[i])]
    <3> HIDE DEF c, met
    <3>1. c.metrics = [i \in 1..n |-> Replied(c.op, c.result[i])] BY <1>1, <1>2 DEF Filled
    <3>2. Append(c.metrics, met) = [i \in 1..n + 1 |-> IF i <= n THEN c.metrics[i] ELSE met]
      BY <2>1, <2>2, <2>3
    <3>3. n \in Nat BY <2>1
    <3>4. \A i \in 1..n + 1: (IF i <= n THEN c.metrics[i] ELSE met) = Replied(c.op, c.result[i])
      <4> TAKE i \in 1..n + 1
      <4>1. CASE i <= n BY <3>1, <3>3, <4>1
      <4>2. CASE i = n + 1 BY <3>3, <4>2 DEF met
      <4> QED BY <3>3, <4>1, <4>2
    <3> QED BY <3>2, <3>4
  <2>7. Filled(more, n + 1) BY <2>5, <2>6 DEF Filled
  <2>8. n + 1 \in 0..Len(more.result) BY <2>1, <2>5
  <2>9. CallInStep(more) BY <2>5, <2>7, <2>8 DEF CallInStep
  <2>10. Handle(h, more) BY <1>4 DEF Fill
  <2> QED BY <2>4, <2>9, <2>10, OneCall
<1> QED BY <1>3, <1>4

LEMMA ServeKeeps ==
    ASSUME type \in Types, call \in [Handlers -> Calls \cup {Idle}], CallsInStep, Serve(type)
    PROVE  call' \in [Handlers -> Calls \cup {Idle}] /\ CallsInStep'
<1>1. OpsOf(type) \subseteq Ops BY DEF Types, OpsOf, Ops, MetricOps
<1>2. PICK h \in Handlers:
         \/ \E op \in OpsOf(type): Receive(h, op)
         \/ \E r \in Results: PluginAnswers(h, r)
         \/ PluginDoes(h) \/ PluginThrows(h) \/ Fill(h) \/ Reply(h)
  BY DEF Serve
<1>3. CASE \E op \in OpsOf(type): Receive(h, op) BY <1>1, <1>3, ReceiveKeeps
<1>4. CASE \E r \in Results: PluginAnswers(h, r) BY <1>4, AnswerKeeps
<1>5. CASE PluginDoes(h) \/ PluginThrows(h) BY <1>5, DoneKeeps
<1>6. CASE Fill(h) BY <1>6, FillKeeps
<1>7. CASE Reply(h)
  BY <1>7 DEF Reply, Handle, CallsInStep
<1> QED BY <1>2, <1>3, <1>4, <1>5, <1>6, <1>7
-----------------------------------------------------------------------------
(***************************************************************************)
(* The main thread.                                                        *)
(***************************************************************************)
\* apply_defaults gives a config, with one of the values it may give each key.
LEMMA DefaultsTyped ==
    ASSUME NEW cfg, NEW pol, NEW c \in ApplyDefaults(cfg, pol)
    PROVE  /\ c \in ConfigMaps
           /\ \A kind \in Kinds, k \in Keys: c[kind][k] \in ValuesAfter(cfg, pol, kind, k)
<1>1. \A kind \in Kinds: c[kind] \in MapsAfter(cfg, pol, kind) BY DEF ApplyDefaults
<1>2. c \in [Kinds -> [Keys -> Values \cup {None}]]
  <2>1. c \in [Kinds -> UNION {MapsAfter(cfg, pol, kind): kind \in Kinds}] BY DEF ApplyDefaults
  <2>2. \A kind \in Kinds: c[kind] \in [Keys -> Values \cup {None}] BY <1>1 DEF MapsAfter
  <2> QED BY <2>1, <2>2
<1> QED BY <1>1, <1>2 DEF MapsAfter, ConfigMaps

\* The flags stand while nothing is parsed.
LEMMA FlagsStand ==
    ASSUME FlagsTypeOK, StoredInOrder, UNCHANGED flagVars
    PROVE  FlagsTypeOK' /\ StoredInOrder'
<1> USE DEF flagVars
<1>1. \A o \in Options, t \in Texts \cup {"on"}:
         (Told(o, t))' = Told(o, t) /\ (ToldByJson(o, t))' = ToldByJson(o, t)
  BY DEF Told, ToldByJson
<1>2. ArgumentsHonoured' BY <1>1 DEF StoredInOrder, ArgumentsHonoured, CommandLineTaken
<1>3. Seen' = Seen /\ newArgv(argv)' = newArgv(argv)
  BY DEF Seen, newArgv, generateCommandLineFromJson
<1>4. (\A i \in Seen: Has(i)) => \A i \in Seen': Has(i)' BY <1>3 DEF Has
<1>5. HasOnlySeen => HasOnlySeen' BY <1>3 DEF HasOnlySeen, Gives
<1> QED BY <1>2, <1>3, <1>4, <1>5 DEF StoredInOrder, FlagsTypeOK, CommandLineTaken

LEMMA InitMain == Init => MainInv
<1> SUFFICES ASSUME Init PROVE MainInv
  OBVIOUS
<1>0. FlagsTypeOK /\ StoredInOrder BY StoredInit DEF Init
<1>1. policy \in Policies BY DEF Init, EmptyPolicy, Policies
<1>2. config \in ConfigMaps /\ cli \in Flags
  <2>1. NoConfig \in ConfigMaps BY DEF NoConfig, ConfigMaps
  <2> QED BY <2>1 DEF Init, NoFlags, Flags, Files
<1>3. call \in [Handlers -> Calls \cup {Idle}] /\ CallsInStep
  BY DEF Init, NoCalls, CallsInStep
<1>4. rules \in 0..MaxRules BY MaxRulesAssumption DEF Init
<1>5. CredentialsKept
  <2>1. Len(cli.roots) = 0 /\ cli.roots = <<>> BY DEF Init, NoFlags
  <2> QED BY <2>1 DEF Init, CredentialsKept, Configured, Exporting, Diagnosing
<1> QED BY <1>0, <1>1, <1>2, <1>3, <1>4, <1>5 DEF Init, MainInv, TypeOK, Places

\* Steps of the main thread that make no credentials.
Moves ==
    \/ main' = main
    \/ ~Configured /\ main' \in {"exited", "terminated"}
    \/ main = "start" /\ main' = "credentials"
    \/ main = "start" /\ main' = "policy" /\ ~Exporting
    \/ Diagnosing /\ Diagnosing'
    \/ Configured /\ Configured'

LEMMA CredentialsStand ==
    ASSUME CredentialsKept, Moves, UNCHANGED <<type, cli, nextPath, tls_ca, secure>>
    PROVE  CredentialsKept'
<1>1. main' \in {"flags", "start", "policy", "types", "collect", "credentials"} =>
         main \in {"flags", "start", "policy", "types", "collect", "credentials"}
  BY DEF Moves, Diagnosing, Configured
<1>2. main' = "authority" => main = "authority" BY DEF Moves, Diagnosing, Configured
<1>3. Configured' <=> Configured BY DEF Moves, Diagnosing, Configured
<1>4. Exporting' = Exporting BY DEF Exporting, diagnostic_enabled
<1>5. Exporting => ~Diagnosing' BY DEF Moves, Diagnosing, Configured, CredentialsKept
<1>6. ReadSoFar' = ReadSoFar BY DEF ReadSoFar
<1> HIDE DEF ReadSoFar, Exporting, Diagnosing, Configured, Moves
<1> QED BY <1>1, <1>2, <1>3, <1>4, <1>5, <1>6 DEF CredentialsKept

\* What has been read grows by the path the loop is at.
LEMMA ReadsOneMore ==
    ASSUME ReadSoFar, nextPath \in 1..Len(cli.roots), cli.roots \in Seq(Paths),
           UNCHANGED cli, nextPath' = nextPath + 1, ~PathThrows(Path),
           tls_ca' = tls_ca \cup CertificatesAt(Path)
    PROVE  ReadSoFar'
<1>1. 1..nextPath' - 1 = (1..nextPath - 1) \cup {nextPath} OBVIOUS
<1>2. UNCHANGED cli.roots OBVIOUS
<1> DEFINE Before == 1..nextPath - 1
           Certs(i) == CertificatesAt(cli.roots[i])
           Was == UNION {Certs(i): i \in Before}
           Is == UNION {Certs(i): i \in Before \cup {nextPath}}
<1>3. Is = Was \cup Certs(nextPath)
  <2> HIDE DEF Before, Certs
  <2>1. \A x: x \in Was <=> \E i \in Before: x \in Certs(i) OBVIOUS
  <2>2. \A x: x \in Is <=> \E i \in Before \cup {nextPath}: x \in Certs(i) OBVIOUS
  <2>3. \A x: (\E i \in Before \cup {nextPath}: x \in Certs(i))
                 <=> (\E i \in Before: x \in Certs(i)) \/ x \in Certs(nextPath)
    OBVIOUS
  <2> HIDE DEF Was, Is
  <2>4. \A x: x \in Is <=> x \in Was \/ x \in Certs(nextPath) BY <2>1, <2>2, <2>3
  <2> QED BY <2>4
<1> QED BY <1>1, <1>2, <1>3 DEF ReadSoFar, Path

\* Having read them all it has the certificates of the list.
LEMMA ReadsAll ==
    ASSUME ReadSoFar, ~MorePaths, nextPath \in 1..Len(cli.roots) + 1, cli.roots \in Seq(Paths)
    PROVE  /\ tls_ca = CertificatesIn(cli.roots)
           /\ \A i \in DOMAIN cli.roots: ~PathThrows(cli.roots[i])
<1>1. DOMAIN cli.roots = 1..nextPath - 1 BY DEF MorePaths
<1> QED BY <1>1 DEF ReadSoFar, CertificatesIn

LEMMA StepMain == MainInv /\ [Next]_vars => MainInv'
<1> SUFFICES ASSUME MainInv, [Next]_vars PROVE MainInv'
  OBVIOUS
<1> USE DEF diagnosticVars, exportVars
<1>f. FlagsTypeOK' /\ StoredInOrder'
  <2>1. CASE FlagsConstructed
    BY <2>1, ParsingKeeps DEF FlagsConstructed, MainInv, TypeOK
  <2>2. CASE UNCHANGED flagVars BY <2>2, FlagsStand DEF MainInv, TypeOK
  <2> QED BY <2>1, <2>2
    DEF Next, MainStep, vars, use_cli_args, PrintVersion, StartPlugin, StartDiagnostics,
        print_config_policy, print_metric_types, print_collect_metrics,
        DiagnosedPluginThrows, InsecureServerCredentials, KeyAndCertificateLoad,
        load_tls_ca, TryPath, SslServerCredentials, doConfigure, doRegister, PrintPreamble,
        HttpRuns, HttpFails, doJoin, PluginAddsRule, Handler
<1>0. CASE UNCHANGED vars
  BY <1>f, <1>0, CredentialsStand DEF vars, MainInv, TypeOK, Moves, CallsInStep
<1>1. CASE PrintVersion \/ StartPlugin \/ print_metric_types \/ print_collect_metrics
           \/ DiagnosedPluginThrows \/ doJoin \/ FlagsConstructed
  <2>1. /\ UNCHANGED <<type, cli, rules, policy, config, secure, server, announced, call>>
        /\ UNCHANGED <<nextPath, tls_ca>> /\ main' \in Places
    BY <1>1 DEF MainInv, TypeOK, Goto, Places, Ended, PrintVersion, StartPlugin,
       print_metric_types, print_collect_metrics, DiagnosedPluginThrows, doJoin,
       FlagsConstructed
  <2>2. Moves
    BY <1>1 DEF Moves, Configured, Diagnosing, Goto, PrintVersion, StartPlugin,
       print_metric_types, print_collect_metrics, DiagnosedPluginThrows, doJoin,
       FlagsConstructed
  <2> QED BY <1>f, <2>1, <2>2, CredentialsStand DEF MainInv, TypeOK, CallsInStep
<1>c. CASE use_cli_args
  <2>1. cli' \in Flags
    <3>1. \A o \in Options: _flags[o] \in Stored /\ IsParsedFlag(o) \in BOOLEAN
      BY DEF MainInv, TypeOK, FlagsTypeOK, IsParsedFlag
    <3>2. {"config", "key-path", "cert-path", "root-cert-paths"} \subseteq Options
      BY DEF Options, Defaulted
    <3>3. /\ ConfigIn[_flags["config"]] \in ConfigMaps
          /\ FileAt[_flags["key-path"]] \in Files /\ FileAt[_flags["cert-path"]] \in Files
          /\ PathsIn[_flags["root-cert-paths"]] \in Seq(Paths)
      BY <3>1, <3>2, TextsMeanAssumption
    <3>4. _framework_json_parsed \in BOOLEAN BY DEF MainInv, TypeOK, FlagsTypeOK
    <3> QED BY <1>c, <3>3, <3>4 DEF use_cli_args, Flags, IsParsedFlag
  <2>2. UNCHANGED <<type, rules, policy, config, nextPath, tls_ca, secure, server, announced, call>>
        /\ main = "flags" /\ main' = "start"
    BY <1>c DEF use_cli_args, Goto
  <2>3. nextPath = 1 /\ tls_ca = {} /\ ~secure
    BY <2>2 DEF MainInv, CredentialsKept, Configured
  <2>4. 1 \in 1..Len(cli'.roots) + 1 BY <2>1 DEF Flags
  <2>5. CredentialsKept' BY <2>2, <2>3, <2>4 DEF CredentialsKept, Configured, Diagnosing
  <2> QED BY <1>f, <2>1, <2>2, <2>5 DEF MainInv, TypeOK, CallsInStep, Places
<1>2. CASE StartDiagnostics
  <2>1. /\ UNCHANGED <<type, cli, rules, policy, nextPath, tls_ca, secure, server, announced, call>>
        /\ main' \in {"terminated", "policy"} /\ config' \in {config, cli.config}
    BY <1>2 DEF StartDiagnostics, Goto
  <2>2. cli.config \in ConfigMaps BY DEF MainInv, TypeOK, Flags
  <2>3. Moves BY <1>2 DEF StartDiagnostics, Goto, Moves, Configured, Exporting
  <2> QED BY <1>f, <2>1, <2>2, <2>3, CredentialsStand
    DEF MainInv, TypeOK, CallsInStep, Places, Ended
<1>3. ASSUME NEW kind \in Kinds, NEW ns \in Namespaces, NEW rule \in Rules,
             PluginAddsRule(kind, ns, rule)
      PROVE  MainInv'
  <2>1. AddRule(policy, kind, ns, rule) \in Policies
    BY DEF MainInv, TypeOK, Policies, AddRule
  <2>2. rules + 1 \in 0..MaxRules
    <3>1. rules \in 0..MaxRules /\ rules < MaxRules
      BY <1>3 DEF MainInv, TypeOK, PluginAddsRule
    <3> QED BY <3>1, MaxRulesAssumption
  <2>3. UNCHANGED <<type, cli, main, config, nextPath, tls_ca, secure, server, announced, call>>
        /\ rules' = rules + 1 /\ policy' = AddRule(policy, kind, ns, rule)
    BY <1>3 DEF PluginAddsRule
  <2> QED BY <1>f, <2>1, <2>2, <2>3, CredentialsStand DEF MainInv, TypeOK, Moves, CallsInStep
<1>4. CASE print_config_policy
  <2>1. config' \in ConfigMaps BY <1>4, DefaultsTyped DEF print_config_policy
  <2>2. /\ UNCHANGED <<type, cli, rules, policy, nextPath, tls_ca, secure, server, announced, call>>
        /\ main' \in {"exited", "types"} /\ main = "policy"
    BY <1>4 DEF print_config_policy, Goto
  <2>3. Moves BY <2>2 DEF Moves, Configured, Diagnosing
  <2> QED BY <1>f, <2>1, <2>2, <2>3, CredentialsStand
    DEF MainInv, TypeOK, CallsInStep, Places, Ended
<1>5. CASE InsecureServerCredentials \/ KeyAndCertificateLoad
  <2>1. UNCHANGED <<type, cli, rules, policy, config, nextPath, tls_ca, secure, server, announced, call>>
        /\ main = "credentials" /\ main' \in {"configure", "terminated", "authority"}
    BY <1>5 DEF InsecureServerCredentials, KeyAndCertificateLoad, Goto
  <2>2. nextPath = 1 /\ tls_ca = {} /\ ~secure /\ nextPath \in 1..Len(cli.roots) + 1
    BY <2>1 DEF MainInv, CredentialsKept, Configured
  <2>3. /\ main' = "authority" => cli.tls /\ Loads(cli.key) /\ Loads(cli.crt)
        /\ main' = "configure" => ~cli.tls
    BY <1>5 DEF InsecureServerCredentials, KeyAndCertificateLoad, Goto
  <2>4. ReadSoFar' BY <2>1, <2>2 DEF ReadSoFar
  <2>5. cli.tls \in BOOLEAN /\ secure \in BOOLEAN BY DEF MainInv, TypeOK, Flags
  <2>6. CredentialsKept'
    BY <2>1, <2>2, <2>3, <2>4, <2>5 DEF CredentialsKept, Configured, Diagnosing
  <2> QED BY <1>f, <2>1, <2>6 DEF MainInv, TypeOK, CallsInStep, Places, Ended
<1>8. CASE load_tls_ca
  <2>1. UNCHANGED <<type, cli, rules, policy, config, secure, server, announced, call>>
        /\ main = "authority" /\ main' \in {"terminated", "authority"} /\ MorePaths
    BY <1>8 DEF load_tls_ca, TryPath
  <2>2. /\ cli.tls /\ Loads(cli.key) /\ Loads(cli.crt) /\ ReadSoFar /\ ~secure
        /\ nextPath \in 1..Len(cli.roots) + 1
    BY <2>1 DEF MainInv, CredentialsKept, Configured
  <2>3. cli.roots \in Seq(Paths) /\ nextPath \in 1..Len(cli.roots) /\ tls_ca \subseteq Contents
    BY <2>1 DEF MainInv, TypeOK, Flags, MorePaths
  <2>4. CertificatesAt(Path) \subseteq Contents
    <3>1. Path \in Paths BY <2>3 DEF Path
    <3> QED BY <3>1 DEF CertificatesAt, Paths, Files
  <2>5. CASE PathThrows(Path)
    <3>1. main' = "terminated" /\ UNCHANGED <<nextPath, tls_ca>>
      BY <1>8, <2>5 DEF load_tls_ca, TryPath
    <3>2. CredentialsKept' BY <2>1, <2>2, <3>1 DEF CredentialsKept, Configured, Diagnosing
    <3> QED BY <1>f, <2>1, <3>1, <3>2 DEF MainInv, TypeOK, CallsInStep, Places, Ended
  <2>6. CASE ~PathThrows(Path)
    <3>1. /\ main' = "authority" /\ nextPath' = nextPath + 1
          /\ tls_ca' = tls_ca \cup CertificatesAt(Path)
      BY <1>8, <2>1, <2>6 DEF load_tls_ca, TryPath
    <3>2. ReadSoFar' BY <2>1, <2>2, <2>3, <2>6, <3>1, ReadsOneMore
    <3>3. nextPath' \in 1..Len(cli.roots) + 1 /\ nextPath' \in Nat /\ tls_ca' \subseteq Contents
      BY <2>3, <2>4, <3>1
    <3>4. CredentialsKept'
      BY <2>1, <2>2, <3>1, <3>2, <3>3 DEF CredentialsKept, Configured, Diagnosing
    <3> QED BY <1>f, <2>1, <3>1, <3>3, <3>4 DEF MainInv, TypeOK, CallsInStep, Places
  <2> QED BY <2>5, <2>6
<1>9. CASE SslServerCredentials
  <2>1. UNCHANGED <<type, cli, rules, policy, config, nextPath, tls_ca, server, announced, call>>
        /\ main = "authority" /\ main' \in {"terminated", "configure"} /\ ~MorePaths
    BY <1>9 DEF SslServerCredentials, Goto
  <2>2. /\ cli.tls /\ Loads(cli.key) /\ Loads(cli.crt) /\ ReadSoFar /\ ~secure
        /\ nextPath \in 1..Len(cli.roots) + 1
    BY <2>1 DEF MainInv, CredentialsKept, Configured
  <2>3. tls_ca = CertificatesIn(cli.roots) /\ \A i \in DOMAIN cli.roots: ~PathThrows(cli.roots[i])
    <3>1. cli.roots \in Seq(Paths) BY DEF MainInv, TypeOK, Flags
    <3> QED BY <2>1, <2>2, <3>1, ReadsAll
  <2>4. /\ main' = "configure" => tls_ca # {} /\ secure'
        /\ main' = "terminated" => UNCHANGED secure
        /\ secure' \in BOOLEAN
    BY <1>9 DEF SslServerCredentials, Goto, MainInv, TypeOK
  <2>5. main' = "configure" => Usable(cli) BY <2>2, <2>3, <2>4 DEF Usable
  <2>6. CredentialsKept'
    <3>1. cli.tls = TRUE BY <2>2 DEF MainInv, TypeOK, Flags
    <3>2. main' = "configure" => secure' = TRUE BY <2>4
    <3> QED BY <2>1, <2>2, <2>3, <2>4, <2>5, <3>1, <3>2 DEF CredentialsKept, Configured, Diagnosing
  <2> QED BY <1>f, <2>1, <2>4, <2>6 DEF MainInv, TypeOK, CallsInStep, Places, Ended
<1>6. CASE doConfigure \/ doRegister \/ PrintPreamble \/ HttpRuns \/ HttpFails
  <2>1. UNCHANGED <<type, cli, rules, policy, config, nextPath, tls_ca, secure, call>>
    BY <1>6 DEF doConfigure, doRegister, PrintPreamble, HttpRuns, HttpFails
  <2>2. main' \in Places /\ Moves
    BY <1>6 DEF Goto, Places, Moves, Configured, doConfigure, doRegister, PrintPreamble,
       HttpRuns, HttpFails
  <2>3. announced' \in BOOLEAN /\ server' \in {"none", "serving", "null"}
    <3>1. announced \in BOOLEAN /\ server \in {"none", "serving", "null"}
      BY DEF MainInv, TypeOK
    <3> QED BY <1>6, <3>1 DEF doConfigure, doRegister, PrintPreamble, HttpRuns, HttpFails
  <2>4. TypeOK' BY <1>f, <2>1, <2>2, <2>3 DEF MainInv, TypeOK
  <2>5. CredentialsKept' BY <2>1, <2>2, CredentialsStand DEF MainInv
  <2> QED BY <1>f, <2>1, <2>4, <2>5 DEF MainInv, CallsInStep
<1>7. CASE Handler
  <2>1. call' \in [Handlers -> Calls \cup {Idle}] /\ CallsInStep'
    <3>1. type \in Types /\ call \in [Handlers -> Calls \cup {Idle}] /\ CallsInStep
      BY DEF MainInv, TypeOK
    <3> QED BY <1>7, <3>1, ServeKeeps DEF Handler
  <2>2. UNCHANGED <<type, cli, main, rules, policy, config, nextPath, tls_ca, secure, server, announced>>
    BY <1>7 DEF Handler
  <2> QED BY <1>f, <2>1, <2>2, CredentialsStand DEF MainInv, TypeOK, Moves
<1> QED BY <1>0, <1>1, <1>c, <1>2, <1>3, <1>4, <1>5, <1>6, <1>7, <1>8, <1>9 DEF Next, MainStep

\* A switch is never left broken: it takes no number.
LEMMA SwitchesKept ==
    ASSUME FlagsTypeOK, StoredInOrder, SwitchesAreOn, ParseFlags
    PROVE  SwitchesAreOn'
<1>0. /\ Switches \subseteq Options /\ Switches \cap Defaulted = {} /\ Switches \cap Ints = {}
  BY DEF Options, Switches, Commands, Defaulted, Ints
<1>1. CASE UNCHANGED _flags BY <1>1 DEF SwitchesAreOn
<1>2. CASE Store
  <2>1. Reads(Current) BY <1>2 DEF Store, Readable, More, Current
  <2>2. Current.option \in Switches => Current.text = "on" BY <2>1 DEF Reads
  <2> QED BY <1>0, <1>2, <2>2 DEF Store, SwitchesAreOn, FlagsTypeOK
<1>3. CASE StoreThrows
  <2>1. Current.option \in Switches => UNCHANGED _flags
    BY <1>0, <1>3 DEF StoreThrows, Takes
  <2> QED BY <1>0, <1>3, <2>1 DEF StoreThrows, SwitchesAreOn, FlagsTypeOK
<1>4. CASE parseCommandLineFlags
  BY <1>0, <1>4 DEF parseCommandLineFlags, SwitchesAreOn
<1> QED BY <1>1, <1>2, <1>3, <1>4
  DEF ParseFlags, parsejsonFlags, NoJson, Unreadable, Skip, parseConfigFileFlags

LEMMA InitInv == Init => ProcessInv
BY InitMain DEF Init, FlagsInit, ProcessInv, SwitchesAreOn, NoServerYet, CliAsParsed,
   Options, Switches, Commands, Configured

LEMMA StepInv == ProcessInv /\ [Next]_vars => ProcessInv'
<1> SUFFICES ASSUME ProcessInv, [Next]_vars PROVE ProcessInv'
  OBVIOUS
<1> USE DEF diagnosticVars, exportVars, flagVars
<1>0. MainInv' BY StepMain DEF ProcessInv
<1>1. SwitchesAreOn'
  <2>1. CASE FlagsConstructed
    BY <2>1, SwitchesKept DEF FlagsConstructed, ProcessInv, MainInv, TypeOK
  <2>2. CASE UNCHANGED _flags BY <2>2 DEF ProcessInv, SwitchesAreOn
  <2> QED BY <2>1, <2>2
    DEF Next, MainStep, vars, use_cli_args, PrintVersion, StartPlugin, StartDiagnostics,
        print_config_policy, print_metric_types, print_collect_metrics,
        DiagnosedPluginThrows, InsecureServerCredentials, KeyAndCertificateLoad,
        load_tls_ca, TryPath, SslServerCredentials, doConfigure, doRegister, PrintPreamble,
        HttpRuns, HttpFails, doJoin, PluginAddsRule, Handler
<1>2. NoServerYet'
  <2>1. CASE doRegister \/ PrintPreamble \/ HttpRuns \/ HttpFails \/ doJoin
    BY <2>1 DEF doRegister, PrintPreamble, HttpRuns, HttpFails, doJoin, Goto, NoServerYet,
       Configured
  <2>2. CASE UNCHANGED server /\ (~Configured \/ Configured')
    BY <2>2 DEF ProcessInv, NoServerYet
  <2>3. CASE UNCHANGED <<server, main>> BY <2>3 DEF ProcessInv, NoServerYet, Configured
  <2> QED BY <2>1, <2>2, <2>3
    DEF Next, MainStep, vars, use_cli_args, PrintVersion, StartPlugin, StartDiagnostics,
        print_config_policy, print_metric_types, print_collect_metrics, FlagsConstructed,
        DiagnosedPluginThrows, InsecureServerCredentials, KeyAndCertificateLoad, load_tls_ca,
        TryPath, SslServerCredentials, doConfigure, PluginAddsRule, Handler, Goto, Configured
<1>3. CliAsParsed'
  <2>1. CASE FlagsConstructed
    BY <2>1 DEF FlagsConstructed, CliAsParsed
  <2>2. CASE use_cli_args BY <2>2 DEF use_cli_args, CliAsParsed, IsParsedFlag
  <2>3. CASE /\ UNCHANGED <<cli, _flags, _framework_json_parsed>>
             /\ main' \notin {"flags", "exited"} => main \notin {"flags", "exited"}
    BY <2>3 DEF ProcessInv, CliAsParsed, IsParsedFlag
  <2> QED BY <2>1, <2>2, <2>3
    DEF Next, MainStep, vars, PrintVersion, StartPlugin, StartDiagnostics,
        print_config_policy, print_metric_types, print_collect_metrics,
        DiagnosedPluginThrows, InsecureServerCredentials, KeyAndCertificateLoad,
        load_tls_ca, TryPath, SslServerCredentials, doConfigure, doRegister, PrintPreamble,
        HttpRuns, HttpFails, doJoin, PluginAddsRule, Handler, Goto
<1> QED BY <1>0, <1>1, <1>2, <1>3 DEF ProcessInv

\* Types, credentials and calls are as they should be at each place.
THEOREM ProcessInvariant == Spec => []ProcessInv
BY InitInv, StepInv, PTL DEF Spec
-----------------------------------------------------------------------------
\* Every reply is whole: the plugin's metrics or its error.
THEOREM EveryReplyWhole == Spec => []RepliesWhole
<1>1. ProcessInv => RepliesWhole
  BY DEF ProcessInv, MainInv, CallsInStep, CallInStep, RepliesWhole, At
<1> QED BY <1>1, ProcessInvariant, PTL

-----------------------------------------------------------------------------
\* apply_defaults overwrites nothing.
LEMMA DefaultsKeepGiven ==
    ASSUME NEW cfg \in ConfigMaps, NEW pol, NEW c \in ApplyDefaults(cfg, pol),
           NEW kind \in Kinds, NEW k \in Keys, cfg[kind][k] # None
    PROVE  c[kind][k] = cfg[kind][k]
BY DefaultsTyped DEF ValuesAfter

\* apply_defaults leaves out no default.
LEMMA DefaultsApplied ==
    ASSUME NEW cfg \in ConfigMaps, NEW pol \in Policies, NEW c \in ApplyDefaults(cfg, pol),
           NEW kind \in Kinds, NEW r \in RulesOf(pol, kind), r.default # None
    PROVE  c[kind][r.key] # None
<1>1. r \in Rules BY DEF RulesOf, Policies
<1>2. r.key \in Keys BY <1>1 DEF Rules
<1>3. r.default \in Defaults(pol, kind, r.key) BY DEF Defaults
<1>4. None \notin Defaults(pol, kind, r.key) BY DEF Defaults
<1>5. c[kind][r.key] \in ValuesAfter(cfg, pol, kind, r.key) BY <1>2, DefaultsTyped
<1> QED BY <1>3, <1>4, <1>5 DEF ValuesAfter

\* A given value is never replaced by a default.
THEOREM GivenValuesKept == Spec => []GivenKept
<1>1. Init => GivenKept BY DEF Init, GivenKept, Diagnosing
<1>2. ProcessInv /\ GivenKept /\ [Next]_vars => GivenKept'
  <2> SUFFICES ASSUME ProcessInv, GivenKept, [Next]_vars PROVE GivenKept'
    OBVIOUS
  <2> USE DEF GivenKept, Diagnosing, diagnosticVars, exportVars, Goto
  <2>1. CASE StartDiagnostics BY <2>1 DEF StartDiagnostics
  <2>2. CASE print_config_policy
    BY <2>2, DefaultsKeepGiven DEF print_config_policy, ProcessInv, MainInv, TypeOK
  <2>3. CASE UNCHANGED <<cli, config>> /\ (Diagnosing' => Diagnosing)
    BY <2>3
  <2>4. CASE use_cli_args BY <2>4 DEF use_cli_args
  <2> QED BY <2>1, <2>2, <2>3, <2>4
    DEF Next, MainStep, vars, FlagsConstructed, PrintVersion, StartPlugin, print_metric_types,
        print_collect_metrics, DiagnosedPluginThrows, InsecureServerCredentials, KeyAndCertificateLoad,
        load_tls_ca, TryPath, SslServerCredentials, doConfigure,
        doRegister, PrintPreamble, HttpRuns, HttpFails, doJoin, PluginAddsRule, Handler
<1> QED BY <1>1, <1>2, ProcessInvariant, PTL DEF Spec

\* Diagnostics collect only with a config the policy is content with.
THEOREM CollectedVetted == Spec => []CollectsVetted
<1>1. Init => CollectsVetted BY DEF Init, CollectsVetted
<1>2. ProcessInv /\ CollectsVetted /\ [Next]_vars => CollectsVetted'
  <2> SUFFICES ASSUME ProcessInv, CollectsVetted, [Next]_vars PROVE CollectsVetted'
    OBVIOUS
  <2> USE DEF diagnosticVars, exportVars, Goto
  <2>1. CASE print_config_policy
    <3>1. SUFFICES ASSUME main' \in {"types", "collect"},
                          NEW kind \in Kinds, NEW r \in RulesOf(policy, kind)
                   PROVE  /\ r.default # None => config'[kind][r.key] # None
                          /\ kind = "string" /\ r.required => config'[kind][r.key] # None
      BY <2>1 DEF print_config_policy, CollectsVetted
    <3>2. r.default # None => config'[kind][r.key] # None
      BY <2>1, DefaultsApplied DEF print_config_policy, ProcessInv, MainInv, TypeOK
    <3>3. Missing(config', policy) = {}
      BY <2>1, <3>1 DEF print_config_policy
    <3>4. r.required => config'["string"][r.key] # None
      BY <3>3 DEF Missing
    <3> QED BY <3>2, <3>4
  <2>2. CASE UNCHANGED <<config, policy>> /\ (main' \in {"types", "collect"}
                                              => main \in {"types", "collect"})
    BY <2>2 DEF CollectsVetted
  <2>3. CASE main' \notin {"types", "collect"} BY <2>3 DEF CollectsVetted
  <2> QED BY <2>1, <2>2, <2>3
    DEF Next, MainStep, vars, FlagsConstructed, use_cli_args, PrintVersion, StartPlugin,
        StartDiagnostics, print_metric_types, print_collect_metrics, DiagnosedPluginThrows, InsecureServerCredentials, KeyAndCertificateLoad,
        load_tls_ca, TryPath, SslServerCredentials, doConfigure,
        doRegister, PrintPreamble, HttpRuns, HttpFails, doJoin, PluginAddsRule, Handler
<1> QED BY <1>1, <1>2, ProcessInvariant, PTL DEF Spec
-----------------------------------------------------------------------------
\* What the command line gives is honoured, for any line and options files.
THEOREM LineHonoured == Spec => []ArgumentsHonoured
<1>1. ProcessInv => ArgumentsHonoured BY DEF ProcessInv, MainInv, StoredInOrder
<1> QED BY <1>1, ProcessInvariant, PTL

\* The daemon gets TLS if and only if the command line asks for it.
THEOREM DaemonGetsTls == Spec => []SecureAsTold
<1>1. ProcessInv => SecureAsTold
  <2> SUFFICES ASSUME ProcessInv, server = "serving", cli.framework
               PROVE  secure <=> Told("tls", "on") \/ ToldByJson("tls", "on")
    BY DEF SecureAsTold
  <2>1. Configured /\ main \notin {"flags", "exited"} BY DEF ProcessInv, NoServerYet, Configured
  <2>2. secure = IsParsedFlag("tls") /\ _framework_json_parsed
    BY <2>1 DEF CredentialsKept, ProcessInv, MainInv, CliAsParsed
  <2>3. "tls" \in Options /\ "tls" \in Switches BY DEF Options, Switches
  <2>4. IsParsedFlag("tls") <=> _flags["tls"] = "on"
    BY <2>3 DEF IsParsedFlag, ProcessInv, SwitchesAreOn
  <2>5. CommandLineTaken /\ ArgumentsHonoured
    BY <2>2 DEF ProcessInv, MainInv, StoredInOrder
  <2>6. "on" \in Texts \cup {"on"} OBVIOUS
  <2>7. _flags["tls"] = "on" <=> Told("tls", "on") \/ ToldByJson("tls", "on")
    BY <2>2, <2>3, <2>5, <2>6 DEF ArgumentsHonoured
  <2> QED BY <2>2, <2>4, <2>7
<1> QED BY <1>1, ProcessInvariant, PTL
-----------------------------------------------------------------------------
\* The loop over the paths leaves out none that has a certificate, and they
\* are those of the line.
THEOREM ListedAuthority == Spec => []AuthorityAsTold
<1>1. ProcessInv => AuthorityAsTold
  <2> SUFFICES ASSUME ProcessInv, server = "serving", secure
               PROVE  /\ tls_ca # {}
                      /\ \A text \in Texts: NamesPaths(text) =>
                            tls_ca = CertificatesIn(PathsIn[text])
    BY DEF AuthorityAsTold
  <2>1. Configured /\ main \notin {"flags", "exited"} BY DEF ProcessInv, NoServerYet, Configured
  <2>2. tls_ca = CertificatesIn(cli.roots) /\ tls_ca # {}
    BY <2>1 DEF ProcessInv, MainInv, CredentialsKept, Usable
  <2>3. /\ cli.roots = PathsIn[_flags["root-cert-paths"]]
        /\ cli.framework => _framework_json_parsed
    BY <2>1 DEF ProcessInv, CliAsParsed
  <2>4. ASSUME NEW text \in Texts, NamesPaths(text) PROVE _flags["root-cert-paths"] = text
    <3>1. "root-cert-paths" \in Options /\ text \in Texts \cup {"on"}
      BY DEF Options, Defaulted
    <3>2. cli.framework => CommandLineTaken
      BY <2>3 DEF ProcessInv, MainInv, StoredInOrder
    <3>3. CommandLineTaken /\ ArgumentsHonoured
      BY <2>4, <3>2 DEF NamesPaths, ProcessInv, MainInv, StoredInOrder
    <3> QED BY <2>3, <2>4, <3>1, <3>3 DEF ArgumentsHonoured, NamesPaths
  <2> QED BY <2>2, <2>3, <2>4
<1> QED BY <1>1, ProcessInvariant, PTL

\* Nothing but what cannot be used keeps the export from its server.
THEOREM CausedEnd == Spec => []EndsForCause
<1>1. Init => EndsForCause BY DEF Init, EndsForCause
<1>2. ProcessInv /\ EndsForCause /\ [Next]_vars => EndsForCause'
  <2> SUFFICES ASSUME ProcessInv, EndsForCause, [Next]_vars, main' = "terminated", Exporting'
               PROVE  cli'.tls /\ ~Usable(cli')
    BY DEF EndsForCause
  <2> USE DEF Goto, diagnosticVars, exportVars
  <2>1. CASE KeyAndCertificateLoad BY <2>1 DEF KeyAndCertificateLoad, Usable
  <2>2. CASE load_tls_ca
    <3>1. /\ PathThrows(Path) \/ main = "terminated"
          /\ main = "authority" /\ MorePaths /\ UNCHANGED cli
      BY <2>2 DEF load_tls_ca, TryPath
    <3>2. nextPath \in DOMAIN cli.roots /\ PathThrows(cli.roots[nextPath])
      BY <3>1 DEF MorePaths, Path
    <3>3. cli.tls BY <3>1 DEF ProcessInv, MainInv, CredentialsKept
    <3> QED BY <3>1, <3>2, <3>3 DEF Usable
  <2>3. CASE SslServerCredentials
    <3>1. main = "authority" /\ ~MorePaths /\ UNCHANGED cli /\ tls_ca = {}
      BY <2>3 DEF SslServerCredentials
    <3>2. cli.tls /\ ReadSoFar /\ nextPath \in 1..Len(cli.roots) + 1 /\ cli.roots \in Seq(Paths)
      BY <3>1 DEF ProcessInv, MainInv, CredentialsKept, TypeOK, Flags
    <3>3. tls_ca = CertificatesIn(cli.roots) BY <3>1, <3>2, ReadsAll
    <3> QED BY <3>1, <3>2, <3>3 DEF Usable
  <2>4. CASE StartDiagnostics
    <3>1. ~Exporting' BY <2>4 DEF StartDiagnostics, Exporting, diagnostic_enabled
    <3> QED BY <3>1
  <2>5. CASE DiagnosedPluginThrows
    <3>1. Diagnosing /\ UNCHANGED <<type, cli>> BY <2>5 DEF DiagnosedPluginThrows, Diagnosing
    <3>2. Exporting BY <3>1 DEF Exporting, diagnostic_enabled
    <3> QED BY <3>1, <3>2 DEF ProcessInv, MainInv, CredentialsKept
  <2>6. CASE UNCHANGED <<type, cli, main>>
    <3>1. main = "terminated" /\ Exporting BY <2>6 DEF Exporting, diagnostic_enabled
    <3> QED BY <2>6, <3>1 DEF EndsForCause
  <2>7. \/ KeyAndCertificateLoad \/ load_tls_ca \/ SslServerCredentials \/ StartDiagnostics
        \/ DiagnosedPluginThrows \/ UNCHANGED <<type, cli, main>>
    BY DEF Next, MainStep, vars, FlagsConstructed, use_cli_args, PrintVersion, StartPlugin,
       print_config_policy, print_metric_types, print_collect_metrics,
       InsecureServerCredentials, doConfigure, doRegister, PrintPreamble, HttpRuns, HttpFails,
       doJoin, PluginAddsRule, Handler
  <2> QED BY <2>1, <2>2, <2>3, <2>4, <2>5, <2>6, <2>7
<1> QED BY <1>1, <1>2, ProcessInvariant, PTL DEF Spec
=============================================================================
