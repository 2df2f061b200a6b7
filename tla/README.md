# A verification project for snap-plugin-lib-cpp

snap-plugin-lib-cpp is the C++ library with which collectors, processors,
publishers and streaming collectors for the Snap telemetry framework are
written. A plugin is a gRPC server: Snap (the client) calls it, the library
translates the call into a virtual method of the plugin's class and the result
back into a reply. The one place with concurrency of its own is the streaming
collector; the rest is unary handlers, values around protobuf messages, the
generated code that carries those, and start-up.

This directory holds TLA+ modules translated from `src/src/snap`, TLC
configurations that check them on small instances, and TLAPS proofs of what
matters most for every value of the constants. Line numbers are those of the
files under `src/`. `PROJECT.json` maps every definition to its lines and lists
the runs, the hazards, the findings and the theorems.

To repeat everything, in this directory: `tlc -config X.cfg M` for each run, and
`tlapm M.tla` for each module with proofs.

## 1. Inventory

| Component | State | Operations | Talks to | Hard about it | Correct when |
|---|---|---|---|---|---|
| `StreamChannel<T>` (proxy/stream_collector_proxy.h 120-135, .cc 266-303) | deque, closed flag, mutex, condition variable | `put`, `get` (waiting or not), `close`, `is_closed` | the four threads | lost wake-ups, close against sleep, copy then pop | linearizable; nobody sleeps beside an item or on a closed channel |
| `StreamCollectorImpl::StreamMetrics` (.cc 108-264) | three channels, the buffer `_metrics_reply`, `_err_reply`, the limits, the plugin's flags | the handler; threads `metricSend`, `errorSend`, `streamRecv`, `PutSendMetsAndErrMsg` | Snap by `Read`/`Write`, the plugin by flags polled and callbacks | five threads over unguarded members; cancellation; exceptions; buffer limits that change; the object outlives the stream | nothing lost, repeated or overtaken; nothing closed in a live stream; everything delivered; the call ends |
| `Metric` (metric.h 188-349, metric.cc 34-270) | an `rpc::Metric` owned or borrowed, memoised namespace and tags, a `Config` by reference | constructors, copy, destructor, setters, getters | the proxies wrap messages; plugins make and copy | two copies of the same data; shared ownership; references to maps that are shared or gone | behaves as a value |
| `Namespace`, `NamespaceElement` (metric.cc 271-392) | a vector of elements | append, index, print, dynamic elements | `Metric` | little | pure functions |
| generated messages (rpc/plugin.pb.h, plugin.pb.cc) | the fields of 22 messages, cached sizes | parse, serialize (two ways), `ByteSize`, `MergeFrom`, `Clear`, `CopyFrom` | protobuf's streams; proxies and `Metric` fill and read them | several hand-kept lists of the same fields; limits of nested messages; fields of another version; text that is not UTF-8 | what is parsed is what was written; no parser leaves its message |
| generated services (rpc/plugin.grpc.pb.h, .cc) | tables of method names | stubs, `AddMethod` of the services, the base's `UNIMPLEMENTED` | gRPC; the proxies derive from them | methods are numbered on both sides | a call reaches the handler of its method, or fails for a reason |
| unary handlers: `CollectorImpl`, `ProcessorImpl`, `PublisherImpl`, and the unary calls of `StreamCollectorImpl` | the plugin, a `PluginImpl` | `CollectMetrics`, `GetMetricTypes`, `Process`, `Publish`, `Ping`, `Kill`, `GetConfigPolicy` | Snap, the plugin | an exception half-way through a reply | all or an error is reported |
| `PluginImpl` (proxy/plugin_proxy.cc) | `_lastping`, the limits of the heartbeat | `Ping`, `Kill`, `GetConfigPolicy`, `HeartbeatWatch` | the exporter | units of durations, a watch nobody starts | a plugin Snap has forgotten stops |
| `Config`, `ConfigPolicy` (config.cc) | maps of a message, by reference | `get_*`, `set_*`, `apply_defaults`, `add_rule`, `build_key` | `Metric`, diagnostics | aliasing, defaults against given values | a given value is never overwritten, a missing one gets its default |
| `Flags` (flags.cc) | option descriptions and a map of values | parsing of command line, JSON argument and file | start-up | an exception half-way through storing; precedence; options described twice | each option of the line is honoured, and what is said to come from Snap is what Snap gave |
| start-up: `start_*`, `Meta`, `DiagnosticPrinter` (plugin.cc) | `Meta`, the printer and its config | `start_plugin`, `show`, required-key check | exporter, flags, plugin | order of the steps; blocking | the plugin collects only with a config its policy is content with, and ends for a cause |
| `GRPCExportImpl` (grpc_export.cc) | server builder, credentials, server | configure, register, announce, join | gRPC, files | failure of one step; a list of paths some of which are nothing | checks its clients by what was listed, all of it; what is nothing does not end it |
| `LibSetup`, examples, tests, build files | - | - | - | - | not modelled |

The behaviours that are hard to test are in `PROJECT.json` under `hazards`,
each at its line, with the properties that cover it or the reason why none does
yet.

## 2. What is modelled

### Modules

    ChannelOps            the data of a channel: queue, closed, front, pop
      AtomicChannel       abstract: put, get, close, is_closed at an instant
      StreamChannel       mutex + condition variable; implements AtomicChannel
        MCStreamChannel
      StreamCollector     the handler, its four threads, three channels, the
        MCStreamCollector   plugin, Snap and the clock
        StreamReplies       abstract: what Snap is promised of the replies;
                            StreamCollector implements it
    MetricValue           abstract: variables that hold values
      Metric              objects over a heap of rpc::Metrics; implements it
        MCMetric
    ConfigPolicy          rules, defaults, the check of required keys: operators
    PluginService         the unary handlers, on the server's threads
    FlagParsing           command line, JSON and options file: parsing and storing
      PluginProcess       the main thread: flags, then diagnostics or export;
                          EXTENDS the three
        MCPluginProcess
    Heartbeat             the watch over Snap's pings
    RpcFields             shapes and kinds of a message's fields
      RpcMetricMessages, RpcPolicyMessages, RpcCallMessages
                          what each message's code says of each of its fields
      RpcMessages         the messages by type, and the entries of maps
        RpcParser         the parser, a field a step
          RpcCodec        ByteSize, serializers, MergeFrom, Clear, CopyFrom
    RpcServices           the stubs' and the services' tables of methods
    RemoteCall            abstract: what a call promises
      RpcCall             stub to handler and back; EXTENDS RpcCodec and
        MCRpcCall         RpcServices, implements RemoteCall
    ChannelLemmas         sequences: append, front and tail of concatenations
    StreamChannelProofs, StreamCollectorProofs, StreamCollectorOrder,
    MetricProofs, PluginProcessProofs, RpcCodecProofs, RpcCallProofs

`StreamCollector` uses the channel's operations as atomic steps on the data of
`ChannelOps`. `StreamChannel` is shown (checked and proved) to implement
exactly that, so a channel operation of a thread is one step of it.

### StreamChannel

`pc[t]` is the place of thread `t` inside a member function. A call is made by
`Invoke`, takes `_m` in `Lock`, and then goes, by operation, through
`PutThrows` or `PutPushes` (279-287), `CloseSets` (266-271), `Notify`,
`GetSleeps`, `GetFindsNothing`, `GetCopies` and `GetPops` (289-303),
`IsClosed` (273-277), and `Unlock`. The condition variable is external: its
wait set is `Asleep`; `NotifyOne` wakes any one sleeper, `NotifyAll` all, and
`SpuriousWake` any at any time. A woken thread takes the mutex again and tests
the predicate again. `Capacity` bounds the queue on which a `put` is called.
Everything done under the lock between two visible effects is its own step
(copy and pop of `get`, push and notify of `put`), so that mutual exclusion is
established and not assumed.

### StreamCollector

| Code | Model |
|---|---|
| `StreamMetrics` 108-131 | `StartStream`, `PluginReturns`, `PluginThrows`, `HandlerEnds`; `handler` |
| the loops' condition and exits | `Enter`, `Leave` (closes the thread's channel), `Tell`, `TellThrows` (`set_context_cancelled`) |
| `metricSend` 171-210 | `SendGets`, `AddMetric`, `WriteFull`, `BatchDone`, `DurationTest`, `Clear` |
| `errorSend` 151-169 | `ErrGets`, `ErrWrites` |
| `streamRecv` 212-249 | `RecvReads`, `RecvReadFails`, `RecvPuts` |
| `PutSendMetsAndErrMsg` 133-149 | `PutsMets`, `ClearsMets`, `PutsErr`, `ClearsErr`, `PutsRecv`, `PutsCallbackThrows`, `PutsRecvThrows` |
| `sendReply` 251-264, `stream->Write` | `SendReply`, `Write` |
| the plugin's `stream_metrics` and flags | `PluginProduces`, `PluginRaises` (external) |
| Snap, gRPC, clock | `ClientCancels`, `RecvReads`, `TimePasses` (external) |

Metrics, errors and requests are numbered in the order they are made; `wire` is
what was written to Snap (the result of `Write` is ignored, and what is written
after a cancellation is lost), `hist` records what passed the points at which
nothing may be lost.

Every accessor and callback of the plugin may throw (`PluginMayThrow`). An
exception of `set_put_mets` or `set_put_err` leaves the flag up although the
batch or error was put, and ends the thread, which nothing starts again before
the next stream. `set_context_cancelled` has a catch clause in three threads and
none in `doPuts`.

plugin.h does not say when a plugin may raise its flags. With `PluginWaits` it
shows the next batch (error) once the flag of the last is down; without, at any
time, also between doPuts' `put_metrics_out` and `set_put_mets(false)` (138). A
batch may then be replaced by the next before it was fetched, or wiped with the
flag of the one before. `hist.keptBatches` and `hist.keptErrors` are those that
were not: what `MetricsInOrder` and `ErrorsInOrder` promise in any case is about
them, and they are all there are if the plugin waits (in collector; in
collector_live it does not).

`StreamReplies` says the same from Snap's side, and knows of no thread, channel
or buffer: a reply carries metrics that follow on one another and skip none that
was not in a reply yet, with the newest error, the next one, or none. It allows
what the code really does, since one `_collect_reply` holds both parts: an
error is sent again with later metrics, and metrics still in the buffer go out
with an error and once more by themselves. `ImplementsReplies` is the
refinement.

Abstractions, and why they are sound:

- The comparison with `_max_metrics_buffer` is one step with `add_metrics`, the
  test of `IsCancelled` one with the close that follows it on the way out, the
  get of an error one with `set_error`, a `Read` one with the limits it sets.
  In each pair one of the two touches only what no other thread changes in a
  way that another order could tell, or the pair can be brought together by
  moving one past the steps of others.
- The collect duration is the flag `overdue`: set by the clock at any time,
  cleared with `start = now()`, and arbitrary after Snap changes the duration.
- `Write` is one step. `errorSend` and `metricSend` share `_collect_reply`
  without a lock; what protobuf and gRPC do when the two really overlap has no
  defined outcome to enumerate and is not modelled (a hazard without a
  property).
- `Read` on a cancelled stream fails, its result is ignored, and the empty
  `CollectArg` changes nothing. A client that half-closes makes `streamRecv`
  go round without a change of state until it cancels.
- The plugin may return from `stream_metrics` at any time.
- One `StreamMetrics` at a time, up to `MaxStreams` in turn on the same object.
- `PutSendMetsAndErrMsg` flows off its end although it returns an `int`; the
  value is never read and the function is taken to return.

### Metric

`heap[c]` is the `rpc::Metric` in a cell, with its own config map or none;
`obj[o]` the members of a `Metric` variable; `default_config` the one default
instance of `rpc::ConfigMap`, to which `config()` of an `rpc::Metric` without a
config refers (rpc/plugin.pb.h 3159). Actions are the constructors and the
destructor (`Construct`, `Wrap`, `Copy`, `Destroy`), the setters and the two
getters that memoise; the pure getters are `ValueSeen`, `ShownNs`, `ShownTags`,
`ShownConfig`. A message's `rpc::Metric` is freed together with the `Metric`
wrapped around it, as in the proxies, where both are locals of a handler. A
freed cell may be used again, so that a reference that outlives its map meets
another one. Not modelled: the `operator=` the compiler generates, which nothing
in the repository uses and which would share an `rpc::Metric`; times before the
epoch, the text of tags and elements, `type` (written, never read), `unit` and
`description`; a write through a dangling reference to memory that is not in use
again is taken to change nothing that can be read.

### FlagParsing

| Code (flags.cc) | Model |
|---|---|
| `ParseFlags`, `parsejsonFlags` (341-402) | `parsejsonFlags`, `NoJson`; `newArgv`, `Flag`, `Unused` (`removeUnusedFlags`, `generateCommandLineFromJson`) |
| `parse_command_line`, `store` (boost, external) | `Unreadable`, `Skip`, `Store`, `StoreThrows` |
| the end of `store`, `notify`, help (`parseCommandLineFlags`) | `parseCommandLineFlags` |
| `setConfigFileFlags`, `parseConfigFileFlags` | `parse.at = "file"`, `Found`, `parseConfigFileFlags` |

boost's `store` is modelled one entry at a time, because an exception half-way
leaves what it has stored: when the line made from the daemon's JSON fails, the
line without the JSON is parsed into the same map. Options of the command line
are final, so that a later `store` passes them over; `config` is composing and
is not. No option of a file is ever stored: `_config_file` holds the global
options twice (107 and 284), boost finds each ambiguous and throws, although
options.cfg:2 says "Uncomment out option variables to change default values".

A line has one JSON argument at most, in the first place. An entry of the JSON
that `removeUnusedFlags` erases appears as a word that `store` passes over, and
texts are members of a small set; abbreviated names, which boost allows, and
options a plugin adds are left out.

### ConfigPolicy, PluginService, PluginProcess

`PluginProcess` is one process from `start_*` on. `main` is the place of its
main thread:

| Code | Model |
|---|---|
| the constructor of `Flags`, `Meta::use_cli_args` (plugin.cc 72-83) | `FlagsConstructed`, `use_cli_args`; `cli` |
| `start_*` (plugin.cc 85-190) | `PrintVersion`, `StartDiagnostics`, `StartPlugin` |
| `DiagnosticPrinter` (plugin.cc 200-439) | `print_config_policy`, `print_metric_types`, `print_collect_metrics`, `DiagnosedPluginThrows`; `config` is `cfgmap`, which `Config` refers to |
| `add_rule`, `apply_defaults` (config.cc 39-58, 99-127), `check_for_missing_requirements` (plugin.cc 380) | `AddRule`, `ApplyDefaults`, `Missing` of `ConfigPolicy` |
| `DoExport` (grpc_export.cc 178-194) and its steps | `InsecureServerCredentials` or `KeyAndCertificateLoad`, `load_tls_ca`, `SslServerCredentials`; `doConfigure`, `doRegister`, `PrintPreamble` or `HttpRuns`/`HttpFails`, `doJoin` |
| `load_key`, `load_directory`, the loop of `load_tls_ca` (81-149) | `Loads`; `load_tls_ca`, a path a step, with `nextPath` and `tls_ca`; `PathThrows`, `CertificatesAt` |
| the unary calls of the four proxies | `Serve` of `PluginService`: `Receive`, `PluginAnswers`, `PluginDoes`, `PluginThrows`, `Fill`, `Reply` |

`DoExport` and the handlers run side by side: `Handler` is enabled as soon as
`BuildAndStart` has returned a server, before the preamble is printed.
`apply_defaults` walks protobuf maps, whose order is not specified: where rules
of two namespaces give one key two defaults, either may win. A file has
`Contents`, as a name for them, or is empty; an absent or unreadable one is read
as empty (`read_if_exists`). A path of `--root-cert-paths` is a file, a directory
with a set of files, a directory that cannot be listed, or neither. The loop
tries a file, passes over what is nothing, and lets a directory's exception
through; it throws if it has read nothing at its end. An
exception nobody catches ends the process (`terminated`), a null server
crashes it in `doJoin` (`crashed`). The port, the text of the preamble, the
numbers and names of `Meta` and the limits of integer rules decide nothing here
and are left out. A `--config` that is not JSON ends the process in
`StartDiagnostics`. The plugin asked for its metric types
is taken to leave the config as it is.

### Heartbeat

`Ping` and `HeartbeatWatch` (plugin_proxy.cc 34-73) over a clock that counts
`TicksPerSecond`. The comparison of line 58 is between ticks and seconds and is
so in `TimedOut`. Nothing in the library starts the watch; the model lets it
start once.

### The generated code: RpcFields to RpcCall

For each message plugin.pb.cc keeps the same list of fields seven times: in the
class, the constructor, `Clear`, the parser, the two serializers, `ByteSize` and
`MergeFrom`. The three modules of messages translate each list from its own
place (`TimeMembers`, `TimeReads`, `TimeWrites`, ...), so that they may disagree,
and `SizesHonest`, `CopiesWhole` and `KeepsPromise` say that they do not. What
the code does about a field of a kind is said once, in `RpcParser` and
`RpcCodec`.

The bytes of a message are tokens (tags, numbers, lengths, texts), each with its
width. `RpcParser` reads one field a step: `ReadPrimitive`, `ReadText`,
`EnterMessage` and `LeaveMessage` with their limits, `SkipField`,
`StopAtEndGroup`, `ReadFails`, `Succeed`. `RpcCodec` has the functions on whole
messages. Each calls itself for the messages inside, which the classes nest at
most five deep, so it is written as one body (`SizeBy`, `TokensBy`, `IsBy`, ...)
taken five times over, the parameter being what it calls; that five are enough
is proved. `Parts` is what there is of a field to be measured and written, the
same for both. `RpcCall` puts a
call together: `Call`, `Unimplemented`, `Dispatch`, `Parse`, `RequestFails`,
`Handle`, `Reject`, `Answer`, `AnswerFails`, `Return`, over the methods of
`RpcServices`. `RemoteCall` is what that promises: the handler sees the message
sent, the caller the message answered, and a call fails only if the server has no
such method, a text is not UTF-8, or the message ends in a group or is cut off.

A varint has one to five bytes, or ten if it is negative; the six to nine of
numbers from 2^35 on, which TLC cannot hold, count as five on both sides. What
texts there are and how long each is are constants, `TextLength` and `NotUtf8`.
Messages of a stream travel as those of unary calls. Groups are only ended, never
opened; packed fields do not occur in plugin.proto. The library's own part
(streams, `WireFormatLite`, gRPC's queues) is external.

## 3. The runs

Passing:

| Run | Instance | Shows |
|---|---|---|
| channel | 3 threads, 2 values, `Capacity` 2; `FairSpec` | `ChannelInv`, `ClosedWakesAll`, `ItemsAreCovered`, `ImplementsAtomicChannel`, and with fairness `CloseWakesSleepers`, `ItemsReachSleepers` |
| collector | up to 2 metrics alone or together, 2 errors, 2 requests that ask or raise the buffer's size, and 2 streams in turn, in the mixes `SafeMixes`; buffer of 1, plugin may throw | `CollectorInv`, `CancelledBeforeClosed`, `MetricsInOrder`, `ErrorsInOrder`, `RequestsInOrder`, `BufferNeverOvergrows`, `ImplementsReplies` |
| collector_live | up to 2 metrics, 2 errors, 1 request and 2 streams in turn, in the mixes `LiveMixes`; no buffer, plugin may throw and does not wait; `FairSpec` | `ZeroBufferSendsAtOnce`, `MetricsInOrder`, `ErrorsInOrder`, `MetricsDelivered`, `ErrorsDelivered`, `RequestsDelivered`, `CancelReachesPlugin`, `CancelledCallEnds` |
| process | 4 types of plugin, 22 command lines, lists of up to 3 paths, 2 handlers, answers of 0 to 2 metrics, 2 rules over 2 namespaces and 2 keys | `ProcessInv`, `GivenKept`, `CollectsVetted`, `AuthorityAsTold`, `EndsForCause`, `RepliesWhole`, `ArgumentsHonoured`, `SecureAsTold` |
| wire | the methods of 4 services, and one called at the wrong server; messages that differ from a new or a full one in a field, at any depth, alone or merged, with 4 kinds of stray fields; `FairSpec` | `CallOK`, `SizesHonest`, `CopiesWhole`, `KeepsPromise`, `CallEnds` |
| metric | 2 objects, 3 cells, 2 namespaces, 1 tag, 2 data types, 2 times | `MetricInv`, `ImplementsMetricValue` |

The bounds make the interesting cases happen. Three threads give a putter, a
sleeper and a thief that takes the item meant for the sleeper; two values and a
capacity of two give an item left behind. Two metrics, alone or together, fill a
buffer of one in the middle of a batch of two, and the request that raises the
buffer's size may arrive there. Two streams show what the first leaves behind. An
order needs two of a kind: two errors, or two requests, may both be in a channel,
be split over two streams, or be cut short by an exception. Of a plugin that does
not wait, a second batch or error may come at each place of `doPuts` while the
first is on its way. All of these at once cost their product, which TLC does not
finish; `Mixes` names which come together (`WithinMix`): one of everything, two
metrics with an error or a request, and two of a kind in two streams. The proofs
have no bounds.

Three cells let a copy outlive its original and another object take the original's
cell; cells and objects are interchangeable and are declared so (`SYMMETRY`;
the properties of that run are safety properties). The instants 0 and 3 with two
ticks to the second exercise both fields of `rpc::Time`.

Two rules are enough for two defaults of one key, in two
namespaces or in two types, and for a key that is required and given in another
type; the command lines have each file of TLS empty in turn and each way out of
start-up; the lists of paths mix files, directories and what is neither, with two
different certificates, an empty file or a directory that throws before, between
and behind good ones, or nothing to read at all; one list stands in the JSON and
another on the line. Of
parsing they have each way out too: help, an unknown option, a text where a
number is due, a line of the daemon taken, and two that fall back: at an entry
and at an option given twice.

Messages that differ in one field reach every line of every list in the
generated code; a full one in front of or behind it is merged with it. There is
an empty text, one of a byte, one so long that its length takes two bytes, and
one that is not UTF-8; and there is a negative number. The stray fields are an
unknown one, a known one of another wire type, the end of a group and a text
that is cut off. This last ends a request of one piece (`CallAssumption`): in
front of another piece its length would reach into the bytes of what follows,
which tokens do not say.

Deadlock is not checked in process and wire, where the process and the call
may end, nor in the runs of the collector: a stream may be over, or threads may
wait for a client that says nothing more. Whether anything waits
that should not is the subject of the liveness properties.

Fairness. A thread inside the channel, and a thread of the collector, that can
take a step takes one eventually (the operating system's scheduler); the handler
returns when its futures are done; a plugin that was told of the cancellation
returns; the threads of a call's client and server run (`CallEnds`), though
nothing makes a handler return. Of start-up only safety is claimed: its main
thread has no loop but the parser's and the one over the paths. Nothing is
assumed of Snap (it need not send or cancel), of the clock, of what the plugin
produces, of spurious wake-ups, or of who wins the mutex. Weak fairness per
thread is enough: nothing below needs a lock that is contended for ever, since
calls settle in `ItemsReachSleepers`.

Runs that end in a violation, each of one statement of the documentation:

| Run | Statement | What the code does |
|---|---|---|
| exception_reported | plugin.h 190: an exception of any plugin is reported to Snap | after `stream_metrics` throws, the futures' destructors wait for threads that only a cancellation ends |
| overdue_metrics_sent | plugin.h 418: after the collect duration without metrics the buffer is sent | `metricSend` tests the duration only after the next batch |
| buffer_overgrows | plugin.h 426: maximum number of buffered metrics | `==` against a limit that Snap may lower below the buffer's size |
| metric_tags | metric.h 270: `add_tag` invalidates the memoised tags | it declares a local variable of that name |
| metric_config | metric.h 303: `set_diagnostic_config` is for a specific metric | the `Config` refers to the default instance all such metrics share, or to the map of the copy's original |
| heartbeat | plugin_proxy.h 64-68: a plugin stops after that many missed pings, each within the duration | ticks of the clock are compared with seconds, every check counts as missed |

`BufferNeverOvergrows` passes in collector, where Snap only raises the size, and
fails in buffer_overgrows, where it lowers it; `BufferBounded` below says what
exactly makes the difference.

Every property of a passing run has a mutant in `PROJECT.json`: a definition
replaced by a plausible slip, kept in the module under "Forms of definitions
below", under which TLC finds the property violated.

## 4. What is proved

All for every value of the constants that satisfies the modules' assumptions.

**StreamChannelProofs.** `ChannelInvariant`: `ChannelInv` is inductive as it
stands (types; `LockDiscipline`, places where a thread owns `_m` against the
holder; `CallDiscipline`; `CopyIsFront`, the queue's front does not change
between copy and pop). `ClosedChannelWakesAll`: on a closed channel with
sleepers a `notify_all` is under way, because `close` holds the mutex from
setting the flag to notifying. `NoLostWakeUp`: while a thread sleeps the items
never outnumber those awake who will take one; by counting `Takers` through each
step, for a finite set of threads. `ChannelImplementsAtomicChannel`: each step
is the operation, at the step that touches the queue, or a stutter.

**StreamCollectorProofs.** `CollectorInvariant`: `TypeOK` is not inductive
alone (a metric appended from an empty batch would have no type);
`ControlOK` adds where the locals and flags are in use. `ClosedOnlyWhenCancelled`
(through `CancelInv`, which adds that a thread past its loop has seen the
cancellation), `ImmediateSend`, and `BufferBounded`. This one is about any sizes
Snap names, higher or lower, at any instant: the buffer keeps
within its maximum if each new size fits (`NewSizeFits`), that is, if the buffer
has not reached it or is about to be emptied. `BufferInv` carries it: below
the maximum except between the comparison and the clear. Snap cannot know
whether a size fits, which is the finding of buffer_overgrows.

**StreamCollectorOrder.** `MetricsKeptInOrder`, `ErrorsKeptInOrder`,
`RequestsKeptInOrder`: the history of each path equals the concatenation of the
places an item can be in. Each action moves the boundary between two of them;
with `CollectorInv` and `FlagInv` (what `newBatch` and `newError` say of a batch
or error shown and not yet put) the equations are inductive, whether the plugin
waits or not and whatever it throws. `RepliesAsPromised`: the collector
implements `StreamReplies` if `PluginWaits` (of a hasty plugin's metrics, those
it hides itself are missing). The equations say where an item is, not
which item it is; `FeedInv` adds that: batches under way hold consecutive
numbers from those unpacked on (`InFlightFed`), the batch in hand and the buffer
are runs that end where the next begins, with all before the buffer already in
replies (`MetricsFed`), and the error in `_err_reply` is the newest taken, told
or about to be (`ErrorsFed`). A `Write` then is a `Reply`, the plugin's steps
are `Make` and `Raise`, and all else stutters.

**MetricProofs.** `MetricInvariant`: each object has an `rpc::Metric` of its
own, the memoised namespace is the namespace, the times are what was set.
`MetricIsAValue`: from that, each action is an assignment of `MetricValue` or a
stutter; ownership gives that no other object changes.
`TimeReadBack` is the lemma that seconds and nanoseconds lose nothing.

**PluginProcessProofs.** `ProcessInvariant`: types; `StoredInOrder` (while a
line is parsed each entry that `store` has seen is stored, and for the daemon's
line nothing else is); `SwitchesAreOn`; `CliAsParsed` and `NoServerYet`, which
carry the flags to the server; `CredentialsKept` (the credentials are those
asked for from the moment they are made; before that, what the loop over the
paths has read is what was to be read up to where it is, `ReadSoFar`) and
`CallsInStep` (a handler's reply holds a prefix of the plugin's metrics, all of
them once it is done, none if it is an error). `LineHonoured`, `DaemonGetsTls`
and `EveryReplyWhole` follow. `ListedAuthority` joins the parser with the loop:
the option of the line that was stored, the flag that names the list, and the
certificates of all of its paths. `CausedEnd` is the converse of the loop's
invariant: a path that throws is in the list, and one that ends with nothing has
nothing in any of its paths. `GivenValuesKept` and `CollectedVetted` rest on the
lemmas `DefaultsKeepGiven` and `DefaultsApplied` about `ApplyDefaults`, for any
policy and any order of rules.

**RpcCodecProofs.** Two theorems about whole messages, of every class and with
every content. `AllHonest`: what either serializer writes is as long as
`ByteSize` says, so that each length put before a nested message is that of the
bytes that follow. `CopyIs`: `CopyFrom` makes an object equal to its source,
whatever it held. The argument has four steps.

1. *Tables.* `ClassFits`, class by class: what is read, written, measured,
   cleared, created and merged are the class's fields, each once (a map of tags
   to fields and back), and messages nest to a lesser `Depth`.
2. *Levels.* By depth, a level more than a class needs changes nothing
   (`Size1Enough` to `Tokens4Enough`), so `ByteSize`, `Serialize` and `IsMessage`
   satisfy the recursive equations they unroll (`SizeUnfolds`, ...).
3. *Sums.* `ByteSize` adds over a set of fields, `Width` by halves over a
   sequence of tokens, and `FlattenSeq` concatenates from the left; all three
   are recursive functions. Their values (`SumRemove`, `SumUnion`, `WidthIs`,
   `FlattenWidth`) follow from `Induct`, induction as a fact about a *set* of
   naturals. It comes from `WFMin` (a set of naturals has a least member), as the
   library's induction theorems, whose parameter is an operator, are out of the
   provers' reach.
4. *Messages.* A field is as long as the sum over its `Parts` (`FieldHonest`), a
   message as the sum over its fields (`MessageHonest`), and the depths give
   `AllHonest`; for copies, `FieldCopied`, `FlatCopied`, `CopyIs`.

**RpcCallProofs.** `CallStaysTyped`: `CallInv`, which is `CallOK` and
`LimitsNested`, is inductive for a whole call. `LimitsNested` (no parser reads
past the limit of its message, and no message has a limit beyond the one around
it) is what protobuf's own guards see to, and no result of its own; `CallOK` is
not inductive without it. A frame is left only when the limit is reached, and the
message of that frame then goes into the field of the one around it, which must
be able to hold it (`FramesOK`); a reply is of the class that the stub awaits
because the tables of stub and service agree on every path (`ServicesAgree`,
`HandlersAgree`). From it and the two theorems above follow `SizesStayHonest` and
`CopiesStayWhole`: every message of a call is sized as it is written and copied
whole.

**ChannelLemmas** holds the facts about sequences. The proofs' only assumptions
are the named `ASSUME`s on constants (`NothingAssumption`, `CapacityAssumption`,
`ThreadsAssumption`, `BoundsAssumption`, `RequestsAssumption`,
`MetricAssumption`, `NoneAssumption`, `ResultsAssumption`,
`CommandLinesAssumption`, `TextsAssumption`, `FilesAssumption`,
`TextsMeanAssumption`, `ContentsAssumption`, `MaxRulesAssumption`,
`TextAssumption`: each text has a length, and the empty one is there;
`CallAssumption`: what is asked and answered are messages of the method's
classes, as C++ types them, and a text that is cut off ends a request of one
piece), which TLC evaluates in the runs.

Only model-checked: all liveness properties (fairness is beyond the prover's
temporal backend), `CallEnds` among them; `KeepsPromise`, that what is parsed is
what was serialized, for which `SizesStayHonest` and `CallInv` are the
first two of the facts it needs; and the violations.

## 5. What could be added

1. A proof of `KeepsPromise`: an invariant that says, of a parse under way, that
   the frames merged with what is left of the tokens are the message sent.
2. A plugin that writes through the `Config` it is given (`set_*`), in the
   diagnostics and in the handlers; options that a plugin adds to `Flags`.
3. The stream composed with the process: `StreamMetrics` beside the unary calls
   of the same object.
4. `HeartbeatWatch` as a thread of the process, once something starts it.

## 6. Not modelled

- Two `StreamMetrics` calls at a time, and `Write`s that overlap: both race on one
  `_collect_reply` and on a plugin's unguarded members, or break a rule of gRPC.
  Nothing says which outcomes there are, so there is nothing to enumerate.
- `Metric`'s generated `operator=`, after which two objects free one message.
- `Namespace` as a vector that plugins index and print: pure functions. What a
  `Metric` keeps of it is modelled.
- Of the generated code: asynchronous and generic stubs, which nothing uses;
  `Swap`, arenas, descriptors and their registration.
- `LibSetup`, a static function that makes the exporter.
- The text of diagnostics, HTTP and logs, what is inside a key or
  certificate, the numbers in the preamble, the build, the examples and the tests.
