------------------------------- MODULE RpcCall -------------------------------
(***************************************************************************)
(* A call of a plugin's service, from the daemon's stub to the handler and *)
(* back: rpc/plugin.grpc.pb.cc over the messages of rpc/plugin.pb.cc.      *)
(***************************************************************************)
EXTENDS RpcCodec, RpcServices

CONSTANTS None,
          Peers,         \* which service's stub calls which service's server
          Requests(_),   \* of a type, what may be asked: messages sent as one
          Answers(_, _), \* of a type, what a handler may answer to a request
          Strays(_)      \* the unknown fields there may be in a request

\* A text is not as long as it was announced.
IsCutOff(tokens, i) == tokens[i].is = "length" /\ tokens[i + 1].width # tokens[i].value

\* What is asked and answered are objects of the classes, and stray fields
\* are bytes, which end where a text of theirs is cut off.
ASSUME CallAssumption ==
    /\ Peers \subseteq Services \X Services
    /\ \A s \in Services: \A method \in DOMAIN Stubs[s]:
          LET stub == Stubs[s][method]
          IN  \A parts \in Requests(stub.request):
                 /\ parts \in Seq({parts[i]: i \in DOMAIN parts})
                 /\ \A i \in DOMAIN parts: IsMessage(stub.request, parts[i])
                 /\ Strays(parts) \subseteq Seq(Tokens)
                 /\ \A tokens \in Strays(parts): \A i \in DOMAIN tokens:
                       IsCutOff(tokens, i) => /\ Len(parts) = 1 /\ i + 1 = Len(tokens)
                                              /\ tokens[i + 1].width < tokens[i].value
                 /\ \A r \in Answers(stub.response, parts): IsMessage(stub.response, r)

VARIABLES asked,  \* the call: service, method, server, parts, stray fields
          stage,  \* how far it has come
          seen,   \* the method and the message that the handler got
          given,  \* the handler's answer
          got     \* what the stub got

callVars == <<asked, stage, seen, given, got>>
vars == <<callVars, parserVars>>

Final == {"unimplemented", "failed", "rejected", "lost", "answered"}

Stub == Stubs[asked.client][asked.method]
Handlers == HandlersOf(asked.server, StubPath(asked.client, asked.method))

\* A stream's messages are written and parsed like those of other calls.
-----------------------------------------------------------------------------
\* BlockingUnaryCall, or the write of a stream: the request is serialized.
\* The bytes of two messages one after the other are a message too.
RequestTokens(call, array) ==
    LET type == Stubs[call.client][call.method].request
    IN  FlattenSeq([i \in DOMAIN call.parts |->
                       Serialize(type, call.parts[i], call.stray, array)])

Init ==
    /\ \E peers \in Peers:
       \E method \in DOMAIN Stubs[peers[1]]:
       \E parts \in Requests(Stubs[peers[1]][method].request):
       \E stray \in Strays(parts):
          asked = [client |-> peers[1], method |-> method, server |-> peers[2],
                   parts |-> parts, stray |-> stray]
    /\ Begins(Stub.request, <<>>, 0)
    /\ stage = "calling" /\ seen = None /\ given = None /\ got = None

\* Either serializer may be the one that the library takes.
Send(type, tokens) == \E written \in {tokens}: Begin(type, written, Width(written))

Call ==
    /\ stage = "calling"
    /\ \E array \in BOOLEAN: Send(Stub.request, RequestTokens(asked, array))
    /\ stage' = "called"
    /\ UNCHANGED <<asked, seen, given, got>>

\* The server finds no handler for the path, or finds that of the base.
Unimplemented ==
    /\ stage = "called" /\ Handlers = {}
    /\ stage' = "unimplemented"
    /\ UNCHANGED <<asked, seen, given, got, parserVars>>

\* The request is parsed as the type that the handler was registered with.
Dispatch ==
    /\ stage = "called"
    /\ \E h \in Handlers: Begin(h.request, wire, limits[1])
    /\ stage' = "asking"
    /\ UNCHANGED <<asked, seen, given, got>>

Parse ==
    /\ stage \in {"asking", "answering"}
    /\ ParserStep
    /\ UNCHANGED callVars

RequestFails ==
    /\ stage = "asking" /\ outcome = "failed"
    /\ stage' = "failed"
    /\ UNCHANGED <<asked, seen, given, got, parserVars>>

Handle ==
    /\ stage = "asking" /\ outcome = "parsed"
    /\ \E h \in Handlers: seen' = [method |-> h.function, message |-> Result]
    /\ stage' = "handling"
    /\ UNCHANGED <<asked, given, got, parserVars>>

\* With a status that is not OK no message is sent.
Reject ==
    /\ stage = "handling"
    /\ stage' = "rejected"
    /\ UNCHANGED <<asked, seen, given, got, parserVars>>

\* The answer is copied to the response, and serialized.  Text that is not
\* UTF-8 is logged, and written all the same.
Answer ==
    /\ stage = "handling"
    /\ \E h \in Handlers: \E r \in Answers(h.response, asked.parts): \E array \in BOOLEAN:
          /\ given' = r
          /\ Send(Stub.response, Serialize(h.response, r, <<>>, array))
    /\ stage' = "answering"
    /\ UNCHANGED <<asked, seen, got>>

AnswerFails ==
    /\ stage = "answering" /\ outcome = "failed"
    /\ stage' = "lost"
    /\ UNCHANGED <<asked, seen, given, got, parserVars>>

Return ==
    /\ stage = "answering" /\ outcome = "parsed"
    /\ got' = Result
    /\ stage' = "answered"
    /\ UNCHANGED <<asked, seen, given, parserVars>>

\* What the generated code and the library do between two ends.
Carry ==
    \/ Unimplemented \/ Dispatch \/ Parse
    \/ RequestFails \/ Handle
    \/ AnswerFails \/ Return

Next == Call \/ Carry \/ Reject \/ Answer

Spec == Init /\ [][Next]_vars

\* Threads of the server and of the client run.  Nothing makes a handler
\* return.
FairSpec == Spec /\ WF_vars(Carry)

-----------------------------------------------------------------------------
(***************************************************************************)
(* The promise that is kept.                                               *)
(***************************************************************************)
\* Stray fields are whole: there is no end of a group, and no text is cut off.
IsWhole(tokens) ==
    \A i \in DOMAIN tokens:
        /\ tokens[i].is = "tag" => tokens[i].value % 8 # 4
        /\ ~IsCutOff(tokens, i)

RequestOf(call) ==
    LET type == Stubs[call.client][call.method].request
    IN  FoldLeft(LAMBDA m, part: MergeFrom(type, m, part), NewOf[type], call.parts)

LegibleCall(call) ==
    /\ \A i \in DOMAIN call.parts:
          IsLegible(Stubs[call.client][call.method].request, call.parts[i])
    /\ IsWhole(call.stray)

Promise == INSTANCE RemoteCall WITH
    Served     <- LAMBDA call: call.client = call.server,
    Request    <- RequestOf,
    Legible    <- LegibleCall,
    Answered   <- LAMBDA call: Answers(Stubs[call.client][call.method].response, call.parts),
    Returnable <- LAMBDA call, m: IsLegible(Stubs[call.client][call.method].response, m),
    stage      <- IF stage \in {"calling", "asking"} THEN "called" ELSE stage

\* The handler of the method that was called sees the message that was sent,
\* and the caller the one that was answered: whichever serializer wrote it,
\* whatever unknown fields are in it, and if it came in two pieces, as what
\* MergeFrom makes of them.  A call fails only if a string is not UTF-8, a
\* message ends in a group, or the server has no such method.
KeepsPromise == Promise!Spec

-----------------------------------------------------------------------------
Sent == {asked.parts[i]: i \in DOMAIN asked.parts}

CallOK ==
    /\ ParserTypeOK
    /\ stage \in Final \cup {"calling", "called", "asking", "handling", "answering"}
    /\ asked.client \in Services /\ asked.server \in Services
    /\ asked.method \in DOMAIN Stubs[asked.client]
    /\ asked.parts \in Requests(Stub.request) /\ asked.stray \in Strays(asked.parts)
    /\ \A i \in DOMAIN frames: /\ frames[i].type \in Types \cup EntryTypes
                              /\ IsMessage(frames[i].type, frames[i].msg)
    /\ \A i \in 2..Len(frames): /\ frames[i].into \in {r[2]: r \in ReadsOf(frames[i - 1].type)}
                                /\ frames[i].into.of = frames[i].type
    /\ stage = "answering" => IsMessage(Stub.response, given)

\* ByteSize, which is called first and whose results become the lengths of
\* inner messages, is what both serializers then write.
SizesHonest ==
    /\ stage = "calling" => \A m \in Sent: \A array \in BOOLEAN:
          Width(Serialize(Stub.request, m, <<>>, array)) = ByteSize(Stub.request, m)
    /\ stage = "answering" => \A array \in BOOLEAN:
          Width(Serialize(Stub.response, given, <<>>, array)) = ByteSize(Stub.response, given)

\* A message of any type that is assigned to, or cleared, keeps nothing of
\* what it was, and gets all that the other has.
CopiesWhole ==
    outcome = "parsing" /\ AtEnd /\ Top.type \in Types =>
        \A m, n \in {Top.msg, NewOf[Top.type]}: CopyFrom(Top.type, m, n) = n

\* A request that is sent reaches a handler or comes to an end without, and
\* an answer comes to an end: no message makes a parser go on for ever.
CallEnds ==
    /\ stage = "called" ~> stage \in Final \cup {"handling"}
    /\ stage = "answering" ~> stage \in Final
=============================================================================
