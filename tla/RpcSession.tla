----------------------------- MODULE RpcSession -----------------------------
(***************************************************************************)
(* A client and a server of the Calculator (examples/cpp), each with a     *)
(* protocol object of its own over the two ends of one connection.  Both   *)
(* objects are instances of NiceJSONProtocol: every step of an end is a    *)
(* call of its object, made by the code Thrift generates (external), and a *)
(* document one object has written comes to the other as a step of its     *)
(* peer.                                                                   *)
(*                                                                         *)
(* The client ends the session when a call fails, as CppClient.cpp does.   *)
(* The server's loop ends the connection when the transport fails; after   *)
(* another exception it may end it too, or go on (lenient).                *)
(***************************************************************************)
EXTENDS Calculator, SequencesExt

CONSTANTS
    ServerOperations,  \* those the typelib of the server has
    Calls,             \* the calls a client may make: [op, args]
    Values,            \* pieces of their arguments and of the answers
    MaxCalls,          \* bound: calls of a session
    MaxPieces,         \* bound: pieces of a message
    RawString, NonFinite, Unconvertible, Stop, Malformed, NoName, NoBuffer,
    NoAnswer,          \* what a oneway call returns
    Error              \* an exception other than those of the handler

VARIABLES
    \* the client's protocol object
    cmode, cname, ctype, cseqid, cbuffer, carrived, cpos, cmid, cclosed,
    cout, caborted, casked, ccurrent, cgot, crefused,
    \* the server's
    smode, sname, stype, sseqid, sbuffer, sarrived, spos, smid, sclosed,
    sout, saborted, sasked, scurrent, sgot, srefused,
    cpc,       \* where the client is in a call
    ctodo,     \* the pieces it has still to write
    made,      \* the calls it has made
    returned,  \* what they have returned
    spc,       \* where the server is in its loop
    stodo,     \* the pieces of the answer it has still to write
    log,       \* log of its handler
    ran,       \* history: the runs of the handler
    failed,    \* history: the handler has failed to serve a call
    lenient,   \* whether the server's loop goes on after an exception
    link       \* "up", or "down" once the network has failed

cobject == <<cmode, cname, ctype, cseqid, cbuffer, carrived, cpos, cmid, cclosed,
             cout, caborted, casked, ccurrent, cgot, crefused>>
sobject == <<smode, sname, stype, sseqid, sbuffer, sarrived, spos, smid, sclosed,
             sout, saborted, sasked, scurrent, sgot, srefused>>
cdriver == <<cpc, ctodo, made, returned>>
sdriver == <<spc, stodo, log, ran, failed>>
vars == <<cobject, sobject, cdriver, sdriver, lenient, link>>
-----------------------------------------------------------------------------
Dumped(name, type, body, flaw) ==
    [name |-> name, type |-> type, seqid |-> 0, body |-> body, flaw |-> flaw]

(* The documents each end may get: those the other can write.              *)
Writable == {c \in Calls : \A i \in DOMAIN c.args : c.args[i] # Unconvertible}
Requests ==
    {Dumped(c.op, type, c.args, flaw) : c \in Writable, type \in {"call", "oneway"},
                                        flaw \in {"none", "syntax", "truncated"}}
Replies ==
    {Dumped(op, type, body, flaw) : op \in Methods, type \in {"reply", "exception"},
                                    body \in {<<>>} \union {<<v>> : v \in Values \union {RawString}},
                                    flaw \in {"none", "syntax", "truncated"}}

Headers(types) == [name : Methods, type : types, seqid : {0}]

Client == INSTANCE NiceJSONProtocol WITH
    Operations <- Methods, OnewayOperations <- OnewayCalls, OtherNames <- {}, HalfRange <- 4,
    CallerHeaders <- Headers({"call", "oneway"}),
    CallerPieces <- Values \union {RawString, Unconvertible, Stop},
    Documents <- Replies, MaxArrived <- MaxCalls, MaxBegun <- MaxCalls, MaxBody <- MaxPieces,
    mode <- cmode, message_name <- cname, message_type <- ctype, message_seqid <- cseqid,
    buffer <- cbuffer, arrived <- carrived, pos <- cpos, mid <- cmid, closed <- cclosed,
    out <- cout, aborted <- caborted, asked <- casked, current <- ccurrent,
    got <- cgot, refused <- crefused

Server == INSTANCE NiceJSONProtocol WITH
    Operations <- ServerOperations, OnewayOperations <- OnewayCalls \intersect ServerOperations,
    OtherNames <- Methods \ ServerOperations, HalfRange <- 4,
    CallerHeaders <- Headers({"reply", "exception"}), CallerPieces <- Values \union {RawString, Unconvertible, Stop},
    Documents <- Requests, MaxArrived <- MaxCalls, MaxBegun <- MaxCalls, MaxBody <- MaxPieces,
    mode <- smode, message_name <- sname, message_type <- stype, message_seqid <- sseqid,
    buffer <- sbuffer, arrived <- sarrived, pos <- spos, mid <- smid, closed <- sclosed,
    out <- sout, aborted <- saborted, asked <- sasked, current <- scurrent,
    got <- sgot, refused <- srefused

(* Calls are made by generated code: no operation but those of the service, *)
(* and no piece that is not of a struct.                                   *)
ASSUME CallsAssumption ==
    /\ Calls \subseteq [op : Methods, args : Seq(Values \union {RawString, Unconvertible})]
    /\ ServerOperations \subseteq Methods
    /\ MaxCalls \in Nat /\ MaxPieces \in Nat

ASSUME NamesAssumption ==
    /\ {RawString, NonFinite, Unconvertible, Stop, Malformed} \intersect Values = {}
    /\ Stop \notin {RawString, NonFinite, Unconvertible, Malformed}
    /\ Unconvertible \notin {RawString, NonFinite, Malformed}
    /\ RawString \notin {NonFinite, Malformed}
    /\ NoName \notin Methods
    /\ NoBuffer \notin Seq(Values \union {RawString, NonFinite, Unconvertible, Stop, Malformed})
    /\ Error # NoAnswer /\ Error \notin Seq(Values)

(* Values has the answers of the service to these calls, and what getStruct *)
(* finds of them in the log: its type for what the schema lets through.    *)
AnswersFit(served) ==
    /\ \A i \in DOMAIN served.answer : served.answer[i] \in Values
    /\ \A id \in DOMAIN served.log : Success(served.log[id])[1] \in Values

ASSUME ValuesAssumption ==
    \A call \in Calls :
        (\A i \in DOMAIN call.args : call.args[i] \in Values)
        => AnswersFit(Handle(call.op, call.args, EmptyLog))

Init ==
    /\ Client!Init /\ Server!Init
    /\ cpc = "idle" /\ ctodo = <<>> /\ made = <<>> /\ returned = <<>>
    /\ spc = "process" /\ stodo = <<>> /\ log = EmptyLog /\ ran = <<>> /\ failed = FALSE
    /\ lenient \in BOOLEAN /\ link = "up"
-----------------------------------------------------------------------------
EndsWithStop(body) == body # <<>> /\ Last(body) = Stop

(* The client: CalculatorClient, and a program that calls it.              *)

ByClient == UNCHANGED <<sobject, sdriver, lenient, link>>
IsOneway(call) == call.op \in OnewayCalls

Invoke(call) ==
    /\ cpc = "idle" /\ Len(made) < MaxCalls
    /\ Client!WriteMessageBegin(call.op, IF IsOneway(call) THEN "oneway" ELSE "call", 0)
    /\ made' = Append(made, call)
    /\ cpc' = "send" /\ ctodo' = Append(call.args, Stop)
    /\ UNCHANGED returned /\ ByClient

ClientWrites ==
    /\ cpc = "send" /\ ctodo # <<>>
    /\ Client!WriteBody(Head(ctodo))
    /\ ctodo' = Tail(ctodo)
    /\ UNCHANGED <<cpc, made, returned>> /\ ByClient

GoesOn(answer, next) == \* slip: the client makes calls after a failure
    /\ returned' = Append(returned, answer) /\ cpc' = "idle"
    /\ UNCHANGED <<ctodo, made>> /\ ByClient
Return(answer, next) ==
    /\ returned' = Append(returned, answer) /\ cpc' = next
    /\ UNCHANGED <<ctodo, made>> /\ ByClient

ClientSends ==
    /\ cpc = "send" /\ ctodo = <<>>
    /\ Client!WriteMessageEnd
    /\ IF IsOneway(Last(made)) THEN Return(NoAnswer, "idle")
       ELSE cpc' = "receive" /\ UNCHANGED <<ctodo, made, returned>> /\ ByClient

ClientReceives ==
    /\ cpc = "receive"
    /\ Client!ReadMessageBegin
    /\ cpc' = "read"
    /\ UNCHANGED <<ctodo, made, returned>> /\ ByClient

ClientReads ==
    /\ cpc = "read" /\ ~EndsWithStop(Last(cgot).body)
    /\ Client!ReadBody
    /\ UNCHANGED <<cpc, ctodo, made, returned>> /\ ByClient

ClientReturns ==
    /\ cpc = "read" /\ EndsWithStop(Last(cgot).body)
    /\ Client!ReadMessageEnd
    /\ IF ctype = "reply" THEN Return(Front(Last(cgot).body), "idle")
       ELSE Return(Error, "over")

(* A write fails only when the connection is lost, or closed by the peer.  *)
CanBeLost(peer) == link = "down" \/ peer = "over"

(* Any exception of the protocol object ends the session.                  *)
ClientFails ==
    /\ \/ /\ cpc = "send" /\ ctodo = <<>>
          /\ \/ Client!WriteMessageEndMarshalFails
             \/ CanBeLost(spc) /\ Client!WriteMessageEndTransportFails
       \/ /\ cpc = "receive"
          /\ \/ Client!ReadMessageBeginBadHeader
             \/ Client!ReadMessageBeginDemarshalFails
             \/ Client!ReadMessageBeginParseError
             \/ Client!ReadMessageBeginEndOfFile
    /\ Return(Error, "over")

Quit ==
    /\ cpc = "idle"
    /\ cpc' = "over"
    /\ UNCHANGED <<cobject, ctodo, made, returned>> /\ ByClient
-----------------------------------------------------------------------------
(* The server: TConnectedClient, CalculatorProcessor and the handler.      *)

ByServer == UNCHANGED <<cobject, cdriver, lenient, link>>

ServerReceives ==
    /\ spc = "process"
    /\ Server!ReadMessageBegin
    /\ spc' = "read"
    /\ UNCHANGED <<stodo, log, ran, failed>> /\ ByServer

ServerReads ==
    /\ spc = "read" /\ ~EndsWithStop(Last(sgot).body)
    /\ Server!ReadBody
    /\ UNCHANGED sdriver /\ ByServer

ServerReadsEnd ==
    /\ spc = "read" /\ EndsWithStop(Last(sgot).body)
    /\ Server!ReadMessageEnd
    /\ spc' = "handle"
    /\ UNCHANGED <<stodo, log, ran, failed>> /\ ByServer

AnswersAll(request, type, pieces) == \* slip: answers oneway calls too
    /\ Server!WriteMessageBegin(request.name, type, request.seqid)
    /\ spc' = "answer" /\ stodo' = Append(pieces, Stop)
RenumbersAnswers(request, type, pieces) == \* slip: a seqid of its own
    IF request.name \in OnewayCalls
    THEN spc' = "process" /\ UNCHANGED <<sobject, stodo>>
    ELSE /\ Server!WriteMessageBegin(request.name, type, request.seqid + 1)
         /\ spc' = "answer" /\ stodo' = Append(pieces, Stop)
(* The answer, if there is one, begins in the same step.                   *)
Answer(request, type, pieces) ==
    IF request.name \in OnewayCalls
    THEN spc' = "process" /\ UNCHANGED <<sobject, stodo>>
    ELSE /\ Server!WriteMessageBegin(request.name, type, request.seqid)
         /\ spc' = "answer" /\ stodo' = Append(pieces, Stop)

Run ==
    /\ spc = "handle"
    /\ LET request == Last(sgot)
           served == Handle(request.name, Front(request.body), log)
       IN  /\ log' = served.log
           /\ ran' = Append(ran, [call |-> request.at, answer |-> served.answer])
           /\ Answer(request, "reply", served.answer)
    /\ UNCHANGED failed /\ ByServer

(* The service fails: the handler throws an exception it does not declare, *)
(* or gives an answer that holds an enum value without a label, or a       *)
(* string that is not UTF-8 (in the Calculator none does, but the server   *)
(* of any other service can).                                              *)
RunFails ==
    /\ spc = "handle" /\ ~failed
    /\ failed' = TRUE
    /\ \/ Answer(Last(sgot), "exception", <<>>)
       \/ Answer(Last(sgot), "reply", <<Unconvertible>>)
       \/ Answer(Last(sgot), "reply", <<RawString>>)
    /\ UNCHANGED <<log, ran>> /\ ByServer

ServerWrites ==
    /\ spc = "answer" /\ stodo # <<>>
    /\ Server!WriteBody(Head(stodo))
    /\ stodo' = Tail(stodo)
    /\ UNCHANGED <<spc, log, ran, failed>> /\ ByServer

ServerSends ==
    /\ spc = "answer" /\ stodo = <<>>
    /\ Server!WriteMessageEnd
    /\ spc' = "process"
    /\ UNCHANGED <<stodo, log, ran, failed>> /\ ByServer

ServerFails ==
    /\ \/ /\ spc = "answer" /\ stodo = <<>>
          /\ \/ Server!WriteMessageEndMarshalFails /\ spc' = IF lenient THEN "process" ELSE "over"
             \/ /\ CanBeLost(cpc)
                /\ Server!WriteMessageEndTransportFails /\ spc' = "over"
       \/ /\ spc = "process"
          /\ \/ /\ \/ Server!ReadMessageBeginBadHeader
                   \/ Server!ReadMessageBeginDemarshalFails
                   \/ Server!ReadMessageBeginParseError
                /\ spc' = IF lenient THEN "process" ELSE "over"
             \/ Server!ReadMessageBeginEndOfFile /\ spc' = "over"
    /\ UNCHANGED <<stodo, log, ran, failed>> /\ ByServer
-----------------------------------------------------------------------------
(* The connection.  What is written arrives in order; when the network     *)
(* fails what is under way is lost, perhaps in the middle of a document.   *)

Drivers == <<cdriver, sdriver, lenient>>

RequestArrives ==
    /\ link = "up" /\ Len(sarrived) < Len(cout)
    /\ Server!PeerSends(cout[Len(sarrived) + 1])
    /\ UNCHANGED <<cobject, Drivers, link>>

ReplyArrives ==
    /\ link = "up" /\ Len(carrived) < Len(sout)
    /\ Client!PeerSends(sout[Len(carrived) + 1])
    /\ UNCHANGED <<sobject, Drivers, link>>

CutOff(written, arrived_) ==
    /\ link = "down"
    /\ Len(arrived_) < Len(written)
    /\ arrived_ # <<>> => Last(arrived_).flaw # "truncated"

RequestIsCutOff ==
    /\ CutOff(cout, sarrived)
    /\ Server!PeerSends(Client!Truncation(cout[Len(sarrived) + 1]))
    /\ UNCHANGED <<cobject, Drivers, link>>

ReplyIsCutOff ==
    /\ CutOff(sout, carrived)
    /\ Client!PeerSends(Server!Truncation(sout[Len(carrived) + 1]))
    /\ UNCHANGED <<sobject, Drivers, link>>

ServerSeesClose ==
    /\ link = "down" \/ (cpc = "over" /\ sarrived = cout)
    /\ Server!PeerCloses
    /\ UNCHANGED <<cobject, Drivers, link>>

ClientSeesClose ==
    /\ link = "down" \/ (spc = "over" /\ carrived = sout)
    /\ Client!PeerCloses
    /\ UNCHANGED <<sobject, Drivers, link>>

LinkBreaks ==
    /\ link = "up" /\ link' = "down"
    /\ UNCHANGED <<cobject, sobject, Drivers>>
-----------------------------------------------------------------------------
(* Once it has made a call the client goes on with it, and so does the     *)
(* server with a request; a connection delivers.                           *)
ClientGoesOn ==
    \/ ClientWrites \/ ClientSends \/ ClientReceives \/ ClientReads \/ ClientReturns
    \/ ClientFails

ServerGoesOn ==
    \/ ServerReceives \/ ServerReads \/ ServerReadsEnd \/ Run \/ RunFails
    \/ ServerWrites \/ ServerSends \/ ServerFails

Delivery == RequestArrives \/ ReplyArrives \/ ServerSeesClose \/ ClientSeesClose

Next ==
    \/ \E call \in Calls : Invoke(call)
    \/ Quit
    \/ ClientGoesOn \/ ServerGoesOn \/ Delivery
    \/ RequestIsCutOff \/ ReplyIsCutOff \/ LinkBreaks

Fairness ==
    /\ WF_vars(ClientGoesOn) /\ WF_vars(ServerGoesOn)
    /\ WF_vars(RequestArrives) /\ WF_vars(ReplyArrives)
    /\ WF_vars(ServerSeesClose) /\ WF_vars(ClientSeesClose)

Spec == Init /\ [][Next]_vars /\ Fairness
-----------------------------------------------------------------------------
(* Properties.                                                             *)

(* Both ends are where their objects are: a driver is inside a message     *)
(* only while its object is, and each handles a request that was made.     *)
TypeOK ==
    /\ cpc \in {"idle", "send", "receive", "read", "over"}
    /\ spc \in {"process", "read", "handle", "answer", "over"}
    /\ lenient \in BOOLEAN /\ failed \in BOOLEAN /\ link \in {"up", "down"}
    /\ cpc = "send" => cmode = "WRITING_MESSAGE"
    /\ cpc \in {"idle", "receive"} => cmode = "NONE"
    /\ cpc = "read" => cmode = "READING_MESSAGE"
    /\ spc = "read" => smode = "READING_MESSAGE"
    /\ spc = "answer" => smode = "WRITING_MESSAGE"
    /\ spc = "handle" => smode = "NONE" /\ Last(sgot).at \in 1 .. Len(made)
    /\ Len(returned) \in {Len(made) - 1, Len(made)}

(* The two ends are in step: while the client has not given up there is no *)
(* answer on its way or unread but one, to the call it waits for.  No end  *)
(* compares seqids: nothing else keeps an answer from being taken for that *)
(* of a later call.                                                        *)
InStep ==
    LET unread == SubSeq(sout, cpos + 1, Len(sout))
    IN  cpc # "over" =>
            \/ unread = <<>>
            \/ Len(unread) = 1 /\ cpc = "receive" /\ unread[1].name = Last(made).op

(* A call that both typelibs know and that holds nothing they refuse.      *)
Sound(call) ==
    /\ call.op \in ServerOperations
    /\ \A i \in DOMAIN call.args : call.args[i] \in Values

Healthy == link = "up" /\ ~failed /\ \A n \in DOMAIN made : Sound(made[n])

(* Nothing fails by itself: as long as the network holds, the service does *)
(* not fail and every call is sound, no call ends in an error.             *)
HealthyCallsSucceed ==
    Healthy => \A n \in DOMAIN returned : returned[n] # Error

(* To the client the session is a service that runs its calls one by one.  *)
Calling == INSTANCE CallAndAnswer WITH
    Serve <- LAMBDA call, entries :
        LET served == Handle(call.op, call.args, entries)
        IN  [answer |-> served.answer, state |-> served.log],
    InitialState <- EmptyLog,
    state <- log

(* A call returns what its own run answered, or an error; no call is run   *)
(* twice, out of order, or with other arguments than it was given.         *)
ImplementsCallAndAnswer == Calling!Spec

(* Both ends use their objects as NiceJSONProtocol lets them be used, and  *)
(* each is a peer to the other as it expects one: what is proved of an     *)
(* object holds for both.                                                  *)
EndsAreProtocolObjects == Client!Spec /\ Server!Spec

(* Every call returns, if the server ends the connection when it cannot    *)
(* serve a request.  (A lenient one leaves the client waiting for ever.)   *)
EveryCallReturns ==
    ~lenient => (Len(returned) < Len(made) ~> Len(returned) = Len(made))

(* A sound call that was sent, oneway or not, is run at last, unless the   *)
(* network or the service fails or another call was not sound.             *)
SoundCallsRun ==
    \A n \in 1 .. MaxCalls :
        Len(cout) >= n ~> (~Healthy \/ \E i \in DOMAIN ran : ran[i].call = n)
=============================================================================
