-------------------------- MODULE RpcSession_proofs --------------------------
(* What TLAPS proves of RpcSession, for every value of its constants.       *)
EXTENDS RpcSession, SequenceTheorems, TLAPS
-----------------------------------------------------------------------------
(* The service: its answers are values, as long as the entries of its log   *)
(* are.                                                                     *)
LogFits(entries) == \A id \in DOMAIN entries : Success(entries[id])[1] \in Values
Answers == {<<>>} \union {<<v>> : v \in Values}

(* An answer of one piece.                                                  *)
LEMMA OnePiece ==
  ASSUME NEW x
  PROVE  DOMAIN <<x>> = {1} /\ <<x>>[1] = x
  OBVIOUS

LEMMA SuccessIsOnePiece ==
  ASSUME NEW v
  PROVE  Success(v) = <<Success(v)[1]>> /\ 1 \in DOMAIN Success(v)
  BY OnePiece DEF Success

LEMMA EntryFits ==
  ASSUME NEW entries, NEW id, NEW e
  PROVE  /\ id \in DOMAIN Entered(entries, id, e) /\ Entered(entries, id, e)[id] = e
         /\ LogFits(entries) /\ Success(e)[1] \in Values => LogFits(Entered(entries, id, e))
         /\ LogFits(Entered(entries, id, e)) => Success(e)[1] \in Values
  BY DEF Entered, LogFits

LEMMA CalculateFits ==
  ASSUME NEW logid, NEW work, NEW entries, LogFits(entries),
         AnswersFit(Calculate(logid, work, EmptyLog))
  PROVE  /\ Calculate(logid, work, entries).answer \in Answers
         /\ LogFits(Calculate(logid, work, entries).log)
  <1>1. CASE Refuses(work)
    <2> DEFINE answer == Calculate(logid, work, EmptyLog).answer
    <2>1. /\ Calculate(logid, work, entries).answer = answer
          /\ Calculate(logid, work, entries).log = entries
      BY <1>1 DEF Calculate
    <2>2. \E x : answer = <<x>>
      BY <1>1 DEF Calculate, InvalidOperation
    <2>3. \A i \in DOMAIN answer : answer[i] \in Values
      BY DEF AnswersFit
    <2> HIDE DEF answer
    <2> QED
      BY <2>1, <2>2, <2>3, OnePiece DEF Answers
  <1>2. CASE ~Refuses(work)
    <2> DEFINE answer == Success(I32(Val(work)))
               entry == SharedStruct(logid, ToString(Val(work)))
    <2>1. /\ Calculate(logid, work, entries).answer = answer
          /\ Calculate(logid, work, entries).log = Entered(entries, logid, entry)
          /\ Calculate(logid, work, EmptyLog).answer = answer
          /\ Calculate(logid, work, EmptyLog).log = Entered(EmptyLog, logid, entry)
      BY <1>2 DEF Calculate
    <2> HIDE DEF entry
    <2>2. answer[1] \in Values /\ LogFits(Entered(EmptyLog, logid, entry))
      BY <2>1, SuccessIsOnePiece DEF AnswersFit, LogFits
    <2> QED
      BY <2>1, <2>2, EntryFits, SuccessIsOnePiece DEF Answers
  <1> QED
    BY <1>1, <1>2

LEMMA GetStructFits ==
  ASSUME NEW logid, NEW entries, LogFits(entries), AnswersFit(GetStruct(logid, EmptyLog))
  PROVE  /\ GetStruct(logid, entries).answer \in Answers
         /\ LogFits(GetStruct(logid, entries).log)
  <1> DEFINE none == SharedStruct(0, "")
             found == GetStruct(logid, entries).log
  <1>0. DOMAIN EmptyLog = {}
    BY DEF EmptyLog
  <1>1. GetStruct(logid, EmptyLog).log = Entered(EmptyLog, logid, none)
    BY <1>0 DEF GetStruct
  <1>2. LogFits(Entered(EmptyLog, logid, none))
    BY <1>1 DEF AnswersFit, LogFits
  <1>3. /\ (found = entries /\ logid \in DOMAIN entries) \/ found = Entered(entries, logid, none)
        /\ GetStruct(logid, entries).answer = Success(found[logid])
    BY DEF GetStruct
  <1> HIDE DEF none, found
  <1>4. LogFits(found) /\ logid \in DOMAIN found
    BY <1>2, <1>3, EntryFits
  <1>5. Success(found[logid])[1] \in Values
    BY <1>4 DEF LogFits
  <1> QED
    BY <1>3, <1>4, <1>5, SuccessIsOnePiece DEF Answers, found

LEMMA AnswersAreValues ==
  ASSUME NEW call \in Calls, \A i \in DOMAIN call.args : call.args[i] \in Values,
         NEW entries, LogFits(entries)
  PROVE  /\ Handle(call.op, call.args, entries).answer \in Answers
         /\ LogFits(Handle(call.op, call.args, entries).log)
  <1>1. AnswersFit(Handle(call.op, call.args, EmptyLog)) /\ call.op \in Methods
    BY ValuesAssumption, CallsAssumption
  <1>2. CASE call.op = "add"
    <2> DEFINE answer == Success(I32(call.args[1].n1 + call.args[1].n2))
    <2>1. /\ Handle(call.op, call.args, entries).answer = answer
          /\ Handle(call.op, call.args, entries).log = entries
          /\ Handle(call.op, call.args, EmptyLog).answer = answer
      BY <1>2 DEF Handle
    <2>2. answer[1] \in Values
      BY <1>1, <2>1, SuccessIsOnePiece DEF AnswersFit
    <2> QED
      BY <2>1, <2>2, SuccessIsOnePiece DEF Answers
  <1>3. CASE call.op = "calculate"
    BY <1>1, <1>3, CalculateFits DEF Handle
  <1>4. CASE call.op = "getStruct"
    BY <1>1, <1>4, GetStructFits DEF Handle
  <1>5. CASE call.op \in {"ping", "zip"}
    BY <1>5 DEF Handle, Answers
  <1> QED
    BY <1>1, <1>2, <1>3, <1>4, <1>5 DEF Methods, OnewayCalls
-----------------------------------------------------------------------------
(* Messages as sequences of pieces: what one end has still to write or to   *)
(* read follows what it has written or read.                                *)
Carried == Values \union {RawString, Unconvertible}
SessionPieces == Carried \union {Stop}
Whole(pieces) == Append(pieces, Stop)

LEMMA MoveOne ==
  ASSUME NEW S, NEW done \in Seq(S), NEW todo \in Seq(S), todo # <<>>
  PROVE  /\ Head(todo) \in S /\ Append(done, Head(todo)) \in Seq(S) /\ Tail(todo) \in Seq(S)
         /\ Append(done, Head(todo)) \o Tail(todo) = done \o todo
  <1> DEFINE first == Head(todo)
             rest == Tail(todo)
             one == <<first>>
  <1>1. /\ first \in S /\ rest \in Seq(S) /\ Len(rest) = Len(todo) - 1
        /\ \A i \in 1 .. Len(rest) : rest[i] = todo[i + 1]
    BY HeadTailProperties
  <1>2. Len(todo) \in Nat /\ Len(todo) > 0 /\ first = todo[1]
    BY LenProperties, EmptySeq
  <1>3. /\ Append(done, first) \in Seq(S) /\ Append(done, first) = done \o one
        /\ one \in Seq(S) /\ Len(one) = 1 /\ one[1] = first
    BY <1>1, AppendProperties, AppendIsConcat
  <1> HIDE DEF first, rest, one
  <1>4. /\ one \o rest \in Seq(S)
        /\ Len(one \o rest) = Len(one) + Len(rest)
        /\ \A i \in 1 .. Len(one) + Len(rest) :
              (one \o rest)[i] = IF i <= Len(one) THEN one[i] ELSE rest[i - Len(one)]
    BY <1>1, <1>3, ConcatProperties
  <1>5. ASSUME NEW i \in 1 .. Len(todo)
        PROVE  (one \o rest)[i] = todo[i]
    <2>1. (one \o rest)[i] = IF i <= 1 THEN one[i] ELSE rest[i - 1]
      BY <1>1, <1>2, <1>3, <1>4
    <2>2. CASE i = 1
      BY <1>2, <1>3, <2>1, <2>2
    <2>3. CASE i # 1
      <3>1. i - 1 \in 1 .. Len(rest) /\ i - 1 + 1 = i /\ ~(i <= 1)
        BY <1>1, <1>2, <2>3
      <3> QED
        BY <1>1, <2>1, <3>1
    <2> QED
      BY <2>2, <2>3
  <1>6. one \o rest = todo
    <2>1. Len(one \o rest) = Len(todo)
      BY <1>1, <1>2, <1>3, <1>4
    <2> QED
      BY <1>4, <1>5, <2>1, SeqEqual
  <1>7. Append(done, first) \o rest = done \o todo
    <2>1. (done \o one) \o rest = done \o (one \o rest)
      BY <1>1, <1>3, ConcatAssociative
    <2> QED
      BY <1>3, <1>6, <2>1
  <1> QED
    BY <1>1, <1>3, <1>7 DEF first, rest

(* A message written to its end has its Stop there and nowhere else.        *)
LEMMA WholeEndsThere ==
  ASSUME NEW w, w \in Seq(Carried)
  PROVE  /\ Whole(w) \in Seq(SessionPieces) /\ Whole(w) # <<>>
         /\ Len(w) \in Nat /\ Len(Whole(w)) = Len(w) + 1
         /\ DOMAIN Whole(w) = 1 .. Len(w) + 1 /\ DOMAIN w = 1 .. Len(w)
         /\ \A i \in 1 .. Len(w) : Whole(w)[i] = w[i] /\ w[i] \in Carried /\ w[i] # Stop
         /\ Whole(w)[Len(w) + 1] = Stop
         /\ SubSeq(Whole(w), 1, Len(w)) = w
  <1>1. w \in Seq(SessionPieces) /\ Stop \in SessionPieces
    BY SeqMonotonic DEF SessionPieces
  <1>2. /\ Whole(w) \in Seq(SessionPieces) /\ Whole(w) # <<>> /\ Len(Whole(w)) = Len(w) + 1
        /\ \A i \in 1 .. Len(w) : Whole(w)[i] = w[i]
        /\ Whole(w)[Len(w) + 1] = Stop
    BY <1>1, AppendProperties DEF Whole
  <1>3. Len(w) \in Nat /\ DOMAIN w = 1 .. Len(w) /\ DOMAIN Whole(w) = 1 .. Len(w) + 1
    BY <1>1, <1>2, LenProperties
  <1>4. \A i \in 1 .. Len(w) : w[i] \in Carried /\ w[i] # Stop
    BY ElementOfSeq, NamesAssumption DEF Carried
  <1>5. /\ SubSeq(Whole(w), 1, Len(w)) \in Seq(SessionPieces)
        /\ Len(SubSeq(Whole(w), 1, Len(w))) = IF 1 <= Len(w) THEN Len(w) - 1 + 1 ELSE 0
        /\ \A i \in 1 .. Len(w) - 1 + 1 : SubSeq(Whole(w), 1, Len(w))[i] = Whole(w)[1 + i - 1]
    <2>1. \A i \in 1 .. Len(w) : Whole(w)[i] \in SessionPieces
      BY <1>2, <1>4 DEF SessionPieces
    <2> HIDE DEF SessionPieces
    <2> QED
      BY <1>3, <2>1, SubSeqProperties
  <1>6. SubSeq(Whole(w), 1, Len(w)) = w
    <2>1. Len(SubSeq(Whole(w), 1, Len(w))) = Len(w)
      BY <1>3, <1>5
    <2>2. \A i \in 1 .. Len(w) : SubSeq(Whole(w), 1, Len(w))[i] = w[i]
      BY <1>2, <1>3, <1>5
    <2> QED
      BY <1>1, <1>5, <2>1, <2>2, SeqEqual
  <1> QED
    BY <1>2, <1>3, <1>4, <1>6

LEMMA StructEndsOnlyThere ==
  ASSUME NEW w, w \in Seq(Carried), NEW n \in DOMAIN Whole(w)
  PROVE  Client!StructEndsAt(Whole(w), n) =>
           n = Len(w) + 1 /\ \A i \in DOMAIN w : w[i] \in Values \union {RawString}
  <1>1. /\ Len(w) \in Nat /\ DOMAIN Whole(w) = 1 .. Len(w) + 1 /\ DOMAIN w = 1 .. Len(w)
        /\ \A i \in 1 .. Len(w) : Whole(w)[i] = w[i] /\ w[i] \in Carried /\ w[i] # Stop
    BY WholeEndsThere
  <1> SUFFICES ASSUME Client!StructEndsAt(Whole(w), n)
               PROVE  n = Len(w) + 1 /\ \A i \in DOMAIN w : w[i] \in Values \union {RawString}
    OBVIOUS
  <1>2. Whole(w)[n] = Stop /\ \A i \in 1 .. n - 1 : Whole(w)[i] \in Client!Plain
    BY DEF Client!StructEndsAt
  <1>3. n = Len(w) + 1
    BY <1>1, <1>2
  <1>4. \A i \in 1 .. Len(w) : w[i] \in Client!Plain /\ w[i] \in Carried
    BY <1>1, <1>2, <1>3
  <1> QED
    BY <1>1, <1>3, <1>4, NamesAssumption DEF Client!Plain, Carried

(* A message that is read as far as a Stop is read to its end.              *)
LEMMA ReadAsFarAsStop ==
  ASSUME NEW w, w \in Seq(Carried), NEW S, NEW body \in Seq(S),
         Len(body) <= Len(Whole(w)), \A k \in 1 .. Len(body) : body[k] = Whole(w)[k],
         EndsWithStop(body)
  PROVE  Front(body) = w /\ body = Whole(w)
  <1>1. /\ Whole(w) \in Seq(SessionPieces) /\ Len(w) \in Nat /\ Len(Whole(w)) = Len(w) + 1
        /\ \A i \in 1 .. Len(w) : Whole(w)[i] # Stop
        /\ SubSeq(Whole(w), 1, Len(w)) = w
    BY WholeEndsThere
  <1>2. Len(body) \in Nat /\ Len(body) > 0 /\ body[Len(body)] = Stop
    BY LenProperties, EmptySeq DEF EndsWithStop, Last
  <1>3. Len(body) = Len(w) + 1
    BY <1>1, <1>2
  <1>4. body \in Seq(S \union SessionPieces) /\ Whole(w) \in Seq(S \union SessionPieces)
    BY <1>1, SeqMonotonic
  <1>5. body = Whole(w)
    BY <1>1, <1>3, <1>4, SeqEqual
  <1>6. Front(body) = SubSeq(Whole(w), 1, Len(w))
    BY <1>1, <1>3, <1>5 DEF Front
  <1> QED
    BY <1>1, <1>5, <1>6
-----------------------------------------------------------------------------
(* The inductive invariant, in parts.                                       *)
CP == INSTANCE NiceJSONProtocol_proofs WITH
    Operations <- Methods, OnewayOperations <- OnewayCalls, OtherNames <- {}, HalfRange <- 4,
    CallerHeaders <- Headers({"call", "oneway"}),
    CallerPieces <- Values \union {RawString, Unconvertible, Stop},
    Documents <- Replies, MaxArrived <- MaxCalls, MaxBegun <- MaxCalls, MaxBody <- MaxPieces,
    mode <- cmode, message_name <- cname, message_type <- ctype, message_seqid <- cseqid,
    buffer <- cbuffer, arrived <- carrived, pos <- cpos, mid <- cmid, closed <- cclosed,
    out <- cout, aborted <- caborted, asked <- casked, current <- ccurrent,
    got <- cgot, refused <- crefused

SP == INSTANCE NiceJSONProtocol_proofs WITH
    Operations <- ServerOperations, OnewayOperations <- OnewayCalls \intersect ServerOperations,
    OtherNames <- Methods \ ServerOperations, HalfRange <- 4,
    CallerHeaders <- Headers({"reply", "exception"}), CallerPieces <- Values \union {RawString, Unconvertible, Stop},
    Documents <- Requests, MaxArrived <- MaxCalls, MaxBegun <- MaxCalls, MaxBody <- MaxPieces,
    mode <- smode, message_name <- sname, message_type <- stype, message_seqid <- sseqid,
    buffer <- sbuffer, arrived <- sarrived, pos <- spos, mid <- smid, closed <- sclosed,
    out <- sout, aborted <- saborted, asked <- sasked, current <- scurrent,
    got <- sgot, refused <- srefused


TypeOfCall(call) == IF IsOneway(call) THEN "oneway" ELSE "call"
Encoded(call) == Client!Dumped(call.op, TypeOfCall(call), 0, call.args)
Open == made[Len(made)]
Request == sgot[Len(sgot)]
Received == cgot[Len(cgot)]

DriversOK ==
  /\ cpc \in {"idle", "send", "receive", "read", "over"}
  /\ spc \in {"process", "read", "handle", "answer", "over"}
  /\ lenient \in BOOLEAN /\ failed \in BOOLEAN /\ link \in {"up", "down"}
  /\ made \in Seq(Calls) /\ returned \in Seq({NoAnswer, Error} \union Seq(CP!Pieces))
  /\ ran \in Seq([call : Nat, answer : Answers]) /\ LogFits(log)
  /\ ctodo \in Seq(SessionPieces) /\ stodo \in Seq(SessionPieces)

(* Every document is one its reader expects.                                *)
StreamsOK ==
  /\ \A i \in 1 .. Len(cout) : cout[i] \in Requests
  /\ \A k \in 1 .. Len(sout) : sout[k] \in Replies

(* The client's object is where the client is, and what it has sent and     *)
(* what has returned to it are counted by its calls.                        *)
ClientTurn ==
  /\ cpc \in {"idle", "receive"} => cmode = "NONE"
  /\ cpc = "send" => cmode = "WRITING_MESSAGE"
  /\ cpc = "read" => cmode = "READING_MESSAGE"
  /\ cpc \in {"send", "receive", "read"} => Len(returned) = Len(made) - 1
  /\ cpc \in {"idle", "over"} => Len(returned) = Len(made)
  /\ cpc \in {"receive", "read"} => ~IsOneway(Open)
  /\ cpc = "send" => Len(cout) = Len(made) - 1
  /\ cpc \in {"idle", "receive", "read"} => Len(cout) = Len(made)
  /\ Len(cout) <= Len(made)

(* What is written of a call, and what is still to be written.              *)
ClientWriting ==
  cpc = "send" =>
    /\ cname = Open.op /\ ctype = TypeOfCall(Open) /\ cseqid = 0
    /\ cbuffer \o ctodo = Whole(Open.args)

(* Every request is that of its call, or the beginning of it.               *)
Sent ==
  \A i \in 1 .. Len(cout) :
    cout[i] \in {Encoded(made[i]), Client!Truncation(Encoded(made[i]))}

(* What has arrived is what was sent, but perhaps for its end.              *)
Requested ==
  /\ Len(sarrived) <= Len(cout)
  /\ \A i \in 1 .. Len(sarrived) : sarrived[i] \in {cout[i], Client!Truncation(cout[i])}
Replied ==
  /\ Len(carrived) <= Len(sout)
  /\ \A k \in 1 .. Len(carrived) : carrived[k] \in {sout[k], Server!Truncation(sout[k])}

(* The server's object is where the server is, and the request it is at is  *)
(* the last it has taken from the stream, a whole one.                      *)
ServerTurn ==
  /\ spc = "process" => smode \in {"NONE", "BROKEN"}
  /\ spc = "handle" => smode = "NONE"
  /\ spc = "read" => smode = "READING_MESSAGE"
  /\ spc = "answer" => smode = "WRITING_MESSAGE"
  /\ spc \in {"read", "handle", "answer"} =>
        sgot # <<>> /\ Request.at = spos /\ sarrived[spos].flaw = "none"
  /\ spc = "handle" => EndsWithStop(Request.body)

(* Requests are run in the order they came in, each at most once.           *)
Runs ==
  \A i \in 1 .. Len(ran) :
    ran[i].call <= spos /\ (spc \in {"read", "handle"} => ran[i].call < spos)

(* The answer that is written is that of the run, unless the service has    *)
(* failed.                                                                  *)
RunFor(n, pieces) == \E i \in 1 .. Len(ran) : ran[i] = [call |-> n, answer |-> pieces]
MayAnswer(n, type, pieces) ==
  \/ type = "reply" /\ RunFor(n, pieces)
  \/ failed /\ type = "exception" /\ pieces = <<>>
  \/ failed /\ type = "reply" /\ pieces \in {<<Unconvertible>>, <<RawString>>}
ServerWriting ==
  spc = "answer" =>
    /\ ~IsOneway(made[spos]) /\ sname = made[spos].op /\ sseqid = 0
    /\ \E pieces \in {<<>>} \union {<<v>> : v \in Carried} :
         MayAnswer(spos, stype, pieces) /\ sbuffer \o stodo = Whole(pieces)


Ends ==
  /\ DriversOK /\ StreamsOK
  /\ CP!TypeOK /\ CP!RecvInv /\ SP!TypeOK /\ SP!RecvInv
  /\ ClientTurn /\ ClientWriting /\ Sent /\ Requested /\ Replied
  /\ ServerTurn /\ Runs /\ ServerWriting

(* The document d answers call n.                                           *)
AnswersCall(d, n) ==
  /\ d.name = made[n].op
  /\ d.type = "reply" /\ d.flaw = "none" => RunFor(n, d.body)

ClientReading ==
  cpc = "read" =>
    /\ cgot # <<>> /\ Received.at = cpos /\ Received.type = ctype
    /\ carrived[cpos].flaw = "none" /\ AnswersCall(sout[cpos], Len(made))

(* A request is pending until the server is done with it.                   *)
Pending(i) == i > spos \/ (i = spos /\ spc \in {"read", "handle", "answer"})
Owed ==
  cpc # "over" =>
    /\ \/ cpos = Len(sout)
       \/ cpc = "receive" /\ cpos = Len(sout) - 1 /\ AnswersCall(sout[Len(sout)], Len(made))
    /\ \A i \in 1 .. Len(cout) :
         Pending(i) => IsOneway(made[i]) \/ (cpc = "receive" /\ i = Len(made) /\ cpos = Len(sout))

NothingLost ==
  /\ spc # "over" /\ ~sclosed /\ ~cclosed /\ ~smid /\ ~cmid
  /\ \A i \in 1 .. Len(cout) : cout[i].flaw = "none"
  /\ \A i \in 1 .. Len(sarrived) : sarrived[i] = cout[i]
  /\ \A k \in 1 .. Len(sout) : sout[k].flaw = "none" /\ sout[k].type = "reply"
  /\ \A k \in 1 .. Len(carrived) : carrived[k] = sout[k]
Health ==
  Healthy => /\ \A n \in 1 .. Len(returned) : returned[n] # Error
             /\ cpc # "over" => NothingLost
-----------------------------------------------------------------------------
(* Each end is an object, with constants the object may have.               *)
LEMMA ClientConstants == CP!ConstantsAssumption /\ CP!PiecesAssumption
  <1>1. Methods \subseteq CP!Names /\ 0 \in CP!Int32
    BY DEF CP!Names, CP!Int32
  <1>2. CP!Pieces = Values \union {RawString, NonFinite, Unconvertible, Stop, Malformed}
    BY DEF CP!Pieces, CP!Plain
  <1>3. Headers({"call", "oneway"}) \subseteq [name : CP!Names, type : CP!Types, seqid : CP!Int32]
    BY <1>1 DEF Headers, CP!Types
  <1>4. Values \union {RawString, Unconvertible, Stop} \subseteq CP!Pieces \ {Malformed}
    BY <1>2, NamesAssumption
  <1>5. Replies \subseteq CP!Document
    <2> SUFFICES ASSUME NEW d \in Replies PROVE d \in CP!Document
      OBVIOUS
    <2>1. PICK op \in Methods, type \in {"reply", "exception"},
               body \in {<<>>} \union {<<v>> : v \in Values \union {RawString}},
               flaw \in {"none", "syntax", "truncated"} : d = Dumped(op, type, body, flaw)
      BY DEF Replies
    <2>2. body \in Seq(CP!Plain)
      <3>1. CASE body = <<>>
        BY <3>1, EmptySeq
      <3>2. ASSUME NEW v \in Values \union {RawString}, body = <<v>> PROVE body \in Seq(CP!Plain)
        BY <3>2 DEF CP!Plain
      <3> QED
        BY <3>1, <3>2
    <2> QED
      BY <1>1, <2>1, <2>2 DEF Dumped, CP!Document, CP!Types, CP!Flaws, CP!Unterminated
  <1>6. OnewayCalls \subseteq Methods
    BY DEF Methods
  <1>7. CP!ConstantsAssumption
    BY <1>2, <1>3, <1>4, <1>5, <1>6, CallsAssumption, NamesAssumption
       DEF CP!ConstantsAssumption, CP!Names
  <1>8. CP!PiecesAssumption
    BY NamesAssumption DEF CP!PiecesAssumption
  <1> QED
    BY <1>7, <1>8

LEMMA RequestType ==
  ASSUME NEW d \in Requests
  PROVE  /\ d \in [name : Methods, type : {"call", "oneway"}, seqid : {0},
                    body : Seq(Values \union {RawString}), flaw : {"none", "syntax", "truncated"}]
  <1>1. PICK c \in Writable, type \in {"call", "oneway"}, flaw \in {"none", "syntax", "truncated"} :
          d = Dumped(c.op, type, c.args, flaw)
    BY DEF Requests
  <1>2. c.op \in Methods /\ c.args \in Seq(Carried) /\ \A i \in DOMAIN c.args : c.args[i] # Unconvertible
    BY CallsAssumption DEF Writable, Carried
  <1>3. c.args \in Seq(Values \union {RawString})
    <2>1. Len(c.args) \in Nat /\ \A i \in 1 .. Len(c.args) : c.args[i] \in Values \union {RawString}
      BY <1>2, LenProperties, ElementOfSeq DEF Carried
    <2> QED
      BY <1>2, <2>1, SeqDef
  <1> QED
    BY <1>1, <1>2, <1>3 DEF Dumped

LEMMA ServerConstants == SP!ConstantsAssumption /\ SP!PiecesAssumption
  <1>1. Methods = SP!Names /\ 0 \in SP!Int32
    BY CallsAssumption DEF SP!Names, SP!Int32
  <1>2. SP!Pieces = Values \union {RawString, NonFinite, Unconvertible, Stop, Malformed}
    BY DEF SP!Pieces, SP!Plain
  <1>3. Headers({"reply", "exception"}) \subseteq [name : SP!Names, type : SP!Types, seqid : SP!Int32]
    BY <1>1 DEF Headers, SP!Types
  <1>4. Values \union {RawString, Unconvertible, Stop} \subseteq SP!Pieces \ {Malformed}
    BY <1>2, NamesAssumption
  <1>5. Requests \subseteq SP!Document
    <2> SUFFICES ASSUME NEW d \in Requests PROVE d \in SP!Document
      OBVIOUS
    <2>1. Seq(Values \union {RawString}) \subseteq Seq(SP!Plain)
      BY SeqMonotonic DEF SP!Plain
    <2> QED
      BY <1>1, <2>1, RequestType DEF SP!Document, SP!Types, SP!Flaws, SP!Unterminated
  <1>7. SP!ConstantsAssumption
    BY <1>1, <1>2, <1>3, <1>4, <1>5, CallsAssumption, NamesAssumption
       DEF SP!ConstantsAssumption
  <1>8. SP!PiecesAssumption
    BY NamesAssumption DEF SP!PiecesAssumption
  <1> QED
    BY <1>7, <1>8

(* A step of an end is one of the object, in both names of the instance.   *)
LEMMA ClientSteps == [Client!Next]_(Client!vars) => [CP!Next]_(CP!vars)
  BY DEF Client!Next, Client!vars, Client!Writing, Client!Reading, Client!Peer,
     Client!PeerSends, Client!PeerCloses, Client!CallOutOfSequence,
     Client!WriteMessageBegin, Client!WriteBody, Client!WriteMessageEnd,
     Client!WriteMessageEndMarshalFails, Client!WriteMessageEndTransportFails,
     Client!WriteMessageEndAborts, Client!ReadMessageBegin, Client!ReadMessageBeginBadHeader,
     Client!ReadMessageBeginDemarshalFails, Client!ReadMessageBeginAborts,
     Client!ReadMessageBeginParseError, Client!ReadMessageBeginEndOfFile, Client!ReadBody,
     Client!ReadBodyPastEnd, Client!ReadMessageEnd, Client!header, Client!inbound, Client!writes,
     Client!reads, Client!AtWholeDocument, Client!ConsumeDocument, Client!StoreHeader,
     Client!DemarshalThrows, Client!Payload, Client!Arriving, Client!Emitted, Client!Marshals,
     Client!NoSuchOperation, Client!NoSuchStruct, Client!StructEndsAt, Client!Dumped,
     Client!Truncation, Client!ModeWhileEnding, Client!FreshBuffer, Client!ToInt32,
     Client!MustBeNone, Client!MustBeReading, Client!MustBeWriting, Client!BadHeader,
     Client!Unterminated, Client!Plain,
     CP!Next, CP!vars, CP!Writing, CP!Reading, CP!Peer,
     CP!PeerSends, CP!PeerCloses, CP!CallOutOfSequence,
     CP!WriteMessageBegin, CP!WriteBody, CP!WriteMessageEnd,
     CP!WriteMessageEndMarshalFails, CP!WriteMessageEndTransportFails,
     CP!WriteMessageEndAborts, CP!ReadMessageBegin, CP!ReadMessageBeginBadHeader,
     CP!ReadMessageBeginDemarshalFails, CP!ReadMessageBeginAborts,
     CP!ReadMessageBeginParseError, CP!ReadMessageBeginEndOfFile, CP!ReadBody,
     CP!ReadBodyPastEnd, CP!ReadMessageEnd, CP!header, CP!inbound, CP!writes,
     CP!reads, CP!AtWholeDocument, CP!ConsumeDocument, CP!StoreHeader,
     CP!DemarshalThrows, CP!Payload, CP!Arriving, CP!Emitted, CP!Marshals,
     CP!NoSuchOperation, CP!NoSuchStruct, CP!StructEndsAt, CP!Dumped,
     CP!Truncation, CP!ModeWhileEnding, CP!FreshBuffer, CP!ToInt32,
     CP!MustBeNone, CP!MustBeReading, CP!MustBeWriting, CP!BadHeader,
     CP!Unterminated, CP!Plain

LEMMA ServerSteps == [Server!Next]_(Server!vars) => [SP!Next]_(SP!vars)
  BY DEF Server!Next, Server!vars, Server!Writing, Server!Reading, Server!Peer,
     Server!PeerSends, Server!PeerCloses, Server!CallOutOfSequence,
     Server!WriteMessageBegin, Server!WriteBody, Server!WriteMessageEnd,
     Server!WriteMessageEndMarshalFails, Server!WriteMessageEndTransportFails,
     Server!WriteMessageEndAborts, Server!ReadMessageBegin, Server!ReadMessageBeginBadHeader,
     Server!ReadMessageBeginDemarshalFails, Server!ReadMessageBeginAborts,
     Server!ReadMessageBeginParseError, Server!ReadMessageBeginEndOfFile, Server!ReadBody,
     Server!ReadBodyPastEnd, Server!ReadMessageEnd, Server!header, Server!inbound, Server!writes,
     Server!reads, Server!AtWholeDocument, Server!ConsumeDocument, Server!StoreHeader,
     Server!DemarshalThrows, Server!Payload, Server!Arriving, Server!Emitted, Server!Marshals,
     Server!NoSuchOperation, Server!NoSuchStruct, Server!StructEndsAt, Server!Dumped,
     Server!Truncation, Server!ModeWhileEnding, Server!FreshBuffer, Server!ToInt32,
     Server!MustBeNone, Server!MustBeReading, Server!MustBeWriting, Server!BadHeader,
     Server!Unterminated, Server!Plain,
     SP!Next, SP!vars, SP!Writing, SP!Reading, SP!Peer,
     SP!PeerSends, SP!PeerCloses, SP!CallOutOfSequence,
     SP!WriteMessageBegin, SP!WriteBody, SP!WriteMessageEnd,
     SP!WriteMessageEndMarshalFails, SP!WriteMessageEndTransportFails,
     SP!WriteMessageEndAborts, SP!ReadMessageBegin, SP!ReadMessageBeginBadHeader,
     SP!ReadMessageBeginDemarshalFails, SP!ReadMessageBeginAborts,
     SP!ReadMessageBeginParseError, SP!ReadMessageBeginEndOfFile, SP!ReadBody,
     SP!ReadBodyPastEnd, SP!ReadMessageEnd, SP!header, SP!inbound, SP!writes,
     SP!reads, SP!AtWholeDocument, SP!ConsumeDocument, SP!StoreHeader,
     SP!DemarshalThrows, SP!Payload, SP!Arriving, SP!Emitted, SP!Marshals,
     SP!NoSuchOperation, SP!NoSuchStruct, SP!StructEndsAt, SP!Dumped,
     SP!Truncation, SP!ModeWhileEnding, SP!FreshBuffer, SP!ToInt32,
     SP!MustBeNone, SP!MustBeReading, SP!MustBeWriting, SP!BadHeader,
     SP!Unterminated, SP!Plain

LEMMA ObjectsBegin == Init => CP!Init /\ SP!Init
  BY DEF Init, Client!Init, Server!Init, CP!Init, SP!Init

LEMMA ObjectsStep ==
  ASSUME CP!TypeOK, CP!RecvInv, SP!TypeOK, SP!RecvInv,
         [Client!Next]_(Client!vars), [Server!Next]_(Server!vars)
  PROVE  CP!TypeOK' /\ CP!RecvInv' /\ SP!TypeOK' /\ SP!RecvInv'
  <1>1. CP!TypeOK' /\ CP!RecvInv'
    BY ClientConstants, ClientSteps, CP!TypeStep, CP!RecvStep
  <1>2. SP!TypeOK' /\ SP!RecvInv'
    BY ServerConstants, ServerSteps, SP!TypeStep, SP!RecvStep
  <1> QED
    BY <1>1, <1>2
-----------------------------------------------------------------------------
(* What the types say of the variables the proofs speak of.                 *)
LEMMA ClientTypes ==
  ASSUME CP!TypeOK
  PROVE  /\ cbuffer # NoBuffer => cbuffer \in Seq(CP!Pieces)
         /\ cmode = "WRITING_MESSAGE" => cbuffer \in Seq(CP!Pieces)
         /\ cpos \in 0 .. Len(carrived) /\ cpos \in Nat
         /\ carrived \in Seq(CP!Document) /\ Len(carrived) \in Nat
         /\ cout \in Seq(CP!Document) /\ Len(cout) \in Nat
         /\ cgot \in Seq(CP!Receipt) /\ Len(cgot) \in Nat
         /\ cmode = "READING_MESSAGE" => cgot # <<>>
  BY LenProperties DEF CP!TypeOK

LEMMA ServerTypes ==
  ASSUME SP!TypeOK
  PROVE  /\ sbuffer # NoBuffer => sbuffer \in Seq(SP!Pieces)
         /\ smode = "WRITING_MESSAGE" => sbuffer \in Seq(SP!Pieces)
         /\ spos \in 0 .. Len(sarrived) /\ spos \in Nat
         /\ sarrived \in Seq(SP!Document) /\ Len(sarrived) \in Nat
         /\ sout \in Seq(SP!Document) /\ Len(sout) \in Nat
         /\ sgot \in Seq(SP!Receipt) /\ Len(sgot) \in Nat
         /\ smode = "READING_MESSAGE" => sgot # <<>>
  BY LenProperties DEF SP!TypeOK

LEMMA DriverTypes ==
  ASSUME DriversOK
  PROVE  /\ Len(made) \in Nat /\ Len(returned) \in Nat /\ Len(ran) \in Nat
         /\ \A n \in 1 .. Len(made) :
              made[n] \in Calls /\ made[n].op \in Methods /\ made[n].args \in Seq(Carried)
         /\ made # <<>> => Len(made) > 0
         /\ \A i \in 1 .. Len(ran) : ran[i].call \in Nat /\ ran[i].answer \in Answers
  <1>1. made \in Seq(Calls) /\ Len(made) \in Nat /\ Len(returned) \in Nat /\ Len(ran) \in Nat
    BY LenProperties DEF DriversOK
  <1>2. \A n \in 1 .. Len(made) : made[n] \in Calls
    BY <1>1, ElementOfSeq
  <1>3. \A call \in Calls : call.op \in Methods /\ call.args \in Seq(Carried)
    BY CallsAssumption DEF Carried
  <1>4. ran \in Seq([call : Nat, answer : Answers])
    BY DEF DriversOK
  <1>5. \A i \in 1 .. Len(ran) : ran[i] \in [call : Nat, answer : Answers]
    BY <1>4, ElementOfSeq
  <1>6. made # <<>> => Len(made) > 0
    BY <1>1, EmptySeq
  <1> QED
    BY <1>1, <1>2, <1>3, <1>5, <1>6
-----------------------------------------------------------------------------
(* What an end sends when it ends a message.                                *)
LEMMA NoPrefix ==
  ASSUME NEW S, NEW s \in Seq(S)
  PROVE  s \o <<>> = s
  BY ConcatEmptySeq

LEMMA ClientEmits ==
  ASSUME DriversOK, ClientTurn, ClientWriting, CP!TypeOK, cpc = "send", ctodo = <<>>,
         NEW n \in DOMAIN cbuffer, Client!StructEndsAt(cbuffer, n)
  PROVE  /\ Client!Emitted(n) = Encoded(Open)
         /\ Open \in Writable /\ Encoded(Open) \in Requests
         /\ Client!Truncation(Encoded(Open)) \in Requests
  <1>1. made # <<>> /\ Open \in Calls /\ Open.op \in Methods /\ Open.args \in Seq(Carried)
    <2>1. Len(made) - 1 = Len(returned) /\ Len(made) \in Nat /\ Len(returned) \in Nat
      BY DriverTypes DEF ClientTurn
    <2>2. Len(made) \in 1 .. Len(made)
      BY <2>1
    <2>3. made # <<>>
      BY <2>1, EmptySeq
    <2> QED
      BY <2>2, <2>3, DriverTypes DEF Open
  <1>2. cbuffer = Whole(Open.args)
    <2>1. cbuffer \in Seq(CP!Pieces)
      BY ClientTypes DEF ClientTurn
    <2> QED
      BY <2>1, NoPrefix DEF ClientWriting
  <1>3. n = Len(Open.args) + 1 /\ \A i \in DOMAIN Open.args : Open.args[i] \in Values \union {RawString}
    BY <1>1, <1>2, StructEndsOnlyThere
  <1>4. SubSeq(cbuffer, 1, n - 1) = Open.args
    BY <1>1, <1>2, <1>3, WholeEndsThere
  <1>5. Client!Emitted(n) = Encoded(Open)
    BY <1>4 DEF Client!Emitted, Encoded, ClientWriting
  <1>6. Open \in Writable
    BY <1>1, <1>3, NamesAssumption DEF Writable
  <1>7. \A i \in DOMAIN Open.args : Open.args[i] # NonFinite
    BY <1>3, NamesAssumption
  <1>8. Encoded(Open).flaw \in {"none", "syntax"} /\ TypeOfCall(Open) \in {"call", "oneway"}
    BY <1>7 DEF Encoded, Client!Dumped, TypeOfCall
  <1>9. /\ Encoded(Open) = Dumped(Open.op, TypeOfCall(Open), Open.args, Encoded(Open).flaw)
        /\ Client!Truncation(Encoded(Open)) = Dumped(Open.op, TypeOfCall(Open), Open.args, "truncated")
    <2>1. PICK flaw : Encoded(Open) = Dumped(Open.op, TypeOfCall(Open), Open.args, flaw)
      BY DEF Encoded, Client!Dumped, Dumped
    <2> QED
      BY <2>1 DEF Dumped, Client!Truncation
  <1> QED
    BY <1>5, <1>6, <1>8, <1>9 DEF Requests

LEMMA ServerEmits ==
  ASSUME ServerTurn, ServerWriting, SP!TypeOK, spc = "answer", stodo = <<>>,
         NEW n \in DOMAIN sbuffer, Server!StructEndsAt(sbuffer, n),
         made[spos].op \in Methods
  PROVE  \E pieces \in {<<>>} \union {<<v>> : v \in Values \union {RawString}} :
           /\ MayAnswer(spos, stype, pieces)
           /\ Server!Emitted(n) = Server!Dumped(made[spos].op, stype, 0, pieces)
           /\ Server!Emitted(n) \in Replies /\ Server!Truncation(Server!Emitted(n)) \in Replies
  <1>1. PICK pieces \in {<<>>} \union {<<v>> : v \in Carried} :
          MayAnswer(spos, stype, pieces) /\ sbuffer \o stodo = Whole(pieces)
    BY DEF ServerWriting
  <1>2. sbuffer = Whole(pieces)
    <2>1. sbuffer \in Seq(SP!Pieces)
      BY ServerTypes DEF ServerTurn
    <2> QED
      BY <1>1, <2>1, NoPrefix
  <1>3. pieces \in Seq(Carried)
    <2>1. CASE pieces = <<>>
      BY <2>1, EmptySeq
    <2>2. ASSUME NEW v \in Carried, pieces = <<v>> PROVE pieces \in Seq(Carried)
      BY <2>2
    <2> QED
      BY <2>1, <2>2
  <1>4. Client!StructEndsAt(sbuffer, n)
    BY DEF Server!StructEndsAt, Client!StructEndsAt, Server!Plain, Client!Plain
  <1>5. n = Len(pieces) + 1 /\ \A i \in DOMAIN pieces : pieces[i] \in Values \union {RawString}
    BY <1>2, <1>3, <1>4, StructEndsOnlyThere
  <1>6. SubSeq(sbuffer, 1, n - 1) = pieces
    BY <1>2, <1>3, <1>5, WholeEndsThere
  <1>7. pieces \in {<<>>} \union {<<v>> : v \in Values \union {RawString}}
    <2>1. ASSUME NEW v \in Carried, pieces = <<v>> PROVE v \in Values \union {RawString}
      BY <1>5, <2>1, OnePiece
    <2> QED
      BY <1>1, <2>1
  <1>8. Server!Emitted(n) = Server!Dumped(made[spos].op, stype, 0, pieces)
    BY <1>6 DEF Server!Emitted, ServerWriting
  <1>9. \A i \in DOMAIN pieces : pieces[i] # NonFinite
    BY <1>5, NamesAssumption
  <1>10. Server!Emitted(n).flaw \in {"none", "syntax"} /\ stype \in {"reply", "exception"}
    BY <1>1, <1>8, <1>9 DEF Server!Dumped, MayAnswer
  <1>11. /\ Server!Emitted(n) = Dumped(made[spos].op, stype, pieces, Server!Emitted(n).flaw)
         /\ Server!Truncation(Server!Emitted(n)) = Dumped(made[spos].op, stype, pieces, "truncated")
    BY <1>8 DEF Server!Dumped, Dumped, Server!Truncation
  <1>12. Server!Emitted(n) \in Replies /\ Server!Truncation(Server!Emitted(n)) \in Replies
    BY <1>7, <1>10, <1>11 DEF Replies
  <1> QED
    BY <1>1, <1>7, <1>8, <1>12
-----------------------------------------------------------------------------
(* What an end gets when it reads a message.                                *)
LEMMA CutDocument ==
  ASSUME NEW d \in CP!Document \union SP!Document
  PROVE  /\ Client!Truncation(d).flaw = "truncated" /\ Server!Truncation(d).flaw = "truncated"
         /\ Client!Truncation(d).name = d.name /\ Server!Truncation(d).name = d.name
         /\ Client!Truncation(d).type = d.type /\ Server!Truncation(d).type = d.type
  BY DEF Client!Truncation, Server!Truncation, CP!Document, SP!Document

(* Without a string that is not UTF-8 it says what it was made of.          *)
LEMMA WholeDocument ==
  ASSUME NEW call \in Calls, Encoded(call).flaw = "none", Encoded(call) \in Requests
  PROVE  \A i \in DOMAIN call.args : call.args[i] \in Values
  <1>1. call.args = Encoded(call).body
    BY DEF Encoded, Client!Dumped
  <1>2. call.args \in Seq(Values \union {RawString})
    BY <1>1, RequestType
  <1>3. \A i \in DOMAIN call.args : call.args[i] # RawString
    BY DEF Encoded, Client!Dumped
  <1>4. \A i \in DOMAIN call.args : call.args[i] \in Values \union {RawString}
    BY <1>2, ElementOfSeq, LenProperties
  <1> QED
    BY <1>3, <1>4

LEMMA RequestRead ==
  ASSUME Ends, spc \in {"read", "handle", "answer"}
  PROVE  /\ spos \in 1 .. Len(made) /\ spos \in 1 .. Len(cout) /\ made[spos] \in Calls
         /\ sarrived[spos] = Encoded(made[spos]) /\ cout[spos] = Encoded(made[spos])
         /\ \A i \in DOMAIN made[spos].args : made[spos].args[i] \in Values
         /\ Request.at = spos /\ Request.name = made[spos].op /\ Request.seqid = 0
         /\ spc = "handle" => Front(Request.body) = made[spos].args
  <1>1. Len(sgot) \in 1 .. Len(sgot) /\ Request.at = spos /\ sarrived[spos].flaw = "none"
    BY ServerTypes, EmptySeq DEF Ends, ServerTurn
  <1>2. /\ Request \in SP!Receipt /\ Request.at \in Nat \ {0}
        /\ SP!Agrees(Request, sarrived[Request.at])
    BY <1>1, ServerConstants, SP!ReceiptType, SP!ReceivedAsSentDef DEF Ends, SP!RecvInv, Request
  <1>3. spos \in 1 .. Len(sarrived) /\ spos \in 1 .. Len(cout) /\ spos \in 1 .. Len(made)
    BY <1>1, <1>2, ServerTypes, ClientTypes, DriverTypes DEF Ends, Requested, ClientTurn
  <1>4. cout[spos] \in Requests /\ cout[spos] \in CP!Document
    BY <1>3, ClientTypes, ElementOfSeq DEF Ends, StreamsOK
  <1>5. sarrived[spos] = cout[spos]
    BY <1>1, <1>3, <1>4, CutDocument DEF Ends, Requested
  <1>6. cout[spos] = Encoded(made[spos])
    <2>1. Encoded(made[spos]).flaw = "truncated" \/ Client!Truncation(Encoded(made[spos])).flaw = "truncated"
      BY DEF Encoded, Client!Dumped, Client!Truncation
    <2>2. cout[spos] \in {Encoded(made[spos]), Client!Truncation(Encoded(made[spos]))}
      BY <1>3 DEF Ends, Sent
    <2>3. Encoded(made[spos]).flaw # "truncated"
      BY DEF Encoded, Client!Dumped
    <2> QED
      BY <1>1, <1>5, <2>1, <2>2, <2>3
  <1>7. made[spos] \in Calls /\ made[spos].args \in Seq(Carried)
    BY <1>3, DriverTypes DEF Ends
  <1>8. \A i \in DOMAIN made[spos].args : made[spos].args[i] \in Values
    BY <1>1, <1>4, <1>5, <1>6, <1>7, WholeDocument
  <1>9. /\ sarrived[spos].name = made[spos].op /\ sarrived[spos].seqid = 0
        /\ sarrived[spos].body = made[spos].args
    BY <1>5, <1>6 DEF Encoded, Client!Dumped
  <1>10. Request.name = made[spos].op /\ Request.seqid = 0
    BY <1>1, <1>2, <1>9 DEF SP!Agrees, SP!ToInt32
  <1>11. ASSUME spc = "handle" PROVE Front(Request.body) = made[spos].args
    <2>1. SP!Payload(sarrived[spos]) = Whole(made[spos].args)
      BY <1>1, <1>9 DEF SP!Payload, Whole
    <2>2. /\ Len(Request.body) <= Len(Whole(made[spos].args))
          /\ \A k \in 1 .. Len(Request.body) : Request.body[k] = Whole(made[spos].args)[k]
      BY <1>1, <1>2, <2>1 DEF SP!Agrees
    <2>3. Request.body \in Seq(SP!Pieces) /\ EndsWithStop(Request.body)
      BY <1>2, <1>11 DEF SP!Receipt, Ends, ServerTurn
    <2> QED
      BY <1>7, <2>2, <2>3, ReadAsFarAsStop
  <1> QED
    BY <1>1, <1>3, <1>5, <1>6, <1>7, <1>8, <1>10, <1>11

LEMMA ReplyType ==
  ASSUME NEW d \in Replies
  PROVE  /\ d.type \in {"reply", "exception"} /\ d.name \in Methods /\ d.seqid = 0
         /\ d.body \in {<<>>} \union {<<v>> : v \in Values \union {RawString}}
         /\ d.body \in Seq(Carried) /\ d.flaw \in {"none", "syntax", "truncated"}
  <1>1. PICK op \in Methods, type \in {"reply", "exception"},
             body \in {<<>>} \union {<<v>> : v \in Values \union {RawString}},
             flaw \in {"none", "syntax", "truncated"} : d = Dumped(op, type, body, flaw)
    BY DEF Replies
  <1>2. body \in Seq(Carried)
    <2>1. CASE body = <<>>
      BY <2>1, EmptySeq
    <2>2. ASSUME NEW v \in Values \union {RawString}, body = <<v>> PROVE body \in Seq(Carried)
      BY <2>2 DEF Carried
    <2> QED
      BY <2>1, <2>2
  <1> QED
    BY <1>1, <1>2 DEF Dumped

LEMMA ReplyRead ==
  ASSUME Ends, ClientReading, cpc = "read"
  PROVE  /\ cpos \in 1 .. Len(sout) /\ carrived[cpos] = sout[cpos] /\ sout[cpos] \in Replies
         /\ sout[cpos].flaw = "none" /\ sout[cpos].type = ctype
         /\ EndsWithStop(Received.body) => Front(Received.body) = sout[cpos].body
  <1>1. Len(cgot) \in 1 .. Len(cgot) /\ Received.at = cpos /\ carrived[cpos].flaw = "none"
    BY ClientTypes, EmptySeq DEF Ends, ClientReading
  <1>2. /\ Received \in CP!Receipt /\ Received.at \in Nat \ {0}
        /\ CP!Agrees(Received, carrived[Received.at])
    BY <1>1, ClientConstants, CP!ReceiptType, CP!ReceivedAsSentDef DEF Ends, CP!RecvInv, Received
  <1>3. cpos \in 1 .. Len(carrived) /\ cpos \in 1 .. Len(sout)
    BY <1>1, <1>2, ServerTypes, ClientTypes DEF Ends, Replied
  <1>4. sout[cpos] \in Replies /\ sout[cpos] \in SP!Document
    BY <1>3, ServerTypes, ElementOfSeq DEF Ends, StreamsOK
  <1>5. carrived[cpos] = sout[cpos]
    BY <1>1, <1>3, <1>4, CutDocument DEF Ends, Replied
  <1>6. sout[cpos].type = ctype
    BY <1>1, <1>2, <1>5 DEF CP!Agrees, ClientReading
  <1>7. ASSUME EndsWithStop(Received.body) PROVE Front(Received.body) = sout[cpos].body
    <2>1. CP!Payload(carrived[cpos]) = Whole(sout[cpos].body)
      BY <1>1, <1>5 DEF CP!Payload, Whole
    <2>2. /\ Len(Received.body) <= Len(Whole(sout[cpos].body))
          /\ \A k \in 1 .. Len(Received.body) : Received.body[k] = Whole(sout[cpos].body)[k]
      BY <1>1, <1>2, <2>1 DEF CP!Agrees
    <2>3. Received.body \in Seq(CP!Pieces) /\ sout[cpos].body \in Seq(Carried)
      BY <1>2, <1>4, ReplyType DEF CP!Receipt
    <2> QED
      BY <1>7, <2>2, <2>3, ReadAsFarAsStop
  <1> QED
    BY <1>1, <1>3, <1>4, <1>5, <1>6, <1>7
-----------------------------------------------------------------------------
(* Every step is one of the client's, the server's or the connection's, and *)
(* to each object a step of its own or none.                                *)
ClientActs == (\E call \in Calls : Invoke(call)) \/ Quit \/ ClientGoesOn
LinkActs == Delivery \/ RequestIsCutOff \/ ReplyIsCutOff \/ LinkBreaks

LEMMA WhoActs == Next => ClientActs \/ ServerGoesOn \/ LinkActs
  BY DEF Next, ClientActs, LinkActs

LEMMA ClientWriteTypes ==
  ASSUME DriversOK, cpc = "send", ctodo # <<>>
  PROVE  Head(ctodo) \in SessionPieces
  BY HeadTailProperties DEF DriversOK

LEMMA ServerWriteTypes ==
  ASSUME DriversOK, spc = "answer", stodo # <<>>
  PROVE  Head(stodo) \in SessionPieces
  BY HeadTailProperties DEF DriversOK

LEMMA ClientActsFrame == ClientActs => ByClient
  BY DEF ClientActs, Invoke, Quit, ClientGoesOn, ClientWrites, ClientSends, ClientReceives,
     ClientReads, ClientReturns, ClientFails, Return

LEMMA ServerActsFrame == ServerGoesOn => ByServer
  BY DEF ServerGoesOn, ServerReceives, ServerReads, ServerReadsEnd, Run, RunFails,
     ServerWrites, ServerSends, ServerFails

LEMMA ClientActsStep ==
  ASSUME DriversOK, ClientActs
  PROVE  [Client!Next]_(Client!vars) /\ UNCHANGED Server!vars
  <1>1. ByClient
    BY ClientActsFrame
  <1>2. UNCHANGED Server!vars
    BY <1>1 DEF ByClient, sobject, Server!vars, Server!header, Server!inbound, Server!writes,
       Server!reads
  <1>3. ASSUME NEW call \in Calls, Invoke(call) PROVE Client!Writing
    <2> DEFINE h == [name |-> call.op, type |-> IF IsOneway(call) THEN "oneway" ELSE "call", seqid |-> 0]
    <2>1. h \in Headers({"call", "oneway"})
      BY CallsAssumption DEF Headers
    <2>2. Client!WriteMessageBegin(h.name, h.type, h.seqid)
      BY <1>3 DEF Invoke
    <2> QED
      BY <2>1, <2>2 DEF Client!Writing
  <1>4. CASE Quit
    BY <1>2, <1>4 DEF Quit, cobject, Client!vars, Client!header, Client!inbound, Client!writes, Client!reads
  <1>5. CASE ClientWrites
    BY <1>2, <1>5, ClientWriteTypes DEF ClientWrites, SessionPieces, Carried, Client!Next, Client!Writing
  <1>6. CASE ClientSends \/ ClientReceives \/ ClientReads \/ ClientReturns \/ ClientFails
    BY <1>2, <1>6 DEF ClientSends, ClientReceives, ClientReads, ClientReturns, ClientFails,
       Client!Next, Client!Writing, Client!Reading
  <1> QED
    BY <1>2, <1>3, <1>4, <1>5, <1>6 DEF ClientActs, ClientGoesOn, Client!Next

LEMMA ServerAnswers ==
  ASSUME NEW request, NEW type \in {"reply", "exception"}, NEW pieces,
         request.name \in Methods, request.seqid = 0, Answer(request, type, pieces)
  PROVE  \/ request.name \in OnewayCalls /\ spc' = "process" /\ UNCHANGED <<sobject, stodo>>
         \/ /\ request.name \notin OnewayCalls
            /\ Server!WriteMessageBegin(request.name, type, 0) /\ Server!Writing
            /\ spc' = "answer" /\ stodo' = Append(pieces, Stop)
  <1> DEFINE h == [name |-> request.name, type |-> type, seqid |-> 0]
  <1>1. h \in Headers({"reply", "exception"})
    BY DEF Headers
  <1>2. Server!WriteMessageBegin(request.name, type, 0) => Server!Writing
    <2>1. Server!WriteMessageBegin(request.name, type, 0) =>
            Server!WriteMessageBegin(h.name, h.type, h.seqid)
      OBVIOUS
    <2> QED
      BY <1>1, <2>1 DEF Server!Writing
  <1> QED
    BY <1>2 DEF Answer

LEMMA ServerActsStep ==
  ASSUME Ends, ServerGoesOn
  PROVE  [Server!Next]_(Server!vars) /\ UNCHANGED Client!vars
  <1>1. ByServer
    BY ServerActsFrame
  <1>2. UNCHANGED Client!vars
    BY <1>1 DEF ByServer, cobject, Client!vars, Client!header, Client!inbound, Client!writes,
       Client!reads
  <1>3. CASE Run \/ RunFails
    <2>1. spc = "handle" /\ \E type \in {"reply", "exception"} : \E pieces : Answer(Request, type, pieces)
      BY <1>3 DEF Run, RunFails, Last, Request
    <2>2. Request.name \in Methods /\ Request.seqid = 0
      BY <2>1, RequestRead, CallsAssumption
    <2>3. Server!Writing \/ UNCHANGED sobject
      BY <2>1, <2>2, ServerAnswers
    <2> QED
      BY <1>2, <2>3 DEF sobject, Server!Next, Server!vars, Server!header, Server!inbound,
         Server!writes, Server!reads
  <1>5. CASE ServerWrites
    BY <1>2, <1>5, ServerWriteTypes
       DEF Ends, ServerWrites, SessionPieces, Carried, Server!Next, Server!Writing
  <1>6. CASE ServerReceives \/ ServerReads \/ ServerReadsEnd \/ ServerSends \/ ServerFails
    BY <1>2, <1>6 DEF ServerReceives, ServerReads, ServerReadsEnd, ServerSends, ServerFails,
       Server!Next, Server!Writing, Server!Reading
  <1> QED
    BY <1>3, <1>5, <1>6 DEF ServerGoesOn

(* What the connection delivers is what the reader expects.                 *)
LEMMA LinkActsStep ==
  ASSUME Ends, LinkActs
  PROVE  [Client!Next]_(Client!vars) /\ [Server!Next]_(Server!vars)
  <1>0. /\ \A i \in 1 .. Len(cout) : cout[i] \in Requests /\ Client!Truncation(cout[i]) \in Requests
        /\ \A k \in 1 .. Len(sout) : sout[k] \in Replies /\ Server!Truncation(sout[k]) \in Replies
    <2>1. ASSUME NEW d \in Requests PROVE Client!Truncation(d) \in Requests
      <3>1. PICK c \in Writable, type \in {"call", "oneway"}, flaw \in {"none", "syntax", "truncated"} :
              d = Dumped(c.op, type, c.args, flaw)
        BY <2>1 DEF Requests
      <3>2. Client!Truncation(d) = Dumped(c.op, type, c.args, "truncated")
        BY <3>1 DEF Dumped, Client!Truncation
      <3> QED
        BY <3>2 DEF Requests
    <2>2. ASSUME NEW d \in Replies PROVE Server!Truncation(d) \in Replies
      <3>1. PICK op \in Methods, type \in {"reply", "exception"},
                 body \in {<<>>} \union {<<v>> : v \in Values \union {RawString}},
                 flaw \in {"none", "syntax", "truncated"} : d = Dumped(op, type, body, flaw)
        BY <2>2 DEF Replies
      <3>2. Server!Truncation(d) = Dumped(op, type, body, "truncated")
        BY <3>1 DEF Dumped, Server!Truncation
      <3> QED
        BY <3>2 DEF Replies
    <2> QED
      BY <2>1, <2>2 DEF Ends, StreamsOK
  <1>1. Len(sarrived) \in Nat /\ Len(carrived) \in Nat /\ Len(cout) \in Nat /\ Len(sout) \in Nat
    BY ClientTypes, ServerTypes DEF Ends
  <1>2. CASE RequestArrives \/ RequestIsCutOff
    <2>1. /\ UNCHANGED cobject /\ Len(sarrived) + 1 \in 1 .. Len(cout)
          /\ \/ Server!PeerSends(cout[Len(sarrived) + 1])
             \/ Server!PeerSends(Client!Truncation(cout[Len(sarrived) + 1]))
      BY <1>1, <1>2 DEF RequestArrives, RequestIsCutOff, CutOff
    <2> QED
      BY <1>0, <2>1 DEF Server!Next, Server!Peer, cobject, Client!vars, Client!header,
         Client!inbound, Client!writes, Client!reads
  <1>3. CASE ReplyArrives \/ ReplyIsCutOff
    <2>1. /\ UNCHANGED sobject /\ Len(carrived) + 1 \in 1 .. Len(sout)
          /\ \/ Client!PeerSends(sout[Len(carrived) + 1])
             \/ Client!PeerSends(Server!Truncation(sout[Len(carrived) + 1]))
      BY <1>1, <1>3 DEF ReplyArrives, ReplyIsCutOff, CutOff
    <2> QED
      BY <1>0, <2>1 DEF Client!Next, Client!Peer, sobject, Server!vars, Server!header,
         Server!inbound, Server!writes, Server!reads
  <1>4. CASE ServerSeesClose \/ ClientSeesClose \/ LinkBreaks
    BY <1>4 DEF ServerSeesClose, ClientSeesClose, LinkBreaks, Client!Next, Client!Peer,
       Server!Next, Server!Peer, cobject, sobject, Client!vars, Client!header,
       Client!inbound, Client!writes, Client!reads, Server!vars, Server!header,
       Server!inbound, Server!writes, Server!reads
  <1> QED
    BY <1>2, <1>3, <1>4 DEF LinkActs, Delivery

(* Every step of the session is one of each object, or leaves it alone.     *)
LEMMA EndsStep ==
  ASSUME Ends, [Next]_vars
  PROVE  [Client!Next]_(Client!vars) /\ [Server!Next]_(Server!vars)
  <1>1. CASE Next
    BY <1>1, WhoActs, ClientActsStep, ServerActsStep, LinkActsStep DEF Ends
  <1>2. CASE UNCHANGED vars
    BY <1>2 DEF vars, cobject, sobject, Client!vars, Client!header, Client!inbound,
       Client!writes, Client!reads, Server!vars, Server!header, Server!inbound,
       Server!writes, Server!reads
  <1> QED
    BY <1>1, <1>2
-----------------------------------------------------------------------------
(* What a step can do to each variable: the client's are its own, but for   *)
(* what arrives, and so are the server's.                                   *)
LEMMA ClientStill ==
  ASSUME ServerGoesOn \/ LinkActs \/ UNCHANGED vars
  PROVE  UNCHANGED <<cmode, cname, ctype, cseqid, cbuffer, cpos, cmid, cout, cgot,
                     cpc, ctodo, made, returned>>
  <1>1. CASE ServerGoesOn
    BY <1>1, ServerActsFrame DEF ByServer, cobject, cdriver
  <1>2. CASE LinkActs
    BY <1>2 DEF LinkActs, Delivery, RequestArrives, ReplyArrives, ServerSeesClose, ClientSeesClose,
       RequestIsCutOff, ReplyIsCutOff, LinkBreaks, Drivers, cobject, cdriver,
       Client!PeerSends, Client!PeerCloses, Client!header, Client!writes, Client!reads
  <1>3. CASE UNCHANGED vars
    BY <1>3 DEF vars, cobject, cdriver
  <1> QED
    BY <1>1, <1>2, <1>3

LEMMA ServerStill ==
  ASSUME ClientActs \/ LinkActs \/ UNCHANGED vars
  PROVE  UNCHANGED <<smode, sname, stype, sseqid, sbuffer, spos, smid, sout, sgot,
                     spc, stodo, log, ran, failed>>
  <1>1. CASE ClientActs
    BY <1>1, ClientActsFrame DEF ByClient, sobject, sdriver
  <1>2. CASE LinkActs
    BY <1>2 DEF LinkActs, Delivery, RequestArrives, ReplyArrives, ServerSeesClose, ClientSeesClose,
       RequestIsCutOff, ReplyIsCutOff, LinkBreaks, Drivers, sobject, sdriver,
       Server!PeerSends, Server!PeerCloses, Server!header, Server!writes, Server!reads
  <1>3. CASE UNCHANGED vars
    BY <1>3 DEF vars, sobject, sdriver
  <1> QED
    BY <1>1, <1>2, <1>3

LEMMA ClientTakesNothing ==
  ASSUME ClientActs
  PROVE  UNCHANGED <<carrived, cclosed, sarrived, sclosed, lenient, link>>
  <1>1. UNCHANGED <<sarrived, sclosed, lenient, link>>
    BY ClientActsFrame DEF ByClient, sobject
  <1>2. ASSUME NEW call \in Calls, Invoke(call) PROVE UNCHANGED <<carrived, cclosed>>
    BY <1>1, <1>2 DEF Invoke, Client!WriteMessageBegin, Client!inbound
  <1>3. CASE Quit \/ ClientWrites \/ ClientSends \/ ClientReads \/ ClientReturns
    BY <1>1, <1>3 DEF Quit, ClientWrites, ClientSends, ClientReads, ClientReturns, cobject,
       Client!WriteBody, Client!WriteMessageEnd, Client!ReadBody, Client!ReadMessageEnd,
       Client!inbound
  <1>4. CASE ClientReceives \/ ClientFails
    BY <1>1, <1>4 DEF ClientReceives, ClientFails, Client!WriteMessageEndMarshalFails,
       Client!WriteMessageEndTransportFails, Client!ReadMessageBegin,
       Client!ReadMessageBeginBadHeader, Client!ReadMessageBeginDemarshalFails,
       Client!ReadMessageBeginParseError, Client!ReadMessageBeginEndOfFile,
       Client!ConsumeDocument, Client!inbound
  <1> QED
    BY <1>1, <1>2, <1>3, <1>4 DEF ClientActs, ClientGoesOn

LEMMA ServerTakesNothing ==
  ASSUME ServerGoesOn
  PROVE  UNCHANGED <<carrived, cclosed, sarrived, sclosed, lenient, link>>
  <1>1. UNCHANGED <<carrived, cclosed, lenient, link>>
    BY ServerActsFrame DEF ByServer, cobject
  <1>2. CASE Run \/ RunFails
    BY <1>1, <1>2 DEF Run, RunFails, Answer, sobject, Server!WriteMessageBegin, Server!inbound
  <1>3. CASE ServerWrites \/ ServerSends \/ ServerReads \/ ServerReadsEnd
    BY <1>1, <1>3 DEF ServerWrites, ServerSends, ServerReads, ServerReadsEnd,
       Server!WriteBody, Server!WriteMessageEnd, Server!ReadBody, Server!ReadMessageEnd,
       Server!inbound
  <1>4. CASE ServerReceives \/ ServerFails
    BY <1>1, <1>4 DEF ServerReceives, ServerFails, Server!WriteMessageEndMarshalFails,
       Server!WriteMessageEndTransportFails, Server!ReadMessageBegin,
       Server!ReadMessageBeginBadHeader, Server!ReadMessageBeginDemarshalFails,
       Server!ReadMessageBeginParseError, Server!ReadMessageBeginEndOfFile,
       Server!ConsumeDocument, Server!inbound
  <1> QED
    BY <1>1, <1>2, <1>3, <1>4 DEF ServerGoesOn, sobject

(* One more element, or none.                                               *)
LEMMA GrownByOne ==
  ASSUME NEW S, NEW s \in Seq(S), NEW d
  PROVE  /\ Len(s) \in Nat /\ Len(Append(s, d)) = Len(s) + 1
         /\ Append(s, d)[Len(s) + 1] = d
         /\ \A i \in 1 .. Len(s) : Append(s, d)[i] = s[i]
         /\ \A i \in 1 .. Len(Append(s, d)) : i \in 1 .. Len(s) \/ i = Len(s) + 1
  <1>1. s \in Seq(S \union {d})
    BY SeqMonotonic
  <1>2. /\ Len(Append(s, d)) = Len(s) + 1 /\ Append(s, d)[Len(s) + 1] = d
        /\ \A i \in 1 .. Len(s) : Append(s, d)[i] = s[i]
    BY <1>1, AppendProperties
  <1>3. Len(s) \in Nat
    BY LenProperties
  <1> QED
    BY <1>2, <1>3

LEMMA MadeStep ==
  ASSUME DriversOK, [Next]_vars
  PROVE  /\ \/ made' = made
            \/ cpc = "idle" /\ cpc' = "send" /\ \E call \in Calls : Invoke(call) /\ made' = Append(made, call)
         /\ Len(made') \in Nat /\ Len(made') >= Len(made)
         /\ \A n \in 1 .. Len(made) : made'[n] = made[n]
  <1>1. \/ made' = made
        \/ cpc = "idle" /\ cpc' = "send" /\ \E call \in Calls : Invoke(call) /\ made' = Append(made, call)
    <2>1. CASE ClientActs
      BY <2>1 DEF ClientActs, Invoke, Quit, ClientGoesOn, ClientWrites, ClientSends, ClientReceives,
         ClientReads, ClientReturns, ClientFails, Return
    <2> QED
      BY <2>1, ClientStill, WhoActs
  <1>2. made \in Seq(Calls) /\ Len(made) \in Nat
    BY DriverTypes DEF DriversOK
  <1>3. \A call \in Calls : /\ Len(Append(made, call)) = Len(made) + 1
                            /\ \A n \in 1 .. Len(made) : Append(made, call)[n] = made[n]
    BY <1>2, GrownByOne
  <1> QED
    BY <1>1, <1>2, <1>3

LEMMA RanStep ==
  ASSUME DriversOK, [Next]_vars
  PROVE  /\ ran' = ran \/ (Run /\ \E r : ran' = Append(ran, r))
         /\ Len(ran') \in Nat /\ Len(ran') >= Len(ran)
         /\ \A i \in 1 .. Len(ran) : ran'[i] = ran[i]
  <1>1. ran' = ran \/ (Run /\ \E r : ran' = Append(ran, r))
    <2>1. CASE ServerGoesOn
      BY <2>1 DEF ServerGoesOn, Run, RunFails, ServerReceives, ServerReads, ServerReadsEnd,
         ServerWrites, ServerSends, ServerFails, sdriver
    <2> QED
      BY <2>1, ServerStill, WhoActs
  <1> QED
    BY <1>1, GrownByOne DEF DriversOK

LEMMA CoutStep ==
  ASSUME Ends, [Next]_vars
  PROVE  \/ cout' = cout
         \/ /\ cpc = "send" /\ cpc' \in {"idle", "receive", "over"} /\ made' = made /\ ClientActs
            /\ \E d : /\ d = Encoded(Open) \/ (d = Client!Truncation(Encoded(Open)) /\ cpc' = "over")
                     /\ cout' = Append(cout, d) /\ d \in Requests
  <1>1. CASE ClientSends \/ ClientFails
    <2>1. ASSUME NEW n \in DOMAIN cbuffer, Client!StructEndsAt(cbuffer, n), cpc = "send", ctodo = <<>>
          PROVE  /\ Client!Emitted(n) = Encoded(Open)
                 /\ Encoded(Open) \in Requests /\ Client!Truncation(Encoded(Open)) \in Requests
      BY <2>1, ClientEmits DEF Ends
    <2>2. CASE ClientSends
      <3>1. PICK n \in DOMAIN cbuffer :
              Client!StructEndsAt(cbuffer, n) /\ cout' = Append(cout, Client!Emitted(n))
        BY <2>2 DEF ClientSends, Client!WriteMessageEnd
      <3>2. cpc = "send" /\ ctodo = <<>> /\ cpc' \in {"idle", "receive"} /\ made' = made
        BY <2>2 DEF ClientSends, Return
      <3> QED
        BY <2>1, <2>2, <3>1, <3>2 DEF ClientActs, ClientGoesOn
    <2>3. CASE ClientFails /\ Client!WriteMessageEndTransportFails /\ cpc = "send" /\ ctodo = <<>>
      <3>1. PICK n \in DOMAIN cbuffer :
              /\ Client!StructEndsAt(cbuffer, n)
              /\ cout' = cout \/ cout' = Append(cout, Client!Truncation(Client!Emitted(n)))
        BY <2>3 DEF Client!WriteMessageEndTransportFails
      <3>2. cpc' = "over" /\ made' = made
        BY <2>3 DEF ClientFails, Return
      <3> QED
        BY <2>1, <2>3, <3>1, <3>2 DEF ClientActs, ClientGoesOn
    <2>4. CASE ClientFails /\ ~(Client!WriteMessageEndTransportFails /\ cpc = "send" /\ ctodo = <<>>)
      BY <2>4 DEF ClientFails, Client!WriteMessageEndMarshalFails,
         Client!ReadMessageBeginBadHeader, Client!ReadMessageBeginDemarshalFails,
         Client!ReadMessageBeginParseError, Client!ReadMessageBeginEndOfFile, Client!writes
    <2> QED
      BY <1>1, <2>2, <2>3, <2>4 DEF ClientFails
  <1>2. ASSUME NEW call \in Calls, Invoke(call) PROVE cout' = cout
    BY <1>2 DEF Invoke, Client!WriteMessageBegin
  <1>3. CASE Quit \/ ClientWrites \/ ClientReceives \/ ClientReads \/ ClientReturns
    BY <1>3 DEF Quit, ClientWrites, ClientReceives, ClientReads, ClientReturns, cobject,
       Client!WriteBody, Client!ReadMessageBegin, Client!ReadBody, Client!ReadMessageEnd,
       Client!writes
  <1>4. CASE ServerGoesOn \/ LinkActs \/ UNCHANGED vars
    BY <1>4, ClientStill
  <1> QED
    BY <1>1, <1>2, <1>3, <1>4, WhoActs DEF ClientActs, ClientGoesOn

LEMMA SoutStep ==
  ASSUME Ends, [Next]_vars
  PROVE  \/ sout' = sout
         \/ /\ spc = "answer" /\ spc' \in {"process", "over"} /\ spos' = spos /\ ran' = ran
            /\ ServerGoesOn
            /\ \E type, d, pieces :
                 /\ MayAnswer(spos, type, pieces)
                 /\ LET whole == Server!Dumped(made[spos].op, type, 0, pieces)
                    IN  d = whole \/ (d = Server!Truncation(whole) /\ CanBeLost(cpc))
                 /\ sout' = Append(sout, d) /\ d \in Replies
  <1>1. CASE ServerSends \/ ServerFails
    <2>1. ASSUME NEW n \in DOMAIN sbuffer, Server!StructEndsAt(sbuffer, n), spc = "answer", stodo = <<>>
          PROVE  \E pieces :
                   /\ MayAnswer(spos, stype, pieces)
                   /\ Server!Emitted(n) = Server!Dumped(made[spos].op, stype, 0, pieces)
                   /\ Server!Emitted(n) \in Replies /\ Server!Truncation(Server!Emitted(n)) \in Replies
      <3>1. made[spos].op \in Methods
        BY <2>1, RequestRead, CallsAssumption
      <3> QED
        BY <2>1, <3>1, ServerEmits DEF Ends
    <2>2. CASE ServerSends
      <3>1. PICK n \in DOMAIN sbuffer :
              Server!StructEndsAt(sbuffer, n) /\ sout' = Append(sout, Server!Emitted(n))
        BY <2>2 DEF ServerSends, Server!WriteMessageEnd
      <3>2. /\ spc = "answer" /\ stodo = <<>> /\ spc' = "process" /\ spos' = spos /\ ran' = ran
        BY <2>2 DEF ServerSends, Server!WriteMessageEnd, Server!inbound
      <3> QED
        BY <2>1, <2>2, <3>1, <3>2 DEF ServerGoesOn
    <2>3. CASE ServerFails /\ Server!WriteMessageEndTransportFails /\ spc = "answer" /\ stodo = <<>>
      <3>1. PICK n \in DOMAIN sbuffer :
              /\ Server!StructEndsAt(sbuffer, n)
              /\ sout' = sout \/ sout' = Append(sout, Server!Truncation(Server!Emitted(n)))
        BY <2>3 DEF Server!WriteMessageEndTransportFails
      <3>2. spc' \in {"process", "over"} /\ spos' = spos /\ ran' = ran
        BY <2>3 DEF ServerFails, Server!WriteMessageEndTransportFails, Server!inbound
      <3>3. sout' = sout \/ CanBeLost(cpc)
        BY <2>3 DEF ServerFails, Server!WriteMessageEndMarshalFails
      <3> QED
        BY <2>1, <2>3, <3>1, <3>2, <3>3 DEF ServerGoesOn
    <2>4. CASE ServerFails /\ ~(Server!WriteMessageEndTransportFails /\ spc = "answer" /\ stodo = <<>>)
      BY <2>4 DEF ServerFails, Server!WriteMessageEndMarshalFails,
         Server!ReadMessageBeginBadHeader, Server!ReadMessageBeginDemarshalFails,
         Server!ReadMessageBeginParseError, Server!ReadMessageBeginEndOfFile, Server!writes
    <2> QED
      BY <1>1, <2>2, <2>3, <2>4 DEF ServerFails
  <1>2. CASE Run \/ RunFails
    BY <1>2 DEF Run, RunFails, Answer, sobject, Server!WriteMessageBegin
  <1>3. CASE ServerWrites \/ ServerReceives \/ ServerReads \/ ServerReadsEnd
    BY <1>3 DEF ServerWrites, ServerReceives, ServerReads, ServerReadsEnd,
       Server!WriteBody, Server!ReadMessageBegin, Server!ReadBody, Server!ReadMessageEnd,
       Server!writes
  <1>4. CASE ClientActs \/ LinkActs \/ UNCHANGED vars
    BY <1>4, ServerStill
  <1> QED
    BY <1>1, <1>2, <1>3, <1>4, WhoActs DEF ServerGoesOn
-----------------------------------------------------------------------------
(* Each part of Ends is kept.                                               *)
LEMMA AppendType ==
  ASSUME NEW S, NEW s \in Seq(S), NEW d \in S
  PROVE  Append(s, d) \in Seq(S)
  BY AppendProperties

LEMMA WholeType ==
  ASSUME NEW s \in Seq(Carried)
  PROVE  Append(s, Stop) \in Seq(SessionPieces)
  BY WholeEndsThere DEF Whole

LEMMA FrontType ==
  ASSUME NEW S, NEW s \in Seq(S), s # <<>>
  PROVE  Front(s) \in Seq(S)
  <1>1. Len(s) \in Nat /\ Len(s) > 0 /\ \A i \in 1 .. Len(s) : s[i] \in S
    BY LenProperties, EmptySeq, ElementOfSeq
  <1>2. \A i \in 1 .. Len(s) - 1 : s[i] \in S
    BY <1>1
  <1>3. Len(s) - 1 \in Int /\ 1 \in Int
    BY <1>1
  <1> QED
    BY <1>2, <1>3, SubSeqProperties DEF Front

(* What the handler answers to the request it is given.                     *)
LEMMA RunIsServed ==
  ASSUME Ends, Run
  PROVE  LET served == Handle(made[spos].op, made[spos].args, log)
         IN  /\ log' = served.log /\ LogFits(served.log) /\ served.answer \in Answers
             /\ ran' = Append(ran, [call |-> spos, answer |-> served.answer])
             /\ Answer(Request, "reply", served.answer) /\ failed' = failed
             /\ UNCHANGED <<spos, sgot, sarrived>>
  <1>1. /\ spc = "handle" /\ Request.at = spos /\ Request.name = made[spos].op
        /\ Front(Request.body) = made[spos].args /\ made[spos] \in Calls
        /\ \A i \in DOMAIN made[spos].args : made[spos].args[i] \in Values
    BY RequestRead DEF Run
  <1> DEFINE served == Handle(made[spos].op, made[spos].args, log)
  <1>2. LogFits(served.log) /\ served.answer \in Answers
    BY <1>1, AnswersAreValues DEF Ends, DriversOK
  <1>3. /\ log' = served.log /\ ran' = Append(ran, [call |-> spos, answer |-> served.answer])
        /\ Answer(Request, "reply", served.answer) /\ failed' = failed
    BY <1>1 DEF Run, Last, Request
  <1>4. UNCHANGED <<spos, sgot, sarrived>>
    BY DEF Run, Answer, sobject, Server!WriteMessageBegin, Server!inbound, Server!reads
  <1> QED
    BY <1>2, <1>3, <1>4

LEMMA AnswersCarried ==
  /\ Answers \subseteq {<<>>} \union {<<v>> : v \in Carried}
  /\ {<<>>} \union {<<v>> : v \in Carried} \subseteq Seq(Carried)
  /\ Answers \subseteq Seq(Values)
  <1>1. ASSUME NEW S, NEW v \in S PROVE <<v>> \in Seq(S)
    OBVIOUS
  <1>2. \A S : <<>> \in Seq(S)
    BY EmptySeq
  <1> QED
    BY <1>1, <1>2 DEF Answers, Carried

LEMMA RunFailsAnswers ==
  ASSUME RunFails
  PROVE  /\ spc = "handle" /\ failed' = TRUE /\ UNCHANGED <<log, ran, spos, sgot, sarrived>>
         /\ \E type \in {"reply", "exception"}, pieces \in {<<>>} \union {<<v>> : v \in Carried} :
              /\ Answer(Request, type, pieces)
              /\ \/ type = "exception" /\ pieces = <<>>
                 \/ type = "reply" /\ pieces \in {<<Unconvertible>>, <<RawString>>}
  <1>1. /\ <<>> \in {<<>>} \union {<<v>> : v \in Carried}
        /\ <<Unconvertible>> \in {<<>>} \union {<<v>> : v \in Carried}
        /\ <<RawString>> \in {<<>>} \union {<<v>> : v \in Carried}
    BY DEF Carried
  <1>2. UNCHANGED <<log, ran, spos, sgot, sarrived>>
    BY DEF RunFails, Answer, sobject, Server!WriteMessageBegin, Server!inbound, Server!reads
  <1> QED
    BY <1>1, <1>2 DEF RunFails, Last, Request

LEMMA DriversStep ==
  ASSUME Ends, [Next]_vars
  PROVE  DriversOK'
  <1>0. /\ made \in Seq(Calls) /\ returned \in Seq({NoAnswer, Error} \union Seq(CP!Pieces))
        /\ ran \in Seq([call : Nat, answer : Answers]) /\ LogFits(log)
        /\ ctodo \in Seq(SessionPieces) /\ stodo \in Seq(SessionPieces)
    BY DEF Ends, DriversOK
  <1>1. ASSUME NEW call \in Calls, Invoke(call) PROVE DriversOK'
    <2>1. Append(made, call) \in Seq(Calls) /\ Append(call.args, Stop) \in Seq(SessionPieces)
      BY <1>0, AppendType, WholeType, CallsAssumption DEF Carried
    <2> QED
      BY <1>1, <2>1 DEF Ends, DriversOK, Invoke, ByClient, sdriver
  <1>2. CASE ClientWrites
    <2>1. Tail(ctodo) \in Seq(SessionPieces)
      BY <1>0, <1>2, HeadTailProperties DEF ClientWrites
    <2> QED
      BY <1>2, <2>1 DEF Ends, DriversOK, ClientWrites, ByClient, sdriver
  <1>3. ASSUME NEW answer \in {NoAnswer, Error} \union Seq(CP!Pieces), NEW pc \in {"idle", "over"},
               Return(answer, pc)
        PROVE  DriversOK'
    <2>1. Append(returned, answer) \in Seq({NoAnswer, Error} \union Seq(CP!Pieces))
      BY <1>0, AppendType
    <2> QED
      BY <1>3, <2>1 DEF Ends, DriversOK, Return, ByClient, sdriver
  <1>4. CASE ClientReturns
    <2>1. Received \in CP!Receipt
      <3>1. Len(cgot) \in 1 .. Len(cgot)
        BY <1>4, ClientTypes, EmptySeq DEF Ends, ClientReturns, ClientTurn
      <3> QED
        BY <3>1, ElementOfSeq, ClientTypes DEF Ends, Received
    <2>2. Received.body \in Seq(CP!Pieces) /\ Received.body # <<>>
      BY <1>4, <2>1 DEF CP!Receipt, ClientReturns, EndsWithStop, Last, Received
    <2>3. Front(Last(cgot).body) \in Seq(CP!Pieces)
      BY <2>2, FrontType DEF Last, Received
    <2> QED
      BY <1>3, <1>4, <2>3 DEF ClientReturns
  <1>5. CASE ClientFails
    BY <1>3, <1>5 DEF ClientFails
  <1>6. CASE ClientSends
    BY <1>3, <1>6 DEF ClientSends, Ends, DriversOK, ByClient, sdriver
  <1>7. CASE Quit \/ ClientReceives \/ ClientReads
    BY <1>7 DEF Quit, ClientReceives, ClientReads, Ends, DriversOK, ByClient, sdriver
  <1>8. CASE Run
    <2> DEFINE served == Handle(made[spos].op, made[spos].args, log)
    <2>1. /\ log' = served.log /\ LogFits(served.log) /\ served.answer \in Answers
          /\ ran' = Append(ran, [call |-> spos, answer |-> served.answer])
          /\ Answer(Request, "reply", served.answer) /\ failed' = failed
      BY <1>8, RunIsServed
    <2>2. spos \in Nat /\ served.answer \in Seq(Carried)
      BY <2>1, ServerTypes, AnswersCarried DEF Ends
    <2> HIDE DEF served
    <2>3. ran' \in Seq([call : Nat, answer : Answers])
      BY <1>0, <2>1, <2>2, AppendType
    <2>4. stodo' \in Seq(SessionPieces) /\ spc' \in {"process", "answer"}
      BY <1>0, <2>1, <2>2, WholeType DEF Answer
    <2> QED
      BY <1>8, <2>1, <2>3, <2>4, ServerActsFrame DEF ServerGoesOn, Ends, DriversOK, ByServer, cdriver, LogFits
  <1>9. CASE RunFails
    <2>1. stodo' \in Seq(SessionPieces) /\ spc' \in {"process", "answer"}
      BY <1>0, <1>9, RunFailsAnswers, AnswersCarried, WholeType DEF Answer
    <2> QED
      BY <1>9, <2>1, RunFailsAnswers, ServerActsFrame
         DEF ServerGoesOn, Ends, DriversOK, ByServer, cdriver, LogFits
  <1>10. CASE ServerWrites
    <2>1. Tail(stodo) \in Seq(SessionPieces)
      BY <1>0, <1>10, HeadTailProperties DEF ServerWrites
    <2> QED
      BY <1>10, <2>1 DEF Ends, DriversOK, ServerWrites, ByServer, cdriver, LogFits
  <1>11. CASE ServerReceives \/ ServerReads \/ ServerReadsEnd \/ ServerSends \/ ServerFails
    BY <1>11 DEF ServerReceives, ServerReads, ServerReadsEnd, ServerSends, ServerFails, Ends,
       DriversOK, ByServer, cdriver, sdriver, LogFits
  <1>12. CASE LinkActs
    BY <1>12 DEF LinkActs, Delivery, RequestArrives, ReplyArrives, ServerSeesClose, ClientSeesClose,
       RequestIsCutOff, ReplyIsCutOff, LinkBreaks, Drivers, sdriver, cdriver, Ends, DriversOK, LogFits
  <1>13. CASE UNCHANGED vars
    BY <1>13 DEF vars, sdriver, cdriver, Ends, DriversOK, LogFits
  <1> QED
    BY <1>1, <1>2, <1>4, <1>5, <1>6, <1>7, <1>8, <1>9, <1>10, <1>11, <1>12, <1>13, WhoActs
       DEF ClientActs, ClientGoesOn, ServerGoesOn

LEMMA StreamsStep ==
  ASSUME Ends, [Next]_vars
  PROVE  StreamsOK'
  <1>1. \A i \in 1 .. Len(cout') : cout'[i] \in Requests
    <2>1. ASSUME NEW d \in Requests, cout' = Append(cout, d)
          PROVE  \A i \in 1 .. Len(cout') : cout'[i] \in Requests
      BY <2>1, GrownByOne, ClientTypes DEF Ends, StreamsOK
    <2> QED
      BY <2>1, CoutStep DEF Ends, StreamsOK
  <1>2. \A k \in 1 .. Len(sout') : sout'[k] \in Replies
    <2>1. ASSUME NEW d \in Replies, sout' = Append(sout, d)
          PROVE  \A k \in 1 .. Len(sout') : sout'[k] \in Replies
      BY <2>1, GrownByOne, ServerTypes DEF Ends, StreamsOK
    <2> QED
      BY <2>1, SoutStep DEF Ends, StreamsOK
  <1> QED
    BY <1>1, <1>2 DEF StreamsOK, Requests, Replies

LEMMA ClientTurnStep ==
  ASSUME Ends, [Next]_vars
  PROVE  ClientTurn'
  <1>0. /\ Len(made) \in Nat /\ Len(returned) \in Nat /\ Len(cout) \in Nat
        /\ made \in Seq(Calls) /\ returned \in Seq({NoAnswer, Error} \union Seq(CP!Pieces))
        /\ cout \in Seq(CP!Document)
    BY DriverTypes, ClientTypes DEF Ends, DriversOK
  <1>1. ASSUME NEW call \in Calls, Invoke(call) PROVE ClientTurn'
    <2>1. /\ cpc = "idle" /\ cpc' = "send" /\ cmode' = "WRITING_MESSAGE"
          /\ made' = Append(made, call) /\ returned' = returned /\ cout' = cout
      BY <1>1 DEF Invoke, Client!WriteMessageBegin
    <2>2. Len(made') = Len(made) + 1
      BY <1>0, <2>1, GrownByOne
    <2> QED
      BY <1>0, <2>1, <2>2 DEF Ends, ClientTurn
  <1>2. CASE ClientWrites
    BY <1>2 DEF ClientWrites, Client!WriteBody, Ends, ClientTurn, Open
  <1>3. ASSUME NEW answer, NEW pc \in {"idle", "over"}, Return(answer, pc),
               cpc \in {"send", "receive", "read"}, pc = "idle" => cmode' = "NONE",
               pc = "idle" => Len(cout') = Len(made), Len(cout') <= Len(made)
        PROVE  ClientTurn'
    <2>1. /\ Len(returned') = Len(returned) + 1 /\ cpc' = pc /\ made' = made
      BY <1>0, <1>3, GrownByOne DEF Return
    <2> QED
      BY <1>0, <1>3, <2>1 DEF Ends, ClientTurn
  <1>4. CASE ClientSends
    <2>1. PICK d : cout' = Append(cout, d)
      BY <1>4 DEF ClientSends, Client!WriteMessageEnd
    <2>2. Len(cout') = Len(made) /\ cpc = "send" /\ cmode' = "NONE"
      BY <1>0, <1>4, <2>1, GrownByOne DEF ClientSends, Client!WriteMessageEnd, Ends, ClientTurn
    <2>3. CASE IsOneway(Last(made))
      BY <1>0, <1>3, <1>4, <2>2, <2>3 DEF ClientSends
    <2>4. CASE ~IsOneway(Last(made))
      <3>1. cpc' = "receive" /\ made' = made /\ returned' = returned
        BY <1>4, <2>4 DEF ClientSends
      <3> QED
        BY <1>0, <2>2, <2>4, <3>1 DEF Ends, ClientTurn, Open, Last
    <2> QED
      BY <2>3, <2>4
  <1>5. CASE ClientReceives
    BY <1>5 DEF ClientReceives, Client!ReadMessageBegin, Client!writes, Ends, ClientTurn, Open
  <1>6. CASE ClientReads
    BY <1>6 DEF ClientReads, Client!ReadBody, Client!writes, Ends, ClientTurn, Open
  <1>7. CASE ClientReturns
    <2>1. cpc = "read" /\ cmode' = "NONE" /\ cout' = cout
      BY <1>7 DEF ClientReturns, Client!ReadMessageEnd, Client!writes
    <2>2. Len(cout) = Len(made)
      BY <2>1 DEF Ends, ClientTurn
    <2>3. \E pc \in {"idle", "over"} : \E answer : Return(answer, pc)
      BY <1>7 DEF ClientReturns
    <2> QED
      BY <1>0, <1>3, <2>1, <2>2, <2>3
  <1>8. CASE ClientFails
    <2>1. cpc \in {"send", "receive"} /\ Return(Error, "over")
      BY <1>8 DEF ClientFails
    <2>2. Len(cout') <= Len(made)
      <3>1. CASE cout' = cout
        BY <3>1 DEF Ends, ClientTurn
      <3>2. ASSUME NEW d, cout' = Append(cout, d), cpc = "send" PROVE Len(cout') <= Len(made)
        BY <1>0, <3>2, GrownByOne DEF Ends, ClientTurn
      <3> QED
        BY <3>1, <3>2, CoutStep
    <2> QED
      BY <1>3, <2>1, <2>2
  <1>9. CASE Quit
    BY <1>9 DEF Quit, cobject, Ends, ClientTurn
  <1>10. CASE ServerGoesOn \/ LinkActs \/ UNCHANGED vars
    BY <1>10, ClientStill DEF Ends, ClientTurn, Open
  <1> QED
    BY <1>1, <1>2, <1>4, <1>5, <1>6, <1>7, <1>8, <1>9, <1>10, WhoActs DEF ClientActs, ClientGoesOn

LEMMA ClientWritingStep ==
  ASSUME Ends, [Next]_vars
  PROVE  ClientWriting'
  <1>1. ASSUME NEW call \in Calls, Invoke(call) PROVE ClientWriting'
    <2>1. /\ cname' = call.op /\ ctype' = TypeOfCall(call) /\ cseqid' = 0 /\ cbuffer' = <<>>
          /\ made' = Append(made, call) /\ ctodo' = Whole(call.args)
      BY <1>1 DEF Invoke, Client!WriteMessageBegin, Client!FreshBuffer, TypeOfCall, Whole
    <2>2. made'[Len(made')] = call
      BY <2>1, GrownByOne DEF Ends, DriversOK
    <2>3. <<>> \o Whole(call.args) = Whole(call.args)
      <3>1. Whole(call.args) \in Seq(SessionPieces)
        BY WholeEndsThere, CallsAssumption DEF Carried
      <3> QED
        BY <3>1, ConcatEmptySeq
    <2> QED
      BY <2>1, <2>2, <2>3 DEF ClientWriting, Open, TypeOfCall, IsOneway, Whole
  <1>2. CASE ClientWrites
    <2>1. /\ cpc = "send" /\ ctodo # <<>> /\ cbuffer' = Append(cbuffer, Head(ctodo))
          /\ ctodo' = Tail(ctodo) /\ UNCHANGED <<cname, ctype, cseqid, made, cpc>>
      BY <1>2 DEF ClientWrites, Client!WriteBody, Client!header
    <2>2. /\ ctodo \in Seq(CP!Pieces \union SessionPieces)
          /\ cbuffer \in Seq(CP!Pieces \union SessionPieces)
      <3>1. ctodo \in Seq(SessionPieces) /\ cbuffer \in Seq(CP!Pieces)
        BY <2>1, ClientTypes DEF Ends, DriversOK, ClientTurn
      <3> HIDE DEF SessionPieces
      <3> QED
        BY <3>1, SeqMonotonic
    <2>3. cbuffer' \o ctodo' = cbuffer \o ctodo
      BY <2>1, <2>2, MoveOne
    <2> QED
      BY <2>1, <2>3 DEF Ends, ClientWriting, Open, TypeOfCall, IsOneway, Whole
  <1>3. CASE ClientSends \/ ClientReceives \/ ClientReads \/ ClientReturns \/ ClientFails \/ Quit
    <2>1. cpc' # "send"
      BY <1>3 DEF ClientSends, ClientReceives, ClientReads, ClientReturns, ClientFails, Quit, Return
    <2> QED
      BY <2>1 DEF ClientWriting
  <1>4. CASE ServerGoesOn \/ LinkActs \/ UNCHANGED vars
    BY <1>4, ClientStill DEF Ends, ClientWriting, Open, TypeOfCall, IsOneway, Whole
  <1> QED
    BY <1>1, <1>2, <1>3, <1>4, WhoActs DEF ClientActs, ClientGoesOn

LEMMA SentStep ==
  ASSUME Ends, [Next]_vars
  PROVE  Sent'
  <1>0. /\ Len(made) \in Nat /\ Len(cout) \in Nat /\ cout \in Seq(CP!Document)
        /\ Len(cout) <= Len(made)
    BY DriverTypes, ClientTypes DEF Ends, ClientTurn
  <1>1. CASE cout' = cout
    <2>1. \A i \in 1 .. Len(cout) : made'[i] = made[i]
      BY <1>0, MadeStep DEF Ends
    <2> QED
      BY <1>1, <2>1 DEF Ends, Sent, Encoded, TypeOfCall, IsOneway
  <1>2. ASSUME cpc = "send", made' = made,
               NEW d \in {Encoded(Open), Client!Truncation(Encoded(Open))}, cout' = Append(cout, d)
        PROVE  Sent'
    <2>1. Len(cout) = Len(made) - 1
      BY <1>2 DEF Ends, ClientTurn
    <2>2. Open = made[Len(cout) + 1]
      BY <1>0, <2>1 DEF Open
    <2>3. \A i \in 1 .. Len(cout') :
            cout'[i] \in {Encoded(made[i]), Client!Truncation(Encoded(made[i]))}
      BY <1>0, <1>2, <2>2, GrownByOne DEF Ends, Sent
    <2> QED
      BY <1>2, <2>3 DEF Sent, Encoded, TypeOfCall, IsOneway
  <1> QED
    BY <1>1, <1>2, CoutStep

(* What a step can add to what has arrived.                                 *)
LEMMA ArrivedStep ==
  ASSUME [Next]_vars, SP!TypeOK, CP!TypeOK
  PROVE  /\ \/ sarrived' = sarrived
            \/ /\ Len(sarrived) < Len(cout) /\ cout' = cout /\ LinkActs
               /\ \/ sarrived' = Append(sarrived, cout[Len(sarrived) + 1])
                  \/ /\ link = "down"
                     /\ sarrived' = Append(sarrived, Client!Truncation(cout[Len(sarrived) + 1]))
         /\ \/ carrived' = carrived
            \/ /\ Len(carrived) < Len(sout) /\ sout' = sout /\ LinkActs
               /\ \/ carrived' = Append(carrived, sout[Len(carrived) + 1])
                  \/ /\ link = "down"
                     /\ carrived' = Append(carrived, Server!Truncation(sout[Len(carrived) + 1]))
         /\ Len(sarrived') >= Len(sarrived) /\ Len(sarrived') \in Nat
         /\ \A i \in 1 .. Len(sarrived) : sarrived'[i] = sarrived[i]
         /\ Len(carrived') >= Len(carrived) /\ Len(carrived') \in Nat
         /\ \A i \in 1 .. Len(carrived) : carrived'[i] = carrived[i]
  <1>1. CASE ClientActs \/ ServerGoesOn
    <2>1. UNCHANGED <<sarrived, carrived>>
      BY <1>1, ClientTakesNothing, ServerTakesNothing
    <2> QED
      BY <2>1, ServerTypes, ClientTypes
  <1>2. CASE UNCHANGED vars
    BY <1>2, ServerTypes, ClientTypes DEF vars, sobject, cobject
  <1>3. CASE RequestArrives \/ RequestIsCutOff
    <2>1. /\ Len(sarrived) < Len(cout) /\ UNCHANGED <<cout, sout, carrived>>
          /\ \/ sarrived' = Append(sarrived, cout[Len(sarrived) + 1])
             \/ /\ link = "down"
                /\ sarrived' = Append(sarrived, Client!Truncation(cout[Len(sarrived) + 1]))
      BY <1>3 DEF RequestArrives, RequestIsCutOff, CutOff, cobject, Server!PeerSends, Server!writes
    <2>2. /\ Len(sarrived') >= Len(sarrived) /\ Len(sarrived') \in Nat
          /\ \A i \in 1 .. Len(sarrived) : sarrived'[i] = sarrived[i]
      BY <2>1, GrownByOne, ServerTypes
    <2> QED
      BY <1>3, <2>1, <2>2, ClientTypes DEF LinkActs, Delivery
  <1>4. CASE ReplyArrives \/ ReplyIsCutOff
    <2>1. /\ Len(carrived) < Len(sout) /\ UNCHANGED <<cout, sout, sarrived>>
          /\ \/ carrived' = Append(carrived, sout[Len(carrived) + 1])
             \/ /\ link = "down"
                /\ carrived' = Append(carrived, Server!Truncation(sout[Len(carrived) + 1]))
      BY <1>4 DEF ReplyArrives, ReplyIsCutOff, CutOff, sobject, Client!PeerSends, Client!writes
    <2>2. /\ Len(carrived') >= Len(carrived) /\ Len(carrived') \in Nat
          /\ \A i \in 1 .. Len(carrived) : carrived'[i] = carrived[i]
      BY <2>1, GrownByOne, ClientTypes
    <2> QED
      BY <1>4, <2>1, <2>2, ServerTypes DEF LinkActs, Delivery
  <1>5. CASE ServerSeesClose \/ ClientSeesClose \/ LinkBreaks
    <2>1. UNCHANGED <<sarrived, carrived>>
      BY <1>5 DEF ServerSeesClose, ClientSeesClose, LinkBreaks, cobject, sobject,
         Client!PeerCloses, Server!PeerCloses
    <2> QED
      BY <2>1, ServerTypes, ClientTypes
  <1> QED
    BY <1>1, <1>2, <1>3, <1>4, <1>5, WhoActs DEF LinkActs, Delivery

LEMMA RequestedStep ==
  ASSUME Ends, [Next]_vars
  PROVE  Requested'
  <1>0. /\ Len(sarrived) \in Nat /\ Len(cout) \in Nat /\ cout \in Seq(CP!Document)
        /\ sarrived \in Seq(SP!Document) /\ Len(sarrived) <= Len(cout)
        /\ \A i \in 1 .. Len(sarrived) : sarrived[i] \in {cout[i], Client!Truncation(cout[i])}
    BY ClientTypes, ServerTypes DEF Ends, Requested
  <1>1. CASE sarrived' = sarrived
    <2>1. Len(cout') >= Len(cout) /\ \A i \in 1 .. Len(cout) : cout'[i] = cout[i]
      <3>1. ASSUME NEW d, cout' = Append(cout, d)
            PROVE  Len(cout') >= Len(cout) /\ \A i \in 1 .. Len(cout) : cout'[i] = cout[i]
        BY <1>0, <3>1, GrownByOne
      <3> QED
        BY <1>0, <3>1, CoutStep
    <2>2. Len(cout') \in Nat
      <3>1. ASSUME NEW d, cout' = Append(cout, d) PROVE Len(cout') \in Nat
        BY <1>0, <3>1, GrownByOne
      <3> QED
        BY <1>0, <3>1, CoutStep
    <2> QED
      BY <1>0, <1>1, <2>1, <2>2 DEF Requested, Client!Truncation
  <1>2. ASSUME Len(sarrived) < Len(cout), cout' = cout,
               NEW d \in {cout[Len(sarrived) + 1], Client!Truncation(cout[Len(sarrived) + 1])},
               sarrived' = Append(sarrived, d)
        PROVE  Requested'
    BY <1>0, <1>2, GrownByOne DEF Requested, Client!Truncation
  <1> QED
    BY <1>1, <1>2, ArrivedStep DEF Ends

LEMMA RepliedStep ==
  ASSUME Ends, [Next]_vars
  PROVE  Replied'
  <1>0. /\ Len(carrived) \in Nat /\ Len(sout) \in Nat /\ sout \in Seq(SP!Document)
        /\ carrived \in Seq(CP!Document) /\ Len(carrived) <= Len(sout)
        /\ \A i \in 1 .. Len(carrived) : carrived[i] \in {sout[i], Server!Truncation(sout[i])}
    BY ClientTypes, ServerTypes DEF Ends, Replied
  <1>1. CASE carrived' = carrived
    <2>1. /\ Len(sout') >= Len(sout) /\ Len(sout') \in Nat
          /\ \A i \in 1 .. Len(sout) : sout'[i] = sout[i]
      <3>1. ASSUME NEW d, sout' = Append(sout, d)
            PROVE  /\ Len(sout') >= Len(sout) /\ Len(sout') \in Nat
                   /\ \A i \in 1 .. Len(sout) : sout'[i] = sout[i]
        BY <1>0, <3>1, GrownByOne
      <3> QED
        BY <1>0, <3>1, SoutStep
    <2> QED
      BY <1>0, <1>1, <2>1 DEF Replied, Server!Truncation
  <1>2. ASSUME Len(carrived) < Len(sout), sout' = sout,
               NEW d \in {sout[Len(carrived) + 1], Server!Truncation(sout[Len(carrived) + 1])},
               carrived' = Append(carrived, d)
        PROVE  Replied'
    BY <1>0, <1>2, GrownByOne DEF Replied, Server!Truncation
  <1> QED
    BY <1>1, <1>2, ArrivedStep DEF Ends

LEMMA ServerReadKeeps ==
  ASSUME SP!TypeOK, sgot # <<>>, Server!ReadBody
  PROVE  sgot' # <<>> /\ Request'.at = Request.at
  <1>1. sgot \in Seq(SP!Receipt) /\ Len(sgot) \in Nat /\ Len(sgot) > 0
    BY ServerTypes, EmptySeq
  <1>2. Request \in SP!Receipt
    BY <1>1, ElementOfSeq DEF Request
  <1>3. sgot' = [sgot EXCEPT ![Len(sgot)].body = Append(@, Head(sbuffer))]
    BY DEF Server!ReadBody
  <1>4. Len(sgot) \in DOMAIN sgot /\ DOMAIN sgot' = DOMAIN sgot /\ DOMAIN sgot = 1 .. Len(sgot)
    BY <1>1, <1>3, LenProperties
  <1>5. sgot'[Len(sgot)] = [Request EXCEPT !.body = Append(@, Head(sbuffer))]
    BY <1>3, <1>4 DEF Request
  <1>6. Len(sgot') = Len(sgot) /\ sgot' # <<>>
    <2> DEFINE r == [Request EXCEPT !.body = Append(@, Head(sbuffer))]
    <2>1. sgot \in Seq(SP!Receipt \union {r}) /\ Len(sgot) \in 1 .. Len(sgot)
      BY <1>1, SeqMonotonic
    <2>2. sgot' = [sgot EXCEPT ![Len(sgot)] = r]
      BY <1>3 DEF Request
    <2> HIDE DEF r
    <2>3. Len(sgot') = Len(sgot) /\ sgot' \in Seq(SP!Receipt \union {r})
      BY <2>1, <2>2, ExceptSeq
    <2> QED
      BY <1>1, <2>3, EmptySeq
  <1> QED
    BY <1>2, <1>5, <1>6 DEF Request, SP!Receipt

LEMMA ClientReadKeeps ==
  ASSUME CP!TypeOK, cgot # <<>>, Client!ReadBody
  PROVE  cgot' # <<>> /\ Received'.at = Received.at /\ Received'.type = Received.type
  <1>1. cgot \in Seq(CP!Receipt) /\ Len(cgot) \in Nat /\ Len(cgot) > 0
    BY ClientTypes, EmptySeq
  <1>2. Received \in CP!Receipt
    BY <1>1, ElementOfSeq DEF Received
  <1>3. cgot' = [cgot EXCEPT ![Len(cgot)].body = Append(@, Head(cbuffer))]
    BY DEF Client!ReadBody
  <1>4. Len(cgot) \in DOMAIN cgot /\ DOMAIN cgot' = DOMAIN cgot /\ DOMAIN cgot = 1 .. Len(cgot)
    BY <1>1, <1>3, LenProperties
  <1>5. cgot'[Len(cgot)] = [Received EXCEPT !.body = Append(@, Head(cbuffer))]
    BY <1>3, <1>4 DEF Received
  <1>6. Len(cgot') = Len(cgot) /\ cgot' # <<>>
    <2> DEFINE r == [Received EXCEPT !.body = Append(@, Head(cbuffer))]
    <2>1. cgot \in Seq(CP!Receipt \union {r}) /\ Len(cgot) \in 1 .. Len(cgot)
      BY <1>1, SeqMonotonic
    <2>2. cgot' = [cgot EXCEPT ![Len(cgot)] = r]
      BY <1>3 DEF Received
    <2> HIDE DEF r
    <2>3. Len(cgot') = Len(cgot) /\ cgot' \in Seq(CP!Receipt \union {r})
      BY <2>1, <2>2, ExceptSeq
    <2> QED
      BY <1>1, <2>3, EmptySeq
  <1> QED
    BY <1>2, <1>5, <1>6 DEF Received, CP!Receipt

LEMMA ServerReceivesOne ==
  ASSUME Ends, ServerReceives
  PROVE  /\ spc = "process" /\ spc' = "read" /\ smode' = "READING_MESSAGE" /\ sarrived' = sarrived
         /\ spos < Len(sarrived) /\ spos' = spos + 1 /\ spos + 1 \in 1 .. Len(sarrived)
         /\ sgot' # <<>> /\ Request'.at = spos + 1 /\ sarrived[spos + 1].flaw = "none"
         /\ smid' = smid /\ UNCHANGED <<ran, failed, log>>
  <1>1. /\ spc = "process" /\ spc' = "read" /\ smode' = "READING_MESSAGE" /\ sarrived' = sarrived
        /\ spos < Len(sarrived) /\ spos' = spos + 1 /\ smid' = smid
        /\ sarrived[spos + 1].flaw \notin {"truncated", "syntax"}
        /\ UNCHANGED <<ran, failed, log>>
    BY DEF ServerReceives, Server!ReadMessageBegin, Server!AtWholeDocument, Server!ConsumeDocument,
       Server!Arriving, Server!Unterminated
  <1>2. spos + 1 \in 1 .. Len(sarrived) /\ spos + 1 \in 1 .. Len(cout)
    BY <1>1, ServerTypes, ClientTypes DEF Ends, Requested
  <1>3. sarrived[spos + 1].flaw = "none"
    <2>1. cout[spos + 1].flaw \in {"none", "syntax", "truncated"} /\ cout[spos + 1] \in CP!Document
      BY <1>2, RequestType, ClientTypes, ElementOfSeq DEF Ends, StreamsOK
    <2> QED
      BY <1>1, <1>2, <2>1, CutDocument DEF Ends, Requested
  <1>4. PICK r : sgot' = Append(sgot, r) /\ r.at = spos + 1
    BY DEF ServerReceives, Server!ReadMessageBegin
  <1>5. sgot' # <<>> /\ sgot'[Len(sgot')] = r
    <2>1. Len(sgot') = Len(sgot) + 1 /\ Len(sgot) \in Nat /\ sgot'[Len(sgot) + 1] = r
      BY <1>4, GrownByOne, ServerTypes DEF Ends
    <2> QED
      BY <2>1, EmptySeq
  <1> QED
    BY <1>1, <1>2, <1>3, <1>4, <1>5 DEF Request

(* What the server does when it has handled a request.                      *)
LEMMA ServerHandles ==
  ASSUME Ends, Run \/ RunFails
  PROVE  /\ spc = "handle" /\ UNCHANGED <<spos, sgot, sarrived, smid, sout>>
         /\ \E type \in {"reply", "exception"}, pieces \in {<<>>} \union {<<v>> : v \in Carried} :
              /\ Answer(Request, type, pieces)
              /\ \/ Run /\ type = "reply" /\ ran' = Append(ran, [call |-> spos, answer |-> pieces])
                 \/ RunFails /\ failed' /\ type = "exception" /\ pieces = <<>>
                 \/ RunFails /\ failed' /\ type = "reply" /\ pieces \in {<<Unconvertible>>, <<RawString>>}
         /\ IF IsOneway(made[spos])
            THEN spc' = "process" /\ UNCHANGED sobject
            ELSE /\ spc' = "answer" /\ smode' = "WRITING_MESSAGE" /\ sbuffer' = <<>>
                 /\ sname' = made[spos].op /\ sseqid' = 0
  <1>1. spc = "handle" /\ UNCHANGED <<spos, sgot, sarrived, smid, sout>>
    BY DEF Run, RunFails, Answer, sobject, Server!WriteMessageBegin, Server!inbound, Server!reads
  <1>2. \E type \in {"reply", "exception"}, pieces \in {<<>>} \union {<<v>> : v \in Carried} :
              /\ Answer(Request, type, pieces)
              /\ \/ Run /\ type = "reply" /\ ran' = Append(ran, [call |-> spos, answer |-> pieces])
                 \/ RunFails /\ failed' /\ type = "exception" /\ pieces = <<>>
                 \/ RunFails /\ failed' /\ type = "reply" /\ pieces \in {<<Unconvertible>>, <<RawString>>}
    <2>1. CASE Run
      <3> DEFINE answer == Handle(made[spos].op, made[spos].args, log).answer
      <3>1. /\ Answer(Request, "reply", answer) /\ ran' = Append(ran, [call |-> spos, answer |-> answer])
            /\ answer \in {<<>>} \union {<<v>> : v \in Carried}
        BY <2>1, RunIsServed, AnswersCarried
      <3> HIDE DEF answer
      <3> QED
        BY <2>1, <3>1
    <2>2. CASE RunFails
      BY <2>2, RunFailsAnswers
    <2> QED
      BY <2>1, <2>2
  <1>3. Request.name = made[spos].op /\ Request.seqid = 0
    BY <1>1, RequestRead
  <1> QED
    BY <1>1, <1>2, <1>3 DEF Answer, IsOneway, Server!WriteMessageBegin, Server!FreshBuffer

LEMMA ServerTurnStep ==
  ASSUME Ends, [Next]_vars
  PROVE  ServerTurn'
  <1>1. CASE Run \/ RunFails
    <2>1. /\ spc = "handle" /\ UNCHANGED <<spos, sgot, sarrived>>
          /\ \/ spc' = "process" /\ smode' = smode
             \/ spc' = "answer" /\ smode' = "WRITING_MESSAGE"
      BY <1>1, ServerHandles DEF sobject
    <2> QED
      BY <2>1 DEF Ends, ServerTurn, Request
  <1>2. CASE ServerReceives
    BY <1>2, ServerReceivesOne DEF ServerTurn
  <1>3. CASE ServerReads
    <2>1. spc = "read" /\ Server!ReadBody /\ sgot # <<>>
      BY <1>3 DEF ServerReads, Ends, ServerTurn
    <2>2. sgot' # <<>> /\ Request'.at = Request.at
      BY <2>1, ServerReadKeeps DEF Ends
    <2> QED
      BY <1>3, <2>1, <2>2 DEF ServerReads, Server!ReadBody, Server!inbound, sdriver, Ends, ServerTurn
  <1>4. CASE ServerReadsEnd
    BY <1>4 DEF ServerReadsEnd, Server!ReadMessageEnd, Server!inbound, Server!reads, Ends, ServerTurn,
       Request, Last
  <1>5. CASE ServerWrites
    BY <1>5 DEF ServerWrites, Server!WriteBody, Server!inbound, Server!reads, Ends, ServerTurn, Request
  <1>6. CASE ServerSends
    BY <1>6 DEF ServerSends, Server!WriteMessageEnd, ServerTurn
  <1>7. CASE ServerFails
    <2>1. spc' \in {"process", "over"} /\ smode' \in {"NONE", "BROKEN"}
      BY <1>7 DEF ServerFails, Server!WriteMessageEndMarshalFails,
         Server!WriteMessageEndTransportFails, Server!ReadMessageBeginBadHeader,
         Server!ReadMessageBeginDemarshalFails, Server!ReadMessageBeginParseError,
         Server!ReadMessageBeginEndOfFile, Server!AtWholeDocument, Server!MustBeNone,
         Server!ModeWhileEnding
    <2> QED
      BY <2>1 DEF ServerTurn
  <1>8. CASE ClientActs \/ LinkActs \/ UNCHANGED vars
    <2>1. UNCHANGED <<smode, spos, sgot, spc>>
      BY <1>8, ServerStill
    <2>2. spos \in Nat /\ spos <= Len(sarrived)
      BY ServerTypes DEF Ends
    <2>3. spc \in {"read", "handle", "answer"} => sarrived'[spos] = sarrived[spos]
      <3>1. spc \in {"read", "handle", "answer"} => spos \in 1 .. Len(sarrived)
        BY <2>2, RequestRead
      <3> QED
        BY <3>1, ArrivedStep DEF Ends
    <2> QED
      BY <2>1, <2>3 DEF Ends, ServerTurn, Request, EndsWithStop, Last
  <1> QED
    BY <1>1, <1>2, <1>3, <1>4, <1>5, <1>6, <1>7, <1>8, WhoActs DEF ServerGoesOn

(* A step of the server that is not one of those of its handler moves it on *)
(* in the stream, or leaves it there.                                       *)
LEMMA ServerMovesOn ==
  ASSUME SP!TypeOK, ServerGoesOn
  PROVE  /\ spos' >= spos /\ spos' \in Nat
         /\ spos' # spos => spc = "process" /\ spc' \in {"process", "read", "over"}
  <1>1. spos \in Nat /\ Len(sarrived) \in Nat /\ spos <= Len(sarrived)
    BY ServerTypes
  <1>2. CASE Run \/ RunFails
    BY <1>1, <1>2 DEF Run, RunFails, Answer, sobject, Server!WriteMessageBegin, Server!inbound
  <1>3. CASE ServerReceives
    BY <1>1, <1>3 DEF ServerReceives, Server!ReadMessageBegin, Server!ConsumeDocument
  <1>4. CASE ServerReads \/ ServerReadsEnd \/ ServerWrites \/ ServerSends
    BY <1>1, <1>4 DEF ServerReads, ServerReadsEnd, ServerWrites, ServerSends, Server!ReadBody,
       Server!ReadMessageEnd, Server!WriteBody, Server!WriteMessageEnd, Server!inbound
  <1>5. CASE ServerFails /\ spc = "answer"
    BY <1>1, <1>5 DEF ServerFails, Server!WriteMessageEndMarshalFails,
       Server!WriteMessageEndTransportFails, Server!inbound
  <1>6. CASE ServerFails /\ spc # "answer"
    <2>1. spc = "process" /\ spc' \in {"process", "over"}
      BY <1>6 DEF ServerFails
    <2>2. CASE Server!ReadMessageBeginBadHeader \/ Server!ReadMessageBeginDemarshalFails
      BY <1>1, <2>1, <2>2 DEF Server!ReadMessageBeginBadHeader, Server!ReadMessageBeginDemarshalFails,
         Server!ConsumeDocument
    <2>3. CASE Server!ReadMessageBeginParseError
      BY <1>1, <2>1, <2>3 DEF Server!ReadMessageBeginParseError
    <2>4. CASE Server!ReadMessageBeginEndOfFile
      BY <1>1, <2>1, <2>4 DEF Server!ReadMessageBeginEndOfFile
    <2> QED
      BY <1>6, <2>2, <2>3, <2>4 DEF ServerFails
  <1> QED
    BY <1>2, <1>3, <1>4, <1>5, <1>6 DEF ServerGoesOn

LEMMA RunsStep ==
  ASSUME Ends, [Next]_vars
  PROVE  Runs'
  <1>0. /\ Len(ran) \in Nat /\ spos \in Nat /\ ran \in Seq([call : Nat, answer : Answers])
        /\ \A i \in 1 .. Len(ran) : ran[i].call \in Nat
    BY DriverTypes, ServerTypes DEF Ends, DriversOK
  <1>1. CASE Run
    <2>1. PICK a : ran' = Append(ran, [call |-> spos, answer |-> a])
      BY <1>1, RunIsServed
    <2>2. spc = "handle" /\ spc' \in {"process", "answer"} /\ spos' = spos
      BY <1>1, ServerHandles
    <2> QED
      BY <1>0, <2>1, <2>2, GrownByOne DEF Ends, Runs
  <1>2. CASE ran' = ran /\ ServerGoesOn
    <2>1. spos' >= spos /\ spos' \in Nat
          /\ (spos' # spos => spc = "process" /\ spc' \in {"process", "read", "over"})
      BY <1>2, ServerMovesOn DEF Ends
    <2>2. spos' = spos /\ spc' \in {"read", "handle"} => spc \in {"read", "handle"}
      <3>1. CASE ServerReceives
        BY <1>0, <3>1, ServerReceivesOne
      <3>2. CASE Run \/ RunFails
        BY <3>2, ServerHandles
      <3>3. CASE ServerReads \/ ServerReadsEnd \/ ServerWrites \/ ServerSends \/ ServerFails
        BY <3>3 DEF ServerReads, ServerReadsEnd, ServerWrites, ServerSends, ServerFails
      <3> QED
        BY <1>2, <3>1, <3>2, <3>3 DEF ServerGoesOn
    <2>3. ASSUME NEW i \in 1 .. Len(ran)
          PROVE  ran[i].call <= spos' /\ (spc' \in {"read", "handle"} => ran[i].call < spos')
      <3>1. /\ ran[i].call \in Nat /\ ran[i].call <= spos
            /\ (spc \in {"read", "handle"} => ran[i].call < spos)
        BY <1>0 DEF Ends, Runs
      <3>2. CASE spos' = spos
        BY <1>0, <2>1, <2>2, <3>1, <3>2
      <3>3. CASE spos' # spos
        BY <1>0, <2>1, <3>1, <3>3
      <3> QED
        BY <3>2, <3>3
    <2> QED
      BY <1>2, <2>3 DEF Runs
  <1>3. CASE ClientActs \/ LinkActs \/ UNCHANGED vars
    BY <1>3, ServerStill DEF Ends, Runs
  <1> QED
    BY <1>1, <1>2, <1>3, RanStep, WhoActs DEF Ends

LEMMA RunForStep ==
  ASSUME DriversOK, [Next]_vars, NEW n, NEW pieces, RunFor(n, pieces)
  PROVE  \E i \in 1 .. Len(ran') : ran'[i] = [call |-> n, answer |-> pieces]
  BY RanStep, DriverTypes DEF RunFor

LEMMA MayAnswerStep ==
  ASSUME DriversOK, [Next]_vars, NEW n, NEW type, NEW pieces, MayAnswer(n, type, pieces)
  PROVE  \/ type = "reply" /\ \E i \in 1 .. Len(ran') : ran'[i] = [call |-> n, answer |-> pieces]
         \/ failed' /\ type = "exception" /\ pieces = <<>>
         \/ failed' /\ type = "reply" /\ pieces \in {<<Unconvertible>>, <<RawString>>}
  <1>1. failed => failed'
    <2>1. CASE ServerGoesOn
      BY <2>1 DEF ServerGoesOn, Run, RunFails, ServerReceives, ServerReads, ServerReadsEnd,
         ServerWrites, ServerSends, ServerFails, sdriver
    <2> QED
      BY <2>1, ServerStill, WhoActs
  <1> QED
    BY <1>1, RunForStep DEF MayAnswer

LEMMA ServerWritingStep ==
  ASSUME Ends, [Next]_vars
  PROVE  ServerWriting'
  <1>0. ASSUME spc \in {"read", "handle", "answer"}
        PROVE  made'[spos] = made[spos]
    BY <1>0, RequestRead, MadeStep DEF Ends
  <1>1. CASE Run \/ RunFails
    <2>0. spc = "handle" /\ spos' = spos /\ made'[spos] = made[spos]
      BY <1>0, <1>1, ServerHandles
    <2>1. CASE IsOneway(made[spos])
      BY <1>1, <2>1, ServerHandles DEF ServerWriting
    <2>2. CASE ~IsOneway(made[spos])
      <3>1. PICK type \in {"reply", "exception"}, pieces \in {<<>>} \union {<<v>> : v \in Carried} :
              /\ Answer(Request, type, pieces)
              /\ \/ Run /\ type = "reply" /\ ran' = Append(ran, [call |-> spos, answer |-> pieces])
                 \/ RunFails /\ failed' /\ type = "exception" /\ pieces = <<>>
                 \/ RunFails /\ failed' /\ type = "reply" /\ pieces \in {<<Unconvertible>>, <<RawString>>}
        BY <1>1, ServerHandles
      <3>2. /\ spc' = "answer" /\ sbuffer' = <<>> /\ sname' = made[spos].op /\ sseqid' = 0
        BY <1>1, <2>2, ServerHandles
      <3>3. Request.name \notin OnewayCalls
        BY <2>0, <2>2, RequestRead DEF IsOneway
      <3>4. stype' = type /\ stodo' = Whole(pieces)
        BY <3>1, <3>3 DEF Answer, Server!WriteMessageBegin, Whole
      <3>5. <<>> \o Whole(pieces) = Whole(pieces)
        <4>1. Whole(pieces) \in Seq(SessionPieces)
          BY WholeEndsThere, AnswersCarried
        <4> QED
          BY <4>1, ConcatEmptySeq
      <3>6. \/ type = "reply" /\ \E i \in 1 .. Len(ran') : ran'[i] = [call |-> spos, answer |-> pieces]
            \/ failed' /\ type = "exception" /\ pieces = <<>>
            \/ failed' /\ type = "reply" /\ pieces \in {<<Unconvertible>>, <<RawString>>}
        <4>1. CASE ran' = Append(ran, [call |-> spos, answer |-> pieces]) /\ type = "reply"
          <5>1. Len(ran) + 1 \in 1 .. Len(ran') /\ ran'[Len(ran) + 1] = [call |-> spos, answer |-> pieces]
            BY <4>1, GrownByOne DEF Ends, DriversOK
          <5> QED
            BY <4>1, <5>1
        <4> QED
          BY <3>1, <4>1
      <3> QED
        BY <2>0, <2>2, <3>2, <3>4, <3>5, <3>6
           DEF ServerWriting, MayAnswer, RunFor, IsOneway, Whole, Carried
    <2> QED
      BY <2>1, <2>2
  <1>2. CASE ServerWrites
    <2>1. /\ spc = "answer" /\ stodo # <<>> /\ sbuffer' = Append(sbuffer, Head(stodo))
          /\ stodo' = Tail(stodo) /\ UNCHANGED <<sname, stype, sseqid, spos>>
      BY <1>2 DEF ServerWrites, Server!WriteBody, Server!header, Server!inbound
    <2>2. /\ stodo \in Seq(SP!Pieces \union SessionPieces)
          /\ sbuffer \in Seq(SP!Pieces \union SessionPieces)
      <3>1. stodo \in Seq(SessionPieces) /\ sbuffer \in Seq(SP!Pieces)
        BY <2>1, ServerTypes DEF Ends, DriversOK, ServerTurn
      <3> HIDE DEF SessionPieces
      <3> QED
        BY <3>1, SeqMonotonic
    <2>3. sbuffer' \o stodo' = sbuffer \o stodo
      BY <2>1, <2>2, MoveOne
    <2>4. PICK pieces \in {<<>>} \union {<<v>> : v \in Carried} :
            MayAnswer(spos, stype, pieces) /\ sbuffer \o stodo = Whole(pieces)
      BY <2>1 DEF Ends, ServerWriting
    <2>5. \/ stype = "reply" /\ \E i \in 1 .. Len(ran') : ran'[i] = [call |-> spos, answer |-> pieces]
          \/ failed' /\ stype = "exception" /\ pieces = <<>>
          \/ failed' /\ stype = "reply" /\ pieces \in {<<Unconvertible>>, <<RawString>>}
      BY <2>4, MayAnswerStep DEF Ends
    <2> QED
      BY <1>0, <2>1, <2>3, <2>4, <2>5
         DEF Ends, ServerWriting, MayAnswer, RunFor, IsOneway, Whole, Carried
  <1>3. CASE ServerReceives \/ ServerReads \/ ServerReadsEnd \/ ServerSends \/ ServerFails
    <2>1. spc' # "answer"
      BY <1>3 DEF ServerReceives, ServerReads, ServerReadsEnd, ServerSends, ServerFails, sdriver
    <2> QED
      BY <2>1 DEF ServerWriting
  <1>4. CASE ClientActs \/ LinkActs \/ UNCHANGED vars
    <2>1. UNCHANGED <<sname, stype, sseqid, sbuffer, spos, spc, stodo, ran, failed>>
      BY <1>4, ServerStill
    <2> QED
      BY <1>0, <2>1 DEF Ends, ServerWriting, MayAnswer, RunFor, IsOneway, Whole, Carried
  <1> QED
    BY <1>1, <1>2, <1>3, <1>4, WhoActs DEF ServerGoesOn

LEMMA EndsInductive == Ends /\ [Next]_vars => Ends'
  <1> SUFFICES ASSUME Ends, [Next]_vars PROVE Ends'
    OBVIOUS
  <1>1. CP!TypeOK' /\ CP!RecvInv' /\ SP!TypeOK' /\ SP!RecvInv'
    BY EndsStep, ObjectsStep DEF Ends
  <1> QED
    BY <1>1, DriversStep, StreamsStep, ClientTurnStep, ClientWritingStep, SentStep, RequestedStep,
       RepliedStep, ServerTurnStep, RunsStep, ServerWritingStep DEF Ends

LEMMA EndsInit == Init => Ends
  <1> SUFFICES ASSUME Init PROVE Ends
    OBVIOUS
  <1>1. CP!TypeOK /\ SP!TypeOK
    BY ObjectsBegin, ClientConstants, ServerConstants, CP!TypeInit, SP!TypeInit
  <1>2. Len(<<>>) = 0 /\ \A S : <<>> \in Seq(S)
    BY EmptySeq
  <1>3. /\ cout = <<>> /\ carrived = <<>> /\ cgot = <<>> /\ cmode = "NONE"
        /\ sout = <<>> /\ sarrived = <<>> /\ sgot = <<>> /\ smode = "NONE"
    BY DEF Init, Client!Init, Server!Init
  <1>4. CP!RecvInv /\ SP!RecvInv
    BY <1>2, <1>3 DEF CP!RecvInv, SP!RecvInv, CP!ReceivedAsSent, SP!ReceivedAsSent,
       CP!HeldIsUnread, SP!HeldIsUnread
  <1>5. DriversOK
    <2>1. DOMAIN log = {}
      BY DEF Init, EmptyLog
    <2>2. LogFits(log)
      BY <2>1 DEF LogFits
    <2> QED
      BY <1>2, <2>2 DEF Init, DriversOK
  <1>6. StreamsOK /\ Sent /\ Requested /\ Replied
    BY <1>2, <1>3 DEF StreamsOK, Sent, Requested, Replied
  <1>7. ClientTurn /\ ClientWriting
    BY <1>2, <1>3 DEF Init, ClientTurn, ClientWriting
  <1>8. ServerTurn /\ Runs /\ ServerWriting
    BY <1>2, <1>3 DEF Init, ServerTurn, Runs, ServerWriting
  <1> QED
    BY <1>1, <1>4, <1>5, <1>6, <1>7, <1>8 DEF Ends

LEMMA EndsAlways == Spec => []Ends
  <1>1. Init => Ends
    BY EndsInit
  <1>2. Ends /\ [Next]_vars => Ends'
    BY EndsInductive
  <1> QED
    BY <1>1, <1>2, PTL DEF Spec

(* Both ends of every session use their objects as the code of the object   *)
(* lets them be used, and each gets only documents the model of the object  *)
(* expects of a peer: every theorem of NiceJSONProtocol_proofs holds of     *)
(* both.                                                                    *)
THEOREM BothEndsAreProtocolObjects == Spec => EndsAreProtocolObjects
  <1>1. Init => Client!Init /\ Server!Init
    BY DEF Init
  <1>2. Ends /\ [Next]_vars => [Client!Next]_(Client!vars) /\ [Server!Next]_(Server!vars)
    BY EndsStep
  <1> QED
    BY <1>1, <1>2, EndsAlways, PTL DEF Spec, EndsAreProtocolObjects, Client!Spec, Server!Spec

(* In every reachable state the drivers are where their objects are, a      *)
(* request that is handled was made, and at most one call is open.          *)
THEOREM DriversFollowTheirObjects == Spec => []TypeOK
  <1>1. Ends => TypeOK
    <2> SUFFICES ASSUME Ends PROVE TypeOK
      OBVIOUS
    <2>1. spc = "handle" => Last(sgot).at \in 1 .. Len(made)
      BY RequestRead DEF Request, Last
    <2>2. Len(returned) \in {Len(made) - 1, Len(made)}
      BY DEF Ends, DriversOK, ClientTurn
    <2> QED
      BY <2>1, <2>2 DEF Ends, DriversOK, ClientTurn, ServerTurn, TypeOK
  <1> QED
    BY <1>1, EndsAlways, PTL
-----------------------------------------------------------------------------
(* The calls of the session: an answer comes to the call it answers.        *)

LEMMA ClientReceivesOne ==
  ASSUME Ends, Owed, ClientReceives
  PROVE  /\ cpc = "receive" /\ cpc' = "read" /\ carrived' = carrived /\ sout' = sout
         /\ cpos = Len(sout) - 1 /\ cpos' = Len(sout) /\ Len(sout) \in 1 .. Len(sout)
         /\ AnswersCall(sout[Len(sout)], Len(made))
         /\ cgot' # <<>> /\ Received'.at = cpos' /\ Received'.type = ctype'
         /\ carrived[cpos + 1].flaw = "none" /\ cpos + 1 \in 1 .. Len(carrived)
         /\ cmid' = cmid
         /\ UNCHANGED <<made, returned, cout>>
  <1>1. /\ cpc = "receive" /\ cpc' = "read" /\ carrived' = carrived /\ cmid' = cmid
        /\ cpos < Len(carrived) /\ cpos' = cpos + 1
        /\ carrived[cpos + 1].flaw \notin {"truncated", "syntax"}
        /\ UNCHANGED <<made, returned, cout>>
    BY DEF ClientReceives, Client!ReadMessageBegin, Client!AtWholeDocument, Client!ConsumeDocument,
       Client!Arriving, Client!Unterminated, Client!writes
  <1>2. sout' = sout
    BY ClientActsFrame DEF ClientActs, ClientGoesOn, ByClient, sobject
  <1>3. /\ cpos \in Nat /\ cpos + 1 \in 1 .. Len(carrived) /\ cpos + 1 \in 1 .. Len(sout)
        /\ Len(sout) \in Nat
    BY <1>1, ServerTypes, ClientTypes DEF Ends, Replied
  <1>4. /\ cpos = Len(sout) - 1 /\ cpos' = Len(sout) /\ Len(sout) \in 1 .. Len(sout)
        /\ AnswersCall(sout[Len(sout)], Len(made))
    BY <1>1, <1>3 DEF Owed
  <1>5. carrived[cpos + 1].flaw = "none"
    <2>1. sout[cpos + 1].flaw \in {"none", "syntax", "truncated"} /\ sout[cpos + 1] \in SP!Document
      BY <1>3, ReplyType, ServerTypes, ElementOfSeq DEF Ends, StreamsOK
    <2> QED
      BY <1>1, <1>3, <2>1, CutDocument DEF Ends, Replied
  <1>6. PICK r : cgot' = Append(cgot, r) /\ r.at = cpos + 1 /\ r.type = ctype'
    BY DEF ClientReceives, Client!ReadMessageBegin
  <1>7. cgot' # <<>> /\ cgot'[Len(cgot')] = r
    <2>1. Len(cgot') = Len(cgot) + 1 /\ Len(cgot) \in Nat /\ cgot'[Len(cgot) + 1] = r
      BY <1>6, GrownByOne, ClientTypes DEF Ends
    <2> QED
      BY <2>1, EmptySeq
  <1> QED
    BY <1>1, <1>2, <1>3, <1>4, <1>5, <1>6, <1>7 DEF Received

(* As long as no other call is made, an answer stays the answer to its call.*)
LEMMA AnswersCallStep ==
  ASSUME DriversOK, [Next]_vars, made' = made, NEW d, AnswersCall(d, Len(made))
  PROVE  /\ d.name = made'[Len(made')].op
         /\ d.type = "reply" /\ d.flaw = "none" =>
              \E i \in 1 .. Len(ran') : ran'[i] = [call |-> Len(made'), answer |-> d.body]
  BY RunForStep DEF AnswersCall

LEMMA ClientReadingStep ==
  ASSUME Ends, ClientReading, Owed, [Next]_vars
  PROVE  ClientReading'
  <1>1. CASE ClientReceives
    <2>1. made' = made /\ [Next]_vars /\ AnswersCall(sout[Len(sout)], Len(made))
      BY <1>1, ClientReceivesOne
    <2>2. /\ sout[Len(sout)].name = made'[Len(made')].op
          /\ sout[Len(sout)].type = "reply" /\ sout[Len(sout)].flaw = "none" =>
               \E i \in 1 .. Len(ran') : ran'[i] = [call |-> Len(made'), answer |-> sout[Len(sout)].body]
      BY <2>1, AnswersCallStep DEF Ends
    <2>3. cpos' = Len(sout) /\ sout' = sout /\ carrived'[cpos'].flaw = "none"
          /\ cgot' # <<>> /\ Received'.at = cpos' /\ Received'.type = ctype'
      <3>1. cpos' = cpos + 1
        BY <1>1 DEF ClientReceives, Client!ReadMessageBegin, Client!ConsumeDocument
      <3> QED
        BY <1>1, <3>1, ClientReceivesOne
    <2> QED
      BY <2>2, <2>3 DEF ClientReading, AnswersCall, RunFor
  <1>2. CASE cpc = "read" /\ (ClientReads \/ ServerGoesOn \/ LinkActs \/ UNCHANGED vars)
    <2>1. /\ cpos \in 1 .. Len(sout) /\ cgot # <<>> /\ Received.at = cpos /\ Received.type = ctype
          /\ carrived[cpos].flaw = "none" /\ AnswersCall(sout[cpos], Len(made))
          /\ cpos \in 1 .. Len(carrived)
      <3>1. cpos \in 1 .. Len(sout)
        BY <1>2, ReplyRead
      <3> QED
        BY <1>2, <3>1, ClientTypes DEF Ends, ClientReading
    <2>2. UNCHANGED <<made, cpos, ctype>> /\ cgot' # <<>>
          /\ Received'.at = Received.at /\ Received'.type = Received.type
      <3>1. CASE ClientReads
        BY <2>1, <3>1, ClientReadKeeps DEF ClientReads, Client!ReadBody, Client!inbound, Client!header, Ends
      <3>2. CASE ServerGoesOn \/ LinkActs \/ UNCHANGED vars
        BY <2>1, <3>2, ClientStill DEF Received
      <3> QED
        BY <1>2, <3>1, <3>2
    <2>3. sout'[cpos] = sout[cpos]
      <3>1. ASSUME NEW d, sout' = Append(sout, d) PROVE sout'[cpos] = sout[cpos]
        BY <2>1, <3>1, GrownByOne, ServerTypes DEF Ends
      <3> QED
        BY <3>1, SoutStep
    <2>4. carrived'[cpos] = carrived[cpos]
      BY <2>1, ArrivedStep DEF Ends
    <2>5. /\ sout[cpos].name = made'[Len(made')].op
          /\ sout[cpos].type = "reply" /\ sout[cpos].flaw = "none" =>
               \E i \in 1 .. Len(ran') : ran'[i] = [call |-> Len(made'), answer |-> sout[cpos].body]
      BY <2>1, <2>2, AnswersCallStep DEF Ends
    <2> QED
      BY <2>1, <2>2, <2>3, <2>4, <2>5 DEF ClientReading, AnswersCall, RunFor
  <1>3. CASE cpc # "read" /\ (ClientReads \/ ServerGoesOn \/ LinkActs \/ UNCHANGED vars)
    BY <1>3, ClientStill DEF ClientReads, ClientReading
  <1>4. ASSUME NEW call \in Calls, Invoke(call) PROVE ClientReading'
    BY <1>4 DEF Invoke, ClientReading
  <1>5. CASE Quit \/ ClientWrites \/ ClientSends \/ ClientReturns \/ ClientFails
    BY <1>5 DEF Quit, ClientWrites, ClientSends, ClientReturns, ClientFails, Return, ClientReading
  <1> QED
    BY <1>1, <1>2, <1>3, <1>4, <1>5, WhoActs DEF ClientActs, ClientGoesOn

(* What the server sends answers the request it has read last.              *)
LEMMA SentIsAnswer ==
  ASSUME NEW n, NEW type, NEW pieces, NEW d \in Replies, MayAnswer(n, type, pieces),
         LET whole == Server!Dumped(made[n].op, type, 0, pieces)
         IN  d = whole \/ d = Server!Truncation(whole)
  PROVE  AnswersCall(d, n)
  <1> DEFINE whole == Server!Dumped(made[n].op, type, 0, pieces)
  <1>1. /\ whole.name = made[n].op /\ whole.type = type /\ whole.body = pieces
        /\ Server!Truncation(whole).name = whole.name /\ Server!Truncation(whole).type = whole.type
        /\ Server!Truncation(whole).body = whole.body
        /\ Server!Truncation(whole).flaw = "truncated"
    <2>1. PICK flaw : whole = Dumped(made[n].op, type, pieces, flaw)
      BY DEF Server!Dumped, Dumped
    <2> QED
      BY <2>1 DEF Dumped, Server!Truncation
  <1>2. (\E i \in DOMAIN pieces : pieces[i] = RawString) => whole.flaw = "syntax"
    BY DEF Server!Dumped
  <1>3. d = whole \/ d = Server!Truncation(whole)
    OBVIOUS
  <1> HIDE DEF whole
  <1>4. d.name = made[n].op /\ d.type = type /\ d.body = pieces
    BY <1>1, <1>3
  <1>5. ASSUME d.flaw = "none", type = "reply" PROVE RunFor(n, pieces)
    <2>1. d = whole
      BY <1>1, <1>3, <1>5
    <2>2. \A i \in DOMAIN pieces : pieces[i] # RawString
      BY <1>2, <1>5, <2>1
    <2>3. pieces # <<RawString>>
      BY <2>2, OnePiece
    <2>4. pieces # <<Unconvertible>>
      <3>1. pieces \in {<<>>} \union {<<v>> : v \in Values \union {RawString}}
        BY <1>4, ReplyType
      <3>2. ASSUME pieces = <<Unconvertible>> PROVE FALSE
        <4>1. DOMAIN pieces = {1} /\ pieces[1] = Unconvertible
          BY <3>2, OnePiece
        <4>2. pieces # <<>>
          BY <4>1
        <4>3. PICK v \in Values \union {RawString} : pieces = <<v>>
          BY <3>1, <4>2
        <4>4. v = Unconvertible
          BY <4>1, <4>3, OnePiece
        <4> QED
          BY <4>4, NamesAssumption
      <3> QED
        BY <3>2
    <2> QED
      BY <1>5, <2>3, <2>4 DEF MayAnswer
  <1> QED
    BY <1>4, <1>5 DEF AnswersCall

(* The server only ever gets done with requests.                            *)
LEMMA PendingStep ==
  ASSUME Ends, ServerGoesOn, NEW i \in Int,
         i > spos' \/ (i = spos' /\ spc' \in {"read", "handle", "answer"})
  PROVE  Pending(i)
  <1>1. spos \in Nat /\ spos' \in Nat /\ spos' >= spos
    BY ServerTypes, ServerMovesOn DEF Ends
  <1>2. CASE ServerReceives
    BY <1>1, <1>2, ServerReceivesOne DEF Pending
  <1>3. CASE Run \/ RunFails
    BY <1>3, ServerHandles DEF Pending
  <1>4. CASE ServerReads \/ ServerReadsEnd \/ ServerWrites
    <2>1. spc \in {"read", "handle", "answer"} /\ spos' = spos
      BY <1>4 DEF ServerReads, ServerReadsEnd, ServerWrites, Server!ReadBody, Server!ReadMessageEnd,
         Server!WriteBody, Server!inbound
    <2> QED
      BY <1>1, <2>1 DEF Pending
  <1>5. CASE ServerSends \/ ServerFails
    <2>1. spc' \in {"process", "over"}
      BY <1>5 DEF ServerSends, ServerFails
    <2> QED
      BY <1>1, <2>1 DEF Pending
  <1> QED
    BY <1>2, <1>3, <1>4, <1>5 DEF ServerGoesOn

LEMMA OwedServerStep ==
  ASSUME Ends, Owed, ServerGoesOn, Next, cpc # "over"
  PROVE  Owed'
  <1>0. /\ UNCHANGED <<cpos, cout, cpc, made>>
        /\ cpos \in Nat /\ Len(sout) \in Nat /\ spos \in Nat /\ Len(cout) \in Nat /\ Len(made) \in Nat
        /\ Len(cout) <= Len(made)
    BY ClientStill, ClientTypes, ServerTypes, DriverTypes DEF Ends, ClientTurn
  <1>1. \A i \in 1 .. Len(cout) :
           i > spos' \/ (i = spos' /\ spc' \in {"read", "handle", "answer"}) => Pending(i)
    BY PendingStep
  <1>2. CASE sout' = sout
    <2>1. ASSUME cpc = "receive", AnswersCall(sout[Len(sout)], Len(made))
          PROVE  /\ sout[Len(sout)].name = made'[Len(made')].op
                 /\ sout[Len(sout)].type = "reply" /\ sout[Len(sout)].flaw = "none" =>
                      \E i \in 1 .. Len(ran') :
                         ran'[i] = [call |-> Len(made'), answer |-> sout[Len(sout)].body]
      BY <1>0, <2>1, AnswersCallStep DEF Ends
    <2>2. \/ cpos' = Len(sout')
          \/ cpc' = "receive" /\ cpos' = Len(sout') - 1 /\ AnswersCall(sout[Len(sout)], Len(made))
      BY <1>0, <1>2 DEF Owed
    <2>3. \A i \in 1 .. Len(cout') :
            i > spos' \/ (i = spos' /\ spc' \in {"read", "handle", "answer"}) =>
              IsOneway(made'[i]) \/ (cpc' = "receive" /\ i = Len(made') /\ cpos' = Len(sout'))
      BY <1>0, <1>1, <1>2 DEF Owed, IsOneway
    <2> QED
      BY <1>0, <1>2, <2>1, <2>2, <2>3 DEF Owed, Pending, AnswersCall, RunFor, IsOneway
  <1>3. CASE sout' # sout
    <2>1. PICK type, d, pieces :
            /\ MayAnswer(spos, type, pieces)
            /\ LET whole == Server!Dumped(made[spos].op, type, 0, pieces)
               IN  d = whole \/ (d = Server!Truncation(whole) /\ CanBeLost(cpc))
            /\ sout' = Append(sout, d) /\ d \in Replies
      BY <1>3, SoutStep
    <2>2. spc = "answer" /\ spc' \in {"process", "over"} /\ spos' = spos
      BY <1>3, SoutStep
    <2>3. Len(sout') = Len(sout) + 1 /\ sout'[Len(sout')] = d
      <3>1. sout \in Seq(SP!Document)
        BY ServerTypes DEF Ends
      <3> QED
        BY <2>1, <3>1, GrownByOne
    <2>4. spos \in 1 .. Len(cout) /\ Pending(spos) /\ ~IsOneway(made[spos])
      BY <2>2, RequestRead DEF Pending, Ends, ServerWriting
    <2>5. cpc = "receive" /\ spos = Len(made) /\ cpos = Len(sout)
      BY <2>4 DEF Owed
    <2>6. AnswersCall(d, Len(made))
      BY <2>1, <2>5, SentIsAnswer
    <2>7. /\ d.name = made'[Len(made')].op
          /\ d.type = "reply" /\ d.flaw = "none" =>
               \E i \in 1 .. Len(ran') : ran'[i] = [call |-> Len(made'), answer |-> d.body]
      BY <1>0, <2>6, AnswersCallStep DEF Ends
    <2>8. cpc' = "receive" /\ cpos' = Len(sout') - 1
      BY <1>0, <2>3, <2>5
    <2>9. \A i \in 1 .. Len(cout') : ~(i > spos') /\ (i = spos' => spc' \notin {"read", "handle", "answer"})
      BY <1>0, <2>2, <2>5
    <2> QED
      BY <2>3, <2>7, <2>8, <2>9 DEF Owed, Pending, AnswersCall, RunFor, IsOneway
  <1> QED
    BY <1>2, <1>3

LEMMA OwedClientStep ==
  ASSUME Ends, Owed, ClientActs, Next, cpc' # "over"
  PROVE  Owed'
  <1>0. /\ UNCHANGED <<spos, sout, spc, ran>>
        /\ cpos \in Nat /\ Len(sout) \in Nat /\ spos \in Nat /\ Len(cout) \in Nat /\ Len(made) \in Nat
        /\ cout \in Seq(CP!Document) /\ made \in Seq(Calls)
    BY ServerStill, ClientTypes, ServerTypes, DriverTypes DEF Ends, DriversOK
  <1>1. \A i \in 1 .. Len(made) : made'[i] = made[i]
    BY MadeStep DEF Ends
  <1>2. ASSUME cpos' = Len(sout), Len(cout') <= Len(made),
               \A i \in 1 .. Len(cout') :
                  Pending(i) => IsOneway(made[i]) \/ (cpc' = "receive" /\ i = Len(made) /\ made' = made)
        PROVE  Owed'
    <2>1. \A i \in 1 .. Len(cout') : i \in 1 .. Len(made)
      BY <1>0, <1>2, MadeStep, CoutStep, LenProperties
    <2>2. \A i \in 1 .. Len(cout') :
            i > spos' \/ (i = spos' /\ spc' \in {"read", "handle", "answer"}) =>
              IsOneway(made'[i]) \/ (cpc' = "receive" /\ i = Len(made') /\ cpos' = Len(sout'))
      BY <1>0, <1>1, <1>2, <2>1 DEF Pending, IsOneway
    <2> QED
      BY <1>0, <1>2, <2>2 DEF Owed, Pending, AnswersCall, RunFor, IsOneway
  <1>3. ASSUME cpc \in {"idle", "send", "read"}
        PROVE  /\ cpos = Len(sout)
               /\ \A i \in 1 .. Len(cout) : Pending(i) => IsOneway(made[i])
               /\ Len(cout) <= Len(made)
    BY <1>3 DEF Owed, Ends, ClientTurn
  <1>4. ASSUME NEW call \in Calls, Invoke(call) PROVE Owed'
    <2>1. cpc = "idle" /\ cpc' = "send" /\ cpos' = cpos /\ cout' = cout
      BY <1>4 DEF Invoke, Client!WriteMessageBegin, Client!inbound
    <2> QED
      BY <1>2, <1>3, <2>1
  <1>5. CASE ClientWrites
    <2>1. cpc = "send" /\ cpc' = "send" /\ cpos' = cpos /\ cout' = cout
      BY <1>5 DEF ClientWrites, Client!WriteBody, Client!inbound
    <2> QED
      BY <1>2, <1>3, <2>1
  <1>6. CASE ClientSends
    <2>1. /\ cpc = "send" /\ cpc' = (IF IsOneway(Last(made)) THEN "idle" ELSE "receive")
          /\ cpos' = cpos /\ made' = made
      BY <1>6 DEF ClientSends, Client!WriteMessageEnd, Client!inbound, Return
    <2>2. PICK d : cout' = Append(cout, d)
      BY <1>6 DEF ClientSends, Client!WriteMessageEnd
    <2>3. Len(cout') = Len(made) /\ Len(cout) = Len(made) - 1
      BY <1>0, <2>1, <2>2, GrownByOne DEF Ends, ClientTurn
    <2>4. \A i \in 1 .. Len(cout') : i \in 1 .. Len(cout) \/ i = Len(made)
      BY <1>0, <2>3
    <2>5. cpc' # "receive" => IsOneway(made[Len(made)])
      BY <2>1 DEF Last
    <2> QED
      BY <1>0, <1>2, <1>3, <2>1, <2>3, <2>4, <2>5
  <1>7. CASE ClientReceives
    <2>1. /\ cpc' = "read" /\ cpos' = Len(sout) /\ cpos = Len(sout) - 1 /\ cout' = cout
          /\ cpc = "receive"
      BY <1>7, ClientReceivesOne
    <2>2. \A i \in 1 .. Len(cout) : Pending(i) => IsOneway(made[i])
      BY <1>0, <2>1 DEF Owed
    <2> QED
      BY <1>0, <1>2, <2>1, <2>2 DEF Ends, ClientTurn
  <1>8. CASE ClientReads \/ ClientReturns
    <2>1. cpc = "read" /\ cpc' # "receive" /\ cpos' = cpos /\ cout' = cout
      BY <1>8 DEF ClientReads, ClientReturns, Return, Client!ReadBody, Client!ReadMessageEnd,
         Client!inbound, Client!writes
    <2> QED
      BY <1>2, <1>3, <2>1
  <1>9. CASE ClientFails \/ Quit
    BY <1>9 DEF ClientFails, Quit, Return
  <1> QED
    BY <1>4, <1>5, <1>6, <1>7, <1>8, <1>9 DEF ClientActs, ClientGoesOn

LEMMA OwedStep ==
  ASSUME Ends, Owed, [Next]_vars
  PROVE  Owed'
  <1>1. CASE cpc' = "over"
    BY <1>1 DEF Owed
  <1>2. CASE cpc' # "over" /\ ClientActs /\ Next
    BY <1>2, OwedClientStep
  <1>3. CASE cpc' # "over" /\ ServerGoesOn /\ Next
    BY <1>3, OwedServerStep, ClientStill
  <1>4. CASE cpc' # "over" /\ (LinkActs \/ UNCHANGED vars)
    BY <1>4, ClientStill, ServerStill DEF Owed, Pending, AnswersCall, RunFor, IsOneway
  <1> QED
    BY <1>1, <1>2, <1>3, <1>4, WhoActs

InOrder == Ends /\ ClientReading /\ Owed

LEMMA InOrderAlways == Spec => []InOrder
  <1>1. Init => InOrder
    <2> SUFFICES ASSUME Init PROVE ClientReading /\ Owed
      BY EndsInit DEF InOrder
    <2>1. Len(<<>>) = 0 /\ cpos = 0 /\ cout = <<>> /\ sout = <<>> /\ cpc = "idle"
      BY EmptySeq DEF Init, Client!Init, Server!Init
    <2> QED
      BY <2>1 DEF ClientReading, Owed
  <1>2. InOrder /\ [Next]_vars => InOrder'
    BY EndsInductive, ClientReadingStep, OwedStep DEF InOrder
  <1> QED
    BY <1>1, <1>2, PTL DEF Spec

(* Until the client has given up, at most one answer is on its way or       *)
(* unread, and it is of the operation the client waits for: no answer is    *)
(* ever taken for that of a later call, although nobody compares seqids.    *)
THEOREM AnswersFindTheirCalls == Spec => []InStep
  <1>1. InOrder => InStep
    <2> SUFFICES ASSUME InOrder, cpc # "over" PROVE InStep
      BY DEF InStep
    <2> DEFINE unread == SubSeq(sout, cpos + 1, Len(sout))
    <2>1. /\ cpos \in Nat /\ Len(sout) \in Nat
          /\ \A i \in 1 .. Len(sout) : sout[i] \in SP!Document
      BY ClientTypes, ServerTypes, ElementOfSeq DEF InOrder, Ends
    <2>2. CASE cpos = Len(sout)
      <3>1. unread = <<>>
        BY <2>1, <2>2, SubSeqEmpty
      <3> QED
        BY <3>1 DEF InStep
    <2>3. CASE cpc = "receive" /\ cpos = Len(sout) - 1 /\ AnswersCall(sout[Len(sout)], Len(made))
      <3>1. cpos + 1 \in Int /\ Len(sout) \in Int /\ cpos + 1 = Len(sout) /\ Len(sout) \in 1 .. Len(sout)
        BY <2>1, <2>3
      <3>2. \A i \in (cpos + 1) .. Len(sout) : sout[i] \in SP!Document
        BY <2>1, <3>1
      <3>3. /\ Len(unread) = IF cpos + 1 <= Len(sout) THEN Len(sout) - (cpos + 1) + 1 ELSE 0
            /\ \A i \in 1 .. Len(sout) - (cpos + 1) + 1 : unread[i] = sout[cpos + 1 + i - 1]
        BY <3>1, <3>2, SubSeqProperties
      <3>4. Len(unread) = 1 /\ unread[1] = sout[Len(sout)]
        BY <2>1, <3>1, <3>3
      <3> QED
        BY <2>3, <3>4 DEF InStep, AnswersCall, Last
    <2> QED
      BY <2>2, <2>3 DEF InOrder, Owed
  <1> QED
    BY <1>1, InOrderAlways, PTL
-----------------------------------------------------------------------------
(* The session implements CallAndAnswer.                                    *)

LEMMA CallingInit == Init => Calling!Init
  BY DEF Init, Calling!Init

LEMMA CallingStep ==
  ASSUME InOrder, [Next]_vars
  PROVE  [Calling!Next]_(Calling!cavars)
  <1>0. /\ made \in Seq(Calls) /\ Len(made) \in Nat /\ Len(returned) \in Nat /\ Len(ran) \in Nat
        /\ returned \in Seq({NoAnswer, Error} \union Seq(CP!Pieces))
        /\ ran \in Seq([call : Nat, answer : Answers])
    BY DriverTypes DEF InOrder, Ends, DriversOK
  <1>1. ASSUME NEW call \in Calls, Invoke(call) PROVE Calling!Next
    <2>1. Len(returned) = Len(made) /\ made' = Append(made, call) /\ UNCHANGED <<returned, log, ran>>
      BY <1>1 DEF Invoke, ByClient, sdriver, InOrder, Ends, ClientTurn
    <2>2. Calling!Extends(made', made)
      BY <1>0, <2>1, GrownByOne DEF Calling!Extends
    <2> QED
      BY <2>1, <2>2 DEF Calling!Invoke, Calling!Next
  <1>2. ASSUME NEW answer, NEW pc, Return(answer, pc), cpc \in {"send", "receive", "read"},
               Calling!MayReturn(answer)
        PROVE  Calling!Next
    <2>1. /\ Len(returned) = Len(made) - 1 /\ returned' = Append(returned, answer)
          /\ UNCHANGED <<made, log, ran>>
      BY <1>2 DEF Return, ByClient, sdriver, InOrder, Ends, ClientTurn
    <2>2. Len(returned) < Len(made) /\ Len(returned) + 1 = Len(made)
      BY <1>0, <2>1
    <2>3. Calling!Extends(returned', returned) /\ returned'[Len(made)] = answer
      BY <1>0, <2>1, <2>2, GrownByOne DEF Calling!Extends
    <2> QED
      BY <1>2, <2>1, <2>2, <2>3 DEF Calling!Return, Calling!Next
  <1>3. CASE ClientSends
    <2>1. CASE IsOneway(Last(made))
      BY <1>2, <1>3, <2>1 DEF ClientSends, Calling!MayReturn, Last
    <2>2. CASE ~IsOneway(Last(made))
      BY <1>3, <2>2 DEF ClientSends, ByClient, sdriver, Calling!cavars
    <2> QED
      BY <2>1, <2>2
  <1>4. CASE ClientFails
    BY <1>2, <1>4 DEF ClientFails, Calling!MayReturn
  <1>5. CASE ClientReturns
    <2>1. cpc = "read" /\ EndsWithStop(Received.body)
      BY <1>5 DEF ClientReturns, Last, Received
    <2>2. CASE ctype = "reply"
      <3>1. /\ sout[cpos].flaw = "none" /\ sout[cpos].type = "reply"
            /\ Front(Received.body) = sout[cpos].body
        BY <2>1, <2>2, ReplyRead DEF InOrder
      <3>2. RunFor(Len(made), Front(Received.body)) /\ ~IsOneway(made[Len(made)])
        BY <2>1, <3>1 DEF InOrder, ClientReading, AnswersCall, Ends, ClientTurn, Open
      <3>3. Return(Front(Received.body), "idle")
        BY <1>5, <2>2 DEF ClientReturns, Last, Received
      <3> QED
        BY <1>2, <2>1, <3>2, <3>3 DEF RunFor, Calling!MayReturn
    <2>3. CASE ctype # "reply"
      BY <1>2, <1>5, <2>1, <2>3 DEF ClientReturns, Calling!MayReturn
    <2> QED
      BY <2>2, <2>3
  <1>6. CASE Quit \/ ClientWrites \/ ClientReceives \/ ClientReads
    BY <1>6 DEF Quit, ClientWrites, ClientReceives, ClientReads, ByClient, sdriver, Calling!cavars
  <1>7. CASE Run
    <2> DEFINE served == Handle(made[spos].op, made[spos].args, log)
    <2>1. /\ log' = served.log /\ ran' = Append(ran, [call |-> spos, answer |-> served.answer])
          /\ spc = "handle" /\ UNCHANGED <<made, returned>>
      BY <1>7, RunIsServed, ServerActsFrame DEF ServerGoesOn, InOrder, Run, ByServer, cdriver
    <2> HIDE DEF served
    <2>2. Calling!Extends(ran', ran) /\ ran'[Len(ran')] = [call |-> spos, answer |-> served.answer]
      BY <1>0, <2>1, GrownByOne DEF Calling!Extends
    <2>3. \A i \in 1 .. Len(ran) : ran[i].call < spos
      BY <2>1 DEF InOrder, Ends, Runs
    <2>4. spos \in 1 .. Len(made)
      BY <2>1, RequestRead DEF InOrder
    <2>5. Calling!Run(spos)
      BY <2>1, <2>2, <2>3 DEF Calling!Run, served
    <2> QED
      BY <2>4, <2>5 DEF Calling!Next
  <1>8. CASE RunFails \/ ServerReceives \/ ServerReads \/ ServerReadsEnd \/ ServerWrites
             \/ ServerSends \/ ServerFails
    BY <1>8 DEF RunFails, ServerReceives, ServerReads, ServerReadsEnd, ServerWrites, ServerSends,
       ServerFails, ByServer, cdriver, sdriver, Calling!cavars
  <1>9. CASE LinkActs \/ UNCHANGED vars
    BY <1>9, ClientStill, ServerStill DEF Calling!cavars
  <1> QED
    BY <1>1, <1>3, <1>4, <1>5, <1>6, <1>7, <1>8, <1>9, WhoActs
       DEF ClientActs, ClientGoesOn, ServerGoesOn

(* Whatever the network, the service and the other end do, a session is a   *)
(* service that runs its calls one at a time, in order and at most once,    *)
(* with the arguments they were made with, and a call returns what its own  *)
(* run answered or an error.                                                *)
THEOREM SessionImplementsCallAndAnswer == Spec => ImplementsCallAndAnswer
  <1>1. Init => Calling!Init
    BY CallingInit
  <1>2. InOrder /\ [Next]_vars => [Calling!Next]_(Calling!cavars)
    BY CallingStep
  <1> QED
    BY <1>1, <1>2, InOrderAlways, PTL DEF Spec, ImplementsCallAndAnswer, Calling!Spec
-----------------------------------------------------------------------------
(* Healthy sessions.                                                        *)

(* A struct of values is written as a whole document.                       *)
LEMMA ValuesMarshal ==
  ASSUME NEW w \in Seq(Carried), \A i \in DOMAIN w : w[i] \in Values
  PROVE  /\ \E n \in DOMAIN Whole(w) : Client!StructEndsAt(Whole(w), n) /\ Server!StructEndsAt(Whole(w), n)
         /\ \A name, type : Client!Dumped(name, type, 0, w).flaw = "none"
         /\ \A name, type : Server!Dumped(name, type, 0, w).flaw = "none"
  <1>1. /\ Len(w) \in Nat /\ DOMAIN Whole(w) = 1 .. Len(w) + 1 /\ DOMAIN w = 1 .. Len(w)
        /\ \A i \in 1 .. Len(w) : Whole(w)[i] = w[i]
        /\ Whole(w)[Len(w) + 1] = Stop
    BY WholeEndsThere
  <1>2. /\ Len(w) + 1 \in DOMAIN Whole(w) /\ (Len(w) + 1) - 1 = Len(w)
        /\ \A i \in 1 .. Len(w) : Whole(w)[i] \in Client!Plain /\ Whole(w)[i] \in Server!Plain
    BY <1>1 DEF Client!Plain, Server!Plain
  <1>3. Client!StructEndsAt(Whole(w), Len(w) + 1) /\ Server!StructEndsAt(Whole(w), Len(w) + 1)
    BY <1>1, <1>2 DEF Client!StructEndsAt, Server!StructEndsAt
  <1>4. \A i \in DOMAIN w : w[i] # RawString /\ w[i] # NonFinite
    BY NamesAssumption
  <1>5. /\ \A name, type : Client!Dumped(name, type, 0, w).flaw = "none"
        /\ \A name, type : Server!Dumped(name, type, 0, w).flaw = "none"
    BY <1>4 DEF Client!Dumped, Server!Dumped
  <1> QED
    BY <1>2, <1>3, <1>5

LEMMA SoundCalls ==
  ASSUME DriversOK, Healthy
  PROVE  \A n \in 1 .. Len(made) : Sound(made[n])
  BY LenProperties DEF DriversOK, Healthy

LEMMA HealthyClientGoesOn ==
  ASSUME InOrder, Healthy, NothingLost
  PROVE  ~ClientFails
  <1>0. /\ Len(made) \in Nat /\ Len(returned) \in Nat
    BY DriverTypes DEF InOrder, Ends
  <1>1. CASE cpc = "send" /\ ctodo = <<>>
    <2>1. Len(made) \in 1 .. Len(made)
      BY <1>0, <1>1 DEF InOrder, Ends, ClientTurn
    <2>2. Open.op \in Methods /\ Open.args \in Seq(Carried) /\ Sound(Open)
      BY <2>1, DriverTypes, SoundCalls DEF InOrder, Ends, Open
    <2>3. cbuffer = Whole(Open.args) /\ cname = Open.op
      <3>1. cbuffer \in Seq(CP!Pieces)
        BY <1>1, ClientTypes DEF InOrder, Ends, ClientTurn
      <3> QED
        BY <1>1, <3>1, NoPrefix DEF InOrder, Ends, ClientWriting
    <2>4. \E n \in DOMAIN cbuffer : Client!StructEndsAt(cbuffer, n)
      BY <2>2, <2>3, ValuesMarshal DEF Sound
    <2>5. Client!Marshals(cname, ctype, cbuffer)
      BY <2>2, <2>3, <2>4 DEF Client!Marshals, Client!NoSuchOperation
    <2>6. ~CanBeLost(spc)
      BY DEF CanBeLost, Healthy, NothingLost
    <2> QED
      BY <1>1, <2>5, <2>6 DEF ClientFails, Client!WriteMessageEndMarshalFails
  <1>2. CASE cpc = "receive"
    <2>1. ASSUME cpos < Len(carrived)
          PROVE  /\ carrived[cpos + 1].flaw = "none" /\ carrived[cpos + 1].name \in Methods
      <3>1. cpos + 1 \in 1 .. Len(carrived) /\ cpos + 1 \in 1 .. Len(sout)
        BY <2>1, ClientTypes, ServerTypes DEF InOrder, Ends, Replied
      <3> QED
        BY <3>1, ReplyType DEF NothingLost, InOrder, Ends, StreamsOK
    <2>2. ~Client!ReadMessageBeginBadHeader
      BY <2>1 DEF Client!ReadMessageBeginBadHeader, Client!AtWholeDocument, Client!Arriving,
         Client!BadHeader
    <2>3. ~Client!ReadMessageBeginDemarshalFails
      BY <2>1 DEF Client!ReadMessageBeginDemarshalFails, Client!AtWholeDocument, Client!Arriving,
         Client!DemarshalThrows, Client!NoSuchOperation
    <2>4. ~Client!ReadMessageBeginParseError
      BY <2>1 DEF Client!ReadMessageBeginParseError, Client!Arriving, Client!Unterminated, NothingLost
    <2>5. ~Client!ReadMessageBeginEndOfFile
      BY DEF Client!ReadMessageBeginEndOfFile, NothingLost
    <2> QED
      BY <1>2, <2>2, <2>3, <2>4, <2>5 DEF ClientFails
  <1> QED
    BY <1>1, <1>2 DEF ClientFails

LEMMA HealthyAnswer ==
  ASSUME DriversOK, ~failed, NEW n, NEW type, NEW pieces, MayAnswer(n, type, pieces)
  PROVE  /\ type = "reply" /\ pieces \in Seq(Carried)
         /\ \A i \in DOMAIN pieces : pieces[i] \in Values
  <1>1. type = "reply" /\ pieces \in Answers
    BY DriverTypes DEF MayAnswer, RunFor
  <1>2. pieces \in Seq(Values)
    BY <1>1, AnswersCarried
  <1>3. \A i \in DOMAIN pieces : pieces[i] \in Values
    BY <1>2, ElementOfSeq, LenProperties
  <1> QED
    BY <1>1, <1>3, AnswersCarried

LEMMA HealthyServerGoesOn ==
  ASSUME InOrder, Healthy, NothingLost, cpc # "over"
  PROVE  ~ServerFails
  <1>0. ~CanBeLost(cpc)
    BY DEF CanBeLost, Healthy
  <1>1. CASE spc = "answer" /\ stodo = <<>>
    <2>1. spos \in 1 .. Len(made) /\ Sound(made[spos]) /\ sname = made[spos].op
      BY <1>1, RequestRead, SoundCalls DEF InOrder, Ends, ServerWriting
    <2>2. PICK pieces : MayAnswer(spos, stype, pieces) /\ sbuffer \o stodo = Whole(pieces)
      BY <1>1 DEF InOrder, Ends, ServerWriting
    <2>3. sbuffer = Whole(pieces)
      <3>1. sbuffer \in Seq(SP!Pieces)
        BY <1>1, ServerTypes DEF InOrder, Ends, ServerTurn
      <3> QED
        BY <1>1, <2>2, <3>1, NoPrefix
    <2>4. pieces \in Seq(Carried) /\ \A i \in DOMAIN pieces : pieces[i] \in Values
      BY <2>2, HealthyAnswer DEF InOrder, Ends, Healthy
    <2>5. \E n \in DOMAIN sbuffer : Server!StructEndsAt(sbuffer, n)
      BY <2>3, <2>4, ValuesMarshal
    <2>6. Server!Marshals(sname, stype, sbuffer)
      BY <2>1, <2>5 DEF Server!Marshals, Server!NoSuchOperation, Sound
    <2> QED
      BY <1>0, <1>1, <2>6 DEF ServerFails, Server!WriteMessageEndMarshalFails
  <1>2. CASE spc = "process"
    <2>1. ASSUME spos < Len(sarrived)
          PROVE  /\ sarrived[spos + 1].flaw = "none" /\ sarrived[spos + 1].name \in ServerOperations
      <3>1. /\ spos + 1 \in 1 .. Len(sarrived) /\ spos + 1 \in 1 .. Len(cout)
            /\ spos + 1 \in 1 .. Len(made)
        BY <2>1, ClientTypes, ServerTypes, DriverTypes DEF InOrder, Ends, Requested, ClientTurn
      <3>2. sarrived[spos + 1] = cout[spos + 1] /\ cout[spos + 1].flaw = "none"
        BY <3>1 DEF NothingLost
      <3>3. cout[spos + 1].name = made[spos + 1].op
        <4>1. cout[spos + 1] \in {Encoded(made[spos + 1]), Client!Truncation(Encoded(made[spos + 1]))}
          BY <3>1 DEF InOrder, Ends, Sent
        <4>2. PICK flaw : Encoded(made[spos + 1]) =
                Dumped(made[spos + 1].op, TypeOfCall(made[spos + 1]), made[spos + 1].args, flaw)
          BY DEF Encoded, Client!Dumped, Dumped
        <4> QED
          BY <4>1, <4>2 DEF Dumped, Client!Truncation
      <3> QED
        BY <3>1, <3>2, <3>3, SoundCalls DEF InOrder, Ends, Sound
    <2>2. ~Server!ReadMessageBeginBadHeader
      BY <2>1 DEF Server!ReadMessageBeginBadHeader, Server!AtWholeDocument, Server!Arriving,
         Server!BadHeader
    <2>3. ~Server!ReadMessageBeginDemarshalFails
      BY <2>1 DEF Server!ReadMessageBeginDemarshalFails, Server!AtWholeDocument, Server!Arriving,
         Server!DemarshalThrows, Server!NoSuchOperation
    <2>4. ~Server!ReadMessageBeginParseError
      BY <2>1 DEF Server!ReadMessageBeginParseError, Server!Arriving, Server!Unterminated, NothingLost
    <2>5. ~Server!ReadMessageBeginEndOfFile
      BY DEF Server!ReadMessageBeginEndOfFile, NothingLost
    <2> QED
      BY <1>2, <2>2, <2>3, <2>4, <2>5 DEF ServerFails
  <1> QED
    BY <1>1, <1>2 DEF ServerFails

LEMMA HealthyBefore ==
  ASSUME DriversOK, [Next]_vars, Healthy'
  PROVE  Healthy
  <1>1. link' = "up" => link = "up"
    <2>1. CASE ClientActs \/ ServerGoesOn
      BY <2>1, ClientTakesNothing, ServerTakesNothing
    <2>2. CASE LinkActs
      BY <2>2 DEF LinkActs, Delivery, RequestArrives, ReplyArrives, ServerSeesClose,
         ClientSeesClose, RequestIsCutOff, ReplyIsCutOff, LinkBreaks
    <2>3. CASE UNCHANGED vars
      BY <2>3 DEF vars
    <2> QED
      BY <2>1, <2>2, <2>3, WhoActs
  <1>2. ~failed' => ~failed
    <2>1. CASE ServerGoesOn
      BY <2>1 DEF ServerGoesOn, Run, RunFails, ServerReceives, ServerReads, ServerReadsEnd,
         ServerWrites, ServerSends, ServerFails, sdriver
    <2> QED
      BY <2>1, ServerStill, WhoActs
  <1>3. \A n \in DOMAIN made : n \in DOMAIN made' /\ made'[n] = made[n]
    <2>1. made \in Seq(Calls) /\ DOMAIN made = 1 .. Len(made)
      BY LenProperties DEF DriversOK
    <2>2. ASSUME NEW call, made' = Append(made, call)
          PROVE  DOMAIN made' = 1 .. Len(made') /\ Len(made') = Len(made) + 1
      <3>1. made \in Seq(Calls \union {call})
        BY <2>1, SeqMonotonic
      <3>2. made' \in Seq(Calls \union {call})
        BY <2>2, <3>1, AppendProperties
      <3> QED
        BY <2>1, <2>2, <3>2, GrownByOne, LenProperties
    <2>3. Len(made) \in Nat
      BY DriverTypes
    <2> QED
      BY <2>1, <2>2, <2>3, MadeStep
  <1> QED
    BY <1>1, <1>2, <1>3 DEF Healthy, Sound

(* No call of a healthy session ends in an error.                           *)
LEMMA HealthyReturns ==
  ASSUME InOrder, Healthy, \A n \in 1 .. Len(returned) : returned[n] # Error,
         cpc # "over" => NothingLost, [Next]_vars
  PROVE  \A n \in 1 .. Len(returned') : returned'[n] # Error
  <1>0. Len(returned) \in Nat /\ returned \in Seq({NoAnswer, Error} \union Seq(CP!Pieces))
    BY DriverTypes DEF InOrder, Ends, DriversOK
  <1>1. ASSUME NEW answer, NEW pc, Return(answer, pc), answer # Error
        PROVE  \A n \in 1 .. Len(returned') : returned'[n] # Error
    BY <1>0, <1>1, GrownByOne DEF Return
  <1>2. CASE ClientSends
    BY <1>1, <1>2, NamesAssumption DEF ClientSends
  <1>3. CASE ClientReturns
    <2>1. cpc = "read" /\ EndsWithStop(Received.body) /\ NothingLost
      BY <1>3 DEF ClientReturns, Last, Received
    <2>2. /\ cpos \in 1 .. Len(sout) /\ sout[cpos].flaw = "none" /\ sout[cpos].type = ctype
          /\ Front(Received.body) = sout[cpos].body
      BY <2>1, ReplyRead DEF InOrder
    <2>3. ctype = "reply"
      BY <2>1, <2>2 DEF NothingLost
    <2>4. RunFor(Len(made), Front(Received.body))
      BY <2>1, <2>2, <2>3 DEF InOrder, ClientReading, AnswersCall
    <2>5. Front(Received.body) \in Seq(Values)
      BY <2>4, DriverTypes, AnswersCarried DEF RunFor, InOrder, Ends
    <2>6. Return(Front(Received.body), "idle") /\ Front(Received.body) # Error
      BY <1>3, <2>3, <2>5, NamesAssumption DEF ClientReturns, Last, Received
    <2> QED
      BY <1>1, <2>6
  <1>4. CASE ClientFails
    <2>1. cpc # "over"
      BY <1>4 DEF ClientFails
    <2> QED
      BY <1>4, <2>1, HealthyClientGoesOn
  <1>5. ASSUME NEW call \in Calls, Invoke(call) PROVE UNCHANGED returned
    BY <1>5 DEF Invoke
  <1>6. CASE Quit \/ ClientWrites \/ ClientReceives \/ ClientReads
    BY <1>6 DEF Quit, ClientWrites, ClientReceives, ClientReads
  <1>7. CASE ServerGoesOn \/ LinkActs \/ UNCHANGED vars
    BY <1>7, ClientStill
  <1> QED
    BY <1>2, <1>3, <1>4, <1>5, <1>6, <1>7, WhoActs DEF ClientActs, ClientGoesOn

LEMMA NothingLostStep ==
  ASSUME InOrder, Healthy, Healthy', cpc # "over", cpc' # "over", NothingLost, [Next]_vars
  PROVE  NothingLost'
  <1>0. ~ClientFails /\ ~ServerFails
    BY HealthyClientGoesOn, HealthyServerGoesOn
  <1>1. link = "up" /\ ~failed /\ DriversOK /\ Ends
    BY DEF Healthy, InOrder, Ends
  <1>2. spc' # "over" /\ smid' = smid
    <2>1. CASE Run \/ RunFails
      BY <1>1, <2>1, ServerHandles
    <2>2. CASE ServerReceives
      BY <1>1, <2>2, ServerReceivesOne
    <2>3. CASE ServerReads \/ ServerReadsEnd \/ ServerWrites \/ ServerSends
      BY <2>3 DEF ServerReads, ServerReadsEnd, ServerWrites, ServerSends, Server!ReadBody,
         Server!ReadMessageEnd, Server!WriteBody, Server!WriteMessageEnd, Server!inbound, sdriver
    <2>4. CASE ClientActs \/ LinkActs \/ UNCHANGED vars
      BY <2>4, ServerStill DEF NothingLost
    <2> QED
      BY <1>0, <2>1, <2>2, <2>3, <2>4, WhoActs DEF ServerGoesOn, NothingLost
  <1>3. cmid' = cmid
    <2>1. ASSUME NEW call \in Calls, Invoke(call) PROVE cmid' = cmid
      BY <2>1 DEF Invoke, Client!WriteMessageBegin, Client!inbound
    <2>2. CASE ClientReceives
      BY <2>2, ClientReceivesOne DEF InOrder
    <2>3. CASE Quit \/ ClientWrites \/ ClientSends \/ ClientReads \/ ClientReturns
      BY <2>3 DEF Quit, ClientWrites, ClientSends, ClientReads, ClientReturns, cobject,
         Client!WriteBody, Client!WriteMessageEnd, Client!ReadBody, Client!ReadMessageEnd,
         Client!inbound
    <2>4. CASE ServerGoesOn \/ LinkActs \/ UNCHANGED vars
      BY <2>4, ClientStill
    <2> QED
      BY <1>0, <2>1, <2>2, <2>3, <2>4, WhoActs DEF ClientActs, ClientGoesOn
  <1>4. sclosed' = sclosed /\ cclosed' = cclosed
    <2>1. CASE ClientActs \/ ServerGoesOn
      BY <2>1, ClientTakesNothing, ServerTakesNothing
    <2>2. CASE LinkActs
      <3>1. ~ServerSeesClose /\ ~ClientSeesClose
        BY <1>1 DEF ServerSeesClose, ClientSeesClose, NothingLost
      <3> QED
        BY <2>2, <3>1 DEF LinkActs, Delivery, RequestArrives, ReplyArrives, RequestIsCutOff,
           ReplyIsCutOff, LinkBreaks, cobject, sobject, Server!PeerSends, Client!PeerSends
    <2>3. CASE UNCHANGED vars
      BY <2>3 DEF vars, sobject, cobject
    <2> QED
      BY <2>1, <2>2, <2>3, WhoActs
  <1>5. /\ Len(cout') >= Len(cout) /\ Len(cout') \in Nat /\ Len(cout) \in Nat
        /\ \A i \in 1 .. Len(cout) : cout'[i] = cout[i]
        /\ \A i \in 1 .. Len(cout') : cout'[i].flaw = "none"
    <2>1. CASE cout' = cout
      BY <1>1, <2>1, ClientTypes DEF Ends, NothingLost
    <2>2. CASE cout' # cout
      <3>1. cout' = Append(cout, Encoded(Open)) /\ cpc = "send"
        BY <1>1, <2>2, CoutStep
      <3>2. Len(made) \in 1 .. Len(made)
        BY <1>1, <3>1, DriverTypes DEF Ends, ClientTurn
      <3>3. Open.args \in Seq(Carried) /\ Sound(Open)
        BY <1>1, <3>2, DriverTypes, SoundCalls DEF Open
      <3>4. Encoded(Open).flaw = "none"
        BY <3>3, ValuesMarshal DEF Encoded, Sound
      <3>5. cout \in Seq(CP!Document)
        BY <1>1, ClientTypes DEF Ends
      <3> QED
        BY <3>1, <3>4, <3>5, GrownByOne DEF NothingLost
    <2> QED
      BY <2>1, <2>2
  <1>6. /\ Len(sout') >= Len(sout) /\ Len(sout') \in Nat /\ Len(sout) \in Nat
        /\ \A i \in 1 .. Len(sout) : sout'[i] = sout[i]
        /\ \A i \in 1 .. Len(sout') : sout'[i].flaw = "none" /\ sout'[i].type = "reply"
    <2>1. CASE sout' = sout
      BY <1>1, <2>1, ServerTypes DEF Ends, NothingLost
    <2>2. CASE sout' # sout
      <3>1. PICK type, d, pieces :
              /\ MayAnswer(spos, type, pieces)
              /\ LET whole == Server!Dumped(made[spos].op, type, 0, pieces)
                 IN  d = whole \/ (d = Server!Truncation(whole) /\ CanBeLost(cpc))
              /\ sout' = Append(sout, d) /\ d \in Replies
        BY <1>1, <2>2, SoutStep
      <3>2. d = Server!Dumped(made[spos].op, type, 0, pieces)
        BY <1>1, <3>1 DEF CanBeLost
      <3>3. type = "reply" /\ pieces \in Seq(Carried) /\ \A i \in DOMAIN pieces : pieces[i] \in Values
        BY <1>1, <3>1, HealthyAnswer
      <3>4. d.flaw = "none" /\ d.type = "reply"
        <4>1. d.flaw = "none"
          BY <3>2, <3>3, ValuesMarshal
        <4>2. d.type = type
          BY <3>2 DEF Server!Dumped
        <4> QED
          BY <3>3, <4>1, <4>2
      <3>5. sout \in Seq(SP!Document)
        BY <1>1, ServerTypes DEF Ends
      <3> QED
        BY <3>1, <3>4, <3>5, GrownByOne DEF NothingLost
    <2> QED
      BY <2>1, <2>2
  <1>7. \A i \in 1 .. Len(sarrived') : sarrived'[i] = cout'[i]
    <2>0. /\ Len(sarrived) \in Nat /\ Len(sarrived) <= Len(cout) /\ sarrived \in Seq(SP!Document)
          /\ \A i \in 1 .. Len(sarrived) : sarrived[i] = cout[i]
      BY <1>1, ServerTypes DEF Ends, Requested, NothingLost
    <2>1. CASE sarrived' = sarrived
      BY <1>5, <2>0, <2>1
    <2>2. CASE Len(sarrived) < Len(cout) /\ sarrived' = Append(sarrived, cout[Len(sarrived) + 1])
      BY <1>5, <2>0, <2>2, GrownByOne
    <2> QED
      BY <1>1, <2>1, <2>2, ArrivedStep DEF Ends
  <1>8. \A i \in 1 .. Len(carrived') : carrived'[i] = sout'[i]
    <2>0. /\ Len(carrived) \in Nat /\ Len(carrived) <= Len(sout) /\ carrived \in Seq(CP!Document)
          /\ \A i \in 1 .. Len(carrived) : carrived[i] = sout[i]
      BY <1>1, ClientTypes DEF Ends, Replied, NothingLost
    <2>1. CASE carrived' = carrived
      BY <1>6, <2>0, <2>1
    <2>2. CASE Len(carrived) < Len(sout) /\ carrived' = Append(carrived, sout[Len(carrived) + 1])
      BY <1>6, <2>0, <2>2, GrownByOne
    <2> QED
      BY <1>1, <2>1, <2>2, ArrivedStep DEF Ends
  <1> QED
    BY <1>2, <1>3, <1>4, <1>5, <1>6, <1>7, <1>8 DEF NothingLost

LEMMA HealthStep ==
  ASSUME InOrder, Health, [Next]_vars
  PROVE  Health'
  <1> SUFFICES ASSUME Healthy'
               PROVE  /\ \A n \in 1 .. Len(returned') : returned'[n] # Error
                      /\ cpc' # "over" => NothingLost'
    BY DEF Health
  <1>1. Healthy
    BY HealthyBefore DEF InOrder, Ends
  <1>2. (\A n \in 1 .. Len(returned) : returned[n] # Error) /\ (cpc # "over" => NothingLost)
    BY <1>1 DEF Health
  <1>3. cpc' # "over" => cpc # "over"
    <2>1. CASE ClientActs
      BY <2>1 DEF ClientActs, Invoke, Quit, ClientGoesOn, ClientWrites, ClientSends, ClientReceives,
         ClientReads, ClientReturns, ClientFails
    <2> QED
      BY <2>1, ClientStill, WhoActs
  <1> QED
    BY <1>1, <1>2, <1>3, HealthyReturns, NothingLostStep

(* Nothing fails by itself: whatever calls of whatever values are made, and *)
(* however the steps of the two ends interleave, while the network holds,   *)
(* the service does not fail and both typelibs know the calls, no call      *)
(* ends in an error.                                                        *)
THEOREM SoundCallsSucceed == Spec => []HealthyCallsSucceed
  <1>1. Init => Health
    <2> SUFFICES ASSUME Init PROVE Health
      OBVIOUS
    <2>1. Len(<<>>) = 0
      BY EmptySeq
    <2> QED
      BY <2>1 DEF Init, Client!Init, Server!Init, Health, NothingLost
  <1>2. InOrder /\ Health /\ [Next]_vars => Health'
    BY HealthStep
  <1>3. InOrder /\ Health => HealthyCallsSucceed
    <2> SUFFICES ASSUME InOrder, Health PROVE HealthyCallsSucceed
      OBVIOUS
    <2>1. DOMAIN returned = 1 .. Len(returned)
      BY LenProperties DEF InOrder, Ends, DriversOK
    <2> QED
      BY <2>1 DEF Health, HealthyCallsSucceed
  <1> QED
    BY <1>1, <1>2, <1>3, InOrderAlways, PTL DEF Spec
==============================================================================
