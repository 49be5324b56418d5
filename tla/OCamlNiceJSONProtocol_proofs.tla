-------------------- MODULE OCamlNiceJSONProtocol_proofs --------------------
(* What TLAPS proves of OCamlNiceJSONProtocol, for every value of its       *)
(* constants.                                                               *)
EXTENDS OCamlNiceJSONProtocol, SequenceTheorems, TLAPS

USE DEF stream, written, read
-----------------------------------------------------------------------------
(* The types of what is written: a call has at most one struct.             *)
Bodies == Structs \union {Odd, Raw, Misfit}
Calls == [header : CallerHeaders, body : {<<>>} \union {<<s>> : s \in Bodies}]
SentDocuments ==
    {[name |-> h.name, type |-> h.type, seqid |-> h.seqid, body |-> s] :
        h \in CallerHeaders, s \in Bodies}

WrittenOK ==
    /\ sent \in Seq(SentDocuments)
    /\ asked \in Seq(Calls)

(* While a message is written, the record in mode_ is the message that the  *)
(* caller asked for last, and nothing of the one before it.                 *)
WritesTheCall ==
    mode_.is = "WRITING_MESSAGE" =>
        call \in Calls /\ mode_ = Message("WRITING_MESSAGE", call.header, call.body)

\* A message being read is a record with the fields of a message.
ReadsARecord ==
    mode_.is = "READING_MESSAGE" => mode_ = Message("READING_MESSAGE", mode_, mode_.body)

WriteInv == WrittenOK /\ WritesTheCall /\ ReadsARecord /\ SentAsAsked

(* SentAsAsked of one document and the call it was written for.             *)
SentFor(document, c) ==
    /\ c.body = <<document.body>>
    /\ c.header = [name |-> document.name, type |-> document.type, seqid |-> document.seqid]

LEMMA SentOnce ==
  ASSUME WrittenOK, SentAsAsked,
         NEW document \in SentDocuments, NEW c \in Calls, SentFor(document, c),
         sent' = Append(sent, document), asked' = Append(asked, c)
  PROVE  WrittenOK' /\ SentAsAsked'
  <1>1. /\ sent \in Seq(SentDocuments) /\ asked \in Seq(Calls)
        /\ Len(sent) \in Nat /\ Len(asked) = Len(sent) /\ DOMAIN sent = 1..Len(sent)
    BY LenProperties DEF WrittenOK, SentAsAsked
  <1>2. /\ sent' \in Seq(SentDocuments) /\ Len(sent') = Len(sent) + 1
        /\ \A i \in 1..Len(sent) : sent'[i] = sent[i]
        /\ sent'[Len(sent) + 1] = document
    BY <1>1, AppendProperties
  <1>3. /\ asked' \in Seq(Calls) /\ Len(asked') = Len(asked) + 1
        /\ \A i \in 1..Len(asked) : asked'[i] = asked[i]
        /\ asked'[Len(asked) + 1] = c
    BY <1>1, AppendProperties
  <1>4. DOMAIN sent' = 1..Len(sent) + 1
    BY <1>1, <1>2, LenProperties
  <1>5. ASSUME NEW k \in DOMAIN sent'
        PROVE  SentFor(sent'[k], asked'[k])
    <2>1. CASE k \in 1..Len(sent)
      BY <1>1, <1>2, <1>3, <2>1 DEF SentAsAsked, SentFor
    <2>2. CASE k = Len(sent) + 1
      BY <1>1, <1>2, <1>3, <2>2
    <2> QED
      BY <1>1, <1>4, <1>5, <2>1, <2>2
  <1> QED
    BY <1>1, <1>2, <1>3, <1>5 DEF WrittenOK, SentAsAsked, SentFor

LEMMA WriteInvInit == Init => WriteInv
  BY EmptySeq DEF Init, WriteInv, WrittenOK, WritesTheCall, ReadsARecord, SentAsAsked, NoMessage

LEMMA WriteInvBegin ==
  ASSUME WriteInv, NEW h \in CallerHeaders, WriteMessageBegin(h)
  PROVE  WriteInv'
  BY DEF WriteInv, WrittenOK, WritesTheCall, ReadsARecord, SentAsAsked, WriteMessageBegin, Fresh, Message, Calls

LEMMA WriteInvBody ==
  ASSUME WriteInv, NEW s \in Bodies, WriteBody(s)
  PROVE  WriteInv'
  <1>1. call \in Calls /\ mode_ = Message("WRITING_MESSAGE", call.header, call.body)
        /\ call.body = <<>>
    BY DEF WriteInv, WritesTheCall, WriteBody
  <1>2. call' \in Calls /\ call'.header = call.header /\ call'.body = <<s>>
    BY <1>1 DEF WriteBody, Calls
  <1>3. mode_' = Message("WRITING_MESSAGE", call.header, Append(<<>>, s))
    BY <1>1 DEF WriteBody, Message
  <1>4. Append(<<>>, s) = <<s>>
    OBVIOUS
  <1>5. mode_' = Message("WRITING_MESSAGE", call'.header, call'.body)
    BY <1>2, <1>3, <1>4
  <1>6. mode_'.is = "WRITING_MESSAGE"
    BY <1>5 DEF Message
  <1> QED
    BY <1>2, <1>5, <1>6
    DEF WriteInv, WrittenOK, WritesTheCall, ReadsARecord, SentAsAsked, WriteBody

LEMMA WriteInvEnd ==
  ASSUME WriteInv, WriteMessageEnd
  PROVE  WriteInv'
  <1>1. call \in Calls /\ mode_ = Message("WRITING_MESSAGE", call.header, call.body)
    BY DEF WriteInv, WritesTheCall, WriteMessageEnd
  <1>2. CASE mode_' = Broken
    <2>0. NoMessage.is # Broken.is
      BY DEF NoMessage, Broken
    <2>1. UNCHANGED <<sent, asked, call>>
      BY <1>2, <2>0 DEF WriteMessageEnd
    <2> QED
      BY <1>2, <2>1 DEF WriteInv, WrittenOK, WritesTheCall, ReadsARecord, SentAsAsked, Broken
  <1>3. CASE mode_' # Broken
    <2> DEFINE document == [name |-> mode_.name, type |-> mode_.type,
                            seqid |-> mode_.seqid, body |-> Head(mode_.body)]
    <2>1. /\ mode_.body # <<>> /\ mode_' = NoMessage /\ call' = call
          /\ sent' = Append(sent, document) /\ asked' = Append(asked, call)
      BY <1>3 DEF WriteMessageEnd
    <2>2. call.header \in CallerHeaders /\ mode_.body = call.body
          /\ mode_.name = call.header.name /\ mode_.type = call.header.type
          /\ mode_.seqid = call.header.seqid
      BY <1>1 DEF Message, Calls
    <2>3. PICK s \in Bodies : call.body = <<s>>
      BY <1>1, <2>1, <2>2 DEF Calls
    <2>4. document.body = s /\ Head(mode_.body) = s
      BY <2>2, <2>3
    <2>5. document \in SentDocuments
      BY <2>2, <2>4 DEF SentDocuments
    <2>6. SentFor(document, call)
      BY <2>2, <2>3, <2>4, HeadersKnown DEF SentFor
    <2>7. WrittenOK' /\ SentAsAsked'
      <3> HIDE DEF document
      <3> QED BY <1>1, <2>1, <2>5, <2>6, SentOnce DEF WriteInv
    <2> QED
      BY <2>1, <2>7 DEF WriteInv, WritesTheCall, ReadsARecord, NoMessage
  <1> QED
    BY <1>2, <1>3

LEMMA WriteInvRead ==
  ASSUME WriteInv, ReadMessageBegin \/ ReadMessageBeginTorn \/ ReadBody \/ ReadMessageEnd
  PROVE  WriteInv'
  <1>1. sent' = sent /\ asked' = asked /\ call' = call
    BY DEF ReadMessageBegin, ReadMessageBeginTorn, ReadBody, ReadMessageEnd
  <1>2. CASE ReadMessageBegin
    <2>1. \/ mode_' = mode_
          \/ mode_' = Message("READING_MESSAGE", input[at], <<Deserialized(input[at])>>)
      BY <1>2 DEF ReadMessageBegin
    <2> QED
      BY <1>1, <2>1
      DEF WriteInv, WrittenOK, WritesTheCall, ReadsARecord, SentAsAsked, Message
  <1>3. CASE ReadMessageBeginTorn \/ ReadMessageEnd
    BY <1>1, <1>3 DEF WriteInv, WrittenOK, WritesTheCall, ReadsARecord, SentAsAsked,
                      ReadMessageBeginTorn, ReadMessageEnd, NoMessage
  <1>4. CASE ReadBody
    <2>1. mode_ = Message("READING_MESSAGE", mode_, mode_.body)
      BY <1>4 DEF WriteInv, ReadsARecord, ReadBody
    <2>2. mode_' = Message("READING_MESSAGE", mode_, Tail(mode_.body))
      BY <1>4, <2>1 DEF ReadBody, Message
    <2>3. mode_'.is = "READING_MESSAGE" /\ mode_' = Message("READING_MESSAGE", mode_', mode_'.body)
      BY <2>2 DEF Message
    <2> QED
      BY <1>1, <2>3 DEF WriteInv, WrittenOK, WritesTheCall, ReadsARecord, SentAsAsked
  <1> QED
    BY <1>2, <1>3, <1>4

LEMMA WriteInvNext == WriteInv /\ [Next]_vars => WriteInv'
  <1> SUFFICES ASSUME WriteInv, [Next]_vars
               PROVE  WriteInv'
    OBVIOUS
  <1>1. CASE UNCHANGED vars
    BY <1>1 DEF vars, WriteInv, WrittenOK, WritesTheCall, ReadsARecord, SentAsAsked
  <1>2. CASE Next
    BY <1>2, WriteInvBegin, WriteInvBody, WriteInvEnd, WriteInvRead DEF Next, Bodies
  <1> QED
    BY <1>1, <1>2

(* Every document sent is the message its caller asked for, although the    *)
(* one before it may have been dropped halfway: writeMessageBegin makes a   *)
(* new record, whatever the mode.                                           *)
THEOREM MessagesAreSentAsAsked == Spec => []SentAsAsked
  <1>1. WriteInv => SentAsAsked
    BY DEF WriteInv
  <1> QED
    BY <1>1, WriteInvInit, WriteInvNext, PTL DEF Spec
-----------------------------------------------------------------------------
(* The types of what is read.  The stream stands inside a document only     *)
(* after an error in a text.                                                *)
Read(d) == Message("READ", d, Deserialized(d))
ReadMessages == {Read(d) : d \in Documents}

ReadOK ==
    /\ input \in Seq(Documents)
    /\ at \in 1..Len(input) + 1
    /\ midway => \E i \in DOMAIN input : input[i].flaw = "text"
    /\ returned \in Seq(1..Len(input))
    /\ got \in Seq([document : 1..Len(input), message : ReadMessages])

(* While a message is read, the record in mode_ is the document before the  *)
(* stream, with its struct or, when that is read, with none.                *)
ReadsTheDocument ==
    mode_.is = "READING_MESSAGE" =>
        /\ at > 1 /\ Readable(input[at - 1])
        /\ \/ mode_ = Message("READING_MESSAGE", input[at - 1], <<>>)
           \/ mode_ = Message("READING_MESSAGE", input[at - 1], <<Deserialized(input[at - 1])>>)

(* The parts of ReadsInOrder.  No document is returned that is not behind.  *)
NonePassedOver ==
    (\A i \in DOMAIN input : input[i].flaw # "text") =>
        {returned[k] : k \in DOMAIN returned} = {i \in 1..at - 1 : Readable(input[i])}
Ascending ==
    /\ \A k \in DOMAIN returned : returned[k] < at
    /\ \A j, k \in DOMAIN returned : j < k => returned[j] < returned[k]
GotWhole ==
    \A k \in DOMAIN got :
        Readable(input[got[k].document]) /\ got[k].message = Read(input[got[k].document])

ReadInv ==
    ReadOK /\ ReadsTheDocument /\ NonePassedOver /\ Ascending /\ GotWhole

LEMMA ReadInvIsOrder == ReadInv => ReadsInOrder
  BY DEF ReadInv, NonePassedOver, Ascending, GotWhole, ReadsInOrder, Read

(* How a sequence and its elements grow by one.                             *)
LEMMA Grows ==
  ASSUME NEW S, NEW s \in Seq(S), NEW e \in S
  PROVE  /\ Append(s, e) \in Seq(S)
         /\ Len(s) \in Nat /\ DOMAIN s = 1..Len(s)
         /\ DOMAIN Append(s, e) = 1..Len(s) + 1
         /\ \A i \in 1..Len(s) : Append(s, e)[i] = s[i]
         /\ Append(s, e)[Len(s) + 1] = e
         /\ {Append(s, e)[k] : k \in DOMAIN Append(s, e)} = {s[k] : k \in DOMAIN s} \union {e}
  <1>1. Len(s) \in Nat /\ DOMAIN s = 1..Len(s)
    BY LenProperties
  <1>2. /\ Append(s, e) \in Seq(S) /\ Len(Append(s, e)) = Len(s) + 1
        /\ \A i \in 1..Len(s) : Append(s, e)[i] = s[i]
        /\ Append(s, e)[Len(s) + 1] = e
    BY AppendProperties
  <1>3. DOMAIN Append(s, e) = 1..Len(s) + 1
    BY <1>2, LenProperties
  <1>4. 1..Len(s) + 1 = (1..Len(s)) \union {Len(s) + 1}
    BY <1>1
  <1>5. {Append(s, e)[k] : k \in 1..Len(s) + 1} = {s[k] : k \in 1..Len(s)} \union {e}
    BY <1>2, <1>4
  <1> QED
    BY <1>1, <1>2, <1>3, <1>5

LEMMA ReadInvInit == Init => ReadInv
  <1> SUFFICES ASSUME Init PROVE ReadInv
    OBVIOUS
  <1>1. PICK n \in 0..MaxArrived : input \in [1..n -> Documents]
    BY DEF Init
  <1>2. input \in Seq(Documents) /\ Len(input) = n /\ n \in Nat
    BY <1>1, Bounded
  <1>3. returned = <<>> /\ got = <<>> /\ DOMAIN returned = {} /\ DOMAIN got = {}
    BY DEF Init
  <1>4. returned \in Seq(1..Len(input)) /\ got \in Seq([document : 1..Len(input), message : ReadMessages])
    BY <1>3, EmptySeq
  <1>5. {returned[k] : k \in DOMAIN returned} = {} /\ 1..at - 1 = {}
    BY <1>3 DEF Init
  <1> QED
    BY <1>2, <1>3, <1>4, <1>5
    DEF Init, NoMessage, ReadInv, ReadOK, ReadsTheDocument, NonePassedOver, Ascending, GotWhole

(* Calls that write leave the documents alone.                              *)
LEMMA ReadInvWrite ==
  ASSUME ReadInv, WritesTheCall,
         \/ \E h \in CallerHeaders : WriteMessageBegin(h)
         \/ \E s \in Bodies : WriteBody(s)
         \/ WriteMessageEnd
  PROVE  ReadInv'
  <1>1. UNCHANGED <<stream, read>>
    BY DEF WriteMessageBegin, WriteBody, WriteMessageEnd
  <1>2. mode_.is = "WRITING_MESSAGE" => mode_ = Message("WRITING_MESSAGE", mode_, mode_.body)
    BY DEF WritesTheCall, Message
  <1>3. mode_'.is # "READING_MESSAGE"
    <2>1. ASSUME NEW h \in CallerHeaders, WriteMessageBegin(h)
          PROVE  <1>3!:
      BY <2>1 DEF WriteMessageBegin, Message
    <2>2. ASSUME NEW s \in Bodies, WriteBody(s)
          PROVE  <1>3!:
      BY <1>2, <2>2 DEF WriteBody, Message
    <2>3. CASE WriteMessageEnd
      BY <2>3 DEF WriteMessageEnd, NoMessage, Broken
    <2> QED
      BY <2>1, <2>2, <2>3
  <1> QED
    BY <1>1, <1>2, <1>3
    DEF ReadInv, ReadOK, ReadsTheDocument, NonePassedOver, Ascending, GotWhole

LEMMA ReadInvBegin ==
  ASSUME ReadInv, ReadMessageBegin
  PROVE  ReadInv'
  <1>1. /\ input' = input /\ midway' = midway /\ got' = got /\ at' = at + 1
        /\ Len(input) \in Nat /\ at \in 1..Len(input) /\ at' - 1 = at
    BY LenProperties DEF ReadInv, ReadOK, ReadMessageBegin, BehindDocument
  <1>2. CASE Readable(input[at])
    <2>1. /\ mode_' = Message("READING_MESSAGE", input[at], <<Deserialized(input[at])>>)
          /\ returned' = Append(returned, at) /\ alive' = alive
      BY <1>2 DEF ReadMessageBegin, Readable
    <2>0. returned \in Seq(1..Len(input)) /\ at \in 1..Len(input)
      BY <1>1 DEF ReadInv, ReadOK
    <2>2. /\ returned' \in Seq(1..Len(input))
          /\ Len(returned) \in Nat /\ DOMAIN returned = 1..Len(returned)
          /\ DOMAIN returned' = 1..Len(returned) + 1
          /\ \A i \in 1..Len(returned) : returned'[i] = returned[i]
          /\ returned'[Len(returned) + 1] = at
          /\ {returned'[k] : k \in DOMAIN returned'} = {returned[k] : k \in DOMAIN returned} \union {at}
      <3> DEFINE longer == Append(returned, at)
      <3>1. /\ longer \in Seq(1..Len(input))
            /\ Len(returned) \in Nat /\ DOMAIN returned = 1..Len(returned)
            /\ DOMAIN longer = 1..Len(returned) + 1
            /\ \A i \in 1..Len(returned) : longer[i] = returned[i]
            /\ longer[Len(returned) + 1] = at
            /\ {longer[k] : k \in DOMAIN longer} = {returned[k] : k \in DOMAIN returned} \union {at}
        BY ONLY <2>0, Grows
      <3>2. returned' = longer
        BY <2>1
      <3> HIDE DEF longer
      <3> QED
        BY <3>1, <3>2
    <2>3. ReadOK'
      BY <1>1, <2>2 DEF ReadInv, ReadOK
    <2>4. ReadsTheDocument'
      BY <1>1, <1>2, <2>1 DEF ReadsTheDocument
    <2>5. NonePassedOver'
      <3>1. {i \in 1..at : Readable(input[i])} = {i \in 1..at - 1 : Readable(input[i])} \union {at}
        BY <1>1, <1>2
      <3> QED
        BY <1>1, <2>2, <3>1 DEF ReadInv, NonePassedOver
    <2>6. Ascending'
      <3>1. \A k \in 1..Len(returned) : returned[k] \in Nat /\ returned[k] < at
        <4>1. \A k \in 1..Len(returned) : returned[k] \in 1..Len(input)
          BY <2>0, ElementOfSeq
        <4>2. \A k \in 1..Len(returned) : returned[k] < at
          BY <2>2 DEF ReadInv, Ascending
        <4>3. 1..Len(input) \subseteq Nat
          BY <1>1
        <4> QED
          BY <4>1, <4>2, <4>3
      <3>2. \A k \in DOMAIN returned' : k \in 1..Len(returned) \/ k = Len(returned) + 1
        BY <2>2
      <3>3. \A k \in DOMAIN returned' : returned'[k] < at'
        BY <1>1, <2>2, <3>1, <3>2
      <3>4. ASSUME NEW j \in DOMAIN returned', NEW k \in DOMAIN returned', j < k
            PROVE  returned'[j] < returned'[k]
        <4>1. j \in 1..Len(returned)
          BY <2>2, <3>2, <3>4
        <4> QED
          BY <2>2, <3>1, <3>2, <3>4, <4>1 DEF ReadInv, Ascending
      <3> QED
        BY <3>3, <3>4 DEF Ascending
    <2>7. GotWhole'
      BY <1>1, <2>1 DEF ReadInv, GotWhole, ReadMessageBegin
    <2> QED
      BY <2>3, <2>4, <2>5, <2>6, <2>7 DEF ReadInv
  <1>3. CASE ~Readable(input[at])
    <2>1. /\ mode_' = NoMessage /\ returned' = returned
      BY <1>3 DEF ReadMessageBegin, Readable
    <2>2. ReadOK' /\ ReadsTheDocument'
      BY <1>1, <2>1 DEF ReadInv, ReadOK, ReadsTheDocument, NoMessage
    <2>3. NonePassedOver'
      BY <1>1, <1>3, <2>1 DEF ReadInv, NonePassedOver
    <2>4. Ascending'
      BY <1>1, <2>1 DEF ReadInv, ReadOK, Ascending
    <2>5. GotWhole'
      BY <1>1, <2>1 DEF ReadInv, GotWhole
    <2> QED
      BY <2>2, <2>3, <2>4, <2>5 DEF ReadInv
  <1> QED
    BY <1>2, <1>3

LEMMA ReadInvTorn ==
  ASSUME ReadInv, ReadMessageBeginTorn
  PROVE  ReadInv'
  <1>1. /\ UNCHANGED <<mode_, alive, input, read>> /\ alive /\ mode_ = NoMessage
        /\ Len(input) \in Nat /\ at \in 1..Len(input) /\ at' \in at..Len(input) + 1
        /\ DOMAIN input = 1..Len(input)
    BY LenProperties DEF ReadInv, ReadOK, ReadMessageBeginTorn
  <1>2. \E i \in DOMAIN input : input[i].flaw = "text"
    BY <1>1 DEF ReadInv, ReadOK, ReadMessageBeginTorn
  <1>3. ReadOK'
    BY <1>1, <1>2 DEF ReadInv, ReadOK
  <1>4. ReadsTheDocument' /\ NonePassedOver' /\ GotWhole'
    BY <1>1, <1>2 DEF ReadInv, ReadsTheDocument, NonePassedOver, GotWhole, NoMessage
  <1>5. Ascending'
    BY <1>1, LenProperties DEF ReadInv, ReadOK, Ascending
  <1> QED
    BY <1>3, <1>4, <1>5 DEF ReadInv

LEMMA ReadInvBody ==
  ASSUME ReadInv, ReadBody
  PROVE  ReadInv'
  <1> DEFINE d == input[at - 1]
             entry == [document |-> at - 1, message |-> Read(d)]
  <1>1. /\ mode_ = Message("READING_MESSAGE", d, <<Deserialized(d)>>)
        /\ at > 1 /\ Readable(d) /\ alive
    BY DEF ReadInv, ReadsTheDocument, ReadBody, Message
  <1>2. UNCHANGED <<alive, stream, returned>>
    BY DEF ReadBody
  <1>3. at - 1 \in 1..Len(input) /\ d \in Documents
    BY <1>1, LenProperties, ElementOfSeq DEF ReadInv, ReadOK
  <1>4. Head(<<Deserialized(d)>>) = Deserialized(d) /\ Tail(<<Deserialized(d)>>) = <<>>
    OBVIOUS
  <1>5. mode_' = Message("READING_MESSAGE", d, <<>>)
    BY <1>1, <1>4 DEF ReadBody, Message
  <1>6. got' = Append(got, entry)
    BY <1>1, <1>4 DEF ReadBody, Message, Read
  <1>7. entry \in [document : 1..Len(input), message : ReadMessages]
    BY <1>3 DEF ReadMessages
  <1>8. /\ got' \in Seq([document : 1..Len(input), message : ReadMessages])
        /\ Len(got) \in Nat /\ DOMAIN got = 1..Len(got)
        /\ DOMAIN got' = 1..Len(got) + 1
        /\ \A i \in 1..Len(got) : got'[i] = got[i]
        /\ got'[Len(got) + 1] = entry
    <2> HIDE DEF entry
    <2> QED
      BY <1>6, <1>7, Grows DEF ReadInv, ReadOK
  <1>9. ReadOK' /\ NonePassedOver' /\ Ascending'
    <2>1. ReadOK'
      BY <1>2, <1>8 DEF stream, ReadInv, ReadOK
    <2>2. NonePassedOver' /\ Ascending'
      BY <1>2 DEF stream, ReadInv, NonePassedOver, Ascending
    <2> QED
      BY <2>1, <2>2
  <1>10. ReadsTheDocument'
    BY <1>1, <1>2, <1>5 DEF ReadsTheDocument
  <1>11. GotWhole'
    <2>1. ASSUME NEW k \in DOMAIN got'
          PROVE  Readable(input[got'[k].document]) /\ got'[k].message = Read(input[got'[k].document])
      <3>1. CASE k \in 1..Len(got)
        BY <1>8, <3>1 DEF ReadInv, GotWhole
      <3>2. CASE k = Len(got) + 1
        BY <1>1, <1>8, <3>2
      <3> QED
        BY <1>8, <2>1, <3>1, <3>2
    <2>2. input' = input
      BY <1>2 DEF stream
    <2> QED
      BY <2>1, <2>2 DEF GotWhole
  <1> QED
    BY <1>9, <1>10, <1>11 DEF ReadInv

LEMMA ReadInvEnd ==
  ASSUME ReadInv, ReadMessageEnd
  PROVE  ReadInv'
  BY DEF ReadMessageEnd, NoMessage, ReadInv, ReadOK, ReadsTheDocument, NonePassedOver, Ascending,
         GotWhole

LEMMA ReadInvNext == WriteInv /\ ReadInv /\ [Next]_vars => ReadInv'
  <1> SUFFICES ASSUME WriteInv, ReadInv, [Next]_vars
               PROVE  ReadInv'
    OBVIOUS
  <1>1. CASE UNCHANGED vars
    BY <1>1 DEF vars, ReadInv, ReadOK, ReadsTheDocument, NonePassedOver, Ascending, GotWhole
  <1>2. CASE Next
    BY <1>2, ReadInvWrite, ReadInvBegin, ReadInvTorn, ReadInvBody, ReadInvEnd
    DEF Next, Bodies, WriteInv
  <1> QED
    BY <1>1, <1>2

(* No sound document is passed over or returned twice, and what is read of  *)
(* a message is the struct of its document: whatever the documents and the  *)
(* calls are, and whichever of them end the process.                        *)
THEOREM MessagesAreReadInOrder == Spec => []ReadsInOrder
  <1> QED
    BY WriteInvInit, WriteInvNext, ReadInvInit, ReadInvNext, ReadInvIsOrder, PTL DEF Spec
-----------------------------------------------------------------------------
(* The end of the process.  A dead process takes no step, so that what it   *)
(* ended over stays where it is.                                            *)
SoundTexts == \A i \in DOMAIN input : input[i].flaw # "text"
NoneFatalBehind == SoundTexts => \A i \in 1..at - 1 : ~FatalDocument(input[i])

LEMMA FatalsAreThoseThatDie ==
  ASSUME NEW d, d.flaw = "none"
  PROVE  FatalDocument(d) <=> DiesReading(d)
  BY DEF FatalDocument, NotAnException, DiesReading, Returns, ParsesInC, ThrowsNothingElse

LEMMA OnlyTheLivingStep ==
  ASSUME Next
  PROVE  alive
  BY DEF Next, WriteMessageBegin, WriteBody, WriteMessageEnd, ReadMessageBegin, ReadMessageBeginTorn,
         ReadBody, ReadMessageEnd

LEMMA EndsInit == Init => EndsOverTheUncaught
  BY DEF Init, EndsOverTheUncaught

(* Calls that leave the process alive and the stream where it is.           *)
LEMMA EndsQuiet ==
  ASSUME NoneFatalBehind, alive', UNCHANGED <<input, at>>
  PROVE  EndsOverTheUncaught'
  BY DEF NoneFatalBehind, SoundTexts, EndsOverTheUncaught

LEMMA EndsWrite ==
  ASSUME NoneFatalBehind, WritesTheCall, WriteMessageEnd
  PROVE  EndsOverTheUncaught'
  <1>1. UNCHANGED <<input, at, call>> /\ alive' = ~DiesWriting(mode_)
    BY DEF WriteMessageEnd
  <1>2. CASE ~DiesWriting(mode_)
    BY <1>1, <1>2, EndsQuiet
  <1>3. CASE DiesWriting(mode_)
    <2>1. mode_' = Broken
      BY <1>3 DEF WriteMessageEnd
    <2>2. mode_ = Message("WRITING_MESSAGE", call.header, call.body)
      BY DEF WritesTheCall, WriteMessageEnd
    <2>3. /\ mode_.name = call.header.name /\ mode_.type = call.header.type
          /\ mode_.body = call.body
      BY <2>2 DEF Message
    <2>4. FatalCall(call)
      BY <1>3, <2>3 DEF DiesWriting, HasStruct, FatalCall, NotAnException
    <2> QED
      BY <1>1, <2>1, <2>4 DEF NoneFatalBehind, SoundTexts, EndsOverTheUncaught
  <1> QED
    BY <1>2, <1>3

LEMMA EndsRead ==
  ASSUME NoneFatalBehind, ReadOK, ReadMessageBegin
  PROVE  EndsOverTheUncaught'
  <1>1. /\ input' = input /\ at' = at + 1 /\ at \in Nat /\ at > 0 /\ at' - 1 = at /\ alive /\ mode_ = NoMessage
    BY LenProperties DEF ReadOK, ReadMessageBegin, BehindDocument
  <1>2. CASE FatalDocument(input[at])
    <2>1. ~alive' /\ mode_' = NoMessage
      BY <1>1, <1>2, FatalsAreThoseThatDie DEF ReadMessageBegin, FatalDocument
    <2>2. ASSUME SoundTexts, NEW i \in 1..at' - 1, FatalDocument(input[i])
          PROVE  i = at
      BY <1>1, <2>2 DEF NoneFatalBehind
    <2> QED
      BY <1>1, <1>2, <2>1, <2>2 DEF SoundTexts, EndsOverTheUncaught
  <1>3. CASE ~FatalDocument(input[at])
    <2>1. alive'
      BY <1>1, <1>3, FatalsAreThoseThatDie DEF ReadMessageBegin
    <2>2. ASSUME SoundTexts, NEW i \in 1..at' - 1
          PROVE  ~FatalDocument(input[i])
      <3>1. i = at \/ i \in 1..at - 1
        BY <1>1
      <3> QED
        BY <1>3, <2>2, <3>1 DEF NoneFatalBehind
    <2> QED
      BY <1>1, <2>1, <2>2 DEF SoundTexts, EndsOverTheUncaught
  <1> QED
    BY <1>2, <1>3

LEMMA EndsNext == WriteInv /\ ReadInv /\ EndsOverTheUncaught /\ [Next]_vars => EndsOverTheUncaught'
  <1> SUFFICES ASSUME WriteInv, ReadInv, EndsOverTheUncaught, [Next]_vars
               PROVE  EndsOverTheUncaught'
    OBVIOUS
  <1>1. CASE UNCHANGED vars
    BY <1>1 DEF vars, EndsOverTheUncaught
  <1>2. ASSUME Next PROVE alive /\ NoneFatalBehind
    BY <1>2, OnlyTheLivingStep DEF NoneFatalBehind, SoundTexts, EndsOverTheUncaught
  <1>3. ASSUME NEW h \in CallerHeaders, WriteMessageBegin(h) PROVE EndsOverTheUncaught'
    BY <1>2, <1>3, EndsQuiet DEF Next, WriteMessageBegin
  <1>4. ASSUME NEW s \in Bodies, WriteBody(s) PROVE EndsOverTheUncaught'
    BY <1>2, <1>4, EndsQuiet DEF Next, Bodies, WriteBody
  <1>5. CASE WriteMessageEnd
    BY <1>2, <1>5, EndsWrite DEF Next, WriteInv
  <1>6. CASE ReadMessageBegin
    BY <1>2, <1>6, EndsRead DEF Next, ReadInv
  <1>7. CASE ReadMessageBeginTorn
    <2>1. alive' /\ input' = input /\ ~SoundTexts
      BY <1>7, LenProperties DEF ReadInv, ReadOK, ReadMessageBeginTorn, SoundTexts
    <2> QED
      BY <2>1 DEF SoundTexts, EndsOverTheUncaught
  <1>8. CASE ReadBody \/ ReadMessageEnd
    BY <1>2, <1>8, EndsQuiet DEF Next, ReadBody, ReadMessageEnd
  <1> QED
    BY <1>1, <1>3, <1>4, <1>5, <1>6, <1>7, <1>8 DEF Next, Bodies

(* The process ends only over the calls and the documents that make the C++ *)
(* code throw what the stubs do not catch, and over each such document that *)
(* it takes from sound texts: whatever the calls and the documents are.     *)
THEOREM ProcessEndsOverTheUncaught == Spec => []EndsOverTheUncaught
  <1> QED
    BY WriteInvInit, WriteInvNext, ReadInvInit, ReadInvNext, EndsInit, EndsNext, PTL DEF Spec
=============================================================================
