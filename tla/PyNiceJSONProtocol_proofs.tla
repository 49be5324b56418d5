---------------------- MODULE PyNiceJSONProtocol_proofs ----------------------
(* What TLAPS proves of PyNiceJSONProtocol, for every value of its          *)
(* constants.                                                               *)
EXTENDS PyNiceJSONProtocol, SequenceTheorems, TLAPS

USE DEF header, written, read
-----------------------------------------------------------------------------
(* The types of the documents, and of what is kept of them: an outcome for  *)
(* each that was met, and a whole message for each that was read.           *)
Outcomes == {"read", "refused", "NameError", "EOFError"}
Read(i) == [document |-> i, name |-> input[i].name, type |-> input[i].type,
            seqid |-> input[i].seqid, body |-> input[i].body]
ReadMessages == {Read(i) : i \in {j \in 1..Len(input) : Outcome(input[j]) = "read"}}

ReadOK ==
    /\ input \in Seq(Documents)
    /\ outcomes \in Seq(Outcomes) /\ Len(outcomes) <= Len(input)
    /\ got \in Seq(ReadMessages)

(* While a message is read, the object holds the document that was met      *)
(* last, with its struct or, when that is read, with none.                  *)
ReadsTheDocument ==
    mode_ = "READING_MESSAGE" =>
        LET d == input[Len(outcomes)]
        IN  /\ Len(outcomes) > 0 /\ Outcome(d) = "read"
            /\ message_name_ = d.name /\ message_type_ = d.type /\ message_seqid_ = d.seqid
            /\ \/ message_buffer_ = <<>>
               \/ /\ message_buffer_ = <<d.body>>
                  /\ \A k \in DOMAIN got : got[k].document < Len(outcomes)

\* Documents are read in order, and none that readMessageBegin has yet to meet.
Ascending ==
    /\ \A k \in DOMAIN got : got[k].document <= Len(outcomes)
    /\ \A j, k \in DOMAIN got : j < k => got[j].document < got[k].document

ReadInv == ReadOK /\ ReadsTheDocument /\ Ascending

LEMMA OutcomeType ==
  ASSUME NEW d
  PROVE  /\ Outcome(d) \in Outcomes
         /\ Outcome(d) = "read" => d.flaw = "none" /\ Converts(d.body) /\ Stored(d) = 3
  BY DEF Outcome, Outcomes, Stored

LEMMA ReadInvIsWhole == ReadInv => ReadsWholeMessages
  <1> SUFFICES ASSUME ReadInv PROVE ReadsWholeMessages
    OBVIOUS
  <1>1. ASSUME NEW k \in DOMAIN got
        PROVE  \E i \in 1..Len(input) : got[k] = Read(i) /\ Outcome(input[i]) = "read"
    <2>1. k \in 1..Len(got)
      BY <1>1, LenProperties DEF ReadInv, ReadOK
    <2>2. got[k] \in ReadMessages
      BY <2>1, ElementOfSeq DEF ReadInv, ReadOK
    <2> QED
      BY <2>2 DEF ReadMessages
  <1>2. ASSUME NEW k \in DOMAIN got
        PROVE  /\ got[k] = Read(got[k].document)
               /\ Outcome(input[got[k].document]) = "read"
    BY <1>1, <1>2 DEF Read
  <1> QED
    BY <1>2, OutcomeType DEF Read, ReadInv, Ascending, ReadsWholeMessages

LEMMA ReadInvInit == Init => ReadInv
  <1> SUFFICES ASSUME Init PROVE ReadInv
    OBVIOUS
  <1>1. PICK n \in 0..MaxArrived : input \in [1..n -> Documents]
    BY DEF Init
  <1>2. input \in Seq(Documents) /\ Len(input) = n /\ n \in Nat
    BY <1>1, Bounded
  <1>3. outcomes = <<>> /\ got = <<>> /\ mode_ = "MODE_NONE"
    BY DEF Init
  <1>4. DOMAIN got = {} /\ Len(outcomes) = 0 /\ outcomes \in Seq(Outcomes) /\ got \in Seq(ReadMessages)
    BY <1>3, EmptySeq
  <1> QED
    BY <1>2, <1>3, <1>4 DEF ReadInv, ReadOK, ReadsTheDocument, Ascending

(* Calls that write leave the documents alone, and the end of a message     *)
(* leaves the object not reading.                                           *)
LEMMA ReadInvNotReading ==
  ASSUME ReadInv, UNCHANGED <<input, read>>, mode_' # "READING_MESSAGE"
  PROVE  ReadInv'
  BY DEF ReadInv, ReadOK, ReadMessages, Read, ReadsTheDocument, Ascending

LEMMA ReadInvBegin ==
  ASSUME ReadInv, ReadMessageBegin
  PROVE  ReadInv'
  <1>1. /\ input' = input /\ got' = got /\ Len(outcomes) \in Nat /\ Len(input) \in Nat
        /\ Len(outcomes) < Len(input) /\ mode_ = "MODE_NONE"
    BY LenProperties DEF ReadInv, ReadOK, ReadMessageBegin
  <1>2. outcomes' \in Seq(Outcomes) /\ Len(outcomes') = Len(outcomes) + 1
    BY OutcomeType, AppendProperties DEF ReadInv, ReadOK, ReadMessageBegin
  <1>3. ReadOK'
    BY <1>1, <1>2 DEF ReadInv, ReadOK, ReadMessages, Read
  <1>4. \A k \in DOMAIN got : got[k].document <= Len(outcomes) /\ got[k].document \in Nat
    <2> SUFFICES ASSUME NEW k \in DOMAIN got
                 PROVE  got[k].document <= Len(outcomes) /\ got[k].document \in Nat
      OBVIOUS
    <2>1. k \in 1..Len(got)
      BY LenProperties DEF ReadInv, ReadOK
    <2>2. got[k] \in ReadMessages
      BY <2>1, ElementOfSeq DEF ReadInv, ReadOK
    <2> QED
      BY <2>2 DEF ReadMessages, Read, ReadInv, Ascending
  <1>5. Ascending'
    BY <1>1, <1>2, <1>4 DEF ReadInv, Ascending
  <1>6. ReadsTheDocument'
    <2> SUFFICES ASSUME mode_' = "READING_MESSAGE" PROVE ReadsTheDocument'
      BY DEF ReadsTheDocument
    <2>1. Outcome(Document) = "read" /\ Stored(Document) = 3
      BY <1>1, OutcomeType DEF ReadMessageBegin, Begins
    <2>2. /\ message_name_' = Document.name /\ message_type_' = Document.type
          /\ message_seqid_' = Document.seqid /\ message_buffer_' = <<Document.body>>
      BY <2>1 DEF ReadMessageBegin
    <2>3. Document = input'[Len(outcomes')]
      BY <1>1, <1>2 DEF Document
    <2> QED
      BY <1>1, <1>2, <1>4, <2>1, <2>2, <2>3 DEF ReadsTheDocument
  <1> QED
    BY <1>3, <1>5, <1>6 DEF ReadInv

LEMMA ReadInvToTheEnd ==
  ASSUME ReadInv, ReadsToTheEnd
  PROVE  ReadInv'
  <1>1. /\ input' = input /\ got' = got /\ Len(outcomes) \in Nat /\ Len(input) \in Nat
        /\ Len(outcomes) < Len(input) /\ DOMAIN outcomes = 1..Len(outcomes)
        /\ DOMAIN input = 1..Len(input) /\ outcomes \in [1..Len(outcomes) -> Outcomes]
    BY LenProperties DEF ReadInv, ReadOK, ReadsToTheEnd
  <1>2. outcomes' \in [1..Len(input) -> Outcomes]
    BY <1>1 DEF ReadsToTheEnd, Outcomes
  <1>3. outcomes' \in Seq(Outcomes) /\ Len(outcomes') = Len(input)
    BY <1>1, <1>2
  <1>4. ReadOK'
    BY <1>1, <1>3 DEF ReadInv, ReadOK, ReadMessages, Read
  <1>5. ReadsTheDocument'
    BY DEF ReadsToTheEnd, ReadsTheDocument
  <1>6. ASSUME NEW k \in DOMAIN got
        PROVE  got[k].document \in Nat
    <2>1. k \in 1..Len(got)
      BY <1>6, LenProperties DEF ReadInv, ReadOK
    <2>2. got[k] \in ReadMessages
      BY <2>1, ElementOfSeq DEF ReadInv, ReadOK
    <2> QED
      BY <2>2 DEF ReadMessages, Read
  <1>7. Ascending'
    BY <1>1, <1>3, <1>6 DEF ReadInv, Ascending
  <1> QED
    BY <1>4, <1>5, <1>7 DEF ReadInv

LEMMA ReadInvBody ==
  ASSUME ReadInv, ReadBody
  PROVE  ReadInv'
  <1> DEFINE i == Len(outcomes)
  <1>1. /\ Outcome(input[i]) = "read" /\ i > 0
        /\ message_name_ = input[i].name /\ message_type_ = input[i].type
        /\ message_seqid_ = input[i].seqid /\ message_buffer_ = <<input[i].body>>
        /\ \A k \in DOMAIN got : got[k].document < i
    BY DEF ReadInv, ReadsTheDocument, ReadBody
  <1>2. UNCHANGED <<input, outcomes, header, mode_>>
    BY DEF ReadBody
  <1>3. Head(<<input[i].body>>) = input[i].body /\ Tail(<<input[i].body>>) = <<>>
    OBVIOUS
  <1>4. got' = Append(got, Read(i)) /\ message_buffer_' = <<>>
    BY <1>1, <1>3 DEF ReadBody, Read
  <1>5. i \in 1..Len(input) /\ Read(i) \in ReadMessages
    BY <1>1, LenProperties DEF ReadInv, ReadOK, ReadMessages
  <1>6. got \in Seq(ReadMessages) /\ Len(got) \in Nat /\ DOMAIN got = 1..Len(got)
    BY LenProperties DEF ReadInv, ReadOK
  <1>7. /\ got' \in Seq(ReadMessages) /\ Len(got') = Len(got) + 1
        /\ \A k \in 1..Len(got) : got'[k] = got[k]
        /\ got'[Len(got) + 1] = Read(i)
    BY <1>4, <1>5, <1>6, AppendProperties
  <1>8. DOMAIN got' = 1..Len(got) + 1
    BY <1>6, <1>7, LenProperties
  <1>9. ReadMessages' = ReadMessages
    BY <1>2 DEF ReadMessages, Read
  <1>10. ReadOK' /\ ReadsTheDocument'
    BY <1>1, <1>2, <1>4, <1>7, <1>9 DEF ReadInv, ReadOK, ReadsTheDocument
  <1>11. Read(i).document = i
    BY DEF Read
  <1>12. \A k \in DOMAIN got' : k \in 1..Len(got) \/ k = Len(got) + 1
    BY <1>6, <1>8
  <1>13. \A k \in DOMAIN got' : got'[k].document <= Len(outcomes')
    BY <1>2, <1>5, <1>6, <1>7, <1>11, <1>12 DEF ReadInv, Ascending
  <1>14. ASSUME NEW j \in DOMAIN got', NEW k \in DOMAIN got', j < k
         PROVE  got'[j].document < got'[k].document
    <2>1. j \in 1..Len(got)
      BY <1>6, <1>8, <1>12, <1>14
    <2> QED
      BY <1>1, <1>6, <1>7, <1>11, <1>12, <1>14, <2>1 DEF ReadInv, Ascending
  <1> QED
    BY <1>10, <1>13, <1>14 DEF ReadInv, Ascending

LEMMA ReadInvNext == ReadInv /\ [Next]_vars => ReadInv'
  <1> SUFFICES ASSUME ReadInv, [Next]_vars
               PROVE  ReadInv'
    OBVIOUS
  <1>1. CASE UNCHANGED vars
    BY <1>1 DEF vars, ReadInv, ReadOK, ReadMessages, Read, ReadsTheDocument, Ascending
  <1>2. CASE \/ \E h \in CallerHeaders : WriteMessageBegin(h)
             \/ \E s \in Structs \union {Odd} : WriteBody(s)
             \/ WriteMessageEnd
             \/ ReadMessageEnd
    <2>1. UNCHANGED <<input, read>> /\ mode_' # "READING_MESSAGE"
      BY <1>2 DEF WriteMessageBegin, WriteBody, WriteMessageEnd, ReadMessageEnd
    <2> QED
      BY <2>1, ReadInvNotReading
  <1> QED
    BY <1>1, <1>2, ReadInvBegin, ReadInvToTheEnd, ReadInvBody DEF Next

(* No message that is read is mixed from two, or read twice: what a refused *)
(* document has stored is overwritten before it can be seen.                *)
THEOREM WholeMessagesAreRead == Spec => []ReadsWholeMessages
  <1> QED
    BY ReadInvInit, ReadInvNext, ReadInvIsWhole, PTL DEF Spec
-----------------------------------------------------------------------------
(* The types of what is written: a call has at most one struct.             *)
Bodies == Structs \union {Odd}
Calls == [header : CallerHeaders, body : {<<>>} \union {<<s>> : s \in Bodies}]
Seqids == {0} \union {input[i].seqid : i \in 1..Len(input)}
SentDocuments ==
    {[name |-> h.name, type |-> h.type, seqid |-> n, body |-> s] :
        h \in CallerHeaders, n \in Seqids, s \in Bodies}

WrittenOK ==
    /\ sent \in Seq(SentDocuments)
    /\ asked \in Seq(Calls)

(* While a message is written, the object holds the name, the type and the  *)
(* struct of the one that the caller asked for last.                        *)
WritesTheCall ==
    mode_ = "WRITING_MESSAGE" =>
        /\ call \in Calls
        /\ message_name_ = call.header.name /\ message_type_ = call.header.type
        /\ message_buffer_ = call.body

(* Whatever is not read is written with a seqid left behind by a refused    *)
(* document, or with none.                                                  *)
SeqidIsLeft == mode_ # "READING_MESSAGE" => message_seqid_ \in {0} \union LeftBehind

WriteInv == WrittenOK /\ WritesTheCall /\ SeqidIsLeft /\ SentAsAskedButForSeqid

(* SentAsAskedButForSeqid of one document and the call it was written for.  *)
SentFor(document, c) ==
    /\ document.name = c.header.name /\ document.type = c.header.type
    /\ <<document.body>> = c.body
    /\ document.seqid \in {0} \union LeftBehind

(* Nothing that was left behind is lost when more documents are met.        *)
LEMMA LeftBehindGrows ==
  ASSUME input' = input, DOMAIN outcomes \subseteq DOMAIN outcomes',
         \A i \in DOMAIN outcomes : outcomes'[i] = outcomes[i]
  PROVE  LeftBehind \subseteq LeftBehind'
  BY DEF LeftBehind, Stored

LEMMA OutcomesGrow ==
  ASSUME ReadOK, Next
  PROVE  LeftBehind \subseteq LeftBehind' /\ input' = input
  <1>1. Len(outcomes) \in Nat /\ Len(input) \in Nat /\ DOMAIN input = 1..Len(input)
        /\ DOMAIN outcomes = 1..Len(outcomes) /\ Len(outcomes) <= Len(input)
    BY LenProperties DEF ReadOK
  <1>2. CASE ReadMessageBegin
    <2>1. /\ outcomes' \in Seq(Outcomes) /\ Len(outcomes') = Len(outcomes) + 1
          /\ \A i \in 1..Len(outcomes) : outcomes'[i] = outcomes[i]
      BY <1>2, OutcomeType, AppendProperties DEF ReadOK, ReadMessageBegin
    <2>2. DOMAIN outcomes' = 1..Len(outcomes) + 1
      BY <2>1, LenProperties
    <2> QED
      BY <1>1, <1>2, <2>1, <2>2, LeftBehindGrows DEF ReadMessageBegin
  <1>3. CASE ReadsToTheEnd
    BY <1>1, <1>3, LeftBehindGrows DEF ReadsToTheEnd
  <1>4. CASE UNCHANGED <<input, outcomes>>
    BY <1>4, LeftBehindGrows
  <1> QED
    BY <1>2, <1>3, <1>4
    DEF Next, WriteMessageBegin, WriteBody, WriteMessageEnd, ReadBody, ReadMessageEnd

(* What was sent stays as it was asked for.                                 *)
LEMMA SentBefore ==
  ASSUME WrittenOK, SentAsAskedButForSeqid, UNCHANGED <<sent, asked>>, input' = input,
         LeftBehind \subseteq LeftBehind'
  PROVE  WrittenOK' /\ SentAsAskedButForSeqid'
  BY DEF WrittenOK, SentDocuments, Seqids, SentAsAskedButForSeqid

LEMMA SentOnce ==
  ASSUME WrittenOK, SentAsAskedButForSeqid, UNCHANGED <<input, outcomes>>,
         NEW document \in SentDocuments, NEW c \in Calls, SentFor(document, c),
         sent' = Append(sent, document), asked' = Append(asked, c)
  PROVE  WrittenOK' /\ SentAsAskedButForSeqid'
  <1>1. /\ sent \in Seq(SentDocuments) /\ asked \in Seq(Calls)
        /\ Len(sent) \in Nat /\ Len(asked) = Len(sent) /\ DOMAIN sent = 1..Len(sent)
    BY LenProperties DEF WrittenOK, SentAsAskedButForSeqid
  <1>2. /\ sent' \in Seq(SentDocuments) /\ Len(sent') = Len(sent) + 1
        /\ \A i \in 1..Len(sent) : sent'[i] = sent[i]
        /\ sent'[Len(sent) + 1] = document
    BY <1>1, AppendProperties
  <1>3. /\ asked' \in Seq(Calls) /\ Len(asked') = Len(asked) + 1
        /\ \A i \in 1..Len(asked) : asked'[i] = asked[i]
        /\ asked'[Len(asked) + 1] = c
    BY <1>1, AppendProperties
  <1>4. DOMAIN sent' = 1..Len(sent) + 1
    BY <1>1, <1>2, LenProperties
  <1>5. SentDocuments' = SentDocuments /\ LeftBehind' = LeftBehind
    BY DEF SentDocuments, Seqids, LeftBehind, Stored
  <1>6. ASSUME NEW k \in DOMAIN sent'
        PROVE  SentFor(sent'[k], asked'[k])
    <2>1. CASE k \in 1..Len(sent)
      BY <1>1, <1>2, <1>3, <2>1 DEF SentAsAskedButForSeqid, SentFor
    <2>2. CASE k = Len(sent) + 1
      BY <1>1, <1>2, <1>3, <2>2
    <2> QED
      BY <1>1, <1>4, <1>6, <2>1, <2>2
  <1> QED
    BY <1>1, <1>2, <1>3, <1>5, <1>6 DEF WrittenOK, SentAsAskedButForSeqid, SentFor

LEMMA WriteInvInit == Init => WriteInv
  <1> SUFFICES ASSUME Init PROVE WriteInv
    OBVIOUS
  <1>1. sent = <<>> /\ asked = <<>> /\ mode_ = "MODE_NONE" /\ message_seqid_ = 0
    BY DEF Init
  <1>2. WrittenOK
    BY <1>1, EmptySeq DEF WrittenOK
  <1>3. DOMAIN sent = {} /\ Len(sent) = Len(asked)
    BY <1>1
  <1> QED
    BY <1>1, <1>2, <1>3 DEF WriteInv, WritesTheCall, SeqidIsLeft, SentAsAskedButForSeqid

LEMMA WriteInvBegin ==
  ASSUME WriteInv, ReadOK, NEW h \in CallerHeaders, WriteMessageBegin(h)
  PROVE  WriteInv'
  <1>1. UNCHANGED <<input, outcomes, sent, asked, message_seqid_>> /\ mode_ = "MODE_NONE"
    BY DEF WriteMessageBegin
  <1>2. LeftBehind' = LeftBehind
    BY <1>1 DEF LeftBehind, Stored
  <1>3. WrittenOK' /\ SentAsAskedButForSeqid' /\ SeqidIsLeft'
    BY <1>1, <1>2, SentBefore DEF WriteInv, SeqidIsLeft
  <1>4. WritesTheCall'
    BY DEF WritesTheCall, WriteMessageBegin, Calls
  <1> QED
    BY <1>3, <1>4 DEF WriteInv

LEMMA WriteInvBody ==
  ASSUME WriteInv, ReadOK, NEW s \in Bodies, WriteBody(s)
  PROVE  WriteInv'
  <1>1. UNCHANGED <<input, outcomes, sent, asked, header, mode_>> /\ mode_ = "WRITING_MESSAGE"
    BY DEF WriteBody
  <1>2. LeftBehind' = LeftBehind
    BY <1>1 DEF LeftBehind, Stored
  <1>3. WrittenOK' /\ SentAsAskedButForSeqid' /\ SeqidIsLeft'
    BY <1>1, <1>2, SentBefore DEF WriteInv, SeqidIsLeft
  <1>4. call \in Calls /\ message_buffer_ = <<>> /\ Append(<<>>, s) = <<s>>
    BY <1>1 DEF WriteInv, WritesTheCall, WriteBody
  <1>5. call' \in Calls /\ call'.header = call.header /\ call'.body = <<s>>
    BY <1>4 DEF WriteBody, Calls
  <1>6. WritesTheCall'
    BY <1>1, <1>4, <1>5 DEF WriteInv, WritesTheCall, WriteBody
  <1> QED
    BY <1>3, <1>6 DEF WriteInv

LEMMA WriteInvEnd ==
  ASSUME WriteInv, ReadOK, WriteMessageEnd
  PROVE  WriteInv'
  <1>1. /\ call \in Calls
        /\ message_name_ = call.header.name /\ message_type_ = call.header.type
        /\ message_buffer_ = call.body /\ message_seqid_ \in {0} \union LeftBehind
    BY DEF WriteInv, WritesTheCall, SeqidIsLeft, WriteMessageEnd
  <1>2. UNCHANGED <<input, outcomes, call>> /\ mode_' # "WRITING_MESSAGE"
    BY DEF WriteMessageEnd
  <1>3. LeftBehind' = LeftBehind
    BY <1>2 DEF LeftBehind, Stored
  <1>4. WritesTheCall'
    BY <1>2 DEF WritesTheCall
  <1>5. CASE ~CanBeSent
    <2>1. UNCHANGED <<sent, asked, message_seqid_>>
      BY <1>5 DEF WriteMessageEnd
    <2> QED
      BY <1>1, <1>2, <1>3, <1>4, <2>1, SentBefore DEF WriteInv, SeqidIsLeft
  <1>6. CASE CanBeSent
    <2> DEFINE document == [name |-> message_name_, type |-> message_type_,
                            seqid |-> message_seqid_, body |-> Head(message_buffer_)]
    <2>1. sent' = Append(sent, document) /\ asked' = Append(asked, call) /\ message_seqid_' = 0
      BY <1>6 DEF WriteMessageEnd
    <2>2. PICK s \in Bodies : call.body = <<s>>
      BY <1>1, <1>6 DEF CanBeSent, Calls
    <2>3. document.body = s /\ call.header \in CallerHeaders
      BY <1>1, <2>2 DEF Calls
    <2>4. message_seqid_ \in Seqids
      <3>1. DOMAIN outcomes \subseteq 1..Len(input)
        BY LenProperties DEF ReadOK
      <3> QED
        BY <1>1, <3>1 DEF Seqids, LeftBehind
    <2>5. document \in SentDocuments
      BY <1>1, <2>3, <2>4 DEF SentDocuments
    <2>6. SentFor(document, call)
      BY <1>1, <2>2, <2>3 DEF SentFor
    <2>7. WrittenOK' /\ SentAsAskedButForSeqid'
      <3> HIDE DEF document
      <3> QED
        BY <1>1, <1>2, <2>1, <2>5, <2>6, SentOnce DEF WriteInv
    <2> QED
      BY <1>4, <2>1, <2>7 DEF WriteInv, SeqidIsLeft
  <1> QED
    BY <1>5, <1>6

LEMMA WriteInvReadBegin ==
  ASSUME WriteInv, ReadOK, ReadMessageBegin
  PROVE  WriteInv'
  <1>1. /\ LeftBehind \subseteq LeftBehind' /\ input' = input
        /\ UNCHANGED <<sent, asked, call>> /\ mode_ = "MODE_NONE"
    BY OutcomesGrow DEF Next, ReadMessageBegin
  <1>2. WrittenOK' /\ SentAsAskedButForSeqid' /\ WritesTheCall'
    BY <1>1, SentBefore DEF WriteInv, WritesTheCall, ReadMessageBegin
  <1>3. SeqidIsLeft'
    <2> SUFFICES ASSUME mode_' # "READING_MESSAGE"
                 PROVE  message_seqid_' \in {0} \union LeftBehind'
      BY DEF SeqidIsLeft
    <2>1. CASE message_seqid_' = message_seqid_
      BY <1>1, <2>1 DEF WriteInv, SeqidIsLeft
    <2>2. CASE message_seqid_' # message_seqid_
      <3>1. Stored(Document) = 3 /\ Outcome(Document) # "read" /\ message_seqid_' = Document.seqid
        BY <2>2, OutcomeType DEF ReadMessageBegin, Begins, Stored
      <3>2. Len(outcomes) \in Nat /\ Outcome(Document) \in Outcomes
        BY OutcomeType, LenProperties DEF ReadOK
      <3>3. /\ outcomes' \in Seq(Outcomes) /\ Len(outcomes') = Len(outcomes) + 1
            /\ outcomes'[Len(outcomes) + 1] = Outcome(Document)
        BY <3>2, AppendProperties DEF ReadOK, ReadMessageBegin
      <3>4. Len(outcomes) + 1 \in DOMAIN outcomes'
        BY <3>2, <3>3, LenProperties
      <3> QED
        BY <1>1, <3>1, <3>3, <3>4 DEF LeftBehind, Document
    <2> QED
      BY <2>1, <2>2
  <1> QED
    BY <1>2, <1>3 DEF WriteInv

LEMMA WriteInvNext == WriteInv /\ ReadOK /\ [Next]_vars => WriteInv'
  <1> SUFFICES ASSUME WriteInv, ReadOK, [Next]_vars
               PROVE  WriteInv'
    OBVIOUS
  <1>1. CASE UNCHANGED vars
    BY <1>1
    DEF vars, WriteInv, WrittenOK, SentDocuments, Seqids, WritesTheCall, SeqidIsLeft, LeftBehind,
        Stored, SentAsAskedButForSeqid
  <1>2. CASE ReadsToTheEnd \/ ReadBody \/ ReadMessageEnd
    <2>1. LeftBehind \subseteq LeftBehind' /\ input' = input
      BY <1>2, OutcomesGrow DEF Next
    <2>2. UNCHANGED <<sent, asked, call>> /\ mode_' # "WRITING_MESSAGE"
      BY <1>2 DEF ReadsToTheEnd, ReadBody, ReadMessageEnd
    <2>3. SeqidIsLeft'
      BY <1>2, <2>1 DEF WriteInv, SeqidIsLeft, ReadsToTheEnd, ReadBody, ReadMessageEnd
    <2> QED
      BY <2>1, <2>2, <2>3, SentBefore DEF WriteInv, WritesTheCall
  <1> QED
    BY <1>1, <1>2, WriteInvBegin, WriteInvBody, WriteInvEnd, WriteInvReadBegin DEF Next, Bodies

(* Every document sent is the message its caller asked for, except for its  *)
(* seqid, which is 0 or that of a document whose struct was refused: never  *)
(* one that the caller gave, and never that of a message that was read.     *)
THEOREM MessagesAreSentAsAskedButForSeqid == Spec => []SentAsAskedButForSeqid
  <1>1. ReadInv => ReadOK
    BY DEF ReadInv
  <1>2. WriteInv => SentAsAskedButForSeqid
    BY DEF WriteInv
  <1> QED
    BY <1>1, <1>2, ReadInvInit, ReadInvNext, WriteInvInit, WriteInvNext, PTL DEF Spec
==============================================================================
