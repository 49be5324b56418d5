----------------------- MODULE NiceJSONProtocol_proofs -----------------------
(* What TLAPS proves of NiceJSONProtocol, for every value of its constants. *)
EXTENDS NiceJSONProtocol, SequenceTheorems, TLAPS

(* The conversion of a JSON number to the int32_t seqid stays in range ...  *)
LEMMA ToInt32Range == \A n \in Int : ToInt32(n) \in Int32
  <1> SUFFICES ASSUME NEW n \in Int PROVE ToInt32(n) \in Int32
    OBVIOUS
  <1>1. HalfRange \in Nat /\ HalfRange > 0
    BY ConstantsAssumption
  <1>2. (n + HalfRange) % (2 * HalfRange) \in 0 .. (2 * HalfRange - 1)
    BY <1>1
  <1> QED
    BY <1>1, <1>2 DEF ToInt32, Int32

(* ... and is the identity on every seqid an int32_t holds.                 *)
LEMMA ToInt32Identity == \A n \in Int32 : ToInt32(n) = n
  <1> SUFFICES ASSUME NEW n \in Int32 PROVE ToInt32(n) = n
    OBVIOUS
  <1>1. HalfRange \in Nat /\ HalfRange > 0
    BY ConstantsAssumption
  <1>2. n + HalfRange \in 0 .. (2 * HalfRange - 1)
    BY <1>1 DEF Int32
  <1>3. (n + HalfRange) % (2 * HalfRange) = n + HalfRange
    BY <1>1, <1>2
  <1> QED
    BY <1>1, <1>3 DEF ToInt32, Int32
-----------------------------------------------------------------------------
(* Facts about the operators the actions are built from.                    *)

LEMMA Subsets ==
  /\ Plain \subseteq Pieces
  /\ Stop \in Pieces /\ Malformed \in Pieces
  /\ CallerPieces \subseteq Pieces
  BY ConstantsAssumption DEF Plain, Pieces

(* What is left of a sequence is a sequence of the same elements.           *)
LEMMA SuffixType ==
  ASSUME NEW S, NEW s \in Seq(S), NEW k \in 0 .. Len(s)
  PROVE  SubSeq(s, k + 1, Len(s)) \in Seq(S)
  <1>1. Len(s) \in Nat /\ \A i \in 1 .. Len(s) : s[i] \in S
    BY ElementOfSeq, LenProperties
  <1>2. k + 1 \in Int /\ Len(s) \in Int /\ \A i \in (k + 1) .. Len(s) : s[i] \in S
    BY <1>1
  <1> QED
    BY <1>2, SubSeqProperties

LEMMA PrefixType ==
  ASSUME NEW S, NEW s \in Seq(S), NEW k \in 0 .. Len(s)
  PROVE  SubSeq(s, 1, k) \in Seq(S)
  <1>1. Len(s) \in Nat /\ \A i \in 1 .. Len(s) : s[i] \in S
    BY ElementOfSeq, LenProperties
  <1>2. k \in Int /\ \A i \in 1 .. k : s[i] \in S
    BY <1>1
  <1> QED
    BY <1>2, SubSeqProperties

(* The document made of a struct that ends at n is a document.              *)
LEMMA DumpedType ==
  ASSUME NEW name \in Names, NEW type \in Types, NEW seqid \in Int32,
         NEW b \in Seq(Pieces), NEW n \in DOMAIN b, StructEndsAt(b, n)
  PROVE  /\ Dumped(name, type, seqid, SubSeq(b, 1, n - 1)) \in Document
         /\ Dumped(name, type, seqid, SubSeq(b, 1, n - 1)).flaw # "truncated"
         /\ Truncation(Dumped(name, type, seqid, SubSeq(b, 1, n - 1))) \in Document
         /\ Truncation(Dumped(name, type, seqid, SubSeq(b, 1, n - 1))).flaw = "truncated"
  <1> DEFINE body == SubSeq(b, 1, n - 1)
  <1>1. n \in 1 .. Len(b) /\ Len(b) \in Nat
    BY LenProperties
  <1>2. body \in Seq(Plain)
    <2>1. n - 1 \in Int /\ \A i \in 1 .. (n - 1) : b[i] \in Plain
      BY <1>1 DEF StructEndsAt
    <2> QED
      BY <2>1, SubSeqProperties
  <1>3. seqid \in Int
    BY ConstantsAssumption DEF Int32
  <1> HIDE DEF body
  <1>4. Dumped(name, type, seqid, body).flaw \in {"syntax", "schema", "none"}
    BY DEF Dumped
  <1>5. Dumped(name, type, seqid, body) =
          [name |-> name, type |-> type, seqid |-> seqid, body |-> body,
           flaw |-> Dumped(name, type, seqid, body).flaw]
    BY DEF Dumped
  <1>6. Dumped(name, type, seqid, body) \in Document
    BY <1>2, <1>3, <1>4, <1>5 DEF Document, Flaws
  <1>7. Truncation(Dumped(name, type, seqid, body)) \in Document
        /\ Truncation(Dumped(name, type, seqid, body)).flaw = "truncated"
    BY <1>6 DEF Document, Truncation, Flaws, Unterminated
  <1> QED
    BY <1>4, <1>6, <1>7 DEF body

(* The document at the cursor is one the peer could send, and what the      *)
(* caller can read of it is made of pieces.                                 *)
LEMMA ArrivingType ==
  ASSUME TypeOK, pos < Len(arrived)
  PROVE  Arriving \in Document /\ Payload(Arriving) \in Seq(Pieces)
  <1>1. pos + 1 \in 1 .. Len(arrived)
    BY LenProperties DEF TypeOK
  <1>2. Arriving \in Document
    BY <1>1, ElementOfSeq DEF TypeOK, Arriving
  <1>3. Arriving.body \in Seq(Pieces)
    BY <1>2, Subsets, SeqMonotonic DEF Document
  <1>4. Append(Arriving.body, Stop) \in Seq(Pieces)
    BY <1>3, Subsets, AppendProperties
  <1>5. <<Malformed, Stop>> \in Seq(Pieces)
    BY Subsets
  <1> QED
    BY <1>2, <1>4, <1>5 DEF Payload

(* Storing a header keeps the header fields typed.                          *)
LEMMA StoreHeaderType ==
  ASSUME TypeOK, NEW d \in Document, StoreHeader(d)
  PROVE  /\ message_name' \in Names \union {NoName}
         /\ message_type' \in Types
         /\ message_seqid' \in Int32
         /\ d.flaw \notin BadHeader =>
              /\ message_name' = d.name /\ d.name \in Names
              /\ message_type' = d.type
              /\ message_seqid' = ToInt32(d.seqid)
  <1>1. d.name \in Names /\ d.type \in Types /\ d.seqid \in Int
    BY DEF Document
  <1>2. ToInt32(d.seqid) \in Int32
    BY <1>1, ToInt32Range
  <1> QED
    BY <1>1, <1>2 DEF StoreHeader, TypeOK, BadHeader
-----------------------------------------------------------------------------
(* Type correctness.                                                        *)

USE DEF header, inbound, writes, reads

LEMMA TypeInit == Init => TypeOK
  <1> SUFFICES ASSUME Init PROVE TypeOK
    OBVIOUS
  <1>1. -1 \in Int32
    BY ConstantsAssumption DEF Int32
  <1>2. <<>> \in Seq(Document) /\ <<>> \in Seq(Request)
        /\ <<>> \in Seq(Receipt) /\ <<>> \in Seq(Pieces) /\ Len(arrived) = 0
    BY EmptySeq DEF Init
  <1>3. current \in Request
    BY <1>1, <1>2 DEF Init, Request, Types
  <1>4. pos \in 0 .. Len(arrived) /\ mid = FALSE
    BY <1>2 DEF Init
  <1> QED
    BY <1>1, <1>2, <1>3, <1>4 DEF Init, TypeOK, Modes, Types

LEMMA TypeWriteMessageBegin ==
  ASSUME TypeOK, NEW h \in CallerHeaders, WriteMessageBegin(h.name, h.type, h.seqid)
  PROVE  TypeOK'
  <1>1. h.name \in Names /\ h.type \in Types /\ h.seqid \in Int32
    BY ConstantsAssumption
  <1>2. FreshBuffer \in Seq(Pieces) /\ FreshBuffer # NoBuffer
    BY EmptySeq, ConstantsAssumption DEF FreshBuffer
  <1>3. current' \in Request
    BY <1>1, EmptySeq DEF WriteMessageBegin, Request
  <1>4. h.name # NoName
    BY <1>1, ConstantsAssumption
  <1> QED
    BY <1>1, <1>2, <1>3, <1>4 DEF WriteMessageBegin, TypeOK, Modes

LEMMA TypeWriteBody ==
  ASSUME TypeOK, NEW p \in CallerPieces, WriteBody(p)
  PROVE  TypeOK'
  <1>1. p \in Pieces
    BY Subsets
  <1>2. buffer \in Seq(Pieces)
    BY DEF TypeOK, WriteBody, MustBeWriting
  <1>3. buffer' \in Seq(Pieces) /\ buffer' # NoBuffer
    BY <1>1, <1>2, AppendProperties, ConstantsAssumption DEF WriteBody
  <1>4. Append(current.body, p) \in Seq(Pieces)
    BY <1>1, AppendProperties DEF TypeOK, Request
  <1>5. current' \in Request
    BY <1>4 DEF WriteBody, TypeOK, Request
  <1> QED
    BY <1>3, <1>5 DEF WriteBody, TypeOK

LEMMA TypeWriteMessageEnd ==
  ASSUME TypeOK,
         WriteMessageEnd \/ WriteMessageEndMarshalFails
         \/ WriteMessageEndTransportFails \/ WriteMessageEndAborts
  PROVE  TypeOK'
  <1>1. asked' \in Seq(Request)
    <2>1. asked' = Append(asked, current)
      BY DEF WriteMessageEnd, WriteMessageEndMarshalFails,
             WriteMessageEndTransportFails, WriteMessageEndAborts
    <2> QED
      BY <2>1, AppendProperties DEF TypeOK
  <1>2. /\ mode = "WRITING_MESSAGE" /\ buffer \in Seq(Pieces)
        /\ message_name \in Names /\ message_type \in Types /\ message_seqid \in Int32
    BY DEF TypeOK, MustBeWriting, WriteMessageEnd, WriteMessageEndMarshalFails,
           WriteMessageEndTransportFails, WriteMessageEndAborts
  <1>3. \A k \in 0 .. Len(buffer) : SubSeq(buffer, k + 1, Len(buffer)) \in Seq(Pieces)
    BY <1>2, SuffixType
  <1>4. \A n \in DOMAIN buffer : n \in 1 .. Len(buffer) /\ Len(buffer) \in Nat
    BY <1>2, LenProperties
  <1>5. ASSUME NEW n \in DOMAIN buffer, StructEndsAt(buffer, n)
        PROVE  /\ Append(out, Emitted(n)) \in Seq(Document)
               /\ Append(out, Truncation(Emitted(n))) \in Seq(Document)
    <2>1. Emitted(n) \in Document /\ Truncation(Emitted(n)) \in Document
      BY <1>2, <1>5, DumpedType DEF Emitted
    <2> QED
      BY <2>1, AppendProperties DEF TypeOK
  <1>6. CASE WriteMessageEnd
    <2>1. PICK n \in DOMAIN buffer :
            /\ StructEndsAt(buffer, n)
            /\ out' = Append(out, Emitted(n))
            /\ buffer' = SubSeq(buffer, n + 1, Len(buffer))
      BY <1>6 DEF WriteMessageEnd
    <2>2. out' \in Seq(Document) /\ buffer' \in Seq(Pieces)
      BY <2>1, <1>3, <1>4, <1>5
    <2> QED
      BY <1>1, <1>6, <2>2 DEF WriteMessageEnd, TypeOK, Modes
  <1>7. CASE WriteMessageEndMarshalFails
    <2>1. buffer' \in Seq(Pieces)
      BY <1>3, <1>7 DEF WriteMessageEndMarshalFails
    <2> QED
      BY <1>1, <1>7, <2>1 DEF WriteMessageEndMarshalFails, TypeOK, Modes, ModeWhileEnding
  <1>8. CASE WriteMessageEndTransportFails
    <2>1. PICK n \in DOMAIN buffer :
            /\ StructEndsAt(buffer, n)
            /\ out' = out \/ out' = Append(out, Truncation(Emitted(n)))
            /\ buffer' = SubSeq(buffer, n + 1, Len(buffer))
      BY <1>8 DEF WriteMessageEndTransportFails
    <2>2. buffer' \in Seq(Pieces)
      BY <2>1, <1>3, <1>4
    <2>3. out \in Seq(Document)
      BY DEF TypeOK
    <2>4. out' \in Seq(Document)
      BY <2>1, <2>3, <1>5
    <2> QED
      BY <1>1, <1>8, <2>2, <2>4 DEF WriteMessageEndTransportFails, TypeOK, Modes, ModeWhileEnding
  <1>9. CASE WriteMessageEndAborts
    BY <1>1, <1>9 DEF WriteMessageEndAborts, TypeOK, Modes, ModeWhileEnding
  <1> QED
    BY <1>6, <1>7, <1>8, <1>9

(* The cursor steps over one whole document.                                *)
LEMMA TypeCursor ==
  ASSUME TypeOK, AtWholeDocument, ConsumeDocument
  PROVE  /\ pos' \in 0 .. Len(arrived') /\ mid' = FALSE
         /\ arrived' \in Seq(Document) /\ closed' \in BOOLEAN
  <1>1. Len(arrived) \in Nat
    BY LenProperties DEF TypeOK
  <1> QED
    BY <1>1 DEF TypeOK, AtWholeDocument, ConsumeDocument

LEMMA TypeReadMessageBegin ==
  ASSUME TypeOK,
         ReadMessageBegin \/ ReadMessageBeginBadHeader
         \/ ReadMessageBeginDemarshalFails \/ ReadMessageBeginAborts
  PROVE  TypeOK'
  <1>1. AtWholeDocument /\ ConsumeDocument /\ StoreHeader(Arriving) /\ pos < Len(arrived)
    BY DEF AtWholeDocument, ReadMessageBegin, ReadMessageBeginBadHeader,
           ReadMessageBeginDemarshalFails, ReadMessageBeginAborts
  <1>2. /\ pos' \in 0 .. Len(arrived') /\ mid' = FALSE
        /\ arrived' \in Seq(Document) /\ closed' \in BOOLEAN
    BY <1>1, TypeCursor
  <1>3. Arriving \in Document /\ Payload(Arriving) \in Seq(Pieces)
    BY <1>1, ArrivingType
  <1>4. /\ message_name' \in Names \union {NoName}
        /\ message_type' \in Types
        /\ message_seqid' \in Int32
        /\ Arriving.flaw \notin BadHeader =>
              message_name' \in Names /\ message_name' # NoName
    BY <1>1, <1>3, StoreHeaderType, ConstantsAssumption
  <1>5. CASE ReadMessageBegin
    <2>1. buffer' \in Seq(Pieces) /\ buffer' # NoBuffer
      <3>1. FreshBuffer \o Payload(Arriving) \in Seq(Pieces)
        BY <1>3, EmptySeq, ConcatProperties DEF FreshBuffer
      <3> QED
        BY <1>5, <3>1, ConstantsAssumption DEF ReadMessageBegin
    <2>2. got' \in Seq(Receipt) /\ got' # <<>>
      <3> DEFINE r == [at |-> pos + 1, name |-> message_name', type |-> message_type',
                       seqid |-> message_seqid', body |-> <<>>]
      <3>1. r \in Receipt
        BY <1>4, <1>5, EmptySeq DEF ReadMessageBegin, Receipt, TypeOK
      <3>2. got' = Append(got, r)
        BY <1>5 DEF ReadMessageBegin
      <3> QED
        BY <3>1, <3>2, AppendProperties DEF TypeOK
    <2>3. message_name' # NoName
      BY <1>4, <1>5 DEF ReadMessageBegin
    <2> QED
      BY <1>2, <1>4, <1>5, <2>1, <2>2, <2>3 DEF ReadMessageBegin, TypeOK, Modes
  <1>6. CASE ReadMessageBeginBadHeader
    <2>1. /\ mode = "NONE" /\ UNCHANGED <<mode, buffer, writes, got, aborted>>
          /\ refused' \in Nat
      BY <1>1, <1>6 DEF ReadMessageBeginBadHeader, AtWholeDocument, MustBeNone, TypeOK
    <2> QED
      BY <1>2, <1>4, <2>1 DEF TypeOK
  <1>7. CASE ReadMessageBeginDemarshalFails
    <2>1. Arriving.body \in Seq(Pieces)
      BY <1>3, Subsets, SeqMonotonic DEF Document
    <2>2. \A k \in 0 .. Len(Arriving.body) :
             FreshBuffer \o SubSeq(Arriving.body, 1, k) \in Seq(Pieces)
      BY <2>1, PrefixType, EmptySeq, ConcatProperties DEF FreshBuffer
    <2>3. buffer' \in Seq(Pieces)
      BY <1>7, <2>2 DEF ReadMessageBeginDemarshalFails
    <2>4. /\ mode = "NONE" /\ UNCHANGED <<mode, writes, got, aborted>>
          /\ refused' \in Nat
      BY <1>1, <1>7 DEF ReadMessageBeginDemarshalFails, AtWholeDocument, MustBeNone, TypeOK
    <2> QED
      BY <1>2, <1>4, <2>3, <2>4 DEF TypeOK
  <1>8. CASE ReadMessageBeginAborts
    BY <1>1, <1>2, <1>4, <1>8, EmptySeq
    DEF ReadMessageBeginAborts, AtWholeDocument, MustBeNone, TypeOK, FreshBuffer
  <1> QED
    BY <1>5, <1>6, <1>7, <1>8

LEMMA TypeReadBody == ASSUME TypeOK, ReadBody PROVE TypeOK'
  <1>1. buffer \in Seq(Pieces) /\ buffer # <<>> /\ got # <<>>
    BY DEF TypeOK, ReadBody, MustBeReading
  <1>2. Head(buffer) \in Pieces /\ Tail(buffer) \in Seq(Pieces)
    BY <1>1, HeadTailProperties
  <1>3. Len(got) \in 1 .. Len(got) /\ got[Len(got)] \in Receipt
    BY <1>1, LenProperties, EmptySeq, ElementOfSeq DEF TypeOK
  <1> DEFINE r == [got[Len(got)] EXCEPT !.body = Append(@, Head(buffer))]
  <1>4. Append(got[Len(got)].body, Head(buffer)) \in Seq(Pieces)
    BY <1>2, <1>3, AppendProperties DEF Receipt
  <1>5. r \in Receipt
    BY <1>3, <1>4 DEF Receipt
  <1>6. got' = [got EXCEPT ![Len(got)] = r]
    BY DEF ReadBody
  <1>7. got' \in Seq(Receipt) /\ Len(got') = Len(got)
    BY <1>3, <1>5, <1>6, ExceptSeq DEF TypeOK
  <1>8. got' # <<>>
    BY <1>3, <1>7, EmptySeq
  <1>9. buffer' \in Seq(Pieces) /\ buffer' # NoBuffer
    BY <1>2, ConstantsAssumption DEF ReadBody
  <1> QED
    BY <1>7, <1>8, <1>9 DEF ReadBody, TypeOK

LEMMA TypeStep == TypeOK /\ [Next]_vars => TypeOK'
  <1> SUFFICES ASSUME TypeOK, [Next]_vars PROVE TypeOK'
    OBVIOUS
  <1>1. ASSUME NEW h \in CallerHeaders, WriteMessageBegin(h.name, h.type, h.seqid)
        PROVE  TypeOK'
    BY <1>1, TypeWriteMessageBegin
  <1>2. ASSUME NEW p \in CallerPieces, WriteBody(p) PROVE TypeOK'
    BY <1>2, TypeWriteBody
  <1>3. ASSUME WriteMessageEnd \/ WriteMessageEndMarshalFails
               \/ WriteMessageEndTransportFails \/ WriteMessageEndAborts
        PROVE  TypeOK'
    BY <1>3, TypeWriteMessageEnd
  <1>4. ASSUME ReadMessageBegin \/ ReadMessageBeginBadHeader
               \/ ReadMessageBeginDemarshalFails \/ ReadMessageBeginAborts
        PROVE  TypeOK'
    BY <1>4, TypeReadMessageBegin
  <1>5. CASE ReadMessageBeginParseError
    <2>1. PICK p \in pos .. Len(arrived), m \in BOOLEAN :
            (m => p < Len(arrived)) /\ pos' = p /\ mid' = m
      BY <1>5 DEF ReadMessageBeginParseError
    <2>2. Len(arrived) \in Nat
      BY LenProperties DEF TypeOK
    <2> QED
      BY <1>5, <2>1, <2>2 DEF ReadMessageBeginParseError, TypeOK
  <1>6. CASE ReadMessageBeginEndOfFile
    <2>1. Len(arrived) \in 0 .. Len(arrived)
      BY LenProperties DEF TypeOK
    <2>2. /\ pos' = Len(arrived) /\ mid' = FALSE
          /\ UNCHANGED <<arrived, closed, mode, header, buffer, writes, reads, aborted>>
      BY <1>6 DEF ReadMessageBeginEndOfFile
    <2> QED
      BY <2>1, <2>2 DEF TypeOK
  <1>7. CASE ReadBody
    BY <1>7, TypeReadBody
  <1>8. CASE ReadMessageEnd
    BY <1>8 DEF ReadMessageEnd, TypeOK, Modes
  <1>9. CASE PeerCloses
    BY <1>9 DEF PeerCloses, TypeOK
  <1>10. ASSUME NEW d \in Documents, PeerSends(d) PROVE TypeOK'
    <2>1. d \in Document
      BY ConstantsAssumption
    <2>2. arrived' \in Seq(Document) /\ Len(arrived') = Len(arrived) + 1
          /\ Len(arrived) \in Nat
      BY <1>10, <2>1, AppendProperties, LenProperties DEF PeerSends, TypeOK
    <2> QED
      BY <1>10, <2>2 DEF PeerSends, TypeOK
  <1>11. CASE UNCHANGED vars
    BY <1>11 DEF vars, TypeOK
  <1> QED
    BY <1>1, <1>2, <1>3, <1>4, <1>5, <1>6, <1>7, <1>8, <1>9, <1>10, <1>11
    DEF Next, Writing, Reading, Peer, CallOutOfSequence, ReadBodyPastEnd

(* Every variable always holds a value of its type, and no body call ever   *)
(* dereferences a null message_proto_.                                      *)
THEOREM TypeCorrect == Spec => []TypeOK
  <1>1. Init => TypeOK
    BY TypeInit
  <1>2. TypeOK /\ [Next]_vars => TypeOK'
    BY TypeStep
  <1> QED
    BY <1>1, <1>2, PTL DEF Spec
-----------------------------------------------------------------------------
(* The outbound stream.                                                     *)

SendInv ==
  /\ HeldIsWritten
  /\ AcknowledgedIsSent
  /\ TruncatedIsLast
  /\ mode = "BROKEN" => asked # <<>>

(* Until it breaks, an object has sent exactly what it was asked to.        *)
LEMMA SentSoFar ==
  ASSUME TypeOK, SendInv, mode # "BROKEN"
  PROVE  /\ Len(out) = Len(asked) /\ Len(out) \in Nat
         /\ \A i \in 1 .. Len(asked) :
               IsDocumentOf(out[i], asked[i]) /\ out[i].flaw # "truncated"
  BY LenProperties DEF TypeOK, SendInv, AcknowledgedIsSent, TruncatedIsLast, Acknowledged

(* One more message is asked for, and out grows by what the case says.      *)
LEMMA SendOneMore ==
  ASSUME TypeOK, SendInv, mode = "WRITING_MESSAGE", asked' = Append(asked, current)
  PROVE  /\ asked' # <<>> /\ Len(asked') = Len(asked) + 1 /\ Len(asked) \in Nat
         /\ asked'[Len(asked) + 1] = current
         /\ \A i \in 1 .. Len(asked) : asked'[i] = asked[i]
  <1>1. asked \in Seq(Request) /\ current \in Request
    BY DEF TypeOK
  <1> QED
    BY <1>1, AppendProperties, LenProperties

LEMMA SendInvWriteMessageEnd ==
  ASSUME TypeOK, SendInv, WriteMessageEnd PROVE SendInv'
  <1>1. mode = "WRITING_MESSAGE" /\ mode' = "NONE" /\ asked' = Append(asked, current)
    BY DEF WriteMessageEnd, MustBeWriting
  <1>2. /\ Len(out) = Len(asked) /\ Len(out) \in Nat
        /\ \A i \in 1 .. Len(asked) :
              IsDocumentOf(out[i], asked[i]) /\ out[i].flaw # "truncated"
    BY <1>1, SentSoFar
  <1>3. /\ Len(asked') = Len(asked) + 1 /\ asked'[Len(asked) + 1] = current
        /\ \A i \in 1 .. Len(asked) : asked'[i] = asked[i]
    BY <1>1, SendOneMore
  <1>4. PICK n \in DOMAIN buffer : StructEndsAt(buffer, n) /\ out' = Append(out, Emitted(n))
    BY DEF WriteMessageEnd
  <1>5. /\ buffer \in Seq(Pieces) /\ message_name \in Names
        /\ message_type \in Types /\ message_seqid \in Int32
    BY <1>1 DEF TypeOK
  <1>6. Emitted(n) \in Document /\ Emitted(n).flaw # "truncated"
    BY <1>4, <1>5, DumpedType DEF Emitted
  <1>7. IsDocumentOf(Emitted(n), current)
    BY <1>1, <1>4 DEF SendInv, HeldIsWritten, IsDocumentOf, Emitted
  <1>8. /\ Len(out') = Len(out) + 1 /\ out'[Len(out) + 1] = Emitted(n)
        /\ \A i \in 1 .. Len(out) : out'[i] = out[i]
    BY <1>4, <1>6, AppendProperties DEF TypeOK
  <1>9. \A i \in 1 .. Len(asked') :
           IsDocumentOf(out'[i], asked'[i]) /\ out'[i].flaw # "truncated"
    <2> SUFFICES ASSUME NEW i \in 1 .. Len(asked')
                 PROVE  IsDocumentOf(out'[i], asked'[i]) /\ out'[i].flaw # "truncated"
      OBVIOUS
    <2>1. CASE i \in 1 .. Len(asked)
      BY <1>2, <1>3, <1>8, <2>1
    <2>2. CASE i = Len(asked) + 1
      BY <1>2, <1>3, <1>6, <1>7, <1>8, <2>2
    <2> QED
      BY <1>2, <1>3, <2>1, <2>2
  <1>10. Acknowledged' = Len(asked') /\ Len(out') = Len(asked') /\ Len(asked') \in Nat
    BY <1>1, <1>2, <1>3, <1>8 DEF Acknowledged
  <1>11. AcknowledgedIsSent'
    BY <1>9, <1>10 DEF AcknowledgedIsSent, IsDocumentOf
  <1>12. TruncatedIsLast'
    BY <1>9, <1>10 DEF TruncatedIsLast
  <1> QED
    BY <1>1, <1>11, <1>12 DEF SendInv, HeldIsWritten

LEMMA SendInvWriteMessageEndFails ==
  ASSUME TypeOK, SendInv,
         WriteMessageEndMarshalFails \/ WriteMessageEndTransportFails \/ WriteMessageEndAborts
  PROVE  SendInv'
  <1>1. mode = "WRITING_MESSAGE" /\ mode' = "BROKEN" /\ asked' = Append(asked, current)
    BY DEF WriteMessageEndMarshalFails, WriteMessageEndTransportFails,
           WriteMessageEndAborts, MustBeWriting, ModeWhileEnding
  <1>2. /\ Len(out) = Len(asked) /\ Len(out) \in Nat
        /\ \A i \in 1 .. Len(asked) :
              IsDocumentOf(out[i], asked[i]) /\ out[i].flaw # "truncated"
    BY <1>1, SentSoFar
  <1>3. /\ asked' # <<>> /\ Len(asked') = Len(asked) + 1
        /\ \A i \in 1 .. Len(asked) : asked'[i] = asked[i]
    BY <1>1, SendOneMore
  <1>4. \/ out' = out
        \/ /\ Len(out') = Len(out) + 1 /\ out'[Len(out) + 1].flaw = "truncated"
           /\ \A i \in 1 .. Len(out) : out'[i] = out[i]
    <2>1. CASE WriteMessageEndTransportFails
      <3>1. PICK n \in DOMAIN buffer :
              /\ StructEndsAt(buffer, n)
              /\ out' = out \/ out' = Append(out, Truncation(Emitted(n)))
        BY <2>1 DEF WriteMessageEndTransportFails
      <3>2. /\ buffer \in Seq(Pieces) /\ message_name \in Names
            /\ message_type \in Types /\ message_seqid \in Int32
        BY <1>1 DEF TypeOK
      <3>3. Truncation(Emitted(n)) \in Document /\ Truncation(Emitted(n)).flaw = "truncated"
        BY <3>1, <3>2, DumpedType DEF Emitted
      <3>4. out \in Seq(Document)
        BY DEF TypeOK
      <3> QED
        BY <3>1, <3>3, <3>4, AppendProperties
    <2> QED
      BY <2>1 DEF WriteMessageEndMarshalFails, WriteMessageEndAborts
  <1>5. Acknowledged' = Len(asked)
    BY <1>1, <1>2, <1>3 DEF Acknowledged
  <1>6. \A i \in 1 .. Len(asked) :
           IsDocumentOf(out'[i], asked'[i]) /\ out'[i].flaw # "truncated"
    BY <1>2, <1>3, <1>4
  <1>7. AcknowledgedIsSent'
    BY <1>2, <1>4, <1>5, <1>6 DEF AcknowledgedIsSent, IsDocumentOf
  <1>8. TruncatedIsLast'
    BY <1>1, <1>2, <1>4, <1>5, <1>6 DEF TruncatedIsLast
  <1> QED
    BY <1>1, <1>3, <1>7, <1>8 DEF SendInv, HeldIsWritten

(* Every other step leaves the outbound stream and the log of requests      *)
(* alone, and does not take the object into or out of BROKEN.               *)
LEMMA SendInvFrame ==
  ASSUME SendInv, UNCHANGED <<out, asked>>, mode' = "BROKEN" <=> mode = "BROKEN",
         HeldIsWritten'
  PROVE  SendInv'
  <1>1. Acknowledged' = Acknowledged
    BY DEF Acknowledged
  <1>2. AcknowledgedIsSent'
    BY <1>1 DEF SendInv, AcknowledgedIsSent, IsDocumentOf
  <1>3. TruncatedIsLast'
    BY <1>1 DEF SendInv, TruncatedIsLast
  <1> QED
    BY <1>2, <1>3 DEF SendInv

LEMMA SendInvStep == TypeOK /\ SendInv /\ [Next]_vars => SendInv'
  <1> SUFFICES ASSUME TypeOK, SendInv, [Next]_vars PROVE SendInv'
    OBVIOUS
  <1>1. ASSUME NEW h \in CallerHeaders, WriteMessageBegin(h.name, h.type, h.seqid)
        PROVE  SendInv'
    BY <1>1, SendInvFrame
    DEF WriteMessageBegin, MustBeNone, HeldIsWritten, FreshBuffer
  <1>2. ASSUME NEW p \in CallerPieces, WriteBody(p) PROVE SendInv'
    <2>1. UNCHANGED <<out, asked, mode>> /\ mode = "WRITING_MESSAGE"
      BY <1>2 DEF WriteBody, MustBeWriting
    <2>2. current \in Request
      BY DEF TypeOK
    <2>3. HeldIsWritten'
      BY <1>2, <2>1, <2>2 DEF WriteBody, SendInv, HeldIsWritten, Request
    <2> QED
      BY <2>1, <2>3, SendInvFrame
  <1>3. CASE WriteMessageEnd
    BY <1>3, SendInvWriteMessageEnd
  <1>4. CASE WriteMessageEndMarshalFails \/ WriteMessageEndTransportFails
             \/ WriteMessageEndAborts
    BY <1>4, SendInvWriteMessageEndFails
  <1>5. CASE Reading
    <2>1. \/ /\ UNCHANGED writes
             /\ mode \notin {"WRITING_MESSAGE", "BROKEN"}
             /\ mode' \notin {"WRITING_MESSAGE", "BROKEN"}
          \/ UNCHANGED vars
      BY <1>5
      DEF Reading, ReadMessageBegin, ReadMessageBeginBadHeader,
          ReadMessageBeginDemarshalFails, ReadMessageBeginAborts,
          ReadMessageBeginParseError, ReadMessageBeginEndOfFile, ReadBody,
          ReadBodyPastEnd, ReadMessageEnd, AtWholeDocument, MustBeNone, MustBeReading
    <2>2. HeldIsWritten'
      BY <2>1 DEF SendInv, HeldIsWritten, vars
    <2> QED
      BY <2>1, <2>2, SendInvFrame DEF vars
  <1>6. CASE Peer \/ CallOutOfSequence \/ UNCHANGED vars
    <2>1. UNCHANGED <<writes, mode, header, buffer>>
      BY <1>6 DEF Peer, PeerSends, PeerCloses, CallOutOfSequence, vars
    <2>2. HeldIsWritten'
      BY <2>1 DEF SendInv, HeldIsWritten
    <2> QED
      BY <2>1, <2>2, SendInvFrame
  <1> QED
    BY <1>1, <1>2, <1>3, <1>4, <1>5, <1>6 DEF Next, Writing

LEMMA SendInvAlways == Spec => []SendInv
  <1>1. Init => SendInv
    <2> SUFFICES ASSUME Init PROVE SendInv
      OBVIOUS
    <2>1. Len(out) = 0 /\ Acknowledged = 0
      BY EmptySeq DEF Init, Acknowledged
    <2> QED
      BY <2>1
      DEF Init, SendInv, HeldIsWritten, AcknowledgedIsSent, TruncatedIsLast
  <1>2. TypeOK /\ SendInv /\ [Next]_vars => SendInv'
    BY SendInvStep
  <1> QED
    BY <1>1, <1>2, TypeCorrect, PTL DEF Spec

(* Every acknowledged message is on the transport, whole, in order, and as  *)
(* its caller wrote it.                                                     *)
THEOREM EveryAcknowledgedMessageIsSent == Spec => []AcknowledgedIsSent
  <1>1. SendInv => AcknowledgedIsSent
    BY DEF SendInv
  <1> QED
    BY <1>1, SendInvAlways, PTL

(* A truncated document is the last thing an object ever writes.            *)
THEOREM NothingFollowsATruncatedMessage == Spec => []TruncatedIsLast
  <1>1. SendInv => TruncatedIsLast
    BY DEF SendInv
  <1> QED
    BY <1>1, SendInvAlways, PTL

(* A broken object never uses its transport again.                          *)
THEOREM BrokenObjectsStayBroken == Spec => BrokenIsFinal
  <1>1. [Next]_vars => [mode = "BROKEN" => UNCHANGED <<mode, out, pos, mid, got>>]_vars
    <2> SUFFICES ASSUME [Next]_vars, mode = "BROKEN"
                 PROVE  UNCHANGED <<mode, out, pos, mid, got>>
      OBVIOUS
    <2>1. ~MustBeNone /\ ~MustBeWriting /\ ~MustBeReading
      BY DEF MustBeNone, MustBeWriting, MustBeReading
    <2>2. ~Writing
      BY <2>1 DEF Writing, WriteMessageBegin, WriteBody, WriteMessageEnd,
            WriteMessageEndMarshalFails, WriteMessageEndTransportFails, WriteMessageEndAborts
    <2>3. ~Reading
      BY <2>1 DEF Reading, ReadMessageBegin, ReadMessageBeginBadHeader,
            ReadMessageBeginDemarshalFails, ReadMessageBeginAborts,
            ReadMessageBeginParseError, ReadMessageBeginEndOfFile, ReadBody,
            ReadBodyPastEnd, ReadMessageEnd, AtWholeDocument
    <2> QED
      BY <2>2, <2>3 DEF Next, Peer, PeerSends, PeerCloses, CallOutOfSequence, vars
  <1> QED
    BY <1>1, PTL DEF Spec, BrokenIsFinal

(* Calls made in the middle of a message touch neither direction of the     *)
(* transport.                                                               *)
THEOREM CallsInsideAMessageStayInside == Spec => TransportOnlyAtBoundaries
  <1> DEFINE Quiet == /\ <<pos, mid>>' # <<pos, mid>> => mode = "NONE"
                      /\ out' # out => mode = "WRITING_MESSAGE" /\ mode' # mode
  <1>1. [Next]_vars => [Quiet]_vars
    <2> SUFFICES ASSUME Next PROVE Quiet
      OBVIOUS
    <2>1. CASE Writing
      BY <2>1 DEF Writing, WriteMessageBegin, WriteBody, WriteMessageEnd,
            WriteMessageEndMarshalFails, WriteMessageEndTransportFails,
            WriteMessageEndAborts, MustBeWriting, ModeWhileEnding
    <2>2. CASE Reading
      BY <2>2 DEF Reading, ReadMessageBegin, ReadMessageBeginBadHeader,
            ReadMessageBeginDemarshalFails, ReadMessageBeginAborts,
            ReadMessageBeginParseError, ReadMessageBeginEndOfFile, ReadBody,
            ReadBodyPastEnd, ReadMessageEnd, AtWholeDocument, MustBeNone, vars
    <2>3. CASE Peer \/ CallOutOfSequence
      BY <2>3 DEF Peer, PeerSends, PeerCloses, CallOutOfSequence, vars
    <2> QED
      BY <2>1, <2>2, <2>3 DEF Next
  <1> QED
    BY <1>1, PTL DEF Spec, TransportOnlyAtBoundaries
-----------------------------------------------------------------------------
(* The inbound stream.                                                      *)

RecvInv == ReceivedAsSent /\ HeldIsUnread

(* One receipt agrees with the document it was made from.                   *)
Agrees(g, d) ==
  /\ <<g.name, g.type, g.seqid>> = <<d.name, d.type, ToInt32(d.seqid)>>
  /\ Len(g.body) <= Len(Payload(d))
  /\ \A k \in 1 .. Len(g.body) : g.body[k] = Payload(d)[k]

LEMMA ReceivedAsSentDef ==
  ReceivedAsSent <=>
    \A i \in 1 .. Len(got) :
       /\ got[i].at <= pos
       /\ i < Len(got) => got[i].at < got[i + 1].at
       /\ Agrees(got[i], arrived[got[i].at])
  BY DEF ReceivedAsSent, Agrees

LEMMA ReceiptType ==
  ASSUME TypeOK, NEW i \in 1 .. Len(got)
  PROVE  got[i] \in Receipt /\ got[i].at \in Nat \ {0}
  <1>1. got[i] \in Receipt
    BY ElementOfSeq DEF TypeOK
  <1> QED
    BY <1>1 DEF Receipt

LEMMA RecvReadMessageBegin ==
  ASSUME TypeOK, RecvInv, ReadMessageBegin PROVE RecvInv'
  <1> DEFINE r == [at |-> pos + 1, name |-> message_name', type |-> message_type',
                   seqid |-> message_seqid', body |-> <<>>]
  <1>1. /\ pos < Len(arrived) /\ pos' = pos + 1 /\ pos \in Nat
        /\ arrived' = arrived /\ got' = Append(got, r)
        /\ buffer' = FreshBuffer \o Payload(Arriving)
        /\ StoreHeader(Arriving) /\ Arriving.flaw \notin BadHeader
    BY DEF ReadMessageBegin, AtWholeDocument, ConsumeDocument, TypeOK
  <1>2. Arriving \in Document /\ Payload(Arriving) \in Seq(Pieces)
    BY <1>1, ArrivingType
  <1>3. /\ message_name' = Arriving.name /\ message_type' = Arriving.type
        /\ message_seqid' = ToInt32(Arriving.seqid)
        /\ message_name' \in Names /\ message_type' \in Types /\ message_seqid' \in Int32
    BY <1>1, <1>2, StoreHeaderType
  <1>4. buffer' = Payload(Arriving)
    BY <1>1, <1>2, ConcatEmptySeq DEF FreshBuffer
  <1>5. r \in Receipt /\ r.at = pos + 1 /\ r.body = <<>> /\ Len(r.body) = 0
    BY <1>1, <1>3, EmptySeq DEF Receipt
  <1>6. /\ Len(got') = Len(got) + 1 /\ Len(got) \in Nat /\ got'[Len(got) + 1] = r
        /\ \A i \in 1 .. Len(got) : got'[i] = got[i]
    BY <1>1, <1>5, AppendProperties, LenProperties DEF TypeOK
  <1>7. Agrees(r, arrived[r.at])
    <2>1. arrived[r.at] = Arriving
      BY <1>5 DEF Arriving
    <2>2. Len(Payload(Arriving)) \in Nat
      BY <1>2, LenProperties
    <2> QED
      BY <1>3, <1>5, <2>1, <2>2 DEF Agrees
  <1> HIDE DEF r
  <1>8. \A i \in 1 .. Len(got) :
           got[i].at <= pos /\ (i < Len(got) => got[i].at < got[i + 1].at)
           /\ Agrees(got[i], arrived[got[i].at]) /\ got[i].at \in Nat
    BY ReceivedAsSentDef, ReceiptType DEF RecvInv
  <1>9. \A i \in 1 .. Len(got') :
           /\ got'[i].at <= pos'
           /\ i < Len(got') => got'[i].at < got'[i + 1].at
           /\ Agrees(got'[i], arrived'[got'[i].at])
    <2> SUFFICES ASSUME NEW i \in 1 .. Len(got')
                 PROVE  /\ got'[i].at <= pos'
                        /\ i < Len(got') => got'[i].at < got'[i + 1].at
                        /\ Agrees(got'[i], arrived[got'[i].at])
      BY <1>1
    <2>1. CASE i = Len(got) + 1
      BY <1>1, <1>5, <1>6, <1>7, <2>1
    <2>2. CASE i = Len(got)
      <3>1. got'[i].at <= pos /\ got'[i + 1].at = pos + 1 /\ got'[i].at \in Nat
            /\ Agrees(got'[i], arrived[got'[i].at])
        BY <1>5, <1>6, <1>8, <2>2
      <3> QED
        BY <1>1, <3>1
    <2>3. CASE i < Len(got)
      <3>1. i \in 1 .. Len(got) /\ i + 1 \in 1 .. Len(got)
        BY <1>6, <2>3
      <3>2. got'[i] = got[i] /\ got'[i + 1] = got[i + 1]
        BY <1>6, <3>1
      <3>3. /\ got[i].at <= pos /\ got[i].at < got[i + 1].at /\ got[i].at \in Nat
            /\ Agrees(got[i], arrived[got[i].at])
        BY <1>8, <2>3, <3>1
      <3> QED
        BY <1>1, <3>2, <3>3
    <2> QED
      BY <1>6, <2>1, <2>2, <2>3
  <1>10. ReceivedAsSent'
    BY <1>9 DEF ReceivedAsSent, Agrees, Payload, ToInt32
  <1>11. HeldIsUnread'
    <2>1. got'[Len(got')] = r /\ arrived'[r.at] = Arriving
      BY <1>1, <1>5, <1>6 DEF Arriving
    <2>2. Len(Payload(Arriving)) \in Nat
      BY <1>2, LenProperties
    <2> QED
      BY <1>4, <1>5, <2>1, <2>2 DEF HeldIsUnread
  <1> QED
    BY <1>10, <1>11 DEF RecvInv

LEMMA RecvReadBody ==
  ASSUME TypeOK, RecvInv, ReadBody PROVE RecvInv'
  <1> DEFINE n == Len(got)
             g == got[n]
             d == arrived[g.at]
             b == Append(g.body, Head(buffer))
  <1>1. /\ mode = "READING_MESSAGE" /\ got # <<>> /\ got \in Seq(Receipt)
        /\ buffer \in Seq(Pieces) /\ buffer # <<>>
        /\ UNCHANGED <<arrived, pos, mode>> /\ buffer' = Tail(buffer)
    BY DEF ReadBody, MustBeReading, TypeOK
  <1>2. n \in 1 .. Len(got) /\ n \in Nat /\ g \in Receipt
    BY <1>1, LenProperties, EmptySeq, ElementOfSeq
  <1>3. /\ Head(buffer) = buffer[1] /\ Head(buffer) \in Pieces
        /\ Len(Tail(buffer)) = Len(buffer) - 1 /\ Len(buffer) \in Nat \ {0}
        /\ \A k \in 1 .. (Len(buffer) - 1) : Tail(buffer)[k] = buffer[k + 1]
    BY <1>1, HeadTailProperties, EmptySeq, LenProperties
  <1>4. /\ b \in Seq(Pieces) /\ Len(b) = Len(g.body) + 1 /\ Len(g.body) \in Nat
        /\ b[Len(g.body) + 1] = Head(buffer)
        /\ \A k \in 1 .. Len(g.body) : b[k] = g.body[k]
    BY <1>2, <1>3, AppendProperties, LenProperties DEF Receipt
  <1>5. /\ Len(g.body) + Len(buffer) = Len(Payload(d))
        /\ \A k \in 1 .. Len(buffer) : buffer[k] = Payload(d)[Len(g.body) + k]
    BY <1>1 DEF RecvInv, HeldIsUnread
  <1>6. /\ Len(got') = n
        /\ \A i \in 1 .. n : i # n => got'[i] = got[i]
        /\ got'[n] = [g EXCEPT !.body = b]
    <2>1. [g EXCEPT !.body = b] \in Receipt
      BY <1>2, <1>4 DEF Receipt
    <2>2. got' = [got EXCEPT ![n] = [g EXCEPT !.body = b]]
      BY DEF ReadBody
    <2> DEFINE e == [g EXCEPT !.body = b]
    <2>3. e \in Receipt /\ got' = [got EXCEPT ![n] = e]
      BY <2>1, <2>2
    <2> HIDE DEF e
    <2>4. /\ Len([got EXCEPT ![n] = e]) = Len(got)
          /\ \A j \in 1 .. Len(got) : [got EXCEPT ![n] = e][j] = IF j = n THEN e ELSE got[j]
      BY <1>1, <1>2, <2>3, ExceptSeq
    <2>5. Len(got') = n /\ got'[n] = e /\ \A i \in 1 .. n : i # n => got'[i] = got[i]
      BY <1>2, <2>3, <2>4
    <2> QED
      BY <2>5 DEF e
  <1>7. /\ got'[n].at = g.at /\ got'[n].body = b
        /\ <<got'[n].name, got'[n].type, got'[n].seqid>> = <<g.name, g.type, g.seqid>>
    BY <1>2, <1>6 DEF Receipt
  <1>8. \A i \in 1 .. n :
           /\ got[i].at <= pos
           /\ i < n => got[i].at < got[i + 1].at
           /\ Agrees(got[i], arrived[got[i].at])
    BY ReceivedAsSentDef DEF RecvInv
  <1>9. \A i \in 1 .. n : got'[i].at = got[i].at
    BY <1>6, <1>7
  <1> HIDE DEF b
  <1>10. Agrees(got'[n], d)
    <2>1. /\ <<g.name, g.type, g.seqid>> = <<d.name, d.type, ToInt32(d.seqid)>>
          /\ \A k \in 1 .. Len(g.body) : g.body[k] = Payload(d)[k]
      BY <1>2, <1>8 DEF Agrees
    <2>2. Len(b) <= Len(Payload(d))
      BY <1>3, <1>4, <1>5
    <2>3. b[Len(g.body) + 1] = Payload(d)[Len(g.body) + 1]
      BY <1>3, <1>4, <1>5
    <2>4. \A k \in 1 .. Len(b) : b[k] = Payload(d)[k]
      BY <1>4, <2>1, <2>3
    <2> HIDE DEF d, g
    <2> QED
      BY <1>7, <2>1, <2>2, <2>4 DEF Agrees
  <1>11. \A i \in 1 .. Len(got') :
           /\ got'[i].at <= pos'
           /\ i < Len(got') => got'[i].at < got'[i + 1].at
           /\ Agrees(got'[i], arrived'[got'[i].at])
    <2> SUFFICES ASSUME NEW i \in 1 .. n
                 PROVE  /\ got'[i].at <= pos
                        /\ i < n => got'[i].at < got'[i + 1].at
                        /\ Agrees(got'[i], arrived[got'[i].at])
      BY <1>1, <1>6
    <2>1. got'[i].at <= pos /\ (i < n => got'[i].at < got'[i + 1].at)
      BY <1>2, <1>8, <1>9
    <2>2. CASE i = n
      BY <1>7, <1>10, <2>1, <2>2
    <2>3. CASE i # n
      BY <1>6, <1>8, <2>1, <2>3
    <2> QED
      BY <2>1, <2>2, <2>3
  <1>12. ReceivedAsSent'
    BY <1>11 DEF ReceivedAsSent, Agrees, Payload, ToInt32
  <1>13. HeldIsUnread'
    <2>1. got'[Len(got')].body = b /\ arrived'[got'[Len(got')].at] = d
      BY <1>1, <1>6, <1>7
    <2>2. /\ Len(b) + Len(buffer') = Len(Payload(d))
          /\ \A k \in 1 .. Len(buffer') : buffer'[k] = Payload(d)[Len(b) + k]
      BY <1>1, <1>3, <1>4, <1>5
    <2> QED
      BY <2>1, <2>2 DEF HeldIsUnread, Payload
  <1> QED
    BY <1>12, <1>13 DEF RecvInv

LEMMA RecvPeerSends ==
  ASSUME TypeOK, RecvInv, NEW d \in Documents, PeerSends(d) PROVE RecvInv'
  <1>1. UNCHANGED <<got, pos, mode, buffer>> /\ arrived' = Append(arrived, d)
    BY DEF PeerSends
  <1>2. \A i \in 1 .. Len(arrived) : arrived'[i] = arrived[i]
    <2>1. d \in Document
      BY ConstantsAssumption
    <2> QED
      BY <1>1, <2>1, AppendProperties DEF TypeOK
  <1>3. \A i \in 1 .. Len(got) : got[i].at \in 1 .. Len(arrived)
    BY ReceivedAsSentDef, ReceiptType, LenProperties DEF RecvInv, TypeOK
  <1>4. \A i \in 1 .. Len(got) : arrived'[got[i].at] = arrived[got[i].at]
    BY <1>2, <1>3
  <1>5. ReceivedAsSent'
    BY <1>1, <1>4 DEF RecvInv, ReceivedAsSent, Payload, ToInt32
  <1>6. HeldIsUnread'
    <2>1. mode = "READING_MESSAGE" => Len(got) \in 1 .. Len(got)
      BY EmptySeq, LenProperties DEF TypeOK
    <2> QED
      BY <1>1, <1>4, <2>1 DEF RecvInv, HeldIsUnread, Payload
  <1> QED
    BY <1>5, <1>6 DEF RecvInv

(* Every other step keeps what was received and what came before the        *)
(* cursor, and does not start a message.                                    *)
LEMMA RecvFrame ==
  ASSUME TypeOK, RecvInv, UNCHANGED <<arrived, got>>, pos' \in Nat, pos' >= pos,
         mode' = "READING_MESSAGE" => mode = "READING_MESSAGE" /\ buffer' = buffer
  PROVE  RecvInv'
  <1>1. \A i \in 1 .. Len(got) : got[i].at <= pos'
    BY ReceivedAsSentDef, ReceiptType DEF RecvInv, TypeOK
  <1>2. ReceivedAsSent'
    BY <1>1 DEF RecvInv, ReceivedAsSent, Payload, ToInt32
  <1>3. HeldIsUnread'
    BY DEF RecvInv, HeldIsUnread, Payload
  <1> QED
    BY <1>2, <1>3 DEF RecvInv

LEMMA RecvStep == TypeOK /\ RecvInv /\ [Next]_vars => RecvInv'
  <1> SUFFICES ASSUME TypeOK, RecvInv, [Next]_vars PROVE RecvInv'
    OBVIOUS
  <1>1. pos \in Nat /\ Len(arrived) \in Nat /\ pos <= Len(arrived)
    BY LenProperties DEF TypeOK
  <1>2. CASE Writing
    BY <1>1, <1>2, RecvFrame
    DEF Writing, WriteMessageBegin, WriteBody, WriteMessageEnd,
        WriteMessageEndMarshalFails, WriteMessageEndTransportFails,
        WriteMessageEndAborts, MustBeWriting, ModeWhileEnding
  <1>3. CASE ReadMessageBegin
    BY <1>3, RecvReadMessageBegin
  <1>4. CASE ReadMessageBeginBadHeader \/ ReadMessageBeginDemarshalFails
             \/ ReadMessageBeginAborts
    <2>1. UNCHANGED <<arrived, got, mode>> /\ pos' = pos + 1 /\ mode = "NONE"
      BY <1>4 DEF ReadMessageBeginBadHeader, ReadMessageBeginDemarshalFails,
             ReadMessageBeginAborts, AtWholeDocument, MustBeNone, ConsumeDocument
    <2> QED
      BY <1>1, <2>1, RecvFrame
  <1>5. CASE ReadMessageBeginParseError \/ ReadMessageBeginEndOfFile
    <2>1. UNCHANGED <<arrived, got, mode>> /\ mode = "NONE"
      BY <1>5 DEF ReadMessageBeginParseError, ReadMessageBeginEndOfFile, MustBeNone
    <2>2. CASE ReadMessageBeginParseError
      <3>1. PICK p \in pos .. Len(arrived) : pos' = p
        BY <2>2 DEF ReadMessageBeginParseError
      <3> QED
        BY <1>1, <2>1, <3>1, RecvFrame
    <2>3. CASE ReadMessageBeginEndOfFile
      <3>1. pos' = Len(arrived)
        BY <2>3 DEF ReadMessageBeginEndOfFile
      <3> QED
        BY <1>1, <2>1, <3>1, RecvFrame
    <2> QED
      BY <1>5, <2>2, <2>3
  <1>6. CASE ReadBody
    BY <1>6, RecvReadBody
  <1>7. CASE ReadMessageEnd
    BY <1>1, <1>7, RecvFrame DEF ReadMessageEnd
  <1>8. ASSUME NEW d \in Documents, PeerSends(d) PROVE RecvInv'
    BY <1>8, RecvPeerSends
  <1>9. CASE PeerCloses \/ CallOutOfSequence \/ ReadBodyPastEnd \/ UNCHANGED vars
    BY <1>1, <1>9, RecvFrame DEF PeerCloses, CallOutOfSequence, ReadBodyPastEnd, vars
  <1> QED
    BY <1>2, <1>3, <1>4, <1>5, <1>6, <1>7, <1>8, <1>9 DEF Next, Reading, Peer

LEMMA RecvInvAlways == Spec => []RecvInv
  <1>1. Init => RecvInv
    <2> SUFFICES ASSUME Init PROVE RecvInv
      OBVIOUS
    <2>1. Len(got) = 0
      BY EmptySeq DEF Init
    <2> QED
      BY <2>1 DEF Init, RecvInv, ReceivedAsSent, HeldIsUnread
  <1>2. TypeOK /\ RecvInv /\ [Next]_vars => RecvInv'
    BY RecvStep
  <1> QED
    BY <1>1, <1>2, TypeCorrect, PTL DEF Spec

(* What a caller reads is what the peer sent: one document per message, in  *)
(* order, nothing of another one in it.                                     *)
THEOREM EveryMessageReceivedWasSent == Spec => []ReceivedAsSent
  <1>1. RecvInv => ReceivedAsSent
    BY DEF RecvInv
  <1> QED
    BY <1>1, RecvInvAlways, PTL

(* While the peer sends only complete JSON objects, refusing a message      *)
(* never loses the place in the stream.                                     *)
THEOREM RefusalsKeepTheBoundary == Spec => []BoundaryKept
  <1> DEFINE Clean == \A i \in 1 .. Len(arrived) :
                         arrived[i].flaw \notin Unterminated \union {"syntax"}
  <1>1. Init => BoundaryKept
    <2> SUFFICES ASSUME Init PROVE BoundaryKept
      OBVIOUS
    <2>1. Len(got) = 0
      BY EmptySeq DEF Init
    <2> QED
      BY <2>1 DEF Init, BoundaryKept
  <1>2. TypeOK /\ BoundaryKept /\ [Next]_vars => BoundaryKept'
    <2> SUFFICES ASSUME TypeOK, BoundaryKept, [Next]_vars, ~aborted', Clean'
                 PROVE  mid' = FALSE /\ pos' = Len(got') + refused'
      BY DEF BoundaryKept
    <2>1. /\ Len(arrived) \in Nat /\ Len(got) \in Nat /\ refused \in Nat
          /\ pos \in 0 .. Len(arrived)
      BY LenProperties DEF TypeOK
    <2>2. ~aborted
      BY DEF Next, Writing, WriteMessageBegin, WriteBody, WriteMessageEnd,
             WriteMessageEndMarshalFails, WriteMessageEndTransportFails,
             WriteMessageEndAborts, Reading, ReadMessageBegin,
             ReadMessageBeginBadHeader, ReadMessageBeginDemarshalFails,
             ReadMessageBeginAborts, ReadMessageBeginParseError,
             ReadMessageBeginEndOfFile, ReadBody, ReadBodyPastEnd, ReadMessageEnd,
             AtWholeDocument, Peer, PeerSends, PeerCloses, CallOutOfSequence, vars
    <2>3. ASSUME UNCHANGED arrived
          PROVE  mid = FALSE /\ pos = Len(got) + refused
      BY <2>2, <2>3 DEF BoundaryKept, TypeOK
    <2>4. ASSUME UNCHANGED <<arrived, pos, mid, refused>>, Len(got') = Len(got)
          PROVE  mid' = FALSE /\ pos' = Len(got') + refused'
      BY <2>3, <2>4
    <2>5. CASE Writing
      BY <2>4, <2>5
      DEF Writing, WriteMessageBegin, WriteBody, WriteMessageEnd,
          WriteMessageEndMarshalFails, WriteMessageEndTransportFails,
          WriteMessageEndAborts
    <2>6. CASE ReadMessageBegin
      <3> DEFINE r == [at |-> pos + 1, name |-> message_name', type |-> message_type',
                       seqid |-> message_seqid', body |-> <<>>]
      <3>1. /\ UNCHANGED <<arrived, mid, refused>> /\ pos' = pos + 1
            /\ got' = Append(got, r)
        BY <2>6 DEF ReadMessageBegin, AtWholeDocument, ConsumeDocument
      <3>2. Len(got') = Len(got) + 1
        BY <3>1, LenProperties DEF TypeOK
      <3> QED
        BY <2>1, <2>3, <3>1, <3>2
    <2>7. CASE ReadMessageBeginBadHeader \/ ReadMessageBeginDemarshalFails
      <3>1. UNCHANGED <<arrived, mid, got>> /\ pos' = pos + 1 /\ refused' = refused + 1
        BY <2>7 DEF ReadMessageBeginBadHeader, ReadMessageBeginDemarshalFails, ConsumeDocument
      <3> QED
        BY <2>1, <2>3, <3>1
    <2>8. CASE ReadMessageBeginAborts
      BY <2>8 DEF ReadMessageBeginAborts
    <2>9. CASE ReadMessageBeginParseError
      <3>1. /\ UNCHANGED arrived /\ pos < Len(arrived)
            /\ mid \/ Arriving.flaw \in Unterminated \union {"syntax"}
        BY <2>9 DEF ReadMessageBeginParseError
      <3>2. pos + 1 \in 1 .. Len(arrived)
        BY <2>1, <3>1
      <3>3. Arriving.flaw \notin Unterminated \union {"syntax"}
        BY <3>1, <3>2 DEF Arriving
      <3> QED
        BY <2>3, <3>1, <3>3
    <2>10. CASE ReadMessageBeginEndOfFile
      <3>1. /\ UNCHANGED <<arrived, got, refused>> /\ pos' = Len(arrived) /\ mid' = FALSE
            /\ pos < Len(arrived) => mid \/ Arriving.flaw \in Unterminated
        BY <2>10 DEF ReadMessageBeginEndOfFile
      <3>2. CASE pos = Len(arrived)
        BY <2>3, <3>1, <3>2
      <3>3. CASE pos < Len(arrived)
        <4>1. Arriving.flaw \in Unterminated
          BY <2>3, <3>1, <3>3
        <4>2. pos + 1 \in 1 .. Len(arrived)
          BY <2>1, <3>3
        <4> QED
          BY <3>1, <4>1, <4>2 DEF Arriving
      <3>4. pos = Len(arrived) \/ pos < Len(arrived)
        BY <2>1
      <3> QED
        BY <3>2, <3>3, <3>4
    <2>11. CASE ReadBody
      <3>1. UNCHANGED <<arrived, pos, mid, refused>>
        BY <2>11 DEF ReadBody
      <3>2. Len(got') = Len(got)
        <4> DEFINE e == [got[Len(got)] EXCEPT !.body = Append(@, Head(buffer))]
        <4>1. got' = [got EXCEPT ![Len(got)] = e]
          BY <2>11 DEF ReadBody
        <4> HIDE DEF e
        <4> QED
          BY <4>1, LenProperties DEF TypeOK
      <3> QED
        BY <2>4, <3>1, <3>2
    <2>12. CASE ReadMessageEnd \/ ReadBodyPastEnd
      BY <2>4, <2>12 DEF ReadMessageEnd, ReadBodyPastEnd, vars
    <2>13. CASE PeerCloses \/ CallOutOfSequence \/ UNCHANGED vars
      BY <2>4, <2>13 DEF PeerCloses, CallOutOfSequence, vars
    <2>14. ASSUME NEW d \in Documents, PeerSends(d)
           PROVE  mid' = FALSE /\ pos' = Len(got') + refused'
      <3>1. UNCHANGED <<pos, mid, got, refused>> /\ arrived' = Append(arrived, d)
        BY <2>14 DEF PeerSends
      <3>2. d \in Document
        BY ConstantsAssumption
      <3>3. /\ Len(arrived') = Len(arrived) + 1
            /\ \A i \in 1 .. Len(arrived) : arrived'[i] = arrived[i]
        BY <3>1, <3>2, AppendProperties DEF TypeOK
      <3>4. Clean
        BY <2>1, <3>3
      <3> QED
        BY <2>2, <3>1, <3>4 DEF BoundaryKept, TypeOK
    <2> QED
      BY <2>5, <2>6, <2>7, <2>8, <2>9, <2>10, <2>11, <2>12, <2>13, <2>14
      DEF Next, Reading, Peer
  <1> QED
    BY <1>1, <1>2, TypeCorrect, PTL DEF Spec
-----------------------------------------------------------------------------
(* The object is an atomic endpoint.                                        *)

Inbox == [i \in 1 .. Len(got) |-> got[i].at]

LEMMA EndpointVars ==
  ASSUME UNCHANGED <<out, mode, aborted>>, Inbox' = Inbox
  PROVE  UNCHANGED <<Outbox, Cut, Inbox, mode = "BROKEN" \/ aborted>>
  BY DEF Outbox, Cut

(* The receipts' places in the stream depend on nothing else of them.       *)
LEMMA InboxFrame ==
  ASSUME Len(got') = Len(got), \A i \in 1 .. Len(got) : got'[i].at = got[i].at
  PROVE  Inbox' = Inbox
  BY DEF Inbox

(* An object that is not broken has sent whole documents only.              *)
LEMMA NotCut ==
  ASSUME TypeOK, SendInv, mode # "BROKEN"
  PROVE  ~Cut /\ Outbox = out
  <1>1. /\ Len(out) = Len(asked) /\ Len(out) \in Nat
        /\ \A i \in 1 .. Len(asked) : out[i].flaw # "truncated"
    BY SentSoFar
  <1>2. out # <<>> => Len(out) \in 1 .. Len(out)
    BY EmptySeq, LenProperties DEF TypeOK
  <1> QED
    BY <1>1, <1>2 DEF Cut, Outbox

LEMMA EndpointSend ==
  ASSUME TypeOK, SendInv, TypeOK', SendInv', WriteMessageEnd
  PROVE  Endpoint!Send
  <1>1. /\ mode = "WRITING_MESSAGE" /\ mode' = "NONE" /\ ~aborted
        /\ UNCHANGED <<got, aborted>>
    BY DEF WriteMessageEnd, MustBeWriting
  <1>2. ~Cut /\ Outbox = out
    BY <1>1, NotCut
  <1>3. ~Cut' /\ Outbox' = out'
    <2>1. /\ Len(out') = Len(asked') /\ Len(out') \in Nat
          /\ \A i \in 1 .. Len(asked') : out'[i].flaw # "truncated"
      BY <1>1, LenProperties
      DEF TypeOK, SendInv, AcknowledgedIsSent, TruncatedIsLast, Acknowledged
    <2>2. out' # <<>> => Len(out') \in 1 .. Len(out')
      BY EmptySeq, LenProperties DEF TypeOK
    <2> QED
      BY <2>1, <2>2 DEF Cut, Outbox
  <1>4. PICK n \in DOMAIN buffer : StructEndsAt(buffer, n) /\ out' = Append(out, Emitted(n))
    BY DEF WriteMessageEnd
  <1>5. Emitted(n) \in Document
    <2>1. /\ buffer \in Seq(Pieces) /\ message_name \in Names
          /\ message_type \in Types /\ message_seqid \in Int32
      BY <1>1 DEF TypeOK
    <2> QED
      BY <1>4, <2>1, DumpedType DEF Emitted
  <1>6. /\ Len(out') = Len(out) + 1 /\ out'[Len(out')] = Emitted(n)
        /\ \A i \in 1 .. Len(out) : out'[i] = out[i]
    BY <1>4, <1>5, AppendProperties, LenProperties DEF TypeOK
  <1>7. Endpoint!Extends(Outbox', Outbox) /\ Outbox'[Len(Outbox')] \in Document
    BY <1>2, <1>3, <1>5, <1>6 DEF Endpoint!Extends
  <1>8. UNCHANGED Cut
    <2>1. Cut = FALSE /\ Cut' = FALSE
      BY <1>2, <1>3 DEF Cut
    <2> QED
      BY <2>1
  <1>9. UNCHANGED [i \in 1 .. Len(got) |-> got[i].at]
    BY <1>1
  <1>10. ~(mode = "BROKEN" \/ aborted) /\ UNCHANGED (mode = "BROKEN" \/ aborted)
    BY <1>1
  <1> QED
    BY <1>7, <1>8, <1>9, <1>10 DEF Endpoint!Send

LEMMA EndpointDie ==
  ASSUME TypeOK, SendInv,
         WriteMessageEndMarshalFails \/ WriteMessageEndTransportFails \/ WriteMessageEndAborts
  PROVE  Endpoint!Die
  <1>1. mode = "WRITING_MESSAGE" /\ mode' = "BROKEN" /\ ~aborted /\ UNCHANGED got
    BY DEF WriteMessageEndMarshalFails, WriteMessageEndTransportFails,
           WriteMessageEndAborts, MustBeWriting, ModeWhileEnding
  <1>2. ~Cut /\ Outbox = out
    BY <1>1, NotCut
  <1>3. Outbox' = out
    <2>1. CASE out' = out
      BY <1>2, <2>1 DEF Cut, Outbox
    <2>2. CASE WriteMessageEndTransportFails /\ out' # out
      <3>1. PICK n \in DOMAIN buffer :
              StructEndsAt(buffer, n) /\ out' = Append(out, Truncation(Emitted(n)))
        BY <2>2 DEF WriteMessageEndTransportFails
      <3>2. /\ buffer \in Seq(Pieces) /\ message_name \in Names
            /\ message_type \in Types /\ message_seqid \in Int32 /\ out \in Seq(Document)
        BY <1>1 DEF TypeOK
      <3>3. Truncation(Emitted(n)) \in Document /\ Truncation(Emitted(n)).flaw = "truncated"
        BY <3>1, <3>2, DumpedType DEF Emitted
      <3>4. /\ out' # <<>> /\ Len(out') = Len(out) + 1 /\ Len(out) \in Nat
            /\ out'[Len(out) + 1].flaw = "truncated"
            /\ out' \in Seq(Document)
            /\ \A i \in 1 .. Len(out) : out'[i] = out[i] /\ out'[i] \in Document
        <4>1. /\ Append(out, Truncation(Emitted(n))) \in Seq(Document)
              /\ Append(out, Truncation(Emitted(n))) # <<>>
              /\ Len(Append(out, Truncation(Emitted(n)))) = Len(out) + 1
              /\ \A i \in 1 .. Len(out) : Append(out, Truncation(Emitted(n)))[i] = out[i]
              /\ Append(out, Truncation(Emitted(n)))[Len(out) + 1] = Truncation(Emitted(n))
          BY <3>2, <3>3, AppendProperties
        <4>2. Len(out) \in Nat /\ \A i \in 1 .. Len(out) : out[i] \in Document
          BY <3>2, LenProperties, ElementOfSeq
        <4> QED
          BY <3>1, <3>3, <4>1, <4>2
      <3>5. Outbox' = SubSeq(out', 1, Len(out))
        BY <3>4 DEF Cut, Outbox
      <3>6. /\ SubSeq(out', 1, Len(out)) \in Seq(Document)
            /\ Len(SubSeq(out', 1, Len(out))) = Len(out)
            /\ \A i \in 1 .. Len(out) : SubSeq(out', 1, Len(out))[i] = out[i]
        <4>1. /\ 1 \in Int /\ Len(out) \in Int
              /\ \A i \in 1 .. Len(out) : out'[i] \in Document
          BY <3>4
        <4>2. /\ SubSeq(out', 1, Len(out)) \in Seq(Document)
              /\ Len(SubSeq(out', 1, Len(out))) = IF 1 <= Len(out) THEN Len(out) - 1 + 1 ELSE 0
              /\ \A i \in 1 .. (Len(out) - 1 + 1) :
                    SubSeq(out', 1, Len(out))[i] = out'[1 + i - 1]
          BY <4>1, SubSeqProperties
        <4> QED
          BY <3>4, <4>2
      <3>7. SubSeq(out', 1, Len(out)) = out
        BY <3>2, <3>6, SeqEqual
      <3> QED
        BY <3>5, <3>7
    <2> QED
      BY <2>1, <2>2 DEF WriteMessageEndMarshalFails, WriteMessageEndTransportFails,
                        WriteMessageEndAborts
  <1>4. Cut' \in BOOLEAN
    BY DEF Cut
  <1> QED
    BY <1>1, <1>2, <1>3, <1>4 DEF Endpoint!Die

LEMMA EndpointReceive ==
  ASSUME TypeOK, RecvInv, ReadMessageBegin
  PROVE  Endpoint!Receive
  <1> DEFINE r == [at |-> pos + 1, name |-> message_name', type |-> message_type',
                   seqid |-> message_seqid', body |-> <<>>]
  <1>1. /\ mode = "NONE" /\ mode' = "READING_MESSAGE" /\ ~aborted
        /\ UNCHANGED <<out, aborted>> /\ got' = Append(got, r) /\ pos \in Nat
    BY DEF ReadMessageBegin, AtWholeDocument, MustBeNone, TypeOK
  <1>2. /\ pos < Len(arrived) /\ StoreHeader(Arriving) /\ Arriving.flaw \notin BadHeader
    BY DEF ReadMessageBegin, AtWholeDocument
  <1>3. message_name' \in Names /\ message_type' \in Types /\ message_seqid' \in Int32
    BY <1>2, ArrivingType, StoreHeaderType
  <1>4. r \in Receipt /\ r.at = pos + 1
    BY <1>1, <1>3, EmptySeq DEF Receipt
  <1> HIDE DEF r
  <1>5. /\ Len(got') = Len(got) + 1 /\ Len(got) \in Nat /\ got'[Len(got) + 1] = r
        /\ \A i \in 1 .. Len(got) : got'[i] = got[i]
    BY <1>1, <1>4, AppendProperties, LenProperties DEF TypeOK
  <1>6. /\ DOMAIN Inbox = 1 .. Len(got) /\ \A i \in 1 .. Len(got) : Inbox[i] = got[i].at
        /\ DOMAIN Inbox' = 1 .. Len(got') /\ \A i \in 1 .. Len(got') : Inbox'[i] = got'[i].at
    BY DEF Inbox
  <1>7. Inbox \in Seq(Nat) /\ Len(Inbox) = Len(got)
    <2>1. \A i \in 1 .. Len(got) : got[i].at \in Nat
      BY ReceiptType
    <2> QED
      BY <1>5, <2>1 DEF Inbox
  <1>8. Inbox' \in Seq(Nat) /\ Len(Inbox') = Len(got) + 1
    <2>1. \A i \in 1 .. Len(got') : got'[i].at \in Nat
      BY <1>1, <1>4, <1>5, ReceiptType
    <2> QED
      BY <1>5, <2>1 DEF Inbox
  <1>9. Inbox'[Len(Inbox')] = pos + 1 /\ \A i \in 1 .. Len(Inbox) : Inbox'[i] = Inbox[i]
    <2>1. Len(Inbox') = Len(got') /\ Len(got') \in 1 .. Len(got')
      BY <1>5, <1>8
    <2>2. Inbox'[Len(Inbox')] = got'[Len(got) + 1].at
      <3>1. Inbox'[Len(got')] = got'[Len(got')].at
        BY <1>6, <2>1
      <3> QED
        BY <1>5, <2>1, <3>1
    <2>3. Inbox'[Len(Inbox')] = pos + 1
      BY <1>4, <1>5, <2>2
    <2>4. ASSUME NEW i \in 1 .. Len(Inbox) PROVE Inbox'[i] = Inbox[i]
      <3>1. i \in 1 .. Len(got) /\ i \in 1 .. Len(got')
        BY <1>5, <1>7, <2>4
      <3>2. Inbox[i] = got[i].at /\ Inbox'[i] = got'[i].at /\ got'[i] = got[i]
        BY <1>5, <1>6, <3>1
      <3> QED
        BY <3>2
    <2> QED
      BY <2>3, <2>4
  <1>10. Inbox # <<>> => Inbox'[Len(Inbox')] > Inbox[Len(Inbox)]
    <2> SUFFICES ASSUME Inbox # <<>> PROVE Inbox'[Len(Inbox')] > Inbox[Len(Inbox)]
      OBVIOUS
    <2>1. Len(Inbox) \in 1 .. Len(Inbox)
      BY <1>7, EmptySeq, LenProperties
    <2>2. got[Len(got)].at <= pos /\ got[Len(got)].at \in Nat
      BY <1>7, <2>1, ReceivedAsSentDef, ReceiptType DEF RecvInv
    <2> QED
      BY <1>1, <1>6, <1>7, <1>9, <2>1, <2>2
  <1>11. UNCHANGED <<Outbox, Cut>>
    BY <1>1 DEF Outbox, Cut
  <1> QED
    BY <1>1, <1>7, <1>8, <1>9, <1>10, <1>11
    DEF Endpoint!Receive, Endpoint!Extends, Inbox

LEMMA EndpointStep ==
  TypeOK /\ SendInv /\ RecvInv /\ [Next]_vars /\ TypeOK' /\ SendInv'
  => [Endpoint!Next]_(Endpoint!epvars)
  <1> SUFFICES ASSUME TypeOK, SendInv, RecvInv, [Next]_vars, TypeOK', SendInv'
               PROVE  Endpoint!Next \/ UNCHANGED Endpoint!epvars
    OBVIOUS
  <1> DEFINE Goal == Endpoint!Next \/ UNCHANGED Endpoint!epvars
  <1>1. ASSUME UNCHANGED <<out, mode, aborted>>, Inbox' = Inbox PROVE Goal
    BY <1>1, EndpointVars DEF Endpoint!epvars, Inbox
  <1>2. ASSUME UNCHANGED <<out, aborted>>, Inbox' = Inbox,
               mode # "BROKEN", mode' # "BROKEN"
        PROVE  Goal
    BY <1>2 DEF Endpoint!epvars, Inbox, Outbox, Cut
  <1>3. UNCHANGED got => Inbox' = Inbox
    BY DEF Inbox
  <1>4. ASSUME NEW h \in CallerHeaders, WriteMessageBegin(h.name, h.type, h.seqid)
        PROVE  Goal
    BY <1>2, <1>3, <1>4 DEF WriteMessageBegin, MustBeNone
  <1>5. ASSUME NEW p \in CallerPieces, WriteBody(p) PROVE Goal
    BY <1>1, <1>3, <1>5 DEF WriteBody
  <1>6. CASE WriteMessageEnd
    BY <1>6, EndpointSend DEF Endpoint!Next
  <1>7. CASE WriteMessageEndMarshalFails \/ WriteMessageEndTransportFails
             \/ WriteMessageEndAborts
    BY <1>7, EndpointDie DEF Endpoint!Next
  <1>8. CASE ReadMessageBegin
    BY <1>8, EndpointReceive DEF Endpoint!Next
  <1>9. CASE ReadMessageBeginBadHeader \/ ReadMessageBeginDemarshalFails
             \/ ReadMessageBeginParseError \/ ReadMessageBeginEndOfFile
    BY <1>1, <1>3, <1>9
    DEF ReadMessageBeginBadHeader, ReadMessageBeginDemarshalFails,
        ReadMessageBeginParseError, ReadMessageBeginEndOfFile
  <1>10. CASE ReadMessageBeginAborts
    <2>1. /\ ~aborted /\ aborted' /\ mode # "BROKEN"
          /\ UNCHANGED <<out, got>>
      BY <1>10 DEF ReadMessageBeginAborts, AtWholeDocument, MustBeNone
    <2> QED
      BY <2>1 DEF Endpoint!Next, Endpoint!Die, Outbox, Cut
  <1>11. CASE ReadBody
    <2>1. got # <<>> /\ got \in Seq(Receipt) /\ buffer \in Seq(Pieces) /\ buffer # <<>>
      BY <1>11 DEF ReadBody, MustBeReading, TypeOK
    <2> DEFINE e == [got[Len(got)] EXCEPT !.body = Append(@, Head(buffer))]
    <2>2. Len(got) \in 1 .. Len(got) /\ got[Len(got)] \in Receipt
      BY <2>1, EmptySeq, LenProperties, ElementOfSeq
    <2>3. e.at = got[Len(got)].at
      BY <2>2 DEF Receipt
    <2>4. got' = [got EXCEPT ![Len(got)] = e] /\ UNCHANGED <<out, mode, aborted>>
      BY <1>11 DEF ReadBody
    <2> HIDE DEF e
    <2>5. /\ Len(got') = Len(got)
          /\ \A i \in 1 .. Len(got) : got'[i] = IF i = Len(got) THEN e ELSE got[i]
      BY <2>1, <2>2, <2>4, LenProperties
    <2>6. Inbox' = Inbox
      BY <2>3, <2>5, InboxFrame
    <2> QED
      BY <1>1, <2>4, <2>6
  <1>12. CASE ReadMessageEnd
    BY <1>2, <1>3, <1>12 DEF ReadMessageEnd, MustBeReading
  <1>13. CASE ReadBodyPastEnd \/ Peer \/ CallOutOfSequence \/ UNCHANGED vars
    BY <1>1, <1>3, <1>13
    DEF ReadBodyPastEnd, Peer, PeerCloses, PeerSends, CallOutOfSequence, vars
  <1> QED
    BY <1>4, <1>5, <1>6, <1>7, <1>8, <1>9, <1>10, <1>11, <1>12, <1>13
    DEF Next, Writing, Reading

(* Seen from the two ends of its connection, the object is an atomic        *)
(* endpoint (AtomicEndpoint): begin, body and end calls, and whatever fails *)
(* among them, amount to one send, one receive, or the object's death.      *)
THEOREM ProtocolImplementsEndpoint == Spec => ImplementsEndpoint
  <1>1. Init => Endpoint!Init
    <2> SUFFICES ASSUME Init PROVE Endpoint!Init
      OBVIOUS
    <2>1. Len(got) = 0
      BY EmptySeq DEF Init
    <2>2. [i \in 1 .. Len(got) |-> got[i].at] = <<>>
      BY <2>1
    <2> QED
      BY <2>2 DEF Init, Endpoint!Init, Outbox, Cut
  <1>2. TypeOK /\ SendInv /\ RecvInv /\ [Next]_vars /\ TypeOK' /\ SendInv'
        => [Endpoint!Next]_(Endpoint!epvars)
    BY EndpointStep
  <1> QED
    BY <1>1, <1>2, TypeCorrect, SendInvAlways, RecvInvAlways, PTL
    DEF Spec, ImplementsEndpoint, Endpoint!Spec
=============================================================================
