-------------------------- MODULE NiceJSONProtocol --------------------------
(***************************************************************************)
(* One TNiceJSONProtocol object (src/lib/cpp/TNiceJSONProtocol.{h,cpp}):    *)
(* the Thrift protocol that turns each message into one JSON document.     *)
(*                                                                         *)
(* A caller (generated client or processor code) brackets the fields of a  *)
(* message between writeMessageBegin and writeMessageEnd; the object keeps *)
(* them, in binary form, in a private buffer and converts the whole buffer *)
(* to JSON at the end.  readMessageBegin parses one document from the      *)
(* transport, converts its body to binary into the buffer, and the caller  *)
(* then reads the fields out of it up to readMessageEnd.  The object is    *)
(* used by one thread, so an action is a whole call.                       *)
(*                                                                         *)
(* Data is abstracted to what the calls distinguish.  A "piece" stands for *)
(* a value written or read through the protocol; Stop is the end of the    *)
(* outermost struct.  The inbound stream is the sequence of documents the  *)
(* peer has sent so far (arrived) with a cursor: pos documents are fully   *)
(* consumed and, when mid is TRUE, so is a part of the next one.           *)
(***************************************************************************)
EXTENDS Integers, Sequences

CONSTANTS
    Operations,        \* operations of the service the object was made for
    OnewayOperations,  \* those declared oneway: they have no result struct
    OtherNames,        \* names that are no operation of the service
    Values,            \* pieces that convert to JSON and back unchanged
    RawString,         \* a string that is not well-formed UTF-8
    NonFinite,         \* a double that is NaN or infinite
    Unconvertible,     \* a piece marshalling refuses, e.g. an unlisted enum
    Stop,              \* the stop field of the outermost struct
    Malformed,         \* the TApplicationException put in place of one
                       \* whose JSON form lacks "message" or "type"
    NoName,            \* message_name_ of a fresh object: the empty string
    NoBuffer,          \* message_buffer_ and message_proto_ are null
    HalfRange,         \* int32_t holds -HalfRange .. HalfRange - 1
    CallerHeaders,     \* the name, type and seqid of messages the caller writes
    CallerPieces,      \* the pieces the caller writes
    Documents,         \* the documents the peer may send
    MaxArrived,        \* bound: documents the peer sends
    MaxBegun,          \* bound: messages the caller starts to write
    MaxBody            \* bound: pieces in the buffer while writing

Names == Operations \union OtherNames
Types == {"call", "reply", "exception", "oneway"}
Modes == {"NONE", "WRITING_MESSAGE", "READING_MESSAGE", "BROKEN"}
Int32 == (-HalfRange) .. (HalfRange - 1)
Plain == Values \union {RawString, NonFinite}
Pieces == Plain \union {Unconvertible, Stop, Malformed}

(***************************************************************************)
(* What can be wrong with a document: "syntax" is a parse error inside it; *)
(* "truncated" is a proper prefix of a document, and "number" a top-level  *)
(* number, neither of which the parser can tell is over before it sees a   *)
(* character of the next document; "type", "name", "seqid" and "nobody"    *)
(* name the first header member that is missing or of the wrong kind;      *)
(* "schema" is a body the schema refuses; "incomplete" is an exception     *)
(* body without "message" or "type".                                       *)
(***************************************************************************)
Unterminated == {"truncated", "number"}
BadHeader == {"type", "name", "seqid", "nobody"}
Flaws == {"none", "syntax", "schema", "incomplete"} \union Unterminated \union BadHeader

Document == [name : Names, type : Types, seqid : Int, body : Seq(Plain), flaw : Flaws]

ASSUME ConstantsAssumption ==
    /\ OnewayOperations \subseteq Operations
    /\ Operations \intersect OtherNames = {}
    /\ NoName \notin Names
    /\ NoBuffer \notin Seq(Pieces)
    /\ HalfRange \in Nat \ {0}
    /\ CallerHeaders \subseteq [name : Names, type : Types, seqid : Int32]
    /\ CallerPieces \subseteq Pieces \ {Malformed}
    /\ Documents \subseteq Document
    /\ MaxArrived \in Nat /\ MaxBegun \in Nat /\ MaxBody \in Nat

ASSUME PiecesAssumption ==
    /\ {RawString, NonFinite, Unconvertible, Stop, Malformed} \intersect Values = {}
    /\ Stop \notin {RawString, NonFinite, Unconvertible, Malformed}
    /\ Unconvertible \notin {RawString, NonFinite, Malformed}

VARIABLES
    mode,          \* mode_
    message_name,  \* message_name_
    message_type,  \* message_type_
    message_seqid, \* message_seqid_
    buffer,        \* the unread bytes of message_buffer_
    arrived,       \* every document the peer has sent so far
    pos,           \* how many of them are consumed entirely
    mid,           \* whether a part of the next one is consumed too
    closed,        \* the peer has closed its side
    out,           \* what the object has written to its transport
    aborted,       \* an assert has ended the process
    asked,         \* history: the messages whose writeMessageEnd was reached
    current,       \* history: what the caller wrote since writeMessageBegin
    got,           \* history: the messages handed to the caller
    refused        \* history: documents readMessageBegin threw away whole

header == <<message_name, message_type, message_seqid>>
inbound == <<arrived, pos, mid, closed>>
writes == <<out, asked, current>>
reads == <<got, refused>>
vars == <<mode, header, buffer, inbound, writes, reads, aborted>>
-----------------------------------------------------------------------------
(* Calling sequence: the guards of lines 69-80.                            *)

NeitherWritingNorReading == mode \notin {"WRITING_MESSAGE", "READING_MESSAGE"} \* slip: lets BROKEN through
MustBeNone == mode = "NONE"
MustBeWriting == mode = "WRITING_MESSAGE"
MustBeReading == mode = "READING_MESSAGE"

(* The fresh TMemoryBuffer swapped in by both Begin calls.                 *)
ReusedBuffer == IF buffer = NoBuffer THEN <<>> ELSE buffer \* slip: no swap
FreshBuffer == <<>>

(* get<uint32_t>() of a JSON number, then stored in an int32_t.            *)
Unconverted(n) == n \* slip: no conversion
ToInt32(n) == ((n + HalfRange) % (2 * HalfRange)) - HalfRange

(* struct_name throws when the service has no such operation ...           *)
NoSuchOperation(name, type) == type # "exception" /\ name \notin Operations

(* ... and names a result struct even for a oneway operation, which has    *)
(* none: lookup_type_id then fails its assert and the process aborts.      *)
NoSuchStruct(name, type) == type = "reply" /\ name \in OnewayOperations

(* The first struct in b: pieces up to and excluding the Stop at n.        *)
StructEndsAt(b, n) == b[n] = Stop /\ \A i \in 1 .. (n - 1) : b[i] \in Plain

Marshals(name, type, b) ==
    ~NoSuchOperation(name, type) /\ \E n \in DOMAIN b : StructEndsAt(b, n)

(* The dumped document parses only if its strings are UTF-8, and a         *)
(* non-finite double is dumped as null, which no double field accepts.     *)
DumpedShort(name, type, seqid, body) ==
    [name |-> name, type |-> type, seqid |-> seqid, body |-> body, flaw |-> "truncated"] \* slip: no "}"
Dumped(name, type, seqid, body) ==
    [name |-> name, type |-> type, seqid |-> seqid, body |-> body,
     flaw |-> CASE \E i \in DOMAIN body : body[i] = RawString -> "syntax"
                [] (\A i \in DOMAIN body : body[i] # RawString)
                   /\ (\E i \in DOMAIN body : body[i] = NonFinite) -> "schema"
                [] OTHER -> "none"]

Truncation(d) == [d EXCEPT !.flaw = "truncated"]

(* The mode writeMessageEnd sets before anything that can fail.            *)
StillWriting == "WRITING_MESSAGE" \* slip: BROKEN never set
ModeWhileEnding == "BROKEN"
-----------------------------------------------------------------------------
Init ==
    /\ mode = "NONE"
    /\ message_name = NoName /\ message_type = "call" /\ message_seqid = -1
    /\ buffer = NoBuffer
    /\ arrived = <<>> /\ pos = 0 /\ mid = FALSE /\ closed = FALSE
    /\ out = <<>> /\ asked = <<>> /\ got = <<>> /\ refused = 0
    /\ current = [name |-> NoName, type |-> "call", seqid |-> -1, body |-> <<>>]
    /\ aborted = FALSE

(***************************************************************************)
(* The peer: sends a document, or closes the connection.                   *)
(***************************************************************************)
PeerSends(d) ==
    /\ ~closed /\ Len(arrived) < MaxArrived
    /\ arrived' = Append(arrived, d)
    /\ UNCHANGED <<mode, header, buffer, pos, mid, closed, writes, reads, aborted>>

PeerCloses ==
    /\ ~closed
    /\ closed' = TRUE
    /\ UNCHANGED <<mode, header, buffer, arrived, pos, mid, writes, reads, aborted>>

(***************************************************************************)
(* A call the mode does not allow throws and changes nothing.              *)
(***************************************************************************)
CallOutOfSequence ==
    /\ ~aborted
    /\ ~MustBeNone \/ ~MustBeWriting \/ ~MustBeReading
    /\ UNCHANGED vars
-----------------------------------------------------------------------------
(* Writing.                                                                *)

WriteMessageBegin(name, type, seqid) ==
    /\ ~aborted /\ MustBeNone /\ Len(asked) < MaxBegun
    /\ message_name' = name /\ message_type' = type /\ message_seqid' = seqid
    /\ buffer' = FreshBuffer
    /\ mode' = "WRITING_MESSAGE"
    /\ current' = [name |-> name, type |-> type, seqid |-> seqid, body |-> <<>>]
    /\ UNCHANGED <<inbound, out, asked, reads, aborted>>

(* Any write* call between the two: forwarded to the binary protocol.  An  *)
(* exception message is written by TApplicationException::write, which has *)
(* only a string and an enum it does not check.                            *)
WriteBody(p) ==
    /\ ~aborted /\ MustBeWriting /\ Len(buffer) < MaxBody
    /\ message_type = "exception" => p \notin {NonFinite, Unconvertible}
    /\ buffer' = Append(buffer, p)
    /\ current' = [current EXCEPT !.body = Append(@, p)]
    /\ UNCHANGED <<mode, header, inbound, out, asked, reads, aborted>>

(* The document made of the first struct, when that ends at n.  (An        *)
(* exception always has both members: TApplicationException supplies the   *)
(* text and type its caller left out.)                                     *)
Emitted(n) == Dumped(message_name, message_type, message_seqid, SubSeq(buffer, 1, n - 1))

(* writeMessageEnd converts the first struct of the buffer and hands the   *)
(* whole document to the transport in one write.                           *)
WriteMessageEnd ==
    /\ ~aborted /\ MustBeWriting
    /\ ~NoSuchStruct(message_name, message_type)
    /\ ~NoSuchOperation(message_name, message_type)
    /\ \E n \in DOMAIN buffer :
        /\ StructEndsAt(buffer, n)
        /\ out' = Append(out, Emitted(n))
        /\ buffer' = SubSeq(buffer, n + 1, Len(buffer))
    /\ mode' = "NONE"
    /\ asked' = Append(asked, current)
    /\ UNCHANGED <<header, inbound, current, reads, aborted>>

(* It throws before the write if the operation is unknown, the struct      *)
(* incomplete or a value refused; what was read of the buffer until then   *)
(* depends on where the conversion stopped.                                *)
WriteMessageEndMarshalFails ==
    /\ ~aborted /\ MustBeWriting
    /\ ~NoSuchStruct(message_name, message_type)
    /\ ~Marshals(message_name, message_type, buffer)
    /\ mode' = ModeWhileEnding
    /\ \E k \in 0 .. Len(buffer) : buffer' = SubSeq(buffer, k + 1, Len(buffer))
    /\ asked' = Append(asked, current)
    /\ UNCHANGED <<header, inbound, out, current, reads, aborted>>

(* The transport may throw too, having taken nothing or a prefix.          *)
WriteMessageEndTransportFails ==
    /\ ~aborted /\ MustBeWriting
    /\ ~NoSuchStruct(message_name, message_type)
    /\ ~NoSuchOperation(message_name, message_type)
    /\ \E n \in DOMAIN buffer :
        /\ StructEndsAt(buffer, n)
        /\ \/ out' = out
           \/ out' = Append(out, Truncation(Emitted(n)))
        /\ buffer' = SubSeq(buffer, n + 1, Len(buffer))
    /\ mode' = ModeWhileEnding
    /\ asked' = Append(asked, current)
    /\ UNCHANGED <<header, inbound, current, reads, aborted>>

WriteMessageEndAborts ==
    /\ ~aborted /\ MustBeWriting
    /\ NoSuchStruct(message_name, message_type)
    /\ mode' = ModeWhileEnding
    /\ asked' = Append(asked, current)
    /\ aborted' = TRUE
    /\ UNCHANGED <<header, buffer, inbound, out, current, reads>>
-----------------------------------------------------------------------------
(* Reading.                                                                *)

Arriving == arrived[pos + 1]

(* The parser stands at the start of a document it will read exactly.      *)
AtWholeDocument ==
    /\ ~aborted /\ MustBeNone
    /\ pos < Len(arrived) /\ ~mid
    /\ Arriving.flaw \notin Unterminated \union {"syntax"}

AllButTheLastBrace == pos' = pos /\ mid' = TRUE /\ UNCHANGED <<arrived, closed>> \* slip: stops early
Peeked == UNCHANGED inbound \* slip: consumes nothing
ConsumeDocument ==
    /\ pos' = pos + 1
    /\ UNCHANGED <<arrived, mid, closed>>

(* The header members are checked and stored one at a time: a document     *)
(* that fails one has already overwritten those before it.                 *)
StoreHeader(d) ==
    /\ message_type' = IF d.flaw = "type" THEN message_type ELSE d.type
    /\ message_name' = IF d.flaw \in {"type", "name"} THEN message_name ELSE d.name
    /\ message_seqid' = IF d.flaw \in BadHeader \ {"nobody"} THEN message_seqid
                        ELSE ToInt32(d.seqid)

DemarshalThrows(d) ==
    \/ NoSuchOperation(d.name, d.type)
    \/ d.flaw = "schema"

(* What a caller can read of a document: its body, ended by a Stop.        *)
Payload(d) ==
    IF d.type = "exception" /\ d.flaw = "incomplete"
    THEN <<Malformed, Stop>> ELSE Append(d.body, Stop)

ReadMessageBegin ==
    /\ AtWholeDocument
    /\ Arriving.flaw \notin BadHeader
    /\ ~NoSuchStruct(Arriving.name, Arriving.type)
    /\ ~DemarshalThrows(Arriving)
    /\ ConsumeDocument
    /\ StoreHeader(Arriving)
    /\ buffer' = FreshBuffer \o Payload(Arriving)
    /\ mode' = "READING_MESSAGE"
    /\ got' = Append(got, [at |-> pos + 1, name |-> message_name', type |-> message_type',
                           seqid |-> message_seqid', body |-> <<>>])
    /\ UNCHANGED <<writes, refused, aborted>>

(* A header member is missing or wrong: thrown before the buffers change.  *)
ReadMessageBeginBadHeader ==
    /\ AtWholeDocument
    /\ Arriving.flaw \in BadHeader
    /\ ConsumeDocument
    /\ StoreHeader(Arriving)
    /\ refused' = refused + 1
    /\ UNCHANGED <<mode, buffer, writes, got, aborted>>

(* The operation is unknown or the body refused: thrown after the fresh    *)
(* buffer took whatever had been converted.  The mode is still NONE.       *)
ReadMessageBeginDemarshalFails ==
    /\ AtWholeDocument
    /\ Arriving.flaw \notin BadHeader
    /\ ~NoSuchStruct(Arriving.name, Arriving.type)
    /\ DemarshalThrows(Arriving)
    /\ ConsumeDocument
    /\ StoreHeader(Arriving)
    /\ \E k \in 0 .. Len(Arriving.body) :
        /\ Arriving.type = "exception" \/ NoSuchOperation(Arriving.name, Arriving.type)
           => k = 0
        /\ buffer' = FreshBuffer \o SubSeq(Arriving.body, 1, k)
    /\ refused' = refused + 1
    /\ UNCHANGED <<mode, writes, got, aborted>>

ReadMessageBeginAborts ==
    /\ AtWholeDocument
    /\ Arriving.flaw \notin BadHeader
    /\ NoSuchStruct(Arriving.name, Arriving.type)
    /\ ConsumeDocument
    /\ StoreHeader(Arriving)
    /\ buffer' = FreshBuffer
    /\ aborted' = TRUE
    /\ UNCHANGED <<mode, writes, reads>>

(* The parser is inside a document, or at one that misleads it, and throws *)
(* wherever it stops understanding: every position it can have reached.    *)
ReadMessageBeginParseError ==
    /\ ~aborted /\ MustBeNone
    /\ pos < Len(arrived)
    /\ mid \/ Arriving.flaw \in Unterminated \union {"syntax"}
    /\ \E p \in pos .. Len(arrived), m \in BOOLEAN :
        /\ m => p < Len(arrived)
        /\ m \/ p > pos
        /\ ~mid /\ Arriving.flaw = "syntax" => <<p, m>> \in {<<pos, TRUE>>, <<pos + 1, FALSE>>}
        /\ ~mid /\ Arriving.flaw \in Unterminated => p > pos /\ <<p, m>> # <<pos + 1, FALSE>>
        /\ pos' = p /\ mid' = m
    /\ UNCHANGED <<arrived, closed, mode, header, buffer, writes, reads, aborted>>

(* readAll throws when the peer has closed before the document ended.      *)
ReadMessageBeginEndOfFile ==
    /\ ~aborted /\ MustBeNone
    /\ closed
    /\ pos < Len(arrived) => mid \/ Arriving.flaw \in Unterminated
    /\ pos' = Len(arrived) /\ mid' = FALSE
    /\ UNCHANGED <<arrived, closed, mode, header, buffer, writes, reads, aborted>>

(* Any read* call: forwarded to the binary protocol over the buffer.  At   *)
(* the end of the buffer the binary protocol throws, which leaves this     *)
(* object as it was.                                                       *)
ReadBody ==
    /\ ~aborted /\ MustBeReading
    /\ buffer # <<>>
    /\ buffer' = Tail(buffer)
    /\ got' = [got EXCEPT ![Len(got)].body = Append(@, Head(buffer))]
    /\ UNCHANGED <<mode, header, inbound, writes, refused, aborted>>

ReadBodyPastEnd ==
    /\ ~aborted /\ MustBeReading
    /\ buffer = <<>>
    /\ UNCHANGED vars

ReadMessageEnd ==
    /\ ~aborted /\ MustBeReading
    /\ buffer' = NoBuffer
    /\ mode' = "NONE"
    /\ UNCHANGED <<header, inbound, writes, reads, aborted>>
-----------------------------------------------------------------------------
Writing ==
    \/ \E h \in CallerHeaders : WriteMessageBegin(h.name, h.type, h.seqid)
    \/ \E p \in CallerPieces : WriteBody(p)
    \/ WriteMessageEnd
    \/ WriteMessageEndMarshalFails
    \/ WriteMessageEndTransportFails
    \/ WriteMessageEndAborts

Reading ==
    \/ ReadMessageBegin
    \/ ReadMessageBeginBadHeader
    \/ ReadMessageBeginDemarshalFails
    \/ ReadMessageBeginAborts
    \/ ReadMessageBeginParseError
    \/ ReadMessageBeginEndOfFile
    \/ ReadBody
    \/ ReadBodyPastEnd
    \/ ReadMessageEnd

Peer == PeerCloses \/ \E d \in Documents : PeerSends(d)

Next == Writing \/ Reading \/ Peer \/ CallOutOfSequence

Spec == Init /\ [][Next]_vars
-----------------------------------------------------------------------------
(* Properties.                                                             *)

Request == [name : Names \union {NoName}, type : Types, seqid : Int32,
            body : Seq(Pieces)]
Receipt == [at : Nat \ {0}, name : Names, type : Types, seqid : Int32,
            body : Seq(Pieces)]

(* Every variable holds a value of its C++ type, a half-consumed document  *)
(* exists, and a buffer is there whenever a body call would dereference    *)
(* message_proto_ (lines 204-301 and 400-492 do so unchecked).             *)
TypeOK ==
    /\ mode \in Modes
    /\ message_name \in Names \union {NoName}
    /\ message_type \in Types
    /\ message_seqid \in Int32
    /\ buffer \in Seq(Pieces) \union {NoBuffer}
    /\ mode \in {"WRITING_MESSAGE", "READING_MESSAGE"} =>
          buffer # NoBuffer /\ message_name # NoName
    /\ arrived \in Seq(Document)
    /\ pos \in 0 .. Len(arrived)
    /\ mid \in BOOLEAN /\ (mid => pos < Len(arrived))
    /\ closed \in BOOLEAN /\ aborted \in BOOLEAN
    /\ out \in Seq(Document)
    /\ asked \in Seq(Request) /\ current \in Request
    /\ got \in Seq(Receipt) /\ (mode = "READING_MESSAGE" => got # <<>>)
    /\ refused \in Nat

(* How many calls of writeMessageEnd have returned to the caller: all of   *)
(* them, but for the one that broke the object.                            *)
Acknowledged == IF mode = "BROKEN" THEN Len(asked) - 1 ELSE Len(asked)

(* d is the JSON form of the first struct the caller wrote in message m.   *)
IsDocumentOf(d, m) ==
    \E n \in DOMAIN m.body :
        /\ StructEndsAt(m.body, n)
        /\ d = Dumped(m.name, m.type, m.seqid, SubSeq(m.body, 1, n - 1))

(* Every message whose writeMessageEnd returned is on the transport, in    *)
(* order, with exactly the header and body written between its own begin   *)
(* and end: nothing is left over from a message before it, read or         *)
(* written, finished or failed (the buffer swap of lines 90-94).           *)
AcknowledgedIsSent ==
    /\ Len(out) >= Acknowledged
    /\ \A i \in 1 .. Acknowledged : IsDocumentOf(out[i], asked[i])

(* What makes AcknowledgedIsSent inductive: while a message is written the  *)
(* object holds the header and the pieces the caller gave it, no others.   *)
HeldIsWritten ==
    mode = "WRITING_MESSAGE" =>
        /\ message_name = current.name
        /\ message_type = current.type
        /\ message_seqid = current.seqid
        /\ buffer = current.body

(* Beyond the acknowledged messages the transport holds at most one more   *)
(* document, a truncated one, and only if the object is broken: no peer    *)
(* ever sees a whole document behind a part of one (line 179).             *)
TruncatedIsLast ==
    /\ Len(out) <= Acknowledged + 1
    /\ Len(out) = Acknowledged + 1 =>
          mode = "BROKEN" /\ out[Len(out)].flaw = "truncated"
    /\ \A i \in 1 .. Len(out) : i <= Acknowledged => out[i].flaw # "truncated"

(* After a failed writeMessageEnd the object neither writes to nor reads   *)
(* from the transport again, whatever is called (lines 69-80 and 179).     *)
BrokenIsFinal ==
    [][mode = "BROKEN" => UNCHANGED <<mode, out, pos, mid, got>>]_vars

(* Every message handed to the caller is one document of the peer, with    *)
(* its header (the seqid as an int32) and a prefix of its body, nothing    *)
(* coming from a message that failed before it; and no document is handed  *)
(* over twice or out of order (lines 314-320 and 357-361).                 *)
ReceivedAsSent ==
    /\ \A i \in 1 .. Len(got) :
          LET g == got[i]
              d == arrived[g.at]
          IN  /\ g.at <= pos
              /\ i < Len(got) => g.at < got[i + 1].at
              /\ <<g.name, g.type, g.seqid>> = <<d.name, d.type, ToInt32(d.seqid)>>
              /\ Len(g.body) <= Len(Payload(d))
              /\ \A k \in 1 .. Len(g.body) : g.body[k] = Payload(d)[k]

(* What makes ReceivedAsSent inductive: while a message is read, the       *)
(* buffer holds exactly the part of its body the caller has not read yet.  *)
HeldIsUnread ==
    mode = "READING_MESSAGE" =>
        LET g == got[Len(got)]
            d == arrived[g.at]
        IN  /\ Len(g.body) + Len(buffer) = Len(Payload(d))
            /\ \A k \in 1 .. Len(buffer) : buffer[k] = Payload(d)[Len(g.body) + k]

(* As long as the peer sends only complete JSON objects, refusing one,     *)
(* for its header or for its body, never costs the object its place in     *)
(* the stream: each document is handed over or refused, once, and the next *)
(* call starts at the next one.                                            *)
BoundaryKept ==
    (/\ ~aborted
     /\ \A i \in 1 .. Len(arrived) : arrived[i].flaw \notin Unterminated \union {"syntax"})
    => ~mid /\ pos = Len(got) + refused

(* Only an object between messages takes anything from the transport, and  *)
(* only one that is writing puts anything there: a call made in the middle *)
(* of a message leaves both directions alone (lines 86, 182, 311, 388).    *)
TransportOnlyAtBoundaries ==
    [][/\ <<pos, mid>>' # <<pos, mid>> => mode = "NONE"
       /\ out' # out => mode = "WRITING_MESSAGE" /\ mode' # mode]_vars

(* The whole documents of the outbound stream, and the one that is not.    *)
Cut == out # <<>> /\ out[Len(out)].flaw = "truncated"
Outbox == IF Cut THEN SubSeq(out, 1, Len(out) - 1) ELSE out

Endpoint == INSTANCE AtomicEndpoint WITH
    Message <- Document,
    outbox <- Outbox,
    cut <- Cut,
    inbox <- [i \in 1 .. Len(got) |-> got[i].at],
    dead <- mode = "BROKEN" \/ aborted

(* To both ends the object is an atomic endpoint: whatever its callers do  *)
(* between begin and end, and whatever fails in there, a message goes out  *)
(* or comes in by one step, and a failed send is the end of the object.    *)
ImplementsEndpoint == Endpoint!Spec
=============================================================================
