------------------------ MODULE OCamlNiceJSONProtocol ------------------------
(***************************************************************************)
(* The protocol object of the OCaml library (src/lib/ocaml/nicejson.ml)    *)
(* over its C++ stubs (src/lib/ocaml/nicejson_intf.cc), used by one        *)
(* thread.                                                                 *)
(*                                                                         *)
(* One action is one call of a method; the calls by which generated code   *)
(* writes or reads the one struct of a message are one action.  A call in  *)
(* the wrong mode raises before it changes anything and is left out.       *)
(* Structs are values, and three of them are refused:                      *)
(*   Odd     by a check of the schema, which throws a NiceJSONError;       *)
(*   Raw     by json::parse: a string in it is not UTF-8;                  *)
(*   Misfit  by what json2protocol calls without a check: it has a null or *)
(*           a text for a double, no numeral for an i64, or no array for   *)
(*           an entry of a map.                                            *)
(* The last two are refused only when they are read.  As a caller writes   *)
(* it, a Misfit holds a NaN, which is null in JSON.                        *)
(***************************************************************************)
EXTENDS Naturals, Sequences

CONSTANTS
    Operations,    \* the operations of the service,
    Oneways,       \* those of them that are oneway,
    OtherNames,    \* and names that are none
    Structs,       \* structs that can be converted,
    Odd, Raw, Misfit, \* and three that cannot, each in its own way: see above
    Partial,       \* an exception without "message" or "type", in JSON, and
    Malformed,     \* the exception that is read in its place
    CallerHeaders, \* the name, type and seqid of messages the caller writes
    Documents,     \* the documents the peer may send, each a record of flaw,
                   \* name, type, seqid and body
    MaxArrived,    \* bound: documents the peer sends
    MaxBegun       \* bound: messages the caller starts to write

VARIABLES
    mode_,    \* a record: which mode, and the message written or read
    alive,    \* the process has not been ended by a C++ exception
    input,    \* the documents of the connection, in order
    at,       \* the next of them
    midway,   \* the stream stands inside a document
    sent,     \* the documents written
    call,     \* history: what the caller asked to write last,
    asked,    \* history: and what it was told is written
    begun,    \* history: messages the caller started to write
    returned, \* history: the documents readMessageBegin returned from
    got       \* history: the messages read

stream == <<input, at, midway>>
written == <<sent, call, asked, begun>>
read == <<returned, got>>
vars == <<mode_, alive, stream, written, read>>

ASSUME Known == Oneways \subseteq Operations /\ Operations \intersect OtherNames = {}
ASSUME Bounded == MaxArrived \in Nat /\ MaxBegun \in Nat

\* What a caller passes to writeMessageBegin: a name, a type, a seqid and no more.
ASSUME HeadersKnown ==
    \A h \in CallerHeaders : h = [name |-> h.name, type |-> h.type, seqid |-> h.seqid]
-----------------------------------------------------------------------------
NoMessage == [is |-> "MODE_NONE"]
Broken == [is |-> "BROKEN"]
Message(is, h, body) ==
    [is |-> is, name |-> h.name, type |-> h.type, seqid |-> h.seqid, body |-> body]

(* Only NiceJSONError and TProtocolException are handed back to OCaml, and *)
(* by service_struct_name_* not even these: an operation that does not     *)
(* exist ends the process, and so does the assertion that there is a       *)
(* struct for the result of a oneway operation.                            *)
HasStruct(h) == h.name \in Operations /\ ~(h.type = "reply" /\ h.name \in Oneways)

(* The parse_error of json::parse is not handed back either; nor is what   *)
(* stoll, get<double>() and operator[] throw in json2protocol.             *)
ParsesInC(body) == body # Raw
ThrowsNothingElse(body) == body # Misfit
CatchesLess(body) == body \notin {Odd, Raw, Misfit} \* slip: NiceJSONError is let through
Returns(body) == ParsesInC(body) /\ ThrowsNothingElse(body)

\* json_from_binary and binary_from_json, where they return.
Converts(body) == body # Odd

(* What writeMessageEnd and readMessageBegin make of a message.  Exceptions *)
(* do not pass through C++.  The binary form of no struct is read past its  *)
(* end, which is a TTransportException.                                     *)
DiesWriting(m) == m.type # "exception" /\ (~HasStruct(m) \/ m.body = <<>>)
DiesReading(d) == d.type # "exception" /\ (~HasStruct(d) \/ ~Returns(d.body))
Deserialized(d) ==
    IF d.type = "exception" /\ d.body \in {Partial, Misfit} THEN Malformed ELSE d.body
-----------------------------------------------------------------------------
Init ==
    /\ mode_ = NoMessage /\ alive = TRUE
    /\ input \in UNION {[1..n -> Documents] : n \in 0..MaxArrived}
    /\ at = 1 /\ midway = FALSE
    /\ returned = <<>> /\ got = <<>>
    /\ sent = <<>> /\ call = <<>> /\ asked = <<>> /\ begun = 0

(* The mode is not looked at: a message being written or read is dropped,  *)
(* and a broken object works again.                                        *)
Unsent == IF mode_.is = "WRITING_MESSAGE" THEN mode_.body ELSE <<>> \* slip: kept
Fresh == <<>>

WriteMessageBegin(h) ==
    /\ alive /\ begun < MaxBegun
    /\ mode_' = Message("WRITING_MESSAGE", h, Fresh)
    /\ call' = [header |-> h, body |-> <<>>] /\ begun' = begun + 1
    /\ UNCHANGED <<alive, stream, sent, asked, read>>

\* An exception has no double in it.
WriteBody(s) ==
    /\ alive /\ mode_.is = "WRITING_MESSAGE" /\ call.body = <<>>
    /\ s = Misfit => mode_.type # "exception"
    /\ mode_' = [mode_ EXCEPT !.body = Append(@, s)]
    /\ call' = [call EXCEPT !.body = <<s>>]
    /\ UNCHANGED <<alive, stream, sent, asked, begun, read>>

WriteMessageEnd ==
    /\ alive /\ mode_.is = "WRITING_MESSAGE"
    /\ alive' = ~DiesWriting(mode_)
    /\ IF ~DiesWriting(mode_) /\ mode_.body # <<>> /\ Converts(Head(mode_.body))
       THEN /\ sent' = Append(sent, [name |-> mode_.name, type |-> mode_.type,
                                     seqid |-> mode_.seqid, body |-> Head(mode_.body)])
            /\ asked' = Append(asked, call)
            /\ mode_' = NoMessage
       ELSE mode_' = Broken /\ UNCHANGED <<sent, asked>>
    /\ UNCHANGED <<stream, call, begun, read>>

(* The parser asks the transport for one character at a time, and has none *)
(* too many when it sees the brace that ends a document.                   *)
BehindItsBlock == IF at < Len(input) THEN at + 2 ELSE at + 1 \* slip: read in blocks
BehindDocument == at + 1

\* The text of the document is sound and its members are what they should be.
ReadMessageBegin ==
    /\ alive /\ mode_ = NoMessage /\ ~midway /\ at <= Len(input) /\ input[at].flaw # "text"
    /\ at' = BehindDocument
    /\ LET d == input[at]
       IN  IF d.flaw # "none"
           THEN UNCHANGED <<mode_, alive, returned>>
           ELSE IF DiesReading(d)
           THEN alive' = FALSE /\ UNCHANGED <<mode_, returned>>
           ELSE IF Converts(d.body)
           THEN /\ mode_' = Message("READING_MESSAGE", d, <<Deserialized(d)>>)
                /\ returned' = Append(returned, at)
                /\ UNCHANGED alive
           ELSE UNCHANGED <<mode_, alive, returned>>
    /\ UNCHANGED <<input, midway, written, got>>

(* An error in the text raises at that character.  What is left of the     *)
(* document is taken for the next one, until by chance the stream stands   *)
(* before a document again; no part of a document is a message.            *)
ReadMessageBeginTorn ==
    /\ alive /\ mode_ = NoMessage /\ at <= Len(input) /\ (midway \/ input[at].flaw = "text")
    /\ at' \in at..Len(input) + 1
    /\ midway' \in BOOLEAN
    /\ midway' => at' <= Len(input)
    /\ ~midway' => at' > at
    /\ UNCHANGED <<mode_, alive, input, written, read>>

(* The struct of the message; the caller may also leave it unread.         *)
ReadBody ==
    /\ alive /\ mode_.is = "READING_MESSAGE" /\ mode_.body # <<>>
    /\ got' = Append(got, [document |-> at - 1,
                           message |-> Message("READ", mode_, Head(mode_.body))])
    /\ mode_' = [mode_ EXCEPT !.body = Tail(@)]
    /\ UNCHANGED <<alive, stream, written, returned>>

ReadMessageEnd ==
    /\ alive /\ mode_.is = "READING_MESSAGE"
    /\ mode_' = NoMessage
    /\ UNCHANGED <<alive, stream, written, read>>

Next ==
    \/ \E h \in CallerHeaders : WriteMessageBegin(h)
    \/ \E s \in Structs \union {Odd, Raw, Misfit} : WriteBody(s)
    \/ WriteMessageEnd
    \/ ReadMessageBegin \/ ReadMessageBeginTorn \/ ReadBody \/ ReadMessageEnd

Spec == Init /\ [][Next]_vars
-----------------------------------------------------------------------------
(* Every document that is sent has the name, the type, the seqid and the   *)
(* struct of the message begun last, although a message before it may have *)
(* been dropped halfway, by an error or by its caller.                     *)
SentAsAsked ==
    /\ Len(sent) = Len(asked)
    /\ \A k \in DOMAIN sent :
        /\ asked[k].body = <<sent[k].body>>
        /\ asked[k].header =
              [name |-> sent[k].name, type |-> sent[k].type, seqid |-> sent[k].seqid]

(* The documents that the generated code returns from.                     *)
Readable(d) == d.flaw = "none" /\ Converts(d.body) /\ ~DiesReading(d)

(* As long as the text of the documents is sound, none is passed over:     *)
(* those that readMessageBegin does not return from are those with a flaw, *)
(* whether or not the messages before were read to the end or dropped.     *)
(* None is returned twice, or after one that was sent later, and what is   *)
(* read of a message comes from its document.                              *)
ReadsInOrder ==
    /\ (\A i \in DOMAIN input : input[i].flaw # "text") =>
          {returned[k] : k \in DOMAIN returned} = {i \in 1..at - 1 : Readable(input[i])}
    /\ \A j, k \in DOMAIN returned : j < k => returned[j] < returned[k]
    /\ \A k \in DOMAIN got :
        LET d == input[got[k].document]
        IN  Readable(d) /\ got[k].message = Message("READ", d, Deserialized(d))

\* The calls, and the documents, that raise what no stub catches.
NotAnException(h) == h.type # "exception"
FatalCall(c) == NotAnException(c.header) /\ (~HasStruct(c.header) \/ c.body = <<>>)
FatalDocument(d) ==
    d.flaw = "none" /\ NotAnException(d) /\ (~HasStruct(d) \/ d.body \in {Raw, Misfit})

(* The process ends only over a message that it writes for an operation    *)
(* without a struct or without writing one, or over a document for such an *)
(* operation, with a string that is not UTF-8, or with JSON that makes     *)
(* json2protocol throw what is no NiceJSONError.  And it does end over     *)
(* such a document, before it takes another: none is just refused.         *)
EndsOverTheUncaught ==
    /\ ~alive => \/ mode_ = Broken /\ FatalCall(call)
                 \/ mode_ = NoMessage /\ at > 1 /\ FatalDocument(input[at - 1])
    /\ (\A i \in DOMAIN input : input[i].flaw # "text") =>
          \A i \in 1..at - 1 : FatalDocument(input[i]) => ~alive /\ i = at - 1
=============================================================================
