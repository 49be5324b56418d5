-------------------------- MODULE PyNiceJSONProtocol --------------------------
(***************************************************************************)
(* The protocol object of the Python library                               *)
(* (src/lib/py/src/TNiceJSONProtocol.py) over its C++ extension            *)
(* (src/lib/py/thrift_nicejson.cpp), used by one thread.                   *)
(*                                                                         *)
(* One action is one call of a method; the calls by which generated code   *)
(* writes or reads the one struct of a message are one action.  A call in  *)
(* the wrong mode raises before it changes anything and is left out.       *)
(* Structs are values; what the schema does not let through is Odd.        *)
(***************************************************************************)
EXTENDS Naturals, Sequences

CONSTANTS
    Operations,   \* the operations of the service,
    Oneways,      \* those of them that are oneway,
    OtherNames,   \* and names that are none
    Structs,      \* structs that can be converted,
    Odd,          \* and one that cannot
    CallerHeaders,\* the name, type and seqid of messages the caller writes
    Documents,    \* the documents the peer may send, each a record of flaw,
                  \* name, type, seqid and body
    MaxArrived,   \* bound: documents the peer sends
    MaxBegun      \* bound: messages the caller starts to write

VARIABLES
    mode_,
    message_name_, message_type_, message_seqid_,
    message_buffer_,  \* the structs written, or to be read
    input,            \* the documents of the connection, in order
    outcomes,         \* history: how readMessageBegin ended on each
    sent,             \* the documents written
    call,             \* history: what the caller asked to write last,
    asked,            \* history: and what it was told is written
    begun,            \* history: messages the caller started to write
    got               \* history: the messages read

header == <<message_name_, message_type_, message_seqid_>>
written == <<sent, call, asked, begun>>
read == <<outcomes, got>>
vars == <<mode_, header, message_buffer_, input, written, read>>

ASSUME Known == Oneways \subseteq Operations /\ Operations \intersect OtherNames = {}
ASSUME Bounded == MaxArrived \in Nat /\ MaxBegun \in Nat
-----------------------------------------------------------------------------
(* The extension raises for an operation it does not know and for a struct *)
(* that cannot be converted.                                               *)
HasStruct(name, type) == type = "exception" \/ name \in Operations
Converts(struct) == struct \in Structs

(* The flaw of a document is the first thing wrong with it: its "text";    *)
(* "type", "name" or "seqid", missing or of the wrong kind; "nobody"; or   *)
(* "none", though its body may yet be Odd.  The two branches for the types *)
(* "exception" and "oneway" name a variable that does not exist.           *)
Misspelt == {"exception", "oneway"}

\* How many of type, name and seqid are stored before it raises, if it does.
Stored(d) ==
    IF d.flaw = "type" \/ d.type \in Misspelt THEN 0
    ELSE IF d.flaw = "name" THEN 1
    ELSE IF d.flaw = "seqid" THEN 2
    ELSE 3

Outcome(d) ==
    IF d.flaw # "type" /\ d.type \in Misspelt THEN "NameError"
    ELSE IF d.flaw = "none" /\ HasStruct(d.name, d.type) /\ Converts(d.body) THEN "read"
    ELSE "refused"
-----------------------------------------------------------------------------
Init ==
    /\ mode_ = "MODE_NONE"
    /\ message_name_ = "" /\ message_type_ = "" /\ message_seqid_ = 0
    /\ message_buffer_ = <<>>
    /\ input \in UNION {[1..n -> Documents] : n \in 0..MaxArrived}
    /\ outcomes = <<>> /\ got = <<>>
    /\ sent = <<>> /\ call = <<>> /\ asked = <<>> /\ begun = 0

(* writeMessageBegin keeps the seqid in an attribute that nothing reads.   *)
KeepsBuffer(h) == \* slip: the buffer of the last message is used again
    /\ mode_ = "MODE_NONE" /\ begun < MaxBegun
    /\ mode_' = "WRITING_MESSAGE"
    /\ message_name_' = h.name /\ message_type_' = h.type
    /\ call' = [header |-> h, body |-> <<>>] /\ begun' = begun + 1
    /\ UNCHANGED <<message_seqid_, message_buffer_, input, sent, asked, read>>

WriteMessageBegin(h) ==
    /\ mode_ = "MODE_NONE" /\ begun < MaxBegun
    /\ mode_' = "WRITING_MESSAGE"
    /\ message_name_' = h.name /\ message_type_' = h.type
    /\ message_buffer_' = <<>>
    /\ call' = [header |-> h, body |-> <<>>] /\ begun' = begun + 1
    /\ UNCHANGED <<message_seqid_, input, sent, asked, read>>

(* The struct of the message, once.                                        *)
WriteBody(s) ==
    /\ mode_ = "WRITING_MESSAGE" /\ call.body = <<>>
    /\ message_buffer_' = Append(message_buffer_, s)
    /\ call' = [call EXCEPT !.body = <<s>>]
    /\ UNCHANGED <<mode_, header, input, sent, asked, begun, read>>

CanBeSent ==
    /\ message_buffer_ # <<>> /\ Converts(Head(message_buffer_))
    /\ HasStruct(message_name_, message_type_)

WriteMessageEnd ==
    /\ mode_ = "WRITING_MESSAGE"
    \* There is no result of a oneway operation: an assertion ends the process.
    /\ ~(message_type_ = "reply" /\ message_name_ \in Oneways)
    /\ IF CanBeSent
       THEN /\ sent' = Append(sent, [name |-> message_name_, type |-> message_type_,
                                     seqid |-> message_seqid_, body |-> Head(message_buffer_)])
            /\ asked' = Append(asked, call)
            /\ message_name_' = "" /\ message_type_' = "" /\ message_seqid_' = 0
            /\ mode_' = "MODE_NONE"
       ELSE mode_' = "BROKEN" /\ UNCHANGED <<header, sent, asked>>
    /\ UNCHANGED <<message_buffer_, input, call, begun, read>>

(* readMessageBegin.  The answer to a oneway operation has no struct: an   *)
(* assertion ends the process, as above.                                   *)
Document == input[Len(outcomes) + 1]
BeginsEarly(d) == Stored(d) = 3 \* slip: mode_ set before the conversion
Begins(d) == Outcome(d) = "read"

ReadMessageBegin ==
    /\ mode_ = "MODE_NONE" /\ Len(outcomes) < Len(input) /\ Document.flaw # "text"
    /\ ~(Document.flaw = "none" /\ Document.type = "reply" /\ Document.name \in Oneways)
    /\ outcomes' = Append(outcomes, Outcome(Document))
    /\ message_type_' = IF Stored(Document) >= 1 THEN Document.type ELSE message_type_
    /\ message_name_' = IF Stored(Document) >= 2 THEN Document.name ELSE message_name_
    /\ message_seqid_' = IF Stored(Document) >= 3 THEN Document.seqid ELSE message_seqid_
    /\ message_buffer_' = IF Outcome(Document) = "read" THEN <<Document.body>> ELSE message_buffer_
    /\ mode_' = IF Begins(Document) THEN "READING_MESSAGE" ELSE mode_
    /\ UNCHANGED <<input, written, got>>

(* readjson takes an error in the text for the end of a text whose rest is *)
(* yet to come: it asks for more, swallowing all that follows, until the   *)
(* connection ends.                                                        *)
ReadsToTheEnd ==
    /\ mode_ = "MODE_NONE" /\ Len(outcomes) < Len(input) /\ Document.flaw = "text"
    /\ outcomes' = [i \in DOMAIN input |-> IF i \in DOMAIN outcomes THEN outcomes[i] ELSE "EOFError"]
    /\ UNCHANGED <<mode_, header, message_buffer_, input, written, got>>

(* The struct of the message; the caller may also leave it unread.         *)
ReadBody ==
    /\ mode_ = "READING_MESSAGE" /\ message_buffer_ # <<>>
    /\ got' = Append(got, [document |-> Len(outcomes), name |-> message_name_,
                           type |-> message_type_, seqid |-> message_seqid_,
                           body |-> Head(message_buffer_)])
    /\ message_buffer_' = Tail(message_buffer_)
    /\ UNCHANGED <<mode_, header, input, written, outcomes>>

ReadMessageEnd ==
    /\ mode_ = "READING_MESSAGE"
    /\ mode_' = "MODE_NONE"
    /\ message_buffer_' = <<>>
    /\ message_name_' = "" /\ message_type_' = "" /\ message_seqid_' = 0
    /\ UNCHANGED <<input, written, read>>

Next ==
    \/ \E h \in CallerHeaders : WriteMessageBegin(h)
    \/ \E s \in Structs \union {Odd} : WriteBody(s)
    \/ WriteMessageEnd
    \/ ReadMessageBegin \/ ReadsToTheEnd \/ ReadBody \/ ReadMessageEnd

Spec == Init /\ [][Next]_vars
-----------------------------------------------------------------------------
(* Everything that is read comes from one document: name, type, seqid and  *)
(* struct are those of the document that readMessageBegin met last, which  *)
(* had nothing wrong with it, and no document is read twice, although what *)
(* a refused document has stored stays in the object.                      *)
ReadsWholeMessages ==
    /\ \A k \in DOMAIN got :
        LET d == input[got[k].document]
        IN  /\ d.flaw = "none" /\ Converts(d.body)
            /\ got[k] = [document |-> got[k].document, name |-> d.name, type |-> d.type,
                         seqid |-> d.seqid, body |-> d.body]
    /\ \A j, k \in DOMAIN got : j < k => got[j].document < got[k].document

(* The seqids of the documents whose body was refused.                     *)
LeftBehind ==
    {input[i].seqid : i \in {j \in DOMAIN outcomes : outcomes[j] # "read" /\ Stored(input[j]) = 3}}

(* Every document that is sent has the name, the type and the struct of    *)
(* the message it was asked for, and of no other; its seqid is not the one *)
(* it was given, but 0, or that of a document whose body was refused       *)
(* before.                                                                 *)
SentAsAskedButForSeqid ==
    /\ Len(sent) = Len(asked)
    /\ \A k \in DOMAIN sent :
        /\ sent[k].name = asked[k].header.name /\ sent[k].type = asked[k].header.type
        /\ <<sent[k].body>> = asked[k].body
        /\ sent[k].seqid \in {0} \union LeftBehind

(* A document with nothing wrong with it is read: the oneway call of the   *)
(* tutorial, and the exception by which a server answers a call it does    *)
(* not know, as well as calls and replies.                                 *)
SoundMessagesAreRead ==
    \A i \in DOMAIN outcomes :
        /\ \A j \in 1..i : input[j].flaw # "text"
        /\ input[i].flaw = "none" /\ Converts(input[i].body)
        /\ HasStruct(input[i].name, input[i].type)
        => outcomes[i] = "read"
=============================================================================
