--------------------------- MODULE JsonConversions ---------------------------
(***************************************************************************)
(* The ways of the JSON library (src/lib/cpp/json.hpp) to turn a value     *)
(* into something else and back: CBOR and MessagePack, the flat object of  *)
(* its pointers, and the patch that makes one value of another.  Documents *)
(* and patches may also be those of somebody else.                         *)
(***************************************************************************)
EXTENDS JsonBinary, JsonPointer

CONSTANTS
    Values,   \* values that are encoded and flattened
    Foreign,  \* values that somebody else encodes
    Shorter,  \* records of a double and its halves and singles
    Compared, \* sources and targets of diff
    Patches,  \* records of a source, somebody's patch, and what it gives
    Cuts      \* numbers of bytes behind which a document may be cut off

ASSUME CutsAssumption == Cuts \subseteq Nat

VARIABLES
    task,   \* what is to be done
    stage,  \* "given", "made", "arrived", "done", or "refused" by an exception
    made,   \* the document, the flat object, or what is left of the patch
    taken,  \* what of the document arrives
    back    \* the value made of it

vars == <<task, stage, made, taken, back>>

Formats == {"cbor", "msgpack"}
Nothing == <<>>

Tasks ==
    [kind : Formats, value : Values, by : {"us"}]
    \union [kind : Formats, value : Foreign, by : {"others"}]
    \union [kind : {"flat"}, value : Values]
    \union [kind : {"diff"}, source : Compared, target : Compared]
    \union {[kind |-> "patch", source |-> p.source, patch |-> p.patch, target |-> p.target] :
                p \in Patches}
-----------------------------------------------------------------------------
(* The encodings of a value that RFC 7049 and the specification of         *)
(* MessagePack allow: numbers and sizes wider than needed, containers of   *)
(* indefinite length, members in any order, doubles in fewer bytes.        *)

\* A size below a limit goes into the head itself.
Fixed(head, size, limit) ==
    IF Len(size) <= 1 THEN {<<head + n>> : n \in {Small(size)} \intersect 0 .. (limit - 1)} ELSE {}

Wider(head, size, widths) ==
    LET first == CHOOSE w \in widths : \A u \in widths : w <= u
    IN  {Sized(head + Log2(w) - Log2(first), size, w) : w \in {u \in widths : Len(size) <= u}}

CborHeads(kind, size) == Fixed(kind, size, 24) \union Wider(kind + 24, size, {1, 2, 4, 8})

Signed(head, size, negative) ==
    {<<head + Log2(w)>> \o (IF negative THEN Complement(Padded(size, w)) ELSE Padded(size, w)) :
        w \in {u \in {1, 2, 4, 8} : FitsSigned(size, u)}}

MsgpackNumbers(v) ==
    IF v[2]
    THEN {<<255 - n[1]>> : n \in Fixed(0, v[3], 32)}
         \union Signed(208, v[3], TRUE)
    ELSE Fixed(0, v[3], 128) \union Wider(204, v[3], {1, 2, 4, 8})
         \union Signed(208, v[3], FALSE)

DoublesOf(v, single, double) ==
    {<<double>> \o v[2]} \union {<<single>> \o s.single : s \in {s \in Shorter : s.double = v[2]}}

HalvesOf(v) == {<<249>> \o s.half : s \in {s \in Shorter : s.double = v[2] /\ s.half # Nothing}}

Heads(format, type, n) ==
    LET size == Size(n)
    IN  CASE format = "cbor" ->
                CborHeads([string |-> 96, array |-> 128, object |-> 160][type], size)
          [] format = "msgpack" /\ type = "string" ->
                Fixed(160, size, 32) \union Wider(217, size, {1, 2, 4})
          [] format = "msgpack" /\ type = "array" ->
                Fixed(144, size, 16) \union Wider(220, size, {2, 4})
          [] format = "msgpack" /\ type = "object" ->
                Fixed(128, size, 16) \union Wider(222, size, {2, 4})

Texts(format, bytes) == {h \o bytes : h \in Heads(format, "string", Len(bytes))}

\* One of each of some sets, one behind the other.
Chains(sets) == FoldLeft(LAMBDA all, S : {a \o s : a \in all, s \in S}, {<<>>}, sets)

\* What stands between a head and the end of a container.
Contained(format, type, n, contents) ==
    {h \o c : h \in Heads(format, type, n), c \in contents}
    \union (IF format = "cbor"
            THEN {<<IF type = "array" THEN 159 ELSE 191>> \o c \o <<255>> : c \in contents} ELSE {})

RECURSIVE Encodings(_, _)
Encodings(format, v) ==
    LET type == v[1]
        cbor == format = "cbor"
        Member(k) == Chains(<<Texts(format, k), Encodings(format, v[2][k])>>)
    IN  CASE type = "null" -> {<<IF cbor THEN 246 ELSE 192>>}
          [] type = "boolean" -> {<<(IF cbor THEN 244 ELSE 194) + (IF v[2] THEN 1 ELSE 0)>>}
          [] type \in {"integer", "unsigned"} ->
                IF cbor THEN CborHeads(IF v[2] THEN 32 ELSE 0, v[3]) ELSE MsgpackNumbers(v)
          [] type = "float" ->
                IF cbor THEN DoublesOf(v, 250, 251) \union HalvesOf(v) ELSE DoublesOf(v, 202, 203)
          [] type = "string" -> Texts(format, v[2])
          [] type = "array" ->
                Contained(format, type, Len(v[2]),
                    Chains([i \in DOMAIN v[2] |-> Encodings(format, v[2][i])]))
          [] type = "object" ->
                Contained(format, type, Cardinality(DOMAIN v[2]),
                    UNION {Chains([i \in DOMAIN keys |-> Member(keys[i])]) :
                            keys \in SetToSeqs(DOMAIN v[2])})
-----------------------------------------------------------------------------
Init ==
    /\ task \in Tasks /\ stage = "given"
    /\ made = Nothing /\ taken = Nothing /\ back = Nothing

(* Binary documents: to_cbor and to_msgpack, or another program's.         *)
Encode ==
    /\ stage = "given" /\ task.kind \in Formats /\ task.by = "us"
    /\ made' = IF task.kind = "cbor" THEN WriteCbor(task.value) ELSE WriteMsgpack(task.value)
    /\ stage' = "made"
    /\ UNCHANGED <<task, taken, back>>

EncodeElsewhere ==
    /\ stage = "given" /\ task.kind \in Formats /\ task.by = "others"
    /\ made' \in Encodings(task.kind, task.value)
    /\ stage' = "made"
    /\ UNCHANGED <<task, taken, back>>

(* The document arrives, maybe cut off or with a byte too many.            *)
Arrive ==
    /\ stage = "made" /\ task.kind \in Formats
    /\ taken' \in {SubSeq(made, 1, n) : n \in {c \in Cuts : c < Len(made)}}
                 \union {made, Append(made, 0)}
    /\ stage' = "arrived"
    /\ UNCHANGED <<task, made, back>>

\* The value that an operation gives, or its exception.
Conclude(outcome) ==
    /\ back' = IF outcome.error = "none" THEN outcome.value ELSE Nothing
    /\ stage' = IF outcome.error = "none" THEN "done" ELSE "refused"

Decode ==
    /\ stage = "arrived"
    /\ Conclude(FromBinary(task.kind, taken))
    /\ UNCHANGED <<task, made, taken>>

MakeFlat ==
    /\ stage = "given" /\ task.kind = "flat"
    /\ made' = <<"object", Flatten(<<>>, task.value)>>
    /\ stage' = "made"
    /\ UNCHANGED <<task, taken, back>>

MakeNested ==
    /\ stage = "made" /\ task.kind = "flat"
    /\ Conclude(Unflatten(made))
    /\ UNCHANGED <<task, made, taken>>

(* patch: with the patch that diff makes, or with another.                 *)
BeginPatch ==
    /\ stage = "given" /\ task.kind \in {"diff", "patch"}
    /\ made' = IF task.kind = "patch" THEN task.patch ELSE Diff(task.source, task.target, <<>>)
    /\ back' = task.source
    /\ stage' = "made"
    /\ UNCHANGED <<task, taken>>

Mandatory ==
    [add |-> {"value"}, remove |-> {}, replace |-> {"value"}, move |-> {"from"}, copy |-> {"from"},
     test |-> {"value"}]

Complete(operation) ==
    /\ {"op", "path"} \subseteq DOMAIN operation
    /\ operation.op \in DOMAIN Mandatory
    /\ Mandatory[operation.op] \subseteq DOMAIN operation

Operating ==
    /\ stage = "made" /\ task.kind \in {"diff", "patch"} /\ made # <<>>
    /\ UNCHANGED <<task, taken>>

Turn(op) == Operating /\ Complete(Head(made)) /\ Head(made).op = op

Refuse == stage' = "refused" /\ back' = Nothing /\ UNCHANGED made

Apply(outcome) ==
    IF outcome.error # "none" THEN Refuse
    ELSE back' = outcome.value /\ made' = Tail(made) /\ UNCHANGED stage

Path == Split(Head(made).path)
From == Split(Head(made).from)

Add ==
    /\ Turn("add")
    /\ Apply(Then(Path, LAMBDA to : OperationAdd(back, to.value, Head(made).value)))

Remove_ == Turn("remove") /\ Apply(Then(Path, LAMBDA at : OperationRemove(back, at.value)))

Replace ==
    /\ Turn("replace")
    /\ Apply(Then(Path, LAMBDA at : OperationReplace(back, at.value, Head(made).value)))

Move ==
    /\ Turn("move")
    /\ Apply(Then(Path, LAMBDA to :
            Then(From, LAMBDA from : OperationMove(back, from.value, to.value))))

Copy ==
    /\ Turn("copy")
    /\ \/ Apply(Then(Path, LAMBDA to :
                Then(From, LAMBDA from : OperationCopy(back, from.value, to.value))))
       \/ Apply(Then(Path, LAMBDA to :
                Then(From, LAMBDA from : OperationCopyTargetFirst(back, from.value, to.value))))

Test ==
    /\ Turn("test")
    /\ Apply(Then(Path, LAMBDA at : OperationTest(back, at.value, Head(made).value)))

\* A member is missing, or there is no such operation: a parse_error.
Invalid == Operating /\ ~Complete(Head(made)) /\ Refuse

EndPatch ==
    /\ stage = "made" /\ task.kind \in {"diff", "patch"} /\ made = <<>>
    /\ stage' = "done"
    /\ UNCHANGED <<task, made, taken, back>>

Next ==
    \/ Encode \/ EncodeElsewhere \/ Arrive \/ Decode
    \/ MakeFlat \/ MakeNested
    \/ BeginPatch \/ Add \/ Remove_ \/ Replace \/ Move \/ Copy \/ Test \/ Invalid \/ EndPatch

Spec == Init /\ [][Next]_vars
-----------------------------------------------------------------------------
(* Properties.                                                             *)

(* Neither format tells a signed number from an unsigned one.              *)
RECURSIVE Plain(_)
Plain(v) ==
    CASE v[1] = "integer" /\ ~v[2] -> Unsigned(v[3])
      [] v[1] \in Structured -> <<v[1], [i \in DOMAIN v[2] |-> Plain(v[2][i])]>>
      [] OTHER -> v

(* A document that is whole is read as the value it encodes, to every bit  *)
(* of its numbers, whoever has written it and however; one that is cut off *)
(* anywhere, or goes on behind the value, is refused.                      *)
EncodedIsReadBack ==
    task.kind \in Formats =>
        /\ stage = "done" => taken = made /\ Plain(back) = Plain(task.value)
        /\ stage = "refused" => taken # made

(* What a flat object can tell: nothing of a container that is empty, and  *)
(* an object with a member called 0 looks like an array.                   *)
RECURSIVE Restorable(_)
Restorable(v) ==
    v[1] \in Structured =>
        /\ DOMAIN v[2] # {}
        /\ v[1] = "object" => <<Zero>> \notin DOMAIN v[2]
        /\ \A i \in DOMAIN v[2] : Restorable(v[2][i])

(* Flattened and unflattened a value is what it was, whatever is in its    *)
(* keys and however long its arrays are.                                   *)
FlattenedIsRestored ==
    task.kind = "flat" /\ Restorable(task.value) =>
        stage # "refused" /\ (stage = "done" => back = task.value)

(* The comment on diff (lines 14055-14059) calls this an invariant: the    *)
(* patch that it makes is applied without an exception and gives the       *)
(* target.  Other patches give what RFC 6902 says of its examples.         *)
PatchesLeadToTarget ==
    task.kind \in {"diff", "patch"} =>
        /\ stage = "done" => task.target # Nothing /\ Equal(back, task.target)
        /\ stage = "refused" => task.target = Nothing
=============================================================================
