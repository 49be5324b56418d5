------------------------------ MODULE JsonText ------------------------------
(***************************************************************************)
(* The text of a message on the wire: JsonReader takes it in, and the      *)
(* serializer of src/lib/cpp/json.hpp (dump) makes it.  The reader is held *)
(* against the grammar of RFC 8259, written here as a definition of what a *)
(* whole text denotes, and against the values that were dumped.            *)
(***************************************************************************)
EXTENDS JsonGrammar, JsonKeys, TLC

CONSTANTS
    NaN,      \* the content of a double that is NaN or infinite
    Written,  \* values that are dumped, each compactly or indented
    Endings   \* what might have followed a text that was refused
-----------------------------------------------------------------------------
(* The serializer.                                                         *)

HexDigit(n) == IF n < 10 THEN 48 + n ELSE 87 + n

Escaped == (34 :> 34) @@ (92 :> 92) @@ (8 :> 98) @@ (12 :> 102)
           @@ (10 :> 110) @@ (13 :> 114) @@ (9 :> 116)

(* dump_escaped, without ensure_ascii: bytes of any other kind are copied. *)
NoControls(c) == IF c \in DOMAIN Escaped THEN <<Backslash, Escaped[c]>> ELSE <<c>> \* slip
EscapedByte(c) ==
    CASE c \in DOMAIN Escaped -> <<Backslash, Escaped[c]>>
      [] c \in (0 .. 31) \ DOMAIN Escaped ->
            <<Backslash, LowerU, Zero, Zero, HexDigit(c \div 16), HexDigit(c % 16)>>
      [] OTHER -> <<c>>

DumpEscaped(s) == <<Quote>> \o FlattenSeq([i \in DOMAIN s |-> EscapedByte(s[i])]) \o <<Quote>>

DecimalDigits[n \in Nat] ==
    IF n < 10 THEN <<48 + n>> ELSE Append(DecimalDigits[n \div 10], 48 + (n % 10))

DumpInteger(n) == IF n < 0 THEN <<Minus>> \o DecimalDigits[-n] ELSE DecimalDigits[n]

(* The digits are those of printf; a number without a point or an exponent *)
(* gets ".0".                                                              *)
DumpFloat(digits) ==
    IF digits = NaN THEN Null
    ELSE IF IsFloat(digits) THEN digits ELSE digits \o <<Dot, Zero>>

NewLine(pretty, indent) == IF pretty THEN <<10>> \o [i \in 1 .. indent |-> 32] ELSE <<>>

(* The parts of a container, each on a line of its own if it is indented.  *)
Enclosed(open, parts, close, pretty, indent) ==
    IF parts = <<>> THEN <<open, close>>
    ELSE <<open>>
         \o FlattenSeq([i \in DOMAIN parts |->
                (IF i = 1 THEN <<>> ELSE <<Comma>>) \o NewLine(pretty, indent + 2) \o parts[i]])
         \o NewLine(pretty, indent) \o <<close>>

RECURSIVE Dump(_, _, _)
Dump(value, pretty, indent) ==
    LET Inner(v) == Dump(v, pretty, indent + 2)
        type == value[1]
    IN  CASE type = "null" -> Null
          [] type = "true" -> True
          [] type = "false" -> False
          [] type = "string" -> DumpEscaped(value[2])
          [] type \in {"unsigned", "integer"} -> DumpInteger(value[2])
          [] type = "float" -> DumpFloat(value[2])
          [] type = "array" ->
                Enclosed(LeftBracket, [i \in DOMAIN value[2] |-> Inner(value[2][i])],
                         RightBracket, pretty, indent)
          [] type = "object" ->
                LET keys == Keys(value[2])
                IN  Enclosed(LeftBrace,
                        [i \in DOMAIN keys |->
                            DumpEscaped(keys[i]) \o <<Colon>>
                            \o (IF pretty THEN <<32>> ELSE <<>>) \o Inner(value[2][keys[i]])],
                        RightBrace, pretty, indent)

DumpOf(w) == Dump(w.value, w.pretty, 0)
-----------------------------------------------------------------------------
(* The code points of a sequence of bytes, in UTF-8: none if it is not.   *)
RECURSIVE CharactersOf(_)
CharactersOf(b) ==
    IF b = <<>> THEN {<<>>}
    ELSE UNION {{<<c>> \o rest : c \in CharacterOf(SubSeq(b, 1, n)),
                                rest \in CharactersOf(SubSeq(b, n + 1, Len(b)))}
                : n \in {k \in 1 .. 4 : k <= Len(b) /\ CharacterOf(SubSeq(b, 1, k)) # {}}}

WellFormed(b) == CharactersOf(b) # {}

(* What a value means, whatever the types that hold it.                    *)
RECURSIVE Meaning(_)
Meaning(value) ==
    LET type == value[1]
    IN  CASE type = "string" -> <<"string", CharactersOf(value[2])>>
          [] type \in {"unsigned", "integer"} -> <<"whole", value[2]>>
          [] type = "float" ->
                IF value[2] = NaN THEN <<"null">> ELSE <<"real", DumpFloat(value[2])>>
          [] type = "array" -> <<"array", [i \in DOMAIN value[2] |-> Meaning(value[2][i])]>>
          [] type = "object" ->
                <<"object", {<<CharactersOf(k), Meaning(value[2][k])>> : k \in DOMAIN value[2]}>>
          [] OTHER -> value
-----------------------------------------------------------------------------
(* Properties.                                                             *)

(* A document that is read is one: what was taken from the transport, but  *)
(* for the character behind a number, is a JSON text by the grammar, and   *)
(* the value is the one this text denotes.                                 *)
DocumentsAreRead == status = "done" => Denotes(Consumed) = {Meaning(result)}

(* A text is refused only at the first byte that makes it hopeless: no     *)
(* ending makes a JSON text of what was taken when a parse_error is thrown. *)
RefusesOnlyTheHopeless ==
    status = "parse_error" => \A ending \in Endings : Denotes(text \o ending) = {}

(* All strings of the value are UTF-8.                                     *)
RECURSIVE Sound(_)
Sound(value) ==
    CASE value[1] = "string" -> WellFormed(value[2])
      [] value[1] = "array" -> \A i \in DOMAIN value[2] : Sound(value[2][i])
      [] value[1] = "object" ->
            \A k \in DOMAIN value[2] : WellFormed(k) /\ Sound(value[2][k])
      [] OTHER -> TRUE

(* What dump has written, compactly or indented, is read back to its last  *)
(* byte and means the same, a NaN as null; but a value with a string that  *)
(* is not UTF-8, which dump copies as it is (lines 6640-6644), is refused  *)
(* at the other end.                                                       *)
WrittenIsReadBack ==
    status # "running" =>
        \A w \in Written : coming = DumpOf(w) =>
            IF Sound(w.value)
            THEN status = "done" /\ text = coming /\ Meaning(result) = Meaning(w.value)
            ELSE status = "parse_error"
=============================================================================
