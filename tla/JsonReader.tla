----------------------------- MODULE JsonReader -----------------------------
(***************************************************************************)
(* How a document is taken from a transport: the parser and the lexer of   *)
(* the JSON library (src/lib/cpp/json.hpp), over the transport_input_adapter *)
(* of TNiceJSONProtocol.h, as readMessageBegin runs them: not strict, with *)
(* exceptions, without a callback.                                         *)
(*                                                                         *)
(* One action is one call of get() with all the lexer and the parser do    *)
(* before the next one.  The recursion of parse_internal is an explicit    *)
(* stack of the containers that are open, and `want' is the place in it at *)
(* which the next token is awaited.  A character is a byte.                *)
(***************************************************************************)
EXTENDS Integers, Sequences, SequencesExt

CONSTANTS
    Alphabets,    \* sets of bytes: a peer sends any text over one of them
    Texts,        \* whole texts that a peer sends
    MaxText,      \* bound: bytes of a text over an alphabet
    UnsignedMax,  \* number_unsigned_t holds 0 .. UnsignedMax
    IntegerMax,   \* number_integer_t holds -IntegerMax - 1 .. IntegerMax
    MaxExponent   \* number_float_t holds numbers below 10^(MaxExponent + 1)

Byte == 0 .. 255

ASSUME ReaderAssumption ==
    /\ \A a \in Alphabets : a \subseteq Byte
    /\ Texts \subseteq Seq(Byte)
    /\ {MaxText, UnsignedMax, IntegerMax, MaxExponent} \subseteq Nat

VARIABLES
    alphabet,    \* what this peer sends: any of these bytes, or
    coming,      \* this text
    text,        \* buf of the adapter: the bytes taken from the transport
    current,     \* the character last returned by get()
    next_unget,  \* get() is to return it once more
    scanning,    \* the place in the lexer's functions
    due,         \* sets of bytes that must come next, one by one
    yytext,      \* the token so far
    stack,       \* open containers, the innermost one last
    want,        \* what parse_internal does with the next token
    result,      \* the value parsed
    status       \* "running", "done", or how parse() was left

peer == <<alphabet, coming>>
lexer == <<scanning, due, yytext>>
parser == <<stack, want, result, status>>
vars == <<peer, text, current, next_unget, lexer, parser>>
-----------------------------------------------------------------------------
(* Characters.                                                             *)

Quote == 34
Backslash == 92
Comma == 44
Colon == 58
LeftBracket == 91
RightBracket == 93
LeftBrace == 123
RightBrace == 125
Minus == 45
Plus == 43
Dot == 46
Zero == 48
LowerU == 117
Whitespace == {32, 9, 10, 13}
Digit == 48 .. 57
Exponent == {101, 69}
Hex == Digit \union 65 .. 70 \union 97 .. 102

HexValue(c) == IF c \in Digit THEN c - 48 ELSE IF c \in 65 .. 70 THEN c - 55 ELSE c - 87

True == <<116, 114, 117, 101>>
False == <<102, 97, 108, 115, 101>>
Null == <<110, 117, 108, 108>>

(* What may stand after a backslash, but for u, and what it stands for.    *)
Escapes == [c \in {Quote, Backslash, 47, 98, 102, 110, 114, 116} |->
    CASE c = 98 -> 8 [] c = 102 -> 12 [] c = 110 -> 10 [] c = 114 -> 13 [] c = 116 -> 9
      [] OTHER -> c]

Continuation == 128 .. 191

(* Inside a string: characters of one byte, and what must follow the first *)
(* byte of a longer one.  All other bytes are refused there.               *)
Plain == (32 .. 127) \ {Quote, Backslash}

AnyFollower == [c \in 194 .. 244 |-> \* slip: no ranges
    CASE c \in 194 .. 223 -> <<Continuation>>
      [] c \in 224 .. 239 -> <<Continuation, Continuation>>
      [] c \in 240 .. 244 -> <<Continuation, Continuation, Continuation>>]
Followers == [c \in 194 .. 244 |->
    CASE c \in 194 .. 223 -> <<Continuation>>
      [] c = 224 -> <<160 .. 191, Continuation>>
      [] c = 237 -> <<128 .. 159, Continuation>>
      [] c \in (225 .. 239) \ {237} -> <<Continuation, Continuation>>
      [] c = 240 -> <<144 .. 191, Continuation, Continuation>>
      [] c \in 241 .. 243 -> <<Continuation, Continuation, Continuation>>
      [] OTHER -> <<128 .. 143, Continuation, Continuation>>]

(* Code points.  A high surrogate must be followed by a low one.           *)
HighSurrogate == 55296 .. 56319
LowSurrogate == 56320 .. 57343

\* The number in the four digits of s that end at i.
Codepoint(s, i) ==
    4096 * HexValue(s[i - 3]) + 256 * HexValue(s[i - 2]) + 16 * HexValue(s[i - 1]) + HexValue(s[i])

Pair(high, low) == (high - 55296) * 1024 + (low - 56320) + 65536

\* The continuation byte that holds the last six bits of n.
Tail6(n) == 128 + (n % 64)

Utf8(cp) ==
    IF cp < 128 THEN <<cp>>
    ELSE IF cp < 2048 THEN <<192 + (cp \div 64), Tail6(cp)>>
    ELSE IF cp < 65536 THEN <<224 + (cp \div 4096), Tail6(cp \div 64), Tail6(cp)>>
    ELSE <<240 + (cp \div 262144), Tail6(cp \div 4096), Tail6(cp \div 64), Tail6(cp)>>
-----------------------------------------------------------------------------
(* Numbers.  The automaton of scan_number: from a state, the states that a *)
(* character leads to; none where the number is over or is refused.        *)

NumberStates == {"minus", "zero", "any1", "decimal1", "decimal2", "exponent", "sign", "any2"}

\* A character that does not fit ends the number in these states only.
ForgetsExponents == {"zero", "any1", "decimal2"} \* slip: 1e5 never ends
Complete == {"zero", "any1", "decimal2", "any2"}

StartNumber(c) ==
    CASE c = Minus -> "minus" [] c = Zero -> "zero" [] OTHER -> "any1"

NextInWhole(st, c) ==
    CASE st = "minus" /\ c = Zero -> {"zero"}
      [] st = "minus" /\ c \in Digit \ {Zero} -> {"any1"}
      [] st = "any1" /\ c \in Digit -> {"any1"}
      [] st \in {"zero", "any1"} /\ c = Dot -> {"decimal1"}
      [] st \in {"zero", "any1"} /\ c \in Exponent -> {"exponent"}
      [] OTHER -> {}

NextInFraction(st, c) ==
    CASE st \in {"decimal1", "decimal2"} /\ c \in Digit -> {"decimal2"}
      [] st = "decimal2" /\ c \in Exponent -> {"exponent"}
      [] st = "exponent" /\ c \in {Plus, Minus} -> {"sign"}
      [] st \in {"exponent", "sign", "any2"} /\ c \in Digit -> {"any2"}
      [] OTHER -> {}

NextInNumber(st, c) == NextInWhole(st, c) \union NextInFraction(st, c)

Natural(digits) == FoldLeft(LAMBDA n, c : 10 * n + (c - 48), 0, digits)

IsFloat(yy) == \E i \in DOMAIN yy : yy[i] \in Exponent \union {Dot}
IsNegative(yy) == yy[1] = Minus

(* The value of a number: an integer if it is written as one and fits.     *)
NumberValue(yy) ==
    LET n == Natural(IF IsNegative(yy) THEN Tail(yy) ELSE yy)
    IN  CASE IsFloat(yy) -> <<"float", yy>>
          [] ~IsFloat(yy) /\ IsNegative(yy) /\ n <= IntegerMax + 1 -> <<"integer", -n>>
          [] ~IsFloat(yy) /\ ~IsNegative(yy) /\ n <= UnsignedMax -> <<"unsigned", n>>
          [] OTHER -> <<"float", yy>>

(* strtod: whether a double holds the number depends on the decimal order  *)
(* of its first digit that is not zero.                                    *)
Before(yy, stops) ==
    LET at == {i \in DOMAIN yy : yy[i] \in stops}
    IN  IF at = {} THEN yy ELSE SubSeq(yy, 1, (CHOOSE i \in at : \A k \in at : i <= k) - 1)

Digits(yy) == SelectSeq(yy, LAMBDA c : c \in Digit)

PowerOfTen(yy) ==
    LET power == SubSeq(yy, Len(Before(yy, Exponent)) + 2, Len(yy))
        size == Natural(Digits(power))
    IN  IF Minus \in {power[i] : i \in DOMAIN power} THEN -size ELSE size

IsInfinite(yy) ==
    LET digits == Digits(Before(yy, Exponent))
        whole == Len(Digits(Before(yy, Exponent \union {Dot})))
    IN  \E i \in DOMAIN digits :
            /\ digits[i] # Zero /\ \A k \in 1 .. (i - 1) : digits[k] = Zero
            /\ whole - i + PowerOfTen(yy) > MaxExponent
-----------------------------------------------------------------------------
(* Parsing.  A token has a kind, and a value if the kind is "value".       *)

Kinds == {"value", "begin_array", "end_array", "begin_object", "end_object",
          "name_separator", "value_separator", "parse_error", "end_of_input"}

Structural == [c \in {LeftBracket, RightBracket, LeftBrace, RightBrace, Colon, Comma, 0} |->
    CASE c = LeftBracket -> "begin_array" [] c = RightBracket -> "end_array"
      [] c = LeftBrace -> "begin_object" [] c = RightBrace -> "end_object"
      [] c = Colon -> "name_separator" [] c = Comma -> "value_separator"
      [] c = 0 -> "end_of_input"]

(* A value is a tuple of its type and its content: an array is a sequence  *)
(* and an object a function on its keys.                                   *)
Scalars == {"value", "begin_array", "begin_object"}

Closing(container) == IF container = "array" THEN "end_array" ELSE "end_object"

(* What the parser takes where: parse_internal at its start (element: or   *)
(* the end of an empty array), at a key (member: or the end of an empty    *)
(* object), and after a key or a value.                                    *)
Accepts(place, kind, value) ==
    CASE place = "value"   -> kind \in Scalars
      [] place = "element" -> kind \in Scalars \union {"end_array"}
      [] place = "key"     -> kind = "value" /\ value[1] = "string"
      [] place = "member"  -> kind = "end_object" \/ (kind = "value" /\ value[1] = "string")
      [] place = "colon"   -> kind = "name_separator"
      [] place = "more"    -> kind \in {"value_separator", Closing(Last(stack).type)}

\* emplace keeps the first value of a key.
Emplace(object, key, value) ==
    [k \in DOMAIN object \union {key} |-> IF k \in DOMAIN object THEN object[k] ELSE value]

Add(container, value) ==
    [container EXCEPT !.content =
        IF container.type = "array" THEN Append(@, value)
        ELSE Emplace(@, container.key, value)]

\* What parse() does behind the value, when it is not strict.
Strictly == "running" \* slip: looks for the end of the input
Finished == "done"

(* A value is complete: it is the result, or goes into its container.      *)
Deliver(value, outer) ==
    /\ IF outer = <<>>
       THEN result' = value /\ want' = "nothing" /\ status' = Finished /\ stack' = outer
       ELSE /\ stack' = Front(outer) \o <<Add(Last(outer), value)>>
            /\ want' = "more" /\ UNCHANGED <<result, status>>

Open(type, place) ==
    /\ stack' = Append(stack, [type |-> type, key |-> <<>>, content |-> <<>>])
    /\ want' = place /\ UNCHANGED <<result, status>>

Close == Deliver(<<Last(stack).type, Last(stack).content>>, Front(stack))

StoreKey(key) ==
    /\ stack' = Front(stack) \o <<[Last(stack) EXCEPT !.key = key]>>
    /\ want' = "colon" /\ UNCHANGED <<result, status>>

Proceed(place) == want' = place /\ UNCHANGED <<stack, result, status>>

\* An exception leaves parse(): a parse_error, or out_of_range.
Leave(how) == status' = how /\ UNCHANGED <<stack, want, result>>

\* What follows a comma.
AlwaysKey(type) == "key" \* slip
AfterComma(type) == IF type = "array" THEN "value" ELSE "key"

(* The parser is given a token.                                            *)
Token(kind, value) ==
    IF ~Accepts(want, kind, value) THEN Leave("parse_error")
    ELSE CASE kind = "begin_array" -> Open("array", "element")
           [] kind = "begin_object" -> Open("object", "member")
           [] kind \in {"end_array", "end_object"} -> Close
           [] kind = "name_separator" -> Proceed("value")
           [] kind = "value_separator" -> Proceed(AfterComma(Last(stack).type))
           [] kind = "value" /\ want \in {"key", "member"} -> StoreKey(value[2])
           [] kind = "value" /\ want \in {"value", "element"} ->
                IF value[1] = "float" /\ IsInfinite(value[2]) THEN Leave("out_of_range")
                ELSE Deliver(value, stack)

(* The lexer hands over a token and is between two of them.                *)
Emit(kind, value) ==
    /\ Token(kind, value)
    /\ scanning' = "token" /\ due' = <<>> /\ yytext' = <<>>
-----------------------------------------------------------------------------
Init ==
    /\ \/ alphabet \in Alphabets /\ coming = <<>>
       \/ alphabet = {} /\ coming \in Texts
    /\ text = <<>> /\ current = 0 /\ next_unget = FALSE
    /\ scanning = "token" /\ due = <<>> /\ yytext = <<>>
    /\ stack = <<>> /\ want = "value" /\ result = <<"discarded">> /\ status = "running"

(* get(): the character put back, or the next one of the transport.        *)
Arriving ==
    IF next_unget THEN {current}
    ELSE IF coming # <<>> THEN {coming[i] : i \in {Len(text) + 1} \intersect DOMAIN coming}
    ELSE {c \in alphabet : Len(text) < MaxText}

Get(c) ==
    /\ status = "running" /\ c \in Arriving
    /\ current' = c
    /\ text' = IF next_unget THEN text ELSE Append(text, c)
    /\ UNCHANGED peer

Take(c) == Get(c) /\ next_unget' = FALSE

(* scan() between two tokens.                                              *)
SkipWhitespace(c) ==
    /\ scanning = "token" /\ c \in Whitespace
    /\ Take(c)
    /\ UNCHANGED <<lexer, parser>>

StructuralCharacter(c) ==
    /\ scanning = "token" /\ c \in DOMAIN Structural
    /\ Take(c)
    /\ Token(Structural[c], <<>>)
    /\ UNCHANGED lexer

Literals == {True, False, Null}

BeginLiteral(c) ==
    /\ scanning = "token"
    /\ Take(c)
    /\ \E literal \in Literals :
        /\ literal[1] = c
        /\ due' = [i \in 1 .. (Len(literal) - 1) |-> {literal[i + 1]}]
    /\ scanning' = "literal" /\ yytext' = <<c>>
    /\ UNCHANGED parser

BeginString(c) ==
    /\ scanning = "token" /\ c = Quote
    /\ Take(c)
    /\ scanning' = "string" /\ due' = <<>> /\ yytext' = <<>>
    /\ UNCHANGED parser

BeginNumber(c) ==
    /\ scanning = "token" /\ c \in Digit \union {Minus}
    /\ Take(c)
    /\ scanning' = StartNumber(c) /\ due' = <<>> /\ yytext' = <<c>>
    /\ UNCHANGED parser

(* Inside a literal, a multi-byte character or an escape, where a certain  *)
(* set of bytes is due.                                                    *)
Due(c) ==
    /\ due # <<>> /\ c \in Head(due)
    /\ Take(c)
    /\ due' = Tail(due)

InLiteral(c) ==
    /\ scanning = "literal" /\ Due(c)
    /\ IF Len(due) > 1
       THEN yytext' = Append(yytext, c) /\ UNCHANGED <<scanning, parser>>
       ELSE /\ scanning' = "token" /\ yytext' = <<>>
            /\ Token("value", <<CASE yytext[1] = True[1]  -> "true"
                                  [] yytext[1] = False[1] -> "false"
                                  [] yytext[1] = Null[1]  -> "null">>)

InCharacter(c) ==
    /\ scanning = "string" /\ Due(c)
    /\ yytext' = Append(yytext, c)
    /\ UNCHANGED <<scanning, parser>>

(* scan_string.                                                            *)
PlainCharacter(c) ==
    /\ scanning = "string" /\ due = <<>>
    /\ c \in Plain \union DOMAIN Followers
    /\ Take(c)
    /\ yytext' = Append(yytext, c)
    /\ due' = IF c \in Plain THEN <<>> ELSE Followers[c]
    /\ UNCHANGED <<scanning, parser>>

CloseString(c) ==
    /\ scanning = "string" /\ due = <<>> /\ c = Quote
    /\ Take(c)
    /\ Emit("value", <<"string", yytext>>)

BeginEscape(c) ==
    /\ scanning = "string" /\ due = <<>> /\ c = Backslash
    /\ Take(c)
    /\ scanning' = "escape"
    /\ UNCHANGED <<due, yytext, parser>>

SimpleEscape(c) ==
    /\ scanning = "escape" /\ c \in DOMAIN Escapes
    /\ Take(c)
    /\ scanning' = "string" /\ yytext' = Append(yytext, Escapes[c])
    /\ UNCHANGED <<due, parser>>

FourHex == <<Hex, Hex, Hex, Hex>>
SecondEscape == <<{Backslash}, {LowerU}, Hex, Hex, Hex, Hex>>

UnicodeEscape(c) ==
    /\ scanning = "escape" /\ c = LowerU
    /\ Take(c)
    /\ scanning' = "codepoint" /\ due' = FourHex
    /\ UNCHANGED <<yytext, parser>>

InCodepoint(c) ==
    /\ scanning = "codepoint" /\ due # <<>> /\ c \in Head(due)
    /\ Take(c)
    /\ LET cp == Codepoint(text', Len(text'))
       IN  \/ /\ Len(due) > 1
              /\ due' = Tail(due) /\ UNCHANGED <<scanning, yytext, parser>>
           \/ /\ Len(due) = 1 /\ cp \in HighSurrogate
              /\ scanning' = "surrogate" /\ due' = SecondEscape
              /\ UNCHANGED <<yytext, parser>>
           \/ /\ Len(due) = 1 /\ cp \in LowSurrogate
              /\ Emit("parse_error", <<>>)
           \/ /\ Len(due) = 1 /\ cp \notin HighSurrogate \union LowSurrogate
              /\ scanning' = "string" /\ due' = <<>> /\ yytext' = yytext \o Utf8(cp)
              /\ UNCHANGED parser

InSurrogate(c) ==
    /\ scanning = "surrogate" /\ due # <<>> /\ c \in Head(due)
    /\ Take(c)
    /\ LET low == Codepoint(text', Len(text'))
           high == Codepoint(text', Len(text') - 6)
       IN  \/ /\ Len(due) > 1
              /\ due' = Tail(due) /\ UNCHANGED <<scanning, yytext, parser>>
           \/ /\ Len(due) = 1 /\ low \in LowSurrogate
              /\ scanning' = "string" /\ due' = <<>>
              /\ yytext' = yytext \o Utf8(Pair(high, low))
              /\ UNCHANGED parser
           \/ /\ Len(due) = 1 /\ low \notin LowSurrogate
              /\ Emit("parse_error", <<>>)

(* scan_number.  The character that ends a number is put back into the     *)
(* lexer, never into the transport.                                        *)
ContinueNumber(c) ==
    /\ scanning \in NumberStates
    /\ Take(c)
    /\ scanning' \in NextInNumber(scanning, c)
    /\ yytext' = Append(yytext, c)
    /\ UNCHANGED <<due, parser>>

EndNumber(c) ==
    /\ scanning \in Complete /\ NextInNumber(scanning, c) = {}
    /\ Get(c) /\ next_unget' = TRUE
    /\ Emit("value", NumberValue(yytext))

(* Every other character is a lexical error.                               *)
Expected ==
    CASE scanning = "token" -> Whitespace \union DOMAIN Structural \union {Quote, Minus}
                               \union Digit \union {literal[1] : literal \in Literals}
      [] scanning \in Complete -> Byte
      [] scanning \in NumberStates \ Complete -> {c \in Byte : NextInNumber(scanning, c) # {}}
      [] scanning = "escape" -> DOMAIN Escapes \union {LowerU}
      [] scanning = "string" /\ due = <<>> -> Plain \union DOMAIN Followers \union {Quote, Backslash}
      [] OTHER -> Head(due)

IllFormed(c) ==
    /\ Take(c)
    /\ c \notin Expected
    /\ Emit("parse_error", <<>>)

(* readAll throws when the peer has closed.                                *)
EndOfFile ==
    /\ status = "running" /\ ~next_unget
    /\ Len(text) >= Len(coming)
    /\ Leave("end_of_file")
    /\ UNCHANGED <<peer, text, current, next_unget, lexer>>

Scan(c) ==
    \/ SkipWhitespace(c) \/ StructuralCharacter(c)
    \/ BeginLiteral(c) \/ InLiteral(c)
    \/ BeginString(c) \/ PlainCharacter(c) \/ InCharacter(c) \/ CloseString(c)
    \/ BeginEscape(c) \/ SimpleEscape(c) \/ UnicodeEscape(c)
    \/ InCodepoint(c) \/ InSurrogate(c)
    \/ BeginNumber(c) \/ ContinueNumber(c) \/ EndNumber(c)
    \/ IllFormed(c)

Next == EndOfFile \/ \E c \in Arriving : Scan(c)

Spec == Init /\ [][Next]_vars
-----------------------------------------------------------------------------
(* Properties.                                                             *)

(* The text of the document without the character put back, which the      *)
(* lexer takes with it when it is destroyed.                               *)
Consumed == IF next_unget THEN Front(text) ELSE text

(* Every variable holds a value of its C++ type, the lexer waits for bytes *)
(* only inside of a token, and the parser has a container open wherever it *)
(* waits for one to go on.                                                 *)
TypeOK ==
    /\ text \in Seq(Byte) /\ current \in Byte /\ next_unget \in BOOLEAN
    /\ scanning \in NumberStates \union
          {"token", "literal", "string", "escape", "codepoint", "surrogate"}
    /\ due \in Seq(SUBSET Byte) /\ yytext \in Seq(Byte)
    /\ scanning \in {"literal", "codepoint", "surrogate"} => due # <<>>
    /\ scanning \in NumberStates => yytext # <<>>
    /\ want \in {"value", "element", "key", "member", "colon", "more", "nothing"}
    /\ \A i \in DOMAIN stack :
          stack[i].type \in {"array", "object"} /\ stack[i].key \in Seq(Byte)
    /\ status = "running" =>
          /\ want # "nothing"
          /\ want \in {"more", "element"} => stack # <<>>
          /\ want \in {"key", "member", "colon"} => Last(stack).type = "object"
    /\ status \in {"running", "done", "parse_error", "out_of_range", "end_of_file"}

(* Where a text ends that is a container, as it can be told from its bytes *)
(* alone: how many brackets are open, but for those in strings.            *)
Start == [depth |-> 0, opened |-> FALSE, quoting |-> "none"]

ByteSeen(f, c) ==
    IF f.quoting = "escape" THEN [f EXCEPT !.quoting = "string"]
    ELSE IF f.quoting = "string" THEN
        [f EXCEPT !.quoting = IF c = Quote THEN "none"
                              ELSE IF c = Backslash THEN "escape" ELSE "string"]
    ELSE [depth |-> IF c \in {LeftBracket, LeftBrace} THEN f.depth + 1
                    ELSE IF c \in {RightBracket, RightBrace} THEN f.depth - 1 ELSE f.depth,
          opened |-> f.opened \/ c \in {LeftBracket, LeftBrace},
          quoting |-> IF c = Quote THEN "string" ELSE "none"]

Frame[s \in Seq(Byte)] == IF s = <<>> THEN Start ELSE ByteSeen(Frame[Front(s)], Last(s))

(* Whatever bytes a peer sends, a message that is an object is taken to its *)
(* closing bracket: the reader goes on as long as a bracket is open, it     *)
(* does not wait for a byte when none is, and it keeps none back.           *)
StopsAtTheLastBracket ==
    LET frame == Frame[Consumed]
    IN  frame.opened =>
            /\ status = "running" => frame.depth > 0
            /\ status = "done" => frame.depth = 0 /\ frame.quoting = "none" /\ ~next_unget
=============================================================================
