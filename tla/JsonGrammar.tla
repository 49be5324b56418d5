----------------------------- MODULE JsonGrammar -----------------------------
(***************************************************************************)
(* What a JSON text denotes by RFC 8259, to hold JsonReader against: a     *)
(* function on texts that knows nothing of lexers and parsers.             *)
(***************************************************************************)
EXTENDS JsonReader
-----------------------------------------------------------------------------
(* What bytes mean: RFC 3629.  The code point of a character, and none if  *)
(* the bytes are not one.                                                  *)

Bits(b, i) == b[i] - 128

Scalar(b) ==
    CASE Len(b) = 1 -> b[1]
      [] Len(b) = 2 -> (b[1] - 192) * 64 + Bits(b, 2)
      [] Len(b) = 3 -> (b[1] - 224) * 4096 + Bits(b, 2) * 64 + Bits(b, 3)
      [] OTHER -> (b[1] - 240) * 262144 + Bits(b, 2) * 4096 + Bits(b, 3) * 64 + Bits(b, 4)

(* The characters that take n bytes: no more than they need.               *)
Greatest == <<127, 2047, 65535, 1114111>>
Taking(n) == (IF n = 1 THEN 0 ELSE Greatest[n - 1] + 1) .. Greatest[n]

Surrogates == HighSurrogate \union LowSurrogate

CharacterOf(b) ==
    IF /\ \A i \in 2 .. Len(b) : b[i] \in Continuation
       /\ Scalar(b) \in Taking(Len(b)) /\ Scalar(b) \notin Surrogates
    THEN {Scalar(b)} ELSE {}
-----------------------------------------------------------------------------
(* What a text denotes: RFC 8259.  Each operator gives the set of meanings *)
(* of a text, which is empty when it is no such text.                      *)

AllDigits(s) == s # <<>> /\ \A i \in DOMAIN s : s[i] \in Digit

IsInt(s) == AllDigits(s) /\ (s[1] = Zero => Len(s) = 1)
IsFrac(s) == s = <<>> \/ (s[1] = Dot /\ AllDigits(Tail(s)))
IsExp(s) ==
    \/ s = <<>>
    \/ /\ s[1] \in Exponent
       /\ \/ AllDigits(Tail(s))
          \/ Len(s) > 1 /\ s[2] \in {Plus, Minus} /\ AllDigits(Tail(Tail(s)))

Unsigned(s) == IF s # <<>> /\ s[1] = Minus THEN Tail(s) ELSE s

(* A number that is a whole one, and in the range of 64 bits, is exact.    *)
Numbers(s) ==
    LET u == Unsigned(s)
        n == IF s[1] = Minus THEN -Natural(u) ELSE Natural(s)
    IN  IF IsInt(u)
        THEN {IF n \in (-IntegerMax - 1) .. UnsignedMax THEN <<"whole", n>>
              ELSE <<"real", s \o <<Dot, Zero>>>>}
        ELSE IF \E i, k \in 1 .. Len(u) :
                    /\ i <= k /\ IsInt(SubSeq(u, 1, i))
                    /\ IsFrac(SubSeq(u, i + 1, k)) /\ IsExp(SubSeq(u, k + 1, Len(u)))
             THEN {<<"real", s>>} ELSE {}

FourHexOf(s) == IF \A i \in 1 .. 4 : s[i] \in Hex THEN {Codepoint(s, 4)} ELSE {}

IsUnicodeEscape(s) == Len(s) >= 6 /\ s[1] = Backslash /\ s[2] = LowerU

(* One character of a string at the start of s, with its length: as it is, *)
(* by an escape, by its number, or by two.                                 *)
AsItIs(s) ==
    UNION {{<<n, c>> : c \in CharacterOf(SubSeq(s, 1, n)) \ (0 .. 31 \union {Quote, Backslash})}
            : n \in {k \in 1 .. 4 : k <= Len(s)}}

ByEscape(s) ==
    IF Len(s) >= 2 /\ s[1] = Backslash /\ s[2] \in DOMAIN Escapes
    THEN {<<2, Escapes[s[2]]>>} ELSE {}

ByNumber(s) ==
    IF IsUnicodeEscape(s)
    THEN {<<6, c>> : c \in FourHexOf(SubSeq(s, 3, 6)) \ Surrogates} ELSE {}

ByTwoNumbers(s) ==
    IF IsUnicodeEscape(s) /\ Len(s) >= 12 /\ IsUnicodeEscape(SubSeq(s, 7, 12))
    THEN {<<12, 65536 + (high - 55296) * 1024 + (low - 56320)>> :
            high \in FourHexOf(SubSeq(s, 3, 6)) \intersect HighSurrogate,
            low \in FourHexOf(SubSeq(s, 9, 12)) \intersect LowSurrogate}
    ELSE {}

CharactersAt(s) == AsItIs(s) \union ByEscape(s) \union ByNumber(s) \union ByTwoNumbers(s)

Trim(s) ==
    LET ink == {i \in DOMAIN s : s[i] \notin Whitespace}
    IN  IF ink = {} THEN <<>>
        ELSE SubSeq(s, CHOOSE i \in ink : \A k \in ink : i <= k,
                       CHOOSE i \in ink : \A k \in ink : i >= k)

IsBetween(s, open, close) == Len(s) >= 2 /\ s[1] = open /\ s[Len(s)] = close

Inside(s) == Trim(SubSeq(s, 2, Len(s) - 1))

(* The ways to cut s in two at a byte c, which belongs to neither part.    *)
Cuts(s, c) ==
    {<<SubSeq(s, 1, i - 1), SubSeq(s, i + 1, Len(s))>> : i \in {k \in DOMAIN s : s[k] = c}}

(* The parts that a text is made of.  By denotes, a function, is given     *)
(* what shorter texts denote, and the values in a list as long as it.      *)
Nonterminals == {"value", "elements", "members", "characters"}

(* The characters of a string, without its quotes.                         *)
CharactersBy(denotes, s) ==
    IF s = <<>> THEN {<<>>}
    ELSE UNION {{<<first[2]>> \o rest :
                    rest \in denotes[<<"characters", SubSeq(s, first[1] + 1, Len(s))>>]}
                : first \in CharactersAt(s)}

StringsBy(denotes, s) ==
    IF IsBetween(s, Quote, Quote) THEN denotes[<<"characters", SubSeq(s, 2, Len(s) - 1)>>] ELSE {}

(* The values of an array in order, and the members of an object, of which *)
(* the first one of a name counts.                                         *)
Prefixing(values, rests) == UNION {{<<v>> \o rest : rest \in rests} : v \in values}
ElementsBy(denotes, s) ==
    {<<v>> : v \in denotes[<<"value", s>>]}
    \union UNION {Prefixing(denotes[<<"value", cut[1]>>], denotes[<<"elements", cut[2]>>])
                  : cut \in Cuts(s, Comma)}

MemberBy(denotes, s) ==
    UNION {StringsBy(denotes, Trim(cut[1])) \X denotes[<<"value", cut[2]>>] : cut \in Cuts(s, Colon)}

Overriding(members, rests) ==
    {{<<{m[1]}, m[2]>>} \union {r \in rest : r[1] # {m[1]}} : m \in members, rest \in rests}
MembersBy(denotes, s) ==
    {{<<{m[1]}, m[2]>>} : m \in MemberBy(denotes, s)}
    \union UNION {Overriding(MemberBy(denotes, cut[1]), denotes[<<"members", cut[2]>>])
                  : cut \in Cuts(s, Comma)}

OfType(type, contents) == {<<type, c>> : c \in contents}
ValueBy(denotes, s) ==
    CASE s = True -> {<<"true">>}
      [] s = False -> {<<"false">>}
      [] s = Null -> {<<"null">>}
      [] s # <<>> /\ s[1] \in Digit \union {Minus} -> Numbers(s)
      [] s # <<>> /\ s[1] = Quote -> OfType("string", {{cs} : cs \in StringsBy(denotes, s)})
      [] IsBetween(s, LeftBracket, RightBracket) ->
            OfType("array", IF Inside(s) = <<>> THEN {<<>>} ELSE denotes[<<"elements", Inside(s)>>])
      [] IsBetween(s, LeftBrace, RightBrace) ->
            OfType("object", IF Inside(s) = <<>> THEN {{}} ELSE denotes[<<"members", Inside(s)>>])
      [] OTHER -> {}

DenotedBy(denotes, part, s) ==
    CASE part = "value" -> ValueBy(denotes, Trim(s))
      [] part = "elements" -> ElementsBy(denotes, s)
      [] part = "members" -> MembersBy(denotes, s)
      [] part = "characters" -> CharactersBy(denotes, s)

Denoted[p \in Nonterminals \X Seq(Byte)] == DenotedBy(Denoted, p[1], p[2])

Denotes(s) == Denoted[<<"value", s>>]
-----------------------------------------------------------------------------
(* The reader never waits for more than the document: as soon as what it   *)
(* has taken is a whole text it has returned, unless that is a number,     *)
(* which could go on.  So readMessageBegin never takes a byte of the next  *)
(* message, and never waits for one, if each message is an object.         *)
NeverWaitsBehindADocument ==
    status = "running" /\ ~next_unget =>
        \A m \in Denotes(text) : m[1] \in {"whole", "real"} /\ stack = <<>>
=============================================================================
