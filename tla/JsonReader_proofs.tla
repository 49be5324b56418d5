-------------------------- MODULE JsonReader_proofs --------------------------
(* What TLAPS proves of JsonReader, by itself and against JsonGrammar, for  *)
(* any texts and any bounds.                                                *)
EXTENDS JsonGrammar, SequenceTheorems, WellFoundedInduction, TLAPS
-----------------------------------------------------------------------------
(* Sequences, of what does not matter: the stack.                           *)
IsSeq(s) == \E S : s \in Seq(S)

LEMMA OneMore ==
  ASSUME NEW s, IsSeq(s), NEW x
  PROVE  /\ IsSeq(Append(s, x)) /\ Len(Append(s, x)) = Len(s) + 1 /\ Append(s, x) # <<>>
         /\ Last(Append(s, x)) = x
         /\ \A i \in 1 .. Len(s) : Append(s, x)[i] = s[i]
         /\ Front(Append(s, x)) = s
  <1>1. PICK S : s \in Seq(S)
    BY DEF IsSeq
  <1>2. s \in Seq(S \union {x}) /\ x \in S \union {x}
    BY <1>1
  <1>3. /\ Append(s, x) \in Seq(S \union {x}) /\ Append(s, x) # <<>>
        /\ Len(Append(s, x)) = Len(s) + 1 /\ Append(s, x)[Len(s) + 1] = x
        /\ \A i \in 1 .. Len(s) : Append(s, x)[i] = s[i]
    BY <1>2, AppendProperties
  <1>4. Front(Append(s, x)) = s
    BY <1>2, <1>3 DEF Front
  <1> QED
    BY <1>3, <1>4 DEF IsSeq, Last

LEMMA FrontOf ==
  ASSUME NEW S, NEW s \in Seq(S), s # <<>>
  PROVE  /\ Front(s) \in Seq(S) /\ Len(Front(s)) = Len(s) - 1 /\ Len(s) \in Nat \ {0}
         /\ \A i \in 1 .. Len(s) - 1 : Front(s)[i] = s[i]
  <1>1. Len(s) \in Nat \ {0} /\ \A i \in 1 .. Len(s) : s[i] \in S
    BY EmptySeq, LenProperties, ElementOfSeq
  <1>2. Len(s) - 1 \in Int /\ \A i \in 1 .. Len(s) - 1 : s[i] \in S
    BY <1>1
  <1>3. /\ SubSeq(s, 1, Len(s) - 1) \in Seq(S)
        /\ Len(SubSeq(s, 1, Len(s) - 1)) = IF 1 <= Len(s) - 1 THEN Len(s) - 1 - 1 + 1 ELSE 0
        /\ \A i \in 1 .. Len(s) - 1 - 1 + 1 : SubSeq(s, 1, Len(s) - 1)[i] = s[1 + i - 1]
    BY <1>2, SubSeqProperties
  <1>4. Len(s) - 1 - 1 + 1 = Len(s) - 1 /\ \A i \in Int : 1 + i - 1 = i
    BY <1>1
  <1> QED
    BY <1>1, <1>3, <1>4 DEF Front

LEMMA OneLess ==
  ASSUME NEW s, IsSeq(s), s # <<>>
  PROVE  /\ IsSeq(Front(s)) /\ Len(Front(s)) = Len(s) - 1 /\ Len(s) \in Nat \ {0}
         /\ \A i \in 1 .. Len(s) - 1 : Front(s)[i] = s[i]
         /\ Front(s) = <<>> <=> Len(s) = 1
  <1>1. PICK S : s \in Seq(S)
    BY DEF IsSeq
  <1>2. /\ Front(s) \in Seq(S) /\ Len(Front(s)) = Len(s) - 1 /\ Len(s) \in Nat \ {0}
        /\ \A i \in 1 .. Len(s) - 1 : Front(s)[i] = s[i]
    BY <1>1, FrontOf
  <1>3. Front(s) = <<>> <=> Len(s) = 1
    BY <1>2, EmptySeq
  <1> QED
    BY <1>2, <1>3 DEF IsSeq

LEMMA LastReplaced ==
  ASSUME NEW s, IsSeq(s), s # <<>>, NEW x
  PROVE  LET t == Front(s) \o <<x>>
         IN  /\ IsSeq(t) /\ Len(t) = Len(s) /\ t # <<>> /\ Last(t) = x
             /\ \A i \in 1 .. Len(s) - 1 : t[i] = s[i]
  <1>1. /\ IsSeq(Front(s)) /\ Len(Front(s)) = Len(s) - 1 /\ Len(s) \in Nat \ {0}
        /\ \A i \in 1 .. Len(s) - 1 : Front(s)[i] = s[i]
    BY OneLess
  <1>2. Front(s) \o <<x>> = Append(Front(s), x)
    <2>1. PICK S : Front(s) \in Seq(S)
      BY <1>1 DEF IsSeq
    <2>2. Front(s) \in Seq(S \union {x}) /\ x \in S \union {x}
      BY <2>1
    <2> QED
      BY <2>2, AppendIsConcat
  <1> DEFINE t == Append(Front(s), x)
  <1>3. /\ IsSeq(t) /\ Len(t) = Len(Front(s)) + 1 /\ t # <<>> /\ Last(t) = x
        /\ \A i \in 1 .. Len(Front(s)) : t[i] = Front(s)[i]
    BY <1>1, OneMore
  <1> HIDE DEF t
  <1>4. IsSeq(t) /\ Len(t) = Len(s) /\ t # <<>> /\ Last(t) = x /\ \A i \in 1 .. Len(s) - 1 : t[i] = s[i]
    BY <1>1, <1>3
  <1> QED
    BY <1>2, <1>4 DEF t
-----------------------------------------------------------------------------
(* The parser: its stack, and that it has a container open where it waits   *)
(* for one to go on.                                                        *)
IsContainer(c) ==
  /\ DOMAIN c = {"type", "key", "content"}
  /\ c.type \in {"array", "object"} /\ c.key \in Seq(Byte)
IsStack(s) == IsSeq(s) /\ \A i \in 1 .. Len(s) : IsContainer(s[i])

ParserOK ==
  /\ IsStack(stack)
  /\ want \in {"value", "element", "key", "member", "colon", "more", "nothing"}
  /\ status = "running" =>
       /\ want # "nothing"
       /\ want \in {"more", "element"} => stack # <<>>
       /\ want \in {"key", "member", "colon"} => stack # <<>> /\ Last(stack).type = "object"
  /\ status \in {"running", "done", "parse_error", "out_of_range", "end_of_file"}

LEMMA StackFacts ==
  ASSUME NEW s, IsStack(s), s # <<>>
  PROVE  /\ IsStack(Front(s)) /\ Len(Front(s)) = Len(s) - 1 /\ Len(s) \in Nat \ {0}
         /\ Front(s) = <<>> <=> Len(s) = 1
         /\ IsContainer(Last(s))
         /\ \A c : IsContainer(c) =>
              LET t == Front(s) \o <<c>>
              IN  IsStack(t) /\ Len(t) = Len(s) /\ t # <<>> /\ Last(t) = c
  <1>1. /\ IsSeq(Front(s)) /\ Len(Front(s)) = Len(s) - 1 /\ Len(s) \in Nat \ {0}
        /\ \A i \in 1 .. Len(s) - 1 : Front(s)[i] = s[i]
        /\ Front(s) = <<>> <=> Len(s) = 1
    BY OneLess DEF IsStack
  <1>2. \A i \in 1 .. Len(s) : IsContainer(s[i])
    BY DEF IsStack
  <1>3. IsStack(Front(s)) /\ IsContainer(Last(s))
    BY <1>1, <1>2 DEF IsStack, Last
  <1>4. ASSUME NEW c, IsContainer(c)
        PROVE  LET t == Front(s) \o <<c>>
               IN  IsStack(t) /\ Len(t) = Len(s) /\ t # <<>> /\ Last(t) = c
    <2> DEFINE t == Front(s) \o <<c>>
    <2>1. /\ IsSeq(t) /\ Len(t) = Len(s) /\ t # <<>> /\ Last(t) = c
          /\ \A i \in 1 .. Len(s) - 1 : t[i] = s[i]
      BY LastReplaced DEF IsStack
    <2> HIDE DEF t
    <2>2. \A i \in 1 .. Len(t) : IsContainer(t[i])
      BY <1>1, <1>2, <1>4, <2>1 DEF Last
    <2>3. IsStack(t)
      BY <2>1, <2>2 DEF IsStack
    <2> QED
      BY <2>1, <2>3 DEF t
  <1> QED
    BY <1>1, <1>3, <1>4

LEMMA ContainersKeepTheirShape ==
  ASSUME NEW c, IsContainer(c)
  PROVE  /\ \A v : IsContainer(Add(c, v)) /\ Add(c, v).type = c.type
         /\ \A k \in Seq(Byte) : IsContainer([c EXCEPT !.key = k]) /\ [c EXCEPT !.key = k].type = c.type
         /\ c.type # "array" => c.type = "object"
  BY DEF IsContainer, Add

LEMMA Delivered ==
  ASSUME NEW value, NEW outer, IsStack(outer), status = "running", Deliver(value, outer)
  PROVE  /\ outer = <<>> => status' = "done" /\ want' = "nothing" /\ stack' = <<>>
         /\ outer # <<>> => /\ status' = "running" /\ want' = "more" /\ IsStack(stack')
                            /\ stack' # <<>> /\ Len(stack') = Len(outer)
  <1>1. CASE outer = <<>>
    BY <1>1 DEF Deliver, Finished
  <1>2. CASE outer # <<>>
    <2>1. stack' = Front(outer) \o <<Add(Last(outer), value)>> /\ status' = status /\ want' = "more"
      BY <1>2 DEF Deliver
    <2>2. IsContainer(Add(Last(outer), value))
      BY <1>2, StackFacts, ContainersKeepTheirShape
    <2> QED
      BY <1>2, <2>1, <2>2, StackFacts
  <1> QED
    BY <1>1, <1>2

(* What a token does to the parser: containers are opened and closed, and   *)
(* it is done when a value is complete that is in none.                     *)
Begins == {"begin_array", "begin_object"}
Ends == {"end_array", "end_object"}
Moves(kind) ==
  /\ status' = "running" =>
       /\ stack' # <<>>
       /\ Len(stack') = IF kind \in Begins THEN Len(stack) + 1
                        ELSE IF kind \in Ends THEN Len(stack) - 1 ELSE Len(stack)
  /\ status' = "done" =>
       \/ kind \in Ends /\ Len(stack) = 1
       \/ kind = "value" /\ stack = <<>>

LEMMA EmptyStack == IsStack(<<>>) /\ Len(<<>>) = 0
  BY DEF IsStack, IsSeq

LEMMA TokenMoves ==
  ASSUME ParserOK, status = "running", NEW kind \in Kinds, NEW value,
         kind = "value" /\ value[1] = "string" => value[2] \in Seq(Byte),
         Token(kind, value)
  PROVE  ParserOK' /\ Moves(kind)
  <1>1. CASE ~Accepts(want, kind, value)
    <2>1. status' = "parse_error" /\ UNCHANGED <<stack, want>>
      BY <1>1 DEF Token, Leave
    <2> QED
      BY <2>1 DEF ParserOK, Moves
  <1>2. CASE Accepts(want, kind, value) /\ kind \in Begins
    <2> DEFINE type == IF kind = "begin_array" THEN "array" ELSE "object"
               c == [type |-> type, key |-> <<>>, content |-> <<>>]
    <2>1. /\ stack' = Append(stack, c) /\ status' = "running"
          /\ want' = IF kind = "begin_array" THEN "element" ELSE "member"
      BY <1>2 DEF Token, Open, Begins
    <2>2. IsContainer(c)
      BY DEF IsContainer
    <2>3. /\ IsSeq(stack') /\ Len(stack') = Len(stack) + 1 /\ stack' # <<>> /\ Last(stack') = c
          /\ \A i \in 1 .. Len(stack) : stack'[i] = stack[i]
      BY <2>1, OneMore DEF ParserOK, IsStack
    <2>4. Len(stack) \in Nat
      BY DEF ParserOK, IsStack, IsSeq
    <2>5. IsStack(stack')
      BY <2>2, <2>3, <2>4 DEF ParserOK, IsStack, Last
    <2>6. Last(stack').type = type
      BY <2>3
    <2> QED
      BY <1>2, <2>1, <2>3, <2>5, <2>6 DEF ParserOK, Moves, Begins
  <1>3. CASE Accepts(want, kind, value) /\ kind \in Ends
    <2>1. Close
      BY <1>3 DEF Token, Ends
    <2>2. stack # <<>>
      BY <1>3 DEF Accepts, Ends, Scalars, ParserOK
    <2>3. /\ IsStack(Front(stack)) /\ Len(Front(stack)) = Len(stack) - 1
          /\ Front(stack) = <<>> <=> Len(stack) = 1
      BY <2>2, StackFacts DEF ParserOK
    <2>4. /\ Front(stack) = <<>> => status' = "done" /\ want' = "nothing" /\ stack' = <<>>
          /\ Front(stack) # <<>> => /\ status' = "running" /\ want' = "more" /\ IsStack(stack')
                                    /\ stack' # <<>> /\ Len(stack') = Len(Front(stack))
      BY <2>1, <2>3, Delivered DEF Close
    <2> QED
      BY <1>3, <2>3, <2>4, EmptyStack DEF ParserOK, Moves, Ends, Begins
  <1>4. CASE Accepts(want, kind, value) /\ kind \in {"name_separator", "value_separator"}
    <2>1. /\ UNCHANGED <<stack, status>>
          /\ want' = IF kind = "name_separator" THEN "value" ELSE AfterComma(Last(stack).type)
      BY <1>4 DEF Token, Proceed
    <2>2. stack # <<>>
      BY <1>4 DEF Accepts, Scalars, ParserOK
    <2>3. Last(stack).type \in {"array", "object"}
      BY <2>2, StackFacts DEF ParserOK, IsContainer
    <2> QED
      BY <1>4, <2>1, <2>2, <2>3 DEF ParserOK, Moves, Begins, Ends, AfterComma
  <1>5. CASE Accepts(want, kind, value) /\ kind = "value" /\ want \in {"key", "member"}
    <2>1. StoreKey(value[2]) /\ value[2] \in Seq(Byte)
      BY <1>5 DEF Token, Accepts
    <2>2. stack # <<>> /\ Last(stack).type = "object"
      BY <1>5 DEF ParserOK
    <2> DEFINE c == [Last(stack) EXCEPT !.key = value[2]]
    <2>3. IsContainer(c) /\ c.type = "object"
      BY <2>1, <2>2, StackFacts, ContainersKeepTheirShape DEF ParserOK
    <2>4. stack' = Front(stack) \o <<c>> /\ want' = "colon" /\ status' = "running"
      BY <2>1 DEF StoreKey
    <2> HIDE DEF c
    <2>5. IsStack(stack') /\ Len(stack') = Len(stack) /\ stack' # <<>> /\ Last(stack') = c
      BY <2>2, <2>3, <2>4, StackFacts DEF ParserOK
    <2> QED
      BY <1>5, <2>3, <2>4, <2>5 DEF ParserOK, Moves, Begins, Ends
  <1>6. CASE Accepts(want, kind, value) /\ kind = "value" /\ want \notin {"key", "member"}
    <2>1. want \in {"value", "element"}
      BY <1>6 DEF Accepts, ParserOK, Closing
    <2>2. CASE Leave("out_of_range")
      BY <2>2 DEF Leave, ParserOK, Moves
    <2>3. CASE Deliver(value, stack)
      <3>1. /\ stack = <<>> => status' = "done" /\ want' = "nothing" /\ stack' = <<>>
            /\ stack # <<>> => /\ status' = "running" /\ want' = "more" /\ IsStack(stack')
                               /\ stack' # <<>> /\ Len(stack') = Len(stack)
        BY <2>3, Delivered DEF ParserOK
      <3> QED
        BY <1>6, <3>1, EmptyStack DEF ParserOK, Moves, Begins, Ends
    <2> QED
      BY <1>6, <2>1, <2>2, <2>3 DEF Token
  <1>7. kind \in {"parse_error", "end_of_input"} => ~Accepts(want, kind, value)
    BY DEF ParserOK, Accepts, Scalars, Closing
  <1> QED
    BY <1>1, <1>2, <1>3, <1>4, <1>5, <1>6, <1>7 DEF Kinds, Begins, Ends
-----------------------------------------------------------------------------
(* The bytes: what comes, what was taken, and the one put back.             *)
InputOK ==
  /\ alphabet \subseteq Byte /\ coming \in Seq(Byte)
  /\ text \in Seq(Byte) /\ current \in Byte /\ next_unget \in BOOLEAN
  /\ next_unget => scanning = "token" /\ text # <<>> /\ Last(text) = current

(* The lexer: which bytes are due in the middle of a token, and, in an      *)
(* escape with a number, that its digits are the last bytes taken.          *)
Lowercase == 97 .. 122
LastAreHex(s, n) == Len(s) >= n /\ \A i \in (Len(s) - n + 1) .. Len(s) : s[i] \in Hex
LexerOK ==
  /\ scanning \in NumberStates \union
        {"token", "literal", "string", "escape", "codepoint", "surrogate"}
  /\ due \in Seq(SUBSET Byte) /\ yytext \in Seq(Byte)
  /\ scanning \in NumberStates => yytext # <<>>
  /\ scanning = "literal" =>
        /\ due # <<>> /\ yytext # <<>> /\ yytext[1] \in {True[1], False[1], Null[1]}
        /\ \A i \in 1 .. Len(due) : due[i] \subseteq Lowercase
  /\ scanning = "string" => \A i \in 1 .. Len(due) : due[i] \subseteq Continuation
  /\ scanning = "escape" => due = <<>>
  /\ scanning = "codepoint" =>
        /\ Len(due) \in 1 .. 4 /\ \A i \in 1 .. Len(due) : due[i] = Hex
        /\ LastAreHex(text, 4 - Len(due))
  /\ scanning = "surrogate" =>
        /\ Len(due) \in 1 .. 6 /\ \A i \in 1 .. Len(due) : due[i] = SecondEscape[6 - Len(due) + i]
        /\ Len(text) - 6 + Len(due) >= 4
        /\ Codepoint(text, Len(text) - 6 + Len(due)) \in HighSurrogate
        /\ Len(due) < 4 => LastAreHex(text, 4 - Len(due))

LEMMA Got ==
  ASSUME InputOK, NEW c \in Arriving, Get(c)
  PROVE  /\ c \in Byte /\ status = "running" /\ current' = c /\ text' \in Seq(Byte)
         /\ UNCHANGED <<alphabet, coming>> /\ text' # <<>> /\ Last(text') = c
         /\ next_unget => text' = text /\ scanning = "token"
         /\ ~next_unget => /\ text' = Append(text, c) /\ Len(text') = Len(text) + 1
                           /\ text'[Len(text')] = c
                           /\ \A i \in 1 .. Len(text) : text'[i] = text[i]
  <1>1. c \in Byte
    <2>1. CASE next_unget
      BY <2>1 DEF Arriving, InputOK
    <2>2. CASE ~next_unget /\ coming # <<>>
      BY <2>2, ElementOfSeq DEF Arriving, InputOK
    <2>3. CASE ~next_unget /\ coming = <<>>
      BY <2>3 DEF Arriving, InputOK
    <2> QED
      BY <2>1, <2>2, <2>3
  <1>2. status = "running" /\ current' = c /\ UNCHANGED <<alphabet, coming>>
    BY DEF Get, peer
  <1>3. CASE next_unget
    <2>1. text' = text /\ c = current
      BY <1>3 DEF Get, Arriving
    <2> QED
      BY <1>1, <1>2, <1>3, <2>1 DEF InputOK
  <1>4. CASE ~next_unget
    <2>1. text' = Append(text, c) /\ text \in Seq(Byte)
      BY <1>4 DEF Get, InputOK
    <2>2. /\ text' \in Seq(Byte) /\ text' # <<>> /\ Len(text') = Len(text) + 1
          /\ \A i \in 1 .. Len(text) : text'[i] = text[i]
          /\ text'[Len(text) + 1] = c
      BY <1>1, <2>1, AppendProperties
    <2> QED
      BY <1>1, <1>2, <1>4, <2>1, <2>2 DEF Last
  <1> QED
    BY <1>3, <1>4

(* Input goes on when a byte is taken, whoever takes it.                    *)
LEMMA InputGoesOn ==
  ASSUME InputOK, NEW c \in Arriving, Get(c),
         next_unget' = FALSE \/ (next_unget' = TRUE /\ scanning' = "token")
  PROVE  InputOK'
  <1>1. /\ c \in Byte /\ current' = c /\ text' \in Seq(Byte) /\ UNCHANGED <<alphabet, coming>>
        /\ text' # <<>> /\ Last(text') = c
    BY Got
  <1> QED
    BY <1>1 DEF InputOK

(* Numbers: hexadecimal digits, code points, and the bytes of a character.  *)
LEMMA HexIsByte ==
  /\ Hex \subseteq Byte
  /\ \A c \in Hex : HexValue(c) \in Nat /\ HexValue(c) <= 15
  BY DEF Hex, Digit, HexValue, Byte

LEMMA CodepointRange ==
  ASSUME NEW s, NEW n \in Int, \A i \in (n - 3) .. n : s[i] \in Hex
  PROVE  Codepoint(s, n) \in Nat /\ Codepoint(s, n) < 65536
  <1>1. s[n - 3] \in Hex /\ s[n - 2] \in Hex /\ s[n - 1] \in Hex /\ s[n] \in Hex
    OBVIOUS
  <1> DEFINE a == HexValue(s[n - 3])
             b == HexValue(s[n - 2])
             d == HexValue(s[n - 1])
             e == HexValue(s[n])
  <1>2. a \in Nat /\ a <= 15 /\ b \in Nat /\ b <= 15 /\ d \in Nat /\ d <= 15 /\ e \in Nat /\ e <= 15
    BY <1>1, HexIsByte
  <1>3. Codepoint(s, n) = 4096 * a + 256 * b + 16 * d + e
    BY DEF Codepoint
  <1> HIDE DEF a, b, d, e
  <1>4. 4096 * a + 256 * b + 16 * d + e \in Nat /\ 4096 * a + 256 * b + 16 * d + e < 65536
    BY <1>2, SMT
  <1> QED
    BY <1>3, <1>4

LEMMA PairRange ==
  ASSUME NEW high \in HighSurrogate, NEW low \in LowSurrogate
  PROVE  Pair(high, low) \in Nat /\ Pair(high, low) < 1114112
  <1>1. /\ high \in Nat /\ high >= 55296 /\ high <= 56319
        /\ low \in Nat /\ low >= 56320 /\ low <= 57343
    BY SMT DEF HighSurrogate, LowSurrogate
  <1> QED
    BY <1>1, SMT DEF Pair

LEMMA Utf8IsBytes ==
  ASSUME NEW cp \in Nat, cp < 1114112
  PROVE  Utf8(cp) \in Seq(Byte)
  <1>1. /\ Tail6(cp) \in Byte /\ Tail6(cp \div 64) \in Byte /\ Tail6(cp \div 4096) \in Byte
        /\ cp < 128 => cp \in Byte
        /\ cp < 2048 => 192 + (cp \div 64) \in Byte
        /\ cp < 65536 => 224 + (cp \div 4096) \in Byte
        /\ 240 + (cp \div 262144) \in Byte
    BY SMT DEF Tail6, Byte
  <1>2. CASE cp < 128
    BY <1>1, <1>2, SMT DEF Utf8
  <1>3. CASE cp >= 128 /\ cp < 2048
    BY <1>1, <1>3, SMT DEF Utf8
  <1>4. CASE cp >= 2048 /\ cp < 65536
    BY <1>1, <1>4, SMT DEF Utf8
  <1>5. CASE cp >= 65536
    BY <1>1, <1>5, SMT DEF Utf8
  <1> QED
    BY <1>2, <1>3, <1>4, <1>5, SMT
LEMMA Short ==
  ASSUME NEW S, NEW a \in S, NEW b \in S, NEW c \in S
  PROVE  <<a>> \in Seq(S) /\ <<a, b>> \in Seq(S) /\ <<a, b, c>> \in Seq(S)
  OBVIOUS

LEMMA FollowersContinue ==
  ASSUME NEW c \in DOMAIN Followers
  PROVE  Followers[c] \in Seq(SUBSET Continuation)
  <1> DEFINE C == Continuation
             P == Seq(SUBSET C)
  <1>1. /\ 160 .. 191 \in SUBSET C /\ 128 .. 159 \in SUBSET C /\ 144 .. 191 \in SUBSET C
        /\ 128 .. 143 \in SUBSET C /\ C \in SUBSET C
    BY DEF Continuation
  <1>2. /\ <<C>> \in P /\ <<C, C>> \in P /\ <<C, C, C>> \in P
        /\ <<160 .. 191, C>> \in P /\ <<128 .. 159, C>> \in P
        /\ <<144 .. 191, C, C>> \in P /\ <<128 .. 143, C, C>> \in P
    BY <1>1, Short
  <1> HIDE DEF P
  <1>3. Followers[c] \in P
    BY <1>2, Zenon DEF Followers
  <1> QED
    BY <1>3 DEF P

LEMMA EscapesAreBytes ==
  ASSUME NEW c \in DOMAIN Escapes
  PROVE  Escapes[c] \in Byte
  BY DEF Escapes, Byte, Quote, Backslash

LEMMA NumberIsNoString ==
  ASSUME NEW yy
  PROVE  NumberValue(yy)[1] # "string"
  BY DEF NumberValue

LEMMA NumberGoesOn ==
  ASSUME NEW st, NEW c, NEW t \in NextInNumber(st, c)
  PROVE  t \in NumberStates /\ c \in Digit \union Exponent \union {Dot, Plus, Minus}
  <1>1. CASE t \in NextInWhole(st, c)
    <2>1. t \in {"zero", "any1", "decimal1", "exponent"}
      BY <1>1 DEF NextInWhole
    <2>2. c \in Digit \union Exponent \union {Dot, Plus, Minus}
      BY <1>1 DEF NextInWhole, Zero, Digit
    <2> QED
      BY <2>1, <2>2 DEF NumberStates
  <1>2. CASE t \in NextInFraction(st, c)
    <2>1. t \in {"decimal2", "exponent", "sign", "any2"}
      BY <1>2 DEF NextInFraction
    <2>2. c \in Digit \union Exponent \union {Dot, Plus, Minus}
      BY <1>2 DEF NextInFraction
    <2> QED
      BY <2>1, <2>2 DEF NumberStates
  <1> QED
    BY <1>1, <1>2 DEF NextInNumber
-----------------------------------------------------------------------------
(* Where the brackets are: what the frame of the bytes taken must be, and   *)
(* what it is after one more.                                               *)
Quoting ==
  IF scanning = "escape" \/ (scanning = "surrogate" /\ Len(due) = 5) THEN "escape"
  ELSE IF scanning \in {"string", "codepoint", "surrogate"} THEN "string" ELSE "none"

Seen == [depth |-> Len(stack), opened |-> stack # <<>>, quoting |-> Quoting]

QuotingAfter(c) ==
  IF Quoting = "escape" THEN "string"
  ELSE IF Quoting = "string"
  THEN IF c = Quote THEN "none" ELSE IF c = Backslash THEN "escape" ELSE "string"
  ELSE IF c = Quote THEN "string" ELSE "none"

Framed(c) ==
  /\ status' = "running" => Seen' = ByteSeen(Seen, c)
  /\ status' = "done" /\ ByteSeen(Seen, c).opened =>
       ByteSeen(Seen, c).depth = 0 /\ ByteSeen(Seen, c).quoting = "none"

IInv == InputOK /\ LexerOK /\ ParserOK
Kept(c) == LexerOK' /\ ParserOK' /\ Framed(c)

Openings == {LeftBracket, LeftBrace}
Closings == {RightBracket, RightBrace}

LEMMA ByteSeenFacts ==
  ASSUME NEW c
  PROVE  ByteSeen(Seen, c) =
           [depth |-> IF Quoting # "none" THEN Len(stack)
                      ELSE IF c \in Openings THEN Len(stack) + 1
                      ELSE IF c \in Closings THEN Len(stack) - 1 ELSE Len(stack),
            opened |-> stack # <<>> \/ (Quoting = "none" /\ c \in Openings),
            quoting |-> QuotingAfter(c)]
  <1>1. Quoting \in {"escape", "string", "none"}
    BY DEF Quoting
  <1> HIDE DEF Quoting
  <1>2. Seen = [depth |-> Len(stack), opened |-> stack # <<>>, quoting |-> Quoting]
    BY DEF Seen
  <1>3. CASE Quoting = "escape"
    BY <1>2, <1>3 DEF ByteSeen, QuotingAfter
  <1>4. CASE Quoting = "string"
    BY <1>2, <1>4 DEF ByteSeen, QuotingAfter
  <1>5. CASE Quoting = "none"
    BY <1>2, <1>5 DEF ByteSeen, QuotingAfter, Openings, Closings
  <1> QED
    BY <1>1, <1>3, <1>4, <1>5

(* A byte that goes to no token.                                            *)
LEMMA NoToken ==
  ASSUME ParserOK, status = "running", NEW c, UNCHANGED parser,
         Quoting = "none" => c \notin Openings \union Closings,
         Quoting' = QuotingAfter(c)
  PROVE  ParserOK' /\ Framed(c)
  <1>1. UNCHANGED <<stack, want, status>>
    BY DEF parser
  <1>2. ParserOK'
    BY <1>1 DEF ParserOK
  <1>3. Seen' = [depth |-> Len(stack), opened |-> stack # <<>>, quoting |-> QuotingAfter(c)]
    BY <1>1 DEF Seen
  <1> QED
    BY <1>1, <1>2, <1>3, ByteSeenFacts DEF Framed

(* A byte that ends a token.                                                *)
LEMMA AToken ==
  ASSUME ParserOK, status = "running", NEW c, NEW kind \in Kinds, NEW value,
         kind = "value" /\ value[1] = "string" => value[2] \in Seq(Byte),
         Token(kind, value),
         kind \in Begins <=> Quoting = "none" /\ c \in Openings,
         kind \in Ends <=> Quoting = "none" /\ c \in Closings,
         QuotingAfter(c) = "none", Quoting' = "none"
  PROVE  ParserOK' /\ Framed(c)
  <1>1. ParserOK' /\ Moves(kind)
    BY TokenMoves
  <1>2. Seen' = [depth |-> Len(stack'), opened |-> stack' # <<>>, quoting |-> "none"]
    BY DEF Seen
  <1>3. kind \in Begins => kind \notin Ends
    BY DEF Begins, Ends
  <1>4. ByteSeen(Seen, c) =
          [depth |-> IF kind \in Begins THEN Len(stack) + 1
                     ELSE IF kind \in Ends THEN Len(stack) - 1 ELSE Len(stack),
           opened |-> stack # <<>> \/ kind \in Begins, quoting |-> "none"]
    BY ByteSeenFacts DEF Openings, Closings, LeftBracket, LeftBrace, RightBracket, RightBrace
  <1>5. ASSUME status' = "running"
        PROVE  Seen' = ByteSeen(Seen, c)
    <2>1. kind \in Begins \/ stack # <<>>
      BY <1>1, <1>5, EmptyStack DEF Moves, ParserOK, IsStack, IsSeq, Begins, Ends
    <2> QED
      BY <1>1, <1>2, <1>3, <1>4, <1>5, <2>1 DEF Moves
  <1>6. ASSUME status' = "done", ByteSeen(Seen, c).opened
        PROVE  ByteSeen(Seen, c).depth = 0 /\ ByteSeen(Seen, c).quoting = "none"
    <2>1. stack # <<>> \/ kind \in Begins
      <3> DEFINE d == IF kind \in Begins THEN Len(stack) + 1
                      ELSE IF kind \in Ends THEN Len(stack) - 1 ELSE Len(stack)
                 o == stack # <<>> \/ kind \in Begins
      <3>1. ByteSeen(Seen, c) = [depth |-> d, opened |-> o, quoting |-> "none"]
        BY <1>4
      <3> HIDE DEF d, o
      <3>2. ByteSeen(Seen, c).opened = o
        BY <3>1
      <3> QED
        BY <1>6, <3>2 DEF o
    <2>2. kind \in Ends /\ Len(stack) = 1
      BY <1>1, <1>6, <2>1 DEF Moves, Begins
    <2> QED
      BY <1>3, <1>4, <2>2
  <1> QED
    BY <1>1, <1>5, <1>6 DEF Framed

(* A byte that is refused.                                                  *)
LEMMA Refused ==
  ASSUME ParserOK, NEW c, NEW kind \in {"parse_error", "end_of_input"}, NEW value, status = "running",
         Token(kind, value)
  PROVE  ParserOK' /\ Framed(c) /\ status' = "parse_error"
  <1>1. ~Accepts(want, kind, value)
    BY DEF ParserOK, Accepts, Scalars, Closing
  <1>2. status' = "parse_error" /\ UNCHANGED <<stack, want>>
    BY <1>1 DEF Token, Leave
  <1> QED
    BY <1>2 DEF ParserOK, Framed

(* Between two tokens the lexer waits for nothing.                          *)
LEMMA BetweenTokens ==
  ASSUME scanning' = "token", due' = <<>>, yytext' = <<>>
  PROVE  LexerOK'
  BY DEF LexerOK, NumberStates
-----------------------------------------------------------------------------
(* The steps of the lexer.                                                  *)
Marks == Openings \union Closings \union {Quote, Backslash}

LEMMA NoMarks ==
  /\ Quote \notin Openings \union Closings /\ Backslash \notin Openings \union Closings
  /\ Quote # Backslash
  /\ \A c \in Whitespace \union Digit \union Exponent \union {Minus, Plus, Dot, LowerU} : c \notin Marks
  /\ \A c \in Lowercase \union Hex \union Continuation : c \notin Marks
  BY DEF Marks, Openings, Closings, Quote, Backslash, LeftBracket, LeftBrace, RightBracket,
     RightBrace, Whitespace, Digit, Exponent, Minus, Plus, Dot, LowerU, Lowercase, Hex, Continuation

LEMMA LiteralsAreLowercase ==
  ASSUME NEW literal \in Literals
  PROVE  /\ literal[1] \in {True[1], False[1], Null[1]} /\ literal[1] \in Lowercase
         /\ Len(literal) \in Nat /\ Len(literal) > 1
         /\ \A i \in 1 .. Len(literal) : literal[i] \in Lowercase
  <1>1. CASE literal = True
    BY <1>1 DEF True, Lowercase
  <1>2. CASE literal = False
    BY <1>2 DEF False, Lowercase
  <1>3. CASE literal = Null
    BY <1>3 DEF Null, Lowercase
  <1> QED
    BY <1>1, <1>2, <1>3 DEF Literals

LEMMA WhitespaceStep ==
  ASSUME IInv, NEW c \in Arriving, SkipWhitespace(c)
  PROVE  Kept(c)
  <1>1. scanning = "token" /\ c \notin Marks /\ UNCHANGED lexer /\ UNCHANGED parser /\ status = "running"
    BY NoMarks DEF SkipWhitespace, Take, Get
  <1>2. LexerOK'
    BY <1>1 DEF LexerOK, lexer, IInv, NumberStates
  <1>3. Quoting = "none" /\ Quoting' = QuotingAfter(c)
    BY <1>1 DEF Quoting, QuotingAfter, lexer, Marks
  <1> QED
    BY <1>1, <1>2, <1>3, NoToken DEF IInv, Kept, Marks

LEMMA StructuralStep ==
  ASSUME IInv, NEW c \in Arriving, StructuralCharacter(c)
  PROVE  Kept(c)
  <1>1. /\ scanning = "token" /\ c \in DOMAIN Structural /\ UNCHANGED lexer /\ status = "running"
        /\ Token(Structural[c], <<>>)
    BY DEF StructuralCharacter, Take, Get
  <1>2. LexerOK'
    BY <1>1 DEF LexerOK, lexer, IInv, NumberStates
  <1>3. /\ Structural[c] \in Kinds \ {"value"}
        /\ Structural[c] \in Begins <=> c \in Openings
        /\ Structural[c] \in Ends <=> c \in Closings
    <2>1. c \in {LeftBracket, RightBracket, LeftBrace, RightBrace, Colon, Comma, 0}
      BY <1>1 DEF Structural
    <2>2. /\ c = LeftBracket => Structural[c] = "begin_array"
          /\ c = RightBracket => Structural[c] = "end_array"
          /\ c = LeftBrace => Structural[c] = "begin_object"
          /\ c = RightBrace => Structural[c] = "end_object"
          /\ c = Colon => Structural[c] = "name_separator"
          /\ c = Comma => Structural[c] = "value_separator"
          /\ c = 0 => Structural[c] = "end_of_input"
      BY DEF Structural, LeftBracket, RightBracket, LeftBrace, RightBrace, Colon, Comma
    <2> QED
      BY <2>1, <2>2 DEF Kinds, Begins, Ends, Openings, Closings, LeftBracket, RightBracket, LeftBrace,
         RightBrace, Colon, Comma
  <1>4. Quoting = "none" /\ Quoting' = "none" /\ QuotingAfter(c) = "none"
    BY <1>1 DEF Quoting, QuotingAfter, lexer, Structural, LeftBracket, RightBracket, LeftBrace,
       RightBrace, Colon, Comma, Quote
  <1> QED
    BY <1>1, <1>2, <1>3, <1>4, AToken DEF IInv, Kept

LEMMA BeginLiteralStep ==
  ASSUME IInv, NEW c \in Arriving, BeginLiteral(c)
  PROVE  Kept(c)
  <1>1. PICK literal \in Literals :
          literal[1] = c /\ due' = [i \in 1 .. (Len(literal) - 1) |-> {literal[i + 1]}]
    BY DEF BeginLiteral
  <1>2. /\ scanning = "token" /\ scanning' = "literal" /\ yytext' = <<c>> /\ UNCHANGED parser
        /\ status = "running" /\ c \in Byte
    BY Got DEF BeginLiteral, Take, Get, IInv
  <1>3. c \in {True[1], False[1], Null[1]} /\ c \notin Marks
    BY <1>1, LiteralsAreLowercase, NoMarks
  <1>4. /\ due' \in Seq(SUBSET Byte) /\ due' # <<>>
        /\ \A i \in 1 .. Len(due') : due'[i] \subseteq Lowercase
    <2> DEFINE n == Len(literal) - 1
    <2>1. n \in Nat /\ n > 0 /\ \A i \in 1 .. n : literal[i + 1] \in Lowercase
      BY <1>1, LiteralsAreLowercase
    <2>2. Lowercase \subseteq Byte
      BY DEF Lowercase, Byte
    <2>3. due' = [i \in 1 .. n |-> {literal[i + 1]}]
      BY <1>1
    <2> HIDE DEF n
    <2>4. due' \in [1 .. n -> SUBSET Byte] /\ \A i \in 1 .. n : due'[i] \subseteq Lowercase
      BY <2>1, <2>2, <2>3
    <2>5. due' \in Seq(SUBSET Byte) /\ Len(due') = n
      BY <2>1, <2>4
    <2> QED
      BY <2>1, <2>4, <2>5
  <1>5. LexerOK'
    BY <1>2, <1>3, <1>4 DEF LexerOK, NumberStates
  <1>6. Quoting = "none" /\ Quoting' = QuotingAfter(c)
    BY <1>2, <1>3 DEF Quoting, QuotingAfter, Marks
  <1> QED
    BY <1>2, <1>3, <1>5, <1>6, NoToken DEF IInv, Kept, Marks

LEMMA BeginStringStep ==
  ASSUME IInv, NEW c \in Arriving, BeginString(c)
  PROVE  Kept(c)
  <1>1. /\ scanning = "token" /\ c = Quote /\ scanning' = "string" /\ due' = <<>> /\ yytext' = <<>>
        /\ UNCHANGED parser /\ status = "running"
    BY DEF BeginString, Take, Get
  <1>2. LexerOK'
    BY <1>1 DEF LexerOK, NumberStates
  <1>3. Quoting = "none" /\ Quoting' = QuotingAfter(c)
    BY <1>1 DEF Quoting, QuotingAfter
  <1> QED
    BY <1>1, <1>2, <1>3, NoToken, NoMarks DEF IInv, Kept

LEMMA BeginNumberStep ==
  ASSUME IInv, NEW c \in Arriving, BeginNumber(c)
  PROVE  Kept(c)
  <1>1. /\ scanning = "token" /\ c \notin Marks /\ scanning' = StartNumber(c) /\ due' = <<>>
        /\ yytext' = <<c>> /\ UNCHANGED parser /\ status = "running" /\ c \in Byte
    BY Got, NoMarks DEF BeginNumber, Take, Get, IInv
  <1>2. StartNumber(c) \in {"minus", "zero", "any1"}
    BY DEF StartNumber
  <1>3. LexerOK'
    BY <1>1, <1>2 DEF LexerOK, NumberStates
  <1>4. Quoting = "none" /\ Quoting' = QuotingAfter(c)
    BY <1>1, <1>2 DEF Quoting, QuotingAfter, Marks
  <1> QED
    BY <1>1, <1>3, <1>4, NoToken DEF IInv, Kept, Marks

(* What is left of what is due.                                             *)
LEMMA DueGoesOn ==
  ASSUME NEW S, due \in Seq(S), due # <<>>
  PROVE  /\ Tail(due) \in Seq(S) /\ Len(Tail(due)) = Len(due) - 1 /\ Len(due) \in Nat \ {0}
         /\ Head(due) = due[1] /\ Head(due) \in S
         /\ \A i \in 1 .. Len(Tail(due)) : Tail(due)[i] = due[i + 1]
         /\ Tail(due) # <<>> <=> Len(due) > 1
  <1>1. /\ Tail(due) \in Seq(S) /\ Len(Tail(due)) = Len(due) - 1 /\ Head(due) \in S /\ Head(due) = due[1]
        /\ \A i \in 1 .. Len(Tail(due)) : Tail(due)[i] = due[i + 1]
    BY HeadTailProperties
  <1>2. Len(due) \in Nat \ {0}
    BY EmptySeq, LenProperties
  <1>3. Tail(due) # <<>> <=> Len(due) > 1
    <2> DEFINE t == Tail(due)
    <2>1. t \in Seq(S) /\ Len(t) = Len(due) - 1
      BY <1>1
    <2> HIDE DEF t
    <2>2. t # <<>> <=> Len(due) > 1
      BY <1>2, <2>1, EmptySeq
    <2> QED
      BY <2>2 DEF t
  <1> QED
    BY <1>1, <1>2, <1>3

LEMMA YytextGrows ==
  ASSUME yytext \in Seq(Byte), NEW c \in Byte
  PROVE  /\ Append(yytext, c) \in Seq(Byte) /\ Append(yytext, c) # <<>>
         /\ yytext # <<>> => Append(yytext, c)[1] = yytext[1]
  <1>1. /\ Append(yytext, c) \in Seq(Byte) /\ Append(yytext, c) # <<>>
        /\ \A i \in 1 .. Len(yytext) : Append(yytext, c)[i] = yytext[i]
    BY AppendProperties
  <1>2. yytext # <<>> => 1 \in 1 .. Len(yytext)
    BY EmptySeq, LenProperties
  <1> QED
    BY <1>1, <1>2

LEMMA InLiteralStep ==
  ASSUME IInv, NEW c \in Arriving, InLiteral(c)
  PROVE  Kept(c)
  <1>1. /\ scanning = "literal" /\ due # <<>> /\ c \in Head(due) /\ due' = Tail(due)
        /\ status = "running" /\ c \in Byte
    BY Got DEF InLiteral, Due, Take, Get, IInv
  <1>2. /\ due \in Seq(SUBSET Byte) /\ yytext \in Seq(Byte) /\ yytext # <<>>
        /\ yytext[1] \in {True[1], False[1], Null[1]} /\ \A i \in 1 .. Len(due) : due[i] \subseteq Lowercase
    BY <1>1 DEF IInv, LexerOK
  <1>3. /\ Tail(due) \in Seq(SUBSET Byte) /\ Len(Tail(due)) = Len(due) - 1 /\ Len(due) \in Nat \ {0}
        /\ Head(due) = due[1]
        /\ \A i \in 1 .. Len(Tail(due)) : Tail(due)[i] = due[i + 1]
        /\ Tail(due) # <<>> <=> Len(due) > 1
    BY <1>1, <1>2, DueGoesOn
  <1>4. c \notin Marks
    BY <1>1, <1>2, <1>3, NoMarks
  <1>5. Quoting = "none" /\ QuotingAfter(c) = "none"
    BY <1>1, <1>4 DEF Quoting, QuotingAfter, Marks
  <1>6. CASE Len(due) > 1
    <2>1. yytext' = Append(yytext, c) /\ scanning' = "literal" /\ UNCHANGED parser
      BY <1>1, <1>6 DEF InLiteral
    <2>2. /\ due' \in Seq(SUBSET Byte) /\ due' # <<>>
          /\ \A i \in 1 .. Len(due') : due'[i] \subseteq Lowercase
      BY <1>1, <1>2, <1>3, <1>6
    <2>3. LexerOK'
      BY <1>1, <1>2, <2>1, <2>2, YytextGrows DEF LexerOK, NumberStates
    <2>4. Quoting' = "none"
      BY <2>1 DEF Quoting
    <2> QED
      BY <1>1, <1>4, <1>5, <2>1, <2>3, <2>4, NoToken DEF IInv, Kept, Marks
  <1>7. CASE ~(Len(due) > 1)
    <2> DEFINE name == CASE yytext[1] = True[1]  -> "true"
                         [] yytext[1] = False[1] -> "false"
                         [] yytext[1] = Null[1]  -> "null"
    <2>1. scanning' = "token" /\ yytext' = <<>> /\ Token("value", <<name>>)
      BY <1>7 DEF InLiteral
    <2>2. due' = <<>>
      BY <1>1, <1>3, <1>7
    <2>3. name # "string"
      BY <1>2 DEF True, False, Null
    <2> HIDE DEF name
    <2>4. <<name>>[1] # "string"
      BY <2>3
    <2>5. LexerOK'
      BY <2>1, <2>2, BetweenTokens
    <2>6. Quoting' = "none"
      BY <2>1 DEF Quoting
    <2>7. "value" \in Kinds /\ "value" \notin Begins /\ "value" \notin Ends
      BY DEF Kinds, Begins, Ends
    <2>8. c \notin Openings /\ c \notin Closings
      BY <1>4 DEF Marks
    <2>9. ParserOK' /\ Framed(c)
      BY <1>1, <1>5, <2>1, <2>4, <2>6, <2>7, <2>8, AToken DEF IInv
    <2> QED
      BY <2>5, <2>9 DEF Kept
  <1> QED
    BY <1>6, <1>7

LEMMA InCharacterStep ==
  ASSUME IInv, NEW c \in Arriving, InCharacter(c)
  PROVE  Kept(c)
  <1>1. /\ scanning = "string" /\ due # <<>> /\ c \in Head(due) /\ due' = Tail(due)
        /\ status = "running" /\ c \in Byte /\ scanning' = "string"
        /\ yytext' = Append(yytext, c) /\ UNCHANGED parser
    BY Got DEF InCharacter, Due, Take, Get, IInv
  <1>2. /\ due \in Seq(SUBSET Byte) /\ yytext \in Seq(Byte)
        /\ \A i \in 1 .. Len(due) : due[i] \subseteq Continuation
    BY <1>1 DEF IInv, LexerOK
  <1>3. /\ Tail(due) \in Seq(SUBSET Byte) /\ Len(Tail(due)) = Len(due) - 1 /\ Len(due) \in Nat \ {0}
        /\ Head(due) = due[1]
        /\ \A i \in 1 .. Len(Tail(due)) : Tail(due)[i] = due[i + 1]
    BY <1>1, <1>2, DueGoesOn
  <1>4. c \notin Marks
    BY <1>1, <1>2, <1>3, NoMarks
  <1>5. Quoting = "string" /\ Quoting' = "string" /\ QuotingAfter(c) = "string"
    BY <1>1, <1>4 DEF Quoting, QuotingAfter, Marks
  <1>6. due' \in Seq(SUBSET Byte) /\ \A i \in 1 .. Len(due') : due'[i] \subseteq Continuation
    BY <1>1, <1>2, <1>3
  <1>7. LexerOK'
    BY <1>1, <1>2, <1>6, YytextGrows DEF LexerOK, NumberStates
  <1> QED
    BY <1>1, <1>5, <1>7, NoToken DEF IInv, Kept

LEMMA PlainCharacterStep ==
  ASSUME IInv, NEW c \in Arriving, PlainCharacter(c)
  PROVE  Kept(c)
  <1>1. /\ scanning = "string" /\ c \in Plain \union DOMAIN Followers
        /\ status = "running" /\ c \in Byte /\ scanning' = "string"
        /\ yytext' = Append(yytext, c) /\ UNCHANGED parser
        /\ due' = IF c \in Plain THEN <<>> ELSE Followers[c]
    BY Got DEF PlainCharacter, Take, Get, IInv
  <1>2. Continuation \subseteq Byte
    BY DEF Continuation, Byte
  <1>3. due' \in Seq(SUBSET Byte) /\ \A i \in 1 .. Len(due') : due'[i] \subseteq Continuation
    <2>1. CASE c \in Plain
      BY <1>1, <2>1
    <2>2. CASE c \notin Plain
      <3>1. due' \in Seq(SUBSET Continuation)
        BY <1>1, <2>2, FollowersContinue
      <3> QED
        BY <1>2, <3>1
    <2> QED
      BY <2>1, <2>2
  <1>4. yytext \in Seq(Byte)
    BY DEF IInv, LexerOK
  <1>5. LexerOK'
    BY <1>1, <1>3, <1>4, YytextGrows DEF LexerOK, NumberStates
  <1>6. c # Quote /\ c # Backslash
    <2>1. DOMAIN Followers = 194 .. 244
      BY Zenon DEF Followers
    <2> QED
      BY <1>1, <2>1 DEF Plain, Quote, Backslash
  <1>7. Quoting = "string" /\ Quoting' = "string" /\ QuotingAfter(c) = "string"
    BY <1>1, <1>6 DEF Quoting, QuotingAfter
  <1> QED
    BY <1>1, <1>5, <1>7, NoToken DEF IInv, Kept

LEMMA CloseStringStep ==
  ASSUME IInv, NEW c \in Arriving, CloseString(c)
  PROVE  Kept(c)
  <1>1. /\ scanning = "string" /\ c = Quote /\ status = "running"
        /\ Token("value", <<"string", yytext>>)
        /\ scanning' = "token" /\ due' = <<>> /\ yytext' = <<>>
    BY DEF CloseString, Emit, Take, Get
  <1>2. yytext \in Seq(Byte)
    BY DEF IInv, LexerOK
  <1>3. "value" \in Kinds /\ "value" \notin Begins /\ "value" \notin Ends
    BY DEF Kinds, Begins, Ends
  <1>4. Quoting = "string" /\ Quoting' = "none" /\ QuotingAfter(c) = "none"
    BY <1>1 DEF Quoting, QuotingAfter
  <1>5. <<"string", yytext>>[2] \in Seq(Byte)
    BY <1>2
  <1>6. ParserOK' /\ Framed(c)
    BY <1>1, <1>3, <1>4, <1>5, AToken DEF IInv
  <1> QED
    BY <1>1, <1>6, BetweenTokens DEF Kept

LEMMA BeginEscapeStep ==
  ASSUME IInv, NEW c \in Arriving, BeginEscape(c)
  PROVE  Kept(c)
  <1>1. /\ scanning = "string" /\ due = <<>> /\ c = Backslash /\ status = "running"
        /\ scanning' = "escape" /\ UNCHANGED <<due, yytext>> /\ UNCHANGED parser
    BY DEF BeginEscape, Take, Get
  <1>2. LexerOK'
    BY <1>1 DEF IInv, LexerOK, NumberStates
  <1>3. Quoting = "string" /\ Quoting' = "escape" /\ QuotingAfter(c) = "escape"
    BY <1>1, NoMarks DEF Quoting, QuotingAfter
  <1> QED
    BY <1>1, <1>2, <1>3, NoToken DEF IInv, Kept

LEMMA SimpleEscapeStep ==
  ASSUME IInv, NEW c \in Arriving, SimpleEscape(c)
  PROVE  Kept(c)
  <1>1. /\ scanning = "escape" /\ c \in DOMAIN Escapes /\ status = "running"
        /\ scanning' = "string" /\ yytext' = Append(yytext, Escapes[c])
        /\ UNCHANGED due /\ UNCHANGED parser
    BY DEF SimpleEscape, Take, Get
  <1>2. yytext \in Seq(Byte) /\ due = <<>>
    BY <1>1 DEF IInv, LexerOK
  <1>3. yytext' \in Seq(Byte)
    BY <1>1, <1>2, EscapesAreBytes, YytextGrows
  <1>4. LexerOK'
    BY <1>1, <1>2, <1>3 DEF LexerOK, NumberStates
  <1>5. Quoting = "escape" /\ Quoting' = "string" /\ QuotingAfter(c) = "string"
    BY <1>1 DEF Quoting, QuotingAfter
  <1> QED
    BY <1>1, <1>4, <1>5, NoToken DEF IInv, Kept

(* The digits of an escape with a number.                                   *)
LEMMA HexGoesOn ==
  ASSUME InputOK, NEW c \in Arriving, Get(c), ~next_unget, NEW n \in Nat, LastAreHex(text, n), c \in Hex
  PROVE  LastAreHex(text', n + 1)
  <1>1. /\ Len(text') = Len(text) + 1 /\ text'[Len(text')] = c
        /\ \A i \in 1 .. Len(text) : text'[i] = text[i]
    BY Got
  <1>2. Len(text) \in Nat
    BY LenProperties DEF InputOK
  <1>3. Len(text) >= n /\ \A i \in (Len(text) - n + 1) .. Len(text) : text[i] \in Hex
    BY DEF LastAreHex
  <1>4. ASSUME NEW i \in (Len(text') - (n + 1) + 1) .. Len(text')
        PROVE  text'[i] \in Hex
    <2>1. CASE i = Len(text')
      BY <1>1, <2>1
    <2>2. CASE i # Len(text')
      <3>1. i \in (Len(text) - n + 1) .. Len(text) /\ i \in 1 .. Len(text)
        BY <1>1, <1>2, <1>3, <1>4, <2>2
      <3> QED
        BY <1>1, <1>3, <3>1
    <2> QED
      BY <2>1, <2>2
  <1>5. Len(text') >= n + 1
    BY <1>1, <1>2, <1>3
  <1> QED
    BY <1>4, <1>5 DEF LastAreHex

LEMMA LastFourMakeACodepoint ==
  ASSUME InputOK', LastAreHex(text', 4)
  PROVE  Codepoint(text', Len(text')) \in Nat /\ Codepoint(text', Len(text')) < 65536
  <1>1. Len(text') \in Int
    BY LenProperties DEF InputOK
  <1>2. \A i \in (Len(text') - 4 + 1) .. Len(text') : text'[i] \in Hex
    BY DEF LastAreHex
  <1>3. \A i \in (Len(text') - 3) .. Len(text') : text'[i] \in Hex
    BY <1>1, <1>2
  <1> QED
    BY <1>1, <1>3, CodepointRange

LEMMA FourHexDue ==
  /\ FourHex \in Seq(SUBSET Byte) /\ Len(FourHex) = 4 /\ \A i \in 1 .. 4 : FourHex[i] = Hex
  <1> DEFINE H == Hex
             S == SUBSET Byte
  <1>1. H \in S
    BY HexIsByte
  <1> HIDE DEF H, S
  <1>2. <<H, H, H, H>> \in Seq(S) /\ Len(<<H, H, H, H>>) = 4 /\ \A i \in 1 .. 4 : <<H, H, H, H>>[i] = H
    BY <1>1
  <1> QED
    BY <1>2 DEF FourHex, H, S

LEMMA SecondEscapeDue ==
  /\ SecondEscape \in Seq(SUBSET Byte) /\ Len(SecondEscape) = 6
  /\ SecondEscape[1] = {Backslash} /\ SecondEscape[2] = {LowerU}
  /\ \A i \in 3 .. 6 : SecondEscape[i] = Hex
  <1> DEFINE H == Hex
             S == SUBSET Byte
             b == {Backslash}
             u == {LowerU}
  <1>1. H \in S /\ b \in S /\ u \in S
    BY HexIsByte DEF Backslash, LowerU, Byte
  <1> HIDE DEF H, S, b, u
  <1>2. LET t == <<b, u, H, H, H, H>>
        IN  t \in Seq(S) /\ Len(t) = 6 /\ t[1] = b /\ t[2] = u /\ \A i \in 3 .. 6 : t[i] = H
    BY <1>1
  <1> QED
    BY <1>2 DEF SecondEscape, H, S, b, u

LEMMA UnicodeEscapeStep ==
  ASSUME IInv, NEW c \in Arriving, UnicodeEscape(c)
  PROVE  Kept(c)
  <1>1. /\ scanning = "escape" /\ status = "running"
        /\ scanning' = "codepoint" /\ due' = FourHex
        /\ UNCHANGED yytext /\ UNCHANGED parser
    BY DEF UnicodeEscape, Take, Get
  <1>2. text' \in Seq(Byte)
    BY Got DEF UnicodeEscape, Take, IInv
  <1>3. LastAreHex(text', 0)
    BY <1>2, LenProperties DEF LastAreHex
  <1>4. LexerOK'
    BY <1>1, <1>3, FourHexDue DEF IInv, LexerOK, NumberStates
  <1>5. Quoting = "escape" /\ Quoting' = "string" /\ QuotingAfter(c) = "string"
    BY <1>1 DEF Quoting, QuotingAfter
  <1> QED
    BY <1>1, <1>4, <1>5, NoToken DEF IInv, Kept

LEMMA InCodepointStep ==
  ASSUME IInv, NEW c \in Arriving, InCodepoint(c)
  PROVE  Kept(c)
  <1> DEFINE cp == Codepoint(text', Len(text'))
  <1>1. /\ scanning = "codepoint" /\ due # <<>> /\ c \in Head(due)
        /\ status = "running" /\ Get(c) /\ next_unget' = FALSE /\ InputOK /\ LexerOK /\ ParserOK
    BY DEF InCodepoint, Take, Get, IInv
  <1>2. /\ due \in Seq(SUBSET Byte) /\ yytext \in Seq(Byte)
        /\ Len(due) \in 1 .. 4 /\ \A i \in 1 .. Len(due) : due[i] = Hex
        /\ LastAreHex(text, 4 - Len(due)) /\ ~next_unget
    BY <1>1 DEF InputOK, LexerOK
  <1>3. /\ Tail(due) \in Seq(SUBSET Byte) /\ Len(Tail(due)) = Len(due) - 1
        /\ Head(due) = due[1]
        /\ \A i \in 1 .. Len(Tail(due)) : Tail(due)[i] = due[i + 1]
    BY <1>1, <1>2, DueGoesOn
  <1>4. c \in Hex /\ c \notin Marks
    BY <1>1, <1>2, <1>3, NoMarks
  <1>5. InputOK'
    BY <1>1, InputGoesOn
  <1>6. LastAreHex(text', 4 - Len(due) + 1)
    BY <1>1, <1>2, <1>4, HexGoesOn
  <1>7. Quoting = "string" /\ QuotingAfter(c) = "string"
    BY <1>1, <1>4 DEF Quoting, QuotingAfter, Marks
  <1>8. CASE Len(due) > 1 /\ due' = Tail(due) /\ UNCHANGED <<scanning, yytext, parser>>
    <2>1. scanning' = "codepoint" /\ Len(due') = Len(due) - 1 /\ UNCHANGED parser
      BY <1>1, <1>3, <1>8
    <2>2. 4 - Len(due) + 1 = 4 - Len(due')
      BY <1>2, <2>1
    <2>3. LastAreHex(text', 4 - Len(due'))
      BY <1>6, <2>2
    <2>4. \A i \in 1 .. Len(due') : due'[i] = Hex
      BY <1>2, <1>3, <1>8
    <2>5. LexerOK'
      BY <1>2, <1>3, <1>8, <2>1, <2>3, <2>4 DEF LexerOK, NumberStates
    <2>6. Quoting' = "string"
      BY <2>1 DEF Quoting
    <2> QED
      BY <1>1, <1>7, <2>1, <2>5, <2>6, NoToken DEF Kept
  <1>9. Len(due) = 1 => LastAreHex(text', 4)
    BY <1>6
  <1>10. CASE Len(due) = 1 /\ cp \in HighSurrogate /\ scanning' = "surrogate" /\ due' = SecondEscape
              /\ UNCHANGED <<yytext, parser>>
    <2>1. text' \in Seq(Byte) /\ Len(text') \in Nat /\ Len(text') >= 4
      BY <1>5, <1>9, <1>10, LenProperties DEF InputOK, LastAreHex
    <2>2. Len(due') = 6 /\ due' \in Seq(SUBSET Byte)
      BY <1>10, SecondEscapeDue
    <2>3. \A i \in 1 .. Len(due') : due'[i] = SecondEscape[6 - Len(due') + i]
      BY <1>10, <2>2
    <2>4. Len(text') - 6 + Len(due') = Len(text')
      BY <2>1, <2>2
    <2>5. Codepoint(text', Len(text') - 6 + Len(due')) \in HighSurrogate
      BY <1>10, <2>4
    <2>6. LexerOK'
      BY <1>2, <1>10, <2>1, <2>2, <2>3, <2>4, <2>5 DEF LexerOK, NumberStates
    <2>7. Quoting' = "string"
      BY <1>10, <2>2 DEF Quoting
    <2> QED
      BY <1>1, <1>7, <1>10, <2>6, <2>7, NoToken DEF Kept
  <1>11. CASE Len(due) = 1 /\ Emit("parse_error", <<>>)
    BY <1>1, <1>11, Refused, BetweenTokens DEF Kept, Emit
  <1>12. CASE Len(due) = 1 /\ scanning' = "string" /\ due' = <<>> /\ yytext' = yytext \o Utf8(cp)
              /\ UNCHANGED parser
    <2>1. cp \in Nat /\ cp < 65536
      BY <1>5, <1>9, <1>12, LastFourMakeACodepoint
    <2>2. Utf8(cp) \in Seq(Byte)
      <3> HIDE DEF cp
      <3>1. cp < 1114112
        BY <2>1, SMT
      <3> QED
        BY <2>1, <3>1, Utf8IsBytes
    <2>3. yytext' \in Seq(Byte)
      BY <1>2, <1>12, <2>2, ConcatProperties
    <2>4. LexerOK'
      BY <1>12, <2>3 DEF LexerOK, NumberStates
    <2>5. Quoting' = "string"
      BY <1>12 DEF Quoting
    <2> QED
      BY <1>1, <1>7, <1>12, <2>4, <2>5, NoToken DEF Kept
  <1> QED
    BY <1>8, <1>10, <1>11, <1>12 DEF InCodepoint

LEMMA InSurrogateStep ==
  ASSUME IInv, NEW c \in Arriving, InSurrogate(c)
  PROVE  Kept(c)
  <1> DEFINE low == Codepoint(text', Len(text'))
             high == Codepoint(text', Len(text') - 6)
             k == Len(text) - 6 + Len(due)
  <1>1. /\ scanning = "surrogate" /\ due # <<>> /\ c \in Head(due)
        /\ status = "running" /\ Get(c) /\ next_unget' = FALSE /\ InputOK /\ LexerOK /\ ParserOK
    BY DEF InSurrogate, Take, Get, IInv
  <1>2. /\ due \in Seq(SUBSET Byte) /\ yytext \in Seq(Byte)
        /\ Len(due) \in 1 .. 6 /\ ~next_unget
    BY <1>1 DEF InputOK, LexerOK
  <1>2a. \A i \in 1 .. Len(due) : due[i] = SecondEscape[6 - Len(due) + i]
    BY <1>1 DEF LexerOK
  <1>2b. /\ k >= 4 /\ Codepoint(text, k) \in HighSurrogate
         /\ Len(due) < 4 => LastAreHex(text, 4 - Len(due))
    BY <1>1 DEF LexerOK
  <1>2c. PICK n \in {1, 2, 3, 4, 5, 6} : n = Len(due)
    BY <1>2
  <1>3. /\ Tail(due) \in Seq(SUBSET Byte) /\ Len(Tail(due)) = Len(due) - 1
        /\ Head(due) = due[1]
        /\ \A i \in 1 .. Len(Tail(due)) : Tail(due)[i] = due[i + 1]
    BY <1>1, <1>2, DueGoesOn
  <1>4. c \in SecondEscape[7 - Len(due)]
    <2>1. 1 \in 1 .. n /\ 6 - n + 1 = 7 - n
      OBVIOUS
    <2> QED
      BY <1>1, <1>2a, <1>2c, <1>3, <2>1
  <1>5. /\ Len(due) = 6 => c = Backslash
        /\ Len(due) = 5 => c = LowerU
        /\ Len(due) < 5 => c \in Hex
    <2>1. /\ n = 6 => 7 - n = 1
          /\ n = 5 => 7 - n = 2
      OBVIOUS
    <2>2. n < 5 => 7 - n \in 3 .. 6
      OBVIOUS
    <2> QED
      BY <1>2c, <1>4, <2>1, <2>2, SecondEscapeDue
  <1>6. /\ Quoting = (IF Len(due) = 5 THEN "escape" ELSE "string")
        /\ QuotingAfter(c) = (IF Len(due) = 6 THEN "escape" ELSE "string")
    <2>1. Quoting = IF Len(due) = 5 THEN "escape" ELSE "string"
      BY <1>1 DEF Quoting
    <2>2. n # 5 /\ n # 6 => c # Quote /\ c # Backslash
      <3>1. n # 5 /\ n # 6 => n < 5
        OBVIOUS
      <3> QED
        BY <1>2c, <1>5, <3>1, NoMarks DEF Marks
    <2> QED
      BY <1>2c, <1>5, <2>1, <2>2, NoMarks DEF QuotingAfter
  <1>7. /\ InputOK' /\ Len(text) \in Nat /\ Len(text') = Len(text) + 1
        /\ \A i \in 1 .. Len(text) : text'[i] = text[i]
    BY <1>1, <1>2, Got, InputGoesOn, LenProperties DEF InputOK
  <1>8. Codepoint(text', k) = Codepoint(text, k) /\ k \in Int
    <2>1. k \in Int /\ k <= Len(text)
      <3>1. n \in Int /\ n <= 6 /\ k = Len(text) - 6 + n
        BY <1>2c
      <3> QED
        BY <1>7, <3>1
    <2>2. k \in 1 .. Len(text) /\ k - 1 \in 1 .. Len(text) /\ k - 2 \in 1 .. Len(text) /\ k - 3 \in 1 .. Len(text)
      BY <1>2b, <1>7, <2>1
    <2>3. text'[k] = text[k] /\ text'[k - 1] = text[k - 1] /\ text'[k - 2] = text[k - 2]
          /\ text'[k - 3] = text[k - 3]
      BY <1>7, <2>2
    <2> QED
      BY <2>1, <2>3 DEF Codepoint
  <1>9. CASE Len(due) > 1 /\ due' = Tail(due) /\ UNCHANGED <<scanning, yytext, parser>>
    <2>1. scanning' = "surrogate" /\ Len(due') = Len(due) - 1 /\ Len(due') \in 1 .. 6 /\ UNCHANGED parser
      BY <1>1, <1>2, <1>3, <1>9
    <2>2. ASSUME NEW i \in 1 .. Len(due')
          PROVE  due'[i] = SecondEscape[6 - Len(due') + i]
      <3>1. due'[i] = due[i + 1] /\ i + 1 \in 1 .. Len(due)
        BY <1>2, <1>3, <1>9, <2>1, <2>2
      <3>2. 6 - Len(due) + (i + 1) = 6 - Len(due') + i
        BY <1>2, <2>1, <2>2
      <3> QED
        BY <1>2a, <3>1, <3>2
    <2>3. Len(text') - 6 + Len(due') = k
      BY <1>2, <1>7, <2>1
    <2>4. Len(due') < 4 => LastAreHex(text', 4 - Len(due'))
      <3>1. CASE Len(due) > 4
        BY <1>2, <2>1, <3>1
      <3>2. CASE Len(due) = 4
        <4>1. LastAreHex(text, 0)
          BY <1>7 DEF LastAreHex
        <4>2. LastAreHex(text', 0 + 1)
          BY <1>1, <1>2, <1>5, <3>2, <4>1, HexGoesOn
        <4> QED
          BY <2>1, <3>2, <4>2
      <3>3. CASE Len(due) < 4
        <4>1. LastAreHex(text', 4 - Len(due) + 1)
          BY <1>1, <1>2, <1>2b, <1>5, <3>3, HexGoesOn
        <4>2. 4 - Len(due) + 1 = 4 - Len(due')
          BY <1>2, <2>1
        <4> QED
          BY <4>1, <4>2
      <3>4. n > 4 \/ n = 4 \/ n < 4
        OBVIOUS
      <3> QED
        BY <1>2c, <3>1, <3>2, <3>3, <3>4
    <2>5. due' \in Seq(SUBSET Byte) /\ yytext' \in Seq(Byte)
      BY <1>2, <1>3, <1>9
    <2>6. Codepoint(text', Len(text') - 6 + Len(due')) \in HighSurrogate /\ Len(text') - 6 + Len(due') >= 4
      BY <1>2b, <1>8, <2>3
    <2> HIDE DEF k
    <2>7. LexerOK'
      BY <2>1, <2>2, <2>4, <2>5, <2>6 DEF LexerOK, NumberStates
    <2>8. Quoting' = QuotingAfter(c)
      <3>1. Quoting' = IF Len(due') = 5 THEN "escape" ELSE "string"
        BY <2>1 DEF Quoting
      <3> QED
        BY <1>2, <1>6, <2>1, <3>1
    <2> QED
      BY <1>1, <1>6, <2>1, <2>7, <2>8, NoToken DEF Kept
  <1>10. CASE Len(due) = 1 /\ low \in LowSurrogate /\ scanning' = "string" /\ due' = <<>>
              /\ yytext' = yytext \o Utf8(Pair(high, low)) /\ UNCHANGED parser
    <2>1. k = Len(text') - 6
      BY <1>7, <1>10
    <2>2. high \in HighSurrogate
      BY <1>2b, <1>8, <2>1
    <2> HIDE DEF high, low
    <2>3. Pair(high, low) \in Nat /\ Pair(high, low) < 1114112
      BY <1>10, <2>2, PairRange
    <2>4. Utf8(Pair(high, low)) \in Seq(Byte)
      BY <2>3, Utf8IsBytes
    <2>5. yytext' \in Seq(Byte)
      BY <1>2, <1>10, <2>4, ConcatProperties
    <2>6. LexerOK'
      BY <1>10, <2>5 DEF LexerOK, NumberStates
    <2>7. Quoting' = "string"
      BY <1>10 DEF Quoting
    <2> QED
      BY <1>1, <1>6, <1>10, <2>6, <2>7, NoToken DEF Kept
  <1>11. CASE Len(due) = 1 /\ Emit("parse_error", <<>>)
    BY <1>1, <1>11, Refused, BetweenTokens DEF Kept, Emit
  <1> QED
    BY <1>9, <1>10, <1>11 DEF InSurrogate

LEMMA ContinueNumberStep ==
  ASSUME IInv, NEW c \in Arriving, ContinueNumber(c)
  PROVE  Kept(c)
  <1>1. /\ scanning \in NumberStates /\ scanning' \in NextInNumber(scanning, c)
        /\ yytext' = Append(yytext, c) /\ status = "running" /\ c \in Byte
        /\ UNCHANGED due /\ UNCHANGED parser
    BY Got DEF ContinueNumber, Take, Get, IInv
  <1>2. scanning' \in NumberStates /\ c \notin Marks
    BY <1>1, NumberGoesOn, NoMarks
  <1>3. yytext \in Seq(Byte) /\ due \in Seq(SUBSET Byte)
    BY DEF IInv, LexerOK
  <1>4. LexerOK'
    BY <1>1, <1>2, <1>3, YytextGrows DEF LexerOK, NumberStates
  <1>5. Quoting = "none" /\ Quoting' = "none" /\ QuotingAfter(c) = "none"
    BY <1>1, <1>2 DEF Quoting, QuotingAfter, NumberStates, Marks
  <1> QED
    BY <1>1, <1>2, <1>4, <1>5, NoToken DEF IInv, Kept, Marks

LEMMA IllFormedStep ==
  ASSUME IInv, NEW c \in Arriving, IllFormed(c)
  PROVE  Kept(c)
  BY Refused, BetweenTokens DEF IllFormed, Emit, Take, Get, IInv, Kept

(* The character that ends a number is not taken: what was seen remains.    *)
LEMMA EndNumberStep ==
  ASSUME IInv, NEW c \in Arriving, EndNumber(c)
  PROVE  /\ LexerOK' /\ ParserOK' /\ ~next_unget
         /\ status' = "running" => Seen' = Seen
         /\ status' = "done" => stack = <<>>
  <1>1. /\ scanning \in Complete /\ status = "running" /\ Token("value", NumberValue(yytext))
        /\ scanning' = "token" /\ due' = <<>> /\ yytext' = <<>>
    BY DEF EndNumber, Emit, Get
  <1>2. ~next_unget
    BY <1>1 DEF IInv, InputOK, Complete
  <1>3. "value" \in Kinds /\ "value" \notin Begins /\ "value" \notin Ends
    BY DEF Kinds, Begins, Ends
  <1>4. ParserOK' /\ Moves("value")
    BY <1>1, <1>3, NumberIsNoString, TokenMoves DEF IInv
  <1>5. ASSUME status' = "running"
        PROVE  Seen' = Seen
    <2>1. Len(stack') = Len(stack) /\ stack' # <<>>
      BY <1>3, <1>4, <1>5 DEF Moves
    <2>2. stack # <<>>
      BY <1>4, <2>1, EmptyStack DEF IInv, ParserOK, IsStack, IsSeq
    <2>3. Quoting = "none" /\ Quoting' = "none"
      BY <1>1 DEF Quoting, Complete
    <2> QED
      BY <2>1, <2>2, <2>3 DEF Seen
  <1> QED
    BY <1>1, <1>2, <1>3, <1>4, <1>5, BetweenTokens DEF Moves

(* Every byte that is taken for good.                                       *)
LEMMA TakenKeeps ==
  ASSUME IInv, NEW c \in Arriving, Scan(c), ~EndNumber(c)
  PROVE  Take(c) /\ Kept(c)
  <1>1. CASE SkipWhitespace(c) \/ StructuralCharacter(c) \/ BeginLiteral(c) \/ BeginString(c) \/ BeginNumber(c)
    BY <1>1, WhitespaceStep, StructuralStep, BeginLiteralStep, BeginStringStep, BeginNumberStep
       DEF SkipWhitespace, StructuralCharacter, BeginLiteral, BeginString, BeginNumber
  <1>2. CASE InLiteral(c) \/ PlainCharacter(c) \/ InCharacter(c) \/ CloseString(c)
    BY <1>2, InLiteralStep, PlainCharacterStep, InCharacterStep, CloseStringStep
       DEF InLiteral, PlainCharacter, InCharacter, CloseString, Due
  <1>3. CASE BeginEscape(c) \/ SimpleEscape(c) \/ UnicodeEscape(c) \/ InCodepoint(c) \/ InSurrogate(c)
    BY <1>3, BeginEscapeStep, SimpleEscapeStep, UnicodeEscapeStep, InCodepointStep, InSurrogateStep
       DEF BeginEscape, SimpleEscape, UnicodeEscape, InCodepoint, InSurrogate
  <1>4. CASE ContinueNumber(c) \/ IllFormed(c)
    BY <1>4, ContinueNumberStep, IllFormedStep DEF ContinueNumber, IllFormed
  <1> QED
    BY <1>1, <1>2, <1>3, <1>4 DEF Scan
-----------------------------------------------------------------------------
LEMMA InitInvariant == Init => IInv
  <1> SUFFICES ASSUME Init PROVE IInv
    OBVIOUS
  <1>1. InputOK
    <2>1. alphabet \subseteq Byte
      BY ReaderAssumption, Zenon DEF Init
    <2>2. coming \in Seq(Byte)
      <3>1. CASE coming = <<>>
        BY <3>1
      <3>2. CASE coming \in Texts
        BY <3>2, ReaderAssumption
      <3> QED
        BY <3>1, <3>2 DEF Init
    <2>3. text = <<>> /\ current = 0 /\ next_unget = FALSE
      BY DEF Init
    <2>4. text \in Seq(Byte) /\ current \in Byte
      BY <2>3 DEF Byte
    <2> QED
      BY <2>1, <2>2, <2>3, <2>4 DEF InputOK
  <1>2. LexerOK
    BY DEF Init, LexerOK, NumberStates
  <1>3. ParserOK
    BY EmptyStack DEF Init, ParserOK
  <1> QED
    BY <1>1, <1>2, <1>3 DEF IInv

LEMMA NextInvariant == IInv /\ [Next]_vars => IInv'
  <1> SUFFICES ASSUME IInv, [Next]_vars PROVE IInv'
    OBVIOUS
  <1>1. CASE EndOfFile
    <2>1. UNCHANGED <<alphabet, coming, text, current, next_unget, scanning, due, yytext, stack, want>>
          /\ status' = "end_of_file"
      BY <1>1 DEF EndOfFile, Leave, peer, lexer
    <2> QED
      BY <2>1 DEF IInv, InputOK, LexerOK, ParserOK
  <1>2. ASSUME NEW c \in Arriving, Scan(c), ~EndNumber(c)
        PROVE  IInv'
    <2>1. Take(c) /\ LexerOK' /\ ParserOK'
      BY <1>2, TakenKeeps DEF Kept
    <2> QED
      BY <2>1, InputGoesOn DEF IInv, Take
  <1>3. ASSUME NEW c \in Arriving, EndNumber(c)
        PROVE  IInv'
    <2>1. LexerOK' /\ ParserOK'
      BY <1>3, EndNumberStep
    <2>2. Get(c) /\ next_unget' = TRUE /\ scanning' = "token"
      BY <1>3 DEF EndNumber, Emit
    <2> QED
      BY <2>1, <2>2, InputGoesOn DEF IInv
  <1>4. CASE UNCHANGED vars
    BY <1>4 DEF vars, peer, lexer, parser, IInv, InputOK, LexerOK, ParserOK
  <1> QED
    BY <1>1, <1>2, <1>3, <1>4 DEF Next

LEMMA Invariant == Spec => []IInv
  BY InitInvariant, NextInvariant, PTL DEF Spec

(* Every variable holds a value of its C++ type and the parser has a        *)
(* container open wherever it waits for one to go on (parse_internal), for  *)
(* any text that a peer sends.                                              *)
THEOREM TypesAreKept == Spec => []TypeOK
  <1>1. IInv => TypeOK
    <2> SUFFICES ASSUME IInv PROVE TypeOK
      OBVIOUS
    <2>1. \A i \in DOMAIN stack : stack[i].type \in {"array", "object"} /\ stack[i].key \in Seq(Byte)
      <3>1. DOMAIN stack = 1 .. Len(stack)
        BY DEF IInv, ParserOK, IsStack, IsSeq
      <3> QED
        BY <3>1 DEF IInv, ParserOK, IsStack, IsContainer
    <2>2. scanning \in {"literal", "codepoint", "surrogate"} => due # <<>>
      <3>1. Len(<<>>) \notin 1 .. 4 /\ Len(<<>>) \notin 1 .. 6
        OBVIOUS
      <3> QED
        BY <3>1 DEF IInv, LexerOK
    <2>3. /\ text \in Seq(Byte) /\ current \in Byte /\ next_unget \in BOOLEAN
          /\ scanning \in NumberStates \union
                {"token", "literal", "string", "escape", "codepoint", "surrogate"}
          /\ due \in Seq(SUBSET Byte) /\ yytext \in Seq(Byte)
          /\ scanning \in NumberStates => yytext # <<>>
      BY DEF IInv, InputOK, LexerOK
    <2>4. /\ want \in {"value", "element", "key", "member", "colon", "more", "nothing"}
          /\ status = "running" =>
                /\ want # "nothing"
                /\ want \in {"more", "element"} => stack # <<>>
                /\ want \in {"key", "member", "colon"} => Last(stack).type = "object"
          /\ status \in {"running", "done", "parse_error", "out_of_range", "end_of_file"}
      BY DEF IInv, ParserOK
    <2> QED
      BY <2>1, <2>2, <2>3, <2>4 DEF TypeOK
  <1> QED
    BY <1>1, Invariant, PTL
-----------------------------------------------------------------------------
(* The frame of a text exists: it is the last of the frames of its          *)
(* beginnings, which are a run.                                             *)
IsRun(t, s) ==
  /\ t = [i \in 0 .. Len(s) |-> t[i]] /\ t[0] = Start
  /\ \A i \in 1 .. Len(s) : t[i] = ByteSeen(t[i - 1], s[i])

LEMMA LeastOf ==
  ASSUME NEW T, T \subseteq Nat, T # {}
  PROVE  \E n \in T : \A m \in T : ~(m < n)
  <1>1. PICK n \in T : \A m \in T : ~(<<m, n>> \in OpToRel(<, Nat))
    BY NatLessThanWellFounded, WFMin
  <1> QED
    BY <1>1 DEF OpToRel

LEMMA ARunExists ==
  ASSUME NEW s \in Seq(Byte)
  PROVE  \E t : IsRun(t, s)
  <1> DEFINE T == {n \in Nat : \E u \in Seq(Byte) : Len(u) = n /\ ~\E t : IsRun(t, u)}
  <1>1. ASSUME T # {} PROVE FALSE
    <2>1. T \subseteq Nat
      OBVIOUS
    <2>2. PICK n \in T : \A m \in T : ~(m < n)
      <3> HIDE DEF T
      <3> QED
        BY <1>1, <2>1, LeastOf
    <2>3. PICK u \in Seq(Byte) : Len(u) = n /\ ~\E t : IsRun(t, u)
      BY <2>2
    <2>4. n \in Nat
      BY <2>2
    <2>5. CASE n = 0
      <3> DEFINE t == [i \in 0 .. Len(u) |-> Start]
      <3>1. IsRun(t, u)
        BY <2>3, <2>5 DEF IsRun
      <3> QED
        BY <2>3, <3>1
    <2>6. CASE n # 0
      <3>1. Front(u) \in Seq(Byte) /\ Len(Front(u)) = n - 1 /\ \A i \in 1 .. n - 1 : Front(u)[i] = u[i]
        <4>1. u # <<>>
          BY <2>3, <2>6, EmptySeq
        <4> QED
          BY <2>3, <4>1, FrontOf
      <3>2. n - 1 \in Nat /\ n - 1 < n
        BY <2>4, <2>6
      <3>3. n - 1 \notin T
        BY <2>2, <3>2
      <3>4. PICK t : IsRun(t, Front(u))
        BY <3>1, <3>2, <3>3
      <3>5. /\ t[0] = Start
            /\ \A i \in 1 .. n - 1 : t[i] = ByteSeen(t[i - 1], u[i])
        BY <3>1, <3>4 DEF IsRun
      <3> DEFINE v == [i \in 0 .. Len(u) |-> IF i = n THEN ByteSeen(t[n - 1], u[n]) ELSE t[i]]
      <3>6. v[0] = Start /\ v = [i \in 0 .. Len(u) |-> v[i]]
        BY <2>3, <2>4, <2>6, <3>5
      <3>7. ASSUME NEW i \in 1 .. Len(u)
            PROVE  v[i] = ByteSeen(v[i - 1], u[i])
        <4>1. i \in 1 .. n /\ i - 1 \in 0 .. Len(u) /\ i \in 0 .. Len(u) /\ i - 1 # n
          BY <2>3, <2>4, <3>7
        <4>2. v[i - 1] = t[i - 1]
          BY <4>1
        <4>3. CASE i = n
          BY <4>1, <4>2, <4>3
        <4>4. CASE i # n
          <5>1. i \in 1 .. n - 1 /\ v[i] = t[i]
            BY <2>4, <4>1, <4>4
          <5> QED
            BY <3>5, <4>2, <5>1
        <4> QED
          BY <4>3, <4>4
      <3>8. IsRun(v, u)
        <4> HIDE DEF v
        <4> QED
          BY <3>6, <3>7 DEF IsRun
      <3> QED
        BY <2>3, <3>8
    <2> QED
      BY <2>5, <2>6
  <1>2. Len(s) \in Nat
    BY LenProperties
  <1> QED
    BY <1>1, <1>2

LEMMA RunsAgree ==
  ASSUME NEW n \in Nat, NEW t, NEW u, t[0] = u[0],
         \A i \in 1 .. n : t[i - 1] = u[i - 1] => t[i] = u[i]
  PROVE  \A i \in 0 .. n : t[i] = u[i]
  <1> DEFINE T == {i \in 0 .. n : t[i] # u[i]}
  <1>1. ASSUME T # {} PROVE FALSE
    <2>1. T \subseteq Nat
      OBVIOUS
    <2>2. PICK i \in T : \A j \in T : ~(j < i)
      <3> HIDE DEF T
      <3> QED
        BY <1>1, <2>1, LeastOf
    <2>3. i \in 1 .. n
      BY <2>2
    <2>4. i - 1 \in 0 .. n /\ i - 1 < i
      BY <2>3
    <2>5. t[i - 1] = u[i - 1]
      BY <2>2, <2>4
    <2> QED
      BY <2>2, <2>3, <2>5
  <1> QED
    BY <1>1

LEMMA FrameIsDefined ==
  Frame = [s \in Seq(Byte) |-> IF s = <<>> THEN Start ELSE ByteSeen(Frame[Front(s)], Last(s))]
  <1> DEFINE Run(s) == CHOOSE t : IsRun(t, s)
             f == [s \in Seq(Byte) |-> Run(s)[Len(s)]]
  <1>1. \A s \in Seq(Byte) : IsRun(Run(s), s)
    BY ARunExists
  <1> HIDE DEF Run
  <1>2. ASSUME NEW s \in Seq(Byte)
        PROVE  f[s] = IF s = <<>> THEN Start ELSE ByteSeen(f[Front(s)], Last(s))
    <2>1. f[s] = Run(s)[Len(s)] /\ Len(s) \in Nat
      BY LenProperties
    <2>2. /\ Run(s)[0] = Start
          /\ \A i \in 1 .. Len(s) : Run(s)[i] = ByteSeen(Run(s)[i - 1], s[i])
      BY <1>1 DEF IsRun
    <2>3. CASE s = <<>>
      BY <2>1, <2>2, <2>3
    <2>4. CASE s # <<>>
      <3> DEFINE r == Front(s)
      <3>1. r \in Seq(Byte) /\ Len(r) = Len(s) - 1 /\ \A i \in 1 .. Len(s) - 1 : r[i] = s[i]
        BY <2>4, FrontOf
      <3>2. Len(s) \in Nat \ {0}
        BY <2>1, <2>4, EmptySeq
      <3> HIDE DEF r
      <3>3. /\ Run(r)[0] = Start
            /\ \A i \in 1 .. Len(s) - 1 : Run(r)[i] = ByteSeen(Run(r)[i - 1], s[i])
        BY <1>1, <3>1 DEF IsRun
      <3>4. \A i \in 0 .. Len(s) - 1 : Run(r)[i] = Run(s)[i]
        <4>1. Len(s) - 1 \in Nat
          BY <3>2
        <4>2. Run(r)[0] = Run(s)[0]
          BY <2>2, <3>3
        <4>3. \A i \in 1 .. Len(s) - 1 : Run(s)[i] = ByteSeen(Run(s)[i - 1], s[i])
          BY <2>2, <3>2
        <4>4. \A i \in 1 .. Len(s) - 1 : Run(r)[i - 1] = Run(s)[i - 1] => Run(r)[i] = Run(s)[i]
          BY <3>3, <4>3
        <4> QED
          BY <4>1, <4>2, <4>4, RunsAgree
      <3>5. f[r] = Run(r)[Len(s) - 1]
        BY <3>1
      <3>6. f[r] = Run(s)[Len(s) - 1]
        BY <3>2, <3>4, <3>5
      <3>7. Run(s)[Len(s)] = ByteSeen(Run(s)[Len(s) - 1], s[Len(s)])
        BY <2>2, <3>2
      <3> QED
        BY <2>1, <2>4, <3>6, <3>7 DEF r, Last
    <2> QED
      BY <2>3, <2>4
  <1>3. f = [s \in Seq(Byte) |-> IF s = <<>> THEN Start ELSE ByteSeen(f[Front(s)], Last(s))]
    <2>1. f = [s \in Seq(Byte) |-> f[s]]
      OBVIOUS
    <2> HIDE DEF f
    <2> QED
      BY <1>2, <2>1, Zenon
  <1> HIDE DEF f
  <1> QED
    BY <1>3, Zenon DEF Frame

LEMMA FrameGoesOn ==
  /\ Frame[<<>>] = Start
  /\ \A s \in Seq(Byte), c \in Byte : Frame[Append(s, c)] = ByteSeen(Frame[s], c)
  <1>1. Frame[<<>>] = Start
    <2>1. <<>> \in Seq(Byte)
      OBVIOUS
    <2> QED
      BY <2>1, FrameIsDefined, Zenon
  <1>2. ASSUME NEW s \in Seq(Byte), NEW c \in Byte
        PROVE  Frame[Append(s, c)] = ByteSeen(Frame[s], c)
    <2> DEFINE t == Append(s, c)
    <2>1. t \in Seq(Byte) /\ t # <<>> /\ Front(t) = s /\ Last(t) = c
      BY OneMore DEF IsSeq
    <2> HIDE DEF t
    <2>2. Frame[t] = ByteSeen(Frame[Front(t)], Last(t))
      BY <2>1, FrameIsDefined, Zenon
    <2> QED
      BY <2>1, <2>2 DEF t
  <1> QED
    BY <1>1, <1>2
-----------------------------------------------------------------------------
(* The frame of what was consumed is what the reader knows of it: how many  *)
(* containers are open, and whether it is in a string.                      *)
FrameOK ==
  /\ status = "running" => Frame[Consumed] = Seen
  /\ status = "done" /\ Frame[Consumed].opened =>
       Frame[Consumed].depth = 0 /\ Frame[Consumed].quoting = "none" /\ ~next_unget

LEMMA ConsumedGoesOn ==
  ASSUME InputOK, NEW c \in Arriving, Take(c)
  PROVE  Consumed \in Seq(Byte) /\ c \in Byte /\ Consumed' = Append(Consumed, c)
  <1>1. c \in Byte /\ text \in Seq(Byte) /\ Consumed' = text'
    BY Got DEF Take, InputOK, Consumed
  <1>2. CASE next_unget
    <2>1. text' = text /\ c = current /\ text # <<>> /\ Last(text) = current
      BY <1>2 DEF Take, Get, Arriving, InputOK
    <2>2. Front(text) \in Seq(Byte) /\ text = Append(Front(text), Last(text))
      <3>1. /\ Front(text) \in Seq(Byte) /\ Len(Front(text)) = Len(text) - 1 /\ Len(text) \in Nat \ {0}
            /\ \A i \in 1 .. Len(text) - 1 : Front(text)[i] = text[i]
        BY <1>1, <2>1, FrontOf
      <3> DEFINE t == Append(Front(text), Last(text))
      <3>2. Last(text) \in Byte /\ Last(text) = text[Len(text)]
        BY <1>1, <2>1 DEF Last
      <3>3. /\ t \in Seq(Byte) /\ Len(t) = Len(text) /\ t[Len(text)] = Last(text)
            /\ \A i \in 1 .. Len(text) - 1 : t[i] = Front(text)[i]
        BY <3>1, <3>2, AppendProperties
      <3> HIDE DEF t
      <3>4. \A i \in 1 .. Len(text) : t[i] = text[i]
        BY <3>1, <3>2, <3>3
      <3>5. t = text
        BY <1>1, <3>3, <3>4, SeqEqual
      <3> QED
        BY <3>1, <3>5 DEF t
    <2> QED
      BY <1>1, <1>2, <2>1, <2>2 DEF Consumed
  <1>3. CASE ~next_unget
    BY <1>1, <1>3 DEF Take, Get, Consumed
  <1> QED
    BY <1>1, <1>2, <1>3

LEMMA InitFrame == Init => FrameOK
  <1> SUFFICES ASSUME Init PROVE FrameOK
    OBVIOUS
  <1>1. Consumed = <<>> /\ status = "running" /\ stack = <<>> /\ Quoting = "none"
    BY DEF Init, Consumed, Quoting
  <1>2. Seen = Start
    BY <1>1, EmptyStack DEF Seen, Start
  <1> QED
    BY <1>1, <1>2, FrameGoesOn DEF FrameOK

LEMMA NextFrame == IInv /\ FrameOK /\ [Next]_vars => FrameOK'
  <1> SUFFICES ASSUME IInv, FrameOK, [Next]_vars PROVE FrameOK'
    OBVIOUS
  <1>1. CASE EndOfFile
    BY <1>1 DEF EndOfFile, Leave, FrameOK
  <1>2. ASSUME NEW c \in Arriving, Scan(c), ~EndNumber(c)
        PROVE  FrameOK'
    <2>1. Take(c) /\ Framed(c)
      BY <1>2, TakenKeeps DEF Kept
    <2>2. Consumed \in Seq(Byte) /\ c \in Byte /\ Consumed' = Append(Consumed, c)
      BY <2>1, ConsumedGoesOn DEF IInv
    <2>3. Frame[Consumed] = Seen
      BY <2>1 DEF FrameOK, Take, Get
    <2>4. Frame[Consumed]' = ByteSeen(Seen, c)
      BY <2>2, <2>3, FrameGoesOn
    <2>5. next_unget' = FALSE
      BY <2>1 DEF Take
    <2> QED
      BY <2>1, <2>4, <2>5 DEF FrameOK, Framed
  <1>3. ASSUME NEW c \in Arriving, EndNumber(c)
        PROVE  FrameOK'
    <2>1. /\ ~next_unget /\ status' = "running" => Seen' = Seen
          /\ ~next_unget /\ (status' = "done" => stack = <<>>)
      BY <1>3, EndNumberStep
    <2>2. text' = Append(text, c) /\ next_unget' = TRUE /\ status = "running"
      BY <1>3, <2>1 DEF EndNumber, Get
    <2>3. Consumed' = Consumed
      <3>1. Front(Append(text, c)) = text
        BY OneMore DEF IInv, InputOK, IsSeq
      <3> QED
        BY <2>1, <2>2, <3>1 DEF Consumed
    <2>4. Frame[Consumed]' = Seen
      BY <2>2, <2>3 DEF FrameOK
    <2>5. Seen.opened = (stack # <<>>)
      BY DEF Seen
    <2> HIDE DEF Seen
    <2>6. status' = "done" => ~Frame[Consumed]'.opened
      BY <2>1, <2>4, <2>5
    <2> QED
      BY <2>1, <2>4, <2>6 DEF FrameOK
  <1>4. CASE UNCHANGED vars
    <2>1. UNCHANGED <<Consumed, Seen, status, next_unget>>
      BY <1>4 DEF vars, lexer, parser, Consumed, Seen, Quoting
    <2> QED
      BY <2>1 DEF FrameOK
  <1> QED
    BY <1>1, <1>2, <1>3, <1>4 DEF Next

(* For any bytes that a peer sends, readMessageBegin takes a document that  *)
(* is a container to the bracket that closes it and no further: while a     *)
(* bracket is open the reader goes on, when none is it does not wait for    *)
(* another byte, and it puts none back.                                     *)
THEOREM DocumentsEndAtTheirBracket == Spec => []StopsAtTheLastBracket
  <1>1. IInv /\ FrameOK => StopsAtTheLastBracket
    <2> SUFFICES ASSUME IInv, FrameOK, Frame[Consumed].opened
                 PROVE  /\ status = "running" => Frame[Consumed].depth > 0
                        /\ status = "done" => /\ Frame[Consumed].depth = 0
                                              /\ Frame[Consumed].quoting = "none" /\ ~next_unget
      BY DEF StopsAtTheLastBracket
    <2>1. ASSUME status = "running"
          PROVE  Frame[Consumed].depth > 0
      <3>1. Frame[Consumed].depth = Len(stack) /\ Seen.opened
        BY <2>1 DEF FrameOK, Seen
      <3>2. Seen.opened = (stack # <<>>)
        BY DEF Seen
      <3>3. stack # <<>>
        BY <3>1, <3>2
      <3>4. Len(stack) \in Nat \ {0}
        BY <3>3, StackFacts DEF IInv, ParserOK
      <3> QED
        BY <3>1, <3>4
    <2> QED
      BY <2>1 DEF FrameOK
  <1>2. Spec => []FrameOK
    BY InitFrame, NextFrame, Invariant, PTL DEF Spec
  <1> QED
    BY <1>1, <1>2, Invariant, PTL
-----------------------------------------------------------------------------
(* Texts cut in pieces.                                                     *)
LEMMA PieceOf ==
  ASSUME NEW s \in Seq(Byte), NEW m \in Int, NEW n \in Int, 1 <= m, n <= Len(s)
  PROVE  /\ SubSeq(s, m, n) \in Seq(Byte)
         /\ Len(SubSeq(s, m, n)) = IF m <= n THEN n - m + 1 ELSE 0
         /\ \A i \in 1 .. n - m + 1 : SubSeq(s, m, n)[i] = s[m + i - 1]
  <1>1. \A i \in m .. n : i \in 1 .. Len(s)
    BY LenProperties
  <1>2. \A i \in m .. n : s[i] \in Byte
    BY <1>1, ElementOfSeq
  <1> QED
    BY <1>2, SubSeqProperties

LEMMA CutInTwo ==
  ASSUME NEW s \in Seq(Byte), NEW n \in 0 .. Len(s)
  PROVE  LET a == SubSeq(s, 1, n)
             b == SubSeq(s, n + 1, Len(s))
         IN  /\ a \in Seq(Byte) /\ b \in Seq(Byte) /\ s = a \o b
             /\ Len(a) = n /\ Len(b) = Len(s) - n
             /\ \A i \in 1 .. n : a[i] = s[i]
             /\ \A i \in 1 .. Len(s) - n : b[i] = s[n + i]
  <1> DEFINE a == SubSeq(s, 1, n)
             b == SubSeq(s, n + 1, Len(s))
  <1>1. Len(s) \in Nat /\ n \in Int /\ n + 1 \in Int /\ 1 <= n + 1
    BY LenProperties
  <1>2. a \in Seq(Byte) /\ Len(a) = n /\ \A i \in 1 .. n : a[i] = s[i]
    <2>1. /\ a \in Seq(Byte) /\ Len(a) = IF 1 <= n THEN n - 1 + 1 ELSE 0
          /\ \A i \in 1 .. n - 1 + 1 : a[i] = s[1 + i - 1]
      BY <1>1, PieceOf
    <2> QED
      BY <1>1, <2>1
  <1>3. b \in Seq(Byte) /\ Len(b) = Len(s) - n /\ \A i \in 1 .. Len(s) - n : b[i] = s[n + i]
    <2>1. /\ b \in Seq(Byte) /\ Len(b) = IF n + 1 <= Len(s) THEN Len(s) - (n + 1) + 1 ELSE 0
          /\ \A i \in 1 .. Len(s) - (n + 1) + 1 : b[i] = s[n + 1 + i - 1]
      BY <1>1, PieceOf
    <2> QED
      BY <1>1, <2>1
  <1> HIDE DEF a, b
  <1>4. s = a \o b
    <2>1. /\ a \o b \in Seq(Byte) /\ Len(a \o b) = Len(s)
          /\ \A i \in 1 .. Len(s) : (a \o b)[i] = IF i <= n THEN a[i] ELSE b[i - n]
      BY <1>1, <1>2, <1>3, ConcatProperties
    <2>2. \A i \in 1 .. Len(s) : (a \o b)[i] = s[i]
      BY <1>1, <1>2, <1>3, <2>1
    <2> QED
      BY <2>1, <2>2, SeqEqual
  <1> QED
    BY <1>2, <1>3, <1>4 DEF a, b

LEMMA CutAtAByte ==
  ASSUME NEW s \in Seq(Byte), NEW c, NEW cut \in Cuts(s, c)
  PROVE  /\ cut[1] \in Seq(Byte) /\ cut[2] \in Seq(Byte) /\ c \in Byte
         /\ s = (cut[1] \o <<c>>) \o cut[2]
         /\ Len(cut[1]) < Len(s) /\ Len(cut[2]) < Len(s)
  <1>1. PICK i \in DOMAIN s : s[i] = c /\ cut = <<SubSeq(s, 1, i - 1), SubSeq(s, i + 1, Len(s))>>
    BY DEF Cuts
  <1>2. Len(s) \in Nat /\ i \in 1 .. Len(s)
    BY LenProperties
  <1>3. s[i] \in Byte
    BY <1>2, ElementOfSeq
  <1> DEFINE a == SubSeq(s, 1, i - 1)
             b == SubSeq(s, i + 1, Len(s))
             d == SubSeq(s, 1, i)
  <1>4. a \in Seq(Byte) /\ Len(a) = i - 1
    BY <1>2, CutInTwo
  <1>5. b \in Seq(Byte) /\ Len(b) = Len(s) - i /\ s = d \o b
    <2>1. i \in 0 .. Len(s)
      BY <1>2
    <2> QED
      BY <2>1, CutInTwo, Zenon
  <1>6. d = a \o <<s[i]>>
    BY <1>2, SubSeqRecursiveSecond
  <1> HIDE DEF a, b, d
  <1>7. cut[1] = a /\ cut[2] = b
    BY <1>1 DEF a, b
  <1>8. s = (a \o <<c>>) \o b
    BY <1>1, <1>5, <1>6
  <1>9. Len(a) < Len(s) /\ Len(b) < Len(s)
    BY <1>2, <1>4, <1>5
  <1> QED
    BY <1>1, <1>3, <1>4, <1>5, <1>7, <1>8, <1>9

IsBlank(s) == s \in Seq(Byte) /\ \A i \in 1 .. Len(s) : s[i] \in Whitespace

(* A text is what is left of it without the whitespace at its ends, between *)
(* whitespace.                                                              *)
LEMMA GreatestOf ==
  ASSUME NEW N \in Nat, NEW T, T \subseteq 1 .. N, T # {}
  PROVE  /\ \E i \in T : \A k \in T : i <= k
         /\ \E i \in T : \A k \in T : i >= k
  <1>1. \E i \in T : \A k \in T : i <= k
    <2>1. T \subseteq Nat
      OBVIOUS
    <2>2. PICK i \in T : \A m \in T : ~(m < i)
      BY <2>1, LeastOf
    <2> QED
      BY <2>1, <2>2
  <1>2. \E i \in T : \A k \in T : i >= k
    <2> DEFINE U == {n \in Nat : \E i \in T : n = N - i}
    <2>1. U \subseteq Nat /\ U # {}
      <3>1. PICK i : i \in T
        OBVIOUS
      <3>2. N - i \in Nat
        BY <3>1
      <3> QED
        BY <3>1, <3>2
    <2>2. PICK n \in U : \A m \in U : ~(m < n)
      <3> HIDE DEF U
      <3> QED
        BY <2>1, LeastOf
    <2>3. PICK i \in T : n = N - i
      BY <2>2
    <2>4. \A k \in T : N - k \in U
      OBVIOUS
    <2>5. \A k \in T : i >= k
      <3> HIDE DEF U
      <3>1. \A k \in T : ~(N - k < n)
        BY <2>2, <2>4
      <3> QED
        BY <2>3, <3>1
    <2> QED
      BY <2>5
  <1> QED
    BY <1>1, <1>2

LEMMA Trimmed ==
  ASSUME NEW s \in Seq(Byte)
  PROVE  /\ Trim(s) \in Seq(Byte) /\ Len(Trim(s)) <= Len(s)
         /\ Trim(s) # <<>> => /\ Trim(s)[1] \notin Whitespace
                              /\ Trim(s)[Len(Trim(s))] \notin Whitespace
         /\ \E a, b : IsBlank(a) /\ IsBlank(b) /\ s = (a \o Trim(s)) \o b
  <1> DEFINE ink == {i \in DOMAIN s : s[i] \notin Whitespace}
  <1>1. Len(s) \in Nat /\ DOMAIN s = 1 .. Len(s)
    BY LenProperties
  <1>2. CASE ink = {}
    <2>1. Trim(s) = <<>>
      BY <1>2 DEF Trim
    <2>2. IsBlank(s) /\ IsBlank(<<>>)
      BY <1>1, <1>2 DEF IsBlank
    <2>3. s = (<<>> \o <<>>) \o s
      BY ConcatEmptySeq, EmptySeq
    <2>4. \E a, b : IsBlank(a) /\ IsBlank(b) /\ s = (a \o Trim(s)) \o b
      BY <2>1, <2>2, <2>3, Zenon
    <2>5. Trim(s) \in Seq(Byte) /\ Len(Trim(s)) <= Len(s)
      BY <1>1, <2>1, EmptySeq
    <2> QED
      BY <2>1, <2>4, <2>5
  <1>3. CASE ink # {}
    <2> DEFINE m == CHOOSE i \in ink : \A k \in ink : i <= k
               n == CHOOSE i \in ink : \A k \in ink : i >= k
               t == SubSeq(s, m, n)
               a == SubSeq(s, 1, m - 1)
               b == SubSeq(s, n + 1, Len(s))
               d == SubSeq(s, 1, n)
    <2>1. Trim(s) = t
      BY <1>3 DEF Trim
    <2>2. m \in ink /\ n \in ink /\ \A k \in ink : m <= k /\ k <= n
      <3>1. ink \subseteq 1 .. Len(s)
        BY <1>1
      <3> HIDE DEF ink
      <3>2. /\ \E i \in ink : \A k \in ink : i <= k
            /\ \E i \in ink : \A k \in ink : i >= k
        BY <1>1, <1>3, <3>1, GreatestOf
      <3>3. m \in ink /\ \A k \in ink : m <= k
        BY <3>2
      <3>4. n \in ink /\ \A k \in ink : n >= k
        BY <3>2
      <3>5. \A k \in ink : k \in Int
        BY <1>1, <3>1
      <3> QED
        BY <3>1, <3>3, <3>4, <3>5
    <2> HIDE DEF m, n
    <2>3. m \in 1 .. Len(s) /\ n \in 1 .. Len(s) /\ m <= n /\ s[m] \notin Whitespace /\ s[n] \notin Whitespace
      BY <1>1, <2>2
    <2>4. /\ t \in Seq(Byte) /\ Len(t) = n - m + 1
          /\ \A i \in 1 .. n - m + 1 : t[i] = s[m + i - 1]
      BY <1>1, <2>3, PieceOf
    <2>5. /\ a \in Seq(Byte) /\ Len(a) = m - 1 /\ \A i \in 1 .. m - 1 : a[i] = s[i]
      BY <1>1, <2>3, CutInTwo
    <2>6. /\ b \in Seq(Byte) /\ Len(b) = Len(s) - n /\ \A i \in 1 .. Len(s) - n : b[i] = s[n + i]
          /\ s = d \o b
      <3>1. n \in 0 .. Len(s)
        BY <1>1, <2>3
      <3> QED
        BY <3>1, CutInTwo, Zenon
    <2>7. d = a \o t
      <3>1. 1 \in 1 .. Len(s) + 1 /\ m - 1 \in 1 - 1 .. Len(s) /\ n \in m - 1 .. Len(s) /\ m - 1 + 1 = m
        BY <1>1, <2>3
      <3> QED
        BY <3>1, ConcatAdjacentSubSeq
    <2> HIDE DEF t, a, b, d
    <2>8. IsBlank(a)
      <3>1. \A i \in 1 .. m - 1 : i \in DOMAIN s /\ i \notin ink
        BY <1>1, <2>2, <2>3
      <3> QED
        BY <2>5, <3>1 DEF IsBlank
    <2>9. IsBlank(b)
      <3>1. \A i \in 1 .. Len(s) - n : n + i \in DOMAIN s /\ n + i \notin ink
        BY <1>1, <2>2, <2>3
      <3> QED
        BY <2>6, <3>1 DEF IsBlank
    <2>10. t[1] = s[m] /\ t[Len(t)] = s[n] /\ Len(t) <= Len(s)
      BY <1>1, <2>3, <2>4
    <2> QED
      BY <2>1, <2>3, <2>4, <2>6, <2>7, <2>8, <2>9, <2>10
  <1> QED
    BY <1>2, <1>3

LEMMA BetweenTwo ==
  ASSUME NEW s \in Seq(Byte), NEW open, NEW close, IsBetween(s, open, close)
  PROVE  LET m == SubSeq(s, 2, Len(s) - 1)
         IN  /\ m \in Seq(Byte) /\ Len(m) = Len(s) - 2 /\ Len(s) \in Nat /\ Len(s) >= 2
             /\ open \in Byte /\ close \in Byte
             /\ s = (<<open>> \o m) \o <<close>>
  <1>1. Len(s) \in Nat /\ Len(s) >= 2 /\ s[1] = open /\ s[Len(s)] = close
    BY LenProperties DEF IsBetween
  <1>2. open \in Byte /\ close \in Byte
    BY <1>1, ElementOfSeq
  <1> DEFINE m == SubSeq(s, 2, Len(s) - 1)
             d == SubSeq(s, 1, Len(s) - 1)
  <1>3. m \in Seq(Byte) /\ Len(m) = Len(s) - 2
    <2>1. /\ m \in Seq(Byte)
          /\ Len(m) = (IF 2 <= Len(s) - 1 THEN Len(s) - 1 - 2 + 1 ELSE 0)
      BY <1>1, PieceOf
    <2>2. \A n \in Nat : n >= 2 => (IF 2 <= n - 1 THEN n - 1 - 2 + 1 ELSE 0) = n - 2
      OBVIOUS
    <2> QED
      BY <1>1, <2>1, <2>2
  <1>4. SubSeq(s, 1, Len(s)) = d \o <<s[Len(s)]>>
    BY <1>1, SubSeqRecursiveSecond
  <1>5. d = <<s[1]>> \o SubSeq(s, 1 + 1, Len(s) - 1)
    <2>1. 1 \in 1 .. Len(s) /\ Len(s) - 1 \in 1 .. Len(s)
      BY <1>1
    <2> QED
      BY <2>1, SubSeqRecursiveFirst
  <1>6. s = d \o <<close>> /\ d = <<open>> \o m
    <2>1. 1 + 1 = 2 /\ SubSeq(s, 1, Len(s)) = s
      BY SubSeqFull
    <2> QED
      BY <1>1, <1>4, <1>5, <2>1
  <1> HIDE DEF m, d
  <1>7. s = (<<open>> \o m) \o <<close>>
    BY <1>6
  <1> QED
    BY <1>1, <1>2, <1>3, <1>7 DEF m
-----------------------------------------------------------------------------
(* What a text denotes exists: it takes what shorter texts denote.          *)
Parts == Nonterminals \X Seq(Byte)
Rank(p) == 2 * Len(p[2]) + IF p[1] \in {"elements", "members"} THEN 1 ELSE 0
AgreeBelow(d, e, n) == \A p \in Parts : Rank(p) < n => d[p] = e[p]

LEMMA AgreeOnShorter ==
  ASSUME NEW d, NEW e, NEW n \in Nat, AgreeBelow(d, e, n), NEW s \in Seq(Byte), NEW t \in Seq(Byte),
         Len(t) < Len(s), 2 * Len(s) <= n
  PROVE  /\ d[<<"value", t>>] = e[<<"value", t>>]
         /\ d[<<"elements", t>>] = e[<<"elements", t>>]
         /\ d[<<"members", t>>] = e[<<"members", t>>]
         /\ d[<<"characters", t>>] = e[<<"characters", t>>]
  <1>1. Len(t) \in Nat /\ Len(s) \in Nat
    BY LenProperties
  <1>2. ASSUME NEW part \in Nonterminals PROVE d[<<part, t>>] = e[<<part, t>>]
    <2>1. <<part, t>> \in Parts /\ Rank(<<part, t>>) <= 2 * Len(t) + 1 /\ Rank(<<part, t>>) \in Nat
      BY <1>1 DEF Parts, Rank
    <2>2. Rank(<<part, t>>) < n
      BY <1>1, <2>1
    <2> QED
      BY <2>1, <2>2 DEF AgreeBelow
  <1> QED
    BY <1>2 DEF Nonterminals

LEMMA CharacterLength ==
  ASSUME NEW s \in Seq(Byte), NEW first \in CharactersAt(s)
  PROVE  first[1] \in 1 .. 12 /\ first[1] <= Len(s)
  <1>1. CASE first \in AsItIs(s)
    BY <1>1 DEF AsItIs
  <1>2. CASE first \in ByEscape(s)
    BY <1>2 DEF ByEscape
  <1>3. CASE first \in ByNumber(s)
    BY <1>3, LenProperties DEF ByNumber, IsUnicodeEscape
  <1>4. CASE first \in ByTwoNumbers(s)
    BY <1>4 DEF ByTwoNumbers
  <1> QED
    BY <1>1, <1>2, <1>3, <1>4 DEF CharactersAt

LEMMA CharactersAgree ==
  ASSUME NEW d, NEW e, NEW s \in Seq(Byte), NEW n \in Nat, AgreeBelow(d, e, n), 2 * Len(s) <= n
  PROVE  CharactersBy(d, s) = CharactersBy(e, s)
  <1> DEFINE I(f, first) == {<<first[2]>> \o rest :
                 rest \in f[<<"characters", SubSeq(s, first[1] + 1, Len(s))>>]}
  <1>1. ASSUME NEW first \in CharactersAt(s)
        PROVE  I(d, first) = I(e, first)
    <2>1. first[1] \in 0 .. Len(s) /\ first[1] >= 1 /\ Len(s) \in Nat
      BY CharacterLength, LenProperties
    <2> DEFINE t == SubSeq(s, first[1] + 1, Len(s))
    <2>2. t \in Seq(Byte) /\ Len(t) < Len(s)
      BY <2>1, CutInTwo
    <2> HIDE DEF t
    <2>3. d[<<"characters", t>>] = e[<<"characters", t>>]
      BY <2>2, AgreeOnShorter, Zenon
    <2> QED
      BY <2>3, Zenon DEF t
  <1>2. {I(d, first) : first \in CharactersAt(s)} = {I(e, first) : first \in CharactersAt(s)}
    <2> HIDE DEF I
    <2> QED
      BY <1>1, Zenon
  <1> QED
    BY <1>2, Zenon DEF CharactersBy

LEMMA StringsAgree ==
  ASSUME NEW d, NEW e, NEW s \in Seq(Byte), NEW n \in Nat, AgreeBelow(d, e, n), 2 * Len(s) <= n
  PROVE  StringsBy(d, s) = StringsBy(e, s)
  <1>1. CASE IsBetween(s, Quote, Quote)
    <2> DEFINE t == SubSeq(s, 2, Len(s) - 1)
    <2>1. t \in Seq(Byte) /\ Len(t) = Len(s) - 2 /\ Len(s) \in Nat
      BY <1>1, BetweenTwo
    <2> HIDE DEF t
    <2>2. t \in Seq(Byte) /\ Len(t) < Len(s)
      BY <2>1
    <2>3. d[<<"characters", t>>] = e[<<"characters", t>>]
      BY <2>2, AgreeOnShorter, Zenon
    <2> QED
      BY <2>3, Zenon DEF t, StringsBy
  <1> QED
    BY <1>1, Zenon DEF StringsBy

LEMMA ElementsAgree ==
  ASSUME NEW d, NEW e, NEW s \in Seq(Byte), AgreeBelow(d, e, 2 * Len(s) + 1)
  PROVE  ElementsBy(d, s) = ElementsBy(e, s)
  <1> DEFINE I(f, cut) == Prefixing(f[<<"value", cut[1]>>], f[<<"elements", cut[2]>>])
  <1>1. ASSUME NEW cut \in Cuts(s, Comma)
        PROVE  I(d, cut) = I(e, cut)
    <2> DEFINE a == cut[1]
               b == cut[2]
    <2>1. a \in Seq(Byte) /\ Len(a) < Len(s)
      BY CutAtAByte
    <2>2. b \in Seq(Byte) /\ Len(b) < Len(s)
      BY CutAtAByte
    <2> HIDE DEF a, b
    <2>3. 2 * Len(s) + 1 \in Nat /\ 2 * Len(s) <= 2 * Len(s) + 1
      BY LenProperties
    <2>4. d[<<"value", a>>] = e[<<"value", a>>]
      BY <2>1, <2>3, AgreeOnShorter, Zenon
    <2>5. d[<<"elements", b>>] = e[<<"elements", b>>]
      BY <2>2, <2>3, AgreeOnShorter, Zenon
    <2> QED
      BY <2>4, <2>5, Zenon DEF a, b
  <1>2. {I(d, cut) : cut \in Cuts(s, Comma)} = {I(e, cut) : cut \in Cuts(s, Comma)}
    <2> HIDE DEF I
    <2> QED
      BY <1>1, Zenon
  <1>3. d[<<"value", s>>] = e[<<"value", s>>]
    <2>1. <<"value", s>> \in Parts /\ Rank(<<"value", s>>) < 2 * Len(s) + 1
      BY LenProperties DEF Parts, Rank, Nonterminals
    <2> QED
      BY <2>1 DEF AgreeBelow
  <1> QED
    BY <1>2, <1>3, Zenon DEF ElementsBy

LEMMA MemberAgrees ==
  ASSUME NEW d, NEW e, NEW s \in Seq(Byte), NEW n \in Nat, AgreeBelow(d, e, n), 2 * Len(s) <= n
  PROVE  MemberBy(d, s) = MemberBy(e, s)
  <1> DEFINE I(f, cut) == StringsBy(f, Trim(cut[1])) \X f[<<"value", cut[2]>>]
  <1>1. ASSUME NEW cut \in Cuts(s, Colon)
        PROVE  I(d, cut) = I(e, cut)
    <2> DEFINE a == cut[1]
               b == cut[2]
    <2>1. a \in Seq(Byte) /\ Len(a) < Len(s)
      BY CutAtAByte
    <2>2. b \in Seq(Byte) /\ Len(b) < Len(s)
      BY CutAtAByte
    <2> HIDE DEF a, b
    <2>3. d[<<"value", b>>] = e[<<"value", b>>]
      BY <2>2, AgreeOnShorter, Zenon
    <2>4. Trim(a) \in Seq(Byte) /\ Len(Trim(a)) <= Len(a)
      BY <2>1, Trimmed
    <2>5. Len(a) \in Nat /\ Len(s) \in Nat /\ Len(Trim(a)) \in Nat
      BY <2>1, <2>4, LenProperties
    <2>6. 2 * Len(Trim(a)) <= n
      BY <2>1, <2>4, <2>5
    <2>7. StringsBy(d, Trim(a)) = StringsBy(e, Trim(a))
      BY <2>4, <2>6, StringsAgree
    <2> QED
      BY <2>3, <2>7, Zenon DEF a, b
  <1>2. {I(d, cut) : cut \in Cuts(s, Colon)} = {I(e, cut) : cut \in Cuts(s, Colon)}
    <2> HIDE DEF I
    <2> QED
      BY <1>1, Zenon
  <1> QED
    BY <1>2, Zenon DEF MemberBy

LEMMA MembersAgree ==
  ASSUME NEW d, NEW e, NEW s \in Seq(Byte), NEW n \in Nat, AgreeBelow(d, e, n), 2 * Len(s) <= n
  PROVE  MembersBy(d, s) = MembersBy(e, s)
  <1> DEFINE I(f, cut) == Overriding(MemberBy(f, cut[1]), f[<<"members", cut[2]>>])
  <1>1. ASSUME NEW cut \in Cuts(s, Comma)
        PROVE  I(d, cut) = I(e, cut)
    <2> DEFINE a == cut[1]
               b == cut[2]
    <2>1. a \in Seq(Byte) /\ Len(a) < Len(s)
      BY CutAtAByte
    <2>2. b \in Seq(Byte) /\ Len(b) < Len(s)
      BY CutAtAByte
    <2> HIDE DEF a, b
    <2>3. d[<<"members", b>>] = e[<<"members", b>>]
      BY <2>2, AgreeOnShorter, Zenon
    <2>4. Len(a) \in Nat /\ Len(s) \in Nat
      BY <2>1, LenProperties
    <2>5. 2 * Len(a) <= n
      BY <2>1, <2>4
    <2>6. MemberBy(d, a) = MemberBy(e, a)
      BY <2>1, <2>5, MemberAgrees
    <2> QED
      BY <2>3, <2>6, Zenon DEF a, b
  <1>2. {I(d, cut) : cut \in Cuts(s, Comma)} = {I(e, cut) : cut \in Cuts(s, Comma)}
    <2> HIDE DEF I
    <2> QED
      BY <1>1, Zenon
  <1>3. MemberBy(d, s) = MemberBy(e, s)
    BY MemberAgrees
  <1> QED
    BY <1>2, <1>3, Zenon DEF MembersBy

LEMMA InsideIsShorter ==
  ASSUME NEW s \in Seq(Byte), NEW open, NEW close, IsBetween(s, open, close)
  PROVE  Inside(s) \in Seq(Byte) /\ Len(Inside(s)) < Len(s)
  <1> DEFINE t == SubSeq(s, 2, Len(s) - 1)
  <1>1. t \in Seq(Byte) /\ Len(t) = Len(s) - 2 /\ Len(s) \in Nat
    BY BetweenTwo
  <1> HIDE DEF t
  <1>2. Trim(t) \in Seq(Byte) /\ Len(Trim(t)) <= Len(t) /\ Len(Trim(t)) \in Nat
    BY <1>1, Trimmed, LenProperties
  <1>3. Len(Trim(t)) < Len(s)
    BY <1>1, <1>2
  <1> QED
    BY <1>2, <1>3 DEF t, Inside

LEMMA ValuesAgree ==
  ASSUME NEW d, NEW e, NEW s \in Seq(Byte), NEW n \in Nat, AgreeBelow(d, e, n), 2 * Len(s) <= n
  PROVE  ValueBy(d, s) = ValueBy(e, s)
  <1>1. StringsBy(d, s) = StringsBy(e, s)
    BY StringsAgree
  <1>2. IsBetween(s, LeftBracket, RightBracket) =>
          d[<<"elements", Inside(s)>>] = e[<<"elements", Inside(s)>>]
    <2>1. ASSUME IsBetween(s, LeftBracket, RightBracket)
          PROVE  Inside(s) \in Seq(Byte) /\ Len(Inside(s)) < Len(s)
      BY <2>1, InsideIsShorter
    <2> QED
      BY <2>1, AgreeOnShorter, Zenon
  <1>3. IsBetween(s, LeftBrace, RightBrace) =>
          d[<<"members", Inside(s)>>] = e[<<"members", Inside(s)>>]
    <2>1. ASSUME IsBetween(s, LeftBrace, RightBrace)
          PROVE  Inside(s) \in Seq(Byte) /\ Len(Inside(s)) < Len(s)
      BY <2>1, InsideIsShorter
    <2> QED
      BY <2>1, AgreeOnShorter, Zenon
  <1> QED
    BY <1>1, <1>2, <1>3, SMT DEF ValueBy

LEMMA PartsAgree ==
  ASSUME NEW d, NEW e, NEW p \in Parts, AgreeBelow(d, e, Rank(p))
  PROVE  DenotedBy(d, p[1], p[2]) = DenotedBy(e, p[1], p[2])
  <1>1. p[1] \in Nonterminals /\ p[2] \in Seq(Byte) /\ p = <<p[1], p[2]>>
    BY DEF Parts
  <1> DEFINE part == p[1]
             s == p[2]
  <1> HIDE DEF part, s
  <1>2. part \in Nonterminals /\ s \in Seq(Byte) /\ p = <<part, s>> /\ Len(s) \in Nat
    BY <1>1, LenProperties DEF part, s
  <1>3. CASE part = "value"
    <2>1. Rank(p) = 2 * Len(s) /\ Rank(p) \in Nat
      BY <1>2, <1>3 DEF Rank
    <2>2. Trim(s) \in Seq(Byte) /\ 2 * Len(Trim(s)) <= Rank(p)
      <3>1. Trim(s) \in Seq(Byte) /\ Len(Trim(s)) <= Len(s)
        BY <1>2, Trimmed
      <3>2. Len(Trim(s)) \in Nat
        BY <3>1, LenProperties
      <3> QED
        BY <1>2, <2>1, <3>1, <3>2
    <2>3. ValueBy(d, Trim(s)) = ValueBy(e, Trim(s))
      BY <2>1, <2>2, ValuesAgree
    <2> QED
      BY <1>3, <2>3, Zenon DEF DenotedBy, part, s
  <1>4. CASE part = "elements"
    <2>1. Rank(p) = 2 * Len(s) + 1
      BY <1>2, <1>4 DEF Rank
    <2>2. ElementsBy(d, s) = ElementsBy(e, s)
      BY <1>2, <2>1, ElementsAgree
    <2> QED
      BY <1>4, <2>2, Zenon DEF DenotedBy, part, s
  <1>5. CASE part = "members"
    <2>1. Rank(p) = 2 * Len(s) + 1 /\ Rank(p) \in Nat /\ 2 * Len(s) <= Rank(p)
      BY <1>2, <1>5 DEF Rank
    <2>2. MembersBy(d, s) = MembersBy(e, s)
      BY <1>2, <2>1, MembersAgree
    <2> QED
      BY <1>5, <2>2, Zenon DEF DenotedBy, part, s
  <1>6. CASE part = "characters"
    <2>1. Rank(p) = 2 * Len(s) /\ Rank(p) \in Nat /\ 2 * Len(s) <= Rank(p)
      BY <1>2, <1>6 DEF Rank
    <2>2. CharactersBy(d, s) = CharactersBy(e, s)
      BY <1>2, <2>1, CharactersAgree
    <2> QED
      BY <1>6, <2>2, Zenon DEF DenotedBy, part, s
  <1> QED
    BY <1>2, <1>3, <1>4, <1>5, <1>6 DEF Nonterminals

DenotesBelow(f, n) ==
  \A p \in Parts : Rank(p) < n => f[p] = DenotedBy(f, p[1], p[2])

LEMMA RankIsNat == ASSUME NEW p \in Parts PROVE Rank(p) \in Nat
  BY LenProperties DEF Parts, Rank

LEMMA MeaningsAgree ==
  ASSUME NEW n \in Nat, NEW f, NEW g, DenotesBelow(f, n), DenotesBelow(g, n)
  PROVE  AgreeBelow(f, g, n)
  <1> DEFINE T == {m \in Nat : \E p \in Parts : Rank(p) = m /\ m < n /\ f[p] # g[p]}
  <1>1. ASSUME T # {} PROVE FALSE
    <2>1. PICK m \in T : \A k \in T : ~(k < m)
      <3>1. T \subseteq Nat
        OBVIOUS
      <3> HIDE DEF T
      <3> QED
        BY <1>1, <3>1, LeastOf
    <2>2. PICK p \in Parts : Rank(p) = m /\ m < n /\ f[p] # g[p]
      BY <2>1
    <2>3. ASSUME NEW q \in Parts, Rank(q) < Rank(p) PROVE f[q] = g[q]
      <3>1. Rank(q) \in Nat /\ Rank(q) < n /\ Rank(q) \notin T
        BY <2>1, <2>2, <2>3, RankIsNat
      <3> QED
        BY <3>1
    <2>4. AgreeBelow(f, g, Rank(p))
      BY <2>3 DEF AgreeBelow
    <2>5. f[p] = DenotedBy(f, p[1], p[2]) /\ g[p] = DenotedBy(g, p[1], p[2])
      BY <2>2 DEF DenotesBelow
    <2> QED
      BY <2>2, <2>4, <2>5, PartsAgree
  <1> QED
    BY <1>1, RankIsNat DEF AgreeBelow

LEMMA MeaningsExist == \A n \in Nat : \E f : DenotesBelow(f, n)
  <1> DEFINE T == {n \in Nat : ~\E f : DenotesBelow(f, n)}
  <1>1. ASSUME T # {} PROVE FALSE
    <2>1. PICK n \in T : \A k \in T : ~(k < n)
      <3>1. T \subseteq Nat
        OBVIOUS
      <3> HIDE DEF T
      <3> QED
        BY <1>1, <3>1, LeastOf
    <2>2. n \in Nat /\ ~\E f : DenotesBelow(f, n)
      BY <2>1
    <2>3. CASE n = 0
      BY <2>2, <2>3, RankIsNat DEF DenotesBelow
    <2>4. CASE n # 0
      <3>1. n - 1 \in Nat /\ n - 1 \notin T
        BY <2>1, <2>2, <2>4
      <3>2. PICK f : DenotesBelow(f, n - 1)
        BY <3>1
      <3> DEFINE g == [p \in Parts |-> IF Rank(p) < n - 1 THEN f[p] ELSE DenotedBy(f, p[1], p[2])]
      <3>3. AgreeBelow(g, f, n - 1)
        BY DEF AgreeBelow
      <3>4. ASSUME NEW p \in Parts, Rank(p) < n PROVE g[p] = DenotedBy(g, p[1], p[2])
        <4>1. Rank(p) \in Nat /\ Rank(p) <= n - 1
          BY <2>2, <3>4, RankIsNat
        <4>2. AgreeBelow(g, f, Rank(p))
          <5> HIDE DEF g
          <5> QED
            BY <2>2, <3>3, <4>1, RankIsNat DEF AgreeBelow
        <4>3. g[p] = DenotedBy(f, p[1], p[2])
          BY <3>2, Zenon DEF DenotesBelow
        <4> HIDE DEF g
        <4> QED
          BY <4>2, <4>3, PartsAgree
      <3> HIDE DEF g
      <3> QED
        BY <2>2, <3>4 DEF DenotesBelow
    <2> QED
      BY <2>3, <2>4
  <1> QED
    BY <1>1

LEMMA DenotedUnfolds ==
  ASSUME NEW p \in Parts
  PROVE  Denoted[p] = DenotedBy(Denoted, p[1], p[2])
  <1> DEFINE F(n) == CHOOSE f : DenotesBelow(f, n)
             g == [q \in Parts |-> F(Rank(q) + 1)[q]]
  <1>1. \A n \in Nat : DenotesBelow(F(n), n)
    BY MeaningsExist
  <1> HIDE DEF F
  <1>2. ASSUME NEW q \in Parts PROVE g[q] = DenotedBy(g, q[1], q[2])
    <2> DEFINE f == F(Rank(q) + 1)
    <2>1. Rank(q) \in Nat /\ Rank(q) + 1 \in Nat
      BY RankIsNat
    <2>2. DenotesBelow(f, Rank(q) + 1)
      BY <1>1, <2>1
    <2>3. ASSUME NEW r \in Parts, Rank(r) < Rank(q) PROVE g[r] = f[r]
      <3>1. Rank(r) \in Nat /\ Rank(r) + 1 \in Nat /\ Rank(r) + 1 <= Rank(q) + 1 /\ Rank(r) < Rank(r) + 1
        BY <2>1, <2>3, RankIsNat
      <3>2. DenotesBelow(f, Rank(r) + 1)
        <4> HIDE DEF f
        <4> QED
          BY <2>1, <2>2, <3>1, RankIsNat DEF DenotesBelow
      <3>3. DenotesBelow(F(Rank(r) + 1), Rank(r) + 1)
        BY <1>1, <3>1
      <3>4. AgreeBelow(F(Rank(r) + 1), f, Rank(r) + 1)
        <4> HIDE DEF f
        <4> QED
          BY <3>1, <3>2, <3>3, MeaningsAgree
      <3>5. F(Rank(r) + 1)[r] = f[r]
        <4> HIDE DEF f
        <4> QED
          BY <3>1, <3>4 DEF AgreeBelow
      <3> QED
        BY <3>5
    <2>4. AgreeBelow(g, f, Rank(q))
      <3> HIDE DEF g, f
      <3> QED
        BY <2>3 DEF AgreeBelow
    <2>5. f[q] = DenotedBy(f, q[1], q[2])
      <3> HIDE DEF f
      <3> QED
        BY <2>1, <2>2 DEF DenotesBelow
    <2>6. g[q] = f[q]
      OBVIOUS
    <2> HIDE DEF g, f
    <2> QED
      BY <2>4, <2>5, <2>6, PartsAgree
  <1>3. g = [q \in Parts |-> DenotedBy(g, q[1], q[2])]
    <2>1. g = [q \in Parts |-> g[q]]
      OBVIOUS
    <2> HIDE DEF g
    <2> QED
      BY <1>2, <2>1, Zenon
  <1> HIDE DEF g
  <1>4. Denoted = [q \in Parts |-> DenotedBy(Denoted, q[1], q[2])]
    BY <1>3, Zenon DEF Denoted, Parts
  <1> QED
    BY <1>4, Zenon
-----------------------------------------------------------------------------
(* Texts that leave the frame as it was, and texts in which what is opened  *)
(* is closed.                                                               *)
LEMMA TextInduction ==
  ASSUME NEW T, T \subseteq Seq(Byte), <<>> \in T,
         \A s \in T, c \in Byte : Append(s, c) \in T
  PROVE  T = Seq(Byte)
  <1> DEFINE U == {n \in Nat : \E s \in Seq(Byte) : Len(s) = n /\ s \notin T}
  <1>1. ASSUME U # {} PROVE FALSE
    <2>1. PICK n \in U : \A k \in U : ~(k < n)
      <3>1. U \subseteq Nat
        OBVIOUS
      <3> HIDE DEF U
      <3> QED
        BY <1>1, <3>1, LeastOf
    <2>2. PICK s \in Seq(Byte) : Len(s) = n /\ s \notin T
      BY <2>1
    <2>3. PICK r \in Seq(Byte), c \in Byte : s = Append(r, c)
      BY <2>2, SequenceEmptyOrAppend
    <2>4. Len(r) \in Nat /\ Len(r) < n
      BY <2>2, <2>3, AppendProperties, LenProperties
    <2>5. r \in T
      BY <2>1, <2>4
    <2> QED
      BY <2>2, <2>3, <2>5
  <1>2. \A s \in Seq(Byte) : Len(s) \in Nat
    BY LenProperties
  <1> QED
    BY <1>1, <1>2

Frames == [depth : Int, opened : BOOLEAN, quoting : {"none", "string", "escape"}]

LEMMA ByteSeenIsFrame ==
  ASSUME NEW f \in Frames, NEW c
  PROVE  /\ ByteSeen(f, c) \in Frames
         /\ f.opened => ByteSeen(f, c).opened
  BY DEF Frames, ByteSeen

LEMMA MarksSeen ==
  ASSUME NEW f \in Frames, f.quoting = "none"
  PROVE  /\ ByteSeen(f, Quote) = [f EXCEPT !.quoting = "string"]
         /\ \A c \in Openings :
              ByteSeen(f, c) = [depth |-> f.depth + 1, opened |-> TRUE, quoting |-> "none"]
         /\ \A c \in Closings :
              ByteSeen(f, c) = [depth |-> f.depth - 1, opened |-> f.opened, quoting |-> "none"]
  <1>1. ByteSeen(f, Quote) = [depth |-> f.depth, opened |-> f.opened, quoting |-> "string"]
    BY DEF ByteSeen, Frames, Quote, LeftBracket, RightBracket, LeftBrace, RightBrace
  <1>2. [f EXCEPT !.quoting = "string"] = [depth |-> f.depth, opened |-> f.opened, quoting |-> "string"]
    BY DEF Frames
  <1>3. ASSUME NEW c \in Openings
        PROVE  ByteSeen(f, c) = [depth |-> f.depth + 1, opened |-> TRUE, quoting |-> "none"]
    <2>1. c # Quote /\ c \in {LeftBracket, LeftBrace}
      BY NoMarks DEF Openings
    <2> QED
      BY <2>1 DEF ByteSeen
  <1>4. ASSUME NEW c \in Closings
        PROVE  ByteSeen(f, c) = [depth |-> f.depth - 1, opened |-> f.opened, quoting |-> "none"]
    <2>1. c # Quote /\ c \notin {LeftBracket, LeftBrace} /\ c \in {RightBracket, RightBrace}
      BY NoMarks DEF Closings, LeftBracket, LeftBrace, RightBracket, RightBrace
    <2>2. (f.opened \/ c \in {LeftBracket, LeftBrace}) = f.opened
      BY <2>1 DEF Frames
    <2>3. ByteSeen(f, c) = [depth |-> f.depth - 1, opened |-> f.opened \/ c \in {LeftBracket, LeftBrace},
                            quoting |-> "none"]
      BY <2>1 DEF ByteSeen
    <2> QED
      BY <2>2, <2>3
  <1> QED
    BY <1>1, <1>2, <1>3, <1>4

LEMMA FramesAreFrames == \A s \in Seq(Byte) : Frame[s] \in Frames
  <1> DEFINE T == {s \in Seq(Byte) : Frame[s] \in Frames}
  <1>1. <<>> \in T
    <2>1. Start \in Frames
      BY DEF Frames, Start
    <2> QED
      BY <2>1, FrameGoesOn, EmptySeq
  <1>2. ASSUME NEW s \in T, NEW c \in Byte PROVE Append(s, c) \in T
    <2>1. Append(s, c) \in Seq(Byte) /\ Frame[Append(s, c)] = ByteSeen(Frame[s], c)
      BY FrameGoesOn, AppendProperties
    <2> QED
      BY <2>1, ByteSeenIsFrame
  <1>3. T \subseteq Seq(Byte)
    OBVIOUS
  <1>4. T = Seq(Byte)
    <2> HIDE DEF T
    <2> QED
      BY <1>1, <1>2, <1>3, TextInduction
  <1> QED
    BY <1>4

LEMMA OneByteOn ==
  ASSUME NEW t \in Seq(Byte), NEW c \in Byte
  PROVE  /\ t \o <<c>> \in Seq(Byte) /\ Frame[t \o <<c>>] = ByteSeen(Frame[t], c)
         /\ Frame[t] \in Frames /\ <<c>> \in Seq(Byte)
  <1>1. Append(t, c) = t \o <<c>> /\ Append(t, c) \in Seq(Byte)
    BY AppendIsConcat, AppendProperties
  <1>2. Frame[Append(t, c)] = ByteSeen(Frame[t], c)
    BY FrameGoesOn
  <1> QED
    BY <1>1, <1>2, FramesAreFrames

Quiet(s, q) ==
  \A t \in Seq(Byte) : Frame[t].quoting = q => Frame[t \o s] = Frame[t]

Even(s) ==
  \A t \in Seq(Byte) : Frame[t].quoting = "none" =>
     /\ Frame[t \o s].quoting = "none" /\ Frame[t \o s].depth = Frame[t].depth
     /\ Frame[t].opened => Frame[t \o s].opened

LEMMA QuietIsEven == ASSUME NEW s, Quiet(s, "none") PROVE Even(s)
  BY DEF Quiet, Even

LEMMA NothingIsQuiet == \A q : Quiet(<<>>, q)
  BY ConcatEmptySeq DEF Quiet

LEMMA QuietAfterQuiet ==
  ASSUME NEW a \in Seq(Byte), NEW b \in Seq(Byte), NEW q, Quiet(a, q), Quiet(b, q)
  PROVE  a \o b \in Seq(Byte) /\ Quiet(a \o b, q)
  <1>1. ASSUME NEW t \in Seq(Byte), Frame[t].quoting = q
        PROVE  Frame[t \o (a \o b)] = Frame[t]
    <2>1. t \o a \in Seq(Byte) /\ Frame[t \o a] = Frame[t]
      BY <1>1, ConcatProperties DEF Quiet
    <2>2. Frame[(t \o a) \o b] = Frame[t \o a]
      BY <1>1, <2>1 DEF Quiet
    <2>3. (t \o a) \o b = t \o (a \o b)
      BY ConcatAssociative
    <2> QED
      BY <2>1, <2>2, <2>3
  <1>2. a \o b \in Seq(Byte)
    BY ConcatProperties
  <1> QED
    BY <1>1, <1>2 DEF Quiet

LEMMA EvenAfterEven ==
  ASSUME NEW a \in Seq(Byte), NEW b \in Seq(Byte), Even(a), Even(b)
  PROVE  a \o b \in Seq(Byte) /\ Even(a \o b)
  <1>1. ASSUME NEW t \in Seq(Byte), Frame[t].quoting = "none"
        PROVE  /\ Frame[t \o (a \o b)].quoting = "none" /\ Frame[t \o (a \o b)].depth = Frame[t].depth
               /\ Frame[t].opened => Frame[t \o (a \o b)].opened
    <2>1. /\ t \o a \in Seq(Byte) /\ Frame[t \o a].quoting = "none" /\ Frame[t \o a].depth = Frame[t].depth
          /\ Frame[t].opened => Frame[t \o a].opened
      BY <1>1, ConcatProperties DEF Even
    <2>2. /\ Frame[(t \o a) \o b].quoting = "none" /\ Frame[(t \o a) \o b].depth = Frame[t \o a].depth
          /\ Frame[t \o a].opened => Frame[(t \o a) \o b].opened
      BY <2>1 DEF Even
    <2>3. (t \o a) \o b = t \o (a \o b)
      BY ConcatAssociative
    <2> QED
      BY <2>1, <2>2, <2>3
  <1>2. a \o b \in Seq(Byte)
    BY ConcatProperties
  <1> QED
    BY <1>1, <1>2 DEF Even

LEMMA QuietByte ==
  ASSUME NEW c \in Byte
  PROVE  /\ c \notin Marks => Quiet(<<c>>, "none")
         /\ c \notin {Quote, Backslash} => Quiet(<<c>>, "string")
  <1>1. ASSUME NEW t \in Seq(Byte), Frame[t].quoting = "none", c \notin Marks
        PROVE  Frame[t \o <<c>>] = Frame[t]
    <2>1. Frame[t \o <<c>>] = ByteSeen(Frame[t], c) /\ Frame[t] \in Frames
      BY OneByteOn
    <2>2. c # Quote /\ c # LeftBracket /\ c # LeftBrace /\ c # RightBracket /\ c # RightBrace
      BY <1>1 DEF Marks, Openings, Closings
    <2>3. ByteSeen(Frame[t], c) = [depth |-> Frame[t].depth, opened |-> Frame[t].opened, quoting |-> "none"]
      BY <1>1, <2>1, <2>2 DEF ByteSeen, Frames
    <2> QED
      BY <1>1, <2>1, <2>3 DEF Frames
  <1>2. ASSUME NEW t \in Seq(Byte), Frame[t].quoting = "string", c \notin {Quote, Backslash}
        PROVE  Frame[t \o <<c>>] = Frame[t]
    <2>1. Frame[t \o <<c>>] = ByteSeen(Frame[t], c) /\ Frame[t] \in Frames
      BY OneByteOn
    <2>2. ByteSeen(Frame[t], c) = [Frame[t] EXCEPT !.quoting = "string"]
      BY <1>2 DEF ByteSeen
    <2> QED
      BY <1>2, <2>1, <2>2 DEF Frames
  <1> QED
    BY <1>1, <1>2 DEF Quiet

LEMMA QuietText ==
  ASSUME NEW s \in Seq(Byte)
  PROVE  /\ (\A i \in 1 .. Len(s) : s[i] \notin Marks) => Quiet(s, "none")
         /\ (\A i \in 1 .. Len(s) : s[i] \notin {Quote, Backslash}) => Quiet(s, "string")
  <1> DEFINE T == {r \in Seq(Byte) :
                /\ (\A i \in 1 .. Len(r) : r[i] \notin Marks) => Quiet(r, "none")
                /\ (\A i \in 1 .. Len(r) : r[i] \notin {Quote, Backslash}) => Quiet(r, "string")}
  <1>1. <<>> \in T
    BY NothingIsQuiet
  <1>2. ASSUME NEW r \in T, NEW c \in Byte PROVE Append(r, c) \in T
    <2>1. /\ Append(r, c) \in Seq(Byte) /\ Append(r, c) = r \o <<c>> /\ <<c>> \in Seq(Byte)
          /\ Len(Append(r, c)) = Len(r) + 1 /\ Append(r, c)[Len(r) + 1] = c /\ Len(r) \in Nat
          /\ \A i \in 1 .. Len(r) : Append(r, c)[i] = r[i]
      BY AppendProperties, AppendIsConcat, LenProperties
    <2>2. ASSUME NEW X, \A i \in 1 .. Len(Append(r, c)) : Append(r, c)[i] \notin X
          PROVE  c \notin X /\ \A i \in 1 .. Len(r) : r[i] \notin X
      BY <2>1, <2>2
    <2>3. ASSUME \A i \in 1 .. Len(Append(r, c)) : Append(r, c)[i] \notin Marks
          PROVE  Quiet(Append(r, c), "none")
      <3>1. c \notin Marks /\ Quiet(r, "none")
        BY <2>2, <2>3
      <3> QED
        BY <2>1, <3>1, QuietByte, QuietAfterQuiet
    <2>4. ASSUME \A i \in 1 .. Len(Append(r, c)) : Append(r, c)[i] \notin {Quote, Backslash}
          PROVE  Quiet(Append(r, c), "string")
      <3>1. c \notin {Quote, Backslash} /\ Quiet(r, "string")
        BY <2>2, <2>4
      <3> QED
        BY <2>1, <3>1, QuietByte, QuietAfterQuiet
    <2> QED
      BY <2>1, <2>3, <2>4
  <1>3. T \subseteq Seq(Byte)
    OBVIOUS
  <1>4. T = Seq(Byte)
    <2> HIDE DEF T
    <2> QED
      BY <1>1, <1>2, <1>3, TextInduction
  <1> QED
    BY <1>4

LEMMA BlankIsQuiet == ASSUME NEW s, IsBlank(s) PROVE s \in Seq(Byte) /\ Quiet(s, "none")
  BY QuietText, NoMarks DEF IsBlank

LEMMA EscapedIsQuiet ==
  ASSUME NEW c \in Byte
  PROVE  <<Backslash, c>> \in Seq(Byte) /\ Quiet(<<Backslash, c>>, "string")
  <1>1. Backslash \in Byte /\ Backslash # Quote
    BY DEF Backslash, Quote, Byte
  <1>2. /\ <<Backslash>> \in Seq(Byte) /\ <<c>> \in Seq(Byte) /\ <<Backslash, c>> \in Seq(Byte)
        /\ <<Backslash, c>> = <<Backslash>> \o <<c>>
    BY <1>1
  <1>3. ASSUME NEW t \in Seq(Byte), Frame[t].quoting = "string"
        PROVE  Frame[t \o <<Backslash, c>>] = Frame[t]
    <2>1. t \o <<Backslash, c>> = (t \o <<Backslash>>) \o <<c>>
      BY <1>2, ConcatAssociative
    <2>2. /\ t \o <<Backslash>> \in Seq(Byte) /\ Frame[t] \in Frames
          /\ Frame[t \o <<Backslash>>] = ByteSeen(Frame[t], Backslash)
      BY <1>1, OneByteOn
    <2>3. Frame[(t \o <<Backslash>>) \o <<c>>] = ByteSeen(Frame[t \o <<Backslash>>], c)
      BY <2>2, OneByteOn
    <2>4. ByteSeen(Frame[t], Backslash) = [Frame[t] EXCEPT !.quoting = "escape"]
      BY <1>1, <1>3 DEF ByteSeen
    <2>5. ByteSeen(ByteSeen(Frame[t], Backslash), c) = [Frame[t] EXCEPT !.quoting = "string"]
      BY <2>2, <2>4 DEF ByteSeen, Frames
    <2>6. [Frame[t] EXCEPT !.quoting = "string"] = Frame[t]
      BY <1>3, <2>2 DEF Frames
    <2> QED
      BY <2>1, <2>2, <2>3, <2>5, <2>6
  <1> QED
    BY <1>2, <1>3 DEF Quiet

LEMMA QuotedIsQuiet ==
  ASSUME NEW m \in Seq(Byte), Quiet(m, "string")
  PROVE  Quiet((<<Quote>> \o m) \o <<Quote>>, "none")
  <1>1. Quote \in Byte /\ <<Quote>> \in Seq(Byte)
    BY DEF Quote, Byte
  <1>2. ASSUME NEW t \in Seq(Byte), Frame[t].quoting = "none"
        PROVE  Frame[t \o ((<<Quote>> \o m) \o <<Quote>>)] = Frame[t]
    <2> DEFINE a == t \o <<Quote>>
               b == a \o m
    <2>1. a \in Seq(Byte) /\ Frame[t] \in Frames /\ Frame[a] = ByteSeen(Frame[t], Quote)
      BY <1>1, OneByteOn
    <2>2. ByteSeen(Frame[t], Quote) = [Frame[t] EXCEPT !.quoting = "string"]
      BY <1>2, <2>1, MarksSeen
    <2>3. t \o ((<<Quote>> \o m) \o <<Quote>>) = b \o <<Quote>>
      <3>1. <<Quote>> \o m \in Seq(Byte)
        BY <1>1, ConcatProperties
      <3>2. t \o ((<<Quote>> \o m) \o <<Quote>>) = (t \o (<<Quote>> \o m)) \o <<Quote>>
        BY <1>1, <3>1, ConcatAssociative
      <3>3. t \o (<<Quote>> \o m) = (t \o <<Quote>>) \o m
        BY <1>1, ConcatAssociative
      <3> QED
        BY <3>2, <3>3
    <2> HIDE DEF a
    <2>4. Frame[a].quoting = "string"
      BY <2>1, <2>2 DEF Frames
    <2>5. b \in Seq(Byte) /\ Frame[b] = Frame[a]
      BY <2>1, <2>4, ConcatProperties DEF Quiet
    <2> HIDE DEF b
    <2>6. Frame[b \o <<Quote>>] = ByteSeen(Frame[b], Quote)
      BY <1>1, <2>5, OneByteOn
    <2>7. ByteSeen(Frame[b], Quote) = [Frame[t] EXCEPT !.quoting = "none"]
      <3>1. Frame[b] = [Frame[t] EXCEPT !.quoting = "string"]
        BY <2>1, <2>2, <2>5
      <3>2. Frame[b].quoting = "string"
        BY <2>4, <2>5
      <3>3. ByteSeen(Frame[b], Quote) = [Frame[b] EXCEPT !.quoting = "none"]
        BY <3>2 DEF ByteSeen
      <3> QED
        BY <2>1, <3>1, <3>3 DEF Frames
    <2>8. [Frame[t] EXCEPT !.quoting = "none"] = Frame[t]
      BY <1>2, <2>1 DEF Frames
    <2> QED
      BY <2>3, <2>6, <2>7, <2>8
  <1> QED
    BY <1>2 DEF Quiet

LEMMA BracketedIsEven ==
  ASSUME NEW m \in Seq(Byte), Even(m), NEW open \in Openings, NEW close \in Closings
  PROVE  LET s == (<<open>> \o m) \o <<close>>
         IN  /\ Even(s)
             /\ \A t \in Seq(Byte) : Frame[t].quoting = "none" => Frame[t \o s].opened
  <1> DEFINE s == (<<open>> \o m) \o <<close>>
  <1>1. open \in Byte /\ close \in Byte /\ <<open>> \in Seq(Byte) /\ <<close>> \in Seq(Byte)
    BY DEF Openings, Closings, LeftBracket, RightBracket, LeftBrace, RightBrace, Byte
  <1>2. ASSUME NEW t \in Seq(Byte), Frame[t].quoting = "none"
        PROVE  /\ Frame[t \o s].quoting = "none" /\ Frame[t \o s].depth = Frame[t].depth
               /\ Frame[t \o s].opened
    <2> DEFINE a == t \o <<open>>
               b == a \o m
    <2>1. a \in Seq(Byte) /\ Frame[t] \in Frames /\ Frame[a] = ByteSeen(Frame[t], open)
      BY <1>1, OneByteOn
    <2>2. ByteSeen(Frame[t], open) = [depth |-> Frame[t].depth + 1, opened |-> TRUE, quoting |-> "none"]
      BY <1>2, <2>1, MarksSeen
    <2>3. t \o s = b \o <<close>>
      <3>1. <<open>> \o m \in Seq(Byte)
        BY <1>1, ConcatProperties
      <3>2. t \o ((<<open>> \o m) \o <<close>>) = (t \o (<<open>> \o m)) \o <<close>>
        BY <1>1, <3>1, ConcatAssociative
      <3>3. t \o (<<open>> \o m) = (t \o <<open>>) \o m
        BY <1>1, ConcatAssociative
      <3> QED
        BY <3>2, <3>3
    <2> HIDE DEF a, s
    <2>4. Frame[a].quoting = "none" /\ Frame[a].depth = Frame[t].depth + 1 /\ Frame[a].opened
      BY <2>1, <2>2
    <2>5. /\ b \in Seq(Byte) /\ Frame[b].quoting = "none" /\ Frame[b].depth = Frame[t].depth + 1
          /\ Frame[b].opened
      BY <2>1, <2>4, ConcatProperties DEF Even
    <2> HIDE DEF b
    <2>6. Frame[b \o <<close>>] = ByteSeen(Frame[b], close) /\ Frame[b] \in Frames
      BY <1>1, <2>5, OneByteOn
    <2>7. ByteSeen(Frame[b], close) = [depth |-> Frame[b].depth - 1, opened |-> Frame[b].opened, quoting |-> "none"]
      BY <2>5, <2>6, MarksSeen
    <2>8. Frame[t].depth \in Int
      BY <2>1 DEF Frames
    <2>9. /\ Frame[b \o <<close>>].depth = Frame[b].depth - 1
          /\ Frame[b \o <<close>>].quoting = "none"
      BY <2>6, <2>7
    <2>10. Frame[b \o <<close>>].opened
      BY <2>5, <2>6, ByteSeenIsFrame
    <2>11. Frame[b \o <<close>>].depth = Frame[t].depth
      <3>1. Frame[b].depth = Frame[t].depth + 1
        BY <2>5
      <3>2. Frame[b].depth - 1 = Frame[t].depth
        BY <2>8, <3>1
      <3> QED
        BY <2>9, <3>2
    <2> QED
      BY <2>3, <2>9, <2>10, <2>11, Zenon
  <1> HIDE DEF s
  <1>3. Even(s) /\ \A t \in Seq(Byte) : Frame[t].quoting = "none" => Frame[t \o s].opened
    BY <1>2 DEF Even
  <1> QED
    BY <1>3 DEF s
-----------------------------------------------------------------------------
(* The bytes of a character, and those of a number, are none that count.    *)
LEMMA LaterByte == \A a \in 128 .. 191 : a \in Nat /\ a <= 191
  OBVIOUS

LEMMA FirstByte == \A a \in Byte : a \in Nat /\ (a >= 190 => a \notin {Quote, Backslash})
  BY DEF Byte, Quote, Backslash

LEMMA CharacterBytes ==
  ASSUME NEW b \in Seq(Byte), Len(b) \in 1 .. 4, NEW c \in CharacterOf(b), c \notin {Quote, Backslash}
  PROVE  \A i \in 1 .. Len(b) : b[i] \notin {Quote, Backslash}
  <1>1. /\ \A i \in 2 .. Len(b) : b[i] \in Continuation
        /\ c = Scalar(b) /\ Scalar(b) \in Taking(Len(b))
    BY DEF CharacterOf
  <1>2. b[1] \in Byte
    BY ElementOfSeq
  <1>3. ASSUME NEW i \in 2 .. Len(b) PROVE b[i] \notin {Quote, Backslash} /\ b[i] \in 128 .. 191
    BY <1>1, <1>3, NoMarks DEF Marks, Continuation
  <1> DEFINE Long(i) == b[i] \in Nat /\ b[i] <= 191
  <1>4. \A i \in 2 .. Len(b) : Long(i)
    BY <1>3, LaterByte, Zenon
  <1>5. b[1] \in Nat /\ (b[1] >= 190 => b[1] \notin {Quote, Backslash})
    BY <1>2, FirstByte
  <1>6. CASE Len(b) = 1
    <2>1. c = b[1]
      BY <1>1, <1>6 DEF Scalar
    <2> QED
      BY <1>6, <2>1
  <1>7. CASE Len(b) = 2
    <2>1. (b[1] - 192) * 64 + (b[2] - 128) >= 128
      <3>1. Scalar(b) = (b[1] - 192) * 64 + (b[2] - 128)
        BY <1>7 DEF Scalar, Bits
      <3>2. Scalar(b) >= 128
        BY <1>1, <1>7 DEF Taking, Greatest
      <3> QED
        BY <3>1, <3>2
    <2>2. Long(2)
      <3> HIDE DEF Long
      <3> QED
        BY <1>4, <1>7
    <2>3. b[1] >= 190
      BY <1>5, <2>1, <2>2, SMT
    <2> QED
      BY <1>3, <1>7, <1>5, <2>3
  <1>8. CASE Len(b) = 3
    <2>1. (b[1] - 224) * 4096 + (b[2] - 128) * 64 + (b[3] - 128) >= 2048
      <3>1. Scalar(b) = (b[1] - 224) * 4096 + (b[2] - 128) * 64 + (b[3] - 128)
        BY <1>8 DEF Scalar, Bits
      <3>2. Scalar(b) >= 2048
        BY <1>1, <1>8 DEF Taking, Greatest
      <3> QED
        BY <3>1, <3>2
    <2>2. Long(2) /\ Long(3)
      <3> HIDE DEF Long
      <3> QED
        BY <1>4, <1>8
    <2>3. b[1] >= 190
      <3> DEFINE x == b[1]
                 y == b[2]
                 z == b[3]
      <3>1. x \in Nat /\ y \in Nat /\ z \in Nat /\ y <= 191 /\ z <= 191
        BY <1>5, <2>2
      <3>2. (x - 224) * 4096 + (y - 128) * 64 + (z - 128) >= 2048
        BY <2>1
      <3> HIDE DEF x, y, z
      <3>3. x >= 190
        BY <3>1, <3>2, SMT
      <3> QED
        BY <3>3 DEF x
    <2> QED
      BY <1>3, <1>8, <1>5, <2>3
  <1>9. CASE Len(b) = 4
    <2>1. (b[1] - 240) * 262144 + (b[2] - 128) * 4096 + (b[3] - 128) * 64 + (b[4] - 128) >= 65536
      <3>1. Scalar(b) = (b[1] - 240) * 262144 + (b[2] - 128) * 4096 + (b[3] - 128) * 64 + (b[4] - 128)
        BY <1>9 DEF Scalar, Bits
      <3>2. Scalar(b) >= 65536
        BY <1>1, <1>9 DEF Taking, Greatest
      <3> QED
        BY <3>1, <3>2
    <2>2. Long(2) /\ Long(3) /\ Long(4)
      <3> HIDE DEF Long
      <3> QED
        BY <1>4, <1>9
    <2>3. b[1] >= 190
      <3> DEFINE x == b[1]
                 y == b[2]
                 z == b[3]
                 w == b[4]
      <3>1. x \in Nat /\ y \in Nat /\ z \in Nat /\ w \in Nat /\ y <= 191 /\ z <= 191 /\ w <= 191
        BY <1>5, <2>2
      <3>2. (x - 240) * 262144 + (y - 128) * 4096 + (z - 128) * 64 + (w - 128) >= 65536
        BY <2>1
      <3> HIDE DEF x, y, z, w
      <3>3. x >= 190
        BY <3>1, <3>2, SMT
      <3> QED
        BY <3>3 DEF x
    <2> QED
      BY <1>3, <1>9, <1>5, <2>3
  <1> QED
    BY <1>6, <1>7, <1>8, <1>9

LEMMA FirstTwo ==
  ASSUME NEW s \in Seq(Byte), 2 <= Len(s)
  PROVE  SubSeq(s, 1, 2) = <<s[1], s[2]>> /\ s[1] \in Byte /\ s[2] \in Byte
  <1> DEFINE b == SubSeq(s, 1, 2)
  <1>1. Len(s) \in Nat /\ 2 \in 0 .. Len(s) /\ s[1] \in Byte /\ s[2] \in Byte
    BY LenProperties, ElementOfSeq
  <1>2. b \in Seq(Byte) /\ Len(b) = 2 /\ \A i \in 1 .. 2 : b[i] = s[i]
    BY <1>1, CutInTwo
  <1> HIDE DEF b
  <1>3. b = <<s[1], s[2]>>
    BY <1>1, <1>2, SeqEqual
  <1> QED
    BY <1>1, <1>3 DEF b

LEMMA NumberedIsQuiet ==
  ASSUME NEW s \in Seq(Byte), IsUnicodeEscape(s), FourHexOf(SubSeq(s, 3, 6)) # {}
  PROVE  SubSeq(s, 1, 6) \in Seq(Byte) /\ Quiet(SubSeq(s, 1, 6), "string")
  <1> DEFINE a == <<Backslash, LowerU>>
             h == SubSeq(s, 3, 6)
             t == SubSeq(s, 1, 6)
  <1>1. Len(s) \in Nat /\ Len(s) >= 6 /\ s[1] = Backslash /\ s[2] = LowerU
    BY LenProperties DEF IsUnicodeEscape
  <1>2. h \in Seq(Byte) /\ Len(h) = 4 /\ \A i \in 1 .. 4 : h[i] = s[i + 2]
    <2>1. /\ h \in Seq(Byte) /\ Len(h) = (IF 3 <= 6 THEN 6 - 3 + 1 ELSE 0)
          /\ \A i \in 1 .. 6 - 3 + 1 : h[i] = s[3 + i - 1]
      BY <1>1, PieceOf
    <2> QED
      BY <2>1
  <1>3. \A i \in 1 .. 4 : h[i] \in Hex
    BY DEF FourHexOf
  <1>4. t \in Seq(Byte) /\ Len(t) = 6 /\ \A i \in 1 .. 6 : t[i] = s[i]
    <2>1. /\ t \in Seq(Byte) /\ Len(t) = (IF 1 <= 6 THEN 6 - 1 + 1 ELSE 0)
          /\ \A i \in 1 .. 6 - 1 + 1 : t[i] = s[1 + i - 1]
      BY <1>1, PieceOf
    <2> QED
      BY <2>1
  <1> HIDE DEF h, t
  <1>5. LowerU \in Byte
    BY DEF LowerU, Byte
  <1>6. a \in Seq(Byte) /\ Quiet(a, "string")
    BY <1>5, EscapedIsQuiet
  <1>7. Quiet(h, "string")
    BY <1>2, <1>3, NoMarks, QuietText DEF Marks
  <1>8. t = a \o h
    <2>1. 1 \in 1 .. Len(s) + 1 /\ 2 \in 1 - 1 .. Len(s) /\ 6 \in 2 .. Len(s)
      BY <1>1
    <2>2. SubSeq(s, 1, 2) \o SubSeq(s, 2 + 1, 6) = SubSeq(s, 1, 6)
      BY <2>1, ConcatAdjacentSubSeq
    <2>3. 2 + 1 = 3 /\ SubSeq(s, 1, 2) = a
      BY <1>1, FirstTwo
    <2> QED
      BY <2>2, <2>3 DEF h, t
  <1>9. Quiet(t, "string")
    BY <1>2, <1>6, <1>7, <1>8, QuietAfterQuiet
  <1> QED
    BY <1>4, <1>9 DEF t

LEMMA CharacterIsQuiet ==
  ASSUME NEW s \in Seq(Byte), NEW first \in CharactersAt(s)
  PROVE  Quiet(SubSeq(s, 1, first[1]), "string")
  <1>1. CASE first \in AsItIs(s)
    <2>1. PICK n \in 1 .. 4 : n <= Len(s) /\ \E c \in CharacterOf(SubSeq(s, 1, n)) :
             first = <<n, c>> /\ c \notin {Quote, Backslash}
      BY <1>1 DEF AsItIs
    <2>2. PICK c \in CharacterOf(SubSeq(s, 1, n)) : first = <<n, c>> /\ c \notin {Quote, Backslash}
      BY <2>1
    <2> DEFINE b == SubSeq(s, 1, n)
    <2>3. b \in Seq(Byte) /\ Len(b) = n
      BY <2>1, CutInTwo, LenProperties
    <2>4. c \in CharacterOf(b) /\ first[1] = n
      BY <2>2
    <2> HIDE DEF b
    <2>5. \A i \in 1 .. Len(b) : b[i] \notin {Quote, Backslash}
      BY <2>2, <2>3, <2>4, CharacterBytes
    <2>6. Quiet(b, "string")
      BY <2>3, <2>5, QuietText
    <2> QED
      BY <2>4, <2>6 DEF b
  <1>2. CASE first \in ByEscape(s)
    <2>1. Len(s) \in Nat /\ Len(s) >= 2 /\ s[1] = Backslash /\ first[1] = 2
      BY <1>2, LenProperties DEF ByEscape
    <2>2. s[2] \in Byte
      BY <2>1, ElementOfSeq
    <2> DEFINE b == SubSeq(s, 1, 2)
    <2>3. b = <<Backslash, s[2]>>
      BY <2>1, FirstTwo
    <2> HIDE DEF b
    <2>4. Quiet(b, "string")
      BY <2>2, <2>3, EscapedIsQuiet
    <2> QED
      BY <2>1, <2>4 DEF b
  <1>3. CASE first \in ByNumber(s)
    <2>1. IsUnicodeEscape(s) /\ FourHexOf(SubSeq(s, 3, 6)) # {} /\ first[1] = 6
      BY <1>3 DEF ByNumber
    <2> QED
      BY <2>1, NumberedIsQuiet
  <1>4. CASE first \in ByTwoNumbers(s)
    <2> DEFINE r == SubSeq(s, 7, 12)
               b == SubSeq(s, 1, 6)
               t == SubSeq(s, 1, 12)
               x == SubSeq(r, 3, 6)
               y == SubSeq(s, 9, 12)
    <2>1. /\ IsUnicodeEscape(s) /\ Len(s) >= 12 /\ IsUnicodeEscape(r) /\ Len(s) \in Nat
          /\ FourHexOf(SubSeq(s, 3, 6)) # {} /\ FourHexOf(y) # {} /\ first[1] = 12
      BY <1>4, LenProperties DEF ByTwoNumbers
    <2>2. b \in Seq(Byte) /\ Quiet(b, "string")
      BY <2>1, NumberedIsQuiet
    <2>3. r \in Seq(Byte) /\ Len(r) = 6 /\ \A i \in 1 .. 6 : r[i] = s[i + 6]
      <3>1. /\ r \in Seq(Byte) /\ Len(r) = (IF 7 <= 12 THEN 12 - 7 + 1 ELSE 0)
            /\ \A i \in 1 .. 12 - 7 + 1 : r[i] = s[7 + i - 1]
        BY <2>1, PieceOf
      <3> QED
        BY <3>1
    <2>4. x = y
      <3>1. /\ y \in Seq(Byte) /\ Len(y) = (IF 9 <= 12 THEN 12 - 9 + 1 ELSE 0)
            /\ \A i \in 1 .. 12 - 9 + 1 : y[i] = s[9 + i - 1]
        BY <2>1, PieceOf
      <3> HIDE DEF r, y
      <3>2. /\ x \in Seq(Byte) /\ Len(x) = (IF 3 <= 6 THEN 6 - 3 + 1 ELSE 0)
            /\ \A i \in 1 .. 6 - 3 + 1 : x[i] = r[3 + i - 1]
        <4>1. 3 \in Int /\ 6 \in Int /\ 1 <= 3 /\ 6 <= Len(r) /\ r \in Seq(Byte)
          BY <2>3
        <4> QED
          BY <4>1, PieceOf
      <3> HIDE DEF x
      <3>3. Len(x) = 4 /\ Len(y) = 4
        BY <3>1, <3>2
      <3>4. ASSUME NEW i \in 1 .. 4 PROVE x[i] = y[i]
        <4>1. i \in 1 .. 6 - 3 + 1 /\ i \in 1 .. 12 - 9 + 1 /\ 3 + i - 1 \in 1 .. 6
          OBVIOUS
        <4>2. x[i] = s[(3 + i - 1) + 6] /\ y[i] = s[9 + i - 1]
          BY <2>3, <3>1, <3>2, <4>1
        <4>3. (3 + i - 1) + 6 = 9 + i - 1
          OBVIOUS
        <4> QED
          BY <4>2, <4>3
      <3> QED
        BY <3>1, <3>2, <3>3, <3>4, SeqEqual
    <2>5. SubSeq(r, 1, 6) = r
      <3> HIDE DEF r
      <3> QED
        BY <2>3, SubSeqFull
    <2>6. Quiet(r, "string")
      <3> HIDE DEF r, y
      <3> QED
        BY <2>1, <2>3, <2>4, <2>5, NumberedIsQuiet
    <2>7. t = b \o r
      <3>1. 1 \in 1 .. Len(s) + 1 /\ 6 \in 1 - 1 .. Len(s) /\ 12 \in 6 .. Len(s)
        BY <2>1
      <3>2. SubSeq(s, 1, 6) \o SubSeq(s, 6 + 1, 12) = SubSeq(s, 1, 12)
        BY <3>1, ConcatAdjacentSubSeq
      <3>3. 6 + 1 = 7
        OBVIOUS
      <3> QED
        BY <3>2, <3>3
    <2> HIDE DEF b, r, t
    <2>8. Quiet(t, "string")
      BY <2>2, <2>3, <2>6, <2>7, QuietAfterQuiet
    <2> QED
      BY <2>1, <2>8 DEF t
  <1> QED
    BY <1>1, <1>2, <1>3, <1>4 DEF CharactersAt

NumberBytes == Digit \union Exponent \union {Dot, Plus, Minus}
InNumbers(s) == s \in Seq(Byte) /\ \A i \in 1 .. Len(s) : s[i] \in NumberBytes

LEMMA DigitsInNumbers ==
  ASSUME NEW s \in Seq(Byte), AllDigits(s)
  PROVE  InNumbers(s)
  BY LenProperties DEF AllDigits, InNumbers, NumberBytes

LEMMA TailInNumbers ==
  ASSUME NEW s \in Seq(Byte), s # <<>>, s[1] \in NumberBytes, InNumbers(Tail(s))
  PROVE  InNumbers(s)
  <1>1. /\ Tail(s) \in Seq(Byte) /\ Len(Tail(s)) = Len(s) - 1 /\ Len(s) \in Nat
        /\ \A i \in 1 .. Len(Tail(s)) : Tail(s)[i] = s[i + 1]
    BY HeadTailProperties, LenProperties
  <1>2. ASSUME NEW i \in 1 .. Len(s) PROVE s[i] \in NumberBytes
    <2>1. CASE i = 1
      BY <2>1
    <2>2. CASE i # 1
      <3>1. i - 1 \in 1 .. Len(Tail(s)) /\ (i - 1) + 1 = i
        BY <1>1, <2>2
      <3>2. Tail(s)[i - 1] \in NumberBytes
        BY <3>1 DEF InNumbers
      <3> QED
        BY <1>1, <3>1, <3>2
    <2> QED
      BY <2>1, <2>2
  <1> QED
    BY <1>2 DEF InNumbers

LEMMA NumberParts ==
  ASSUME NEW s \in Seq(Byte)
  PROVE  /\ IsInt(s) => InNumbers(s)
         /\ IsFrac(s) => InNumbers(s)
         /\ IsExp(s) => InNumbers(s)
  <1>1. s = <<>> => InNumbers(s)
    BY DEF InNumbers
  <1>2. ASSUME s # <<>>, s[1] \in NumberBytes, AllDigits(Tail(s)) PROVE InNumbers(s)
    BY <1>2, DigitsInNumbers, TailInNumbers, HeadTailProperties
  <1>3. ASSUME s # <<>>, s[1] \in NumberBytes, Len(s) > 1, s[2] \in {Plus, Minus}, AllDigits(Tail(Tail(s)))
        PROVE  InNumbers(s)
    <2> DEFINE t == Tail(s)
    <2>1. t \in Seq(Byte) /\ Len(t) = Len(s) - 1 /\ Len(s) \in Nat /\ \A i \in 1 .. Len(t) : t[i] = s[i + 1]
      BY <1>3, HeadTailProperties, LenProperties
    <2> HIDE DEF t
    <2>2. t # <<>> /\ t[1] = s[2]
      <3>1. 1 \in 1 .. Len(t) /\ 1 + 1 = 2
        BY <1>3, <2>1
      <3>2. t[1] = s[2]
        BY <2>1, <3>1
      <3>3. t # <<>>
        BY <3>1
      <3> QED
        BY <3>2, <3>3
    <2>3. Tail(t) \in Seq(Byte) /\ AllDigits(Tail(t))
      BY <1>3, <2>1, <2>2, HeadTailProperties DEF t
    <2>4. t[1] \in NumberBytes
      BY <1>3, <2>2 DEF NumberBytes
    <2>5. InNumbers(t)
      BY <2>1, <2>2, <2>3, <2>4, DigitsInNumbers, TailInNumbers
    <2> QED
      BY <1>3, <2>5, TailInNumbers DEF t
  <1>4. IsInt(s) => InNumbers(s)
    BY DigitsInNumbers DEF IsInt
  <1>5. IsFrac(s) => InNumbers(s)
    <2>1. s # <<>> /\ s[1] = Dot => s[1] \in NumberBytes
      BY DEF NumberBytes
    <2> QED
      BY <1>1, <1>2, <2>1 DEF IsFrac
  <1>6. IsExp(s) => InNumbers(s)
    <2>1. s[1] \in Exponent => s[1] \in NumberBytes
      BY DEF NumberBytes
    <2> QED
      BY <1>1, <1>2, <1>3, <2>1 DEF IsExp
  <1> QED
    BY <1>4, <1>5, <1>6

LEMMA NumbersAreQuiet ==
  ASSUME NEW s \in Seq(Byte), s # <<>>, NEW m \in Numbers(s)
  PROVE  m[1] \in {"whole", "real"} /\ Quiet(s, "none")
  <1> DEFINE u == Unsigned(s)
  <1>1. u \in Seq(Byte)
    BY HeadTailProperties DEF Unsigned
  <1>2. ASSUME InNumbers(u) PROVE InNumbers(s)
    <2>1. CASE s[1] = Minus
      <3>1. u = Tail(s) /\ s[1] \in NumberBytes
        BY <2>1 DEF Unsigned, NumberBytes
      <3> QED
        BY <1>2, <3>1, TailInNumbers
    <2>2. CASE s[1] # Minus
      BY <1>2, <2>2 DEF Unsigned
    <2> QED
      BY <2>1, <2>2
  <1>3. m[1] \in {"whole", "real"}
    BY DEF Numbers
  <1>4. InNumbers(u)
    <2>1. CASE IsInt(u)
      BY <1>1, <2>1, NumberParts
    <2>2. CASE ~IsInt(u)
      <3>1. PICK i \in 1 .. Len(u), k \in 1 .. Len(u) :
               /\ i <= k /\ IsInt(SubSeq(u, 1, i))
               /\ IsFrac(SubSeq(u, i + 1, k)) /\ IsExp(SubSeq(u, k + 1, Len(u)))
        BY <2>2 DEF Numbers
      <3> HIDE DEF u
      <3>2. Len(u) \in Nat
        BY <1>1, LenProperties
      <3> DEFINE a == SubSeq(u, 1, i)
                 b == SubSeq(u, i + 1, k)
                 c == SubSeq(u, k + 1, Len(u))
      <3>3. a \in Seq(Byte) /\ Len(a) = i /\ \A j \in 1 .. i : a[j] = u[j]
        <4>1. i \in 0 .. Len(u)
          BY <3>2
        <4> QED
          BY <1>1, <4>1, CutInTwo
      <3>4. c \in Seq(Byte) /\ Len(c) = Len(u) - k /\ \A j \in 1 .. Len(u) - k : c[j] = u[k + j]
        <4>1. k \in 0 .. Len(u)
          BY <3>2
        <4> QED
          BY <1>1, <4>1, CutInTwo
      <3>5. b \in Seq(Byte) /\ Len(b) = k - i /\ \A j \in 1 .. k - i : b[j] = u[i + j]
        <4>1. i + 1 \in Int /\ k \in Int /\ 1 <= i + 1 /\ k <= Len(u)
          BY <3>2
        <4>2. /\ b \in Seq(Byte) /\ Len(b) = (IF i + 1 <= k THEN k - (i + 1) + 1 ELSE 0)
              /\ \A j \in 1 .. k - (i + 1) + 1 : b[j] = u[(i + 1) + j - 1]
          BY <1>1, <4>1, PieceOf
        <4> HIDE DEF b
        <4>3. Len(b) = k - i /\ k - (i + 1) + 1 = k - i
          BY <3>1, <4>2
        <4>4. \A j \in 1 .. k - i : (i + 1) + j - 1 = i + j
          OBVIOUS
        <4> QED
          BY <4>2, <4>3, <4>4
      <3>6. InNumbers(a) /\ InNumbers(b) /\ InNumbers(c)
        <4> HIDE DEF a, b, c
        <4> QED
          BY <3>1, <3>3, <3>4, <3>5, NumberParts DEF a, b, c
      <3> HIDE DEF a, b, c
      <3>7. ASSUME NEW j \in 1 .. Len(u) PROVE u[j] \in NumberBytes
        <4>1. CASE j <= i
          <5>1. j \in 1 .. i
            BY <4>1
          <5> QED
            BY <3>3, <3>6, <5>1 DEF InNumbers
        <4>2. CASE i < j /\ j <= k
          <5>1. j - i \in 1 .. k - i /\ i + (j - i) = j
            BY <4>2
          <5> QED
            BY <3>5, <3>6, <5>1 DEF InNumbers
        <4>3. CASE k < j
          <5>1. j - k \in 1 .. Len(u) - k /\ k + (j - k) = j
            BY <3>2, <4>3
          <5> QED
            BY <3>4, <3>6, <5>1 DEF InNumbers
        <4> QED
          BY <4>1, <4>2, <4>3
      <3> QED
        BY <1>1, <3>7 DEF InNumbers
    <2> QED
      BY <2>1, <2>2
  <1>5. \A i \in 1 .. Len(s) : s[i] \notin Marks
    BY <1>2, <1>4, NoMarks DEF InNumbers, NumberBytes
  <1> QED
    BY <1>3, <1>5, QuietText
-----------------------------------------------------------------------------
(* A text that denotes something closes what it opens.                      *)
LEMMA BlanksAround ==
  ASSUME NEW s \in Seq(Byte), Even(Trim(s))
  PROVE  Even(s)
  <1> DEFINE t == Trim(s)
  <1>1. t \in Seq(Byte) /\ Even(t)
    BY Trimmed
  <1>2. PICK a, b : IsBlank(a) /\ IsBlank(b) /\ s = (a \o t) \o b
    BY Trimmed
  <1> HIDE DEF t
  <1>3. a \in Seq(Byte) /\ b \in Seq(Byte) /\ Even(a) /\ Even(b)
    BY <1>2, BlankIsQuiet, QuietIsEven
  <1>4. a \o t \in Seq(Byte) /\ Even(a \o t)
    BY <1>1, <1>3, EvenAfterEven
  <1> QED
    BY <1>2, <1>3, <1>4, EvenAfterEven

LEMMA QuietBlanksAround ==
  ASSUME NEW s \in Seq(Byte), Quiet(Trim(s), "none")
  PROVE  Quiet(s, "none")
  <1> DEFINE t == Trim(s)
  <1>1. t \in Seq(Byte) /\ Quiet(t, "none")
    BY Trimmed
  <1>2. PICK a, b : IsBlank(a) /\ IsBlank(b) /\ s = (a \o t) \o b
    BY Trimmed
  <1> HIDE DEF t
  <1>3. a \in Seq(Byte) /\ b \in Seq(Byte) /\ Quiet(a, "none") /\ Quiet(b, "none")
    BY <1>2, BlankIsQuiet
  <1>4. a \o t \in Seq(Byte) /\ Quiet(a \o t, "none")
    BY <1>1, <1>3, QuietAfterQuiet
  <1> QED
    BY <1>2, <1>3, <1>4, QuietAfterQuiet

LEMMA ContainerShuts ==
  ASSUME NEW s \in Seq(Byte), NEW open \in Openings, NEW close \in Closings,
         IsBetween(s, open, close), Even(Inside(s))
  PROVE  /\ Even(s)
         /\ \A t \in Seq(Byte) : Frame[t].quoting = "none" => Frame[t \o s].opened
  <1> DEFINE m == SubSeq(s, 2, Len(s) - 1)
  <1>1. m \in Seq(Byte) /\ s = (<<open>> \o m) \o <<close>>
    BY BetweenTwo
  <1> HIDE DEF m
  <1>2. Even(m)
    BY <1>1, BlanksAround DEF m, Inside
  <1> QED
    BY <1>1, <1>2, BracketedIsEven

Balanced(part, s) == IF part = "characters" THEN Quiet(s, "string") ELSE Even(s)
BalancedBelow(n) ==
  \A p \in Parts : Rank(p) < n /\ Denoted[p] # {} => Balanced(p[1], p[2])

LEMMA BalancedShorter ==
  ASSUME NEW n \in Nat, BalancedBelow(n), NEW s \in Seq(Byte), NEW t \in Seq(Byte),
         Len(t) < Len(s), 2 * Len(s) <= n
  PROVE  /\ Denoted[<<"value", t>>] # {} => Even(t)
         /\ Denoted[<<"elements", t>>] # {} => Even(t)
         /\ Denoted[<<"members", t>>] # {} => Even(t)
         /\ Denoted[<<"characters", t>>] # {} => Quiet(t, "string")
  <1>1. Len(t) \in Nat /\ Len(s) \in Nat
    BY LenProperties
  <1>2. ASSUME NEW part \in Nonterminals, Denoted[<<part, t>>] # {} PROVE Balanced(part, t)
    <2>1. <<part, t>> \in Parts /\ Rank(<<part, t>>) <= 2 * Len(t) + 1 /\ Rank(<<part, t>>) \in Nat
      BY <1>1 DEF Parts, Rank
    <2>2. Rank(<<part, t>>) < n
      BY <1>1, <2>1
    <2>3. <<part, t>>[1] = part /\ <<part, t>>[2] = t
      OBVIOUS
    <2> QED
      BY <1>2, <2>1, <2>2, <2>3 DEF BalancedBelow
  <1> QED
    BY <1>2 DEF Nonterminals, Balanced

LEMMA CharactersBalanced ==
  ASSUME NEW s \in Seq(Byte), NEW n \in Nat, BalancedBelow(n), 2 * Len(s) <= n,
         CharactersBy(Denoted, s) # {}
  PROVE  Quiet(s, "string")
  <1>1. CASE s = <<>>
    BY <1>1, NothingIsQuiet
  <1>2. CASE s # <<>>
    <2>1. PICK first \in CharactersAt(s) : Denoted[<<"characters", SubSeq(s, first[1] + 1, Len(s))>>] # {}
      BY <1>2 DEF CharactersBy
    <2> DEFINE k == first[1]
               a == SubSeq(s, 1, k)
               b == SubSeq(s, k + 1, Len(s))
    <2>2. k \in 0 .. Len(s) /\ k >= 1 /\ Len(s) \in Nat
      BY CharacterLength, LenProperties
    <2>3. Quiet(a, "string")
      BY CharacterIsQuiet
    <2> HIDE DEF k
    <2>4. a \in Seq(Byte) /\ b \in Seq(Byte) /\ s = a \o b /\ Len(b) < Len(s)
      BY <2>2, CutInTwo
    <2>5. Denoted[<<"characters", b>>] # {}
      BY <2>1 DEF k
    <2> HIDE DEF a, b
    <2>6. Quiet(b, "string")
      BY <2>4, <2>5, BalancedShorter, Zenon
    <2> QED
      BY <2>3, <2>4, <2>6, QuietAfterQuiet
  <1> QED
    BY <1>1, <1>2

LEMMA StringsBalanced ==
  ASSUME NEW s \in Seq(Byte), NEW n \in Nat, BalancedBelow(n), 2 * Len(s) <= n,
         StringsBy(Denoted, s) # {}
  PROVE  Quiet(s, "none")
  <1> DEFINE m == SubSeq(s, 2, Len(s) - 1)
  <1>1. IsBetween(s, Quote, Quote) /\ Denoted[<<"characters", m>>] # {}
    BY DEF StringsBy
  <1>2. m \in Seq(Byte) /\ Len(m) = Len(s) - 2 /\ Len(s) \in Nat /\ s = (<<Quote>> \o m) \o <<Quote>>
    BY <1>1, BetweenTwo
  <1> HIDE DEF m
  <1>3. Len(m) < Len(s)
    BY <1>2
  <1>4. Quiet(m, "string")
    BY <1>1, <1>2, <1>3, BalancedShorter, Zenon
  <1> QED
    BY <1>2, <1>4, QuotedIsQuiet

LEMMA CutIsEven ==
  ASSUME NEW s \in Seq(Byte), NEW c \in {Comma, Colon}, NEW cut \in Cuts(s, c),
         Even(cut[1]), Even(cut[2])
  PROVE  Even(s)
  <1> DEFINE a == cut[1]
             b == cut[2]
  <1>1. a \in Seq(Byte) /\ b \in Seq(Byte) /\ s = (a \o <<c>>) \o b /\ Even(a) /\ Even(b)
    BY CutAtAByte
  <1> HIDE DEF a, b
  <1>2. c \in Byte /\ c \notin Marks /\ <<c>> \in Seq(Byte)
    BY DEF Comma, Colon, Byte, Marks, Openings, Closings, Quote, Backslash,
           LeftBracket, RightBracket, LeftBrace, RightBrace
  <1>3. Even(<<c>>)
    BY <1>2, QuietByte, QuietIsEven
  <1>4. a \o <<c>> \in Seq(Byte) /\ Even(a \o <<c>>)
    BY <1>1, <1>2, <1>3, EvenAfterEven
  <1> QED
    BY <1>1, <1>4, EvenAfterEven

LEMMA ElementsBalanced ==
  ASSUME NEW s \in Seq(Byte), BalancedBelow(2 * Len(s) + 1), ElementsBy(Denoted, s) # {}
  PROVE  Even(s)
  <1>1. 2 * Len(s) + 1 \in Nat /\ 2 * Len(s) <= 2 * Len(s) + 1
    BY LenProperties
  <1>2. CASE Denoted[<<"value", s>>] # {}
    <2>1. <<"value", s>> \in Parts /\ Rank(<<"value", s>>) < 2 * Len(s) + 1
      BY LenProperties DEF Parts, Rank, Nonterminals
    <2>2. <<"value", s>>[1] = "value" /\ <<"value", s>>[2] = s
      OBVIOUS
    <2> QED
      BY <1>2, <2>1, <2>2 DEF BalancedBelow, Balanced
  <1>3. CASE \E cut \in Cuts(s, Comma) : Denoted[<<"value", cut[1]>>] # {} /\ Denoted[<<"elements", cut[2]>>] # {}
    <2>1. PICK cut \in Cuts(s, Comma) :
             Denoted[<<"value", cut[1]>>] # {} /\ Denoted[<<"elements", cut[2]>>] # {}
      BY <1>3
    <2> DEFINE a == cut[1]
               b == cut[2]
    <2>2. a \in Seq(Byte) /\ Len(a) < Len(s) /\ Denoted[<<"value", a>>] # {}
      BY <2>1, CutAtAByte
    <2>3. b \in Seq(Byte) /\ Len(b) < Len(s) /\ Denoted[<<"elements", b>>] # {}
      BY <2>1, CutAtAByte
    <2> HIDE DEF a, b
    <2>4. Even(a)
      BY <1>1, <2>2, BalancedShorter, Zenon
    <2>5. Even(b)
      BY <1>1, <2>3, BalancedShorter, Zenon
    <2> QED
      BY <2>4, <2>5, CutIsEven DEF a, b
  <1>4. \A values, rests : Prefixing(values, rests) # {} => values # {} /\ rests # {}
    BY DEF Prefixing
  <1>5. \/ Denoted[<<"value", s>>] # {}
        \/ \E cut \in Cuts(s, Comma) :
             Prefixing(Denoted[<<"value", cut[1]>>], Denoted[<<"elements", cut[2]>>]) # {}
    BY Zenon DEF ElementsBy
  <1> QED
    BY <1>2, <1>3, <1>4, <1>5, Zenon

LEMMA MemberBalanced ==
  ASSUME NEW s \in Seq(Byte), NEW n \in Nat, BalancedBelow(n), 2 * Len(s) <= n,
         MemberBy(Denoted, s) # {}
  PROVE  Even(s)
  <1>1. PICK cut \in Cuts(s, Colon) :
           StringsBy(Denoted, Trim(cut[1])) # {} /\ Denoted[<<"value", cut[2]>>] # {}
    BY DEF MemberBy
  <1> DEFINE a == cut[1]
             b == cut[2]
  <1>2. a \in Seq(Byte) /\ Len(a) < Len(s) /\ StringsBy(Denoted, Trim(a)) # {}
    BY <1>1, CutAtAByte
  <1>3. b \in Seq(Byte) /\ Len(b) < Len(s) /\ Denoted[<<"value", b>>] # {}
    BY <1>1, CutAtAByte
  <1> HIDE DEF a, b
  <1>4. Even(b)
    BY <1>3, BalancedShorter, Zenon
  <1>5. Trim(a) \in Seq(Byte) /\ Len(Trim(a)) <= Len(a)
    BY <1>2, Trimmed
  <1>6. Len(a) \in Nat /\ Len(s) \in Nat /\ Len(Trim(a)) \in Nat
    BY <1>2, <1>5, LenProperties
  <1>7. 2 * Len(Trim(a)) <= n
    BY <1>2, <1>5, <1>6
  <1>8. Quiet(Trim(a), "none")
    BY <1>2, <1>5, <1>7, StringsBalanced
  <1>9. Even(a)
    BY <1>2, <1>8, QuietBlanksAround, QuietIsEven
  <1> QED
    BY <1>4, <1>9, CutIsEven DEF a, b

LEMMA MembersBalanced ==
  ASSUME NEW s \in Seq(Byte), NEW n \in Nat, BalancedBelow(n), 2 * Len(s) <= n,
         MembersBy(Denoted, s) # {}
  PROVE  Even(s)
  <1>1. CASE MemberBy(Denoted, s) # {}
    BY <1>1, MemberBalanced
  <1>2. CASE \E cut \in Cuts(s, Comma) : MemberBy(Denoted, cut[1]) # {} /\ Denoted[<<"members", cut[2]>>] # {}
    <2>1. PICK cut \in Cuts(s, Comma) :
             MemberBy(Denoted, cut[1]) # {} /\ Denoted[<<"members", cut[2]>>] # {}
      BY <1>2
    <2> DEFINE a == cut[1]
               b == cut[2]
    <2>2. a \in Seq(Byte) /\ Len(a) < Len(s) /\ MemberBy(Denoted, a) # {}
      BY <2>1, CutAtAByte
    <2>3. b \in Seq(Byte) /\ Len(b) < Len(s) /\ Denoted[<<"members", b>>] # {}
      BY <2>1, CutAtAByte
    <2> HIDE DEF a, b
    <2>4. Len(a) \in Nat /\ Len(s) \in Nat
      BY <2>2, LenProperties
    <2>5. 2 * Len(a) <= n
      BY <2>2, <2>4
    <2>6. Even(a)
      BY <2>2, <2>5, MemberBalanced
    <2>7. Even(b)
      BY <2>3, BalancedShorter, Zenon
    <2> QED
      BY <2>6, <2>7, CutIsEven DEF a, b
  <1>3. \A members, rests : Overriding(members, rests) # {} => members # {} /\ rests # {}
    BY DEF Overriding
  <1>4. \/ MemberBy(Denoted, s) # {}
        \/ \E cut \in Cuts(s, Comma) :
             Overriding(MemberBy(Denoted, cut[1]), Denoted[<<"members", cut[2]>>]) # {}
    BY Zenon DEF MembersBy
  <1> QED
    BY <1>1, <1>2, <1>3, <1>4, Zenon

LEMMA ValueKinds ==
  ASSUME NEW f, NEW s, NEW v \in ValueBy(f, s)
  PROVE  \/ s \in Literals
         \/ s # <<>> /\ s[1] \in Digit \union {Minus} /\ v \in Numbers(s)
         \/ s # <<>> /\ s[1] = Quote /\ StringsBy(f, s) # {}
         \/ /\ IsBetween(s, LeftBracket, RightBracket)
            /\ Inside(s) = <<>> \/ f[<<"elements", Inside(s)>>] # {}
         \/ /\ IsBetween(s, LeftBrace, RightBrace)
            /\ Inside(s) = <<>> \/ f[<<"members", Inside(s)>>] # {}
  <1>1. CASE s \in Literals
    BY <1>1
  <1>2. CASE s \notin Literals
    <2>1. s # True /\ s # False /\ s # Null
      BY <1>2 DEF Literals
    <2> QED
      BY <2>1, SMT DEF ValueBy, OfType
  <1> QED
    BY <1>1, <1>2

LEMMA LiteralIsQuiet ==
  ASSUME NEW s \in Literals
  PROVE  s \in Seq(Byte) /\ Quiet(s, "none")
  <1>1. s \in Seq(Byte)
    <2>1. True \in Seq(Byte)
      BY DEF True, Byte
    <2>2. False \in Seq(Byte)
      BY DEF False, Byte
    <2>3. Null \in Seq(Byte)
      BY DEF Null, Byte
    <2> QED
      BY <2>1, <2>2, <2>3 DEF Literals
  <1>2. \A i \in 1 .. Len(s) : s[i] \in Lowercase
    BY LiteralsAreLowercase
  <1> QED
    BY <1>1, <1>2, NoMarks, QuietText

LEMMA ValueBalanced ==
  ASSUME NEW s \in Seq(Byte), NEW n \in Nat, BalancedBelow(n), 2 * Len(s) <= n,
         ValueBy(Denoted, s) # {}
  PROVE  Even(s)
  <1>1. PICK v : v \in ValueBy(Denoted, s)
    OBVIOUS
  <1>2. CASE s \in Literals
    BY <1>2, LiteralIsQuiet, QuietIsEven
  <1>3. CASE s # <<>> /\ v \in Numbers(s)
    BY <1>3, NumbersAreQuiet, QuietIsEven
  <1>4. CASE StringsBy(Denoted, s) # {}
    BY <1>4, StringsBalanced, QuietIsEven
  <1>5. ASSUME NEW part \in {"elements", "members"}, NEW open \in Openings, NEW close \in Closings,
               IsBetween(s, open, close), Inside(s) = <<>> \/ Denoted[<<part, Inside(s)>>] # {}
        PROVE  Even(s)
    <2> DEFINE m == Inside(s)
    <2>1. m \in Seq(Byte) /\ Len(m) < Len(s)
      BY <1>5, InsideIsShorter
    <2>2. m = <<>> \/ Denoted[<<part, m>>] # {}
      BY <1>5
    <2> HIDE DEF m
    <2>3. Even(m)
      <3>1. CASE m = <<>>
        BY <3>1, NothingIsQuiet, QuietIsEven
      <3>2. CASE Denoted[<<part, m>>] # {}
        BY <2>1, <3>2, BalancedShorter, Zenon
      <3> QED
        BY <2>2, <3>1, <3>2
    <2> QED
      BY <1>5, <2>3, ContainerShuts DEF m
  <1>6. LeftBracket \in Openings /\ LeftBrace \in Openings /\ RightBracket \in Closings /\ RightBrace \in Closings
    BY DEF Openings, Closings
  <1> QED
    BY <1>1, <1>2, <1>3, <1>4, <1>5, <1>6, ValueKinds

LEMMA WhatIsDenotedIsBalanced ==
  ASSUME NEW p \in Parts, Denoted[p] # {}, BalancedBelow(Rank(p))
  PROVE  Balanced(p[1], p[2])
  <1> DEFINE part == p[1]
             s == p[2]
  <1>1. part \in Nonterminals /\ s \in Seq(Byte) /\ p = <<part, s>> /\ Len(s) \in Nat
    BY LenProperties DEF Parts
  <1>2. DenotedBy(Denoted, part, s) # {}
    BY DenotedUnfolds
  <1> HIDE DEF part, s
  <1>3. CASE part = "value"
    <2>1. Rank(p) = 2 * Len(s) /\ Rank(p) \in Nat
      BY <1>1, <1>3 DEF Rank
    <2>2. Trim(s) \in Seq(Byte) /\ 2 * Len(Trim(s)) <= Rank(p)
      <3>1. Trim(s) \in Seq(Byte) /\ Len(Trim(s)) <= Len(s)
        BY <1>1, Trimmed
      <3>2. Len(Trim(s)) \in Nat
        BY <3>1, LenProperties
      <3> QED
        BY <1>1, <2>1, <3>1, <3>2
    <2>3. ValueBy(Denoted, Trim(s)) # {}
      BY <1>2, <1>3, Zenon DEF DenotedBy
    <2>4. Even(Trim(s))
      BY <2>1, <2>2, <2>3, ValueBalanced
    <2>5. Even(s)
      BY <1>1, <2>4, BlanksAround
    <2> QED
      BY <1>3, <2>5 DEF Balanced, part, s
  <1>4. CASE part = "elements"
    <2>1. Rank(p) = 2 * Len(s) + 1
      BY <1>1, <1>4 DEF Rank
    <2>2. ElementsBy(Denoted, s) # {}
      BY <1>2, <1>4, Zenon DEF DenotedBy
    <2>3. Even(s)
      BY <1>1, <2>1, <2>2, ElementsBalanced
    <2> QED
      BY <1>4, <2>3 DEF Balanced, part, s
  <1>5. CASE part = "members"
    <2>1. Rank(p) = 2 * Len(s) + 1 /\ Rank(p) \in Nat /\ 2 * Len(s) <= Rank(p)
      BY <1>1, <1>5 DEF Rank
    <2>2. MembersBy(Denoted, s) # {}
      BY <1>2, <1>5, Zenon DEF DenotedBy
    <2>3. Even(s)
      BY <1>1, <2>1, <2>2, MembersBalanced
    <2> QED
      BY <1>5, <2>3 DEF Balanced, part, s
  <1>6. CASE part = "characters"
    <2>1. Rank(p) = 2 * Len(s) /\ Rank(p) \in Nat /\ 2 * Len(s) <= Rank(p)
      BY <1>1, <1>6 DEF Rank
    <2>2. CharactersBy(Denoted, s) # {}
      BY <1>2, <1>6, Zenon DEF DenotedBy
    <2>3. Quiet(s, "string")
      BY <1>1, <2>1, <2>2, CharactersBalanced
    <2> QED
      BY <1>6, <2>3 DEF Balanced, part, s
  <1> QED
    BY <1>1, <1>3, <1>4, <1>5, <1>6 DEF Nonterminals

LEMMA DenotedIsBalanced == \A n \in Nat : BalancedBelow(n)
  <1> DEFINE T == {n \in Nat : ~BalancedBelow(n)}
  <1>1. ASSUME T # {} PROVE FALSE
    <2>1. PICK n \in T : \A k \in T : ~(k < n)
      <3>1. T \subseteq Nat
        OBVIOUS
      <3> HIDE DEF T
      <3> QED
        BY <1>1, <3>1, LeastOf
    <2>2. n \in Nat /\ ~BalancedBelow(n)
      BY <2>1
    <2>3. PICK p \in Parts : Rank(p) < n /\ Denoted[p] # {} /\ ~Balanced(p[1], p[2])
      BY <2>2 DEF BalancedBelow
    <2>4. Rank(p) \in Nat /\ Rank(p) \notin T
      BY <2>1, <2>3, RankIsNat
    <2>5. BalancedBelow(Rank(p))
      BY <2>4
    <2> QED
      BY <2>3, <2>5, WhatIsDenotedIsBalanced
  <1> QED
    BY <1>1
-----------------------------------------------------------------------------
(* What the reader has taken before a container is open: nothing but        *)
(* blanks, or these and the beginning of a number or of a literal, or of a  *)
(* string, which can be told from the frame.                                *)
Beginning(w, r) == IsBlank(w) /\ r \in Seq(Byte) /\ Consumed = w \o r

ANumber(r) == r # <<>> /\ r[1] \in Digit \union {Minus}

ALiteral(literal, r) ==
  /\ Len(due) \in 1 .. Len(literal) - 1
  /\ r = SubSeq(literal, 1, Len(literal) - Len(due))
  /\ \A i \in 1 .. Len(due) : due[i] = {literal[Len(literal) - Len(due) + i]}

StartOK ==
  status = "running" /\ stack = <<>> =>
    /\ scanning = "token" => IsBlank(Consumed)
    /\ scanning \in NumberStates => \E w, r : Beginning(w, r) /\ ANumber(r)
    /\ scanning = "literal" => \E w, r : Beginning(w, r) /\ \E literal \in Literals : ALiteral(literal, r)

LEMMA StillBlank ==
  ASSUME NEW w, IsBlank(w), NEW c \in Byte
  PROVE  /\ Append(w, c) = w \o <<c>> /\ <<c>> \in Seq(Byte)
         /\ c \in Whitespace => IsBlank(Append(w, c))
  <1>1. /\ w \in Seq(Byte) /\ Append(w, c) \in Seq(Byte) /\ Append(w, c) = w \o <<c>> /\ Len(w) \in Nat
        /\ Len(Append(w, c)) = Len(w) + 1 /\ Append(w, c)[Len(w) + 1] = c
        /\ \A i \in 1 .. Len(w) : Append(w, c)[i] = w[i]
    BY AppendProperties, AppendIsConcat, LenProperties DEF IsBlank
  <1>2. ASSUME c \in Whitespace, NEW i \in 1 .. Len(Append(w, c))
        PROVE  Append(w, c)[i] \in Whitespace
    <2>1. CASE i = Len(w) + 1
      BY <1>1, <1>2, <2>1
    <2>2. CASE i \in 1 .. Len(w)
      BY <1>1, <2>2 DEF IsBlank
    <2> QED
      BY <1>1, <1>2, <2>1, <2>2
  <1> QED
    BY <1>1, <1>2 DEF IsBlank

LEMMA OneMoreAfter ==
  ASSUME NEW w \in Seq(Byte), NEW r \in Seq(Byte), NEW c \in Byte
  PROVE  /\ Append(w \o r, c) = w \o Append(r, c) /\ Append(r, c) \in Seq(Byte)
         /\ Append(r, c) # <<>> /\ (r # <<>> => Append(r, c)[1] = r[1])
  <1>1. /\ Append(r, c) \in Seq(Byte) /\ Append(r, c) = r \o <<c>> /\ <<c>> \in Seq(Byte)
        /\ Append(r, c) # <<>> /\ \A i \in 1 .. Len(r) : Append(r, c)[i] = r[i]
    BY AppendProperties, AppendIsConcat
  <1>2. w \o r \in Seq(Byte) /\ Append(w \o r, c) = (w \o r) \o <<c>>
    BY ConcatProperties, AppendIsConcat
  <1>3. (w \o r) \o <<c>> = w \o (r \o <<c>>)
    BY <1>1, ConcatAssociative
  <1>4. r # <<>> => 1 \in 1 .. Len(r)
    BY EmptySeq, LenProperties
  <1> QED
    BY <1>1, <1>2, <1>3, <1>4

LEMMA TokenOpens ==
  ASSUME ParserOK, status = "running", NEW kind \in Kinds, NEW value,
         kind = "value" /\ value[1] = "string" => value[2] \in Seq(Byte),
         Token(kind, value)
  PROVE  status' = "running" => stack' # <<>>
  BY TokenMoves DEF Moves

LEMMA BlankAtStart ==
  ASSUME IInv, StartOK, NEW c \in Arriving, SkipWhitespace(c) PROVE StartOK'
  <1>1. /\ scanning = "token" /\ c \in Whitespace /\ Take(c) /\ scanning' = "token"
        /\ status = "running" /\ stack' = stack
    BY DEF SkipWhitespace, Take, Get, lexer, parser
  <1>2. Consumed' = Append(Consumed, c) /\ c \in Byte
    BY <1>1, ConsumedGoesOn DEF IInv
  <1>3. ASSUME stack = <<>> PROVE IsBlank(Consumed')
    <2>1. IsBlank(Consumed)
      BY <1>1, <1>3 DEF StartOK
    <2> HIDE DEF Consumed
    <2> QED
      BY <1>1, <1>2, <2>1, StillBlank
  <1>4. IsBlank(Consumed)' = IsBlank(Consumed')
    BY DEF IsBlank
  <1> QED
    BY <1>1, <1>3, <1>4 DEF StartOK, NumberStates

LEMMA StructureAtStart ==
  ASSUME IInv, NEW c \in Arriving, StructuralCharacter(c) PROVE StartOK'
  <1>1. c \in DOMAIN Structural /\ status = "running" /\ Token(Structural[c], <<>>)
    BY DEF StructuralCharacter, Take, Get
  <1>2. Structural[c] \in Kinds \ {"value"}
    BY <1>1 DEF Structural, Kinds
  <1>3. status' = "running" => stack' # <<>>
    BY <1>1, <1>2, TokenOpens DEF IInv
  <1> QED
    BY <1>3 DEF StartOK

LEMMA NumberAtStart ==
  ASSUME IInv, StartOK, NEW c \in Arriving, BeginNumber(c) PROVE StartOK'
  <1>1. /\ scanning = "token" /\ c \in Digit \union {Minus} /\ Take(c) /\ scanning' = StartNumber(c)
        /\ status = "running" /\ stack' = stack
    BY DEF BeginNumber, Take, Get, parser
  <1>2. Consumed' = Append(Consumed, c) /\ c \in Byte
    BY <1>1, ConsumedGoesOn DEF IInv
  <1>3. ASSUME stack = <<>> PROVE (\E w, r : Beginning(w, r) /\ ANumber(r))'
    <2>1. IsBlank(Consumed)
      BY <1>1, <1>3 DEF StartOK
    <2>2. Consumed' = Consumed \o <<c>> /\ <<c>> \in Seq(Byte)
      BY <1>2, <2>1, StillBlank
    <2>3. ANumber(<<c>>)
      BY <1>1 DEF ANumber
    <2> QED
      BY <2>1, <2>2, <2>3 DEF Beginning
  <1>4. scanning' \notin {"token", "literal"}
    BY <1>1 DEF StartNumber
  <1> QED
    BY <1>1, <1>3, <1>4 DEF StartOK

LEMMA NumberGoesOnAtStart ==
  ASSUME IInv, StartOK, NEW c \in Arriving, ContinueNumber(c) PROVE StartOK'
  <1>1. /\ scanning \in NumberStates /\ Take(c) /\ scanning' \in NextInNumber(scanning, c)
        /\ status = "running" /\ stack' = stack
    BY DEF ContinueNumber, Take, Get, parser
  <1>2. Consumed' = Append(Consumed, c) /\ c \in Byte
    BY <1>1, ConsumedGoesOn DEF IInv
  <1>3. ASSUME stack = <<>> PROVE (\E w, r : Beginning(w, r) /\ ANumber(r))'
    <2>1. PICK w, r : Beginning(w, r) /\ ANumber(r)
      BY <1>1, <1>3 DEF StartOK
    <2>2. IsBlank(w) /\ w \in Seq(Byte) /\ r \in Seq(Byte) /\ Consumed = w \o r
      BY <2>1 DEF Beginning, IsBlank
    <2>3. Consumed' = w \o Append(r, c) /\ Append(r, c) \in Seq(Byte) /\ ANumber(Append(r, c))
      <3> HIDE DEF Consumed
      <3> QED
        BY <1>2, <2>1, <2>2, OneMoreAfter DEF ANumber
    <2> QED
      BY <2>2, <2>3 DEF Beginning
  <1>4. scanning' \in NumberStates
    BY <1>1, NumberGoesOn
  <1> QED
    BY <1>1, <1>3, <1>4 DEF StartOK, NumberStates

LEMMA LiteralAtStart ==
  ASSUME IInv, StartOK, NEW c \in Arriving, BeginLiteral(c) PROVE StartOK'
  <1>1. PICK literal \in Literals :
          literal[1] = c /\ due' = [i \in 1 .. (Len(literal) - 1) |-> {literal[i + 1]}]
    BY DEF BeginLiteral
  <1>2. /\ scanning = "token" /\ scanning' = "literal" /\ Take(c) /\ stack' = stack /\ status = "running"
    BY DEF BeginLiteral, Take, Get, parser
  <1>3. Consumed' = Append(Consumed, c) /\ c \in Byte
    BY <1>2, ConsumedGoesOn DEF IInv
  <1>4. ASSUME stack = <<>> PROVE (\E w, r : Beginning(w, r) /\ \E l \in Literals : ALiteral(l, r))'
    <2>1. IsBlank(Consumed)
      BY <1>2, <1>4 DEF StartOK
    <2>2. Consumed' = Consumed \o <<c>> /\ <<c>> \in Seq(Byte)
      BY <1>3, <2>1, StillBlank
    <2>3. Len(literal) \in Nat /\ Len(literal) > 1 /\ literal \in Seq(Byte)
      BY <1>1, LiteralsAreLowercase, LiteralIsQuiet
    <2> DEFINE n == Len(literal) - 1
    <2>4. n \in Nat /\ n > 0 /\ Len(literal) = n + 1
      BY <2>3
    <2>5. due' = [i \in 1 .. n |-> {literal[i + 1]}]
      BY <1>1
    <2> HIDE DEF n
    <2>6. Len(due') = n /\ \A i \in 1 .. n : due'[i] = {literal[i + 1]}
      BY <2>4, <2>5
    <2>7. SubSeq(literal, 1, 1) = <<c>>
      <3>1. 1 \in 0 .. Len(literal)
        BY <2>3
      <3> DEFINE b == SubSeq(literal, 1, 1)
      <3>2. b \in Seq(Byte) /\ Len(b) = 1 /\ \A i \in 1 .. 1 : b[i] = literal[i]
        BY <2>3, <3>1, CutInTwo
      <3> HIDE DEF b
      <3>3. b = <<c>>
        BY <1>1, <2>2, <3>2, SeqEqual
      <3> QED
        BY <3>3 DEF b
    <2>8. Len(literal) - Len(due') = 1 /\ Len(due') \in 1 .. Len(literal) - 1
      BY <2>4, <2>6
    <2>9. \A i \in 1 .. Len(due') : due'[i] = {literal[Len(literal) - Len(due') + i]}
      <3>1. ASSUME NEW i \in 1 .. Len(due') PROVE due'[i] = {literal[Len(literal) - Len(due') + i]}
        <4>1. i \in 1 .. n /\ 1 + i = i + 1
          BY <2>6
        <4> QED
          BY <2>6, <2>8, <4>1
      <3> QED
        BY <3>1
    <2>10. ALiteral(literal, <<c>>)'
      BY <2>7, <2>8, <2>9 DEF ALiteral
    <2> QED
      BY <1>1, <2>1, <2>2, <2>10 DEF Beginning
  <1> QED
    BY <1>2, <1>4 DEF StartOK, NumberStates

LEMMA LiteralGoesOnAtStart ==
  ASSUME IInv, StartOK, NEW c \in Arriving, InLiteral(c) PROVE StartOK'
  <1>1. /\ scanning = "literal" /\ due # <<>> /\ c \in Head(due) /\ due' = Tail(due)
        /\ status = "running" /\ Take(c)
    BY DEF InLiteral, Due, Take, Get
  <1>2. Consumed' = Append(Consumed, c) /\ c \in Byte
    BY <1>1, ConsumedGoesOn DEF IInv
  <1>3. due \in Seq(SUBSET Byte)
    BY DEF IInv, LexerOK
  <1>4. /\ Tail(due) \in Seq(SUBSET Byte) /\ Len(Tail(due)) = Len(due) - 1 /\ Len(due) \in Nat \ {0}
        /\ Head(due) = due[1]
        /\ \A i \in 1 .. Len(Tail(due)) : Tail(due)[i] = due[i + 1]
    BY <1>1, <1>3, DueGoesOn
  <1>5. CASE Len(due) > 1
    <2>1. stack' = stack /\ scanning' = "literal"
      BY <1>1, <1>5 DEF InLiteral, parser
    <2>2. ASSUME stack = <<>> PROVE (\E w, r : Beginning(w, r) /\ \E l \in Literals : ALiteral(l, r))'
      <3>1. PICK w, r : Beginning(w, r) /\ \E literal \in Literals : ALiteral(literal, r)
        BY <1>1, <2>2 DEF StartOK
      <3>2. PICK literal \in Literals : ALiteral(literal, r)
        BY <3>1
      <3>3. IsBlank(w) /\ w \in Seq(Byte) /\ r \in Seq(Byte) /\ Consumed = w \o r
        BY <3>1 DEF Beginning, IsBlank
      <3>4. Len(literal) \in Nat /\ literal \in Seq(Byte)
        BY LiteralsAreLowercase, LiteralIsQuiet
      <3> DEFINE n == Len(literal)
                 k == Len(literal) - Len(due)
      <3>5. /\ Len(due) \in 1 .. n - 1 /\ r = SubSeq(literal, 1, k)
            /\ \A i \in 1 .. Len(due) : due[i] = {literal[k + i]}
        BY <3>2 DEF ALiteral
      <3>6. k \in Int /\ k \in 1 .. n - 1 /\ k + 1 \in 1 .. n /\ n \in Nat /\ n - Len(due') = k + 1
        BY <1>1, <1>4, <3>4, <3>5
      <3>7. c = literal[k + 1]
        BY <1>1, <1>4, <3>5
      <3>8. PICK r2 : r2 = SubSeq(literal, 1, k + 1)
        OBVIOUS
      <3>9. r2 = Append(r, c)
        <4>1. 1 \in 1 .. n + 1 /\ k \in 1 - 1 .. n /\ k + 1 \in k .. n
          BY <3>6
        <4>2. SubSeq(literal, 1, k) \o SubSeq(literal, k + 1, k + 1) = r2
          BY <3>4, <3>8, <4>1, ConcatAdjacentSubSeq
        <4>3. SubSeq(literal, k + 1, k + 1) = <<literal[k + 1]>>
          <5> DEFINE b == SubSeq(literal, k + 1, k + 1)
          <5>1. k + 1 \in Int /\ 1 <= k + 1 /\ k + 1 <= Len(literal)
            BY <3>6
          <5> HIDE DEF k
          <5>2. /\ b \in Seq(Byte) /\ Len(b) = (IF k + 1 <= k + 1 THEN (k + 1) - (k + 1) + 1 ELSE 0)
                /\ \A i \in 1 .. (k + 1) - (k + 1) + 1 : b[i] = literal[k + 1 + i - 1]
            BY <3>4, <5>1, PieceOf
          <5> HIDE DEF b
          <5>3. Len(b) = 1 /\ b[1] = literal[k + 1]
            <6>1. (k + 1) - (k + 1) + 1 = 1 /\ k + 1 + 1 - 1 = k + 1 /\ k + 1 <= k + 1
              BY <3>6
            <6>2. Len(b) = 1
              BY <5>2, <6>1
            <6>3. \A i \in 1 .. 1 : b[i] = literal[k + 1 + i - 1]
              BY <5>2, <6>1
            <6>4. b[1] = literal[k + 1 + 1 - 1]
              BY <6>3
            <6> QED
              BY <6>1, <6>2, <6>4
          <5>4. literal[k + 1] \in Byte
            BY <1>2, <3>7
          <5>5. b = <<literal[k + 1]>>
            BY <5>2, <5>3, <5>4, SeqEqual
          <5> QED
            BY <5>5 DEF b
        <4>4. Append(r, c) = r \o <<c>>
          BY <1>2, <3>3, AppendIsConcat
        <4> QED
          BY <3>5, <3>7, <4>2, <4>3, <4>4
      <3>10. Consumed' = w \o r2 /\ r2 \in Seq(Byte)
        <4> HIDE DEF Consumed
        <4> QED
          BY <1>2, <3>3, <3>9, OneMoreAfter
      <3>11. ALiteral(literal, r2)'
        <4>1. Len(due') \in 1 .. n - 1 /\ Len(due') = Len(due) - 1
          BY <1>1, <1>4, <1>5, <3>5
        <4>2. ASSUME NEW i \in 1 .. Len(due')
              PROVE  due'[i] = {literal[Len(literal) - Len(due') + i]}
          <5>1. i + 1 \in 1 .. Len(due) /\ k + (i + 1) = Len(literal) - Len(due') + i
            BY <1>4, <3>6, <4>1
          <5>2. due'[i] = due[i + 1]
            BY <1>1, <1>4, <4>1
          <5> QED
            BY <3>5, <5>1, <5>2
        <4>3. r2 = SubSeq(literal, 1, Len(literal) - Len(due'))
          BY <3>6, <3>8
        <4> QED
          BY <4>1, <4>2, <4>3, Zenon DEF ALiteral
      <3>12. Beginning(w, r2)'
        BY <3>3, <3>10, Zenon DEF Beginning
      <3> QED
        BY <3>2, <3>11, <3>12, Zenon
    <2> QED
      BY <1>1, <2>1, <2>2 DEF StartOK, NumberStates
  <1>6. CASE ~(Len(due) > 1)
    <2> DEFINE name == CASE yytext[1] = True[1]  -> "true"
                         [] yytext[1] = False[1] -> "false"
                         [] yytext[1] = Null[1]  -> "null"
    <2>1. Token("value", <<name>>)
      BY <1>6 DEF InLiteral
    <2>2. name # "string"
      BY <1>1 DEF True, False, Null, IInv, LexerOK
    <2> HIDE DEF name
    <2>3. <<name>>[1] # "string" /\ "value" \in Kinds
      BY <2>2 DEF Kinds
    <2>4. status' = "running" => stack' # <<>>
      BY <1>1, <2>1, <2>3, TokenOpens DEF IInv
    <2> QED
      BY <2>4 DEF StartOK
  <1> QED
    BY <1>5, <1>6

Textual == {"string", "escape", "codepoint", "surrogate"}

LEMMA StringAtStart ==
  ASSUME IInv, NEW c \in Arriving,
         \/ BeginString(c) \/ PlainCharacter(c) \/ InCharacter(c) \/ CloseString(c)
         \/ BeginEscape(c) \/ SimpleEscape(c) \/ UnicodeEscape(c) \/ InCodepoint(c) \/ InSurrogate(c)
         \/ IllFormed(c)
  PROVE  StartOK'
  <1>1. ASSUME scanning' \in Textual PROVE StartOK'
    BY <1>1 DEF StartOK, Textual, NumberStates
  <1>2. ASSUME status' # "running" \/ stack' # <<>> PROVE StartOK'
    BY <1>2 DEF StartOK
  <1>3. ASSUME Emit("parse_error", <<>>), status = "running" PROVE status' # "running"
    BY <1>3, Refused DEF Emit, IInv
  <1>4. CASE BeginString(c) \/ PlainCharacter(c) \/ InCharacter(c)
    BY <1>1, <1>4 DEF BeginString, PlainCharacter, InCharacter, Textual
  <1>5. CASE BeginEscape(c) \/ SimpleEscape(c) \/ UnicodeEscape(c)
    BY <1>1, <1>5 DEF BeginEscape, SimpleEscape, UnicodeEscape, Textual
  <1>6. CASE CloseString(c)
    <2>1. status = "running" /\ Token("value", <<"string", yytext>>) /\ yytext \in Seq(Byte)
      BY <1>6 DEF CloseString, Emit, Take, Get, IInv, LexerOK
    <2>2. "value" \in Kinds /\ <<"string", yytext>>[2] \in Seq(Byte)
      BY <2>1 DEF Kinds
    <2>3. status' = "running" => stack' # <<>>
      BY <2>1, <2>2, TokenOpens DEF IInv
    <2> QED
      BY <1>2, <2>3
  <1>7. CASE InCodepoint(c)
    <2>1. scanning = "codepoint" /\ status = "running"
      BY <1>7 DEF InCodepoint, Take, Get
    <2>2. scanning' \in Textual \/ Emit("parse_error", <<>>)
      BY <1>7, <2>1 DEF InCodepoint, Textual
    <2> QED
      BY <1>1, <1>2, <1>3, <2>1, <2>2
  <1>8. CASE InSurrogate(c)
    <2>1. scanning = "surrogate" /\ status = "running"
      BY <1>8 DEF InSurrogate, Take, Get
    <2>2. scanning' \in Textual \/ Emit("parse_error", <<>>)
      BY <1>8, <2>1 DEF InSurrogate, Textual
    <2> QED
      BY <1>1, <1>2, <1>3, <2>1, <2>2
  <1>9. CASE IllFormed(c)
    BY <1>2, <1>3, <1>9 DEF IllFormed, Take, Get
  <1> QED
    BY <1>4, <1>5, <1>6, <1>7, <1>8, <1>9

LEMMA EndNumberAtStart ==
  ASSUME IInv, NEW c \in Arriving, EndNumber(c) PROVE StartOK'
  <1>1. status = "running" /\ Token("value", NumberValue(yytext)) /\ "value" \in Kinds
    BY DEF EndNumber, Emit, Get, Kinds
  <1>2. status' = "running" => stack' # <<>>
    BY <1>1, NumberIsNoString, TokenOpens DEF IInv
  <1> QED
    BY <1>2 DEF StartOK

LEMMA InitStart == Init => StartOK
  <1> SUFFICES ASSUME Init PROVE StartOK
    OBVIOUS
  <1>1. Consumed = <<>> /\ scanning = "token"
    BY DEF Init, Consumed
  <1>2. IsBlank(<<>>)
    BY DEF IsBlank
  <1> QED
    BY <1>1, <1>2 DEF StartOK, NumberStates

LEMMA NextStart == IInv /\ StartOK /\ [Next]_vars => StartOK'
  <1> SUFFICES ASSUME IInv, StartOK, [Next]_vars PROVE StartOK'
    OBVIOUS
  <1>1. CASE EndOfFile
    BY <1>1 DEF EndOfFile, Leave, StartOK
  <1>2. ASSUME NEW c \in Arriving, Scan(c) PROVE StartOK'
    BY <1>2, BlankAtStart, StructureAtStart, NumberAtStart, NumberGoesOnAtStart, LiteralAtStart,
       LiteralGoesOnAtStart, StringAtStart, EndNumberAtStart DEF Scan
  <1>3. CASE UNCHANGED vars
    <2>1. UNCHANGED <<Consumed, stack, status, scanning, due>>
      BY <1>3 DEF vars, lexer, parser, Consumed
    <2>2. IsBlank(Consumed)' = IsBlank(Consumed)
      BY <2>1 DEF IsBlank
    <2>3. \A w, r : Beginning(w, r)' = Beginning(w, r)
      BY <2>1 DEF Beginning
    <2>4. \A literal, r : ALiteral(literal, r)' = ALiteral(literal, r)
      BY <2>1 DEF ALiteral
    <2> QED
      BY <2>1, <2>2, <2>3, <2>4, Zenon DEF StartOK
  <1> QED
    BY <1>1, <1>2, <1>3 DEF Next
-----------------------------------------------------------------------------
(* A text begins where its blanks end, however it is cut.                   *)
LEMMA SameInk ==
  ASSUME NEW a, NEW w, IsBlank(a), IsBlank(w), NEW p \in Seq(Byte), NEW r \in Seq(Byte),
         p # <<>>, p[1] \notin Whitespace, r = <<>> \/ r[1] \notin Whitespace, a \o p = w \o r
  PROVE  p = r
  <1> DEFINE s == a \o p
  <1>1. /\ a \in Seq(Byte) /\ w \in Seq(Byte) /\ Len(a) \in Nat /\ Len(w) \in Nat
        /\ Len(p) \in Nat \ {0} /\ Len(r) \in Nat
        /\ \A i \in 1 .. Len(a) : a[i] \in Whitespace
        /\ \A i \in 1 .. Len(w) : w[i] \in Whitespace
    BY EmptySeq, LenProperties DEF IsBlank
  <1>2. /\ Len(s) = Len(a) + Len(p)
        /\ \A i \in 1 .. Len(a) + Len(p) : s[i] = IF i <= Len(a) THEN a[i] ELSE p[i - Len(a)]
    BY <1>1, ConcatProperties
  <1>3. /\ Len(s) = Len(w) + Len(r)
        /\ \A i \in 1 .. Len(w) + Len(r) : s[i] = IF i <= Len(w) THEN w[i] ELSE r[i - Len(w)]
    BY <1>1, ConcatProperties
  <1> HIDE DEF s
  <1>4. ~(Len(a) < Len(w))
    <2> SUFFICES ASSUME Len(a) < Len(w) PROVE FALSE
      OBVIOUS
    <2>1. /\ Len(a) + 1 \in 1 .. Len(a) + Len(p) /\ Len(a) + 1 \in 1 .. Len(w) + Len(r)
          /\ ~(Len(a) + 1 <= Len(a)) /\ Len(a) + 1 <= Len(w) /\ (Len(a) + 1) - Len(a) = 1
          /\ Len(a) + 1 \in 1 .. Len(w)
      BY <1>1
    <2>2. s[Len(a) + 1] = p[1] /\ s[Len(a) + 1] = w[Len(a) + 1]
      BY <1>2, <1>3, <2>1
    <2> QED
      BY <1>1, <2>1, <2>2
  <1>5. ~(Len(w) < Len(a))
    <2> SUFFICES ASSUME Len(w) < Len(a) PROVE FALSE
      OBVIOUS
    <2>1. Len(r) > 0
      BY <1>1, <1>2, <1>3
    <2>2. r # <<>>
      BY <2>1
    <2>3. /\ Len(w) + 1 \in 1 .. Len(a) + Len(p) /\ Len(w) + 1 \in 1 .. Len(w) + Len(r)
          /\ ~(Len(w) + 1 <= Len(w)) /\ Len(w) + 1 <= Len(a) /\ (Len(w) + 1) - Len(w) = 1
          /\ Len(w) + 1 \in 1 .. Len(a)
      BY <1>1, <2>1
    <2>4. s[Len(w) + 1] = r[1] /\ s[Len(w) + 1] = a[Len(w) + 1]
      BY <1>2, <1>3, <2>3
    <2> QED
      BY <1>1, <2>2, <2>3, <2>4
  <1>6. Len(a) = Len(w) /\ Len(p) = Len(r)
    BY <1>1, <1>2, <1>3, <1>4, <1>5
  <1>7. ASSUME NEW i \in 1 .. Len(p) PROVE p[i] = r[i]
    <2>1. Len(a) + i \in 1 .. Len(a) + Len(p) /\ ~(Len(a) + i <= Len(a)) /\ (Len(a) + i) - Len(a) = i
      BY <1>1
    <2>2. s[Len(a) + i] = p[i]
      BY <1>2, <2>1
    <2>3. s[Len(a) + i] = r[i]
      BY <1>3, <1>6, <2>1
    <2> QED
      BY <2>2, <2>3
  <1> QED
    BY <1>6, <1>7, SeqEqual

LEMMA LiteralsDiffer ==
  ASSUME NEW l \in Literals, NEW m \in Literals, l[1] = m[1]
  PROVE  l = m
  BY DEF Literals, True, False, Null

LEMMA FirstInks ==
  /\ \A c \in Digit \union {Minus} : c \notin Lowercase /\ c # Quote
  /\ \A c \in Lowercase : c \notin Whitespace /\ c # Quote
  BY DEF Digit, Minus, Lowercase, Quote, Whitespace

(* Where the text that was taken is blank, or goes on as a number or as the *)
(* beginning of a literal, what it could denote is at most a number.        *)
LEMMA TakenAtStart ==
  ASSUME IInv, StartOK, status = "running", stack = <<>>, Quoting = "none", Consumed = text,
         text \in Seq(Byte), Trim(text) # <<>>
  PROVE  /\ Trim(text) \notin Literals
         /\ Trim(text)[1] # Quote
  <1> DEFINE t == Trim(text)
  <1>1. t \in Seq(Byte) /\ t # <<>> /\ t[1] \notin Whitespace
    BY Trimmed
  <1>2. PICK a, b : IsBlank(a) /\ IsBlank(b) /\ text = (a \o t) \o b
    BY Trimmed
  <1> HIDE DEF t
  <1> DEFINE p == t \o b
  <1>3. a \in Seq(Byte) /\ b \in Seq(Byte) /\ p \in Seq(Byte) /\ text = a \o p
    BY <1>1, <1>2, ConcatProperties, ConcatAssociative DEF IsBlank
  <1>4. /\ Len(t) \in Nat \ {0} /\ Len(b) \in Nat /\ Len(p) = Len(t) + Len(b) /\ p # <<>> /\ p[1] = t[1]
    <2>1. Len(t) \in Nat \ {0} /\ Len(b) \in Nat
      BY <1>1, <1>3, EmptySeq, LenProperties
    <2>2. /\ Len(p) = Len(t) + Len(b)
          /\ \A i \in 1 .. Len(t) + Len(b) : p[i] = IF i <= Len(t) THEN t[i] ELSE b[i - Len(t)]
      BY <1>1, <1>3, ConcatProperties
    <2> HIDE DEF p
    <2>3. 1 \in 1 .. Len(t) + Len(b) /\ 1 <= Len(t)
      BY <2>1
    <2>4. p[1] = t[1] /\ Len(p) # 0
      BY <2>1, <2>2, <2>3
    <2>5. p # <<>>
      BY <2>4
    <2> QED
      BY <2>1, <2>2, <2>4, <2>5
  <1> HIDE DEF p
  <1>5. ASSUME NEW w, NEW r, IsBlank(w), r \in Seq(Byte), text = w \o r, r = <<>> \/ r[1] \notin Whitespace
        PROVE  p = r
    BY <1>1, <1>2, <1>3, <1>4, <1>5, SameInk
  <1>6. scanning \in NumberStates \union {"token", "literal"}
    BY DEF IInv, LexerOK, Quoting
  <1>7. CASE scanning = "token"
    <2>1. IsBlank(text)
      BY <1>7 DEF StartOK
    <2>2. text = text \o <<>> /\ <<>> \in Seq(Byte)
      BY ConcatEmptySeq
    <2>3. p = <<>>
      BY <1>5, <2>1, <2>2
    <2> QED
      BY <1>4, <2>3
  <1>8. CASE scanning \in NumberStates
    <2>1. PICK w, r : Beginning(w, r) /\ ANumber(r)
      BY <1>8 DEF StartOK
    <2>2. IsBlank(w) /\ r \in Seq(Byte) /\ text = w \o r /\ r[1] \in Digit \union {Minus}
      BY <2>1 DEF Beginning, ANumber
    <2>3. r[1] \notin Whitespace
      BY <2>2 DEF Digit, Minus, Whitespace
    <2>4. t[1] \in Digit \union {Minus}
      BY <1>4, <1>5, <2>2, <2>3
    <2>5. t[1] \notin Lowercase /\ t[1] # Quote
      BY <2>4, FirstInks
    <2> QED
      BY <2>5, LiteralsAreLowercase DEF t
  <1>9. CASE scanning = "literal"
    <2>1. PICK w, r : Beginning(w, r) /\ \E literal \in Literals : ALiteral(literal, r)
      BY <1>9 DEF StartOK
    <2>2. PICK literal \in Literals : ALiteral(literal, r)
      BY <2>1
    <2>3. IsBlank(w) /\ r \in Seq(Byte) /\ text = w \o r
      BY <2>1 DEF Beginning
    <2>4. literal \in Seq(Byte) /\ Len(literal) \in Nat /\ literal[1] \in Lowercase
      BY LiteralIsQuiet, LiteralsAreLowercase
    <2>5. Len(r) < Len(literal) /\ r[1] = literal[1]
      <3> DEFINE k == Len(literal) - Len(due)
      <3>1. k \in 1 .. Len(literal) - 1 /\ r = SubSeq(literal, 1, k)
        BY <2>2, <2>4 DEF ALiteral
      <3> HIDE DEF k
      <3>2. k \in 0 .. Len(literal) /\ k \in Nat /\ k < Len(literal) /\ 1 \in 1 .. k
        BY <2>4, <3>1
      <3>3. Len(r) = k /\ \A i \in 1 .. k : r[i] = literal[i]
        BY <2>4, <3>1, <3>2, CutInTwo
      <3> QED
        BY <3>2, <3>3
    <2>6. r[1] \notin Whitespace /\ r[1] # Quote
      BY <2>4, <2>5, FirstInks
    <2>7. p = r
      BY <1>5, <2>3, <2>6
    <2>8. t[1] = literal[1] /\ Len(t) < Len(literal)
      BY <1>4, <2>4, <2>5, <2>7
    <2>9. t \notin Literals
      BY <2>8, LiteralsDiffer
    <2> QED
      BY <2>5, <2>6, <2>8, <2>9 DEF t
  <1> QED
    BY <1>6, <1>7, <1>8, <1>9

LEMMA QuietTextOpensNothing ==
  ASSUME FrameOK, status = "running", Consumed = text, text \in Seq(Byte), Quiet(text, "none")
  PROVE  stack = <<>> /\ Quoting = "none"
  <1>1. <<>> \in Seq(Byte) /\ Frame[<<>>] = Start /\ <<>> \o text = text
    BY FrameGoesOn, ConcatEmptySeq
  <1>2. Frame[text] = Start
    <2>1. Frame[<<>>].quoting = "none"
      BY <1>1 DEF Start
    <2>2. Frame[<<>> \o text] = Frame[<<>>]
      BY <1>1, <2>1, Zenon DEF Quiet
    <2> QED
      BY <1>1, <2>2
  <1>3. Seen = Start
    BY <1>2 DEF FrameOK
  <1>4. Seen.opened = (stack # <<>>) /\ Seen.quoting = Quoting
    BY DEF Seen
  <1>5. Start.opened = FALSE /\ Start.quoting = "none"
    BY DEF Start
  <1> QED
    BY <1>3, <1>4, <1>5

LEMMA ShutTextIsOver ==
  ASSUME IInv, FrameOK, status = "running", Consumed = text, text \in Seq(Byte),
         NEW open \in Openings, NEW close \in Closings, IsBetween(Trim(text), open, close),
         Even(Inside(Trim(text)))
  PROVE  FALSE
  <1> DEFINE t == Trim(text)
  <1>1. t \in Seq(Byte)
    BY Trimmed
  <1>2. PICK a, b : IsBlank(a) /\ IsBlank(b) /\ text = (a \o t) \o b
    BY Trimmed
  <1>3. Even(t) /\ \A s \in Seq(Byte) : Frame[s].quoting = "none" => Frame[s \o t].opened
    BY <1>1, ContainerShuts
  <1> HIDE DEF t
  <1>4. a \in Seq(Byte) /\ b \in Seq(Byte) /\ Even(a) /\ Even(b)
    BY <1>2, BlankIsQuiet, QuietIsEven
  <1>5. <<>> \in Seq(Byte) /\ Frame[<<>>].quoting = "none" /\ Frame[<<>>].depth = 0 /\ <<>> \o a = a
    BY <1>4, FrameGoesOn, ConcatEmptySeq DEF Start
  <1>6. Frame[a].quoting = "none" /\ Frame[a].depth = 0
    BY <1>4, <1>5 DEF Even
  <1>7. a \o t \in Seq(Byte) /\ Frame[a \o t].quoting = "none" /\ Frame[a \o t].depth = 0 /\ Frame[a \o t].opened
    BY <1>1, <1>3, <1>4, <1>6, ConcatProperties DEF Even
  <1>8. Frame[text].depth = 0 /\ Frame[text].opened
    BY <1>2, <1>4, <1>7 DEF Even
  <1>9. Frame[text] = Seen
    BY DEF FrameOK
  <1>10. Seen.depth = Len(stack) /\ Seen.opened = (stack # <<>>)
    BY DEF Seen
  <1>11. stack # <<>> /\ Len(stack) = 0
    BY <1>8, <1>9, <1>10
  <1> QED
    BY <1>11, StackFacts DEF IInv, ParserOK

(* The document that readMessageBegin reads is not followed by a wait: once *)
(* the bytes taken from the transport are a whole JSON text by the grammar  *)
(* of RFC 8259, parse() has returned, whatever the text and however it      *)
(* nests, unless it is a number, outside of which nothing is open.          *)
THEOREM NoWaitBehindADocument == Spec => []NeverWaitsBehindADocument
  <1>1. IInv /\ FrameOK /\ StartOK => NeverWaitsBehindADocument
    <2> SUFFICES ASSUME IInv, FrameOK, StartOK, status = "running", ~next_unget,
                        NEW m \in Denotes(text)
                 PROVE  m[1] \in {"whole", "real"} /\ stack = <<>>
      BY DEF NeverWaitsBehindADocument
    <2> DEFINE t == Trim(text)
    <2>1. text \in Seq(Byte) /\ Consumed = text
      BY DEF IInv, InputOK, Consumed
    <2>2. t \in Seq(Byte)
      BY <2>1, Trimmed
    <2>3. m \in ValueBy(Denoted, t)
      <3>1. <<"value", text>> \in Parts
        BY <2>1 DEF Parts, Nonterminals
      <3>2. Denoted[<<"value", text>>] = DenotedBy(Denoted, "value", text)
        BY <3>1, DenotedUnfolds
      <3> QED
        BY <3>2, Zenon DEF Denotes, DenotedBy
    <2> HIDE DEF t
    <2>4. Len(t) \in Nat /\ 2 * Len(t) \in Nat /\ BalancedBelow(2 * Len(t))
      BY <2>2, DenotedIsBalanced, LenProperties
    <2>5. ASSUME Quiet(t, "none") PROVE stack = <<>> /\ Quoting = "none"
      BY <2>1, <2>5, QuietBlanksAround, QuietTextOpensNothing DEF t
    <2>6. ASSUME t # <<>>, stack = <<>>, Quoting = "none" PROVE t \notin Literals /\ t[1] # Quote
      BY <2>1, <2>6, TakenAtStart DEF t
    <2>7. CASE t \in Literals
      <3>1. t # <<>> /\ Quiet(t, "none")
        BY <2>7, LiteralIsQuiet DEF Literals, True, False, Null
      <3> QED
        BY <2>5, <2>6, <2>7, <3>1
    <2>8. CASE t # <<>> /\ m \in Numbers(t)
      BY <2>2, <2>5, <2>8, NumbersAreQuiet
    <2>9. CASE t # <<>> /\ t[1] = Quote /\ StringsBy(Denoted, t) # {}
      <3>1. Quiet(t, "none")
        BY <2>2, <2>4, <2>9, StringsBalanced
      <3> QED
        BY <2>5, <2>6, <2>9, <3>1
    <2>10. ASSUME NEW part \in {"elements", "members"}, NEW open \in Openings, NEW close \in Closings,
                  IsBetween(t, open, close), Inside(t) = <<>> \/ Denoted[<<part, Inside(t)>>] # {}
           PROVE  FALSE
      <3>1. Even(Inside(t))
        <4>1. Inside(t) \in Seq(Byte) /\ Len(Inside(t)) < Len(t)
          BY <2>2, <2>10, InsideIsShorter
        <4>2. CASE Inside(t) = <<>>
          BY <4>2, NothingIsQuiet, QuietIsEven
        <4>3. CASE Denoted[<<part, Inside(t)>>] # {}
          <5> DEFINE i == Inside(t)
          <5>1. i \in Seq(Byte) /\ Len(i) < Len(t) /\ 2 * Len(t) <= 2 * Len(t)
            BY <2>4, <4>1
          <5>2. Denoted[<<"elements", i>>] # {} \/ Denoted[<<"members", i>>] # {}
            BY <4>3
          <5> HIDE DEF i
          <5>3. Even(i)
            BY <2>2, <2>4, <5>1, <5>2, BalancedShorter, Zenon
          <5> QED
            BY <5>3 DEF i
        <4> QED
          BY <2>10, <4>2, <4>3
      <3> QED
        BY <2>1, <2>10, <3>1, ShutTextIsOver DEF t
    <2>11. LeftBracket \in Openings /\ LeftBrace \in Openings /\ RightBracket \in Closings /\ RightBrace \in Closings
      BY DEF Openings, Closings
    <2> QED
      BY <2>3, <2>7, <2>8, <2>9, <2>10, <2>11, ValueKinds
  <1>2. Spec => []FrameOK
    BY InitFrame, NextFrame, Invariant, PTL DEF Spec
  <1>3. Spec => []StartOK
    BY InitStart, NextStart, Invariant, PTL DEF Spec
  <1> QED
    BY <1>1, <1>2, <1>3, Invariant, PTL
=============================================================================
