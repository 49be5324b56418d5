----------------------------- MODULE JsonValue -----------------------------
(***************************************************************************)
(* JSON values as the JSON library holds them (src/lib/cpp/json.hpp), for  *)
(* the modules that convert them.  A value is a tuple of its type and its  *)
(* content: a string is a sequence of bytes, an array one of values, an    *)
(* object a function on strings, a float the eight bytes of a double.      *)
(*                                                                         *)
(* Integers are of 64 bits and so beyond TLC's: <<type, negative, size>>   *)
(* stands for n, or for -1 - n if it is negative, where size is the bytes  *)
(* of n without leading zeros, the highest one first.                      *)
(***************************************************************************)
EXTENDS JsonKeys, Integers, Sequences, FiniteSets, SequencesExt, TLC

(* What an operation gives: a value and a place, or the error it throws.   *)
Result(value, next) == [error |-> "none", value |-> value, next |-> next]
Error(what) == [error |-> what]

\* What is given and then made into something else.
Then(given, Of(_)) == IF given.error # "none" THEN given ELSE Of(given)

(* std::map::insert keeps the member that is there, operator[] does not.   *)
Insert(members, key, value) == members @@ (key :> value)
Assign(members, key, value) == (key :> value) @@ members
-----------------------------------------------------------------------------
(* Sizes: bytes without leading zeros.                                     *)

RECURSIVE Size(_), Normal(_)
Size(n) == IF n = 0 THEN <<>> ELSE Append(Size(n \div 256), n % 256)

Normal(bytes) == IF bytes # <<>> /\ Head(bytes) = 0 THEN Normal(Tail(bytes)) ELSE bytes

Zeros(n) == [i \in 1 .. n |-> 0]

Padded(size, width) == Zeros(width - Len(size)) \o size

Complement(bytes) == [i \in DOMAIN bytes |-> 255 - bytes[i]]

\* The number, of a size of up to three bytes.
Small(size) == FoldLeft(LAMBDA n, b : 256 * n + b, 0, size)

\* Whether a signed number of some bytes holds n, and then also -1 - n.
FitsSigned(size, width) ==
    Len(size) < width \/ (Len(size) = width /\ Head(size) < 128)

\* Two's complement, in either direction: the bytes of -1 - n are those of
\* n, each turned around.
Integer(bytes) ==
    IF Head(bytes) < 128 THEN <<"integer", FALSE, Normal(bytes)>>
    ELSE <<"integer", TRUE, Normal(Complement(bytes))>>

Unsigned(size) == <<"unsigned", FALSE, size>>

(* static_cast of an unsigned number to a signed one.                      *)
AsInteger(size) == Integer(Padded(size, 8))
-----------------------------------------------------------------------------
(* Doubles.                                                                *)

RECURSIVE BinaryDigits(_)
BinaryDigits(m) == IF m = 0 THEN <<>> ELSE Append(BinaryDigits(m \div 2), m % 2)

\* The n-th byte of a sequence of binary digits.
ByteOf(digits, n) == FoldLeft(LAMBDA b, d : 2 * b + d, 0, SubSeq(digits, 8 * n - 7, 8 * n))

Sign(negative) == IF negative THEN <<1>> ELSE <<0>>

\* A double from its sign, its exponent and the digits of its fraction.
DoubleOf(negative, exponent, fraction) ==
    LET digits == Sign(negative)
                  \o Zeros(11 - Len(BinaryDigits(exponent))) \o BinaryDigits(exponent)
                  \o fraction \o Zeros(52 - Len(fraction))
    IN  [n \in 1 .. 8 |-> ByteOf(digits, n)]

(* std::ldexp(m, e), which is exact here.                                  *)
Ldexp(negative, m, e) ==
    IF m = 0 THEN DoubleOf(negative, 0, <<>>)
    ELSE DoubleOf(negative, 1022 + e + Len(BinaryDigits(m)), Tail(BinaryDigits(m)))

\* An infinity, or a NaN, of which there is only the quiet one here.
Infinity(negative) == DoubleOf(negative, 2047, <<>>)
QuietNaN(negative) == DoubleOf(negative, 2047, <<1>>)

IsNaN(double) == double \in {QuietNaN(TRUE), QuietNaN(FALSE)}
IsZero(double) == double \in {Ldexp(TRUE, 0, 0), Ldexp(FALSE, 0, 0)}

SameDouble(a, b) == ~IsNaN(a) /\ (a = b \/ (IsZero(a) /\ IsZero(b)))

\* Of an integer that is below 2^24.
AsDouble(number) ==
    Ldexp(number[2], Small(number[3]) + (IF number[2] THEN 1 ELSE 0), 0)
-----------------------------------------------------------------------------
(* operator==.                                                             *)

\* Numbers of two types are both taken to a double or to a signed integer.
SameNumber(lhs, rhs) ==
    LET Signed(v) == IF v[1] = "unsigned" THEN AsInteger(v[3]) ELSE v
        Double(v) == IF v[1] = "float" THEN v[2] ELSE AsDouble(v)
    IN  IF "float" \in {lhs[1], rhs[1]} THEN SameDouble(Double(lhs), Double(rhs))
        ELSE Signed(lhs) = Signed(rhs)

Number == {"integer", "unsigned", "float"}
Structured == {"array", "object"}

RECURSIVE Equal(_, _)
Equal(lhs, rhs) ==
    \/ lhs[1] = rhs[1] /\ lhs[1] \in Structured
          /\ DOMAIN lhs[2] = DOMAIN rhs[2]
          /\ \A i \in DOMAIN lhs[2] : Equal(lhs[2][i], rhs[2][i])
    \/ lhs[1] = rhs[1] /\ lhs[1] \notin Structured \union {"float"} /\ lhs = rhs
    \/ {lhs[1], rhs[1]} \subseteq Number /\ (lhs[1] # rhs[1] \/ lhs[1] = "float")
          /\ SameNumber(lhs, rhs)
=============================================================================
