-------------------------- MODULE MCJsonConversions --------------------------
(* Small instances of JsonConversions: numbers, strings and containers on  *)
(* both sides of every limit of the two formats, and the patches of RFC    *)
(* 6902.                                                                   *)
EXTENDS JsonConversions

Str(b) == <<"string", b>>
Obj(f) == <<"object", f>>
Arr(s) == <<"array", s>>
Unsigned_(n) == Unsigned(Size(n))
True == <<"boolean", TRUE>>

Copies(n, x) == [i \in 1 .. n |-> x]
Ones(n) == Copies(n, 255)
Power(n) == <<1>> \o Zeros(n)

\* The sizes on both sides of the limits: 2^7, 2^8, 2^15, ..., 2^63, and of
\* those of the two formats for what fits the first byte.
Limits ==
    {Size(n) : n \in {0, 1, 23, 24, 31, 32}}
    \union UNION {{<<127>> \o Ones(n), <<128>> \o Zeros(n), Ones(n + 1)} : n \in 0 .. 7}
    \union {Power(n) : n \in 1 .. 7}

Integers ==
    {Unsigned(n) : n \in Limits}
    \union {<<"integer", sign, n>> : sign \in BOOLEAN, n \in {n \in Limits : FitsSigned(n, 8)}}

\* 1, 65504, 2^-24, 2^-14, -0, -infinity and a NaN; 2^-149 and the largest single.
MCShorter ==
    {[double |-> <<63, 240>> \o Zeros(6), single |-> <<63, 128, 0, 0>>, half |-> <<60, 0>>],
     [double |-> <<64, 239, 252>> \o Zeros(5), single |-> <<71, 127, 224, 0>>, half |-> <<123, 255>>],
     [double |-> <<62, 112>> \o Zeros(6), single |-> <<51, 128, 0, 0>>, half |-> <<0, 1>>],
     [double |-> <<63, 16>> \o Zeros(6), single |-> <<56, 128, 0, 0>>, half |-> <<4, 0>>],
     [double |-> <<128>> \o Zeros(7), single |-> <<128, 0, 0, 0>>, half |-> <<128, 0>>],
     [double |-> <<255, 240>> \o Zeros(6), single |-> <<255, 128, 0, 0>>, half |-> <<252, 0>>],
     [double |-> <<127, 248>> \o Zeros(6), single |-> <<127, 192, 0, 0>>, half |-> <<126, 0>>],
     [double |-> <<54, 160>> \o Zeros(6), single |-> <<0, 0, 0, 1>>, half |-> <<>>],
     [double |-> <<71, 239, 255, 255, 224, 0, 0, 0>>, single |-> <<127, 127, 255, 255>>, half |-> <<>>]}

\* Those, and one tenth.
Doubles == {<<"float", s.double>> : s \in MCShorter} \union {<<"float", <<63, 185>> \o Copies(5, 153) \o <<154>>>>}

Simple == {Null, True, <<"boolean", FALSE>>}

\* Strings, arrays and objects of both sides of the limits of their heads.
Long ==
    {Str(Copies(n, 97)) : n \in {0, 1, 23, 24, 31, 32, 255, 256, 65535, 65536}}
    \union {Arr(Copies(n, True)) : n \in {0, 1, 11, 15, 16, 23, 24}}
    \union {Obj([k \in {<<97, i>> : i \in 1 .. n} |-> Null]) : n \in {0, 1, 15, 16, 23, 24}}

\* 97 a, 98 b.  Keys with what pointers escape, with nothing, and with digits.
Names == {<<>>, <<48>>, <<49>>, <<97>>, <<Slash>>, <<Tilde>>, <<Tilde, One>>, <<Slash, Tilde>>,
          <<Tilde, Zero, One>>}
Nested ==
    {Obj(k :> Arr(<<Obj(k :> True), Str(<<255>>)>>)) : k \in Names}
    \union {Obj((j :> Null) @@ (k :> Arr(<<Null, Unsigned_(7)>>))) : j \in {<<97>>, <<Tilde>>}, k \in Names}
    \union {Arr(<<Arr(<<>>), Obj(<<>>), Arr(<<Arr(<<True>>)>>)>>),
            Arr([i \in 1 .. 12 |-> IF i % 3 = 0 THEN Arr(<<Null, Unsigned_(i)>>) ELSE Unsigned_(i)])}

MCValues == Simple \union Integers \union Doubles \union Long \union Nested

MCForeign ==
    Simple \union Integers \union Doubles
    \union {Str(Copies(n, 97)) : n \in {0, 23, 24, 31, 32, 255, 256}}
    \union {Arr(<<>>), Obj(<<>>), Arr(<<True, Str(<<97>>)>>), Arr(<<Arr(<<Null>>), Unsigned_(24)>>),
            Obj((<<97>> :> Unsigned_(5)) @@ (<<98>> :> Arr(<<>>))),
            Obj(<<97>> :> Obj(<<>> :> True))}

MCCompared ==
    {Null, True, Unsigned_(1), <<"integer", FALSE, <<1>>>>, <<"integer", TRUE, <<>>>>,
     <<"float", <<63, 240>> \o Zeros(6)>>, Str(<<97>>), Arr(<<>>), Obj(<<>>)}
    \union {Arr(Copies(n, Unsigned_(n))) : n \in 1 .. 3}
    \union {Arr(<<True>>), Arr(<<Obj(<<97>> :> True), True, Null, Arr(<<Null>>)>>),
            Arr(<<Obj(<<98>> :> True), Null, True>>)}
    \union {Obj(k :> True) : k \in Names}
    \union {Obj((<<97>> :> v) @@ (k :> Null)) :
                v \in {True, Arr(<<True, Null>>), Obj(<<Slash>> :> Unsigned_(1))}, k \in {<<98>>, <<Tilde>>, <<48>>}}

\* Pointers: /a, /b, /a/a, ...
A == <<Slash, 97>>
B == <<Slash, 98>>
At(n) == <<Slash, 48 + n>>
End == <<Slash, 45>>

To(op, path) == [op |-> op, path |-> path]
With(op, path, v) == [op |-> op, path |-> path, value |-> v]
FromTo(op, from, path) == [op |-> op, path |-> path, from |-> from]

Case(source, patch, target) == [source |-> source, patch |-> patch, target |-> target]
a(v) == Obj(<<97>> :> v)
ab(v, w) == Obj((<<97>> :> v) @@ (<<98>> :> w))
x == Str(<<120>>)
y == Str(<<121>>)

\* The examples of RFC 6902, in its order, with shorter names: A.1 - A.16.
Examples ==
    {Case(a(x), <<With("add", B, y)>>, ab(x, y)),
     Case(a(Arr(<<x, x>>)), <<With("add", A \o At(1), y)>>, a(Arr(<<x, y, x>>))),
     Case(ab(x, y), <<To("remove", B)>>, a(x)),
     Case(a(Arr(<<x, y, x>>)), <<To("remove", A \o At(1))>>, a(Arr(<<x, x>>))),
     Case(ab(x, y), <<With("replace", B, x)>>, ab(x, x)),
     Case(ab(a(x), Obj(<<98>> :> y)), <<FromTo("move", A \o A, B \o A)>>, ab(Obj(<<>>), ab(x, y))),
     Case(a(Arr(<<x, y, x, Null>>)), <<FromTo("move", A \o At(1), A \o At(3))>>, a(Arr(<<x, x, Null, y>>))),
     Case(ab(x, Arr(<<y, True>>)), <<With("test", A, x), With("test", B \o At(1), True)>>,
          ab(x, Arr(<<y, True>>))),
     Case(a(x), <<With("test", A, y)>>, Nothing),
     Case(a(x), <<With("add", B, a(Obj(<<>>)))>>, ab(x, a(Obj(<<>>)))),
     Case(a(x), <<[op |-> "add", path |-> B, value |-> y, ignored |-> x]>>, ab(x, y)),
     Case(a(x), <<With("add", B \o A, y)>>, Nothing),
     Case(Obj((<<Slash>> :> x) @@ (<<Tilde, One>> :> y)),
          <<With("test", <<Slash, Tilde, Zero, One>>, y)>>,
          Obj((<<Slash>> :> x) @@ (<<Tilde, One>> :> y))),
     Case(Obj((<<Slash>> :> x) @@ (<<Tilde, One>> :> y)),
          <<With("test", <<Slash, Tilde, Zero, One>>, Str(<<49>>))>>, Nothing),
     Case(a(Arr(<<x>>)), <<With("add", A \o End, Arr(<<y>>))>>, a(Arr(<<x, Arr(<<y>>)>>)))}

\* What else its text says: of the document itself, of places that are not
\* there, of values in use, and of operations that are none.
Others ==
    {Case(x, <<With("add", <<>>, y)>>, y),
     Case(x, <<With("replace", <<>>, a(y))>>, a(y)),
     Case(a(x), <<With("add", A, y)>>, a(y)),
     Case(a(Arr(<<x>>)), <<With("add", A \o At(2), y)>>, Nothing),
     Case(a(Arr(<<x>>)), <<With("add", A \o At(1), y)>>, a(Arr(<<x, y>>))),
     Case(a(Arr(<<x>>)), <<With("add", A \o A, y)>>, Nothing),
     Case(a(x), <<To("remove", B)>>, Nothing),
     Case(a(x), <<To("remove", <<>>)>>, Nothing),
     Case(a(Arr(<<x>>)), <<To("remove", A \o At(1))>>, Nothing),
     Case(a(Arr(<<x>>)), <<To("remove", A \o End)>>, Nothing),
     Case(a(x), <<With("replace", B, y)>>, Nothing),
     Case(a(Arr(<<x>>)), <<With("replace", A \o At(0), y)>>, a(Arr(<<y>>))),
     Case(a(Arr(<<x>>)), <<With("replace", A \o <<Slash, 48, 48>>, y)>>, Nothing),
     Case(a(Arr(<<x>>)), <<With("replace", A \o End, y)>>, Nothing),
     Case(a(x), <<FromTo("move", A, B)>>, Obj(<<98>> :> x)),
     Case(a(x), <<FromTo("move", B, A)>>, Nothing),
     Case(a(x), <<FromTo("move", A, A)>>, a(x)),
     Case(a(a(x)), <<FromTo("move", A, A \o A)>>, Nothing),
     Case(a(x), <<FromTo("copy", A, B)>>, ab(x, x)),
     Case(ab(a(x), y), <<FromTo("copy", A, B)>>, ab(a(x), a(x))),
     Case(a(Arr(<<x>>)), <<FromTo("copy", A \o At(0), A \o End)>>, a(Arr(<<x, x>>))),
     Case(a(x), <<FromTo("copy", B, A)>>, Nothing),
     Case(a(x), <<With("test", B, x)>>, Nothing),
     Case(a(Unsigned_(1)), <<With("test", A, <<"float", <<63, 240>> \o Zeros(6)>>)>>, a(Unsigned_(1))),
     Case(a(x), <<With("test", <<97>>, x)>>, Nothing),
     Case(a(x), <<With("test", <<Slash, Tilde>>, x)>>, Nothing),
     Case(a(x), <<With("merge", A, x)>>, Nothing),
     Case(a(x), <<To("add", A)>>, Nothing),
     Case(a(x), <<To("move", A)>>, Nothing),
     Case(a(x), <<[path |-> A]>>, Nothing),
     Case(a(x), <<[op |-> "remove"]>>, Nothing),
     Case(a(x), <<With("add", B, y), To("remove", A), To("remove", A)>>, Nothing),
     Case(a(x), <<FromTo("copy", A, B), With("replace", A, y), With("test", B, x), FromTo("move", B, A)>>, a(x))}

MCPatches == Examples \union Others
=============================================================================
