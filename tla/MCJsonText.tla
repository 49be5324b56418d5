----------------------------- MODULE MCJsonText -----------------------------
(* Small instances of JsonText: texts over alphabets that each exercise    *)
(* one part of the grammar, values to be dumped, and whole texts.          *)
EXTENDS JsonText

\* ASCII: 97 a, 99 c, 49 1, 57 9, 110 n, 117 u, 108 l, 101 e, 32 space.
Structure == {LeftBrace, RightBrace, Quote, Colon, Comma, 49}
Arrays == {LeftBracket, RightBracket, Comma, 49, 32, LeftBrace, RightBrace}
Numerals == {Zero, 49, 57, Minus, Plus, Dot, 101, LeftBracket, RightBracket}
MCAlphabets == {Structure, Arrays, Numerals}

Str(b) == <<"string", b>>
Obj(f) == <<"object", f>>
Arr(s) == <<"array", s>>

\* One character of each length, the limits between them, and every kind of
\* sequence of bytes that is not UTF-8.
Characters ==
    {<<97>>, <<34>>, <<92>>, <<10>>, <<0>>, <<31>>, <<127>>, <<194, 128>>, <<223, 191>>,
     <<224, 160, 128>>, <<237, 159, 191>>, <<238, 128, 128>>, <<239, 191, 191>>,
     <<240, 144, 128, 128>>, <<243, 191, 128, 191>>, <<244, 143, 191, 191>>}
IllFormedBytes ==
    {<<128>>, <<193, 128>>, <<194>>, <<194, 97>>, <<224, 159, 191>>, <<225, 128>>,
     <<237, 160, 128>>, <<240, 143, 191, 191>>, <<244, 144, 128, 128>>, <<245, 128, 128, 128>>,
     <<255>>}

WrittenValues ==
    {Str(b) : b \in Characters \union IllFormedBytes}
    \union {<<"null">>, <<"float", NaN>>, <<"float", <<49>>>>, <<"float", <<49, 46, 57>>>>,
            <<"unsigned", 0>>, <<"integer", 0>>, <<"integer", -5>>, <<"unsigned", 12>>}

MCWritten ==
    {[value |-> Obj(<<97>> :> v), pretty |-> p] : v \in WrittenValues, p \in BOOLEAN}
    \union {[value |-> v, pretty |-> p] : p \in BOOLEAN, v \in
        {Obj(<<>>), Arr(<<>>), Arr(<<Str(<<>>), <<"true">>, Obj(<<>>)>>),
         Obj((<<97>> :> Arr(<<<<"false">>>>)) @@ (<<97, 97>> :> Str(<<99>>)) @@ (<<>> :> <<"null">>)),
         Obj(<<200>> :> <<"true">>), Arr(<<Obj(<<10>> :> <<"unsigned", 1>>), <<"integer", -8>>>>)}}

InQuotes(b) == <<Quote>> \o b \o <<Quote>>
U(a, b, c, d) == <<Backslash, LowerU, a, b, c, d>>

\* Escapes: d83d (high), dc00 (low), 00e9, 20AC and what is no escape.
EscapedTexts ==
    {InQuotes(b) : b \in
        {U(100, 56, 51, 100) \o U(100, 99, 48, 48), U(48, 48, 101, 57), U(50, 48, 65, 67),
         U(100, 56, 51, 100), U(100, 56, 51, 100) \o U(48, 48, 101, 57), U(100, 99, 48, 48),
         U(100, 56, 51, 100) \o <<Backslash, 110>>, U(48, 48, 52, 49), U(48, 48, 103, 48),
         U(70, 70, 70, 70), U(68, 66, 70, 70) \o U(68, 70, 70, 70), <<Backslash, 47>>,
         <<Backslash, 97>>, <<Backslash, 116, 9>>, U(48, 55, 70, 70), U(48, 56, 48, 48)}}

\* {"a":1,"a":2}, [1e9], [0e9], a literal misspelt, a NUL.
OtherTexts ==
    {<<123, 34, 97, 34, 58, 49, 44, 34, 97, 34, 58, 50, 125>>,
     <<91, 49, 101, 57, 93>>, <<91, 48, 101, 57, 93>>, <<91, 110, 117, 108, 108, 44, 116>>,
     <<91, 116, 114, 117, 117>>, <<91, 0, 93>>, <<91, 49, 51, 93>>, <<91, 45, 57, 93>>}

MCTexts == {DumpOf(w) : w \in MCWritten} \union EscapedTexts \union OtherTexts

MCEndings ==
    {<<>>, <<RightBracket>>, <<RightBrace>>, <<49>>, <<Quote>>, <<49, RightBracket>>,
     <<RightBracket, RightBracket>>, <<RightBrace, RightBracket>>, <<49, RightBrace>>,
     <<Quote, RightBracket>>, <<Colon, 49, RightBrace>>, <<Quote, Colon, 49, RightBrace>>,
     <<Quote, Quote, Colon, 49, RightBrace>>, <<49, 49, RightBracket>>, <<Quote, RightBrace>>}
=============================================================================
