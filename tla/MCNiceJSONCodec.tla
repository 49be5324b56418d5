--------------------------- MODULE MCNiceJSONCodec ---------------------------
(* Small types, values and JSON texts for NiceJSONCodec. *)
EXTENDS NiceJSONSkip, TLC

Base(kind) == [kind |-> kind]
ListOf(t) == [kind |-> "list", elem |-> t]
SetOf(t) == [kind |-> "set", elem |-> t]
MapOf(t, u) == [kind |-> "map", key |-> t, elem |-> u]
StructOf(fs) == [kind |-> "struct", fields |-> fs]
Field(id, name, t) == [id |-> id, name |-> name, type |-> t]

\* Two versions of one struct: field 1 is wider, 2 has another name, 3 is new,
\* 4 is gone, and 5 holds the two versions of another, with a wider and a new field.
OldBar == StructOf({Field(1, "x", Base("i8")), Field(2, "y", Base("string"))})
NewBar == StructOf({Field(1, "x", Base("i16")), Field(2, "y", Base("string")), Field(3, "z", Base("i64"))})
OldFoo == StructOf({Field(1, "a", Base("i32")), Field(2, "b", Base("string")),
                    Field(4, "d", MapOf(Base("i8"), Base("i64"))), Field(5, "e", ListOf(OldBar))})
NewFoo == StructOf({Field(1, "a", Base("i64")), Field(2, "bb", Base("string")),
                    Field(3, "c", Base("enum")), Field(5, "e", ListOf(NewBar))})

SameEnds(t) == [writer |-> t, reader |-> t]
AllPairings ==
    <<SameEnds(OldFoo), SameEnds(NewFoo),
      [writer |-> OldFoo, reader |-> NewFoo], [writer |-> NewFoo, reader |-> OldFoo],
      SameEnds(MapOf(Base("string"), ListOf(Base("bool")))),
      SameEnds(MapOf(Base("enum"), SetOf(Base("i64")))),
      SameEnds(MapOf(ListOf(Base("string")), ListOf(Base("i64")))),
      SameEnds(MapOf(OldBar, OldBar)),
      SameEnds(MapOf(Base("i16"), Base("double"))),
      SameEnds(StructOf({Field(1, "p", Base("binary")), Field(2, "q", ListOf(Base("binary")))}))>>

\* Types made of what the test programs declare, containers of containers.
ContainerPairings ==
    <<SameEnds(MapOf(Base("string"), ListOf(Base("string")))),
      SameEnds(MapOf(ListOf(Base("i8")), Base("string"))),
      SameEnds(MapOf(ListOf(Base("string")), ListOf(Base("string"))))>>

MCInt8 == -2 .. 1
MCInt16 == -6 .. 5
MCInt32 == -7 .. 6
MCInt64 == -8 .. 7
MCLabels == [RED |-> 0, BLUE |-> 1, AZURE |-> 1] \* 2 has no label

\* An "x" stands for text that is not of the number.
MCDecimal == [n \in MCInt64 |-> ToString(n)]
MCStoll ==
    LET Texts(n) == {ToString(n), ToString(n) \o "x"}
    IN  [s \in UNION {Texts(n) : n \in MCInt64} |-> CHOOSE n \in MCInt64 : s \in Texts(n)]

\* The types of the pairings and of the JSON below, with all their parts.
RECURSIVE WithParts(_), DepthOf(_)
WithParts(t) ==
    {t} \union CASE t.kind \in {"list", "set"} -> WithParts(t.elem)
                 [] t.kind = "map" -> WithParts(t.key) \union WithParts(t.elem)
                 [] t.kind = "struct" -> UNION {WithParts(f.type) : f \in t.fields}
                 [] OTHER -> {}
DepthOf(t) ==
    LET Deepest(S) == CHOOSE n \in S : \A m \in S : m <= n
    IN  CASE t.kind \in {"list", "set"} -> 1 + DepthOf(t.elem)
          [] t.kind = "map" -> 1 + Deepest({DepthOf(t.key), DepthOf(t.elem)})
          [] t.kind = "struct" -> 1 + Deepest({0} \union {DepthOf(f.type) : f \in t.fields})
          [] OTHER -> 0

\* The ends of every width, and containers of up to two elements.
Strings == {"a", "b"}
UpToTwo(S) == {<<>>} \union {<<x>> : x \in S} \union {<<x, y>> : x, y \in S}
UpToOne(S) == {<<>>} \union {<<x>> : x \in S}

RECURSIVE SmallBinary(_), SmallFields(_)
SmallBinary(t) ==
    LET Wire(vals) == [ttype : {TType(t)}, val : vals]
    IN  CASE t.kind = "bool" -> Wire(BOOLEAN)
          [] t.kind = "i8" -> Wire({-2, 1})
          [] t.kind = "i16" -> Wire({-6, 5})
          [] t.kind = "i32" -> Wire({-7, 6})
          [] t.kind = "i64" -> Wire({-8, 7})
          [] t.kind = "double" -> Wire({-9, 0})
          [] t.kind = "enum" -> Wire({0, 1, 2})
          [] t.kind \in {"string", "binary"} -> Wire(Strings)
          [] t.kind \in {"list", "set"} ->
                Wire(IF t.elem.kind = "struct" THEN UpToOne(SmallBinary(t.elem))
                     ELSE UpToTwo(SmallBinary(t.elem)))
          [] t.kind = "map" ->
                LET entries == SmallBinary(t.key) \X SmallBinary(t.elem)
                IN  Wire({{}} \union {{e} : e \in entries}
                         \union (IF t.key.kind \in {"list", "set", "struct"} THEN {}
                                 ELSE {{g[1], g[2]} : g \in {g \in entries \X entries : g[1][1] # g[2][1]}}))
          [] t.kind = "struct" -> Wire(SmallFields(t.fields))

SmallFields(fields) ==
    IF fields = {} THEN {<<>>}
    ELSE LET f == CHOOSE f \in fields : TRUE
             rest == SmallFields(fields \ {f})
         IN  rest \union {f.id :> w @@ r : w \in SmallBinary(f.type), r \in rest}

\* JSON as a person may write it: numbers out of range, a numeral with a tail,
\* a member that names no field, a label nobody declared.
Number(n) == Json("number", n)
Text(s) == Json("string", s)
Object(members) == Json("object", members)
WrittenByHand ==
    [n \in 1 .. 18 |-> [reader |-> Base("i8"), js |-> Number(n - 10)]] \o
    [n \in 1 .. 18 |-> [reader |-> Base("i16"), js |-> Number(n - 10)]] \o
    [n \in 1 .. 18 |-> [reader |-> Base("i32"), js |-> Number(n - 10)]] \o
    [n \in 1 .. 20 |-> [reader |-> Base("i64"), js |-> Text(ToString(n - 11))]] \o
    [n \in 1 .. 18 |-> [reader |-> OldFoo, js |-> Object([a |-> Number(n - 10), q |-> Text("a")])]] \o
    [n \in 1 .. 18 |->
        [reader |-> MapOf(Base("i8"), Base("i32")),
         js |-> Json("array", <<Json("array", <<Number(n - 10), Number(n - 9)>>)>>)]] \o
    <<[reader |-> Base("i64"), js |-> Text("7x")], [reader |-> Base("i64"), js |-> Number(7)],
      [reader |-> Base("enum"), js |-> Text("BLUE")], [reader |-> Base("enum"), js |-> Text("GREEN")],
      [reader |-> Base("bool"), js |-> Number(1)], [reader |-> Base("double"), js |-> Text("1")],
      [reader |-> ListOf(Base("i8")), js |-> Json("array", <<Number(1), Number(2)>>)]>>
NothingByHand == <<>>

MCTypes ==
    UNION ({WithParts(AllPairings[n].reader) : n \in DOMAIN AllPairings}
           \union {WithParts(ContainerPairings[n].reader) : n \in DOMAIN ContainerPairings}
           \union {WithParts(WrittenByHand[n].reader) : n \in DOMAIN WrittenByHand})
MCDepth == [t \in MCTypes |-> DepthOf(t)]
=============================================================================
