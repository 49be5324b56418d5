---------------------------- MODULE NiceJSONCodec ----------------------------
(***************************************************************************)
(* The two interpreters that turn a Thrift value in binary form into JSON  *)
(* and back, guided by a typelib (src/lib/cpp/NiceJSON.cpp 323-871).       *)
(*                                                                         *)
(* A type is a record with a kind; a struct's fields are a set of records  *)
(* [id, name, type].  The binary form, as the code that Thrift generates   *)
(* writes and reads it, is a tree whose nodes carry the types that are on  *)
(* the wire: fields are a function from ids, entries of a map a set.  JSON *)
(* values are records too.  Typedefs are resolved, and types are trees: no *)
(* struct contains itself.                                                 *)
(*                                                                         *)
(* The interpreters call themselves for the parts of a value.  A call is a *)
(* record; what a call returns is defined, at the end, from what the calls *)
(* that it makes return.                                                   *)
(***************************************************************************)
EXTENDS Integers, Sequences, FiniteSets, SequencesExt

CONSTANTS
    Int8, Int16, Int32, Int64,  \* the integers of each width
    Decimal,       \* std::to_string: a function from integers to texts
    Stoll,         \* std::stoll: a function on the texts that it reads
    Labels,        \* the enum: a function from labels to numbers
    Types,         \* the types, and the types of their parts
    Depth,         \* how deep a type is nested
    Pairings,      \* the types of both ends: a sequence of [writer, reader]
    BinaryOf(_),   \* the binary forms that generated code writes of a type
    Inputs,        \* JSON somebody wrote: a sequence of [reader, js]
    Skipped(_)     \* skip2json: the JSON for a part that no type describes

VARIABLES
    task,   \* the types of both ends, and whether marshalling is permissive
    stage,  \* "binary", "json" or "done", or "refused" for an exception
    wire,   \* the binary form the conversion starts from, if it does
    js,     \* the JSON made of it, or the JSON it starts from
    back    \* the binary form made of js

vars == <<task, stage, wire, js, back>>

Nothing == <<>>

ASSUME WidthAssumption == Int8 \subseteq Int16 /\ Int16 \subseteq Int32 /\ Int32 \subseteq Int64
ASSUME LabelAssumption == \A l \in DOMAIN Labels : Labels[l] \in Int32
ASSUME NumeralAssumption ==
    /\ \A n \in Int64 : Decimal[n] \in DOMAIN Stoll /\ Stoll[Decimal[n]] = n
    /\ \A s \in DOMAIN Stoll : Stoll[s] \in Int64

Containers == {"list", "set"}
Kinds == Containers \union
    {"bool", "i8", "i16", "i32", "i64", "double", "string", "binary", "enum", "map", "struct"}

(* Types are trees, and a struct has neither two fields of one id or name, *)
(* nor one whose name is a number: Thrift's compiler sees to that.         *)
PartOf(s, t) == s \in Types /\ Depth[s] < Depth[t]
ASSUME TypeAssumption ==
    \A t \in Types :
        /\ t.kind \in Kinds /\ Depth[t] \in Nat
        /\ t.kind \in Containers \union {"map"} => PartOf(t.elem, t)
        /\ t.kind = "map" => PartOf(t.key, t)
        /\ t.kind = "struct" =>
              /\ \A f \in t.fields : PartOf(f.type, t) /\ \A n \in Int64 : f.name # Decimal[n]
              /\ \A f, g \in t.fields : f.id = g.id \/ f.name = g.name => f = g

(* The TType on the wire: t_type2ttype and t_base2ttype, but those throw    *)
(* for a type that is "binary".                                            *)
HasTType(t) == t.kind # "binary"
TType(t) ==
    CASE t.kind = "bool" -> "T_BOOL"
      [] t.kind = "i8" -> "T_I08"
      [] t.kind = "i16" -> "T_I16"
      [] t.kind \in {"i32", "enum"} -> "T_I32"
      [] t.kind = "i64" -> "T_I64"
      [] t.kind = "double" -> "T_DOUBLE"
      [] t.kind \in {"string", "binary"} -> "T_STRING"
      [] t.kind = "list" -> "T_LIST"
      [] t.kind = "set" -> "T_SET"
      [] t.kind = "map" -> "T_MAP"
      [] t.kind = "struct" -> "T_STRUCT"

FieldsById(t) == [i \in {f.id : f \in t.fields} |-> CHOOSE f \in t.fields : f.id = i]
FieldsByName(t) == [n \in {f.name : f \in t.fields} |-> CHOOSE f \in t.fields : f.name = n]

(* The fields of a struct on the wire that its typelib knows: same id and  *)
(* same TType.                                                             *)
ById(t, w) == {i \in DOMAIN w.val : i \in DOMAIN FieldsById(t)} \* by the id alone
Known(t, w) ==
    {i \in DOMAIN w.val : /\ i \in DOMAIN FieldsById(t)
                          /\ TType(FieldsById(t)[i].type) = w.val[i].ttype}
-----------------------------------------------------------------------------
(* Calls.  While c runs, result is what the calls that it makes return, and *)
(* ForPart what the one for a part of its value does.                      *)

Call(function, type, value, permissive) ==
    [function |-> function, type |-> type, value |-> value, permissive |-> permissive]

ForPart(c, result, t, x) == result[Call(c.function, t, x, c.permissive)]
-----------------------------------------------------------------------------
(* protocol2json.                                                          *)

Json(kind, val) == [json |-> kind, val |-> val]

(* The parts of a value that protocol2json calls itself for.               *)
BinaryParts(t, w) ==
    CASE t.kind \in Containers -> {<<t.elem, w.val[i]>> : i \in DOMAIN w.val}
      [] t.kind = "map" -> {<<t.key, e[1]>> : e \in w.val} \union {<<t.elem, e[2]>> : e \in w.val}
      [] t.kind = "struct" -> {<<FieldsById(t)[i].type, w.val[i]>> : i \in Known(t, w)}
      [] OTHER -> {}

(* It throws at an enum value without a label, and at a type that is        *)
(* "binary", that of a field included whatever is on the wire.             *)
Unmarshallable(t, w) ==
    \/ t.kind = "binary"
    \/ t.kind = "enum" /\ \A l \in DOMAIN Labels : Labels[l] # w.val
    \/ t.kind = "struct" /\ \E i \in ById(t, w) : ~HasTType(FieldsById(t)[i].type)

(* What an initializer list of two, {key, value}, makes: an object when    *)
(* both are arrays of two whose first is a string, else an array.          *)
LooksLikeMember(j) == j.json = "array" /\ Len(j.val) = 2 /\ j.val[1].json = "string"
Pair(k, v) ==
    IF LooksLikeMember(k) /\ LooksLikeMember(v)
    THEN Json("object", [n \in {k.val[1].val, v.val[1].val} |->
                            IF n = k.val[1].val THEN k.val[2] ELSE v.val[2]])
    ELSE Json("array", <<k, v>>)

(* The JSON object of a map with keys that are strings on the wire, and    *)
(* the array of its entries for other maps.                                *)
ObjectOf(c, result) ==
    LET Key(e) == ForPart(c, result, c.type.key, e[1])
        Value(e) == ForPart(c, result, c.type.elem, e[2])
    IN  Json("object", [k \in {Key(e).val : e \in c.value.val} |->
                            Value(CHOOSE e \in c.value.val : Key(e).val = k)])
ArrayOf(c, result) ==
    LET entries == SetToSeq(c.value.val)
    IN  Json("array", [i \in DOMAIN entries |->
                          Pair(ForPart(c, result, c.type.key, entries[i][1]),
                               ForPart(c, result, c.type.elem, entries[i][2]))])

(* Of the fields of a struct that it does not know it keeps none, or, when *)
(* permissive, all, by their ids.                                          *)
NameOfId(t, w, i) == IF i \in ById(t, w) THEN FieldsById(t)[i].name ELSE Decimal[i] \* of any TType
MemberName(t, w, i) == IF i \in Known(t, w) THEN FieldsById(t)[i].name ELSE Decimal[i]
StructJson(c, result) ==
    LET t == c.type
        w == c.value
        kept == IF c.permissive THEN DOMAIN w.val ELSE Known(t, w)
    IN  Json("object",
             [n \in {MemberName(t, w, i) : i \in kept} |->
                LET i == CHOOSE i \in kept : MemberName(t, w, i) = n
                IN  IF i \in Known(t, w) THEN ForPart(c, result, FieldsById(t)[i].type, w.val[i])
                    ELSE Skipped(w.val[i])])

(* Of two labels of one number it finds the last: here, any.               *)
LabelOf(n) == CHOOSE l \in DOMAIN Labels : Labels[l] = n

JsonOf(c, result) ==
    LET t == c.type
        w == c.value
    IN  CASE t.kind = "bool" -> Json("boolean", w.val)
          [] t.kind \in {"i8", "i16", "i32", "double"} -> Json("number", w.val)
          [] t.kind = "i64" -> Json("string", Decimal[w.val])
          [] t.kind = "string" -> Json("string", w.val)
          [] t.kind = "enum" -> Json("string", LabelOf(w.val))
          [] t.kind \in Containers ->
                Json("array", [i \in DOMAIN w.val |-> ForPart(c, result, t.elem, w.val[i])])
          [] t.kind = "map" -> IF TType(t.key) = "T_STRING" THEN ObjectOf(c, result) ELSE ArrayOf(c, result)
          [] t.kind = "struct" -> StructJson(c, result)
-----------------------------------------------------------------------------
(* json2protocol.                                                          *)

(* get_exactly<ITY> accepts the integers of the type.                      *)
IsNumber(j, range) == j.json = "number" \* of any size
Fits(j, range) == j.json = "number" /\ j.val \in range

(* stoll reads the number that a text begins with, and throws if that is   *)
(* none of an int64_t.                                                     *)
Digits(j) == j.json = "string" /\ j.val \in DOMAIN Stoll /\ Stoll[j.val] >= 0 \* without a sign
Numeral(j) == j.json = "string" /\ j.val \in DOMAIN Stoll

(* A map is an object when its keys are strings on the wire, else an array *)
(* of entries that are arrays.                                             *)
MapForm(t, j) ==
    /\ HasTType(t.key) /\ HasTType(t.elem)
    /\ j.json = IF TType(t.key) = "T_STRING" THEN "object" ELSE "array"
    /\ j.json = "array" => \A i \in DOMAIN j.val : j.val[i].json = "array"

(* What it takes, if it takes the parts: it throws on everything else.     *)
Takes(t, j) ==
    CASE t.kind = "bool" -> j.json = "boolean"
      [] t.kind = "i8" -> Fits(j, Int8)
      [] t.kind = "i16" -> Fits(j, Int16)
      [] t.kind = "i32" -> Fits(j, Int32)
      [] t.kind = "i64" -> Numeral(j)
      [] t.kind = "double" -> j.json = "number"
      [] t.kind = "string" -> j.json = "string"
      [] t.kind = "enum" -> j.json = "string" /\ j.val \in DOMAIN Labels
      [] t.kind = "binary" -> FALSE
      [] t.kind \in Containers -> j.json = "array" /\ HasTType(t.elem)
      [] t.kind = "map" -> MapForm(t, j)
      [] t.kind = "struct" -> j.json = "object"

(* The parts that it calls itself for: of an object the members that name  *)
(* a field.                                                                *)
JsonParts(t, j) ==
    CASE t.kind \in Containers -> {<<t.elem, j.val[i]>> : i \in DOMAIN j.val}
      [] t.kind = "map" /\ j.json = "object" ->
            {<<t.key, Json("string", k)>> : k \in DOMAIN j.val}
            \union {<<t.elem, j.val[k]>> : k \in DOMAIN j.val}
      [] t.kind = "map" /\ j.json = "array" ->
            {<<t.key, j.val[i].val[1]>> : i \in DOMAIN j.val}
            \union {<<t.elem, j.val[i].val[2]>> : i \in DOMAIN j.val}
      [] t.kind = "struct" ->
            {<<FieldsByName(t)[n].type, j.val[n]>> : n \in DOMAIN j.val \intersect DOMAIN FieldsByName(t)}
      [] OTHER -> {}

(* What it writes.                                                         *)
EntriesFrom(c, result) ==
    LET j == c.value
        Key(x) == ForPart(c, result, c.type.key, x)
        Value(x) == ForPart(c, result, c.type.elem, x)
    IN  IF j.json = "object" THEN {<<Key(Json("string", k)), Value(j.val[k])>> : k \in DOMAIN j.val}
        ELSE {<<Key(j.val[i].val[1]), Value(j.val[i].val[2])>> : i \in DOMAIN j.val}
FieldsFrom(c, result) ==
    LET t == c.type
        j == c.value
    IN  [i \in {f.id : f \in {f \in t.fields : f.name \in DOMAIN j.val}} |->
            ForPart(c, result, FieldsById(t)[i].type, j.val[FieldsById(t)[i].name])]
BinaryFrom(c, result) ==
    LET t == c.type
        j == c.value
    IN  [ttype |-> TType(t),
         val |-> CASE t.kind \in {"bool", "i8", "i16", "i32", "double", "string"} -> j.val
                   [] t.kind = "i64" -> Stoll[j.val]
                   [] t.kind = "enum" -> Labels[j.val]
                   [] t.kind \in Containers -> [i \in DOMAIN j.val |-> ForPart(c, result, t.elem, j.val[i])]
                   [] t.kind = "map" -> EntriesFrom(c, result)
                   [] t.kind = "struct" -> FieldsFrom(c, result)]
-----------------------------------------------------------------------------
(* What of a binary form, written by another version of the type perhaps,  *)
(* a reader is to find: in structs, the fields that it knows.              *)
SharedOf(c, result) ==
    LET t == c.type
    IN  [c.value EXCEPT !.val =
            CASE t.kind \in Containers -> [i \in DOMAIN @ |-> ForPart(c, result, t.elem, @[i])]
              [] t.kind = "map" ->
                    {<<ForPart(c, result, t.key, e[1]), ForPart(c, result, t.elem, e[2])>> : e \in @}
              [] t.kind = "struct" ->
                    [i \in Known(t, c.value) |-> ForPart(c, result, FieldsById(t)[i].type, @[i])]
              [] OTHER -> @]
-----------------------------------------------------------------------------
(* The calls that a call makes; json2protocol makes none when it throws.   *)
Parts(c) ==
    CASE c.function \in {"protocol2json", "shared"} -> BinaryParts(c.type, c.value)
      [] c.function = "json2protocol" -> IF Takes(c.type, c.value) THEN JsonParts(c.type, c.value) ELSE {}
Made(c) == {Call(c.function, p[1], p[2], c.permissive) : p \in Parts(c)}

(* All that come of a call: itself, those that it makes, those that they   *)
(* make.  The n-th are those n calls deep.                                 *)
Calls(c) ==
    LET nth[n \in Nat] == IF n = 0 THEN {c} ELSE UNION {Made(d) : d \in nth[n - 1]}
    IN  UNION {nth[n] : n \in 0 .. Depth[c.type]}

(* What a call returns, if those that it makes return what result says.    *)
Body(c, result) ==
    CASE c.function = "protocol2json" -> JsonOf(c, result)
      [] c.function = "json2protocol" -> BinaryFrom(c, result)
      [] c.function = "shared" -> SharedOf(c, result)

Result(call) ==
    LET result[c \in Calls(call)] == Body(c, [d \in Made(c) |-> result[d]])
    IN  result[call]

Marshalling(t, w, permissive) == Call("protocol2json", t, w, permissive)
Demarshalling(t, j) == Call("json2protocol", t, j, FALSE)

Protocol2json(t, w, permissive) == Result(Marshalling(t, w, permissive))
Json2protocol(t, j) == Result(Demarshalling(t, j))
Shared(t, w) == Result(Call("shared", t, w, FALSE))

(* No call that comes of these throws.                                     *)
Marshallable(t, w) == \A c \in Calls(Marshalling(t, w, FALSE)) : ~Unmarshallable(c.type, c.value)
Accepted(t, j) == \A c \in Calls(Demarshalling(t, j)) : Takes(c.type, c.value)
-----------------------------------------------------------------------------
(* A binary form of a type: on the wire is its TType, and no number that   *)
(* is wider.                                                               *)
HasRange(t, w) ==
    /\ w = [ttype |-> TType(t), val |-> w.val]
    /\ t.kind = "i8" => w.val \in Int8
    /\ t.kind = "i16" => w.val \in Int16
    /\ t.kind \in {"i32", "enum"} => w.val \in Int32
    /\ t.kind = "i64" => w.val \in Int64

(* What generated code writes besides: lists, maps with a key once, and    *)
(* fields, whose ids are of 16 bits.                                       *)
WellFormed(t, w) ==
    /\ t.kind \in Containers => w.val \in Seq({w.val[i] : i \in DOMAIN w.val})
    /\ t.kind = "map" => IsFiniteSet(w.val) /\ \A d, e \in w.val : d[1] = e[1] => d = e
    /\ t.kind = "struct" => DOMAIN w.val \subseteq Int16

(* The elements of the containers are those that the reader's types say,   *)
(* in the fields of structs that it knows.                                 *)
Readable(t, w) ==
    \A c \in Calls(Marshalling(t, w, FALSE)) :
        HasRange(c.type, c.value) /\ WellFormed(c.type, c.value)

ASSUME TaskAssumption ==
    /\ \A n \in DOMAIN Pairings :
        Pairings[n].reader \in Types
        /\ \A w \in BinaryOf(Pairings[n].writer) : Readable(Pairings[n].reader, w)
    /\ \A n \in DOMAIN Inputs : Inputs[n].reader \in Types
-----------------------------------------------------------------------------
Init ==
    /\ back = Nothing
    /\ \/ \E n \in DOMAIN Pairings, permissive \in BOOLEAN :
            /\ task = [writer |-> Pairings[n].writer, reader |-> Pairings[n].reader,
                       permissive |-> permissive]
            /\ stage = "binary" /\ js = Nothing
            /\ wire \in BinaryOf(Pairings[n].writer)
       \/ \E n \in DOMAIN Inputs :
            /\ task = [writer |-> Inputs[n].reader, reader |-> Inputs[n].reader, permissive |-> FALSE]
            /\ stage = "json" /\ wire = Nothing /\ js = Inputs[n].js

MarshalFromBinary ==
    /\ stage = "binary"
    /\ Marshallable(task.reader, wire)
    /\ js' = Protocol2json(task.reader, wire, task.permissive)
    /\ stage' = "json"
    /\ UNCHANGED <<task, wire, back>>

(* In a map that is not an object every entry must be an array; one with    *)
(* less than two elements is read past its end, and is not in Inputs.      *)
DemarshalToBinary ==
    /\ stage = "json"
    /\ Accepted(task.reader, js)
    /\ back' = Json2protocol(task.reader, js)
    /\ stage' = "done"
    /\ UNCHANGED <<task, wire, js>>

Throws ==
    /\ \/ stage = "binary" /\ ~Marshallable(task.reader, wire)
       \/ stage = "json" /\ ~Accepted(task.reader, js)
    /\ stage' = "refused"
    /\ UNCHANGED <<task, wire, js, back>>

Next == MarshalFromBinary \/ DemarshalToBinary \/ Throws

Spec == Init /\ [][Next]_vars
-----------------------------------------------------------------------------
(* Properties.                                                             *)

(* A value that goes through JSON unrefused comes back with every field    *)
(* that its writer and its reader both know, at every depth, unchanged, and *)
(* nothing else: with one typelib at both ends it comes back whole.        *)
ReaderGetsShared ==
    stage = "done" /\ wire # Nothing => back = Shared(task.reader, wire)

(* What the interpreters refuse: an enum without a label; the type binary; *)
(* an entry of a map from arrays to arrays that Pair takes for members.    *)
TwoTexts(t, w) ==
    t.kind \in Containers /\ Len(w.val) = 2 /\ t.elem.kind \in {"string", "i64", "enum"}

Unsupported(t, w) ==
    \/ Unmarshallable(t, w)
    \/ t.kind \in Containers /\ ~HasTType(t.elem)
    \/ t.kind = "map" /\ (~HasTType(t.key) \/ ~HasTType(t.elem))
    \/ t.kind = "map" /\ \E e \in w.val : TwoTexts(t.key, e[1]) /\ TwoTexts(t.elem, e[2])

(* Nothing else that generated code can write is refused, in either         *)
(* direction: what protocol2json makes, json2protocol takes.               *)
RefusedIsUnsupported ==
    stage = "refused" /\ wire # Nothing =>
        \E c \in Calls(Marshalling(task.reader, wire, FALSE)) : Unsupported(c.type, c.value)

(* Whatever JSON somebody wrote, the binary form made of it is one that a  *)
(* generated reader of the type takes: every field is one that it knows,   *)
(* with the TType that it expects, and no number is wider than its type.   *)
Clean(t, w) == HasRange(t, w) /\ (t.kind = "struct" => Known(t, w) = DOMAIN w.val)

NumbersFit ==
    stage = "done" =>
        \A c \in Calls(Marshalling(task.reader, back, FALSE)) : Clean(c.type, c.value)

(* docs/faq.asciidoc says that this method "can work with any Thrift       *)
(* data-types": no value that generated code can write is refused.         *)
AnyDataTypeWorks == wire # Nothing => stage # "refused"
=============================================================================
