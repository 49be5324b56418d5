----------------------------- MODULE JsonPointer -----------------------------
(***************************************************************************)
(* JSON pointers and patches of the JSON library (src/lib/cpp/json.hpp):   *)
(* split, the ways in which a pointer is followed into a document, flatten *)
(* and unflatten, the operations of a patch, and diff.                     *)
(*                                                                         *)
(* A reference into a document is the path to it: the keys and the places  *)
(* in arrays, which count from 1 here.  The patch is a sequence of         *)
(* records; one that is no array of objects is not modelled.               *)
(***************************************************************************)
EXTENDS JsonValue

Slash == 47
Tilde == 126
Zero == 48
One == 49
Hyphen == <<45>>
Digit == 48 .. 57

Null == <<"null">>
-----------------------------------------------------------------------------
(* Pointers.                                                               *)

(* replace_substring, which goes on behind what it has put in.             *)
RECURSIVE Replaced(_, _, _)
Replaced(s, f, t) ==
    IF s = <<>> THEN <<>>
    ELSE IF IsPrefix(f, s) THEN t \o Replaced(SubSeq(s, Len(f) + 1, Len(s)), f, t)
    ELSE <<Head(s)>> \o Replaced(Tail(s), f, t)

(* escape and unescape.  The order of the two replacements counts.         *)
OnlySlashes(token) == Replaced(token, <<Slash>>, <<Tilde, One>>) \* slip
Escape(token) == Replaced(Replaced(token, <<Tilde>>, <<Tilde, Zero>>), <<Slash>>, <<Tilde, One>>)

Unescape(token) ==
    Replaced(Replaced(token, <<Tilde, One>>, <<Slash>>), <<Tilde, Zero>>, <<Tilde>>)

(* The tokens of a pointer.                                                *)
Split(string) ==
    LET slashes == SetToSortSeq({i \in DOMAIN string : string[i] = Slash}, <)
        end(k) == IF k < Len(slashes) THEN slashes[k + 1] - 1 ELSE Len(string)
        tokens == [k \in DOMAIN slashes |-> SubSeq(string, slashes[k] + 1, end(k))]
        Escaped(token) == \A i \in DOMAIN token : token[i] = Tilde =>
                            i < Len(token) /\ token[i + 1] \in {Zero, One}
    IN  IF string # <<>> /\ string[1] # Slash THEN Error("parse_error")
        ELSE IF \E k \in DOMAIN tokens : ~Escaped(tokens[k]) THEN Error("parse_error")
        ELSE Result([k \in DOMAIN tokens |-> Unescape(tokens[k])], <<>>)

(* std::to_string, and std::stoi of a text without blanks: the number it   *)
(* begins with.                                                            *)
RECURSIVE Decimal(_)
Decimal(n) == IF n < 10 THEN <<48 + n>> ELSE Append(Decimal(n \div 10), 48 + (n % 10))

Natural(digits) == FoldLeft(LAMBDA n, c : 10 * n + (c - 48), 0, digits)

Stoi(token) ==
    LET unsigned == IF token # <<>> /\ token[1] \in {43, 45} THEN Tail(token) ELSE token
        n == Cardinality({i \in DOMAIN unsigned : \A k \in 1 .. i : unsigned[k] \in Digit})
    IN  IF n = 0 THEN Error("invalid_argument")
        ELSE Result(Natural(SubSeq(unsigned, 1, n)) * (IF token[1] = 45 THEN -1 ELSE 1), <<>>)

\* In a pointer that is followed, a token that is no number is a parse_error.
Index(token) == IF Stoi(token).error = "none" THEN Stoi(token) ELSE Error("parse_error")
-----------------------------------------------------------------------------
(* Following a pointer.  One token leads from a value to one inside of it; *)
(* the result is the value, in which there is something at that place now, *)
(* and the place.                                                          *)

\* at(key) and at(index).
AtKey(v, key) == IF key \in DOMAIN v[2] THEN Result(v, key) ELSE Error("out_of_range")
AtIndex(v, n) == IF n \in 0 .. Len(v[2]) - 1 THEN Result(v, n + 1) ELSE Error("out_of_range")

\* operator[](key) and operator[](index): what is not there is made null.
\* An index below 0 is one above every size when it is taken for a size_type;
\* -1 in an empty array, where adding one to it gives 0, is not modelled.
SubscriptKey(v, key) ==
    LET members == IF v = Null THEN <<>> ELSE v[2]
    IN  Result(<<"object", Insert(members, key, Null)>>, key)

SubscriptIndex(v, n) ==
    LET elements == IF v = Null THEN <<>> ELSE v[2]
        missing == IF n < Len(elements) THEN 0 ELSE n + 1 - Len(elements)
    IN  IF n < 0 THEN Error("length_error")
        ELSE Result(<<"array", elements \o [i \in 1 .. missing |-> Null]>>, n + 1)

LeadingZero(token) == Len(token) > 1 /\ token[1] = Zero

(* get_checked.                                                            *)
Checked(v, token) ==
    CASE v[1] = "object" -> AtKey(v, token)
      [] v[1] = "array" /\ token = Hyphen -> Error("out_of_range")
      [] v[1] = "array" /\ LeadingZero(token) -> Error("parse_error")
      [] v[1] = "array" /\ token # Hyphen /\ ~LeadingZero(token) ->
            Then(Index(token), LAMBDA n : AtIndex(v, n.value))
      [] OTHER -> Error("out_of_range")

(* get_unchecked, which makes an array or an object of null.               *)
Unchecked(v, token) ==
    LET isArray == \/ v[1] = "array"
                   \/ v = Null /\ (token = Hyphen \/ \A i \in DOMAIN token : token[i] \in Digit)
    IN  CASE isArray /\ LeadingZero(token) -> Error("parse_error")
          [] isArray /\ token = Hyphen -> SubscriptIndex(v, IF v = Null THEN 0 ELSE Len(v[2]))
          [] isArray /\ ~LeadingZero(token) /\ token # Hyphen ->
                Then(Index(token), LAMBDA n : SubscriptIndex(v, n.value))
          [] ~isArray /\ v[1] \in {"null", "object"} -> SubscriptKey(v, token)
          [] OTHER -> Error("out_of_range")

(* get_and_create, for which only 0 makes an array of null.                *)
Created(v, token) ==
    CASE v = Null /\ token = <<Zero>> -> SubscriptIndex(v, 0)
      [] v[1] = "object" \/ (v = Null /\ token # <<Zero>>) -> SubscriptKey(v, token)
      [] v[1] = "array" -> Then(Index(token), LAMBDA n : SubscriptIndex(v, n.value))
      [] OTHER -> Error("type_error")

Follow(way, v, token) ==
    CASE way = "checked" -> Checked(v, token)
      [] way = "unchecked" -> Unchecked(v, token)
      [] way = "create" -> Created(v, token)

\* All tokens: the document, and the path to what they refer to.
RECURSIVE Resolve(_, _, _)
Resolve(way, v, tokens) ==
    IF tokens = <<>> THEN Result(v, <<>>)
    ELSE Then(Follow(way, v, Head(tokens)), LAMBDA here :
            Then(Resolve(way, here.value[2][here.next], Tail(tokens)), LAMBDA below :
                Result([here.value EXCEPT ![2][here.next] = below.value],
                       <<here.next>> \o below.next)))

\* What a reference refers to, and an assignment to it.
Get(v, path) == FoldLeft(LAMBDA w, place : w[2][place], v, path)

RECURSIVE Put(_, _, _)
Put(v, path, new) ==
    IF path = <<>> THEN new ELSE [v EXCEPT ![2][Head(path)] = Put(@, Tail(path), new)]
-----------------------------------------------------------------------------
(* flatten: a function from pointers to what is not structured.            *)

Merged(functions) == FoldLeft(LAMBDA f, g : g @@ f, <<>>, functions)

RECURSIVE Flatten(_, _)
Flatten(reference, v) ==
    CASE v[1] \in Structured /\ DOMAIN v[2] = {} -> reference :> Null
      [] v[1] = "array" /\ v[2] # <<>> ->
            Merged([i \in DOMAIN v[2] |-> Flatten(reference \o <<Slash>> \o Decimal(i - 1), v[2][i])])
      [] v[1] = "object" /\ DOMAIN v[2] # {} ->
            LET keys == Keys(v[2])
            IN  Merged([i \in DOMAIN keys |->
                            Flatten(reference \o <<Slash>> \o Escape(keys[i]), v[2][keys[i]])])
      [] OTHER -> reference :> v

(* unflatten.                                                              *)
Restore(v, pointer, primitive) ==
    Then(Split(pointer), LAMBDA tokens :
        Then(Resolve("create", v, tokens.value), LAMBDA made :
            Result(Put(made.value, made.next, primitive), <<>>)))

Unflatten(v) ==
    IF v[1] # "object" \/ \E k \in DOMAIN v[2] : v[2][k][1] \in Structured
    THEN Error("type_error")
    ELSE FoldLeft(LAMBDA r, k : Then(r, LAMBDA s : Restore(s.value, k, v[2][k])),
                  Result(Null, <<>>), Keys(v[2]))
-----------------------------------------------------------------------------
(* The operations of a patch, on the document as the ones before left it.  *)

(* operation_add: into the parent that the unchecked pointer refers to.    *)
AddToArray(doc, path, token, v) ==
    LET elements == Get(doc, path)[2]
    IN  IF token = Hyphen THEN Result(Put(doc, path, <<"array", Append(elements, v)>>), <<>>)
        ELSE Then(Stoi(token), LAMBDA n :
                IF n.value \notin 0 .. Len(elements) THEN Error("out_of_range")
                ELSE Result(Put(doc, path, <<"array", InsertAt(elements, n.value + 1, v)>>), <<>>))

\* A parent that is neither null, an object nor an array fails an assertion.
AddTo(doc, path, token, v) ==
    LET parent == Get(doc, path)
    IN  CASE parent = Null -> Result(Put(doc, path, <<"object", token :> v>>), <<>>)
          [] parent[1] = "object" ->
                Result(Put(doc, path, <<"object", Assign(parent[2], token, v)>>), <<>>)
          [] parent[1] = "array" -> AddToArray(doc, path, token, v)
          [] OTHER -> Error("assertion")

OperationAdd(doc, tokens, v) ==
    IF tokens = <<>> THEN Result(v, <<>>)
    ELSE IF Len(tokens) > 1 /\ Checked(doc, tokens[1]).error # "none"
    THEN Checked(doc, tokens[1])
    ELSE Then(Resolve("unchecked", doc, Front(tokens)), LAMBDA parent :
            AddTo(parent.value, parent.next, Last(tokens), v))

(* operation_remove: nothing happens in a parent that is a primitive.      *)
RemoveFrom(doc, path, token) ==
    LET parent == Get(doc, path)
    IN  CASE parent[1] = "object" /\ token \in DOMAIN parent[2] ->
                Result(Put(doc, path, <<"object", Restrict(parent[2], DOMAIN parent[2] \ {token})>>), <<>>)
          [] parent[1] = "object" /\ token \notin DOMAIN parent[2] -> Error("out_of_range")
          [] parent[1] = "array" ->
                Then(Stoi(token), LAMBDA n :
                    IF n.value \notin 0 .. Len(parent[2]) - 1 THEN Error("out_of_range")
                    ELSE Result(Put(doc, path, <<"array", RemoveAt(parent[2], n.value + 1)>>), <<>>))
          [] OTHER -> Result(doc, <<>>)

OperationRemove(doc, tokens) ==
    IF tokens = <<>> THEN Error("out_of_range")
    ELSE Then(Resolve("checked", doc, Front(tokens)), LAMBDA parent :
            RemoveFrom(doc, parent.next, Last(tokens)))

OperationReplace(doc, tokens, v) ==
    Then(Resolve("checked", doc, tokens), LAMBDA old : Result(Put(doc, old.next, v), <<>>))

OperationMove(doc, from, tokens) ==
    Then(Resolve("checked", doc, from), LAMBDA source :
        Then(OperationRemove(doc, from), LAMBDA removed :
            OperationAdd(removed.value, tokens, Get(doc, source.next))))

(* What is there is overwritten, in an array too.  The standard of the     *)
(* build leaves open which side of result[ptr] = result.at(from_ptr) comes *)
(* first, and it counts when one of the two places is inside the other.    *)
OperationCopy(doc, from, tokens) ==
    Then(Resolve("checked", doc, from), LAMBDA source :
        Then(Resolve("unchecked", doc, tokens), LAMBDA target :
            Result(Put(target.value, target.next, Get(doc, source.next)), <<>>)))

OperationCopyTargetFirst(doc, from, tokens) ==
    Then(Resolve("unchecked", doc, tokens), LAMBDA target :
        Then(Resolve("checked", target.value, from), LAMBDA source :
            Result(Put(target.value, target.next, Get(target.value, source.next)), <<>>)))

OperationTest(doc, tokens, v) ==
    LET found == Resolve("checked", doc, tokens)
    IN  CASE found.error = "none" /\ Equal(Get(doc, found.next), v) -> Result(doc, <<>>)
          [] found.error \in {"none", "out_of_range"} -> Error("other_error")
          [] OTHER -> found
-----------------------------------------------------------------------------
(* diff.                                                                   *)

Replacing(path, v) == <<[op |-> "replace", path |-> path, value |-> v]>>
Adding(path, v) == <<[op |-> "add", path |-> path, value |-> v]>>
Removing(path) == <<[op |-> "remove", path |-> path]>>

Below(path, token) == path \o <<Slash>> \o token

\* The elements that only one of two arrays has, the last of them removed first.
FirstFirst(source, target, path) == \* slip
    FlattenSeq([k \in 1 .. Len(source) - Len(target) |-> Removing(Below(path, Decimal(Len(target) + k - 1)))])
    \o FlattenSeq([k \in 1 .. Len(target) - Len(source) |->
            Adding(Below(path, Decimal(Len(source) + k - 1)), target[Len(source) + k])])
Remaining(source, target, path) ==
    FlattenSeq([k \in 1 .. Len(source) - Len(target) |->
            Removing(Below(path, Decimal(Len(source) - k)))])
    \o FlattenSeq([k \in 1 .. Len(target) - Len(source) |->
            Adding(Below(path, Decimal(Len(source) + k - 1)), target[Len(source) + k])])

\* The members that an object has and the source has not.
NewMembers(source, target, path) ==
    LET keys == SelectSeq(Keys(target), LAMBDA k : k \notin DOMAIN source)
    IN  FlattenSeq([i \in DOMAIN keys |-> Adding(Below(path, Escape(keys[i])), target[keys[i]])])

RECURSIVE Diff(_, _, _)
DiffArrays(source, target, path) ==
    FlattenSeq([i \in DOMAIN source \intersect DOMAIN target |->
        Diff(source[i], target[i], Below(path, Decimal(i - 1)))])
    \o Remaining(source, target, path)

DiffObjects(source, target, path) ==
    LET keys == Keys(source)
        at(k) == Below(path, Escape(k))
    IN  FlattenSeq([i \in DOMAIN keys |->
            IF keys[i] \in DOMAIN target THEN Diff(source[keys[i]], target[keys[i]], at(keys[i]))
            ELSE Removing(at(keys[i]))])
        \o NewMembers(source, target, path)

Diff(source, target, path) ==
    CASE Equal(source, target) -> <<>>
      [] ~Equal(source, target) /\ source[1] = target[1] /\ source[1] = "array" ->
            DiffArrays(source[2], target[2], path)
      [] ~Equal(source, target) /\ source[1] = target[1] /\ source[1] = "object" ->
            DiffObjects(source[2], target[2], path)
      [] OTHER -> Replacing(path, target)
=============================================================================
