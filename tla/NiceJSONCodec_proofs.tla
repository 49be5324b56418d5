------------------------ MODULE NiceJSONCodec_proofs ------------------------
(* What TLAPS proves of NiceJSONCodec, for any types, values and texts.     *)
EXTENDS NiceJSONCodec, SequenceTheorems, FiniteSetTheorems, WellFoundedInduction, TLAPS
-----------------------------------------------------------------------------
(* A set of numbers has a least one: what the inductions rest on.           *)
LEMMA LeastOf ==
  ASSUME NEW T, T \subseteq Nat, T # {}
  PROVE  \E n \in T : \A m \in T : ~(m < n)
  <1>1. PICK n \in T : \A m \in T : ~(<<m, n>> \in OpToRel(<, Nat))
    BY NatLessThanWellFounded, WFMin
  <1> QED
    BY <1>1 DEF OpToRel

LEMMA NumberInduction ==
  ASSUME NEW T, T \subseteq Nat, 0 \in T, \A n \in T : n + 1 \in T
  PROVE  T = Nat
  <1>1. ASSUME Nat \ T # {} PROVE FALSE
    <2>1. PICK n \in Nat \ T : \A m \in Nat \ T : ~(m < n)
      BY <1>1, LeastOf
    <2>2. n - 1 \in Nat /\ n - 1 < n /\ (n - 1) + 1 = n
      BY <2>1
    <2> QED
      BY <2>1, <2>2
  <1> QED
    BY <1>1

LEMMA TypeInduction ==
  ASSUME NEW T, T \subseteq Types,
         \A t \in Types : (\A s \in Types : PartOf(s, t) => s \in T) => t \in T
  PROVE  T = Types
  <1> DEFINE Ranks == {Depth[t] : t \in Types \ T}
  <1>1. ASSUME Types \ T # {} PROVE FALSE
    <2>1. Ranks \subseteq Nat /\ Ranks # {}
      BY <1>1, TypeAssumption
    <2>2. PICK n \in Ranks : \A m \in Ranks : ~(m < n)
      <3> HIDE DEF Ranks
      <3> QED
        BY <2>1, LeastOf
    <2>3. PICK t \in Types \ T : Depth[t] = n
      BY <2>2
    <2> QED
      BY <2>2, <2>3 DEF PartOf
  <1> QED
    BY <1>1
-----------------------------------------------------------------------------
(* The parts of a type are parts of it.                                     *)
LEMMA FieldsAreFields ==
  ASSUME NEW t, NEW i \in DOMAIN FieldsById(t)
  PROVE  FieldsById(t)[i] \in t.fields /\ FieldsById(t)[i].id = i
  BY DEF FieldsById

LEMMA NamesAreNames ==
  ASSUME NEW t, NEW n \in DOMAIN FieldsByName(t)
  PROVE  FieldsByName(t)[n] \in t.fields /\ FieldsByName(t)[n].name = n
  BY DEF FieldsByName

LEMMA BinaryPartsAreParts ==
  ASSUME NEW t \in Types, NEW w, NEW p \in BinaryParts(t, w)
  PROVE  PartOf(p[1], t)
  <1>1. CASE t.kind \in Containers
    <2>1. PICK i \in DOMAIN w.val : p = <<t.elem, w.val[i]>>
      BY <1>1 DEF BinaryParts, Containers
    <2> QED
      BY <1>1, <2>1, TypeAssumption
  <1>2. CASE t.kind = "map"
    BY <1>2, TypeAssumption DEF BinaryParts, Containers
  <1>3. CASE t.kind = "struct"
    <2>1. PICK i \in Known(t, w) : p = <<FieldsById(t)[i].type, w.val[i]>>
      BY <1>3 DEF BinaryParts, Containers
    <2>2. i \in DOMAIN FieldsById(t)
      BY <2>1 DEF Known
    <2> QED
      BY <1>3, <2>1, <2>2, FieldsAreFields, TypeAssumption
  <1>4. CASE t.kind \notin Containers \union {"map", "struct"}
    BY <1>4 DEF BinaryParts, Containers
  <1> QED
    BY <1>1, <1>2, <1>3, <1>4

LEMMA JsonPartsAreParts ==
  ASSUME NEW t \in Types, NEW j, NEW p \in JsonParts(t, j)
  PROVE  PartOf(p[1], t)
  <1>1. CASE t.kind \in Containers
    <2>1. PICK i \in DOMAIN j.val : p = <<t.elem, j.val[i]>>
      BY <1>1 DEF JsonParts, Containers
    <2> QED
      BY <1>1, <2>1, TypeAssumption
  <1>2. CASE t.kind = "map"
    BY <1>2, TypeAssumption DEF JsonParts, Containers
  <1>3. CASE t.kind = "struct"
    <2>1. PICK n \in DOMAIN FieldsByName(t) : p = <<FieldsByName(t)[n].type, j.val[n]>>
      BY <1>3 DEF JsonParts, Containers
    <2> QED
      BY <1>3, <2>1, NamesAreNames, TypeAssumption
  <1>4. CASE t.kind \notin Containers \union {"map", "struct"}
    BY <1>4 DEF JsonParts, Containers
  <1> QED
    BY <1>1, <1>2, <1>3, <1>4
-----------------------------------------------------------------------------
(* Calls.  Those that a call makes are of types that are nested less deep. *)
Interpreters == {"protocol2json", "json2protocol", "shared"}
IsCall(c) ==
  /\ c.function \in Interpreters /\ c.type \in Types
  /\ c = Call(c.function, c.type, c.value, c.permissive)
Rank(c) == Depth[c.type]

LEMMA RankIsNat == ASSUME NEW c, IsCall(c) PROVE Rank(c) \in Nat
  BY TypeAssumption DEF IsCall, Rank

LEMMA CallIsCall ==
  ASSUME NEW fn \in Interpreters, NEW t \in Types, NEW x, NEW p
  PROVE  IsCall(Call(fn, t, x, p))
  BY DEF IsCall, Call

LEMMA RankFalls ==
  ASSUME NEW c, IsCall(c), NEW d \in Made(c)
  PROVE  IsCall(d) /\ Rank(d) < Rank(c)
  <1>1. PICK p \in Parts(c) : d = Call(c.function, p[1], p[2], c.permissive)
    BY DEF Made
  <1>2. PartOf(p[1], c.type)
    <2>1. CASE c.function = "json2protocol"
      BY <1>1, <2>1, JsonPartsAreParts DEF Parts, IsCall
    <2>2. CASE c.function \in {"protocol2json", "shared"}
      BY <1>1, <2>2, BinaryPartsAreParts DEF Parts, IsCall
    <2> QED
      BY <2>1, <2>2 DEF IsCall, Interpreters
  <1>3. d.type = p[1] /\ IsCall(d)
    BY <1>1, <1>2, CallIsCall DEF IsCall, PartOf, Call
  <1> QED
    BY <1>2, <1>3 DEF Rank, PartOf

(* The calls that come of a call, n calls deep.  That there is such a       *)
(* function of n follows from the runs of it up to any number.             *)
After(S) == UNION {Made(d) : d \in S}
Nth(c) == CHOOSE f : f = [n \in Nat |-> IF n = 0 THEN {c} ELSE UNION {Made(d) : d \in f[n - 1]}]

LEMMA CallsAreNth ==
  ASSUME NEW c PROVE Calls(c) = UNION {Nth(c)[n] : n \in 0 .. Rank(c)}
  BY DEF Calls, Nth, Rank

IsRun(f, c, n) == f[0] = {c} /\ \A k \in 1 .. n : f[k] = After(f[k - 1])

LEMMA RunExists ==
  ASSUME NEW c, NEW n \in Nat
  PROVE  \E f : IsRun(f, c, n)
  <1> DEFINE T == {m \in Nat : \E f : IsRun(f, c, m)}
  <1>1. 0 \in T
    <2> DEFINE f == [k \in {0} |-> {c}]
    <2>1. IsRun(f, c, 0)
      BY DEF IsRun
    <2> QED
      BY <2>1
  <1>2. ASSUME NEW m \in T PROVE m + 1 \in T
    <2>1. PICK g : IsRun(g, c, m)
      OBVIOUS
    <2> DEFINE f == [k \in 0 .. m + 1 |-> IF k = m + 1 THEN After(g[m]) ELSE g[k]]
    <2>2. m \in Nat /\ f[0] = {c}
      BY <2>1 DEF IsRun
    <2>3. ASSUME NEW k \in 1 .. m + 1 PROVE f[k] = After(f[k - 1])
      <3>1. k \in 0 .. m + 1 /\ k - 1 \in 0 .. m + 1 /\ k - 1 # m + 1
        BY <2>2
      <3>2. f[k - 1] = g[k - 1]
        BY <3>1
      <3>3. CASE k = m + 1
        BY <3>1, <3>2, <3>3, <2>2
      <3>4. CASE k # m + 1
        <4>1. k \in 1 .. m /\ f[k] = g[k]
          BY <2>2, <3>1, <3>4
        <4> QED
          BY <2>1, <3>2, <4>1 DEF IsRun
      <3> QED
        BY <3>3, <3>4
    <2>4. IsRun(f, c, m + 1)
      <3> HIDE DEF f
      <3> QED
        BY <2>2, <2>3 DEF IsRun
    <2> QED
      BY <2>2, <2>4
  <1>3. T = Nat
    <2> HIDE DEF T
    <2>1. T \subseteq Nat
      BY DEF T
    <2> QED
      BY <1>1, <1>2, <2>1, NumberInduction
  <1> QED
    BY <1>3

LEMMA RunsAgree ==
  ASSUME NEW c, NEW n \in Nat, NEW f, IsRun(f, c, n), NEW g, IsRun(g, c, n)
  PROVE  \A k \in 0 .. n : f[k] = g[k]
  <1> DEFINE T == {k \in Nat : k <= n => f[k] = g[k]}
  <1>1. 0 \in T
    BY DEF IsRun
  <1>2. ASSUME NEW k \in T PROVE k + 1 \in T
    <2>1. CASE k + 1 <= n
      <3>1. k + 1 \in 1 .. n /\ (k + 1) - 1 = k /\ k <= n
        BY <2>1
      <3>2. f[k] = g[k]
        BY <3>1
      <3>3. f[k + 1] = After(f[(k + 1) - 1]) /\ g[k + 1] = After(g[(k + 1) - 1])
        BY <3>1 DEF IsRun
      <3>4. f[k + 1] = g[k + 1]
        BY <3>1, <3>2, <3>3
      <3> QED
        BY <3>4
    <2>2. CASE ~(k + 1 <= n)
      BY <2>2
    <2> QED
      BY <2>1, <2>2
  <1>3. T = Nat
    <2> HIDE DEF T
    <2>1. T \subseteq Nat
      BY DEF T
    <2> QED
      BY <1>1, <1>2, <2>1, NumberInduction
  <1> QED
    BY <1>3

LEMMA NthIsDefined ==
  ASSUME NEW c
  PROVE  /\ Nth(c)[0] = {c}
         /\ \A n \in Nat : Nth(c)[n + 1] = After(Nth(c)[n])
  <1> DEFINE Run(n) == CHOOSE f : IsRun(f, c, n)
             f == [n \in Nat |-> Run(n)[n]]
  <1>1. \A n \in Nat : IsRun(Run(n), c, n)
    BY RunExists
  <1> HIDE DEF Run
  <1>2. ASSUME NEW n \in Nat
        PROVE  f[n] = IF n = 0 THEN {c} ELSE After(f[n - 1])
    <2>1. CASE n = 0
      BY <1>1, <2>1 DEF IsRun
    <2>2. CASE n # 0
      <3>1. n - 1 \in Nat /\ n \in 1 .. n /\ n - 1 \in 0 .. n - 1 /\ 1 .. n - 1 \subseteq 1 .. n
        BY <2>2
      <3>2. f[n] = After(Run(n)[n - 1])
        BY <1>1, <3>1 DEF IsRun
      <3>3. IsRun(Run(n), c, n - 1) /\ IsRun(Run(n - 1), c, n - 1)
        BY <1>1, <3>1 DEF IsRun
      <3>4. Run(n)[n - 1] = Run(n - 1)[n - 1]
        BY <3>1, <3>3, RunsAgree
      <3>5. f[n - 1] = Run(n - 1)[n - 1]
        BY <3>1
      <3>6. f[n] = After(f[n - 1])
        BY <3>2, <3>4, <3>5
      <3> QED
        BY <2>2, <3>6, Zenon
    <2> QED
      BY <2>1, <2>2
  <1>3. f = [n \in Nat |-> IF n = 0 THEN {c} ELSE UNION {Made(d) : d \in f[n - 1]}]
    <2>1. f = [n \in Nat |-> f[n]]
      OBVIOUS
    <2> HIDE DEF f
    <2> QED
      BY <1>2, <2>1, Zenon DEF After
  <1> HIDE DEF f
  <1>4. Nth(c) = [n \in Nat |-> IF n = 0 THEN {c} ELSE UNION {Made(d) : d \in Nth(c)[n - 1]}]
    BY <1>3, Zenon DEF Nth
  <1>5. \A n \in Nat : Nth(c)[n] = IF n = 0 THEN {c} ELSE After(Nth(c)[n - 1])
    <2> HIDE DEF Nth
    <2> QED
      BY <1>4, Zenon DEF After
  <1>6. \A n \in Nat : n + 1 \in Nat /\ n + 1 # 0 /\ (n + 1) - 1 = n
    OBVIOUS
  <1>7. \A n \in Nat : Nth(c)[n + 1] = After(Nth(c)[n])
    <2> TAKE n \in Nat
    <2>1. Nth(c)[n + 1] = After(Nth(c)[(n + 1) - 1])
      BY <1>5, <1>6, Zenon
    <2> QED
      BY <2>1, <1>6
  <1> QED
    BY <1>5, <1>7

LEMMA NthShifts ==
  ASSUME NEW c, NEW n \in Nat
  PROVE  Nth(c)[n + 1] = UNION {Nth(d)[n] : d \in Made(c)}
  <1> DEFINE T == {m \in Nat : Nth(c)[m + 1] = UNION {Nth(d)[m] : d \in Made(c)}}
  <1>1. 0 \in T
    <2>1. Nth(c)[0 + 1] = Made(c)
      <3>1. Nth(c)[0] = {c} /\ Nth(c)[0 + 1] = After(Nth(c)[0])
        BY NthIsDefined
      <3>2. After({c}) = Made(c)
        BY DEF After
      <3> QED
        BY <3>1, <3>2
    <2>2. \A d \in Made(c) : Nth(d)[0] = {d}
      BY NthIsDefined
    <2>3. UNION {Nth(d)[0] : d \in Made(c)} = Made(c)
      BY <2>2
    <2> QED
      BY <2>1, <2>3
  <1>2. ASSUME NEW m \in T PROVE m + 1 \in T
    <2>1. m \in Nat /\ m + 1 \in Nat
      OBVIOUS
    <2>2. Nth(c)[(m + 1) + 1] = After(Nth(c)[m + 1])
      BY <2>1, NthIsDefined
    <2>3. Nth(c)[m + 1] = UNION {Nth(d)[m] : d \in Made(c)}
      OBVIOUS
    <2>4. \A d \in Made(c) : Nth(d)[m + 1] = After(Nth(d)[m])
      BY <2>1, NthIsDefined
    <2>5. After(UNION {Nth(d)[m] : d \in Made(c)}) = UNION {After(Nth(d)[m]) : d \in Made(c)}
      BY DEF After
    <2>6. UNION {After(Nth(d)[m]) : d \in Made(c)} = UNION {Nth(d)[m + 1] : d \in Made(c)}
      BY <2>4
    <2>7. Nth(c)[(m + 1) + 1] = UNION {Nth(d)[m + 1] : d \in Made(c)}
      BY <2>2, <2>3, <2>5, <2>6
    <2> QED
      BY <2>1, <2>7, Zenon
  <1>3. T = Nat
    <2> HIDE DEF T
    <2>1. T \subseteq Nat
      BY DEF T
    <2> QED
      BY <1>1, <1>2, <2>1, NumberInduction
  <1> QED
    BY <1>3

(* No call is deeper than its type is nested.                              *)
LEMMA NthFalls ==
  ASSUME NEW c, IsCall(c), NEW n \in Nat, NEW e \in Nth(c)[n]
  PROVE  IsCall(e) /\ Rank(e) + n <= Rank(c)
  <1> DEFINE T == {m \in Nat : \A d \in Nth(c)[m] : IsCall(d) /\ Rank(d) + m <= Rank(c)}
  <1>1. 0 \in T
    BY NthIsDefined, RankIsNat
  <1>2. ASSUME NEW m \in T PROVE m + 1 \in T
    <2>1. m \in Nat /\ m + 1 \in Nat
      OBVIOUS
    <2>2. ASSUME NEW d \in Nth(c)[m + 1] PROVE IsCall(d) /\ Rank(d) + (m + 1) <= Rank(c)
      <3>1. PICK b \in Nth(c)[m] : d \in Made(b)
        BY <2>1, NthIsDefined DEF After
      <3>2. IsCall(b) /\ Rank(b) + m <= Rank(c)
        BY <3>1
      <3>3. IsCall(d) /\ Rank(d) < Rank(b)
        BY <3>1, <3>2, RankFalls
      <3>4. Rank(d) \in Nat /\ Rank(b) \in Nat /\ Rank(c) \in Nat
        BY <3>2, <3>3, RankIsNat
      <3> QED
        BY <2>1, <3>2, <3>3, <3>4
    <2> QED
      BY <2>1, <2>2
  <1>3. T = Nat
    <2> HIDE DEF T
    <2>1. T \subseteq Nat
      BY DEF T
    <2> QED
      BY <1>1, <1>2, <2>1, NumberInduction
  <1> QED
    BY <1>3

LEMMA CallsAreAllNth ==
  ASSUME NEW c, IsCall(c), NEW e
  PROVE  e \in Calls(c) <=> \E n \in Nat : e \in Nth(c)[n]
  <1>1. Rank(c) \in Nat
    BY RankIsNat
  <1>2. ASSUME NEW n \in Nat, e \in Nth(c)[n] PROVE n \in 0 .. Rank(c)
    <2>1. IsCall(e) /\ Rank(e) + n <= Rank(c)
      BY <1>2, NthFalls
    <2> QED
      BY <1>1, <2>1, RankIsNat
  <1> QED
    BY <1>1, <1>2, CallsAreNth

(* What comes of a call comes of one that it makes.                        *)
LEMMA CallsUnfold ==
  ASSUME NEW c, IsCall(c), NEW e
  PROVE  e \in Calls(c) <=> e = c \/ \E d \in Made(c) : e \in Calls(d)
  <1>1. \A d \in Made(c) : IsCall(d)
    BY RankFalls
  <1>2. ASSUME NEW n \in Nat, e \in Nth(c)[n]
        PROVE  e = c \/ \E d \in Made(c) : e \in Calls(d)
    <2>1. CASE n = 0
      BY <1>2, <2>1, NthIsDefined
    <2>2. CASE n # 0
      <3>1. n - 1 \in Nat /\ (n - 1) + 1 = n
        BY <2>2
      <3>2. PICK d \in Made(c) : e \in Nth(d)[n - 1]
        BY <1>2, <3>1, NthShifts
      <3> QED
        BY <1>1, <3>1, <3>2, CallsAreAllNth
    <2> QED
      BY <2>1, <2>2
  <1>3. ASSUME NEW d \in Made(c), e \in Calls(d) PROVE e \in Calls(c)
    <2>1. PICK n \in Nat : e \in Nth(d)[n]
      BY <1>1, <1>3, CallsAreAllNth
    <2>2. e \in Nth(c)[n + 1] /\ n + 1 \in Nat
      BY <2>1, NthShifts
    <2> QED
      BY <2>2, CallsAreAllNth
  <1>4. c \in Calls(c)
    BY NthIsDefined, CallsAreAllNth
  <1> QED
    BY <1>2, <1>3, <1>4, CallsAreAllNth

LEMMA CallsAreCalls ==
  ASSUME NEW c, IsCall(c), NEW e \in Calls(c)
  PROVE  IsCall(e) /\ Made(e) \subseteq Calls(c)
  <1>1. PICK n \in Nat : e \in Nth(c)[n]
    BY CallsAreAllNth
  <1>2. IsCall(e)
    BY <1>1, NthFalls
  <1>3. ASSUME NEW d \in Made(e) PROVE d \in Calls(c)
    <2>1. d \in Nth(c)[n + 1] /\ n + 1 \in Nat
      BY <1>1, NthIsDefined DEF After
    <2> QED
      BY <2>1, CallsAreAllNth
  <1> QED
    BY <1>2, <1>3
-----------------------------------------------------------------------------
(* What a call returns follows from what the calls that it makes return.   *)
Closed(D) == \A c \in D : IsCall(c) /\ Made(c) \subseteq D
Returns(f, D) == f = [c \in D |-> Body(c, [d \in Made(c) |-> f[d]])]
Results(call) == CHOOSE f : f = [c \in Calls(call) |-> Body(c, [d \in Made(c) |-> f[d]])]

LEMMA ResultIsOfResults ==
  ASSUME NEW c PROVE Result(c) = Results(c)[c]
  BY DEF Result, Results

LEMMA CallsAreClosed ==
  ASSUME NEW c, IsCall(c) PROVE Closed(Calls(c))
  BY CallsAreCalls DEF Closed

LEMMA ReturnsAt ==
  ASSUME NEW D, NEW f, Returns(f, D), NEW c \in D
  PROVE  f[c] = Body(c, [d \in Made(c) |-> f[d]])
  <1>1. f = [b \in D |-> Body(b, [d \in Made(b) |-> f[d]])]
    BY Zenon DEF Returns
  <1> QED
    BY <1>1, Zenon

LEMMA ReturnsAgree ==
  ASSUME NEW D, Closed(D), NEW f, Returns(f, D),
         NEW E, Closed(E), NEW g, Returns(g, E)
  PROVE  \A c \in D \intersect E : f[c] = g[c]
  <1> DEFINE T == {t \in Types : \A c \in D \intersect E : c.type = t => f[c] = g[c]}
  <1>1. ASSUME NEW t \in Types, \A s \in Types : PartOf(s, t) => s \in T PROVE t \in T
    <2>1. ASSUME NEW c \in D \intersect E, c.type = t PROVE f[c] = g[c]
      <3>1. ASSUME NEW d \in Made(c) PROVE f[d] = g[d]
        <4>1. d \in D \intersect E /\ IsCall(c)
          BY DEF Closed
        <4>2. IsCall(d) /\ Rank(d) < Rank(c)
          BY <4>1, RankFalls
        <4>3. PartOf(d.type, t)
          BY <2>1, <4>2 DEF PartOf, IsCall, Rank
        <4>4. d.type \in T
          <5> HIDE DEF T
          <5> QED
            BY <1>1, <4>3 DEF PartOf
        <4> QED
          BY <4>1, <4>4
      <3>2. [d \in Made(c) |-> f[d]] = [d \in Made(c) |-> g[d]]
        BY <3>1, Zenon
      <3>3. f[c] = Body(c, [d \in Made(c) |-> f[d]])
        BY ReturnsAt, Zenon
      <3>4. g[c] = Body(c, [d \in Made(c) |-> g[d]])
        BY ReturnsAt, Zenon
      <3> QED
        BY <3>2, <3>3, <3>4, Zenon
    <2> QED
      BY <2>1
  <1>2. T = Types
    <2>1. T \subseteq Types
      OBVIOUS
    <2> HIDE DEF T
    <2> QED
      BY <1>1, <2>1, TypeInduction
  <1>3. \A c \in D \intersect E : c.type \in Types
    BY DEF Closed, IsCall
  <1> QED
    BY <1>2, <1>3

LEMMA ResultsExist ==
  ASSUME NEW c, IsCall(c)
  PROVE  Returns(Results(c), Calls(c))
  <1> DEFINE T == {t \in Types : \A d : IsCall(d) /\ d.type = t => Returns(Results(d), Calls(d))}
  <1>1. ASSUME NEW t \in Types, \A s \in Types : PartOf(s, t) => s \in T PROVE t \in T
    <2>1. ASSUME NEW a, IsCall(a), a.type = t PROVE Returns(Results(a), Calls(a))
      <3>1. ASSUME NEW b \in Calls(a), NEW d \in Made(b)
            PROVE  /\ d \in Calls(a) /\ IsCall(d)
                   /\ Returns(Results(d), Calls(d))
        <4>1. IsCall(b) /\ d \in Calls(a)
          BY <2>1, CallsAreCalls
        <4>2. IsCall(d) /\ Rank(d) < Rank(b)
          BY <4>1, RankFalls
        <4>3. PICK n \in Nat : b \in Nth(a)[n]
          BY <2>1, CallsAreAllNth
        <4>4. Rank(b) + n <= Rank(a)
          BY <2>1, <4>3, NthFalls
        <4>5. Rank(d) < Rank(a)
          BY <2>1, <4>1, <4>2, <4>4, RankIsNat
        <4>6. PartOf(d.type, t)
          BY <2>1, <4>2, <4>5 DEF PartOf, IsCall, Rank
        <4>7. d.type \in T
          <5> HIDE DEF T
          <5> QED
            BY <1>1, <4>6 DEF PartOf
        <4> QED
          BY <4>1, <4>2, <4>7
      <3> DEFINE f == [b \in Calls(a) |-> Body(b, [d \in Made(b) |-> Results(d)[d]])]
      <3>2. ASSUME NEW b \in Calls(a)
            PROVE  f[b] = Body(b, [d \in Made(b) |-> f[d]])
        <4>1. ASSUME NEW d \in Made(b) PROVE f[d] = Results(d)[d]
          <5>1. d \in Calls(a) /\ IsCall(d) /\ Returns(Results(d), Calls(d))
            BY <3>1
          <5>2. d \in Calls(d) /\ Closed(Calls(d))
            BY <5>1, CallsUnfold, CallsAreClosed
          <5>3. Results(d)[d] = Body(d, [x \in Made(d) |-> Results(d)[x]])
            BY <5>1, <5>2, ReturnsAt, Zenon
          <5>4. ASSUME NEW x \in Made(d) PROVE Results(d)[x] = Results(x)[x]
            <6>1. IsCall(x) /\ Returns(Results(x), Calls(x))
              BY <5>1, <3>1
            <6>2. x \in Calls(x) /\ Closed(Calls(x))
              BY <6>1, CallsUnfold, CallsAreClosed
            <6>3. x \in Calls(d)
              BY <5>1, <5>2, CallsAreCalls
            <6>4. x \in Calls(d) \intersect Calls(x)
              BY <6>2, <6>3
            <6> QED
              BY <5>1, <5>2, <6>1, <6>2, <6>4, ReturnsAgree
          <5>5. [x \in Made(d) |-> Results(d)[x]] = [x \in Made(d) |-> Results(x)[x]]
            BY <5>4, Zenon
          <5>6. f[d] = Body(d, [x \in Made(d) |-> Results(x)[x]])
            BY <5>1, Zenon
          <5> QED
            BY <5>3, <5>5, <5>6, Zenon
        <4>2. [d \in Made(b) |-> f[d]] = [d \in Made(b) |-> Results(d)[d]]
          <5> HIDE DEF f
          <5> QED
            BY <4>1, Zenon
        <4>3. f[b] = Body(b, [d \in Made(b) |-> Results(d)[d]])
          BY Zenon
        <4> QED
          BY <4>2, <4>3, Zenon
      <3>3. f = [b \in Calls(a) |-> Body(b, [d \in Made(b) |-> f[d]])]
        <4>1. f = [b \in Calls(a) |-> f[b]]
          OBVIOUS
        <4> HIDE DEF f
        <4> QED
          BY <3>2, <4>1, Zenon
      <3> HIDE DEF f
      <3>4. Results(a) = [b \in Calls(a) |-> Body(b, [d \in Made(b) |-> Results(a)[d]])]
        BY <3>3, Zenon DEF Results
      <3> QED
        BY <3>4, Zenon DEF Returns
    <2> QED
      BY <2>1
  <1>2. T = Types
    <2>1. T \subseteq Types
      OBVIOUS
    <2> HIDE DEF T
    <2> QED
      BY <1>1, <2>1, TypeInduction
  <1> QED
    BY <1>2 DEF IsCall

LEMMA ResultUnfolds ==
  ASSUME NEW c, IsCall(c)
  PROVE  Result(c) = Body(c, [d \in Made(c) |-> Result(d)])
  <1>1. c \in Calls(c) /\ Closed(Calls(c)) /\ Returns(Results(c), Calls(c))
    BY CallsUnfold, CallsAreClosed, ResultsExist
  <1>2. ASSUME NEW d \in Made(c) PROVE Results(c)[d] = Result(d)
    <2>1. IsCall(d)
      BY RankFalls
    <2>2. d \in Calls(d) /\ Closed(Calls(d)) /\ Returns(Results(d), Calls(d))
      BY <2>1, CallsUnfold, CallsAreClosed, ResultsExist
    <2>3. d \in Calls(c) \intersect Calls(d)
      BY <1>1, <2>2 DEF Closed
    <2> QED
      BY <1>1, <2>2, <2>3, ReturnsAgree, ResultIsOfResults
  <1>3. [d \in Made(c) |-> Results(c)[d]] = [d \in Made(c) |-> Result(d)]
    BY <1>2, Zenon
  <1>4. Results(c)[c] = Body(c, [d \in Made(c) |-> Results(c)[d]])
    BY <1>1, ReturnsAt, Zenon
  <1> QED
    BY <1>3, <1>4, ResultIsOfResults, Zenon
-----------------------------------------------------------------------------
(* What the interpreters return for each kind of type.                     *)
Returned(c) == [d \in Made(c) |-> Result(d)]

LEMMA PartIsReturned ==
  ASSUME NEW c, NEW s, NEW x, <<s, x>> \in Parts(c)
  PROVE  Returned(c)[Call(c.function, s, x, c.permissive)] = Result(Call(c.function, s, x, c.permissive))
  <1>1. Call(c.function, s, x, c.permissive) \in Made(c)
    BY DEF Made
  <1> QED
    BY <1>1 DEF Returned

LEMMA Marshals ==
  ASSUME NEW t \in Types, NEW w, NEW p
  PROVE  LET c == Marshalling(t, w, p)
         IN  /\ Protocol2json(t, w, p) = Body(c, Returned(c))
             /\ \A s, x : <<s, x>> \in BinaryParts(t, w) =>
                   Returned(c)[Call("protocol2json", s, x, p)] = Protocol2json(s, x, p)
  <1> DEFINE c == Marshalling(t, w, p)
  <1>1. IsCall(c)
    BY CallIsCall DEF Marshalling, Interpreters
  <1>2. c.function = "protocol2json" /\ c.type = t /\ c.value = w /\ c.permissive = p
    BY DEF Marshalling, Call
  <1>3. Parts(c) = BinaryParts(t, w)
    <2> HIDE DEF c
    <2> QED
      BY <1>2 DEF Parts
  <1>4. ASSUME NEW s, NEW x, <<s, x>> \in BinaryParts(t, w)
        PROVE  Returned(c)[Call("protocol2json", s, x, p)] = Protocol2json(s, x, p)
    <2> HIDE DEF c
    <2> QED
      BY <1>2, <1>3, <1>4, PartIsReturned DEF Protocol2json, Marshalling
  <1>5. Protocol2json(t, w, p) = Body(c, Returned(c))
    BY <1>1, ResultUnfolds DEF Protocol2json, Returned
  <1> QED
    BY <1>4, <1>5

LEMMA Demarshals ==
  ASSUME NEW t \in Types, NEW j, Takes(t, j)
  PROVE  /\ Json2protocol(t, j) = Body(Demarshalling(t, j), Returned(Demarshalling(t, j)))
         /\ \A s, x : <<s, x>> \in JsonParts(t, j) =>
               Returned(Demarshalling(t, j))[Demarshalling(s, x)] = Json2protocol(s, x)
  <1> DEFINE c == Demarshalling(t, j)
  <1>1. IsCall(c)
    BY CallIsCall DEF Demarshalling, Interpreters
  <1>2. c.function = "json2protocol" /\ c.type = t /\ c.value = j /\ c.permissive = FALSE
    BY DEF Demarshalling, Call
  <1>3. Parts(c) = JsonParts(t, j)
    <2> HIDE DEF c
    <2> QED
      BY <1>2 DEF Parts
  <1>4. ASSUME NEW s, NEW x, <<s, x>> \in JsonParts(t, j)
        PROVE  Returned(c)[Demarshalling(s, x)] = Json2protocol(s, x)
    <2>1. Demarshalling(s, x) = Call(c.function, s, x, c.permissive)
      BY <1>2 DEF Demarshalling
    <2> HIDE DEF c
    <2> QED
      BY <2>1, <1>3, <1>4, PartIsReturned DEF Json2protocol
  <1>5. Json2protocol(t, j) = Body(c, Returned(c))
    BY <1>1, ResultUnfolds DEF Json2protocol, Returned
  <1> QED
    BY <1>4, <1>5

SharedCall(t, w) == Call("shared", t, w, FALSE)

LEMMA Shares ==
  ASSUME NEW t \in Types, NEW w
  PROVE  /\ Shared(t, w) = Body(SharedCall(t, w), Returned(SharedCall(t, w)))
         /\ \A s, x : <<s, x>> \in BinaryParts(t, w) =>
               Returned(SharedCall(t, w))[SharedCall(s, x)] = Shared(s, x)
  <1> DEFINE c == SharedCall(t, w)
  <1>1. IsCall(c)
    BY CallIsCall DEF Interpreters, SharedCall
  <1>2. c.function = "shared" /\ c.type = t /\ c.value = w /\ c.permissive = FALSE
    BY DEF Call, SharedCall
  <1>3. Parts(c) = BinaryParts(t, w)
    <2> HIDE DEF c
    <2> QED
      BY <1>2 DEF Parts
  <1>4. ASSUME NEW s, NEW x, <<s, x>> \in BinaryParts(t, w)
        PROVE  Returned(c)[SharedCall(s, x)] = Shared(s, x)
    <2>1. SharedCall(s, x) = Call(c.function, s, x, c.permissive)
      BY <1>2 DEF SharedCall
    <2> HIDE DEF c
    <2> QED
      BY <2>1, <1>3, <1>4, PartIsReturned DEF Shared, SharedCall
  <1>5. Shared(t, w) = Body(c, Returned(c))
    BY <1>1, ResultUnfolds DEF Shared, Returned, SharedCall
  <1> QED
    BY <1>4, <1>5

LEMMA MarshalsBase ==
  ASSUME NEW t \in Types, NEW w, NEW p
  PROVE  /\ t.kind = "bool" => Protocol2json(t, w, p) = Json("boolean", w.val)
         /\ t.kind \in {"i8", "i16", "i32", "double"} => Protocol2json(t, w, p) = Json("number", w.val)
         /\ t.kind = "i64" => Protocol2json(t, w, p) = Json("string", Decimal[w.val])
         /\ t.kind = "string" => Protocol2json(t, w, p) = Json("string", w.val)
         /\ t.kind = "enum" =>
               Protocol2json(t, w, p) = Json("string", CHOOSE l \in DOMAIN Labels : Labels[l] = w.val)
  <1> DEFINE c == Marshalling(t, w, p)
             f == Returned(c)
  <1> HIDE DEF f
  <1>1. Protocol2json(t, w, p) = Body(c, f)
    BY Marshals DEF f
  <1>2. /\ t.kind = "bool" => Body(c, f) = Json("boolean", w.val)
        /\ t.kind \in {"i8", "i16", "i32", "double"} => Body(c, f) = Json("number", w.val)
    BY Zenon DEF Body, ForPart, Marshalling, Call, JsonOf, LabelOf, Containers
  <1>3. /\ t.kind = "i64" => Body(c, f) = Json("string", Decimal[w.val])
        /\ t.kind = "string" => Body(c, f) = Json("string", w.val)
    BY Zenon DEF Body, ForPart, Marshalling, Call, JsonOf, LabelOf, Containers
  <1>4. t.kind = "enum" => Body(c, f) = Json("string", CHOOSE l \in DOMAIN Labels : Labels[l] = w.val)
    BY Zenon DEF Body, ForPart, Marshalling, Call, JsonOf, LabelOf, Containers
  <1> QED
    BY <1>1, <1>2, <1>3, <1>4

LEMMA MarshalsList ==
  ASSUME NEW t \in Types, t.kind \in Containers, NEW w, NEW p
  PROVE  Protocol2json(t, w, p) =
           Json("array", [i \in DOMAIN w.val |-> Protocol2json(t.elem, w.val[i], p)])
  <1> DEFINE c == Marshalling(t, w, p)
             f == Returned(c)
  <1> HIDE DEF f
  <1>1. Protocol2json(t, w, p) = Body(c, f)
    BY Marshals DEF f
  <1>2. Body(c, f) = Json("array", [i \in DOMAIN w.val |-> f[Call("protocol2json", t.elem, w.val[i], p)]])
    BY Zenon DEF Body, ForPart, Marshalling, Call, JsonOf, LabelOf, Containers
  <1>3. ASSUME NEW i \in DOMAIN w.val
        PROVE  f[Call("protocol2json", t.elem, w.val[i], p)] = Protocol2json(t.elem, w.val[i], p)
    <2>1. <<t.elem, w.val[i]>> \in BinaryParts(t, w)
      BY DEF BinaryParts, Containers
    <2> QED
      BY <2>1, Marshals DEF f
  <1> QED
    BY <1>1, <1>2, <1>3, Zenon
LEMMA MarshallingIsCall ==
  ASSUME NEW t, NEW w, NEW p, NEW c, c = Marshalling(t, w, p)
  PROVE  c.function = "protocol2json" /\ c.type = t /\ c.value = w /\ c.permissive = p
  BY DEF Marshalling, Call

KeyText(t, p, e) == Protocol2json(t.key, e[1], p).val
EntryNamed(t, w, p, k) == CHOOSE e \in w.val : KeyText(t, p, e) = k
MemberNamed(t, w, p, k) == Protocol2json(t.elem, EntryNamed(t, w, p, k)[2], p)

LEMMA MarshalsObject ==
  ASSUME NEW t \in Types, t.kind = "map", TType(t.key) = "T_STRING", NEW w, NEW p
  PROVE  Protocol2json(t, w, p) =
           Json("object", [k \in {KeyText(t, p, e) : e \in w.val} |-> MemberNamed(t, w, p, k)])
  <1> DEFINE c == Marshalling(t, w, p)
             f == Returned(c)
             Key(e) == f[Call(c.function, c.type.key, e[1], c.permissive)]
             Value(e) == f[Call(c.function, c.type.elem, e[2], c.permissive)]
             Choice(k) == CHOOSE e \in c.value.val : Key(e).val = k
             Member(k) == Value(Choice(k))
  <1>1. Protocol2json(t, w, p) = Body(c, f)
    BY Marshals
  <1>2. c.function = "protocol2json" /\ c.type = t /\ c.value = w /\ c.permissive = p
    BY MarshallingIsCall
  <1>3. ASSUME NEW e \in w.val
        PROVE  Key(e).val = KeyText(t, p, e) /\ Value(e) = Protocol2json(t.elem, e[2], p)
    <2>1. <<t.key, e[1]>> \in BinaryParts(t, w) /\ <<t.elem, e[2]>> \in BinaryParts(t, w)
      BY DEF BinaryParts, Containers
    <2> QED
      BY <1>2, <2>1, Marshals DEF KeyText
  <1> HIDE DEF c, f
  <1>4. Body(c, f) = Json("object", [k \in {Key(e).val : e \in c.value.val} |-> Member(k)])
    BY <1>2, Zenon DEF Body, ForPart, JsonOf, ObjectOf, Containers
  <1> HIDE DEF Key, Value
  <1>5. {Key(e).val : e \in c.value.val} = {KeyText(t, p, e) : e \in w.val}
    BY <1>2, <1>3, Zenon
  <1>6. ASSUME NEW k \in {Key(e).val : e \in c.value.val}
        PROVE  Member(k) = MemberNamed(t, w, p, k)
    <2>1. Choice(k) = EntryNamed(t, w, p, k)
      BY <1>2, <1>3, Zenon DEF EntryNamed
    <2>2. Choice(k) \in w.val
      BY <1>2, <1>6, Zenon
    <2> QED
      BY <1>3, <2>1, <2>2, Zenon DEF MemberNamed
  <1> HIDE DEF Member
  <1> QED
    BY <1>1, <1>4, <1>5, <1>6, Zenon

ElementOf(t, p, e) == Pair(Protocol2json(t.key, e[1], p), Protocol2json(t.elem, e[2], p))

LEMMA MarshalsArray ==
  ASSUME NEW t \in Types, t.kind = "map", TType(t.key) # "T_STRING", NEW w, NEW p,
         NEW es, es = SetToSeq(w.val), \A i \in DOMAIN es : es[i] \in w.val
  PROVE  Protocol2json(t, w, p) = Json("array", [i \in DOMAIN es |-> ElementOf(t, p, es[i])])
  <1> DEFINE c == Marshalling(t, w, p)
             f == Returned(c)
             Key(e) == f[Call("protocol2json", t.key, e[1], p)]
             Value(e) == f[Call("protocol2json", t.elem, e[2], p)]
  <1>1. Protocol2json(t, w, p) = Body(c, f)
    BY Marshals
  <1>2. Body(c, f) = Json("array", [i \in DOMAIN es |-> Pair(Key(es[i]), Value(es[i]))])
    <2> HIDE DEF f
    <2> QED
      BY Zenon DEF Body, ForPart, Marshalling, Call, JsonOf, ArrayOf, Containers
  <1>3. ASSUME NEW e \in w.val
        PROVE  Pair(Key(e), Value(e)) = ElementOf(t, p, e)
    <2>1. <<t.key, e[1]>> \in BinaryParts(t, w) /\ <<t.elem, e[2]>> \in BinaryParts(t, w)
      BY DEF BinaryParts, Containers
    <2> QED
      BY <2>1, Marshals DEF ElementOf
  <1> HIDE DEF Key, Value, f
  <1> QED
    BY <1>1, <1>2, <1>3, Zenon

Kept(t, w, p) == IF p THEN DOMAIN w.val ELSE Known(t, w)
Named(t, w, p, n) == CHOOSE i \in Kept(t, w, p) : MemberName(t, w, i) = n
MemberOf(t, w, p, n) ==
  LET i == Named(t, w, p, n)
  IN  IF i \in Known(t, w) THEN Protocol2json(FieldsById(t)[i].type, w.val[i], p)
      ELSE Skipped(w.val[i])

LEMMA MarshalsStruct ==
  ASSUME NEW t \in Types, t.kind = "struct", NEW w, NEW p
  PROVE  Protocol2json(t, w, p) =
           Json("object", [n \in {MemberName(t, w, i) : i \in Kept(t, w, p)} |-> MemberOf(t, w, p, n)])
  <1> DEFINE c == Marshalling(t, w, p)
             f == Returned(c)
             known == Known(c.type, c.value)
             Value(i) == f[Call(c.function, FieldsById(c.type)[i].type, c.value.val[i], c.permissive)]
             keep == IF c.permissive THEN DOMAIN c.value.val ELSE known
             Choice(n) == CHOOSE i \in keep : MemberName(c.type, c.value, i) = n
             Member(n) == IF Choice(n) \in known THEN Value(Choice(n)) ELSE Skipped(c.value.val[Choice(n)])
  <1>1. Protocol2json(t, w, p) = Body(c, f)
    BY Marshals
  <1>2. c.function = "protocol2json" /\ c.type = t /\ c.value = w /\ c.permissive = p
    BY MarshallingIsCall
  <1>3. ASSUME NEW i \in Known(t, w)
        PROVE  Value(i) = Protocol2json(FieldsById(t)[i].type, w.val[i], p)
    <2>1. <<FieldsById(t)[i].type, w.val[i]>> \in BinaryParts(t, w)
      BY DEF BinaryParts, Containers
    <2> QED
      BY <1>2, <2>1, Marshals
  <1> HIDE DEF c, f
  <1>4. Body(c, f) = Json("object", [n \in {MemberName(c.type, c.value, i) : i \in keep} |-> Member(n)])
    BY <1>2, Zenon DEF Body, ForPart, JsonOf, StructJson, Containers
  <1>5. keep = Kept(t, w, p)
    BY <1>2, Zenon DEF Kept
  <1> HIDE DEF keep, Value
  <1>6. {MemberName(c.type, c.value, i) : i \in keep} = {MemberName(t, w, i) : i \in Kept(t, w, p)}
    BY <1>2, <1>5, Zenon
  <1>7. ASSUME NEW n PROVE Member(n) = MemberOf(t, w, p, n)
    <2>1. Choice(n) = Named(t, w, p, n)
      BY <1>2, <1>5, Zenon DEF Named
    <2>2. known = Known(t, w) /\ c.value.val[Choice(n)] = w.val[Named(t, w, p, n)]
      BY <1>2, <2>1
    <2> HIDE DEF Choice, known
    <2> QED
      BY <1>3, <2>1, <2>2, Zenon DEF MemberOf
  <1> HIDE DEF Member
  <1> QED
    BY <1>1, <1>4, <1>6, <1>7, Zenon

LEMMA DemarshalsBase ==
  ASSUME NEW t \in Types, NEW j, Takes(t, j)
  PROVE  /\ t.kind \in {"bool", "i8", "i16", "i32", "double", "string"} =>
               Json2protocol(t, j) = [ttype |-> TType(t), val |-> j.val]
         /\ t.kind = "i64" => Json2protocol(t, j) = [ttype |-> TType(t), val |-> Stoll[j.val]]
         /\ t.kind = "enum" => Json2protocol(t, j) = [ttype |-> TType(t), val |-> Labels[j.val]]
  <1> DEFINE c == Demarshalling(t, j)
             f == Returned(c)
  <1> HIDE DEF f
  <1>1. Json2protocol(t, j) = Body(c, f)
    BY Demarshals DEF f
  <1>2. t.kind \in {"bool", "i8", "i16", "i32", "double", "string"} =>
           Body(c, f) = [ttype |-> TType(t), val |-> j.val]
    BY Zenon DEF Body, ForPart, Demarshalling, Call, BinaryFrom, Containers
  <1>3. t.kind = "i64" => Body(c, f) = [ttype |-> TType(t), val |-> Stoll[j.val]]
    BY Zenon DEF Body, ForPart, Demarshalling, Call, BinaryFrom, Containers
  <1>4. t.kind = "enum" => Body(c, f) = [ttype |-> TType(t), val |-> Labels[j.val]]
    BY Zenon DEF Body, ForPart, Demarshalling, Call, BinaryFrom, Containers
  <1> QED
    BY <1>1, <1>2, <1>3, <1>4

LEMMA DemarshalsList ==
  ASSUME NEW t \in Types, t.kind \in Containers, NEW j, Takes(t, j)
  PROVE  Json2protocol(t, j) =
           [ttype |-> TType(t), val |-> [i \in DOMAIN j.val |-> Json2protocol(t.elem, j.val[i])]]
  <1> DEFINE c == Demarshalling(t, j)
             f == Returned(c)
  <1> HIDE DEF f
  <1>1. Json2protocol(t, j) = Body(c, f)
    BY Demarshals DEF f
  <1>2. Body(c, f) =
          [ttype |-> TType(t),
           val |-> [i \in DOMAIN j.val |-> f[Demarshalling(t.elem, j.val[i])]]]
    BY Zenon DEF Body, ForPart, Demarshalling, Call, BinaryFrom, Containers
  <1>3. ASSUME NEW i \in DOMAIN j.val
        PROVE  f[Demarshalling(t.elem, j.val[i])] = Json2protocol(t.elem, j.val[i])
    <2>1. <<t.elem, j.val[i]>> \in JsonParts(t, j)
      BY DEF JsonParts, Containers
    <2> QED
      BY <2>1, Demarshals DEF f
  <1> QED
    BY <1>1, <1>2, <1>3, Zenon

LEMMA DemarshalsObject ==
  ASSUME NEW t \in Types, t.kind = "map", NEW j, j.json = "object", Takes(t, j)
  PROVE  Json2protocol(t, j) =
           [ttype |-> TType(t),
            val |-> {<<Json2protocol(t.key, Json("string", k)), Json2protocol(t.elem, j.val[k])>> :
                        k \in DOMAIN j.val}]
  <1> DEFINE c == Demarshalling(t, j)
             f == Returned(c)
  <1> HIDE DEF f
  <1>1. Json2protocol(t, j) = Body(c, f)
    BY Demarshals DEF f
  <1>2. Body(c, f) =
          [ttype |-> TType(t),
           val |-> {<<f[Demarshalling(t.key, Json("string", k))],
                      f[Demarshalling(t.elem, j.val[k])]>> : k \in DOMAIN j.val}]
    BY Zenon DEF Body, ForPart, Demarshalling, Call, BinaryFrom, EntriesFrom, Containers
  <1>3. ASSUME NEW k \in DOMAIN j.val
        PROVE  /\ f[Demarshalling(t.key, Json("string", k))] =
                     Json2protocol(t.key, Json("string", k))
               /\ f[Demarshalling(t.elem, j.val[k])] = Json2protocol(t.elem, j.val[k])
    <2>1. /\ <<t.key, Json("string", k)>> \in JsonParts(t, j)
          /\ <<t.elem, j.val[k]>> \in JsonParts(t, j)
      BY DEF JsonParts, Containers
    <2> QED
      BY <2>1, Demarshals DEF f
  <1> QED
    BY <1>1, <1>2, <1>3, Zenon

LEMMA DemarshalsArray ==
  ASSUME NEW t \in Types, t.kind = "map", NEW j, j.json = "array", Takes(t, j)
  PROVE  Json2protocol(t, j) =
           [ttype |-> TType(t),
            val |-> {<<Json2protocol(t.key, j.val[i].val[1]), Json2protocol(t.elem, j.val[i].val[2])>> :
                        i \in DOMAIN j.val}]
  <1> DEFINE c == Demarshalling(t, j)
             f == Returned(c)
  <1> HIDE DEF f
  <1>1. Json2protocol(t, j) = Body(c, f)
    BY Demarshals DEF f
  <1>2. Body(c, f) =
          [ttype |-> TType(t),
           val |-> {<<f[Demarshalling(t.key, j.val[i].val[1])],
                      f[Demarshalling(t.elem, j.val[i].val[2])]>> : i \in DOMAIN j.val}]
    BY Zenon DEF Body, ForPart, Demarshalling, Call, BinaryFrom, EntriesFrom, Containers
  <1>3. ASSUME NEW i \in DOMAIN j.val
        PROVE  /\ f[Demarshalling(t.key, j.val[i].val[1])] =
                     Json2protocol(t.key, j.val[i].val[1])
               /\ f[Demarshalling(t.elem, j.val[i].val[2])] =
                     Json2protocol(t.elem, j.val[i].val[2])
    <2>1. /\ <<t.key, j.val[i].val[1]>> \in JsonParts(t, j)
          /\ <<t.elem, j.val[i].val[2]>> \in JsonParts(t, j)
      BY DEF JsonParts, Containers
    <2> QED
      BY <2>1, Demarshals DEF f
  <1> QED
    BY <1>1, <1>2, <1>3, Zenon

LEMMA NamedIsByName ==
  ASSUME NEW t \in Types, t.kind = "struct", NEW g \in t.fields
  PROVE  /\ g.id \in DOMAIN FieldsById(t) /\ FieldsById(t)[g.id] = g
         /\ g.name \in DOMAIN FieldsByName(t) /\ FieldsByName(t)[g.name] = g
  BY TypeAssumption DEF FieldsById, FieldsByName

LEMMA DemarshalsStruct ==
  ASSUME NEW t \in Types, t.kind = "struct", NEW j, Takes(t, j)
  PROVE  Json2protocol(t, j) =
           [ttype |-> TType(t),
            val |-> [i \in {g.id : g \in {g \in t.fields : g.name \in DOMAIN j.val}} |->
                       Json2protocol(FieldsById(t)[i].type, j.val[FieldsById(t)[i].name])]]
  <1> DEFINE c == Demarshalling(t, j)
             f == Returned(c)
             ids == {g.id : g \in {g \in t.fields : g.name \in DOMAIN j.val}}
  <1> HIDE DEF f
  <1>1. Json2protocol(t, j) = Body(c, f)
    BY Demarshals DEF f
  <1>2. Body(c, f) =
          [ttype |-> TType(t),
           val |-> [i \in ids |-> f[Demarshalling(FieldsById(t)[i].type, j.val[FieldsById(t)[i].name])]]]
    BY Zenon DEF Body, ForPart, Demarshalling, Call, BinaryFrom, FieldsFrom, Containers
  <1>3. ASSUME NEW i \in ids
        PROVE  f[Demarshalling(FieldsById(t)[i].type, j.val[FieldsById(t)[i].name])] =
                 Json2protocol(FieldsById(t)[i].type, j.val[FieldsById(t)[i].name])
    <2>1. PICK g \in t.fields : g.id = i /\ g.name \in DOMAIN j.val
      OBVIOUS
    <2>2. /\ FieldsById(t)[i] = g
          /\ g.name \in DOMAIN FieldsByName(t) /\ FieldsByName(t)[g.name] = g
      BY <2>1, NamedIsByName
    <2>3. <<g.type, j.val[g.name]>> \in JsonParts(t, j)
      BY <2>1, <2>2 DEF JsonParts, Containers
    <2> QED
      BY <2>2, <2>3, Demarshals DEF f
  <1> HIDE DEF ids
  <1>4. Json2protocol(t, j) =
          [ttype |-> TType(t),
           val |-> [i \in ids |-> Json2protocol(FieldsById(t)[i].type, j.val[FieldsById(t)[i].name])]]
    BY <1>1, <1>2, <1>3, Zenon
  <1> QED
    BY <1>4 DEF ids

LEMMA SharesAll ==
  ASSUME NEW t \in Types, NEW w, w = [ttype |-> TType(t), val |-> w.val]
  PROVE  /\ t.kind \notin Containers \union {"map", "struct"} => Shared(t, w) = w
         /\ t.kind \in Containers =>
               Shared(t, w) =
                 [ttype |-> TType(t), val |-> [i \in DOMAIN w.val |-> Shared(t.elem, w.val[i])]]
         /\ t.kind = "map" =>
               Shared(t, w) =
                 [ttype |-> TType(t), val |-> {<<Shared(t.key, e[1]), Shared(t.elem, e[2])>> : e \in w.val}]
         /\ t.kind = "struct" =>
               Shared(t, w) =
                 [ttype |-> TType(t),
                  val |-> [i \in Known(t, w) |-> Shared(FieldsById(t)[i].type, w.val[i])]]
  <1> DEFINE c == SharedCall(t, w)
             f == Returned(c)
             Part(s, x) == f[SharedCall(s, x)]
             Changed(v) == [w EXCEPT !.val = v]
  <1> HIDE DEF f
  <1>1. Shared(t, w) = Body(c, f)
    BY Shares DEF f
  <1>2. \A s, x : <<s, x>> \in BinaryParts(t, w) => Part(s, x) = Shared(s, x)
    BY Shares DEF f
  <1>3. \A v : Changed(v) = [ttype |-> TType(t), val |-> v]
    <2> TAKE v
    <2>1. PICK x : w = [ttype |-> TType(t), val |-> x]
      OBVIOUS
    <2> QED
      BY <2>1
  <1>4. t.kind \notin Containers \union {"map", "struct"} => Body(c, f) = Changed(w.val)
    BY Zenon DEF Body, ForPart, SharedCall, Call, SharedOf, Containers
  <1>5. ASSUME t.kind \in Containers
        PROVE  Shared(t, w) =
                 [ttype |-> TType(t), val |-> [i \in DOMAIN w.val |-> Shared(t.elem, w.val[i])]]
    <2>1. Body(c, f) = Changed([i \in DOMAIN w.val |-> Part(t.elem, w.val[i])])
      BY <1>5, Zenon DEF Body, ForPart, SharedCall, Call, SharedOf, Containers
    <2>2. \A i \in DOMAIN w.val : <<t.elem, w.val[i]>> \in BinaryParts(t, w)
      BY <1>5 DEF BinaryParts, Containers
    <2> HIDE DEF Part, Changed
    <2>3. [i \in DOMAIN w.val |-> Part(t.elem, w.val[i])] = [i \in DOMAIN w.val |-> Shared(t.elem, w.val[i])]
      BY <1>2, <2>2, Zenon
    <2> QED
      BY <1>1, <1>3, <2>1, <2>3, Zenon
  <1>6. ASSUME t.kind = "map"
        PROVE  Shared(t, w) =
                 [ttype |-> TType(t), val |-> {<<Shared(t.key, e[1]), Shared(t.elem, e[2])>> : e \in w.val}]
    <2>1. Body(c, f) = Changed({<<Part(t.key, e[1]), Part(t.elem, e[2])>> : e \in w.val})
      BY <1>6, Zenon DEF Body, ForPart, SharedCall, Call, SharedOf, Containers
    <2>2. \A e \in w.val : /\ <<t.key, e[1]>> \in BinaryParts(t, w)
                           /\ <<t.elem, e[2]>> \in BinaryParts(t, w)
      BY <1>6 DEF BinaryParts, Containers
    <2> HIDE DEF Part, Changed
    <2>3. \A e \in w.val : Part(t.key, e[1]) = Shared(t.key, e[1]) /\ Part(t.elem, e[2]) = Shared(t.elem, e[2])
      BY <1>2, <2>2, Zenon
    <2>4. {<<Part(t.key, e[1]), Part(t.elem, e[2])>> : e \in w.val}
             = {<<Shared(t.key, e[1]), Shared(t.elem, e[2])>> : e \in w.val}
      BY <2>3, Zenon
    <2> QED
      BY <1>1, <1>3, <2>1, <2>4, Zenon
  <1>7. ASSUME t.kind = "struct"
        PROVE  Shared(t, w) =
                 [ttype |-> TType(t),
                  val |-> [i \in Known(t, w) |-> Shared(FieldsById(t)[i].type, w.val[i])]]
    <2>1. Body(c, f) = Changed([i \in Known(t, w) |-> Part(FieldsById(t)[i].type, w.val[i])])
      BY <1>7, Zenon DEF Body, ForPart, SharedCall, Call, SharedOf, Containers
    <2>2. \A i \in Known(t, w) : <<FieldsById(t)[i].type, w.val[i]>> \in BinaryParts(t, w)
      BY <1>7 DEF BinaryParts, Containers
    <2> HIDE DEF Part, Changed
    <2>3. [i \in Known(t, w) |-> Part(FieldsById(t)[i].type, w.val[i])]
             = [i \in Known(t, w) |-> Shared(FieldsById(t)[i].type, w.val[i])]
      BY <1>2, <2>2, Zenon
    <2> QED
      BY <1>1, <1>3, <2>1, <2>3, Zenon
  <1>8. Changed(w.val) = w
    BY <1>3
  <1> QED
    BY <1>1, <1>4, <1>5, <1>6, <1>7, <1>8, Zenon
-----------------------------------------------------------------------------
(* What is said of all the calls that come of one is said of it and of its *)
(* parts.                                                                  *)
LEMMA ComesOfMarshalling ==
  ASSUME NEW t \in Types, NEW w, NEW e
  PROVE  e \in Calls(Marshalling(t, w, FALSE)) <=>
           \/ e = Marshalling(t, w, FALSE)
           \/ \E q \in BinaryParts(t, w) : e \in Calls(Marshalling(q[1], q[2], FALSE))
  <1> DEFINE c == Marshalling(t, w, FALSE)
  <1>1. IsCall(c)
    BY CallIsCall, Zenon DEF Marshalling, Interpreters
  <1>2. c.function = "protocol2json" /\ c.type = t /\ c.value = w /\ c.permissive = FALSE
    BY DEF Marshalling, Call
  <1> HIDE DEF c
  <1>3. Made(c) = {Marshalling(q[1], q[2], FALSE) : q \in BinaryParts(t, w)}
    BY <1>2, Zenon DEF Made, Parts, Marshalling
  <1>4. e \in Calls(c) <=> e = c \/ \E d \in Made(c) : e \in Calls(d)
    BY <1>1, CallsUnfold
  <1> QED
    BY <1>3, <1>4, Zenon DEF c

LEMMA ComesOfDemarshalling ==
  ASSUME NEW t \in Types, NEW j, Takes(t, j), NEW e
  PROVE  e \in Calls(Demarshalling(t, j)) <=>
           \/ e = Demarshalling(t, j)
           \/ \E q \in JsonParts(t, j) : e \in Calls(Demarshalling(q[1], q[2]))
  <1> DEFINE c == Demarshalling(t, j)
  <1>1. IsCall(c)
    BY CallIsCall DEF Demarshalling, Interpreters
  <1>2. c.function = "json2protocol" /\ c.type = t /\ c.value = j /\ c.permissive = FALSE
    BY DEF Demarshalling, Call
  <1> HIDE DEF c
  <1>3. Parts(c) = JsonParts(t, j)
    BY <1>2 DEF Parts
  <1>4. Made(c) = {Demarshalling(q[1], q[2]) : q \in JsonParts(t, j)}
    BY <1>2, <1>3, Zenon DEF Made, Demarshalling
  <1>5. e \in Calls(c) <=> e = c \/ \E d \in Made(c) : e \in Calls(d)
    BY <1>1, CallsUnfold
  <1> QED
    BY <1>4, <1>5, Zenon DEF c

CleanAll(t, w) == \A c \in Calls(Marshalling(t, w, FALSE)) : Clean(c.type, c.value)
Supported(t, w) == \A c \in Calls(Marshalling(t, w, FALSE)) : ~Unsupported(c.type, c.value)

LEMMA MarshallingsUnfold ==
  ASSUME NEW t \in Types, NEW w
  PROVE  /\ CleanAll(t, w) <=>
              Clean(t, w) /\ \A q \in BinaryParts(t, w) : CleanAll(q[1], q[2])
         /\ Supported(t, w) <=>
              ~Unsupported(t, w) /\ \A q \in BinaryParts(t, w) : Supported(q[1], q[2])
         /\ Marshallable(t, w) <=>
              ~Unmarshallable(t, w) /\ \A q \in BinaryParts(t, w) : Marshallable(q[1], q[2])
         /\ Readable(t, w) <=>
              /\ HasRange(t, w) /\ WellFormed(t, w)
              /\ \A q \in BinaryParts(t, w) : Readable(q[1], q[2])
  <1>1. Marshalling(t, w, FALSE).type = t /\ Marshalling(t, w, FALSE).value = w
    BY DEF Marshalling, Call
  <1>2. CleanAll(t, w) <=> Clean(t, w) /\ \A q \in BinaryParts(t, w) : CleanAll(q[1], q[2])
    BY <1>1, ComesOfMarshalling, Zenon DEF CleanAll
  <1>3. Supported(t, w) <=>
          ~Unsupported(t, w) /\ \A q \in BinaryParts(t, w) : Supported(q[1], q[2])
    BY <1>1, ComesOfMarshalling, Zenon DEF Supported
  <1>4. Marshallable(t, w) <=>
          ~Unmarshallable(t, w) /\ \A q \in BinaryParts(t, w) : Marshallable(q[1], q[2])
    BY <1>1, ComesOfMarshalling, Zenon DEF Marshallable
  <1>5. Readable(t, w) <=>
          /\ HasRange(t, w) /\ WellFormed(t, w)
          /\ \A q \in BinaryParts(t, w) : Readable(q[1], q[2])
    <2> DEFINE Written(s, x) == HasRange(s, x) /\ WellFormed(s, x)
    <2>1. Readable(t, w) <=> \A c \in Calls(Marshalling(t, w, FALSE)) : Written(c.type, c.value)
      BY Zenon DEF Readable
    <2>2. \A q \in BinaryParts(t, w) :
             Readable(q[1], q[2]) <=>
               \A c \in Calls(Marshalling(q[1], q[2], FALSE)) : Written(c.type, c.value)
      BY Zenon DEF Readable
    <2> HIDE DEF Written
    <2>3. Readable(t, w) <=> Written(t, w) /\ \A q \in BinaryParts(t, w) : Readable(q[1], q[2])
      BY <1>1, <2>1, <2>2, ComesOfMarshalling, Zenon
    <2> QED
      BY <2>3 DEF Written
  <1> QED
    BY <1>2, <1>3, <1>4, <1>5

LEMMA AcceptedUnfolds ==
  ASSUME NEW t \in Types, NEW j
  PROVE  Accepted(t, j) <=> Takes(t, j) /\ \A q \in JsonParts(t, j) : Accepted(q[1], q[2])
  <1>1. Demarshalling(t, j).type = t /\ Demarshalling(t, j).value = j
    BY DEF Demarshalling, Call
  <1>2. ASSUME Takes(t, j)
        PROVE  Accepted(t, j) <=> \A q \in JsonParts(t, j) : Accepted(q[1], q[2])
    BY <1>1, <1>2, ComesOfDemarshalling, Zenon DEF Accepted
  <1>3. ASSUME Accepted(t, j) PROVE Takes(t, j)
    <2>1. IsCall(Demarshalling(t, j))
      BY CallIsCall DEF Demarshalling, Interpreters
    <2>2. Demarshalling(t, j) \in Calls(Demarshalling(t, j))
      BY <2>1, CallsUnfold
    <2> QED
      BY <1>1, <1>3, <2>2 DEF Accepted
  <1> QED
    BY <1>2, <1>3
-----------------------------------------------------------------------------
(* What json2protocol makes of JSON that it takes is clean, by induction   *)
(* on how deep the type is nested.                                         *)
CleanBack(t) == \A j : Accepted(t, j) => CleanAll(t, Json2protocol(t, j))
CleanBelow(t) == \A s \in Types : PartOf(s, t) => CleanBack(s)

LEMMA BackHasTType ==
  ASSUME NEW t \in Types, NEW j, Takes(t, j)
  PROVE  Json2protocol(t, j).ttype = TType(t)
  <1>1. CASE t.kind \in {"bool", "i8", "i16", "i32", "double", "string", "i64", "enum"}
    BY <1>1, DemarshalsBase
  <1>2. CASE t.kind \in Containers
    BY <1>2, DemarshalsList
  <1>3. CASE t.kind = "map"
    <2>1. j.json = "object" \/ j.json = "array"
      BY <1>3, Zenon DEF Takes, MapForm, Containers
    <2> QED
      BY <1>3, <2>1, DemarshalsObject, DemarshalsArray
  <1>4. CASE t.kind = "struct"
    <2>1. PICK v : Json2protocol(t, j) = [ttype |-> TType(t), val |-> v]
      BY <1>4, DemarshalsStruct, Zenon
    <2> QED
      BY <2>1
  <1>5. t.kind # "binary"
    BY Zenon DEF Takes, Containers
  <1> QED
    BY <1>1, <1>2, <1>3, <1>4, <1>5, TypeAssumption DEF Kinds

LEMMA CleanBackBase ==
  ASSUME NEW t \in Types,
         t.kind \in {"bool", "i8", "i16", "i32", "double", "string", "i64", "enum", "binary"}
  PROVE  CleanBack(t)
  <1>1. ASSUME NEW j, Accepted(t, j) PROVE CleanAll(t, Json2protocol(t, j))
    <2> DEFINE b == Json2protocol(t, j)
    <2>1. Takes(t, j)
      BY <1>1, AcceptedUnfolds
    <2>2. BinaryParts(t, b) = {}
      BY DEF BinaryParts, Containers
    <2>3. t.kind # "binary"
      BY <2>1, Zenon DEF Takes, Containers
    <2>4. b.ttype = TType(t) /\ b = [ttype |-> TType(t), val |-> b.val]
      <3>1. PICK v : b = [ttype |-> TType(t), val |-> v]
        BY <2>1, <2>3, DemarshalsBase
      <3> QED
        BY <3>1
    <2>5. t.kind \in {"i8", "i16", "i32"} => b.val = j.val
      BY <2>1, DemarshalsBase
    <2>6. t.kind = "i8" => b.val \in Int8
      BY <2>1, <2>5, Zenon DEF Takes, Fits, Containers
    <2>7. t.kind = "i16" => b.val \in Int16
      BY <2>1, <2>5, Zenon DEF Takes, Fits, Containers
    <2>8. t.kind = "i32" => b.val \in Int32
      BY <2>1, <2>5, Zenon DEF Takes, Fits, Containers
    <2>9. t.kind = "i64" => b.val \in Int64
      <3>1. t.kind = "i64" => j.val \in DOMAIN Stoll
        BY <2>1, Zenon DEF Takes, Numeral, Containers
      <3> QED
        BY <2>1, <3>1, DemarshalsBase, NumeralAssumption
    <2>10. t.kind = "enum" => b.val \in Int32
      <3>1. t.kind = "enum" => j.val \in DOMAIN Labels
        BY <2>1, Zenon DEF Takes, Containers
      <3> QED
        BY <2>1, <3>1, DemarshalsBase, LabelAssumption
    <2> HIDE DEF b
    <2>11. Clean(t, b)
      BY <2>4, <2>6, <2>7, <2>8, <2>9, <2>10 DEF Clean, HasRange
    <2> QED
      BY <2>2, <2>11, MarshallingsUnfold DEF b
  <1> QED
    BY <1>1 DEF CleanBack

LEMMA CleanBackList ==
  ASSUME NEW t \in Types, t.kind \in Containers, CleanBelow(t)
  PROVE  CleanBack(t)
  <1>1. ASSUME NEW j, Accepted(t, j) PROVE CleanAll(t, Json2protocol(t, j))
    <2> DEFINE b == Json2protocol(t, j)
    <2>1. Takes(t, j) /\ \A q \in JsonParts(t, j) : Accepted(q[1], q[2])
      BY <1>1, AcceptedUnfolds
    <2>2. b = [ttype |-> TType(t), val |-> [i \in DOMAIN j.val |-> Json2protocol(t.elem, j.val[i])]]
      BY <2>1, DemarshalsList
    <2>3. t.elem \in Types /\ PartOf(t.elem, t)
      BY TypeAssumption DEF PartOf
    <2>4. ASSUME NEW i \in DOMAIN b.val PROVE CleanAll(t.elem, b.val[i])
      <3>1. i \in DOMAIN j.val /\ b.val[i] = Json2protocol(t.elem, j.val[i])
        BY <2>2
      <3>2. <<t.elem, j.val[i]>> \in JsonParts(t, j)
        BY <3>1 DEF JsonParts, Containers
      <3> QED
        BY <2>1, <2>3, <3>1, <3>2 DEF CleanBelow, CleanBack
    <2>5. \A q \in BinaryParts(t, b) : CleanAll(q[1], q[2])
      <3> HIDE DEF b
      <3> QED
        BY <2>4 DEF BinaryParts, Containers
    <2>6. Clean(t, b)
      BY <2>2 DEF Clean, HasRange, Containers
    <2> QED
      BY <2>5, <2>6, MarshallingsUnfold
  <1> QED
    BY <1>1 DEF CleanBack

LEMMA CleanBackMap ==
  ASSUME NEW t \in Types, t.kind = "map", CleanBelow(t)
  PROVE  CleanBack(t)
  <1>1. ASSUME NEW j, Accepted(t, j) PROVE CleanAll(t, Json2protocol(t, j))
    <2> DEFINE b == Json2protocol(t, j)
    <2>1. Takes(t, j) /\ \A q \in JsonParts(t, j) : Accepted(q[1], q[2])
      BY <1>1, AcceptedUnfolds
    <2>2. t.key \in Types /\ PartOf(t.key, t) /\ t.elem \in Types /\ PartOf(t.elem, t)
      BY TypeAssumption DEF PartOf
    <2>3. b = [ttype |-> TType(t), val |-> b.val] /\
          \A e \in b.val : CleanAll(t.key, e[1]) /\ CleanAll(t.elem, e[2])
      <3>1. CASE j.json = "object"
        <4>1. b = [ttype |-> TType(t),
                   val |-> {<<Json2protocol(t.key, Json("string", k)), Json2protocol(t.elem, j.val[k])>> :
                              k \in DOMAIN j.val}]
          BY <2>1, <3>1, DemarshalsObject
        <4>2. ASSUME NEW k \in DOMAIN j.val
              PROVE  /\ CleanAll(t.key, Json2protocol(t.key, Json("string", k)))
                     /\ CleanAll(t.elem, Json2protocol(t.elem, j.val[k]))
          <5>1. /\ <<t.key, Json("string", k)>> \in JsonParts(t, j)
                /\ <<t.elem, j.val[k]>> \in JsonParts(t, j)
            BY <3>1 DEF JsonParts, Containers
          <5> QED
            BY <2>1, <2>2, <5>1 DEF CleanBelow, CleanBack
        <4> HIDE DEF b
        <4> QED
          BY <4>1, <4>2
      <3>2. CASE j.json = "array"
        <4>1. b = [ttype |-> TType(t),
                   val |-> {<<Json2protocol(t.key, j.val[i].val[1]),
                              Json2protocol(t.elem, j.val[i].val[2])>> : i \in DOMAIN j.val}]
          BY <2>1, <3>2, DemarshalsArray
        <4>2. ASSUME NEW i \in DOMAIN j.val
              PROVE  /\ CleanAll(t.key, Json2protocol(t.key, j.val[i].val[1]))
                     /\ CleanAll(t.elem, Json2protocol(t.elem, j.val[i].val[2]))
          <5>1. /\ <<t.key, j.val[i].val[1]>> \in JsonParts(t, j)
                /\ <<t.elem, j.val[i].val[2]>> \in JsonParts(t, j)
            BY <3>2 DEF JsonParts, Containers
          <5> QED
            BY <2>1, <2>2, <5>1 DEF CleanBelow, CleanBack
        <4> HIDE DEF b
        <4> QED
          BY <4>1, <4>2
      <3>3. j.json = "object" \/ j.json = "array"
        BY <2>1, Zenon DEF Takes, MapForm, Containers
      <3> QED
        BY <3>1, <3>2, <3>3
    <2> HIDE DEF b
    <2>4. \A q \in BinaryParts(t, b) : CleanAll(q[1], q[2])
      BY <2>3 DEF BinaryParts, Containers
    <2>5. Clean(t, b)
      BY <2>3 DEF Clean, HasRange
    <2> QED
      BY <2>4, <2>5, MarshallingsUnfold DEF b
  <1> QED
    BY <1>1 DEF CleanBack

LEMMA CleanBackStruct ==
  ASSUME NEW t \in Types, t.kind = "struct", CleanBelow(t)
  PROVE  CleanBack(t)
  <1>1. ASSUME NEW j, Accepted(t, j) PROVE CleanAll(t, Json2protocol(t, j))
    <2> DEFINE b == Json2protocol(t, j)
               ids == {g.id : g \in {g \in t.fields : g.name \in DOMAIN j.val}}
    <2>1. Takes(t, j) /\ \A q \in JsonParts(t, j) : Accepted(q[1], q[2])
      BY <1>1, AcceptedUnfolds
    <2>2. b = [ttype |-> TType(t),
               val |-> [i \in ids |-> Json2protocol(FieldsById(t)[i].type, j.val[FieldsById(t)[i].name])]]
      BY <2>1, DemarshalsStruct
    <2>3. ASSUME NEW i \in ids
          PROVE  /\ i \in DOMAIN FieldsById(t)
                 /\ CleanAll(FieldsById(t)[i].type, b.val[i])
                 /\ b.val[i].ttype = TType(FieldsById(t)[i].type)
      <3>1. PICK g \in t.fields : g.id = i /\ g.name \in DOMAIN j.val
        OBVIOUS
      <3>2. /\ i \in DOMAIN FieldsById(t) /\ FieldsById(t)[i] = g
            /\ g.name \in DOMAIN FieldsByName(t) /\ FieldsByName(t)[g.name] = g
        BY <3>1, NamedIsByName
      <3>3. <<g.type, j.val[g.name]>> \in JsonParts(t, j)
        BY <3>1, <3>2 DEF JsonParts, Containers
      <3>4. g.type \in Types /\ PartOf(g.type, t)
        BY TypeAssumption DEF PartOf
      <3>5. Accepted(g.type, j.val[g.name]) /\ Takes(g.type, j.val[g.name])
        BY <2>1, <3>3, <3>4, AcceptedUnfolds
      <3>6. b.val[i] = Json2protocol(g.type, j.val[g.name])
        BY <2>2, <3>2
      <3> HIDE DEF b
      <3> QED
        BY <3>2, <3>4, <3>5, <3>6, BackHasTType DEF CleanBelow, CleanBack
    <2>4. DOMAIN b.val = ids /\ b = [ttype |-> TType(t), val |-> b.val]
      BY <2>2
    <2> HIDE DEF b, ids
    <2>5. Known(t, b) = DOMAIN b.val
      BY <2>3, <2>4 DEF Known
    <2>6. \A q \in BinaryParts(t, b) : CleanAll(q[1], q[2])
      BY <2>3, <2>4, <2>5 DEF BinaryParts, Containers
    <2>7. Clean(t, b)
      BY <2>4, <2>5 DEF Clean, HasRange
    <2> QED
      BY <2>6, <2>7, MarshallingsUnfold DEF b
  <1> QED
    BY <1>1 DEF CleanBack

LEMMA AcceptedIsClean ==
  ASSUME NEW t \in Types, NEW j, Accepted(t, j)
  PROVE  CleanAll(t, Json2protocol(t, j))
  <1> DEFINE T == {s \in Types : CleanBack(s)}
  <1>1. ASSUME NEW s \in Types, \A u \in Types : PartOf(u, s) => u \in T PROVE s \in T
    <2>1. CleanBelow(s)
      BY <1>1 DEF CleanBelow
    <2>2. CleanBack(s)
      BY <2>1, CleanBackBase, CleanBackList, CleanBackMap, CleanBackStruct, TypeAssumption DEF Kinds
    <2> QED
      BY <2>2
  <1>2. T = Types
    <2>1. T \subseteq Types
      OBVIOUS
    <2> HIDE DEF T
    <2> QED
      BY <1>1, <2>1, TypeInduction
  <1> QED
    BY <1>2 DEF CleanBack
-----------------------------------------------------------------------------
(* What protocol2json makes of the parts that a value has.                 *)
LEMMA InOrderOf ==
  ASSUME NEW S, IsFiniteSet(S), NEW es, es = SetToSeq(S)
  PROVE  /\ \E n \in Nat : es \in [1 .. n -> S]
         /\ \A x \in S : \E i \in DOMAIN es : es[i] = x
  <1> DEFINE n == Cardinality(S)
  <1>1. n \in Nat /\ ExistsBijection(1 .. n, S)
    BY FS_CardinalityType
  <1> HIDE DEF n
  <1>2. PICK f \in [1 .. n -> S] : IsInjective(f)
    BY <1>1 DEF ExistsBijection, Bijection, Injection
  <1>3. es \in [1 .. n -> S] /\ IsInjective(es)
    BY <1>2 DEF SetToSeq, n
  <1>4. es \in Injection(1 .. n, S)
    BY <1>3 DEF Injection
  <1>5. IsFiniteSet(1 .. n) /\ Cardinality(1 .. n) = Cardinality(S)
    BY <1>1, FS_Interval DEF n
  <1>6. es \in Surjection(1 .. n, S)
    BY <1>4, <1>5, FS_Injection
  <1> QED
    BY <1>1, <1>3, <1>6 DEF Surjection

LEMMA PairIsArray ==
  ASSUME NEW k, NEW v
  PROVE  /\ Pair(k, v).json \in {"array", "object"}
         /\ Pair(k, v).json = "array" => Pair(k, v).val = <<k, v>>
         /\ Pair(k, v).json # "array" => LooksLikeMember(k) /\ LooksLikeMember(v)
  BY DEF Pair, Json

LEMMA ReadableParts ==
  ASSUME NEW t \in Types, NEW w, Readable(t, w)
  PROVE  /\ w = [ttype |-> TType(t), val |-> w.val] /\ HasRange(t, w) /\ WellFormed(t, w)
         /\ t.kind \in Containers => \A i \in DOMAIN w.val : Readable(t.elem, w.val[i])
         /\ t.kind = "map" => \A e \in w.val : Readable(t.key, e[1]) /\ Readable(t.elem, e[2])
         /\ t.kind = "struct" => \A i \in Known(t, w) : Readable(FieldsById(t)[i].type, w.val[i])
  <1>1. /\ HasRange(t, w) /\ WellFormed(t, w)
        /\ \A q \in BinaryParts(t, w) : Readable(q[1], q[2])
    BY MarshallingsUnfold
  <1>2. ASSUME t.kind \in Containers, NEW i \in DOMAIN w.val PROVE Readable(t.elem, w.val[i])
    <2>1. <<t.elem, w.val[i]>> \in BinaryParts(t, w)
      BY <1>2 DEF BinaryParts, Containers
    <2> QED
      BY <1>1, <2>1
  <1>3. ASSUME t.kind = "map", NEW e \in w.val PROVE Readable(t.key, e[1]) /\ Readable(t.elem, e[2])
    <2>1. <<t.key, e[1]>> \in BinaryParts(t, w) /\ <<t.elem, e[2]>> \in BinaryParts(t, w)
      BY <1>3 DEF BinaryParts, Containers
    <2> QED
      BY <1>1, <2>1
  <1>4. ASSUME t.kind = "struct", NEW i \in Known(t, w) PROVE Readable(FieldsById(t)[i].type, w.val[i])
    <2>1. <<FieldsById(t)[i].type, w.val[i]>> \in BinaryParts(t, w)
      BY <1>4 DEF BinaryParts, Containers
    <2> QED
      BY <1>1, <2>1
  <1>5. w = [ttype |-> TType(t), val |-> w.val]
    BY <1>1 DEF HasRange
  <1> QED
    BY <1>1, <1>2, <1>3, <1>4, <1>5

LEMMA MarshallableParts ==
  ASSUME NEW t \in Types, NEW w, Marshallable(t, w)
  PROVE  /\ ~Unmarshallable(t, w)
         /\ t.kind \in Containers => \A i \in DOMAIN w.val : Marshallable(t.elem, w.val[i])
         /\ t.kind = "map" => \A e \in w.val : Marshallable(t.key, e[1]) /\ Marshallable(t.elem, e[2])
         /\ t.kind = "struct" => \A i \in Known(t, w) : Marshallable(FieldsById(t)[i].type, w.val[i])
  <1>1. ~Unmarshallable(t, w) /\ \A q \in BinaryParts(t, w) : Marshallable(q[1], q[2])
    BY MarshallingsUnfold
  <1>2. ASSUME t.kind \in Containers, NEW i \in DOMAIN w.val PROVE Marshallable(t.elem, w.val[i])
    <2>1. <<t.elem, w.val[i]>> \in BinaryParts(t, w)
      BY <1>2 DEF BinaryParts, Containers
    <2> QED
      BY <1>1, <2>1
  <1>3. ASSUME t.kind = "map", NEW e \in w.val
        PROVE  Marshallable(t.key, e[1]) /\ Marshallable(t.elem, e[2])
    <2>1. <<t.key, e[1]>> \in BinaryParts(t, w) /\ <<t.elem, e[2]>> \in BinaryParts(t, w)
      BY <1>3 DEF BinaryParts, Containers
    <2> QED
      BY <1>1, <2>1
  <1>4. ASSUME t.kind = "struct", NEW i \in Known(t, w)
        PROVE  Marshallable(FieldsById(t)[i].type, w.val[i])
    <2>1. <<FieldsById(t)[i].type, w.val[i]>> \in BinaryParts(t, w)
      BY <1>4 DEF BinaryParts, Containers
    <2> QED
      BY <1>1, <2>1
  <1> QED
    BY <1>1, <1>2, <1>3, <1>4

(* The members of the JSON of a struct that name fields are those of the   *)
(* fields that it knows: a name is no number, and names one field.         *)
LEMMA StructMembers ==
  ASSUME NEW t \in Types, t.kind = "struct", NEW w, Readable(t, w), NEW p \in BOOLEAN,
         NEW j, j = Protocol2json(t, w, p)
  PROVE  /\ j.json = "object"
         /\ \A g \in t.fields : g.name \in DOMAIN j.val <=> g.id \in Known(t, w)
         /\ \A g \in t.fields : g.id \in Known(t, w) =>
               j.val[g.name] = Protocol2json(g.type, w.val[g.id], p)
  <1> DEFINE kept == Kept(t, w, p)
             Of(n) == Named(t, w, p, n)
             names == {MemberName(t, w, i) : i \in kept}
  <1>1. j = Json("object", [n \in names |-> MemberOf(t, w, p, n)])
    BY MarshalsStruct, Zenon
  <1>2. j.json = "object" /\ DOMAIN j.val = names /\ \A n \in names : j.val[n] = MemberOf(t, w, p, n)
    <2> HIDE DEF names
    <2> QED
      BY <1>1 DEF Json
  <1>3. DOMAIN w.val \subseteq Int64
    BY ReadableParts, WidthAssumption DEF WellFormed
  <1>4. Known(t, w) \subseteq kept /\ kept \subseteq DOMAIN w.val
    BY DEF Known, Kept
  <1>5. ASSUME NEW g \in t.fields, NEW i \in kept, MemberName(t, w, i) = g.name
        PROVE  g.id = i /\ g.id \in Known(t, w)
    <2>1. i \in Known(t, w)
      <3>1. i \in Int64
        BY <1>3, <1>4
      <3>2. g.name # Decimal[i]
        BY <3>1, TypeAssumption
      <3> QED
        BY <1>5, <3>2 DEF MemberName
    <2>2. FieldsById(t)[i] \in t.fields /\ FieldsById(t)[i].id = i
      BY <2>1, FieldsAreFields DEF Known
    <2>3. FieldsById(t)[i].name = g.name
      BY <1>5, <2>1 DEF MemberName
    <2>4. FieldsById(t)[i] = g
      BY <2>2, <2>3, TypeAssumption
    <2> QED
      BY <2>1, <2>2, <2>4
  <1>6. ASSUME NEW g \in t.fields, g.id \in Known(t, w)
        PROVE  /\ g.id \in kept /\ MemberName(t, w, g.id) = g.name
               /\ FieldsById(t)[g.id] = g /\ Of(g.name) = g.id
    <2>1. g.id \in kept /\ FieldsById(t)[g.id] = g
      BY <1>4, <1>6, NamedIsByName
    <2>2. MemberName(t, w, g.id) = g.name
      BY <1>6, <2>1 DEF MemberName
    <2>3. Of(g.name) \in kept /\ MemberName(t, w, Of(g.name)) = g.name
      BY <2>1, <2>2 DEF Named
    <2>4. Of(g.name) = g.id
      <3> HIDE DEF Of
      <3> QED
        BY <1>5, <2>3
    <2> QED
      BY <2>1, <2>2, <2>4
  <1>7. ASSUME NEW g \in t.fields PROVE g.name \in names <=> g.id \in Known(t, w)
    <2> HIDE DEF kept
    <2> QED
      BY <1>5, <1>6
  <1>8. ASSUME NEW g \in t.fields, g.id \in Known(t, w)
        PROVE  j.val[g.name] = Protocol2json(g.type, w.val[g.id], p)
    <2>1. j.val[g.name] = MemberOf(t, w, p, g.name)
      BY <1>2, <1>7, <1>8
    <2>2. Of(g.name) = g.id /\ FieldsById(t)[g.id] = g
      BY <1>6, <1>8
    <2> QED
      BY <1>8, <2>1, <2>2 DEF MemberOf
  <1> HIDE DEF names
  <1> QED
    BY <1>2, <1>7, <1>8
-----------------------------------------------------------------------------
(* What comes back of a value, if it is not refused, by induction on how   *)
(* deep its type is nested.                                                *)
Back(t) ==
  \A w : \A p \in BOOLEAN :
     Readable(t, w) /\ Marshallable(t, w) /\ Accepted(t, Protocol2json(t, w, p)) =>
        Json2protocol(t, Protocol2json(t, w, p)) = Shared(t, w)
BackBelow(t) == \A s \in Types : PartOf(s, t) => Back(s)

LEMMA BackBase ==
  ASSUME NEW t \in Types,
         t.kind \in {"bool", "i8", "i16", "i32", "double", "string", "i64", "enum", "binary"}
  PROVE  Back(t)
  <1>1. ASSUME NEW w, NEW p \in BOOLEAN, Readable(t, w), Marshallable(t, w),
               Accepted(t, Protocol2json(t, w, p))
        PROVE  Json2protocol(t, Protocol2json(t, w, p)) = Shared(t, w)
    <2> DEFINE j == Protocol2json(t, w, p)
    <2>1. Takes(t, j)
      BY <1>1, AcceptedUnfolds
    <2>2. w = [ttype |-> TType(t), val |-> w.val] /\ HasRange(t, w)
      BY <1>1, ReadableParts
    <2>3. Shared(t, w) = w
      BY <2>2, SharesAll DEF Containers
    <2>4. CASE t.kind \in {"bool", "i8", "i16", "i32", "double", "string"}
      <3>1. j.val = w.val
        BY <2>4, MarshalsBase DEF Json
      <3> HIDE DEF j
      <3>2. Json2protocol(t, j) = [ttype |-> TType(t), val |-> j.val]
        BY <2>1, <2>4, DemarshalsBase
      <3> QED
        BY <2>2, <2>3, <3>1, <3>2, Zenon DEF j
    <2>5. CASE t.kind = "i64"
      <3>1. j.val = Decimal[w.val]
        BY <2>5, MarshalsBase DEF Json
      <3>2. Stoll[Decimal[w.val]] = w.val
        BY <2>2, <2>5, NumeralAssumption DEF HasRange
      <3> HIDE DEF j
      <3>3. Json2protocol(t, j) = [ttype |-> TType(t), val |-> Stoll[j.val]]
        BY <2>1, <2>5, DemarshalsBase
      <3> QED
        BY <2>2, <2>3, <3>1, <3>2, <3>3, Zenon DEF j
    <2>6. CASE t.kind = "enum"
      <3>1. j.val = CHOOSE l \in DOMAIN Labels : Labels[l] = w.val
        BY <2>6, MarshalsBase DEF Json
      <3>2. \E l \in DOMAIN Labels : Labels[l] = w.val
        BY <1>1, <2>6, MarshallableParts DEF Unmarshallable
      <3>3. Labels[j.val] = w.val
        BY <3>1, <3>2
      <3> HIDE DEF j
      <3>4. Json2protocol(t, j) = [ttype |-> TType(t), val |-> Labels[j.val]]
        BY <2>1, <2>6, DemarshalsBase
      <3> QED
        BY <2>2, <2>3, <3>3, <3>4, Zenon DEF j
    <2>7. t.kind # "binary"
      BY <1>1, MarshallableParts DEF Unmarshallable
    <2> QED
      BY <2>4, <2>5, <2>6, <2>7
  <1> QED
    BY <1>1 DEF Back

LEMMA BackList ==
  ASSUME NEW t \in Types, t.kind \in Containers, BackBelow(t)
  PROVE  Back(t)
  <1>1. ASSUME NEW w, NEW p \in BOOLEAN, Readable(t, w), Marshallable(t, w),
               Accepted(t, Protocol2json(t, w, p))
        PROVE  Json2protocol(t, Protocol2json(t, w, p)) = Shared(t, w)
    <2> DEFINE j == Protocol2json(t, w, p)
    <2>1. Takes(t, j) /\ \A q \in JsonParts(t, j) : Accepted(q[1], q[2])
      BY <1>1, AcceptedUnfolds
    <2>2. DOMAIN j.val = DOMAIN w.val /\
          \A i \in DOMAIN w.val : j.val[i] = Protocol2json(t.elem, w.val[i], p)
      BY MarshalsList DEF Json
    <2>3. t.elem \in Types /\ PartOf(t.elem, t)
      BY TypeAssumption DEF PartOf, Containers
    <2> HIDE DEF j
    <2>4. ASSUME NEW i \in DOMAIN w.val
          PROVE  Json2protocol(t.elem, j.val[i]) = Shared(t.elem, w.val[i])
      <3>1. <<t.elem, j.val[i]>> \in JsonParts(t, j)
        BY <2>2 DEF JsonParts, Containers
      <3>2. Accepted(t.elem, j.val[i])
        BY <2>1, <3>1
      <3>3. Readable(t.elem, w.val[i]) /\ Marshallable(t.elem, w.val[i])
        BY <1>1, ReadableParts, MarshallableParts
      <3> QED
        BY <2>2, <2>3, <3>2, <3>3 DEF BackBelow, Back
    <2>5. Json2protocol(t, j) =
            [ttype |-> TType(t), val |-> [i \in DOMAIN j.val |-> Json2protocol(t.elem, j.val[i])]]
      BY <2>1, DemarshalsList
    <2>6. Shared(t, w) =
            [ttype |-> TType(t), val |-> [i \in DOMAIN w.val |-> Shared(t.elem, w.val[i])]]
      BY <1>1, ReadableParts, SharesAll
    <2>7. [i \in DOMAIN j.val |-> Json2protocol(t.elem, j.val[i])]
            = [i \in DOMAIN w.val |-> Shared(t.elem, w.val[i])]
      BY <2>2, <2>4, Zenon
    <2> QED
      BY <2>5, <2>6, <2>7, Zenon DEF j
  <1> QED
    BY <1>1 DEF Back

LEMMA EntryBack ==
  ASSUME NEW t \in Types, t.kind = "map", BackBelow(t), NEW w, NEW p \in BOOLEAN,
         Readable(t, w), Marshallable(t, w), NEW e \in w.val
  PROVE  /\ Accepted(t.key, Protocol2json(t.key, e[1], p)) =>
               Json2protocol(t.key, Protocol2json(t.key, e[1], p)) = Shared(t.key, e[1])
         /\ Accepted(t.elem, Protocol2json(t.elem, e[2], p)) =>
               Json2protocol(t.elem, Protocol2json(t.elem, e[2], p)) = Shared(t.elem, e[2])
  <1>1. t.key \in Types /\ PartOf(t.key, t) /\ t.elem \in Types /\ PartOf(t.elem, t)
    BY TypeAssumption DEF PartOf
  <1>2. /\ Readable(t.key, e[1]) /\ Readable(t.elem, e[2])
        /\ Marshallable(t.key, e[1]) /\ Marshallable(t.elem, e[2])
    BY ReadableParts, MarshallableParts
  <1> QED
    BY <1>1, <1>2 DEF BackBelow, Back

LEMMA TextKeys ==
  ASSUME NEW t \in Types, t.kind = "map", TType(t.key) = "T_STRING", HasTType(t.key),
         NEW w, Readable(t, w), NEW p
  PROVE  \A e \in w.val : Protocol2json(t.key, e[1], p) = Json("string", e[1].val)
  <1>1. t.key \in Types
    BY TypeAssumption DEF PartOf
  <1>2. t.key.kind \in Kinds
    BY <1>1, TypeAssumption
  <1>3. t.key.kind = "string"
    BY <1>2, Zenon DEF TType, HasTType, Kinds, Containers
  <1> QED
    BY <1>1, <1>3, MarshalsBase
(* A map that becomes an object has a member for each entry: its keys are  *)
(* texts, and each is there once.                                          *)
LEMMA ObjectMembers ==
  ASSUME NEW t \in Types, t.kind = "map", TType(t.key) = "T_STRING", HasTType(t.key),
         NEW w, Readable(t, w), NEW p, NEW j, j = Protocol2json(t, w, p)
  PROVE  /\ j.json = "object"
         /\ \A k : k \in DOMAIN j.val <=> \E e \in w.val : e[1].val = k
         /\ \A e \in w.val :
               /\ Json("string", e[1].val) = Protocol2json(t.key, e[1], p)
               /\ j.val[e[1].val] = Protocol2json(t.elem, e[2], p)
  <1> DEFINE Key(e) == KeyText(t, p, e)
             names == {Key(e) : e \in w.val}
             Choose(k) == EntryNamed(t, w, p, k)
             Member(k) == MemberNamed(t, w, p, k)
  <1>1. j = Json("object", [k \in names |-> Member(k)])
    BY MarshalsObject, Zenon
  <1>2. j.json = "object" /\ DOMAIN j.val = names /\ \A k \in names : j.val[k] = Member(k)
    <2> HIDE DEF names
    <2> QED
      BY <1>1 DEF Json
  <1>3. \A e \in w.val : Protocol2json(t.key, e[1], p) = Json("string", e[1].val)
    BY TextKeys
  <1>4. \A e \in w.val : Key(e) = e[1].val
    <2> TAKE e \in w.val
    <2>1. Protocol2json(t.key, e[1], p) = [json |-> "string", val |-> e[1].val]
      BY <1>3 DEF Json
    <2> QED
      BY <2>1 DEF KeyText
  <1>5. \A d, e \in w.val : Key(d) = Key(e) => d = e
    <2>1. \A d, e \in w.val : d[1] = e[1] => d = e
      BY ReadableParts DEF WellFormed
    <2>2. \A e \in w.val : e[1] = [ttype |-> TType(t.key), val |-> e[1].val]
      <3>1. t.key \in Types
        BY TypeAssumption DEF PartOf
      <3>2. \A e \in w.val : Readable(t.key, e[1])
        BY ReadableParts
      <3> QED
        BY <3>1, <3>2, ReadableParts
    <2>3. \A d, e \in w.val : d[1].val = e[1].val => d[1] = e[1]
      BY <2>2, Zenon
    <2> QED
      BY <1>4, <2>1, <2>3
  <1>6. ASSUME NEW e \in w.val PROVE j.val[Key(e)] = Protocol2json(t.elem, e[2], p)
    <2>1. Key(e) \in names
      OBVIOUS
    <2>2. Choose(Key(e)) = e
      BY <1>5 DEF EntryNamed
    <2> QED
      BY <1>2, <2>1, <2>2 DEF MemberNamed
  <1>7. ASSUME NEW k PROVE k \in DOMAIN j.val <=> \E e \in w.val : e[1].val = k
    <2> QED
      BY <1>2, <1>4
  <1> QED
    BY <1>2, <1>3, <1>4, <1>6, <1>7

LEMMA BackObject ==
  ASSUME NEW t \in Types, t.kind = "map", BackBelow(t), TType(t.key) = "T_STRING",
         NEW w, NEW p \in BOOLEAN, Readable(t, w), Marshallable(t, w),
         NEW j, j = Protocol2json(t, w, p), Accepted(t, j)
  PROVE  Json2protocol(t, j) = Shared(t, w)
  <1>1. Takes(t, j) /\ \A q \in JsonParts(t, j) : Accepted(q[1], q[2])
    BY AcceptedUnfolds
  <1>2. HasTType(t.key)
    BY <1>1, Zenon DEF Takes, MapForm, Containers
  <1>3. /\ j.json = "object"
        /\ \A k : k \in DOMAIN j.val <=> \E e \in w.val : e[1].val = k
        /\ \A e \in w.val :
              /\ Json("string", e[1].val) = Protocol2json(t.key, e[1], p)
              /\ j.val[e[1].val] = Protocol2json(t.elem, e[2], p)
    BY <1>2, ObjectMembers
  <1> DEFINE Entry(k) == <<Json2protocol(t.key, Json("string", k)), Json2protocol(t.elem, j.val[k])>>
             SharedEntry(e) == <<Shared(t.key, e[1]), Shared(t.elem, e[2])>>
  <1>4. ASSUME NEW e \in w.val PROVE Entry(e[1].val) = SharedEntry(e)
    <2>1. e[1].val \in DOMAIN j.val
      BY <1>3
    <2>2. /\ <<t.key, Json("string", e[1].val)>> \in JsonParts(t, j)
          /\ <<t.elem, j.val[e[1].val]>> \in JsonParts(t, j)
      BY <1>3, <2>1 DEF JsonParts, Containers
    <2>3. Accepted(t.key, Json("string", e[1].val)) /\ Accepted(t.elem, j.val[e[1].val])
      BY <1>1, <2>2
    <2> QED
      BY <1>3, <2>3, EntryBack
  <1> HIDE DEF Entry, SharedEntry
  <1>5. {Entry(k) : k \in DOMAIN j.val} = {SharedEntry(e) : e \in w.val}
    BY <1>3, <1>4
  <1>6. Json2protocol(t, j) = [ttype |-> TType(t), val |-> {Entry(k) : k \in DOMAIN j.val}]
    BY <1>1, <1>3, DemarshalsObject DEF Entry
  <1>7. Shared(t, w) = [ttype |-> TType(t), val |-> {SharedEntry(e) : e \in w.val}]
    BY ReadableParts, SharesAll DEF SharedEntry
  <1> QED
    BY <1>5, <1>6, <1>7, Zenon

(* The elements of the JSON of another map are its entries, in some order. *)
InOrder(t, w, p, j, n, es) ==
  /\ es \in [1 .. n -> w.val] /\ \A e \in w.val : \E i \in 1 .. n : es[i] = e
  /\ j = Json("array", [i \in 1 .. n |-> ElementOf(t, p, es[i])])

LEMMA ArrayElements ==
  ASSUME NEW t \in Types, t.kind = "map", TType(t.key) # "T_STRING",
         NEW w, Readable(t, w), NEW p
  PROVE  \E n \in Nat : InOrder(t, w, p, Protocol2json(t, w, p), n, SetToSeq(w.val))
  <1> DEFINE es == SetToSeq(w.val)
  <1>1. IsFiniteSet(w.val)
    BY ReadableParts DEF WellFormed
  <1>2. PICK n \in Nat : es \in [1 .. n -> w.val]
    BY <1>1, InOrderOf
  <1>3. \A i \in DOMAIN es : es[i] \in w.val
    BY <1>2
  <1>4. DOMAIN es = 1 .. n
    BY <1>2
  <1>5. \A e \in w.val : \E i \in 1 .. n : es[i] = e
    BY <1>1, <1>4, InOrderOf
  <1> HIDE DEF es
  <1>6. Protocol2json(t, w, p) = Json("array", [i \in DOMAIN es |-> ElementOf(t, p, es[i])])
    BY <1>3, MarshalsArray, Zenon DEF es
  <1> QED
    BY <1>2, <1>4, <1>5, <1>6 DEF InOrder, es

LEMMA InOrderElements ==
  ASSUME NEW t, NEW w, NEW p, NEW j, NEW n, NEW es, InOrder(t, w, p, j, n, es)
  PROVE  /\ j.json = "array" /\ DOMAIN j.val = 1 .. n
         /\ \A i \in 1 .. n : es[i] \in w.val /\ j.val[i] = ElementOf(t, p, es[i])
  BY DEF InOrder, Json

LEMMA BackArray ==
  ASSUME NEW t \in Types, t.kind = "map", BackBelow(t), TType(t.key) # "T_STRING",
         NEW w, NEW p \in BOOLEAN, Readable(t, w), Marshallable(t, w),
         NEW j, j = Protocol2json(t, w, p), Accepted(t, j)
  PROVE  Json2protocol(t, j) = Shared(t, w)
  <1>1. Takes(t, j) /\ \A q \in JsonParts(t, j) : Accepted(q[1], q[2])
    BY AcceptedUnfolds
  <1> DEFINE es == SetToSeq(w.val)
  <1>2. PICK n \in Nat : InOrder(t, w, p, j, n, es)
    BY ArrayElements
  <1> HIDE DEF es
  <1>3. /\ j.json = "array" /\ DOMAIN j.val = 1 .. n
        /\ \A i \in 1 .. n : es[i] \in w.val /\ j.val[i] = ElementOf(t, p, es[i])
    BY <1>2, InOrderElements
  <1>4. \A i \in DOMAIN j.val : j.val[i].json = "array"
    BY <1>1, <1>3, Zenon DEF Takes, MapForm, Containers
  <1> DEFINE Entry(i) == <<Json2protocol(t.key, j.val[i].val[1]), Json2protocol(t.elem, j.val[i].val[2])>>
             SharedEntry(e) == <<Shared(t.key, e[1]), Shared(t.elem, e[2])>>
  <1>5. ASSUME NEW i \in 1 .. n PROVE es[i] \in w.val /\ Entry(i) = SharedEntry(es[i])
    <2>1. j.val[i].val = <<Protocol2json(t.key, es[i][1], p), Protocol2json(t.elem, es[i][2], p)>>
      BY <1>3, <1>4, PairIsArray DEF ElementOf
    <2>2. /\ <<t.key, j.val[i].val[1]>> \in JsonParts(t, j)
          /\ <<t.elem, j.val[i].val[2]>> \in JsonParts(t, j)
      BY <1>3 DEF JsonParts, Containers
    <2>3. Accepted(t.key, j.val[i].val[1]) /\ Accepted(t.elem, j.val[i].val[2])
      BY <1>1, <2>2
    <2>4. /\ j.val[i].val[1] = Protocol2json(t.key, es[i][1], p)
          /\ j.val[i].val[2] = Protocol2json(t.elem, es[i][2], p)
      BY <2>1
    <2> QED
      BY <1>3, <2>3, <2>4, EntryBack
  <1> HIDE DEF Entry, SharedEntry
  <1>6. {Entry(i) : i \in DOMAIN j.val} = {SharedEntry(e) : e \in w.val}
    <2>1. \A e \in w.val : \E i \in 1 .. n : es[i] = e
      BY <1>2, Zenon DEF InOrder
    <2>2. DOMAIN j.val = 1 .. n
      BY <1>3
    <2>3. {Entry(i) : i \in 1 .. n} = {SharedEntry(e) : e \in w.val}
      BY <1>5, <2>1
    <2> QED
      BY <2>2, <2>3
  <1>7. Json2protocol(t, j) = [ttype |-> TType(t), val |-> {Entry(i) : i \in DOMAIN j.val}]
    BY <1>1, <1>3, DemarshalsArray DEF Entry
  <1>8. Shared(t, w) = [ttype |-> TType(t), val |-> {SharedEntry(e) : e \in w.val}]
    BY ReadableParts, SharesAll DEF SharedEntry
  <1> QED
    BY <1>6, <1>7, <1>8, Zenon

LEMMA BackStruct ==
  ASSUME NEW t \in Types, t.kind = "struct", BackBelow(t),
         NEW w, NEW p \in BOOLEAN, Readable(t, w), Marshallable(t, w),
         NEW j, j = Protocol2json(t, w, p), Accepted(t, j)
  PROVE  Json2protocol(t, j) = Shared(t, w)
  <1>1. Takes(t, j) /\ \A q \in JsonParts(t, j) : Accepted(q[1], q[2])
    BY AcceptedUnfolds
  <1>2. /\ \A g \in t.fields : g.name \in DOMAIN j.val <=> g.id \in Known(t, w)
        /\ \A g \in t.fields : g.id \in Known(t, w) =>
              j.val[g.name] = Protocol2json(g.type, w.val[g.id], p)
    BY StructMembers
  <1> DEFINE ids == {g.id : g \in {g \in t.fields : g.name \in DOMAIN j.val}}
             Field(i) == Json2protocol(FieldsById(t)[i].type, j.val[FieldsById(t)[i].name])
             SharedField(i) == Shared(FieldsById(t)[i].type, w.val[i])
  <1>3. ids = Known(t, w)
    <2>1. \A i \in Known(t, w) : \E g \in t.fields : g.id = i
      BY FieldsAreFields DEF Known
    <2> QED
      BY <1>2, <2>1
  <1>4. ASSUME NEW i \in Known(t, w) PROVE Field(i) = SharedField(i)
    <2>1. PICK g \in t.fields : g.id = i /\ FieldsById(t)[i] = g
      BY FieldsAreFields DEF Known
    <2>2. /\ j.val[g.name] = Protocol2json(g.type, w.val[i], p)
          /\ g.name \in DOMAIN j.val
      BY <1>2, <2>1
    <2>3. g.name \in DOMAIN FieldsByName(t) /\ FieldsByName(t)[g.name] = g
      BY NamedIsByName
    <2>4. <<g.type, j.val[g.name]>> \in JsonParts(t, j)
      BY <2>2, <2>3 DEF JsonParts, Containers
    <2>5. Accepted(g.type, j.val[g.name])
      BY <1>1, <2>4
    <2>6. g.type \in Types /\ PartOf(g.type, t)
      BY TypeAssumption DEF PartOf
    <2>7. Readable(g.type, w.val[i]) /\ Marshallable(g.type, w.val[i])
      BY <2>1, ReadableParts, MarshallableParts
    <2> QED
      BY <2>1, <2>2, <2>5, <2>6, <2>7 DEF BackBelow, Back
  <1>5. Json2protocol(t, j) = [ttype |-> TType(t), val |-> [i \in ids |-> Field(i)]]
    BY <1>1, DemarshalsStruct, Zenon
  <1>6. Shared(t, w) = [ttype |-> TType(t), val |-> [i \in Known(t, w) |-> SharedField(i)]]
    BY ReadableParts, SharesAll
  <1> HIDE DEF Field, SharedField, ids
  <1> QED
    BY <1>3, <1>4, <1>5, <1>6, Zenon

LEMMA ComesBack ==
  ASSUME NEW t \in Types, NEW w, NEW p \in BOOLEAN, Readable(t, w), Marshallable(t, w),
         Accepted(t, Protocol2json(t, w, p))
  PROVE  Json2protocol(t, Protocol2json(t, w, p)) = Shared(t, w)
  <1> DEFINE T == {s \in Types : Back(s)}
  <1>1. ASSUME NEW s \in Types, \A u \in Types : PartOf(u, s) => u \in T PROVE s \in T
    <2>1. BackBelow(s)
      BY <1>1 DEF BackBelow
    <2>2. s.kind = "map" => Back(s)
      BY <2>1, BackObject, BackArray DEF Back
    <2>3. s.kind = "struct" => Back(s)
      BY <2>1, BackStruct DEF Back
    <2>4. Back(s)
      BY <2>1, <2>2, <2>3, BackBase, BackList, TypeAssumption DEF Kinds
    <2> QED
      BY <2>4
  <1>2. T = Types
    <2>1. T \subseteq Types
      OBVIOUS
    <2> HIDE DEF T
    <2> QED
      BY <1>1, <2>1, TypeInduction
  <1> QED
    BY <1>2 DEF Back
-----------------------------------------------------------------------------
(* What is not unsupported is taken in both directions, by induction on    *)
(* how deep its type is nested.                                            *)
LEMMA SupportedParts ==
  ASSUME NEW t \in Types, NEW w, Supported(t, w)
  PROVE  /\ ~Unsupported(t, w)
         /\ t.kind \in Containers => \A i \in DOMAIN w.val : Supported(t.elem, w.val[i])
         /\ t.kind = "map" => \A e \in w.val : Supported(t.key, e[1]) /\ Supported(t.elem, e[2])
         /\ t.kind = "struct" => \A i \in Known(t, w) : Supported(FieldsById(t)[i].type, w.val[i])
  <1>1. ~Unsupported(t, w) /\ \A q \in BinaryParts(t, w) : Supported(q[1], q[2])
    BY MarshallingsUnfold
  <1>2. ASSUME t.kind \in Containers, NEW i \in DOMAIN w.val PROVE Supported(t.elem, w.val[i])
    <2>1. <<t.elem, w.val[i]>> \in BinaryParts(t, w)
      BY <1>2 DEF BinaryParts, Containers
    <2> QED
      BY <1>1, <2>1
  <1>3. ASSUME t.kind = "map", NEW e \in w.val
        PROVE  Supported(t.key, e[1]) /\ Supported(t.elem, e[2])
    <2>1. <<t.key, e[1]>> \in BinaryParts(t, w) /\ <<t.elem, e[2]>> \in BinaryParts(t, w)
      BY <1>3 DEF BinaryParts, Containers
    <2> QED
      BY <1>1, <2>1
  <1>4. ASSUME t.kind = "struct", NEW i \in Known(t, w)
        PROVE  Supported(FieldsById(t)[i].type, w.val[i])
    <2>1. <<FieldsById(t)[i].type, w.val[i]>> \in BinaryParts(t, w)
      BY <1>4 DEF BinaryParts, Containers
    <2> QED
      BY <1>1, <2>1
  <1> QED
    BY <1>1, <1>2, <1>3, <1>4

LEMMA MarshalsMap ==
  ASSUME NEW t \in Types, t.kind = "map", NEW w, Readable(t, w), NEW p
  PROVE  /\ TType(t.key) = "T_STRING" => Protocol2json(t, w, p).json = "object"
         /\ TType(t.key) # "T_STRING" => Protocol2json(t, w, p).json = "array"
  <1>1. ASSUME TType(t.key) # "T_STRING" PROVE Protocol2json(t, w, p).json = "array"
    <2>1. PICK n \in Nat : InOrder(t, w, p, Protocol2json(t, w, p), n, SetToSeq(w.val))
      BY <1>1, ArrayElements
    <2> QED
      BY <2>1, InOrderElements
  <1>2. ASSUME TType(t.key) = "T_STRING" PROVE Protocol2json(t, w, p).json = "object"
    <2>1. PICK v : Protocol2json(t, w, p) = Json("object", v)
      BY <1>2, MarshalsObject, Zenon
    <2> QED
      BY <2>1 DEF Json
  <1> QED
    BY <1>1, <1>2

LEMMA TextsAreTexts ==
  ASSUME NEW t \in Types, HasTType(t), NEW w, Readable(t, w), NEW p \in BOOLEAN,
         Protocol2json(t, w, p).json = "string"
  PROVE  t.kind \in {"string", "i64", "enum"}
  <1>1. t.kind \notin Containers
    BY MarshalsList DEF Json
  <1>2. t.kind # "map"
    BY MarshalsMap
  <1>3. t.kind # "struct"
    BY StructMembers
  <1>4. t.kind \notin {"bool", "i8", "i16", "i32", "double"}
    BY MarshalsBase DEF Json
  <1>5. t.kind # "binary" /\ t.kind \in Kinds
    BY TypeAssumption DEF HasTType
  <1> QED
    BY <1>1, <1>2, <1>3, <1>4, <1>5 DEF Kinds

LEMMA MembersAreTwoTexts ==
  ASSUME NEW t \in Types, NEW w, Readable(t, w), Supported(t, w), NEW p \in BOOLEAN,
         LooksLikeMember(Protocol2json(t, w, p))
  PROVE  TwoTexts(t, w)
  <1> DEFINE j == Protocol2json(t, w, p)
  <1>1. j.json = "array" /\ Len(j.val) = 2 /\ j.val[1].json = "string"
    BY DEF LooksLikeMember
  <1>2. t.kind \notin {"bool", "i8", "i16", "i32", "double", "string", "i64", "enum"}
    BY <1>1, MarshalsBase DEF Json
  <1>3. t.kind # "binary"
    BY SupportedParts DEF Unsupported, Unmarshallable
  <1>4. t.kind # "struct"
    BY <1>1, StructMembers
  <1>5. ASSUME t.kind = "map" PROVE FALSE
    <2>1. TType(t.key) # "T_STRING"
      BY <1>1, <1>5, MarshalsMap
    <2>2. PICK n \in Nat : InOrder(t, w, p, j, n, SetToSeq(w.val))
      BY <1>5, <2>1, ArrayElements
    <2>3. /\ j.val = [i \in 1 .. n |-> ElementOf(t, p, SetToSeq(w.val)[i])]
          /\ \A i \in 1 .. n : j.val[i] = ElementOf(t, p, SetToSeq(w.val)[i])
      <3> HIDE DEF j
      <3> QED
        BY <2>2, InOrderElements DEF InOrder, Json
    <2> HIDE DEF j
    <2>4. Len(j.val) = n
      BY <2>3
    <2>5. 1 \in 1 .. n
      BY <1>1, <2>4
    <2>6. j.val[1] = ElementOf(t, p, SetToSeq(w.val)[1])
      BY <2>3, <2>5
    <2> QED
      BY <1>1, <2>6, PairIsArray DEF ElementOf
  <1>6. t.kind \in Containers
    <2>1. t.kind \in Kinds
      BY TypeAssumption
    <2> QED
      BY <1>2, <1>3, <1>4, <1>5, <2>1 DEF Kinds
  <1>7. j.val = [i \in DOMAIN w.val |-> Protocol2json(t.elem, w.val[i], p)]
    BY <1>6, MarshalsList DEF Json
  <1>8. w.val \in Seq({w.val[i] : i \in DOMAIN w.val})
    BY <1>6, ReadableParts DEF WellFormed
  <1>9. Len(w.val) \in Nat /\ DOMAIN w.val = 1 .. Len(w.val)
    BY <1>8
  <1> HIDE DEF j
  <1>10. Len(j.val) = Len(w.val)
    BY <1>7, <1>9
  <1>11. 1 \in DOMAIN w.val
    BY <1>1, <1>9, <1>10
  <1>12. j.val[1] = Protocol2json(t.elem, w.val[1], p)
    BY <1>7, <1>11
  <1>13. t.elem \in Types /\ HasTType(t.elem) /\ Readable(t.elem, w.val[1])
    BY <1>6, <1>11, SupportedParts, ReadableParts, TypeAssumption DEF Unsupported, PartOf
  <1>14. t.elem.kind \in {"string", "i64", "enum"}
    BY <1>1, <1>12, <1>13, TextsAreTexts
  <1> QED
    BY <1>1, <1>6, <1>10, <1>14 DEF TwoTexts
Taken(t) ==
  \A w : \A p \in BOOLEAN :
     Readable(t, w) /\ Supported(t, w) => Accepted(t, Protocol2json(t, w, p))
TakenBelow(t) == \A s \in Types : PartOf(s, t) => Taken(s)

LEMMA TakenBase ==
  ASSUME NEW t \in Types,
         t.kind \in {"bool", "i8", "i16", "i32", "double", "string", "i64", "enum", "binary"}
  PROVE  Taken(t)
  <1>1. ASSUME NEW w, NEW p \in BOOLEAN, Readable(t, w), Supported(t, w)
        PROVE  Accepted(t, Protocol2json(t, w, p))
    <2> DEFINE j == Protocol2json(t, w, p)
    <2>1. HasRange(t, w) /\ ~Unmarshallable(t, w)
      BY <1>1, ReadableParts, SupportedParts DEF Unsupported
    <2>2. JsonParts(t, j) = {}
      BY DEF JsonParts, Containers
    <2>3. t.kind = "bool" => Takes(t, j)
      BY MarshalsBase DEF Takes, Json, Containers
    <2>4. t.kind = "i8" => Takes(t, j)
      BY <2>1, MarshalsBase DEF Takes, Json, Fits, HasRange, Containers
    <2>5. t.kind = "i16" => Takes(t, j)
      BY <2>1, MarshalsBase DEF Takes, Json, Fits, HasRange, Containers
    <2>6. t.kind = "i32" => Takes(t, j)
      BY <2>1, MarshalsBase DEF Takes, Json, Fits, HasRange, Containers
    <2>7. t.kind = "i64" => Takes(t, j)
      BY <2>1, MarshalsBase, NumeralAssumption DEF Takes, Json, Numeral, HasRange, Containers
    <2>8. t.kind = "double" => Takes(t, j)
      BY MarshalsBase DEF Takes, Json, Containers
    <2>9. t.kind = "string" => Takes(t, j)
      BY MarshalsBase DEF Takes, Json, Containers
    <2>10. t.kind = "enum" => Takes(t, j)
      <3>1. ASSUME t.kind = "enum" PROVE j.json = "string" /\ j.val \in DOMAIN Labels
        <4>1. \E l \in DOMAIN Labels : Labels[l] = w.val
          BY <2>1, <3>1 DEF Unmarshallable
        <4> QED
          BY <3>1, <4>1, MarshalsBase DEF Json
      <3> HIDE DEF j
      <3> QED
        BY <3>1 DEF Takes, Containers
    <2>11. t.kind # "binary"
      BY <2>1 DEF Unmarshallable
    <2>12. Takes(t, j)
      BY <2>3, <2>4, <2>5, <2>6, <2>7, <2>8, <2>9, <2>10, <2>11
    <2> QED
      BY <2>2, <2>12, AcceptedUnfolds
  <1> QED
    BY <1>1 DEF Taken

LEMMA TakenList ==
  ASSUME NEW t \in Types, t.kind \in Containers, TakenBelow(t)
  PROVE  Taken(t)
  <1>1. ASSUME NEW w, NEW p \in BOOLEAN, Readable(t, w), Supported(t, w)
        PROVE  Accepted(t, Protocol2json(t, w, p))
    <2> DEFINE j == Protocol2json(t, w, p)
    <2>1. j.json = "array" /\ DOMAIN j.val = DOMAIN w.val /\
          \A i \in DOMAIN w.val : j.val[i] = Protocol2json(t.elem, w.val[i], p)
      BY MarshalsList DEF Json
    <2>2. t.elem \in Types /\ PartOf(t.elem, t)
      BY TypeAssumption DEF PartOf, Containers
    <2>3. HasTType(t.elem)
      BY <1>1, SupportedParts DEF Unsupported
    <2>4. \A i \in DOMAIN w.val : Readable(t.elem, w.val[i]) /\ Supported(t.elem, w.val[i])
      BY <1>1, ReadableParts, SupportedParts
    <2> HIDE DEF j
    <2>5. \A q \in JsonParts(t, j) : Accepted(q[1], q[2])
      <3>1. \A i \in DOMAIN w.val : Accepted(t.elem, j.val[i])
        BY <2>1, <2>2, <2>4 DEF TakenBelow, Taken
      <3> QED
        BY <2>1, <3>1 DEF JsonParts, Containers
    <2>6. Takes(t, j)
      BY <2>1, <2>3 DEF Takes, Containers
    <2> QED
      BY <2>5, <2>6, AcceptedUnfolds DEF j
  <1> QED
    BY <1>1 DEF Taken

LEMMA EntryTaken ==
  ASSUME NEW t \in Types, t.kind = "map", TakenBelow(t), NEW w, NEW p \in BOOLEAN,
         Readable(t, w), Supported(t, w), NEW e \in w.val
  PROVE  /\ Accepted(t.key, Protocol2json(t.key, e[1], p))
         /\ Accepted(t.elem, Protocol2json(t.elem, e[2], p))
         /\ ElementOf(t, p, e).json = "array"
  <1>1. t.key \in Types /\ PartOf(t.key, t) /\ t.elem \in Types /\ PartOf(t.elem, t)
    BY TypeAssumption DEF PartOf
  <1>2. /\ Readable(t.key, e[1]) /\ Readable(t.elem, e[2])
        /\ Supported(t.key, e[1]) /\ Supported(t.elem, e[2])
    BY ReadableParts, SupportedParts
  <1>3. ~(TwoTexts(t.key, e[1]) /\ TwoTexts(t.elem, e[2]))
    BY SupportedParts DEF Unsupported
  <1>4. ElementOf(t, p, e).json = "array"
    BY <1>1, <1>2, <1>3, MembersAreTwoTexts, PairIsArray DEF ElementOf
  <1> QED
    BY <1>1, <1>2, <1>4 DEF TakenBelow, Taken

LEMMA TakenMap ==
  ASSUME NEW t \in Types, t.kind = "map", TakenBelow(t)
  PROVE  Taken(t)
  <1>1. ASSUME NEW w, NEW p \in BOOLEAN, Readable(t, w), Supported(t, w),
               NEW j, j = Protocol2json(t, w, p)
        PROVE  Accepted(t, j)
    <2>1. HasTType(t.key) /\ HasTType(t.elem)
      BY <1>1, SupportedParts DEF Unsupported
    <2>2. CASE TType(t.key) = "T_STRING"
      <3>1. /\ j.json = "object"
            /\ \A k : k \in DOMAIN j.val <=> \E e \in w.val : e[1].val = k
            /\ \A e \in w.val :
                  /\ Json("string", e[1].val) = Protocol2json(t.key, e[1], p)
                  /\ j.val[e[1].val] = Protocol2json(t.elem, e[2], p)
        BY <1>1, <2>1, <2>2, ObjectMembers
      <3>2. \A k \in DOMAIN j.val : Accepted(t.key, Json("string", k)) /\ Accepted(t.elem, j.val[k])
        BY <1>1, <3>1, EntryTaken
      <3>3. \A q \in JsonParts(t, j) : Accepted(q[1], q[2])
        BY <3>1, <3>2 DEF JsonParts, Containers
      <3>4. MapForm(t, j)
        BY <2>1, <2>2, <3>1 DEF MapForm
      <3>5. Takes(t, j)
        BY <3>4 DEF Takes, Containers
      <3> QED
        BY <3>3, <3>5, AcceptedUnfolds
    <2>3. CASE TType(t.key) # "T_STRING"
      <3> DEFINE es == SetToSeq(w.val)
      <3>1. PICK n \in Nat : InOrder(t, w, p, j, n, es)
        BY <1>1, <2>3, ArrayElements
      <3> HIDE DEF es
      <3>2. /\ j.json = "array" /\ DOMAIN j.val = 1 .. n
            /\ \A i \in 1 .. n : es[i] \in w.val /\ j.val[i] = ElementOf(t, p, es[i])
        BY <3>1, InOrderElements
      <3>3. ASSUME NEW i \in DOMAIN j.val
            PROVE  /\ j.val[i].json = "array"
                   /\ Accepted(t.key, j.val[i].val[1]) /\ Accepted(t.elem, j.val[i].val[2])
        <4>1. es[i] \in w.val /\ j.val[i] = ElementOf(t, p, es[i])
          BY <3>2
        <4>2. /\ Accepted(t.key, Protocol2json(t.key, es[i][1], p))
              /\ Accepted(t.elem, Protocol2json(t.elem, es[i][2], p))
              /\ j.val[i].json = "array"
          BY <1>1, <4>1, EntryTaken
        <4>3. j.val[i].val = <<Protocol2json(t.key, es[i][1], p), Protocol2json(t.elem, es[i][2], p)>>
          BY <4>1, <4>2, PairIsArray DEF ElementOf
        <4> QED
          BY <4>2, <4>3
      <3>4. \A q \in JsonParts(t, j) : Accepted(q[1], q[2])
        BY <3>2, <3>3 DEF JsonParts, Containers
      <3>5. MapForm(t, j)
        BY <2>1, <2>3, <3>2, <3>3 DEF MapForm
      <3>6. Takes(t, j)
        BY <3>5 DEF Takes, Containers
      <3> QED
        BY <3>4, <3>6, AcceptedUnfolds
    <2> QED
      BY <2>2, <2>3
  <1> QED
    BY <1>1 DEF Taken

LEMMA TakenStruct ==
  ASSUME NEW t \in Types, t.kind = "struct", TakenBelow(t)
  PROVE  Taken(t)
  <1>1. ASSUME NEW w, NEW p \in BOOLEAN, Readable(t, w), Supported(t, w),
               NEW j, j = Protocol2json(t, w, p)
        PROVE  Accepted(t, j)
    <2>1. /\ j.json = "object"
          /\ \A g \in t.fields : g.name \in DOMAIN j.val <=> g.id \in Known(t, w)
          /\ \A g \in t.fields : g.id \in Known(t, w) =>
                j.val[g.name] = Protocol2json(g.type, w.val[g.id], p)
      BY <1>1, StructMembers
    <2>2. ASSUME NEW n \in DOMAIN j.val, n \in DOMAIN FieldsByName(t)
          PROVE  Accepted(FieldsByName(t)[n].type, j.val[n])
      <3>1. PICK g \in t.fields : g.name = n /\ FieldsByName(t)[n] = g
        BY <2>2, NamesAreNames
      <3>2. g.id \in Known(t, w) /\ j.val[n] = Protocol2json(g.type, w.val[g.id], p)
        BY <2>1, <3>1
      <3>3. FieldsById(t)[g.id] = g
        BY NamedIsByName
      <3>4. Readable(g.type, w.val[g.id]) /\ Supported(g.type, w.val[g.id])
        BY <1>1, <3>2, <3>3, ReadableParts, SupportedParts
      <3>5. g.type \in Types /\ PartOf(g.type, t)
        BY TypeAssumption DEF PartOf
      <3> QED
        BY <3>1, <3>2, <3>4, <3>5 DEF TakenBelow, Taken
    <2>3. \A q \in JsonParts(t, j) : Accepted(q[1], q[2])
      BY <2>2 DEF JsonParts, Containers
    <2>4. Takes(t, j)
      BY <2>1 DEF Takes, Containers
    <2> QED
      BY <2>3, <2>4, AcceptedUnfolds
  <1> QED
    BY <1>1 DEF Taken

LEMMA SupportedIsTaken ==
  ASSUME NEW t \in Types, NEW w, Readable(t, w), Supported(t, w)
  PROVE  /\ Marshallable(t, w)
         /\ \A p \in BOOLEAN : Accepted(t, Protocol2json(t, w, p))
  <1> DEFINE T == {s \in Types : Taken(s)}
  <1>1. ASSUME NEW s \in Types, \A u \in Types : PartOf(u, s) => u \in T PROVE s \in T
    <2>1. TakenBelow(s)
      BY <1>1 DEF TakenBelow
    <2>2. Taken(s)
      BY <2>1, TakenBase, TakenList, TakenMap, TakenStruct, TypeAssumption DEF Kinds
    <2> QED
      BY <2>2
  <1>2. T = Types
    <2>1. T \subseteq Types
      OBVIOUS
    <2> HIDE DEF T
    <2> QED
      BY <1>1, <2>1, TypeInduction
  <1>3. Marshallable(t, w)
    BY DEF Supported, Marshallable, Unsupported
  <1> QED
    BY <1>2, <1>3 DEF Taken
-----------------------------------------------------------------------------
(* The invariant: what a conversion has come to follows from what it began *)
(* with.                                                                   *)
ConvertsATask ==
  /\ task.reader \in Types /\ task.permissive \in BOOLEAN
  /\ stage = "binary" \/ wire # Nothing => Readable(task.reader, wire)
HasMarshalled ==
  stage \in {"json", "done"} /\ wire # Nothing =>
     /\ Marshallable(task.reader, wire)
     /\ js = Protocol2json(task.reader, wire, task.permissive)
HasDemarshalled ==
  stage = "done" => Accepted(task.reader, js) /\ back = Json2protocol(task.reader, js)
CodecInv == ConvertsATask /\ HasMarshalled /\ HasDemarshalled /\ RefusedIsUnsupported

LEMMA CodecInvInit == Init => CodecInv
  <1> SUFFICES ASSUME Init PROVE CodecInv
    OBVIOUS
  <1>1. CASE \E n \in DOMAIN Pairings, permissive \in BOOLEAN :
               /\ task = [writer |-> Pairings[n].writer, reader |-> Pairings[n].reader,
                          permissive |-> permissive]
               /\ stage = "binary" /\ js = Nothing
               /\ wire \in BinaryOf(Pairings[n].writer)
    <2>1. PICK n \in DOMAIN Pairings, permissive \in BOOLEAN :
             /\ task = [writer |-> Pairings[n].writer, reader |-> Pairings[n].reader,
                        permissive |-> permissive]
             /\ stage = "binary" /\ wire \in BinaryOf(Pairings[n].writer)
      BY <1>1
    <2>2. task.reader = Pairings[n].reader /\ task.permissive = permissive
      BY <2>1
    <2>3. task.reader \in Types /\ Readable(task.reader, wire)
      BY <2>1, <2>2, TaskAssumption
    <2> QED
      BY <2>1, <2>2, <2>3
         DEF CodecInv, ConvertsATask, HasMarshalled, HasDemarshalled, RefusedIsUnsupported
  <1>2. CASE \E n \in DOMAIN Inputs :
               /\ task = [writer |-> Inputs[n].reader, reader |-> Inputs[n].reader, permissive |-> FALSE]
               /\ stage = "json" /\ wire = Nothing /\ js = Inputs[n].js
    <2>1. PICK n \in DOMAIN Inputs :
             /\ task = [writer |-> Inputs[n].reader, reader |-> Inputs[n].reader, permissive |-> FALSE]
             /\ stage = "json" /\ wire = Nothing
      BY <1>2
    <2>2. task.reader \in Types /\ task.permissive \in BOOLEAN
      BY <2>1, TaskAssumption
    <2> QED
      BY <2>1, <2>2
         DEF CodecInv, ConvertsATask, HasMarshalled, HasDemarshalled, RefusedIsUnsupported
  <1> QED
    BY <1>1, <1>2 DEF Init

(* The parts of the induction, one action each.                            *)
LEMMA CodecInvMarshal == CodecInv /\ MarshalFromBinary => CodecInv'
  <1> SUFFICES ASSUME CodecInv, MarshalFromBinary PROVE CodecInv'
    OBVIOUS
  <1> USE DEF MarshalFromBinary
  <1>1. ConvertsATask'
    BY DEF CodecInv, ConvertsATask
  <1>2. HasMarshalled'
    BY DEF CodecInv, HasMarshalled
  <1>3. HasDemarshalled' /\ RefusedIsUnsupported'
    BY DEF HasDemarshalled, RefusedIsUnsupported
  <1> QED
    BY <1>1, <1>2, <1>3 DEF CodecInv

LEMMA CodecInvDemarshal == CodecInv /\ DemarshalToBinary => CodecInv'
  <1> SUFFICES ASSUME CodecInv, DemarshalToBinary PROVE CodecInv'
    OBVIOUS
  <1> USE DEF DemarshalToBinary
  <1>1. ConvertsATask'
    BY DEF CodecInv, ConvertsATask
  <1>2. HasMarshalled'
    BY DEF CodecInv, HasMarshalled
  <1>3. HasDemarshalled' /\ RefusedIsUnsupported'
    BY DEF HasDemarshalled, RefusedIsUnsupported
  <1> QED
    BY <1>1, <1>2, <1>3 DEF CodecInv

LEMMA CodecInvThrows == CodecInv /\ Throws => CodecInv'
  <1> SUFFICES ASSUME CodecInv, Throws PROVE CodecInv'
    OBVIOUS
  <1>1. ConvertsATask' /\ HasMarshalled' /\ HasDemarshalled'
    BY DEF CodecInv, ConvertsATask, HasMarshalled, HasDemarshalled, Throws
  <1>2. ASSUME wire # Nothing PROVE ~Supported(task.reader, wire)
    <2>1. task.reader \in Types /\ task.permissive \in BOOLEAN /\ Readable(task.reader, wire)
      BY <1>2 DEF CodecInv, ConvertsATask
    <2>2. CASE stage = "binary" /\ ~Marshallable(task.reader, wire)
      BY <2>1, <2>2, SupportedIsTaken
    <2>3. CASE stage = "json" /\ ~Accepted(task.reader, js)
      <3>1. js = Protocol2json(task.reader, wire, task.permissive)
        BY <1>2, <2>3 DEF CodecInv, HasMarshalled
      <3> QED
        BY <2>1, <2>3, <3>1, SupportedIsTaken
    <2> QED
      BY <2>2, <2>3 DEF Throws
  <1>3. RefusedIsUnsupported'
    BY <1>2 DEF RefusedIsUnsupported, Supported, Throws
  <1> QED
    BY <1>1, <1>3 DEF CodecInv

LEMMA CodecInvAlways == Spec => []CodecInv
  <1>1. CodecInv /\ [Next]_vars => CodecInv'
    <2> SUFFICES ASSUME CodecInv, [Next]_vars PROVE CodecInv'
      OBVIOUS
    <2>1. CASE UNCHANGED vars
      BY <2>1 DEF CodecInv, ConvertsATask, HasMarshalled, HasDemarshalled, RefusedIsUnsupported, vars
    <2> QED
      BY <2>1, CodecInvMarshal, CodecInvDemarshal, CodecInvThrows DEF Next
  <1> QED
    BY <1>1, CodecInvInit, PTL DEF Spec
-----------------------------------------------------------------------------
(* Whatever JSON json2protocol takes, for whatever type, no number of what *)
(* it writes is wider than its type, every field is one that the reader    *)
(* knows, and every type on the wire is the one that it expects.           *)
THEOREM NumbersAlwaysFit == Spec => []NumbersFit
  <1>1. CodecInv => NumbersFit
    BY AcceptedIsClean DEF CodecInv, ConvertsATask, HasDemarshalled, NumbersFit, CleanAll
  <1> QED
    BY <1>1, CodecInvAlways, PTL

(* What protocol2json and json2protocol make of a value, one after the     *)
(* other, is what its writer and its reader share of it, whatever the two  *)
(* versions of its type are.                                               *)
THEOREM SharedComesBack == Spec => []ReaderGetsShared
  <1>1. CodecInv => ReaderGetsShared
    BY ComesBack DEF CodecInv, ConvertsATask, HasMarshalled, HasDemarshalled, ReaderGetsShared
  <1> QED
    BY <1>1, CodecInvAlways, PTL

(* The interpreters refuse none of what generated code writes but the four *)
(* cases of Unsupported, at whatever depth they are.                       *)
THEOREM OnlyUnsupportedIsRefused == Spec => []RefusedIsUnsupported
  <1>1. CodecInv => RefusedIsUnsupported
    BY DEF CodecInv
  <1> QED
    BY <1>1, CodecInvAlways, PTL
=============================================================================
