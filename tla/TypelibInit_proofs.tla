-------------------------- MODULE TypelibInit_proofs --------------------------
(* What TLAPS proves of TypelibInit, for every typelib.                     *)
EXTENDS TypelibInit, SequenceTheorems, WellFoundedInduction, TLAPS
-----------------------------------------------------------------------------
(* A table that is written at one key.                                      *)
LEMMA PutIsThere ==
  ASSUME NEW t, NEW k, NEW v
  PROVE  /\ DOMAIN Put(t, k, v) = DOMAIN t \union {k}
         /\ Put(t, k, v)[k] = v
         /\ \A x \in DOMAIN t : x # k => Put(t, k, v)[x] = t[x]
  BY DEF Put

(* Of some places of a vector one is the last.                              *)
LEMMA LastOf ==
  ASSUME NEW n \in Nat, NEW T, T \subseteq 1 .. n, T # {}
  PROVE  Max(T) \in T
  <1> DEFINE U == {n - k : k \in T}
  <1>0. \A k \in T : k \in Int /\ k <= n /\ n - k \in Nat
    OBVIOUS
  <1>1. U \subseteq Nat /\ U # {}
    BY <1>0
  <1>2. PICK x \in U : \A y \in U : ~(<<y, x>> \in OpToRel(<, Nat))
    <2> HIDE DEF U
    <2> QED
      BY <1>1, NatLessThanWellFounded, WFMin
  <1>3. \A y \in U : ~(y < x)
    BY <1>1, <1>2 DEF OpToRel
  <1>4. PICK k \in T : x = n - k
    BY <1>2
  <1>5. \A l \in T : k >= l
    <2> TAKE l \in T
    <2>1. n - l \in U
      OBVIOUS
    <2> QED
      BY <1>0, <1>3, <1>4, <2>1
  <1> QED
    BY <1>5 DEF Max
-----------------------------------------------------------------------------
(* The inductive invariant, in parts.                                       *)
ArgsAt(f) == ArgsName(Declaration(f).service, Declaration(f).function)
ResultAt(f) == ResultName(Declaration(f).service, Declaration(f).function)
Oneway(f) == Declaration(f).function.is_oneway

(* The names of the structs made for some functions.                        *)
NamesMade(fs) == {ArgsAt(f) : f \in fs} \union {ResultAt(f) : f \in {g \in fs : ~Oneway(g)}}

AllAcceptable == \A f \in Functions : Acceptable(Declaration(f))

(* Structs of the IDL that have been given a name: one of their own.        *)
NamesOfTheirOwn(ids) ==
  \A id \in ids :
    /\ HasPrefix(typelib.types[id].program) /\ CppName(id) \notin NamesMade(Functions)
    /\ \A other \in ids : CppName(id) = CppName(other) => id = other

Extends(sid) == typelib.services[sid].extends
Known == DOMAIN typelib.services \union {NoService}

(* Each loop has accepted what it has visited, and the table of structs has *)
(* the names of it and no other.                                            *)
FunctionsVisited ==
  phase = "functions" =>
    /\ todo \subseteq Functions /\ svc = NoService
    /\ \A f \in Functions \ todo : Acceptable(Declaration(f))
    /\ DOMAIN structs_by_name = NamesMade(Functions \ todo)
TypesVisited ==
  phase = "types" =>
    /\ todo \subseteq DOMAIN typelib.types /\ svc = NoService
    /\ AllAcceptable /\ NamesOfTheirOwn(UserStructs \ todo)
    /\ DOMAIN structs_by_name = NamesMade(Functions) \union {CppName(id) : id \in UserStructs \ todo}
ServicesVisited ==
  phase = "services" =>
    /\ todo \subseteq DOMAIN typelib.services
    /\ AllAcceptable /\ NamesOfTheirOwn(UserStructs)
    /\ svc \in Known \union {Extends(sid) : sid \in DOMAIN typelib.services}
    /\ \A sid \in DOMAIN typelib.services \ todo :
         Extends(sid) \in Known \/ (dst = sid /\ svc \in {sid, Extends(sid)})
AllVisited ==
  phase = "ready" =>
    /\ AllAcceptable /\ NamesOfTheirOwn(UserStructs)
    /\ \A sid \in DOMAIN typelib.services : Extends(sid) \in Known
Refused == phase = "thrown" => Malformed \/ OutOfReach \/ Twice

Visited ==
  /\ typelib \in Typelibs /\ phase \in {"functions", "types", "services", "ready", "thrown"}
  /\ FunctionsVisited /\ TypesVisited /\ ServicesVisited /\ AllVisited /\ Refused
-----------------------------------------------------------------------------
(* What the typelib says of its functions, structs and services stays.      *)
LEMMA TypelibStays == [Next]_vars => typelib' = typelib
  BY DEF Next, vars, tables, AddFunction, FunctionsDone, AddType, TypesDone, BeginService,
         AddServiceLookasides, Finish, Throw

LEMMA SameDeclarations ==
  ASSUME typelib' = typelib
  PROVE  /\ Functions' = Functions /\ UserStructs' = UserStructs /\ Enums' = Enums
         /\ \A f : Declaration(f)' = Declaration(f)
         /\ \A f : Acceptable(Declaration(f))' <=> Acceptable(Declaration(f))
         /\ \A f : ArgsAt(f)' = ArgsAt(f) /\ ResultAt(f)' = ResultAt(f) /\ Oneway(f)' = Oneway(f)
         /\ \A id : CppName(id)' = CppName(id)
         /\ \A sid : Extends(sid)' = Extends(sid)
         /\ Known' = Known
  <1>1. Functions' = Functions /\ \A f : Declaration(f)' = Declaration(f)
    BY DEF Functions, Declaration
  <1>2. Declarations' = Declarations
    BY <1>1 DEF Declarations
  <1>3. Skip' = Skip
    BY <1>2 DEF Skip
  <1>4. UserStructs' = UserStructs /\ Enums' = Enums
    BY <1>3 DEF UserStructs, Enums
  <1>5. \A f : Acceptable(Declaration(f))' <=> Acceptable(Declaration(f))
    BY <1>1 DEF Acceptable, IsStruct, TypeAt, HasPrefix
  <1>6. \A f : ArgsAt(f)' = ArgsAt(f) /\ ResultAt(f)' = ResultAt(f) /\ Oneway(f)' = Oneway(f)
    BY <1>1 DEF ArgsAt, ResultAt, Oneway, ArgsName, ResultName, Qualified
  <1>7. \A id : CppName(id)' = CppName(id)
    BY DEF CppName, Qualified
  <1>8. (\A sid : Extends(sid)' = Extends(sid)) /\ Known' = Known
    BY DEF Extends, Known
  <1> QED
    BY <1>1, <1>4, <1>5, <1>6, <1>7, <1>8

LEMMA SameNames ==
  ASSUME typelib' = typelib
  PROVE  /\ \A fs : NamesMade(fs)' = NamesMade(fs)
         /\ AllAcceptable' <=> AllAcceptable
         /\ \A ids : NamesOfTheirOwn(ids)' <=> NamesOfTheirOwn(ids)
         /\ \A p : HasPrefix(p)' <=> HasPrefix(p)
  <1>1. \A fs : NamesMade(fs)' = NamesMade(fs)
    BY SameDeclarations DEF NamesMade
  <1>2. AllAcceptable' <=> AllAcceptable
    BY SameDeclarations DEF AllAcceptable
  <1>3. \A p : HasPrefix(p)' <=> HasPrefix(p)
    BY DEF HasPrefix
  <1>4. \A ids : NamesOfTheirOwn(ids)' <=> NamesOfTheirOwn(ids)
    BY <1>1, <1>3, SameDeclarations DEF NamesOfTheirOwn
  <1> QED
    BY <1>1, <1>2, <1>3, <1>4

LEMMA SameReasons ==
  ASSUME typelib' = typelib
  PROVE  (Malformed' <=> Malformed) /\ (OutOfReach' <=> OutOfReach) /\ (Twice' <=> Twice)
  <1>1. Declarations' = Declarations
    BY SameDeclarations DEF Declarations
  <1>2. Malformed' <=> Malformed
    BY <1>1 DEF Malformed, IsStruct, TypeAt, Services, Range
  <1>3. OutOfReach' <=> OutOfReach
    BY <1>1, SameDeclarations, SameNames DEF OutOfReach
  <1>4. Twice' <=> Twice
    BY <1>1, SameDeclarations DEF Twice, ArgsName, ResultName, Qualified
  <1> QED
    BY <1>2, <1>3, <1>4
-----------------------------------------------------------------------------
(* What the structs of one function add to the tables.                      *)
LEMMA StructsAdded ==
  ASSUME NEW f, AddStructs(Declaration(f))
  PROVE  \/ /\ Oneway(f) /\ nextid' = nextid + 1
            /\ structs_by_name' = Put(structs_by_name, ArgsAt(f), nextid)
            /\ struct_lookaside' =
                 Put(struct_lookaside, nextid, ArgsMembers(Declaration(f).function))
         \/ /\ ~Oneway(f) /\ nextid' = nextid + 2
            /\ structs_by_name' =
                 Put(Put(structs_by_name, ResultAt(f), nextid), ArgsAt(f), nextid + 1)
            /\ struct_lookaside' =
                 Put(Put(struct_lookaside, nextid, ResultMembers(Declaration(f).function)),
                     nextid + 1, ArgsMembers(Declaration(f).function))
  BY DEF AddStructs, AddStructLookaside, ArgsAt, ResultAt, Oneway

LEMMA NamesAdded ==
  ASSUME NEW f, AddStructs(Declaration(f))
  PROVE  DOMAIN structs_by_name' = DOMAIN structs_by_name \union NamesMade({f})
  <1>1. CASE Oneway(f)
    <2>1. NamesMade({f}) = {ArgsAt(f)}
      BY <1>1 DEF NamesMade
    <2>2. structs_by_name' = Put(structs_by_name, ArgsAt(f), nextid)
      BY <1>1, StructsAdded
    <2> QED
      BY <2>1, <2>2, PutIsThere
  <1>2. CASE ~Oneway(f)
    <2>1. NamesMade({f}) = {ArgsAt(f), ResultAt(f)}
      BY <1>2 DEF NamesMade
    <2>2. structs_by_name' = Put(Put(structs_by_name, ResultAt(f), nextid), ArgsAt(f), nextid + 1)
      BY <1>2, StructsAdded
    <2>3. DOMAIN structs_by_name' = DOMAIN Put(structs_by_name, ResultAt(f), nextid) \union {ArgsAt(f)}
      BY <2>2, PutIsThere
    <2>4. DOMAIN Put(structs_by_name, ResultAt(f), nextid) = DOMAIN structs_by_name \union {ResultAt(f)}
      BY PutIsThere
    <2> QED
      BY <2>1, <2>3, <2>4
  <1> QED
    BY <1>1, <1>2

LEMMA NamesOfOneMore ==
  ASSUME NEW fs, NEW f
  PROVE  NamesMade(fs \union {f}) = NamesMade(fs) \union NamesMade({f})
  BY DEF NamesMade

LEMMA VisitFunction ==
  ASSUME Visited, AddFunction
  PROVE  Visited'
  <1> typelib' = typelib
    BY DEF AddFunction, Throw
  <1>1. PICK f \in FirstFunction :
          \/ ~Acceptable(Declaration(f)) /\ Throw
          \/ /\ Acceptable(Declaration(f))
             /\ AddStructs(Declaration(f))
             /\ todo' = todo \ {f}
             /\ UNCHANGED <<typelib, phase, dst, svc, enum_lookaside, service_lookaside>>
    BY DEF AddFunction
  <1>2. f \in todo /\ f \in Functions /\ phase = "functions"
    BY <1>1 DEF AddFunction, FirstFunction, Visited, FunctionsVisited
  <1>3. CASE ~Acceptable(Declaration(f)) /\ Throw
    <2>1. Declaration(f) \in Declarations
      BY <1>2 DEF Declarations
    <2>2. Malformed \/ OutOfReach
      BY <1>3, <2>1 DEF Acceptable, Malformed, OutOfReach
    <2>3. (Malformed \/ OutOfReach \/ Twice)'
      BY <2>2, SameReasons
    <2> QED
      BY <1>3, <2>3 DEF Throw, Visited, FunctionsVisited, TypesVisited, ServicesVisited,
                        AllVisited, Refused
  <1>4. CASE /\ Acceptable(Declaration(f))
             /\ AddStructs(Declaration(f))
             /\ todo' = todo \ {f}
             /\ UNCHANGED <<typelib, phase, dst, svc, enum_lookaside, service_lookaside>>
    <2>1. Functions \ todo' = (Functions \ todo) \union {f}
      BY <1>2, <1>4
    <2>2. DOMAIN structs_by_name' = NamesMade(Functions \ todo')
      BY <1>2, <1>4, <2>1, NamesAdded, NamesOfOneMore DEF Visited, FunctionsVisited
    <2>3. \A g \in Functions \ todo' : Acceptable(Declaration(g))
      BY <1>2, <1>4, <2>1 DEF Visited, FunctionsVisited
    <2>4. FunctionsVisited'
      BY <1>2, <1>4, <2>2, <2>3, SameDeclarations, SameNames DEF Visited, FunctionsVisited
    <2> QED
      BY <1>2, <1>4, <2>4 DEF Visited, TypesVisited, ServicesVisited, AllVisited, Refused
  <1> QED
    BY <1>1, <1>3, <1>4

LEMMA VisitType ==
  ASSUME Visited, AddType
  PROVE  Visited'
  <1> typelib' = typelib
    BY DEF AddType, Throw
  <1>1. PICK id \in FirstId :
          \/ id \in UserStructs /\ ~Nameable(id) /\ Throw
          \/ /\ id \in UserStructs /\ Nameable(id)
             /\ AddStructLookaside(id, CppName(id), typelib.types[id].members,
                                   structs_by_name, struct_lookaside)
             /\ todo' = todo \ {id} /\ phase' = phase /\ svc' = svc
          \/ /\ id \notin UserStructs
             /\ todo' = todo \ {id} /\ phase' = phase /\ svc' = svc
             /\ structs_by_name' = structs_by_name
    BY DEF AddType, tables, UserStructs, Enums
  <1>2. id \in todo /\ phase = "types" /\ id \in DOMAIN typelib.types
    BY <1>1 DEF AddType, FirstId, Visited, TypesVisited
  <1>3. /\ AllAcceptable /\ NamesOfTheirOwn(UserStructs \ todo) /\ svc = NoService
        /\ todo \subseteq DOMAIN typelib.types
        /\ DOMAIN structs_by_name =
             NamesMade(Functions) \union {CppName(other) : other \in UserStructs \ todo}
    BY <1>2 DEF Visited, TypesVisited
  <1>4. CASE id \in UserStructs /\ ~Nameable(id) /\ Throw
    <2>1. ~HasPrefix(typelib.types[id].program) => OutOfReach
      BY <1>4 DEF OutOfReach
    <2>2. CppName(id) \in NamesMade(Functions) => Twice
      BY <1>4 DEF Twice, NamesMade, ArgsAt, ResultAt, Oneway, Declarations
    <2>3. CppName(id) \in {CppName(other) : other \in UserStructs \ todo} => Twice
      BY <1>2, <1>4 DEF Twice
    <2>4. OutOfReach \/ Twice
      BY <1>3, <1>4, <2>1, <2>2, <2>3 DEF Nameable, Taken
    <2>5. (OutOfReach \/ Twice)'
      BY <2>4, SameReasons
    <2> QED
      BY <1>4, <2>5 DEF Throw, Visited, FunctionsVisited, TypesVisited, ServicesVisited,
                        AllVisited, Refused
  <1>5. CASE /\ id \in UserStructs /\ Nameable(id)
             /\ AddStructLookaside(id, CppName(id), typelib.types[id].members,
                                   structs_by_name, struct_lookaside)
             /\ todo' = todo \ {id} /\ phase' = phase /\ svc' = svc
    <2>1. UserStructs \ todo' = (UserStructs \ todo) \union {id}
      BY <1>2, <1>5
    <2>2. DOMAIN structs_by_name' = DOMAIN structs_by_name \union {CppName(id)}
      BY <1>5, PutIsThere DEF AddStructLookaside
    <2>3. NamesOfTheirOwn(UserStructs \ todo')
      BY <1>3, <1>5, <2>1 DEF NamesOfTheirOwn, Nameable, Taken
    <2>4. DOMAIN structs_by_name' =
            NamesMade(Functions) \union {CppName(other) : other \in UserStructs \ todo'}
      BY <1>3, <2>1, <2>2
    <2>5. TypesVisited'
      BY <1>2, <1>3, <1>5, <2>3, <2>4, SameDeclarations, SameNames DEF TypesVisited
    <2> QED
      BY <1>2, <1>5, <2>5 DEF Visited, FunctionsVisited, ServicesVisited, AllVisited, Refused
  <1>6. CASE /\ id \notin UserStructs
             /\ todo' = todo \ {id} /\ phase' = phase /\ svc' = svc
             /\ structs_by_name' = structs_by_name
    <2>1. UserStructs \ todo' = UserStructs \ todo
      BY <1>6
    <2>2. TypesVisited'
      BY <1>2, <1>3, <1>6, <2>1, SameDeclarations, SameNames DEF TypesVisited
    <2> QED
      BY <1>2, <1>6, <2>2 DEF Visited, FunctionsVisited, ServicesVisited, AllVisited, Refused
  <1> QED
    BY <1>1, <1>4, <1>5, <1>6

LEMMA VisitServices ==
  ASSUME Visited, BeginService \/ AddServiceLookasides
  PROVE  Visited'
  <1> typelib' = typelib
    BY DEF BeginService, AddServiceLookasides, Throw
  <1>1. /\ phase = "services" /\ AllAcceptable /\ NamesOfTheirOwn(UserStructs)
        /\ todo \subseteq DOMAIN typelib.services
        /\ svc \in Known \union {Extends(sid) : sid \in DOMAIN typelib.services}
        /\ \A sid \in DOMAIN typelib.services \ todo :
             Extends(sid) \in Known \/ (dst = sid /\ svc \in {sid, Extends(sid)})
    BY DEF Visited, ServicesVisited, BeginService, AddServiceLookasides
  <1>2. NoService \notin DOMAIN typelib.services
    BY TypelibsAssumption DEF Visited
  <1>3. ASSUME phase' = "services", todo' \subseteq DOMAIN typelib.services,
               svc' \in Known \union {Extends(sid) : sid \in DOMAIN typelib.services},
               \A sid \in DOMAIN typelib.services \ todo' :
                 Extends(sid) \in Known \/ (dst' = sid /\ svc' \in {sid, Extends(sid)})
        PROVE  Visited'
    <2>1. ServicesVisited'
      BY <1>1, <1>3, SameDeclarations, SameNames DEF ServicesVisited
    <2> QED
      BY <1>3, <2>1 DEF Visited, FunctionsVisited, TypesVisited, AllVisited, Refused
  <1>4. CASE BeginService
    <2>1. PICK id \in todo : dst' = id /\ svc' = id /\ todo' = todo \ {id}
      BY <1>4 DEF BeginService, FirstId
    <2>2. phase' = "services" /\ svc = NoService
      BY <1>1, <1>4 DEF BeginService
    <2>3. \A sid \in DOMAIN typelib.services \ todo : Extends(sid) \in Known
      BY <1>1, <1>2, <2>2 DEF Known
    <2> QED
      BY <1>1, <1>3, <2>1, <2>2, <2>3 DEF Known
  <1>5. CASE AddServiceLookasides
    <2>1. CASE ~Copyable(svc) /\ Throw
      <3>1. svc # NoService
        BY <1>5 DEF AddServiceLookasides
      <3>2. CASE svc \in DOMAIN typelib.services
        <4>1. typelib.services[svc].functions # <<>> /\ ~HasPrefix(typelib.services[svc].program)
          BY <2>1, <3>2 DEF Copyable
        <4>2. PICK k : k \in DOMAIN typelib.services[svc].functions
          <5>1. typelib.services[svc].functions \in Seq(Range(typelib.services[svc].functions))
            BY <3>2, TypelibsAssumption DEF Visited
          <5>2. /\ DOMAIN typelib.services[svc].functions = 1 .. Len(typelib.services[svc].functions)
                /\ Len(typelib.services[svc].functions) \in Nat \ {0}
            BY <4>1, <5>1, EmptySeq, LenProperties
          <5>3. 1 \in DOMAIN typelib.services[svc].functions
            BY <5>2
          <5> QED
            BY <5>3
        <4>3. <<svc, k>> \in Functions /\ Declaration(<<svc, k>>).service = typelib.services[svc]
          BY <3>2, <4>2 DEF Functions, Declaration
        <4> QED
          BY <1>1, <4>1, <4>3 DEF AllAcceptable, Acceptable
      <3>3. CASE svc \notin DOMAIN typelib.services
        <4>1. PICK sid \in DOMAIN typelib.services : svc = Extends(sid)
          BY <1>1, <3>1, <3>3 DEF Known
        <4>2. Malformed
          BY <3>1, <3>3, <4>1 DEF Malformed, Services, Range, Extends
        <4>3. Malformed'
          BY <4>2, SameReasons
        <4> QED
          BY <2>1, <4>3 DEF Throw, Visited, FunctionsVisited, TypesVisited, ServicesVisited,
                            AllVisited, Refused
      <3> QED
        BY <3>2, <3>3
    <2>2. CASE Copyable(svc) /\ UNCHANGED <<phase, todo, dst>> /\ svc' = Extends(svc)
      <3>1. svc \in DOMAIN typelib.services
        BY <2>2 DEF Copyable
      <3>2. ASSUME NEW sid \in DOMAIN typelib.services \ todo
            PROVE  Extends(sid) \in Known \/ (dst = sid /\ svc' \in {sid, Extends(sid)})
        BY <1>1, <2>2, <3>1 DEF Known
      <3> QED
        BY <1>1, <1>3, <2>2, <3>1, <3>2
    <2> QED
      BY <1>5, <2>1, <2>2 DEF AddServiceLookasides, Extends
  <1> QED
    BY <1>4, <1>5

LEMMA VisitNext == Visited /\ [Next]_vars => Visited'
  <1> SUFFICES ASSUME Visited, [Next]_vars PROVE Visited'
    OBVIOUS
  <1> typelib' = typelib
    BY TypelibStays
  <1>1. CASE FunctionsDone
    <2>1. Functions \ todo = Functions /\ UserStructs \ DOMAIN typelib.types = {}
      BY <1>1 DEF FunctionsDone, UserStructs
    <2>2. AllAcceptable /\ DOMAIN structs_by_name = NamesMade(Functions) /\ svc = NoService
      BY <1>1, <2>1 DEF FunctionsDone, Visited, FunctionsVisited, AllAcceptable
    <2>3. TypesVisited'
      BY <1>1, <2>1, <2>2, SameDeclarations, SameNames
         DEF FunctionsDone, tables, TypesVisited, NamesOfTheirOwn
    <2> QED
      BY <1>1, <2>3 DEF FunctionsDone, Visited, FunctionsVisited, ServicesVisited, AllVisited, Refused
  <1>2. CASE TypesDone
    <2>1. UserStructs \ todo = UserStructs
      BY <1>2 DEF TypesDone
    <2>2. AllAcceptable /\ NamesOfTheirOwn(UserStructs) /\ svc = NoService
      BY <1>2, <2>1 DEF TypesDone, Visited, TypesVisited
    <2>3. ServicesVisited'
      BY <1>2, <2>2, SameDeclarations, SameNames DEF TypesDone, ServicesVisited, Known
    <2> QED
      BY <1>2, <2>3 DEF TypesDone, Visited, FunctionsVisited, TypesVisited, AllVisited, Refused
  <1>3. CASE Finish
    <2>1. NoService \notin DOMAIN typelib.services
      BY TypelibsAssumption DEF Visited
    <2>2. /\ AllAcceptable /\ NamesOfTheirOwn(UserStructs)
          /\ \A sid \in DOMAIN typelib.services : Extends(sid) \in Known
      BY <1>3, <2>1 DEF Finish, Visited, ServicesVisited, Known
    <2>3. AllVisited'
      BY <2>2, SameDeclarations, SameNames DEF AllVisited
    <2> QED
      BY <1>3, <2>3 DEF Finish, Visited, FunctionsVisited, TypesVisited, ServicesVisited, Refused
  <1>4. CASE UNCHANGED vars
    <2>1. UNCHANGED <<phase, todo, dst, svc, structs_by_name>>
      BY <1>4 DEF vars, tables
    <2>2. FunctionsVisited' /\ TypesVisited' /\ ServicesVisited' /\ AllVisited'
      BY <2>1, SameDeclarations, SameNames
         DEF Visited, FunctionsVisited, TypesVisited, ServicesVisited, AllVisited
    <2>3. Refused'
      BY <2>1, SameReasons DEF Visited, Refused
    <2> QED
      BY <2>1, <2>2, <2>3 DEF Visited
  <1> QED
    BY <1>1, <1>2, <1>3, <1>4, VisitFunction, VisitType, VisitServices DEF Next

LEMMA VisitInit == Init => Visited
  <1> SUFFICES ASSUME Init PROVE Visited
    OBVIOUS
  <1>1. Functions \ todo = {} /\ DOMAIN structs_by_name = {}
    BY DEF Init, Nothing
  <1>2. FunctionsVisited
    BY <1>1 DEF Init, FunctionsVisited, NamesMade
  <1> QED
    BY <1>2 DEF Init, Visited, TypesVisited, ServicesVisited, AllVisited, Refused

(* Nothing is wrong with a typelib that is ready.                           *)
LEMMA ReadyIsSound == Visited /\ phase = "ready" => ~(Malformed \/ OutOfReach \/ Twice)
  <1> SUFFICES ASSUME Visited, phase = "ready" PROVE ~(Malformed \/ OutOfReach \/ Twice)
    OBVIOUS
  <1>1. /\ AllAcceptable /\ NamesOfTheirOwn(UserStructs)
        /\ \A sid \in DOMAIN typelib.services : Extends(sid) \in Known
    BY DEF Visited, AllVisited
  <1>2. ~Malformed
    BY <1>1 DEF AllAcceptable, Acceptable, Malformed, Declarations, Services, Range, Known, Extends
  <1>3. ~OutOfReach
    BY <1>1 DEF AllAcceptable, Acceptable, OutOfReach, Declarations, NamesOfTheirOwn
  <1>4. ~Twice
    BY <1>1 DEF Twice, Declarations, NamesOfTheirOwn, NamesMade, ArgsAt, ResultAt, Oneway
  <1> QED
    BY <1>2, <1>3, <1>4

(* A typelib is refused if and only if it is malformed, needs a namespace   *)
(* it does not have, or has a name twice: whatever the order of its types   *)
(* and services, and however many they are.                                 *)
THEOREM RefusalsHaveAReason == Spec => []RefusedForAReason
  <1>1. Visited => RefusedForAReason
    BY ReadyIsSound DEF Visited, Refused, RefusedForAReason
  <1> QED
    BY <1>1, VisitInit, VisitNext, PTL DEF Spec
-----------------------------------------------------------------------------
(* The structs.  A name leads to a struct that is no type of the IDL.       *)
LeadsIn(names, structs, name, members) ==
  /\ name \in DOMAIN names /\ names[name] \in DOMAIN structs \ DOMAIN typelib.types
  /\ structs[names[name]] = members
FoundIn(names, structs, f) ==
  /\ LeadsIn(names, structs, ArgsAt(f), ArgsMembers(Declaration(f).function))
  /\ ~Oneway(f) => LeadsIn(names, structs, ResultAt(f), ResultMembers(Declaration(f).function))
Found(f) == FoundIn(structs_by_name, struct_lookaside, f)

FoundStruct(id) ==
  /\ CppName(id) \in DOMAIN structs_by_name /\ structs_by_name[CppName(id)] = id
  /\ id \in DOMAIN struct_lookaside /\ struct_lookaside[id] = typelib.types[id].members

FoundEnum(id) == id \in DOMAIN enum_lookaside /\ enum_lookaside[id] = typelib.types[id].constants

(* What a loop has behind it.                                               *)
Made == IF phase = "functions" THEN Functions \ todo ELSE Functions
Behind(ids) == IF phase = "functions" THEN {} ELSE IF phase = "types" THEN ids \ todo ELSE ids

FreshIds ==
  /\ nextid \in Int /\ DOMAIN struct_lookaside \subseteq Int
  /\ \A id \in DOMAIN typelib.types \union DOMAIN struct_lookaside : id < nextid
  /\ DOMAIN struct_lookaside \intersect DOMAIN typelib.types \subseteq Behind(UserStructs)

StructsFound ==
  phase # "thrown" /\ Unambiguous =>
    /\ FreshIds
    /\ \A f \in Made : Found(f)
    /\ \A id \in Behind(UserStructs) : FoundStruct(id)
    /\ \A id \in Behind(Enums) : FoundEnum(id)

LEMMA NamesAreApart ==
  ASSUME Unambiguous, NEW f \in Functions, NEW g \in Functions
  PROVE  /\ ArgsAt(f) = ArgsAt(g) \/ ResultAt(f) = ResultAt(g) => Declaration(f) = Declaration(g)
         /\ ArgsAt(f) # ResultAt(g)
  BY DEF Unambiguous, Declarations, ArgsAt, ResultAt

(* A new struct is found by its name, and the others still are.             *)
LEMMA PutLeads ==
  ASSUME NEW names, NEW structs, NEW k, NEW i, NEW m, i \notin DOMAIN structs \ DOMAIN typelib.types
  PROVE  /\ i \notin DOMAIN typelib.types => LeadsIn(Put(names, k, i), Put(structs, i, m), k, m)
         /\ \A n, ms : n # k /\ LeadsIn(names, structs, n, ms)
                       => LeadsIn(Put(names, k, i), Put(structs, i, m), n, ms)
  <1> DEFINE ns == Put(names, k, i)
             ss == Put(structs, i, m)
  <1>1. /\ DOMAIN ns = DOMAIN names \union {k} /\ ns[k] = i
        /\ \A x \in DOMAIN names : x # k => ns[x] = names[x]
    BY DEF Put
  <1>2. /\ DOMAIN ss = DOMAIN structs \union {i} /\ ss[i] = m
        /\ \A x \in DOMAIN structs : x # i => ss[x] = structs[x]
    BY DEF Put
  <1> HIDE DEF ns, ss
  <1>3. i \notin DOMAIN typelib.types => LeadsIn(ns, ss, k, m)
    BY <1>1, <1>2 DEF LeadsIn
  <1>4. ASSUME NEW n, NEW ms, n # k, LeadsIn(names, structs, n, ms)
        PROVE  LeadsIn(ns, ss, n, ms)
    <2>1. n \in DOMAIN ns /\ ns[n] = names[n]
      BY <1>4, <1>1 DEF LeadsIn
    <2>2. names[n] \in DOMAIN ss /\ ss[names[n]] = structs[names[n]]
      BY <1>4, <1>2 DEF LeadsIn
    <2> QED
      BY <1>4, <2>1, <2>2 DEF LeadsIn
  <1> QED
    BY <1>3, <1>4 DEF ns, ss

LEMMA SameMembers ==
  ASSUME typelib' = typelib
  PROVE  /\ Unambiguous' <=> Unambiguous
         /\ \A f : /\ ArgsMembers(Declaration(f).function)' = ArgsMembers(Declaration(f).function)
                   /\ ResultMembers(Declaration(f).function)' = ResultMembers(Declaration(f).function)
         /\ \A sid : Lineage(sid)' = Lineage(sid)
  <1>1. \A sid : Lineage(sid)' = Lineage(sid)
    BY DEF Lineage
  <1>2. Declarations' = Declarations
    BY SameDeclarations DEF Declarations
  <1>3. \A sid : OwnedBy(sid)' = OwnedBy(sid)
    BY <1>1, <1>2 DEF OwnedBy
  <1>4. Unambiguous' <=> Unambiguous
    <2>1. \A s, f : ArgsName(s, f)' = ArgsName(s, f) /\ ResultName(s, f)' = ResultName(s, f)
      BY DEF ArgsName, ResultName, Qualified
    <2>2. (\A s, t \in DOMAIN typelib.services :
             typelib.services[s].name = typelib.services[t].name => s = t)'
          <=> \A s, t \in DOMAIN typelib.services :
                typelib.services[s].name = typelib.services[t].name => s = t
      OBVIOUS
    <2>3. (\A sid \in DOMAIN typelib.services : \A d, e \in OwnedBy(sid) :
             d.function.name = e.function.name => d = e)'
          <=> \A sid \in DOMAIN typelib.services : \A d, e \in OwnedBy(sid) :
                d.function.name = e.function.name => d = e
      BY <1>3
    <2>4. (\A d, e \in Declarations :
             /\ \/ ArgsName(d.service, d.function) = ArgsName(e.service, e.function)
                \/ ResultName(d.service, d.function) = ResultName(e.service, e.function)
                => d = e
             /\ ArgsName(d.service, d.function) # ResultName(e.service, e.function))'
          <=> \A d, e \in Declarations :
                /\ \/ ArgsName(d.service, d.function) = ArgsName(e.service, e.function)
                   \/ ResultName(d.service, d.function) = ResultName(e.service, e.function)
                   => d = e
                /\ ArgsName(d.service, d.function) # ResultName(e.service, e.function)
      BY <1>2, <2>1
    <2> QED
      BY <2>2, <2>3, <2>4 DEF Unambiguous
  <1>5. \A f : /\ ArgsMembers(Declaration(f).function)' = ArgsMembers(Declaration(f).function)
               /\ ResultMembers(Declaration(f).function)' = ResultMembers(Declaration(f).function)
    BY SameDeclarations DEF ArgsMembers, ResultMembers, Success, TypeAt
  <1> QED
    BY <1>1, <1>4, <1>5

LEMMA SameFound ==
  ASSUME typelib' = typelib
  PROVE  \A names, structs, f : FoundIn(names, structs, f)' <=> FoundIn(names', structs', f)
  BY SameDeclarations, SameMembers DEF FoundIn, LeadsIn

LEMMA AddedIsFound ==
  ASSUME NEW f \in Functions, AddStructs(Declaration(f)), Unambiguous, FreshIds
  PROVE  /\ FoundIn(structs_by_name', struct_lookaside', f)
         /\ \A g \in Functions : Found(g) => FoundIn(structs_by_name', struct_lookaside', g)
  <1>1. nextid \notin DOMAIN typelib.types \union DOMAIN struct_lookaside
    BY DEF FreshIds
  <1>2. nextid + 1 \notin DOMAIN typelib.types \union DOMAIN struct_lookaside /\ nextid + 1 # nextid
    BY DEF FreshIds
  <1> DEFINE args == ArgsMembers(Declaration(f).function)
             result == ResultMembers(Declaration(f).function)
  <1> HIDE DEF args, result
  <1>3. /\ FoundIn(structs_by_name', struct_lookaside', f)
        /\ \A n, ms : n \notin {ArgsAt(f), ResultAt(f)} /\ LeadsIn(structs_by_name, struct_lookaside, n, ms)
                      => LeadsIn(structs_by_name', struct_lookaside', n, ms)
        /\ \A ms : Oneway(f) /\ LeadsIn(structs_by_name, struct_lookaside, ResultAt(f), ms)
                   => LeadsIn(structs_by_name', struct_lookaside', ResultAt(f), ms)
    <2>1. CASE Oneway(f)
      <3>1. /\ structs_by_name' = Put(structs_by_name, ArgsAt(f), nextid)
            /\ struct_lookaside' = Put(struct_lookaside, nextid, args)
        BY <2>1, StructsAdded DEF args
      <3>2. ArgsAt(f) # ResultAt(f)
        BY NamesAreApart
      <3>3. /\ LeadsIn(structs_by_name', struct_lookaside', ArgsAt(f), args)
            /\ \A n, ms : n # ArgsAt(f) /\ LeadsIn(structs_by_name, struct_lookaside, n, ms)
                          => LeadsIn(structs_by_name', struct_lookaside', n, ms)
        BY <1>1, <3>1, PutLeads
      <3> QED
        BY <2>1, <3>2, <3>3 DEF FoundIn, args
    <2>2. CASE ~Oneway(f)
      <3> DEFINE names == Put(structs_by_name, ResultAt(f), nextid)
                 structs == Put(struct_lookaside, nextid, result)
      <3>1. structs_by_name' = Put(names, ArgsAt(f), nextid + 1)
        BY <2>2, StructsAdded
      <3>2. struct_lookaside' = Put(structs, nextid + 1, args)
        BY <2>2, StructsAdded DEF args, result
      <3>3. /\ LeadsIn(names, structs, ResultAt(f), result)
            /\ \A n, ms : n # ResultAt(f) /\ LeadsIn(structs_by_name, struct_lookaside, n, ms)
                          => LeadsIn(names, structs, n, ms)
            /\ DOMAIN structs = DOMAIN struct_lookaside \union {nextid}
        BY <1>1, PutLeads, PutIsThere
      <3> HIDE DEF names, structs
      <3>4. nextid + 1 \notin DOMAIN structs \union DOMAIN typelib.types
        BY <1>2, <3>3
      <3>5. /\ LeadsIn(structs_by_name', struct_lookaside', ArgsAt(f), args)
            /\ \A n, ms : n # ArgsAt(f) /\ LeadsIn(names, structs, n, ms)
                          => LeadsIn(structs_by_name', struct_lookaside', n, ms)
        BY <3>1, <3>2, <3>4, PutLeads
      <3>6. ArgsAt(f) # ResultAt(f)
        BY NamesAreApart
      <3> QED
        BY <2>2, <3>3, <3>5, <3>6 DEF FoundIn, args, result
    <2> QED
      BY <2>1, <2>2
  <1>4. ASSUME NEW g \in Functions, Found(g)
        PROVE  FoundIn(structs_by_name', struct_lookaside', g)
    <2>1. CASE Declaration(g) = Declaration(f)
      BY <1>3, <2>1 DEF FoundIn, ArgsAt, ResultAt, Oneway
    <2>2. CASE Declaration(g) # Declaration(f)
      <3>1. ArgsAt(g) \notin {ArgsAt(f), ResultAt(f)} /\ ResultAt(g) \notin {ArgsAt(f), ResultAt(f)}
        BY <2>2, NamesAreApart
      <3> QED
        BY <1>3, <1>4, <3>1 DEF Found, FoundIn
    <2> QED
      BY <2>1, <2>2
  <1> QED
    BY <1>3, <1>4
-----------------------------------------------------------------------------
(* Every struct is found from when it is made.                              *)
LEMMA StructsInit == Init => StructsFound
  <1> SUFFICES ASSUME Init PROVE StructsFound
    OBVIOUS
  <1>1. /\ typelib \in Typelibs /\ phase = "functions" /\ todo = Functions
        /\ nextid = Max(DOMAIN typelib.types) + 1 /\ DOMAIN struct_lookaside = {}
    BY DEF Init, FirstFreeId, Nothing
  <1>2. /\ DOMAIN typelib.types \subseteq Int
        /\ \E last \in DOMAIN typelib.types : \A id \in DOMAIN typelib.types : id <= last
    BY <1>1, TypelibsAssumption
  <1>3. \E last \in DOMAIN typelib.types : \A id \in DOMAIN typelib.types : last >= id
    BY <1>2
  <1>4. /\ Max(DOMAIN typelib.types) \in DOMAIN typelib.types
        /\ \A id \in DOMAIN typelib.types : Max(DOMAIN typelib.types) >= id
    BY <1>3 DEF Max
  <1>5. nextid \in Int /\ \A id \in DOMAIN typelib.types : id < nextid
    <2> HIDE DEF Max
    <2> QED
      BY <1>1, <1>2, <1>4
  <1>6. FreshIds
    BY <1>1, <1>5 DEF FreshIds
  <1>7. Made = {} /\ Behind(UserStructs) = {} /\ Behind(Enums) = {}
    BY <1>1 DEF Made, Behind
  <1> QED
    BY <1>6, <1>7 DEF StructsFound

LEMMA SameStructs ==
  ASSUME StructsFound, typelib' = typelib, phase # "thrown",
         UNCHANGED <<nextid, structs_by_name, struct_lookaside, enum_lookaside>>,
         Made' = Made, Behind(UserStructs)' = Behind(UserStructs), Behind(Enums)' = Behind(Enums)
  PROVE  StructsFound'
  <1>1. FreshIds' <=> FreshIds
    BY DEF FreshIds
  <1>2. \A f : Found(f)' <=> Found(f)
    BY SameFound DEF Found
  <1>3. \A id : (FoundStruct(id)' <=> FoundStruct(id)) /\ (FoundEnum(id)' <=> FoundEnum(id))
    BY SameDeclarations DEF FoundStruct, FoundEnum
  <1> QED
    BY <1>1, <1>2, <1>3, SameMembers DEF StructsFound

LEMMA FunctionFound ==
  ASSUME Visited, StructsFound, AddFunction, phase' # "thrown"
  PROVE  StructsFound'
  <1> typelib' = typelib
    BY DEF AddFunction, Throw
  <1>1. PICK f \in FirstFunction :
          AddStructs(Declaration(f)) /\ todo' = todo \ {f} /\ UNCHANGED <<phase, enum_lookaside>>
    BY DEF AddFunction, Throw
  <1>2. f \in todo /\ f \in Functions /\ phase = "functions"
    BY <1>1 DEF AddFunction, FirstFunction, Visited, FunctionsVisited
  <1> SUFFICES ASSUME Unambiguous
               PROVE  /\ FreshIds' /\ \A g \in Made' : Found(g)'
                      /\ \A id \in Behind(UserStructs)' : FoundStruct(id)'
                      /\ \A id \in Behind(Enums)' : FoundEnum(id)'
    BY SameMembers DEF StructsFound
  <1>3. FreshIds /\ \A g \in Functions \ todo : Found(g)
    BY <1>2 DEF StructsFound, Made
  <1>4. Behind(UserStructs)' = {} /\ Behind(Enums)' = {} /\ Behind(UserStructs) = {}
    BY <1>1, <1>2 DEF Behind
  <1>5. Made' = (Functions \ todo) \union {f}
    BY <1>1, <1>2, SameDeclarations DEF Made
  <1>6. \A g \in Made' : Found(g)'
    <2>1. \A g \in Made' : FoundIn(structs_by_name', struct_lookaside', g)
      BY <1>1, <1>2, <1>3, <1>5, AddedIsFound
    <2> QED
      BY <2>1, SameFound DEF Found
  <1>7. FreshIds'
    <2>1. \/ /\ DOMAIN struct_lookaside' = DOMAIN struct_lookaside \union {nextid}
             /\ nextid' = nextid + 1
          \/ /\ DOMAIN struct_lookaside' = DOMAIN struct_lookaside \union {nextid, nextid + 1}
             /\ nextid' = nextid + 2
      <3> DEFINE structs(ms) == Put(struct_lookaside, nextid, ms)
      <3>1. \A ms : DOMAIN structs(ms) = DOMAIN struct_lookaside \union {nextid}
        BY DEF Put
      <3>2. \A ms, t : DOMAIN Put(t, nextid + 1, ms) = DOMAIN t \union {nextid + 1}
        BY DEF Put
      <3> HIDE DEF structs
      <3>3. CASE Oneway(f)
        <4>1. nextid' = nextid + 1 /\ \E ms : struct_lookaside' = structs(ms)
          BY <1>1, <3>3, StructsAdded DEF structs
        <4> QED
          BY <3>1, <4>1
      <3>4. CASE ~Oneway(f)
        <4>1. nextid' = nextid + 2 /\ \E ms, ns : struct_lookaside' = Put(structs(ms), nextid + 1, ns)
          BY <1>1, <3>4, StructsAdded DEF structs
        <4> QED
          BY <3>1, <3>2, <4>1
      <3> QED
        BY <3>3, <3>4
    <2>2. /\ nextid \in Int /\ DOMAIN struct_lookaside \subseteq Int
          /\ \A id \in DOMAIN typelib.types \union DOMAIN struct_lookaside : id < nextid
          /\ DOMAIN struct_lookaside \intersect DOMAIN typelib.types = {}
      BY <1>3, <1>4 DEF FreshIds
    <2>3. typelib \in Typelibs /\ DOMAIN typelib.types \subseteq Int
      BY TypelibsAssumption DEF Visited
    <2>4. /\ nextid' \in Int /\ DOMAIN struct_lookaside' \subseteq Int
          /\ \A id \in DOMAIN typelib.types \union DOMAIN struct_lookaside' : id < nextid'
      BY <2>1, <2>2, <2>3
    <2>5. DOMAIN struct_lookaside' \intersect DOMAIN typelib.types = {}
      BY <2>1, <2>2, <2>3
    <2> QED
      BY <2>4, <2>5 DEF FreshIds
  <1> QED
    BY <1>4, <1>6, <1>7

LEMMA TypeFound ==
  ASSUME Visited, StructsFound, AddType, phase' # "thrown"
  PROVE  StructsFound'
  <1> typelib' = typelib
    BY DEF AddType, Throw
  <1>1. phase = "types" /\ phase' = "types"
    BY DEF AddType, Throw
  <1>2. PICK id \in FirstId :
          /\ todo' = todo \ {id} /\ nextid' = nextid
          /\ \/ /\ id \in UserStructs /\ Nameable(id) /\ enum_lookaside' = enum_lookaside
                /\ AddStructLookaside(id, CppName(id), typelib.types[id].members,
                                      structs_by_name, struct_lookaside)
             \/ /\ id \in Enums /\ UNCHANGED <<structs_by_name, struct_lookaside>>
                /\ enum_lookaside' = Put(enum_lookaside, id, typelib.types[id].constants)
             \/ /\ id \notin UserStructs \union Enums
                /\ UNCHANGED <<structs_by_name, struct_lookaside, enum_lookaside>>
    BY <1>1 DEF AddType, tables, Throw
  <1>3. id \in todo /\ id \in DOMAIN typelib.types /\ UserStructs \intersect Enums = {}
    BY <1>1, <1>2 DEF FirstId, Visited, TypesVisited, UserStructs, Enums
  <1>4. Made' = Made /\ Made = Functions
    BY <1>1, SameDeclarations DEF Made
  <1>5. \A ids : Behind(ids) = ids \ todo
    BY <1>1 DEF Behind
  <1>6. /\ Behind(UserStructs)' = UserStructs \ (todo \ {id})
        /\ Behind(Enums)' = Enums \ (todo \ {id})
    BY <1>1, <1>2, SameDeclarations DEF Behind
  <1> SUFFICES ASSUME Unambiguous
               PROVE  /\ FreshIds' /\ \A g \in Made' : Found(g)'
                      /\ \A other \in Behind(UserStructs)' : FoundStruct(other)'
                      /\ \A other \in Behind(Enums)' : FoundEnum(other)'
    BY SameMembers DEF StructsFound
  <1>7. /\ FreshIds /\ \A g \in Functions : Found(g)
        /\ \A other \in UserStructs \ todo : FoundStruct(other)
        /\ \A other \in Enums \ todo : FoundEnum(other)
    BY <1>1, <1>4, <1>5 DEF StructsFound
  <1>8. CASE /\ id \in UserStructs /\ Nameable(id) /\ enum_lookaside' = enum_lookaside
             /\ AddStructLookaside(id, CppName(id), typelib.types[id].members,
                                   structs_by_name, struct_lookaside)
    <2>1. /\ structs_by_name' = Put(structs_by_name, CppName(id), id)
          /\ struct_lookaside' = Put(struct_lookaside, id, typelib.types[id].members)
          /\ CppName(id) \notin DOMAIN structs_by_name
      BY <1>8 DEF AddStructLookaside, Nameable, Taken
    <2>2. \A n, ms : LeadsIn(structs_by_name, struct_lookaside, n, ms)
                     => LeadsIn(structs_by_name', struct_lookaside', n, ms)
      <3>1. id \notin DOMAIN struct_lookaside \ DOMAIN typelib.types
        BY <1>3
      <3>2. \A n, ms : LeadsIn(structs_by_name, struct_lookaside, n, ms) => n # CppName(id)
        BY <2>1 DEF LeadsIn
      <3> QED
        BY <2>1, <3>1, <3>2, PutLeads
    <2>3. \A g \in Functions : FoundIn(structs_by_name', struct_lookaside', g)
      BY <1>7, <2>2 DEF Found, FoundIn
    <2>4. \A g \in Made' : Found(g)'
      BY <1>4, <2>3, SameFound DEF Found
    <2>5. Behind(UserStructs)' = Behind(UserStructs) \union {id} /\ Behind(Enums)' = Enums \ todo
      BY <1>3, <1>5, <1>6, <1>8
    <2>6. \A x : x \in DOMAIN struct_lookaside' <=> x \in DOMAIN struct_lookaside \/ x = id
      BY <2>1 DEF Put
    <2>7. FreshIds'
      <3>1. typelib \in Typelibs /\ DOMAIN typelib.types \subseteq Int
        BY TypelibsAssumption DEF Visited
      <3> QED
        BY <1>2, <1>3, <1>7, <2>5, <2>6, <3>1 DEF FreshIds
    <2>8. FoundStruct(id)'
      BY <2>1, SameDeclarations DEF FoundStruct, Put
    <2>9. ASSUME NEW other \in UserStructs \ todo
          PROVE  FoundStruct(other)'
      <3>1. FoundStruct(other) /\ other # id
        BY <1>3, <1>7
      <3>2. CppName(other) \in DOMAIN structs_by_name' /\ structs_by_name'[CppName(other)] = other
        BY <2>1, <3>1 DEF FoundStruct, Put
      <3>3. other \in DOMAIN struct_lookaside' /\ struct_lookaside'[other] = typelib.types[other].members
        BY <2>1, <3>1 DEF FoundStruct, Put
      <3> QED
        BY <3>2, <3>3, SameDeclarations DEF FoundStruct
    <2>10. \A other \in Enums \ todo : FoundEnum(other)'
      BY <1>7, <1>8 DEF FoundEnum
    <2> QED
      BY <1>5, <2>4, <2>5, <2>7, <2>8, <2>9, <2>10
  <1>9. CASE /\ id \in Enums /\ UNCHANGED <<structs_by_name, struct_lookaside>>
             /\ enum_lookaside' = Put(enum_lookaside, id, typelib.types[id].constants)
    <2>1. Behind(UserStructs)' = UserStructs \ todo /\ Behind(Enums)' = (Enums \ todo) \union {id}
      BY <1>3, <1>6, <1>9
    <2>2. FoundEnum(id)'
      BY <1>9, SameDeclarations DEF FoundEnum, Put
    <2>3. ASSUME NEW other \in Enums \ todo PROVE FoundEnum(other)'
      <3>1. FoundEnum(other) /\ other # id
        BY <1>3, <1>7
      <3> QED
        BY <1>9, <3>1 DEF FoundEnum, Put
    <2>4. \A other \in UserStructs \ todo : FoundStruct(other)'
      BY <1>7, <1>9, SameDeclarations DEF FoundStruct
    <2>5. \A g \in Made' : Found(g)'
      BY <1>4, <1>7, <1>9, SameFound DEF Found
    <2>6. FreshIds'
      BY <1>2, <1>5, <1>7, <1>9, <2>1 DEF FreshIds
    <2> QED
      BY <2>1, <2>2, <2>3, <2>4, <2>5, <2>6
  <1>10. CASE /\ id \notin UserStructs \union Enums
              /\ UNCHANGED <<structs_by_name, struct_lookaside, enum_lookaside>>
    <2>1. /\ Behind(UserStructs)' = Behind(UserStructs)
          /\ Behind(Enums)' = Behind(Enums)
      BY <1>5, <1>6, <1>10
    <2>2. StructsFound'
      BY <1>1, <1>2, <1>4, <1>10, <2>1, SameStructs
    <2> QED
      BY <1>1, <2>2, SameMembers DEF StructsFound
  <1> QED
    BY <1>2, <1>8, <1>9, <1>10

LEMMA StructsNext == Visited /\ StructsFound /\ [Next]_vars => StructsFound'
  <1> SUFFICES ASSUME Visited, StructsFound, [Next]_vars, phase' # "thrown" PROVE StructsFound'
    BY DEF StructsFound
  <1> typelib' = typelib
    BY TypelibStays
  <1>1. CASE FunctionsDone
    <2>1. Made' = Made
      BY <1>1, SameDeclarations DEF FunctionsDone, Made
    <2>2. UserStructs \ DOMAIN typelib.types = {} /\ Enums \ DOMAIN typelib.types = {}
      BY DEF UserStructs, Enums
    <2>3. /\ Behind(UserStructs)' = Behind(UserStructs)
          /\ Behind(Enums)' = Behind(Enums)
      BY <1>1, <2>2, SameDeclarations DEF FunctionsDone, Behind
    <2> QED
      BY <1>1, <2>1, <2>3, SameStructs DEF FunctionsDone, tables
  <1>2. CASE TypesDone \/ BeginService \/ AddServiceLookasides \/ Finish
    <2>1. phase \in {"types", "services"} /\ phase' \in {"services", "ready"}
      BY <1>2 DEF TypesDone, BeginService, AddServiceLookasides, Finish, Throw
    <2>2. phase = "types" => todo = {}
      BY <1>2 DEF TypesDone, BeginService, AddServiceLookasides, Finish
    <2>3. UNCHANGED <<nextid, structs_by_name, struct_lookaside, enum_lookaside>>
      BY <1>2 DEF TypesDone, BeginService, AddServiceLookasides, Finish, Throw, tables
    <2>4. Made' = Made
      BY <2>1, SameDeclarations DEF Made
    <2>5. /\ Behind(UserStructs)' = Behind(UserStructs)
          /\ Behind(Enums)' = Behind(Enums)
      BY <2>1, <2>2, SameDeclarations DEF Behind
    <2> QED
      BY <2>1, <2>3, <2>4, <2>5, SameStructs
  <1>3. CASE UNCHANGED vars
    <2>1. UNCHANGED <<phase, todo>> /\ UNCHANGED <<nextid, structs_by_name, struct_lookaside, enum_lookaside>>
      BY <1>3 DEF vars, tables
    <2>2. /\ Made' = Made /\ Behind(UserStructs)' = Behind(UserStructs)
          /\ Behind(Enums)' = Behind(Enums)
      BY <2>1, SameDeclarations DEF Made, Behind
    <2> QED
      BY <2>1, <2>2, SameStructs
  <1> QED
    BY <1>1, <1>2, <1>3, FunctionFound, TypeFound DEF Next
-----------------------------------------------------------------------------
(* The operations.  A service has been given those of some services of its  *)
(* lineage, all but what remains of it from some exit on.                   *)
ServiceName(sid) == typelib.services[sid].name
Given(sid, a) ==
  \A k \in DOMAIN typelib.services[a].functions :
    LET d == Declaration(<<a, k>>)
    IN  /\ d.function.name \in DOMAIN service_lookaside[ServiceName(sid)]
        /\ service_lookaside[ServiceName(sid)][d.function.name] = StructNames(d.service, d.function)

Gathered(sid, family, exit) ==
  /\ family \subseteq Lineage(sid) /\ ServiceName(sid) \in DOMAIN service_lookaside
  /\ sid = exit \/ sid \in family
  /\ \A a \in family : Extends(a) \in family \union {exit} /\ Given(sid, a)

(* Those before it have been given all, the one at work up to svc.          *)
Remaining(sid) == IF sid = dst THEN svc ELSE NoService
IsGathered(sid) == \E family : Gathered(sid, family, Remaining(sid))

ServicesGiven ==
  Unambiguous =>
    /\ phase = "services" =>
         /\ svc \in DOMAIN typelib.services => svc \in Lineage(dst)
         /\ svc # NoService => dst \in DOMAIN typelib.services \ todo
         /\ \A sid \in DOMAIN typelib.services \ todo : IsGathered(sid)
    /\ phase = "ready" =>
         \A sid \in DOMAIN typelib.services : \E family : Gathered(sid, family, NoService)

(* A lineage starts with the service and goes on with what one extends.     *)
LEMMA LineageGoesOn ==
  ASSUME NEW sid \in DOMAIN typelib.services
  PROVE  /\ sid \in Lineage(sid) /\ Lineage(sid) \subseteq DOMAIN typelib.services
         /\ \A a \in Lineage(sid) : Extends(a) \in DOMAIN typelib.services => Extends(a) \in Lineage(sid)
         /\ \A family \in SUBSET DOMAIN typelib.services :
              /\ sid \in family
              /\ \A b \in family : Extends(b) \in DOMAIN typelib.services => Extends(b) \in family
              => Lineage(sid) \subseteq family
  BY DEF Lineage, Extends

LEMMA OneDeclaration ==
  ASSUME Unambiguous, NEW sid \in DOMAIN typelib.services,
         NEW a \in Lineage(sid), NEW b \in Lineage(sid),
         NEW k \in DOMAIN typelib.services[a].functions,
         NEW l \in DOMAIN typelib.services[b].functions,
         typelib.services[a].functions[k].name = typelib.services[b].functions[l].name
  PROVE  Declaration(<<a, k>>) = Declaration(<<b, l>>)
  <1>1. a \in DOMAIN typelib.services /\ b \in DOMAIN typelib.services
    BY LineageGoesOn
  <1>2. <<a, k>> \in Functions /\ <<b, l>> \in Functions
    BY <1>1 DEF Functions
  <1>3. Declaration(<<a, k>>) \in OwnedBy(sid) /\ Declaration(<<b, l>>) \in OwnedBy(sid)
    BY <1>2 DEF OwnedBy, Declarations, Declaration
  <1>4. Declaration(<<a, k>>).function.name = Declaration(<<b, l>>).function.name
    BY DEF Declaration
  <1> QED
    BY <1>3, <1>4 DEF Unambiguous

(* The operations a service has of its own.                                 *)
LEMMA OperationsOfService ==
  ASSUME typelib \in Typelibs, NEW sid \in DOMAIN typelib.services
  PROVE  LET fs == typelib.services[sid].functions
             table == OperationsOf(typelib.services[sid])
         IN  /\ DOMAIN table = {fs[k].name : k \in DOMAIN fs}
             /\ \A n \in DOMAIN table : \E k \in DOMAIN fs :
                  fs[k].name = n /\ table[n] = StructNames(typelib.services[sid], fs[k])
  <1> DEFINE s == typelib.services[sid]
             fs == s.functions
             last(n) == Max({k \in DOMAIN fs : fs[k].name = n})
  <1>1. \E len \in Nat : DOMAIN fs = 1 .. len
    <2>1. fs \in Seq(Range(fs))
      BY TypelibsAssumption
    <2> QED
      BY <2>1
  <1>2. ASSUME NEW n \in {fs[k].name : k \in DOMAIN fs}
        PROVE  last(n) \in DOMAIN fs /\ fs[last(n)].name = n
    <2> DEFINE T == {k \in DOMAIN fs : fs[k].name = n}
    <2>1. T # {} /\ \E len \in Nat : T \subseteq 1 .. len
      BY <1>1
    <2> HIDE DEF T
    <2>2. Max(T) \in T
      BY <2>1, LastOf
    <2> QED
      BY <2>2 DEF T
  <1> HIDE DEF last
  <1>3. OperationsOf(s) = [n \in {fs[k].name : k \in DOMAIN fs} |-> StructNames(s, fs[last(n)])]
    BY DEF OperationsOf, last
  <1> QED
    BY <1>2, <1>3

LEMMA SameServices ==
  ASSUME typelib' = typelib
  PROVE  /\ \A sid : ServiceName(sid)' = ServiceName(sid)
         /\ \A s, f : StructNames(s, f)' = StructNames(s, f)
  BY DEF ServiceName, StructNames, ArgsName, ResultName, Qualified

(* The table of a service that is not written to stays.                     *)
LEMMA StillGathered ==
  ASSUME typelib' = typelib, NEW sid, NEW family, NEW exit, Gathered(sid, family, exit),
         ServiceName(sid) \in DOMAIN service_lookaside',
         service_lookaside'[ServiceName(sid)] = service_lookaside[ServiceName(sid)]
  PROVE  Gathered(sid, family, exit)'
  <1>1. \A a : Given(sid, a) => Given(sid, a)'
    BY SameServices, SameDeclarations DEF Given
  <1>2. Lineage(sid)' = Lineage(sid)
    BY SameMembers
  <1> QED
    BY <1>1, <1>2, SameServices, SameDeclarations DEF Gathered

LEMMA BeginGiven ==
  ASSUME Visited, ServicesGiven, BeginService, Unambiguous
  PROVE  ServicesGiven'
  <1> typelib' = typelib
    BY DEF BeginService
  <1>1. PICK id \in todo :
          /\ dst' = id /\ svc' = id /\ todo' = todo \ {id} /\ phase' = "services"
          /\ service_lookaside' = Put(service_lookaside, ServiceName(id), Nothing)
    BY DEF BeginService, FirstId, ServiceName
  <1>2. phase = "services" /\ svc = NoService
    BY DEF BeginService
  <1>3. id \in DOMAIN typelib.services /\ todo \subseteq DOMAIN typelib.services
    BY <1>2 DEF Visited, ServicesVisited
  <1>4. Gathered(id, {}, id)'
    BY <1>1, SameServices DEF Gathered, Put
  <1>5. ASSUME NEW sid \in DOMAIN typelib.services \ todo
        PROVE  sid # id /\ \E family : Gathered(sid, family, NoService)'
    <2>1. PICK family : Gathered(sid, family, NoService)
      BY <1>2 DEF ServicesGiven, IsGathered, Remaining, Gathered
    <2>2. ServiceName(sid) # ServiceName(id)
      BY <1>3 DEF Unambiguous, ServiceName
    <2>3. ServiceName(sid) \in DOMAIN service_lookaside
      BY <2>1 DEF Gathered
    <2>4. /\ ServiceName(sid) \in DOMAIN service_lookaside'
          /\ service_lookaside'[ServiceName(sid)] = service_lookaside[ServiceName(sid)]
      BY <1>1, <2>2, <2>3 DEF Put
    <2>5. Gathered(sid, family, NoService)'
      BY <2>1, <2>4, StillGathered
    <2> QED
      BY <2>5
  <1>6. svc' \in Lineage(dst)'
    BY <1>1, <1>3, LineageGoesOn, SameMembers
  <1>7. ASSUME NEW sid \in DOMAIN typelib.services \ todo'
        PROVE  IsGathered(sid)'
    <2>1. CASE sid = id
      <3>1. Remaining(sid)' = id
        BY <1>1, <2>1 DEF Remaining
      <3>2. Gathered(sid, {}, Remaining(sid))'
        BY <1>4, <2>1, <3>1 DEF Gathered
      <3> QED
        BY <3>2 DEF IsGathered
    <2>2. CASE sid # id
      <3>1. Remaining(sid)' = NoService
        BY <1>1, <2>2 DEF Remaining
      <3>2. PICK family : Gathered(sid, family, NoService)'
        BY <1>1, <1>5, <2>2
      <3> QED
        BY <3>1, <3>2 DEF IsGathered, Gathered
    <2> QED
      BY <2>1, <2>2
  <1> QED
    BY <1>1, <1>3, <1>6, <1>7 DEF ServicesGiven

(* What is written at the operations of svc is what is declared there, and  *)
(* what is overwritten was the same.                                        *)
LEMMA CopyGiven ==
  ASSUME Visited, ServicesGiven, AddServiceLookasides, phase' # "thrown", Unambiguous
  PROVE  ServicesGiven'
  <1> PICK own, up : own = dst /\ up = svc
    OBVIOUS
  <1> typelib' = typelib
    BY DEF AddServiceLookasides, Throw
  <1> DEFINE more == OperationsOf(typelib.services[up])
             fs == typelib.services[up].functions
  <1>1. /\ up \in DOMAIN typelib.services /\ up # NoService /\ phase = "services"
        /\ UNCHANGED <<phase, todo, dst>> /\ svc' = Extends(up)
        /\ service_lookaside' =
             [service_lookaside EXCEPT ![ServiceName(own)] = PutAll(service_lookaside[ServiceName(own)], more)]
    BY DEF AddServiceLookasides, Throw, Copyable, Extends, ServiceName
  <1>2. /\ up \in Lineage(own) /\ own \in DOMAIN typelib.services \ todo
        /\ \A sid \in DOMAIN typelib.services \ todo : IsGathered(sid)
    BY <1>1 DEF ServicesGiven
  <1>3. Lineage(own) \subseteq DOMAIN typelib.services
    BY <1>2, LineageGoesOn
  <1>4. PICK family : Gathered(own, family, up)
    BY <1>2 DEF IsGathered, Remaining
  <1>5. ServiceName(own) \in DOMAIN service_lookaside
    BY <1>4 DEF Gathered
  <1>6. /\ DOMAIN more = {fs[k].name : k \in DOMAIN fs}
        /\ \A n \in DOMAIN more : \E k \in DOMAIN fs :
             fs[k].name = n /\ more[n] = StructNames(typelib.services[up], fs[k])
    BY <1>1, OperationsOfService DEF Visited
  <1> HIDE DEF more
  <1>7. /\ DOMAIN service_lookaside' = DOMAIN service_lookaside
        /\ service_lookaside'[ServiceName(own)] = PutAll(service_lookaside[ServiceName(own)], more)
        /\ \A n \in DOMAIN service_lookaside :
             n # ServiceName(own) => service_lookaside'[n] = service_lookaside[n]
    BY <1>1, <1>5
  <1> DEFINE table == service_lookaside'[ServiceName(own)]
  <1>8. /\ DOMAIN table = DOMAIN service_lookaside[ServiceName(own)] \union DOMAIN more
        /\ \A n \in DOMAIN more : table[n] = more[n]
        /\ \A n \in DOMAIN service_lookaside[ServiceName(own)] \ DOMAIN more :
             table[n] = service_lookaside[ServiceName(own)][n]
    BY <1>7 DEF PutAll
  <1> HIDE DEF table
  <1>9. ASSUME NEW a \in Lineage(own), NEW k \in DOMAIN typelib.services[a].functions,
               typelib.services[a].functions[k].name \in DOMAIN more
        PROVE  table[typelib.services[a].functions[k].name]
                 = StructNames(typelib.services[a], typelib.services[a].functions[k])
    <2> DEFINE n == typelib.services[a].functions[k].name
    <2>1. PICK l \in DOMAIN fs : fs[l].name = n /\ more[n] = StructNames(typelib.services[up], fs[l])
      BY <1>6, <1>9
    <2>2. Declaration(<<a, k>>) = Declaration(<<up, l>>)
      BY <1>2, <2>1, OneDeclaration
    <2>3. /\ typelib.services[a] = typelib.services[up]
          /\ typelib.services[a].functions[k] = fs[l]
      BY <2>2 DEF Declaration
    <2> QED
      BY <1>8, <1>9, <2>1, <2>3
  <1>10. ASSUME NEW a \in family \union {up}
         PROVE  Given(own, a)'
    <2> SUFFICES ASSUME NEW k \in DOMAIN typelib.services[a].functions
                 PROVE  /\ typelib.services[a].functions[k].name \in DOMAIN table
                        /\ table[typelib.services[a].functions[k].name]
                             = StructNames(typelib.services[a], typelib.services[a].functions[k])
      BY SameServices DEF Given, Declaration, table, ServiceName
    <2> DEFINE n == typelib.services[a].functions[k].name
    <2>1. a \in Lineage(own)
      BY <1>2, <1>4 DEF Gathered
    <2>2. CASE n \in DOMAIN more
      BY <1>8, <1>9, <2>1, <2>2
    <2>3. CASE n \notin DOMAIN more
      <3>1. a \in family
        <4> SUFFICES ASSUME a = up PROVE FALSE
          BY <1>10
        <4>1. k \in DOMAIN fs /\ n = fs[k].name
          OBVIOUS
        <4> QED
          BY <1>6, <2>3, <4>1
      <3>2. /\ n \in DOMAIN service_lookaside[ServiceName(own)]
            /\ service_lookaside[ServiceName(own)][n]
                 = StructNames(typelib.services[a], typelib.services[a].functions[k])
        BY <1>4, <3>1 DEF Gathered, Given, Declaration
      <3> QED
        BY <1>8, <2>3, <3>2
    <2> QED
      BY <2>2, <2>3
  <1>11. Gathered(own, family \union {up}, Extends(up))'
    <2>1. /\ family \union {up} \subseteq Lineage(own)
          /\ own = Extends(up) \/ own \in family \union {up}
          /\ \A a \in family \union {up} : Extends(a) \in family \union {up} \union {Extends(up)}
      BY <1>2, <1>4 DEF Gathered
    <2>2. ServiceName(own) \in DOMAIN service_lookaside'
      BY <1>5, <1>7
    <2> QED
      BY <1>1, <1>10, <2>1, <2>2, SameServices, SameDeclarations, SameMembers DEF Gathered
  <1>12. ASSUME NEW sid \in DOMAIN typelib.services \ todo
         PROVE  IsGathered(sid)'
    <2>1. CASE sid = own
      <3>1. Gathered(sid, family \union {up}, Remaining(sid))'
        BY <1>1, <1>11, <2>1, SameDeclarations DEF Gathered, Remaining
      <3> QED
        BY <3>1 DEF IsGathered
    <2>2. CASE sid # own
      <3>1. PICK others : Gathered(sid, others, NoService)
        BY <1>2, <2>2 DEF IsGathered, Remaining
      <3>2. ServiceName(sid) # ServiceName(own) /\ ServiceName(sid) \in DOMAIN service_lookaside
        BY <1>2, <2>2, <3>1 DEF Unambiguous, ServiceName, Gathered
      <3>3. Gathered(sid, others, NoService)'
        BY <1>7, <3>1, <3>2, StillGathered
      <3>4. Remaining(sid)' = NoService
        BY <1>1, <2>2 DEF Remaining
      <3> QED
        BY <3>3, <3>4 DEF IsGathered, Gathered
    <2> QED
      BY <2>1, <2>2
  <1>13. svc' \in DOMAIN typelib.services => svc' \in Lineage(own)
    BY <1>1, <1>2, LineageGoesOn, SameMembers
  <1> QED
    BY <1>1, <1>2, <1>12, <1>13, SameMembers DEF ServicesGiven

LEMMA GivenNext == Visited /\ ServicesGiven /\ [Next]_vars => ServicesGiven'
  <1> SUFFICES ASSUME Visited, ServicesGiven, [Next]_vars, Unambiguous PROVE ServicesGiven'
    BY TypelibStays, SameMembers DEF ServicesGiven
  <1> typelib' = typelib
    BY TypelibStays
  <1>1. CASE phase' \notin {"services", "ready"}
    BY <1>1 DEF ServicesGiven
  <1>2. CASE TypesDone
    <2>1. svc = NoService
      BY <1>2 DEF TypesDone, Visited, TypesVisited
    <2>2. phase' = "services" /\ todo' = DOMAIN typelib.services /\ svc' = NoService
      BY <1>2, <2>1 DEF TypesDone
    <2> QED
      BY <2>2, TypelibsAssumption DEF Visited, ServicesGiven
  <1>3. CASE Finish
    <2>1. phase = "services" /\ todo = {} /\ svc = NoService /\ phase' = "ready"
      BY <1>3 DEF Finish
    <2>2. service_lookaside' = service_lookaside
      BY <1>3 DEF Finish, tables
    <2>3. ASSUME NEW sid \in DOMAIN typelib.services
          PROVE  \E family : Gathered(sid, family, NoService)'
      <3>1. PICK family : Gathered(sid, family, NoService)
        BY <2>1, <2>3 DEF ServicesGiven, IsGathered, Remaining
      <3> QED
        BY <2>2, <3>1, StillGathered DEF Gathered
    <2> QED
      BY <2>1, <2>3 DEF ServicesGiven
  <1>4. CASE UNCHANGED vars
    <2>1. UNCHANGED <<phase, todo, dst, svc, service_lookaside>>
      BY <1>4 DEF vars, tables
    <2>2. ASSUME NEW sid, NEW family, NEW exit, Gathered(sid, family, exit)
          PROVE  Gathered(sid, family, exit)'
      BY <2>1, <2>2, StillGathered DEF Gathered
    <2>3. ASSUME NEW sid, IsGathered(sid) PROVE IsGathered(sid)'
      <3>1. PICK exit : exit = Remaining(sid)
        OBVIOUS
      <3>2. PICK family : Gathered(sid, family, exit)
        BY <2>3, <3>1 DEF IsGathered
      <3>3. Gathered(sid, family, exit)' /\ exit = Remaining(sid)'
        BY <2>1, <2>2, <3>1, <3>2 DEF Remaining
      <3> QED
        BY <3>3 DEF IsGathered, Gathered
    <2>4. CASE phase = "services"
      BY <2>1, <2>3, <2>4, SameMembers DEF ServicesGiven
    <2>5. CASE phase = "ready"
      BY <2>1, <2>2, <2>5 DEF ServicesGiven
    <2> QED
      BY <1>1, <2>1, <2>4, <2>5
  <1>5. CASE AddFunction \/ FunctionsDone \/ AddType
    <2>1. phase' \notin {"services", "ready"}
      BY <1>5 DEF AddFunction, FunctionsDone, AddType, Throw
    <2> QED
      BY <1>1, <2>1
  <1>6. CASE BeginService
    BY <1>6, BeginGiven
  <1>7. CASE AddServiceLookasides
    <2>1. CASE phase' = "thrown"
      BY <1>1, <2>1
    <2>2. CASE phase' # "thrown"
      BY <1>7, <2>2, CopyGiven
    <2> QED
      BY <2>1, <2>2
  <1> QED
    BY <1>2, <1>3, <1>4, <1>5, <1>6, <1>7 DEF Next

LEMMA GivenInit == Init => ServicesGiven
  BY DEF Init, ServicesGiven
-----------------------------------------------------------------------------
(* What is no typedef stands for itself, and a typedef for what its target  *)
(* stands for.                                                              *)
LEMMA RealTypes ==
  /\ \A id \in (DOMAIN typelib.types \union DOMAIN struct_lookaside) \ Typedefs : RealTypeId(id) = id
  /\ \A id \in Typedefs : RealTypeId(id) = RealTypeId(typelib.types[id].target)
  <1>1. ASSUME NEW id \in (DOMAIN typelib.types \union DOMAIN struct_lookaside) \ Typedefs
        PROVE  RealTypeId(id) = id
    <2>1. LeadsTo(id, id)
      <3>1. /\ {} \in SUBSET Typedefs /\ id \in {} \union {id}
            /\ \A p \in {} : typelib.types[p].target \in {} \union {id}
        OBVIOUS
      <3> QED
        BY <3>1 DEF LeadsTo
    <2>2. \A real : LeadsTo(id, real) => real = id
      BY DEF LeadsTo
    <2>3. Ends(id) = {id}
      BY <2>1, <2>2 DEF Ends
    <2> QED
      BY <2>3 DEF RealTypeId
  <1>2. ASSUME NEW id \in Typedefs
        PROVE  RealTypeId(id) = RealTypeId(typelib.types[id].target)
    <2> DEFINE target == typelib.types[id].target
    <2>1. ASSUME NEW real, real \notin Typedefs, LeadsTo(id, real)
          PROVE  LeadsTo(target, real)
      BY <2>1 DEF LeadsTo
    <2>2. ASSUME NEW real, LeadsTo(target, real)
          PROVE  LeadsTo(id, real)
      <3>1. PICK passed \in SUBSET Typedefs :
              /\ target \in passed \union {real}
              /\ \A p \in passed : typelib.types[p].target \in passed \union {real}
        BY <2>2 DEF LeadsTo
      <3> DEFINE more == passed \union {id}
      <3>2. /\ more \in SUBSET Typedefs /\ id \in more \union {real}
            /\ \A p \in more : typelib.types[p].target \in more \union {real}
        BY <3>1
      <3> HIDE DEF more
      <3> QED
        BY <3>2 DEF LeadsTo
    <2>3. Ends(id) = Ends(target)
      BY <2>1, <2>2 DEF Ends
    <2> QED
      BY <2>3 DEF RealTypeId
  <1> QED
    BY <1>1, <1>2

(* A service that is ready has all its lineage has.                         *)
LEMMA AllIsGiven ==
  ASSUME Visited, ServicesGiven, Unambiguous, phase = "ready",
         NEW sid \in DOMAIN typelib.services, NEW a \in Lineage(sid)
  PROVE  Given(sid, a)
  <1>1. PICK family : Gathered(sid, family, NoService)
    BY DEF ServicesGiven
  <1>2. NoService \notin DOMAIN typelib.services
    BY TypelibsAssumption DEF Visited
  <1>3. /\ family \in SUBSET DOMAIN typelib.services /\ sid \in family
        /\ \A b \in family : Extends(b) \in DOMAIN typelib.services => Extends(b) \in family
    BY <1>1, <1>2, LineageGoesOn DEF Gathered
  <1>4. Lineage(sid) \subseteq family
    BY <1>3, LineageGoesOn
  <1> QED
    BY <1>1, <1>4 DEF Gathered

LEMMA OperationsAreFound ==
  ASSUME Visited, StructsFound, ServicesGiven, Unambiguous, phase = "ready",
         NEW sid \in DOMAIN typelib.services, NEW d \in OwnedBy(sid)
  PROVE  LET names == ServiceStructNames(typelib.services[sid].name, d.function.name)
             args == LookupTypeId(names.args)
             result == LookupTypeId(names.result)
         IN  /\ args \notin DOMAIN typelib.types
             /\ LookupStructFields(args) = ArgsMembers(d.function)
             /\ ~d.function.is_oneway =>
                   /\ result \notin DOMAIN typelib.types
                   /\ LookupStructFields(result) = ResultMembers(d.function)
  <1>1. PICK f \in Functions : d = Declaration(f)
    BY DEF OwnedBy, Declarations
  <1>2. PICK a \in Lineage(sid) : d.service = typelib.services[a]
    BY DEF OwnedBy
  <1>3. PICK b, k : /\ b \in DOMAIN typelib.services /\ k \in DOMAIN typelib.services[b].functions
                     /\ f = <<b, k>>
    BY DEF Functions
  <1>4. a = b
    <2>1. a \in DOMAIN typelib.services
      BY LineageGoesOn
    <2>2. typelib.services[a] = typelib.services[b]
      BY <1>1, <1>2, <1>3 DEF Declaration
    <2> QED
      BY <1>3, <2>1, <2>2 DEF Unambiguous
  <1>5. /\ ServiceStructNames(typelib.services[sid].name, d.function.name).args = ArgsAt(f)
        /\ ServiceStructNames(typelib.services[sid].name, d.function.name).result = ResultAt(f)
    <2>1. service_lookaside[ServiceName(sid)][d.function.name] = StructNames(d.service, d.function)
      BY <1>1, <1>3, <1>4, AllIsGiven DEF Given
    <2> QED
      BY <1>1, <2>1 DEF ServiceStructNames, ServiceName, StructNames, ArgsAt, ResultAt
  <1>6. Found(f)
    BY DEF StructsFound, Made
  <1>7. ASSUME NEW id \in DOMAIN struct_lookaside
        PROVE  LookupStructFields(id) = struct_lookaside[id]
    BY RealTypes DEF LookupStructFields, Typedefs
  <1>8. /\ LookupTypeId(ArgsAt(f)) \in DOMAIN struct_lookaside \ DOMAIN typelib.types
        /\ struct_lookaside[LookupTypeId(ArgsAt(f))] = ArgsMembers(d.function)
    BY <1>1, <1>6 DEF Found, FoundIn, LeadsIn, LookupTypeId
  <1>9. ~d.function.is_oneway =>
          /\ LookupTypeId(ResultAt(f)) \in DOMAIN struct_lookaside \ DOMAIN typelib.types
          /\ struct_lookaside[LookupTypeId(ResultAt(f))] = ResultMembers(d.function)
    BY <1>1, <1>6 DEF Found, FoundIn, LeadsIn, LookupTypeId, Oneway
  <1> QED
    BY <1>5, <1>7, <1>8, <1>9

LEMMA ReadyIsFound ==
  Visited /\ StructsFound /\ ServicesGiven => NamesFindDeclarations
  <1> SUFFICES ASSUME Visited, StructsFound, ServicesGiven, Unambiguous, phase = "ready"
               PROVE  NamesFindDeclarations
    BY DEF NamesFindDeclarations
  <1>1. /\ \A id \in UserStructs : FoundStruct(id)
        /\ \A id \in Enums : FoundEnum(id)
        /\ DOMAIN struct_lookaside \intersect DOMAIN typelib.types \subseteq UserStructs
    BY DEF StructsFound, FreshIds, Behind
  <1>2. \A id \in UserStructs :
          /\ LookupTypeId(CppName(id)) = id
          /\ LookupStructFields(id) = typelib.types[id].members
    <2> TAKE id \in UserStructs
    <2>1. id \in DOMAIN struct_lookaside
      BY <1>1 DEF FoundStruct
    <2>2. RealTypeId(id) = id
      BY <2>1, RealTypes DEF Typedefs
    <2> QED
      BY <1>1, <2>2 DEF FoundStruct, LookupTypeId, LookupStructFields
  <1>3. \A id \in DOMAIN typelib.types :
          typelib.types[id].kind = "enum" => LookupEnum(id) = typelib.types[id].constants
    <2> SUFFICES ASSUME NEW id \in DOMAIN typelib.types, typelib.types[id].kind = "enum"
                 PROVE  LookupEnum(id) = typelib.types[id].constants
      OBVIOUS
    <2>1. id \notin Skip
      <3>1. AllAcceptable
        BY DEF Visited, AllVisited
      <3> QED
        BY <3>1 DEF Skip, Declarations, AllAcceptable, Acceptable, IsStruct, TypeAt
    <2>2. FoundEnum(id)
      BY <1>1, <2>1 DEF Enums
    <2>3. RealTypeId(id) = id
      BY RealTypes DEF Typedefs
    <2> QED
      BY <2>2, <2>3 DEF LookupEnum, FoundEnum
  <1>4. \A id \in DOMAIN typelib.types : typelib.types[id].kind = "typedef" =>
          /\ LookupEnum(id) = LookupEnum(typelib.types[id].target)
          /\ LookupStructFields(id) = LookupStructFields(typelib.types[id].target)
    <2> SUFFICES ASSUME NEW id \in DOMAIN typelib.types, typelib.types[id].kind = "typedef"
                 PROVE  RealTypeId(id) = RealTypeId(typelib.types[id].target)
      BY DEF LookupEnum, LookupStructFields
    <2>1. id \notin UserStructs
      BY DEF UserStructs
    <2>2. id \in Typedefs
      BY <1>1, <2>1 DEF Typedefs
    <2> QED
      BY <2>2, RealTypes
  <1> QED
    BY <1>2, <1>3, <1>4, OperationsAreFound DEF NamesFindDeclarations

(* In a typelib that has been read, whatever its types and services, each   *)
(* name and each typedef finds what the IDL declares.                       *)
THEOREM NamesFindWhatIsDeclared == Spec => []NamesFindDeclarations
  <1>1. Init => Visited /\ StructsFound /\ ServicesGiven
    BY VisitInit, StructsInit, GivenInit
  <1>2. Visited /\ StructsFound /\ ServicesGiven /\ [Next]_vars
          => (Visited /\ StructsFound /\ ServicesGiven)'
    BY VisitNext, StructsNext, GivenNext
  <1> QED
    BY <1>1, <1>2, ReadyIsFound, PTL DEF Spec
=============================================================================
