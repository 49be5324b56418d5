----------------------------- MODULE TypelibInit -----------------------------
(***************************************************************************)
(* How a typelib becomes usable: NiceJSON::initialize and its helpers      *)
(* (src/lib/cpp/NiceJSON.cpp 73-283) build the tables by which the codec   *)
(* and the protocol find a struct by name, an enum by label and the two    *)
(* structs of an operation, from the types and services of one Thrift      *)
(* program and of those it includes.                                       *)
(*                                                                         *)
(* One action is one turn of a loop of the constructor.  Ids are those of  *)
(* the Thrift compiler; names are the strings of the IDL, because the      *)
(* tables are keyed by names put together from them.                       *)
(***************************************************************************)
EXTENDS Integers, Sequences, Functions, FiniteSetsExt

CONSTANTS
    Typelibs,  \* what the constructor may be given, each a record of
               \*   program: the id of the main program
               \*   includes: the ids of those it includes itself
               \*   namespaces: the cpp namespaces of programs that have one
               \*   types: function from ids to types
               \*   services: function from ids to services
    NoService  \* what a service extends that extends none

(* Types and services are in maps, the functions of a service in a vector. *)
(* There is a last type: the constructor looks at it unasked.              *)
ASSUME TypelibsAssumption ==
    \A t \in Typelibs :
        /\ DOMAIN t.types \subseteq Int
        /\ \E last \in DOMAIN t.types : \A id \in DOMAIN t.types : id <= last
        /\ NoService \notin DOMAIN t.services
        /\ \A sid \in DOMAIN t.services :
              t.services[sid].functions \in Seq(Range(t.services[sid].functions))

VARIABLES
    typelib,           \* x_
    phase,             \* the loop the constructor is in, "ready" or "thrown"
    todo,              \* what this loop has still to visit
    dst,               \* the service that is given its operations
    svc,               \* the one add_service_lookasides is to copy them from
    nextid,            \* the next id for a struct that is no type of the IDL
    structs_by_name,
    struct_lookaside,  \* and with it xtra_types, which has the same ids
    enum_lookaside,
    service_lookaside  \* service_lookaside_

tables == <<nextid, structs_by_name, struct_lookaside, enum_lookaside, service_lookaside>>
vars == <<typelib, phase, todo, dst, svc, tables>>
-----------------------------------------------------------------------------
(* Tables: maps, of which operator[] = changes one entry.                  *)
Nothing == <<>>
Put(table, key, value) ==
    [k \in DOMAIN table \union {key} |-> IF k = key THEN value ELSE table[k]]
PutAll(table, entries) ==
    [k \in DOMAIN table \union DOMAIN entries |->
        IF k \in DOMAIN entries THEN entries[k] ELSE table[k]]

\* operator[] on alltypes makes an empty type where there is none.
TypeAt(id) ==
    IF id \in DOMAIN typelib.types THEN typelib.types[id] ELSE [kind |-> "none"]

IsStruct(type) == type.kind = "struct"

(* The C++ name: with the namespace of its program, unless that is the     *)
(* main one.  There has to be one among the programs included directly.    *)
HasPrefix(program) ==
    \/ program = typelib.program
    \/ program \in typelib.includes /\ program \in DOMAIN typelib.namespaces

Qualified(program, name) ==
    IF program = typelib.program THEN name ELSE typelib.namespaces[program] \o "::" \o name

ArgsName(service, function) == Qualified(service.program, service.name \o "_" \o function.name \o "_args")
ResultName(service, function) ==
    Qualified(service.program, service.name \o "_" \o function.name \o "_result")

(* The members of the two structs of an operation: those of its arguments, *)
(* and its value followed by its exceptions.                               *)
Success(function) == [name |-> "success", key |-> 0, type |-> function.returntype]
ArgsMembers(function) == TypeAt(function.arglist).members
ResultMembers(function) == <<Success(function)>> \o TypeAt(function.xceptions).members

(* The functions of all services, by their service and their place in it,  *)
(* and what is declared at one.                                            *)
Functions ==
    UNION {{sid} \X DOMAIN typelib.services[sid].functions : sid \in DOMAIN typelib.services}
Declaration(f) ==
    [service |-> typelib.services[f[1]], function |-> typelib.services[f[1]].functions[f[2]]]
Declarations == {Declaration(f) : f \in Functions}

(* A loop goes through a map, or the vectors in a map, from the first key. *)
FirstFunction ==
    {f \in todo : \A g \in todo : f[1] < g[1] \/ (f[1] = g[1] /\ f[2] <= g[2])}
FirstId == {id \in todo : \A other \in todo : id <= other}

\* Types that only describe arguments and exceptions of an operation.
Skip ==
    {d.function.arglist : d \in Declarations} \union {d.function.xceptions : d \in Declarations}

MaxId == Max(DOMAIN typelib.types) \* slip: the last type of the IDL
FirstFreeId == Max(DOMAIN typelib.types) + 1

Throw == phase' = "thrown" /\ UNCHANGED <<typelib, todo, dst, svc, tables>>

AddStructLookaside(id, name, members, byname, lookasides) ==
    /\ structs_by_name' = Put(byname, name, id)
    /\ struct_lookaside' = Put(lookasides, id, members)
-----------------------------------------------------------------------------
Init ==
    /\ typelib \in Typelibs
    /\ phase = "functions" /\ todo = Functions /\ dst = NoService /\ svc = NoService
    /\ nextid = FirstFreeId
    /\ structs_by_name = Nothing /\ struct_lookaside = Nothing
    /\ enum_lookaside = Nothing /\ service_lookaside = Nothing

(* One function: a struct for its result, unless it is oneway, and one for *)
(* its arguments.                                                          *)
Acceptable(d) ==
    /\ IsStruct(TypeAt(d.function.xceptions)) /\ IsStruct(TypeAt(d.function.arglist))
    /\ HasPrefix(d.service.program)

AddStructs(d) ==
    LET args == ArgsName(d.service, d.function)
        result == ResultName(d.service, d.function)
    IN  \/ /\ d.function.is_oneway
           /\ AddStructLookaside(nextid, args, ArgsMembers(d.function),
                                 structs_by_name, struct_lookaside)
           /\ nextid' = nextid + 1
        \/ /\ ~d.function.is_oneway
           /\ AddStructLookaside(nextid + 1, args, ArgsMembers(d.function),
                                 Put(structs_by_name, result, nextid),
                                 Put(struct_lookaside, nextid, ResultMembers(d.function)))
           /\ nextid' = nextid + 2

AddFunction ==
    /\ phase = "functions"
    /\ \E f \in FirstFunction :
        \/ ~Acceptable(Declaration(f)) /\ Throw
        \/ /\ Acceptable(Declaration(f))
           /\ AddStructs(Declaration(f))
           /\ todo' = todo \ {f}
           /\ UNCHANGED <<typelib, phase, dst, svc, enum_lookaside, service_lookaside>>

FunctionsDone ==
    /\ phase = "functions" /\ todo = {}
    /\ phase' = "types" /\ todo' = DOMAIN typelib.types
    /\ UNCHANGED <<typelib, dst, svc, tables>>

(* One type: structs, exceptions and enums of the IDL.                     *)
UserStructs ==
    {id \in DOMAIN typelib.types \ Skip :
        typelib.types[id].kind \in {"struct", "xception"} /\ typelib.types[id].name # ""}
Enums == {id \in DOMAIN typelib.types \ Skip : typelib.types[id].kind = "enum"}

CppName(id) == Qualified(typelib.types[id].program, typelib.types[id].name)

NeverTaken(name) == FALSE \* slip
Taken(name) == name \in DOMAIN structs_by_name
Nameable(id) == HasPrefix(typelib.types[id].program) /\ ~Taken(CppName(id))

AddType ==
    /\ phase = "types"
    /\ \E id \in FirstId :
        \/ id \in UserStructs /\ ~Nameable(id) /\ Throw
        \/ /\ id \in UserStructs /\ Nameable(id)
           /\ AddStructLookaside(id, CppName(id), typelib.types[id].members,
                                 structs_by_name, struct_lookaside)
           /\ todo' = todo \ {id}
           /\ UNCHANGED <<typelib, phase, dst, svc, nextid, enum_lookaside, service_lookaside>>
        \/ /\ id \in Enums
           /\ enum_lookaside' = Put(enum_lookaside, id, typelib.types[id].constants)
           /\ todo' = todo \ {id}
           /\ UNCHANGED <<typelib, phase, dst, svc, nextid, structs_by_name, struct_lookaside,
                          service_lookaside>>
        \/ /\ id \notin UserStructs \union Enums
           /\ todo' = todo \ {id}
           /\ UNCHANGED <<typelib, phase, dst, svc, tables>>

TypesDone ==
    /\ phase = "types" /\ todo = {}
    /\ phase' = "services" /\ todo' = DOMAIN typelib.services
    /\ UNCHANGED <<typelib, dst, svc, tables>>

(* One service: it starts with no operations, and gets its own first.      *)
BeginService ==
    /\ phase = "services" /\ svc = NoService
    /\ \E id \in FirstId :
        /\ dst' = id /\ svc' = id /\ todo' = todo \ {id}
        /\ service_lookaside' = Put(service_lookaside, typelib.services[id].name, Nothing)
    /\ UNCHANGED <<typelib, phase, nextid, structs_by_name, struct_lookaside, enum_lookaside>>

\* The structs of an operation.  It is not asked whether it has a result.
StructNames(service, function) ==
    [args |-> ArgsName(service, function), result |-> ResultName(service, function)]

\* What is written last for a name counts.
OperationsOf(service) ==
    LET fs == service.functions
        latest(name) == Max({k \in DOMAIN fs : fs[k].name = name})
    IN  [name \in {fs[k].name : k \in DOMAIN fs} |-> StructNames(service, fs[latest(name)])]

Copyable(sid) ==
    /\ sid \in DOMAIN typelib.services
    /\ typelib.services[sid].functions # <<>> => HasPrefix(typelib.services[sid].program)

(* add_service_lookasides: the operations of svc, then those of the one it *)
(* extends.                                                                *)
AddServiceLookasides ==
    /\ phase = "services" /\ svc # NoService
    /\ \/ ~Copyable(svc) /\ Throw
       \/ /\ Copyable(svc)
          /\ service_lookaside' =
                [service_lookaside EXCEPT ![typelib.services[dst].name] =
                    PutAll(@, OperationsOf(typelib.services[svc]))]
          /\ svc' = typelib.services[svc].extends
          /\ UNCHANGED <<typelib, phase, todo, dst, nextid, structs_by_name, struct_lookaside,
                         enum_lookaside>>

Finish ==
    /\ phase = "services" /\ todo = {} /\ svc = NoService
    /\ phase' = "ready"
    /\ UNCHANGED <<typelib, todo, dst, svc, tables>>

Next ==
    \/ AddFunction \/ FunctionsDone \/ AddType \/ TypesDone
    \/ BeginService \/ AddServiceLookasides \/ Finish

Spec == Init /\ [][Next]_vars
-----------------------------------------------------------------------------
(* Lookups.                                                                *)

ServiceStructNames(service, operation) == service_lookaside[service][operation]
LookupTypeId(name) == structs_by_name[name]

(* What a typedef stands for, through any number of them: typedefs lead    *)
(* from it to nothing else.                                                *)
Typedefs == {id \in DOMAIN typelib.types \ DOMAIN struct_lookaside : typelib.types[id].kind = "typedef"}
LeadsTo(id, real) ==
    \E passed \in SUBSET Typedefs :
        /\ id \in passed \union {real}
        /\ \A p \in passed : typelib.types[p].target \in passed \union {real}
Ends(id) ==
    {real \in (DOMAIN typelib.types \union DOMAIN struct_lookaside) \ Typedefs : LeadsTo(id, real)}
RealTypeId(id) == CHOOSE real \in Ends(id) : TRUE

LookupStructFields(id) == struct_lookaside[RealTypeId(id)]
LookupEnum(id) == enum_lookaside[RealTypeId(id)]
-----------------------------------------------------------------------------
(* Properties.                                                             *)

Services == Range(typelib.services)

(* The services a service gets its operations from, itself included: those *)
(* in every set that has, with a service, the one it extends.              *)
Lineage(sid) ==
    {a \in DOMAIN typelib.services :
        \A family \in SUBSET DOMAIN typelib.services :
            /\ sid \in family
            /\ \A b \in family : typelib.services[b].extends \in DOMAIN typelib.services
                                  => typelib.services[b].extends \in family
            => a \in family}

OwnedBy(sid) == {d \in Declarations : \E a \in Lineage(sid) : d.service = typelib.services[a]}

(* An IDL in which every name says what it means: no two services, though  *)
(* of different programs, have one name; no operation has the name of an   *)
(* inherited one; and no two of the structs made for operations have one,  *)
(* as those of operation c of A_b and b_c of A do.                         *)
Unambiguous ==
    /\ \A s, t \in DOMAIN typelib.services :
          typelib.services[s].name = typelib.services[t].name => s = t
    /\ \A sid \in DOMAIN typelib.services : \A d, e \in OwnedBy(sid) :
          d.function.name = e.function.name => d = e
    /\ \A d, e \in Declarations :
          /\ \/ ArgsName(d.service, d.function) = ArgsName(e.service, e.function)
             \/ ResultName(d.service, d.function) = ResultName(e.service, e.function)
             => d = e
          /\ ArgsName(d.service, d.function) # ResultName(e.service, e.function)

(* In a typelib that has been read, every operation of a service, its own  *)
(* or inherited, leads to structs with its arguments and its result, under *)
(* ids that belong to no type of the IDL; every struct and exception is    *)
(* found by its C++ name; every enum has its labels; and a typedef leads   *)
(* where what it stands for does.                                          *)
NamesFindDeclarations ==
    phase = "ready" /\ Unambiguous =>
        /\ \A sid \in DOMAIN typelib.services : \A d \in OwnedBy(sid) :
            LET names == ServiceStructNames(typelib.services[sid].name, d.function.name)
                args == LookupTypeId(names.args)
                result == LookupTypeId(names.result)
            IN  /\ args \notin DOMAIN typelib.types
                /\ LookupStructFields(args) = ArgsMembers(d.function)
                /\ ~d.function.is_oneway =>
                      /\ result \notin DOMAIN typelib.types
                      /\ LookupStructFields(result) = ResultMembers(d.function)
        /\ \A id \in UserStructs :
            /\ LookupTypeId(CppName(id)) = id
            /\ LookupStructFields(id) = typelib.types[id].members
        /\ \A id \in DOMAIN typelib.types :
            typelib.types[id].kind = "enum" => LookupEnum(id) = typelib.types[id].constants
        /\ \A id \in DOMAIN typelib.types : typelib.types[id].kind = "typedef" =>
            LET target == typelib.types[id].target
            IN  IF RealTypeId(target) \in DOMAIN enum_lookaside
                THEN LookupEnum(id) = LookupEnum(target)
                ELSE RealTypeId(target) \in UserStructs =>
                        LookupStructFields(id) = LookupStructFields(target)

(* What is wrong with a typelib that is refused.                           *)
Malformed ==
    \/ \E d \in Declarations :
          ~IsStruct(TypeAt(d.function.xceptions)) \/ ~IsStruct(TypeAt(d.function.arglist))
    \/ \E s \in Services : s.extends # NoService /\ s.extends \notin DOMAIN typelib.services

OutOfReach ==
    \/ \E d \in Declarations : ~HasPrefix(d.service.program)
    \/ \E id \in UserStructs : ~HasPrefix(typelib.types[id].program)

Twice ==
    \E id \in UserStructs :
        \/ \E d \in Declarations :
             \/ CppName(id) = ArgsName(d.service, d.function)
             \/ CppName(id) = ResultName(d.service, d.function) /\ ~d.function.is_oneway
        \/ \E other \in UserStructs \ {id} : CppName(id) = CppName(other)

(* A typelib is refused exactly if it is malformed, if it needs the        *)
(* namespace of a program that has none or is not included directly, or if *)
(* a struct of the IDL has the name of another or of the arguments or the  *)
(* result of an operation.                                                 *)
RefusedForAReason ==
    /\ phase = "thrown" => Malformed \/ OutOfReach \/ Twice
    /\ phase = "ready" => ~(Malformed \/ OutOfReach \/ Twice)
=============================================================================
