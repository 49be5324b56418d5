---------------------------- MODULE MCTypelibInit ----------------------------
(***************************************************************************)
(* Typelibs for TypelibInit: a main program 1 and programs 2 and 3, of     *)
(* which 3 is included directly, through 2, or not at all.  One service,   *)
(* or two of which the second may extend the first; a struct of the IDL    *)
(* with a name of its own, with that of an exception, or with that of the  *)
(* arguments of an operation.                                              *)
(***************************************************************************)
EXTENDS TypelibInit, TLC

CONSTANT None

Type(k, p, n, ms) == [kind |-> k, program |-> p, name |-> n, members |-> ms]
Field(n) == <<[name |-> n, key |-> 1, type |-> 1]>>

\* Types 2 and 3 describe arguments, type 4 the exceptions, of operations.
Types(first, userprogram, username) ==
    1 :> [kind |-> "base"]
    @@ 2 :> first
    @@ 3 :> Type("struct", 1, "", Field("b"))
    @@ 4 :> Type("struct", 1, "", Field("ouch"))
    @@ 5 :> Type("xception", 2, "E", Field("why"))
    @@ 6 :> [kind |-> "enum", constants |-> {"ADD", "DIVIDE"}]
    @@ 7 :> Type("struct", userprogram, username, Field("x"))
    @@ 8 :> [kind |-> "typedef", target |-> 7]
    @@ 9 :> [kind |-> "typedef", target |-> 6]
    @@ 10 :> [kind |-> "typedef", target |-> 9]

Arguments == Type("struct", 1, "", Field("a"))

Function(n, args, oneway) ==
    [name |-> n, arglist |-> args, xceptions |-> 4, returntype |-> 1, is_oneway |-> oneway]

Service(n, p, up, fs) == [name |-> n, program |-> p, extends |-> up, functions |-> fs]

\* There is no service 3.
FirstServices ==
    {Service("A", up.program, up.extends, <<Function("b_c", 2, FALSE)>>) :
        up \in {[program |-> 1, extends |-> None], [program |-> 2, extends |-> None],
                [program |-> 1, extends |-> 3]}}

\* Another service of that name, one that makes the same names for its
\* structs, or an unrelated one.
SecondServices ==
    {Service(n, p, up, <<Function(f, 3, oneway), Function("d", 2, ~oneway)>>) :
        n \in {"A", "A_b", "B"}, p \in {1, 3}, up \in {None, 1}, f \in {"c", "b_c"},
        oneway \in BOOLEAN}

AllServices ==
    {1 :> s : s \in FirstServices} \union {1 :> s @@ 2 :> t : s \in FirstServices, t \in SecondServices}

AllTypes ==
    {Types(Arguments, p, n) : p \in {1, 2, 3}, n \in {"", "S", "E", "A_b_c_args"}}
    \union {Types([kind |-> "base"], 1, "S")}

AllNamespaces ==
    {2 :> "two" @@ 3 :> "three", 2 :> "two" @@ 3 :> "two", 2 :> "two"}

MCTypelibs ==
    [program: {1}, includes: {{2}, {2, 3}}, namespaces: AllNamespaces,
     types: AllTypes, services: AllServices]
==============================================================================
