------------------------ MODULE MCPyNiceJSONProtocol ------------------------
(***************************************************************************)
(* Instances of PyNiceJSONProtocol for TLC: the operations add and zip of  *)
(* the tutorial, of which zip is oneway.                                   *)
(***************************************************************************)
EXTENDS PyNiceJSONProtocol

CONSTANTS s1, s2

Doc(flaw, name, type, seqid, body) ==
    [flaw |-> flaw, name |-> name, type |-> type, seqid |-> seqid, body |-> body]

MCDocuments ==
    {Doc("none", "add", "call", 5, s1), Doc("none", "add", "reply", 6, s2),
     Doc("none", "add", "call", 7, Odd), Doc("none", "sub", "call", 8, s1),
     Doc("none", "add", "exception", 9, s1), Doc("none", "zip", "oneway", 4, s2)}
    \union {Doc(flaw, "add", "reply", 3, s1) : flaw \in {"text", "type", "name", "seqid", "nobody"}}

Header(name, type, seqid) == [name |-> name, type |-> type, seqid |-> seqid]

MCCallerHeaders ==
    {Header("add", "call", 1), Header("add", "reply", 2), Header("zip", "oneway", 1),
     Header("sub", "exception", 2), Header("sub", "call", 1)}
=============================================================================
