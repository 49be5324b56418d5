----------------------- MODULE MCOCamlNiceJSONProtocol -----------------------
(***************************************************************************)
(* Instances of OCamlNiceJSONProtocol for TLC: the operations add and zip  *)
(* of the tutorial, of which zip is oneway.                                *)
(***************************************************************************)
EXTENDS OCamlNiceJSONProtocol

CONSTANTS s1, s2

Doc(flaw, name, type, seqid, body) ==
    [flaw |-> flaw, name |-> name, type |-> type, seqid |-> seqid, body |-> body]

MCDocuments ==
    {Doc("none", "add", "call", 5, s1), Doc("none", "add", "reply", 6, s2),
     Doc("none", "zip", "oneway", 4, s2), Doc("none", "sub", "exception", 9, Partial),
     Doc("none", "add", "call", 7, Odd), Doc("none", "add", "call", 7, Raw),
     Doc("none", "add", "reply", 7, Misfit),
     Doc("none", "sub", "call", 8, s1), Doc("none", "zip", "reply", 8, s1),
     Doc("member", "add", "reply", 3, s1), Doc("text", "add", "reply", 3, s1)}

Header(name, type, seqid) == [name |-> name, type |-> type, seqid |-> seqid]

MCCallerHeaders ==
    {Header("add", "call", 1), Header("zip", "oneway", 2), Header("zip", "reply", 1),
     Header("sub", "exception", 2), Header("sub", "call", 1)}
=============================================================================
