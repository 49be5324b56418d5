------------------------- MODULE MCNiceJSONProtocol -------------------------
(* Small instances of NiceJSONProtocol for TLC: one twoway operation "foo", *)
(* one oneway operation "hoo", one name the service does not have.          *)
EXTENDS NiceJSONProtocol

CONSTANTS foo, hoo, other, v

Doc(name, type, seqid, body, flaw) ==
    [name |-> name, type |-> type, seqid |-> seqid, body |-> body, flaw |-> flaw]

Header(name, type, seqid) == [name |-> name, type |-> type, seqid |-> seqid]

\* Every kind of message, and one for a name the service does not have.
AllHeaders ==
    {Header(foo, "call", 1), Header(foo, "reply", -4), Header(foo, "exception", 3),
     Header(hoo, "oneway", 1), Header(hoo, "reply", 1), Header(other, "call", 1)}

\* Those of a client, with the answer of a server to it.
TurnHeaders == {Header(foo, "call", 1), Header(foo, "exception", 2)}

AllPieces == Pieces \ {Malformed}
TurnPieces == {v, Stop}

\* int32_t has three bits, -4 .. 3: a seqid of 9 needs the conversion.

\* Documents a peer with the same typelib sends, and three it cannot agree on.
ValidDocuments ==
    {Doc(foo, "reply", 1, <<v>>, "none"),
     Doc(foo, "exception", 9, <<>>, "incomplete"),
     Doc(foo, "call", 2, <<v>>, "schema"),
     Doc(other, "call", 2, <<>>, "none"),
     Doc(hoo, "reply", 1, <<>>, "none"),
     Doc(foo, "call", 2, <<>>, "seqid")}

\* Documents of a peer that fails, or that is no TNiceJSONProtocol at all.
BrokenDocuments ==
    {Doc(foo, "reply", 1, <<v>>, "none"),
     Doc(foo, "call", 2, <<v>>, "syntax"),
     Doc(foo, "call", 2, <<v>>, "schema"),
     Doc(foo, "call", 2, <<>>, "truncated"),
     Doc(foo, "call", 2, <<>>, "number")}
=============================================================================
