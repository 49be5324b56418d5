----------------------------- MODULE NiceJSONSkip -----------------------------
(***************************************************************************)
(* skip2json (src/lib/cpp/NiceJSON.cpp 765-871), which protocol2json calls *)
(* for the fields that its typelib does not know, when it is permissive:   *)
(* what can be said of a value whose type is not known.                    *)
(***************************************************************************)
EXTENDS NiceJSONCodec

RECURSIVE Skip2json(_)
Skip2json(w) ==
    LET entries == SetToSeq(w.val)
        Id(n) == CHOOSE i \in DOMAIN w.val : Decimal[i] = n
    IN  CASE w.ttype = "T_BOOL" -> Json("boolean", w.val)
          [] w.ttype \in {"T_I08", "T_I16", "T_I32", "T_DOUBLE"} -> Json("number", w.val)
          [] w.ttype = "T_I64" -> Json("string", Decimal[w.val])
          [] w.ttype = "T_STRING" -> Json("string", w.val)
          [] w.ttype = "T_STRUCT" ->
                Json("object", [n \in {Decimal[i] : i \in DOMAIN w.val} |-> Skip2json(w.val[Id(n)])])
          [] w.ttype = "T_MAP" ->
                Json("array", [i \in DOMAIN entries |->
                                  Pair(Skip2json(entries[i][1]), Skip2json(entries[i][2]))])
          [] w.ttype \in {"T_LIST", "T_SET"} -> Json("array", [i \in DOMAIN w.val |-> Skip2json(w.val[i])])
=============================================================================
