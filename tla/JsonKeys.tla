------------------------------ MODULE JsonKeys ------------------------------
(* The keys of a JSON object in the order in which the library visits them. *)
EXTENDS Integers, Sequences

(* std::map keeps the keys in the order of their bytes.                    *)
Precedes(s, t) ==
    \/ Len(s) < Len(t) /\ SubSeq(t, 1, Len(s)) = s
    \/ \E i \in DOMAIN s \intersect DOMAIN t :
          s[i] < t[i] /\ \A k \in 1 .. (i - 1) : s[k] = t[k]

RECURSIVE Sorted(_)
Sorted(keys) ==
    IF keys = {} THEN <<>>
    ELSE LET first == CHOOSE k \in keys : \A other \in keys \ {k} : Precedes(k, other)
         IN  <<first>> \o Sorted(keys \ {first})

Keys(object) == Sorted(DOMAIN object)
=============================================================================
