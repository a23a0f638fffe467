------------------------------ MODULE TagSet ------------------------------
(***************************************************************************)
(* What a fragment hashtable promises its callers, without its slots: it   *)
(* is a set of tags.  An entry can be added and removed, all the entries   *)
(* of a range can be removed, and a table that has a maximal size, which a *)
(* cache of another table may have, may forget all it holds, also when it  *)
(* is about to take a new entry.                                           *)
(***************************************************************************)
EXTENDS Naturals

CONSTANTS Tag,      \* the application addresses that are keys
          Bound     \* the ends of the ranges that are removed

VARIABLE tags

Init == tags = {}

Add(t) == t \notin tags /\ tags' = tags \cup {t}

AddAfresh(t) == t \notin tags /\ tags' = {t}

Remove(t) == t \in tags /\ tags' = tags \ {t}

RemoveRange(lo, hi) == tags' = {t \in tags : t < lo \/ t >= hi}

Forget == tags' = {}

Next == \/ \E t \in Tag : Add(t) \/ AddAfresh(t) \/ Remove(t)
        \/ \E lo, hi \in Bound : RemoveRange(lo, hi)
        \/ Forget

Spec == Init /\ [][Next]_tags
===========================================================================
