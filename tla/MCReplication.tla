----------------------------- MODULE MCReplication -----------------------------
(* Small instances of Replication for TLC.                                      *)
EXTENDS Replication

\* Every view of the entities that brings the parents of what it holds.
AllViews == {v \in States : \A i \in DOMAIN v : Parent[i] = 0 \/ Parent[i] \in DOMAIN v}

NoParents == [i \in Ids |-> 0]
SecondBelowFirst == [i \in Ids |-> IF i = 2 THEN 1 ELSE 0]
Ones == [i \in Ids |-> 1]
\* Later entities weigh more; the last is larger than any budget used.
Rising == [i \in Ids |-> i]
SecondIsLarge == [i \in Ids |-> IF i = 2 THEN 9 ELSE 1]
Ids1 == {1}
Ids2 == {1, 2}
NoSlots == {}
================================================================================
