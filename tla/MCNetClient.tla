------------------------------ MODULE MCNetClient ------------------------------
(* Small instances of NetClient for TLC.                                        *)
EXTENDS NetClient, TLC

Ids3 == 1 .. 3
Ids4 == 1 .. 4
Inner == {1}
NoIds == {}

\* Nobody more than two deep; the parent of one entity may not be replicated.
Forests ==
  LET ParentIn(s, i) == IF i \in DOMAIN s THEN s[i] ELSE Nobody
  IN {s \in UNION {[S -> Ids3 \cup {Nobody, Unreplicated}] : S \in SUBSET Ids3} :
        \A i \in DOMAIN s :
          /\ s[i] \in DOMAIN s \cup {Nobody} \/ (i = 2 /\ s[i] = Unreplicated)
          /\ ParentIn(s, ParentIn(s, ParentIn(s, i))) = Nobody
          /\ s[i] # i}

\* Every parent is replicated.
Replicated == {s \in Forests : Unreplicated \notin Range(s)}

\* From the first of these to the second, 1 may hang below 4 only when 2 has left it.
TooDeepFirst == {<<Nobody, 1, Nobody, 3>>, <<4, Nobody, Nobody, 3>>}

SomeForests == Forests \cup TooDeepFirst
================================================================================
