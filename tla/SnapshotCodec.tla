----------------------------- MODULE SnapshotCodec -----------------------------
(* Entity snapshots and what a snapshot delta does to a state.  A state is a    *)
(* function from the ids of the entities it holds to their content; encoding    *)
(* and decoding keep the fields and are left out.                               *)
EXTENDS Naturals, FiniteSets

CONSTANTS Ids,      \* NetIds, numbers: tables are sorted by them
          Slots,    \* replication slots
          Values,   \* blobs a slot may hold
          Absent,   \* the entity does not have the component
          Peers,    \* possible owners
          NoOwner,  \* a record without the owner field
          Window    \* kSnapshotWindowTicks

ASSUME IdsAssumption == Ids \subseteq Nat \ {0} /\ IsFiniteSet(Ids)
ASSUME ContentAssumption == Absent \notin Values /\ NoOwner \notin Peers
ASSUME WindowAssumption == Window \in Nat \ {0}

Contents == [owner : Peers, slot : [Slots -> Values \cup {Absent}]]
Records == [owner : Peers \cup {NoOwner}, changed : UNION {[S -> Values] : S \in SUBSET Slots},
            lost : SUBSET Slots]
Deltas == [removed : SUBSET Ids, records : UNION {[S -> Records] : S \in SUBSET Ids}]
States == UNION {[S -> Contents] : S \in SUBSET Ids}

Holds(state, id) == id \in DOMAIN state

\* The records of d that find their entity, or bring the owner a new one needs.
Applicable(state, d) ==
  {i \in DOMAIN d.records : d.records[i].owner # NoOwner \/ i \in DOMAIN state \ d.removed}

\* apply_snapshot with strict: the whole delta is refused when a record does not apply.
Fits(state, d) == Applicable(state, d) = DOMAIN d.records

\* apply_snapshot: removals first, then the records; one that does not apply is skipped.
Apply(state, d) ==
  LET kept == DOMAIN state \ d.removed
      written == Applicable(state, d)
      Merged(i) ==
        LET r == d.records[i] IN
        [owner |-> IF r.owner # NoOwner THEN r.owner ELSE state[i].owner,
         slot |-> [s \in Slots |-> IF s \in DOMAIN r.changed THEN r.changed[s]
                                   ELSE IF s \in r.lost \/ i \notin kept THEN Absent
                                   ELSE state[i].slot[s]]]
  IN [i \in kept \cup written |-> IF i \in written THEN Merged(i) ELSE state[i]]
================================================================================
