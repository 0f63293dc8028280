------------------------------ MODULE PeerGhosts -------------------------------
(* What one peer has been sent and has acknowledged, entity by entity, and the  *)
(* snapshot the server builds from it.  Sizes are in the unit of Budget; the    *)
(* size of a record stands for every record of its entity.                      *)
EXTENDS SnapshotCodec, SequencesExt

CONSTANTS Parent,       \* Parent[id]: the replicated parent of an entity, or 0
          Weight,       \* Weight[id]: what NetInterest weighs a peer's view of it (scaled to integers)
          MaxWeight,    \* the weight of an entity the peer owns
          Self,         \* the peer the ghosts belong to
          Predicting,   \* the game has a prediction channel
          RecordSize,   \* RecordSize[id]: the bytes of its record
          RemovalSize, Budget,
          MaxEntries    \* kMaxSnapshotEntries

ASSUME TreeAssumption == \A i \in Ids : Parent[i] = 0 \/ Parent[i] \in Ids \ {i}
ASSUME SizesAssumption ==
  /\ \A i \in Ids : RecordSize[i] \in Nat \ {0} /\ Weight[i] \in 1 .. MaxWeight
  /\ RemovalSize \in Nat \ {0} /\ Budget \in Nat /\ MaxEntries \in Nat
  /\ MaxWeight \in Nat /\ Predicting \in BOOLEAN /\ Self \in Peers

NoContent == [owner |-> NoOwner, slot |-> [s \in Slots |-> Absent]]

\* PeerGhosts::Ghost. max_since is derived: it always is the latest of the since fields.
NewGhost == [latest |-> NoContent, written |-> FALSE, since |-> [s \in Slots |-> 0], ownerSince |-> 0,
             confirmed |-> 0, accumulator |-> 0, leaving |-> FALSE, leaveSince |-> 0, lastListed |-> 0]

MaxSince(g) == Max({g.ownerSince} \cup {g.since[s] : s \in Slots})

\* Mutant of is_clean: what was sent counts as acknowledged.
is_cleanWhenSent(g, current) == g.written /\ g.latest = current

is_clean(g, current) == g.written /\ g.confirmed >= MaxSince(g) /\ g.latest = current

\* Mutant of DirtySlots: the value alone decides, not the acknowledgements.
DirtySlotsByValue(g, current) == {s \in Slots : g.latest.slot[s] # current.slot[s]}

\* The slots `current` needs written: new values, and values no acknowledged snapshot carried.
DirtySlots(g, current) == {s \in Slots : g.confirmed < g.since[s] \/ g.latest.slot[s] # current.slot[s]}

\* Mutant of dirty_write: the owner is only written when it changes.
dirty_writeOwnerOnce(g, current) ==
  LET dirty == DirtySlots(g, current) IN
  [owner |-> IF ~g.written \/ g.latest.owner # current.owner THEN current.owner ELSE NoOwner,
   changed |-> [s \in {x \in dirty : current.slot[x] # Absent} |-> current.slot[s]],
   lost |-> {s \in dirty : current.slot[s] = Absent}]

dirty_write(g, current) ==
  LET dirty == DirtySlots(g, current) IN
  [owner |-> IF ~g.written \/ g.latest.owner # current.owner \/ g.confirmed < g.ownerSince
             THEN current.owner ELSE NoOwner,
   changed |-> [s \in {x \in dirty : current.slot[x] # Absent} |-> current.slot[s]],
   lost |-> {s \in dirty : current.slot[s] = Absent}]

commit_write(g, current, tick) ==
  [g EXCEPT !.since = [s \in Slots |-> IF g.latest.slot[s] # current.slot[s] THEN tick ELSE g.since[s]],
            !.ownerSince = IF ~g.written \/ g.latest.owner # current.owner THEN tick ELSE @,
            !.latest = current, !.written = TRUE, !.accumulator = 0]

--------------------------------------------------------------------------------
\* The walk over the table and the relevant set: what left starts leaving (a ghost the peer never
\* heard of is dropped), what came back starts over, what is new gets a ghost.
Brought(ghosts, rel, tick) ==
  LET stays == {i \in DOMAIN ghosts \ DOMAIN rel : ghosts[i].written}
      Leaves(g) == IF g.leaving THEN g
                   ELSE [g EXCEPT !.leaving = TRUE, !.leaveSince = tick, !.lastListed = 0]
      Returns(g) == IF g.leaving
                    THEN [g EXCEPT !.leaving = FALSE, !.since = [s \in Slots |-> tick],
                                   !.ownerSince = tick]
                    ELSE g
      Seen(i) == LET g == IF i \in DOMAIN ghosts THEN Returns(ghosts[i]) ELSE NewGhost
                 IN IF is_clean(g, rel[i]) THEN [g EXCEPT !.accumulator = 0] ELSE g
  IN [i \in stays \cup DOMAIN rel |-> IF i \in DOMAIN rel THEN Seen(i) ELSE Leaves(ghosts[i])]

Candidates(table, rel) == {i \in DOMAIN rel : ~is_clean(table[i], rel[i])}
Leaving(table) == {i \in DOMAIN table : table[i].leaving}

Less(a, b) == IF a > b THEN a - b ELSE 0
TotalSize(S) == FoldSet(LAMBDA i, n : n + RecordSize[i], 0, S)

Mandatory(rel) == {i \in DOMAIN rel : Predicting /\ rel[i].owner = Self}
WeightOf(rel, i) == IF rel[i].owner = Self THEN MaxWeight ELSE Weight[i]

\* Mutant of Chain: a child goes out alone.
ChainAlone(table, cands, selected, first) == {first}

\* The candidate and the ancestors that go out with it: upwards while the entity was never written
\* and its parent is a candidate not selected yet.
Chain(table, cands, selected, first) ==
  LET up[n \in 0 .. Cardinality(Ids)] ==
        IF n = 0 THEN first
        ELSE LET i == up[n - 1] IN
             IF i = 0 THEN 0
             ELSE IF table[i].written \/ Parent[i] \notin cands \ selected THEN 0
             ELSE Parent[i]
  IN {up[n] : n \in DOMAIN up} \cap cands

\* Mutant of Fill: the top of the order has to fit, too.
FillWhenItFits(table, cands, acc, first, force) ==
  LET chain == Chain(table, cands, acc.selected, first)
      cost == TotalSize(chain)
  IN IF first \in acc.selected \/ cost > acc.remaining THEN acc
     ELSE [selected |-> acc.selected \cup chain, remaining |-> Less(acc.remaining, cost)]

\* One step of the fill: the chain of the next candidate, if it still fits or is forced.
Fill(table, cands, acc, first, force) ==
  LET chain == Chain(table, cands, acc.selected, first)
      cost == TotalSize(chain)
  IN IF first \in acc.selected \/ (~force /\ cost > acc.remaining) THEN acc
     ELSE [selected |-> acc.selected \cup chain, remaining |-> Less(acc.remaining, cost)]

\* What one message can count: the lowest ids.
Capped(S) == {i \in S : Cardinality({j \in S : j < i}) < MaxEntries}

\* The priority order of the candidates that wait: what accumulated most, then the lower id.
ByPriority(table, waiting) ==
  LET Before(a, b) == \/ table[a].accumulator > table[b].accumulator
                      \/ table[a].accumulator = table[b].accumulator /\ a < b
  IN [n \in 1 .. Cardinality(waiting) |->
        CHOOSE i \in waiting : Cardinality({j \in waiting : Before(j, i)}) = n - 1]

\* The n removals least recently listed.
LongestUnlisted(table, n) ==
  LET Before(a, b) == \/ table[a].lastListed < table[b].lastListed
                      \/ table[a].lastListed = table[b].lastListed /\ a < b
  IN {i \in Leaving(table) : Cardinality({j \in Leaving(table) : Before(j, i)}) < n}

\* What build selects, and which removals it lists: all of it when it fits, otherwise the mandatory
\* entities, the top of the priority order, some removals, and then whatever still fits in that order.
Selection(table, rel) ==
  LET cands == Candidates(table, rel)
      leaving == Leaving(table)
      must == cands \cap Mandatory(rel)
      waiting == cands \ must
      grown == [i \in DOMAIN table |->
                  IF i \in waiting
                  THEN [table[i] EXCEPT !.accumulator = @ + WeightOf(rel, i)] ELSE table[i]]
      order == ByPriority(grown, waiting)
      start == [selected |-> must, remaining |-> Less(Budget, TotalSize(must))]
      top == IF waiting = {} THEN start ELSE Fill(grown, cands, start, order[1], TRUE)
      room == IF Cardinality(waiting) > 1 THEN top.remaining \div 4 ELSE top.remaining
      count == Min({Cardinality(leaving), Max({room \div RemovalSize, 1})})
      \* after the first k of the order; the removals come after the top
      filled[k \in 0 .. Cardinality(waiting)] ==
        IF k = 0 THEN start
        ELSE IF k = 1 THEN [top EXCEPT !.remaining = Less(@, count * RemovalSize)]
        ELSE Fill(grown, cands, filled[k - 1], order[k], FALSE)
  IN IF Cardinality(leaving) * RemovalSize + TotalSize(cands) <= Budget
     THEN [table |-> table, selected |-> cands, listed |-> Capped(leaving)]
     ELSE [table |-> grown, selected |-> filled[Cardinality(waiting)].selected,
           listed |-> LongestUnlisted(table, Min({count, MaxEntries}))]

\* PeerGhosts::build at `tick`: the snapshot and the new table.
build(ghosts, rel, tick) ==
  LET choice == Selection(Brought(ghosts, rel, tick), rel)
      table == choice.table
      written == Capped(choice.selected)
  IN [delta |-> [removed |-> choice.listed,
                 records |-> [i \in written |-> dirty_write(table[i], rel[i])]],
      ghosts |-> [i \in DOMAIN table |->
                    IF i \in written THEN commit_write(table[i], rel[i], tick)
                    ELSE IF i \in choice.listed THEN [table[i] EXCEPT !.lastListed = tick]
                    ELSE table[i]]]

\* The snapshots still waiting for an acknowledgement after the window moved to `tick`.
InWindow(sent, tick) == {t \in sent : t + Window > tick}

\* Mutant of Confirmed: the acknowledgement of the very tick an entity left at does not count.
ConfirmedOneLess(ghosts, d, tick) ==
  LET gone == {i \in d.removed \cap DOMAIN ghosts : ghosts[i].leaving /\ tick > ghosts[i].leaveSince}
  IN [i \in DOMAIN ghosts \ gone |->
        IF i \in DOMAIN d.records THEN [ghosts[i] EXCEPT !.confirmed = Max({@, tick})] ELSE ghosts[i]]

\* PeerGhosts::acknowledge of a snapshot in the window: what it wrote is confirmed, what it removed
\* for good is forgotten.
Confirmed(ghosts, d, tick) ==
  LET gone == {i \in d.removed \cap DOMAIN ghosts : ghosts[i].leaving /\ tick >= ghosts[i].leaveSince}
  IN [i \in DOMAIN ghosts \ gone |->
        IF i \in DOMAIN d.records THEN [ghosts[i] EXCEPT !.confirmed = Max({@, tick})] ELSE ghosts[i]]
================================================================================
