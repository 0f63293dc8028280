--------------------------- MODULE Replication_proof ---------------------------
(* Proofs about Replication, for all ids, slots, values and views, any window,  *)
(* any budget and any number of sends.                                          *)
EXTENDS Replication, FiniteSetTheorems, TLAPS

--------------------------------------------------------------------------------
(* What the messages say.  n is the last tick sent, d what was sent (net), a    *)
(* what the client acknowledged (acks), so has or had.                          *)

Writes(r, s, v) == IF s \in DOMAIN r.changed THEN r.changed[s] = v ELSE (s \in r.lost /\ v = Absent)
Mentions(r, s) == s \in DOMAIN r.changed \cup r.lost

\* After the removal the client took at b, or the start, no record of i was sent.
GoneSince(b, i, n, d) ==
  /\ b <= n /\ (b = 0 \/ i \in d[b].removed)
  /\ \A w \in 1 .. n : w >= b => i \notin DOMAIN d[w].records
Gone(i, n, d, a) == \E b \in a \cup {0} : GoneSince(b, i, n, d)

\* From tick f on nothing sent removes i or gives it another owner than o.
OwnerKept(o, i, f, n, d) ==
  \A w \in f .. n : /\ i \notin d[w].removed
                    /\ i \in DOMAIN d[w].records => d[w].records[i].owner \in {o, NoOwner}

\* The client took a record that made o the owner, and nothing after it says otherwise.
OwnerIs(o, i, n, d, a) ==
  \E u \in a : /\ u <= n /\ i \in DOMAIN d[u].records /\ d[u].records[i].owner = o
               /\ OwnerKept(o, i, u + 1, n, d)

\* A record without the owner was sent only when the client had taken one with it.
OwnerBacked(i, f, n, d, a) ==
  \A w \in f .. n : i \in DOMAIN d[w].records =>
     \/ d[w].records[i].owner # NoOwner
     \/ \E u \in a : u \in f .. w - 1 /\ i \in DOMAIN d[u].records /\ d[u].records[i].owner # NoOwner

\* The same for a slot and its value.
SlotKept(v, s, i, f, n, d) ==
  \A w \in f .. n : /\ i \notin d[w].removed
                    /\ i \in DOMAIN d[w].records /\ Mentions(d[w].records[i], s) =>
                         Writes(d[w].records[i], s, v)
SlotWritten(v, s, i, n, d, a) ==
  \E u \in a : /\ u <= n /\ i \in DOMAIN d[u].records /\ Writes(d[u].records[i], s, v)
               /\ SlotKept(v, s, i, u + 1, n, d)
SlotBacked(s, i, f, n, d, a) ==
  \A w \in f .. n : i \in DOMAIN d[w].records =>
     \/ Mentions(d[w].records[i], s)
     \/ \E u \in a : u \in f .. w - 1 /\ i \in DOMAIN d[u].records /\ Mentions(d[u].records[i], s)

\* The client never had the slot since it had no entity: no record since then gave it a value.
SlotNeverSet(s, i, n, d, a) ==
  \E b \in a \cup {0} : /\ b <= n /\ (b = 0 \/ i \in d[b].removed)
                        /\ \A w \in 1 .. n : w >= b /\ i \in DOMAIN d[w].records =>
                             s \notin DOMAIN d[w].records[i].changed
SlotIs(v, s, i, n, d, a) ==
  SlotWritten(v, s, i, n, d, a) \/ (v = Absent /\ SlotNeverSet(s, i, n, d, a))

--------------------------------------------------------------------------------
(* The invariant.                                                               *)

\* Nothing was sent of an entity whose ghost was not written.
UnwrittenInv(g, i, n, d, a) ==
  ~g.written => /\ ~g.leaving /\ g.latest = NoContent /\ g.ownerSince = 0
                /\ g.since = [s \in Slots |-> 0] /\ Gone(i, n, d, a)

\* Since an entity leaves no record of it is sent.
LeavingInv(g, i, n, d) ==
  g.leaving => /\ g.written /\ g.latest \in Contents /\ g.leaveSince > 0
               /\ \A w \in g.leaveSince .. n : i \notin DOMAIN d[w].records

\* What was sent of an entity since the ticks the ghost names agrees with its latest.
PresentInv(g, i, n, d, a) ==
  g.written /\ ~g.leaving =>
    /\ g.latest \in Contents /\ g.ownerSince > 0
    /\ OwnerKept(g.latest.owner, i, g.ownerSince, n, d) /\ OwnerBacked(i, g.ownerSince, n, d, a)
    /\ \A s \in Slots :
         IF g.since[s] = 0 THEN g.latest.slot[s] = Absent /\ SlotNeverSet(s, i, n, d, a)
         ELSE SlotKept(g.latest.slot[s], s, i, g.since[s], n, d) /\ SlotBacked(s, i, g.since[s], n, d, a)

\* Confirmed is a tick of a record of the entity the client took.
ConfirmedInv(g, i, d, a) ==
  g.confirmed = 0 \/ (g.confirmed \in a /\ i \in DOMAIN d[g.confirmed].records)

GhostInv(g, i, n, d, a) ==
  UnwrittenInv(g, i, n, d, a) /\ LeavingInv(g, i, n, d) /\ PresentInv(g, i, n, d, a) /\ ConfirmedInv(g, i, d, a)

\* Every ghost fits what was sent, and an entity without one is gone.
TableInv(table, n, d, a) ==
  \A i \in Ids : IF i \in DOMAIN table THEN GhostInv(table[i], i, n, d, a) ELSE Gone(i, n, d, a)

\* A record without the owner finds the entity.
RecordInv(t, d, a) ==
  \A i \in DOMAIN d[t].records :
    d[t].records[i].owner = NoOwner => i \notin d[t].removed /\ \E o \in Peers : OwnerIs(o, i, t - 1, d, a)

\* A client that takes a complete snapshot holds its view, of which the records of the snapshot may
\* be a part.
ViewInv(view, t, d, a) ==
  \A i \in Ids :
    IF i \in DOMAIN view
    THEN /\ OwnerIs(view[i].owner, i, t, d, a)
         /\ \A s \in Slots : SlotIs(view[i].slot[s], s, i, t, d, a)
    ELSE Gone(i, t, d, a)

\* The ghosts after the last send, when it deferred nothing.
LastInv(table, view, t, d) ==
  \A i \in Ids :
    IF i \in DOMAIN view
    THEN /\ i \in DOMAIN table /\ table[i].written /\ ~table[i].leaving /\ table[i].latest = view[i]
         /\ \/ i \in DOMAIN d[t].records
            \/ is_clean(table[i], view[i])
    ELSE i \in DOMAIN table => table[i].leaving /\ i \in d[t].removed

\* The client's states as if the window were without end: everything it took, in the order of ticks.
Whole(d, a) == [entries |-> [t \in a |-> d[t]], base |-> NoState]
Ideal(n, d, a) == StateAt(Whole(d, a), n)

Floor(latest) == IF latest >= Window THEN latest - Window ELSE 0

\* The buffer holds what it took above the floor, and the state of what is below as its base.
BufferInv(buf, d, a) ==
  /\ \A t \in a : t <= newest(buf)
  /\ buf = [entries |-> [t \in {u \in a : u > Floor(newest(buf))} |-> d[t]],
            base |-> Ideal(Floor(newest(buf)), d, a)]

\* A ghost, with no tick after n.
Ghosts(n) ==
  [latest : Contents \cup {NoContent}, written : BOOLEAN, since : [Slots -> 0 .. n], ownerSince : 0 .. n,
   confirmed : 0 .. n, accumulator : Nat, leaving : BOOLEAN, leaveSince : 0 .. n, lastListed : 0 .. n]
Tables(n) == UNION {[S -> Ghosts(n)] : S \in SUBSET Ids}

IInv ==
  /\ TypeOK /\ ghosts \in Tables(tick)
  /\ TableInv(ghosts, tick, net, acks)
  /\ \A t \in 1 .. tick : RecordInv(t, net, acks)
  /\ \A t \in 1 .. tick : history[t].complete => ViewInv(history[t].view, t, net, acks \cup {t})
  /\ tick > 0 /\ history[tick].complete => LastInv(ghosts, history[tick].view, tick, net)
  /\ BufferInv(buffer, net, acks)
--------------------------------------------------------------------------------
(* Numbers and recursion.                                                       *)

\* Induction, for the set of the numbers it is about.
LEMMA InductionOn ==
  ASSUME NEW S, 0 \in S, \A n \in Nat : n \in S => n + 1 \in S
  PROVE  Nat \subseteq S
<1>1. SUFFICES ASSUME Nat \ S # {} PROVE FALSE
  OBVIOUS
<1>2. PICK x \in Nat \ S : \A y \in Nat \ S : ~(<<y, x>> \in OpToRel(<, Nat))
  BY <1>1, NatLessThanWellFounded, WFMin
<1>3. \A y \in Nat \ S : ~(y < x)
  BY <1>2 DEF OpToRel
<1>4. x \in Nat /\ x # 0
  BY <1>2
<1>5. x - 1 \in Nat /\ x - 1 < x /\ (x - 1) + 1 = x
  BY <1>4
<1>6. x - 1 \in S
  BY <1>3, <1>5
<1>7. (x - 1) + 1 \in S
  BY <1>5, <1>6
<1> QED
  BY <1>2, <1>5, <1>7

\* A set of numbers that is not empty and is bounded has a maximum.
LEMMA HasMax ==
  ASSUME NEW S \in SUBSET Nat, S # {}, NEW n \in Nat, \A x \in S : x <= n
  PROVE  \E m \in S : \A x \in S : x <= m
<1> DEFINE Bounds == {k \in Nat : (\A x \in S : x <= k) => \E m \in S : \A x \in S : x <= m}
<1>1. 0 \in Bounds
  <2> SUFFICES ASSUME \A x \in S : x <= 0 PROVE \E m \in S : \A x \in S : x <= m
    OBVIOUS
  <2> PICK m \in S : TRUE
    OBVIOUS
  <2> \A x \in S : x <= m
    OBVIOUS
  <2> QED
    OBVIOUS
<1>2. ASSUME NEW k \in Nat, k \in Bounds PROVE k + 1 \in Bounds
  <2> SUFFICES ASSUME \A x \in S : x <= k + 1 PROVE \E m \in S : \A x \in S : x <= m
    OBVIOUS
  <2>1. CASE k + 1 \in S
    BY <2>1
  <2>2. CASE k + 1 \notin S
    <3> \A x \in S : x <= k
      BY <2>2
    <3> QED
      BY <1>2
  <2> QED
    BY <2>1, <2>2
<1>3. Nat \subseteq Bounds
  <2> HIDE DEF Bounds
  <2> QED
    BY <1>1, <1>2, InductionOn
<1> QED
  BY <1>3

\* The function of the states up to a tick, and that it is the only one.
IsStates(f, buf, n) ==
  f = [k \in 0 .. n |-> IF k = 0 THEN buf.base
                        ELSE IF k \in DOMAIN buf.entries THEN Apply(f[k - 1], buf.entries[k])
                        ELSE f[k - 1]]

LEMMA StatesExist ==
  ASSUME NEW buf, NEW n \in Nat
  PROVE  \E f : IsStates(f, buf, n)
<1> DEFINE S == {k \in Nat : \E f : IsStates(f, buf, k)}
<1>1. 0 \in S
  <2> DEFINE f == [k \in 0 .. 0 |-> buf.base]
  <2>1. f = [k \in 0 .. 0 |-> IF k = 0 THEN buf.base
                        ELSE IF k \in DOMAIN buf.entries THEN Apply(f[k - 1], buf.entries[k])
                        ELSE f[k - 1]]
    OBVIOUS
  <2>2. IsStates(f, buf, 0)
    BY <2>1 DEF IsStates
  <2> QED
    BY <2>2
<1>2. ASSUME NEW m \in Nat, m \in S PROVE m + 1 \in S
  <2>1. PICK f : IsStates(f, buf, m)
    BY <1>2
  <2> DEFINE Then(prev, k) == IF k \in DOMAIN buf.entries THEN Apply(prev, buf.entries[k]) ELSE prev
  <2>2. f = [k \in 0 .. m |-> IF k = 0 THEN buf.base ELSE Then(f[k - 1], k)]
    BY <2>1 DEF IsStates
  <2> HIDE DEF Then
  <2> DEFINE g == [k \in 0 .. m + 1 |-> IF k = m + 1 THEN Then(f[m], k) ELSE f[k]]
  <2>3. \A k \in 0 .. m : f[k] = IF k = 0 THEN buf.base ELSE Then(f[k - 1], k)
    BY <2>2
  <2>4. \A k \in 0 .. m + 1 : g[k] = IF k = 0 THEN buf.base ELSE Then(g[k - 1], k)
    <3> TAKE k \in 0 .. m + 1
    <3>1. CASE k = m + 1
      BY <3>1
    <3>2. CASE k \in 0 .. m /\ k # m + 1
      <4>1. g[k] = f[k]
        BY <3>2
      <4>2. k # 0 => g[k - 1] = f[k - 1]
        BY <3>2
      <4> QED
        BY <2>3, <3>2, <4>1, <4>2
    <3> QED
      BY <3>1, <3>2
  <2>5. g = [k \in 0 .. m + 1 |-> IF k = 0 THEN buf.base ELSE Then(g[k - 1], k)]
    BY <2>4
  <2>6. IsStates(g, buf, m + 1)
    <3> HIDE DEF g
    <3> QED
      BY <2>5 DEF IsStates, Then
  <2> QED
    BY <2>6
<1>3. Nat \subseteq S
  <2> HIDE DEF S
  <2> QED
    BY <1>1, <1>2, InductionOn
<1> QED
  BY <1>3

LEMMA StatesAgree ==
  ASSUME NEW buf, NEW n \in Nat, NEW m \in Nat, NEW f, NEW g, IsStates(f, buf, n), IsStates(g, buf, m)
  PROVE  \A k \in Nat : k <= n /\ k <= m => f[k] = g[k]
<1> DEFINE S == {k \in Nat : k <= n /\ k <= m => f[k] = g[k]}
<1> DEFINE Then(prev, k) == IF k \in DOMAIN buf.entries THEN Apply(prev, buf.entries[k]) ELSE prev
<1>1. f = [k \in 0 .. n |-> IF k = 0 THEN buf.base ELSE Then(f[k - 1], k)]
  BY DEF IsStates
<1>2. g = [k \in 0 .. m |-> IF k = 0 THEN buf.base ELSE Then(g[k - 1], k)]
  BY DEF IsStates
<1> HIDE DEF Then
<1>3. 0 \in S
  <2>1. f[0] = buf.base
    BY <1>1
  <2>2. g[0] = buf.base
    BY <1>2
  <2> QED
    BY <2>1, <2>2
<1>4. ASSUME NEW k \in Nat, k \in S PROVE k + 1 \in S
  <2> SUFFICES ASSUME k + 1 <= n, k + 1 <= m PROVE f[k + 1] = g[k + 1]
    OBVIOUS
  <2>1. k + 1 \in 0 .. n /\ k + 1 \in 0 .. m /\ k + 1 # 0 /\ (k + 1) - 1 = k /\ k <= n /\ k <= m
    OBVIOUS
  <2>2. f[k + 1] = Then(f[(k + 1) - 1], k + 1)
    BY <1>1, <2>1
  <2>3. g[k + 1] = Then(g[(k + 1) - 1], k + 1)
    BY <1>2, <2>1
  <2>4. f[k] = g[k]
    BY <1>4, <2>1
  <2> QED
    BY <2>1, <2>2, <2>3, <2>4
<1>5. Nat \subseteq S
  <2> HIDE DEF S
  <2> QED
    BY <1>3, <1>4, InductionOn
<1> QED
  BY <1>5

\* StateAt is what the recursion says, for any buffer.
LEMMA StateAtBase ==
  ASSUME NEW buf
  PROVE  StateAt(buf, 0) = buf.base
<1> DEFINE f == CHOOSE f : IsStates(f, buf, 0)
<1>1. IsStates(f, buf, 0)
  BY StatesExist
<1>2. f[0] = buf.base
  <2> HIDE DEF f
  <2> QED
    BY <1>1 DEF IsStates
<1>3. StateAt(buf, 0) = f[0]
  BY DEF StateAt, IsStates
<1> QED
  BY <1>2, <1>3

LEMMA StateAtNext ==
  ASSUME NEW buf, NEW n \in Nat
  PROVE  StateAt(buf, n + 1) = IF n + 1 \in DOMAIN buf.entries
                               THEN Apply(StateAt(buf, n), buf.entries[n + 1]) ELSE StateAt(buf, n)
<1> DEFINE f == CHOOSE f : IsStates(f, buf, n)
<1> DEFINE g == CHOOSE g : IsStates(g, buf, n + 1)
<1>1. IsStates(f, buf, n)
  BY StatesExist
<1>2. IsStates(g, buf, n + 1)
  <2> n + 1 \in Nat
    OBVIOUS
  <2> QED
    BY StatesExist
<1>3. StateAt(buf, n) = f[n]
  BY DEF StateAt, IsStates
<1>4. StateAt(buf, n + 1) = g[n + 1]
  BY DEF StateAt, IsStates
<1> HIDE DEF f, g
<1>5. f[n] = g[n]
  <2> n + 1 \in Nat /\ n <= n /\ n <= n + 1
    OBVIOUS
  <2> QED
    BY <1>1, <1>2, StatesAgree
<1>6. g[n + 1] = IF n + 1 \in DOMAIN buf.entries THEN Apply(g[n], buf.entries[n + 1]) ELSE g[n]
  <2> DEFINE Then(prev, k) == IF k \in DOMAIN buf.entries THEN Apply(prev, buf.entries[k]) ELSE prev
  <2>1. g = [k \in 0 .. n + 1 |-> IF k = 0 THEN buf.base ELSE Then(g[k - 1], k)]
    BY <1>2 DEF IsStates
  <2> HIDE DEF Then
  <2>2. g[n + 1] = Then(g[(n + 1) - 1], n + 1)
    BY <2>1
  <2>3. (n + 1) - 1 = n
    OBVIOUS
  <2> QED
    BY <2>2, <2>3 DEF Then
<1> QED
  BY <1>3, <1>4, <1>5, <1>6

\* Two buffers with the same state at m and the same deltas after it have the same states after it.
LEMMA StateAtAgrees ==
  ASSUME NEW b, NEW c, NEW m \in Nat, NEW n \in Nat, m <= n, StateAt(b, m) = StateAt(c, m),
         \A k \in m + 1 .. n : /\ k \in DOMAIN b.entries <=> k \in DOMAIN c.entries
                               /\ k \in DOMAIN b.entries => b.entries[k] = c.entries[k]
  PROVE  StateAt(b, n) = StateAt(c, n)
<1> DEFINE S == {k \in Nat : m <= k /\ k <= n => StateAt(b, k) = StateAt(c, k)}
<1>1. 0 \in S
  <2> 0 >= m => m = 0
    OBVIOUS
  <2> QED
    OBVIOUS
<1>2. ASSUME NEW k \in Nat, k \in S PROVE k + 1 \in S
  <2> SUFFICES ASSUME m <= k + 1, k + 1 <= n PROVE StateAt(b, k + 1) = StateAt(c, k + 1)
    OBVIOUS
  <2>1. CASE k + 1 = m
    BY <2>1
  <2>2. CASE k >= m
    <3>1. StateAt(b, k) = StateAt(c, k)
      BY <1>2, <2>2
    <3>2. k + 1 \in m + 1 .. n
      BY <2>2
    <3> QED
      BY <3>1, <3>2, StateAtNext
  <2> QED
    BY <2>1, <2>2
<1>3. Nat \subseteq S
  <2> HIDE DEF S
  <2> QED
    BY <1>1, <1>2, InductionOn
<1> QED
  BY <1>3

--------------------------------------------------------------------------------
(* What apply_snapshot does to one entity.                                      *)

LEMMA ApplyDomain ==
  ASSUME NEW X, NEW D, NEW i
  PROVE  i \in DOMAIN Apply(X, D) <=> i \in DOMAIN X \ D.removed \/ i \in Applicable(X, D)
BY DEF Apply

LEMMA ApplyKeeps ==
  ASSUME NEW X, NEW D, NEW i, i \in DOMAIN X \ D.removed, i \notin DOMAIN D.records
  PROVE  i \in DOMAIN Apply(X, D) /\ Apply(X, D)[i] = X[i]
BY DEF Apply, Applicable

LEMMA ApplyWrites ==
  ASSUME NEW X, NEW D, NEW i, i \in Applicable(X, D)
  PROVE  /\ i \in DOMAIN Apply(X, D)
         /\ Apply(X, D)[i].owner = IF D.records[i].owner # NoOwner THEN D.records[i].owner ELSE X[i].owner
         /\ \A s \in Slots : Apply(X, D)[i].slot[s] =
              IF s \in DOMAIN D.records[i].changed THEN D.records[i].changed[s]
              ELSE IF s \in D.records[i].lost \/ i \notin DOMAIN X \ D.removed THEN Absent
              ELSE X[i].slot[s]
BY DEF Apply

\* The states stay states: a record without the owner is applied to an entity that has one.
LEMMA ApplyType ==
  ASSUME NEW X \in States, NEW D \in Deltas
  PROVE  Apply(X, D) \in States
<1>1. DOMAIN X \subseteq Ids /\ \A i \in DOMAIN X : X[i] \in Contents
  BY DEF States
<1>2. DOMAIN D.records \subseteq Ids /\ \A i \in DOMAIN D.records : D.records[i] \in Records
  BY DEF Deltas
<1>3. Apply(X, D) = [i \in DOMAIN Apply(X, D) |-> Apply(X, D)[i]]
  BY DEF Apply
<1>4. \A i \in DOMAIN Apply(X, D) : i \in Ids /\ Apply(X, D)[i] \in Contents
  <2> TAKE i \in DOMAIN Apply(X, D)
  <2>1. i \in Ids
    BY <1>1, <1>2, ApplyDomain DEF Applicable
  <2>2. CASE i \in Applicable(X, D)
    <3> DEFINE r == D.records[i]
    <3>1. i \in DOMAIN D.records /\ r \in Records /\ (r.owner # NoOwner \/ i \in DOMAIN X \ D.removed)
      BY <1>2, <2>2 DEF Applicable
    <3>2. /\ r.owner \in Peers \cup {NoOwner} /\ DOMAIN r.changed \subseteq Slots
          /\ \A s \in DOMAIN r.changed : r.changed[s] \in Values
      BY <3>1 DEF Records
    <3>3. i \in DOMAIN X => X[i].owner \in Peers /\ \A s \in Slots : X[i].slot[s] \in Values \cup {Absent}
      BY <1>1 DEF Contents
    <3> DEFINE A == Apply(X, D)[i]
    <3>4. A = [owner |-> A.owner, slot |-> [s \in Slots |-> A.slot[s]]]
      BY <2>2 DEF Apply
    <3>5. A.owner \in Peers
      BY <2>2, <3>1, <3>2, <3>3, ApplyWrites
    <3>6. \A s \in Slots : A.slot[s] \in Values \cup {Absent}
      BY <2>2, <3>1, <3>2, <3>3, ApplyWrites
    <3> HIDE DEF A
    <3>7. [s \in Slots |-> A.slot[s]] \in [Slots -> Values \cup {Absent}]
      BY <3>6
    <3>8. A \in Contents
      BY <3>4, <3>5, <3>7 DEF Contents
    <3> QED
      BY <2>1, <3>8 DEF A
  <2>3. CASE i \notin Applicable(X, D)
    <3>1. i \in DOMAIN X /\ Apply(X, D)[i] = X[i]
      BY <2>3 DEF Apply
    <3> QED
      BY <1>1, <3>1
  <2> QED
    BY <2>1, <2>2, <2>3
<1> QED
  BY <1>3, <1>4 DEF States

--------------------------------------------------------------------------------
(* What the facts about messages say of the client's state.                     *)

LEMMA IdealBase ==
  ASSUME NEW d, NEW a
  PROVE  DOMAIN Ideal(0, d, a) = {}
BY StateAtBase DEF Ideal, Whole, NoState

LEMMA IdealNext ==
  ASSUME NEW d, NEW a, NEW n \in Nat
  PROVE  Ideal(n + 1, d, a) = IF n + 1 \in a THEN Apply(Ideal(n, d, a), d[n + 1]) ELSE Ideal(n, d, a)
<1>1. DOMAIN Whole(d, a).entries = a /\ \A t \in a : Whole(d, a).entries[t] = d[t]
  BY DEF Whole
<1> QED
  BY <1>1, StateAtNext DEF Ideal

LEMMA IdealType ==
  ASSUME NEW d, NEW a, NEW n \in Nat, \A t \in a : d[t] \in Deltas
  PROVE  Ideal(n, d, a) \in States
<1> DEFINE S == {k \in Nat : Ideal(k, d, a) \in States}
<1>1. 0 \in S
  <2> NoState \in States
    BY DEF NoState, States
  <2> QED
    BY StateAtBase DEF Ideal, Whole
<1>2. ASSUME NEW k \in Nat, k \in S PROVE k + 1 \in S
  BY <1>2, IdealNext, ApplyType
<1>3. Nat \subseteq S
  <2> HIDE DEF S
  <2> QED
    BY <1>1, <1>2, InductionOn
<1> QED
  BY <1>3

\* An entity that is gone is not in the state.
LEMMA GoneIsOut ==
  ASSUME NEW d, NEW n \in Nat, NEW a \in SUBSET (Nat \ {0}), NEW i, Gone(i, n, d, a)
  PROVE  i \notin DOMAIN Ideal(n, d, a)
<1>1. PICK b \in a \cup {0} : GoneSince(b, i, n, d)
  BY DEF Gone
<1>2. b \in Nat /\ b <= n /\ (b = 0 \/ i \in d[b].removed)
  BY <1>1 DEF GoneSince
<1>3. \A w \in 1 .. n : w >= b => i \notin DOMAIN d[w].records
  BY <1>1 DEF GoneSince
<1> DEFINE S == {k \in Nat : b <= k /\ k <= n => i \notin DOMAIN Ideal(k, d, a)}
<1>4. 0 \in S
  BY IdealBase
<1>5. ASSUME NEW k \in Nat, k \in S PROVE k + 1 \in S
  <2> SUFFICES ASSUME b <= k + 1, k + 1 <= n PROVE i \notin DOMAIN Ideal(k + 1, d, a)
    OBVIOUS
  <2>1. k + 1 \in 1 .. n /\ i \notin DOMAIN d[k + 1].records
    BY <1>3
  <2>2. i \in DOMAIN Ideal(k, d, a) => k + 1 = b /\ k + 1 \in a /\ i \in d[k + 1].removed
    BY <1>2, <1>5
  <2> QED
    BY <2>1, <2>2, IdealNext, ApplyDomain DEF Applicable
<1>6. Nat \subseteq S
  <2> HIDE DEF S
  <2> QED
    BY <1>4, <1>5, InductionOn
<1> QED
  BY <1>2, <1>6

\* An entity whose owner is known is in the state and has it.
LEMMA OwnerIsThere ==
  ASSUME NEW d, NEW n \in Nat, NEW a \in SUBSET (Nat \ {0}), NEW i, NEW o, o # NoOwner,
         OwnerIs(o, i, n, d, a)
  PROVE  i \in DOMAIN Ideal(n, d, a) /\ Ideal(n, d, a)[i].owner = o
<1>1. PICK u \in a : /\ u <= n /\ i \in DOMAIN d[u].records /\ d[u].records[i].owner = o
                     /\ OwnerKept(o, i, u + 1, n, d)
  BY DEF OwnerIs
<1> DEFINE P(k) == i \in DOMAIN Ideal(k, d, a) /\ Ideal(k, d, a)[i].owner = o
<1> DEFINE S == {k \in Nat : u <= k /\ k <= n => P(k)}
<1>2. 0 \in S
  OBVIOUS
<1>3. ASSUME NEW k \in Nat, k \in S PROVE k + 1 \in S
  <2> SUFFICES ASSUME u <= k + 1, k + 1 <= n PROVE P(k + 1)
    OBVIOUS
  <2>1. CASE k + 1 = u
    <3> i \in Applicable(Ideal(k, d, a), d[u])
      BY <1>1 DEF Applicable
    <3> Ideal(k + 1, d, a) = Apply(Ideal(k, d, a), d[u])
      BY <2>1, IdealNext
    <3> QED
      BY <1>1, ApplyWrites
  <2>2. CASE u <= k
    <3>1. P(k)
      BY <1>3, <2>2
    <3>2. /\ i \notin d[k + 1].removed
          /\ i \in DOMAIN d[k + 1].records => d[k + 1].records[i].owner \in {o, NoOwner}
      <4> k + 1 \in u + 1 .. n
        BY <2>2
      <4> QED
        BY <1>1 DEF OwnerKept
    <3>3. CASE k + 1 \in a /\ i \in DOMAIN d[k + 1].records
      <4>1. i \in Applicable(Ideal(k, d, a), d[k + 1])
        BY <3>1, <3>2, <3>3 DEF Applicable
      <4>2. Ideal(k + 1, d, a) = Apply(Ideal(k, d, a), d[k + 1])
        BY <3>3, IdealNext
      <4> QED
        BY <3>1, <3>2, <3>3, <4>1, <4>2, ApplyWrites
    <3>4. CASE k + 1 \in a /\ i \notin DOMAIN d[k + 1].records
      <4>1. Ideal(k + 1, d, a) = Apply(Ideal(k, d, a), d[k + 1])
        BY <3>4, IdealNext
      <4> QED
        BY <3>1, <3>2, <3>4, <4>1, ApplyKeeps
    <3>5. CASE k + 1 \notin a
      BY <3>1, <3>5, IdealNext
    <3> QED
      BY <3>3, <3>4, <3>5
  <2> QED
    BY <2>1, <2>2
<1>4. Nat \subseteq S
  <2> HIDE DEF S
  <2> QED
    BY <1>2, <1>3, InductionOn
<1> QED
  BY <1>1, <1>4

\* A record the client took found its entity.
LEMMA RecordIsThere ==
  ASSUME NEW d, NEW a \in SUBSET (Nat \ {0}), NoOwner \notin Peers,
         NEW u \in a, RecordInv(u, d, a), NEW i \in DOMAIN d[u].records
  PROVE  i \in Applicable(Ideal(u - 1, d, a), d[u]) /\ i \in DOMAIN Ideal(u, d, a)
<1>1. u - 1 \in Nat /\ (u - 1) + 1 = u
  OBVIOUS
<1>2. i \in Applicable(Ideal(u - 1, d, a), d[u])
  <2>1. CASE d[u].records[i].owner # NoOwner
    BY <2>1 DEF Applicable
  <2>2. CASE d[u].records[i].owner = NoOwner
    <3>1. PICK o \in Peers : OwnerIs(o, i, u - 1, d, a)
      BY <2>2 DEF RecordInv
    <3>2. i \in DOMAIN Ideal(u - 1, d, a)
      BY <1>1, <3>1, OwnerIsThere
    <3>3. i \notin d[u].removed
      BY <2>2 DEF RecordInv
    <3> QED
      BY <3>2, <3>3 DEF Applicable
  <2> QED
    BY <2>1, <2>2
<1>3. Ideal(u, d, a) = Apply(Ideal(u - 1, d, a), d[u])
  BY <1>1, IdealNext
<1> QED
  BY <1>2, <1>3, ApplyWrites

\* A slot whose value is known has it, if the entity is in the state.
LEMMA SlotWrittenIsThere ==
  ASSUME NEW d, NEW n \in Nat, NEW a \in SUBSET (Nat \ {0}), NoOwner \notin Peers,
         \A t \in a : t <= n => RecordInv(t, d, a), NEW i, NEW s \in Slots, NEW v, SlotWritten(v, s, i, n, d, a)
  PROVE  i \in DOMAIN Ideal(n, d, a) /\ Ideal(n, d, a)[i].slot[s] = v
<1>1. PICK u \in a : /\ u <= n /\ i \in DOMAIN d[u].records /\ Writes(d[u].records[i], s, v)
                     /\ SlotKept(v, s, i, u + 1, n, d)
  BY DEF SlotWritten
<1> DEFINE P(k) == i \in DOMAIN Ideal(k, d, a) /\ Ideal(k, d, a)[i].slot[s] = v
<1> DEFINE S == {k \in Nat : u <= k /\ k <= n => P(k)}
<1>2. 0 \in S
  OBVIOUS
<1>3. ASSUME NEW k \in Nat, k \in S PROVE k + 1 \in S
  <2> SUFFICES ASSUME u <= k + 1, k + 1 <= n PROVE P(k + 1)
    OBVIOUS
  <2>1. CASE k + 1 = u
    <3>1. i \in Applicable(Ideal(k, d, a), d[u])
      <4>1. u - 1 = k /\ RecordInv(u, d, a)
        BY <1>1, <2>1
      <4> QED
        BY <1>1, <4>1, RecordIsThere
    <3>2. Ideal(k + 1, d, a) = Apply(Ideal(k, d, a), d[u])
      BY <2>1, IdealNext
    <3> QED
      BY <1>1, <3>1, <3>2, ApplyWrites DEF Writes
  <2>2. CASE u <= k
    <3>1. P(k)
      BY <1>3, <2>2
    <3>2. /\ i \notin d[k + 1].removed
          /\ i \in DOMAIN d[k + 1].records /\ Mentions(d[k + 1].records[i], s) => Writes(d[k + 1].records[i], s, v)
      <4> k + 1 \in u + 1 .. n
        BY <2>2
      <4> QED
        BY <1>1 DEF SlotKept
    <3>3. CASE k + 1 \in a /\ i \in DOMAIN d[k + 1].records
      <4>1. i \in Applicable(Ideal(k, d, a), d[k + 1])
        BY <3>1, <3>2, <3>3 DEF Applicable
      <4>2. Ideal(k + 1, d, a) = Apply(Ideal(k, d, a), d[k + 1])
        BY <3>3, IdealNext
      <4> QED
        BY <3>1, <3>2, <3>3, <4>1, <4>2, ApplyWrites DEF Mentions, Writes
    <3>4. CASE k + 1 \in a /\ i \notin DOMAIN d[k + 1].records
      <4>1. Ideal(k + 1, d, a) = Apply(Ideal(k, d, a), d[k + 1])
        BY <3>4, IdealNext
      <4> QED
        BY <3>1, <3>2, <3>4, <4>1, ApplyKeeps
    <3>5. CASE k + 1 \notin a
      BY <3>1, <3>5, IdealNext
    <3> QED
      BY <3>3, <3>4, <3>5
  <2> QED
    BY <2>1, <2>2
<1>4. Nat \subseteq S
  <2> HIDE DEF S
  <2> QED
    BY <1>2, <1>3, InductionOn
<1> QED
  BY <1>1, <1>4

LEMMA SlotNeverSetIsAbsent ==
  ASSUME NEW d, NEW n \in Nat, NEW a \in SUBSET (Nat \ {0}), NEW i, NEW s \in Slots,
         SlotNeverSet(s, i, n, d, a), i \in DOMAIN Ideal(n, d, a)
  PROVE  Ideal(n, d, a)[i].slot[s] = Absent
<1>1. PICK b \in a \cup {0} : /\ b <= n /\ (b = 0 \/ i \in d[b].removed)
                              /\ \A w \in 1 .. n : w >= b /\ i \in DOMAIN d[w].records =>
                                   s \notin DOMAIN d[w].records[i].changed
  BY DEF SlotNeverSet
<1> DEFINE P(k) == i \in DOMAIN Ideal(k, d, a) => Ideal(k, d, a)[i].slot[s] = Absent
<1> DEFINE S == {k \in Nat : b <= k /\ k <= n => P(k)}
<1>2. 0 \in S
  BY IdealBase
<1>3. ASSUME NEW k \in Nat, k \in S PROVE k + 1 \in S
  <2> SUFFICES ASSUME b <= k + 1, k + 1 <= n, i \in DOMAIN Ideal(k + 1, d, a)
               PROVE  Ideal(k + 1, d, a)[i].slot[s] = Absent
    OBVIOUS
  <2>1. k + 1 \in 1 .. n /\ (i \in DOMAIN d[k + 1].records => s \notin DOMAIN d[k + 1].records[i].changed)
    BY <1>1
  <2>2. P(k) \/ (k + 1 \in a /\ i \in d[k + 1].removed)
    BY <1>1, <1>3
  <2>3. CASE k + 1 \notin a
    BY <2>2, <2>3, IdealNext
  <2>4. CASE k + 1 \in a
    <3>1. Ideal(k + 1, d, a) = Apply(Ideal(k, d, a), d[k + 1])
      BY <2>4, IdealNext
    <3>2. CASE i \in Applicable(Ideal(k, d, a), d[k + 1])
      BY <2>1, <2>2, <3>1, <3>2, ApplyWrites DEF Applicable
    <3>3. CASE i \notin Applicable(Ideal(k, d, a), d[k + 1])
      <4>1. i \in DOMAIN Ideal(k, d, a) \ d[k + 1].removed
        BY <3>1, <3>3, ApplyDomain
      <4>2. i \notin DOMAIN d[k + 1].records
        BY <3>3, <4>1 DEF Applicable
      <4> QED
        BY <2>2, <3>1, <4>1, <4>2, ApplyKeeps
    <3> QED
      BY <3>2, <3>3
  <2> QED
    BY <2>3, <2>4
<1>4. Nat \subseteq S
  <2> HIDE DEF S
  <2> QED
    BY <1>2, <1>3, InductionOn
<1> QED
  BY <1>1, <1>4

\* A client that has the facts of a view has the view.
LEMMA ViewIsThere ==
  ASSUME NEW d, NEW n \in Nat, NEW a \in SUBSET (Nat \ {0}), NoOwner \notin Peers,
         \A t \in a : t <= n => RecordInv(t, d, a), \A t \in a : d[t] \in Deltas,
         NEW view \in States, ViewInv(view, n, d, a)
  PROVE  Ideal(n, d, a) = view
<1>1. Ideal(n, d, a) \in States
  BY IdealType
<1>2. /\ \A i \in DOMAIN view : i \in Ids /\ view[i] \in Contents
      /\ view = [i \in DOMAIN view |-> view[i]]
  BY DEF States
<1> DEFINE X == Ideal(n, d, a)
<1>3. /\ \A i \in DOMAIN X : i \in Ids /\ X[i] \in Contents
      /\ X = [i \in DOMAIN X |-> X[i]]
  BY <1>1 DEF States
<1>4. \A i \in Ids : i \in DOMAIN X <=> i \in DOMAIN view
  <2> TAKE i \in Ids
  <2>1. CASE i \in DOMAIN view
    <3>1. OwnerIs(view[i].owner, i, n, d, a)
      BY <2>1 DEF ViewInv
    <3>2. view[i].owner # NoOwner
      BY <1>2, <2>1 DEF Contents
    <3> QED
      BY <2>1, <3>1, <3>2, OwnerIsThere
  <2>2. CASE i \notin DOMAIN view
    BY <2>2, GoneIsOut DEF ViewInv
  <2> QED
    BY <2>1, <2>2
<1>5. \A i \in DOMAIN view : X[i] = view[i]
  <2> TAKE i \in DOMAIN view
  <2>1. i \in Ids /\ view[i] \in Contents /\ i \in DOMAIN X /\ X[i] \in Contents
    BY <1>2, <1>3, <1>4
  <2>2. X[i].owner = view[i].owner
    <3>1. OwnerIs(view[i].owner, i, n, d, a)
      BY <2>1 DEF ViewInv
    <3>2. view[i].owner # NoOwner
      BY <2>1 DEF Contents
    <3> QED
      BY <3>1, <3>2, OwnerIsThere
  <2>3. \A s \in Slots : X[i].slot[s] = view[i].slot[s]
    <3> TAKE s \in Slots
    <3>1. SlotIs(view[i].slot[s], s, i, n, d, a)
      BY <2>1 DEF ViewInv
    <3>2. CASE SlotWritten(view[i].slot[s], s, i, n, d, a)
      BY <3>2, SlotWrittenIsThere
    <3>3. CASE view[i].slot[s] = Absent /\ SlotNeverSet(s, i, n, d, a)
      BY <2>1, <3>3, SlotNeverSetIsAbsent
    <3> QED
      BY <3>1, <3>2, <3>3 DEF SlotIs
  <2> QED
    BY <2>1, <2>2, <2>3 DEF Contents
<1> QED
  BY <1>2, <1>3, <1>4, <1>5

--------------------------------------------------------------------------------
(* The buffer.                                                                  *)

\* Where there is no entry the state stays.
LEMMA StateAtStays ==
  ASSUME NEW buf, NEW m \in Nat, NEW n \in Nat, m <= n, \A k \in m + 1 .. n : k \notin DOMAIN buf.entries
  PROVE  StateAt(buf, n) = StateAt(buf, m)
<1> DEFINE S == {k \in Nat : m <= k /\ k <= n => StateAt(buf, k) = StateAt(buf, m)}
<1>1. 0 \in S
  <2> 0 >= m => m = 0
    OBVIOUS
  <2> QED
    OBVIOUS
<1>2. ASSUME NEW k \in Nat, k \in S PROVE k + 1 \in S
  <2> SUFFICES ASSUME m <= k + 1, k + 1 <= n PROVE StateAt(buf, k + 1) = StateAt(buf, m)
    OBVIOUS
  <2>1. CASE k + 1 = m
    BY <2>1
  <2>2. CASE k >= m
    <3>1. StateAt(buf, k) = StateAt(buf, m)
      BY <1>2, <2>2
    <3>2. k + 1 \in m + 1 .. n
      BY <2>2
    <3> QED
      BY <3>1, <3>2, StateAtNext
  <2> QED
    BY <2>1, <2>2
<1>3. Nat \subseteq S
  <2> HIDE DEF S
  <2> QED
    BY <1>1, <1>2, InductionOn
<1> QED
  BY <1>3

LEMMA NewestIs ==
  ASSUME NEW buf, NEW N \in Nat, DOMAIN buf.entries \subseteq 1 .. N
  PROVE  /\ newest(buf) \in 0 .. N /\ \A t \in DOMAIN buf.entries : t <= newest(buf)
         /\ newest(buf) # 0 => newest(buf) \in DOMAIN buf.entries
         /\ DOMAIN buf.entries # {} => newest(buf) \in DOMAIN buf.entries
<1> DEFINE D == DOMAIN buf.entries
<1>1. CASE D = {}
  BY <1>1 DEF newest
<1>2. CASE D # {}
  <2>1. \E m \in D : \A x \in D : x <= m
    <3> D \in SUBSET Nat /\ \A x \in D : x <= N
      OBVIOUS
    <3> QED
      BY <1>2, HasMax
  <2>2. newest(buf) = CHOOSE m \in D : \A x \in D : x <= m
    BY <1>2 DEF newest
  <2>3. newest(buf) \in D /\ \A x \in D : x <= newest(buf)
    <3> HIDE DEF D
    <3> QED
      BY <2>1, <2>2
  <2> QED
    BY <2>3
<1> QED
  BY <1>1, <1>2

LEMMA NewestEq ==
  ASSUME NEW buf, NEW N \in Nat, DOMAIN buf.entries \subseteq 1 .. N, NEW m \in DOMAIN buf.entries,
         \A t \in DOMAIN buf.entries : t <= m
  PROVE  newest(buf) = m
<1>1. newest(buf) \in DOMAIN buf.entries /\ newest(buf) <= m /\ m <= newest(buf)
  BY NewestIs
<1> QED
  BY <1>1

LEMMA FloorType ==
  ASSUME NEW n \in Nat
  PROVE  /\ Floor(n) \in Nat /\ Floor(n) <= n /\ (n # 0 => Floor(n) < n)
         /\ \A t \in Nat \ {0} : outside_window(t, n) <=> t <= Floor(n)
         /\ \A t \in Nat \ {0} : t > Floor(n) <=> t + Window > n
         /\ \A m \in Nat : n <= m => Floor(n) <= Floor(m)
BY WindowAssumption DEF Floor, outside_window

LEMMA BufferFacts ==
  ASSUME NEW buf, NEW d, NEW N \in Nat, NEW a \in SUBSET (1 .. N), BufferInv(buf, d, a)
  PROVE  \E l \in 0 .. N, f \in Nat :
           /\ l = newest(buf) /\ f = Floor(l) /\ f <= l /\ (l # 0 => l \in a /\ l > f)
           /\ DOMAIN buf.entries = {u \in a : u > f} /\ DOMAIN buf.entries \subseteq 1 .. N
           /\ \A k \in DOMAIN buf.entries : buf.entries[k] = d[k]
           /\ buf.base = Ideal(f, d, a) /\ \A u \in a : u <= l
<1> PICK l : l = newest(buf)
  OBVIOUS
<1> PICK f : f = Floor(l)
  OBVIOUS
<1>1. /\ buf = [entries |-> [t \in {u \in a : u > f} |-> d[t]], base |-> Ideal(f, d, a)]
      /\ \A u \in a : u <= l
  BY DEF BufferInv
<1> PICK D : D = {u \in a : u > f}
  OBVIOUS
<1> PICK e : e = [t \in D |-> d[t]]
  OBVIOUS
<1>2. buf.entries = e /\ buf.base = Ideal(f, d, a)
  BY <1>1
<1>3. DOMAIN e = D /\ \A t \in D : e[t] = d[t]
  OBVIOUS
<1>4. DOMAIN buf.entries = D /\ D \subseteq 1 .. N
  BY <1>2, <1>3
<1>5. l \in 0 .. N /\ (l # 0 => l \in D)
  BY <1>4, NewestIs
<1>6. f \in Nat /\ f <= l
  BY <1>5, FloorType
<1>7. \A t \in D : t \in a /\ t > f
  OBVIOUS
<1> QED
  BY <1>1, <1>2, <1>3, <1>4, <1>5, <1>6, <1>7

\* Above the floor the buffer's states are those of a window without end.
LEMMA BufferStates ==
  ASSUME NEW buf, NEW d, NEW N \in Nat, NEW a \in SUBSET (1 .. N),
         BufferInv(buf, d, a), NEW n \in Nat, n >= Floor(newest(buf))
  PROVE  StateAt(buf, n) = Ideal(n, d, a)
<1>1. PICK l \in 0 .. N, f \in Nat :
           /\ l = newest(buf) /\ f = Floor(l) /\ f <= l /\ (l # 0 => l \in a /\ l > f)
           /\ DOMAIN buf.entries = {u \in a : u > f} /\ DOMAIN buf.entries \subseteq 1 .. N
           /\ \A k \in DOMAIN buf.entries : buf.entries[k] = d[k]
           /\ buf.base = Ideal(f, d, a) /\ \A u \in a : u <= l
  BY BufferFacts
<1>3. f \in Nat
  OBVIOUS
<1>4. DOMAIN buf.entries = {u \in a : u > f} /\ \A t \in DOMAIN buf.entries : buf.entries[t] = d[t]
  BY <1>1
<1>5. StateAt(buf, f) = Ideal(f, d, a)
  <2>1. StateAt(buf, f) = StateAt(buf, 0)
    BY <1>3, <1>4, StateAtStays
  <2>2. buf.base = Ideal(f, d, a)
    BY <1>1
  <2> QED
    BY <2>1, <2>2, StateAtBase
<1>6. n >= f
  BY <1>1
<1>7. DOMAIN Whole(d, a).entries = a /\ \A t \in a : Whole(d, a).entries[t] = d[t]
  BY DEF Whole
<1>8. \A k \in f + 1 .. n : /\ k \in DOMAIN buf.entries <=> k \in DOMAIN Whole(d, a).entries
                            /\ k \in DOMAIN buf.entries => buf.entries[k] = Whole(d, a).entries[k]
  BY <1>3, <1>4, <1>7
<1>9. StateAt(buf, f) = StateAt(Whole(d, a), f)
  BY <1>5 DEF Ideal
<1>10. StateAt(buf, n) = StateAt(Whole(d, a), n)
  BY ONLY <1>3, <1>6, <1>8, <1>9, n \in Nat, StateAtAgrees
<1> QED
  BY <1>10 DEF Ideal

\* What insert makes of it: nothing at or below the floor is taken, what falls below goes to the base.
LEMMA InsertKeeps ==
  ASSUME NEW buf, NEW d, NEW N \in Nat, NEW a \in SUBSET (1 .. N),
         BufferInv(buf, d, a), NEW t \in 1 .. N, Accepts(buf, t, d[t])
  PROVE  t \notin a /\ BufferInv(insert(buf, t, d[t]), d, a \cup {t})
<1>1. PICK l \in 0 .. N, f \in Nat :
           /\ l = newest(buf) /\ f = Floor(l) /\ f <= l /\ (l # 0 => l \in a /\ l > f)
           /\ DOMAIN buf.entries = {u \in a : u > f} /\ DOMAIN buf.entries \subseteq 1 .. N
           /\ \A k \in DOMAIN buf.entries : buf.entries[k] = d[k]
           /\ buf.base = Ideal(f, d, a) /\ \A u \in a : u <= l
  BY BufferFacts
<1>2. DOMAIN buf.entries = {u \in a : u > f} /\ DOMAIN buf.entries \subseteq 1 .. N
  BY <1>1
<1>3. l \in 0 .. N /\ (l # 0 => l \in a /\ l > f)
  BY <1>1
<1>4. \A u \in a : u <= l
  BY <1>1
<1>5. f \in Nat
  OBVIOUS
<1> PICK m \in 1 .. N : m = IF l > t THEN l ELSE t
  OBVIOUS
<1> PICK e : e = Floor(m)
  OBVIOUS
<1> PICK b : b = a \cup {t}
  OBVIOUS
<1>6. e \in Nat /\ f <= e /\ e < m /\ t > f
  <2>1. e \in Nat /\ e < m
    BY FloorType
  <2>2. f <= e
    <3> l \in Nat /\ m \in Nat /\ l <= m
      OBVIOUS
    <3> QED
      BY <1>1, FloorType
  <2>3. ~outside_window(t, m)
    BY <1>1 DEF Accepts
  <2>4. t > e
    BY <2>1, <2>3, FloorType
  <2> QED
    BY <1>5, <2>1, <2>2, <2>4
<1>7. t \notin a
  BY <1>2, <1>6 DEF Accepts
<1> DEFINE all == [k \in DOMAIN buf.entries \cup {t} |-> IF k = t THEN d[t] ELSE buf.entries[k]]
           full == [entries |-> all, base |-> buf.base]
           old == {k \in DOMAIN all : outside_window(k, newest(full))}
<1>8. DOMAIN all = {u \in b : u > f} /\ \A k \in DOMAIN all : all[k] = d[k]
  <2>1. \A k \in DOMAIN buf.entries : buf.entries[k] = d[k]
    BY <1>1
  <2> QED
    BY <1>2, <1>6, <1>7, <2>1
<1>9. newest(full) = m
  <2>1. DOMAIN full.entries = {u \in b : u > f} /\ DOMAIN full.entries \subseteq 1 .. N
    BY <1>8
  <2>2. m \in DOMAIN full.entries /\ \A u \in DOMAIN full.entries : u <= m
    BY <1>3, <1>4, <1>6, <2>1
  <2> HIDE DEF full
  <2> QED
    BY ONLY <2>1, <2>2, NewestEq, N \in Nat
<1>10. old = {u \in b : u > f /\ u <= e}
  <2>1. \A u \in b : u \in Nat \ {0}
    OBVIOUS
  <2>2. \A u \in b : outside_window(u, m) <=> u <= e
    BY <2>1, FloorType
  <2>3. old = {k \in DOMAIN all : outside_window(k, m)}
    BY <1>9
  <2> HIDE DEF all, old
  <2> QED
    BY <1>8, <2>2, <2>3
<1> DEFINE new == insert(buf, t, d[t])
           base == IF old = {} THEN buf.base ELSE StateAt(full, CHOOSE k \in old : \A u \in old : u <= k)
<1>11. new = [entries |-> [k \in {u \in b : u > e} |-> d[k]], base |-> base]
  <2>1. new = [entries |-> [k \in DOMAIN all \ old |-> all[k]], base |-> base]
    BY DEF insert
  <2>2. DOMAIN all \ old = {u \in b : u > e}
    <3> \A u \in b : u \in Nat
      OBVIOUS
    <3> PICK A : A = DOMAIN all
      OBVIOUS
    <3> PICK O : O = old
      OBVIOUS
    <3>1. A = {u \in b : u > f} /\ O = {u \in b : u > f /\ u <= e}
      BY <1>8, <1>10
    <3>2. \A u : u \in A \ O <=> u \in b /\ u > e
      BY ONLY <1>5, <1>6, <3>1, \A u \in b : u \in Nat
    <3>3. A \ O = {u \in b : u > e}
      BY ONLY <3>2
    <3> QED
      BY <3>3
  <2>3. [k \in DOMAIN all \ old |-> all[k]] = [k \in {u \in b : u > e} |-> d[k]]
    <3> HIDE DEF all, old
    <3> QED
      BY <1>8, <2>2
  <2> QED
    BY <2>1, <2>3
<1>12. newest(new) = m
  <2>1. DOMAIN new.entries = {u \in b : u > e} /\ DOMAIN new.entries \subseteq 1 .. N
    <3> HIDE DEF new, base
    <3> b \subseteq 1 .. N
      OBVIOUS
    <3> PICK D : D = {u \in b : u > e}
      OBVIOUS
    <3> new.entries = [k \in D |-> d[k]]
      BY <1>11
    <3> QED
      OBVIOUS
  <2>2. m \in DOMAIN new.entries /\ \A u \in DOMAIN new.entries : u <= m
    BY <1>3, <1>4, <1>6, <2>1
  <2> HIDE DEF new
  <2> QED
    BY ONLY <2>1, <2>2, NewestEq, N \in Nat
<1>13. \A n \in Nat : n >= f => StateAt(full, n) = Ideal(n, d, b)
  <2> TAKE n \in Nat
  <2> HAVE n >= f
  <2>1. DOMAIN full.entries = {u \in b : u > f} /\ \A k \in DOMAIN full.entries : full.entries[k] = d[k]
    BY <1>8
  <2>2. full.base = Ideal(f, d, a)
    <3> full.base = buf.base
      OBVIOUS
    <3> QED
      BY <1>1
  <2> HIDE DEF full
  <2>3. StateAt(full, f) = Ideal(f, d, a)
    <3> \A k \in 0 + 1 .. f : k \notin DOMAIN full.entries
      BY <1>5, <2>1
    <3> StateAt(full, f) = StateAt(full, 0)
      BY <1>5, StateAtStays
    <3> QED
      BY <2>2, StateAtBase
  <2>4. /\ DOMAIN Whole(d, a).entries = a /\ \A k \in a : Whole(d, a).entries[k] = d[k]
        /\ DOMAIN Whole(d, b).entries = b /\ \A k \in b : Whole(d, b).entries[k] = d[k]
        /\ Whole(d, a).base = NoState /\ Whole(d, b).base = NoState
    BY DEF Whole
  <2>5. StateAt(Whole(d, a), f) = StateAt(Whole(d, b), f)
    <3>1. StateAt(Whole(d, a), 0) = StateAt(Whole(d, b), 0)
      BY <2>4, StateAtBase
    <3>2. \A k \in 0 + 1 .. f :
            /\ k \in DOMAIN Whole(d, a).entries <=> k \in DOMAIN Whole(d, b).entries
            /\ k \in DOMAIN Whole(d, a).entries => Whole(d, a).entries[k] = Whole(d, b).entries[k]
      BY <1>5, <1>6, <2>4
    <3> QED
      BY ONLY <1>5, <3>1, <3>2, StateAtAgrees
  <2>6. \A k \in f + 1 .. n :
          /\ k \in DOMAIN full.entries <=> k \in DOMAIN Whole(d, b).entries
          /\ k \in DOMAIN full.entries => full.entries[k] = Whole(d, b).entries[k]
    BY <1>5, <2>1, <2>4
  <2>7. StateAt(full, f) = StateAt(Whole(d, b), f)
    BY <2>3, <2>5 DEF Ideal
  <2>8. StateAt(full, n) = StateAt(Whole(d, b), n)
    BY ONLY <1>5, n \in Nat, n >= f, <2>6, <2>7, StateAtAgrees
  <2> QED
    BY <2>8 DEF Ideal
<1>14. base = Ideal(e, d, b)
  <2>1. \A n \in Nat : n <= e /\ (\A k \in n + 1 .. e : k \notin b) => Ideal(e, d, b) = Ideal(n, d, b)
    <3> DOMAIN Whole(d, b).entries = b
      BY DEF Whole
    <3> QED
      BY <1>6, StateAtStays DEF Ideal
  <2>2. CASE old = {}
    <3>1. \A k \in f + 1 .. e : k \notin b
      <4> HIDE DEF old
      <4> QED
        BY <1>5, <1>6, <1>10, <2>2
    <3>2. Ideal(e, d, b) = Ideal(f, d, b)
      BY <1>5, <1>6, <2>1, <3>1
    <3>3. StateAt(full, f) = Ideal(f, d, b)
      BY <1>5, <1>13
    <3>4. StateAt(full, f) = StateAt(full, 0)
      <4> \A k \in 0 + 1 .. f : k \notin DOMAIN full.entries
        BY <1>5, <1>8
      <4> HIDE DEF full
      <4> QED
        BY <1>5, StateAtStays
    <3>5. StateAt(full, 0) = buf.base
      BY StateAtBase
    <3> QED
      BY <2>2, <3>2, <3>3, <3>4, <3>5
  <2>3. CASE old # {}
    <3>1. old \in SUBSET Nat /\ \A x \in old : x <= e
      <4> \A u \in b : u \in Nat
        OBVIOUS
      <4> HIDE DEF old
      <4> QED
        BY <1>10
    <3>2. \E k \in old : \A u \in old : u <= k
      BY <1>6, <2>3, <3>1, HasMax
    <3> DEFINE k == CHOOSE k \in old : \A u \in old : u <= k
    <3>3. k \in old /\ \A u \in old : u <= k
      BY <3>2
    <3>4. base = StateAt(full, k)
      BY <2>3
    <3> HIDE DEF k, base, full, old
    <3>5. k \in Nat /\ k > f /\ k <= e /\ \A u \in k + 1 .. e : u \notin b
      BY <1>5, <1>6, <1>10, <3>3
    <3>6. StateAt(full, k) = Ideal(k, d, b)
      BY <1>5, <1>13, <3>5
    <3>7. Ideal(e, d, b) = Ideal(k, d, b)
      BY <2>1, <3>5
    <3> QED
      BY <3>4, <3>6, <3>7
  <2> QED
    BY <2>2, <2>3
<1>15. \A u \in b : u <= m
  BY <1>3, <1>4
<1> HIDE DEF new, base
<1>16. BufferInv(new, d, b)
  BY <1>11, <1>12, <1>14, <1>15 DEF BufferInv
<1> QED
  BY <1>7, <1>16 DEF new

--------------------------------------------------------------------------------
(* What build selects and lists: candidates and entities that leave, whatever   *)
(* the weights, sizes and the budget are.                                       *)

LEMMA CappedIsSubset ==
  ASSUME NEW S
  PROVE  Capped(S) \subseteq S
BY DEF Capped

LEMMA LongestUnlistedLeave ==
  ASSUME NEW table, NEW n
  PROVE  LongestUnlisted(table, n) \subseteq Leaving(table)
BY DEF LongestUnlisted

LEMMA FillSelects ==
  ASSUME NEW table, NEW cands, NEW acc, acc.selected \subseteq cands, NEW first, NEW force
  PROVE  Fill(table, cands, acc, first, force).selected \subseteq cands
<1>1. Chain(table, cands, acc.selected, first) \subseteq cands
  BY DEF Chain
<1> QED
  BY <1>1 DEF Fill

\* The function of the fills, and that it exists.
IsFilled(f, table, cands, order, start, second, n) ==
  f = [k \in 0 .. n |-> IF k = 0 THEN start
                        ELSE IF k = 1 THEN second
                        ELSE Fill(table, cands, f[k - 1], order[k], FALSE)]

LEMMA FilledExists ==
  ASSUME NEW table, NEW cands, NEW order, NEW start, NEW second, NEW n \in Nat
  PROVE  \E f : IsFilled(f, table, cands, order, start, second, n)
<1> DEFINE Is(f, m) == IsFilled(f, table, cands, order, start, second, m)
           Then(prev, k) == IF k = 1 THEN second ELSE Fill(table, cands, prev, order[k], FALSE)
           S == {k \in Nat : \E f : Is(f, k)}
<1>1. \A f, m : Is(f, m) <=> f = [k \in 0 .. m |-> IF k = 0 THEN start ELSE Then(f[k - 1], k)]
  BY DEF IsFilled
<1> HIDE DEF Is, Then
<1>2. 0 \in S
  <2> DEFINE f == [k \in 0 .. 0 |-> start]
  <2>1. f = [k \in 0 .. 0 |-> IF k = 0 THEN start ELSE Then(f[k - 1], k)]
    OBVIOUS
  <2> QED
    BY <1>1, <2>1
<1>3. ASSUME NEW m \in Nat, m \in S PROVE m + 1 \in S
  <2>1. PICK f : Is(f, m)
    BY <1>3
  <2> DEFINE g == [k \in 0 .. m + 1 |-> IF k = m + 1 THEN Then(f[m], k) ELSE f[k]]
  <2>2. f = [k \in 0 .. m |-> IF k = 0 THEN start ELSE Then(f[k - 1], k)]
    BY <1>1, <2>1
  <2>3. \A k \in 0 .. m : f[k] = IF k = 0 THEN start ELSE Then(f[k - 1], k)
    BY <2>2
  <2>4. \A k \in 0 .. m + 1 : g[k] = IF k = 0 THEN start ELSE Then(g[k - 1], k)
    <3> TAKE k \in 0 .. m + 1
    <3>1. CASE k = m + 1
      BY <3>1
    <3>2. CASE k \in 0 .. m /\ k # m + 1
      <4>1. g[k] = f[k]
        BY <3>2
      <4>2. k # 0 => g[k - 1] = f[k - 1]
        BY <3>2
      <4> QED
        BY <2>3, <3>2, <4>1, <4>2
    <3> QED
      BY <3>1, <3>2
  <2>5. g = [k \in 0 .. m + 1 |-> IF k = 0 THEN start ELSE Then(g[k - 1], k)]
    BY <2>4
  <2> HIDE DEF g
  <2>6. Is(g, m + 1)
    BY <1>1, <2>5
  <2> QED
    BY <2>6
<1>4. Nat \subseteq S
  <2> HIDE DEF S
  <2> QED
    BY <1>2, <1>3, InductionOn
<1> QED
  BY <1>4 DEF Is

LEMMA FilledSelects ==
  ASSUME NEW table, NEW cands, NEW order, NEW start, NEW second, NEW n \in Nat, NEW f,
         IsFilled(f, table, cands, order, start, second, n),
         start.selected \subseteq cands, second.selected \subseteq cands
  PROVE  f[n].selected \subseteq cands
<1> DEFINE S == {k \in Nat : k <= n => f[k].selected \subseteq cands}
<1>1. \A k \in 0 .. n : f[k] = IF k = 0 THEN start
                               ELSE IF k = 1 THEN second
                               ELSE Fill(table, cands, f[k - 1], order[k], FALSE)
  BY DEF IsFilled
<1>2. 0 \in S
  <2>1. 0 \in 0 .. n
    OBVIOUS
  <2>2. f[0] = start
    BY ONLY <1>1, <2>1, Zenon
  <2> QED
    BY <2>2
<1>3. ASSUME NEW k \in Nat, k \in S PROVE k + 1 \in S
  <2> SUFFICES ASSUME k + 1 <= n PROVE f[k + 1].selected \subseteq cands
    OBVIOUS
  <2>1. k + 1 \in 0 .. n /\ k + 1 # 0 /\ (k + 1) - 1 = k
    OBVIOUS
  <2>2. f[k].selected \subseteq cands
    BY <1>3
  <2>3. f[k + 1] = IF k + 1 = 1 THEN second ELSE Fill(table, cands, f[k], order[k + 1], FALSE)
    BY <1>1, <2>1
  <2> QED
    BY <2>2, <2>3, FillSelects
<1>4. Nat \subseteq S
  <2> HIDE DEF S
  <2> QED
    BY <1>2, <1>3, InductionOn
<1> QED
  BY <1>4

LEMMA SelectionFacts ==
  ASSUME NEW table, NEW rel \in States, table = [i \in DOMAIN table |-> table[i]],
         \A i \in DOMAIN table : table[i].accumulator \in Nat, NEW choice, choice = Selection(table, rel)
  PROVE  /\ choice.selected \subseteq Candidates(table, rel) /\ choice.listed \subseteq Leaving(table)
         /\ choice.table = [i \in DOMAIN table |-> choice.table[i]]
         /\ \A i \in DOMAIN table :
              \/ choice.table[i] = table[i]
              \/ /\ i \in Candidates(table, rel)
                 /\ \E n \in Nat : choice.table[i] = [table[i] EXCEPT !.accumulator = n]
<1> DEFINE cands == Candidates(table, rel)
           must == cands \cap Mandatory(rel)
           waiting == cands \ must
           grown == [i \in DOMAIN table |->
                       IF i \in waiting
                       THEN [table[i] EXCEPT !.accumulator = @ + WeightOf(rel, i)] ELSE table[i]]
           order == ByPriority(grown, waiting)
           start == [selected |-> must, remaining |-> Less(Budget, TotalSize(must))]
           top == IF waiting = {} THEN start ELSE Fill(grown, cands, start, order[1], TRUE)
           room == IF Cardinality(waiting) > 1 THEN top.remaining \div 4 ELSE top.remaining
           count == Min({Cardinality(Leaving(table)), Max({room \div RemovalSize, 1})})
           second == [top EXCEPT !.remaining = Less(@, count * RemovalSize)]
           filled == CHOOSE f : IsFilled(f, grown, cands, order, start, second, Cardinality(waiting))
<1>1. choice = IF Cardinality(Leaving(table)) * RemovalSize + TotalSize(cands) <= Budget
               THEN [table |-> table, selected |-> cands, listed |-> Capped(Leaving(table))]
               ELSE [table |-> grown, selected |-> filled[Cardinality(waiting)].selected,
                     listed |-> LongestUnlisted(table, Min({count, MaxEntries}))]
  BY DEF Selection, IsFilled
<1>2. Cardinality(waiting) \in Nat
  <2>1. waiting \subseteq Ids
    BY DEF Candidates, States
  <2> HIDE DEF waiting
  <2> QED
    BY <2>1, IdsAssumption, FS_Subset, FS_CardinalityType
<1>3. start.selected \subseteq cands
  OBVIOUS
<1>4. top.selected \subseteq cands
  <2> HIDE DEF start
  <2> QED
    BY <1>3, FillSelects
<1>5. second.selected \subseteq cands
  <2> second.selected = top.selected
    <3> top = [selected |-> top.selected, remaining |-> top.remaining]
      BY DEF Fill
    <3> HIDE DEF top
    <3> QED
      OBVIOUS
  <2> QED
    BY <1>4
<1>6. filled[Cardinality(waiting)].selected \subseteq cands
  <2> HIDE DEF cands, waiting, grown, order, start, second
  <2>1. IsFilled(filled, grown, cands, order, start, second, Cardinality(waiting))
    BY <1>2, FilledExists
  <2> HIDE DEF filled
  <2> QED
    BY <1>2, <1>3, <1>5, <2>1, FilledSelects
<1>7. \A i \in DOMAIN table :
         \/ grown[i] = table[i]
         \/ i \in cands /\ \E n \in Nat : grown[i] = [table[i] EXCEPT !.accumulator = n]
  <2> TAKE i \in DOMAIN table
  <2>1. CASE i \in waiting
    <3>1. i \in Ids /\ i \in cands
      BY <2>1 DEF Candidates, States
    <3>2. WeightOf(rel, i) \in Nat
      BY <3>1, SizesAssumption DEF WeightOf
    <3>3. table[i].accumulator + WeightOf(rel, i) \in Nat
      BY <3>2
    <3> QED
      BY <2>1, <3>1, <3>3
  <2>2. CASE i \notin waiting
    BY <2>2
  <2> QED
    BY <2>1, <2>2
<1>8. CASE Cardinality(Leaving(table)) * RemovalSize + TotalSize(cands) <= Budget
  <2>1. choice = [table |-> table, selected |-> cands, listed |-> Capped(Leaving(table))]
    BY <1>1, <1>8
  <2>2. choice.selected = cands /\ choice.listed = Capped(Leaving(table)) /\ choice.table = table
    BY <2>1
  <2>3. choice.listed \subseteq Leaving(table)
    BY <2>2, CappedIsSubset
  <2> QED
    BY ONLY <2>2, <2>3, table = [i \in DOMAIN table |-> table[i]]
<1>9. CASE ~(Cardinality(Leaving(table)) * RemovalSize + TotalSize(cands) <= Budget)
  <2>1. choice = [table |-> grown, selected |-> filled[Cardinality(waiting)].selected,
                  listed |-> LongestUnlisted(table, Min({count, MaxEntries}))]
    BY <1>1, <1>9
  <2>2. DOMAIN grown = DOMAIN table /\ grown = [i \in DOMAIN table |-> grown[i]]
    OBVIOUS
  <2> HIDE DEF grown, filled, count
  <2>3. /\ choice.selected = filled[Cardinality(waiting)].selected /\ choice.table = grown
        /\ choice.listed = LongestUnlisted(table, Min({count, MaxEntries}))
    BY <2>1
  <2>4. choice.listed \subseteq Leaving(table)
    BY <2>3, LongestUnlistedLeave
  <2>5. choice.selected \subseteq Candidates(table, rel)
    BY <1>6, <2>3
  <2>6. choice.table = [i \in DOMAIN table |-> choice.table[i]]
    BY <2>2, <2>3
  <2>7. \A i \in DOMAIN table :
              \/ choice.table[i] = table[i]
              \/ /\ i \in Candidates(table, rel)
                 /\ \E n \in Nat : choice.table[i] = [table[i] EXCEPT !.accumulator = n]
    BY <1>7, <2>3
  <2> QED
    BY ONLY <2>4, <2>5, <2>6, <2>7
<1> QED
  BY <1>8, <1>9

--------------------------------------------------------------------------------
(* The table, entity by entity.                                                 *)

\* The same but for what only decides the order of sending.
Agrees(g, h) ==
  /\ g.latest = h.latest /\ g.written = h.written /\ g.since = h.since /\ g.ownerSince = h.ownerSince
  /\ g.confirmed = h.confirmed /\ g.leaving = h.leaving /\ g.leaveSince = h.leaveSince

\* Started over, when the entity came back while it was leaving.
StartsOver(g, h, t) ==
  /\ g.latest = h.latest /\ g.written = h.written /\ g.since = [s \in Slots |-> t] /\ g.ownerSince = t
  /\ g.confirmed = h.confirmed /\ g.leaving = FALSE

\* Started to leave.
StartsLeaving(g, h, t) ==
  /\ g.latest = h.latest /\ g.written = h.written /\ g.since = h.since /\ g.ownerSince = h.ownerSince
  /\ g.confirmed = h.confirmed /\ g.leaving = TRUE /\ g.leaveSince = t

LEMMA TableType ==
  ASSUME NEW n, NEW table
  PROVE  table \in Tables(n) <=> /\ DOMAIN table \subseteq Ids /\ table = [i \in DOMAIN table |-> table[i]]
                                 /\ \A i \in DOMAIN table : table[i] \in Ghosts(n)
BY DEF Tables

LEMMA GhostFields ==
  ASSUME NEW n, NEW g \in Ghosts(n)
  PROVE  /\ g = [latest |-> g.latest, written |-> g.written, since |-> g.since, ownerSince |-> g.ownerSince,
                 confirmed |-> g.confirmed, accumulator |-> g.accumulator, leaving |-> g.leaving,
                 leaveSince |-> g.leaveSince, lastListed |-> g.lastListed]
         /\ g.latest \in Contents \cup {NoContent} /\ g.written \in BOOLEAN /\ g.since \in [Slots -> 0 .. n]
         /\ g.ownerSince \in 0 .. n /\ g.confirmed \in 0 .. n /\ g.accumulator \in Nat
         /\ g.leaving \in BOOLEAN /\ g.leaveSince \in 0 .. n /\ g.lastListed \in 0 .. n
BY DEF Ghosts

LEMMA GhostsLater ==
  ASSUME NEW n \in Nat, NEW m \in Nat, n <= m, NEW g \in Ghosts(n)
  PROVE  g \in Ghosts(m)
<1>1. 0 .. n \subseteq 0 .. m
  OBVIOUS
<1>2. [Slots -> 0 .. n] \subseteq [Slots -> 0 .. m]
  BY <1>1
<1> QED
  BY <1>1, <1>2 DEF Ghosts

LEMMA AccumulatorAgrees ==
  ASSUME NEW n, NEW g \in Ghosts(n), NEW k \in Nat
  PROVE  [g EXCEPT !.accumulator = k] \in Ghosts(n) /\ Agrees([g EXCEPT !.accumulator = k], g)
BY DEF Ghosts, Agrees

LEMMA ListedAgrees ==
  ASSUME NEW n \in Nat, NEW g \in Ghosts(n)
  PROVE  [g EXCEPT !.lastListed = n] \in Ghosts(n) /\ Agrees([g EXCEPT !.lastListed = n], g)
<1> n \in 0 .. n
  OBVIOUS
<1> QED
  BY DEF Ghosts, Agrees

LEMMA NewGhostType ==
  ASSUME NEW n \in Nat
  PROVE  NewGhost \in Ghosts(n)
<1> 0 \in 0 .. n
  OBVIOUS
<1> QED
  BY DEF NewGhost, Ghosts

\* One entity of Brought.
LEMMA BroughtFacts ==
  ASSUME NEW n \in Nat, NEW t \in Nat, t = n + 1, NEW table \in Tables(n), NEW rel \in States,
         NEW B, B = Brought(table, rel, t)
  PROVE  /\ DOMAIN B = {i \in DOMAIN table \ DOMAIN rel : table[i].written} \cup DOMAIN rel
         /\ B \in Tables(t)
         /\ \A i \in DOMAIN rel :
              IF i \in DOMAIN table
              THEN IF table[i].leaving THEN StartsOver(B[i], table[i], t) ELSE Agrees(B[i], table[i])
              ELSE Agrees(B[i], NewGhost)
         /\ \A i \in DOMAIN B \ DOMAIN rel :
              IF table[i].leaving THEN Agrees(B[i], table[i]) ELSE StartsLeaving(B[i], table[i], t)
<1>1. DOMAIN B = {i \in DOMAIN table \ DOMAIN rel : table[i].written} \cup DOMAIN rel
  BY DEF Brought
<1>2. B = [i \in DOMAIN B |-> B[i]]
  BY DEF Brought
<1>3. \A i \in DOMAIN table : i \in Ids /\ table[i] \in Ghosts(n) /\ table[i] \in Ghosts(t)
  BY TableType, GhostsLater
<1>4. DOMAIN rel \subseteq Ids
  BY DEF States
<1>5. ASSUME NEW i \in DOMAIN rel
      PROVE  /\ B[i] \in Ghosts(t)
             /\ IF i \in DOMAIN table
                THEN IF table[i].leaving THEN StartsOver(B[i], table[i], t) ELSE Agrees(B[i], table[i])
                ELSE Agrees(B[i], NewGhost)
  <2> DEFINE g == IF i \in DOMAIN table
                  THEN IF table[i].leaving
                       THEN [table[i] EXCEPT !.leaving = FALSE, !.since = [s \in Slots |-> t],
                                             !.ownerSince = t]
                       ELSE table[i]
                  ELSE NewGhost
  <2>1. B[i] = IF is_clean(g, rel[i]) THEN [g EXCEPT !.accumulator = 0] ELSE g
    BY DEF Brought
  <2>2. /\ g \in Ghosts(t)
        /\ IF i \in DOMAIN table
           THEN IF table[i].leaving THEN StartsOver(g, table[i], t) ELSE Agrees(g, table[i])
           ELSE Agrees(g, NewGhost)
    <3>1. CASE i \in DOMAIN table /\ table[i].leaving
      <4>1. t \in 0 .. t /\ [s \in Slots |-> t] \in [Slots -> 0 .. t]
        OBVIOUS
      <4>2. table[i] \in Ghosts(t)
        BY <1>3, <3>1
      <4> PICK h : h = table[i]
        OBVIOUS
      <4>3. g = [h EXCEPT !.leaving = FALSE, !.since = [s \in Slots |-> t], !.ownerSince = t]
        BY <3>1
      <4>4. g \in Ghosts(t) /\ StartsOver(g, h, t)
        BY <4>1, <4>2, <4>3 DEF Ghosts, StartsOver
      <4> QED
        BY <3>1, <4>4
    <3>2. CASE i \in DOMAIN table /\ ~table[i].leaving
      BY <1>3, <3>2 DEF Agrees
    <3>3. CASE i \notin DOMAIN table
      BY <3>3, NewGhostType DEF Agrees
    <3> QED
      BY <3>1, <3>2, <3>3
  <2> HIDE DEF g
  <2>3. B[i] \in Ghosts(t) /\ Agrees(B[i], g)
    <3>1. Agrees(g, g)
      BY DEF Agrees
    <3> QED
      BY <2>1, <2>2, <3>1, AccumulatorAgrees
  <2> QED
    BY ONLY <2>2, <2>3 DEF Agrees, StartsOver
<1>6. ASSUME NEW i \in DOMAIN B, i \notin DOMAIN rel
      PROVE  /\ B[i] \in Ghosts(t)
             /\ IF table[i].leaving THEN Agrees(B[i], table[i]) ELSE StartsLeaving(B[i], table[i], t)
  <2>1. i \in DOMAIN table
    BY <1>1, <1>6
  <2>2. B[i] = IF table[i].leaving THEN table[i]
               ELSE [table[i] EXCEPT !.leaving = TRUE, !.leaveSince = t, !.lastListed = 0]
    BY <1>1, <1>6 DEF Brought
  <2> PICK h : h = table[i]
    OBVIOUS
  <2>3. h \in Ghosts(t) /\ t \in 0 .. t /\ 0 \in 0 .. t
    BY <1>3, <2>1
  <2>4. CASE h.leaving
    BY <2>2, <2>3, <2>4 DEF Agrees
  <2>5. CASE ~h.leaving
    <3> PICK k : k = [h EXCEPT !.leaving = TRUE, !.leaveSince = t, !.lastListed = 0]
      OBVIOUS
    <3>1. k \in Ghosts(t) /\ StartsLeaving(k, h, t)
      BY <2>3 DEF Ghosts, StartsLeaving
    <3> QED
      BY <2>2, <2>5, <3>1
  <2> QED
    BY <2>4, <2>5
<1>7. B \in Tables(t)
  <2> DOMAIN B \subseteq Ids
    BY <1>1, <1>3, <1>4
  <2> QED
    BY <1>2, <1>5, <1>6, TableType
<1> QED
  BY <1>1, <1>5, <1>6, <1>7

LEMMA WriteTypes ==
  ASSUME NEW t \in Nat, NEW g \in Ghosts(t), NEW current \in Contents
  PROVE  dirty_write(g, current) \in Records /\ commit_write(g, current, t) \in Ghosts(t)
<1>1. current.owner \in Peers /\ \A s \in Slots : current.slot[s] \in Values \cup {Absent}
  BY DEF Contents
<1>2. DirtySlots(g, current) \subseteq Slots
  BY DEF DirtySlots
<1>3. dirty_write(g, current) \in Records
  <2> DEFINE r == dirty_write(g, current)
             C == {x \in DirtySlots(g, current) : current.slot[x] # Absent}
  <2>1. r = [owner |-> r.owner, changed |-> [s \in C |-> current.slot[s]], lost |-> r.lost]
    BY DEF dirty_write
  <2>2. r.owner \in Peers \cup {NoOwner}
    BY <1>1 DEF dirty_write
  <2>3. r.lost \subseteq Slots
    BY <1>2 DEF dirty_write
  <2>4. C \subseteq Slots
    BY <1>2
  <2>5. [s \in C |-> current.slot[s]] \in [C -> Values]
    BY <1>1, <2>4
  <2>6. [s \in C |-> current.slot[s]] \in UNION {[S -> Values] : S \in SUBSET Slots}
    BY <2>4, <2>5
  <2> HIDE DEF r, C
  <2>7. r \in Records
    BY <2>1, <2>2, <2>3, <2>6 DEF Records
  <2> QED
    BY <2>7 DEF r
<1>4. commit_write(g, current, t) \in Ghosts(t)
  <2> PICK since : since = [s \in Slots |-> IF g.latest.slot[s] # current.slot[s] THEN t ELSE g.since[s]]
    OBVIOUS
  <2>1. t \in 0 .. t
    OBVIOUS
  <2>2. since \in [Slots -> 0 .. t]
    BY <2>1, GhostFields
  <2> PICK o : o = IF ~g.written \/ g.latest.owner # current.owner THEN t ELSE g.ownerSince
    OBVIOUS
  <2>3. o \in 0 .. t
    BY <2>1, GhostFields
  <2>4. commit_write(g, current, t) =
          [g EXCEPT !.since = since, !.ownerSince = o, !.latest = current, !.written = TRUE, !.accumulator = 0]
    BY DEF commit_write
  <2> PICK h : h = commit_write(g, current, t)
    OBVIOUS
  <2>5. h = [latest |-> current, written |-> TRUE, since |-> since, ownerSince |-> o,
             confirmed |-> g.confirmed, accumulator |-> 0, leaving |-> g.leaving,
             leaveSince |-> g.leaveSince, lastListed |-> g.lastListed]
    BY <2>4 DEF Ghosts
  <2>6. h \in Ghosts(t)
    BY <2>2, <2>3, <2>5, GhostFields DEF Ghosts
  <2> QED
    BY <2>6
<1> QED
  BY <1>3, <1>4

\* The snapshot and the table that build makes, entity by entity.
LEMMA BuildFacts ==
  ASSUME NEW n \in Nat, NEW t \in Nat, t = n + 1, NEW table \in Tables(n), NEW rel \in States,
         NEW B, B = Brought(table, rel, t), NEW b, b = build(table, rel, t)
  PROVE  /\ DOMAIN b.delta.records \subseteq Candidates(B, rel) /\ b.delta.removed \subseteq Leaving(B)
         /\ b.delta \in Deltas /\ b.ghosts \in Tables(t) /\ DOMAIN b.ghosts = DOMAIN B
         /\ \A i \in DOMAIN b.delta.records :
              \E h \in Ghosts(t) : /\ Agrees(h, B[i]) /\ b.delta.records[i] = dirty_write(h, rel[i])
                                   /\ b.ghosts[i] = commit_write(h, rel[i], t)
         /\ \A i \in DOMAIN B \ DOMAIN b.delta.records : Agrees(b.ghosts[i], B[i])
<1>1. DOMAIN rel \subseteq DOMAIN B /\ B \in Tables(t)
  <2>1. /\ DOMAIN B = {i \in DOMAIN table \ DOMAIN rel : table[i].written} \cup DOMAIN rel
        /\ B \in Tables(t)
    BY BroughtFacts
  <2> QED
    BY <2>1
<1>2. /\ B = [i \in DOMAIN B |-> B[i]] /\ DOMAIN B \subseteq Ids
      /\ \A i \in DOMAIN B : B[i] \in Ghosts(t) /\ B[i].accumulator \in Nat
  BY <1>1, TableType, GhostFields
<1>3. \A i \in DOMAIN rel : i \in Ids /\ rel[i] \in Contents
  BY DEF States
<1> PICK c : c = Selection(B, rel)
  OBVIOUS
<1>4. /\ c.selected \subseteq Candidates(B, rel) /\ c.listed \subseteq Leaving(B)
      /\ c.table = [i \in DOMAIN B |-> c.table[i]]
      /\ \A i \in DOMAIN B :
           \/ c.table[i] = B[i]
           \/ /\ i \in Candidates(B, rel)
              /\ \E k \in Nat : c.table[i] = [B[i] EXCEPT !.accumulator = k]
  <2>1. B = [i \in DOMAIN B |-> B[i]] /\ \A i \in DOMAIN B : B[i].accumulator \in Nat
    BY <1>2
  <2> QED
    BY ONLY <2>1, SelectionFacts, c = Selection(B, rel), rel \in States
<1> PICK T : T = c.table
  OBVIOUS
<1>5. DOMAIN T = DOMAIN B /\ \A i \in DOMAIN B : T[i] \in Ghosts(t) /\ Agrees(T[i], B[i])
  <2>1. DOMAIN T = DOMAIN B
    BY <1>4
  <2>2. \A i \in DOMAIN B : T[i] \in Ghosts(t) /\ Agrees(T[i], B[i])
    <3> TAKE i \in DOMAIN B
    <3> B[i] \in Ghosts(t) /\ Agrees(B[i], B[i])
      BY <1>2 DEF Agrees
    <3>1. T[i] = B[i] \/ \E k \in Nat : T[i] = [B[i] EXCEPT !.accumulator = k]
      BY <1>4
    <3>2. CASE T[i] = B[i]
      BY <3>2
    <3>3. CASE \E k \in Nat : T[i] = [B[i] EXCEPT !.accumulator = k]
      <4> PICK k \in Nat : T[i] = [B[i] EXCEPT !.accumulator = k]
        BY <3>3
      <4> PICK h \in Ghosts(t) : h = B[i]
        OBVIOUS
      <4>1. T[i] = [h EXCEPT !.accumulator = k]
        OBVIOUS
      <4>2. [h EXCEPT !.accumulator = k] \in Ghosts(t) /\ Agrees([h EXCEPT !.accumulator = k], h)
        BY AccumulatorAgrees
      <4> QED
        BY ONLY <4>1, <4>2, h = B[i]
    <3> QED
      BY <3>1, <3>2, <3>3
  <2> QED
    BY <2>1, <2>2
<1> PICK W : W = Capped(c.selected)
  OBVIOUS
<1>6. W \subseteq Candidates(B, rel)
  BY <1>4, CappedIsSubset
<1> PICK L : L = c.listed
  OBVIOUS
<1> PICK gs : gs = [i \in DOMAIN T |-> IF i \in W THEN commit_write(T[i], rel[i], t)
                                       ELSE IF i \in L THEN [T[i] EXCEPT !.lastListed = t]
                                       ELSE T[i]]
  OBVIOUS
<1> PICK rs : rs = [i \in W |-> dirty_write(T[i], rel[i])]
  OBVIOUS
<1>7. b = [delta |-> [removed |-> L, records |-> rs], ghosts |-> gs]
  BY DEF build
<1>8. \A i \in W : i \in DOMAIN rel /\ i \in DOMAIN B /\ i \in Ids /\ rel[i] \in Contents
  BY <1>1, <1>3, <1>6 DEF Candidates
<1>9. L \subseteq Leaving(B) /\ L \subseteq Ids
  BY <1>2, <1>4 DEF Leaving
<1>10. DOMAIN rs = W /\ \A i \in W : rs[i] = dirty_write(T[i], rel[i]) /\ rs[i] \in Records
  BY <1>5, <1>8, WriteTypes
<1>11. DOMAIN gs = DOMAIN B /\ \A i \in W : gs[i] = commit_write(T[i], rel[i], t) /\ gs[i] \in Ghosts(t)
  BY <1>5, <1>8, WriteTypes
<1>12. \A i \in DOMAIN B \ W : gs[i] \in Ghosts(t) /\ Agrees(gs[i], B[i])
  <2> TAKE i \in DOMAIN B \ W
  <2> PICK h : h = T[i]
    OBVIOUS
  <2>1. gs[i] = h \/ gs[i] = [h EXCEPT !.lastListed = t]
    BY <1>5
  <2>2. h \in Ghosts(t) /\ Agrees(h, B[i])
    BY <1>5
  <2>3. [h EXCEPT !.lastListed = t] \in Ghosts(t) /\ Agrees([h EXCEPT !.lastListed = t], h)
    BY <2>2, ListedAgrees
  <2> QED
    BY ONLY <2>1, <2>2, <2>3 DEF Agrees
<1>13. b.delta \in Deltas
  <2>1. rs = [i \in W |-> rs[i]] /\ W \subseteq Ids
    BY <1>8
  <2>2. rs \in [W -> Records]
    BY <1>10, <2>1
  <2>3. rs \in UNION {[S -> Records] : S \in SUBSET Ids}
    BY <2>1, <2>2
  <2> QED
    BY <1>7, <1>9, <2>3 DEF Deltas
<1>14. gs \in Tables(t)
  <2>1. gs = [i \in DOMAIN gs |-> gs[i]]
    OBVIOUS
  <2>2. \A i \in DOMAIN gs : gs[i] \in Ghosts(t)
    BY ZenonT(40), <1>11, <1>12
  <2>3. DOMAIN gs \subseteq Ids
    BY <1>2, <1>11
  <2> QED
    BY ONLY <2>1, <2>2, <2>3, TableType
<1>15. /\ DOMAIN b.delta.records = W /\ b.delta.removed = L /\ b.ghosts = gs
       /\ \A i \in W : b.delta.records[i] = dirty_write(T[i], rel[i]) /\ b.ghosts[i] = commit_write(T[i], rel[i], t)
  BY <1>7, <1>10, <1>11
<1>16. /\ DOMAIN b.delta.records \subseteq Candidates(B, rel) /\ b.delta.removed \subseteq Leaving(B)
       /\ b.delta \in Deltas /\ b.ghosts \in Tables(t) /\ DOMAIN b.ghosts = DOMAIN B
  BY <1>6, <1>9, <1>11, <1>13, <1>14, <1>15
<1>17. \A i \in DOMAIN b.delta.records :
         \E h \in Ghosts(t) : /\ Agrees(h, B[i]) /\ b.delta.records[i] = dirty_write(h, rel[i])
                              /\ b.ghosts[i] = commit_write(h, rel[i], t)
  BY <1>5, <1>8, <1>15
<1>18. \A i \in DOMAIN B \ DOMAIN b.delta.records : Agrees(b.ghosts[i], B[i])
  BY <1>12, <1>15
<1> QED
  BY <1>16, <1>17, <1>18

--------------------------------------------------------------------------------
(* The facts about messages last: another acknowledgement adds to them, another *)
(* snapshot only extends them.                                                  *)

LEMMA GrowGone ==
  ASSUME NEW i, NEW n, NEW d, NEW a, NEW c, a \subseteq c, Gone(i, n, d, a)
  PROVE  Gone(i, n, d, c)
BY DEF Gone

LEMMA GrowOwner ==
  ASSUME NEW o, NEW i, NEW n, NEW d, NEW a, NEW c, a \subseteq c
  PROVE  OwnerIs(o, i, n, d, a) => OwnerIs(o, i, n, d, c)
BY DEF OwnerIs

LEMMA GrowSlot ==
  ASSUME NEW v, NEW s, NEW i, NEW n, NEW d, NEW a, NEW c, a \subseteq c
  PROVE  /\ SlotNeverSet(s, i, n, d, a) => SlotNeverSet(s, i, n, d, c)
         /\ SlotIs(v, s, i, n, d, a) => SlotIs(v, s, i, n, d, c)
BY DEF SlotIs, SlotWritten, SlotNeverSet

LEMMA GrowBacked ==
  ASSUME NEW s, NEW i, NEW f, NEW n, NEW d, NEW a, NEW c, a \subseteq c
  PROVE  /\ OwnerBacked(i, f, n, d, a) => OwnerBacked(i, f, n, d, c)
         /\ SlotBacked(s, i, f, n, d, a) => SlotBacked(s, i, f, n, d, c)
BY DEF OwnerBacked, SlotBacked

LEMMA GrowGhost ==
  ASSUME NEW g, NEW i, NEW n, NEW d, NEW a, NEW c, a \subseteq c, GhostInv(g, i, n, d, a)
  PROVE  GhostInv(g, i, n, d, c)
<1>1. UnwrittenInv(g, i, n, d, c)
  BY GrowGone DEF GhostInv, UnwrittenInv
<1>2. LeavingInv(g, i, n, d)
  BY DEF GhostInv
<1>3. PresentInv(g, i, n, d, c)
  <2> SUFFICES ASSUME g.written, ~g.leaving
               PROVE  /\ g.latest \in Contents /\ g.ownerSince > 0
                      /\ OwnerKept(g.latest.owner, i, g.ownerSince, n, d)
                      /\ OwnerBacked(i, g.ownerSince, n, d, c)
                      /\ \A s \in Slots :
                           IF g.since[s] = 0 THEN g.latest.slot[s] = Absent /\ SlotNeverSet(s, i, n, d, c)
                           ELSE /\ SlotKept(g.latest.slot[s], s, i, g.since[s], n, d)
                                /\ SlotBacked(s, i, g.since[s], n, d, c)
    BY DEF PresentInv
  <2>1. PresentInv(g, i, n, d, a)
    BY DEF GhostInv
  <2>2. \A s \in Slots :
          IF g.since[s] = 0 THEN g.latest.slot[s] = Absent /\ SlotNeverSet(s, i, n, d, c)
          ELSE /\ SlotKept(g.latest.slot[s], s, i, g.since[s], n, d)
               /\ SlotBacked(s, i, g.since[s], n, d, c)
    BY <2>1, GrowSlot, GrowBacked DEF PresentInv
  <2> QED
    BY <2>1, <2>2, GrowBacked DEF PresentInv
<1>4. ConfirmedInv(g, i, d, c)
  BY DEF GhostInv, ConfirmedInv
<1> QED
  BY <1>1, <1>2, <1>3, <1>4 DEF GhostInv

LEMMA GrowTable ==
  ASSUME NEW table, NEW n, NEW d, NEW a, NEW c, a \subseteq c, TableInv(table, n, d, a)
  PROVE  TableInv(table, n, d, c)
BY GrowGone, GrowGhost DEF TableInv

LEMMA GrowRecord ==
  ASSUME NEW t, NEW d, NEW a, NEW c, a \subseteq c, RecordInv(t, d, a)
  PROVE  RecordInv(t, d, c)
BY GrowOwner DEF RecordInv

LEMMA GrowView ==
  ASSUME NEW view, NEW t, NEW d, NEW a, NEW c, a \subseteq c, ViewInv(view, t, d, a)
  PROVE  ViewInv(view, t, d, c)
BY GrowGone, GrowOwner, GrowSlot DEF ViewInv

\* What is said of the ticks up to m does not depend on later snapshots.
Same(d, e, m) == \A w \in 1 .. m : d[w] = e[w]

LEMMA SameFacts ==
  ASSUME NEW m \in Nat, NEW d, NEW e, Same(d, e, m), NEW a \in SUBSET (Nat \ {0}), NEW i
  PROVE  /\ Gone(i, m, d, a) => Gone(i, m, e, a)
         /\ \A o : OwnerIs(o, i, m, d, a) => OwnerIs(o, i, m, e, a)
         /\ \A v, s : SlotIs(v, s, i, m, d, a) => SlotIs(v, s, i, m, e, a)
<1>1. \A w \in 1 .. m : d[w] = e[w]
  BY DEF Same
<1>2. Gone(i, m, d, a) => Gone(i, m, e, a)
  BY <1>1 DEF Gone, GoneSince
<1>3. \A o : \A u \in a : OwnerKept(o, i, u + 1, m, d) => OwnerKept(o, i, u + 1, m, e)
  BY <1>1 DEF OwnerKept
<1>4. ASSUME NEW o, OwnerIs(o, i, m, d, a) PROVE OwnerIs(o, i, m, e, a)
  BY <1>1, <1>3, <1>4 DEF OwnerIs
<1>5. \A v, s : \A u \in a : SlotKept(v, s, i, u + 1, m, d) => SlotKept(v, s, i, u + 1, m, e)
  BY <1>1 DEF SlotKept
<1>6. ASSUME NEW v, NEW s, SlotIs(v, s, i, m, d, a) PROVE SlotIs(v, s, i, m, e, a)
  <2>1. CASE SlotWritten(v, s, i, m, d, a)
    BY <1>1, <1>5, <2>1 DEF SlotIs, SlotWritten
  <2>2. CASE v = Absent /\ SlotNeverSet(s, i, m, d, a)
    BY <1>1, <2>2 DEF SlotIs, SlotNeverSet
  <2> QED
    BY <1>6, <2>1, <2>2 DEF SlotIs
<1> QED
  BY <1>2, <1>4, <1>6

LEMMA SameRecord ==
  ASSUME NEW t \in Nat \ {0}, NEW d, NEW e, Same(d, e, t), NEW a \in SUBSET (Nat \ {0}), RecordInv(t, d, a)
  PROVE  RecordInv(t, e, a)
<1>1. d[t] = e[t]
  BY DEF Same
<1>2. t - 1 \in Nat /\ Same(d, e, t - 1)
  BY DEF Same
<1>3. SUFFICES ASSUME NEW i \in DOMAIN d[t].records, d[t].records[i].owner = NoOwner
               PROVE  i \notin d[t].removed /\ \E o \in Peers : OwnerIs(o, i, t - 1, e, a)
  BY <1>1 DEF RecordInv
<1>4. i \notin d[t].removed /\ \E o \in Peers : OwnerIs(o, i, t - 1, d, a)
  BY <1>3 DEF RecordInv
<1> QED
  BY <1>2, <1>4, SameFacts

LEMMA SameView ==
  ASSUME NEW t \in Nat, NEW d, NEW e, Same(d, e, t), NEW a \in SUBSET (Nat \ {0}),
         NEW view, ViewInv(view, t, d, a)
  PROVE  ViewInv(view, t, e, a)
BY SameFacts DEF ViewInv

--------------------------------------------------------------------------------
(* What a ghost says is known to the client.                                    *)

\* The owner of a written ghost, once a record since ownerSince was taken.
LEMMA OwnerKnown ==
  ASSUME NEW n \in Nat, NEW t \in Nat, NEW g \in Ghosts(t), NEW i, NEW d, NEW a \in SUBSET (1 .. n),
         GhostInv(g, i, n, d, a), g.written, ~g.leaving,
         NEW c \in a, c >= g.ownerSince, i \in DOMAIN d[c].records
  PROVE  OwnerIs(g.latest.owner, i, n, d, a)
<1>1. /\ g.latest \in Contents /\ g.ownerSince > 0
      /\ OwnerKept(g.latest.owner, i, g.ownerSince, n, d) /\ OwnerBacked(i, g.ownerSince, n, d, a)
  BY DEF GhostInv, PresentInv
<1> PICK f \in 0 .. t : f = g.ownerSince
  BY GhostFields
<1>2. \A w \in f .. n : i \in DOMAIN d[w].records =>
        \/ d[w].records[i].owner # NoOwner
        \/ \E u \in a : u \in f .. w - 1 /\ i \in DOMAIN d[u].records /\ d[u].records[i].owner # NoOwner
  BY <1>1 DEF OwnerBacked
<1>3. c \in f .. n
  OBVIOUS
<1>4. PICK u \in a : u \in f .. n /\ i \in DOMAIN d[u].records /\ d[u].records[i].owner # NoOwner
  <2>1. CASE d[c].records[i].owner # NoOwner
    BY <1>3, <2>1
  <2>2. CASE d[c].records[i].owner = NoOwner
    <3>1. PICK u \in a : u \in f .. c - 1 /\ i \in DOMAIN d[u].records /\ d[u].records[i].owner # NoOwner
      BY <1>2, <1>3, <2>2
    <3>2. u \in f .. n
      BY <3>1
    <3> QED
      BY <3>1, <3>2
  <2> QED
    BY <2>1, <2>2
<1>5. \A w \in f .. n : /\ i \notin d[w].removed
                        /\ i \in DOMAIN d[w].records => d[w].records[i].owner \in {g.latest.owner, NoOwner}
  BY <1>1 DEF OwnerKept
<1>6. d[u].records[i].owner = g.latest.owner
  BY <1>4, <1>5
<1>7. OwnerKept(g.latest.owner, i, u + 1, n, d)
  <2> \A w \in u + 1 .. n : w \in f .. n
    BY <1>4
  <2> QED
    BY <1>5 DEF OwnerKept
<1>8. u <= n
  OBVIOUS
<1> QED
  BY <1>4, <1>6, <1>7, <1>8 DEF OwnerIs

LEMMA SlotKnown ==
  ASSUME NEW n \in Nat, NEW t \in Nat, NEW g \in Ghosts(t), NEW i, NEW d, NEW a \in SUBSET (1 .. n),
         GhostInv(g, i, n, d, a), g.written, ~g.leaving, NEW s \in Slots,
         NEW c \in a, c >= g.since[s], i \in DOMAIN d[c].records
  PROVE  SlotIs(g.latest.slot[s], s, i, n, d, a)
<1>1. IF g.since[s] = 0 THEN g.latest.slot[s] = Absent /\ SlotNeverSet(s, i, n, d, a)
      ELSE SlotKept(g.latest.slot[s], s, i, g.since[s], n, d) /\ SlotBacked(s, i, g.since[s], n, d, a)
  BY DEF GhostInv, PresentInv
<1> PICK f \in 0 .. t : f = g.since[s]
  BY GhostFields
<1> PICK v : v = g.latest.slot[s]
  OBVIOUS
<1>2. CASE f = 0
  BY <1>1, <1>2 DEF SlotIs
<1>3. CASE f # 0
  <2>1. SlotKept(v, s, i, f, n, d) /\ SlotBacked(s, i, f, n, d, a)
    BY <1>1, <1>3
  <2>2. \A w \in f .. n : i \in DOMAIN d[w].records =>
          \/ Mentions(d[w].records[i], s)
          \/ \E u \in a : u \in f .. w - 1 /\ i \in DOMAIN d[u].records /\ Mentions(d[u].records[i], s)
    BY <2>1 DEF SlotBacked
  <2>3. c \in f .. n
    OBVIOUS
  <2>4. PICK u \in a : u \in f .. n /\ i \in DOMAIN d[u].records /\ Mentions(d[u].records[i], s)
    <3>1. CASE Mentions(d[c].records[i], s)
      BY <2>3, <3>1
    <3>2. CASE ~Mentions(d[c].records[i], s)
      <4>1. PICK u \in a : u \in f .. c - 1 /\ i \in DOMAIN d[u].records /\ Mentions(d[u].records[i], s)
        BY <2>2, <2>3, <3>2
      <4>2. u \in f .. n
        BY <4>1
      <4> QED
        BY <4>1, <4>2
    <3> QED
      BY <3>1, <3>2
  <2>5. \A w \in f .. n : /\ i \notin d[w].removed
                          /\ i \in DOMAIN d[w].records /\ Mentions(d[w].records[i], s) =>
                               Writes(d[w].records[i], s, v)
    BY <2>1 DEF SlotKept
  <2>6. Writes(d[u].records[i], s, v)
    BY <2>4, <2>5
  <2>7. SlotKept(v, s, i, u + 1, n, d)
    <3> \A w \in u + 1 .. n : w \in f .. n
      BY <2>4
    <3> QED
      BY <2>5 DEF SlotKept
  <2>8. u <= n
    OBVIOUS
  <2> QED
    BY <2>4, <2>6, <2>7, <2>8 DEF SlotIs, SlotWritten
<1> QED
  BY <1>2, <1>3

--------------------------------------------------------------------------------
(* A send, entity by entity.                                                    *)

LEMMA AgreesInv ==
  ASSUME NEW g, NEW h, Agrees(h, g), NEW i, NEW n, NEW d, NEW a, GhostInv(g, i, n, d, a)
  PROVE  GhostInv(h, i, n, d, a)
<1>1. UnwrittenInv(h, i, n, d, a)
  BY DEF GhostInv, UnwrittenInv, Agrees
<1>2. LeavingInv(h, i, n, d)
  BY DEF GhostInv, LeavingInv, Agrees
<1>3. PresentInv(h, i, n, d, a)
  BY DEF GhostInv, PresentInv, Agrees
<1>4. ConfirmedInv(h, i, d, a)
  BY DEF GhostInv, ConfirmedInv, Agrees
<1> QED
  BY <1>1, <1>2, <1>3, <1>4 DEF GhostInv

LEMMA BroughtInv ==
  ASSUME NEW n \in Nat, NEW t \in Nat, t = n + 1, NEW table \in Tables(n), NEW rel \in States,
         NEW B, B = Brought(table, rel, t), NEW d, NEW a \in SUBSET (1 .. n), TableInv(table, n, d, a)
  PROVE  TableInv(B, n, d, a)
<1>1. /\ DOMAIN B = {i \in DOMAIN table \ DOMAIN rel : table[i].written} \cup DOMAIN rel
      /\ \A i \in DOMAIN rel :
              IF i \in DOMAIN table
              THEN IF table[i].leaving THEN StartsOver(B[i], table[i], t) ELSE Agrees(B[i], table[i])
              ELSE Agrees(B[i], NewGhost)
      /\ \A i \in DOMAIN B \ DOMAIN rel :
              IF table[i].leaving THEN Agrees(B[i], table[i]) ELSE StartsLeaving(B[i], table[i], t)
  BY BroughtFacts
<1>2. ASSUME NEW i \in Ids
      PROVE  IF i \in DOMAIN B THEN GhostInv(B[i], i, n, d, a) ELSE Gone(i, n, d, a)
  <2>1. IF i \in DOMAIN table THEN GhostInv(table[i], i, n, d, a) ELSE Gone(i, n, d, a)
    BY DEF TableInv
  <2>2. i \in DOMAIN table => table[i] \in Ghosts(n)
    BY TableType
  <2>3. CASE i \in DOMAIN rel /\ i \in DOMAIN table /\ ~table[i].leaving
    BY <1>1, <2>1, <2>3, AgreesInv
  <2>4. CASE i \in DOMAIN rel /\ i \in DOMAIN table /\ table[i].leaving
    <3> PICK g, h : g = table[i] /\ h = B[i]
      OBVIOUS
    <3>1. StartsOver(h, g, t) /\ g.leaving /\ GhostInv(g, i, n, d, a)
      BY <1>1, <2>1, <2>4
    <3>2. /\ h.latest = g.latest /\ h.written = g.written /\ h.since = [s \in Slots |-> t] /\ h.ownerSince = t
          /\ h.confirmed = g.confirmed /\ h.leaving = FALSE
      BY <3>1 DEF StartsOver
    <3>3. g.written /\ g.latest \in Contents
      BY <3>1 DEF GhostInv, LeavingInv
    <3>4. UnwrittenInv(h, i, n, d, a) /\ LeavingInv(h, i, n, d)
      BY <3>2, <3>3 DEF UnwrittenInv, LeavingInv
    <3>5. PresentInv(h, i, n, d, a)
      <4>1. t > 0 /\ \A w : w \notin t .. n
        OBVIOUS
      <4>2. OwnerKept(h.latest.owner, i, t, n, d) /\ OwnerBacked(i, t, n, d, a)
        BY <4>1 DEF OwnerKept, OwnerBacked
      <4>3. \A s \in Slots : SlotKept(h.latest.slot[s], s, i, t, n, d) /\ SlotBacked(s, i, t, n, d, a)
        BY <4>1 DEF SlotKept, SlotBacked
      <4>4. \A s \in Slots : h.since[s] = t
        BY <3>2
      <4> QED
        BY <3>2, <3>3, <4>1, <4>2, <4>3, <4>4 DEF PresentInv
    <3>6. ConfirmedInv(h, i, d, a)
      BY <3>1, <3>2 DEF GhostInv, ConfirmedInv
    <3> QED
      BY <2>4, <1>1, <3>4, <3>5, <3>6 DEF GhostInv
  <2>5. CASE i \in DOMAIN rel /\ i \notin DOMAIN table
    <3>1. GhostInv(NewGhost, i, n, d, a)
      BY <2>1, <2>5 DEF GhostInv, NewGhost, UnwrittenInv, LeavingInv, PresentInv, ConfirmedInv
    <3> QED
      BY <1>1, <2>5, <3>1, AgreesInv
  <2>6. CASE i \in DOMAIN B \ DOMAIN rel /\ table[i].leaving
    BY <1>1, <2>1, <2>6, AgreesInv
  <2>7. CASE i \in DOMAIN B \ DOMAIN rel /\ ~table[i].leaving
    <3> PICK g, h : g = table[i] /\ h = B[i]
      OBVIOUS
    <3>1. StartsLeaving(h, g, t) /\ ~g.leaving /\ g.written /\ GhostInv(g, i, n, d, a)
      BY <1>1, <2>1, <2>7
    <3>2. /\ h.latest = g.latest /\ h.written = g.written /\ h.confirmed = g.confirmed
          /\ h.leaving = TRUE /\ h.leaveSince = t
      BY <3>1 DEF StartsLeaving
    <3>3. g.latest \in Contents
      BY <3>1 DEF GhostInv, PresentInv
    <3>4. t > 0 /\ \A w : w \notin t .. n
      OBVIOUS
    <3>5. UnwrittenInv(h, i, n, d, a) /\ LeavingInv(h, i, n, d) /\ PresentInv(h, i, n, d, a)
      BY <3>1, <3>2, <3>3, <3>4 DEF UnwrittenInv, LeavingInv, PresentInv
    <3>6. ConfirmedInv(h, i, d, a)
      BY <3>1, <3>2 DEF GhostInv, ConfirmedInv
    <3> QED
      BY <2>7, <3>5, <3>6 DEF GhostInv
  <2>8. CASE i \notin DOMAIN B
    <3>1. i \in DOMAIN table => ~table[i].written
      BY <1>1, <2>8
    <3> QED
      BY <2>1, <2>8, <3>1 DEF GhostInv, UnwrittenInv
  <2> QED
    BY <2>3, <2>4, <2>5, <2>6, <2>7, <2>8
<1> QED
  BY <1>2 DEF TableInv

\* A tick without a record of the entity; a removal only of one that leaves.
LEMMA NoRecordInv ==
  ASSUME NEW n \in Nat, NEW t \in Nat, t = n + 1, NEW g \in Ghosts(t), NEW i, NEW d, NEW e, Same(d, e, n),
         NEW a \in SUBSET (1 .. n), GhostInv(g, i, n, d, a),
         i \notin DOMAIN e[t].records, i \in e[t].removed => g.leaving
  PROVE  GhostInv(g, i, t, e, a)
<1>1. \A w \in 1 .. n : d[w] = e[w]
  BY DEF Same
<1>2. \A w \in 0 .. t : w \in 1 .. t /\ w \notin 1 .. n => w = t
  OBVIOUS
<1>3. g.ownerSince \in 0 .. t /\ g.leaveSince \in 0 .. t /\ \A s \in Slots : g.since[s] \in 0 .. t
  BY GhostFields
<1>4. Gone(i, n, d, a) => Gone(i, t, e, a)
  BY <1>1, <1>2 DEF Gone, GoneSince
<1>5. UnwrittenInv(g, i, t, e, a)
  BY <1>4 DEF GhostInv, UnwrittenInv
<1>6. LeavingInv(g, i, t, e)
  <2> SUFFICES ASSUME g.leaving
               PROVE  /\ g.written /\ g.latest \in Contents /\ g.leaveSince > 0
                      /\ \A w \in g.leaveSince .. t : i \notin DOMAIN e[w].records
    BY DEF LeavingInv
  <2>1. /\ g.written /\ g.latest \in Contents /\ g.leaveSince > 0
        /\ \A w \in g.leaveSince .. n : i \notin DOMAIN d[w].records
    BY DEF GhostInv, LeavingInv
  <2>2. \A w \in g.leaveSince .. t : i \notin DOMAIN e[w].records
    <3> TAKE w \in g.leaveSince .. t
    <3>1. w = t \/ (w \in g.leaveSince .. n /\ w \in 1 .. n)
      BY <1>3, <2>1
    <3> QED
      BY <1>1, <2>1, <3>1
  <2> QED
    BY <2>1, <2>2
<1>7. PresentInv(g, i, t, e, a)
  <2> SUFFICES ASSUME g.written, ~g.leaving
               PROVE  /\ g.latest \in Contents /\ g.ownerSince > 0
                      /\ OwnerKept(g.latest.owner, i, g.ownerSince, t, e)
                      /\ OwnerBacked(i, g.ownerSince, t, e, a)
                      /\ \A s \in Slots :
                           IF g.since[s] = 0 THEN g.latest.slot[s] = Absent /\ SlotNeverSet(s, i, t, e, a)
                           ELSE /\ SlotKept(g.latest.slot[s], s, i, g.since[s], t, e)
                                /\ SlotBacked(s, i, g.since[s], t, e, a)
    BY DEF PresentInv
  <2>1. PresentInv(g, i, n, d, a)
    BY DEF GhostInv
  <2>2. i \notin e[t].removed
    OBVIOUS
  <2>3. ASSUME NEW f \in 1 .. t, NEW o, OwnerKept(o, i, f, n, d), OwnerBacked(i, f, n, d, a)
        PROVE  OwnerKept(o, i, f, t, e) /\ OwnerBacked(i, f, t, e, a)
    <3>1. \A w \in f .. t : w = t \/ (w \in f .. n /\ w \in 1 .. n)
      OBVIOUS
    <3>2. OwnerKept(o, i, f, t, e)
      BY <1>1, <2>2, <2>3, <3>1 DEF OwnerKept
    <3>3. OwnerBacked(i, f, t, e, a)
      <4> SUFFICES ASSUME NEW w \in f .. t, i \in DOMAIN e[w].records
                   PROVE  \/ e[w].records[i].owner # NoOwner
                          \/ \E u \in a : /\ u \in f .. w - 1 /\ i \in DOMAIN e[u].records
                                          /\ e[u].records[i].owner # NoOwner
        BY DEF OwnerBacked
      <4>1. w \in f .. n /\ w \in 1 .. n /\ e[w] = d[w]
        BY <1>1, <3>1
      <4>2. \A u \in a : d[u] = e[u]
        BY <1>1
      <4> QED
        BY <2>3, <4>1, <4>2 DEF OwnerBacked
    <3> QED
      BY <3>2, <3>3
  <2>4. ASSUME NEW f \in 1 .. t, NEW v, NEW s, SlotKept(v, s, i, f, n, d), SlotBacked(s, i, f, n, d, a)
        PROVE  SlotKept(v, s, i, f, t, e) /\ SlotBacked(s, i, f, t, e, a)
    <3>1. \A w \in f .. t : w = t \/ (w \in f .. n /\ w \in 1 .. n)
      OBVIOUS
    <3>2. SlotKept(v, s, i, f, t, e)
      BY <1>1, <2>2, <2>4, <3>1 DEF SlotKept
    <3>3. SlotBacked(s, i, f, t, e, a)
      <4> SUFFICES ASSUME NEW w \in f .. t, i \in DOMAIN e[w].records
                   PROVE  \/ Mentions(e[w].records[i], s)
                          \/ \E u \in a : /\ u \in f .. w - 1 /\ i \in DOMAIN e[u].records
                                          /\ Mentions(e[u].records[i], s)
        BY DEF SlotBacked
      <4>1. w \in f .. n /\ w \in 1 .. n /\ e[w] = d[w]
        BY <1>1, <3>1
      <4>2. \A u \in a : d[u] = e[u]
        BY <1>1
      <4> QED
        BY <2>4, <4>1, <4>2 DEF SlotBacked
    <3> QED
      BY <3>2, <3>3
  <2>5. ASSUME NEW s, SlotNeverSet(s, i, n, d, a) PROVE SlotNeverSet(s, i, t, e, a)
    BY <1>1, <1>2, <2>5 DEF SlotNeverSet
  <2>6. g.ownerSince \in 1 .. t
    BY <1>3, <2>1 DEF PresentInv
  <2>7. /\ OwnerKept(g.latest.owner, i, g.ownerSince, t, e)
        /\ OwnerBacked(i, g.ownerSince, t, e, a)
    BY <2>1, <2>3, <2>6 DEF PresentInv
  <2>8. ASSUME NEW s \in Slots
        PROVE  IF g.since[s] = 0 THEN g.latest.slot[s] = Absent /\ SlotNeverSet(s, i, t, e, a)
               ELSE /\ SlotKept(g.latest.slot[s], s, i, g.since[s], t, e)
                    /\ SlotBacked(s, i, g.since[s], t, e, a)
    <3>1. IF g.since[s] = 0 THEN g.latest.slot[s] = Absent /\ SlotNeverSet(s, i, n, d, a)
          ELSE SlotKept(g.latest.slot[s], s, i, g.since[s], n, d) /\ SlotBacked(s, i, g.since[s], n, d, a)
      BY <2>1 DEF PresentInv
    <3>2. g.since[s] # 0 => g.since[s] \in 1 .. t
      BY <1>3
    <3> QED
      BY <2>4, <2>5, <3>1, <3>2
  <2> QED
    BY <2>1, <2>7, <2>8 DEF PresentInv
<1>8. ConfirmedInv(g, i, e, a)
  BY <1>1 DEF GhostInv, ConfirmedInv
<1> QED
  BY <1>5, <1>6, <1>7, <1>8 DEF GhostInv

\* What dirty_write writes.
LEMMA DirtyFacts ==
  ASSUME NEW g, NEW current \in Contents, NEW r, r = dirty_write(g, current)
  PROVE  /\ r.owner = IF ~g.written \/ g.latest.owner # current.owner \/ g.confirmed < g.ownerSince
                      THEN current.owner ELSE NoOwner
         /\ \A s \in Slots : /\ Mentions(r, s) <=> g.confirmed < g.since[s] \/ g.latest.slot[s] # current.slot[s]
                             /\ Mentions(r, s) => Writes(r, s, current.slot[s])
                             /\ s \in DOMAIN r.changed => current.slot[s] # Absent
<1>1. /\ r.owner = IF ~g.written \/ g.latest.owner # current.owner \/ g.confirmed < g.ownerSince
                   THEN current.owner ELSE NoOwner
      /\ r.changed = [s \in {x \in DirtySlots(g, current) : current.slot[x] # Absent} |-> current.slot[s]]
      /\ r.lost = {s \in DirtySlots(g, current) : current.slot[s] = Absent}
  BY DEF dirty_write
<1> QED
  BY <1>1 DEF Mentions, Writes, DirtySlots

\* A tick with a record of the entity: what commit_write makes of its ghost.
LEMMA WithRecordInv ==
  ASSUME NEW n \in Nat, NEW t \in Nat, t = n + 1, NEW g \in Ghosts(t), NEW i, NEW d, NEW e, Same(d, e, n),
         NEW a \in SUBSET (1 .. n), GhostInv(g, i, n, d, a), ~g.leaving, NEW current \in Contents,
         i \in DOMAIN e[t].records, e[t].records[i] = dirty_write(g, current), i \notin e[t].removed,
         NEW h, h = commit_write(g, current, t)
  PROVE  GhostInv(h, i, t, e, a)
<1>1. \A w \in 1 .. n : d[w] = e[w]
  BY DEF Same
<1>2. /\ h.latest = current /\ h.written = TRUE /\ h.leaving = FALSE /\ h.confirmed = g.confirmed
      /\ h.ownerSince = IF ~g.written \/ g.latest.owner # current.owner THEN t ELSE g.ownerSince
      /\ \A s \in Slots : h.since[s] = IF g.latest.slot[s] # current.slot[s] THEN t ELSE g.since[s]
  <2>1. g.leaving = FALSE
    BY GhostFields
  <2>2. /\ h.latest = current /\ h.written = TRUE /\ h.leaving = g.leaving /\ h.confirmed = g.confirmed
        /\ h.leaveSince = g.leaveSince
        /\ h.ownerSince = IF ~g.written \/ g.latest.owner # current.owner THEN t ELSE g.ownerSince
        /\ \A s \in Slots : h.since[s] = IF g.latest.slot[s] # current.slot[s] THEN t ELSE g.since[s]
    BY ONLY g \in Ghosts(t), h = commit_write(g, current, t) DEF commit_write, Ghosts
  <2> QED
    BY ONLY <2>1, <2>2
<1>3. g.confirmed \in 0 .. t /\ g.ownerSince \in 0 .. t /\ \A s \in Slots : g.since[s] \in 0 .. t
  BY GhostFields
<1> PICK r : r = e[t].records[i]
  OBVIOUS
<1>4. /\ r.owner = IF ~g.written \/ g.latest.owner # current.owner \/ g.confirmed < g.ownerSince
                   THEN current.owner ELSE NoOwner
      /\ \A s \in Slots : /\ Mentions(r, s) <=> g.confirmed < g.since[s] \/ g.latest.slot[s] # current.slot[s]
                          /\ Mentions(r, s) => Writes(r, s, current.slot[s])
                          /\ s \in DOMAIN r.changed => current.slot[s] # Absent
  BY DirtyFacts
<1>5. current.owner \in Peers /\ current.owner # NoOwner
  BY ContentAssumption DEF Contents
<1>6. g.confirmed = 0 \/ (g.confirmed \in a /\ g.confirmed \in 1 .. n /\ i \in DOMAIN d[g.confirmed].records)
  BY DEF GhostInv, ConfirmedInv
<1>7. UnwrittenInv(h, i, t, e, a) /\ LeavingInv(h, i, t, e)
  BY <1>2 DEF UnwrittenInv, LeavingInv
<1>8. ConfirmedInv(h, i, e, a)
  BY <1>1, <1>2, <1>6 DEF ConfirmedInv
<1>9. g.written =>
        /\ g.latest \in Contents /\ g.ownerSince > 0
        /\ OwnerKept(g.latest.owner, i, g.ownerSince, n, d) /\ OwnerBacked(i, g.ownerSince, n, d, a)
        /\ \A s \in Slots :
             IF g.since[s] = 0 THEN g.latest.slot[s] = Absent /\ SlotNeverSet(s, i, n, d, a)
             ELSE SlotKept(g.latest.slot[s], s, i, g.since[s], n, d) /\ SlotBacked(s, i, g.since[s], n, d, a)
  BY DEF GhostInv, PresentInv
<1> PICK o : o = current.owner
  OBVIOUS
<1> PICK f : f = h.ownerSince
  OBVIOUS
<1>10. f \in 1 .. t
  BY <1>2, <1>3, <1>9
<1>11. f # t => g.written /\ g.latest.owner = o /\ f = g.ownerSince
  BY <1>2
<1>12. \A w \in f .. t : w = t \/ (w \in f .. n /\ w \in 1 .. n /\ f # t /\ e[w] = d[w])
  <2> \A w \in f .. t : w = t \/ (w \in f .. n /\ w \in 1 .. n /\ f # t)
    BY <1>10
  <2> QED
    BY <1>1
<1>13. OwnerKept(o, i, f, t, e)
  <2> SUFFICES ASSUME NEW w \in f .. t
               PROVE  /\ i \notin e[w].removed
                      /\ i \in DOMAIN e[w].records => e[w].records[i].owner \in {o, NoOwner}
    BY DEF OwnerKept
  <2>1. CASE w = t
    BY <1>4, <2>1
  <2>2. CASE w \in f .. n /\ f # t /\ e[w] = d[w]
    BY <1>9, <1>11, <2>2 DEF OwnerKept
  <2> QED
    BY <1>12, <2>1, <2>2
<1>14. OwnerBacked(i, f, t, e, a)
  <2> SUFFICES ASSUME NEW w \in f .. t, i \in DOMAIN e[w].records, e[w].records[i].owner = NoOwner
               PROVE  \E u \in a : u \in f .. w - 1 /\ i \in DOMAIN e[u].records /\ e[u].records[i].owner # NoOwner
    BY DEF OwnerBacked
  <2>1. \A u \in a : u \in 1 .. n /\ d[u] = e[u]
    BY <1>1
  <2>2. g.written /\ f = g.ownerSince
    <3>1. CASE w = t
      <4>1. ~(~g.written \/ g.latest.owner # current.owner \/ g.confirmed < g.ownerSince)
        BY <1>4, <1>5, <3>1
      <4> QED
        BY <1>2, <4>1
    <3>2. CASE w # t
      BY <1>11, <1>12, <3>2
    <3> QED
      BY <3>1, <3>2
  <2>3. \A x \in f .. n : i \in DOMAIN d[x].records =>
          \/ d[x].records[i].owner # NoOwner
          \/ \E u \in a : u \in f .. x - 1 /\ i \in DOMAIN d[u].records /\ d[u].records[i].owner # NoOwner
    BY <1>9, <2>2 DEF OwnerBacked
  <2>4. CASE w \in f .. n /\ e[w] = d[w]
    BY <2>1, <2>3, <2>4
  <2>5. CASE w = t
    <3>1. g.confirmed >= g.ownerSince
      <4> ~(g.confirmed < g.ownerSince)
        BY <1>4, <1>5, <2>5
      <4> QED
        BY <1>3
    <3> PICK c : c = g.confirmed
      OBVIOUS
    <3>2. c \in a /\ c \in f .. n /\ i \in DOMAIN d[c].records
      BY <1>6, <1>10, <2>2, <3>1
    <3>3. PICK u \in a : u \in f .. n /\ i \in DOMAIN d[u].records /\ d[u].records[i].owner # NoOwner
      <4>1. CASE d[c].records[i].owner # NoOwner
        BY <3>2, <4>1
      <4>2. CASE d[c].records[i].owner = NoOwner
        <5>1. PICK u \in a : u \in f .. c - 1 /\ i \in DOMAIN d[u].records /\ d[u].records[i].owner # NoOwner
          BY <2>3, <3>2, <4>2
        <5>2. u \in f .. n
          BY <3>2, <5>1
        <5> QED
          BY <5>1, <5>2
      <4> QED
        BY <4>1, <4>2
    <3>4. u \in f .. w - 1
      BY <1>10, <2>5, <3>3
    <3> QED
      BY <2>1, <3>3, <3>4
  <2> QED
    BY <1>12, <2>4, <2>5
<1>15. ASSUME NEW s \in Slots
       PROVE  IF h.since[s] = 0 THEN current.slot[s] = Absent /\ SlotNeverSet(s, i, t, e, a)
              ELSE SlotKept(current.slot[s], s, i, h.since[s], t, e) /\ SlotBacked(s, i, h.since[s], t, e, a)
  <2> PICK v : v = current.slot[s]
    OBVIOUS
  <2> PICK k : k = h.since[s]
    OBVIOUS
  <2>1. k = IF g.latest.slot[s] # v THEN t ELSE g.since[s]
    BY <1>2
  <2>2. k \in 0 .. t
    BY <1>3, <2>1
  <2>3. /\ Mentions(r, s) <=> g.confirmed < g.since[s] \/ g.latest.slot[s] # v
        /\ Mentions(r, s) => Writes(r, s, v)
        /\ s \in DOMAIN r.changed => v # Absent
    BY <1>4
  <2>4. ASSUME k = 0 PROVE v = Absent /\ SlotNeverSet(s, i, t, e, a)
    <3>1. g.latest.slot[s] = v /\ g.since[s] = 0
      BY <2>1, <2>4
    <3>2. v = Absent
      <4>1. CASE g.written
        BY <1>9, <3>1, <4>1
      <4>2. CASE ~g.written
        <5> g.latest = NoContent
          BY <4>2 DEF GhostInv, UnwrittenInv
        <5> QED
          BY <3>1 DEF NoContent
      <4> QED
        BY <4>1, <4>2
    <3>3. SlotNeverSet(s, i, n, d, a)
      <4>1. CASE g.written
        BY <1>9, <3>1, <4>1
      <4>2. CASE ~g.written
        <5> Gone(i, n, d, a)
          BY <4>2 DEF GhostInv, UnwrittenInv
        <5> QED
          BY DEF Gone, GoneSince, SlotNeverSet
      <4> QED
        BY <4>1, <4>2
    <3>4. PICK b \in a \cup {0} : /\ b <= n /\ (b = 0 \/ i \in d[b].removed)
                                  /\ \A w \in 1 .. n : w >= b /\ i \in DOMAIN d[w].records =>
                                       s \notin DOMAIN d[w].records[i].changed
      BY <3>3 DEF SlotNeverSet
    <3>5. b <= t /\ (b = 0 \/ i \in e[b].removed)
      BY <1>1, <3>4
    <3>6. \A w \in 1 .. t : w >= b /\ i \in DOMAIN e[w].records => s \notin DOMAIN e[w].records[i].changed
      <4> TAKE w \in 1 .. t
      <4>1. CASE w = t
        BY <2>3, <3>2, <4>1
      <4>2. CASE w \in 1 .. n
        BY <1>1, <3>4, <4>2
      <4> QED
        BY <4>1, <4>2
    <3> QED
      BY <3>2, <3>5, <3>6 DEF SlotNeverSet
  <2>5. ASSUME k # 0 PROVE SlotKept(v, s, i, k, t, e) /\ SlotBacked(s, i, k, t, e, a)
    <3>1. k # t => g.written /\ g.latest.slot[s] = v /\ k = g.since[s]
      <4> SUFFICES ASSUME k # t PROVE g.written /\ g.latest.slot[s] = v /\ k = g.since[s]
        OBVIOUS
      <4>1. g.latest.slot[s] = v /\ k = g.since[s]
        BY <2>1
      <4>2. ~g.written => g.since[s] = 0
        BY DEF GhostInv, UnwrittenInv
      <4> QED
        BY <2>5, <4>1, <4>2
    <3>2. k = g.since[s] => g.written
      <4> ~g.written => g.since[s] = 0
        BY DEF GhostInv, UnwrittenInv
      <4> QED
        BY <2>5
    <3>3. k \in 1 .. t
      BY <2>2, <2>5
    <3>4. \A w \in k .. t : w = t \/ (w \in k .. n /\ k # t /\ e[w] = d[w])
      <4> \A w \in k .. t : w = t \/ (w \in k .. n /\ w \in 1 .. n /\ k # t)
        BY <3>3
      <4> QED
        BY <1>1
    <3>5. g.written /\ g.latest.slot[s] = v /\ k = g.since[s] =>
             SlotKept(v, s, i, k, n, d) /\ SlotBacked(s, i, k, n, d, a)
      BY <1>9, <2>5
    <3>6. SlotKept(v, s, i, k, t, e)
      <4> SUFFICES ASSUME NEW w \in k .. t
                   PROVE  /\ i \notin e[w].removed
                          /\ i \in DOMAIN e[w].records /\ Mentions(e[w].records[i], s) =>
                               Writes(e[w].records[i], s, v)
        BY DEF SlotKept
      <4>1. CASE w = t
        BY <2>3, <4>1
      <4>2. CASE w \in k .. n /\ k # t /\ e[w] = d[w]
        BY <3>1, <3>5, <4>2 DEF SlotKept
      <4> QED
        BY <3>4, <4>1, <4>2
    <3>7. SlotBacked(s, i, k, t, e, a)
      <4> SUFFICES ASSUME NEW w \in k .. t, i \in DOMAIN e[w].records, ~Mentions(e[w].records[i], s)
                   PROVE  \E u \in a : u \in k .. w - 1 /\ i \in DOMAIN e[u].records /\ Mentions(e[u].records[i], s)
        BY DEF SlotBacked
      <4>1. \A u \in a : u \in 1 .. n /\ d[u] = e[u]
        BY <1>1
      <4>2. g.written /\ g.latest.slot[s] = v /\ k = g.since[s]
        <5>1. CASE w = t
          <6> g.latest.slot[s] = v
            BY <2>3, <5>1
          <6> QED
            BY <2>1, <3>2
        <5>2. CASE w # t
          BY <3>1, <3>4, <5>2
        <5> QED
          BY <5>1, <5>2
      <4>3. \A x \in k .. n : i \in DOMAIN d[x].records =>
              \/ Mentions(d[x].records[i], s)
              \/ \E u \in a : u \in k .. x - 1 /\ i \in DOMAIN d[u].records /\ Mentions(d[u].records[i], s)
        BY <3>5, <4>2 DEF SlotBacked
      <4>4. CASE w \in k .. n /\ e[w] = d[w]
        BY <4>1, <4>3, <4>4
      <4>5. CASE w = t
        <5>1. g.confirmed >= k
          <6> ~(g.confirmed < g.since[s])
            BY <2>3, <4>5
          <6> QED
            BY <1>3, <4>2
        <5> PICK c : c = g.confirmed
          OBVIOUS
        <5>2. c \in a /\ c \in k .. n /\ i \in DOMAIN d[c].records
          BY <1>6, <3>3, <5>1
        <5>3. PICK u \in a : u \in k .. n /\ i \in DOMAIN d[u].records /\ Mentions(d[u].records[i], s)
          <6>1. CASE Mentions(d[c].records[i], s)
            BY <5>2, <6>1
          <6>2. CASE ~Mentions(d[c].records[i], s)
            <7>1. PICK u \in a : u \in k .. c - 1 /\ i \in DOMAIN d[u].records /\ Mentions(d[u].records[i], s)
              BY <4>3, <5>2, <6>2
            <7>2. u \in k .. n
              BY <5>2, <7>1
            <7> QED
              BY <7>1, <7>2
          <6> QED
            BY <6>1, <6>2
        <5>4. u \in k .. w - 1
          BY <3>3, <4>5, <5>3
        <5> QED
          BY <4>1, <5>3, <5>4
      <4> QED
        BY <3>4, <4>4, <4>5
    <3> QED
      BY <3>6, <3>7
  <2> QED
    BY <2>4, <2>5
<1>16. PresentInv(h, i, t, e, a)
  <2> f > 0
    BY <1>10
  <2> QED
    BY <1>2, <1>13, <1>14, <1>15 DEF PresentInv
<1> QED
  BY <1>7, <1>8, <1>16 DEF GhostInv

\* What Brought makes of the entities the peer is to be told about.
LEMMA BroughtRelevant ==
  ASSUME NEW n \in Nat, NEW t \in Nat, t = n + 1, NEW table \in Tables(n), NEW rel \in States,
         NEW B, B = Brought(table, rel, t)
  PROVE  /\ DOMAIN rel \subseteq DOMAIN B
         /\ B \in Tables(t)
         /\ \A i \in DOMAIN rel :
              IF i \in DOMAIN table
              THEN IF table[i].leaving THEN StartsOver(B[i], table[i], t) ELSE Agrees(B[i], table[i])
              ELSE Agrees(B[i], NewGhost)
<1>1. /\ DOMAIN B = {i \in DOMAIN table \ DOMAIN rel : table[i].written} \cup DOMAIN rel
      /\ B \in Tables(t)
      /\ \A i \in DOMAIN rel :
           IF i \in DOMAIN table
           THEN IF table[i].leaving THEN StartsOver(B[i], table[i], t) ELSE Agrees(B[i], table[i])
           ELSE Agrees(B[i], NewGhost)
      /\ \A i \in DOMAIN B \ DOMAIN rel :
           IF table[i].leaving THEN Agrees(B[i], table[i]) ELSE StartsLeaving(B[i], table[i], t)
  BY BroughtFacts
<1>2. DOMAIN rel \subseteq DOMAIN B
  BY <1>1
<1> QED
  BY <1>1, <1>2

\* After a send the table fits what was sent, and every record of the snapshot finds its entity.
LEMMA SendTable ==
  ASSUME NEW n \in Nat, NEW t \in Nat, t = n + 1, NEW table \in Tables(n), NEW rel \in States,
         NEW b, b = build(table, rel, t), NEW d, NEW e, Same(d, e, n), e[t] = b.delta,
         NEW a \in SUBSET (1 .. n), TableInv(table, n, d, a)
  PROVE  TableInv(b.ghosts, t, e, a) /\ RecordInv(t, e, a)
<1> PICK B : B = Brought(table, rel, t)
  OBVIOUS
<1>1. TableInv(B, n, d, a)
  BY BroughtInv
<1>2. /\ DOMAIN rel \subseteq DOMAIN B
      /\ B \in Tables(t)
      /\ \A i \in DOMAIN rel :
              IF i \in DOMAIN table
              THEN IF table[i].leaving THEN StartsOver(B[i], table[i], t) ELSE Agrees(B[i], table[i])
              ELSE Agrees(B[i], NewGhost)
  BY ONLY n \in Nat, t \in Nat, t = n + 1, table \in Tables(n), rel \in States,
          B = Brought(table, rel, t), BroughtRelevant
<1>3. /\ DOMAIN b.delta.records \subseteq Candidates(B, rel) /\ b.delta.removed \subseteq Leaving(B)
      /\ b.delta \in Deltas /\ b.ghosts \in Tables(t) /\ DOMAIN b.ghosts = DOMAIN B
      /\ \A i \in DOMAIN b.delta.records :
           \E h \in Ghosts(t) : /\ Agrees(h, B[i]) /\ b.delta.records[i] = dirty_write(h, rel[i])
                                /\ b.ghosts[i] = commit_write(h, rel[i], t)
      /\ \A i \in DOMAIN B \ DOMAIN b.delta.records : Agrees(b.ghosts[i], B[i])
  BY BuildFacts
<1>4. \A i \in DOMAIN rel : i \in Ids /\ i \in DOMAIN B /\ rel[i] \in Contents
  BY <1>2 DEF States
<1>5. \A i \in DOMAIN rel : ~B[i].leaving
  <2> TAKE i \in DOMAIN rel
  <2>1. i \in DOMAIN table => table[i].leaving \in BOOLEAN
    BY TableType, GhostFields
  <2> QED
    BY <1>2, <2>1 DEF StartsOver, Agrees, NewGhost
<1>6. \A i \in DOMAIN e[t].records : i \in DOMAIN rel
  BY <1>3 DEF Candidates
<1>7. \A i \in DOMAIN B : B[i] \in Ghosts(t) /\ i \in Ids /\ (i \in e[t].removed => B[i].leaving)
  BY <1>2, <1>3, TableType DEF Leaving
<1>8. \A i \in DOMAIN B : GhostInv(B[i], i, n, d, a)
  BY <1>1, <1>7 DEF TableInv
<1>9. ASSUME NEW i \in DOMAIN e[t].records
      PROVE  /\ GhostInv(b.ghosts[i], i, t, e, a)
             /\ e[t].records[i].owner = NoOwner =>
                  i \notin e[t].removed /\ \E o \in Peers : OwnerIs(o, i, n, e, a)
  <2>1. i \in DOMAIN rel /\ i \in DOMAIN B /\ rel[i] \in Contents /\ ~B[i].leaving /\ i \notin e[t].removed
    BY <1>4, <1>5, <1>6, <1>7
  <2> PICK current \in Contents : current = rel[i]
    BY <2>1
  <2>2. PICK h \in Ghosts(t) : /\ Agrees(h, B[i]) /\ b.delta.records[i] = dirty_write(h, rel[i])
                               /\ b.ghosts[i] = commit_write(h, rel[i], t)
    BY <1>3
  <2>3. GhostInv(h, i, n, d, a)
    BY <1>8, <2>1, <2>2, AgreesInv
  <2>4. ~h.leaving
    BY <2>1, <2>2 DEF Agrees
  <2> PICK k : k = b.ghosts[i]
    OBVIOUS
  <2>5. e[t].records[i] = dirty_write(h, current) /\ k = commit_write(h, current, t)
    BY <2>2
  <2>6. GhostInv(k, i, t, e, a)
    BY <2>1, <2>3, <2>4, <2>5, WithRecordInv
  <2>7. ASSUME e[t].records[i].owner = NoOwner PROVE \E o \in Peers : OwnerIs(o, i, n, e, a)
    <3> PICK r : r = e[t].records[i]
      OBVIOUS
    <3>1. r.owner = IF ~h.written \/ h.latest.owner # current.owner \/ h.confirmed < h.ownerSince
                    THEN current.owner ELSE NoOwner
      BY <2>5, DirtyFacts
    <3>2. current.owner \in Peers /\ current.owner # NoOwner
      BY ContentAssumption DEF Contents
    <3>3. h.written /\ h.latest.owner = current.owner /\ ~(h.confirmed < h.ownerSince)
      BY <2>7, <3>1, <3>2
    <3>4. h.confirmed \in 0 .. t /\ h.ownerSince \in 0 .. t
      BY GhostFields
    <3>5. h.confirmed = 0 \/ (h.confirmed \in a /\ i \in DOMAIN d[h.confirmed].records)
      BY <2>3 DEF GhostInv, ConfirmedInv
    <3>6. h.ownerSince > 0
      BY <2>3, <2>4, <3>3 DEF GhostInv, PresentInv
    <3> PICK c : c = h.confirmed
      OBVIOUS
    <3>7. c \in a /\ i \in DOMAIN d[c].records /\ c >= h.ownerSince
      BY <3>3, <3>4, <3>5, <3>6
    <3>8. OwnerIs(h.latest.owner, i, n, d, a)
      BY <2>3, <2>4, <3>3, <3>7, OwnerKnown
    <3>9. OwnerIs(h.latest.owner, i, n, e, a)
      BY <3>8, SameFacts
    <3> QED
      BY <3>2, <3>3, <3>9
  <2> QED
    BY <2>1, <2>6, <2>7
<1>10. ASSUME NEW i \in DOMAIN B, i \notin DOMAIN e[t].records
       PROVE  GhostInv(b.ghosts[i], i, t, e, a)
  <2>1. Agrees(b.ghosts[i], B[i])
    BY <1>3, <1>10
  <2> PICK g \in Ghosts(t) : g = B[i]
    BY <1>7
  <2>2. GhostInv(g, i, n, d, a) /\ (i \in e[t].removed => g.leaving)
    BY <1>7, <1>8
  <2>3. GhostInv(g, i, t, e, a)
    BY <1>10, <2>2, NoRecordInv
  <2> QED
    BY <2>1, <2>3, AgreesInv
<1>11. ASSUME NEW i \in Ids, i \notin DOMAIN B PROVE Gone(i, t, e, a)
  <2>1. Gone(i, n, d, a)
    BY <1>1, <1>11 DEF TableInv
  <2>2. i \notin DOMAIN e[t].records
    BY <1>4, <1>6, <1>11
  <2>3. Gone(i, n, e, a)
    BY <2>1, SameFacts
  <2>4. \A w \in 1 .. t : w = t \/ w \in 1 .. n
    OBVIOUS
  <2>5. PICK x \in a \cup {0} : GoneSince(x, i, n, e)
    BY <2>3 DEF Gone
  <2>6. GoneSince(x, i, t, e)
    BY <2>2, <2>4, <2>5 DEF GoneSince
  <2> QED
    BY <2>6 DEF Gone
<1>12. TableInv(b.ghosts, t, e, a)
  BY <1>3, <1>9, <1>10, <1>11 DEF TableInv
<1>13. RecordInv(t, e, a)
  <2> t - 1 = n
    OBVIOUS
  <2> QED
    BY <1>9 DEF RecordInv
<1> QED
  BY <1>12, <1>13

LEMMA MaxSinceFacts ==
  ASSUME NEW n \in Nat, NEW g \in Ghosts(n)
  PROVE  /\ MaxSince(g) \in 0 .. n /\ g.ownerSince <= MaxSince(g)
         /\ \A s \in Slots : g.since[s] <= MaxSince(g)
<1> PICK S : S = {g.ownerSince} \cup {g.since[s] : s \in Slots}
  OBVIOUS
<1>1. g.ownerSince \in 0 .. n /\ \A s \in Slots : g.since[s] \in 0 .. n
  BY GhostFields
<1>2. S \in SUBSET (0 .. n) /\ S # {}
  BY <1>1
<1>3. S \in SUBSET Nat /\ \A x \in S : x <= n
  BY <1>2
<1>4. \E m \in S : \A x \in S : x <= m
  BY <1>2, <1>3, HasMax
<1>5. \E m \in S : \A x \in S : m >= x
  BY <1>3, <1>4
<1>6. MaxSince(g) = CHOOSE m \in S : \A x \in S : m >= x
  BY DEF MaxSince, Max
<1> PICK m : m = MaxSince(g)
  OBVIOUS
<1>7. m \in S /\ \A x \in S : m >= x
  BY <1>5, <1>6
<1>8. m \in 0 .. n /\ \A x \in S : x <= m
  BY <1>2, <1>3, <1>7
<1> QED
  BY <1>8

\* What is clean stays so when only the order of sending changes.
LEMMA CleanAgrees ==
  ASSUME NEW g, NEW h, Agrees(h, g), NEW current, is_clean(g, current)
  PROVE  is_clean(h, current)
<1>1. h.latest = g.latest /\ h.written = g.written /\ h.confirmed = g.confirmed /\ MaxSince(h) = MaxSince(g)
  BY DEF Agrees, MaxSince
<1> QED
  BY <1>1 DEF is_clean

\* What the peer acknowledged all of, the client has.
LEMMA CleanKnown ==
  ASSUME NEW n \in Nat, NEW g \in Ghosts(n), NEW i, NEW d, NEW a \in SUBSET (1 .. n),
         GhostInv(g, i, n, d, a), ~g.leaving, NEW current, is_clean(g, current)
  PROVE  OwnerIs(current.owner, i, n, d, a) /\ \A s \in Slots : SlotIs(current.slot[s], s, i, n, d, a)
<1>1. g.written /\ g.confirmed >= MaxSince(g) /\ g.latest = current
  BY DEF is_clean
<1>2. MaxSince(g) \in 0 .. n /\ g.ownerSince <= MaxSince(g) /\ \A s \in Slots : g.since[s] <= MaxSince(g)
  BY MaxSinceFacts
<1>3. g.ownerSince \in 0 .. n /\ g.confirmed \in 0 .. n /\ \A s \in Slots : g.since[s] \in 0 .. n
  BY GhostFields
<1>4. g.ownerSince > 0
  BY <1>1 DEF GhostInv, PresentInv
<1>5. g.confirmed = 0 \/ (g.confirmed \in a /\ i \in DOMAIN d[g.confirmed].records)
  BY DEF GhostInv, ConfirmedInv
<1> PICK c : c = g.confirmed
  OBVIOUS
<1>6. /\ c \in a /\ c >= g.ownerSince /\ i \in DOMAIN d[c].records
      /\ \A s \in Slots : c >= g.since[s]
  BY <1>1, <1>2, <1>3, <1>4, <1>5
<1>7. OwnerIs(g.latest.owner, i, n, d, a)
  BY <1>1, <1>6, OwnerKnown
<1>8. \A s \in Slots : SlotIs(g.latest.slot[s], s, i, n, d, a)
  BY <1>1, <1>6, SlotKnown
<1> QED
  BY <1>1, <1>7, <1>8

\* What leaves and what does not, once the table is brought up to the view.
LEMMA BroughtLeaving ==
  ASSUME NEW n \in Nat, NEW t \in Nat, t = n + 1, NEW table \in Tables(n), NEW rel \in States,
         NEW B, B = Brought(table, rel, t)
  PROVE  /\ \A i \in DOMAIN rel : i \in DOMAIN B /\ ~B[i].leaving
         /\ \A i \in DOMAIN B \ DOMAIN rel : B[i].leaving
<1>1. /\ DOMAIN B = {i \in DOMAIN table \ DOMAIN rel : table[i].written} \cup DOMAIN rel
      /\ B \in Tables(t)
      /\ \A i \in DOMAIN rel :
           IF i \in DOMAIN table
           THEN IF table[i].leaving THEN StartsOver(B[i], table[i], t) ELSE Agrees(B[i], table[i])
           ELSE Agrees(B[i], NewGhost)
      /\ \A i \in DOMAIN B \ DOMAIN rel :
           IF table[i].leaving THEN Agrees(B[i], table[i]) ELSE StartsLeaving(B[i], table[i], t)
  BY BroughtFacts
<1>2. \A i \in DOMAIN table : table[i].leaving \in BOOLEAN
  BY TableType, GhostFields
<1>3. \A i \in DOMAIN rel : i \in DOMAIN B /\ ~B[i].leaving
  <2> TAKE i \in DOMAIN rel
  <2>1. i \in DOMAIN B
    BY <1>1
  <2>2. CASE i \in DOMAIN table /\ table[i].leaving
    BY <1>1, <2>1, <2>2 DEF StartsOver
  <2>3. CASE i \in DOMAIN table /\ ~table[i].leaving
    BY <1>1, <2>1, <2>3 DEF Agrees
  <2>4. CASE i \notin DOMAIN table
    BY <1>1, <2>1, <2>4 DEF Agrees, NewGhost
  <2> QED
    BY <2>2, <2>3, <2>4
<1>4. \A i \in DOMAIN B \ DOMAIN rel : B[i].leaving
  BY <1>1, <1>2 DEF StartsLeaving, Agrees
<1> QED
  BY <1>3, <1>4

\* After a send that deferred nothing, whoever takes the snapshot knows the whole view.
LEMMA SendView ==
  ASSUME NEW n \in Nat, NEW t \in Nat, t = n + 1, NEW table \in Tables(n), NEW rel \in States,
         NEW B, B = Brought(table, rel, t), NEW b, b = build(table, rel, t),
         NEW d, NEW e, Same(d, e, n), e[t] = b.delta,
         NEW a \in SUBSET (1 .. n), TableInv(table, n, d, a),
         Candidates(B, rel) = DOMAIN b.delta.records, Leaving(B) = b.delta.removed
  PROVE  ViewInv(rel, t, e, a \cup {t}) /\ LastInv(b.ghosts, rel, t, e)
<1> PICK c : c = a \cup {t}
  OBVIOUS
<1> c \in SUBSET (1 .. t)
  OBVIOUS
<1> PICK G : G = b.ghosts
  OBVIOUS
<1>1. TableInv(G, t, e, c)
  <2>1. TableInv(b.ghosts, t, e, a)
    BY SendTable
  <2> a \subseteq c
    OBVIOUS
  <2> QED
    BY <2>1, GrowTable
<1>2. /\ \A i \in DOMAIN rel : i \in DOMAIN B /\ ~B[i].leaving
      /\ \A i \in DOMAIN B \ DOMAIN rel : B[i].leaving
  BY BroughtLeaving
<1>3. /\ DOMAIN b.delta.records \subseteq Candidates(B, rel) /\ b.delta.removed \subseteq Leaving(B)
      /\ b.delta \in Deltas /\ b.ghosts \in Tables(t) /\ DOMAIN b.ghosts = DOMAIN B
      /\ \A i \in DOMAIN b.delta.records :
           \E h \in Ghosts(t) : /\ Agrees(h, B[i]) /\ b.delta.records[i] = dirty_write(h, rel[i])
                                /\ b.ghosts[i] = commit_write(h, rel[i], t)
      /\ \A i \in DOMAIN B \ DOMAIN b.delta.records : Agrees(b.ghosts[i], B[i])
  BY BuildFacts
<1>4. /\ DOMAIN G = DOMAIN B /\ G \in Tables(t)
      /\ \A i \in DOMAIN e[t].records :
           \E h \in Ghosts(t) : Agrees(h, B[i]) /\ G[i] = commit_write(h, rel[i], t)
      /\ \A i \in DOMAIN B \ DOMAIN e[t].records : Agrees(G[i], B[i])
  BY <1>3
<1>5. /\ DOMAIN e[t].records = Candidates(B, rel) /\ e[t].removed = Leaving(B)
      /\ \A i \in DOMAIN rel : i \in Ids
  BY DEF States
<1>6. \A i \in DOMAIN G : i \in Ids /\ G[i] \in Ghosts(t)
  BY <1>4, TableType
<1>7. \A i \in DOMAIN G : GhostInv(G[i], i, t, e, c)
  BY <1>1, <1>6 DEF TableInv
<1>8. ASSUME NEW i \in DOMAIN rel
      PROVE  /\ i \in DOMAIN G /\ G[i].written /\ ~G[i].leaving /\ G[i].latest = rel[i]
             /\ \/ i \in DOMAIN e[t].records
                \/ is_clean(G[i], rel[i])
  <2>1. i \in DOMAIN G /\ i \in DOMAIN B /\ ~B[i].leaving
    BY <1>2, <1>4
  <2>2. CASE i \in DOMAIN e[t].records
    <3>1. PICK h \in Ghosts(t) : Agrees(h, B[i]) /\ G[i] = commit_write(h, rel[i], t)
      BY <1>4, <2>2
    <3> PICK k, x : k = G[i] /\ x = rel[i]
      OBVIOUS
    <3>2. k = commit_write(h, x, t)
      BY <3>1
    <3>3. k.written = TRUE /\ k.latest = x /\ k.leaving = h.leaving
      BY ONLY <3>2, h \in Ghosts(t) DEF commit_write, Ghosts
    <3>4. ~h.leaving
      BY <2>1, <3>1 DEF Agrees
    <3> QED
      BY <2>1, <2>2, <3>3, <3>4
  <2>3. CASE i \notin DOMAIN e[t].records
    <3>1. is_clean(B[i], rel[i]) /\ Agrees(G[i], B[i])
      BY <1>4, <1>5, <2>1, <2>3 DEF Candidates
    <3>2. is_clean(G[i], rel[i]) /\ G[i].leaving = FALSE
      BY <2>1, <3>1, CleanAgrees DEF Agrees
    <3> QED
      BY <2>1, <3>2 DEF is_clean
  <2> QED
    BY <2>2, <2>3
<1>9. ASSUME NEW i \in DOMAIN rel
      PROVE  /\ OwnerIs(rel[i].owner, i, t, e, c)
             /\ \A s \in Slots : SlotIs(rel[i].slot[s], s, i, t, e, c)
  <2> PICK g \in Ghosts(t) : g = G[i]
    BY <1>6, <1>8
  <2>1. GhostInv(g, i, t, e, c) /\ g.written /\ ~g.leaving /\ g.latest = rel[i]
    BY <1>7, <1>8
  <2>2. CASE is_clean(G[i], rel[i])
    <3> PICK x : x = rel[i]
      OBVIOUS
    <3>1. is_clean(g, x)
      BY <2>2
    <3>2. OwnerIs(x.owner, i, t, e, c) /\ \A s \in Slots : SlotIs(x.slot[s], s, i, t, e, c)
      BY <2>1, <3>1, CleanKnown
    <3> QED
      BY <3>2
  <2>3. CASE i \in DOMAIN e[t].records
    <3>1. t \in c /\ t >= g.ownerSince /\ \A s \in Slots : t >= g.since[s]
      BY GhostFields
    <3>2. OwnerIs(g.latest.owner, i, t, e, c)
      BY <2>1, <2>3, <3>1, OwnerKnown
    <3>3. \A s \in Slots : SlotIs(g.latest.slot[s], s, i, t, e, c)
      BY <2>1, <2>3, <3>1, SlotKnown
    <3> QED
      BY <2>1, <3>2, <3>3
  <2> QED
    BY <1>8, <2>2, <2>3
<1>10. ASSUME NEW i \in Ids, i \notin DOMAIN rel
       PROVE  /\ Gone(i, t, e, c)
              /\ i \in DOMAIN G => G[i].leaving /\ i \in e[t].removed
  <2>1. CASE i \in DOMAIN G
    <3>1. B[i].leaving /\ i \in e[t].removed
      BY <1>2, <1>4, <1>5, <1>10, <2>1 DEF Leaving
    <3>2. i \notin DOMAIN e[t].records
      BY <1>5, <1>10 DEF Candidates
    <3>3. G[i].leaving
      BY <1>4, <2>1, <3>1, <3>2 DEF Agrees
    <3>4. GoneSince(t, i, t, e)
      <4> \A w \in 1 .. t : w >= t => w = t
        OBVIOUS
      <4> QED
        BY <3>1, <3>2 DEF GoneSince
    <3> QED
      BY <3>1, <3>3, <3>4 DEF Gone
  <2>2. CASE i \notin DOMAIN G
    BY <1>1, <2>2 DEF TableInv
  <2> QED
    BY <2>1, <2>2
<1>11. ViewInv(rel, t, e, c)
  BY <1>9, <1>10 DEF ViewInv
<1>12. LastInv(G, rel, t, e)
  BY <1>8, <1>10 DEF LastInv
<1> QED
  BY <1>11, <1>12

--------------------------------------------------------------------------------
(* An acknowledgement.                                                          *)

LEMMA MaxOfTwo ==
  ASSUME NEW x \in Nat, NEW y \in Nat
  PROVE  Max({x, y}) = IF x >= y THEN x ELSE y
<1> PICK m : m = IF x >= y THEN x ELSE y
  OBVIOUS
<1>1. m \in {x, y} /\ \A z \in {x, y} : m >= z
  OBVIOUS
<1>2. \A k \in {x, y} : (\A z \in {x, y} : k >= z) => k = m
  OBVIOUS
<1> QED
  BY <1>1, <1>2 DEF Max

Confirm(g, t) == [g EXCEPT !.confirmed = Max({@, t})]

\* One entity: it is confirmed; nothing else changes.
LEMMA AckGhost ==
  ASSUME NEW n \in Nat, NEW g \in Ghosts(n), NEW t \in 0 .. n,
         NEW h, h = Confirm(g, t)
  PROVE  /\ h \in Ghosts(n) /\ h.latest = g.latest /\ h.written = g.written /\ h.since = g.since
         /\ h.ownerSince = g.ownerSince /\ h.leaving = g.leaving /\ h.leaveSince = g.leaveSince
         /\ h.confirmed \in {g.confirmed, t} /\ h.confirmed >= g.confirmed /\ h.confirmed >= t
         /\ MaxSince(h) = MaxSince(g)
<1>1. g.confirmed \in 0 .. n
  BY GhostFields
<1> PICK c : c = Max({g.confirmed, t})
  OBVIOUS
<1>2. c \in {g.confirmed, t} /\ c >= g.confirmed /\ c >= t /\ c \in 0 .. n
  BY <1>1, MaxOfTwo
<1>3. h = [g EXCEPT !.confirmed = c]
  BY DEF Confirm
<1>4. /\ h \in Ghosts(n) /\ h.latest = g.latest /\ h.written = g.written /\ h.since = g.since
      /\ h.ownerSince = g.ownerSince /\ h.leaving = g.leaving /\ h.leaveSince = g.leaveSince
      /\ h.confirmed = c
  <2>1. h \in Ghosts(n)
    BY <1>2, <1>3 DEF Ghosts
  <2>2. /\ h.latest = g.latest /\ h.written = g.written /\ h.since = g.since
        /\ h.ownerSince = g.ownerSince /\ h.leaving = g.leaving /\ h.leaveSince = g.leaveSince
        /\ h.confirmed = c
    BY <1>3 DEF Ghosts
  <2> QED
    BY <2>1, <2>2
<1>5. MaxSince(h) = MaxSince(g)
  BY <1>4 DEF MaxSince
<1> QED
  BY <1>2, <1>4, <1>5

\* The table after it, entity by entity.
LEMMA ConfirmedFacts ==
  ASSUME NEW n \in Nat, NEW table \in Tables(n), NEW t \in 0 .. n, NEW D,
         NEW T, T = Confirmed(table, D, t)
  PROVE  /\ T \in Tables(n) /\ DOMAIN T \subseteq DOMAIN table
         /\ \A i \in DOMAIN table \ DOMAIN T :
              i \in D.removed /\ table[i].leaving /\ t >= table[i].leaveSince
         /\ \A i \in DOMAIN T :
              /\ T[i] = IF i \in DOMAIN D.records THEN Confirm(table[i], t)
                        ELSE table[i]
              /\ ~(i \in D.removed /\ table[i].leaving /\ t >= table[i].leaveSince)
<1>1. /\ DOMAIN T = DOMAIN table \ {i \in D.removed \cap DOMAIN table :
                                      table[i].leaving /\ t >= table[i].leaveSince}
      /\ T = [i \in DOMAIN T |-> T[i]]
      /\ \A i \in DOMAIN T :
           T[i] = IF i \in DOMAIN D.records THEN Confirm(table[i], t) ELSE table[i]
  BY DEF Confirmed, Confirm
<1>2. DOMAIN table \subseteq Ids /\ \A i \in DOMAIN table : table[i] \in Ghosts(n)
  BY TableType
<1>3. ASSUME NEW i \in DOMAIN T PROVE T[i] \in Ghosts(n)
  <2> PICK g \in Ghosts(n) : g = table[i]
    BY <1>1, <1>2
  <2> PICK h : h = Confirm(g, t)
    OBVIOUS
  <2>1. h \in Ghosts(n)
    BY AckGhost
  <2> QED
    BY <1>1, <2>1
<1>4. T \in Tables(n)
  <2> DOMAIN T \subseteq Ids
    BY <1>1, <1>2
  <2> QED
    BY <1>1, <1>3, TableType
<1> QED
  BY <1>1, <1>4

LEMMA AckTable ==
  ASSUME NEW n \in Nat, NEW table \in Tables(n), NEW d, NEW t \in 1 .. n, NEW a \in SUBSET (1 .. n), t \in a,
         TableInv(table, n, d, a), NEW T, T = Confirmed(table, d[t], t)
  PROVE  T \in Tables(n) /\ TableInv(T, n, d, a)
<1>1. /\ T \in Tables(n) /\ DOMAIN T \subseteq DOMAIN table
      /\ \A i \in DOMAIN table \ DOMAIN T :
           i \in d[t].removed /\ table[i].leaving /\ t >= table[i].leaveSince
      /\ \A i \in DOMAIN T :
           /\ T[i] = IF i \in DOMAIN d[t].records THEN Confirm(table[i], t)
                     ELSE table[i]
           /\ ~(i \in d[t].removed /\ table[i].leaving /\ t >= table[i].leaveSince)
  <2> PICK D, m : D = d[t] /\ m = t
    OBVIOUS
  <2>1. m \in 0 .. n /\ T = Confirmed(table, D, m)
    OBVIOUS
  <2>2. T \in Tables(n) /\ DOMAIN T \subseteq DOMAIN table
    BY ONLY n \in Nat, table \in Tables(n), <2>1, ConfirmedFacts
  <2>3. \A i \in DOMAIN table \ DOMAIN T :
          i \in D.removed /\ table[i].leaving /\ m >= table[i].leaveSince
    BY ONLY n \in Nat, table \in Tables(n), <2>1, ConfirmedFacts
  <2>4. \A i \in DOMAIN T :
          T[i] = IF i \in DOMAIN D.records THEN Confirm(table[i], m) ELSE table[i]
    BY ONLY n \in Nat, table \in Tables(n), <2>1, ConfirmedFacts
  <2>5. \A i \in DOMAIN T : ~(i \in D.removed /\ table[i].leaving /\ m >= table[i].leaveSince)
    BY ONLY n \in Nat, table \in Tables(n), <2>1, ConfirmedFacts
  <2> QED
    BY <2>2, <2>3, <2>4, <2>5
<1>2. \A i \in DOMAIN table : i \in Ids /\ table[i] \in Ghosts(n)
  BY TableType
<1>3. ASSUME NEW i \in Ids, i \in DOMAIN T PROVE GhostInv(T[i], i, n, d, a)
  <2> PICK g \in Ghosts(n) : g = table[i]
    BY <1>1, <1>2, <1>3
  <2>1. GhostInv(g, i, n, d, a)
    BY <1>1, <1>3 DEF TableInv
  <2>2. CASE i \notin DOMAIN d[t].records
    BY <1>1, <1>3, <2>1, <2>2
  <2>3. CASE i \in DOMAIN d[t].records
    <3> PICK h : h = Confirm(g, t)
      OBVIOUS
    <3>1. h = T[i]
      BY <1>1, <1>3, <2>3
    <3> t \in 0 .. n
      OBVIOUS
    <3>2. /\ h.latest = g.latest /\ h.written = g.written /\ h.since = g.since
          /\ h.ownerSince = g.ownerSince /\ h.leaving = g.leaving /\ h.leaveSince = g.leaveSince
          /\ h.confirmed \in {g.confirmed, t}
      BY AckGhost
    <3>3. UnwrittenInv(h, i, n, d, a)
      BY <2>1, <3>2 DEF GhostInv, UnwrittenInv
    <3>4. LeavingInv(h, i, n, d)
      BY <2>1, <3>2 DEF GhostInv, LeavingInv
    <3>5. PresentInv(h, i, n, d, a)
      BY <2>1, <3>2 DEF GhostInv, PresentInv
    <3>6. ConfirmedInv(h, i, d, a)
      BY <2>1, <2>3, <3>2 DEF GhostInv, ConfirmedInv
    <3>7. GhostInv(h, i, n, d, a)
      BY <3>3, <3>4, <3>5, <3>6 DEF GhostInv
    <3> QED
      BY <3>1, <3>7
  <2> QED
    BY <2>2, <2>3
<1>4. ASSUME NEW i \in Ids, i \notin DOMAIN T PROVE Gone(i, n, d, a)
  <2>1. CASE i \notin DOMAIN table
    BY <2>1 DEF TableInv
  <2>2. CASE i \in DOMAIN table
    <3>1. i \in d[t].removed /\ table[i].leaving /\ t >= table[i].leaveSince
      BY <1>1, <1>4, <2>2
    <3>2. GhostInv(table[i], i, n, d, a) /\ table[i].leaveSince \in 0 .. n
      BY <1>2, <2>2, GhostFields DEF TableInv
    <3>3. \A w \in table[i].leaveSince .. n : i \notin DOMAIN d[w].records
      BY <3>1, <3>2 DEF GhostInv, LeavingInv
    <3>4. \A w \in 1 .. n : w >= t => i \notin DOMAIN d[w].records
      BY <3>1, <3>2, <3>3
    <3>5. GoneSince(t, i, n, d)
      <4> t <= n
        OBVIOUS
      <4> QED
        BY ONLY <3>1, <3>4, t <= n DEF GoneSince
    <3> QED
      BY <3>5 DEF Gone
  <2> QED
    BY <2>1, <2>2
<1> QED
  BY <1>1, <1>3, <1>4 DEF TableInv

\* It takes nothing back of what the last send left, and that of the last snapshot leaves nothing to do.
LEMMA AckLast ==
  ASSUME NEW n \in Nat, NEW table \in Tables(n), NEW d, NEW t \in 1 .. n, NEW view \in States,
         LastInv(table, view, n, d), NEW T, T = Confirmed(table, d[t], t)
  PROVE  LastInv(T, view, n, d) /\ (t = n => Quiet(T, view))
<1>1. /\ T \in Tables(n) /\ DOMAIN T \subseteq DOMAIN table
      /\ \A i \in DOMAIN table \ DOMAIN T :
           i \in d[t].removed /\ table[i].leaving /\ t >= table[i].leaveSince
      /\ \A i \in DOMAIN T :
           /\ T[i] = IF i \in DOMAIN d[t].records THEN Confirm(table[i], t)
                     ELSE table[i]
           /\ ~(i \in d[t].removed /\ table[i].leaving /\ t >= table[i].leaveSince)
  <2> PICK D, m : D = d[t] /\ m = t
    OBVIOUS
  <2>1. m \in 0 .. n /\ T = Confirmed(table, D, m)
    OBVIOUS
  <2>2. T \in Tables(n) /\ DOMAIN T \subseteq DOMAIN table
    BY ONLY n \in Nat, table \in Tables(n), <2>1, ConfirmedFacts
  <2>3. \A i \in DOMAIN table \ DOMAIN T :
          i \in D.removed /\ table[i].leaving /\ m >= table[i].leaveSince
    BY ONLY n \in Nat, table \in Tables(n), <2>1, ConfirmedFacts
  <2>4. \A i \in DOMAIN T :
          T[i] = IF i \in DOMAIN D.records THEN Confirm(table[i], m) ELSE table[i]
    BY ONLY n \in Nat, table \in Tables(n), <2>1, ConfirmedFacts
  <2>5. \A i \in DOMAIN T : ~(i \in D.removed /\ table[i].leaving /\ m >= table[i].leaveSince)
    BY ONLY n \in Nat, table \in Tables(n), <2>1, ConfirmedFacts
  <2> QED
    BY <2>2, <2>3, <2>4, <2>5
<1>2. \A i \in DOMAIN table : i \in Ids /\ table[i] \in Ghosts(n)
  BY TableType
<1>3. \A i \in DOMAIN view : i \in Ids
  BY DEF States
<1>4. ASSUME NEW i \in DOMAIN view
      PROVE  /\ i \in DOMAIN T /\ T[i].written /\ ~T[i].leaving /\ T[i].latest = view[i]
             /\ i \in DOMAIN d[n].records \/ is_clean(T[i], view[i])
             /\ t = n => is_clean(T[i], view[i])
  <2>1. /\ i \in DOMAIN table /\ table[i].written /\ ~table[i].leaving /\ table[i].latest = view[i]
        /\ i \in DOMAIN d[n].records \/ is_clean(table[i], view[i])
    BY <1>3 DEF LastInv
  <2>2. i \in DOMAIN T
    BY <1>1, <2>1
  <2> PICK g \in Ghosts(n) : g = table[i]
    BY <1>2, <2>1
  <2> PICK x : x = view[i]
    OBVIOUS
  <2>3. /\ g.written /\ ~g.leaving /\ g.latest = x /\ (i \in DOMAIN d[n].records \/ is_clean(g, x))
    BY <2>1
  <2>4. CASE i \notin DOMAIN d[t].records
    <3>1. T[i] = g
      BY <1>1, <2>2, <2>4
    <3> QED
      BY <2>2, <2>3, <2>4, <3>1
  <2>5. CASE i \in DOMAIN d[t].records
    <3> PICK h : h = Confirm(g, t)
      OBVIOUS
    <3>1. h = T[i]
      BY <1>1, <2>2, <2>5
    <3> t \in 0 .. n
      OBVIOUS
    <3>2. /\ h.latest = g.latest /\ h.written = g.written /\ h.leaving = g.leaving
          /\ h.confirmed \in {g.confirmed, t} /\ h.confirmed >= g.confirmed /\ h.confirmed >= t
          /\ MaxSince(h) = MaxSince(g)
      BY AckGhost
    <3>3. MaxSince(g) \in 0 .. n /\ g.confirmed \in 0 .. n
      BY MaxSinceFacts, GhostFields
    <3>4. is_clean(g, x) => is_clean(h, x)
      BY <3>2, <3>3 DEF is_clean
    <3>5. t = n => is_clean(h, x)
      BY <2>3, <3>2, <3>3 DEF is_clean
    <3> QED
      BY <2>2, <2>3, <3>1, <3>2, <3>4, <3>5
  <2> QED
    BY <2>4, <2>5
<1>5. ASSUME NEW i \in Ids, i \notin DOMAIN view, i \in DOMAIN T
      PROVE  T[i].leaving /\ i \in d[n].removed /\ t # n
  <2> PICK g \in Ghosts(n) : g = table[i]
    BY <1>1, <1>2, <1>5
  <2>1. g.leaving /\ i \in d[n].removed /\ g.leaveSince \in 0 .. n
    BY <1>1, <1>5, GhostFields DEF LastInv
  <2>2. T[i].leaving = g.leaving
    <3> PICK h : h = Confirm(g, t)
      OBVIOUS
    <3> t \in 0 .. n
      OBVIOUS
    <3> h.leaving = g.leaving
      BY AckGhost
    <3> QED
      BY <1>1, <1>5
  <2>3. t # n
    <3> SUFFICES ASSUME t = n PROVE FALSE
      OBVIOUS
    <3> t >= g.leaveSince /\ i \in d[t].removed
      BY <2>1
    <3> QED
      BY <1>1, <1>5, <2>1
  <2> QED
    BY <2>1, <2>2, <2>3
<1>6. LastInv(T, view, n, d)
  BY <1>4, <1>5 DEF LastInv
<1>7. ASSUME t = n PROVE Quiet(T, view)
  <2>1. DOMAIN T = DOMAIN view
    BY <1>1, <1>2, <1>3, <1>4, <1>5, <1>7
  <2> QED
    BY <1>4, <1>7, <2>1 DEF Quiet
<1> QED
  BY <1>6, <1>7

--------------------------------------------------------------------------------
(* The actions.                                                                 *)

\* The part of TypeOK that is about the table.
LEMMA TablesTyped ==
  ASSUME NEW n \in Nat, NEW table \in Tables(n)
  PROVE  /\ DOMAIN table \subseteq Ids
         /\ \A i \in DOMAIN table :
              /\ table[i].latest \in Contents \cup {NoContent} /\ table[i].since \in [Slots -> 0 .. n]
              /\ {table[i].ownerSince, table[i].confirmed, table[i].leaveSince, table[i].lastListed}
                   \subseteq 0 .. n
              /\ table[i].written \in BOOLEAN /\ table[i].leaving \in BOOLEAN
              /\ table[i].accumulator \in Nat
BY TableType, GhostFields

\* A buffer and later snapshots.
LEMMA SameBuffer ==
  ASSUME NEW n \in Nat, NEW d, NEW e, Same(d, e, n), NEW a \in SUBSET (1 .. n),
         NEW buf, BufferInv(buf, d, a)
  PROVE  BufferInv(buf, e, a)
<1>1. \A t \in a : d[t] = e[t]
  BY DEF Same
<1>2. Whole(d, a) = Whole(e, a)
  BY <1>1 DEF Whole
<1> PICK f : f = Floor(newest(buf))
  OBVIOUS
<1>3. Ideal(f, d, a) = Ideal(f, e, a)
  BY <1>2 DEF Ideal
<1>4. [t \in {u \in a : u > f} |-> d[t]] = [t \in {u \in a : u > f} |-> e[t]]
  BY <1>1
<1> QED
  BY <1>3, <1>4 DEF BufferInv

LEMMA InitInv ==
  Init => IInv
<1> SUFFICES ASSUME Init PROVE IInv
  OBVIOUS
<1>1. /\ tick = 0 /\ ghosts = NoState /\ sent = {} /\ net = NoState /\ acks = {}
      /\ buffer = NoEntries /\ history = NoState
  BY DEF Init
<1>2. DOMAIN NoState = {} /\ NoState \in States
  BY DEF NoState, States
<1>3. buffer.entries = NoState /\ buffer.base = NoState /\ newest(buffer) = 0
  BY <1>1, <1>2 DEF NoEntries, newest
<1>4. TypeOK
  BY <1>1, <1>2, <1>3, TickAssumption DEF TypeOK
<1>5. ghosts \in Tables(tick)
  <2> NoState = [i \in {} |-> NoState[i]]
    BY DEF NoState
  <2> QED
    BY <1>1, <1>2, TableType
<1>6. TableInv(ghosts, tick, net, acks)
  <2>1. \A i : GoneSince(0, i, 0, NoState)
    BY DEF GoneSince
  <2>2. \A i : Gone(i, 0, NoState, {})
    BY <2>1 DEF Gone
  <2> QED
    BY <1>1, <1>2, <2>2 DEF TableInv
<1>7. \A t : t \notin 1 .. tick
  BY <1>1
<1>8. BufferInv(buffer, net, acks)
  <2>1. Floor(0) = 0
    BY FloorType
  <2>2. Ideal(0, NoState, {}) = NoState
    BY StateAtBase DEF Ideal, Whole
  <2>3. buffer = [entries |-> NoState, base |-> NoState]
    BY <1>1 DEF NoEntries
  <2>4. [t \in {u \in {} : u > 0} |-> NoState[t]] = NoState
    BY DEF NoState
  <2> QED
    BY <1>1, <1>3, <2>1, <2>2, <2>3, <2>4 DEF BufferInv
<1> QED
  BY <1>1, <1>4, <1>5, <1>6, <1>7, <1>8 DEF IInv

LEMMA SendInv ==
  ASSUME IInv, NEW view \in Views, SendSnapshot(view)
  PROVE  IInv'
<1> PICK n, t : n = tick /\ t = tick + 1
  OBVIOUS
<1> PICK table, b, d, a, buf : table = ghosts /\ b = build(ghosts, view, t) /\ d = net /\ a = acks /\ buf = buffer
  OBVIOUS
<1>1. TypeOK
  BY DEF IInv
<1>2. /\ n \in Nat /\ n \in 0 .. MaxTick /\ DOMAIN net = 1 .. n /\ DOMAIN history = 1 .. n
      /\ sent \subseteq 1 .. n /\ a \in SUBSET (1 .. n) /\ DOMAIN buffer.entries \subseteq acks
  BY <1>1, TickAssumption DEF TypeOK
<1>3. /\ t \in Nat /\ t = n + 1 /\ t \in 1 .. MaxTick /\ view \in States
      /\ 1 .. t = 1 .. n \cup {t} /\ t \notin 1 .. n
  BY <1>2, ViewsAssumption, TickAssumption DEF SendSnapshot, Ticks
<1>4. /\ tick' = t /\ ghosts' = b.ghosts /\ sent' = InWindow(sent, t) \cup {t}
      /\ net' = Extended(net, t, b.delta) /\ acks' = acks /\ buffer' = buffer
      /\ history' = Extended(history, t, [view |-> view,
                                          complete |-> Complete(ghosts, view, b.delta, t)])
  BY DEF SendSnapshot
<1> PICK e, hist, G : e = net' /\ hist = history' /\ G = ghosts'
  OBVIOUS
<1>5. /\ DOMAIN e = 1 .. t /\ e[t] = b.delta /\ (\A w \in 1 .. n : e[w] = net[w])
      /\ DOMAIN hist = 1 .. t /\ (\A w \in 1 .. n : hist[w] = history[w])
      /\ hist[t].view = view /\ hist[t].complete = Complete(ghosts, view, b.delta, t)
  BY <1>2, <1>3, <1>4 DEF Extended
<1>6. Same(d, e, n) /\ \A w \in 1 .. n : Same(d, e, w)
  <2>1. \A w \in 1 .. n : d[w] = e[w]
    BY <1>5
  <2>2. \A w \in 1 .. n : \A u \in 1 .. w : u \in 1 .. n
    BY <1>2
  <2> QED
    BY <2>1, <2>2 DEF Same
<1>7. table \in Tables(n) /\ TableInv(table, n, d, a) /\ BufferInv(buf, d, a)
  BY DEF IInv
<1>8. /\ DOMAIN b.delta.records \subseteq Candidates(Brought(table, view, t), view)
      /\ b.delta \in Deltas /\ b.ghosts \in Tables(t)
  <2> PICK B : B = Brought(table, view, t)
    OBVIOUS
  <2>1. /\ DOMAIN b.delta.records \subseteq Candidates(B, view) /\ b.delta.removed \subseteq Leaving(B)
        /\ b.delta \in Deltas /\ b.ghosts \in Tables(t) /\ DOMAIN b.ghosts = DOMAIN B
        /\ \A i \in DOMAIN b.delta.records :
             \E h \in Ghosts(t) : /\ Agrees(h, B[i]) /\ b.delta.records[i] = dirty_write(h, view[i])
                                  /\ b.ghosts[i] = commit_write(h, view[i], t)
        /\ \A i \in DOMAIN B \ DOMAIN b.delta.records : Agrees(b.ghosts[i], B[i])
    BY <1>2, <1>3, <1>7, BuildFacts
  <2> QED
    BY <2>1
<1>9. TableInv(b.ghosts, t, e, a) /\ RecordInv(t, e, a)
  BY <1>2, <1>3, <1>5, <1>6, <1>7, SendTable
<1>10. TypeOK'
  <2>1. tick' \in 0 .. MaxTick /\ DOMAIN net' = 1 .. tick' /\ DOMAIN history' = 1 .. tick'
    BY <1>3, <1>4, <1>5
  <2>2. \A w \in DOMAIN net' : net'[w] \in Deltas /\ history'[w].view \in Views
    BY <1>1, <1>2, <1>3, <1>5, <1>8 DEF TypeOK
  <2>3. /\ DOMAIN G \subseteq Ids
        /\ \A i \in DOMAIN G :
              /\ G[i].latest \in Contents \cup {NoContent} /\ G[i].since \in [Slots -> 0 .. t]
              /\ {G[i].ownerSince, G[i].confirmed, G[i].leaveSince, G[i].lastListed} \subseteq 0 .. t
              /\ G[i].written \in BOOLEAN /\ G[i].leaving \in BOOLEAN /\ G[i].accumulator \in Nat
    BY <1>3, <1>4, <1>8, TablesTyped
  <2>4. sent' \subseteq DOMAIN net' /\ \A w \in sent' : w + Window > tick'
    <3> t + Window > t
      BY <1>3, WindowAssumption
    <3> QED
      BY <1>2, <1>3, <1>4, <1>5 DEF InWindow
  <2>5. DOMAIN buffer'.entries \subseteq acks' /\ acks' \subseteq DOMAIN net'
    BY <1>2, <1>3, <1>4, <1>5
  <2>6. /\ \A w \in DOMAIN buffer'.entries : buffer'.entries[w] = net'[w] /\ w + Window > newest(buffer')
        /\ buffer'.base \in States
    <3>1. /\ \A w \in DOMAIN buffer.entries : buffer.entries[w] = net[w] /\ w + Window > newest(buffer)
          /\ buffer.base \in States
      BY <1>1 DEF TypeOK
    <3> QED
      BY <1>2, <1>4, <1>5, <3>1
  <2> QED
    BY <1>4, <2>1, <2>2, <2>3, <2>4, <2>5, <2>6 DEF TypeOK
<1>11. \A w \in 1 .. t : RecordInv(w, e, a)
  <2>1. \A w \in 1 .. n : RecordInv(w, d, a)
    BY DEF IInv
  <2>2. \A w \in 1 .. n : RecordInv(w, e, a)
    BY <1>2, <1>6, <2>1, SameRecord
  <2> QED
    BY <1>3, <1>9, <2>2
<1>12. hist[t].complete => ViewInv(hist[t].view, t, e, a \cup {t}) /\ LastInv(b.ghosts, hist[t].view, t, e)
  <2> SUFFICES ASSUME hist[t].complete
               PROVE  ViewInv(view, t, e, a \cup {t}) /\ LastInv(b.ghosts, view, t, e)
    BY <1>5
  <2> PICK B : B = Brought(table, view, t)
    OBVIOUS
  <2>1. Candidates(B, view) = DOMAIN b.delta.records /\ Leaving(B) = b.delta.removed
    BY <1>5 DEF Complete
  <2> QED
    BY <1>2, <1>3, <1>5, <1>6, <1>7, <2>1, SendView
<1>13. \A w \in 1 .. n : hist[w].complete => ViewInv(hist[w].view, w, e, a \cup {w})
  <2> SUFFICES ASSUME NEW w \in 1 .. n, hist[w].complete PROVE ViewInv(hist[w].view, w, e, a \cup {w})
    OBVIOUS
  <2>1. ViewInv(hist[w].view, w, d, a \cup {w})
    BY <1>2, <1>5 DEF IInv
  <2>2. a \cup {w} \in SUBSET (Nat \ {0}) /\ w \in Nat /\ Same(d, e, w)
    BY <1>2, <1>6
  <2> QED
    BY <2>1, <2>2, SameView
<1>14. BufferInv(buf, e, a)
  BY <1>2, <1>6, <1>7, SameBuffer
<1> QED
  BY <1>3, <1>4, <1>8, <1>9, <1>10, <1>11, <1>12, <1>13, <1>14 DEF IInv

LEMMA ReceiveInv ==
  ASSUME IInv, NEW t \in Ticks, ReceiveSnapshot(t)
  PROVE  IInv'
<1> PICK n, table, d, a, buf : n = tick /\ table = ghosts /\ d = net /\ a = acks /\ buf = buffer
  OBVIOUS
<1>1. TypeOK
  BY DEF IInv
<1>2. /\ n \in Nat /\ DOMAIN net = 1 .. n /\ DOMAIN history = 1 .. n
      /\ a \in SUBSET (1 .. n) /\ DOMAIN buffer.entries \subseteq acks /\ buffer.base \in States
      /\ \A w \in 1 .. n : d[w] \in Deltas
  BY <1>1, TickAssumption DEF TypeOK
<1>3. /\ t \in 1 .. n /\ tick' = tick /\ ghosts' = ghosts /\ sent' = sent /\ net' = net /\ history' = history
  BY <1>2 DEF ReceiveSnapshot
<1>4. /\ table \in Tables(n) /\ TableInv(table, n, d, a) /\ BufferInv(buf, d, a)
      /\ \A w \in 1 .. n : RecordInv(w, d, a)
      /\ \A w \in 1 .. n : history[w].complete => ViewInv(history[w].view, w, d, a \cup {w})
      /\ n > 0 /\ history[n].complete => LastInv(table, history[n].view, n, d)
  BY DEF IInv
<1> PICK c, new : c = acks' /\ new = buffer'
  OBVIOUS
\* Either nothing is new, or the snapshot is put into the buffer.
<1>5. /\ a \subseteq c /\ c \in SUBSET (1 .. n) /\ BufferInv(new, d, c)
  <2>1. CASE t \in DOMAIN buffer.entries /\ acks' = acks \cup {t} /\ UNCHANGED buffer
    <3> c = a /\ new = buf
      BY <1>2, <2>1
    <3> QED
      BY <1>2, <1>4
  <2>2. CASE Accepts(buffer, t, net[t]) /\ buffer' = insert(buffer, t, net[t]) /\ acks' = acks \cup {t}
    <3>1. Accepts(buf, t, d[t]) /\ new = insert(buf, t, d[t]) /\ c = a \cup {t}
      BY <2>2
    <3>2. BufferInv(insert(buf, t, d[t]), d, a \cup {t})
      BY <1>2, <1>3, <1>4, <3>1, InsertKeeps
    <3> QED
      BY <1>2, <1>3, <3>1, <3>2
  <2>3. CASE UNCHANGED <<acks, buffer>>
    <3> c = a /\ new = buf
      BY <2>3
    <3> QED
      BY <1>2, <1>4
  <2> QED
    BY <2>1, <2>2, <2>3 DEF ReceiveSnapshot
<1>6. TypeOK'
  <2>1. /\ tick' \in 0 .. MaxTick /\ DOMAIN net' = 1 .. tick' /\ DOMAIN history' = 1 .. tick'
        /\ \A w \in DOMAIN net' : net'[w] \in Deltas /\ history'[w].view \in Views
        /\ sent' \subseteq DOMAIN net' /\ \A w \in sent' : w + Window > tick'
    BY <1>1, <1>3 DEF TypeOK
  <2>2. /\ DOMAIN ghosts' \subseteq Ids
        /\ \A i \in DOMAIN ghosts' :
              /\ ghosts'[i].latest \in Contents \cup {NoContent} /\ ghosts'[i].since \in [Slots -> 0 .. tick']
              /\ {ghosts'[i].ownerSince, ghosts'[i].confirmed, ghosts'[i].leaveSince, ghosts'[i].lastListed}
                   \subseteq 0 .. tick'
              /\ ghosts'[i].written \in BOOLEAN /\ ghosts'[i].leaving \in BOOLEAN
              /\ ghosts'[i].accumulator \in Nat
    BY <1>1, <1>3 DEF TypeOK
  <2>3. PICK l \in 0 .. n, f \in Nat :
           /\ l = newest(new) /\ f = Floor(l) /\ f <= l /\ (l # 0 => l \in c /\ l > f)
           /\ DOMAIN new.entries = {u \in c : u > f} /\ DOMAIN new.entries \subseteq 1 .. n
           /\ \A k \in DOMAIN new.entries : new.entries[k] = d[k]
           /\ new.base = Ideal(f, d, c) /\ \A u \in c : u <= l
    BY <1>2, <1>5, BufferFacts
  <2>4. DOMAIN new.entries \subseteq c /\ c \subseteq 1 .. n
    BY <1>5, <2>3
  <2>5. \A w \in DOMAIN new.entries : w + Window > l
    <3> \A w \in DOMAIN new.entries : w > f /\ w \in Nat \ {0}
      BY <2>3
    <3> QED
      BY <2>3, FloorType
  <2>6. new.base \in States
    <3> \A w \in c : d[w] \in Deltas
      BY <1>2, <1>5
    <3> QED
      BY <2>3, IdealType
  <2>7. /\ DOMAIN buffer'.entries \subseteq acks' /\ acks' \subseteq DOMAIN net'
        /\ \A w \in DOMAIN buffer'.entries : buffer'.entries[w] = net'[w] /\ w + Window > newest(buffer')
        /\ buffer'.base \in States
    BY <1>2, <1>3, <2>3, <2>4, <2>5, <2>6
  <2> QED
    BY <2>1, <2>2, <2>7 DEF TypeOK
<1>7. TableInv(table, n, d, c)
  BY <1>4, <1>5, GrowTable
<1>8. \A w \in 1 .. n : RecordInv(w, d, c)
  BY <1>4, <1>5, GrowRecord
<1>9. \A w \in 1 .. n : history[w].complete => ViewInv(history[w].view, w, d, c \cup {w})
  <2> SUFFICES ASSUME NEW w \in 1 .. n, history[w].complete PROVE ViewInv(history[w].view, w, d, c \cup {w})
    OBVIOUS
  <2> PICK x, v : x = a \cup {w} /\ v = history[w].view
    OBVIOUS
  <2>1. ViewInv(v, w, d, x) /\ x \subseteq c \cup {w}
    BY <1>4, <1>5
  <2>2. ViewInv(v, w, d, c \cup {w})
    BY <2>1, GrowView
  <2> QED
    BY <2>2
<1> QED
  BY <1>3, <1>4, <1>5, <1>6, <1>7, <1>8, <1>9 DEF IInv

LEMMA AckInv ==
  ASSUME IInv, NEW t \in Ticks, ReceiveAck(t)
  PROVE  IInv'
<1> PICK n, table, d, a, buf, T :
      n = tick /\ table = ghosts /\ d = net /\ a = acks /\ buf = buffer /\ T = ghosts'
  OBVIOUS
<1>1. TypeOK
  BY DEF IInv
<1>2. /\ n \in Nat /\ DOMAIN net = 1 .. n /\ DOMAIN history = 1 .. n /\ a \in SUBSET (1 .. n)
      /\ \A w \in 1 .. n : history[w].view \in States
  BY <1>1, TickAssumption, ViewsAssumption DEF TypeOK
<1>3. /\ t \in a /\ t \in 1 .. n /\ tick' = tick /\ net' = net /\ acks' = acks /\ buffer' = buffer
      /\ history' = history /\ sent' \subseteq sent
  BY <1>2 DEF ReceiveAck
<1>4. /\ table \in Tables(n) /\ TableInv(table, n, d, a) /\ BufferInv(buf, d, a)
      /\ \A w \in 1 .. n : RecordInv(w, d, a)
      /\ \A w \in 1 .. n : history[w].complete => ViewInv(history[w].view, w, d, a \cup {w})
      /\ n > 0 /\ history[n].complete => LastInv(table, history[n].view, n, d)
  BY DEF IInv
<1>5. /\ T \in Tables(n) /\ TableInv(T, n, d, a)
      /\ n > 0 /\ history[n].complete => LastInv(T, history[n].view, n, d)
  <2>1. CASE T = table
    BY <1>4, <2>1
  <2>2. CASE T = Confirmed(table, d[t], t)
    <3>1. T \in Tables(n) /\ TableInv(T, n, d, a)
      BY <1>2, <1>3, <1>4, <2>2, AckTable
    <3>2. ASSUME n > 0, history[n].complete PROVE LastInv(T, history[n].view, n, d)
      <4> PICK view \in States : view = history[n].view
        BY <1>2, <3>2
      <4>1. LastInv(table, view, n, d)
        BY <1>4, <3>2
      <4>2. LastInv(T, view, n, d)
        BY <1>2, <1>3, <1>4, <2>2, <4>1, AckLast
      <4> QED
        BY <4>2
    <3> QED
      BY <3>1, <3>2
  <2> QED
    BY <2>1, <2>2 DEF ReceiveAck
<1>6. TypeOK'
  <2>1. /\ tick' \in 0 .. MaxTick /\ DOMAIN net' = 1 .. tick' /\ DOMAIN history' = 1 .. tick'
        /\ \A w \in DOMAIN net' : net'[w] \in Deltas /\ history'[w].view \in Views
        /\ sent' \subseteq DOMAIN net' /\ \A w \in sent' : w + Window > tick'
        /\ DOMAIN buffer'.entries \subseteq acks' /\ acks' \subseteq DOMAIN net'
        /\ \A w \in DOMAIN buffer'.entries : buffer'.entries[w] = net'[w] /\ w + Window > newest(buffer')
        /\ buffer'.base \in States
    BY <1>1, <1>3 DEF TypeOK
  <2>2. /\ DOMAIN T \subseteq Ids
        /\ \A i \in DOMAIN T :
              /\ T[i].latest \in Contents \cup {NoContent} /\ T[i].since \in [Slots -> 0 .. n]
              /\ {T[i].ownerSince, T[i].confirmed, T[i].leaveSince, T[i].lastListed} \subseteq 0 .. n
              /\ T[i].written \in BOOLEAN /\ T[i].leaving \in BOOLEAN /\ T[i].accumulator \in Nat
    BY <1>2, <1>5, TablesTyped
  <2> QED
    BY <1>3, <2>1, <2>2 DEF TypeOK
<1> QED
  BY <1>3, <1>4, <1>5, <1>6 DEF IInv

\* IInv is an invariant of the specification: every message and every ghost says what it seems to.
THEOREM Invariance ==
  Spec => []IInv
<1>1. IInv /\ [Next]_vars => IInv'
  <2> SUFFICES ASSUME IInv, [Next]_vars PROVE IInv'
    OBVIOUS
  <2>1. ASSUME NEW view \in Views, SendSnapshot(view) PROVE IInv'
    BY <2>1, SendInv
  <2>2. ASSUME NEW t \in Ticks, ReceiveSnapshot(t) PROVE IInv'
    BY <2>2, ReceiveInv
  <2>3. ASSUME NEW t \in Ticks, ReceiveAck(t) PROVE IInv'
    BY <2>3, AckInv
  <2>4. CASE UNCHANGED vars
    <3> tick' = tick /\ ghosts' = ghosts /\ sent' = sent /\ net' = net /\ acks' = acks
        /\ buffer' = buffer /\ history' = history
      BY <2>4 DEF vars
    <3>1. TypeOK'
      BY DEF IInv, TypeOK
    <3> QED
      BY <3>1 DEF IInv
  <2> QED
    BY <2>1, <2>2, <2>3, <2>4 DEF Next
<1> QED
  BY InitInv, <1>1, PTL DEF Spec

--------------------------------------------------------------------------------
(* What follows.                                                                *)

\* What IInv says, in names that do not change with the state.
LEMMA Consequences ==
  ASSUME IInv
  PROVE  \E n, table, d, a, buf, views :
           /\ n = tick /\ table = ghosts /\ d = net /\ a = acks /\ buf = buffer /\ views = history
           /\ n \in Nat /\ DOMAIN d = 1 .. n /\ a \in SUBSET (1 .. n) /\ a \in SUBSET (Nat \ {0})
           /\ \A w \in 1 .. n : d[w] \in Deltas /\ views[w].view \in States /\ RecordInv(w, d, a)
           /\ \A w \in 1 .. n : views[w].complete => ViewInv(views[w].view, w, d, a \cup {w})
           /\ table \in Tables(n) /\ TableInv(table, n, d, a) /\ BufferInv(buf, d, a)
           /\ n > 0 /\ views[n].complete => LastInv(table, views[n].view, n, d)
<1>1. TypeOK
  BY DEF IInv
<1>2. /\ tick \in Nat /\ DOMAIN net = 1 .. tick /\ acks \in SUBSET (1 .. tick)
      /\ \A w \in 1 .. tick : net[w] \in Deltas /\ history[w].view \in States
  BY <1>1, TickAssumption, ViewsAssumption DEF TypeOK
<1>3. acks \in SUBSET (Nat \ {0})
  BY <1>2
<1> QED
  BY <1>2, <1>3 DEF IInv

\* Every variable keeps its type: ghosts never name a tick that was not sent, the client holds and
\* acknowledges only what was sent, and neither side keeps more than the window.
THEOREM TypeCorrect ==
  Spec => []TypeOK
<1>1. IInv => TypeOK
  BY DEF IInv
<1> QED
  BY Invariance, <1>1, PTL

\* A snapshot that left nothing out brings the client's state at its tick to exactly the view the
\* server built it from: whatever was lost, doubled or overtaken before, in SnapshotBuffer.
THEOREM StatesAreExact ==
  Spec => []ExactStates
<1>1. IInv => ExactStates
  <2> SUFFICES ASSUME IInv, NEW t \in DOMAIN buffer.entries, history[t].complete
               PROVE  StateAt(buffer, t) = history[t].view
    BY DEF ExactStates
  <2>1. PICK n, table, d, a, buf, views :
           /\ n = tick /\ table = ghosts /\ d = net /\ a = acks /\ buf = buffer /\ views = history
           /\ n \in Nat /\ DOMAIN d = 1 .. n /\ a \in SUBSET (1 .. n) /\ a \in SUBSET (Nat \ {0})
           /\ \A w \in 1 .. n : d[w] \in Deltas /\ views[w].view \in States /\ RecordInv(w, d, a)
           /\ \A w \in 1 .. n : views[w].complete => ViewInv(views[w].view, w, d, a \cup {w})
           /\ table \in Tables(n) /\ TableInv(table, n, d, a) /\ BufferInv(buf, d, a)
           /\ n > 0 /\ views[n].complete => LastInv(table, views[n].view, n, d)
    BY Consequences
  <2>2. PICK l \in 0 .. n, f \in Nat :
           /\ l = newest(buf) /\ f = Floor(l) /\ f <= l /\ (l # 0 => l \in a /\ l > f)
           /\ DOMAIN buf.entries = {u \in a : u > f} /\ DOMAIN buf.entries \subseteq 1 .. n
           /\ \A k \in DOMAIN buf.entries : buf.entries[k] = d[k]
           /\ buf.base = Ideal(f, d, a) /\ \A u \in a : u <= l
    <3> n \in Nat /\ a \in SUBSET (1 .. n) /\ BufferInv(buf, d, a)
      BY <2>1
    <3> QED
      BY ONLY n \in Nat, a \in SUBSET (1 .. n), BufferInv(buf, d, a), BufferFacts
  <2>3. t \in a /\ t > f /\ t \in 1 .. n /\ t \in Nat
    BY <2>1, <2>2
  <2>4. StateAt(buf, t) = Ideal(t, d, a)
    <3>1. n \in Nat /\ a \in SUBSET (1 .. n) /\ BufferInv(buf, d, a)
      BY <2>1
    <3>2. t \in Nat /\ t >= Floor(newest(buf))
      BY <2>2, <2>3
    <3> QED
      BY ONLY <3>1, <3>2, BufferStates
  <2> PICK view \in States : view = views[t].view
    BY <2>1, <2>3
  <2>5. ViewInv(view, t, d, a)
    <3> a \cup {t} = a
      BY <2>3
    <3> QED
      BY <2>1, <2>3
  <2>6. Ideal(t, d, a) = view
    <3>1. \A w \in a : w <= t => RecordInv(w, d, a)
      BY <2>1
    <3>2. \A w \in a : d[w] \in Deltas
      BY <2>1
    <3> QED
      BY <2>1, <2>3, <2>5, <3>1, <3>2, ContentAssumption, ViewIsThere
  <2> QED
    BY <2>1, <2>4, <2>6
<1> QED
  BY Invariance, <1>1, PTL

\* No snapshot that is still in the window is refused for a record without its entity, in whatever
\* order they come: what the comment on apply_snapshot says of a server that waits for a create to be
\* acknowledged.
THEOREM NothingRefused ==
  Spec => []NeverRefused
<1>1. IInv => NeverRefused
  <2> SUFFICES ASSUME IInv, NEW t \in DOMAIN net,
                      ~outside_window(t, IF newest(buffer) > t THEN newest(buffer) ELSE t)
               PROVE  Fits(StateAt(buffer, t - 1), net[t])
    BY DEF NeverRefused, IInv
  <2>1. PICK n, table, d, a, buf, views :
           /\ n = tick /\ table = ghosts /\ d = net /\ a = acks /\ buf = buffer /\ views = history
           /\ n \in Nat /\ DOMAIN d = 1 .. n /\ a \in SUBSET (1 .. n) /\ a \in SUBSET (Nat \ {0})
           /\ \A w \in 1 .. n : d[w] \in Deltas /\ views[w].view \in States /\ RecordInv(w, d, a)
           /\ \A w \in 1 .. n : views[w].complete => ViewInv(views[w].view, w, d, a \cup {w})
           /\ table \in Tables(n) /\ TableInv(table, n, d, a) /\ BufferInv(buf, d, a)
           /\ n > 0 /\ views[n].complete => LastInv(table, views[n].view, n, d)
    BY Consequences
  <2>0. \A b \in Nat : b >= Floor(newest(buf)) => StateAt(buf, b) = Ideal(b, d, a)
    <3> TAKE b \in Nat
    <3> HAVE b >= Floor(newest(buf))
    <3> n \in Nat /\ a \in SUBSET (1 .. n) /\ BufferInv(buf, d, a)
      BY <2>1
    <3> QED
      BY ONLY n \in Nat, a \in SUBSET (1 .. n), BufferInv(buf, d, a), b \in Nat,
              b >= Floor(newest(buf)), BufferStates
  <2>2. PICK l \in 0 .. n, f \in Nat :
           /\ l = newest(buf) /\ f = Floor(l) /\ f <= l /\ (l # 0 => l \in a /\ l > f)
           /\ DOMAIN buf.entries = {u \in a : u > f} /\ DOMAIN buf.entries \subseteq 1 .. n
           /\ \A k \in DOMAIN buf.entries : buf.entries[k] = d[k]
           /\ buf.base = Ideal(f, d, a) /\ \A u \in a : u <= l
    <3> n \in Nat /\ a \in SUBSET (1 .. n) /\ BufferInv(buf, d, a)
      BY <2>1
    <3> QED
      BY ONLY n \in Nat, a \in SUBSET (1 .. n), BufferInv(buf, d, a), BufferFacts
  <2>3. t \in 1 .. n /\ t \in Nat /\ t - 1 \in Nat
    BY <2>1
  <2> PICK m \in Nat : m = IF l > t THEN l ELSE t
    BY <2>3
  <2>4. t > Floor(m) /\ f <= Floor(m)
    <3>1. ~outside_window(t, m)
      BY <2>1, <2>2
    <3>2. l \in Nat /\ l <= m /\ t \in Nat \ {0}
      BY <2>3
    <3>3. ~(t <= Floor(m)) /\ Floor(m) \in Nat /\ Floor(l) <= Floor(m)
      BY <3>1, <3>2, FloorType
    <3> QED
      BY <2>2, <2>3, <3>3
  <2>5. StateAt(buf, t - 1) = Ideal(t - 1, d, a)
    <3> Floor(m) \in Nat
      BY FloorType
    <3> t - 1 \in Nat /\ t - 1 >= Floor(newest(buf))
      BY <2>2, <2>3, <2>4
    <3> QED
      BY <2>0
  <2>6. \A i \in DOMAIN d[t].records : i \in Applicable(Ideal(t - 1, d, a), d[t])
    <3> TAKE i \in DOMAIN d[t].records
    <3>1. CASE d[t].records[i].owner # NoOwner
      BY <3>1 DEF Applicable
    <3>2. CASE d[t].records[i].owner = NoOwner
      <4>1. PICK o \in Peers : OwnerIs(o, i, t - 1, d, a)
        BY <2>1, <2>3, <3>2 DEF RecordInv
      <4>2. i \notin d[t].removed
        BY <2>1, <2>3, <3>2 DEF RecordInv
      <4>3. o # NoOwner
        BY ContentAssumption
      <4>4. i \in DOMAIN Ideal(t - 1, d, a)
        BY <2>1, <2>3, <4>1, <4>3, OwnerIsThere
      <4> QED
        BY <4>2, <4>4 DEF Applicable
    <3> QED
      BY <3>1, <3>2
  <2> QED
    BY <2>1, <2>5, <2>6 DEF Fits, Applicable
<1> QED
  BY Invariance, <1>1, PTL

\* The client's newest state is what it took of everything sent so far.
LEMMA NewestIsIdeal ==
  ASSUME NEW buf, NEW d, NEW n \in Nat, NEW a \in SUBSET (1 .. n), BufferInv(buf, d, a)
  PROVE  StateAt(buf, newest(buf)) = Ideal(n, d, a)
<1>1. PICK l \in 0 .. n, f \in Nat :
         /\ l = newest(buf) /\ f = Floor(l) /\ f <= l /\ (l # 0 => l \in a /\ l > f)
         /\ DOMAIN buf.entries = {u \in a : u > f} /\ DOMAIN buf.entries \subseteq 1 .. n
         /\ \A k \in DOMAIN buf.entries : buf.entries[k] = d[k]
         /\ buf.base = Ideal(f, d, a) /\ \A u \in a : u <= l
  BY BufferFacts
<1>2. l \in Nat /\ l <= n /\ l >= Floor(newest(buf))
  BY <1>1
<1>3. StateAt(buf, l) = Ideal(l, d, a)
  BY ONLY n \in Nat, a \in SUBSET (1 .. n), BufferInv(buf, d, a), <1>2, BufferStates
<1>4. Ideal(n, d, a) = Ideal(l, d, a)
  <2>1. DOMAIN Whole(d, a).entries = a
    BY DEF Whole
  <2>2. \A k \in l + 1 .. n : k \notin DOMAIN Whole(d, a).entries
    BY <1>1, <2>1
  <2> QED
    BY <1>2, <2>2, StateAtStays DEF Ideal
<1> QED
  BY <1>1, <1>3, <1>4

\* A server with nothing left to send is right about the client, which it knows only from
\* acknowledgements: is_clean in peer_ghosts.cpp.
THEOREM CleanIsTrue ==
  Spec => []Synced
<1>1. IInv => Synced
  <2> SUFFICES ASSUME IInv, tick > 0, Quiet(ghosts, history[tick].view)
               PROVE  StateAt(buffer, newest(buffer)) = history[tick].view
    BY DEF Synced, Newest
  <2>1. PICK n, table, d, a, buf, views :
           /\ n = tick /\ table = ghosts /\ d = net /\ a = acks /\ buf = buffer /\ views = history
           /\ n \in Nat /\ DOMAIN d = 1 .. n /\ a \in SUBSET (1 .. n) /\ a \in SUBSET (Nat \ {0})
           /\ \A w \in 1 .. n : d[w] \in Deltas /\ views[w].view \in States /\ RecordInv(w, d, a)
           /\ \A w \in 1 .. n : views[w].complete => ViewInv(views[w].view, w, d, a \cup {w})
           /\ table \in Tables(n) /\ TableInv(table, n, d, a) /\ BufferInv(buf, d, a)
           /\ n > 0 /\ views[n].complete => LastInv(table, views[n].view, n, d)
    BY Consequences
  <2> PICK view : view = views[n].view
    OBVIOUS
  <2>2. view \in States /\ Quiet(table, view)
    BY <2>1
  <2>3. /\ DOMAIN view = DOMAIN table
        /\ \A i \in DOMAIN view : is_clean(table[i], view[i]) /\ ~table[i].leaving
    BY <2>2 DEF Quiet
  <2>4. ASSUME NEW i \in Ids, i \in DOMAIN view
        PROVE  /\ OwnerIs(view[i].owner, i, n, d, a)
               /\ \A s \in Slots : SlotIs(view[i].slot[s], s, i, n, d, a)
    <3> PICK g \in Ghosts(n) : g = table[i]
      BY <2>1, <2>3, <2>4, TableType
    <3> PICK x : x = view[i]
      OBVIOUS
    <3>1. GhostInv(g, i, n, d, a) /\ ~g.leaving /\ is_clean(g, x)
      BY <2>1, <2>3, <2>4 DEF TableInv
    <3>2. OwnerIs(x.owner, i, n, d, a) /\ \A s \in Slots : SlotIs(x.slot[s], s, i, n, d, a)
      BY <2>1, <3>1, CleanKnown
    <3> QED
      BY <3>2
  <2>5. ASSUME NEW i \in Ids, i \notin DOMAIN view PROVE Gone(i, n, d, a)
    BY <2>1, <2>3, <2>5 DEF TableInv
  <2>6. ViewInv(view, n, d, a)
    BY <2>4, <2>5 DEF ViewInv
  <2>7. Ideal(n, d, a) = view
    <3>1. /\ \A w \in a : w <= n => RecordInv(w, d, a)
          /\ \A w \in a : d[w] \in Deltas
      BY <2>1
    <3> QED
      BY <2>1, <2>2, <2>6, <3>1, ContentAssumption, ViewIsThere
  <2>8. StateAt(buf, newest(buf)) = Ideal(n, d, a)
    <3> n \in Nat /\ a \in SUBSET (1 .. n) /\ BufferInv(buf, d, a)
      BY <2>1
    <3> QED
      BY ONLY n \in Nat, a \in SUBSET (1 .. n), BufferInv(buf, d, a), NewestIsIdeal
  <2> QED
    BY <2>1, <2>7, <2>8
<1> QED
  BY Invariance, <1>1, PTL

\* What the client holds has a ghost that was written: acknowledge never forgets an entity the
\* client still shows.
THEOREM NothingForgotten ==
  Spec => []NoZombie
<1>1. IInv => NoZombie
  <2> SUFFICES ASSUME IInv, NEW i \in DOMAIN StateAt(buffer, newest(buffer))
               PROVE  i \in DOMAIN ghosts /\ ghosts[i].written
    BY DEF NoZombie, Newest
  <2>1. PICK n, table, d, a, buf, views :
           /\ n = tick /\ table = ghosts /\ d = net /\ a = acks /\ buf = buffer /\ views = history
           /\ n \in Nat /\ DOMAIN d = 1 .. n /\ a \in SUBSET (1 .. n) /\ a \in SUBSET (Nat \ {0})
           /\ \A w \in 1 .. n : d[w] \in Deltas /\ views[w].view \in States /\ RecordInv(w, d, a)
           /\ \A w \in 1 .. n : views[w].complete => ViewInv(views[w].view, w, d, a \cup {w})
           /\ table \in Tables(n) /\ TableInv(table, n, d, a) /\ BufferInv(buf, d, a)
           /\ n > 0 /\ views[n].complete => LastInv(table, views[n].view, n, d)
    BY Consequences
  <2>2. StateAt(buf, newest(buf)) = Ideal(n, d, a)
    <3> n \in Nat /\ a \in SUBSET (1 .. n) /\ BufferInv(buf, d, a)
      BY <2>1
    <3> QED
      BY ONLY n \in Nat, a \in SUBSET (1 .. n), BufferInv(buf, d, a), NewestIsIdeal
  <2>3. i \in DOMAIN Ideal(n, d, a)
    BY <2>1, <2>2
  <2>4. i \in Ids
    <3> \A w \in a : d[w] \in Deltas
      BY <2>1
    <3> Ideal(n, d, a) \in States
      BY <2>1, IdealType
    <3> QED
      BY <2>3 DEF States
  <2>5. ~Gone(i, n, d, a)
    BY <2>1, <2>3, GoneIsOut
  <2>6. i \in DOMAIN table /\ GhostInv(table[i], i, n, d, a)
    BY <2>1, <2>4, <2>5 DEF TableInv
  <2>7. table[i].written
    BY <2>5, <2>6 DEF GhostInv, UnwrittenInv
  <2> QED
    BY <2>1, <2>6, <2>7
<1> QED
  BY Invariance, <1>1, PTL

\* One round trip is enough: the acknowledgement of the latest snapshot, when it deferred nothing,
\* leaves nothing to send, whatever was lost before.
THEOREM RoundTripIsEnough ==
  Spec => OneRoundTrip
<1>1. IInv /\ [Next]_vars =>
        [(tick' = tick /\ tick \in sent \ sent' /\ history[tick].complete) =>
           Quiet(ghosts', history[tick].view)]_vars
  <2> SUFFICES ASSUME IInv, Next, tick' = tick, tick \in sent \ sent', history[tick].complete
               PROVE  Quiet(ghosts', history[tick].view)
    BY DEF vars
  <2>1. PICK n, table, d, a, buf, views :
           /\ n = tick /\ table = ghosts /\ d = net /\ a = acks /\ buf = buffer /\ views = history
           /\ n \in Nat /\ DOMAIN d = 1 .. n /\ a \in SUBSET (1 .. n) /\ a \in SUBSET (Nat \ {0})
           /\ \A w \in 1 .. n : d[w] \in Deltas /\ views[w].view \in States /\ RecordInv(w, d, a)
           /\ \A w \in 1 .. n : views[w].complete => ViewInv(views[w].view, w, d, a \cup {w})
           /\ table \in Tables(n) /\ TableInv(table, n, d, a) /\ BufferInv(buf, d, a)
           /\ n > 0 /\ views[n].complete => LastInv(table, views[n].view, n, d)
    BY Consequences
  <2>2. PICK t \in Ticks : ReceiveAck(t)
    <3>1. ASSUME NEW view \in Views, SendSnapshot(view) PROVE FALSE
      BY <2>1, <3>1 DEF SendSnapshot
    <3>2. ASSUME NEW t \in Ticks, ReceiveSnapshot(t) PROVE FALSE
      BY <3>2 DEF ReceiveSnapshot
    <3> QED
      BY <3>1, <3>2 DEF Next
  <2>3. t = tick /\ ghosts' = Confirmed(ghosts, net[t], t) /\ t \in acks
    BY <2>2 DEF ReceiveAck
  <2> PICK T, view : T = ghosts' /\ view = views[n].view
    OBVIOUS
  <2>4. n \in 1 .. n /\ T = Confirmed(table, d[n], n) /\ view \in States /\ LastInv(table, view, n, d)
    BY <2>1, <2>3
  <2>5. Quiet(T, view)
    BY <2>1, <2>4, AckLast
  <2> QED
    BY <2>1, <2>5
<1> QED
  BY Invariance, <1>1, PTL DEF Spec, OneRoundTrip

--------------------------------------------------------------------------------
(* The order of what waits: the top goes out, and a new child brings its parent.  *)

\* What is selected, with the mandatory ones, brings the parents that were never written.
Closed(S, table, cands, must) ==
  /\ must \subseteq S
  /\ \A i \in S \ must : ~table[i].written /\ Parent[i] \in cands => Parent[i] \in S

\* The chain upwards as a function, and that it exists.
Up(table, open, i) ==
  IF i = 0 THEN 0
  ELSE IF table[i].written \/ Parent[i] \notin open THEN 0
  ELSE Parent[i]
IsUp(f, table, open, first, n) == f = [k \in 0 .. n |-> IF k = 0 THEN first ELSE Up(table, open, f[k - 1])]

LEMMA UpExists ==
  ASSUME NEW table, NEW open, NEW first, NEW n \in Nat
  PROVE  \E f : IsUp(f, table, open, first, n)
<1> DEFINE S == {k \in Nat : \E f : IsUp(f, table, open, first, k)}
<1>1. 0 \in S
  <2> DEFINE f == [k \in 0 .. 0 |-> first]
  <2>1. IsUp(f, table, open, first, 0)
    BY DEF IsUp
  <2> QED
    BY <2>1
<1>2. ASSUME NEW m \in Nat, m \in S PROVE m + 1 \in S
  <2>1. PICK f : IsUp(f, table, open, first, m)
    BY <1>2
  <2> DEFINE g == [k \in 0 .. m + 1 |-> IF k = m + 1 THEN Up(table, open, f[m]) ELSE f[k]]
  <2>2. f = [k \in 0 .. m |-> IF k = 0 THEN first ELSE Up(table, open, f[k - 1])]
    BY <2>1 DEF IsUp
  <2>3. \A k \in 0 .. m : f[k] = IF k = 0 THEN first ELSE Up(table, open, f[k - 1])
    BY <2>2
  <2>4. \A k \in 0 .. m + 1 : g[k] = IF k = 0 THEN first ELSE Up(table, open, g[k - 1])
    <3> TAKE k \in 0 .. m + 1
    <3>1. CASE k = m + 1
      BY <3>1
    <3>2. CASE k \in 0 .. m /\ k # m + 1
      <4>1. g[k] = f[k]
        BY <3>2
      <4>2. k # 0 => g[k - 1] = f[k - 1]
        BY <3>2
      <4> QED
        BY <2>3, <3>2, <4>1, <4>2
    <3> QED
      BY <3>1, <3>2
  <2>5. g = [k \in 0 .. m + 1 |-> IF k = 0 THEN first ELSE Up(table, open, g[k - 1])]
    BY <2>4
  <2> HIDE DEF g
  <2>6. IsUp(g, table, open, first, m + 1)
    BY <2>5 DEF IsUp
  <2> QED
    BY <2>6
<1>3. Nat \subseteq S
  <2> HIDE DEF S
  <2> QED
    BY <1>1, <1>2, InductionOn
<1> QED
  BY <1>3

\* The chain is long enough: what it could still take it has.
LEMMA ChainCloses ==
  ASSUME NEW table, NEW cands \in SUBSET Ids, NEW selected, NEW first,
         NEW i \in Chain(table, cands, selected, first), ~table[i].written, Parent[i] \in cands \ selected
  PROVE  Parent[i] \in Chain(table, cands, selected, first)
<1> DEFINE open == cands \ selected
           n == Cardinality(Ids)
           f == CHOOSE f : IsUp(f, table, open, first, n)
<1>1. n \in Nat
  BY IdsAssumption, FS_CardinalityType
<1>2. IsUp(f, table, open, first, n)
  <2> HIDE DEF n, open
  <2> QED
    BY <1>1, UpExists
<1>3. Chain(table, cands, selected, first) = {f[k] : k \in DOMAIN f} \cap cands
  BY DEF Chain, IsUp, Up
<1> HIDE DEF f, n
<1>4. DOMAIN f = 0 .. n /\ \A k \in 0 .. n : f[k] = IF k = 0 THEN first ELSE Up(table, open, f[k - 1])
  <2>1. f = [k \in 0 .. n |-> IF k = 0 THEN first ELSE Up(table, open, f[k - 1])]
    BY <1>2 DEF IsUp
  <2> HIDE DEF open
  <2> QED
    BY <2>1
<1>5. PICK k \in 0 .. n : i = f[k]
  BY <1>3, <1>4
<1> i \in Ids /\ i \in cands /\ i # 0 /\ Parent[i] \in Ids
  BY <1>3, IdsAssumption
<1>6. Up(table, open, i) = Parent[i]
  BY DEF Up
<1>7. ASSUME NEW m \in 0 .. n, m < n, f[m] = i PROVE Parent[i] \in {f[x] : x \in DOMAIN f}
  <2>1. m + 1 \in 0 .. n /\ m + 1 # 0 /\ (m + 1) - 1 = m
    BY <1>1, <1>7
  <2>2. f[m + 1] = Up(table, open, f[m])
    <3> HIDE DEF open
    <3> QED
      BY <1>4, <2>1
  <2> QED
    BY <1>4, <1>6, <1>7, <2>1, <2>2
<1>8. CASE k < n
  BY <1>3, <1>5, <1>7, <1>8
<1>9. CASE k = n
  <2>1. \A j \in 0 .. n : f[j] # 0
    <3> DEFINE Zero == {x \in Nat : \A j \in 0 .. n : f[j] = 0 /\ j + x <= n => f[j + x] = 0}
    <3>1. 0 \in Zero
      OBVIOUS
    <3>2. ASSUME NEW x \in Nat, x \in Zero PROVE x + 1 \in Zero
      <4> SUFFICES ASSUME NEW j \in 0 .. n, f[j] = 0, j + (x + 1) <= n PROVE f[j + (x + 1)] = 0
        OBVIOUS
      <4>1. f[j + x] = 0
        BY <1>1, <3>2
      <4>2. j + (x + 1) \in 0 .. n /\ j + (x + 1) # 0 /\ (j + (x + 1)) - 1 = j + x
        BY <1>1
      <4> HIDE DEF open
      <4>3. f[j + (x + 1)] = Up(table, open, f[j + x])
        BY <1>4, <4>2
      <4> QED
        BY <4>1, <4>3 DEF Up
    <3>3. Nat \subseteq Zero
      <4> HIDE DEF Zero
      <4> QED
        BY <3>1, <3>2, InductionOn
    <3> SUFFICES ASSUME NEW j \in 0 .. n, f[j] = 0 PROVE FALSE
      OBVIOUS
    <3>4. n - j \in Nat /\ j + (n - j) = n
      BY <1>1
    <3>5. n - j \in Zero
      BY <3>3, <3>4
    <3>6. f[n] = 0
      BY <1>1, <3>4, <3>5
    <3> QED
      BY <1>5, <1>9, <3>6
  <2>2. \A j \in 1 .. n : f[j] \in Ids
    <3> TAKE j \in 1 .. n
    <3>1. f[j] = Up(table, open, f[j - 1]) /\ f[j] # 0
      <4> HIDE DEF open
      <4> QED
        BY <1>1, <1>4, <2>1
    <3> QED
      BY <3>1 DEF Up
  <2> DEFINE g == [j \in 1 .. n + 1 |-> IF j = n + 1 THEN Parent[i] ELSE f[j]]
  <2>3. g \in [1 .. n + 1 -> Ids]
    BY <1>1, <2>2
  <2>4. IsFiniteSet(1 .. n + 1) /\ n < Cardinality(1 .. n + 1)
    BY <1>1, FS_Interval
  <2>5. PICK x \in 1 .. n + 1, y \in 1 .. n + 1 : x < y /\ g[x] = g[y]
    <3>1. \E x, y \in 1 .. n + 1 : x # y /\ g[x] = g[y]
      <4>1. Cardinality(Ids) < Cardinality(1 .. n + 1)
        BY <2>4 DEF n
      <4> HIDE DEF g
      <4> PICK D : D = 1 .. n + 1
        OBVIOUS
      <4>2. IsFiniteSet(D) /\ Cardinality(Ids) < Cardinality(D) /\ g \in [D -> Ids]
        BY <2>3, <2>4, <4>1
      <4>3. \E x, y \in D : x # y /\ g[x] = g[y]
        BY ONLY <4>2, IdsAssumption, FS_PigeonHole
      <4> QED
        BY <4>3
    <3> PICK x \in 1 .. n + 1, y \in 1 .. n + 1 : x # y /\ g[x] = g[y]
      BY <3>1
    <3>2. x < y \/ y < x
      BY <1>1
    <3> HIDE DEF g
    <3> QED
      BY <3>2
  <2>6. CASE y = n + 1
    <3>1. x \in 0 .. n /\ f[x] = Parent[i]
      BY <1>1, <2>5, <2>6
    <3> QED
      BY <1>3, <1>4, <3>1
  <2>7. CASE y # n + 1
    <3>1. x \in 0 .. n /\ y \in 0 .. n /\ f[x] = f[y]
      BY <1>1, <2>5, <2>7
    <3> DEFINE Again == {j \in Nat : y + j <= n => f[x + j] = f[y + j]}
    <3>2. 0 \in Again
      BY <3>1
    <3>3. ASSUME NEW j \in Nat, j \in Again PROVE j + 1 \in Again
      <4> SUFFICES ASSUME y + (j + 1) <= n PROVE f[x + (j + 1)] = f[y + (j + 1)]
        OBVIOUS
      <4>1. f[x + j] = f[y + j]
        BY <1>1, <3>1, <3>3
      <4>2. /\ x + (j + 1) \in 0 .. n /\ x + (j + 1) # 0 /\ (x + (j + 1)) - 1 = x + j
            /\ y + (j + 1) \in 0 .. n /\ y + (j + 1) # 0 /\ (y + (j + 1)) - 1 = y + j
        BY <1>1, <2>5, <3>1
      <4> HIDE DEF open
      <4> QED
        BY <1>4, <4>1, <4>2
    <3>4. Nat \subseteq Again
      <4> HIDE DEF Again
      <4> QED
        BY <3>2, <3>3, InductionOn
    <3>5. n - y \in Nat /\ y + (n - y) = n /\ x + (n - y) \in 0 .. n /\ x + (n - y) < n
      BY <1>1, <2>5, <3>1
    <3>6. n - y \in Again
      BY <3>4, <3>5
    <3>7. f[x + (n - y)] = i
      BY <1>1, <1>5, <1>9, <3>5, <3>6
    <3> QED
      BY <1>3, <1>7, <3>5, <3>7
  <2> QED
    BY <2>6, <2>7
<1> QED
  BY <1>1, <1>5, <1>8, <1>9

LEMMA FillCloses ==
  ASSUME NEW table, NEW cands \in SUBSET Ids, NEW must, NEW acc, NEW first, NEW force,
         Closed(acc.selected, table, cands, must)
  PROVE  Closed(Fill(table, cands, acc, first, force).selected, table, cands, must)
<1> DEFINE chain == Chain(table, cands, acc.selected, first)
<1>1. \/ Fill(table, cands, acc, first, force).selected = acc.selected
      \/ Fill(table, cands, acc, first, force).selected = acc.selected \cup chain
  BY DEF Fill
<1>2. Closed(acc.selected \cup chain, table, cands, must)
  <2> SUFFICES ASSUME NEW i \in (acc.selected \cup chain) \ must, ~table[i].written, Parent[i] \in cands,
                      Parent[i] \notin acc.selected
               PROVE  Parent[i] \in chain
    BY DEF Closed
  <2>1. i \in chain
    BY DEF Closed
  <2> QED
    BY <2>1, ChainCloses
<1> QED
  BY <1>1, <1>2

LEMMA FilledCloses ==
  ASSUME NEW table, NEW cands \in SUBSET Ids, NEW must, NEW order, NEW start, NEW second, NEW n \in Nat, NEW f,
         IsFilled(f, table, cands, order, start, second, n), NEW R,
         Closed(start.selected, table, cands, must), Closed(second.selected, table, cands, must),
         n > 0 => R \subseteq second.selected
  PROVE  Closed(f[n].selected, table, cands, must) /\ (n > 0 => R \subseteq f[n].selected)
<1> DEFINE Good(x, k) == Closed(x.selected, table, cands, must) /\ (k > 0 => R \subseteq x.selected)
           S == {k \in Nat : k <= n => Good(f[k], k)}
<1>1. \A k \in 0 .. n : f[k] = IF k = 0 THEN start
                               ELSE IF k = 1 THEN second
                               ELSE Fill(table, cands, f[k - 1], order[k], FALSE)
  BY DEF IsFilled
<1>2. 0 \in S
  <2>1. 0 \in 0 .. n
    OBVIOUS
  <2>2. f[0] = start
    BY ONLY <1>1, <2>1, Zenon
  <2> QED
    BY <2>2
<1>3. ASSUME NEW k \in Nat, k \in S PROVE k + 1 \in S
  <2> SUFFICES ASSUME k + 1 <= n PROVE Good(f[k + 1], k + 1)
    OBVIOUS
  <2>1. k + 1 \in 0 .. n /\ k + 1 # 0 /\ (k + 1) - 1 = k
    OBVIOUS
  <2>2. Good(f[k], k)
    BY <1>3
  <2>3. f[k + 1] = IF k + 1 = 1 THEN second ELSE Fill(table, cands, f[k], order[k + 1], FALSE)
    BY <1>1, <2>1
  <2>4. CASE k = 0
    <3>1. f[k + 1] = second
      BY <2>3, <2>4
    <3> QED
      BY <2>1, <2>4, <3>1
  <2>5. CASE k # 0
    <3>1. f[k + 1] = Fill(table, cands, f[k], order[k + 1], FALSE)
      <4> k + 1 # 1
        BY <2>5
      <4> QED
        BY ONLY <2>3, k + 1 # 1, Zenon
    <3>2. Closed(f[k + 1].selected, table, cands, must)
      BY <2>2, <3>1, FillCloses
    <3>3. f[k].selected \subseteq f[k + 1].selected
      BY <3>1 DEF Fill
    <3> QED
      BY <2>2, <2>5, <3>2, <3>3
  <2> QED
    BY <2>4, <2>5
<1>4. Nat \subseteq S
  <2> HIDE DEF S
  <2> QED
    BY <1>2, <1>3, InductionOn
<1> QED
  BY <1>4

\* A finite set of numbers has a bound, and any other than the empty one a minimum.
LEMMA HasMin ==
  ASSUME NEW S \in SUBSET Nat, S # {}
  PROVE  \E m \in S : \A x \in S : m <= x
<1>1. PICK m \in S : \A y \in S : ~(<<y, m>> \in OpToRel(<, Nat))
  BY NatLessThanWellFounded, WFMin
<1>2. \A y \in S : ~(y < m)
  BY <1>1 DEF OpToRel
<1> QED
  BY <1>2

LEMMA FiniteBound ==
  ASSUME NEW S, IsFiniteSet(S), NEW f, \A x \in S : f[x] \in Nat
  PROVE  \E n \in Nat : \A x \in S : f[x] <= n
<1> DEFINE Bounded == {k \in Nat : \A T \in SUBSET S : IsFiniteSet(T) /\ Cardinality(T) = k =>
                                     \E n \in Nat : \A x \in T : f[x] <= n}
<1>1. 0 \in Bounded
  <2> SUFFICES ASSUME NEW T \in SUBSET S, IsFiniteSet(T), Cardinality(T) = 0
               PROVE  \E n \in Nat : \A x \in T : f[x] <= n
    OBVIOUS
  <2> T = {}
    BY FS_EmptySet
  <2> QED
    OBVIOUS
<1>2. ASSUME NEW k \in Nat, k \in Bounded PROVE k + 1 \in Bounded
  <2> SUFFICES ASSUME NEW T \in SUBSET S, IsFiniteSet(T), Cardinality(T) = k + 1
               PROVE  \E n \in Nat : \A x \in T : f[x] <= n
    OBVIOUS
  <2>1. PICK y \in T : TRUE
    BY FS_EmptySet
  <2>2. IsFiniteSet(T \ {y}) /\ Cardinality(T \ {y}) = k /\ T \ {y} \in SUBSET S
    <3>1. IsFiniteSet(T \ {y}) /\ Cardinality(T \ {y}) = (k + 1) - 1
      BY ONLY <2>1, IsFiniteSet(T), Cardinality(T) = k + 1, FS_RemoveElement
    <3> QED
      BY <3>1
  <2>3. PICK n \in Nat : \A x \in T \ {y} : f[x] <= n
    BY <1>2, <2>2
  <2>4. \A x \in T : f[x] <= n + f[y]
    <3> TAKE x \in T
    <3>1. f[x] \in Nat /\ f[y] \in Nat
      BY <2>1
    <3> QED
      BY <2>3, <3>1
  <2> n + f[y] \in Nat
    BY <2>1
  <2> QED
    BY <2>4
<1>3. Nat \subseteq Bounded
  <2> HIDE DEF Bounded
  <2> QED
    BY <1>1, <1>2, InductionOn
<1> QED
  BY <1>3, FS_CardinalityType

LEMMA AccumulatorIs ==
  ASSUME NEW n, NEW g \in Ghosts(n), NEW k
  PROVE  [g EXCEPT !.accumulator = @ + k].accumulator = g.accumulator + k
BY DEF Ghosts

LEMMA ChainFirst ==
  ASSUME NEW table, NEW cands, NEW selected, NEW first \in cands
  PROVE  first \in Chain(table, cands, selected, first)
<1> DEFINE open == cands \ selected
           n == Cardinality(Ids)
           f == CHOOSE f : IsUp(f, table, open, first, n)
<1>1. n \in Nat
  BY IdsAssumption, FS_CardinalityType
<1>2. IsUp(f, table, open, first, n)
  <2> HIDE DEF n, open
  <2> QED
    BY <1>1, UpExists
<1>3. Chain(table, cands, selected, first) = {f[k] : k \in DOMAIN f} \cap cands
  BY DEF Chain, IsUp, Up
<1> HIDE DEF f, n, open
<1>4. 0 \in DOMAIN f /\ f[0] = first
  BY <1>1, <1>2 DEF IsUp
<1> QED
  BY <1>3, <1>4

\* The first in the order has accumulated as much as any.
LEMMA OrderTop ==
  ASSUME NEW table, NEW waiting \in SUBSET Ids, waiting # {}, \A i \in waiting : table[i].accumulator \in Nat,
         NEW top, top = ByPriority(table, waiting)[1]
  PROVE  top \in waiting /\ \A j \in waiting : table[j].accumulator <= table[top].accumulator
<1> DEFINE Before(a, b) == \/ table[a].accumulator > table[b].accumulator
                           \/ table[a].accumulator = table[b].accumulator /\ a < b
           Ahead(i) == {j \in waiting : Before(j, i)}
<1>1. IsFiniteSet(waiting) /\ Cardinality(waiting) \in Nat /\ Cardinality(waiting) # 0
  BY IdsAssumption, FS_Subset, FS_CardinalityType, FS_EmptySet
<1>2. top = CHOOSE i \in waiting : Cardinality(Ahead(i)) = 0
  <2>1. 1 \in 1 .. Cardinality(waiting) /\ 1 - 1 = 0
    BY <1>1
  <2>2. ByPriority(table, waiting) =
          [n \in 1 .. Cardinality(waiting) |-> CHOOSE i \in waiting : Cardinality(Ahead(i)) = n - 1]
    BY Zenon DEF ByPriority
  <2> HIDE DEF Ahead
  <2> QED
    BY <2>1, <2>2
<1>3. \E i \in waiting : Ahead(i) = {}
  <2> DEFINE A == {table[i].accumulator : i \in waiting}
  <2>1. A \in SUBSET Nat /\ A # {}
    OBVIOUS
  <2>2. PICK m \in A : \A x \in A : x <= m
    <3> DEFINE f == [i \in waiting |-> table[i].accumulator]
    <3>1. \A i \in waiting : f[i] \in Nat
      OBVIOUS
    <3>2. \E n \in Nat : \A i \in waiting : f[i] <= n
      <4> HIDE DEF f
      <4> QED
        BY <1>1, <3>1, FiniteBound
    <3>3. \E n \in Nat : \A x \in A : x <= n
      BY <3>2
    <3> HIDE DEF A, f
    <3> QED
      BY <2>1, <3>3, HasMax
  <2> DEFINE M == {i \in waiting : table[i].accumulator = m}
  <2>3. M \in SUBSET Nat /\ M # {}
    BY IdsAssumption
  <2>4. PICK i \in M : \A j \in M : i <= j
    <3> HIDE DEF M
    <3> QED
      BY <2>3, HasMin
  <2>5. ASSUME NEW j \in waiting, Before(j, i) PROVE FALSE
    <3>1. table[j].accumulator <= m /\ table[i].accumulator = m /\ m \in Nat /\ table[j].accumulator \in Nat
      BY <2>2
    <3>2. j \in M /\ j < i
      BY <2>5, <3>1
    <3> QED
      BY <2>3, <2>4, <3>2
  <2> QED
    BY <2>5
<1>4. \A i \in waiting : IsFiniteSet(Ahead(i))
  BY <1>1, FS_Subset
<1>5. top \in waiting /\ Ahead(top) = {}
  <2>1. \A i \in waiting : Cardinality(Ahead(i)) = 0 <=> Ahead(i) = {}
    <3> HIDE DEF Ahead
    <3> QED
      BY <1>4, FS_EmptySet
  <2> HIDE DEF Ahead
  <2> QED
    BY <1>2, <1>3, <2>1
<1> QED
  BY <1>5

\* The selection in the priority order: what waits (cands without must) is weighed and one of the
\* heaviest goes out.
InOrder(table, rel, choice, cands, must) ==
  /\ choice.selected \subseteq cands /\ Closed(choice.selected, choice.table, cands, must)
  /\ \/ choice.table = table
     \/ /\ \A i \in DOMAIN table \ (cands \ must) : choice.table[i] = table[i]
        /\ \A i \in cands \ must : choice.table[i] = [table[i] EXCEPT !.accumulator = @ + WeightOf(rel, i)]
        /\ cands # must => \E top \in choice.selected \ must : \A j \in cands \ must :
             choice.table[j].accumulator <= choice.table[top].accumulator

\* What waits is weighed, the top of it is selected, and what is selected brings its parents.
LEMMA SelectionOrder ==
  ASSUME NEW n, NEW table, NEW rel \in States, table = [i \in DOMAIN table |-> table[i]],
         DOMAIN rel \subseteq DOMAIN table,
         \A i \in DOMAIN table : table[i] \in Ghosts(n) /\ table[i].accumulator \in Nat,
         NEW choice, choice = Selection(table, rel)
  PROVE  InOrder(table, rel, choice, Candidates(table, rel), Candidates(table, rel) \cap Mandatory(rel))
<1> DEFINE cands == Candidates(table, rel)
           must == cands \cap Mandatory(rel)
           waiting == cands \ must
           grown == [i \in DOMAIN table |->
                       IF i \in waiting
                       THEN [table[i] EXCEPT !.accumulator = @ + WeightOf(rel, i)] ELSE table[i]]
           order == ByPriority(grown, waiting)
           start == [selected |-> must, remaining |-> Less(Budget, TotalSize(must))]
           top == IF waiting = {} THEN start ELSE Fill(grown, cands, start, order[1], TRUE)
           room == IF Cardinality(waiting) > 1 THEN top.remaining \div 4 ELSE top.remaining
           count == Min({Cardinality(Leaving(table)), Max({room \div RemovalSize, 1})})
           second == [top EXCEPT !.remaining = Less(@, count * RemovalSize)]
           filled == CHOOSE f : IsFilled(f, grown, cands, order, start, second, Cardinality(waiting))
<1>1. choice = IF Cardinality(Leaving(table)) * RemovalSize + TotalSize(cands) <= Budget
               THEN [table |-> table, selected |-> cands, listed |-> Capped(Leaving(table))]
               ELSE [table |-> grown, selected |-> filled[Cardinality(waiting)].selected,
                     listed |-> LongestUnlisted(table, Min({count, MaxEntries}))]
  BY DEF Selection, IsFilled
<1>2. cands \in SUBSET Ids /\ must \subseteq cands /\ waiting \in SUBSET Ids /\ cands \subseteq DOMAIN table
  BY DEF Candidates, States
<1>3. /\ IsFiniteSet(waiting) /\ Cardinality(waiting) \in Nat /\ (waiting # {} => Cardinality(waiting) > 0)
      /\ (waiting = {} => Cardinality(waiting) = 0)
  <2> HIDE DEF waiting
  <2>1. IsFiniteSet(waiting)
    BY <1>2, IdsAssumption, FS_Subset
  <2>2. Cardinality(waiting) \in Nat /\ (Cardinality(waiting) = 0 <=> waiting = {})
    BY <2>1, FS_CardinalityType, FS_EmptySet
  <2> QED
    BY <2>1, <2>2
<1>4. choice.selected \subseteq cands
  BY SelectionFacts
<1>5. CASE Cardinality(Leaving(table)) * RemovalSize + TotalSize(cands) <= Budget
  <2>1. choice = [table |-> table, selected |-> cands, listed |-> Capped(Leaving(table))]
    BY <1>1, <1>5
  <2>2. choice.table = table /\ choice.selected = cands
    BY <2>1
  <2> QED
    BY <1>2, <1>4, <2>2 DEF Closed, InOrder
<1>6. CASE ~(Cardinality(Leaving(table)) * RemovalSize + TotalSize(cands) <= Budget)
  <2>1. choice.table = grown /\ choice.selected = filled[Cardinality(waiting)].selected
    <3>1. choice = [table |-> grown, selected |-> filled[Cardinality(waiting)].selected,
                    listed |-> LongestUnlisted(table, Min({count, MaxEntries}))]
      BY <1>1, <1>6
    <3> HIDE DEF grown, filled, count
    <3> QED
      BY <3>1
  <2>2. /\ \A i \in DOMAIN table \ waiting : grown[i] = table[i]
        /\ \A i \in waiting : grown[i] = [table[i] EXCEPT !.accumulator = @ + WeightOf(rel, i)]
    BY <1>2
  <2>3. \A i \in waiting : grown[i].accumulator \in Nat
    <3> TAKE i \in waiting
    <3>1. i \in Ids /\ i \in DOMAIN table
      BY <1>2
    <3>2. WeightOf(rel, i) \in Nat
      BY <3>1, SizesAssumption DEF WeightOf
    <3>3. i \in DOMAIN table /\ table[i].accumulator + WeightOf(rel, i) \in Nat
      BY <3>1, <3>2
    <3>4. grown[i].accumulator = table[i].accumulator + WeightOf(rel, i)
      <4> PICK g \in Ghosts(n) : g = table[i]
        BY <3>1
      <4>1. grown[i] = [g EXCEPT !.accumulator = @ + WeightOf(rel, i)]
        BY <3>3
      <4> HIDE DEF grown
      <4> QED
        BY ONLY <4>1, g = table[i], g \in Ghosts(n), AccumulatorIs
    <3> QED
      BY <3>3, <3>4
  <2> DEFINE first == order[1]
             R == IF waiting = {} THEN {} ELSE {first}
  <2> HIDE DEF order
  <2>4. waiting # {} => /\ first \in waiting
                        /\ \A j \in waiting : grown[j].accumulator <= grown[first].accumulator
    <3> HIDE DEF grown, waiting
    <3> QED
      BY <1>2, <2>3, OrderTop DEF order
  <2>5. Closed(start.selected, grown, cands, must)
    BY DEF Closed
  <2> HIDE DEF grown
  <2>6. Closed(top.selected, grown, cands, must)
    <3> HIDE DEF start
    <3> QED
      BY <1>2, <2>5, FillCloses
  <2>7. waiting # {} => first \in top.selected
    <3> SUFFICES ASSUME waiting # {} PROVE first \in top.selected
      OBVIOUS
    <3>1. first \in cands /\ first \notin must
      BY <2>4
    <3>2. first \in Chain(grown, cands, start.selected, first)
      BY <3>1, ChainFirst
    <3>3. top.selected = start.selected \cup Chain(grown, cands, start.selected, first)
      BY <3>1 DEF Fill
    <3> QED
      BY <3>2, <3>3
  <2>8. second.selected = top.selected
    <3> top = [selected |-> top.selected, remaining |-> top.remaining]
      BY DEF Fill
    <3> HIDE DEF top
    <3> QED
      OBVIOUS
  <2>9. Cardinality(waiting) > 0 => R \subseteq second.selected
    <3> HIDE DEF waiting, second, top, first
    <3> QED
      BY <2>7, <2>8
  <2>10. Closed(second.selected, grown, cands, must)
    <3> HIDE DEF second, top
    <3> QED
      BY <2>6, <2>8
  <2>11. /\ Closed(filled[Cardinality(waiting)].selected, grown, cands, must)
         /\ Cardinality(waiting) > 0 => R \subseteq filled[Cardinality(waiting)].selected
    <3> HIDE DEF cands, must, waiting, start, second, R
    <3>1. IsFilled(filled, grown, cands, order, start, second, Cardinality(waiting))
      BY <1>3, FilledExists
    <3> HIDE DEF filled
    <3> QED
      BY <1>2, <1>3, <2>5, <2>9, <2>10, <3>1, FilledCloses
  <2> HIDE DEF filled, second, top, start
  <2>12. cands # must => \E x \in choice.selected \ must : \A j \in cands \ must :
                    choice.table[j].accumulator <= choice.table[x].accumulator
    <3> SUFFICES ASSUME cands # must
                 PROVE  \E x \in choice.selected \ must : \A j \in cands \ must :
                          choice.table[j].accumulator <= choice.table[x].accumulator
      OBVIOUS
    <3>1. waiting # {}
      BY <1>2
    <3>2. first \in choice.selected
      BY <1>3, <2>1, <2>11, <3>1
    <3>3. first \notin must
      BY <2>4, <3>1
    <3> QED
      BY <2>1, <2>4, <3>1, <3>2, <3>3
  <2> QED
    BY <1>4, <2>1, <2>2, <2>11, <2>12 DEF InOrder
<1> QED
  BY <1>5, <1>6

--------------------------------------------------------------------------------
(* How long an entity waits.                                                    *)

\* No cut by what one message can count: kMaxSnapshotEntries is 65535.
RoomForEntries == Cardinality(Ids) <= MaxEntries

\* Those that have accumulated more than k times the largest weight.
Above(table, k) == {i \in DOMAIN table : table[i].accumulator > k * MaxWeight}

\* The more an entity has accumulated, the fewer others have as much.
WaitInv(table) ==
  \A k \in Nat : k < Cardinality(Ids) => Cardinality(Above(table, k)) <= Cardinality(Ids) - 1 - k

LEMMA CountIds == Cardinality(Ids) \in Nat /\ IsFiniteSet(Ids)
BY IdsAssumption, FS_CardinalityType

LEMMA CountSubset ==
  ASSUME NEW S, NEW T \in SUBSET Ids, S \subseteq T
  PROVE  IsFiniteSet(S) /\ Cardinality(S) \in Nat /\ Cardinality(S) <= Cardinality(T) /\ Cardinality(T) \in Nat
<1>1. IsFiniteSet(T)
  BY CountIds, FS_Subset
<1>2. IsFiniteSet(S) /\ Cardinality(S) <= Cardinality(T)
  BY <1>1, FS_Subset
<1> QED
  BY <1>1, <1>2, FS_CardinalityType

LEMMA CountLess ==
  ASSUME NEW S, NEW T \in SUBSET Ids, NEW x \in T, S \subseteq T \ {x}
  PROVE  Cardinality(S) <= Cardinality(T) - 1
<1>1. IsFiniteSet(T)
  BY CountIds, FS_Subset
<1>2. Cardinality(T \ {x}) = Cardinality(T) - 1
  BY <1>1, FS_RemoveElement
<1> T \ {x} \in SUBSET Ids
  OBVIOUS
<1> QED
  BY <1>2, CountSubset

LEMMA CappedIsAll ==
  ASSUME RoomForEntries, NEW S \in SUBSET Ids
  PROVE  Capped(S) = S
<1> SUFFICES ASSUME NEW i \in S PROVE Cardinality({j \in S : j < i}) < MaxEntries
  BY DEF Capped
<1>1. {j \in S : j < i} \subseteq S \ {i}
  <2> i \in Nat
    BY IdsAssumption
  <2> QED
    OBVIOUS
<1>2. Cardinality({j \in S : j < i}) <= Cardinality(S) - 1
  BY <1>1, CountLess
<1>3. /\ Cardinality({j \in S : j < i}) \in Nat /\ Cardinality(S) \in Nat
      /\ Cardinality(S) <= Cardinality(Ids)
  <2>1. Cardinality({j \in S : j < i}) \in Nat /\ Cardinality(S) \in Nat
    BY CountSubset
  <2>2. Cardinality(S) <= Cardinality(Ids)
    BY CountSubset
  <2> QED
    BY <2>1, <2>2
<1> QED
  BY <1>2, <1>3, CountIds, SizesAssumption DEF RoomForEntries

\* A table that has accumulated no more than another.
LEMMA LessAbove ==
  ASSUME NEW T, NEW B, DOMAIN B \subseteq Ids, WaitInv(B),
         \A i \in DOMAIN B : B[i].accumulator \in Nat,
         \A i \in DOMAIN T : \/ T[i].accumulator = 0
                             \/ i \in DOMAIN B /\ T[i].accumulator = B[i].accumulator
  PROVE  WaitInv(T)
<1> SUFFICES ASSUME NEW k \in Nat, k < Cardinality(Ids)
             PROVE  Cardinality(Above(T, k)) <= Cardinality(Ids) - 1 - k
  BY DEF WaitInv
<1>1. k * MaxWeight \in Nat
  BY SizesAssumption
<1>2. Above(T, k) \subseteq Above(B, k)
  <2> PICK x \in Nat : x = k * MaxWeight
    BY <1>1
  <2> QED
    BY DEF Above
<1>3. Above(B, k) \in SUBSET Ids
  BY DEF Above
<1>4. Cardinality(Above(B, k)) <= Cardinality(Ids) - 1 - k
  BY DEF WaitInv
<1>5. /\ Cardinality(Above(T, k)) <= Cardinality(Above(B, k))
      /\ Cardinality(Above(T, k)) \in Nat /\ Cardinality(Above(B, k)) \in Nat
  BY <1>2, <1>3, CountSubset
<1> QED
  BY <1>4, <1>5, CountIds

LEMMA ResetIs ==
  ASSUME NEW n, NEW g \in Ghosts(n), NEW k
  PROVE  /\ [g EXCEPT !.accumulator = k].accumulator = k /\ [g EXCEPT !.lastListed = k].accumulator = g.accumulator
         /\ [g EXCEPT !.accumulator = k].written = g.written /\ [g EXCEPT !.lastListed = k].written = g.written
         /\ [g EXCEPT !.leaving = TRUE, !.leaveSince = k, !.lastListed = 0].accumulator = g.accumulator
         /\ \A f : [g EXCEPT !.leaving = FALSE, !.since = f, !.ownerSince = k].accumulator = g.accumulator
BY DEF Ghosts

LEMMA CommitIs ==
  ASSUME NEW n, NEW g \in Ghosts(n), NEW current, NEW t, NEW h, h = commit_write(g, current, t)
  PROVE  h.accumulator = 0 /\ h.written /\ h.latest = current
<1>1. DOMAIN g = {"latest", "written", "since", "ownerSince", "confirmed", "accumulator", "leaving", "leaveSince",
                  "lastListed"}
  BY DEF Ghosts
<1> QED
  BY <1>1 DEF commit_write

\* T accumulated nothing that B had not.
KeptOrReset(T, B) ==
  \A i \in DOMAIN T : \/ T[i].accumulator = 0
                      \/ i \in DOMAIN B /\ T[i].accumulator = B[i].accumulator

\* The walk over the table resets what it accumulated or leaves it.
LEMMA BroughtAccumulates ==
  ASSUME NEW n \in Nat, NEW t \in Nat, t = n + 1, NEW table \in Tables(n), NEW rel \in States,
         NEW B, B = Brought(table, rel, t)
  PROVE  KeptOrReset(B, table)
<1> SUFFICES ASSUME NEW i \in DOMAIN B
             PROVE  \/ B[i].accumulator = 0
                    \/ i \in DOMAIN table /\ B[i].accumulator = table[i].accumulator
  BY DEF KeptOrReset
<1>1. \A j \in DOMAIN table : table[j] \in Ghosts(n)
  BY TableType
<1>2. CASE i \in DOMAIN rel
  <2> DEFINE Returned(h) == [h EXCEPT !.leaving = FALSE, !.since = [s \in Slots |-> t], !.ownerSince = t]
             g == IF i \in DOMAIN table
                  THEN IF table[i].leaving THEN Returned(table[i]) ELSE table[i]
                  ELSE NewGhost
  <2>1. B[i] = IF is_clean(g, rel[i]) THEN [g EXCEPT !.accumulator = 0] ELSE g
    BY <1>2 DEF Brought
  <2>2. g.accumulator = 0 \/ (i \in DOMAIN table /\ g.accumulator = table[i].accumulator)
    <3>1. CASE i \in DOMAIN table
      <4> PICK h \in Ghosts(n) : h = table[i]
        BY <1>1, <3>1
      <4>1. g = h \/ g = Returned(h)
        BY <3>1
      <4>2. Returned(h).accumulator = h.accumulator
        BY ResetIs
      <4> HIDE DEF g, Returned
      <4> QED
        BY <3>1, <4>1, <4>2
    <3>2. CASE i \notin DOMAIN table
      BY <3>2 DEF NewGhost
    <3> QED
      BY <3>1, <3>2
  <2>3. g \in Ghosts(t)
    <3>1. CASE i \in DOMAIN table
      <4> PICK h \in Ghosts(t) : h = table[i]
        BY <1>1, <3>1, GhostsLater
      <4>1. g = h \/ g = Returned(h)
        BY <3>1
      <4>2. Returned(h) \in Ghosts(t)
        <5> t \in 0 .. t /\ [s \in Slots |-> t] \in [Slots -> 0 .. t]
          OBVIOUS
        <5> QED
          BY DEF Ghosts
      <4> HIDE DEF g, Returned
      <4> QED
        BY <4>1, <4>2
    <3>2. CASE i \notin DOMAIN table
      BY <3>2, NewGhostType
    <3> QED
      BY <3>1, <3>2
  <2> HIDE DEF g
  <2> PICK h \in Ghosts(t) : h = g
    BY <2>3
  <2>4. [h EXCEPT !.accumulator = 0].accumulator = 0
    BY ResetIs
  <2> QED
    BY <2>1, <2>2, <2>4
<1>3. CASE i \notin DOMAIN rel
  <2>1. i \in DOMAIN table /\ B[i] = IF table[i].leaving THEN table[i]
               ELSE [table[i] EXCEPT !.leaving = TRUE, !.leaveSince = t, !.lastListed = 0]
    BY <1>3 DEF Brought
  <2> PICK h \in Ghosts(n) : h = table[i]
    BY <1>1, <2>1
  <2>2. [h EXCEPT !.leaving = TRUE, !.leaveSince = t, !.lastListed = 0].accumulator = h.accumulator
    BY ResetIs
  <2> QED
    BY <2>1, <2>2
<1> QED
  BY <1>2, <1>3

\* The table gs after the selection c from B: what was selected is written and starts to wait again.
Committed(gs, rel, B, c) ==
  /\ DOMAIN gs = DOMAIN c.table /\ DOMAIN c.table = DOMAIN B /\ c.selected \subseteq DOMAIN B
  /\ \A i \in DOMAIN B : c.table[i].written = B[i].written
  /\ \A i \in c.selected : gs[i].accumulator = 0 /\ gs[i].written /\ gs[i].latest = rel[i]
  /\ \A i \in DOMAIN gs \ c.selected : /\ gs[i].accumulator = c.table[i].accumulator
                                       /\ gs[i].written = B[i].written

\* What build makes of each ghost after the selection.
LEMMA BuildOrder ==
  ASSUME RoomForEntries, NEW n \in Nat, NEW t \in Nat, t = n + 1, NEW table \in Tables(n), NEW rel \in States,
         NEW B, B = Brought(table, rel, t), NEW gs, gs = build(table, rel, t).ghosts,
         NEW c, c = Selection(B, rel)
  PROVE  Committed(gs, rel, B, c)
<1>1. /\ DOMAIN B = {i \in DOMAIN table \ DOMAIN rel : table[i].written} \cup DOMAIN rel
      /\ B \in Tables(t)
  BY ONLY BroughtFacts, t = n + 1, n \in Nat, t \in Nat, table \in Tables(n), rel \in States,
          B = Brought(table, rel, t)
<1>2. /\ B = [i \in DOMAIN B |-> B[i]] /\ DOMAIN B \subseteq Ids /\ DOMAIN rel \subseteq DOMAIN B
      /\ \A i \in DOMAIN B : B[i] \in Ghosts(t) /\ B[i].accumulator \in Nat
  BY <1>1, TableType, GhostFields
<1>3. /\ c.selected \subseteq Candidates(B, rel)
      /\ c.table = [i \in DOMAIN B |-> c.table[i]]
      /\ \A i \in DOMAIN B :
           \/ c.table[i] = B[i]
           \/ /\ i \in Candidates(B, rel)
              /\ \E k \in Nat : c.table[i] = [B[i] EXCEPT !.accumulator = k]
  <2>1. B = [i \in DOMAIN B |-> B[i]] /\ \A i \in DOMAIN B : B[i].accumulator \in Nat
    BY <1>2
  <2> QED
    BY ONLY SMTT(60), <2>1, SelectionFacts, c = Selection(B, rel), rel \in States
<1> PICK T : T = c.table
  OBVIOUS
<1>4. DOMAIN T = DOMAIN B /\ \A i \in DOMAIN B : T[i] \in Ghosts(t) /\ T[i].written = B[i].written
  <2>1. DOMAIN T = DOMAIN B
    BY <1>3
  <2>2. ASSUME NEW i \in DOMAIN B PROVE T[i] \in Ghosts(t) /\ T[i].written = B[i].written
    <3> PICK h \in Ghosts(t) : h = B[i]
      BY <1>2
    <3>1. T[i] = h \/ \E k \in Nat : T[i] = [h EXCEPT !.accumulator = k]
      BY <1>3
    <3>2. \A k \in Nat : [h EXCEPT !.accumulator = k] \in Ghosts(t) /\ [h EXCEPT !.accumulator = k].written = h.written
      BY AccumulatorAgrees, ResetIs
    <3> QED
      BY ONLY <3>1, <3>2, h = B[i], h \in Ghosts(t)
  <2> QED
    BY <2>1, <2>2
<1>5. c.selected \subseteq DOMAIN rel /\ c.selected \in SUBSET Ids
  BY <1>2, <1>3 DEF Candidates
<1> PICK W : W = c.selected
  OBVIOUS
<1>6. Capped(W) = W
  BY <1>5, CappedIsAll
<1> PICK L : L = c.listed
  OBVIOUS
<1>7. gs = [i \in DOMAIN T |-> IF i \in W THEN commit_write(T[i], rel[i], t)
                               ELSE IF i \in L THEN [T[i] EXCEPT !.lastListed = t]
                               ELSE T[i]]
  <2>1. gs = [i \in DOMAIN T |-> IF i \in Capped(W) THEN commit_write(T[i], rel[i], t)
                               ELSE IF i \in L THEN [T[i] EXCEPT !.lastListed = t]
                               ELSE T[i]]
    BY DEF build
  <2> QED
    BY <1>6, <2>1
<1>8. \A i \in W : gs[i].accumulator = 0 /\ gs[i].written /\ gs[i].latest = rel[i]
  <2> TAKE i \in W
  <2> PICK h \in Ghosts(t) : h = T[i]
    BY <1>2, <1>4, <1>5
  <2>1. gs[i] = commit_write(h, rel[i], t)
    BY <1>2, <1>4, <1>5, <1>7
  <2> QED
    BY <2>1, CommitIs
<1>9. \A i \in DOMAIN gs \ W : gs[i].accumulator = T[i].accumulator /\ gs[i].written = T[i].written
  <2> TAKE i \in DOMAIN gs \ W
  <2> PICK h \in Ghosts(t) : h = T[i]
    BY <1>4, <1>7
  <2>1. gs[i] = h \/ gs[i] = [h EXCEPT !.lastListed = t]
    BY <1>7
  <2>2. /\ [h EXCEPT !.lastListed = t].accumulator = h.accumulator
        /\ [h EXCEPT !.lastListed = t].written = h.written
    BY ResetIs
  <2> QED
    BY <2>1, <2>2
<1>10. DOMAIN gs = DOMAIN T
  BY <1>7
<1> QED
  BY <1>2, <1>4, <1>5, <1>8, <1>9, <1>10 DEF Committed

\* A send keeps the invariant: what waits grows by a weight at most, and the top of it starts again.
LEMMA SendWaits ==
  ASSUME RoomForEntries, NEW n \in Nat, NEW t \in Nat, t = n + 1, NEW table \in Tables(n), NEW rel \in States,
         WaitInv(table), NEW gs, gs = build(table, rel, t).ghosts
  PROVE  WaitInv(gs)
<1> PICK B : B = Brought(table, rel, t)
  OBVIOUS
<1> PICK c : c = Selection(B, rel)
  OBVIOUS
<1>1. /\ B \in Tables(t) /\ DOMAIN rel \subseteq DOMAIN B
      /\ B = [i \in DOMAIN B |-> B[i]] /\ DOMAIN B \subseteq Ids
      /\ \A i \in DOMAIN B : B[i] \in Ghosts(t) /\ B[i].accumulator \in Nat
  <2>1. /\ DOMAIN B = {i \in DOMAIN table \ DOMAIN rel : table[i].written} \cup DOMAIN rel
        /\ B \in Tables(t)
    BY ONLY BroughtFacts, t = n + 1, n \in Nat, t \in Nat, table \in Tables(n), rel \in States,
            B = Brought(table, rel, t)
  <2> QED
    BY <2>1, TableType, GhostFields
<1>2. WaitInv(B)
  <2>1. DOMAIN table \subseteq Ids /\ \A i \in DOMAIN table : table[i].accumulator \in Nat
    BY TableType, GhostFields
  <2>2. KeptOrReset(B, table)
    BY ONLY BroughtAccumulates, t = n + 1, n \in Nat, t \in Nat, table \in Tables(n), rel \in States,
            B = Brought(table, rel, t)
  <2> QED
    BY <2>1, <2>2, LessAbove DEF KeptOrReset
<1> PICK T, W : T = c.table /\ W = c.selected
  OBVIOUS
<1>3. /\ DOMAIN gs = DOMAIN T /\ DOMAIN T = DOMAIN B /\ W \subseteq DOMAIN B
      /\ \A i \in W : gs[i].accumulator = 0
      /\ \A i \in DOMAIN gs \ W : gs[i].accumulator = T[i].accumulator
  <2>1. Committed(gs, rel, B, c)
    BY ONLY BuildOrder, t = n + 1, n \in Nat, t \in Nat, table \in Tables(n), rel \in States,
            RoomForEntries, B = Brought(table, rel, t), c = Selection(B, rel), gs = build(table, rel, t).ghosts
  <2> QED
    BY <2>1 DEF Committed
<1> PICK cands, must : cands = Candidates(B, rel) /\ must = cands \cap Mandatory(rel)
  OBVIOUS
<1>4. InOrder(B, rel, c, cands, must)
  BY ONLY <1>1, SelectionOrder, rel \in States, c = Selection(B, rel),
          cands = Candidates(B, rel), must = cands \cap Mandatory(rel)
<1>5. cands \subseteq DOMAIN B /\ must \subseteq cands /\ W \subseteq cands
  BY <1>1, <1>4 DEF Candidates, InOrder
<1>6. ASSUME \A i \in DOMAIN B : T[i] = B[i] PROVE WaitInv(gs)
  <2>1. \A i \in DOMAIN gs : \/ gs[i].accumulator = 0
                             \/ i \in DOMAIN B /\ gs[i].accumulator = B[i].accumulator
    BY <1>3, <1>6
  <2> QED
    BY <1>1, <1>2, <2>1, LessAbove
<1>7. CASE T = B \/ cands = must
  <2> \A i \in DOMAIN B : T[i] = B[i]
    BY <1>4, <1>7 DEF InOrder
  <2> QED
    BY <1>6
<1>8. CASE T # B /\ cands # must
  <2>1. \A i \in DOMAIN B \ (cands \ must) : T[i] = B[i]
    BY <1>4, <1>8 DEF InOrder
  <2>2. PICK top \in W \ must : \A j \in cands \ must : T[j].accumulator <= T[top].accumulator
    BY <1>4, <1>8 DEF InOrder
  <2>3. \A i \in cands \ must : /\ T[i].accumulator \in Nat
                                /\ T[i].accumulator <= B[i].accumulator + MaxWeight
    <3> TAKE i \in cands \ must
    <3>1. i \in DOMAIN B /\ i \in Ids
      BY <1>1, <1>5
    <3> PICK h \in Ghosts(t) : h = B[i]
      BY <1>1, <3>1
    <3>2. T[i] = [h EXCEPT !.accumulator = @ + WeightOf(rel, i)]
      BY <1>4, <1>8 DEF InOrder
    <3>3. T[i].accumulator = h.accumulator + WeightOf(rel, i)
      BY ONLY <3>2, AccumulatorIs, h \in Ghosts(t)
    <3>4. WeightOf(rel, i) \in Nat /\ WeightOf(rel, i) <= MaxWeight /\ MaxWeight \in Nat
      BY <3>1, SizesAssumption DEF WeightOf
    <3> QED
      BY <1>1, <3>1, <3>3, <3>4
  <2>4. \A i \in DOMAIN B : /\ T[i].accumulator \in Nat
                             /\ T[i].accumulator <= B[i].accumulator + MaxWeight
    <3> TAKE i \in DOMAIN B
    <3>1. CASE i \in cands \ must
      BY <2>3, <3>1
    <3>2. CASE i \notin cands \ must
      BY <1>1, <2>1, <3>2, SizesAssumption
    <3> QED
      BY <3>1, <3>2
  <2> SUFFICES ASSUME NEW k \in Nat, k < Cardinality(Ids)
               PROVE  Cardinality(Above(gs, k)) <= Cardinality(Ids) - 1 - k
    BY DEF WaitInv
  <2> PICK x \in Nat : x = k * MaxWeight
    BY SizesAssumption
  <2>5. top \in DOMAIN B /\ top \in cands \ must
    BY <1>5
  <2>6. /\ Above(gs, k) \in SUBSET Ids /\ Above(T, k) \in SUBSET Ids /\ \A m : Above(B, m) \in SUBSET Ids
        /\ Above(gs, k) \subseteq Above(T, k)
    <3>1. Above(gs, k) \subseteq Above(T, k)
      BY <1>3 DEF Above
    <3> QED
      BY <1>1, <1>3, <3>1 DEF Above
  <2>7. CASE T[top].accumulator <= x
    <3>1. Above(gs, k) \subseteq Above(B, k)
      <4> SUFFICES ASSUME NEW i \in DOMAIN gs, gs[i].accumulator > x
                   PROVE  i \in DOMAIN B /\ B[i].accumulator > x
        BY DEF Above
      <4>1. i \notin W /\ T[i].accumulator > x /\ i \in DOMAIN B
        BY <1>3
      <4>2. i \notin cands \ must
        BY <2>2, <2>4, <2>5, <2>7, <4>1
      <4> QED
        BY <2>1, <4>1, <4>2
    <3>2. Cardinality(Above(B, k)) <= Cardinality(Ids) - 1 - k
      BY <1>2 DEF WaitInv
    <3>3. /\ Cardinality(Above(gs, k)) <= Cardinality(Above(B, k))
          /\ Cardinality(Above(gs, k)) \in Nat /\ Cardinality(Above(B, k)) \in Nat
      BY <2>6, <3>1, CountSubset
    <3> QED
      BY <3>2, <3>3, CountIds
  <2>8. CASE T[top].accumulator > x
    <3>1. top \in Above(T, k) /\ Above(gs, k) \subseteq Above(T, k) \ {top}
      <4>1. top \in Above(T, k)
        BY <1>3, <2>5, <2>8 DEF Above
      <4>2. top \notin Above(gs, k)
        BY <1>3 DEF Above
      <4> QED
        BY <2>6, <4>1, <4>2
    <3>2. Cardinality(Above(gs, k)) <= Cardinality(Above(T, k)) - 1
      BY <2>6, <3>1, CountLess
    <3>3. Cardinality(Above(gs, k)) \in Nat /\ Cardinality(Above(T, k)) \in Nat
      BY <2>6, CountSubset
    <3>4. CASE k = 0
      <4>1. Cardinality(Above(T, k)) <= Cardinality(Ids)
        BY <2>6, CountSubset
      <4> QED
        BY <3>2, <3>3, <3>4, <4>1, CountIds
    <3>5. CASE k # 0
      <4>1. k - 1 \in Nat /\ k - 1 < Cardinality(Ids)
        BY <3>5, CountIds
      <4>2. Above(T, k) \subseteq Above(B, k - 1)
        <5> PICK y \in Nat : y = (k - 1) * MaxWeight
          BY <4>1, SizesAssumption
        <5>1. x = y + MaxWeight
          BY SizesAssumption
        <5> SUFFICES ASSUME NEW i \in DOMAIN T, T[i].accumulator > x
                     PROVE  i \in DOMAIN B /\ B[i].accumulator > y
          BY DEF Above
        <5>2. i \in DOMAIN B /\ T[i].accumulator <= B[i].accumulator + MaxWeight /\ B[i].accumulator \in Nat
          BY <1>1, <1>3, <2>4
        <5> QED
          BY <2>4, <5>1, <5>2, SizesAssumption
      <4>3. Cardinality(Above(B, k - 1)) <= Cardinality(Ids) - 1 - (k - 1)
        BY <1>2, <4>1 DEF WaitInv
      <4>4. /\ Cardinality(Above(T, k)) <= Cardinality(Above(B, k - 1)) /\ Cardinality(Above(B, k - 1)) \in Nat
        BY <2>6, <4>2, CountSubset
      <4> QED
        BY <3>2, <3>3, <4>3, <4>4, CountIds
    <3> QED
      BY <3>4, <3>5
  <2> QED
    BY <2>4, <2>5, <2>7, <2>8
<1> QED
  BY <1>7, <1>8

\* An acknowledgement lets nothing accumulate.
LEMMA AckWaits ==
  ASSUME NEW n \in Nat, NEW table \in Tables(n), NEW t \in 0 .. n, NEW D, WaitInv(table),
         NEW T, T = Confirmed(table, D, t)
  PROVE  WaitInv(T)
<1>1. DOMAIN table \subseteq Ids /\ \A i \in DOMAIN table : table[i].accumulator \in Nat
  BY TableType, GhostFields
<1>2. /\ DOMAIN T \subseteq DOMAIN table
      /\ \A i \in DOMAIN T : T[i] = IF i \in DOMAIN D.records THEN Confirm(table[i], t) ELSE table[i]
  BY ConfirmedFacts
<1>3. ASSUME NEW i \in DOMAIN T PROVE T[i].accumulator = table[i].accumulator
  <2> PICK g \in Ghosts(n) : g = table[i]
    BY <1>2, TableType
  <2>1. Confirm(g, t).accumulator = g.accumulator
    BY DEF Confirm, Ghosts
  <2> QED
    BY <1>2, <2>1
<1> QED
  BY <1>1, <1>2, <1>3, LessAbove

\* WaitInv of the ghosts.
Waits == WaitInv(ghosts)

\* Whatever waits for its turn gets it: what an entity accumulates is bounded by the others' turns.
\* PeerGhosts::build, where the top of the order is always selected.
THEOREM WaitsEnd ==
  ASSUME RoomForEntries
  PROVE  Spec => []WaitIsBounded
<1>1. Init => Waits
  <2> SUFFICES ASSUME Init, NEW k \in Nat, k < Cardinality(Ids)
               PROVE  Cardinality(Above(ghosts, k)) <= Cardinality(Ids) - 1 - k
    BY DEF Waits, WaitInv
  <2>1. Above(ghosts, k) = {}
    BY DEF Init, NoState, Above
  <2> QED
    BY <2>1, CountIds, FS_EmptySet
<1>2. IInv /\ Waits /\ [Next]_vars => Waits'
  <2> SUFFICES ASSUME IInv, Waits, [Next]_vars PROVE Waits'
    OBVIOUS
  <2> PICK n, table : n = tick /\ table = ghosts
    OBVIOUS
  <2>1. n \in Nat /\ table \in Tables(n) /\ DOMAIN net = 1 .. n /\ acks \subseteq 1 .. n
    BY TickAssumption DEF IInv, TypeOK
  <2>2. ASSUME NEW view \in Views, SendSnapshot(view) PROVE Waits'
    <3> PICK t, gs, rel : t = n + 1 /\ gs = ghosts' /\ rel = view
      OBVIOUS
    <3>1. t \in Nat /\ gs = build(table, rel, t).ghosts /\ rel \in States
      BY <2>1, <2>2, ViewsAssumption DEF SendSnapshot
    <3>2. WaitInv(table)
      BY DEF Waits
    <3>3. WaitInv(gs)
      BY ONLY RoomForEntries, SendWaits, <2>1, <3>1, <3>2, t = n + 1
    <3> QED
      BY <3>3 DEF Waits
  <2>3. ASSUME NEW t \in Ticks, ReceiveSnapshot(t) PROVE Waits'
    BY <2>3 DEF ReceiveSnapshot, Waits
  <2>4. ASSUME NEW t \in Ticks, ReceiveAck(t) PROVE Waits'
    <3> PICK T, D : T = ghosts' /\ D = net[t]
      OBVIOUS
    <3>1. t \in 0 .. n
      BY <2>1, <2>4 DEF ReceiveAck
    <3>2. T = table \/ T = Confirmed(table, D, t)
      BY <2>4 DEF ReceiveAck
    <3>3. WaitInv(T)
      BY <2>1, <3>1, <3>2, AckWaits DEF Waits
    <3> QED
      BY <3>3 DEF Waits
  <2>5. CASE UNCHANGED vars
    BY <2>5 DEF vars, Waits
  <2> QED
    BY <2>2, <2>3, <2>4, <2>5 DEF Next
<1>3. IInv /\ Waits => WaitIsBounded
  <2> SUFFICES ASSUME IInv, Waits, NEW i \in DOMAIN ghosts
               PROVE  ghosts[i].accumulator <= (Cardinality(Ids) - 1) * MaxWeight
    BY DEF WaitIsBounded
  <2> PICK k : k = Cardinality(Ids) - 1
    OBVIOUS
  <2>1. i \in Ids /\ DOMAIN ghosts \subseteq Ids /\ ghosts[i].accumulator \in Nat
    BY DEF IInv, TypeOK
  <2>2. k \in Nat /\ k < Cardinality(Ids)
    BY <2>1, CountIds, FS_EmptySet
  <2>3. Cardinality(Above(ghosts, k)) <= 0
    BY <2>2, CountIds DEF Waits, WaitInv
  <2>4. Above(ghosts, k) \subseteq Ids /\ IsFiniteSet(Above(ghosts, k))
    BY <2>1, CountIds, FS_Subset DEF Above
  <2>5. Above(ghosts, k) = {}
    BY <2>3, <2>4, FS_EmptySet, FS_CardinalityType
  <2>6. ~(ghosts[i].accumulator > k * MaxWeight) /\ k * MaxWeight \in Nat
    BY <2>2, <2>5, SizesAssumption DEF Above
  <2> QED
    BY <2>1, <2>6
<1>4. Spec => []Waits
  BY <1>1, <1>2, Invariance, PTL DEF Spec
<1> QED
  BY <1>3, <1>4, Invariance, PTL

\* A send writes no child before its parent.
LEMMA SendBringsParent ==
  ASSUME RoomForEntries, NEW n \in Nat, NEW t \in Nat, t = n + 1, NEW table \in Tables(n), NEW rel \in States,
         \A i \in DOMAIN rel : Parent[i] # 0 => Parent[i] \in DOMAIN rel,
         NEW gs, gs = build(table, rel, t).ghosts,
         NEW k, Written(gs, k), ~Written(table, k), Parent[k] # 0, ~(Predicting /\ gs[k].latest.owner = Self)
  PROVE  Written(gs, Parent[k])
<1> PICK B : B = Brought(table, rel, t)
  OBVIOUS
<1> PICK c : c = Selection(B, rel)
  OBVIOUS
<1>1. /\ DOMAIN rel \subseteq DOMAIN B
      /\ B \in Tables(t)
      /\ \A i \in DOMAIN rel :
              IF i \in DOMAIN table
              THEN IF table[i].leaving THEN StartsOver(B[i], table[i], t) ELSE Agrees(B[i], table[i])
              ELSE Agrees(B[i], NewGhost)
  BY ONLY n \in Nat, t \in Nat, t = n + 1, table \in Tables(n), rel \in States,
          B = Brought(table, rel, t), BroughtRelevant
<1>2. /\ DOMAIN rel \subseteq DOMAIN B
      /\ B = [j \in DOMAIN B |-> B[j]] /\ DOMAIN B \subseteq Ids
      /\ \A j \in DOMAIN B : B[j] \in Ghosts(t) /\ B[j].accumulator \in Nat
  BY <1>1, TableType, GhostFields
<1>3. Committed(gs, rel, B, c)
  BY BuildOrder
<1> PICK cands, must : cands = Candidates(B, rel) /\ must = cands \cap Mandatory(rel)
  OBVIOUS
<1>4. InOrder(B, rel, c, cands, must)
  BY ONLY <1>2, SelectionOrder, rel \in States, c = Selection(B, rel),
          cands = Candidates(B, rel), must = cands \cap Mandatory(rel)
<1>5. k \in DOMAIN rel /\ ~B[k].written
  <2>1. k \in DOMAIN B
    BY <1>3 DEF Written, Committed
  <2>2. k \in DOMAIN rel
    BY <2>1 DEF Written, Brought
  <2>3. ~B[k].written
    BY <1>1, <2>2 DEF Written, StartsOver, Agrees, NewGhost
  <2> QED
    BY <2>2, <2>3
<1>6. k \in c.selected /\ k \notin must /\ ~c.table[k].written
  <2>1. k \in c.selected
    BY <1>3, <1>5 DEF Written, Committed
  <2>2. gs[k].latest = rel[k] /\ ~c.table[k].written
    BY <1>2, <1>3, <1>5, <2>1 DEF Committed
  <2> QED
    BY <2>1, <2>2 DEF Mandatory
<1> PICK p : p = Parent[k]
  OBVIOUS
<1>7. p \in DOMAIN rel /\ p \in DOMAIN B /\ p \in DOMAIN gs
  BY <1>2, <1>3, <1>5 DEF Committed
<1>8. p \in c.selected \/ B[p].written
  <2>1. p \in cands => p \in c.selected
    BY <1>4, <1>6 DEF InOrder, Closed
  <2>2. p \notin cands => B[p].written
    BY <1>7 DEF Candidates, is_clean
  <2> QED
    BY <2>1, <2>2
<1> QED
  BY <1>3, <1>7, <1>8 DEF Committed, Written

\* A new child goes out with every ancestor that was never written: PeerGhosts::build, for the
\* entities that wait their turn, as long as one message counts them all.
THEOREM ParentsComeFirst ==
  ASSUME RoomForEntries
  PROVE  Spec => NewChildBringsParent
<1> DEFINE Brings == \A i \in DOMAIN ghosts' :
                       /\ Written(ghosts', i) /\ ~Written(ghosts, i) /\ Parent[i] # 0
                       /\ ~(Predicting /\ ghosts'[i].latest.owner = Self)
                       => Written(ghosts', Parent[i])
<1>1. IInv /\ [Next]_vars => [Brings]_vars
  <2> SUFFICES ASSUME IInv, Next, NEW i \in DOMAIN ghosts', Written(ghosts', i), ~Written(ghosts, i),
                      Parent[i] # 0, ~(Predicting /\ ghosts'[i].latest.owner = Self)
               PROVE  Written(ghosts', Parent[i])
    BY DEF vars
  <2> PICK n, table : n = tick /\ table = ghosts
    OBVIOUS
  <2>1. n \in Nat /\ table \in Tables(n) /\ DOMAIN net = 1 .. n /\ acks \subseteq 1 .. n
    BY TickAssumption DEF IInv, TypeOK
  <2>2. ASSUME NEW view \in Views, SendSnapshot(view) PROVE Written(ghosts', Parent[i])
    <3> PICK t, gs, rel : t = n + 1 /\ gs = ghosts' /\ rel = view
      OBVIOUS
    <3>1. /\ t \in Nat /\ gs = build(table, rel, t).ghosts /\ rel \in States
          /\ \A j \in DOMAIN rel : Parent[j] # 0 => Parent[j] \in DOMAIN rel
      <4>1. \A j \in DOMAIN rel : j \in Ids
        BY <2>2, ViewsAssumption DEF States
      <4> QED
        BY <2>1, <2>2, <4>1, ViewsAssumption DEF SendSnapshot
    <3>2. Written(gs, Parent[i])
      BY <2>1, <3>1, SendBringsParent
    <3> QED
      BY <3>2
  <2>3. ASSUME NEW t \in Ticks, ReceiveSnapshot(t) PROVE FALSE
    BY <2>3 DEF ReceiveSnapshot
  <2>4. ASSUME NEW t \in Ticks, ReceiveAck(t) PROVE FALSE
    <3> PICK T, D : T = ghosts' /\ D = net[t]
      OBVIOUS
    <3>1. t \in 0 .. n
      BY <2>1, <2>4 DEF ReceiveAck
    <3>2. T = table \/ T = Confirmed(table, D, t)
      BY <2>4 DEF ReceiveAck
    <3>3. ASSUME T = Confirmed(table, D, t), i \in DOMAIN T, T[i].written PROVE i \in DOMAIN table /\ table[i].written
      <4>1. /\ DOMAIN T \subseteq DOMAIN table
            /\ \A j \in DOMAIN T : T[j] = IF j \in DOMAIN D.records THEN Confirm(table[j], t) ELSE table[j]
        BY <3>3 DEF Confirmed, Confirm
      <4> PICK g \in Ghosts(n) : g = table[i]
        BY <2>1, <3>3, <4>1, TableType
      <4>2. Confirm(g, t).written = g.written
        BY DEF Confirm, Ghosts
      <4> QED
        BY <3>3, <4>1, <4>2
    <3> QED
      BY <3>2, <3>3 DEF Written
  <2> QED
    BY <2>2, <2>3, <2>4 DEF Next
<1> QED
  BY Invariance, <1>1, PTL DEF Spec, NewChildBringsParent
================================================================================
