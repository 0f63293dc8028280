---------------------------- MODULE Payloads_proof -----------------------------
(* Proofs about Payloads, for any peers, sizes, priorities, limits and number   *)
(* of payloads.                                                                 *)
EXTENDS Payloads, FiniteSetTheorems, WellFoundedInduction, NaturalsInduction, TLAPS

--------------------------------------------------------------------------------
(* The inductive invariant.  i is a payload, items a peer's queue, s the stream *)
(* to its client, o what the client has open and had how often its handler got  *)
(* each payload.                                                                *)

Items == [size : Sizes, prio : Prios, queued : Nat, sent : Nat, started : BOOLEAN, awaiting : BOOLEAN]
DataMessages == [kind : {"begin", "fragment"}, id : PayloadIds, size : Sizes, offset : Nat, data : {0, 1}]
CancelMessages == [kind : {"cancel"}, id : PayloadIds]
Messages == DataMessages \cup CancelMessages
Parts == [total : Sizes, got : Nat]

IsTable(f) == f = [i \in DOMAIN f |-> f[i]] /\ DOMAIN f \subseteq PayloadIds

\* The queue of a peer, empty once the server forgot it.
QueueOf(p) == IF p \in DOMAIN queue THEN queue[p] ELSE Nothing

IsData(m, i) == m.kind # "cancel" /\ m.id = i

\* InFlight, of any stream.
Flight(s, i) == FoldSeq(LAMBDA m, n : IF m.kind # "cancel" /\ m.id = i THEN n + m.data ELSE n, 0, s)
Got(o, i) == IF i \in DOMAIN o THEN o[i].got ELSE 0

\* A part of a payload was sent exactly when its begin was, and it waits when that was all of it.
ItemOK(item) ==
  /\ item \in Items /\ item.sent <= item.size /\ item.queued \in 1 .. now
  /\ item.awaiting = (item.started /\ item.sent = item.size)
  /\ item.started => item.sent > 0 \/ item.awaiting
  /\ ~item.started => item.sent = 0

\* A begin is the only message of an empty payload and the first fragment of any other.
MessageOK(m) ==
  m.kind # "cancel" => /\ m.offset + m.data <= m.size
                       /\ m.kind = "begin" => m.offset = 0 /\ (m.data = 0 => m.size = 0)
                       /\ m.kind = "fragment" => m.offset > 0 /\ m.data = 1

QueueTypes ==
  /\ now \in 1 .. MaxTick /\ nextPayload \in 0 .. MaxPayloads
  /\ queue = [p \in DOMAIN queue |-> queue[p]] /\ DOMAIN queue \subseteq Peers
  /\ \A p \in DOMAIN queue : IsTable(queue[p]) /\ \A i \in DOMAIN queue[p] : ItemOK(queue[p][i])
  /\ IsTable(owner)

StreamTypes ==
  /\ linked \in [Peers -> BOOLEAN] /\ refused \in [Peers -> BOOLEAN]
  /\ down \in [Peers -> Seq(Messages)] /\ up \in [Peers -> Seq(PayloadIds)]
  /\ \A p \in Peers : \A k \in DOMAIN down[p] : MessageOK(down[p][k])

\* What the client has open, under its limits.
HeldOK(o) ==
  /\ IsTable(o) /\ \A i \in DOMAIN o : o[i] \in Parts
  /\ held(o) <= Limit /\ Cardinality(DOMAIN o) <= MaxOpen

ClientTypes == open = [p \in Peers |-> open[p]] /\ \A p \in Peers : HeldOK(open[p])

CountTypes ==
  dispatched \in [PayloadIds -> Nat] /\ delivered \in [PayloadIds -> Nat] /\ cancelled \subseteq PayloadIds

Types == QueueTypes /\ StreamTypes /\ ClientTypes /\ CountTypes

\* The owners are the queues turned around.
Owners ==
  /\ \A i \in DOMAIN owner : owner[i] \in DOMAIN queue /\ i \in DOMAIN queue[owner[i]]
  /\ \A p \in DOMAIN queue : \A i \in DOMAIN queue[p] : i \in DOMAIN owner /\ owner[i] = p

\* A connection outlives neither its queue nor what it carries.
Links ==
  /\ \A p \in Peers : p \notin DOMAIN queue => ~linked[p]
  /\ \A p \in Peers : ~linked[p] => down[p] = <<>> /\ up[p] = <<>>

\* A peer's queue, stream or client knows of a payload.
Knows(p, i) ==
  \/ i \in DOMAIN QueueOf(p) \/ i \in DOMAIN open[p]
  \/ \E k \in DOMAIN down[p] : down[p][k].id = i

\* What is known of a payload is known of one peer, and nothing is of an id not given out.
Apart ==
  /\ \A p, q \in Peers, i \in PayloadIds : Knows(p, i) /\ Knows(q, i) => p = q
  /\ \A i \in PayloadIds : i > nextPayload =>
       /\ dispatched[i] = 0 /\ delivered[i] = 0 /\ i \notin cancelled
       /\ \A p \in Peers : ~Knows(p, i)

\* A payload in a queue is neither cancelled nor delivered, and what was acknowledged was handled.
Events ==
  /\ \A i \in PayloadIds : delivered[i] <= dispatched[i] /\ dispatched[i] <= 1
  /\ \A i \in DOMAIN owner : delivered[i] = 0 /\ i \notin cancelled
  /\ \A i \in cancelled : delivered[i] = 0
  /\ \A p \in Peers : \A k \in DOMAIN up[p] : dispatched[up[p][k]] = 1

\* The stream: no message of a payload follows its cancel, its data follow each other and say what
\* the queue says.
StreamOK(items, s) ==
  /\ \A j, k \in DOMAIN s : j < k /\ s[k].kind # "cancel" /\ s[j].id = s[k].id =>
       /\ s[j].kind # "cancel" /\ s[k].kind = "fragment" /\ s[k].size = s[j].size
       /\ s[j].offset + s[j].data <= s[k].offset
  /\ \A k \in DOMAIN s : s[k].id \in DOMAIN items =>
       LET item == items[s[k].id] IN
       /\ s[k].kind # "cancel" /\ item.started /\ s[k].size = item.size
       /\ s[k].offset + s[k].data <= item.sent

\* What the client has open is what the queue or the rest of the stream will add to, and what its
\* handler got is over for both.
OpenOK(items, s, o, had) ==
  /\ \A i \in DOMAIN o : /\ had[i] = 0
                         /\ i \in DOMAIN items => items[i].started /\ items[i].size = o[i].total
                         /\ \A k \in DOMAIN s : IsData(s[k], i) => s[k].kind = "fragment" /\ s[k].size = o[i].total
  /\ \A i \in PayloadIds : had[i] # 0 => /\ i \in DOMAIN items => items[i].awaiting
                                         /\ \A k \in DOMAIN s : ~IsData(s[k], i)

\* Every fragment on the way starts where the one before it, or what the client has, ends.
Follows(s, o) ==
  \A k \in DOMAIN s : s[k].kind = "fragment" =>
    \/ \E j \in DOMAIN s : j < k /\ IsData(s[j], s[k].id) /\ s[j].offset + s[j].data = s[k].offset
    \/ s[k].id \in DOMAIN o /\ o[s[k].id].got = s[k].offset

\* So will the next one.
Reached(items, s, o, had) ==
  \A i \in DOMAIN items : items[i].started /\ had[i] = 0 =>
    \/ \E j \in DOMAIN s : IsData(s[j], i) /\ s[j].offset + s[j].data = items[i].sent
    \/ i \in DOMAIN o /\ o[i].got = items[i].sent

\* Sent is on the way or taken.
AddsUp(items, s, o, had) ==
  \A i \in DOMAIN items : had[i] = 0 => items[i].sent = Flight(s, i) + Got(o, i)

\* A peer's queue, stream and client; `live` when the client still listens.
PeerOK(items, s, o, had, live) ==
  /\ StreamOK(items, s)
  /\ OpenOK(items, s, o, had)
  /\ live => Follows(s, o) /\ Reached(items, s, o, had) /\ AddsUp(items, s, o, had)

Live(p) == linked[p] /\ ~refused[p]
Peer(p) == PeerOK(QueueOf(p), down[p], open[p], dispatched, Live(p))

IInv == Types /\ Owners /\ Links /\ Apart /\ Events /\ \A p \in Peers : Peer(p)

\* No payload is too large for the client, and it never has more open than it may.
RoomForAll == (\A size \in Sizes : size <= Limit) /\ MaxPayloads <= MaxOpen
FullWhenRefused == \A p \in Peers : refused[p] => held(open[p]) = Limit
--------------------------------------------------------------------------------
(* Induction, and sums over finite sets.                                        *)

\* Induction, for the set of the numbers it is about.
LEMMA InductionOn ==
  ASSUME NEW S, 0 \in S, \A n \in Nat : n \in S => n + 1 \in S
  PROVE  Nat \subseteq S
<1>1. SUFFICES ASSUME Nat \ S # {} PROVE FALSE
  OBVIOUS
<1>2. PICK x \in Nat \ S : \A y \in Nat \ S : ~(<<y, x>> \in OpToRel(<, Nat))
  BY <1>1, NatLessThanWellFounded, WFMin
<1>3. \A y \in Nat \ S : ~(y < x)
  BY <1>2 DEF OpToRel
<1>4. x \in Nat /\ x # 0
  BY <1>2
<1>5. x - 1 \in Nat /\ x - 1 < x /\ (x - 1) + 1 = x
  BY <1>4
<1>6. x - 1 \in S
  BY <1>3, <1>5
<1>7. (x - 1) + 1 \in S
  BY <1>5, <1>6
<1> QED
  BY <1>2, <1>5, <1>7

\* g is the sum of v over each subset of S.
Adds(g, v, S) ==
  /\ g \in [SUBSET S -> Nat] /\ g[{}] = 0
  /\ \A T \in SUBSET S : \A x \in T : g[T] = v[x] + g[T \ {x}]

\* One more element.
LEMMA AddsOneMore ==
  ASSUME NEW S, NEW y, y \notin S, NEW v, \A x \in S \cup {y} : v[x] \in Nat, NEW g, Adds(g, v, S)
  PROVE  \E h : Adds(h, v, S \cup {y})
<1> DEFINE h == [T \in SUBSET (S \cup {y}) |-> IF y \in T THEN v[y] + g[T \ {y}] ELSE g[T]]
<1>1. \A T \in SUBSET (S \cup {y}) : T \ {y} \in SUBSET S /\ (y \notin T => T \in SUBSET S)
  OBVIOUS
<1>2. g \in [SUBSET S -> Nat] /\ g[{}] = 0 /\ \A T \in SUBSET S : \A x \in T : g[T] = v[x] + g[T \ {x}]
  BY DEF Adds
<1>3. h \in [SUBSET (S \cup {y}) -> Nat]
  <2> SUFFICES ASSUME NEW T \in SUBSET (S \cup {y}) PROVE h[T] \in Nat
    OBVIOUS
  <2>1. CASE y \in T
    <3>1. g[T \ {y}] \in Nat /\ v[y] \in Nat
      BY <1>1, <1>2
    <3> QED
      BY <2>1, <3>1
  <2>2. CASE y \notin T
    BY <1>1, <1>2, <2>2
  <2> QED
    BY <2>1, <2>2
<1>4. h[{}] = 0
  BY <1>2
<1>5. ASSUME NEW T \in SUBSET (S \cup {y}), NEW x \in T PROVE h[T] = v[x] + h[T \ {x}]
  <2>1. CASE y \notin T
    <3>1. T \in SUBSET S /\ T \ {x} \in SUBSET (S \cup {y}) /\ y \notin T \ {x}
      BY <2>1
    <3>2. g[T] = v[x] + g[T \ {x}]
      BY <1>2, <3>1
    <3> QED
      BY <2>1, <3>1, <3>2
  <2>2. CASE x = y
    <3>1. T \ {x} \in SUBSET (S \cup {y}) /\ y \notin T \ {x} /\ y \in T
      BY <2>2
    <3> QED
      BY <2>2, <3>1
  <2>3. CASE y \in T /\ x # y
    <3>1. T \ {y} \in SUBSET S /\ x \in T \ {y} /\ T \ {x} \in SUBSET (S \cup {y}) /\ y \in T \ {x}
      BY <2>3
    <3>2. (T \ {x}) \ {y} = (T \ {y}) \ {x}
      OBVIOUS
    <3>3. g[T \ {y}] = v[x] + g[(T \ {x}) \ {y}]
      BY <1>2, <3>1, <3>2
    <3>4. h[T] = v[y] + g[T \ {y}] /\ h[T \ {x}] = v[y] + g[(T \ {x}) \ {y}]
      BY <2>3, <3>1
    <3>5. (T \ {x}) \ {y} \in SUBSET S
      BY <3>1
    <3>6. g[(T \ {x}) \ {y}] \in Nat /\ v[x] \in Nat /\ v[y] \in Nat
      BY <1>2, <3>5
    <3> QED
      BY <3>3, <3>4, <3>6
  <2> QED
    BY <2>1, <2>2, <2>3
<1>6. Adds(h, v, S \cup {y})
  <2> HIDE DEF h
  <2> QED
    BY <1>3, <1>4, <1>5 DEF Adds
<1> QED
  BY <1>6

\* A finite set has a sum.
LEMMA SumExists ==
  ASSUME NEW S, IsFiniteSet(S), NEW v, \A x \in S : v[x] \in Nat
  PROVE  \E g : Adds(g, v, S)
<1> DEFINE Good == {n \in Nat : \A T \in SUBSET S : IsFiniteSet(T) /\ Cardinality(T) = n => \E g : Adds(g, v, T)}
<1>1. 0 \in Good
  <2> SUFFICES ASSUME NEW T \in SUBSET S, IsFiniteSet(T), Cardinality(T) = 0 PROVE \E g : Adds(g, v, T)
    OBVIOUS
  <2>1. T = {}
    BY FS_EmptySet
  <2>2. Adds([R \in SUBSET {} |-> 0], v, {})
    BY DEF Adds
  <2> QED
    BY <2>1, <2>2
<1>2. ASSUME NEW n \in Nat, n \in Good PROVE n + 1 \in Good
  <2> SUFFICES ASSUME NEW T \in SUBSET S, IsFiniteSet(T), Cardinality(T) = n + 1 PROVE \E g : Adds(g, v, T)
    OBVIOUS
  <2>1. T # {}
    BY FS_EmptySet
  <2>2. PICK y \in T : TRUE
    BY <2>1
  <2>3. IsFiniteSet(T \ {y}) /\ Cardinality(T \ {y}) = n
    <3>1. IsFiniteSet(T \ {y}) /\ Cardinality(T \ {y}) = Cardinality(T) - 1
      BY <2>2, FS_RemoveElement, Zenon
    <3> QED
      BY <3>1
  <2>4. PICK g : Adds(g, v, T \ {y})
    BY <1>2, <2>3
  <2>5. (T \ {y}) \cup {y} = T
    BY <2>2
  <2>6. \A x \in (T \ {y}) \cup {y} : v[x] \in Nat
    BY <2>5
  <2>7. \E h : Adds(h, v, (T \ {y}) \cup {y})
    BY <2>4, <2>6, AddsOneMore
  <2> QED
    BY <2>5, <2>7
<1>3. Nat \subseteq Good
  <2> HIDE DEF Good
  <2> QED
    BY <1>1, <1>2, InductionOn
<1>4. Cardinality(S) \in Good
  BY <1>3, FS_CardinalityType
<1> QED
  BY <1>4

\* h is computed one element at a time, in some order.
OneByOne(h, v, S) ==
  /\ h[{}] = 0
  /\ \A T \in SUBSET S : T # {} => \E x \in T : h[T \ {x}] \in Nat => h[T] = v[x] + h[T \ {x}]

\* That is the sum, too.
LEMMA SumIsUnique ==
  ASSUME NEW S, IsFiniteSet(S), NEW v, NEW g, Adds(g, v, S), NEW h, OneByOne(h, v, S)
  PROVE  h[S] = g[S]
<1> DEFINE Good == {n \in Nat : \A T \in SUBSET S : IsFiniteSet(T) /\ Cardinality(T) = n => h[T] = g[T]}
<1>1. 0 \in Good
  BY FS_EmptySet DEF Adds, OneByOne
<1>2. ASSUME NEW n \in Nat, n \in Good PROVE n + 1 \in Good
  <2> SUFFICES ASSUME NEW T \in SUBSET S, IsFiniteSet(T), Cardinality(T) = n + 1 PROVE h[T] = g[T]
    OBVIOUS
  <2>1. T # {}
    BY FS_EmptySet
  <2>2. PICK x \in T : h[T \ {x}] \in Nat => h[T] = v[x] + h[T \ {x}]
    BY <2>1 DEF OneByOne
  <2>3. IsFiniteSet(T \ {x}) /\ Cardinality(T \ {x}) = n /\ T \ {x} \in SUBSET S
    <3>1. IsFiniteSet(T \ {x}) /\ Cardinality(T \ {x}) = Cardinality(T) - 1
      BY <2>2, FS_RemoveElement, Zenon
    <3> QED
      BY <3>1
  <2>4. h[T \ {x}] = g[T \ {x}]
    BY <1>2, <2>3
  <2>5. g[T \ {x}] \in Nat /\ g[T] = v[x] + g[T \ {x}]
    BY <2>3 DEF Adds
  <2> QED
    BY <2>2, <2>4, <2>5
<1>3. Nat \subseteq Good
  <2> HIDE DEF Good
  <2> QED
    BY <1>1, <1>2, InductionOn
<1>4. Cardinality(S) \in Good
  BY <1>3, FS_CardinalityType
<1> QED
  BY <1>4

\* A part of the set.
LEMMA AddsOnPart ==
  ASSUME NEW S, NEW v, NEW g, Adds(g, v, S), NEW R \in SUBSET S, NEW w, \A x \in R : w[x] = v[x]
  PROVE  \E h : Adds(h, w, R) /\ h[R] = g[R]
<1> DEFINE h == [T \in SUBSET R |-> g[T]]
<1>1. g \in [SUBSET S -> Nat] /\ g[{}] = 0 /\ \A T \in SUBSET S : \A x \in T : g[T] = v[x] + g[T \ {x}]
  BY DEF Adds
<1>2. h \in [SUBSET R -> Nat] /\ h[{}] = 0 /\ h[R] = g[R]
  BY <1>1
<1>3. ASSUME NEW T \in SUBSET R, NEW x \in T PROVE h[T] = w[x] + h[T \ {x}]
  <2>1. T \in SUBSET S /\ T \ {x} \in SUBSET R
    OBVIOUS
  <2> QED
    BY <1>1, <2>1
<1>4. Adds(h, w, R)
  <2> HIDE DEF h
  <2> QED
    BY <1>2, <1>3 DEF Adds
<1> QED
  BY <1>2, <1>4

--------------------------------------------------------------------------------
(* What the client holds.                                                       *)

LEMMA PayloadIdsFinite == IsFiniteSet(PayloadIds) /\ Cardinality(PayloadIds) = MaxPayloads
<1>1. 1 \in Int /\ MaxPayloads \in Int /\ MaxPayloads \in Nat
  BY PayloadAssumption
<1>2. IsFiniteSet(1 .. MaxPayloads) /\ Cardinality(1 .. MaxPayloads) = IF 1 > MaxPayloads THEN 0 ELSE MaxPayloads - 1 + 1
  BY <1>1, FS_Interval
<1> QED
  BY <1>1, <1>2 DEF PayloadIds

LEMMA HeldIsSum ==
  ASSUME NEW o, IsFiniteSet(DOMAIN o), NEW v, \A i \in DOMAIN o : v[i] = o[i].got,
         NEW g, Adds(g, v, DOMAIN o)
  PROVE  held(o) = g[DOMAIN o]
<1> DEFINE Eq(it) == it = [s \in SUBSET (DOMAIN o) |->
                             IF s = {} THEN 0 ELSE o[CHOOSE x \in s : TRUE].got + it[s \ {CHOOSE x \in s : TRUE}]]
           h == CHOOSE it : Eq(it)
<1>1. Eq(g)
  <2>1. g \in [SUBSET (DOMAIN o) -> Nat] /\ g[{}] = 0
        /\ \A T \in SUBSET (DOMAIN o) : \A x \in T : g[T] = v[x] + g[T \ {x}]
    BY DEF Adds
  <2>2. ASSUME NEW s \in SUBSET (DOMAIN o)
        PROVE  g[s] = IF s = {} THEN 0 ELSE o[CHOOSE x \in s : TRUE].got + g[s \ {CHOOSE x \in s : TRUE}]
    <3>1. CASE s = {}
      BY <2>1, <3>1
    <3>2. CASE s # {}
      <4>1. (CHOOSE x \in s : TRUE) \in s
        BY <3>2
      <4> QED
        BY <2>1, <3>2, <4>1
    <3> QED
      BY <3>1, <3>2
  <2> QED
    BY <2>1, <2>2
<1>2. Eq(h)
  <2> HIDE DEF Eq
  <2> QED
    BY <1>1
<1>3. held(o) = h[DOMAIN o]
  BY DEF held, MapThenSumSet, MapThenFoldSet
<1>4. h[{}] = 0
  <2> HIDE DEF h
  <2> QED
    BY <1>2
<1>5. ASSUME NEW T \in SUBSET (DOMAIN o), T # {}
      PROVE  \E x \in T : h[T \ {x}] \in Nat => h[T] = v[x] + h[T \ {x}]
  <2>1. (CHOOSE x \in T : TRUE) \in T
    BY <1>5
  <2> HIDE DEF h
  <2> WITNESS (CHOOSE x \in T : TRUE) \in T
  <2> QED
    BY <1>2, <1>5, <2>1
<1> HIDE DEF h
<1>6. OneByOne(h, v, DOMAIN o)
  <2> HIDE DEF Eq
  <2> QED
    BY <1>4, <1>5 DEF OneByOne
<1>7. h[DOMAIN o] = g[DOMAIN o]
  BY <1>6, SumIsUnique
<1> QED
  BY <1>3, <1>7

\* Taking a part out takes its bytes out.
LEMMA HeldRemoved ==
  ASSUME NEW o, IsFiniteSet(DOMAIN o), \A j \in DOMAIN o : o[j].got \in Nat, NEW i \in DOMAIN o
  PROVE  /\ held(Without(o, {i})) \in Nat /\ held(o) \in Nat
         /\ held(o) = o[i].got + held(Without(o, {i}))
<1> DEFINE v == [j \in DOMAIN o |-> o[j].got]
<1>1. \A j \in DOMAIN o : v[j] = o[j].got /\ v[j] \in Nat
  OBVIOUS
<1> HIDE DEF v
<1>2. PICK g : Adds(g, v, DOMAIN o)
  BY <1>1, SumExists
<1>3. held(o) = g[DOMAIN o]
  BY <1>1, <1>2, HeldIsSum
<1> DEFINE q == Without(o, {i})
<1>4. DOMAIN q = DOMAIN o \ {i} /\ \A j \in DOMAIN q : v[j] = q[j].got
  BY <1>1 DEF Without
<1>5. PICK h : Adds(h, v, DOMAIN o \ {i}) /\ h[DOMAIN o \ {i}] = g[DOMAIN o \ {i}]
  BY <1>2, AddsOnPart
<1>6. IsFiniteSet(DOMAIN o \ {i})
  BY FS_RemoveElement
<1>7. held(q) = g[DOMAIN o \ {i}]
  <2> HIDE DEF q
  <2>1. IsFiniteSet(DOMAIN q) /\ Adds(h, v, DOMAIN q)
    BY <1>4, <1>5, <1>6
  <2>2. held(q) = h[DOMAIN q]
    BY <1>4, <2>1, HeldIsSum
  <2> QED
    BY <1>4, <1>5, <2>2
<1>8. /\ g[DOMAIN o] \in Nat /\ g[DOMAIN o \ {i}] \in Nat
      /\ g[DOMAIN o] = v[i] + g[DOMAIN o \ {i}]
  BY <1>2 DEF Adds
<1> QED
  BY <1>1, <1>3, <1>7, <1>8

\* A client that has nothing open holds nothing.
LEMMA HeldNothing == held(Nothing) = 0
<1>1. DOMAIN Nothing = {}
  BY DEF Nothing
<1>2. Adds([T \in SUBSET {} |-> 0], Nothing, {})
  BY DEF Adds
<1>3. IsFiniteSet({})
  BY FS_EmptySet
<1>4. held(Nothing) = [T \in SUBSET {} |-> 0][{}]
  BY <1>1, <1>2, <1>3, HeldIsSum
<1> QED
  BY <1>4

--------------------------------------------------------------------------------
(* What is on the way.                                                          *)

Brings(m, i) == IF IsData(m, i) THEN m.data ELSE 0

LEMMA BringsType ==
  ASSUME NEW m \in Messages, NEW i
  PROVE  Brings(m, i) \in Nat
BY DEF Brings, IsData, Messages, DataMessages, CancelMessages

LEMMA FlightIsSum ==
  ASSUME NEW s, IsFiniteSet(DOMAIN s), NEW i, NEW v, \A k \in DOMAIN s : v[k] = Brings(s[k], i) /\ v[k] \in Nat,
         NEW g, Adds(g, v, DOMAIN s)
  PROVE  Flight(s, i) = g[DOMAIN s]
<1> DEFINE m(T) == s[CHOOSE x \in T : TRUE]
           rest(T) == T \ {CHOOSE x \in T : TRUE}
           Eq(it) == it = [T \in SUBSET (DOMAIN s) |->
                             IF T = {} THEN 0
                             ELSE IF m(T).kind # "cancel" /\ m(T).id = i THEN it[rest(T)] + m(T).data
                             ELSE it[rest(T)]]
           h == CHOOSE it : Eq(it)
<1>1. ASSUME NEW T \in SUBSET (DOMAIN s), T # {}
      PROVE  /\ rest(T) \in SUBSET (DOMAIN s) /\ (CHOOSE x \in T : TRUE) \in T
             /\ v[CHOOSE x \in T : TRUE] = Brings(m(T), i) /\ v[CHOOSE x \in T : TRUE] \in Nat
  <2>1. (CHOOSE x \in T : TRUE) \in T
    BY <1>1
  <2> QED
    BY <2>1
<1>2. Eq(g)
  <2>1. g \in [SUBSET (DOMAIN s) -> Nat] /\ g[{}] = 0
        /\ \A T \in SUBSET (DOMAIN s) : \A x \in T : g[T] = v[x] + g[T \ {x}]
    BY DEF Adds
  <2>2. ASSUME NEW T \in SUBSET (DOMAIN s)
        PROVE  g[T] = IF T = {} THEN 0
                      ELSE IF m(T).kind # "cancel" /\ m(T).id = i THEN g[rest(T)] + m(T).data
                      ELSE g[rest(T)]
    <3>1. CASE T = {}
      BY <2>1, <3>1
    <3>2. CASE T # {}
      <4>1. g[T] = v[CHOOSE x \in T : TRUE] + g[rest(T)] /\ g[rest(T)] \in Nat
        BY <1>1, <2>1, <3>2
      <4>2. g[T] = Brings(m(T), i) + g[rest(T)] /\ Brings(m(T), i) \in Nat
        BY <1>1, <3>2, <4>1
      <4> HIDE DEF m, rest
      <4> QED
        BY <3>2, <4>1, <4>2 DEF Brings, IsData
    <3> QED
      BY <3>1, <3>2
  <2> HIDE DEF m, rest
  <2> QED
    BY <2>1, <2>2
<1>3. Eq(h)
  <2> HIDE DEF Eq
  <2> QED
    BY <1>2
<1>4. Flight(s, i) = h[DOMAIN s]
  BY DEF Flight, FoldSeq, FoldFunction, FoldFunctionOnSet, MapThenFoldSet
<1> HIDE DEF h
<1>5. OneByOne(h, v, DOMAIN s)
  <2>1. h[{}] = 0
    BY <1>3
  <2>2. ASSUME NEW T \in SUBSET (DOMAIN s), T # {}
        PROVE  \E x \in T : h[T \ {x}] \in Nat => h[T] = v[x] + h[T \ {x}]
    <3>1. (CHOOSE x \in T : TRUE) \in T
      BY <1>1, <2>2
    <3>2. h[T] = IF m(T).kind # "cancel" /\ m(T).id = i THEN h[rest(T)] + m(T).data ELSE h[rest(T)]
      <4> HIDE DEF m, rest
      <4> QED
        BY <1>3, <2>2
    <3>3. v[CHOOSE x \in T : TRUE] = Brings(m(T), i) /\ v[CHOOSE x \in T : TRUE] \in Nat
      BY <1>1, <2>2
    <3>4. h[rest(T)] \in Nat => h[T] = v[CHOOSE x \in T : TRUE] + h[rest(T)]
      <4> HIDE DEF m, rest
      <4> QED
        BY <3>2, <3>3 DEF Brings, IsData
    <3> WITNESS (CHOOSE x \in T : TRUE) \in T
    <3> QED
      BY <3>4
  <2> HIDE DEF Eq
  <2> QED
    BY <2>1, <2>2 DEF OneByOne
<1>6. h[DOMAIN s] = g[DOMAIN s]
  BY <1>5, SumIsUnique
<1> QED
  BY <1>4, <1>6

LEMMA SeqFinite ==
  ASSUME NEW s \in Seq(Messages)
  PROVE  IsFiniteSet(DOMAIN s)
<1>1. Len(s) \in Nat /\ DOMAIN s = 1 .. Len(s) /\ 1 \in Int /\ Len(s) \in Int
  OBVIOUS
<1> QED
  BY <1>1, FS_Interval

LEMMA FlightAppend ==
  ASSUME NEW s \in Seq(Messages), NEW m \in Messages, NEW i
  PROVE  Flight(s, i) \in Nat /\ Flight(Append(s, m), i) = Flight(s, i) + Brings(m, i)
<1> DEFINE t == Append(s, m)
           n == Len(s) + 1
           v == [k \in 1 .. n |-> Brings(t[k], i)]
<1>1. /\ Len(s) \in Nat /\ DOMAIN s = 1 .. Len(s) /\ DOMAIN t = 1 .. n /\ t \in Seq(Messages)
      /\ \A k \in DOMAIN s : t[k] = s[k] /\ s[k] \in Messages
      /\ t[n] = m /\ n \in 1 .. n
  OBVIOUS
<1>2. IsFiniteSet(DOMAIN s) /\ IsFiniteSet(1 .. n)
  BY <1>1, SeqFinite
<1>3. \A k \in 1 .. n : v[k] = Brings(t[k], i) /\ v[k] \in Nat
  <2>1. \A k \in 1 .. n : t[k] \in Messages
    BY <1>1
  <2> QED
    BY <2>1, BringsType
<1> HIDE DEF v
<1>4. PICK g : Adds(g, v, 1 .. n)
  BY <1>2, <1>3, SumExists
<1>5. Flight(t, i) = g[1 .. n]
  <2> HIDE DEF t, n
  <2>1. \A k \in DOMAIN t : v[k] = Brings(t[k], i) /\ v[k] \in Nat
    BY <1>1, <1>3
  <2> QED
    BY <1>1, <1>2, <1>4, <2>1, FlightIsSum
<1>6. DOMAIN s = (1 .. n) \ {n} /\ \A k \in DOMAIN s : v[k] = Brings(s[k], i) /\ v[k] \in Nat
  <2>1. DOMAIN s = (1 .. n) \ {n}
    BY <1>1
  <2> HIDE DEF t, n
  <2> QED
    BY <1>1, <1>3, <2>1
<1>7. PICK h : Adds(h, v, DOMAIN s) /\ h[DOMAIN s] = g[DOMAIN s]
  <2> PICK S : S = 1 .. n
    OBVIOUS
  <2> PICK R : R = DOMAIN s
    OBVIOUS
  <2>1. R \in SUBSET S /\ Adds(g, v, S)
    BY <1>4, <1>6
  <2>2. \E h : Adds(h, v, R) /\ h[R] = g[R]
    BY ONLY <2>1, AddsOnPart
  <2> QED
    BY <2>2
<1>8. Flight(s, i) = g[DOMAIN s]
  BY <1>2, <1>6, <1>7, FlightIsSum
<1>9. g[1 .. n] = v[n] + g[(1 .. n) \ {n}] /\ g[(1 .. n) \ {n}] \in Nat
  <2> HIDE DEF n
  <2> QED
    BY <1>1, <1>4 DEF Adds
<1>10. v[n] = Brings(m, i) /\ v[n] \in Nat
  <2> HIDE DEF t, n
  <2> QED
    BY <1>1, <1>3
<1> HIDE DEF t, n
<1> QED
  BY <1>5, <1>6, <1>8, <1>9, <1>10 DEF t

LEMMA FlightNone ==
  ASSUME NEW s \in Seq(Messages), NEW i, \A k \in DOMAIN s : ~IsData(s[k], i)
  PROVE  Flight(s, i) = 0
<1> DEFINE v == [k \in DOMAIN s |-> 0]
           g == [T \in SUBSET (DOMAIN s) |-> 0]
<1>1. \A k \in DOMAIN s : v[k] = Brings(s[k], i) /\ v[k] \in Nat
  BY DEF Brings
<1>2. Adds(g, v, DOMAIN s)
  BY DEF Adds
<1>3. IsFiniteSet(DOMAIN s)
  BY SeqFinite
<1>4. g[DOMAIN s] = 0
  OBVIOUS
<1> HIDE DEF v, g
<1>5. Flight(s, i) = g[DOMAIN s]
  BY <1>1, <1>2, <1>3, FlightIsSum
<1> QED
  BY <1>4, <1>5

LEMMA FlightTail ==
  ASSUME NEW s \in Seq(Messages), s # <<>>, NEW i
  PROVE  Flight(s, i) = Brings(Head(s), i) + Flight(Tail(s), i) /\ Flight(Tail(s), i) \in Nat
<1> DEFINE t == Tail(s)
           n == Len(s)
           v == [k \in 1 .. n |-> Brings(s[k], i)]
           w == [k \in 1 .. n - 1 |-> Brings(t[k], i)]
           Up(T) == {k + 1 : k \in T}
<1>1. /\ n \in Nat /\ n >= 1 /\ DOMAIN s = 1 .. n /\ DOMAIN t = 1 .. n - 1 /\ t \in Seq(Messages)
      /\ \A k \in 1 .. n - 1 : t[k] = s[k + 1] /\ k + 1 \in 1 .. n
      /\ \A k \in 1 .. n : s[k] \in Messages
      /\ Head(s) = s[1] /\ 1 \in 1 .. n
  OBVIOUS
<1>2. IsFiniteSet(DOMAIN s) /\ IsFiniteSet(DOMAIN t)
  BY <1>1, SeqFinite
<1>3. \A k \in 1 .. n : v[k] = Brings(s[k], i) /\ v[k] \in Nat
  BY <1>1, BringsType
<1>4. \A k \in 1 .. n - 1 : w[k] = Brings(t[k], i) /\ w[k] = v[k + 1] /\ w[k] \in Nat
  BY <1>1, <1>3
<1> HIDE DEF v, w, t, n
<1>5. PICK g : Adds(g, v, 1 .. n)
  BY <1>1, <1>2, <1>3, SumExists
<1>6. Flight(s, i) = g[1 .. n]
  <2>1. Adds(g, v, DOMAIN s) /\ \A k \in DOMAIN s : v[k] = Brings(s[k], i) /\ v[k] \in Nat
    BY <1>1, <1>3, <1>5
  <2>2. Flight(s, i) = g[DOMAIN s]
    BY <1>2, <2>1, FlightIsSum
  <2> QED
    BY <1>1, <2>2
<1>7. g \in [SUBSET (1 .. n) -> Nat] /\ g[{}] = 0 /\ \A T \in SUBSET (1 .. n) : \A x \in T : g[T] = v[x] + g[T \ {x}]
  BY <1>5 DEF Adds
<1> DEFINE h == [T \in SUBSET (1 .. n - 1) |-> g[Up(T)]]
<1>8. Adds(h, w, 1 .. n - 1)
  <2>1. \A T \in SUBSET (1 .. n - 1) : Up(T) \in SUBSET (1 .. n)
    BY <1>1
  <2>2. h \in [SUBSET (1 .. n - 1) -> Nat]
    <3> HIDE DEF Up
    <3> QED
      BY <1>7, <2>1
  <2>3. h[{}] = 0
    <3>1. Up({}) = {}
      OBVIOUS
    <3> HIDE DEF Up
    <3> QED
      BY <1>7, <3>1
  <2>4. ASSUME NEW T \in SUBSET (1 .. n - 1), NEW x \in T PROVE h[T] = w[x] + h[T \ {x}]
    <3>1. x \in Int /\ (\A k \in T : k \in Int)
      BY <1>1
    <3>2. Up(T \ {x}) = Up(T) \ {x + 1}
      BY <3>1
    <3>3. x + 1 \in Up(T)
      OBVIOUS
    <3>4. T \ {x} \in SUBSET (1 .. n - 1) /\ x \in 1 .. n - 1
      OBVIOUS
    <3> HIDE DEF Up
    <3>5. g[Up(T)] = v[x + 1] + g[Up(T) \ {x + 1}]
      BY <1>7, <2>1, <3>3
    <3> QED
      BY <1>4, <3>2, <3>4, <3>5
  <2> HIDE DEF h
  <2> QED
    BY <2>2, <2>3, <2>4 DEF Adds
<1>9. Flight(t, i) = h[1 .. n - 1]
  <2> HIDE DEF h
  <2> QED
    BY <1>1, <1>2, <1>4, <1>8, FlightIsSum
<1>10. Up(1 .. n - 1) = (1 .. n) \ {1}
  <2>1. ASSUME NEW k \in (1 .. n) \ {1} PROVE k - 1 \in 1 .. n - 1 /\ k = (k - 1) + 1
    BY <1>1
  <2>2. ASSUME NEW k \in 1 .. n - 1 PROVE k + 1 \in (1 .. n) \ {1}
    BY <1>1
  <2> QED
    BY <2>1, <2>2
<1>11. h[1 .. n - 1] = g[(1 .. n) \ {1}]
  <2> HIDE DEF Up
  <2> QED
    BY <1>10
<1>12. g[1 .. n] = v[1] + g[(1 .. n) \ {1}] /\ g[(1 .. n) \ {1}] \in Nat
  <2> PICK S : S = 1 .. n
    OBVIOUS
  <2>1. S \in SUBSET (1 .. n) /\ 1 \in S /\ S \ {1} \in SUBSET (1 .. n)
    BY <1>1
  <2>2. g[S] = v[1] + g[S \ {1}] /\ g[S \ {1}] \in Nat
    BY <1>7, <2>1
  <2> QED
    BY <2>2
<1> HIDE DEF h
<1> QED
  BY <1>1, <1>3, <1>6, <1>9, <1>11, <1>12 DEF t

--------------------------------------------------------------------------------
(* One message of pump.                                                         *)

LEMMA MinOfTwo ==
  ASSUME NEW a \in Int, NEW b \in Int
  PROVE  Min({a, b}) = IF a <= b THEN a ELSE b
<1>1. \E x \in {a, b} : \A y \in {a, b} : x <= y
  OBVIOUS
<1>2. Min({a, b}) \in {a, b} /\ \A y \in {a, b} : Min({a, b}) <= y
  BY <1>1 DEF Min
<1> QED
  BY <1>2

\* What a queue, its stream and its client keep, with their types.
SendOK(items, s, o, had, live) ==
  /\ IsTable(items) /\ \A i \in DOMAIN items : ItemOK(items[i])
  /\ s \in Seq(Messages) /\ \A k \in DOMAIN s : MessageOK(s[k])
  /\ PeerOK(items, s, o, had, live)

\* A queue before and after m, a message of payload i, was sent.
Sends(items, next, m, i) ==
  /\ i \in DOMAIN items /\ i \in PayloadIds /\ ~items[i].awaiting
  /\ m \in DataMessages /\ MessageOK(m)
  /\ m.id = i /\ m.size = items[i].size /\ m.offset = items[i].sent
  /\ m.kind = IF items[i].started THEN "fragment" ELSE "begin"
  /\ DOMAIN next = DOMAIN items /\ IsTable(next)
  /\ \A j \in DOMAIN items : j # i => next[j] = items[j]
  /\ next[i].started /\ next[i].sent = items[i].sent + m.data
  /\ next[i].size = items[i].size /\ next[i].prio = items[i].prio /\ next[i].queued = items[i].queued
  /\ ItemOK(next[i])

LEMMA FragmentSends ==
  ASSUME NEW items, IsTable(items), \A j \in DOMAIN items : ItemOK(items[j]), NEW i \in Ready(items)
  PROVE  Sends(items, Fragment(items, i).items, Fragment(items, i).message, i)
<1> DEFINE f == Fragment(items, i)
           item == items[i]
           data == Min({item.size - item.sent, 1})
           after == [item EXCEPT !.started = TRUE, !.sent = item.sent + data, !.awaiting = item.sent + data = item.size]
<1>1. /\ i \in DOMAIN items /\ i \in PayloadIds /\ ~item.awaiting /\ ItemOK(item) /\ item \in Items
  BY DEF Ready, IsTable, ItemOK
<1>2. item.size \in Nat /\ item.sent \in Nat /\ item.sent <= item.size /\ item.size \in Sizes
  BY <1>1, PayloadAssumption DEF ItemOK, Items
<1>3. data \in {0, 1} /\ (data = 0 <=> item.sent = item.size)
  <2>1. data = IF item.size - item.sent <= 1 THEN item.size - item.sent ELSE 1
    BY <1>2, MinOfTwo
  <2> QED
    BY <1>2, <2>1
<1>4. f.message = [kind |-> IF item.started THEN "fragment" ELSE "begin", id |-> i,
                   size |-> item.size, offset |-> item.sent, data |-> data]
  BY DEF Fragment
<1>5. f.items = [items EXCEPT ![i].started = TRUE, ![i].sent = @ + data, ![i].awaiting = item.sent + data = item.size]
  BY DEF Fragment
<1> HIDE DEF data, f
<1>6. f.items = [items EXCEPT ![i] = after]
  BY <1>1, <1>5 DEF IsTable, Items
<1>7. after \in Items /\ after.started /\ after.sent = item.sent + data /\ after.size = item.size
      /\ after.prio = item.prio /\ after.queued = item.queued /\ after.awaiting = (item.sent + data = item.size)
  <2>1. item.sent + data \in Nat /\ (item.sent + data = item.size) \in BOOLEAN
    BY <1>2, <1>3
  <2>2. item \in Items
    BY <1>1
  <2> HIDE DEF item
  <2> QED
    BY <2>1, <2>2 DEF Items
<1>8. ItemOK(after)
  <2>1. after.sent <= after.size /\ (after.sent > 0 \/ after.awaiting)
    <3> HIDE DEF after, item
    <3>1. after.sent = item.sent + data /\ after.size = item.size
      BY <1>7
    <3>2. after.awaiting <=> item.sent + data = item.size
      BY <1>7
    <3>3. CASE data = 0
      BY <1>2, <1>3, <3>1, <3>2, <3>3
    <3>4. CASE data = 1
      BY <1>2, <1>3, <3>1, <3>4
    <3> QED
      BY <1>3, <3>3, <3>4
  <2>2. after.queued \in 1 .. now
    BY <1>1, <1>7 DEF ItemOK
  <2> HIDE DEF after, item
  <2> QED
    BY <1>7, <2>1, <2>2 DEF ItemOK
<1>9. f.message \in DataMessages
  BY <1>1, <1>2, <1>3, <1>4 DEF DataMessages
<1>10. MessageOK(f.message)
  <2>1. ~item.started => item.sent = 0
    BY <1>1 DEF ItemOK
  <2>2. item.started => item.sent > 0 /\ item.sent # item.size
    BY <1>1 DEF ItemOK
  <2>3. /\ f.message.kind = IF item.started THEN "fragment" ELSE "begin"
        /\ f.message.size = item.size /\ f.message.offset = item.sent /\ f.message.data = data
    BY <1>4
  <2>4. item.sent + data <= item.size /\ (data = 0 => item.sent = item.size) /\ (item.sent # item.size => data = 1)
    BY <1>2, <1>3
  <2> HIDE DEF item
  <2> QED
    BY <2>1, <2>2, <2>3, <2>4 DEF MessageOK
<1>11. /\ DOMAIN f.items = DOMAIN items /\ IsTable(f.items) /\ f.items[i] = after
       /\ \A j \in DOMAIN items : j # i => f.items[j] = items[j]
  BY <1>1, <1>6 DEF IsTable
<1> HIDE DEF after
<1> QED
  BY <1>1, <1>4, <1>7, <1>8, <1>9, <1>10, <1>11 DEF f, Sends

LEMMA SendsStream ==
  ASSUME NEW items, NEW next, NEW m, NEW i, NEW s, NEW o, NEW had, Sends(items, next, m, i),
         SendOK(items, s, o, had, FALSE)
  PROVE  /\ Append(s, m) \in Seq(Messages) /\ \A k \in DOMAIN Append(s, m) : MessageOK(Append(s, m)[k])
         /\ StreamOK(next, Append(s, m))
<1> PICK t : t = Append(s, m)
  OBVIOUS
<1> PICK n : n = Len(s) + 1
  OBVIOUS
<1>1. s \in Seq(Messages) /\ m \in Messages /\ m \in DataMessages
  BY DEF SendOK, PeerOK, Sends, Messages
<1>2. /\ t \in Seq(Messages) /\ DOMAIN s = 1 .. n - 1 /\ DOMAIN t = 1 .. n /\ n \in Nat /\ n >= 1
      /\ t[n] = m /\ \A k \in DOMAIN s : t[k] = s[k]
  BY <1>1
<1>3. \A k \in DOMAIN t : k = n \/ (k \in DOMAIN s /\ k < n)
  <2>1. \A k \in 1 .. n : k = n \/ (k \in 1 .. n - 1 /\ k < n)
    BY <1>2
  <2> QED
    BY <1>2, <2>1
<1>4. \A k \in DOMAIN t : MessageOK(t[k])
  BY <1>2, <1>3 DEF SendOK, PeerOK, Sends
<1>5. m.kind # "cancel" /\ m.id = i
  BY <1>1 DEF DataMessages, Sends
<1>6. ASSUME NEW j \in DOMAIN t, NEW k \in DOMAIN t, j < k, t[k].kind # "cancel", t[j].id = t[k].id
      PROVE  /\ t[j].kind # "cancel" /\ t[k].kind = "fragment" /\ t[k].size = t[j].size
             /\ t[j].offset + t[j].data <= t[k].offset
  <2>1. j \in DOMAIN s /\ t[j] = s[j]
    BY <1>2, <1>3, <1>6
  <2>2. CASE k \in DOMAIN s
    BY <1>2, <1>6, <2>1, <2>2 DEF SendOK, PeerOK, StreamOK
  <2>3. CASE k = n
    <3>1. t[k] = m /\ s[j].id = i /\ i \in DOMAIN items
      BY <1>2, <1>5, <1>6, <2>1, <2>3 DEF Sends
    <3>2. /\ s[j].kind # "cancel" /\ items[i].started /\ s[j].size = items[i].size
          /\ s[j].offset + s[j].data <= items[i].sent
      BY <2>1, <3>1 DEF SendOK, PeerOK, StreamOK
    <3> QED
      BY <2>1, <3>1, <3>2 DEF Sends
  <2> QED
    BY <1>3, <2>2, <2>3
<1>7. ASSUME NEW k \in DOMAIN t, t[k].id \in DOMAIN next
      PROVE  /\ t[k].kind # "cancel" /\ next[t[k].id].started /\ t[k].size = next[t[k].id].size
             /\ t[k].offset + t[k].data <= next[t[k].id].sent
  <2>1. CASE k = n
    BY <1>1, <1>2, <1>5, <2>1 DEF Sends, DataMessages, ItemOK, Items
  <2>2. CASE k \in DOMAIN s
    <3>1. t[k] = s[k] /\ s[k].id \in DOMAIN items
      BY <1>2, <1>7, <2>2 DEF Sends
    <3>2. LET item == items[s[k].id] IN
          /\ s[k].kind # "cancel" /\ item.started /\ s[k].size = item.size
          /\ s[k].offset + s[k].data <= item.sent
      BY <2>2, <3>1 DEF SendOK, PeerOK, StreamOK
    <3>3. CASE s[k].id # i
      <4>1. next[s[k].id] = items[s[k].id]
        BY <3>1, <3>3 DEF Sends
      <4> QED
        BY <3>1, <3>2, <4>1
    <3>4. CASE s[k].id = i
      <4>1. /\ next[i].started /\ next[i].sent = items[i].sent + m.data /\ next[i].size = items[i].size
            /\ m.data \in Nat /\ items[i].sent \in Nat
        BY <1>1, <3>1, <3>4 DEF Sends, DataMessages, SendOK, PeerOK, ItemOK, Items
      <4>2. s[k] \in DataMessages
        BY <1>1, <2>2, <3>2 DEF Messages, CancelMessages
      <4>3. s[k].offset \in Nat /\ s[k].data \in Nat
        BY <4>2 DEF DataMessages
      <4> QED
        BY <3>1, <3>2, <3>4, <4>1, <4>3
    <3> QED
      BY <3>3, <3>4
  <2> QED
    BY <1>3, <2>1, <2>2
<1>8. StreamOK(next, t)
  BY <1>6, <1>7 DEF StreamOK
<1> QED
  BY <1>2, <1>4, <1>8

LEMMA SendsOpen ==
  ASSUME NEW items, NEW next, NEW m, NEW i, NEW s, NEW o, NEW had, Sends(items, next, m, i),
         SendOK(items, s, o, had, FALSE)
  PROVE  OpenOK(next, Append(s, m), o, had) /\ had[i] = 0
<1> PICK t : t = Append(s, m)
  OBVIOUS
<1> PICK n : n = Len(s) + 1
  OBVIOUS
<1>1. s \in Seq(Messages) /\ m \in Messages /\ m \in DataMessages
  BY DEF SendOK, PeerOK, Sends, Messages
<1>2. /\ DOMAIN s = 1 .. n - 1 /\ DOMAIN t = 1 .. n /\ n \in Nat /\ n >= 1
      /\ t[n] = m /\ \A k \in DOMAIN s : t[k] = s[k]
  BY <1>1
<1>3. \A k \in DOMAIN t : k = n \/ k \in DOMAIN s
  BY <1>2
<1>4. i \in DOMAIN items /\ i \in PayloadIds /\ ~items[i].awaiting /\ had[i] = 0
  BY DEF Sends, SendOK, PeerOK, OpenOK
<1>5. ASSUME NEW j \in DOMAIN o
      PROVE  /\ had[j] = 0
             /\ j \in DOMAIN next => next[j].started /\ next[j].size = o[j].total
             /\ \A k \in DOMAIN t : IsData(t[k], j) => t[k].kind = "fragment" /\ t[k].size = o[j].total
  <2>1. /\ had[j] = 0
        /\ j \in DOMAIN items => items[j].started /\ items[j].size = o[j].total
        /\ \A k \in DOMAIN s : IsData(s[k], j) => s[k].kind = "fragment" /\ s[k].size = o[j].total
    BY DEF SendOK, PeerOK, OpenOK
  <2>2. j \in DOMAIN next => next[j].started /\ next[j].size = o[j].total
    BY <2>1 DEF Sends
  <2>3. IsData(m, j) => m.kind = "fragment" /\ m.size = o[j].total
    BY <1>4, <2>1 DEF Sends, IsData
  <2> QED
    BY <1>2, <1>3, <2>1, <2>2, <2>3
<1>6. ASSUME NEW j \in PayloadIds, had[j] # 0
      PROVE  /\ j \in DOMAIN next => next[j].awaiting
             /\ \A k \in DOMAIN t : ~IsData(t[k], j)
  <2>1. /\ j \in DOMAIN items => items[j].awaiting
        /\ \A k \in DOMAIN s : ~IsData(s[k], j)
    BY <1>6 DEF SendOK, PeerOK, OpenOK
  <2>2. j # i /\ ~IsData(m, j)
    BY <1>4, <1>6 DEF Sends, IsData
  <2>3. j \in DOMAIN next => next[j].awaiting
    BY <2>1, <2>2 DEF Sends
  <2> QED
    BY <1>2, <1>3, <2>1, <2>2, <2>3
<1> QED
  BY <1>4, <1>5, <1>6 DEF OpenOK

LEMMA SendsLive ==
  ASSUME NEW items, NEW next, NEW m, NEW i, NEW s, NEW o, NEW had, Sends(items, next, m, i),
         SendOK(items, s, o, had, TRUE), \A j \in DOMAIN o : o[j] \in Parts
  PROVE  Follows(Append(s, m), o) /\ Reached(next, Append(s, m), o, had) /\ AddsUp(next, Append(s, m), o, had)
<1> PICK t : t = Append(s, m)
  OBVIOUS
<1> PICK n : n = Len(s) + 1
  OBVIOUS
<1>1. s \in Seq(Messages) /\ m \in Messages /\ m \in DataMessages /\ m.kind # "cancel" /\ m.id = i
  BY DEF SendOK, PeerOK, Sends, Messages, DataMessages
<1>2. /\ DOMAIN s = 1 .. n - 1 /\ DOMAIN t = 1 .. n /\ n \in Nat /\ n >= 1
      /\ t[n] = m /\ \A k \in DOMAIN s : t[k] = s[k]
  BY <1>1
<1>3. \A k \in DOMAIN t : k = n \/ (k \in DOMAIN s /\ k < n)
  <2>1. \A k \in 1 .. n : k = n \/ (k \in 1 .. n - 1 /\ k < n)
    BY <1>2
  <2> QED
    BY <1>2, <2>1
<1>4. \A k \in DOMAIN s : k \in DOMAIN t /\ k < n
  BY <1>2
<1>5. /\ i \in DOMAIN items /\ DOMAIN next = DOMAIN items /\ next[i].sent = items[i].sent + m.data
      /\ \A j \in DOMAIN items : j # i => next[j] = items[j]
  BY DEF Sends
<1>6. had[i] = 0
  BY SendsOpen DEF SendOK, PeerOK
<1>7. Follows(t, o)
  <2> SUFFICES ASSUME NEW k \in DOMAIN t, t[k].kind = "fragment"
               PROVE  \/ \E j \in DOMAIN t : j < k /\ IsData(t[j], t[k].id) /\ t[j].offset + t[j].data = t[k].offset
                      \/ t[k].id \in DOMAIN o /\ o[t[k].id].got = t[k].offset
    BY DEF Follows
  <2>1. CASE k \in DOMAIN s
    <3>1. \/ \E j \in DOMAIN s : j < k /\ IsData(s[j], s[k].id) /\ s[j].offset + s[j].data = s[k].offset
          \/ s[k].id \in DOMAIN o /\ o[s[k].id].got = s[k].offset
      BY <1>2, <2>1 DEF SendOK, PeerOK, Follows
    <3> QED
      BY <1>2, <1>4, <2>1, <3>1
  <2>2. CASE k = n
    <3>1. t[k] = m /\ items[i].started /\ m.offset = items[i].sent
      BY <1>2, <2>2 DEF Sends
    <3>2. \/ \E j \in DOMAIN s : IsData(s[j], i) /\ s[j].offset + s[j].data = items[i].sent
          \/ i \in DOMAIN o /\ o[i].got = items[i].sent
      BY <1>5, <1>6, <3>1 DEF SendOK, PeerOK, Reached
    <3> QED
      BY <1>1, <1>2, <1>4, <2>2, <3>1, <3>2
  <2> QED
    BY <1>3, <2>1, <2>2
<1>8. Reached(next, t, o, had)
  <2> SUFFICES ASSUME NEW j \in DOMAIN next, next[j].started, had[j] = 0
               PROVE  \/ \E k \in DOMAIN t : IsData(t[k], j) /\ t[k].offset + t[k].data = next[j].sent
                      \/ j \in DOMAIN o /\ o[j].got = next[j].sent
    BY DEF Reached
  <2>1. CASE j = i
    <3>1. n \in DOMAIN t /\ IsData(t[n], i) /\ t[n].offset + t[n].data = next[i].sent
      BY <1>1, <1>2, <1>5 DEF IsData, Sends
    <3> QED
      BY <2>1, <3>1
  <2>2. CASE j # i
    <3>1. \/ \E k \in DOMAIN s : IsData(s[k], j) /\ s[k].offset + s[k].data = items[j].sent
          \/ j \in DOMAIN o /\ o[j].got = items[j].sent
      BY <1>5, <2>2 DEF SendOK, PeerOK, Reached
    <3> QED
      BY <1>2, <1>4, <1>5, <2>2, <3>1
  <2> QED
    BY <2>1, <2>2
<1>9. AddsUp(next, t, o, had)
  <2> SUFFICES ASSUME NEW j \in DOMAIN next, had[j] = 0 PROVE next[j].sent = Flight(t, j) + Got(o, j)
    BY DEF AddsUp
  <2>1. Flight(s, j) \in Nat /\ Flight(t, j) = Flight(s, j) + Brings(m, j)
    BY <1>1, FlightAppend
  <2>2. items[j].sent = Flight(s, j) + Got(o, j)
    BY <1>5 DEF SendOK, PeerOK, AddsUp
  <2>3. Got(o, j) \in Nat
    BY DEF Got, Parts
  <2>4. CASE j = i
    <3>1. Brings(m, j) = m.data /\ m.data \in Nat
      BY <1>1, <2>4 DEF Brings, IsData, DataMessages
    <3> QED
      BY <1>5, <2>1, <2>2, <2>3, <2>4, <3>1
  <2>5. CASE j # i
    <3>1. Brings(m, j) = 0
      BY <1>1, <2>5 DEF Brings, IsData
    <3> QED
      BY <1>5, <2>1, <2>2, <2>3, <2>5, <3>1
  <2> QED
    BY <2>4, <2>5
<1> QED
  BY <1>7, <1>8, <1>9

--------------------------------------------------------------------------------
(* A whole pump.                                                                *)

\* Of finitely many payloads one comes first: the highest, and of those the oldest.
LEMMA FirstExists ==
  ASSUME NEW S \in SUBSET Nat, IsFiniteSet(S), S # {}, NEW e, \A x \in S : e[x] \in Int
  PROVE  \E i \in S : \A j \in S \ {i} : e[i] > e[j] \/ (e[i] = e[j] /\ i < j)
<1> DEFINE Top(i, T) == \A j \in T \ {i} : e[i] > e[j] \/ (e[i] = e[j] /\ i < j)
           Good == {n \in Nat : \A T \in SUBSET S : IsFiniteSet(T) /\ Cardinality(T) = n /\ T # {} =>
                                  \E i \in T : Top(i, T)}
<1>1. 0 \in Good
  BY FS_EmptySet
<1>2. ASSUME NEW n \in Nat, n \in Good PROVE n + 1 \in Good
  <2> SUFFICES ASSUME NEW T \in SUBSET S, IsFiniteSet(T), Cardinality(T) = n + 1, T # {}
               PROVE  \E i \in T : Top(i, T)
    OBVIOUS
  <2>1. PICK y \in T : TRUE
    OBVIOUS
  <2>2. IsFiniteSet(T \ {y}) /\ Cardinality(T \ {y}) = n
    <3>1. IsFiniteSet(T \ {y}) /\ Cardinality(T \ {y}) = Cardinality(T) - 1
      BY <2>1, FS_RemoveElement, Zenon
    <3> QED
      BY <3>1
  <2>3. CASE T \ {y} = {}
    <3>1. Top(y, T)
      BY <2>3
    <3> QED
      BY <2>1, <3>1
  <2>4. CASE T \ {y} # {}
    <3>1. PICK i \in T \ {y} : Top(i, T \ {y})
      BY <1>2, <2>2, <2>4
    <3>2. i \in Nat /\ y \in Nat /\ i # y /\ e[i] \in Int /\ e[y] \in Int
      OBVIOUS
    <3>3. \A j \in T : j \in Nat /\ e[j] \in Int
      OBVIOUS
    <3>4. CASE e[i] > e[y] \/ (e[i] = e[y] /\ i < y)
      BY <3>1, <3>4
    <3>5. CASE ~(e[i] > e[y] \/ (e[i] = e[y] /\ i < y))
      <4>1. e[y] > e[i] \/ (e[y] = e[i] /\ y < i)
        BY <3>2, <3>5
      <4>2. ASSUME NEW j \in T \ {y} PROVE e[y] > e[j] \/ (e[y] = e[j] /\ y < j)
        <5>1. CASE j = i
          BY <4>1, <5>1
        <5>2. CASE j # i
          BY <3>1, <3>2, <3>3, <4>1, <5>2
        <5> QED
          BY <5>1, <5>2
      <4> QED
        BY <2>1, <4>2
    <3> QED
      BY <3>4, <3>5
  <2> QED
    BY <2>3, <2>4
<1>3. Nat \subseteq Good
  <2> HIDE DEF Good
  <2> QED
    BY <1>1, <1>2, InductionOn
<1>4. Cardinality(S) \in Good
  BY <1>3, FS_CardinalityType
<1> QED
  BY <1>4

LEMMA EffectiveType ==
  ASSUME now \in 1 .. MaxTick, NEW item, ItemOK(item)
  PROVE  Effective(item) \in Int
<1>1. item.prio \in Prios /\ item.queued \in Nat
  BY DEF ItemOK, Items
<1>2. item.prio \in Int /\ item.queued \in Int /\ now \in Int /\ Aging \in Int
  <2>1. item.prio \in Int
    <3>1. \A x \in Prios : x \in Int
      BY PayloadAssumption
    <3> QED
      BY <1>1, <3>1, Zenon
  <2>2. Aging \in Int /\ MaxTick \in Int
    BY PayloadAssumption
  <2> QED
    BY <1>1, <2>1, <2>2
<1>3. (now - item.queued) * Aging \in Int
  BY <1>2
<1> QED
  BY <1>2, <1>3 DEF Effective

\* What pump sends next is ready, and nothing that is ready comes before it.
LEMMA NextIsFirst ==
  ASSUME now \in 1 .. MaxTick, NEW items, IsTable(items), \A j \in DOMAIN items : ItemOK(items[j]),
         Ready(items) # {}
  PROVE  /\ next_to_send(items) \in Ready(items)
         /\ \A j \in Ready(items) : Effective(items[next_to_send(items)]) >= Effective(items[j])
<1> DEFINE S == Ready(items)
           e == [j \in S |-> Effective(items[j])]
           First(i) == \A j \in S \ {i} :
                         \/ Effective(items[i]) > Effective(items[j])
                         \/ Effective(items[i]) = Effective(items[j]) /\ i < j
<1>1. S \subseteq PayloadIds /\ S \in SUBSET Nat
  BY DEF Ready, IsTable, PayloadIds
<1>2. IsFiniteSet(S)
  BY <1>1, PayloadIdsFinite, FS_Subset
<1>3. \A j \in S : Effective(items[j]) \in Int /\ e[j] = Effective(items[j])
  BY EffectiveType DEF Ready
<1> HIDE DEF e
<1>4. PICK i \in S : \A j \in S \ {i} : e[i] > e[j] \/ (e[i] = e[j] /\ i < j)
  <2>1. \A x \in S : e[x] \in Int
    BY <1>3
  <2>2. S # {}
    OBVIOUS
  <2> HIDE DEF S
  <2> QED
    BY <1>1, <1>2, <2>1, <2>2, FirstExists
<1>5. First(i)
  BY <1>3, <1>4
<1>6. next_to_send(items) = CHOOSE x \in S : First(x)
  BY DEF next_to_send
<1>7. next_to_send(items) \in S /\ First(next_to_send(items))
  <2> HIDE DEF First, S
  <2> QED
    BY <1>5, <1>6
<1> QED
  BY <1>3, <1>7

\* What pump does for one message.
PumpStep(before) ==
  IF Ready(before.items) = {} THEN before
  ELSE [items |-> Fragment(before.items, next_to_send(before.items)).items,
        messages |-> Append(before.messages, Fragment(before.items, next_to_send(before.items)).message)]

IsRun(f, items, n) ==
  f = [k \in 0 .. n |-> IF k = 0 THEN [items |-> items, messages |-> <<>>] ELSE PumpStep(f[k - 1])]

LEMMA RunExists ==
  ASSUME NEW items, NEW n \in Nat
  PROVE  \E f : IsRun(f, items, n)
<1> DEFINE Good == {k \in Nat : \E f : IsRun(f, items, k)}
<1>1. 0 \in Good
  <2> DEFINE f == [k \in 0 .. 0 |-> [items |-> items, messages |-> <<>>]]
  <2>1. IsRun(f, items, 0)
    BY DEF IsRun
  <2> QED
    BY <2>1
<1>2. ASSUME NEW m \in Nat, m \in Good PROVE m + 1 \in Good
  <2>1. PICK f : IsRun(f, items, m)
    BY <1>2
  <2> DEFINE g == [k \in 0 .. m + 1 |-> IF k = m + 1 THEN PumpStep(f[m]) ELSE f[k]]
             first == [items |-> items, messages |-> <<>>]
  <2>2. \A k \in 0 .. m : f[k] = IF k = 0 THEN first ELSE PumpStep(f[k - 1])
    <3> HIDE DEF first
    <3> QED
      BY <2>1 DEF IsRun, first
  <2>3. ASSUME NEW k \in 0 .. m + 1 PROVE g[k] = IF k = 0 THEN first ELSE PumpStep(g[k - 1])
    <3> HIDE DEF first
    <3>1. CASE k = m + 1
      <4>1. m \in 0 .. m + 1 /\ m # m + 1 /\ k # 0 /\ k - 1 = m
        BY <3>1
      <4>2. g[m] = f[m]
        BY <4>1
      <4> QED
        BY <3>1, <4>1, <4>2
    <3>2. CASE k \in 0 .. m
      <4>1. k # m + 1 /\ (k # 0 => k - 1 \in 0 .. m + 1 /\ k - 1 # m + 1)
        BY <3>2
      <4>2. g[k] = f[k] /\ (k # 0 => g[k - 1] = f[k - 1])
        BY <3>2, <4>1
      <4> QED
        BY <2>2, <3>2, <4>2
    <3> QED
      BY <3>1, <3>2
  <2>4. IsRun(g, items, m + 1)
    <3>1. g = [k \in 0 .. m + 1 |-> g[k]]
      OBVIOUS
    <3>2. g = [k \in 0 .. m + 1 |-> IF k = 0 THEN first ELSE PumpStep(g[k - 1])]
      <4> HIDE DEF g, first
      <4> QED
        BY <2>3, <3>1
    <3> HIDE DEF g
    <3> QED
      BY <3>2 DEF IsRun
  <2> QED
    BY <2>4
<1>3. Nat \subseteq Good
  <2> HIDE DEF Good
  <2> QED
    BY <1>1, <1>2, InductionOn
<1> QED
  BY <1>3

LEMMA PumpRuns ==
  ASSUME NEW items, NEW n \in Nat
  PROVE  \E f : IsRun(f, items, n) /\ pump(items, n) = f[n]
<1> DEFINE f == CHOOSE g : IsRun(g, items, n)
<1>1. IsRun(f, items, n)
  BY RunExists
<1>2. pump(items, n) = f[n]
  BY DEF pump, IsRun, PumpStep
<1> QED
  BY <1>1, <1>2

\* The queue items after some messages is later.items; what was sent came before what is still ready.
Later(items, later) ==
  /\ later.messages \in Seq(DataMessages)
  /\ IsTable(later.items) /\ DOMAIN later.items = DOMAIN items
  /\ \A k \in DOMAIN later.messages : later.messages[k].id \in DOMAIN items
  /\ \A i \in DOMAIN items :
       /\ ItemOK(later.items[i])
       /\ later.items[i].prio = items[i].prio /\ later.items[i].queued = items[i].queued
       /\ later.items[i].size = items[i].size
       /\ items[i].awaiting => later.items[i] = items[i]
  /\ \A i, j \in DOMAIN items :
       later.items[j].sent # items[j].sent /\ ~later.items[i].awaiting =>
         Effective(items[j]) >= Effective(items[i])

LEMMA StepIsLater ==
  ASSUME now \in 1 .. MaxTick, NEW items, IsTable(items), \A i \in DOMAIN items : ItemOK(items[i]),
         NEW r, Later(items, r)
  PROVE  Later(items, PumpStep(r))
<1>1. CASE Ready(r.items) = {}
  BY <1>1 DEF PumpStep
<1>2. CASE Ready(r.items) # {}
  <2> PICK x : x = next_to_send(r.items)
    OBVIOUS
  <2> PICK next : next = Fragment(r.items, x).items
    OBVIOUS
  <2> PICK m : m = Fragment(r.items, x).message
    OBVIOUS
  <2>1. IsTable(r.items) /\ (\A i \in DOMAIN r.items : ItemOK(r.items[i])) /\ DOMAIN r.items = DOMAIN items
    BY DEF Later
  <2>2. x \in Ready(r.items) /\ \A j \in Ready(r.items) : Effective(r.items[x]) >= Effective(r.items[j])
    BY <1>2, <2>1, NextIsFirst
  <2>3. Sends(r.items, next, m, x)
    BY <2>1, <2>2, FragmentSends
  <2>4. PumpStep(r).items = next /\ PumpStep(r).messages = Append(r.messages, m)
    BY <1>2 DEF PumpStep
  <2>5. m \in DataMessages /\ m.id = x /\ x \in DOMAIN items
    BY <2>1, <2>3 DEF Sends
  <2>6. /\ Append(r.messages, m) \in Seq(DataMessages)
        /\ \A k \in DOMAIN Append(r.messages, m) : Append(r.messages, m)[k].id \in DOMAIN items
    <3>1. r.messages \in Seq(DataMessages) /\ \A k \in DOMAIN r.messages : r.messages[k].id \in DOMAIN items
      BY DEF Later
    <3> PICK ms : ms = r.messages
      OBVIOUS
    <3> QED
      BY <2>5, <3>1
  <2>7. /\ IsTable(next) /\ DOMAIN next = DOMAIN items
        /\ ItemOK(next[x]) /\ next[x].prio = r.items[x].prio /\ next[x].queued = r.items[x].queued
        /\ next[x].size = r.items[x].size /\ ~r.items[x].awaiting
        /\ \A j \in DOMAIN items : j # x => next[j] = r.items[j]
    BY <2>1, <2>3 DEF Sends
  <2>8. ASSUME NEW i \in DOMAIN items
        PROVE  /\ ItemOK(next[i]) /\ next[i].prio = items[i].prio /\ next[i].queued = items[i].queued
               /\ next[i].size = items[i].size
               /\ items[i].awaiting => next[i] = items[i]
    <3>1. /\ ItemOK(r.items[i]) /\ r.items[i].prio = items[i].prio /\ r.items[i].queued = items[i].queued
          /\ r.items[i].size = items[i].size /\ (items[i].awaiting => r.items[i] = items[i])
      BY DEF Later
    <3>2. CASE i = x
      BY <2>7, <3>1, <3>2
    <3>3. CASE i # x
      BY <2>7, <3>1, <3>3
    <3> QED
      BY <3>2, <3>3
  <2>9. \A i \in DOMAIN items : Effective(r.items[i]) = Effective(items[i]) /\ Effective(items[i]) \in Int
    BY EffectiveType DEF Later, Effective
  <2>10. ASSUME NEW i \in DOMAIN items, NEW j \in DOMAIN items, next[j].sent # items[j].sent, ~next[i].awaiting
         PROVE  Effective(items[j]) >= Effective(items[i])
    <3>1. ~r.items[i].awaiting
      BY <2>7, <2>10
    <3>2. CASE j = x
      <4>1. i \in Ready(r.items)
        BY <2>1, <3>1 DEF Ready
      <4> QED
        BY <2>2, <2>9, <3>2, <4>1
    <3>3. CASE j # x
      <4>1. r.items[j].sent # items[j].sent
        BY <2>7, <2>10, <3>3
      <4> QED
        BY <3>1, <4>1 DEF Later
    <3> QED
      BY <3>2, <3>3
  <2> QED
    BY <2>4, <2>6, <2>7, <2>8, <2>10 DEF Later
<1> QED
  BY <1>1, <1>2

LEMMA StepKeeps ==
  ASSUME now \in 1 .. MaxTick, NEW items, NEW r, Later(items, r), NEW s, NEW o, NEW had, NEW live \in BOOLEAN,
         s \in Seq(Messages), SendOK(r.items, s \o r.messages, o, had, live), \A j \in DOMAIN o : o[j] \in Parts
  PROVE  SendOK(PumpStep(r).items, s \o PumpStep(r).messages, o, had, live)
<1>1. CASE Ready(r.items) = {}
  BY <1>1 DEF PumpStep
<1>2. CASE Ready(r.items) # {}
  <2> PICK x : x = next_to_send(r.items)
    OBVIOUS
  <2> PICK next : next = Fragment(r.items, x).items
    OBVIOUS
  <2> PICK m : m = Fragment(r.items, x).message
    OBVIOUS
  <2>1. IsTable(r.items) /\ \A i \in DOMAIN r.items : ItemOK(r.items[i])
    BY DEF SendOK, PeerOK
  <2>2. x \in Ready(r.items)
    BY <1>2, <2>1, NextIsFirst
  <2>3. Sends(r.items, next, m, x)
    BY <2>1, <2>2, FragmentSends
  <2>4. PumpStep(r).items = next /\ PumpStep(r).messages = Append(r.messages, m)
    BY <1>2 DEF PumpStep
  <2>5. s \o Append(r.messages, m) = Append(s \o r.messages, m)
    <3>1. r.messages \in Seq(Messages) /\ m \in Messages
      BY <2>3 DEF Later, Sends, Messages
    <3> PICK ms : ms = r.messages
      OBVIOUS
    <3> QED
      BY <3>1
  <2> PICK t : t = s \o r.messages
    OBVIOUS
  <2>6. SendOK(r.items, t, o, had, FALSE)
    BY DEF SendOK, PeerOK
  <2>7. Append(t, m) \in Seq(Messages) /\ (\A k \in DOMAIN Append(t, m) : MessageOK(Append(t, m)[k]))
        /\ StreamOK(next, Append(t, m))
    BY <2>3, <2>6, SendsStream
  <2>8. OpenOK(next, Append(t, m), o, had)
    BY <2>3, <2>6, SendsOpen
  <2>9. live => Follows(Append(t, m), o) /\ Reached(next, Append(t, m), o, had) /\ AddsUp(next, Append(t, m), o, had)
    <3> SUFFICES ASSUME live PROVE Follows(Append(t, m), o) /\ Reached(next, Append(t, m), o, had) /\ AddsUp(next, Append(t, m), o, had)
      OBVIOUS
    <3>1. SendOK(r.items, t, o, had, TRUE)
      BY DEF SendOK, PeerOK
    <3> QED
      BY <2>3, <3>1, SendsLive
  <2>10. IsTable(next) /\ \A i \in DOMAIN next : ItemOK(next[i])
    BY <2>1, <2>3 DEF Sends
  <2>11. SendOK(next, Append(t, m), o, had, live)
    BY <2>7, <2>8, <2>9, <2>10 DEF SendOK, PeerOK
  <2> QED
    BY <2>4, <2>5, <2>11
<1> QED
  BY <1>1, <1>2

\* pump keeps the queue, its stream and its client in step.
LEMMA PumpKeeps ==
  ASSUME now \in 1 .. MaxTick, NEW items, NEW s, NEW o, NEW had, NEW live \in BOOLEAN, NEW n \in Nat,
         SendOK(items, s, o, had, live), \A j \in DOMAIN o : o[j] \in Parts
  PROVE  /\ Later(items, pump(items, n))
         /\ SendOK(pump(items, n).items, s \o pump(items, n).messages, o, had, live)
<1>1. PICK f : IsRun(f, items, n) /\ pump(items, n) = f[n]
  BY PumpRuns
<1> DEFINE first == [items |-> items, messages |-> <<>>]
           OK(r) == Later(items, r) /\ SendOK(r.items, s \o r.messages, o, had, live)
           Good == {k \in Nat : k <= n => OK(f[k])}
<1>2. \A k \in 0 .. n : f[k] = IF k = 0 THEN first ELSE PumpStep(f[k - 1])
  <2> HIDE DEF first
  <2> QED
    BY <1>1 DEF IsRun, first
<1>3. IsTable(items) /\ (\A i \in DOMAIN items : ItemOK(items[i])) /\ s \in Seq(Messages)
  BY DEF SendOK, PeerOK
<1>4. OK(first)
  <2>1. Later(items, first)
    <3>1. <<>> \in Seq(DataMessages) /\ DOMAIN <<>> = {}
      OBVIOUS
    <3> QED
      BY <1>3, <3>1 DEF Later
  <2>2. s \o <<>> = s
    BY <1>3
  <2> QED
    BY <2>1, <2>2
<1>5. 0 \in Good
  <2>1. f[0] = first
    BY <1>2
  <2> HIDE DEF OK, first
  <2> QED
    BY <1>4, <2>1
<1>6. ASSUME NEW k \in Nat, k \in Good PROVE k + 1 \in Good
  <2> SUFFICES ASSUME k + 1 <= n PROVE OK(f[k + 1])
    OBVIOUS
  <2>1. f[k + 1] = PumpStep(f[k])
    BY <1>2
  <2>2. OK(f[k])
    <3> HIDE DEF OK
    <3> QED
      BY <1>6
  <2>3. Later(items, PumpStep(f[k]))
    BY <1>3, <2>2, StepIsLater
  <2>4. SendOK(PumpStep(f[k]).items, s \o PumpStep(f[k]).messages, o, had, live)
    BY <1>3, <2>2, StepKeeps
  <2> QED
    BY <2>1, <2>3, <2>4
<1>7. Nat \subseteq Good
  <2> HIDE DEF Good
  <2> QED
    BY <1>5, <1>6, InductionOn
<1>8. OK(f[n])
  <2> HIDE DEF OK
  <2> QED
    BY <1>7
<1> QED
  BY <1>1, <1>8

--------------------------------------------------------------------------------
(* What a change of the queue, the stream or the client leaves of PeerOK.       *)

\* Payloads that leave the queue, or get another priority.
LEMMA FewerItems ==
  ASSUME NEW items, NEW s, NEW o, NEW had, NEW live, PeerOK(items, s, o, had, live),
         NEW less, DOMAIN less \subseteq DOMAIN items,
         \A i \in DOMAIN less : /\ less[i].size = items[i].size /\ less[i].sent = items[i].sent
                                /\ less[i].started = items[i].started /\ less[i].awaiting = items[i].awaiting
  PROVE  PeerOK(less, s, o, had, live)
<1>1. StreamOK(less, s)
  BY DEF PeerOK, StreamOK
<1>2. OpenOK(less, s, o, had)
  BY DEF PeerOK, OpenOK
<1>3. live => Follows(s, o) /\ Reached(less, s, o, had) /\ AddsUp(less, s, o, had)
  <2> SUFFICES ASSUME live PROVE Follows(s, o) /\ Reached(less, s, o, had) /\ AddsUp(less, s, o, had)
    OBVIOUS
  <2>1. Reached(less, s, o, had)
    BY DEF PeerOK, Reached
  <2>2. AddsUp(less, s, o, had)
    BY DEF PeerOK, AddsUp
  <2> QED
    BY <2>1, <2>2 DEF PeerOK
<1> QED
  BY <1>1, <1>2, <1>3 DEF PeerOK

\* A payload nobody knows of joins the queue.
Unknown(s, o, had, i) == i \notin DOMAIN o /\ had[i] = 0 /\ \A k \in DOMAIN s : s[k].id # i
Joins(items, more, i) ==
  /\ DOMAIN more = DOMAIN items \cup {i} /\ \A j \in DOMAIN items : j # i => more[j] = items[j]
  /\ more[i].sent = 0 /\ ~more[i].started

LEMMA MoreItems ==
  ASSUME NEW items, NEW s \in Seq(Messages), NEW o, NEW had, NEW live, PeerOK(items, s, o, had, live),
         NEW i, Unknown(s, o, had, i), NEW more, Joins(items, more, i)
  PROVE  PeerOK(more, s, o, had, live)
<1>0. /\ i \notin DOMAIN o /\ had[i] = 0 /\ \A k \in DOMAIN s : s[k].id # i
      /\ DOMAIN more = DOMAIN items \cup {i} /\ \A j \in DOMAIN items : j # i => more[j] = items[j]
      /\ more[i].sent = 0 /\ ~more[i].started
  BY DEF Unknown, Joins
<1>1. StreamOK(more, s)
  <2>1. \A k \in DOMAIN s : s[k].id \in DOMAIN more => s[k].id \in DOMAIN items /\ more[s[k].id] = items[s[k].id]
    BY <1>0
  <2> QED
    BY <1>0, <2>1 DEF PeerOK, StreamOK
<1>2. OpenOK(more, s, o, had)
  <2>1. \A j \in DOMAIN more : j # i => j \in DOMAIN items /\ more[j] = items[j]
    BY <1>0
  <2> QED
    BY <1>0, <2>1 DEF PeerOK, OpenOK
<1>3. live => Follows(s, o) /\ Reached(more, s, o, had) /\ AddsUp(more, s, o, had)
  <2> SUFFICES ASSUME live PROVE Follows(s, o) /\ Reached(more, s, o, had) /\ AddsUp(more, s, o, had)
    OBVIOUS
  <2>1. \A j \in DOMAIN more : j # i => j \in DOMAIN items /\ more[j] = items[j]
    BY <1>0
  <2>2. Reached(more, s, o, had)
    BY <1>0, <2>1 DEF PeerOK, Reached
  <2>3. Flight(s, i) = 0 /\ Got(o, i) = 0
    <3>1. \A k \in DOMAIN s : ~IsData(s[k], i)
      BY <1>0 DEF IsData
    <3> QED
      BY <1>0, <3>1, FlightNone DEF Got
  <2>4. AddsUp(more, s, o, had)
    BY <1>0, <2>1, <2>3 DEF PeerOK, AddsUp
  <2> QED
    BY <2>2, <2>4 DEF PeerOK
<1> QED
  BY <1>1, <1>2, <1>3 DEF PeerOK

\* The cancel of a payload that has left the queue.
LEMMA CancelSent ==
  ASSUME NEW items, NEW s \in Seq(Messages), NEW o, NEW had, NEW live, PeerOK(items, s, o, had, live),
         NEW i \in PayloadIds \ DOMAIN items
  PROVE  PeerOK(items, Append(s, [kind |-> "cancel", id |-> i]), o, had, live)
<1> PICK m : m = [kind |-> "cancel", id |-> i]
  OBVIOUS
<1> PICK t : t = Append(s, m)
  OBVIOUS
<1> PICK n : n = Len(s) + 1
  OBVIOUS
<1>1. m \in Messages /\ m.kind = "cancel" /\ m.id = i
  BY DEF Messages, CancelMessages
<1>2. /\ DOMAIN s = 1 .. n - 1 /\ DOMAIN t = 1 .. n /\ n \in Nat /\ n >= 1
      /\ t[n] = m /\ \A k \in DOMAIN s : t[k] = s[k]
  BY <1>1
<1>3. \A k \in DOMAIN t : k = n \/ (k \in DOMAIN s /\ k < n)
  <2>1. \A k \in 1 .. n : k = n \/ (k \in 1 .. n - 1 /\ k < n)
    BY <1>2
  <2> QED
    BY <1>2, <2>1
<1>4. \A k \in DOMAIN s : k \in DOMAIN t /\ k < n
  BY <1>2
<1>5. StreamOK(items, t)
  <2>1. ASSUME NEW j \in DOMAIN t, NEW k \in DOMAIN t, j < k, t[k].kind # "cancel", t[j].id = t[k].id
        PROVE  /\ t[j].kind # "cancel" /\ t[k].kind = "fragment" /\ t[k].size = t[j].size
               /\ t[j].offset + t[j].data <= t[k].offset
    <3>1. k \in DOMAIN s /\ t[k] = s[k]
      BY <1>1, <1>2, <1>3, <2>1
    <3>2. j \in DOMAIN s /\ t[j] = s[j]
      BY <1>2, <1>3, <2>1
    <3> QED
      BY <2>1, <3>1, <3>2 DEF PeerOK, StreamOK
  <2>2. ASSUME NEW k \in DOMAIN t, t[k].id \in DOMAIN items
        PROVE  LET item == items[t[k].id] IN
               /\ t[k].kind # "cancel" /\ item.started /\ t[k].size = item.size
               /\ t[k].offset + t[k].data <= item.sent
    <3>1. k \in DOMAIN s /\ t[k] = s[k]
      BY <1>1, <1>2, <1>3, <2>2
    <3> QED
      BY <2>2, <3>1 DEF PeerOK, StreamOK
  <2> QED
    BY <2>1, <2>2 DEF StreamOK
<1>6. \A j : \A k \in DOMAIN t : IsData(t[k], j) => k \in DOMAIN s /\ t[k] = s[k] /\ IsData(s[k], j)
  BY <1>1, <1>2, <1>3 DEF IsData
<1>7. OpenOK(items, t, o, had)
  <2>1. ASSUME NEW j \in DOMAIN o
        PROVE  /\ had[j] = 0
               /\ j \in DOMAIN items => items[j].started /\ items[j].size = o[j].total
               /\ \A k \in DOMAIN t : IsData(t[k], j) => t[k].kind = "fragment" /\ t[k].size = o[j].total
    <3>1. /\ had[j] = 0
          /\ j \in DOMAIN items => items[j].started /\ items[j].size = o[j].total
          /\ \A k \in DOMAIN s : IsData(s[k], j) => s[k].kind = "fragment" /\ s[k].size = o[j].total
      BY DEF PeerOK, OpenOK
    <3> QED
      BY <1>6, <3>1
  <2>2. ASSUME NEW j \in PayloadIds, had[j] # 0
        PROVE  /\ j \in DOMAIN items => items[j].awaiting
               /\ \A k \in DOMAIN t : ~IsData(t[k], j)
    BY <1>6, <2>2 DEF PeerOK, OpenOK
  <2> QED
    BY <2>1, <2>2 DEF OpenOK
<1>8. live => Follows(t, o) /\ Reached(items, t, o, had) /\ AddsUp(items, t, o, had)
  <2> SUFFICES ASSUME live PROVE Follows(t, o) /\ Reached(items, t, o, had) /\ AddsUp(items, t, o, had)
    OBVIOUS
  <2>1. Follows(t, o)
    <3> SUFFICES ASSUME NEW k \in DOMAIN t, t[k].kind = "fragment"
                 PROVE  \/ \E j \in DOMAIN t : j < k /\ IsData(t[j], t[k].id) /\ t[j].offset + t[j].data = t[k].offset
                        \/ t[k].id \in DOMAIN o /\ o[t[k].id].got = t[k].offset
      BY DEF Follows
    <3>1. k \in DOMAIN s /\ t[k] = s[k]
      BY <1>1, <1>2, <1>3
    <3>2. \/ \E j \in DOMAIN s : j < k /\ IsData(s[j], s[k].id) /\ s[j].offset + s[j].data = s[k].offset
          \/ s[k].id \in DOMAIN o /\ o[s[k].id].got = s[k].offset
      BY <3>1 DEF PeerOK, Follows
    <3> QED
      BY <1>2, <1>4, <3>1, <3>2
  <2>2. Reached(items, t, o, had)
    <3> SUFFICES ASSUME NEW j \in DOMAIN items, items[j].started, had[j] = 0
                 PROVE  \/ \E k \in DOMAIN t : IsData(t[k], j) /\ t[k].offset + t[k].data = items[j].sent
                        \/ j \in DOMAIN o /\ o[j].got = items[j].sent
      BY DEF Reached
    <3>1. \/ \E k \in DOMAIN s : IsData(s[k], j) /\ s[k].offset + s[k].data = items[j].sent
          \/ j \in DOMAIN o /\ o[j].got = items[j].sent
      BY DEF PeerOK, Reached
    <3> QED
      BY <1>2, <1>4, <3>1
  <2>3. AddsUp(items, t, o, had)
    <3> SUFFICES ASSUME NEW j \in DOMAIN items, had[j] = 0
                 PROVE  items[j].sent = Flight(t, j) + Got(o, j)
      BY DEF AddsUp
    <3>1. Flight(s, j) \in Nat /\ Flight(t, j) = Flight(s, j) + Brings(m, j)
      BY <1>1, FlightAppend
    <3>2. Brings(m, j) = 0
      BY <1>1 DEF Brings, IsData
    <3>3. Flight(t, j) = Flight(s, j)
      BY <3>1, <3>2
    <3> QED
      BY <3>3 DEF PeerOK, AddsUp
  <2> QED
    BY <2>1, <2>2, <2>3
<1> QED
  BY <1>5, <1>7, <1>8 DEF PeerOK

\* The connection is lost with what it carried; the client may forget what it had open.
LEMMA ConnectionLost ==
  ASSUME NEW items, NEW s, NEW o, NEW had, NEW live, PeerOK(items, s, o, had, live)
  PROVE  PeerOK(items, <<>>, o, had, FALSE) /\ PeerOK(items, <<>>, Nothing, had, FALSE)
<1>1. DOMAIN <<>> = {} /\ DOMAIN Nothing = {}
  BY DEF Nothing
<1>2. StreamOK(items, <<>>)
  BY <1>1 DEF StreamOK
<1>3. OpenOK(items, <<>>, o, had) /\ OpenOK(items, <<>>, Nothing, had)
  BY <1>1 DEF PeerOK, OpenOK
<1> QED
  BY <1>2, <1>3 DEF PeerOK

\* Another peer's client gets a payload whole.
LEMMA HadElsewhere ==
  ASSUME NEW items, NEW s, NEW o, NEW had, NEW live, PeerOK(items, s, o, had, live),
         NEW i \in PayloadIds, i \notin DOMAIN items, i \notin DOMAIN o, \A k \in DOMAIN s : s[k].id # i,
         NEW now2, \A j \in PayloadIds : j # i => now2[j] = had[j],
         IsTable(items), IsTable(o)
  PROVE  PeerOK(items, s, o, now2, live)
<1>1. \A j \in DOMAIN items \cup DOMAIN o : now2[j] = had[j]
  BY DEF IsTable
<1>2. OpenOK(items, s, o, now2)
  <2>1. \A k \in DOMAIN s : ~IsData(s[k], i)
    BY DEF IsData
  <2> QED
    BY <1>1, <2>1 DEF PeerOK, OpenOK
<1>3. live => Reached(items, s, o, now2) /\ AddsUp(items, s, o, now2)
  BY <1>1 DEF PeerOK, Reached, AddsUp
<1> QED
  BY <1>2, <1>3 DEF PeerOK

--------------------------------------------------------------------------------
(* The client takes the first message.                                          *)

\* t is what follows m in the stream s.
LEMMA HeadTail ==
  ASSUME NEW s \in Seq(Messages), s # <<>>
  PROVE  /\ Tail(s) \in Seq(Messages) /\ Head(s) \in Messages
         /\ 1 \in DOMAIN s /\ s[1] = Head(s) /\ DOMAIN Tail(s) \subseteq Nat
         /\ \A k \in DOMAIN Tail(s) : k + 1 \in DOMAIN s /\ Tail(s)[k] = s[k + 1] /\ 1 < k + 1
         /\ \A k \in DOMAIN s : k # 1 => k - 1 \in DOMAIN Tail(s) /\ s[k] = Tail(s)[k - 1]
<1> PICK n : n = Len(s)
  OBVIOUS
<1>1. n \in Nat /\ n >= 1 /\ DOMAIN s = 1 .. n /\ DOMAIN Tail(s) = 1 .. n - 1
  OBVIOUS
<1>2. \A k \in 1 .. n - 1 : Tail(s)[k] = s[k + 1] /\ k + 1 \in 1 .. n /\ 1 < k + 1
  BY <1>1
<1>3. \A k \in 1 .. n : k # 1 => k - 1 \in 1 .. n - 1 /\ (k - 1) + 1 = k
  BY <1>1
<1>4. \A k \in 1 .. n : k # 1 => k - 1 \in 1 .. n - 1 /\ s[k] = Tail(s)[k - 1]
  BY <1>2, <1>3
<1>5. Tail(s) \in Seq(Messages) /\ Head(s) \in Messages /\ s[1] = Head(s) /\ 1 \in 1 .. n
  BY <1>1
<1>6. DOMAIN Tail(s) \subseteq Nat
  BY <1>1
<1> QED
  BY <1>1, <1>2, <1>4, <1>5, <1>6

\* The client makes nothing of a message.
LEMMA TailKeeps ==
  ASSUME NEW items, NEW s \in Seq(Messages), s # <<>>, NEW o, NEW had, NEW live, PeerOK(items, s, o, had, live)
  PROVE  PeerOK(items, Tail(s), o, had, FALSE)
<1> PICK t : t = Tail(s)
  OBVIOUS
<1>1. /\ DOMAIN t \subseteq Nat /\ \A k \in DOMAIN t : k + 1 \in DOMAIN s /\ t[k] = s[k + 1]
  BY HeadTail
<1>2. StreamOK(items, t)
  <2>1. ASSUME NEW j \in DOMAIN t, NEW k \in DOMAIN t, j < k, t[k].kind # "cancel", t[j].id = t[k].id
        PROVE  /\ t[j].kind # "cancel" /\ t[k].kind = "fragment" /\ t[k].size = t[j].size
               /\ t[j].offset + t[j].data <= t[k].offset
    <3>1. j + 1 \in DOMAIN s /\ k + 1 \in DOMAIN s /\ j + 1 < k + 1 /\ t[j] = s[j + 1] /\ t[k] = s[k + 1]
      BY <1>1, <2>1
    <3> QED
      BY <2>1, <3>1 DEF PeerOK, StreamOK
  <2>2. ASSUME NEW k \in DOMAIN t, t[k].id \in DOMAIN items
        PROVE  LET item == items[t[k].id] IN
               /\ t[k].kind # "cancel" /\ item.started /\ t[k].size = item.size
               /\ t[k].offset + t[k].data <= item.sent
    BY <1>1, <2>2 DEF PeerOK, StreamOK
  <2> QED
    BY <2>1, <2>2 DEF StreamOK
<1>3. OpenOK(items, t, o, had)
  BY <1>1 DEF PeerOK, OpenOK
<1> QED
  BY <1>2, <1>3 DEF PeerOK

\* A message of payload i that is not malformed: what the client has of it before.
LEMMA HeadIs ==
  ASSUME NEW items, NEW s \in Seq(Messages), s # <<>>, NEW o, NEW had, NEW live, PeerOK(items, s, o, had, live),
         MessageOK(Head(s)), Head(s).kind # "cancel", ~Malformed(o, Head(s)), \A j \in DOMAIN o : o[j] \in Parts
  PROVE  LET m == Head(s)
             i == Head(s).id
         IN /\ m \in DataMessages /\ i \in PayloadIds /\ had[i] = 0
            /\ Part(o, m) = [total |-> m.size, got |-> m.offset] /\ Part(o, m) \in Parts
            /\ i \in DOMAIN o => m.kind = "fragment" /\ o[i] = Part(o, m)
            /\ i \notin DOMAIN o => m.kind = "begin" /\ m.offset = 0
            /\ i \in DOMAIN items => /\ items[i].started /\ items[i].size = m.size
                                     /\ m.offset + m.data <= items[i].sent
            /\ \A k \in DOMAIN Tail(s) : IsData(Tail(s)[k], i) =>
                 Tail(s)[k].kind = "fragment" /\ Tail(s)[k].size = m.size /\ m.offset + m.data <= Tail(s)[k].offset
<1> PICK m : m = Head(s)
  OBVIOUS
<1> PICK i : i = m.id
  OBVIOUS
<1> PICK t : t = Tail(s)
  OBVIOUS
<1>1. /\ m \in Messages /\ 1 \in DOMAIN s /\ s[1] = m
      /\ \A k \in DOMAIN t : k + 1 \in DOMAIN s /\ t[k] = s[k + 1] /\ 1 < k + 1
  BY HeadTail
<1>2. m \in DataMessages
  BY <1>1 DEF Messages, CancelMessages
<1>3. i \in PayloadIds /\ m.kind \in {"begin", "fragment"} /\ m.size \in Sizes /\ m.offset \in Nat /\ m.data \in {0, 1}
  BY <1>2 DEF DataMessages
<1>4. IsData(s[1], i)
  BY <1>1 DEF IsData
<1>5. had[i] = 0
  BY <1>1, <1>3, <1>4 DEF PeerOK, OpenOK
<1>6. i \in DOMAIN o => m.kind = "fragment" /\ o[i].total = m.size
  BY <1>1, <1>4 DEF PeerOK, OpenOK
<1>7. m.kind = "fragment" => i \in DOMAIN o /\ o[i].got = m.offset
  BY DEF Malformed
<1>8. m.kind = "begin" => m.offset = 0
  BY DEF MessageOK
<1>9. m.kind = "fragment" => Part(o, m) = o[i] /\ o[i] = [total |-> m.size, got |-> m.offset]
  <2> SUFFICES ASSUME m.kind = "fragment" PROVE Part(o, m) = o[i] /\ o[i] = [total |-> m.size, got |-> m.offset]
    OBVIOUS
  <2>1. o[i] \in Parts /\ o[i].total = m.size /\ o[i].got = m.offset
    BY <1>6, <1>7
  <2>2. o[i] = [total |-> o[i].total, got |-> o[i].got]
    BY <2>1 DEF Parts
  <2> QED
    BY <2>1, <2>2 DEF Part
<1>10. m.kind = "begin" => Part(o, m) = [total |-> m.size, got |-> m.offset]
  BY <1>8 DEF Part
<1>11. Part(o, m) = [total |-> m.size, got |-> m.offset] /\ Part(o, m) \in Parts
  BY <1>3, <1>9, <1>10 DEF Parts
<1>12. i \in DOMAIN items => /\ items[i].started /\ items[i].size = m.size /\ m.offset + m.data <= items[i].sent
  BY <1>1 DEF PeerOK, StreamOK
<1>13. ASSUME NEW k \in DOMAIN t, IsData(t[k], i)
       PROVE  t[k].kind = "fragment" /\ t[k].size = m.size /\ m.offset + m.data <= t[k].offset
  <2>1. k + 1 \in DOMAIN s /\ 1 < k + 1 /\ s[k + 1].kind # "cancel" /\ s[1].id = s[k + 1].id /\ t[k] = s[k + 1]
    BY <1>1, <1>13 DEF IsData
  <2> QED
    BY <1>1, <2>1 DEF PeerOK, StreamOK
<1> QED
  BY <1>2, <1>3, <1>5, <1>6, <1>7, <1>8, <1>9, <1>11, <1>12, <1>13

\* The client adds what a message brings to the part it has open.
LEMMA PartTaken ==
  ASSUME NEW items, NEW s \in Seq(Messages), s # <<>>, NEW o, NEW had, PeerOK(items, s, o, had, TRUE),
         MessageOK(Head(s)), Head(s).kind # "cancel", ~Malformed(o, Head(s)), \A j \in DOMAIN o : o[j] \in Parts,
         IsTable(o), NEW next, next = With(o, Head(s).id, [Part(o, Head(s)) EXCEPT !.got = @ + Head(s).data])
  PROVE  /\ PeerOK(items, Tail(s), next, had, TRUE)
         /\ IsTable(next) /\ \A j \in DOMAIN next : next[j] \in Parts
<1> PICK m : m = Head(s)
  OBVIOUS
<1> PICK i : i = m.id
  OBVIOUS
<1> PICK t : t = Tail(s)
  OBVIOUS
<1> PICK part : part = [Part(o, m) EXCEPT !.got = @ + m.data]
  OBVIOUS
<1>1. /\ m \in DataMessages /\ i \in PayloadIds /\ had[i] = 0
      /\ Part(o, m) = [total |-> m.size, got |-> m.offset]
      /\ i \in DOMAIN o => m.kind = "fragment" /\ o[i] = Part(o, m)
      /\ i \notin DOMAIN o => m.kind = "begin" /\ m.offset = 0
      /\ i \in DOMAIN items => /\ items[i].started /\ items[i].size = m.size
                               /\ m.offset + m.data <= items[i].sent
      /\ \A k \in DOMAIN t : IsData(t[k], i) =>
           t[k].kind = "fragment" /\ t[k].size = m.size /\ m.offset + m.data <= t[k].offset
  BY HeadIs
<1>2. m.offset \in Nat /\ m.data \in {0, 1} /\ m.size \in Sizes /\ m.kind # "cancel"
  BY <1>1 DEF DataMessages
<1>3. part = [total |-> m.size, got |-> m.offset + m.data]
  BY <1>1
<1>4. part \in Parts /\ part.total = m.size /\ part.got = m.offset + m.data
  BY <1>2, <1>3 DEF Parts
<1>5. /\ DOMAIN next = DOMAIN o \cup {i} /\ next[i] = part /\ IsTable(next)
      /\ \A j \in DOMAIN o : j # i => next[j] = o[j]
  BY <1>1 DEF With, IsTable
<1>6. \A j \in DOMAIN next : next[j] \in Parts
  BY <1>4, <1>5
<1>7. /\ t \in Seq(Messages) /\ 1 \in DOMAIN s /\ s[1] = m /\ DOMAIN t \subseteq Nat
      /\ \A k \in DOMAIN t : k + 1 \in DOMAIN s /\ t[k] = s[k + 1] /\ 1 < k + 1
      /\ \A k \in DOMAIN s : k # 1 => k - 1 \in DOMAIN t /\ s[k] = t[k - 1]
  BY HeadTail
<1>8. PeerOK(items, t, o, had, FALSE)
  BY TailKeeps
<1>9. OpenOK(items, t, next, had)
  <2>1. ASSUME NEW j \in DOMAIN next
        PROVE  /\ had[j] = 0
               /\ j \in DOMAIN items => items[j].started /\ items[j].size = next[j].total
               /\ \A k \in DOMAIN t : IsData(t[k], j) => t[k].kind = "fragment" /\ t[k].size = next[j].total
    <3>1. CASE j = i
      BY <1>1, <1>4, <1>5, <3>1
    <3>2. CASE j # i
      <4>1. j \in DOMAIN o /\ next[j] = o[j]
        BY <1>5, <3>2
      <4>2. /\ had[j] = 0
            /\ j \in DOMAIN items => items[j].started /\ items[j].size = o[j].total
            /\ \A k \in DOMAIN t : IsData(t[k], j) => t[k].kind = "fragment" /\ t[k].size = o[j].total
        BY <1>8, <4>1 DEF PeerOK, OpenOK
      <4> QED
        BY <4>1, <4>2
    <3> QED
      BY <3>1, <3>2
  <2> QED
    BY <1>8, <2>1 DEF PeerOK, OpenOK
<1>10. Follows(t, next)
  <2> SUFFICES ASSUME NEW k \in DOMAIN t, t[k].kind = "fragment"
               PROVE  \/ \E j \in DOMAIN t : j < k /\ IsData(t[j], t[k].id) /\ t[j].offset + t[j].data = t[k].offset
                      \/ t[k].id \in DOMAIN next /\ next[t[k].id].got = t[k].offset
    BY DEF Follows
  <2>1. k + 1 \in DOMAIN s /\ t[k] = s[k + 1] /\ k \in Nat
    BY <1>7
  <2>2. \/ \E j \in DOMAIN s : j < k + 1 /\ IsData(s[j], t[k].id) /\ s[j].offset + s[j].data = t[k].offset
        \/ t[k].id \in DOMAIN o /\ o[t[k].id].got = t[k].offset
    BY <2>1 DEF PeerOK, Follows
  <2>3. CASE \E j \in DOMAIN s : j < k + 1 /\ IsData(s[j], t[k].id) /\ s[j].offset + s[j].data = t[k].offset
    <3>1. PICK j \in DOMAIN s : j < k + 1 /\ IsData(s[j], t[k].id) /\ s[j].offset + s[j].data = t[k].offset
      BY <2>3
    <3>2. CASE j = 1
      <4>1. t[k].id = i /\ m.offset + m.data = t[k].offset
        BY <1>7, <3>1, <3>2 DEF IsData
      <4> QED
        BY <1>4, <1>5, <4>1
    <3>3. CASE j # 1
      <4>1. j - 1 \in DOMAIN t /\ s[j] = t[j - 1] /\ j - 1 \in Nat
        BY <1>7, <3>3
      <4>2. j \in Int
        <5>1. DOMAIN s = 1 .. Len(s)
          OBVIOUS
        <5> QED
          BY <5>1
      <4> QED
        BY <2>1, <3>1, <4>1, <4>2
    <3> QED
      BY <3>2, <3>3
  <2>4. CASE t[k].id \in DOMAIN o /\ o[t[k].id].got = t[k].offset
    <3>1. CASE t[k].id = i
      <4>1. m.kind = "fragment" /\ t[k].offset = m.offset
        BY <1>1, <2>4, <3>1
      <4>2. m.data = 1
        BY <4>1 DEF MessageOK
      <4>3. m.offset + m.data <= t[k].offset
        BY <1>1, <3>1 DEF IsData
      <4> QED
        BY <1>2, <4>1, <4>2, <4>3
    <3>2. CASE t[k].id # i
      BY <1>5, <2>4, <3>2
    <3> QED
      BY <3>1, <3>2
  <2> QED
    BY <2>2, <2>3, <2>4
<1>11. Reached(items, t, next, had)
  <2> SUFFICES ASSUME NEW j \in DOMAIN items, items[j].started, had[j] = 0
               PROVE  \/ \E k \in DOMAIN t : IsData(t[k], j) /\ t[k].offset + t[k].data = items[j].sent
                      \/ j \in DOMAIN next /\ next[j].got = items[j].sent
    BY DEF Reached
  <2>1. \/ \E k \in DOMAIN s : IsData(s[k], j) /\ s[k].offset + s[k].data = items[j].sent
        \/ j \in DOMAIN o /\ o[j].got = items[j].sent
    BY DEF PeerOK, Reached
  <2>2. CASE \E k \in DOMAIN s : IsData(s[k], j) /\ s[k].offset + s[k].data = items[j].sent
    <3>1. PICK k \in DOMAIN s : IsData(s[k], j) /\ s[k].offset + s[k].data = items[j].sent
      BY <2>2
    <3>2. CASE k = 1
      <4>1. j = i /\ m.offset + m.data = items[j].sent
        BY <1>7, <3>1, <3>2 DEF IsData
      <4> QED
        BY <1>4, <1>5, <4>1
    <3>3. CASE k # 1
      <4>1. k - 1 \in DOMAIN t /\ s[k] = t[k - 1]
        BY <1>7, <3>3
      <4> PICK h : h = k - 1
        OBVIOUS
      <4> QED
        BY <3>1, <4>1
    <3> QED
      BY <3>2, <3>3
  <2>3. CASE j \in DOMAIN o /\ o[j].got = items[j].sent
    <3>1. CASE j = i
      <4>1. m.kind = "fragment" /\ items[j].sent = m.offset
        BY <1>1, <2>3, <3>1
      <4>2. m.data = 1
        BY <4>1 DEF MessageOK
      <4> QED
        BY <1>1, <1>2, <3>1, <4>1, <4>2
    <3>2. CASE j # i
      BY <1>5, <2>3, <3>2
    <3> QED
      BY <3>1, <3>2
  <2> QED
    BY <2>1, <2>2, <2>3
<1>12. AddsUp(items, t, next, had)
  <2> SUFFICES ASSUME NEW j \in DOMAIN items, had[j] = 0 PROVE items[j].sent = Flight(t, j) + Got(next, j)
    BY DEF AddsUp
  <2>1. Flight(s, j) = Brings(m, j) + Flight(t, j) /\ Flight(t, j) \in Nat
    BY FlightTail
  <2>2. items[j].sent = Flight(s, j) + Got(o, j)
    BY DEF PeerOK, AddsUp
  <2>3. CASE j = i
    <3>1. Brings(m, j) = m.data
      BY <1>2, <2>3 DEF Brings, IsData
    <3>2. Got(o, j) = m.offset
      BY <1>1, <2>3 DEF Got
    <3>3. Got(next, j) = m.offset + m.data
      BY <1>4, <1>5, <2>3 DEF Got
    <3> QED
      BY <1>2, <2>1, <2>2, <3>1, <3>2, <3>3
  <2>4. CASE j # i
    <3>1. Brings(m, j) = 0
      BY <1>2, <2>4 DEF Brings, IsData
    <3>2. Got(next, j) = Got(o, j)
      BY <1>5, <2>4 DEF Got
    <3>3. Flight(s, j) = Flight(t, j)
      BY <2>1, <3>1
    <3> QED
      BY <2>2, <3>2, <3>3
  <2> QED
    BY <2>3, <2>4
<1> QED
  BY <1>5, <1>6, <1>8, <1>9, <1>10, <1>11, <1>12 DEF PeerOK

\* The part is whole: the client's handler gets it, and the part is gone.
LEMMA WholeTaken ==
  ASSUME NEW items, NEW s \in Seq(Messages), s # <<>>, NEW o, NEW had \in [PayloadIds -> Nat],
         PeerOK(items, s, o, had, TRUE), IsTable(items), \A j \in DOMAIN items : ItemOK(items[j]),
         \A k \in DOMAIN s : MessageOK(s[k]), IsTable(o),
         Head(s).kind # "cancel", ~Malformed(o, Head(s)), Whole(o, Head(s)), \A j \in DOMAIN o : o[j] \in Parts,
         NEW next, next = Without(o, {Head(s).id}), NEW have, have = [had EXCEPT ![Head(s).id] = @ + 1]
  PROVE  /\ PeerOK(items, Tail(s), next, have, TRUE)
         /\ had[Head(s).id] = 0 /\ have[Head(s).id] = 1
<1> PICK m : m = Head(s)
  OBVIOUS
<1> PICK i : i = m.id
  OBVIOUS
<1> PICK t : t = Tail(s)
  OBVIOUS
<1>1. /\ t \in Seq(Messages) /\ 1 \in DOMAIN s /\ s[1] = m /\ DOMAIN t \subseteq Nat
      /\ \A k \in DOMAIN t : k + 1 \in DOMAIN s /\ t[k] = s[k + 1] /\ 1 < k + 1
      /\ \A k \in DOMAIN s : k # 1 => k - 1 \in DOMAIN t /\ s[k] = t[k - 1]
  BY HeadTail
<1>2. MessageOK(m)
  BY <1>1
<1>3. /\ m \in DataMessages /\ i \in PayloadIds /\ had[i] = 0
      /\ Part(o, m) = [total |-> m.size, got |-> m.offset]
      /\ i \in DOMAIN items => /\ items[i].started /\ items[i].size = m.size
                               /\ m.offset + m.data <= items[i].sent
      /\ \A k \in DOMAIN t : IsData(t[k], i) =>
           t[k].kind = "fragment" /\ t[k].size = m.size /\ m.offset + m.data <= t[k].offset
  BY <1>2, HeadIs
<1>4. m.offset \in Nat /\ m.data \in {0, 1} /\ m.size \in Nat /\ m.kind # "cancel"
  BY <1>3, PayloadAssumption DEF DataMessages
<1>5. m.offset + m.data = m.size
  BY <1>3 DEF Whole
<1>6. have[i] = 1 /\ \A j \in PayloadIds : j # i => have[j] = had[j]
  BY <1>3
<1>7. \A k \in DOMAIN t : ~IsData(t[k], i)
  <2> SUFFICES ASSUME NEW k \in DOMAIN t, IsData(t[k], i) PROVE FALSE
    OBVIOUS
  <2>1. t[k].kind = "fragment" /\ t[k].size = m.size /\ m.offset + m.data <= t[k].offset
    BY <1>3
  <2>2. t[k] \in DataMessages
    BY <1>1, <2>1 DEF Messages, CancelMessages
  <2>3. t[k].offset \in Nat
    BY <2>2 DEF DataMessages
  <2>4. MessageOK(t[k])
    BY <1>1
  <2>5. t[k].offset + 1 <= t[k].size
    BY <2>1, <2>4 DEF MessageOK
  <2> QED
    BY <1>4, <1>5, <2>1, <2>3, <2>5
<1>8. i \in DOMAIN items => items[i].awaiting
  <2> SUFFICES ASSUME i \in DOMAIN items PROVE items[i].awaiting
    OBVIOUS
  <2>1. items[i].sent <= items[i].size /\ items[i].sent \in Nat
        /\ items[i].awaiting = (items[i].started /\ items[i].sent = items[i].size)
    BY DEF ItemOK, Items
  <2>2. items[i].sent = items[i].size
    BY <1>3, <1>4, <1>5, <2>1
  <2> QED
    BY <1>3, <2>1, <2>2
<1>9. /\ \A j \in DOMAIN next : j \in DOMAIN o /\ j # i /\ next[j] = o[j]
      /\ \A j \in DOMAIN o : j # i => j \in DOMAIN next
  BY DEF Without
<1>10. PeerOK(items, t, o, had, FALSE)
  BY TailKeeps
<1>11. OpenOK(items, t, next, have)
  <2>1. ASSUME NEW j \in DOMAIN next
        PROVE  /\ have[j] = 0
               /\ j \in DOMAIN items => items[j].started /\ items[j].size = next[j].total
               /\ \A k \in DOMAIN t : IsData(t[k], j) => t[k].kind = "fragment" /\ t[k].size = next[j].total
    <3>1. /\ had[j] = 0
          /\ j \in DOMAIN items => items[j].started /\ items[j].size = o[j].total
          /\ \A k \in DOMAIN t : IsData(t[k], j) => t[k].kind = "fragment" /\ t[k].size = o[j].total
      BY <1>9, <1>10 DEF PeerOK, OpenOK
    <3>2. have[j] = had[j]
      BY <1>6, <1>9 DEF IsTable
    <3> QED
      BY <1>9, <3>1, <3>2
  <2>2. ASSUME NEW j \in PayloadIds, have[j] # 0
        PROVE  /\ j \in DOMAIN items => items[j].awaiting
               /\ \A k \in DOMAIN t : ~IsData(t[k], j)
    <3>1. CASE j = i
      BY <1>7, <1>8, <3>1
    <3>2. CASE j # i
      BY <1>6, <1>10, <2>2, <3>2 DEF PeerOK, OpenOK
    <3> QED
      BY <3>1, <3>2
  <2> QED
    BY <2>1, <2>2 DEF OpenOK
<1>12. Follows(t, next)
  <2> SUFFICES ASSUME NEW k \in DOMAIN t, t[k].kind = "fragment"
               PROVE  \/ \E j \in DOMAIN t : j < k /\ IsData(t[j], t[k].id) /\ t[j].offset + t[j].data = t[k].offset
                      \/ t[k].id \in DOMAIN next /\ next[t[k].id].got = t[k].offset
    BY DEF Follows
  <2>1. k + 1 \in DOMAIN s /\ t[k] = s[k + 1] /\ k \in Nat /\ t[k].id # i
    BY <1>1, <1>7 DEF IsData
  <2>2. \/ \E j \in DOMAIN s : j < k + 1 /\ IsData(s[j], t[k].id) /\ s[j].offset + s[j].data = t[k].offset
        \/ t[k].id \in DOMAIN o /\ o[t[k].id].got = t[k].offset
    BY <2>1 DEF PeerOK, Follows
  <2>3. CASE \E j \in DOMAIN s : j < k + 1 /\ IsData(s[j], t[k].id) /\ s[j].offset + s[j].data = t[k].offset
    <3>1. PICK j \in DOMAIN s : j < k + 1 /\ IsData(s[j], t[k].id) /\ s[j].offset + s[j].data = t[k].offset
      BY <2>3
    <3>2. j # 1
      BY <1>1, <2>1, <3>1 DEF IsData
    <3>3. j - 1 \in DOMAIN t /\ s[j] = t[j - 1]
      BY <1>1, <3>2
    <3>4. j \in Int
      <4>1. DOMAIN s = 1 .. Len(s)
        OBVIOUS
      <4> QED
        BY <4>1
    <3> QED
      BY <2>1, <3>1, <3>3, <3>4
  <2>4. CASE t[k].id \in DOMAIN o /\ o[t[k].id].got = t[k].offset
    BY <1>9, <2>1, <2>4
  <2> QED
    BY <2>2, <2>3, <2>4
<1>13. ASSUME NEW j \in DOMAIN items, have[j] = 0 PROVE j \in PayloadIds /\ j # i /\ had[j] = 0
  BY <1>6, <1>13 DEF IsTable
<1>14. Reached(items, t, next, have)
  <2> SUFFICES ASSUME NEW j \in DOMAIN items, items[j].started, have[j] = 0
               PROVE  \/ \E k \in DOMAIN t : IsData(t[k], j) /\ t[k].offset + t[k].data = items[j].sent
                      \/ j \in DOMAIN next /\ next[j].got = items[j].sent
    BY DEF Reached
  <2>1. j # i /\ had[j] = 0
    BY <1>13
  <2>2. \/ \E k \in DOMAIN s : IsData(s[k], j) /\ s[k].offset + s[k].data = items[j].sent
        \/ j \in DOMAIN o /\ o[j].got = items[j].sent
    BY <2>1 DEF PeerOK, Reached
  <2>3. CASE \E k \in DOMAIN s : IsData(s[k], j) /\ s[k].offset + s[k].data = items[j].sent
    <3>1. PICK k \in DOMAIN s : IsData(s[k], j) /\ s[k].offset + s[k].data = items[j].sent
      BY <2>3
    <3>2. k # 1
      BY <1>1, <2>1, <3>1 DEF IsData
    <3>3. k - 1 \in DOMAIN t /\ s[k] = t[k - 1]
      BY <1>1, <3>2
    <3> PICK h : h = k - 1
      OBVIOUS
    <3> QED
      BY <3>1, <3>3
  <2>4. CASE j \in DOMAIN o /\ o[j].got = items[j].sent
    BY <1>9, <2>1, <2>4
  <2> QED
    BY <2>2, <2>3, <2>4
<1>15. AddsUp(items, t, next, have)
  <2> SUFFICES ASSUME NEW j \in DOMAIN items, have[j] = 0 PROVE items[j].sent = Flight(t, j) + Got(next, j)
    BY DEF AddsUp
  <2>1. j # i /\ had[j] = 0
    BY <1>13
  <2>2. Flight(s, j) = Brings(m, j) + Flight(t, j) /\ Flight(t, j) \in Nat
    BY FlightTail
  <2>3. Brings(m, j) = 0
    BY <2>1 DEF Brings, IsData
  <2>4. Flight(s, j) = Flight(t, j)
    BY <2>2, <2>3
  <2>5. Got(next, j) = Got(o, j)
    BY <1>9, <2>1 DEF Got
  <2> QED
    BY <2>1, <2>4, <2>5 DEF PeerOK, AddsUp
<1> QED
  BY <1>3, <1>6, <1>10, <1>11, <1>12, <1>14, <1>15 DEF PeerOK

\* The cancel of a payload: the part is gone.
LEMMA CancelTaken ==
  ASSUME NEW items, NEW s \in Seq(Messages), s # <<>>, NEW o, NEW had, PeerOK(items, s, o, had, TRUE),
         Head(s).kind = "cancel", NEW next, next = Without(o, {Head(s).id})
  PROVE  PeerOK(items, Tail(s), next, had, TRUE)
<1> PICK m : m = Head(s)
  OBVIOUS
<1> PICK i : i = m.id
  OBVIOUS
<1> PICK t : t = Tail(s)
  OBVIOUS
<1>1. /\ t \in Seq(Messages) /\ 1 \in DOMAIN s /\ s[1] = m /\ DOMAIN t \subseteq Nat
      /\ \A k \in DOMAIN t : k + 1 \in DOMAIN s /\ t[k] = s[k + 1] /\ 1 < k + 1
      /\ \A k \in DOMAIN s : k # 1 => k - 1 \in DOMAIN t /\ s[k] = t[k - 1]
  BY HeadTail
<1>2. i \notin DOMAIN items
  BY <1>1 DEF PeerOK, StreamOK
<1>3. \A k \in DOMAIN t : ~IsData(t[k], i)
  BY <1>1 DEF IsData, PeerOK, StreamOK
<1>4. /\ \A j \in DOMAIN next : j \in DOMAIN o /\ j # i /\ next[j] = o[j]
      /\ \A j \in DOMAIN o : j # i => j \in DOMAIN next
  BY DEF Without
<1>5. PeerOK(items, t, o, had, FALSE)
  BY TailKeeps
<1>6. OpenOK(items, t, next, had)
  <2>1. ASSUME NEW j \in DOMAIN next
        PROVE  /\ had[j] = 0
               /\ j \in DOMAIN items => items[j].started /\ items[j].size = next[j].total
               /\ \A k \in DOMAIN t : IsData(t[k], j) => t[k].kind = "fragment" /\ t[k].size = next[j].total
    <3>1. /\ had[j] = 0
          /\ j \in DOMAIN items => items[j].started /\ items[j].size = o[j].total
          /\ \A k \in DOMAIN t : IsData(t[k], j) => t[k].kind = "fragment" /\ t[k].size = o[j].total
      BY <1>4, <1>5 DEF PeerOK, OpenOK
    <3> QED
      BY <1>4, <3>1
  <2> QED
    BY <1>5, <2>1 DEF PeerOK, OpenOK
<1>7. \A j : ~IsData(s[1], j)
  BY <1>1 DEF IsData
<1>8. Follows(t, next)
  <2> SUFFICES ASSUME NEW k \in DOMAIN t, t[k].kind = "fragment"
               PROVE  \/ \E j \in DOMAIN t : j < k /\ IsData(t[j], t[k].id) /\ t[j].offset + t[j].data = t[k].offset
                      \/ t[k].id \in DOMAIN next /\ next[t[k].id].got = t[k].offset
    BY DEF Follows
  <2>1. k + 1 \in DOMAIN s /\ t[k] = s[k + 1] /\ k \in Nat /\ t[k].id # i
    BY <1>1, <1>3 DEF IsData
  <2>2. \/ \E j \in DOMAIN s : j < k + 1 /\ IsData(s[j], t[k].id) /\ s[j].offset + s[j].data = t[k].offset
        \/ t[k].id \in DOMAIN o /\ o[t[k].id].got = t[k].offset
    BY <2>1 DEF PeerOK, Follows
  <2>3. CASE \E j \in DOMAIN s : j < k + 1 /\ IsData(s[j], t[k].id) /\ s[j].offset + s[j].data = t[k].offset
    <3>1. PICK j \in DOMAIN s : j < k + 1 /\ IsData(s[j], t[k].id) /\ s[j].offset + s[j].data = t[k].offset
      BY <2>3
    <3>2. j # 1
      BY <1>7, <3>1
    <3>3. j - 1 \in DOMAIN t /\ s[j] = t[j - 1]
      BY <1>1, <3>2
    <3>4. j \in Int
      <4>1. DOMAIN s = 1 .. Len(s)
        OBVIOUS
      <4> QED
        BY <4>1
    <3> QED
      BY <2>1, <3>1, <3>3, <3>4
  <2>4. CASE t[k].id \in DOMAIN o /\ o[t[k].id].got = t[k].offset
    BY <1>4, <2>1, <2>4
  <2> QED
    BY <2>2, <2>3, <2>4
<1>9. Reached(items, t, next, had)
  <2> SUFFICES ASSUME NEW j \in DOMAIN items, items[j].started, had[j] = 0
               PROVE  \/ \E k \in DOMAIN t : IsData(t[k], j) /\ t[k].offset + t[k].data = items[j].sent
                      \/ j \in DOMAIN next /\ next[j].got = items[j].sent
    BY DEF Reached
  <2>1. \/ \E k \in DOMAIN s : IsData(s[k], j) /\ s[k].offset + s[k].data = items[j].sent
        \/ j \in DOMAIN o /\ o[j].got = items[j].sent
    BY DEF PeerOK, Reached
  <2>2. CASE \E k \in DOMAIN s : IsData(s[k], j) /\ s[k].offset + s[k].data = items[j].sent
    <3>1. PICK k \in DOMAIN s : IsData(s[k], j) /\ s[k].offset + s[k].data = items[j].sent
      BY <2>2
    <3>2. k - 1 \in DOMAIN t /\ s[k] = t[k - 1]
      BY <1>1, <1>7, <3>1
    <3> PICK h : h = k - 1
      OBVIOUS
    <3> QED
      BY <3>1, <3>2
  <2>3. CASE j \in DOMAIN o /\ o[j].got = items[j].sent
    BY <1>2, <1>4, <2>3
  <2> QED
    BY <2>1, <2>2, <2>3
<1>10. AddsUp(items, t, next, had)
  <2> SUFFICES ASSUME NEW j \in DOMAIN items, had[j] = 0 PROVE items[j].sent = Flight(t, j) + Got(next, j)
    BY DEF AddsUp
  <2>1. Flight(s, j) = Brings(m, j) + Flight(t, j) /\ Flight(t, j) \in Nat
    BY FlightTail
  <2>2. Brings(m, j) = 0
    BY DEF Brings, IsData
  <2>3. Flight(s, j) = Flight(t, j)
    BY <2>1, <2>2
  <2>4. Got(next, j) = Got(o, j)
    BY <1>2, <1>4 DEF Got
  <2> QED
    BY <2>3, <2>4 DEF PeerOK, AddsUp
<1> QED
  BY <1>5, <1>6, <1>8, <1>9, <1>10 DEF PeerOK

--------------------------------------------------------------------------------
(* The invariant holds at first and in every step.                              *)

LEMMA Facts ==
  ASSUME IInv, NEW p \in Peers
  PROVE  /\ IsTable(QueueOf(p)) /\ \A i \in DOMAIN QueueOf(p) : ItemOK(QueueOf(p)[i])
         /\ down[p] \in Seq(Messages) /\ \A k \in DOMAIN down[p] : MessageOK(down[p][k])
         /\ up[p] \in Seq(PayloadIds)
         /\ IsTable(open[p]) /\ \A i \in DOMAIN open[p] : open[p][i] \in Parts
         /\ HeldOK(open[p])
         /\ Live(p) \in BOOLEAN
         /\ PeerOK(QueueOf(p), down[p], open[p], dispatched, Live(p))
<1>1. IsTable(QueueOf(p)) /\ \A i \in DOMAIN QueueOf(p) : ItemOK(QueueOf(p)[i])
  <2>1. CASE p \in DOMAIN queue
    BY <2>1 DEF IInv, Types, QueueTypes, QueueOf
  <2>2. CASE p \notin DOMAIN queue
    <3>1. IsTable(Nothing) /\ DOMAIN Nothing = {}
      BY DEF IsTable, Nothing
    <3> QED
      BY <2>2, <3>1 DEF QueueOf
  <2> QED
    BY <2>1, <2>2
<1>2. /\ down[p] \in Seq(Messages) /\ \A k \in DOMAIN down[p] : MessageOK(down[p][k])
      /\ up[p] \in Seq(PayloadIds) /\ Live(p) \in BOOLEAN
  BY DEF IInv, Types, StreamTypes, Live
<1>3. HeldOK(open[p])
  BY DEF IInv, Types, ClientTypes
<1> QED
  BY <1>1, <1>2, <1>3 DEF HeldOK, IInv, Peer

\* An action leaves a peer alone.
LEMMA PeerSame ==
  ASSUME NEW p \in Peers, Peer(p), QueueOf(p)' = QueueOf(p), down'[p] = down[p], open'[p] = open[p],
         dispatched' = dispatched, linked'[p] = linked[p], refused'[p] = refused[p]
  PROVE  Peer(p)'
BY DEF Peer, Live

\* Types that an action leaves alone, when the tick does not go back.
LEMMA TypesSame ==
  /\ StreamTypes /\ UNCHANGED <<linked, refused, down, up>> => StreamTypes'
  /\ ClientTypes /\ UNCHANGED open => ClientTypes'
  /\ CountTypes /\ UNCHANGED <<dispatched, delivered, cancelled>> => CountTypes'
  /\ QueueTypes /\ UNCHANGED <<now, nextPayload, queue, owner>> => QueueTypes'
  /\ Owners /\ UNCHANGED <<queue, owner>> => Owners'
  /\ Links /\ UNCHANGED <<queue, linked, down, up>> => Links'
<1>1. StreamTypes /\ UNCHANGED <<linked, refused, down, up>> => StreamTypes'
  BY DEF StreamTypes
<1>2. ClientTypes /\ UNCHANGED open => ClientTypes'
  BY DEF ClientTypes
<1>3. CountTypes /\ UNCHANGED <<dispatched, delivered, cancelled>> => CountTypes'
  BY DEF CountTypes
<1>4. QueueTypes /\ UNCHANGED <<now, nextPayload, queue, owner>> => QueueTypes'
  BY DEF QueueTypes, ItemOK
<1>5. Owners /\ UNCHANGED <<queue, owner>> => Owners'
  BY DEF Owners
<1>6. Links /\ UNCHANGED <<queue, linked, down, up>> => Links'
  BY DEF Links
<1> QED
  BY <1>1, <1>2, <1>3, <1>4, <1>5, <1>6

LEMMA ItemLater ==
  ASSUME now \in Nat, now' \in Nat, now <= now', NEW item, ItemOK(item)
  PROVE  ItemOK(item)'
BY DEF ItemOK, Items

LEMMA InitIInv ==
  ASSUME Init
  PROVE  IInv
<1>1. DOMAIN Nothing = {} /\ IsTable(Nothing)
  BY DEF Nothing, IsTable
<1>2. <<>> \in Seq(Messages) /\ <<>> \in Seq(PayloadIds) /\ DOMAIN <<>> = {}
  OBVIOUS
<1>3. IsFiniteSet({}) /\ Cardinality({}) = 0
  BY FS_EmptySet
<1>4. Types
  <2>1. now \in 1 .. MaxTick /\ nextPayload \in 0 .. MaxPayloads
    BY PayloadAssumption DEF Init
  <2>2. queue = [p \in DOMAIN queue |-> queue[p]] /\ DOMAIN queue \subseteq Peers
        /\ \A p \in DOMAIN queue : IsTable(queue[p]) /\ \A i \in DOMAIN queue[p] : ItemOK(queue[p][i])
    BY <1>1 DEF Init
  <2>3. IsTable(owner) /\ linked \in [Peers -> BOOLEAN] /\ refused \in [Peers -> BOOLEAN]
        /\ dispatched \in [PayloadIds -> Nat] /\ delivered \in [PayloadIds -> Nat] /\ cancelled \subseteq PayloadIds
    BY <1>1 DEF Init
  <2>4. down \in [Peers -> Seq(Messages)] /\ up \in [Peers -> Seq(PayloadIds)]
        /\ \A p \in Peers : \A k \in DOMAIN down[p] : MessageOK(down[p][k])
    BY <1>2 DEF Init
  <2>5. open = [p \in Peers |-> open[p]]
        /\ \A p \in Peers : /\ IsTable(open[p]) /\ \A i \in DOMAIN open[p] : open[p][i] \in Parts
                            /\ held(open[p]) <= Limit /\ Cardinality(DOMAIN open[p]) <= MaxOpen
    <3>1. 0 <= Limit /\ 0 <= MaxOpen
      BY PayloadAssumption
    <3>2. \A p \in Peers : open[p] = Nothing
      BY DEF Init
    <3> QED
      BY <1>1, <1>3, <3>1, <3>2, HeldNothing DEF Init
  <2> QED
    BY <2>1, <2>2, <2>3, <2>4, <2>5 DEF Types, QueueTypes, StreamTypes, ClientTypes, HeldOK, CountTypes
<1>5. \A p \in Peers : QueueOf(p) = Nothing /\ open[p] = Nothing /\ down[p] = <<>> /\ up[p] = <<>>
  BY DEF QueueOf, Init
<1>6. Owners /\ Links
  BY <1>1, <1>5 DEF Owners, Links, Init
<1>7. Apart
  BY <1>1, <1>2, <1>5 DEF Apart, Knows, Init
<1>8. Events
  BY <1>1, <1>2, <1>5 DEF Events, Init
<1>9. \A p \in Peers : Peer(p)
  BY <1>1, <1>2, <1>5 DEF Peer, PeerOK, StreamOK, OpenOK, Follows, Reached, AddsUp, Init
<1> QED
  BY <1>4, <1>6, <1>7, <1>8, <1>9 DEF IInv


\* Nobody knows of an id not given out yet.
LEMMA FreshId ==
  ASSUME IInv, NEW i \in PayloadIds, i > nextPayload
  PROVE  /\ dispatched[i] = 0 /\ delivered[i] = 0 /\ i \notin cancelled /\ i \notin DOMAIN owner
         /\ \A q \in Peers : ~Knows(q, i)
         /\ \A q \in Peers : i \notin DOMAIN QueueOf(q) /\ i \notin DOMAIN open[q]
                             /\ \A k \in DOMAIN down[q] : down[q][k].id # i
<1>1. /\ dispatched[i] = 0 /\ delivered[i] = 0 /\ i \notin cancelled
      /\ \A q \in Peers : ~Knows(q, i)
  BY DEF IInv, Apart
<1>2. i \in DOMAIN owner => owner[i] \in Peers /\ i \in DOMAIN QueueOf(owner[i])
  BY DEF IInv, Owners, Types, QueueTypes, QueueOf
<1>3. \A q \in Peers : i \notin DOMAIN QueueOf(q) /\ i \notin DOMAIN open[q]
                       /\ \A k \in DOMAIN down[q] : down[q][k].id # i
  BY <1>1 DEF Knows
<1> QED
  BY <1>1, <1>2, <1>3

\* What SendPayload does to the queues and the owners.
Queued(p, i) ==
  /\ p \in DOMAIN queue /\ i \in PayloadIds /\ nextPayload' = i /\ i > nextPayload
  /\ UNCHANGED <<now, delivered, cancelled, open, refused, dispatched, linked, down, up>>
  /\ DOMAIN queue' = DOMAIN queue /\ queue' = [q \in DOMAIN queue' |-> queue'[q]]
  /\ \A q \in DOMAIN queue : q # p => queue'[q] = queue[q]
  /\ DOMAIN queue'[p] = DOMAIN queue[p] \cup {i} /\ IsTable(queue'[p])
  /\ ItemOK(queue'[p][i]) /\ queue'[p][i].sent = 0 /\ queue'[p][i].started = FALSE
  /\ \A j \in DOMAIN queue[p] : j # i => queue'[p][j] = queue[p][j]
  /\ DOMAIN owner' = DOMAIN owner \cup {i} /\ owner'[i] = p /\ IsTable(owner')
  /\ \A j \in DOMAIN owner : j # i => owner'[j] = owner[j]

LEMMA SendPayloadDoes ==
  ASSUME IInv, NEW p \in Peers, NEW size \in Sizes, NEW prio \in Prios, SendPayload(p, size, prio)
  PROVE  Queued(p, nextPayload + 1)
<1> PICK i : i = nextPayload + 1
  OBVIOUS
<1> PICK item : item = [size |-> size, prio |-> prio, queued |-> now, sent |-> 0, started |-> FALSE, awaiting |-> FALSE]
  OBVIOUS
<1>1. /\ p \in DOMAIN queue /\ i \in PayloadIds /\ nextPayload' = i
      /\ queue' = [queue EXCEPT ![p] = With(queue[p], i, item)] /\ owner' = With(owner, i, p)
      /\ UNCHANGED <<now, delivered, cancelled, open, refused, dispatched, linked, down, up>>
  BY DEF SendPayload, clientVars
<1>2. QueueTypes
  BY DEF IInv, Types
<1>3. now \in 1 .. MaxTick /\ now \in Nat /\ nextPayload \in Nat /\ i > nextPayload
  BY <1>2, PayloadAssumption DEF QueueTypes
<1>4. ItemOK(item)
  <2>1. size \in Nat /\ 0 <= size /\ 0 \in Nat
    BY PayloadAssumption
  <2>2. now \in 1 .. now
    BY <1>3, PayloadAssumption
  <2>3. item \in Items
    BY <1>3 DEF Items
  <2> QED
    BY <2>1, <2>2, <2>3 DEF ItemOK
<1>5. /\ DOMAIN queue' = DOMAIN queue /\ queue'[p] = With(queue[p], i, item)
      /\ queue' = [q \in DOMAIN queue' |-> queue'[q]]
      /\ \A q \in DOMAIN queue : q # p => queue'[q] = queue[q]
  BY <1>1, <1>2 DEF QueueTypes
<1>6. IsTable(queue[p]) /\ IsTable(owner)
  BY <1>1, <1>2 DEF QueueTypes
<1>7. /\ DOMAIN queue'[p] = DOMAIN queue[p] \cup {i} /\ IsTable(queue'[p])
      /\ queue'[p][i] = item /\ \A j \in DOMAIN queue[p] : j # i => queue'[p][j] = queue[p][j]
  BY <1>1, <1>5, <1>6 DEF With, IsTable
<1>8. DOMAIN owner' = DOMAIN owner \cup {i} /\ owner'[i] = p /\ IsTable(owner')
      /\ \A j \in DOMAIN owner : j # i => owner'[j] = owner[j]
  BY <1>1, <1>6 DEF With, IsTable
<1>9. item.sent = 0 /\ item.started = FALSE
  OBVIOUS
<1> QED
  BY <1>1, <1>3, <1>4, <1>5, <1>7, <1>8, <1>9 DEF Queued

LEMMA SendPayloadKeeps ==
  ASSUME IInv, NEW p \in Peers, NEW size \in Sizes, NEW prio \in Prios, SendPayload(p, size, prio)
  PROVE  IInv'
<1> PICK i : i = nextPayload + 1
  OBVIOUS
<1>1. /\ p \in DOMAIN queue /\ i \in PayloadIds /\ nextPayload' = i /\ i > nextPayload
      /\ UNCHANGED <<now, delivered, cancelled, open, refused, dispatched, linked, down, up>>
      /\ DOMAIN queue' = DOMAIN queue /\ queue' = [q \in DOMAIN queue' |-> queue'[q]]
      /\ \A q \in DOMAIN queue : q # p => queue'[q] = queue[q]
      /\ DOMAIN queue'[p] = DOMAIN queue[p] \cup {i} /\ IsTable(queue'[p])
      /\ ItemOK(queue'[p][i]) /\ queue'[p][i].sent = 0 /\ queue'[p][i].started = FALSE
      /\ \A j \in DOMAIN queue[p] : j # i => queue'[p][j] = queue[p][j]
      /\ DOMAIN owner' = DOMAIN owner \cup {i} /\ owner'[i] = p /\ IsTable(owner')
      /\ \A j \in DOMAIN owner : j # i => owner'[j] = owner[j]
  BY SendPayloadDoes DEF Queued
<1>2. Types /\ Owners /\ Links /\ Apart /\ Events /\ \A q \in Peers : Peer(q)
  BY DEF IInv
<1>3. now \in Nat /\ nextPayload \in Nat /\ nextPayload' \in 0 .. MaxPayloads
  BY <1>1, <1>2, PayloadAssumption DEF Types, QueueTypes, PayloadIds
<1>4. /\ dispatched[i] = 0 /\ delivered[i] = 0 /\ i \notin cancelled /\ i \notin DOMAIN owner
      /\ \A q \in Peers : ~Knows(q, i)
      /\ i \notin DOMAIN QueueOf(p) /\ i \notin DOMAIN open[p] /\ \A k \in DOMAIN down[p] : down[p][k].id # i
  BY <1>1, FreshId
<1>5. QueueTypes'
  <2>1. ASSUME NEW q \in DOMAIN queue' PROVE IsTable(queue'[q]) /\ (\A j \in DOMAIN queue[q] : ItemOK(queue[q][j]))'
    <3>1. \A item : ItemOK(item) => ItemOK(item)'
      BY <1>1, <1>3, ItemLater
    <3>2. IsTable(queue[q]) /\ \A j \in DOMAIN queue[q] : ItemOK(queue[q][j])
      BY <1>1, <1>2, <2>1 DEF Types, QueueTypes
    <3>3. CASE q = p
      BY <1>1, <3>1, <3>2, <3>3
    <3>4. CASE q # p
      BY <1>1, <3>1, <3>2, <3>4
    <3> QED
      BY <3>3, <3>4
  <2>2. now' \in 1 .. MaxTick /\ DOMAIN queue' \subseteq Peers
    BY <1>1, <1>2 DEF Types, QueueTypes
  <2> QED
    BY <1>1, <1>3, <2>1, <2>2 DEF QueueTypes
<1>6. StreamTypes' /\ ClientTypes' /\ CountTypes'
  BY <1>1, <1>2, TypesSame DEF Types
<1>7. Owners'
  <2>1. QueueOf(p) = queue[p]
    BY <1>1 DEF QueueOf
  <2>2. ASSUME NEW j \in DOMAIN owner' PROVE owner'[j] \in DOMAIN queue' /\ j \in DOMAIN queue'[owner'[j]]
    BY <1>1, <1>2, <2>2 DEF Owners
  <2>3. ASSUME NEW q \in DOMAIN queue', NEW j \in DOMAIN queue'[q] PROVE j \in DOMAIN owner' /\ owner'[j] = q
    <3>1. CASE j = i
      <4>1. q = p
        BY <1>1, <1>2, <1>4, <2>1, <2>3, <3>1 DEF Owners
      <4> QED
        BY <1>1, <3>1, <4>1
    <3>2. CASE j # i
      <4>1. j \in DOMAIN queue[q]
        BY <1>1, <2>3, <3>2
      <4> QED
        BY <1>1, <1>2, <3>2, <4>1 DEF Owners
    <3> QED
      BY <3>1, <3>2
  <2> QED
    BY <2>2, <2>3 DEF Owners
<1>8. Links'
  BY <1>1, <1>2 DEF Links
<1>9. \A q \in Peers : /\ q = p => QueueOf(q)' = queue'[p] /\ QueueOf(q) = queue[p]
                       /\ q # p => QueueOf(q)' = QueueOf(q)
  BY <1>1 DEF QueueOf
<1>10. \A q \in Peers, j \in PayloadIds : Knows(q, j)' => Knows(q, j) \/ (q = p /\ j = i)
  BY <1>1, <1>9 DEF Knows
<1>11. Apart'
  <2>1. ASSUME NEW j \in PayloadIds, j > nextPayload'
        PROVE  /\ dispatched'[j] = 0 /\ delivered'[j] = 0 /\ j \notin cancelled'
               /\ \A q \in Peers : ~Knows(q, j)'
    <3>1. j > nextPayload /\ j # i
      BY <1>1, <1>3, <2>1 DEF PayloadIds
    <3> QED
      BY <1>1, <1>2, <1>10, <3>1 DEF Apart
  <2>2. ASSUME NEW q \in Peers, NEW r \in Peers, NEW j \in PayloadIds, Knows(q, j)', Knows(r, j)' PROVE q = r
    <3>1. CASE j = i
      BY <1>4, <1>10, <2>2, <3>1
    <3>2. CASE j # i
      BY <1>2, <1>10, <2>2, <3>2 DEF Apart
    <3> QED
      BY <3>1, <3>2
  <2> QED
    BY <2>1, <2>2 DEF Apart
<1>12. Events'
  BY <1>1, <1>2, <1>4 DEF Events
<1>13. ASSUME NEW q \in Peers PROVE Peer(q)'
  <2>1. CASE q = p
    <3> PICK more : more = queue'[p]
      OBVIOUS
    <3> PICK items : items = QueueOf(p)
      OBVIOUS
    <3>1. QueueOf(p)' = more /\ items = queue[p]
      BY <1>9
    <3>2. down[p] \in Seq(Messages) /\ PeerOK(items, down[p], open[p], dispatched, Live(p))
      BY Facts
    <3>3. Joins(items, more, i)
      BY <1>1, <3>1 DEF Joins
    <3>4. Unknown(down[p], open[p], dispatched, i)
      BY <1>4 DEF Unknown
    <3>5. PeerOK(more, down[p], open[p], dispatched, Live(p))
      BY <3>2, <3>3, <3>4, MoreItems
    <3> QED
      BY <1>1, <2>1, <3>1, <3>5 DEF Peer, Live
  <2>2. CASE q # p
    BY <1>1, <1>2, <1>9, <2>2, PeerSame
  <2> QED
    BY <2>1, <2>2
<1> QED
  BY <1>5, <1>6, <1>7, <1>8, <1>11, <1>12, <1>13 DEF IInv, Types

\* No queue gets a payload, and what stays in one differs in its priority at most.
Stays(item, next) ==
  /\ next \in Items /\ next.size = item.size /\ next.queued = item.queued /\ next.sent = item.sent
  /\ next.started = item.started /\ next.awaiting = item.awaiting
Dwindles ==
  /\ now' = now /\ nextPayload' = nextPayload
  /\ queue' = [q \in DOMAIN queue' |-> queue'[q]] /\ DOMAIN queue' \subseteq DOMAIN queue
  /\ \A q \in DOMAIN queue' : /\ IsTable(queue'[q]) /\ DOMAIN queue'[q] \subseteq DOMAIN queue[q]
                              /\ \A i \in DOMAIN queue'[q] : Stays(queue[q][i], queue'[q][i])
  /\ IsTable(owner') /\ \A i \in DOMAIN owner' : i \in DOMAIN owner /\ owner'[i] = owner[i]
  /\ \A i \in DOMAIN owner : i \in DOMAIN owner' <=> owner[i] \in DOMAIN queue' /\ i \in DOMAIN queue'[owner[i]]

LEMMA DwindlesKeeps ==
  ASSUME IInv, Dwindles
  PROVE  /\ QueueTypes' /\ Owners'
         /\ \A p \in Peers : DOMAIN QueueOf(p)' \subseteq DOMAIN QueueOf(p)
         /\ \A p \in Peers : PeerOK(QueueOf(p)', down[p], open[p], dispatched, Live(p))
<1>1. QueueTypes /\ Owners
  BY DEF IInv, Types
<1>2. QueueTypes'
  <2>1. ASSUME NEW q \in DOMAIN queue' PROVE IsTable(queue'[q]) /\ (\A i \in DOMAIN queue[q] : ItemOK(queue[q][i]))'
    <3>1. /\ IsTable(queue'[q]) /\ DOMAIN queue'[q] \subseteq DOMAIN queue[q] /\ q \in DOMAIN queue
          /\ \A i \in DOMAIN queue'[q] : Stays(queue[q][i], queue'[q][i])
      BY <2>1 DEF Dwindles
    <3>2. ASSUME NEW i \in DOMAIN queue'[q] PROVE ItemOK(queue[q][i])'
      <4> PICK item : item = queue[q][i]
        OBVIOUS
      <4> PICK next : next = queue'[q][i]
        OBVIOUS
      <4>1. ItemOK(item) /\ Stays(item, next) /\ now' = now
        BY <1>1, <3>1, <3>2 DEF QueueTypes, Dwindles
      <4>2. ItemOK(next)'
        BY <4>1 DEF ItemOK, Stays
      <4> QED
        BY <4>2
    <3> QED
      BY <3>1, <3>2
  <2>2. /\ now' \in 1 .. MaxTick /\ nextPayload' \in 0 .. MaxPayloads
        /\ queue' = [p \in DOMAIN queue' |-> queue'[p]] /\ DOMAIN queue' \subseteq Peers /\ IsTable(owner')
    BY <1>1 DEF QueueTypes, Dwindles
  <2> QED
    BY <2>1, <2>2 DEF QueueTypes
<1>3. Owners'
  <2>1. ASSUME NEW i \in DOMAIN owner' PROVE owner'[i] \in DOMAIN queue' /\ i \in DOMAIN queue'[owner'[i]]
    BY <2>1 DEF Dwindles
  <2>2. ASSUME NEW p \in DOMAIN queue', NEW i \in DOMAIN queue'[p] PROVE i \in DOMAIN owner' /\ owner'[i] = p
    <3>1. p \in DOMAIN queue /\ i \in DOMAIN queue[p]
      BY <2>2 DEF Dwindles
    <3>2. i \in DOMAIN owner /\ owner[i] = p
      BY <1>1, <3>1 DEF Owners
    <3> QED
      BY <2>2, <3>2 DEF Dwindles
  <2> QED
    BY <2>1, <2>2 DEF Owners
<1>4. ASSUME NEW p \in Peers
      PROVE  /\ DOMAIN QueueOf(p)' \subseteq DOMAIN QueueOf(p)
             /\ PeerOK(QueueOf(p)', down[p], open[p], dispatched, Live(p))
  <2> PICK items : items = QueueOf(p)
    OBVIOUS
  <2> PICK less : less = QueueOf(p)'
    OBVIOUS
  <2>1. PeerOK(items, down[p], open[p], dispatched, Live(p))
    BY Facts
  <2>2. /\ DOMAIN less \subseteq DOMAIN items
        /\ \A i \in DOMAIN less : /\ less[i].size = items[i].size /\ less[i].sent = items[i].sent
                                  /\ less[i].started = items[i].started /\ less[i].awaiting = items[i].awaiting
    <3>1. CASE p \in DOMAIN queue'
      <4>1. p \in DOMAIN queue /\ less = queue'[p] /\ items = queue[p]
        BY <3>1 DEF Dwindles, QueueOf
      <4> QED
        BY <3>1, <4>1 DEF Dwindles, Stays
    <3>2. CASE p \notin DOMAIN queue'
      <4>1. DOMAIN less = {}
        BY <3>2 DEF QueueOf, Nothing
      <4> QED
        BY <4>1
    <3> QED
      BY <3>1, <3>2
  <2>3. PeerOK(less, down[p], open[p], dispatched, Live(p))
    BY <2>1, <2>2, FewerItems
  <2> QED
    BY <2>2, <2>3
<1> QED
  BY <1>2, <1>3, <1>4

\* Nobody learns of a payload.
LEMMA ApartKept ==
  ASSUME Apart, nextPayload' = nextPayload,
         \A i \in PayloadIds : i > nextPayload => dispatched'[i] = 0 /\ delivered'[i] = 0 /\ i \notin cancelled',
         \A p \in Peers, i \in PayloadIds : Knows(p, i)' => Knows(p, i)
  PROVE  Apart'
BY DEF Apart

\* One payload leaves its queue.
LEMMA TakenOut ==
  ASSUME IInv, NEW id \in DOMAIN owner, queue' = [queue EXCEPT ![owner[id]] = Without(@, {id})],
         owner' = Without(owner, {id}), now' = now, nextPayload' = nextPayload
  PROVE  /\ Dwindles /\ DOMAIN queue' = DOMAIN queue /\ owner[id] \in Peers /\ owner[id] \in DOMAIN queue
         /\ id \in PayloadIds /\ id \in DOMAIN queue[owner[id]] /\ id \notin DOMAIN queue'[owner[id]]
         /\ DOMAIN owner' = DOMAIN owner \ {id}
<1> PICK p : p = owner[id]
  OBVIOUS
<1>1. QueueTypes /\ Owners
  BY DEF IInv, Types
<1>2. p \in DOMAIN queue /\ p \in Peers /\ id \in DOMAIN queue[p] /\ id \in PayloadIds
  BY <1>1 DEF QueueTypes, Owners, IsTable
<1>3. /\ DOMAIN queue' = DOMAIN queue /\ queue'[p] = Without(queue[p], {id})
      /\ queue' = [q \in DOMAIN queue' |-> queue'[q]]
      /\ \A q \in DOMAIN queue : q # p => queue'[q] = queue[q]
  BY <1>1, <1>2 DEF QueueTypes
<1>4. /\ DOMAIN queue'[p] = DOMAIN queue[p] \ {id} /\ \A i \in DOMAIN queue'[p] : queue'[p][i] = queue[p][i]
      /\ DOMAIN owner' = DOMAIN owner \ {id} /\ \A i \in DOMAIN owner' : owner'[i] = owner[i]
  BY <1>3 DEF Without
<1>5. IsTable(queue'[p]) /\ IsTable(owner')
  <2>1. DOMAIN queue[p] \subseteq PayloadIds /\ DOMAIN owner \subseteq PayloadIds
    BY <1>1, <1>2 DEF QueueTypes, IsTable
  <2> QED
    BY <1>3, <2>1 DEF Without, IsTable
<1>6. ASSUME NEW q \in DOMAIN queue'
      PROVE  /\ IsTable(queue'[q]) /\ DOMAIN queue'[q] \subseteq DOMAIN queue[q]
             /\ \A i \in DOMAIN queue'[q] : queue'[q][i] = queue[q][i]
  <2>1. CASE q = p
    BY <1>4, <1>5, <2>1
  <2>2. CASE q # p
    BY <1>1, <1>3, <2>2 DEF QueueTypes
  <2> QED
    BY <2>1, <2>2
<1>7. \A q \in DOMAIN queue' : \A i \in DOMAIN queue'[q] : Stays(queue[q][i], queue'[q][i])
  <2>1. \A q \in DOMAIN queue : \A i \in DOMAIN queue[q] : queue[q][i] \in Items
    BY <1>1 DEF QueueTypes, ItemOK
  <2>2. ASSUME NEW q \in DOMAIN queue', NEW i \in DOMAIN queue'[q] PROVE Stays(queue[q][i], queue'[q][i])
    <3>1. queue'[q][i] = queue[q][i] /\ queue[q][i] \in Items
      BY <1>3, <1>6, <2>1, <2>2
    <3> QED
      BY <3>1 DEF Stays
  <2> QED
    BY <2>2
<1>8. ASSUME NEW i \in DOMAIN owner
      PROVE  i \in DOMAIN owner' <=> owner[i] \in DOMAIN queue' /\ i \in DOMAIN queue'[owner[i]]
  <2>1. owner[i] \in DOMAIN queue /\ i \in DOMAIN queue[owner[i]]
    BY <1>1 DEF Owners
  <2>2. CASE i = id
    BY <1>4, <2>2
  <2>3. CASE i # id
    BY <1>3, <1>4, <2>1, <2>3
  <2> QED
    BY <2>2, <2>3
<1>9. Dwindles
  BY <1>3, <1>4, <1>5, <1>6, <1>7, <1>8 DEF Dwindles
<1> QED
  BY <1>2, <1>3, <1>4, <1>9

LEMMA CancelPayloadKeeps ==
  ASSUME IInv, NEW id \in PayloadIds, CancelPayload(id)
  PROVE  IInv'
<1> PICK p : p = owner[id]
  OBVIOUS
<1> PICK m : m = [kind |-> "cancel", id |-> id]
  OBVIOUS
<1>1. /\ id \in DOMAIN owner /\ queue' = [queue EXCEPT ![owner[id]] = Without(@, {id})]
      /\ owner' = Without(owner, {id}) /\ cancelled' = cancelled \cup {id}
      /\ UNCHANGED <<now, nextPayload, delivered, open, refused, dispatched, linked, up>>
      /\ (linked[p] /\ down' = [down EXCEPT ![p] = Append(@, m)]) \/ down' = down
  BY DEF CancelPayload, clientVars
<1>2. /\ Dwindles /\ DOMAIN queue' = DOMAIN queue /\ p \in Peers /\ p \in DOMAIN queue
      /\ id \in DOMAIN queue[p] /\ id \notin DOMAIN queue'[p] /\ DOMAIN owner' = DOMAIN owner \ {id}
  BY <1>1, TakenOut
<1>3. Types /\ Owners /\ Links /\ Apart /\ Events
  BY DEF IInv
<1>4. /\ QueueTypes' /\ Owners' /\ \A q \in Peers : DOMAIN QueueOf(q)' \subseteq DOMAIN QueueOf(q)
      /\ \A q \in Peers : PeerOK(QueueOf(q)', down[q], open[q], dispatched, Live(q))
  BY <1>2, DwindlesKeeps
<1>5. \A q \in Peers : down'[q] = down[q] \/ (q = p /\ linked[p] /\ down'[q] = Append(down[q], m))
  BY <1>1, <1>3 DEF Types, StreamTypes
<1>6. m \in Messages /\ m.kind = "cancel" /\ m.id = id
  BY DEF Messages, CancelMessages
<1>7. \A q \in Peers : /\ down'[q] \in Seq(Messages)
                       /\ \A k \in DOMAIN down'[q] : \/ k \in DOMAIN down[q] /\ down'[q][k] = down[q][k]
                                                     \/ q = p /\ down'[q][k] = m
  <2> SUFFICES ASSUME NEW q \in Peers, q = p, down'[q] = Append(down[q], m)
               PROVE  /\ down'[q] \in Seq(Messages)
                      /\ \A k \in DOMAIN down'[q] : (k \in DOMAIN down[q] /\ down'[q][k] = down[q][k]) \/ down'[q][k] = m
    BY <1>3, <1>5 DEF Types, StreamTypes
  <2> PICK s : s = down[q]
    OBVIOUS
  <2>1. s \in Seq(Messages)
    BY <1>3 DEF Types, StreamTypes
  <2>2. Append(s, m) \in Seq(Messages) /\ \A k \in DOMAIN Append(s, m) : (k \in DOMAIN s /\ Append(s, m)[k] = s[k]) \/ Append(s, m)[k] = m
    BY <1>6, <2>1
  <2> QED
    BY <2>2
<1>8. StreamTypes'
  <2>1. ASSUME NEW q \in Peers, NEW k \in DOMAIN down'[q] PROVE MessageOK(down'[q][k])
    BY <1>3, <1>6, <1>7, <2>1 DEF Types, StreamTypes, MessageOK
  <2>2. down' = [q \in Peers |-> down'[q]]
    BY <1>1, <1>3 DEF Types, StreamTypes
  <2>3. down' \in [Peers -> Seq(Messages)]
    BY <1>7, <2>2
  <2> QED
    BY <1>1, <1>3, <2>1, <2>3 DEF Types, StreamTypes
<1>9. ClientTypes'
  BY <1>1, <1>3, TypesSame DEF Types
<1>10. CountTypes'
  BY <1>1, <1>3 DEF Types, CountTypes
<1>11. Links'
  BY <1>1, <1>2, <1>3, <1>5 DEF Links
<1>12. Apart'
  <2>1. ASSUME NEW q \in Peers, NEW i \in PayloadIds, Knows(q, i)' PROVE Knows(q, i)
    <3>1. CASE \E k \in DOMAIN down'[q] : down'[q][k].id = i
      <4>1. QueueOf(p) = queue[p]
        BY <1>2 DEF QueueOf
      <4> QED
        BY <1>2, <1>6, <1>7, <3>1, <4>1 DEF Knows
    <3>2. CASE i \in DOMAIN QueueOf(q)' \/ i \in DOMAIN open'[q]
      BY <1>1, <1>4, <3>2 DEF Knows
    <3> QED
      BY <2>1, <3>1, <3>2 DEF Knows
  <2>2. \A i \in PayloadIds : i > nextPayload => dispatched'[i] = 0 /\ delivered'[i] = 0 /\ i \notin cancelled'
    BY <1>1, <1>3, FreshId DEF Apart
  <2> QED
    BY <1>1, <1>3, <2>1, <2>2, ApartKept
<1>13. Events'
  BY <1>1, <1>2, <1>3 DEF Events
<1>14. ASSUME NEW q \in Peers PROVE Peer(q)'
  <2>1. PeerOK(QueueOf(q)', down[q], open[q], dispatched, Live(q))
    BY <1>4
  <2>2. CASE down'[q] = down[q]
    BY <1>1, <2>1, <2>2 DEF Peer, Live
  <2>3. CASE q = p /\ down'[q] = Append(down[q], m)
    <3>1. down[q] \in Seq(Messages)
      BY <1>3 DEF Types, StreamTypes
    <3>2. id \notin DOMAIN QueueOf(q)'
      BY <1>2, <2>3 DEF QueueOf
    <3> PICK items : items = QueueOf(q)'
      OBVIOUS
    <3>3. PeerOK(items, Append(down[q], m), open[q], dispatched, Live(q))
      BY <2>1, <3>1, <3>2, CancelSent
    <3> QED
      BY <1>1, <2>3, <3>3 DEF Peer, Live
  <2> QED
    BY <1>5, <2>2, <2>3
<1> QED
  BY <1>3, <1>4, <1>8, <1>9, <1>10, <1>11, <1>12, <1>13, <1>14 DEF IInv, Types

LEMMA SetPayloadPriorityKeeps ==
  ASSUME IInv, NEW id \in PayloadIds, NEW prio \in Prios, SetPayloadPriority(id, prio)
  PROVE  IInv'
<1> PICK p : p = owner[id]
  OBVIOUS
<1> PICK item : item = queue[p][id]
  OBVIOUS
<1> PICK next : next = [item EXCEPT !.prio = prio]
  OBVIOUS
<1>1. /\ id \in DOMAIN owner /\ queue' = [queue EXCEPT ![owner[id]][id].prio = prio]
      /\ UNCHANGED <<now, nextPayload, owner, delivered, cancelled, open, refused, dispatched, linked, down, up>>
  BY DEF SetPayloadPriority, clientVars
<1>2. Types /\ Owners /\ Links /\ Apart /\ Events
  BY DEF IInv
<1>3. p \in DOMAIN queue /\ p \in Peers /\ id \in DOMAIN queue[p] /\ IsTable(queue[p]) /\ item \in Items
  BY <1>1, <1>2 DEF Owners, Types, QueueTypes, ItemOK
<1>4. Stays(item, next)
  BY <1>3 DEF Stays, Items
<1>5. /\ DOMAIN queue' = DOMAIN queue /\ queue' = [q \in DOMAIN queue' |-> queue'[q]]
      /\ queue'[p] = [queue[p] EXCEPT ![id] = next] /\ \A q \in DOMAIN queue : q # p => queue'[q] = queue[q]
  BY <1>1, <1>2, <1>3 DEF Types, QueueTypes
<1>6. /\ DOMAIN queue'[p] = DOMAIN queue[p] /\ IsTable(queue'[p])
      /\ queue'[p][id] = next /\ \A i \in DOMAIN queue[p] : i # id => queue'[p][i] = queue[p][i]
  BY <1>3, <1>5 DEF IsTable
<1>7. ASSUME NEW q \in DOMAIN queue'
      PROVE  /\ IsTable(queue'[q]) /\ DOMAIN queue'[q] = DOMAIN queue[q]
             /\ \A i \in DOMAIN queue'[q] : Stays(queue[q][i], queue'[q][i])
  <2>1. IsTable(queue[q]) /\ \A i \in DOMAIN queue[q] : queue[q][i] \in Items
    BY <1>2, <1>5, <1>7 DEF Types, QueueTypes, ItemOK
  <2>2. \A i \in DOMAIN queue[q] : Stays(queue[q][i], queue[q][i])
    BY <2>1 DEF Stays
  <2>3. CASE q = p
    BY <1>4, <1>6, <2>2, <2>3
  <2>4. CASE q # p
    BY <1>5, <2>1, <2>2, <2>4
  <2> QED
    BY <2>3, <2>4
<1>8. Dwindles
  <2>1. \A i \in DOMAIN owner : owner[i] \in DOMAIN queue' /\ i \in DOMAIN queue'[owner[i]]
    BY <1>2, <1>5, <1>7 DEF Owners
  <2>2. IsTable(owner')
    BY <1>1, <1>2 DEF Types, QueueTypes
  <2> QED
    BY <1>1, <1>5, <1>7, <2>1, <2>2 DEF Dwindles
<1>9. /\ QueueTypes' /\ Owners' /\ \A q \in Peers : DOMAIN QueueOf(q)' \subseteq DOMAIN QueueOf(q)
      /\ \A q \in Peers : PeerOK(QueueOf(q)', down[q], open[q], dispatched, Live(q))
  BY <1>8, DwindlesKeeps
<1>10. StreamTypes' /\ ClientTypes' /\ CountTypes'
  BY <1>1, <1>2, TypesSame DEF Types
<1>11. Links'
  BY <1>1, <1>2, <1>5 DEF Links
<1>12. Apart'
  <2>1. \A q \in Peers, i \in PayloadIds : Knows(q, i)' => Knows(q, i)
    BY <1>1, <1>9 DEF Knows
  <2> QED
    BY <1>1, <1>2, <2>1, ApartKept DEF Apart
<1>13. Events'
  BY <1>1, <1>2 DEF Events
<1>14. \A q \in Peers : Peer(q)'
  BY <1>1, <1>9 DEF Peer, Live
<1> QED
  BY <1>2, <1>9, <1>10, <1>11, <1>12, <1>13, <1>14 DEF IInv, Types

\* What is left of the acknowledgements once the first is taken.
LEMMA UpTail ==
  ASSUME NEW s \in Seq(PayloadIds), s # <<>>
  PROVE  /\ Tail(s) \in Seq(PayloadIds) /\ Head(s) = s[1] /\ 1 \in DOMAIN s /\ Head(s) \in PayloadIds
         /\ \A k \in DOMAIN Tail(s) : k + 1 \in DOMAIN s /\ Tail(s)[k] = s[k + 1]
<1> PICK n : n = Len(s)
  OBVIOUS
<1>1. n \in Nat /\ n >= 1 /\ DOMAIN s = 1 .. n /\ DOMAIN Tail(s) = 1 .. n - 1
  OBVIOUS
<1>2. \A k \in 1 .. n - 1 : Tail(s)[k] = s[k + 1] /\ k + 1 \in 1 .. n
  BY <1>1
<1>3. Tail(s) \in Seq(PayloadIds) /\ Head(s) = s[1] /\ 1 \in 1 .. n /\ Head(s) \in PayloadIds
  BY <1>1
<1> QED
  BY <1>1, <1>2, <1>3

LEMMA ReceiveAckKeeps ==
  ASSUME IInv, NEW p \in Peers, ReceiveAck(p)
  PROVE  IInv'
<1> PICK id : id = Head(up[p])
  OBVIOUS
<1>1. /\ up[p] # <<>> /\ p \in DOMAIN queue /\ up' = [up EXCEPT ![p] = Tail(@)]
      /\ UNCHANGED <<now, nextPayload, cancelled, open, refused, dispatched, linked, down>>
      /\ \/ /\ id \in DOMAIN queue[p]
            /\ queue' = [queue EXCEPT ![p] = Without(@, {id})] /\ owner' = Without(owner, {id})
            /\ delivered' = [delivered EXCEPT ![id] = @ + 1]
         \/ UNCHANGED <<queue, owner, delivered>>
  BY DEF ReceiveAck, clientVars
<1>2. Types /\ Owners /\ Links /\ Apart /\ Events /\ \A q \in Peers : Peer(q)
  BY DEF IInv
<1>3. up[p] \in Seq(PayloadIds)
  BY <1>2 DEF Types, StreamTypes
<1>4. /\ Tail(up[p]) \in Seq(PayloadIds) /\ id = up[p][1] /\ 1 \in DOMAIN up[p] /\ id \in PayloadIds
      /\ \A k \in DOMAIN Tail(up[p]) : k + 1 \in DOMAIN up[p] /\ Tail(up[p])[k] = up[p][k + 1]
  BY <1>1, <1>3, UpTail
<1>5. dispatched[id] = 1
  BY <1>2, <1>4 DEF Events
<1>6. up'[p] = Tail(up[p]) /\ \A q \in Peers : q # p => up'[q] = up[q]
  BY <1>1, <1>2 DEF Types, StreamTypes
<1>7. StreamTypes' /\ ClientTypes'
  <2>1. up' \in [Peers -> Seq(PayloadIds)]
    BY <1>1, <1>2, <1>4 DEF Types, StreamTypes
  <2>2. StreamTypes'
    BY <1>1, <1>2, <2>1 DEF Types, StreamTypes
  <2> QED
    BY <1>1, <1>2, <2>2, TypesSame DEF Types
<1>8. ASSUME NEW q \in Peers, NEW k \in DOMAIN up'[q] PROVE dispatched[up'[q][k]] = 1
  <2>1. \A j \in DOMAIN up[q] : dispatched[up[q][j]] = 1
    BY <1>2 DEF Events
  <2>2. CASE q = p
    <3>1. k \in DOMAIN Tail(up[p]) /\ up'[q][k] = Tail(up[p])[k]
      BY <1>6, <1>8, <2>2
    <3>2. k + 1 \in DOMAIN up[p] /\ up'[q][k] = up[p][k + 1]
      BY <1>4, <3>1
    <3> PICK j : j = k + 1
      OBVIOUS
    <3> QED
      BY <2>1, <2>2, <3>2
  <2>3. CASE q # p
    BY <1>6, <1>8, <2>1, <2>3
  <2> QED
    BY <2>2, <2>3
<1>9. linked[p]
  BY <1>1, <1>2 DEF Links
<1>10. Links' <=> \A q \in Peers : q \notin DOMAIN queue' => ~linked[q]
  BY <1>1, <1>2, <1>6, <1>9 DEF Links
<1>11. CASE /\ id \in DOMAIN queue[p]
            /\ queue' = [queue EXCEPT ![p] = Without(@, {id})] /\ owner' = Without(owner, {id})
            /\ delivered' = [delivered EXCEPT ![id] = @ + 1]
  <2>1. id \in DOMAIN owner /\ owner[id] = p
    BY <1>1, <1>2, <1>11 DEF Owners
  <2>2. Dwindles /\ DOMAIN queue' = DOMAIN queue /\ DOMAIN owner' = DOMAIN owner \ {id}
    BY <1>1, <1>11, <2>1, TakenOut
  <2>3. /\ QueueTypes' /\ Owners' /\ \A q \in Peers : DOMAIN QueueOf(q)' \subseteq DOMAIN QueueOf(q)
        /\ \A q \in Peers : PeerOK(QueueOf(q)', down[q], open[q], dispatched, Live(q))
    BY <2>2, DwindlesKeeps
  <2>4. delivered[id] = 0 /\ id \notin cancelled
    BY <1>2, <2>1 DEF Events
  <2>5. delivered'[id] = 1 /\ \A i \in PayloadIds : i # id => delivered'[i] = delivered[i]
    BY <1>2, <1>4, <1>11, <2>4 DEF Types, CountTypes
  <2>6. CountTypes'
    <3>1. delivered' \in [PayloadIds -> Nat]
      <4>1. delivered \in [PayloadIds -> Nat] /\ delivered[id] + 1 \in Nat
        BY <1>2, <1>4 DEF Types, CountTypes
      <4> QED
        BY <1>11, <4>1
    <3> QED
      BY <1>1, <1>2, <3>1 DEF Types, CountTypes
  <2>7. Events'
    <3>1. ASSUME NEW i \in PayloadIds PROVE delivered'[i] <= dispatched[i] /\ dispatched[i] <= 1
      <4>1. CASE i = id
        BY <1>5, <2>5, <4>1
      <4>2. CASE i # id
        BY <1>2, <2>5, <4>2 DEF Events
      <4> QED
        BY <4>1, <4>2
    <3>2. \A i \in DOMAIN owner' : i \in PayloadIds /\ delivered'[i] = 0 /\ i \notin cancelled
      BY <1>2, <2>2, <2>5 DEF Events, Types, QueueTypes, IsTable
    <3>3. \A i \in cancelled : delivered'[i] = 0
      BY <1>2, <2>4, <2>5 DEF Events, Types, CountTypes
    <3> QED
      BY <1>1, <1>8, <3>1, <3>2, <3>3 DEF Events
  <2>8. Apart'
    <3>1. \A q \in Peers, i \in PayloadIds : Knows(q, i)' => Knows(q, i)
      BY <1>1, <2>3 DEF Knows
    <3>2. \A i \in PayloadIds : i > nextPayload => i # id
      BY <1>2, <1>5 DEF Apart
    <3>3. \A i \in PayloadIds : i > nextPayload => dispatched'[i] = 0 /\ delivered'[i] = 0 /\ i \notin cancelled'
      BY <1>1, <1>2, <2>5, <3>2 DEF Apart
    <3> QED
      BY <1>1, <1>2, <3>1, <3>3, ApartKept
  <2>9. \A q \in Peers : Peer(q)'
    BY <1>1, <2>3 DEF Peer, Live
  <2> QED
    BY <1>2, <1>7, <1>10, <2>2, <2>3, <2>6, <2>7, <2>8, <2>9 DEF IInv, Types, Links
<1>12. CASE UNCHANGED <<queue, owner, delivered>>
  <2>1. QueueTypes' /\ Owners' /\ CountTypes'
    BY <1>1, <1>2, <1>12, TypesSame DEF Types
  <2>2. \A q \in Peers : QueueOf(q)' = QueueOf(q)
    BY <1>12 DEF QueueOf
  <2>3. Apart'
    <3>1. \A q \in Peers, i \in PayloadIds : Knows(q, i)' => Knows(q, i)
      BY <1>1, <2>2 DEF Knows
    <3> QED
      BY <1>1, <1>2, <1>12, <3>1, ApartKept DEF Apart
  <2>4. Events'
    BY <1>1, <1>2, <1>8, <1>12 DEF Events
  <2>5. \A q \in Peers : Peer(q)'
    BY <1>1, <1>2, <2>2, PeerSame
  <2>6. Links'
    BY <1>2, <1>10, <1>12 DEF Links
  <2> QED
    BY <1>7, <2>1, <2>3, <2>4, <2>5, <2>6 DEF IInv, Types
<1> QED
  BY <1>1, <1>11, <1>12

LEMMA Concatenation ==
  ASSUME NEW s \in Seq(Messages), NEW t \in Seq(Messages)
  PROVE  /\ s \o t \in Seq(Messages)
         /\ \A k \in DOMAIN (s \o t) : \/ k \in DOMAIN s /\ (s \o t)[k] = s[k]
                                       \/ \E j \in DOMAIN t : (s \o t)[k] = t[j]
<1> PICK a : a = Len(s)
  OBVIOUS
<1> PICK b : b = Len(t)
  OBVIOUS
<1>1. a \in Nat /\ b \in Nat /\ DOMAIN s = 1 .. a /\ DOMAIN t = 1 .. b /\ DOMAIN (s \o t) = 1 .. a + b
  OBVIOUS
<1>2. ASSUME NEW k \in 1 .. a + b
      PROVE  \/ k \in 1 .. a /\ (s \o t)[k] = s[k]
             \/ \E j \in 1 .. b : (s \o t)[k] = t[j]
  <2>1. CASE k <= a
    BY <1>1, <2>1
  <2>2. CASE k > a
    <3>1. k - a \in 1 .. b /\ (s \o t)[k] = t[k - a]
      BY <1>1, <2>2
    <3> QED
      BY <3>1
  <2> QED
    BY <1>1, <2>1, <2>2
<1> QED
  BY <1>1, <1>2

\* Nothing is sent without credit.
LEMMA PumpNone ==
  ASSUME NEW items
  PROVE  pump(items, 0).messages = <<>>
<1>1. PICK f : IsRun(f, items, 0) /\ pump(items, 0) = f[0]
  BY PumpRuns
<1>2. f[0] = [items |-> items, messages |-> <<>>]
  BY <1>1 DEF IsRun
<1> QED
  BY <1>1, <1>2

\* What Send does to one peer.
Advances(q) ==
  /\ q \in DOMAIN queue => \E r : /\ Later(queue[q], r) /\ SendOK(r.items, down[q] \o r.messages, open[q], dispatched, Live(q))
                                  /\ queue'[q] = r.items /\ down'[q] = down[q] \o r.messages
                                  /\ ~linked[q] => r.messages = <<>>
  /\ q \notin DOMAIN queue => down'[q] = down[q]

LEMMA SendDoes ==
  ASSUME IInv, NEW n \in [Peers -> 0 .. MaxSends], Send(n)
  PROVE  /\ DOMAIN queue' = DOMAIN queue /\ queue' = [q \in DOMAIN queue' |-> queue'[q]]
         /\ down' = [q \in Peers |-> down'[q]]
         /\ now' \in 1 .. MaxTick /\ now <= now' /\ (now < MaxTick => now' = now + 1)
         /\ UNCHANGED <<nextPayload, owner, delivered, cancelled, open, refused, dispatched, linked, up>>
         /\ \A q \in Peers : Advances(q)
<1>1. /\ \A q \in Peers : n[q] > 0 => q \in DOMAIN queue /\ linked[q]
      /\ queue' = [q \in DOMAIN queue |-> pump(queue[q], n[q]).items]
      /\ down' = [q \in Peers |-> IF q \in DOMAIN queue THEN down[q] \o pump(queue[q], n[q]).messages ELSE down[q]]
      /\ now' = Min({now + 1, MaxTick})
      /\ UNCHANGED <<nextPayload, owner, delivered, cancelled, open, refused, dispatched, linked, up>>
  BY DEF Send, clientVars
<1>2. now \in 1 .. MaxTick /\ DOMAIN queue \subseteq Peers
  BY DEF IInv, Types, QueueTypes
<1>3. now' \in 1 .. MaxTick /\ now <= now' /\ (now < MaxTick => now' = now + 1)
  <2>1. MaxTick \in Int /\ now \in Int /\ now + 1 \in Int
    BY <1>2, PayloadAssumption
  <2>2. now' = IF now + 1 <= MaxTick THEN now + 1 ELSE MaxTick
    BY <1>1, <2>1, MinOfTwo
  <2> QED
    BY <1>2, <2>1, <2>2
<1>4. ASSUME NEW q \in Peers PROVE Advances(q)
  <2>1. CASE q \in DOMAIN queue
    <3> PICK r : r = pump(queue[q], n[q])
      OBVIOUS
    <3> PICK items : items = queue[q]
      OBVIOUS
    <3>1. queue'[q] = r.items /\ down'[q] = down[q] \o r.messages
      BY <1>1, <2>1
    <3>2. SendOK(items, down[q], open[q], dispatched, Live(q))
      <4>1. items = QueueOf(q)
        BY <2>1 DEF QueueOf
      <4> QED
        BY <4>1, Facts DEF SendOK
    <3>3. n[q] \in Nat
      BY PayloadAssumption
    <3>4. (\A j \in DOMAIN open[q] : open[q][j] \in Parts) /\ Live(q) \in BOOLEAN
      BY Facts
    <3>5. Later(items, r) /\ SendOK(r.items, down[q] \o r.messages, open[q], dispatched, Live(q))
      BY <1>2, <3>2, <3>3, <3>4, PumpKeeps
    <3>6. ~linked[q] => r.messages = <<>>
      <4>1. ~linked[q] => n[q] = 0
        BY <1>1, <3>3
      <4> QED
        BY <4>1, PumpNone
    <3> QED
      BY <2>1, <3>1, <3>5, <3>6 DEF Advances
  <2>2. CASE q \notin DOMAIN queue
    BY <1>1, <2>2 DEF Advances
  <2> QED
    BY <2>1, <2>2
<1>5. DOMAIN queue' = DOMAIN queue /\ queue' = [q \in DOMAIN queue' |-> queue'[q]] /\ down' = [q \in Peers |-> down'[q]]
  BY <1>1
<1> QED
  BY <1>1, <1>3, <1>4, <1>5

LEMMA SendKeeps ==
  ASSUME IInv, NEW n \in [Peers -> 0 .. MaxSends], Send(n)
  PROVE  IInv'
<1>1. /\ DOMAIN queue' = DOMAIN queue /\ queue' = [q \in DOMAIN queue' |-> queue'[q]]
      /\ down' = [q \in Peers |-> down'[q]]
      /\ now' \in 1 .. MaxTick /\ now <= now'
      /\ UNCHANGED <<nextPayload, owner, delivered, cancelled, open, refused, dispatched, linked, up>>
      /\ \A q \in Peers : Advances(q)
  BY SendDoes
<1>2. Types /\ Owners /\ Links /\ Apart /\ Events /\ \A q \in Peers : Peer(q)
  BY DEF IInv
<1>3. ASSUME NEW q \in DOMAIN queue
      PROVE  /\ IsTable(queue'[q]) /\ DOMAIN queue'[q] = DOMAIN queue[q]
             /\ \A i \in DOMAIN queue'[q] : ItemOK(queue[q][i])'
             /\ down'[q] \in Seq(Messages) /\ \A k \in DOMAIN down'[q] : MessageOK(down'[q][k])
             /\ \A k \in DOMAIN down'[q] : \/ k \in DOMAIN down[q] /\ down'[q][k] = down[q][k]
                                           \/ down'[q][k].id \in DOMAIN queue[q]
             /\ ~linked[q] => down'[q] = down[q]
             /\ PeerOK(queue'[q], down'[q], open[q], dispatched, Live(q))
  <2>1. q \in Peers /\ down[q] \in Seq(Messages) /\ now \in Nat /\ now' \in Nat
    BY <1>1, <1>2, PayloadAssumption DEF Types, QueueTypes, StreamTypes
  <2>2. PICK r : /\ Later(queue[q], r) /\ SendOK(r.items, down[q] \o r.messages, open[q], dispatched, Live(q))
                 /\ queue'[q] = r.items /\ down'[q] = down[q] \o r.messages
                 /\ ~linked[q] => r.messages = <<>>
    BY <1>1, <2>1 DEF Advances
  <2>3. /\ IsTable(r.items) /\ DOMAIN r.items = DOMAIN queue[q] /\ r.messages \in Seq(Messages)
        /\ \A k \in DOMAIN r.messages : r.messages[k].id \in DOMAIN queue[q]
        /\ \A i \in DOMAIN queue[q] : ItemOK(r.items[i])
    <3>1. r.messages \in Seq(DataMessages)
      BY <2>2 DEF Later
    <3> PICK ms : ms = r.messages
      OBVIOUS
    <3>2. ms \in Seq(Messages)
      <4>1. ms = [k \in 1 .. Len(ms) |-> ms[k]] /\ \A k \in 1 .. Len(ms) : ms[k] \in DataMessages
        BY <3>1
      <4> QED
        BY <3>1, <4>1 DEF Messages
    <3> QED
      BY <2>2, <3>2 DEF Later
  <2>4. ASSUME NEW i \in DOMAIN queue'[q] PROVE ItemOK(queue[q][i])'
    <3>1. ItemOK(r.items[i])'
      BY <1>1, <2>1, <2>2, <2>3, <2>4, ItemLater
    <3> QED
      BY <2>2, <3>1
  <2>5. /\ SendOK(queue'[q], down'[q], open[q], dispatched, Live(q))
    BY <2>2
  <2>6. /\ down'[q] \in Seq(Messages)
        /\ \A k \in DOMAIN down'[q] : \/ k \in DOMAIN down[q] /\ down'[q][k] = down[q][k]
                                      \/ \E j \in DOMAIN r.messages : down'[q][k] = r.messages[j]
    <3>1. down[q] \o r.messages \in Seq(Messages)
        /\ \A k \in DOMAIN (down[q] \o r.messages) : \/ k \in DOMAIN down[q] /\ (down[q] \o r.messages)[k] = down[q][k]
                                      \/ \E j \in DOMAIN r.messages : (down[q] \o r.messages)[k] = r.messages[j]
      BY <2>1, <2>3, Concatenation
    <3> QED
      BY <2>2, <3>1, Zenon
  <2>7. ~linked[q] => down'[q] = down[q]
    <3>1. down[q] \o <<>> = down[q]
      BY <2>1
    <3> QED
      BY <2>2, <3>1
  <2>8. \A k \in DOMAIN down'[q] : \/ k \in DOMAIN down[q] /\ down'[q][k] = down[q][k]
                                   \/ down'[q][k].id \in DOMAIN queue[q]
    BY <2>3, <2>6
  <2>9. IsTable(queue'[q]) /\ DOMAIN queue'[q] = DOMAIN queue[q]
    BY <2>2, <2>3
  <2>10. (\A k \in DOMAIN down'[q] : MessageOK(down'[q][k])) /\ PeerOK(queue'[q], down'[q], open[q], dispatched, Live(q))
    BY <2>5 DEF SendOK
  <2> QED
    BY <2>4, <2>6, <2>7, <2>8, <2>9, <2>10
<1>4. ASSUME NEW q \in Peers, q \notin DOMAIN queue PROVE down'[q] = down[q]
  BY <1>1, <1>4 DEF Advances
<1>5. QueueTypes'
  <2>1. IsTable(owner') /\ nextPayload' \in 0 .. MaxPayloads /\ DOMAIN queue' \subseteq Peers
    BY <1>1, <1>2 DEF Types, QueueTypes
  <2> QED
    BY <1>1, <1>3, <2>1 DEF QueueTypes
<1>6. StreamTypes'
  <2>1. ASSUME NEW q \in Peers PROVE down'[q] \in Seq(Messages) /\ \A k \in DOMAIN down'[q] : MessageOK(down'[q][k])
    <3>1. CASE q \in DOMAIN queue
      BY <1>3, <3>1
    <3>2. CASE q \notin DOMAIN queue
      BY <1>2, <1>4, <3>2 DEF Types, StreamTypes
    <3> QED
      BY <3>1, <3>2
  <2>2. down' \in [Peers -> Seq(Messages)]
    BY <1>1, <2>1
  <2> QED
    BY <1>1, <1>2, <2>1, <2>2 DEF Types, StreamTypes
<1>7. ClientTypes' /\ CountTypes'
  BY <1>1, <1>2, TypesSame DEF Types
<1>8. Owners'
  BY <1>1, <1>2, <1>3 DEF Owners, Types, QueueTypes
<1>9. Links'
  BY <1>1, <1>2, <1>3, <1>4 DEF Links
<1>10. Apart'
  <2>1. ASSUME NEW q \in Peers, NEW i \in PayloadIds, Knows(q, i)' PROVE Knows(q, i)
    <3>1. CASE q \in DOMAIN queue
      <4>1. QueueOf(q) = queue[q] /\ QueueOf(q)' = queue'[q] /\ DOMAIN queue'[q] = DOMAIN queue[q]
        BY <1>1, <1>3, <3>1 DEF QueueOf
      <4>2. \A k \in DOMAIN down'[q] : \/ k \in DOMAIN down[q] /\ down'[q][k] = down[q][k]
                                       \/ down'[q][k].id \in DOMAIN queue[q]
        BY <1>3, <3>1
      <4> QED
        BY <1>1, <2>1, <4>1, <4>2 DEF Knows
    <3>2. CASE q \notin DOMAIN queue
      <4>1. QueueOf(q)' = QueueOf(q)
        BY <1>1, <3>2 DEF QueueOf
      <4> QED
        BY <1>1, <1>4, <2>1, <3>2, <4>1 DEF Knows
    <3> QED
      BY <3>1, <3>2
  <2> QED
    BY <1>1, <1>2, <2>1, ApartKept DEF Apart
<1>11. Events'
  BY <1>1, <1>2 DEF Events
<1>12. ASSUME NEW q \in Peers PROVE Peer(q)'
  <2>1. CASE q \in DOMAIN queue
    <3>1. QueueOf(q)' = queue'[q]
      BY <1>1, <2>1 DEF QueueOf
    <3>2. PeerOK(queue'[q], down'[q], open[q], dispatched, Live(q))
      BY <1>3, <2>1
    <3> QED
      BY <1>1, <3>1, <3>2 DEF Peer, Live
  <2>2. CASE q \notin DOMAIN queue
    <3>1. QueueOf(q)' = QueueOf(q)
      BY <1>1, <2>2 DEF QueueOf
    <3> QED
      BY <1>1, <1>2, <1>4, <2>2, <3>1, PeerSame
  <2> QED
    BY <2>1, <2>2
<1> QED
  BY <1>2, <1>5, <1>6, <1>7, <1>8, <1>9, <1>10, <1>11, <1>12 DEF IInv, Types

LEMMA LinkDropsKeeps ==
  ASSUME IInv, NEW p \in Peers, LinkDrops(p)
  PROVE  IInv'
<1>1. /\ linked' = [linked EXCEPT ![p] = FALSE] /\ down' = [down EXCEPT ![p] = <<>>] /\ up' = [up EXCEPT ![p] = <<>>]
      /\ UNCHANGED <<now, nextPayload, queue, owner, delivered, cancelled, open, refused, dispatched>>
  BY DEF LinkDrops, serverVars, clientVars
<1>2. Types /\ Owners /\ Links /\ Apart /\ Events /\ \A q \in Peers : Peer(q)
  BY DEF IInv
<1>3. <<>> \in Seq(Messages) /\ <<>> \in Seq(PayloadIds) /\ DOMAIN <<>> = {}
  OBVIOUS
<1>4. /\ linked'[p] = FALSE /\ down'[p] = <<>> /\ up'[p] = <<>>
      /\ \A q \in Peers : q # p => linked'[q] = linked[q] /\ down'[q] = down[q] /\ up'[q] = up[q]
  BY <1>1, <1>2 DEF Types, StreamTypes
<1>5. StreamTypes'
  <2>1. linked' \in [Peers -> BOOLEAN] /\ refused' \in [Peers -> BOOLEAN]
    BY <1>1, <1>2 DEF Types, StreamTypes
  <2>2. down' \in [Peers -> Seq(Messages)] /\ up' \in [Peers -> Seq(PayloadIds)]
    BY <1>1, <1>2, <1>3 DEF Types, StreamTypes
  <2>3. ASSUME NEW q \in Peers, NEW k \in DOMAIN down'[q] PROVE MessageOK(down'[q][k])
    BY <1>2, <1>3, <1>4, <2>3 DEF Types, StreamTypes
  <2> QED
    BY <2>1, <2>2, <2>3 DEF StreamTypes
<1>6. QueueTypes' /\ ClientTypes' /\ CountTypes' /\ Owners'
  BY <1>1, <1>2, TypesSame DEF Types
<1>7. Links'
  BY <1>1, <1>2, <1>4 DEF Links
<1>8. \A q \in Peers : QueueOf(q)' = QueueOf(q)
  BY <1>1 DEF QueueOf
<1>9. Apart'
  <2>1. ASSUME NEW q \in Peers, NEW i \in PayloadIds, Knows(q, i)' PROVE Knows(q, i)
    BY <1>1, <1>3, <1>4, <1>8, <2>1 DEF Knows
  <2> QED
    BY <1>1, <1>2, <2>1, ApartKept DEF Apart
<1>10. Events'
  <2>1. ASSUME NEW q \in Peers, NEW k \in DOMAIN up'[q] PROVE dispatched[up'[q][k]] = 1
    BY <1>2, <1>3, <1>4, <2>1 DEF Events
  <2> QED
    BY <1>1, <1>2, <2>1 DEF Events
<1>11. ASSUME NEW q \in Peers PROVE Peer(q)'
  <2>1. CASE q = p
    <3>1. PeerOK(QueueOf(p), down[p], open[p], dispatched, Live(p))
      BY Facts
    <3>2. PeerOK(QueueOf(p), <<>>, open[p], dispatched, FALSE)
      BY <3>1, ConnectionLost
    <3>3. Live(p)' = FALSE
      BY <1>4 DEF Live
    <3> QED
      BY <1>1, <1>4, <1>8, <2>1, <3>2, <3>3 DEF Peer
  <2>2. CASE q # p
    BY <1>1, <1>2, <1>4, <1>8, <2>2, PeerSame
  <2> QED
    BY <2>1, <2>2
<1> QED
  BY <1>5, <1>6, <1>7, <1>9, <1>10, <1>11 DEF IInv, Types

LEMMA ServerForgetsKeeps ==
  ASSUME IInv, NEW p \in Peers, ServerForgets(p)
  PROVE  IInv'
<1>1. /\ ~linked[p] /\ p \in DOMAIN queue /\ queue' = Without(queue, {p}) /\ owner' = Without(owner, DOMAIN queue[p])
      /\ UNCHANGED <<now, nextPayload, delivered, cancelled, open, refused, dispatched, linked, down, up>>
  BY DEF ServerForgets, clientVars
<1>2. Types /\ Owners /\ Links /\ Apart /\ Events
  BY DEF IInv
<1>3. /\ DOMAIN queue' = DOMAIN queue \ {p} /\ queue' = [q \in DOMAIN queue' |-> queue'[q]]
      /\ \A q \in DOMAIN queue' : queue'[q] = queue[q]
      /\ DOMAIN owner' = DOMAIN owner \ DOMAIN queue[p] /\ \A i \in DOMAIN owner' : owner'[i] = owner[i]
      /\ owner' = [i \in DOMAIN owner' |-> owner'[i]]
  BY <1>1 DEF Without
<1>4. Dwindles
  <2>1. IsTable(owner')
    BY <1>2, <1>3 DEF Types, QueueTypes, IsTable
  <2>2. ASSUME NEW q \in DOMAIN queue', NEW i \in DOMAIN queue'[q] PROVE Stays(queue[q][i], queue'[q][i])
    <3>1. queue'[q][i] = queue[q][i] /\ queue[q][i] \in Items
      BY <1>2, <1>3, <2>2 DEF Types, QueueTypes, ItemOK
    <3> QED
      BY <3>1 DEF Stays
  <2>3. ASSUME NEW i \in DOMAIN owner
        PROVE  i \in DOMAIN owner' <=> owner[i] \in DOMAIN queue' /\ i \in DOMAIN queue'[owner[i]]
    <3>1. owner[i] \in DOMAIN queue /\ i \in DOMAIN queue[owner[i]]
      BY <1>2 DEF Owners
    <3>2. i \in DOMAIN queue[p] => owner[i] = p
      BY <1>1, <1>2 DEF Owners
    <3>3. CASE owner[i] = p
      BY <1>3, <3>1, <3>3
    <3>4. CASE owner[i] # p
      BY <1>3, <3>1, <3>2, <3>4
    <3> QED
      BY <3>3, <3>4
  <2>4. \A q \in DOMAIN queue' : IsTable(queue'[q]) /\ DOMAIN queue'[q] \subseteq DOMAIN queue[q]
    BY <1>2, <1>3 DEF Types, QueueTypes
  <2> QED
    BY <1>1, <1>3, <2>1, <2>2, <2>3, <2>4 DEF Dwindles
<1>5. /\ QueueTypes' /\ Owners' /\ \A q \in Peers : DOMAIN QueueOf(q)' \subseteq DOMAIN QueueOf(q)
      /\ \A q \in Peers : PeerOK(QueueOf(q)', down[q], open[q], dispatched, Live(q))
  BY <1>4, DwindlesKeeps
<1>6. StreamTypes' /\ ClientTypes' /\ CountTypes'
  BY <1>1, <1>2, TypesSame DEF Types
<1>7. Links'
  BY <1>1, <1>2, <1>3 DEF Links
<1>8. Apart'
  <2>1. \A q \in Peers, i \in PayloadIds : Knows(q, i)' => Knows(q, i)
    BY <1>1, <1>5 DEF Knows
  <2> QED
    BY <1>1, <1>2, <2>1, ApartKept DEF Apart
<1>9. Events'
  BY <1>1, <1>2, <1>3 DEF Events
<1>10. \A q \in Peers : Peer(q)'
  BY <1>1, <1>5 DEF Peer, Live
<1> QED
  BY <1>2, <1>5, <1>6, <1>7, <1>8, <1>9, <1>10 DEF IInv, Types

LEMMA ClientForgetsKeeps ==
  ASSUME IInv, NEW p \in Peers, ClientForgets(p)
  PROVE  IInv'
<1>1. /\ ~linked[p] /\ open' = [open EXCEPT ![p] = Nothing] /\ refused' = [refused EXCEPT ![p] = FALSE]
      /\ UNCHANGED <<now, nextPayload, queue, owner, delivered, cancelled, dispatched, linked, down, up>>
  BY DEF ClientForgets, serverVars
<1>2. Types /\ Owners /\ Links /\ Apart /\ Events /\ \A q \in Peers : Peer(q)
  BY DEF IInv
<1>3. /\ open' = [q \in Peers |-> open'[q]] /\ open'[p] = Nothing
      /\ \A q \in Peers : q # p => open'[q] = open[q] /\ refused'[q] = refused[q]
  BY <1>1, <1>2 DEF Types, StreamTypes, ClientTypes
<1>4. DOMAIN Nothing = {} /\ HeldOK(Nothing)
  <2>1. DOMAIN Nothing = {} /\ IsTable(Nothing)
    BY DEF Nothing, IsTable
  <2>2. held(Nothing) = 0 /\ Cardinality({}) = 0 /\ 0 <= Limit /\ 0 <= MaxOpen
    BY HeldNothing, FS_EmptySet, PayloadAssumption
  <2> QED
    BY <2>1, <2>2 DEF HeldOK
<1>5. ClientTypes'
  <2>1. ASSUME NEW q \in Peers PROVE HeldOK(open'[q])
    BY <1>2, <1>3, <1>4 DEF Types, ClientTypes
  <2> QED
    BY <1>3, <2>1 DEF ClientTypes
<1>6. StreamTypes'
  BY <1>1, <1>2 DEF Types, StreamTypes
<1>7. QueueTypes' /\ CountTypes' /\ Owners' /\ Links'
  BY <1>1, <1>2, TypesSame DEF Types
<1>8. \A q \in Peers : QueueOf(q)' = QueueOf(q)
  BY <1>1 DEF QueueOf
<1>9. Apart'
  <2>1. ASSUME NEW q \in Peers, NEW i \in PayloadIds, Knows(q, i)' PROVE Knows(q, i)
    BY <1>1, <1>3, <1>4, <1>8, <2>1 DEF Knows
  <2> QED
    BY <1>1, <1>2, <2>1, ApartKept DEF Apart
<1>10. Events'
  BY <1>1, <1>2 DEF Events
<1>11. ASSUME NEW q \in Peers PROVE Peer(q)'
  <2>1. CASE q = p
    <3>1. PeerOK(QueueOf(p), down[p], open[p], dispatched, Live(p))
      BY Facts
    <3>2. PeerOK(QueueOf(p), <<>>, Nothing, dispatched, FALSE)
      BY <3>1, ConnectionLost
    <3>3. Live(p)' = FALSE /\ down'[p] = <<>>
      BY <1>1, <1>2 DEF Live, Links
    <3> QED
      BY <1>1, <1>3, <1>8, <2>1, <3>2, <3>3 DEF Peer
  <2>2. CASE q # p
    BY <1>1, <1>2, <1>3, <1>8, <2>2, PeerSame
  <2> QED
    BY <2>1, <2>2
<1> QED
  BY <1>2, <1>5, <1>6, <1>7, <1>9, <1>10, <1>11 DEF IInv, Types

\* The limits of the client hold when a part goes, and when one grows by what is not malformed.
LEMMA OpenFinite ==
  ASSUME NEW o, IsTable(o)
  PROVE  IsFiniteSet(DOMAIN o) /\ Cardinality(DOMAIN o) \in Nat /\ Cardinality(DOMAIN o) <= MaxPayloads
<1>1. DOMAIN o \subseteq PayloadIds
  BY DEF IsTable
<1>2. IsFiniteSet(DOMAIN o) /\ Cardinality(DOMAIN o) <= Cardinality(PayloadIds)
  BY <1>1, PayloadIdsFinite, FS_Subset
<1> QED
  BY <1>2, PayloadIdsFinite, FS_CardinalityType

LEMMA HeldIsNat ==
  ASSUME NEW o, IsTable(o), \A j \in DOMAIN o : o[j] \in Parts
  PROVE  held(o) \in Nat
<1> PICK v : v = [j \in DOMAIN o |-> o[j].got]
  OBVIOUS
<1>1. \A j \in DOMAIN o : v[j] = o[j].got /\ v[j] \in Nat
  BY DEF Parts
<1>2. IsFiniteSet(DOMAIN o)
  BY OpenFinite
<1>3. PICK g : Adds(g, v, DOMAIN o)
  BY <1>1, <1>2, SumExists
<1>4. held(o) = g[DOMAIN o]
  BY <1>1, <1>2, <1>3, HeldIsSum
<1> QED
  BY <1>3, <1>4 DEF Adds

LEMMA HeldWithout ==
  ASSUME NEW o, HeldOK(o), NEW i
  PROVE  HeldOK(Without(o, {i}))
<1> PICK next : next = Without(o, {i})
  OBVIOUS
<1>1. IsTable(o) /\ (\A j \in DOMAIN o : o[j] \in Parts) /\ held(o) <= Limit /\ Cardinality(DOMAIN o) <= MaxOpen
  BY DEF HeldOK
<1>2. IsFiniteSet(DOMAIN o) /\ Cardinality(DOMAIN o) \in Nat
  BY <1>1, OpenFinite
<1>3. DOMAIN next = DOMAIN o \ {i} /\ next = [j \in DOMAIN next |-> next[j]] /\ \A j \in DOMAIN next : next[j] = o[j]
  BY DEF Without
<1>4. IsTable(next) /\ \A j \in DOMAIN next : next[j] \in Parts
  BY <1>1, <1>3 DEF IsTable
<1>5. held(next) <= Limit
  <2>1. CASE i \in DOMAIN o
    <3>1. \A j \in DOMAIN o : o[j].got \in Nat
      BY <1>1 DEF Parts
    <3>2. /\ held(Without(o, {i})) \in Nat /\ held(o) \in Nat
          /\ held(o) = o[i].got + held(Without(o, {i}))
      BY <1>2, <2>1, <3>1, HeldRemoved
    <3>3. held(next) \in Nat /\ held(o) \in Nat /\ held(o) = o[i].got + held(next) /\ o[i].got \in Nat
      BY <2>1, <3>1, <3>2
    <3> QED
      BY <1>1, <3>3, PayloadAssumption
  <2>2. CASE i \notin DOMAIN o
    <3>1. next = o
      BY <1>1, <1>3, <2>2 DEF IsTable
    <3> QED
      BY <1>1, <3>1
  <2> QED
    BY <2>1, <2>2
<1>6. Cardinality(DOMAIN next) <= MaxOpen
  <2>1. DOMAIN next \subseteq DOMAIN o
    BY <1>3
  <2>2. Cardinality(DOMAIN next) <= Cardinality(DOMAIN o) /\ IsFiniteSet(DOMAIN next)
    BY <1>2, <2>1, FS_Subset
  <2>3. Cardinality(DOMAIN next) \in Nat
    BY <2>2, FS_CardinalityType
  <2> QED
    BY <1>1, <1>2, <2>2, <2>3, PayloadAssumption
<1> QED
  BY <1>4, <1>5, <1>6 DEF HeldOK

LEMMA HeldWith ==
  ASSUME NEW o, HeldOK(o), NEW m \in DataMessages, ~Malformed(o, m), Part(o, m) \in Parts,
         m.id \in DOMAIN o => o[m.id] = Part(o, m), m.id \notin DOMAIN o => m.kind = "begin",
         NEW next, next = With(o, m.id, [Part(o, m) EXCEPT !.got = @ + m.data])
  PROVE  HeldOK(next)
<1> PICK i : i = m.id
  OBVIOUS
<1> PICK part : part = Part(o, m)
  OBVIOUS
<1>1. IsTable(o) /\ (\A j \in DOMAIN o : o[j] \in Parts) /\ held(o) <= Limit /\ Cardinality(DOMAIN o) <= MaxOpen
  BY DEF HeldOK
<1>2. IsFiniteSet(DOMAIN o) /\ Cardinality(DOMAIN o) \in Nat
  BY <1>1, OpenFinite
<1>3. i \in PayloadIds /\ m.data \in Nat /\ part.got \in Nat
  BY DEF DataMessages, Parts
<1>4. [part EXCEPT !.got = @ + m.data] \in Parts /\ [part EXCEPT !.got = @ + m.data].got = part.got + m.data
  BY <1>3 DEF Parts
<1>5. /\ DOMAIN next = DOMAIN o \cup {i} /\ next[i] = [part EXCEPT !.got = @ + m.data]
      /\ \A j \in DOMAIN o : j # i => next[j] = o[j]
  BY DEF With
<1>6. IsTable(next) /\ \A j \in DOMAIN next : next[j] \in Parts
  <2>1. next = [j \in DOMAIN next |-> next[j]]
    BY DEF With
  <2> QED
    BY <1>1, <1>3, <1>4, <1>5, <2>1 DEF IsTable
<1>7. held(o) \in Nat /\ held(o) + m.data <= Limit
  <2>1. held(o) \in Nat
    BY <1>1, HeldIsNat
  <2>2. ~(held(o) + m.data > Limit)
    BY DEF Malformed
  <2> QED
    BY <1>3, <2>1, <2>2, PayloadAssumption
<1>8. IsFiniteSet(DOMAIN next)
  BY <1>6, OpenFinite
<1>9. held(next) = held(o) + m.data
  <2>1. \A j \in DOMAIN next : next[j].got \in Nat
    BY <1>6 DEF Parts
  <2> PICK rest : rest = held(Without(next, {i}))
    OBVIOUS
  <2>2. rest \in Nat /\ held(next) = part.got + m.data + rest
    <3>1. rest \in Nat /\ held(next) = next[i].got + rest
      BY <1>5, <1>8, <2>1, HeldRemoved
    <3>2. next[i].got = part.got + m.data
      BY <1>4, <1>5
    <3> QED
      BY <3>1, <3>2
  <2>3. CASE i \in DOMAIN o
    <3>1. \A j \in DOMAIN o : o[j].got \in Nat
      BY <1>1 DEF Parts
    <3>2. held(o) = o[i].got + held(Without(o, {i})) /\ o[i] = part
      BY <1>2, <2>3, <3>1, HeldRemoved
    <3>3. Without(next, {i}) = Without(o, {i})
      BY <1>5 DEF Without
    <3>4. held(o) = part.got + rest
      BY <3>2, <3>3
    <3> QED
      BY <1>3, <2>2, <3>4
  <2>4. CASE i \notin DOMAIN o
    <3>1. Without(next, {i}) = o
      <4>1. DOMAIN next \ {i} = DOMAIN o
        BY <1>5, <2>4
      <4>2. Without(next, {i}) = [j \in DOMAIN o |-> o[j]]
        BY <1>5, <2>4, <4>1 DEF Without
      <4> QED
        BY <1>1, <4>2 DEF IsTable
    <3>2. part.got = 0
      BY <2>4 DEF Part
    <3>3. held(o) = rest
      BY <3>1
    <3> QED
      BY <1>3, <2>2, <3>2, <3>3
  <2> QED
    BY <2>3, <2>4
<1>10. Cardinality(DOMAIN next) <= MaxOpen
  <2>1. CASE i \in DOMAIN o
    <3>1. DOMAIN next = DOMAIN o
      BY <1>5, <2>1
    <3> QED
      BY <1>1, <3>1
  <2>2. CASE i \notin DOMAIN o
    <3>1. ~(Cardinality(DOMAIN o) >= MaxOpen)
      BY <2>2 DEF Malformed
    <3>2. Cardinality(DOMAIN o \cup {i}) = Cardinality(DOMAIN o) + 1
      BY <1>2, <2>2, FS_AddElement
    <3> QED
      BY <1>2, <1>5, <3>1, <3>2, PayloadAssumption
  <2> QED
    BY <2>1, <2>2
<1> QED
  BY <1>6, <1>7, <1>9, <1>10 DEF HeldOK

\* What it is to take a message, for everything but the client.
LEMMA ReceivesDoes ==
  ASSUME IInv, NEW p \in Peers, down[p] # <<>>, down' = [down EXCEPT ![p] = Tail(@)]
  PROVE  /\ linked[p] /\ down'[p] = Tail(down[p]) /\ \A q \in Peers : q # p => down'[q] = down[q]
         /\ down' \in [Peers -> Seq(Messages)] /\ \A q \in Peers : \A k \in DOMAIN down'[q] : MessageOK(down'[q][k])
         /\ \A q \in Peers : \A k \in DOMAIN down'[q] : \E j \in DOMAIN down[q] : down'[q][k] = down[q][j]
         /\ Head(down[p]) \in Messages /\ MessageOK(Head(down[p]))
         /\ \E j \in DOMAIN down[p] : down[p][j] = Head(down[p])
<1>1. StreamTypes /\ Links
  BY DEF IInv, Types
<1>2. linked[p]
  BY <1>1 DEF Links
<1>3. down'[p] = Tail(down[p]) /\ \A q \in Peers : q # p => down'[q] = down[q]
  BY <1>1 DEF StreamTypes
<1>4. down[p] \in Seq(Messages)
  BY <1>1 DEF StreamTypes
<1>5. /\ Tail(down[p]) \in Seq(Messages) /\ Head(down[p]) \in Messages /\ 1 \in DOMAIN down[p] /\ down[p][1] = Head(down[p])
      /\ \A k \in DOMAIN Tail(down[p]) : k + 1 \in DOMAIN down[p] /\ Tail(down[p])[k] = down[p][k + 1]
  BY <1>4, HeadTail
<1>6. \A k \in DOMAIN Tail(down[p]) : \E j \in DOMAIN down[p] : Tail(down[p])[k] = down[p][j]
  BY <1>5
<1>7. ASSUME NEW q \in Peers, NEW k \in DOMAIN down'[q] PROVE \E j \in DOMAIN down[q] : down'[q][k] = down[q][j]
  <2>1. CASE q = p
    BY <1>3, <1>6, <1>7, <2>1
  <2>2. CASE q # p
    BY <1>3, <1>7, <2>2
  <2> QED
    BY <2>1, <2>2
<1>8. down' \in [Peers -> Seq(Messages)]
  BY <1>1, <1>5 DEF StreamTypes
<1>9. (\A q \in Peers : \A k \in DOMAIN down'[q] : MessageOK(down'[q][k])) /\ MessageOK(Head(down[p]))
  BY <1>1, <1>5, <1>7 DEF StreamTypes
<1> QED
  BY <1>2, <1>3, <1>5, <1>7, <1>8, <1>9

\* All of the invariant that is not about what client p has open or how often its handler ran.
LEMMA ReceivesFrame ==
  ASSUME IInv, NEW p \in Peers, down[p] # <<>>, down' = [down EXCEPT ![p] = Tail(@)],
         UNCHANGED <<now, nextPayload, queue, owner, delivered, cancelled, linked>>,
         refused' \in [Peers -> BOOLEAN], up' \in [Peers -> Seq(PayloadIds)],
         \A q \in Peers : q # p => up'[q] = up[q] /\ refused'[q] = refused[q],
         \A q \in Peers : DOMAIN open'[q] \subseteq DOMAIN open[q] \/ (q = p /\ DOMAIN open'[q] \subseteq DOMAIN open[q] \cup {Head(down[p]).id}),
         \A i \in PayloadIds : dispatched'[i] = dispatched[i] \/ i = Head(down[p]).id
  PROVE  /\ QueueTypes' /\ StreamTypes' /\ Owners' /\ Links' /\ Apart'
         /\ \A q \in Peers : QueueOf(q)' = QueueOf(q)
<1>1. Types /\ Owners /\ Links /\ Apart /\ Events
  BY DEF IInv
<1>2. /\ linked[p] /\ down'[p] = Tail(down[p]) /\ \A q \in Peers : q # p => down'[q] = down[q]
      /\ down' \in [Peers -> Seq(Messages)] /\ \A q \in Peers : \A k \in DOMAIN down'[q] : MessageOK(down'[q][k])
      /\ \A q \in Peers : \A k \in DOMAIN down'[q] : \E j \in DOMAIN down[q] : down'[q][k] = down[q][j]
      /\ \E j \in DOMAIN down[p] : down[p][j] = Head(down[p])
  BY ReceivesDoes
<1>3. QueueTypes' /\ Owners'
  BY <1>1, TypesSame DEF Types
<1>4. StreamTypes'
  BY <1>1, <1>2 DEF Types, StreamTypes
<1>5. Links'
  BY <1>1, <1>2 DEF Links
<1>6. \A q \in Peers : QueueOf(q)' = QueueOf(q)
  BY DEF QueueOf
<1>7. Apart'
  <2>1. \A i : i = Head(down[p]).id => Knows(p, i)
    BY <1>2 DEF Knows
  <2>2. ASSUME NEW q \in Peers, NEW i \in PayloadIds, Knows(q, i)' PROVE Knows(q, i)
    <3>1. CASE i \in DOMAIN open'[q]
      BY <2>1, <3>1 DEF Knows
    <3>2. CASE i \notin DOMAIN open'[q]
      BY <1>2, <1>6, <2>2, <3>2 DEF Knows
    <3> QED
      BY <3>1, <3>2
  <2>3. ASSUME NEW i \in PayloadIds, i > nextPayload
        PROVE  dispatched'[i] = 0 /\ delivered'[i] = 0 /\ i \notin cancelled'
    <3>1. dispatched[i] = 0 /\ delivered[i] = 0 /\ i \notin cancelled /\ ~Knows(p, i)
      BY <1>1, <2>3 DEF Apart
    <3> QED
      BY <2>1, <3>1
  <2> QED
    BY <1>1, <2>2, <2>3, ApartKept
<1> QED
  BY <1>3, <1>4, <1>5, <1>6, <1>7

\* The client makes nothing of the message: it has refused one before, or does now.
LEMMA NothingKeeps ==
  ASSUME IInv, NEW p \in Peers, down[p] # <<>>, down' = [down EXCEPT ![p] = Tail(@)], refused' = [refused EXCEPT ![p] = TRUE],
         UNCHANGED <<now, nextPayload, queue, owner, delivered, cancelled, linked, open, dispatched, up>>
  PROVE  IInv'
<1>1. Types /\ Events /\ \A q \in Peers : Peer(q)
  BY DEF IInv
<1>2. refused' \in [Peers -> BOOLEAN] /\ refused'[p] = TRUE /\ \A q \in Peers : q # p => refused'[q] = refused[q]
  BY <1>1 DEF Types, StreamTypes
<1>3. up' \in [Peers -> Seq(PayloadIds)]
  BY <1>1 DEF Types, StreamTypes
<1>4. /\ QueueTypes' /\ StreamTypes' /\ Owners' /\ Links' /\ Apart'
      /\ \A q \in Peers : QueueOf(q)' = QueueOf(q)
  BY <1>2, <1>3, ReceivesFrame
<1>5. ClientTypes' /\ CountTypes'
  BY <1>1, TypesSame DEF Types
<1>6. Events'
  BY <1>1 DEF Events
<1>7. down'[p] = Tail(down[p]) /\ \A q \in Peers : q # p => down'[q] = down[q]
  BY ReceivesDoes
<1>8. ASSUME NEW q \in Peers PROVE Peer(q)'
  <2>1. CASE q = p
    <3>1. PeerOK(QueueOf(p), down[p], open[p], dispatched, Live(p)) /\ down[p] \in Seq(Messages)
      BY Facts
    <3>2. PeerOK(QueueOf(p), Tail(down[p]), open[p], dispatched, FALSE)
      BY <3>1, TailKeeps
    <3>3. Live(p)' = FALSE
      BY <1>2 DEF Live
    <3> QED
      BY <1>4, <1>7, <2>1, <3>2, <3>3 DEF Peer
  <2>2. CASE q # p
    BY <1>1, <1>2, <1>4, <1>7, <2>2, PeerSame
  <2> QED
    BY <2>1, <2>2
<1> QED
  BY <1>4, <1>5, <1>6, <1>8 DEF IInv, Types

\* A part grows.
LEMMA PartKeeps ==
  ASSUME IInv, NEW p \in Peers, down[p] # <<>>, down' = [down EXCEPT ![p] = Tail(@)], ~refused[p],
         NEW m, m = Head(down[p]), m.kind # "cancel", ~Malformed(open[p], m),
         open' = [open EXCEPT ![p] = With(open[p], m.id, [Part(open[p], m) EXCEPT !.got = @ + m.data])],
         UNCHANGED <<now, nextPayload, queue, owner, delivered, cancelled, linked, refused, dispatched, up>>
  PROVE  IInv'
<1> PICK o : o = open[p]
  OBVIOUS
<1> PICK next : next = With(o, m.id, [Part(o, m) EXCEPT !.got = @ + m.data])
  OBVIOUS
<1>1. Types /\ Events /\ \A q \in Peers : Peer(q)
  BY DEF IInv
<1>2. /\ linked[p] /\ down'[p] = Tail(down[p]) /\ \A q \in Peers : q # p => down'[q] = down[q]
      /\ MessageOK(m)
  BY ReceivesDoes
<1>3. Live(p) = TRUE /\ Live(p)' = TRUE
  BY <1>2 DEF Live
<1>4. /\ open' = [q \in Peers |-> open'[q]] /\ open'[p] = next /\ \A q \in Peers : q # p => open'[q] = open[q]
  <2>1. open' = [open EXCEPT ![p] = next]
    BY Zenon
  <2>2. open = [q \in Peers |-> open[q]]
    BY <1>1 DEF Types, ClientTypes
  <2> QED
    BY ONLY p \in Peers, <2>1, <2>2
<1>5. /\ down[p] \in Seq(Messages) /\ IsTable(o) /\ (\A j \in DOMAIN o : o[j] \in Parts) /\ HeldOK(o)
      /\ PeerOK(QueueOf(p), down[p], o, dispatched, TRUE)
  BY <1>3, Facts
<1>6. PeerOK(QueueOf(p), Tail(down[p]), next, dispatched, TRUE)
  BY <1>2, <1>5, PartTaken
<1>7. /\ m \in DataMessages /\ Part(o, m) \in Parts
      /\ m.id \in DOMAIN o => o[m.id] = Part(o, m)
      /\ m.id \notin DOMAIN o => m.kind = "begin"
  BY <1>2, <1>5, HeadIs
<1>8. HeldOK(next)
  BY <1>5, <1>7, HeldWith
<1>9. ClientTypes'
  <2>1. \A q \in Peers : HeldOK(open'[q])
    BY <1>1, <1>4, <1>8 DEF Types, ClientTypes
  <2> QED
    BY <1>4, <2>1 DEF ClientTypes
<1>10. /\ QueueTypes' /\ StreamTypes' /\ Owners' /\ Links' /\ Apart'
       /\ \A q \in Peers : QueueOf(q)' = QueueOf(q)
  <2>1. refused' \in [Peers -> BOOLEAN] /\ up' \in [Peers -> Seq(PayloadIds)]
    BY <1>1 DEF Types, StreamTypes
  <2>2. DOMAIN next = DOMAIN o \cup {m.id}
    BY DEF With
  <2>3. \A q \in Peers : DOMAIN open'[q] \subseteq DOMAIN open[q] \/ (q = p /\ DOMAIN open'[q] \subseteq DOMAIN open[q] \cup {Head(down[p]).id})
    BY <1>4, <2>2
  <2> QED
    BY <2>1, <2>3, ReceivesFrame
<1>11. CountTypes'
  BY <1>1, TypesSame DEF Types
<1>12. Events'
  BY <1>1 DEF Events
<1>13. ASSUME NEW q \in Peers PROVE Peer(q)'
  <2>1. CASE q = p
    BY <1>2, <1>3, <1>4, <1>6, <1>10, <2>1 DEF Peer
  <2>2. CASE q # p
    BY <1>1, <1>2, <1>4, <1>10, <2>2, PeerSame
  <2> QED
    BY <2>1, <2>2
<1> QED
  BY <1>9, <1>10, <1>11, <1>12, <1>13 DEF IInv, Types

\* A payload is cancelled.
LEMMA CancelKeeps ==
  ASSUME IInv, NEW p \in Peers, down[p] # <<>>, down' = [down EXCEPT ![p] = Tail(@)], ~refused[p],
         NEW m, m = Head(down[p]), m.kind = "cancel", open' = [open EXCEPT ![p] = Without(@, {m.id})],
         UNCHANGED <<now, nextPayload, queue, owner, delivered, cancelled, linked, refused, dispatched, up>>
  PROVE  IInv'
<1> PICK next : next = Without(open[p], {m.id})
  OBVIOUS
<1>1. Types /\ Events /\ \A q \in Peers : Peer(q)
  BY DEF IInv
<1>2. /\ linked[p] /\ down'[p] = Tail(down[p]) /\ \A q \in Peers : q # p => down'[q] = down[q]
  BY ReceivesDoes
<1>3. Live(p) = TRUE /\ Live(p)' = TRUE
  BY <1>2 DEF Live
<1>4. /\ open' = [q \in Peers |-> open'[q]] /\ open'[p] = next /\ \A q \in Peers : q # p => open'[q] = open[q]
  BY <1>1 DEF Types, ClientTypes
<1>5. down[p] \in Seq(Messages) /\ HeldOK(open[p]) /\ PeerOK(QueueOf(p), down[p], open[p], dispatched, TRUE)
  BY <1>3, Facts
<1>6. PeerOK(QueueOf(p), Tail(down[p]), next, dispatched, TRUE)
  BY <1>5, CancelTaken
<1>7. HeldOK(next)
  BY <1>5, HeldWithout
<1>8. ClientTypes'
  <2>1. \A q \in Peers : HeldOK(open'[q])
    BY <1>1, <1>4, <1>7 DEF Types, ClientTypes
  <2> QED
    BY <1>4, <2>1 DEF ClientTypes
<1>9. /\ QueueTypes' /\ StreamTypes' /\ Owners' /\ Links' /\ Apart'
      /\ \A q \in Peers : QueueOf(q)' = QueueOf(q)
  <2>1. refused' \in [Peers -> BOOLEAN] /\ up' \in [Peers -> Seq(PayloadIds)]
    BY <1>1 DEF Types, StreamTypes
  <2>2. \A q \in Peers : DOMAIN open'[q] \subseteq DOMAIN open[q]
    BY <1>4 DEF Without
  <2> QED
    BY <2>1, <2>2, ReceivesFrame
<1>10. CountTypes'
  BY <1>1, TypesSame DEF Types
<1>11. Events'
  BY <1>1 DEF Events
<1>12. ASSUME NEW q \in Peers PROVE Peer(q)'
  <2>1. CASE q = p
    BY <1>2, <1>3, <1>4, <1>6, <1>9, <2>1 DEF Peer
  <2>2. CASE q # p
    BY <1>1, <1>2, <1>4, <1>9, <2>2, PeerSame
  <2> QED
    BY <2>1, <2>2
<1> QED
  BY <1>8, <1>9, <1>10, <1>11, <1>12 DEF IInv, Types

\* A payload is whole.
LEMMA WholeKeeps ==
  ASSUME IInv, NEW p \in Peers, down[p] # <<>>, down' = [down EXCEPT ![p] = Tail(@)], ~refused[p],
         NEW m, m = Head(down[p]), m.kind # "cancel", ~Malformed(open[p], m), Whole(open[p], m),
         open' = [open EXCEPT ![p] = Without(@, {m.id})], dispatched' = [dispatched EXCEPT ![m.id] = @ + 1],
         up' = [up EXCEPT ![p] = Append(@, m.id)] \/ up' = up,
         UNCHANGED <<now, nextPayload, queue, owner, delivered, cancelled, linked, refused>>
  PROVE  IInv'
<1> PICK i : i = m.id
  OBVIOUS
<1> PICK o : o = open[p]
  OBVIOUS
<1> PICK next : next = Without(o, {i})
  OBVIOUS
<1>1. Types /\ Apart /\ Events /\ \A q \in Peers : Peer(q)
  BY DEF IInv
<1>2. /\ linked[p] /\ down'[p] = Tail(down[p]) /\ \A q \in Peers : q # p => down'[q] = down[q]
      /\ m \in Messages /\ \E j \in DOMAIN down[p] : down[p][j] = m
  BY ReceivesDoes
<1>3. i \in PayloadIds
  BY <1>2 DEF Messages, DataMessages, CancelMessages
<1>4. Live(p) = TRUE /\ Live(p)' = TRUE
  BY <1>2 DEF Live
<1>5. /\ open' = [q \in Peers |-> open'[q]] /\ open'[p] = next /\ \A q \in Peers : q # p => open'[q] = open[q]
  <2>1. open' = [open EXCEPT ![p] = next]
    OBVIOUS
  <2>2. open = [q \in Peers |-> open[q]]
    BY <1>1 DEF Types, ClientTypes
  <2> QED
    BY ONLY p \in Peers, <2>1, <2>2
<1>6. /\ down[p] \in Seq(Messages) /\ IsTable(o) /\ (\A j \in DOMAIN o : o[j] \in Parts) /\ HeldOK(o)
      /\ IsTable(QueueOf(p)) /\ (\A j \in DOMAIN QueueOf(p) : ItemOK(QueueOf(p)[j]))
      /\ (\A k \in DOMAIN down[p] : MessageOK(down[p][k]))
      /\ PeerOK(QueueOf(p), down[p], o, dispatched, TRUE)
  BY <1>4, Facts
<1>7. dispatched \in [PayloadIds -> Nat]
  BY <1>1 DEF Types, CountTypes
<1> PICK have : have = dispatched'
  OBVIOUS
<1>8. have = [dispatched EXCEPT ![i] = @ + 1]
  OBVIOUS
<1>9. PeerOK(QueueOf(p), Tail(down[p]), next, have, TRUE) /\ dispatched[i] = 0 /\ have[i] = 1
  <2> PICK s : s = down[p]
    OBVIOUS
  <2> PICK items : items = QueueOf(p)
    OBVIOUS
  <2>1. /\ s # <<>> /\ Head(s).kind # "cancel" /\ ~Malformed(o, Head(s)) /\ Whole(o, Head(s))
        /\ next = Without(o, {Head(s).id})
    OBVIOUS
  <2>2. have = [dispatched EXCEPT ![Head(s).id] = @ + 1]
    BY <1>8
  <2>3. /\ s \in Seq(Messages) /\ PeerOK(items, s, o, dispatched, TRUE) /\ IsTable(items)
        /\ (\A j \in DOMAIN items : ItemOK(items[j])) /\ (\A k \in DOMAIN s : MessageOK(s[k]))
        /\ IsTable(o) /\ \A j \in DOMAIN o : o[j] \in Parts
    BY <1>6
  <2>4. /\ PeerOK(items, Tail(s), next, have, TRUE)
        /\ dispatched[Head(s).id] = 0 /\ have[Head(s).id] = 1
    BY ONLY <1>7, <2>1, <2>2, <2>3, WholeTaken, Zenon
  <2> QED
    BY <2>4
<1>10. have \in [PayloadIds -> Nat] /\ \A j \in PayloadIds : j # i => have[j] = dispatched[j]
  <2>1. dispatched[i] + 1 \in Nat
    BY <1>3, <1>7
  <2> QED
    BY ONLY <1>7, <1>8, <2>1
<1>11. HeldOK(next)
  BY <1>6, HeldWithout
<1>12. ClientTypes'
  <2>1. \A q \in Peers : HeldOK(open'[q])
    BY <1>1, <1>5, <1>11 DEF Types, ClientTypes
  <2> QED
    BY <1>5, <2>1 DEF ClientTypes
<1>13. /\ up' \in [Peers -> Seq(PayloadIds)] /\ \A q \in Peers : q # p => up'[q] = up[q]
       /\ \A q \in Peers : \A k \in DOMAIN up'[q] : (k \in DOMAIN up[q] /\ up'[q][k] = up[q][k]) \/ up'[q][k] = i
  <2>1. up \in [Peers -> Seq(PayloadIds)]
    BY <1>1 DEF Types, StreamTypes
  <2>2. CASE up' = [up EXCEPT ![p] = Append(@, i)]
    <3>1. up'[p] = Append(up[p], i) /\ \A q \in Peers : q # p => up'[q] = up[q]
      BY <2>1, <2>2
    <3> PICK u : u = up[p]
      OBVIOUS
    <3>2. u \in Seq(PayloadIds)
      BY <2>1
    <3>3. /\ Append(u, i) \in Seq(PayloadIds)
          /\ \A k \in DOMAIN Append(u, i) : (k \in DOMAIN u /\ Append(u, i)[k] = u[k]) \/ Append(u, i)[k] = i
      BY <1>3, <3>2
    <3>4. up' \in [Peers -> Seq(PayloadIds)]
      BY <2>1, <2>2, <3>3
    <3>5. ASSUME NEW q \in Peers, NEW k \in DOMAIN up'[q]
          PROVE  (k \in DOMAIN up[q] /\ up'[q][k] = up[q][k]) \/ up'[q][k] = i
      BY <3>1, <3>3, <3>5
    <3> QED
      BY <3>1, <3>4, <3>5
  <2>3. CASE up' = up
    BY <2>1, <2>3
  <2> QED
    BY <2>2, <2>3
<1>14. /\ QueueTypes' /\ StreamTypes' /\ Owners' /\ Links' /\ Apart'
       /\ \A q \in Peers : QueueOf(q)' = QueueOf(q)
  <2>1. refused' \in [Peers -> BOOLEAN]
    BY <1>1 DEF Types, StreamTypes
  <2>2. \A q \in Peers : DOMAIN open'[q] \subseteq DOMAIN open[q]
    BY <1>5 DEF Without
  <2>3. \A j \in PayloadIds : dispatched'[j] = dispatched[j] \/ j = Head(down[p]).id
    BY <1>10
  <2> QED
    BY <1>13, <2>1, <2>2, <2>3, ReceivesFrame
<1>15. CountTypes'
  BY <1>1, <1>10 DEF Types, CountTypes
<1>16. Events'
  <2>1. ASSUME NEW j \in PayloadIds PROVE delivered[j] <= have[j] /\ have[j] <= 1
    <3>1. delivered[j] <= dispatched[j] /\ dispatched[j] <= 1 /\ delivered[j] \in Nat
      BY <1>1 DEF Events, Types, CountTypes
    <3>2. CASE j = i
      BY <1>9, <3>1, <3>2
    <3>3. CASE j # i
      BY <1>10, <3>1, <3>3
    <3> QED
      BY <3>2, <3>3
  <2>2. ASSUME NEW q \in Peers, NEW k \in DOMAIN up'[q] PROVE have[up'[q][k]] = 1
    <3>1. CASE up'[q][k] = i
      BY <1>9, <3>1
    <3>2. CASE up'[q][k] # i
      <4>1. k \in DOMAIN up[q] /\ up'[q][k] = up[q][k] /\ up[q][k] \in PayloadIds
        <5>1. k \in DOMAIN up[q] /\ up'[q][k] = up[q][k]
          BY <1>13, <2>2, <3>2
        <5>2. up[q] \in Seq(PayloadIds)
          BY Facts
        <5> QED
          BY <5>1, <5>2
      <4>2. dispatched[up[q][k]] = 1
        BY <1>1, <4>1 DEF Events
      <4> QED
        BY <1>10, <3>2, <4>1, <4>2
    <3> QED
      BY <3>1, <3>2
  <2> QED
    BY <1>1, <2>1, <2>2 DEF Events
<1>17. ASSUME NEW q \in Peers PROVE Peer(q)'
  <2>1. CASE q = p
    BY <1>2, <1>4, <1>5, <1>9, <1>14, <2>1 DEF Peer
  <2>2. CASE q # p
    <3>1. ~Knows(q, i)
      <4>1. Knows(p, i)
        BY <1>2 DEF Knows
      <4> QED
        BY <1>1, <1>3, <2>2, <4>1 DEF Apart
    <3>2. i \notin DOMAIN QueueOf(q) /\ i \notin DOMAIN open[q] /\ \A k \in DOMAIN down[q] : down[q][k].id # i
      BY <3>1 DEF Knows
    <3>3. IsTable(QueueOf(q)) /\ IsTable(open[q]) /\ PeerOK(QueueOf(q), down[q], open[q], dispatched, Live(q))
      BY Facts
    <3>4. PeerOK(QueueOf(q), down[q], open[q], have, Live(q))
      BY ZenonT(40), <1>3, <1>10, <3>2, <3>3, HadElsewhere
    <3>5. Live(q)' = Live(q)
      BY DEF Live
    <3> QED
      BY <1>2, <1>5, <1>14, <2>2, <3>4, <3>5 DEF Peer
  <2> QED
    BY <2>1, <2>2
<1> QED
  BY <1>12, <1>14, <1>15, <1>16, <1>17 DEF IInv, Types

LEMMA ClientReceivesKeeps ==
  ASSUME IInv, NEW p \in Peers, ClientReceives(p)
  PROVE  IInv'
<1> PICK m : m = Head(down[p])
  OBVIOUS
<1>1. /\ down[p] # <<>> /\ down' = [down EXCEPT ![p] = Tail(@)]
      /\ UNCHANGED <<now, nextPayload, queue, owner, delivered, cancelled, linked>>
      /\ \/ refused[p] /\ UNCHANGED <<clientVars, up>>
         \/ ~refused[p] /\ m.kind # "cancel" /\ ReceiveBytes(p, m)
         \/ ~refused[p] /\ m.kind = "cancel" /\ ReceiveCancel(p, m.id)
  BY DEF ClientReceives, serverVars
<1>2. CASE refused[p] /\ UNCHANGED <<clientVars, up>>
  <2>1. refused' = [refused EXCEPT ![p] = TRUE] /\ UNCHANGED <<open, dispatched, up>>
    BY <1>2 DEF clientVars, IInv, Types, StreamTypes
  <2> QED
    BY <1>1, <2>1, NothingKeeps
<1>3. CASE ~refused[p] /\ m.kind # "cancel" /\ ReceiveBytes(p, m)
  <2>1. CASE refused' = [refused EXCEPT ![p] = TRUE] /\ UNCHANGED <<open, dispatched, up>>
    BY <1>1, <2>1, NothingKeeps
  <2>2. CASE /\ ~Malformed(open[p], m)
             /\ open' = [open EXCEPT ![p] = With(open[p], m.id, [Part(open[p], m) EXCEPT !.got = @ + m.data])]
             /\ UNCHANGED <<refused, dispatched, up>>
    BY <1>1, <1>3, <2>2, PartKeeps
  <2>3. CASE /\ ~Malformed(open[p], m) /\ Whole(open[p], m)
             /\ open' = [open EXCEPT ![p] = Without(@, {m.id})]
             /\ dispatched' = [dispatched EXCEPT ![m.id] = @ + 1]
             /\ up' = [up EXCEPT ![p] = Append(@, m.id)] \/ up' = up
             /\ UNCHANGED refused
    BY <1>1, <1>3, <2>3, WholeKeeps
  <2> QED
    BY <1>3, <2>1, <2>2, <2>3 DEF ReceiveBytes
<1>4. CASE ~refused[p] /\ m.kind = "cancel" /\ ReceiveCancel(p, m.id)
  BY <1>1, <1>4, CancelKeeps DEF ReceiveCancel
<1> QED
  BY <1>1, <1>2, <1>3, <1>4

\* The invariant holds in every reachable state.
THEOREM Invariance == Spec => []IInv
<1>1. ASSUME IInv, [Next]_vars PROVE IInv'
  <2>1. CASE UNCHANGED vars
    <3>1. UNCHANGED <<now, nextPayload, queue, owner, delivered, cancelled, open, refused, dispatched, linked, down, up>>
      BY <2>1 DEF vars, serverVars, clientVars
    <3>2. Types' /\ Owners' /\ Links'
      BY <1>1, <3>1, TypesSame DEF IInv, Types
    <3>3. \A p \in Peers : QueueOf(p)' = QueueOf(p)
      BY <3>1 DEF QueueOf
    <3>4. Apart'
      <4>1. \A p \in Peers, i \in PayloadIds : Knows(p, i)' => Knows(p, i)
        BY <3>1, <3>3 DEF Knows
      <4> QED
        BY <1>1, <3>1, <4>1, ApartKept DEF IInv, Apart
    <3>5. Events'
      BY <1>1, <3>1 DEF IInv, Events
    <3>6. \A p \in Peers : Peer(p)'
      BY <1>1, <3>1, <3>3, PeerSame DEF IInv
    <3> QED
      BY <3>2, <3>4, <3>5, <3>6 DEF IInv
  <2>2. ASSUME NEW p \in Peers, NEW size \in Sizes, NEW prio \in Prios, SendPayload(p, size, prio) PROVE IInv'
    BY <1>1, <2>2, SendPayloadKeeps
  <2>3. ASSUME NEW id \in PayloadIds, CancelPayload(id) PROVE IInv'
    BY <1>1, <2>3, CancelPayloadKeeps
  <2>4. ASSUME NEW id \in PayloadIds, NEW prio \in Prios, SetPayloadPriority(id, prio) PROVE IInv'
    BY <1>1, <2>4, SetPayloadPriorityKeeps
  <2>5. ASSUME NEW n \in [Peers -> 0 .. MaxSends], Send(n) PROVE IInv'
    BY <1>1, <2>5, SendKeeps
  <2>6. ASSUME NEW p \in Peers, ReceiveAck(p) PROVE IInv'
    BY <1>1, <2>6, ReceiveAckKeeps
  <2>7. ASSUME NEW p \in Peers, ClientReceives(p) PROVE IInv'
    BY <1>1, <2>7, ClientReceivesKeeps
  <2>8. ASSUME NEW p \in Peers, LinkDrops(p) PROVE IInv'
    BY <1>1, <2>8, LinkDropsKeeps
  <2>9. ASSUME NEW p \in Peers, ServerForgets(p) PROVE IInv'
    BY <1>1, <2>9, ServerForgetsKeeps
  <2>10. ASSUME NEW p \in Peers, ClientForgets(p) PROVE IInv'
    BY <1>1, <2>10, ClientForgetsKeeps
  <2> QED
    BY <1>1, <2>1, <2>2, <2>3, <2>4, <2>5, <2>6, <2>7, <2>8, <2>9, <2>10 DEF Next
<1> QED
  BY InitIInv, <1>1, PTL DEF Spec

--------------------------------------------------------------------------------
(* What the payloads are promised.                                              *)

LEMMA TypesFollow ==
  ASSUME IInv
  PROVE  TypeOK
<1>1. ASSUME NEW p \in DOMAIN queue, NEW i \in DOMAIN queue[p]
      PROVE  LET item == queue[p][i] IN
             /\ item.size \in Sizes /\ item.sent \in 0 .. item.size /\ item.queued \in 1 .. now
             /\ item.awaiting = (item.started /\ item.sent = item.size)
  <2> PICK item : item = queue[p][i]
    OBVIOUS
  <2>1. ItemOK(item)
    BY <1>1 DEF IInv, Types, QueueTypes
  <2>2. item.size \in Sizes /\ item.sent \in Nat /\ item.sent <= item.size /\ item.size \in Nat
    BY <2>1, PayloadAssumption DEF ItemOK, Items
  <2>3. item.sent \in 0 .. item.size
    BY <2>2
  <2> QED
    BY <2>1, <2>2, <2>3 DEF ItemOK
<1>2. \A p \in Peers : held(open[p]) <= Limit /\ Cardinality(DOMAIN open[p]) <= MaxOpen
  BY DEF IInv, Types, ClientTypes, HeldOK
<1>3. DOMAIN dispatched = PayloadIds /\ DOMAIN delivered = PayloadIds /\ cancelled \subseteq PayloadIds
  BY DEF IInv, Types, CountTypes
<1>4. now \in 1 .. MaxTick /\ nextPayload \in 0 .. MaxPayloads /\ DOMAIN queue \subseteq Peers
  BY DEF IInv, Types, QueueTypes
<1> QED
  BY <1>1, <1>2, <1>3, <1>4 DEF TypeOK

\* Every variable keeps its type; an item waits for its acknowledgement exactly when it was sent whole,
\* and the client stays under its limits (PayloadQueue, PayloadAssembler).
THEOREM TypeCorrect == Spec => []TypeOK
<1>1. IInv => TypeOK
  BY TypesFollow
<1> QED
  BY <1>1, Invariance, PTL

\* payload_owner names every queued payload and no other, so that a cancel or a new priority finds it
\* in the queue of its peer (cancel_payload, receive_payload_ack, forget_peer).
THEOREM OwnersAreQueues == Spec => []OwnersMatch
<1>1. IInv => OwnersMatch
  <2> SUFFICES ASSUME IInv PROVE OwnersMatch
    OBVIOUS
  <2>1. TypeOK /\ Owners
    BY TypesFollow DEF IInv
  <2> QED
    BY <2>1 DEF OwnersMatch, Owners
<1> QED
  BY <1>1, Invariance, PTL

\* "no event follows" a cancel (Net.md), the handler runs once for a payload and the event comes once,
\* after it: receive_payload_message, receive_payload_ack and cancel_payload.
THEOREM EventsHappened == Spec => []EventsAreTrue
<1>1. IInv => EventsAreTrue
  BY DEF IInv, Events, EventsAreTrue
<1> QED
  BY <1>1, Invariance, PTL

\* With room for every payload, what a client that still listens finds malformed is only too much.
LEMMA MalformedWhenFull ==
  ASSUME RoomForAll, IInv, NEW p \in Peers, down[p] # <<>>, ~refused[p],
         NEW m, m = Head(down[p]), m.kind # "cancel", Malformed(open[p], m)
  PROVE  held(open[p]) = Limit
<1> PICK o : o = open[p]
  OBVIOUS
<1> PICK s : s = down[p]
  OBVIOUS
<1> PICK i : i = m.id
  OBVIOUS
<1>1. Live(p) = TRUE
  BY DEF IInv, Links, Live
<1>2. /\ s \in Seq(Messages) /\ (\A k \in DOMAIN s : MessageOK(s[k]))
      /\ IsTable(o) /\ (\A j \in DOMAIN o : o[j] \in Parts) /\ HeldOK(o)
      /\ PeerOK(QueueOf(p), s, o, dispatched, TRUE)
  BY <1>1, Facts
<1>3. m \in Messages /\ 1 \in DOMAIN s /\ s[1] = m
  BY <1>2, HeadTail
<1>4. m \in DataMessages /\ MessageOK(m)
  BY <1>2, <1>3 DEF Messages, CancelMessages
<1>5. i \in PayloadIds /\ m.kind \in {"begin", "fragment"} /\ m.size \in Sizes /\ m.offset \in Nat /\ m.data \in {0, 1}
  BY <1>4 DEF DataMessages
<1>6. m.size \in Nat /\ m.size <= Limit /\ Limit \in Nat
  BY <1>5, PayloadAssumption DEF RoomForAll
<1>7. i \in DOMAIN o => m.kind = "fragment" /\ o[i].total = m.size
  BY <1>2, <1>3, <1>5 DEF PeerOK, OpenOK, IsData
<1>8. m.kind = "fragment" => i \in DOMAIN o /\ o[i].got = m.offset
  <2> SUFFICES ASSUME m.kind = "fragment" PROVE i \in DOMAIN o /\ o[i].got = m.offset
    OBVIOUS
  <2>1. \/ \E j \in DOMAIN s : j < 1 /\ IsData(s[j], s[1].id) /\ s[j].offset + s[j].data = s[1].offset
        \/ s[1].id \in DOMAIN o /\ o[s[1].id].got = s[1].offset
    BY <1>2, <1>3 DEF PeerOK, Follows
  <2>2. \A j \in DOMAIN s : ~(j < 1)
    <3>1. DOMAIN s = 1 .. Len(s) /\ Len(s) \in Nat
      BY <1>2
    <3> QED
      BY <3>1
  <2> QED
    BY <1>3, <2>1, <2>2
<1>9. i \notin DOMAIN o => Cardinality(DOMAIN o) < MaxOpen
  <2> SUFFICES ASSUME i \notin DOMAIN o PROVE Cardinality(DOMAIN o) < MaxOpen
    OBVIOUS
  <2>1. IsFiniteSet(DOMAIN o) /\ Cardinality(DOMAIN o) \in Nat
    BY <1>2, OpenFinite
  <2>2. Cardinality(DOMAIN o \cup {i}) = Cardinality(DOMAIN o) + 1
    BY <2>1, FS_AddElement
  <2>3. DOMAIN o \cup {i} \subseteq PayloadIds
    BY <1>2, <1>5 DEF IsTable
  <2>4. Cardinality(DOMAIN o \cup {i}) <= MaxPayloads
    BY <2>3, PayloadIdsFinite, FS_Subset
  <2>5. MaxPayloads <= MaxOpen /\ MaxPayloads \in Nat /\ MaxOpen \in Nat
    BY PayloadAssumption DEF RoomForAll
  <2> QED
    BY <2>1, <2>2, <2>4, <2>5
<1>10. Part(o, m).total = m.size /\ Part(o, m).got = m.offset
  <2>1. CASE m.kind = "begin"
    BY <1>4, <2>1 DEF Part, MessageOK
  <2>2. CASE m.kind = "fragment"
    BY <1>7, <1>8, <2>2 DEF Part
  <2> QED
    BY <1>5, <2>1, <2>2
<1>11. ~(m.data > Part(o, m).total - Part(o, m).got)
  <2>1. m.offset + m.data <= m.size
    BY <1>4 DEF MessageOK
  <2> QED
    BY <1>5, <1>6, <1>10, <2>1
<1>12. held(o) \in Nat /\ held(o) <= Limit
  BY <1>2, HeldIsNat DEF HeldOK
<1>13. held(o) + m.data > Limit
  <2>1. ~(m.kind = "begin" /\ (m.size > Limit \/ m.id \in DOMAIN o \/ Cardinality(DOMAIN o) >= MaxOpen))
    <3>1. Cardinality(DOMAIN o) \in Nat /\ MaxOpen \in Nat
      BY <1>2, OpenFinite, PayloadAssumption
    <3> QED
      BY <1>6, <1>7, <1>9, <3>1
  <2>2. ~(m.kind = "fragment" /\ (m.id \notin DOMAIN o \/ o[m.id].got # m.offset))
    BY <1>8
  <2> QED
    BY <1>11, <2>1, <2>2 DEF Malformed
<1> QED
  BY <1>5, <1>6, <1>12, <1>13

\* "anything out of place means the two sides disagree and cannot recover" (PayloadAssembler): they
\* never do, and with room for every payload a client refuses only what it cannot hold
\* (PayloadQueue::pump, PayloadAssembler::begin, fragment and take_bytes).
THEOREM SentIsTaken ==
  ASSUME RoomForAll
  PROVE  Spec => []BytesAddUp
<1>1. Init => FullWhenRefused
  BY DEF Init, FullWhenRefused
<1>2. IInv /\ FullWhenRefused /\ [Next]_vars => FullWhenRefused'
  <2> SUFFICES ASSUME IInv, FullWhenRefused, [Next]_vars PROVE FullWhenRefused'
    OBVIOUS
  <2>1. CASE UNCHANGED <<open, refused>>
    BY <2>1 DEF FullWhenRefused
  <2>2. ASSUME NEW p \in Peers, ClientReceives(p) PROVE FullWhenRefused'
    <3> PICK m : m = Head(down[p])
      OBVIOUS
    <3>1. CASE refused[p] /\ UNCHANGED <<clientVars, up>>
      BY <2>1, <3>1 DEF clientVars
    <3>2. CASE ~refused[p] /\ m.kind # "cancel" /\ Malformed(open[p], m) /\ refused' = [refused EXCEPT ![p] = TRUE] /\ open' = open
      <4>1. held(open[p]) = Limit
        BY <2>2, <3>2, MalformedWhenFull DEF ClientReceives
      <4> QED
        BY <3>2, <4>1 DEF FullWhenRefused, IInv, Types, StreamTypes
    <3>3. CASE ~refused[p] /\ refused' = refused /\ (\E next : open' = [open EXCEPT ![p] = next])
      <4>1. \A q \in Peers : q # p => open'[q] = open[q]
        BY <3>3 DEF IInv, Types, ClientTypes
      <4> QED
        BY <3>3, <4>1 DEF FullWhenRefused
    <3>4. \/ refused[p] /\ UNCHANGED <<clientVars, up>>
          \/ ~refused[p] /\ m.kind # "cancel" /\ ReceiveBytes(p, m)
          \/ ~refused[p] /\ m.kind = "cancel" /\ ReceiveCancel(p, m.id)
      BY <2>2 DEF ClientReceives
    <3>5. CASE ~refused[p] /\ m.kind # "cancel" /\ ReceiveBytes(p, m)
      BY <3>2, <3>3, <3>5 DEF ReceiveBytes
    <3>6. CASE ~refused[p] /\ m.kind = "cancel" /\ ReceiveCancel(p, m.id)
      BY <3>3, <3>6 DEF ReceiveCancel
    <3> QED
      BY <3>1, <3>4, <3>5, <3>6
  <2>3. ASSUME NEW p \in Peers, ClientForgets(p) PROVE FullWhenRefused'
    <3>1. open' = [open EXCEPT ![p] = Nothing] /\ refused' = [refused EXCEPT ![p] = FALSE]
      BY <2>3 DEF ClientForgets
    <3>2. refused'[p] = FALSE /\ \A q \in Peers : q # p => open'[q] = open[q] /\ refused'[q] = refused[q]
      BY <3>1 DEF IInv, Types, StreamTypes, ClientTypes
    <3> QED
      BY <3>2 DEF FullWhenRefused
  <2>4. CASE UNCHANGED vars
    BY <2>1, <2>4 DEF vars, clientVars
  <2>5. ASSUME NEW p \in Peers, NEW size \in Sizes, NEW prio \in Prios, SendPayload(p, size, prio) PROVE FullWhenRefused'
    BY <2>1, <2>5 DEF SendPayload, clientVars
  <2>6. ASSUME NEW id \in PayloadIds, CancelPayload(id) PROVE FullWhenRefused'
    BY <2>1, <2>6 DEF CancelPayload, clientVars
  <2>7. ASSUME NEW id \in PayloadIds, NEW prio \in Prios, SetPayloadPriority(id, prio) PROVE FullWhenRefused'
    BY <2>1, <2>7 DEF SetPayloadPriority, clientVars
  <2>8. ASSUME NEW n \in [Peers -> 0 .. MaxSends], Send(n) PROVE FullWhenRefused'
    BY <2>1, <2>8 DEF Send, clientVars
  <2>9. ASSUME NEW p \in Peers, ReceiveAck(p) PROVE FullWhenRefused'
    BY <2>1, <2>9 DEF ReceiveAck, clientVars
  <2>10. ASSUME NEW p \in Peers, LinkDrops(p) PROVE FullWhenRefused'
    BY <2>1, <2>10 DEF LinkDrops, clientVars
  <2>11. ASSUME NEW p \in Peers, ServerForgets(p) PROVE FullWhenRefused'
    BY <2>1, <2>11 DEF ServerForgets, clientVars
  <2> QED
    BY <2>2, <2>3, <2>4, <2>5, <2>6, <2>7, <2>8, <2>9, <2>10, <2>11 DEF Next
<1>3. IInv /\ FullWhenRefused => BytesAddUp
  <2> SUFFICES ASSUME IInv, FullWhenRefused PROVE BytesAddUp
    OBVIOUS
  <2>1. ASSUME NEW p \in DOMAIN queue, linked[p], ~refused[p], NEW id \in DOMAIN queue[p], dispatched[id] = 0
        PROVE  queue[p][id].sent = InFlight(p, id) + (IF id \in DOMAIN open[p] THEN open[p][id].got ELSE 0)
    <3>1. p \in Peers /\ QueueOf(p) = queue[p] /\ Live(p) = TRUE
      BY <2>1 DEF IInv, Types, QueueTypes, QueueOf, Live
    <3>2. PeerOK(queue[p], down[p], open[p], dispatched, TRUE)
      BY <3>1, Facts
    <3>3. queue[p][id].sent = Flight(down[p], id) + Got(open[p], id)
      BY <2>1, <3>2 DEF PeerOK, AddsUp
    <3>4. InFlight(p, id) = Flight(down[p], id)
      BY DEF InFlight, Flight
    <3> QED
      BY <3>3, <3>4 DEF Got
  <2> QED
    BY <2>1 DEF BytesAddUp, FullWhenRefused
<1> QED
  BY <1>1, <1>2, <1>3, Invariance, PTL DEF Spec

--------------------------------------------------------------------------------
(* What the client holds of a payload is completed or freed: it is queued, or   *)
(* its cancel or all the rest of it is on the way.                              *)

Told(s, i) == \E k \in DOMAIN s : s[k].kind = "cancel" /\ s[k].id = i
Ends(items, s, o, i, total) == i \in DOMAIN items \/ Told(s, i) \/ Got(o, i) + Flight(s, i) = total
FreedOK(items, s, o) ==
  /\ \A i \in DOMAIN o : Ends(items, s, o, i, o[i].total)
  /\ \A k \in DOMAIN s : s[k].kind # "cancel" => Ends(items, s, o, s[k].id, s[k].size)
FreedAt(p) == Live(p) => FreedOK(QueueOf(p), down[p], open[p])
Freed == \A p \in Peers : FreedAt(p)

\* What leaves the queue is not open and not on the way.
LEMMA FreedQueue ==
  ASSUME NEW items, NEW s, NEW o, FreedOK(items, s, o), NEW less,
         \A i \in DOMAIN items \ DOMAIN less : i \notin DOMAIN o /\ \A k \in DOMAIN s : ~IsData(s[k], i)
  PROVE  FreedOK(less, s, o)
<1>1. \A i, total : Ends(items, s, o, i, total) => Ends(less, s, o, i, total) \/ i \in DOMAIN items \ DOMAIN less
  BY DEF Ends
<1>2. ASSUME NEW i \in DOMAIN o PROVE Ends(less, s, o, i, o[i].total)
  BY <1>1, <1>2 DEF FreedOK
<1>3. ASSUME NEW k \in DOMAIN s, s[k].kind # "cancel" PROVE Ends(less, s, o, s[k].id, s[k].size)
  BY <1>1, <1>3 DEF FreedOK, IsData
<1> QED
  BY <1>2, <1>3 DEF FreedOK

\* A cancelled payload leaves the queue, and the client is told when it has some of it and not all.
LEMMA FreedCancel ==
  ASSUME NEW items, NEW s \in Seq(Messages), NEW o, NEW had, PeerOK(items, s, o, had, TRUE), FreedOK(items, s, o),
         (\A j \in DOMAIN items : ItemOK(items[j])), NEW i \in DOMAIN items, (\A j \in DOMAIN o : o[j] \in Parts), i \in PayloadIds,
         NEW less, DOMAIN less = DOMAIN items \ {i},
         NEW t, t = Append(s, [kind |-> "cancel", id |-> i]) \/ (t = s /\ (items[i].started => items[i].awaiting))
  PROVE  FreedOK(less, t, o)
<1> PICK m : m = [kind |-> "cancel", id |-> i]
  OBVIOUS
<1>1. m \in Messages /\ m.kind = "cancel" /\ m.id = i
  BY DEF Messages, CancelMessages
<1>2. CASE t = Append(s, m)
  <2>1. /\ \A k \in DOMAIN s : k \in DOMAIN t /\ t[k] = s[k]
        /\ \A k \in DOMAIN t : (k \in DOMAIN s /\ t[k] = s[k]) \/ t[k] = m
        /\ \E k \in DOMAIN t : t[k] = m
    <3>1. /\ DOMAIN t = 1 .. Len(s) + 1 /\ DOMAIN s = 1 .. Len(s) /\ Len(s) \in Nat
          /\ t[Len(s) + 1] = m /\ \A k \in DOMAIN s : t[k] = s[k]
      BY <1>2
    <3>2. Len(s) + 1 \in DOMAIN t /\ \A k \in DOMAIN t : k \in DOMAIN s \/ k = Len(s) + 1
      BY <3>1
    <3>3. \A k \in DOMAIN s : k \in DOMAIN t
      BY <3>1
    <3> QED
      BY <3>1, <3>2, <3>3
  <2>2. Told(t, i) /\ \A j : Told(s, j) => Told(t, j)
    BY <1>1, <2>1 DEF Told
  <2>3. ASSUME NEW j PROVE Flight(t, j) = Flight(s, j)
    <3>1. Flight(s, j) \in Nat /\ Flight(t, j) = Flight(s, j) + Brings(m, j)
      BY <1>1, <1>2, FlightAppend
    <3>2. Brings(m, j) = 0
      BY <1>1 DEF Brings, IsData
    <3> QED
      BY <3>1, <3>2
  <2>4. ASSUME NEW j, NEW total, Ends(items, s, o, j, total) PROVE Ends(less, t, o, j, total)
    <3>1. CASE j = i
      BY <2>2, <3>1 DEF Ends
    <3>2. CASE j # i
      BY <2>2, <2>3, <2>4, <3>2 DEF Ends
    <3> QED
      BY <3>1, <3>2
  <2>5. ASSUME NEW k \in DOMAIN t, t[k].kind # "cancel" PROVE Ends(less, t, o, t[k].id, t[k].size)
    BY <1>1, <2>1, <2>4, <2>5 DEF FreedOK
  <2>6. \A j \in DOMAIN o : Ends(less, t, o, j, o[j].total)
    BY <2>4 DEF FreedOK
  <2> QED
    BY <2>5, <2>6 DEF FreedOK
<1>3. CASE t = s /\ (items[i].started => items[i].awaiting)
  <2>1. ASSUME items[i].started, had[i] = 0 PROVE Got(o, i) + Flight(s, i) = items[i].size
    <3>1. items[i].sent = items[i].size
      BY <1>3, <2>1 DEF ItemOK
    <3>2. items[i].sent = Flight(s, i) + Got(o, i)
      BY <2>1 DEF PeerOK, AddsUp
    <3>3. Flight(s, i) \in Nat
      BY <1>1, FlightAppend
    <3>4. items[i].sent \in Nat
      BY DEF ItemOK, Items
    <3>5. Got(o, i) \in Nat
      BY DEF Got, Parts
    <3> QED
      BY <3>1, <3>2, <3>3, <3>4, <3>5
  <2>2. ASSUME NEW j \in DOMAIN o PROVE Ends(less, t, o, j, o[j].total)
    <3>1. CASE j = i
      <4>1. had[i] = 0 /\ items[i].started /\ items[i].size = o[i].total
        BY <2>2, <3>1 DEF PeerOK, OpenOK
      <4> QED
        BY <1>3, <2>1, <3>1, <4>1 DEF Ends
    <3>2. CASE j # i
      BY <1>3, <2>2, <3>2 DEF FreedOK, Ends
    <3> QED
      BY <3>1, <3>2
  <2>3. ASSUME NEW k \in DOMAIN s, s[k].kind # "cancel" PROVE Ends(less, t, o, s[k].id, s[k].size)
    <3>1. CASE s[k].id = i
      <4>1. items[i].started /\ items[i].size = s[k].size
        BY <2>3, <3>1 DEF PeerOK, StreamOK
      <4>2. had[i] = 0
        BY <2>3, <3>1 DEF PeerOK, OpenOK, IsData
      <4> QED
        BY <1>3, <2>1, <3>1, <4>1, <4>2 DEF Ends
    <3>2. CASE s[k].id # i
      BY <1>3, <2>3, <3>2 DEF FreedOK, Ends
    <3> QED
      BY <3>1, <3>2
  <2> QED
    BY <1>3, <2>2, <2>3 DEF FreedOK
<1> QED
  BY <1>2, <1>3

\* Messages of other payloads.
LEMMA FlightConcat ==
  ASSUME NEW s \in Seq(Messages), NEW i
  PROVE  \A t \in Seq(Messages) : (\A k \in DOMAIN t : ~IsData(t[k], i)) => Flight(s \o t, i) = Flight(s, i)
<1> DEFINE Good == {n \in Nat : \A t \in Seq(Messages) :
                      Len(t) = n /\ (\A k \in DOMAIN t : ~IsData(t[k], i)) => Flight(s \o t, i) = Flight(s, i)}
<1>1. 0 \in Good
  <2> SUFFICES ASSUME NEW t \in Seq(Messages), Len(t) = 0 PROVE Flight(s \o t, i) = Flight(s, i)
    OBVIOUS
  <2>1. s \o t = s
    OBVIOUS
  <2> QED
    BY <2>1
<1>2. ASSUME NEW n \in Nat, n \in Good PROVE n + 1 \in Good
  <2> SUFFICES ASSUME NEW t \in Seq(Messages), Len(t) = n + 1, \A k \in DOMAIN t : ~IsData(t[k], i)
               PROVE  Flight(s \o t, i) = Flight(s, i)
    OBVIOUS
  <2> PICK u : u = [k \in 1 .. n |-> t[k]]
    OBVIOUS
  <2> PICK m : m = t[n + 1]
    OBVIOUS
  <2>1. u \in Seq(Messages) /\ Len(u) = n /\ m \in Messages /\ ~IsData(m, i) /\ \A k \in DOMAIN u : ~IsData(u[k], i)
    <3>1. \A k \in 1 .. n : k \in 1 .. n + 1
      OBVIOUS
    <3>2. DOMAIN t = 1 .. n + 1 /\ n + 1 \in 1 .. n + 1
      OBVIOUS
    <3> QED
      BY <3>1, <3>2
  <2>2. s \o t = Append(s \o u, m)
    <3>1. t = Append(u, m)
      BY <2>1
    <3>2. s \o Append(u, m) = Append(s \o u, m)
      BY <2>1
    <3> QED
      BY <3>1, <3>2
  <2>3. Flight(s \o u, i) = Flight(s, i)
    BY <1>2, <2>1
  <2>4. s \o u \in Seq(Messages)
    BY <2>1
  <2>5. Flight(s \o u, i) \in Nat /\ Flight(Append(s \o u, m), i) = Flight(s \o u, i) + Brings(m, i)
    BY <2>1, <2>4, FlightAppend
  <2>6. Brings(m, i) = 0
    BY <2>1 DEF Brings
  <2> QED
    BY <2>2, <2>3, <2>5, <2>6
<1>3. Nat \subseteq Good
  <2> HIDE DEF Good
  <2> QED
    BY <1>1, <1>2, InductionOn
<1> QED
  BY <1>3

\* Messages of payloads in the queue are sent.
LEMMA FreedSend ==
  ASSUME NEW items, NEW s \in Seq(Messages), NEW o, FreedOK(items, s, o), NEW later, DOMAIN later = DOMAIN items,
         NEW ms \in Seq(Messages), \A k \in DOMAIN ms : ms[k].id \in DOMAIN items
  PROVE  FreedOK(later, s \o ms, o)
<1> PICK t : t = s \o ms
  OBVIOUS
<1>1. \A k \in DOMAIN t : (k \in DOMAIN s /\ t[k] = s[k]) \/ t[k].id \in DOMAIN items
  <2>1. \A k \in DOMAIN t : (k \in DOMAIN s /\ t[k] = s[k]) \/ \E j \in DOMAIN ms : t[k] = ms[j]
    BY Concatenation
  <2> QED
    BY <2>1
<1>2. \A k \in DOMAIN s : k \in DOMAIN t /\ t[k] = s[k]
  <2>1. DOMAIN s = 1 .. Len(s) /\ DOMAIN t = 1 .. Len(s) + Len(ms) /\ Len(s) \in Nat /\ Len(ms) \in Nat
    OBVIOUS
  <2>2. \A k \in DOMAIN s : t[k] = s[k]
    OBVIOUS
  <2> QED
    BY <2>1, <2>2
<1>3. ASSUME NEW j, NEW total, Ends(items, s, o, j, total) PROVE Ends(later, t, o, j, total)
  <2>1. Told(s, j) => Told(t, j)
    BY <1>2 DEF Told
  <2>2. j \notin DOMAIN items => Flight(t, j) = Flight(s, j)
    <3> SUFFICES ASSUME j \notin DOMAIN items PROVE Flight(t, j) = Flight(s, j)
      OBVIOUS
    <3>1. \A k \in DOMAIN ms : ~IsData(ms[k], j)
      BY DEF IsData
    <3> QED
      BY <3>1, FlightConcat
  <2> QED
    BY <1>3, <2>1, <2>2 DEF Ends
<1>4. ASSUME NEW k \in DOMAIN t, t[k].kind # "cancel" PROVE Ends(later, t, o, t[k].id, t[k].size)
  <2>1. CASE k \in DOMAIN s /\ t[k] = s[k]
    BY <1>3, <1>4, <2>1 DEF FreedOK
  <2>2. CASE t[k].id \in DOMAIN items
    BY <2>2 DEF Ends
  <2> QED
    BY <1>1, <2>1, <2>2
<1>5. \A j \in DOMAIN o : Ends(later, t, o, j, o[j].total)
  BY <1>3 DEF FreedOK
<1> QED
  BY <1>4, <1>5 DEF FreedOK

\* The first message is taken; of the payloads but its own.
LEMMA EndsTail ==
  ASSUME NEW items, NEW s \in Seq(Messages), s # <<>>, NEW o, NEW next, NEW j, j # Head(s).id,
         Got(next, j) = Got(o, j), NEW total, Ends(items, s, o, j, total)
  PROVE  Ends(items, Tail(s), next, j, total)
<1> PICK t : t = Tail(s)
  OBVIOUS
<1>1. /\ s[1] = Head(s)
      /\ \A k \in DOMAIN s : k # 1 => k - 1 \in DOMAIN t /\ s[k] = t[k - 1]
  BY HeadTail
<1>2. Told(s, j) => Told(t, j)
  BY <1>1 DEF Told
<1>3. Flight(s, j) = Flight(t, j)
  <2>1. Flight(s, j) = Brings(Head(s), j) + Flight(t, j) /\ Flight(t, j) \in Nat
    BY FlightTail
  <2>2. Brings(Head(s), j) = 0
    BY DEF Brings, IsData
  <2> QED
    BY <2>1, <2>2
<1> QED
  BY <1>2, <1>3 DEF Ends

\* The first message is taken and its payload is no longer open.
LEMMA FreedGone ==
  ASSUME NEW items, NEW s \in Seq(Messages), s # <<>>, NEW o, FreedOK(items, s, o),
         \A k \in DOMAIN Tail(s) : ~IsData(Tail(s)[k], Head(s).id), NEW next, next = Without(o, {Head(s).id})
  PROVE  FreedOK(items, Tail(s), next)
<1> PICK i : i = Head(s).id
  OBVIOUS
<1> PICK t : t = Tail(s)
  OBVIOUS
<1>1. \A k \in DOMAIN t : k + 1 \in DOMAIN s /\ t[k] = s[k + 1]
  BY HeadTail
<1>2. /\ \A j \in DOMAIN next : j \in DOMAIN o /\ j # i /\ next[j] = o[j]
      /\ \A j : j # i => Got(next, j) = Got(o, j)
  BY DEF Without, Got
<1>3. ASSUME NEW j, NEW total, j # i, Ends(items, s, o, j, total) PROVE Ends(items, t, next, j, total)
  BY <1>2, <1>3, EndsTail
<1>4. ASSUME NEW k \in DOMAIN t, t[k].kind # "cancel" PROVE Ends(items, t, next, t[k].id, t[k].size)
  BY <1>1, <1>3, <1>4 DEF FreedOK, IsData
<1>5. \A j \in DOMAIN next : Ends(items, t, next, j, next[j].total)
  BY <1>2, <1>3 DEF FreedOK
<1> QED
  BY <1>4, <1>5 DEF FreedOK

\* The first message is taken and its payload is not whole yet.
LEMMA FreedPart ==
  ASSUME NEW items, NEW s \in Seq(Messages), s # <<>>, NEW o, NEW had, PeerOK(items, s, o, had, TRUE), FreedOK(items, s, o),
         MessageOK(Head(s)), Head(s).kind # "cancel", ~Malformed(o, Head(s)), \A j \in DOMAIN o : o[j] \in Parts,
         NEW next, next = With(o, Head(s).id, [Part(o, Head(s)) EXCEPT !.got = @ + Head(s).data])
  PROVE  FreedOK(items, Tail(s), next)
<1> PICK m : m = Head(s)
  OBVIOUS
<1> PICK i : i = m.id
  OBVIOUS
<1> PICK t : t = Tail(s)
  OBVIOUS
<1>1. /\ m \in DataMessages /\ i \in PayloadIds
      /\ Part(o, m) = [total |-> m.size, got |-> m.offset]
      /\ i \in DOMAIN o => o[i] = Part(o, m)
      /\ i \notin DOMAIN o => m.offset = 0
      /\ \A k \in DOMAIN t : IsData(t[k], i) => t[k].size = m.size
  BY HeadIs
<1>2. m.offset \in Nat /\ m.data \in {0, 1}
  BY <1>1 DEF DataMessages
<1>3. /\ 1 \in DOMAIN s /\ s[1] = m
      /\ \A k \in DOMAIN t : k + 1 \in DOMAIN s /\ t[k] = s[k + 1]
      /\ \A k \in DOMAIN s : k # 1 => k - 1 \in DOMAIN t /\ s[k] = t[k - 1]
  BY HeadTail
<1>4. /\ DOMAIN next = DOMAIN o \cup {i} /\ next[i] = [total |-> m.size, got |-> m.offset + m.data]
      /\ \A j \in DOMAIN o : j # i => next[j] = o[j]
  BY <1>1 DEF With
<1>5. \A j : j # i => Got(next, j) = Got(o, j)
  BY <1>4 DEF Got
<1>6. ASSUME NEW j, NEW total, j # i, Ends(items, s, o, j, total) PROVE Ends(items, t, next, j, total)
  BY <1>5, <1>6, EndsTail
<1>7. Ends(items, t, next, i, m.size)
  <2>1. Ends(items, s, o, i, m.size)
    BY <1>3 DEF FreedOK
  <2>2. Told(s, i) => Told(t, i)
    BY ZenonT(40), <1>3 DEF Told
  <2>3. Flight(s, i) = Brings(m, i) + Flight(t, i) /\ Flight(t, i) \in Nat /\ Brings(m, i) = m.data
    BY FlightTail DEF Brings, IsData
  <2>4. Got(o, i) = m.offset /\ Got(next, i) = m.offset + m.data
    BY <1>1, <1>4 DEF Got
  <2>5. Got(next, i) + Flight(t, i) = Got(o, i) + Flight(s, i)
    BY <1>2, <2>3, <2>4
  <2> QED
    BY <2>1, <2>2, <2>5 DEF Ends
<1>8. ASSUME NEW j \in DOMAIN next PROVE Ends(items, t, next, j, next[j].total)
  <2>1. CASE j = i
    BY <1>4, <1>7, <2>1
  <2>2. CASE j # i
    BY <1>4, <1>6, <1>8, <2>2 DEF FreedOK
  <2> QED
    BY <2>1, <2>2
<1>9. ASSUME NEW k \in DOMAIN t, t[k].kind # "cancel" PROVE Ends(items, t, next, t[k].id, t[k].size)
  <2>1. CASE t[k].id = i
    BY <1>1, <1>7, <1>9, <2>1 DEF IsData
  <2>2. CASE t[k].id # i
    BY <1>3, <1>6, <1>9, <2>2 DEF FreedOK
  <2> QED
    BY <2>1, <2>2
<1> QED
  BY <1>8, <1>9 DEF FreedOK

\* A peer that an action leaves alone or disconnects.
LEMMA FreedSame ==
  ASSUME NEW p \in Peers, FreedAt(p),
         Live(p)' => Live(p) /\ QueueOf(p)' = QueueOf(p) /\ down'[p] = down[p] /\ open'[p] = open[p]
  PROVE  FreedAt(p)'
BY DEF FreedAt

\* What an action takes out of a queue is neither open nor on the way.
LEMMA QueueFreed ==
  ASSUME Freed, UNCHANGED <<down, open, linked, refused>>,
         \A p \in Peers : \A i \in DOMAIN QueueOf(p) \ DOMAIN QueueOf(p)' :
           i \notin DOMAIN open[p] /\ \A k \in DOMAIN down[p] : ~IsData(down[p][k], i)
  PROVE  Freed'
<1>1. ASSUME NEW p \in Peers PROVE FreedAt(p)'
  <2>1. Live(p)' = Live(p)
    BY DEF Live
  <2>2. CASE ~Live(p)
    BY <2>1, <2>2 DEF FreedAt
  <2>3. CASE Live(p)
    <3> PICK less : less = QueueOf(p)'
      OBVIOUS
    <3> PICK items : items = QueueOf(p)
      OBVIOUS
    <3>1. FreedOK(items, down[p], open[p])
      BY <2>3 DEF Freed, FreedAt
    <3>2. \A i \in DOMAIN items \ DOMAIN less : i \notin DOMAIN open[p] /\ \A k \in DOMAIN down[p] : ~IsData(down[p][k], i)
      OBVIOUS
    <3>3. FreedOK(less, down[p], open[p])
      BY <3>1, <3>2, FreedQueue
    <3> QED
      BY <3>3 DEF FreedAt
  <2> QED
    BY <2>2, <2>3
<1> QED
  BY <1>1 DEF Freed

LEMMA SendPayloadFrees ==
  ASSUME IInv, Freed, NEW p \in Peers, NEW size \in Sizes, NEW prio \in Prios, SendPayload(p, size, prio)
  PROVE  Freed'
<1>1. Queued(p, nextPayload + 1)
  BY SendPayloadDoes
<1>2. UNCHANGED <<down, open, linked, refused>>
  BY <1>1 DEF Queued
<1>3. \A q \in Peers : DOMAIN QueueOf(q) \subseteq DOMAIN QueueOf(q)'
  BY <1>1 DEF Queued, QueueOf
<1> QED
  BY <1>2, <1>3, QueueFreed

LEMMA SetPayloadPriorityFrees ==
  ASSUME IInv, Freed, NEW id \in PayloadIds, NEW prio \in Prios, SetPayloadPriority(id, prio)
  PROVE  Freed'
<1> PICK p : p = owner[id]
  OBVIOUS
<1>1. queue' = [queue EXCEPT ![p][id].prio = prio] /\ UNCHANGED <<down, open, linked, refused>>
  BY DEF SetPayloadPriority, clientVars
<1>2. DOMAIN queue' = DOMAIN queue /\ \A q \in DOMAIN queue : DOMAIN queue'[q] = DOMAIN queue[q]
  BY <1>1 DEF IInv, Types, QueueTypes
<1>3. \A q \in Peers : DOMAIN QueueOf(q)' = DOMAIN QueueOf(q)
  BY <1>2 DEF QueueOf
<1> QED
  BY <1>1, <1>3, QueueFreed

LEMMA ReceiveAckFrees ==
  ASSUME IInv, Freed, NEW p \in Peers, ReceiveAck(p)
  PROVE  Freed'
<1> PICK id : id = Head(up[p])
  OBVIOUS
<1>1. /\ up[p] # <<>> /\ p \in DOMAIN queue /\ UNCHANGED <<down, open, linked, refused>>
      /\ queue' = [queue EXCEPT ![p] = Without(@, {id})] \/ queue' = queue
  BY DEF ReceiveAck, clientVars
<1>2. up[p] \in Seq(PayloadIds)
  BY Facts
<1>3. id = up[p][1] /\ 1 \in DOMAIN up[p] /\ id \in PayloadIds
  BY <1>1, <1>2, UpTail
<1>4. dispatched[id] = 1
  BY <1>3 DEF IInv, Events
<1>5. id \notin DOMAIN open[p] /\ \A k \in DOMAIN down[p] : ~IsData(down[p][k], id)
  <2>1. OpenOK(QueueOf(p), down[p], open[p], dispatched)
    BY Facts DEF PeerOK
  <2> QED
    BY <1>3, <1>4, <2>1 DEF OpenOK
<1>6. \A q \in Peers : \A i \in DOMAIN QueueOf(q) \ DOMAIN QueueOf(q)' : q = p /\ i = id
  <2>1. CASE queue' = queue
    BY <2>1 DEF QueueOf
  <2>2. CASE queue' = [queue EXCEPT ![p] = Without(@, {id})]
    <3>1. /\ DOMAIN queue' = DOMAIN queue /\ queue'[p] = Without(queue[p], {id})
          /\ \A q \in DOMAIN queue : q # p => queue'[q] = queue[q]
      BY <1>1, <2>2 DEF IInv, Types, QueueTypes
    <3>2. DOMAIN queue'[p] = DOMAIN queue[p] \ {id}
      BY <3>1 DEF Without
    <3> QED
      BY <3>1, <3>2 DEF QueueOf
  <2> QED
    BY <1>1, <2>1, <2>2
<1> QED
  BY <1>1, <1>5, <1>6, QueueFreed

LEMMA CancelPayloadFrees ==
  ASSUME "cancel" \notin Refusable, IInv, Freed, NEW id \in PayloadIds, CancelPayload(id)
  PROVE  Freed'
<1> PICK p : p = owner[id]
  OBVIOUS
<1> PICK m : m = [kind |-> "cancel", id |-> id]
  OBVIOUS
<1> PICK item : item = queue[p][id]
  OBVIOUS
<1>1. /\ id \in DOMAIN owner /\ queue' = [queue EXCEPT ![owner[id]] = Without(@, {id})]
      /\ owner' = Without(owner, {id})
      /\ UNCHANGED <<now, nextPayload, open, refused, linked>>
      /\ \/ linked[p] /\ down' = [down EXCEPT ![p] = Append(@, m)]
         \/ (item.started /\ ~item.awaiting => ~linked[p]) /\ down' = down
  BY DEF CancelPayload, clientVars
<1>2. /\ DOMAIN queue' = DOMAIN queue /\ p \in Peers /\ p \in DOMAIN queue
      /\ id \in DOMAIN queue[p]
  BY <1>1, TakenOut
<1>3. /\ queue'[p] = Without(queue[p], {id}) /\ \A q \in DOMAIN queue : q # p => queue'[q] = queue[q]
  BY <1>1, <1>2 DEF IInv, Types, QueueTypes
<1>4. DOMAIN queue'[p] = DOMAIN queue[p] \ {id}
  BY <1>3 DEF Without
<1>5. \A q \in Peers : q # p => down'[q] = down[q] /\ QueueOf(q)' = QueueOf(q)
  BY <1>1, <1>2, <1>3 DEF IInv, Types, StreamTypes, QueueOf
<1>6. QueueOf(p) = queue[p] /\ QueueOf(p)' = queue'[p]
  BY <1>2 DEF QueueOf
<1>7. \A q \in Peers : Live(q)' = Live(q)
  BY <1>1 DEF Live
<1>8. ASSUME Live(p) PROVE FreedOK(queue'[p], down'[p], open[p])
  <2>1. linked[p]
    BY <1>8 DEF Live
  <2>2. down'[p] = Append(down[p], m) \/ (down'[p] = down[p] /\ (item.started => item.awaiting))
    BY <1>1, <1>2, <2>1 DEF IInv, Types, StreamTypes
  <2>3. /\ down[p] \in Seq(Messages) /\ PeerOK(queue[p], down[p], open[p], dispatched, TRUE)
        /\ (\A j \in DOMAIN queue[p] : ItemOK(queue[p][j])) /\ \A j \in DOMAIN open[p] : open[p][j] \in Parts
    <3>1. Live(p) = TRUE
      BY <1>8 DEF Live
    <3> QED
      BY <1>2, <1>6, <3>1, Facts
  <2>4. FreedOK(queue[p], down[p], open[p])
    BY <1>2, <1>6, <1>8 DEF Freed, FreedAt
  <2> PICK t : t = down'[p]
    OBVIOUS
  <2> PICK less : less = queue'[p]
    OBVIOUS
  <2>5. FreedOK(less, t, open[p])
    BY <1>2, <1>4, <2>2, <2>3, <2>4, FreedCancel
  <2> QED
    BY <2>5
<1>9. ASSUME NEW q \in Peers PROVE FreedAt(q)'
  <2>1. CASE q = p
    BY <1>1, <1>6, <1>7, <1>8, <2>1 DEF FreedAt
  <2>2. CASE q # p
    BY <1>1, <1>5, <1>7, <2>2, FreedSame DEF Freed
  <2> QED
    BY <2>1, <2>2
<1> QED
  BY <1>9 DEF Freed

LEMMA SendFrees ==
  ASSUME IInv, Freed, NEW n \in [Peers -> 0 .. MaxSends], Send(n)
  PROVE  Freed'
<1>1. /\ DOMAIN queue' = DOMAIN queue /\ UNCHANGED <<open, refused, linked>>
      /\ \A q \in Peers : Advances(q)
  BY SendDoes
<1>2. ASSUME NEW q \in Peers PROVE FreedAt(q)'
  <2>1. CASE q \in DOMAIN queue
    <3>1. PICK r : Later(queue[q], r) /\ queue'[q] = r.items /\ down'[q] = down[q] \o r.messages
      BY <1>1, <2>1 DEF Advances
    <3>2. QueueOf(q) = queue[q] /\ QueueOf(q)' = r.items
      BY <1>1, <2>1, <3>1 DEF QueueOf
    <3>3. r.messages \in Seq(Messages)
      <4> PICK ms : ms = r.messages
        OBVIOUS
      <4>1. ms \in Seq(DataMessages)
        BY <3>1 DEF Later
      <4>2. ms = [k \in 1 .. Len(ms) |-> ms[k]] /\ \A k \in 1 .. Len(ms) : ms[k] \in DataMessages
        BY <4>1
      <4> QED
        BY <4>1, <4>2 DEF Messages
    <3>4. DOMAIN r.items = DOMAIN queue[q] /\ \A k \in DOMAIN r.messages : r.messages[k].id \in DOMAIN queue[q]
      BY <3>1 DEF Later
    <3>5. ASSUME Live(q) PROVE FreedOK(r.items, down[q] \o r.messages, open[q])
      <4>1. FreedOK(queue[q], down[q], open[q])
        BY <3>2, <3>5 DEF Freed, FreedAt
      <4>2. down[q] \in Seq(Messages)
        BY Facts
      <4> QED
        BY <3>3, <3>4, <4>1, <4>2, FreedSend
    <3>6. Live(q)' = Live(q)
      BY <1>1 DEF Live
    <3> QED
      BY <1>1, <3>1, <3>2, <3>5, <3>6 DEF FreedAt
  <2>2. CASE q \notin DOMAIN queue
    <3>1. QueueOf(q)' = QueueOf(q) /\ down'[q] = down[q] /\ open'[q] = open[q] /\ Live(q)' = Live(q)
      BY <1>1, <2>2 DEF QueueOf, Advances, Live
    <3> QED
      BY <3>1, FreedSame DEF Freed
  <2> QED
    BY <2>1, <2>2
<1> QED
  BY <1>2 DEF Freed

LEMMA ClientReceivesFrees ==
  ASSUME IInv, Freed, NEW p \in Peers, ClientReceives(p)
  PROVE  Freed'
<1> PICK m : m = Head(down[p])
  OBVIOUS
<1> PICK o : o = open[p]
  OBVIOUS
<1> PICK s : s = down[p]
  OBVIOUS
<1> PICK t : t = Tail(s)
  OBVIOUS
<1>1. /\ s # <<>> /\ down' = [down EXCEPT ![p] = Tail(@)]
      /\ UNCHANGED <<queue, linked>>
      /\ \/ refused[p] /\ UNCHANGED <<clientVars, up>>
         \/ ~refused[p] /\ m.kind # "cancel" /\ ReceiveBytes(p, m)
         \/ ~refused[p] /\ m.kind = "cancel" /\ ReceiveCancel(p, m.id)
  BY DEF ClientReceives, serverVars
<1>2. /\ linked[p] /\ down'[p] = t /\ \A q \in Peers : q # p => down'[q] = down[q]
  BY <1>1, ReceivesDoes
<1>3. open = [q \in Peers |-> open[q]] /\ refused \in [Peers -> BOOLEAN]
  BY DEF IInv, Types, ClientTypes, StreamTypes
<1>4. s \in Seq(Messages) /\ MessageOK(m) /\ (\A j \in DOMAIN o : o[j] \in Parts)
      /\ (~refused[p] => PeerOK(QueueOf(p), s, o, dispatched, TRUE) /\ FreedOK(QueueOf(p), s, o))
  <2>1. MessageOK(m)
    BY <1>1, ReceivesDoes
  <2>2. ~refused[p] => Live(p) = TRUE
    BY <1>2 DEF Live
  <2> QED
    BY <2>1, <2>2, Facts DEF Freed, FreedAt
<1>5. \A q \in Peers : QueueOf(q)' = QueueOf(q)
  BY <1>1 DEF QueueOf
<1>6. ASSUME \A q \in Peers : q # p => open'[q] = open[q] /\ refused'[q] = refused[q],
             refused'[p] \/ FreedOK(QueueOf(p), t, open'[p])
      PROVE  Freed'
  <2>1. ASSUME NEW q \in Peers PROVE FreedAt(q)'
    <3>1. CASE q = p
      BY <1>2, <1>5, <1>6, <3>1 DEF FreedAt, Live
    <3>2. CASE q # p
      <4>1. Live(q)' => Live(q)
        BY <1>1, <1>6, <3>2 DEF Live
      <4> QED
        BY <1>2, <1>5, <1>6, <3>2, <4>1, FreedSame DEF Freed
    <3> QED
      BY <3>1, <3>2
  <2> QED
    BY <2>1 DEF Freed
<1>7. CASE refused[p] /\ UNCHANGED <<clientVars, up>>
  BY <1>6, <1>7 DEF clientVars
<1>8. CASE ~refused[p] /\ m.kind # "cancel" /\ ReceiveBytes(p, m)
  <2>1. CASE refused' = [refused EXCEPT ![p] = TRUE] /\ open' = open
    <3>1. refused'[p] /\ \A q \in Peers : q # p => refused'[q] = refused[q]
      BY <1>3, <2>1
    <3> QED
      BY <1>6, <2>1, <3>1
  <2>2. ASSUME ~Malformed(o, m), NEW next, next = With(o, m.id, [Part(o, m) EXCEPT !.got = @ + m.data]),
               open' = [open EXCEPT ![p] = next], refused' = refused
        PROVE  Freed'
    <3>1. FreedOK(QueueOf(p), t, next)
      BY <1>1, <1>4, <1>8, <2>2, FreedPart
    <3>2. open'[p] = next /\ \A q \in Peers : q # p => open'[q] = open[q]
      BY <1>3, <2>2
    <3> QED
      BY <1>6, <2>2, <3>1, <3>2
  <2>3. ASSUME ~Malformed(o, m), Whole(o, m), NEW next, next = Without(o, {m.id}), open' = [open EXCEPT ![p] = next],
               dispatched' = [dispatched EXCEPT ![m.id] = @ + 1], refused' = refused
        PROVE  Freed'
    <3> PICK items : items = QueueOf(p)
      OBVIOUS
    <3> PICK have : have = dispatched'
      OBVIOUS
    <3>1. /\ IsTable(items) /\ (\A j \in DOMAIN items : ItemOK(items[j])) /\ (\A k \in DOMAIN s : MessageOK(s[k])) /\ IsTable(o)
      BY Facts
    <3>2. dispatched \in [PayloadIds -> Nat]
      BY DEF IInv, Types, CountTypes
    <3>3. /\ Head(s).kind # "cancel" /\ ~Malformed(o, Head(s)) /\ Whole(o, Head(s)) /\ next = Without(o, {Head(s).id})
          /\ have = [dispatched EXCEPT ![Head(s).id] = @ + 1] /\ PeerOK(items, s, o, dispatched, TRUE)
      BY <1>4, <1>8, <2>3
    <3>4. PeerOK(items, Tail(s), next, have, TRUE) /\ have[Head(s).id] = 1
      BY ONLY <1>1, <1>4, <3>1, <3>2, <3>3, WholeTaken, Zenon
    <3>5. m.id \in PayloadIds
      <4>1. m \in Messages
        BY <1>1, <1>4, HeadTail
      <4> QED
        BY <4>1 DEF Messages, DataMessages, CancelMessages
    <3>6. \A k \in DOMAIN t : ~IsData(t[k], m.id)
      BY <3>4, <3>5 DEF PeerOK, OpenOK
    <3>7. FreedOK(items, t, next)
      BY <1>1, <1>4, <1>8, <2>3, <3>6, FreedGone
    <3>8. open'[p] = next /\ \A q \in Peers : q # p => open'[q] = open[q]
      BY <1>3, <2>3
    <3> QED
      BY <1>6, <2>3, <3>7, <3>8
  <2> QED
    BY <1>8, <2>1, <2>2, <2>3 DEF ReceiveBytes
<1>9. CASE ~refused[p] /\ m.kind = "cancel" /\ ReceiveCancel(p, m.id)
  <2> PICK next : next = Without(o, {m.id})
    OBVIOUS
  <2>1. open' = [open EXCEPT ![p] = next] /\ refused' = refused
    BY <1>9 DEF ReceiveCancel
  <2>2. \A k \in DOMAIN t : ~IsData(t[k], m.id)
    <3>1. 1 \in DOMAIN s /\ s[1] = m /\ \A k \in DOMAIN t : k + 1 \in DOMAIN s /\ t[k] = s[k + 1] /\ 1 < k + 1
      <4>1. 1 \in DOMAIN s /\ s[1] = m /\ \A k \in DOMAIN t : k + 1 \in DOMAIN s /\ t[k] = s[k + 1]
        BY <1>1, <1>4, HeadTail
      <4>2. \A k \in DOMAIN t : 1 < k + 1
        BY <1>4
      <4> QED
        BY <4>1, <4>2
    <3>2. StreamOK(QueueOf(p), s)
      BY <1>4, <1>9 DEF PeerOK
    <3> QED
      BY <1>9, <3>1, <3>2 DEF StreamOK, IsData
  <2>3. FreedOK(QueueOf(p), t, next)
    BY <1>1, <1>4, <1>9, <2>2, FreedGone
  <2>4. open'[p] = next /\ \A q \in Peers : q # p => open'[q] = open[q]
    BY <1>3, <2>1
  <2> QED
    BY <1>6, <2>1, <2>3, <2>4
<1> QED
  BY <1>1, <1>7, <1>8, <1>9

\* What the client holds of a payload on a live connection is queued, on the way or followed by its
\* cancel, unless the transport may refuse to take a cancel (cancel_payload ignores that it did).
THEOREM PartsEnd ==
  ASSUME "cancel" \notin Refusable
  PROVE  Spec => []PartsAreFreed
<1>1. ASSUME Init PROVE Freed
  <2>1. ASSUME NEW p \in Peers PROVE FreedOK(QueueOf(p), down[p], open[p])
    <3>1. DOMAIN open[p] = {} /\ DOMAIN down[p] = {}
      BY <1>1 DEF Init, Nothing
    <3> QED
      BY <3>1 DEF FreedOK
  <2> QED
    BY <2>1 DEF Freed, FreedAt
<1>2. ASSUME IInv, Freed, [Next]_vars PROVE Freed'
  <2>1. CASE UNCHANGED vars
    <3>1. UNCHANGED <<queue, open, refused, linked, down>>
      BY <2>1 DEF vars, serverVars, clientVars
    <3>2. \A p \in Peers : QueueOf(p)' = QueueOf(p) /\ Live(p)' = Live(p)
      BY <3>1 DEF QueueOf, Live
    <3> QED
      BY <1>2, <3>1, <3>2, FreedSame DEF Freed
  <2>2. ASSUME NEW p \in Peers, NEW size \in Sizes, NEW prio \in Prios, SendPayload(p, size, prio) PROVE Freed'
    BY <1>2, <2>2, SendPayloadFrees
  <2>3. ASSUME NEW id \in PayloadIds, CancelPayload(id) PROVE Freed'
    BY <1>2, <2>3, CancelPayloadFrees
  <2>4. ASSUME NEW id \in PayloadIds, NEW prio \in Prios, SetPayloadPriority(id, prio) PROVE Freed'
    BY <1>2, <2>4, SetPayloadPriorityFrees
  <2>5. ASSUME NEW n \in [Peers -> 0 .. MaxSends], Send(n) PROVE Freed'
    BY <1>2, <2>5, SendFrees
  <2>6. ASSUME NEW p \in Peers, ReceiveAck(p) PROVE Freed'
    BY <1>2, <2>6, ReceiveAckFrees
  <2>7. ASSUME NEW p \in Peers, ClientReceives(p) PROVE Freed'
    BY <1>2, <2>7, ClientReceivesFrees
  <2>8. ASSUME NEW p \in Peers, LinkDrops(p) PROVE Freed'
    <3>1. ~linked'[p] /\ \A q \in Peers : q # p => linked'[q] = linked[q] /\ down'[q] = down[q]
      BY <1>2, <2>8 DEF LinkDrops, IInv, Types, StreamTypes
    <3>2. UNCHANGED <<queue, open, refused>>
      BY <2>8 DEF LinkDrops, serverVars, clientVars
    <3>3. \A q \in Peers : Live(q)' => q # p /\ Live(q)
      BY <3>1, <3>2 DEF Live
    <3>4. \A q \in Peers : QueueOf(q)' = QueueOf(q)
      BY <3>2 DEF QueueOf
    <3> QED
      BY <1>2, <3>1, <3>2, <3>3, <3>4, FreedSame DEF Freed
  <2>9. ASSUME NEW p \in Peers, ServerForgets(p) PROVE Freed'
    <3>1. ~linked[p] /\ queue' = Without(queue, {p}) /\ UNCHANGED <<open, refused, linked, down>>
      BY <2>9 DEF ServerForgets, clientVars
    <3>2. \A q \in Peers : Live(q)' => q # p /\ Live(q)
      BY <3>1 DEF Live
    <3>3. \A q \in Peers : q # p => QueueOf(q)' = QueueOf(q)
      BY <3>1 DEF QueueOf, Without
    <3> QED
      BY <1>2, <3>1, <3>2, <3>3, FreedSame DEF Freed
  <2>10. ASSUME NEW p \in Peers, ClientForgets(p) PROVE Freed'
    <3>1. /\ ~linked[p] /\ open' = [open EXCEPT ![p] = Nothing] /\ refused' = [refused EXCEPT ![p] = FALSE]
          /\ UNCHANGED <<queue, linked, down>>
      BY <2>10 DEF ClientForgets, serverVars
    <3>2. \A q \in Peers : q # p => open'[q] = open[q] /\ refused'[q] = refused[q]
      BY <1>2, <3>1 DEF IInv, Types, StreamTypes, ClientTypes
    <3>3. \A q \in Peers : Live(q)' => q # p /\ Live(q)
      BY <3>1, <3>2 DEF Live
    <3>4. \A q \in Peers : QueueOf(q)' = QueueOf(q)
      BY <3>1 DEF QueueOf
    <3> QED
      BY <1>2, <3>1, <3>2, <3>3, <3>4, FreedSame DEF Freed
  <2> QED
    BY <1>2, <2>1, <2>2, <2>3, <2>4, <2>5, <2>6, <2>7, <2>8, <2>9, <2>10 DEF Next
<1>3. ASSUME IInv, Freed PROVE PartsAreFreed
  <2>1. ASSUME NEW p \in Peers, linked[p], ~refused[p], NEW id \in DOMAIN open[p]
        PROVE  \/ p \in DOMAIN queue /\ id \in DOMAIN queue[p]
               \/ \E k \in DOMAIN down[p] : down[p][k].kind = "cancel" /\ down[p][k].id = id
               \/ open[p][id].got + InFlight(p, id) = open[p][id].total
    <3>1. Live(p)
      BY <2>1 DEF Live
    <3>2. Ends(QueueOf(p), down[p], open[p], id, open[p][id].total)
      BY <1>3, <2>1, <3>1 DEF Freed, FreedAt, FreedOK
    <3>3. InFlight(p, id) = Flight(down[p], id)
      BY DEF InFlight, Flight
    <3>4. Got(open[p], id) = open[p][id].got
      BY <2>1 DEF Got
    <3>5. id \in DOMAIN QueueOf(p) => p \in DOMAIN queue /\ id \in DOMAIN queue[p]
      BY DEF QueueOf, Nothing
    <3> QED
      BY <3>2, <3>3, <3>4, <3>5 DEF Ends, Told
  <2> QED
    BY <2>1 DEF PartsAreFreed
<1> QED
  BY <1>1, <1>2, <1>3, Invariance, PTL DEF Spec

--------------------------------------------------------------------------------
(* A payload that waits is passed only by those that priorities explain.        *)

LEMMA MaxAndMin ==
  ASSUME NEW S \in SUBSET Nat, IsFiniteSet(S), NEW x \in S, NEW y \in S
  PROVE  x <= Max(S) /\ Min(S) <= y /\ Max(S) \in Nat /\ Min(S) \in Nat
<1>1. PICK a \in S : \A z \in S : a >= z
  <2>1. PICK e : e = [z \in S |-> z]
    OBVIOUS
  <2>2. \A z \in S : e[z] = z /\ e[z] \in Int
    BY <2>1
  <2>3. PICK a \in S : \A z \in S \ {a} : e[a] > e[z] \/ (e[a] = e[z] /\ a < z)
    BY <2>2, FirstExists
  <2>4. \A z \in S : a >= z
    BY <2>2, <2>3
  <2> QED
    BY <2>4
<1>2. PICK b \in S : \A z \in S : b <= z
  <2>1. PICK e : e = [z \in S |-> 0 - z]
    OBVIOUS
  <2>2. \A z \in S : e[z] = 0 - z /\ e[z] \in Int
    BY <2>1
  <2>3. PICK b \in S : \A z \in S \ {b} : e[b] > e[z] \/ (e[b] = e[z] /\ b < z)
    BY <2>2, FirstExists
  <2>4. \A z \in S : b <= z
    BY <2>2, <2>3
  <2> QED
    BY <2>4
<1>3. Max(S) \in S /\ \A z \in S : Max(S) >= z
  BY <1>1 DEF Max
<1>4. Min(S) \in S /\ \A z \in S : Min(S) <= z
  BY <1>2 DEF Min
<1> QED
  BY <1>3, <1>4

\* What is not behind another was not queued much later.
LEMMA AgeIsBounded ==
  ASSUME now \in 1 .. MaxTick, NEW a, ItemOK(a), NEW b, ItemOK(b), Effective(a) >= Effective(b)
  PROVE  (a.queued - b.queued) * Aging <= Max(Prios) - Min(Prios)
<1>1. a.prio \in Prios /\ b.prio \in Prios /\ a.queued \in Nat /\ b.queued \in Nat
  BY DEF ItemOK, Items
<1>2. a.prio <= Max(Prios) /\ Min(Prios) <= b.prio /\ Max(Prios) \in Nat /\ Min(Prios) \in Nat
  BY <1>1, PayloadAssumption, MaxAndMin
<1>3. a.prio \in Int /\ b.prio \in Int
  <2>1. \A x \in Prios : x \in Int
    BY PayloadAssumption
  <2> QED
    BY <1>1, <2>1, Zenon
<1>4. now \in Int /\ Aging \in Int /\ a.queued \in Int /\ b.queued \in Int
  BY <1>1, PayloadAssumption
<1>5. \A n, x, y, g \in Int : (n - x) * g \in Int /\ (x - y) * g \in Int /\ (n - y) * g - (n - x) * g = (x - y) * g
  OBVIOUS
<1>6. /\ (now - a.queued) * Aging \in Int /\ (now - b.queued) * Aging \in Int /\ (a.queued - b.queued) * Aging \in Int
      /\ (now - b.queued) * Aging - (now - a.queued) * Aging = (a.queued - b.queued) * Aging
  BY <1>4, <1>5
<1>7. a.prio + (now - a.queued) * Aging >= b.prio + (now - b.queued) * Aging
  BY DEF Effective
<1>8. \A u, v, w, x, y, d, t, l \in Int : u + v >= w + x /\ x - v = d /\ u <= t /\ l <= w => d <= t - l
  OBVIOUS
<1> QED
  BY <1>2, <1>3, <1>6, <1>7, <1>8

\* No step sends a later payload before one that waits, unless a priority makes up for the wait.
Passes ==
  \A p \in DOMAIN queue \cap DOMAIN queue' :
    \A i, j \in DOMAIN queue[p] \cap DOMAIN queue'[p] :
      /\ queue'[p][j].sent # queue[p][j].sent /\ ~queue'[p][i].awaiting
      /\ now < MaxTick
      => (queue[p][j].queued - queue[p][i].queued) * Aging <= Max(Prios) - Min(Prios)

LEMMA NoneSent ==
  ASSUME \A p \in DOMAIN queue \cap DOMAIN queue' :
           \A j \in DOMAIN queue[p] \cap DOMAIN queue'[p] : queue'[p][j].sent = queue[p][j].sent
  PROVE  Passes
BY DEF Passes

\* Nothing sent later is sent before what waits for longer than the priorities can make up for
\* (next_to_send: a payload that keeps waiting ends up first).
THEOREM LaterOnesWait == Spec => AgesPast
<1>1. ASSUME IInv, [Next]_vars PROVE Passes
  <2>1. CASE UNCHANGED vars
    BY <2>1, NoneSent DEF vars, serverVars
  <2>2. ASSUME NEW p \in Peers, NEW size \in Sizes, NEW prio \in Prios, SendPayload(p, size, prio) PROVE Passes
    <3> PICK i : i = nextPayload + 1
      OBVIOUS
    <3>1. Queued(p, i)
      BY <1>1, <2>2, SendPayloadDoes
    <3>2. i \notin DOMAIN queue[p]
      <4>1. i \notin DOMAIN QueueOf(p) /\ p \in DOMAIN queue
        BY <1>1, <3>1, FreshId DEF Queued
      <4> QED
        BY <4>1 DEF QueueOf
    <3>3. \A q \in DOMAIN queue : \A j \in DOMAIN queue[q] : queue'[q][j] = queue[q][j]
      BY <3>1, <3>2 DEF Queued
    <3> QED
      BY <3>3, NoneSent
  <2>3. ASSUME NEW id \in PayloadIds, CancelPayload(id) PROVE Passes
    <3>1. Dwindles
      BY <1>1, <2>3, TakenOut DEF CancelPayload
    <3> QED
      BY <3>1, NoneSent DEF Dwindles, Stays
  <2>4. ASSUME NEW id \in PayloadIds, NEW prio \in Prios, SetPayloadPriority(id, prio) PROVE Passes
    <3> PICK p : p = owner[id]
      OBVIOUS
    <3>1. queue' = [queue EXCEPT ![p][id].prio = prio] /\ p \in DOMAIN queue /\ id \in DOMAIN queue[p]
      BY <1>1, <2>4 DEF SetPayloadPriority, IInv, Owners
    <3>2. /\ queue'[p] = [queue[p] EXCEPT ![id] = [queue[p][id] EXCEPT !.prio = prio]]
          /\ \A q \in DOMAIN queue : q # p => queue'[q] = queue[q]
      BY <1>1, <3>1 DEF IInv, Types, QueueTypes
    <3>3. /\ queue'[p][id] = [queue[p][id] EXCEPT !.prio = prio]
          /\ \A j \in DOMAIN queue[p] : j # id => queue'[p][j] = queue[p][j]
      BY <3>1, <3>2
    <3>4. queue[p][id] \in Items
      BY <1>1, <3>1 DEF IInv, Types, QueueTypes, ItemOK
    <3>5. queue'[p][id].sent = queue[p][id].sent
      BY <3>3, <3>4 DEF Items
    <3> QED
      BY <3>2, <3>3, <3>5, NoneSent
  <2>5. ASSUME NEW n \in [Peers -> 0 .. MaxSends], Send(n) PROVE Passes
    <3> SUFFICES ASSUME NEW p \in DOMAIN queue \cap DOMAIN queue', NEW i \in DOMAIN queue[p] \cap DOMAIN queue'[p],
                        NEW j \in DOMAIN queue[p] \cap DOMAIN queue'[p],
                        queue'[p][j].sent # queue[p][j].sent, ~queue'[p][i].awaiting
                 PROVE  (queue[p][j].queued - queue[p][i].queued) * Aging <= Max(Prios) - Min(Prios)
      BY DEF Passes
    <3>1. p \in Peers /\ now \in 1 .. MaxTick /\ ItemOK(queue[p][i]) /\ ItemOK(queue[p][j])
      BY <1>1 DEF IInv, Types, QueueTypes
    <3>2. PICK r : Later(queue[p], r) /\ queue'[p] = r.items
      BY <1>1, <2>5, <3>1, SendDoes DEF Advances
    <3>3. Effective(queue[p][j]) >= Effective(queue[p][i])
      BY <3>2 DEF Later
    <3> QED
      BY <3>1, <3>3, AgeIsBounded
  <2>6. ASSUME NEW p \in Peers, ReceiveAck(p) PROVE Passes
    <3> PICK id : id = Head(up[p])
      OBVIOUS
    <3>1. CASE queue' = queue
      BY <3>1, NoneSent
    <3>2. CASE queue' = [queue EXCEPT ![p] = Without(queue[p], {id})]
      <4>1. \A q \in DOMAIN queue : \A j \in DOMAIN queue'[q] : queue'[q][j] = queue[q][j]
        <5>1. p \in DOMAIN queue
          BY <2>6 DEF ReceiveAck
        <5>2. queue'[p] = Without(queue[p], {id}) /\ \A q \in DOMAIN queue : q # p => queue'[q] = queue[q]
          BY <1>1, <3>2, <5>1 DEF IInv, Types, QueueTypes
        <5> QED
          BY <5>2 DEF Without
      <4> QED
        BY <4>1, NoneSent
    <3> QED
      BY <2>6, <3>1, <3>2 DEF ReceiveAck
  <2>7. ASSUME NEW p \in Peers, ClientReceives(p) PROVE Passes
    BY <2>7, NoneSent DEF ClientReceives, serverVars
  <2>8. ASSUME NEW p \in Peers, LinkDrops(p) PROVE Passes
    BY <2>8, NoneSent DEF LinkDrops, serverVars
  <2>9. ASSUME NEW p \in Peers, ServerForgets(p) PROVE Passes
    <3>1. \A q \in DOMAIN queue' : queue'[q] = queue[q]
      BY <2>9 DEF ServerForgets, Without
    <3> QED
      BY <3>1, NoneSent
  <2>10. ASSUME NEW p \in Peers, ClientForgets(p) PROVE Passes
    BY <2>10, NoneSent DEF ClientForgets, serverVars
  <2> QED
    BY <1>1, <2>1, <2>2, <2>3, <2>4, <2>5, <2>6, <2>7, <2>8, <2>9, <2>10 DEF Next
<1> QED
  BY <1>1, Invariance, PTL DEF Spec, AgesPast, Passes
================================================================================
