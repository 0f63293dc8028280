---------------------------- MODULE Prediction_proof ---------------------------
(* Proofs about Prediction, for any inputs, any ring, any lead and redundancy,  *)
(* any jumps and any number of ticks.                                           *)
EXTENDS Prediction, WellFoundedInduction, NaturalsInduction, TLAPS

Given == Inputs \cup {Idle}
Slots == [tick : Nat, input : Given \cup {None}, collected : BOOLEAN, state : States \cup {NoState}]
Rings == {r \in [0 .. Ring - 1 -> Slots] :
            \A k \in 0 .. Ring - 1 : r[k].tick # 0 => r[k].tick % Ring = k}

--------------------------------------------------------------------------------
(* The invariant.                                                               *)

\* What the server ran and where that led.
ServerInv ==
  /\ DOMAIN ran = 1 .. tick /\ DOMAIN world = 1 .. tick
  /\ \A t \in 1 .. tick :
       /\ ran[t] \in Given /\ world[t] \in States
       /\ \/ t \in DOMAIN collected /\ ran[t] = collected[t]
          \/ ran[t] = IF t = 1 THEN Idle ELSE ran[t - 1]
       /\ world[t] = step(IF t = 1 THEN <<>> ELSE world[t - 1], ran[t])
  /\ last = IF tick = 0 THEN Idle ELSE ran[tick]

Says(m, c) == DOMAIN m \subseteq DOMAIN c /\ \A t \in DOMAIN m : m[t] = c[t]

\* The client collects one input for a tick, and nothing else reaches the server.
InputsInv ==
  /\ DOMAIN collected \subseteq 1 .. predicted
  /\ \A t \in DOMAIN collected : collected[t] \in Inputs
  /\ Says(pending, collected)
  /\ \A m \in messages : Says(m, collected)

Ticks(r, p) == \A k \in 0 .. Ring - 1 : r[k].tick <= p

\* A slot with a collected input has the one of its tick.
OwnInputs(r, c) ==
  \A k \in 0 .. Ring - 1 :
    r[k].collected => r[k].tick \in DOMAIN c /\ r[k].input = c[r[k].tick]

\* At tick t the input x repeats the last one collected, if the ring still has that.
Repeats(r, c, t, x) ==
  \A u \in DOMAIN c :
    /\ u <= t /\ t - u < Ring
    /\ \A v \in DOMAIN c : ~(u < v /\ v <= t)
    /\ HeldAt(r, u) /\ slot(r, u).collected
    => x = c[u]

StandIns(r, c) ==
  \A k \in 0 .. Ring - 1 : r[k].input # None => Repeats(r, c, r[k].tick, r[k].input)

RingInv(r, c, p) == r \in Rings /\ Ticks(r, p) /\ OwnInputs(r, c) /\ StandIns(r, c)

\* A slot's state and what led from it to the next one, or to the present at the newest tick.
Linked(r, t, top, pres) ==
  /\ top - t < Ring /\ slot(r, t).input # None /\ slot(r, t).state \in States
  /\ t = top => pres = slot(r, t).state
  /\ t < top => /\ HeldAt(r, t + 1)
                /\ slot(r, t + 1).state = step(slot(r, t).state, slot(r, t + 1).input)

\* The ticks after n, up to the newest: those the ring holds lead from one to the next, the first of
\* them from the state `base` the server had at n.
Chain(r, n, top, pres, base) ==
  /\ n <= top
  /\ n = top => pres = base
  /\ n < top /\ top - n < Ring => HeldAt(r, n + 1)
  /\ \A t \in n + 1 .. top :
       HeldAt(r, t) =>
         /\ Linked(r, t, top, pres)
         /\ t = n + 1 => slot(r, t).state = step(base, slot(r, t).input)

\* Since the client knows a state of the server its predictions lead from there to the present.
ChainInv ==
  IF reconciled = 0 THEN \A k \in 0 .. Ring - 1 : ring[k].state = NoState
  ELSE /\ reconciled < predicted /\ HeldAt(ring, predicted) /\ collected # Nothing
       /\ Chain(ring, reconciled, predicted, present, world[reconciled])

IInv ==
  /\ TypeOK /\ reconciled \in Nat /\ newest \in Nat /\ present \in States
  /\ ServerInv /\ InputsInv
  /\ RingInv(ring, collected, predicted)
  /\ ChainInv
--------------------------------------------------------------------------------
(* Numbers, and the slots of the ring.                                          *)

\* Induction, for the set of the numbers it is about.
LEMMA InductionFrom ==
  ASSUME NEW a \in Nat, NEW S, a \in S, \A n \in Nat : n >= a /\ n \in S => n + 1 \in S
  PROVE  \A n \in Nat : n >= a => n \in S
<1> DEFINE Out == {n \in Nat : n >= a /\ n \notin S}
<1>1. SUFFICES ASSUME Out # {} PROVE FALSE
  OBVIOUS
<1>2. PICK x \in Out : \A y \in Out : ~(<<y, x>> \in OpToRel(<, Nat))
  <2>1. Out \subseteq Nat
    OBVIOUS
  <2> HIDE DEF Out
  <2> QED
    BY <1>1, <2>1, NatLessThanWellFounded, WFMin
<1>3. \A y \in Out : ~(y < x)
  BY <1>2 DEF OpToRel
<1>4. x \in Nat /\ x > a /\ x \notin S
  <2>1. x \in Nat /\ x >= a /\ x \notin S
    OBVIOUS
  <2> QED
    BY <2>1
<1>5. x - 1 \in Nat /\ x - 1 >= a /\ x - 1 < x /\ (x - 1) + 1 = x
  BY <1>4
<1>6. x - 1 \in S
  BY <1>3, <1>5
<1>7. (x - 1) + 1 \in S
  BY <1>5, <1>6
<1> QED
  BY <1>4, <1>5, <1>7

\* A set of numbers up to n with a member has a greatest one.
LEMMA HasGreatest ==
  ASSUME NEW n \in Nat, NEW S \in SUBSET (1 .. n), NEW u \in S
  PROVE  \E m \in S : \A v \in S : v <= m
<1> DEFINE B == {k \in Nat : (\A v \in S : v <= k) => \E m \in S : \A v \in S : v <= m}
<1>1. 0 \in B
  <2>1. ~(u <= 0)
    OBVIOUS
  <2> QED
    BY <2>1
<1>2. ASSUME NEW k \in Nat, k >= 0 /\ k \in B PROVE k + 1 \in B
  <2> SUFFICES ASSUME \A v \in S : v <= k + 1 PROVE \E m \in S : \A v \in S : v <= m
    OBVIOUS
  <2>1. CASE k + 1 \in S
    BY <2>1
  <2>2. CASE k + 1 \notin S
    <3>1. \A v \in S : v <= k
      BY <2>2
    <3> QED
      BY <1>2, <3>1
  <2> QED
    BY <2>1, <2>2
<1>3. n \in B
  <2> HIDE DEF B
  <2>1. \A k \in Nat : k >= 0 /\ k \in B => k + 1 \in B
    BY <1>2
  <2> QED
    BY <1>1, <2>1, InductionFrom
<1> QED
  BY <1>3

\* The constants.
LEMMA ConstantFacts ==
  /\ Ring \in Nat /\ Ring > 0 /\ MaxLead \in Nat
  /\ {MaxTick, MaxPredicted, MaxAhead, MaxJump} \subseteq Nat
  /\ None \notin Given /\ NoState \notin States
  /\ Idle \in Given /\ Inputs \subseteq Given
<1>1. None \notin Given
  BY PredictionAssumption DEF Given
<1>2. NoState \notin States
  <2>1. NoState \in Seq(Given) => NoState[1] \in Given
    BY DEF NoState
  <2> QED
    BY <1>1, <2>1 DEF NoState, States, Given
<1> QED
  BY <1>1, <1>2, PredictionAssumption DEF Given

\* The slot of a tick.
LEMMA SlotIndex ==
  ASSUME NEW t \in Nat
  PROVE  t % Ring \in 0 .. Ring - 1
  BY ConstantFacts

LEMMA Positive ==
  ASSUME NEW R \in Nat, R > 0, NEW x \in Int, x > 0
  PROVE  R * x >= R
  OBVIOUS

\* Two ticks less than a ring apart have slots of their own.
LEMMA SlotsApart ==
  ASSUME NEW a \in Nat, NEW b \in Nat, a < b, b - a < Ring
  PROVE  a % Ring # b % Ring
<1>1. SUFFICES ASSUME a % Ring = b % Ring PROVE FALSE
  OBVIOUS
<1>2. PICK R \in Nat : R = Ring /\ R > 0
  BY ConstantFacts
<1>3. a % R = b % R
  BY <1>1, <1>2
<1>4. PICK x \in Int, y \in Int, z \in Int : a = R * x + z /\ b = R * y + z
  <2>1. a = R * (a \div R) + (a % R) /\ a \div R \in Int /\ a % R \in Int
    BY <1>2
  <2>2. b = R * (b \div R) + (b % R) /\ b \div R \in Int /\ b % R \in Int
    BY <1>2
  <2> QED
    BY <1>3, <2>1, <2>2
<1>5. b - a = R * (y - x)
  BY <1>4
<1>6. y - x > 0
  BY <1>2, <1>5
<1>7. R * (y - x) >= R
  BY <1>2, <1>6, Positive
<1> QED
  BY <1>2, <1>5, <1>7

\* A ring later the slot is the same.
LEMMA SlotAgain ==
  ASSUME NEW a \in Nat
  PROVE  (a + Ring) % Ring = a % Ring
<1>1. PICK R \in Nat : R = Ring /\ R > 0
  BY ConstantFacts
<1>2. PICK x \in Int, z \in Int : a = R * x + z /\ z = a % R /\ z >= 0 /\ z < R
  <2>1. a = R * (a \div R) + (a % R) /\ a \div R \in Int /\ a % R \in Int /\ a % R >= 0 /\ a % R < R
    BY <1>1
  <2> QED
    BY <2>1
<1>3. PICK b \in Nat : b = a + R
  BY <1>1
<1>4. PICK y \in Int, w \in Int : b = R * y + w /\ w = b % R /\ w >= 0 /\ w < R
  <2>1. b = R * (b \div R) + (b % R) /\ b \div R \in Int /\ b % R \in Int /\ b % R >= 0 /\ b % R < R
    BY <1>1
  <2> QED
    BY <2>1
<1>5. R * (y - x - 1) = z - w
  <2>1. R * (y - x - 1) = R * y - R * x - R
    BY <1>1
  <2> QED
    BY <1>2, <1>3, <1>4, <2>1
<1>6. CASE y - x - 1 = 0
  BY <1>1, <1>2, <1>3, <1>5, <1>6
<1>7. w \in Int /\ z \in Int /\ w - z < R /\ z - w < R
  BY <1>1, <1>2, <1>4
<1>8. CASE y - x - 1 > 0
  <2>1. R * (y - x - 1) >= R
    BY <1>1, <1>8, Positive
  <2>2. z - w >= R
    BY <1>5, <2>1
  <2> QED
    BY <1>1, <1>7, <2>2
<1>9. CASE y - x - 1 < 0
  <2>1. R * (-(y - x - 1)) >= R
    BY <1>1, <1>9, Positive
  <2>2. R * (-(y - x - 1)) = w - z
    BY <1>5
  <2>3. w - z >= R
    BY <2>1, <2>2
  <2> QED
    BY <1>1, <1>7, <2>3
<1> QED
  BY <1>6, <1>8, <1>9

\* What Put changes.
LEMMA PutFacts ==
  ASSUME NEW r \in Rings, NEW t \in Nat, NEW s \in Slots, s.tick = t, NEW r2, r2 = Put(r, t, s)
  PROVE  /\ r2 \in Rings /\ slot(r2, t) = s /\ HeldAt(r2, t)
         /\ \A k \in 0 .. Ring - 1 : k # t % Ring => r2[k] = r[k]
         /\ \A u \in Nat : u % Ring # t % Ring => slot(r2, u) = slot(r, u)
         /\ \A u \in Nat : u # t /\ HeldAt(r2, u) => HeldAt(r, u) /\ slot(r2, u) = slot(r, u)
<1>1. t % Ring \in 0 .. Ring - 1
  BY SlotIndex
<1>2. r \in [0 .. Ring - 1 -> Slots] /\ DOMAIN r = 0 .. Ring - 1
  BY DEF Rings
<1>3. r2 = [r EXCEPT ![t % Ring] = s]
  BY DEF Put
<1>4. r2 \in [0 .. Ring - 1 -> Slots] /\ r2[t % Ring] = s
  BY <1>1, <1>2, <1>3
<1>5. \A k \in 0 .. Ring - 1 : k # t % Ring => r2[k] = r[k]
  BY <1>2, <1>3
<1>6. r2 \in Rings
  BY <1>4, <1>5 DEF Rings
<1>7. slot(r2, t) = s /\ HeldAt(r2, t)
  BY <1>4 DEF slot, HeldAt
<1>8. \A u \in Nat : u % Ring # t % Ring => slot(r2, u) = slot(r, u)
  BY <1>5, SlotIndex DEF slot
<1>9. ASSUME NEW u \in Nat, u # t, HeldAt(r2, u)
      PROVE  HeldAt(r, u) /\ slot(r2, u) = slot(r, u)
  <2>1. slot(r2, u).tick = u
    BY <1>9 DEF HeldAt
  <2>2. u % Ring # t % Ring
    <3>1. u % Ring = t % Ring => slot(r2, u) = slot(r2, t)
      BY DEF slot
    <3> QED
      BY <1>7, <1>9, <2>1, <3>1
  <2>3. slot(r2, u) = slot(r, u)
    BY <1>8, <2>2
  <2> QED
    BY <2>1, <2>3 DEF HeldAt
<1> QED
  BY <1>5, <1>6, <1>7, <1>8, <1>9

\* A slot of the ring that is typed.
LEMMA SlotType ==
  ASSUME NEW r \in Rings, NEW t \in Nat
  PROVE  slot(r, t) \in Slots
  BY SlotIndex DEF slot, Rings

LEMMA NoSlotType == NoSlot \in Slots
  BY DEF NoSlot, Slots
--------------------------------------------------------------------------------
(* The ring, however it is written.                                             *)

\* What repeated the last input still does when no slot became one of a collected input.
LEMMA RepeatsLater ==
  ASSUME NEW r, NEW r2, NEW c, NEW t \in Nat, NEW x, Repeats(r, c, t, x), DOMAIN c \subseteq Nat,
         \A u \in Nat : HeldAt(r2, u) /\ slot(r2, u).collected => HeldAt(r, u) /\ slot(r, u).collected
  PROVE  Repeats(r2, c, t, x)
  BY DEF Repeats

\* A slot is written without an input of its own.
LEMMA PutKeeps ==
  ASSUME NEW p \in Nat, NEW top \in Nat, NEW c, NEW r, NEW t \in Nat, NEW s \in Slots, NEW r2,
         RingInv(r, c, p), DOMAIN c \subseteq Nat, p <= top, t <= top, s.tick = t,
         r2 = Put(r, t, s),
         s.collected => HeldAt(r, t) /\ slot(r, t).collected /\ s.input = slot(r, t).input,
         s.input # None => Repeats(r2, c, t, s.input)
  PROVE  RingInv(r2, c, top)
<1>1. r \in Rings /\ Ticks(r, p) /\ OwnInputs(r, c) /\ StandIns(r, c)
  BY DEF RingInv
<1>2. /\ r2 \in Rings /\ slot(r2, t) = s /\ HeldAt(r2, t)
      /\ \A k \in 0 .. Ring - 1 : k # t % Ring => r2[k] = r[k]
      /\ \A u \in Nat : u # t /\ HeldAt(r2, u) => HeldAt(r, u) /\ slot(r2, u) = slot(r, u)
  BY <1>1, PutFacts
<1>3. r2[t % Ring] = s /\ t % Ring \in 0 .. Ring - 1 /\ r[t % Ring] = slot(r, t)
  BY <1>2, SlotIndex DEF slot
<1>4. \A k \in 0 .. Ring - 1 : r[k] \in Slots /\ r[k].tick \in Nat
  BY <1>1 DEF Rings, Slots
<1>5. Ticks(r2, top)
  BY <1>1, <1>2, <1>3, <1>4 DEF Ticks
<1>6. OwnInputs(r2, c)
  <2> SUFFICES ASSUME NEW k \in 0 .. Ring - 1, r2[k].collected
               PROVE  r2[k].tick \in DOMAIN c /\ r2[k].input = c[r2[k].tick]
    BY DEF OwnInputs
  <2>1. CASE k # t % Ring
    BY <1>1, <1>2, <2>1 DEF OwnInputs
  <2>2. CASE k = t % Ring
    <3>1. HeldAt(r, t) /\ r[k].collected /\ s.input = r[k].input /\ r[k].tick = t
      BY <1>3, <2>2 DEF HeldAt
    <3>2. r[k].tick \in DOMAIN c /\ r[k].input = c[r[k].tick]
      BY <1>1, <3>1 DEF OwnInputs
    <3> QED
      BY <1>3, <2>2, <3>1, <3>2
  <2> QED
    BY <2>1, <2>2
<1>7. \A u \in Nat : HeldAt(r2, u) /\ slot(r2, u).collected => HeldAt(r, u) /\ slot(r, u).collected
  BY <1>2
<1>8. StandIns(r2, c)
  <2> SUFFICES ASSUME NEW k \in 0 .. Ring - 1, r2[k].input # None
               PROVE  Repeats(r2, c, r2[k].tick, r2[k].input)
    BY DEF StandIns
  <2>1. CASE k # t % Ring
    <3>1. r2[k] = r[k]
      BY <1>2, <2>1
    <3>2. Repeats(r, c, r[k].tick, r[k].input)
      BY <1>1, <3>1 DEF StandIns
    <3>3. Repeats(r2, c, r[k].tick, r[k].input)
      BY <1>4, <1>7, <3>2, RepeatsLater
    <3> QED
      BY <3>1, <3>3
  <2>2. CASE k = t % Ring
    BY <1>3, <2>2
  <2> QED
    BY <2>1, <2>2
<1> QED
  BY <1>2, <1>5, <1>6, <1>8 DEF RingInv

\* A server state is kept.
LEMMA KeepFacts ==
  ASSUME NEW p \in Nat, NEW top \in Nat, NEW c, NEW r, NEW t \in Nat, NEW server \in States, NEW r2,
         RingInv(r, c, p), DOMAIN c \subseteq Nat, p <= top, t <= top,
         r2 = keep_server_state(r, t, server)
  PROVE  /\ RingInv(r2, c, top) /\ HeldAt(r2, t) /\ slot(r2, t).state = server
         /\ \A u \in Nat : u # t /\ HeldAt(r2, u) => HeldAt(r, u) /\ slot(r2, u) = slot(r, u)
<1>1. r \in Rings /\ StandIns(r, c)
  BY DEF RingInv
<1>2. slot(r, t) \in Slots
  BY <1>1, SlotType
<1> DEFINE s == IF HeldAt(r, t) THEN [slot(r, t) EXCEPT !.state = server]
                ELSE [NoSlot EXCEPT !.tick = t, !.state = server]
<1>3. /\ s \in Slots /\ s.tick = t /\ s.state = server
      /\ s.collected => HeldAt(r, t) /\ slot(r, t).collected /\ s.input = slot(r, t).input
      /\ s.input # None => HeldAt(r, t) /\ s.input = slot(r, t).input
  <2>1. CASE HeldAt(r, t)
    BY <1>2, <2>1 DEF Slots, HeldAt
  <2>2. CASE ~HeldAt(r, t)
    BY <2>2, ConstantFacts DEF Slots, NoSlot
  <2> QED
    BY <2>1, <2>2
<1>4. r2 = Put(r, t, s)
  BY DEF keep_server_state
<1> HIDE DEF s
<1>5. /\ slot(r2, t) = s /\ HeldAt(r2, t)
      /\ \A u \in Nat : u # t /\ HeldAt(r2, u) => HeldAt(r, u) /\ slot(r2, u) = slot(r, u)
  BY <1>1, <1>3, <1>4, PutFacts
<1>6. \A u \in Nat : HeldAt(r2, u) /\ slot(r2, u).collected => HeldAt(r, u) /\ slot(r, u).collected
  BY <1>3, <1>5
<1>7. s.input # None => Repeats(r2, c, t, s.input)
  <2> SUFFICES ASSUME s.input # None PROVE Repeats(r2, c, t, s.input)
    OBVIOUS
  <2>1. Repeats(r, c, t, s.input)
    <3>1. HeldAt(r, t) /\ s.input = slot(r, t).input
      BY <1>3
    <3> QED
      BY <1>1, <3>1, SlotIndex DEF StandIns, HeldAt, slot
  <2> QED
    BY <1>6, <2>1, RepeatsLater
<1>8. RingInv(r2, c, top)
  BY <1>3, <1>4, <1>7, PutKeeps
<1> QED
  BY <1>3, <1>5, <1>8

\* An empty ring.
LEMMA EmptyRing ==
  ASSUME NEW c, NEW r, r = [k \in 0 .. Ring - 1 |-> NoSlot]
  PROVE  RingInv(r, c, 0) /\ \A t \in Nat : HeldAt(r, t) => t = 0
<1>1. r \in Rings
  BY NoSlotType DEF Rings, NoSlot
<1>2. Ticks(r, 0) /\ OwnInputs(r, c) /\ StandIns(r, c)
  BY DEF Ticks, OwnInputs, StandIns, NoSlot
<1>3. \A t \in Nat : HeldAt(r, t) => t = 0
  BY SlotIndex DEF HeldAt, slot, NoSlot
<1> QED
  BY <1>1, <1>2, <1>3 DEF RingInv

\* The client's own input of a new tick.
LEMMA PutOwn ==
  ASSUME NEW top \in Nat, NEW c, NEW r, NEW input \in Inputs, NEW s \in Slots, NEW r2, NEW c2,
         RingInv(r, c, top), DOMAIN c \subseteq 1 .. top, \A t \in DOMAIN c : c[t] \in Inputs,
         s.tick = top + 1, s.input = input, s.collected,
         r2 = Put(r, top + 1, s), c2 = With(c, top + 1, input)
  PROVE  RingInv(r2, c2, top + 1)
<1>1. r \in Rings /\ Ticks(r, top) /\ OwnInputs(r, c) /\ StandIns(r, c)
  BY DEF RingInv
<1>2. PICK t \in Nat : t = top + 1
  OBVIOUS
<1>3. /\ r2 \in Rings /\ slot(r2, t) = s /\ HeldAt(r2, t)
      /\ \A k \in 0 .. Ring - 1 : k # t % Ring => r2[k] = r[k]
      /\ \A u \in Nat : u # t /\ HeldAt(r2, u) => HeldAt(r, u) /\ slot(r2, u) = slot(r, u)
  BY <1>1, <1>2, PutFacts
<1>4. r2[t % Ring] = s /\ t % Ring \in 0 .. Ring - 1
  BY <1>3, SlotIndex DEF slot
<1>5. \A k \in 0 .. Ring - 1 : r[k] \in Slots /\ r[k].tick \in Nat /\ r[k].tick <= top
  BY <1>1 DEF Rings, Slots, Ticks
<1>6. DOMAIN c2 = DOMAIN c \cup {t} /\ c2[t] = input /\ \A u \in DOMAIN c : c2[u] = c[u] /\ u <= top /\ u \in Nat
  BY <1>2 DEF With
<1>7. Ticks(r2, top + 1)
  BY <1>2, <1>3, <1>4, <1>5 DEF Ticks
<1>8. OwnInputs(r2, c2)
  <2> SUFFICES ASSUME NEW k \in 0 .. Ring - 1, r2[k].collected
               PROVE  r2[k].tick \in DOMAIN c2 /\ r2[k].input = c2[r2[k].tick]
    BY DEF OwnInputs
  <2>1. CASE k # t % Ring
    BY <1>1, <1>3, <1>6, <2>1 DEF OwnInputs
  <2>2. CASE k = t % Ring
    BY <1>2, <1>4, <1>6, <2>2
  <2> QED
    BY <2>1, <2>2
<1>9. StandIns(r2, c2)
  <2> SUFFICES ASSUME NEW k \in 0 .. Ring - 1, r2[k].input # None
               PROVE  Repeats(r2, c2, r2[k].tick, r2[k].input)
    BY DEF StandIns
  <2>1. CASE k # t % Ring
    <3>1. r2[k] = r[k]
      BY <1>3, <2>1
    <3>2. Repeats(r, c, r[k].tick, r[k].input)
      BY <1>1, <3>1 DEF StandIns
    <3>3. r[k].tick < t
      BY <1>2, <1>5
    <3>4. PICK u2 \in Nat : u2 = r[k].tick
      BY <1>5
    <3>5. ASSUME NEW u \in DOMAIN c2, u <= u2, u2 - u < Ring, \A v \in DOMAIN c2 : ~(u < v /\ v <= u2),
                 HeldAt(r2, u), slot(r2, u).collected
          PROVE  r[k].input = c2[u]
      <4>1. u \in DOMAIN c /\ u \in Nat /\ u # t
        BY <1>2, <1>6, <3>3, <3>4, <3>5
      <4>2. HeldAt(r, u) /\ slot(r, u).collected
        BY <1>3, <3>5, <4>1
      <4>3. \A v \in DOMAIN c : ~(u < v /\ v <= u2)
        BY <1>6, <3>5
      <4>4. r[k].input = c[u]
        BY <3>2, <3>4, <3>5, <4>1, <4>2, <4>3 DEF Repeats
      <4> QED
        BY <1>6, <4>1, <4>4
    <3>6. Repeats(r2, c2, u2, r[k].input)
      BY <3>5 DEF Repeats
    <3> QED
      BY <3>1, <3>4, <3>6
  <2>2. CASE k = t % Ring
    <3>1. r2[k].tick = t /\ r2[k].input = input
      BY <1>2, <1>4, <2>2
    <3>2. ASSUME NEW u \in DOMAIN c2, u <= t, \A v \in DOMAIN c2 : ~(u < v /\ v <= t)
          PROVE  input = c2[u]
      <4>1. u = t
        BY <1>2, <1>6, <3>2
      <4> QED
        BY <1>6, <4>1
    <3>3. Repeats(r2, c2, t, input)
      BY <3>2 DEF Repeats
    <3> QED
      BY <3>1, <3>3
  <2> QED
    BY <2>1, <2>2
<1> QED
  BY <1>2, <1>3, <1>7, <1>8, <1>9 DEF RingInv

\* States are dropped.
LEMMA DropFacts ==
  ASSUME NEW p \in Nat, NEW c, NEW r, RingInv(r, c, p), NEW r2, r2 = drop_states(r), DOMAIN c \subseteq Nat
  PROVE  RingInv(r2, c, p) /\ \A k \in 0 .. Ring - 1 : r2[k].state = NoState
<1>1. r \in Rings /\ Ticks(r, p) /\ OwnInputs(r, c) /\ StandIns(r, c)
  BY DEF RingInv
<1>2. DOMAIN r = 0 .. Ring - 1 /\ \A k \in 0 .. Ring - 1 : r[k] \in Slots
  BY <1>1 DEF Rings
<1>3. /\ r2 \in [0 .. Ring - 1 -> Slots]
      /\ \A k \in 0 .. Ring - 1 : /\ r2[k].tick = r[k].tick /\ r2[k].input = r[k].input
                                  /\ r2[k].collected = r[k].collected /\ r2[k].state = NoState
  BY <1>2 DEF drop_states, Slots
<1>4. r2 \in Rings /\ Ticks(r2, p) /\ OwnInputs(r2, c)
  BY <1>1, <1>3 DEF Rings, Ticks, OwnInputs
<1>5. \A u \in Nat : HeldAt(r2, u) /\ slot(r2, u).collected => HeldAt(r, u) /\ slot(r, u).collected
  BY <1>3, SlotIndex DEF HeldAt, slot
<1>6. StandIns(r2, c)
  <2> SUFFICES ASSUME NEW k \in 0 .. Ring - 1, r2[k].input # None
               PROVE  Repeats(r2, c, r2[k].tick, r2[k].input)
    BY DEF StandIns
  <2>1. Repeats(r, c, r[k].tick, r[k].input)
    BY <1>1, <1>3 DEF StandIns
  <2>2. r[k].tick \in Nat
    BY <1>2 DEF Slots
  <2>3. Repeats(r2, c, r[k].tick, r[k].input)
    BY <1>5, <2>1, <2>2, RepeatsLater
  <2> QED
    BY <1>3, <2>3
<1> QED
  BY <1>3, <1>4, <1>6 DEF RingInv
--------------------------------------------------------------------------------
(* The replay.                                                                  *)

First(r, state, n) == [ring |-> r, state |-> state, last |-> last_input_at_or_before(r, n)]

IsRun(f, r, state, n, p) ==
  f = [t \in n .. p |-> IF t = n THEN First(r, state, n) ELSE Replayed(f[t - 1], t)]

\* The recursion defines a function.
LEMMA RunExists ==
  ASSUME NEW r, NEW state, NEW n \in Nat, NEW p \in Nat, n <= p
  PROVE  \E f : IsRun(f, r, state, n, p)
<1> DEFINE S == {k \in Nat : \E f : IsRun(f, r, state, n, k)}
<1>1. n \in S
  <2> DEFINE f == [t \in n .. n |-> First(r, state, n)]
  <2>1. f = [t \in n .. n |-> IF t = n THEN First(r, state, n) ELSE Replayed(f[t - 1], t)]
    OBVIOUS
  <2>2. IsRun(f, r, state, n, n)
    BY <2>1 DEF IsRun
  <2> QED
    BY <2>2
<1>2. ASSUME NEW m \in Nat, m >= n, m \in S PROVE m + 1 \in S
  <2>1. PICK f : IsRun(f, r, state, n, m)
    BY <1>2
  <2> DEFINE g == [t \in n .. m + 1 |-> IF t = m + 1 THEN Replayed(f[m], t) ELSE f[t]]
  <2>2. \A t \in n .. m : f[t] = IF t = n THEN First(r, state, n) ELSE Replayed(f[t - 1], t)
    BY <2>1 DEF IsRun
  <2>3. \A t \in n .. m + 1 : g[t] = IF t = n THEN First(r, state, n) ELSE Replayed(g[t - 1], t)
    <3> TAKE t \in n .. m + 1
    <3>1. CASE t = m + 1
      BY <1>2, <3>1
    <3>2. CASE t \in n .. m
      <4>1. g[t] = f[t] /\ (t # n => g[t - 1] = f[t - 1])
        BY <3>2
      <4> QED
        BY <2>2, <3>2, <4>1
    <3> QED
      BY <3>1, <3>2
  <2>4. g = [t \in n .. m + 1 |-> IF t = n THEN First(r, state, n) ELSE Replayed(g[t - 1], t)]
    BY <2>3
  <2>5. IsRun(g, r, state, n, m + 1)
    <3> HIDE DEF g
    <3> QED
      BY <2>4 DEF IsRun
  <2> QED
    BY <2>5
<1>3. p \in S
  <2> HIDE DEF S
  <2>1. \A m \in Nat : m >= n /\ m \in S => m + 1 \in S
    BY <1>2
  <2> QED
    BY <1>1, <2>1, InductionFrom
<1> QED
  BY <1>3

\* Replay is the last value of a run.
LEMMA ReplayIsRun ==
  ASSUME NEW r, NEW state, NEW n \in Nat, NEW p \in Nat, n <= p
  PROVE  \E f : IsRun(f, r, state, n, p) /\ Replay(r, state, n, p) = f[p]
<1> DEFINE f == CHOOSE f : IsRun(f, r, state, n, p)
<1>1. IsRun(f, r, state, n, p)
  BY RunExists
<1>2. Replay(r, state, n, p) = f[p]
  BY DEF Replay, IsRun, First
<1> QED
  BY <1>1, <1>2

\* What holds of the replay at tick t, when it started at n with the server's state there.
Good(b, n, t, p, c, server) ==
  /\ RingInv(b.ring, c, p) /\ b.state \in States /\ b.last \in Given
  /\ Repeats(b.ring, c, t, b.last)
  /\ \A u \in n + 1 .. t :
       /\ HeldAt(b.ring, u) /\ slot(b.ring, u).input # None /\ slot(b.ring, u).state \in States
       /\ u = n + 1 => slot(b.ring, u).state = step(server, slot(b.ring, u).input)
       /\ u < t => slot(b.ring, u + 1).state = step(slot(b.ring, u).state, slot(b.ring, u + 1).input)
  /\ b.state = IF t = n THEN server ELSE slot(b.ring, t).state

\* Looking back from a tick finds what repeats the last input collected.
LEMMA LookBack ==
  ASSUME NEW p \in Nat, NEW c, NEW r, NEW n \in Nat, RingInv(r, c, p),
         DOMAIN c \subseteq Nat \ {0}, \A t \in DOMAIN c : c[t] \in Inputs
  PROVE  last_input_at_or_before(r, n) \in Given /\ Repeats(r, c, n, last_input_at_or_before(r, n))
<1>1. r \in Rings /\ OwnInputs(r, c) /\ StandIns(r, c)
  BY DEF RingInv
<1> DEFINE held == {u \in 1 .. n : n - u < Ring /\ HeldAt(r, u) /\ slot(r, u).input # None}
<1> DEFINE m == CHOOSE u \in held : \A v \in held : v <= u
<1>2. last_input_at_or_before(r, n) = IF held = {} THEN Idle ELSE slot(r, m).input
  BY DEF last_input_at_or_before
<1>3. held # {} => m \in held /\ \A v \in held : v <= m
  <2> HIDE DEF held
  <2>1. held \subseteq 1 .. n
    BY DEF held
  <2> QED
    BY <2>1, HasGreatest
<1>4. last_input_at_or_before(r, n) \in Given
  <2>1. CASE held = {}
    BY <1>2, <2>1, ConstantFacts
  <2>2. CASE held # {}
    <3>1. m \in Nat /\ slot(r, m).input # None
      BY <1>3, <2>2
    <3>2. slot(r, m) \in Slots
      BY <1>1, <3>1, SlotType
    <3> QED
      BY <1>2, <2>2, <3>1, <3>2 DEF Slots
  <2> QED
    BY <2>1, <2>2
<1>5. ASSUME NEW u \in DOMAIN c, u <= n, n - u < Ring, \A v \in DOMAIN c : ~(u < v /\ v <= n),
             HeldAt(r, u), slot(r, u).collected
      PROVE  last_input_at_or_before(r, n) = c[u]
  <2>1. u \in Nat /\ u > 0
    OBVIOUS
  <2>2. slot(r, u).input = c[u]
    BY <1>1, <1>5, <2>1, SlotIndex DEF OwnInputs, slot, HeldAt
  <2>3. slot(r, u).input # None
    BY <2>2, ConstantFacts
  <2>4. u \in held
    BY <1>5, <2>1, <2>3
  <2>5. m \in held /\ m >= u
    BY <1>3, <2>4
  <2>6. m \in Nat /\ m <= n /\ HeldAt(r, m) /\ slot(r, m).input # None
    BY <2>5
  <2>7. Repeats(r, c, m, slot(r, m).input)
    BY <1>1, <2>6, SlotIndex DEF StandIns, HeldAt, slot
  <2>8. u <= m /\ m - u < Ring /\ \A v \in DOMAIN c : ~(u < v /\ v <= m)
    <3> HIDE DEF m, held
    <3>1. Ring \in Nat
      BY ConstantFacts
    <3> QED
      BY <1>5, <2>1, <2>5, <2>6, <3>1
  <2>9. slot(r, m).input = c[u]
    <3> HIDE DEF m, held
    <3> QED
      BY <1>5, <2>7, <2>8 DEF Repeats
  <2> QED
    BY <1>2, <2>4, <2>9
<1> QED
  BY <1>4, <1>5 DEF Repeats
\* One tick of the replay.
LEMMA ReplayedGood ==
  ASSUME NEW p \in Nat, NEW c, NEW n \in Nat, NEW server \in States, NEW k \in n .. p - 1, NEW b,
         p - n < Ring, DOMAIN c \subseteq Nat \ {0}, Good(b, n, k, p, c, server),
         NEW d, d = Replayed(b, k + 1)
  PROVE  Good(d, n, k + 1, p, c, server)
<1>1. PICK t \in Nat : t = k + 1 /\ t <= p /\ k \in Nat /\ t > 0
  OBVIOUS
<1>2. /\ RingInv(b.ring, c, p) /\ b.state \in States /\ b.last \in Given
      /\ Repeats(b.ring, c, k, b.last)
      /\ b.state = IF k = n THEN server ELSE slot(b.ring, k).state
  BY DEF Good
<1>3. /\ b.ring \in Rings /\ StandIns(b.ring, c) /\ slot(b.ring, t) \in Slots
      /\ Ring \in Nat /\ Ring > 0 /\ None \notin Given
  BY <1>2, SlotType, ConstantFacts DEF RingInv
<1> DEFINE own == HeldAt(b.ring, t) /\ slot(b.ring, t).input # None
<1> DEFINE input == IF own THEN slot(b.ring, t).input ELSE b.last
<1> DEFINE after == step(b.state, input)
<1> DEFINE old == IF own THEN slot(b.ring, t) ELSE [NoSlot EXCEPT !.tick = t, !.input = input]
<1> DEFINE s == [old EXCEPT !.state = after]
<1>4. input \in Given /\ input # None
  BY <1>2, <1>3 DEF Slots
<1>5. after \in States
  BY <1>2, <1>4 DEF step, States, Given
<1>6. old \in Slots /\ old.tick = t /\ old.input = input /\ (old.collected => own /\ slot(b.ring, t).collected)
  <2>1. CASE own
    BY <1>3, <2>1 DEF HeldAt
  <2>2. CASE ~own
    <3>1. old = [tick |-> t, input |-> input, collected |-> FALSE, state |-> NoState]
      BY <2>2 DEF NoSlot
    <3> HIDE DEF old, own, input
    <3> QED
      BY <1>4, <3>1 DEF Slots
  <2> QED
    BY <2>1, <2>2
<1>7. /\ s \in Slots /\ s.tick = t /\ s.input = input /\ s.state = after
      /\ s.collected => own /\ slot(b.ring, t).collected
  <2> HIDE DEF old, own, input, after
  <2> QED
    BY <1>5, <1>6 DEF Slots
<1>8. d.ring = Put(b.ring, t, s) /\ d.state = after /\ d.last = input
  BY <1>1 DEF Replayed, Store
<1>9. own => input = slot(b.ring, t).input
  OBVIOUS
<1>10. ~own => input = b.last
  OBVIOUS
<1> HIDE DEF s, old, input
<1>11. PICK r : r = d.ring
  OBVIOUS
<1>12. /\ r \in Rings /\ slot(r, t) = s /\ HeldAt(r, t)
       /\ \A u \in Nat : u % Ring # t % Ring => slot(r, u) = slot(b.ring, u)
       /\ \A u \in Nat : u # t /\ HeldAt(r, u) => HeldAt(b.ring, u) /\ slot(r, u) = slot(b.ring, u)
  BY <1>3, <1>7, <1>8, <1>11, PutFacts
<1>13. \A u \in Nat : HeldAt(r, u) /\ slot(r, u).collected => HeldAt(b.ring, u) /\ slot(b.ring, u).collected
  BY <1>7, <1>12
<1>14. Repeats(r, c, t, input)
  <2>1. CASE own
    <3>1. Repeats(b.ring, c, t, input)
      BY <1>1, <1>3, <1>9, <2>1, SlotIndex DEF StandIns, HeldAt, slot
    <3> QED
      BY <1>13, <3>1, RepeatsLater
  <2>2. CASE ~own
    <3>1. Repeats(r, c, k, b.last)
      BY <1>1, <1>2, <1>13, RepeatsLater
    <3>2. ASSUME NEW u \in DOMAIN c, u <= t, t - u < Ring, \A v \in DOMAIN c : ~(u < v /\ v <= t),
                 HeldAt(r, u), slot(r, u).collected
          PROVE  b.last = c[u]
      <4>1. u # t
        BY <1>7, <1>12, <2>2, <3>2
      <4>2. u \in Nat /\ u <= k /\ k - u < Ring
        BY <1>1, <1>3, <3>2, <4>1
      <4>3. \A v \in DOMAIN c : ~(u < v /\ v <= k)
        BY <1>1, <3>2
      <4> QED
        BY <3>1, <3>2, <4>2, <4>3 DEF Repeats
    <3>3. Repeats(r, c, t, b.last)
      BY <3>2 DEF Repeats
    <3> QED
      BY <1>10, <2>2, <3>3
  <2> QED
    BY <2>1, <2>2
<1>15. RingInv(r, c, p)
  <2>1. s.collected => HeldAt(b.ring, t) /\ slot(b.ring, t).collected /\ s.input = slot(b.ring, t).input
    BY <1>7, <1>9
  <2>2. s.input # None => Repeats(r, c, t, s.input)
    BY <1>7, <1>14
  <2>3. r = Put(b.ring, t, s) /\ p <= p /\ t <= p /\ DOMAIN c \subseteq Nat
    BY <1>1, <1>8, <1>11
  <2> QED
    BY <1>1, <1>2, <1>7, <2>1, <2>2, <2>3, PutKeeps
<1>16. \A u \in n + 1 .. k : slot(r, u) = slot(b.ring, u) /\ u \in Nat
  <2> TAKE u \in n + 1 .. k
  <2>1. u \in Nat /\ u < t /\ t - u < Ring
    BY <1>1, <1>3
  <2>2. u % Ring # t % Ring
    BY <2>1, SlotsApart
  <2> QED
    BY <1>12, <2>1, <2>2
<1>17. ASSUME NEW u \in n + 1 .. t
       PROVE  /\ HeldAt(r, u) /\ slot(r, u).input # None /\ slot(r, u).state \in States
              /\ u = n + 1 => slot(r, u).state = step(server, slot(r, u).input)
              /\ u < t => slot(r, u + 1).state = step(slot(r, u).state, slot(r, u + 1).input)
  <2>1. CASE u = t
    <3>1. HeldAt(r, u) /\ slot(r, u).input # None /\ slot(r, u).state \in States
      BY <1>4, <1>5, <1>7, <1>12, <2>1
    <3>2. u = n + 1 => slot(r, u).state = step(server, slot(r, u).input)
      BY <1>1, <1>2, <1>7, <1>12, <2>1
    <3> QED
      BY <1>1, <2>1, <3>1, <3>2
  <2>2. CASE u \in n + 1 .. k
    <3>1. /\ HeldAt(b.ring, u) /\ slot(b.ring, u).input # None /\ slot(b.ring, u).state \in States
          /\ u = n + 1 => slot(b.ring, u).state = step(server, slot(b.ring, u).input)
          /\ u < k => slot(b.ring, u + 1).state = step(slot(b.ring, u).state, slot(b.ring, u + 1).input)
      BY <2>2 DEF Good
    <3>2. slot(r, u) = slot(b.ring, u)
      BY <1>16, <2>2
    <3>3. HeldAt(r, u)
      BY <3>1, <3>2 DEF HeldAt
    <3>4. u < t => slot(r, u + 1).state = step(slot(r, u).state, slot(r, u + 1).input)
      <4>1. CASE u = k
        <5>1. u + 1 = t /\ k # n /\ u \in Nat
          BY <1>1, <2>2, <4>1
        <5>2. b.state = slot(b.ring, u).state
          BY <1>2, <4>1, <5>1
        <5> QED
          BY <1>7, <1>12, <3>2, <5>1, <5>2
      <4>2. CASE u < k
        <5>1. u + 1 \in n + 1 .. k
          BY <2>2, <4>2
        <5>2. slot(r, u + 1) = slot(b.ring, u + 1)
          BY <1>16, <5>1
        <5> QED
          BY <3>1, <3>2, <4>2, <5>2
      <4> QED
        BY <2>2, <4>1, <4>2
    <3> QED
      BY <3>1, <3>2, <3>3, <3>4
  <2> QED
    BY <1>1, <2>1, <2>2
<1>18. d.state = IF t = n THEN server ELSE slot(r, t).state
  BY <1>1, <1>7, <1>8, <1>12
<1>19. Good(d, n, t, p, c, server)
  BY <1>4, <1>5, <1>8, <1>11, <1>14, <1>15, <1>17, <1>18 DEF Good
<1> QED
  BY <1>1, <1>19

\* The whole replay.
LEMMA ReplayGood ==
  ASSUME NEW p \in Nat, NEW c, NEW r, NEW n \in Nat, NEW server \in States, n <= p, p - n < Ring,
         RingInv(r, c, p), DOMAIN c \subseteq Nat \ {0}, \A t \in DOMAIN c : c[t] \in Inputs
  PROVE  Good(Replay(r, server, n, p), n, p, p, c, server)
<1>1. PICK f : IsRun(f, r, server, n, p) /\ Replay(r, server, n, p) = f[p]
  BY ReplayIsRun
<1>2. \A t \in n .. p : f[t] = IF t = n THEN First(r, server, n) ELSE Replayed(f[t - 1], t)
  BY <1>1 DEF IsRun
<1> DEFINE S == {t \in Nat : t \in n .. p => Good(f[t], n, t, p, c, server)}
<1>3. n \in S
  <2>1. f[n] = First(r, server, n)
    BY <1>2
  <2>2. last_input_at_or_before(r, n) \in Given /\ Repeats(r, c, n, last_input_at_or_before(r, n))
    BY LookBack
  <2>3. Good(f[n], n, n, p, c, server)
    BY <2>1, <2>2 DEF Good, First
  <2> QED
    BY <2>3
<1>4. ASSUME NEW k \in Nat, k >= n, k \in S PROVE k + 1 \in S
  <2> SUFFICES ASSUME k + 1 \in n .. p PROVE Good(f[k + 1], n, k + 1, p, c, server)
    OBVIOUS
  <2>1. k \in n .. p - 1
    BY <1>4
  <2>2. Good(f[k], n, k, p, c, server)
    BY <1>4, <2>1
  <2>3. f[k + 1] = Replayed(f[k], k + 1)
    <3>1. k + 1 # n /\ (k + 1) - 1 = k
      BY <1>4
    <3> QED
      BY <1>2, <3>1
  <2> QED
    BY <2>1, <2>2, <2>3, ReplayedGood
<1>5. p \in S
  <2> HIDE DEF S
  <2>1. \A k \in Nat : k >= n /\ k \in S => k + 1 \in S
    BY <1>4
  <2> QED
    BY <1>3, <2>1, InductionFrom
<1> QED
  BY <1>1, <1>5
--------------------------------------------------------------------------------
(* Where the client is, after each outcome of reconcile and after its tick.     *)

\* The tick after the newest, with the client's own input.
LEMMA TickChains ==
  ASSUME NEW top \in Nat, NEW n \in Nat, NEW r \in Rings, NEW pres \in States, NEW base,
         Chain(r, n, top, pres, base), NEW input \in Inputs, NEW s \in Slots,
         s.tick = top + 1, s.input = input, s.state = step(pres, input),
         NEW r2, r2 = Put(r, top + 1, s)
  PROVE  HeldAt(r2, top + 1) /\ Chain(r2, n, top + 1, s.state, base)
<1>1. PICK now \in Nat : now = top + 1
  OBVIOUS
<1>2. Ring \in Nat /\ Ring > 0 /\ input # None
  BY ConstantFacts
<1>3. /\ slot(r2, now) = s /\ HeldAt(r2, now)
      /\ \A u \in Nat : u % Ring # now % Ring => slot(r2, u) = slot(r, u)
      /\ \A u \in Nat : u # now /\ HeldAt(r2, u) => HeldAt(r, u) /\ slot(r2, u) = slot(r, u)
  BY <1>1, PutFacts
<1>4. n <= top /\ (n = top => pres = base) /\ (n < top /\ top - n < Ring => HeldAt(r, n + 1))
  BY DEF Chain
<1>5. s.state \in States
  BY DEF step, States
<1>6. ASSUME NEW u \in Nat, u < now, now - u < Ring
      PROVE  slot(r2, u) = slot(r, u) /\ (HeldAt(r, u) => HeldAt(r2, u))
  <2>1. u % Ring # now % Ring
    BY <1>6, SlotsApart
  <2> QED
    BY <1>3, <2>1 DEF HeldAt
<1>7. n < now /\ now - n < Ring => HeldAt(r2, n + 1)
  <2> SUFFICES ASSUME now - n < Ring PROVE HeldAt(r2, n + 1)
    OBVIOUS
  <2>1. CASE n = top
    BY <1>1, <1>3, <2>1
  <2>2. CASE n < top
    <3>1. HeldAt(r, n + 1) /\ n + 1 \in Nat /\ n + 1 < now /\ now - (n + 1) < Ring
      BY <1>1, <1>2, <1>4, <2>2
    <3> QED
      BY <1>6, <3>1
  <2> QED
    BY <1>4, <2>1, <2>2
<1>8. ASSUME NEW t \in n + 1 .. now, HeldAt(r2, t)
      PROVE  Linked(r2, t, now, s.state) /\ (t = n + 1 => slot(r2, t).state = step(base, slot(r2, t).input))
  <2>1. CASE t = now
    <3>1. Linked(r2, t, now, s.state)
      BY <1>2, <1>3, <1>5, <2>1 DEF Linked
    <3>2. t = n + 1 => slot(r2, t).state = step(base, slot(r2, t).input)
      BY <1>1, <1>3, <1>4, <2>1
    <3> QED
      BY <3>1, <3>2
  <2>2. CASE t < now
    <3>1. t \in Nat /\ t \in n + 1 .. top
      BY <1>1, <2>2
    <3>2. HeldAt(r, t) /\ slot(r2, t) = slot(r, t)
      BY <1>3, <1>8, <2>2, <3>1
    <3>3. Linked(r, t, top, pres) /\ (t = n + 1 => slot(r, t).state = step(base, slot(r, t).input))
      BY <3>1, <3>2 DEF Chain
    <3>4. now - t < Ring
      <4>1. top - t < Ring
        BY <3>3 DEF Linked
      <4>2. now # t + Ring
        <5> SUFFICES ASSUME now = t + Ring PROVE FALSE
          OBVIOUS
        <5>1. now % Ring = t % Ring
          BY <3>1, SlotAgain
        <5>2. slot(r2, t) = s
          BY <1>3, <5>1 DEF slot
        <5> QED
          BY <1>1, <1>8, <2>2, <3>1, <5>2 DEF HeldAt
      <4> QED
        BY <1>1, <1>2, <3>1, <4>1, <4>2
    <3>5. slot(r2, t).input # None /\ slot(r2, t).state \in States
      BY <3>2, <3>3 DEF Linked
    <3>6. HeldAt(r2, t + 1) /\ slot(r2, t + 1).state = step(slot(r2, t).state, slot(r2, t + 1).input)
      <4>1. CASE t = top
        <5>1. pres = slot(r2, t).state
          BY <3>2, <3>3, <4>1 DEF Linked
        <5> QED
          BY <1>1, <1>3, <4>1, <5>1
      <4>2. CASE t < top
        <5>1. HeldAt(r, t + 1) /\ slot(r, t + 1).state = step(slot(r, t).state, slot(r, t + 1).input)
          BY <3>3, <4>2 DEF Linked
        <5>2. t + 1 \in Nat /\ t + 1 < now /\ now - (t + 1) < Ring
          BY <1>1, <1>2, <3>1, <3>4, <4>2
        <5> QED
          BY <1>6, <3>2, <5>1, <5>2
      <4> QED
        BY <3>1, <4>1, <4>2
    <3>7. Linked(r2, t, now, s.state)
      BY <2>2, <3>4, <3>5, <3>6 DEF Linked
    <3> QED
      BY <3>2, <3>3, <3>7
  <2> QED
    BY <2>1, <2>2
<1>9. n <= now /\ ~(n = now)
  BY <1>1, <1>4
<1>10. Chain(r2, n, now, s.state, base)
  BY <1>7, <1>8, <1>9 DEF Chain
<1> QED
  BY <1>1, <1>3, <1>10

\* What reconcile needs: the server's state at n = newest, the client at p.
Before(n, p) ==
  /\ n \in 1 .. tick /\ n = newest /\ p \in Nat /\ p >= predicted /\ (predicted # 0 => p = predicted)
  /\ IInv

\* What it leaves.
After(known, n, p) ==
  /\ RingInv(known.ring, collected, Larger(p, n)) /\ known.present \in States
  /\ Chain(known.ring, n, Larger(p, n), known.present, world[n])

LEMMA LargerFacts ==
  ASSUME NEW a \in Nat, NEW b \in Nat
  PROVE  Larger(a, b) \in Nat /\ Larger(a, b) >= a /\ Larger(a, b) >= b /\ Larger(a, b) \in {a, b}
  BY DEF Larger

LEMMA BeforeFacts ==
  ASSUME NEW n, NEW p, Before(n, p)
  PROVE  /\ n \in Nat /\ n > 0 /\ p \in Nat /\ predicted \in Nat /\ predicted <= p /\ world[n] \in States
         /\ RingInv(ring, collected, predicted) /\ RingInv(ring, collected, p) /\ present \in States
         /\ DOMAIN collected \subseteq Nat \ {0} /\ DOMAIN collected \subseteq Nat
         /\ \A t \in DOMAIN collected : collected[t] \in Inputs
         /\ reconciled \in Nat /\ reconciled <= n
         /\ reconciled # 0 => p = predicted /\ reconciled < p
                              /\ Chain(ring, reconciled, p, present, world[reconciled])
         /\ reconciled = 0 => \A k \in 0 .. Ring - 1 : ring[k].state = NoState
<1>1. IInv /\ tick \in Nat /\ n \in Nat /\ n > 0 /\ n \in 1 .. tick /\ n = newest
  BY ConstantFacts DEF Before, IInv, TypeOK
<1>2. predicted \in Nat /\ p \in Nat /\ predicted <= p /\ (predicted # 0 => p = predicted)
  BY ConstantFacts DEF Before, IInv, TypeOK
<1>3. world[n] \in States
  BY <1>1 DEF IInv, ServerInv
<1>4. RingInv(ring, collected, predicted) /\ present \in States /\ reconciled \in Nat /\ reconciled <= n
  BY <1>1 DEF IInv, TypeOK
<1>5. RingInv(ring, collected, p)
  <2>1. \A k \in 0 .. Ring - 1 : ring[k].tick \in Nat
    BY <1>4 DEF RingInv, Rings, Slots
  <2>2. Ticks(ring, p)
    BY <1>2, <1>4, <2>1 DEF RingInv, Ticks
  <2> QED
    BY <1>4, <2>2 DEF RingInv
<1>6. DOMAIN collected \subseteq 1 .. predicted /\ \A t \in DOMAIN collected : collected[t] \in Inputs
  BY <1>1 DEF IInv, InputsInv
<1>7. DOMAIN collected \subseteq Nat \ {0} /\ DOMAIN collected \subseteq Nat
  BY <1>2, <1>6
<1>8. reconciled # 0 => p = predicted /\ reconciled < p
                        /\ Chain(ring, reconciled, p, present, world[reconciled])
  BY <1>1, <1>2, <1>4 DEF IInv, ChainInv
<1>9. reconciled = 0 => \A k \in 0 .. Ring - 1 : ring[k].state = NoState
  BY <1>1 DEF IInv, ChainInv
<1> QED
  BY <1>1, <1>2, <1>3, <1>4, <1>5, <1>6, <1>7, <1>8, <1>9

\* Nothing newer is known.
LEMMA SkippedFacts ==
  ASSUME NEW n, NEW p, Before(n, p), reconciled # 0, n <= reconciled
  PROVE  After([ring |-> ring, present |-> present], n, p)
<1>1. n = reconciled /\ n < p /\ n \in Nat /\ p \in Nat
  BY BeforeFacts
<1>2. Larger(p, n) = p
  BY <1>1 DEF Larger
<1> QED
  BY <1>1, <1>2, BeforeFacts DEF After

\* The prediction was right.
LEMMA MatchedFacts ==
  ASSUME NEW n, NEW p, Before(n, p), ~(reconciled # 0 /\ n <= reconciled),
         n <= p, HeldAt(ring, n), slot(ring, n).state = world[n]
  PROVE  After([ring |-> ring, present |-> present], n, p)
<1>1. /\ n \in Nat /\ p \in Nat /\ reconciled \in Nat /\ RingInv(ring, collected, p) /\ present \in States
      /\ world[n] \in States
  BY BeforeFacts
<1>2. Larger(p, n) = p
  BY <1>1 DEF Larger
<1>3. reconciled # 0
  <2> SUFFICES ASSUME reconciled = 0 PROVE FALSE
    OBVIOUS
  <2>1. slot(ring, n).state = NoState
    BY <1>1, BeforeFacts, SlotIndex DEF slot
  <2> QED
    BY <1>1, <2>1, ConstantFacts
<1>4. Chain(ring, reconciled, p, present, world[reconciled]) /\ reconciled < n
  BY <1>1, <1>3, BeforeFacts
<1>5. \A t \in reconciled + 1 .. p : HeldAt(ring, t) => Linked(ring, t, p, present)
  BY <1>4 DEF Chain
<1>6. Linked(ring, n, p, present)
  BY <1>1, <1>4, <1>5
<1>7. n = p => present = world[n]
  BY <1>6 DEF Linked
<1>8. n < p => HeldAt(ring, n + 1) /\ slot(ring, n + 1).state = step(world[n], slot(ring, n + 1).input)
  BY <1>6 DEF Linked
<1>9. \A t \in n + 1 .. p : HeldAt(ring, t) => Linked(ring, t, p, present)
  BY <1>1, <1>4, <1>5
<1>10. Chain(ring, n, p, present, world[n])
  BY <1>1, <1>7, <1>8, <1>9 DEF Chain
<1> QED
  BY <1>1, <1>2, <1>10 DEF After

\* The server is ahead.
LEMMA AcceptedFacts ==
  ASSUME NEW n, NEW p, Before(n, p), n > p
  PROVE  After([ring |-> keep_server_state(ring, n, world[n]), present |-> world[n]], n, p)
<1>1. /\ n \in Nat /\ p \in Nat /\ RingInv(ring, collected, p) /\ DOMAIN collected \subseteq Nat
      /\ world[n] \in States
  BY BeforeFacts
<1>2. Larger(p, n) = n
  BY <1>1 DEF Larger
<1>3. PICK r : r = keep_server_state(ring, n, world[n])
  OBVIOUS
<1>4. RingInv(r, collected, n)
  BY <1>1, <1>3, KeepFacts
<1>5. Chain(r, n, n, world[n], world[n])
  BY <1>1 DEF Chain
<1> QED
  BY <1>1, <1>2, <1>3, <1>4, <1>5 DEF After

\* The server is a whole ring behind.
LEMMA SnappedFacts ==
  ASSUME NEW n, NEW p, Before(n, p), n <= p, p - n >= Ring
  PROVE  After([ring |-> keep_server_state([k \in DOMAIN ring |-> NoSlot], n, world[n]),
                present |-> world[n]], n, p)
<1>1. /\ n \in Nat /\ n > 0 /\ p \in Nat /\ RingInv(ring, collected, p) /\ DOMAIN collected \subseteq Nat
      /\ world[n] \in States /\ Ring \in Nat /\ Ring > 0
  BY BeforeFacts, ConstantFacts
<1>2. Larger(p, n) = p /\ n < p
  BY <1>1 DEF Larger
<1>3. PICK e : e = [k \in 0 .. Ring - 1 |-> NoSlot]
  OBVIOUS
<1>4. e = [k \in DOMAIN ring |-> NoSlot]
  BY <1>1, <1>3 DEF RingInv, Rings
<1>5. RingInv(e, collected, 0) /\ \A t \in Nat : HeldAt(e, t) => t = 0
  BY <1>3, EmptyRing
<1>6. PICK r : r = keep_server_state(e, n, world[n])
  OBVIOUS
<1>7. /\ RingInv(r, collected, p)
      /\ \A u \in Nat : u # n /\ HeldAt(r, u) => HeldAt(e, u)
  BY <1>1, <1>2, <1>5, <1>6, KeepFacts
<1>8. \A t \in n + 1 .. p : ~HeldAt(r, t)
  BY <1>1, <1>5, <1>7
<1>9. Chain(r, n, p, world[n], world[n])
  BY <1>1, <1>2, <1>8 DEF Chain
<1> QED
  BY <1>1, <1>2, <1>4, <1>6, <1>7, <1>9 DEF After

\* The prediction was wrong: the ticks since are run again.
LEMMA ReplayedFacts ==
  ASSUME NEW n, NEW p, Before(n, p), n <= p, p - n < Ring,
         NEW done, done = Replay(keep_server_state(ring, n, world[n]), world[n], n, p)
  PROVE  After([ring |-> done.ring, present |-> done.state], n, p)
<1>1. /\ n \in Nat /\ n > 0 /\ p \in Nat /\ RingInv(ring, collected, p) /\ world[n] \in States
      /\ DOMAIN collected \subseteq Nat \ {0} /\ DOMAIN collected \subseteq Nat
      /\ \A t \in DOMAIN collected : collected[t] \in Inputs
  BY BeforeFacts
<1>2. Larger(p, n) = p
  BY <1>1 DEF Larger
<1>3. RingInv(keep_server_state(ring, n, world[n]), collected, p)
  BY <1>1, KeepFacts
<1>4. Good(done, n, p, p, collected, world[n])
  BY <1>1, <1>3, ReplayGood
<1>5. RingInv(done.ring, collected, p) /\ done.state \in States
  BY <1>4 DEF Good
<1>6. n = p => done.state = world[n]
  BY <1>4 DEF Good
<1>7. n < p => HeldAt(done.ring, n + 1)
  BY <1>1, <1>4 DEF Good
<1>8. ASSUME NEW t \in n + 1 .. p
      PROVE  /\ Linked(done.ring, t, p, done.state)
             /\ t = n + 1 => slot(done.ring, t).state = step(world[n], slot(done.ring, t).input)
  <2>1. /\ HeldAt(done.ring, t) /\ slot(done.ring, t).input # None /\ slot(done.ring, t).state \in States
        /\ t = n + 1 => slot(done.ring, t).state = step(world[n], slot(done.ring, t).input)
        /\ t < p => slot(done.ring, t + 1).state = step(slot(done.ring, t).state, slot(done.ring, t + 1).input)
    BY <1>4 DEF Good
  <2>2. t < p => HeldAt(done.ring, t + 1)
    <3>1. t < p => t + 1 \in n + 1 .. p
      BY <1>1
    <3> QED
      BY <1>4, <3>1 DEF Good
  <2>3. t = p => done.state = slot(done.ring, t).state
    BY <1>1, <1>4 DEF Good
  <2>4. p - t < Ring
    BY <1>1, ConstantFacts
  <2> QED
    BY <2>1, <2>2, <2>3, <2>4 DEF Linked
<1>9. Chain(done.ring, n, p, done.state, world[n])
  BY <1>6, <1>7, <1>8 DEF Chain
<1> QED
  BY <1>2, <1>5, <1>9 DEF After

\* Every outcome of reconcile.
LEMMA ReconcileFacts ==
  ASSUME NEW n, NEW p, Before(n, p)
  PROVE  After(reconcile(n, p), n, p)
<1>1. n \in Nat /\ p \in Nat /\ Ring \in Nat
  BY BeforeFacts, ConstantFacts
<1>2. CASE reconciled # 0 /\ n <= reconciled
  BY <1>2, SkippedFacts DEF reconcile
<1>3. CASE ~(reconciled # 0 /\ n <= reconciled)
  <2>1. CASE n <= p /\ HeldAt(ring, n) /\ slot(ring, n).state = world[n]
    BY <1>3, <2>1, MatchedFacts DEF reconcile
  <2>2. CASE ~(n <= p /\ HeldAt(ring, n) /\ slot(ring, n).state = world[n])
    <3>1. CASE n > p
      <4>1. reconcile(n, p) = [ring |-> keep_server_state(ring, n, world[n]), present |-> world[n]]
        BY <1>3, <2>2, <3>1 DEF reconcile
      <4> QED
        BY <3>1, <4>1, AcceptedFacts
    <3>2. CASE n <= p /\ p - n >= Ring
      <4>1. reconcile(n, p) = [ring |-> keep_server_state([k \in DOMAIN ring |-> NoSlot], n, world[n]),
                               present |-> world[n]]
        BY <1>1, <1>3, <2>2, <3>2 DEF reconcile
      <4> QED
        BY <3>2, <4>1, SnappedFacts
    <3>3. CASE n <= p /\ p - n < Ring
      <4>1. PICK done : done = Replay(keep_server_state(ring, n, world[n]), world[n], n, p)
        OBVIOUS
      <4>2. reconcile(n, p) = [ring |-> done.ring, present |-> done.state]
        BY <1>1, <1>3, <2>2, <3>3, <4>1 DEF reconcile
      <4> QED
        BY <3>3, <4>1, <4>2, ReplayedFacts
    <3> QED
      BY <1>1, <3>1, <3>2, <3>3
  <2> QED
    BY <2>1, <2>2
<1> QED
  BY <1>2, <1>3
--------------------------------------------------------------------------------
(* The invariant holds at the start and every action keeps it.                  *)

LEMMA RingTyped ==
  ASSUME NEW r \in Rings
  PROVE  \A k \in DOMAIN r : r[k].tick # 0 => r[k].tick % Ring = k
  BY DEF Rings

LEMMA IInvFacts ==
  ASSUME IInv
  PROVE  /\ tick \in Nat /\ predicted \in Nat /\ newest \in Nat /\ reconciled \in Nat
         /\ tick <= MaxTick /\ predicted <= MaxPredicted /\ reconciled <= newest /\ newest <= tick
         /\ MaxTick \in Nat /\ MaxPredicted \in Nat
  BY ConstantFacts DEF IInv, TypeOK

LEMMA InitInv ==
  ASSUME Init
  PROVE  IInv
<1>1. RingInv(ring, collected, 0)
  BY EmptyRing DEF Init
<1>2. TypeOK
  <2>1. \A k \in DOMAIN ring : ring[k].tick # 0 => ring[k].tick % Ring = k
    BY <1>1, RingTyped DEF RingInv
  <2> QED
    BY <2>1, ConstantFacts DEF Init, TypeOK, Nothing
<1>3. ServerInv
  BY DEF Init, ServerInv, Nothing
<1>4. InputsInv
  BY DEF Init, InputsInv, Says, Nothing
<1>5. ChainInv
  BY DEF Init, ChainInv, NoSlot
<1>6. reconciled \in Nat /\ newest \in Nat /\ present \in States /\ predicted = 0
  BY DEF Init, States
<1> QED
  BY <1>1, <1>2, <1>3, <1>4, <1>5, <1>6 DEF IInv

\* A message arrives.
LEMMA ReceiveInputInv ==
  ASSUME IInv, NEW m \in messages, ReceiveInput(m)
  PROVE  IInv'
<1>1. Says(pending, collected) /\ Says(m, collected) /\ \A t \in DOMAIN collected : collected[t] \in Inputs
  BY DEF IInv, InputsInv
<1>2. /\ pending' = [t \in DOMAIN pending \cup Stored(m) |-> IF t \in DOMAIN pending THEN pending[t] ELSE m[t]]
      /\ UNCHANGED <<tick, last, world, ran, messages, clientVars>>
  BY DEF ReceiveInput
<1>3. Says(pending', collected)
  BY <1>1, <1>2 DEF Says, Stored
<1>4. \A t \in DOMAIN pending' : t > tick /\ t <= tick + MaxLead /\ pending'[t] \in Inputs
  <2>1. \A t \in DOMAIN pending : t > tick /\ t <= tick + MaxLead
    BY DEF IInv, TypeOK
  <2>2. \A t \in Stored(m) : t > tick /\ t <= tick + MaxLead
    BY DEF Stored
  <2>3. DOMAIN pending' = DOMAIN pending \cup Stored(m)
    BY <1>2
  <2> QED
    BY <1>1, <1>3, <2>1, <2>2, <2>3 DEF Says
<1>5. TypeOK'
  BY <1>2, <1>4 DEF IInv, TypeOK, clientVars
<1>6. InputsInv'
  BY <1>2, <1>3 DEF IInv, InputsInv, clientVars
<1>7. ServerInv'
  BY <1>2 DEF IInv, ServerInv, clientVars
<1>8. ChainInv' /\ RingInv(ring, collected, predicted)'
  BY <1>2 DEF IInv, ChainInv, clientVars
<1> QED
  BY <1>2, <1>5, <1>6, <1>7, <1>8 DEF IInv, clientVars

\* The server runs a tick.
LEMMA ServerTickInv ==
  ASSUME IInv, ServerTick
  PROVE  IInv'
<1>1. PICK t \in Nat : t = tick + 1 /\ t > 0
  BY IInvFacts
<1>2. /\ tick' = t /\ t <= MaxTick /\ last' = take(t)
      /\ pending' = [u \in {v \in DOMAIN pending : v > t} |-> pending[u]]
      /\ ran' = With(ran, t, take(t))
      /\ world' = With(world, t, step(IF tick = 0 THEN <<>> ELSE world[tick], take(t)))
      /\ UNCHANGED <<messages, clientVars>>
  BY <1>1 DEF ServerTick
<1>3. ServerInv /\ InputsInv /\ TypeOK
  BY DEF IInv
<1>4. /\ take(t) \in Given
      /\ \/ t \in DOMAIN collected /\ take(t) = collected[t]
         \/ take(t) = IF t = 1 THEN Idle ELSE ran[t - 1]
  <2>1. CASE t \in DOMAIN pending
    <3>1. t \in DOMAIN collected /\ pending[t] = collected[t] /\ collected[t] \in Inputs
      BY <1>3, <2>1 DEF InputsInv, Says
    <3> QED
      BY <2>1, <3>1, ConstantFacts DEF take
  <2>2. CASE t \notin DOMAIN pending
    <3>1. last = IF tick = 0 THEN Idle ELSE ran[tick]
      BY <1>3 DEF ServerInv
    <3>2. tick # 0 => ran[tick] \in Given
      BY <1>3, IInvFacts DEF ServerInv
    <3>3. last \in Given /\ last = IF t = 1 THEN Idle ELSE ran[t - 1]
      BY <1>1, <3>1, <3>2, IInvFacts, ConstantFacts
    <3> QED
      BY <2>2, <3>3 DEF take
  <2> QED
    BY <2>1, <2>2
<1>5. PICK x : x = take(t)
  OBVIOUS
<1>6. /\ DOMAIN ran' = 1 .. t /\ DOMAIN world' = 1 .. t
      /\ \A u \in 1 .. tick : ran'[u] = ran[u] /\ world'[u] = world[u]
      /\ ran'[t] = x /\ world'[t] = step(IF t = 1 THEN <<>> ELSE world[t - 1], x)
  <2>1. DOMAIN ran = 1 .. tick /\ DOMAIN world = 1 .. tick /\ (1 .. tick) \cup {t} = 1 .. t
    BY <1>1, <1>3, IInvFacts DEF ServerInv
  <2>2. DOMAIN ran' = 1 .. t /\ DOMAIN world' = 1 .. t
    BY <1>2, <2>1 DEF With
  <2>3. \A u \in 1 .. tick : u # t
    BY <1>1, IInvFacts
  <2>4. \A u \in 1 .. tick : ran'[u] = ran[u] /\ world'[u] = world[u]
    BY <1>2, <2>1, <2>3 DEF With
  <2>5. ran'[t] = x
    BY <1>2, <1>5 DEF With
  <2>6. world'[t] = step(IF tick = 0 THEN <<>> ELSE world[tick], x)
    BY <1>2, <1>5 DEF With
  <2>7. tick = t - 1 /\ (tick = 0 <=> t = 1)
    BY <1>1, IInvFacts
  <2> QED
    BY <2>2, <2>4, <2>5, <2>6, <2>7
<1>7. world'[t] \in States
  <2>1. t # 1 => world[t - 1] \in States
    BY <1>1, <1>3, IInvFacts DEF ServerInv
  <2>2. (IF t = 1 THEN <<>> ELSE world[t - 1]) \in Seq(Given)
    BY <2>1 DEF States, Given
  <2> QED
    BY <1>4, <1>5, <1>6, <2>2 DEF step, States, Given
<1>8. ServerInv'
  <2>1. ASSUME NEW u \in 1 .. t
        PROVE  /\ ran'[u] \in Given /\ world'[u] \in States
               /\ \/ u \in DOMAIN collected /\ ran'[u] = collected[u]
                  \/ ran'[u] = IF u = 1 THEN Idle ELSE ran'[u - 1]
               /\ world'[u] = step(IF u = 1 THEN <<>> ELSE world'[u - 1], ran'[u])
    <3>1. CASE u = t
      <4>1. t # 1 => ran'[t - 1] = ran[t - 1] /\ world'[t - 1] = world[t - 1]
        BY <1>1, <1>6, IInvFacts
      <4> QED
        BY <1>4, <1>5, <1>6, <1>7, <3>1, <4>1
    <3>2. CASE u \in 1 .. tick
      <4>1. /\ ran[u] \in Given /\ world[u] \in States
            /\ \/ u \in DOMAIN collected /\ ran[u] = collected[u]
               \/ ran[u] = IF u = 1 THEN Idle ELSE ran[u - 1]
            /\ world[u] = step(IF u = 1 THEN <<>> ELSE world[u - 1], ran[u])
        BY <1>3, <3>2 DEF ServerInv
      <4>2. u # 1 => ran'[u - 1] = ran[u - 1] /\ world'[u - 1] = world[u - 1]
        BY <1>6, <3>2, IInvFacts
      <4> QED
        BY <1>6, <3>2, <4>1, <4>2
    <3> QED
      BY <1>1, <3>1, <3>2, IInvFacts
  <2>2. last' = IF tick' = 0 THEN Idle ELSE ran'[tick']
    BY <1>1, <1>2, <1>5, <1>6
  <2>3. collected' = collected
    BY <1>2 DEF clientVars
  <2> QED
    BY <1>2, <1>6, <2>1, <2>2, <2>3 DEF ServerInv
<1>9. Says(pending', collected)
  BY <1>2, <1>3 DEF InputsInv, Says
<1>10. InputsInv'
  BY <1>2, <1>3, <1>9 DEF InputsInv, clientVars
<1>11. TypeOK'
  <2>1. \A u \in DOMAIN pending' : u > t /\ u <= t + MaxLead /\ pending'[u] \in Inputs
    <3> SUFFICES ASSUME NEW u \in DOMAIN pending' PROVE u > t /\ u <= t + MaxLead /\ pending'[u] \in Inputs
      OBVIOUS
    <3>1. u \in DOMAIN pending /\ u > t /\ pending'[u] = pending[u]
      BY <1>2
    <3>2. u <= tick + MaxLead /\ pending[u] \in Inputs
      BY <1>3, <3>1 DEF TypeOK
    <3>3. u \in Nat
      BY <1>3, <3>1, IInvFacts DEF InputsInv, Says
    <3> QED
      BY <1>1, <3>1, <3>2, <3>3, IInvFacts, ConstantFacts
  <2>2. /\ tick' \in 0 .. MaxTick /\ predicted' \in 0 .. MaxPredicted
        /\ reconciled' <= newest' /\ newest' <= tick'
    BY <1>1, <1>2, IInvFacts DEF clientVars
  <2> QED
    BY <1>2, <1>3, <2>1, <2>2 DEF TypeOK, clientVars
<1>12. ChainInv'
  <2>1. reconciled # 0 => world'[reconciled] = world[reconciled]
    BY <1>6, IInvFacts
  <2> QED
    BY <1>2, <2>1 DEF IInv, ChainInv, clientVars
<1> QED
  BY <1>2, <1>8, <1>10, <1>11, <1>12 DEF IInv, clientVars

\* A newer snapshot arrives.
LEMMA ReceiveSnapshotInv ==
  ASSUME IInv, NEW t \in DOMAIN world, ReceiveSnapshot(t)
  PROVE  IInv'
<1>1. t \in Nat /\ t <= tick
  BY IInvFacts DEF IInv, ServerInv
<1>2. t > newest /\ newest' = t /\ UNCHANGED <<serverVars, messages, present, collected>>
  BY DEF ReceiveSnapshot
<1>3. ServerInv' /\ (tick' = tick /\ pending' = pending /\ world' = world)
  BY <1>2 DEF IInv, ServerInv, serverVars
<1>4. CASE UNCHANGED <<predicted, reconciled, ring>>
  <2>1. TypeOK'
    BY <1>1, <1>2, <1>3, <1>4, IInvFacts DEF IInv, TypeOK
  <2>2. InputsInv' /\ ChainInv'
    BY <1>2, <1>3, <1>4 DEF IInv, InputsInv, ChainInv
  <2> QED
    BY <1>1, <1>2, <1>3, <1>4, <2>1, <2>2 DEF IInv
<1>5. CASE /\ \E jump \in 1 .. MaxJump : predicted + jump <= MaxPredicted /\ predicted' = predicted + jump
           /\ reconciled' = 0 /\ ring' = drop_states(ring)
  <2>1. predicted' \in Nat /\ predicted' >= predicted /\ predicted' <= MaxPredicted
    BY <1>5, IInvFacts, ConstantFacts
  <2>2. DOMAIN collected \subseteq 1 .. predicted /\ RingInv(ring, collected, predicted)
    BY DEF IInv, InputsInv
  <2>3. DOMAIN collected \subseteq Nat /\ DOMAIN collected \subseteq 1 .. predicted'
    BY <2>1, <2>2, IInvFacts
  <2>4. RingInv(ring', collected, predicted) /\ \A k \in 0 .. Ring - 1 : ring'[k].state = NoState
    BY <1>5, <2>2, <2>3, IInvFacts, DropFacts
  <2>5. RingInv(ring', collected, predicted')
    <3>1. \A k \in 0 .. Ring - 1 : ring'[k].tick \in Nat
      BY <2>4 DEF RingInv, Rings, Slots
    <3>2. Ticks(ring', predicted')
      BY <2>1, <2>4, <3>1, IInvFacts DEF RingInv, Ticks
    <3> QED
      BY <2>4, <3>2 DEF RingInv
  <2>6. ChainInv'
    BY <1>5, <2>4 DEF ChainInv
  <2>7. InputsInv'
    BY <1>2, <1>3, <2>3 DEF IInv, InputsInv
  <2>8. TypeOK'
    <3>1. \A k \in DOMAIN ring' : ring'[k].tick # 0 => ring'[k].tick % Ring = k
      BY <2>5, RingTyped DEF RingInv
    <3>2. /\ tick' \in 0 .. MaxTick /\ predicted' \in 0 .. MaxPredicted
          /\ reconciled' <= newest' /\ newest' <= tick'
      BY <1>1, <1>2, <1>3, <1>5, <2>1, IInvFacts
    <3> QED
      BY <1>3, <3>1, <3>2 DEF IInv, TypeOK
  <2> QED
    BY <1>1, <1>2, <1>3, <1>5, <2>5, <2>6, <2>7, <2>8 DEF IInv
<1> QED
  BY <1>4, <1>5 DEF ReceiveSnapshot

\* A tick before the client steers anything.
LEMMA ClientTickAloneInv ==
  ASSUME IInv, NEW ahead \in 1 .. MaxAhead, ClientTickAlone(ahead)
  PROVE  IInv'
<1>1. PICK p \in Nat : p = Position(ahead) /\ p >= predicted
  BY IInvFacts, ConstantFacts DEF Position
<1>2. PICK now \in Nat : now = Larger(p, newest) + 1 /\ now > predicted
  <2>1. Larger(p, newest) \in Nat /\ Larger(p, newest) >= p
    BY <1>1, IInvFacts, LargerFacts
  <2> QED
    BY <1>1, <2>1, IInvFacts
<1>3. /\ collected = Nothing /\ now <= MaxPredicted /\ predicted' = now
      /\ UNCHANGED <<serverVars, messages, newest, reconciled, ring, present, collected>>
  BY <1>1, <1>2 DEF ClientTickAlone
<1>4. reconciled = 0
  BY <1>3 DEF IInv, ChainInv
<1>5. RingInv(ring, collected, now)
  <2>1. \A k \in 0 .. Ring - 1 : ring[k].tick \in Nat
    BY DEF IInv, RingInv, Rings, Slots
  <2>2. Ticks(ring, now)
    BY <1>2, <2>1, IInvFacts DEF IInv, RingInv, Ticks
  <2> QED
    BY <2>2 DEF IInv, RingInv
<1>6. InputsInv'
  BY <1>3 DEF IInv, InputsInv, serverVars, Nothing
<1>7. ServerInv' /\ ChainInv'
  BY <1>3, <1>4 DEF IInv, ServerInv, ChainInv, serverVars
<1>8. TypeOK'
  BY <1>2, <1>3, IInvFacts DEF IInv, TypeOK, serverVars
<1> QED
  BY <1>3, <1>5, <1>6, <1>7, <1>8 DEF IInv

\* A message of the newest inputs says what was collected.
LEMMA InputsSay ==
  ASSUME NEW r, NEW c, OwnInputs(r, c), NEW now \in Nat
  PROVE  Says(inputs(r, now), c)
<1> SUFFICES ASSUME NEW u \in DOMAIN inputs(r, now)
             PROVE  u \in DOMAIN c /\ inputs(r, now)[u] = c[u]
  BY DEF Says
<1>1. /\ u \in 1 .. now /\ inputs(r, now)[u] = slot(r, u).input
      /\ \A k \in 0 .. now - u : now > k /\ HeldAt(r, now - k) /\ slot(r, now - k).collected
  BY DEF inputs
<1>2. now - (now - u) = u /\ now - u \in 0 .. now - u
  BY <1>1
<1>3. HeldAt(r, u) /\ slot(r, u).collected
  BY <1>1, <1>2
<1>4. slot(r, u).tick \in DOMAIN c /\ slot(r, u).input = c[slot(r, u).tick]
  BY <1>1, <1>3, SlotIndex DEF OwnInputs, slot
<1> QED
  BY <1>1, <1>3, <1>4 DEF HeldAt

\* A tick with an input.
LEMMA ClientTickInv ==
  ASSUME IInv, NEW input \in Inputs, NEW ahead \in 1 .. MaxAhead, ClientTick(input, ahead)
  PROVE  IInv'
<1>1. PICK p \in Nat : p = Position(ahead) /\ p >= predicted /\ (predicted # 0 => p = predicted)
  BY IInvFacts, ConstantFacts DEF Position
<1>2. PICK top \in Nat : top = Larger(p, newest) /\ top >= p /\ top >= newest
  BY <1>1, IInvFacts, LargerFacts
<1>3. PICK now \in Nat : now = top + 1 /\ now > predicted /\ now > newest
  BY <1>1, <1>2, IInvFacts
<1>4. PICK known : known = reconcile(newest, p)
  OBVIOUS
<1>5. PICK s : s = [tick |-> now, input |-> input, collected |-> TRUE, state |-> step(known.present, input)]
  OBVIOUS
<1>6. /\ newest # 0 /\ now <= MaxPredicted /\ predicted' = now
      /\ reconciled' = Larger(reconciled, newest)
      /\ present' = step(known.present, input) /\ ring' = Put(known.ring, now, s)
      /\ collected' = With(collected, now, input)
      /\ messages' = messages \cup {inputs(ring', now)}
      /\ UNCHANGED <<serverVars, newest>>
  BY <1>1, <1>2, <1>3, <1>4, <1>5 DEF ClientTick
<1>7. Before(newest, p)
  BY <1>1, <1>6, IInvFacts DEF Before
<1>8. /\ RingInv(known.ring, collected, top) /\ known.present \in States
      /\ Chain(known.ring, newest, top, known.present, world[newest])
  <2>1. After(known, newest, p)
    BY <1>4, <1>7, ReconcileFacts
  <2> QED
    BY <1>2, <2>1 DEF After
<1>9. present' \in States
  BY <1>6, <1>8 DEF step, States
<1>10. s \in Slots /\ s.tick = now /\ s.input = input /\ s.collected /\ s.state = present'
  BY <1>5, <1>6, <1>9, ConstantFacts DEF Slots
<1>11. /\ DOMAIN collected \subseteq 1 .. predicted /\ (\A t \in DOMAIN collected : collected[t] \in Inputs)
       /\ Says(pending, collected) /\ \A m \in messages : Says(m, collected)
  BY DEF IInv, InputsInv
<1>12. DOMAIN collected \subseteq 1 .. top /\ now \notin DOMAIN collected
  BY <1>1, <1>2, <1>3, <1>11, IInvFacts
<1>13. RingInv(ring', collected', now)
  BY <1>3, <1>6, <1>8, <1>10, <1>11, <1>12, PutOwn
<1>14. HeldAt(ring', now) /\ Chain(ring', newest, now, present', world[newest])
  <2>1. known.ring \in Rings
    BY <1>8 DEF RingInv
  <2>2. s.state = step(known.present, input)
    BY <1>5
  <2>3. newest \in Nat
    BY IInvFacts
  <2> QED
    BY <1>3, <1>6, <1>8, <1>10, <2>1, <2>2, <2>3, TickChains
<1>15. /\ DOMAIN collected' = DOMAIN collected \cup {now} /\ collected'[now] = input
       /\ \A t \in DOMAIN collected : collected'[t] = collected[t]
  BY <1>6, <1>12 DEF With
<1>16. \A m : Says(m, collected) => Says(m, collected')
  BY <1>15 DEF Says
<1>17. InputsInv'
  <2>1. DOMAIN collected' \subseteq 1 .. now
    BY <1>2, <1>3, <1>12, <1>15
  <2>2. \A t \in DOMAIN collected' : collected'[t] \in Inputs
    BY <1>11, <1>15
  <2>3. Says(inputs(ring', now), collected')
    BY <1>13, InputsSay DEF RingInv
  <2>4. \A m \in messages' : Says(m, collected')
    BY <1>6, <1>11, <1>16, <2>3
  <2>5. Says(pending', collected')
    BY <1>6, <1>11, <1>16 DEF serverVars
  <2> QED
    BY <1>6, <2>1, <2>2, <2>4, <2>5 DEF InputsInv
<1>18. reconciled' = newest /\ newest' = newest /\ newest \in Nat /\ newest # 0
  BY <1>6, IInvFacts DEF Larger
<1>19. ChainInv'
  <2>1. collected' # Nothing
    <3>1. now \in DOMAIN collected' /\ DOMAIN Nothing = {}
      BY <1>15 DEF Nothing
    <3> QED
      BY <3>1
  <2>2. world' = world
    BY <1>6 DEF serverVars
  <2> QED
    BY <1>3, <1>6, <1>14, <1>18, <2>1, <2>2 DEF ChainInv
<1>20. ServerInv'
  <2>1. tick' = tick /\ ran' = ran /\ world' = world /\ last' = last
    BY <1>6 DEF serverVars
  <2> QED
    BY <1>15, <2>1 DEF IInv, ServerInv
<1>21. TypeOK'
  <2>1. \A k \in DOMAIN ring' : ring'[k].tick # 0 => ring'[k].tick % Ring = k
    BY <1>13, RingTyped DEF RingInv
  <2>2. tick' = tick /\ pending' = pending
    BY <1>6 DEF serverVars
  <2>3. predicted' \in 0 .. MaxPredicted /\ reconciled' <= newest' /\ newest' <= tick'
    BY <1>6, <1>18, <2>2, IInvFacts
  <2> QED
    BY <2>1, <2>2, <2>3 DEF IInv, TypeOK
<1> QED
  BY <1>6, <1>9, <1>13, <1>17, <1>18, <1>19, <1>20, <1>21 DEF IInv

LEMMA StutterInv ==
  ASSUME IInv, UNCHANGED vars
  PROVE  IInv'
  BY DEF IInv, TypeOK, ServerInv, InputsInv, ChainInv, vars, serverVars, clientVars

\* The invariant, whatever is lost, repeated or late, with any jumps of the client.
THEOREM Invariance == Spec => []IInv
<1>1. Init => IInv
  BY InitInv
<1>2. IInv /\ [Next]_vars => IInv'
  <2> SUFFICES ASSUME IInv, [Next]_vars PROVE IInv'
    OBVIOUS
  <2>1. CASE \E m \in messages : ReceiveInput(m)
    BY <2>1, ReceiveInputInv
  <2>2. CASE ServerTick
    BY <2>2, ServerTickInv
  <2>3. CASE \E t \in DOMAIN world : ReceiveSnapshot(t) \/ ReceiveOld(t)
    BY <2>3, ReceiveSnapshotInv, StutterInv DEF ReceiveOld
  <2>4. CASE \E ahead \in 1 .. MaxAhead : ClientTickAlone(ahead)
    BY <2>4, ClientTickAloneInv
  <2>5. CASE \E input \in Inputs, ahead \in 1 .. MaxAhead : ClientTick(input, ahead)
    BY <2>5, ClientTickInv
  <2>6. CASE UNCHANGED vars
    BY <2>6, StutterInv
  <2> QED
    BY <2>1, <2>2, <2>3, <2>4, <2>5, <2>6 DEF Next
<1> QED
  BY <1>1, <1>2, PTL DEF Spec
--------------------------------------------------------------------------------
(* What follows.                                                                *)

\* Induction over the ticks of a range.
LEMMA RangeInduction ==
  ASSUME NEW a \in Nat, NEW b \in Nat, NEW S, a \in S, \A t \in a .. b - 1 : t \in S => t + 1 \in S
  PROVE  \A t \in a .. b : t \in S
<1> DEFINE T == {t \in Nat : t <= b => t \in S}
<1>1. a \in T
  OBVIOUS
<1>2. \A t \in Nat : t >= a /\ t \in T => t + 1 \in T
  <2> SUFFICES ASSUME NEW t \in Nat, t >= a, t \in T, t + 1 <= b PROVE t + 1 \in S
    OBVIOUS
  <2>1. t \in a .. b - 1 /\ t \in S
    OBVIOUS
  <2> QED
    BY <2>1
<1>3. \A t \in Nat : t >= a => t \in T
  <2> HIDE DEF T
  <2> QED
    BY <1>1, <1>2, InductionFrom
<1> QED
  BY <1>3

\* A chain from a state of the server, as far as the ring holds its ticks.
LEMMA ChainHolds ==
  ASSUME IInv, reconciled # 0
  PROVE  /\ reconciled < predicted
         /\ predicted - reconciled < Ring => HeldAt(ring, reconciled + 1)
         /\ HeldAt(ring, reconciled + 1) =>
              slot(ring, reconciled + 1).state = step(world[reconciled], slot(ring, reconciled + 1).input)
         /\ \A t \in reconciled + 1 .. predicted : HeldAt(ring, t) => Linked(ring, t, predicted, present)
<1>1. reconciled < predicted /\ Chain(ring, reconciled, predicted, present, world[reconciled])
  BY DEF IInv, ChainInv
<1>2. reconciled + 1 \in reconciled + 1 .. predicted
  BY <1>1, IInvFacts
<1> QED
  BY <1>1, <1>2 DEF Chain

LEMMA ImpliesPredictionIsTrue ==
  ASSUME IInv
  PROVE  PredictionIsTrue
<1> SUFFICES ASSUME reconciled # 0, NEW t \in reconciled + 1 .. tick,
                    \A u \in reconciled + 1 .. t : HeldAt(ring, u) /\ slot(ring, u).input = ran[u]
             PROVE  slot(ring, t).state = world[t]
  BY DEF PredictionIsTrue
<1>1. PICK n \in Nat : n = reconciled /\ n + 1 \in Nat /\ n > 0 /\ n < predicted /\ t \in Nat /\ n < t /\ t <= tick
  BY IInvFacts, ChainHolds
<1>2. \A u \in n + 1 .. t : /\ HeldAt(ring, u) /\ slot(ring, u).input = ran[u] /\ u \in Nat
                            /\ world[u] = step(world[u - 1], ran[u])
  <2>1. \A u \in n + 1 .. t : u \in 1 .. tick /\ u # 1
    BY <1>1, IInvFacts
  <2> QED
    BY <1>1, <2>1 DEF IInv, ServerInv
<1>3. \A u \in n + 1 .. t : u <= predicted
  <2>1. \A u \in n + 1 .. t : slot(ring, u).tick <= predicted
    BY <1>2, SlotIndex DEF IInv, RingInv, Ticks, slot
  <2> QED
    BY <1>2, <2>1 DEF HeldAt
<1> DEFINE S == {u \in Nat : slot(ring, u).state = world[u]}
<1>4. n + 1 \in S
  <2>1. n + 1 \in n + 1 .. t /\ (n + 1) - 1 = n
    BY <1>1
  <2>2. slot(ring, n + 1).state = step(world[n], slot(ring, n + 1).input)
    BY <1>1, <1>2, <2>1, ChainHolds
  <2>3. world[n + 1] = step(world[n], ran[n + 1]) /\ slot(ring, n + 1).input = ran[n + 1]
    BY <1>2, <2>1
  <2> QED
    BY <1>1, <2>2, <2>3
<1>5. ASSUME NEW u \in n + 1 .. t - 1, u \in S PROVE u + 1 \in S
  <2>1. u \in n + 1 .. t /\ u + 1 \in n + 1 .. t /\ (u + 1) - 1 = u /\ u \in Nat
    BY <1>1
  <2>2. HeldAt(ring, u) /\ u \in n + 1 .. predicted /\ u < predicted
    BY <1>1, <1>2, <1>3, <2>1, IInvFacts
  <2>3. Linked(ring, u, predicted, present)
    BY <1>1, <2>2, ChainHolds
  <2>4. slot(ring, u + 1).state = step(slot(ring, u).state, slot(ring, u + 1).input)
    BY <2>2, <2>3 DEF Linked
  <2>5. world[u + 1] = step(world[u], ran[u + 1]) /\ slot(ring, u + 1).input = ran[u + 1]
    BY <1>2, <2>1
  <2> QED
    BY <1>5, <2>1, <2>4, <2>5
<1>6. t \in S
  <2> HIDE DEF S
  <2>1. \A u \in n + 1 .. t : u \in S
    BY <1>1, <1>4, <1>5, RangeInduction
  <2> QED
    BY <1>1, <2>1
<1> QED
  BY <1>6

\* The inputs of the ticks after a, up to t.
Between(a, t) == [k \in 1 .. t - a |-> slot(ring, a + k).input]

\* Sequences of the same length and members are the same.
LEMMA SeqEqual ==
  ASSUME NEW V, NEW v \in Seq(V), NEW w \in Seq(V), Len(v) = Len(w), \A i \in 1 .. Len(v) : v[i] = w[i]
  PROVE  v = w
<1>1. PICK n \in Nat : n = Len(v)
  OBVIOUS
<1>2. v \in [1 .. n -> V] /\ w \in [1 .. n -> V]
  BY <1>1
<1> QED
  BY <1>1, <1>2

\* The next tick's input goes to the end.
LEMMA BetweenNext ==
  ASSUME NEW a \in Nat, NEW t \in Nat, a <= t, NEW s \in States, \A u \in a + 1 .. t + 1 : slot(ring, u).input \in Given
  PROVE  Append(s \o Between(a, t), slot(ring, t + 1).input) = s \o Between(a, t + 1)
<1>1. PICK d \in Nat : d = t - a /\ a + (d + 1) = t + 1 /\ (t + 1) - a = d + 1
  OBVIOUS
<1>2. PICK f : f = [k \in 1 .. d + 1 |-> slot(ring, a + k).input]
  OBVIOUS
<1>3. PICK g : g = [k \in 1 .. d |-> slot(ring, a + k).input]
  OBVIOUS
<1>4. f \in Seq(Given) /\ Len(f) = d + 1 /\ g \in Seq(Given) /\ Len(g) = d
  <2>1. \A k \in 1 .. d + 1 : slot(ring, a + k).input \in Given
    BY <1>1
  <2>2. f \in [1 .. d + 1 -> Given]
    BY <1>2, <2>1
  <2>3. \A k \in 1 .. d : slot(ring, a + k).input \in Given
    BY <2>1
  <2>4. g \in [1 .. d -> Given]
    BY <1>3, <2>3
  <2> QED
    BY <2>2, <2>4
<1>5. \A k \in 1 .. d : f[k] = g[k]
  BY <1>2, <1>3
<1>6. f[d + 1] = slot(ring, t + 1).input
  BY <1>1, <1>2
<1>7. s \in Seq(Given)
  BY DEF States, Given
<1>8. PICK x \in Given : x = slot(ring, t + 1).input
  BY <1>1
<1>9. Append(s \o g, x) = s \o f
  <2>1. /\ Append(s \o g, x) \in Seq(Given) /\ s \o f \in Seq(Given) /\ s \o g \in Seq(Given)
        /\ Len(s) \in Nat
    BY <1>4, <1>7
  <2>2. Len(s \o g) = Len(s) + d /\ Len(Append(s \o g, x)) = Len(s) + d + 1 /\ Len(s \o f) = Len(s) + d + 1
    BY <1>4, <1>7
  <2>3. ASSUME NEW i \in 1 .. (Len(s) + d + 1) PROVE Append(s \o g, x)[i] = (s \o f)[i]
    <3>1. CASE i <= Len(s)
      BY <1>4, <1>7, <3>1
    <3>2. CASE i > Len(s) /\ i <= Len(s) + d
      <4>1. i - Len(s) \in 1 .. d
        BY <1>7, <3>2
      <4> QED
        BY <1>4, <1>5, <1>7, <3>2, <4>1
    <3>3. CASE i = Len(s) + d + 1
      <4>1. i - Len(s) = d + 1
        BY <1>7, <3>3
      <4> QED
        BY <1>4, <1>6, <1>7, <1>8, <2>2, <3>3, <4>1
    <3>4. i \in Nat /\ (i <= Len(s) \/ (i > Len(s) /\ i <= Len(s) + d) \/ i = Len(s) + d + 1)
      BY <2>1
    <3> QED
      BY <3>1, <3>2, <3>3, <3>4
  <2>4. PICK v, w : v = Append(s \o g, x) /\ w = s \o f
    OBVIOUS
  <2>5. v \in Seq(Given) /\ w \in Seq(Given) /\ Len(v) = Len(w) /\ \A i \in 1 .. Len(v) : v[i] = w[i]
    BY <2>1, <2>2, <2>3, <2>4
  <2>6. v = w
    BY <2>5, SeqEqual
  <2> QED
    BY <2>4, <2>6
<1> QED
  BY <1>1, <1>2, <1>3, <1>8, <1>9 DEF Between

LEMMA ImpliesPresentIsReplay ==
  ASSUME IInv
  PROVE  PresentIsReplay
<1> SUFFICES ASSUME reconciled # 0, predicted - reconciled < Ring
             PROVE  /\ \A t \in reconciled + 1 .. predicted : HeldAt(ring, t) /\ slot(ring, t).input # None
                    /\ present = world[reconciled] \o Between(reconciled, predicted)
  BY DEF PresentIsReplay, Between
<1>1. PICK n \in Nat, p \in Nat : n = reconciled /\ p = predicted /\ n > 0 /\ n < p /\ n + 1 \in Nat
  BY IInvFacts, ChainHolds
<1>2. \A t \in n + 1 .. p : HeldAt(ring, t) => Linked(ring, t, p, present)
  BY <1>1, ChainHolds
<1> DEFINE H == {t \in Nat : HeldAt(ring, t)}
<1>3. \A t \in n + 1 .. p : t \in H
  <2>1. n + 1 \in H
    BY <1>1, ChainHolds
  <2>2. ASSUME NEW t \in n + 1 .. p - 1, t \in H PROVE t + 1 \in H
    <3>1. t \in n + 1 .. p /\ t < p /\ t + 1 \in Nat
      BY <1>1
    <3> QED
      BY <1>2, <2>2, <3>1 DEF Linked
  <2> HIDE DEF H
  <2> QED
    BY <1>1, <2>1, <2>2, RangeInduction
<1>4. \A t \in n + 1 .. p : HeldAt(ring, t) /\ Linked(ring, t, p, present) /\ slot(ring, t).input # None
  BY <1>2, <1>3 DEF Linked
<1>5. \A t \in n + 1 .. p : slot(ring, t).input \in Given
  <2>1. \A t \in n + 1 .. p : slot(ring, t) \in Slots
    BY <1>1, SlotType DEF IInv, RingInv
  <2> QED
    BY <1>4, <2>1 DEF Slots
<1>6. world[n] \in States
  BY <1>1, IInvFacts DEF IInv, ServerInv
<1> DEFINE S == {t \in Nat : slot(ring, t).state = world[n] \o Between(n, t)}
<1>7. n + 1 \in S
  <2>1. slot(ring, n + 1).state = step(world[n], slot(ring, n + 1).input)
    BY <1>1, <1>3, ChainHolds
  <2>2. \A u \in n + 1 .. n + 1 : slot(ring, u).input \in Given
    BY <1>1, <1>5
  <2>3. Append(world[n] \o Between(n, n), slot(ring, n + 1).input) = world[n] \o Between(n, n + 1)
    <3>1. n <= n
      BY <1>1
    <3> HIDE DEF H, S
    <3> QED
      BY <1>6, <2>2, <3>1, BetweenNext
  <2>4. Between(n, n) = <<>>
    BY <1>1 DEF Between
  <2>5. world[n] \o <<>> = world[n]
    BY <1>6 DEF States
  <2> QED
    BY <1>1, <2>1, <2>3, <2>4, <2>5 DEF step
<1>8. ASSUME NEW t \in n + 1 .. p - 1, t \in S PROVE t + 1 \in S
  <2>1. t \in n + 1 .. p /\ t < p /\ t \in Nat /\ n <= t /\ t + 1 \in Nat
    BY <1>1
  <2>2. slot(ring, t + 1).state = Append(slot(ring, t).state, slot(ring, t + 1).input)
    BY <1>4, <2>1 DEF Linked, step
  <2>3. \A u \in n + 1 .. t + 1 : slot(ring, u).input \in Given
    BY <1>5, <2>1
  <2>4. Append(world[n] \o Between(n, t), slot(ring, t + 1).input) = world[n] \o Between(n, t + 1)
    BY <1>1, <1>6, <2>1, <2>3, BetweenNext
  <2> QED
    BY <1>8, <2>1, <2>2, <2>4
<1>9. p \in S
  <2> HIDE DEF S
  <2>1. \A t \in n + 1 .. p : t \in S
    BY <1>1, <1>7, <1>8, RangeInduction
  <2> QED
    BY <1>1, <2>1
<1>10. present = slot(ring, p).state
  <2>1. p \in n + 1 .. p
    BY <1>1
  <2> QED
    BY <1>4, <2>1 DEF Linked
<1> QED
  BY <1>1, <1>4, <1>9, <1>10

LEMMA ImpliesStandInsAreGuesses ==
  ASSUME IInv
  PROVE  StandInsAreGuesses
<1>1. \A m \in messages : \A t \in DOMAIN m : t \in DOMAIN collected /\ m[t] = collected[t]
  BY DEF IInv, InputsInv, Says
<1>2. ASSUME NEW t \in 1 .. tick, HeldAt(ring, t), slot(ring, t).input # None, t \notin DOMAIN collected,
             NEW c \in DOMAIN collected \cap 1 .. t - 1, (c + 1 .. t) \cap DOMAIN collected = {},
             t - c < Ring, HeldAt(ring, c), slot(ring, c).collected, ran[c] = collected[c]
      PROVE  slot(ring, t).input = ran[t]
  <2>1. t \in Nat /\ c \in Nat /\ c > 0 /\ c < t /\ t <= tick
    BY IInvFacts
  <2>2. slot(ring, t).input = collected[c]
    <3>1. Repeats(ring, collected, t, slot(ring, t).input)
      BY <1>2, <2>1, SlotIndex DEF IInv, RingInv, StandIns, HeldAt, slot
    <3>2. \A v \in DOMAIN collected : ~(c < v /\ v <= t)
      <4>1. \A v \in DOMAIN collected : v \in Nat
        BY IInvFacts DEF IInv, InputsInv
      <4> QED
        BY <1>2, <2>1, <4>1
    <3> QED
      BY <1>2, <2>1, <3>1, <3>2 DEF Repeats
  <2> DEFINE S == {u \in Nat : ran[u] = collected[c]}
  <2>3. c \in S
    BY <1>2, <2>1
  <2>4. ASSUME NEW u \in c .. t - 1, u \in S PROVE u + 1 \in S
    <3>1. u + 1 \in 1 .. tick /\ u + 1 \in c + 1 .. t /\ u + 1 # 1 /\ (u + 1) - 1 = u /\ u + 1 \in Nat
      BY <2>1, IInvFacts
    <3>2. u + 1 \notin DOMAIN collected
      BY <1>2, <3>1
    <3>3. ran[u + 1] = ran[u]
      BY <3>1, <3>2 DEF IInv, ServerInv
    <3> QED
      BY <2>4, <3>1, <3>3
  <2>5. t \in S
    <3> HIDE DEF S
    <3>1. \A u \in c .. t : u \in S
      BY <2>1, <2>3, <2>4, RangeInduction
    <3> QED
      BY <2>1, <3>1
  <2> QED
    BY <2>2, <2>5
<1> QED
  BY <1>1, <1>2 DEF StandInsAreGuesses

\* Types.
THEOREM TypeCorrect == Spec => []TypeOK
<1>1. IInv => TypeOK
  BY DEF IInv
<1> QED
  BY <1>1, Invariance, PTL

\* However messages are lost, repeated or late, a tick of the server runs with what the client collected
\* for it, or with what the tick before ran with (InputBuffer::insert, take).
THEOREM TicksInOrder == Spec => []TicksRunTheirInput
<1>1. IInv => TicksRunTheirInput
  BY DEF IInv, ServerInv, TicksRunTheirInput
<1> QED
  BY <1>1, Invariance, PTL

\* When the server runs the inputs the client predicted with, it arrives at the predicted states
\* (Prediction::predict, record and reconcile).
THEOREM PredictionsComeTrue == Spec => []PredictionIsTrue
<1> QED
  BY Invariance, ImpliesPredictionIsTrue, PTL

\* The client shows the server's newest state it knows and its own inputs since then, through every
\* outcome of reconcile and every jump (Prediction::reconcile, drop_states).
THEOREM PresentFollows == Spec => []PresentIsReplay
<1> QED
  BY Invariance, ImpliesPresentIsReplay, PTL

\* A tick without an input is predicted with what the server repeats, and is never sent
\* (Prediction::reconcile, last_input_at_or_before and inputs).
THEOREM GuessesAreTheServers == Spec => []StandInsAreGuesses
<1> QED
  BY Invariance, ImpliesStandInsAreGuesses, PTL
================================================================================
