---------------------------- MODULE NetClient_proof ----------------------------
(* Proofs about NetClient, for any entities, any depth, any states and any      *)
(* entities the game destroys: the client's world is a forest all the way.      *)
EXTENDS NetClient, Prediction_proof, FiniteSetTheorems

--------------------------------------------------------------------------------
(* Levels: what lies so many steps from an entity.                              *)

IsLevels(f, e, k, next) ==
  f = [n \in 0 .. k |-> IF n = 0 THEN {e} ELSE UNION {next[x] : x \in f[n - 1]}]

LEMMA LevelsExist ==
  ASSUME NEW e, NEW next, NEW k \in Nat
  PROVE  \E f : IsLevels(f, e, k, next)
<1> DEFINE S == {m \in Nat : \E f : IsLevels(f, e, m, next)}
           Then(T) == UNION {next[x] : x \in T}
<1>1. 0 \in S
  <2> DEFINE f == [n \in 0 .. 0 |-> {e}]
  <2>1. f = [n \in 0 .. 0 |-> IF n = 0 THEN {e} ELSE Then(f[n - 1])]
    OBVIOUS
  <2>2. IsLevels(f, e, 0, next)
    BY <2>1 DEF IsLevels
  <2> QED BY <2>2
<1>2. ASSUME NEW m \in Nat, m \in S PROVE m + 1 \in S
  <2>1. PICK f : IsLevels(f, e, m, next)
    BY <1>2
  <2>2. f = [n \in 0 .. m |-> IF n = 0 THEN {e} ELSE Then(f[n - 1])]
    BY <2>1 DEF IsLevels
  <2> HIDE DEF Then
  <2> DEFINE g == [n \in 0 .. m + 1 |-> IF n = m + 1 THEN Then(f[m]) ELSE f[n]]
  <2>3. ASSUME NEW n \in 0 .. m + 1 PROVE g[n] = IF n = 0 THEN {e} ELSE Then(g[n - 1])
    <3>1. CASE n = m + 1
      BY <3>1
    <3>2. CASE n \in 0 .. m /\ n # m + 1
      <4>1. g[n] = f[n] /\ (n # 0 => g[n - 1] = f[n - 1])
        BY <3>2
      <4>2. f[n] = IF n = 0 THEN {e} ELSE Then(f[n - 1])
        BY <2>2, <3>2
      <4> HIDE DEF g
      <4> QED BY <4>1, <4>2
    <3> QED BY <3>1, <3>2
  <2>4. g = [n \in 0 .. m + 1 |-> IF n = 0 THEN {e} ELSE Then(g[n - 1])]
    BY <2>3
  <2> HIDE DEF g
  <2>5. IsLevels(g, e, m + 1, next)
    BY <2>4 DEF IsLevels, Then
  <2> QED BY <2>5
<1>3. \A m \in Nat : m >= 0 /\ m \in S => m + 1 \in S
  BY <1>2
<1> HIDE DEF S
<1>4. k \in S
  BY <1>1, <1>3, InductionFrom
<1> QED BY <1>4 DEF S

\* What the levels are, of steps from entities to entities.
LevelsOf(f, e, k, next) ==
  /\ DOMAIN f = 0 .. k /\ f[0] = {e}
  /\ \A n \in 0 .. k : f[n] \subseteq Entities
  /\ \A n \in 0 .. k - 1 : f[n + 1] = UNION {next[x] : x \in f[n]}

LEMMA LevelsAre ==
  ASSUME NEW e \in Entities, NEW k \in Nat, NEW next \in [Entities -> SUBSET Entities]
  PROVE  LevelsOf(Levels(e, k, next), e, k, next)
<1> DEFINE f == CHOOSE f : IsLevels(f, e, k, next)
           S == {n \in Nat : n <= k => f[n] \subseteq Entities}
<1>1. IsLevels(f, e, k, next)
  BY LevelsExist
<1>2. Levels(e, k, next) = f
  BY DEF Levels, IsLevels
<1> HIDE DEF f
<1>3. DOMAIN f = 0 .. k /\ \A n \in 0 .. k : f[n] = IF n = 0 THEN {e} ELSE UNION {next[x] : x \in f[n - 1]}
  BY <1>1 DEF IsLevels
<1>4. \A n \in 0 .. k - 1 : f[n + 1] = UNION {next[x] : x \in f[n]}
  <2> TAKE n \in 0 .. k - 1
  <2>1. n + 1 \in 0 .. k /\ n + 1 # 0 /\ (n + 1) - 1 = n
    OBVIOUS
  <2>2. f[n + 1] = UNION {next[x] : x \in f[(n + 1) - 1]}
    BY <1>3, <2>1
  <2> QED BY <2>1, <2>2
<1>5. f[0] = {e}
  BY <1>3
<1>6. 0 \in S
  BY <1>5
<1>7. ASSUME NEW n \in Nat, n >= 0 /\ n \in S PROVE n + 1 \in S
  <2> SUFFICES ASSUME n + 1 <= k PROVE f[n + 1] \subseteq Entities
    OBVIOUS
  <2>1. n \in 0 .. k - 1 /\ f[n] \subseteq Entities
    BY <1>7
  <2> QED BY <1>4, <2>1
<1>8. \A n \in Nat : n >= 0 => n \in S
  <2> HIDE DEF S
  <2> QED BY <1>6, <1>7, InductionFrom
<1>9. \A n \in 0 .. k : f[n] \subseteq Entities
  BY <1>8
<1> QED BY <1>2, <1>3, <1>4, <1>5, <1>9 DEF LevelsOf

\* A rank that grows with every step, up to the depth there may be.
Rises(r, next) == r \in [Entities -> 0 .. MaxDepth] /\ \A x \in Entities : \A y \in next[x] : r[x] < r[y]

LEMMA LevelRises ==
  ASSUME NEW e \in Entities, NEW k \in Nat, NEW next \in [Entities -> SUBSET Entities], NEW r, Rises(r, next),
         NEW f, LevelsOf(f, e, k, next)
  PROVE  \A n \in 0 .. k : \A y \in f[n] : r[y] >= r[e] + n
<1> DEFINE S == {n \in Nat : n <= k => \A y \in f[n] : r[y] >= r[e] + n}
<1>1. 0 \in S
  BY DEF LevelsOf, Rises
<1>2. ASSUME NEW n \in Nat, n >= 0 /\ n \in S PROVE n + 1 \in S
  <2> SUFFICES ASSUME n + 1 <= k, NEW y \in f[n + 1] PROVE r[y] >= r[e] + (n + 1)
    OBVIOUS
  <2>1. n \in 0 .. k - 1 /\ n \in 0 .. k /\ n <= k
    OBVIOUS
  <2>2. PICK x \in f[n] : y \in next[x]
    BY <2>1 DEF LevelsOf
  <2>3. x \in Entities /\ y \in Entities
    BY <2>1, <2>2 DEF LevelsOf
  <2>4. r[x] < r[y] /\ r[x] >= r[e] + n
    BY <1>2, <2>1, <2>2, <2>3 DEF Rises
  <2>5. {r[x], r[y], r[e]} \subseteq Nat
    BY <2>3 DEF Rises
  <2> QED BY <2>4, <2>5
<1>3. \A n \in Nat : n >= 0 => n \in S
  <2> HIDE DEF S
  <2> QED BY <1>1, <1>2, InductionFrom
<1> QED BY <1>3

\* A set of numbers from 1 that with each has the one before is what its size says.
LEMMA FirstOnes ==
  ASSUME NEW k \in Nat, NEW S \in SUBSET (1 .. k), \A n \in S : n > 1 => n - 1 \in S
  PROVE  Cardinality(S) \in 0 .. k /\ S = 1 .. Cardinality(S)
<1>1. CASE S = {}
  BY <1>1, FS_EmptySet
<1>2. CASE S # {}
  <2>1. PICK m \in S : \A v \in S : v <= m
    BY <1>2, HasGreatest
  <2> DEFINE B == {j \in Nat : j < m => m - j \in S}
  <2>2. m \in 1 .. k
    OBVIOUS
  <2>3. 0 \in B
    BY <2>2
  <2>4. ASSUME NEW j \in Nat, j >= 0 /\ j \in B PROVE j + 1 \in B
    <3> SUFFICES ASSUME j + 1 < m PROVE m - (j + 1) \in S
      OBVIOUS
    <3>1. m - j \in S /\ m - j > 1
      BY <2>2, <2>4
    <3>2. (m - j) - 1 \in S
      BY <3>1
    <3>3. (m - j) - 1 = m - (j + 1)
      BY <2>2
    <3> QED BY <3>2, <3>3
  <2>5. \A j \in Nat : j >= 0 => j \in B
    <3> HIDE DEF B
    <3> QED BY <2>3, <2>4, InductionFrom
  <2>6. ASSUME NEW n \in 1 .. m PROVE n \in S
    <3>1. m - n \in Nat /\ m - n >= 0 /\ m - n < m /\ m - (m - n) = n
      BY <2>2
    <3>2. m - (m - n) \in S
      BY <2>5, <3>1
    <3> QED BY <3>1, <3>2
  <2>7. S = 1 .. m
    <3>1. \A v \in S : v \in 1 .. m
      BY <2>1, <2>2
    <3> QED BY <2>6, <3>1
  <2>8. Cardinality(1 .. m) = m
    BY <2>2, FS_Interval
  <2> QED BY <2>2, <2>7, <2>8
<1> QED BY <1>1, <1>2

\* The levels that lead somewhere come first, and Length is how many they are.
LEMMA LengthIs ==
  ASSUME NEW e \in Entities, NEW k \in Nat, NEW next \in [Entities -> SUBSET Entities],
         NEW f, LevelsOf(f, e, k, next)
  PROVE  Length(f) \in 0 .. k /\ \A n \in 1 .. k : f[n] # {} <=> n <= Length(f)
<1> DEFINE S == {n \in DOMAIN f \ {0} : f[n] # {}}
<1>1. S \in SUBSET (1 .. k)
  BY DEF LevelsOf
<1>2. ASSUME NEW n \in S, n > 1 PROVE n - 1 \in S
  <2>1. n \in 2 .. k /\ f[n] # {}
    BY <1>1, <1>2
  <2>2. n - 1 \in 0 .. k - 1 /\ (n - 1) + 1 = n /\ n - 1 # 0 /\ n - 1 \in DOMAIN f
    BY <2>1 DEF LevelsOf
  <2>3. f[(n - 1) + 1] = UNION {next[x] : x \in f[n - 1]}
    BY <2>2 DEF LevelsOf
  <2> QED BY <2>1, <2>2, <2>3
<1>3. Length(f) = Cardinality(S)
  BY DEF Length
<1>4. Cardinality(S) \in 0 .. k /\ S = 1 .. Cardinality(S)
  <2> HIDE DEF S
  <2> QED BY <1>1, <1>2, FirstOnes
<1>5. ASSUME NEW n \in 1 .. k PROVE f[n] # {} <=> n \in S
  BY DEF LevelsOf
<1> HIDE DEF S
<1> QED BY <1>3, <1>4, <1>5

\* What lies n steps from the next one lies one more from here.
LEMMA OneFurther ==
  ASSUME NEW x \in Entities, NEW k \in Nat, NEW next \in [Entities -> SUBSET Entities], NEW y \in next[x],
         NEW f, LevelsOf(f, x, k, next), NEW g, LevelsOf(g, y, k, next)
  PROVE  \A n \in 0 .. k - 1 : g[n] \subseteq f[n + 1]
<1> DEFINE S == {n \in Nat : n < k => g[n] \subseteq f[n + 1]}
<1>1. 0 \in S
  <2> SUFFICES ASSUME 0 < k PROVE g[0] \subseteq f[0 + 1]
    OBVIOUS
  <2>1. g[0] = {y} /\ f[0] = {x} /\ f[0 + 1] = UNION {next[z] : z \in f[0]}
    BY DEF LevelsOf
  <2> QED BY <2>1
<1>2. ASSUME NEW n \in Nat, n >= 0 /\ n \in S PROVE n + 1 \in S
  <2> SUFFICES ASSUME n + 1 < k PROVE g[n + 1] \subseteq f[(n + 1) + 1]
    OBVIOUS
  <2>1. n \in 0 .. k - 1 /\ n + 1 \in 0 .. k - 1 /\ g[n] \subseteq f[n + 1]
    BY <1>2
  <2>2. /\ g[n + 1] = UNION {next[z] : z \in g[n]}
        /\ f[(n + 1) + 1] = UNION {next[z] : z \in f[n + 1]}
    BY <2>1 DEF LevelsOf
  <2> QED BY <2>1, <2>2
<1>3. \A n \in Nat : n >= 0 => n \in S
  <2> HIDE DEF S
  <2> QED BY <1>1, <1>2, InductionFrom
<1> QED BY <1>3

\* How far the levels go is a rank itself, that falls with every step.
Far(x, next) == Length(Levels(x, MaxDepth + 1, next))

LEMMA FarFalls ==
  ASSUME NEW next \in [Entities -> SUBSET Entities], NEW r, Rises(r, next), NEW x \in Entities
  PROVE  Far(x, next) \in 0 .. MaxDepth /\ \A y \in next[x] : Far(y, next) < Far(x, next)
<1> MaxDepth \in Nat /\ MaxDepth + 1 \in Nat
  BY HierarchyAssumption
<1>1. ASSUME NEW z \in Entities PROVE Far(z, next) \in 0 .. MaxDepth
  <2> DEFINE f == Levels(z, MaxDepth + 1, next)
  <2>1. LevelsOf(f, z, MaxDepth + 1, next)
    BY LevelsAre
  <2> HIDE DEF f
  <2>2. \A n \in 0 .. MaxDepth + 1 : \A y \in f[n] : r[y] >= r[z] + n
    BY <2>1, LevelRises
  <2>3. f[MaxDepth + 1] = {}
    <3> SUFFICES ASSUME NEW y \in f[MaxDepth + 1] PROVE FALSE
      OBVIOUS
    <3>1. y \in Entities
      BY <2>1 DEF LevelsOf
    <3>2. r[y] >= r[z] + (MaxDepth + 1)
      BY <2>2
    <3>3. r[y] \in 0 .. MaxDepth /\ r[z] \in 0 .. MaxDepth
      BY <3>1 DEF Rises
    <3> QED BY <3>2, <3>3
  <2>4. Length(f) \in 0 .. MaxDepth + 1 /\ \A n \in 1 .. MaxDepth + 1 : f[n] # {} <=> n <= Length(f)
    BY <2>1, LengthIs
  <2>5. Length(f) \in 0 .. MaxDepth
    BY <2>3, <2>4
  <2> QED BY <2>5 DEF Far, f
<1>2. ASSUME NEW y \in next[x] PROVE Far(y, next) < Far(x, next)
  <2> y \in Entities
    OBVIOUS
  <2> DEFINE f == Levels(x, MaxDepth + 1, next)
             g == Levels(y, MaxDepth + 1, next)
  <2>1. LevelsOf(f, x, MaxDepth + 1, next) /\ LevelsOf(g, y, MaxDepth + 1, next)
    BY LevelsAre
  <2>2. Length(f) = Far(x, next) /\ Length(g) = Far(y, next)
    BY DEF Far
  <2> HIDE DEF f, g
  <2>3. \A n \in 0 .. (MaxDepth + 1) - 1 : g[n] \subseteq f[n + 1]
    BY <2>1, OneFurther
  <2>4. Length(g) \in 0 .. MaxDepth
    BY <1>1, <2>2
  <2>5. g[Length(g)] # {}
    <3>1. CASE Length(g) = 0
      BY <2>1, <3>1 DEF LevelsOf
    <3>2. CASE Length(g) # 0
      <4>1. \A n \in 1 .. MaxDepth + 1 : g[n] # {} <=> n <= Length(g)
        BY <2>1, LengthIs
      <4> QED BY <2>4, <3>2, <4>1
    <3> QED BY <3>1, <3>2
  <2>6. f[Length(g) + 1] # {} /\ Length(g) + 1 \in 1 .. MaxDepth + 1
    BY <2>3, <2>4, <2>5
  <2>7. \A n \in 1 .. MaxDepth + 1 : f[n] # {} <=> n <= Length(f)
    BY <2>1, LengthIs
  <2>8. Length(f) \in 0 .. MaxDepth
    BY <1>1, <2>2
  <2> QED BY <2>2, <2>4, <2>6, <2>7, <2>8
<1> QED BY <1>1, <1>2

--------------------------------------------------------------------------------
(* Worlds.                                                                      *)

Worlds == [alive : SUBSET Entities, parent : [Entities -> Entities \cup {Nobody}], children : [Entities -> SUBSET Entities]]

Ranks(d, w) ==
  d \in [Entities -> 0 .. MaxDepth] /\ \A e \in Entities : w.parent[e] # Nobody => d[w.parent[e]] < d[e]

\* Parent and Children agree, and the entities have ranks: every one's is above its parent's.
Agree(w) ==
  /\ \A e \in Entities : w.parent[e] # Nobody => {e, w.parent[e]} \subseteq w.alive
  /\ \A p \in Entities : w.children[p] = {c \in Entities : w.parent[c] = p}
Forest(w) == w \in Worlds /\ Agree(w) /\ \E d : Ranks(d, w)

UpFrom(w) == [x \in Entities |-> {live_parent(w, x)} \ {Nobody}]

\* Both ways rise, one with the ranks, the other against them.
LEMMA ForestRises ==
  ASSUME NEW w, Forest(w)
  PROVE  /\ UpFrom(w) \in [Entities -> SUBSET Entities] /\ w.children \in [Entities -> SUBSET Entities]
         /\ \A x \in Entities : UpFrom(w)[x] = IF w.parent[x] = Nobody THEN {} ELSE {w.parent[x]}
         /\ \E r : Rises(r, UpFrom(w))
         /\ \E r : Rises(r, w.children)
<1>1. w \in Worlds /\ Agree(w)
  BY DEF Forest
<1>2. \A x \in Entities : w.parent[x] \in Entities \cup {Nobody}
  BY <1>1 DEF Worlds
<1>3. \A x \in Entities : UpFrom(w)[x] = IF w.parent[x] = Nobody THEN {} ELSE {w.parent[x]}
  <2> TAKE x \in Entities
  <2>1. CASE w.parent[x] = Nobody
    BY <2>1 DEF UpFrom, live_parent
  <2>2. CASE w.parent[x] # Nobody
    <3>1. live_parent(w, x) = w.parent[x]
      BY <1>1, <2>2 DEF live_parent, Agree
    <3> QED BY <2>2, <3>1 DEF UpFrom
  <2> QED BY <2>1, <2>2
<1>4. UpFrom(w) \in [Entities -> SUBSET Entities] /\ w.children \in [Entities -> SUBSET Entities]
  <2>1. \A x \in Entities : UpFrom(w)[x] \subseteq Entities
    BY <1>2, <1>3
  <2>2. DOMAIN UpFrom(w) = Entities /\ UpFrom(w) = [x \in Entities |-> UpFrom(w)[x]]
    BY DEF UpFrom
  <2> QED BY <1>1, <2>1, <2>2 DEF Worlds
<1>5. PICK d : Ranks(d, w)
  BY DEF Forest
<1> DEFINE r == [x \in Entities |-> MaxDepth - d[x]]
<1> MaxDepth \in Nat
  BY HierarchyAssumption
<1>6. Rises(r, UpFrom(w))
  <2>1. \A x \in Entities : r[x] = MaxDepth - d[x] /\ d[x] \in 0 .. MaxDepth /\ r[x] \in 0 .. MaxDepth
    BY <1>5 DEF Ranks
  <2>2. r \in [Entities -> 0 .. MaxDepth]
    BY <2>1
  <2> HIDE DEF r
  <2>3. ASSUME NEW x \in Entities, NEW y \in UpFrom(w)[x] PROVE r[x] < r[y]
    <3>1. y = w.parent[x] /\ y \in Entities /\ d[y] < d[x]
      BY <1>2, <1>3, <1>5, <2>3 DEF Ranks
    <3> QED BY <2>1, <3>1
  <2> QED BY <2>2, <2>3 DEF Rises
<1>7. Rises(d, w.children)
  <2>1. ASSUME NEW x \in Entities, NEW y \in w.children[x] PROVE d[x] < d[y]
    <3>1. y \in Entities /\ w.parent[y] = x /\ x # Nobody
      BY <1>1, <2>1, HierarchyAssumption DEF Agree
    <3> QED BY <1>5, <3>1 DEF Ranks
  <2> QED BY <1>5, <2>1 DEF Rises, Ranks
<1> QED BY <1>3, <1>4, <1>6, <1>7

\* A forest is what IsForest says.
LEMMA ForestIs ==
  ASSUME NEW w, Forest(w)
  PROVE  IsForest(w)
<1> MaxDepth \in Nat /\ MaxDepth + 1 \in Nat
  BY HierarchyAssumption
<1>1. UpFrom(w) \in [Entities -> SUBSET Entities]
  BY ForestRises
<1>2. PICK r : Rises(r, UpFrom(w))
  BY ForestRises
<1>3. ASSUME NEW e \in Entities PROVE e \notin Ancestors(w, e) /\ Depth(w, e) <= MaxDepth
  <2>1. Up(w, e) = Levels(e, MaxDepth + 1, UpFrom(w))
    BY DEF Up, UpFrom
  <2>2. LevelsOf(Up(w, e), e, MaxDepth + 1, UpFrom(w))
    BY <1>1, <2>1, LevelsAre
  <2>3. \A n \in 0 .. MaxDepth + 1 : \A y \in Up(w, e)[n] : r[y] >= r[e] + n
    BY <1>1, <1>2, <2>2, LevelRises
  <2>4. e \notin Ancestors(w, e)
    <3> SUFFICES ASSUME NEW n \in 1 .. MaxDepth + 1, e \in Up(w, e)[n] PROVE FALSE
      BY DEF Ancestors
    <3>1. r[e] >= r[e] + n /\ r[e] \in Nat
      BY <1>2, <2>3 DEF Rises
    <3> QED BY <3>1
  <2>5. Depth(w, e) = Far(e, UpFrom(w))
    BY <2>1 DEF Depth, Far
  <2>6. Far(e, UpFrom(w)) \in 0 .. MaxDepth
    BY <1>1, <1>2, FarFalls
  <2> QED BY <2>4, <2>5, <2>6
<1> QED BY <1>3 DEF Forest, Agree, Worlds, IsForest

\* Fewer entities hang below another, and the same ranks will do.
LEMMA StillRanked ==
  ASSUME NEW w, Forest(w), NEW v, \A e \in Entities : v.parent[e] \in {w.parent[e], Nobody}
  PROVE  \E d : Ranks(d, v)
<1>1. PICK d : Ranks(d, w)
  BY DEF Forest
<1>2. Ranks(d, v)
  <2>1. ASSUME NEW e \in Entities, v.parent[e] # Nobody PROVE d[v.parent[e]] < d[e]
    BY <1>1, <2>1 DEF Ranks
  <2> QED BY <1>1, <2>1 DEF Ranks
<1> QED BY <1>2

\* New entities hang nowhere.
LEMMA MoreAlive ==
  ASSUME NEW w, Forest(w), NEW more \in SUBSET Entities,
         NEW v, v = [w EXCEPT !.alive = @ \cup more]
  PROVE  Forest(v) /\ v.alive = w.alive \cup more
<1>1. w \in Worlds /\ Agree(w)
  BY DEF Forest
<1>2. v.alive = w.alive \cup more /\ v.parent = w.parent /\ v.children = w.children /\ v \in Worlds
  BY <1>1 DEF Worlds
<1>3. Agree(v)
  BY <1>1, <1>2 DEF Agree
<1>4. \E d : Ranks(d, v)
  BY <1>2, StillRanked
<1> QED BY <1>2, <1>3, <1>4 DEF Forest

LEMMA ClearKeeps ==
  ASSUME NEW w, Forest(w), NEW c \in Entities, NEW v, v = clear_parent(w, c)
  PROVE  Forest(v) /\ v.alive = w.alive
<1>1. w \in Worlds /\ Agree(w)
  BY DEF Forest
<1>2. CASE v = w
  BY <1>2
<1>3. CASE v # w
  <2> DEFINE p == w.parent[c]
  <2>1. c \in w.alive /\ p # Nobody
    BY <1>3 DEF clear_parent
  <2>2. PICK u : u = detach_from_parent(w, c, p) /\ v = [u EXCEPT !.parent[c] = Nobody]
    BY <2>1 DEF clear_parent
  <2>3. p \in Entities
    BY <1>1, <2>1 DEF Worlds
  <2> HIDE DEF p
  <2>4. /\ u \in Worlds /\ u.alive = w.alive /\ u.parent = w.parent
        /\ \A x \in Entities : u.children[x] = IF x = p THEN w.children[x] \ {c} ELSE w.children[x]
    BY <1>1, <2>2, <2>3 DEF detach_from_parent, Worlds
  <2>5. /\ v \in Worlds /\ v.alive = w.alive /\ v.children = u.children
        /\ \A x \in Entities : v.parent[x] = IF x = c THEN Nobody ELSE w.parent[x]
    BY <2>2, <2>4 DEF Worlds
  <2>6. Agree(v)
    <3>1. ASSUME NEW x \in Entities PROVE v.children[x] = {e \in Entities : v.parent[e] = x}
      <4>1. w.children[x] = {e \in Entities : w.parent[e] = x} /\ x # Nobody /\ w.parent[c] = p
        BY <1>1, HierarchyAssumption DEF Agree, p
      <4>2. \A e \in Entities : v.parent[e] = x <=> e # c /\ w.parent[e] = x
        BY <2>5, <4>1
      <4>3. v.children[x] = {e \in Entities : e # c /\ w.parent[e] = x}
        BY <2>4, <2>5, <4>1
      <4> QED BY <4>2, <4>3
    <3> QED BY <1>1, <2>5, <3>1 DEF Agree
  <2>7. \E d : Ranks(d, v)
    BY <2>5, StillRanked
  <2> QED BY <2>5, <2>6, <2>7 DEF Forest
<1> QED BY <1>2, <1>3

\* Whom an entity lies below, by the children, it has above it, by the parents.
LEMMA AboveBelow ==
  ASSUME NEW w, Forest(w), NEW c \in Entities, NEW f, LevelsOf(f, c, MaxDepth + 1, w.children)
  PROVE  \A n \in 0 .. MaxDepth + 1 : \A y \in f[n] : c \in Levels(y, MaxDepth + 1, UpFrom(w))[n]
<1> MaxDepth \in Nat /\ MaxDepth + 1 \in Nat
  BY HierarchyAssumption
<1> DEFINE k == MaxDepth + 1
           S == {n \in Nat : n <= k => \A y \in f[n] : c \in Levels(y, k, UpFrom(w))[n]}
<1>1. /\ UpFrom(w) \in [Entities -> SUBSET Entities]
      /\ \A x \in Entities : UpFrom(w)[x] = IF w.parent[x] = Nobody THEN {} ELSE {w.parent[x]}
      /\ \A x \in Entities : w.children[x] = {y \in Entities : w.parent[y] = x}
      /\ Nobody \notin Entities
  BY ForestRises, HierarchyAssumption DEF Forest, Agree
<1>2. \A y \in Entities : LevelsOf(Levels(y, k, UpFrom(w)), y, k, UpFrom(w))
  BY <1>1, LevelsAre
<1>3. 0 \in S
  BY <1>2 DEF LevelsOf
<1>4. ASSUME NEW n \in Nat, n >= 0 /\ n \in S PROVE n + 1 \in S
  <2> SUFFICES ASSUME n + 1 <= k, NEW y \in f[n + 1] PROVE c \in Levels(y, k, UpFrom(w))[n + 1]
    OBVIOUS
  <2>1. n \in 0 .. k - 1 /\ n \in 0 .. k /\ n <= k
    OBVIOUS
  <2>2. PICK x \in f[n] : y \in w.children[x]
    BY <2>1 DEF LevelsOf
  <2>3. x \in Entities
    BY <2>1 DEF LevelsOf
  <2>4. y \in Entities /\ w.parent[y] = x /\ x \in UpFrom(w)[y]
    BY <1>1, <2>2, <2>3
  <2>5. c \in Levels(x, k, UpFrom(w))[n]
    BY <1>4, <2>1, <2>2
  <2>6. Levels(x, k, UpFrom(w))[n] \subseteq Levels(y, k, UpFrom(w))[n + 1]
    BY <1>1, <1>2, <2>1, <2>3, <2>4, OneFurther
  <2> QED BY <2>5, <2>6
<1>5. \A n \in Nat : n >= 0 => n \in S
  <2> HIDE DEF S
  <2> QED BY <1>3, <1>4, InductionFrom
<1> QED BY <1>5

\* What an entity moves to a new parent with it: ranks from the depth above and the height below.
LEMMA MovedRanks ==
  ASSUME NEW w, Forest(w), NEW c \in Entities, NEW p \in Entities, MayHang(w, c, p),
         NEW v, \A e \in Entities : v.parent[e] = IF e = c THEN p ELSE w.parent[e]
  PROVE  \E d : Ranks(d, v)
<1> MaxDepth \in Nat /\ MaxDepth + 1 \in Nat
  BY HierarchyAssumption
<1> DEFINE f == Levels(c, MaxDepth + 1, w.children)
           below == UNION {f[n] : n \in 0 .. MaxDepth + 1}
           D(x) == Far(x, UpFrom(w))
           H(x) == Far(x, w.children)
           d == [x \in Entities |-> IF x \in below THEN MaxDepth - H(x) ELSE D(x)]
<1>1. /\ UpFrom(w) \in [Entities -> SUBSET Entities] /\ w.children \in [Entities -> SUBSET Entities]
      /\ \A x \in Entities : UpFrom(w)[x] = IF w.parent[x] = Nobody THEN {} ELSE {w.parent[x]}
      /\ \A x \in Entities : w.children[x] = {y \in Entities : w.parent[y] = x}
      /\ \A x \in Entities : w.parent[x] \in Entities \cup {Nobody}
      /\ Nobody \notin Entities
  BY ForestRises, HierarchyAssumption DEF Forest, Agree, Worlds
<1>2. \A x \in Entities : D(x) \in 0 .. MaxDepth /\ \A y \in UpFrom(w)[x] : D(y) < D(x)
  <2> PICK r : Rises(r, UpFrom(w))
    BY ForestRises
  <2> QED BY <1>1, FarFalls
<1>3. \A x \in Entities : H(x) \in 0 .. MaxDepth /\ \A y \in w.children[x] : H(y) < H(x)
  <2> PICK r : Rises(r, w.children)
    BY ForestRises
  <2> QED BY <1>1, FarFalls
<1>4. LevelsOf(f, c, MaxDepth + 1, w.children)
  BY <1>1, LevelsAre
<1>5. D(p) + 1 + H(c) <= MaxDepth
  BY DEF MayHang, Depth, height_of, Far, Up, UpFrom
\* The new parent is not below.
<1>6. p \notin below
  <2> SUFFICES ASSUME NEW n \in 0 .. MaxDepth + 1, p \in f[n] PROVE FALSE
    OBVIOUS
  <2>1. c \in Levels(p, MaxDepth + 1, UpFrom(w))[n]
    BY <1>4, AboveBelow
  <2>2. n # 0
    BY <1>4 DEF LevelsOf, MayHang
  <2>3. n \in 1 .. MaxDepth + 1 /\ Up(w, p) = Levels(p, MaxDepth + 1, UpFrom(w))
    BY <2>2 DEF Up, UpFrom
  <2>4. c \in Ancestors(w, p)
    BY <2>1, <2>3 DEF Ancestors
  <2> QED BY <2>4 DEF MayHang
\* No level leads out of what is below, and none but c leads into it.
<1>7. \E r : Rises(r, w.children)
  BY ForestRises
<1>8. f[MaxDepth + 1] = {}
  <2> PICK r : Rises(r, w.children)
    BY <1>7
  <2>1. \A y \in f[MaxDepth + 1] : r[y] >= r[c] + (MaxDepth + 1)
    BY <1>1, <1>4, LevelRises
  <2>2. f[MaxDepth + 1] \subseteq Entities
    BY <1>4 DEF LevelsOf
  <2> HIDE DEF f
  <2>3. ASSUME NEW y \in f[MaxDepth + 1] PROVE FALSE
    <3>1. r[y] \in 0 .. MaxDepth /\ r[c] \in 0 .. MaxDepth /\ r[y] >= r[c] + (MaxDepth + 1)
      BY <2>1, <2>2 DEF Rises
    <3> QED BY <3>1
  <2> QED BY <2>3
<1> HIDE DEF f
<1>9. c \in below
  BY <1>4 DEF LevelsOf
<1>10. ASSUME NEW x \in Entities, w.parent[x] \in below, w.parent[x] \in Entities PROVE x \in below
  <2>1. PICK n \in 0 .. MaxDepth + 1 : w.parent[x] \in f[n]
    BY <1>10
  <2>2. n \in 0 .. (MaxDepth + 1) - 1 /\ n + 1 \in 0 .. MaxDepth + 1
    BY <1>8, <2>1
  <2>3. x \in f[n + 1]
    BY <1>1, <1>4, <1>10, <2>1, <2>2 DEF LevelsOf
  <2> QED BY <2>2, <2>3
<1>11. ASSUME NEW x \in below, x # c PROVE w.parent[x] \in below
  <2>1. PICK n \in 0 .. MaxDepth + 1 : x \in f[n]
    OBVIOUS
  <2>2. n # 0
    BY <1>4, <1>11, <2>1 DEF LevelsOf
  <2>3. n - 1 \in 0 .. (MaxDepth + 1) - 1 /\ n - 1 \in 0 .. MaxDepth + 1 /\ (n - 1) + 1 = n
    BY <2>2
  <2>4. f[(n - 1) + 1] = UNION {w.children[y] : y \in f[n - 1]}
    BY <1>4, <2>3 DEF LevelsOf
  <2>5. PICK y \in f[n - 1] : x \in w.children[y]
    BY <2>1, <2>3, <2>4
  <2>6. y \in Entities
    BY <1>4, <2>3 DEF LevelsOf
  <2> QED BY <1>1, <2>3, <2>5, <2>6
<1>12. below \subseteq Entities
  BY <1>4 DEF LevelsOf
<1> HIDE DEF below, D, H
<1>13. \A x \in Entities : d[x] = (IF x \in below THEN MaxDepth - H(x) ELSE D(x)) /\ d[x] \in 0 .. MaxDepth
  BY <1>2, <1>3
<1>14. d \in [Entities -> 0 .. MaxDepth]
  BY <1>13
<1> HIDE DEF d
<1>15. ASSUME NEW e \in Entities, v.parent[e] # Nobody PROVE d[v.parent[e]] < d[e]
  <2>1. CASE e = c
    BY <1>2, <1>3, <1>5, <1>6, <1>9, <1>13, <2>1
  <2>2. CASE e # c
    <3>1. v.parent[e] = w.parent[e] /\ w.parent[e] \in Entities
      BY <1>1, <1>15, <2>2
    <3>2. D(w.parent[e]) < D(e) /\ H(e) < H(w.parent[e])
      BY <1>1, <1>2, <1>3, <3>1
    <3>3. w.parent[e] \in below <=> e \in below
      BY <1>10, <1>11, <2>2, <3>1
    <3>4. D(e) \in Nat /\ D(w.parent[e]) \in Nat /\ H(e) \in Nat /\ H(w.parent[e]) \in Nat
      BY <1>2, <1>3, <3>1
    <3> QED BY <1>13, <3>1, <3>2, <3>3, <3>4
  <2> QED BY <2>1, <2>2
<1> QED BY <1>14, <1>15 DEF Ranks

\* set_parent, refused or not.
LEMMA PlaceKeeps ==
  ASSUME NEW w, Forest(w), NEW c \in Entities, NEW p \in Entities, NEW v, v = set_parent(w, c, p)
  PROVE  Forest(v) /\ v.alive = w.alive
<1>1. w \in Worlds /\ Agree(w) /\ Nobody \notin Entities
  BY HierarchyAssumption DEF Forest
<1>2. CASE v = w
  BY <1>2
<1>3. CASE v # w
  <2> PICK old : old = w.parent[c]
    OBVIOUS
  <2>1. old # p /\ MayHang(w, c, p) /\ old \in Entities \cup {Nobody}
    BY <1>1, <1>3 DEF set_parent, Worlds
  <2> PICK u : u = IF old = Nobody THEN w ELSE detach_from_parent(w, c, old)
    OBVIOUS
  <2>2. v = [u EXCEPT !.parent[c] = p, !.children[p] = @ \cup {c}]
    BY <1>3 DEF set_parent
  <2>3. /\ u \in Worlds /\ u.alive = w.alive /\ u.parent = w.parent
        /\ \A x \in Entities : u.children[x] = IF x = old THEN w.children[x] \ {c} ELSE w.children[x]
    BY <1>1, <2>1 DEF detach_from_parent, Worlds
  <2>4. /\ v \in Worlds /\ v.alive = w.alive
        /\ \A x \in Entities : v.parent[x] = IF x = c THEN p ELSE w.parent[x]
        /\ \A x \in Entities : v.children[x] = IF x = p THEN u.children[x] \cup {c} ELSE u.children[x]
    <3>1. v = [alive |-> u.alive, parent |-> [u.parent EXCEPT ![c] = p],
               children |-> [u.children EXCEPT ![p] = @ \cup {c}]]
      BY <2>2, <2>3 DEF Worlds
    <3>2. u.parent \in [Entities -> Entities \cup {Nobody}] /\ u.children \in [Entities -> SUBSET Entities]
          /\ u.alive \in SUBSET Entities
      BY <2>3 DEF Worlds
    <3>3. v.alive = u.alive /\ v.parent = [u.parent EXCEPT ![c] = p] /\ v.children = [u.children EXCEPT ![p] = @ \cup {c}]
      BY <3>1
    <3>4. v \in Worlds
      BY <3>1, <3>2 DEF Worlds
    <3> QED BY <2>3, <3>2, <3>3, <3>4
  <2>5. Agree(v)
    <3>1. ASSUME NEW x \in Entities PROVE v.children[x] = {e \in Entities : v.parent[e] = x}
      <4>1. w.children[x] = {e \in Entities : w.parent[e] = x} /\ x # Nobody
        BY <1>1 DEF Agree
      <4>2. u.children[x] = {e \in Entities : e # c /\ w.parent[e] = x}
        BY <2>3, <4>1
      <4>3. \A e \in Entities : v.parent[e] = x <=> (e = c /\ x = p) \/ (e # c /\ w.parent[e] = x)
        BY <2>4
      <4>4. \A e \in Entities : e \in v.children[x] <=> (e = c /\ x = p) \/ (e # c /\ w.parent[e] = x)
        <5>1. CASE x = p
          <6>1. v.children[x] = {e \in Entities : e # c /\ w.parent[e] = x} \cup {c}
            BY <2>4, <4>2, <5>1
          <6> QED BY <5>1, <6>1
        <5>2. CASE x # p
          BY <2>4, <4>2, <5>2
        <5> QED BY <5>1, <5>2
      <4>5. v.children[x] \subseteq Entities
        BY <2>4 DEF Worlds
      <4> QED BY <4>3, <4>4, <4>5
    <3>2. {c, p} \subseteq w.alive
      BY <2>1 DEF MayHang
    <3> QED BY <1>1, <2>4, <3>1, <3>2 DEF Agree
  <2>6. \E d : Ranks(d, v)
    BY <2>1, <2>4, MovedRanks
  <2> QED BY <2>4, <2>5, <2>6 DEF Forest
<1> QED BY <1>2, <1>3

--------------------------------------------------------------------------------
(* What is destroyed.                                                           *)

\* Whoever lies n steps below has n others of lower rank.
LEMMA LowerOnes ==
  ASSUME NEW e \in Entities, NEW k \in Nat, NEW next \in [Entities -> SUBSET Entities], NEW r, Rises(r, next),
         NEW f, LevelsOf(f, e, k, next)
  PROVE  \A n \in 0 .. k : \A y \in f[n] :
           \E S \in SUBSET Entities : IsFiniteSet(S) /\ Cardinality(S) = n /\ \A x \in S : r[x] < r[y]
<1> DEFINE Has(n, y) == \E S \in SUBSET Entities : IsFiniteSet(S) /\ Cardinality(S) = n /\ \A x \in S : r[x] < r[y]
           B == {n \in Nat : n <= k => \A y \in f[n] : Has(n, y)}
<1>1. 0 \in B
  <2> SUFFICES ASSUME NEW y \in f[0] PROVE Has(0, y)
    OBVIOUS
  <2> QED BY FS_EmptySet
<1>2. ASSUME NEW n \in Nat, n >= 0 /\ n \in B PROVE n + 1 \in B
  <2> SUFFICES ASSUME n + 1 <= k, NEW y \in f[n + 1] PROVE Has(n + 1, y)
    OBVIOUS
  <2>1. n \in 0 .. k - 1 /\ n \in 0 .. k /\ n <= k
    OBVIOUS
  <2>2. PICK x \in f[n] : y \in next[x]
    BY <2>1 DEF LevelsOf
  <2>3. x \in Entities /\ y \in Entities /\ r[x] < r[y]
    BY <2>1, <2>2 DEF LevelsOf, Rises
  <2>4. Has(n, x)
    BY <1>2, <2>1, <2>2
  <2>5. PICK S \in SUBSET Entities : IsFiniteSet(S) /\ Cardinality(S) = n /\ \A z \in S : r[z] < r[x]
    BY <2>4
  <2>6. \A z \in Entities : r[z] \in Nat
    BY DEF Rises
  <2>7. x \notin S
    BY <2>3, <2>5, <2>6
  <2>8. IsFiniteSet(S \cup {x}) /\ Cardinality(S \cup {x}) = n + 1
    BY <2>5, <2>7, FS_AddElement
  <2>9. \A z \in S \cup {x} : r[z] < r[y]
    BY <2>3, <2>5, <2>6
  <2> QED BY <2>3, <2>8, <2>9
<1>3. \A n \in Nat : n >= 0 => n \in B
  <2> HIDE DEF B
  <2> QED BY <1>1, <1>2, InductionFrom
<1> QED BY <1>3

\* The levels go as deep as there are entities, so what is doomed is closed downwards.
LEMMA DoomedIs ==
  ASSUME NEW w, Forest(w), NEW e \in Entities, NEW v \in Worlds, v.alive = w.alive, v.parent = w.parent,
         \A x \in Entities : v.children[x] \in {w.children[x], w.children[x] \ {e}},
         NEW doomed, doomed = Doomed(v, e)
  PROVE  /\ e \in doomed /\ doomed \subseteq Entities
         /\ \A x \in Entities : x # e /\ w.parent[x] \in doomed /\ x \in v.children[w.parent[x]] => x \in doomed
         /\ \A x \in doomed : x # e => w.parent[x] \in doomed
<1> DEFINE listed == [x \in Entities |-> {c \in v.children[x] \cap v.alive : v.parent[c] = x}]
           k == Cardinality(Entities)
           f == Levels(e, k, listed)
<1>1. /\ \A x \in Entities : w.children[x] = {y \in Entities : w.parent[y] = x}
      /\ \A x \in Entities : w.parent[x] \in Entities \cup {Nobody}
      /\ \A x \in Entities : w.parent[x] # Nobody => x \in w.alive
      /\ Nobody \notin Entities
  BY HierarchyAssumption DEF Forest, Agree, Worlds
<1>2. k \in Nat /\ IsFiniteSet(Entities)
  BY HierarchyAssumption, FS_CardinalityType
<1>3. \A x \in Entities : listed[x] = v.children[x] /\ v.children[x] \subseteq w.children[x]
  <2> TAKE x \in Entities
  <2>1. v.children[x] \subseteq w.children[x]
    OBVIOUS
  <2>2. \A c \in v.children[x] : c \in v.alive /\ v.parent[c] = x
    BY <1>1, <2>1
  <2> QED BY <2>1, <2>2
<1>4. listed \in [Entities -> SUBSET Entities]
  BY <1>1, <1>3
<1>5. PICK r : Rises(r, listed)
  <2> PICK r : Rises(r, w.children)
    BY ForestRises
  <2> HIDE DEF listed
  <2> Rises(r, listed)
    BY <1>3 DEF Rises
  <2> QED OBVIOUS
<1>6. doomed = UNION {f[n] : n \in DOMAIN f}
  BY DEF Doomed, Range
<1> HIDE DEF listed
<1>7. LevelsOf(f, e, k, listed)
  BY <1>2, <1>4, LevelsAre
<1>8. \A n \in 0 .. k : \A y \in f[n] :
        \E S \in SUBSET Entities : IsFiniteSet(S) /\ Cardinality(S) = n /\ \A x \in S : r[x] < r[y]
  BY <1>2, <1>4, <1>5, <1>7, LowerOnes
<1> HIDE DEF f
<1>9. f[k] = {}
  <2> SUFFICES ASSUME NEW y \in f[k] PROVE FALSE
    OBVIOUS
  <2>1. k \in 0 .. k
    BY <1>2
  <2>2. y \in Entities
    BY <1>7, <2>1 DEF LevelsOf
  <2>3. PICK S \in SUBSET Entities : IsFiniteSet(S) /\ Cardinality(S) = k /\ \A x \in S : r[x] < r[y]
    BY <1>8, <2>1
  <2>4. y \notin S
    BY <1>5, <2>2, <2>3 DEF Rises
  <2>5. S = Entities
    BY <1>2, <2>3, FS_Subset
  <2> QED BY <2>2, <2>4, <2>5
<1> HIDE DEF k
<1>10. e \in doomed /\ doomed \subseteq Entities
  BY <1>2, <1>6, <1>7 DEF LevelsOf
<1>11. ASSUME NEW x \in Entities, w.parent[x] \in doomed, x \in v.children[w.parent[x]] PROVE x \in doomed
  <2>1. PICK n \in 0 .. k : w.parent[x] \in f[n]
    BY <1>6, <1>7, <1>11 DEF LevelsOf
  <2>2. n \in 0 .. k - 1 /\ n + 1 \in 0 .. k
    BY <1>2, <1>9, <2>1
  <2>3. x \in listed[w.parent[x]]
    BY <1>3, <1>10, <1>11
  <2>4. x \in f[n + 1]
    BY <1>7, <2>1, <2>2, <2>3 DEF LevelsOf
  <2> QED BY <1>6, <1>7, <2>2, <2>4 DEF LevelsOf
<1>12. ASSUME NEW x \in doomed, x # e PROVE w.parent[x] \in doomed
  <2>1. PICK n \in 0 .. k : x \in f[n]
    BY <1>6, <1>7 DEF LevelsOf
  <2>2. n # 0
    BY <1>7, <1>12, <2>1 DEF LevelsOf
  <2>3. n - 1 \in 0 .. k - 1 /\ n - 1 \in 0 .. k /\ (n - 1) + 1 = n
    BY <1>2, <2>2
  <2>4. f[(n - 1) + 1] = UNION {listed[y] : y \in f[n - 1]}
    BY <1>7, <2>3 DEF LevelsOf
  <2>5. PICK y \in f[n - 1] : x \in listed[y]
    BY <2>1, <2>3, <2>4
  <2>6. y \in Entities /\ y \in doomed
    BY <1>6, <1>7, <2>3 DEF LevelsOf
  <2>7. x \in Entities /\ w.parent[x] = y
    BY <1>1, <1>3, <2>5, <2>6
  <2> QED BY <2>6, <2>7
<1> QED BY <1>10, <1>11, <1>12

LEMMA DestroyKeeps ==
  ASSUME NEW w, Forest(w), NEW e \in Entities, NEW v, v = destroy(w, e)
  PROVE  Forest(v) /\ v.alive \subseteq w.alive /\ e \notin v.alive
<1>1. w \in Worlds /\ Agree(w) /\ Nobody \notin Entities
  BY HierarchyAssumption DEF Forest
<1>2. CASE e \notin w.alive
  BY <1>2 DEF destroy
<1>3. CASE e \in w.alive
  <2> PICK p, u : p = w.parent[e] /\ u = IF p = Nobody THEN w ELSE detach_from_parent(w, e, p)
    OBVIOUS
  <2>1. p \in Entities \cup {Nobody}
    BY <1>1 DEF Worlds
  <2>2. /\ u \in Worlds /\ u.alive = w.alive /\ u.parent = w.parent
        /\ \A x \in Entities : u.children[x] = IF x = p THEN w.children[x] \ {e} ELSE w.children[x]
    BY <1>1, <2>1 DEF detach_from_parent, Worlds
  <2> PICK doomed : doomed = Doomed(u, e)
    OBVIOUS
  <2>3. v = [alive |-> w.alive \ doomed,
             parent |-> [x \in Entities |-> IF x \in doomed THEN Nobody ELSE u.parent[x]],
             children |-> [x \in Entities |-> IF x \in doomed THEN {} ELSE u.children[x]]]
    BY <1>3 DEF destroy
  <2>4. /\ v.alive = w.alive \ doomed
        /\ \A x \in Entities : v.parent[x] = IF x \in doomed THEN Nobody ELSE w.parent[x]
        /\ \A x \in Entities : v.children[x] = IF x \in doomed THEN {} ELSE u.children[x]
    BY <2>2, <2>3
  <2>5. v \in Worlds
    <3>1. \A x \in Entities : u.parent[x] \in Entities \cup {Nobody} /\ u.children[x] \in SUBSET Entities
      BY <2>2 DEF Worlds
    <3>2. v.alive \in SUBSET Entities
      BY <1>1, <2>4 DEF Worlds
    <3> QED BY <2>3, <3>1, <3>2 DEF Worlds
  <2>6. /\ e \in doomed /\ doomed \subseteq Entities
        /\ \A x \in Entities : x # e /\ w.parent[x] \in doomed /\ x \in u.children[w.parent[x]] => x \in doomed
        /\ \A x \in doomed : x # e => w.parent[x] \in doomed
    <3>1. \A x \in Entities : u.children[x] \in {w.children[x], w.children[x] \ {e}}
      BY <2>2
    <3> QED BY <2>2, <3>1, DoomedIs
  <2>7. \A x \in Entities : w.children[x] = {y \in Entities : w.parent[y] = x}
    BY <1>1 DEF Agree
  \* Who hangs below a doomed one is doomed.
  <2>8. \A x \in Entities : w.parent[x] \in doomed => x \in doomed
    <3> SUFFICES ASSUME NEW x \in Entities, w.parent[x] \in doomed, x # e PROVE x \in doomed
      BY <2>6
    <3>1. x \in w.children[w.parent[x]] /\ w.parent[x] \in Entities
      BY <2>6, <2>7
    <3>2. x \in u.children[w.parent[x]]
      BY <2>2, <3>1
    <3> QED BY <2>6, <3>2
  <2>9. Agree(v)
    <3>1. ASSUME NEW x \in Entities PROVE v.children[x] = {y \in Entities : v.parent[y] = x}
      <4>1. x # Nobody
        BY <1>1
      <4>2. CASE x \in doomed
        BY <2>4, <2>8, <4>1, <4>2
      <4>3. CASE x \notin doomed
        <5>1. v.children[x] = {y \in Entities : w.parent[y] = x /\ ~(y = e /\ x = p)}
          <6>1. v.children[x] = u.children[x] /\ w.children[x] = {y \in Entities : w.parent[y] = x}
            BY <2>4, <2>7, <4>3
          <6>2. CASE x = p
            <7>1. v.children[x] = w.children[x] \ {e}
              BY <2>2, <6>1, <6>2
            <7> QED BY <6>1, <6>2, <7>1
          <6>3. CASE x # p
            <7>1. v.children[x] = w.children[x]
              BY <2>2, <6>1, <6>3
            <7> QED BY <6>1, <6>3, <7>1
          <6> QED BY <6>2, <6>3
        <5>2. \A y \in Entities : v.parent[y] = x <=> w.parent[y] = x /\ ~(y = e /\ x = p)
          <6> TAKE y \in Entities
          <6>1. CASE y \in doomed
            BY <2>4, <2>6, <4>1, <4>3, <6>1
          <6>2. CASE y \notin doomed
            BY <2>4, <2>6, <6>2
          <6> QED BY <6>1, <6>2
        <5> QED BY <5>1, <5>2
      <4> QED BY <4>2, <4>3
    <3>2. ASSUME NEW x \in Entities, v.parent[x] # Nobody PROVE {x, v.parent[x]} \subseteq v.alive
      <4>1. x \notin doomed /\ v.parent[x] = w.parent[x]
        BY <2>4, <3>2
      <4>2. {x, w.parent[x]} \subseteq w.alive
        BY <1>1, <3>2, <4>1 DEF Agree
      <4> QED BY <2>4, <2>8, <4>1, <4>2
    <3> QED BY <3>1, <3>2 DEF Agree
  <2>10. \E d : Ranks(d, v)
    BY <2>4, StillRanked
  <2> QED BY <2>4, <2>5, <2>6, <2>9, <2>10 DEF Forest
<1> QED BY <1>2, <1>3

--------------------------------------------------------------------------------
(* What is done to several entities in the order of their ids.                  *)

LEMMA FiniteBounded ==
  ASSUME NEW S \in SUBSET Nat, IsFiniteSet(S)
  PROVE  \E n \in Nat : \A x \in S : x <= n
<1> DEFINE Bounded(T) == \E n \in Nat : \A x \in T : x <= n
           B == {k \in Nat : \A T \in SUBSET Nat : IsFiniteSet(T) /\ Cardinality(T) = k => Bounded(T)}
<1>1. 0 \in B
  <2> SUFFICES ASSUME NEW T \in SUBSET Nat, IsFiniteSet(T), Cardinality(T) = 0 PROVE Bounded(T)
    OBVIOUS
  <2>1. T = {}
    BY FS_EmptySet
  <2> QED BY <2>1
<1>2. ASSUME NEW k \in Nat, k >= 0 /\ k \in B PROVE k + 1 \in B
  <2>1. ASSUME NEW T \in SUBSET Nat, IsFiniteSet(T), Cardinality(T) = k + 1 PROVE Bounded(T)
    <3>1. T # {}
      BY <2>1, FS_EmptySet
    <3> PICK x \in T : TRUE
      BY <3>1
    <3>2. IsFiniteSet(T \ {x}) /\ Cardinality(T \ {x}) = k /\ T \ {x} \in SUBSET Nat
      <4>1. IsFiniteSet(T \ {x}) /\ Cardinality(T \ {x}) = Cardinality(T) - 1
        BY <2>1, FS_RemoveElement
      <4> QED BY <2>1, <4>1
    <3>3. Bounded(T \ {x})
      BY <1>2, <3>2
    <3>4. PICK n \in Nat : \A y \in T \ {x} : y <= n
      BY <3>3
    <3>5. x \in Nat /\ n + x \in Nat /\ \A y \in T : y <= n + x
      BY <3>4
    <3> QED BY <3>5
  <2>2. k + 1 \in Nat
    OBVIOUS
  <2> HIDE DEF Bounded
  <2> QED BY <2>1, <2>2
<1>3. \A k \in Nat : k >= 0 => k \in B
  <2> HIDE DEF B
  <2> QED BY <1>1, <1>2, InductionFrom
<1>4. Cardinality(S) \in Nat
  BY FS_CardinalityType
<1> QED BY <1>3, <1>4

LEMMA LastId ==
  ASSUME NEW ids \in SUBSET Entities
  PROVE  Max(ids \cup {0}) \in Nat /\ \A i \in ids : i \in 1 .. Max(ids \cup {0})
<1>1. IsFiniteSet(ids) /\ ids \subseteq Nat \ {0}
  BY HierarchyAssumption, ClientWorldAssumption, FS_Subset DEF NetIds
<1>2. PICK n \in Nat : \A x \in ids : x <= n
  BY <1>1, FiniteBounded
<1>3. \E m \in ids \cup {0} : \A x \in ids \cup {0} : m >= x
  <2>1. CASE ids = {}
    BY <2>1
  <2>2. CASE ids # {}
    <3>1. ids \in SUBSET (1 .. n)
      BY <1>1, <1>2
    <3>2. PICK m \in ids : \A x \in ids : x <= m
      BY <2>2, <3>1, HasGreatest
    <3>3. \A x \in ids \cup {0} : m >= x
      BY <1>1, <3>2
    <3> QED BY <3>3
  <2> QED BY <2>1, <2>2
<1> PICK m : m = Max(ids \cup {0})
  OBVIOUS
<1>4. m \in ids \cup {0} /\ \A x \in ids \cup {0} : m >= x
  BY <1>3 DEF Max
<1>5. m \in Nat /\ \A i \in ids : i \in 1 .. m
  BY <1>1, <1>4
<1> QED BY <1>5

\* A recursion over numbers that stays in a set has values there.
LEMMA TurnsExist ==
  ASSUME NEW W, NEW w \in W, NEW k \in Nat, NEW F \in [1 .. k -> [W -> W]]
  PROVE  \E f \in [0 .. k -> W] : f[0] = w /\ \A n \in 1 .. k : f[n] = F[n][f[n - 1]]
<1> DEFINE Turns(f, m) == f \in [0 .. m -> W] /\ f[0] = w /\ \A n \in 1 .. m : f[n] = F[n][f[n - 1]]
           B == {m \in Nat : m <= k => \E f : Turns(f, m)}
<1>1. 0 \in B
  <2>1. Turns([n \in 0 .. 0 |-> w], 0)
    OBVIOUS
  <2> QED BY <2>1
<1>2. ASSUME NEW m \in Nat, m >= 0 /\ m \in B PROVE m + 1 \in B
  <2> SUFFICES ASSUME m + 1 <= k PROVE \E f : Turns(f, m + 1)
    OBVIOUS
  <2>1. m <= k
    OBVIOUS
  <2>2. PICK f : Turns(f, m)
    BY <1>2, <2>1
  <2> DEFINE x == F[m + 1][f[m]]
             g == [n \in 0 .. m + 1 |-> IF n = m + 1 THEN x ELSE f[n]]
  <2>3. f[m] \in W /\ x \in W
    <3>1. f[m] \in W /\ m + 1 \in 1 .. k
      BY <2>2
    <3> QED BY <3>1
  <2> HIDE DEF x
  <2>4. g \in [0 .. m + 1 -> W] /\ g[m + 1] = x /\ \A n \in 0 .. m : g[n] = f[n]
    BY <2>2, <2>3
  <2> HIDE DEF g
  <2>5. ASSUME NEW n \in 1 .. m + 1 PROVE g[n] = F[n][g[n - 1]]
    <3>1. CASE n = m + 1
      <4>1. n - 1 = m /\ g[m] = f[m]
        BY <2>4, <3>1
      <4> QED BY <2>4, <3>1, <4>1 DEF x
    <3>2. CASE n \in 1 .. m
      <4>1. n \in 0 .. m /\ n - 1 \in 0 .. m
        BY <3>2
      <4> QED BY <2>2, <2>4, <3>2, <4>1
    <3> QED BY <3>1, <3>2
  <2>6. g[0] = w
    BY <2>2, <2>4
  <2>7. Turns(g, m + 1)
    BY <2>4, <2>5, <2>6
  <2> HIDE DEF Turns
  <2> QED BY <2>7
<1>3. \A m \in Nat : m >= 0 => m \in B
  <2> HIDE DEF B
  <2> QED BY <1>1, <1>2, InductionFrom
<1>4. \E f : Turns(f, k)
  BY <1>3
<1> QED BY <1>4

LEMMA ApplyKeeps ==
  ASSUME NEW w, Forest(w), NEW i \in Entities, NEW parent, NEW v, v = ApplyParent(w, i, parent)
  PROVE  Forest(v) /\ v.alive = w.alive
<1>1. CASE v = w
  BY <1>1
<1>2. CASE v = clear_parent(w, i)
  BY <1>2, ClearKeeps
<1>3. CASE parent \in w.alive /\ v = set_parent(w, i, parent)
  <2>1. parent \in Entities
    BY <1>3 DEF Forest, Worlds
  <2> QED BY <1>3, <2>1, PlaceKeeps
<1> QED BY <1>1, <1>2, <1>3 DEF ApplyParent

LEMMA PlacedKeeps ==
  ASSUME NEW w, Forest(w), NEW state, NEW ids \in SUBSET Entities, NEW v, v = Placed(w, state, ids)
  PROVE  Forest(v) /\ v.alive = w.alive
<1> DEFINE k == Max(ids \cup {0})
           Turn(n, u) == IF n \in ids THEN ApplyParent(u, n, state[n]) ELSE u
           Eq(f) == f = [n \in 0 .. k |->
                           IF n = 0 THEN w
                           ELSE IF n \in ids THEN Of(f[n - 1], LAMBDA u : ApplyParent(u, n, state[n]))
                           ELSE f[n - 1]]
           h == CHOOSE f : Eq(f)
<1>1. v = h[k]
  BY DEF Placed, InOrder
<1>2. k \in Nat
  BY LastId
<1> HIDE DEF k
<1>3. \A f : Eq(f) <=> f = [n \in 0 .. k |-> IF n = 0 THEN w ELSE Turn(n, f[n - 1])]
  <2>1. \A n, x : Of(x, LAMBDA u : ApplyParent(u, n, state[n])) = ApplyParent(x, n, state[n])
    <3> TAKE n, x
    <3>1. {ApplyParent(u, n, state[n]) : u \in {x}} = {ApplyParent(x, n, state[n])}
      OBVIOUS
    <3> QED BY <3>1 DEF Of
  <2> QED BY <2>1
<1> HIDE DEF Eq
<1> DEFINE W == {u \in Worlds : Forest(u) /\ u.alive = w.alive}
           F == [n \in 1 .. k |-> [u \in W |-> Turn(n, u)]]
<1>4. w \in W /\ \A u \in W : Forest(u)
  BY DEF Forest
<1>5. ASSUME NEW n \in 1 .. k, NEW u \in W PROVE Turn(n, u) \in W
  <2>1. CASE n \notin ids
    BY <2>1
  <2>2. CASE n \in ids
    <3> PICK x : x = ApplyParent(u, n, state[n])
      OBVIOUS
    <3>1. n \in Entities /\ Forest(u)
      BY <2>2
    <3>2. Forest(x) /\ x.alive = u.alive
      BY <3>1, ApplyKeeps
    <3>3. Turn(n, u) = x
      BY <2>2
    <3> HIDE DEF Turn
    <3> QED BY <3>2, <3>3 DEF Forest
  <2> QED BY <2>1, <2>2
<1> HIDE DEF W, Turn
<1>6. F \in [1 .. k -> [W -> W]]
  BY <1>5
<1>7. PICK f \in [0 .. k -> W] : f[0] = w /\ \A n \in 1 .. k : f[n] = Turn(n, f[n - 1])
  <2>1. ASSUME NEW f \in [0 .. k -> W], NEW n \in 1 .. k PROVE F[n][f[n - 1]] = Turn(n, f[n - 1])
    <3>1. n - 1 \in 0 .. k
      BY <1>2
    <3>2. f[n - 1] \in W
      BY <3>1
    <3> QED BY <3>2
  <2> PICK G : G = F
    OBVIOUS
  <2> HIDE DEF F
  <2>2. G \in [1 .. k -> [W -> W]] /\ w \in W /\ k \in Nat
    BY <1>2, <1>4, <1>6
  <2>3. \E f \in [0 .. k -> W] : f[0] = w /\ \A n \in 1 .. k : f[n] = G[n][f[n - 1]]
    BY ONLY <2>2, TurnsExist
  <2> QED BY <2>1, <2>3
<1>8. Eq(f)
  <2>1. \A n \in 0 .. k : n = 0 \/ n \in 1 .. k
    BY <1>2
  <2>2. \A n \in 0 .. k : f[n] = IF n = 0 THEN w ELSE Turn(n, f[n - 1])
    BY <1>7, <2>1
  <2>3. f = [n \in 0 .. k |-> IF n = 0 THEN w ELSE Turn(n, f[n - 1])]
    BY <2>2
  <2> QED BY <1>3, <2>3
<1>9. Eq(h)
  BY <1>8
<1> HIDE DEF h
<1>10. \A n \in 0 .. k : h[n] = IF n = 0 THEN w ELSE Turn(n, h[n - 1])
  BY <1>3, <1>9
<1> DEFINE B == {n \in Nat : n <= k => h[n] \in W}
<1>11. 0 \in B
  BY <1>2, <1>4, <1>10
<1>12. ASSUME NEW n \in Nat, n >= 0 /\ n \in B PROVE n + 1 \in B
  <2> SUFFICES ASSUME n + 1 <= k PROVE h[n + 1] \in W
    OBVIOUS
  <2>1. n + 1 \in 1 .. k /\ n + 1 \in 0 .. k /\ n + 1 # 0 /\ (n + 1) - 1 = n /\ h[n] \in W
    BY <1>2, <1>12
  <2>2. h[n + 1] = Turn(n + 1, h[(n + 1) - 1])
    BY <1>10, <2>1
  <2> QED BY <1>5, <2>1, <2>2
<1>13. \A n \in Nat : n >= 0 => n \in B
  <2> HIDE DEF B
  <2> QED BY <1>11, <1>12, InductionFrom
<1>14. v \in W
  BY <1>1, <1>2, <1>13
<1> QED BY <1>14 DEF W

LEMMA DestroyedKeeps ==
  ASSUME NEW w, Forest(w), NEW ids \in SUBSET Entities, NEW v, v = Destroyed(w, ids)
  PROVE  Forest(v) /\ v.alive \subseteq w.alive \ ids
<1> DEFINE k == Max(ids \cup {0})
           Turn(n, u) == IF n \in ids THEN destroy(u, n) ELSE u
           Eq(f) == f = [n \in 0 .. k |->
                           IF n = 0 THEN w
                           ELSE IF n \in ids THEN Of(f[n - 1], LAMBDA u : destroy(u, n))
                           ELSE f[n - 1]]
           h == CHOOSE f : Eq(f)
<1>1. v = h[k]
  BY DEF Destroyed, InOrder
<1>2. k \in Nat /\ \A i \in ids : i \in 1 .. k
  BY LastId
<1> HIDE DEF k
<1>3. \A f : Eq(f) <=> f = [n \in 0 .. k |-> IF n = 0 THEN w ELSE Turn(n, f[n - 1])]
  <2>1. \A n, x : Of(x, LAMBDA u : destroy(u, n)) = destroy(x, n)
    <3> TAKE n, x
    <3>1. {destroy(u, n) : u \in {x}} = {destroy(x, n)}
      OBVIOUS
    <3> QED BY <3>1 DEF Of
  <2> QED BY <2>1
<1> HIDE DEF Eq
<1> DEFINE W == {u \in Worlds : Forest(u) /\ u.alive \subseteq w.alive}
           F == [n \in 1 .. k |-> [u \in W |-> Turn(n, u)]]
<1>4. w \in W /\ \A u \in W : Forest(u)
  BY DEF Forest
<1>5. ASSUME NEW n \in 1 .. k, NEW u \in W 
      PROVE  /\ Turn(n, u) \in W
             /\ Turn(n, u).alive \subseteq u.alive
             /\ n \in ids => n \notin Turn(n, u).alive
  <2>1. CASE n \notin ids
    BY <2>1
  <2>2. CASE n \in ids
    <3> PICK x : x = destroy(u, n)
      OBVIOUS
    <3>1. n \in Entities /\ Forest(u)
      BY <2>2
    <3>2. Forest(x) /\ x.alive \subseteq u.alive /\ n \notin x.alive /\ u.alive \subseteq w.alive
      BY <3>1, DestroyKeeps
    <3>3. Turn(n, u) = x
      BY <2>2
    <3> HIDE DEF Turn
    <3> QED BY <3>2, <3>3 DEF Forest
  <2> QED BY <2>1, <2>2
<1> HIDE DEF W, Turn
<1>6. F \in [1 .. k -> [W -> W]]
  BY <1>5
<1>7. PICK f \in [0 .. k -> W] : f[0] = w /\ \A n \in 1 .. k : f[n] = Turn(n, f[n - 1])
  <2>1. ASSUME NEW f \in [0 .. k -> W], NEW n \in 1 .. k PROVE F[n][f[n - 1]] = Turn(n, f[n - 1])
    <3>1. n - 1 \in 0 .. k
      BY <1>2
    <3>2. f[n - 1] \in W
      BY <3>1
    <3> QED BY <3>2
  <2> PICK G : G = F
    OBVIOUS
  <2> HIDE DEF F
  <2>2. G \in [1 .. k -> [W -> W]] /\ w \in W /\ k \in Nat
    BY <1>2, <1>4, <1>6
  <2>3. \E f \in [0 .. k -> W] : f[0] = w /\ \A n \in 1 .. k : f[n] = G[n][f[n - 1]]
    BY ONLY <2>2, TurnsExist
  <2> QED BY <2>1, <2>3
<1>8. Eq(f)
  <2>1. \A n \in 0 .. k : n = 0 \/ n \in 1 .. k
    BY <1>2
  <2>2. \A n \in 0 .. k : f[n] = IF n = 0 THEN w ELSE Turn(n, f[n - 1])
    BY <1>7, <2>1
  <2>3. f = [n \in 0 .. k |-> IF n = 0 THEN w ELSE Turn(n, f[n - 1])]
    BY <2>2
  <2> QED BY <1>3, <2>3
<1>9. Eq(h)
  BY <1>8
<1> HIDE DEF h
<1>10. \A n \in 0 .. k : h[n] = IF n = 0 THEN w ELSE Turn(n, h[n - 1])
  BY <1>3, <1>9
<1> DEFINE Gone(n) == \A i \in ids : i <= n => i \notin h[n].alive
           B == {n \in Nat : n <= k => h[n] \in W /\ Gone(n)}
<1>11. 0 \in B
  <2>1. h[0] \in W
    BY <1>2, <1>4, <1>10
  <2>2. \A i \in ids : i \in Nat /\ i # 0
    BY <1>2
  <2>3. Gone(0)
    BY <2>2
  <2> QED BY <2>1, <2>3
<1>12. ASSUME NEW n \in Nat, n >= 0 /\ n \in B PROVE n + 1 \in B
  <2> SUFFICES ASSUME n + 1 <= k PROVE h[n + 1] \in W /\ Gone(n + 1)
    OBVIOUS
  <2>1. n + 1 \in 1 .. k /\ n + 1 \in 0 .. k /\ n + 1 # 0 /\ (n + 1) - 1 = n /\ h[n] \in W /\ Gone(n)
    BY <1>2, <1>12
  <2>2. h[n + 1] = Turn(n + 1, h[(n + 1) - 1])
    BY <1>10, <2>1
  <2>3. /\ h[n + 1] \in W /\ h[n + 1].alive \subseteq h[n].alive
        /\ n + 1 \in ids => n + 1 \notin h[n + 1].alive
    BY <1>5, <2>1, <2>2
  <2>4. ASSUME NEW i \in ids, i <= n + 1 PROVE i \notin h[n + 1].alive
    <3>1. i \in Nat
      BY <1>2
    <3>2. i = n + 1 \/ i <= n
      BY <2>4, <3>1
    <3> QED BY <2>1, <2>3, <3>2
  <2> QED BY <2>3, <2>4
<1>13. \A n \in Nat : n >= 0 => n \in B
  <2> HIDE DEF B
  <2> QED BY <1>11, <1>12, InductionFrom
<1>14. h[k] \in W /\ Gone(k)
  BY <1>2, <1>13
<1>15. \A i \in ids : i <= k
  BY <1>2
<1> QED BY <1>1, <1>14, <1>15 DEF W

--------------------------------------------------------------------------------
(* The world keeps its shape.                                                   *)

WInv ==
  /\ from \in ParentStates /\ ahead \in Seq(ParentStates)
  /\ Forest(client)
  /\ live = DOMAIN from /\ client.alive \subseteq live
  /\ owned \subseteq live \cap Own /\ corrected \subseteq live \cap client.alive

LEMMA OfEntities ==
  ASSUME NEW state \in ParentStates
  PROVE  DOMAIN state \in SUBSET Entities
BY DEF ParentStates, NetIds

LEMMA NothingIsAState == NothingYet \in ParentStates /\ DOMAIN NothingYet = {}
<1>1. NothingYet \in [{} -> NetIds \cup {Nobody, Unreplicated}]
  BY DEF NothingYet
<1>2. {} \in SUBSET NetIds
  OBVIOUS
<1> QED BY <1>1, <1>2 DEF ParentStates, NothingYet

LEMMA NoneIsForest == Forest(EmptyWorld)
<1>1. /\ EmptyWorld.alive = {}
      /\ \A e \in Entities : EmptyWorld.parent[e] = Nobody /\ EmptyWorld.children[e] = {}
      /\ EmptyWorld \in Worlds
  BY DEF EmptyWorld, Worlds
<1>2. Nobody \notin Entities
  BY HierarchyAssumption
<1>3. Agree(EmptyWorld)
  BY <1>1, <1>2 DEF Agree
<1>4. \E d : Ranks(d, EmptyWorld)
  <2>1. Ranks([e \in Entities |-> 0], EmptyWorld)
    BY <1>1, HierarchyAssumption DEF Ranks
  <2> QED BY <2>1
<1> QED BY <1>1, <1>3, <1>4 DEF Forest

LEMMA WorldStarts == WorldInit => WInv
<1> SUFFICES ASSUME WorldInit PROVE WInv
  OBVIOUS
<1>1. <<>> \in Seq(ParentStates)
  OBVIOUS
<1>2. client.alive = {}
  BY DEF WorldInit, EmptyWorld
<1> QED BY <1>1, <1>2, NothingIsAState, NoneIsForest DEF WorldInit, WInv

LEMMA TakeKeeps ==
  ASSUME WInv, NEW state \in Samples, TakeSnapshot(state)
  PROVE  WInv'
<1>1. state \in ParentStates
  BY ClientWorldAssumption
<1>2. ahead' \in Seq(ParentStates)
  BY <1>1 DEF WInv, TakeSnapshot
<1> QED BY <1>2 DEF WInv, TakeSnapshot

LEMMA InterpolateKeeps ==
  ASSUME WInv, NEW ticks \in 0 .. Len(ahead), Interpolate(ticks)
  PROVE  WInv'
<1> PICK state : state = IF ticks = 0 THEN from ELSE ahead[ticks]
  OBVIOUS
<1> PICK made : made = Made(state)
  OBVIOUS
<1> PICK placed : placed = DOMAIN state \ (owned \ made)
  OBVIOUS
<1> PICK spawned : spawned = [client EXCEPT !.alive = @ \cup made]
  OBVIOUS
<1> PICK hung : hung = Placed(spawned, state, placed)
  OBVIOUS
<1>1. /\ from' = state
      /\ ahead' = SubSeq(ahead, ticks + 1, Len(ahead))
      /\ client' = Destroyed(hung, live \ DOMAIN state)
      /\ live' = DOMAIN state
      /\ owned' = DOMAIN state \ placed
      /\ corrected' = (corrected \ made) \cap client'.alive
  BY DEF Interpolate
<1>2. state \in ParentStates /\ ahead' \in Seq(ParentStates)
  <2>1. ahead \in Seq(ParentStates) /\ Len(ahead) \in Nat /\ from \in ParentStates
    BY DEF WInv
  <2>2. ticks # 0 => ahead[ticks] \in ParentStates
    BY <2>1
  <2>3. SubSeq(ahead, ticks + 1, Len(ahead)) \in Seq(ParentStates)
    BY <2>1
  <2> QED BY <1>1, <2>1, <2>2, <2>3
<1>3. DOMAIN state \in SUBSET Entities /\ live \in SUBSET Entities
  BY <1>2, OfEntities DEF WInv
<1>4. made = DOMAIN state \ client.alive
  BY DEF Made
<1>5. Forest(spawned) /\ spawned.alive = client.alive \cup made
  BY <1>3, <1>4, MoreAlive DEF WInv
<1>6. Forest(hung) /\ hung.alive = spawned.alive
  <2>1. Forest(spawned) /\ placed \in SUBSET Entities /\ hung = Placed(spawned, state, placed)
    BY <1>3, <1>5
  <2> QED BY ONLY <2>1, PlacedKeeps
<1>7. Forest(client') /\ client'.alive \subseteq hung.alive \ (live \ DOMAIN state)
  <2> PICK w : w = Destroyed(hung, live \ DOMAIN state)
    OBVIOUS
  <2> PICK ids : ids = live \ DOMAIN state
    OBVIOUS
  <2>1. Forest(hung) /\ ids \in SUBSET Entities /\ w = Destroyed(hung, ids)
    BY <1>3, <1>6
  <2>2. Forest(w) /\ w.alive \subseteq hung.alive \ ids
    BY ONLY <2>1, DestroyedKeeps
  <2> QED BY <1>1, <2>2
<1>8. client'.alive \subseteq DOMAIN state
  BY <1>4, <1>5, <1>6, <1>7 DEF WInv
<1>9. owned' \subseteq Own
  BY <1>1 DEF WInv
<1> QED BY <1>1, <1>2, <1>7, <1>8, <1>9 DEF WInv

LEMMA PredictKeeps ==
  ASSUME WInv, Predict
  PROVE  WInv'
<1> PICK own : own = Own \cap live \cap client.alive \cap DOMAIN Newest
  OBVIOUS
<1>1. client' = Placed(client, Newest, own \ corrected)
  BY DEF Predict
<1>2. own \ corrected \in SUBSET Entities
  BY ClientWorldAssumption DEF NetIds
<1>3. Forest(client') /\ client'.alive = client.alive
  <2> PICK w : w = Placed(client, Newest, own \ corrected)
    OBVIOUS
  <2>1. Forest(w) /\ w.alive = client.alive
    BY <1>2, PlacedKeeps DEF WInv
  <2> QED BY <1>1, <2>1
<1>4. /\ owned' = own /\ corrected' = own
      /\ UNCHANGED <<from, ahead, live>>
  BY DEF Predict
<1> QED BY <1>3, <1>4 DEF WInv

LEMMA ForgetKeeps ==
  ASSUME WInv, Forget
  PROVE  WInv'
<1>1. live \in SUBSET Entities
  BY OfEntities DEF WInv
<1>2. Forest(client') /\ client'.alive = {}
  <2> PICK w : w = Destroyed(client, live)
    OBVIOUS
  <2>1. Forest(w) /\ w.alive \subseteq client.alive \ live
    BY <1>1, DestroyedKeeps DEF WInv
  <2> QED BY <2>1 DEF Forget, WInv
<1>3. <<>> \in Seq(ParentStates)
  OBVIOUS
<1> QED BY <1>2, <1>3, NothingIsAState DEF Forget, WInv

LEMMA GameKeeps ==
  ASSUME WInv, NEW i \in NetIds, GameDestroys(i)
  PROVE  WInv'
<1>1. Forest(client') /\ client'.alive \subseteq client.alive
  <2> PICK w : w = destroy(client, i)
    OBVIOUS
  <2>1. Forest(w) /\ w.alive \subseteq client.alive
    BY DestroyKeeps DEF WInv, NetIds
  <2> QED BY <2>1 DEF GameDestroys
<1>2. corrected' = corrected \cap client'.alive /\ UNCHANGED <<from, ahead, live, owned>>
  BY DEF GameDestroys
<1> QED BY <1>1, <1>2 DEF WInv

\* The forest with its ranks, its records and what it owns hold through every step of the client.
LEMMA WorldKeeps == WInv /\ [NetClientNext]_netClientVars => WInv'
<1> SUFFICES ASSUME WInv, [NetClientNext]_netClientVars PROVE WInv'
  OBVIOUS
<1>1. CASE UNCHANGED worldVars
  BY <1>1 DEF WInv, worldVars
<1>2. ASSUME NEW state \in Samples, TakeSnapshot(state) PROVE WInv'
  BY <1>2, TakeKeeps
<1>3. ASSUME NEW ticks \in 0 .. Len(ahead), Interpolate(ticks) PROVE WInv'
  BY <1>3, InterpolateKeeps
<1>4. CASE Predict
  BY <1>4, PredictKeeps
<1>5. CASE Forget
  BY <1>5, ForgetKeeps
<1>6. ASSUME NEW i \in NetIds, GameDestroys(i) PROVE WInv'
  BY <1>6, GameKeeps
<1>7. UNCHANGED worldVars \/ WorldNext
  BY DEF NetClientNext, InputStep, WorldStep, netClientVars
<1> QED BY <1>1, <1>2, <1>3, <1>4, <1>5, <1>6, <1>7 DEF WorldNext

LEMMA WInvIs == WInv => WorldTypeOK
BY ForestIs DEF WInv, WorldTypeOK

\* Whatever the states bring, in whatever order the records are applied, whatever the game destroys and
\* however often the server is forgotten: Parent and Children agree, no entity hangs below itself or
\* too deep, nothing outlives its record (set_parent, clear_parent, destroy, run_net_client_interpolate).
THEOREM WorldStaysForest == NetClientSpec => []WorldTypeOK
<1>1. NetClientInit => WInv
  BY WorldStarts DEF NetClientInit
<1> QED BY <1>1, WorldKeeps, WInvIs, PTL DEF NetClientSpec

\* An input step is a step of Prediction and a step of the world leaves the inputs alone, so what is
\* proved of Prediction holds in the client.
THEOREM InputsAreThere == NetClientSpec => Spec
<1>1. NetClientInit => Init
  BY DEF NetClientInit
<1>2. [NetClientNext]_netClientVars => [Next]_vars
  BY DEF NetClientNext, InputStep, WorldStep, netClientVars
<1> QED BY <1>1, <1>2, PTL DEF NetClientSpec, Spec
================================================================================
