------------------------------ MODULE Hierarchy --------------------------------
(* Parents and children in an ECS world: set_parent, clear_parent and the       *)
(* cascade of destroy, as operators on a world.  An absent Parent is Nobody, an *)
(* absent Children is empty: the code removes the component with its last       *)
(* child.  Views, which put a destroy off, and transforms are left out.         *)
EXTENDS Naturals, FiniteSets, FiniteSetsExt, Functions

CONSTANTS Entities, Nobody,
          MaxDepth     \* kMaxHierarchyDepth

ASSUME HierarchyAssumption ==
  /\ IsFiniteSet(Entities) /\ Nobody \notin Entities
  /\ MaxDepth \in Nat \ {0}

EmptyWorld == [alive |-> {}, parent |-> [e \in Entities |-> Nobody], children |-> [e \in Entities |-> {}]]

live_parent(w, e) == IF w.parent[e] \in w.alive THEN w.parent[e] ELSE Nobody

\* What lies n steps away from an entity, for each n up to a bound.
Levels(e, steps, next) ==
  LET level[n \in 0 .. steps] == IF n = 0 THEN {e} ELSE UNION {next[x] : x \in level[n - 1]}
  IN level

\* The steps, after the first, that still lead somewhere.
Length(levels) == Cardinality({n \in DOMAIN levels \ {0} : levels[n] # {}})

\* The walk over live parents, as far as the code goes.
Up(w, e) == Levels(e, MaxDepth + 1, [x \in Entities |-> {live_parent(w, x)} \ {Nobody}])

Ancestors(w, e) == UNION {Up(w, e)[n] : n \in 1 .. MaxDepth + 1}
Depth(w, e) == Length(Up(w, e))

\* The longest chain of Children below an entity.
height_of(w, e) == Length(Levels(e, MaxDepth + 1, w.children))

detach_from_parent(w, child, parent) == [w EXCEPT !.children[parent] = @ \ {child}]

\* What set_parent checks: both live, no cycle, and the deepest result fits.
MayHang(w, child, parent) ==
  /\ {child, parent} \subseteq w.alive /\ child # parent
  /\ child \notin Ancestors(w, parent)
  /\ Depth(w, parent) + 1 + height_of(w, child) <= MaxDepth

\* Refused, or the parent it has already: nothing changes.
set_parent(w, child, parent) ==
  LET old == w.parent[child]
      free == IF old = Nobody THEN w ELSE detach_from_parent(w, child, old)
  IN IF old # parent /\ MayHang(w, child, parent)
     THEN [free EXCEPT !.parent[child] = parent, !.children[parent] = @ \cup {child}]
     ELSE w

clear_parent(w, child) ==
  IF child \in w.alive /\ w.parent[child] # Nobody
  THEN [detach_from_parent(w, child, w.parent[child]) EXCEPT !.parent[child] = Nobody]
  ELSE w

\* The entity and every descendant, over the children whose Parent names who lists them.
Doomed(w, e) ==
  LET listed == [x \in Entities |-> {c \in w.children[x] \cap w.alive : w.parent[c] = x}]
  IN UNION Range(Levels(e, Cardinality(Entities), listed))

\* destroy_immediate and release.
destroy(w, e) ==
  LET free == IF w.parent[e] = Nobody THEN w ELSE detach_from_parent(w, e, w.parent[e])
      doomed == Doomed(free, e)
  IN IF e \notin w.alive THEN w
     ELSE [alive |-> w.alive \ doomed,
           parent |-> [x \in Entities |-> IF x \in doomed THEN Nobody ELSE free.parent[x]],
           children |-> [x \in Entities |-> IF x \in doomed THEN {} ELSE free.children[x]]]

\* A forest: Parent and Children agree, nobody hangs below itself or too deep.
IsForest(w) ==
  /\ \A e \in Entities : w.parent[e] # Nobody => {e, w.parent[e]} \subseteq w.alive
  /\ \A p \in Entities : w.children[p] = {c \in Entities : w.parent[c] = p}
  /\ \A e \in w.alive : e \notin Ancestors(w, e) /\ Depth(w, e) <= MaxDepth
================================================================================
