----------------------------- MODULE ClientWorld -------------------------------
(* The replicated entities in a client's world.  Snapshots arrive ahead of the  *)
(* render tick; entities are made, hung and destroyed as the state at the       *)
(* render tick has it, but what this client predicts takes its components from  *)
(* the newest snapshot.  A state says, of each entity it has, its Parent.  The  *)
(* entity of a NetId is the one made last for it, in `alive` until destroyed.   *)
EXTENDS Hierarchy, SequencesExt

CONSTANTS Own,          \* what this client owns and predicts
          Unreplicated, \* a Parent without a NetId
          Samples,      \* the states a snapshot may bring
          MaxBuffered,     \* bound: snapshots ahead of the render tick
          MaxDamage     \* bound: entities the game destroys

NetIds == Entities
ParentStates == UNION {[S -> NetIds \cup {Nobody, Unreplicated}] : S \in SUBSET NetIds}

ASSUME ClientWorldAssumption ==
  /\ NetIds \subseteq Nat \ {0} /\ Own \subseteq NetIds
  /\ Unreplicated \notin NetIds \cup {Nobody}
  /\ Samples \subseteq ParentStates
  /\ MaxBuffered \in Nat \ {0} /\ MaxDamage \in Nat

VARIABLES
  from,        \* the state sampled last
  ahead,       \* the later ones in the buffer
  client,      \* the client's world
  live,        \* client.live, and with it NetEntityMap
  applied,     \* Live::applied, of the slot Parent
  owned,   \* Live::predicted
  corrected,  \* whose Track::reconciled is the newest state
  damage       \* of the model: how many entities the game destroyed

worldVars == <<from, ahead, client, live, applied, owned, corrected, damage>>

NothingYet == [i \in {} |-> Nobody]
Newest == IF ahead = <<>> THEN from ELSE Last(ahead)

WorldInit ==
  /\ from = NothingYet /\ ahead = <<>>
  /\ client = EmptyWorld
  /\ live = {} /\ applied = {} /\ owned = {} /\ corrected = {}
  /\ damage = 0

--------------------------------------------------------------------------------
\* An operator's result on a value computed once: TLC evaluates an argument anew at every use.
Of(v, Op(_)) == CHOOSE result \in {Op(u) : u \in {v}} : TRUE

\* The state's Parent of an entity is put on it; one that does not resolve is left as it is.
ApplyParent(w, i, parent) ==
  IF parent = Nobody THEN IF i \in applied THEN clear_parent(w, i) ELSE w
  ELSE IF parent \in w.alive THEN set_parent(w, i, parent) ELSE w

\* The world after something done to each of these entities, in the order of their ids.
InOrder(w, ids, Op(_, _)) ==
  LET last == Max(ids \cup {0})
      after[n \in 0 .. last] ==
        IF n = 0 THEN w
        ELSE IF n \in ids THEN Of(after[n - 1], LAMBDA u : Op(u, n))
        ELSE after[n - 1]
  IN after[last]

\* These entities take their Parent from the state.
Placed(w, state, ids) == InOrder(w, ids, LAMBDA u, i : ApplyParent(u, i, state[i]))

Destroyed(w, ids) == InOrder(w, ids, destroy)

WithParent(state) == {i \in DOMAIN state : state[i] # Nobody}

\* receive_snapshot: a tick beyond the newest.
TakeSnapshot(state) ==
  /\ Len(ahead) < MaxBuffered
  /\ ahead' = Append(ahead, state)
  /\ corrected' = {}
  /\ UNCHANGED <<from, client, live, applied, owned, damage>>

\* Mutant of Made: an entity that was destroyed under the client still counts.
MadeOnce(state) == DOMAIN state \ live

\* "An entity destroyed under us (a cascade, the game) is re-made."
Made(state) == DOMAIN state \ client.alive

\* run_net_client_interpolate, `ticks` snapshots later than the last time: spawn, components, despawn.
Interpolate(ticks) ==
  LET state == IF ticks = 0 THEN from ELSE ahead[ticks]
      made == Made(state)
      placed == DOMAIN state \ (owned \ made)
  IN /\ from' = state
     /\ ahead' = SubSeq(ahead, ticks + 1, Len(ahead))
     /\ client' = Destroyed(Placed([client EXCEPT !.alive = @ \cup made], state, placed), live \ DOMAIN state)
     /\ live' = DOMAIN state
     /\ applied' = (applied \cap (DOMAIN state \ placed)) \cup (placed \cap WithParent(state))
     /\ owned' = DOMAIN state \ placed
     /\ corrected' = (corrected \ made) \cap client'.alive
     /\ UNCHANGED damage

\* run_net_client_predict: what it owns in the newest state is corrected with it, once.
Predict ==
  LET own == Own \cap live \cap client.alive \cap DOMAIN Newest
      due == own \ corrected
  IN /\ owned' = own
     /\ corrected' = own
     /\ client' = Placed(client, Newest, due)
     /\ applied' = (applied \ due) \cup (due \cap WithParent(Newest))
     /\ UNCHANGED <<from, ahead, live, damage>>

\* forget_server.
Forget ==
  /\ client' = Destroyed(client, live)
  /\ from' = NothingYet /\ ahead' = <<>>
  /\ live' = {} /\ applied' = {} /\ owned' = {} /\ corrected' = {}
  /\ UNCHANGED damage

\* The game destroys an entity.
GameDestroys(i) ==
  /\ damage < MaxDamage /\ i \in client.alive
  /\ damage' = damage + 1
  /\ client' = destroy(client, i)
  /\ corrected' = corrected \cap client'.alive
  /\ UNCHANGED <<from, ahead, live, applied, owned>>

WorldNext ==
  \/ \E state \in Samples : TakeSnapshot(state)
  \/ \E ticks \in 0 .. Len(ahead) : Interpolate(ticks)
  \/ Predict \/ Forget
  \/ \E i \in NetIds : GameDestroys(i)

WorldSpec == WorldInit /\ [][WorldNext]_worldVars

--------------------------------------------------------------------------------
\* What the world keeps: Parent and Children agree, no cycle, none too deep; nothing outlives its
\* record, and only what this client owns is predicted.
WorldTypeOK ==
  /\ IsForest(client)
  /\ live = DOMAIN from /\ client.alive \subseteq live
  /\ owned \subseteq live \cap Own /\ corrected \subseteq live \cap client.alive

\* The world has the entities of a state, and hangs them as it says; a Parent that is not replicated
\* is not applied, and leaves an old one that may be in the way of others.
Mirrors(state) ==
  /\ client.alive = DOMAIN state
  /\ Unreplicated \notin Range(state) => \A i \in DOMAIN state : client.parent[i] = state[i]

\* "Parent ... Applied through set_parent / clear_parent so Children stays right"
\* (replication_registry.cpp) although the records come one by one in the order of their ids: a
\* parent may be refused because the one above it has not moved yet, a despawn may take along what
\* was to move away, the game may destroy what it does not own.  Once the server's state stays, the
\* client's world becomes that state, and stays a forest all the way.
Settles ==
  /\ []WorldTypeOK
  /\ <>[][from' = from /\ Newest' = Newest]_worldVars => <>[]Mirrors(from)

\* "Despawn last, so a child reparented away in this same snapshot is not taken by its old parent"
\* (run_net_client_interpolate): what is there before and after a later state is the same entity.
KeptByNewParent ==
  [][from' # from => \A i \in DOMAIN from \cap DOMAIN from' : i \in client.alive => i \in client'.alive]_worldVars
================================================================================
