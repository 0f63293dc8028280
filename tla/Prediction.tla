------------------------------ MODULE Prediction -------------------------------
(* One entity a client steers: the client's inputs and predictions, the         *)
(* server's input buffer and its simulation, and the server states that come    *)
(* back in snapshots.  Input messages and snapshots may be lost, duplicated and *)
(* reordered.  The state of the entity is the sequence of inputs it was stepped *)
(* with, so two states are equal only when the same inputs led to them.         *)
EXTENDS Integers, Sequences, FiniteSets

CONSTANTS Inputs,       \* what the game collects in a tick
          Idle,         \* Input{}, before the first one
          Ring,         \* kPredictionRingTicks
          MaxLead,      \* kMaxInputLeadTicks
          Redundancy,   \* how many ticks an input message repeats
          MaxAhead,     \* bound: how far ahead the client starts
          MaxJump,      \* bound: how far the client jumps ahead at once
          MaxTick,      \* bound: server ticks
          MaxPredicted  \* bound: client ticks

None == "none"  \* std::nullopt

ASSUME PredictionAssumption ==
  /\ Idle \notin Inputs /\ None \notin Inputs \cup {Idle}
  /\ {Ring, MaxLead, Redundancy} \subseteq Nat \ {0}
  /\ {MaxAhead, MaxJump, MaxTick, MaxPredicted} \subseteq Nat

VARIABLES
  tick,         \* the server's; every tick up to it ran
  pending,      \* InputBuffer::pending_: the inputs of later ticks
  last,         \* InputBuffer::last_
  world,        \* of the model: the entity's state on the server after each tick
  ran,          \* of the model: the input each tick ran with
  messages,     \* every input message sent: any of them may arrive, now or later
  newest,       \* the client's newest snapshot
  predicted,    \* the client's tick
  reconciled,   \* Track::reconciled
  ring,         \* Track::ring
  present,      \* the entity's state in the client's world
  collected     \* of the model: the input the client collected for each tick

serverVars == <<tick, pending, last, world, ran>>
clientVars == <<newest, predicted, reconciled, ring, present, collected>>
vars == <<serverVars, messages, clientVars>>

NoState == <<None>>
States == Seq(Inputs \cup {Idle})

step(state, input) == Append(state, input)
NoSlot == [tick |-> 0, input |-> None, collected |-> FALSE, state |-> NoState]

With(f, x, value) == [y \in DOMAIN f \cup {x} |-> IF y = x THEN value ELSE f[y]]
Nothing == [t \in {} |-> t]

Init ==
  /\ tick = 0
  /\ pending = Nothing
  /\ last = Idle
  /\ world = Nothing
  /\ ran = Nothing
  /\ messages = {}
  /\ newest = 0
  /\ predicted = 0
  /\ reconciled = 0
  /\ ring = [k \in 0 .. Ring - 1 |-> NoSlot]
  /\ present = <<>>
  /\ collected = Nothing

--------------------------------------------------------------------------------
\* The ticks InputBuffer::insert takes from a message; the first copy of each wins.
Stored(inputs) == {t \in DOMAIN inputs : t > tick /\ t <= tick + MaxLead /\ t \notin DOMAIN pending}

\* receive_input: the message for its newest tick and the ones before it.
ReceiveInput(inputs) ==
  /\ pending' = [t \in DOMAIN pending \cup Stored(inputs) |->
                   IF t \in DOMAIN pending THEN pending[t] ELSE inputs[t]]
  /\ UNCHANGED <<tick, last, world, ran, messages, clientVars>>

\* Mutant of take: the oldest input that waits, whatever its tick.
takeOldest(t) ==
  IF pending = Nothing THEN last
  ELSE pending[CHOOSE u \in DOMAIN pending : \A v \in DOMAIN pending : u <= v]

\* InputBuffer::take: the input of this very tick, or the last one again.
take(t) == IF t \in DOMAIN pending THEN pending[t] ELSE last

\* run_net_server_receive after its polling: the next tick, the entity stepped with its input.
ServerTick ==
  LET t == tick + 1 IN
  /\ t <= MaxTick
  /\ tick' = t
  /\ last' = take(t)
  /\ pending' = [u \in {v \in DOMAIN pending : v > t} |-> pending[u]]
  /\ ran' = With(ran, t, take(t))
  /\ world' = With(world, t, step(IF tick = 0 THEN <<>> ELSE world[tick], take(t)))
  /\ UNCHANGED <<messages, clientVars>>

--------------------------------------------------------------------------------
slot(r, t) == r[t % Ring]
HeldAt(r, t) == slot(r, t).tick = t
Put(r, t, s) == [r EXCEPT ![t % Ring] = s]

keep_server_state(r, t, state) ==
  Put(r, t, IF HeldAt(r, t) THEN [slot(r, t) EXCEPT !.state = state]
            ELSE [NoSlot EXCEPT !.tick = t, !.state = state])

\* Mutant of last_input_at_or_before: an input of a tick before the last one counts as missing.
last_input_at(r, t) == IF HeldAt(r, t) /\ slot(r, t).input # None THEN slot(r, t).input ELSE Idle

\* The input a missing one after tick t repeats.
last_input_at_or_before(r, t) ==
  LET held == {u \in 1 .. t : t - u < Ring /\ HeldAt(r, u) /\ slot(r, u).input # None}
  IN IF held = {} THEN Idle ELSE slot(r, CHOOSE u \in held : \A v \in held : v <= u).input

\* Mutant of Store: a replayed tick keeps the state predicted before, if it has one.
StoreUnlessHeld(r, t, s, state) ==
  Put(r, t, [s EXCEPT !.state = IF HeldAt(r, t) /\ slot(r, t).state # NoState THEN @ ELSE state])

\* A replayed tick stores the state it led to.
Store(r, t, s, state) == Put(r, t, [s EXCEPT !.state = state])

\* One tick of reconcile's replay: without a stored input it repeats the one before it.
Replayed(before, t) ==
  LET own == HeldAt(before.ring, t) /\ slot(before.ring, t).input # None
      input == IF own THEN slot(before.ring, t).input ELSE before.last
      after == step(before.state, input)
      s == IF own THEN slot(before.ring, t) ELSE [NoSlot EXCEPT !.tick = t, !.input = input]
  IN [ring |-> Store(before.ring, t, s, after), state |-> after, last |-> input]

\* The replay from `from` to `to`.
Replay(r, state, from, to) ==
  LET run[t \in from .. to] ==
        IF t = from THEN [ring |-> r, state |-> state, last |-> last_input_at_or_before(r, from)]
        ELSE Replayed(run[t - 1], t)
  IN run[to]

\* Prediction::reconcile with the server's state at tick t, when the client is at tick p: Skipped or
\* Matched, Accepted, Snapped, or Replayed.
reconcile(t, p) ==
  LET server == world[t]
      kept == [ring |-> keep_server_state(ring, t, server), present |-> server]
      skipped == reconciled # 0 /\ t <= reconciled
      matched == t <= p /\ HeldAt(ring, t) /\ slot(ring, t).state = server
      done == Replay(kept.ring, server, t, p)
  IN IF skipped \/ matched THEN [ring |-> ring, present |-> present]
     ELSE IF t > p THEN kept
     ELSE IF p - t >= Ring
     THEN [ring |-> keep_server_state([k \in DOMAIN ring |-> NoSlot], t, server), present |-> server]
     ELSE [ring |-> done.ring, present |-> done.state]

\* Mutant of drop_states: the states stay, though the ticks between were not predicted.
drop_states_none(r) == r

\* Prediction::drop_states: the inputs stay.
drop_states(r) == [k \in DOMAIN r |-> [r[k] EXCEPT !.state = NoState]]

\* receive_snapshot, newer than any before: the report may make the client jump ahead.
ReceiveSnapshot(t) ==
  /\ t > newest
  /\ newest' = t
  /\ \/ UNCHANGED <<predicted, reconciled, ring>>
     \/ /\ collected # Nothing
        /\ \E jump \in 1 .. MaxJump :
             predicted + jump <= MaxPredicted /\ predicted' = predicted + jump
        /\ reconciled' = 0
        /\ ring' = drop_states(ring)
  /\ UNCHANGED <<serverVars, messages, present, collected>>

\* receive_snapshot, late or a copy: nothing here reads it.
ReceiveOld(t) == t <= newest /\ UNCHANGED vars

\* Prediction::inputs: what a message says, back to the first tick that was not collected.
inputs(r, t) ==
  LET back(n) == \A k \in 0 .. n : t > k /\ HeldAt(r, t - k) /\ slot(r, t - k).collected
      ticks == {u \in 1 .. t : t - u < Redundancy /\ t - u < Ring /\ back(t - u)}
  IN [u \in ticks |-> slot(r, u).input]

Larger(a, b) == IF a > b THEN a ELSE b

\* Where the client is before a tick: the first time, the round trip decides how far ahead.
Position(ahead) == IF predicted = 0 THEN newest + ahead ELSE predicted

\* run_net_client_predict before the interpolated past has brought the entity: only the tick counts.
ClientTickAlone(ahead) ==
  LET now == Larger(Position(ahead), newest) + 1
  IN /\ newest # 0 /\ collected = Nothing /\ now <= MaxPredicted
     /\ predicted' = now
     /\ UNCHANGED <<serverVars, messages, newest, reconciled, ring, present, collected>>

\* run_net_client_predict and run_net_client_send_input: reconcile, step one tick ahead with a new
\* input, record the state, send the input.
ClientTick(input, ahead) ==
  LET p == Position(ahead)
      known == reconcile(newest, p)
      now == Larger(p, newest) + 1
      after == step(known.present, input)
      filled == Put(known.ring, now, [tick |-> now, input |-> input, collected |-> TRUE, state |-> after])
  IN /\ newest # 0 /\ now <= MaxPredicted
     /\ predicted' = now
     /\ reconciled' = Larger(reconciled, newest)
     /\ present' = after
     /\ ring' = filled
     /\ collected' = With(collected, now, input)
     /\ messages' = messages \cup {inputs(filled, now)}
     /\ UNCHANGED <<serverVars, newest>>

Next ==
  \/ \E m \in messages : ReceiveInput(m)
  \/ ServerTick
  \/ \E t \in DOMAIN world : ReceiveSnapshot(t) \/ ReceiveOld(t)
  \/ \E ahead \in 1 .. MaxAhead : ClientTickAlone(ahead)
  \/ \E input \in Inputs, ahead \in 1 .. MaxAhead : ClientTick(input, ahead)

Spec == Init /\ [][Next]_vars

--------------------------------------------------------------------------------
\* Every variable keeps its type; the server holds inputs only for ticks still to run, no further
\* ahead than the lead, and the client never reconciles with a tick the server has not run.
TypeOK ==
  /\ tick \in 0 .. MaxTick /\ predicted \in 0 .. MaxPredicted
  /\ reconciled <= newest /\ newest <= tick
  /\ \A t \in DOMAIN pending : t > tick /\ t <= tick + MaxLead /\ pending[t] \in Inputs
  /\ \A k \in DOMAIN ring : ring[k].tick # 0 => ring[k].tick % Ring = k

\* "the input for each server tick is taken once, in tick order. A tick with no input repeats the
\* last one taken" (InputBuffer): however messages overlap, every tick ran with what the client
\* collected for that very tick or with what the tick before it ran with.  With the types.
TicksRunTheirInput ==
  /\ TypeOK
  /\ \A t \in DOMAIN ran :
       \/ t \in DOMAIN collected /\ ran[t] = collected[t]
       \/ ran[t] = IF t = 1 THEN Idle ELSE ran[t - 1]

\* Prediction is right when the server runs what the client expects: a predicted state is the
\* server's whenever the server ran, from the last state both agree on, the inputs the client
\* predicted with; so the client corrects itself only when something else happened.
PredictionIsTrue ==
  reconciled # 0 =>
    \A t \in reconciled + 1 .. tick :
      /\ t - reconciled < Ring
      /\ \A u \in reconciled + 1 .. t : HeldAt(ring, u) /\ slot(ring, u).input = ran[u]
      /\ slot(ring, t).state # NoState
      => slot(ring, t).state = world[t]

\* What the client shows is the server's newest state it knows with its own inputs since then on
\* top, in order, no tick missing or twice, through matches, replays, jumps and lost snapshots (as
\* long as the ring reaches back to that state).
PresentIsReplay ==
  reconciled # 0 /\ predicted - reconciled < Ring =>
    /\ \A t \in reconciled + 1 .. predicted : HeldAt(ring, t) /\ slot(ring, t).input # None
    /\ present = world[reconciled] \o [k \in 1 .. predicted - reconciled |->
                                         slot(ring, reconciled + k).input]

\* "A tick the client stored no input for repeats the last input before it, as the server does"
\* (reconcile): the stand-in is what the server really ran, when it ran the last input collected and
\* the ring still holds that input (past its reach the client repeats Input{}, the server does not).
\* "That stand-in is never sent: the server repeats the same input on its own": a message only says
\* what the client collected for that tick.
StandInsAreGuesses ==
  /\ \A t \in 1 .. tick :
       HeldAt(ring, t) /\ slot(ring, t).input # None /\ t \notin DOMAIN collected =>
         \A c \in DOMAIN collected \cap 1 .. t - 1 :
           /\ (c + 1 .. t) \cap DOMAIN collected = {}
           /\ t - c < Ring /\ HeldAt(ring, c) /\ slot(ring, c).collected
           /\ ran[c] = collected[c]
           => slot(ring, t).input = ran[t]
  /\ \A m \in messages : \A t \in DOMAIN m : t \in DOMAIN collected /\ m[t] = collected[t]
================================================================================
