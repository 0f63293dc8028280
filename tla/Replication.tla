------------------------------ MODULE Replication ------------------------------
(* One peer's snapshots, from the server's table of ghosts to the client's      *)
(* buffer and back as acknowledgements, over a network that loses, duplicates   *)
(* and reorders both.  The peer stays connected; a reconnect starts over with   *)
(* an empty table and an empty buffer.                                          *)
EXTENDS PeerGhosts, SnapshotBuffer

CONSTANTS Views,        \* what the peer may be told about at a send: some of States
          MaxTick       \* bound: the last send

ASSUME ViewsAssumption ==
  \* relevant_for brings the parent of everything relevant
  /\ Views \subseteq States
  /\ \A v \in Views, i \in Ids : i \in DOMAIN v /\ Parent[i] # 0 => Parent[i] \in DOMAIN v

ASSUME TickAssumption == MaxTick \in Nat

VARIABLES
  tick,       \* the server's, counted in sends
  ghosts,     \* PeerGhosts::ghosts_, by id
  sent,       \* PeerGhosts::sent_: the ticks of the snapshots an acknowledgement may still name
  net,        \* every snapshot put on the network, by tick: any of them may arrive, now or later
  acks,       \* the acknowledgements put on the network
  buffer,     \* NetClient's SnapshotBuffer
  history     \* of the model: what each snapshot was built from and whether it left nothing out

vars == <<tick, ghosts, sent, net, acks, buffer, history>>

Ticks == 1 .. MaxTick

Init ==
  /\ tick = 0
  /\ ghosts = NoState
  /\ sent = {}
  /\ net = NoState
  /\ acks = {}
  /\ buffer = NoEntries
  /\ history = NoState

Extended(f, x, value) == [y \in DOMAIN f \cup {x} |-> IF y = x THEN value ELSE f[y]]

\* Everything waiting goes out: no record was deferred and every removal is listed.
Complete(table, view, delta, at) ==
  LET brought == Brought(table, view, at)
  IN Candidates(brought, view) = DOMAIN delta.records /\ Leaving(brought) = delta.removed

\* Mutant of SendSnapshot: the table forgets what left as soon as its removal is listed.
SendForgetsListed(view) ==
  LET t == tick + 1
      built == build(ghosts, view, t)
  IN /\ t \in Ticks
     /\ tick' = t
     /\ ghosts' = [i \in DOMAIN built.ghosts \ built.delta.removed |-> built.ghosts[i]]
     /\ sent' = InWindow(sent, t) \cup {t}
     /\ net' = Extended(net, t, built.delta)
     /\ history' = Extended(history, t, [view |-> view,
                                         complete |-> Complete(ghosts, view, built.delta, t)])
     /\ UNCHANGED <<acks, buffer>>

\* run_net_server_send: a capture, what of it the peer is told, the snapshot.
SendSnapshot(view) ==
  LET t == tick + 1
      built == build(ghosts, view, t)
  IN /\ t \in Ticks
     /\ tick' = t
     /\ ghosts' = built.ghosts
     /\ sent' = InWindow(sent, t) \cup {t}
     /\ net' = Extended(net, t, built.delta)
     /\ history' = Extended(history, t, [view |-> view,
                                         complete |-> Complete(ghosts, view, built.delta, t)])
     /\ UNCHANGED <<acks, buffer>>

\* NetClient's receive_snapshot: a held one is acknowledged again, a refused one is not.
ReceiveSnapshot(t) ==
  /\ t \in DOMAIN net
  /\ \/ /\ t \in DOMAIN buffer.entries
        /\ acks' = acks \cup {t}
        /\ UNCHANGED buffer
     \/ /\ Accepts(buffer, t, net[t])
        /\ buffer' = insert(buffer, t, net[t])
        /\ acks' = acks \cup {t}
     \/ /\ t \notin DOMAIN buffer.entries
        /\ ~Accepts(buffer, t, net[t])
        /\ UNCHANGED <<acks, buffer>>
  /\ UNCHANGED <<tick, ghosts, sent, net, history>>

\* NetServer's receive_ack and PeerGhosts::acknowledge: one that names nothing waiting is ignored.
ReceiveAck(t) ==
  /\ t \in acks
  /\ \/ /\ t \in sent
        /\ ghosts' = Confirmed(ghosts, net[t], t)
        /\ sent' = sent \ {t}
     \/ t \notin sent /\ UNCHANGED <<ghosts, sent>>
  /\ UNCHANGED <<tick, net, acks, buffer, history>>

Next ==
  \/ \E view \in Views : SendSnapshot(view)
  \/ \E t \in Ticks : ReceiveSnapshot(t)
  \/ \E t \in Ticks : ReceiveAck(t)

Spec == Init /\ [][Next]_vars

--------------------------------------------------------------------------------
Newest == StateAt(buffer, newest(buffer))

\* The server has nothing left to tell the peer about this view.
Quiet(table, view) ==
  /\ DOMAIN view = DOMAIN table
  /\ \A i \in DOMAIN view : is_clean(table[i], view[i]) /\ ~table[i].leaving

\* Every variable keeps its type: ghosts never name a tick that was not sent; the client holds and
\* acknowledges only what was; server and client both keep no more than the window.
TypeOK ==
  /\ tick \in 0 .. MaxTick
  /\ DOMAIN net = 1 .. tick /\ DOMAIN history = 1 .. tick
  /\ \A t \in DOMAIN net : net[t] \in Deltas /\ history[t].view \in Views
  /\ DOMAIN ghosts \subseteq Ids
  /\ \A i \in DOMAIN ghosts :
       LET g == ghosts[i] IN
       /\ g.latest \in Contents \cup {NoContent} /\ g.since \in [Slots -> 0 .. tick]
       /\ {g.ownerSince, g.confirmed, g.leaveSince, g.lastListed} \subseteq 0 .. tick
       /\ g.written \in BOOLEAN /\ g.leaving \in BOOLEAN /\ g.accumulator \in Nat
  /\ sent \subseteq DOMAIN net /\ \A t \in sent : t + Window > tick
  /\ DOMAIN buffer.entries \subseteq acks /\ acks \subseteq DOMAIN net
  /\ \A t \in DOMAIN buffer.entries : buffer.entries[t] = net[t] /\ t + Window > newest(buffer)
  /\ buffer.base \in States

\* A snapshot that deferred nothing brings the client's state at its tick to exactly what the peer
\* was to be told at that tick: no entity too many, none missing, no stale component.
ExactStates ==
  \A t \in DOMAIN buffer.entries : history[t].complete => StateAt(buffer, t) = history[t].view

\* "impossible from a server that saw its create acknowledged" (apply_snapshot, snapshot_codec.h):
\* no snapshot in the window is refused for a record without its entity, in whatever order they
\* come, and deriving the later states again never skips a record.  With the types.
NeverRefused ==
  /\ TypeOK
  /\ \A t \in DOMAIN net :
       LET latest == newest(buffer) IN
       ~outside_window(t, IF latest > t THEN latest ELSE t) => Fits(StateAt(buffer, t - 1), net[t])

\* The server forgets an entity only when the client's newest state is without it for good: what
\* the client holds has a ghost that was written, so its removal is still to be listed.
NoZombie ==
  \A i \in DOMAIN Newest : i \in DOMAIN ghosts /\ ghosts[i].written

\* A server that has nothing left to send is right about it: the client's newest state is what the
\* peer is to be told, although the server knows it only from acknowledgements.
Synced ==
  tick > 0 /\ Quiet(ghosts, history[tick].view) => Newest = history[tick].view

\* One round trip is enough: the acknowledgement of the latest snapshot, when it deferred nothing,
\* leaves nothing to send, whatever was lost before.
OneRoundTrip ==
  [][(tick' = tick /\ tick \in sent \ sent' /\ history[tick].complete) =>
       Quiet(ghosts', history[tick].view)]_vars

\* "a record larger than what is left cannot wait forever" (the top of the order always goes out):
\* what an entity accumulates while it waits is bounded, so it goes out within as many sends as
\* there are entities ahead of it, however large its record.
WaitIsBounded ==
  \A i \in DOMAIN ghosts : ghosts[i].accumulator <= (Cardinality(Ids) - 1) * MaxWeight

Written(table, i) == i \in DOMAIN table /\ table[i].written

\* "A new child goes out with every ancestor that was never written, so its Parent resolves"
\* (PeerGhosts::build), for the entities that wait their turn.
NewChildBringsParent ==
  [][\A i \in DOMAIN ghosts' :
       /\ Written(ghosts', i) /\ ~Written(ghosts, i) /\ Parent[i] # 0
       /\ ~(Predicting /\ ghosts'[i].latest.owner = Self)
       => Written(ghosts', Parent[i])]_vars
================================================================================
