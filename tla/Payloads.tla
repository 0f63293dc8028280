------------------------------- MODULE Payloads --------------------------------
(* Reliable payloads: the server's queue for each peer, the ordered stream to   *)
(* the client, the client that puts them together, and its acknowledgements.    *)
(* Sizes are counted in fragments.  How much credit and backlog let through in  *)
(* a tick is a choice; a connection that ended is never reused (its peer id is  *)
(* new the next time).  Bytes that do not decompress are left out.              *)
EXTENDS Naturals, Sequences, FiniteSets, FiniteSetsExt, SequencesExt

CONSTANTS Peers,
          Sizes,        \* sizes a payload may have
          Prios,        \* priorities the game may give one
          Aging,        \* payload_aging_per_second, per tick
          Limit,        \* the client's max_payload_bytes
          MaxOpen,      \* PayloadAssembler::kMaxOpen
          Refusable,    \* which of "cancel" and "ack" the transport may refuse to take
          MaxPayloads,  \* bound: payloads sent
          MaxTick,      \* bound: ages stop growing here
          MaxSends      \* bound: fragments to one peer in one tick

ASSUME PayloadAssumption ==
  /\ Sizes \subseteq Nat /\ Prios \subseteq Nat /\ IsFiniteSet(Prios) /\ Aging \in Nat /\ Limit \in Nat
  /\ MaxOpen \in Nat /\ Refusable \subseteq {"cancel", "ack"}
  /\ MaxPayloads \in Nat /\ MaxTick \in Nat \ {0} /\ MaxSends \in Nat \ {0}

VARIABLES
  now,          \* the server's tick
  nextPayload,  \* the last payload id given out
  queue,        \* by connected peer: its PayloadQueue, item by id
  owner,        \* payload_owner: the peer of every queued payload
  linked,       \* the connection of a peer is up
  down, up,     \* the ordered streams to the client and to the server
  open,         \* by peer: the client's unfinished payloads
  refused,      \* payloads_refused: the client saw a malformed message
  dispatched,   \* of the model: how often the client's handler got each payload
  delivered,    \* of the model: how many NetPayloadDeliveredEvents named it
  cancelled     \* of the model: the payloads cancel_payload returned true for

serverVars == <<now, nextPayload, queue, owner, delivered, cancelled>>
clientVars == <<open, refused, dispatched>>
vars == <<serverVars, clientVars, linked, down, up>>

PayloadIds == 1 .. MaxPayloads
Nothing == [i \in {} |-> i]

Init ==
  /\ now = 1
  /\ nextPayload = 0
  /\ queue = [p \in Peers |-> Nothing]
  /\ owner = Nothing
  /\ linked = [p \in Peers |-> TRUE]
  /\ down = [p \in Peers |-> <<>>]
  /\ up = [p \in Peers |-> <<>>]
  /\ open = [p \in Peers |-> Nothing]
  /\ refused = [p \in Peers |-> FALSE]
  /\ dispatched = [i \in PayloadIds |-> 0]
  /\ delivered = [i \in PayloadIds |-> 0]
  /\ cancelled = {}

Without(f, S) == [x \in DOMAIN f \ S |-> f[x]]
With(f, x, value) == [y \in DOMAIN f \cup {x} |-> IF y = x THEN value ELSE f[y]]

--------------------------------------------------------------------------------
\* The game's calls on the server.
SendPayload(p, size, prio) ==
  LET id == nextPayload + 1
      item == [size |-> size, prio |-> prio, queued |-> now, sent |-> 0,
               started |-> FALSE, awaiting |-> FALSE]
  IN /\ p \in DOMAIN queue /\ id \in PayloadIds
     /\ nextPayload' = id
     /\ queue' = [queue EXCEPT ![p] = With(@, id, item)]
     /\ owner' = With(owner, id, p)
     /\ UNCHANGED <<now, delivered, cancelled, clientVars, linked, down, up>>

\* Mutant of CancelPayload: a payload already sent whole stays queued.
CancelPayloadUnlessSent(id) ==
  /\ id \in DOMAIN owner
  /\ LET p == owner[id]
         item == queue[p][id]
     IN /\ queue' = IF item.awaiting THEN queue ELSE [queue EXCEPT ![p] = Without(@, {id})]
        /\ owner' = IF item.awaiting THEN owner ELSE Without(owner, {id})
        /\ \/ /\ item.started /\ ~item.awaiting /\ linked[p]
              /\ down' = [down EXCEPT ![p] = Append(@, [kind |-> "cancel", id |-> id])]
           \/ /\ item.started /\ ~item.awaiting => ~linked[p] \/ "cancel" \in Refusable
              /\ UNCHANGED down
  /\ cancelled' = cancelled \cup {id}
  /\ UNCHANGED <<now, nextPayload, delivered, clientVars, linked, up>>

\* Mutant of CancelPayload: the client is never told.
CancelPayloadSilently(id) ==
  /\ id \in DOMAIN owner
  /\ queue' = [queue EXCEPT ![owner[id]] = Without(@, {id})]
  /\ owner' = Without(owner, {id})
  /\ cancelled' = cancelled \cup {id}
  /\ UNCHANGED <<now, nextPayload, delivered, clientVars, linked, up, down>>

\* cancel_payload: a payload partly sent is followed by a PayloadCancel, whose refusal is ignored.
CancelPayload(id) ==
  /\ id \in DOMAIN owner
  /\ LET p == owner[id]
         item == queue[p][id]
     IN /\ queue' = [queue EXCEPT ![p] = Without(@, {id})]
        /\ \/ /\ item.started /\ ~item.awaiting /\ linked[p]
              /\ down' = [down EXCEPT ![p] = Append(@, [kind |-> "cancel", id |-> id])]
           \/ /\ item.started /\ ~item.awaiting => ~linked[p] \/ "cancel" \in Refusable
              /\ UNCHANGED down
  /\ owner' = Without(owner, {id})
  /\ cancelled' = cancelled \cup {id}
  /\ UNCHANGED <<now, nextPayload, delivered, clientVars, linked, up>>

\* Mutant of SetPayloadPriority: the payload is queued again from its first byte.
SetPayloadPriorityAgain(id, prio) ==
  /\ id \in DOMAIN owner
  /\ queue' = [queue EXCEPT ![owner[id]][id].prio = prio, ![owner[id]][id].sent = 0,
                            ![owner[id]][id].started = FALSE, ![owner[id]][id].awaiting = FALSE]
  /\ UNCHANGED <<now, nextPayload, owner, delivered, cancelled, clientVars, linked, down, up>>

SetPayloadPriority(id, prio) ==
  /\ id \in DOMAIN owner
  /\ queue' = [queue EXCEPT ![owner[id]][id].prio = prio]
  /\ UNCHANGED <<now, nextPayload, owner, delivered, cancelled, clientVars, linked, down, up>>

--------------------------------------------------------------------------------
\* Mutant of Effective: the priority alone decides.
EffectiveWithoutAge(item) == item.prio

\* next_to_send: the highest priority plus age of those not sent whole, ties to the older.
Effective(item) == item.prio + (now - item.queued) * Aging
Ready(items) == {i \in DOMAIN items : ~items[i].awaiting}
next_to_send(items) ==
  CHOOSE i \in Ready(items) : \A j \in Ready(items) \ {i} :
    \/ Effective(items[i]) > Effective(items[j])
    \/ Effective(items[i]) = Effective(items[j]) /\ i < j

\* One message of pump: the begin or the next fragment of that payload.
Fragment(items, i) ==
  LET item == items[i]
      data == Min({item.size - item.sent, 1})
  IN [message |-> [kind |-> IF item.started THEN "fragment" ELSE "begin", id |-> i,
                   size |-> item.size, offset |-> item.sent, data |-> data],
      items |-> [items EXCEPT ![i].started = TRUE, ![i].sent = @ + data,
                              ![i].awaiting = item.sent + data = item.size]]

\* pump, when what there is of credit and backlog lets n messages through.
pump(items, n) ==
  LET run[k \in 0 .. n] ==
        IF k = 0 THEN [items |-> items, messages |-> <<>>]
        ELSE LET before == run[k - 1] IN
             IF Ready(before.items) = {} THEN before
             ELSE LET next == Fragment(before.items, next_to_send(before.items))
                  IN [items |-> next.items, messages |-> Append(before.messages, next.message)]
  IN run[n]

\* run_net_server_send: every peer's queue in one tick; nothing is taken for a connection that is down.
Send(n) ==
  /\ \A p \in Peers : n[p] > 0 => p \in DOMAIN queue /\ linked[p]
  /\ queue' = [p \in DOMAIN queue |-> pump(queue[p], n[p]).items]
  /\ down' = [p \in Peers |-> IF p \in DOMAIN queue THEN down[p] \o pump(queue[p], n[p]).messages
                              ELSE down[p]]
  /\ now' = Min({now + 1, MaxTick})
  /\ UNCHANGED <<nextPayload, owner, delivered, cancelled, clientVars, linked, up>>

\* receive_payload_ack: one for a payload that is not waiting for it is ignored.
ReceiveAck(p) ==
  /\ up[p] # <<>> /\ p \in DOMAIN queue
  /\ up' = [up EXCEPT ![p] = Tail(@)]
  /\ LET id == Head(up[p]) IN
     \/ /\ id \in DOMAIN queue[p] /\ queue[p][id].awaiting
        /\ queue' = [queue EXCEPT ![p] = Without(@, {id})]
        /\ owner' = Without(owner, {id})
        /\ delivered' = [delivered EXCEPT ![id] = @ + 1]
     \/ /\ ~(id \in DOMAIN queue[p] /\ queue[p][id].awaiting)
        /\ UNCHANGED <<queue, owner, delivered>>
  /\ UNCHANGED <<now, nextPayload, cancelled, clientVars, linked, down>>

--------------------------------------------------------------------------------
\* PayloadAssembler, for the payloads o that are open.
held(o) == MapThenSumSet(LAMBDA i : o[i].got, DOMAIN o)
Part(o, m) == IF m.kind = "begin" THEN [total |-> m.size, got |-> 0] ELSE o[m.id]

\* What begin, fragment and take_bytes refuse.
Malformed(o, m) ==
  \/ m.kind = "begin" /\ (m.size > Limit \/ m.id \in DOMAIN o \/ Cardinality(DOMAIN o) >= MaxOpen)
  \/ m.kind = "fragment" /\ (m.id \notin DOMAIN o \/ o[m.id].got # m.offset)
  \/ m.data > Part(o, m).total - Part(o, m).got
  \/ held(o) + m.data > Limit

\* Mutant of Whole: a payload of one message is never taken as whole.
WholeAfterFragment(o, m) == m.kind = "fragment" /\ Part(o, m).got + m.data = Part(o, m).total

Whole(o, m) == Part(o, m).got + m.data = Part(o, m).total

\* receive_payload_message: the handler runs when the payload is whole, then the acknowledgement
\* goes out; a malformed one ends the connection from the client's side.
ReceiveBytes(p, m) ==
  \/ /\ Malformed(open[p], m)
     /\ refused' = [refused EXCEPT ![p] = TRUE]
     /\ UNCHANGED <<open, dispatched, up>>
  \/ /\ ~Malformed(open[p], m) /\ ~Whole(open[p], m)
     /\ open' = [open EXCEPT ![p] = With(open[p], m.id, [Part(open[p], m) EXCEPT !.got = @ + m.data])]
     /\ UNCHANGED <<refused, dispatched, up>>
  \/ /\ ~Malformed(open[p], m) /\ Whole(open[p], m)
     /\ open' = [open EXCEPT ![p] = Without(@, {m.id})]
     /\ dispatched' = [dispatched EXCEPT ![m.id] = @ + 1]
     /\ \/ up' = [up EXCEPT ![p] = Append(@, m.id)]
        \/ "ack" \in Refusable /\ UNCHANGED up
     /\ UNCHANGED refused

\* A cancel of a payload that is not open does nothing.
ReceiveCancel(p, id) ==
  /\ open' = [open EXCEPT ![p] = Without(@, {id})]
  /\ UNCHANGED <<refused, dispatched, up>>

ClientReceives(p) ==
  /\ down[p] # <<>>
  /\ down' = [down EXCEPT ![p] = Tail(@)]
  /\ LET m == Head(down[p]) IN
     \/ refused[p] /\ UNCHANGED <<clientVars, up>>
     \/ ~refused[p] /\ m.kind # "cancel" /\ ReceiveBytes(p, m)
     \/ ~refused[p] /\ m.kind = "cancel" /\ ReceiveCancel(p, m.id)
  /\ UNCHANGED <<serverVars, linked>>

--------------------------------------------------------------------------------
\* A connection ends, with what it carried: the network fails, or the client closes it.
LinkDrops(p) ==
  /\ linked[p]
  /\ linked' = [linked EXCEPT ![p] = FALSE]
  /\ down' = [down EXCEPT ![p] = <<>>]
  /\ up' = [up EXCEPT ![p] = <<>>]
  /\ UNCHANGED <<serverVars, clientVars>>

\* Mutant of ServerForgets: the owners of a lost peer's payloads are kept.
ServerForgetsQueueOnly(p) ==
  /\ ~linked[p] /\ p \in DOMAIN queue
  /\ queue' = Without(queue, {p})
  /\ UNCHANGED <<now, nextPayload, owner, delivered, cancelled, clientVars, linked, down, up>>

\* forget_peer, when the server polls the Disconnected event.
ServerForgets(p) ==
  /\ ~linked[p] /\ p \in DOMAIN queue
  /\ queue' = Without(queue, {p})
  /\ owner' = Without(owner, DOMAIN queue[p])
  /\ UNCHANGED <<now, nextPayload, delivered, cancelled, clientVars, linked, down, up>>

\* The payloads part of forget_server, when the client does.
ClientForgets(p) ==
  /\ ~linked[p] /\ (open[p] # Nothing \/ refused[p])
  /\ open' = [open EXCEPT ![p] = Nothing]
  /\ refused' = [refused EXCEPT ![p] = FALSE]
  /\ UNCHANGED <<serverVars, dispatched, linked, down, up>>

Next ==
  \/ \E p \in Peers, size \in Sizes, prio \in Prios : SendPayload(p, size, prio)
  \/ \E id \in PayloadIds : CancelPayload(id)
  \/ \E id \in PayloadIds, prio \in Prios : SetPayloadPriority(id, prio)
  \/ \E n \in [Peers -> 0 .. MaxSends] : Send(n)
  \/ \E p \in Peers : ReceiveAck(p)
  \/ \E p \in Peers : ClientReceives(p)
  \/ \E p \in Peers : LinkDrops(p)
  \/ \E p \in Peers : ServerForgets(p)
  \/ \E p \in Peers : ClientForgets(p)

Spec == Init /\ [][Next]_vars

\* The rate leaves the payloads their share and the transport drains, so a peer with something to
\* send is served again and again; both sides poll on every fixed step, and a client that saw a
\* malformed message disconnects.
Served(p) == \E n \in [Peers -> 0 .. MaxSends] : n[p] > 0 /\ Ready(queue[p]) # {} /\ Send(n)
Fairness ==
  \A p \in Peers : /\ WF_vars(p \in DOMAIN queue /\ Served(p))
                   /\ WF_vars(ClientReceives(p)) /\ WF_vars(ReceiveAck(p)) /\ WF_vars(ServerForgets(p))
                   /\ WF_vars(refused[p] /\ LinkDrops(p))
FairSpec == Spec /\ Fairness

--------------------------------------------------------------------------------
\* Every variable keeps its type; an item waits for its acknowledgement exactly when it was sent
\* whole, and what the client holds unfinished stays under its limits.
TypeOK ==
  /\ now \in 1 .. MaxTick /\ nextPayload \in 0 .. MaxPayloads
  /\ DOMAIN queue \subseteq Peers
  /\ \A p \in DOMAIN queue : \A i \in DOMAIN queue[p] :
       LET item == queue[p][i] IN
       /\ item.size \in Sizes /\ item.sent \in 0 .. item.size /\ item.queued \in 1 .. now
       /\ item.awaiting = (item.started /\ item.sent = item.size)
  /\ \A p \in Peers : held(open[p]) <= Limit /\ Cardinality(DOMAIN open[p]) <= MaxOpen
  /\ DOMAIN dispatched = PayloadIds /\ DOMAIN delivered = PayloadIds /\ cancelled \subseteq PayloadIds

\* The map of owners is the queues turned around: cancel, re-prioritise and progress find every
\* payload still queued and none that is done or whose peer is gone.
OwnersMatch ==
  /\ TypeOK
  /\ \A id \in DOMAIN owner : owner[id] \in DOMAIN queue /\ id \in DOMAIN queue[owner[id]]
  /\ \A p \in DOMAIN queue : DOMAIN queue[p] \subseteq {id \in DOMAIN owner : owner[id] = p}

\* A payload reaches the handler once at most; the server's event comes once at most, only after the
\* handler ran, and never for a payload the game cancelled ("no event follows", Net.md).
EventsAreTrue ==
  /\ \A id \in PayloadIds : delivered[id] <= dispatched[id] /\ dispatched[id] <= 1
  /\ \A id \in cancelled : delivered[id] = 0

InFlight(p, id) ==
  FoldSeq(LAMBDA m, n : IF m.kind # "cancel" /\ m.id = id THEN n + m.data ELSE n, 0, down[p])

\* "sends PayloadCancel so the client frees the part" (Net.md): whatever the client holds of a payload
\* on a live connection is still going to be completed or freed by what is queued or on the way.
PartsAreFreed ==
  \A p \in Peers : linked[p] /\ ~refused[p] =>
    \A id \in DOMAIN open[p] :
      \/ p \in DOMAIN queue /\ id \in DOMAIN queue[p]
      \/ \E k \in DOMAIN down[p] : down[p][k].kind = "cancel" /\ down[p][k].id = id
      \/ open[p][id].got + InFlight(p, id) = open[p][id].total

\* "The stream is reliable and ordered, so anything out of place means the two sides disagree and
\* cannot recover" (PayloadAssembler).  They never do, whatever preempts, gets a new priority or is
\* cancelled: what the server counts as sent of a payload is what the client has of it plus what is
\* on the way, and the client refuses a message only when it is full (no size is over its limit).
BytesAddUp ==
  /\ \A p \in DOMAIN queue : linked[p] /\ ~refused[p] =>
       \A id \in DOMAIN queue[p] : dispatched[id] = 0 =>
         queue[p][id].sent = InFlight(p, id) + (IF id \in DOMAIN open[p] THEN open[p][id].got ELSE 0)
  /\ \A p \in Peers : refused[p] => held(open[p]) = Limit

\* "a payload that keeps waiting ends up first" (PayloadQueue): nothing queued later than the range
\* of priorities takes to age away is sent before it, whatever new priorities the game gives.
AgesPast ==
  [][\A p \in DOMAIN queue \cap DOMAIN queue' :
       \A i, j \in DOMAIN queue[p] \cap DOMAIN queue'[p] :
         /\ queue'[p][j].sent # queue[p][j].sent /\ ~queue'[p][i].awaiting
         /\ now < MaxTick
         => (queue[p][j].queued - queue[p][i].queued) * Aging <= Max(Prios) - Min(Prios)]_vars

\* Every payload leaves its queue: delivered, cancelled or its peer lost; or the transport refused the
\* acknowledgement of one the client has handled.
PayloadsLeave ==
  \A id \in PayloadIds :
    id \in DOMAIN owner ~> id \notin DOMAIN owner \/ ("ack" \in Refusable /\ dispatched[id] = 1)
================================================================================
