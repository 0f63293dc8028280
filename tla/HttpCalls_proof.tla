---------------------------- MODULE HttpCalls_proof ----------------------------
(* Proofs about HttpCalls for any set of calls and workers, any routes of the   *)
(* bodies and any limits: the handle of a transfer is closed once, the sink     *)
(* sees the body in order and whole, nothing is heard of a call after its       *)
(* cancel returned, and the calls keep the contract of CallContract.            *)
EXTENDS HttpCalls, SequenceTheorems, TLAPS

\* What the main thread is at: the call it cancels is marked, and still held unless dispose cancels
\* it; the chunks it hands over are of a call whose sink is on its thread.  After a dispose no worker
\* is left.
MainInv ==
  /\ main.at \in {"abort", "wait"} =>
       /\ main.call \in Calls /\ state[main.call].cancelled /\ holder[main.call] # "none"
       /\ ~main.disposing => holder[main.call] = "held"
  /\ main.at = "sink" => main.call \in Calls /\ Route[main.call] = "queued"
  /\ main.at = "dispose" => main.disposing
  /\ ~ready => \A w \in Workers : worker[w].at = "gone"

--------------------------------------------------------------------------------
(* What is known of a call, wherever it is.                                     *)

\* A call is somewhere between send and its result; one with the response "ok".
Placed(c) == Queued(c) \/ Done(c) \/ \E w \in Workers : Runs(w, c)
DoneOk(c) == \E k \in DOMAIN done : done[k].call = c /\ done[k].result = "ok"

\* Nothing has happened to a call before send.
Unsent(c) == state[c] = NewState /\ closes[c] = 0 /\ seen[c] = <<>> /\ c \notin live /\ ~Placed(c)

\* A call under way or cancelled has no result, and one that is let go of was cancelled or has one.
ResultInv(c) ==
  /\ holder[c] = "none" => Unsent(c)
  /\ c \in live \/ Placed(c) \/ state[c].cancelled => state[c].result = NoResult
  /\ holder[c] = "gone" => state[c].cancelled \/ state[c].result # NoResult

\* The handle is closed once; of a call that waits for a worker it was never opened.
CloseInv(c) ==
  /\ closes[c] <= 1
  /\ Queued(c) => ~state[c].aborted /\ closes[c] = 0

\* What the main thread holds of a call's body.
InHand(c) == IF main.at = "sink" /\ main.call = c THEN main.chunks ELSE <<>>

\* The sink saw all of it and hears no more.
Whole(c) ==
  Route[c] # "none" =>
    /\ Len(seen[c]) = state[c].received /\ ~state[c].failed
    /\ state[c].queue = <<>> /\ ~state[c].draining

\* The sink sees the chunks in order, and all of them before the response; a call is draining
\* exactly while the main thread hands its chunks over; no sink runs once cancel has returned.
SinkInv(c) ==
  /\ \A k \in 1 .. Len(seen[c]) : seen[c][k] = k
  /\ state[c].queue # <<>> => Route[c] = "queued"
  /\ DoneOk(c) => state[c].cancelled \/ Whole(c)
  /\ state[c].result = "ok" => Whole(c)
  /\ state[c].draining <=> (main.at = "sink" /\ main.call = c)
  /\ state[c].cancelled /\ holder[c] = "gone" => ~state[c].running

--------------------------------------------------------------------------------
(* What is known of it by where it is: with a worker at label l that has the    *)
(* result r so far, or with no worker.                                          *)

\* A worker at one of these holds the last chunk it read.
Holding == {"worker", "sink", "queued"}

\* The body of a call that was neither cancelled nor refused is what its sink saw, what the main
\* thread hands over, what waits in the queue and what the worker holds, in that order.
Flows(c, kept) ==
  /\ \A k \in 1 .. Len(InHand(c)) : InHand(c)[k] = Len(seen[c]) + k
  /\ \A k \in 1 .. Len(state[c].queue) : state[c].queue[k] = Len(seen[c]) + Len(InHand(c)) + k
  /\ state[c].received = Len(seen[c]) + Len(InHand(c)) + Len(state[c].queue) + kept

BodyInv(c, kept) ==
  /\ Route[c] = "worker" => state[c].cancelled \/ state[c].received = Len(seen[c]) + kept
  /\ Route[c] = "queued" => state[c].cancelled \/ state[c].failed \/ Flows(c, kept)

\* The handle is not there yet; open, with its abort registered, or closed by the abort; or closed,
\* unless there never was one.
Early == {"check", "begin"}
Open == {"ask", "query", "read", "accept", "worker", "sink", "queued", "end"}
Late == {"finish", "push"}

HandleInv(c, l) ==
  /\ l \in Early => ~state[c].abort /\ ~state[c].aborted /\ closes[c] = 0
  /\ l \in Open => state[c].abort = ~state[c].aborted /\ closes[c] = IF state[c].aborted THEN 1 ELSE 0
  /\ l \in Late => ~state[c].abort

RunInv(c, l, r) ==
  /\ HandleInv(c, l)
  /\ l \in Holding => BodyInv(c, 1)
  /\ l \notin Holding => BodyInv(c, 0)
  /\ state[c].running <=> l = "sink"
  /\ l \in {"read", "accept"} => state[c].received < MaxChunks
  /\ l = "queued" => Route[c] = "queued"
  /\ l \in {"worker", "sink"} => Route[c] = "worker" /\ state[c].received = Len(seen[c]) + 1
  /\ l \in {"end", "finish", "push"} => r \in Results
  /\ l \in Open => r # "unopened"
  /\ l \in Late => closes[c] = IF r = "unopened" THEN 0 ELSE 1
  /\ l = "push" /\ r = "ok" => state[c].cancelled \/ Whole(c)

AwayInv(c) == ~state[c].abort /\ ~state[c].running /\ BodyInv(c, 0)

CallInv(c) ==
  /\ ResultInv(c) /\ CloseInv(c) /\ SinkInv(c)
  /\ \A w \in Workers : Runs(w, c) => RunInv(c, worker[w].at, worker[w].result)
  /\ (\A w \in Workers : ~Runs(w, c)) => AwayInv(c)

IInv == TypeOK /\ MainInv /\ \A c \in Calls : CallInv(c)

--------------------------------------------------------------------------------
(* Frames: a step that leaves everything that is about a call alone.            *)

SameFor(d) ==
  /\ state'[d] = state[d] /\ holder'[d] = holder[d] /\ closes'[d] = closes[d] /\ seen'[d] = seen[d]
  /\ d \in live' <=> d \in live
  /\ InHand(d)' = InHand(d) /\ (main.at = "sink" /\ main.call = d)' = (main.at = "sink" /\ main.call = d)
  /\ Queued(d)' <=> Queued(d)
  /\ Done(d)' <=> Done(d)
  /\ DoneOk(d)' <=> DoneOk(d)
  /\ \A w \in Workers : /\ Runs(w, d)' <=> Runs(w, d)
                        /\ Runs(w, d) => worker'[w] = worker[w]

LEMMA SameKeeps ==
  ASSUME NEW d \in Calls, CallInv(d), SameFor(d)
  PROVE  CallInv(d)'
  <1> USE DEF SameFor
  <1>1. ResultInv(d)'
    BY DEF CallInv, ResultInv, Unsent, Placed
  <1>2. CloseInv(d)'
    BY DEF CallInv, CloseInv
  <1>3. SinkInv(d)'
    BY DEF CallInv, SinkInv, Whole
  <1>4. ASSUME NEW kept, BodyInv(d, kept) PROVE BodyInv(d, kept)'
    BY <1>4 DEF BodyInv, Flows
  <1>5. ASSUME NEW w \in Workers, Runs(w, d)' PROVE RunInv(d, worker[w].at, worker[w].result)'
    <2> PICK l, r : l = worker[w].at /\ r = worker[w].result
      OBVIOUS
    <2>1. RunInv(d, l, r)
      BY <1>5 DEF CallInv
    <2>2. (l \in Holding => BodyInv(d, 1)') /\ (l \notin Holding => BodyInv(d, 0)')
      BY <1>4, <2>1 DEF RunInv
    <2>3. RunInv(d, l, r)'
      BY <2>1, <2>2 DEF RunInv, HandleInv, Whole
    <2> QED BY <1>5, <2>3
  <1>6. (\A w \in Workers : ~Runs(w, d))' => AwayInv(d)'
    BY <1>4 DEF CallInv, AwayInv
  <1> QED BY <1>1, <1>2, <1>3, <1>5, <1>6 DEF CallInv

--------------------------------------------------------------------------------
(* A worker that stays with its call: it goes from label l to label l2, and     *)
(* what it does concerns this call only.                                        *)

\* Every call but c is left alone.
OthersSame(c) ==
  \A d \in Calls \ {c} : state'[d] = state[d] /\ closes'[d] = closes[d] /\ seen'[d] = seen[d]

\* What no step of a worker with the call touches.
CallKept(c) ==
  /\ state'[c].cancelled = state[c].cancelled /\ state'[c].result = state[c].result
  /\ state'[c].draining = state[c].draining

WorkerTo(w, c, l, r) ==
  /\ worker' \in [Workers -> WorkerStates]
  /\ worker'[w].at = l /\ worker'[w].call = c /\ worker'[w].result = r
  /\ \A u \in Workers \ {w} : worker'[u] = worker[u]

LEMMA GotoEffect ==
  ASSUME ThreadTypes, NEW w \in Workers, NEW l \in Busy, Goto(w, l)
  PROVE  WorkerTo(w, worker[w].call, l, worker[w].result)
  BY DEF ThreadTypes, WorkerStates, Goto, WorkerTo

LEMMA FinishWithEffect ==
  ASSUME ThreadTypes, NEW w \in Workers, NEW r \in Results, FinishWith(w, r)
  PROVE  WorkerTo(w, worker[w].call, "finish", r)
  BY DEF ThreadTypes, WorkerStates, FinishWith, WorkerTo, Busy

LEMMA EndWithEffect ==
  ASSUME ThreadTypes, NEW w \in Workers, NEW r \in Results, EndWith(w, r)
  PROVE  WorkerTo(w, worker[w].call, "end", r)
  BY DEF ThreadTypes, WorkerStates, EndWith, WorkerTo, Busy

LEMMA Onward ==
  ASSUME IInv, NEW w \in Workers, NEW c \in Calls, NEW l \in Busy, NEW r \in Results \cup {NoResult},
         Runs(w, c), UNCHANGED <<mainVars, jobs, done>>, WorkerTo(w, c, l, r),
         CallTypes', Len(state'[c].queue) <= QueueLimit, OthersSame(c), CallKept(c),
         SinkInv(c)', closes'[c] <= 1, RunInv(c, l, r)'
  PROVE  IInv'
  <1> USE DEF IInv
  <1> USE DEF mainVars
  <1>1. /\ worker'[w].at = l /\ worker'[w].call = c /\ worker'[w].result = r
        /\ \A u \in Workers \ {w} : worker'[u] = worker[u]
    BY DEF WorkerTo, TypeOK, ThreadTypes
  <1>2. \A u \in Workers, d \in Calls : Runs(u, d)' <=> Runs(u, d)
    BY <1>1 DEF Runs
  <1>3. TypeOK'
    <2>1. PoolTypes'
      BY DEF TypeOK, PoolTypes
    <2>2. ThreadTypes'
      BY <1>1 DEF TypeOK, ThreadTypes, WorkerTo, WorkerStates
    <2>3. \A d \in Calls : Len(state'[d].queue) <= QueueLimit
      BY DEF TypeOK, OthersSame
    <2>4. PlacedOnce'
      <3>1. \A d \in Calls : (Queued(d)' <=> Queued(d)) /\ (Done(d)' <=> Done(d))
        BY DEF Queued, Done
      <3>2. PlacedOnce
        BY DEF TypeOK
      <3> QED BY <1>2, <3>1, <3>2 DEF PlacedOnce
    <2> QED BY <2>1, <2>2, <2>3, <2>4 DEF TypeOK
  <1>4. MainInv'
    BY <1>1 DEF MainInv, TypeOK, ThreadTypes, MainStates, OthersSame, CallKept, Runs, Busy
  <1>5. ASSUME NEW d \in Calls \ {c} PROVE CallInv(d)'
    <2>1. \A u \in Workers : Runs(u, d) => worker'[u] = worker[u]
      BY <1>1 DEF Runs
    <2>2. SameFor(d)
      BY <1>2, <2>1 DEF SameFor, OthersSame, InHand, Queued, Done, DoneOk
    <2> QED BY <2>2, SameKeeps
  <1>6. CallInv(c)'
    <2>1. \A u \in Workers : Runs(u, c) => u = w
      BY DEF TypeOK, PlacedOnce
    <2>2. ~Queued(c) /\ ~Done(c) /\ Placed(c)
      BY DEF TypeOK, PlacedOnce, Placed
    <2>3. (Queued(c)' <=> Queued(c)) /\ (Done(c)' <=> Done(c))
      BY DEF Queued, Done
    <2>4. holder[c] # "none" /\ state[c].result = NoResult /\ (holder[c] = "gone" => state[c].cancelled)
      BY <2>2 DEF CallInv, ResultInv, Unsent
    <2>5. ResultInv(c)'
      BY <2>4 DEF ResultInv, CallKept
    <2>6. CloseInv(c)'
      BY <2>2, <2>3 DEF CloseInv
    <2>7. ASSUME NEW u \in Workers, Runs(u, c)' PROVE RunInv(c, worker[u].at, worker[u].result)'
      BY <1>1, <1>2, <2>1, <2>7
    <2> QED BY <1>2, <2>5, <2>6, <2>7 DEF CallInv
  <1> QED BY <1>3, <1>4, <1>5, <1>6

\* The same for a step that only moves the worker.
LEMMA OnlyMoves ==
  ASSUME IInv, NEW w \in Workers, NEW c \in Calls, NEW l \in Busy, NEW r \in Results \cup {NoResult},
         Runs(w, c), UNCHANGED <<mainVars, jobs, done, state, closes, seen>>, WorkerTo(w, c, l, r),
         RunInv(c, l, r)
  PROVE  IInv'
  <1>1. InHand(c)' = InHand(c)
    BY DEF InHand, mainVars
  <1>2. SinkInv(c)'
    <2>1. SinkInv(c)
      BY DEF IInv, CallInv
    <2> QED BY <2>1 DEF SinkInv, Whole, DoneOk, mainVars
  <1>3. RunInv(c, l, r)'
    BY ZenonT(40), <1>1 DEF RunInv, HandleInv, BodyInv, Flows, Whole
  <1>4. CallTypes' /\ Len(state'[c].queue) <= QueueLimit
    BY DEF IInv, TypeOK, CallTypes, mainVars
  <1>5. closes'[c] <= 1
    BY DEF IInv, CallInv, CloseInv
  <1>6. OthersSame(c) /\ CallKept(c)
    BY DEF OthersSame, CallKept
  <1> QED BY <1>2, <1>3, <1>4, <1>5, <1>6, Onward

\* The call a busy worker has, and what is known of it.
LEMMA Reached ==
  ASSUME IInv, NEW w \in Workers, worker[w].at \in Busy
  PROVE  \E c \in Calls, r \in Results \cup {NoResult} :
           /\ c = worker[w].call /\ r = worker[w].result /\ Runs(w, c)
           /\ RunInv(c, worker[w].at, r) /\ SinkInv(c) /\ closes[c] <= 1
           /\ ~Queued(c) /\ ~Done(c) /\ state[c] \in CallStates /\ state[c].result = NoResult
  <1> PICK c, r : c = worker[w].call /\ r = worker[w].result
    OBVIOUS
  <1>1. c \in Calls /\ r \in Results \cup {NoResult} /\ Runs(w, c)
    BY DEF IInv, TypeOK, ThreadTypes, WorkerStates, Runs
  <1>2. RunInv(c, worker[w].at, r) /\ SinkInv(c) /\ closes[c] <= 1
    BY <1>1 DEF IInv, CallInv, CloseInv
  <1>3. ~Queued(c) /\ ~Done(c)
    BY <1>1 DEF IInv, TypeOK, PlacedOnce
  <1>4. state[c] \in CallStates
    BY <1>1 DEF IInv, TypeOK, CallTypes
  <1>5. state[c].result = NoResult
    BY <1>1 DEF IInv, CallInv, ResultInv, Placed
  <1> QED BY <1>1, <1>2, <1>3, <1>4, <1>5

LEMMA AskCancelledStep ==
  ASSUME IInv, NEW w \in Workers, AskCancelled(w)
  PROVE  IInv'
  <1> PICK c \in Calls, r \in Results \cup {NoResult} :
         /\ c = worker[w].call /\ r = worker[w].result /\ Runs(w, c) /\ RunInv(c, "ask", r)
    BY Reached DEF AskCancelled, Busy
  <1>1. RunInv(c, "query", r) /\ RunInv(c, "end", "error")
    BY DEF RunInv, HandleInv, Early, Open, Late, Holding, Results
  <1>2. WorkerTo(w, c, "query", r) \/ WorkerTo(w, c, "end", "error")
    BY GotoEffect, EndWithEffect DEF AskCancelled, IInv, TypeOK, Busy, Results
  <1> QED BY <1>1, <1>2, OnlyMoves DEF AskCancelled, mainVars, Busy, Results

LEMMA QueryStep ==
  ASSUME IInv, NEW w \in Workers, Query(w)
  PROVE  IInv'
  <1> PICK c \in Calls, r \in Results \cup {NoResult} :
         /\ c = worker[w].call /\ r = worker[w].result /\ Runs(w, c) /\ RunInv(c, "query", r)
    BY Reached DEF Query, Busy
  <1>1. RunInv(c, "end", "error") /\ RunInv(c, "end", "ok")
    BY DEF RunInv, HandleInv, Early, Open, Late, Holding, Results
  <1>2. state[c].received < MaxChunks => RunInv(c, "read", r)
    BY DEF RunInv, HandleInv, Early, Open, Late, Holding, Results
  <1>3. \/ WorkerTo(w, c, "end", "error") \/ WorkerTo(w, c, "end", "ok")
        \/ state[c].received < MaxChunks /\ WorkerTo(w, c, "read", r)
    BY GotoEffect, EndWithEffect DEF Query, IInv, TypeOK, Busy, Results
  <1> QED BY <1>1, <1>2, <1>3, OnlyMoves DEF Query, mainVars, Busy, Results

\* What a step of a worker that changes only the call's state leaves alone.
LEMMA StateStep ==
  ASSUME IInv, NEW c \in Calls, NEW s \in CallStates, state' = [state EXCEPT ![c] = s],
         UNCHANGED <<mainVars, closes, seen>>
  PROVE  /\ CallTypes' /\ state'[c] = s /\ closes'[c] = closes[c] /\ seen'[c] = seen[c] /\ OthersSame(c)
         /\ holder'[c] = holder[c] /\ main' = main /\ InHand(c)' = InHand(c)
  <1>1. CallTypes
    BY DEF IInv, TypeOK
  <1> QED BY <1>1 DEF CallTypes, OthersSame, InHand, mainVars

\* The same when it closes the handle or shows the sink a chunk.
LEMMA CallStep ==
  ASSUME IInv, NEW c \in Calls, NEW s \in CallStates, state' = [state EXCEPT ![c] = s],
         closes' \in [Calls -> Nat], seen' \in [Calls -> Seq(Nat)],
         \A d \in Calls \ {c} : closes'[d] = closes[d] /\ seen'[d] = seen[d], UNCHANGED mainVars
  PROVE  /\ CallTypes' /\ state'[c] = s /\ OthersSame(c)
         /\ holder'[c] = holder[c] /\ main' = main /\ InHand(c)' = InHand(c)
  <1>1. state \in [Calls -> CallStates] /\ holder \in [Calls -> {"none", "held", "gone"}]
    BY DEF IInv, TypeOK, CallTypes
  <1> QED BY <1>1 DEF CallTypes, OthersSame, InHand, mainVars

\* The chunks of a call are counted by numbers.
LEMMA Lengths ==
  ASSUME TypeOK, NEW c \in Calls
  PROVE  Len(seen[c]) \in Nat /\ Len(InHand(c)) \in Nat /\ Len(state[c].queue) \in Nat /\ state[c].received \in Nat
  <1>1. seen[c] \in Seq(Nat) /\ state[c] \in CallStates
    BY DEF TypeOK, CallTypes
  <1>2. InHand(c) \in Seq(Nat)
    BY EmptySeq DEF TypeOK, ThreadTypes, MainStates, InHand
  <1>3. state[c].queue \in Seq(Nat) /\ state[c].received \in Nat
    BY <1>1, HttpAssumption DEF CallStates
  <1> QED BY <1>1, <1>2, <1>3, LenProperties

\* The parts of the invariant a step may leave as they are.
LEMMA SinkKept ==
  ASSUME NEW c \in Calls, SinkInv(c), ~Done(c), done' = done, main' = main, holder'[c] = holder[c],
         seen'[c] = seen[c], CallKept(c), state[c].result = NoResult,
         state'[c].queue # <<>> => Route[c] = "queued",
         state[c].cancelled /\ holder[c] = "gone" => ~state'[c].running
  PROVE  SinkInv(c)'
  <1>1. ~DoneOk(c)'
    BY DEF DoneOk, Done
  <1> QED BY <1>1 DEF SinkInv, CallKept, NoResult

\* Nothing of the body moved, but perhaps one more chunk was counted.
BodyStill(c) ==
  /\ seen'[c] = seen[c] /\ InHand(c)' = InHand(c) /\ state'[c].queue = state[c].queue
  /\ state[c].cancelled => state'[c].cancelled
  /\ state[c].failed => state'[c].failed

LEMMA BodyStays ==
  ASSUME NEW c \in Calls, NEW k, BodyInv(c, k), BodyStill(c), state'[c].received = state[c].received
  PROVE  BodyInv(c, k)'
  BY DEF BodyInv, Flows, BodyStill

LEMMA BodyGrows ==
  ASSUME TypeOK, NEW c \in Calls, BodyInv(c, 0), BodyStill(c), state'[c].received = state[c].received + 1
  PROVE  BodyInv(c, 1)'
  <1> PICK n \in Nat, h \in Nat, q \in Nat, m \in Nat :
         n = Len(seen[c]) /\ h = Len(InHand(c)) /\ q = Len(state[c].queue) /\ m = state[c].received
    BY Lengths
  <1>1. m = n + h + q + 0 => m + 1 = n + h + q + 1
    BY ONLY n \in Nat, h \in Nat, q \in Nat, m \in Nat
  <1>2. Flows(c, 0) => Flows(c, 1)'
    BY <1>1 DEF Flows, BodyStill
  <1>3. m = n + 0 => m + 1 = n + 1
    BY ONLY n \in Nat, m \in Nat
  <1> QED BY <1>2, <1>3 DEF BodyInv, BodyStill

LEMMA AcceptStep ==
  ASSUME IInv, NEW w \in Workers, Accept(w)
  PROVE  IInv'
  <1> PICK c \in Calls, r \in Results \cup {NoResult} :
         /\ c = worker[w].call /\ r = worker[w].result /\ Runs(w, c) /\ RunInv(c, "accept", r)
         /\ SinkInv(c) /\ closes[c] <= 1 /\ ~Done(c) /\ state[c] \in CallStates
         /\ state[c].result = NoResult
    BY Reached DEF Accept, Busy
  <1>1. CASE state[c].cancelled
    <2>1. RunInv(c, "end", "error")
      BY DEF RunInv, HandleInv, Early, Open, Late, Holding, Results
    <2>2. WorkerTo(w, c, "end", "error")
      BY <1>1, EndWithEffect DEF Accept, IInv, TypeOK, Busy, Results
    <2> QED BY <1>1, <2>1, <2>2, OnlyMoves DEF Accept, mainVars, Busy, Results
  <1>2. CASE ~state[c].cancelled
    <2> PICK l : l = IF Route[c] = "none" THEN "ask" ELSE Route[c]
      OBVIOUS
    <2> PICK s : s = [state[c] EXCEPT !.received = @ + 1]
      OBVIOUS
    <2>1. l \in {"ask", "worker", "queued"} /\ l \in Busy
      BY HttpAssumption DEF Busy
    <2>2. WorkerTo(w, c, l, r)
      BY <1>2, <2>1, GotoEffect DEF Accept, IInv, TypeOK
    <2>3. state' = [state EXCEPT ![c] = s] /\ UNCHANGED <<mainVars, jobs, done, closes, seen>>
      BY <1>2 DEF Accept
    <2>0. state[c].received + 1 \in 0 .. MaxChunks
      <3>1. state[c].received < MaxChunks /\ state[c].received \in 0 .. MaxChunks
        BY DEF RunInv, CallStates
      <3> QED BY <3>1, HttpAssumption
    <2>4. /\ s \in CallStates /\ s.received = state[c].received + 1
          /\ s.cancelled = state[c].cancelled /\ s.abort = state[c].abort /\ s.aborted = state[c].aborted
          /\ s.queue = state[c].queue /\ s.draining = state[c].draining /\ s.running = state[c].running
          /\ s.failed = state[c].failed /\ s.result = NoResult
      BY <2>0, HttpAssumption DEF CallStates
    <2>5. /\ CallTypes' /\ state'[c] = s /\ closes'[c] = closes[c] /\ seen'[c] = seen[c] /\ OthersSame(c)
          /\ holder'[c] = holder[c] /\ main' = main /\ InHand(c)' = InHand(c)
      BY <2>3, <2>4, StateStep
    <2>6. CallKept(c) /\ Len(s.queue) <= QueueLimit /\ SinkInv(c)'
      <3>1. CallKept(c) /\ Len(s.queue) <= QueueLimit
        BY <2>4, <2>5 DEF IInv, TypeOK, CallKept
      <3> QED BY <1>2, <2>3, <2>4, <2>5, <3>1, SinkKept DEF SinkInv
    <2>7. RunInv(c, l, r)'
      <3>1. (l \in Holding => BodyInv(c, 1)') /\ (l \notin Holding => BodyInv(c, 0)')
        <4>1. BodyInv(c, 0) /\ BodyStill(c) /\ state'[c].received = state[c].received + 1
          BY <2>4, <2>5 DEF RunInv, BodyStill, Holding
        <4>2. BodyInv(c, 1)'
          BY <4>1, BodyGrows DEF IInv
        <4>3. Route[c] = "none" => BodyInv(c, 0)'
          BY DEF BodyInv
        <4>4. l \notin Holding => Route[c] = "none"
          BY HttpAssumption DEF Holding
        <4> QED BY <4>2, <4>3, <4>4
      <3>2. HandleInv(c, l)'
        BY <2>1, <2>4, <2>5 DEF RunInv, HandleInv, Early, Open, Late
      <3>3. l = "worker" => Route[c] = "worker" /\ state'[c].received = Len(seen'[c]) + 1
        BY <1>2, <2>1, <2>4, <2>5 DEF RunInv, BodyInv, Holding
      <3> QED BY <2>1, <2>4, <2>5, <3>1, <3>2, <3>3, HttpAssumption DEF RunInv, Open, Late, Results
    <2> QED BY <2>1, <2>2, <2>3, <2>5, <2>6, <2>7, Onward
  <1> QED BY <1>1, <1>2

LEMMA ReadStep ==
  ASSUME IInv, NEW w \in Workers, Read(w)
  PROVE  IInv'
  <1> PICK c \in Calls, r \in Results \cup {NoResult} :
         /\ c = worker[w].call /\ r = worker[w].result /\ Runs(w, c) /\ RunInv(c, "read", r)
    BY Reached DEF Read, Busy
  <1>1. RunInv(c, "end", "error") /\ RunInv(c, "accept", r)
    BY DEF RunInv, HandleInv, Early, Open, Late, Holding, Results
  <1>2. WorkerTo(w, c, "end", "error") \/ WorkerTo(w, c, "accept", r)
    BY GotoEffect, EndWithEffect DEF Read, IInv, TypeOK, Busy, Results
  <1> QED BY <1>1, <1>2, OnlyMoves DEF Read, mainVars, Busy, Results

LEMMA EnterSinkStep ==
  ASSUME IInv, NEW w \in Workers, EnterSink(w)
  PROVE  IInv'
  <1> PICK c \in Calls, r \in Results \cup {NoResult} :
         /\ c = worker[w].call /\ r = worker[w].result /\ Runs(w, c) /\ RunInv(c, "worker", r)
         /\ SinkInv(c) /\ closes[c] <= 1 /\ ~Done(c) /\ state[c] \in CallStates
         /\ state[c].result = NoResult
    BY Reached DEF EnterSink, Busy
  <1>1. CASE state[c].cancelled
    <2>1. RunInv(c, "end", "error")
      BY <1>1 DEF RunInv, HandleInv, BodyInv, Early, Open, Late, Holding, Results
    <2>2. WorkerTo(w, c, "end", "error")
      BY <1>1, EndWithEffect DEF EnterSink, IInv, TypeOK, Busy, Results
    <2> QED BY <1>1, <2>1, <2>2, OnlyMoves DEF EnterSink, mainVars, Busy, Results
  <1>2. CASE ~state[c].cancelled
    <2> PICK s : s = [state[c] EXCEPT !.running = TRUE]
      OBVIOUS
    <2>1. WorkerTo(w, c, "sink", r)
      BY <1>2, GotoEffect DEF EnterSink, IInv, TypeOK, Busy
    <2>2. state' = [state EXCEPT ![c] = s] /\ UNCHANGED <<mainVars, jobs, done, closes, seen>>
      BY <1>2 DEF EnterSink
    <2>3. /\ s \in CallStates /\ s.received = state[c].received
          /\ s.cancelled = state[c].cancelled /\ s.abort = state[c].abort /\ s.aborted = state[c].aborted
          /\ s.queue = state[c].queue /\ s.draining = state[c].draining /\ s.running
          /\ s.failed = state[c].failed /\ s.result = NoResult
      BY DEF CallStates
    <2>4. /\ CallTypes' /\ state'[c] = s /\ closes'[c] = closes[c] /\ seen'[c] = seen[c] /\ OthersSame(c)
          /\ holder'[c] = holder[c] /\ main' = main /\ InHand(c)' = InHand(c)
      BY <2>2, <2>3, StateStep
    <2>5. CallKept(c) /\ Len(s.queue) <= QueueLimit /\ SinkInv(c)'
      <3>1. CallKept(c) /\ Len(s.queue) <= QueueLimit
        BY <2>3, <2>4 DEF IInv, TypeOK, CallKept
      <3> QED BY <1>2, <2>2, <2>3, <2>4, <3>1, SinkKept DEF SinkInv
    <2>6. RunInv(c, "sink", r)'
      <3>1. BodyInv(c, 1)'
        BY <2>3, <2>4, BodyStays DEF RunInv, BodyStill, Holding
      <3>2. HandleInv(c, "sink")'
        BY <2>3, <2>4 DEF RunInv, HandleInv, Early, Open, Late
      <3> QED BY <2>3, <2>4, <3>1, <3>2 DEF RunInv, Holding, Open, Late, Results
    <2> QED BY <2>1, <2>2, <2>4, <2>5, <2>6, Onward DEF Busy
  <1> QED BY <1>1, <1>2

LEMMA BeginTransferStep ==
  ASSUME IInv, NEW w \in Workers, BeginTransfer(w)
  PROVE  IInv'
  <1> PICK c \in Calls, r \in Results \cup {NoResult} :
         /\ c = worker[w].call /\ r = worker[w].result /\ Runs(w, c) /\ RunInv(c, "begin", r)
         /\ SinkInv(c) /\ closes[c] <= 1 /\ ~Done(c) /\ state[c] \in CallStates
         /\ state[c].result = NoResult
    BY Reached DEF BeginTransfer, Busy
  <1>0. CASE FinishWith(w, "unopened") /\ UNCHANGED <<state, closes>>
    <2>1. WorkerTo(w, c, "finish", "unopened")
      BY <1>0, FinishWithEffect DEF IInv, TypeOK, Results
    <2>2. RunInv(c, "finish", "unopened")
      BY DEF RunInv, HandleInv, Early, Open, Late, Holding, Results
    <2> QED BY <1>0, <2>1, <2>2, OnlyMoves DEF BeginTransfer, mainVars, Busy, Results
  <1>1. CASE /\ state[c].cancelled /\ FinishWith(w, "error")
             /\ closes' = [closes EXCEPT ![c] = @ + 1] /\ UNCHANGED state
    <2>1. WorkerTo(w, c, "finish", "error")
      BY <1>1, FinishWithEffect DEF IInv, TypeOK, Results
    <2>2. /\ closes' = [closes EXCEPT ![c] = @ + 1]
          /\ UNCHANGED <<mainVars, jobs, done, state, seen>>
      BY <1>1 DEF BeginTransfer
    <2>3. closes[c] = 0 /\ ~state[c].abort
      BY DEF RunInv, HandleInv, Early
    <2>4. CallTypes' /\ OthersSame(c) /\ closes'[c] = 1
      BY <2>2, <2>3 DEF IInv, TypeOK, CallTypes, OthersSame, mainVars
    <2>5. CallKept(c) /\ Len(state'[c].queue) <= QueueLimit /\ SinkInv(c)'
      <3>1. CallKept(c) /\ Len(state'[c].queue) <= QueueLimit
        BY <2>2 DEF IInv, TypeOK, CallKept
      <3> QED BY <2>2, <3>1, SinkKept DEF SinkInv, mainVars
    <2>6. RunInv(c, "finish", "error")'
      <3>1. BodyInv(c, 0)'
        BY <2>2, BodyStays DEF RunInv, BodyStill, Holding, InHand, mainVars
      <3>2. HandleInv(c, "finish")'
        BY <2>2, <2>3, <2>4 DEF HandleInv, Early, Open
      <3> QED BY <2>2, <2>4, <3>1, <3>2 DEF RunInv, Holding, Open, Results
    <2> QED BY <2>1, <2>2, <2>4, <2>5, <2>6, Onward DEF Busy, Results
  <1>2. CASE /\ ~state[c].cancelled /\ worker' = [worker EXCEPT ![w].at = "ask", ![w].result = "error"]
             /\ state' = [state EXCEPT ![c].abort = TRUE] /\ UNCHANGED closes
    <2> PICK s : s = [state[c] EXCEPT !.abort = TRUE]
      OBVIOUS
    <2>1. WorkerTo(w, c, "ask", "error")
      BY <1>2 DEF IInv, TypeOK, ThreadTypes, WorkerStates, WorkerTo, Busy, Results
    <2>2. state' = [state EXCEPT ![c] = s] /\ UNCHANGED <<mainVars, jobs, done, closes, seen>>
      BY <1>2 DEF BeginTransfer
    <2>3. /\ s \in CallStates /\ s.received = state[c].received
          /\ s.cancelled = state[c].cancelled /\ s.abort /\ s.aborted = state[c].aborted
          /\ s.queue = state[c].queue /\ s.draining = state[c].draining /\ s.running = state[c].running
          /\ s.failed = state[c].failed /\ s.result = NoResult
      BY DEF CallStates
    <2>4. /\ CallTypes' /\ state'[c] = s /\ closes'[c] = closes[c] /\ seen'[c] = seen[c] /\ OthersSame(c)
          /\ holder'[c] = holder[c] /\ main' = main /\ InHand(c)' = InHand(c)
      BY <2>2, <2>3, StateStep
    <2>5. CallKept(c) /\ Len(s.queue) <= QueueLimit /\ SinkInv(c)'
      <3>1. CallKept(c) /\ Len(s.queue) <= QueueLimit
        BY <2>3, <2>4 DEF IInv, TypeOK, CallKept
      <3> QED BY <1>2, <2>2, <2>3, <2>4, <3>1, SinkKept DEF SinkInv
    <2>6. RunInv(c, "ask", "error")'
      <3>1. BodyInv(c, 0)'
        BY <2>3, <2>4, BodyStays DEF RunInv, BodyStill, Holding
      <3>2. HandleInv(c, "ask")'
        BY <2>3, <2>4 DEF RunInv, HandleInv, Early, Open, Late
      <3> QED BY <2>3, <2>4, <3>1, <3>2 DEF RunInv, Holding, Late, Results
    <2> QED BY <2>1, <2>2, <2>4, <2>5, <2>6, Onward DEF Busy, Results
  <1> QED BY <1>0, <1>1, <1>2 DEF BeginTransfer

LEMMA EndTransferStep ==
  ASSUME IInv, NEW w \in Workers, EndTransfer(w)
  PROVE  IInv'
  <1> PICK c \in Calls, r \in Results \cup {NoResult} :
         /\ c = worker[w].call /\ r = worker[w].result /\ Runs(w, c) /\ RunInv(c, "end", r)
         /\ SinkInv(c) /\ closes[c] <= 1 /\ ~Done(c) /\ state[c] \in CallStates
         /\ state[c].result = NoResult
    BY Reached DEF EndTransfer, Busy
  <1> PICK s : s = [state[c] EXCEPT !.abort = FALSE]
    OBVIOUS
  <1>1. WorkerTo(w, c, "finish", r)
    BY GotoEffect DEF EndTransfer, IInv, TypeOK, Busy
  <1>2. /\ state' = [state EXCEPT ![c] = s]
        /\ closes' = [closes EXCEPT ![c] = @ + (IF state[c].aborted THEN 0 ELSE 1)]
        /\ UNCHANGED <<mainVars, jobs, done, seen>>
    BY DEF EndTransfer
  <1>3. /\ s \in CallStates /\ s.received = state[c].received
        /\ s.cancelled = state[c].cancelled /\ ~s.abort /\ s.aborted = state[c].aborted
        /\ s.queue = state[c].queue /\ s.draining = state[c].draining /\ s.running = state[c].running
        /\ s.failed = state[c].failed /\ s.result = NoResult
    BY DEF CallStates
  <1>4. closes[c] = IF state[c].aborted THEN 1 ELSE 0
    BY DEF RunInv, HandleInv, Open
  <1>5. /\ CallTypes' /\ state'[c] = s /\ closes'[c] = 1 /\ seen'[c] = seen[c] /\ OthersSame(c)
        /\ holder'[c] = holder[c] /\ main' = main /\ InHand(c)' = InHand(c)
    <2>1. closes' = [closes EXCEPT ![c] = 1]
      BY <1>2, <1>4 DEF IInv, TypeOK, CallTypes
    <2>2. closes \in [Calls -> Nat] /\ seen \in [Calls -> Seq(Nat)]
      BY DEF IInv, TypeOK, CallTypes
    <2>3. /\ closes' \in [Calls -> Nat] /\ seen' \in [Calls -> Seq(Nat)] /\ closes'[c] = 1 /\ seen'[c] = seen[c]
          /\ \A d \in Calls \ {c} : closes'[d] = closes[d] /\ seen'[d] = seen[d]
      BY <1>2, <2>1, <2>2
    <2>4. state' = [state EXCEPT ![c] = s] /\ s \in CallStates /\ mainVars' = mainVars
      BY <1>2, <1>3
    <2>5. /\ CallTypes' /\ state'[c] = s /\ OthersSame(c)
          /\ holder'[c] = holder[c] /\ main' = main /\ InHand(c)' = InHand(c)
      BY ONLY IInv, c \in Calls, <2>3, <2>4, CallStep
    <2> QED BY <2>3, <2>5
  <1>6. CallKept(c) /\ Len(s.queue) <= QueueLimit /\ SinkInv(c)'
    <2>1. CallKept(c) /\ Len(s.queue) <= QueueLimit
      BY <1>3, <1>5 DEF IInv, TypeOK, CallKept
    <2> QED BY <1>2, <1>3, <1>5, <2>1, SinkKept DEF SinkInv
  <1>7. RunInv(c, "finish", r)'
    <2>1. BodyInv(c, 0)'
      BY <1>3, <1>5, BodyStays DEF RunInv, BodyStill, Holding
    <2>2. HandleInv(c, "finish")'
      BY <1>3, <1>5 DEF HandleInv, Early, Open
    <2> QED BY <1>3, <1>5, <2>1, <2>2 DEF RunInv, Holding, Open, Late, Results
  <1> QED BY <1>1, <1>2, <1>5, <1>6, <1>7, Onward DEF Busy

\* The sink on the worker saw one more chunk, the one that was counted last.
LEMMA LeaveSinkStep ==
  ASSUME IInv, NEW w \in Workers, LeaveSink(w)
  PROVE  IInv'
  <1> PICK c \in Calls, r \in Results \cup {NoResult} :
         /\ c = worker[w].call /\ r = worker[w].result /\ Runs(w, c) /\ RunInv(c, "sink", r)
         /\ SinkInv(c) /\ closes[c] <= 1 /\ ~Done(c) /\ state[c] \in CallStates
         /\ state[c].result = NoResult
    BY Reached DEF LeaveSink, Busy
  <1> PICK keep_going \in BOOLEAN :
         /\ state' = [state EXCEPT ![c].failed = ~keep_going, ![c].running = FALSE]
         /\ IF keep_going THEN Goto(w, "ask") ELSE EndWith(w, "aborted")
    BY DEF LeaveSink
  <1> PICK s, q : /\ s = [state[c] EXCEPT !.failed = ~keep_going, !.running = FALSE]
                  /\ q = Append(seen[c], state[c].received)
    OBVIOUS
  <1>1. WorkerTo(w, c, "ask", r) \/ WorkerTo(w, c, "end", "aborted")
    BY GotoEffect, EndWithEffect DEF LeaveSink, IInv, TypeOK, Busy, Results
  <1>2. seen' = [seen EXCEPT ![c] = q] /\ UNCHANGED <<mainVars, jobs, done, closes>>
    BY DEF LeaveSink
  <1>3. /\ s \in CallStates /\ s.received = state[c].received
        /\ s.cancelled = state[c].cancelled /\ s.abort = state[c].abort /\ s.aborted = state[c].aborted
        /\ s.queue = state[c].queue /\ s.draining = state[c].draining /\ ~s.running
        /\ s.result = NoResult
    BY DEF CallStates
  <1>4. state \in [Calls -> CallStates] /\ seen \in [Calls -> Seq(Nat)]
    BY DEF IInv, TypeOK, CallTypes
  <1>5. Route[c] = "worker" /\ state[c].received = Len(seen[c]) + 1 /\ Len(seen[c]) \in Nat
    BY Lengths DEF RunInv, IInv
  <1>6. q \in Seq(Nat) /\ Len(q) = Len(seen[c]) + 1 /\ \A k \in 1 .. Len(q) : q[k] = k
    <2>1. \A k \in 1 .. Len(seen[c]) : seen[c][k] = k
      BY DEF SinkInv
    <2>2. /\ q \in Seq(Nat) /\ Len(q) = Len(seen[c]) + 1 /\ q[Len(seen[c]) + 1] = Len(seen[c]) + 1
          /\ \A k \in 1 .. Len(seen[c]) : q[k] = seen[c][k]
      BY <1>4, <1>5, AppendProperties
    <2> QED BY <1>5, <2>1, <2>2
  <1>7. state' = [state EXCEPT ![c] = s]
    BY <1>4
  <1>8. /\ CallTypes' /\ state'[c] = s /\ closes'[c] = closes[c] /\ seen'[c] = q /\ OthersSame(c)
        /\ holder'[c] = holder[c] /\ main' = main
    <2>1. closes \in [Calls -> Nat]
      BY DEF IInv, TypeOK, CallTypes
    <2>2. /\ closes' \in [Calls -> Nat] /\ seen' \in [Calls -> Seq(Nat)]
          /\ closes'[c] = closes[c] /\ seen'[c] = q
          /\ \A d \in Calls \ {c} : closes'[d] = closes[d] /\ seen'[d] = seen[d]
      BY <1>2, <1>4, <1>6, <2>1
    <2>3. state' = [state EXCEPT ![c] = s] /\ s \in CallStates /\ mainVars' = mainVars
      BY <1>2, <1>3, <1>7
    <2>4. CallTypes' /\ state'[c] = s /\ OthersSame(c) /\ holder'[c] = holder[c] /\ main' = main
      BY ONLY IInv, c \in Calls, <2>2, <2>3, CallStep
    <2> QED BY <2>2, <2>4
  <1>9. CallKept(c) /\ Len(s.queue) <= QueueLimit
    BY <1>3, <1>8 DEF IInv, TypeOK, CallKept
  <1>10. SinkInv(c)'
    <2>1. ~DoneOk(c)'
      BY <1>2 DEF DoneOk, Done
    <2> QED BY <1>3, <1>6, <1>8, <2>1 DEF SinkInv, NoResult
  <1>11. BodyInv(c, 0)'
    <2> PICK n \in Nat : n = Len(seen[c])
      BY <1>5
    <2>1. state'[c].received = n + 1 /\ Len(seen'[c]) = n + 1
      BY <1>3, <1>5, <1>6, <1>8
    <2>2. n + 1 = (n + 1) + 0
      BY ONLY n \in Nat
    <2> QED BY <1>5, <2>1, <2>2 DEF BodyInv
  <1>12. RunInv(c, "ask", r)' /\ RunInv(c, "end", "aborted")'
    <2>1. HandleInv(c, "ask")' /\ HandleInv(c, "end")'
      BY <1>3, <1>8 DEF RunInv, HandleInv, Early, Open, Late
    <2> QED BY <1>3, <1>8, <1>11, <2>1 DEF RunInv, Holding, Open, Late, Results
  <1> QED BY <1>1, <1>2, <1>7, <1>8, <1>9, <1>10, <1>12, Onward DEF Busy, Results

\* The chunk the worker held is the last of the queue now.
LEMMA EnqueueStep ==
  ASSUME IInv, NEW w \in Workers, Enqueue(w)
  PROVE  IInv'
  <1> PICK c \in Calls, r \in Results \cup {NoResult} :
         /\ c = worker[w].call /\ r = worker[w].result /\ Runs(w, c) /\ RunInv(c, "queued", r)
         /\ SinkInv(c) /\ closes[c] <= 1 /\ ~Done(c) /\ state[c] \in CallStates
         /\ state[c].result = NoResult
    BY Reached DEF Enqueue, Busy
  <1>0. Route[c] = "queued"
    BY DEF RunInv
  <1>1. CASE state[c].cancelled \/ state[c].failed
    <2>1. RunInv(c, "end", "error") /\ RunInv(c, "end", "aborted")
      <3>1. BodyInv(c, 0)
        BY <1>0, <1>1 DEF BodyInv
      <3> QED BY <1>1, <3>1 DEF RunInv, HandleInv, Early, Open, Late, Holding, Results
    <2>2. WorkerTo(w, c, "end", "error") \/ WorkerTo(w, c, "end", "aborted")
      BY <1>1, EndWithEffect DEF Enqueue, IInv, TypeOK, Busy, Results
    <2> QED BY <1>1, <2>1, <2>2, OnlyMoves DEF Enqueue, mainVars, Busy, Results
  <1>2. CASE ~state[c].cancelled /\ ~state[c].failed
    <2> PICK s, q : s = [state[c] EXCEPT !.queue = q] /\ q = Append(state[c].queue, state[c].received)
      OBVIOUS
    <2>1. WorkerTo(w, c, "ask", r)
      BY <1>2, GotoEffect DEF Enqueue, IInv, TypeOK, Busy
    <2>2. /\ state' = [state EXCEPT ![c] = s] /\ UNCHANGED <<mainVars, jobs, done, closes, seen>>
          /\ Len(state[c].queue) < QueueLimit
      BY <1>2 DEF Enqueue, Room
    <2>3. /\ state[c].queue \in Seq(Nat) /\ state[c].received \in Nat /\ Len(state[c].queue) \in Nat
          /\ Len(seen[c]) \in Nat /\ Len(InHand(c)) \in Nat
      BY Lengths DEF IInv, CallStates
    <2>4. /\ q \in Seq(Nat) /\ Len(q) = Len(state[c].queue) + 1
          /\ q[Len(state[c].queue) + 1] = state[c].received
          /\ \A k \in 1 .. Len(state[c].queue) : q[k] = state[c].queue[k]
      <3>1. q = Append(state[c].queue, state[c].received)
        OBVIOUS
      <3> QED BY ONLY <2>3, <3>1, AppendProperties
    <2>5. /\ s \in CallStates /\ s.received = state[c].received
          /\ s.cancelled = state[c].cancelled /\ s.abort = state[c].abort /\ s.aborted = state[c].aborted
          /\ s.queue = q /\ s.draining = state[c].draining /\ s.running = state[c].running
          /\ s.failed = state[c].failed /\ s.result = NoResult
      BY <2>4 DEF CallStates
    <2>6. /\ CallTypes' /\ state'[c] = s /\ closes'[c] = closes[c] /\ seen'[c] = seen[c] /\ OthersSame(c)
          /\ holder'[c] = holder[c] /\ main' = main /\ InHand(c)' = InHand(c)
      BY <2>2, <2>5, StateStep
    <2>7. CallKept(c) /\ Len(s.queue) <= QueueLimit /\ SinkInv(c)'
      <3>1. CallKept(c) /\ Len(s.queue) <= QueueLimit
        <4> PICK m \in Nat : m = Len(state[c].queue)
          BY <2>3
        <4>1. m < QueueLimit => m + 1 <= QueueLimit
          BY ONLY m \in Nat, HttpAssumption
        <4> QED BY <2>2, <2>4, <2>5, <2>6, <4>1 DEF CallKept
      <3> QED BY <1>0, <1>2, <2>2, <2>5, <2>6, <3>1, SinkKept
    <2>8. Flows(c, 0)'
      <3> PICK n \in Nat, h \in Nat, m \in Nat, x \in Nat :
             n = Len(seen[c]) /\ h = Len(InHand(c)) /\ m = Len(state[c].queue) /\ x = state[c].received
        BY <2>3
      <3>1. Flows(c, 1)
        BY <1>0, <1>2 DEF RunInv, BodyInv, Holding
      <3>2. x = n + h + m + 1
        BY <3>1 DEF Flows
      <3>3. x = n + h + (m + 1) /\ x = n + h + (m + 1) + 0
        BY ONLY <3>2, n \in Nat, h \in Nat, m \in Nat, x \in Nat
      <3>4. \A k \in 1 .. m : q[k] = n + h + k
        BY <2>4, <3>1 DEF Flows
      <3>5. \A k \in 1 .. m + 1 : k \in 1 .. m \/ k = m + 1
        BY ONLY m \in Nat
      <3>6. q[m + 1] = n + h + (m + 1)
        BY <2>4, <3>3
      <3>7. \A k \in 1 .. m + 1 : q[k] = n + h + k
        BY ONLY <3>4, <3>5, <3>6
      <3>8. /\ seen'[c] = seen[c] /\ InHand(c)' = InHand(c) /\ state'[c].queue = q
            /\ state'[c].received = x /\ Len(q) = m + 1
        BY <2>4, <2>5, <2>6
      <3>9. \A k \in 1 .. h : InHand(c)[k] = n + k
        BY <3>1 DEF Flows
      <3> QED BY ONLY <3>3, <3>7, <3>8, <3>9, n = Len(seen[c]), h = Len(InHand(c)) DEF Flows
    <2>9. RunInv(c, "ask", r)'
      <3>1. BodyInv(c, 0)'
        BY <1>0, <2>8 DEF BodyInv
      <3>2. HandleInv(c, "ask")'
        BY <2>5, <2>6 DEF RunInv, HandleInv, Early, Open, Late
      <3> QED BY <2>5, <2>6, <3>1, <3>2 DEF RunInv, Holding, Open, Late, Results
    <2> QED BY <2>1, <2>2, <2>5, <2>6, <2>7, <2>9, Onward DEF Busy
  <1> QED BY <1>1, <1>2

\* The result "ok" is kept only if the sink saw all of the body and took it.
LEMMA FinishSinkStep ==
  ASSUME IInv, NEW w \in Workers, FinishSink(w)
  PROVE  IInv'
  <1> PICK c \in Calls, r \in Results \cup {NoResult} :
         /\ c = worker[w].call /\ r = worker[w].result /\ Runs(w, c) /\ RunInv(c, "finish", r)
         /\ SinkInv(c) /\ state[c] \in CallStates
    BY Reached DEF FinishSink, Busy
  <1> PICK r2 : r2 = IF r = "ok" /\ state[c].failed THEN "aborted" ELSE r
    OBVIOUS
  <1>1. r2 \in Results \cup {NoResult} /\ (r2 = "ok" => ~state[c].failed)
    BY DEF Results
  <1>2. WorkerTo(w, c, "push", r2)
    BY <1>1 DEF FinishSink, IInv, TypeOK, ThreadTypes, WorkerStates, WorkerTo, Busy
  <1>3. BodyInv(c, 0)
    BY DEF RunInv, Holding
  <1>4. r2 = "ok" => state[c].cancelled \/ Whole(c)
    <2> SUFFICES ASSUME r2 = "ok", ~state[c].cancelled, Route[c] # "none"
                 PROVE  /\ Len(seen[c]) = state[c].received /\ ~state[c].failed
                        /\ state[c].queue = <<>> /\ ~state[c].draining
      BY DEF Whole
    <2>1. CASE Route[c] = "worker"
      <3>1. state[c].queue = <<>> /\ ~state[c].draining
        BY <2>1 DEF SinkInv, IInv, MainInv
      <3>2. state[c].received = Len(seen[c]) + 0 /\ Len(seen[c]) \in Nat
        BY <1>3, <2>1, Lengths DEF BodyInv, IInv
      <3> QED BY <1>1, <3>1, <3>2
    <2>2. CASE Route[c] = "queued"
      <3>1. state[c].queue = <<>> /\ ~state[c].draining
        BY <1>1, <2>2 DEF FinishSink, SinkFinished
      <3>2. InHand(c) = <<>> /\ Len(<<>>) = 0
        BY <3>1 DEF SinkInv, InHand
      <3>3. state[c].received = Len(seen[c]) + 0 + 0 + 0 /\ Len(seen[c]) \in Nat
        BY <1>1, <1>3, <2>2, <3>1, <3>2, Lengths DEF BodyInv, Flows, IInv
      <3> QED BY <1>1, <3>1, <3>3
    <2> QED BY <2>1, <2>2, HttpAssumption
  <1>5. RunInv(c, "push", r2)
    BY <1>3, <1>4 DEF RunInv, HandleInv, Early, Open, Late, Holding, Results
  <1> QED BY <1>1, <1>2, <1>5, OnlyMoves DEF FinishSink, mainVars, Busy

--------------------------------------------------------------------------------
(* A worker that leaves its call, with its result or without.                   *)

\* The sequences of the pool: what Append, Tail and Head do to the calls in them.
LEMMA AppendDone ==
  ASSUME NEW c \in Calls, NEW r \in Results, done \in Seq([call : Calls, result : Results]),
         done' = Append(done, [call |-> c, result |-> r])
  PROVE  /\ done' \in Seq([call : Calls, result : Results])
         /\ \A d : Done(d)' <=> Done(d) \/ d = c
         /\ \A d : DoneOk(d)' <=> DoneOk(d) \/ (d = c /\ r = "ok")
         /\ (\A i, j \in DOMAIN done : done[i].call = done[j].call => i = j) /\ ~Done(c) =>
              \A i, j \in DOMAIN done' : done'[i].call = done'[j].call => i = j
  <1> PICK n \in Nat, e \in [call : Calls, result : Results] :
         n = Len(done) /\ e = [call |-> c, result |-> r]
    BY LenProperties
  <1>1. e.call = c /\ e.result = r
    OBVIOUS
  <1>2. /\ done' \in Seq([call : Calls, result : Results]) /\ Len(done') = n + 1 /\ done'[n + 1] = e
        /\ \A k \in 1 .. n : done'[k] = done[k]
    BY AppendProperties
  <1>3. DOMAIN done = 1 .. n /\ DOMAIN done' = 1 .. n + 1
    BY <1>2, LenProperties
  <1>4. /\ \A k \in 1 .. n + 1 : k \in 1 .. n \/ k = n + 1
        /\ n + 1 \in 1 .. n + 1 /\ \A k \in 1 .. n : k \in 1 .. n + 1
    BY ONLY n \in Nat
  <1>5. \A d : Done(d)' <=> Done(d) \/ d = c
    BY <1>1, <1>2, <1>3, <1>4 DEF Done
  <1>6. \A d : DoneOk(d)' <=> DoneOk(d) \/ (d = c /\ r = "ok")
    <2> SUFFICES ASSUME NEW d PROVE DoneOk(d)' <=> DoneOk(d) \/ (d = c /\ r = "ok")
      OBVIOUS
    <2>1. ASSUME NEW k \in 1 .. n PROVE done'[k] = done[k] /\ k \in DOMAIN done' /\ k \in DOMAIN done
      BY <1>2, <1>3, <1>4
    <2>2. DoneOk(d) => DoneOk(d)'
      BY <1>3, <2>1 DEF DoneOk
    <2>3. d = c /\ r = "ok" => DoneOk(d)'
      BY <1>1, <1>2, <1>3, <1>4 DEF DoneOk
    <2>4. ASSUME DoneOk(d)' PROVE DoneOk(d) \/ (d = c /\ r = "ok")
      <3>1. PICK k \in 1 .. n + 1 : done'[k].call = d /\ done'[k].result = "ok"
        BY <1>3, <2>4 DEF DoneOk
      <3>2. CASE k \in 1 .. n
        <4>1. done[k].call = d /\ done[k].result = "ok" /\ k \in DOMAIN done
          BY <2>1, <3>1, <3>2
        <4>2. \E m \in DOMAIN done : done[m].call = d /\ done[m].result = "ok"
          BY <4>1
        <4> QED BY <4>2 DEF DoneOk
      <3>3. CASE k = n + 1
        BY <1>1, <1>2, <3>1, <3>3
      <3> QED BY <1>4, <3>2, <3>3
    <2> QED BY <2>2, <2>3, <2>4
  <1>7. ASSUME \A i, j \in DOMAIN done : done[i].call = done[j].call => i = j, ~Done(c)
        PROVE  \A i, j \in DOMAIN done' : done'[i].call = done'[j].call => i = j
    BY <1>1, <1>2, <1>3, <1>4, <1>7 DEF Done
  <1> QED BY <1>2, <1>5, <1>6, <1>7

LEMMA AppendJobs ==
  ASSUME NEW c \in Calls, jobs \in Seq(Calls), jobs' = Append(jobs, c)
  PROVE  /\ jobs' \in Seq(Calls)
         /\ \A d : Queued(d)' <=> Queued(d) \/ d = c
         /\ (\A i, j \in DOMAIN jobs : jobs[i] = jobs[j] => i = j) /\ ~Queued(c) =>
              \A i, j \in DOMAIN jobs' : jobs'[i] = jobs'[j] => i = j
  <1> PICK n \in Nat : n = Len(jobs)
    BY LenProperties
  <1>1. /\ jobs' \in Seq(Calls) /\ Len(jobs') = n + 1 /\ jobs'[n + 1] = c
        /\ \A k \in 1 .. n : jobs'[k] = jobs[k]
    BY AppendProperties
  <1>2. DOMAIN jobs = 1 .. n /\ DOMAIN jobs' = 1 .. n + 1
    BY <1>1, LenProperties
  <1>3. /\ \A k \in 1 .. n + 1 : k \in 1 .. n \/ k = n + 1
        /\ n + 1 \in 1 .. n + 1 /\ \A k \in 1 .. n : k \in 1 .. n + 1
    BY ONLY n \in Nat
  <1>4. \A d : Queued(d)' <=> Queued(d) \/ d = c
    BY <1>1, <1>2, <1>3 DEF Queued
  <1>5. ASSUME \A i, j \in DOMAIN jobs : jobs[i] = jobs[j] => i = j, ~Queued(c)
        PROVE  \A i, j \in DOMAIN jobs' : jobs'[i] = jobs'[j] => i = j
    BY <1>1, <1>2, <1>3, <1>5 DEF Queued
  <1> QED BY <1>1, <1>4, <1>5

LEMMA TailJobs ==
  ASSUME jobs \in Seq(Calls), jobs # <<>>, jobs' = Tail(jobs),
         \A i, j \in DOMAIN jobs : jobs[i] = jobs[j] => i = j
  PROVE  /\ jobs' \in Seq(Calls) /\ Head(jobs) \in Calls /\ Queued(Head(jobs))
         /\ \A d : Queued(d)' <=> Queued(d) /\ d # Head(jobs)
         /\ \A i, j \in DOMAIN jobs' : jobs'[i] = jobs'[j] => i = j
  <1> PICK n \in Nat : n = Len(jobs)
    BY LenProperties
  <1>1. /\ jobs' \in Seq(Calls) /\ Len(jobs') = n - 1 /\ n >= 1 /\ Head(jobs) = jobs[1]
        /\ \A k \in 1 .. n - 1 : jobs'[k] = jobs[k + 1]
    BY HeadTailProperties, LenProperties, EmptySeq
  <1>2. DOMAIN jobs = 1 .. n /\ DOMAIN jobs' = 1 .. n - 1
    BY <1>1, LenProperties
  <1>3. /\ \A k \in 1 .. n : k = 1 \/ (k - 1 \in 1 .. n - 1 /\ (k - 1) + 1 = k)
        /\ 1 \in 1 .. n /\ \A k \in 1 .. n - 1 : k + 1 \in 1 .. n /\ k + 1 # 1
        /\ \A i, j \in 1 .. n - 1 : i + 1 = j + 1 => i = j
    BY <1>1
  <1>4. \A d : Queued(d)' <=> Queued(d) /\ d # Head(jobs)
    <2> SUFFICES ASSUME NEW d PROVE Queued(d)' <=> Queued(d) /\ d # Head(jobs)
      OBVIOUS
    <2>1. ASSUME Queued(d)' PROVE Queued(d) /\ d # Head(jobs)
      <3>1. PICK k \in 1 .. n - 1 : jobs'[k] = d
        BY <1>2, <2>1 DEF Queued
      <3>2. jobs[k + 1] = d /\ k + 1 \in DOMAIN jobs /\ k + 1 # 1 /\ 1 \in DOMAIN jobs
        BY <1>1, <1>2, <1>3, <3>1
      <3> QED BY <1>1, <3>2 DEF Queued
    <2>2. ASSUME Queued(d), d # Head(jobs) PROVE Queued(d)'
      <3>1. PICK k \in 1 .. n : jobs[k] = d
        BY <1>2, <2>2 DEF Queued
      <3>2. k - 1 \in 1 .. n - 1 /\ (k - 1) + 1 = k
        BY <1>1, <1>3, <2>2, <3>1
      <3>3. jobs'[k - 1] = d
        BY <1>1, <3>1, <3>2
      <3> QED BY <1>2, <3>2, <3>3 DEF Queued
    <2> QED BY <2>1, <2>2
  <1>5. \A i, j \in DOMAIN jobs' : jobs'[i] = jobs'[j] => i = j
    BY <1>1, <1>2, <1>3
  <1>6. Queued(Head(jobs)) /\ Head(jobs) \in Calls
    BY <1>1, <1>2, <1>3, ElementOfSeq DEF Queued
  <1> QED BY <1>1, <1>4, <1>5, <1>6

LEMMA Leaves ==
  ASSUME IInv, NEW w \in Workers, NEW c \in Calls, NEW r \in Results,
         Runs(w, c), worker' = [worker EXCEPT ![w] = At("idle")],
         UNCHANGED <<mainVars, jobs, state, closes, seen>>,
         done' = done \/ (done' = Append(done, [call |-> c, result |-> r]) /\ (r = "ok" => state[c].cancelled \/ Whole(c))),
         AwayInv(c)
  PROVE  IInv'
  <1> USE DEF IInv
  <1>1. /\ worker' \in [Workers -> WorkerStates] /\ worker'[w].at = "idle"
        /\ \A u \in Workers \ {w} : worker'[u] = worker[u]
    BY DEF At, TypeOK, ThreadTypes, WorkerStates
  <1>2. \A u \in Workers, d \in Calls : Runs(u, d)' <=> Runs(u, d) /\ u # w
    BY <1>1 DEF Runs, Busy
  <1>3. /\ \A u \in Workers : Runs(u, c) => u = w
        /\ ~Queued(c) /\ ~Done(c) /\ Placed(c) /\ \A d \in Calls \ {c} : ~Runs(w, d)
    BY DEF TypeOK, PlacedOnce, Placed, Runs
  <1>4. done \in Seq([call : Calls, result : Results]) /\ \A i, j \in DOMAIN done : done[i].call = done[j].call => i = j
    BY DEF TypeOK, PoolTypes, PlacedOnce
  <1>5. /\ done' \in Seq([call : Calls, result : Results])
        /\ \A d : Done(d)' => Done(d) \/ d = c
        /\ \A d : d # c => (Done(d)' <=> Done(d)) /\ (DoneOk(d)' <=> DoneOk(d))
        /\ DoneOk(c)' => DoneOk(c) \/ state[c].cancelled \/ Whole(c)
        /\ \A i, j \in DOMAIN done' : done'[i].call = done'[j].call => i = j
    <2>1. CASE done' = done
      BY <1>4, <2>1 DEF Done, DoneOk
    <2>2. CASE done' = Append(done, [call |-> c, result |-> r]) /\ (r = "ok" => state[c].cancelled \/ Whole(c))
      <3>1. /\ done' \in Seq([call : Calls, result : Results])
            /\ \A d : Done(d)' <=> Done(d) \/ d = c
            /\ \A d : DoneOk(d)' <=> DoneOk(d) \/ (d = c /\ r = "ok")
            /\ \A i, j \in DOMAIN done' : done'[i].call = done'[j].call => i = j
        BY <1>3, <1>4, <2>2, AppendDone
      <3>2. \A d : d # c => (Done(d)' <=> Done(d)) /\ (DoneOk(d)' <=> DoneOk(d))
        BY <3>1
      <3>3. DoneOk(c)' => DoneOk(c) \/ r = "ok"
        BY <3>1
      <3>4. \A d : Done(d)' => Done(d) \/ d = c
        BY <3>1
      <3> QED BY <2>2, <3>1, <3>2, <3>3, <3>4
    <2> QED BY <2>1, <2>2
  <1>6. \A d : Queued(d)' <=> Queued(d)
    BY DEF Queued
  <1>7. TypeOK'
    <2>1. PoolTypes' /\ CallTypes' /\ \A d \in Calls : Len(state'[d].queue) <= QueueLimit
      BY <1>5 DEF TypeOK, PoolTypes, CallTypes, mainVars
    <2>2. ThreadTypes'
      BY <1>1 DEF TypeOK, ThreadTypes, mainVars, Busy
    <2>3. PlacedOnce'
      <3>1. PlacedOnce
        BY DEF TypeOK
      <3> QED BY <1>2, <1>3, <1>5, <1>6, <3>1 DEF PlacedOnce
    <2> QED BY <2>1, <2>2, <2>3 DEF TypeOK
  <1>8. MainInv'
    BY <1>1 DEF MainInv, mainVars, Runs, Busy
  <1>9. ASSUME NEW d \in Calls \ {c} PROVE CallInv(d)'
    <2>1. \A u \in Workers : (Runs(u, d)' <=> Runs(u, d)) /\ (Runs(u, d) => worker'[u] = worker[u])
      BY <1>1, <1>2, <1>3
    <2>2. SameFor(d)
      BY <1>5, <1>6, <2>1 DEF SameFor, InHand, mainVars
    <2> QED BY <2>2, SameKeeps
  <1>10. CallInv(c)'
    <2>1. holder[c] # "none" /\ state[c].result = NoResult /\ (holder[c] = "gone" => state[c].cancelled)
      BY <1>3 DEF CallInv, ResultInv, Unsent
    <2>2. ResultInv(c)'
      BY <2>1 DEF ResultInv, mainVars
    <2>3. CloseInv(c)'
      BY <1>3, <1>6 DEF CallInv, CloseInv
    <2>4. SinkInv(c)'
      <3>1. SinkInv(c) /\ ~DoneOk(c)
        BY <1>3 DEF CallInv, DoneOk, Done
      <3> QED BY <1>5, <2>1, <3>1 DEF SinkInv, Whole, mainVars, NoResult
    <2>5. AwayInv(c)'
      BY DEF AwayInv, BodyInv, Flows, InHand, mainVars
    <2> QED BY <1>2, <1>3, <2>2, <2>3, <2>4, <2>5 DEF CallInv
  <1> QED BY <1>7, <1>8, <1>9, <1>10

LEMMA CheckJobStep ==
  ASSUME IInv, NEW w \in Workers, CheckJob(w)
  PROVE  IInv'
  <1> PICK c \in Calls, r \in Results \cup {NoResult} :
         /\ c = worker[w].call /\ r = worker[w].result /\ Runs(w, c) /\ RunInv(c, "check", r)
    BY Reached DEF CheckJob, Busy
  <1>1. CASE state[c].cancelled
    <2>1. AwayInv(c)
      BY DEF RunInv, AwayInv, HandleInv, Early, Holding
    <2> QED BY <1>1, <2>1, Leaves DEF CheckJob, Results
  <1>2. CASE ~state[c].cancelled
    <2>1. RunInv(c, "begin", r)
      BY DEF RunInv, HandleInv, Early, Open, Late, Holding
    <2>2. WorkerTo(w, c, "begin", r)
      BY <1>2 DEF CheckJob, IInv, TypeOK, ThreadTypes, WorkerStates, WorkerTo, Busy
    <2> QED BY <2>1, <2>2, OnlyMoves DEF CheckJob, mainVars, Busy
  <1> QED BY <1>1, <1>2

LEMMA PushResultStep ==
  ASSUME IInv, NEW w \in Workers, PushResult(w)
  PROVE  IInv'
  <1> PICK c \in Calls, r \in Results \cup {NoResult} :
         /\ c = worker[w].call /\ r = worker[w].result /\ Runs(w, c) /\ RunInv(c, "push", r)
    BY Reached DEF PushResult, Busy
  <1>1. AwayInv(c) /\ r \in Results /\ (r = "ok" => state[c].cancelled \/ Whole(c))
    BY DEF RunInv, AwayInv, HandleInv, Early, Open, Late, Holding
  <1>2. done' = done \/ done' = Append(done, [call |-> c, result |-> r])
    BY DEF PushResult
  <1> QED BY <1>1, <1>2, Leaves DEF PushResult

LEMMA PopJobStep ==
  ASSUME IInv, NEW w \in Workers, PopJob(w)
  PROVE  IInv'
  <1> USE DEF IInv
  <1>0. worker \in [Workers -> WorkerStates] /\ worker[w].at = "idle"
    BY DEF PopJob, TypeOK, ThreadTypes
  <1>1. CASE Goto(w, "gone") /\ UNCHANGED jobs
    <2>1. /\ worker' \in [Workers -> WorkerStates] /\ worker'[w].at = "gone"
          /\ \A u \in Workers \ {w} : worker'[u] = worker[u]
      BY <1>0, <1>1 DEF Goto, WorkerStates
    <2>2. \A u \in Workers, d \in Calls : /\ Runs(u, d)' <=> Runs(u, d)
                                          /\ Runs(u, d) => worker'[u] = worker[u]
      BY <1>0, <2>1 DEF Runs, Busy
    <2>3. \A d : (Queued(d)' <=> Queued(d)) /\ (Done(d)' <=> Done(d)) /\ (DoneOk(d)' <=> DoneOk(d))
      BY <1>1 DEF PopJob, Queued, Done, DoneOk
    <2>4. TypeOK'
      <3>1. PoolTypes' /\ CallTypes' /\ \A d \in Calls : Len(state'[d].queue) <= QueueLimit
        BY <1>1 DEF PopJob, TypeOK, PoolTypes, CallTypes, mainVars
      <3>2. ThreadTypes'
        BY <2>1 DEF PopJob, TypeOK, ThreadTypes, mainVars, Busy
      <3>3. PlacedOnce'
        <4>1. PlacedOnce
          BY DEF TypeOK
        <4> QED BY <1>1, <2>2, <2>3, <4>1 DEF PopJob, PlacedOnce
      <3> QED BY <3>1, <3>2, <3>3 DEF TypeOK
    <2>5. MainInv'
      BY <2>1 DEF PopJob, MainInv, mainVars
    <2>6. ASSUME NEW d \in Calls PROVE CallInv(d)'
      <3>1. SameFor(d)
        BY <2>2, <2>3 DEF PopJob, SameFor, InHand, mainVars
      <3> QED BY <3>1, SameKeeps
    <2> QED BY <2>4, <2>5, <2>6
  <1>2. CASE /\ ~stopping /\ jobs # <<>> /\ jobs' = Tail(jobs)
             /\ worker' = [worker EXCEPT ![w].at = "check", ![w].call = Head(jobs)]
    <2> PICK c, r : c = Head(jobs) /\ r = worker[w].result
      OBVIOUS
    <2>1. jobs \in Seq(Calls) /\ \A i, j \in DOMAIN jobs : jobs[i] = jobs[j] => i = j
      BY DEF TypeOK, PoolTypes, PlacedOnce
    <2>2. /\ jobs' \in Seq(Calls) /\ c \in Calls /\ Queued(c)
          /\ \A d : Queued(d)' <=> Queued(d) /\ d # c
          /\ \A i, j \in DOMAIN jobs' : jobs'[i] = jobs'[j] => i = j
      BY <1>2, <2>1, TailJobs
    <2>3. /\ worker' \in [Workers -> WorkerStates] /\ worker'[w].at = "check" /\ worker'[w].call = c
          /\ worker'[w].result = r /\ \A u \in Workers \ {w} : worker'[u] = worker[u]
      <3>1. worker' = [worker EXCEPT ![w].at = "check", ![w].call = c]
        BY <1>2
      <3>2. worker[w] \in WorkerStates /\ "check" \in Busy
        BY <1>0 DEF Busy
      <3> QED BY <1>0, <2>2, <3>1, <3>2 DEF WorkerStates
    <2>4. ASSUME NEW u \in Workers, NEW d \in Calls PROVE Runs(u, d)' <=> Runs(u, d) \/ (u = w /\ d = c)
      <3>1. CASE u = w
        BY <1>0, <2>3, <3>1 DEF Runs, Busy
      <3>2. CASE u # w
        <4>1. worker'[u] = worker[u]
          BY <2>3, <3>2
        <4> QED BY <3>2, <4>1 DEF Runs
      <3> QED BY <3>1, <3>2
    <2>5. \A d : (Done(d)' <=> Done(d)) /\ (DoneOk(d)' <=> DoneOk(d))
      BY DEF PopJob, Done, DoneOk
    <2>6. ~Done(c) /\ Placed(c) /\ \A u \in Workers : ~Runs(u, c)
      BY <2>2 DEF TypeOK, PlacedOnce, Placed
    <2>7. \A d \in Calls : ~Runs(w, d)
      BY <1>0 DEF Runs, Busy
    <2>8. TypeOK'
      <3>1. PoolTypes' /\ CallTypes' /\ \A d \in Calls : Len(state'[d].queue) <= QueueLimit
        BY <2>2 DEF PopJob, TypeOK, PoolTypes, CallTypes, mainVars
      <3>2. ThreadTypes'
        BY <2>2, <2>3 DEF PopJob, TypeOK, ThreadTypes, mainVars
      <3>3. PlacedOnce'
        <4>1. PlacedOnce
          BY DEF TypeOK
        <4> QED BY <2>2, <2>4, <2>5, <2>6, <2>7, <4>1 DEF PopJob, PlacedOnce
      <3> QED BY <3>1, <3>2, <3>3 DEF TypeOK
    <2>9. MainInv'
      BY <1>0, <2>3 DEF PopJob, MainInv, mainVars
    <2>10. ASSUME NEW d \in Calls \ {c} PROVE CallInv(d)'
      <3>1. \A u \in Workers : (Runs(u, d)' <=> Runs(u, d)) /\ (Runs(u, d) => worker'[u] = worker[u])
        <4> TAKE u \in Workers
        <4>1. Runs(u, d)' <=> Runs(u, d)
          <5>1. d \in Calls /\ d # c
            OBVIOUS
          <5> QED BY <2>4, <5>1
        <4>2. Runs(u, d) => u # w
          BY <2>7
        <4> QED BY <2>3, <4>1, <4>2
      <3>2. SameFor(d)
        BY <2>2, <2>5, <3>1 DEF PopJob, SameFor, InHand, mainVars
      <3> QED BY <3>2, SameKeeps
    <2>11. CallInv(c)'
      <3>1. ResultInv(c) /\ CloseInv(c) /\ SinkInv(c) /\ AwayInv(c)
        BY <2>2, <2>6 DEF CallInv
      <3>2. holder[c] # "none" /\ state[c].result = NoResult /\ (holder[c] = "gone" => state[c].cancelled)
        BY <2>6, <3>1 DEF ResultInv, Unsent
      <3>3. ResultInv(c)'
        BY <3>2 DEF PopJob, ResultInv, mainVars
      <3>4. CloseInv(c)'
        BY <2>2, <3>1 DEF PopJob, CloseInv
      <3>5. SinkInv(c)'
        BY <2>5, <3>1 DEF PopJob, SinkInv, Whole, mainVars
      <3>6. RunInv(c, "check", r)'
        <4>1. BodyInv(c, 0)'
          BY <3>1 DEF PopJob, AwayInv, BodyInv, Flows, InHand, mainVars
        <4>2. HandleInv(c, "check")'
          BY <2>2, <3>1 DEF PopJob, CloseInv, AwayInv, HandleInv, Early, Open, Late
        <4> QED BY <3>1, <4>1, <4>2 DEF PopJob, AwayInv, RunInv, Holding, Open, Late
      <3>7. ASSUME NEW u \in Workers, Runs(u, c)' PROVE RunInv(c, worker[u].at, worker[u].result)'
        <4>1. u = w
          BY <2>2, <2>4, <2>6, <3>7
        <4> QED BY <2>3, <3>6, <4>1
      <3>8. Runs(w, c)'
        BY <2>2, <2>4
      <3> QED BY <3>3, <3>4, <3>5, <3>7, <3>8 DEF CallInv
    <2> QED BY <2>8, <2>9, <2>10, <2>11
  <1> QED BY <1>1, <1>2 DEF PopJob

--------------------------------------------------------------------------------
(* The main thread.  Most of its steps concern one call, and leave the workers, *)
(* the queue and the results alone.                                             *)

\* The main thread hands over no chunks of another call than c, before the step and after it.
OthersNotDrained(c) ==
  \A d \in Calls \ {c} : ~(main.at = "sink" /\ main.call = d) /\ ~(main.at = "sink" /\ main.call = d)'

LEMMA MainOn ==
  ASSUME IInv, NEW c \in Calls, UNCHANGED <<live, jobs, done, worker, ready, stopping>>,
         CallTypes', todo' \subseteq live, main' \in MainStates, MainInv',
         OthersSame(c), \A d \in Calls \ {c} : holder'[d] = holder[d], OthersNotDrained(c),
         Len(state'[c].queue) <= QueueLimit,
         ResultInv(c)', CloseInv(c)', SinkInv(c)', AwayInv(c) => AwayInv(c)',
         \A l \in Busy, r \in Results \cup {NoResult} : RunInv(c, l, r) => RunInv(c, l, r)'
  PROVE  IInv'
  <1> USE DEF IInv
  <1>1. \A u \in Workers, d \in Calls : Runs(u, d)' <=> Runs(u, d)
    BY DEF Runs
  <1>2. \A d \in Calls : (Queued(d)' <=> Queued(d)) /\ (Done(d)' <=> Done(d)) /\ (DoneOk(d)' <=> DoneOk(d))
    BY DEF Queued, Done, DoneOk
  <1>3. TypeOK'
    <2>1. PoolTypes'
      BY DEF TypeOK, PoolTypes
    <2>2. ThreadTypes'
      BY DEF TypeOK, ThreadTypes
    <2>3. \A d \in Calls : Len(state'[d].queue) <= QueueLimit
      BY DEF TypeOK, OthersSame
    <2>4. PlacedOnce'
      <3>1. PlacedOnce
        BY DEF TypeOK
      <3> QED BY <1>1, <1>2, <3>1 DEF PlacedOnce
    <2> QED BY <2>1, <2>2, <2>3, <2>4 DEF TypeOK
  <1>4. ASSUME NEW d \in Calls \ {c} PROVE CallInv(d)'
    <2>1. InHand(d)' = InHand(d) /\ (main.at = "sink" /\ main.call = d)' = (main.at = "sink" /\ main.call = d)
      BY DEF OthersNotDrained, InHand
    <2>2. SameFor(d)
      BY <1>1, <1>2, <2>1 DEF SameFor, OthersSame
    <2> QED BY <2>2, SameKeeps
  <1>5. CallInv(c)'
    <2>1. ASSUME NEW u \in Workers, Runs(u, c)' PROVE RunInv(c, worker[u].at, worker[u].result)'
      <3> PICK l, r : l = worker[u].at /\ r = worker[u].result
        OBVIOUS
      <3>1. RunInv(c, l, r) /\ l \in Busy /\ r \in Results \cup {NoResult}
        BY <1>1, <2>1 DEF CallInv, Runs, TypeOK, ThreadTypes, WorkerStates
      <3>2. RunInv(c, l, r)'
        BY <3>1
      <3> QED BY <3>2
    <2>2. (\A u \in Workers : ~Runs(u, c))' => AwayInv(c)'
      BY <1>1 DEF CallInv
    <2> QED BY <2>1, <2>2 DEF CallInv
  <1> QED BY <1>3, <1>4, <1>5

\* A step that is about no call.
LEMMA MainAlone ==
  ASSUME IInv, UNCHANGED <<state, holder, live, jobs, done, worker, closes, seen>>,
         todo' \subseteq live, ready' \in BOOLEAN, stopping' \in BOOLEAN, main' \in MainStates, MainInv',
         main.at # "sink", main'.at # "sink"
  PROVE  IInv'
  <1> USE DEF IInv
  <1>1. TypeOK'
    <2>1. PoolTypes' /\ ThreadTypes' /\ CallTypes'
      BY DEF TypeOK, PoolTypes, ThreadTypes, CallTypes
    <2>2. PlacedOnce' /\ \A d \in Calls : Len(state'[d].queue) <= QueueLimit
      BY DEF TypeOK, PlacedOnce, Queued, Done, Runs
    <2> QED BY <2>1, <2>2 DEF TypeOK
  <1>2. ASSUME NEW d \in Calls PROVE CallInv(d)'
    <2>1. SameFor(d)
      BY DEF SameFor, InHand, Queued, Done, DoneOk, Runs
    <2> QED BY <2>1, SameKeeps
  <1> QED BY <1>1, <1>2

LEMMA MainTypes ==
  ASSUME IInv
  PROVE  /\ main \in MainStates /\ todo \subseteq live /\ live \subseteq Calls
         /\ ready \in BOOLEAN /\ stopping \in BOOLEAN
         /\ state \in [Calls -> CallStates] /\ holder \in [Calls -> {"none", "held", "gone"}]
         /\ closes \in [Calls -> Nat] /\ seen \in [Calls -> Seq(Nat)]
  BY DEF IInv, TypeOK, CallTypes, PoolTypes, ThreadTypes

LEMMA InGameType == InGame \in MainStates /\ InGame.at = "game"
  BY EmptySeq DEF InGame, MainStates

LEMMA PollStep ==
  ASSUME IInv, Poll
  PROVE  IInv'
  <1>1. main' \in MainStates /\ main'.at = "drain" /\ main.at = "game"
    BY MainTypes DEF Poll, MainStates
  <1>2. MainInv'
    BY <1>1 DEF IInv, MainInv, Poll, poolVars
  <1> QED BY <1>1, <1>2, MainTypes, MainAlone DEF Poll, poolVars

LEMMA DisposeStep ==
  ASSUME IInv, Dispose
  PROVE  IInv'
  <1>1. main' \in MainStates /\ main'.at = "dispose" /\ main.at = "game"
    BY MainTypes DEF Dispose, MainStates
  <1>2. MainInv'
    BY <1>1 DEF IInv, MainInv, Dispose, poolVars
  <1> QED BY <1>1, <1>2, MainTypes, MainAlone DEF Dispose, poolVars

LEMMA DisposeJoinsStep ==
  ASSUME IInv, DisposeJoins
  PROVE  IInv'
  <1>1. main' \in MainStates /\ main'.at = "game" /\ main.at = "join"
    BY InGameType DEF DisposeJoins
  <1>2. MainInv'
    BY <1>1 DEF IInv, MainInv, DisposeJoins
  <1> QED BY <1>1, <1>2, MainTypes, MainAlone DEF DisposeJoins

LEMMA TakeStep ==
  ASSUME IInv, NEW c \in Calls, Take(c)
  PROVE  IInv'
  <1>1. /\ ResultInv(c) /\ CloseInv(c) /\ SinkInv(c) /\ Len(state[c].queue) <= QueueLimit
        /\ MainInv /\ main.at = "game" /\ holder[c] = "held" /\ state[c].result # NoResult
        /\ holder' = [holder EXCEPT ![c] = "gone"]
    BY DEF IInv, TypeOK, CallInv, Take
  <1>2. UNCHANGED <<state, live, jobs, done, worker, ready, stopping, main, todo, closes, seen>>
    BY DEF Take, poolVars
  <1>3. holder'[c] = "gone" /\ \A d \in Calls \ {c} : holder'[d] = holder[d]
    BY <1>1, MainTypes
  <1>4. CallTypes'
    BY <1>1, <1>2, MainTypes DEF CallTypes
  <1>5. ResultInv(c)' /\ CloseInv(c)' /\ SinkInv(c)'
    <2>1. ResultInv(c)'
      BY <1>1, <1>2, <1>3 DEF ResultInv, Placed, Queued, Done, Runs
    <2>2. CloseInv(c)'
      BY <1>1, <1>2 DEF CloseInv, Queued
    <2>3. ~state[c].cancelled
      BY <1>1 DEF ResultInv
    <2>4. SinkInv(c)'
      BY <1>1, <1>2, <2>3 DEF SinkInv, Whole, DoneOk
    <2> QED BY <2>1, <2>2, <2>4
  <1>6. MainInv'
    BY <1>1, <1>2 DEF MainInv
  <1>7. AwayInv(c) => AwayInv(c)'
    BY <1>2 DEF AwayInv, BodyInv, Flows, InHand
  <1>8. \A l \in Busy, r \in Results \cup {NoResult} : RunInv(c, l, r) => RunInv(c, l, r)'
    <2> SUFFICES ASSUME NEW l \in Busy, NEW r \in Results \cup {NoResult}, RunInv(c, l, r)
                 PROVE  RunInv(c, l, r)'
      OBVIOUS
    <2>1. ASSUME NEW k, BodyInv(c, k) PROVE BodyInv(c, k)'
      BY <1>2, <2>1 DEF BodyInv, Flows, InHand
    <2>2. (l \in Holding => BodyInv(c, 1)') /\ (l \notin Holding => BodyInv(c, 0)')
      BY <2>1 DEF RunInv
    <2>3. HandleInv(c, l)'
      BY <1>2 DEF RunInv, HandleInv
    <2> QED BY <1>2, <2>2, <2>3 DEF RunInv, Whole
  <1>9. OthersSame(c) /\ OthersNotDrained(c)
    BY <1>1, <1>2 DEF OthersSame, OthersNotDrained
  <1> QED BY <1>1, <1>2, <1>3, <1>4, <1>5, <1>6, <1>7, <1>8, <1>9, MainOn, MainTypes

\* Marking a call cancelled: what is promised of its body and its response no longer holds, and
\* everything else still does.
LEMMA Marked ==
  ASSUME IInv, NEW c \in Calls, state' = [state EXCEPT ![c].cancelled = TRUE],
         main' = [main EXCEPT !.at = "abort", !.call = c], main.at # "sink",
         holder[c] # "none", ~main.disposing => holder[c] = "held",
         state[c].result = NoResult, state[c].cancelled \/ holder[c] = "held",
         todo' \subseteq live, UNCHANGED <<holder, live, ready, jobs, stopping, done, worker, closes, seen>>
  PROVE  IInv'
  <1> PICK s : s = [state[c] EXCEPT !.cancelled = TRUE]
    OBVIOUS
  <1>1. /\ s \in CallStates /\ s.received = state[c].received
        /\ s.cancelled /\ s.abort = state[c].abort /\ s.aborted = state[c].aborted
        /\ s.queue = state[c].queue /\ s.draining = state[c].draining /\ s.running = state[c].running
        /\ s.failed = state[c].failed /\ s.result = state[c].result
    BY MainTypes DEF CallStates
  <1>2. state' = [state EXCEPT ![c] = s]
    OBVIOUS
  <1>3. CallTypes' /\ state'[c] = s /\ OthersSame(c)
    BY <1>1, <1>2, MainTypes DEF CallTypes, OthersSame
  <1>4. main' \in MainStates /\ main'.at = "abort" /\ main'.call = c /\ main'.disposing = main.disposing
    BY MainTypes DEF MainStates
  <1>5. InHand(c)' = InHand(c) /\ OthersNotDrained(c)
    BY <1>4 DEF InHand, OthersNotDrained
  <1>6. MainInv'
    <2>1. state'[main'.call].cancelled /\ holder' = holder /\ ready' = ready /\ worker' = worker
      BY <1>1, <1>3, <1>4
    <2>2. ~ready => \A w \in Workers : worker[w].at = "gone"
      BY DEF IInv, MainInv
    <2> QED BY <1>4, <2>1, <2>2 DEF MainInv
  <1>7. ResultInv(c) /\ CloseInv(c) /\ SinkInv(c) /\ Len(state[c].queue) <= QueueLimit
    BY DEF IInv, TypeOK, CallInv
  <1>8. ResultInv(c)'
    BY <1>1, <1>3 DEF ResultInv
  <1>9. CloseInv(c)'
    BY <1>1, <1>3, <1>7 DEF CloseInv, Queued
  <1>10. SinkInv(c)'
    BY <1>1, <1>3, <1>4, <1>7 DEF SinkInv, NoResult
  <1>11. ASSUME NEW k, BodyInv(c, k) PROVE BodyInv(c, k)'
    BY <1>1, <1>3 DEF BodyInv
  <1>12. AwayInv(c) => AwayInv(c)'
    BY <1>1, <1>3, <1>11 DEF AwayInv
  <1>13. ASSUME NEW l \in Busy, NEW r \in Results \cup {NoResult}, RunInv(c, l, r) PROVE RunInv(c, l, r)'
    <2>1. HandleInv(c, l)'
      BY <1>1, <1>3, <1>13 DEF RunInv, HandleInv
    <2>2. (l \in Holding => BodyInv(c, 1)') /\ (l \notin Holding => BodyInv(c, 0)')
      BY <1>11, <1>13 DEF RunInv
    <2> QED BY <1>1, <1>3, <1>13, <2>1, <2>2 DEF RunInv
  <1> QED BY <1>1, <1>3, <1>4, <1>5, <1>6, <1>7, <1>8, <1>9, <1>10, <1>12, <1>13, MainOn

LEMMA CancelStep ==
  ASSUME IInv, NEW c \in Calls, Cancel(c)
  PROVE  IInv'
  BY Marked, MainTypes DEF Cancel, poolVars

LEMMA DisposeCancelsStep ==
  ASSUME IInv, NEW c \in Calls, DisposeCancels(c)
  PROVE  IInv'
  <1>1. c \in live
    BY MainTypes DEF DisposeCancels
  <1>2. holder[c] # "none" /\ state[c].result = NoResult /\ (holder[c] = "gone" => state[c].cancelled)
    BY <1>1 DEF IInv, CallInv, ResultInv, Unsent
  <1>3. main.at = "dispose" /\ main.disposing
    BY DEF DisposeCancels, IInv, MainInv
  <1>4. state[c].cancelled \/ holder[c] = "held"
    BY <1>2, MainTypes
  <1>5. todo' \subseteq live
    BY MainTypes DEF DisposeCancels
  <1> QED BY <1>2, <1>3, <1>4, <1>5, Marked DEF DisposeCancels, poolVars

\* The call the main thread cancels or hands chunks of.
LEMMA MainCall ==
  ASSUME IInv, main.at \in {"abort", "wait", "sink"}
  PROVE  \E c \in Calls :
           /\ c = main.call /\ state[c] \in CallStates /\ Len(state[c].queue) <= QueueLimit
           /\ ResultInv(c) /\ CloseInv(c) /\ SinkInv(c)
           /\ main.at \in {"abort", "wait"} => state[c].cancelled /\ state[c].result = NoResult
           /\ main.at = "sink" => Route[c] = "queued" /\ state[c].draining
  <1> PICK c : c = main.call
    OBVIOUS
  <1>1. c \in Calls
    BY DEF IInv, MainInv
  <1>2. ResultInv(c) /\ CloseInv(c) /\ SinkInv(c) /\ state[c] \in CallStates /\ Len(state[c].queue) <= QueueLimit
    BY <1>1 DEF IInv, CallInv, TypeOK, CallTypes
  <1>3. main.at \in {"abort", "wait"} => state[c].cancelled
    BY DEF IInv, MainInv
  <1> QED BY <1>1, <1>2, <1>3 DEF ResultInv, SinkInv, IInv, MainInv

LEMMA AbortStep ==
  ASSUME IInv, Abort
  PROVE  IInv'
  <1>0. main.at = "abort"
    BY DEF Abort
  <1> PICK c \in Calls :
         /\ c = main.call /\ state[c] \in CallStates /\ Len(state[c].queue) <= QueueLimit
         /\ ResultInv(c) /\ CloseInv(c) /\ SinkInv(c) /\ state[c].cancelled /\ state[c].result = NoResult
    BY <1>0, MainCall
  <1> PICK s, n : /\ s = [state[c] EXCEPT !.abort = FALSE, !.aborted = @ \/ state[c].abort]
                  /\ n = closes[c] + (IF state[c].abort THEN 1 ELSE 0)
    OBVIOUS
  <1>1. /\ s \in CallStates /\ s.received = state[c].received
        /\ s.cancelled /\ ~s.abort /\ (s.aborted <=> state[c].aborted \/ state[c].abort)
        /\ s.queue = state[c].queue /\ s.draining = state[c].draining /\ s.running = state[c].running
        /\ s.failed = state[c].failed /\ s.result = NoResult
    BY DEF CallStates
  <1>2. UNCHANGED <<holder, live, ready, jobs, stopping, done, worker, todo, seen>>
    BY DEF Abort, poolVars
  <1>3. CallTypes' /\ state'[c] = s /\ closes'[c] = n /\ OthersSame(c)
    <2>1. n \in Nat
      BY MainTypes
    <2>2. state' = [state EXCEPT ![c] = s] /\ closes' = [closes EXCEPT ![c] = n]
      BY MainTypes DEF Abort
    <2> QED BY <1>1, <1>2, <2>1, <2>2, MainTypes DEF CallTypes, OthersSame
  <1>4. main' \in MainStates /\ main'.at = "wait" /\ main'.call = c /\ main'.disposing = main.disposing
    BY MainTypes DEF MainStates, Abort
  <1>5. InHand(c)' = InHand(c) /\ OthersNotDrained(c)
    BY <1>0, <1>4 DEF InHand, OthersNotDrained
  <1>6. MainInv'
    <2>1. /\ holder[c] # "none" /\ (~main.disposing => holder[c] = "held")
          /\ (~ready => \A w \in Workers : worker[w].at = "gone")
      BY <1>0 DEF IInv, MainInv
    <2> QED BY <1>1, <1>2, <1>3, <1>4, <2>1 DEF MainInv
  <1>7. state[c].abort => /\ closes[c] = 0 /\ ~Queued(c)
                          /\ \E w \in Workers : Runs(w, c) /\ worker[w].at \in Open
    <2> SUFFICES ASSUME state[c].abort PROVE /\ closes[c] = 0 /\ ~Queued(c)
                                             /\ \E w \in Workers : Runs(w, c) /\ worker[w].at \in Open
      OBVIOUS
    <2>1. PICK w \in Workers : Runs(w, c) /\ RunInv(c, worker[w].at, worker[w].result)
      BY DEF IInv, CallInv, AwayInv
    <2>2. worker[w].at \in Open
      BY <2>1 DEF Runs, Busy, RunInv, HandleInv, Early, Open, Late
    <2>3. ~state[c].aborted /\ closes[c] = 0
      BY <2>1, <2>2 DEF RunInv, HandleInv
    <2> QED BY <2>1, <2>2, <2>3 DEF IInv, TypeOK, PlacedOnce
  <1>8. ResultInv(c)'
    <2>1. holder'[c] = holder[c] /\ holder[c] # "none"
      BY <1>0, <1>2 DEF IInv, MainInv
    <2> QED BY <1>1, <1>3, <2>1 DEF ResultInv
  <1>9. CloseInv(c)'
    <2>0. closes[c] \in Nat
      BY MainTypes
    <2>1. n <= 1
      <3>1. CASE state[c].abort
        BY <1>7, <3>1
      <3>2. CASE ~state[c].abort
        BY <2>0, <3>2 DEF CloseInv
      <3> QED BY <3>1, <3>2
    <2>2. Queued(c)' <=> Queued(c)
      BY <1>2 DEF Queued
    <2>3. ASSUME Queued(c) PROVE ~state[c].abort /\ n = 0
      <3>1. ~state[c].abort
        BY <1>7, <2>3
      <3> QED BY <2>0, <2>3, <3>1 DEF CloseInv
    <2>4. Queued(c) => ~s.aborted
      BY <1>1, <2>3 DEF CloseInv
    <2> QED BY <1>3, <2>1, <2>2, <2>3, <2>4 DEF CloseInv
  <1>10. SinkInv(c)'
    BY <1>0, <1>1, <1>2, <1>3, <1>4 DEF SinkInv, NoResult
  <1>11. ASSUME NEW k, BodyInv(c, k) PROVE BodyInv(c, k)'
    BY <1>1, <1>3 DEF BodyInv
  <1>12. AwayInv(c) => AwayInv(c)'
    BY <1>1, <1>3, <1>11 DEF AwayInv
  <1>13. ASSUME NEW l \in Busy, NEW r \in Results \cup {NoResult}, RunInv(c, l, r) PROVE RunInv(c, l, r)'
    <2>1. HandleInv(c, l)'
      <3>1. HandleInv(c, l) /\ n \in Nat /\ n = IF state[c].abort THEN closes[c] + 1 ELSE closes[c]
        BY <1>13, MainTypes DEF RunInv
      <3>2. CASE state[c].abort
        <4>1. n = 1 /\ s.aborted /\ l \in Open /\ l \notin Early /\ l \notin Late
          BY <1>1, <1>7, <3>1, <3>2 DEF HandleInv, Early, Open, Late, Busy
        <4>2. s.abort = FALSE /\ s.aborted = TRUE
          BY <1>1, <4>1 DEF CallStates
        <4> QED BY <1>3, <4>1, <4>2 DEF HandleInv
      <3>3. CASE ~state[c].abort
        <4>1. n = closes[c] /\ s.aborted = state[c].aborted /\ s.abort = state[c].abort
          BY <1>1, <3>1, <3>3 DEF CallStates
        <4> QED BY <1>3, <3>1, <4>1 DEF HandleInv
      <3> QED BY <3>2, <3>3
    <2>2. (l \in Holding => BodyInv(c, 1)') /\ (l \notin Holding => BodyInv(c, 0)')
      BY <1>11, <1>13 DEF RunInv
    <2>3. l \in Late => closes'[c] = closes[c]
      BY <1>1, <1>3, <1>13, MainTypes DEF RunInv, HandleInv
    <2> QED BY <1>1, <1>2, <1>3, <1>13, <2>1, <2>2, <2>3 DEF RunInv
  <1> QED BY <1>1, <1>2, <1>3, <1>4, <1>5, <1>6, <1>8, <1>9, <1>10, <1>12, <1>13, MainOn, MainTypes

LEMMA CancelReturnsStep ==
  ASSUME IInv, CancelReturns
  PROVE  IInv'
  <1>0. main.at = "wait"
    BY DEF CancelReturns
  <1> PICK c \in Calls :
         /\ c = main.call /\ state[c] \in CallStates /\ Len(state[c].queue) <= QueueLimit
         /\ ResultInv(c) /\ CloseInv(c) /\ SinkInv(c) /\ state[c].cancelled /\ state[c].result = NoResult
    BY <1>0, MainCall
  <1>1. UNCHANGED <<state, live, ready, jobs, stopping, done, worker, todo, closes, seen>> /\ ~state[c].running
    BY DEF CancelReturns, poolVars, SinkIdle
  <1>2. /\ main' \in MainStates /\ main'.at \in {"game", "dispose"}
        /\ (main'.at = "dispose" => main'.disposing)
    BY MainTypes, InGameType DEF CancelReturns, MainStates, NoCall
  <1>3. /\ holder' \in [Calls -> {"none", "held", "gone"}] /\ holder'[c] # "none"
        /\ \A d \in Calls \ {c} : holder'[d] = holder[d]
    BY <1>0, MainTypes DEF CancelReturns, IInv, MainInv
  <1>4. CallTypes' /\ OthersSame(c)
    BY <1>1, <1>3, MainTypes DEF CallTypes, OthersSame
  <1>5. InHand(c)' = InHand(c) /\ OthersNotDrained(c)
    BY <1>0, <1>2 DEF InHand, OthersNotDrained
  <1>6. MainInv'
    BY <1>1, <1>2 DEF MainInv, IInv
  <1>7. ResultInv(c)' /\ CloseInv(c)'
    BY <1>1, <1>3 DEF ResultInv, CloseInv, Queued
  <1>8. SinkInv(c)'
    BY <1>0, <1>1, <1>2 DEF SinkInv, NoResult
  <1>9. ASSUME NEW k, BodyInv(c, k) PROVE BodyInv(c, k)'
    BY <1>1 DEF BodyInv
  <1>10. AwayInv(c) => AwayInv(c)'
    BY <1>1, <1>9 DEF AwayInv
  <1>11. ASSUME NEW l \in Busy, NEW r \in Results \cup {NoResult}, RunInv(c, l, r) PROVE RunInv(c, l, r)'
    <2>1. HandleInv(c, l)'
      BY <1>1, <1>11 DEF RunInv, HandleInv
    <2>2. (l \in Holding => BodyInv(c, 1)') /\ (l \notin Holding => BodyInv(c, 0)')
      BY <1>9, <1>11 DEF RunInv
    <2> QED BY <1>1, <1>11, <2>1, <2>2 DEF RunInv
  <1> QED BY <1>1, <1>2, <1>3, <1>4, <1>5, <1>6, <1>7, <1>8, <1>10, <1>11, MainOn, MainTypes

LEMMA DisposeStopsStep ==
  ASSUME IInv, DisposeStops
  PROVE  IInv'
  <1> USE DEF IInv
  <1>1. UNCHANGED <<state, holder, ready, done, worker, todo, closes, seen>> /\ todo = {} /\ main.at = "dispose"
    BY DEF DisposeStops
  <1>2. live' = {} /\ stopping' /\ jobs' = <<>> /\ main' \in MainStates /\ main'.at = "join"
    BY MainTypes DEF DisposeStops, MainStates
  <1>3. \A d : ~Queued(d)'
    BY <1>2 DEF Queued
  <1>4. \A d : (Done(d)' <=> Done(d)) /\ (DoneOk(d)' <=> DoneOk(d)) /\ InHand(d)' = InHand(d)
    BY <1>1, <1>2 DEF Done, DoneOk, InHand
  <1>5. \A u \in Workers, d \in Calls : Runs(u, d)' <=> Runs(u, d)
    BY <1>1 DEF Runs
  <1>6. TypeOK'
    <2>1. PoolTypes'
      BY <1>1, <1>2, EmptySeq DEF DisposeStops, TypeOK, PoolTypes
    <2>2. ThreadTypes' /\ CallTypes' /\ \A d \in Calls : Len(state'[d].queue) <= QueueLimit
      BY <1>1, <1>2 DEF TypeOK, ThreadTypes, CallTypes
    <2>3. PlacedOnce'
      <3>1. PlacedOnce
        BY DEF TypeOK
      <3> QED BY <1>1, <1>2, <1>3, <1>4, <1>5, <3>1 DEF PlacedOnce
    <2> QED BY <2>1, <2>2, <2>3 DEF TypeOK
  <1>7. MainInv'
    BY <1>1, <1>2 DEF MainInv
  <1>8. ASSUME NEW d \in Calls PROVE CallInv(d)'
    <2>1. CallInv(d)
      OBVIOUS
    <2>2. ResultInv(d)'
      BY <1>1, <1>2, <1>3, <1>4, <1>5, <2>1 DEF CallInv, ResultInv, Unsent, Placed
    <2>3. CloseInv(d)'
      BY <1>1, <1>3, <2>1 DEF CallInv, CloseInv
    <2>4. SinkInv(d)'
      BY <1>1, <1>2, <1>4, <2>1 DEF CallInv, SinkInv, Whole
    <2>5. ASSUME NEW k, BodyInv(d, k) PROVE BodyInv(d, k)'
      BY <1>1, <1>4, <2>5 DEF BodyInv, Flows
    <2>6. ASSUME NEW u \in Workers, Runs(u, d)' PROVE RunInv(d, worker[u].at, worker[u].result)'
      <3> PICK l, r : l = worker[u].at /\ r = worker[u].result
        OBVIOUS
      <3>1. RunInv(d, l, r)
        BY <1>5, <2>1, <2>6 DEF CallInv
      <3>2. (l \in Holding => BodyInv(d, 1)') /\ (l \notin Holding => BodyInv(d, 0)')
        BY <2>5, <3>1 DEF RunInv
      <3>3. RunInv(d, l, r)'
        BY <1>1, <3>1, <3>2 DEF RunInv, HandleInv, Whole
      <3> QED BY <1>1, <3>3
    <2>7. (\A u \in Workers : ~Runs(u, d))' => AwayInv(d)'
      BY <1>1, <1>5, <2>1, <2>5 DEF CallInv, AwayInv
    <2> QED BY <2>2, <2>3, <2>4, <2>6, <2>7 DEF CallInv
  <1> QED BY <1>6, <1>7, <1>8

\* A call the main thread is to visit is live: sent, without a result, and still held or cancelled.
LEMMA LiveCall ==
  ASSUME IInv, NEW c \in Calls, c \in live
  PROVE  /\ holder[c] # "none" /\ state[c].result = NoResult /\ (holder[c] = "gone" => state[c].cancelled)
         /\ state[c] \in CallStates /\ Len(state[c].queue) <= QueueLimit
         /\ ResultInv(c) /\ CloseInv(c) /\ SinkInv(c)
  BY DEF IInv, CallInv, ResultInv, Unsent, TypeOK, CallTypes

LEMMA DrainTakesStep ==
  ASSUME IInv, NEW c \in Calls, DrainTakes(c)
  PROVE  IInv'
  <1>0. main.at = "drain" /\ c \in live /\ todo' \subseteq live
    BY MainTypes DEF DrainTakes
  <1>1. CASE state[c].queue = <<>>
    <2>1. UNCHANGED <<state, holder, live, poolVars, done, worker, closes, seen, main>>
      BY <1>1 DEF DrainTakes
    <2>2. MainInv'
      BY <2>1 DEF MainInv, IInv, poolVars
    <2> QED BY <1>0, <2>1, <2>2, MainAlone, MainTypes DEF poolVars
  <1>2. CASE state[c].queue # <<>>
    <2> PICK q \in Seq(Nat) : q = state[c].queue
      BY <1>0, LiveCall DEF CallStates
    <2> PICK s : s = [state[c] EXCEPT !.queue = <<>>, !.draining = TRUE]
      OBVIOUS
    <2>1. /\ holder[c] # "none" /\ state[c].result = NoResult /\ (holder[c] = "gone" => state[c].cancelled)
          /\ state[c] \in CallStates /\ ResultInv(c) /\ CloseInv(c) /\ SinkInv(c)
      BY <1>0, LiveCall
    <2>2. /\ s \in CallStates /\ s.received = state[c].received
          /\ s.cancelled = state[c].cancelled /\ s.abort = state[c].abort /\ s.aborted = state[c].aborted
          /\ s.queue = <<>> /\ s.draining /\ s.running = state[c].running
          /\ s.failed = state[c].failed /\ s.result = NoResult
      BY <2>1, EmptySeq DEF CallStates
    <2>3. UNCHANGED <<holder, live, ready, jobs, stopping, done, worker, closes, seen>>
      BY <1>2 DEF DrainTakes, poolVars
    <2>4. CallTypes' /\ state'[c] = s /\ OthersSame(c)
      <3>1. state' = [state EXCEPT ![c] = s]
        BY <1>2 DEF DrainTakes
      <3> QED BY <2>2, <2>3, <3>1, MainTypes DEF CallTypes, OthersSame
    <2>5. main' \in MainStates /\ main'.at = "sink" /\ main'.call = c /\ main'.chunks = q
      BY ZenonT(40), <1>2, MainTypes DEF DrainTakes, MainStates
    <2>6. InHand(c) = <<>> /\ InHand(c)' = q /\ OthersNotDrained(c)
      BY <1>0, <2>5 DEF InHand, OthersNotDrained
    <2>7. Route[c] = "queued" /\ ~Whole(c)
      BY <1>2, <2>1 DEF SinkInv, Whole
    <2>8. MainInv'
      BY <2>3, <2>5, <2>7 DEF MainInv, IInv
    <2>9. ResultInv(c)'
      BY <2>1, <2>2, <2>3, <2>4 DEF ResultInv
    <2>10. CloseInv(c)'
      BY <2>1, <2>2, <2>3, <2>4 DEF CloseInv, Queued
    <2>11. SinkInv(c)'
      <3>1. DoneOk(c)' <=> DoneOk(c)
        BY <2>3 DEF DoneOk
      <3> QED BY <2>1, <2>2, <2>3, <2>4, <2>5, <2>7, <3>1 DEF SinkInv, NoResult
    <2>12. Len(state'[c].queue) <= QueueLimit
      BY <2>2, <2>4, HttpAssumption
    <2>13. ASSUME NEW k \in Nat, BodyInv(c, k) PROVE BodyInv(c, k)'
      <3> PICK n \in Nat, h \in Nat, m \in Nat : n = Len(seen[c]) /\ h = Len(q) /\ m = state[c].received
        BY Lengths, LenProperties DEF IInv
      <3>1. ASSUME Flows(c, k) PROVE Flows(c, k)'
        <4>1. /\ \A i \in 1 .. h : q[i] = n + 0 + i
              /\ m = n + 0 + h + k
          BY <2>6, <3>1 DEF Flows
        <4>2. m = n + h + 0 + k /\ \A i \in 1 .. h : n + 0 + i = n + i
          BY ONLY <4>1, n \in Nat, h \in Nat, m \in Nat, k \in Nat
        <4>3. \A i \in 1 .. h : q[i] = n + i
          BY <4>1, <4>2
        <4>4. /\ InHand(c)' = q /\ state'[c].queue = <<>> /\ seen'[c] = seen[c] /\ state'[c].received = m
          BY <2>2, <2>3, <2>4, <2>6
        <4>5. Len(<<>>) = 0 /\ 1 .. 0 = {}
          OBVIOUS
        <4> QED BY ONLY <4>2, <4>3, <4>4, <4>5, n = Len(seen[c]), h = Len(q) DEF Flows
      <3> QED BY <2>2, <2>4, <2>7, <2>13, <3>1 DEF BodyInv
    <2>14. AwayInv(c) => AwayInv(c)'
      BY <2>2, <2>4, <2>13 DEF AwayInv
    <2>15. ASSUME NEW l \in Busy, NEW r \in Results \cup {NoResult}, RunInv(c, l, r) PROVE RunInv(c, l, r)'
      <3>1. HandleInv(c, l)'
        BY <2>2, <2>3, <2>4, <2>15 DEF RunInv, HandleInv
      <3>2. (l \in Holding => BodyInv(c, 1)') /\ (l \notin Holding => BodyInv(c, 0)')
        BY <2>13, <2>15 DEF RunInv
      <3> QED BY <2>2, <2>3, <2>4, <2>7, <2>15, <3>1, <3>2 DEF RunInv
    <2> QED BY <1>0, <2>3, <2>4, <2>5, <2>6, <2>8, <2>9, <2>10, <2>11, <2>12, <2>14, <2>15, MainOn
  <1> QED BY <1>1, <1>2

\* Wherever a call is, its body is accounted for.
LEMMA BodyKnown ==
  ASSUME NEW c \in Calls, CallInv(c)
  PROVE  \E k \in {0, 1} : BodyInv(c, k)
  BY DEF CallInv, RunInv, AwayInv

\* What is known of a call a worker has stays so when the main thread moves its body on.
LEMMA RunStays ==
  ASSUME NEW c \in Calls, NEW l \in Busy, NEW r \in Results \cup {NoResult}, RunInv(c, l, r), HandleInv(c, l)',
         (l \in Holding => BodyInv(c, 1)') /\ (l \notin Holding => BodyInv(c, 0)'),
         state'[c].running = state[c].running, state'[c].received = state[c].received,
         state'[c].cancelled = state[c].cancelled, closes'[c] = closes[c],
         Route[c] = "worker" => seen'[c] = seen[c], Whole(c) => Whole(c)'
  PROVE  RunInv(c, l, r)'
  BY DEF RunInv

LEMMA DrainSinkStep ==
  ASSUME IInv, DrainSink
  PROVE  IInv'
  <1>0. main.at = "sink"
    BY DEF DrainSink
  <1> PICK c \in Calls :
         /\ c = main.call /\ state[c] \in CallStates /\ Len(state[c].queue) <= QueueLimit
         /\ ResultInv(c) /\ CloseInv(c) /\ SinkInv(c) /\ Route[c] = "queued" /\ state[c].draining
    BY <1>0, MainCall
  <1> PICK chunks \in Seq(Nat) : chunks = main.chunks
    BY MainTypes DEF MainStates
  <1>1. UNCHANGED <<holder, live, ready, jobs, stopping, done, worker, todo, closes>>
    BY DEF DrainSink, poolVars
  <1>2. InHand(c) = chunks /\ ~Whole(c) /\ ~DoneOk(c)' = ~DoneOk(c)
    BY <1>0, <1>1 DEF InHand, Whole, DoneOk
  <1>3. holder[c] # "none" /\ state[c].result # "ok" /\ (DoneOk(c) => state[c].cancelled)
    BY <1>2 DEF ResultInv, Unsent, NewState, SinkInv
  <1>4. CASE chunks = <<>> \/ state[c].cancelled \/ state[c].failed
    <2> PICK s : s = [state[c] EXCEPT !.draining = FALSE]
      OBVIOUS
    <2>1. /\ s \in CallStates /\ s.received = state[c].received
          /\ s.cancelled = state[c].cancelled /\ s.abort = state[c].abort /\ s.aborted = state[c].aborted
          /\ s.queue = state[c].queue /\ ~s.draining /\ s.running = state[c].running
          /\ s.failed = state[c].failed /\ s.result = state[c].result
      BY DEF CallStates
    <2>2. CallTypes' /\ state'[c] = s /\ seen'[c] = seen[c] /\ OthersSame(c)
      <3>1. state' = [state EXCEPT ![c] = s] /\ seen' = seen
        BY <1>4 DEF DrainSink
      <3> QED BY <1>1, <2>1, <3>1, MainTypes DEF CallTypes, OthersSame
    <2>3. main' \in MainStates /\ main'.at = "drain"
      <3>1. main' = [main EXCEPT !.at = "drain", !.call = NoCall, !.chunks = <<>>]
        BY <1>4 DEF DrainSink
      <3> QED BY <3>1, MainTypes, EmptySeq DEF MainStates
    <2>4. InHand(c)' = <<>> /\ OthersNotDrained(c)
      BY <1>0, <2>3 DEF InHand, OthersNotDrained
    <2>5. MainInv'
      BY <1>1, <2>3 DEF MainInv, IInv
    <2>6. ResultInv(c)'
      BY <1>1, <1>3, <2>1, <2>2 DEF ResultInv, Placed, Queued, Done, Runs
    <2>7. CloseInv(c)'
      BY <1>1, <2>1, <2>2 DEF CloseInv, Queued
    <2>8. SinkInv(c)'
      BY ONLY SinkInv(c), <1>1, <1>2, <1>3, <2>1, <2>2, <2>3 DEF SinkInv
    <2>9. ASSUME NEW k \in Nat, BodyInv(c, k) PROVE BodyInv(c, k)'
      <3>1. ASSUME Flows(c, k), chunks = <<>> PROVE Flows(c, k)'
        <4>1. /\ InHand(c)' = InHand(c) /\ seen'[c] = seen[c] /\ state'[c].queue = state[c].queue
              /\ state'[c].received = state[c].received
          BY <1>2, <2>1, <2>2, <2>4, <3>1
        <4> QED BY ONLY Flows(c, k), <4>1 DEF Flows
      <3> QED BY <1>4, <2>1, <2>2, <2>9, <3>1 DEF BodyInv
    <2>10. AwayInv(c) => AwayInv(c)'
      BY <2>1, <2>2, <2>9 DEF AwayInv
    <2>11. ASSUME NEW l \in Busy, NEW r \in Results \cup {NoResult}, RunInv(c, l, r) PROVE RunInv(c, l, r)'
      <3>1. HandleInv(c, l)'
        BY <1>1, <2>1, <2>2, <2>11 DEF RunInv, HandleInv
      <3>2. (l \in Holding => BodyInv(c, 1)') /\ (l \notin Holding => BodyInv(c, 0)')
        BY <2>9, <2>11 DEF RunInv
      <3> QED BY <1>1, <1>2, <2>1, <2>2, <2>11, <3>1, <3>2, RunStays
    <2> QED BY <1>1, <2>1, <2>2, <2>3, <2>4, <2>5, <2>6, <2>7, <2>8, <2>10, <2>11, MainOn, MainTypes
  <1>5. CASE chunks # <<>> /\ ~state[c].cancelled /\ ~state[c].failed
    <2>0. /\ seen' = [seen EXCEPT ![c] = Append(@, Head(chunks))]
          /\ main' = [main EXCEPT !.chunks = Tail(@)]
          /\ \E keep_going \in BOOLEAN : state' = [state EXCEPT ![c].failed = ~keep_going]
      BY <1>5 DEF DrainSink
    <2> PICK keep_going \in BOOLEAN : state' = [state EXCEPT ![c].failed = ~keep_going]
      BY <2>0
    <2> PICK s : s = [state[c] EXCEPT !.failed = ~keep_going]
      OBVIOUS
    <2> PICK n \in Nat, h \in Nat, q \in Nat, m \in Nat :
           n = Len(seen[c]) /\ h = Len(chunks) /\ q = Len(state[c].queue) /\ m = state[c].received
      BY <1>2, Lengths DEF IInv
    <2> PICK rest : rest = Tail(chunks)
      OBVIOUS
    <2>1. /\ s \in CallStates /\ s.received = state[c].received
          /\ s.cancelled = state[c].cancelled /\ s.abort = state[c].abort /\ s.aborted = state[c].aborted
          /\ s.queue = state[c].queue /\ s.draining /\ s.running = state[c].running
          /\ s.failed = ~keep_going /\ s.result = state[c].result
      BY DEF CallStates
    <2>2. /\ rest \in Seq(Nat) /\ Len(rest) = h - 1 /\ h - 1 \in Nat /\ h \in Nat \ {0} /\ Head(chunks) = chunks[1]
          /\ \A i \in 1 .. h - 1 : rest[i] = chunks[i + 1]
          /\ Head(chunks) \in Nat
      BY <1>5, HeadTailProperties, LenProperties, EmptySeq
    <2>3. /\ seen'[c] \in Seq(Nat) /\ Len(seen'[c]) = n + 1 /\ seen'[c][n + 1] = Head(chunks)
          /\ \A i \in 1 .. n : seen'[c][i] = seen[c][i]
      <3>1. seen'[c] = Append(seen[c], Head(chunks)) /\ seen[c] \in Seq(Nat)
        BY <2>0, MainTypes
      <3> QED BY <2>2, <3>1, AppendProperties
    <2>4. CallTypes' /\ state'[c] = s /\ OthersSame(c)
      <3>1. state' = [state EXCEPT ![c] = s]
        OBVIOUS
      <3>2. seen' \in [Calls -> Seq(Nat)] /\ \A d \in Calls \ {c} : seen'[d] = seen[d]
        BY <2>0, <2>3, MainTypes
      <3>3. state' \in [Calls -> CallStates] /\ state'[c] = s /\ \A d \in Calls \ {c} : state'[d] = state[d]
        <4>1. state \in [Calls -> CallStates] /\ s \in CallStates
          BY <2>1, MainTypes
        <4> QED BY ONLY <3>1, <4>1
      <3> QED BY <1>1, <3>2, <3>3, MainTypes DEF CallTypes, OthersSame
    <2>5. main' \in MainStates /\ main'.at = "sink" /\ main'.call = c /\ main'.chunks = rest
      BY <1>0, <2>0, <2>2, MainTypes DEF MainStates
    <2>6. InHand(c)' = rest /\ OthersNotDrained(c)
      BY <1>0, <2>5 DEF InHand, OthersNotDrained
    <2>7. MainInv'
      BY <1>1, <2>5 DEF MainInv, IInv
    <2>8. ResultInv(c)'
      BY <1>1, <1>3, <2>1, <2>4 DEF ResultInv, Placed, Queued, Done, Runs
    <2>9. CloseInv(c)'
      BY <1>1, <2>1, <2>4 DEF CloseInv, Queued
    <2>10. ASSUME NEW k \in Nat, Flows(c, k) PROVE Flows(c, k)' /\ Head(chunks) = n + 1
      <3>1. /\ \A i \in 1 .. h : chunks[i] = n + i
            /\ \A i \in 1 .. q : state[c].queue[i] = n + h + i
            /\ m = n + h + q + k
        BY <1>2, <2>10 DEF Flows
      <3>2. /\ \A i \in 1 .. h - 1 : i + 1 \in 1 .. h /\ n + (i + 1) = (n + 1) + i
            /\ \A i \in 1 .. q : n + h + i = (n + 1) + (h - 1) + i
            /\ n + h + q + k = (n + 1) + (h - 1) + q + k
            /\ 1 \in 1 .. h
        <4>1. h \in Nat \ {0}
          BY <2>2
        <4> QED BY ONLY n \in Nat, <4>1, q \in Nat, m \in Nat, k \in Nat
      <3>3. /\ \A i \in 1 .. h - 1 : rest[i] = (n + 1) + i
            /\ \A i \in 1 .. q : state[c].queue[i] = (n + 1) + (h - 1) + i
            /\ m = (n + 1) + (h - 1) + q + k
        <4>1. \A i \in 1 .. h - 1 : rest[i] = chunks[i + 1]
          BY <2>2
        <4> QED BY ONLY <3>1, <3>2, <4>1
      <3>4. Head(chunks) = n + 1
        BY <2>2, <3>1, <3>2
      <3>5. /\ InHand(c)' = rest /\ state'[c].queue = state[c].queue /\ Len(seen'[c]) = n + 1
            /\ state'[c].received = m /\ Len(rest) = h - 1
        BY <2>1, <2>2, <2>3, <2>4, <2>6
      <3>6. Flows(c, k)'
        BY ONLY <3>3, <3>5, q = Len(state[c].queue) DEF Flows
      <3> QED BY <3>4, <3>6
    <2>11. Head(chunks) = n + 1
      <3>1. PICK k \in {0, 1} : BodyInv(c, k)
        BY BodyKnown DEF IInv
      <3> QED BY <1>5, <2>10, <3>1 DEF BodyInv
    <2>12. SinkInv(c)'
      <3>1. \A i \in 1 .. n + 1 : i \in 1 .. n \/ i = n + 1
        OBVIOUS
      <3>2. \A i \in 1 .. Len(seen'[c]) : seen'[c][i] = i
        BY <2>3, <2>11, <3>1 DEF SinkInv
      <3> QED BY <1>1, <1>2, <1>3, <1>5, <2>1, <2>4, <2>5, <3>2 DEF SinkInv
    <2>13. ASSUME NEW k \in Nat, BodyInv(c, k) PROVE BodyInv(c, k)'
      BY <1>5, <2>10, <2>13 DEF BodyInv
    <2>14. AwayInv(c) => AwayInv(c)'
      BY <2>1, <2>4, <2>13 DEF AwayInv
    <2>15. ASSUME NEW l \in Busy, NEW r \in Results \cup {NoResult}, RunInv(c, l, r) PROVE RunInv(c, l, r)'
      <3>1. HandleInv(c, l)'
        BY <1>1, <2>1, <2>4, <2>15 DEF RunInv, HandleInv
      <3>2. (l \in Holding => BodyInv(c, 1)') /\ (l \notin Holding => BodyInv(c, 0)')
        BY <2>13, <2>15 DEF RunInv
      <3> QED BY <1>1, <1>2, <2>1, <2>4, <2>15, <3>1, <3>2, RunStays
    <2> QED BY <1>1, <2>1, <2>4, <2>5, <2>6, <2>7, <2>8, <2>9, <2>12, <2>14, <2>15, MainOn, MainTypes
  <1> QED BY <1>4, <1>5

\* The result a call gets is one that was pushed for it.
LEMMA ResultPushed ==
  ASSUME IInv, NEW c \in Calls, Done(c)
  PROVE  ResultOf(c) \in Results /\ (ResultOf(c) = "ok" => DoneOk(c))
  <1>1. \E k \in DOMAIN done : done[k].call = c
    BY DEF Done
  <1> PICK k : k = CHOOSE i \in DOMAIN done : done[i].call = c
    OBVIOUS
  <1>2. k \in DOMAIN done /\ done[k].call = c /\ ResultOf(c) = done[k].result
    BY <1>1 DEF ResultOf
  <1>3. done[k] \in [call : Calls, result : Results]
    BY <1>2, LenProperties, ElementOfSeq DEF IInv, TypeOK, PoolTypes
  <1> QED BY <1>2, <1>3 DEF DoneOk

LEMMA DeliverStep ==
  ASSUME IInv, Deliver
  PROVE  IInv'
  <1> USE DEF IInv
  <1>1. /\ UNCHANGED <<holder, ready, jobs, stopping, worker, todo, closes, seen>> /\ todo = {}
        /\ main.at = "drain" /\ main' \in MainStates /\ main'.at = "game" /\ done' = <<>>
        /\ live' \subseteq live
    BY InGameType DEF Deliver, poolVars
  <1>2. \A d : ~Done(d)' /\ ~DoneOk(d)' /\ (Queued(d)' <=> Queued(d)) /\ InHand(d) = <<>> /\ InHand(d)' = <<>>
    BY <1>1 DEF Done, DoneOk, Queued, InHand
  <1>3. \A u \in Workers, d \in Calls : Runs(u, d)' <=> Runs(u, d)
    BY <1>1 DEF Runs
  <1>4. \A d \in Calls : Delivered(d) <=> Done(d) /\ ~state[d].cancelled
    BY DEF Delivered, Done
  <1>5. \A d \in Calls : state'[d] = IF Delivered(d) THEN [state[d] EXCEPT !.result = ResultOf(d)] ELSE state[d]
    BY DEF Deliver
  <1>6. ASSUME NEW d \in Calls
        PROVE  /\ state'[d] \in CallStates /\ state'[d].received = state[d].received
               /\ state'[d].cancelled = state[d].cancelled /\ state'[d].abort = state[d].abort
               /\ state'[d].aborted = state[d].aborted /\ state'[d].queue = state[d].queue
               /\ state'[d].draining = state[d].draining /\ state'[d].running = state[d].running
               /\ state'[d].failed = state[d].failed
               /\ (Delivered(d) => state'[d].result = ResultOf(d))
               /\ (~Delivered(d) => state'[d].result = state[d].result)
    <2>1. state[d] \in CallStates
      BY MainTypes
    <2>2. CASE Delivered(d)
      <3>1. ResultOf(d) \in Results
        BY <1>4, <2>2, ResultPushed
      <3> QED BY <1>5, <2>1, <2>2, <3>1 DEF CallStates
    <2>3. CASE ~Delivered(d)
      BY <1>5, <2>1, <2>3
    <2> QED BY <2>2, <2>3
  <1>7. TypeOK'
    <2>1. PoolTypes'
      BY <1>1, EmptySeq, MainTypes DEF TypeOK, PoolTypes
    <2>2. ThreadTypes'
      BY <1>1 DEF TypeOK, ThreadTypes
    <2>3. CallTypes'
      <3>1. state' \in [Calls -> CallStates]
        BY <1>6 DEF Deliver
      <3> QED BY <1>1, <3>1, MainTypes DEF CallTypes
    <2>4. \A d \in Calls : Len(state'[d].queue) <= QueueLimit
      BY <1>6 DEF TypeOK
    <2>5. PlacedOnce'
      <3>1. PlacedOnce
        BY DEF TypeOK
      <3> QED BY <1>1, <1>2, <1>3, <3>1 DEF PlacedOnce
    <2> QED BY <2>1, <2>2, <2>3, <2>4, <2>5 DEF TypeOK
  <1>8. MainInv'
    BY <1>1 DEF MainInv
  <1>9. ASSUME NEW d \in Calls PROVE CallInv(d)'
    <2>1. CallInv(d)
      OBVIOUS
    <2>2. Delivered(d) => /\ holder[d] # "none" /\ ~Queued(d) /\ (\A u \in Workers : ~Runs(u, d))
                          /\ ~state[d].cancelled /\ ResultOf(d) # NoResult /\ (ResultOf(d) = "ok" => Whole(d))
                          /\ d \notin live'
      <3> SUFFICES ASSUME Delivered(d)
                   PROVE  /\ holder[d] # "none" /\ ~Queued(d) /\ (\A u \in Workers : ~Runs(u, d))
                          /\ ~state[d].cancelled /\ ResultOf(d) # NoResult /\ (ResultOf(d) = "ok" => Whole(d))
                          /\ d \notin live'
        OBVIOUS
      <3>1. Done(d) /\ ~state[d].cancelled
        BY <1>4
      <3>2. ~Queued(d) /\ \A u \in Workers : ~Runs(u, d)
        BY <3>1 DEF TypeOK, PlacedOnce
      <3>3. holder[d] # "none"
        BY <2>1, <3>1 DEF CallInv, ResultInv, Unsent, Placed
      <3>4. ResultOf(d) # NoResult /\ (ResultOf(d) = "ok" => Whole(d))
        BY <2>1, <3>1, ResultPushed DEF CallInv, SinkInv, Results, NoResult
      <3>5. d \notin live'
        BY DEF Deliver
      <3> QED BY <3>1, <3>2, <3>3, <3>4, <3>5
    <2>3. Whole(d)' <=> Whole(d)
      BY <1>1, <1>6 DEF Whole
    <2>4. ResultInv(d)'
      <3>1. CASE Delivered(d)
        BY <1>1, <1>2, <1>3, <1>6, <2>2, <3>1 DEF ResultInv, Placed
      <3>2. CASE ~Delivered(d)
        <4>1. state'[d] = state[d]
          BY <1>5, <3>2
        <4>2. Placed(d)' => Placed(d)
          BY <1>2, <1>3 DEF Placed
        <4> QED BY <1>1, <2>1, <4>1, <4>2 DEF CallInv, ResultInv, Unsent
      <3> QED BY <3>1, <3>2
    <2>5. CloseInv(d)'
      BY <1>1, <1>2, <1>6, <2>1 DEF CallInv, CloseInv
    <2>6. SinkInv(d)'
      <3>1. SinkInv(d)
        BY <2>1 DEF CallInv
      <3>2. state'[d].result = "ok" => Whole(d)'
        BY <1>6, <2>2, <2>3, <3>1 DEF SinkInv
      <3> QED BY <1>1, <1>2, <1>6, <3>1, <3>2 DEF SinkInv
    <2>7. ASSUME NEW k, BodyInv(d, k) PROVE BodyInv(d, k)'
      BY <1>1, <1>2, <1>6, <2>7 DEF BodyInv, Flows
    <2>8. ASSUME NEW u \in Workers, Runs(u, d)' PROVE RunInv(d, worker[u].at, worker[u].result)'
      <3> PICK l, r : l = worker[u].at /\ r = worker[u].result
        OBVIOUS
      <3>1. RunInv(d, l, r)
        BY <1>3, <2>1, <2>8 DEF CallInv
      <3>2. (l \in Holding => BodyInv(d, 1)') /\ (l \notin Holding => BodyInv(d, 0)')
        BY <2>7, <3>1 DEF RunInv
      <3>3. HandleInv(d, l)'
        BY <1>1, <1>6, <3>1 DEF RunInv, HandleInv
      <3>4. RunInv(d, l, r)'
        BY <1>1, <1>6, <2>3, <3>1, <3>2, <3>3 DEF RunInv
      <3> QED BY <1>1, <3>4
    <2>9. (\A u \in Workers : ~Runs(u, d))' => AwayInv(d)'
      BY <1>3, <1>6, <2>1, <2>7 DEF CallInv, AwayInv
    <2> QED BY <2>4, <2>5, <2>6, <2>8, <2>9 DEF CallInv
  <1> QED BY <1>7, <1>8, <1>9

LEMMA SendStep ==
  ASSUME IInv, NEW c \in Calls, Send(c)
  PROVE  IInv'
  <1> USE DEF IInv
  <1>1. /\ UNCHANGED <<state, ready, stopping, worker, main, todo, closes, seen>>
        /\ main.at = "game" /\ holder[c] = "none" /\ holder' = [holder EXCEPT ![c] = "held"]
        /\ \/ done' = Append(done, [call |-> c, result |-> "error"]) /\ live' = live /\ jobs' = jobs
           \/ done' = done /\ live' = live \cup {c} /\ jobs' = Append(jobs, c)
    BY DEF Send
  <1>2. Unsent(c) /\ CallInv(c) /\ ~Queued(c) /\ ~Done(c) /\ ~DoneOk(c) /\ \A u \in Workers : ~Runs(u, c)
    BY <1>1 DEF CallInv, ResultInv, Unsent, Placed, Done, DoneOk
  <1>3. holder'[c] = "held" /\ \A d \in Calls \ {c} : holder'[d] = holder[d]
    BY <1>1, MainTypes
  <1>4. /\ jobs \in Seq(Calls) /\ done \in Seq([call : Calls, result : Results])
        /\ \A i, j \in DOMAIN jobs : jobs[i] = jobs[j] => i = j
        /\ \A i, j \in DOMAIN done : done[i].call = done[j].call => i = j
    BY DEF TypeOK, PoolTypes, PlacedOnce
  <1>5. /\ jobs' \in Seq(Calls) /\ done' \in Seq([call : Calls, result : Results])
        /\ \A i, j \in DOMAIN jobs' : jobs'[i] = jobs'[j] => i = j
        /\ \A i, j \in DOMAIN done' : done'[i].call = done'[j].call => i = j
        /\ \A d : d # c => /\ Queued(d)' <=> Queued(d)
                           /\ Done(d)' <=> Done(d)
                           /\ DoneOk(d)' <=> DoneOk(d)
        /\ ~DoneOk(c)' /\ ~(Queued(c)' /\ Done(c)')
        /\ live \subseteq live' /\ live' \subseteq live \cup {c}
    <2>1. CASE done' = Append(done, [call |-> c, result |-> "error"]) /\ live' = live /\ jobs' = jobs
      <3>1. \A d : Queued(d)' <=> Queued(d)
        BY <2>1 DEF Queued
      <3>2. /\ done' \in Seq([call : Calls, result : Results])
            /\ \A d : Done(d)' <=> Done(d) \/ d = c
            /\ \A d : DoneOk(d)' <=> DoneOk(d) \/ (d = c /\ "error" = "ok")
            /\ \A i, j \in DOMAIN done' : done'[i].call = done'[j].call => i = j
        BY <1>2, <1>4, <2>1, AppendDone DEF Results
      <3>3. \A d : d # c => (Queued(d)' <=> Queued(d)) /\ (Done(d)' <=> Done(d)) /\ (DoneOk(d)' <=> DoneOk(d))
        BY <3>1, <3>2
      <3>4. ~DoneOk(c)' /\ ~Queued(c)'
        BY <1>2, <3>1, <3>2
      <3> QED BY <1>4, <2>1, <3>2, <3>3, <3>4
    <2>2. CASE done' = done /\ live' = live \cup {c} /\ jobs' = Append(jobs, c)
      <3>1. \A d : (Done(d)' <=> Done(d)) /\ (DoneOk(d)' <=> DoneOk(d))
        BY <2>2 DEF Done, DoneOk
      <3>2. /\ jobs' \in Seq(Calls)
            /\ \A d : Queued(d)' <=> Queued(d) \/ d = c
            /\ \A i, j \in DOMAIN jobs' : jobs'[i] = jobs'[j] => i = j
        BY <1>2, <1>4, <2>2, AppendJobs
      <3>3. \A d : d # c => (Queued(d)' <=> Queued(d)) /\ (Done(d)' <=> Done(d)) /\ (DoneOk(d)' <=> DoneOk(d))
        BY <3>1, <3>2
      <3>4. ~DoneOk(c)' /\ ~Done(c)'
        BY <1>2, <3>1
      <3> QED BY <1>4, <2>2, <3>2, <3>3, <3>4
    <2> QED BY <1>1, <2>1, <2>2
  <1>6. \A u \in Workers, d \in Calls : Runs(u, d)' <=> Runs(u, d)
    BY <1>1 DEF Runs
  <1>7. TypeOK'
    <2>1. PoolTypes'
      BY <1>1, <1>5, MainTypes DEF PoolTypes
    <2>2. ThreadTypes' /\ CallTypes' /\ \A d \in Calls : Len(state'[d].queue) <= QueueLimit
      <3>1. holder' \in [Calls -> {"none", "held", "gone"}]
        BY <1>1, MainTypes
      <3> QED BY <1>1, <3>1 DEF TypeOK, ThreadTypes, CallTypes
    <2>3. PlacedOnce'
      <3>1. PlacedOnce
        BY DEF TypeOK
      <3>2. \A d \in Calls : ~(Queued(d)' /\ Done(d)')
        BY <1>5, <3>1 DEF PlacedOnce
      <3>3. \A d \in Calls, u \in Workers : Runs(u, d)' => ~Queued(d)' /\ ~Done(d)'
        <4> TAKE d \in Calls, u \in Workers
        <4>1. CASE d = c
          BY <1>2, <1>6, <4>1
        <4>2. CASE d # c
          BY <1>5, <1>6, <3>1, <4>2 DEF PlacedOnce
        <4> QED BY <4>1, <4>2
      <3>4. \A d \in Calls, u, v \in Workers : Runs(u, d)' /\ Runs(v, d)' => u = v
        BY <1>6, <3>1 DEF PlacedOnce
      <3> QED BY <1>5, <3>2, <3>3, <3>4 DEF PlacedOnce
    <2> QED BY <2>1, <2>2, <2>3 DEF TypeOK
  <1>8. MainInv'
    BY <1>1 DEF MainInv
  <1>9. ASSUME NEW d \in Calls \ {c} PROVE CallInv(d)'
    <2>1. SameFor(d)
      BY <1>1, <1>3, <1>5, <1>6 DEF SameFor, InHand
    <2> QED BY <2>1, SameKeeps
  <1>10. CallInv(c)'
    <2>1. ResultInv(c)'
      BY <1>1, <1>2, <1>3 DEF ResultInv, Unsent, NewState
    <2>2. CloseInv(c)'
      BY <1>1, <1>2 DEF CloseInv, Unsent, NewState
    <2>3. SinkInv(c)'
      <3>1. SinkInv(c) /\ ~state[c].cancelled
        BY <1>2 DEF CallInv, Unsent, NewState
      <3> QED BY <1>1, <1>5, <3>1 DEF SinkInv, Whole
    <2>4. AwayInv(c)'
      BY <1>1, <1>2 DEF CallInv, AwayInv, BodyInv, Flows, InHand
    <2> QED BY <1>2, <1>6, <2>1, <2>2, <2>3, <2>4 DEF CallInv
  <1> QED BY <1>7, <1>8, <1>9, <1>10

--------------------------------------------------------------------------------
(* The invariant holds at the start and after every step.                       *)

LEMMA InitInv == Init => IInv
  <1> SUFFICES ASSUME Init PROVE IInv
    OBVIOUS
  <1>1. TypeOK
    <2>1. NewState \in CallStates
      BY EmptySeq, HttpAssumption DEF NewState, CallStates
    <2>2. CallTypes /\ \A d \in Calls : Len(state[d].queue) <= QueueLimit
      BY <2>1, EmptySeq, HttpAssumption DEF Init, CallTypes, NewState
    <2>3. PoolTypes /\ ThreadTypes
      BY EmptySeq, InGameType DEF Init, PoolTypes, ThreadTypes, At, WorkerStates, Busy
    <2>4. PlacedOnce
      BY DEF Init, PlacedOnce, Queued, Done, Runs, At, Busy
    <2> QED BY <2>2, <2>3, <2>4 DEF TypeOK
  <1>2. MainInv
    BY DEF Init, MainInv, InGame
  <1>3. ASSUME NEW d \in Calls PROVE CallInv(d)
    <2>1. /\ ~Queued(d) /\ ~Done(d) /\ ~DoneOk(d) /\ (\A w \in Workers : ~Runs(w, d)) /\ InHand(d) = <<>>
          /\ ~Placed(d)
      BY DEF Init, Queued, Done, DoneOk, Runs, At, Busy, InHand, InGame, Placed
    <2>2. state[d] = NewState /\ closes[d] = 0 /\ seen[d] = <<>> /\ holder[d] = "none" /\ d \notin live
      BY DEF Init
    <2>3. ResultInv(d) /\ CloseInv(d)
      BY <2>1, <2>2 DEF ResultInv, CloseInv, Unsent, NewState
    <2>4. SinkInv(d)
      BY <2>1, <2>2 DEF SinkInv, NewState, NoResult, Init, InGame
    <2>5. AwayInv(d)
      BY <2>1, <2>2 DEF AwayInv, BodyInv, Flows, NewState
    <2> QED BY <2>1, <2>3, <2>4, <2>5 DEF CallInv
  <1> QED BY <1>1, <1>2, <1>3 DEF IInv

LEMMA StutterKeeps ==
  ASSUME IInv, UNCHANGED vars
  PROVE  IInv'
  <1>1. MainInv'
    BY DEF IInv, MainInv, vars
  <1>2. CASE main.at # "sink"
    BY <1>1, <1>2, MainAlone, MainTypes DEF vars
  <1>3. CASE main.at = "sink"
    <2> USE DEF IInv
    <2>1. TypeOK'
      BY DEF TypeOK, CallTypes, PoolTypes, ThreadTypes, PlacedOnce, Queued, Done, Runs, vars
    <2>2. ASSUME NEW d \in Calls PROVE CallInv(d)'
      <3>1. SameFor(d)
        BY DEF SameFor, InHand, Queued, Done, DoneOk, Runs, vars
      <3> QED BY <3>1, SameKeeps
    <2> QED BY <1>1, <2>1, <2>2
  <1> QED BY <1>2, <1>3

LEMMA StepKeeps ==
  ASSUME IInv, [Next]_vars
  PROVE  IInv'
  <1>1. ASSUME NEW w \in Workers, WorkerStep(w) PROVE IInv'
    BY <1>1, PopJobStep, CheckJobStep, BeginTransferStep, AskCancelledStep, QueryStep, ReadStep, AcceptStep,
       EnterSinkStep, LeaveSinkStep, EnqueueStep, EndTransferStep, FinishSinkStep, PushResultStep
    DEF WorkerStep
  <1>2. CASE MainStep
    BY <1>2, AbortStep, CancelReturnsStep, DrainSinkStep, DeliverStep, DisposeStopsStep, DisposeJoinsStep,
       DrainTakesStep, DisposeCancelsStep
    DEF MainStep
  <1>3. CASE GameStep
    BY <1>3, SendStep, TakeStep, CancelStep, DisposeStep DEF GameStep
  <1>4. CASE Poll
    BY <1>4, PollStep
  <1>5. CASE UNCHANGED vars
    BY <1>5, StutterKeeps
  <1> QED BY <1>1, <1>2, <1>3, <1>4, <1>5 DEF Next

\* The inductive invariant: the types, what the main thread is at, and of every call what is known of
\* its result, its handle and its body, by where it is.
THEOREM Invariance == Spec => []IInv
  <1>1. Init => IInv
    BY InitInv
  <1>2. IInv /\ [Next]_vars => IInv'
    BY StepKeeps
  <1> QED BY <1>1, <1>2, PTL DEF Spec

--------------------------------------------------------------------------------
(* What the calls are promised.                                                 *)

\* Every variable keeps its type, the queue of a sink its limit, and the pool and the completions
\* hold no call twice (HttpClient::send, HttpWorkerPool, CallCompletions).
THEOREM TypeCorrect == Spec => []TypeOK
  <1>1. IInv => TypeOK
    BY DEF IInv
  <1> QED BY <1>1, Invariance, PTL

\* "A request with a sink gets the body of a 2xx response in order" and "the result is delivered only
\* after the sink saw the whole body" (Net.md): HttpCallState::deliver, drain_sink and finish_sink.
THEOREM SinkSeesTheBody == Spec => []SinkSeesBody
  <1>1. ASSUME IInv, NEW c \in Calls
        PROVE  /\ seen[c] = [k \in 1 .. Len(seen[c]) |-> k]
               /\ state[c].result = "ok" /\ Route[c] # "none" =>
                    Len(seen[c]) = state[c].received /\ ~state[c].failed
    <2>1. seen[c] \in Seq(Nat) /\ SinkInv(c)
      BY <1>1, MainTypes DEF IInv, CallInv
    <2> PICK s, n : s = seen[c] /\ n = Len(s)
      OBVIOUS
    <2>2. s = [k \in 1 .. n |-> s[k]]
      BY <2>1, SeqDef, LenProperties
    <2>3. \A k \in 1 .. n : s[k] = k
      BY <2>1 DEF SinkInv
    <2>4. s = [k \in 1 .. n |-> k]
      BY ONLY <2>2, <2>3
    <2> QED BY <2>1, <2>4 DEF SinkInv, Whole
  <1>2. IInv => SinkSeesBody
    BY <1>1 DEF SinkSeesBody, IInv
  <1> QED BY <1>2, Invariance, PTL

\* "so a handle is closed exactly once" (Net.md): by HttpCallState::cancel's abort or by end_transfer,
\* and it is closed before the worker pushes the result, if there was one at all.
THEOREM HandleClosedOnce == Spec => []ClosedOnce
  <1>1. ASSUME IInv, NEW c \in Calls, NEW w \in Workers, worker[w].call = c, worker[w].at \in Late
        PROVE  closes[c] = IF worker[w].result = "unopened" THEN 0 ELSE 1
    <2>1. Runs(w, c)
      BY <1>1 DEF Runs, Late, Busy
    <2>2. RunInv(c, worker[w].at, worker[w].result)
      BY <1>1, <2>1 DEF IInv, CallInv
    <2> QED BY <1>1, <2>2 DEF RunInv
  <1>2. IInv => ClosedOnce
    BY <1>1 DEF ClosedOnce, Late, IInv, CallInv, CloseInv
  <1> QED BY <1>2, Invariance, PTL

--------------------------------------------------------------------------------
(* After cancel.                                                                *)

\* No worker is inside the sink of a call whose cancel returned, nor is any worker left after dispose.
LEMMA OverRunsNoSink ==
  ASSUME IInv, NEW c \in Calls, Over(c), NEW w \in Workers, worker[w].at = "sink"
  PROVE  worker[w].call # c
  <1> SUFFICES ASSUME worker[w].call = c PROVE FALSE
    OBVIOUS
  <1>1. Runs(w, c)
    BY DEF Runs, Busy
  <1>2. RunInv(c, "sink", worker[w].result)
    BY <1>1 DEF IInv, CallInv
  <1>3. state[c].running
    BY <1>2 DEF RunInv
  <1>4. SinkInv(c) /\ ready
    BY DEF IInv, CallInv, MainInv
  <1> QED BY <1>3, <1>4 DEF SinkInv, Over

\* A step that leaves what the holder sees of a call as it is.
Unseen(c) ==
  /\ holder'[c] = holder[c] /\ state'[c].cancelled = state[c].cancelled
  /\ state'[c].result = state[c].result

\* The fields a sink's run writes are not among them.
LEMMA SinkFields ==
  ASSUME NEW d, NEW c \in Calls, state \in [Calls -> CallStates], holder'[c] = holder[c], NEW b \in BOOLEAN,
         \/ state' = state
         \/ state' = [state EXCEPT ![d].running = b]
         \/ state' = [state EXCEPT ![d].draining = b]
         \/ state' = [state EXCEPT ![d].failed = b]
  PROVE  Unseen(c)
  <1>1. CASE c # d \/ state' = state
    BY <1>1 DEF Unseen
  <1>2. CASE c = d
    <2> PICK s : s = state[c]
      OBVIOUS
    <2>1. s \in CallStates
      OBVIOUS
    <2>2. state'[c] \in {s, [s EXCEPT !.running = b], [s EXCEPT !.draining = b], [s EXCEPT !.failed = b]}
      BY <1>2
    <2>3. \A x \in {[s EXCEPT !.running = b], [s EXCEPT !.draining = b], [s EXCEPT !.failed = b]} :
            x.cancelled = s.cancelled /\ x.result = s.result
      BY <2>1 DEF CallStates
    <2> QED BY <2>2, <2>3 DEF Unseen
  <1> QED BY <1>1, <1>2

LEMMA WorkerUnseen ==
  ASSUME IInv, NEW w \in Workers, WorkerStep(w), NEW c \in Calls
  PROVE  Unseen(c) /\ ready' = ready
  <1> PICK d : d = worker[w].call
    OBVIOUS
  <1>0. state \in [Calls -> CallStates]
    BY MainTypes
  <1>1. holder' = holder /\ ready' = ready
    BY DEF WorkerStep, mainVars, PopJob, CheckJob, BeginTransfer, AskCancelled, Query, Read, Accept, EnterSink,
           LeaveSink, Enqueue, EndTransfer, FinishSink, PushResult
  <1>2. CASE state' = state
    BY <1>1, <1>2 DEF Unseen
  <1>3. CASE BeginTransfer(w)
    BY <1>0, <1>1, <1>3 DEF BeginTransfer, Unseen, CallStates
  <1>4. CASE Accept(w)
    <2>1. state' = state \/ state' = [state EXCEPT ![d].received = @ + 1]
      BY <1>4 DEF Accept
    <2> QED BY <1>0, <1>1, <2>1 DEF Unseen, CallStates
  <1>5. CASE EnterSink(w)
    <2>1. state' = state \/ state' = [state EXCEPT ![d].running = TRUE]
      BY <1>5 DEF EnterSink
    <2> QED BY <1>0, <1>1, <2>1, SinkFields
  <1>6. CASE LeaveSink(w)
    BY <1>0, <1>1, <1>6 DEF LeaveSink, Unseen, CallStates
  <1>7. CASE Enqueue(w)
    <2> PICK x, s : x = Append(state[d].queue, state[d].received) /\ s = state[c]
      OBVIOUS
    <2>1. state' = state \/ state' = [state EXCEPT ![d].queue = x]
      BY <1>7 DEF Enqueue
    <2>2. s \in CallStates
      BY <1>0
    <2>3. [s EXCEPT !.queue = x].cancelled = s.cancelled /\ [s EXCEPT !.queue = x].result = s.result
      BY ONLY <2>2 DEF CallStates
    <2>4. state'[c] \in {s, [s EXCEPT !.queue = x]}
      BY <1>0, <2>1
    <2> QED BY <1>1, <2>3, <2>4 DEF Unseen
  <1>8. CASE EndTransfer(w)
    BY <1>0, <1>1, <1>8 DEF EndTransfer, Unseen, CallStates
  <1>9. \/ state' = state \/ BeginTransfer(w) \/ Accept(w) \/ EnterSink(w) \/ LeaveSink(w) \/ Enqueue(w)
        \/ EndTransfer(w)
    BY DEF WorkerStep, PopJob, CheckJob, AskCancelled, Query, Read, FinishSink, PushResult
  <1> QED BY <1>2, <1>3, <1>4, <1>5, <1>6, <1>7, <1>8, <1>9

\* The steps of the main thread that nobody who holds a call can tell.
LEMMA QuietUnseen ==
  ASSUME IInv, NEW c \in Calls,
         \/ Abort \/ DrainSink \/ DisposeStops \/ DisposeJoins \/ Poll \/ Dispose
         \/ \E d \in Calls : DrainTakes(d)
  PROVE  Unseen(c) /\ (ready' => ready)
  <1>0. state \in [Calls -> CallStates]
    BY MainTypes
  <1>1. CASE Abort
    BY <1>0, <1>1 DEF Abort, Unseen, CallStates, poolVars
  <1>2. CASE DrainSink
    <2>1. /\ \/ state' = [state EXCEPT ![main.call].draining = FALSE]
             \/ \E failed \in BOOLEAN : state' = [state EXCEPT ![main.call].failed = failed]
          /\ holder' = holder /\ ready' = ready
      BY <1>2 DEF DrainSink, poolVars
    <2> QED BY <1>0, <2>1, SinkFields
  <1>3. CASE DisposeStops \/ DisposeJoins \/ Poll \/ Dispose
    BY <1>3 DEF DisposeStops, DisposeJoins, Poll, Dispose, Unseen, poolVars
  <1>4. CASE \E d \in Calls : DrainTakes(d)
    <2> PICK d \in Calls : DrainTakes(d)
      BY <1>4
    <2>1. /\ state' = state \/ state' = [state EXCEPT ![d].queue = <<>>, ![d].draining = TRUE]
          /\ holder' = holder /\ ready' = ready
      BY DEF DrainTakes, poolVars
    <2> QED BY <1>0, <2>1 DEF Unseen, CallStates
  <1> QED BY <1>1, <1>2, <1>3, <1>4

\* Once cancel, or dispose, has returned, it stays so, and a step shows the call nothing.
LEMMA OverStays ==
  ASSUME IInv, Next, NEW c \in Calls, Over(c)
  PROVE  Over(c)' /\ seen'[c] = seen[c] /\ state'[c].result = state[c].result
  <1>0. /\ state \in [Calls -> CallStates] /\ holder \in [Calls -> {"none", "held", "gone"}]
        /\ seen \in [Calls -> Seq(Nat)] /\ ready \in BOOLEAN /\ state[c].cancelled
    BY MainTypes DEF Over
  <1>1. ASSUME Unseen(c), ready' => ready, seen'[c] = seen[c]
        PROVE  Over(c)' /\ seen'[c] = seen[c] /\ state'[c].result = state[c].result
    BY <1>1 DEF Unseen, Over
  <1>2. ASSUME NEW w \in Workers, WorkerStep(w) PROVE seen'[c] = seen[c]
    <2>1. CASE LeaveSink(w)
      <3>1. worker[w].at = "sink"
        BY <2>1 DEF LeaveSink
      <3>2. worker[w].call # c
        BY <3>1, OverRunsNoSink
      <3> QED BY <1>0, <2>1, <3>2 DEF LeaveSink
    <2>2. CASE ~LeaveSink(w)
      BY <1>2, <2>2 DEF WorkerStep, PopJob, CheckJob, BeginTransfer, AskCancelled, Query, Read, Accept, EnterSink,
                        Enqueue, EndTransfer, FinishSink, PushResult
    <2> QED BY <2>1, <2>2
  <1>3. CASE \E w \in Workers : WorkerStep(w)
    BY <1>1, <1>2, <1>3, WorkerUnseen
  <1>4. CASE DrainSink
    <2>1. seen'[c] = seen[c]
      BY <1>0, <1>4 DEF DrainSink
    <2> QED BY <1>1, <1>4, <2>1, QuietUnseen
  <1>5. CASE Abort \/ DisposeStops \/ DisposeJoins \/ Poll \/ Dispose \/ \E d \in Calls : DrainTakes(d)
    <2>1. seen' = seen
      BY <1>5 DEF Abort, DisposeStops, DisposeJoins, Poll, Dispose, DrainTakes
    <2> QED BY <1>1, <1>5, <2>1, QuietUnseen
  <1>6. CASE CancelReturns
    <2>1. UNCHANGED <<state, ready, seen>> /\ (holder'[c] = holder[c] \/ holder'[c] = "gone")
      BY <1>0, <1>6 DEF CancelReturns, poolVars
    <2> QED BY <1>0, <2>1 DEF Over
  <1>7. CASE Deliver
    <2>1. ~Delivered(c)
      BY <1>0 DEF Delivered
    <2>2. state'[c] = state[c] /\ UNCHANGED <<holder, ready, seen>>
      BY <1>7, <2>1 DEF Deliver, poolVars
    <2> QED BY <2>2 DEF Over
  <1>8. CASE \E d \in Calls : DisposeCancels(d) \/ Cancel(d)
    <2> PICK d \in Calls : DisposeCancels(d) \/ Cancel(d)
      BY <1>8
    <2>0. state' = [state EXCEPT ![d].cancelled = TRUE] /\ UNCHANGED <<holder, ready, seen>>
      BY DEF DisposeCancels, Cancel, poolVars
    <2>1. /\ state'[c].cancelled /\ state'[c].result = state[c].result
          /\ UNCHANGED <<holder, ready, seen>>
      BY <1>0, <2>0 DEF CallStates
    <2> QED BY <2>1 DEF Over
  <1>9. CASE \E d \in Calls : Send(d) \/ Take(d)
    <2>1. UNCHANGED <<state, ready, seen>> /\ (holder[c] = "gone" => holder'[c] = "gone")
      BY <1>0, <1>9 DEF Send, Take, poolVars
    <2> QED BY <1>0, <2>1 DEF Over
  <1> QED BY <1>3, <1>4, <1>5, <1>6, <1>7, <1>8, <1>9 DEF Next, MainStep, GameStep

\* "cancel() ... guarantees the sink is never called again once it returns" (Net.md), on whichever
\* thread it runs, and no result arrives afterwards: HttpCall::cancel, deliver and CallCompletions.
THEOREM NothingAfterCancel == Spec => SilentAfterCancel
  <1>0. IInv => \A c \in Calls, w \in Workers : Over(c) /\ worker[w].at = "sink" => worker[w].call # c
    BY OverRunsNoSink
  <1>01. (IInv => \A c \in Calls, w \in Workers : Over(c) /\ worker[w].at = "sink" => worker[w].call # c)'
    BY <1>0, PTL
  <1>1. ASSUME IInv, IInv', Next, NEW c \in Calls, Over(c)
        PROVE  /\ seen'[c] = seen[c] /\ state'[c].result = state[c].result
               /\ \A w \in Workers : worker'[w].at = "sink" => worker'[w].call # c
    <2>1. Over(c)' /\ seen'[c] = seen[c] /\ state'[c].result = state[c].result
      BY <1>1, OverStays
    <2> QED BY <1>1, <1>01, <2>1
  <1>2. IInv /\ IInv' /\ [Next]_vars =>
          [\A c \in Calls : Over(c) => /\ seen'[c] = seen[c] /\ state'[c].result = state[c].result
                                       /\ \A w \in Workers : worker'[w].at = "sink" => worker'[w].call # c]_vars
    BY <1>1
  <1> QED BY <1>2, Invariance, PTL DEF Spec, SilentAfterCancel

--------------------------------------------------------------------------------
(* The contract of CallContract.                                                *)

Status == [c \in Calls |-> StatusOf(c)]

\* A step that no holder can tell leaves every call's status.
LEMMA UnseenStatus ==
  ASSUME NEW c \in Calls, Unseen(c)
  PROVE  StatusOf(c)' = StatusOf(c)
  BY DEF Unseen, StatusOf

LEMMA UnseenAll ==
  ASSUME \A c \in Calls : Unseen(c)
  PROVE  Status' = Status
  BY UnseenStatus DEF Status

\* The calls of S go from one status to another, and nothing happens to the others.
LEMMA Moves ==
  ASSUME NEW S \in SUBSET Calls, NEW from, NEW to,
         \A c \in S : StatusOf(c) = from /\ StatusOf(c)' = to,
         \A c \in Calls \ S : StatusOf(c)' = StatusOf(c)
  PROVE  Contract!Move(S, from, to)
  <1>1. \A c \in S : Status[c] = from
    BY DEF Status
  <1>2. Status' = [c \in Calls |-> IF c \in S THEN to ELSE Status[c]]
    BY DEF Status
  <1> QED BY <1>1, <1>2 DEF Contract!Move, Status

\* A cancelled call that is marked again does not move; a pending one is cancelled.
LEMMA MarkedMoves ==
  ASSUME IInv, NEW c \in Calls, state' = [state EXCEPT ![c].cancelled = TRUE], holder' = holder,
         state[c].result = NoResult, holder[c] = "held" \/ (holder[c] = "gone" /\ state[c].cancelled)
  PROVE  Contract!Cancel(c) \/ Status' = Status
  <1>1. \A d \in Calls \ {c} : StatusOf(d)' = StatusOf(d)
    <2> TAKE d \in Calls \ {c}
    <2>1. Unseen(d)
      BY MainTypes DEF Unseen
    <2> QED BY <2>1, UnseenStatus
  <1>2. state'[c].cancelled /\ state'[c].result = NoResult /\ holder'[c] = holder[c]
    BY MainTypes DEF CallStates
  <1>3. StatusOf(c)' = "cancelled"
    BY <1>2 DEF StatusOf
  <1>4. StatusOf(c) = IF state[c].cancelled THEN "cancelled" ELSE "pending"
    BY DEF StatusOf
  <1>5. CASE state[c].cancelled
    BY <1>1, <1>3, <1>4, <1>5 DEF Status
  <1>6. CASE ~state[c].cancelled
    BY <1>1, <1>3, <1>4, <1>6, Moves DEF Contract!Cancel
  <1> QED BY <1>5, <1>6

\* Every step is one of the contract, or changes nothing that it speaks of.
LEMMA StepRefines ==
  ASSUME IInv, Next
  PROVE  Contract!Next \/ Status' = Status
  <1>0. /\ state \in [Calls -> CallStates] /\ holder \in [Calls -> {"none", "held", "gone"}]
        /\ \A c \in Calls : ResultInv(c)
    BY MainTypes DEF IInv, CallInv
  <1>1. CASE \E w \in Workers : WorkerStep(w)
    BY <1>1, WorkerUnseen, UnseenAll
  <1>2. CASE Abort \/ DrainSink \/ DisposeStops \/ DisposeJoins \/ Poll \/ Dispose \/ \E d \in Calls : DrainTakes(d)
    BY <1>2, QuietUnseen, UnseenAll
  <1>3. ASSUME NEW c \in Calls, Send(c) PROVE Contract!Sent(c)
    <2>1. /\ state' = state /\ holder[c] = "none" /\ holder'[c] = "held"
          /\ \A d \in Calls \ {c} : holder'[d] = holder[d]
      BY <1>0, <1>3 DEF Send
    <2>2. state[c].result = NoResult /\ ~state[c].cancelled
      BY <1>0, <2>1 DEF ResultInv, Unsent, NewState
    <2>3. StatusOf(c) = "none" /\ StatusOf(c)' = "pending"
      BY <2>1, <2>2 DEF StatusOf
    <2>4. \A d \in Calls \ {c} : StatusOf(d)' = StatusOf(d)
      BY <2>1, UnseenStatus DEF Unseen
    <2> QED BY <2>3, <2>4, Moves DEF Contract!Sent
  <1>4. ASSUME NEW c \in Calls, Take(c) PROVE Contract!Take(c)
    <2>1. /\ state' = state /\ holder[c] = "held" /\ holder'[c] = "gone" /\ state[c].result # NoResult
          /\ \A d \in Calls \ {c} : holder'[d] = holder[d]
      BY <1>0, <1>4 DEF Take
    <2>2. ~state[c].cancelled
      BY <1>0, <2>1 DEF ResultInv
    <2>3. StatusOf(c) = "resolved" /\ StatusOf(c)' = "taken"
      BY <2>1, <2>2 DEF StatusOf
    <2>4. \A d \in Calls \ {c} : StatusOf(d)' = StatusOf(d)
      BY <2>1, UnseenStatus DEF Unseen
    <2> QED BY <2>3, <2>4, Moves DEF Contract!Take
  <1>5. ASSUME NEW c \in Calls, Cancel(c) PROVE Contract!Cancel(c) \/ Status' = Status
    BY <1>5, MarkedMoves DEF Cancel
  <1>6. ASSUME NEW c \in Calls, DisposeCancels(c) PROVE Contract!Cancel(c) \/ Status' = Status
    <2>1. c \in live
      BY <1>6, MainTypes DEF DisposeCancels
    <2>2. state[c].result = NoResult /\ (holder[c] = "held" \/ (holder[c] = "gone" /\ state[c].cancelled))
      BY <1>0, <2>1, LiveCall
    <2> QED BY <1>6, <2>2, MarkedMoves DEF DisposeCancels
  <1>7. CASE CancelReturns
    <2>1. main.at = "wait"
      BY <1>7 DEF CancelReturns
    <2> PICK c \in Calls : c = main.call /\ state[c].cancelled /\ state[c].result = NoResult
      BY <2>1, MainCall
    <2>2. state' = state /\ \A d \in Calls \ {c} : holder'[d] = holder[d]
      BY <1>0, <1>7 DEF CancelReturns
    <2>3. holder'[c] = holder[c] \/ (holder[c] = "held" /\ holder'[c] = "gone")
      BY <1>0, <1>7, <2>1 DEF CancelReturns, IInv, MainInv
    <2>4. StatusOf(c)' = StatusOf(c)
      BY <2>2, <2>3 DEF StatusOf
    <2>5. \A d \in Calls \ {c} : StatusOf(d)' = StatusOf(d)
      BY <2>2, UnseenStatus DEF Unseen
    <2> QED BY <2>4, <2>5 DEF Status
  <1>8. CASE Deliver
    <2> PICK S \in SUBSET Calls : S = {c \in Calls : Delivered(c)}
      OBVIOUS
    <2>1. holder' = holder
      BY <1>8 DEF Deliver
    <2>2. ASSUME NEW c \in Calls \ S PROVE StatusOf(c)' = StatusOf(c)
      <3>1. state'[c] = state[c]
        BY <1>8 DEF Deliver
      <3> QED BY <2>1, <3>1, UnseenStatus DEF Unseen
    <2>3. ASSUME NEW c \in S PROVE StatusOf(c) = "pending" /\ StatusOf(c)' = "resolved"
      <3>1. c \in Calls /\ Done(c) /\ ~state[c].cancelled
        BY DEF Delivered, Done
      <3>2. state'[c].result = ResultOf(c) /\ ResultOf(c) # NoResult
        <4>1. state'[c] = [state[c] EXCEPT !.result = ResultOf(c)]
          BY <1>8, <3>1 DEF Deliver
        <4> QED BY <1>0, <3>1, <4>1, ResultPushed DEF CallStates, Results, NoResult
      <3>3. Placed(c)
        BY <3>1 DEF Placed
      <3>4. holder[c] = "held" /\ state[c].result = NoResult
        BY <1>0, <3>1, <3>3 DEF ResultInv, Unsent
      <3> QED BY <2>1, <3>1, <3>2, <3>4 DEF StatusOf
    <2>4. Contract!Resolve(S)
      BY <2>2, <2>3, Moves DEF Contract!Resolve
    <2> QED BY <2>4 DEF Contract!Next
  <1> QED BY <1>1, <1>2, <1>3, <1>4, <1>5, <1>6, <1>7, <1>8 DEF Next, MainStep, GameStep, Contract!Next

\* The calls keep the contract of CallContract: a result arrives once, for a call that is pending, and
\* never after a cancel; what the threads do in between shows nothing (HttpCall, CallCompletions).
THEOREM CallsKeepContract == Spec => KeepsContract
  <1>1. Init => Contract!Init
    BY DEF Init, Contract!Init, StatusOf
  <1>2. IInv /\ [Next]_vars => [Contract!Next]_Status
    <2>1. ASSUME UNCHANGED vars PROVE Status' = Status
      <3>1. \A c \in Calls : Unseen(c)
        BY <2>1 DEF vars, Unseen
      <3> QED BY <3>1, UnseenAll
    <2> QED BY <2>1, StepRefines
  <1> QED BY <1>1, <1>2, Invariance, PTL DEF Spec, KeepsContract, Contract!Spec, Status
================================================================================
