------------------------------- MODULE HttpCalls -------------------------------
(* HTTP calls: the main thread that sends, polls, takes, cancels and disposes,  *)
(* the workers that run blocking transfers (as WinHTTP does: a cancel closes    *)
(* the request handle), and the state both share.  A body is its chunks, by     *)
(* number; every response and failure of the network is a choice.  Waiting on   *)
(* a condition variable is waiting for the condition: every change of one is    *)
(* followed by a notification under its mutex.                                  *)
EXTENDS Naturals, Sequences

CONSTANTS Calls,
          Workers,
          Route,       \* where a call's body goes: to a sink on the "worker", to one "queued" for the main
                       \* thread, or to "none" (no sink, or a response that is not a 2xx)
          QueueLimit,  \* kSinkQueueBytes, in chunks
          MaxChunks    \* bound: chunks of a body

ASSUME HttpAssumption ==
  /\ Route \in [Calls -> {"none", "worker", "queued"}]
  /\ QueueLimit \in Nat \ {0} /\ MaxChunks \in Nat

VARIABLES
  state,     \* HttpCallState of each call
  holder,    \* HttpCall: "none" before send, "held", "gone" once its state is reset
  live,      \* HttpClient::Impl::live
  ready,     \* HttpClient::Impl::ready
  jobs,      \* HttpWorkerPool::jobs_
  stopping,  \* HttpWorkerPool::stopping_
  done,      \* CallCompletions::done_
  worker,    \* of each worker: where it is, its call, the result it has
  main,      \* where the main thread is, its call, the chunks it hands to the sink, and
             \* whether it is in dispose
  todo,      \* the calls of live it has still to visit, in poll or dispose
  closes,    \* of the model: how often the call's request handle was closed
  seen       \* of the model: the chunks the call's sink was given

vars == <<state, holder, live, ready, jobs, stopping, done, worker, main, todo, closes, seen>>

NoResult == "none"
\* "unopened": the error of a transfer that got no request handle.
Results == {"ok", "error", "aborted", "unopened"}
NewState == [cancelled |-> FALSE, abort |-> FALSE, aborted |-> FALSE, received |-> 0, queue |-> <<>>, draining |-> FALSE,
             running |-> FALSE, failed |-> FALSE, result |-> NoResult]
NoCall == "none"
At(where) == [at |-> where, call |-> NoCall, result |-> NoResult]
InGame == [at |-> "game", call |-> NoCall, chunks |-> <<>>, disposing |-> FALSE]

Init ==
  /\ state = [c \in Calls |-> NewState]
  /\ holder = [c \in Calls |-> "none"]
  /\ live = {}
  /\ ready = TRUE
  /\ jobs = <<>>
  /\ stopping = FALSE
  /\ done = <<>>
  /\ worker = [w \in Workers |-> At("idle")]
  /\ main = InGame
  /\ todo = {}
  /\ closes = [c \in Calls |-> 0]
  /\ seen = [c \in Calls |-> <<>>]

poolVars == <<ready, jobs, stopping>>

--------------------------------------------------------------------------------
\* The main thread.

\* HttpClient::send: refused at once (a malformed URL, no backend), or handed to the pool.
Send(c) ==
  /\ main.at = "game" /\ holder[c] = "none"
  /\ holder' = [holder EXCEPT ![c] = "held"]
  /\ \/ /\ done' = Append(done, [call |-> c, result |-> "error"])
        /\ UNCHANGED <<live, jobs>>
     \/ /\ ready
        /\ live' = live \cup {c}
        /\ jobs' = Append(jobs, c)
        /\ UNCHANGED done
  /\ UNCHANGED <<state, ready, stopping, worker, main, todo, closes, seen>>

\* HttpCall::take with a result, or dropping a call that has one.
Take(c) ==
  /\ main.at = "game" /\ holder[c] = "held" /\ state[c].result # NoResult
  /\ holder' = [holder EXCEPT ![c] = "gone"]
  /\ UNCHANGED <<state, live, poolVars, done, worker, main, todo, closes, seen>>

\* HttpCall::cancel without a result: HttpCallState::cancel marks the call first.
Cancel(c) ==
  /\ main.at = "game" /\ holder[c] = "held" /\ state[c].result = NoResult
  /\ state' = [state EXCEPT ![c].cancelled = TRUE]
  /\ main' = [main EXCEPT !.at = "abort", !.call = c]
  /\ UNCHANGED <<holder, live, poolVars, done, worker, todo, closes, seen>>

\* Mutant of Abort: the transfer is not told that its handle is closed.
AbortUnmarked ==
  LET c == main.call IN
  /\ main.at = "abort"
  /\ main' = [main EXCEPT !.at = "wait"]
  /\ state' = [state EXCEPT ![c].abort = FALSE]
  /\ closes' = [closes EXCEPT ![c] = @ + (IF state[c].abort THEN 1 ELSE 0)]
  /\ UNCHANGED <<holder, live, poolVars, done, worker, todo, seen>>

\* Its second part, under the mutex: the abort, if the transfer registered one, closes the handle.
Abort ==
  LET c == main.call IN
  /\ main.at = "abort"
  /\ main' = [main EXCEPT !.at = "wait"]
  /\ state' = [state EXCEPT ![c].abort = FALSE, ![c].aborted = @ \/ state[c].abort]
  /\ closes' = [closes EXCEPT ![c] = @ + (IF state[c].abort THEN 1 ELSE 0)]
  /\ UNCHANGED <<holder, live, poolVars, done, worker, todo, seen>>

\* Mutant of SinkIdle: cancel does not wait for a sink that runs.
SinkIdleAlways(c) == TRUE

\* What cancel waits for before it returns.
SinkIdle(c) == ~state[c].running

\* It returns once no sink runs; in dispose the next call follows.
CancelReturns ==
  LET c == main.call IN
  /\ main.at = "wait" /\ SinkIdle(c)
  /\ main' = IF main.disposing THEN [main EXCEPT !.at = "dispose", !.call = NoCall] ELSE InGame
  /\ holder' = IF main.disposing THEN holder ELSE [holder EXCEPT ![c] = "gone"]
  /\ UNCHANGED <<state, live, poolVars, done, worker, todo, closes, seen>>

\* HttpClient::poll: every live call's sink first.
Poll ==
  /\ main.at = "game"
  /\ main' = [main EXCEPT !.at = "drain"]
  /\ todo' = live
  /\ UNCHANGED <<state, holder, live, poolVars, done, worker, closes, seen>>

\* HttpCallState::drain_sink takes the waiting chunks under the mutex.
DrainTakes(c) ==
  /\ main.at = "drain" /\ c \in todo
  /\ todo' = todo \ {c}
  /\ IF state[c].queue = <<>> THEN UNCHANGED <<state, main>>
     ELSE /\ main' = [main EXCEPT !.at = "sink", !.call = c, !.chunks = state[c].queue]
          /\ state' = [state EXCEPT ![c].queue = <<>>, ![c].draining = TRUE]
  /\ UNCHANGED <<holder, live, poolVars, done, worker, closes, seen>>

\* It hands them to the sink without the mutex, until the sink says no.
DrainSink ==
  LET c == main.call IN
  /\ main.at = "sink"
  /\ IF main.chunks = <<>> \/ state[c].cancelled \/ state[c].failed
     THEN /\ state' = [state EXCEPT ![c].draining = FALSE]
          /\ main' = [main EXCEPT !.at = "drain", !.call = NoCall, !.chunks = <<>>]
          /\ UNCHANGED seen
     ELSE /\ seen' = [seen EXCEPT ![c] = Append(@, Head(main.chunks))]
          /\ main' = [main EXCEPT !.chunks = Tail(@)]
          /\ \E keep_going \in BOOLEAN : state' = [state EXCEPT ![c].failed = ~keep_going]
  /\ UNCHANGED <<holder, live, poolVars, done, worker, todo, closes>>

\* Mutant of Delivered: a cancelled call gets its result too.
DeliveredAll(c) == \E k \in DOMAIN done : done[k].call = c

\* CallCompletions::deliver: the calls pushed so far that were not cancelled get their result.
Delivered(c) ==
  \E k \in DOMAIN done : done[k].call = c /\ ~state[c].cancelled

ResultOf(c) == done[CHOOSE k \in DOMAIN done : done[k].call = c].result

\* The end of poll: deliver, then live keeps what is still under way.
Deliver ==
  /\ main.at = "drain" /\ todo = {}
  /\ main' = InGame
  /\ state' = [c \in Calls |-> IF Delivered(c) THEN [state[c] EXCEPT !.result = ResultOf(c)] ELSE state[c]]
  /\ done' = <<>>
  /\ live' = {c \in live : ~Delivered(c) /\ ~state[c].cancelled}
  /\ UNCHANGED <<holder, poolVars, worker, todo, closes, seen>>

\* HttpClient::dispose cancels every live call ...
Dispose ==
  /\ main.at = "game" /\ ready
  /\ main' = [main EXCEPT !.at = "dispose", !.disposing = TRUE]
  /\ todo' = live
  /\ UNCHANGED <<state, holder, live, poolVars, done, worker, closes, seen>>

DisposeCancels(c) ==
  /\ main.at = "dispose" /\ c \in todo
  /\ todo' = todo \ {c}
  /\ state' = [state EXCEPT ![c].cancelled = TRUE]
  /\ main' = [main EXCEPT !.at = "abort", !.call = c]
  /\ UNCHANGED <<holder, live, poolVars, done, worker, closes, seen>>

\* ... then HttpWorkerPool::stop drops what is queued and joins the workers.
DisposeStops ==
  /\ main.at = "dispose" /\ todo = {}
  /\ main' = [main EXCEPT !.at = "join"]
  /\ live' = {}
  /\ stopping' = TRUE
  /\ jobs' = <<>>
  /\ UNCHANGED <<state, holder, ready, done, worker, todo, closes, seen>>

DisposeJoins ==
  /\ main.at = "join" /\ \A w \in Workers : worker[w].at = "gone"
  /\ main' = InGame
  /\ ready' = FALSE
  /\ UNCHANGED <<state, holder, live, jobs, stopping, done, worker, todo, closes, seen>>

--------------------------------------------------------------------------------
\* A worker.  Its own steps leave what only the main thread writes.
mainVars == <<holder, live, ready, stopping, main, todo>>

Goto(w, where) == worker' = [worker EXCEPT ![w].at = where]
EndWith(w, result) == worker' = [worker EXCEPT ![w].at = "end", ![w].result = result]
FinishWith(w, result) == worker' = [worker EXCEPT ![w].at = "finish", ![w].result = result]

\* HttpWorkerPool::run: the next job, or the end of the thread.
PopJob(w) ==
  /\ worker[w].at = "idle"
  /\ \/ stopping /\ Goto(w, "gone") /\ UNCHANGED jobs
     \/ /\ ~stopping /\ jobs # <<>>
        /\ worker' = [worker EXCEPT ![w].at = "check", ![w].call = Head(jobs)]
        /\ jobs' = Tail(jobs)
  /\ UNCHANGED <<mainVars, state, done, closes, seen>>

\* A call cancelled while queued never starts.
CheckJob(w) ==
  /\ worker[w].at = "check"
  /\ worker' = IF state[worker[w].call].cancelled THEN [worker EXCEPT ![w] = At("idle")]
               ELSE [worker EXCEPT ![w].at = "begin"]
  /\ UNCHANGED <<mainVars, jobs, state, done, closes, seen>>

\* WinHttpSession::transfer: no connection or no handle, or it opens the handle and registers the
\* abort, unless the call is cancelled.  The result is an error until exchange has another.
BeginTransfer(w) ==
  LET c == worker[w].call IN
  /\ worker[w].at = "begin"
  /\ \/ FinishWith(w, "unopened") /\ UNCHANGED <<state, closes>>
     \/ /\ state[c].cancelled
        /\ FinishWith(w, "error")
        /\ closes' = [closes EXCEPT ![c] = @ + 1]
        /\ UNCHANGED state
     \/ /\ ~state[c].cancelled
        /\ worker' = [worker EXCEPT ![w].at = "ask", ![w].result = "error"]
        /\ state' = [state EXCEPT ![c].abort = TRUE]
        /\ UNCHANGED closes
  /\ UNCHANGED <<mainVars, jobs, done, seen>>

\* exchange before the request and before each piece of the body: is the call cancelled?
AskCancelled(w) ==
  /\ worker[w].at = "ask"
  /\ IF state[worker[w].call].cancelled THEN EndWith(w, "error") ELSE Goto(w, "query")
  /\ UNCHANGED <<mainVars, jobs, state, done, closes, seen>>

\* The calls that wait for the peer: they fail, the body is over, or there is more of it to read.
Query(w) ==
  /\ worker[w].at = "query"
  /\ \/ EndWith(w, "error") \/ EndWith(w, "ok")
     \/ state[worker[w].call].received < MaxChunks /\ Goto(w, "read")
  /\ UNCHANGED <<mainVars, jobs, state, done, closes, seen>>

Read(w) ==
  /\ worker[w].at = "read"
  /\ EndWith(w, "error") \/ Goto(w, "accept")
  /\ UNCHANGED <<mainVars, jobs, state, done, closes, seen>>

\* HttpCallState::accept: a chunk is counted and goes to the sink, or to the response's body.
Accept(w) ==
  LET c == worker[w].call IN
  /\ worker[w].at = "accept"
  /\ IF state[c].cancelled THEN EndWith(w, "error") /\ UNCHANGED state
     ELSE /\ state' = [state EXCEPT ![c].received = @ + 1]
          /\ Goto(w, IF Route[c] = "none" THEN "ask" ELSE Route[c])
  /\ UNCHANGED <<mainVars, jobs, done, closes, seen>>

\* HttpCallState::deliver to a sink on this thread: under the mutex, unless the call is cancelled ...
EnterSink(w) ==
  LET c == worker[w].call IN
  /\ worker[w].at = "worker"
  /\ IF state[c].cancelled THEN EndWith(w, "error") /\ UNCHANGED state
     ELSE Goto(w, "sink") /\ state' = [state EXCEPT ![c].running = TRUE]
  /\ UNCHANGED <<mainVars, jobs, done, closes, seen>>

\* ... the sink runs; its answer counts once it left.
LeaveSink(w) ==
  LET c == worker[w].call IN
  /\ worker[w].at = "sink"
  /\ seen' = [seen EXCEPT ![c] = Append(@, state[c].received)]
  /\ \E keep_going \in BOOLEAN :
       /\ state' = [state EXCEPT ![c].failed = ~keep_going, ![c].running = FALSE]
       /\ IF keep_going THEN Goto(w, "ask") ELSE EndWith(w, "aborted")
  /\ UNCHANGED <<mainVars, jobs, done, closes>>

\* The room a chunk waits for.
Room(c) == Len(state[c].queue) < QueueLimit

\* deliver to a sink on the main thread: wait for room in the queue.
Enqueue(w) ==
  LET c == worker[w].call IN
  /\ worker[w].at = "queued"
  /\ IF state[c].cancelled \/ state[c].failed
     THEN EndWith(w, IF state[c].failed THEN "aborted" ELSE "error") /\ UNCHANGED state
     ELSE /\ Room(c)
          /\ state' = [state EXCEPT ![c].queue = Append(@, state[c].received)]
          /\ Goto(w, "ask")
  /\ UNCHANGED <<mainVars, jobs, done, closes, seen>>

\* HttpCallState::end_transfer: forget the abort; the handle is closed unless the abort closed it.
EndTransfer(w) ==
  LET c == worker[w].call IN
  /\ worker[w].at = "end"
  /\ state' = [state EXCEPT ![c].abort = FALSE]
  /\ closes' = [closes EXCEPT ![c] = @ + (IF state[c].aborted THEN 0 ELSE 1)]
  /\ Goto(w, "finish")
  /\ UNCHANGED <<mainVars, jobs, done, seen>>

\* Mutant of SinkFinished: chunks being handed over count as taken.
SinkFinishedWhenTaken(c) ==
  Route[c] = "queued" => state[c].queue = <<>> \/ state[c].cancelled \/ state[c].failed

\* What finish_sink waits for on the queued route.
SinkFinished(c) ==
  Route[c] = "queued" =>
    (state[c].queue = <<>> /\ ~state[c].draining) \/ state[c].cancelled \/ state[c].failed

\* run after the transfer: the main thread took every chunk, or will take none.
FinishSink(w) ==
  LET c == worker[w].call IN
  /\ worker[w].at = "finish" /\ SinkFinished(c)
  /\ worker' = [worker EXCEPT ![w].at = "push",
                              ![w].result = IF @ = "ok" /\ state[c].failed THEN "aborted" ELSE @]
  /\ UNCHANGED <<mainVars, jobs, state, done, closes, seen>>

\* Mutant of PushResult: a call whose sink said no is dropped as a cancelled one is.
PushResultUnlessFailed(w) ==
  LET c == worker[w].call IN
  /\ worker[w].at = "push"
  /\ done' = IF state[c].cancelled \/ state[c].failed THEN done
             ELSE Append(done, [call |-> c, result |-> worker[w].result])
  /\ worker' = [worker EXCEPT ![w] = At("idle")]
  /\ UNCHANGED <<mainVars, jobs, state, closes, seen>>

\* The result of a call cancelled while running is dropped.
PushResult(w) ==
  LET c == worker[w].call IN
  /\ worker[w].at = "push"
  /\ done' = IF state[c].cancelled THEN done ELSE Append(done, [call |-> c, result |-> worker[w].result])
  /\ worker' = [worker EXCEPT ![w] = At("idle")]
  /\ UNCHANGED <<mainVars, jobs, state, closes, seen>>

WorkerStep(w) ==
  \/ PopJob(w) \/ CheckJob(w) \/ BeginTransfer(w) \/ AskCancelled(w) \/ Query(w)
  \/ Read(w) \/ Accept(w) \/ EnterSink(w) \/ LeaveSink(w) \/ Enqueue(w) \/ EndTransfer(w)
  \/ FinishSink(w) \/ PushResult(w)

\* The main thread inside cancel, poll or dispose.
MainStep ==
  \/ Abort \/ CancelReturns \/ DrainSink \/ Deliver \/ DisposeStops \/ DisposeJoins
  \/ \E c \in Calls : DrainTakes(c) \/ DisposeCancels(c)

\* What the game does of its own will.
GameStep ==
  \/ \E c \in Calls : Send(c) \/ Take(c) \/ Cancel(c)
  \/ Dispose

Next == MainStep \/ Poll \/ GameStep \/ \E w \in Workers : WorkerStep(w)

Spec == Init /\ [][Next]_vars

\* Threads run, blocking calls and sinks return, and the game loop polls every frame.
Fairness ==
  /\ WF_vars(MainStep) /\ WF_vars(Poll)
  /\ \A w \in Workers : WF_vars(WorkerStep(w))

FairSpec == Spec /\ Fairness

--------------------------------------------------------------------------------
\* Where a call that was sent is: waiting for a worker, with one, or done and not delivered yet.
Busy == {"check", "begin", "ask", "query", "read", "accept", "worker", "sink", "queued", "end", "finish", "push"}
Queued(c) == \E k \in DOMAIN jobs : jobs[k] = c
Runs(w, c) == worker[w].at \in Busy /\ worker[w].call = c
Done(c) == \E k \in DOMAIN done : done[k].call = c

\* The pool and the completions never hold a call twice.
PlacedOnce ==
  /\ \A i, j \in DOMAIN jobs : jobs[i] = jobs[j] => i = j
  /\ \A i, j \in DOMAIN done : done[i].call = done[j].call => i = j
  /\ \A c \in Calls :
       /\ \A w, u \in Workers : Runs(w, c) /\ Runs(u, c) => w = u
       /\ ~(Queued(c) /\ Done(c))
       /\ \A w \in Workers : Runs(w, c) => ~Queued(c) /\ ~Done(c)

CallStates ==
  [cancelled : BOOLEAN, abort : BOOLEAN, aborted : BOOLEAN, received : 0 .. MaxChunks, queue : Seq(Nat),
   draining : BOOLEAN, running : BOOLEAN, failed : BOOLEAN, result : Results \cup {NoResult}]
WorkerStates == [at : Busy \cup {"idle", "gone"}, call : Calls \cup {NoCall}, result : Results \cup {NoResult}]
MainStates ==
  [at : {"game", "abort", "wait", "drain", "sink", "dispose", "join"}, call : Calls \cup {NoCall},
   chunks : Seq(Nat), disposing : BOOLEAN]

CallTypes ==
  /\ state \in [Calls -> CallStates]
  /\ holder \in [Calls -> {"none", "held", "gone"}]
  /\ closes \in [Calls -> Nat] /\ seen \in [Calls -> Seq(Nat)]

PoolTypes ==
  /\ live \subseteq Calls /\ todo \subseteq live
  /\ ready \in BOOLEAN /\ stopping \in BOOLEAN
  /\ jobs \in Seq(Calls) /\ done \in Seq([call : Calls, result : Results])

ThreadTypes ==
  /\ worker \in [Workers -> WorkerStates] /\ \A w \in Workers : worker[w].at \in Busy => worker[w].call \in Calls
  /\ main \in MainStates

\* Every variable keeps its type; the queue of a sink never holds more than its limit, and a call is
\* queued, run or done once at most.
TypeOK ==
  /\ CallTypes /\ PoolTypes /\ ThreadTypes
  /\ \A c \in Calls : Len(state[c].queue) <= QueueLimit
  /\ PlacedOnce

\* "A request with a sink gets the body of a 2xx response in order", and "the result is delivered
\* only after the sink saw the whole body" (Net.md): the sink sees each chunk once, and all of them
\* before the call has its response.  With the types.
SinkSeesBody ==
  /\ TypeOK
  /\ \A c \in Calls :
       /\ seen[c] = [k \in 1 .. Len(seen[c]) |-> k]
       /\ state[c].result = "ok" /\ Route[c] # "none" =>
            Len(seen[c]) = state[c].received /\ ~state[c].failed

\* The call was cancelled and cancel, or dispose, has returned.
Over(c) == state[c].cancelled /\ (holder[c] = "gone" \/ ~ready)

\* "cancel() ... guarantees the sink is never called again once it returns" (Net.md), on whichever
\* thread it runs, and no result arrives afterwards.
SilentAfterCancel ==
  [][\A c \in Calls : Over(c) => /\ seen'[c] = seen[c] /\ state'[c].result = state[c].result
                                 /\ \A w \in Workers : worker'[w].at = "sink" => worker'[w].call # c]_vars

\* "so a handle is closed exactly once" (Net.md): by the abort or by the transfer that ends; and not
\* at all by one that got none.
ClosedOnce ==
  \A c \in Calls :
    /\ closes[c] <= 1
    /\ \A w \in Workers : worker[w].call = c /\ worker[w].at \in {"finish", "push"} =>
         closes[c] = IF worker[w].result = "unopened" THEN 0 ELSE 1

\* "Every WinHTTP call checks `cancelled` first: once a cancel closed the handle, the value must not
\* be used" (winhttp_session.cpp): the body is not read through a handle a cancel has closed.
UsesOpenHandle ==
  [][\A w \in Workers : worker[w].at = "read" /\ worker'[w] # worker[w] =>
       closes[worker[w].call] = 0]_vars

\* A call that was sent keeps the contract of CallContract, whatever the threads do.
StatusOf(c) ==
  CASE holder[c] = "none" -> "none"
    [] holder[c] = "held" /\ state[c].result # NoResult -> "resolved"
    [] holder[c] = "held" /\ state[c].result = NoResult /\ ~state[c].cancelled -> "pending"
    [] holder[c] = "gone" /\ ~state[c].cancelled -> "taken"
    [] OTHER -> "cancelled"

Contract == INSTANCE CallContract WITH status <- [c \in Calls |-> StatusOf(c)]
KeepsContract == Contract!Spec

\* Nobody waits for ever: the main thread always comes back to the game, from a cancel that waits for
\* a sink and from a dispose that joins every worker, and every call pending ends, so no worker waits
\* for ever for room or for a drain.
Ends ==
  /\ []<>(main.at = "game")
  /\ \A c \in Calls : StatusOf(c) = "pending" ~> StatusOf(c) # "pending"
================================================================================
