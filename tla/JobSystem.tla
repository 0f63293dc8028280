------------------------------- MODULE JobSystem -------------------------------
(* The worker pool of the engine: background jobs (submit, cancel, take, poll,  *)
(* cancel_all, wait_idle, stop) and fork-join batches (parallel_for), which     *)
(* share the same threads.  One action is one critical section of the code, or  *)
(* one piece of code that runs outside every lock; a notification sent outside  *)
(* the lock is a step of its own.  JobState::owner is not kept: it is set       *)
(* exactly while the status is Queued, Running or Finished.                     *)
EXTENDS Integers, FiniteSets

CONSTANTS Workers,      \* the threads the constructor starts
          Main,         \* the owner thread: every API call is made on it
          Jobs,         \* the jobs that may be submitted
          None,         \* no job
          Prios,        \* the priorities callers use
          NumRanges,    \* ranges of one parallel_for, the caller's first one included
          MaxBatches    \* bound: how many times parallel_for is called

ASSUME WorkersAssumption == IsFiniteSet(Workers) /\ Main \notin Workers
ASSUME JobsAssumption == None \notin Jobs
ASSUME PriosAssumption == Prios \subseteq Int
ASSUME RangesAssumption == NumRanges \in Nat /\ NumRanges >= 2 /\ MaxBatches \in Nat

Threads == Workers \cup {Main}
Batches == 1 .. MaxBatches
Ranges == 0 .. NumRanges - 1

VARIABLES
  job,        \* JobState of every job
  held,       \* jobs whose JobHandle still refers to its state
  queue,      \* std::set<Queued>
  running,    \* Impl::running
  finished,   \* Impl::finished
  busy, nextSeq,
  workers,    \* worker_count(): 0 once stop has joined them
  stopping, published,
  batch,      \* Impl::batch, 0 when null
  seen,       \* per worker: the last batch number it saw
  next, left, \* per batch: Batch::next, Batch::left
  op,         \* the API call Main is in
  pc,         \* per thread
  cur,        \* per thread: the job it took in run_one
  doomed,     \* per thread: slots taken out under the lock, to be destroyed after it
  mine,       \* per thread: the batch it participates in
  rng,        \* per thread: the range it claimed
  destroyed,  \* history: how often the slot of each job was destroyed
  visits      \* history: how often each range of each batch ran

jobVars == <<job, held, queue, running, finished, busy, nextSeq, destroyed>>
batchVars == <<batch, published, seen, next, left, mine, rng, visits>>
poolVars == <<workers, stopping>>
vars == <<jobVars, batchVars, poolVars, op, pc, cur, doomed>>

NewJob == [status |-> "New", cancelled |-> FALSE, slot |-> FALSE, value |-> FALSE,
           prio |-> 0, seq |-> 0]

Init ==
  /\ job = [j \in Jobs |-> NewJob]
  /\ held = {} /\ queue = {} /\ running = {} /\ finished = {}
  /\ busy = 0 /\ nextSeq = 0
  /\ workers = Cardinality(Workers) /\ stopping = FALSE
  /\ published = 0 /\ batch = 0
  /\ seen = [w \in Workers |-> 0]
  /\ next = [b \in Batches |-> 0] /\ left = [b \in Batches |-> 0]
  /\ op = "none"
  /\ pc = [t \in Threads |-> IF t = Main THEN "ready" ELSE "loop"]
  /\ cur = [t \in Threads |-> None] /\ doomed = [t \in Threads |-> {}]
  /\ mine = [t \in Threads |-> 0] /\ rng = [t \in Threads |-> 0]
  /\ destroyed = [j \in Jobs |-> 0]
  /\ visits = [b \in Batches |-> [r \in Ranges |-> 0]]

--------------------------------------------------------------------------------
(* The mutex and the condition variables.  A critical section is one action,    *)
(* except that a worker which ends run_one keeps the mutex ("locked") until it  *)
(* has looked at the wait predicate again.                                      *)

MutexFree == \A w \in Workers : pc[w] # "locked"

WakeAll(p) == [t \in Threads |-> IF p[t] = "asleep" THEN "loop" ELSE p[t]]

\* notify_one: any one sleeping worker, or nobody.
WakeOne(p) == LET Asleep == {w \in Workers : p[w] = "asleep"}
              IN IF Asleep = {} THEN {p} ELSE {[p EXCEPT ![w] = "loop"] : w \in Asleep}

WakeIdle(p) == [p EXCEPT ![Main] = IF @ = "idle_asleep" THEN "idle_check" ELSE @]
\* Batch::done belongs to one batch: only a caller that waits for b can be woken by it.
WakeDone(p, b) == [p EXCEPT ![Main] = IF @ = "done_asleep" /\ mine[Main] = b THEN "done_check" ELSE @]

Goto(t, label) == [pc EXCEPT ![t] = label]

\* Mutant: jobs may take every worker.
job_capAllWorkers == workers
job_cap == IF workers >= 2 THEN workers - 1 ELSE workers
can_take_job == queue # {} /\ busy < job_cap

Entry(j, p, s) == [prio |-> p, seq |-> s, job |-> j]
Before(e, f) == e.prio > f.prio \/ (e.prio = f.prio /\ e.seq < f.seq)
\* What std::set::erase(key) leaves: the entries with another (priority, seq).
EraseKey(p, s) == {e \in queue : ~(e.prio = p /\ e.seq = s)}

\* Mutant: drop leaves the slot in the state.
DroppedKeepsSlot(r) == [r EXCEPT !.cancelled = TRUE, !.status = "Dropped"]
\* drop: the job leaves the system cancelled and its slot is taken out.
Dropped(r) == [r EXCEPT !.cancelled = TRUE, !.slot = FALSE, !.status = "Dropped"]

--------------------------------------------------------------------------------
(* run_one, on a worker or (without workers) on Main.                           *)

TakeJob(t) ==
  \E e \in queue :
    /\ \A f \in queue \ {e} : Before(e, f)
    /\ queue' = queue \ {e}
    /\ job' = [job EXCEPT ![e.job].status = "Running"]
    /\ running' = running \cup {e.job}
    /\ busy' = busy + 1
    /\ cur' = [cur EXCEPT ![t] = e.job]
    /\ pc' = Goto(t, "running")
    /\ UNCHANGED <<held, finished, nextSeq, destroyed, batchVars, poolVars, doomed>>

\* Where run_one returns to, mutex held: the worker loop, or the loop of poll or wait_idle.
AfterJob(t) == IF t = Main THEN "inline" ELSE "locked"

\* Mutant: nobody signals idle.
LeaveJobNoIdle(t) ==
  /\ busy' = busy - 1
  /\ cur' = [cur EXCEPT ![t] = None]
  /\ pc' \in WakeOne(Goto(t, AfterJob(t)))

\* The tail of run_one: --busy, idle.notify_all, wake.notify_one.
LeaveJob(t) ==
  /\ busy' = busy - 1
  /\ cur' = [cur EXCEPT ![t] = None]
  /\ pc' \in WakeOne(WakeIdle(Goto(t, AfterJob(t))))

\* Mutant: the worker does not look at the token again.
JobReturnsIgnoringToken(t) ==
  /\ pc[t] = "running" /\ MutexFree
  /\ running' = running \ {cur[t]}
  /\ job' = [job EXCEPT ![cur[t]].status = "Finished", ![cur[t]].value = TRUE]
  /\ finished' = finished \cup {cur[t]}
  /\ LeaveJob(t)
  /\ UNCHANGED <<held, queue, nextSeq, destroyed, batchVars, poolVars, op, doomed>>

\* The function returned, its token read, and the lock taken again.
JobReturns(t) ==
  LET j == cur[t] IN
  /\ pc[t] = "running" /\ MutexFree
  /\ running' = running \ {j}
  /\ IF job[j].cancelled
     THEN /\ job' = [job EXCEPT ![j] = Dropped(@)]
          /\ doomed' = [doomed EXCEPT ![t] = IF job[j].slot THEN {j} ELSE {}]
          /\ pc' = Goto(t, "destroy")
          /\ UNCHANGED <<finished, busy, cur>>
     ELSE /\ job' = [job EXCEPT ![j].status = "Finished", ![j].value = TRUE]
          /\ finished' = finished \cup {j}
          /\ LeaveJob(t)
          /\ UNCHANGED doomed
  /\ UNCHANGED <<held, queue, nextSeq, destroyed, batchVars, poolVars, op>>

\* The slot of a job cancelled while it ran is gone: take the lock and leave.
LeaveCancelled(t) ==
  /\ pc[t] = "leave" /\ MutexFree
  /\ LeaveJob(t)
  /\ UNCHANGED <<job, held, queue, running, finished, nextSeq, destroyed, batchVars, poolVars,
                 op, doomed>>

\* Destructors of doomed slots, outside the lock: in run_one, in a cancelled call, in cancel_all.
DestroyDoomed(t) ==
  /\ pc[t] = "destroy"
  /\ destroyed' = [j \in Jobs |-> destroyed[j] + IF j \in doomed[t] THEN 1 ELSE 0]
  /\ doomed' = [doomed EXCEPT ![t] = {}]
  /\ pc' = Goto(t, IF cur[t] # None THEN "leave"
                   ELSE IF op = "none" THEN "ready" ELSE "idle_check")
  /\ UNCHANGED <<job, held, queue, running, finished, busy, nextSeq, batchVars, poolVars, op, cur>>

--------------------------------------------------------------------------------
(* The worker loop.                                                             *)

\* Woken, started, or back from run_one: the mutex is this worker's.
HasMutex(w) == pc[w] = "locked" \/ (pc[w] = "loop" /\ MutexFree)

SeeBatch(w) ==
  /\ HasMutex(w) /\ published # seen[w]
  /\ seen' = [seen EXCEPT ![w] = published]
  /\ mine' = [mine EXCEPT ![w] = batch]
  /\ pc' = Goto(w, IF batch = 0 THEN "loop" ELSE "claim")
  /\ UNCHANGED <<jobVars, batch, published, next, left, rng, visits, poolVars, op, cur, doomed>>

WorkerExit(w) ==
  /\ HasMutex(w) /\ published = seen[w] /\ stopping
  /\ pc' = Goto(w, "exited")
  /\ UNCHANGED <<jobVars, batchVars, poolVars, op, cur, doomed>>

WorkerTakesJob(w) ==
  /\ HasMutex(w) /\ published = seen[w] /\ ~stopping /\ can_take_job
  /\ TakeJob(w)
  /\ UNCHANGED op

WorkerWaits(w) ==
  /\ HasMutex(w) /\ published = seen[w] /\ ~stopping /\ ~can_take_job
  /\ pc' = Goto(w, "asleep")
  /\ UNCHANGED <<jobVars, batchVars, poolVars, op, cur, doomed>>

--------------------------------------------------------------------------------
(* participate: claim a range, run it, count it down.                           *)

ClaimRange(t) ==
  LET b == mine[t]  i == next[b] IN
  /\ pc[t] = "claim"
  /\ next' = [next EXCEPT ![b] = i + 1]
  /\ IF i >= NumRanges
     THEN /\ pc' = Goto(t, IF t = Main THEN "done_check" ELSE "loop")
          /\ UNCHANGED rng
     ELSE /\ rng' = [rng EXCEPT ![t] = i]
          /\ pc' = Goto(t, "range")
  /\ UNCHANGED <<jobVars, batch, published, seen, left, mine, visits, poolVars, op, cur, doomed>>

\* The range function returned; fetch_sub tells whether this was the last one.
RangeReturns(t) ==
  LET b == mine[t] IN
  /\ pc[t] = "range"
  /\ visits' = [visits EXCEPT ![b][rng[t]] = @ + 1]
  /\ left' = [left EXCEPT ![b] = @ - 1]
  /\ pc' = Goto(t, IF left[b] = 1 THEN "signal" ELSE "claim")
  /\ UNCHANGED <<jobVars, batch, published, seen, next, mine, rng, poolVars, op, cur, doomed>>

\* done.notify_one under done_mutex.
SignalDone(t) ==
  /\ pc[t] = "signal"
  /\ pc' = WakeDone(Goto(t, "claim"), mine[t])
  /\ UNCHANGED <<jobVars, batchVars, poolVars, op, cur, doomed>>

--------------------------------------------------------------------------------
(* The calls made on Main.                                                      *)

Ready == pc[Main] = "ready"

Submit(j, p) ==
  /\ Ready /\ MutexFree /\ job[j].status = "New"
  /\ job' = [job EXCEPT ![j] = [NewJob EXCEPT !.status = "Queued", !.slot = TRUE,
                                              !.prio = p, !.seq = nextSeq]]
  /\ queue' = queue \cup {Entry(j, p, nextSeq)}
  /\ nextSeq' = nextSeq + 1
  /\ held' = held \cup {j}
  /\ pc' = Goto(Main, "notify")
  /\ UNCHANGED <<running, finished, busy, destroyed, batchVars, poolVars, op, cur, doomed>>

\* Mutant: submit forgets wake.notify_one.
SubmitSilent ==
  /\ pc[Main] = "notify"
  /\ pc' = Goto(Main, "ready")
  /\ UNCHANGED <<jobVars, batchVars, poolVars, op, cur, doomed>>

SubmitNotifies ==
  /\ pc[Main] = "notify"
  /\ pc' \in WakeOne(Goto(Main, "ready"))
  /\ UNCHANGED <<jobVars, batchVars, poolVars, op, cur, doomed>>

\* Mutant: a finished job is taken out of its list and its slot forgotten.
CancelCallLeaks(j) ==
  LET s == job[j].status IN
  /\ Ready /\ MutexFree /\ j \in held
  /\ held' = held \ {j}
  /\ job' = [job EXCEPT ![j] = IF s \in {"Queued", "Finished"} THEN Dropped(@)
                              ELSE [@ EXCEPT !.cancelled = (s = "Running" \/ @), !.slot = (s = "Running")]]
  /\ queue' = IF s = "Queued" THEN EraseKey(job[j].prio, job[j].seq) ELSE queue
  /\ finished' = finished \ {j}
  /\ IF s \in {"Queued", "Delivered"} /\ job[j].slot
     THEN doomed' = [doomed EXCEPT ![Main] = {j}] /\ pc' = Goto(Main, "destroy")
     ELSE UNCHANGED <<doomed, pc>>
  /\ UNCHANGED <<running, busy, nextSeq, destroyed, batchVars, poolVars, op, cur>>

\* JobHandle::cancel (the handle's destructor, JobCall::take's release) and cancel_job.
CancelCall(j) ==
  LET s == job[j].status IN
  /\ Ready /\ MutexFree /\ j \in held
  /\ held' = held \ {j}
  /\ job' = [job EXCEPT ![j] = CASE s \in {"Queued", "Finished"} -> Dropped(@)
                                 [] s = "Running" -> [@ EXCEPT !.cancelled = TRUE]
                                 [] s = "Delivered" -> [@ EXCEPT !.slot = FALSE]
                                 [] OTHER -> @]
  /\ queue' = IF s = "Queued" THEN EraseKey(job[j].prio, job[j].seq) ELSE queue
  /\ finished' = IF s = "Finished" THEN finished \ {j} ELSE finished
  /\ IF s \in {"Queued", "Finished", "Delivered"} /\ job[j].slot
     THEN /\ doomed' = [doomed EXCEPT ![Main] = {j}]
          /\ pc' = Goto(Main, "destroy")
     ELSE UNCHANGED <<doomed, pc>>
  /\ UNCHANGED <<running, busy, nextSeq, destroyed, batchVars, poolVars, op, cur>>

\* Mutant: the state has the new priority and the queue entry the old one.
SetPriorityStateOnly(j, p) ==
  /\ Ready /\ MutexFree /\ j \in held /\ job[j].status = "Queued"
  /\ job' = [job EXCEPT ![j].prio = p]
  /\ UNCHANGED <<held, queue, running, finished, busy, nextSeq, destroyed, batchVars, poolVars,
                 op, pc, cur, doomed>>

\* JobHandle::set_priority and reprioritize_job.
SetPriority(j, p) ==
  /\ Ready /\ MutexFree /\ j \in held /\ job[j].status = "Queued"
  /\ \E e \in queue : e.prio = job[j].prio /\ e.seq = job[j].seq
  /\ queue' = EraseKey(job[j].prio, job[j].seq) \cup {Entry(j, p, job[j].seq)}
  /\ job' = [job EXCEPT ![j].prio = p]
  /\ UNCHANGED <<held, running, finished, busy, nextSeq, destroyed, batchVars, poolVars,
                 op, pc, cur, doomed>>

\* poll's second half: every finished result reaches its call.
Deliver ==
  /\ job' = [j \in Jobs |-> IF j \in finished THEN [job[j] EXCEPT !.status = "Delivered"]
                                              ELSE job[j]]
  /\ finished' = {}
  /\ op' = "none" /\ pc' = Goto(Main, "ready")
  /\ UNCHANGED <<held, queue, running, busy, nextSeq, destroyed, batchVars, poolVars, cur, doomed>>

\* Without workers poll first runs jobs here: at least one, more while the budget lasts.
Poll ==
  /\ Ready /\ MutexFree
  /\ IF workers = 0 /\ queue # {} THEN TakeJob(Main) /\ op' = "poll" ELSE Deliver

WaitIdle ==
  /\ Ready /\ MutexFree
  /\ IF workers = 0
     THEN queue # {} /\ TakeJob(Main) /\ op' = "wait_idle"
     ELSE /\ pc' = Goto(Main, "idle_check") /\ op' = "wait_idle"
          /\ UNCHANGED <<jobVars, batchVars, poolVars, cur, doomed>>

\* Back from run_one on Main, in poll or in wait_idle: the budget may be spent at any time.
RunMoreInline ==
  /\ pc[Main] = "inline" /\ queue # {}
  /\ TakeJob(Main)
  /\ UNCHANGED op

LeaveInline ==
  /\ pc[Main] = "inline"
  /\ \/ op = "poll" /\ Deliver
     \/ /\ op = "wait_idle" /\ queue = {}
        /\ op' = "none" /\ pc' = Goto(Main, "ready")
        /\ UNCHANGED <<jobVars, batchVars, poolVars, cur, doomed>>

\* cancel_all, on its own or as the first step of stop.
CancelAll(call) ==
  LET Out == {e.job : e \in queue} \cup finished IN
  /\ Ready /\ MutexFree
  /\ job' = [j \in Jobs |-> IF j \in Out THEN Dropped(job[j])
                            ELSE IF j \in running THEN [job[j] EXCEPT !.cancelled = TRUE]
                            ELSE job[j]]
  /\ doomed' = [doomed EXCEPT ![Main] = {j \in Out : job[j].slot}]
  /\ queue' = {} /\ finished' = {}
  /\ op' = call /\ pc' = Goto(Main, "destroy")
  /\ UNCHANGED <<held, running, busy, nextSeq, destroyed, batchVars, poolVars, cur>>

\* Mutant: waits for the functions, not for the destructors that run after them.
IdleHoldsRunning == running = {} /\ (op = "wait_idle" => queue = {})
IdleHolds == busy = 0 /\ (op = "wait_idle" => queue = {})

\* idle.wait of cancel_all and wait_idle.
IdleCheck ==
  /\ pc[Main] = "idle_check" /\ MutexFree
  /\ IF ~IdleHolds
     THEN pc' = Goto(Main, "idle_asleep") /\ UNCHANGED op
     ELSE IF op = "stop"
     THEN pc' = Goto(Main, "stop_flag") /\ UNCHANGED op
     ELSE pc' = Goto(Main, "ready") /\ op' = "none"
  /\ UNCHANGED <<jobVars, batchVars, poolVars, cur, doomed>>

SetStopping ==
  /\ pc[Main] = "stop_flag" /\ MutexFree
  /\ stopping' = TRUE
  /\ pc' = Goto(Main, "stop_notify")
  /\ UNCHANGED <<jobVars, batchVars, workers, op, cur, doomed>>

StopNotifies ==
  /\ pc[Main] = "stop_notify"
  /\ pc' = WakeAll(Goto(Main, "join"))
  /\ UNCHANGED <<jobVars, batchVars, poolVars, op, cur, doomed>>

Join ==
  /\ pc[Main] = "join" /\ \A w \in Workers : pc[w] = "exited"
  /\ workers' = 0 /\ batch' = 0 /\ stopping' = FALSE
  /\ op' = "none" /\ pc' = Goto(Main, "ready")
  /\ UNCHANGED <<jobVars, published, seen, next, left, mine, rng, visits, cur, doomed>>

\* parallel_for with workers and at least two ranges: the caller keeps range 0.
Publish ==
  LET b == published + 1 IN
  /\ Ready /\ MutexFree /\ workers > 0 /\ published < MaxBatches
  /\ published' = b /\ batch' = b
  /\ next' = [next EXCEPT ![b] = 1]
  /\ left' = [left EXCEPT ![b] = NumRanges]
  /\ mine' = [mine EXCEPT ![Main] = b] /\ rng' = [rng EXCEPT ![Main] = 0]
  /\ op' = "parallel_for" /\ pc' = Goto(Main, "pf_notify")
  /\ UNCHANGED <<jobVars, seen, visits, poolVars, cur, doomed>>

PublishNotifies ==
  /\ pc[Main] = "pf_notify"
  /\ pc' = WakeAll(Goto(Main, "range"))
  /\ UNCHANGED <<jobVars, batchVars, poolVars, op, cur, doomed>>

\* Mutant: the caller waits until every range is claimed, not until every range returned.
DoneCheckClaimed ==
  /\ pc[Main] = "done_check"
  /\ pc' = Goto(Main, IF next[mine[Main]] >= NumRanges THEN "clear" ELSE "done_asleep")
  /\ UNCHANGED <<jobVars, batchVars, poolVars, op, cur, doomed>>

DoneCheck ==
  /\ pc[Main] = "done_check"
  /\ pc' = Goto(Main, IF left[mine[Main]] = 0 THEN "clear" ELSE "done_asleep")
  /\ UNCHANGED <<jobVars, batchVars, poolVars, op, cur, doomed>>

ClearBatch ==
  /\ pc[Main] = "clear" /\ MutexFree
  /\ batch' = IF batch = mine[Main] THEN 0 ELSE batch
  /\ op' = "none" /\ pc' = Goto(Main, "ready")
  /\ UNCHANGED <<jobVars, published, seen, next, left, mine, rng, visits, poolVars, cur, doomed>>

--------------------------------------------------------------------------------
\* A condition variable may wake a thread that nobody notified.
SpuriousWakeup(t) ==
  /\ pc[t] \in {"asleep", "idle_asleep", "done_asleep"}
  /\ pc' = Goto(t, CASE pc[t] = "asleep" -> "loop"
                     [] pc[t] = "idle_asleep" -> "idle_check"
                     [] OTHER -> "done_check")
  /\ UNCHANGED <<jobVars, batchVars, poolVars, op, cur, doomed>>

JobStep(t) == JobReturns(t) \/ DestroyDoomed(t) \/ LeaveCancelled(t)
RangeStep(t) == ClaimRange(t) \/ RangeReturns(t) \/ SignalDone(t)
WorkerStep(w) ==
  \/ JobStep(w) \/ RangeStep(w)
  \/ SeeBatch(w) \/ WorkerExit(w) \/ WorkerTakesJob(w) \/ WorkerWaits(w)

\* Main going on with the call it is in.
MainStep ==
  \/ JobStep(Main) \/ RangeStep(Main)
  \/ SubmitNotifies \/ RunMoreInline \/ LeaveInline \/ IdleCheck
  \/ SetStopping \/ StopNotifies \/ Join
  \/ PublishNotifies \/ DoneCheck \/ ClearBatch

\* Main making a new call.
Call ==
  \/ \E j \in Jobs, p \in Prios : Submit(j, p) \/ SetPriority(j, p)
  \/ \E j \in Jobs : CancelCall(j)
  \/ Poll \/ WaitIdle
  \/ \E call \in {"cancel_all", "stop"} : CancelAll(call)
  \/ Publish

Next ==
  \/ \E w \in Workers : WorkerStep(w)
  \/ MainStep
  \/ Call
  \/ \E t \in Threads : SpuriousWakeup(t)

Spec == Init /\ [][Next]_vars

\* The operating system runs every thread that can run, and job functions, range functions and
\* destructors return (cancel_all and stop wait for them); nothing forces Main to make a new call.
Fairness == WF_vars(MainStep) /\ \A w \in Workers : WF_vars(WorkerStep(w))
FairSpec == Spec /\ Fairness
--------------------------------------------------------------------------------
(* Properties.                                                                  *)

WorkerLabels == {"loop", "locked", "asleep", "claim", "exited"}
RunLabels == {"running", "destroy", "leave"}
MainLabels == {"ready", "notify", "inline", "idle_check", "idle_asleep", "stop_flag", "stop_notify",
               "join", "pf_notify", "claim", "done_check", "done_asleep", "clear"}
Labels == WorkerLabels \cup RunLabels \cup MainLabels \cup {"range", "signal"}
Statuses == {"New", "Queued", "Running", "Finished", "Delivered", "Dropped"}
JobStates == [status : Statuses, cancelled : BOOLEAN, slot : BOOLEAN, value : BOOLEAN,
              prio : Int, seq : Nat]
Ops == {"none", "poll", "wait_idle", "cancel_all", "stop", "parallel_for"}

JobTypes ==
  /\ job \in [Jobs -> JobStates]
  /\ held \subseteq Jobs /\ running \subseteq Jobs /\ finished \subseteq Jobs
  /\ queue \subseteq [prio : Int, seq : Nat, job : Jobs]
  /\ busy \in Int /\ nextSeq \in Nat
  /\ destroyed \in [Jobs -> Nat]
BatchTypes ==
  /\ published \in 0 .. MaxBatches /\ batch \in 0 .. MaxBatches
  /\ seen \in [Workers -> 0 .. MaxBatches]
  /\ next \in [Batches -> Nat] /\ left \in [Batches -> Int]
  /\ mine \in [Threads -> 0 .. MaxBatches] /\ rng \in [Threads -> Ranges]
  /\ visits \in [Batches -> [Ranges -> Nat]]
PoolTypes == workers \in Nat /\ stopping \in BOOLEAN /\ op \in Ops
ThreadTypes ==
  /\ pc \in [Threads -> Labels]
  /\ cur \in [Threads -> Jobs \cup {None}]
  /\ doomed \in [Threads -> SUBSET Jobs]

\* Every variable keeps the type its declaration in job_system.cpp and job_state.h gives it; a
\* claimed range is one of the batch.
TypeOK == JobTypes /\ BatchTypes /\ PoolTypes /\ ThreadTypes

\* A job is in exactly the list its status names, a queued one under the priority and sequence its
\* state holds (cancel_job and reprioritize_job find it by that key), a running one on one thread.
JobPlaces ==
  /\ \A e \in queue : /\ e = Entry(e.job, job[e.job].prio, job[e.job].seq)
                      /\ job[e.job].status = "Queued"
  /\ \A j \in Jobs :
       /\ job[j].status = "Queued" => Entry(j, job[j].prio, job[j].seq) \in queue
       /\ job[j].status = "Running" <=> j \in running
       /\ job[j].status = "Finished" <=> j \in finished
       /\ j \in running <=> \E t \in Threads : cur[t] = j /\ pc[t] = "running"
  /\ \A t, u \in Threads : cur[t] # None /\ cur[t] = cur[u] => t = u
  /\ \A j, k \in Jobs : /\ job[j].status = "Queued" /\ job[k].status = "Queued"
                        /\ job[j].seq = job[k].seq
                        => j = k

\* "destroy runs exactly once" (job_state.h): the slot of a submitted job is in its state, or in
\* the hands of one thread that will destroy it, or destroyed, and never two of these; a function
\* that runs still has its slot, and a delivered or finished slot holds the function's result.
SlotOnce ==
  /\ \A j \in Jobs :
       /\ destroyed[j] \in {0, 1}
       /\ job[j].slot => destroyed[j] = 0
       /\ job[j].status = "New" => ~job[j].slot /\ destroyed[j] = 0
       /\ job[j].status \in {"Queued", "Running", "Finished"} => job[j].slot
       /\ job[j].status \in {"Finished", "Delivered"} => job[j].value
       /\ job[j].status = "Dropped" => ~job[j].slot
       /\ job[j].status # "New" /\ ~job[j].slot =>
            destroyed[j] = 1 \/ \E t \in Threads : j \in doomed[t]
  /\ \A t \in Threads : \A j \in doomed[t] :
       /\ job[j].status # "New" /\ ~job[j].slot /\ destroyed[j] = 0
       /\ \A u \in Threads : j \in doomed[u] => u = t
  /\ \A t \in Threads : pc[t] = "running" => cur[t] # None /\ job[cur[t]].slot

\* The comment of job_cap: while a parallel_for is under way on a pool of two workers or more, some
\* worker is not inside a job (neither its function nor the destructor of its slot).
ForkJoinHasWorker ==
  workers >= 2 /\ op = "parallel_for" => \E w \in Workers : pc[w] \notin RunLabels

\* Work never waits on a wakeup that was lost: a worker sleeps through a job it could take only
\* while another is on its way to it or the notification is still to be sent, through a new batch
\* or a stop only while its notify_all is still to be sent.
NoLostWakeup ==
  \A w \in Workers : pc[w] = "asleep" =>
    /\ can_take_job => \/ pc[Main] \in {"notify", "pf_notify"}
                       \/ \E v \in Workers : pc[v] \in {"loop", "locked"}
    /\ published = seen[w] \/ pc[Main] = "pf_notify"
    /\ stopping => pc[Main] = "stop_notify"

\* parallel_for returns "only after every index has been visited once" (job_system.h): no range
\* runs twice, none is left when the caller stops waiting, and no thread is inside the caller's
\* function outside the call, when its captures are gone.
RangesOnce ==
  /\ \A b \in Batches, r \in Ranges : visits[b][r] <= 1
  /\ pc[Main] = "clear" => \A r \in Ranges : visits[mine[Main]][r] = 1
  /\ \A t \in Threads : pc[t] = "range" =>
       /\ op = "parallel_for" /\ mine[t] = mine[Main]
       /\ pc[Main] # "clear" /\ visits[mine[t]][rng[t]] = 0

\* "returns only after no job is running" (cancel_all; stop and the editor's module unload rely on
\* it): when the wait of cancel_all ends, no job is in the system, every cancelled slot is destroyed
\* and no worker is inside code of the module that submitted it.
CancelAllIsFinal ==
  [][pc[Main] = "idle_check" /\ op # "wait_idle" /\ pc'[Main] \notin {"idle_check", "idle_asleep"} =>
       /\ \A j \in Jobs : /\ job[j].status \in {"New", "Delivered", "Dropped"}
                          /\ job[j].status = "Dropped" => destroyed[j] = 1
       /\ \A w \in Workers : pc[w] \notin RunLabels]_vars

\* A result never reaches a call after it was cancelled, and a job cancelled before it started
\* never starts (job_call.h: "Queued: never runs ... the result is discarded").
CancelledStaysOut ==
  [][\A j \in Jobs : job[j].cancelled =>
       /\ job'[j].cancelled
       /\ job'[j].status \notin {"Finished", "Delivered"}
       /\ job[j].status # "Running" => job'[j].status # "Running"]_vars

\* "Higher priority runs first, equal priorities in submit order" (job_system.h), with the priority
\* the call has now: a job starts only when no job left waiting should have gone before it.
PriorityOrder ==
  [][\A j, k \in Jobs :
       /\ job[j].status = "Queued" /\ job'[j].status = "Running"
       /\ job[k].status = "Queued" /\ job'[k].status = "Queued"
       => Before(Entry(j, job[j].prio, job[j].seq), Entry(k, job[k].prio, job[k].seq))]_vars

\* Every call of the owner thread returns: no wait of cancel_all, wait_idle, stop or parallel_for
\* misses its notification.
CallsReturn == pc[Main] # "ready" ~> pc[Main] = "ready"

\* While there are workers, a queued job is started or cancelled.
QueuedLeaves == \A j \in Jobs : job[j].status = "Queued" /\ workers > 0 ~> job[j].status # "Queued"

\* A dropped call leaks nothing: once no handle holds a submitted job its slot is destroyed.
NoLeak == \A j \in Jobs : job[j].status # "New" /\ j \notin held ~> destroyed[j] = 1
================================================================================
