---------------------------- MODULE JobSystem_proof ----------------------------
(* Proofs about JobSystem for any set of workers, jobs and priorities, any      *)
(* number of ranges and any bound on the batches.                               *)
EXTENDS JobSystem, FiniteSetTheorems, TLAPS

\* A thread holds a job exactly while it is inside run_one, and slots to destroy only while it
\* destroys them.
ThreadInv ==
  \A t \in Threads :
    /\ pc[t] \in {"running", "leave"} => cur[t] \in Jobs
    /\ cur[t] # None => pc[t] \in RunLabels
    /\ cur[t] # None => job[cur[t]].status = IF pc[t] = "running" THEN "Running" ELSE "Dropped"
    /\ doomed[t] # {} => pc[t] = "destroy"

\* A thread in participate has a batch.
BatchLabels == {"claim", "range", "signal", "pf_notify"}
BatchInv == \A t \in Threads : pc[t] \in BatchLabels => mine[t] \in Batches

\* Sequence numbers are given out once.
SeqInv == \A j \in Jobs : job[j].status = "Queued" => job[j].seq < nextSeq

IInv == TypeOK /\ BatchInv /\ ThreadInv /\ SeqInv /\ JobPlaces /\ SlotOnce

\* What a notification does to the labels: it moves sleeping threads and no other.
Wakes(p, q) ==
  /\ q \in [Threads -> Labels]
  /\ \A t \in Threads : \/ q[t] = p[t]
                        \/ p[t] = "asleep" /\ q[t] = "loop"
                        \/ p[t] = "idle_asleep" /\ q[t] = "idle_check"
                        \/ p[t] = "done_asleep" /\ q[t] = "done_check"

--------------------------------------------------------------------------------
\* The number of workers is a number.
LEMMA CardWorkers == Cardinality(Workers) \in Nat
  BY WorkersAssumption, FS_CardinalityType

\* notify_one and notify_all move sleeping threads only.
LEMMA WakeOneWakes ==
  ASSUME NEW p \in [Threads -> Labels], NEW q \in WakeOne(p)
  PROVE  Wakes(p, q)
  BY WorkersAssumption DEF WakeOne, Wakes, Threads, Labels, WorkerLabels, MainLabels

LEMMA WakeAllWakes ==
  ASSUME NEW p \in [Threads -> Labels]
  PROVE  Wakes(p, WakeAll(p))
  BY DEF WakeAll, Wakes, Labels, WorkerLabels, MainLabels

LEMMA WakeIdleWakes ==
  ASSUME NEW p \in [Threads -> Labels]
  PROVE  Wakes(p, WakeIdle(p))
  BY DEF WakeIdle, Wakes, Threads, Labels, WorkerLabels, MainLabels

LEMMA WakeDoneWakes ==
  ASSUME NEW p \in [Threads -> Labels], NEW b
  PROVE  Wakes(p, WakeDone(p, b))
  BY DEF WakeDone, Wakes, Threads, Labels, WorkerLabels, MainLabels

\* The notifications at the end of run_one.
LEMMA LeaveWakes ==
  ASSUME NEW p \in [Threads -> Labels], NEW q \in WakeOne(WakeIdle(p))
  PROVE  Wakes(p, q)
  <1> DEFINE m == WakeIdle(p)
  <1>1. Wakes(p, m)
    BY WakeIdleWakes
  <1>2. Wakes(m, q)
    <2>1. m \in [Threads -> Labels]
      BY <1>1 DEF Wakes
    <2> QED BY <2>1, WakeOneWakes
  <1> HIDE DEF m
  <1> QED BY <1>1, <1>2 DEF Wakes

--------------------------------------------------------------------------------
(* Type correctness.                                                            *)

LEMMA TypeInit == Init => TypeOK /\ BatchInv /\ ThreadInv
  <1> SUFFICES ASSUME Init PROVE TypeOK /\ BatchInv /\ ThreadInv
    OBVIOUS
  <1>1. \A t \in Threads : pc[t] \in {"ready", "loop"}
    BY DEF Init
  <1>2. JobTypes
    BY DEF Init, JobTypes, NewJob, JobStates, Statuses
  <1>3. BatchTypes
    BY RangesAssumption DEF Init, BatchTypes, Batches, Ranges
  <1>4. PoolTypes
    BY CardWorkers DEF Init, PoolTypes, Ops
  <1>5. ThreadTypes
    BY <1>1 DEF Init, ThreadTypes, Labels, WorkerLabels, MainLabels
  <1>6. BatchInv /\ ThreadInv
    BY <1>1 DEF Init, BatchInv, BatchLabels, ThreadInv
  <1> QED BY <1>2, <1>3, <1>4, <1>5, <1>6 DEF TypeOK

\* A step that leaves the jobs and the threads' share of them alone, and moves no thread in or out
\* of run_one, keeps everything that is about jobs.
RunLabelsKept == \A t \in Threads : pc'[t] # pc[t] => pc[t] \notin RunLabels /\ pc'[t] \notin RunLabels

LEMMA JobFrame ==
  ASSUME ThreadInv, SeqInv, JobPlaces, SlotOnce, UNCHANGED <<jobVars, cur, doomed>>, RunLabelsKept
  PROVE  ThreadInv' /\ SeqInv' /\ JobPlaces' /\ SlotOnce'
  <1>1. ThreadInv'
    BY DEF ThreadInv, RunLabelsKept, RunLabels, jobVars
  <1>2. SeqInv'
    BY DEF SeqInv, jobVars
  <1>3. JobPlaces'
    BY DEF JobPlaces, RunLabelsKept, RunLabels, jobVars
  <1>4. SlotOnce'
    BY DEF SlotOnce, RunLabelsKept, RunLabels, jobVars
  <1> QED BY <1>1, <1>2, <1>3, <1>4

\* The pattern of every step outside run_one: thread t goes to label l, sleepers may be woken, and
\* the jobs stay as they are.
LEMMA NoWakes ==
  ASSUME ThreadTypes, NEW t \in Threads, NEW l \in Labels, pc' = Goto(t, l)
  PROVE  Wakes(Goto(t, l), pc')
  BY DEF ThreadTypes, Wakes, Goto

LEMMA GotoType ==
  ASSUME ThreadTypes, NEW t \in Threads, NEW l \in Labels
  PROVE  Goto(t, l) \in [Threads -> Labels]
  BY DEF ThreadTypes, Goto

LEMMA MoveStep ==
  ASSUME IInv, NEW t \in Threads, NEW l \in Labels,
         pc[t] \notin RunLabels, l \notin RunLabels,
         Wakes(Goto(t, l), pc'), UNCHANGED <<jobVars, cur, doomed>>,
         PoolTypes', BatchTypes',
         l \in BatchLabels => mine'[t] \in Batches,
         \A u \in Threads \ {t} : mine'[u] = mine[u]
  PROVE  IInv'
  <1> USE DEF IInv, TypeOK
  <1>1. ThreadTypes'
    BY DEF ThreadTypes, Wakes
  <1>2. JobTypes'
    BY DEF JobTypes, jobVars
  <1>3. RunLabelsKept
    BY DEF RunLabelsKept, Wakes, Goto, ThreadTypes, RunLabels
  <1>4. BatchInv'
    BY DEF BatchInv, Wakes, Goto, ThreadTypes, BatchLabels
  <1> QED BY <1>1, <1>2, <1>3, <1>4, JobFrame

--------------------------------------------------------------------------------
(* The steps that leave the jobs alone.                                         *)

LEMMA SeeBatchStep ==
  ASSUME IInv, NEW w \in Workers, SeeBatch(w)
  PROVE  IInv'
  <1>1. w \in Threads /\ pc[w] \in {"loop", "locked"}
    BY DEF SeeBatch, HasMutex, Threads
  <1>2. PICK l \in {"loop", "claim"} : pc' = Goto(w, l) /\ (l = "claim" => batch # 0)
    BY DEF SeeBatch
  <1>3. Wakes(Goto(w, l), pc')
    BY <1>1, <1>2, NoWakes DEF Labels, WorkerLabels, IInv, TypeOK
  <1>4. PoolTypes' /\ BatchTypes'
    BY <1>1 DEF SeeBatch, PoolTypes, poolVars, BatchTypes, IInv, TypeOK
  <1>5. batch # 0 => mine'[w] \in Batches
    BY <1>1 DEF SeeBatch, BatchTypes, Batches, IInv, TypeOK
  <1>6. l \in Labels \ RunLabels /\ pc[w] \notin RunLabels
    BY <1>1, <1>2 DEF Labels, WorkerLabels, RunLabels
  <1>7. \A u \in Threads \ {w} : mine'[u] = mine[u]
    BY DEF SeeBatch, IInv, TypeOK, BatchTypes
  <1> QED BY <1>1, <1>2, <1>3, <1>4, <1>5, <1>6, <1>7, MoveStep DEF SeeBatch, BatchLabels

\* A step that changes only labels, operation and stop flag.
LEMMA LabelStep ==
  ASSUME IInv, NEW t \in Threads, NEW l \in Labels,
         pc[t] \notin RunLabels, l \notin RunLabels,
         l \in BatchLabels => pc[t] \in BatchLabels,
         Wakes(Goto(t, l), pc'), UNCHANGED <<jobVars, batchVars, cur, doomed>>, PoolTypes'
  PROVE  IInv'
  <1>1. BatchTypes' /\ mine' = mine
    BY DEF BatchTypes, batchVars, IInv, TypeOK
  <1>2. l \in BatchLabels => mine[t] \in Batches
    BY DEF BatchInv, BatchLabels, IInv
  <1> QED BY <1>1, <1>2, MoveStep

LEMMA WorkerExitStep ==
  ASSUME IInv, NEW w \in Workers, WorkerExit(w) \/ WorkerWaits(w)
  PROVE  IInv'
  <1>1. w \in Threads /\ pc[w] \in {"loop", "locked"}
    BY DEF WorkerExit, WorkerWaits, HasMutex, Threads
  <1>2. PICK l \in {"exited", "asleep"} : pc' = Goto(w, l)
    BY DEF WorkerExit, WorkerWaits
  <1>3. l \in Labels \ RunLabels /\ pc[w] \notin RunLabels /\ l \notin BatchLabels
    BY <1>1, <1>2 DEF Labels, WorkerLabels, RunLabels, BatchLabels
  <1>4. PoolTypes' /\ UNCHANGED <<jobVars, batchVars, cur, doomed>>
    BY DEF WorkerExit, WorkerWaits, PoolTypes, poolVars, IInv, TypeOK
  <1>5. Wakes(Goto(w, l), pc')
    BY <1>1, <1>2, <1>3, NoWakes DEF IInv, TypeOK
  <1> QED BY <1>1, <1>3, <1>4, <1>5, LabelStep

LEMMA ClaimRangeStep ==
  ASSUME IInv, NEW t \in Threads, ClaimRange(t)
  PROVE  IInv'
  <1> DEFINE b == mine[t]
             i == next[b]
  <1>1. pc[t] = "claim" /\ b \in Batches /\ i \in Nat
    BY DEF ClaimRange, IInv, TypeOK, BatchInv, BatchLabels, BatchTypes
  <1>2. PICK l \in {"done_check", "loop", "range"} : pc' = Goto(t, l)
    BY DEF ClaimRange
  <1>3. BatchTypes'
    <2>1. next' \in [Batches -> Nat]
      BY <1>1 DEF ClaimRange, IInv, TypeOK, BatchTypes
    <2>2. ~(i >= NumRanges) => i \in Ranges
      BY <1>1, RangesAssumption DEF Ranges
    <2>3. rng' \in [Threads -> Ranges]
      BY <2>2 DEF ClaimRange, IInv, TypeOK, BatchTypes
    <2> QED BY <2>1, <2>3 DEF ClaimRange, IInv, TypeOK, BatchTypes
  <1>4. l \in Labels \ RunLabels /\ pc[t] \notin RunLabels
    BY <1>1, <1>2 DEF Labels, WorkerLabels, MainLabels, RunLabels
  <1>5. Wakes(Goto(t, l), pc')
    BY <1>2, <1>4, NoWakes DEF IInv, TypeOK
  <1>6. PoolTypes' /\ UNCHANGED <<jobVars, cur, doomed>> /\ mine' = mine
    BY DEF ClaimRange, PoolTypes, poolVars, IInv, TypeOK
  <1> QED BY <1>1, <1>3, <1>4, <1>5, <1>6, MoveStep

LEMMA RangeReturnsStep ==
  ASSUME IInv, NEW t \in Threads, RangeReturns(t)
  PROVE  IInv'
  <1> DEFINE b == mine[t]
  <1>1. pc[t] = "range" /\ b \in Batches
    BY DEF RangeReturns, IInv, BatchInv, BatchLabels
  <1>2. PICK l \in {"signal", "claim"} : pc' = Goto(t, l)
    BY DEF RangeReturns
  <1>3. BatchTypes'
    BY <1>1 DEF RangeReturns, IInv, TypeOK, BatchTypes
  <1>4. l \in Labels \ RunLabels /\ pc[t] \notin RunLabels
    BY <1>1, <1>2 DEF Labels, WorkerLabels, RunLabels
  <1>5. Wakes(Goto(t, l), pc')
    BY <1>2, <1>4, NoWakes DEF IInv, TypeOK
  <1>6. PoolTypes' /\ UNCHANGED <<jobVars, cur, doomed>> /\ mine' = mine
    BY DEF RangeReturns, PoolTypes, poolVars, IInv, TypeOK
  <1> QED BY <1>1, <1>3, <1>4, <1>5, <1>6, MoveStep

LEMMA SignalDoneStep ==
  ASSUME IInv, NEW t \in Threads, SignalDone(t)
  PROVE  IInv'
  <1>1. "claim" \in Labels \ RunLabels /\ pc[t] = "signal"
    BY DEF SignalDone, Labels, WorkerLabels, RunLabels
  <1>2. Wakes(Goto(t, "claim"), pc')
    BY <1>1, GotoType, WakeDoneWakes DEF SignalDone, IInv, TypeOK
  <1>3. PoolTypes'
    BY DEF SignalDone, PoolTypes, poolVars, IInv, TypeOK
  <1> QED BY <1>1, <1>2, <1>3, LabelStep DEF SignalDone, BatchLabels, RunLabels

\* Main goes on with the call it is in: every step of it that is not run_one or participate.
LEMMA MainLabelStep ==
  ASSUME IInv,
         \/ SubmitNotifies \/ PublishNotifies \/ IdleCheck \/ SetStopping \/ StopNotifies \/ DoneCheck
         \/ \E t \in Threads : SpuriousWakeup(t)
  PROVE  IInv'
  <1> USE DEF Labels, WorkerLabels, MainLabels, RunLabels, BatchLabels
  <1>0. Main \in Threads /\ ThreadTypes
    BY DEF Threads, IInv, TypeOK
  <1>1. CASE SubmitNotifies
    <2>1. Wakes(Goto(Main, "ready"), pc')
      BY <1>0, <1>1, GotoType, WakeOneWakes DEF SubmitNotifies
    <2>2. PoolTypes'
      BY <1>1 DEF SubmitNotifies, PoolTypes, poolVars, IInv, TypeOK
    <2> QED BY <1>0, <1>1, <2>1, <2>2, LabelStep DEF SubmitNotifies
  <1>2. CASE IdleCheck
    <2>1. PICK l \in {"idle_asleep", "stop_flag", "ready"} : pc' = Goto(Main, l)
      BY <1>2 DEF IdleCheck
    <2>2. Wakes(Goto(Main, l), pc')
      BY <1>0, <2>1, NoWakes
    <2>3. PoolTypes'
      BY <1>2 DEF IdleCheck, PoolTypes, poolVars, Ops, IInv, TypeOK
    <2> QED BY <1>0, <1>2, <2>2, <2>3, LabelStep DEF IdleCheck
  <1>3. CASE SetStopping
    <2>1. Wakes(Goto(Main, "stop_notify"), pc')
      BY <1>0, <1>3, NoWakes DEF SetStopping
    <2>2. PoolTypes'
      BY <1>3 DEF SetStopping, PoolTypes, IInv, TypeOK
    <2> QED BY <1>0, <1>3, <2>1, <2>2, LabelStep DEF SetStopping
  <1>7. CASE PublishNotifies
    <2>1. Wakes(Goto(Main, "range"), pc')
      BY <1>0, <1>7, GotoType, WakeAllWakes DEF PublishNotifies
    <2>2. PoolTypes'
      BY <1>7 DEF PublishNotifies, PoolTypes, poolVars, IInv, TypeOK
    <2> QED BY <1>0, <1>7, <2>1, <2>2, LabelStep DEF PublishNotifies
  <1>4. CASE StopNotifies
    <2>1. Wakes(Goto(Main, "join"), pc')
      BY <1>0, <1>4, GotoType, WakeAllWakes DEF StopNotifies
    <2>2. PoolTypes'
      BY <1>4 DEF StopNotifies, PoolTypes, poolVars, IInv, TypeOK
    <2> QED BY <1>0, <1>4, <2>1, <2>2, LabelStep DEF StopNotifies
  <1>5. CASE DoneCheck
    <2>1. PICK l \in {"clear", "done_asleep"} : pc' = Goto(Main, l)
      BY <1>5 DEF DoneCheck
    <2>2. Wakes(Goto(Main, l), pc')
      BY <1>0, <2>1, NoWakes
    <2>3. PoolTypes'
      BY <1>5 DEF DoneCheck, PoolTypes, poolVars, IInv, TypeOK
    <2> QED BY <1>0, <1>5, <2>2, <2>3, LabelStep DEF DoneCheck
  <1>6. ASSUME NEW t \in Threads, SpuriousWakeup(t)
        PROVE  IInv'
    <2>1. PICK l \in {"loop", "idle_check", "done_check"} : pc' = Goto(t, l)
      BY <1>6 DEF SpuriousWakeup
    <2>2. Wakes(Goto(t, l), pc')
      BY <1>0, <2>1, NoWakes
    <2>3. PoolTypes'
      BY <1>6 DEF SpuriousWakeup, PoolTypes, poolVars, IInv, TypeOK
    <2> QED BY <1>6, <2>2, <2>3, LabelStep DEF SpuriousWakeup
  <1> QED BY <1>1, <1>2, <1>3, <1>4, <1>5, <1>6, <1>7

LEMMA JoinStep ==
  ASSUME IInv, Join \/ ClearBatch
  PROVE  IInv'
  <1>1. Main \in Threads /\ "ready" \in Labels \ RunLabels /\ pc[Main] \in {"join", "clear"}
    BY DEF Join, ClearBatch, Threads, Labels, MainLabels, RunLabels
  <1>2. Wakes(Goto(Main, "ready"), pc')
    BY <1>1, NoWakes DEF Join, ClearBatch, IInv, TypeOK
  <1>3. PoolTypes'
    <2>1. CASE Join
      BY <2>1 DEF Join, PoolTypes, Ops
    <2>2. CASE ClearBatch
      BY <2>2 DEF ClearBatch, PoolTypes, poolVars, Ops, IInv, TypeOK
    <2> QED BY <2>1, <2>2
  <1>4. BatchTypes' /\ mine' = mine
    BY RangesAssumption DEF Join, ClearBatch, BatchTypes, IInv, TypeOK
  <1> QED BY <1>1, <1>2, <1>3, <1>4, MoveStep DEF Join, ClearBatch, BatchLabels, RunLabels

LEMMA PublishStep ==
  ASSUME IInv, Publish
  PROVE  IInv'
  <1>1. Main \in Threads /\ "pf_notify" \in Labels \ RunLabels /\ pc[Main] = "ready"
    BY DEF Publish, Ready, Threads, Labels, MainLabels, RunLabels
  <1>2. Wakes(Goto(Main, "pf_notify"), pc')
    BY <1>1, NoWakes DEF Publish, IInv, TypeOK
  <1>3. PoolTypes'
    BY DEF Publish, PoolTypes, poolVars, Ops, IInv, TypeOK
  <1>4. BatchTypes'
    <2> DEFINE b == published + 1
    <2>1. b \in Batches /\ b \in 0 .. MaxBatches /\ 0 \in Ranges /\ NumRanges \in Int /\ 1 \in Nat
      BY RangesAssumption DEF Publish, IInv, TypeOK, BatchTypes, Ranges, Batches
    <2>2. /\ published' = b /\ batch' = b
          /\ next' = [next EXCEPT ![b] = 1] /\ left' = [left EXCEPT ![b] = NumRanges]
          /\ mine' = [mine EXCEPT ![Main] = b] /\ rng' = [rng EXCEPT ![Main] = 0]
          /\ UNCHANGED <<seen, visits>>
      BY DEF Publish
    <2> HIDE DEF b
    <2> QED BY <1>1, <2>1, <2>2 DEF IInv, TypeOK, BatchTypes
  <1>5. mine'[Main] \in Batches /\ \A u \in Threads \ {Main} : mine'[u] = mine[u]
    BY <1>1, RangesAssumption DEF Publish, BatchTypes, Batches, IInv, TypeOK
  <1> QED BY <1>1, <1>2, <1>3, <1>4, <1>5, MoveStep DEF Publish, BatchLabels, RunLabels

--------------------------------------------------------------------------------
(* The steps of run_one and of the calls that move jobs.                        *)

\* What the notifications of thread t going to label l do to run_one of the others: nothing.
LEMMA OthersKeepRunning ==
  ASSUME ThreadTypes, NEW t \in Threads, NEW l \in Labels, Wakes(Goto(t, l), pc'),
         l \notin {"asleep", "idle_asleep", "done_asleep"}
  PROVE  /\ pc'[t] = l
         /\ \A u \in Threads \ {t} : \A r \in RunLabels : pc'[u] = r <=> pc[u] = r
  BY DEF ThreadTypes, Wakes, Goto, RunLabels

\* The types after such a step.
LEMMA JobMoveTypes ==
  ASSUME TypeOK, BatchInv, NEW t \in Threads, NEW l \in Labels \ BatchLabels,
         Wakes(Goto(t, l), pc'), UNCHANGED batchVars,
         cur' \in [Threads -> Jobs \cup {None}], doomed' \in [Threads -> SUBSET Jobs],
         JobTypes', PoolTypes'
  PROVE  TypeOK' /\ BatchInv'
  <1>1. ThreadTypes'
    BY DEF ThreadTypes, Wakes
  <1>2. BatchTypes'
    BY DEF BatchTypes, batchVars, TypeOK
  <1>3. BatchInv'
    BY DEF BatchInv, Wakes, Goto, ThreadTypes, TypeOK, BatchLabels, batchVars
  <1> QED BY <1>1, <1>2, <1>3 DEF TypeOK

LEMMA TakeJobStep ==
  ASSUME IInv, NEW t \in Threads, pc[t] \notin RunLabels, TakeJob(t), op' \in Ops
  PROVE  IInv'
  <1> USE DEF IInv
  <1>1. PICK e \in queue :
          /\ \A f \in queue \ {e} : Before(e, f)
          /\ queue' = queue \ {e}
          /\ job' = [job EXCEPT ![e.job].status = "Running"]
          /\ running' = running \cup {e.job}
          /\ busy' = busy + 1
          /\ cur' = [cur EXCEPT ![t] = e.job]
          /\ pc' = Goto(t, "running")
          /\ UNCHANGED <<held, finished, nextSeq, destroyed, batchVars, poolVars, doomed>>
    BY DEF TakeJob
  <1> DEFINE j == e.job
  <1>2. /\ j \in Jobs /\ e = Entry(j, job[j].prio, job[j].seq) /\ job[j].status = "Queued"
        /\ j # None
    BY JobsAssumption DEF JobPlaces, TypeOK, JobTypes
  <1>3. Wakes(Goto(t, "running"), pc')
    BY <1>1, NoWakes DEF TypeOK, Labels, RunLabels
  <1>4. JobTypes' /\ PoolTypes'
    BY <1>1, <1>2 DEF TypeOK, JobTypes, JobStates, Statuses, PoolTypes, poolVars
  <1>5. TypeOK' /\ BatchInv'
    BY <1>1, <1>2, <1>3, <1>4, JobMoveTypes DEF TypeOK, ThreadTypes, Labels, RunLabels, BatchLabels
  <1>6. \A u \in Threads : cur[u] # j /\ (cur[u] # None => job[cur[u]].status # "Queued")
    BY <1>2 DEF ThreadInv
  <1>7. /\ pc'[t] = "running" /\ cur'[t] = j
        /\ \A u \in Threads \ {t} : pc'[u] = pc[u] /\ cur'[u] = cur[u]
    BY <1>1 DEF TypeOK, ThreadTypes, Goto
  <1>8. /\ job'[j] = [job[j] EXCEPT !.status = "Running"]
        /\ \A k \in Jobs \ {j} : job'[k] = job[k]
    BY <1>1, <1>2 DEF TypeOK, JobTypes
  <1>9. ThreadInv'
    BY <1>1, <1>2, <1>5, <1>6, <1>7, <1>8 DEF ThreadInv, TypeOK, JobTypes, JobStates, ThreadTypes, RunLabels
  <1>10. SeqInv'
    BY <1>1, <1>2, <1>8 DEF SeqInv, TypeOK, JobTypes, JobStates
  <1>11. JobPlaces'
    <2> USE <1>1, <1>2, <1>5, <1>6, <1>7, <1>8 DEF JobPlaces
    <2>1. ASSUME NEW f \in queue'
          PROVE  f = Entry(f.job, job'[f.job].prio, job'[f.job].seq) /\ job'[f.job].status = "Queued"
      <3>1. f \in queue /\ f # e /\ f.job \in Jobs
        BY DEF TypeOK, JobTypes
      <3>2. f.job # j
        BY <3>1
      <3> QED BY <3>1, <3>2
    <2>2. ASSUME NEW k \in Jobs, job'[k].status = "Queued"
          PROVE  Entry(k, job'[k].prio, job'[k].seq) \in queue'
      <3>1. k # j
        BY <2>2 DEF TypeOK, JobTypes, JobStates
      <3>2. Entry(k, job[k].prio, job[k].seq) \in queue
        BY <2>2, <3>1
      <3>3. Entry(k, job[k].prio, job[k].seq).job = k
        BY DEF Entry
      <3> QED BY <3>1, <3>2, <3>3
    <2>3. ASSUME NEW k \in Jobs
          PROVE  /\ job'[k].status = "Running" <=> k \in running'
                 /\ job'[k].status = "Finished" <=> k \in finished'
      BY DEF TypeOK, JobTypes, JobStates
    <2>4. ASSUME NEW k \in Jobs
          PROVE  k \in running' <=> \E u \in Threads : cur'[u] = k /\ pc'[u] = "running"
      BY DEF RunLabels
    <2>5. \A u, v \in Threads : cur'[u] # None /\ cur'[u] = cur'[v] => u = v
      OBVIOUS
    <2>6. ASSUME NEW k \in Jobs, NEW i \in Jobs, job'[k].status = "Queued", job'[i].status = "Queued",
                 job'[k].seq = job'[i].seq
          PROVE  k = i
      BY <2>6 DEF TypeOK, JobTypes, JobStates
    <2> QED BY <2>1, <2>2, <2>3, <2>4, <2>5, <2>6
  <1>12. SlotOnce'
    BY <1>1, <1>2, <1>5, <1>7, <1>8 DEF SlotOnce, TypeOK, JobTypes, JobStates, ThreadTypes
  <1> QED BY <1>5, <1>9, <1>10, <1>11, <1>12

LEMMA JobReturnsStep ==
  ASSUME IInv, NEW t \in Threads, JobReturns(t)
  PROVE  IInv'
  <1> USE DEF IInv
  <1> DEFINE j == cur[t]
  <1>1. /\ pc[t] = "running" /\ j \in Jobs /\ j # None /\ job[j].status = "Running" /\ job[j].slot
        /\ doomed[t] = {} /\ j \notin finished /\ destroyed[j] = 0
    BY JobsAssumption DEF JobReturns, ThreadInv, SlotOnce, JobPlaces
  <1>2. AfterJob(t) \in {"inline", "locked"} /\ AfterJob(t) \in Labels \ BatchLabels
    BY DEF AfterJob, Labels, WorkerLabels, MainLabels, BatchLabels
  <1>3. \A k \in Jobs : \A u \in Threads : k \in doomed[u] => k # j
    BY <1>1 DEF SlotOnce
  <1>4. CASE job[j].cancelled
    <2>1. /\ job' = [job EXCEPT ![j] = Dropped(@)]
          /\ doomed' = [doomed EXCEPT ![t] = {j}]
          /\ running' = running \ {j}
          /\ pc' = Goto(t, "destroy")
          /\ UNCHANGED <<finished, busy, cur, held, queue, nextSeq, destroyed, batchVars, poolVars, op>>
      BY <1>1, <1>4 DEF JobReturns
    <2>2. /\ job'[j] = Dropped(job[j])
          /\ job'[j].status = "Dropped" /\ ~job'[j].slot
          /\ \A k \in Jobs \ {j} : job'[k] = job[k]
      BY <1>1, <2>1 DEF TypeOK, JobTypes, JobStates, Dropped
    <2>3. /\ pc'[t] = "destroy" /\ doomed'[t] = {j}
          /\ \A u \in Threads \ {t} : pc'[u] = pc[u] /\ doomed'[u] = doomed[u]
      BY <2>1 DEF TypeOK, ThreadTypes, Goto
    <2>4. Wakes(Goto(t, "destroy"), pc')
      BY <2>1, NoWakes DEF TypeOK, Labels, RunLabels
    <2>5. JobTypes' /\ PoolTypes'
      BY ZenonT(40), <1>1, <2>1 DEF TypeOK, JobTypes, JobStates, Statuses, PoolTypes, poolVars, Dropped
    <2>6. TypeOK' /\ BatchInv'
      BY <1>1, <2>1, <2>4, <2>5, JobMoveTypes DEF TypeOK, ThreadTypes, Labels, RunLabels, BatchLabels
    <2>7. ThreadInv'
      BY <1>1, <2>1, <2>2, <2>3 DEF ThreadInv, JobPlaces, TypeOK, ThreadTypes, RunLabels
    <2>8. SeqInv'
      BY <2>1, <2>2 DEF SeqInv
    <2>9. JobPlaces'
      BY <1>1, <2>1, <2>2, <2>3 DEF JobPlaces, TypeOK, JobTypes, ThreadTypes
    <2>10. SlotOnce'
      BY <1>1, <1>3, <2>1, <2>2, <2>3 DEF SlotOnce, ThreadInv, JobPlaces, TypeOK, ThreadTypes, RunLabels
    <2> QED BY <2>6, <2>7, <2>8, <2>9, <2>10
  <1>5. CASE ~job[j].cancelled
    <2>1. /\ job' = [job EXCEPT ![j].status = "Finished", ![j].value = TRUE]
          /\ finished' = finished \cup {j}
          /\ running' = running \ {j}
          /\ busy' = busy - 1
          /\ cur' = [cur EXCEPT ![t] = None]
          /\ pc' \in WakeOne(WakeIdle(Goto(t, AfterJob(t))))
          /\ UNCHANGED <<doomed, held, queue, nextSeq, destroyed, batchVars, poolVars, op>>
      BY <1>5 DEF JobReturns, LeaveJob
    <2>2. /\ job'[j].status = "Finished" /\ job'[j].slot = job[j].slot /\ job'[j].value
          /\ \A k \in Jobs \ {j} : job'[k] = job[k]
      BY <1>1, <2>1 DEF TypeOK, JobTypes, JobStates
    <2>3. Wakes(Goto(t, AfterJob(t)), pc')
      BY <1>2, <2>1, GotoType, LeaveWakes DEF TypeOK
    <2>4. /\ pc'[t] \notin RunLabels /\ cur'[t] = None
          /\ \A u \in Threads \ {t} : cur'[u] = cur[u] /\ \A r \in RunLabels : pc'[u] = r <=> pc[u] = r
      BY <1>2, <2>1, <2>3, OthersKeepRunning DEF TypeOK, ThreadTypes, RunLabels
    <2>5. JobTypes' /\ PoolTypes'
      BY <1>1, <2>1 DEF TypeOK, JobTypes, JobStates, Statuses, PoolTypes, poolVars
    <2>6. TypeOK' /\ BatchInv'
      BY <1>1, <1>2, <2>1, <2>3, <2>5, JobMoveTypes DEF TypeOK, ThreadTypes
    <2>13. UNCHANGED <<doomed, queue, destroyed>>
      BY <2>1
    <2>11. \A u \in Threads \ {t} : /\ pc'[u] = "running" <=> pc[u] = "running"
                                    /\ pc'[u] = "leave" <=> pc[u] = "leave"
                                    /\ pc'[u] = "destroy" <=> pc[u] = "destroy"
      <3>1. {"running", "leave", "destroy"} \subseteq RunLabels
        BY DEF RunLabels
      <3> QED BY <2>4, <3>1
    <2>12. \A u \in Threads \ {t} : /\ cur'[u] = cur[u] /\ cur[u] # j
                                    /\ cur[u] # None => cur[u] \in Jobs /\ job'[cur[u]] = job[cur[u]]
      <3>1. \A u \in Threads \ {t} : cur'[u] = cur[u]
        BY <2>4
      <3>2. \A u \in Threads \ {t} : cur[u] # j /\ (cur[u] # None => cur[u] \in Jobs)
        BY <1>1 DEF JobPlaces, TypeOK, ThreadTypes
      <3> QED BY <2>2, <3>1, <3>2
    <2>7. ThreadInv'
      <3>1. ASSUME NEW u \in Threads \ {t}
            PROVE  /\ pc'[u] \in {"running", "leave"} => cur'[u] \in Jobs
                   /\ cur'[u] # None => pc'[u] \in RunLabels
                   /\ cur'[u] # None =>
                        job'[cur'[u]].status = IF pc'[u] = "running" THEN "Running" ELSE "Dropped"
                   /\ doomed'[u] # {} => pc'[u] = "destroy"
        BY <2>13, <2>11, <2>12 DEF ThreadInv, RunLabels
      <3> QED BY <1>1, <2>13, <2>4, <3>1 DEF ThreadInv, RunLabels
    <2>8. SeqInv'
      BY <2>1, <2>2 DEF SeqInv
    <2>9. JobPlaces'
      BY <1>1, <2>1, <2>2, <2>4 DEF JobPlaces, TypeOK, JobTypes, ThreadTypes, RunLabels
    <2>10. SlotOnce'
      <3>1. \A u \in Threads : pc'[u] = "running" => cur'[u] # None /\ job'[cur'[u]].slot
        BY <2>2, <2>4, <2>11, <2>12 DEF SlotOnce, RunLabels
      <3>2. \A u \in Threads : doomed'[u] = doomed[u] /\ doomed[u] \subseteq Jobs
        BY <2>13 DEF TypeOK, ThreadTypes
      <3>3. \A k \in Jobs :
             /\ destroyed'[k] \in {0, 1}
             /\ job'[k].slot => destroyed'[k] = 0
             /\ job'[k].status = "New" => ~job'[k].slot /\ destroyed'[k] = 0
             /\ job'[k].status \in {"Queued", "Running", "Finished"} => job'[k].slot
             /\ job'[k].status \in {"Finished", "Delivered"} => job'[k].value
             /\ job'[k].status = "Dropped" => ~job'[k].slot
             /\ job'[k].status # "New" /\ ~job'[k].slot =>
                  destroyed'[k] = 1 \/ \E u \in Threads : k \in doomed'[u]
        <4>1. ASSUME NEW k \in Jobs \ {j} PROVE job'[k] = job[k] /\ destroyed'[k] = destroyed[k]
          BY <2>2, <2>13
        <4>2. destroyed'[j] = 0 /\ job'[j].slot
          BY <1>1, <2>2, <2>13
        <4>3. ASSUME NEW k \in Jobs, job'[k].status # "New", ~job'[k].slot
              PROVE  destroyed'[k] = 1 \/ \E u \in Threads : k \in doomed'[u]
          BY <2>13, <4>1, <4>2, <4>3 DEF SlotOnce
        <4> QED BY <2>2, <4>1, <4>2, <4>3 DEF SlotOnce
      <3>4. \A u \in Threads : \A k \in doomed'[u] :
             /\ job'[k].status # "New" /\ ~job'[k].slot /\ destroyed'[k] = 0
             /\ \A v \in Threads : k \in doomed'[v] => v = u
        BY <1>3, <2>13, <2>2, <3>2 DEF SlotOnce
      <3> QED BY <3>1, <3>3, <3>4 DEF SlotOnce
    <2> QED BY <2>6, <2>7, <2>8, <2>9, <2>10
  <1> QED BY <1>4, <1>5

LEMMA LeaveCancelledStep ==
  ASSUME IInv, NEW t \in Threads, LeaveCancelled(t)
  PROVE  IInv'
  <1> USE DEF IInv
  <1>1. /\ pc[t] = "leave" /\ cur[t] \in Jobs /\ cur[t] # None /\ doomed[t] = {}
    BY JobsAssumption DEF LeaveCancelled, ThreadInv
  <1>2. AfterJob(t) \in {"inline", "locked"} /\ AfterJob(t) \in Labels \ BatchLabels
    BY DEF AfterJob, Labels, WorkerLabels, MainLabels, BatchLabels
  <1>3. /\ busy' = busy - 1
        /\ cur' = [cur EXCEPT ![t] = None]
        /\ pc' \in WakeOne(WakeIdle(Goto(t, AfterJob(t))))
        /\ UNCHANGED <<job, held, queue, running, finished, nextSeq, destroyed, batchVars, poolVars,
                       op, doomed>>
    BY DEF LeaveCancelled, LeaveJob
  <1>4. Wakes(Goto(t, AfterJob(t)), pc')
    BY <1>2, <1>3, GotoType, LeaveWakes DEF TypeOK
  <1>5. /\ pc'[t] \notin RunLabels /\ cur'[t] = None
        /\ \A u \in Threads \ {t} : cur'[u] = cur[u] /\ \A r \in RunLabels : pc'[u] = r <=> pc[u] = r
    BY <1>2, <1>3, <1>4, OthersKeepRunning DEF TypeOK, ThreadTypes, RunLabels
  <1>6. JobTypes' /\ PoolTypes'
    BY <1>3 DEF TypeOK, JobTypes, PoolTypes, poolVars
  <1>7. TypeOK' /\ BatchInv'
    BY <1>2, <1>3, <1>4, <1>6, JobMoveTypes DEF TypeOK, ThreadTypes
  <1>8. ThreadInv' /\ SeqInv'
    BY <1>1, <1>3, <1>5 DEF ThreadInv, SeqInv, TypeOK, ThreadTypes, RunLabels
  <1>9. JobPlaces'
    BY <1>1, <1>3, <1>5 DEF JobPlaces, TypeOK, ThreadTypes, RunLabels
  <1>10. SlotOnce'
    BY <1>1, <1>3, <1>5 DEF SlotOnce, TypeOK, ThreadTypes, RunLabels
  <1> QED BY <1>7, <1>8, <1>9, <1>10

LEMMA DestroyDoomedStep ==
  ASSUME IInv, NEW t \in Threads, DestroyDoomed(t)
  PROVE  IInv'
  <1> USE DEF IInv
  <1>1. PICK l \in {"leave", "ready", "idle_check"} :
           pc' = Goto(t, l) /\ (l = "leave" <=> cur[t] # None)
    BY DEF DestroyDoomed
  <1>2. /\ pc[t] = "destroy"
        /\ destroyed' = [k \in Jobs |-> destroyed[k] + IF k \in doomed[t] THEN 1 ELSE 0]
        /\ doomed' = [doomed EXCEPT ![t] = {}]
        /\ UNCHANGED <<job, held, queue, running, finished, busy, nextSeq, batchVars, poolVars, op, cur>>
    BY DEF DestroyDoomed
  <1>3. l \in Labels \ BatchLabels
    BY DEF Labels, MainLabels, RunLabels, BatchLabels
  <1>4. Wakes(Goto(t, l), pc')
    BY <1>1, <1>3, NoWakes DEF TypeOK
  <1>5. /\ pc'[t] = l /\ doomed'[t] = {}
        /\ \A u \in Threads \ {t} : pc'[u] = pc[u] /\ doomed'[u] = doomed[u]
    BY <1>1, <1>2 DEF TypeOK, ThreadTypes, Goto
  <1>6. JobTypes' /\ PoolTypes'
    BY <1>2 DEF TypeOK, JobTypes, PoolTypes, poolVars
  <1>7. TypeOK' /\ BatchInv'
    BY <1>2, <1>3, <1>4, <1>6, JobMoveTypes DEF TypeOK, ThreadTypes
  <1>8. ThreadInv' /\ SeqInv'
    BY <1>1, <1>2, <1>5 DEF ThreadInv, SeqInv, TypeOK, ThreadTypes, RunLabels
  <1>9. JobPlaces'
    BY <1>1, <1>2, <1>5 DEF JobPlaces, TypeOK, ThreadTypes, RunLabels
  <1>10. SlotOnce'
    BY <1>1, <1>2, <1>5 DEF SlotOnce, TypeOK, JobTypes, ThreadTypes, RunLabels
  <1> QED BY <1>7, <1>8, <1>9, <1>10

LEMMA SubmitStep ==
  ASSUME IInv, NEW j \in Jobs, NEW p \in Prios, Submit(j, p)
  PROVE  IInv'
  <1> USE DEF IInv
  <1> DEFINE e == Entry(j, p, nextSeq)
             s == [NewJob EXCEPT !.status = "Queued", !.slot = TRUE, !.prio = p, !.seq = nextSeq]
  <1>1. /\ pc[Main] = "ready" /\ job[j].status = "New" /\ Main \in Threads /\ nextSeq \in Nat
        /\ job' = [job EXCEPT ![j] = s] /\ queue' = queue \cup {e}
        /\ nextSeq' = nextSeq + 1 /\ held' = held \cup {j}
        /\ pc' = Goto(Main, "notify")
        /\ UNCHANGED <<running, finished, busy, destroyed, batchVars, poolVars, op, cur, doomed>>
    BY DEF Submit, Ready, Threads, TypeOK, JobTypes
  <1>2. /\ s \in JobStates /\ s.status = "Queued" /\ s.slot /\ s.prio = p /\ s.seq = nextSeq
        /\ job'[j] = s /\ \A k \in Jobs \ {j} : job'[k] = job[k]
    BY <1>1, PriosAssumption DEF NewJob, JobStates, Statuses, TypeOK, JobTypes
  <1>3. e.job = j /\ e.prio = p /\ e.seq = nextSeq /\ e \in [prio : Int, seq : Nat, job : Jobs]
    BY <1>1, PriosAssumption DEF Entry
  <1> HIDE DEF s
  <1>4. Wakes(Goto(Main, "notify"), pc')
    BY <1>1, NoWakes DEF TypeOK, Labels, MainLabels
  <1>5. JobTypes' /\ PoolTypes'
    BY <1>1, <1>2, <1>3 DEF TypeOK, JobTypes, PoolTypes, poolVars
  <1>6. TypeOK' /\ BatchInv'
    BY <1>1, <1>4, <1>5, JobMoveTypes DEF TypeOK, ThreadTypes, Labels, MainLabels, BatchLabels
  <1>7. \A u \in Threads : /\ cur[u] # j /\ j \notin doomed[u]
                           /\ pc'[u] \in RunLabels => pc'[u] = pc[u]
                           /\ pc[u] \in RunLabels => pc'[u] = pc[u]
    BY <1>1, JobsAssumption DEF ThreadInv, SlotOnce, TypeOK, ThreadTypes, Goto, RunLabels
  <1>8. ThreadInv'
    BY <1>1, <1>2, <1>7 DEF ThreadInv, TypeOK, ThreadTypes, RunLabels
  <1>9. SeqInv'
    BY <1>1, <1>2 DEF SeqInv, TypeOK, JobTypes, JobStates
  <1>10. JobPlaces'
    <2>1. \A f \in queue' : /\ f = Entry(f.job, job'[f.job].prio, job'[f.job].seq)
                            /\ job'[f.job].status = "Queued"
      BY <1>1, <1>2, <1>3 DEF JobPlaces, TypeOK, JobTypes
    <2>2. \A k \in Jobs :
            /\ job'[k].status = "Queued" => Entry(k, job'[k].prio, job'[k].seq) \in queue'
            /\ job'[k].status = "Running" <=> k \in running'
            /\ job'[k].status = "Finished" <=> k \in finished'
      BY <1>1, <1>2 DEF JobPlaces
    <2>3. \A k \in Jobs : k \in running' <=> \E u \in Threads : cur'[u] = k /\ pc'[u] = "running"
      BY <1>1, <1>7 DEF JobPlaces, RunLabels
    <2>4. \A k, i \in Jobs : /\ job'[k].status = "Queued" /\ job'[i].status = "Queued"
                             /\ job'[k].seq = job'[i].seq
                             => k = i
      <3>1. \A k \in Jobs \ {j} : job[k].status = "Queued" => job[k].seq < nextSeq /\ job[k].seq \in Nat
        BY DEF SeqInv, TypeOK, JobTypes, JobStates
      <3> QED BY <1>1, <1>2, <3>1 DEF JobPlaces
    <2> QED BY <1>1, <2>1, <2>2, <2>3, <2>4 DEF JobPlaces
  <1>11. SlotOnce'
    BY <1>1, <1>2, <1>7 DEF SlotOnce, ThreadInv, TypeOK, ThreadTypes, RunLabels
  <1> QED BY <1>6, <1>8, <1>9, <1>10, <1>11

LEMMA SetPriorityStep ==
  ASSUME IInv, NEW j \in Jobs, NEW p \in Prios, SetPriority(j, p)
  PROVE  IInv'
  <1> USE DEF IInv
  <1> DEFINE e == Entry(j, p, job[j].seq)
             old == Entry(j, job[j].prio, job[j].seq)
  <1>1. /\ job[j].status = "Queued"
        /\ queue' = EraseKey(job[j].prio, job[j].seq) \cup {e}
        /\ job' = [job EXCEPT ![j].prio = p]
        /\ UNCHANGED <<held, running, finished, busy, nextSeq, destroyed, batchVars, poolVars,
                       op, pc, cur, doomed>>
    BY DEF SetPriority
  <1>2. /\ job'[j] = [job[j] EXCEPT !.prio = p] /\ job'[j].prio = p
        /\ job'[j].status = "Queued" /\ job'[j].seq = job[j].seq /\ job'[j].slot = job[j].slot
        /\ job'[j].value = job[j].value
        /\ \A k \in Jobs \ {j} : job'[k] = job[k]
    BY <1>1 DEF TypeOK, JobTypes, JobStates
  <1>3. e.job = j /\ e.prio = p /\ e.seq = job[j].seq /\ e \in [prio : Int, seq : Nat, job : Jobs]
    BY PriosAssumption DEF Entry, TypeOK, JobTypes, JobStates
  <1>4. \A f \in EraseKey(job[j].prio, job[j].seq) : f \in queue /\ f # old
    BY DEF EraseKey, Entry
  <1>5. \A f \in queue : f # old => f \in EraseKey(job[j].prio, job[j].seq)
    BY <1>1 DEF EraseKey, Entry, JobPlaces, TypeOK, JobTypes
  <1>6. TypeOK'
    <2>1. JobTypes'
      BY <1>1, <1>3, PriosAssumption DEF TypeOK, JobTypes, JobStates, EraseKey
    <2> QED BY <1>1, <2>1 DEF TypeOK, PoolTypes, BatchTypes, ThreadTypes, poolVars, batchVars
  <1>7. BatchInv' /\ ThreadInv' /\ SeqInv'
    BY <1>1, <1>2 DEF BatchInv, ThreadInv, SeqInv, batchVars, TypeOK, ThreadTypes
  <1>8. JobPlaces'
    <2>1. ASSUME NEW f \in queue'
          PROVE  f = Entry(f.job, job'[f.job].prio, job'[f.job].seq) /\ job'[f.job].status = "Queued"
      <3>1. CASE f = e
        BY <1>2, <1>3, <3>1
      <3>2. CASE f # e
        BY <1>1, <1>2, <1>4, <3>2 DEF JobPlaces, TypeOK, JobTypes
      <3> QED BY <3>1, <3>2
    <2>2. ASSUME NEW k \in Jobs, job'[k].status = "Queued"
          PROVE  Entry(k, job'[k].prio, job'[k].seq) \in queue'
      <3>1. k # j => Entry(k, job[k].prio, job[k].seq) # old
        BY DEF Entry
      <3> QED BY <1>1, <1>2, <1>5, <2>2, <3>1 DEF JobPlaces
    <2> QED BY <1>1, <1>2, <2>1, <2>2 DEF JobPlaces
  <1>9. SlotOnce'
    BY <1>1, <1>2 DEF SlotOnce, ThreadInv, TypeOK, ThreadTypes
  <1> QED BY <1>6, <1>7, <1>8, <1>9

LEMMA DeliverStep ==
  ASSUME IInv, Deliver, pc[Main] \notin RunLabels
  PROVE  IInv'
  <1> USE DEF IInv
  <1>1. /\ Main \in Threads
        /\ job' = [j \in Jobs |-> IF j \in finished THEN [job[j] EXCEPT !.status = "Delivered"]
                                                    ELSE job[j]]
        /\ finished' = {} /\ op' = "none" /\ pc' = Goto(Main, "ready")
        /\ UNCHANGED <<held, queue, running, busy, nextSeq, destroyed, batchVars, poolVars, cur, doomed>>
    BY DEF Deliver, Threads
  <1>2. \A j \in Jobs : /\ job'[j].slot = job[j].slot /\ job'[j].value = job[j].value
                        /\ job'[j].prio = job[j].prio /\ job'[j].seq = job[j].seq
                        /\ j \in finished => job'[j].status = "Delivered"
                        /\ j \notin finished => job'[j].status = job[j].status
    BY <1>1 DEF TypeOK, JobTypes, JobStates
  <1>3. \A j \in Jobs : j \in finished <=> job[j].status = "Finished"
    BY DEF JobPlaces
  <1>4. Wakes(Goto(Main, "ready"), pc')
    BY <1>1, NoWakes DEF TypeOK, Labels, MainLabels
  <1>5. JobTypes' /\ PoolTypes'
    BY <1>1 DEF TypeOK, JobTypes, JobStates, Statuses, PoolTypes, poolVars, Ops
  <1>6. TypeOK' /\ BatchInv'
    BY <1>1, <1>4, <1>5, JobMoveTypes DEF TypeOK, ThreadTypes, Labels, MainLabels, BatchLabels
  <1>7. \A u \in Threads : /\ pc'[u] \in RunLabels => pc'[u] = pc[u]
                           /\ pc[u] \in RunLabels => pc'[u] = pc[u]
                           /\ cur[u] # None => cur[u] \in Jobs
    BY <1>1 DEF TypeOK, ThreadTypes, Goto, RunLabels
  <1>8. ThreadInv'
    <2>1. \A u \in Threads : cur[u] # None => job'[cur[u]].status = job[cur[u]].status
      BY <1>2, <1>3, <1>7 DEF ThreadInv
    <2> QED BY <1>1, <1>7, <2>1 DEF ThreadInv, RunLabels
  <1>9. SeqInv'
    BY <1>1, <1>2, <1>3 DEF SeqInv
  <1>10. JobPlaces'
    <2>1. \A e \in queue : e.job \in Jobs /\ e.job \notin finished
      BY <1>3 DEF JobPlaces, TypeOK, JobTypes
    <2>2. \A e \in queue' : /\ e = Entry(e.job, job'[e.job].prio, job'[e.job].seq)
                            /\ job'[e.job].status = "Queued"
      BY <1>1, <1>2, <2>1 DEF JobPlaces
    <2>3. \A k \in Jobs :
            /\ job'[k].status = "Queued" => Entry(k, job'[k].prio, job'[k].seq) \in queue'
            /\ job'[k].status = "Running" <=> k \in running'
            /\ job'[k].status = "Finished" <=> k \in finished'
      BY <1>1, <1>2, <1>3 DEF JobPlaces
    <2>4. \A k \in Jobs : k \in running' <=> \E u \in Threads : cur'[u] = k /\ pc'[u] = "running"
      BY <1>1, <1>7 DEF JobPlaces, RunLabels
    <2>5. \A k, i \in Jobs : /\ job'[k].status = "Queued" /\ job'[i].status = "Queued"
                             /\ job'[k].seq = job'[i].seq
                             => k = i
      BY <1>2, <1>3 DEF JobPlaces
    <2> QED BY <1>1, <2>2, <2>3, <2>4, <2>5 DEF JobPlaces
  <1>11. SlotOnce'
    <2>1. \A u \in Threads : pc'[u] = "running" => cur'[u] # None /\ job'[cur'[u]].slot
      BY <1>1, <1>2, <1>7 DEF SlotOnce, RunLabels
    <2>2. \A u \in Threads : \A j \in doomed[u] : j \in Jobs
      BY DEF TypeOK, ThreadTypes
    <2> QED BY <1>1, <1>2, <1>3, <2>1, <2>2 DEF SlotOnce
  <1> QED BY <1>6, <1>8, <1>9, <1>10, <1>11

LEMMA CancelAllStep ==
  ASSUME IInv, NEW call \in {"cancel_all", "stop"}, CancelAll(call)
  PROVE  IInv'
  <1> USE DEF IInv
  <1> DEFINE Out == {e.job : e \in queue} \cup finished
  <1>1. /\ pc[Main] = "ready" /\ Main \in Threads
        /\ job' = [j \in Jobs |-> IF j \in Out THEN Dropped(job[j])
                                  ELSE IF j \in running THEN [job[j] EXCEPT !.cancelled = TRUE]
                                  ELSE job[j]]
        /\ doomed' = [doomed EXCEPT ![Main] = {j \in Out : job[j].slot}]
        /\ queue' = {} /\ finished' = {} /\ op' = call /\ pc' = Goto(Main, "destroy")
        /\ UNCHANGED <<held, running, busy, nextSeq, destroyed, batchVars, poolVars, cur>>
    BY DEF CancelAll, Ready, Threads
  <1>2. \A j \in Jobs : j \in Out <=> job[j].status \in {"Queued", "Finished"}
    <2>1. ASSUME NEW j \in Jobs PROVE j \in {e.job : e \in queue} <=> job[j].status = "Queued"
      <3>1. ASSUME NEW e \in queue, e.job = j PROVE job[j].status = "Queued"
        BY <3>1 DEF JobPlaces
      <3>2. Entry(j, job[j].prio, job[j].seq).job = j
        BY DEF Entry
      <3>3. job[j].status = "Queued" => \E e \in queue : e.job = j
        BY <3>2 DEF JobPlaces
      <3> QED BY <3>1, <3>3
    <2> QED BY <2>1 DEF JobPlaces
  <1>3. Out \subseteq Jobs
    BY DEF TypeOK, JobTypes
  <1> HIDE DEF Out
  <1>4. \A j \in Jobs :
          /\ j \in Out => /\ job'[j].status = "Dropped" /\ ~job'[j].slot
                          /\ job'[j] \in JobStates
          /\ j \notin Out => /\ job'[j].status = job[j].status /\ job'[j].slot = job[j].slot
                             /\ job'[j].value = job[j].value /\ job'[j].seq = job[j].seq
                             /\ job'[j] \in JobStates
    BY <1>1 DEF TypeOK, JobTypes, JobStates, Statuses, Dropped
  <1>5. \A j \in Out : job[j].slot /\ destroyed[j] = 0 /\ \A u \in Threads : j \notin doomed[u]
    BY <1>2, <1>3 DEF SlotOnce
  <1>6. /\ pc'[Main] = "destroy" /\ doomed'[Main] = Out /\ doomed[Main] = {} /\ cur[Main] = None
        /\ \A u \in Threads \ {Main} : pc'[u] = pc[u] /\ doomed'[u] = doomed[u]
    <2>1. {j \in Out : job[j].slot} = Out
      BY <1>5
    <2> QED BY <1>1, <2>1 DEF TypeOK, ThreadTypes, Goto, ThreadInv, RunLabels
  <1>7. Wakes(Goto(Main, "destroy"), pc')
    BY <1>1, NoWakes DEF TypeOK, Labels, RunLabels
  <1>8. JobTypes' /\ PoolTypes'
    BY <1>1, <1>4 DEF TypeOK, JobTypes, PoolTypes, poolVars, Ops
  <1>9. doomed' \in [Threads -> SUBSET Jobs]
    BY <1>1, <1>3 DEF TypeOK, ThreadTypes
  <1>10. TypeOK' /\ BatchInv'
    BY <1>1, <1>7, <1>8, <1>9, JobMoveTypes DEF TypeOK, ThreadTypes, Labels, RunLabels, BatchLabels
  <1>11. \A u \in Threads : cur[u] # None => cur[u] \in Jobs /\ cur[u] \notin Out
    BY <1>2 DEF ThreadInv, TypeOK, ThreadTypes
  <1>12. ThreadInv'
    BY <1>1, <1>4, <1>6, <1>11 DEF ThreadInv, RunLabels
  <1>13. SeqInv'
    BY <1>1, <1>2, <1>4 DEF SeqInv
  <1>14. JobPlaces'
    <2>1. \A k \in Jobs : k \in running' <=> \E u \in Threads : cur'[u] = k /\ pc'[u] = "running"
      BY <1>1, <1>6 DEF JobPlaces
    <2>2. \A k \in Jobs : /\ job'[k].status # "Queued" /\ job'[k].status # "Finished"
                          /\ job'[k].status = "Running" <=> job[k].status = "Running"
      BY <1>2, <1>4
    <2>3. \A k \in Jobs : job'[k].status = "Running" <=> k \in running'
      BY <1>1, <2>2 DEF JobPlaces
    <2>4. queue' = {} /\ finished' = {} /\ cur' = cur
      BY <1>1
    <2>5. \A t, u \in Threads : cur'[t] # None /\ cur'[t] = cur'[u] => t = u
      BY <2>4 DEF JobPlaces
    <2> QED BY <2>1, <2>2, <2>3, <2>4, <2>5 DEF JobPlaces
  <1>15. SlotOnce'
    <2>1. \A k \in Jobs :
           /\ destroyed'[k] \in {0, 1}
           /\ job'[k].slot => destroyed'[k] = 0
           /\ job'[k].status = "New" => ~job'[k].slot /\ destroyed'[k] = 0
           /\ job'[k].status \in {"Queued", "Running", "Finished"} => job'[k].slot
           /\ job'[k].status \in {"Finished", "Delivered"} => job'[k].value
           /\ job'[k].status = "Dropped" => ~job'[k].slot
      <3>1. destroyed' = destroyed
        BY <1>1
      <3>2. ASSUME NEW k \in Jobs, k \in Out
            PROVE  job'[k].status = "Dropped" /\ ~job'[k].slot /\ destroyed'[k] = 0
        BY <1>4, <1>5, <3>1, <3>2
      <3>3. ASSUME NEW k \in Jobs, k \notin Out
            PROVE  /\ job'[k].status = job[k].status /\ job'[k].slot = job[k].slot
                   /\ job'[k].value = job[k].value /\ destroyed'[k] = destroyed[k]
        BY <1>4, <3>1, <3>3
      <3> QED BY <3>2, <3>3 DEF SlotOnce
    <2>2. ASSUME NEW k \in Jobs, job'[k].status # "New", ~job'[k].slot
          PROVE  destroyed'[k] = 1 \/ \E u \in Threads : k \in doomed'[u]
      <3>1. CASE k \in Out
        BY <1>1, <1>6, <3>1
      <3>2. CASE k \notin Out
        <4>1. job[k].status # "New" /\ ~job[k].slot
          BY <1>4, <2>2, <3>2
        <4>2. destroyed[k] = 1 \/ \E u \in Threads \ {Main} : k \in doomed[u]
          BY <1>6, <4>1 DEF SlotOnce
        <4> QED BY <1>1, <1>6, <4>2
      <3> QED BY <3>1, <3>2
    <2>3. \A u \in Threads : \A k \in doomed'[u] :
             /\ job'[k].status # "New" /\ ~job'[k].slot /\ destroyed'[k] = 0
             /\ \A v \in Threads : k \in doomed'[v] => v = u
      <3>1. \A u \in Threads : doomed[u] \subseteq Jobs
        BY DEF TypeOK, ThreadTypes
      <3>2. destroyed' = destroyed
        BY <1>1
      <3>3. ASSUME NEW k \in Jobs, k \notin Out
            PROVE  job'[k].status = job[k].status /\ job'[k].slot = job[k].slot
        BY <1>4, <3>3
      <3>4. ASSUME NEW u \in Threads, u # Main, NEW k \in doomed'[u]
            PROVE  k \in doomed[u] /\ k \in Jobs /\ k \notin Out
        BY <1>5, <1>6, <3>1, <3>4
      <3>5. ASSUME NEW u \in Threads, u # Main, NEW k \in doomed'[u]
            PROVE  /\ job'[k].status # "New" /\ ~job'[k].slot /\ destroyed'[k] = 0
                   /\ \A v \in Threads : k \in doomed'[v] => v = u
        BY <1>6, <3>2, <3>3, <3>4, <3>5 DEF SlotOnce
      <3>6. ASSUME NEW k \in doomed'[Main]
            PROVE  /\ job'[k].status # "New" /\ ~job'[k].slot /\ destroyed'[k] = 0
                   /\ \A v \in Threads : k \in doomed'[v] => v = Main
        BY <1>3, <1>4, <1>5, <1>6, <3>2, <3>6
      <3> QED BY <3>5, <3>6
    <2>4. \A u \in Threads : pc'[u] = "running" => cur'[u] # None /\ job'[cur'[u]].slot
      BY <1>1, <1>4, <1>6, <1>11 DEF SlotOnce
    <2> QED BY <2>1, <2>2, <2>3, <2>4 DEF SlotOnce
  <1> QED BY <1>10, <1>12, <1>13, <1>14, <1>15

LEMMA CancelCallStep ==
  ASSUME IInv, NEW j \in Jobs, CancelCall(j)
  PROVE  IInv'
  <1> USE DEF IInv
  <1> DEFINE s == job[j].status
             old == Entry(j, job[j].prio, job[j].seq)
  <1>1. /\ pc[Main] = "ready" /\ Main \in Threads /\ doomed[Main] = {} /\ cur[Main] = None
        /\ held' = held \ {j}
        /\ UNCHANGED <<running, busy, nextSeq, destroyed, batchVars, poolVars, op, cur>>
    BY DEF CancelCall, Ready, Threads, ThreadInv, RunLabels
  <1>2. \A k \in Jobs \ {j} : job'[k] = job[k]
    BY DEF CancelCall, TypeOK, JobTypes
  <1>3. \A u \in Threads : cur[u] # None => cur[u] \in Jobs
    BY DEF TypeOK, ThreadTypes
  <1>4. \A u \in Threads : doomed[u] \subseteq Jobs
    BY DEF TypeOK, ThreadTypes
  \* The slot leaves the state and Main goes on to destroy it.
  <1>5. CASE s \in {"Queued", "Finished", "Delivered"} /\ job[j].slot
    <2>1. /\ job' = [job EXCEPT ![j] = IF s = "Delivered" THEN [@ EXCEPT !.slot = FALSE] ELSE Dropped(@)]
          /\ queue' = IF s = "Queued" THEN EraseKey(job[j].prio, job[j].seq) ELSE queue
          /\ finished' = IF s = "Finished" THEN finished \ {j} ELSE finished
          /\ doomed' = [doomed EXCEPT ![Main] = {j}]
          /\ pc' = Goto(Main, "destroy")
      BY <1>5 DEF CancelCall
    <2>2. /\ job'[j] \in JobStates /\ ~job'[j].slot
          /\ job'[j].status = IF s = "Delivered" THEN "Delivered" ELSE "Dropped"
          /\ job'[j].value = job[j].value
      BY <2>1 DEF TypeOK, JobTypes, JobStates, Statuses, Dropped
    <2>3. /\ pc'[Main] = "destroy" /\ doomed'[Main] = {j}
          /\ \A u \in Threads \ {Main} : pc'[u] = pc[u] /\ doomed'[u] = doomed[u]
      BY <1>1, <2>1 DEF TypeOK, ThreadTypes, Goto
    <2>4. destroyed[j] = 0 /\ \A u \in Threads : j \notin doomed[u] /\ cur[u] # j
      BY <1>5, JobsAssumption DEF SlotOnce, ThreadInv
    <2>5. \A f \in queue' : f \in queue /\ f.job # j /\ f.job \in Jobs
      <3>1. \A f \in queue : f.job \in Jobs /\ (f.job = j => f = old /\ s = "Queued")
        BY DEF JobPlaces, TypeOK, JobTypes
      <3>2. old \notin EraseKey(job[j].prio, job[j].seq)
        BY DEF EraseKey, Entry
      <3> QED BY <2>1, <3>1, <3>2 DEF EraseKey
    <2>6. \A f \in queue : f.job # j => f \in queue'
      <3>1. ASSUME NEW f \in queue, f.job # j, s = "Queued"
            PROVE  ~(f.prio = job[j].prio /\ f.seq = job[j].seq)
        <4>1. /\ f = Entry(f.job, job[f.job].prio, job[f.job].seq)
              /\ job[f.job].status = "Queued" /\ f.job \in Jobs
          BY DEF JobPlaces, TypeOK, JobTypes
        <4>2. f.seq = job[f.job].seq
          BY <4>1 DEF Entry
        <4> QED BY <3>1, <4>1, <4>2 DEF JobPlaces
      <3> QED BY <2>1, <3>1 DEF EraseKey
    <2>7. Wakes(Goto(Main, "destroy"), pc')
      BY <1>1, <2>1, NoWakes DEF TypeOK, Labels, RunLabels
    <2>8. JobTypes' /\ PoolTypes'
      BY <1>1, <1>2, <2>1, <2>2 DEF TypeOK, JobTypes, PoolTypes, poolVars, EraseKey
    <2>9. TypeOK' /\ BatchInv'
      BY <1>1, <2>1, <2>7, <2>8, JobMoveTypes DEF TypeOK, ThreadTypes, Labels, RunLabels, BatchLabels
    <2>10. ThreadInv'
      BY <1>1, <1>2, <1>3, <2>3, <2>4 DEF ThreadInv, RunLabels
    <2>11. SeqInv'
      BY <1>1, <1>2, <2>2 DEF SeqInv
    <2>12. JobPlaces'
      <3>1. \A f \in queue' : /\ f = Entry(f.job, job'[f.job].prio, job'[f.job].seq)
                              /\ job'[f.job].status = "Queued"
        BY <1>2, <2>5 DEF JobPlaces
      <3>2. ASSUME NEW k \in Jobs, job'[k].status = "Queued"
            PROVE  Entry(k, job'[k].prio, job'[k].seq) \in queue'
        <4>1. k # j
          BY <2>2, <3>2
        <4>2. Entry(k, job[k].prio, job[k].seq).job = k
          BY DEF Entry
        <4> QED BY <1>2, <2>6, <3>2, <4>1, <4>2 DEF JobPlaces
      <3>3. \A k \in Jobs : /\ job'[k].status = "Running" <=> k \in running'
                            /\ job'[k].status = "Finished" <=> k \in finished'
        BY <1>1, <1>2, <1>5, <2>1, <2>2 DEF JobPlaces
      <3>4. \A k \in Jobs : k \in running' <=> \E u \in Threads : cur'[u] = k /\ pc'[u] = "running"
        BY <1>1, <2>3 DEF JobPlaces
      <3>5. \A k, i \in Jobs : /\ job'[k].status = "Queued" /\ job'[i].status = "Queued"
                               /\ job'[k].seq = job'[i].seq
                               => k = i
        BY <1>2, <2>2 DEF JobPlaces
      <3>6. \A t, u \in Threads : cur'[t] # None /\ cur'[t] = cur'[u] => t = u
        BY <1>1 DEF JobPlaces
      <3> QED BY <3>1, <3>2, <3>3, <3>4, <3>5, <3>6 DEF JobPlaces
    <2>13. SlotOnce'
      <3>1. destroyed' = destroyed
        BY <1>1
      <3>2. \A u \in Threads : pc'[u] = "running" => cur'[u] # None /\ job'[cur'[u]].slot
        BY <1>1, <1>2, <1>3, <2>3, <2>4 DEF SlotOnce
      <3>3. \A u \in Threads : \A k \in doomed'[u] :
               /\ job'[k].status # "New" /\ ~job'[k].slot /\ destroyed'[k] = 0
               /\ \A v \in Threads : k \in doomed'[v] => v = u
        BY <1>1, <1>2, <1>4, <2>2, <2>3, <2>4, <3>1 DEF SlotOnce
      <3>4. ASSUME NEW k \in Jobs
            PROVE  /\ destroyed'[k] \in {0, 1}
                   /\ job'[k].slot => destroyed'[k] = 0
                   /\ job'[k].status = "New" => ~job'[k].slot /\ destroyed'[k] = 0
                   /\ job'[k].status \in {"Queued", "Running", "Finished"} => job'[k].slot
                   /\ job'[k].status \in {"Finished", "Delivered"} => job'[k].value
                   /\ job'[k].status = "Dropped" => ~job'[k].slot
                   /\ job'[k].status # "New" /\ ~job'[k].slot =>
                        destroyed'[k] = 1 \/ \E u \in Threads : k \in doomed'[u]
        <4>1. CASE k = j
          BY <1>1, <1>5, <2>2, <2>3, <2>4, <3>1, <4>1 DEF SlotOnce
        <4>2. CASE k # j
          BY <1>1, <1>2, <2>3, <3>1, <4>2 DEF SlotOnce
        <4> QED BY <4>1, <4>2
      <3> QED BY <3>2, <3>3, <3>4 DEF SlotOnce
    <2> QED BY <2>9, <2>10, <2>11, <2>12, <2>13
  \* A running job gets its flag; every other call finds the job out of the system already.
  <1>6. CASE ~(s \in {"Queued", "Finished", "Delivered"} /\ job[j].slot)
    <2>1. s \notin {"Queued", "Finished"}
      BY <1>6 DEF SlotOnce
    <2>2. /\ job' = [job EXCEPT ![j] = CASE s = "Running" -> [@ EXCEPT !.cancelled = TRUE]
                                         [] s = "Delivered" -> [@ EXCEPT !.slot = FALSE]
                                         [] OTHER -> @]
          /\ UNCHANGED <<queue, finished, doomed, pc>>
      BY <1>6, <2>1 DEF CancelCall
    <2>3. /\ job'[j] \in JobStates /\ job'[j].status = job[j].status /\ job'[j].slot = job[j].slot
          /\ job'[j].value = job[j].value /\ job'[j].prio = job[j].prio /\ job'[j].seq = job[j].seq
      BY <1>6, <2>2 DEF TypeOK, JobTypes, JobStates
    <2>4. \A k \in Jobs : /\ job'[k].status = job[k].status /\ job'[k].slot = job[k].slot
                          /\ job'[k].value = job[k].value /\ job'[k].prio = job[k].prio
                          /\ job'[k].seq = job[k].seq
      BY <1>2, <2>3
    <2>5. TypeOK' /\ BatchInv'
      <3>1. JobTypes'
        BY <1>1, <1>2, <2>2, <2>3 DEF TypeOK, JobTypes
      <3> QED BY <1>1, <2>2, <3>1
             DEF TypeOK, PoolTypes, poolVars, BatchTypes, BatchInv, batchVars, ThreadTypes
    <2>6. ThreadInv' /\ SeqInv'
      BY <1>1, <1>3, <2>2, <2>4 DEF ThreadInv, SeqInv
    <2>7. JobPlaces'
      <3>1. \A f \in queue : f.job \in Jobs
        BY DEF TypeOK, JobTypes
      <3> QED BY <1>1, <2>2, <2>4, <3>1 DEF JobPlaces
    <2>8. SlotOnce'
      <3>1. UNCHANGED <<destroyed, doomed, pc, cur>>
        BY <1>1, <2>2
      <3>2. \A t \in Threads : pc'[t] = "running" => cur'[t] # None /\ job'[cur'[t]].slot
        BY <1>3, <2>4, <3>1 DEF SlotOnce
      <3>3. \A t \in Threads : \A k \in doomed'[t] :
               /\ job'[k].status # "New" /\ ~job'[k].slot /\ destroyed'[k] = 0
               /\ \A v \in Threads : k \in doomed'[v] => v = t
        BY <1>4, <2>4, <3>1 DEF SlotOnce
      <3> QED BY <2>4, <3>1, <3>2, <3>3 DEF SlotOnce
    <2> QED BY <2>5, <2>6, <2>7, <2>8
  <1> QED BY <1>5, <1>6

--------------------------------------------------------------------------------
(* The theorems.                                                                *)

LEMMA JobsInit == Init => IInv
  <1> SUFFICES ASSUME Init PROVE IInv
    OBVIOUS
  <1>1. TypeOK /\ BatchInv /\ ThreadInv
    BY TypeInit
  <1>2. SeqInv /\ JobPlaces /\ SlotOnce
    BY DEF Init, SeqInv, JobPlaces, SlotOnce, NewJob
  <1> QED BY <1>1, <1>2 DEF IInv

LEMMA JobsStep == IInv /\ [Next]_vars => IInv'
  <1> SUFFICES ASSUME IInv, [Next]_vars PROVE IInv'
    OBVIOUS
  <1>0. Main \in Threads /\ Workers \subseteq Threads /\ op \in Ops
    BY DEF Threads, IInv, TypeOK, PoolTypes
  <1>1. ASSUME NEW t \in Threads, JobStep(t) PROVE IInv'
    BY <1>1, JobReturnsStep, DestroyDoomedStep, LeaveCancelledStep DEF JobStep
  <1>2. ASSUME NEW t \in Threads, RangeStep(t) PROVE IInv'
    BY <1>2, ClaimRangeStep, RangeReturnsStep, SignalDoneStep DEF RangeStep
  <1>3. ASSUME NEW w \in Workers, WorkerStep(w) PROVE IInv'
    <2>1. CASE WorkerTakesJob(w)
      BY <1>0, <2>1, TakeJobStep DEF WorkerTakesJob, HasMutex, RunLabels
    <2> QED BY <1>0, <1>1, <1>2, <1>3, <2>1, SeeBatchStep, WorkerExitStep DEF WorkerStep
  <1>4. CASE MainStep
    <2>1. CASE RunMoreInline
      BY <1>0, <2>1, TakeJobStep DEF RunMoreInline, RunLabels
    <2>2. CASE LeaveInline
      <3>1. CASE Deliver
        BY <2>2, <3>1, DeliverStep DEF LeaveInline, RunLabels
      <3>2. CASE /\ op' = "none" /\ pc' = Goto(Main, "ready")
                 /\ UNCHANGED <<jobVars, batchVars, poolVars, cur, doomed>>
        <4>1. /\ "ready" \in Labels /\ "ready" \notin RunLabels /\ "ready" \notin BatchLabels
              /\ pc[Main] \notin RunLabels
          BY <2>2 DEF LeaveInline, Labels, MainLabels, RunLabels, BatchLabels
        <4>2. Wakes(Goto(Main, "ready"), pc')
          BY <1>0, <3>2, <4>1, NoWakes DEF IInv, TypeOK
        <4>3. PoolTypes'
          BY <3>2 DEF PoolTypes, poolVars, Ops, IInv, TypeOK
        <4> QED BY <1>0, <3>2, <4>1, <4>2, <4>3, LabelStep
      <3> QED BY <2>2, <3>1, <3>2 DEF LeaveInline
    <2> QED BY <1>0, <1>1, <1>2, <1>4, <2>1, <2>2, MainLabelStep, JoinStep DEF MainStep
  <1>5. CASE Call
    <2>1. CASE Poll
      <3>1. pc[Main] \notin RunLabels
        BY <2>1 DEF Poll, Ready, RunLabels
      <3> QED BY <1>0, <2>1, <3>1, TakeJobStep, DeliverStep DEF Poll, Ops
    <2>2. CASE WaitIdle
      <3>1. pc[Main] \notin RunLabels /\ pc[Main] = "ready"
        BY <2>2 DEF WaitIdle, Ready, RunLabels
      <3>2. CASE workers = 0
        BY <1>0, <2>2, <3>1, <3>2, TakeJobStep DEF WaitIdle, Ops
      <3>3. CASE workers # 0
        <4>1. /\ "idle_check" \in Labels /\ "idle_check" \notin RunLabels
              /\ "idle_check" \notin BatchLabels
          BY DEF Labels, MainLabels, RunLabels, BatchLabels
        <4>2. Wakes(Goto(Main, "idle_check"), pc')
          BY <1>0, <2>2, <3>3, <4>1, NoWakes DEF WaitIdle, IInv, TypeOK
        <4>3. PoolTypes'
          BY <2>2, <3>3 DEF WaitIdle, PoolTypes, poolVars, Ops, IInv, TypeOK
        <4> QED BY <1>0, <2>2, <3>1, <3>3, <4>1, <4>2, <4>3, LabelStep DEF WaitIdle
      <3> QED BY <3>2, <3>3
    <2> QED BY <1>5, <2>1, <2>2, SubmitStep, SetPriorityStep, CancelCallStep, CancelAllStep,
               PublishStep DEF Call
  <1>6. CASE \E t \in Threads : SpuriousWakeup(t)
    BY <1>6, MainLabelStep
  <1>7. CASE UNCHANGED vars
    <2>1. TypeOK' /\ BatchInv'
      BY <1>7 DEF vars, jobVars, batchVars, poolVars, IInv, TypeOK, JobTypes, BatchTypes, PoolTypes,
                  ThreadTypes, BatchInv
    <2> QED BY <1>7, <2>1, JobFrame DEF vars, IInv, RunLabelsKept
  <1> QED BY <1>3, <1>4, <1>5, <1>6, <1>7 DEF Next

\* Every behaviour of the job system keeps the invariant the properties below rest on.
THEOREM JobsInvariant == Spec => []IInv
  BY JobsInit, JobsStep, PTL DEF Spec

\* Every variable of the job system keeps its type, with any number of workers, jobs and ranges; a
\* claimed range is always one of the batch.
THEOREM JobsTypeCorrect == Spec => []TypeOK
  <1>1. IInv => TypeOK
    BY DEF IInv
  <1> QED BY <1>1, JobsInvariant, PTL

\* A job is always in exactly the list its status names, under the key cancel_job and
\* reprioritize_job look for, and no two threads ever run the same job.
THEOREM JobsPlaces == Spec => []JobPlaces
  <1>1. IInv => JobPlaces
    BY DEF IInv
  <1> QED BY <1>1, JobsInvariant, PTL

\* The slot of a job is destroyed at most once, never while its function runs, and never lost, for
\* any number of workers and jobs and every interleaving of cancels with run_one.
THEOREM JobsSlotOnce == Spec => []SlotOnce
  <1>1. IInv => SlotOnce
    BY DEF IInv
  <1> QED BY <1>1, JobsInvariant, PTL
--------------------------------------------------------------------------------
(* The life of a job, the order jobs start in, what cancel and cancel_all        *)
(* promise, and the cap on jobs: CancelInv, BusyInv, DrainInv, CapInv.           *)

\* The steps a job's state may take: submitted, taken, finished, delivered, or out of the system.
Edge(j) ==
  LET old == job[j]  new == job'[j] IN
  \/ /\ new.status = old.status
     /\ new.cancelled = old.cancelled \/ (old.status = "Running" /\ new.cancelled)
  \/ old.status = "New" /\ new.status = "Queued" /\ ~new.cancelled
  \/ old.status = "Queued" /\ new.status = "Running" /\ new.cancelled = old.cancelled
  \/ old.status = "Running" /\ ~old.cancelled /\ new.status = "Finished" /\ ~new.cancelled
  \/ old.status = "Finished" /\ new.status = "Delivered" /\ new.cancelled = old.cancelled
  \/ old.status \in {"Queued", "Running", "Finished"} /\ new.status = "Dropped" /\ new.cancelled

\* A token is set only while the function runs, or by dropping the job.
CancelInv == \A j \in Jobs : job[j].cancelled => job[j].status \in {"Running", "Dropped"}

--------------------------------------------------------------------------------
(* The steps that change a job.                                                 *)

\* A job is taken by a worker within job_cap, or by the owner thread when there are no workers.
Takes(t) ==
  /\ TakeJob(t) /\ pc[t] \notin RunLabels
  /\ t \in Workers => can_take_job
  /\ t = Main => workers = 0 \/ pc[Main] = "inline"

JobChange ==
  \/ \E t \in Threads : Takes(t)
  \/ \E t \in Threads : JobReturns(t) \/ DestroyDoomed(t) \/ LeaveCancelled(t)
  \/ \E j \in Jobs, p \in Prios : Submit(j, p) \/ SetPriority(j, p)
  \/ \E j \in Jobs : CancelCall(j)
  \/ pc[Main] \notin RunLabels /\ Deliver
  \/ \E call \in {"cancel_all", "stop"} : CancelAll(call)

\* Every step is one of them or leaves every job as it is.
LEMMA StepKinds ==
  ASSUME IInv, [Next]_vars
  PROVE  JobChange \/ UNCHANGED <<jobVars, cur>>
  <1>0. Main \in Threads /\ Workers \subseteq Threads /\ Main \notin Workers
    BY WorkersAssumption DEF Threads
  <1>1. ASSUME NEW t \in Threads, RangeStep(t) PROVE UNCHANGED <<jobVars, cur>>
    BY <1>1 DEF RangeStep, ClaimRange, RangeReturns, SignalDone
  <1>2. ASSUME NEW w \in Workers, WorkerStep(w) PROVE JobChange \/ UNCHANGED <<jobVars, cur>>
    <2>1. CASE JobStep(w)
      BY <1>0, <2>1 DEF JobStep, JobChange
    <2>2. CASE RangeStep(w)
      BY <1>0, <1>1, <2>2
    <2>3. CASE WorkerTakesJob(w)
      <3>1. Takes(w)
        BY <1>0, <2>3 DEF WorkerTakesJob, HasMutex, RunLabels, Takes
      <3> QED BY <1>0, <3>1 DEF JobChange
    <2> QED BY <1>2, <2>1, <2>2, <2>3 DEF WorkerStep, SeeBatch, WorkerExit, WorkerWaits
  <1>3. CASE MainStep
    <2>1. CASE JobStep(Main)
      BY <1>0, <2>1 DEF JobStep, JobChange
    <2>2. CASE RangeStep(Main)
      BY <1>0, <1>1, <2>2
    <2>3. CASE RunMoreInline
      <3>1. Takes(Main)
        BY <1>0, <2>3 DEF RunMoreInline, RunLabels, Takes
      <3> QED BY <1>0, <3>1 DEF JobChange
    <2>4. CASE LeaveInline
      BY <2>4 DEF LeaveInline, JobChange, RunLabels
    <2> QED BY <1>3, <2>1, <2>2, <2>3, <2>4 DEF MainStep, SubmitNotifies, IdleCheck, SetStopping,
               StopNotifies, Join, jobVars, PublishNotifies, DoneCheck, ClearBatch
  <1>4. CASE Call
    <2>1. CASE Poll
      <3>1. Takes(Main) \/ (pc[Main] \notin RunLabels /\ Deliver)
        BY <1>0, <2>1 DEF Poll, Ready, RunLabels, Takes
      <3> QED BY <1>0, <3>1 DEF JobChange
    <2>2. CASE WaitIdle
      <3>1. Takes(Main) \/ UNCHANGED <<jobVars, cur>>
        BY <1>0, <2>2 DEF WaitIdle, Ready, RunLabels, Takes
      <3> QED BY <1>0, <3>1 DEF JobChange
    <2>3. CASE Publish
      BY <2>3 DEF Publish
    <2> QED BY <1>4, <2>1, <2>2, <2>3 DEF Call, JobChange
  <1>5. ASSUME NEW t \in Threads, SpuriousWakeup(t) PROVE UNCHANGED <<jobVars, cur>>
    BY <1>5 DEF SpuriousWakeup
  <1> QED BY <1>2, <1>3, <1>4, <1>5 DEF Next, vars

--------------------------------------------------------------------------------
(* The life of a job.                                                           *)

LEMMA JobEdges ==
  ASSUME IInv, CancelInv, [Next]_vars, NEW j \in Jobs
  PROVE  Edge(j)
  <1> USE DEF IInv, TypeOK
  <1>0. job[j] \in JobStates /\ Main \in Threads
    BY DEF JobTypes, Threads
  <1>1. ASSUME NEW t \in Threads, TakeJob(t) PROVE Edge(j)
    <2>1. PICK e \in queue : job' = [job EXCEPT ![e.job].status = "Running"]
      BY <1>1 DEF TakeJob
    <2>2. e.job \in Jobs /\ job[e.job].status = "Queued"
      BY DEF JobPlaces, JobTypes
    <2> QED BY <1>0, <2>1, <2>2 DEF Edge, JobTypes, JobStates
  <1>2. ASSUME NEW t \in Threads, JobReturns(t) PROVE Edge(j)
    <2>1. pc[t] = "running"
      BY <1>2 DEF JobReturns
    <2>2. cur[t] \in Jobs /\ cur[t] # None
      BY <2>1, JobsAssumption DEF ThreadInv
    <2>3. job[cur[t]].status = "Running"
      BY <2>1, <2>2 DEF ThreadInv
    <2>4. CASE job[cur[t]].cancelled
      <3>1. job' = [job EXCEPT ![cur[t]] = Dropped(@)]
        BY <1>2, <2>4 DEF JobReturns
      <3> QED BY <1>0, <2>2, <2>3, <3>1 DEF Edge, JobTypes, JobStates, Dropped
    <2>5. CASE ~job[cur[t]].cancelled
      <3>1. job' = [job EXCEPT ![cur[t]].status = "Finished", ![cur[t]].value = TRUE]
        BY <1>2, <2>5 DEF JobReturns
      <3>2. j # cur[t] => job'[j] = job[j]
        BY <3>1 DEF JobTypes
      <3>3. j = cur[t] => job'[j].status = "Finished" /\ job'[j].cancelled = job[j].cancelled
        BY <1>0, <3>1 DEF JobTypes, JobStates
      <3> QED BY <2>3, <2>5, <3>2, <3>3 DEF Edge
    <2> QED BY <2>4, <2>5
  <1>3. ASSUME NEW t \in Threads, DestroyDoomed(t) \/ LeaveCancelled(t) PROVE Edge(j)
    BY <1>3 DEF DestroyDoomed, LeaveCancelled, Edge
  <1>4. ASSUME NEW i \in Jobs, NEW p \in Prios, Submit(i, p) PROVE Edge(j)
    BY <1>0, <1>4 DEF Submit, Edge, NewJob, JobTypes, JobStates
  <1>5. ASSUME NEW i \in Jobs, NEW p \in Prios, SetPriority(i, p) PROVE Edge(j)
    BY <1>0, <1>5 DEF SetPriority, Edge, JobTypes, JobStates
  <1>6. ASSUME NEW i \in Jobs, CancelCall(i) PROVE Edge(j)
    <2>1. job' = [job EXCEPT ![i] = CASE job[i].status \in {"Queued", "Finished"} -> Dropped(@)
                                      [] job[i].status = "Running" -> [@ EXCEPT !.cancelled = TRUE]
                                      [] job[i].status = "Delivered" -> [@ EXCEPT !.slot = FALSE]
                                      [] OTHER -> @]
      BY <1>6 DEF CancelCall
    <2>2. CASE job[i].status \in {"Queued", "Finished"}
      BY <1>0, <2>1, <2>2 DEF Edge, JobTypes, JobStates, Dropped
    <2>3. CASE job[i].status = "Running"
      BY <1>0, <2>1, <2>3 DEF Edge, JobTypes, JobStates
    <2>4. CASE job[i].status \notin {"Queued", "Finished", "Running"}
      BY <1>0, <2>1, <2>4 DEF Edge, JobTypes, JobStates
    <2> QED BY <2>2, <2>3, <2>4
  <1>7. CASE Deliver
    BY <1>0, <1>7 DEF Deliver, Edge, JobTypes, JobStates, JobPlaces
  <1>8. ASSUME NEW call \in {"cancel_all", "stop"}, CancelAll(call) PROVE Edge(j)
    <2> DEFINE Out == {e.job : e \in queue} \cup finished
    <2>1. job' = [i \in Jobs |-> IF i \in Out THEN Dropped(job[i])
                                 ELSE IF i \in running THEN [job[i] EXCEPT !.cancelled = TRUE]
                                 ELSE job[i]]
      BY <1>8 DEF CancelAll
    <2>2. j \in Out => job[j].status \in {"Queued", "Finished"}
      BY DEF JobPlaces
    <2>3. j \in running => job[j].status = "Running"
      BY DEF JobPlaces
    <2> HIDE DEF Out
    <2> QED BY <1>0, <2>1, <2>2, <2>3 DEF Edge, JobStates, Dropped
  <1>9. CASE UNCHANGED <<jobVars, cur>>
    BY <1>9 DEF jobVars, Edge
  <1> QED BY <1>1, <1>2, <1>3, <1>4, <1>5, <1>6, <1>7, <1>8, <1>9, StepKinds DEF JobChange, Takes

LEMMA CancelInvInit == Init => CancelInv
  BY DEF Init, CancelInv, NewJob

LEMMA CancelInvStep == IInv /\ CancelInv /\ [Next]_vars => CancelInv'
  <1> SUFFICES ASSUME IInv, CancelInv, [Next]_vars, NEW j \in Jobs
               PROVE  job'[j].cancelled => job'[j].status \in {"Running", "Dropped"}
    BY DEF CancelInv
  <1>1. job[j].cancelled => job[j].status \in {"Running", "Dropped"}
    BY DEF CancelInv
  <1> QED BY <1>1, JobEdges DEF Edge

\* A job cancelled before it started never starts, and a result never reaches a call after it was
\* cancelled, for any number of workers and jobs.
THEOREM JobsCancelledStaysOut == Spec => CancelledStaysOut
  <1>1. IInv /\ CancelInv /\ [Next]_vars =>
          [\A j \in Jobs : job[j].cancelled =>
             /\ job'[j].cancelled
             /\ job'[j].status \notin {"Finished", "Delivered"}
             /\ job[j].status # "Running" => job'[j].status # "Running"]_vars
    <2> SUFFICES ASSUME IInv, CancelInv, [Next]_vars, NEW j \in Jobs, job[j].cancelled
                 PROVE  /\ job'[j].cancelled
                        /\ job'[j].status \notin {"Finished", "Delivered"}
                        /\ job[j].status # "Running" => job'[j].status # "Running"
      OBVIOUS
    <2>1. job[j].status \in {"Running", "Dropped"}
      BY DEF CancelInv
    <2> QED BY <2>1, JobEdges DEF Edge
  <1> QED BY <1>1, JobsInvariant, CancelInvInit, CancelInvStep, PTL DEF Spec, CancelledStaysOut

--------------------------------------------------------------------------------
(* The order jobs start in.                                                     *)

\* Only TakeJob starts a job.
LEMMA OnlyTakeStarts ==
  ASSUME IInv, CancelInv, [Next]_vars, NEW j \in Jobs,
         job[j].status = "Queued", job'[j].status = "Running"
  PROVE  \E t \in Threads : TakeJob(t)
  <1> USE DEF IInv, TypeOK
  <1>0. job[j] \in JobStates /\ Main \in Threads
    BY DEF JobTypes, Threads
  <1>1. ASSUME NEW t \in Threads, JobReturns(t) PROVE FALSE
    <2>1. cur[t] # j
      BY <1>1, JobsAssumption DEF JobReturns, ThreadInv
    <2>2. job'[j] = job[j]
      BY <1>1, <2>1 DEF JobReturns, JobTypes
    <2> QED BY <2>2
  <1>2. ASSUME NEW t \in Threads, DestroyDoomed(t) \/ LeaveCancelled(t) PROVE FALSE
    BY <1>2 DEF DestroyDoomed, LeaveCancelled
  <1>3. ASSUME NEW i \in Jobs, NEW p \in Prios, Submit(i, p) \/ SetPriority(i, p) PROVE FALSE
    BY <1>0, <1>3 DEF Submit, SetPriority, NewJob, JobTypes, JobStates
  <1>4. ASSUME NEW i \in Jobs, CancelCall(i) PROVE FALSE
    <2>1. job' = [job EXCEPT ![i] = CASE job[i].status \in {"Queued", "Finished"} -> Dropped(@)
                                      [] job[i].status = "Running" -> [@ EXCEPT !.cancelled = TRUE]
                                      [] job[i].status = "Delivered" -> [@ EXCEPT !.slot = FALSE]
                                      [] OTHER -> @]
      BY <1>4 DEF CancelCall
    <2>2. i # j
      BY <1>0, <2>1 DEF JobTypes, JobStates, Dropped
    <2> QED BY <2>1, <2>2 DEF JobTypes
  <1>5. CASE Deliver
    BY <1>0, <1>5 DEF Deliver, JobTypes, JobStates
  <1>6. ASSUME NEW call \in {"cancel_all", "stop"}, CancelAll(call) PROVE FALSE
    <2>1. j \notin running
      BY DEF JobPlaces
    <2>2. job'[j] \in {Dropped(job[j]), job[j]}
      BY <1>6, <2>1 DEF CancelAll
    <2> QED BY <1>0, <2>2 DEF JobStates, Dropped
  <1>7. CASE UNCHANGED <<jobVars, cur>>
    BY <1>7 DEF jobVars
  <1> QED BY <1>1, <1>2, <1>3, <1>4, <1>5, <1>6, <1>7, StepKinds DEF JobChange, Takes

\* A job starts only when no job left waiting has a higher priority, or the same one and was
\* submitted earlier, whatever priorities were changed in between.
THEOREM JobsPriorityOrder == Spec => PriorityOrder
  <1>1. IInv /\ CancelInv /\ [Next]_vars =>
          [\A j, k \in Jobs :
             /\ job[j].status = "Queued" /\ job'[j].status = "Running"
             /\ job[k].status = "Queued" /\ job'[k].status = "Queued"
             => Before(Entry(j, job[j].prio, job[j].seq), Entry(k, job[k].prio, job[k].seq))]_vars
    <2> SUFFICES ASSUME IInv, CancelInv, [Next]_vars, NEW j \in Jobs, NEW k \in Jobs,
                        job[j].status = "Queued", job'[j].status = "Running",
                        job[k].status = "Queued", job'[k].status = "Queued"
                 PROVE  Before(Entry(j, job[j].prio, job[j].seq), Entry(k, job[k].prio, job[k].seq))
      OBVIOUS
    <2> USE DEF IInv, TypeOK
    <2>1. PICK t \in Threads : TakeJob(t)
      BY OnlyTakeStarts
    <2>2. PICK e \in queue : /\ \A f \in queue \ {e} : Before(e, f)
                             /\ job' = [job EXCEPT ![e.job].status = "Running"]
      BY <2>1 DEF TakeJob
    <2>3. e.job = j
      BY <2>2 DEF JobTypes
    <2>4. e = Entry(j, job[j].prio, job[j].seq)
      BY <2>3 DEF JobPlaces
    <2>5. Entry(k, job[k].prio, job[k].seq) \in queue
      BY DEF JobPlaces
    <2>6. Entry(k, job[k].prio, job[k].seq) # e
      BY <2>3 DEF Entry
    <2> QED BY <2>2, <2>4, <2>5, <2>6
  <1> QED BY <1>1, JobsInvariant, CancelInvInit, CancelInvStep, PTL DEF Spec, PriorityOrder

--------------------------------------------------------------------------------
(* How many threads are inside run_one.                                         *)

Holders == {t \in Threads : cur[t] # None}

\* busy counts the threads that hold a job, and a worker inside run_one holds one.
BusyInv ==
  /\ busy = Cardinality(Holders)
  /\ \A w \in Workers : pc[w] \in RunLabels => cur[w] # None

LEMMA ThreadsFinite == IsFiniteSet(Holders) /\ IsFiniteSet(Holders')
  <1>1. IsFiniteSet(Threads)
    BY WorkersAssumption, FS_AddElement DEF Threads
  <1>2. Holders \in SUBSET Threads /\ Holders' \in SUBSET Threads
    BY DEF Holders
  <1> QED BY <1>1, <1>2, FS_Subset

LEMMA BusyInvInit == Init => BusyInv
  <1> SUFFICES ASSUME Init PROVE BusyInv
    OBVIOUS
  <1>1. Holders = {}
    BY DEF Init, Holders
  <1>2. \A w \in Workers : pc[w] \notin RunLabels
    BY WorkersAssumption DEF Init, Threads, RunLabels
  <1> QED BY <1>1, <1>2, FS_EmptySet DEF Init, BusyInv

\* Where a step leaves the labels of a thread u: outside run_one if it was, unless u takes a job.
Outside(u) == pc[u] \notin RunLabels => pc'[u] \notin RunLabels

\* The end of run_one moves its thread out and wakes others outside.
LEMMA LeaveJobMoves ==
  ASSUME IInv, NEW t \in Threads, LeaveJob(t)
  PROVE  /\ pc'[t] = AfterJob(t) /\ AfterJob(t) \notin RunLabels
         /\ \A u \in Threads \ {t} : Outside(u)
  <1> USE DEF IInv, TypeOK
  <1>1. AfterJob(t) \in {"inline", "locked"} /\ AfterJob(t) \in Labels
    BY DEF AfterJob, Labels, WorkerLabels, MainLabels
  <1>2. Wakes(Goto(t, AfterJob(t)), pc')
    BY <1>1, GotoType, LeaveWakes DEF LeaveJob
  <1> QED BY <1>1, <1>2, OthersKeepRunning DEF Outside, RunLabels

\* A plain move of one thread.
LEMMA GotoMoves ==
  ASSUME IInv, NEW t \in Threads, NEW l, pc' = Goto(t, l)
  PROVE  pc'[t] = l /\ \A u \in Threads \ {t} : pc'[u] = pc[u]
  BY DEF IInv, TypeOK, ThreadTypes, Goto

\* A step that moves one thread to a label outside run_one, and may wake others.
LEMMA WakesMove ==
  ASSUME IInv, NEW t \in Threads, NEW l \in Labels \ RunLabels, Wakes(Goto(t, l), pc')
  PROVE  \A u \in Threads : Outside(u)
  BY DEF IInv, TypeOK, ThreadTypes, Goto, Wakes, Outside, RunLabels

\* A worker comes into run_one only by taking a job.
LEMMA OnlyTakeEnters ==
  ASSUME IInv, [Next]_vars, NEW w \in Workers
  PROVE  Outside(w) \/ TakeJob(w)
  <1> USE DEF IInv, TypeOK
  <1>0. Main \in Threads /\ w \in Threads /\ w # Main /\ Workers \subseteq Threads
    BY WorkersAssumption DEF Threads
  <1>1. ASSUME NEW t \in Threads, JobStep(t) PROVE Outside(w)
    <2>1. CASE JobReturns(t)
      <3>1. pc[t] = "running"
        BY <2>1 DEF JobReturns
      <3>2. CASE LeaveJob(t)
        BY <1>0, <3>1, <3>2, LeaveJobMoves DEF Outside
      <3>3. CASE pc' = Goto(t, "destroy")
        BY <1>0, <3>1, <3>3, GotoMoves DEF Outside, RunLabels
      <3> QED BY <2>1, <3>2, <3>3 DEF JobReturns
    <2>2. CASE DestroyDoomed(t)
      <3>1. PICK l : pc' = Goto(t, l)
        BY <2>2 DEF DestroyDoomed
      <3> QED BY <1>0, <2>2, <3>1, GotoMoves DEF Outside, DestroyDoomed, RunLabels
    <2>3. CASE LeaveCancelled(t)
      BY <1>0, <2>3, LeaveJobMoves DEF LeaveCancelled, Outside
    <2> QED BY <1>1, <2>1, <2>2, <2>3 DEF JobStep
  <1>2. ASSUME NEW t \in Threads, TakeJob(t) PROVE Outside(w) \/ TakeJob(w)
    BY <1>0, <1>2, GotoMoves DEF TakeJob, Outside
  <1>3. ASSUME NEW t \in Threads, RangeStep(t) PROVE Outside(w)
    <2>1. CASE ClaimRange(t)
      <3>1. PICK l \in {"done_check", "loop", "range"} : pc' = Goto(t, l)
        BY <2>1 DEF ClaimRange
      <3> QED BY <1>0, <3>1, GotoMoves DEF Outside, RunLabels
    <2>2. CASE RangeReturns(t)
      <3>1. PICK l \in {"signal", "claim"} : pc' = Goto(t, l)
        BY <2>2 DEF RangeReturns
      <3> QED BY <1>0, <3>1, GotoMoves DEF Outside, RunLabels
    <2>3. CASE SignalDone(t)
      <3>1. "claim" \in Labels \ RunLabels
        BY DEF Labels, WorkerLabels, RunLabels
      <3>2. Wakes(Goto(t, "claim"), pc')
        BY <2>3, <3>1, GotoType, WakeDoneWakes DEF SignalDone
      <3> QED BY <1>0, <3>1, <3>2, WakesMove
    <2> QED BY <1>3, <2>1, <2>2, <2>3 DEF RangeStep
  <1>4. ASSUME NEW v \in Workers, WorkerStep(v) PROVE Outside(w) \/ TakeJob(w)
    <2>1. CASE SeeBatch(v) \/ WorkerExit(v) \/ WorkerWaits(v)
      <3>1. PICK l \in {"loop", "claim", "exited", "asleep"} : pc' = Goto(v, l)
        BY <2>1 DEF SeeBatch, WorkerExit, WorkerWaits
      <3> QED BY <1>0, <3>1, GotoMoves DEF Outside, RunLabels
    <2> QED BY <1>0, <1>1, <1>2, <1>3, <1>4, <2>1 DEF WorkerStep, WorkerTakesJob
  <1>5. ASSUME NEW l, pc' = Goto(Main, l) PROVE Outside(w)
    BY <1>0, <1>5, GotoMoves DEF Outside
  <1>6. ASSUME NEW l \in {"ready", "join", "range"}, pc' \in WakeOne(Goto(Main, l)) \cup {WakeAll(Goto(Main, l))}
        PROVE  Outside(w)
    <2>1. l \in Labels \ RunLabels
      BY DEF Labels, MainLabels, RunLabels
    <2>2. Wakes(Goto(Main, l), pc')
      BY <1>0, <1>6, <2>1, GotoType, WakeOneWakes, WakeAllWakes
    <2> QED BY <1>0, <2>1, <2>2, WakesMove
  <1>7. CASE MainStep
    <2>1. CASE RunMoreInline
      BY <1>0, <1>2, <2>1 DEF RunMoreInline
    <2>2. CASE LeaveInline \/ IdleCheck \/ SetStopping \/ Join \/ DoneCheck \/ ClearBatch
      <3>1. PICK l : pc' = Goto(Main, l)
        BY <2>2 DEF LeaveInline, Deliver, IdleCheck, SetStopping, Join, DoneCheck, ClearBatch
      <3> QED BY <1>5, <3>1
    <2>3. CASE SubmitNotifies \/ StopNotifies \/ PublishNotifies
      BY <1>6, <2>3 DEF SubmitNotifies, StopNotifies, PublishNotifies
    <2> QED BY <1>0, <1>1, <1>3, <1>7, <2>1, <2>2, <2>3 DEF MainStep
  <1>8. CASE Call
    <2>1. CASE Poll \/ WaitIdle
      <3>1. TakeJob(Main) \/ \E l : pc' = Goto(Main, l)
        BY <2>1 DEF Poll, WaitIdle, Deliver
      <3> QED BY <1>0, <1>2, <1>5, <3>1
    <2>2. ASSUME NEW j \in Jobs, NEW p \in Prios, Submit(j, p) \/ SetPriority(j, p) PROVE Outside(w)
      BY <1>5, <2>2 DEF Submit, SetPriority, Outside
    <2>3. ASSUME NEW j \in Jobs, CancelCall(j) PROVE Outside(w)
      BY <1>5, <2>3 DEF CancelCall, Outside
    <2>4. ASSUME NEW call \in {"cancel_all", "stop"}, CancelAll(call) PROVE Outside(w)
      BY <1>5, <2>4 DEF CancelAll
    <2>5. CASE Publish
      BY <1>5, <2>5 DEF Publish
    <2> QED BY <1>8, <2>1, <2>2, <2>3, <2>4, <2>5 DEF Call
  <1>9. ASSUME NEW t \in Threads, SpuriousWakeup(t) PROVE Outside(w)
    <2>1. PICK l \in {"loop", "idle_check", "done_check"} : pc' = Goto(t, l)
      BY <1>9 DEF SpuriousWakeup
    <2> QED BY <1>0, <2>1, GotoMoves DEF Outside, RunLabels
  <1>10. CASE UNCHANGED vars
    BY <1>10 DEF vars, Outside
  <1> QED BY <1>4, <1>7, <1>8, <1>9, <1>10 DEF Next

\* run_one is entered with a job and left without one, each time counted; nothing else is.
LEMMA BusyKinds ==
  ASSUME IInv, [Next]_vars
  PROVE  \/ \E t \in Threads : Takes(t)
         \/ \E t \in Threads : pc[t] \in {"running", "leave"} /\ LeaveJob(t)
         \/ UNCHANGED <<busy, cur>>
  <1>1. ASSUME NEW t \in Threads, JobReturns(t) \/ DestroyDoomed(t) \/ LeaveCancelled(t)
        PROVE  (pc[t] \in {"running", "leave"} /\ LeaveJob(t)) \/ UNCHANGED <<busy, cur>>
    BY <1>1 DEF JobReturns, DestroyDoomed, LeaveCancelled
  <1>2. ASSUME NEW j \in Jobs, NEW p \in Prios, Submit(j, p) \/ SetPriority(j, p)
        PROVE  UNCHANGED <<busy, cur>>
    BY <1>2 DEF Submit, SetPriority
  <1>3. ASSUME NEW j \in Jobs, CancelCall(j) PROVE UNCHANGED <<busy, cur>>
    BY <1>3 DEF CancelCall
  <1>4. CASE Deliver
    BY <1>4 DEF Deliver
  <1>5. ASSUME NEW call \in {"cancel_all", "stop"}, CancelAll(call) PROVE UNCHANGED <<busy, cur>>
    BY <1>5 DEF CancelAll
  <1>6. CASE UNCHANGED <<jobVars, cur>>
    BY <1>6 DEF jobVars
  <1> QED BY <1>1, <1>2, <1>3, <1>4, <1>5, <1>6, StepKinds DEF JobChange, Takes

LEMMA BusyInvStep == IInv /\ BusyInv /\ [Next]_vars => BusyInv'
  <1> SUFFICES ASSUME IInv, BusyInv, [Next]_vars PROVE BusyInv'
    OBVIOUS
  <1> USE DEF IInv, TypeOK
  <1>0. Workers \subseteq Threads
    BY DEF Threads
  <1>1. ASSUME NEW t \in Threads, pc[t] \notin RunLabels, TakeJob(t) PROVE BusyInv'
    <2>1. PICK e \in queue : busy' = busy + 1 /\ cur' = [cur EXCEPT ![t] = e.job]
      BY <1>1 DEF TakeJob
    <2>2. e.job # None /\ cur[t] = None
      BY <1>1, JobsAssumption DEF JobTypes, ThreadInv
    <2>3. Holders' = Holders \cup {t} /\ t \notin Holders
      BY <2>1, <2>2 DEF Holders, ThreadTypes
    <2>4. busy' = Cardinality(Holders')
      BY <2>1, <2>3, ThreadsFinite, FS_AddElement DEF BusyInv
    <2>5. \A w \in Workers : pc'[w] \in RunLabels => cur'[w] # None
      <3>1. \A u \in Threads \ {t} : pc'[u] = pc[u] /\ cur'[u] = cur[u]
        BY <1>1, <2>1, GotoMoves DEF TakeJob, ThreadTypes
      <3> QED BY <1>0, <2>1, <2>2, <3>1 DEF BusyInv, ThreadTypes
    <2> QED BY <2>4, <2>5 DEF BusyInv
  <1>2. ASSUME NEW t \in Threads, pc[t] \in {"running", "leave"}, LeaveJob(t) PROVE BusyInv'
    <2>1. busy' = busy - 1 /\ cur' = [cur EXCEPT ![t] = None]
      BY <1>2 DEF LeaveJob
    <2>2. cur[t] # None
      BY <1>2, JobsAssumption DEF ThreadInv
    <2>3. Holders' = Holders \ {t} /\ t \in Holders
      BY <2>1, <2>2 DEF Holders, ThreadTypes
    <2>4. busy' = Cardinality(Holders')
      BY <2>1, <2>3, ThreadsFinite, FS_RemoveElement DEF BusyInv
    <2>5. \A w \in Workers : pc'[w] \in RunLabels => cur'[w] # None
      BY <1>0, <1>2, <2>1, LeaveJobMoves DEF BusyInv, ThreadTypes, Outside
    <2> QED BY <2>4, <2>5 DEF BusyInv
  <1>3. CASE UNCHANGED <<busy, cur>>
    <2>1. Holders' = Holders
      BY <1>3 DEF Holders
    <2>2. ASSUME NEW w \in Workers, pc'[w] \in RunLabels PROVE cur'[w] # None
      <3>1. CASE TakeJob(w)
        <4>1. busy' = busy + 1
          BY <3>1 DEF TakeJob
        <4> QED BY <1>3, <4>1 DEF JobTypes
      <3>2. CASE Outside(w)
        BY <1>3, <2>2, <3>2 DEF Outside, BusyInv
      <3> QED BY <3>1, <3>2, OnlyTakeEnters
    <2> QED BY <1>3, <2>1, <2>2 DEF BusyInv
  <1> QED BY <1>1, <1>2, <1>3, BusyKinds DEF Takes

--------------------------------------------------------------------------------
(* What cancel_all waits for.                                                   *)

IdleLabels == {"idle_check", "idle_asleep"}
DrainLabels == {"destroy", "idle_check", "idle_asleep", "stop_flag", "stop_notify", "join"}
Draining == op \in {"cancel_all", "stop"}

\* Once cancel_all left its first critical section, no job waits for a worker or for poll, and every
\* job that still runs is cancelled; no job can come back until the call returns.
DrainInv ==
  /\ pc[Main] = "ready" \/ pc[Main] = "notify" => op = "none"
  /\ pc[Main] = "destroy" /\ cur[Main] = None => op = "none" \/ Draining
  /\ pc[Main] \in IdleLabels => op = "wait_idle" \/ Draining
  /\ Draining => /\ queue = {} /\ finished = {}
                 /\ \A j \in running : job[j].cancelled
                 /\ pc[Main] \in DrainLabels /\ cur[Main] = None

LEMMA DrainInvInit == Init => DrainInv
  BY DEF Init, DrainInv, Draining, IdleLabels, Threads

\* What DrainInv says of the jobs, and what it says of the owner thread.
DrainJobs == /\ queue = {} /\ finished = {} /\ \A j \in running : job[j].cancelled
DrainMain ==
  /\ pc[Main] = "ready" \/ pc[Main] = "notify" => op = "none"
  /\ pc[Main] = "destroy" /\ cur[Main] = None => op = "none" \/ Draining
  /\ pc[Main] \in IdleLabels => op = "wait_idle" \/ Draining
  /\ Draining => pc[Main] \in DrainLabels /\ cur[Main] = None

\* While the call drains, no step of any thread brings a job back.
LEMMA DrainJobsStep ==
  ASSUME IInv, DrainInv, [Next]_vars, Draining
  PROVE  DrainJobs'
  <1> USE DEF IInv, TypeOK
  <1>0. queue = {} /\ finished = {} /\ (\A j \in running : job[j].cancelled) /\ pc[Main] # "ready"
        /\ pc[Main] # "inline"
    BY DEF DrainInv, DrainLabels
  <1>1. ASSUME NEW t \in Threads, JobReturns(t) PROVE DrainJobs'
    <2>1. cur[t] \in Jobs /\ cur[t] \in running /\ job[cur[t]].cancelled
      BY <1>0, <1>1 DEF JobReturns, ThreadInv, JobPlaces
    <2>2. job' = [job EXCEPT ![cur[t]] = Dropped(@)] /\ running' = running \ {cur[t]}
          /\ UNCHANGED <<finished, queue>>
      BY <1>1, <2>1 DEF JobReturns
    <2> QED BY <1>0, <2>2 DEF DrainJobs, JobTypes
  <1>2. ASSUME NEW t \in Threads, DestroyDoomed(t) \/ LeaveCancelled(t) PROVE DrainJobs'
    BY <1>0, <1>2 DEF DestroyDoomed, LeaveCancelled, DrainJobs
  <1>3. ASSUME NEW t \in Threads, TakeJob(t) PROVE FALSE
    BY <1>0, <1>3 DEF TakeJob
  <1>4. ASSUME NEW j \in Jobs, NEW p \in Prios, Submit(j, p) \/ SetPriority(j, p) PROVE FALSE
    BY <1>0, <1>4 DEF Submit, SetPriority, Ready
  <1>5. ASSUME NEW j \in Jobs, CancelCall(j) PROVE FALSE
    BY <1>0, <1>5 DEF CancelCall, Ready
  <1>6. CASE Deliver
    BY <1>0, <1>6 DEF Deliver, DrainJobs, JobTypes
  <1>7. ASSUME NEW call \in {"cancel_all", "stop"}, CancelAll(call) PROVE FALSE
    BY <1>0, <1>7 DEF CancelAll, Ready
  <1>8. CASE UNCHANGED <<jobVars, cur>>
    BY <1>0, <1>8 DEF jobVars, DrainJobs
  <1> QED BY <1>1, <1>2, <1>3, <1>4, <1>5, <1>6, <1>7, <1>8, StepKinds DEF JobChange, Takes

\* What a step of another thread can do to the owner thread: wake it.
LEMMA OthersOnlyWakeMain ==
  ASSUME IInv, NEW w \in Workers, WorkerStep(w)
  PROVE  /\ op' = op /\ cur'[Main] = cur[Main]
         /\ \/ pc'[Main] = pc[Main]
            \/ pc[Main] = "idle_asleep" /\ pc'[Main] = "idle_check"
            \/ pc[Main] = "done_asleep" /\ pc'[Main] = "done_check"
  <1> USE DEF IInv, TypeOK
  <1>0. Main \in Threads /\ w \in Threads /\ w # Main
    BY WorkersAssumption DEF Threads
  <1>1. CASE JobReturns(w) \/ LeaveCancelled(w) \/ DestroyDoomed(w)
    <2>1. op' = op /\ cur'[Main] = cur[Main]
      BY <1>0, <1>1 DEF JobReturns, LeaveCancelled, DestroyDoomed, LeaveJob, ThreadTypes
    <2>2. CASE LeaveJob(w)
      <3> DEFINE p == Goto(w, AfterJob(w))
      <3>1. p \in [Threads -> Labels] /\ p[Main] = pc[Main]
        BY <1>0 DEF Goto, AfterJob, ThreadTypes, Labels, WorkerLabels
      <3>2. pc' \in WakeOne(WakeIdle(p))
        BY <2>2 DEF LeaveJob
      <3> HIDE DEF p
      <3>3. pc'[Main] = WakeIdle(p)[Main]
        BY <1>0, <3>1, <3>2, WorkersAssumption DEF WakeOne, WakeIdle
      <3> QED BY <1>0, <2>1, <3>1, <3>3 DEF WakeIdle
    <2>3. ASSUME NEW l, pc' = Goto(w, l) PROVE pc'[Main] = pc[Main]
      BY <1>0, <2>3, GotoMoves
    <2> QED BY <1>1, <2>1, <2>2, <2>3 DEF JobReturns, LeaveCancelled, DestroyDoomed
  <1>2. CASE SignalDone(w)
    <2>1. Goto(w, "claim") \in [Threads -> Labels] /\ Goto(w, "claim")[Main] = pc[Main]
      BY <1>0 DEF Goto, ThreadTypes, Labels, WorkerLabels
    <2> QED BY <1>0, <1>2, <2>1 DEF SignalDone, WakeDone
  <1>3. CASE ClaimRange(w) \/ RangeReturns(w) \/ SeeBatch(w) \/ WorkerExit(w) \/ WorkerWaits(w)
    <2>1. op' = op /\ cur' = cur /\ \E l : pc' = Goto(w, l)
      BY <1>3 DEF ClaimRange, RangeReturns, SeeBatch, WorkerExit, WorkerWaits
    <2> QED BY <1>0, <2>1, GotoMoves
  <1>4. CASE WorkerTakesJob(w)
    <2>1. pc' = Goto(w, "running") /\ op' = op /\ \E j : cur' = [cur EXCEPT ![w] = j]
      BY <1>4 DEF WorkerTakesJob, TakeJob
    <2> QED BY <1>0, <2>1, GotoMoves DEF ThreadTypes
  <1> QED BY <1>1, <1>2, <1>3, <1>4 DEF WorkerStep, JobStep, RangeStep

\* The first critical section of cancel_all establishes it.
LEMMA CancelAllDrains ==
  ASSUME IInv, NEW call \in {"cancel_all", "stop"}, CancelAll(call)
  PROVE  DrainInv'
  <1> USE DEF IInv, TypeOK
  <1> DEFINE Out == {e.job : e \in queue} \cup finished
  <1>1. /\ pc[Main] = "ready" /\ Main \in Threads
        /\ job' = [j \in Jobs |-> IF j \in Out THEN Dropped(job[j])
                                  ELSE IF j \in running THEN [job[j] EXCEPT !.cancelled = TRUE]
                                  ELSE job[j]]
        /\ queue' = {} /\ finished' = {} /\ op' = call /\ pc' = Goto(Main, "destroy")
        /\ UNCHANGED <<running, cur>>
    BY DEF CancelAll, Ready, Threads
  <1>2. pc'[Main] = "destroy" /\ cur[Main] = None
    BY <1>1, GotoMoves DEF ThreadInv, RunLabels
  <1>3. \A j \in running' : job'[j].cancelled
    <2>1. ASSUME NEW j \in running PROVE job'[j].cancelled
      <3>1. j \in Jobs /\ job[j] \in JobStates
        BY DEF JobTypes
      <3>2. CASE j \in Out
        BY <1>1, <3>1, <3>2 DEF JobStates, Dropped
      <3>3. CASE j \notin Out
        BY <1>1, <3>1, <3>3 DEF JobStates
      <3> QED BY <3>2, <3>3
    <2> QED BY <1>1, <2>1
  <1> HIDE DEF Out
  <1> QED BY <1>1, <1>2, <1>3 DEF DrainInv, Draining, DrainLabels, IdleLabels

\* The owner thread inside a call, and at the start of another one.
LEMMA DrainMainStep ==
  ASSUME IInv, DrainInv, MainStep
  PROVE  DrainMain' /\ (Draining' => Draining)
  <1> USE DEF IInv, TypeOK, DrainMain, DrainInv, Draining, IdleLabels, DrainLabels
  <1>0. Main \in Threads
    BY DEF Threads
  <1>1. ASSUME NEW l, pc' = Goto(Main, l) PROVE pc'[Main] = l
    BY <1>0, <1>1, GotoMoves
  <1>2. ASSUME LeaveJob(Main) PROVE pc'[Main] = "inline"
    BY <1>0, <1>2, LeaveJobMoves DEF AfterJob
  <1>3. CASE JobReturns(Main)
    <2>1. ~Draining
      BY <1>3, JobsAssumption DEF JobReturns, ThreadInv
    <2>2. pc'[Main] = "inline" \/ (pc'[Main] = "destroy" /\ cur' = cur /\ cur[Main] # None)
      BY <1>0, <1>1, <1>2, <1>3, JobsAssumption DEF JobReturns, ThreadInv
    <2> QED BY <1>3, <2>1, <2>2 DEF JobReturns
  <1>4. CASE LeaveCancelled(Main)
    <2>1. ~Draining
      BY <1>4, JobsAssumption DEF LeaveCancelled, ThreadInv
    <2> QED BY <1>2, <1>4, <2>1 DEF LeaveCancelled
  <1>5. CASE DestroyDoomed(Main)
    <2>1. pc[Main] = "destroy" /\ op' = op /\ cur' = cur
          /\ pc'[Main] = IF cur[Main] # None THEN "leave"
                         ELSE IF op = "none" THEN "ready" ELSE "idle_check"
      BY <1>0, <1>1, <1>5 DEF DestroyDoomed
    <2> QED BY <2>1
  <1>6. CASE RangeStep(Main)
    <2>1. pc[Main] \in {"claim", "range", "signal"} /\ op' = op /\ ~Draining
      BY <1>6 DEF RangeStep, ClaimRange, RangeReturns, SignalDone
    <2>2. pc'[Main] \in {"done_check", "range", "signal", "claim"}
      <3>1. CASE SignalDone(Main)
        BY <1>0, <3>1 DEF SignalDone, WakeDone, Goto, ThreadTypes
      <3> QED BY <1>1, <1>6, <3>1 DEF RangeStep, ClaimRange, RangeReturns
    <2> QED BY <2>1, <2>2
  <1>7. CASE SubmitNotifies
    <2>1. Goto(Main, "ready") \in [Threads -> Labels] /\ Goto(Main, "ready")[Main] = "ready"
      BY <1>0 DEF Goto, ThreadTypes, Labels, MainLabels
    <2>2. pc'[Main] = "ready"
      BY <1>0, <1>7, <2>1, WorkersAssumption DEF SubmitNotifies, WakeOne
    <2> QED BY <1>7, <2>2 DEF SubmitNotifies
  <1>8. CASE RunMoreInline
    BY <1>0, <1>1, <1>8 DEF RunMoreInline, TakeJob
  <1>9. CASE LeaveInline
    BY <1>0, <1>1, <1>9 DEF LeaveInline, Deliver
  <1>10. CASE IdleCheck
    BY <1>0, <1>1, <1>10 DEF IdleCheck
  <1>11. CASE SetStopping
    BY <1>0, <1>1, <1>11 DEF SetStopping
  <1>12. CASE StopNotifies \/ PublishNotifies
    <2>1. PICK l \in {"join", "range"} : pc' = WakeAll(Goto(Main, l)) /\ (l = "range" => PublishNotifies)
      BY <1>12 DEF StopNotifies, PublishNotifies
    <2>2. pc'[Main] = l
      BY <1>0, <2>1 DEF WakeAll, Goto, ThreadTypes
    <2> QED BY <1>12, <2>1, <2>2 DEF StopNotifies, PublishNotifies
  <1>13. CASE Join \/ DoneCheck \/ ClearBatch
    BY <1>0, <1>1, <1>13 DEF Join, DoneCheck, ClearBatch
  <1> QED BY <1>3, <1>4, <1>5, <1>6, <1>7, <1>8, <1>9, <1>10, <1>11, <1>12, <1>13
          DEF MainStep, JobStep

LEMMA DrainCallStep ==
  ASSUME IInv, DrainInv, Call
  PROVE  DrainInv'
  <1> USE DEF IInv, TypeOK, DrainInv, Draining, IdleLabels, DrainLabels
  <1>0. Main \in Threads
    BY DEF Threads
  <1>1. ASSUME NEW l, pc' = Goto(Main, l) PROVE pc'[Main] = l
    BY <1>0, <1>1, GotoMoves
  <1>2. ASSUME NEW j \in Jobs, NEW p \in Prios, Submit(j, p) \/ SetPriority(j, p) PROVE DrainInv'
    BY <1>1, <1>2 DEF Submit, SetPriority, Ready
  <1>3. ASSUME NEW j \in Jobs, CancelCall(j) PROVE DrainInv'
    BY <1>1, <1>3 DEF CancelCall, Ready
  <1>4. CASE Poll
    BY <1>1, <1>4 DEF Poll, Ready, Deliver, TakeJob
  <1>5. CASE WaitIdle
    BY <1>1, <1>5 DEF WaitIdle, Ready, TakeJob
  <1>6. CASE Publish
    BY <1>1, <1>6 DEF Publish, Ready
  <1> QED BY <1>2, <1>3, <1>4, <1>5, <1>6, CancelAllDrains DEF Call

LEMMA DrainInvStep == IInv /\ DrainInv /\ [Next]_vars => DrainInv'
  <1> SUFFICES ASSUME IInv, DrainInv, [Next]_vars PROVE DrainInv'
    OBVIOUS
  <1> DEFINE Parts == DrainMain' /\ (Draining' => Draining)
  <1>1. Parts => DrainInv'
    BY DrainJobsStep DEF DrainInv, DrainMain, DrainJobs
  <1>2. ASSUME NEW w \in Workers, WorkerStep(w) PROVE Parts
    <2>1. /\ op' = op /\ cur'[Main] = cur[Main]
          /\ \/ pc'[Main] = pc[Main]
             \/ pc[Main] = "idle_asleep" /\ pc'[Main] = "idle_check"
             \/ pc[Main] = "done_asleep" /\ pc'[Main] = "done_check"
      BY <1>2, OthersOnlyWakeMain
    <2> QED BY <2>1 DEF DrainInv, DrainMain, Draining, IdleLabels, DrainLabels
  <1>3. ASSUME NEW t \in Threads, SpuriousWakeup(t) PROVE Parts
    <2>1. PICK l : pc' = Goto(t, l) /\ (pc[t] = "idle_asleep" => l = "idle_check")
                   /\ (pc[t] # "idle_asleep" => l \in {"loop", "done_check"})
      BY <1>3 DEF SpuriousWakeup
    <2>2. t # Main => pc'[Main] = pc[Main]
      BY <2>1, GotoMoves DEF Threads
    <2>3. t = Main => pc'[Main] = l /\ pc[Main] \in {"asleep", "idle_asleep", "done_asleep"}
      BY <1>3, <2>1, GotoMoves DEF SpuriousWakeup
    <2>4. op' = op /\ cur' = cur
      BY <1>3 DEF SpuriousWakeup
    <2> QED BY <2>1, <2>2, <2>3, <2>4 DEF DrainInv, DrainMain, Draining, IdleLabels, DrainLabels
  <1>4. CASE UNCHANGED vars
    BY <1>4 DEF vars, jobVars, DrainInv, Draining, IdleLabels, DrainLabels
  <1> HIDE DEF Parts
  <1> QED
    <2>1. MainStep => Parts
      BY DrainMainStep DEF Parts
    <2> QED BY <1>1, <1>2, <1>3, <1>4, <2>1, DrainCallStep DEF Next

\* When the count is down to zero nobody runs a job.
LEMMA IdleMeansNobodyRuns ==
  ASSUME IInv, BusyInv, busy = 0
  PROVE  running = {} /\ \A w \in Workers : pc[w] \notin RunLabels
  <1>1. Holders = {}
    BY ThreadsFinite, FS_EmptySet DEF BusyInv
  <1>2. \A t \in Threads : cur[t] = None
    BY <1>1 DEF Holders
  <1>3. \A w \in Workers : pc[w] \notin RunLabels
    BY <1>2 DEF BusyInv, Threads
  <1>4. \A j \in running : FALSE
    BY <1>2, JobsAssumption DEF IInv, JobPlaces, TypeOK, JobTypes
  <1> QED BY <1>3, <1>4

\* The owner thread leaves the wait of cancel_all by one step only.
LEMMA OnlyIdleCheckLeaves ==
  ASSUME IInv, [Next]_vars, pc[Main] = "idle_check", pc'[Main] \notin IdleLabels
  PROVE  IdleCheck
  <1> USE DEF IdleLabels
  <1>1. ASSUME NEW w \in Workers, WorkerStep(w) PROVE FALSE
    BY <1>1, OthersOnlyWakeMain
  <1>2. ASSUME NEW t \in Threads, SpuriousWakeup(t) PROVE FALSE
    <2>1. t # Main /\ \E l : pc' = Goto(t, l)
      BY <1>2 DEF SpuriousWakeup
    <2> QED BY <2>1, GotoMoves DEF Threads
  <1>3. ~ Call
    BY DEF Call, Submit, SetPriority, CancelCall, Poll, WaitIdle, CancelAll, Publish, Ready
  <1>4. MainStep => IdleCheck
    BY DEF MainStep, JobStep, RangeStep, JobReturns, DestroyDoomed, LeaveCancelled, ClaimRange,
           RangeReturns, SignalDone, SubmitNotifies, RunMoreInline, LeaveInline, SetStopping,
           StopNotifies, Join, PublishNotifies, DoneCheck, ClearBatch
  <1>5. ~ UNCHANGED vars
    BY DEF vars
  <1> QED BY <1>1, <1>2, <1>3, <1>4, <1>5 DEF Next

\* When cancel_all (or the first half of stop) stops waiting, no job is in the system, every slot it
\* dropped is destroyed, and no worker is in a function or a destructor: a module can be unloaded.
THEOREM JobsCancelAllIsFinal == Spec => CancelAllIsFinal
  <1>1. IInv /\ BusyInv /\ DrainInv /\ [Next]_vars =>
          [pc[Main] = "idle_check" /\ op # "wait_idle" /\ pc'[Main] \notin {"idle_check", "idle_asleep"} =>
             /\ \A j \in Jobs : /\ job[j].status \in {"New", "Delivered", "Dropped"}
                                /\ job[j].status = "Dropped" => destroyed[j] = 1
             /\ \A w \in Workers : pc[w] \notin RunLabels]_vars
    <2> SUFFICES ASSUME IInv, BusyInv, DrainInv, [Next]_vars, pc[Main] = "idle_check",
                        op # "wait_idle", pc'[Main] \notin IdleLabels
                 PROVE  /\ \A j \in Jobs : /\ job[j].status \in {"New", "Delivered", "Dropped"}
                                           /\ job[j].status = "Dropped" => destroyed[j] = 1
                        /\ \A w \in Workers : pc[w] \notin RunLabels
      BY DEF IdleLabels
    <2> USE DEF IInv
    <2>1. busy = 0
      <3>1. IdleCheck
        BY OnlyIdleCheckLeaves
      <3>2. CASE ~IdleHolds
        <4>1. pc' = Goto(Main, "idle_asleep") /\ Main \in Threads
          BY <3>1, <3>2 DEF IdleCheck, Threads
        <4> QED BY <4>1, GotoMoves DEF IdleLabels
      <3> QED BY <3>2 DEF IdleHolds
    <2>2. running = {} /\ \A w \in Workers : pc[w] \notin RunLabels
      BY <2>1, IdleMeansNobodyRuns
    <2>3. queue = {} /\ finished = {}
      BY DEF DrainInv, Draining, IdleLabels
    <2>4. \A t \in Threads : doomed[t] = {}
      BY <2>2 DEF ThreadInv, Threads, RunLabels
    <2>5. ASSUME NEW j \in Jobs
          PROVE  /\ job[j].status \in {"New", "Delivered", "Dropped"}
                 /\ job[j].status = "Dropped" => destroyed[j] = 1
      <3>1. job[j].status \in Statuses
        BY DEF TypeOK, JobTypes, JobStates
      <3>2. job[j].status \notin {"Queued", "Running", "Finished"}
        BY <2>2, <2>3 DEF JobPlaces
      <3>3. job[j].status = "Dropped" => ~job[j].slot
        BY DEF SlotOnce
      <3>4. job[j].status # "New" /\ ~job[j].slot => destroyed[j] = 1
        BY <2>4 DEF SlotOnce
      <3> QED BY <3>1, <3>2, <3>3, <3>4 DEF Statuses
    <2> QED BY <2>2, <2>5
  <1> QED BY <1>1, JobsInvariant, BusyInvInit, BusyInvStep, DrainInvInit, DrainInvStep, PTL
          DEF Spec, CancelAllIsFinal

--------------------------------------------------------------------------------
(* What job_cap leaves to parallel_for.                                         *)

\* With two workers or more, one of them is never counted; the owner thread runs jobs only when
\* there are none.
CapInv ==
  /\ workers \in {0, Cardinality(Workers)}
  /\ workers >= 2 => busy <= workers - 1
  /\ pc[Main] = "inline" \/ cur[Main] # None => workers = 0

LEMMA CapInvInit == Init => CapInv
  BY CardWorkers DEF Init, CapInv, Threads

\* The number of workers changes only to zero.
LEMMA WorkersOnlyLeave ==
  ASSUME IInv, [Next]_vars
  PROVE  workers' = workers \/ workers' = 0
  <1>1. ASSUME NEW t \in Threads, JobStep(t) \/ RangeStep(t) \/ SpuriousWakeup(t) PROVE workers' = workers
    BY <1>1 DEF JobStep, RangeStep, SpuriousWakeup, JobReturns, LeaveCancelled, DestroyDoomed,
                ClaimRange, RangeReturns, SignalDone, poolVars
  <1>2. ASSUME NEW w \in Workers, WorkerStep(w) PROVE workers' = workers
    BY <1>1, <1>2 DEF Threads, WorkerStep, SeeBatch, WorkerExit, WorkerTakesJob, TakeJob,
                      WorkerWaits, poolVars
  <1>3. MainStep => workers' = workers \/ workers' = 0
    BY <1>1 DEF Threads, MainStep, SubmitNotifies, RunMoreInline, TakeJob, LeaveInline, Deliver,
                IdleCheck, SetStopping, StopNotifies, Join, PublishNotifies, DoneCheck, ClearBatch,
                poolVars
  <1>4. Call => workers' = workers
    BY DEF Call, Submit, SetPriority, CancelCall, Poll, TakeJob, Deliver, WaitIdle, CancelAll,
           Publish, poolVars
  <1>5. UNCHANGED vars => workers' = workers
    BY DEF vars, poolVars
  <1> QED BY <1>1, <1>2, <1>3, <1>4, <1>5 DEF Next

\* The owner thread is back in the loop of poll or wait_idle only after a job of its own.
LEMMA InlineAfterJob ==
  ASSUME IInv, [Next]_vars, pc'[Main] = "inline", pc[Main] # "inline"
  PROVE  cur[Main] # None
  <1> USE DEF IInv, TypeOK
  <1>0. Main \in Threads
    BY DEF Threads
  <1>1. ASSUME NEW l, pc' = Goto(Main, l) PROVE l = "inline"
    BY <1>0, <1>1, GotoMoves
  <1>2. CASE JobStep(Main)
    <2>1. ~DestroyDoomed(Main)
      BY <1>1 DEF DestroyDoomed
    <2>2. pc[Main] \in {"running", "leave"}
      BY <1>2, <2>1 DEF JobStep, JobReturns, LeaveCancelled
    <2> QED BY <1>0, <2>2, JobsAssumption DEF ThreadInv
  <1>3. ~RangeStep(Main)
    <2>1. ~SignalDone(Main)
      BY <1>0 DEF SignalDone, WakeDone, Goto, ThreadTypes
    <2> QED BY <1>1, <2>1 DEF RangeStep, ClaimRange, RangeReturns
  <1>4. ~SubmitNotifies
    <2>1. "ready" \in Labels
      BY DEF Labels, MainLabels
    <2>2. pc' \in WakeOne(Goto(Main, "ready")) => pc'[Main] = "ready"
      BY <1>0, <2>1, WorkersAssumption DEF WakeOne, Goto, ThreadTypes
    <2> QED BY <2>2 DEF SubmitNotifies
  <1>5. ~(StopNotifies \/ PublishNotifies)
    BY <1>0 DEF StopNotifies, PublishNotifies, WakeAll, Goto, ThreadTypes
  <1>6. MainStep => JobStep(Main)
    BY <1>1, <1>3, <1>4, <1>5 DEF MainStep, RunMoreInline, TakeJob, LeaveInline, Deliver, IdleCheck,
       SetStopping, Join, DoneCheck, ClearBatch
  <1>7. ~Call
    BY <1>1 DEF Call, Submit, SetPriority, CancelCall, Poll, TakeJob, Deliver, WaitIdle, CancelAll,
                Publish
  <1>8. ASSUME NEW w \in Workers, WorkerStep(w) PROVE FALSE
    BY <1>8, OthersOnlyWakeMain
  <1>9. ASSUME NEW t \in Threads, SpuriousWakeup(t) PROVE FALSE
    <2>1. PICK l \in {"loop", "idle_check", "done_check"} : pc' = Goto(t, l)
      BY <1>9 DEF SpuriousWakeup
    <2> QED BY <1>0, <2>1, GotoMoves
  <1> QED BY <1>2, <1>6, <1>7, <1>8, <1>9 DEF Next, vars

LEMMA CapInvStep == IInv /\ CapInv /\ [Next]_vars => CapInv'
  <1> SUFFICES ASSUME IInv, CapInv, [Next]_vars PROVE CapInv'
    OBVIOUS
  <1> USE DEF IInv, TypeOK
  <1>0. Main \in Threads /\ Main \notin Workers /\ workers \in Nat /\ busy \in Int /\ busy' \in Int
    <2>1. busy' \in Int
      BY JobsStep DEF JobTypes
    <2> QED BY <2>1, WorkersAssumption DEF Threads, PoolTypes, JobTypes
  <1>1. workers' = workers \/ workers' = 0
    BY WorkersOnlyLeave
  <1>2. pc'[Main] = "inline" => pc[Main] = "inline" \/ cur[Main] # None
    BY InlineAfterJob
  <1>3. ASSUME NEW t \in Threads, Takes(t) PROVE CapInv'
    <2>1. PICK e \in queue : busy' = busy + 1 /\ cur' = [cur EXCEPT ![t] = e.job] /\ workers' = workers
      BY <1>3 DEF Takes, TakeJob, poolVars
    <2>2. CASE t = Main
      BY <1>0, <1>2, <1>3, <2>1, <2>2 DEF Takes, CapInv
    <2>3. CASE t \in Workers
      <3>1. workers >= 2 => busy < workers - 1
        BY <1>0, <1>3, <2>3 DEF Takes, can_take_job, job_cap
      <3>2. cur'[Main] = cur[Main]
        BY <1>0, <2>1, <2>3 DEF ThreadTypes
      <3> QED BY <1>0, <1>2, <2>1, <3>1, <3>2 DEF CapInv
    <2> QED BY <2>2, <2>3 DEF Threads
  <1>4. ASSUME NEW t \in Threads, LeaveJob(t) PROVE CapInv'
    <2>1. busy' = busy - 1 /\ cur' = [cur EXCEPT ![t] = None]
      BY <1>4 DEF LeaveJob
    <2>2. cur'[Main] # None => cur[Main] # None
      BY <1>0, <2>1 DEF ThreadTypes
    <2> QED BY <1>0, <1>1, <1>2, <2>1, <2>2 DEF CapInv
  <1>5. CASE UNCHANGED <<busy, cur>>
    BY <1>0, <1>1, <1>2, <1>5 DEF CapInv
  <1> QED BY <1>3, <1>4, <1>5, BusyKinds

\* While there are two workers or more, some worker is outside every job, so a parallel_for never
\* waits for jobs alone.
THEOREM JobsForkJoinHasWorker == Spec => []ForkJoinHasWorker
  <1>1. IInv /\ BusyInv /\ CapInv => ForkJoinHasWorker
    <2> SUFFICES ASSUME IInv, BusyInv, CapInv, workers >= 2, \A w \in Workers : pc[w] \in RunLabels
                 PROVE  FALSE
      BY DEF ForkJoinHasWorker
    <2>1. Workers \in SUBSET Holders
      BY DEF BusyInv, Holders, Threads
    <2>2. Cardinality(Workers) <= Cardinality(Holders)
      BY <2>1, ThreadsFinite, FS_Subset
    <2>3. workers = Cardinality(Workers) /\ busy = Cardinality(Holders) /\ busy <= workers - 1
      BY DEF CapInv, BusyInv
    <2>4. workers \in Nat /\ busy \in Int
      BY DEF IInv, TypeOK, PoolTypes, JobTypes
    <2> QED BY <2>2, <2>3, <2>4
  <1> QED BY <1>1, JobsInvariant, BusyInvInit, BusyInvStep, CapInvInit, CapInvStep, PTL DEF Spec

--------------------------------------------------------------------------------
(* parallel_for and notifications.  Every range runs exactly once, and inside   *)
(* the call: BatchInvs, with IInv, is inductive.  No wakeup is lost: enough     *)
(* workers are on their way for the jobs that may be taken now, so a worker may *)
(* sleep.                                                                       *)

\* Where the owner thread is during a parallel_for.
CallLabels == BatchLabels \cup {"done_check", "done_asleep", "clear"}
InCall == op = "parallel_for"

\* Thread t has claimed range r of batch b and not finished it.
Working(t, b, r) == mine[t] = b /\ rng[t] = r /\ pc[t] \in {"range", "pf_notify"}
Unvisited(b) == {r \in Ranges : visits[b][r] = 0}

\* The call of the owner thread and the batch it waits for.
CallInv ==
  /\ InCall <=> pc[Main] \in CallLabels
  /\ InCall => mine[Main] = published /\ published # 0
  /\ \A t \in Threads : pc[t] \in BatchLabels => mine[t] \in 1 .. published
  /\ batch \in {0, published}
  /\ pc[Main] = "clear" => left[mine[Main]] = 0

\* A claimed range is finished or in the hands of one thread, an unclaimed one is neither.
ClaimInv ==
  \A b \in 1 .. published, r \in Ranges :
    /\ visits[b][r] \in {0, 1}
    /\ visits[b][r] = 1 => r < next[b]
    /\ r < next[b] /\ visits[b][r] = 0 => \E t \in Threads : Working(t, b, r)
    /\ \A t \in Threads : Working(t, b, r) => r < next[b] /\ visits[b][r] = 0
    /\ \A t, u \in Threads : Working(t, b, r) /\ Working(u, b, r) => t = u

\* left counts the ranges not finished, and only the batch of the call under way has any.
LeftInv ==
  /\ \A b \in 1 .. published : /\ left[b] = Cardinality(Unvisited(b))
                               /\ left[b] = 0 \/ (b = published /\ InCall)
  /\ \A b \in Batches : b > published => \A r \in Ranges : visits[b][r] = 0

BatchInvs == CallInv /\ ClaimInv /\ LeftInv

LEMMA BatchInvsInit == Init => BatchInvs
  <1> SUFFICES ASSUME Init PROVE BatchInvs
    OBVIOUS
  <1>1. \A t \in Threads : pc[t] \in {"ready", "loop"}
    BY DEF Init
  <1>2. published = 0 /\ batch = 0 /\ op = "none" /\ Main \in Threads
    BY DEF Init, Threads
  <1>3. CallInv
    BY <1>1, <1>2 DEF CallInv, InCall, CallLabels, BatchLabels
  <1>4. ClaimInv
    BY <1>2 DEF ClaimInv
  <1>5. LeftInv
    BY <1>2 DEF Init, LeftInv
  <1> QED BY <1>3, <1>4, <1>5 DEF BatchInvs

LEMMA UnvisitedFinite ==
  ASSUME NEW b
  PROVE  IsFiniteSet(Unvisited(b)) /\ IsFiniteSet(Ranges) /\ Cardinality(Ranges) = NumRanges
  <1>1. IsFiniteSet(Ranges) /\ Cardinality(Ranges) = NumRanges
    BY RangesAssumption, FS_Interval DEF Ranges
  <1>2. Unvisited(b) \in SUBSET Ranges
    BY DEF Unvisited
  <1> QED BY <1>1, <1>2, FS_Subset

--------------------------------------------------------------------------------
(* The steps that have nothing to do with a batch.                              *)

Quiet ==
  /\ UNCHANGED batchVars
  /\ InCall' <=> InCall
  /\ \A t \in Threads : \A l \in BatchLabels : pc'[t] = l <=> pc[t] = l
  /\ pc'[Main] \in CallLabels <=> pc[Main] \in CallLabels
  /\ pc'[Main] = "clear" => pc[Main] = "clear"

LEMMA QuietMove ==
  ASSUME IInv, NEW t \in Threads, NEW l \in Labels \ CallLabels, pc[t] \notin CallLabels,
         Wakes(Goto(t, l), pc'), UNCHANGED batchVars, InCall' <=> InCall
  PROVE  Quiet
  <1>0. Main \in Threads
    BY DEF Threads
  <1>1. ASSUME NEW u \in Threads
        PROVE  \/ pc'[u] = pc[u]
               \/ pc'[u] \notin CallLabels /\ pc[u] \notin CallLabels
               \/ pc[u] = "done_asleep" /\ pc'[u] = "done_check"
    <2> DEFINE p == Goto(t, l)
    <2>1. p[u] = IF u = t THEN l ELSE pc[u]
      BY DEF Goto, IInv, TypeOK, ThreadTypes
    <2>2. \/ pc'[u] = p[u]
          \/ p[u] \in {"asleep", "idle_asleep"} /\ pc'[u] \in {"loop", "idle_check"}
          \/ p[u] = "done_asleep" /\ pc'[u] = "done_check"
      BY DEF Wakes
    <2>3. u # t => p[u] = pc[u]
      BY <2>1
    <2>4. u = t => p[u] = l /\ l \notin CallLabels /\ pc[u] \notin CallLabels
      BY <2>1
    <2> HIDE DEF p
    <2> QED BY <2>2, <2>3, <2>4 DEF CallLabels, BatchLabels
  <1>2. \A u \in Threads : \A k \in BatchLabels : pc'[u] = k <=> pc[u] = k
    BY <1>1 DEF CallLabels, BatchLabels
  <1>3. pc'[Main] \in CallLabels <=> pc[Main] \in CallLabels
    BY <1>0, <1>1 DEF CallLabels
  <1>4. pc'[Main] = "clear" => pc[Main] = "clear"
    BY <1>0, <1>1 DEF CallLabels
  <1> QED BY <1>2, <1>3, <1>4 DEF Quiet

\* A job step of a thread: none of the labels of a parallel_for before or after.
LEMMA JobStepQuiet ==
  ASSUME IInv, CallInv, NEW t \in Threads, JobStep(t)
  PROVE  Quiet
  <1> USE DEF IInv, TypeOK
  <1>1. pc[t] \in RunLabels /\ UNCHANGED <<batchVars, op>> /\ pc[t] \notin CallLabels
    BY DEF JobStep, JobReturns, DestroyDoomed, LeaveCancelled, RunLabels, CallLabels, BatchLabels
  <1>2. ASSUME LeaveJob(t) PROVE Quiet
    <2>1. AfterJob(t) \in Labels \ CallLabels
      BY DEF AfterJob, Labels, WorkerLabels, MainLabels, CallLabels, BatchLabels
    <2>2. Wakes(Goto(t, AfterJob(t)), pc')
      BY <1>2, <2>1, GotoType, LeaveWakes DEF LeaveJob
    <2> QED BY <1>1, <2>1, <2>2, QuietMove DEF InCall
  <1>3. ASSUME NEW l \in {"destroy", "leave", "ready", "idle_check"}, pc' = Goto(t, l) PROVE Quiet
    <2>1. l \in Labels \ CallLabels
      BY DEF Labels, RunLabels, MainLabels, CallLabels, BatchLabels
    <2>2. Wakes(Goto(t, l), pc')
      BY <1>3, <2>1, NoWakes
    <2> QED BY <1>1, <2>1, <2>2, QuietMove DEF InCall
  <1> QED BY <1>2, <1>3 DEF JobStep, JobReturns, DestroyDoomed, LeaveCancelled

LEMMA QuietGoto ==
  ASSUME IInv, NEW t \in Threads, NEW l \in Labels \ CallLabels, pc[t] \notin CallLabels,
         pc' = Goto(t, l), UNCHANGED batchVars, InCall' <=> InCall
  PROVE  Quiet
  BY NoWakes, QuietMove DEF IInv, TypeOK

\* Taking a job, on a worker or on the owner thread in poll or wait_idle.
LEMMA TakeJobQuiet ==
  ASSUME IInv, NEW t \in Threads, TakeJob(t), pc[t] \notin CallLabels, InCall' <=> InCall
  PROVE  Quiet
  <1>1. "running" \in Labels \ CallLabels
    BY DEF Labels, RunLabels, CallLabels, BatchLabels
  <1> QED BY <1>1, QuietGoto DEF TakeJob

\* The labels of the owner thread outside parallel_for.
LEMMA FreeLabels ==
  /\ {"ready", "notify", "inline", "idle_check", "idle_asleep", "stop_flag", "stop_notify", "join",
      "destroy"} \subseteq Labels \ CallLabels
  /\ {"loop", "locked", "asleep", "exited"} \subseteq Labels \ CallLabels
  BY DEF Labels, WorkerLabels, MainLabels, RunLabels, CallLabels, BatchLabels

LEMMA DeliverQuiet ==
  ASSUME IInv, Deliver, pc[Main] \notin CallLabels, ~InCall
  PROVE  Quiet
  <1>1. "ready" \in Labels \ CallLabels /\ Main \in Threads
    BY FreeLabels DEF Threads
  <1> QED BY <1>1, QuietGoto DEF Deliver, InCall

\* What the workers do about batches: SeeBatch and the range steps.
LEMMA WorkerKinds ==
  ASSUME IInv, CallInv, NEW w \in Workers, WorkerStep(w)
  PROVE  SeeBatch(w) \/ RangeStep(w) \/ Quiet
  <1>0. w \in Threads
    BY DEF Threads
  <1>1. ASSUME HasMutex(w) PROVE pc[w] \notin CallLabels
    BY <1>1 DEF HasMutex, CallLabels, BatchLabels
  <1>2. CASE WorkerExit(w) \/ WorkerWaits(w)
    <2>1. PICK l \in {"exited", "asleep"} : pc' = Goto(w, l)
      BY <1>2 DEF WorkerExit, WorkerWaits
    <2>2. l \in Labels \ CallLabels
      BY FreeLabels
    <2> QED BY <1>0, <1>1, <1>2, <2>1, <2>2, QuietGoto DEF WorkerExit, WorkerWaits, InCall
  <1>3. CASE WorkerTakesJob(w)
    BY <1>0, <1>1, <1>3, TakeJobQuiet DEF WorkerTakesJob, InCall
  <1> QED BY <1>0, <1>2, <1>3, JobStepQuiet DEF WorkerStep

\* What the owner thread does about batches once it is in a call.
LEMMA MainKinds ==
  ASSUME IInv, CallInv, MainStep
  PROVE  RangeStep(Main) \/ Join \/ PublishNotifies \/ DoneCheck \/ ClearBatch \/ Quiet
  <1>0. Main \in Threads
    BY DEF Threads
  <1>1. CASE RunMoreInline
    BY <1>0, <1>1, TakeJobQuiet DEF RunMoreInline, InCall, CallLabels, BatchLabels
  <1>2. CASE LeaveInline
    <2>1. pc[Main] \notin CallLabels /\ ~InCall
      BY <1>2 DEF LeaveInline, CallLabels, BatchLabels, InCall
    <2>2. CASE Deliver
      BY <2>1, <2>2, DeliverQuiet
    <2>3. CASE op' = "none" /\ pc' = Goto(Main, "ready") /\ UNCHANGED batchVars
      BY <1>0, <2>1, <2>3, FreeLabels, QuietGoto DEF InCall
    <2> QED BY <1>2, <2>2, <2>3 DEF LeaveInline
  <1>3. CASE IdleCheck \/ SetStopping
    <2>1. pc[Main] \notin CallLabels /\ ~InCall
      BY <1>3 DEF IdleCheck, SetStopping, CallLabels, BatchLabels, CallInv
    <2>2. PICK l \in {"idle_asleep", "stop_flag", "ready", "stop_notify"} : pc' = Goto(Main, l)
      BY <1>3 DEF IdleCheck, SetStopping
    <2>3. l \in Labels \ CallLabels
      BY FreeLabels
    <2>4. UNCHANGED batchVars /\ ~InCall'
      BY <1>3, <2>1 DEF IdleCheck, SetStopping, InCall
    <2> QED BY <1>0, <2>1, <2>2, <2>3, <2>4, QuietGoto
  <1>4. CASE SubmitNotifies \/ StopNotifies
    <2>1. PICK l \in {"ready", "join"} : pc' \in WakeOne(Goto(Main, l)) \cup {WakeAll(Goto(Main, l))}
      BY <1>4 DEF SubmitNotifies, StopNotifies
    <2>2. l \in Labels \ CallLabels
      BY FreeLabels
    <2>3. Wakes(Goto(Main, l), pc')
      BY <1>0, <2>1, <2>2, GotoType, WakeOneWakes, WakeAllWakes DEF IInv, TypeOK
    <2>4. pc[Main] \notin CallLabels /\ UNCHANGED <<batchVars, op>>
      BY <1>4 DEF SubmitNotifies, StopNotifies, CallLabels, BatchLabels
    <2> QED BY <1>0, <2>2, <2>3, <2>4, QuietMove DEF InCall
  <1> QED BY <1>0, <1>1, <1>2, <1>3, <1>4, JobStepQuiet DEF MainStep

\* A new call of the owner thread is a parallel_for or leaves the batches alone.
LEMMA CallKinds ==
  ASSUME IInv, CallInv, Call
  PROVE  Publish \/ Quiet
  <1>0. Main \in Threads
    BY DEF Threads
  <1>1. pc[Main] = "ready"
    BY DEF Call, Submit, SetPriority, CancelCall, Poll, WaitIdle, CancelAll, Publish, Ready
  <1>2. pc[Main] \notin CallLabels /\ ~InCall
    BY <1>1 DEF CallLabels, BatchLabels, CallInv
  <1>3. ASSUME NEW l \in {"ready", "notify", "destroy", "idle_check"}, pc' = Goto(Main, l),
               UNCHANGED batchVars, ~InCall'
        PROVE  Quiet
    <2>1. l \in Labels \ CallLabels
      BY FreeLabels
    <2> QED BY <1>0, <1>2, <1>3, <2>1, QuietGoto
  <1>4. ASSUME UNCHANGED <<batchVars, pc>>, ~InCall' PROVE Quiet
    BY <1>2, <1>4 DEF Quiet
  <1>5. ASSUME NEW j \in Jobs, NEW p \in Prios, Submit(j, p) \/ SetPriority(j, p) PROVE Quiet
    BY <1>2, <1>3, <1>4, <1>5 DEF Submit, SetPriority, InCall
  <1>6. ASSUME NEW j \in Jobs, CancelCall(j) PROVE Quiet
    BY <1>2, <1>3, <1>4, <1>6 DEF CancelCall, InCall
  <1>7. CASE Poll \/ WaitIdle
    <2>1. CASE TakeJob(Main) /\ op' \in {"poll", "wait_idle"}
      BY <1>0, <1>2, <2>1, TakeJobQuiet DEF InCall
    <2> QED BY <1>2, <1>3, <1>7, <2>1, DeliverQuiet DEF Poll, WaitIdle, InCall
  <1>8. ASSUME NEW call \in {"cancel_all", "stop"}, CancelAll(call) PROVE Quiet
    BY <1>3, <1>8 DEF CancelAll, InCall
  <1> QED BY <1>5, <1>6, <1>7, <1>8 DEF Call

LEMMA WakeupQuiet ==
  ASSUME IInv, NEW t \in Threads, SpuriousWakeup(t)
  PROVE  Quiet
  <1>0. Main \in Threads
    BY DEF Threads
  <1>1. PICK l \in {"loop", "idle_check", "done_check"} :
          /\ pc' = Goto(t, l) /\ (l = "done_check" <=> pc[t] = "done_asleep")
          /\ pc[t] \in {"asleep", "idle_asleep", "done_asleep"}
    BY DEF SpuriousWakeup
  <1>2. pc'[t] = l /\ \A u \in Threads \ {t} : pc'[u] = pc[u]
    BY <1>1, GotoMoves
  <1>3. UNCHANGED <<batchVars, op>>
    BY DEF SpuriousWakeup
  <1> QED BY <1>0, <1>1, <1>2, <1>3 DEF Quiet, InCall, CallLabels, BatchLabels

LEMMA BatchKinds ==
  ASSUME IInv, CallInv, [Next]_vars
  PROVE  \/ Quiet
         \/ \E t \in Threads : RangeStep(t)
         \/ \E w \in Workers : SeeBatch(w)
         \/ Join \/ Publish \/ PublishNotifies \/ DoneCheck \/ ClearBatch
  <1>1. CASE UNCHANGED vars
    BY <1>1 DEF vars, batchVars, Quiet, InCall
  <1> QED BY <1>1, WorkerKinds, MainKinds, CallKinds, WakeupQuiet DEF Next, Threads

--------------------------------------------------------------------------------
(* The steps of a parallel_for.                                                 *)

\* The claims, and what is left, are disturbed only through these.
LEMMA ClaimFrame ==
  ASSUME ClaimInv, UNCHANGED <<next, visits, published>>,
         \A t \in Threads : \A b \in 1 .. published, r \in Ranges : Working(t, b, r)' <=> Working(t, b, r)
  PROVE  ClaimInv'
  BY DEF ClaimInv

LEMMA LeftFrame ==
  ASSUME LeftInv, UNCHANGED <<left, visits, published>>, InCall' <=> InCall
  PROVE  LeftInv'
  BY DEF LeftInv, Unvisited

LEMMA QuietStep ==
  ASSUME IInv, BatchInvs, Quiet
  PROVE  BatchInvs'
  <1>0. Main \in Threads
    BY DEF Threads
  <1>1. UNCHANGED <<published, batch, mine, next, left, visits, rng>>
    BY DEF Quiet, batchVars
  <1>2. CallInv'
    BY <1>0, <1>1 DEF CallInv, BatchInvs, Quiet, BatchLabels
  <1>3. ClaimInv'
    <2>1. \A t \in Threads : pc'[t] \in {"range", "pf_notify"} <=> pc[t] \in {"range", "pf_notify"}
      BY DEF Quiet, BatchLabels
    <2> QED BY <1>1, <2>1, ClaimFrame DEF Working, BatchInvs
  <1>4. LeftInv'
    BY <1>1, LeftFrame DEF BatchInvs, Quiet
  <1> QED BY <1>2, <1>3, <1>4 DEF BatchInvs

LEMMA SeeBatchKeeps ==
  ASSUME IInv, BatchInvs, NEW w \in Workers, SeeBatch(w)
  PROVE  BatchInvs'
  <1> USE DEF IInv, TypeOK
  <1>0. Main \in Threads /\ w \in Threads /\ w # Main
    BY WorkersAssumption DEF Threads
  <1>1. PICK l \in {"loop", "claim"} : pc' = Goto(w, l) /\ (l = "claim" => batch # 0)
    BY DEF SeeBatch
  <1>2. pc'[w] = l /\ \A u \in Threads \ {w} : pc'[u] = pc[u]
    BY <1>0, <1>1, GotoMoves
  <1>3. mine'[w] = batch /\ \A u \in Threads \ {w} : mine'[u] = mine[u]
    BY <1>0 DEF SeeBatch, BatchTypes
  <1>4. UNCHANGED <<published, batch, next, left, visits, rng, op>>
    BY DEF SeeBatch
  <1>5. published \in Nat /\ pc[w] \in {"loop", "locked"}
    BY DEF BatchTypes, SeeBatch, HasMutex
  <1>6. CallInv'
    BY <1>0, <1>1, <1>2, <1>3, <1>4, <1>5 DEF CallInv, BatchInvs, InCall, BatchLabels
  <1>7. ClaimInv'
    BY <1>2, <1>3, <1>4, <1>5, ClaimFrame DEF Working, BatchInvs
  <1> QED BY <1>4, <1>6, <1>7, LeftFrame DEF BatchInvs, InCall

\* Nothing but labels of the call, and the operation.
LEMMA CallStep ==
  ASSUME IInv, BatchInvs, UNCHANGED <<published, next, left, visits, mine, rng>>,
         batch' \in {0, batch}, InCall' <=> pc'[Main] \in CallLabels,
         InCall' => InCall, InCall /\ ~InCall' => left[published] = 0,
         \A t \in Threads : /\ pc'[t] \in BatchLabels => pc[t] \in BatchLabels
                            /\ pc'[t] \in {"range", "pf_notify"} <=> pc[t] \in {"range", "pf_notify"},
         pc'[Main] = "clear" => left[mine[Main]] = 0
  PROVE  BatchInvs'
  <1>1. CallInv'
    BY DEF CallInv, BatchInvs
  <1>2. ClaimInv'
    BY ClaimFrame DEF BatchInvs, Working
  <1>3. LeftInv'
    BY DEF LeftInv, BatchInvs, Unvisited
  <1> QED BY <1>1, <1>2, <1>3 DEF BatchInvs

LEMMA MainCallStep ==
  ASSUME IInv, BatchInvs, Join \/ PublishNotifies \/ DoneCheck \/ ClearBatch
  PROVE  BatchInvs'
  <1> USE DEF IInv, TypeOK
  <1>0. Main \in Threads
    BY DEF Threads
  <1>1. UNCHANGED <<published, next, left, visits, mine, rng>>
    BY DEF Join, PublishNotifies, DoneCheck, ClearBatch, batchVars
  <1>2. CASE Join \/ ClearBatch
    <2>1. pc'[Main] = "ready" /\ \A u \in Threads \ {Main} : pc'[u] = pc[u]
      BY <1>0, <1>2, GotoMoves DEF Join, ClearBatch
    <2>2. pc[Main] \in {"join", "clear"} /\ batch' \in {0, batch} /\ ~InCall'
      BY <1>2 DEF Join, ClearBatch, InCall
    <2>3. InCall => left[published] = 0
      <3>1. InCall => pc[Main] = "clear"
        BY <2>2 DEF BatchInvs, CallInv, CallLabels, BatchLabels
      <3> QED BY <3>1 DEF BatchInvs, CallInv
    <2>4. \A t \in Threads : /\ pc'[t] \in BatchLabels => pc[t] \in BatchLabels
                             /\ pc'[t] \in {"range", "pf_notify"} <=> pc[t] \in {"range", "pf_notify"}
      BY <2>1, <2>2 DEF BatchLabels
    <2> QED BY <1>1, <2>1, <2>2, <2>3, <2>4, CallStep DEF CallLabels, BatchLabels
  <1>3. CASE PublishNotifies
    <2>1. "range" \in Labels /\ pc[Main] = "pf_notify" /\ UNCHANGED <<batch, op>>
      BY <1>3 DEF Labels, PublishNotifies, batchVars
    <2>2. Wakes(Goto(Main, "range"), pc')
      BY <1>0, <1>3, <2>1, GotoType, WakeAllWakes DEF PublishNotifies
    <2>3. \A t \in Threads : \/ pc'[t] = pc[t]
                             \/ t = Main /\ pc'[t] = "range"
                             \/ /\ pc[t] \in {"asleep", "idle_asleep", "done_asleep"}
                                /\ pc'[t] \in {"loop", "idle_check", "done_check"}
      BY <2>2 DEF Wakes, Goto, ThreadTypes
    <2>4. pc'[Main] = "range"
      BY <1>0, <1>3 DEF PublishNotifies, WakeAll, Goto, ThreadTypes
    <2>5. \A t \in Threads : /\ pc'[t] \in BatchLabels => pc[t] \in BatchLabels
                             /\ pc'[t] \in {"range", "pf_notify"} <=> pc[t] \in {"range", "pf_notify"}
      BY <2>1, <2>3 DEF BatchLabels
    <2>6. (InCall' <=> InCall) /\ (InCall' <=> pc'[Main] \in CallLabels)
      BY <2>1, <2>4 DEF InCall, CallLabels, BatchLabels, BatchInvs, CallInv
    <2> QED BY <1>1, <2>1, <2>4, <2>5, <2>6, CallStep
  <1>4. CASE DoneCheck
    <2>1. PICK l \in {"clear", "done_asleep"} : pc' = Goto(Main, l) /\ (l = "clear" => left[mine[Main]] = 0)
      BY <1>4 DEF DoneCheck
    <2>2. pc'[Main] = l /\ \A u \in Threads \ {Main} : pc'[u] = pc[u]
      BY <1>0, <2>1, GotoMoves
    <2>3. pc[Main] = "done_check" /\ UNCHANGED <<batch, op>>
      BY <1>4 DEF DoneCheck, batchVars
    <2>4. \A t \in Threads : /\ pc'[t] \in BatchLabels => pc[t] \in BatchLabels
                             /\ pc'[t] \in {"range", "pf_notify"} <=> pc[t] \in {"range", "pf_notify"}
      BY <2>1, <2>2, <2>3 DEF BatchLabels
    <2>5. (InCall' <=> InCall) /\ (InCall' <=> pc'[Main] \in CallLabels)
      BY <2>1, <2>2, <2>3 DEF InCall, CallLabels, BatchLabels, BatchInvs, CallInv
    <2> QED BY <1>1, <2>1, <2>2, <2>3, <2>4, <2>5, CallStep
  <1> QED BY <1>2, <1>3, <1>4

LEMMA SignalDoneKeeps ==
  ASSUME IInv, BatchInvs, NEW t \in Threads, SignalDone(t)
  PROVE  BatchInvs'
  <1> USE DEF IInv, TypeOK
  <1>0. Main \in Threads /\ "claim" \in Labels
    BY DEF Threads, Labels, WorkerLabels
  <1>1. UNCHANGED <<published, next, left, visits, mine, rng, batch, op>> /\ pc[t] = "signal"
    BY DEF SignalDone, batchVars
  <1>2. Wakes(Goto(t, "claim"), pc')
    BY <1>0, GotoType, WakeDoneWakes DEF SignalDone
  <1>3. \A u \in Threads : \/ pc'[u] = pc[u]
                           \/ u = t /\ pc'[u] = "claim"
                           \/ u # t /\ pc[u] = "done_asleep" /\ pc'[u] = "done_check"
                           \/ /\ u # t /\ pc[u] \in {"asleep", "idle_asleep"}
                              /\ pc'[u] \in {"loop", "idle_check"}
    BY <1>2 DEF Wakes, Goto, ThreadTypes
  <1>4. \A u \in Threads : /\ pc'[u] \in BatchLabels => pc[u] \in BatchLabels
                           /\ pc'[u] \in {"range", "pf_notify"} <=> pc[u] \in {"range", "pf_notify"}
    BY <1>1, <1>3 DEF BatchLabels
  <1>5. (InCall' <=> InCall) /\ (InCall' <=> pc'[Main] \in CallLabels)
    <2>1. pc'[Main] \in CallLabels <=> pc[Main] \in CallLabels
      BY <1>0, <1>1, <1>3 DEF CallLabels, BatchLabels
    <2> QED BY <1>1, <2>1 DEF InCall, BatchInvs, CallInv
  <1>6. pc'[Main] = "clear" => pc[Main] = "clear"
    BY <1>0, <1>3
  <1> QED BY <1>1, <1>4, <1>5, <1>6, CallStep DEF BatchInvs, CallInv

LEMMA PublishKeeps ==
  ASSUME IInv, BatchInvs, Publish
  PROVE  BatchInvs'
  <1> USE DEF IInv, TypeOK
  <1>4. PICK b : b = published + 1
    OBVIOUS
  <1>0. Main \in Threads /\ pc[Main] = "ready" /\ published \in Nat /\ b \in Batches /\ ~InCall
    <2>1. published \in 0 .. MaxBatches /\ published < MaxBatches /\ pc[Main] = "ready"
      BY DEF Publish, Ready, BatchTypes
    <2>2. b \in Batches
      BY <1>4, <2>1, RangesAssumption DEF Batches
    <2> QED BY <2>1, <2>2 DEF Threads, BatchInvs, CallInv, CallLabels, BatchLabels
  <1>1. /\ published' = b /\ batch' = b /\ InCall' /\ visits' = visits /\ pc' = Goto(Main, "pf_notify")
        /\ next'[b] = 1 /\ left'[b] = NumRanges /\ mine'[Main] = b /\ rng'[Main] = 0
        /\ \A c \in 1 .. published : next'[c] = next[c] /\ left'[c] = left[c]
        /\ \A t \in Threads \ {Main} : mine'[t] = mine[t] /\ rng'[t] = rng[t]
    BY <1>0, <1>4 DEF Publish, BatchTypes, Batches, InCall
  <1>2. pc'[Main] = "pf_notify" /\ \A t \in Threads \ {Main} : pc'[t] = pc[t]
    BY <1>0, <1>1, GotoMoves
  <1>3. \A r \in Ranges : visits[b][r] = 0
    BY <1>0, <1>4 DEF BatchInvs, LeftInv
  <1>5. CallInv'
    BY <1>0, <1>1, <1>2, <1>4 DEF CallInv, BatchInvs, CallLabels, BatchLabels
  <1>6. ClaimInv'
    <2>1. \A t \in Threads, c \in 1 .. published, r \in Ranges : Working(t, c, r)' <=> Working(t, c, r)
      BY <1>0, <1>1, <1>2, <1>4 DEF Working
    <2>2. \A t \in Threads, r \in Ranges : Working(t, b, r)' <=> t = Main /\ r = 0
      BY <1>0, <1>1, <1>2, <1>4 DEF Working, BatchInvs, CallInv, BatchLabels
    <2>3. \A r \in Ranges : r < next'[b] <=> r = 0
      BY <1>1 DEF Ranges
    <2> DEFINE Claim(c, r) ==
                 /\ visits[c][r] \in {0, 1}
                 /\ visits[c][r] = 1 => r < next'[c]
                 /\ r < next'[c] /\ visits[c][r] = 0 => \E t \in Threads : Working(t, c, r)'
                 /\ \A t \in Threads : Working(t, c, r)' => r < next'[c] /\ visits[c][r] = 0
                 /\ \A t, u \in Threads : Working(t, c, r)' /\ Working(u, c, r)' => t = u
    <2>4. \A c \in 1 .. published, r \in Ranges : Claim(c, r)
      BY <1>1, <2>1 DEF BatchInvs, ClaimInv
    <2>5. \A r \in Ranges : Claim(b, r)
      BY <1>0, <1>3, <2>2, <2>3
    <2>6. \A c \in 1 .. published' : c = b \/ c \in 1 .. published
      BY <1>0, <1>1, <1>4
    <2> QED BY <1>1, <2>4, <2>5, <2>6 DEF ClaimInv
  <1>7. LeftInv'
    <2>1. \A c \in 1 .. published : left'[c] = 0 /\ Cardinality(Unvisited(c)) = 0
      BY <1>0, <1>1 DEF BatchInvs, LeftInv
    <2>2. Unvisited(b) = Ranges
      BY <1>3 DEF Unvisited
    <2>3. left'[b] = Cardinality(Unvisited(b))
      BY <1>1, <2>2, UnvisitedFinite
    <2>4. \A c : Unvisited(c)' = Unvisited(c)
      BY <1>1 DEF Unvisited
    <2>5. \A c \in 1 .. published' : c = b \/ c \in 1 .. published
      BY <1>0, <1>1, <1>4
    <2>6. \A c \in Batches : c > published' => c > published
      BY <1>0, <1>1, <1>4 DEF Batches
    <2> QED BY <1>1, <2>1, <2>3, <2>4, <2>5, <2>6 DEF LeftInv, BatchInvs
  <1> QED BY <1>5, <1>6, <1>7 DEF BatchInvs

LEMMA ClaimRangeKeeps ==
  ASSUME IInv, BatchInvs, NEW t \in Threads, ClaimRange(t)
  PROVE  BatchInvs'
  <1> USE DEF IInv, TypeOK
  <1>b. PICK b, i : b = mine[t] /\ i = next[b]
    OBVIOUS
  <1>0. Main \in Threads /\ pc[t] = "claim" /\ b \in 1 .. published /\ b \in Batches /\ i \in Nat
    BY <1>b DEF Threads, ClaimRange, BatchInvs, CallInv, BatchLabels, BatchInv, BatchTypes
  <1>1. /\ UNCHANGED <<published, batch, left, mine, visits, op>>
        /\ next'[b] = i + 1 /\ \A c \in Batches \ {b} : next'[c] = next[c]
    BY <1>0, <1>b DEF ClaimRange, BatchTypes
  <1>2. PICK l \in {"done_check", "loop", "range"} :
          /\ pc' = Goto(t, l) /\ (t = Main => l # "loop") /\ (t # Main => l # "done_check")
          /\ IF l = "range" THEN i < NumRanges /\ rng' = [rng EXCEPT ![t] = i] ELSE i >= NumRanges /\ rng' = rng
    BY <1>0, <1>b, RangesAssumption DEF ClaimRange
  <1>3. pc'[t] = l /\ \A u \in Threads \ {t} : pc'[u] = pc[u]
    BY <1>2, GotoMoves
  <1>4. \A u \in Threads \ {t} : rng'[u] = rng[u]
    BY <1>2 DEF BatchTypes
  <1>5. l = "range" => i \in Ranges /\ rng'[t] = i
    BY <1>0, <1>2, RangesAssumption DEF Ranges, BatchTypes
  <1>6. published \in 0 .. MaxBatches /\ 1 .. published \subseteq Batches
    BY RangesAssumption DEF BatchTypes, Batches
  <1>7. CallInv'
    <2>1. \A u \in Threads : pc'[u] \in BatchLabels => pc[u] \in BatchLabels
      BY <1>0, <1>3 DEF BatchLabels
    <2>2. pc'[Main] \in CallLabels <=> pc[Main] \in CallLabels
      BY <1>0, <1>2, <1>3 DEF CallLabels, BatchLabels
    <2>3. pc'[Main] = "clear" => pc[Main] = "clear"
      BY <1>0, <1>2, <1>3
    <2> QED BY <1>1, <2>1, <2>2, <2>3 DEF CallInv, BatchInvs, InCall
  <1>8. ASSUME NEW c \in 1 .. published, NEW r \in Ranges, ~(l = "range" /\ c = b /\ r = i)
        PROVE  /\ \A u \in Threads : Working(u, c, r)' <=> Working(u, c, r)
               /\ r < next'[c] <=> r < next[c]
    <2>1. \A u \in Threads : Working(u, c, r)' <=> Working(u, c, r)
      BY <1>0, <1>1, <1>2, <1>3, <1>4, <1>5, <1>8, <1>b DEF Working
    <2>2. r < next'[c] <=> r < next[c]
      <3>1. r \in Nat /\ r < NumRanges
        BY RangesAssumption DEF Ranges
      <3>2. CASE c = b
        BY <1>0, <1>1, <1>2, <1>8, <3>1, <3>2, <1>b, RangesAssumption
      <3> QED BY <1>1, <1>6, <3>2
    <2> QED BY <2>1, <2>2
  <1>9. ASSUME l = "range"
        PROVE  /\ visits[b][i] = 0 /\ i < next'[b]
               /\ \A u \in Threads : Working(u, b, i)' <=> u = t
    <2>1. i \in Ranges /\ ~(i < next[b]) /\ i < next'[b]
      BY <1>0, <1>1, <1>5, <1>9, <1>b
    <2>2. visits[b][i] = 0 /\ \A u \in Threads : ~Working(u, b, i)
      BY <1>0, <2>1 DEF BatchInvs, ClaimInv
    <2>3. Working(t, b, i)'
      BY <1>1, <1>3, <1>5, <1>9, <1>b DEF Working
    <2>4. \A u \in Threads \ {t} : ~Working(u, b, i)'
      BY <1>1, <1>3, <1>4, <2>2 DEF Working
    <2> QED BY <2>1, <2>2, <2>3, <2>4
  <1>10. ClaimInv'
    <2> SUFFICES ASSUME NEW c \in 1 .. published, NEW r \in Ranges
                 PROVE  /\ visits[c][r] \in {0, 1}
                        /\ visits[c][r] = 1 => r < next'[c]
                        /\ r < next'[c] /\ visits[c][r] = 0 => \E u \in Threads : Working(u, c, r)'
                        /\ \A u \in Threads : Working(u, c, r)' => r < next'[c] /\ visits[c][r] = 0
                        /\ \A u, v \in Threads : Working(u, c, r)' /\ Working(v, c, r)' => u = v
      BY <1>1 DEF ClaimInv
    <2>1. CASE l = "range" /\ c = b /\ r = i
      BY <1>9, <2>1
    <2>2. CASE ~(l = "range" /\ c = b /\ r = i)
      BY <1>8, <2>2 DEF BatchInvs, ClaimInv
    <2> QED BY <2>1, <2>2
  <1>11. LeftInv'
    BY <1>1, LeftFrame DEF BatchInvs, InCall
  <1> QED BY <1>7, <1>10, <1>11 DEF BatchInvs

\* A thread that runs a range runs it for the call under way, which cannot be over.
LEMMA WorkingInCall ==
  ASSUME IInv, BatchInvs, NEW t \in Threads, pc[t] \in {"range", "pf_notify"}
  PROVE  /\ mine[t] = published /\ InCall /\ mine[t] \in 1 .. published /\ mine[t] \in Batches
         /\ rng[t] \in Ranges /\ visits[mine[t]][rng[t]] = 0 /\ left[mine[t]] # 0
         /\ rng[t] < next[mine[t]] /\ Working(t, mine[t], rng[t])
  <1> USE DEF IInv, TypeOK
  <1>1. mine[t] \in 1 .. published /\ mine[t] \in Batches /\ rng[t] \in Ranges
    BY DEF BatchInvs, CallInv, BatchLabels, BatchInv, BatchTypes
  <1>2. Working(t, mine[t], rng[t])
    BY DEF Working
  <1>3. visits[mine[t]][rng[t]] = 0 /\ rng[t] < next[mine[t]]
    BY <1>1, <1>2 DEF BatchInvs, ClaimInv
  <1>4. rng[t] \in Unvisited(mine[t])
    BY <1>1, <1>3 DEF Unvisited
  <1>5. Cardinality(Unvisited(mine[t])) # 0
    BY <1>4, UnvisitedFinite, FS_EmptySet
  <1> QED BY <1>1, <1>2, <1>3, <1>5 DEF BatchInvs, LeftInv

LEMMA RangeReturnsKeeps ==
  ASSUME IInv, BatchInvs, NEW t \in Threads, RangeReturns(t)
  PROVE  BatchInvs'
  <1> USE DEF IInv, TypeOK
  <1>b. PICK b, i : b = mine[t] /\ i = rng[t]
    OBVIOUS
  <1>0. Main \in Threads /\ pc[t] = "range"
    BY DEF Threads, RangeReturns
  <1>1. /\ b = published /\ InCall /\ b \in 1 .. published /\ b \in Batches /\ i \in Ranges
        /\ visits[b][i] = 0 /\ left[b] # 0 /\ i < next[b] /\ Working(t, b, i)
    BY <1>0, <1>b, WorkingInCall
  <1>2. PICK l \in {"signal", "claim"} : pc' = Goto(t, l)
    BY DEF RangeReturns
  <1>3. pc'[t] = l /\ \A u \in Threads \ {t} : pc'[u] = pc[u]
    BY <1>2, GotoMoves
  <1>4. /\ UNCHANGED <<published, batch, next, mine, rng, op>>
        /\ left'[b] = left[b] - 1 /\ \A c \in Batches \ {b} : left'[c] = left[c]
        /\ visits'[b][i] = 1
        /\ \A c \in Batches, r \in Ranges : c # b \/ r # i => visits'[c][r] = visits[c][r]
    BY <1>1, <1>b DEF RangeReturns, BatchTypes
  <1>5. published \in 0 .. MaxBatches /\ 1 .. published \subseteq Batches
    BY RangesAssumption DEF BatchTypes, Batches
  <1>6. CallInv'
    <2>1. \A u \in Threads : pc'[u] \in BatchLabels => pc[u] \in BatchLabels
      BY <1>0, <1>3 DEF BatchLabels
    <2>2. pc'[Main] \in CallLabels <=> pc[Main] \in CallLabels
      BY <1>0, <1>2, <1>3 DEF CallLabels, BatchLabels
    <2>3. pc'[Main] # "clear"
      <3>1. pc[Main] # "clear"
        BY <1>1 DEF BatchInvs, CallInv
      <3> QED BY <1>0, <1>2, <1>3, <3>1
    <2> QED BY <1>4, <2>1, <2>2, <2>3 DEF CallInv, BatchInvs, InCall
  <1>7. ASSUME NEW c \in 1 .. published, NEW r \in Ranges, ~(c = b /\ r = i)
        PROVE  \A u \in Threads : Working(u, c, r)' <=> Working(u, c, r)
    BY <1>0, <1>2, <1>3, <1>4, <1>7, <1>b DEF Working
  <1>8. \A u \in Threads : ~Working(u, b, i)'
    <2>1. \A u \in Threads : Working(u, b, i) => u = t
      BY <1>1 DEF BatchInvs, ClaimInv
    <2>2. ~Working(t, b, i)'
      BY <1>2, <1>3 DEF Working
    <2> QED BY <1>3, <1>4, <2>1, <2>2 DEF Working
  <1>9. ClaimInv'
    <2> SUFFICES ASSUME NEW c \in 1 .. published, NEW r \in Ranges
                 PROVE  /\ visits'[c][r] \in {0, 1}
                        /\ visits'[c][r] = 1 => r < next[c]
                        /\ r < next[c] /\ visits'[c][r] = 0 => \E u \in Threads : Working(u, c, r)'
                        /\ \A u \in Threads : Working(u, c, r)' => r < next[c] /\ visits'[c][r] = 0
                        /\ \A u, v \in Threads : Working(u, c, r)' /\ Working(v, c, r)' => u = v
      BY <1>4 DEF ClaimInv
    <2>1. CASE c = b /\ r = i
      BY <1>1, <1>4, <1>8, <2>1
    <2>2. CASE ~(c = b /\ r = i)
      <3>1. visits'[c][r] = visits[c][r]
        BY <1>4, <1>5, <2>2
      <3> QED BY <1>7, <2>2, <3>1 DEF BatchInvs, ClaimInv
    <2> QED BY <2>1, <2>2
  <1>10. LeftInv'
    <2>1. Unvisited(b)' = Unvisited(b) \ {i} /\ i \in Unvisited(b)
      BY <1>1, <1>4 DEF Unvisited
    <2>2. left'[b] = Cardinality(Unvisited(b)')
      <3>1. Cardinality(Unvisited(b) \ {i}) = Cardinality(Unvisited(b)) - 1
        BY <2>1, UnvisitedFinite, FS_RemoveElement
      <3> QED BY <1>1, <1>4, <2>1, <3>1 DEF BatchInvs, LeftInv
    <2>3. \A c \in 1 .. published : c # b => left'[c] = left[c] /\ Unvisited(c)' = Unvisited(c)
      BY <1>4, <1>5 DEF Unvisited
    <2>4. \A c \in Batches : c > published => \A r \in Ranges : visits'[c][r] = 0
      <3>1. \A c \in Batches : c > published => c # b
        BY <1>1, <1>5
      <3> QED BY <1>4, <3>1 DEF BatchInvs, LeftInv
    <2> QED BY <1>1, <1>4, <2>2, <2>3, <2>4 DEF BatchInvs, LeftInv, InCall
  <1> QED BY <1>6, <1>9, <1>10 DEF BatchInvs

LEMMA BatchInvsStep == IInv /\ BatchInvs /\ [Next]_vars => BatchInvs'
  <1> SUFFICES ASSUME IInv, BatchInvs, [Next]_vars PROVE BatchInvs'
    OBVIOUS
  <1>1. CallInv
    BY DEF BatchInvs
  <1>2. ASSUME NEW t \in Threads, RangeStep(t) PROVE BatchInvs'
    BY <1>2, ClaimRangeKeeps, RangeReturnsKeeps, SignalDoneKeeps DEF RangeStep
  <1> QED BY <1>1, <1>2, BatchKinds, QuietStep, SeeBatchKeeps, PublishKeeps, MainCallStep

\* Whatever the number of workers and ranges: every range of a parallel_for runs exactly once, and
\* no thread is inside the caller's function after the call has stopped waiting.
THEOREM JobsRangesOnce == Spec => []RangesOnce
  <1>1. IInv /\ BatchInvs => RangesOnce
    <2> SUFFICES ASSUME IInv, BatchInvs PROVE RangesOnce
      OBVIOUS
    <2> USE DEF IInv, TypeOK
    <2>0. Main \in Threads /\ published \in Nat
      BY DEF Threads, BatchTypes
    <2>1. ASSUME NEW b \in Batches, NEW r \in Ranges PROVE visits[b][r] <= 1
      <3>1. b \in 1 .. published \/ b > published
        BY <2>0 DEF Batches
      <3> QED BY <3>1 DEF BatchInvs, ClaimInv, LeftInv
    <2>2. ASSUME pc[Main] = "clear", NEW r \in Ranges PROVE visits[mine[Main]][r] = 1
      <3>1. mine[Main] \in 1 .. published /\ left[mine[Main]] = 0
        BY <2>0, <2>2 DEF BatchInvs, CallInv, CallLabels
      <3>2. Unvisited(mine[Main]) = {}
        BY <3>1, UnvisitedFinite, FS_EmptySet DEF BatchInvs, LeftInv
      <3> QED BY <3>1, <3>2 DEF Unvisited, BatchInvs, ClaimInv
    <2>3. ASSUME NEW t \in Threads, pc[t] = "range"
          PROVE  /\ op = "parallel_for" /\ mine[t] = mine[Main]
                 /\ pc[Main] # "clear" /\ visits[mine[t]][rng[t]] = 0
      <3>1. mine[t] = published /\ InCall /\ visits[mine[t]][rng[t]] = 0 /\ left[mine[t]] # 0
        BY <2>3, WorkingInCall
      <3> QED BY <3>1 DEF BatchInvs, CallInv, InCall
    <2> QED BY <2>1, <2>2, <2>3 DEF RangesOnce
  <1> QED BY <1>1, JobsInvariant, BatchInvsInit, BatchInvsStep, PTL DEF Spec

--------------------------------------------------------------------------------
(* Notifications.                                                               *)

\* The workers that will look at the job queue next: awake, and not called to a batch first.
Alert == {w \in Workers : pc[w] \in {"loop", "locked"} /\ seen[w] = published}
Pending == Cardinality(Alert) + IF pc[Main] = "notify" THEN 1 ELSE 0
SomeAsleep == \E w \in Workers : pc[w] = "asleep"

\* The jobs that may be taken now are as many as the queue holds and the cap leaves.
Enough == \/ pc[Main] = "pf_notify"
          \/ Pending >= Cardinality(queue)
          \/ Pending >= job_cap - busy

\* Workers are told to exit in stop only, after cancel_all emptied the queue.
StopInv ==
  /\ stopping => pc[Main] \in {"stop_notify", "join"}
  /\ pc[Main] \in {"stop_flag", "stop_notify", "join"} => op = "stop"

SleepInv ==
  \A w \in Workers : pc[w] = "asleep" =>
    /\ published = seen[w] \/ pc[Main] = "pf_notify"
    /\ stopping => pc[Main] = "stop_notify"

WakeInv == IsFiniteSet(queue) /\ SleepInv /\ (SomeAsleep => Enough)

\* Everything the steps below rest on.
PoolInv == IInv /\ BusyInv /\ CapInv /\ DrainInv /\ StopInv /\ WakeInv

LEMMA AlertFinite == /\ IsFiniteSet(Alert) /\ Cardinality(Alert) \in Nat
                     /\ IsFiniteSet(Alert') /\ Cardinality(Alert') \in Nat
                     /\ Pending \in Nat /\ Pending' \in Nat
  <1>1. Alert \in SUBSET Workers /\ Alert' \in SUBSET Workers
    BY DEF Alert
  <1>2. IsFiniteSet(Alert) /\ IsFiniteSet(Alert')
    BY <1>1, WorkersAssumption, FS_Subset
  <1>3. Cardinality(Alert) \in Nat /\ Cardinality(Alert') \in Nat
    BY <1>2, FS_CardinalityType
  <1> QED BY <1>2, <1>3 DEF Pending

LEMMA WakeInvInit == Init => StopInv /\ WakeInv
  <1> SUFFICES ASSUME Init PROVE StopInv /\ WakeInv
    OBVIOUS
  <1>1. \A t \in Threads : pc[t] \in {"ready", "loop"}
    BY DEF Init
  <1>2. queue = {} /\ ~stopping /\ Main \in Threads /\ Workers \subseteq Threads
    BY DEF Init, Threads
  <1> QED BY <1>1, <1>2, FS_EmptySet DEF StopInv, WakeInv, SleepInv, SomeAsleep

--------------------------------------------------------------------------------
(* Steps after which nothing is owed.                                           *)

\* An empty queue, a full pool or no pool: no job can be taken, and any number of workers may sleep.
LEMMA NothingToTake ==
  ASSUME busy' \in Nat, workers' \in Nat, queue' = {} \/ busy' >= job_cap' \/ workers' = 0
  PROVE  Enough'
  <1>1. PICK p \in Nat : p = Pending'
    BY AlertFinite
  <1>2. job_cap' \in Int /\ (workers' = 0 => job_cap' = 0)
    BY DEF job_cap
  <1>3. PICK c \in Int, b \in Nat : c = job_cap' /\ b = busy'
    BY <1>2
  <1>4. CASE queue' = {}
    <2>1. Cardinality(queue') = 0
      BY <1>4, FS_EmptySet
    <2> QED BY <1>1, <2>1 DEF Enough
  <1>5. CASE b >= c
    <2>1. p >= c - b
      BY <1>5
    <2> QED BY <1>1, <1>3, <2>1 DEF Enough
  <1> QED BY <1>2, <1>3, <1>4, <1>5

\* notify_all: nobody sleeps.
LEMMA AllAwake ==
  ASSUME IInv, NEW l \in Labels \ {"asleep"}, pc' = WakeAll(Goto(Main, l)), IsFiniteSet(queue')
  PROVE  WakeInv'
  <1>1. \A w \in Workers : pc'[w] # "asleep"
    BY DEF WakeAll, Goto, IInv, TypeOK, ThreadTypes, Threads
  <1> QED BY <1>1 DEF WakeInv, SleepInv, SomeAsleep

--------------------------------------------------------------------------------
(* Steps that take no worker from the queue.                                    *)

LEMMA AlertGrows ==
  ASSUME Alert \subseteq Alert'
  PROVE  Cardinality(Alert) <= Cardinality(Alert')
  BY AlertFinite, FS_Subset

LEMMA FewerFree ==
  ASSUME NEW p \in Nat, NEW q \in Nat, NEW c \in Int, NEW d \in Int, NEW e \in Nat,
         q >= p, e >= d, p >= c - d
  PROVE  q >= c - e
  OBVIOUS

\* More workers on their way, fewer jobs to take: enough stays enough.
LEMMA EnoughStays ==
  ASSUME IInv, Enough, Alert \subseteq Alert', busy' \in Nat, workers' \in {workers, 0},
         pc[Main] \in {"notify", "pf_notify"} => pc'[Main] = pc[Main],
         Cardinality(queue) \in Nat, Cardinality(queue') \in Nat,
         Cardinality(queue') <= Cardinality(queue), busy' >= busy
  PROVE  Enough'
  <1>1. workers \in Nat /\ workers' \in Nat /\ busy \in Int
    BY DEF IInv, TypeOK, PoolTypes, JobTypes
  <1>2. CASE workers' = 0
    BY <1>1, <1>2, NothingToTake
  <1>3. CASE workers' = workers
    <2>1. PICK p \in Nat, q \in Nat : p = Pending /\ q = Pending' /\ q >= p
      <3>1. Pending' >= Pending
        BY AlertFinite, AlertGrows DEF Pending
      <3> QED BY <3>1, AlertFinite
    <2>2. PICK c \in Int : c = job_cap /\ c = job_cap'
      BY <1>1, <1>3 DEF job_cap
    <2>3. PICK d \in Int, e \in Nat : d = busy /\ e = busy' /\ e >= d
      BY <1>1
    <2>4. PICK k \in Nat, n \in Nat : k = Cardinality(queue) /\ n = Cardinality(queue') /\ n <= k
      OBVIOUS
    <2>5. pc[Main] = "pf_notify" \/ p >= k \/ p >= c - d
      BY <2>1, <2>2, <2>3, <2>4 DEF Enough
    <2>6. p >= k => q >= n
      BY <2>1, <2>4
    <2>7. p >= c - d => q >= c - e
      BY <2>1, <2>2, <2>3, FewerFree
    <2>8. pc'[Main] = "pf_notify" \/ q >= n \/ q >= c - e
      BY <2>5, <2>6, <2>7
    <2> QED BY <2>1, <2>2, <2>3, <2>4, <2>8 DEF Enough
  <1> QED BY <1>2, <1>3

\* Thread t moves, and others may be woken.
LEMMA CalmMove ==
  ASSUME PoolInv, NEW t \in Threads, NEW l \in Labels, Wakes(Goto(t, l), pc'),
         published' = published, \A u \in Workers \ {t} : seen'[u] = seen[u],
         t \in Alert => l \in {"loop", "locked"} /\ seen'[t] = seen[t],
         l # "asleep", t = Main => pc[t] \notin {"notify", "pf_notify", "stop_notify"},
         stopping' => stopping \/ pc'[Main] = "stop_notify",
         busy' \in Nat, workers' \in {workers, 0}, busy' >= busy,
         IsFiniteSet(queue'), Cardinality(queue') <= Cardinality(queue)
  PROVE  WakeInv'
  <1> USE DEF PoolInv
  <1>0. Main \in Threads /\ Main \notin Workers /\ Workers \subseteq Threads
    BY WorkersAssumption DEF Threads
  <1>1. \A u \in Threads \ {t} : \/ pc'[u] = pc[u]
                                 \/ pc[u] = "asleep" /\ pc'[u] = "loop"
                                 \/ pc[u] = "idle_asleep" /\ pc'[u] = "idle_check"
                                 \/ pc[u] = "done_asleep" /\ pc'[u] = "done_check"
    BY DEF Wakes, Goto, IInv, TypeOK, ThreadTypes
  <1>2. pc'[t] # "asleep" /\ (l \in {"loop", "locked"} => pc'[t] = l)
    BY DEF Wakes, Goto, IInv, TypeOK, ThreadTypes
  <1>3. pc[Main] \in {"notify", "pf_notify", "stop_notify"} => pc'[Main] = pc[Main]
    BY <1>0, <1>1
  <1>4. Alert \subseteq Alert'
    BY <1>0, <1>1, <1>2 DEF Alert
  <1>5. \A w \in Workers : pc'[w] = "asleep" => pc[w] = "asleep" /\ seen'[w] = seen[w]
    BY <1>0, <1>1, <1>2
  <1>6. SleepInv'
    BY <1>3, <1>5 DEF WakeInv, SleepInv
  <1>7. Cardinality(queue) \in Nat /\ Cardinality(queue') \in Nat
    BY FS_CardinalityType DEF WakeInv
  <1>8. SomeAsleep' => Enough'
    BY <1>3, <1>4, <1>5, <1>7, EnoughStays DEF WakeInv, SomeAsleep
  <1> QED BY <1>6, <1>8 DEF WakeInv

\* The same, when neither jobs nor pool change.
LEMMA LabelMove ==
  ASSUME PoolInv, NEW t \in Threads, NEW l \in Labels \ {"asleep"}, Wakes(Goto(t, l), pc'),
         UNCHANGED <<published, seen, queue, busy, workers, stopping>>,
         pc[t] \notin {"loop", "locked", "notify", "pf_notify", "stop_notify"}
  PROVE  WakeInv'
  <1>1. busy \in Nat
    BY ThreadsFinite, FS_CardinalityType DEF PoolInv, BusyInv
  <1>2. t \notin Alert
    BY DEF Alert
  <1>3. IsFiniteSet(queue') /\ Cardinality(queue') <= Cardinality(queue)
    BY FS_CardinalityType DEF PoolInv, WakeInv
  <1> QED BY <1>1, <1>2, <1>3, CalmMove

--------------------------------------------------------------------------------
(* stop.                                                                        *)

StopLabels == {"stop_flag", "stop_notify", "join"}
SleepLabels == {"asleep", "idle_asleep", "done_asleep"}

LEMMA Lands ==
  ASSUME IInv, NEW t \in Threads, NEW l \in Labels \ SleepLabels, Wakes(Goto(t, l), pc')
  PROVE  pc'[t] = l
  BY DEF Wakes, Goto, IInv, TypeOK, ThreadTypes, SleepLabels

\* Where the steps of the owner thread inside jobs and ranges lead.
LEMMA MainWorkLands ==
  ASSUME IInv, JobStep(Main) \/ RangeStep(Main) \/ SubmitNotifies \/ PublishNotifies
  PROVE  /\ pc'[Main] \notin StopLabels /\ pc[Main] \notin StopLabels
         /\ stopping' = stopping
  <1> USE DEF IInv, TypeOK
  <1>0. Main \in Threads
    BY DEF Threads
  <1>1. pc[Main] \notin StopLabels /\ stopping' = stopping
    BY DEF JobStep, JobReturns, DestroyDoomed, LeaveCancelled, RangeStep, ClaimRange, RangeReturns,
           SignalDone, SubmitNotifies, PublishNotifies, StopLabels, poolVars
  <1>2. ASSUME NEW l \in {"inline", "claim", "ready", "range"}, Wakes(Goto(Main, l), pc')
        PROVE  pc'[Main] \notin StopLabels
    <2>1. l \in Labels \ SleepLabels /\ l \notin StopLabels
      BY DEF Labels, MainLabels, SleepLabels, StopLabels
    <2> QED BY <1>0, <1>2, <2>1, Lands
  <1>3. ASSUME NEW l, pc' = Goto(Main, l), l \notin StopLabels PROVE pc'[Main] \notin StopLabels
    BY <1>0, <1>3, GotoMoves
  <1>4. {"inline", "claim", "ready", "range"} \subseteq Labels
    BY DEF Labels, MainLabels
  <1>5. LeaveJob(Main) => pc'[Main] \notin StopLabels
    BY <1>0, <1>2, <1>4, GotoType, LeaveWakes DEF LeaveJob, AfterJob
  <1>6. SignalDone(Main) => pc'[Main] \notin StopLabels
    BY <1>0, <1>2, <1>4, GotoType, WakeDoneWakes DEF SignalDone
  <1>7. SubmitNotifies => pc'[Main] \notin StopLabels
    BY <1>0, <1>2, <1>4, GotoType, WakeOneWakes DEF SubmitNotifies
  <1>8. PublishNotifies => pc'[Main] \notin StopLabels
    BY <1>0, <1>2, <1>4, GotoType, WakeAllWakes DEF PublishNotifies
  <1> QED BY <1>1, <1>3, <1>5, <1>6, <1>7, <1>8 DEF JobStep, JobReturns, DestroyDoomed,
             LeaveCancelled, RangeStep, ClaimRange, RangeReturns, StopLabels

LEMMA StopInvStep == IInv /\ StopInv /\ [Next]_vars => StopInv'
  <1> SUFFICES ASSUME IInv, StopInv, [Next]_vars PROVE StopInv'
    OBVIOUS
  <1>0. Main \in Threads
    BY DEF Threads
  <1>1. ASSUME pc'[Main] \notin StopLabels, pc[Main] \notin StopLabels, stopping' = stopping
        PROVE  StopInv'
    BY <1>1 DEF StopInv, StopLabels
  <1>2. ASSUME NEW l, pc' = Goto(Main, l), l \notin StopLabels, pc[Main] \notin StopLabels,
               stopping' = stopping
        PROVE  StopInv'
    BY <1>0, <1>1, <1>2, GotoMoves
  <1>3. ASSUME NEW w \in Workers, WorkerStep(w) PROVE StopInv'
    <2>1. stopping' = stopping
      BY <1>3 DEF WorkerStep, JobStep, JobReturns, DestroyDoomed, LeaveCancelled, RangeStep, ClaimRange,
                  RangeReturns, SignalDone, SeeBatch, WorkerExit, WorkerTakesJob, TakeJob, WorkerWaits,
                  poolVars
    <2> QED BY <1>3, <2>1, OthersOnlyWakeMain DEF StopInv
  <1>4. CASE MainStep
    <2>1. CASE IdleCheck
      <3>1. pc[Main] = "idle_check" /\ stopping' = stopping /\ \E l : pc' = Goto(Main, l)
        BY <2>1 DEF IdleCheck, poolVars
      <3>2. CASE pc' = Goto(Main, "stop_flag") /\ op = "stop" /\ op' = op
        BY <1>0, <3>1, <3>2, GotoMoves DEF StopInv
      <3>3. CASE pc' = Goto(Main, "idle_asleep") \/ pc' = Goto(Main, "ready")
        BY <1>2, <3>1, <3>3 DEF StopLabels
      <3> QED BY <2>1, <3>2, <3>3 DEF IdleCheck
    <2>2. CASE SetStopping
      BY <1>0, <2>2, GotoMoves DEF SetStopping, StopInv
    <2>3. CASE StopNotifies
      <3>1. pc'[Main] = "join"
        BY <1>0, <2>3 DEF StopNotifies, WakeAll, Goto, IInv, TypeOK, ThreadTypes
      <3> QED BY <2>3, <3>1 DEF StopNotifies, StopInv, poolVars
    <2>4. CASE Join
      BY <1>0, <2>4, GotoMoves DEF Join, StopInv
    <2>5. CASE RunMoreInline
      BY <1>2, <2>5 DEF RunMoreInline, TakeJob, StopLabels, poolVars
    <2>6. CASE LeaveInline
      BY <1>2, <2>6 DEF LeaveInline, Deliver, StopLabels, poolVars
    <2>7. CASE DoneCheck \/ ClearBatch
      BY <1>2, <2>7 DEF DoneCheck, ClearBatch, StopLabels, poolVars
    <2> QED BY <1>1, <1>4, <2>1, <2>2, <2>3, <2>4, <2>5, <2>6, <2>7, MainWorkLands DEF MainStep
  <1>5. CASE Call
    <2>1. pc[Main] \notin StopLabels
      BY <1>5 DEF Call, Submit, SetPriority, CancelCall, Poll, WaitIdle, CancelAll, Publish, Ready,
                  StopLabels
    <2>2. stopping' = stopping
      BY <1>5 DEF Call, Submit, SetPriority, CancelCall, Poll, TakeJob, Deliver, WaitIdle, CancelAll,
                  Publish, poolVars
    <2>3. pc' = pc \/ \E l : pc' = Goto(Main, l) /\ l \notin StopLabels
      <3>1. ASSUME NEW l \in {"ready", "notify", "destroy", "running", "idle_check", "pf_notify"},
                   pc' = Goto(Main, l)
            PROVE  \E k : pc' = Goto(Main, k) /\ k \notin StopLabels
        BY <3>1 DEF StopLabels
      <3>2. ASSUME NEW j \in Jobs, NEW p \in Prios, Submit(j, p) \/ SetPriority(j, p)
            PROVE  pc' = pc \/ pc' = Goto(Main, "notify")
        BY <3>2 DEF Submit, SetPriority
      <3>3. Poll \/ WaitIdle =>
              \/ pc' = Goto(Main, "running") \/ pc' = Goto(Main, "ready") \/ pc' = Goto(Main, "idle_check")
        BY DEF Poll, WaitIdle, TakeJob, Deliver
      <3>4. ASSUME NEW call, CancelAll(call) PROVE pc' = Goto(Main, "destroy")
        BY <3>4 DEF CancelAll
      <3>5. ASSUME NEW j \in Jobs, CancelCall(j)
            PROVE  pc' = pc \/ pc' = Goto(Main, "destroy")
        BY <3>5 DEF CancelCall
      <3>6. Publish => pc' = Goto(Main, "pf_notify")
        BY DEF Publish
      <3> QED BY <1>5, <3>1, <3>2, <3>3, <3>4, <3>5, <3>6 DEF Call
    <2> QED BY <1>1, <1>2, <2>1, <2>2, <2>3
  <1>6. ASSUME NEW t \in Threads, SpuriousWakeup(t) PROVE StopInv'
    <2>1. PICK l \in {"loop", "idle_check", "done_check"} : pc' = Goto(t, l)
      BY <1>6 DEF SpuriousWakeup
    <2>2. pc'[Main] = pc[Main] \/ (pc'[Main] \notin StopLabels /\ pc[Main] \notin StopLabels)
      BY <1>0, <1>6, <2>1, GotoMoves DEF SpuriousWakeup, StopLabels
    <2> QED BY <1>6, <2>2 DEF SpuriousWakeup, StopInv, StopLabels, poolVars
  <1>7. CASE UNCHANGED vars
    BY <1>7 DEF vars, StopInv, poolVars
  <1> QED BY <1>3, <1>4, <1>5, <1>6, <1>7 DEF Next

--------------------------------------------------------------------------------
(* Steps that notify one worker.                                                *)

LEMMA WakeOneAdds ==
  ASSUME PoolInv, NEW t \in Threads, NEW l \in Labels \ SleepLabels, NEW m \in [Threads -> Labels],
         Wakes(Goto(t, l), m), pc' \in WakeOne(m), t \notin Alert,
         UNCHANGED <<published, seen, stopping>>,
         t = Main => pc[t] \notin {"pf_notify", "stop_notify"}
  PROVE  /\ SleepInv'
         /\ SomeAsleep' => \/ pc'[Main] = "pf_notify"
                           \/ Cardinality(Alert') >= Cardinality(Alert) + 1
         /\ pc'[Main] = IF t = Main THEN l ELSE m[Main]
         /\ t # Main /\ pc[Main] \in {"notify", "pf_notify", "stop_notify"} => m[Main] = pc[Main]
  <1> USE DEF PoolInv
  <1>0. Main \in Threads /\ Main \notin Workers /\ Workers \subseteq Threads
    BY WorkersAssumption DEF Threads
  <1>1. m[t] = l /\ \A u \in Threads \ {t} : \/ m[u] = pc[u]
                                             \/ pc[u] = "asleep" /\ m[u] = "loop"
                                             \/ pc[u] = "idle_asleep" /\ m[u] = "idle_check"
                                             \/ pc[u] = "done_asleep" /\ m[u] = "done_check"
    BY DEF Wakes, Goto, IInv, TypeOK, ThreadTypes, SleepLabels
  <1>2. pc'[Main] = m[Main]
    BY <1>0 DEF WakeOne
  <1>3. pc[Main] \in {"pf_notify", "stop_notify"} => pc'[Main] = pc[Main]
    BY <1>0, <1>1, <1>2
  <1>4. \A w \in Workers : m[w] = "asleep" => pc[w] = "asleep" /\ w # t
    BY <1>0, <1>1 DEF SleepLabels
  <1>5. \A w \in Workers : pc'[w] = m[w] \/ (m[w] = "asleep" /\ pc'[w] = "loop")
    BY <1>0 DEF WakeOne
  <1>6. SleepInv'
    BY <1>3, <1>4, <1>5 DEF WakeInv, SleepInv
  <1>7. ASSUME SomeAsleep', pc'[Main] # "pf_notify" PROVE Cardinality(Alert') >= Cardinality(Alert) + 1
    <2>1. PICK a \in Workers : m[a] = "asleep" /\ pc'[a] = "loop"
      <3>1. PICK w \in Workers : m[w] = "asleep"
        BY <1>5, <1>7 DEF SomeAsleep
      <3> QED BY <1>0, <3>1 DEF WakeOne
    <2>2. seen[a] = published /\ pc[a] = "asleep"
      BY <1>3, <1>4, <1>7, <2>1 DEF WakeInv, SleepInv
    <2>3. Alert \cup {a} \subseteq Alert' /\ a \notin Alert
      BY <1>0, <1>1, <1>5, <2>1, <2>2 DEF Alert
    <2>4. Cardinality(Alert \cup {a}) = Cardinality(Alert) + 1 /\ IsFiniteSet(Alert \cup {a})
      BY <2>3, AlertFinite, FS_AddElement
    <2>5. Cardinality(Alert \cup {a}) <= Cardinality(Alert')
      BY <2>3, AlertFinite, FS_Subset
    <2> QED BY <2>4, <2>5
  <1>8. t # Main /\ pc[Main] \in {"notify", "pf_notify", "stop_notify"} => m[Main] = pc[Main]
    BY <1>0, <1>1
  <1> QED BY <1>1, <1>2, <1>6, <1>7, <1>8

LEMMA LeaveJobKeeps ==
  ASSUME PoolInv, NEW t \in Threads, pc[t] \in {"running", "leave"}, LeaveJob(t), busy' \in Nat,
         UNCHANGED <<published, seen, stopping, workers, queue>>
  PROVE  WakeInv'
  <1> USE DEF PoolInv, IInv, TypeOK
  <1> DEFINE l == AfterJob(t)
             m == WakeIdle(Goto(t, l))
  <1>1. l \in Labels \ SleepLabels /\ t \notin Alert /\ Main \in Threads
    BY DEF AfterJob, Labels, WorkerLabels, MainLabels, SleepLabels, Alert, Threads
  <1>2. Wakes(Goto(t, l), m) /\ pc' \in WakeOne(m) /\ m \in [Threads -> Labels]
    BY <1>1, GotoType, WakeIdleWakes DEF LeaveJob, Wakes
  <1> HIDE DEF m
  <1>3. t = Main => pc[t] \notin {"pf_notify", "stop_notify"}
    OBVIOUS
  <1>4. SleepInv' /\ (SomeAsleep' => \/ pc'[Main] = "pf_notify"
                                     \/ Cardinality(Alert') >= Cardinality(Alert) + 1)
    BY <1>1, <1>2, <1>3, WakeOneAdds
  <1>5. IsFiniteSet(queue') /\ workers' \in Nat
    BY DEF WakeInv, PoolTypes
  <1>6. CASE t = Main
    <2>1. workers' = 0
      BY <1>6, JobsAssumption DEF CapInv, ThreadInv
    <2> QED BY <1>4, <1>5, <2>1, NothingToTake DEF WakeInv
  <1>7. CASE t # Main
    <2>1. pc[Main] \in {"notify", "pf_notify"} => pc'[Main] = pc[Main]
      BY <1>1, <1>2, <1>3, <1>7, WakeOneAdds
    <2>2. ASSUME SomeAsleep', pc'[Main] # "pf_notify" PROVE Enough'
      <3>1. SomeAsleep
        <4>1. PICK w \in Workers : pc'[w] = "asleep"
          BY <2>2 DEF SomeAsleep
        <4>2. pc[w] = "asleep"
          BY <1>1, <1>2, <4>1 DEF WakeOne, Wakes, Goto, ThreadTypes, Threads, SleepLabels
        <4> QED BY <4>2 DEF SomeAsleep
      <3>2. Enough /\ pc[Main] # "pf_notify"
        BY <2>1, <2>2, <3>1 DEF WakeInv
      <3>3. PICK p \in Nat, q \in Nat : p = Pending /\ q = Pending' /\ q >= p + 1
        <4>1. Pending' >= Pending + 1
          BY <1>4, <2>1, <2>2, AlertFinite DEF Pending
        <4> QED BY <4>1, AlertFinite
      <3>4. PICK c \in Int, d \in Nat : c = job_cap /\ c = job_cap' /\ d = busy' /\ busy = d + 1
        <4>1. job_cap \in Int /\ job_cap' = job_cap
          BY DEF job_cap, PoolTypes
        <4>2. busy = busy' + 1
          BY DEF LeaveJob, JobTypes
        <4> QED BY <4>1, <4>2
      <3>5. PICK k \in Nat : k = Cardinality(queue) /\ k = Cardinality(queue')
        BY FS_CardinalityType DEF WakeInv
      <3>6. p >= k \/ p >= c - (d + 1)
        BY <3>2, <3>3, <3>4, <3>5 DEF Enough
      <3>7. q >= k \/ q >= c - d
        BY <3>3, <3>6
      <3> QED BY <3>3, <3>4, <3>5, <3>7 DEF Enough
    <2>3. pc'[Main] = "pf_notify" => Enough'
      BY DEF Enough
    <2> QED BY <1>4, <1>5, <2>2, <2>3 DEF WakeInv
  <1> QED BY <1>6, <1>7

LEMMA SubmitNotifiesKeeps ==
  ASSUME PoolInv, SubmitNotifies, busy' \in Nat
  PROVE  WakeInv'
  <1> USE DEF PoolInv, IInv, TypeOK
  <1>0. Main \in Threads /\ Main \notin Alert /\ "ready" \in Labels \ SleepLabels /\ pc[Main] = "notify"
    BY WorkersAssumption DEF Threads, Alert, Labels, MainLabels, SleepLabels, SubmitNotifies
  <1>1. PICK m \in [Threads -> Labels] : m = Goto(Main, "ready")
    BY <1>0, GotoType
  <1>2. Wakes(Goto(Main, "ready"), m) /\ pc' \in WakeOne(m)
    BY <1>1 DEF Wakes, SubmitNotifies
  <1>3. UNCHANGED <<published, seen, stopping, workers, queue, busy>>
    BY DEF SubmitNotifies, batchVars, poolVars, jobVars
  <1>4. /\ SleepInv' /\ pc'[Main] = "ready"
        /\ SomeAsleep' => Cardinality(Alert') >= Cardinality(Alert) + 1
    BY <1>0, <1>2, <1>3, WakeOneAdds
  <1>5. ASSUME SomeAsleep' PROVE Enough'
    <2>1. SomeAsleep
      <3>1. PICK w \in Workers : pc'[w] = "asleep"
        BY <1>5 DEF SomeAsleep
      <3>2. pc[w] = "asleep"
        BY <1>0, <1>1, <1>2, <3>1 DEF WakeOne, Goto, ThreadTypes, Threads
      <3> QED BY <3>2 DEF SomeAsleep
    <2>2. PICK p \in Nat, q \in Nat : p = Pending /\ q = Pending' /\ q >= p
      <3>1. Pending' >= Pending
        BY <1>0, <1>4, <1>5, AlertFinite DEF Pending
      <3> QED BY <3>1, AlertFinite
    <2>3. PICK c : c = job_cap - busy /\ c = job_cap' - busy' /\ c \in Int
      <3>1. job_cap \in Int /\ job_cap' = job_cap /\ busy \in Int
        BY <1>3 DEF job_cap, PoolTypes, JobTypes
      <3> QED BY <1>3, <3>1
    <2>4. PICK k \in Nat : k = Cardinality(queue) /\ k = Cardinality(queue')
      BY <1>3, FS_CardinalityType DEF WakeInv
    <2>5. p >= k \/ p >= c
      BY <1>0, <2>1, <2>2, <2>3, <2>4 DEF WakeInv, Enough
    <2>6. q >= k \/ q >= c
      BY <2>2, <2>3, <2>5
    <2> QED BY <2>2, <2>3, <2>4, <2>6 DEF Enough
  <1> QED BY <1>3, <1>4, <1>5 DEF WakeInv

--------------------------------------------------------------------------------
(* Taking a job, going to sleep, exiting.                                       *)

LEMMA TakesKeeps ==
  ASSUME PoolInv, NEW w \in Workers, WorkerTakesJob(w), busy' \in Nat
  PROVE  WakeInv'
  <1> USE DEF PoolInv, IInv, TypeOK
  <1>0. Main \in Threads /\ Main # w /\ w \in Threads /\ Workers \subseteq Threads /\ w \in Alert
    BY WorkersAssumption DEF Threads, WorkerTakesJob, HasMutex, Alert
  <1>1. PICK e \in queue : queue' = queue \ {e} /\ busy' = busy + 1
    BY DEF WorkerTakesJob, TakeJob
  <1>2. pc' = Goto(w, "running") /\ UNCHANGED <<published, seen, stopping, workers>>
    BY DEF WorkerTakesJob, TakeJob, batchVars, poolVars
  <1>3. pc'[w] = "running" /\ \A u \in Threads \ {w} : pc'[u] = pc[u]
    BY <1>0, <1>2, GotoMoves
  <1>4. SleepInv'
    BY <1>0, <1>2, <1>3 DEF WakeInv, SleepInv
  <1>5. IsFiniteSet(queue') /\ Cardinality(queue') = Cardinality(queue) - 1 /\ Cardinality(queue) \in Nat
        /\ Cardinality(queue') \in Nat
    BY <1>1, FS_RemoveElement, FS_CardinalityType DEF WakeInv
  <1>6. ASSUME SomeAsleep' PROVE Enough'
    <2>1. SomeAsleep
      BY <1>0, <1>3, <1>6 DEF SomeAsleep
    <2>2. Alert' = Alert \ {w}
      BY <1>0, <1>2, <1>3 DEF Alert
    <2>3. PICK p \in Nat, q \in Nat : p = Pending /\ q = Pending' /\ q = p - 1
      <3>1. Cardinality(Alert') = Cardinality(Alert) - 1
        BY <1>0, <2>2, AlertFinite, FS_RemoveElement
      <3>2. Pending' = Pending - 1
        BY <1>0, <1>3, <3>1, AlertFinite DEF Pending
      <3> QED BY <3>2, AlertFinite
    <2>4. PICK k \in Nat, n \in Nat : k = Cardinality(queue) /\ n = Cardinality(queue') /\ n = k - 1
      BY <1>5
    <2>5. PICK c \in Int, d \in Int : c = job_cap /\ c = job_cap' /\ d = busy /\ busy' = d + 1
      BY <1>1, <1>2 DEF job_cap, PoolTypes, JobTypes
    <2>6. pc'[Main] = "pf_notify" \/ p >= k \/ p >= c - d
      BY <1>0, <1>3, <2>1, <2>3, <2>4, <2>5 DEF WakeInv, Enough
    <2>7. pc'[Main] = "pf_notify" \/ q >= n \/ q >= c - (d + 1)
      BY <2>3, <2>4, <2>6
    <2> QED BY <2>3, <2>4, <2>5, <2>7 DEF Enough
  <1> QED BY <1>4, <1>5, <1>6 DEF WakeInv

\* A worker sleeps only when it has seen the last batch, may not take a job and is not told to
\* stop; it exits only when the queue is empty.
LEMMA WaitsKeeps ==
  ASSUME PoolInv, NEW w \in Workers, WorkerWaits(w) \/ WorkerExit(w), busy' \in Nat
  PROVE  WakeInv'
  <1> USE DEF PoolInv, IInv, TypeOK
  <1>0. Main \in Threads /\ Main # w /\ w \in Threads /\ Workers \subseteq Threads /\ published = seen[w]
    BY WorkersAssumption DEF Threads, WorkerWaits, WorkerExit
  <1>1. PICK l \in {"asleep", "exited"} : pc' = Goto(w, l) /\ (l = "asleep" => ~stopping)
    BY DEF WorkerWaits, WorkerExit
  <1>2. UNCHANGED <<published, seen, stopping, workers, queue, busy, job_cap>>
    BY DEF WorkerWaits, WorkerExit, jobVars, batchVars, poolVars, job_cap
  <1>3. pc'[w] = l /\ \A u \in Threads \ {w} : pc'[u] = pc[u]
    BY <1>0, <1>1, GotoMoves
  <1>4. SleepInv'
    BY <1>0, <1>1, <1>2, <1>3 DEF WakeInv, SleepInv
  <1>5. queue = {} \/ busy >= job_cap
    <2>1. CASE WorkerWaits(w)
      <3>1. job_cap \in Int /\ busy \in Int
        BY DEF job_cap, PoolTypes, JobTypes
      <3> QED BY <2>1, <3>1 DEF WorkerWaits, can_take_job
    <2>2. CASE WorkerExit(w)
      BY <2>2 DEF WorkerExit, StopInv, DrainInv, Draining
    <2> QED BY <2>1, <2>2
  <1>6. workers' \in Nat /\ queue' = queue /\ busy' = busy /\ job_cap' = job_cap
    BY <1>2 DEF PoolTypes
  <1>7. Enough'
    BY <1>5, <1>6, NothingToTake
  <1> QED BY <1>2, <1>4, <1>7 DEF WakeInv

LEMMA SeeBatchWakes ==
  ASSUME PoolInv, NEW w \in Workers, SeeBatch(w), busy' \in Nat
  PROVE  WakeInv'
  <1> USE DEF PoolInv, IInv, TypeOK
  <1>0. Main # w /\ w \in Threads /\ Workers \subseteq Threads /\ w \notin Alert
    BY WorkersAssumption DEF Threads, SeeBatch, Alert
  <1>1. PICK l \in {"loop", "claim"} : pc' = Goto(w, l)
    BY DEF SeeBatch
  <1>2. l \in Labels
    BY DEF Labels, WorkerLabels
  <1>3. Wakes(Goto(w, l), pc')
    BY <1>0, <1>1, <1>2, NoWakes
  <1>4. /\ \A u \in Workers \ {w} : seen'[u] = seen[u]
        /\ published' = published /\ stopping' = stopping /\ workers' = workers
        /\ queue' = queue /\ busy' = busy
    BY DEF SeeBatch, BatchTypes, jobVars, poolVars
  <1>5. Cardinality(queue') <= Cardinality(queue) /\ IsFiniteSet(queue')
    BY <1>4, FS_CardinalityType DEF WakeInv
  <1> QED BY <1>0, <1>2, <1>3, <1>4, <1>5, CalmMove

--------------------------------------------------------------------------------
(* The calls that change the queue.                                             *)

LEMMA SubmitWakes ==
  ASSUME PoolInv, NEW j \in Jobs, NEW p \in Prios, Submit(j, p), busy' \in Nat
  PROVE  WakeInv'
  <1> USE DEF PoolInv, IInv, TypeOK
  <1>0. Main \in Threads /\ Main \notin Workers /\ Workers \subseteq Threads /\ pc[Main] = "ready"
    BY WorkersAssumption DEF Threads, Submit, Ready
  <1>1. PICK e : queue' = queue \cup {e}
    BY DEF Submit
  <1>2. pc' = Goto(Main, "notify") /\ UNCHANGED <<published, seen, stopping, workers, busy>>
    BY DEF Submit, batchVars, poolVars
  <1>3. pc'[Main] = "notify" /\ \A u \in Threads \ {Main} : pc'[u] = pc[u]
    BY <1>0, <1>2, GotoMoves
  <1>4. SleepInv'
    BY <1>0, <1>2, <1>3 DEF WakeInv, SleepInv
  <1>5. /\ IsFiniteSet(queue') /\ Cardinality(queue) \in Nat /\ Cardinality(queue') \in Nat
        /\ Cardinality(queue') <= Cardinality(queue) + 1
    <2>1. IsFiniteSet(queue') /\ (Cardinality(queue') = Cardinality(queue) \/ Cardinality(queue') = Cardinality(queue) + 1)
      BY <1>1, FS_AddElement DEF WakeInv
    <2> QED BY <2>1, FS_CardinalityType DEF WakeInv
  <1>6. ASSUME SomeAsleep' PROVE Enough'
    <2>1. SomeAsleep
      BY <1>0, <1>3, <1>6 DEF SomeAsleep
    <2>2. Alert' = Alert
      BY <1>0, <1>2, <1>3 DEF Alert
    <2>3. PICK a \in Nat, b \in Nat : a = Pending /\ b = Pending' /\ b = a + 1
      BY <1>0, <1>3, <2>2, AlertFinite DEF Pending
    <2>4. PICK k \in Nat, n \in Nat : k = Cardinality(queue) /\ n = Cardinality(queue') /\ n <= k + 1
      BY <1>5
    <2>5. PICK c \in Int : c = job_cap - busy /\ c = job_cap' - busy'
      BY <1>2 DEF job_cap, PoolTypes, JobTypes
    <2>6. a >= k \/ a >= c
      BY <1>0, <2>1, <2>3, <2>4, <2>5 DEF WakeInv, Enough
    <2>7. b >= n \/ b >= c
      BY <2>3, <2>4, <2>5, <2>6
    <2> QED BY <2>3, <2>4, <2>5, <2>7 DEF Enough
  <1> QED BY <1>4, <1>5, <1>6 DEF WakeInv

\* set_priority takes one entry out and puts one in.
LEMMA SetPriorityQueue ==
  ASSUME IsFiniteSet(queue), NEW j \in Jobs, NEW p \in Prios, SetPriority(j, p)
  PROVE  IsFiniteSet(queue') /\ Cardinality(queue') <= Cardinality(queue)
  <1>1. PICK e \in queue : e.prio = job[j].prio /\ e.seq = job[j].seq
    BY DEF SetPriority
  <1>2. PICK R, f : R = EraseKey(job[j].prio, job[j].seq) /\ queue' = R \cup {f}
    BY DEF SetPriority
  <1>3. R \subseteq queue \ {e}
    BY <1>1, <1>2 DEF EraseKey
  <1>4. IsFiniteSet(queue \ {e}) /\ Cardinality(queue \ {e}) = Cardinality(queue) - 1
    BY <1>1, FS_RemoveElement
  <1>5. IsFiniteSet(R) /\ Cardinality(R) <= Cardinality(queue \ {e})
    BY <1>3, <1>4, FS_Subset
  <1>6. IsFiniteSet(R \cup {f}) /\ Cardinality(R \cup {f}) <= Cardinality(R) + 1
    <2>1. /\ IsFiniteSet(R \cup {f})
          /\ Cardinality(R \cup {f}) = Cardinality(R) \/ Cardinality(R \cup {f}) = Cardinality(R) + 1
      BY <1>5, FS_AddElement
    <2> QED BY <1>5, <2>1, FS_CardinalityType
  <1>7. Cardinality(queue) \in Nat /\ Cardinality(R) \in Nat /\ Cardinality(R \cup {f}) \in Nat
    BY <1>5, <1>6, FS_CardinalityType
  <1> QED BY <1>2, <1>4, <1>5, <1>6, <1>7

\* A call of the owner thread that takes nothing new into the queue, and ends or goes on to label l.
LEMMA CallMove ==
  ASSUME PoolInv, NEW l \in Labels \ SleepLabels, pc' = Goto(Main, l), pc[Main] = "ready",
         UNCHANGED <<published, seen, stopping, workers>>, busy' \in Nat, busy' >= busy,
         IsFiniteSet(queue'), Cardinality(queue') <= Cardinality(queue)
  PROVE  WakeInv'
  <1>1. Main \in Threads /\ Main \notin Alert /\ l # "asleep"
    BY WorkersAssumption DEF Threads, Alert, SleepLabels
  <1>2. Wakes(Goto(Main, l), pc')
    BY <1>1, NoWakes DEF PoolInv, IInv, TypeOK
  <1> QED BY <1>1, <1>2, CalmMove

LEMMA TakeJobMainWakes ==
  ASSUME PoolInv, TakeJob(Main), pc[Main] \in {"ready", "inline"}, busy' \in Nat
  PROVE  WakeInv'
  <1> USE DEF PoolInv, IInv, TypeOK
  <1>1. Main \in Threads /\ Main \notin Alert /\ "running" \in Labels
    BY WorkersAssumption DEF Threads, Alert, Labels, RunLabels
  <1>2. PICK e \in queue : queue' = queue \ {e} /\ busy' = busy + 1
    BY DEF TakeJob
  <1>3. IsFiniteSet(queue') /\ Cardinality(queue') <= Cardinality(queue)
    BY <1>2, FS_Subset DEF WakeInv
  <1>4. busy' >= busy
    BY <1>2 DEF JobTypes
  <1>5. pc' = Goto(Main, "running") /\ UNCHANGED <<published, seen, stopping, workers>>
    BY DEF TakeJob, batchVars, poolVars
  <1>6. Wakes(Goto(Main, "running"), pc')
    BY <1>1, <1>5, NoWakes
  <1> QED BY <1>1, <1>3, <1>4, <1>5, <1>6, CalmMove

LEMMA GotoLabelMove ==
  ASSUME PoolInv, NEW t \in Threads, NEW l \in Labels \ {"asleep"}, pc' = Goto(t, l),
         UNCHANGED <<published, seen, queue, busy, workers, stopping>>,
         pc[t] \notin {"loop", "locked", "notify", "pf_notify", "stop_notify"}
  PROVE  WakeInv'
  BY NoWakes, LabelMove DEF PoolInv, IInv, TypeOK

LEMMA JobStepWakes ==
  ASSUME PoolInv, NEW t \in Threads, JobStep(t), busy' \in Nat
  PROVE  WakeInv'
  <1>1. /\ pc[t] \in RunLabels
        /\ UNCHANGED <<published, seen, queue, workers, stopping>>
    BY DEF JobStep, JobReturns, DestroyDoomed, LeaveCancelled, RunLabels, batchVars, poolVars
  <1>2. CASE LeaveJob(t) /\ pc[t] \in {"running", "leave"}
    BY <1>1, <1>2, LeaveJobKeeps
  <1>3. ASSUME NEW l \in {"destroy", "leave", "ready", "idle_check"}, pc' = Goto(t, l), busy' = busy
        PROVE  WakeInv'
    <2>1. l \in Labels \ {"asleep"}
      BY DEF Labels, RunLabels, MainLabels
    <2> QED BY <1>1, <1>3, <2>1, GotoLabelMove DEF RunLabels
  <1>4. CASE JobReturns(t)
    BY <1>2, <1>3, <1>4 DEF JobReturns
  <1>5. CASE DestroyDoomed(t)
    BY <1>3, <1>5 DEF DestroyDoomed
  <1> QED BY <1>2, <1>4, <1>5 DEF JobStep, LeaveCancelled

LEMMA RangeStepWakes ==
  ASSUME PoolInv, NEW t \in Threads, RangeStep(t)
  PROVE  WakeInv'
  <1>1. /\ pc[t] \in {"claim", "range", "signal"}
        /\ UNCHANGED <<published, seen, queue, busy, workers, stopping>>
    BY DEF RangeStep, ClaimRange, RangeReturns, SignalDone, jobVars, batchVars, poolVars
  <1>2. {"done_check", "loop", "range", "signal", "claim"} \subseteq Labels \ {"asleep"}
    BY DEF Labels, WorkerLabels, MainLabels
  <1>3. CASE ClaimRange(t) \/ RangeReturns(t)
    <2>1. PICK l \in {"done_check", "loop", "range", "signal", "claim"} : pc' = Goto(t, l)
      BY <1>3 DEF ClaimRange, RangeReturns
    <2> QED BY <1>1, <1>2, <2>1, GotoLabelMove
  <1>4. CASE SignalDone(t)
    <2>1. Wakes(Goto(t, "claim"), pc')
      BY <1>2, <1>4, GotoType, WakeDoneWakes DEF SignalDone, PoolInv, IInv, TypeOK
    <2> QED BY <1>1, <1>2, <2>1, LabelMove
  <1> QED BY <1>3, <1>4 DEF RangeStep

LEMMA MainStepWakes ==
  ASSUME PoolInv, MainStep, busy' \in Nat
  PROVE  WakeInv'
  <1> USE DEF PoolInv, IInv, TypeOK
  <1>0. Main \in Threads /\ Main \notin Alert /\ IsFiniteSet(queue)
    BY WorkersAssumption DEF Threads, Alert, WakeInv
  <1>1. CASE LeaveInline \/ IdleCheck \/ DoneCheck \/ ClearBatch
    <2>1. PICK l \in {"ready", "idle_asleep", "stop_flag", "clear", "done_asleep"} : pc' = Goto(Main, l)
      BY <1>1 DEF LeaveInline, Deliver, IdleCheck, DoneCheck, ClearBatch
    <2>2. l \in Labels \ {"asleep"}
      BY DEF Labels, MainLabels
    <2>3. /\ pc[Main] \in {"inline", "idle_check", "done_check", "clear"}
          /\ UNCHANGED <<published, seen, queue, busy, workers, stopping>>
      BY <1>1 DEF LeaveInline, Deliver, IdleCheck, DoneCheck, ClearBatch, jobVars, batchVars, poolVars
    <2> QED BY <1>0, <2>1, <2>2, <2>3, GotoLabelMove
  <1>2. CASE SetStopping \/ Join
    <2>1. PICK l \in {"stop_notify", "ready"} : pc' = Goto(Main, l) /\ (stopping' => l = "stop_notify")
      BY <1>2 DEF SetStopping, Join
    <2>2. l \in Labels /\ l # "asleep"
      BY DEF Labels, MainLabels
    <2>3. pc'[Main] = l /\ Wakes(Goto(Main, l), pc')
      BY <1>0, <2>1, <2>2, GotoMoves, NoWakes
    <2>4. /\ pc[Main] \in {"stop_flag", "join"} /\ workers' \in {workers, 0}
          /\ UNCHANGED <<published, seen, queue, busy>>
      BY <1>2 DEF SetStopping, Join, jobVars, batchVars
    <2>5. Cardinality(queue') <= Cardinality(queue) /\ IsFiniteSet(queue') /\ busy' >= busy
      BY <1>0, <2>4, FS_CardinalityType
    <2> QED BY <1>0, <2>1, <2>2, <2>3, <2>4, <2>5, CalmMove
  <1>3. CASE StopNotifies \/ PublishNotifies
    <2>1. PICK l \in {"join", "range"} : pc' = WakeAll(Goto(Main, l))
      BY <1>3 DEF StopNotifies, PublishNotifies
    <2>2. l \in Labels \ {"asleep"}
      BY DEF Labels, MainLabels
    <2>3. queue' = queue
      BY <1>3 DEF StopNotifies, PublishNotifies, jobVars
    <2> QED BY <1>0, <2>1, <2>2, <2>3, AllAwake
  <1>4. CASE RunMoreInline
    BY <1>4, TakeJobMainWakes DEF RunMoreInline
  <1> QED BY <1>0, <1>1, <1>2, <1>3, <1>4, JobStepWakes, RangeStepWakes, SubmitNotifiesKeeps
          DEF MainStep

LEMMA CallWakes ==
  ASSUME PoolInv, Call, busy' \in Nat
  PROVE  WakeInv'
  <1> USE DEF PoolInv, IInv, TypeOK
  <1>0. Main \in Threads /\ Main \notin Workers /\ Workers \subseteq Threads /\ IsFiniteSet(queue)
        /\ Cardinality(queue) \in Nat /\ busy \in Int
    BY WorkersAssumption, FS_CardinalityType DEF Threads, WakeInv, JobTypes
  <1>1. pc[Main] = "ready" /\ pc = Goto(Main, "ready")
    <2>1. pc[Main] = "ready"
      BY DEF Call, Submit, SetPriority, CancelCall, Poll, WaitIdle, CancelAll, Publish, Ready
    <2> QED BY <1>0, <2>1 DEF Goto, ThreadTypes
  <1>2. ASSUME NEW l \in {"ready", "destroy", "idle_check"}, pc' = Goto(Main, l),
               UNCHANGED <<published, seen, stopping, workers, busy>>,
               IsFiniteSet(queue'), Cardinality(queue') <= Cardinality(queue)
        PROVE  WakeInv'
    <2>1. l \in Labels \ SleepLabels
      BY DEF Labels, MainLabels, RunLabels, SleepLabels
    <2> QED BY <1>0, <1>1, <1>2, <2>1, CallMove
  <1>3. ASSUME queue' \subseteq queue PROVE IsFiniteSet(queue') /\ Cardinality(queue') <= Cardinality(queue)
    BY <1>0, <1>3, FS_Subset
  <1>4. ASSUME NEW j \in Jobs, NEW p \in Prios, SetPriority(j, p) PROVE WakeInv'
    BY <1>0, <1>1, <1>2, <1>4, SetPriorityQueue DEF SetPriority, batchVars, poolVars
  <1>5. ASSUME NEW j \in Jobs, CancelCall(j) PROVE WakeInv'
    <2>1. queue' \subseteq queue
      BY <1>5 DEF CancelCall, EraseKey
    <2>2. pc' = Goto(Main, "ready") \/ pc' = Goto(Main, "destroy")
      BY <1>1, <1>5 DEF CancelCall
    <2> QED BY <1>2, <1>3, <1>5, <2>1, <2>2 DEF CancelCall, batchVars, poolVars
  <1>6. CASE Poll \/ WaitIdle
    <2>1. CASE TakeJob(Main)
      BY <1>1, <2>1, TakeJobMainWakes
    <2>2. CASE Deliver \/ (pc' = Goto(Main, "idle_check") /\ UNCHANGED <<jobVars, batchVars, poolVars>>)
      BY <1>2, <1>3, <2>2 DEF Deliver, jobVars, batchVars, poolVars
    <2> QED BY <1>6, <2>1, <2>2 DEF Poll, WaitIdle
  <1>7. ASSUME NEW call, CancelAll(call) PROVE WakeInv'
    BY <1>2, <1>3, <1>7 DEF CancelAll, batchVars, poolVars
  <1>8. CASE Publish
    <2>1. pc'[Main] = "pf_notify" /\ \A u \in Threads \ {Main} : pc'[u] = pc[u]
      BY <1>0, <1>8, GotoMoves DEF Publish
    <2>2. ~stopping' /\ queue' = queue
      BY <1>1, <1>8 DEF Publish, StopInv, poolVars, jobVars
    <2> QED BY <1>0, <2>1, <2>2 DEF WakeInv, SleepInv, Enough
  <1> QED BY <1>4, <1>5, <1>6, <1>7, <1>8, SubmitWakes DEF Call

LEMMA WakeInvStep == PoolInv /\ BusyInv' /\ [Next]_vars => WakeInv'
  <1> SUFFICES ASSUME PoolInv, BusyInv', [Next]_vars PROVE WakeInv'
    OBVIOUS
  <1>0. busy' \in Nat /\ Workers \subseteq Threads
    BY ThreadsFinite, FS_CardinalityType DEF BusyInv, Threads
  <1>1. ASSUME NEW w \in Workers, WorkerStep(w) PROVE WakeInv'
    BY <1>0, <1>1, JobStepWakes, RangeStepWakes, SeeBatchWakes, WaitsKeeps, TakesKeeps DEF WorkerStep
  <1>2. ASSUME NEW t \in Threads, SpuriousWakeup(t) PROVE WakeInv'
    <2>1. PICK l \in {"loop", "idle_check", "done_check"} : pc' = Goto(t, l)
      BY <1>2 DEF SpuriousWakeup
    <2>2. l \in Labels \ {"asleep"}
      BY DEF Labels, WorkerLabels, MainLabels
    <2> QED BY <1>2, <2>1, <2>2, GotoLabelMove DEF SpuriousWakeup, jobVars, batchVars, poolVars
  <1>3. CASE UNCHANGED vars
    BY <1>3 DEF vars, jobVars, batchVars, poolVars, PoolInv, WakeInv, SleepInv, SomeAsleep, Enough,
                Pending, Alert, job_cap
  <1> QED BY <1>0, <1>1, <1>2, <1>3, MainStepWakes, CallWakes DEF Next

\* Whatever the number of workers and jobs, no worker sleeps through a job it could take, a batch or
\* a stop, unless another is on its way or the notification is still to be sent.
THEOREM JobsNoLostWakeup == Spec => []NoLostWakeup
  <1>1. PoolInv => NoLostWakeup
    <2> SUFFICES ASSUME PoolInv, NEW w \in Workers, pc[w] = "asleep"
                 PROVE  /\ can_take_job => \/ pc[Main] \in {"notify", "pf_notify"}
                                           \/ \E v \in Workers : pc[v] \in {"loop", "locked"}
                        /\ published = seen[w] \/ pc[Main] = "pf_notify"
                        /\ stopping => pc[Main] = "stop_notify"
      BY DEF NoLostWakeup
    <2>1. ASSUME can_take_job, pc[Main] \notin {"notify", "pf_notify"}
          PROVE  \E v \in Workers : pc[v] \in {"loop", "locked"}
      <3>1. PICK k \in Nat : k = Cardinality(queue) /\ k # 0
        BY <2>1, FS_CardinalityType, FS_EmptySet DEF PoolInv, WakeInv, can_take_job
      <3>2. PICK c \in Int : c = job_cap - busy /\ c > 0
        BY <2>1 DEF can_take_job, job_cap, PoolInv, IInv, TypeOK, PoolTypes, JobTypes
      <3>3. PICK p \in Nat : p = Pending /\ p = Cardinality(Alert)
        BY <2>1, AlertFinite DEF Pending
      <3>4. p >= k \/ p >= c
        BY <2>1, <3>1, <3>2, <3>3 DEF PoolInv, WakeInv, SomeAsleep, Enough
      <3>5. Alert # {}
        BY <3>1, <3>2, <3>3, <3>4, FS_EmptySet
      <3> QED BY <3>5 DEF Alert
    <2>2. (published = seen[w] \/ pc[Main] = "pf_notify") /\ (stopping => pc[Main] = "stop_notify")
      BY DEF PoolInv, WakeInv, SleepInv
    <2> QED BY <2>1, <2>2
  <1>2. Init => PoolInv
    BY JobsInit, BusyInvInit, CapInvInit, DrainInvInit, WakeInvInit DEF PoolInv
  <1>3. PoolInv /\ [Next]_vars => PoolInv'
    BY JobsStep, BusyInvStep, CapInvStep, DrainInvStep, StopInvStep, WakeInvStep DEF PoolInv
  <1> QED BY <1>1, <1>2, <1>3, PTL DEF Spec
===============================================================================
