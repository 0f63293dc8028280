------------------------------ MODULE Host_proof -------------------------------
(* Proofs about Host, for any worlds, calls, dialogs, requests and bounds: what  *)
(* nests in the poll takes nothing from the frame around it, calls of both kinds *)
(* keep the contract of a call, and what the clients of wind-cli are told is so. *)
EXTENDS Host, WellFoundedInduction, TLAPS

--------------------------------------------------------------------------------
(* The frame, what nests in it, and the events.                                 *)

Stages == {"begin", "poll", "calls", "simulate", "draw", "drain", "drained", "end",
           "stopping", "joining", "disposing", "waiting", "ended"}
NestedStages == {"none", "begin", "simulate", "draw", "drain", "drained"}

\* The outer frame's systems run, or have run since the flush, and no flush has been since.
SystemsRan == outer \in {"simulate", "draw", "drain", "drained", "end", "begin"}

\* A nested frame runs in the poll, and what will be dropped by the next flush has been heard.
LoopInv ==
  /\ outer \in Stages /\ nested \in NestedStages
  /\ nested # "none" => outer = "poll"
  /\ worlds \subseteq Worlds /\ event \in [Worlds -> {"none", "current", "previous"}]
  /\ held \in worlds \cup {NoWorld}
  /\ nested = "none" => held = NoWorld
  /\ lost = {}
  /\ SystemsRan => \A w \in worlds : event[w] = "previous" => w \in heard

--------------------------------------------------------------------------------
(* Process calls.                                                               *)

CallRecords ==
  [holder : {"none", "held", "gone"}, list : {"none", "running", "failed"}, cancelled : BOOLEAN,
   result : {"none", "error", "exit"}, taken : BOOLEAN, incoming : Nat, output : Nat, closed : BOOLEAN, exit : BOOLEAN]
ChildRecords ==
  [program : {"none", "running", "exited"}, pipe : SUBSET {"program", "group", "straggler"}, killed : BOOLEAN,
   wrote : Nat, unread : Nat]

\* Nothing has happened to a call before run.
Unused(k) == k.list = "none" /\ ~k.cancelled /\ k.result = NoResult /\ ~k.taken /\ ~k.closed

\* A call k and its child h: what has a result is on no list and was not cancelled, lines are in the pipe,
\* in the queue or delivered, and no line follows the end of the pipe.
CallOK(k, h) ==
  /\ k \in CallRecords /\ h \in ChildRecords
  /\ k.holder = "none" => Unused(k)
  /\ k.holder = "gone" => k.cancelled
  /\ k.result # NoResult => k.list = "none" /\ ~k.cancelled
  /\ k.taken => k.result # NoResult
  /\ ~k.cancelled => h.wrote = k.output + k.incoming + h.unread
  /\ k.closed => h.pipe = {} /\ h.unread = 0
  /\ k.result = "exit" => k.closed /\ k.incoming = 0

CallsOK ==
  /\ call \in [Calls -> CallRecords] /\ child \in [Calls -> ChildRecords]
  /\ \A c \in Calls : CallOK(call[c], child[c])

\* What a poll has still to visit is running, once each.
PollOK ==
  /\ polling \subseteq Calls /\ visited \in (Calls \cup {NoChild}) \ polling
  /\ \A c \in Calls : c \in polling \/ visited = c => call[c].list = "running"

\* A poll is under way in its stage only.
ProcInv == CallsOK /\ PollOK /\ (outer # "calls" => Polled)

--------------------------------------------------------------------------------
(* Dialogs.                                                                     *)

\* A dialog that is open or has answered belongs to a call without a result.
DialogInv ==
  /\ dialog \in [Dialogs -> [holder : {"none", "held", "gone", "taken"}, cancelled : BOOLEAN, result : BOOLEAN]]
  /\ windows \subseteq Dialogs /\ answers \subseteq Dialogs /\ windows \cap answers = {}
  /\ \A d \in Dialogs :
       /\ dialog[d].result => dialog[d].holder \in {"held", "taken"}
       /\ dialog[d].cancelled <=> dialog[d].holder = "gone"
       /\ d \in windows \cup answers => dialog[d].holder \in {"held", "gone"} /\ ~dialog[d].result

--------------------------------------------------------------------------------
(* The frame.                                                                   *)

\* Init establishes the frame's invariant.
LEMMA LoopBegins == Init => LoopInv
  BY DEF Init, LoopInv, Stages, NestedStages, SystemsRan

\* A world that sends is heard by no system yet, and nobody else's event changes.
LEMMA Sending ==
  ASSUME LoopInv, NEW w \in Worlds, Sends(w), UNCHANGED <<worlds, outer, lost>>,
         nested' \in NestedStages, nested' # "none" => outer = "poll", held' = held, nested' = nested
  PROVE  LoopInv'
  <1>1. event' = [event EXCEPT ![w] = "current"] /\ heard' = heard \ {w} /\ w \in worlds
    BY DEF Sends
  <1>2. event' \in [Worlds -> {"none", "current", "previous"}]
    BY <1>1 DEF LoopInv
  <1>3. \A v \in worlds : event'[v] = "previous" => v # w /\ event[v] = "previous"
    BY <1>1 DEF LoopInv
  <1> QED BY <1>1, <1>2, <1>3 DEF LoopInv, SystemsRan

\* FrameBegins: what the flush drops was heard.
LEMMA LoopFrameBegins == LoopInv /\ FrameBegins => LoopInv'
  <1> SUFFICES ASSUME LoopInv, FrameBegins PROVE LoopInv'
    OBVIOUS
  <1>1. CASE nested = "none"
    <2>1. outer = "begin" /\ outer' = "poll" /\ nested' = nested /\ UNCHANGED <<worlds, held>>
      BY <1>1 DEF FrameBegins, At, GoTo
    <2>2. lost' = lost \cup {w \in worlds : event[w] = "previous" /\ w \notin heard}
      BY <1>1 DEF FrameBegins, Flushes
    <2>3. event' = [w \in Worlds |-> Flushed(event[w])]
      BY <1>1 DEF FrameBegins, Flushes
    <2>4. event' \in [Worlds -> {"none", "current", "previous"}]
      BY <2>3 DEF Flushed
    <2>5. lost' = {}
      BY <2>1, <2>2 DEF LoopInv, SystemsRan
    <2> QED BY <1>1, <2>1, <2>4, <2>5 DEF LoopInv, SystemsRan, Stages, NestedStages
  <1>2. CASE nested # "none"
    <2>1. nested' = "simulate" /\ outer' = outer /\ UNCHANGED <<event, heard, lost, worlds, held>>
      BY <1>2 DEF FrameBegins, Flushes, GoTo
    <2> QED BY <1>2, <2>1 DEF LoopInv, SystemsRan, NestedStages
  <1> QED BY <1>1, <1>2

\* PollHandles: a frame nests in the poll with the world whose window it handles.
LEMMA LoopPollHandles == LoopInv /\ PollHandles => LoopInv'
  <1> SUFFICES ASSUME LoopInv, PollHandles PROVE LoopInv'
    OBVIOUS
  <1>1. outer = "poll" /\ nested = "none" /\ UNCHANGED <<outer, worlds, lost>>
    BY DEF PollHandles
  <1>2. CASE (\E w \in Worlds : Sends(w)) /\ UNCHANGED <<nested, held>>
    BY <1>1, <1>2, Sending DEF LoopInv
  <1>3. CASE UNCHANGED <<event, heard, nested, held>>
    BY <1>1, <1>3 DEF LoopInv, SystemsRan
  <1>4. CASE (\E w \in worlds : held' = w) /\ nested' = "begin" /\ UNCHANGED <<event, heard>>
    BY <1>1, <1>4 DEF LoopInv, SystemsRan, NestedStages
  <1> QED BY <1>2, <1>3, <1>4 DEF PollHandles

\* Calling: whose event is there when the systems begin, runs them all with it.
LEMMA LoopCalling == LoopInv /\ Calling => LoopInv'
  <1> SUFFICES ASSUME LoopInv, Calling PROVE LoopInv'
    OBVIOUS
  <1>1. UNCHANGED <<nested, worlds, held, event, lost>> /\ outer = "calls" /\ nested = "none"
    BY DEF Calling
  <1>2. CASE UNCHANGED <<outer, heard>>
    BY <1>1, <1>2 DEF LoopInv, SystemsRan
  <1>3. CASE outer' = "simulate" /\ heard' = {w \in worlds : event[w] # "none"}
    BY <1>1, <1>3 DEF LoopInv, SystemsRan, Stages
  <1> QED BY <1>2, <1>3 DEF Calling

\* Simulates: systems send, and the frame goes on to draw.
LEMMA LoopSimulates == LoopInv /\ Simulates => LoopInv'
  <1> SUFFICES ASSUME LoopInv, Simulates PROVE LoopInv'
    OBVIOUS
  <1>1. UNCHANGED <<worlds, held, lost>> /\ At("simulate")
    BY DEF Simulates
  <1>2. CASE (\E w \in Worlds : Sends(w)) /\ UNCHANGED <<outer, nested>>
    BY <1>1, <1>2, Sending DEF LoopInv
  <1>3. CASE GoTo("draw") /\ UNCHANGED <<event, heard>>
    BY <1>1, <1>3 DEF LoopInv, SystemsRan, Stages, NestedStages, At, GoTo
  <1> QED BY <1>2, <1>3 DEF Simulates

\* FrameEnds: worlds come and go with no frame nested, so no window of theirs is handled.
LEMMA LoopFrameEnds == LoopInv /\ FrameEnds => LoopInv'
  <1> SUFFICES ASSUME LoopInv, FrameEnds PROVE LoopInv'
    OBVIOUS
  <1>1. outer = "end" /\ nested = "none" /\ UNCHANGED <<nested, held, lost>>
    BY DEF FrameEnds
  <1>2. worlds' \subseteq Worlds /\ heard' = heard \cap worlds'
    BY DEF FrameEnds
  <1>3. event' = [w \in Worlds |-> IF w \in worlds \cap worlds' THEN event[w] ELSE "none"]
    BY DEF FrameEnds
  <1>4. outer' \in {"begin", "stopping"}
    BY DEF FrameEnds
  <1>5. event' \in [Worlds -> {"none", "current", "previous"}]
    BY <1>3 DEF LoopInv
  <1>6. \A w \in worlds' : event'[w] = "previous" => w \in heard'
    BY <1>1, <1>2, <1>3 DEF LoopInv, SystemsRan
  <1> QED BY <1>1, <1>2, <1>4, <1>5, <1>6 DEF LoopInv, Stages

\* Every other step of the frame goes from a stage to the next.
LEMMA LoopPasses ==
  ASSUME LoopInv, PollReturns \/ Paints \/ DrainBegins \/ Dispatches \/ DrainReturns \/ Ends \/ UNCHANGED loopVars
  PROVE  LoopInv'
  <1>1. CASE PollReturns
    BY <1>1 DEF PollReturns, LoopInv, SystemsRan, Stages
  <1>2. CASE Paints
    BY <1>2 DEF Paints, LoopInv, SystemsRan, Stages, NestedStages, At, GoTo
  <1>3. CASE DrainBegins
    BY <1>3 DEF DrainBegins, LoopInv, SystemsRan, Stages, NestedStages, At, GoTo
  <1>4. CASE Dispatches \/ UNCHANGED loopVars
    BY <1>4 DEF Dispatches, loopVars, LoopInv, SystemsRan
  <1>5. CASE DrainReturns
    BY <1>5 DEF DrainReturns, LoopInv, SystemsRan, Stages, NestedStages, At
  <1>6. CASE Ends
    BY <1>6 DEF Ends, LoopInv, SystemsRan, Stages
  <1> QED BY <1>1, <1>2, <1>3, <1>4, <1>5, <1>6

\* Every step keeps the frame's invariant.
LEMMA LoopKept == LoopInv /\ [Next]_vars => LoopInv'
  <1> SUFFICES ASSUME LoopInv, [Next]_vars PROVE LoopInv'
    OBVIOUS
  <1>1. CASE FrameBegins \/ Calling \/ Simulates \/ FrameEnds \/ PollHandles
    BY <1>1, LoopFrameBegins, LoopCalling, LoopSimulates, LoopFrameEnds, LoopPollHandles
  <1>2. CASE PollReturns \/ Paints \/ DrainBegins \/ Dispatches \/ DrainReturns \/ Ends
    BY <1>2, LoopPasses
  <1>3. CASE UNCHANGED loopVars
    BY <1>3, LoopPasses
  <1>4. UsesCalls \/ UNCHANGED vars => UNCHANGED loopVars
    BY DEF UsesCalls, vars
  <1> QED BY <1>1, <1>2, <1>3, <1>4 DEF Next, Loop

\* A frame nested in the poll takes nothing from the frame around it: neither the world whose window is
\* handled nor an event that has not been heard (NestingIsSafe).
THEOREM NothingIsTaken == Spec => []NestingIsSafe
  <1>1. LoopInv => NestingIsSafe
    BY DEF LoopInv, NestingIsSafe
  <1> QED BY <1>1, LoopBegins, LoopKept, PTL DEF Spec

--------------------------------------------------------------------------------
(* Process calls, one step at a time.                                           *)

Status == [c \in Calls |-> StatusOf(c)]

\* What its holder sees of a call.
Seen(k) ==
  CASE k.holder = "none" -> "none"
    [] k.holder = "held" /\ k.result # NoResult -> IF k.taken THEN "taken" ELSE "resolved"
    [] k.holder = "held" /\ k.result = NoResult /\ ~k.cancelled -> "pending"
    [] OTHER -> "cancelled"

\* The status of a call is what is seen of it.
LEMMA StatusIsSeen == Status = [c \in Calls |-> Seen(call[c])]
  BY DEF Status, StatusOf, Seen

\* A step of one call c, to k with the child h, keeps what is known of all calls, and only c is seen to move.
LEMMA OneCall ==
  ASSUME CallsOK, NEW c \in Calls, NEW k, NEW h, CallOK(k, h),
         call' = [call EXCEPT ![c] = k], child' = [child EXCEPT ![c] = h]
  PROVE  CallsOK' /\ Status' = [Status EXCEPT ![c] = Seen(k)]
  <1>1. k \in CallRecords /\ h \in ChildRecords
    BY DEF CallOK
  <1>2. call' \in [Calls -> CallRecords] /\ child' \in [Calls -> ChildRecords]
    BY <1>1 DEF CallsOK
  <1>3. \A d \in Calls : CallOK(call'[d], child'[d])
    <2> SUFFICES ASSUME NEW d \in Calls PROVE CallOK(call'[d], child'[d])
      OBVIOUS
    <2>1. CASE d = c
      <3>1. call'[d] = k /\ child'[d] = h
        BY <2>1 DEF CallsOK
      <3> QED BY <3>1
    <2>2. CASE d # c
      <3>1. call'[d] = call[d] /\ child'[d] = child[d]
        BY <2>2 DEF CallsOK
      <3> QED BY <3>1 DEF CallsOK
    <2> QED BY <2>1, <2>2
  <1>4. Status' = [d \in Calls |-> Seen(call'[d])]
    BY StatusIsSeen DEF Status, StatusOf, Seen
  <1>5. Status' = [Status EXCEPT ![c] = Seen(k)]
    <2>1. \A d \in Calls : Seen(call'[d]) = IF d = c THEN Seen(k) ELSE Seen(call[d])
      BY DEF CallsOK
    <2> HIDE DEF Seen
    <2> QED BY <1>4, <2>1, StatusIsSeen
  <1> QED BY <1>2, <1>3, <1>5 DEF CallsOK

\* One call that is seen to move keeps the contract.
LEMMA Moved ==
  ASSUME NEW c \in Calls, NEW from, NEW to, Status[c] = from, Status' = [Status EXCEPT ![c] = to]
  PROVE  Contract!Move({c}, from, to)
  <1>1. \A d \in {c} : Status[d] = from
    OBVIOUS
  <1>2. Status' = [d \in Calls |-> IF d \in {c} THEN to ELSE Status[d]]
    BY DEF Status
  <1> QED BY <1>1, <1>2 DEF Contract!Move, Status

\* A move that the contract allows, or none, and no line for a call that was cancelled.
Keeps == Contract!Next \/ Status' = Status
Quiet == \A c \in Calls : call[c].cancelled => call'[c].output = call[c].output

\* The moves of one call that the contract has.
LEMMA MovesKeep ==
  ASSUME NEW c \in Calls,
         \/ Contract!Move({c}, "none", "pending") \/ Contract!Move({c}, "resolved", "taken")
         \/ Contract!Move({c}, "pending", "cancelled") \/ Contract!Move({c}, "pending", "resolved")
  PROVE  Keeps
  <1>1. CASE Contract!Move({c}, "pending", "resolved")
    BY <1>1 DEF Keeps, Contract!Next, Contract!Resolve
  <1> QED BY <1>1 DEF Keeps, Contract!Next, Contract!Sent, Contract!Take, Contract!Cancel

\* What a step of a call k must show: what is seen of it may follow, and nothing is printed to it after a cancel.
MayBecome(k, l) ==
  /\ \/ Seen(l) = Seen(k)
     \/ Seen(k) = "none" /\ Seen(l) = "pending"
     \/ Seen(k) = "resolved" /\ Seen(l) = "taken"
     \/ Seen(k) = "pending" /\ Seen(l) \in {"cancelled", "resolved"}
  /\ k.cancelled => l.output = k.output

LEMMA OneMoves ==
  ASSUME CallsOK, NEW c \in Calls, NEW k, NEW h, CallOK(k, h), MayBecome(call[c], k),
         call' = [call EXCEPT ![c] = k], child' = [child EXCEPT ![c] = h]
  PROVE  CallsOK' /\ Keeps /\ Quiet
  <1>1. CallsOK' /\ Status' = [Status EXCEPT ![c] = Seen(k)]
    BY OneCall
  <1>2. Status[c] = Seen(call[c])
    BY StatusIsSeen
  <1>5. Quiet
    BY DEF Quiet, CallsOK, MayBecome
  <1>3. CASE Seen(k) = Seen(call[c])
    <2>1. Status' = [Status EXCEPT ![c] = Status[c]]
      BY <1>1, <1>2, <1>3
    <2>2. Status' = Status
      BY <2>1 DEF Status
    <2> QED BY <1>1, <1>5, <2>2 DEF Keeps
  <1>4. CASE Seen(k) # Seen(call[c])
    <2>1. Contract!Move({c}, Seen(call[c]), Seen(k))
      BY <1>1, <1>2, Moved
    <2>3. \/ Contract!Move({c}, "none", "pending") \/ Contract!Move({c}, "resolved", "taken")
          \/ Contract!Move({c}, "pending", "cancelled") \/ Contract!Move({c}, "pending", "resolved")
      BY <1>4, <2>1 DEF MayBecome
    <2> QED BY <1>1, <1>5, <2>3, MovesKeep
  <1> QED BY <1>1, <1>3, <1>4, <1>5

\* Seen, field by field.
LEMMA SeenIs ==
  ASSUME NEW k \in CallRecords
  PROVE  /\ k.holder = "none" => Seen(k) = "none"
         /\ k.holder = "gone" => Seen(k) = "cancelled"
         /\ k.holder = "held" /\ k.result # NoResult /\ k.taken => Seen(k) = "taken"
         /\ k.holder = "held" /\ k.result # NoResult /\ ~k.taken => Seen(k) = "resolved"
         /\ k.holder = "held" /\ k.result = NoResult /\ ~k.cancelled => Seen(k) = "pending"
         /\ k.holder = "held" /\ k.result = NoResult /\ k.cancelled => Seen(k) = "cancelled"
  BY DEF Seen, CallRecords, NoResult

\* cancel: only what is pending.
LEMMA CancelStep ==
  ASSUME CallsOK, PollOK, NEW c \in Calls, Cancel(c)
  PROVE  CallsOK' /\ PollOK' /\ Keeps /\ Quiet
  <1>1. CallOK(call[c], child[c]) /\ call[c] \in CallRecords /\ child[c] \in ChildRecords
    BY DEF CallsOK, CallOK
  <1>2. PICK k : k = [call[c] EXCEPT !.holder = "gone", !.cancelled = TRUE]
    OBVIOUS
  <1>3. PICK h : h = child[c]
    OBVIOUS
  <1>4. call' = [call EXCEPT ![c] = k] /\ child' = [child EXCEPT ![c] = h]
    BY <1>2, <1>3 DEF Cancel, CallsOK
  <1>5. k \in CallRecords /\ h \in ChildRecords
    BY <1>1, <1>2, <1>3 DEF Cancel, CallRecords, ChildRecords
  <1>6. CallOK(k, h)
    BY <1>1, <1>2, <1>3, <1>5 DEF Cancel, CallOK, Unused, CallRecords, ChildRecords, NoResult
  <1>7. MayBecome(call[c], k)
    BY <1>1, <1>2, <1>5, <1>6, SeenIs DEF Cancel, MayBecome, CallOK, Unused, CallRecords, NoResult
  <1>8. PollOK'
    BY <1>1, <1>2, <1>4, <1>5 DEF Cancel, PollOK, CallsOK, CallRecords
  <1> QED BY <1>4, <1>6, <1>7, <1>8, OneMoves

\* take: only a result, once.
LEMMA TakeStep ==
  ASSUME CallsOK, PollOK, NEW c \in Calls, Take(c)
  PROVE  CallsOK' /\ PollOK' /\ Keeps /\ Quiet
  <1>1. CallOK(call[c], child[c]) /\ call[c] \in CallRecords /\ child[c] \in ChildRecords
    BY DEF CallsOK, CallOK
  <1>2. PICK k : k = [call[c] EXCEPT !.taken = TRUE]
    OBVIOUS
  <1>3. PICK h : h = child[c]
    OBVIOUS
  <1>4. call' = [call EXCEPT ![c] = k] /\ child' = [child EXCEPT ![c] = h]
    BY <1>2, <1>3 DEF Take, CallsOK
  <1>5. k \in CallRecords /\ h \in ChildRecords
    BY <1>1, <1>2, <1>3 DEF Take, CallRecords, ChildRecords
  <1>6. CallOK(k, h)
    BY <1>1, <1>2, <1>3, <1>5 DEF Take, CallOK, Unused, CallRecords, ChildRecords, NoResult
  <1>7. MayBecome(call[c], k)
    BY <1>1, <1>2, <1>5, <1>6, SeenIs DEF Take, MayBecome, CallOK, Unused, CallRecords, NoResult
  <1>8. PollOK'
    BY <1>1, <1>2, <1>4, <1>5 DEF Take, PollOK, CallsOK, CallRecords
  <1> QED BY <1>4, <1>6, <1>7, <1>8, OneMoves

\* A line goes into the pipe.
LEMMA PrintsStep ==
  ASSUME CallsOK, PollOK, NEW c \in Calls, Prints(c)
  PROVE  CallsOK' /\ PollOK' /\ Keeps /\ Quiet
  <1>1. CallOK(call[c], child[c]) /\ call[c] \in CallRecords /\ child[c] \in ChildRecords
    BY DEF CallsOK, CallOK
  <1>2. PICK k : k = call[c]
    OBVIOUS
  <1>3. PICK h : h = [child[c] EXCEPT !.wrote = @ + 1, !.unread = @ + 1]
    OBVIOUS
  <1>4. call' = [call EXCEPT ![c] = k] /\ child' = [child EXCEPT ![c] = h]
    BY <1>2, <1>3 DEF Prints, CallsOK
  <1>5. k \in CallRecords /\ h \in ChildRecords
    <2>1. child[c].wrote + 1 \in Nat /\ child[c].unread + 1 \in Nat
      BY <1>1 DEF ChildRecords
    <2> QED BY <1>1, <1>2, <1>3, <2>1 DEF ChildRecords
  <1>6. CallOK(k, h)
    BY <1>1, <1>2, <1>3, <1>5 DEF Prints, CallOK, Unused, CallRecords, ChildRecords, NoResult
  <1>7. MayBecome(call[c], k)
    BY <1>1, <1>2, <1>5, <1>6, SeenIs DEF Prints, MayBecome, CallOK, Unused, CallRecords, NoResult
  <1>8. PollOK'
    BY <1>1, <1>2, <1>4, <1>5 DEF Prints, PollOK, CallsOK, CallRecords
  <1> QED BY <1>4, <1>6, <1>7, <1>8, OneMoves

\* Who closes the pipe prints no more.
LEMMA ClosesStep ==
  ASSUME CallsOK, PollOK, NEW c \in Calls, Closes(c)
  PROVE  CallsOK' /\ PollOK' /\ Keeps /\ Quiet
  <1>1. CallOK(call[c], child[c]) /\ call[c] \in CallRecords /\ child[c] \in ChildRecords
    BY DEF CallsOK, CallOK
  <1>2. PICK k : k = call[c]
    OBVIOUS
  <1>3. PICK h : h = child'[c]
    OBVIOUS
  <1>4. call' = [call EXCEPT ![c] = k] /\ child' = [child EXCEPT ![c] = h]
    BY <1>2, <1>3 DEF Closes, CallsOK
  <1>5. k \in CallRecords /\ h \in ChildRecords
    BY <1>1, <1>2, <1>3 DEF Closes, CallRecords, ChildRecords
  <1>6. CallOK(k, h)
    BY <1>1, <1>2, <1>3, <1>5 DEF Closes, CallOK, Unused, CallRecords, ChildRecords, NoResult
  <1>7. MayBecome(call[c], k)
    BY <1>1, <1>2, <1>5, <1>6, SeenIs DEF Closes, MayBecome, CallOK, Unused, CallRecords, NoResult
  <1>8. PollOK'
    BY <1>1, <1>2, <1>4, <1>5 DEF Closes, PollOK, CallsOK, CallRecords
  <1> QED BY <1>4, <1>6, <1>7, <1>8, OneMoves

\* Only who holds the pipe gives it to another.
LEMMA ForksStep ==
  ASSUME CallsOK, PollOK, NEW c \in Calls, Forks(c)
  PROVE  CallsOK' /\ PollOK' /\ Keeps /\ Quiet
  <1>1. CallOK(call[c], child[c]) /\ call[c] \in CallRecords /\ child[c] \in ChildRecords
    BY DEF CallsOK, CallOK
  <1>2. PICK k : k = call[c]
    OBVIOUS
  <1>3. PICK h : h = child'[c]
    OBVIOUS
  <1>4. call' = [call EXCEPT ![c] = k] /\ child' = [child EXCEPT ![c] = h]
    BY <1>2, <1>3 DEF Forks, CallsOK
  <1>5. k \in CallRecords /\ h \in ChildRecords
    BY <1>1, <1>2, <1>3 DEF Forks, CallRecords, ChildRecords
  <1>6. CallOK(k, h)
    BY <1>1, <1>2, <1>3, <1>5 DEF Forks, CallOK, Unused, CallRecords, ChildRecords, NoResult
  <1>7. MayBecome(call[c], k)
    BY <1>1, <1>2, <1>5, <1>6, SeenIs DEF Forks, MayBecome, CallOK, Unused, CallRecords, NoResult
  <1>8. PollOK'
    BY <1>1, <1>2, <1>4, <1>5 DEF Forks, PollOK, CallsOK, CallRecords
  <1> QED BY <1>4, <1>6, <1>7, <1>8, OneMoves

\* The program ends.
LEMMA ExitsStep ==
  ASSUME CallsOK, PollOK, NEW c \in Calls, Exits(c)
  PROVE  CallsOK' /\ PollOK' /\ Keeps /\ Quiet
  <1>1. CallOK(call[c], child[c]) /\ call[c] \in CallRecords /\ child[c] \in ChildRecords
    BY DEF CallsOK, CallOK
  <1>2. PICK k : k = call[c]
    OBVIOUS
  <1>3. PICK h : h = [child[c] EXCEPT !.pipe = @ \ {"program"}, !.program = "exited"]
    OBVIOUS
  <1>4. call' = [call EXCEPT ![c] = k] /\ child' = [child EXCEPT ![c] = h]
    BY <1>2, <1>3 DEF Exits, CallsOK
  <1>5. k \in CallRecords /\ h \in ChildRecords
    BY <1>1, <1>2, <1>3 DEF Exits, CallRecords, ChildRecords
  <1>6. CallOK(k, h)
    BY <1>1, <1>2, <1>3, <1>5 DEF Exits, CallOK, Unused, CallRecords, ChildRecords, NoResult
  <1>7. MayBecome(call[c], k)
    BY <1>1, <1>2, <1>5, <1>6, SeenIs DEF Exits, MayBecome, CallOK, Unused, CallRecords, NoResult
  <1>8. PollOK'
    BY <1>1, <1>2, <1>4, <1>5 DEF Exits, PollOK, CallsOK, CallRecords
  <1> QED BY <1>4, <1>6, <1>7, <1>8, OneMoves

\* The group is killed.
LEMMA DiesStep ==
  ASSUME CallsOK, PollOK, NEW c \in Calls, Dies(c)
  PROVE  CallsOK' /\ PollOK' /\ Keeps /\ Quiet
  <1>1. CallOK(call[c], child[c]) /\ call[c] \in CallRecords /\ child[c] \in ChildRecords
    BY DEF CallsOK, CallOK
  <1>2. PICK k : k = call[c]
    OBVIOUS
  <1>3. PICK h : h = [child[c] EXCEPT !.pipe = @ \ {"program", "group"}, !.program = "exited"]
    OBVIOUS
  <1>4. call' = [call EXCEPT ![c] = k] /\ child' = [child EXCEPT ![c] = h]
    BY <1>2, <1>3 DEF Dies, CallsOK
  <1>5. k \in CallRecords /\ h \in ChildRecords
    BY <1>1, <1>2, <1>3 DEF Dies, CallRecords, ChildRecords
  <1>6. CallOK(k, h)
    BY <1>1, <1>2, <1>3, <1>5 DEF Dies, CallOK, Unused, CallRecords, ChildRecords, NoResult
  <1>7. MayBecome(call[c], k)
    BY <1>1, <1>2, <1>5, <1>6, SeenIs DEF Dies, MayBecome, CallOK, Unused, CallRecords, NoResult
  <1>8. PollOK'
    BY <1>1, <1>2, <1>4, <1>5 DEF Dies, PollOK, CallsOK, CallRecords
  <1> QED BY <1>4, <1>6, <1>7, <1>8, OneMoves

\* The reader moves lines from the pipe to the queue.
LEMMA PushStep ==
  ASSUME CallsOK, PollOK, NEW c \in Calls, PushLines(c)
  PROVE  CallsOK' /\ PollOK' /\ Keeps /\ Quiet
  <1>1. CallOK(call[c], child[c]) /\ call[c] \in CallRecords /\ child[c] \in ChildRecords
    BY DEF CallsOK, CallOK
  <1>2. PICK k : k = [call[c] EXCEPT !.incoming = @ + child[c].unread]
    OBVIOUS
  <1>3. PICK h : h = [child[c] EXCEPT !.unread = 0]
    OBVIOUS
  <1>4. call' = [call EXCEPT ![c] = k] /\ child' = [child EXCEPT ![c] = h]
    BY <1>2, <1>3 DEF PushLines, CallsOK
  <1>5. k \in CallRecords /\ h \in ChildRecords
    BY <1>1, <1>2, <1>3 DEF PushLines, CallRecords, ChildRecords
  <1>6. CallOK(k, h)
    BY <1>1, <1>2, <1>3, <1>5 DEF PushLines, CallOK, Unused, CallRecords, ChildRecords, NoResult
  <1>7. MayBecome(call[c], k)
    BY <1>1, <1>2, <1>5, <1>6, SeenIs DEF PushLines, MayBecome, CallOK, Unused, CallRecords, NoResult
  <1>8. PollOK'
    BY <1>1, <1>2, <1>4, <1>5 DEF PushLines, PollOK, CallsOK, CallRecords
  <1> QED BY <1>4, <1>6, <1>7, <1>8, OneMoves

\* The reader closes once nobody holds the pipe and it is empty.
LEMMA CloseStep ==
  ASSUME CallsOK, PollOK, NEW c \in Calls, CloseOutput(c)
  PROVE  CallsOK' /\ PollOK' /\ Keeps /\ Quiet
  <1>1. CallOK(call[c], child[c]) /\ call[c] \in CallRecords /\ child[c] \in ChildRecords
    BY DEF CallsOK, CallOK
  <1>2. PICK k : k = [call[c] EXCEPT !.closed = TRUE]
    OBVIOUS
  <1>3. PICK h : h = child[c]
    OBVIOUS
  <1>4. call' = [call EXCEPT ![c] = k] /\ child' = [child EXCEPT ![c] = h]
    BY <1>2, <1>3 DEF CloseOutput, CallsOK
  <1>5. k \in CallRecords /\ h \in ChildRecords
    BY <1>1, <1>2, <1>3 DEF CloseOutput, CallRecords, ChildRecords
  <1>6. CallOK(k, h)
    BY <1>1, <1>2, <1>3, <1>5 DEF CloseOutput, CallOK, Unused, CallRecords, ChildRecords, NoResult
  <1>7. MayBecome(call[c], k)
    BY <1>1, <1>2, <1>5, <1>6, SeenIs DEF CloseOutput, MayBecome, CallOK, Unused, CallRecords, NoResult
  <1>8. PollOK'
    BY <1>1, <1>2, <1>4, <1>5 DEF CloseOutput, PollOK, CallsOK, CallRecords
  <1> QED BY <1>4, <1>6, <1>7, <1>8, OneMoves

\* poll, at a child: the exit is noted and the group ended.
LEMMA ExitStep ==
  ASSUME CallsOK, PollOK, NEW c \in Calls, PollExit(c)
  PROVE  CallsOK' /\ PollOK' /\ Keeps /\ Quiet
  <1>1. CallOK(call[c], child[c]) /\ call[c] \in CallRecords /\ child[c] \in ChildRecords
    BY DEF CallsOK, CallOK
  <1>2. PICK k : k = [call[c] EXCEPT !.exit = @ \/ (~call[c].cancelled /\ child[c].program = "exited")]
    OBVIOUS
  <1>3. PICK h : h = [child[c] EXCEPT !.killed = @ \/ call[c].cancelled \/ child[c].program = "exited"]
    OBVIOUS
  <1>4. call' = [call EXCEPT ![c] = k] /\ child' = [child EXCEPT ![c] = h]
    BY <1>2, <1>3 DEF PollExit, CallsOK
  <1>5. k \in CallRecords /\ h \in ChildRecords
    BY <1>1, <1>2, <1>3 DEF PollExit, CallRecords, ChildRecords
  <1>6. CallOK(k, h)
    BY <1>1, <1>2, <1>3, <1>5 DEF PollExit, CallOK, Unused, CallRecords, ChildRecords, NoResult
  <1>7. MayBecome(call[c], k)
    BY <1>1, <1>2, <1>5, <1>6, SeenIs DEF PollExit, MayBecome, CallOK, Unused, CallRecords, NoResult
  <1>8. PollOK'
    BY <1>1, <1>2, <1>4, <1>5 DEF PollExit, PollOK, CallsOK, CallRecords
  <1> QED BY <1>4, <1>6, <1>7, <1>8, OneMoves

\* poll, at a child: its lines, and the result once nothing can follow.
LEMMA DeliverStep ==
  ASSUME CallsOK, PollOK, NEW c \in Calls, Deliver(c)
  PROVE  CallsOK' /\ PollOK' /\ Keeps /\ Quiet
  <1>1. CallOK(call[c], child[c]) /\ call[c] \in CallRecords /\ child[c] \in ChildRecords
    BY DEF CallsOK, CallOK
  <1>2. PICK k : k = [call[c] EXCEPT
       !.incoming = 0,
       !.output = IF call[c].cancelled THEN @ ELSE @ + call[c].incoming,
       !.list = IF Whole(c) THEN "none" ELSE @,
       !.result = IF Whole(c) /\ ~call[c].cancelled THEN "exit" ELSE @]
    OBVIOUS
  <1>3. PICK h : h = child[c]
    OBVIOUS
  <1>4. call' = [call EXCEPT ![c] = k] /\ child' = [child EXCEPT ![c] = h]
    BY <1>2, <1>3 DEF Deliver, CallsOK
  <1>5. k \in CallRecords /\ h \in ChildRecords
    <2>1. call[c].output + call[c].incoming \in Nat
      BY <1>1 DEF CallRecords
    <2>2. (IF call[c].cancelled THEN call[c].output ELSE call[c].output + call[c].incoming) \in Nat
      BY <1>1, <2>1 DEF CallRecords
    <2>3. (IF Whole(c) /\ ~call[c].cancelled THEN "exit" ELSE call[c].result) \in {"none", "error", "exit"}
      BY <1>1 DEF CallRecords
    <2>4. (IF Whole(c) THEN "none" ELSE call[c].list) \in {"none", "running", "failed"}
      BY <1>1 DEF CallRecords
    <2> QED BY <1>1, <1>2, <1>3, <2>2, <2>3, <2>4 DEF CallRecords
  <1>6. CallOK(k, h)
    BY <1>1, <1>2, <1>3, <1>5 DEF Deliver, CallOK, Unused, CallRecords, ChildRecords, NoResult, Whole
  <1>7. MayBecome(call[c], k)
    <2>1. call[c].list = "running" /\ call[c].result = NoResult
      BY <1>1 DEF Deliver, PollOK, CallOK
    <2>2. call[c].holder # "none" /\ call[c].holder \in {"none", "held", "gone"}
      BY <1>1, <2>1 DEF CallOK, Unused, CallRecords
    <2>3. k.holder = call[c].holder /\ k.cancelled = call[c].cancelled /\ k.taken = call[c].taken /\ ~call[c].taken
      BY <1>1, <1>2, <2>1 DEF CallOK, CallRecords
    <2>4. call[c].cancelled => k.output = call[c].output /\ k.result = call[c].result
      BY <1>1, <1>2 DEF CallRecords
    <2>5. k.result \in {NoResult, "exit"}
      BY <1>1, <1>2, <2>1 DEF CallRecords
    <2>6. Seen(k) = Seen(call[c]) \/ (Seen(call[c]) = "pending" /\ Seen(k) = "resolved")
      <3> HIDE DEF Seen
      <3>1. CASE call[c].holder = "gone"
        BY <1>1, <1>5, <2>3, <3>1, SeenIs
      <3>2. CASE call[c].holder = "held" /\ call[c].cancelled
        BY <1>1, <1>5, <2>1, <2>3, <2>4, <3>2, SeenIs
      <3>3. CASE call[c].holder = "held" /\ ~call[c].cancelled
        BY <1>1, <1>5, <2>1, <2>3, <3>3, SeenIs
      <3> QED BY <2>2, <3>1, <3>2, <3>3
    <2> HIDE DEF Seen
    <2> QED BY <2>4, <2>6 DEF MayBecome
  <1>8. PollOK'
    BY <1>1, <1>2, <1>4, <1>5, ProcessAssumption DEF Deliver, PollOK, CallsOK, CallRecords
  <1> QED BY <1>4, <1>6, <1>7, <1>8, OneMoves

\* dispose: a call that has its result stays as it is.
LEMMA DisposeStep ==
  ASSUME CallsOK, PollOK, NEW c \in Calls, DisposeEnds(c)
  PROVE  CallsOK' /\ PollOK' /\ Keeps /\ Quiet
  <1>1. CallOK(call[c], child[c]) /\ call[c] \in CallRecords /\ child[c] \in ChildRecords
    BY DEF CallsOK, CallOK
  <1>2. PICK k : k = [call[c] EXCEPT !.cancelled = TRUE, !.list = IF @ = "failed" THEN "none" ELSE @]
    OBVIOUS
  <1>3. PICK h : h = [child[c] EXCEPT !.killed = @ \/ call[c].list = "running"]
    OBVIOUS
  <1>4. call' = [call EXCEPT ![c] = k] /\ child' = [child EXCEPT ![c] = h]
    BY <1>2, <1>3 DEF DisposeEnds, CallsOK
  <1>5. k \in CallRecords /\ h \in ChildRecords
    BY <1>1, <1>2, <1>3 DEF DisposeEnds, CallRecords, ChildRecords, Endable
  <1>6. CallOK(k, h)
    BY <1>1, <1>2, <1>3, <1>5 DEF DisposeEnds, CallOK, Unused, CallRecords, ChildRecords, NoResult, Endable
  <1>7. MayBecome(call[c], k)
    BY ZenonT(40), <1>1, <1>2, <1>5, <1>6, SeenIs DEF DisposeEnds, MayBecome, CallOK, Unused, CallRecords, NoResult, Endable
  <1>8. PollOK'
    BY <1>1, <1>2, <1>4, <1>5 DEF DisposeEnds, PollOK, CallsOK, CallRecords, Endable
  <1> QED BY <1>4, <1>6, <1>7, <1>8, OneMoves

\* run: a child, or a call that the next poll fails.
LEMMA RunStep ==
  ASSUME CallsOK, PollOK, NEW c \in Calls, Run(c)
  PROVE  CallsOK' /\ PollOK' /\ Keeps /\ Quiet
  <1>1. CallOK(call[c], child[c]) /\ call[c] \in CallRecords /\ child[c] \in ChildRecords
    BY DEF CallsOK, CallOK
  <1>2. call[c].holder = "none" /\ Unused(call[c]) /\ UNCHANGED <<polling, visited>>
    BY <1>1 DEF Run, CallOK
  <1>3. ASSUME NEW list \in {"running", "failed"}, NEW h, h \in ChildRecords,
               h.wrote = child[c].wrote, h.unread = child[c].unread,
               call' = [call EXCEPT ![c].holder = "held", ![c].list = list],
               child' = [child EXCEPT ![c] = h]
        PROVE  CallsOK' /\ PollOK' /\ Keeps /\ Quiet
    <2>1. PICK k : k = [call[c] EXCEPT !.holder = "held", !.list = list]
      OBVIOUS
    <2>2. call' = [call EXCEPT ![c] = k]
      BY <1>3, <2>1 DEF CallsOK
    <2>3. k \in CallRecords
      BY <1>1, <2>1 DEF CallRecords
    <2>4. CallOK(k, h)
      BY <1>1, <1>2, <1>3, <2>1, <2>3 DEF CallOK, Unused, CallRecords
    <2>5. MayBecome(call[c], k)
      BY <1>1, <1>2, <2>1, <2>3, SeenIs DEF MayBecome, Unused, CallRecords
    <2>6. PollOK'
      BY <1>1, <1>2, <2>1, <2>2 DEF PollOK, CallsOK, Unused
    <2> QED BY <1>3, <2>2, <2>4, <2>5, <2>6, OneMoves
  <1>4. CASE /\ call' = [call EXCEPT ![c].holder = "held", ![c].list = "running"]
             /\ child' = [child EXCEPT ![c].program = "running", ![c].pipe = {"program"}]
    <2>1. PICK h : h = [child[c] EXCEPT !.program = "running", !.pipe = {"program"}]
      OBVIOUS
    <2>2. h \in ChildRecords /\ h.wrote = child[c].wrote /\ h.unread = child[c].unread
      BY <1>1, <2>1 DEF ChildRecords
    <2>3. child' = [child EXCEPT ![c] = h]
      BY <1>4, <2>1 DEF CallsOK
    <2> QED BY <1>3, <1>4, <2>2, <2>3
  <1>5. CASE /\ call' = [call EXCEPT ![c].holder = "held", ![c].list = "failed"]
             /\ UNCHANGED child
    <2>1. child' = [child EXCEPT ![c] = child[c]]
      BY <1>5 DEF CallsOK
    <2> QED BY <1>1, <1>3, <1>5, <2>1
  <1> QED BY <1>4, <1>5 DEF Run

\* The poll begins: every call that failed is seen to resolve together, unless it was cancelled.
LEMMA StartPollStep ==
  ASSUME CallsOK, Polled, StartPoll
  PROVE  CallsOK' /\ PollOK' /\ Keeps /\ Quiet
  <1> DEFINE S == {c \in Calls : call[c].list = "failed" /\ ~call[c].cancelled}
             New(c) == IF call[c].list # "failed" THEN call[c]
                       ELSE [call[c] EXCEPT !.list = "none",
                                            !.result = IF call[c].cancelled THEN NoResult ELSE "error"]
  <1>1. call' = [c \in Calls |-> New(c)] /\ child' = child /\ visited' = visited
        /\ polling' = {c \in Calls : call[c].list = "running"}
    BY DEF StartPoll
  <1>2. ASSUME NEW c \in Calls
        PROVE  /\ call'[c] \in CallRecords /\ CallOK(call'[c], child[c]) /\ call'[c].output = call[c].output
               /\ c \in S => Seen(call[c]) = "pending" /\ Seen(call'[c]) = "resolved"
               /\ c \notin S => Seen(call'[c]) = Seen(call[c])
               /\ call[c].list = "running" => call'[c].list = "running"
    <2>1. CallOK(call[c], child[c]) /\ call[c] \in CallRecords
      BY DEF CallsOK, CallOK
    <2>2. call'[c] = New(c)
      BY <1>1
    <2>3. CASE call[c].list # "failed"
      BY <2>1, <2>2, <2>3
    <2>4. CASE call[c].list = "failed"
      <3>1. PICK k : k = [call[c] EXCEPT !.list = "none", !.result = IF call[c].cancelled THEN NoResult ELSE "error"]
        OBVIOUS
      <3>2. call'[c] = k
        BY <2>2, <2>4, <3>1
      <3>3. (IF call[c].cancelled THEN NoResult ELSE "error") \in {"none", "error", "exit"}
        BY DEF NoResult
      <3>4. k \in CallRecords
        BY <2>1, <3>1, <3>3 DEF CallRecords
      <3>5. call[c].result = NoResult /\ call[c].holder # "none" /\ ~call[c].taken
        BY <2>1, <2>4 DEF CallOK, Unused, CallRecords
      <3>6. CallOK(k, child[c])
        BY <2>1, <3>1, <3>4, <3>5 DEF CallOK, CallRecords, NoResult
      <3>7. CASE call[c].cancelled
        <4>1. k.holder = call[c].holder /\ k.result = call[c].result /\ k.cancelled /\ k.holder \in {"held", "gone"}
          BY <2>1, <3>1, <3>5, <3>7 DEF CallRecords, NoResult
        <4>2. Seen(k) = "cancelled" /\ Seen(call[c]) = "cancelled"
          BY <2>1, <3>4, <3>5, <3>7, <4>1, SeenIs
        <4>3. k.output = call[c].output
          BY <2>1, <3>1 DEF CallRecords
        <4> HIDE DEF Seen
        <4> QED BY <2>4, <3>2, <3>4, <3>6, <3>7, <4>2, <4>3
      <3>8. CASE ~call[c].cancelled
        <4>1. k.holder = call[c].holder /\ k.result # NoResult /\ ~k.taken /\ k.holder = "held"
          BY <2>1, <3>1, <3>5, <3>8 DEF CallRecords, NoResult, CallOK
        <4>2. Seen(k) = "resolved" /\ Seen(call[c]) = "pending"
          BY <2>1, <3>4, <3>5, <3>8, <4>1, SeenIs
        <4>3. k.output = call[c].output
          BY <2>1, <3>1 DEF CallRecords
        <4> HIDE DEF Seen
        <4> QED BY <2>4, <3>2, <3>4, <3>6, <3>8, <4>2, <4>3
      <3> QED BY <3>7, <3>8
    <2> QED BY <2>3, <2>4
  <1> HIDE DEF New
  <1>3. CallsOK'
    BY <1>1, <1>2 DEF CallsOK
  <1>4. PollOK'
    BY <1>1, <1>2, ProcessAssumption DEF PollOK, Polled
  <1>5. Quiet
    BY <1>2 DEF Quiet
  <1>6. Contract!Move(S, "pending", "resolved")
    <2>1. \A c \in S : Status[c] = "pending"
      BY <1>2, StatusIsSeen
    <2>2. Status' = [c \in Calls |-> Seen(call'[c])]
      BY StatusIsSeen DEF Status, StatusOf, Seen
    <2>3. Status' = [c \in Calls |-> IF c \in S THEN "resolved" ELSE Status[c]]
      <3> HIDE DEF S
      <3>1. \A c \in Calls : Seen(call'[c]) = IF c \in S THEN "resolved" ELSE Status[c]
        BY <1>2, StatusIsSeen
      <3> QED BY <2>2, <3>1
    <2> QED BY <2>1, <2>3 DEF Contract!Move, Status
  <1>7. Contract!Next
    <2>1. S \in SUBSET Calls /\ Contract!Resolve(S)
      BY <1>6 DEF Contract!Resolve
    <2> QED BY <2>1 DEF Contract!Next
  <1> QED BY <1>3, <1>4, <1>5, <1>7 DEF Keeps

\* The readers are joined: nobody sees a call move.
LEMMA DisposeJoinsStep ==
  ASSUME CallsOK, Polled, DisposeJoins
  PROVE  CallsOK' /\ PollOK' /\ Keeps /\ Quiet
  <1>1. call' = [c \in Calls |-> [call[c] EXCEPT !.list = "none"]] /\ UNCHANGED <<child, polling, visited>>
    BY DEF DisposeJoins
  <1>2. ASSUME NEW c \in Calls
        PROVE  /\ call'[c] \in CallRecords /\ CallOK(call'[c], child[c]) /\ call'[c].output = call[c].output
               /\ Seen(call'[c]) = Seen(call[c])
    <2>1. CallOK(call[c], child[c]) /\ call[c] \in CallRecords
      BY DEF CallsOK, CallOK
    <2>2. PICK k : k = [call[c] EXCEPT !.list = "none"]
      OBVIOUS
    <2>3. call'[c] = k
      BY <1>1, <2>2
    <2>4. k \in CallRecords
      BY <2>1, <2>2 DEF CallRecords
    <2>5. CallOK(k, child[c])
      BY <2>1, <2>2, <2>4 DEF CallOK, CallRecords, Unused
    <2>6. Seen(k) = Seen(call[c]) /\ k.output = call[c].output
      BY <2>1, <2>2 DEF Seen, CallRecords
    <2> QED BY <2>3, <2>4, <2>5, <2>6
  <1>3. CallsOK'
    BY <1>1, <1>2 DEF CallsOK
  <1>4. PollOK'
    BY <1>1, ProcessAssumption DEF PollOK, Polled
  <1>5. Status' = Status
    <2>1. Status' = [c \in Calls |-> Seen(call'[c])]
      BY StatusIsSeen DEF Status, StatusOf, Seen
    <2> QED BY <1>2, <2>1, StatusIsSeen
  <1> QED BY <1>2, <1>3, <1>4, <1>5 DEF Keeps, Quiet

--------------------------------------------------------------------------------
(* Process calls, in the frame.                                                 *)

\* Init establishes the invariant of the calls.
LEMMA ProcBegins == Init => ProcInv /\ Contract!Init
  <1> SUFFICES ASSUME Init PROVE ProcInv /\ Contract!Init
    OBVIOUS
  <1>1. CallsOK
    BY DEF Init, ProcessInit, CallsOK, CallOK, CallRecords, ChildRecords, Unused, NoResult
  <1>2. PollOK /\ Polled
    BY ProcessAssumption DEF Init, ProcessInit, PollOK, Polled
  <1>3. Contract!Init
    BY DEF Init, ProcessInit, Contract!Init, StatusOf
  <1> QED BY <1>1, <1>2, <1>3 DEF ProcInv

\* A step elsewhere.
LEMMA ProcStays ==
  ASSUME CallsOK, PollOK, UNCHANGED processVars
  PROVE  CallsOK' /\ PollOK' /\ Keeps /\ Quiet
  BY DEF processVars, CallsOK, PollOK, Keeps, Quiet, Status, StatusOf

\* The holder's steps, the child's and its reader's leave the poll where it is.
LEMMA CallSteps ==
  ASSUME CallsOK, PollOK, NEW c \in Calls, GameStep(c) \/ WorldStep(c) \/ ReaderStep(c) \/ DisposeEnds(c)
  PROVE  CallsOK' /\ PollOK' /\ Keeps /\ Quiet /\ UNCHANGED <<polling, visited>>
  <1>1. UNCHANGED <<polling, visited>>
    BY DEF GameStep, WorldStep, ReaderStep, DisposeEnds, Run, Cancel, Take, Prints, Forks, Closes, Exits, Dies,
           PushLines, CloseOutput
  <1> QED BY <1>1, RunStep, CancelStep, TakeStep, PrintsStep, ForksStep, ClosesStep, ExitsStep, DiesStep, PushStep,
             CloseStep, DisposeStep DEF GameStep, WorldStep, ReaderStep

\* Every step of the frame.
LEMMA ProcKept ==
  ASSUME LoopInv, ProcInv, [Next]_vars
  PROVE  ProcInv' /\ Keeps /\ Quiet
  <1> USE DEF ProcInv
  <1>1. CASE UNCHANGED processVars /\ (outer = "calls" => outer' = outer \/ Polled)
    <2>1. CASE Polled
      <3>1. Polled'
        BY <1>1, <2>1 DEF Polled, processVars
      <3> QED BY <1>1, <3>1, ProcStays
    <2>2. CASE outer = "calls" /\ outer' = outer
      BY <1>1, <2>2, ProcStays
    <2> QED BY <1>1, <2>1, <2>2
  <1>2. ASSUME NEW c \in Calls, GameStep(c) \/ WorldStep(c) \/ ReaderStep(c) \/ DisposeEnds(c),
               outer' = outer
        PROVE  ProcInv' /\ Keeps /\ Quiet
    <2>1. CallsOK' /\ PollOK' /\ Keeps /\ Quiet /\ UNCHANGED <<polling, visited>>
      BY <1>2, CallSteps
    <2>2. Polled => Polled'
      BY <2>1 DEF Polled
    <2> QED BY <1>2, <2>1, <2>2
  <1>3. CASE UsesCalls
    <2>1. outer' = outer
      BY <1>3 DEF UsesCalls, loopVars
    <2>2. CASE \E c \in Calls : GameStep(c)
      BY <1>2, <2>1, <2>2
    <2> QED BY <1>1, <1>3, <2>1, <2>2 DEF UsesCalls
  <1>4. CASE PollReturns
    <2>1. outer = "poll" /\ outer' = "calls" /\ StartPoll
      BY <1>4 DEF PollReturns
    <2> QED BY <2>1, StartPollStep
  <1>5. CASE Calling
    <2>1. CASE PollStep /\ UNCHANGED outer
      <3>1. PICK c \in Calls : PollExit(c) \/ Deliver(c)
        BY <2>1 DEF PollStep
      <3>2. CallsOK' /\ PollOK' /\ Keeps /\ Quiet
        BY <3>1, ExitStep, DeliverStep
      <3>3. outer' = "calls"
        BY <1>5, <2>1 DEF Calling
      <3> QED BY <3>2, <3>3
    <2>2. CASE Polled /\ UNCHANGED processVars
      BY <1>1, <2>2
    <2> QED BY <1>5, <2>1, <2>2 DEF Calling
  <1>6. CASE Ends
    <2>1. outer # "calls" /\ outer' # "calls"
      BY <1>6 DEF Ends
    <2>2. CASE \E c \in Calls : outer = "disposing" /\ UNCHANGED outer /\ DisposeEnds(c)
      BY <1>2, <2>2
    <2>3. CASE DisposeJoins /\ outer = "waiting"
      <3>1. Polled
        BY <2>3
      <3>2. Polled'
        BY <2>3, <3>1 DEF Polled, DisposeJoins
      <3> QED BY <2>3, <3>1, <3>2, DisposeJoinsStep
    <2>4. CASE UNCHANGED processVars
      BY <1>1, <2>1, <2>4
    <2> QED BY <1>6, <2>2, <2>3, <2>4 DEF Ends
  <1>7. CASE FrameBegins \/ Simulates \/ Paints \/ DrainBegins \/ Dispatches \/ DrainReturns \/ FrameEnds \/ PollHandles
    <2>1. UNCHANGED processVars
      BY <1>7 DEF FrameBegins, Simulates, Paints, DrainBegins, Dispatches, DrainReturns, FrameEnds, PollHandles
    <2>2. outer = "calls" => outer' = outer
      BY <1>7 DEF LoopInv, FrameBegins, Simulates, Paints, DrainBegins, Dispatches, DrainReturns, FrameEnds,
                  PollHandles, At, GoTo, loopVars
    <2> QED BY <1>1, <2>1, <2>2
  <1>8. CASE \E c \in Calls : (WorldStep(c) \/ ReaderStep(c)) /\ UNCHANGED <<cliVars, dialogVars, loopVars>>
    <2>1. outer' = outer
      BY <1>8 DEF loopVars
    <2> QED BY <1>2, <1>8, <2>1
  <1>9. CASE UNCHANGED <<processVars, loopVars>>
    BY <1>1, <1>9 DEF loopVars
  <1>10. (\E d \in Dialogs : Answers(d) /\ UNCHANGED <<processVars, cliVars, loopVars>>)
         \/ (Socket /\ UNCHANGED <<processVars, dialogVars, loopVars>>) \/ UNCHANGED vars
           => UNCHANGED <<processVars, loopVars>>
    BY DEF vars
  <1> QED BY <1>3, <1>4, <1>5, <1>6, <1>7, <1>8, <1>9, <1>10 DEF Next, Loop

\* Process calls: what is seen of a call keeps the contract, a result follows every line, and neither a
\* result nor a line follows a cancel (ProcessesKeepContract).
LEMMA ProcessesKeep == Spec => ProcessesKeepContract
  <1> DEFINE Complete == \A c \in Calls :
               call[c].result = "exit" => call[c].output = child[c].wrote /\ child[c].pipe = {}
  <1>1. Init => (LoopInv /\ ProcInv) /\ Contract!Init
    BY LoopBegins, ProcBegins
  <1>2. (LoopInv /\ ProcInv) /\ [Next]_vars => (LoopInv /\ ProcInv)'
    BY LoopKept, ProcKept
  <1>3. (LoopInv /\ ProcInv) /\ [Next]_vars => [Contract!Next]_Status
    BY ProcKept DEF Keeps
  <1>4. (LoopInv /\ ProcInv) /\ [Next]_vars => [Quiet]_call
    BY ProcKept
  <1>5. LoopInv /\ ProcInv => Complete
    BY DEF ProcInv, CallsOK, CallOK, ChildRecords, CallRecords, NoResult
  <1> QED BY <1>1, <1>2, <1>3, <1>4, <1>5, PTL
     DEF Spec, ProcessesKeepContract, Contract!Spec, Status, Quiet

--------------------------------------------------------------------------------
(* Dialogs.                                                                     *)

DStatus == [d \in Dialogs |-> DialogStatus(d)]

\* The dialogs of S go from one status to another, and the others keep theirs.
LEMMA DialogsMove ==
  ASSUME NEW S \in SUBSET Dialogs, NEW from, NEW to,
         \A d \in S : DialogStatus(d) = from /\ DialogStatus(d)' = to,
         \A d \in Dialogs \ S : DialogStatus(d)' = DialogStatus(d)
  PROVE  DialogContract!Move(S, from, to)
  <1>1. \A d \in S : DStatus[d] = from
    BY DEF DStatus
  <1>2. DStatus' = [d \in Dialogs |-> IF d \in S THEN to ELSE DStatus[d]]
    BY DEF DStatus
  <1> QED BY <1>1, <1>2 DEF DialogContract!Move, DStatus

DKeeps == DialogContract!Next \/ DStatus' = DStatus

\* request_open_file, take, cancel and the end of the call.
LEMMA DialogSteps ==
  ASSUME DialogInv, NEW d \in Dialogs, DialogStep(d)
  PROVE  DialogInv' /\ DKeeps
  <1>1. \A e \in Dialogs \ {d} : dialog'[e] = dialog[e] /\ DialogStatus(e)' = DialogStatus(e)
    BY DEF DialogInv, DialogStep, Asks, TakesAnswer, DropsDialog, DialogStatus
  <1>2. CASE Asks(d)
    <2>1. DialogInv'
      BY <1>2 DEF DialogInv, Asks
    <2>2. DialogStatus(d) = "none" /\ DialogStatus(d)' = "pending"
      BY <1>2 DEF DialogInv, Asks, DialogStatus
    <2>3. DialogContract!Move({d}, "none", "pending")
      BY <1>1, <2>2, DialogsMove
    <2> QED BY <2>1, <2>3 DEF DKeeps, DialogContract!Next, DialogContract!Sent
  <1>3. CASE TakesAnswer(d)
    <2>1. DialogInv'
      BY <1>3 DEF DialogInv, TakesAnswer
    <2>2. DialogStatus(d) = "resolved" /\ DialogStatus(d)' = "taken"
      BY <1>3 DEF DialogInv, TakesAnswer, DialogStatus
    <2>3. DialogContract!Move({d}, "resolved", "taken")
      BY <1>1, <2>2, DialogsMove
    <2> QED BY <2>1, <2>3 DEF DKeeps, DialogContract!Next, DialogContract!Take
  <1>4. CASE DropsDialog(d) /\ dialog[d].result
    <2>1. DialogInv'
      BY ZenonT(40), <1>4 DEF DialogInv, DropsDialog
    <2>2. DialogStatus(d) = "resolved" /\ DialogStatus(d)' = "taken"
      BY <1>4 DEF DialogInv, DropsDialog, DialogStatus
    <2>3. DialogContract!Move({d}, "resolved", "taken")
      BY <1>1, <2>2, DialogsMove
    <2> QED BY <2>1, <2>3 DEF DKeeps, DialogContract!Next, DialogContract!Take
  <1>5. CASE DropsDialog(d) /\ ~dialog[d].result
    <2>1. DialogInv'
      BY <1>5 DEF DialogInv, DropsDialog
    <2>2. DialogStatus(d) = "pending" /\ DialogStatus(d)' = "cancelled"
      BY <1>5 DEF DialogInv, DropsDialog, DialogStatus
    <2>3. DialogContract!Move({d}, "pending", "cancelled")
      BY <1>1, <2>2, DialogsMove
    <2> QED BY <2>1, <2>3 DEF DKeeps, DialogContract!Next, DialogContract!Cancel
  <1> QED BY <1>2, <1>3, <1>4, <1>5 DEF DialogStep

\* The platform's answer is seen by nobody before the poll delivers it.
LEMMA AnswersStep ==
  ASSUME DialogInv, NEW d \in Dialogs, Answers(d)
  PROVE  DialogInv' /\ DKeeps
  <1>1. DialogInv'
    BY DEF DialogInv, Answers
  <1> QED BY <1>1 DEF Answers, DKeeps, DStatus, DialogStatus

\* The poll delivers every answer, except to the calls cancelled since.
LEMMA DeliversAnswers ==
  ASSUME DialogInv, DeliverAnswers
  PROVE  DialogInv' /\ DKeeps
  <1> DEFINE S == {d \in answers : ~dialog[d].cancelled}
  <1>1. \A d \in Dialogs : dialog'[d] = [dialog[d] EXCEPT !.result = @ \/ (d \in answers /\ ~dialog[d].cancelled)]
    BY DEF DeliverAnswers
  <1>2. DialogInv'
    <2>1. answers' = {} /\ windows' = windows
      BY DEF DeliverAnswers
    <2>2. ASSUME NEW d \in Dialogs
          PROVE  /\ dialog'[d] \in [holder : {"none", "held", "gone", "taken"}, cancelled : BOOLEAN, result : BOOLEAN]
                 /\ dialog'[d].holder = dialog[d].holder /\ dialog'[d].cancelled = dialog[d].cancelled
                 /\ dialog'[d].result <=> dialog[d].result \/ (d \in answers /\ ~dialog[d].cancelled)
      <3>1. dialog[d] \in [holder : {"none", "held", "gone", "taken"}, cancelled : BOOLEAN, result : BOOLEAN]
        BY DEF DialogInv
      <3> QED BY <1>1, <3>1
    <2>3. dialog' \in [Dialogs -> [holder : {"none", "held", "gone", "taken"}, cancelled : BOOLEAN, result : BOOLEAN]]
      BY <2>2 DEF DeliverAnswers
    <2>4. ASSUME NEW d \in Dialogs
          PROVE  /\ dialog'[d].result => dialog'[d].holder \in {"held", "taken"}
                 /\ dialog'[d].cancelled <=> dialog'[d].holder = "gone"
                 /\ d \in windows' => dialog'[d].holder \in {"held", "gone"} /\ ~dialog'[d].result
      BY <2>1, <2>2 DEF DialogInv
    <2> QED BY <2>1, <2>3, <2>4 DEF DialogInv
  <1>3. ASSUME NEW d \in S PROVE DialogStatus(d) = "pending" /\ DialogStatus(d)' = "resolved"
    BY <1>1, <1>3 DEF DialogInv, DialogStatus
  <1>4. ASSUME NEW d \in Dialogs \ S PROVE DialogStatus(d)' = DialogStatus(d)
    <2>1. dialog'[d] = dialog[d]
      BY <1>1, <1>4 DEF DialogInv
    <2> QED BY <2>1 DEF DialogStatus
  <1>5. S \in SUBSET Dialogs
    BY DEF DialogInv
  <1>6. DialogContract!Move(S, "pending", "resolved")
    <2> HIDE DEF S
    <2> QED BY <1>3, <1>4, <1>5, DialogsMove
  <1> QED BY <1>2, <1>5, <1>6 DEF DKeeps, DialogContract!Next, DialogContract!Resolve

\* Every step of the frame.
LEMMA DialogKept ==
  ASSUME DialogInv, [Next]_vars
  PROVE  DialogInv' /\ DKeeps
  <1>1. CASE UNCHANGED dialogVars
    BY <1>1 DEF dialogVars, DialogInv, DKeeps, DStatus, DialogStatus
  <1>2. CASE UsesCalls
    BY <1>1, <1>2, DialogSteps DEF UsesCalls
  <1>3. CASE PollReturns
    BY <1>3, DeliversAnswers DEF PollReturns
  <1>4. CASE \E d \in Dialogs : Answers(d)
    BY <1>4, AnswersStep
  <1>5. Loop \/ PollHandles => UNCHANGED dialogVars
    BY DEF Loop, PollHandles, FrameBegins, Calling, Simulates, Paints, DrainBegins, Dispatches, DrainReturns,
           FrameEnds, Ends
  <1>6. UNCHANGED vars => UNCHANGED dialogVars
    BY DEF vars
  <1> QED BY <1>1, <1>2, <1>3, <1>4, <1>5, <1>6 DEF Next

\* Init establishes the invariant of the dialogs.
LEMMA DialogBegins == Init => DialogInv /\ DialogContract!Init
  BY DEF Init, DialogInit, DialogInv, DialogContract!Init, DialogStatus

\* Dialogs: an answer reaches a call once, in the poll, and never one that was cancelled.
LEMMA DialogsKeep == Spec => DialogContract!Spec
  <1>1. DialogInv /\ [Next]_vars => DialogInv' /\ [DialogContract!Next]_DStatus
    BY DialogKept DEF DKeeps
  <1> QED BY <1>1, DialogBegins, PTL DEF Spec, DialogContract!Spec, DStatus

\* Process calls and dialogs keep the contract of a call, whatever nests, is cancelled or answers late: a
\* result once, in the owner's poll, after every line and never after a cancel (CallsKeepContract).
THEOREM CallsKeepTheContract == Spec => CallsKeepContract
  BY ProcessesKeep, DialogsKeep DEF CallsKeepContract

--------------------------------------------------------------------------------
(* Requests.                                                                    *)

JobRecords ==
  [kind : Kinds \cup {"none"}, phase : {"New", "CaptureArmed", "ClickArmed", "ClickDone", "ProfileWait"},
   done : BOOLEAN, response : {"none", "ok", "no world", "refused", "drew nothing"}, executed : {0, 1}, painted : BOOLEAN,
   pixels : {"none", "read", "blank"}]

\* Phases belong to kinds; what was executed is done or a click that waits for its paint; the response fits.
JobOK(j) ==
  /\ j \in JobRecords
  /\ j.kind = "none" => j = Blank
  /\ j.phase \in {"ClickArmed", "ClickDone"} => j.kind = "click"
  /\ j.phase = "CaptureArmed" => j.kind = "screenshot"
  /\ j.phase = "ProfileWait" => j.kind = "profile"
  /\ j.phase = "ClickDone" => j.executed = 1 /\ j.response = "ok"
  /\ j.executed = 1 \/ j.response # "none" => j.done \/ j.phase = "ClickDone"
  /\ j.response \in {"no world", "refused"} => j.executed = 0
  /\ j.response = "ok" /\ j.kind # "screenshot" => j.executed = 1

Within(r, s) == \E n \in DOMAIN s : s[n] = r
Distinct(s) == \A m, n \in DOMAIN s : s[m] = s[n] => m = n

\* The queue and a pass hold each request once, and a request they hold has been received.
QueuesOK ==
  /\ jobs \in Seq(Requests) /\ Distinct(jobs)
  /\ todo \in Seq(Requests) /\ Distinct(todo)
  /\ doing \in Requests \cup {NoRequest} /\ ~Within(doing, todo)
  /\ socket \in {"listen", "receiving", "waiting", "ended"}
  /\ serving \in IF socket \in {"receiving", "waiting"} THEN Requests ELSE {NoRequest}
  /\ running \in BOOLEAN

\* What is queued or waited for was received; while the server runs, what is not done is queued.
Fits(r) ==
  /\ JobOK(job[r])
  /\ Within(r, jobs) \/ Within(r, todo) \/ r = doing \/ (r = serving /\ socket = "waiting") => job[r].kind \in Kinds
  /\ r = serving /\ socket = "receiving" => job[r].kind = "none"
  /\ running /\ job[r].kind # "none" /\ ~job[r].done => Within(r, jobs)
  /\ r = doing => job[r].phase = "ClickDone" \/ (job[r].executed = 0 /\ job[r].response = "none")
JobsOK == job \in [Requests -> JobRecords] /\ \A r \in Requests : Fits(r)

\* A click that is done, and its client told so, has been painted; a capture that drain looks at has been taken.
Painted(r) ==
  /\ At("drain") \/ At("drained") => (job[r].phase = "ClickDone" => job[r].painted)
  /\ r = serving /\ socket = "waiting" /\ job[r].done /\ job[r].response = "ok" /\ job[r].kind = "click"
       => job[r].painted
  /\ At("drain") \/ (At("drained") /\ (Within(r, todo) \/ r = doing))
       => (job[r].phase = "CaptureArmed" /\ ~job[r].done => job[r].pixels # "none")
PaintedOK == \A r \in Requests : Painted(r)

\* A pass is under way in its two stages only, and until the loop ends the server runs.
StagesOK ==
  /\ ~(At("begin") \/ At("drained")) => Passed
  /\ ~running <=> outer \in {"joining", "disposing", "waiting", "ended"}

CliInv == QueuesOK /\ JobsOK /\ PaintedOK /\ StagesOK

--------------------------------------------------------------------------------
(* Queues of requests.                                                          *)

\* Append puts one more request into a queue.
LEMMA Appended ==
  ASSUME NEW s \in Seq(Requests), NEW r \in Requests
  PROVE  /\ Append(s, r) \in Seq(Requests)
         /\ \A q : Within(q, Append(s, r)) <=> Within(q, s) \/ q = r
         /\ Distinct(s) /\ ~Within(r, s) => Distinct(Append(s, r))
  <1>1. DOMAIN Append(s, r) = DOMAIN s \cup {Len(s) + 1} /\ Len(s) + 1 \notin DOMAIN s
    OBVIOUS
  <1>2. \A n \in DOMAIN s : Append(s, r)[n] = s[n]
    OBVIOUS
  <1>3. Append(s, r)[Len(s) + 1] = r
    OBVIOUS
  <1>4. \A q : Within(q, Append(s, r)) <=> Within(q, s) \/ q = r
    BY ONLY <1>1, <1>2, <1>3 DEF Within
  <1>5. Distinct(s) /\ ~Within(r, s) => Distinct(Append(s, r))
    BY ONLY <1>1, <1>2, <1>3 DEF Within, Distinct
  <1> QED BY <1>4, <1>5

\* Head and Tail take one request out of a queue.
LEMMA Dropped ==
  ASSUME NEW s \in Seq(Requests), s # <<>>
  PROVE  /\ Head(s) \in Requests /\ Tail(s) \in Seq(Requests)
         /\ \A q : Within(q, s) <=> Within(q, Tail(s)) \/ q = Head(s)
         /\ Distinct(s) => Distinct(Tail(s)) /\ ~Within(Head(s), Tail(s))
  <1>1. Len(s) \in Nat /\ Len(s) > 0 /\ DOMAIN s = 1 .. Len(s) /\ DOMAIN Tail(s) = 1 .. Len(s) - 1
    OBVIOUS
  <1>2. \A n \in DOMAIN Tail(s) : Tail(s)[n] = s[n + 1] /\ n + 1 \in DOMAIN s
    OBVIOUS
  <1>3. Head(s) = s[1] /\ 1 \in DOMAIN s
    OBVIOUS
  <1>4. \A n \in DOMAIN s : n = 1 \/ (n - 1 \in DOMAIN Tail(s) /\ Tail(s)[n - 1] = s[n])
    OBVIOUS
  <1>5. \A q : Within(q, s) <=> Within(q, Tail(s)) \/ q = Head(s)
    BY ONLY <1>2, <1>3, <1>4 DEF Within
  <1>6. ASSUME Distinct(s) PROVE Distinct(Tail(s))
    <2> SUFFICES ASSUME NEW m \in DOMAIN Tail(s), NEW n \in DOMAIN Tail(s), Tail(s)[m] = Tail(s)[n] PROVE m = n
      BY DEF Distinct
    <2>1. m + 1 = n + 1
      BY <1>2, <1>6 DEF Distinct
    <2> QED BY <1>1, <2>1
  <1>7. ASSUME Distinct(s), Within(Head(s), Tail(s)) PROVE FALSE
    <2>1. PICK n \in DOMAIN Tail(s) : Tail(s)[n] = Head(s)
      BY <1>7 DEF Within
    <2>2. n + 1 = 1
      BY <1>2, <1>3, <1>7, <2>1 DEF Distinct
    <2> QED BY <1>1, <2>2
  <1> QED BY <1>5, <1>6, <1>7

\* The empty queue.
LEMMA Nothing == <<>> \in Seq(Requests) /\ Distinct(<<>>) /\ \A r : ~Within(r, <<>>)
  BY DEF Distinct, Within

\* Induction, for the set of the numbers it is about.
LEMMA InductionOn ==
  ASSUME NEW S, 0 \in S, \A n \in Nat : n \in S => n + 1 \in S
  PROVE  Nat \subseteq S
  <1>1. SUFFICES ASSUME Nat \ S # {} PROVE FALSE
    OBVIOUS
  <1>2. PICK x \in Nat \ S : \A y \in Nat \ S : ~(<<y, x>> \in OpToRel(<, Nat))
    BY <1>1, NatLessThanWellFounded, WFMin
  <1>3. \A y \in Nat \ S : ~(y < x)
    BY <1>2 DEF OpToRel
  <1>4. x \in Nat /\ x # 0
    BY <1>2
  <1>5. x - 1 \in Nat /\ x - 1 < x /\ (x - 1) + 1 = x
    BY <1>4
  <1> QED BY <1>2, <1>3, <1>5

\* What Undone does with one more request of the queue.
Kept(before, n) == IF job[jobs[n]].done THEN before ELSE Append(before, jobs[n])
KeptRun(f, n) == f = [k \in 0 .. n |-> IF k = 0 THEN <<>> ELSE Kept(f[k - 1], k)]

\* The recursion of Undone defines a function.
LEMMA KeptRunExists ==
  ASSUME NEW n \in Nat
  PROVE  \E f : KeptRun(f, n)
  <1> DEFINE Good == {k \in Nat : \E f : KeptRun(f, k)}
  <1>1. 0 \in Good
    <2> DEFINE f == [k \in 0 .. 0 |-> <<>>]
    <2>1. KeptRun(f, 0)
      BY DEF KeptRun
    <2> QED BY <2>1
  <1>2. ASSUME NEW m \in Nat, m \in Good PROVE m + 1 \in Good
    <2>1. PICK f : KeptRun(f, m)
      BY <1>2
    <2> DEFINE g == [k \in 0 .. m + 1 |-> IF k = m + 1 THEN Kept(f[m], k) ELSE f[k]]
    <2>2. \A k \in 0 .. m : f[k] = IF k = 0 THEN <<>> ELSE Kept(f[k - 1], k)
      BY <2>1 DEF KeptRun
    <2>3. ASSUME NEW k \in 0 .. m + 1 PROVE g[k] = IF k = 0 THEN <<>> ELSE Kept(g[k - 1], k)
      <3>1. CASE k = m + 1
        <4>1. m \in 0 .. m + 1 /\ m # m + 1 /\ k # 0 /\ k - 1 = m
          BY <3>1
        <4> QED BY <3>1, <4>1
      <3>2. CASE k \in 0 .. m
        <4>1. k # m + 1 /\ (k # 0 => k - 1 \in 0 .. m + 1 /\ k - 1 # m + 1)
          BY <3>2
        <4>2. g[k] = f[k] /\ (k # 0 => g[k - 1] = f[k - 1])
          BY <3>2, <4>1
        <4> QED BY <2>2, <3>2, <4>2
      <3> QED BY <3>1, <3>2
    <2>4. KeptRun(g, m + 1)
      <3>1. g = [k \in 0 .. m + 1 |-> g[k]]
        OBVIOUS
      <3> HIDE DEF g
      <3> QED BY <2>3, <3>1 DEF KeptRun
    <2> QED BY <2>4
  <1>3. Nat \subseteq Good
    <2> HIDE DEF Good
    <2> QED BY <1>1, <1>2, InductionOn
  <1> QED BY <1>3

\* Undone keeps each request that is not done, once.
LEMMA UndoneIs ==
  ASSUME jobs \in Seq(Requests), Distinct(jobs)
  PROVE  /\ Undone \in Seq(Requests) /\ Distinct(Undone)
         /\ \A r \in Requests : Within(r, Undone) <=> Within(r, jobs) /\ ~job[r].done
  <1> DEFINE f == CHOOSE g : KeptRun(g, Len(jobs))
  <1>1. Len(jobs) \in Nat /\ DOMAIN jobs = 1 .. Len(jobs)
    OBVIOUS
  <1>2. KeptRun(f, Len(jobs))
    BY <1>1, KeptRunExists
  <1>3. Undone = f[Len(jobs)]
    BY DEF Undone, KeptRun, Kept
  <1> HIDE DEF f
  <1> DEFINE Upto(r, n) == \E m \in 1 .. n : jobs[m] = r
             Is(n) == /\ f[n] \in Seq(Requests) /\ Distinct(f[n])
                      /\ \A r \in Requests : Within(r, f[n]) <=> Upto(r, n) /\ ~job[r].done
             Good == {n \in Nat : n <= Len(jobs) => Is(n)}
  <1>4. 0 \in Good
    <2>1. f[0] = <<>>
      BY <1>1, <1>2 DEF KeptRun
    <2>2. \A r : ~Upto(r, 0)
      OBVIOUS
    <2>3. Is(0)
      <3> HIDE DEF Upto
      <3> QED BY <2>1, <2>2, Nothing
    <2> HIDE DEF Is
    <2> QED BY <2>3
  <1>5. ASSUME NEW n \in Nat, n \in Good PROVE n + 1 \in Good
    <2> SUFFICES ASSUME n + 1 <= Len(jobs) PROVE Is(n + 1)
      OBVIOUS
    <2>1. Is(n)
      BY <1>1, <1>5
    <2>2. n + 1 \in DOMAIN jobs /\ jobs[n + 1] \in Requests
      BY <1>1
    <2>3. f[n + 1] = Kept(f[n], n + 1)
      <3>1. n + 1 \in 0 .. Len(jobs) /\ n + 1 # 0 /\ (n + 1) - 1 = n
        BY <1>1
      <3> QED BY <1>2, <3>1 DEF KeptRun
    <2>4. \A r \in Requests : Upto(r, n + 1) <=> Upto(r, n) \/ r = jobs[n + 1]
      OBVIOUS
    <2>5. ~Upto(jobs[n + 1], n)
      BY <1>1, <2>2 DEF Distinct
    <2> HIDE DEF Upto
    <2>6. CASE job[jobs[n + 1]].done
      <3>1. f[n + 1] = f[n]
        BY <2>3, <2>6 DEF Kept
      <3> QED BY <2>1, <2>4, <2>6, <3>1
    <2>7. CASE ~job[jobs[n + 1]].done
      <3>1. f[n + 1] = Append(f[n], jobs[n + 1])
        BY <2>3, <2>7 DEF Kept
      <3>2. ~Within(jobs[n + 1], f[n])
        BY <2>1, <2>2, <2>5
      <3> QED BY <2>1, <2>2, <2>4, <2>7, <3>1, <3>2, Appended
    <2> QED BY <2>6, <2>7
  <1>6. Nat \subseteq Good
    <2> HIDE DEF Good
    <2> QED BY <1>4, <1>5, InductionOn
  <1>7. Is(Len(jobs))
    BY <1>1, <1>6
  <1>8. \A r \in Requests : Upto(r, Len(jobs)) <=> Within(r, jobs)
    BY <1>1 DEF Within
  <1> QED BY <1>3, <1>7, <1>8

--------------------------------------------------------------------------------
(* What dispatch does to a request.                                             *)

\* A request nobody has made.
LEMMA BlankOK == Blank \in JobRecords /\ JobOK(Blank) /\ Blank.kind = "none" /\ Blank.response = "none" /\ ~Blank.done
                 /\ Blank.phase = "New"
  BY DEF Blank, JobRecords, JobOK

\* dispatch comes to a request that was not executed, or to a click that was and waits for its paint.
Dispatched(j) ==
  /\ JobOK(j) /\ j.kind \in Kinds
  /\ j.phase = "ClickDone" \/ (j.executed = 0 /\ j.response = "none")

\* finish, of a request that was not done: its answer fits when what was executed does.
LEMMA FinishedOK ==
  ASSUME NEW j, Dispatched(j), NEW response \in {"ok", "no world", "refused", "drew nothing"},
         response \in {"no world", "refused"} => j.executed = 0,
         response = "ok" /\ j.kind # "screenshot" => j.executed = 1,
         j.phase = "ClickDone" => response = "ok"
  PROVE  /\ JobOK(Finished(j, response)) /\ Finished(j, response).done
         /\ Finished(j, response).kind = j.kind /\ Finished(j, response).phase = j.phase
         /\ Finished(j, response).painted = j.painted
         /\ Finished(j, response).response = IF j.done THEN j.response ELSE response
  <1>1. JobOK(j) /\ j \in JobRecords /\ j.kind # "none"
    BY CliAssumption DEF Dispatched, JobOK
  <1>2. CASE j.done
    BY <1>1, <1>2 DEF Finished
  <1>3. CASE ~j.done
    <2>1. PICK a : a = [j EXCEPT !.done = TRUE, !.response = response]
      OBVIOUS
    <2>2. a \in JobRecords
      BY <1>1, <2>1 DEF JobRecords
    <2>3. /\ a.kind = j.kind /\ a.phase = j.phase /\ a.painted = j.painted /\ a.executed = j.executed
          /\ a.done /\ a.response = response
      BY <1>1, <2>1 DEF JobRecords
    <2>4. JobOK(a)
      BY <1>1, <2>2, <2>3 DEF JobOK
    <2>5. Finished(j, response) = a
      BY <1>3, <2>1 DEF Finished
    <2> QED BY <1>3, <2>3, <2>4, <2>5
  <1> QED BY <1>2, <1>3

\* The execution of what was not executed, finished at once.
LEMMA ExecutedOK ==
  ASSUME NEW j, Dispatched(j), j.phase # "ClickDone", j.kind # "click"
  PROVE  LET a == Finished(Executed(j), "ok") IN
         /\ JobOK(a) /\ a.done /\ a.kind = j.kind /\ a.phase = j.phase
         /\ a.response \in {"none", "ok"}
  <1>1. JobOK(j) /\ j \in JobRecords /\ j.kind # "none" /\ j.executed = 0 /\ j.response = "none"
    BY CliAssumption DEF Dispatched, JobOK
  <1>2. PICK a : a = IF j.done THEN [j EXCEPT !.executed = 1]
                     ELSE [j EXCEPT !.executed = 1, !.done = TRUE, !.response = "ok"]
    OBVIOUS
  <1>3. a \in JobRecords
    BY <1>1, <1>2 DEF JobRecords
  <1>4. /\ a.kind = j.kind /\ a.phase = j.phase /\ a.executed = 1 /\ a.done
        /\ a.response = IF j.done THEN "none" ELSE "ok"
    BY <1>1, <1>2 DEF JobRecords
  <1>5. JobOK(a)
    BY <1>1, <1>3, <1>4 DEF JobOK
  <1>6. Finished(Executed(j), "ok") = a
    <2>1. Executed(j) = [j EXCEPT !.executed = 1]
      BY <1>1 DEF Executed
    <2>2. Executed(j).done = j.done
      BY <1>1, <2>1 DEF JobRecords
    <2> QED BY <1>1, <1>2, <2>1, <2>2 DEF Finished, JobRecords
  <1> QED BY <1>4, <1>5, <1>6

\* begin_frame: an armed click is executed, and its answer waits for the paint.
LEMMA AtBegin ==
  ASSUME NEW j, Dispatched(j), NEW world \in BOOLEAN
  PROVE  LET a == DispatchAtBegin(j, world) IN
         /\ JobOK(a) /\ a.kind = j.kind /\ (j.done => a.done)
         /\ a.response \in {j.response, "ok", "no world", "refused"}
         /\ a.done /\ a.response = "ok" /\ a.kind = "click" => a = j
  <1>1. JobOK(j) /\ j \in JobRecords /\ j.kind # "none"
    BY CliAssumption DEF Dispatched, JobOK
  <1>0. CASE j.kind = "malformed"
    <2>1. DispatchAtBegin(j, world) = Finished(j, "refused")
      BY <1>0 DEF DispatchAtBegin
    <2>2. j.phase # "ClickDone" /\ j.executed = 0
      BY <1>0, <1>1 DEF JobOK, Dispatched
    <2>3. PICK a : a = Finished(j, "refused")
      OBVIOUS
    <2>4. JobOK(a) /\ a.done /\ a.kind = j.kind /\ a.response = IF j.done THEN j.response ELSE "refused"
      BY <2>2, <2>3, FinishedOK
    <2> QED BY <1>0, <2>1, <2>3, <2>4
  <1>2. CASE j.kind # "malformed" /\ ~(j.kind = "click" /\ j.phase = "ClickArmed")
    BY <1>1, <1>2 DEF DispatchAtBegin
  <1>3. CASE j.kind = "click" /\ j.phase = "ClickArmed"
    <2>1. j.executed = 0 /\ j.response = "none"
      BY <1>3 DEF Dispatched
    <2>2. CASE ~world
      <3>1. DispatchAtBegin(j, world) = Finished(j, "no world")
        BY <1>3, <2>2 DEF DispatchAtBegin
      <3>2. PICK a : a = Finished(j, "no world")
        OBVIOUS
      <3>3. /\ JobOK(a) /\ a.done /\ a.kind = j.kind
            /\ a.response = IF j.done THEN j.response ELSE "no world"
        BY <1>3, <2>1, <3>2, FinishedOK
      <3> QED BY <2>1, <3>1, <3>2, <3>3
    <2>3. CASE world /\ j.done
      <3>1. PICK a : a = [j EXCEPT !.executed = 1]
        OBVIOUS
      <3>2. DispatchAtBegin(j, world) = a
        BY <1>1, <1>3, <2>1, <2>3, <3>1 DEF DispatchAtBegin, Clicked, Executed
      <3>3. a \in JobRecords
        BY <1>1, <3>1 DEF JobRecords
      <3>4. a.kind = j.kind /\ a.phase = j.phase /\ a.executed = 1 /\ a.done /\ a.response = "none"
        BY <1>1, <2>1, <2>3, <3>1 DEF JobRecords
      <3>5. JobOK(a)
        BY <1>1, <1>3, <3>3, <3>4 DEF JobOK
      <3> QED BY <2>1, <3>2, <3>4, <3>5
    <2>4. CASE world /\ ~j.done
      <3>1. PICK a : a = [j EXCEPT !.executed = 1, !.response = "ok", !.phase = "ClickDone"]
        OBVIOUS
      <3>2. DispatchAtBegin(j, world) = a
        BY <1>1, <1>3, <2>1, <2>4, <3>1 DEF DispatchAtBegin, Clicked, Executed
      <3>3. a \in JobRecords
        BY <1>1, <3>1 DEF JobRecords
      <3>4. a.kind = j.kind /\ a.phase = "ClickDone" /\ a.executed = 1 /\ ~a.done /\ a.response = "ok"
        BY <1>1, <2>1, <2>4, <3>1 DEF JobRecords
      <3>5. JobOK(a)
        BY <1>1, <1>3, <3>3, <3>4 DEF JobOK
      <3> QED BY <2>4, <3>2, <3>4, <3>5
    <2> QED BY <2>2, <2>3, <2>4
  <1> QED BY <1>0, <1>2, <1>3

\* drain: a click that was executed has been painted, and a capture that was armed has been taken.
LEMMA AtDrain ==
  ASSUME NEW j, Dispatched(j), NEW world \in BOOLEAN, NEW a \in DispatchAtDrain(j, world),
         j.phase = "ClickDone" => j.painted,
         j.phase = "CaptureArmed" /\ ~j.done => j.pixels # "none"
  PROVE  /\ JobOK(a) /\ a.kind = j.kind /\ (j.done => a.done)
         /\ a.phase = "ClickDone" => a.painted
         /\ a.response = "ok" /\ a.kind = "click" => a.painted
         /\ a.response = "drew nothing" /\ j.response = "none" => j.pixels = "blank"
  <1>1. JobOK(j) /\ j \in JobRecords /\ j.kind # "none" /\ j.kind \in Kinds
    BY CliAssumption DEF Dispatched, JobOK
  <1>2. ASSUME NEW phase \in {"CaptureArmed", "ClickArmed", "ProfileWait"}, a = [j EXCEPT !.phase = phase],
               j.phase # "ClickDone", j.executed = 0, j.response = "none",
               phase = "CaptureArmed" => j.kind = "screenshot", phase = "ClickArmed" => j.kind = "click",
               phase = "ProfileWait" => j.kind = "profile"
        PROVE  JobOK(a) /\ a.kind = j.kind /\ a.done = j.done /\ a.response = "none" /\ a.phase # "ClickDone"
    <2>1. a \in JobRecords
      BY <1>1, <1>2 DEF JobRecords
    <2>2. a.kind = j.kind /\ a.phase = phase /\ a.executed = 0 /\ a.done = j.done /\ a.response = "none"
      BY <1>1, <1>2 DEF JobRecords
    <2> QED BY <1>1, <1>2, <2>1, <2>2 DEF JobOK
  <1>3. j.phase # "ClickDone" => j.executed = 0 /\ j.response = "none"
    BY DEF Dispatched
  <1>4. CASE j.kind = "screenshot"
    <2>1. j.phase # "ClickDone"
      BY <1>1, <1>4 DEF JobOK
    <2>2. CASE j.phase = "New"
      <3>1. a = [j EXCEPT !.phase = "CaptureArmed"] \/ a = Finished(j, "refused")
        BY <1>4, <2>2 DEF DispatchAtDrain
      <3>2. CASE a = [j EXCEPT !.phase = "CaptureArmed"]
        BY <1>2, <1>3, <1>4, <2>1, <3>2
      <3>3. CASE a = Finished(j, "refused")
        BY <1>3, <1>4, <2>1, <3>3, FinishedOK
      <3> QED BY <3>1, <3>2, <3>3
    <2>3. CASE j.phase # "New"
      <3>1. a = Finished(j, IF j.pixels = "read" THEN "ok" ELSE "drew nothing")
        BY <1>4, <2>1, <2>3 DEF DispatchAtDrain
      <3>2. j.phase = "CaptureArmed"
        BY <1>1, <1>4, <2>1, <2>3 DEF JobOK, JobRecords
      <3>3. j.pixels \in {"none", "read", "blank"}
        BY <1>1 DEF JobRecords
      <3>4. JobOK(a) /\ a.kind = j.kind /\ a.done /\ a.phase = j.phase
        BY <1>4, <2>1, <3>1, FinishedOK
      <3>5. a.response = "drew nothing" /\ j.response = "none" => ~j.done /\ j.pixels # "read"
        BY <1>4, <2>1, <3>1, FinishedOK
      <3> QED BY <1>4, <2>1, <3>2, <3>3, <3>4, <3>5
    <2> QED BY <2>2, <2>3
  <1>5. CASE j.phase = "ClickDone"
    <2>1. j.kind = "click" /\ j.executed = 1 /\ j.response = "ok"
      BY <1>1, <1>5 DEF JobOK
    <2>2. a = Finished(j, "ok")
      BY <1>5, <2>1 DEF DispatchAtDrain
    <2> QED BY <1>5, <2>1, <2>2, FinishedOK
  <1>6. CASE j.kind # "screenshot" /\ j.phase # "ClickDone"
    <2>1. \/ a = Finished(Executed(j), "ok") /\ j.kind # "click"
          \/ a = Finished(j, "no world") \/ a = Finished(j, "refused")
          \/ a = [j EXCEPT !.phase = "ClickArmed"] /\ j.kind = "click"
          \/ a = [j EXCEPT !.phase = "ProfileWait"] /\ j.kind = "profile"
      <3>1. j.kind \in {"click", "query", "profile", "host", "malformed"}
        BY <1>1, <1>6, CliAssumption
      <3>2. CASE j.kind = "host"
        BY <1>6, <3>2 DEF DispatchAtDrain
      <3>3. CASE j.kind \notin {"host", "malformed"} /\ ~world
        BY <1>6, <3>1, <3>3 DEF DispatchAtDrain
      <3>4. CASE j.kind = "click" /\ world
        BY <1>6, <3>4 DEF DispatchAtDrain
      <3>5. CASE j.kind = "query" /\ world
        BY <1>6, <3>5 DEF DispatchAtDrain
      <3>6. CASE j.kind = "profile" /\ world
        BY <1>6, <3>6 DEF DispatchAtDrain
      <3>7. CASE j.kind = "malformed"
        BY <1>6, <3>7 DEF DispatchAtDrain
      <3> QED BY <3>1, <3>2, <3>3, <3>4, <3>5, <3>6, <3>7
    <2>2. CASE a = Finished(Executed(j), "ok") /\ j.kind # "click"
      BY <1>6, <2>2, ExecutedOK
    <2>3. CASE a = Finished(j, "no world") \/ a = Finished(j, "refused")
      <3>1. CASE a = Finished(j, "no world")
        BY <1>3, <1>6, <3>1, FinishedOK
      <3>2. CASE a = Finished(j, "refused")
        BY <1>3, <1>6, <3>2, FinishedOK
      <3> QED BY <2>3, <3>1, <3>2
    <2>4. CASE a = [j EXCEPT !.phase = "ClickArmed"] /\ j.kind = "click"
      BY <1>2, <1>3, <1>6, <2>4
    <2>5. CASE a = [j EXCEPT !.phase = "ProfileWait"] /\ j.kind = "profile"
      BY <1>2, <1>3, <1>6, <2>5
    <2> QED BY <2>1, <2>2, <2>3, <2>4, <2>5
  <1> QED BY <1>4, <1>5, <1>6

--------------------------------------------------------------------------------
(* The thread's steps.                                                          *)

\* A window is said to have drawn nothing when the frame read it and found it empty.
Captures == \A r \in Requests : job'[r].response = "drew nothing" /\ job[r].response = "none" => job[r].pixels = "blank"

\* A step that gives no request a new answer says nothing of captures.
LEMMA CapturesWhen ==
  ASSUME \A r \in Requests : job'[r].response = job[r].response \/ job'[r] = Blank
  PROVE  Captures
  BY BlankOK DEF Captures

\* What nobody refers to is freed.
LEMMA FreedIs ==
  ASSUME NEW f \in [Requests -> JobRecords], NEW served, NEW queue
  PROVE  /\ Freed(f, served, queue) \in [Requests -> JobRecords]
         /\ \A r \in Requests : Freed(f, served, queue)[r] =
              IF r = served \/ Within(r, queue) \/ Within(r, todo) \/ r = doing THEN f[r] ELSE Blank
  BY BlankOK DEF Freed, Within

\* A client connects.
LEMMA ComesStep ==
  ASSUME CliInv, NEW r \in Requests, ClientComes(r), UNCHANGED <<outer, nested>>
  PROVE  CliInv' /\ Captures
  <1>1. /\ socket = "listen" /\ socket' = "receiving" /\ serving' = r /\ job[r] = Blank
        /\ UNCHANGED <<running, jobs, job, todo, doing>>
    BY DEF ClientComes
  <1>2. QueuesOK'
    BY <1>1 DEF CliInv, QueuesOK
  <1>3. ASSUME NEW q \in Requests PROVE Fits(q)' /\ Painted(q)'
    <2>1. Fits(q) /\ Painted(q)
      BY DEF CliInv, JobsOK, PaintedOK
    <2>2. Fits(q)'
      BY <1>1, <2>1, BlankOK DEF Fits
    <2>3. Painted(q)'
      BY <1>1, <2>1 DEF Painted, At
    <2> QED BY <2>2, <2>3
  <1>4. JobsOK' /\ PaintedOK'
    BY <1>1, <1>3 DEF CliInv, JobsOK, PaintedOK
  <1>5. StagesOK'
    BY <1>1 DEF CliInv, StagesOK, At, Passed
  <1>6. Captures
    BY <1>1, CapturesWhen
  <1> QED BY <1>2, <1>4, <1>5, <1>6 DEF CliInv

\* Its request is queued, or it goes away.
LEMMA ReceivesStep ==
  ASSUME CliInv, Receives, UNCHANGED <<outer, nested>>
  PROVE  CliInv' /\ Captures
  <1>1. socket = "receiving" /\ serving \in Requests /\ UNCHANGED <<running, todo, doing>>
    BY DEF Receives, CliInv, QueuesOK
  <1>2. StagesOK'
    BY <1>1 DEF CliInv, StagesOK, At, Passed
  <1>3. CASE socket' = NextClient /\ serving' = NoRequest /\ UNCHANGED <<jobs, job>>
    <2>1. socket' \in {"listen", "ended"}
      BY <1>3 DEF NextClient
    <2>2. QueuesOK'
      BY <1>1, <1>3, <2>1 DEF CliInv, QueuesOK
    <2>3. ASSUME NEW q \in Requests PROVE Fits(q)' /\ Painted(q)'
      <3>1. Fits(q) /\ Painted(q)
        BY DEF CliInv, JobsOK, PaintedOK
      <3>2. Fits(q)'
        BY <1>1, <1>3, <2>1, <3>1 DEF Fits
      <3>3. Painted(q)'
        BY <1>1, <1>3, <2>1, <3>1 DEF Painted, At
      <3> QED BY <3>2, <3>3
    <2>4. JobsOK' /\ PaintedOK'
      BY <1>3, <2>3 DEF CliInv, JobsOK, PaintedOK
    <2>5. Captures
      BY <1>3, CapturesWhen
    <2> QED BY <1>2, <2>2, <2>4, <2>5 DEF CliInv
  <1>4. ASSUME NEW kind \in Kinds, job' = [job EXCEPT ![serving].kind = kind], jobs' = Append(jobs, serving),
               socket' = "waiting", UNCHANGED serving
        PROVE  CliInv' /\ Captures
    <2>1. job \in [Requests -> JobRecords] /\ jobs \in Seq(Requests)
      BY DEF CliInv, JobsOK, QueuesOK
    <2>2. job[serving] = Blank /\ ~Within(serving, jobs) /\ ~Within(serving, todo) /\ serving # doing
      <3>1. Fits(serving)
        BY <1>1 DEF CliInv, JobsOK
      <3>2. job[serving].kind = "none" /\ "none" \notin Kinds
        BY <1>1, <3>1, CliAssumption DEF Fits
      <3> QED BY <3>1, <3>2 DEF Fits, JobOK
    <2>3. PICK k : k = [Blank EXCEPT !.kind = kind]
      OBVIOUS
    <2>4. k \in JobRecords /\ k.kind = kind /\ k.phase = "New" /\ k.response = "none" /\ ~k.done /\ k.executed = 0
      BY <2>3 DEF Blank, JobRecords
    <2>5. JobOK(k)
      BY <2>4, CliAssumption DEF JobOK
    <2>6. job' = [job EXCEPT ![serving] = k]
      BY <1>1, <1>4, <2>1, <2>2, <2>3
    <2>7. job' \in [Requests -> JobRecords]
      BY <2>1, <2>4, <2>6
    <2>8. jobs' \in Seq(Requests) /\ Distinct(jobs') /\ \A q : Within(q, jobs') <=> Within(q, jobs) \/ q = serving
      BY <1>1, <1>4, <2>1, <2>2, Appended DEF CliInv, QueuesOK
    <2>9. QueuesOK'
      BY <1>1, <1>4, <2>8 DEF CliInv, QueuesOK
    <2>10. ASSUME NEW q \in Requests PROVE Fits(q)' /\ Painted(q)' /\ job'[q].response = job[q].response
      <3>1. Fits(q) /\ Painted(q)
        BY DEF CliInv, JobsOK, PaintedOK
      <3>2. CASE q = serving
        <4>1. job'[q] = k
          BY <1>1, <2>1, <2>6, <3>2
        <4>2. Fits(q)'
          BY <1>1, <1>4, <2>2, <2>4, <2>5, <2>8, <3>2, <4>1 DEF Fits
        <4>3. Painted(q)'
          BY <1>1, <1>4, <2>4, <4>1 DEF Painted, At
        <4> QED BY <2>2, <2>4, <3>2, <4>1, <4>2, <4>3, BlankOK
      <3>3. CASE q # serving
        <4>1. job'[q] = job[q]
          BY <1>1, <2>1, <2>6, <3>3
        <4>2. Fits(q)'
          BY <1>1, <1>4, <2>8, <3>1, <3>3, <4>1 DEF Fits
        <4>3. Painted(q)'
          BY <1>1, <1>4, <3>1, <3>3, <4>1 DEF Painted, At
        <4> QED BY <4>1, <4>2, <4>3
      <3> QED BY <3>2, <3>3
    <2>11. JobsOK' /\ PaintedOK'
      BY <2>7, <2>10 DEF JobsOK, PaintedOK
    <2>12. Captures
      BY <2>10, CapturesWhen
    <2> QED BY <1>2, <2>9, <2>11, <2>12 DEF CliInv
  <1> QED BY <1>3, <1>4 DEF Receives

\* The wait ends: what is still queued or dispatched is done, and nothing else about it changes.
LEMMA WaitEndsStep ==
  ASSUME CliInv, WaitEnds, UNCHANGED <<outer, nested>>
  PROVE  CliInv' /\ Captures
  <1> DEFINE f == [job EXCEPT ![serving].done = TRUE]
  <1>1. /\ socket = "waiting" /\ serving \in Requests /\ serving' = NoRequest
        /\ socket' \in {"listen", "ended"} /\ UNCHANGED <<running, jobs, todo, doing>>
    BY DEF WaitEnds, CliInv, QueuesOK, NextClient
  <1>2. job' = Freed(f, NoRequest, jobs)
    BY DEF WaitEnds
  <1>3. job \in [Requests -> JobRecords]
    BY DEF CliInv, JobsOK
  <1>4. ASSUME NEW q \in Requests
        PROVE  /\ f[q] \in JobRecords /\ JobOK(f[q])
               /\ f[q].kind = job[q].kind /\ f[q].phase = job[q].phase /\ f[q].response = job[q].response
               /\ f[q].executed = job[q].executed /\ f[q].painted = job[q].painted /\ f[q].pixels = job[q].pixels
               /\ job[q].done => f[q].done
    <2>1. Fits(q) /\ job[q] \in JobRecords
      BY <1>3 DEF CliInv, JobsOK
    <2>2. CASE q = serving
      <3>1. PICK k : k = [job[q] EXCEPT !.done = TRUE]
        OBVIOUS
      <3>2. f[q] = k
        BY <1>3, <2>2, <3>1
      <3>3. k \in JobRecords
        BY <2>1, <3>1 DEF JobRecords
      <3>4. /\ k.kind = job[q].kind /\ k.phase = job[q].phase /\ k.response = job[q].response
            /\ k.executed = job[q].executed /\ k.painted = job[q].painted /\ k.pixels = job[q].pixels
            /\ k.done
        BY <2>1, <3>1 DEF JobRecords
      <3>5. k.kind # "none"
        BY <1>1, <2>1, <2>2, <3>4, CliAssumption DEF Fits
      <3>6. JobOK(k)
        BY <2>1, <3>3, <3>4, <3>5 DEF JobOK, Fits
      <3> QED BY <3>2, <3>3, <3>4, <3>6
    <2>3. CASE q # serving
      <3>1. f[q] = job[q]
        BY <1>3, <2>3
      <3> QED BY <2>1, <3>1 DEF Fits
    <2> QED BY <2>2, <2>3
  <1>5. f \in [Requests -> JobRecords]
    BY <1>3, <1>4
  <1> HIDE DEF f
  <1>6. job' \in [Requests -> JobRecords]
    BY <1>2, <1>5, FreedIs
  <1>7. ASSUME NEW q \in Requests
        PROVE  job'[q] = IF Within(q, jobs) \/ Within(q, todo) \/ q = doing THEN f[q] ELSE Blank
    BY <1>2, <1>5, FreedIs, CliAssumption
  <1>8. ASSUME NEW q \in Requests PROVE Fits(q)' /\ Painted(q)'
    <2>1. Fits(q) /\ Painted(q)
      BY DEF CliInv, JobsOK, PaintedOK
    <2>2. CASE Within(q, jobs) \/ Within(q, todo) \/ q = doing
      <3>1. job'[q] = f[q]
        BY <1>7, <2>2
      <3>2. Fits(q)'
        BY <1>1, <1>4, <2>1, <3>1 DEF Fits
      <3>3. Painted(q)'
        BY <1>1, <1>4, <2>1, <3>1 DEF Painted, At
      <3> QED BY <3>2, <3>3
    <2>3. CASE ~(Within(q, jobs) \/ Within(q, todo) \/ q = doing)
      <3>1. job'[q] = Blank
        BY <1>7, <2>3
      <3>2. Fits(q)'
        BY <1>1, <2>3, <3>1, BlankOK DEF Fits
      <3>3. Painted(q)'
        BY <1>1, <3>1, BlankOK DEF Painted
      <3> QED BY <3>2, <3>3
    <2> QED BY <2>2, <2>3
  <1>9. JobsOK' /\ PaintedOK'
    BY <1>6, <1>8 DEF JobsOK, PaintedOK
  <1>10. QueuesOK' /\ StagesOK'
    BY <1>1 DEF CliInv, QueuesOK, StagesOK, At, Passed
  <1>11. Captures
    BY <1>4, <1>7, CapturesWhen
  <1> QED BY <1>9, <1>10, <1>11 DEF CliInv

\* The thread ends.
LEMMA ThreadEndsStep ==
  ASSUME CliInv, ThreadEnds, UNCHANGED <<outer, nested>>
  PROVE  CliInv' /\ Captures
  <1>1. socket = "listen" /\ socket' = "ended" /\ UNCHANGED <<running, serving, jobs, job, todo, doing>>
    BY DEF ThreadEnds
  <1>2. \A q \in Requests : Fits(q) => Fits(q)'
    BY <1>1 DEF Fits
  <1>3. \A q \in Requests : Painted(q) => Painted(q)'
    BY <1>1 DEF Painted, At
  <1>4. QueuesOK' /\ StagesOK'
    BY <1>1 DEF CliInv, QueuesOK, StagesOK, At, Passed
  <1> QED BY <1>1, <1>2, <1>3, <1>4, CapturesWhen DEF CliInv, JobsOK, PaintedOK

--------------------------------------------------------------------------------
(* The passes of the main thread.                                               *)

\* The frame goes on, and the server sees none of it.
LEMMA StageStep ==
  ASSUME CliInv, UNCHANGED cliVars,
         At("drain")' => At("drain"), At("drained")' => At("drained"),
         Passed \/ At("begin")' \/ At("drained")',
         outer' \in {"joining", "disposing", "waiting", "ended"}
           <=> outer \in {"joining", "disposing", "waiting", "ended"}
  PROVE  CliInv' /\ Captures
  <1>1. UNCHANGED <<running, socket, serving, jobs, job, todo, doing>>
    BY DEF cliVars
  <1>2. \A q \in Requests : Fits(q) => Fits(q)'
    BY <1>1 DEF Fits
  <1>3. ASSUME NEW q \in Requests, Painted(q) PROVE Painted(q)'
    <2> HIDE DEF At
    <2> QED BY <1>1, <1>3 DEF Painted
  <1>4. QueuesOK'
    BY <1>1 DEF CliInv, QueuesOK
  <1>5. StagesOK'
    <2>1. Passed => Passed'
      BY <1>1 DEF Passed
    <2>2. ~(At("begin") \/ At("drained"))' => Passed'
      BY <2>1
    <2> QED BY <1>1, <2>2 DEF CliInv, StagesOK
  <1> QED BY <1>1, <1>2, <1>3, <1>4, <1>5, CapturesWhen DEF CliInv, JobsOK, PaintedOK

\* A pass begins over a copy of the queue.
LEMMA StartPassStep ==
  ASSUME CliInv, StartPass, Passed, ~At("drain")', At("drained")' => At("drain"), At("begin")' \/ At("drained")',
         outer \notin {"joining", "disposing", "waiting", "ended"},
         outer' \notin {"joining", "disposing", "waiting", "ended"}
  PROVE  CliInv' /\ Captures
  <1>1. running /\ todo' = jobs /\ UNCHANGED <<running, socket, serving, jobs, job, doing>>
    BY DEF StartPass, CliInv, StagesOK, QueuesOK
  <1>2. doing = NoRequest /\ todo = <<>>
    BY DEF Passed
  <1>3. ~Within(NoRequest, jobs)
    BY CliAssumption DEF CliInv, QueuesOK, Within
  <1>4. QueuesOK'
    BY <1>1, <1>2, <1>3 DEF CliInv, QueuesOK
  <1>5. ASSUME NEW q \in Requests, Fits(q) PROVE Fits(q)'
    BY <1>1, <1>5 DEF Fits
  <1>6. ASSUME NEW q \in Requests, Painted(q) PROVE Painted(q)'
    BY <1>1, <1>6 DEF Painted
  <1>7. StagesOK'
    BY <1>1 DEF CliInv, StagesOK
  <1> QED BY <1>1, <1>4, <1>5, <1>6, <1>7, CapturesWhen DEF CliInv, JobsOK, PaintedOK

\* dispatch looks at the next request of its pass: what is not done was not executed.
LEMMA LooksStep ==
  ASSUME CliInv, Looks, UNCHANGED <<outer, nested>>, At("begin") \/ At("drained")
  PROVE  CliInv' /\ Captures
  <1>1. /\ todo # <<>> /\ doing = NoRequest /\ todo' = Tail(todo)
        /\ doing' = IF job[Head(todo)].done THEN NoRequest ELSE Head(todo)
        /\ UNCHANGED <<running, socket, serving, jobs, job>>
    BY DEF Looks
  <1>2. /\ Head(todo) \in Requests /\ Tail(todo) \in Seq(Requests)
        /\ \A q : Within(q, todo) <=> Within(q, Tail(todo)) \/ q = Head(todo)
        /\ Distinct(Tail(todo)) /\ ~Within(Head(todo), Tail(todo))
    BY <1>1, Dropped DEF CliInv, QueuesOK
  <1>3. ~Within(NoRequest, Tail(todo))
    BY <1>2, CliAssumption DEF Within
  <1>4. QueuesOK'
    BY <1>1, <1>2, <1>3 DEF CliInv, QueuesOK
  <1>5. ASSUME NEW q \in Requests PROVE Fits(q)' /\ Painted(q)'
    <2>1. Fits(q) /\ Painted(q)
      BY DEF CliInv, JobsOK, PaintedOK
    <2>2. q = doing' => q = Head(todo) /\ ~job[q].done
      BY <1>1, CliAssumption
    <2>3. q = doing' => job[q].phase = "ClickDone" \/ (job[q].executed = 0 /\ job[q].response = "none")
      <3>1. job[q].executed \in {0, 1}
        BY DEF CliInv, JobsOK, JobRecords
      <3> QED BY <2>1, <2>2, <3>1 DEF Fits, JobOK
    <2>4. Fits(q)'
      BY <1>1, <1>2, <2>1, <2>2, <2>3 DEF Fits
    <2>5. Painted(q)'
      BY <1>1, <1>2, <2>1, <2>2 DEF Painted, At
    <2> QED BY <2>4, <2>5
  <1>6. StagesOK'
    BY <1>1 DEF CliInv, StagesOK, At
  <1> QED BY <1>1, <1>4, <1>5, <1>6, CapturesWhen DEF CliInv, JobsOK, PaintedOK

\* dispatch handles the request, in begin_frame or in drain.
LEMMA RunsStep ==
  ASSUME CliInv, Runs(At("begin"), worlds # {}), UNCHANGED <<outer, nested>>, At("begin") \/ At("drained")
  PROVE  CliInv' /\ Captures
  <1>1. doing \in Requests /\ doing' = NoRequest /\ UNCHANGED <<running, socket, serving, jobs, todo>>
    BY DEF Runs, CliInv, QueuesOK
  <1>2. PICK a \in IF At("begin") THEN {DispatchAtBegin(job[doing], worlds # {})}
                   ELSE DispatchAtDrain(job[doing], worlds # {}) : job' = [job EXCEPT ![doing] = a]
    BY DEF Runs
  <1>3. Fits(doing) /\ Painted(doing)
    BY <1>1 DEF CliInv, JobsOK, PaintedOK
  <1>4. Dispatched(job[doing])
    BY <1>3 DEF Fits, Dispatched
  <1>5. ~(At("begin") /\ (At("drain") \/ At("drained")))
    BY DEF At
  <1>6. (worlds # {}) \in BOOLEAN
    OBVIOUS
  <1>7. /\ JobOK(a) /\ a.kind = job[doing].kind /\ (job[doing].done => a.done)
        /\ At("drain") \/ At("drained") => (a.phase = "ClickDone" => a.painted)
        /\ doing = serving /\ socket = "waiting" /\ a.done /\ a.response = "ok" /\ a.kind = "click" => a.painted
        /\ a.response = "drew nothing" /\ job[doing].response = "none" => job[doing].pixels = "blank"
    <2>1. CASE At("begin")
      <3>1. a = DispatchAtBegin(job[doing], worlds # {})
        BY <1>2, <2>1
      <3>2. /\ JobOK(a) /\ a.kind = job[doing].kind /\ (job[doing].done => a.done)
            /\ a.response \in {job[doing].response, "ok", "no world", "refused"}
            /\ a.done /\ a.response = "ok" /\ a.kind = "click" => a = job[doing]
        BY <1>4, <1>6, <3>1, AtBegin
      <3> QED BY <1>3, <1>5, <2>1, <3>2 DEF Painted
    <2>2. CASE ~At("begin")
      <3>1. At("drained")
        BY <2>2
      <3>2. a \in DispatchAtDrain(job[doing], worlds # {})
        BY <1>2, <2>2
      <3>3. /\ job[doing].phase = "ClickDone" => job[doing].painted
            /\ job[doing].phase = "CaptureArmed" /\ ~job[doing].done => job[doing].pixels # "none"
        BY <1>3, <3>1 DEF Painted
      <3> QED BY <1>4, <1>6, <3>2, <3>3, AtDrain
    <2> QED BY <2>1, <2>2
  <1>8. job \in [Requests -> JobRecords] /\ a \in JobRecords
    BY <1>7 DEF CliInv, JobsOK, JobOK
  <1>9. job' \in [Requests -> JobRecords] /\ job'[doing] = a /\ \A q \in Requests \ {doing} : job'[q] = job[q]
    BY <1>1, <1>2, <1>8
  <1>10. QueuesOK'
    <2>1. ~Within(NoRequest, todo)
      BY CliAssumption DEF CliInv, QueuesOK, Within
    <2> QED BY <1>1, <2>1 DEF CliInv, QueuesOK
  <1>11. ASSUME NEW q \in Requests PROVE Fits(q)' /\ Painted(q)'
    <2>1. Fits(q) /\ Painted(q)
      BY DEF CliInv, JobsOK, PaintedOK
    <2>2. q # doing'
      BY <1>1, CliAssumption
    <2>3. CASE q = doing
      <3>1. ~Within(q, todo)
        BY <2>3 DEF CliInv, QueuesOK
      <3>2. Fits(q)'
        BY <1>1, <1>7, <1>9, <2>1, <2>2, <2>3 DEF Fits
      <3>3. Painted(q)'
        <4>1. ~At("drain")
          BY DEF At
        <4>2. (At("drain") \/ At("drained"))' => At("drain") \/ At("drained")
          BY DEF At
        <4>3. ~At("drain")'
          BY <4>1 DEF At
        <4> QED BY <1>1, <1>7, <1>9, <2>2, <2>3, <3>1, <4>2, <4>3 DEF Painted
      <3> QED BY <3>2, <3>3
    <2>4. CASE q # doing
      <3>1. job'[q] = job[q]
        BY <1>9, <2>4
      <3>2. Fits(q)'
        BY <1>1, <2>1, <2>2, <3>1 DEF Fits
      <3>3. Painted(q)'
        BY <1>1, <2>1, <2>2, <3>1 DEF Painted, At
      <3> QED BY <3>2, <3>3
    <2> QED BY <2>3, <2>4
  <1>12. StagesOK'
    BY <1>1 DEF CliInv, StagesOK, At
  <1>13. Captures
    BY <1>7, <1>9, BlankOK DEF Captures
  <1> QED BY <1>9, <1>10, <1>11, <1>12, <1>13 DEF CliInv, JobsOK, PaintedOK

\* The frame paints what was executed, and reads back for every capture that is armed.
LEMMA DrawsStep ==
  ASSUME CliInv, NEW shown \in BOOLEAN, Draws(shown), At("draw"), At("drain")', ~At("drained")',
         outer \notin {"joining", "disposing", "waiting", "ended"},
         outer' \notin {"joining", "disposing", "waiting", "ended"}
  PROVE  CliInv' /\ Captures
  <1> DEFINE Takes(r) == /\ running /\ job[r].phase = "CaptureArmed" /\ ~job[r].done
                         /\ \E n \in DOMAIN jobs : jobs[n] = r
             pixels(r) == IF Takes(r) THEN IF shown THEN "read" ELSE "blank" ELSE "none"
  <1>1. UNCHANGED <<running, socket, serving, jobs, todo, doing>>
    BY DEF Draws
  <1>2. running /\ Passed
    <2>1. ~(At("begin") \/ At("drained"))
      BY DEF At
    <2> QED BY <2>1 DEF CliInv, StagesOK
  <1>3. ASSUME NEW q \in Requests
        PROVE  /\ job'[q] \in JobRecords /\ JobOK(job'[q])
               /\ job'[q].kind = job[q].kind /\ job'[q].phase = job[q].phase /\ job'[q].done = job[q].done
               /\ job'[q].response = job[q].response /\ job'[q].executed = job[q].executed
               /\ job[q].painted \/ job[q].executed = 1 => job'[q].painted
               /\ Takes(q) => job'[q].pixels # "none"
    <2>1. Fits(q) /\ job[q] \in JobRecords
      BY DEF CliInv, JobsOK
    <2>2. pixels(q) \in {"none", "read", "blank"}
      OBVIOUS
    <2>3. PICK k : k = [job[q] EXCEPT !.painted = @ \/ job[q].executed > 0, !.pixels = pixels(q)]
      OBVIOUS
    <2>4. job'[q] = k
      BY <2>3 DEF Draws
    <2>5. (job[q].painted \/ job[q].executed > 0) \in BOOLEAN
      BY <2>1 DEF JobRecords
    <2>6. k \in JobRecords
      <3> HIDE DEF pixels
      <3> QED BY <2>1, <2>2, <2>3, <2>5 DEF JobRecords
    <2>7. /\ k.kind = job[q].kind /\ k.phase = job[q].phase /\ k.done = job[q].done
          /\ k.response = job[q].response /\ k.executed = job[q].executed
          /\ k.painted = (job[q].painted \/ job[q].executed > 0)
          /\ k.pixels = pixels(q)
      <3> HIDE DEF pixels
      <3> QED BY <2>1, <2>3 DEF JobRecords
    <2>8. k.kind = "none" => k = Blank
      <3> SUFFICES ASSUME k.kind = "none" PROVE k = Blank
        OBVIOUS
      <3>1. job[q] = Blank
        BY <2>1, <2>7 DEF Fits, JobOK
      <3>2. ~Takes(q)
        BY <3>1 DEF Blank
      <3>3. pixels(q) = "none"
        BY <3>2
      <3> HIDE DEF pixels
      <3>4. job[q].executed = 0 /\ ~job[q].painted /\ job[q].pixels = "none" /\ ~(job[q].executed > 0)
        BY <3>1 DEF Blank
      <3>5. k = [job[q] EXCEPT !.painted = FALSE, !.pixels = "none"]
        BY <2>3, <3>3, <3>4
      <3>6. [Blank EXCEPT !.painted = FALSE, !.pixels = "none"] = Blank
        <4>1. Blank.painted = FALSE /\ Blank.pixels = "none"
          BY DEF Blank
        <4> QED BY <4>1, BlankOK DEF JobRecords
      <3> QED BY <3>1, <3>5, <3>6
    <2>9. JobOK(k)
      BY <2>1, <2>6, <2>7, <2>8 DEF JobOK, Fits
    <2>10. Takes(q) => pixels(q) # "none"
      OBVIOUS
    <2> HIDE DEF pixels, Takes
    <2>11. job[q].painted \/ job[q].executed = 1 => k.painted
      <3>1. job[q].executed = 1 => job[q].executed > 0
        OBVIOUS
      <3>2. (job[q].painted \/ job[q].executed > 0) <=> k.painted
        BY <2>7
      <3> QED BY <3>1, <3>2
    <2>12. Takes(q) => k.pixels # "none"
      BY <2>7, <2>10
    <2> QED BY <2>4, <2>6, <2>7, <2>9, <2>11, <2>12
  <1>4. job' \in [Requests -> JobRecords]
    BY <1>3 DEF Draws
  <1>5. ASSUME NEW q \in Requests PROVE Fits(q)' /\ Painted(q)'
    <2>1. Fits(q) /\ Painted(q)
      BY DEF CliInv, JobsOK, PaintedOK
    <2>2. Fits(q)'
      BY <1>1, <1>3, <2>1 DEF Fits
    <2>3. job'[q].phase = "ClickDone" => job'[q].painted
      BY <1>3, <2>1 DEF Fits, JobOK
    <2>4. job'[q].phase = "CaptureArmed" /\ ~job'[q].done => job'[q].pixels # "none"
      <3> SUFFICES ASSUME job'[q].phase = "CaptureArmed", ~job'[q].done PROVE Takes(q)
        BY <1>3
      <3>1. job[q].kind = "screenshot"
        BY <1>3, <2>1 DEF Fits, JobOK
      <3>2. Within(q, jobs)
        BY <1>2, <1>3, <2>1, <3>1 DEF Fits
      <3> QED BY <1>2, <1>3, <3>2 DEF Within
    <2>5. Painted(q)'
      BY <1>1, <1>3, <2>1, <2>3, <2>4 DEF Painted
    <2> QED BY <2>2, <2>5
  <1>6. QueuesOK'
    BY <1>1 DEF CliInv, QueuesOK
  <1>7. StagesOK'
    <2>1. Passed'
      BY <1>1, <1>2 DEF Passed
    <2> QED BY <1>1, <1>2, <2>1 DEF StagesOK
  <1>8. Captures
    BY <1>3, CapturesWhen
  <1> QED BY <1>4, <1>5, <1>6, <1>7, <1>8 DEF CliInv, JobsOK, PaintedOK

\* drain ends: the queue keeps what is not done, and what nobody refers to is freed.
LEMMA EndDrainStep ==
  ASSUME CliInv, EndDrain, Passed, ~At("drain")', ~At("drained")',
         outer \notin {"joining", "disposing", "waiting", "ended"},
         outer' \notin {"joining", "disposing", "waiting", "ended"}
  PROVE  CliInv' /\ Captures
  <1>1. /\ running /\ jobs' = Undone /\ job' = Freed(job, serving, jobs')
        /\ UNCHANGED <<running, socket, serving, todo, doing>>
    BY DEF EndDrain, CliInv, StagesOK, QueuesOK
  <1>2. /\ jobs' \in Seq(Requests) /\ Distinct(jobs')
        /\ \A r \in Requests : Within(r, jobs') <=> Within(r, jobs) /\ ~job[r].done
    BY <1>1, UndoneIs DEF CliInv, QueuesOK
  <1>3. job \in [Requests -> JobRecords]
    BY DEF CliInv, JobsOK
  <1>4. job' \in [Requests -> JobRecords]
    BY <1>1, <1>3, FreedIs
  <1>5. ASSUME NEW q \in Requests
        PROVE  job'[q] = IF q = serving \/ Within(q, jobs') \/ Within(q, todo) \/ q = doing THEN job[q] ELSE Blank
    BY <1>1, <1>3, FreedIs
  <1>6. QueuesOK'
    BY <1>1, <1>2 DEF CliInv, QueuesOK
  <1>7. ASSUME NEW q \in Requests PROVE Fits(q)' /\ Painted(q)'
    <2>1. Fits(q) /\ Painted(q)
      BY DEF CliInv, JobsOK, PaintedOK
    <2>2. CASE q = serving \/ Within(q, jobs') \/ Within(q, todo) \/ q = doing
      <3>1. job'[q] = job[q]
        BY <1>5, <2>2
      <3>2. Fits(q)'
        BY <1>1, <1>2, <2>1, <3>1 DEF Fits
      <3>3. Painted(q)'
        BY <1>1, <2>1, <3>1 DEF Painted
      <3> QED BY <3>2, <3>3
    <2>3. CASE ~(q = serving \/ Within(q, jobs') \/ Within(q, todo) \/ q = doing)
      <3>1. job'[q] = Blank
        BY <1>5, <2>3
      <3>2. Fits(q)'
        BY <1>1, <2>3, <3>1, BlankOK DEF Fits
      <3>3. Painted(q)'
        BY <3>1, BlankOK DEF Painted
      <3> QED BY <3>2, <3>3
    <2> QED BY <2>2, <2>3
  <1>8. StagesOK'
    BY <1>1 DEF CliInv, StagesOK, Passed
  <1>9. Captures
    BY <1>5, CapturesWhen
  <1> QED BY <1>4, <1>6, <1>7, <1>8, <1>9 DEF CliInv, JobsOK, PaintedOK

\* stop asks the thread to end.
LEMMA StopAsksStep ==
  ASSUME CliInv, StopAsks, outer = "stopping", outer' = "joining", nested = "none", nested' = "none"
  PROVE  CliInv' /\ Captures
  <1>1. running' = FALSE /\ UNCHANGED <<socket, serving, jobs, job, todo, doing>>
    BY DEF StopAsks
  <1>2. \A q \in Requests : Fits(q) => Fits(q)'
    BY <1>1 DEF Fits
  <1>3. \A q \in Requests : Painted(q) => Painted(q)'
    BY <1>1 DEF Painted, At
  <1>4. QueuesOK' /\ StagesOK'
    BY <1>1 DEF CliInv, QueuesOK, StagesOK, At, Passed
  <1> QED BY <1>1, <1>2, <1>3, <1>4, CapturesWhen DEF CliInv, JobsOK, PaintedOK

\* stop joins the thread, and forgets what is left.
LEMMA StopJoinsStep ==
  ASSUME CliInv, StopJoins, outer = "joining", outer' = "disposing", nested = "none", nested' = "none"
  PROVE  CliInv' /\ Captures
  <1>1. /\ socket = "ended" /\ jobs' = <<>> /\ job' = Freed(job, NoRequest, <<>>)
        /\ UNCHANGED <<running, socket, serving, todo, doing>>
    BY DEF StopJoins
  <1>2. ~running /\ Passed
    BY DEF CliInv, StagesOK, At
  <1>3. job \in [Requests -> JobRecords]
    BY DEF CliInv, JobsOK
  <1>4. job' \in [Requests -> JobRecords]
    BY <1>1, <1>3, FreedIs
  <1>5. ASSUME NEW q \in Requests PROVE job'[q] = Blank
    <2>1. q # NoRequest /\ ~Within(q, <<>>) /\ ~Within(q, todo) /\ q # doing
      BY <1>2, Nothing, CliAssumption DEF Passed
    <2> QED BY <1>1, <1>3, <2>1, FreedIs
  <1>6. \A q \in Requests : Fits(q)' /\ Painted(q)'
    <2> TAKE q \in Requests
    <2>1. job'[q] = Blank /\ q # doing' /\ ~Within(q, todo') /\ ~Within(q, jobs')
      BY <1>1, <1>2, <1>5, Nothing, CliAssumption DEF Passed
    <2>2. Fits(q)'
      BY <1>1, <2>1, BlankOK DEF Fits
    <2>3. Painted(q)'
      BY <2>1, BlankOK DEF Painted
    <2> QED BY <2>2, <2>3
  <1>7. QueuesOK' /\ StagesOK'
    BY <1>1, <1>2, Nothing DEF CliInv, QueuesOK, StagesOK, At, Passed
  <1> QED BY <1>4, <1>5, <1>6, <1>7, CapturesWhen DEF CliInv, JobsOK, PaintedOK

--------------------------------------------------------------------------------
(* Requests, in the frame.                                                      *)

\* Init establishes the invariant of the requests.
LEMMA CliBegins == Init => CliInv
  <1> SUFFICES ASSUME Init PROVE CliInv
    OBVIOUS
  <1>1. /\ running = TRUE /\ socket = "listen" /\ serving = NoRequest /\ jobs = <<>> /\ todo = <<>> /\ doing = NoRequest
        /\ job = [r \in Requests |-> Blank] /\ outer = "begin" /\ nested = "none"
    BY DEF Init, CliInit
  <1>2. QueuesOK
    BY <1>1, Nothing DEF QueuesOK
  <1>3. JobsOK
    BY <1>1, BlankOK, Nothing, CliAssumption DEF JobsOK, Fits
  <1>4. PaintedOK
    BY <1>1, BlankOK DEF PaintedOK, Painted
  <1>5. StagesOK
    BY <1>1 DEF StagesOK, At
  <1> QED BY <1>2, <1>3, <1>4, <1>5 DEF CliInv

\* Every step of the frame, the thread and what runs beside them.
LEMMA CliKept ==
  ASSUME LoopInv, CliInv, [Next]_vars
  PROVE  CliInv' /\ Captures
  <1>1. ~(At("begin") \/ At("drained")) => Passed
    BY DEF CliInv, StagesOK
  <1>2. CASE UNCHANGED <<cliVars, outer, nested>>
    <2>1. \A stage \in Stages : At(stage)' = At(stage)
      BY <1>2 DEF At
    <2> QED BY <1>1, <1>2, <2>1, StageStep DEF Stages
  <1>3. CASE FrameBegins
    BY <1>3, StageStep DEF FrameBegins, At, GoTo, LoopInv
  <1>4. CASE PollHandles
    <2>1. outer = "poll" /\ nested = "none" /\ outer' = outer /\ Passed
      BY <1>1, <1>4 DEF PollHandles, At
    <2>2. CASE UNCHANGED <<nested, cliVars>>
      BY <1>2, <2>1, <2>2
    <2>3. CASE nested' = "begin" /\ StartPass
      BY <2>1, <2>3, StartPassStep DEF At
    <2> QED BY <1>4, <2>2, <2>3 DEF PollHandles
  <1>5. CASE PollReturns \/ Calling
    <2>1. Passed /\ UNCHANGED cliVars /\ nested = "none" /\ nested' = "none" /\ outer \in {"poll", "calls"}
          /\ outer' \in {"calls", "simulate"}
      BY <1>1, <1>5 DEF PollReturns, Calling, At
    <2> QED BY <2>1, StageStep DEF At
  <1>6. CASE Simulates
    <2>1. CASE UNCHANGED <<outer, nested>>
      BY <1>2, <1>6, <2>1 DEF Simulates
    <2>2. CASE GoTo("draw")
      <3>1. Passed /\ UNCHANGED cliVars
        BY <1>1, <1>6 DEF Simulates, At
      <3> QED BY <1>6, <2>2, <3>1, StageStep DEF Simulates, GoTo, At, LoopInv
    <2> QED BY <1>6, <2>1, <2>2 DEF Simulates
  <1>7. CASE UsesCalls
    BY <1>2, <1>7 DEF UsesCalls, loopVars
  <1>8. CASE Paints
    <2>1. PICK shown \in BOOLEAN : Draws(shown)
      BY <1>8 DEF Paints
    <2>2. At("draw") /\ GoTo("drain")
      BY <1>8 DEF Paints
    <2>3. /\ At("drain")' /\ ~At("drained")'
          /\ outer \notin {"joining", "disposing", "waiting", "ended"}
          /\ outer' \notin {"joining", "disposing", "waiting", "ended"}
      BY <2>2 DEF At, GoTo, LoopInv
    <2> QED BY <2>1, <2>2, <2>3, DrawsStep
  <1>9. CASE DrainBegins
    <2>1. At("drain") /\ GoTo("drained") /\ StartPass
      BY <1>9 DEF DrainBegins
    <2>2. /\ At("drained")' /\ ~At("drain")' /\ Passed
          /\ outer \notin {"joining", "disposing", "waiting", "ended"}
          /\ outer' \notin {"joining", "disposing", "waiting", "ended"}
      BY <1>1, <2>1 DEF At, GoTo, LoopInv
    <2> QED BY <2>1, <2>2, StartPassStep
  <1>10. CASE Dispatches
    BY <1>10, LooksStep, RunsStep DEF Dispatches, loopVars
  <1>11. CASE DrainReturns
    <2>1. EndDrain /\ Passed /\ At("drained")
      BY <1>11 DEF DrainReturns
    <2>2. /\ ~At("drain")' /\ ~At("drained")'
          /\ outer \notin {"joining", "disposing", "waiting", "ended"}
          /\ outer' \notin {"joining", "disposing", "waiting", "ended"}
      BY <1>11 DEF DrainReturns, At, LoopInv
    <2> QED BY <2>1, <2>2, EndDrainStep
  <1>12. CASE FrameEnds
    <2>1. outer = "end" /\ nested = "none" /\ nested' = "none" /\ Passed
      BY <1>1, <1>12 DEF FrameEnds, At
    <2>2. CASE outer' = "begin" /\ StartPass
      BY <2>1, <2>2, StartPassStep DEF At
    <2>3. CASE outer' = "stopping" /\ UNCHANGED cliVars
      BY <2>1, <2>3, StageStep DEF At
    <2> QED BY <1>12, <2>2, <2>3 DEF FrameEnds
  <1>13. CASE Ends
    <2>1. nested = "none" /\ nested' = "none"
      BY <1>13 DEF Ends
    <2>2. CASE outer = "stopping" /\ outer' = "joining" /\ StopAsks
      BY <2>1, <2>2, StopAsksStep
    <2>3. CASE outer = "joining" /\ outer' = "disposing" /\ StopJoins
      BY <2>1, <2>3, StopJoinsStep
    <2>4. CASE UNCHANGED cliVars /\ outer \in {"disposing", "waiting"} /\ outer' \in {"disposing", "waiting", "ended"}
      BY <1>1, <2>1, <2>4, StageStep DEF At
    <2> QED BY <1>13, <2>2, <2>3, <2>4 DEF Ends
  <1>14. CASE Socket /\ UNCHANGED loopVars
    BY <1>14, ComesStep, ReceivesStep, WaitEndsStep, ThreadEndsStep DEF Socket, ClientConnects, loopVars
  <1>15. CASE UNCHANGED <<cliVars, loopVars>>
    BY <1>2, <1>15 DEF loopVars
  <1>16. UNCHANGED vars => UNCHANGED <<cliVars, loopVars>>
    BY DEF vars
  <1> QED BY <1>3, <1>4, <1>5, <1>6, <1>7, <1>8, <1>9, <1>10, <1>11, <1>12, <1>13, <1>14, <1>15, <1>16 DEF Next, Loop

\* What a client is told is so: a request runs once at most, an "ok" for a click follows its paint, what is
\* refused did not run, and an empty window was read and found empty (AnswersAreTrue).
THEOREM AnswersHold == Spec => AnswersAreTrue
  <1> DEFINE Once == \A r \in Requests : job[r].executed <= 1
             Told1 == socket = "waiting" /\ socket' # "waiting" =>
                        LET j == job[serving] IN
                        /\ Told(serving) \in {"no world", "refused"} => j.executed = 0
                        /\ Told(serving) = "ok" /\ j.kind # "screenshot" => j.executed = 1
                        /\ Told(serving) = "ok" /\ j.kind = "click" => j.painted
  <1>1. Init => LoopInv /\ CliInv
    BY LoopBegins, CliBegins
  <1>2. (LoopInv /\ CliInv) /\ [Next]_vars => (LoopInv /\ CliInv)'
    BY LoopKept, CliKept
  <1>3. LoopInv /\ CliInv => Once
    <2> SUFFICES ASSUME CliInv, NEW r \in Requests PROVE job[r].executed <= 1
      OBVIOUS
    <2>1. job[r] \in JobRecords
      BY DEF CliInv, JobsOK
    <2>2. job[r].executed \in {0, 1}
      BY <2>1 DEF JobRecords
    <2> QED BY <2>2
  <1>4. (LoopInv /\ CliInv) /\ [Next]_vars => [Told1]_cliVars
    <2> SUFFICES ASSUME CliInv, socket = "waiting"
                 PROVE  LET j == job[serving] IN
                        /\ Told(serving) \in {"no world", "refused"} => j.executed = 0
                        /\ Told(serving) = "ok" /\ j.kind # "screenshot" => j.executed = 1
                        /\ Told(serving) = "ok" /\ j.kind = "click" => j.painted
      OBVIOUS
    <2>1. serving \in Requests
      BY DEF CliInv, QueuesOK
    <2>2. Fits(serving) /\ Painted(serving)
      BY <2>1 DEF CliInv, JobsOK, PaintedOK
    <2>3. Told(serving) \in {"no world", "refused", "ok"} => job[serving].done /\ Told(serving) = job[serving].response
      BY DEF Told
    <2> QED BY <2>2, <2>3 DEF Fits, JobOK, Painted
  <1>5. (LoopInv /\ CliInv) /\ [Next]_vars => [Captures]_cliVars
    BY CliKept
  <1> QED BY <1>1, <1>2, <1>3, <1>4, <1>5, PTL DEF Spec, AnswersAreTrue, Captures
================================================================================
