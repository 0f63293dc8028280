------------------------------- MODULE Processes -------------------------------
(* Child processes: the calls the game holds, the program and the group it runs *)
(* in, the thread that reads what they print, and the launcher's poll and       *)
(* dispose on the main thread, which the frame runs (Host).  Lines are counted; *)
(* a pipe stays open while the program, a process it left in its group or a     *)
(* straggler that left the group holds it.                                      *)
EXTENDS Naturals, FiniteSets

CONSTANTS Calls,
          MaxLines   \* bound: lines printed to one pipe

NoChild == "none"

ASSUME ProcessAssumption == IsFiniteSet(Calls) /\ MaxLines \in Nat /\ NoChild \notin Calls

VARIABLES
  call,      \* what the holder, the launcher and the reader thread share of each call
  child,     \* the program of each call, its group, its pipe and its reader
  polling,   \* children this poll has still to visit
  visited    \* the child between its exit and its output, "none" between children

processVars == <<call, child, polling, visited>>

NoResult == "none"

ProcessInit ==
  /\ call = [c \in Calls |->
       [holder |-> "none", list |-> "none", cancelled |-> FALSE, result |-> NoResult, taken |-> FALSE,
        incoming |-> 0, output |-> 0, closed |-> FALSE, exit |-> FALSE]]
  /\ child = [c \in Calls |-> [program |-> "none", pipe |-> {}, killed |-> FALSE, wrote |-> 0, unread |-> 0]]
  /\ polling = {} /\ visited = NoChild

--------------------------------------------------------------------------------
(* The game, on the main thread.                                                *)

\* run: a child and its reader, or a call that fails at the next poll.
Run(c) ==
  /\ call[c].holder = "none"
  /\ \/ /\ call' = [call EXCEPT ![c].holder = "held", ![c].list = "running"]
        /\ child' = [child EXCEPT ![c].program = "running", ![c].pipe = {"program"}]
     \/ /\ call' = [call EXCEPT ![c].holder = "held", ![c].list = "failed"]
        /\ UNCHANGED child
  /\ UNCHANGED <<polling, visited>>

\* cancel, and the destruction of a call that is pending: the next poll acts on the mark.
Cancel(c) ==
  /\ call[c].holder = "held" /\ call[c].result = NoResult
  /\ call' = [call EXCEPT ![c].holder = "gone", ![c].cancelled = TRUE]
  /\ UNCHANGED <<child, polling, visited>>

\* take: the result, once.
Take(c) ==
  /\ call[c].holder = "held" /\ call[c].result # NoResult /\ ~call[c].taken
  /\ call' = [call EXCEPT ![c].taken = TRUE]
  /\ UNCHANGED <<child, polling, visited>>

GameStep(c) == Run(c) \/ Cancel(c) \/ Take(c)

--------------------------------------------------------------------------------
(* The child and the thread that reads its output.                              *)

\* External: a line is printed by whoever holds the pipe.
Prints(c) ==
  /\ child[c].pipe # {} /\ child[c].wrote < MaxLines
  /\ child' = [child EXCEPT ![c].wrote = @ + 1, ![c].unread = @ + 1]
  /\ UNCHANGED <<call, polling, visited>>

\* External: the program leaves a process behind, in its group or, after setsid, out of it.
Forks(c) ==
  /\ child[c].program = "running" /\ "program" \in child[c].pipe
  /\ \E holder \in {"group", "straggler"} \ child[c].pipe :
       child' = [child EXCEPT ![c].pipe = @ \cup {holder}]
  /\ UNCHANGED <<call, polling, visited>>

\* External: whoever holds the pipe closes it, and what the program left behind ends with that.
Closes(c) ==
  /\ \E holder \in child[c].pipe : child' = [child EXCEPT ![c].pipe = @ \ {holder}]
  /\ UNCHANGED <<call, polling, visited>>

\* External: the program ends by itself.
Exits(c) ==
  /\ child[c].program = "running"
  /\ child' = [child EXCEPT ![c].pipe = @ \ {"program"}, ![c].program = "exited"]
  /\ UNCHANGED <<call, polling, visited>>

\* External: SIGKILL reaches the group, and nothing that left it.
Dies(c) ==
  /\ child[c].killed
  /\ child[c].program = "running" \/ "group" \in child[c].pipe
  /\ child' = [child EXCEPT ![c].pipe = @ \ {"program", "group"}, ![c].program = "exited"]
  /\ UNCHANGED <<call, polling, visited>>

\* read_output: push the lines there are.
PushLines(c) ==
  /\ child[c].unread > 0
  /\ call' = [call EXCEPT ![c].incoming = @ + child[c].unread]
  /\ child' = [child EXCEPT ![c].unread = 0]
  /\ UNCHANGED <<polling, visited>>

\* read_output: the end of the pipe.
CloseOutput(c) ==
  /\ call[c].list = "running" /\ ~call[c].closed
  /\ child[c].pipe = {} /\ child[c].unread = 0
  /\ call' = [call EXCEPT ![c].closed = TRUE]
  /\ UNCHANGED <<child, polling, visited>>

ReaderStep(c) == PushLines(c) \/ CloseOutput(c)
WorldStep(c) == Prints(c) \/ Forks(c) \/ Closes(c) \/ Exits(c) \/ Dies(c)

--------------------------------------------------------------------------------
(* poll, on the main thread: the failed calls, then child after child.          *)

Polled == visited = NoChild /\ polling = {}

StartPoll ==
  /\ polling' = {c \in Calls : call[c].list = "running"}
  /\ call' = [c \in Calls |->
       IF call[c].list # "failed" THEN call[c]
       ELSE [call[c] EXCEPT !.list = "none",
                            !.result = IF call[c].cancelled THEN NoResult ELSE "error"]]
  /\ UNCHANGED <<child, visited>>

\* A cancelled child is ended; else waitpid, and with the exit its group is ended.
\* What was cancelled stays so: only the main thread cancels.
PollExit(c) ==
  /\ visited = NoChild /\ c \in polling
  /\ visited' = c
  /\ polling' = polling \ {c}
  /\ LET exited == child[c].program = "exited" IN
       /\ call' = [call EXCEPT ![c].exit = @ \/ (~call[c].cancelled /\ exited)]
       /\ child' = [child EXCEPT ![c].killed = @ \/ call[c].cancelled \/ exited]

\* Mutant of Whole: the result does not wait for the end of the output.
WholeAtExit(c) == call[c].exit \/ (call[c].cancelled /\ call[c].closed)

\* The output is closed and every line of it moved, and the exit is known.
Whole(c) == call[c].closed /\ (call[c].cancelled \/ call[c].exit)

\* deliver_output, and the result once nothing can follow it.  ~GroupProcess waits for the program.
Deliver(c) ==
  /\ visited = c
  /\ Whole(c) => child[c].program = "exited"
  /\ visited' = NoChild
  /\ call' = [call EXCEPT
       ![c].incoming = 0,
       ![c].output = IF call[c].cancelled THEN @ ELSE @ + call[c].incoming,
       ![c].list = IF Whole(c) THEN "none" ELSE @,
       ![c].result = IF Whole(c) /\ ~call[c].cancelled THEN "exit" ELSE @]
  /\ UNCHANGED <<child, polling>>

PollStep == \E c \in Calls : PollExit(c) \/ Deliver(c)

--------------------------------------------------------------------------------
(* dispose: every call is cancelled and every group ended, then every reader    *)
(* joined and every program waited for.                                         *)

\* Still to cancel, and its group still to end.
Endable == {c \in Calls : \/ call[c].list = "failed"
                          \/ call[c].list = "running" /\ ~(call[c].cancelled /\ child[c].killed)}

DisposeEnds(c) ==
  /\ c \in Endable
  /\ call' = [call EXCEPT ![c].cancelled = TRUE, ![c].list = IF @ = "failed" THEN "none" ELSE @]
  /\ child' = [child EXCEPT ![c].killed = @ \/ call[c].list = "running"]
  /\ UNCHANGED <<polling, visited>>

DisposeJoins ==
  /\ \A c \in Calls : call[c].list = "running" => call[c].closed /\ child[c].program = "exited"
  /\ call' = [c \in Calls |-> [call[c] EXCEPT !.list = "none"]]
  /\ UNCHANGED <<child, polling, visited>>

\* A process out of reach of the launcher holds the pipe of a call.
Straggling == \E c \in Calls : call[c].list = "running" /\ "straggler" \in child[c].pipe

--------------------------------------------------------------------------------
StatusOf(c) ==
  CASE call[c].holder = "none" -> "none"
    [] call[c].holder = "held" /\ call[c].result # NoResult -> IF call[c].taken THEN "taken" ELSE "resolved"
    [] call[c].holder = "held" /\ call[c].result = NoResult /\ ~call[c].cancelled -> "pending"
    [] OTHER -> "cancelled"

Contract == INSTANCE CallContract WITH status <- [c \in Calls |-> StatusOf(c)]

\* A process call keeps the contract of a call too; "The poll that brings the result also brings every
\* line before it" (Process.md) and nothing is printed to a call after its result, nor after a cancel.
ProcessesKeepContract ==
  /\ Contract!Spec
  /\ [](\A c \in Calls : call[c].result = "exit" => call[c].output = child[c].wrote /\ child[c].pipe = {})
  /\ [][\A c \in Calls : call[c].cancelled => call'[c].output = call[c].output]_call
================================================================================
