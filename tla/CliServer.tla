------------------------------- MODULE CliServer -------------------------------
(* The server of wind-cli: a thread that takes one request at a time from a     *)
(* socket, queues it and waits at most five seconds, and the frame, which works *)
(* the queue off in begin_frame and drain and reads pixels back in between.     *)
(* The frame itself, and the worlds a request looks up, are Host's.             *)
EXTENDS Naturals, Sequences

CONSTANTS Requests,
          Kinds      \* what a request may ask: "click", "query", "profile", "screenshot", "host", or
             \* "malformed": parse_request finds an error

NoRequest == "none"

ASSUME CliAssumption ==
  Kinds \subseteq {"click", "query", "profile", "screenshot", "host", "malformed"} /\ NoRequest \notin Requests

VARIABLES
  running,    \* self.running
  socket,     \* the thread: "listen", "receiving", "waiting" for a request, or "ended"
  serving,    \* the request it serves
  jobs,       \* the queue
  job,        \* each request
  todo,       \* main thread: what this pass over a copy of the queue has left
  doing       \* main thread: the request between the check that it is not done and its execution

cliVars == <<running, socket, serving, jobs, job, todo, doing>>

\* Of the model, what the engine did for the request: how often its command was executed (a profile that
\* is asked again every frame counts once, at its final answer), whether draw_all ran after that (with its
\* window shown or not), and what was read back for it.
Blank == [kind |-> "none", phase |-> "New", done |-> FALSE, response |-> "none",
          executed |-> 0, painted |-> FALSE, pixels |-> "none"]

CliInit ==
  /\ running = TRUE /\ socket = "listen" /\ serving = NoRequest
  /\ jobs = <<>> /\ todo = <<>> /\ doing = NoRequest
  /\ job = [r \in Requests |-> Blank]

\* A job goes with the last that refers to it: the thread, the queue or the pass over its copy.
Freed(f, served, queue) ==
  [r \in Requests |->
     IF r = served \/ (\E n \in DOMAIN queue : queue[n] = r) \/ (\E n \in DOMAIN todo : todo[n] = r) \/ r = doing
     THEN f[r] ELSE Blank]

--------------------------------------------------------------------------------
(* accept_loop and handle_client.                                               *)

\* The loop's condition; a thread that saw it hold may accept one more client after a stop.
NextClient == IF running THEN "listen" ELSE "ended"

\* External: a client connects.
ClientComes(r) ==
  /\ socket = "listen" /\ job[r] = Blank
  /\ socket' = "receiving" /\ serving' = r
  /\ UNCHANGED <<running, jobs, job, todo, doing>>

\* Its request is read and queued, or it goes away, or what it sent is refused at once.
Receives ==
  /\ socket = "receiving"
  /\ \/ \E kind \in Kinds :
          /\ job' = [job EXCEPT ![serving].kind = kind]
          /\ jobs' = Append(jobs, serving)
          /\ socket' = "waiting"
        /\ UNCHANGED serving
     \/ /\ socket' = NextClient /\ serving' = NoRequest
        /\ UNCHANGED <<jobs, job>>
  /\ UNCHANGED <<running, todo, doing>>

\* What the client is told.
Told(r) == IF job[r].done THEN job[r].response ELSE IF running THEN "timeout" ELSE "stopped"

\* Mutant of WaitEnds: the wait has no time limit.
WaitEndsAnswered ==
  /\ socket = "waiting" /\ job[serving].done
  /\ socket' = NextClient /\ serving' = NoRequest
  /\ job' = Freed(job, NoRequest, jobs)
  /\ UNCHANGED <<running, jobs, todo, doing>>

\* wait_for ends: with the answer, or by its five seconds (a stop notifies nobody here), and then
\* the job is done: abandoned.
WaitEnds ==
  /\ socket = "waiting"
  /\ socket' = NextClient /\ serving' = NoRequest
  /\ job' = Freed([job EXCEPT ![serving].done = TRUE], NoRequest, jobs)
  /\ UNCHANGED <<running, jobs, todo, doing>>

\* select timed out, or the second look at `running` found the stop.
ThreadEnds ==
  /\ socket = "listen" /\ ~running
  /\ socket' = "ended"
  /\ UNCHANGED <<running, serving, jobs, job, todo, doing>>

--------------------------------------------------------------------------------
(* begin_frame, capture_requests and drain, on the main thread.                 *)

\* A pass over a copy of the queue.
StartPass ==
  /\ todo' = IF running THEN jobs ELSE <<>>
  /\ UNCHANGED <<running, socket, serving, jobs, job, doing>>

Passed == todo = <<>> /\ doing = NoRequest

\* dispatch looks at a job: skipped when done.
Looks ==
  /\ todo # <<>> /\ doing = NoRequest
  /\ todo' = Tail(todo)
  /\ doing' = IF job[Head(todo)].done THEN NoRequest ELSE Head(todo)
  /\ UNCHANGED <<running, socket, serving, jobs, job>>

\* finish: a job the thread abandoned meanwhile keeps its state.
Finished(j, response) == IF j.done THEN j ELSE [j EXCEPT !.done = TRUE, !.response = response]
Executed(j) == [j EXCEPT !.executed = @ + 1]

\* Mutant of Clicked: the click is answered by the frame that executes it, before it is painted.
ClickedAtOnce(j) == Finished(Executed(j), "ok")

\* begin_frame executes an armed click; the response waits in the job.
Clicked(j) ==
  IF j.done THEN Executed(j) ELSE [Executed(j) EXCEPT !.response = "ok", !.phase = "ClickDone"]

\* dispatch, in begin_frame.
DispatchAtBegin(j, world) ==
  CASE j.kind = "malformed" -> Finished(j, "refused")
    [] j.kind = "click" /\ j.phase = "ClickArmed" -> IF world THEN Clicked(j) ELSE Finished(j, "no world")
    [] OTHER -> j

\* dispatch, in drain: a screenshot's path may not do, a profile may have to run on.
DispatchAtDrain(j, world) ==
  CASE j.kind = "malformed" -> {Finished(j, "refused")}
    [] j.kind = "screenshot" ->
         IF j.phase = "New" THEN {[j EXCEPT !.phase = "CaptureArmed"], Finished(j, "refused")}
         ELSE {Finished(j, IF j.pixels = "read" THEN "ok" ELSE "drew nothing")}
    [] j.kind = "host" -> {Finished(Executed(j), "ok")}
    [] j.phase = "ClickDone" -> {Finished(j, "ok")}
    [] j.kind \in {"click", "query", "profile"} /\ j.phase # "ClickDone" /\ ~world -> {Finished(j, "no world")}
    [] j.kind = "click" /\ j.phase # "ClickDone" /\ world -> {[j EXCEPT !.phase = "ClickArmed"]}
    [] j.kind = "query" /\ world -> {Finished(Executed(j), "ok")}
    [] j.kind = "profile" /\ world -> {[j EXCEPT !.phase = "ProfileWait"], Finished(Executed(j), "ok")}

Runs(begin, world) ==
  /\ doing # NoRequest
  /\ \E after \in IF begin THEN {DispatchAtBegin(job[doing], world)} ELSE DispatchAtDrain(job[doing], world) :
       job' = [job EXCEPT ![doing] = after]
  /\ doing' = NoRequest
  /\ UNCHANGED <<running, socket, serving, jobs, todo>>

\* What is left of the queue without the jobs that are done.
Undone ==
  LET kept[n \in 0 .. Len(jobs)] ==
        IF n = 0 THEN <<>> ELSE IF job[jobs[n]].done THEN kept[n - 1] ELSE Append(kept[n - 1], jobs[n])
  IN kept[Len(jobs)]

\* drain ends: the queue keeps what is not done.
EndDrain ==
  /\ jobs' = IF running THEN Undone ELSE jobs
  /\ job' = Freed(job, serving, jobs')
  /\ UNCHANGED <<running, socket, serving, todo, doing>>

\* capture_requests, and what draw_all then painted and read back.
Draws(world) ==
  /\ job' = [r \in Requests |->
       [job[r] EXCEPT !.painted = @ \/ job[r].executed > 0,
                      !.pixels = IF /\ running /\ job[r].phase = "CaptureArmed" /\ ~job[r].done
                                    /\ \E n \in DOMAIN jobs : jobs[n] = r
                                 THEN IF world THEN "read" ELSE "blank" ELSE "none"]]
  /\ UNCHANGED <<running, socket, serving, jobs, todo, doing>>

--------------------------------------------------------------------------------
(* stop, on the main thread.                                                    *)

StopAsks ==
  /\ running' = FALSE
  /\ UNCHANGED <<socket, serving, jobs, job, todo, doing>>

\* The thread is joined; what is left in the queue is finished with 503, for nobody.
StopJoins ==
  /\ socket = "ended"
  /\ jobs' = <<>> /\ job' = Freed(job, NoRequest, <<>>)
  /\ UNCHANGED <<running, socket, serving, todo, doing>>

\* A client that says nothing holds the thread: recv has no time limit.
Silent == socket = "receiving"

\* What a client is told is so: a request runs once at most, whoever gave up on it meanwhile; an "ok" for
\* a click comes "after the click has been painted" (CLI.md), one refused or without a world did not run,
\* and a window is said to have drawn nothing only when the frame after the request read it and found it empty.
AnswersAreTrue ==
  /\ [](\A r \in Requests : job[r].executed <= 1)
  /\ [][socket = "waiting" /\ socket' # "waiting" =>
          LET j == job[serving] IN
          /\ Told(serving) \in {"no world", "refused"} => j.executed = 0
          /\ Told(serving) = "ok" /\ j.kind # "screenshot" => j.executed = 1
          /\ Told(serving) = "ok" /\ j.kind = "click" => j.painted]_cliVars
  /\ [][\A r \in Requests :
          job'[r].response = "drew nothing" /\ job[r].response = "none" => job[r].pixels = "blank"]_cliVars
================================================================================
