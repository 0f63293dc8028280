--------------------------------- MODULE Host ----------------------------------
(* The main loop of a host with windows: the frame, the frame that a modal      *)
(* window loop nests in its poll, the worlds a hook creates and destroys, the   *)
(* events that live two flushes, and the end of the loop.  It runs the          *)
(* launcher's poll and dispose (Processes), the passes of wind-cli's server     *)
(* (CliServer) and the answers of dialogs (FileDialogs), whose threads step in  *)
(* between.                                                                     *)
EXTENDS Processes, CliServer, FileDialogs

CONSTANTS Worlds,
          Mixed     \* bound: whether requests, process calls and dialogs may be there at a time

ASSUME HostAssumption == IsFiniteSet(Worlds) /\ Mixed \in BOOLEAN

VARIABLES
  outer,    \* the stage of the frame, or of the end of the loop
  nested,   \* the stage of the frame nested in its poll, "none" for none
  app,      \* application_state().running
  worlds,   \* the worlds there are
  held,     \* the world whose window the poll handles while a frame nests in it
  event,    \* of each world, an event: "none", or in the "current" or the "previous" buffer
  heard,    \* of the model: worlds whose systems had their turn with it, in an outer frame
  lost      \* of the model: worlds whose event was dropped before that

loopVars == <<outer, nested, app, worlds, held, event, heard, lost>>
vars == <<processVars, cliVars, dialogVars, loopVars>>

NoWorld == "none"

Init ==
  /\ ProcessInit /\ CliInit /\ DialogInit
  /\ outer = "begin" /\ nested = "none" /\ app = TRUE
  /\ worlds = Worlds /\ held = NoWorld
  /\ event = [w \in Worlds |-> "none"] /\ heard = {} /\ lost = {}

\* The innermost frame runs.
At(stage) == IF nested = "none" THEN outer = stage ELSE nested = stage
GoTo(stage) == IF nested = "none" THEN outer' = stage /\ UNCHANGED nested ELSE nested' = stage /\ UNCHANGED outer

--------------------------------------------------------------------------------
\* Mutant of Flushes: a nested frame flushes too.
FlushesAlways == TRUE

\* Only tick flushes the events of every world.
Flushes == nested = "none"

Flushed(buffer) == IF buffer = "current" THEN "previous" ELSE "none"

\* cli::begin_frame is done; tick flushes and polls, a nested frame simulates.
FrameBegins ==
  /\ At("begin") /\ Passed
  /\ IF Flushes
     THEN /\ event' = [w \in Worlds |-> Flushed(event[w])]
          /\ lost' = lost \cup {w \in worlds : event[w] = "previous" /\ w \notin heard}
          /\ heard' = {w \in heard : event[w] = "current"}
     ELSE UNCHANGED <<event, heard, lost>>
  /\ GoTo(IF nested = "none" THEN "poll" ELSE "simulate")
  /\ UNCHANGED <<dialogVars, processVars, cliVars, app, worlds, held>>

\* A world's event, sent while it has none.
Sends(w) ==
  /\ w \in worlds /\ event[w] = "none"
  /\ event' = [event EXCEPT ![w] = "current"]
  /\ heard' = heard \ {w}

\* presentation_->poll: input sends events, a window asks to close, a modal loop nests a frame.
PollHandles ==
  /\ outer = "poll" /\ nested = "none"
  /\ \/ /\ \E w \in Worlds : Sends(w)
        /\ UNCHANGED <<app, nested, held, cliVars>>
     \/ /\ app /\ app' = FALSE
        /\ UNCHANGED <<event, heard, nested, held, cliVars>>
     \/ /\ \E w \in worlds : held' = w
        /\ nested' = "begin"
        /\ StartPass
        /\ UNCHANGED <<app, event, heard>>
  /\ UNCHANGED <<dialogVars, processVars, outer, worlds, lost>>

\* The poll ends with the answers of dialogs, and ProcessLauncher::poll follows.
PollReturns ==
  /\ outer = "poll" /\ nested = "none"
  /\ outer' = "calls"
  /\ DeliverAnswers /\ StartPoll
  /\ UNCHANGED <<cliVars, nested, app, worlds, held, event, heard, lost>>

\* Whose event is there when the systems begin, gives all of them their turn with it: a frame that is
\* paused, or has no fixed step due, leaves out what such a frame leaves out.
Calling ==
  /\ outer = "calls" /\ nested = "none"
  /\ \/ PollStep /\ UNCHANGED <<outer, heard>>
     \/ /\ Polled
        /\ outer' = "simulate" /\ heard' = {w \in worlds : event[w] # "none"}
        /\ UNCHANGED processVars
  /\ UNCHANGED <<dialogVars, cliVars, nested, app, worlds, held, event, lost>>

NoRequests == socket = "ended" \/ (socket = "listen" /\ jobs = <<>>)
NoCalls == \A c \in Calls : call[c].holder = "none"
NoDialogs == \A d \in Dialogs : dialog[d].holder = "none"

\* simulate_worlds: a system uses its process calls and dialogs,
UsesCalls ==
  /\ At("simulate")
  /\ \/ /\ Mixed \/ (NoRequests /\ NoDialogs)
        /\ \E c \in Calls : GameStep(c)
        /\ UNCHANGED dialogVars
     \/ /\ Mixed \/ (NoRequests /\ NoCalls)
        /\ \E d \in Dialogs : DialogStep(d)
        /\ UNCHANGED processVars
  /\ UNCHANGED <<cliVars, loopVars>>

\* or sends an event or asks to quit; then every system has run.
Simulates ==
  /\ At("simulate")
  /\ \/ /\ \E w \in Worlds : Sends(w)
        /\ UNCHANGED <<outer, nested, app>>
     \/ /\ GoTo("draw")
        /\ app' \in {app, FALSE}
        /\ UNCHANGED <<event, heard>>
  /\ UNCHANGED <<dialogVars, processVars, cliVars, worlds, held, lost>>

\* capture_requests and draw_all.
Paints ==
  /\ At("draw")
  /\ \E shown \in BOOLEAN : Draws(shown)
  /\ GoTo("drain")
  /\ UNCHANGED <<dialogVars, processVars, app, worlds, held, event, heard, lost>>

\* drain begins with a copy of the queue.
DrainBegins ==
  /\ At("drain") /\ GoTo("drained")
  /\ StartPass
  /\ UNCHANGED <<dialogVars, processVars, app, worlds, held, event, heard, lost>>

\* dispatch, in either pass.
Dispatches ==
  /\ At("begin") \/ At("drained")
  /\ Looks \/ Runs(At("begin"), worlds # {})
  /\ UNCHANGED <<dialogVars, processVars, loopVars>>

\* The nested frame returns to the poll; the outer one ends with its hook.
DrainReturns ==
  /\ At("drained") /\ Passed
  /\ EndDrain
  /\ IF nested = "none"
     THEN outer' = "end" /\ UNCHANGED <<nested, held>>
     ELSE nested' = "none" /\ held' = NoWorld /\ UNCHANGED outer
  /\ UNCHANGED <<dialogVars, processVars, app, worlds, event, heard, lost>>

\* on_frame_end may create and destroy worlds, send, and take back the wish to quit; then the next tick, or end().
FrameEnds ==
  /\ outer = "end" /\ nested = "none"
  /\ worlds' \in SUBSET Worlds
  /\ app' \in BOOLEAN
  /\ event' = [w \in Worlds |-> IF w \in worlds \cap worlds' THEN event[w] ELSE "none"]
  /\ heard' = heard \cap worlds'
  /\ IF app' THEN outer' = "begin" /\ StartPass ELSE outer' = "stopping" /\ UNCHANGED cliVars
  /\ UNCHANGED <<dialogVars, processVars, nested, held, lost>>

\* end(): cli::stop, then the services of the host.
Ends ==
  /\ nested = "none"
  /\ \/ outer = "stopping" /\ outer' = "joining" /\ StopAsks /\ UNCHANGED processVars
     \/ outer = "joining" /\ outer' = "disposing" /\ StopJoins /\ UNCHANGED processVars
     \/ outer = "disposing" /\ UNCHANGED <<cliVars, outer>> /\ \E c \in Calls : DisposeEnds(c)
     \/ outer = "disposing" /\ Endable = {} /\ outer' = "waiting" /\ UNCHANGED <<processVars, cliVars>>
     \/ outer = "waiting" /\ outer' = "ended" /\ DisposeJoins /\ UNCHANGED cliVars
  /\ UNCHANGED <<dialogVars, nested, app, worlds, held, event, heard, lost>>

Loop ==
  \/ FrameBegins \/ Calling \/ Simulates \/ Paints
  \/ DrainBegins \/ Dispatches \/ DrainReturns \/ FrameEnds \/ Ends

ClientConnects ==
  /\ Mixed \/ (NoCalls /\ NoDialogs)
  /\ \E r \in Requests : ClientComes(r)

Socket == ClientConnects \/ Receives \/ WaitEnds \/ ThreadEnds

Next ==
  \/ Loop \/ UsesCalls \/ PollHandles \/ PollReturns
  \/ Socket /\ UNCHANGED <<processVars, dialogVars, loopVars>>
  \/ \E c \in Calls : (WorldStep(c) \/ ReaderStep(c)) /\ UNCHANGED <<cliVars, dialogVars, loopVars>>
  \/ \E d \in Dialogs : Answers(d) /\ UNCHANGED <<processVars, cliVars, loopVars>>

Spec == Init /\ [][Next]_vars

\* Threads run, the system kills what it was asked to, and a user who drags a window lets go.
Others == <<processVars, dialogVars, loopVars>>
Fairness ==
  /\ WF_vars(Loop) /\ SF_vars(PollReturns)
  /\ WF_vars((WaitEnds \/ ThreadEnds) /\ UNCHANGED Others)
  /\ \A c \in Calls : WF_vars((Dies(c) \/ ReaderStep(c)) /\ UNCHANGED <<cliVars, dialogVars, loopVars>>)

FairSpec == Spec /\ Fairness

--------------------------------------------------------------------------------
\* Calls of both kinds keep the contract of a call, whatever nests, is cancelled or answers late.
CallsKeepContract == ProcessesKeepContract /\ DialogContract!Spec

\* A frame nested in the poll takes nothing from the frame around it: not the world whose window the poll
\* handles ("a hook that destroys a world would pull it out from under that frame", game_loop.cpp), nor an
\* event before the outer frame's systems ran with it ("flushing again would drop events the outer frame's
\* systems have not read yet").
NestingIsSafe == held \in worlds \cup {NoWorld} /\ lost = {}

\* Once the loop is asked to end, and nothing takes that back, it ends: both threads and every child are
\* gone.  Unless a client connects and says nothing, or a process that left its group holds a pipe.
QuitEnds == (~app ~> app \/ outer = "ended") \/ <>[]Silent \/ <>[]Straggling
================================================================================
