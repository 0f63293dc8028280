------------------------------ MODULE FileDialogs ------------------------------
(* File dialogs: the call the game holds, the dialog of the platform, which     *)
(* answers on a thread of its own, and the queue of answers that the poll of    *)
(* the presentation delivers on the main thread.                                *)
EXTENDS FiniteSets

CONSTANT Dialogs

ASSUME DialogAssumption == IsFiniteSet(Dialogs)

VARIABLES
  dialog,    \* of each dialog, what its call and its answer share
  windows,   \* the dialogs the platform shows
  answers    \* the answers that wait for the main thread

dialogVars == <<dialog, windows, answers>>

DialogInit ==
  /\ dialog = [d \in Dialogs |-> [holder |-> "none", cancelled |-> FALSE, result |-> FALSE]]
  /\ windows = {} /\ answers = {}

\* request_open_file and request_open_folder.
Asks(d) ==
  /\ dialog[d].holder = "none"
  /\ dialog' = [dialog EXCEPT ![d].holder = "held"]
  /\ windows' = windows \cup {d}
  /\ UNCHANGED answers

\* on_open_file: chosen, refused or failed, it answers once, also for a call that is gone.
Answers(d) ==
  /\ d \in windows
  /\ windows' = windows \ {d} /\ answers' = answers \cup {d}
  /\ UNCHANGED dialog

\* CallCompletions::deliver: every answer, except to the calls cancelled since.
DeliverAnswers ==
  /\ dialog' = [d \in Dialogs |-> [dialog[d] EXCEPT !.result = @ \/ (d \in answers /\ ~dialog[d].cancelled)]]
  /\ answers' = {}
  /\ UNCHANGED windows

\* take: the result, and the call lets go of it.
TakesAnswer(d) ==
  /\ dialog[d].holder = "held" /\ dialog[d].result
  /\ dialog' = [dialog EXCEPT ![d].holder = "taken", ![d].result = FALSE]
  /\ UNCHANGED <<windows, answers>>

\* cancel, and the end of the call: the dialog stays open.
DropsDialog(d) ==
  /\ dialog[d].holder = "held"
  /\ dialog' = [dialog EXCEPT ![d].holder = IF dialog[d].result THEN "taken" ELSE "gone",
                              ![d].cancelled = ~dialog[d].result]
  /\ UNCHANGED <<windows, answers>>

DialogStep(d) == Asks(d) \/ TakesAnswer(d) \/ DropsDialog(d)

DialogStatus(d) ==
  CASE dialog[d].holder = "held" -> IF dialog[d].result THEN "resolved" ELSE "pending"
    [] dialog[d].holder = "gone" -> IF dialog[d].result THEN "resolved" ELSE "cancelled"
    [] OTHER -> dialog[d].holder

DialogContract == INSTANCE CallContract WITH Calls <- Dialogs, status <- [d \in Dialogs |-> DialogStatus(d)]
================================================================================
