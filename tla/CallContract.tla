----------------------------- MODULE CallContract ------------------------------
(* What a call promises the code that holds it (HttpCall, and JobCall and       *)
(* FileDialogCall after it): pending until its result arrives or it is          *)
(* cancelled, the result seen once, never a result after a cancel.  Results     *)
(* arrive together, for every call that has one, in the owner's poll.           *)
EXTENDS Naturals

CONSTANTS Calls

VARIABLE status   \* of each call, as the code that holds it sees it

Statuses == {"none", "pending", "resolved", "taken", "cancelled"}

Init == status = [c \in Calls |-> "none"]

Move(S, from, to) ==
  /\ \A c \in S : status[c] = from
  /\ status' = [c \in Calls |-> IF c \in S THEN to ELSE status[c]]

\* send: a call.
Sent(c) == Move({c}, "none", "pending")

\* poll: the results there are.
Resolve(S) == Move(S, "pending", "resolved")

\* take(), the result once; or the call is dropped with it.
Take(c) == Move({c}, "resolved", "taken")

\* cancel(), dropping the call, or the end of what runs it.
Cancel(c) == Move({c}, "pending", "cancelled")

Next ==
  \/ \E c \in Calls : Sent(c) \/ Take(c) \/ Cancel(c)
  \/ \E S \in SUBSET Calls : Resolve(S)

Spec == Init /\ [][Next]_status
================================================================================
