\* Two requests, one process call that prints two lines, a dialog, one world; it may stop when it has ended.
SPECIFICATION FairSpec
CONSTANTS
  Requests = {r1, r2}
  Kinds <- AllKinds
  Calls = {p1}
  Dialogs = {d1}
  MaxLines = 2
  Worlds = {w1}
  Mixed = FALSE
INVARIANTS NestingIsSafe
PROPERTIES AnswersAreTrue CallsKeepContract QuitEnds
CHECK_DEADLOCK FALSE
