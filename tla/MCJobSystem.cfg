\* Three workers (two jobs at a time, one left for the parallel_for), two jobs, two priorities, one
\* parallel_for of two ranges.
SPECIFICATION Spec
CONSTANTS
  Workers = {w1, w2, w3}
  Main = main
  Jobs = {j1, j2}
  None = none
  Prios <- TwoPrios
  NumRanges = 2
  MaxBatches = 1
SYMMETRY Symmetry
INVARIANTS SlotOnce RangesOnce NoLostWakeup
PROPERTIES CancelAllIsFinal CancelledStaysOut PriorityOrder
