\* Two workers (one job at a time): liveness under the fairness of the threads; no symmetry.
SPECIFICATION FairSpec
CONSTANTS
  Workers = {w1, w2}
  Main = main
  Jobs = {j1, j2}
  None = none
  Prios <- OnePrio
  NumRanges = 2
  MaxBatches = 1
INVARIANTS ForkJoinHasWorker
PROPERTIES CallsReturn QueuedLeaves NoLeak
