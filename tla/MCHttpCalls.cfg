\* Two calls of up to two chunks, one worker, a sink queue of one chunk, under fairness.
SPECIFICATION FairSpec
CONSTANTS
  c1 = c1
  c2 = c2
  Calls = {c1, c2}
  Workers = {w1}
  Route <- BothSinks
  QueueLimit = 1
  MaxChunks = 2
INVARIANTS SinkSeesBody ClosedOnce
PROPERTIES SilentAfterCancel KeepsContract Ends
