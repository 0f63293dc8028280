\* One call with its sink on the worker, cancelled at any time.
SPECIFICATION Spec
CONSTANTS
  c1 = c1
  c2 = c2
  Calls = {c2}
  Workers = {w1}
  Route <- OneWorkerSink
  QueueLimit = 1
  MaxChunks = 1
PROPERTIES UsesOpenHandle
