------------------------------ MODULE MCHttpCalls ------------------------------
(* Small instances of HttpCalls for TLC.                                        *)
EXTENDS HttpCalls, TLC

CONSTANTS c1, c2

\* One sink on the main thread, one on the worker.
BothSinks == (c1 :> "queued") @@ (c2 :> "worker")
OneWorkerSink == c2 :> "worker"
================================================================================
