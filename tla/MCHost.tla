-------------------------------- MODULE MCHost ---------------------------------
(* A small instance of Host for TLC.                                            *)
EXTENDS Host

AllKinds == {"click", "query", "profile", "screenshot", "host", "malformed"}
================================================================================
