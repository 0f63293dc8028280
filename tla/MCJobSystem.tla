------------------------------ MODULE MCJobSystem ------------------------------
(* Small instances of JobSystem for TLC.                                        *)
EXTENDS JobSystem, TLC

\* Workers and jobs are interchangeable: no action names one of them.
Symmetry == Permutations(Workers) \cup Permutations(Jobs)

\* Priorities a caller may pass; the default is 0.
TwoPrios == {0, 1}
OnePrio == {0}
================================================================================
