------------------------------ MODULE MCPayloads -------------------------------
(* Small instances of Payloads for TLC.                                         *)
EXTENDS Payloads

AckRefused == {"ack"}
CancelRefused == {"cancel"}
UpToTwo == {0, 1, 2}
TwoOnly == {2}
TwoPrios == {0, 1}
================================================================================
