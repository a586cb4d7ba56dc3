---------------------------- MODULE MCReceivePath ----------------------------
(* TLC instance of ReceivePath: two timing hypotheses, of which the later one *)
(* or both decode a transmission.                                             *)
EXTENDS ReceivePath

TwoHypotheses == {0, 1}
LateOrTwice == {{1}, {0, 1}}
=============================================================================
