------------------------------ MODULE MCEngine ------------------------------
(***************************************************************************)
(* Engine for TLC: a line that loses and one that does not.                *)
(***************************************************************************)
EXTENDS Engine

LossyLine == {"answered", "unanswered", "lost"}
SoundLine == {"answered"}
=============================================================================
