----------------------------- MODULE MCObservers -----------------------------
(* TLC instance of Observers: one browser. *)
EXTENDS Observers

CONSTANT b1

OneBrowser == {b1}

\* The observers share nothing but the daemon: one at a time.
OneAtATime == {{"logger"}, {"web"}}
=============================================================================
