--------------------------- MODULE MCClientStreams ---------------------------
(* TLC instance of ClientStreams: one client of each kind. *)
EXTENDS ClientStreams

CONSTANTS k1, a1

OneKiss == {k1}
OneAgw == {a1}
FewMessages == (k1 :> 1) @@ (a1 :> 2)
=============================================================================
