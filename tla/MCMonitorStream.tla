--------------------------- MODULE MCMonitorStream ---------------------------
(***************************************************************************)
(* Small instances of MonitorStream.                                       *)
(***************************************************************************)
EXTENDS MonitorStream

CONSTANTS c1, c2, s1

OneConnection == {c1}
TwoConnections == {c1, c2}
OneSubscriber == {s1}
=============================================================================
