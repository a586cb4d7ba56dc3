--------------------------- MODULE MCChannelAccess ---------------------------
(* TLC instance of ChannelAccess. *)
EXTENDS ChannelAccess

\* Both sides of the two thresholds, the extremes and one value out of range.
MCRawSamples == {0, 83, 84, 89, 90, 255, 256}

\* Both sides of the persistence comparison.
MCRandomBytes == {0, 63, 64, 255}

MCParameters == [persist |-> 63, slot |-> 2, maxWait |-> 9]
=============================================================================
