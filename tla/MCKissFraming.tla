---------------------------- MODULE MCKissFraming ----------------------------
(***************************************************************************)
(* TLC instance of KissFraming, with the four special bytes and one other, *)
(* and of HdlcLink.  The two codecs share nothing: a behaviour feeds one   *)
(* of them.                                                                *)
(***************************************************************************)
EXTENDS KissFraming, HdlcLink

MCBytes == {FEND, FESC, TFEND, TFESC, 0}

\* Runs of five, six and more ones, inside an octet, at the end of the frame
\* and across octets, and a flag in the data.
MCFrames == {<<0>>, <<248>>, <<126>>, <<192, 7>>, <<255, 255>>}

FramingInit == KissInit /\ HdlcInit

FramingNext ==
    \/ KissNext /\ noise = 0 /\ sender = Silent /\ UNCHANGED hdlcVars
    \/ HdlcNext /\ stream = <<>> /\ UNCHANGED kissVars

FramingSpec == FramingInit /\ [][FramingNext]_<<kissVars, hdlcVars>>
=============================================================================
