---------------------------- MODULE AccessAttempt ----------------------------
(***************************************************************************)
(* One channel-access attempt (ShadowChannelAccessAttempt): a detector and *)
(* a CSMA policy that are fed the same RSSI samples, and the rule that     *)
(* decides when a random byte is drawn.                                    *)
(***************************************************************************)
EXTENDS Integers, ChannelBusy, PersistentCSMA

CONSTANT
    RandomBytes     \* the bytes the random source may return

ASSUME RandomBytesAssumption == RandomBytes \subseteq Bytes

Attempts == [det : Detectors, csma : Csmas]

NewAttempt(startedAt, p) ==
    [det |-> NewDetector(startedAt), csma |-> NewCsma(startedAt, p)]

\* Mutant: the adapter forgets that the deadline may have passed.
PersistenceDueLate(d, c, now) ==
    /\ ~IsChannelBusy(d)
    /\ c.state = "wait-slot"
    /\ now >= c.nextSlot

\* persistence_due, computed by the adapter from the detector's new state and
\* from the policy's previous decision, before the policy sees the sample.
PersistenceDue(d, c, now) ==
    /\ ~IsChannelBusy(d)
    /\ c.state = "wait-slot"
    /\ c.nextSlot # None
    /\ now >= c.nextSlot
    /\ now < c.deadline

\* What may be drawn when the sample raw is observed: None stands for not
\* drawing at all.
Draws(a, now, raw) ==
    IF PersistenceDue(DetectorObserve(a.det, now, raw), a.csma, now)
    THEN RandomBytes
    ELSE {None}

\* The detector accepted the sample but the policy raises.
AttemptRaises(a, now, raw, random) ==
    CsmaRaises(a.csma, now,
               IsChannelBusy(DetectorObserve(a.det, now, raw)), random)

\* observe_rssi: detector first, then the policy with the detector's verdict.
\* A policy that raises has already recorded the time.
AttemptObserve(a, now, raw, random) ==
    LET d == DetectorObserve(a.det, now, raw)
    IN  [det  |-> d,
         csma |-> IF AttemptRaises(a, now, raw, random)
                  THEN [a.csma EXCEPT !.lastNow = now]
                  ELSE CsmaObserve(a.csma, now, IsChannelBusy(d), random)]

\* The last moment at which the attempt knows the channel was in use; before
\* any busy sample, the moment it started, since nothing is known before that.
BusyMark(a, startedAt) ==
    IF a.det.lastBusy = None THEN startedAt ELSE a.det.lastBusy
=============================================================================
