----------------------------- MODULE ChannelBusy -----------------------------
(***************************************************************************)
(* The hysteretic RSSI channel-busy detector (RSSIChannelBusyDetector).    *)
(* The detector is a pure state machine: observe is its only transition,   *)
(* and time and the raw RSSI magnitude are supplied by the caller.  Times  *)
(* are natural numbers of an arbitrary tick.                               *)
(***************************************************************************)
EXTENDS Integers

CONSTANT
    Hold        \* RECENT_RX_HOLD_SECONDS, in ticks

ASSUME HoldAssumption == Hold \in Nat

\* Python's None in a field that otherwise holds a time or a byte, none of
\* which is ever negative.
None == -1

Time == Nat
TimeOrNone == Time \cup {None}

\* The smaller the raw magnitude, the stronger the received signal.
BusyAssertRawMax == 83
ClearReleaseRawMin == 90
RawMagnitudes == 0..255

DetectorStates == {"unknown", "busy", "recent-rx", "clear"}

Detectors == [state : DetectorStates, lastNow : Time,
              candidate : TimeOrNone, lastBusy : TimeOrNone]

NewDetector(startedAt) ==
    [state |-> "unknown", lastNow |-> startedAt,
     candidate |-> None, lastBusy |-> None]

\* The two checks with which observe begins; it raises ValueError and leaves
\* the detector as it was when either fails.
DetectorAccepts(d, now, raw) == now >= d.lastNow /\ raw \in RawMagnitudes

\* Busy side: the carrier is back, any release qualification is void.
BusySample(now) ==
    [state |-> "busy", lastNow |-> now, candidate |-> None, lastBusy |-> now]

\* Hysteresis band: the state is retained, and unless it is clear the
\* qualification starts over.
BandSample(d, now) ==
    [d EXCEPT !.lastNow = now,
              !.candidate = IF d.state = "clear" THEN @ ELSE None]

\* Clear side: clear once the candidate has lasted for the hold.
ClearSample(d, now) ==
    IF d.state = "clear"
    THEN [d EXCEPT !.lastNow = now]
    ELSE IF d.candidate = None
    THEN [d EXCEPT !.lastNow = now, !.candidate = now, !.state = "recent-rx"]
    ELSE [d EXCEPT !.lastNow = now,
                   !.state = IF now - d.candidate < Hold
                             THEN "recent-rx" ELSE "clear"]

DetectorObserve(d, now, raw) ==
    IF raw <= BusyAssertRawMax THEN BusySample(now)
    ELSE IF raw < ClearReleaseRawMin THEN BandSample(d, now)
    ELSE ClearSample(d, now)

\* Only "clear" opens the channel: "unknown" and "recent-rx" fail closed.
IsChannelBusy(d) == d.state # "clear"
=============================================================================
