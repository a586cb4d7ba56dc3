------------------------- MODULE ChannelAccessProofs -------------------------
(***************************************************************************)
(* ChannelAccess is correct for every hold, slot, wait, persistence and    *)
(* start time: type correctness, that no draw is ever refused, and the     *)
(* quiet time that precedes clear and READY.  The first part, what one     *)
(* observation does to an attempt, also serves the attempts of the         *)
(* admission queue (KissDataPathProofs).                                   *)
(***************************************************************************)
EXTENDS ChannelAccess, TLAPS

-----------------------------------------------------------------------------
(***************************************************************************)
(* Types                                                                   *)
(***************************************************************************)

\* A sample the detector accepts leaves it a detector that has seen this time.
LEMMA DetectorObserveType ==
    ASSUME NEW d \in Detectors, NEW t \in Time, NEW raw \in RawMagnitudes
    PROVE  /\ DetectorObserve(d, t, raw) \in Detectors
           /\ DetectorObserve(d, t, raw).lastNow = t
  <1>1. BusySample(t) \in Detectors /\ BusySample(t).lastNow = t
    BY DEF BusySample, Detectors, DetectorStates, TimeOrNone, Time, None
  <1>2. BandSample(d, t) \in Detectors /\ BandSample(d, t).lastNow = t
    BY DEF BandSample, Detectors, DetectorStates, TimeOrNone, Time, None
  <1>3. ClearSample(d, t) \in Detectors /\ ClearSample(d, t).lastNow = t
    BY DEF ClearSample, Detectors, DetectorStates, TimeOrNone, Time, None
  <1> QED
    BY <1>1, <1>2, <1>3 DEF DetectorObserve

\* The policy stays a policy with the same deadline and parameters.
LEMMA CsmaObserveType ==
    ASSUME NEW c \in Csmas, NEW t \in Time, NEW busy \in BOOLEAN,
           NEW random \in Bytes \cup {None}
    PROVE  LET n == CsmaObserve(c, t, busy, random)
           IN  /\ n \in Csmas
               /\ n.lastNow = t /\ n.deadline = c.deadline
               /\ n.slot = c.slot /\ n.persist = c.persist
               /\ n.started = c.started
  <1> DEFINE n == CsmaObserve(c, t, busy, random)
  <1> SUFFICES /\ n \in Csmas
               /\ n.lastNow = t /\ n.deadline = c.deadline
               /\ n.slot = c.slot /\ n.persist = c.persist
               /\ n.started = c.started
    OBVIOUS
  <1> USE DEF Csmas, CsmaStates, CsmaTerminal, TimeOrNone, Time, None, Bytes
  <1>0. c.slot \in Nat /\ t + c.slot \in Nat
    OBVIOUS
  <1>1. CASE c.state \in CsmaTerminal
    BY <1>1 DEF CsmaObserve
  <1>2. CASE c.state \notin CsmaTerminal /\ t >= c.deadline
    <2>1. n = [c EXCEPT !.lastNow = t, !.state = "timed-out", !.nextSlot = None]
      BY <1>2 DEF CsmaObserve
    <2> QED
      BY <2>1
  <1>3. CASE c.state \notin CsmaTerminal /\ ~(t >= c.deadline) /\ busy = TRUE
    <2>1. n = [c EXCEPT !.lastNow = t, !.state = "wait-clear", !.nextSlot = None]
      BY <1>3 DEF CsmaObserve
    <2> QED
      BY <2>1
  <1>4. CASE c.state = "wait-clear" /\ ~(t >= c.deadline) /\ busy = FALSE
    <2>1. n = [c EXCEPT !.lastNow = t, !.state = "wait-slot",
                        !.nextSlot = t + c.slot]
      BY <1>4 DEF CsmaObserve
    <2> QED
      BY <1>0, <2>1, ZenonT(40)
  <1>5. CASE c.state = "wait-slot" /\ ~(t >= c.deadline) /\ busy = FALSE
    <2>1. \/ n = [c EXCEPT !.lastNow = t]
          \/ n = [c EXCEPT !.lastNow = t, !.state = "ready", !.nextSlot = None]
          \/ n = [c EXCEPT !.lastNow = t, !.nextSlot = t + c.slot]
      BY <1>5 DEF CsmaObserve
    <2>2. CASE n = [c EXCEPT !.lastNow = t]
      BY <2>2
    <2>3. CASE n = [c EXCEPT !.lastNow = t, !.state = "ready",
                             !.nextSlot = None]
      BY <2>3, ZenonT(40)
    <2>4. CASE n = [c EXCEPT !.lastNow = t, !.nextSlot = t + c.slot]
      BY <1>0, <2>4, ZenonT(40)
    <2> QED
      BY <2>1, <2>2, <2>3, <2>4
  <1> QED
    BY <1>1, <1>2, <1>3, <1>4, <1>5

\* What is drawn is a byte, or nothing.
LEMMA DrawsType ==
    ASSUME NEW a, NEW t, NEW raw, NEW random \in Draws(a, t, raw)
    PROVE  random \in Bytes \cup {None}
  BY RandomBytesAssumption DEF Draws

\* An observation that is not refused leaves an attempt with its types, and
\* its detector is what RSSIChannelBusyDetector.observe makes of the sample.
LEMMA AttemptObserveType ==
    ASSUME NEW a \in Attempts, NEW t \in Time, NEW raw \in RawMagnitudes,
           NEW random \in Bytes \cup {None}
    PROVE  LET n == AttemptObserve(a, t, raw, random)
           IN  /\ n \in Attempts
               /\ n.det = DetectorObserve(a.det, t, raw)
               /\ n.det.lastNow = t /\ n.csma.lastNow = t
               /\ n.csma.deadline = a.csma.deadline
               /\ n.csma.slot = a.csma.slot
               /\ n.csma.persist = a.csma.persist
               /\ n.csma.started = a.csma.started
  <1> DEFINE d == DetectorObserve(a.det, t, raw)
             c == CsmaObserve(a.csma, t, IsChannelBusy(d), random)
             r == [a.csma EXCEPT !.lastNow = t]
  <1>1. a.det \in Detectors /\ a.csma \in Csmas
    BY DEF Attempts
  <1>2. d \in Detectors /\ d.lastNow = t
    BY <1>1, DetectorObserveType
  <1>3. IsChannelBusy(d) \in BOOLEAN
    BY DEF IsChannelBusy
  <1>4. /\ c \in Csmas /\ c.lastNow = t
        /\ c.deadline = a.csma.deadline /\ c.slot = a.csma.slot
        /\ c.persist = a.csma.persist /\ c.started = a.csma.started
    BY <1>1, <1>3, CsmaObserveType
  <1>5. /\ r \in Csmas /\ r.lastNow = t
        /\ r.deadline = a.csma.deadline /\ r.slot = a.csma.slot
        /\ r.persist = a.csma.persist /\ r.started = a.csma.started
    BY <1>1 DEF Csmas
  <1> QED
    BY <1>2, <1>4, <1>5 DEF AttemptObserve, Attempts

-----------------------------------------------------------------------------
(***************************************************************************)
(* The quiet time an attempt that began at start has seen                  *)
(***************************************************************************)

\* What the detector remembers: its candidate is younger than the last busy
\* sample, and than the last sample below the release side (taken at u) until
\* it is clear; a clear detector completed the hold.
DetectorInv(a, start, u) ==
    LET d == a.det IN
    /\ start <= u /\ u <= d.lastNow
    /\ BusyMark(a, start) \in Time
    /\ start <= BusyMark(a, start) /\ BusyMark(a, start) <= d.lastNow
    /\ d.candidate # None => /\ BusyMark(a, start) <= d.candidate
                             /\ d.candidate <= d.lastNow
    /\ d.candidate # None /\ d.state # "clear" => u <= d.candidate
    /\ d.state = "clear" => /\ d.candidate # None
                            /\ d.candidate + Hold <= d.lastNow

\* What the policy relies on: it waits for a slot only while the detector is
\* clear, and the slot ends no earlier than the quiet time asks.
CsmaInv(a, start) ==
    LET c == a.csma IN
    c.state = "wait-slot" =>
        /\ a.det.state = "clear"
        /\ c.nextSlot # None
        /\ c.nextSlot >= BusyMark(a, start) + Hold + c.slot

\* A new attempt, of any parameters CSMAParameters admits.
LEMMA NewAttemptSound ==
    ASSUME NEW start \in Time, NEW p \in CsmaParameters
    PROVE  LET a == NewAttempt(start, p)
           IN  /\ a \in Attempts
               /\ DetectorInv(a, start, start) /\ CsmaInv(a, start)
               /\ a.det.lastNow = start /\ a.csma.lastNow = start
               /\ a.csma.state = "wait-clear" /\ a.csma.started = start
               /\ a.csma.deadline = start + p.maxWait
               /\ a.csma.slot = p.slot /\ a.csma.persist = p.persist
  BY HoldAssumption
  DEF NewAttempt, NewDetector, NewCsma, Attempts, Detectors, DetectorStates,
      Csmas, CsmaStates, CsmaParameters, TimeOrNone, Time, DetectorInv,
      CsmaInv, BusyMark

\* One sample keeps the detector's part; a detector that is clear afterwards
\* has seen no busy sample since, and turned clear only after the hold.
LEMMA DetectorStep ==
    ASSUME NEW a \in Attempts, NEW b \in Attempts,
           NEW start \in Time, NEW u \in Time, NEW t \in Time, NEW raw \in RawMagnitudes,
           DetectorInv(a, start, u), a.det.lastNow <= t,
           b.det = DetectorObserve(a.det, t, raw)
    PROVE  /\ DetectorInv(b, start, IF raw < ClearReleaseRawMin THEN t ELSE u)
           /\ b.det.state = "clear" =>
                 /\ BusyMark(b, start) = BusyMark(a, start)
                 /\ a.det.state # "clear" => t >= u + Hold
  <1> DEFINE d == a.det
  <1>0. d \in Detectors /\ Hold \in Nat /\ start \in Nat
    BY HoldAssumption DEF Attempts, Time
  <1> USE DEF DetectorInv, BusyMark, Detectors, DetectorStates, TimeOrNone,
              Time, None, RawMagnitudes, BusyAssertRawMax, ClearReleaseRawMin
  <1>1. CASE raw <= BusyAssertRawMax
    <2>1. b.det = [state |-> "busy", lastNow |-> t, candidate |-> None,
                   lastBusy |-> t]
      BY <1>1 DEF DetectorObserve, BusySample
    <2> QED
      BY <1>0, <1>1, <2>1
  <1>2. CASE ~(raw <= BusyAssertRawMax) /\ raw < ClearReleaseRawMin
    <2>1. b.det = [d EXCEPT !.lastNow = t,
                            !.candidate = IF d.state = "clear" THEN @ ELSE None]
      BY <1>2 DEF DetectorObserve, BandSample
    <2>2. /\ b.det.lastNow = t /\ b.det.state = d.state
          /\ b.det.lastBusy = d.lastBusy
          /\ b.det.candidate = IF d.state = "clear" THEN d.candidate ELSE None
      BY <1>0, <2>1
    <2> QED
      BY <1>0, <1>2, <2>2
  <1>3. CASE ~(raw <= BusyAssertRawMax) /\ ~(raw < ClearReleaseRawMin)
    <2>1. b.det = ClearSample(d, t)
      BY <1>3 DEF DetectorObserve
    <2>2. /\ b.det.lastNow = t /\ b.det.lastBusy = d.lastBusy
          /\ b.det.candidate = IF d.candidate = None /\ d.state # "clear"
                               THEN t ELSE d.candidate
          /\ b.det.state = IF d.state = "clear" THEN "clear"
                           ELSE IF d.candidate = None \/ t - d.candidate < Hold
                           THEN "recent-rx" ELSE "clear"
      BY <1>0, <2>1 DEF ClearSample
    <2> QED
      BY <1>0, <1>3, <2>2
  <1> QED
    BY <1>1, <1>2, <1>3

\* A byte is drawn exactly when the policy makes a trial.
LEMMA DrawsMatchTrial ==
    ASSUME NEW a \in Attempts, NEW t \in Time, NEW raw \in RawMagnitudes,
           NEW random \in Draws(a, t, raw), NEW start, CsmaInv(a, start), a.csma.lastNow <= t
    PROVE  ~AttemptRaises(a, t, raw, random)
  <1> DEFINE d == DetectorObserve(a.det, t, raw)
             c == a.csma
  <1>1. c \in Csmas
    BY DEF Attempts
  <1>2. PersistenceDue(d, c, t) <=> TrialMade(c, t, IsChannelBusy(d))
    BY <1>1 DEF PersistenceDue, TrialMade, CsmaInv, Csmas, CsmaStates,
                CsmaTerminal
  <1>3. PersistenceDue(d, c, t) <=> random \in Bytes
    BY RandomBytesAssumption DEF Draws, Bytes, None
  <1>4. ~(c.state = "wait-slot" /\ c.nextSlot = None)
    BY DEF CsmaInv
  <1>5. ~(t < c.lastNow)
    BY <1>1 DEF Csmas, Time
  <1>6. TrialMade(c, t, IsChannelBusy(d)) \in BOOLEAN
        /\ (random \in Bytes) \in BOOLEAN
    BY DEF TrialMade
  <1> QED
    BY <1>2, <1>3, <1>4, <1>5, <1>6 DEF AttemptRaises, CsmaRaises

\* One sample keeps the policy's part, grants READY only after the quiet time
\* and before the deadline, and never leaves a terminal state.
LEMMA CsmaStep ==
    ASSUME NEW a \in Attempts, NEW t \in Time, NEW raw \in RawMagnitudes,
           NEW random \in Draws(a, t, raw),
           NEW start \in Time, NEW u \in Time,
           CsmaInv(a, start), a.csma.lastNow <= t,
           DetectorInv(AttemptObserve(a, t, raw, random), start, u),
           DetectorObserve(a.det, t, raw).state = "clear" =>
               BusyMark(AttemptObserve(a, t, raw, random), start)
                   = BusyMark(a, start)
    PROVE  LET b == AttemptObserve(a, t, raw, random)
           IN  /\ CsmaInv(b, start)
               /\ a.csma.state # "ready" /\ b.csma.state = "ready" =>
                     /\ t >= BusyMark(b, start) + Hold + a.csma.slot
                     /\ t < a.csma.deadline
               /\ a.csma.state \in CsmaTerminal => b.csma.state = a.csma.state
  <1> DEFINE b == AttemptObserve(a, t, raw, random)
             d == DetectorObserve(a.det, t, raw)
             c == a.csma
             busy == IsChannelBusy(d)
             mark == BusyMark(b, start)
  <1>1. /\ c \in Csmas /\ Hold \in Nat /\ start \in Nat
        /\ c.slot \in Nat /\ c.deadline \in Nat
    BY HoldAssumption DEF Attempts, Csmas, Time
  <1>2. random \in Bytes \cup {None}
    BY DrawsType
  <1>3. /\ b.det = d /\ d.lastNow = t /\ b \in Attempts
        /\ b.csma = CsmaObserve(c, t, busy, random)
    BY <1>2, DrawsMatchTrial, AttemptObserveType DEF AttemptObserve
  <1>4. mark \in Time /\ (~busy => mark + Hold <= t)
    BY <1>1, <1>3
    DEF DetectorInv, IsChannelBusy, Attempts, Detectors, TimeOrNone, Time, None
  <1>5. ~busy => BusyMark(a, start) = mark
    BY DEF IsChannelBusy
  <1> HIDE DEF b, d, busy, mark
  <1> SUFFICES /\ CsmaInv(b, start)
               /\ c.state # "ready" /\ b.csma.state = "ready" =>
                     /\ t >= mark + Hold + a.csma.slot
                     /\ t < a.csma.deadline
               /\ c.state \in CsmaTerminal => b.csma.state = c.state
    BY DEF b, d, busy, mark
  <1> USE DEF Csmas, CsmaStates, CsmaTerminal, TimeOrNone, Time, None
  <1>6. CASE c.state \in CsmaTerminal
    <2>1. b.csma = [c EXCEPT !.lastNow = t]
      BY <1>3, <1>6 DEF CsmaObserve
    <2> QED
      BY <1>1, <1>6, <2>1 DEF CsmaInv
  <1>7. CASE c.state \notin CsmaTerminal /\ t >= c.deadline
    <2>1. b.csma = [c EXCEPT !.lastNow = t, !.state = "timed-out",
                             !.nextSlot = None]
      BY <1>3, <1>7 DEF CsmaObserve
    <2> QED
      BY <1>1, <1>7, <2>1 DEF CsmaInv
  <1>8. CASE c.state \notin CsmaTerminal /\ ~(t >= c.deadline) /\ busy
    <2>1. b.csma = [c EXCEPT !.lastNow = t, !.state = "wait-clear",
                             !.nextSlot = None]
      BY <1>3, <1>8 DEF CsmaObserve
    <2> QED
      BY <1>1, <1>8, <2>1 DEF CsmaInv
  <1>9. CASE c.state = "wait-clear" /\ ~(t >= c.deadline) /\ ~busy
    <2>1. b.csma = [c EXCEPT !.lastNow = t, !.state = "wait-slot",
                             !.nextSlot = t + c.slot]
      BY <1>3, <1>9 DEF CsmaObserve
    <2>2. b.det.state = "clear" /\ BusyMark(b, start) = mark
      BY <1>3, <1>9 DEF busy, mark, IsChannelBusy
    <2> QED
      BY <1>1, <1>4, <1>9, <2>1, <2>2 DEF CsmaInv
  <1>10. CASE c.state = "wait-slot" /\ ~(t >= c.deadline) /\ ~busy
    <2>1. b.det.state = "clear" /\ BusyMark(b, start) = mark
      BY <1>3, <1>10 DEF busy, mark, IsChannelBusy
    <2>2. /\ c.nextSlot # None /\ c.nextSlot >= mark + Hold + c.slot
      BY <1>5, <1>10 DEF CsmaInv
    <2>3. CASE t < c.nextSlot
      <3>1. b.csma = [c EXCEPT !.lastNow = t]
        BY <1>3, <1>10, <2>3 DEF CsmaObserve
      <3> QED
        BY <1>1, <1>10, <2>1, <2>2, <3>1 DEF CsmaInv
    <2>4. CASE ~(t < c.nextSlot) /\ random <= c.persist
      <3>1. b.csma = [c EXCEPT !.lastNow = t, !.state = "ready",
                               !.nextSlot = None]
        BY <1>3, <1>10, <2>4 DEF CsmaObserve
      <3> QED
        BY <1>1, <1>4, <1>10, <2>1, <2>2, <2>4, <3>1 DEF CsmaInv
    <2>5. CASE ~(t < c.nextSlot) /\ ~(random <= c.persist)
      <3>1. b.csma = [c EXCEPT !.lastNow = t, !.nextSlot = t + c.slot]
        BY <1>3, <1>10, <2>5 DEF CsmaObserve
      <3> QED
        BY <1>1, <1>4, <1>10, <2>1, <2>2, <2>5, <3>1 DEF CsmaInv
    <2> QED
      BY <2>3, <2>4, <2>5
  <1> QED
    BY <1>1, <1>6, <1>7, <1>8, <1>9, <1>10

-----------------------------------------------------------------------------
(***************************************************************************)
(* Type correctness                                                        *)
(***************************************************************************)

\* The clock, the attempt and the history keep their types for every choice
\* of parameters and of samples, out-of-range ones included.
THEOREM AccessTypeCorrect == AccessSpec => []AccessTypeOK
  <1>1. AccessInit => AccessTypeOK
    <2>1. Parameters \in CsmaParameters /\ StartedAt \in Time
      BY ChannelAccessAssumption DEF Time
    <2> QED
      BY <2>1, NewAttemptSound DEF AccessInit, AccessTypeOK
  <1>2. AccessTypeOK /\ [AccessNext]_accessVars => AccessTypeOK'
    <2> SUFFICES ASSUME AccessTypeOK, [AccessNext]_accessVars PROVE AccessTypeOK'
      OBVIOUS
    <2>1. CASE ClockTick
      BY <2>1 DEF ClockTick, AccessTypeOK, Time
    <2>2. ASSUME NEW raw \in Samples, ObserveRssi(raw) PROVE AccessTypeOK'
      <3>1. raw \in RawMagnitudes /\ clock \in Time /\ attempt \in Attempts
        BY <2>2 DEF ObserveRssi, DetectorAccepts, AccessTypeOK
      <3>2. PICK random \in Draws(attempt, clock, raw) :
                /\ attempt' = AttemptObserve(attempt, clock, raw, random)
                /\ outcome' = IF AttemptRaises(attempt, clock, raw, random)
                              THEN "csma" ELSE "ok"
        BY <2>2 DEF ObserveRssi
      <3>3. attempt' \in Attempts
        BY <3>1, <3>2, DrawsType, AttemptObserveType
      <3> QED
        BY <2>2, <3>2, <3>3 DEF ObserveRssi, AccessTypeOK
    <2>3. ASSUME NEW raw \in Samples, RejectRssi(raw) PROVE AccessTypeOK'
      BY <2>3 DEF RejectRssi, AccessTypeOK
    <2>4. CASE UNCHANGED accessVars
      BY <2>4 DEF accessVars, AccessTypeOK
    <2> QED
      BY <2>1, <2>2, <2>3, <2>4 DEF AccessNext
  <1> QED
    BY <1>1, <1>2, PTL DEF AccessSpec

-----------------------------------------------------------------------------
(***************************************************************************)
(* The theorems                                                            *)
(***************************************************************************)

\* The inductive invariant: the attempt has seen the quiet time since
\* StartedAt, under the parameters it was created with.
AccessInv ==
    /\ AccessTypeOK
    /\ DetectorInv(attempt, StartedAt, unreleased)
    /\ CsmaInv(attempt, StartedAt)
    /\ attempt.csma.deadline = StartedAt + Parameters.maxWait
    /\ attempt.csma.slot = Parameters.slot
    /\ attempt.det.lastNow <= clock /\ attempt.csma.lastNow <= clock
    /\ DrawsAgree

\* An accepted sample, taken from a state of the invariant: the four facts
\* the theorems below are made of.
LEMMA AccessObserveStep ==
    ASSUME AccessInv, NEW raw \in Samples, ObserveRssi(raw)
    PROVE  /\ AccessInv'
           /\ attempt.det.state # "clear" /\ attempt'.det.state = "clear"
                 => clock >= unreleased + Hold
           /\ attempt.csma.state # "ready" /\ attempt'.csma.state = "ready"
                 => /\ clock >= BusyMark(attempt', StartedAt)
                                + Hold + Parameters.slot
                    /\ clock < StartedAt + Parameters.maxWait
           /\ attempt.csma.state \in CsmaTerminal
                 => attempt'.csma.state = attempt.csma.state
  <1>1. /\ raw \in RawMagnitudes /\ clock \in Time /\ unreleased \in Time
        /\ attempt \in Attempts /\ clock' = clock
        /\ attempt.det.lastNow <= clock /\ attempt.csma.lastNow <= clock
        /\ DetectorInv(attempt, StartedAt, unreleased)
        /\ CsmaInv(attempt, StartedAt) /\ StartedAt \in Time
        /\ attempt.csma.deadline = StartedAt + Parameters.maxWait
        /\ attempt.csma.slot = Parameters.slot
    BY ChannelAccessAssumption
    DEF ObserveRssi, DetectorAccepts, AccessInv, AccessTypeOK, Time
  <1>2. PICK random \in Draws(attempt, clock, raw) :
            /\ attempt' = AttemptObserve(attempt, clock, raw, random)
            /\ outcome' = IF AttemptRaises(attempt, clock, raw, random)
                          THEN "csma" ELSE "ok"
    BY DEF ObserveRssi
  <1>3. outcome' = "ok"
    BY <1>1, <1>2, DrawsMatchTrial
  <1>4. /\ attempt' \in Attempts
        /\ attempt'.det = DetectorObserve(attempt.det, clock, raw)
        /\ attempt'.det.lastNow = clock /\ attempt'.csma.lastNow = clock
        /\ attempt'.csma.deadline = attempt.csma.deadline
        /\ attempt'.csma.slot = attempt.csma.slot
    BY <1>1, <1>2, DrawsType, AttemptObserveType
  <1>5. /\ unreleased' = IF raw < ClearReleaseRawMin THEN clock ELSE unreleased
        /\ unreleased' \in Time
    BY <1>1 DEF ObserveRssi
  <1>6. /\ DetectorInv(attempt', StartedAt, unreleased')
        /\ attempt'.det.state = "clear" =>
              /\ BusyMark(attempt', StartedAt) = BusyMark(attempt, StartedAt)
              /\ attempt.det.state # "clear" => clock >= unreleased + Hold
    BY <1>1, <1>4, <1>5, DetectorStep
  <1>7. /\ CsmaInv(attempt', StartedAt)
        /\ attempt.csma.state # "ready" /\ attempt'.csma.state = "ready" =>
              /\ clock >= BusyMark(attempt', StartedAt) + Hold + Parameters.slot
              /\ clock < StartedAt + Parameters.maxWait
        /\ attempt.csma.state \in CsmaTerminal
              => attempt'.csma.state = attempt.csma.state
    BY <1>1, <1>2, <1>4, <1>5, <1>6, CsmaStep
  <1>8. AccessInv'
    BY <1>1, <1>3, <1>4, <1>5, <1>6, <1>7
    DEF AccessInv, AccessTypeOK, DrawsAgree, DetectorInv, CsmaInv, BusyMark, Time
  <1> QED
    BY <1>6, <1>7, <1>8

\* A step that is not an accepted sample leaves the attempt alone.
LEMMA AccessOtherStep ==
    ASSUME AccessInv, [AccessNext]_accessVars,
           ~\E raw \in Samples : ObserveRssi(raw)
    PROVE  AccessInv' /\ attempt' = attempt
  <1> USE DEF AccessInv, AccessTypeOK, DrawsAgree, DetectorInv, CsmaInv, BusyMark,
              Time
  <1>1. CASE ClockTick
    <2>1. attempt.det.lastNow \in Nat /\ attempt.csma.lastNow \in Nat
      BY DEF Attempts, Detectors, Csmas
    <2> QED
      BY <1>1, <2>1 DEF ClockTick
  <1>2. ASSUME NEW raw \in Samples, RejectRssi(raw)
        PROVE  AccessInv' /\ attempt' = attempt
    BY <1>2 DEF RejectRssi
  <1>3. CASE UNCHANGED accessVars
    BY <1>3 DEF accessVars
  <1> QED
    BY <1>1, <1>2, <1>3 DEF AccessNext

\* The inductive invariant of an access attempt: the detector's hold and the
\* CSMA slot never run ahead of the samples that observe_rssi was shown.
THEOREM AccessInvariant == AccessSpec => []AccessInv
  <1>1. AccessInit => AccessInv
    <2> SUFFICES ASSUME AccessInit PROVE AccessInv
      OBVIOUS
    <2>1. Parameters \in CsmaParameters /\ StartedAt \in Time
      BY ChannelAccessAssumption DEF Time
    <2> QED
      BY <2>1, NewAttemptSound DEF AccessInit, AccessInv, AccessTypeOK, DrawsAgree, Time
  <1>2. AccessInv /\ [AccessNext]_accessVars => AccessInv'
    BY AccessObserveStep, AccessOtherStep
  <1> QED
    BY <1>1, <1>2, PTL DEF AccessSpec

\* The adapter and the policy never disagree about a random byte.
THEOREM DrawsAlwaysAgree == AccessSpec => []DrawsAgree
  <1>1. AccessInv => DrawsAgree
    BY DEF AccessInv
  <1> QED
    BY <1>1, AccessInvariant, PTL

\* The detector never turns clear on less than the full hold.
THEOREM ClearAfterHold == AccessSpec => ClearOnlyAfterHold
  <1>1. AccessInv /\ [AccessNext]_accessVars =>
            [ attempt.det.state # "clear" /\ attempt'.det.state = "clear"
                  => clock >= unreleased + Hold ]_accessVars
    BY AccessObserveStep, AccessOtherStep
  <1> QED
    BY <1>1, AccessInvariant, PTL DEF AccessSpec, ClearOnlyAfterHold

\* READY implies the quiet time, for every hold, slot and sampling pattern.
THEOREM ReadyAfterQuiet == AccessSpec => ReadyOnlyAfterQuiet
  <1>1. AccessInv /\ [AccessNext]_accessVars =>
            [ attempt.csma.state # "ready" /\ attempt'.csma.state = "ready"
                => /\ clock >= BusyMark(attempt', StartedAt)
                                + Hold + Parameters.slot
                   /\ clock < StartedAt + Parameters.maxWait ]_accessVars
    BY AccessObserveStep, AccessOtherStep
  <1> QED
    BY <1>1, AccessInvariant, PTL DEF AccessSpec, ReadyOnlyAfterQuiet

\* No observation ever leaves READY or TIMED_OUT.
THEOREM TerminalFinal == AccessSpec => TerminalIsFinal
  <1>1. AccessInv /\ [AccessNext]_accessVars =>
            [ attempt.csma.state \in CsmaTerminal
                => attempt'.csma.state = attempt.csma.state ]_accessVars
    BY AccessObserveStep, AccessOtherStep
  <1> QED
    BY <1>1, AccessInvariant, PTL DEF AccessSpec, TerminalIsFinal
=============================================================================
