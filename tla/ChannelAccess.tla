---------------------------- MODULE ChannelAccess ----------------------------
(***************************************************************************)
(* One channel-access attempt as a state machine: a clock that runs and a  *)
(* caller that may hand the attempt any RSSI sample at any time, as the    *)
(* live gate and the admission queue do.                                   *)
(***************************************************************************)
EXTENDS AccessAttempt

CONSTANTS
    StartedAt,      \* when the attempt is created
    Parameters,     \* the CSMAParameters of the attempt
    Samples,        \* the RSSI values the modem may report (it sends 16 bits)
    ClockBound      \* bound: the clock stops here

ASSUME ChannelAccessAssumption ==
    /\ StartedAt \in Nat
    /\ Parameters \in CsmaParameters
    /\ Samples \subseteq Nat
    /\ ClockBound \in Nat

VARIABLES
    clock,      \* the monotonic clock
    attempt,    \* the ShadowChannelAccessAttempt
    outcome,    \* of the last call: "none" before any, "ok", or what it raised
    unreleased  \* history: when the last sample below the release side was
                \* taken, StartedAt before any: nothing is known before that

accessVars == <<clock, attempt, outcome, unreleased>>

AccessTypeOK ==
    /\ clock \in Time
    /\ attempt \in Attempts
    /\ outcome \in {"none", "ok", "raw-range", "csma"}
    /\ unreleased \in Time

AccessInit ==
    /\ clock = StartedAt
    /\ attempt = NewAttempt(StartedAt, Parameters)
    /\ outcome = "none"
    /\ unreleased = StartedAt

ClockTick ==
    /\ clock < ClockBound
    /\ clock' = clock + 1
    /\ UNCHANGED <<attempt, outcome, unreleased>>

\* observe_rssi with a sample the detector accepts.
ObserveRssi(raw) ==
    /\ DetectorAccepts(attempt.det, clock, raw)
    /\ \E random \in Draws(attempt, clock, raw) :
          /\ attempt' = AttemptObserve(attempt, clock, raw, random)
          /\ outcome' = IF AttemptRaises(attempt, clock, raw, random)
                        THEN "csma" ELSE "ok"
    /\ unreleased' = IF raw < ClearReleaseRawMin THEN clock ELSE unreleased
    /\ UNCHANGED clock

\* observe_rssi with a sample outside 0..255: the detector raises first and
\* nothing else happens.
RejectRssi(raw) ==
    /\ ~DetectorAccepts(attempt.det, clock, raw)
    /\ outcome' = "raw-range"
    /\ UNCHANGED <<clock, attempt, unreleased>>

AccessNext ==
    \/ ClockTick
    \/ \E raw \in Samples : ObserveRssi(raw)
    \/ \E raw \in Samples : RejectRssi(raw)

AccessSpec == AccessInit /\ [][AccessNext]_accessVars

-----------------------------------------------------------------------------
(***************************************************************************)
(* Properties                                                              *)
(***************************************************************************)

\* The adapter decides whether to draw from the detector's new state and the
\* policy's previous decision, the policy from its own state: the two never
\* disagree, so observe never raises about a random byte.
DrawsAgree == outcome # "csma"

\* The detector turns clear only when every sample of at least the whole hold
\* was on the release side: one sample in the hysteresis band, or a busy one,
\* restarts the qualification, and so does the start of the attempt.
ClearOnlyAfterHold ==
    [][ attempt.det.state # "clear" /\ attempt'.det.state = "clear"
            => clock >= unreleased + Hold ]_accessVars

\* READY is granted only when the last busy sample (or the start of the
\* attempt) lies at least the recent-RX hold and one full slot in the past,
\* and strictly before the attempt's deadline.
ReadyOnlyAfterQuiet ==
    [][ attempt.csma.state # "ready" /\ attempt'.csma.state = "ready"
            => /\ clock >= BusyMark(attempt', StartedAt) + Hold + Parameters.slot
               /\ clock < StartedAt + Parameters.maxWait ]_accessVars

\* READY and TIMED_OUT are final: whatever is observed afterwards, access is
\* never reopened and a timeout never turns into a grant.
TerminalIsFinal ==
    [][ attempt.csma.state \in CsmaTerminal
            => attempt'.csma.state = attempt.csma.state ]_accessVars
=============================================================================
