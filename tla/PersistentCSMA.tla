--------------------------- MODULE PersistentCSMA ---------------------------
(***************************************************************************)
(* One single-use p-persistent channel-access attempt (PersistentCSMA).    *)
(* The diagnostic counters (persistence_trials, busy_observations) decide  *)
(* nothing and are left out, as is the wording of a decision.              *)
(***************************************************************************)
EXTENDS Integers, ChannelBusy

CsmaStates == {"wait-clear", "wait-slot", "ready", "timed-out"}
CsmaTerminal == {"ready", "timed-out"}
Bytes == 0..255

\* The parameters CSMAParameters admits: slot_time_10ms in 1..255 and a
\* positive max_wait_seconds, here in ticks.
CsmaParameters == [persist : Bytes, slot : Nat \ {0}, maxWait : Nat \ {0}]

Csmas == [state : CsmaStates, nextSlot : TimeOrNone, started : Time,
          deadline : Time, lastNow : Time, persist : Bytes, slot : Nat \ {0}]

NewCsma(startedAt, p) ==
    [state |-> "wait-clear", nextSlot |-> None, started |-> startedAt,
     deadline |-> startedAt + p.maxWait, lastNow |-> startedAt,
     persist |-> p.persist, slot |-> p.slot]

\* A persistence trial is made by this observation: the early returns before
\* it (terminal, timed out, busy, slot just started, slot not over) all fail.
TrialMade(c, now, busy) ==
    /\ c.state \notin CsmaTerminal
    /\ now < c.deadline
    /\ ~busy
    /\ c.state # "wait-clear"
    /\ now >= c.nextSlot

\* observe raises: time runs backwards, WAIT_SLOT has no slot deadline, or
\* the random byte is missing when a trial is made or present when none is.
CsmaRaises(c, now, busy, random) ==
    \/ now < c.lastNow
    \/ c.state = "wait-slot" /\ c.nextSlot = None /\ now < c.deadline /\ ~busy
    \/ TrialMade(c, now, busy) # (random \in Bytes)

\* Mutant: a busy observation forgets to void the slot under way.
CsmaObserveKeepsSlot(c, now, busy, random) ==
    IF c.state \in CsmaTerminal THEN [c EXCEPT !.lastNow = now]
    ELSE IF now >= c.deadline
    THEN [c EXCEPT !.lastNow = now, !.state = "timed-out", !.nextSlot = None]
    ELSE IF busy THEN [c EXCEPT !.lastNow = now]
    ELSE IF c.state = "wait-clear"
    THEN [c EXCEPT !.lastNow = now, !.state = "wait-slot",
                   !.nextSlot = now + c.slot]
    ELSE IF now < c.nextSlot THEN [c EXCEPT !.lastNow = now]
    ELSE IF random <= c.persist
    THEN [c EXCEPT !.lastNow = now, !.state = "ready", !.nextSlot = None]
    ELSE [c EXCEPT !.lastNow = now, !.nextSlot = now + c.slot]

\* The state after an observation that does not raise.
CsmaObserve(c, now, busy, random) ==
    IF c.state \in CsmaTerminal
    THEN [c EXCEPT !.lastNow = now]
    ELSE IF now >= c.deadline
    THEN [c EXCEPT !.lastNow = now, !.state = "timed-out", !.nextSlot = None]
    ELSE IF busy
    THEN [c EXCEPT !.lastNow = now, !.state = "wait-clear", !.nextSlot = None]
    ELSE IF c.state = "wait-clear"
    THEN [c EXCEPT !.lastNow = now, !.state = "wait-slot",
                   !.nextSlot = now + c.slot]
    ELSE IF now < c.nextSlot
    THEN [c EXCEPT !.lastNow = now]
    ELSE IF random <= c.persist
    THEN [c EXCEPT !.lastNow = now, !.state = "ready", !.nextSlot = None]
    ELSE [c EXCEPT !.lastNow = now, !.nextSlot = now + c.slot]
=============================================================================
