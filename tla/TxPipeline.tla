----------------------------- MODULE TxPipeline -----------------------------
(***************************************************************************)
(* One frame from READY to restored reception:                             *)
(*                                                                         *)
(*   lifecycle (caller's thread) --job--> TX broker worker                 *)
(*   lifecycle, broker worker --calls--> modem owner (FIFO, one thread)    *)
(*   modem owner --serial transaction--> modem firmware                    *)
(*                                                                         *)
(* Each arrow has its own timeout, and a caller that gave up leaves its    *)
(* call, or its job, with the callee.  The serial line may lose a request  *)
(* or a reply, and the modem may answer after the transaction timed out.   *)
(* Waiting takes time; what a thread does once it is woken takes none.     *)
(***************************************************************************)
EXTENDS PacketModem, Sequences, FiniteSets

CONSTANTS
    T,              \* transaction_timeout of every call
    OwnerSubmit,    \* the owner's submit_timeout
    OwnerMargin,    \* the owner's scheduling margin (1.0 s)
    BrokerSubmit,   \* the broker's submit_timeout
    BrokerMargin,   \* the broker's scheduling margin (1.0 s)
    IdleTimeout,    \* tx_idle_timeout_seconds
    OwnerCapacity,  \* the owner's queue_capacity
    MaxFrames       \* bound: frames submitted

ASSUME TxPipelineAssumption ==
    /\ T \in Nat \ {0}
    /\ OwnerSubmit \in Nat /\ OwnerMargin \in Nat
    /\ BrokerSubmit \in Nat /\ BrokerMargin \in Nat \ {0}
    /\ IdleTimeout \in Nat \ {0}
    /\ OwnerCapacity \in Nat \ {0}
    /\ MaxFrames \in Nat

VARIABLES
    modem,      \* the firmware
    inbox,      \* requests written to the UART that the firmware has not served
    line,       \* replies received and not read
    calls,      \* the owner's queue
    serving,    \* the call the owner is serving
    waits,      \* per caller: the call it waits for
    life,       \* the half-duplex lifecycle
    broker,     \* the TX broker
    outcomes,   \* history: how the frames ended, in the order of submission
    aired       \* history: the frames whose burst the firmware accepted

linkVars == <<modem, inbox, line, aired>>
vars == <<modem, inbox, line, calls, serving, waits, life, broker, outcomes,
          aired>>

-----------------------------------------------------------------------------
Callers == {"life", "broker"}

\* What a caller can find: nothing yet, a failure of any kind, or the reply.
Pending == [kind |-> "pending"]
Failure == [kind |-> "failure"]
Answers == Replies \cup {Pending, Failure}

Requests == [op : Ops, frame : Nat]

\* live: the caller still waits for this call.
Calls == [op : Ops, frame : Nat, by : Callers, live : BOOLEAN]
NoCall == [op |-> "none"]

LifePcs == {"idle", "before", "stop", "after", "submit", "status", "diag",
            "poll", "start", "verify"}

TypeOK ==
    /\ modem \in Modems
    /\ inbox \in Seq(Requests)
    /\ line \in Seq(Replies)
    /\ calls \in Seq(Calls) /\ Len(calls) < OwnerCapacity
    /\ serving \in [call : Calls \cup {NoCall}, age : 0..(2 * T)]
    /\ waits \in [Callers -> [on : BOOLEAN, age : Nat, answer : Answers]]
    /\ life \in [pc : LifePcs, frame : Nat, failing : BOOLEAN, remain : BOOLEAN,
                 waited : Nat, idleAge : Nat, latched : BOOLEAN]
    /\ broker \in [pc : {"idle", "posted", "preflight", "burst"}, frame : Nat,
                   live : BOOLEAN, result : {"none", "ok", "error"}]
    /\ outcomes \in Seq({"complete", "recovered", "handoff", "latched"})
    /\ aired \in Seq(Nat)

NotWaiting == [on |-> FALSE, age |-> 0, answer |-> Pending]

\* The engine constructs the pipeline on an idle modem with RX started.
Init ==
    /\ modem = [rx |-> TRUE, tx |-> "idle", dropped |-> FALSE]
    /\ inbox = <<>> /\ line = <<>> /\ calls = <<>>
    /\ serving = [call |-> NoCall, age |-> 0]
    /\ waits = [p \in Callers |-> NotWaiting]
    /\ life = [pc |-> "idle", frame |-> 0, failing |-> FALSE, remain |-> FALSE,
               waited |-> 0, idleAge |-> 0, latched |-> FALSE]
    /\ broker = [pc |-> "idle", frame |-> 0, live |-> FALSE, result |-> "none"]
    /\ outcomes = <<>> /\ aired = <<>>

-----------------------------------------------------------------------------
(***************************************************************************)
(* The modem, and the line to it                                           *)
(***************************************************************************)

\* The firmware serves the oldest request; its reply may be lost.
Serve(replyLost) ==
    LET request == Head(inbox)
    IN  /\ inbox # <<>>
        /\ inbox' = Tail(inbox)
        /\ modem' = ModemAfter(modem, request.op)
        /\ line' = IF replyLost THEN line
                   ELSE Append(line, ModemReply(modem, request.op))
        /\ aired' = IF request.op = "tx_burst" /\ ~Refuses(modem, "tx_burst")
                    THEN Append(aired, request.frame) ELSE aired
        /\ UNCHANGED <<calls, serving, waits, life, broker, outcomes>>

\* A request that was garbled, or not written in time, is never served.
LoseRequest ==
    /\ inbox # <<>>
    /\ inbox' = Tail(inbox)
    /\ UNCHANGED <<modem, line, calls, serving, waits, life, broker, outcomes,
                   aired>>

\* The burst runs on.
Transmit ==
    /\ \E tx \in TxProgress(modem.tx) : modem' = [modem EXCEPT !.tx = tx]
    /\ UNCHANGED <<inbox, line, calls, serving, waits, life, broker, outcomes,
                   aired>>

\* The host is late with reading and the capture FIFO overflows.
Overflow ==
    /\ modem.rx /\ ~modem.dropped
    /\ modem' = [modem EXCEPT !.dropped = TRUE]
    /\ UNCHANGED <<inbox, line, calls, serving, waits, life, broker, outcomes,
                   aired>>

-----------------------------------------------------------------------------
(***************************************************************************)
(* The modem owner                                                         *)
(***************************************************************************)

\* _call up to the wait: the call joins the FIFO, which always has room
\* (TypeOK), abandoned calls included.
Ask(p, op, frame) ==
    /\ calls' = Append(calls, [op |-> op, frame |-> frame, by |-> p,
                               live |-> TRUE])
    /\ waits' = [waits EXCEPT ![p] = [NotWaiting EXCEPT !.on = TRUE]]

\* The owner thread begins a transaction: pending input is flushed, then the
\* request is written.
OwnerBegins ==
    /\ serving.call = NoCall
    /\ calls # <<>>
    /\ calls' = Tail(calls)
    /\ serving' = [call |-> Head(calls), age |-> 0]
    /\ line' = <<>>
    /\ inbox' = Append(inbox, [op |-> Head(calls).op,
                               frame |-> Head(calls).frame])
    /\ UNCHANGED <<modem, waits, life, broker, outcomes, aired>>

\* The parsers accept the reply to this request only: the acknowledgement of
\* its namespace, or the report of its own kind.
Parsed(op, reply) ==
    LET wanted == CASE op \in {"rx_start", "rx_stop"} -> "ack_rx"
                    [] op = "tx_burst" -> "ack_rf"
                    [] OTHER -> op
    IN  IF reply.kind = wanted THEN reply ELSE Failure

\* The transaction ends; the caller learns it unless it has given up.
OwnerEnds(answer) ==
    LET call == serving.call
    IN  /\ serving' = [call |-> NoCall, age |-> 0]
        /\ waits' = IF call.live
                    THEN [waits EXCEPT ![call.by].answer = answer]
                    ELSE waits

\* The first reply that arrived since the flush is taken as the answer.
OwnerReads ==
    /\ serving.call # NoCall
    /\ line # <<>>
    /\ line' = Tail(line)
    /\ OwnerEnds(Parsed(serving.call.op, Head(line)))
    /\ UNCHANGED <<modem, inbox, calls, life, broker, outcomes, aired>>

\* No whole reply came in time.  Writing and reading have a timeout each, so
\* this is between one and two transaction timeouts after the beginning.
OwnerTimesOut ==
    /\ serving.call # NoCall
    /\ serving.age >= T
    /\ OwnerEnds(Failure)
    /\ UNCHANGED <<modem, inbox, line, calls, life, broker, outcomes, aired>>

OwnerWait == T + OwnerSubmit + OwnerMargin

Forsaken(call, p) ==
    IF call # NoCall /\ call.by = p THEN [call EXCEPT !.live = FALSE] ELSE call

\* A caller gives up; its call stays where it is.
CallerGivesUp(p) ==
    /\ waits[p].on /\ waits[p].answer = Pending
    /\ waits[p].age >= OwnerWait
    /\ waits' = [waits EXCEPT ![p].answer = Failure]
    /\ calls' = [i \in 1..Len(calls) |-> Forsaken(calls[i], p)]
    /\ serving' = [serving EXCEPT !.call = Forsaken(@, p)]
    /\ UNCHANGED <<linkVars, life, broker, outcomes>>

-----------------------------------------------------------------------------
(***************************************************************************)
(* The TX broker's worker                                                  *)
(***************************************************************************)
BrokerBegins ==
    /\ broker.pc = "posted"
    /\ broker' = [broker EXCEPT !.pc = "preflight"]
    /\ Ask("broker", "rf_status", broker.frame)
    /\ UNCHANGED <<linkVars, serving, life, outcomes>>

BrokerAnswer == waits["broker"].answer

\* The preflight passed: the modem has no selectors pending.
BrokerSends ==
    /\ broker.pc = "preflight"
    /\ BrokerAnswer \notin {Pending, Failure}
    /\ ~BrokerAnswer.remain
    /\ broker' = [broker EXCEPT !.pc = "burst"]
    /\ Ask("broker", "tx_burst", broker.frame)
    /\ UNCHANGED <<linkVars, serving, life, outcomes>>

\* The job ends; its result reaches the submitter unless that has given up.
BrokerEnds(result) ==
    /\ broker' = [pc |-> "idle", frame |-> 0, live |-> FALSE,
                  result |-> IF broker.live THEN result ELSE "none"]
    /\ waits' = [waits EXCEPT !["broker"] = NotWaiting]
    /\ UNCHANGED <<linkVars, calls, serving, life, outcomes>>

BrokerSucceeds ==
    /\ broker.pc = "burst"
    /\ BrokerAnswer \notin {Pending, Failure}
    /\ BrokerEnds("ok")

\* A failed call, or selectors still pending at the preflight.
BrokerFails ==
    /\ \/ broker.pc \in {"preflight", "burst"} /\ BrokerAnswer = Failure
       \/ /\ broker.pc = "preflight"
          /\ BrokerAnswer \notin {Pending, Failure}
          /\ BrokerAnswer.remain
    /\ BrokerEnds("error")

-----------------------------------------------------------------------------
(***************************************************************************)
(* The half-duplex lifecycle                                               *)
(***************************************************************************)
LifeAnswer == waits["life"].answer

\* A latched lifecycle refuses every frame without touching anything.
LifeBegins ==
    /\ life.pc = "idle" /\ ~life.latched
    /\ life.frame < MaxFrames
    /\ life' = [life EXCEPT !.pc = "before", !.frame = @ + 1,
                            !.failing = FALSE]
    /\ Ask("life", "rx_status", life.frame + 1)
    /\ UNCHANGED <<linkVars, serving, broker, outcomes>>

ActiveRx(report) == ~report.dropped /\ ~report.tx /\ report.rx
InactiveRx(report) == ~report.dropped /\ ~report.rx /\ ~report.tx

\* The answer lets the lifecycle go on.
Satisfied ==
    /\ LifeAnswer \notin {Pending, Failure}
    /\ life.pc \in {"before", "verify"} => ActiveRx(LifeAnswer)
    /\ life.pc = "after" => InactiveRx(LifeAnswer)

LifeStopsRx ==
    /\ life.pc = "before" /\ Satisfied
    /\ life' = [life EXCEPT !.pc = "stop"]
    /\ Ask("life", "rx_stop", life.frame)
    /\ UNCHANGED <<linkVars, serving, broker, outcomes>>

LifeChecksStop ==
    /\ life.pc = "stop" /\ Satisfied
    /\ life' = [life EXCEPT !.pc = "after"]
    /\ Ask("life", "rx_status", life.frame)
    /\ UNCHANGED <<linkVars, serving, broker, outcomes>>

\* The router hands the frame to the broker of its TXDELAY.  Its queue has
\* room, and a worker that has yet to note the end of the job before, all
\* that can be left of it (SettledBetweenCycles), does so in no time.
LifeSubmits ==
    /\ life.pc = "after" /\ Satisfied
    /\ broker.pc = "idle"
    /\ life' = [life EXCEPT !.pc = "submit", !.waited = 0]
    /\ waits' = [waits EXCEPT !["life"] = NotWaiting]
    /\ broker' = [pc |-> "posted", frame |-> life.frame, live |-> TRUE,
                  result |-> "none"]
    /\ UNCHANGED <<linkVars, calls, serving, outcomes>>

\* The wait for RF idle begins, after a success or a failure of the broker.
AwaitIdle(failing) ==
    /\ life' = [life EXCEPT !.pc = "status", !.failing = failing,
                            !.waited = 0, !.idleAge = 0]
    /\ Ask("life", "rf_status", life.frame)

\* _prepare_frame refuses the frame (too many selectors) before it is queued.
LifeRefused ==
    /\ life.pc = "after" /\ Satisfied
    /\ AwaitIdle(TRUE)
    /\ UNCHANGED <<linkVars, serving, broker, outcomes>>

\* Mutant: the end of the job is taken for its success.
LifeReceiptUnchecked ==
    /\ life.pc = "submit" /\ broker.result # "none"
    /\ broker' = [broker EXCEPT !.result = "none"]
    /\ AwaitIdle(FALSE)
    /\ UNCHANGED <<linkVars, serving, outcomes>>

LifeReceipt ==
    /\ life.pc = "submit" /\ broker.result # "none"
    /\ broker' = [broker EXCEPT !.result = "none"]
    /\ AwaitIdle(broker.result = "error")
    /\ UNCHANGED <<linkVars, serving, outcomes>>

\* Mutant: the submitter waits for one transaction instead of two.
BrokerWaitSingle == T + BrokerSubmit + BrokerMargin

BrokerWait == 2 * T + BrokerSubmit + BrokerMargin

\* The submitter gives up; the job stays with the broker.
LifeGivesUp ==
    /\ life.pc = "submit" /\ broker.result = "none"
    /\ life.waited >= BrokerWait
    /\ broker' = [broker EXCEPT !.live = FALSE]
    /\ AwaitIdle(TRUE)
    /\ UNCHANGED <<linkVars, serving, outcomes>>

LifeReadsStatus ==
    /\ life.pc = "status" /\ Satisfied
    /\ life' = [life EXCEPT !.pc = "diag", !.remain = LifeAnswer.remain]
    /\ Ask("life", "rf_diag", life.frame)
    /\ UNCHANGED <<linkVars, serving, broker, outcomes>>

\* Mutant: no selectors remaining is taken for silence.
IdleSeenSelectorsOnly == ~life.remain

\* Both reports are needed: the selectors are used up before the radio is.
IdleSeen == ~life.remain /\ ~LifeAnswer.tx

\* Mutant: the wait for RF idle has no deadline.
IdleExpiredNever == FALSE

IdleExpired == life.idleAge >= IdleTimeout

LifeRestartsRx ==
    /\ life.pc = "diag" /\ Satisfied /\ IdleSeen
    /\ life' = [life EXCEPT !.pc = "start"]
    /\ Ask("life", "rx_start", life.frame)
    /\ UNCHANGED <<linkVars, serving, broker, outcomes>>

LifeSleeps ==
    /\ life.pc = "diag" /\ Satisfied /\ ~IdleSeen /\ ~IdleExpired
    /\ life' = [life EXCEPT !.pc = "poll"]
    /\ waits' = [waits EXCEPT !["life"] = NotWaiting]
    /\ UNCHANGED <<linkVars, calls, serving, broker, outcomes>>

LifePolls ==
    /\ life.pc = "poll"
    /\ life' = [life EXCEPT !.pc = "status"]
    /\ Ask("life", "rf_status", life.frame)
    /\ UNCHANGED <<linkVars, serving, broker, outcomes>>

LifeVerifies ==
    /\ life.pc = "start" /\ Satisfied
    /\ life' = [life EXCEPT !.pc = "verify"]
    /\ Ask("life", "rx_status", life.frame)
    /\ UNCHANGED <<linkVars, serving, broker, outcomes>>

LifeEnds(outcome, latched) ==
    /\ life' = [life EXCEPT !.pc = "idle", !.latched = latched,
                            !.remain = FALSE, !.idleAge = 0]
    /\ waits' = [waits EXCEPT !["life"] = NotWaiting]
    /\ outcomes' = Append(outcomes, outcome)
    /\ UNCHANGED <<linkVars, calls, serving, broker>>

\* RX is back: the frame was sent, or it failed and the lifecycle recovered.
LifeRestored ==
    /\ life.pc = "verify" /\ Satisfied
    /\ LifeEnds(IF life.failing THEN "recovered" ELSE "complete", FALSE)

\* Anything else latches the lifecycle, before the handoff and after it.
LifeLatches ==
    /\ \/ /\ life.pc \in LifePcs \ {"idle", "submit", "poll"}
          /\ LifeAnswer # Pending /\ ~Satisfied
       \/ life.pc = "diag" /\ Satisfied /\ ~IdleSeen /\ IdleExpired
    /\ LifeEnds(IF life.pc \in {"before", "stop", "after"}
                THEN "handoff" ELSE "latched", TRUE)

-----------------------------------------------------------------------------
(***************************************************************************)
(* Time                                                                    *)
(***************************************************************************)

\* Some thread has been woken and has not yet acted, or a wait is over.
Urgent ==
    \/ \E p \in Callers :
          waits[p].on /\ (waits[p].answer # Pending \/ waits[p].age >= OwnerWait)
    \/ serving.call = NoCall /\ calls # <<>>
    \/ serving.call # NoCall /\ (line # <<>> \/ serving.age >= 2 * T)
    \/ broker.pc = "posted"
    \/ life.pc = "submit" /\ (broker.result # "none" \/ life.waited >= BrokerWait)

Tick ==
    /\ ~Urgent
    /\ life.pc # "idle" \/ serving.call # NoCall
    /\ serving' = [serving EXCEPT !.age = IF serving.call = NoCall THEN 0 ELSE @ + 1]
    /\ waits' = [p \in Callers |->
                    [waits[p] EXCEPT !.age = IF waits[p].on THEN @ + 1 ELSE 0]]
    /\ life' = [life EXCEPT
                   !.waited = IF life.pc = "submit" THEN @ + 1 ELSE 0,
                   !.idleAge = IF life.pc \in {"status", "diag", "poll"}
                               THEN IF @ < IdleTimeout THEN @ + 1 ELSE @
                               ELSE 0]
    /\ UNCHANGED <<linkVars, calls, broker, outcomes>>

ModemSteps ==
    (\E replyLost \in BOOLEAN : Serve(replyLost))
        \/ LoseRequest \/ Transmit \/ Overflow
OwnerSteps ==
    OwnerBegins \/ OwnerReads \/ OwnerTimesOut
        \/ \E p \in Callers : CallerGivesUp(p)
BrokerSteps == BrokerBegins \/ BrokerSends \/ BrokerSucceeds \/ BrokerFails
CycleSteps ==
    \/ LifeStopsRx \/ LifeChecksStop \/ LifeSubmits \/ LifeRefused
    \/ LifeReceipt \/ LifeGivesUp \/ LifeReadsStatus \/ LifeRestartsRx
    \/ LifeSleeps \/ LifePolls \/ LifeVerifies \/ LifeRestored \/ LifeLatches

Next ==
    ModemSteps \/ OwnerSteps \/ BrokerSteps \/ LifeBegins \/ CycleSteps \/ Tick

Spec == Init /\ [][Next]_vars

\* The threads run and time passes, however often it had to wait for a
\* thread.  Nothing is assumed of the modem: it may never answer again.
Fairness ==
    /\ WF_vars(OwnerSteps)
    /\ WF_vars(BrokerSteps)
    /\ WF_vars(CycleSteps)
    /\ SF_vars(Tick)

FairSpec == Spec /\ Fairness

-----------------------------------------------------------------------------
(***************************************************************************)
(* Properties                                                              *)
(***************************************************************************)

BurstWaits ==
    \/ \E i \in 1..Len(inbox) : inbox[i].op = "tx_burst"
    \/ \E i \in 1..Len(calls) : calls[i].op = "tx_burst"
    \/ serving.call # NoCall /\ serving.call.op = "tx_burst"

\* The broker has no call to make any more.
BrokerDone ==
    \/ broker.pc = "idle"
    \/ broker.pc = "burst" /\ BrokerAnswer # Pending
    \/ broker.pc = "preflight" /\ BrokerAnswer = Failure

\* Whenever a cycle has ended without latching, successful or recovered from
\* a failure, the modem really receives, nothing transmits, and no call or
\* request of the cycle is left to be made, queued, in service or on the
\* line, whichever timeouts were hit.
SettledBetweenCycles ==
    life.pc = "idle" /\ ~life.latched =>
        /\ modem.rx /\ modem.tx = "idle"
        /\ BrokerDone /\ broker.result = "none"
        /\ calls = <<>> /\ serving.call = NoCall /\ inbox = <<>>

\* RX is restarted only when the radio is silent and no burst is on its way,
\* not even one whose submitter gave up waiting for it.
RxStartOnlyAfterBurst ==
    [][ life.pc # "start" /\ life'.pc = "start"
            => modem.tx = "idle" /\ ~BurstWaits ]_vars

\* The firmware accepts a burst only for the frame whose cycle is waiting for
\* it, unless the lifecycle has latched: no burst of a frame that was already
\* reported as failed and recovered, and none once the radio was found idle.
NoLateBurst ==
    [][ aired' # aired =>
            \/ life.latched
            \/ /\ life.frame = aired'[Len(aired')]
               /\ life.pc \in {"submit", "status", "diag", "poll"} ]_vars

Times(frame) == Cardinality({i \in 1..Len(aired) : aired[i] = frame})

\* What the caller is told is what happened: a completed frame was sent once,
\* a frame whose handoff failed was never sent, and none was sent twice.
OutcomesTruthful ==
    /\ \A f \in 1..MaxFrames : Times(f) <= 1
    /\ \A f \in 1..Len(outcomes) :
          /\ outcomes[f] = "complete" => Times(f) = 1
          /\ outcomes[f] = "handoff" => Times(f) = 0

\* Every cycle returns to its caller, with a modem that answers late, answers
\* something else, never answers or never stops transmitting.
CycleEnds == life.pc # "idle" ~> life.pc = "idle"
=============================================================================
