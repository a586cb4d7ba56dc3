------------------------------- MODULE Engine -------------------------------
(***************************************************************************)
(* The life of the daemon: the unit starts the process, TNCEngine.start    *)
(* brings up the modem and the threads, the main thread watches them, and  *)
(* _cleanup takes them down while the worker may still be inside a         *)
(* transmit cycle.  The modem keeps its own state over all of it, also     *)
(* over a process that is killed.                                          *)
(*                                                                         *)
(* The main thread and the worker share the modem owner, one FIFO of calls *)
(* and one thread.  A transmit cycle is here the sequence of its modem     *)
(* calls; the threads and timeouts inside one are those of TxPipeline.     *)
(***************************************************************************)
EXTENDS PacketModem, Sequences

CONSTANTS
    Fates,          \* what may become of a request on the serial line
    Faults,         \* whether the device, a listener or the FIFO may fail
    MaxKills,       \* bound: kills of the process
    MaxStarts,      \* bound: starts of the process (the unit's StartLimitBurst)
    MaxCycles       \* bound: transmit cycles of a process

ASSUME EngineAssumption ==
    /\ Fates \subseteq {"answered", "unanswered", "lost"}
    /\ Faults \in BOOLEAN
    /\ MaxKills \in Nat /\ MaxStarts \in Nat /\ MaxCycles \in Nat

VARIABLES
    modem,      \* the firmware
    main,       \* the main thread, and the engine's flags
    worker,     \* the runtime worker
    owner,      \* the modem owner: its thread, _accepting and its queue
    waits,      \* per thread: the answer to the call it made, if it made one
    closed,     \* the router's _closed
    term,       \* stop_event: SIGTERM was received
    starts,     \* how often the process was started
    kills,      \* how often it was killed
    lastExit    \* how the last process ended

unitVars == <<starts, kills, lastExit>>
vars == <<modem, main, worker, owner, waits, closed, term, unitVars>>

-----------------------------------------------------------------------------
Callers == {"main", "worker"}

\* The calls that only ask or configure, and leave RX and TX alone.
SetupOps == {"get_version", "set_freq", "arm", "rx_read"}
AllOps == Ops \cup SetupOps

Idle == [kind |-> "idle"]
Pending == [kind |-> "pending"]
Failure == [kind |-> "failure"]
Let(op) == [kind |-> "let", op |-> op]
Answers == Replies \cup {Ack("setup"), Idle, Pending, Failure}
                   \cup {Let(op) : op \in AllOps}

\* live: the caller still waits.  StopItem is the owner's _STOP.
Calls == [op : AllOps, by : Callers, live : BOOLEAN]
StopItem == [op |-> "stop"]

\* What start asks of the modem, in order: the engine's calls up to RX_START,
\* and the two of the runtime's start.
StartOps == <<"get_version", "rf_status", "rf_diag", "set_freq", "arm",
              "rx_start", "get_version", "rx_status">>

\* What a transmit cycle asks, in order: the stop of RX and its proof, the
\* burst, the wait for RF idle, the restart of RX and its proof, and the
\* runtime's own proof after the cycle.
CycleOps == <<"rx_status", "rx_stop", "rx_status", "tx_burst", "rf_status",
              "rf_diag", "rx_start", "rx_status", "rx_status">>
RxStartStep == 6
InactiveStep == 3
BurstStep == 4
PollStep == 5
DiagStep == 6
VerifyStep == 8

MainPcs == {"off", "opening", "start", "listeners", "running", "unlisten",
            "join", "close", "rx_stop", "owner_stop", "owner_join"}
WorkerPcs == {"none", "loop", "cycle", "ended", "failed"}

TypeOK ==
    /\ modem \in Modems
    /\ main \in [pc : MainPcs, step : 1..Len(StartOps), rxStarted : BOOLEAN,
                 failing : BOOLEAN, errors : BOOLEAN]
    /\ worker \in [pc : WorkerPcs, step : 1..Len(CycleOps), stop : BOOLEAN,
                   failing : BOOLEAN, remain : BOOLEAN, cycles : 0..MaxCycles]
    /\ owner \in [thread : {"none", "up", "gone"}, accepting : BOOLEAN,
                  queue : Seq(Calls \cup {StopItem})]
    /\ Len(owner.queue) <= 3
    /\ waits \in [Callers -> Answers]
    /\ closed \in BOOLEAN /\ term \in BOOLEAN
    /\ starts \in 0..MaxStarts /\ kills \in 0..MaxKills
    /\ lastExit \in {"none", "clean", "failed", "killed"}

NoProcess ==
    /\ main' = [pc |-> "off", step |-> 1, rxStarted |-> FALSE,
                failing |-> FALSE, errors |-> FALSE]
    /\ worker' = [pc |-> "none", step |-> 1, stop |-> FALSE,
                  failing |-> FALSE, remain |-> FALSE, cycles |-> 0]
    /\ owner' = [thread |-> "none", accepting |-> FALSE, queue |-> <<>>]
    /\ waits' = [p \in Callers |-> Idle]
    /\ closed' = FALSE /\ term' = FALSE

Init ==
    /\ modem = [rx |-> FALSE, tx |-> "idle", dropped |-> FALSE]
    /\ main = [pc |-> "off", step |-> 1, rxStarted |-> FALSE,
               failing |-> FALSE, errors |-> FALSE]
    /\ worker = [pc |-> "none", step |-> 1, stop |-> FALSE,
                 failing |-> FALSE, remain |-> FALSE, cycles |-> 0]
    /\ owner = [thread |-> "none", accepting |-> FALSE, queue |-> <<>>]
    /\ waits = [p \in Callers |-> Idle]
    /\ closed = FALSE /\ term = FALSE
    /\ starts = 0 /\ kills = 0 /\ lastExit = "none"

-----------------------------------------------------------------------------
(***************************************************************************)
(* The modem and its owner                                                 *)
(***************************************************************************)

\* A burst runs on by itself, whatever becomes of the process.
Transmit ==
    /\ \E tx \in TxProgress(modem.tx) : modem' = [modem EXCEPT !.tx = tx]
    /\ UNCHANGED <<main, worker, owner, waits, closed, term, unitVars>>

\* Nobody reads the receive FIFO in time.
Overflow ==
    /\ Faults
    /\ modem.rx /\ ~modem.dropped
    /\ modem' = [modem EXCEPT !.dropped = TRUE]
    /\ UNCHANGED <<main, worker, owner, waits, closed, term, unitVars>>

ModemDoes(op) == IF op \in Ops THEN ModemAfter(modem, op) ELSE modem
ModemSays(op) == IF op \in Ops THEN ModemReply(modem, op) ELSE Ack("setup")

\* _call looks at _accepting under the lock...
Ask(p, op) ==
    /\ waits[p] = Idle
    /\ waits' = [waits EXCEPT ![p] = IF owner.accepting THEN Let(op) ELSE Failure]
    /\ UNCHANGED owner

\* ...and queues the call after releasing it, perhaps behind the stop item.
Queues(p) ==
    /\ waits[p].kind = "let"
    /\ owner' = [owner EXCEPT !.queue =
                    Append(@, [op |-> waits[p].op, by |-> p, live |-> TRUE])]
    /\ waits' = [waits EXCEPT ![p] = Pending]
    /\ UNCHANGED <<modem, main, worker, closed, term, unitVars>>

Answered(p) == waits[p].kind \notin {"idle", "let", "pending"}
Took(p) == waits' = [waits EXCEPT ![p] = Idle]

\* The owner's thread takes the oldest call through its transaction.
OwnerServes(fate) ==
    LET call == Head(owner.queue)
    IN  /\ owner.thread = "up" /\ owner.queue # <<>> /\ call # StopItem
        /\ owner' = [owner EXCEPT !.queue = Tail(@)]
        /\ modem' = IF fate = "lost" THEN modem ELSE ModemDoes(call.op)
        /\ waits' = IF ~call.live THEN waits
                    ELSE [waits EXCEPT ![call.by] =
                            IF fate = "answered" THEN ModemSays(call.op)
                            ELSE Failure]
        /\ UNCHANGED <<main, worker, closed, term, unitVars>>

OwnerEnds ==
    /\ owner.thread = "up" /\ owner.queue # <<>> /\ Head(owner.queue) = StopItem
    /\ owner' = [thread |-> "gone", accepting |-> FALSE, queue |-> Tail(owner.queue)]
    /\ UNCHANGED <<modem, main, worker, waits, closed, term, unitVars>>

\* A caller whose call waits behind one that the modem does not answer, or
\* behind the stop item, stops waiting for it.  (A call at the head ends with
\* its own transaction.)
GivesUp(p) ==
    \E i \in 1..Len(owner.queue) :
        /\ (i > 1 /\ "unanswered" \in Fates) \/ owner.thread = "gone"
        /\ owner.queue[i] # StopItem
        /\ owner.queue[i].by = p /\ owner.queue[i].live
        /\ owner' = [owner EXCEPT !.queue[i].live = FALSE]
        /\ waits' = [waits EXCEPT ![p] = Failure]
        /\ UNCHANGED <<modem, main, worker, closed, term, unitVars>>

ActiveRx(report) == report.rx /\ ~report.tx /\ ~report.dropped
InactiveRx(report) == ~report.rx /\ ~report.tx /\ ~report.dropped

-----------------------------------------------------------------------------
(***************************************************************************)
(* The worker                                                              *)
(***************************************************************************)
WorkerLeaves == UNCHANGED <<modem, main, closed, term, unitVars>>

\* A pass of the loop reads the FIFO, and now and then the status.
LoopAsks(op) ==
    /\ worker.pc = "loop" /\ ~worker.stop
    /\ Ask("worker", op)
    /\ UNCHANGED worker /\ WorkerLeaves

LoopAccepts(answer) ==
    answer # Failure /\ (answer.kind = "rx_status" => ActiveRx(answer))

\* The pass ends, or the head request gets access and a cycle begins.
LoopGoesOn(transmits) ==
    /\ worker.pc = "loop" /\ Answered("worker")
    /\ LoopAccepts(waits["worker"])
    /\ transmits => worker.cycles < MaxCycles
    /\ worker' = IF transmits
                 THEN [worker EXCEPT !.pc = "cycle", !.step = 1,
                                     !.cycles = @ + 1]
                 ELSE worker
    /\ Took("worker")
    /\ UNCHANGED owner /\ WorkerLeaves

LoopFails ==
    /\ worker.pc = "loop" /\ Answered("worker")
    /\ ~LoopAccepts(waits["worker"])
    /\ worker' = [worker EXCEPT !.pc = "failed"]
    /\ Took("worker")
    /\ UNCHANGED owner /\ WorkerLeaves

\* The loop's condition: _stop is set.
LoopEnds ==
    /\ worker.pc = "loop" /\ worker.stop /\ waits["worker"] = Idle
    /\ worker' = [worker EXCEPT !.pc = "ended"]
    /\ UNCHANGED <<owner, waits>> /\ WorkerLeaves

\* The burst is asked for under the router's lock, which is held until the
\* answer is taken.
CycleAsks ==
    /\ worker.pc = "cycle"
    /\ worker.step = BurstStep => ~closed
    /\ Ask("worker", CycleOps[worker.step])
    /\ UNCHANGED worker /\ WorkerLeaves

\* The burst is refused by a closed router, or fails (BurstFails): the frame
\* is given up and the cycle goes on to restore RX.
RouterRefuses ==
    /\ worker.pc = "cycle" /\ worker.step = BurstStep
    /\ waits["worker"] = Idle /\ closed
    /\ worker' = [worker EXCEPT !.step = PollStep, !.failing = TRUE]
    /\ UNCHANGED <<owner, waits>> /\ WorkerLeaves

CycleAccepts(step, answer) ==
    /\ answer \notin {Failure, Nak}
    /\ answer.kind = "rx_status" =>
          IF step = InactiveStep THEN InactiveRx(answer) ELSE ActiveRx(answer)

\* Mutant: a failed burst is dropped and the loop goes on.
BurstFailsEarly ==
    /\ worker.pc = "cycle" /\ worker.step = BurstStep /\ Answered("worker")
    /\ ~CycleAccepts(BurstStep, waits["worker"])
    /\ worker' = [worker EXCEPT !.pc = "loop", !.step = 1]
    /\ Took("worker")
    /\ UNCHANGED owner /\ WorkerLeaves

BurstFails ==
    /\ worker.pc = "cycle" /\ worker.step = BurstStep /\ Answered("worker")
    /\ ~CycleAccepts(BurstStep, waits["worker"])
    /\ worker' = [worker EXCEPT !.step = PollStep, !.failing = TRUE]
    /\ Took("worker")
    /\ UNCHANGED owner /\ WorkerLeaves

\* Every other step that fails latches the lifecycle and ends the worker.
CycleFails ==
    /\ worker.pc = "cycle" /\ worker.step # BurstStep /\ Answered("worker")
    /\ ~CycleAccepts(worker.step, waits["worker"])
    /\ worker' = [worker EXCEPT !.pc = "failed"]
    /\ Took("worker")
    /\ UNCHANGED owner /\ WorkerLeaves

\* The next step; a frame that was given up ends the worker once RX is back.
CycleProceeds ==
    /\ worker.pc = "cycle" /\ worker.step # DiagStep /\ Answered("worker")
    /\ CycleAccepts(worker.step, waits["worker"])
    /\ worker' =
          IF worker.step = VerifyStep /\ worker.failing
          THEN [worker EXCEPT !.pc = "failed"]
          ELSE IF worker.step = Len(CycleOps)
          THEN [worker EXCEPT !.pc = "loop", !.step = 1]
          ELSE [worker EXCEPT !.step = @ + 1,
                              !.remain = worker.step = PollStep
                                         /\ waits["worker"].remain]
    /\ Took("worker")
    /\ UNCHANGED owner /\ WorkerLeaves

\* The second half of a poll: RF is idle, or is asked again, or the wait for
\* it expires.
CyclePolled ==
    /\ worker.pc = "cycle" /\ worker.step = DiagStep /\ Answered("worker")
    /\ CycleAccepts(DiagStep, waits["worker"])
    /\ IF ~worker.remain /\ ~waits["worker"].tx
       THEN worker' = [worker EXCEPT !.step = @ + 1]
       ELSE \/ worker' = [worker EXCEPT !.step = PollStep]
            \/ worker' = [worker EXCEPT !.pc = "failed"]
    /\ Took("worker")
    /\ UNCHANGED owner /\ WorkerLeaves

-----------------------------------------------------------------------------
(***************************************************************************)
(* The main thread: start                                                  *)
(***************************************************************************)
MainLeaves == UNCHANGED <<modem, closed, term, unitVars>>

\* The unit, or an operator, starts the process.
ProcessStarts ==
    /\ main.pc = "off" /\ starts < MaxStarts
    /\ starts' = starts + 1
    /\ main' = [main EXCEPT !.pc = "opening"]
    /\ UNCHANGED <<modem, worker, owner, waits, closed, term, kills, lastExit>>

\* owner.start: the thread opens the device, or start fails.
OwnerStarts(opens) ==
    /\ main.pc = "opening"
    /\ opens \/ Faults
    /\ IF opens
       THEN /\ owner' = [owner EXCEPT !.thread = "up", !.accepting = TRUE]
            /\ main' = [main EXCEPT !.pc = "start"]
       ELSE /\ owner' = [owner EXCEPT !.thread = "gone"]
            /\ main' = [main EXCEPT !.pc = "unlisten", !.failing = TRUE]
    /\ UNCHANGED <<worker, waits>> /\ MainLeaves

StartAsks ==
    /\ main.pc = "start"
    /\ Ask("main", StartOps[main.step])
    /\ UNCHANGED <<main, worker>> /\ MainLeaves

\* The check of rf_status is made after rf_diag in the code; neither call
\* changes anything.
StartAccepts(answer) ==
    /\ answer \notin {Failure, Nak}
    /\ answer.kind = "rf_status" => ~answer.remain
    /\ answer.kind = "rf_diag" => ~answer.tx
    /\ answer.kind = "rx_status" => ActiveRx(answer)

\* The last answer starts the worker's thread.
StartProceeds ==
    /\ main.pc = "start" /\ Answered("main")
    /\ StartAccepts(waits["main"])
    /\ IF main.step = Len(StartOps)
       THEN /\ main' = [main EXCEPT !.pc = "listeners"]
            /\ worker' = [worker EXCEPT !.pc = "loop"]
       ELSE /\ main' = [main EXCEPT !.step = @ + 1,
                           !.rxStarted = @ \/ main.step = RxStartStep]
            /\ UNCHANGED worker
    /\ Took("main")
    /\ UNCHANGED owner /\ MainLeaves

StartFails ==
    /\ main.pc = "start" /\ Answered("main")
    /\ ~StartAccepts(waits["main"])
    /\ main' = [main EXCEPT !.pc = "unlisten", !.failing = TRUE]
    /\ Took("main")
    /\ UNCHANGED <<worker, owner>> /\ MainLeaves

\* check_health.
Healthy == owner.accepting /\ worker.pc # "failed"

\* The listeners come up, and start ends with a health check.
Listens(ok) ==
    /\ main.pc = "listeners"
    /\ ok \/ Faults
    /\ main' = IF ok /\ Healthy THEN [main EXCEPT !.pc = "running"]
               ELSE [main EXCEPT !.pc = "unlisten", !.failing = TRUE]
    /\ UNCHANGED <<worker, owner, waits>> /\ MainLeaves

-----------------------------------------------------------------------------
(***************************************************************************)
(* The main thread: health, and cleanup                                    *)
(***************************************************************************)

\* Mutant: the health check looks at the threads it owns only.
HealthFailsOwnerOnly ==
    /\ main.pc = "running" /\ ~term /\ ~owner.accepting
    /\ main' = [main EXCEPT !.pc = "unlisten", !.failing = TRUE]
    /\ UNCHANGED <<worker, owner, waits>> /\ MainLeaves

HealthFails ==
    /\ main.pc = "running" /\ ~term /\ ~Healthy
    /\ main' = [main EXCEPT !.pc = "unlisten", !.failing = TRUE]
    /\ UNCHANGED <<worker, owner, waits>> /\ MainLeaves

\* The loop of run_daemon sees stop_event.
Stops ==
    /\ main.pc = "running" /\ term
    /\ main' = [main EXCEPT !.pc = "unlisten"]
    /\ UNCHANGED <<worker, owner, waits>> /\ MainLeaves

\* The listeners are stopped, and runtime.stop sets the worker's _stop.
Unlistens(ok) ==
    /\ main.pc = "unlisten"
    /\ ok \/ Faults
    /\ main' = [main EXCEPT !.pc = "join", !.errors = @ \/ ~ok]
    /\ worker' = [worker EXCEPT !.stop = TRUE]
    /\ UNCHANGED <<owner, waits>> /\ MainLeaves

\* Mutant: a worker that failed is joined like one that ended.
JoinsQuietly ==
    /\ main.pc = "join"
    /\ main' = [main EXCEPT !.pc = "close"]
    /\ UNCHANGED <<worker, owner, waits>> /\ MainLeaves

\* The join returns with the worker's end, or with its timeout while the
\* worker is still inside a call; a failed worker is an error as well.
Joins ==
    /\ main.pc = "join"
    /\ main' = [main EXCEPT !.pc = "close",
                            !.errors = @ \/ worker.pc \notin {"none", "ended"}]
    /\ UNCHANGED <<worker, owner, waits>> /\ MainLeaves

\* Mutant: the lock is not released when the burst fails.
LockFreeUnlessFailed ==
    ~(worker.pc \in {"cycle", "failed"} /\ worker.step >= BurstStep
      /\ (worker.failing \/ (worker.step = BurstStep /\ waits["worker"] # Idle)))

\* Nobody is inside the router's submit_frame.
LockFree ==
    ~(worker.pc = "cycle" /\ worker.step = BurstStep /\ waits["worker"] # Idle)

\* Mutant: close does not wait for the router's lock.
ClosesAtOnce ==
    /\ main.pc = "close"
    /\ closed' = TRUE
    /\ main' = [main EXCEPT !.pc = "rx_stop"]
    /\ UNCHANGED <<modem, worker, owner, waits, term, unitVars>>

\* router.close.
Closes ==
    /\ main.pc = "close" /\ LockFree
    /\ closed' = TRUE
    /\ main' = [main EXCEPT !.pc = "rx_stop"]
    /\ UNCHANGED <<modem, worker, owner, waits, term, unitVars>>

\* The engine stops RX if it knows that it started it.
CleanupAsks ==
    /\ main.pc = "rx_stop" /\ main.rxStarted
    /\ Ask("main", "rx_stop")
    /\ UNCHANGED <<main, worker>> /\ MainLeaves

CleanupStopped ==
    /\ main.pc = "rx_stop" /\ Answered("main")
    /\ main' = [main EXCEPT !.pc = "owner_stop", !.rxStarted = FALSE,
                            !.errors = @ \/ waits["main"] = Failure]
    /\ Took("main")
    /\ UNCHANGED <<worker, owner>> /\ MainLeaves

CleanupSkips ==
    /\ main.pc = "rx_stop" /\ ~main.rxStarted
    /\ main' = [main EXCEPT !.pc = "owner_stop"]
    /\ UNCHANGED <<worker, owner, waits>> /\ MainLeaves

\* owner.stop: no more calls, and the stop item behind those there are.
OwnerStops ==
    /\ main.pc = "owner_stop"
    /\ main' = [main EXCEPT !.pc = "owner_join"]
    /\ owner' = IF owner.thread = "up"
                THEN [owner EXCEPT !.accepting = FALSE,
                                   !.queue = Append(@, StopItem)]
                ELSE owner
    /\ UNCHANGED <<worker, waits>> /\ MainLeaves

\* The owner's thread ended, or the join expires; the process ends, and its
\* threads with it.
Exits ==
    /\ main.pc = "owner_join"
    /\ lastExit' = IF main.failing \/ main.errors \/ owner.thread = "up"
                   THEN "failed" ELSE "clean"
    /\ NoProcess
    /\ UNCHANGED <<modem, starts, kills>>

\* SIGTERM only sets stop_event.
Terminate ==
    /\ main.pc # "off" /\ ~term
    /\ term' = TRUE
    /\ UNCHANGED <<modem, main, worker, owner, waits, closed, unitVars>>

\* The process is killed, or the host fails.
Killed ==
    /\ main.pc # "off" /\ kills < MaxKills
    /\ kills' = kills + 1
    /\ lastExit' = "killed"
    /\ NoProcess
    /\ UNCHANGED <<modem, starts>>

-----------------------------------------------------------------------------
OwnerSteps == OwnerEnds \/ \E fate \in Fates : OwnerServes(fate)
WorkerSteps ==
    \/ \E op \in {"rx_read", "rx_status"} : LoopAsks(op)
    \/ \E transmits \in BOOLEAN : LoopGoesOn(transmits)
    \/ LoopFails \/ LoopEnds \/ Queues("worker") \/ GivesUp("worker")
    \/ CycleAsks \/ RouterRefuses \/ BurstFails \/ CycleFails
    \/ CycleProceeds \/ CyclePolled
MainSteps ==
    \/ \E ok \in BOOLEAN : OwnerStarts(ok) \/ Listens(ok) \/ Unlistens(ok)
    \/ Queues("main") \/ GivesUp("main")
    \/ StartAsks \/ StartProceeds \/ StartFails
    \/ HealthFails \/ Stops \/ Joins \/ Closes
    \/ CleanupAsks \/ CleanupStopped \/ CleanupSkips \/ OwnerStops \/ Exits

Next ==
    \/ Transmit \/ Overflow
    \/ OwnerSteps \/ WorkerSteps \/ MainSteps
    \/ ProcessStarts \/ Terminate \/ Killed

Spec == Init /\ [][Next]_vars

\* The threads of the process run, and the unit restarts it; the modem, an
\* operator and a fault owe nothing.
Fairness ==
    /\ WF_vars(OwnerSteps)
    /\ WF_vars(WorkerSteps)
    /\ WF_vars(MainSteps)
    /\ WF_vars(ProcessStarts)

FairSpec == Spec /\ Fairness

-----------------------------------------------------------------------------
(***************************************************************************)
(* Properties                                                              *)
(***************************************************************************)

\* A daemon that exits with 0 leaves a modem that neither receives nor
\* transmits, so that the next start finds it as it must: whatever raced the
\* cleanup, or was lost on the line, shows in the exit code.
CleanExitLeavesIdle ==
    lastExit = "clean" /\ main.pc = "off" => ~modem.rx /\ modem.tx = "idle"

\* Once cleanup has closed the router no burst is begun, although the worker
\* may be anywhere in its cycle.
NoBurstOnceClosed ==
    [][modem.tx = "idle" /\ modem'.tx # "idle" => ~closed]_vars

\* While the service runs and its worker is between two cycles, the modem
\* receives: neither a cycle nor an older process can leave it deaf.
ReceivesWhileHealthy ==
    main.pc = "running" /\ worker.pc = "loop" => modem.rx

\* A worker that failed is noticed and ends the process.
FailureNoticed == worker.pc = "failed" ~> main.pc = "off"

\* SIGTERM ends the process, whatever its threads are waiting for.
StopEnds == term ~> main.pc = "off"

\* What the unit's Restart=on-failure says: a process that was killed is
\* followed by one that runs.
KilledIsRestarted ==
    lastExit = "killed" /\ starts < MaxStarts ~> main.pc = "running"
=============================================================================
