---------------------------- MODULE EngineProofs ----------------------------
(***************************************************************************)
(* The life of the daemon, for any number of starts, kills and transmit    *)
(* cycles, and for every line and every fault: no burst is begun once the  *)
(* router is closed, a serving process with an idle worker receives, and a *)
(* clean exit leaves the modem idle.                                       *)
(***************************************************************************)
EXTENDS Engine, TLAPS, SequenceTheorems

-----------------------------------------------------------------------------
(***************************************************************************)
(* The inductive invariant                                                 *)
(***************************************************************************)

\* The types, but for the length of the queue.
Mains == [pc : MainPcs, step : 1..8, rxStarted : BOOLEAN, failing : BOOLEAN,
          errors : BOOLEAN]
Workers == [pc : WorkerPcs, step : 1..9, stop : BOOLEAN, failing : BOOLEAN,
            remain : BOOLEAN, cycles : 0..MaxCycles]
Owners == [thread : {"none", "up", "gone"}, accepting : BOOLEAN,
           queue : Seq(Calls \cup {StopItem})]
Types ==
    /\ modem \in Modems
    /\ main \in Mains /\ worker \in Workers /\ owner \in Owners
    /\ waits \in [Callers -> Answers]
    /\ closed \in BOOLEAN

\* The places of the main thread up to a process that serves, and after it.
Early == {"off", "opening", "start"}
Serving == {"listeners", "running", "unlisten", "join", "close"}
Late == {"rx_stop", "owner_stop", "owner_join"}

\* The call a thread is in, as its place says: none outside start and loop.
Asking(p) ==
    IF p = "main"
    THEN IF main.pc = "start" THEN {StartOps[main.step]} ELSE {}
    ELSE CASE worker.pc = "loop" -> {"rx_read", "rx_status"}
           [] worker.pc = "cycle" -> {CycleOps[worker.step]}
           [] OTHER -> {}

\* Before the router is closed, a thread that waits waits for the call its
\* place says, which is the only one in the queue: nothing in it was given up.
CallInv ==
    /\ \A p \in Callers :
          /\ waits[p] # Idle => Asking(p) # {}
          /\ waits[p].kind = "let" => waits[p].op \in Asking(p) /\ owner.queue = <<>>
          /\ waits[p] = Pending =>
                \E op \in Asking(p) :
                   owner.queue = <<[op |-> op, by |-> p, live |-> TRUE]>>
    /\ owner.queue # <<>> => \E p \in Callers : waits[p] = Pending
    /\ main.pc \in Early => worker.pc = "none"
    /\ main.pc \in {"off", "opening"} =>
          owner.queue = <<>> /\ owner.thread = "none" /\ main.step = 1
    /\ owner.thread # "up" => owner.queue = <<>> /\ waits["main"] = Idle
                              /\ worker.pc = "none"
    /\ main.pc = "start" => owner.thread = "up"
    /\ owner.thread = "up" => owner.accepting

\* What a thread has learnt of the transmitter.
TxInv ==
    /\ main.pc = "start" =>
          /\ main.step >= 3 => modem.tx \in {"draining", "idle"}
          /\ main.step >= 4 => modem.tx = "idle"
          /\ Answered("main") /\ StartAccepts(waits["main"]) =>
                /\ main.step = 2 => modem.tx \in {"draining", "idle"}
                /\ main.step = 3 => modem.tx = "idle"
    /\ worker.pc \in {"loop", "ended"} => modem.tx = "idle"
    /\ worker.pc = "cycle" =>
          /\ worker.step <= 3 \/ worker.step >= 7 => modem.tx = "idle"
          /\ worker.step = 4 /\ ~Answered("worker") => modem.tx = "idle"
          /\ worker.step = 6 /\ ~worker.remain => modem.tx \in {"draining", "idle"}
          /\ Answered("worker") /\ CycleAccepts(worker.step, waits["worker"]) =>
                /\ worker.step = 5 /\ ~waits["worker"].remain =>
                      modem.tx \in {"draining", "idle"}
                /\ worker.step = 6 /\ ~waits["worker"].tx /\ ~worker.remain =>
                      modem.tx = "idle"

\* ...and of the receiver.
RxInv ==
    /\ main.pc = "start" /\ main.step >= 7 => modem.rx /\ main.rxStarted
    /\ main.pc = "start" /\ main.step = 6
         /\ Answered("main") /\ StartAccepts(waits["main"]) => modem.rx
    /\ worker.pc = "loop" => modem.rx
    /\ worker.pc = "cycle" =>
          /\ worker.step >= 8 => modem.rx
          /\ worker.step = 7 /\ Answered("worker")
               /\ CycleAccepts(7, waits["worker"]) => modem.rx

\* A process that has come up has started the receiver and the worker.
UpInv ==
    main.pc \in Serving /\ ~main.failing => main.rxStarted /\ worker.pc # "none"

\* Cleanup that has met no error found the worker ended; it is alone with the
\* owner, RX_STOP is the only call it makes, and it is answered.
CleanInv ==
    main.pc \in Late \cup {"close"} /\ ~main.failing /\ ~main.errors =>
        /\ worker.pc = "ended" /\ waits["worker"] = Idle /\ modem.tx = "idle"
        /\ main.pc = "close" => waits["main"] = Idle /\ owner.queue = <<>>
        /\ main.pc = "rx_stop" =>
              /\ main.rxStarted /\ owner.thread = "up"
              /\ waits["main"].kind = "let" => waits["main"] = Let("rx_stop")
              /\ waits["main"] = Pending =>
                    owner.queue = <<[op |-> "rx_stop", by |-> "main", live |-> TRUE]>>
              /\ waits["main"] # Pending => owner.queue = <<>>
              /\ Answered("main") /\ waits["main"] # Failure => ~modem.rx
        /\ main.pc \in {"owner_stop", "owner_join"} =>
              waits["main"] = Idle /\ ~modem.rx
        /\ main.pc = "owner_stop" => owner.queue = <<>>
        /\ main.pc = "owner_join" => owner.queue \in {<<>>, <<StopItem>>}

\* A closed router is on its way out, and no burst is on its way in.
ClosedInv ==
    /\ closed <=> main.pc \in Late
    /\ closed =>
          /\ \A i \in 1..Len(owner.queue) : owner.queue[i].op # "tx_burst"
          /\ waits["main"] # Let("tx_burst") /\ waits["worker"] # Let("tx_burst")

EngineInv ==
    /\ Types /\ ClosedInv /\ CleanInv /\ CleanExitLeavesIdle
    /\ ~closed => CallInv /\ TxInv /\ RxInv /\ UpInv

-----------------------------------------------------------------------------
(***************************************************************************)
(* What the modem does and says                                            *)
(***************************************************************************)

\* The operations of start and of a cycle, by step.
LEMMA StepOps ==
    /\ Len(StartOps) = 8 /\ Len(CycleOps) = 9
    /\ StartOps[1] = "get_version" /\ StartOps[2] = "rf_status"
    /\ StartOps[3] = "rf_diag" /\ StartOps[4] = "set_freq"
    /\ StartOps[5] = "arm" /\ StartOps[6] = "rx_start"
    /\ StartOps[7] = "get_version" /\ StartOps[8] = "rx_status"
    /\ CycleOps[1] = "rx_status" /\ CycleOps[2] = "rx_stop"
    /\ CycleOps[3] = "rx_status" /\ CycleOps[4] = "tx_burst"
    /\ CycleOps[5] = "rf_status" /\ CycleOps[6] = "rf_diag"
    /\ CycleOps[7] = "rx_start" /\ CycleOps[8] = "rx_status"
    /\ CycleOps[9] = "rx_status"
BY DEF StartOps, CycleOps

\* A request does to the modem what its name says, or nothing.
LEMMA ModemDoing ==
    ASSUME modem \in Modems, NEW op \in AllOps
    PROVE  /\ ModemDoes(op) \in Modems
           /\ op \notin {"rx_start", "rx_stop", "tx_burst"} => ModemDoes(op) = modem
           /\ op # "tx_burst" => ModemDoes(op).tx = modem.tx
           /\ op = "rx_stop" => ~ModemDoes(op).rx
           /\ op = "rx_start" => ModemDoes(op).rx \/ ModemSays(op) = Nak
           /\ op = "tx_burst" => ModemDoes(op).rx = modem.rx
<1>1. CASE op \notin Ops
  BY <1>1 DEF ModemDoes, Ops
<1>2. CASE op \in Ops /\ Refuses(modem, op)
  BY <1>2 DEF ModemDoes, ModemSays, ModemAfter, ModemReply, Refuses
<1>3. CASE op \in {"rx_status", "rf_status", "rf_diag"} /\ ~Refuses(modem, op)
  BY <1>3 DEF ModemDoes, ModemAfter, Ops
<1>4. CASE op = "rx_start" /\ ~Refuses(modem, op)
  BY <1>4 DEF ModemDoes, ModemAfter, Ops, Modems
<1>5. CASE op = "rx_stop" /\ ~Refuses(modem, op)
  BY <1>5 DEF ModemDoes, ModemAfter, Ops, Modems
<1>6. CASE op = "tx_burst" /\ ~Refuses(modem, op)
  <2>1. ModemDoes(op) = [modem EXCEPT !.tx = "loaded"]
    BY <1>6 DEF ModemDoes, ModemAfter, Ops
  <2> QED BY <1>6, <2>1 DEF Modems, TxStates
<1> QED BY <1>1, <1>2, <1>3, <1>4, <1>5, <1>6 DEF Ops

\* Its answer is one, and the two reports on RF tell the truth.
LEMMA ModemSaying ==
    ASSUME modem \in Modems, NEW op \in AllOps
    PROVE  /\ ModemSays(op) \in Answers
           /\ ModemSays(op).kind \notin {"idle", "let", "pending", "failure"}
           /\ op = "rf_status" =>
                 /\ ModemSays(op).kind = "rf_status"
                 /\ ModemSays(op).remain = (modem.tx \in {"loaded", "keyed"})
           /\ op = "rf_diag" =>
                 /\ ModemSays(op).kind = "rf_diag"
                 /\ ModemSays(op).tx = (modem.tx \in {"keyed", "draining"})
<1>1. CASE op \notin Ops
  BY <1>1 DEF ModemSays, Ops, Ack, Answers
<1>2. CASE op \in Ops /\ Refuses(modem, op)
  BY <1>2 DEF ModemSays, ModemReply, Refuses, Nak, Answers, Replies
<1>3. CASE op \in {"rx_start", "rx_stop", "tx_burst"} /\ ~Refuses(modem, op)
  <2>1. ModemSays(op) \in {Ack("ack_rx"), Ack("ack_rf")}
    <3>1. CASE op = "tx_burst"
      BY <1>3, <3>1 DEF ModemSays, ModemReply, Ops
    <3>2. CASE op \in {"rx_start", "rx_stop"}
      BY <1>3, <3>2 DEF ModemSays, ModemReply, Ops
    <3> QED BY <1>3, <3>1, <3>2
  <2> QED BY <1>3, <2>1 DEF Ack, Answers, Replies
<1>4. CASE op = "rx_status"
  <2>1. ModemSays(op) = RxReport(modem)
    BY <1>4 DEF ModemSays, ModemReply, Ops, Refuses
  <2>2. RxReport(modem) \in
          [kind : {"rx_status"}, rx : BOOLEAN, tx : BOOLEAN, dropped : BOOLEAN]
    BY DEF RxReport, Modems, TxActive
  <2> QED BY <1>4, <2>1, <2>2 DEF Answers, Replies, RxReport
<1>5. CASE op = "rf_status"
  <2>1. ModemSays(op) = RfReport(modem)
    BY <1>5 DEF ModemSays, ModemReply, Ops, Refuses
  <2>2. RfReport(modem) \in [kind : {"rf_status"}, remain : BOOLEAN]
    BY DEF RfReport, Modems, SelectorsRemain
  <2> QED BY <1>5, <2>1, <2>2 DEF Answers, Replies, RfReport, SelectorsRemain
<1>6. CASE op = "rf_diag"
  <2>1. ModemSays(op) = DiagReport(modem)
    BY <1>6 DEF ModemSays, ModemReply, Ops, Refuses
  <2>2. DiagReport(modem) \in [kind : {"rf_diag"}, tx : BOOLEAN]
    BY DEF DiagReport, Modems, TxActive
  <2> QED BY <1>6, <2>1, <2>2 DEF Answers, Replies, DiagReport, TxActive
<1> QED BY <1>1, <1>2, <1>3, <1>4, <1>5, <1>6 DEF Ops

\* The answers that are no answer of the modem, and what tells them apart.
LEMMA Marks ==
    /\ Idle \in Answers /\ Pending \in Answers /\ Failure \in Answers
    /\ \A op \in AllOps : Let(op) \in Answers
    /\ Idle.kind = "idle" /\ Pending.kind = "pending" /\ Failure.kind = "failure"
    /\ \A op : Let(op).kind = "let" /\ Let(op).op = op
    /\ \A a \in Answers :
          /\ a.kind = "idle" <=> a = Idle
          /\ a.kind = "pending" <=> a = Pending
          /\ a.kind = "failure" <=> a = Failure
          /\ a.kind = "let" <=> a = Let(a.op) /\ a.op \in AllOps
<1> USE DEF Idle, Pending, Failure, Let
<1>1. /\ Idle \in Answers /\ Pending \in Answers /\ Failure \in Answers
      /\ \A op \in AllOps : Let(op) \in Answers
  BY DEF Answers
<1>2. /\ Idle.kind = "idle" /\ Pending.kind = "pending" /\ Failure.kind = "failure"
      /\ \A op : Let(op).kind = "let" /\ Let(op).op = op
  OBVIOUS
<1>3. ASSUME NEW a \in Answers
      PROVE  /\ a.kind = "idle" <=> a = Idle
             /\ a.kind = "pending" <=> a = Pending
             /\ a.kind = "failure" <=> a = Failure
             /\ a.kind = "let" <=> a = Let(a.op) /\ a.op \in AllOps
  <2>1. CASE a \in Replies \cup {Ack("setup")}
    <3>1. a.kind \notin {"idle", "pending", "failure", "let"}
      BY <2>1 DEF Replies, Nak, Ack
    <3> QED BY <3>1, <1>2
  <2>2. CASE a \in {Idle, Pending, Failure}
    BY <2>2, <1>2
  <2>3. CASE \E op \in AllOps : a = Let(op)
    BY <2>3, <1>2
  <2> QED BY <2>1, <2>2, <2>3 DEF Answers
<1> QED BY <1>1, <1>2, <1>3

-----------------------------------------------------------------------------
(***************************************************************************)
(* Frames                                                                  *)
(***************************************************************************)

\* Whose turn it is: with the worker at work before the router is closed, the
\* main thread calls nobody, and the owner serves.
LEMMA OpenWorker ==
    ASSUME EngineInv, ~closed, worker.pc # "none"
    PROVE  /\ main.pc \in Serving /\ waits["main"] = Idle
           /\ owner.thread = "up" /\ owner.accepting
           /\ waits["worker"] # Pending => owner.queue = <<>>
<1>1. Types /\ CallInv /\ ClosedInv
  BY DEF EngineInv
<1>2. main.pc \in Serving
  BY <1>1 DEF CallInv, ClosedInv, Types, Mains, MainPcs, Early, Serving, Late
<1>3. Asking("main") = {}
  BY <1>2 DEF Asking, Serving
<1>4. waits["main"] = Idle
  BY <1>1, <1>3 DEF CallInv, Callers
<1> QED BY <1>1, <1>2, <1>4, Marks DEF CallInv, Callers

\* While the worker is at work, cleanup is not clean.
LEMMA WorkerUnclean ==
    ASSUME EngineInv, worker.pc # "ended" \/ waits["worker"] # Idle
    PROVE  main.pc \in Late \cup {"close"} => main.failing \/ main.errors
BY DEF EngineInv, CleanInv

\* While there is a worker, there is a process.
LEMMA WorkerProcess ==
    ASSUME EngineInv, worker.pc # "none" \/ waits["worker"] # Idle
    PROVE  main.pc # "off"
<1>1. CASE closed
  BY <1>1 DEF EngineInv, ClosedInv, Late
<1>2. CASE ~closed
  <2>1. worker.pc # "none"
    <3>1. worker.pc = "none" => Asking("worker") = {}
      BY DEF Asking
    <3> QED BY <1>2, <3>1 DEF EngineInv, CallInv, Callers
  <2> QED BY <1>2, <2>1 DEF EngineInv, CallInv, Early
<1> QED BY <1>1, <1>2

\* What the worker's place says of the transmitter and of the receiver, once
\* it has taken its answer.
TxKnown(w) ==
    /\ w.pc \in {"loop", "ended"} => modem.tx = "idle"
    /\ w.pc = "cycle" =>
          /\ w.step \notin {5, 6} => modem.tx = "idle"
          /\ w.step = 6 /\ ~w.remain => modem.tx \in {"draining", "idle"}
RxKnown(w) ==
    /\ w.pc = "loop" => modem.rx
    /\ w.pc = "cycle" /\ w.step >= 8 => modem.rx

\* The worker takes an answer and goes where it must.
LEMMA WorkerTakes ==
    ASSUME EngineInv, worker.pc \in {"loop", "cycle"}, waits["worker"] # Pending,
           worker' \in Workers, worker'.pc # "none",
           waits' = [waits EXCEPT !["worker"] = Idle],
           UNCHANGED <<modem, main, owner, closed, lastExit>>,
           ~closed => TxKnown(worker') /\ RxKnown(worker')
    PROVE  EngineInv'
<1>1. Types /\ ClosedInv /\ CleanExitLeavesIdle
  BY DEF EngineInv
<1>2. Types'
  BY <1>1, Marks DEF Types, Callers
<1>3. waits'["main"] = waits["main"] /\ waits'["worker"] = Idle
  BY <1>1 DEF Types, Callers
<1>4. ClosedInv'
  BY <1>1, <1>3, Marks DEF ClosedInv
<1>5. CleanInv' /\ CleanExitLeavesIdle'
  BY WorkerUnclean, WorkerProcess DEF CleanInv, CleanExitLeavesIdle
<1>6. ASSUME ~closed PROVE CallInv' /\ TxInv' /\ RxInv' /\ UpInv'
  <2>1. /\ main.pc \in Serving /\ waits["main"] = Idle
        /\ owner.thread = "up" /\ owner.accepting /\ owner.queue = <<>>
    BY <1>6, OpenWorker
  <2>2. CallInv'
    BY <1>3, <2>1, Marks DEF CallInv, Callers, Early, Serving
  <2>3. ~Answered("worker")' /\ main'.pc # "start"
    BY <1>3, <2>1, Marks DEF Answered, Serving
  <2>4. worker'.step \in 1..9
    BY DEF Workers
  <2>5. TxInv' /\ RxInv'
    BY <1>6, <2>3, <2>4 DEF TxInv, RxInv, TxKnown, RxKnown
  <2>6. UpInv'
    BY <1>6 DEF UpInv, EngineInv
  <2> QED BY <2>2, <2>5, <2>6
<1> QED BY <1>2, <1>4, <1>5, <1>6 DEF EngineInv

\* What the worker knows before it takes an answer.
LEMMA WorkerKnows ==
    ASSUME EngineInv, ~closed
    PROVE  /\ worker.pc = "loop" => modem.tx = "idle" /\ modem.rx
           /\ worker.pc = "cycle" =>
                 /\ worker.step \in {1, 2, 3, 7, 8, 9} => modem.tx = "idle"
                 /\ worker.step \in {8, 9} => modem.rx
BY DEF EngineInv, TxInv, RxInv

\* The loop's steps, but for its calls.
LEMMA LoopSteps ==
    ASSUME EngineInv,
           \/ \E transmits \in BOOLEAN : LoopGoesOn(transmits)
           \/ LoopFails \/ LoopEnds
    PROVE  EngineInv'
<1>1. /\ worker \in Workers /\ waits \in [Callers -> Answers]
      /\ worker.pc = "loop"
      /\ UNCHANGED <<modem, main, owner, closed, lastExit>>
  BY DEF EngineInv, Types, LoopGoesOn, LoopFails, LoopEnds, WorkerLeaves, unitVars
<1>2. waits["worker"] # Pending /\ waits' = [waits EXCEPT !["worker"] = Idle]
  <2>1. CASE LoopEnds
    BY <1>1, <2>1, Marks DEF LoopEnds, Callers
  <2>2. CASE Answered("worker") /\ Took("worker")
    BY <2>2, Marks DEF Answered, Took
  <2> QED BY <2>1, <2>2 DEF LoopGoesOn, LoopFails
<1>3. \/ worker' = worker
      \/ \E c \in 0..MaxCycles :
            worker' = [worker EXCEPT !.pc = "cycle", !.step = 1, !.cycles = c]
      \/ \E pc \in {"failed", "ended"} : worker' = [worker EXCEPT !.pc = pc]
  <2>1. ASSUME NEW transmits \in BOOLEAN, LoopGoesOn(transmits), transmits
        PROVE  \E c \in 0..MaxCycles :
                  worker' = [worker EXCEPT !.pc = "cycle", !.step = 1, !.cycles = c]
    <3>1. worker.cycles + 1 \in 0..MaxCycles
      BY <1>1, <2>1, EngineAssumption DEF LoopGoesOn, Workers
    <3> QED BY <2>1, <3>1 DEF LoopGoesOn
  <2> QED BY <2>1 DEF LoopGoesOn, LoopFails, LoopEnds
<1>4. /\ worker' \in Workers
      /\ \/ worker'.pc = "loop"
         \/ worker'.pc = "cycle" /\ worker'.step = 1
         \/ worker'.pc \in {"failed", "ended"}
  <2>1. CASE worker' = worker
    BY <1>1, <2>1
  <2>2. ASSUME NEW c \in 0..MaxCycles,
               worker' = [worker EXCEPT !.pc = "cycle", !.step = 1, !.cycles = c]
        PROVE  worker' \in Workers /\ worker'.pc = "cycle" /\ worker'.step = 1
    <3>1. "cycle" \in WorkerPcs /\ 1 \in 1..9
      BY DEF WorkerPcs
    <3> QED BY <1>1, <2>2, <3>1, Zenon DEF Workers
  <2>3. ASSUME NEW pc \in {"failed", "ended"}, worker' = [worker EXCEPT !.pc = pc]
        PROVE  worker' \in Workers /\ worker'.pc = pc
    <3>1. pc \in WorkerPcs
      BY DEF WorkerPcs
    <3> QED BY <1>1, <2>3, <3>1, Zenon DEF Workers
  <2> QED BY <1>3, <2>1, <2>2, <2>3
<1>5. ~closed => TxKnown(worker') /\ RxKnown(worker')
  BY <1>1, <1>4, WorkerKnows DEF TxKnown, RxKnown
<1> QED BY <1>1, <1>2, <1>4, <1>5, WorkerTakes

\* What the worker knows when it has accepted the answer to a poll.
LEMMA PollKnows ==
    ASSUME EngineInv, ~closed, worker.pc = "cycle", Answered("worker"),
           CycleAccepts(worker.step, waits["worker"])
    PROVE  /\ worker.step = 5 /\ ~waits["worker"].remain =>
                 modem.tx \in {"draining", "idle"}
           /\ worker.step = 6 /\ ~waits["worker"].tx /\ ~worker.remain =>
                 modem.tx = "idle"
           /\ worker.step = 7 => modem.rx
<1>1. TxInv /\ RxInv
  BY DEF EngineInv
<1>2. worker.step = 7 => CycleAccepts(7, waits["worker"])
  OBVIOUS
<1> QED BY <1>1, <1>2 DEF TxInv, RxInv

\* The cycle's steps, but for its calls.
LEMMA CycleSteps ==
    ASSUME EngineInv,
           \/ RouterRefuses \/ BurstFails \/ CycleFails
           \/ CycleProceeds \/ CyclePolled
    PROVE  EngineInv'
<1>1. /\ worker \in Workers /\ waits \in [Callers -> Answers]
      /\ worker.pc = "cycle"
      /\ UNCHANGED <<modem, main, owner, closed, lastExit>>
  BY DEF EngineInv, Types, RouterRefuses, BurstFails, CycleFails, CycleProceeds,
         CyclePolled, WorkerLeaves, unitVars
<1>2. waits["worker"] # Pending /\ waits' = [waits EXCEPT !["worker"] = Idle]
  <2>1. CASE RouterRefuses
    BY <1>1, <2>1, Marks DEF RouterRefuses, Callers
  <2>2. CASE Answered("worker") /\ Took("worker")
    BY <2>2, Marks DEF Answered, Took
  <2> QED BY <2>1, <2>2 DEF BurstFails, CycleFails, CycleProceeds, CyclePolled
<1>3. worker.step \in 1..9
  BY <1>1 DEF Workers
<1>4. \/ worker' = [worker EXCEPT !.step = 5, !.failing = TRUE]
      \/ worker' = [worker EXCEPT !.pc = "failed"]
      \/ worker.step = 9 /\ worker' = [worker EXCEPT !.pc = "loop", !.step = 1]
      \/ \E r \in BOOLEAN :
            /\ worker.step \in {1, 2, 3, 4, 5, 7, 8}
            /\ worker' = [worker EXCEPT !.step = worker.step + 1, !.remain = r]
            /\ Answered("worker") /\ CycleAccepts(worker.step, waits["worker"])
            /\ worker.step = 5 /\ ~r => ~waits["worker"].remain
      \/ /\ worker.step = 6 /\ ~worker.remain /\ ~waits["worker"].tx
         /\ Answered("worker") /\ CycleAccepts(worker.step, waits["worker"])
         /\ worker' = [worker EXCEPT !.step = 7]
      \/ worker' = [worker EXCEPT !.step = 5]
  <2>1. CASE RouterRefuses \/ BurstFails
    BY <2>1 DEF RouterRefuses, BurstFails, PollStep
  <2>2. CASE CycleFails
    BY <2>2 DEF CycleFails
  <2>3. CASE CycleProceeds
    <3> DEFINE r == worker.step = PollStep /\ waits["worker"].remain
    <3>1. r \in BOOLEAN
      OBVIOUS
    <3>2. \/ worker' = [worker EXCEPT !.pc = "failed"]
          \/ worker.step = 9 /\ worker' = [worker EXCEPT !.pc = "loop", !.step = 1]
          \/ /\ worker.step # 9
             /\ worker' = [worker EXCEPT !.step = worker.step + 1, !.remain = r]
      BY <2>3, StepOps DEF CycleProceeds
    <3>3. worker.step = 5 /\ ~r => ~waits["worker"].remain
      BY DEF PollStep
    <3>4. /\ worker.step # 6
          /\ Answered("worker") /\ CycleAccepts(worker.step, waits["worker"])
      BY <2>3 DEF CycleProceeds, DiagStep
    <3>5. worker.step # 9 => worker.step \in {1, 2, 3, 4, 5, 7, 8}
      BY <1>3, <3>4
    <3> HIDE DEF r
    <3> QED BY <3>1, <3>2, <3>3, <3>4, <3>5, Zenon
  <2>4. CASE CyclePolled
    BY <2>4 DEF CyclePolled, DiagStep, PollStep
  <2> QED BY <2>1, <2>2, <2>3, <2>4
<1>5. /\ "failed" \in WorkerPcs /\ "loop" \in WorkerPcs
      /\ 1 \in 1..9 /\ 5 \in 1..9 /\ 7 \in 1..9
      /\ worker.step \in {1, 2, 3, 4, 5, 7, 8} => worker.step + 1 \in 1..9
  BY DEF WorkerPcs
<1>6. /\ worker' \in Workers /\ worker'.pc # "none"
      /\ ~closed => TxKnown(worker') /\ RxKnown(worker')
  <2>1. CASE worker' = [worker EXCEPT !.step = 5, !.failing = TRUE]
    <3>1. worker' \in Workers
      BY <1>1, <1>5, <2>1, Zenon DEF Workers
    <3> QED BY <1>1, <2>1, <3>1 DEF TxKnown, RxKnown, Workers
  <2>2. CASE worker' = [worker EXCEPT !.pc = "failed"]
    <3>1. worker' \in Workers
      BY <1>1, <1>5, <2>2, Zenon DEF Workers
    <3> QED BY <1>1, <2>2, <3>1 DEF TxKnown, RxKnown, Workers
  <2>3. CASE worker.step = 9 /\ worker' = [worker EXCEPT !.pc = "loop", !.step = 1]
    <3>1. worker' \in Workers
      BY <1>1, <1>5, <2>3, Zenon DEF Workers
    <3>2. worker'.pc = "loop"
      BY <1>1, <2>3 DEF Workers
    <3> QED BY <1>1, <2>3, <3>1, <3>2, WorkerKnows DEF TxKnown, RxKnown
  <2>4. ASSUME NEW r \in BOOLEAN,
               worker.step \in {1, 2, 3, 4, 5, 7, 8},
               worker' = [worker EXCEPT !.step = worker.step + 1, !.remain = r],
               Answered("worker"), CycleAccepts(worker.step, waits["worker"]),
               worker.step = 5 /\ ~r => ~waits["worker"].remain
        PROVE  /\ worker' \in Workers /\ worker'.pc # "none"
               /\ ~closed => TxKnown(worker') /\ RxKnown(worker')
    <3>1. worker' \in Workers
      BY <1>1, <1>5, <2>4, Zenon DEF Workers
    <3>2. worker'.pc = "cycle" /\ worker'.step = worker.step + 1
      BY <1>1, <2>4 DEF Workers
    <3>3. worker'.remain = r
      BY <1>1, <2>4, Zenon DEF Workers
    <3>4. ASSUME ~closed PROVE TxKnown(worker')
      BY <1>1, <2>4, <3>2, <3>3, <3>4, WorkerKnows, PollKnows DEF TxKnown
    <3>5. ASSUME ~closed PROVE RxKnown(worker')
      BY <1>1, <2>4, <3>2, <3>5, WorkerKnows, PollKnows DEF RxKnown
    <3> QED BY <3>1, <3>2, <3>4, <3>5
  <2>5. CASE /\ worker.step = 6 /\ ~worker.remain /\ ~waits["worker"].tx
             /\ Answered("worker") /\ CycleAccepts(worker.step, waits["worker"])
             /\ worker' = [worker EXCEPT !.step = 7]
    <3>1. worker' \in Workers
      BY <1>1, <1>5, <2>5, Zenon DEF Workers
    <3>2. worker'.pc = "cycle" /\ worker'.step = 7
      BY <1>1, <2>5 DEF Workers
    <3> QED BY <1>1, <2>5, <3>1, <3>2, PollKnows DEF TxKnown, RxKnown
  <2>6. CASE worker' = [worker EXCEPT !.step = 5]
    <3>1. worker' \in Workers
      BY <1>1, <1>5, <2>6, Zenon DEF Workers
    <3> QED BY <1>1, <2>6, <3>1 DEF TxKnown, RxKnown, Workers
  <2> QED BY <1>4, <2>1, <2>2, <2>3, <2>4, <2>5, <2>6
<1> QED BY <1>1, <1>2, <1>6, WorkerTakes

\* The worker calls the owner.
LEMMA WorkerAsks ==
    ASSUME EngineInv, worker.pc \in {"loop", "cycle"},
           NEW op \in AllOps, Ask("worker", op),
           ~closed => op \in Asking("worker"),
           closed => op # "tx_burst",
           UNCHANGED <<modem, main, worker, closed, lastExit>>
    PROVE  EngineInv'
<1>1. Types /\ ClosedInv /\ CleanExitLeavesIdle
  BY DEF EngineInv
<1>2. /\ waits["worker"] = Idle /\ owner' = owner
      /\ waits' = [waits EXCEPT !["worker"] =
                     IF owner.accepting THEN Let(op) ELSE Failure]
  BY DEF Ask
<1>3. waits'["main"] = waits["main"]
      /\ waits'["worker"] = (IF owner.accepting THEN Let(op) ELSE Failure)
  BY <1>1, <1>2 DEF Types, Callers
<1>4. Types'
  BY <1>1, <1>2, Marks DEF Types, Callers
<1>5. ClosedInv'
  <2>1. closed => waits'["worker"] # Let("tx_burst")
    BY <1>3, Marks
  <2> QED BY <1>1, <1>2, <1>3, <2>1 DEF ClosedInv
<1>6. CleanInv' /\ CleanExitLeavesIdle'
  BY WorkerUnclean, WorkerProcess DEF CleanInv, CleanExitLeavesIdle
<1>7. ASSUME ~closed PROVE CallInv' /\ TxInv' /\ RxInv' /\ UpInv'
  <2>1. /\ main.pc \in Serving /\ waits["main"] = Idle
        /\ owner.thread = "up" /\ owner.accepting /\ owner.queue = <<>>
    BY <1>2, <1>7, OpenWorker, Marks
  <2>2. waits'["worker"] = Let(op)
    BY <1>3, <2>1
  <2>3. Asking("worker")' = Asking("worker") /\ op \in Asking("worker")
    BY <1>7 DEF Asking
  <2>4. CallInv'
    <3>1. ASSUME NEW p \in Callers
          PROVE  /\ waits'[p] # Idle => Asking(p)' # {}
                 /\ waits'[p].kind = "let" =>
                       waits'[p].op \in Asking(p)' /\ owner'.queue = <<>>
                 /\ waits'[p] # Pending
      BY <1>2, <1>3, <2>1, <2>2, <2>3, Marks DEF Callers
    <3>2. main.pc \notin Early
      BY <2>1 DEF Early, Serving
    <3> QED BY <1>2, <2>1, <3>1, <3>2 DEF CallInv, Early
  <2>5. ~Answered("worker") /\ ~Answered("worker")' /\ main'.pc # "start"
    BY <1>2, <2>1, <2>2, Marks DEF Answered, Serving
  <2>6. TxInv' /\ RxInv' /\ UpInv'
    BY <1>7, <2>5 DEF EngineInv, TxInv, RxInv, UpInv
  <2> QED BY <2>4, <2>6
<1> QED BY <1>4, <1>5, <1>6, <1>7 DEF EngineInv

\* The calls of the loop and of the cycle.
LEMMA WorkerAskSteps ==
    ASSUME EngineInv,
           CycleAsks \/ \E op \in {"rx_read", "rx_status"} : LoopAsks(op)
    PROVE  EngineInv'
<1>1. CASE CycleAsks
  <2>1. /\ worker.pc = "cycle" /\ Ask("worker", CycleOps[worker.step])
        /\ closed => worker.step # 4
        /\ UNCHANGED <<modem, main, worker, closed, lastExit>>
    BY <1>1 DEF CycleAsks, WorkerLeaves, unitVars, BurstStep
  <2>2. worker.step \in 1..9
    BY DEF EngineInv, Types, Workers
  <2>3. CycleOps[worker.step] \in AllOps
        /\ (worker.step # 4 => CycleOps[worker.step] # "tx_burst")
    BY <2>2, StepOps DEF AllOps, Ops, SetupOps
  <2>4. CycleOps[worker.step] \in Asking("worker")
    BY <2>1 DEF Asking
  <2> QED BY <2>1, <2>3, <2>4, WorkerAsks
<1>2. ASSUME NEW op \in {"rx_read", "rx_status"}, LoopAsks(op) PROVE EngineInv'
  <2>1. /\ worker.pc = "loop" /\ Ask("worker", op)
        /\ UNCHANGED <<modem, main, worker, closed, lastExit>>
    BY <1>2 DEF LoopAsks, WorkerLeaves, unitVars
  <2>2. op \in AllOps /\ op # "tx_burst" /\ op \in Asking("worker")
    BY <2>1 DEF AllOps, Ops, SetupOps, Asking
  <2> QED BY <2>1, <2>2, WorkerAsks
<1> QED BY <1>1, <1>2

\* Before the router is closed one thread at most is in a call, and the owner
\* is up while one is.
LEMMA OneCaller ==
    ASSUME EngineInv, ~closed, NEW p \in Callers, waits[p] # Idle
    PROVE  /\ \A q \in Callers : q # p => waits[q] = Idle
           /\ owner.thread = "up" /\ Asking(p) # {}
           /\ main.pc \notin {"off", "opening"}
           /\ p = "main" => main.pc = "start" /\ worker.pc = "none"
           /\ p = "worker" => main.pc \in Serving /\ worker.pc \in {"loop", "cycle"}
<1>1. CallInv /\ Asking(p) # {}
  BY DEF EngineInv, CallInv
<1>2. CASE p = "main"
  <2>1. main.pc = "start" /\ worker.pc = "none"
    BY <1>1, <1>2 DEF Asking, CallInv, Early
  <2>2. Asking("worker") = {}
    BY <2>1 DEF Asking
  <2> QED BY <1>1, <1>2, <2>1, <2>2 DEF CallInv, Callers
<1>3. CASE p = "worker"
  <2>1. worker.pc \in {"loop", "cycle"}
    BY <1>1, <1>3 DEF Asking
  <2> QED BY <1>1, <1>3, <2>1, OpenWorker DEF Callers, Serving
<1> QED BY <1>2, <1>3 DEF Callers

\* A thread in a call is one of a process.
LEMMA CallerProcess ==
    ASSUME EngineInv, NEW p \in Callers, waits[p] # Idle
    PROVE  main.pc # "off"
BY OneCaller DEF EngineInv, ClosedInv, Late

\* A call is queued.
LEMMA QueuesKeeps ==
    ASSUME EngineInv, NEW p \in Callers, Queues(p)
    PROVE  EngineInv'
<1> DEFINE call == [op |-> waits[p].op, by |-> p, live |-> TRUE]
<1>1. Types /\ ClosedInv /\ CleanExitLeavesIdle /\ CleanInv
  BY DEF EngineInv
<1>2. /\ waits[p].kind = "let"
      /\ owner' = [owner EXCEPT !.queue = Append(owner.queue, call)]
      /\ waits' = [waits EXCEPT ![p] = Pending]
      /\ UNCHANGED <<modem, main, worker, closed, lastExit>>
  BY DEF Queues, unitVars
<1>3. /\ waits[p] = Let(waits[p].op) /\ waits[p].op \in AllOps
      /\ waits[p] # Idle /\ waits[p] # Pending
  BY <1>1, <1>2, Marks DEF Types
<1>4. call \in Calls /\ call.op = waits[p].op
  BY <1>3 DEF Calls
<1>5. /\ owner.queue \in Seq(Calls \cup {StopItem})
      /\ Append(owner.queue, call) \in Seq(Calls \cup {StopItem})
  BY <1>1, <1>4 DEF Types, Owners
<1>6. /\ owner' \in Owners /\ owner'.queue = Append(owner.queue, call)
      /\ owner'.thread = owner.thread /\ owner'.accepting = owner.accepting
  <2> HIDE DEF call
  <2>1. owner \in Owners
    BY <1>1 DEF Types
  <2> QED BY <1>2, <1>5, <2>1, Zenon DEF Owners
<1>7. waits'[p] = Pending /\ \A q \in Callers : q # p => waits'[q] = waits[q]
  BY <1>1, <1>2 DEF Types
<1>8. Types'
  BY <1>1, <1>2, <1>6, Marks DEF Types
<1>9. ClosedInv'
  <2>1. closed => call.op # "tx_burst"
    BY <1>1, <1>3, <1>4 DEF ClosedInv, Callers
  <2>2. \A q \in Callers : waits'[q] = waits[q] \/ waits'[q] # Let("tx_burst")
    BY <1>7, Marks
  <2>3. ASSUME closed, NEW i \in 1..Len(owner'.queue)
        PROVE  owner'.queue[i].op # "tx_burst"
    <3> HIDE DEF call
    <3> QED BY <1>1, <1>5, <1>6, <2>1, <2>3 DEF ClosedInv
  <2> QED BY <1>1, <1>2, <2>2, <2>3 DEF ClosedInv, Callers
<1>10. CleanExitLeavesIdle'
  BY <1>2, <1>3, CallerProcess DEF CleanExitLeavesIdle
<1>11. CleanInv'
  <2> SUFFICES ASSUME main.pc \in Late \cup {"close"}, ~main.failing, ~main.errors
               PROVE  CleanInv'
    BY <1>2 DEF CleanInv
  <2>1. /\ p = "main" /\ main.pc = "rx_stop" /\ owner.queue = <<>>
        /\ waits["main"] = Let("rx_stop")
    BY <1>1, <1>2, <1>3, Marks DEF CleanInv, Callers, Late
  <2>2. owner'.queue = <<[op |-> "rx_stop", by |-> "main", live |-> TRUE]>>
    <3>1. waits[p].op = "rx_stop"
      BY <2>1, Marks
    <3>2. call = [op |-> "rx_stop", by |-> "main", live |-> TRUE]
      BY <2>1, <3>1
    <3> HIDE DEF call
    <3> QED BY <1>6, <2>1, <3>2
  <2>3. ~Answered("main")' /\ waits'["main"] = Pending /\ waits'["worker"] = waits["worker"]
    BY <1>7, <2>1, Marks DEF Answered, Callers
  <2> QED BY <1>1, <1>2, <1>6, <2>1, <2>2, <2>3, Marks DEF CleanInv, Late
<1>12. ASSUME ~closed PROVE CallInv' /\ TxInv' /\ RxInv' /\ UpInv'
  <2>1. /\ \A q \in Callers : q # p => waits[q] = Idle /\ waits'[q] = Idle
        /\ owner.thread = "up" /\ main.pc \notin {"off", "opening"}
    BY <1>3, <1>7, <1>12, OneCaller
  <2>2. waits[p].op \in Asking(p) /\ owner.queue = <<>> /\ owner.accepting
    BY <1>2, <1>12, <2>1 DEF EngineInv, CallInv
  <2>3. owner'.queue = <<call>>
    BY <1>6, <2>2
  <2>4. \A q \in Callers : Asking(q)' = Asking(q)
    BY <1>2 DEF Asking
  <2>5. CallInv'
    <3>1. ASSUME NEW q \in Callers
          PROVE  /\ waits'[q] # Idle => Asking(q)' # {}
                 /\ waits'[q].kind # "let"
                 /\ waits'[q] = Pending =>
                      \E op \in Asking(q)' :
                         owner'.queue = <<[op |-> op, by |-> q, live |-> TRUE]>>
      <4>1. CASE q = p
        BY <1>7, <2>2, <2>3, <2>4, <4>1, Marks
      <4>2. CASE q # p
        BY <2>1, <4>2, Marks
      <4> QED BY <4>1, <4>2
    <3>2. main.pc \in Early => worker.pc = "none"
      BY <1>12 DEF EngineInv, CallInv
    <3> QED BY <1>2, <1>6, <1>7, <2>1, <2>2, <3>1, <3>2 DEF CallInv
  <2>6. \A q \in Callers : ~Answered(q) /\ ~Answered(q)'
    BY <1>2, <1>7, <2>1, Marks DEF Answered
  <2>7. TxInv' /\ RxInv' /\ UpInv'
    BY <1>2, <1>12, <2>6 DEF EngineInv, TxInv, RxInv, UpInv, Callers
  <2> QED BY <2>5, <2>7
<1> QED BY <1>8, <1>9, <1>10, <1>11, <1>12, <1>2 DEF EngineInv

\* A caller gives up waiting: only after the router was closed, when another
\* call or the stop item may be before its own, and never in a clean cleanup.
LEMMA GivesUpKeeps ==
    ASSUME EngineInv, NEW p \in Callers, GivesUp(p)
    PROVE  EngineInv'
<1>1. Types /\ ClosedInv /\ CleanInv
  BY DEF EngineInv
<1>2. PICK i \in 1..Len(owner.queue) :
          /\ i > 1 \/ owner.thread = "gone"
          /\ owner.queue[i] # StopItem
          /\ owner' = [owner EXCEPT !.queue[i].live = FALSE]
          /\ waits' = [waits EXCEPT ![p] = Failure]
          /\ UNCHANGED <<modem, main, worker, closed, lastExit>>
  BY DEF GivesUp, unitVars
<1> DEFINE call == [owner.queue[i] EXCEPT !.live = FALSE]
           queue == [owner.queue EXCEPT ![i] = call]
<1>3. owner.queue \in Seq(Calls \cup {StopItem}) /\ owner.queue[i] \in Calls
      /\ owner.queue # <<>>
  BY <1>1, <1>2 DEF Types, Owners
<1>4. closed
  <2>1. SUFFICES ASSUME ~closed PROVE FALSE
    OBVIOUS
  <2>2. CallInv
    BY <2>1 DEF EngineInv
  <2>3. PICK q \in Callers : waits[q] = Pending
    BY <1>3, <2>2 DEF CallInv
  <2>4. Len(owner.queue) = 1
    <3>1. PICK op \in Asking(q) :
             owner.queue = <<[op |-> op, by |-> q, live |-> TRUE]>>
      BY <2>2, <2>3 DEF CallInv
    <3> QED BY <3>1
  <2> QED BY <1>2, <1>3, <2>2, <2>4 DEF CallInv
<1>5. main.pc \in Late
  BY <1>1, <1>4 DEF ClosedInv
<1>6. main.failing \/ main.errors
  <2> SUFFICES ASSUME ~main.failing, ~main.errors PROVE FALSE
    OBVIOUS
  <2>1. \/ main.pc = "rx_stop" /\ owner.thread = "up"
           /\ owner.queue = <<[op |-> "rx_stop", by |-> "main", live |-> TRUE]>>
        \/ owner.queue = <<StopItem>>
    BY <1>1, <1>3, <1>5 DEF CleanInv, Late
  <2> QED BY <1>2, <2>1
<1>7. call \in Calls /\ call.op = owner.queue[i].op
  BY <1>3 DEF Calls
<1>8. queue \in Seq(Calls \cup {StopItem}) /\ Len(queue) = Len(owner.queue)
      /\ \A j \in 1..Len(owner.queue) : queue[j].op = owner.queue[j].op
  <2> HIDE DEF call
  <2> QED BY <1>2, <1>3, <1>7
<1>9. owner' \in Owners /\ owner'.queue = queue
  <2>1. owner' = [owner EXCEPT !.queue = queue]
    BY <1>2
  <2>2. owner \in Owners
    BY <1>1 DEF Types
  <2> HIDE DEF queue
  <2> QED BY <1>8, <2>1, <2>2, Zenon DEF Owners
<1>10. Types'
  BY <1>1, <1>2, <1>9, Marks DEF Types
<1>11. \A q \in Callers : waits'[q] = waits[q] \/ waits'[q] # Let("tx_burst")
  BY <1>1, <1>2, Marks DEF Types
<1>12. ClosedInv'
  <2> HIDE DEF queue
  <2> QED BY <1>1, <1>2, <1>8, <1>9, <1>11 DEF ClosedInv, Callers
<1>13. CleanInv' /\ CleanExitLeavesIdle'
  BY <1>2, <1>5, <1>6 DEF CleanInv, CleanExitLeavesIdle, Late
<1> QED BY <1>2, <1>4, <1>10, <1>12, <1>13 DEF EngineInv

-----------------------------------------------------------------------------
(***************************************************************************)
(* The owner and the modem                                                 *)
(***************************************************************************)

\* What a served call does to the modem and gives its caller.
LEMMA ServedCall ==
    ASSUME EngineInv, NEW fate \in Fates, OwnerServes(fate)
    PROVE  LET call == Head(owner.queue)
           IN  /\ call \in Calls /\ owner.queue # <<>>
               /\ owner.queue \in Seq(Calls \cup {StopItem})
               /\ modem' \in {modem, ModemDoes(call.op)}
               /\ \E a \in Answers :
                     /\ waits' = IF call.live THEN [waits EXCEPT ![call.by] = a]
                                 ELSE waits
                     /\ a.kind \notin {"idle", "let", "pending"}
                     /\ a # Failure => a = ModemSays(call.op)
                                       /\ modem' = ModemDoes(call.op)
<1> DEFINE call == Head(owner.queue)
<1>1. Types
  BY DEF EngineInv
<1>2. /\ owner.queue # <<>> /\ call # StopItem
      /\ modem' = IF fate = "lost" THEN modem ELSE ModemDoes(call.op)
      /\ waits' = IF ~call.live THEN waits
                  ELSE [waits EXCEPT ![call.by] =
                          IF fate = "answered" THEN ModemSays(call.op)
                          ELSE Failure]
  BY DEF OwnerServes
<1>3. owner.queue \in Seq(Calls \cup {StopItem}) /\ call \in Calls
  BY <1>1, <1>2 DEF Types, Owners
<1> DEFINE a == IF fate = "answered" THEN ModemSays(call.op) ELSE Failure
<1>4. call.op \in AllOps
  BY <1>3 DEF Calls
<1>5. a \in Answers /\ a.kind \notin {"idle", "let", "pending"}
  BY <1>1, <1>4, ModemSaying, Marks DEF Types
<1>6. a # Failure => a = ModemSays(call.op) /\ modem' = ModemDoes(call.op)
  BY <1>2
<1>7. waits' = IF call.live THEN [waits EXCEPT ![call.by] = a] ELSE waits
  BY <1>2
<1> HIDE DEF a, call
<1> QED BY <1>2, <1>3, <1>5, <1>6, <1>7 DEF call

\* Before the router is closed: the one caller is answered, and what it then
\* knows of the modem is true.
LEMMA ServesOpen ==
    ASSUME EngineInv, ~closed, NEW fate \in Fates, OwnerServes(fate)
    PROVE  /\ CallInv' /\ TxInv' /\ RxInv' /\ UpInv'
           /\ \E p \in Callers : waits[p] = Pending
           /\ \A p \in Callers : waits'[p].kind # "let"
<1>1. Types /\ CallInv /\ TxInv /\ RxInv /\ UpInv
  BY DEF EngineInv
<1>2. /\ owner.thread = "up" /\ owner.queue # <<>>
      /\ owner' = [owner EXCEPT !.queue = Tail(owner.queue)]
      /\ UNCHANGED <<main, worker, closed>>
  BY DEF OwnerServes
<1>3. PICK p \in Callers : waits[p] = Pending
  BY <1>1, <1>2 DEF CallInv
<1>4. PICK op \in Asking(p) : owner.queue = <<[op |-> op, by |-> p, live |-> TRUE]>>
  BY <1>1, <1>3 DEF CallInv
<1>5. /\ owner'.queue = <<>> /\ owner'.thread = "up" /\ owner'.accepting
  BY <1>1, <1>2, <1>4 DEF Types, Owners, CallInv
<1>6. Head(owner.queue).op = op /\ Head(owner.queue).by = p /\ Head(owner.queue).live
  BY <1>4
<1>7. /\ op \in AllOps /\ modem' \in {modem, ModemDoes(op)}
      /\ \E a \in Answers :
            /\ waits' = [waits EXCEPT ![p] = a]
            /\ a.kind \notin {"idle", "let", "pending"}
            /\ a # Failure => a = ModemSays(op) /\ modem' = ModemDoes(op)
  <2>1. Head(owner.queue).op \in AllOps
    BY ServedCall DEF Calls
  <2> QED BY <1>6, <2>1, ServedCall
<1>8. PICK a \in Answers :
         /\ waits' = [waits EXCEPT ![p] = a]
         /\ a.kind \notin {"idle", "let", "pending"}
         /\ a # Failure => a = ModemSays(op) /\ modem' = ModemDoes(op)
  BY <1>7
<1>9. /\ waits'[p] = a /\ a # Idle /\ a # Pending
      /\ \A q \in Callers : q # p => waits'[q] = Idle
  <2>1. waits[p] # Idle
    BY <1>3, Marks
  <2> QED BY <1>1, <1>3, <1>8, <2>1, OneCaller, Marks DEF Types
<1>10. \A q \in Callers : Asking(q)' = Asking(q)
  BY <1>2 DEF Asking
<1>11. /\ main.pc \notin {"off", "opening"}
       /\ p = "main" => main.pc = "start" /\ worker.pc = "none"
       /\ p = "worker" => main.pc \in Serving /\ worker.pc \in {"loop", "cycle"}
  BY <1>3, OneCaller, Marks
<1>12. CallInv'
  <2>1. ASSUME NEW q \in Callers
        PROVE  /\ waits'[q] # Idle => Asking(q)' # {}
               /\ waits'[q].kind # "let" /\ waits'[q] # Pending
    BY <1>4, <1>8, <1>9, <1>10, Marks
  <2>2. main.pc \in Early => worker.pc = "none"
    BY <1>1 DEF CallInv
  <2> QED BY <1>2, <1>5, <1>11, <2>1, <2>2 DEF CallInv
<1>13. modem \in Modems
  BY <1>1 DEF Types
<1>14. TxInv' /\ RxInv'
  <2>1. CASE p = "main"
    <3>1. /\ main.pc = "start" /\ worker.pc = "none" /\ main.step \in 1..8
          /\ op = StartOps[main.step] /\ waits'["main"] = a
      BY <1>1, <1>4, <1>9, <1>11, <2>1 DEF Asking, Types, Mains
    <3>2. op # "tx_burst" /\ modem'.tx = modem.tx
      BY <1>7, <1>13, <3>1, ModemDoing, StepOps
    <3>3. StartAccepts(waits["main"])' => a # Failure /\ a # Nak
      BY <3>1 DEF StartAccepts
    <3>4. TxInv'
      <4>1. main.step = 2 /\ StartAccepts(waits["main"])' =>
               modem.tx \in {"draining", "idle"}
        <5> SUFFICES ASSUME main.step = 2, StartAccepts(waits["main"])'
                     PROVE  modem.tx \in {"draining", "idle"}
          OBVIOUS
        <5>1. op = "rf_status" /\ a = ModemSays(op)
          BY <1>8, <3>1, <3>3, StepOps
        <5>2. ~a.remain
          BY <1>7, <1>13, <3>1, <5>1, ModemSaying DEF StartAccepts
        <5> QED BY <1>7, <1>13, <5>1, <5>2, ModemSaying DEF Modems, TxStates
      <4>2. main.step = 3 /\ StartAccepts(waits["main"])' => modem.tx = "idle"
        <5> SUFFICES ASSUME main.step = 3, StartAccepts(waits["main"])'
                     PROVE  modem.tx = "idle"
          OBVIOUS
        <5>1. op = "rf_diag" /\ a = ModemSays(op)
          BY <1>8, <3>1, <3>3, StepOps
        <5>2. ~a.tx
          BY <1>7, <1>13, <3>1, <5>1, ModemSaying DEF StartAccepts
        <5>3. modem.tx \in {"draining", "idle"}
          BY <1>1, <3>1 DEF TxInv
        <5> QED BY <1>7, <1>13, <5>1, <5>2, <5>3, ModemSaying
      <4> QED BY <1>1, <1>2, <3>1, <3>2, <4>1, <4>2 DEF TxInv
    <3>5. main.step >= 7 => modem' = modem
      BY <1>7, <1>13, <3>1, ModemDoing, StepOps
    <3>6. main.step = 6 /\ StartAccepts(waits["main"])' => modem'.rx
      BY <1>7, <1>8, <1>13, <3>1, <3>3, ModemDoing, StepOps
    <3> QED BY <1>1, <1>2, <3>1, <3>4, <3>5, <3>6 DEF RxInv
  <2>2. CASE p = "worker" /\ worker.pc = "loop"
    <3>1. op \in {"rx_read", "rx_status"}
      BY <1>4, <2>2 DEF Asking
    <3>2. modem' = modem
      BY <1>7, <1>13, <3>1, ModemDoing
    <3> QED BY <1>1, <1>2, <1>11, <2>2, <3>2 DEF TxInv, RxInv, Serving
  <2>3. CASE p = "worker" /\ worker.pc = "cycle"
    <3>1. /\ main.pc # "start" /\ worker.step \in 1..9
          /\ op = CycleOps[worker.step] /\ waits'["worker"] = a
      BY <1>1, <1>4, <1>9, <1>11, <2>3 DEF Asking, Types, Workers, Serving
    <3>2. worker.step # 4 => modem'.tx = modem.tx
      BY <1>7, <1>13, <3>1, ModemDoing, StepOps
    <3>3. \A s : CycleAccepts(s, waits["worker"])' => a # Failure /\ a # Nak
      BY <3>1 DEF CycleAccepts
    <3>4. Answered("worker")'
      BY <1>8, <3>1 DEF Answered
    <3>5. CycleAccepts(worker.step, waits["worker"])' /\ worker.step = 5 /\ ~a.remain
             => modem.tx \in {"draining", "idle"}
      <4> SUFFICES ASSUME CycleAccepts(worker.step, waits["worker"])',
                          worker.step = 5, ~a.remain
                   PROVE  modem.tx \in {"draining", "idle"}
        OBVIOUS
      <4>1. op = "rf_status" /\ a = ModemSays(op)
        BY <1>2, <1>8, <3>1, <3>3, StepOps
      <4> QED BY <1>7, <1>13, <4>1, ModemSaying DEF Modems, TxStates
    <3>6. CycleAccepts(worker.step, waits["worker"])' /\ worker.step = 6 /\ ~a.tx
             /\ ~worker.remain => modem.tx = "idle"
      <4> SUFFICES ASSUME CycleAccepts(worker.step, waits["worker"])',
                          worker.step = 6, ~a.tx, ~worker.remain
                   PROVE  modem.tx = "idle"
        OBVIOUS
      <4>1. op = "rf_diag" /\ a = ModemSays(op)
        BY <1>2, <1>8, <3>1, <3>3, StepOps
      <4>2. modem.tx \in {"draining", "idle"}
        BY <1>1, <2>3 DEF TxInv
      <4> QED BY <1>7, <1>13, <4>1, <4>2, ModemSaying
    <3>7. TxInv'
      BY <1>1, <1>2, <2>3, <3>1, <3>2, <3>4, <3>5, <3>6 DEF TxInv
    <3>8. worker.step >= 8 => modem' = modem
      BY <1>7, <1>13, <3>1, ModemDoing, StepOps
    <3>9. worker.step = 7 /\ CycleAccepts(7, waits["worker"])' => modem'.rx
      BY <1>7, <1>8, <1>13, <3>1, <3>3, ModemDoing, StepOps
    <3> QED BY <1>1, <1>2, <2>3, <3>1, <3>7, <3>8, <3>9 DEF RxInv
  <2> QED BY <1>11, <2>1, <2>2, <2>3 DEF Callers
<1>15. UpInv'
  BY <1>1, <1>2 DEF UpInv
<1>16. \A q \in Callers : waits'[q].kind # "let"
  BY <1>8, <1>9, Marks
<1> QED BY <1>3, <1>12, <1>14, <1>15, <1>16

\* The owner serves a call.
LEMMA ServesKeeps ==
    ASSUME EngineInv, NEW fate \in Fates, OwnerServes(fate)
    PROVE  EngineInv'
<1> DEFINE call == Head(owner.queue)
<1>1. Types /\ ClosedInv /\ CleanInv
  BY DEF EngineInv
<1>2. /\ owner' = [owner EXCEPT !.queue = Tail(owner.queue)]
      /\ call # StopItem
      /\ UNCHANGED <<main, worker, closed, lastExit>>
  BY DEF OwnerServes, unitVars
<1>3. /\ call \in Calls /\ owner.queue # <<>>
      /\ owner.queue \in Seq(Calls \cup {StopItem})
      /\ modem' \in {modem, ModemDoes(call.op)}
  BY ServedCall
<1>4. PICK a \in Answers :
         /\ waits' = IF call.live THEN [waits EXCEPT ![call.by] = a] ELSE waits
         /\ a.kind \notin {"idle", "let", "pending"}
         /\ a # Failure => a = ModemSays(call.op) /\ modem' = ModemDoes(call.op)
  BY ServedCall
<1>5. call.op \in AllOps /\ call.by \in Callers
  BY <1>3 DEF Calls
<1>6. modem \in Modems /\ modem' \in Modems
  BY <1>1, <1>3, <1>5, ModemDoing DEF Types
<1>7. /\ Tail(owner.queue) \in Seq(Calls \cup {StopItem})
      /\ Len(Tail(owner.queue)) = Len(owner.queue) - 1
      /\ \A i \in 1..Len(Tail(owner.queue)) :
            i + 1 \in 1..Len(owner.queue) /\ Tail(owner.queue)[i] = owner.queue[i + 1]
  BY <1>3
<1>8. owner' \in Owners /\ owner'.queue = Tail(owner.queue)
      /\ owner'.thread = owner.thread
  <2>1. owner \in Owners
    BY <1>1 DEF Types
  <2> QED BY <1>2, <1>7, <2>1, Zenon DEF Owners
<1>9. Types'
  <2>1. waits' \in [Callers -> Answers]
    <3> HIDE DEF call
    <3> QED BY <1>1, <1>4, <1>5 DEF Types
  <2> QED BY <1>1, <1>2, <1>6, <1>8, <2>1 DEF Types
<1>10. \A q \in Callers : waits'[q] = waits[q] \/ waits'[q] # Let("tx_burst")
  <2>1. \A q \in Callers : waits'[q] = waits[q] \/ waits'[q] = a
    <3> HIDE DEF call
    <3> QED BY <1>1, <1>4, <1>5 DEF Types
  <2> QED BY <1>4, <2>1, Marks
<1>11. ClosedInv'
  <2>1. ASSUME closed, NEW i \in 1..Len(owner'.queue)
        PROVE  owner'.queue[i].op # "tx_burst"
    BY <1>1, <1>7, <1>8, <2>1 DEF ClosedInv
  <2> QED BY <1>1, <1>2, <1>10, <2>1 DEF ClosedInv, Callers
<1>12. CleanExitLeavesIdle'
  <2>1. main.pc # "off"
    <3>1. CASE closed
      BY <1>1, <3>1 DEF ClosedInv, Late
    <3>2. CASE ~closed
      BY <3>2, ServesOpen, CallerProcess, Marks
    <3> QED BY <3>1, <3>2
  <2> QED BY <1>2, <2>1 DEF CleanExitLeavesIdle
<1>13. CleanInv'
  <2> SUFFICES ASSUME main.pc \in Late \cup {"close"}, ~main.failing, ~main.errors
               PROVE  CleanInv'
    BY <1>2 DEF CleanInv
  <2>1. owner.queue # <<StopItem>>
    BY <1>2
  <2>2. /\ main.pc = "rx_stop" /\ waits["main"] = Pending
        /\ owner.queue = <<[op |-> "rx_stop", by |-> "main", live |-> TRUE]>>
        /\ worker.pc = "ended" /\ waits["worker"] = Idle /\ modem.tx = "idle"
        /\ main.rxStarted /\ owner.thread = "up"
    BY <1>1, <1>3, <2>1 DEF CleanInv, Late
  <2>3. call.op = "rx_stop" /\ call.by = "main" /\ call.live
    BY <2>2
  <2>4. waits' = [waits EXCEPT !["main"] = a]
    BY <1>4, <2>3
  <2>5. waits'["main"] = a /\ waits'["worker"] = Idle
    BY <1>1, <2>2, <2>4 DEF Types, Callers
  <2>6. modem'.tx = "idle" /\ (a # Failure => ~modem'.rx)
    BY <1>3, <1>4, <1>5, <1>6, <2>2, <2>3, ModemDoing
  <2>7. owner'.queue = <<>>
    BY <1>8, <2>2
  <2>8. a.kind # "let" /\ a # Pending /\ a # Idle
    BY <1>4, Marks
  <2> QED BY <1>2, <1>8, <2>2, <2>5, <2>6, <2>7, <2>8 DEF CleanInv, Late
<1>14. ~closed => CallInv' /\ TxInv' /\ RxInv' /\ UpInv'
  BY ServesOpen
<1> QED BY <1>2, <1>9, <1>11, <1>12, <1>13, <1>14 DEF EngineInv

\* The stop item is met after the router was closed only.
LEMMA OwnerEndsKeeps ==
    ASSUME EngineInv, OwnerEnds
    PROVE  EngineInv'
<1>1. Types /\ ClosedInv /\ CleanInv
  BY DEF EngineInv
<1>2. /\ owner.queue # <<>> /\ Head(owner.queue) = StopItem
      /\ owner' = [thread |-> "gone", accepting |-> FALSE, queue |-> Tail(owner.queue)]
      /\ UNCHANGED <<modem, main, worker, waits, closed, lastExit>>
  BY DEF OwnerEnds, unitVars
<1>3. owner.queue \in Seq(Calls \cup {StopItem})
  BY <1>1 DEF Types, Owners
<1>4. \A op \in AllOps, p \in Callers :
         owner.queue # <<[op |-> op, by |-> p, live |-> TRUE]>>
  <2> SUFFICES ASSUME NEW op \in AllOps, NEW p \in Callers,
                      owner.queue = <<[op |-> op, by |-> p, live |-> TRUE]>>
               PROVE  FALSE
    OBVIOUS
  <2>1. Head(owner.queue).op = op
    OBVIOUS
  <2> QED BY <1>2, <2>1 DEF StopItem, AllOps, Ops, SetupOps
<1>5. closed
  <2> SUFFICES ASSUME ~closed PROVE FALSE
    OBVIOUS
  <2>1. CallInv
    BY DEF EngineInv
  <2>2. PICK p \in Callers : waits[p] = Pending
    BY <1>2, <2>1 DEF CallInv
  <2>3. PICK op \in Asking(p) : owner.queue = <<[op |-> op, by |-> p, live |-> TRUE]>>
    BY <2>1, <2>2 DEF CallInv
  <2>4. main.step \in 1..8 /\ worker.step \in 1..9
    BY <1>1 DEF Types, Mains, Workers
  <2>5. op \in AllOps
    BY <2>3, <2>4, StepOps DEF Asking, AllOps, Ops, SetupOps
  <2> QED BY <1>4, <2>3, <2>5
<1>6. main.pc \in Late
  BY <1>1, <1>5 DEF ClosedInv
<1>7. /\ Tail(owner.queue) \in Seq(Calls \cup {StopItem})
      /\ Len(Tail(owner.queue)) = Len(owner.queue) - 1
      /\ \A i \in 1..Len(Tail(owner.queue)) :
            i + 1 \in 1..Len(owner.queue) /\ Tail(owner.queue)[i] = owner.queue[i + 1]
  BY <1>2, <1>3
<1>8. Types'
  <2>1. owner' \in Owners
    BY <1>2, <1>7, Zenon DEF Owners
  <2> QED BY <1>1, <1>2, <2>1 DEF Types
<1>9. ClosedInv'
  <2>1. ASSUME NEW i \in 1..Len(owner'.queue)
        PROVE  owner'.queue[i].op # "tx_burst"
    BY <1>1, <1>2, <1>5, <1>7 DEF ClosedInv
  <2> QED BY <1>1, <1>2, <1>5, <2>1 DEF ClosedInv
<1>10. CleanInv'
  <2> SUFFICES ASSUME ~main.failing, ~main.errors PROVE CleanInv'
    BY <1>2 DEF CleanInv
  <2>1. "rx_stop" \in AllOps /\ "main" \in Callers
    BY DEF AllOps, Ops, Callers
  <2>2. main.pc = "owner_join" /\ owner.queue = <<StopItem>>
    BY <1>1, <1>2, <1>4, <1>6, <2>1 DEF CleanInv, Late
  <2>3. owner'.queue = <<>>
    BY <1>2, <2>2
  <2> QED BY <1>1, <1>2, <2>2, <2>3 DEF CleanInv, Late
<1>11. CleanExitLeavesIdle'
  BY <1>2, <1>6 DEF CleanExitLeavesIdle, Late
<1> QED BY <1>2, <1>5, <1>8, <1>9, <1>10, <1>11 DEF EngineInv

\* The modem on its own: a burst runs on towards its end, a FIFO overflows.
LEMMA ModemKeeps ==
    ASSUME EngineInv, Transmit \/ Overflow
    PROVE  EngineInv'
<1>1. Types /\ ClosedInv /\ CleanInv /\ CleanExitLeavesIdle
  BY DEF EngineInv
<1>2. UNCHANGED <<main, worker, owner, waits, closed, lastExit>>
  BY DEF Transmit, Overflow, unitVars
<1>3. /\ modem' \in Modems /\ modem'.rx = modem.rx
      /\ modem.tx = "idle" => modem'.tx = "idle"
      /\ modem.tx \in {"draining", "idle"} => modem'.tx \in {"draining", "idle"}
  <2>1. modem \in Modems
    BY <1>1 DEF Types
  <2>2. CASE Overflow
    BY <2>1, <2>2 DEF Overflow, Modems
  <2>3. CASE Transmit
    <3>1. PICK tx \in TxProgress(modem.tx) : modem' = [modem EXCEPT !.tx = tx]
      BY <2>3 DEF Transmit
    <3>2. /\ tx \in TxStates /\ modem.tx # "idle"
          /\ modem.tx = "draining" => tx = "idle"
      BY <2>1, <3>1 DEF TxProgress, Modems, TxStates
    <3> QED BY <2>1, <3>1, <3>2 DEF Modems
  <2> QED BY <2>2, <2>3
<1>4. Types'
  BY <1>1, <1>2, <1>3 DEF Types
<1>5. ClosedInv'
  BY <1>1, <1>2 DEF ClosedInv
<1>6. CleanInv' /\ CleanExitLeavesIdle'
  <2>1. Answered("main")' <=> Answered("main")
    BY <1>2 DEF Answered
  <2> QED BY <1>1, <1>2, <1>3, <2>1 DEF CleanInv, CleanExitLeavesIdle
<1>7. ASSUME ~closed PROVE CallInv' /\ TxInv' /\ RxInv' /\ UpInv'
  <2>1. CallInv /\ TxInv /\ RxInv /\ UpInv
    BY <1>7 DEF EngineInv
  <2>2. /\ \A p \in Callers : (Answered(p)' <=> Answered(p)) /\ Asking(p)' = Asking(p)
        /\ StartAccepts(waits["main"])' <=> StartAccepts(waits["main"])
        /\ \A s : CycleAccepts(s, waits["worker"])' <=> CycleAccepts(s, waits["worker"])
    BY <1>2 DEF Answered, Asking, StartAccepts, CycleAccepts
  <2>3. CallInv' /\ UpInv'
    BY <1>2, <2>1, <2>2 DEF CallInv, UpInv
  <2>4. CycleAccepts(worker.step, waits["worker"])' <=>
           CycleAccepts(worker.step, waits["worker"])
    BY <1>2 DEF CycleAccepts
  <2>5. TxInv'
    BY <1>2, <1>3, <2>1, <2>2, <2>4 DEF TxInv, Callers
  <2>6. RxInv'
    BY <1>2, <1>3, <2>1, <2>2 DEF RxInv, Callers
  <2> QED BY <2>3, <2>5, <2>6
<1> QED BY <1>2, <1>4, <1>5, <1>6, <1>7 DEF EngineInv

-----------------------------------------------------------------------------
(***************************************************************************)
(* The main thread                                                         *)
(***************************************************************************)

\* The process starts, and its owner.
LEMMA OpeningKeeps ==
    ASSUME EngineInv, ProcessStarts \/ \E opens \in BOOLEAN : OwnerStarts(opens)
    PROVE  EngineInv'
<1>1. Types /\ ClosedInv /\ CleanInv
  BY DEF EngineInv
<1>2. main.pc \in {"off", "opening"} /\ ~closed
      /\ UNCHANGED <<modem, worker, waits, closed, lastExit>>
  BY <1>1 DEF ProcessStarts, OwnerStarts, MainLeaves, unitVars, ClosedInv, Late
<1>3. CallInv /\ owner.queue = <<>> /\ worker.pc = "none" /\ main.step = 1
  BY <1>2 DEF EngineInv, CallInv, Early
<1>4. \A p \in Callers : waits[p] = Idle
  BY <1>2, <1>3 DEF CallInv, Callers, Asking
<1>5. /\ main' \in Mains /\ owner' \in Owners /\ main'.step = 1
      /\ owner'.queue = <<>>
      /\ \/ main'.pc = "opening" /\ owner'.thread = "none"
         \/ main'.pc = "start" /\ owner'.thread = "up" /\ owner'.accepting
         \/ main'.pc = "unlisten" /\ main'.failing /\ owner'.thread = "gone"
  <2>1. main \in Mains /\ owner \in Owners
    BY <1>1 DEF Types
  <2>2. CASE ProcessStarts
    <3>1. main' = [main EXCEPT !.pc = "opening"] /\ owner' = owner
      BY <2>2 DEF ProcessStarts
    <3> QED BY <1>2, <1>3, <2>1, <3>1 DEF Mains, MainPcs, CallInv
  <2>3. ASSUME NEW opens \in BOOLEAN, OwnerStarts(opens), opens
        PROVE  /\ main' \in Mains /\ owner' \in Owners /\ main'.step = 1
               /\ owner'.queue = <<>>
               /\ main'.pc = "start" /\ owner'.thread = "up" /\ owner'.accepting
    <3>1. /\ owner' = [owner EXCEPT !.thread = "up", !.accepting = TRUE]
          /\ main' = [main EXCEPT !.pc = "start"]
      BY <2>3 DEF OwnerStarts
    <3>2. "start" \in MainPcs
      BY DEF MainPcs
    <3>3. main' \in Mains /\ owner' \in Owners
      BY <2>1, <3>1, <3>2, Zenon DEF Mains, Owners
    <3> QED BY <1>3, <2>1, <3>1, <3>3 DEF Mains, Owners
  <2>4. ASSUME NEW opens \in BOOLEAN, OwnerStarts(opens), ~opens
        PROVE  /\ main' \in Mains /\ owner' \in Owners /\ main'.step = 1
               /\ owner'.queue = <<>>
               /\ main'.pc = "unlisten" /\ main'.failing /\ owner'.thread = "gone"
    <3>1. /\ owner' = [owner EXCEPT !.thread = "gone"]
          /\ main' = [main EXCEPT !.pc = "unlisten", !.failing = TRUE]
      BY <2>4 DEF OwnerStarts
    <3>2. "unlisten" \in MainPcs
      BY DEF MainPcs
    <3>3. main' \in Mains /\ owner' \in Owners
      BY <2>1, <3>1, <3>2, Zenon DEF Mains, Owners
    <3> QED BY <1>3, <2>1, <3>1, <3>3 DEF Mains, Owners
  <2> QED BY <2>2, <2>3, <2>4
<1>6. Types'
  BY <1>1, <1>2, <1>5 DEF Types
<1>7. ClosedInv' /\ CleanInv' /\ CleanExitLeavesIdle'
  BY <1>2, <1>5 DEF ClosedInv, CleanInv, CleanExitLeavesIdle, Late
<1>8. CallInv'
  <2>1. \A p \in Callers : waits'[p] = Idle
    BY <1>2, <1>4
  <2> QED BY <1>2, <1>3, <1>5, <2>1, Marks DEF CallInv, Callers
<1>9. ~Answered("main")'
  BY <1>2, <1>4, Marks DEF Answered, Callers
<1>10. TxInv' /\ RxInv' /\ UpInv'
  BY <1>2, <1>3, <1>5, <1>9 DEF TxInv, RxInv, UpInv, Serving
<1> QED BY <1>2, <1>6, <1>7, <1>8, <1>10 DEF EngineInv

\* The main thread calls the owner, in start and in cleanup.
LEMMA MainAsks ==
    ASSUME EngineInv, StartAsks \/ CleanupAsks
    PROVE  EngineInv'
<1>1. Types /\ ClosedInv /\ CleanInv
  BY DEF EngineInv
<1>2. UNCHANGED <<modem, main, worker, owner, closed, lastExit>>
  BY DEF StartAsks, CleanupAsks, MainLeaves, unitVars, Ask
<1>3. main.pc \in {"start", "rx_stop"} /\ (closed <=> main.pc = "rx_stop")
  BY <1>1 DEF StartAsks, CleanupAsks, ClosedInv, Late
<1> DEFINE op == IF main.pc = "start" THEN StartOps[main.step] ELSE "rx_stop"
<1>4. op \in AllOps /\ op # "tx_burst"
  <2>1. main.step \in 1..8
    BY <1>1 DEF Types, Mains
  <2> QED BY <2>1, StepOps DEF AllOps, Ops, SetupOps
<1>5. /\ waits["main"] = Idle
      /\ waits' = [waits EXCEPT !["main"] =
                     IF owner.accepting THEN Let(op) ELSE Failure]
  BY <1>3 DEF StartAsks, CleanupAsks, Ask
<1>6. /\ waits'["main"] = (IF owner.accepting THEN Let(op) ELSE Failure)
      /\ waits'["worker"] = waits["worker"]
  BY <1>1, <1>5 DEF Types, Callers
<1>7. Types'
  BY <1>1, <1>2, <1>4, <1>5, Marks DEF Types
<1>8. ClosedInv'
  <2>1. waits'["main"] # Let("tx_burst")
    BY <1>4, <1>6, Marks
  <2> QED BY <1>1, <1>2, <1>6, <2>1 DEF ClosedInv
<1>9. CleanExitLeavesIdle'
  BY <1>2, <1>3 DEF CleanExitLeavesIdle
<1>10. CleanInv'
  <2>1. main.pc = "rx_stop" => waits'["main"] \in {Let("rx_stop"), Failure}
    BY <1>6
  <2>2. /\ waits'["main"] # Pending
        /\ Answered("main")' => waits'["main"] = Failure
    BY <1>6, Marks DEF Answered
  <2> QED BY <1>1, <1>2, <1>3, <1>5, <1>6, <2>1, <2>2, Marks DEF CleanInv, Late
<1>11. ASSUME ~closed PROVE CallInv' /\ TxInv' /\ RxInv' /\ UpInv'
  <2>1. CallInv /\ TxInv /\ RxInv /\ UpInv /\ main.pc = "start"
    BY <1>3, <1>11 DEF EngineInv
  <2>2. worker.pc = "none" /\ waits["worker"] = Idle /\ owner.queue = <<>>
    <3>1. worker.pc = "none"
      BY <2>1 DEF CallInv, Early
    <3>2. Asking("worker") = {}
      BY <3>1 DEF Asking
    <3> QED BY <1>5, <2>1, <3>1, <3>2, Marks DEF CallInv, Callers
  <2>3. op \in Asking("main") /\ \A p \in Callers : Asking(p)' = Asking(p)
    BY <1>2, <2>1 DEF Asking
  <2>4. CallInv'
    <3>1. ASSUME NEW p \in Callers
          PROVE  /\ waits'[p] # Idle => Asking(p)' # {}
                 /\ waits'[p].kind = "let" =>
                       waits'[p].op \in Asking(p)' /\ owner'.queue = <<>>
                 /\ waits'[p] # Pending
      <4>1. CASE p = "main"
        <5> HIDE DEF op
        <5> QED BY <1>2, <1>6, <2>2, <2>3, <4>1, Marks DEF Callers
      <4>2. CASE p = "worker"
        BY <1>6, <2>2, <4>2, Marks
      <4> QED BY <4>1, <4>2 DEF Callers
    <3>2. owner.thread = "up" /\ owner.accepting
      BY <2>1 DEF CallInv
    <3> QED BY <1>2, <2>1, <2>2, <3>1, <3>2 DEF CallInv
  <2>5. Answered("main")' => ~StartAccepts(waits["main"])'
    BY <1>6, Marks DEF Answered, StartAccepts
  <2>6. TxInv' /\ RxInv' /\ UpInv'
    BY <1>2, <2>1, <2>2, <2>5 DEF TxInv, RxInv, UpInv, Serving
  <2> QED BY <2>4, <2>6
<1> QED BY <1>2, <1>7, <1>8, <1>9, <1>10, <1>11 DEF EngineInv

\* Start takes an answer: it goes on with what it has learnt of the modem, the
\* last answer brings up the worker, and a bad one ends it.
LEMMA StartKeeps ==
    ASSUME EngineInv, StartProceeds \/ StartFails
    PROVE  EngineInv'
<1>1. Types /\ ClosedInv /\ CleanInv
  BY DEF EngineInv
<1>2. /\ main.pc = "start" /\ Answered("main")
      /\ waits' = [waits EXCEPT !["main"] = Idle]
      /\ UNCHANGED <<modem, owner, closed, lastExit>>
  BY DEF StartProceeds, StartFails, MainLeaves, unitVars, Took
<1>3. ~closed
  BY <1>1, <1>2 DEF ClosedInv, Late
<1>4. CallInv /\ TxInv /\ RxInv
  BY <1>3 DEF EngineInv
<1>5. waits["main"] # Idle /\ waits["main"] # Pending
  BY <1>2, Marks DEF Answered
<1>6. /\ worker.pc = "none" /\ waits["worker"] = Idle /\ owner.queue = <<>>
      /\ owner.thread = "up" /\ owner.accepting
  <2>1. waits["worker"] = Idle /\ worker.pc = "none"
    BY <1>3, <1>5, OneCaller DEF Callers
  <2> QED BY <1>2, <1>4, <1>5, <2>1, Marks DEF CallInv, Callers
<1>7. /\ waits' \in [Callers -> Answers]
      /\ \A p \in Callers : waits'[p] = Idle
  BY <1>1, <1>2, <1>6, Marks DEF Types, Callers
<1>8. \A p \in Callers : ~Answered(p)'
  BY <1>7, Marks DEF Answered
<1>9. main \in Mains /\ worker \in Workers /\ main.step \in 1..8
  BY <1>1 DEF Types, Mains
<1>10. ASSUME main' \in Mains, worker' \in Workers, main'.pc \notin Late,
              main'.pc \notin {"off", "opening", "close"},
              main'.pc \in Early => worker'.pc = "none",
              TxInv', RxInv', UpInv'
       PROVE  EngineInv'
  <2>1. Types'
    BY <1>1, <1>2, <1>7, <1>10 DEF Types
  <2>2. ClosedInv' /\ CleanInv' /\ CleanExitLeavesIdle'
    BY <1>2, <1>3, <1>10 DEF ClosedInv, CleanInv, CleanExitLeavesIdle
  <2>3. CallInv'
    BY <1>2, <1>6, <1>7, <1>10, Marks DEF CallInv
  <2> QED BY <1>10, <2>1, <2>2, <2>3 DEF EngineInv
<1>11. CASE StartFails
  <2>1. main' = [main EXCEPT !.pc = "unlisten", !.failing = TRUE] /\ worker' = worker
    BY <1>11 DEF StartFails
  <2>2. "unlisten" \in MainPcs
    BY DEF MainPcs
  <2>3. main' \in Mains
    BY <1>9, <2>1, <2>2, Zenon DEF Mains
  <2>4. main'.pc = "unlisten" /\ main'.failing
    BY <1>9, <2>1 DEF Mains
  <2>5. TxInv' /\ RxInv' /\ UpInv'
    BY <1>6, <2>1, <2>4 DEF TxInv, RxInv, UpInv
  <2> QED BY <1>9, <1>10, <2>1, <2>3, <2>4, <2>5 DEF Late, Early
<1>12. CASE StartProceeds /\ main.step = 8
  <2>1. /\ main' = [main EXCEPT !.pc = "listeners"]
        /\ worker' = [worker EXCEPT !.pc = "loop"]
    BY <1>12, StepOps DEF StartProceeds
  <2>2. "listeners" \in MainPcs /\ "loop" \in WorkerPcs
    BY DEF MainPcs, WorkerPcs
  <2>3. main' \in Mains /\ worker' \in Workers
    BY <1>9, <2>1, <2>2, Zenon DEF Mains, Workers
  <2>4. /\ main'.pc = "listeners" /\ main'.rxStarted = main.rxStarted
        /\ worker'.pc = "loop"
    BY <1>9, <2>1 DEF Mains, Workers
  <2>5. modem.tx = "idle" /\ modem.rx /\ main.rxStarted
    BY <1>2, <1>4, <1>12 DEF TxInv, RxInv
  <2>6. TxInv' /\ RxInv' /\ UpInv'
    BY <1>2, <2>4, <2>5 DEF TxInv, RxInv, UpInv
  <2> QED BY <1>10, <2>3, <2>4, <2>6 DEF Late, Early
<1>13. CASE StartProceeds /\ main.step # 8
  <2>1. main' = [main EXCEPT !.step = main.step + 1,
                             !.rxStarted = main.rxStarted \/ main.step = RxStartStep]
        /\ worker' = worker /\ StartAccepts(waits["main"])
    BY <1>13, StepOps DEF StartProceeds
  <2>2. main.step + 1 \in 1..8
    BY <1>9, <1>13
  <2> DEFINE started == main.rxStarted \/ main.step = RxStartStep
  <2>3. started \in BOOLEAN
    OBVIOUS
  <2>4. main' \in Mains /\ main'.rxStarted = started
    <3> HIDE DEF started
    <3> QED BY <1>9, <2>1, <2>2, <2>3, Zenon DEF Mains, started
  <2>5. main'.pc = "start" /\ main'.step = main.step + 1
    BY <1>2, <1>9, <2>1 DEF Mains
  <2>6. TxInv'
    BY <1>2, <1>4, <1>6, <1>8, <1>9, <2>1, <2>5 DEF TxInv, Callers
  <2>7. RxInv'
    <3>1. main.step >= 6 => modem.rx /\ started
      BY <1>2, <1>4, <1>9, <2>1 DEF RxInv, RxStartStep
    <3> HIDE DEF started
    <3>2. main'.step >= 7 => modem'.rx /\ main'.rxStarted
      BY <1>2, <1>9, <2>4, <2>5, <3>1
    <3> QED BY <1>6, <1>8, <2>1, <3>2 DEF RxInv, Callers
  <2>8. UpInv'
    BY <2>5 DEF UpInv, Serving
  <2> QED BY <1>6, <1>9, <1>10, <2>1, <2>4, <2>5, <2>6, <2>7, <2>8 DEF Late, Early
<1> QED BY <1>11, <1>12, <1>13

\* The main thread on its way from the listeners to the end of the worker: it
\* calls nobody, and finds the worker ended, or notes an error.
LEMMA ServingKeeps ==
    ASSUME EngineInv,
           \/ \E ok \in BOOLEAN : Listens(ok) \/ Unlistens(ok)
           \/ HealthFails \/ Stops \/ Joins
    PROVE  EngineInv'
<1>1. Types /\ ClosedInv
  BY DEF EngineInv
<1>2. /\ main.pc \in Serving /\ UNCHANGED <<modem, owner, waits, closed, lastExit>>
  BY DEF Listens, Unlistens, HealthFails, Stops, Joins, MainLeaves, unitVars, Serving
<1>3. ~closed
  BY <1>1, <1>2 DEF ClosedInv, Late, Serving
<1>4. CallInv /\ TxInv /\ RxInv /\ UpInv
  BY <1>3 DEF EngineInv
<1>5. main \in Mains /\ worker \in Workers
  BY <1>1 DEF Types
<1>6. \/ worker' = worker
      \/ worker' = [worker EXCEPT !.stop = TRUE]
  BY DEF Listens, Unlistens, HealthFails, Stops, Joins
<1>7. /\ worker' \in Workers /\ worker'.pc = worker.pc /\ worker'.step = worker.step
      /\ worker'.remain = worker.remain
  <2>1. CASE worker' = worker
    BY <1>5, <2>1
  <2>2. CASE worker' = [worker EXCEPT !.stop = TRUE]
    <3>1. worker' \in Workers
      BY <1>5, <2>2, Zenon DEF Workers
    <3> QED BY <1>5, <2>2, <3>1 DEF Workers
  <2> QED BY <1>6, <2>1, <2>2
<1>8. \E pc \in Serving, f \in BOOLEAN, e \in BOOLEAN :
         /\ main' = [main EXCEPT !.pc = pc, !.failing = f, !.errors = e]
         /\ main.failing => f
         /\ pc = "close" /\ ~e => worker.pc \in {"none", "ended"}
  <2>1. ASSUME NEW ok \in BOOLEAN, Unlistens(ok)
        PROVE  \E e \in BOOLEAN :
                  main' = [main EXCEPT !.pc = "join", !.failing = main.failing,
                                       !.errors = e]
    <3> DEFINE e == main.errors \/ ~ok
    <3>1. e \in BOOLEAN
      OBVIOUS
    <3>2. main' = [main EXCEPT !.pc = "join", !.errors = e]
      BY <2>1 DEF Unlistens
    <3> HIDE DEF e
    <3>3. main' = [main EXCEPT !.pc = "join", !.failing = main.failing, !.errors = e]
      BY <1>5, <3>2 DEF Mains
    <3> QED BY <3>1, <3>3
  <2>2. ASSUME Joins
        PROVE  \E e \in BOOLEAN :
                  /\ main' = [main EXCEPT !.pc = "close", !.failing = main.failing,
                                          !.errors = e]
                  /\ ~e => worker.pc \in {"none", "ended"}
    <3> DEFINE e == main.errors \/ worker.pc \notin {"none", "ended"}
    <3>1. e \in BOOLEAN /\ (~e => worker.pc \in {"none", "ended"})
      OBVIOUS
    <3>2. main' = [main EXCEPT !.pc = "close", !.errors = e]
      BY <2>2 DEF Joins
    <3> HIDE DEF e
    <3>3. main' = [main EXCEPT !.pc = "close", !.failing = main.failing, !.errors = e]
      BY <1>5, <3>2 DEF Mains
    <3> QED BY <3>1, <3>3
  <2>3. CASE \/ main' = [main EXCEPT !.pc = "unlisten", !.failing = TRUE]
             \/ main' = [main EXCEPT !.pc = "unlisten"]
             \/ main' = [main EXCEPT !.pc = "running"]
    <3>1. main.failing \in BOOLEAN /\ main.errors \in BOOLEAN
      BY <1>5 DEF Mains
    <3>2. \E pc \in {"unlisten", "running"}, f \in BOOLEAN :
             /\ main' = [main EXCEPT !.pc = pc, !.failing = f, !.errors = main.errors]
             /\ main.failing => f
      <4>1. CASE main' = [main EXCEPT !.pc = "unlisten", !.failing = TRUE]
        <5>1. main' = [main EXCEPT !.pc = "unlisten", !.failing = TRUE,
                                   !.errors = main.errors]
          BY <1>5, <4>1 DEF Mains
        <5> QED BY <5>1, Zenon
      <4>2. ASSUME NEW pc \in {"unlisten", "running"}, main' = [main EXCEPT !.pc = pc]
            PROVE  main' = [main EXCEPT !.pc = pc, !.failing = main.failing,
                                        !.errors = main.errors]
        BY <1>5, <4>2 DEF Mains
      <4> QED BY <2>3, <3>1, <4>1, <4>2
    <3> QED BY <3>1, <3>2 DEF Serving
  <2> QED BY <1>5, <2>1, <2>2, <2>3 DEF Mains, Listens, HealthFails, Stops, Serving
<1>9. PICK pc \in Serving, f \in BOOLEAN, e \in BOOLEAN :
         /\ main' = [main EXCEPT !.pc = pc, !.failing = f, !.errors = e]
         /\ main.failing => f
         /\ pc = "close" /\ ~e => worker.pc \in {"none", "ended"}
  BY <1>8
<1>10. pc \in MainPcs
  BY DEF Serving, MainPcs
<1>11. main' \in Mains
  BY <1>5, <1>9, <1>10, Zenon DEF Mains
<1>12. /\ main'.pc = pc /\ main'.failing = f /\ main'.errors = e
       /\ main'.rxStarted = main.rxStarted /\ main'.step = main.step
  BY <1>5, <1>9, Zenon DEF Mains
<1>13. Types'
  BY <1>1, <1>2, <1>7, <1>11 DEF Types
<1>14. ClosedInv' /\ CleanExitLeavesIdle'
  BY <1>2, <1>3, <1>12 DEF ClosedInv, CleanExitLeavesIdle, Late, Serving
<1>15. UpInv'
  BY <1>2, <1>4, <1>7, <1>9, <1>12 DEF UpInv
<1>16. CleanInv'
  <2> SUFFICES ASSUME pc = "close", ~f, ~e PROVE CleanInv'
    BY <1>12 DEF CleanInv, Late, Serving
  <2>1. worker.pc = "ended"
    BY <1>2, <1>4, <1>9 DEF UpInv
  <2>2. Asking("worker") = {}
    BY <2>1 DEF Asking
  <2>3. waits["worker"] = Idle
    BY <1>4, <2>2 DEF CallInv, Callers
  <2>4. waits["main"] = Idle /\ owner.queue = <<>>
    BY <1>3, <2>1, <2>3, OpenWorker, Marks
  <2>5. modem.tx = "idle"
    BY <1>4, <2>1 DEF TxInv
  <2> QED BY <1>2, <1>7, <1>12, <2>1, <2>3, <2>4, <2>5 DEF CleanInv
<1>17. \A p \in Callers : Asking(p)' = Asking(p)
  BY <1>2, <1>7, <1>12 DEF Asking, Serving
<1>18. CallInv'
  BY <1>2, <1>4, <1>7, <1>12, <1>17 DEF CallInv, Early, Serving
<1>19. /\ Answered("worker")' <=> Answered("worker")
       /\ CycleAccepts(worker.step, waits["worker"])' <=>
             CycleAccepts(worker.step, waits["worker"])
       /\ CycleAccepts(7, waits["worker"])' <=> CycleAccepts(7, waits["worker"])
  BY <1>2, <1>7 DEF Answered, CycleAccepts
<1>20. TxInv' /\ RxInv'
  BY <1>2, <1>4, <1>7, <1>12, <1>19 DEF TxInv, RxInv, Serving
<1> QED BY <1>13, <1>14, <1>15, <1>16, <1>18, <1>20 DEF EngineInv

\* The router is closed while nobody is inside it: no burst is asked for or
\* queued, and none will be.
LEMMA ClosesKeeps ==
    ASSUME EngineInv, Closes
    PROVE  EngineInv'
<1>1. Types /\ ClosedInv /\ CleanInv
  BY DEF EngineInv
<1>2. /\ main.pc = "close" /\ LockFree /\ closed'
      /\ main' = [main EXCEPT !.pc = "rx_stop"]
      /\ UNCHANGED <<modem, worker, owner, waits, lastExit>>
  BY <1>1 DEF Closes, unitVars
<1>3. ~closed
  BY <1>1, <1>2 DEF ClosedInv, Late
<1>4. CallInv /\ UpInv
  BY <1>3 DEF EngineInv
<1>5. main \in Mains /\ closed' = TRUE
  BY <1>1 DEF Types, Closes
<1>6. /\ main' \in Mains /\ main'.pc = "rx_stop" /\ main'.failing = main.failing
      /\ main'.errors = main.errors /\ main'.rxStarted = main.rxStarted
  <2>1. "rx_stop" \in MainPcs
    BY DEF MainPcs
  <2> QED BY <1>2, <1>5, <2>1, Zenon DEF Mains
<1>7. Types'
  BY <1>1, <1>2, <1>5, <1>6 DEF Types
<1>8. waits["main"] = Idle
  BY <1>2, <1>4 DEF CallInv, Callers, Asking
<1>9. waits["worker"] # Idle => "tx_burst" \notin Asking("worker")
  <2>1. worker.step \in 1..9
    BY <1>1 DEF Types, Workers
  <2> QED BY <1>2, <2>1, StepOps DEF LockFree, BurstStep, Asking
<1>10. ClosedInv'
  <2>1. waits["worker"] # Let("tx_burst")
    BY <1>4, <1>9, Marks DEF CallInv, Callers
  <2>2. ASSUME NEW i \in 1..Len(owner.queue) PROVE owner.queue[i].op # "tx_burst"
    <3>1. owner.queue # <<>>
      BY <1>1 DEF Types, Owners
    <3>2. waits["worker"] = Pending
      BY <1>4, <1>8, <3>1, Marks DEF CallInv, Callers
    <3>3. PICK op \in Asking("worker") :
             owner.queue = <<[op |-> op, by |-> "worker", live |-> TRUE]>>
      BY <1>4, <3>2 DEF CallInv, Callers
    <3>4. op # "tx_burst" /\ i = 1
      BY <1>9, <3>2, <3>3, Marks
    <3> QED BY <3>3, <3>4
  <2>3. waits["main"] # Let("tx_burst")
    BY <1>8, Marks
  <2> QED BY <1>2, <1>6, <2>1, <2>2, <2>3 DEF ClosedInv, Late
<1>11. CleanInv'
  <2> SUFFICES ASSUME ~main.failing, ~main.errors PROVE CleanInv'
    BY <1>6 DEF CleanInv
  <2>1. worker.pc = "ended" /\ waits["worker"] = Idle /\ modem.tx = "idle"
        /\ owner.queue = <<>>
    BY <1>1, <1>2 DEF CleanInv
  <2>2. main.rxStarted
    BY <1>2, <1>4 DEF UpInv, Serving
  <2>3. owner.thread = "up"
    BY <1>3, <2>1, OpenWorker
  <2>4. ~Answered("main")'
    BY <1>2, <1>8, Marks DEF Answered
  <2> QED BY <1>2, <1>6, <1>8, <2>1, <2>2, <2>3, <2>4, Marks DEF CleanInv
<1>12. CleanExitLeavesIdle'
  BY <1>6 DEF CleanExitLeavesIdle
<1> QED BY <1>2, <1>7, <1>10, <1>11, <1>12 DEF EngineInv

\* The end of cleanup: RX is stopped, or not, and the owner is told to stop.
LEMMA CleanupKeeps ==
    ASSUME EngineInv, CleanupStopped \/ CleanupSkips \/ OwnerStops
    PROVE  EngineInv'
<1>1. Types /\ ClosedInv /\ CleanInv
  BY DEF EngineInv
<1>2. /\ main.pc \in {"rx_stop", "owner_stop"}
      /\ UNCHANGED <<modem, worker, closed, lastExit>>
  BY DEF CleanupStopped, CleanupSkips, OwnerStops, MainLeaves, unitVars
<1>3. closed /\ closed'
  BY <1>1, <1>2 DEF ClosedInv, Late
<1>4. main \in Mains /\ owner \in Owners
  BY <1>1 DEF Types
<1>5. CASE CleanupStopped
  <2> DEFINE e == main.errors \/ waits["main"] = Failure
  <2>1. /\ main.pc = "rx_stop" /\ Answered("main") /\ owner' = owner
        /\ main' = [main EXCEPT !.pc = "owner_stop", !.rxStarted = FALSE, !.errors = e]
        /\ waits' = [waits EXCEPT !["main"] = Idle]
    BY <1>5 DEF CleanupStopped, Took
  <2>2. e \in BOOLEAN /\ (~e => ~main.errors /\ waits["main"] # Failure)
    OBVIOUS
  <2>3. "owner_stop" \in MainPcs
    BY DEF MainPcs
  <2> HIDE DEF e
  <2>4. /\ main' \in Mains /\ main'.pc = "owner_stop" /\ main'.failing = main.failing
        /\ main'.errors = e
    BY <1>4, <2>1, <2>2, <2>3, Zenon DEF Mains
  <2>5. waits'["main"] = Idle /\ waits'["worker"] = waits["worker"]
    BY <1>1, <2>1 DEF Types, Callers
  <2>6. Types'
    BY <1>1, <1>2, <2>1, <2>4, Marks DEF Types
  <2>7. ClosedInv'
    <3>1. waits'["main"] # Let("tx_burst")
      BY <2>5, Marks
    <3> QED BY <1>1, <1>2, <1>3, <2>1, <2>4, <2>5, <3>1 DEF ClosedInv, Late
  <2>8. CleanInv'
    <3> SUFFICES ASSUME ~main.failing, ~e PROVE CleanInv'
      BY <2>4 DEF CleanInv
    <3>1. /\ worker.pc = "ended" /\ waits["worker"] = Idle /\ modem.tx = "idle"
          /\ owner.queue = <<>> /\ ~modem.rx
      <4>1. waits["main"] # Pending
        BY <2>1, Marks DEF Answered
      <4> QED BY <1>1, <2>1, <2>2, <4>1 DEF CleanInv, Late
    <3> QED BY <1>2, <2>1, <2>4, <2>5, <3>1 DEF CleanInv
  <2>9. CleanExitLeavesIdle'
    BY <2>4 DEF CleanExitLeavesIdle
  <2> QED BY <1>3, <2>6, <2>7, <2>8, <2>9 DEF EngineInv
<1>6. CASE CleanupSkips
  <2>1. /\ main.pc = "rx_stop" /\ ~main.rxStarted /\ UNCHANGED <<owner, waits>>
        /\ main' = [main EXCEPT !.pc = "owner_stop"]
    BY <1>6 DEF CleanupSkips
  <2>2. "owner_stop" \in MainPcs
    BY DEF MainPcs
  <2>3. /\ main' \in Mains /\ main'.pc = "owner_stop" /\ main'.failing = main.failing
        /\ main'.errors = main.errors
    BY <1>4, <2>1, <2>2, Zenon DEF Mains
  <2>4. Types'
    BY <1>1, <1>2, <2>1, <2>3 DEF Types
  <2>5. ClosedInv'
    BY <1>1, <1>2, <1>3, <2>1, <2>3 DEF ClosedInv, Late
  <2>6. CleanInv' /\ CleanExitLeavesIdle'
    BY <1>1, <2>1, <2>3 DEF CleanInv, CleanExitLeavesIdle, Late
  <2> QED BY <1>3, <2>4, <2>5, <2>6 DEF EngineInv
<1>7. CASE OwnerStops
  <2>1. /\ main.pc = "owner_stop" /\ waits' = waits
        /\ main' = [main EXCEPT !.pc = "owner_join"]
        /\ \/ owner' = owner
           \/ owner' = [owner EXCEPT !.accepting = FALSE,
                                     !.queue = Append(owner.queue, StopItem)]
    BY <1>7 DEF OwnerStops
  <2>2. "owner_join" \in MainPcs
    BY DEF MainPcs
  <2>3. /\ main' \in Mains /\ main'.pc = "owner_join" /\ main'.failing = main.failing
        /\ main'.errors = main.errors
    BY <1>4, <2>1, <2>2, Zenon DEF Mains
  <2>4. owner.queue \in Seq(Calls \cup {StopItem})
    BY <1>4 DEF Owners
  <2>5. /\ owner' \in Owners
        /\ owner'.queue \in {owner.queue, Append(owner.queue, StopItem)}
    <3>1. CASE owner' = owner
      BY <1>4, <3>1
    <3>2. CASE owner' = [owner EXCEPT !.accepting = FALSE,
                                      !.queue = Append(owner.queue, StopItem)]
      <4>1. Append(owner.queue, StopItem) \in Seq(Calls \cup {StopItem})
        BY <2>4
      <4> QED BY <1>4, <3>2, <4>1, Zenon DEF Owners
    <3> QED BY <2>1, <3>1, <3>2
  <2>6. Types'
    BY <1>1, <1>2, <2>1, <2>3, <2>5 DEF Types
  <2>7. ClosedInv'
    <3>1. ASSUME NEW i \in 1..Len(owner'.queue) PROVE owner'.queue[i].op # "tx_burst"
      <4>1. StopItem.op # "tx_burst"
        BY DEF StopItem
      <4>2. \A j \in 1..Len(owner.queue) : owner.queue[j].op # "tx_burst"
        BY <1>1, <1>3 DEF ClosedInv
      <4>3. CASE owner'.queue = owner.queue
        BY <4>2, <4>3
      <4>4. CASE owner'.queue = Append(owner.queue, StopItem)
        BY <2>4, <4>1, <4>2, <4>4
      <4> QED BY <2>5, <4>3, <4>4
    <3> QED BY <1>1, <1>2, <1>3, <2>1, <2>3, <3>1 DEF ClosedInv, Late
  <2>8. CleanInv'
    <3> SUFFICES ASSUME ~main.failing, ~main.errors PROVE CleanInv'
      BY <2>3 DEF CleanInv
    <3>1. /\ worker.pc = "ended" /\ waits["worker"] = Idle /\ modem.tx = "idle"
          /\ owner.queue = <<>> /\ ~modem.rx /\ waits["main"] = Idle
      BY <1>1, <2>1 DEF CleanInv, Late
    <3>2. owner'.queue \in {<<>>, <<StopItem>>}
      BY <2>5, <3>1
    <3> QED BY <1>2, <2>1, <2>3, <3>1, <3>2 DEF CleanInv
  <2>9. CleanExitLeavesIdle'
    BY <2>3 DEF CleanExitLeavesIdle
  <2> QED BY <1>3, <2>6, <2>7, <2>8, <2>9 DEF EngineInv
<1> QED BY <1>5, <1>6, <1>7

\* The process ends, by itself or killed: its threads are gone, and the modem
\* is left as it is.
LEMMA EndKeeps ==
    ASSUME EngineInv, Exits \/ Killed
    PROVE  EngineInv'
<1>1. Types /\ CleanInv
  BY DEF EngineInv
<1>2. NoProcess /\ modem' = modem
  BY DEF Exits, Killed
<1>3. main'.pc = "off" /\ main'.step = 1 /\ worker'.pc = "none" /\ ~closed'
      /\ owner'.queue = <<>> /\ owner'.thread = "none" /\ ~main'.failing
  BY <1>2 DEF NoProcess
<1>4. \A p \in Callers : waits'[p] = Idle
  BY <1>2 DEF NoProcess
<1>5. Types'
  <2>1. main' \in Mains
    BY <1>2 DEF NoProcess, Mains, MainPcs
  <2>2. worker' \in Workers
    BY <1>2, EngineAssumption DEF NoProcess, Workers, WorkerPcs
  <2>3. owner' \in Owners
    BY <1>2 DEF NoProcess, Owners
  <2>4. waits' \in [Callers -> Answers] /\ closed' \in BOOLEAN
    BY <1>2, Marks, Zenon DEF NoProcess
  <2> QED BY <1>1, <1>2, <2>1, <2>2, <2>3, <2>4 DEF Types
<1>6. CleanExitLeavesIdle'
  <2>1. CASE Killed
    BY <2>1 DEF Killed, CleanExitLeavesIdle
  <2>2. CASE Exits
    BY <1>1, <1>2, <2>2 DEF Exits, CleanExitLeavesIdle, CleanInv, Late
  <2> QED BY <2>1, <2>2
<1>7. ClosedInv' /\ CleanInv'
  BY <1>3 DEF ClosedInv, CleanInv, Late
<1>8. CallInv'
  BY <1>3, <1>4, Marks DEF CallInv, Callers
<1>9. TxInv' /\ RxInv' /\ UpInv'
  BY <1>3 DEF TxInv, RxInv, UpInv, Serving
<1> QED BY <1>3, <1>5, <1>6, <1>7, <1>8, <1>9 DEF EngineInv

-----------------------------------------------------------------------------
(***************************************************************************)
(* The theorems                                                            *)
(***************************************************************************)

\* Every process begins with no thread but the main one.
LEMMA EngineInit == Init => EngineInv
<1> SUFFICES ASSUME Init PROVE EngineInv
  OBVIOUS
<1>1. main.pc = "off" /\ main.step = 1 /\ worker.pc = "none" /\ ~closed
      /\ owner.queue = <<>> /\ owner.thread = "none" /\ lastExit = "none"
  BY DEF Init
<1>2. \A p \in Callers : waits[p] = Idle
  BY DEF Init
<1>3. Types
  <2>1. main \in Mains /\ modem \in Modems
    BY DEF Init, Mains, MainPcs, Modems, TxStates
  <2>2. worker \in Workers
    BY EngineAssumption DEF Init, Workers, WorkerPcs
  <2>3. owner \in Owners
    BY DEF Init, Owners
  <2>4. waits \in [Callers -> Answers] /\ closed \in BOOLEAN
    BY Marks, Zenon DEF Init
  <2> QED BY <2>1, <2>2, <2>3, <2>4 DEF Types
<1>4. ClosedInv /\ CleanInv /\ CleanExitLeavesIdle
  BY <1>1 DEF ClosedInv, CleanInv, CleanExitLeavesIdle, Late
<1>5. CallInv
  BY <1>1, <1>2, Marks DEF CallInv, Callers
<1>6. TxInv /\ RxInv /\ UpInv
  BY <1>1 DEF TxInv, RxInv, UpInv, Serving
<1> QED BY <1>3, <1>4, <1>5, <1>6 DEF EngineInv

\* A step that leaves what the invariant reads alone keeps it: SIGTERM, which
\* only sets the event, and stuttering.
LEMMA EngineStutters ==
    ASSUME EngineInv,
           UNCHANGED <<modem, main, worker, owner, waits, closed, lastExit>>
    PROVE  EngineInv'
<1>1. Types' <=> Types
  BY DEF Types
<1>2. (ClosedInv' <=> ClosedInv) /\ (CleanInv' <=> CleanInv)
      /\ (CleanExitLeavesIdle' <=> CleanExitLeavesIdle)
  BY DEF ClosedInv, CleanInv, CleanExitLeavesIdle, Answered
<1>3. (CallInv' <=> CallInv) /\ (UpInv' <=> UpInv)
  BY DEF CallInv, UpInv, Asking
<1>4. /\ Answered("main")' <=> Answered("main")
      /\ Answered("worker")' <=> Answered("worker")
      /\ StartAccepts(waits["main"])' <=> StartAccepts(waits["main"])
      /\ CycleAccepts(worker.step, waits["worker"])' <=>
            CycleAccepts(worker.step, waits["worker"])
      /\ CycleAccepts(7, waits["worker"])' <=> CycleAccepts(7, waits["worker"])
  BY DEF Answered, StartAccepts, CycleAccepts
<1>5. (TxInv' <=> TxInv) /\ (RxInv' <=> RxInv)
  BY <1>4 DEF TxInv, RxInv
<1> QED BY <1>1, <1>2, <1>3, <1>5 DEF EngineInv

\* Every step keeps the invariant.
LEMMA EngineNext == EngineInv /\ [Next]_vars => EngineInv'
<1> SUFFICES ASSUME EngineInv, [Next]_vars PROVE EngineInv'
  OBVIOUS
<1>1. CASE Transmit \/ Overflow
  BY <1>1, ModemKeeps
<1>2. CASE OwnerSteps
  BY <1>2, OwnerEndsKeeps, ServesKeeps DEF OwnerSteps
<1>3. CASE WorkerSteps
  BY <1>3, LoopSteps, CycleSteps, WorkerAskSteps, QueuesKeeps, GivesUpKeeps
     DEF WorkerSteps, Callers
<1>4. CASE MainSteps
  BY <1>4, OpeningKeeps, MainAsks, StartKeeps, ServingKeeps, ClosesKeeps, CleanupKeeps,
     EndKeeps, QueuesKeeps, GivesUpKeeps DEF MainSteps, Callers
<1>5. CASE ProcessStarts \/ Killed
  BY <1>5, OpeningKeeps, EndKeeps
<1>6. CASE Terminate \/ UNCHANGED vars
  BY <1>6, EngineStutters DEF Terminate, vars, unitVars
<1> QED BY <1>1, <1>2, <1>3, <1>4, <1>5, <1>6 DEF Next

\* The invariant holds of every life of the daemon.
THEOREM EngineInvariant == Spec => []EngineInv
BY EngineInit, EngineNext, PTL DEF Spec

\* A daemon that exits with 0 leaves a modem that neither receives nor
\* transmits, whatever raced _cleanup, was lost on the line or was killed
\* before: every other end shows in the exit code.
THEOREM ExitAlwaysIdle == Spec => []CleanExitLeavesIdle
<1>1. EngineInv => CleanExitLeavesIdle
  BY DEF EngineInv
<1> QED BY <1>1, EngineInvariant, PTL

\* While the service runs and the worker is between two cycles the modem
\* receives: what start checked, and what each cycle restored, still holds.
THEOREM AlwaysReceives == Spec => []ReceivesWhileHealthy
<1>1. EngineInv => ReceivesWhileHealthy
  BY DEF EngineInv, ClosedInv, RxInv, ReceivesWhileHealthy, Late
<1> QED BY <1>1, EngineInvariant, PTL

\* Once cleanup has closed the router no burst is begun, wherever the worker
\* was in its cycle when it did: close waits for the router's lock, and a burst
\* that was asked for before has been served by then.
THEOREM NoBurstAfterClose == Spec => NoBurstOnceClosed
<1>1. ASSUME EngineInv, [Next]_vars, modem.tx = "idle", modem'.tx # "idle"
      PROVE  ~closed
  <2>1. modem \in Modems
    BY <1>1 DEF EngineInv, Types
  <2>2. CASE \E fate \in Fates : OwnerServes(fate)
    <3>1. PICK fate \in Fates : OwnerServes(fate)
      BY <2>2
    <3>2. /\ Head(owner.queue) \in Calls /\ owner.queue # <<>>
          /\ owner.queue \in Seq(Calls \cup {StopItem})
          /\ modem' \in {modem, ModemDoes(Head(owner.queue).op)}
      BY <1>1, <3>1, ServedCall
    <3>3. Head(owner.queue).op = "tx_burst"
      BY <1>1, <2>1, <3>2, ModemDoing DEF Calls
    <3>4. Head(owner.queue) = owner.queue[1] /\ 1 \in 1..Len(owner.queue)
      BY <3>2
    <3> QED BY <1>1, <3>3, <3>4 DEF EngineInv, ClosedInv
  <2>3. CASE Transmit
    BY <1>1, <2>3 DEF Transmit, TxProgress
  <2>4. CASE Overflow
    BY <1>1, <2>1, <2>4 DEF Overflow, Modems
  <2>5. CASE OwnerEnds \/ WorkerSteps \/ MainSteps \/ ProcessStarts \/ Terminate \/ Killed
    <3>1. modem' = modem
      <4>1. CASE OwnerEnds \/ ProcessStarts \/ Terminate \/ Killed
        BY <4>1 DEF OwnerEnds, ProcessStarts, Terminate, Killed
      <4>2. CASE WorkerSteps
        BY <4>2 DEF WorkerSteps, LoopAsks, LoopGoesOn, LoopFails, LoopEnds, Queues,
           GivesUp, CycleAsks, RouterRefuses, BurstFails, CycleFails, CycleProceeds,
           CyclePolled, WorkerLeaves
      <4>3. CASE MainSteps
        BY <4>3 DEF MainSteps, OwnerStarts, Listens, Unlistens, Queues, GivesUp,
           StartAsks, StartProceeds, StartFails, HealthFails, Stops, Joins, Closes,
           CleanupAsks, CleanupStopped, CleanupSkips, OwnerStops, Exits, MainLeaves
      <4> QED BY <2>5, <4>1, <4>2, <4>3
    <3> QED BY <1>1, <3>1
  <2>6. CASE UNCHANGED vars
    BY <1>1, <2>6 DEF vars
  <2> QED BY <1>1, <2>2, <2>3, <2>4, <2>5, <2>6 DEF Next, OwnerSteps
<1>2. EngineInv /\ [Next]_vars
        => [modem.tx = "idle" /\ modem'.tx # "idle" => ~closed]_vars
  BY <1>1
<1> QED BY <1>2, EngineInvariant, PTL DEF Spec, NoBurstOnceClosed
=============================================================================
