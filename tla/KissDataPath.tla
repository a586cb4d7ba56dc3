---------------------------- MODULE KissDataPath ----------------------------
(***************************************************************************)
(* The path of a KISS DATA frame from a client connection to the one call  *)
(* of the downstream transmitter:                                          *)
(*                                                                         *)
(*   connection threads --capture--> session parameters                    *)
(*   connection threads --enqueue--> bounded admission queue (locked)      *)
(*   runtime worker: RSSI sample --observe--> head request --> submit      *)
(*                                                                         *)
(* The queue's lock is taken for one enqueue, and for one observation      *)
(* including the downstream call, which lasts.  An enqueue is therefore    *)
(* one step that needs the lock, and an observation that reaches READY     *)
(* keeps it until the downstream call returns.  A tick is 10 ms, the unit  *)
(* of SLOTTIME.                                                            *)
(***************************************************************************)
EXTENDS AccessAttempt, TncSession, Sequences, FiniteSets

CONSTANTS
    Connections,    \* the client connections (one handler thread each)
    Controls,       \* the control messages they send
    InitialParameters,  \* the session's first snapshot
    Capacity,       \* queue_capacity
    RequestTimeout, \* request_timeout_seconds
    RawSamples,     \* the RSSI values the modem may report
    MaxTime,        \* bound: the clock stops here
    MaxMessages,    \* bound: DATA messages received
    MaxGeneration   \* bound: parameter updates

ASSUME KissDataPathAssumption ==
    /\ IsFiniteSet(Connections)
    /\ Controls \subseteq ControlMessages
    /\ InitialParameters \in Snapshots /\ InitialParameters.generation = 0
    /\ Capacity \in Nat \ {0}
    /\ RequestTimeout \in Nat \ {0}
    /\ RawSamples \subseteq Nat
    /\ MaxTime \in Nat /\ MaxMessages \in Nat /\ MaxGeneration \in Nat

VARIABLES
    now,        \* the monotonic clock
    session,    \* the session's published snapshot
    client,     \* per connection: what its handler thread is doing
    ingress,    \* the counters of TNCTransmitBackend
    queue,      \* the admitted requests
    lastNow,    \* the queue's _last_now
    counters,   \* the counters of KISSDataAdmissionQueue
    worker,     \* the runtime worker
    log,        \* history: <<request id, outcome>> in the order they ended
    airEnd      \* history: when the last downstream call returned

queueVars == <<queue, lastNow, counters>>
vars == <<now, session, client, ingress, queue, lastNow, counters, worker,
          log, airEnd>>

-----------------------------------------------------------------------------
NoAttempt == [none |-> TRUE]

Outcomes == {"dispatched", "timed-out", "downstream-failed"}

\* A request as _Request holds it; own is history: the generation that its
\* connection's own last accepted update had produced.
Requests == [id : Nat \ {0}, context : Snapshots, deadline : Time,
             attempt : Attempts \cup {NoAttempt}, own : Nat]

\* A handler thread is idle, has captured a context and sampled the clock for
\* the call of enqueue, or has enqueue's verdict to count.
Clients == [pc : {"idle", "captured", "verdict"}, context : Snapshots,
            sampled : Time, own : Nat,
            verdict : {"none", "admitted", "invalid", "full", "time"}]

\* The worker is between passes, holds an RSSI sample, is inside the
\* downstream call (and holds the queue's lock), or has failed for good.
Workers == [pc : {"loop", "sampled", "submitting", "failed"}, raw : Nat]

IngressCounters ==
    [received : Nat, admitted : Nat, invalid : Nat, full : Nat, time : Nat]
QueueCounters ==
    [accepted : Nat, invalid : Nat, full : Nat,
     dispatched : Nat, timedOut : Nat, failed : Nat]

TypeOK ==
    /\ now \in Time
    /\ session \in Snapshots
    /\ client \in [Connections -> Clients]
    /\ ingress \in IngressCounters
    /\ queue \in Seq(Requests)
    /\ lastNow \in Time
    /\ counters \in QueueCounters
    /\ worker \in Workers
    /\ log \in Seq((Nat \ {0}) \X Outcomes)
    /\ airEnd \in TimeOrNone

Init ==
    /\ now = 0
    /\ session = InitialParameters
    /\ client = [c \in Connections |->
                    [pc |-> "idle", context |-> InitialParameters,
                     sampled |-> 0, own |-> 0, verdict |-> "none"]]
    /\ ingress = [received |-> 0, admitted |-> 0, invalid |-> 0, full |-> 0,
                  time |-> 0]
    /\ queue = <<>>
    /\ lastNow = 0
    /\ counters = [accepted |-> 0, invalid |-> 0, full |-> 0,
                   dispatched |-> 0, timedOut |-> 0, failed |-> 0]
    /\ worker = [pc |-> "loop", raw |-> 0]
    /\ log = <<>>
    /\ airEnd = None

Tick ==
    /\ now < MaxTime
    /\ now' = now + 1
    /\ UNCHANGED <<session, client, ingress, queue, lastNow, counters, worker,
                   log, airEnd>>

-----------------------------------------------------------------------------
(***************************************************************************)
(* Connection threads                                                      *)
(***************************************************************************)

\* A control message, or DATA for a port other than 0: handled by the session
\* under its own lock.
Control(c, m) ==
    /\ client[c].pc = "idle"
    /\ session.generation < MaxGeneration
    /\ session' = Apply(session, m)
    /\ client' = [client EXCEPT ![c].own =
                     IF Acceptable(m) THEN session'.generation ELSE @]
    /\ UNCHANGED <<now, ingress, queueVars, worker, log, airEnd>>

\* Mutant: the parameters are the ones the connection was opened under.
CapturedOnce(c) == InitialParameters

\* capture_tx_context: the session's snapshot, whole.
Captured(c) == session

\* Port-0 DATA, before the queue's lock: count it, capture the parameters and
\* sample the clock for the argument of enqueue.
Data(c) ==
    /\ client[c].pc = "idle"
    /\ ingress.received < MaxMessages
    /\ ingress' = [ingress EXCEPT !.received = @ + 1]
    /\ client' = [client EXCEPT ![c].pc = "captured",
                                ![c].context = Captured(c),
                                ![c].sampled = now]
    /\ UNCHANGED <<now, session, queueVars, worker, log, airEnd>>

\* Mutant: the time sampled before the lock was taken is trusted.
SampledBeforeLock(c) == client[c].sampled

\* The queue's operations run at the time sampled inside the lock.
SerializedNow(c) == now

QueueLocked == worker.pc = "submitting"

NewRequest(c, t) ==
    [id |-> counters.accepted + 1, context |-> client[c].context,
     deadline |-> t + RequestTimeout, attempt |-> NoAttempt,
     own |-> client[c].own]

\* enqueue, under the lock; valid says whether the frame parses.
Enqueue(c, valid) ==
    LET t == SerializedNow(c)
        verdict == IF t < lastNow THEN "time"
                   ELSE IF ~valid THEN "invalid"
                   ELSE IF Len(queue) >= Capacity THEN "full"
                   ELSE "admitted"
    IN  /\ client[c].pc = "captured"
        /\ ~QueueLocked
        /\ now + RequestTimeout <= MaxTime
        /\ client' = [client EXCEPT ![c].pc = "verdict",
                                    ![c].verdict = verdict]
        /\ lastNow' = IF verdict = "time" THEN lastNow ELSE t
        /\ queue' = IF verdict = "admitted"
                    THEN Append(queue, NewRequest(c, t)) ELSE queue
        /\ counters' = [counters EXCEPT
                           !.accepted = IF verdict = "admitted" THEN @ + 1 ELSE @,
                           !.invalid = IF verdict = "invalid" THEN @ + 1 ELSE @,
                           !.full = IF verdict = "full" THEN @ + 1 ELSE @]
        /\ UNCHANGED <<now, session, ingress, worker, log, airEnd>>

\* The verdict is counted after the queue's lock was released.
CountVerdict(c) ==
    /\ client[c].pc = "verdict"
    /\ ingress' = [ingress EXCEPT ![client[c].verdict] = @ + 1]
    /\ client' = [client EXCEPT ![c].pc = "idle", ![c].verdict = "none",
                                ![c].context = InitialParameters,
                                ![c].sampled = 0]
    /\ UNCHANGED <<now, session, queueVars, worker, log, airEnd>>

-----------------------------------------------------------------------------
(***************************************************************************)
(* The runtime worker                                                      *)
(***************************************************************************)

\* One pass found the queue not empty and read the RSSI.
Sample(raw) ==
    /\ worker.pc = "loop"
    /\ queue # <<>>
    /\ worker' = [pc |-> "sampled", raw |-> raw]
    /\ UNCHANGED <<now, session, client, ingress, queueVars, log, airEnd>>

\* Any exception of the pass outside the observation (a modem call that
\* fails, an RX status that is not the active one) ends the worker.
WorkerFails ==
    /\ worker.pc = "loop"
    /\ worker' = [pc |-> "failed", raw |-> 0]
    /\ UNCHANGED <<now, session, client, ingress, queueVars, log, airEnd>>

\* Mutant: a new attempt takes the parameters of the moment.
PolicyLive(r, t) ==
    [persist |-> session.persist, slot |-> session.slottime,
     maxWait |-> r.deadline - t]

\* The parameters of a new attempt: those captured with the request, and no
\* more patience than the request has left.  The captured max_wait is the
\* request timeout itself, so the remaining lifetime is the minimum.
Policy(r, t) ==
    [persist |-> r.context.persist, slot |-> r.context.slottime,
     maxWait |-> r.deadline - t]

HeadAttempt(r, t) ==
    IF r.attempt = NoAttempt THEN NewAttempt(t, Policy(r, t)) ELSE r.attempt

\* The head request leaves the queue with an outcome.
Finish(outcome) ==
    /\ queue' = Tail(queue)
    /\ log' = Append(log, <<Head(queue).id, outcome>>)

\* Mutant: only a request that already contends for the channel can expire.
ObserveExpiredActive ==
    /\ worker.pc = "sampled"
    /\ now >= Head(queue).deadline
    /\ Head(queue).attempt # NoAttempt
    /\ lastNow' = now
    /\ Finish("timed-out")
    /\ counters' = [counters EXCEPT !.timedOut = @ + 1]
    /\ worker' = [pc |-> "loop", raw |-> 0]
    /\ UNCHANGED <<now, session, client, ingress, airEnd>>

\* observe_rssi finds the head request's lifetime over.
ObserveExpired ==
    /\ worker.pc = "sampled"
    /\ now >= lastNow
    /\ now >= Head(queue).deadline
    /\ lastNow' = now
    /\ Finish("timed-out")
    /\ counters' = [counters EXCEPT !.timedOut = @ + 1]
    /\ worker' = [pc |-> "loop", raw |-> 0]
    /\ UNCHANGED <<now, session, client, ingress, airEnd>>

\* Mutant: the sample is shown to every queued request.
AdvancedAll(a, t, random) ==
    [i \in 1..Len(queue) |->
        [queue[i] EXCEPT !.attempt =
            AttemptObserve(HeadAttempt(queue[i], t), t, worker.raw, random)]]

\* Only the head request sees the sample.
Advanced(a, t, random) ==
    [queue EXCEPT ![1].attempt = AttemptObserve(a, t, worker.raw, random)]

\* observe_rssi: the head request's attempt, created on its first
\* observation, sees the sample, and READY calls the transmitter at once.
\* That the adapter and the CSMA engine disagree about a draw, the other way
\* an observation can raise, is impossible (theorem DrawsAlwaysAgree).
Observe ==
    LET a == HeadAttempt(Head(queue), now)
    IN  /\ worker.pc = "sampled"
        /\ now >= lastNow
        /\ now < Head(queue).deadline
        /\ DetectorAccepts(a.det, now, worker.raw)
        /\ lastNow' = now
        /\ \E random \in Draws(a, now, worker.raw) :
              LET advanced == Advanced(a, now, random)
                  state == advanced[1].attempt.csma.state
              IN  /\ worker' = [pc |-> IF state = "ready"
                                       THEN "submitting" ELSE "loop",
                                raw |-> 0]
                  /\ IF state = "timed-out"
                     THEN /\ Finish("timed-out")
                          /\ counters' = [counters EXCEPT !.timedOut = @ + 1]
                     ELSE /\ queue' = advanced
                          /\ UNCHANGED <<log, counters>>
        /\ UNCHANGED <<now, session, client, ingress, airEnd>>

\* observe_rssi raises out of the queue: the sample is outside 0..255.  The
\* request stays where it is and the worker fails.
ObserveRaises ==
    LET a == HeadAttempt(Head(queue), now)
    IN  /\ worker.pc = "sampled"
        /\ now >= lastNow
        /\ now < Head(queue).deadline
        /\ ~DetectorAccepts(a.det, now, worker.raw)
        /\ lastNow' = now
        /\ queue' = [queue EXCEPT ![1].attempt = a]
        /\ worker' = [pc |-> "failed", raw |-> 0]
        /\ UNCHANGED <<now, session, client, ingress, counters, log, airEnd>>

\* The downstream call returned: the frame was on the air, once.
SubmitReturns ==
    /\ worker.pc = "submitting"
    /\ Finish("dispatched")
    /\ counters' = [counters EXCEPT !.dispatched = @ + 1]
    /\ worker' = [pc |-> "loop", raw |-> 0]
    /\ airEnd' = now
    /\ UNCHANGED <<now, session, client, ingress, lastNow>>

\* Mutant: the failed request is counted but stays for another try.
SubmitRaisesRetries ==
    /\ worker.pc = "submitting"
    /\ counters' = [counters EXCEPT !.failed = @ + 1]
    /\ worker' = [pc |-> "failed", raw |-> 0]
    /\ airEnd' = now
    /\ UNCHANGED <<now, session, client, ingress, queue, lastNow, log>>

\* Mutant: the runtime goes on after a failed downstream call.
SubmitRaisesGoesOn ==
    /\ worker.pc = "submitting"
    /\ Finish("downstream-failed")
    /\ counters' = [counters EXCEPT !.failed = @ + 1]
    /\ worker' = [pc |-> "loop", raw |-> 0]
    /\ airEnd' = now
    /\ UNCHANGED <<now, session, client, ingress, lastNow>>

\* The downstream call raised: the request is not retried and the runtime
\* is fail-latched.
SubmitRaises ==
    /\ worker.pc = "submitting"
    /\ Finish("downstream-failed")
    /\ counters' = [counters EXCEPT !.failed = @ + 1]
    /\ worker' = [pc |-> "failed", raw |-> 0]
    /\ airEnd' = now
    /\ UNCHANGED <<now, session, client, ingress, lastNow>>

Next ==
    \/ Tick
    \/ \E c \in Connections, m \in Controls : Control(c, m)
    \/ \E c \in Connections : Data(c)
    \/ \E c \in Connections, valid \in BOOLEAN : Enqueue(c, valid)
    \/ \E c \in Connections : CountVerdict(c)
    \/ \E raw \in RawSamples : Sample(raw)
    \/ WorkerFails
    \/ ObserveExpired
    \/ Observe
    \/ ObserveRaises
    \/ SubmitReturns
    \/ SubmitRaises

Spec == Init /\ [][Next]_vars

\* The handler threads finish what they began, the clock runs, the worker
\* loops and the downstream call, bounded by its own timeouts, ends.  Nothing
\* is assumed about how often the clients send.
Fairness ==
    /\ WF_vars(Tick)
    /\ WF_vars(\E raw \in RawSamples : Sample(raw))
    /\ WF_vars(ObserveExpired \/ Observe \/ ObserveRaises)
    /\ WF_vars(SubmitReturns \/ SubmitRaises)
    /\ \A c \in Connections :
          /\ WF_vars(\E valid \in BOOLEAN : Enqueue(c, valid))
          /\ WF_vars(CountVerdict(c))

FairSpec == Spec /\ Fairness

-----------------------------------------------------------------------------
(***************************************************************************)
(* Properties                                                              *)
(***************************************************************************)

Busy(pcs) == {c \in Connections : client[c].pc \in pcs}

\* No request and no message is lost or counted twice, at every point of every
\* interleaving: an admitted request is queued or ended in one way, and a
\* received message is counted once or still in its handler's hands.
CountersBalance ==
    /\ counters.accepted = Len(queue) + counters.dispatched
                              + counters.timedOut + counters.failed
    /\ ingress.received = ingress.admitted + ingress.invalid + ingress.full
                              + ingress.time
                              + Cardinality(Busy({"captured", "verdict"}))
    /\ counters.accepted + counters.invalid + counters.full
          = ingress.admitted + ingress.invalid + ingress.full
               + Cardinality(Busy({"verdict"}))

\* The queue refuses operations whose time runs backwards.  Because the time
\* is sampled inside the lock, no interleaving of connections and worker ever
\* produces one: data_time_rejections stays 0.
NoTimeRejection ==
    /\ ingress.time = 0
    /\ \A c \in Connections : client[c].verdict # "time"

\* A connection that updated a parameter and then sent DATA has that DATA sent
\* under the update or a later one, although the capture is made outside the
\* queue's lock and other connections update parameters meanwhile.
ReadsOwnUpdates ==
    \A i \in 1..Len(queue) : queue[i].context.generation >= queue[i].own

\* A request contends for the channel under the parameters captured with it,
\* whatever was updated between its admission and its first observation, and
\* never for longer than its own lifetime.
AttemptUsesCapturedPolicy ==
    \A i \in 1..Len(queue) :
        LET r == queue[i] IN
        r.attempt # NoAttempt =>
            /\ r.attempt.csma.slot = r.context.slottime
            /\ r.attempt.csma.persist = r.context.persist
            /\ r.attempt.csma.deadline <= r.deadline

BeginsSubmit == worker.pc # "submitting" /\ worker'.pc = "submitting"

\* Two transmissions are at least the hold and one slot apart: nothing learnt
\* about the channel before or during a transmission counts for the next one.
TransmissionsSpaced ==
    [][ BeginsSubmit /\ airEnd # None =>
            now >= airEnd + Hold + Head(queue).context.slottime ]_vars

\* The queue implements the abstract service: FIFO, bounded, one call per
\* request, one end per request, no call after a failure.
Service ==
    INSTANCE RequestService WITH
        waiting <- [i \in 1..Len(queue) |-> queue[i].id],
        onAir <- IF worker.pc = "submitting" THEN Head(queue).id ELSE 0,
        ended <- log,
        halted <- worker.pc = "failed"

ImplementsService == Service!Spec

Ended(id) == \E i \in 1..Len(log) : log[i][1] = id

\* Every admitted request ends, unless the runtime failed: a channel that
\* never clears, a queue that is always full and a long downstream call only
\* delay it, its lifetime bounds it.
EveryRequestEnds ==
    \A id \in 1..MaxMessages :
        counters.accepted >= id ~> Ended(id) \/ worker.pc = "failed"
=============================================================================
