---------------------------- MODULE MonitorStream ----------------------------
(***************************************************************************)
(* The passive monitor stream of ywd-tncd.  Handler threads and the modem  *)
(* worker publish events through the hub to bounded subscriber queues;     *)
(* the tracker tells the worker which request its events are about.        *)
(*                                                                         *)
(* A publication is three critical sections: a sequence number and the     *)
(* set of subscribers are taken under the hub's lock, the payload is put   *)
(* into one queue after the other, and the counters follow under the lock. *)
(* Between them other threads run.                                         *)
(*                                                                         *)
(* Every payload the product publishes is plain text and numbers, so the   *)
(* hub's encoding-error branch is never taken.                             *)
(***************************************************************************)
EXTENDS Naturals, Sequences, SequencesExt, FiniteSets

CONSTANTS
    Connections,    \* KISS and AGW handler threads
    Subscribers,    \* monitor connections
    QueueCapacity,  \* of the admission queue
    FeedCapacity,   \* of a subscriber's queue
    MaxMessages,    \* bound: DATA messages received
    MaxFrames       \* bound: frames decoded off the air

ASSUME MonitorStreamAssumption ==
    /\ QueueCapacity \in Nat \ {0} /\ FeedCapacity \in Nat \ {0}
    /\ MaxMessages \in Nat /\ MaxFrames \in Nat
    /\ IsFiniteSet(Connections) /\ IsFiniteSet(Subscribers)
    /\ "worker" \notin Connections

VARIABLES
    enabled,    \* transmit_enabled, fixed by the configuration
    conn,       \* per connection: what its handler thread is doing
    worker,     \* the modem worker and the request it observes
    queue,      \* the admission queue: requests [id, seen]
    admitted,   \* request ids given out
    tracker,    \* TXRequestTracker: pending ids and the current one
    hub,        \* the hub's counters
    pub,        \* per publisher: its publication in progress
    session,    \* per subscriber: "new", "open", "closed"
    feed,       \* per subscriber: how many payloads its queue holds
    stage,      \* history: per subscriber and request, the last stage put
    due,        \* history: payloads owed to subscribers and not yet taken
    bounds      \* DATA messages and frames so far

pathVars == <<enabled, conn, worker, queue, admitted, tracker, bounds>>
hubVars == <<hub, pub, session, feed, stage, due>>
vars == <<pathVars, hubVars>>

-----------------------------------------------------------------------------
Publishers == Connections \cup {"worker"}

NoRequest == 0

Stages == {"tx.channel_clear", "tx.dispatched", "tx.complete", "tx.failed",
           "tx.timeout"}
StageRank(e) == CASE e = "tx.channel_clear" -> 1
                  [] e = "tx.dispatched" -> 2
                  [] OTHER -> 3
Events == Stages \cup {"tx.submitted", "tx.queued", "tx.rejected", "rx.frame"}

\* A payload: label is the request_id it carries; about, which no client
\* sees, the request it is published for.
Payloads == [seq : Nat \ {0}, event : Events, about : Nat, label : Nat,
             by : Publishers]

Nothing == [event |-> "none"]

Publications == [payload : Payloads, targets : SUBSET Subscribers, drops : Nat]

ConnectionStates == {"idle", "entering", "tracking", "queued", "rejected"}
WorkerStates == {"loop", "observing", "ready", "lifecycle", "dispatched",
                 "released", "expired", "ending", "failed"}

TypeOK ==
    /\ enabled \in BOOLEAN
    /\ conn \in [Connections -> [pc : ConnectionStates, id : Nat]]
    /\ worker \in [pc : WorkerStates, id : Nat, record : Nat, failing : BOOLEAN]
    /\ queue \in Seq([id : Nat \ {0}, seen : BOOLEAN])
    /\ Len(queue) <= QueueCapacity
    /\ admitted \in Nat
    /\ tracker \in [pending : Seq(Nat \ {0}), current : Nat]
    /\ IsInjective(tracker.pending)
    /\ hub \in [sequence : Nat, published : Nat, drops : Nat]
    /\ pub \in [Publishers -> Publications \cup {Nothing}]
    /\ session \in [Subscribers -> {"new", "open", "closed"}]
    /\ feed \in [Subscribers -> 0..FeedCapacity]
    /\ stage \in [Subscribers -> [1..MaxMessages -> 0..3]]
    /\ due \in Nat
    /\ bounds \in [messages : 0..MaxMessages, frames : 0..MaxFrames]

Resting(pc) == [pc |-> pc, id |-> NoRequest, record |-> NoRequest,
                failing |-> FALSE]

Init ==
    /\ enabled \in BOOLEAN
    /\ conn = [c \in Connections |-> [pc |-> "idle", id |-> NoRequest]]
    /\ worker = Resting("loop")
    /\ queue = <<>>
    /\ admitted = 0
    /\ tracker = [pending |-> <<>>, current |-> NoRequest]
    /\ hub = [sequence |-> 0, published |-> 0, drops |-> 0]
    /\ pub = [p \in Publishers |-> Nothing]
    /\ session = [s \in Subscribers |-> "new"]
    /\ feed = [s \in Subscribers |-> 0]
    /\ stage = [s \in Subscribers |-> [r \in 1..MaxMessages |-> 0]]
    /\ due = 0
    /\ bounds = [messages |-> 0, frames |-> 0]

-----------------------------------------------------------------------------
(***************************************************************************)
(* The hub                                                                 *)
(***************************************************************************)

Open == {s \in Subscribers : session[s] = "open"}

\* publish, first critical section: number the event, take the subscribers.
Publish(p, event, about, label) ==
    /\ hub' = [hub EXCEPT !.sequence = @ + 1]
    /\ pub' = [pub EXCEPT ![p] =
                  [payload |-> [seq |-> hub.sequence + 1, event |-> event,
                                about |-> about, label |-> label, by |-> p],
                   targets |-> Open, drops |-> 0]]
    /\ due' = due + Cardinality(Open)
    /\ UNCHANGED <<session, feed, stage>>

\* A thread goes on only when its last publication is over.
Free(p) == pub[p] = Nothing

\* A queue takes the payload, ahead of an older one that another thread has
\* yet to put; the history notes its stage.
Accepts(p, s) ==
    LET payload == pub[p].payload
    IN  /\ feed[s] < FeedCapacity
        /\ feed' = [feed EXCEPT ![s] = @ + 1]
        /\ stage' = IF payload.event \in Stages
                    THEN [stage EXCEPT ![s][payload.about] =
                             StageRank(payload.event)]
                    ELSE stage
        /\ pub' = [pub EXCEPT ![p].targets = @ \ {s}]

\* Mutant: put instead of put_nowait.
PutBlocks(p, s) ==
    /\ pub[p] # Nothing
    /\ s \in pub[p].targets
    /\ Accepts(p, s)
    /\ UNCHANGED <<pathVars, hub, session, due>>

\* put_nowait into one subscriber's queue: a full queue is a drop.  The queue
\* of a connection that has closed since is still there to be filled.
Put(p, s) ==
    /\ pub[p] # Nothing
    /\ s \in pub[p].targets
    /\ \/ Accepts(p, s)
       \/ /\ feed[s] = FeedCapacity
          /\ pub' = [pub EXCEPT ![p].targets = @ \ {s}, ![p].drops = @ + 1]
          /\ UNCHANGED <<feed, stage>>
    /\ UNCHANGED <<pathVars, hub, session, due>>

\* Mutant: the drops of one publication replace those counted before.
AccountLast(p) ==
    /\ pub[p] # Nothing /\ pub[p].targets = {}
    /\ hub' = [hub EXCEPT !.published = @ + 1, !.drops = pub[p].drops]
    /\ pub' = [pub EXCEPT ![p] = Nothing]
    /\ UNCHANGED <<pathVars, session, feed, stage, due>>

\* publish, last critical section.
Account(p) ==
    /\ pub[p] # Nothing /\ pub[p].targets = {}
    /\ hub' = [hub EXCEPT !.published = @ + 1, !.drops = @ + pub[p].drops]
    /\ pub' = [pub EXCEPT ![p] = Nothing]
    /\ UNCHANGED <<pathVars, session, feed, stage, due>>

\* A monitor client connects; there is no history to replay.
Subscribe(s) ==
    /\ session[s] = "new"
    /\ session' = [session EXCEPT ![s] = "open"]
    /\ UNCHANGED <<pathVars, hub, pub, feed, stage, due>>

\* The handler takes a payload and sends it; a failed send loses the payload
\* and ends the connection.
Deliver(s) ==
    /\ session[s] = "open" /\ feed[s] > 0
    /\ feed' = [feed EXCEPT ![s] = @ - 1]
    /\ due' = due - 1
    /\ \/ UNCHANGED session
       \/ session' = [session EXCEPT ![s] = "closed"]
    /\ UNCHANGED <<pathVars, hub, pub, stage>>

-----------------------------------------------------------------------------
(***************************************************************************)
(* Handler threads                                                         *)
(***************************************************************************)

\* Port-0 DATA: tx.submitted comes first, whatever becomes of the frame.
Submitted(c) ==
    /\ conn[c].pc = "idle" /\ Free(c)
    /\ bounds.messages < MaxMessages
    /\ bounds' = [bounds EXCEPT !.messages = @ + 1]
    /\ conn' = [conn EXCEPT ![c].pc = IF enabled THEN "entering"
                                      ELSE "rejected"]
    /\ Publish(c, "tx.submitted", NoRequest, NoRequest)
    /\ UNCHANGED <<enabled, worker, queue, admitted, tracker>>

\* The worker holds the queue's lock through the downstream call.
QueueLocked == worker.pc \in {"ready", "lifecycle", "dispatched", "released"}

\* The delegate's enqueue: admitted, refused as invalid, or refused as full.
Enqueue(c) ==
    /\ conn[c].pc = "entering" /\ Free(c)
    /\ ~QueueLocked
    /\ \/ /\ Len(queue) < QueueCapacity
          /\ admitted' = admitted + 1
          /\ queue' = Append(queue, [id |-> admitted + 1, seen |-> FALSE])
          /\ conn' = [conn EXCEPT ![c] = [pc |-> "tracking",
                                          id |-> admitted + 1]]
       \/ /\ conn' = [conn EXCEPT ![c].pc = "rejected"]
          /\ UNCHANGED <<queue, admitted>>
    /\ UNCHANGED <<enabled, worker, tracker, hubVars, bounds>>

\* TXRequestTracker.add, after the queue's lock was released.
Add(c) ==
    /\ conn[c].pc = "tracking"
    /\ tracker' = [tracker EXCEPT !.pending = Append(@, conn[c].id)]
    /\ conn' = [conn EXCEPT ![c].pc = "queued"]
    /\ UNCHANGED <<enabled, worker, queue, admitted, hubVars, bounds>>

Queued(c) ==
    /\ conn[c].pc = "queued"
    /\ Publish(c, "tx.queued", conn[c].id, conn[c].id)
    /\ conn' = [conn EXCEPT ![c] = [pc |-> "idle", id |-> NoRequest]]
    /\ UNCHANGED <<enabled, worker, queue, admitted, tracker, bounds>>

Rejected(c) ==
    /\ conn[c].pc = "rejected" /\ Free(c)
    /\ Publish(c, "tx.rejected", NoRequest, NoRequest)
    /\ conn' = [conn EXCEPT ![c].pc = "idle"]
    /\ UNCHANGED <<enabled, worker, queue, admitted, tracker, bounds>>

-----------------------------------------------------------------------------
(***************************************************************************)
(* The modem worker                                                        *)
(***************************************************************************)

\* A decoded frame is published between observations.
RxFrame ==
    /\ worker.pc = "loop" /\ Free("worker")
    /\ bounds.frames < MaxFrames
    /\ bounds' = [bounds EXCEPT !.frames = @ + 1]
    /\ Publish("worker", "rx.frame", NoRequest, NoRequest)
    /\ UNCHANGED <<enabled, conn, worker, queue, admitted, tracker>>

\* begin_observation: the tracker's oldest request becomes the current one.
BeginObservation ==
    LET record == IF tracker.pending = <<>> THEN NoRequest
                  ELSE Head(tracker.pending)
    IN  /\ worker.pc = "loop" /\ Free("worker")
        /\ queue # <<>>
        /\ tracker' = [tracker EXCEPT !.current = record]
        /\ worker' = [pc |-> "observing", id |-> Head(queue).id,
                      record |-> record, failing |-> FALSE]
        /\ UNCHANGED <<enabled, conn, queue, admitted, hubVars, bounds>>

\* current(): the record, while the tracker still has it.
Current == IF Contains(tracker.pending, tracker.current)
           THEN tracker.current ELSE NoRequest

\* The observation leaves the request waiting.
Waits ==
    /\ worker.pc = "observing"
    /\ queue' = [queue EXCEPT ![1].seen = TRUE]
    /\ worker' = Resting("loop")
    /\ tracker' = [tracker EXCEPT !.current = NoRequest]
    /\ UNCHANGED <<enabled, conn, admitted, hubVars, bounds>>

\* The request's deadline has passed; the lock is released before tx.timeout.
Expires ==
    /\ worker.pc = "observing"
    /\ queue' = Tail(queue)
    /\ worker' = [worker EXCEPT !.pc = "expired"]
    /\ UNCHANGED <<enabled, conn, admitted, tracker, hubVars, bounds>>

TimedOut ==
    /\ worker.pc = "expired"
    /\ Publish("worker", "tx.timeout", worker.id, worker.record)
    /\ worker' = [worker EXCEPT !.pc = "ending"]
    /\ UNCHANGED <<enabled, conn, queue, admitted, tracker, bounds>>

\* READY, which a request's first observation never is: the lifecycle is
\* called with the queue's lock held, and it asks the tracker anew.
Ready ==
    /\ worker.pc = "observing" /\ Head(queue).seen
    /\ worker' = [worker EXCEPT !.pc = "ready", !.record = Current]
    /\ UNCHANGED <<enabled, conn, queue, admitted, tracker, hubVars, bounds>>

ChannelClear ==
    /\ worker.pc = "ready"
    /\ Publish("worker", "tx.channel_clear", worker.id, worker.record)
    /\ worker' = [worker EXCEPT !.pc = "lifecycle"]
    /\ UNCHANGED <<enabled, conn, queue, admitted, tracker, bounds>>

\* The router's submission returned.
Dispatched ==
    /\ worker.pc = "lifecycle" /\ Free("worker")
    /\ Publish("worker", "tx.dispatched", worker.id, Current)
    /\ worker' = [worker EXCEPT !.pc = "dispatched"]
    /\ UNCHANGED <<enabled, conn, queue, admitted, tracker, bounds>>

\* Mutant: completion is announced when the burst is handed over.
CompletedEarly ==
    /\ worker.pc \in {"lifecycle", "dispatched"} /\ Free("worker")
    /\ Publish("worker", "tx.complete", worker.id, worker.record)
    /\ worker' = [worker EXCEPT !.pc =
                     IF @ = "lifecycle" THEN @ ELSE "released"]
    /\ UNCHANGED <<enabled, conn, queue, admitted, tracker, bounds>>

\* The lifecycle returned: RF idle was proved and RX restored.
Completed ==
    /\ worker.pc = "dispatched" /\ Free("worker")
    /\ Publish("worker", "tx.complete", worker.id, worker.record)
    /\ worker' = [worker EXCEPT !.pc = "released"]
    /\ UNCHANGED <<enabled, conn, queue, admitted, tracker, bounds>>

\* The lifecycle raised, before or after the burst was handed over.
Failed ==
    /\ worker.pc \in {"lifecycle", "dispatched"} /\ Free("worker")
    /\ Publish("worker", "tx.failed", worker.id, worker.record)
    /\ worker' = [worker EXCEPT !.pc = "released", !.failing = TRUE]
    /\ UNCHANGED <<enabled, conn, queue, admitted, tracker, bounds>>

\* The queue drops the request and releases its lock.
Released ==
    /\ worker.pc = "released" /\ Free("worker")
    /\ queue' = Tail(queue)
    /\ worker' = [worker EXCEPT !.pc = "ending"]
    /\ UNCHANGED <<enabled, conn, admitted, tracker, hubVars, bounds>>

\* finish(observation.request_id) and clear_current.  A failed downstream
\* call ends the worker.
Finish ==
    /\ worker.pc = "ending" /\ Free("worker")
    /\ tracker' = [pending |-> RemoveFirst(tracker.pending, worker.id),
                   current |-> NoRequest]
    /\ worker' = Resting(IF worker.failing THEN "failed" ELSE "loop")
    /\ UNCHANGED <<enabled, conn, queue, admitted, hubVars, bounds>>

\* Any other exception of a pass ends the worker; an observation it leaves
\* in the middle only forgets the current request.
WorkerFails ==
    /\ worker.pc \in {"loop", "observing"} /\ Free("worker")
    /\ worker' = Resting("failed")
    /\ tracker' = [tracker EXCEPT !.current = NoRequest]
    /\ UNCHANGED <<enabled, conn, queue, admitted, hubVars, bounds>>

-----------------------------------------------------------------------------
Handler(c) ==
    Submitted(c) \/ Enqueue(c) \/ Add(c) \/ Queued(c) \/ Rejected(c)

Worker ==
    \/ RxFrame \/ BeginObservation \/ Waits \/ Expires \/ TimedOut \/ Ready
    \/ ChannelClear \/ Dispatched \/ Completed \/ Failed \/ Released \/ Finish
    \/ WorkerFails

Publication(p) == Account(p) \/ \E s \in Subscribers : Put(p, s)

Next ==
    \/ \E c \in Connections : Handler(c)
    \/ Worker
    \/ \E p \in Publishers : Publication(p)
    \/ \E s \in Subscribers : Subscribe(s) \/ Deliver(s)

Spec == Init /\ [][Next]_vars

\* Threads that can run do run.  Nothing is assumed of the monitor clients:
\* a handler may hang in sendall for ever.
FairSpec ==
    /\ Spec
    /\ \A c \in Connections : WF_vars(Handler(c))
    /\ WF_vars(Worker)
    /\ \A p \in Publishers : WF_vars(Publication(p))

-----------------------------------------------------------------------------
(***************************************************************************)
(* Properties                                                              *)
(***************************************************************************)

InFlight == {p \in Publishers : pub[p] # Nothing}

\* Where a payload owed to a subscriber can be: in its queue, still to be put,
\* or among the drops of a publication that has not been accounted for yet.
InQueues == {m \in Subscribers \X (1..FeedCapacity) : m[2] <= feed[m[1]]}
ToBePut == {m \in InFlight \X Subscribers : m[2] \in pub[m[1]].targets}
DropsInFlight == {m \in InFlight \X (1..Cardinality(Subscribers)) :
                      m[2] <= pub[m[1]].drops}

\* The hub's counters never lose an update although they are written after
\* the payloads were put: numbers given out are published or in flight, and
\* every payload owed to a subscriber is queued, still to be put or counted
\* as a drop (MonitorEventHub.publish).
HubAccounts ==
    /\ hub.sequence = hub.published + Cardinality(InFlight)
    /\ due = hub.drops + Cardinality(InQueues) + Cardinality(ToBePut)
             + Cardinality(DropsInFlight)

\* Whatever a slow client misses, the stages of one request reach its queue
\* in the order the request went through them, none twice, and none after
\* the end of the request (MonitoredContextualLifecycle,
\* MonitoredAdmissionQueue.observe_rssi).
StagesInOrder ==
    \A p \in InFlight : \A s \in pub[p].targets :
        LET payload == pub[p].payload
        IN  payload.event \in Stages
            => StageRank(payload.event) > stage[s][payload.about]

\* Monitoring never holds up the path it watches: a handler thread comes to
\* the end of its message although no monitor client reads (publish: "without
\* blocking").
NeverHeldUp ==
    \A c \in Connections : (conn[c].pc # "idle") ~> (conn[c].pc = "idle")
=============================================================================
