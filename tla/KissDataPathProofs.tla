------------------------- MODULE KissDataPathProofs -------------------------
(***************************************************************************)
(* KissDataPath is correct for every number of connections, every queue    *)
(* capacity, every parameter update and every interleaving: type           *)
(* correctness, the counters, the order of operations inside the lock, the *)
(* parameters a request is sent under, the spacing of transmissions, and   *)
(* that the queue implements RequestService.                               *)
(***************************************************************************)
EXTENDS KissDataPath, ChannelAccessProofs, FiniteSetTheorems,
        SequenceTheorems

-----------------------------------------------------------------------------
(***************************************************************************)
(* The inductive invariant, in parts                                       *)
(***************************************************************************)

\* The worker observes and submits only while a request is at the head.
WorkerInv == worker.pc \in {"sampled", "submitting"} => queue # <<>>

\* No time the queue or the air has seen is later than the clock.
ClockInv ==
    /\ lastNow <= now
    /\ airEnd # None => airEnd <= now

\* A handler that is about to count a verdict has one.
VerdictInv ==
    \A c \in Connections :
        client[c].pc = "verdict" =>
            client[c].verdict \in {"admitted", "invalid", "full", "time"}

\* A connection's own updates are in the session, and in what it captured.
OwnInv ==
    \A c \in Connections :
        /\ client[c].own <= session.generation
        /\ client[c].pc = "captured" =>
              client[c].own <= client[c].context.generation

\* Ids are given in the order of admission and requests end in that order.
IdInv ==
    /\ counters.accepted = Len(log) + Len(queue)
    /\ \A i \in 1..Len(queue) : queue[i].id = Len(log) + i

\* The attempt of a request began after the last transmission, has seen the
\* quiet time since, and uses what was captured with the request.
AttemptSound(r) ==
    LET a == r.attempt
        start == a.csma.started
    IN  /\ DetectorInv(a, start, start) /\ CsmaInv(a, start)
        /\ a.det.lastNow <= lastNow /\ a.csma.lastNow <= lastNow
        /\ airEnd # None => airEnd <= start
        /\ a.csma.slot = r.context.slottime
        /\ a.csma.persist = r.context.persist
        /\ a.csma.deadline <= r.deadline

\* Only the head contends for the channel, and while it does it is READY only
\* inside the downstream call.
ContendInv ==
    \A i \in 1..Len(queue) :
        queue[i].attempt # NoAttempt =>
            /\ i = 1
            /\ AttemptSound(queue[i])
            /\ worker.pc # "submitting" => queue[i].attempt.csma.state # "ready"

KissInv ==
    /\ TypeOK /\ WorkerInv /\ ClockInv /\ VerdictInv /\ OwnInv /\ IdInv
    /\ ContendInv /\ NoTimeRejection /\ ReadsOwnUpdates

-----------------------------------------------------------------------------
(***************************************************************************)
(* The operators                                                           *)
(***************************************************************************)

\* Records with a field replaced by a value of its type.
LEMMA IngressUpdate ==
    ASSUME NEW s \in IngressCounters, NEW n \in Nat
    PROVE  /\ [s EXCEPT !.received = n] \in IngressCounters
           /\ [s EXCEPT !.admitted = n] \in IngressCounters
           /\ [s EXCEPT !.invalid = n] \in IngressCounters
           /\ [s EXCEPT !.full = n] \in IngressCounters
  BY Zenon DEF IngressCounters

LEMMA QueueCountersUpdate ==
    ASSUME NEW s \in QueueCounters, NEW n \in Nat
    PROVE  /\ [s EXCEPT !.accepted = n] \in QueueCounters
           /\ [s EXCEPT !.invalid = n] \in QueueCounters
           /\ [s EXCEPT !.full = n] \in QueueCounters
           /\ [s EXCEPT !.dispatched = n] \in QueueCounters
           /\ [s EXCEPT !.timedOut = n] \in QueueCounters
           /\ [s EXCEPT !.failed = n] \in QueueCounters
  BY Zenon DEF QueueCounters

\* A control message leaves a snapshot whose generation never decreases.
LEMMA ApplyType ==
    ASSUME NEW s \in Snapshots, NEW m \in ControlMessages
    PROVE  /\ Apply(s, m) \in Snapshots
           /\ Apply(s, m).generation >= s.generation
  <1>1. CASE ~Acceptable(m)
    BY <1>1 DEF Apply, Snapshots
  <1>2. CASE Acceptable(m)
    <2>1. Apply(s, m) = [s EXCEPT !.generation = @ + 1, ![m.command] = m.value]
      BY <1>2 DEF Apply
    <2> DEFINE g == s.generation + 1
    <2>2. g \in Nat /\ g >= s.generation
      BY DEF Snapshots
    <2>3. m.value \in 0..255 /\ m.command \in ParameterCommands
      BY <1>2 DEF Acceptable, ControlMessages
    <2>4. /\ m.command = "slottime" => m.value \in 1..255
          /\ m.command = "fullduplex" => m.value \in {0}
      BY <1>2, <2>3 DEF Acceptable
    <2> DEFINE v == m.value
    <2>5. /\ m.command = "txdelay" =>
                Apply(s, m) = [s EXCEPT !.generation = g, !.txdelay = v]
          /\ m.command = "persist" =>
                Apply(s, m) = [s EXCEPT !.generation = g, !.persist = v]
          /\ m.command = "slottime" =>
                Apply(s, m) = [s EXCEPT !.generation = g, !.slottime = v]
          /\ m.command = "fullduplex" =>
                Apply(s, m) = [s EXCEPT !.generation = g, !.fullduplex = v]
      BY <2>1
    <2> HIDE DEF g, v
    <2>6. CASE m.command = "txdelay"
      <3> DEFINE n == [s EXCEPT !.generation = g, !.txdelay = v]
      <3>1. v \in 0..255
        BY <2>3, <2>6 DEF v
      <3>2. n \in Snapshots /\ n.generation = g
        BY <2>2, <3>1, Zenon DEF Snapshots
      <3> QED
        BY <2>2, <2>5, <2>6, <3>2
    <2>7. CASE m.command = "persist"
      <3> DEFINE n == [s EXCEPT !.generation = g, !.persist = v]
      <3>1. v \in 0..255
        BY <2>3, <2>7 DEF v
      <3>2. n \in Snapshots /\ n.generation = g
        BY <2>2, <3>1, Zenon DEF Snapshots
      <3> QED
        BY <2>2, <2>5, <2>7, <3>2
    <2>8. CASE m.command = "slottime"
      <3> DEFINE n == [s EXCEPT !.generation = g, !.slottime = v]
      <3>1. v \in 1..255
        BY <2>4, <2>8 DEF v
      <3>2. n \in Snapshots /\ n.generation = g
        BY <2>2, <3>1, Zenon DEF Snapshots
      <3> QED
        BY <2>2, <2>5, <2>8, <3>2
    <2>9. CASE m.command = "fullduplex"
      <3> DEFINE n == [s EXCEPT !.generation = g, !.fullduplex = v]
      <3>1. v \in {0}
        BY <2>4, <2>9 DEF v
      <3>2. n \in Snapshots /\ n.generation = g
        BY <2>2, <3>1, Zenon DEF Snapshots
      <3> QED
        BY <2>2, <2>5, <2>9, <3>2
    <2> QED
      BY <2>3, <2>6, <2>7, <2>8, <2>9 DEF ParameterCommands
  <1> QED
    BY <1>1, <1>2

\* A request that waits in the queue.
LEMMA QueueEntry ==
    ASSUME TypeOK, NEW i \in 1..Len(queue)
    PROVE  queue[i] \in Requests
  BY DEF TypeOK

\* The parameters of a new attempt are ones that CSMAParameters admits.
LEMMA PolicyType ==
    ASSUME NEW r \in Requests, NEW t \in Time, t < r.deadline
    PROVE  Policy(r, t) \in CsmaParameters
  <1>1. r.context \in Snapshots /\ r.deadline \in Nat
    BY DEF Requests, Time
  <1>2. r.context.persist \in Bytes /\ r.context.slottime \in Nat \ {0}
    BY <1>1 DEF Snapshots, Bytes
  <1>3. r.deadline - t \in Nat \ {0}
    BY <1>1 DEF Time
  <1> QED
    BY <1>2, <1>3 DEF Policy, CsmaParameters

-----------------------------------------------------------------------------
(***************************************************************************)
(* Steps of the clock and of the connection threads                        *)
(***************************************************************************)

\* The clock runs.
LEMMA TickStep ==
    ASSUME KissInv, Tick
    PROVE  KissInv'
  <1>1. now \in Nat /\ lastNow \in Nat /\ now' = now + 1
        /\ airEnd \in Nat \cup {None}
    BY DEF KissInv, TypeOK, Time, TimeOrNone, Tick
  <1>2. UNCHANGED <<session, client, ingress, queue, lastNow, counters, worker,
                    log, airEnd>>
    BY DEF Tick
  <1>3. TypeOK'
    BY <1>1, <1>2 DEF KissInv, TypeOK, Time
  <1>4. ClockInv'
    BY <1>1, <1>2 DEF KissInv, ClockInv, None
  <1>5. ContendInv'
    BY <1>2 DEF KissInv, ContendInv, AttemptSound
  <1> QED
    BY <1>2, <1>3, <1>4, <1>5
    DEF KissInv, WorkerInv, VerdictInv, OwnInv, IdInv, NoTimeRejection,
        ReadsOwnUpdates

\* One connection's handler moves on and the others do not.
LEMMA ClientUpdate ==
    ASSUME NEW f \in [Connections -> Clients], NEW c \in Connections,
           NEW n \in Clients
    PROVE  /\ [f EXCEPT ![c] = n] \in [Connections -> Clients]
           /\ [f EXCEPT ![c] = n][c] = n
           /\ \A d \in Connections : d # c => [f EXCEPT ![c] = n][d] = f[d]
  OBVIOUS

\* A control message.
LEMMA ControlStep ==
    ASSUME KissInv, NEW c \in Connections, NEW m \in Controls, Control(c, m)
    PROVE  KissInv'
  <1> DEFINE own == IF Acceptable(m) THEN session'.generation
                                     ELSE client[c].own
             n == [client[c] EXCEPT !.own = own]
  <1>1. UNCHANGED <<now, ingress, queue, lastNow, counters, worker, log, airEnd>>
    BY DEF Control, queueVars
  <1>2. /\ session' \in Snapshots /\ session'.generation \in Nat
        /\ session.generation \in Nat
        /\ session'.generation >= session.generation
    <2>1. session' = Apply(session, m) /\ session \in Snapshots
      BY DEF KissInv, TypeOK, Control
    <2>2. m \in ControlMessages
      BY KissDataPathAssumption
    <2>3. /\ session' \in Snapshots
          /\ session'.generation >= session.generation
      BY <2>1, <2>2, ApplyType
    <2> QED
      BY <2>1, <2>3 DEF Snapshots
  <1>3. /\ client \in [Connections -> Clients] /\ client[c] \in Clients
        /\ client[c].own \in Nat /\ client[c].own <= session.generation
        /\ client[c].pc = "idle"
    BY DEF KissInv, TypeOK, OwnInv, Clients, Control
  <1>4. own \in Nat /\ own <= session'.generation
    BY <1>2, <1>3
  <1>5. client' = [client EXCEPT ![c] = n]
    BY DEF Control
  <1> HIDE DEF own
  <1>6. n \in Clients /\ n.own = own /\ n.pc = "idle" /\ n.verdict = client[c].verdict
    BY <1>3, <1>4 DEF Clients
  <1> HIDE DEF n
  <1>7. /\ client' \in [Connections -> Clients] /\ client'[c] = n
        /\ \A d \in Connections : d # c => client'[d] = client[d]
    BY <1>3, <1>5, <1>6, ClientUpdate
  <1>8. TypeOK'
    BY <1>1, <1>2, <1>7 DEF KissInv, TypeOK
  <1>9. OwnInv'
    <2> SUFFICES ASSUME NEW d \in Connections
                 PROVE  /\ client'[d].own <= session'.generation
                        /\ client'[d].pc = "captured" =>
                              client'[d].own <= client'[d].context.generation
      BY DEF OwnInv
    <2>1. CASE d = c
      BY <1>4, <1>6, <1>7, <2>1
    <2>2. CASE d # c
      <3>1. client'[d] = client[d] /\ client[d].own \in Nat
        BY <1>3, <1>7, <2>2 DEF Clients
      <3> QED
        BY <1>2, <3>1 DEF KissInv, OwnInv
    <2> QED
      BY <2>1, <2>2
  <1>10. VerdictInv' /\ NoTimeRejection'
    BY <1>1, <1>3, <1>6, <1>7 DEF KissInv, VerdictInv, NoTimeRejection
  <1>11. ContendInv'
    BY <1>1 DEF KissInv, ContendInv, AttemptSound
  <1> QED
    BY <1>1, <1>8, <1>9, <1>10, <1>11
    DEF KissInv, WorkerInv, ClockInv, IdInv, ReadsOwnUpdates

\* Port-0 DATA is counted and its context captured.
LEMMA DataStep ==
    ASSUME KissInv, NEW c \in Connections, Data(c)
    PROVE  KissInv'
  <1> DEFINE n == [client[c] EXCEPT !.pc = "captured", !.context = session,
                                    !.sampled = now]
  <1>1. UNCHANGED <<now, session, queue, lastNow, counters, worker, log, airEnd>>
    BY DEF Data, queueVars
  <1>2. /\ client \in [Connections -> Clients] /\ client[c] \in Clients
        /\ session \in Snapshots /\ now \in Time
        /\ client[c].own <= session.generation
    BY DEF KissInv, TypeOK, OwnInv
  <1>3. client' = [client EXCEPT ![c] = n]
    BY DEF Data, Captured
  <1>4. n \in Clients
    BY <1>2 DEF Clients
  <1>5. /\ n.own = client[c].own /\ n.pc = "captured" /\ n.context = session
        /\ n.verdict = client[c].verdict
    BY <1>2 DEF Clients
  <1> HIDE DEF n
  <1>6. /\ client' \in [Connections -> Clients] /\ client'[c] = n
        /\ \A d \in Connections : d # c => client'[d] = client[d]
    BY <1>2, <1>3, <1>4, ClientUpdate
  <1>7. ingress' \in IngressCounters /\ ingress'.time = ingress.time
    <2>1. ingress \in IngressCounters /\ ingress.received + 1 \in Nat
      BY DEF KissInv, TypeOK, IngressCounters
    <2>2. ingress' = [ingress EXCEPT !.received = ingress.received + 1]
      BY DEF Data
    <2>3. ingress' \in IngressCounters
      BY <2>1, <2>2, IngressUpdate
    <2> QED
      BY <2>1, <2>2, <2>3 DEF IngressCounters
  <1>8. TypeOK'
    BY <1>1, <1>6, <1>7 DEF KissInv, TypeOK
  <1>9. OwnInv'
    BY <1>1, <1>2, <1>5, <1>6 DEF KissInv, OwnInv
  <1>10. VerdictInv' /\ NoTimeRejection'
    BY <1>5, <1>6, <1>7 DEF KissInv, VerdictInv, NoTimeRejection
  <1>11. ContendInv'
    BY <1>1 DEF KissInv, ContendInv, AttemptSound
  <1> QED
    BY <1>1, <1>8, <1>9, <1>10, <1>11
    DEF KissInv, WorkerInv, ClockInv, IdInv, ReadsOwnUpdates

\* A verdict is counted.
LEMMA CountVerdictStep ==
    ASSUME KissInv, NEW c \in Connections, CountVerdict(c)
    PROVE  KissInv'
  <1> DEFINE n == [client[c] EXCEPT !.pc = "idle", !.verdict = "none",
                                    !.context = InitialParameters,
                                    !.sampled = 0]
  <1>1. UNCHANGED <<now, session, queue, lastNow, counters, worker, log, airEnd>>
    BY DEF CountVerdict, queueVars
  <1>2. /\ client \in [Connections -> Clients] /\ client[c] \in Clients
        /\ InitialParameters \in Snapshots
        /\ client[c].own <= session.generation
        /\ client[c].verdict \in {"admitted", "invalid", "full"}
    BY KissDataPathAssumption
    DEF KissInv, TypeOK, OwnInv, VerdictInv, NoTimeRejection, CountVerdict
  <1>3. client' = [client EXCEPT ![c] = n]
    BY DEF CountVerdict
  <1>4. n \in Clients
    BY <1>2 DEF Clients, Time
  <1>5. n.own = client[c].own /\ n.pc = "idle" /\ n.verdict = "none"
    BY <1>2 DEF Clients
  <1> HIDE DEF n
  <1>6. /\ client' \in [Connections -> Clients] /\ client'[c] = n
        /\ \A d \in Connections : d # c => client'[d] = client[d]
    BY <1>2, <1>3, <1>4, ClientUpdate
  <1>7. ingress' \in IngressCounters /\ ingress'.time = ingress.time
    <2>1. /\ ingress \in IngressCounters /\ ingress.admitted + 1 \in Nat
          /\ ingress.invalid + 1 \in Nat /\ ingress.full + 1 \in Nat
      BY DEF KissInv, TypeOK, IngressCounters
    <2>2. \/ ingress' = [ingress EXCEPT !.admitted = ingress.admitted + 1]
          \/ ingress' = [ingress EXCEPT !.invalid = ingress.invalid + 1]
          \/ ingress' = [ingress EXCEPT !.full = ingress.full + 1]
      BY <1>2 DEF CountVerdict
    <2>3. ingress' \in IngressCounters
      BY <2>1, <2>2, IngressUpdate
    <2> QED
      BY <2>1, <2>2, <2>3 DEF IngressCounters
  <1>8. TypeOK'
    BY <1>1, <1>6, <1>7 DEF KissInv, TypeOK
  <1>9. OwnInv'
    BY <1>1, <1>2, <1>5, <1>6 DEF KissInv, OwnInv
  <1>10. VerdictInv' /\ NoTimeRejection'
    BY <1>5, <1>6, <1>7 DEF KissInv, VerdictInv, NoTimeRejection
  <1>11. ContendInv'
    BY <1>1 DEF KissInv, ContendInv, AttemptSound
  <1> QED
    BY <1>1, <1>8, <1>9, <1>10, <1>11
    DEF KissInv, WorkerInv, ClockInv, IdInv, ReadsOwnUpdates

\* enqueue, under the lock.
LEMMA EnqueueStep ==
    ASSUME KissInv, NEW c \in Connections, NEW valid \in BOOLEAN,
           Enqueue(c, valid)
    PROVE  KissInv'
  <1> DEFINE verdict == IF ~valid THEN "invalid"
                        ELSE IF Len(queue) >= Capacity THEN "full"
                        ELSE "admitted"
             n == [client[c] EXCEPT !.pc = "verdict", !.verdict = verdict]
             r == NewRequest(c, now)
  <1>1. /\ now \in Nat /\ lastNow \in Nat /\ lastNow <= now
        /\ queue \in Seq(Requests) /\ counters \in QueueCounters
        /\ client \in [Connections -> Clients] /\ client[c] \in Clients
        /\ RequestTimeout \in Nat
    BY KissDataPathAssumption DEF KissInv, TypeOK, ClockInv, Time
  <1>2. ~(SerializedNow(c) < lastNow)
    BY <1>1 DEF SerializedNow
  <1>3. UNCHANGED <<now, session, ingress, worker, log, airEnd>>
    BY DEF Enqueue
  <1>4. /\ client[c].pc = "captured" /\ worker.pc # "submitting"
        /\ client' = [client EXCEPT ![c] = n]
        /\ lastNow' = now
        /\ queue' = IF verdict = "admitted" THEN Append(queue, r) ELSE queue
        /\ counters' = [counters EXCEPT
                          !.accepted = IF verdict = "admitted" THEN @ + 1 ELSE @,
                          !.invalid = IF verdict = "invalid" THEN @ + 1 ELSE @,
                          !.full = IF verdict = "full" THEN @ + 1 ELSE @]
    BY <1>2 DEF Enqueue, SerializedNow, QueueLocked
  <1>5. verdict \in {"admitted", "invalid", "full"}
    OBVIOUS
  <1> HIDE DEF verdict
  <1>6. n \in Clients /\ n.own = client[c].own /\ n.pc = "verdict"
        /\ n.verdict = verdict
    BY <1>1, <1>5 DEF Clients
  <1> HIDE DEF n
  <1>7. /\ client' \in [Connections -> Clients] /\ client'[c] = n
        /\ \A d \in Connections : d # c => client'[d] = client[d]
    BY <1>1, <1>4, <1>6, ClientUpdate
  <1>8. /\ counters' \in QueueCounters
        /\ counters'.accepted = IF verdict = "admitted"
                                THEN counters.accepted + 1
                                ELSE counters.accepted
    <2>1. CASE verdict = "admitted"
      <3>1. counters' = [counters EXCEPT !.accepted = counters.accepted + 1]
        BY <1>1, <1>4, <2>1 DEF QueueCounters
      <3>2. counters.accepted + 1 \in Nat
        BY <1>1 DEF QueueCounters
      <3>3. counters' \in QueueCounters
        BY <1>1, <3>1, <3>2, QueueCountersUpdate
      <3> QED
        BY <1>1, <2>1, <3>1, <3>3 DEF QueueCounters
    <2>2. CASE verdict = "invalid"
      <3>1. counters' = [counters EXCEPT !.invalid = counters.invalid + 1]
        BY <1>1, <1>4, <2>2 DEF QueueCounters
      <3>2. counters.invalid + 1 \in Nat
        BY <1>1 DEF QueueCounters
      <3>3. counters' \in QueueCounters
        BY <1>1, <3>1, <3>2, QueueCountersUpdate
      <3> QED
        BY <1>1, <2>2, <3>1, <3>3 DEF QueueCounters
    <2>3. CASE verdict = "full"
      <3>1. counters' = [counters EXCEPT !.full = counters.full + 1]
        BY <1>1, <1>4, <2>3 DEF QueueCounters
      <3>2. counters.full + 1 \in Nat
        BY <1>1 DEF QueueCounters
      <3>3. counters' \in QueueCounters
        BY <1>1, <3>1, <3>2, QueueCountersUpdate
      <3> QED
        BY <1>1, <2>3, <3>1, <3>3 DEF QueueCounters
    <2> QED
      BY <1>5, <2>1, <2>2, <2>3
  <1>9. /\ r \in Requests /\ r.id = counters.accepted + 1
        /\ r.attempt = NoAttempt
        /\ r.own <= r.context.generation
    <2>1. counters.accepted + 1 \in Nat \ {0} /\ now + RequestTimeout \in Time
      BY <1>1 DEF QueueCounters, Time
    <2>2. /\ client[c].context \in Snapshots /\ client[c].own \in Nat
          /\ client[c].own <= client[c].context.generation
      BY <1>1, <1>4 DEF KissInv, OwnInv, Clients
    <2> QED
      BY <2>1, <2>2 DEF NewRequest, Requests
  <1> HIDE DEF r
  <1>10. /\ queue' \in Seq(Requests)
         /\ \A i \in 1..Len(queue) : i \in 1..Len(queue') /\ queue'[i] = queue[i]
         /\ IF verdict = "admitted"
            THEN Len(queue') = Len(queue) + 1 /\ queue'[Len(queue) + 1] = r
            ELSE Len(queue') = Len(queue)
    BY <1>1, <1>4, <1>9
  <1>11. \A i \in 1..Len(queue') :
             \/ i \in 1..Len(queue) /\ queue'[i] = queue[i]
             \/ verdict = "admitted" /\ i = Len(queue) + 1 /\ queue'[i] = r
    BY <1>1, <1>10
  <1>12. TypeOK'
    BY <1>1, <1>3, <1>4, <1>7, <1>8, <1>10 DEF KissInv, TypeOK, Time
  <1>13. WorkerInv' /\ ClockInv'
    <2>1. queue # <<>> => queue' # <<>>
      BY <1>1, <1>10
    <2> QED
      BY <1>1, <1>3, <1>4, <2>1 DEF KissInv, WorkerInv, ClockInv
  <1>14. VerdictInv' /\ NoTimeRejection'
    BY <1>3, <1>5, <1>6, <1>7 DEF KissInv, VerdictInv, NoTimeRejection
  <1>15. OwnInv'
    BY <1>3, <1>4, <1>6, <1>7 DEF KissInv, OwnInv
  <1>16. ReadsOwnUpdates'
    <2> SUFFICES ASSUME NEW i \in 1..Len(queue')
                 PROVE  queue'[i].context.generation >= queue'[i].own
      BY DEF ReadsOwnUpdates
    <2>1. r.context.generation \in Nat /\ r.own \in Nat
      BY <1>9 DEF Requests, Snapshots
    <2> QED
      BY <1>9, <1>11, <2>1 DEF KissInv, ReadsOwnUpdates
  <1>17. IdInv'
    <2>1. Len(log) \in Nat /\ Len(queue) \in Nat /\ counters.accepted \in Nat
      BY <1>1 DEF KissInv, TypeOK, QueueCounters
    <2>2. counters.accepted = Len(log) + Len(queue)
      BY DEF KissInv, IdInv
    <2>3. counters'.accepted = Len(log) + Len(queue')
      BY <1>8, <1>10, <2>1, <2>2
    <2>4. ASSUME NEW i \in 1..Len(queue')
          PROVE  queue'[i].id = Len(log) + i
      <3>1. CASE i \in 1..Len(queue) /\ queue'[i] = queue[i]
        BY <3>1 DEF KissInv, IdInv
      <3>2. CASE i = Len(queue) + 1 /\ queue'[i] = r
        BY <1>9, <2>1, <2>2, <3>2
      <3> QED
        BY <1>11, <3>1, <3>2
    <2> QED
      BY <1>3, <2>3, <2>4 DEF IdInv
  <1>18. ContendInv'
    <2> SUFFICES ASSUME NEW i \in 1..Len(queue'),
                        queue'[i].attempt # NoAttempt
                 PROVE  /\ i = 1
                        /\ AttemptSound(queue[i])'
                        /\ worker'.pc # "submitting" =>
                              queue'[i].attempt.csma.state # "ready"
      BY DEF ContendInv
    <2>1. i \in 1..Len(queue) /\ queue'[i] = queue[i]
      BY <1>9, <1>11
    <2>2. /\ i = 1 /\ AttemptSound(queue[i])
          /\ worker.pc # "submitting" => queue[i].attempt.csma.state # "ready"
      BY <2>1 DEF KissInv, ContendInv
    <2>0. queue[i] \in Requests
      BY <1>1, <2>1
    <2>3. queue[i].attempt \in Attempts
      BY <2>0, <2>1 DEF Requests
    <2>4. queue[i].attempt.det.lastNow \in Nat
          /\ queue[i].attempt.csma.lastNow \in Nat
      BY <2>3 DEF Attempts, Detectors, Csmas, Time
    <2> QED
      BY <1>1, <1>3, <1>4, <2>1, <2>2, <2>4 DEF AttemptSound
  <1> QED
    BY <1>12, <1>13, <1>14, <1>15, <1>16, <1>17, <1>18 DEF KissInv

-----------------------------------------------------------------------------
(***************************************************************************)
(* Steps of the worker                                                     *)
(***************************************************************************)

\* A step that only moves the worker, and not out of the downstream call.
LEMMA WorkerMoves ==
    ASSUME KissInv, worker.pc = "loop", worker' \in Workers,
           worker'.pc \in {"sampled", "failed"},
           worker'.pc = "sampled" => queue # <<>>,
           UNCHANGED <<now, session, client, ingress, queueVars, log, airEnd>>
    PROVE  KissInv'
  <1>1. UNCHANGED <<now, session, client, ingress, queue, lastNow, counters,
                    log, airEnd>>
    BY DEF queueVars
  <1>2. TypeOK'
    BY <1>1 DEF KissInv, TypeOK
  <1>3. WorkerInv'
    BY <1>1 DEF WorkerInv
  <1>4. ContendInv'
    BY <1>1 DEF KissInv, ContendInv, AttemptSound
  <1> QED
    BY <1>1, <1>2, <1>3, <1>4
    DEF KissInv, ClockInv, VerdictInv, OwnInv, IdInv, NoTimeRejection,
        ReadsOwnUpdates

\* The head request leaves the queue: the requests behind it keep their order
\* and none of them contends yet.
LEMMA FinishStep ==
    ASSUME KissInv, queue # <<>>, NEW verdict \in Outcomes, Finish(verdict),
           worker' \in Workers, worker'.pc \in {"loop", "failed"},
           UNCHANGED <<now, session, client, ingress>>,
           lastNow' \in {lastNow, now}, airEnd' \in {airEnd, now},
           counters' \in QueueCounters, counters'.accepted = counters.accepted
    PROVE  KissInv'
  <1>1. /\ queue \in Seq(Requests) /\ log \in Seq((Nat \ {0}) \X Outcomes)
        /\ now \in Nat /\ lastNow \in Nat /\ airEnd \in TimeOrNone
    BY DEF KissInv, TypeOK, Time
  <1>2. /\ queue' \in Seq(Requests) /\ Len(queue') = Len(queue) - 1
        /\ Len(queue') \in Nat
        /\ \A i \in 1..Len(queue') :
              i + 1 \in 1..Len(queue) /\ queue'[i] = queue[i + 1]
    BY <1>1 DEF Finish
  <1>3. Head(queue) \in Requests
    BY <1>1
  <1>4. /\ log' \in Seq((Nat \ {0}) \X Outcomes) /\ Len(log') = Len(log) + 1
    <2>1. <<Head(queue).id, verdict>> \in (Nat \ {0}) \X Outcomes
      BY <1>3 DEF Requests
    <2> QED
      BY <1>1, <2>1 DEF Finish
  <1>5. TypeOK'
    BY <1>1, <1>2, <1>4 DEF KissInv, TypeOK, Time, TimeOrNone
  <1>6. WorkerInv'
    BY DEF WorkerInv
  <1>7. ClockInv'
    BY <1>1 DEF KissInv, ClockInv, TimeOrNone, Time, None
  <1>8. IdInv'
    <2>1. Len(log) \in Nat /\ Len(queue) \in Nat
      BY <1>1
    <2>2. counters'.accepted = Len(log') + Len(queue')
      BY <1>2, <1>4, <2>1 DEF KissInv, IdInv
    <2>3. ASSUME NEW i \in 1..Len(queue')
          PROVE  queue'[i].id = Len(log') + i
      <3>1. queue'[i].id = Len(log) + (i + 1)
        BY <1>2 DEF KissInv, IdInv
      <3> QED
        BY <1>2, <1>4, <2>1, <3>1
    <2> QED
      BY <2>2, <2>3 DEF IdInv
  <1>9. ContendInv'
    <2>1. ASSUME NEW i \in 1..Len(queue')
          PROVE  queue'[i].attempt = NoAttempt
      <3>1. i + 1 \in 1..Len(queue) /\ i + 1 # 1 /\ queue'[i] = queue[i + 1]
        BY <1>2
      <3> QED
        BY <3>1 DEF KissInv, ContendInv
    <2> QED
      BY <2>1 DEF ContendInv
  <1>10. ReadsOwnUpdates'
    BY <1>2 DEF KissInv, ReadsOwnUpdates
  <1> QED
    BY <1>5, <1>6, <1>7, <1>8, <1>9, <1>10
    DEF KissInv, VerdictInv, OwnInv, NoTimeRejection

\* What an observation needs to know of the attempt it shows the sample to,
\* whether that attempt is new or has seen samples before.
HeadSound(a) ==
    LET r == Head(queue)
        start == a.csma.started
    IN  /\ a \in Attempts /\ start \in Time
        /\ DetectorInv(a, start, start) /\ CsmaInv(a, start)
        /\ a.det.lastNow <= now /\ a.csma.lastNow <= now
        /\ airEnd # None => airEnd <= start
        /\ a.csma.slot = r.context.slottime
        /\ a.csma.persist = r.context.persist
        /\ a.csma.deadline <= r.deadline

LEMMA HeadAttemptSound ==
    ASSUME KissInv, queue # <<>>, now < Head(queue).deadline,
           worker.pc # "submitting"
    PROVE  /\ HeadSound(HeadAttempt(Head(queue), now))
           /\ HeadAttempt(Head(queue), now).csma.state # "ready"
  <1> DEFINE r == Head(queue)
             a == HeadAttempt(r, now)
  <1> SUFFICES HeadSound(a) /\ a.csma.state # "ready"
    OBVIOUS
  <1>1. /\ r \in Requests /\ r = queue[1] /\ 1 \in 1..Len(queue)
        /\ now \in Time /\ lastNow \in Time /\ lastNow <= now
        /\ airEnd # None => airEnd <= now
    BY DEF KissInv, TypeOK, ClockInv
  <1>2. r.context \in Snapshots /\ r.deadline \in Time
    BY <1>1 DEF Requests
  <1>3. CASE r.attempt = NoAttempt
    <2>1. a = NewAttempt(now, Policy(r, now)) /\ Policy(r, now) \in CsmaParameters
      BY <1>1, <1>3, PolicyType DEF HeadAttempt
    <2>2. /\ Policy(r, now).slot = r.context.slottime
          /\ Policy(r, now).persist = r.context.persist
          /\ now + Policy(r, now).maxWait = r.deadline
      BY <1>1, <1>2 DEF Policy, Time
    <2>3. /\ a \in Attempts
          /\ DetectorInv(a, now, now) /\ CsmaInv(a, now)
          /\ a.det.lastNow = now /\ a.csma.lastNow = now
          /\ a.csma.state = "wait-clear" /\ a.csma.started = now
          /\ a.csma.deadline = r.deadline
          /\ a.csma.slot = r.context.slottime
          /\ a.csma.persist = r.context.persist
      BY <1>1, <2>1, <2>2, NewAttemptSound
    <2> HIDE DEF a
    <2> QED
      BY <1>1, <1>2, <2>3 DEF HeadSound, Time
  <1>4. CASE r.attempt # NoAttempt
    <2>1. a = r.attempt /\ a \in Attempts
      BY <1>1, <1>4 DEF HeadAttempt, Requests
    <2>2. AttemptSound(r) /\ a.csma.state # "ready"
      BY <1>1, <1>4, <2>1 DEF KissInv, ContendInv
    <2>3. a.csma.started \in Time /\ a.det.lastNow \in Time
          /\ a.csma.lastNow \in Time
      BY <2>1 DEF Attempts, Csmas, Detectors
    <2> HIDE DEF a
    <2> QED
      BY <1>1, <2>1, <2>2, <2>3 DEF HeadSound, AttemptSound, Time
  <1> QED
    BY <1>3, <1>4

\* The head's attempt has seen the sample: it is still sound, and READY means
\* that the quiet time since the last transmission is over.
LEMMA SampleSeen ==
    ASSUME KissInv, queue # <<>>, now < Head(queue).deadline,
           worker.pc # "submitting", NEW raw \in RawMagnitudes,
           NEW random \in Draws(HeadAttempt(Head(queue), now), now, raw)
    PROVE  LET b == AttemptObserve(HeadAttempt(Head(queue), now), now, raw, random)
           IN  /\ HeadSound(b)
               /\ b.csma.state = "ready" /\ airEnd # None =>
                     now >= airEnd + Hold + Head(queue).context.slottime
  <1> DEFINE a == HeadAttempt(Head(queue), now)
             b == AttemptObserve(a, now, raw, random)
             start == a.csma.started
             slot == Head(queue).context.slottime
  <1>1. /\ HeadSound(a) /\ a.csma.state # "ready"
    BY HeadAttemptSound
  <1>2. now \in Time /\ Hold \in Nat /\ airEnd \in TimeOrNone
    BY HoldAssumption DEF KissInv, TypeOK
  <1>3. random \in Draws(a, now, raw)
    OBVIOUS
  <1> SUFFICES /\ HeadSound(b)
               /\ b.csma.state = "ready" /\ airEnd # None =>
                     now >= airEnd + Hold + slot
    OBVIOUS
  <1> HIDE DEF a
  <1>4. /\ a \in Attempts /\ start \in Time /\ a.csma.slot = slot
        /\ DetectorInv(a, start, start) /\ CsmaInv(a, start)
        /\ a.det.lastNow <= now /\ a.csma.lastNow <= now
        /\ airEnd # None => airEnd <= start
    BY <1>1 DEF HeadSound
  <1>5. random \in Bytes \cup {None}
    BY <1>3, DrawsType
  <1>6. /\ b \in Attempts
        /\ b.det = DetectorObserve(a.det, now, raw)
        /\ b.det.lastNow = now /\ b.csma.lastNow = now
        /\ b.csma.deadline = a.csma.deadline
        /\ b.csma.slot = a.csma.slot
        /\ b.csma.persist = a.csma.persist
        /\ b.csma.started = start
    BY <1>2, <1>4, <1>5, AttemptObserveType
  <1> DEFINE u == IF raw < ClearReleaseRawMin THEN now ELSE start
  <1>7. /\ u \in Time
        /\ DetectorInv(b, start, u)
        /\ b.det.state = "clear" => BusyMark(b, start) = BusyMark(a, start)
    BY <1>2, <1>4, <1>6, DetectorStep
  <1>8. /\ CsmaInv(b, start)
        /\ b.csma.state = "ready" =>
              now >= BusyMark(b, start) + Hold + a.csma.slot
    BY <1>1, <1>2, <1>3, <1>4, <1>6, <1>7, CsmaStep
  <1> HIDE DEF b, u
  <1>9. start <= BusyMark(b, start) /\ BusyMark(b, start) \in Time
    BY <1>7 DEF DetectorInv
  <1>10. DetectorInv(b, start, start)
    BY <1>4, <1>6, <1>7
    DEF DetectorInv, Attempts, Detectors, TimeOrNone, Time, None
  <1>11. HeadSound(b)
    BY <1>1, <1>2, <1>4, <1>6, <1>8, <1>10 DEF HeadSound, Time
  <1>12. ASSUME b.csma.state = "ready", airEnd # None
         PROVE  now >= airEnd + Hold + slot
    <2>1. slot \in Nat
      BY <1>4 DEF Attempts, Csmas
    <2> QED
      BY <1>2, <1>4, <1>8, <1>9, <1>12, <2>1 DEF TimeOrNone, Time
  <1> QED
    BY <1>11, <1>12

\* The head request keeps its place with an attempt that is still sound.
LEMMA AdvanceStep ==
    ASSUME KissInv, queue # <<>>, NEW b, HeadSound(b),
           queue' = [queue EXCEPT ![1].attempt = b], lastNow' = now,
           worker' \in Workers,
           worker'.pc # "submitting" => b.csma.state # "ready",
           worker'.pc # "sampled",
           UNCHANGED <<now, session, client, ingress, counters, log, airEnd>>
    PROVE  KissInv'
  <1> DEFINE r == Head(queue)
             n == [r EXCEPT !.attempt = b]
  <1>1. /\ queue \in Seq(Requests) /\ r \in Requests /\ r = queue[1]
        /\ 1 \in 1..Len(queue)
        /\ now \in Time /\ airEnd \in TimeOrNone
        /\ airEnd # None => airEnd <= now
    BY DEF KissInv, TypeOK, ClockInv
  <1>2. /\ n \in Requests /\ n.id = r.id /\ n.context = r.context
        /\ n.deadline = r.deadline /\ n.own = r.own /\ n.attempt = b
    <2>1. b \in Attempts
      BY DEF HeadSound
    <2> QED
      BY <1>1, <2>1 DEF Requests
  <1>3. queue' = [queue EXCEPT ![1] = n]
    BY <1>1
  <1> HIDE DEF n
  <1>4. /\ queue' \in Seq(Requests) /\ Len(queue') = Len(queue)
        /\ queue'[1] = n
        /\ \A i \in 1..Len(queue) : i # 1 => queue'[i] = queue[i]
    BY <1>1, <1>2, <1>3
  <1>5. TypeOK'
    BY <1>1, <1>4 DEF KissInv, TypeOK
  <1>6. WorkerInv' /\ ClockInv'
    BY <1>1, <1>4 DEF WorkerInv, ClockInv, Time
  <1>7. IdInv'
    BY <1>1, <1>2, <1>4 DEF KissInv, IdInv
  <1>8. ReadsOwnUpdates'
    BY <1>1, <1>2, <1>4 DEF KissInv, ReadsOwnUpdates
  <1>9. ContendInv'
    <2> SUFFICES ASSUME NEW i \in 1..Len(queue),
                        queue'[i].attempt # NoAttempt
                 PROVE  /\ i = 1
                        /\ AttemptSound(queue[i])'
                        /\ worker'.pc # "submitting" =>
                              queue'[i].attempt.csma.state # "ready"
      BY <1>4 DEF ContendInv
    <2>1. i = 1
      BY <1>4 DEF KissInv, ContendInv
    <2>2. queue'[i] = n /\ n.attempt = b
      BY <1>2, <1>4, <2>1
    <2>3. AttemptSound(queue[i])'
      BY <1>2, <2>2 DEF HeadSound, AttemptSound
    <2> QED
      BY <2>1, <2>2, <2>3
  <1> QED
    BY <1>5, <1>6, <1>7, <1>8, <1>9
    DEF KissInv, VerdictInv, OwnInv, NoTimeRejection

\* observe_rssi: the invariant is kept, and a call that begins is spaced.
LEMMA ObserveStep ==
    ASSUME KissInv, Observe
    PROVE  /\ KissInv'
           /\ worker'.pc = "submitting" /\ airEnd # None =>
                 now >= airEnd + Hold + Head(queue).context.slottime
  <1> DEFINE a == HeadAttempt(Head(queue), now)
  <1>1. /\ queue # <<>> /\ worker.pc = "sampled"
        /\ now < Head(queue).deadline /\ worker.raw \in RawMagnitudes
        /\ queue \in Seq(Requests) /\ 1 \in 1..Len(queue)
        /\ Head(queue) \in Requests /\ Head(queue) = queue[1]
        /\ counters \in QueueCounters
    BY DEF Observe, DetectorAccepts, KissInv, TypeOK, WorkerInv
  <1>2. PICK random \in Draws(a, now, worker.raw) :
            LET advanced == Advanced(a, now, random)
                state == advanced[1].attempt.csma.state
            IN  /\ worker' = [pc |-> IF state = "ready"
                                     THEN "submitting" ELSE "loop",
                              raw |-> 0]
                /\ IF state = "timed-out"
                   THEN /\ Finish("timed-out")
                        /\ counters' = [counters EXCEPT !.timedOut = @ + 1]
                   ELSE /\ queue' = advanced
                        /\ UNCHANGED <<log, counters>>
    BY DEF Observe
  <1> DEFINE b == AttemptObserve(a, now, worker.raw, random)
  <1>3. Advanced(a, now, random) = [queue EXCEPT ![1].attempt = b]
    BY DEF Advanced
  <1>4. /\ HeadSound(b)
        /\ b.csma.state = "ready" /\ airEnd # None =>
              now >= airEnd + Hold + Head(queue).context.slottime
    BY <1>1, SampleSeen
  <1> HIDE DEF a, b
  <1>5. [queue EXCEPT ![1].attempt = b][1].attempt = b
    BY <1>1 DEF Requests
  <1>6. /\ worker' = [pc |-> IF b.csma.state = "ready"
                             THEN "submitting" ELSE "loop",
                      raw |-> 0]
        /\ IF b.csma.state = "timed-out"
           THEN /\ Finish("timed-out")
                /\ counters' = [counters EXCEPT !.timedOut = @ + 1]
           ELSE /\ queue' = [queue EXCEPT ![1].attempt = b]
                /\ UNCHANGED <<log, counters>>
    BY <1>2, <1>3, <1>5
  <1>7. /\ lastNow' = now
        /\ UNCHANGED <<now, session, client, ingress, airEnd>>
    BY DEF Observe
  <1>8. /\ worker' \in Workers
        /\ worker'.pc = "submitting" <=> b.csma.state = "ready"
        /\ worker'.pc \in {"loop", "submitting"}
    BY <1>6 DEF Workers
  <1>9. CASE b.csma.state = "timed-out"
    <2>1. counters' \in QueueCounters /\ counters'.accepted = counters.accepted
      BY <1>1, <1>6, <1>9 DEF QueueCounters
    <2>2. Finish("timed-out") /\ worker'.pc = "loop"
      BY <1>6, <1>8, <1>9
    <2>3. KissInv'
      BY <1>1, <1>7, <1>8, <2>1, <2>2, FinishStep DEF Outcomes
    <2> QED
      BY <2>2, <2>3
  <1>10. CASE b.csma.state # "timed-out"
    <2>1. KissInv'
      BY <1>1, <1>4, <1>6, <1>7, <1>8, <1>10, AdvanceStep
    <2> QED
      BY <1>4, <1>8, <2>1
  <1> QED
    BY <1>9, <1>10

\* The sample is refused: the head has an attempt and the worker is done.
LEMMA ObserveRaisesStep ==
    ASSUME KissInv, ObserveRaises
    PROVE  KissInv' /\ worker'.pc = "failed"
  <1> DEFINE a == HeadAttempt(Head(queue), now)
  <1>1. /\ queue # <<>> /\ worker.pc = "sampled" /\ now < Head(queue).deadline
    BY DEF ObserveRaises, KissInv, WorkerInv
  <1>2. HeadSound(a) /\ a.csma.state # "ready"
    BY <1>1, HeadAttemptSound
  <1>3. /\ lastNow' = now /\ queue' = [queue EXCEPT ![1].attempt = a]
        /\ worker' = [pc |-> "failed", raw |-> 0]
        /\ UNCHANGED <<now, session, client, ingress, counters, log, airEnd>>
    BY DEF ObserveRaises
  <1> HIDE DEF a
  <1>4. worker' \in Workers /\ worker'.pc = "failed"
    BY <1>3 DEF Workers
  <1> QED
    BY <1>1, <1>2, <1>3, <1>4, AdvanceStep

\* The three other ways in which the head request ends.
LEMMA EndingStep ==
    ASSUME KissInv, ObserveExpired \/ SubmitReturns \/ SubmitRaises
    PROVE  KissInv' /\ worker'.pc \in {"loop", "failed"}
  <1>1. counters \in QueueCounters /\ queue # <<>>
    BY DEF KissInv, TypeOK, WorkerInv, ObserveExpired, SubmitReturns,
           SubmitRaises
  <1>2. CASE ObserveExpired
    <2>1. counters' \in QueueCounters /\ counters'.accepted = counters.accepted
      BY <1>1, <1>2 DEF ObserveExpired, QueueCounters
    <2>2. worker' \in Workers /\ worker'.pc = "loop"
      BY <1>2 DEF ObserveExpired, Workers
    <2> QED
      BY <1>1, <1>2, <2>1, <2>2, FinishStep DEF ObserveExpired, Outcomes
  <1>3. CASE SubmitReturns
    <2>1. counters' \in QueueCounters /\ counters'.accepted = counters.accepted
      BY <1>1, <1>3 DEF SubmitReturns, QueueCounters
    <2>2. worker' \in Workers /\ worker'.pc = "loop"
      BY <1>3 DEF SubmitReturns, Workers
    <2> QED
      BY <1>1, <1>3, <2>1, <2>2, FinishStep DEF SubmitReturns, Outcomes
  <1>4. CASE SubmitRaises
    <2>1. counters' \in QueueCounters /\ counters'.accepted = counters.accepted
      BY <1>1, <1>4 DEF SubmitRaises, QueueCounters
    <2>2. worker' \in Workers /\ worker'.pc = "failed"
      BY <1>4 DEF SubmitRaises, Workers
    <2> QED
      BY <1>1, <1>4, <2>1, <2>2, FinishStep DEF SubmitRaises, Outcomes
  <1> QED
    BY <1>2, <1>3, <1>4

\* A step that is no observation leaves the invariant in place and begins no
\* downstream call.
LEMMA OtherStep ==
    ASSUME KissInv, [Next]_vars, ~Observe
    PROVE  KissInv' /\ ~BeginsSubmit
  <1>1. CASE Tick
    BY <1>1, TickStep DEF Tick, BeginsSubmit
  <1>2. ASSUME NEW c \in Connections, NEW m \in Controls, Control(c, m)
        PROVE  KissInv' /\ ~BeginsSubmit
    BY <1>2, ControlStep DEF Control, BeginsSubmit
  <1>3. ASSUME NEW c \in Connections, Data(c)
        PROVE  KissInv' /\ ~BeginsSubmit
    BY <1>3, DataStep DEF Data, BeginsSubmit
  <1>4. ASSUME NEW c \in Connections, NEW valid \in BOOLEAN, Enqueue(c, valid)
        PROVE  KissInv' /\ ~BeginsSubmit
    BY <1>4, EnqueueStep DEF Enqueue, BeginsSubmit
  <1>5. ASSUME NEW c \in Connections, CountVerdict(c)
        PROVE  KissInv' /\ ~BeginsSubmit
    BY <1>5, CountVerdictStep DEF CountVerdict, BeginsSubmit
  <1>6. ASSUME NEW raw \in RawSamples, Sample(raw)
        PROVE  KissInv' /\ ~BeginsSubmit
    <2>1. worker' \in Workers /\ worker'.pc = "sampled"
      BY <1>6, KissDataPathAssumption DEF Sample, Workers
    <2> QED
      BY <1>6, <2>1, WorkerMoves DEF Sample, BeginsSubmit
  <1>7. CASE WorkerFails
    <2>1. worker' \in Workers /\ worker'.pc = "failed"
      BY <1>7 DEF WorkerFails, Workers
    <2> QED
      BY <1>7, <2>1, WorkerMoves DEF WorkerFails, BeginsSubmit
  <1>8. CASE ObserveExpired \/ SubmitReturns \/ SubmitRaises
    BY <1>8, EndingStep DEF BeginsSubmit
  <1>9. CASE ObserveRaises
    BY <1>9, ObserveRaisesStep DEF BeginsSubmit
  <1>10. CASE UNCHANGED vars
    BY <1>10
    DEF vars, KissInv, TypeOK, WorkerInv, ClockInv, VerdictInv, OwnInv, IdInv,
        ContendInv, AttemptSound, NoTimeRejection, ReadsOwnUpdates,
        BeginsSubmit
  <1> QED
    BY <1>1, <1>2, <1>3, <1>4, <1>5, <1>6, <1>7, <1>8, <1>9, <1>10 DEF Next

-----------------------------------------------------------------------------
(***************************************************************************)
(* The theorems                                                            *)
(***************************************************************************)

\* The invariant holds of every behaviour of the connections and the worker.
THEOREM KissInvariant == Spec => []KissInv
  <1>1. Init => KissInv
    <2> SUFFICES ASSUME Init PROVE KissInv
      OBVIOUS
    <2>1. TypeOK
      BY KissDataPathAssumption
      DEF Init, TypeOK, Time, TimeOrNone, Clients, IngressCounters,
          QueueCounters, Workers, Snapshots
    <2>2. OwnInv
      BY KissDataPathAssumption DEF Init, OwnInv
    <2> QED
      BY <2>1, <2>2
      DEF Init, KissInv, WorkerInv, ClockInv, VerdictInv, IdInv, ContendInv,
          NoTimeRejection, ReadsOwnUpdates
  <1>2. KissInv /\ [Next]_vars => KissInv'
    BY ObserveStep, OtherStep
  <1> QED
    BY <1>1, <1>2, PTL DEF Spec

\* Every variable keeps its type.
THEOREM TypeCorrect == Spec => []TypeOK
  <1>1. KissInv => TypeOK
    BY DEF KissInv
  <1> QED
    BY <1>1, KissInvariant, PTL

\* No interleaving of connections and worker makes the queue's time run
\* backwards.
THEOREM TimeNeverRejected == Spec => []NoTimeRejection
  <1>1. KissInv => NoTimeRejection
    BY DEF KissInv
  <1> QED
    BY <1>1, KissInvariant, PTL

\* A request is sent under its connection's own updates or later ones.
THEOREM OwnUpdatesRead == Spec => []ReadsOwnUpdates
  <1>1. KissInv => ReadsOwnUpdates
    BY DEF KissInv
  <1> QED
    BY <1>1, KissInvariant, PTL

\* A request contends under the parameters that were captured with it.
THEOREM CapturedPolicyUsed == Spec => []AttemptUsesCapturedPolicy
  <1>1. KissInv => AttemptUsesCapturedPolicy
    BY DEF KissInv, ContendInv, AttemptSound, AttemptUsesCapturedPolicy
  <1> QED
    BY <1>1, KissInvariant, PTL

\* Two transmissions are at least the hold and one slot apart.
THEOREM SpacedTransmissions == Spec => TransmissionsSpaced
  <1>1. KissInv /\ [Next]_vars =>
            [ BeginsSubmit /\ airEnd # None =>
                now >= airEnd + Hold + Head(queue).context.slottime ]_vars
    BY ObserveStep, OtherStep DEF BeginsSubmit
  <1> QED
    BY <1>1, KissInvariant, PTL DEF Spec, TransmissionsSpaced

-----------------------------------------------------------------------------
(***************************************************************************)
(* The counters balance                                                    *)
(***************************************************************************)

\* How many handlers are at given points, when one of them moves.
LEMMA BusyChanges ==
    ASSUME NEW pcs, NEW c \in Connections,
           \A d \in Connections : d # c => client'[d] = client[d]
    PROVE  /\ Cardinality(Busy(pcs)) \in Nat
           /\ client[c].pc \notin pcs /\ client'[c].pc \in pcs =>
                 Cardinality(Busy(pcs)') = Cardinality(Busy(pcs)) + 1
           /\ client[c].pc \in pcs /\ client'[c].pc \notin pcs =>
                 Cardinality(Busy(pcs)') = Cardinality(Busy(pcs)) - 1
           /\ (client[c].pc \in pcs <=> client'[c].pc \in pcs) =>
                 Cardinality(Busy(pcs)') = Cardinality(Busy(pcs))
  <1>1. IsFiniteSet(Connections)
    BY KissDataPathAssumption
  <1>2. Busy(pcs) \subseteq Connections /\ Busy(pcs)' \subseteq Connections
    BY DEF Busy
  <1>3. IsFiniteSet(Busy(pcs)) /\ Cardinality(Busy(pcs)) \in Nat
    BY <1>1, <1>2, FS_Subset, FS_CardinalityType
  <1>4. ASSUME client[c].pc \notin pcs, client'[c].pc \in pcs
        PROVE  Cardinality(Busy(pcs)') = Cardinality(Busy(pcs)) + 1
    <2>1. Busy(pcs)' = Busy(pcs) \cup {c} /\ c \notin Busy(pcs)
      BY <1>4 DEF Busy
    <2> QED
      BY <1>3, <2>1, FS_AddElement
  <1>5. ASSUME client[c].pc \in pcs, client'[c].pc \notin pcs
        PROVE  Cardinality(Busy(pcs)') = Cardinality(Busy(pcs)) - 1
    <2>1. Busy(pcs)' = Busy(pcs) \ {c} /\ c \in Busy(pcs)
      BY <1>5 DEF Busy
    <2> QED
      BY <1>3, <2>1, FS_RemoveElement
  <1>6. ASSUME client[c].pc \in pcs <=> client'[c].pc \in pcs
        PROVE  Cardinality(Busy(pcs)') = Cardinality(Busy(pcs))
    <2>1. Busy(pcs)' = Busy(pcs)
      BY <1>6 DEF Busy
    <2> QED
      BY <2>1
  <1> QED
    BY <1>3, <1>4, <1>5, <1>6

\* The counters that CountersBalance relates are numbers.
LEMMA CounterNumbers ==
    ASSUME KissInv
    PROVE  /\ counters \in QueueCounters /\ ingress \in IngressCounters
           /\ Len(queue) \in Nat
           /\ counters.accepted \in Nat /\ counters.invalid \in Nat
           /\ counters.full \in Nat /\ counters.dispatched \in Nat
           /\ counters.timedOut \in Nat /\ counters.failed \in Nat
           /\ ingress.received \in Nat /\ ingress.admitted \in Nat
           /\ ingress.invalid \in Nat /\ ingress.full \in Nat
           /\ ingress.time \in Nat
  BY DEF KissInv, TypeOK, QueueCounters, IngressCounters

\* A step of the worker ends a request and counts it, or does neither.
LEMMA WorkerBalance ==
    ASSUME KissInv, CountersBalance,
           \/ ObserveExpired \/ Observe \/ ObserveRaises
           \/ SubmitReturns \/ SubmitRaises
    PROVE  CountersBalance'
  <1>1. UNCHANGED <<client, ingress>>
    BY DEF ObserveExpired, Observe, ObserveRaises, SubmitReturns, SubmitRaises
  <1>2. queue \in Seq(Requests) /\ queue # <<>>
    BY DEF KissInv, TypeOK, WorkerInv, ObserveExpired, Observe, ObserveRaises,
           SubmitReturns, SubmitRaises
  <1>3. \/ Len(queue') = Len(queue) /\ counters' = counters
        \/ /\ Len(queue') = Len(queue) - 1
           /\ \/ counters' = [counters EXCEPT !.timedOut = @ + 1]
              \/ counters' = [counters EXCEPT !.dispatched = @ + 1]
              \/ counters' = [counters EXCEPT !.failed = @ + 1]
    <2>1. Len(Tail(queue)) = Len(queue) - 1
      BY <1>2
    <2>2. ASSUME NEW b PROVE Len([queue EXCEPT ![1].attempt = b]) = Len(queue)
      BY <1>2
    <2>3. CASE ObserveExpired \/ SubmitReturns \/ SubmitRaises
      BY <2>1, <2>3 DEF ObserveExpired, SubmitReturns, SubmitRaises, Finish
    <2>4. CASE ObserveRaises
      BY <2>2, <2>4 DEF ObserveRaises
    <2>5. CASE Observe
      BY <2>1, <2>2, <2>5 DEF Observe, Finish, Advanced
    <2> QED
      BY <2>3, <2>4, <2>5
  <1>4. counters'.accepted = Len(queue') + counters'.dispatched
                                + counters'.timedOut + counters'.failed
    <2> DEFINE len == Len(queue)
               accepted == counters.accepted
               sent == counters.dispatched
               late == counters.timedOut
               failed == counters.failed
    <2>1. /\ len \in Nat /\ sent \in Nat /\ late \in Nat /\ failed \in Nat
          /\ accepted = len + sent + late + failed
      BY CounterNumbers DEF CountersBalance
    <2>2. /\ accepted' = accepted
          /\ \/ len' = len /\ UNCHANGED <<sent, late, failed>>
             \/ /\ len' = len - 1
                /\ \/ late' = late + 1 /\ UNCHANGED <<sent, failed>>
                   \/ sent' = sent + 1 /\ UNCHANGED <<late, failed>>
                   \/ failed' = failed + 1 /\ UNCHANGED <<sent, late>>
      BY <1>3, CounterNumbers DEF QueueCounters
    <2> SUFFICES accepted' = len' + sent' + late' + failed'
      OBVIOUS
    <2> HIDE DEF len, accepted, sent, late, failed
    <2> QED
      BY <2>1, <2>2
  <1>5. /\ counters'.accepted = counters.accepted
        /\ counters'.invalid = counters.invalid
        /\ counters'.full = counters.full
    BY <1>3, CounterNumbers DEF QueueCounters
  <1> QED
    BY <1>1, <1>4, <1>5 DEF CountersBalance, Busy

\* A connection's step moves its message from one place to the next.
LEMMA ConnectionBalance ==
    ASSUME KissInv, CountersBalance, NEW c \in Connections,
           \/ Data(c)
           \/ \E valid \in BOOLEAN : Enqueue(c, valid)
           \/ CountVerdict(c)
    PROVE  CountersBalance'
  <1> DEFINE inHands == Cardinality(Busy({"captured", "verdict"}))
             judged == Cardinality(Busy({"verdict"}))
             len == Len(queue)
             accepted == counters.accepted
             invalid == counters.invalid
             full == counters.full
             sent == counters.dispatched
             late == counters.timedOut
             failed == counters.failed
             received == ingress.received
             counted == ingress.admitted
             refused == ingress.invalid
             shed == ingress.full
             early == ingress.time
  <1> USE DEF queueVars
  <1>1. /\ client \in [Connections -> Clients] /\ queue \in Seq(Requests)
        /\ now \in Nat /\ lastNow \in Nat /\ lastNow <= now
        /\ counters \in QueueCounters /\ ingress \in IngressCounters
    BY DEF KissInv, TypeOK, ClockInv, Time
  <1>2. inHands \in Nat /\ judged \in Nat
    <2>1. \A pcs : Busy(pcs) \subseteq Connections
      BY DEF Busy
    <2> QED
      BY <2>1, KissDataPathAssumption, FS_Subset, FS_CardinalityType
  <1>3. /\ len \in Nat /\ accepted \in Nat /\ invalid \in Nat
        /\ full \in Nat /\ sent \in Nat /\ late \in Nat /\ failed \in Nat
        /\ received \in Nat /\ counted \in Nat /\ refused \in Nat
        /\ shed \in Nat /\ early \in Nat
    BY CounterNumbers
  <1>4. /\ accepted = len + sent + late + failed
        /\ received = counted + refused + shed + early + inHands
        /\ accepted + invalid + full = counted + refused + shed + judged
    BY DEF CountersBalance
  <1> SUFFICES
        /\ accepted' = len' + sent' + late' + failed'
        /\ received' = counted' + refused' + shed' + early' + inHands'
        /\ accepted' + invalid' + full' = counted' + refused' + shed' + judged'
    BY DEF CountersBalance
  <1>5. CASE Data(c)
    <2>1. /\ client[c].pc = "idle" /\ client'[c].pc = "captured"
          /\ \A d \in Connections : d # c => client'[d] = client[d]
      BY <1>1, <1>5 DEF Data, Clients
    <2>2. inHands' = inHands + 1 /\ judged' = judged
      BY <2>1, BusyChanges
    <2>3. /\ received' = received + 1
          /\ UNCHANGED <<counted, refused, shed, early>>
          /\ UNCHANGED <<len, accepted, invalid, full, sent, late, failed>>
      BY <1>1, <1>5 DEF Data, IngressCounters
    <2> HIDE DEF inHands, judged, len, accepted, invalid, full, sent, late,
                 failed, received, counted, refused, shed, early
    <2> QED
      BY <1>2, <1>3, <1>4, <2>2, <2>3
  <1>6. CASE \E valid \in BOOLEAN : Enqueue(c, valid)
    <2>0. PICK valid \in BOOLEAN : Enqueue(c, valid)
      BY <1>6
    <2>1. /\ client[c].pc = "captured" /\ client'[c].pc = "verdict"
          /\ \A d \in Connections : d # c => client'[d] = client[d]
      BY <1>1, <2>0 DEF Enqueue, Clients
    <2>2. inHands' = inHands /\ judged' = judged + 1
      BY <2>1, BusyChanges
    <2>3. ~(SerializedNow(c) < lastNow)
      BY <1>1 DEF SerializedNow
    <2>4. \/ /\ queue' = Append(queue, NewRequest(c, now))
             /\ counters' = [counters EXCEPT !.accepted = @ + 1]
          \/ queue' = queue /\ counters' = [counters EXCEPT !.invalid = @ + 1]
          \/ queue' = queue /\ counters' = [counters EXCEPT !.full = @ + 1]
      <3> DEFINE verdict == IF ~valid THEN "invalid"
                            ELSE IF Len(queue) >= Capacity THEN "full"
                            ELSE "admitted"
      <3>1. /\ queue' = IF verdict = "admitted"
                        THEN Append(queue, NewRequest(c, now)) ELSE queue
            /\ counters' = [counters EXCEPT
                 !.accepted = IF verdict = "admitted" THEN @ + 1 ELSE @,
                 !.invalid = IF verdict = "invalid" THEN @ + 1 ELSE @,
                 !.full = IF verdict = "full" THEN @ + 1 ELSE @]
        BY <2>0, <2>3 DEF Enqueue, SerializedNow
      <3>2. verdict \in {"admitted", "invalid", "full"}
        OBVIOUS
      <3> HIDE DEF verdict
      <3> QED
        BY <1>1, <3>1, <3>2 DEF QueueCounters
    <2>5. \/ Len(queue') = Len(queue) + 1
             /\ counters' = [counters EXCEPT !.accepted = @ + 1]
          \/ queue' = queue /\ counters' = [counters EXCEPT !.invalid = @ + 1]
          \/ queue' = queue /\ counters' = [counters EXCEPT !.full = @ + 1]
      BY <1>1, <2>4
    <2>6. /\ UNCHANGED <<sent, late, failed>>
          /\ \/ /\ accepted' = accepted + 1 /\ len' = len + 1
                /\ UNCHANGED <<invalid, full>>
             \/ invalid' = invalid + 1 /\ UNCHANGED <<accepted, len, full>>
             \/ full' = full + 1 /\ UNCHANGED <<accepted, len, invalid>>
      BY <1>1, <2>5 DEF QueueCounters
    <2>7. UNCHANGED <<received, counted, refused, shed, early>>
      BY <2>0 DEF Enqueue
    <2> HIDE DEF inHands, judged, len, accepted, invalid, full, sent, late,
                 failed, received, counted, refused, shed, early
    <2>8. accepted' = len' + sent' + late' + failed'
      BY <1>3, <1>4, <2>6
    <2>9. accepted' + invalid' + full' = accepted + invalid + full + 1
      BY <1>3, <2>6
    <2>10. received' = counted' + refused' + shed' + early' + inHands'
      BY <1>4, <2>2, <2>7
    <2>11. accepted' + invalid' + full' = counted' + refused' + shed' + judged'
      BY <1>2, <1>3, <1>4, <2>2, <2>7, <2>9
    <2> QED
      BY <2>8, <2>10, <2>11
  <1>7. CASE CountVerdict(c)
    <2>1. /\ client[c].pc = "verdict" /\ client'[c].pc = "idle"
          /\ \A d \in Connections : d # c => client'[d] = client[d]
      BY <1>1, <1>7 DEF CountVerdict, Clients
    <2>2. inHands' = inHands - 1 /\ judged' = judged - 1
      BY <2>1, BusyChanges
    <2>3. client[c].verdict \in {"admitted", "invalid", "full"}
      BY <2>1 DEF KissInv, VerdictInv, NoTimeRejection
    <2>4. \/ ingress' = [ingress EXCEPT !.admitted = @ + 1]
          \/ ingress' = [ingress EXCEPT !.invalid = @ + 1]
          \/ ingress' = [ingress EXCEPT !.full = @ + 1]
      BY <1>7, <2>3 DEF CountVerdict
    <2>5. /\ UNCHANGED <<received, early>>
          /\ \/ counted' = counted + 1 /\ UNCHANGED <<refused, shed>>
             \/ refused' = refused + 1 /\ UNCHANGED <<counted, shed>>
             \/ shed' = shed + 1 /\ UNCHANGED <<counted, refused>>
      BY <1>1, <2>4 DEF IngressCounters
    <2>6. UNCHANGED <<len, accepted, invalid, full, sent, late, failed>>
      BY <1>7 DEF CountVerdict
    <2> HIDE DEF inHands, judged, len, accepted, invalid, full, sent, late,
                 failed, received, counted, refused, shed, early
    <2> QED
      BY <1>2, <1>3, <1>4, <2>2, <2>5, <2>6
  <1> QED
    BY <1>5, <1>6, <1>7

\* No message and no request is lost or counted twice, whatever the number of
\* connections.
THEOREM CountersAlwaysBalance == Spec => []CountersBalance
  <1>1. Init => CountersBalance
    <2> SUFFICES ASSUME Init PROVE CountersBalance
      OBVIOUS
    <2>1. Busy({"captured", "verdict"}) = {} /\ Busy({"verdict"}) = {}
      BY DEF Init, Busy
    <2>2. Cardinality({}) = 0
      BY FS_EmptySet
    <2>3. Len(queue) = 0
      BY DEF Init
    <2>4. /\ counters.accepted = 0 /\ counters.invalid = 0
          /\ counters.full = 0 /\ counters.dispatched = 0
          /\ counters.timedOut = 0 /\ counters.failed = 0
          /\ ingress.received = 0 /\ ingress.admitted = 0
          /\ ingress.invalid = 0 /\ ingress.full = 0 /\ ingress.time = 0
      BY DEF Init
    <2> DEFINE inHands == Cardinality(Busy({"captured", "verdict"}))
               judged == Cardinality(Busy({"verdict"}))
    <2>5. inHands = 0 /\ judged = 0
      BY <2>1, <2>2
    <2> SUFFICES
          /\ counters.accepted = Len(queue) + counters.dispatched
                                   + counters.timedOut + counters.failed
          /\ ingress.received = ingress.admitted + ingress.invalid
                                   + ingress.full + ingress.time + inHands
          /\ counters.accepted + counters.invalid + counters.full
                = ingress.admitted + ingress.invalid + ingress.full + judged
      BY DEF CountersBalance
    <2> HIDE DEF inHands, judged
    <2> QED
      BY <2>3, <2>4, <2>5
  <1>2. KissInv /\ CountersBalance /\ [Next]_vars => CountersBalance'
    <2> SUFFICES ASSUME KissInv, CountersBalance, [Next]_vars
                 PROVE  CountersBalance'
      OBVIOUS
    <2>1. CASE Tick \/ WorkerFails \/ \E raw \in RawSamples : Sample(raw)
      BY <2>1
      DEF Tick, WorkerFails, Sample, queueVars, CountersBalance, Busy
    <2>2. ASSUME NEW c \in Connections, NEW m \in Controls, Control(c, m)
          PROVE  CountersBalance'
      <3>1. client \in [Connections -> Clients]
        BY DEF KissInv, TypeOK
      <3>2. \A d \in Connections : client'[d].pc = client[d].pc
        BY <2>2, <3>1 DEF Control, Clients
      <3>3. /\ Busy({"captured", "verdict"})' = Busy({"captured", "verdict"})
            /\ Busy({"verdict"})' = Busy({"verdict"})
        BY <3>2 DEF Busy
      <3> QED
        BY <2>2, <3>3 DEF Control, queueVars, CountersBalance
    <2>3. CASE UNCHANGED vars
      BY <2>3 DEF vars, CountersBalance, Busy
    <2> QED
      BY <2>1, <2>2, <2>3, WorkerBalance, ConnectionBalance DEF Next
  <1> QED
    BY <1>1, <1>2, KissInvariant, PTL DEF Spec

-----------------------------------------------------------------------------
(***************************************************************************)
(* The queue implements RequestService                                     *)
(***************************************************************************)

\* The ids of the requests in a queue, which is what the service sees of it.
Ids(q) == [i \in 1..Len(q) |-> q[i].id]

LEMMA IdsProperties ==
    ASSUME NEW q \in Seq(Requests)
    PROVE  /\ Ids(q) \in Seq(Nat \ {0}) /\ Len(Ids(q)) = Len(q)
           /\ \A i \in 1..Len(q) : Ids(q)[i] = q[i].id
           /\ \A r \in Requests : Ids(Append(q, r)) = Append(Ids(q), r.id)
           /\ q # <<>> => /\ Ids(q) # <<>> /\ Head(Ids(q)) = Head(q).id
                          /\ Ids(Tail(q)) = Tail(Ids(q))
  <1>1. \A i \in 1..Len(q) : q[i].id \in Nat \ {0}
    <2>1. \A i \in 1..Len(q) : q[i] \in Requests
      OBVIOUS
    <2> QED
      BY <2>1 DEF Requests
  <1>2. Ids(q) \in Seq(Nat \ {0}) /\ Len(Ids(q)) = Len(q)
    BY <1>1 DEF Ids
  <1>3. \A i \in 1..Len(q) : Ids(q)[i] = q[i].id
    BY DEF Ids
  <1>4. ASSUME NEW r \in Requests
        PROVE  Ids(Append(q, r)) = Append(Ids(q), r.id)
    <2>1. /\ Append(q, r) \in Seq(Requests) /\ Len(Append(q, r)) = Len(q) + 1
          /\ \A i \in 1..Len(q) : Append(q, r)[i] = q[i]
          /\ Append(q, r)[Len(q) + 1] = r
      BY AppendProperties
    <2>2. r.id \in Nat \ {0}
      BY DEF Requests
    <2>3. /\ Append(Ids(q), r.id) \in Seq(Nat \ {0})
          /\ Len(Append(Ids(q), r.id)) = Len(q) + 1
          /\ \A i \in 1..Len(q) : Append(Ids(q), r.id)[i] = Ids(q)[i]
          /\ Append(Ids(q), r.id)[Len(q) + 1] = r.id
      BY <1>2, <2>2, AppendProperties
    <2>4. /\ Ids(Append(q, r)) \in Seq(Nat \ {0})
          /\ Len(Ids(Append(q, r))) = Len(q) + 1
      <3>1. \A i \in 1..(Len(q) + 1) : Append(q, r)[i] \in Requests
        BY <2>1
      <3>2. \A i \in 1..(Len(q) + 1) : Append(q, r)[i].id \in Nat \ {0}
        BY <3>1 DEF Requests
      <3> QED
        BY <2>1, <3>2 DEF Ids
    <2>5. ASSUME NEW i \in 1..(Len(q) + 1)
          PROVE  Ids(Append(q, r))[i] = Append(Ids(q), r.id)[i]
      <3>1. Ids(Append(q, r))[i] = Append(q, r)[i].id
        BY <2>1 DEF Ids
      <3>2. i \in 1..Len(q) \/ i = Len(q) + 1
        OBVIOUS
      <3> QED
        BY <1>3, <2>1, <2>3, <3>1, <3>2
    <2> QED
      BY <2>3, <2>4, <2>5, SeqEqual
  <1>5. ASSUME q # <<>>
        PROVE  /\ Ids(q) # <<>> /\ Head(Ids(q)) = Head(q).id
               /\ Ids(Tail(q)) = Tail(Ids(q))
    <2>1. /\ Len(q) \in Nat \ {0} /\ 1 \in 1..Len(q) /\ Head(q) = q[1]
          /\ Tail(q) \in Seq(Requests) /\ Len(Tail(q)) = Len(q) - 1
          /\ \A i \in 1..(Len(q) - 1) : Tail(q)[i] = q[i + 1]
      BY <1>5
    <2>2. Ids(q) # <<>> /\ Head(Ids(q)) = Head(q).id
      BY <1>2, <1>3, <2>1
    <2>3. /\ Tail(Ids(q)) \in Seq(Nat \ {0}) /\ Len(Tail(Ids(q))) = Len(q) - 1
          /\ \A i \in 1..(Len(q) - 1) : Tail(Ids(q))[i] = Ids(q)[i + 1]
      BY <1>2, <2>1, <2>2
    <2>4. /\ Ids(Tail(q)) \in Seq(Nat \ {0})
          /\ Len(Ids(Tail(q))) = Len(q) - 1
      <3>1. \A i \in 1..(Len(q) - 1) : Tail(q)[i] \in Requests
        BY <2>1
      <3>2. \A i \in 1..(Len(q) - 1) : Tail(q)[i].id \in Nat \ {0}
        BY <3>1 DEF Requests
      <3>3. Len(q) - 1 \in Nat
        BY <2>1
      <3> QED
        BY <2>1, <3>2, <3>3 DEF Ids
    <2>5. ASSUME NEW i \in 1..(Len(q) - 1)
          PROVE  Ids(Tail(q))[i] = Tail(Ids(q))[i]
      <3>1. i + 1 \in 1..Len(q)
        BY <2>1
      <3>2. Ids(Tail(q))[i] = Tail(q)[i].id
        BY <2>1 DEF Ids
      <3> QED
        BY <1>3, <2>1, <2>3, <3>1, <3>2
    <2> QED
      BY <2>2, <2>3, <2>4, <2>5, SeqEqual
  <1> QED
    BY <1>2, <1>3, <1>4, <1>5

\* What the service sees of a state: the substitution of Service.
Waiting == Ids(queue)
OnAir == IF worker.pc = "submitting" THEN Head(queue).id ELSE 0
Halted == worker.pc = "failed"

LEMMA ServiceSees ==
    ASSUME KissInv
    PROVE  /\ Waiting \in Seq(Nat \ {0}) /\ Len(Waiting) = Len(queue)
           /\ queue # <<>> => /\ Waiting # <<>> /\ Head(Waiting) = Head(queue).id
                              /\ Head(queue).id \in Nat \ {0}
                              /\ Ids(Tail(queue)) = Tail(Waiting)
  <1>1. queue \in Seq(Requests)
    BY DEF KissInv, TypeOK
  <1>2. queue # <<>> => Head(queue).id \in Nat \ {0}
    <2>1. queue # <<>> => Head(queue) \in Requests
      BY <1>1
    <2> QED
      BY <2>1 DEF Requests
  <1> QED
    BY <1>1, <1>2, IdsProperties DEF Waiting

\* A step that leaves the queue, the log and the phase of the worker alone.
LEMMA ServiceStutters ==
    ASSUME UNCHANGED <<queue, log, worker>>
    PROVE  UNCHANGED <<Waiting, OnAir, log, Halted>>
  BY DEF Waiting, OnAir, Halted, Ids

\* enqueue admits the next id, or changes nothing the service sees.
LEMMA EnqueueAdmits ==
    ASSUME KissInv, NEW c \in Connections, NEW valid \in BOOLEAN,
           Enqueue(c, valid)
    PROVE  \/ UNCHANGED <<Waiting, OnAir, log, Halted>>
           \/ /\ Len(Waiting) < Capacity
              /\ Waiting' = Append(Waiting, Len(log) + Len(Waiting) + 1)
              /\ UNCHANGED <<OnAir, log, Halted>>
  <1>1. /\ queue \in Seq(Requests) /\ Len(queue) \in Nat /\ Capacity \in Nat
        /\ counters.accepted = Len(log) + Len(queue)
        /\ UNCHANGED <<worker, log>> /\ worker.pc # "submitting"
    BY KissDataPathAssumption
    DEF KissInv, TypeOK, IdInv, Enqueue, QueueLocked
  <1>2. UNCHANGED <<OnAir, log, Halted>>
    BY <1>1 DEF OnAir, Halted
  <1>3. \/ queue' = queue
        \/ /\ queue' = Append(queue, NewRequest(c, SerializedNow(c)))
           /\ ~(Len(queue) >= Capacity)
    BY DEF Enqueue
  <1>4. CASE queue' = queue
    BY <1>2, <1>4 DEF Waiting
  <1>5. CASE /\ queue' = Append(queue, NewRequest(c, SerializedNow(c)))
             /\ ~(Len(queue) >= Capacity)
    <2> DEFINE r == NewRequest(c, SerializedNow(c))
    <2>1. r \in Requests
      <3>1. /\ client[c] \in Clients /\ counters \in QueueCounters
            /\ now \in Nat /\ RequestTimeout \in Nat
        BY KissDataPathAssumption DEF KissInv, TypeOK, Time
      <3>2. /\ counters.accepted + 1 \in Nat \ {0}
            /\ now + RequestTimeout \in Time
            /\ client[c].context \in Snapshots /\ client[c].own \in Nat
        BY <3>1 DEF QueueCounters, Clients, Time
      <3> QED
        BY <3>2 DEF NewRequest, SerializedNow, Requests
    <2>2. r.id = Len(log) + Len(queue) + 1
      BY <1>1 DEF NewRequest
    <2> HIDE DEF r
    <2>3. Waiting' = Append(Waiting, r.id) /\ Len(Waiting) = Len(queue)
      BY <1>1, <1>5, <2>1, IdsProperties DEF Waiting, r
    <2> QED
      BY <1>1, <1>2, <1>5, <2>2, <2>3
  <1> QED
    BY <1>3, <1>4, <1>5

\* The head ends: the service's End.
LEMMA FinishEnds ==
    ASSUME KissInv, queue # <<>>, NEW verdict, Finish(verdict)
    PROVE  /\ Waiting # <<>>
           /\ Waiting' = Tail(Waiting)
           /\ log' = Append(log, <<Head(Waiting), verdict>>)
  BY ServiceSees DEF Finish, Waiting

\* An observation that advances the head does not change the ids.
LEMMA AdvanceKeepsIds ==
    ASSUME KissInv, queue # <<>>, NEW b, queue' = [queue EXCEPT ![1].attempt = b]
    PROVE  Waiting' = Waiting /\ Head(queue').id = Head(queue).id
  <1>1. queue \in Seq(Requests) /\ 1 \in 1..Len(queue)
    BY DEF KissInv, TypeOK
  <1>2. queue[1] \in Requests
    BY <1>1
  <1>3. /\ Len(queue') = Len(queue)
        /\ \A i \in 1..Len(queue) : queue'[i].id = queue[i].id
    BY <1>1, <1>2 DEF Requests
  <1>4. Waiting' = Waiting
    BY <1>3 DEF Waiting, Ids
  <1>5. Head(queue') = queue'[1] /\ Head(queue) = queue[1]
    BY <1>1
  <1> QED
    BY <1>1, <1>3, <1>4, <1>5

\* The service's actions, under the substitution.
LEMMA ServiceActions ==
    /\ Service!Admit <=> /\ Len(Waiting) < Capacity
                         /\ Waiting' = Append(Waiting,
                                              Len(log) + Len(Waiting) + 1)
                         /\ UNCHANGED <<OnAir, log, Halted>>
    /\ Service!Expire <=> /\ Waiting # <<>> /\ OnAir = 0 /\ ~Halted
                          /\ Waiting' = Tail(Waiting)
                          /\ log' = Append(log, <<Head(Waiting), "timed-out">>)
                          /\ UNCHANGED <<OnAir, Halted>>
    /\ Service!Transmit <=> /\ Waiting # <<>> /\ OnAir = 0 /\ ~Halted
                            /\ OnAir' = Head(Waiting)
                            /\ UNCHANGED <<Waiting, log, Halted>>
    /\ Service!TransmitSucceeds <=>
          /\ OnAir # 0 /\ Waiting' = Tail(Waiting)
          /\ log' = Append(log, <<Head(Waiting), "dispatched">>)
          /\ OnAir' = 0 /\ UNCHANGED Halted
    /\ Service!TransmitFails <=>
          /\ OnAir # 0 /\ Waiting' = Tail(Waiting)
          /\ log' = Append(log, <<Head(Waiting), "downstream-failed">>)
          /\ OnAir' = 0 /\ Halted' = TRUE
    /\ Service!Halt <=> /\ OnAir = 0 /\ Halted' = TRUE
                        /\ UNCHANGED <<Waiting, OnAir, log>>
    /\ Service!Next <=> \/ Service!Admit \/ Service!Expire
                        \/ Service!Transmit \/ Service!TransmitSucceeds
                        \/ Service!TransmitFails \/ Service!Halt
  BY DEF Service!Admit, Service!NextId, Service!Expire, Service!Transmit,
         Service!TransmitSucceeds, Service!TransmitFails, Service!Halt,
         Service!End, Service!Next, Waiting, Ids, OnAir, Halted

\* The worker's steps are steps of the service.
LEMMA WorkerServes ==
    ASSUME KissInv,
           \/ WorkerFails \/ ObserveExpired \/ Observe \/ ObserveRaises
           \/ SubmitReturns \/ SubmitRaises
    PROVE  Service!Next \/ UNCHANGED <<Waiting, OnAir, log, Halted>>
  <1>1. CASE WorkerFails
    <2>1. OnAir = 0 /\ Halted' = TRUE /\ UNCHANGED <<Waiting, OnAir, log>>
      BY <1>1 DEF WorkerFails, queueVars, OnAir, Halted, Waiting, Ids
    <2> QED
      BY <2>1, ServiceActions
  <1>2. CASE ObserveExpired
    <2>1. queue # <<>> /\ worker.pc = "sampled" /\ worker'.pc = "loop"
          /\ Finish("timed-out")
      BY <1>2 DEF ObserveExpired, KissInv, WorkerInv
    <2>2. OnAir = 0 /\ ~Halted /\ UNCHANGED <<OnAir, Halted>>
      BY <2>1 DEF OnAir, Halted
    <2> QED
      BY <2>1, <2>2, FinishEnds, ServiceActions
  <1>3. CASE Observe
    <2>1. /\ queue # <<>> /\ worker.pc = "sampled"
          /\ queue \in Seq(Requests) /\ 1 \in 1..Len(queue)
      BY <1>3 DEF Observe, KissInv, WorkerInv, TypeOK
    <2>2. OnAir = 0 /\ ~Halted
      BY <2>1 DEF OnAir, Halted
    <2>3. PICK pc \in {"loop", "submitting"} :
              /\ worker' = [pc |-> pc, raw |-> 0]
              /\ \/ pc = "loop" /\ Finish("timed-out")
                 \/ /\ \E b : queue' = [queue EXCEPT ![1].attempt = b]
                    /\ UNCHANGED log
      <3> DEFINE a == HeadAttempt(Head(queue), now)
      <3>1. PICK random \in Draws(a, now, worker.raw) :
                LET advanced == Advanced(a, now, random)
                    state == advanced[1].attempt.csma.state
                IN  /\ worker' = [pc |-> IF state = "ready"
                                         THEN "submitting" ELSE "loop",
                                  raw |-> 0]
                    /\ IF state = "timed-out"
                       THEN /\ Finish("timed-out")
                            /\ counters' = [counters EXCEPT !.timedOut = @ + 1]
                       ELSE /\ queue' = advanced
                            /\ UNCHANGED <<log, counters>>
        BY <1>3 DEF Observe
      <3> DEFINE state == Advanced(a, now, random)[1].attempt.csma.state
      <3>2. /\ worker' = [pc |-> IF state = "ready"
                                 THEN "submitting" ELSE "loop",
                          raw |-> 0]
            /\ \/ state = "timed-out" /\ Finish("timed-out")
               \/ queue' = Advanced(a, now, random) /\ UNCHANGED log
        BY <3>1
      <3> HIDE DEF state
      <3> QED
        BY <3>2 DEF Advanced
    <2>4. CASE pc = "loop" /\ Finish("timed-out")
      <3>1. UNCHANGED <<OnAir, Halted>>
        BY <2>1, <2>3, <2>4 DEF OnAir, Halted
      <3> QED
        BY <2>1, <2>2, <2>4, <3>1, FinishEnds, ServiceActions
    <2>5. CASE /\ \E b : queue' = [queue EXCEPT ![1].attempt = b]
               /\ UNCHANGED log
      <3>1. Waiting' = Waiting /\ Head(queue').id = Head(queue).id
        BY <2>1, <2>5, AdvanceKeepsIds
      <3>2. /\ ~Halted' /\ Halted' \in BOOLEAN /\ Halted \in BOOLEAN
            /\ OnAir' = IF pc = "submitting" THEN Head(queue').id ELSE 0
        BY <2>3 DEF OnAir, Halted
      <3>3. Waiting # <<>> /\ Head(Waiting) = Head(queue).id
        BY <2>1, ServiceSees
      <3> QED
        BY <2>2, <2>5, <3>1, <3>2, <3>3, ServiceActions
    <2> QED
      BY <2>3, <2>4, <2>5
  <1>4. CASE ObserveRaises
    <2>1. queue # <<>> /\ worker.pc = "sampled" /\ worker'.pc = "failed"
          /\ UNCHANGED log
      BY <1>4 DEF ObserveRaises, KissInv, WorkerInv
    <2>2. Waiting' = Waiting
      BY <1>4, <2>1, AdvanceKeepsIds DEF ObserveRaises
    <2>3. OnAir = 0 /\ OnAir' = 0 /\ Halted' = TRUE
      BY <2>1 DEF OnAir, Halted
    <2> QED
      BY <2>1, <2>2, <2>3, ServiceActions
  <1>5. CASE SubmitReturns
    <2>1. queue # <<>> /\ worker.pc = "submitting" /\ worker'.pc = "loop"
          /\ Finish("dispatched")
      BY <1>5 DEF SubmitReturns, KissInv, WorkerInv
    <2>2. OnAir # 0 /\ OnAir' = 0 /\ UNCHANGED Halted
      BY <2>1, ServiceSees DEF OnAir, Halted
    <2> QED
      BY <2>1, <2>2, FinishEnds, ServiceActions
  <1>6. CASE SubmitRaises
    <2>1. queue # <<>> /\ worker.pc = "submitting" /\ worker'.pc = "failed"
          /\ Finish("downstream-failed")
      BY <1>6 DEF SubmitRaises, KissInv, WorkerInv
    <2>2. OnAir # 0 /\ OnAir' = 0 /\ Halted' = TRUE
      BY <2>1, ServiceSees DEF OnAir, Halted
    <2> QED
      BY <2>1, <2>2, FinishEnds, ServiceActions
  <1> QED
    BY <1>1, <1>2, <1>3, <1>4, <1>5, <1>6

\* Every step of the queue is a step of the service, or none.
LEMMA ServiceStep ==
    ASSUME KissInv, [Next]_vars
    PROVE  Service!Next \/ UNCHANGED <<Waiting, OnAir, log, Halted>>
  <1>1. CASE \/ Tick
             \/ \E c \in Connections, m \in Controls : Control(c, m)
             \/ \E c \in Connections : Data(c)
             \/ \E c \in Connections : CountVerdict(c)
             \/ UNCHANGED vars
    <2>1. UNCHANGED <<queue, log, worker>>
      BY <1>1 DEF Tick, Control, Data, CountVerdict, queueVars, vars
    <2> QED
      BY <2>1, ServiceStutters
  <1>2. ASSUME NEW c \in Connections, NEW valid \in BOOLEAN, Enqueue(c, valid)
        PROVE  Service!Next \/ UNCHANGED <<Waiting, OnAir, log, Halted>>
    BY <1>2, EnqueueAdmits, ServiceActions
  <1>3. ASSUME NEW raw \in RawSamples, Sample(raw)
        PROVE  UNCHANGED <<Waiting, OnAir, log, Halted>>
    BY <1>3 DEF Sample, queueVars, Waiting, Ids, OnAir, Halted
  <1> QED
    BY <1>1, <1>2, <1>3, WorkerServes DEF Next

\* The queue with its threads, clock and channel access implements the
\* abstract service: FIFO, bounded, at most one call per request, one end per
\* request, and no call after a failure.
THEOREM ServiceImplemented == Spec => ImplementsService
  <1>1. Init => Service!Init
    BY DEF Init, Service!Init
  <1>2. KissInv /\ [Next]_vars => [Service!Next]_(Service!vars)
    <2>1. UNCHANGED <<Waiting, OnAir, log, Halted>> => UNCHANGED Service!vars
      BY DEF Service!vars, Waiting, Ids, OnAir, Halted
    <2> QED
      BY <2>1, ServiceStep
  <1> QED
    BY <1>1, <1>2, KissInvariant, PTL DEF Spec, ImplementsService, Service!Spec
=============================================================================
