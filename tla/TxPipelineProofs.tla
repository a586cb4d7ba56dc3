-------------------------- MODULE TxPipelineProofs --------------------------
(***************************************************************************)
(* The transmit cycle, for any number of frames, every timeout and every   *)
(* loss on the line: what a cycle that ended without latching leaves, when *)
(* RX is restarted, which frames the firmware may send, and what the       *)
(* caller is told of them.                                                 *)
(***************************************************************************)
EXTENDS TxPipeline, TLAPS, SequenceTheorems, FiniteSetTheorems

-----------------------------------------------------------------------------
(***************************************************************************)
(* The inductive invariant                                                 *)
(***************************************************************************)

\* The types, but for the length of the owner's queue.
Waits == [on : BOOLEAN, age : Nat, answer : Answers]
Lives == [pc : LifePcs, frame : Nat, failing : BOOLEAN, remain : BOOLEAN,
          waited : Nat, idleAge : Nat, latched : BOOLEAN]
Brokers == [pc : {"idle", "posted", "preflight", "burst"}, frame : Nat,
            live : BOOLEAN, result : {"none", "ok", "error"}]
Servings == [call : Calls \cup {NoCall}, age : 0..(2 * T)]
Outcomes == {"complete", "recovered", "handoff", "latched"}
Types ==
    /\ modem \in Modems
    /\ inbox \in Seq(Requests) /\ line \in Seq(Replies) /\ calls \in Seq(Calls)
    /\ serving \in Servings
    /\ waits \in [Callers -> Waits]
    /\ life \in Lives /\ broker \in Brokers
    /\ outcomes \in Seq(Outcomes) /\ aired \in Seq(Nat)

\* A burst waits in a queue of calls or of requests, once and for this frame.
BurstIn(s) == \E i \in 1..Len(s) : s[i].op = "tx_burst"
OneBurst(s) ==
    \A i, j \in 1..Len(s) : s[i].op = "tx_burst" /\ s[j].op = "tx_burst" => i = j
BurstOf(s, frame) ==
    \A i \in 1..Len(s) : s[i].op = "tx_burst" => s[i].frame = frame

\* A reply accepted a burst; a frame was sent; none was sent twice.
AckIn(s) == \E i \in 1..Len(s) : s[i].kind = "ack_rf"
SentIn(s, frame) == \E i \in 1..Len(s) : s[i] = frame
Distinct(s) == \A i, j \in 1..Len(s) : s[i] = s[j] => i = j
Sent(frame) == SentIn(aired, frame)

\* The places where the lifecycle waits for a call, and the call.
Calling == {"before", "stop", "after", "status", "diag", "start", "verify"}
Early == {"before", "stop", "after"}

LifeOp(pc) ==
    CASE pc \in {"before", "after", "verify"} -> "rx_status"
      [] pc = "stop" -> "rx_stop"
      [] pc = "start" -> "rx_start"
      [] pc = "status" -> "rf_status"
      [] pc = "diag" -> "rf_diag"
BrokerOp(pc) == IF pc = "preflight" THEN "rf_status" ELSE "tx_burst"

\* The lifecycle can still end well.
Going == ~life.latched /\ LifeAnswer # Failure

\* The owner has at most one call of each caller, b and l or NoCall, and
\* serves the broker's first.
Queue(b, l) ==
    IF b = NoCall THEN IF l = NoCall THEN <<>> ELSE <<l>>
    ELSE IF l = NoCall THEN <<b>> ELSE <<b, l>>
Holds(b, l) ==
    /\ b \in Calls \cup {NoCall} /\ l \in Calls \cup {NoCall}
    /\ b # NoCall => b.by = "broker"
    /\ l # NoCall => l.by = "life"
    /\ \/ serving.call = NoCall /\ calls = Queue(b, l)
       \/ serving.call = b /\ b # NoCall /\ calls = Queue(NoCall, l)
       \/ serving.call = l /\ b = NoCall /\ l # NoCall /\ calls = <<>>

\* The broker, or its submitter, has given up on the call or the request.
BrokerOut == broker.pc = "idle" \/ (waits["broker"].on /\ BrokerAnswer = Failure)

BrokerCall(b) ==
    /\ (b # NoCall /\ b.live) <=> (waits["broker"].on /\ BrokerAnswer = Pending)
    /\ b # NoCall =>
          /\ b.op \in {"rf_status", "tx_burst"}
          /\ b.op = "tx_burst" => b.frame = life.frame
          /\ b.live => b.op = BrokerOp(broker.pc)
          /\ ~b.live => serving.call = b
          /\ b.live => waits["broker"].age <= IF serving.call = b THEN serving.age ELSE 0
          /\ ~life.latched => life.pc \in {"submit", "status"}
          /\ Going /\ b.op = "rf_status" =>
                modem.tx = "idle" /\ broker.pc \in {"idle", "preflight"}
          /\ Going /\ life.pc = "status" => LifeAnswer = Pending
          /\ Going /\ ~b.live => BrokerOut

LifeCall(l) ==
    /\ (l # NoCall /\ l.live) <=> (waits["life"].on /\ LifeAnswer = Pending)
    /\ l # NoCall =>
          /\ l.op # "tx_burst"
          /\ l.live => l.op = LifeOp(life.pc)
          /\ ~l.live => life.latched \/ LifeAnswer = Failure
          /\ ~life.latched => life.pc \in Calling

WorkInv == \E b, l : Holds(b, l) /\ BrokerCall(b) /\ LifeCall(l)

\* A frame's burst exists once: asked for, requested, or sent.
BurstInv ==
    /\ OneBurst(inbox) /\ BurstOf(inbox, life.frame)
    /\ BurstIn(calls) => ~BurstIn(inbox)
    /\ BurstIn(calls) \/ BurstIn(inbox) => ~Sent(life.frame)
    /\ broker.pc \in {"posted", "preflight"} \/ life.pc \in Early =>
          ~BurstIn(calls) /\ ~BurstIn(inbox) /\ ~Sent(life.frame)
    /\ ~life.latched /\ life.pc \notin {"submit", "status"} =>
          ~BurstIn(calls) /\ ~BurstIn(inbox)
    /\ \A i \in 1..Len(aired) : aired[i] \in 1..life.frame
    /\ Distinct(aired)
    /\ serving.call # NoCall /\ serving.call.op = "tx_burst" /\ AckIn(line) =>
          Sent(life.frame)

BrokerInv ==
    /\ waits["broker"].on <=> broker.pc \in {"preflight", "burst"}
    /\ ~waits["broker"].on => BrokerAnswer = Pending
    /\ broker.pc \in {"posted", "preflight"} => broker.live
    /\ broker.pc = "posted" => life.waited = 0
    /\ broker.pc = "preflight" =>
          life.waited <= waits["broker"].age /\ waits["broker"].age <= 2 * T
    /\ broker.live => /\ life.pc = "submit" /\ broker.pc # "idle"
                      /\ broker.frame = life.frame /\ broker.result = "none"
    /\ broker.result # "none" => life.pc = "submit" /\ broker.pc = "idle"
    /\ life.pc = "submit" => broker.live \/ broker.result # "none"
    /\ broker.result = "ok" => Sent(life.frame)
    /\ broker.pc = "burst" /\ broker.live /\ BrokerAnswer \notin {Pending, Failure} =>
          Sent(life.frame)

LifeInv ==
    /\ waits["life"].on <=> life.pc \in Calling
    /\ ~waits["life"].on => LifeAnswer = Pending
    /\ life.latched => life.pc = "idle"
    /\ life.pc # "idle" \/ life.latched => life.frame >= 1
    /\ Len(outcomes) = IF life.pc = "idle" THEN life.frame ELSE life.frame - 1
    /\ \A f \in 1..Len(outcomes) :
          /\ outcomes[f] = "complete" => Sent(f)
          /\ outcomes[f] = "handoff" => ~Sent(f)
    /\ life.pc = "idle" /\ life.frame >= 1 /\ outcomes[life.frame] = "handoff" =>
          ~BurstIn(calls) /\ ~BurstIn(inbox)
    /\ life.pc \in {"status", "diag", "poll", "start", "verify"} /\ ~life.failing =>
          Sent(life.frame)

\* A request that its transaction left behind: of a broker that failed.
Left(request) ==
    /\ request.op \in {"rf_status", "tx_burst"}
    /\ \/ life.pc \in {"submit", "status"}
       \/ life.pc = "diag" /\ request.op = "rf_status"
    /\ BrokerOut
    /\ request.op = "rf_status" => modem.tx = "idle" /\ broker.pc # "burst"

Request(call) == [op |-> call.op, frame |-> call.frame]

\* What is on its way to the modem while the lifecycle can end well.
InboxInv ==
    /\ serving.call = NoCall /\ inbox # <<>> => Left(Head(inbox)) /\ Tail(inbox) = <<>>
    /\ serving.call # NoCall /\ inbox # <<>> =>
          \/ /\ Head(inbox) = Request(serving.call) /\ Tail(inbox) = <<>>
             /\ line = <<>> \/ (serving.call.by = "life" /\ life.pc \in {"status", "diag"})
          \/ /\ serving.call.by = "life" /\ line = <<>>
             /\ Left(Head(inbox))
             /\ Tail(inbox) = <<Request(serving.call)>>

\* What the first reply says of the modem...
LineInv ==
    serving.call # NoCall /\ serving.call.by = "life" /\ line # <<>> =>
        /\ life.pc = "status" /\ Head(line).kind = "rf_status" =>
              /\ ~Head(line).remain => modem.tx \in {"draining", "idle"}
              /\ inbox # <<>> => Left(Head(inbox))
        /\ life.pc = "diag" /\ Head(line).kind = "rf_diag" =>
              /\ inbox = <<>>
              /\ ~Head(line).tx /\ ~life.remain => modem.tx = "idle"
        /\ life.pc = "verify" /\ Head(line).rx => modem.rx

\* ...and what the lifecycle knows, or learns from its answer.
KnowInv ==
    /\ life.pc \in {"idle", "before", "stop", "after", "start", "verify"}
         \/ broker.pc \in {"posted", "preflight"} => modem.tx = "idle"
    /\ life.pc = "idle" => modem.rx
    /\ life.pc = "diag" /\ ~life.remain => modem.tx \in {"draining", "idle"}
    /\ life.pc = "poll" => inbox = <<>>
    /\ LifeAnswer # Pending =>
          /\ life.pc = "status" =>
                /\ LifeAnswer.kind = "rf_status" /\ ~BurstIn(inbox)
                /\ ~LifeAnswer.remain => modem.tx \in {"draining", "idle"}
          /\ life.pc = "diag" =>
                /\ inbox = <<>>
                /\ ~LifeAnswer.tx /\ ~life.remain => modem.tx = "idle"
          /\ life.pc = "verify" /\ LifeAnswer.rx => modem.rx

GoingInv == Going => InboxInv /\ LineInv /\ KnowInv

PipeInv ==
    Types /\ WorkInv /\ BurstInv /\ BrokerInv /\ LifeInv /\ GoingInv

-----------------------------------------------------------------------------
(***************************************************************************)
(* Queues                                                                  *)
(***************************************************************************)

\* A queue is empty, or has a head and a tail.
LEMMA SeqSplits ==
    ASSUME NEW S, NEW s \in Seq(S), s # <<>>
    PROVE  /\ Len(s) \in Nat \ {0} /\ Head(s) = s[1] /\ Head(s) \in S
           /\ Tail(s) \in Seq(S) /\ Len(Tail(s)) = Len(s) - 1
           /\ \A i \in 1..Len(Tail(s)) : Tail(s)[i] = s[i + 1]
<1>1. Len(s) \in Nat /\ Len(s) # 0
  BY EmptySeq
<1> QED BY <1>1, HeadTailProperties

\* What Append does to the ends of a queue.
LEMMA SeqAppends ==
    ASSUME NEW S, NEW s \in Seq(S), NEW x \in S
    PROVE  /\ Append(s, x) \in Seq(S) /\ Len(Append(s, x)) = Len(s) + 1
           /\ Len(s) \in Nat
           /\ \A i \in 1..Len(s) : Append(s, x)[i] = s[i]
           /\ Append(s, x)[Len(s) + 1] = x
           /\ Append(s, x) # <<>>
           /\ s = <<>> => Head(Append(s, x)) = x /\ Tail(Append(s, x)) = <<>>
           /\ s # <<>> => /\ Head(Append(s, x)) = Head(s)
                          /\ Tail(Append(s, x)) = Append(Tail(s), x)
<1>1. /\ Append(s, x) \in Seq(S) /\ Len(Append(s, x)) = Len(s) + 1
      /\ Len(s) \in Nat
      /\ \A i \in 1..Len(s) : Append(s, x)[i] = s[i]
      /\ Append(s, x)[Len(s) + 1] = x
  BY AppendProperties
<1>2. Append(s, x) # <<>>
  BY <1>1
<1>3. ASSUME s = <<>>
      PROVE  Head(Append(s, x)) = x /\ Tail(Append(s, x)) = <<>>
  <2>1. Len(s) = 0
    BY <1>3
  <2>2. Head(Append(s, x)) = x
    BY <1>1, <1>2, <2>1, SeqSplits
  <2>3. Tail(Append(s, x)) \in Seq(S) /\ Len(Tail(Append(s, x))) = 0
    BY <1>1, <1>2, <2>1, SeqSplits
  <2> QED BY <2>2, <2>3, EmptySeq
<1>4. ASSUME s # <<>>
      PROVE  /\ Head(Append(s, x)) = Head(s)
             /\ Tail(Append(s, x)) = Append(Tail(s), x)
  <2>1. Head(Append(s, x)) = Head(s)
    BY <1>1, <1>2, <1>4, SeqSplits
  <2>2. /\ Tail(s) \in Seq(S) /\ Len(Tail(s)) = Len(s) - 1
        /\ \A i \in 1..Len(Tail(s)) : Tail(s)[i] = s[i + 1]
        /\ Len(s) # 0
    BY <1>4, SeqSplits
  <2>3. /\ Tail(Append(s, x)) \in Seq(S) /\ Len(Tail(Append(s, x))) = Len(s)
        /\ \A i \in 1..Len(s) : Tail(Append(s, x))[i] = Append(s, x)[i + 1]
    BY <1>1, <1>2, SeqSplits
  <2>4. /\ Append(Tail(s), x) \in Seq(S) /\ Len(Append(Tail(s), x)) = Len(s)
        /\ \A i \in 1..Len(Tail(s)) : Append(Tail(s), x)[i] = Tail(s)[i]
        /\ Append(Tail(s), x)[Len(s)] = x
    BY <1>1, <2>2, AppendProperties
  <2>5. ASSUME NEW i \in 1..Len(s)
        PROVE  Tail(Append(s, x))[i] = Append(Tail(s), x)[i]
    <3>1. CASE i = Len(s)
      BY <1>1, <2>3, <2>4, <3>1
    <3>2. CASE i # Len(s)
      <4>1. i \in 1..Len(Tail(s)) /\ i + 1 \in 1..Len(s)
        <5>1. Len(Tail(s)) = Len(s) - 1 /\ Len(s) \in Nat
          BY <1>1, <2>2
        <5> QED BY <5>1, <3>2
      <4>2. Append(Tail(s), x)[i] = s[i + 1]
        BY <2>2, <2>4, <4>1, Zenon
      <4>3. Tail(Append(s, x))[i] = s[i + 1]
        BY <1>1, <2>3, <4>1, Zenon
      <4> QED BY <4>2, <4>3
    <3> QED BY <3>1, <3>2
  <2>6. Tail(Append(s, x)) = Append(Tail(s), x)
    BY <1>1, <2>3, <2>4, <2>5, SeqEqual
  <2> QED BY <2>1, <2>6
<1> QED BY <1>1, <1>2, <1>3, <1>4

\* A queue of one.
LEMMA SeqOfOne ==
    ASSUME NEW x
    PROVE  /\ <<x>> # <<>> /\ Head(<<x>>) = x /\ Tail(<<x>>) = <<>>
           /\ BurstIn(<<x>>) <=> x.op = "tx_burst"
<1>1. /\ Len(<<x>>) = 1 /\ <<x>>[1] = x
  OBVIOUS
<1>2. <<x>> # <<>> /\ Head(<<x>>) = x /\ Tail(<<x>>) = <<>>
  OBVIOUS
<1> QED BY <1>1, <1>2 DEF BurstIn

\* The bursts of a queue that loses its head...
LEMMA BurstTail ==
    ASSUME NEW S, NEW s \in Seq(S), s # <<>>
    PROVE  /\ BurstIn(s) <=> Head(s).op = "tx_burst" \/ BurstIn(Tail(s))
           /\ OneBurst(s) => OneBurst(Tail(s))
           /\ OneBurst(s) /\ Head(s).op = "tx_burst" => ~BurstIn(Tail(s))
           /\ \A f : BurstOf(s, f) =>
                 /\ BurstOf(Tail(s), f)
                 /\ Head(s).op = "tx_burst" => Head(s).frame = f
           /\ AckIn(Tail(s)) => AckIn(s)
           /\ Head(s).kind = "ack_rf" => AckIn(s)
<1> DEFINE t == Tail(s)
<1>1. /\ Len(s) \in Nat \ {0} /\ Head(s) = s[1] /\ Len(t) = Len(s) - 1
      /\ \A i \in 1..Len(t) : t[i] = s[i + 1]
  BY SeqSplits
<1> HIDE DEF t
<1>2. \A i \in 1..Len(t) : i + 1 \in 1..Len(s) /\ i + 1 # 1
  BY <1>1
<1>3. \A i \in 1..Len(s) : i = 1 \/ (i - 1 \in 1..Len(t) /\ t[i - 1] = s[i])
  BY <1>1
<1>4. 1 \in 1..Len(s)
  BY <1>1
<1>5. BurstIn(s) <=> Head(s).op = "tx_burst" \/ BurstIn(t)
  BY <1>1, <1>2, <1>3, <1>4 DEF BurstIn
<1>6. OneBurst(s) => OneBurst(t)
  <2> SUFFICES ASSUME OneBurst(s), NEW i \in 1..Len(t), NEW j \in 1..Len(t),
                      t[i].op = "tx_burst", t[j].op = "tx_burst"
               PROVE  i = j
    BY DEF OneBurst
  <2>1. s[i + 1].op = "tx_burst" /\ s[j + 1].op = "tx_burst"
    BY <1>1
  <2>2. i + 1 = j + 1
    BY <1>2, <2>1, Zenon DEF OneBurst
  <2> QED BY <2>2
<1>7. OneBurst(s) /\ Head(s).op = "tx_burst" => ~BurstIn(t)
  BY <1>1, <1>2, <1>4 DEF OneBurst, BurstIn
<1>8. \A f : BurstOf(s, f) =>
                 /\ BurstOf(t, f)
                 /\ Head(s).op = "tx_burst" => Head(s).frame = f
  BY <1>1, <1>2, <1>4 DEF BurstOf
<1>9. (AckIn(t) => AckIn(s)) /\ (Head(s).kind = "ack_rf" => AckIn(s))
  BY <1>1, <1>2, <1>4 DEF AckIn
<1> QED BY <1>5, <1>6, <1>7, <1>8, <1>9 DEF t

\* ...and of one that grows.
LEMMA BurstAppend ==
    ASSUME NEW S, NEW s \in Seq(S), NEW x \in S
    PROVE  /\ BurstIn(Append(s, x)) <=> BurstIn(s) \/ x.op = "tx_burst"
           /\ OneBurst(s) /\ (BurstIn(s) => x.op # "tx_burst") => OneBurst(Append(s, x))
           /\ \A f : BurstOf(s, f) /\ (x.op = "tx_burst" => x.frame = f) =>
                 BurstOf(Append(s, x), f)
           /\ AckIn(Append(s, x)) => AckIn(s) \/ x.kind = "ack_rf"
<1> DEFINE t == Append(s, x)
<1>1. /\ Len(s) \in Nat /\ Len(t) = Len(s) + 1 /\ t[Len(s) + 1] = x
      /\ \A i \in 1..Len(s) : t[i] = s[i]
  BY SeqAppends
<1> HIDE DEF t
<1>2. /\ \A i \in 1..Len(t) : i \in 1..Len(s) \/ i = Len(s) + 1
      /\ \A i \in 1..Len(s) : i \in 1..Len(t)
      /\ Len(s) + 1 \in 1..Len(t)
  BY <1>1
<1>3. BurstIn(t) <=> BurstIn(s) \/ x.op = "tx_burst"
  BY <1>1, <1>2 DEF BurstIn
<1>4. OneBurst(s) /\ (BurstIn(s) => x.op # "tx_burst") => OneBurst(t)
  BY <1>1, <1>2 DEF OneBurst, BurstIn
<1>5. \A f : BurstOf(s, f) /\ (x.op = "tx_burst" => x.frame = f) => BurstOf(t, f)
  BY <1>1, <1>2 DEF BurstOf
<1>6. AckIn(t) => AckIn(s) \/ x.kind = "ack_rf"
  BY <1>1, <1>2 DEF AckIn
<1> QED BY <1>3, <1>4, <1>5, <1>6 DEF t

\* Nothing is in an empty queue.
LEMMA BurstEmpty == /\ ~BurstIn(<<>>) /\ OneBurst(<<>>) /\ ~AckIn(<<>>)
                    /\ \A f : BurstOf(<<>>, f)
BY DEF BurstIn, OneBurst, AckIn, BurstOf

\* One frame more is sent.
LEMMA SentAppend ==
    ASSUME NEW s \in Seq(Nat), NEW f \in Nat
    PROVE  /\ \A g : SentIn(Append(s, f), g) <=> SentIn(s, g) \/ g = f
           /\ Distinct(s) /\ ~SentIn(s, f) => Distinct(Append(s, f))
           /\ \A n : (\A i \in 1..Len(s) : s[i] \in 1..n) /\ f \in 1..n =>
                 \A i \in 1..Len(Append(s, f)) : Append(s, f)[i] \in 1..n
<1> DEFINE t == Append(s, f)
<1>1. /\ Len(s) \in Nat /\ Len(t) = Len(s) + 1 /\ t[Len(s) + 1] = f
      /\ \A i \in 1..Len(s) : t[i] = s[i]
  BY SeqAppends
<1> HIDE DEF t
<1>2. /\ \A i \in 1..Len(t) : i \in 1..Len(s) \/ i = Len(s) + 1
      /\ \A i \in 1..Len(s) : i \in 1..Len(t)
      /\ Len(s) + 1 \in 1..Len(t)
  BY <1>1
<1>3. \A g : SentIn(t, g) <=> SentIn(s, g) \/ g = f
  BY <1>1, <1>2 DEF SentIn
<1>4. Distinct(s) /\ ~SentIn(s, f) => Distinct(t)
  BY <1>1, <1>2 DEF SentIn, Distinct
<1>5. \A n : (\A i \in 1..Len(s) : s[i] \in 1..n) /\ f \in 1..n =>
          \A i \in 1..Len(t) : t[i] \in 1..n
  BY <1>1, <1>2
<1> QED BY <1>3, <1>4, <1>5 DEF t

-----------------------------------------------------------------------------
(***************************************************************************)
(* What the modem does and says                                            *)
(***************************************************************************)

\* A request does to the modem what its name says, or nothing.
LEMMA ModemDoing ==
    ASSUME NEW m \in Modems, NEW op \in Ops
    PROVE  /\ ModemAfter(m, op) \in Modems
           /\ op \in {"rx_status", "rf_status", "rf_diag"} => ModemAfter(m, op) = m
           /\ op # "tx_burst" => ModemAfter(m, op).tx = m.tx
           /\ op # "rx_stop" /\ m.rx => ModemAfter(m, op).rx
<1>1. CASE Refuses(m, op)
  BY <1>1 DEF ModemAfter
<1>2. CASE op \in {"rx_status", "rf_status", "rf_diag"} /\ ~Refuses(m, op)
  BY <1>2 DEF ModemAfter
<1>3. CASE op = "rx_start" /\ ~Refuses(m, op)
  <2>1. ModemAfter(m, op) = [m EXCEPT !.rx = TRUE, !.dropped = FALSE]
    BY <1>3 DEF ModemAfter
  <2> QED BY <1>3, <2>1 DEF Modems
<1>4. CASE op = "rx_stop" /\ ~Refuses(m, op)
  <2>1. ModemAfter(m, op) = [m EXCEPT !.rx = FALSE]
    BY <1>4 DEF ModemAfter
  <2> QED BY <1>4, <2>1 DEF Modems
<1>5. CASE op = "tx_burst" /\ ~Refuses(m, op)
  <2>1. ModemAfter(m, op) = [m EXCEPT !.tx = "loaded"]
    BY <1>5 DEF ModemAfter
  <2> QED BY <1>5, <2>1 DEF Modems, TxStates
<1> QED BY <1>1, <1>2, <1>3, <1>4, <1>5 DEF Ops

\* A burst is acknowledged when it is accepted, and the reports tell the truth.
LEMMA ModemSaying ==
    ASSUME NEW m \in Modems, NEW op \in Ops
    PROVE  /\ ModemReply(m, op) \in Replies
           /\ ModemReply(m, op).kind = "ack_rf" =>
                 op = "tx_burst" /\ ~Refuses(m, "tx_burst")
           /\ ModemReply(m, op).kind = "rf_status" => op = "rf_status"
           /\ ModemReply(m, op).kind = "rf_diag" => op = "rf_diag"
           /\ op = "rf_status" =>
                 ModemReply(m, op).remain = (m.tx \in {"loaded", "keyed"})
           /\ op = "rf_diag" =>
                 ModemReply(m, op).tx = (m.tx \in {"keyed", "draining"})
           /\ op = "rx_status" => ModemReply(m, op).rx = m.rx
<1>1. CASE Refuses(m, op)
  <2>1. ModemReply(m, op) = Nak /\ op \in {"rx_start", "tx_burst"}
    BY <1>1 DEF ModemReply, Refuses
  <2> QED BY <2>1 DEF Nak, Replies
<1>2. CASE op \in {"rx_start", "rx_stop"} /\ ~Refuses(m, op)
  <2>1. ModemReply(m, op) = Ack("ack_rx")
    BY <1>2 DEF ModemReply
  <2> QED BY <1>2, <2>1 DEF Ack, Replies
<1>3. CASE op = "tx_burst" /\ ~Refuses(m, op)
  <2>1. ModemReply(m, op) = Ack("ack_rf")
    BY <1>3 DEF ModemReply
  <2> QED BY <1>3, <2>1 DEF Ack, Replies
<1>4. CASE op = "rx_status"
  <2>1. ModemReply(m, op) = RxReport(m)
    BY <1>4 DEF ModemReply, Refuses
  <2>2. RxReport(m) \in
          [kind : {"rx_status"}, rx : BOOLEAN, tx : BOOLEAN, dropped : BOOLEAN]
    BY DEF RxReport, Modems, TxActive
  <2> QED BY <1>4, <2>1, <2>2 DEF Replies, RxReport
<1>5. CASE op = "rf_status"
  <2>1. ModemReply(m, op) = RfReport(m)
    BY <1>5 DEF ModemReply, Refuses
  <2>2. RfReport(m) \in [kind : {"rf_status"}, remain : BOOLEAN]
    BY DEF RfReport, Modems, SelectorsRemain
  <2> QED BY <1>5, <2>1, <2>2 DEF Replies, RfReport, SelectorsRemain
<1>6. CASE op = "rf_diag"
  <2>1. ModemReply(m, op) = DiagReport(m)
    BY <1>6 DEF ModemReply, Refuses
  <2>2. DiagReport(m) \in [kind : {"rf_diag"}, tx : BOOLEAN]
    BY DEF DiagReport, Modems, TxActive
  <2> QED BY <1>6, <2>1, <2>2 DEF Replies, DiagReport, TxActive
<1> QED BY <1>1, <1>2, <1>3, <1>4, <1>5, <1>6 DEF Ops

\* No reply of the modem is taken for a missing answer or for a failure.
LEMMA Marks ==
    /\ Pending \in Answers /\ Failure \in Answers /\ Pending # Failure
    /\ \A a \in Replies : a \in Answers /\ a # Pending /\ a # Failure
    /\ NoCall \notin Calls
<1>1. \A a \in Replies : a.kind \notin {"pending", "failure"}
  BY DEF Replies, Nak, Ack
<1>2. Pending.kind = "pending" /\ Failure.kind = "failure"
  BY DEF Pending, Failure
<1>3. \A c \in Calls : c.op # "none"
  BY DEF Calls, Ops
<1>4. NoCall.op = "none"
  BY DEF NoCall
<1>5. Pending # Failure
  BY <1>2
<1>6. \A a \in Replies : a # Pending /\ a # Failure
  BY <1>1, <1>2
<1>7. NoCall \notin Calls
  BY <1>3, <1>4
<1> QED BY <1>5, <1>6, <1>7 DEF Answers

\* An answer is the reply to this request, or a failure.
LEMMA Parsing ==
    ASSUME NEW op \in Ops, NEW reply \in Replies
    PROVE  /\ Parsed(op, reply) \in Answers /\ Parsed(op, reply) # Pending
           /\ Parsed(op, reply) # Failure =>
                 /\ Parsed(op, reply) = reply
                 /\ op = "tx_burst" => reply.kind = "ack_rf"
                 /\ op = "rf_status" => reply.kind = "rf_status"
                 /\ op = "rf_diag" => reply.kind = "rf_diag"
<1>1. Parsed(op, reply) \in {reply, Failure}
  BY DEF Parsed
<1>2. Parsed(op, reply) # Failure =>
          /\ op = "tx_burst" => reply.kind = "ack_rf"
          /\ op = "rf_status" => reply.kind = "rf_status"
          /\ op = "rf_diag" => reply.kind = "rf_diag"
  BY DEF Parsed
<1> QED BY <1>1, <1>2, Marks

-----------------------------------------------------------------------------
(***************************************************************************)
(* The owner's queue                                                       *)
(***************************************************************************)

\* The queue of at most two calls, at both ends.
LEMMA QueueEnds ==
    ASSUME NEW b \in Calls \cup {NoCall}, NEW l \in Calls \cup {NoCall}
    PROVE  /\ Queue(b, l) \in Seq(Calls)
           /\ Len(Queue(b, l)) <= 2
           /\ Queue(b, l) = <<>> <=> b = NoCall /\ l = NoCall
           /\ b # NoCall => Head(Queue(b, l)) = b /\ Tail(Queue(b, l)) = Queue(NoCall, l)
           /\ b = NoCall /\ l # NoCall =>
                 Head(Queue(b, l)) = l /\ Tail(Queue(b, l)) = <<>>
           /\ \A c \in Calls :
                 /\ Append(Queue(b, NoCall), c) = Queue(b, c)
                 /\ Append(<<>>, c) = Queue(c, NoCall)
           /\ BurstIn(Queue(b, l)) <=> \/ b # NoCall /\ b.op = "tx_burst"
                                       \/ l # NoCall /\ l.op = "tx_burst"
<1>1. \A c \in Calls : c # NoCall
  BY Marks
<1>2. \A c \in Calls : Append(<<>>, c) = <<c>>
  OBVIOUS
<1>3. \A c, d \in Calls : Append(<<c>>, d) = <<c, d>>
  <2> TAKE c, d \in Calls
  <2>1. <<c>> \in Seq(Calls) /\ Len(<<c>>) = 1 /\ <<c>>[1] = c
    OBVIOUS
  <2>2. /\ Append(<<c>>, d) \in Seq(Calls) /\ Len(Append(<<c>>, d)) = 2
        /\ Append(<<c>>, d)[1] = c /\ Append(<<c>>, d)[2] = d
    BY <2>1, SeqAppends
  <2>3. <<c, d>> \in Seq(Calls) /\ Len(<<c, d>>) = 2 /\ <<c, d>>[1] = c /\ <<c, d>>[2] = d
    OBVIOUS
  <2>4. \A i \in 1..2 : Append(<<c>>, d)[i] = <<c, d>>[i]
    BY <2>2, <2>3
  <2> QED BY <2>2, <2>3, <2>4, SeqEqual
<1>4. \A c, d \in Calls : /\ Len(<<c, d>>) = 2 /\ <<c, d>>[1] = c /\ <<c, d>>[2] = d
                          /\ <<c, d>> # <<>> /\ <<c, d>> \in Seq(Calls)
                          /\ Head(<<c, d>>) = c /\ Tail(<<c, d>>) = <<d>>
  OBVIOUS
<1>5. \A c \in Calls : /\ Len(<<c>>) = 1 /\ <<c>>[1] = c /\ <<c>> \in Seq(Calls)
                       /\ <<c>> # <<>> /\ Head(<<c>>) = c /\ Tail(<<c>>) = <<>>
  OBVIOUS
<1>6. \A c, d \in Calls : BurstIn(<<c, d>>) <=> c.op = "tx_burst" \/ d.op = "tx_burst"
  BY <1>4 DEF BurstIn
<1>7. \A c \in Calls : BurstIn(<<c>>) <=> c.op = "tx_burst"
  BY SeqOfOne
<1>8. <<>> \in Seq(Calls) /\ Len(<<>>) = 0 /\ ~BurstIn(<<>>)
  BY BurstEmpty
<1>9. CASE b = NoCall /\ l = NoCall
  BY <1>1, <1>2, <1>8, <1>9 DEF Queue
<1>10. CASE b = NoCall /\ l # NoCall
  <2>1. Queue(b, l) = <<l>> /\ Queue(b, NoCall) = <<>> /\ l \in Calls
    BY <1>10 DEF Queue
  <2>2. \A c \in Calls : Queue(b, c) = <<c>> /\ Queue(c, NoCall) = <<c>>
    BY <1>1, <1>10 DEF Queue
  <2> QED BY <1>2, <1>5, <1>7, <1>10, <2>1, <2>2
<1>11. CASE b # NoCall /\ l = NoCall
  <2>1. Queue(b, l) = <<b>> /\ Queue(NoCall, l) = <<>> /\ b \in Calls
    BY <1>11 DEF Queue
  <2>2. \A c \in Calls : Queue(b, c) = <<b, c>> /\ Queue(c, NoCall) = <<c>>
    BY <1>1, <1>11 DEF Queue
  <2> QED BY <1>2, <1>3, <1>5, <1>7, <1>11, <2>1, <2>2
<1>12. CASE b # NoCall /\ l # NoCall
  <2>1. /\ Queue(b, l) = <<b, l>> /\ Queue(NoCall, l) = <<l>>
        /\ Queue(b, NoCall) = <<b>> /\ b \in Calls /\ l \in Calls
    BY <1>12 DEF Queue
  <2>2. \A c \in Calls : Queue(b, c) = <<b, c>> /\ Queue(c, NoCall) = <<c>>
    BY <1>1, <1>12 DEF Queue
  <2> QED BY <1>2, <1>3, <1>4, <1>6, <1>12, <2>1, <2>2
<1> QED BY <1>9, <1>10, <1>11, <1>12

-----------------------------------------------------------------------------
(***************************************************************************)
(* What the invariant says of a state                                      *)
(***************************************************************************)

\* The fields of the records.
LEMMA Fields ==
    ASSUME Types
    PROVE  /\ modem.rx \in BOOLEAN /\ modem.tx \in TxStates
           /\ serving.call \in Calls \cup {NoCall} /\ serving.age \in 0..(2 * T)
           /\ \A p \in Callers : /\ waits[p].on \in BOOLEAN /\ waits[p].age \in Nat
                                 /\ waits[p].answer \in Answers
           /\ life.pc \in LifePcs /\ life.frame \in Nat /\ life.waited \in Nat
           /\ life.idleAge \in Nat /\ life.failing \in BOOLEAN
           /\ life.remain \in BOOLEAN /\ life.latched \in BOOLEAN
           /\ broker.pc \in {"idle", "posted", "preflight", "burst"}
           /\ broker.frame \in Nat /\ broker.live \in BOOLEAN
           /\ broker.result \in {"none", "ok", "error"}
<1>1. modem.rx \in BOOLEAN /\ modem.tx \in TxStates
  BY DEF Types, Modems
<1>2. serving.call \in Calls \cup {NoCall} /\ serving.age \in 0..(2 * T)
  BY DEF Types, Servings
<1>3. \A p \in Callers : /\ waits[p].on \in BOOLEAN /\ waits[p].age \in Nat
                         /\ waits[p].answer \in Answers
  BY DEF Types, Waits
<1>4. /\ life.pc \in LifePcs /\ life.frame \in Nat /\ life.waited \in Nat
      /\ life.idleAge \in Nat /\ life.failing \in BOOLEAN
      /\ life.remain \in BOOLEAN /\ life.latched \in BOOLEAN
  BY DEF Types, Lives
<1>5. /\ broker.pc \in {"idle", "posted", "preflight", "burst"}
      /\ broker.frame \in Nat /\ broker.live \in BOOLEAN
      /\ broker.result \in {"none", "ok", "error"}
  BY DEF Types, Brokers
<1> QED BY <1>1, <1>2, <1>3, <1>4, <1>5

\* While the lifecycle can end well it has no call with the owner but the one
\* it waits for, and the broker has none outside submit and status.
LEMMA OwnerAlone ==
    ASSUME Types, WorkInv, Going, life.pc # "submit",
           life.pc \in Calling => LifeAnswer # Pending
    PROVE  serving.call = NoCall /\ calls = <<>>
<1>1. PICK b, l : Holds(b, l) /\ BrokerCall(b) /\ LifeCall(l)
  BY DEF WorkInv
<1>2. b = NoCall
  BY <1>1 DEF BrokerCall, Going, Calling
<1>3. l = NoCall
  BY <1>1 DEF LifeCall, Going
<1> QED BY <1>1, <1>2, <1>3 DEF Holds, Queue

\* A cycle that waits for its broker can end well, and has no call itself.
LEMMA SubmitGoing ==
    ASSUME Types, LifeInv, life.pc = "submit"
    PROVE  Going /\ ~life.latched /\ LifeAnswer = Pending /\ ~waits["life"].on
BY Marks DEF LifeInv, Going, Calling

\* A broker between two calls left nothing with the owner, and nothing on the
\* line.
LEMMA BrokerAlone ==
    ASSUME PipeInv, broker.pc \in {"posted", "preflight"},
           waits["broker"].on => BrokerAnswer \notin {Pending, Failure}
    PROVE  /\ life.pc = "submit" /\ Going
           /\ serving.call = NoCall /\ calls = <<>> /\ inbox = <<>>
<1>1. life.pc = "submit" /\ Going
  BY SubmitGoing DEF PipeInv, BrokerInv
<1>2. ~BrokerOut
  BY DEF BrokerOut
<1>3. PICK b, l : Holds(b, l) /\ BrokerCall(b) /\ LifeCall(l)
  BY DEF PipeInv, WorkInv
<1>4. b = NoCall
  BY <1>1, <1>2, <1>3 DEF BrokerCall
<1>5. l = NoCall
  BY <1>1, <1>3 DEF LifeCall, Calling, Going
<1>6. serving.call = NoCall /\ calls = <<>>
  BY <1>3, <1>4, <1>5 DEF Holds, Queue
<1>7. inbox = <<>>
  BY <1>1, <1>2, <1>6 DEF PipeInv, GoingInv, InboxInv, Left
<1> QED BY <1>1, <1>6, <1>7

-----------------------------------------------------------------------------
(***************************************************************************)
(* The modem and the line                                                  *)
(***************************************************************************)

\* While the lifecycle can end well, no burst is on the line to a modem whose
\* transmitter somebody relies on.
LEMMA BurstUnrelied ==
    ASSUME PipeInv, Going, BurstIn(inbox)
    PROVE  /\ life.pc \in {"submit", "status"}
           /\ broker.pc \notin {"posted", "preflight"}
           /\ life.pc = "status" => LifeAnswer = Pending
           /\ \A b, l : Holds(b, l) /\ BrokerCall(b) /\ b # NoCall => b.op = "tx_burst"
<1>1. life.pc \in {"submit", "status"} /\ broker.pc \notin {"posted", "preflight"}
  BY DEF PipeInv, BurstInv, Going
<1>2. life.pc = "status" => LifeAnswer = Pending
  BY DEF PipeInv, GoingInv, KnowInv
<1>3. ASSUME NEW b, NEW l, Holds(b, l), BrokerCall(b), b # NoCall
      PROVE  b.op = "tx_burst"
  <2>1. SUFFICES ASSUME b.op = "rf_status" PROVE FALSE
    BY <1>3 DEF BrokerCall
  <2>2. broker.pc = "idle"
    BY <1>1, <1>3, <2>1 DEF BrokerCall
  <2>3. ~b.live
    BY <1>3, <2>2 DEF BrokerCall, PipeInv, BrokerInv
  <2>4. serving.call = b /\ b.by = "broker"
    BY <1>3, <2>3 DEF BrokerCall, Holds
  <2>5. inbox \in Seq(Requests) /\ inbox # <<>>
    BY BurstEmpty DEF PipeInv, Types
  <2>6. Head(inbox) = Request(b) /\ Tail(inbox) = <<>>
    BY <1>3, <2>4, <2>5 DEF PipeInv, GoingInv, InboxInv
  <2>7. Head(inbox).op = "rf_status"
    BY <2>1, <2>6 DEF Request
  <2>8. BurstIn(inbox) <=> Head(inbox).op = "tx_burst" \/ BurstIn(Tail(inbox))
    BY <2>5, BurstTail
  <2> QED BY <2>6, <2>7, <2>8, BurstEmpty
<1> QED BY <1>1, <1>2, <1>3

\* The firmware serves a request.
LEMMA ServeKeeps ==
    ASSUME PipeInv, NEW replyLost \in BOOLEAN, Serve(replyLost)
    PROVE  PipeInv'
<1> DEFINE r == Head(inbox)
           reply == ModemReply(modem, r.op)
           accepted == r.op = "tx_burst" /\ ~Refuses(modem, "tx_burst")
<1>1. /\ inbox # <<>> /\ inbox' = Tail(inbox) /\ modem' = ModemAfter(modem, r.op)
      /\ line' = IF replyLost THEN line ELSE Append(line, reply)
      /\ calls' = calls /\ serving' = serving /\ waits' = waits /\ life' = life
      /\ broker' = broker /\ outcomes' = outcomes
      /\ aired' = IF accepted THEN Append(aired, r.frame) ELSE aired
  BY DEF Serve
<1>2. /\ inbox \in Seq(Requests) /\ line \in Seq(Replies) /\ aired \in Seq(Nat)
      /\ modem \in Modems /\ life.frame \in Nat
  BY Fields DEF PipeInv, Types
<1>3. /\ r \in Requests /\ r.op \in Ops /\ r.frame \in Nat /\ inbox' \in Seq(Requests)
  <2>1. r \in Requests /\ Tail(inbox) \in Seq(Requests)
    BY <1>1, <1>2, SeqSplits
  <2> QED BY <1>1, <2>1 DEF Requests
<1>4. /\ BurstIn(inbox) <=> r.op = "tx_burst" \/ BurstIn(inbox')
      /\ OneBurst(inbox) => OneBurst(inbox')
      /\ OneBurst(inbox) /\ r.op = "tx_burst" => ~BurstIn(inbox')
      /\ \A f : BurstOf(inbox, f) => BurstOf(inbox', f) /\ (r.op = "tx_burst" => r.frame = f)
  BY <1>1, <1>2, BurstTail
<1>5. /\ modem' \in Modems /\ reply \in Replies
      /\ r.op \in {"rx_status", "rf_status", "rf_diag"} => modem' = modem
      /\ r.op # "tx_burst" => modem'.tx = modem.tx
      /\ r.op # "rx_stop" /\ modem.rx => modem'.rx
      /\ reply.kind = "ack_rf" => accepted
      /\ reply.kind = "rf_status" => r.op = "rf_status"
      /\ reply.kind = "rf_diag" => r.op = "rf_diag"
      /\ r.op = "rf_status" => reply.remain = (modem.tx \in {"loaded", "keyed"})
      /\ r.op = "rf_diag" => reply.tx = (modem.tx \in {"keyed", "draining"})
      /\ r.op = "rx_status" => reply.rx = modem.rx
  BY <1>1, <1>2, <1>3, ModemDoing, ModemSaying
<1> HIDE DEF reply
<1>6. /\ line' \in Seq(Replies)
      /\ AckIn(line') => AckIn(line) \/ accepted
      /\ line # <<>> => line' # <<>> /\ Head(line') = Head(line)
      /\ line = <<>> /\ line' # <<>> => Head(line') = reply
  <2>1. CASE replyLost
    BY <1>1, <1>2, <2>1
  <2>2. CASE ~replyLost
    <3>1. line' = Append(line, reply)
      BY <1>1, <2>2
    <3> QED BY <1>2, <1>5, <3>1, SeqAppends, BurstAppend
  <2> QED BY <2>1, <2>2
<1>7. /\ aired' \in Seq(Nat)
      /\ ~accepted => aired' = aired
      /\ accepted => /\ r.frame = life.frame /\ BurstIn(inbox)
                     /\ aired' = Append(aired, life.frame)
      /\ \A g : SentIn(aired', g) <=> SentIn(aired, g) \/ (accepted /\ g = life.frame)
  <2>1. accepted => r.frame = life.frame /\ BurstIn(inbox)
    BY <1>4 DEF PipeInv, BurstInv
  <2>2. CASE accepted
    BY <1>1, <1>2, <2>1, <2>2, SentAppend, SeqAppends
  <2>3. CASE ~accepted
    BY <1>1, <1>2, <2>3
  <2> QED BY <2>1, <2>2, <2>3
<1>8. Types'
  BY <1>1, <1>3, <1>5, <1>6, <1>7 DEF PipeInv, Types
<1>9. Going' <=> Going
  BY <1>1 DEF Going, LifeAnswer
<1>10. WorkInv'
  <2>1. PICK b, l : Holds(b, l) /\ BrokerCall(b) /\ LifeCall(l)
    BY DEF PipeInv, WorkInv
  <2>2. Going /\ b # NoCall /\ b.op = "rf_status" => modem'.tx = modem.tx
    BY <1>4, <1>5, <2>1, BurstUnrelied
  <2>3. Holds(b, l)'
    BY <1>1, <2>1 DEF Holds
  <2>4. BrokerCall(b)'
    BY <1>1, <1>9, <2>1, <2>2 DEF BrokerCall, BrokerOut, BrokerAnswer, LifeAnswer
  <2>5. LifeCall(l)'
    BY <1>1, <2>1 DEF LifeCall, LifeAnswer
  <2> QED BY <2>3, <2>4, <2>5 DEF WorkInv
<1>11. BurstInv'
  <2> USE DEF PipeInv, BurstInv, Sent
  <2>1. OneBurst(inbox') /\ BurstOf(inbox', life'.frame)
    BY <1>1, <1>4
  <2>2. /\ BurstIn(calls') => ~BurstIn(inbox')
        /\ BurstIn(calls') \/ BurstIn(inbox') => ~SentIn(aired', life'.frame)
    BY <1>1, <1>4, <1>7
  <2>3. /\ broker'.pc \in {"posted", "preflight"} \/ life'.pc \in Early =>
              ~BurstIn(calls') /\ ~BurstIn(inbox') /\ ~SentIn(aired', life'.frame)
        /\ ~life'.latched /\ life'.pc \notin {"submit", "status"} =>
              ~BurstIn(calls') /\ ~BurstIn(inbox')
    BY <1>1, <1>4, <1>7
  <2>4. Distinct(aired') /\ \A i \in 1..Len(aired') : aired'[i] \in 1..life'.frame
    <3>1. CASE accepted
      <4>1. life.frame \in 1..life.frame
        BY <1>2, <1>7, <3>1 DEF LifeInv
      <4>2. ~SentIn(aired, life.frame)
        BY <1>7, <3>1
      <4> QED BY <1>1, <1>2, <1>7, <3>1, <4>1, <4>2, SentAppend
    <3>2. CASE ~accepted
      BY <1>1, <1>7, <3>2
    <3> QED BY <3>1, <3>2
  <2>5. serving'.call # NoCall /\ serving'.call.op = "tx_burst" /\ AckIn(line') =>
            SentIn(aired', life'.frame)
    BY <1>1, <1>6, <1>7
  <2> QED BY <2>1, <2>2, <2>3, <2>4, <2>5
<1>12. BrokerInv'
  BY <1>1, <1>7 DEF PipeInv, BrokerInv, BrokerAnswer, Sent
<1>13. LifeInv'
  <2>1. ASSUME NEW f \in 1..Len(outcomes)
        PROVE  /\ outcomes[f] = "complete" => SentIn(aired', f)
               /\ outcomes[f] = "handoff" => ~SentIn(aired', f)
    <3>1. CASE ~accepted \/ f # life.frame
      BY <1>7, <3>1 DEF PipeInv, LifeInv, Sent
    <3>2. CASE accepted /\ f = life.frame
      <4>1. life.pc = "idle" /\ life.frame >= 1
        BY <1>2, <2>1, <3>2 DEF PipeInv, LifeInv
      <4>2. outcomes[f] # "handoff"
        BY <1>7, <3>2, <4>1 DEF PipeInv, LifeInv
      <4> QED BY <1>7, <3>2, <4>2
    <3> QED BY <3>1, <3>2
  <2> QED BY <1>1, <1>4, <1>7, <2>1 DEF PipeInv, LifeInv, LifeAnswer, Sent
<1>14. GoingInv'
  <2> SUFFICES ASSUME Going PROVE InboxInv' /\ LineInv' /\ KnowInv'
    BY <1>9 DEF GoingInv
  <2>1. InboxInv /\ LineInv /\ KnowInv
    BY DEF PipeInv, GoingInv
  <2>2. ASSUME NEW q, Left(q), r.op # "tx_burst" PROVE Left(q)'
    BY <1>1, <1>5, <2>2 DEF Left, BrokerOut, BrokerAnswer
  <2>3. serving.call # NoCall => serving.call \in Calls
    BY Fields DEF PipeInv
  <2>4. InboxInv'
    <3>1. CASE Tail(inbox) = <<>>
      BY <1>1, <3>1 DEF InboxInv
    <3>2. CASE Tail(inbox) # <<>>
      <4>1. /\ serving.call # NoCall /\ serving.call.by = "life" /\ line = <<>>
            /\ Left(Head(inbox)) /\ Tail(inbox) = <<Request(serving.call)>>
        BY <1>1, <2>1, <3>2 DEF InboxInv
      <4>2. Head(inbox') = Request(serving.call) /\ Tail(inbox') = <<>>
        BY <1>1, <4>1, SeqOfOne
      <4>3. life.pc \in {"status", "diag"}
        <5>1. PICK b, l : Holds(b, l) /\ BrokerCall(b) /\ LifeCall(l)
          BY DEF PipeInv, WorkInv
        <5>2. serving.call = l /\ l # NoCall
          BY <4>1, <5>1 DEF Holds
        <5>3. life.pc \in Calling
          BY <5>1, <5>2 DEF LifeCall, Going
        <5> QED BY <4>1, <5>3 DEF Left, Calling
      <4> QED BY <1>1, <4>1, <4>2, <4>3 DEF InboxInv, Request
    <3> QED BY <3>1, <3>2
  <2>5. LineInv'
    <3> SUFFICES ASSUME serving.call # NoCall, serving.call.by = "life", line' # <<>>
                 PROVE  LineInv'
      BY <1>1 DEF LineInv
    <3>1. life.pc \in Calling /\ serving.call.op = LifeOp(life.pc)
      <4>1. PICK b, l : Holds(b, l) /\ BrokerCall(b) /\ LifeCall(l)
        BY DEF PipeInv, WorkInv
      <4>2. serving.call = l /\ l # NoCall
        BY <4>1 DEF Holds
      <4> QED BY <4>1, <4>2 DEF LifeCall, Going
    <3>2. \/ /\ Head(inbox) = Request(serving.call) /\ Tail(inbox) = <<>>
             /\ line = <<>> \/ life.pc \in {"status", "diag"}
          \/ /\ line = <<>> /\ Left(Head(inbox))
             /\ Tail(inbox) = <<Request(serving.call)>>
      BY <1>1, <2>1 DEF InboxInv
    <3>3. CASE line # <<>>
      <4>1. Head(line') = Head(line) /\ inbox' = <<>> /\ r.op = serving.call.op
        BY <1>1, <1>6, <3>2, <3>3 DEF Request
      <4>2. r.op \in {"rf_status", "rf_diag"} /\ modem' = modem
        BY <1>5, <3>1, <3>2, <3>3, <4>1 DEF LifeOp
      <4> QED BY <1>1, <2>1, <3>2, <3>3, <4>1, <4>2 DEF LineInv
    <3>4. CASE line = <<>>
      <4>1. Head(line') = reply
        BY <1>6, <3>4
      <4>2. ASSUME life.pc = "status", reply.kind = "rf_status"
            PROVE  /\ ~reply.remain => modem'.tx \in {"draining", "idle"}
                   /\ inbox' # <<>> => Left(Head(inbox))'
        <5>1. r.op = "rf_status" /\ modem' = modem
          BY <1>5, <4>2
        <5>2. ~reply.remain => modem.tx \in {"draining", "idle"}
          BY <1>5, <5>1, Fields DEF PipeInv, TxStates
        <5>3. ASSUME inbox' # <<>> PROVE Left(Head(inbox))'
          <6>1. Left(r) /\ Head(inbox') = Request(serving.call)
            BY <1>1, <3>2, <5>3, SeqOfOne
          <6>2. Request(serving.call).op = "rf_status"
            BY <3>1, <4>2 DEF Request, LifeOp
          <6>3. Left(Head(inbox'))
            BY <4>2, <5>1, <6>1, <6>2 DEF Left
          <6> QED BY <1>1, <5>1, <6>3 DEF Left, BrokerOut, BrokerAnswer
        <5> QED BY <5>1, <5>2, <5>3
      <4>3. ASSUME life.pc = "diag", reply.kind = "rf_diag"
            PROVE  /\ inbox' = <<>>
                   /\ ~reply.tx /\ ~life.remain => modem'.tx = "idle"
        <5>1. r.op = "rf_diag" /\ modem' = modem
          BY <1>5, <4>3
        <5>2. inbox' = <<>>
          BY <1>1, <3>2, <5>1 DEF Left
        <5> QED BY <1>5, <2>1, <4>3, <5>1, <5>2 DEF KnowInv
      <4>4. ASSUME life.pc = "verify", reply.rx PROVE modem'.rx
        <5>1. r.op = "rx_status"
          BY <3>1, <3>2, <4>4 DEF Left, Request, LifeOp
        <5> QED BY <1>5, <4>4, <5>1
      <4> QED BY <1>1, <4>1, <4>2, <4>3, <4>4 DEF LineInv
    <3> QED BY <3>3, <3>4
  <2>6. KnowInv'
    <3>1. r.op = "tx_burst" => /\ life.pc \in {"submit", "status"}
                               /\ broker.pc \notin {"posted", "preflight"}
                               /\ LifeAnswer = Pending \/ life.pc = "submit"
      BY <1>4, BurstUnrelied
    <3>2. life.pc \notin {"idle", "poll"}
      <4>1. life.pc = "idle" => serving.call = NoCall
        BY OwnerAlone DEF PipeInv, Calling
      <4> QED BY <1>1, <2>1, <4>1 DEF KnowInv, InboxInv, Left
    <3>3. LifeAnswer # Pending => life.pc \notin {"diag", "verify"}
      <4>1. LifeAnswer # Pending /\ life.pc = "verify" => serving.call = NoCall
        BY OwnerAlone DEF PipeInv
      <4> QED BY <1>1, <2>1, <4>1 DEF KnowInv, InboxInv, Left
    <3>4. life.pc = "status" /\ LifeAnswer # Pending => ~BurstIn(inbox')
      BY <1>4, <2>1 DEF KnowInv
    <3> QED BY <1>1, <1>5, <2>1, <3>1, <3>2, <3>3, <3>4 DEF KnowInv, LifeAnswer
  <2> QED BY <2>4, <2>5, <2>6
<1> QED BY <1>8, <1>10, <1>11, <1>12, <1>13, <1>14 DEF PipeInv

\* A request is lost.
LEMMA LoseKeeps ==
    ASSUME PipeInv, LoseRequest
    PROVE  PipeInv'
<1>1. /\ inbox # <<>> /\ inbox' = Tail(inbox) /\ modem' = modem /\ line' = line
      /\ calls' = calls /\ serving' = serving /\ waits' = waits /\ life' = life
      /\ broker' = broker /\ outcomes' = outcomes /\ aired' = aired
  BY DEF LoseRequest
<1>2. inbox \in Seq(Requests) /\ inbox' \in Seq(Requests)
  BY <1>1, SeqSplits DEF PipeInv, Types
<1>3. /\ BurstIn(inbox') => BurstIn(inbox)
      /\ OneBurst(inbox) => OneBurst(inbox')
      /\ \A f : BurstOf(inbox, f) => BurstOf(inbox', f)
  BY <1>1, <1>2, BurstTail
<1>4. Types'
  BY <1>1, <1>2 DEF PipeInv, Types
<1>5. WorkInv'
  <2>1. PICK b, l : Holds(b, l) /\ BrokerCall(b) /\ LifeCall(l)
    BY DEF PipeInv, WorkInv
  <2>2. Holds(b, l)' /\ BrokerCall(b)' /\ LifeCall(l)'
    BY <1>1, <2>1 DEF Holds, BrokerCall, LifeCall, BrokerOut, BrokerAnswer,
                      LifeAnswer, Going
  <2> QED BY <2>2 DEF WorkInv
<1>6. BurstInv'
  BY <1>1, <1>3 DEF PipeInv, BurstInv, Sent
<1>7. BrokerInv'
  BY <1>1 DEF PipeInv, BrokerInv, BrokerAnswer, Sent
<1>8. LifeInv'
  BY <1>1, <1>3 DEF PipeInv, LifeInv, LifeAnswer, Sent
<1>9. GoingInv'
  <2> SUFFICES ASSUME Going PROVE InboxInv' /\ LineInv' /\ KnowInv'
    BY <1>1 DEF GoingInv, Going, LifeAnswer
  <2>1. InboxInv /\ LineInv /\ KnowInv
    BY DEF PipeInv, GoingInv
  <2>2. \/ inbox' = <<>>
        \/ /\ serving.call # NoCall /\ line = <<>>
           /\ Head(inbox') = Request(serving.call) /\ Tail(inbox') = <<>>
    BY <1>1, <2>1, SeqOfOne DEF InboxInv
  <2>3. InboxInv'
    BY <1>1, <2>2 DEF InboxInv, Request
  <2>4. LineInv'
    BY <1>1, <2>1, <2>2 DEF LineInv
  <2>5. KnowInv'
    BY <1>1, <1>3, <2>1 DEF KnowInv, LifeAnswer
  <2> QED BY <2>3, <2>4, <2>5
<1> QED BY <1>4, <1>5, <1>6, <1>7, <1>8, <1>9 DEF PipeInv

\* The burst runs on, or the capture overflows: no transmitter wakes up.
LEMMA ModemMoves ==
    ASSUME PipeInv, Transmit \/ Overflow
    PROVE  PipeInv'
<1>1. /\ inbox' = inbox /\ line' = line
      /\ calls' = calls /\ serving' = serving /\ waits' = waits /\ life' = life
      /\ broker' = broker /\ outcomes' = outcomes /\ aired' = aired
  BY DEF Transmit, Overflow
<1>2. /\ modem' \in Modems /\ modem'.rx = modem.rx
      /\ modem.tx = "idle" => modem'.tx = "idle"
      /\ modem.tx \in {"draining", "idle"} => modem'.tx \in {"draining", "idle"}
  <2>1. modem \in Modems
    BY DEF PipeInv, Types
  <2>2. CASE Transmit
    <3>1. PICK tx \in TxProgress(modem.tx) : modem' = [modem EXCEPT !.tx = tx]
      BY <2>2 DEF Transmit
    <3>2. tx \in {"keyed", "draining", "idle"} /\ modem.tx # "idle"
          /\ (modem.tx = "draining" => tx = "idle")
      BY <2>1, <3>1 DEF TxProgress, Modems, TxStates
    <3> QED BY <2>1, <3>1, <3>2 DEF Modems, TxStates
  <2>3. CASE Overflow
    BY <2>1, <2>3 DEF Overflow, Modems
  <2> QED BY <2>2, <2>3
<1>3. Types'
  BY <1>1, <1>2 DEF PipeInv, Types
<1>4. Going' <=> Going
  BY <1>1 DEF Going, LifeAnswer
<1>5. WorkInv'
  BY <1>1, <1>2, <1>4 DEF PipeInv, WorkInv, Holds, BrokerCall, LifeCall, BrokerOut,
                          BrokerAnswer, LifeAnswer
<1>6. BurstInv' /\ BrokerInv' /\ LifeInv'
  BY <1>1 DEF PipeInv, BurstInv, BrokerInv, LifeInv, BrokerAnswer, LifeAnswer, Sent
<1>7. GoingInv'
  <2> SUFFICES ASSUME Going PROVE InboxInv' /\ LineInv' /\ KnowInv'
    BY <1>4 DEF GoingInv
  <2>1. InboxInv /\ LineInv /\ KnowInv
    BY DEF PipeInv, GoingInv
  <2>2. \A q : Left(q) => Left(q)'
    BY <1>1, <1>2 DEF Left, BrokerOut, BrokerAnswer
  <2>3. InboxInv'
    BY <1>1, <2>1, <2>2 DEF InboxInv
  <2>4. LineInv'
    BY <1>1, <1>2, <2>1, <2>2 DEF LineInv
  <2>5. KnowInv'
    BY <1>1, <1>2, <2>1 DEF KnowInv, LifeAnswer
  <2> QED BY <2>3, <2>4, <2>5
<1> QED BY <1>3, <1>5, <1>6, <1>7 DEF PipeInv

-----------------------------------------------------------------------------
(***************************************************************************)
(* The modem owner                                                         *)
(***************************************************************************)

\* The owner begins a transaction.
LEMMA OwnerBeginsKeeps ==
    ASSUME PipeInv, OwnerBegins
    PROVE  PipeInv'
<1> DEFINE c == Head(calls)
<1>1. /\ serving.call = NoCall /\ calls # <<>> /\ calls' = Tail(calls)
      /\ serving'.call = c /\ serving'.age = 0 /\ line' = <<>>
      /\ serving' = [call |-> c, age |-> 0]
      /\ inbox' = Append(inbox, Request(c))
      /\ modem' = modem /\ waits' = waits /\ life' = life
      /\ broker' = broker /\ outcomes' = outcomes /\ aired' = aired
  BY DEF OwnerBegins, Request
<1>2. /\ inbox \in Seq(Requests) /\ calls \in Seq(Calls)
      /\ c \in Calls /\ Tail(calls) \in Seq(Calls) /\ Request(c) \in Requests
  <2>1. inbox \in Seq(Requests) /\ calls \in Seq(Calls)
    BY DEF PipeInv, Types
  <2>2. c \in Calls /\ Tail(calls) \in Seq(Calls)
    BY <1>1, <2>1, SeqSplits
  <2> QED BY <2>1, <2>2 DEF Calls, Requests, Request
<1>3. /\ c # NoCall /\ Request(c).op = c.op /\ Request(c).frame = c.frame
  BY <1>2, Marks DEF Request
<1>4. PICK b, l : Holds(b, l) /\ BrokerCall(b) /\ LifeCall(l)
  BY DEF PipeInv, WorkInv
<1>5. /\ b \in Calls \cup {NoCall} /\ l \in Calls \cup {NoCall}
      /\ b # NoCall => b.by = "broker"
      /\ l # NoCall => l.by = "life"
      /\ calls = Queue(b, l)
  BY <1>1, <1>4 DEF Holds
<1>6. \/ b # NoCall /\ c = b /\ calls' = Queue(NoCall, l)
      \/ b = NoCall /\ l # NoCall /\ c = l /\ calls' = <<>>
  BY <1>1, <1>5, QueueEnds
<1> HIDE DEF c
<1>7. /\ BurstIn(inbox') <=> BurstIn(inbox) \/ c.op = "tx_burst"
      /\ OneBurst(inbox) /\ (BurstIn(inbox) => c.op # "tx_burst") => OneBurst(inbox')
      /\ BurstOf(inbox, life.frame) /\ (c.op = "tx_burst" => c.frame = life.frame) =>
            BurstOf(inbox', life.frame)
      /\ inbox' \in Seq(Requests)
  BY <1>1, <1>2, <1>3, BurstAppend, SeqAppends
<1>8. /\ BurstIn(calls) <=> c.op = "tx_burst" \/ BurstIn(calls')
      /\ c.op = "tx_burst" => c = b /\ c.frame = life.frame /\ ~BurstIn(calls')
  <2>1. BurstIn(calls) <=> c.op = "tx_burst" \/ BurstIn(calls')
    BY <1>1, <1>2, BurstTail DEF c
  <2>2. b # NoCall /\ b.op = "tx_burst" => b.frame = life.frame
    BY <1>4 DEF BrokerCall
  <2>3. l # NoCall => l.op # "tx_burst"
    BY <1>4 DEF LifeCall
  <2>4. NoCall \in Calls \cup {NoCall}
    OBVIOUS
  <2>5. ~BurstIn(Queue(NoCall, l))
    BY <1>5, <2>3, <2>4, QueueEnds
  <2> QED BY <1>6, <2>1, <2>2, <2>3, <2>5
<1>9. Types'
  <2>1. serving' \in Servings
    BY <1>1, <1>2, TxPipelineAssumption DEF Servings
  <2>2. calls' \in Seq(Calls) /\ line' \in Seq(Replies)
    BY <1>1, <1>2
  <2> QED BY <1>1, <1>7, <2>1, <2>2 DEF PipeInv, Types
<1>10. Going' <=> Going
  BY <1>1 DEF Going, LifeAnswer
<1>11. Holds(b, l)'
  BY <1>1, <1>5, <1>6 DEF Holds
<1>12. BrokerCall(b)'
  <2>1. b # NoCall => b.live
    BY <1>1, <1>4 DEF BrokerCall
  <2>2. b # NoCall => serving'.call = b /\ waits["broker"].age <= 0
    BY <1>1, <1>4, <1>6, <2>1 DEF BrokerCall
  <2> QED BY <1>1, <1>4, <1>10, <2>1, <2>2
          DEF BrokerCall, BrokerOut, BrokerAnswer, LifeAnswer
<1>13. LifeCall(l)'
  BY <1>1, <1>4 DEF LifeCall, LifeAnswer
<1>14. WorkInv'
  BY <1>11, <1>12, <1>13 DEF WorkInv
<1>15. BurstInv'
  BY <1>1, <1>7, <1>8, BurstEmpty DEF PipeInv, BurstInv, Sent
<1>16. BrokerInv'
  BY <1>1 DEF PipeInv, BrokerInv, BrokerAnswer, Sent
<1>17. LifeInv'
  BY <1>1, <1>7, <1>8 DEF PipeInv, LifeInv, LifeAnswer, Sent
<1>18. GoingInv'
  <2> SUFFICES ASSUME Going PROVE InboxInv' /\ LineInv' /\ KnowInv'
    BY <1>10 DEF GoingInv
  <2>1. InboxInv /\ LineInv /\ KnowInv
    BY DEF PipeInv, GoingInv
  <2>2. LineInv'
    BY <1>1 DEF LineInv
  <2>3. /\ inbox = <<>> => Head(inbox') = Request(c) /\ Tail(inbox') = <<>>
        /\ inbox # <<>> => /\ Head(inbox') = Head(inbox)
                           /\ Tail(inbox') = Append(Tail(inbox), Request(c))
    BY <1>1, <1>2, SeqAppends
  <2>4. inbox # <<>> => Tail(inbox) = <<>> /\ Left(Head(inbox)) /\ Left(Head(inbox))'
    <3>1. inbox # <<>> => Tail(inbox) = <<>> /\ Left(Head(inbox))
      BY <1>1, <2>1 DEF InboxInv
    <3> QED BY <1>1, <2>3, <3>1 DEF Left, BrokerOut, BrokerAnswer
  <2>5. Append(<<>>, Request(c)) = <<Request(c)>>
    OBVIOUS
  <2>6. inbox # <<>> => c.by = "life"
    <3>1. b # NoCall => b.live
      BY <1>1, <1>4 DEF BrokerCall
    <3>2. b # NoCall => ~BrokerOut
      BY <1>4, <3>1, Marks DEF BrokerCall, BrokerOut, PipeInv, BrokerInv
    <3> QED BY <1>5, <1>6, <2>4, <3>2 DEF Left
  <2>7. InboxInv'
    BY <1>1, <1>3, <2>3, <2>4, <2>5, <2>6 DEF InboxInv, Request
  <2>8. /\ life.pc \notin {"poll", "idle"}
        /\ life.pc \in {"status", "diag", "verify"} => LifeAnswer = Pending
    <3>1. CASE c = b /\ b # NoCall
      BY <1>4, <3>1 DEF BrokerCall, Going
    <3>2. CASE c = l /\ l # NoCall
      BY <1>4, <3>2 DEF LifeCall, Going, Calling
    <3> QED BY <1>6, <3>1, <3>2
  <2>9. KnowInv'
    BY <1>1, <2>1, <2>8 DEF KnowInv, LifeAnswer
  <2> QED BY <2>2, <2>7, <2>9
<1> QED BY <1>9, <1>14, <1>15, <1>16, <1>17, <1>18 DEF PipeInv

\* An answer reaches one caller.
LEMMA AnswerShape ==
    ASSUME Types, NEW p \in Callers, NEW answer \in Answers,
           waits' = [waits EXCEPT ![p].answer = answer]
    PROVE  /\ waits' \in [Callers -> Waits]
           /\ \A q \in Callers : /\ waits'[q].on = waits[q].on
                                 /\ waits'[q].age = waits[q].age
                                 /\ q # p => waits'[q] = waits[q]
           /\ waits'[p].answer = answer
<1>1. waits \in [Callers -> Waits]
  BY DEF Types
<1>2. \A q \in Callers : waits[q] \in Waits
  BY <1>1
<1>3. [waits[p] EXCEPT !.answer = answer] \in Waits
  BY <1>2, Zenon DEF Waits
<1>4. waits' = [waits EXCEPT ![p] = [waits[p] EXCEPT !.answer = answer]]
  OBVIOUS
<1>5. waits' \in [Callers -> Waits]
  BY <1>1, <1>3, <1>4
<1>6. waits'[p] = [waits[p] EXCEPT !.answer = answer]
  BY <1>1, <1>4
<1>7. \A q \in Callers : q # p => waits'[q] = waits[q]
  BY <1>1, <1>4
<1>8. /\ waits'[p].on = waits[p].on /\ waits'[p].age = waits[p].age
      /\ waits'[p].answer = answer
  BY <1>2, <1>6 DEF Waits
<1> QED BY <1>5, <1>7, <1>8

\* The transaction ends: with the reply, with another reply or with none.
LEMMA OwnerEndsKeeps ==
    ASSUME PipeInv, OwnerReads \/ OwnerTimesOut
    PROVE  PipeInv'
<1> DEFINE call == serving.call
<1>1. /\ call # NoCall /\ serving'.call = NoCall /\ serving'.age = 0
      /\ serving' = [call |-> NoCall, age |-> 0]
      /\ modem' = modem /\ inbox' = inbox /\ calls' = calls /\ life' = life
      /\ broker' = broker /\ outcomes' = outcomes /\ aired' = aired
  BY DEF OwnerReads, OwnerTimesOut, OwnerEnds
<1>2. call \in Calls /\ line \in Seq(Replies)
  BY <1>1, Fields DEF PipeInv, Types
<1>3. PICK answer \in Answers :
          /\ answer # Pending
          /\ waits' = IF call.live THEN [waits EXCEPT ![call.by].answer = answer]
                      ELSE waits
          /\ answer # Failure =>
                /\ line # <<>> /\ answer = Head(line)
                /\ call.op = "tx_burst" => AckIn(line)
                /\ call.op = "rf_status" => answer.kind = "rf_status"
                /\ call.op = "rf_diag" => answer.kind = "rf_diag"
          /\ line' \in Seq(Replies)
  <2>1. CASE OwnerReads
    <3> DEFINE a == Parsed(call.op, Head(line))
    <3>1. line # <<>> /\ line' = Tail(line)
          /\ waits' = IF call.live THEN [waits EXCEPT ![call.by].answer = a] ELSE waits
      BY <2>1 DEF OwnerReads, OwnerEnds
    <3>2. Head(line) \in Replies /\ line' \in Seq(Replies)
          /\ (Head(line).kind = "ack_rf" => AckIn(line))
      BY <1>2, <3>1, SeqSplits, BurstTail
    <3>3. call.op \in Ops
      BY <1>2 DEF Calls
    <3>4. /\ a \in Answers /\ a # Pending
          /\ a # Failure => /\ a = Head(line)
                            /\ call.op = "tx_burst" => a.kind = "ack_rf"
                            /\ call.op = "rf_status" => a.kind = "rf_status"
                            /\ call.op = "rf_diag" => a.kind = "rf_diag"
      BY <3>2, <3>3, Parsing
    <3> HIDE DEF a, call
    <3> QED BY <3>1, <3>2, <3>4
  <2>2. CASE OwnerTimesOut
    <3>1. line' = line
          /\ waits' = IF call.live THEN [waits EXCEPT ![call.by].answer = Failure]
                      ELSE waits
      BY <2>2 DEF OwnerTimesOut, OwnerEnds
    <3> HIDE DEF call
    <3> QED BY <1>2, <3>1, Marks
  <2> QED BY <2>1, <2>2
<1>4. /\ waits' \in [Callers -> Waits]
      /\ \A p \in Callers : waits'[p].on = waits[p].on /\ waits'[p].age = waits[p].age
      /\ \A p \in Callers : ~call.live \/ p # call.by => waits'[p] = waits[p]
      /\ call.live => waits'[call.by].answer = answer
  <2>1. call.by \in Callers
    BY <1>2 DEF Calls
  <2>2. CASE call.live
    <3>1. waits' = [waits EXCEPT ![call.by].answer = answer]
      BY <1>3, <2>2
    <3>2. Types
      BY DEF PipeInv
    <3> HIDE DEF call
    <3> QED BY <2>1, <2>2, <3>1, <3>2, AnswerShape
  <2>3. CASE ~call.live
    BY <1>3, <2>3 DEF PipeInv, Types
  <2> QED BY <2>2, <2>3
<1> HIDE DEF call
<1>5. Types'
  <2>1. serving' \in Servings
    BY <1>1, TxPipelineAssumption DEF Servings
  <2> QED BY <1>1, <1>3, <1>4, <2>1 DEF PipeInv, Types
<1>6. PICK b, l : Holds(b, l) /\ BrokerCall(b) /\ LifeCall(l)
  BY DEF PipeInv, WorkInv
<1>7. BurstInv'
  BY <1>1, BurstEmpty DEF PipeInv, BurstInv, Sent
<1>8. "life" \in Callers /\ "broker" \in Callers
  BY DEF Callers
<1>9. CASE call = b /\ b # NoCall
  <2>1. /\ call.by = "broker" /\ calls = Queue(NoCall, l)
        /\ l \in Calls \cup {NoCall} /\ (l # NoCall => l.by = "life")
    BY <1>1, <1>6, <1>9 DEF Holds, call
  <2>2. waits'["life"] = waits["life"] /\ (~b.live => waits'["broker"] = waits["broker"])
    BY <1>4, <1>8, <1>9, <2>1
  <2>3. LifeAnswer' = LifeAnswer /\ (Going' <=> Going)
    BY <1>1, <2>2 DEF LifeAnswer, Going
  <2>4. b.live => waits["broker"].on /\ BrokerAnswer' = answer
    BY <1>4, <1>6, <1>9, <2>1 DEF BrokerCall, BrokerAnswer
  <2>5. ~(waits'["broker"].on /\ BrokerAnswer' = Pending)
    <3>1. CASE b.live
      BY <1>3, <2>4, <3>1
    <3>2. CASE ~b.live
      BY <1>6, <1>9, <2>2, <3>2 DEF BrokerCall, BrokerAnswer
    <3> QED BY <3>1, <3>2
  <2>6. WorkInv'
    <3>1. Holds(NoCall, l)'
      BY <1>1, <2>1 DEF Holds
    <3>2. BrokerCall(NoCall)'
      BY <2>5 DEF BrokerCall
    <3>3. LifeCall(l)'
      BY <1>1, <1>6, <2>2, <2>3 DEF LifeCall
    <3> QED BY <3>1, <3>2, <3>3 DEF WorkInv
  <2>7. BrokerInv'
    <3>1. broker.pc = "burst" /\ broker.live /\ BrokerAnswer' \notin {Pending, Failure} =>
              Sent(life.frame)
      <4>1. CASE ~b.live
        BY <2>2, <4>1 DEF PipeInv, BrokerInv, BrokerAnswer
      <4>2. CASE b.live
        <5>1. broker.pc = "burst" => b.op = "tx_burst"
          BY <1>6, <1>9, <4>2 DEF BrokerCall, BrokerOp
        <5> QED BY <1>1, <1>3, <1>9, <2>4, <4>2, <5>1 DEF PipeInv, BurstInv, call
      <4> QED BY <4>1, <4>2
    <3>2. ~waits["broker"].on => BrokerAnswer' = Pending
      BY <2>2, <2>4 DEF PipeInv, BrokerInv, BrokerAnswer
    <3> QED BY <1>1, <1>4, <1>8, <3>1, <3>2 DEF PipeInv, BrokerInv, Sent
  <2>8. LifeInv'
    BY <1>1, <2>2, <2>3 DEF PipeInv, LifeInv, Sent
  <2>9. GoingInv'
    <3> SUFFICES ASSUME Going PROVE InboxInv' /\ LineInv' /\ KnowInv'
      BY <2>3 DEF GoingInv
    <3>1. InboxInv /\ LineInv /\ KnowInv
      BY DEF PipeInv, GoingInv
    <3>2. LineInv'
      BY <1>1 DEF LineInv
    <3>3. KnowInv'
      BY <1>1, <2>3, <3>1 DEF KnowInv
    <3>4. ASSUME inbox # <<>>
          PROVE  Left(Head(inbox))' /\ Tail(inbox) = <<>>
      <4>1. Head(inbox) = Request(b) /\ Tail(inbox) = <<>> /\ line = <<>>
        BY <1>1, <1>9, <2>1, <3>1, <3>4 DEF InboxInv, call
      <4>2. answer = Failure
        BY <1>3, <4>1
      <4>3. BrokerOut'
        <5>1. CASE b.live
          BY <1>4, <1>8, <2>4, <4>2, <5>1 DEF BrokerOut
        <5>2. CASE ~b.live
          <6>1. BrokerOut
            BY <1>6, <1>9, <5>2 DEF BrokerCall
          <6> QED BY <1>1, <2>2, <5>2, <6>1 DEF BrokerOut, BrokerAnswer
        <5> QED BY <5>1, <5>2
      <4>4. Request(b).op = b.op
        BY DEF Request
      <4>5. /\ b.op \in {"rf_status", "tx_burst"} /\ life.pc \in {"submit", "status"}
            /\ b.op = "rf_status" => modem.tx = "idle" /\ broker.pc # "burst"
        BY <1>6, <1>9 DEF BrokerCall, Going
      <4> QED BY <1>1, <4>1, <4>3, <4>4, <4>5 DEF Left
    <3>5. InboxInv'
      BY <1>1, <3>4 DEF InboxInv
    <3> QED BY <3>2, <3>3, <3>5
  <2> QED BY <1>5, <1>7, <2>6, <2>7, <2>8, <2>9 DEF PipeInv
<1>10. CASE call = l /\ l # NoCall /\ b = NoCall
  <2>1. call.by = "life" /\ calls = <<>>
    BY <1>1, <1>6, <1>10 DEF Holds, call, Queue
  <2>2. waits'["broker"] = waits["broker"] /\ (~l.live => waits'["life"] = waits["life"])
    BY <1>4, <1>8, <1>10, <2>1
  <2>3. BrokerAnswer' = BrokerAnswer
    BY <2>2 DEF BrokerAnswer
  <2>4. l.live => waits["life"].on /\ LifeAnswer' = answer
    BY <1>4, <1>6, <1>10, <2>1 DEF LifeCall, LifeAnswer
  <2>5. ~(waits'["life"].on /\ LifeAnswer' = Pending)
    BY <1>3, <1>6, <1>10, <2>2, <2>4 DEF LifeCall, LifeAnswer
  <2>6. WorkInv'
    <3>1. Holds(NoCall, NoCall)'
      BY <1>1, <2>1 DEF Holds, Queue
    <3>2. BrokerCall(NoCall)'
      BY <1>6, <1>10, <2>2, <2>3 DEF BrokerCall
    <3>3. LifeCall(NoCall)'
      BY <2>5 DEF LifeCall
    <3> QED BY <3>1, <3>2, <3>3 DEF WorkInv
  <2>7. BrokerInv'
    BY <1>1, <2>2, <2>3 DEF PipeInv, BrokerInv, Sent
  <2>8. LifeInv'
    <3>1. ~waits["life"].on => LifeAnswer' = Pending
      BY <2>2, <2>4 DEF PipeInv, LifeInv, LifeAnswer
    <3> QED BY <1>1, <1>4, <1>8, <3>1 DEF PipeInv, LifeInv, Sent
  <2>9. GoingInv'
    <3> SUFFICES ASSUME Going' PROVE InboxInv' /\ LineInv' /\ KnowInv'
      BY DEF GoingInv
    <3>1. l.live
      <4>1. ~l.live => life.latched \/ LifeAnswer = Failure
        BY <1>6, <1>10 DEF LifeCall
      <4> QED BY <1>1, <2>2, <4>1 DEF Going, LifeAnswer
    <3>2. LifeAnswer = Pending /\ LifeAnswer' = answer /\ ~life.latched /\ answer # Failure
      BY <1>1, <1>6, <1>10, <2>4, <3>1 DEF LifeCall, Going
    <3>3. Going
      BY <3>2, Marks DEF Going
    <3>4. InboxInv /\ LineInv /\ KnowInv
      BY <3>3 DEF PipeInv, GoingInv
    <3>5. line # <<>> /\ answer = Head(line) /\ l.op = LifeOp(life.pc) /\ life.pc \in Calling
          /\ (l.op = "rf_status" => answer.kind = "rf_status")
          /\ (l.op = "rf_diag" => answer.kind = "rf_diag")
      BY <1>3, <1>6, <1>10, <3>1, <3>2 DEF LifeCall
    <3>6. /\ life.pc = "status" => answer.kind = "rf_status"
          /\ life.pc = "diag" => answer.kind = "rf_diag"
      BY <3>5 DEF LifeOp
    <3>7. inbox # <<>> => /\ Head(inbox) = Request(l) /\ Tail(inbox) = <<>>
                          /\ life.pc \in {"status", "diag"}
      BY <1>1, <1>10, <3>4, <3>5 DEF InboxInv, call
    <3>8. /\ life.pc = "status" =>
                /\ ~answer.remain => modem.tx \in {"draining", "idle"}
                /\ inbox # <<>> => Left(Head(inbox))
          /\ life.pc = "diag" =>
                /\ inbox = <<>>
                /\ ~answer.tx /\ ~life.remain => modem.tx = "idle"
          /\ life.pc = "verify" /\ answer.rx => modem.rx
      BY <1>1, <1>10, <2>1, <3>4, <3>5, <3>6 DEF LineInv, call
    <3>9. life.pc = "status" => ~BurstIn(inbox)
      <4>1. life.pc = "status" => Request(l).op # "tx_burst"
        BY <3>5 DEF LifeOp, Request
      <4>2. inbox \in Seq(Requests)
        BY DEF PipeInv, Types
      <4>3. inbox # <<>> => (BurstIn(inbox) <=> Head(inbox).op = "tx_burst" \/ BurstIn(Tail(inbox)))
        BY <4>2, BurstTail
      <4> QED BY <3>7, <4>1, <4>3, BurstEmpty
    <3>10. LineInv'
      BY <1>1 DEF LineInv
    <3>11. InboxInv'
      <4>1. ASSUME inbox # <<>> PROVE Left(Head(inbox))'
        <5>1. Left(Head(inbox))
          BY <3>7, <3>8, <4>1
        <5> QED BY <1>1, <2>2, <2>3, <5>1 DEF Left, BrokerOut
      <4> QED BY <1>1, <3>7, <4>1 DEF InboxInv
    <3>12. KnowInv'
      BY <1>1, <3>2, <3>4, <3>6, <3>8, <3>9 DEF KnowInv
    <3> QED BY <3>10, <3>11, <3>12
  <2> QED BY <1>5, <1>7, <2>6, <2>7, <2>8, <2>9 DEF PipeInv
<1> QED BY <1>1, <1>6, <1>9, <1>10 DEF Holds, call

\* A call that is given up stays the call it is.
LEMMA ForsakenCall ==
    ASSUME NEW c \in Calls \cup {NoCall}, NEW p \in Callers
    PROVE  /\ Forsaken(c, p) \in Calls \cup {NoCall}
           /\ Forsaken(c, p) = NoCall <=> c = NoCall
           /\ c # NoCall =>
                 /\ Forsaken(c, p).op = c.op /\ Forsaken(c, p).frame = c.frame
                 /\ Forsaken(c, p).by = c.by
                 /\ c.by = p => ~Forsaken(c, p).live
                 /\ c.by # p => Forsaken(c, p) = c
<1>1. CASE c = NoCall
  BY <1>1 DEF Forsaken
<1>2. CASE c # NoCall /\ c.by # p
  BY <1>2 DEF Forsaken
<1>3. CASE c # NoCall /\ c.by = p
  <2>1. Forsaken(c, p) = [c EXCEPT !.live = FALSE] /\ c \in Calls
    BY <1>3 DEF Forsaken
  <2>2. [c EXCEPT !.live = FALSE] \in Calls
    BY <2>1 DEF Calls
  <2>3. /\ Forsaken(c, p).op = c.op /\ Forsaken(c, p).frame = c.frame
        /\ Forsaken(c, p).by = c.by /\ Forsaken(c, p).live = FALSE
    BY <2>1 DEF Calls
  <2> QED BY <1>3, <2>1, <2>2, <2>3, Marks
<1> QED BY <1>1, <1>2, <1>3

\* Giving up keeps the queue in order.
LEMMA QueueForsaken ==
    ASSUME NEW b \in Calls \cup {NoCall}, NEW l \in Calls \cup {NoCall},
           NEW p \in Callers
    PROVE  [i \in 1..Len(Queue(b, l)) |-> Forsaken(Queue(b, l)[i], p)]
               = Queue(Forsaken(b, p), Forsaken(l, p))
<1> DEFINE F(c) == Forsaken(c, p)
           q == [i \in 1..Len(Queue(b, l)) |-> F(Queue(b, l)[i])]
<1>1. /\ F(b) \in Calls \cup {NoCall} /\ F(l) \in Calls \cup {NoCall}
      /\ F(b) = NoCall <=> b = NoCall
      /\ F(l) = NoCall <=> l = NoCall
  BY ForsakenCall
<1> HIDE DEF F
<1>2. CASE b = NoCall /\ l = NoCall
  <2>1. Queue(b, l) = <<>> /\ Queue(F(b), F(l)) = <<>>
    BY <1>1, <1>2 DEF Queue
  <2>2. q = <<>>
    BY <2>1
  <2> QED BY <2>1, <2>2 DEF F
<1>3. ASSUME NEW c \in Calls, Queue(b, l) = <<c>>, F(c) \in Calls,
             Queue(F(b), F(l)) = <<F(c)>>
      PROVE  q = Queue(F(b), F(l))
  <2>1. Len(<<c>>) = 1 /\ <<c>>[1] = c
    OBVIOUS
  <2>2. q = [i \in 1..1 |-> F(c)]
    BY <1>3, <2>1
  <2> QED BY <1>3, <2>2
<1>4. CASE b = NoCall /\ l # NoCall
  <2>1. Queue(b, l) = <<l>> /\ Queue(F(b), F(l)) = <<F(l)>> /\ l \in Calls /\ F(l) \in Calls
    BY <1>1, <1>4 DEF Queue
  <2> QED BY <1>3, <2>1 DEF F
<1>5. CASE b # NoCall /\ l = NoCall
  <2>1. Queue(b, l) = <<b>> /\ Queue(F(b), F(l)) = <<F(b)>> /\ b \in Calls /\ F(b) \in Calls
    BY <1>1, <1>5 DEF Queue
  <2> QED BY <1>3, <2>1 DEF F
<1>6. CASE b # NoCall /\ l # NoCall
  <2>1. Queue(b, l) = <<b, l>> /\ Queue(F(b), F(l)) = <<F(b), F(l)>>
    BY <1>1, <1>6 DEF Queue
  <2>2. /\ Len(<<b, l>>) = 2 /\ <<b, l>>[1] = b /\ <<b, l>>[2] = l
        /\ <<F(b), F(l)>> = [i \in 1..2 |-> IF i = 1 THEN F(b) ELSE F(l)]
    OBVIOUS
  <2>3. q = [i \in 1..2 |-> F(<<b, l>>[i])]
    BY <2>1, <2>2
  <2>4. \A i \in 1..2 : F(<<b, l>>[i]) = IF i = 1 THEN F(b) ELSE F(l)
    BY <2>2
  <2>5. q = <<F(b), F(l)>>
    BY <2>2, <2>3, <2>4
  <2> QED BY <2>1, <2>5 DEF F
<1> QED BY <1>2, <1>4, <1>5, <1>6

\* A caller gives up its call.  The broker's is in service then: the owner
\* takes it at once.
LEMMA GivesUpKeeps ==
    ASSUME PipeInv, NEW p \in Callers, CallerGivesUp(p)
    PROVE  PipeInv'
<1> DEFINE F(c) == Forsaken(c, p)
<1>1. /\ waits[p].on /\ waits[p].answer = Pending /\ waits[p].age >= OwnerWait
      /\ waits' = [waits EXCEPT ![p].answer = Failure]
      /\ calls' = [i \in 1..Len(calls) |-> F(calls[i])]
      /\ serving' = [serving EXCEPT !.call = F(@)]
      /\ modem' = modem /\ inbox' = inbox /\ line' = line /\ aired' = aired
      /\ life' = life /\ broker' = broker /\ outcomes' = outcomes
  BY DEF CallerGivesUp, linkVars
<1>2. Types /\ serving.call \in Calls \cup {NoCall} /\ serving \in Servings
  BY Fields DEF PipeInv, Types
<1>3. /\ F(serving.call) \in Calls \cup {NoCall}
      /\ F(serving.call) = NoCall <=> serving.call = NoCall
      /\ serving.call # NoCall => /\ F(serving.call).op = serving.call.op
                                  /\ F(serving.call).frame = serving.call.frame
                                  /\ F(serving.call).by = serving.call.by
  BY <1>2, ForsakenCall
<1>4. serving' \in Servings /\ serving'.call = F(serving.call) /\ serving'.age = serving.age
  <2> HIDE DEF F
  <2>1. serving' = [serving EXCEPT !.call = F(serving.call)]
    BY <1>1
  <2>2. [serving EXCEPT !.call = F(serving.call)] \in Servings
    BY <1>2, <1>3, Zenon DEF Servings
  <2> QED BY <1>2, <2>1, <2>2 DEF Servings
<1>5. /\ waits' \in [Callers -> Waits]
      /\ \A q \in Callers : /\ waits'[q].on = waits[q].on /\ waits'[q].age = waits[q].age
                            /\ q # p => waits'[q] = waits[q]
      /\ waits'[p].answer = Failure
  BY <1>1, <1>2, AnswerShape, Marks
<1>6. PICK b, l : Holds(b, l) /\ BrokerCall(b) /\ LifeCall(l)
  BY DEF PipeInv, WorkInv
<1>7. /\ b \in Calls \cup {NoCall} /\ l \in Calls \cup {NoCall}
      /\ b # NoCall => b.by = "broker"
      /\ l # NoCall => l.by = "life"
      /\ NoCall \in Calls \cup {NoCall}
  BY <1>6 DEF Holds
<1>8. /\ F(b) \in Calls \cup {NoCall} /\ F(l) \in Calls \cup {NoCall}
      /\ F(NoCall) = NoCall
      /\ F(b) = NoCall <=> b = NoCall
      /\ F(l) = NoCall <=> l = NoCall
      /\ b # NoCall => /\ F(b).op = b.op /\ F(b).frame = b.frame /\ F(b).by = b.by
                       /\ p = "broker" => ~F(b).live
                       /\ p = "life" => F(b) = b
      /\ l # NoCall => /\ F(l).op = l.op /\ F(l).frame = l.frame /\ F(l).by = l.by
                       /\ p = "life" => ~F(l).live
                       /\ p = "broker" => F(l) = l
  BY <1>7, ForsakenCall
<1>9. \/ serving.call = NoCall /\ calls = Queue(b, l) /\ calls' = Queue(F(b), F(l))
      \/ /\ serving.call = b /\ b # NoCall
         /\ calls = Queue(NoCall, l) /\ calls' = Queue(F(NoCall), F(l))
      \/ /\ serving.call = l /\ b = NoCall /\ l # NoCall
         /\ calls = Queue(NoCall, NoCall) /\ calls' = Queue(F(NoCall), F(NoCall))
  <2>1. <<>> = Queue(NoCall, NoCall)
    BY DEF Queue
  <2>2. \/ serving.call = NoCall /\ calls = Queue(b, l)
        \/ serving.call = b /\ b # NoCall /\ calls = Queue(NoCall, l)
        \/ serving.call = l /\ b = NoCall /\ l # NoCall /\ calls = Queue(NoCall, NoCall)
    BY <1>6, <2>1 DEF Holds
  <2>3. ASSUME NEW x \in Calls \cup {NoCall}, NEW y \in Calls \cup {NoCall},
               calls = Queue(x, y)
        PROVE  calls' = Queue(F(x), F(y))
    <3>1. calls' = [i \in 1..Len(Queue(x, y)) |-> Forsaken(Queue(x, y)[i], p)]
      BY <1>1, <2>3, Zenon
    <3>2. [i \in 1..Len(Queue(x, y)) |-> Forsaken(Queue(x, y)[i], p)]
              = Queue(Forsaken(x, p), Forsaken(y, p))
      BY QueueForsaken
    <3> QED BY <3>1, <3>2, Zenon
  <2> HIDE DEF F
  <2> QED BY <1>7, <2>2, <2>3
<1> HIDE DEF F
<1>10. calls' \in Seq(Calls) /\ (BurstIn(calls') <=> BurstIn(calls))
  <2>1. \A x, y \in Calls \cup {NoCall} :
            /\ Queue(x, y) \in Seq(Calls)
            /\ BurstIn(Queue(x, y)) <=> \/ x # NoCall /\ x.op = "tx_burst"
                                        \/ y # NoCall /\ y.op = "tx_burst"
    BY QueueEnds
  <2>2. CASE calls = Queue(b, l) /\ calls' = Queue(F(b), F(l))
    BY <1>7, <1>8, <2>1, <2>2
  <2>3. CASE calls = Queue(NoCall, l) /\ calls' = Queue(F(NoCall), F(l))
    BY <1>7, <1>8, <2>1, <2>3
  <2>4. CASE calls = Queue(NoCall, NoCall) /\ calls' = Queue(F(NoCall), F(NoCall))
    BY <1>7, <1>8, <2>1, <2>4
  <2> QED BY <1>9, <2>2, <2>3, <2>4
<1>11. Types'
  BY <1>1, <1>2, <1>4, <1>5, <1>10 DEF Types
<1>12. BurstInv'
  BY <1>1, <1>3, <1>4, <1>10 DEF PipeInv, BurstInv, Sent
<1>13. Holds(F(b), F(l))'
  <2>1. \/ serving'.call = NoCall /\ calls' = Queue(F(b), F(l))
        \/ serving'.call = F(b) /\ F(b) # NoCall /\ calls' = Queue(NoCall, F(l))
        \/ serving'.call = F(l) /\ F(b) = NoCall /\ F(l) # NoCall /\ calls' = <<>>
    BY <1>4, <1>8, <1>9 DEF Queue
  <2> QED BY <1>7, <1>8, <2>1 DEF Holds
<1>14. "life" \in Callers /\ "broker" \in Callers /\ p \in {"life", "broker"}
  BY DEF Callers
<1>15. /\ waits'["life"].on = waits["life"].on
       /\ waits'["broker"].on = waits["broker"].on
       /\ waits'["broker"].age = waits["broker"].age
  BY <1>5, <1>14
<1>16. CASE p = "life"
  <2>1. /\ waits'["broker"] = waits["broker"] /\ BrokerAnswer' = BrokerAnswer
        /\ LifeAnswer' = Failure /\ LifeAnswer = Pending /\ waits["life"].on
    BY <1>1, <1>5, <1>14, <1>16 DEF BrokerAnswer, LifeAnswer
  <2>2. ~Going'
    BY <2>1 DEF Going
  <2>3. BrokerCall(F(b))'
    <3>1. b # NoCall => F(b) = b /\ (serving'.call = b <=> serving.call = b)
      BY <1>4, <1>8, <1>9, <1>16
    <3>2. b = NoCall => F(b) = NoCall
      BY <1>8
    <3>3. CASE b = NoCall
      BY <1>6, <2>1, <3>2, <3>3 DEF BrokerCall
    <3>4. CASE b # NoCall
      BY <1>1, <1>4, <1>6, <2>1, <2>2, <3>1, <3>4 DEF BrokerCall
    <3> QED BY <3>3, <3>4
  <2>4. LifeCall(F(l))'
    BY <1>1, <1>6, <1>8, <1>16, <2>1, Marks DEF LifeCall
  <2>5. WorkInv'
    BY <1>13, <2>3, <2>4 DEF WorkInv
  <2>6. BrokerInv'
    BY <1>1, <2>1 DEF PipeInv, BrokerInv, Sent
  <2>7. LifeInv'
    BY <1>1, <1>10, <1>15, <2>1 DEF PipeInv, LifeInv, Sent
  <2> QED BY <1>11, <1>12, <2>2, <2>5, <2>6, <2>7 DEF PipeInv, GoingInv
<1>17. CASE p = "broker"
  <2>1. /\ waits'["life"] = waits["life"] /\ LifeAnswer' = LifeAnswer
        /\ BrokerAnswer' = Failure /\ BrokerAnswer = Pending
        /\ waits["broker"].on /\ waits'["broker"].on
    BY <1>1, <1>5, <1>14, <1>15, <1>17 DEF BrokerAnswer, LifeAnswer
  <2>2. (Going' <=> Going) /\ BrokerOut'
    BY <1>1, <2>1 DEF Going, BrokerOut
  <2>3. b # NoCall /\ b.live /\ serving.call = b /\ serving'.call = F(b) /\ F(b) # NoCall
    <3>1. b # NoCall /\ b.live
      BY <1>6, <2>1 DEF BrokerCall
    <3>2. waits["broker"].age > 0
      <4>1. OwnerWait \in Nat /\ OwnerWait > 0
        BY TxPipelineAssumption DEF OwnerWait
      <4>2. waits["broker"].age \in Nat /\ waits["broker"].age >= OwnerWait
        BY <1>1, <1>2, <1>14, <1>17, Fields
      <4> QED BY <4>1, <4>2
    <3>3. serving.call = b
      <4>1. waits["broker"].age <= IF serving.call = b THEN serving.age ELSE 0
        BY <1>6, <3>1 DEF BrokerCall
      <4> QED BY <1>2, <1>14, <3>2, <4>1, Fields
    <3> QED BY <1>4, <1>8, <3>1, <3>3
  <2>4. BrokerCall(F(b))'
    <3>1. ~F(b).live
      BY <1>8, <1>17, <2>3
    <3>2. ~(waits'["broker"].on /\ BrokerAnswer' = Pending)
      BY <2>1, Marks
    <3> QED BY <1>1, <1>6, <1>8, <2>1, <2>2, <2>3, <3>1, <3>2 DEF BrokerCall
  <2>5. LifeCall(F(l))'
    BY <1>1, <1>6, <1>8, <1>17, <2>1 DEF LifeCall
  <2>6. WorkInv'
    BY <1>13, <2>4, <2>5 DEF WorkInv
  <2>7. BrokerInv'
    BY <1>1, <1>15, <2>1 DEF PipeInv, BrokerInv, Sent
  <2>8. LifeInv'
    BY <1>1, <1>10, <2>1 DEF PipeInv, LifeInv, Sent
  <2>9. GoingInv'
    <3> SUFFICES ASSUME Going PROVE InboxInv' /\ LineInv' /\ KnowInv'
      BY <2>2 DEF GoingInv
    <3>1. InboxInv /\ LineInv /\ KnowInv
      BY DEF PipeInv, GoingInv
    <3>2. /\ serving.call # NoCall /\ serving'.call # NoCall
          /\ serving.call.by = "broker" /\ serving'.call.by = "broker"
          /\ Request(serving'.call) = Request(serving.call)
      BY <1>3, <1>4, <1>7, <2>3 DEF Request
    <3>3. InboxInv'
      BY <1>1, <3>1, <3>2 DEF InboxInv, Request
    <3>4. LineInv'
      BY <3>2 DEF LineInv
    <3>5. KnowInv'
      BY <1>1, <2>1, <3>1 DEF KnowInv
    <3> QED BY <3>3, <3>4, <3>5
  <2> QED BY <1>11, <1>12, <2>6, <2>7, <2>8, <2>9 DEF PipeInv
<1> QED BY <1>14, <1>16, <1>17

-----------------------------------------------------------------------------
(***************************************************************************)
(* The TX broker                                                           *)
(***************************************************************************)

\* The caller's new call c joins the queue, and it waits for it.
Joins(c, p) ==
    /\ c.by = p /\ c.live /\ c # NoCall
    /\ calls' = Append(calls, c) /\ calls' \in Seq(Calls)
    /\ BurstIn(calls') <=> BurstIn(calls) \/ c.op = "tx_burst"
    /\ waits' \in [Callers -> Waits]
    /\ \A q \in Callers : q # p => waits'[q] = waits[q]
    /\ waits'[p].on = TRUE /\ waits'[p].age = 0 /\ waits'[p].answer = Pending

\* A caller asks, and waits for its own call only.
LEMMA AskShape ==
    ASSUME Types, NEW p \in Callers, NEW op \in Ops, NEW frame \in Nat,
           Ask(p, op, frame)
    PROVE  \E c \in Calls : c.op = op /\ c.frame = frame /\ Joins(c, p)
<1> DEFINE c == [op |-> op, frame |-> frame, by |-> p, live |-> TRUE]
           w == [NotWaiting EXCEPT !.on = TRUE]
<1>1. c \in Calls /\ c.op = op /\ c.frame = frame /\ c.by = p /\ c.live
  BY DEF Calls
<1>2. NotWaiting \in Waits /\ NotWaiting.age = 0 /\ NotWaiting.answer = Pending
  BY Marks DEF NotWaiting, Waits
<1>3. w \in Waits /\ w.on = TRUE /\ w.age = 0 /\ w.answer = Pending
  <2>1. w \in Waits
    BY <1>2, Zenon DEF Waits
  <2>2. w.on = TRUE /\ w.age = NotWaiting.age /\ w.answer = NotWaiting.answer
    BY <1>2 DEF Waits
  <2> QED BY <1>2, <2>1, <2>2
<1>4. calls' = Append(calls, c) /\ waits' = [waits EXCEPT ![p] = w]
  BY DEF Ask
<1>5. calls \in Seq(Calls) /\ waits \in [Callers -> Waits]
  BY DEF Types
<1> HIDE DEF c, w
<1>6. calls' \in Seq(Calls) /\ (BurstIn(calls') <=> BurstIn(calls) \/ c.op = "tx_burst")
  BY <1>1, <1>4, <1>5, SeqAppends, BurstAppend
<1>7. /\ waits' \in [Callers -> Waits] /\ waits'[p] = w
      /\ \A q \in Callers : q # p => waits'[q] = waits[q]
  BY <1>3, <1>4, <1>5
<1>8. c # NoCall
  BY <1>1, Marks
<1>9. Joins(c, p)
  BY <1>1, <1>3, <1>4, <1>6, <1>7, <1>8 DEF Joins
<1> QED BY <1>1, <1>9

\* A caller waits for nothing any more.
LEMMA WakeShape ==
    ASSUME Types, NEW p \in Callers, waits' = [waits EXCEPT ![p] = NotWaiting]
    PROVE  /\ waits' \in [Callers -> Waits]
           /\ \A q \in Callers : q # p => waits'[q] = waits[q]
           /\ waits'[p].on = FALSE /\ waits'[p].age = 0 /\ waits'[p].answer = Pending
<1>1. /\ NotWaiting \in Waits /\ NotWaiting.on = FALSE /\ NotWaiting.age = 0
      /\ NotWaiting.answer = Pending
  BY Marks DEF NotWaiting, Waits
<1>2. waits \in [Callers -> Waits]
  BY DEF Types
<1>3. waits' \in [Callers -> Waits] /\ waits'[p] = NotWaiting
  BY <1>1, <1>2, Zenon
<1>4. \A q \in Callers : q # p => waits'[q] = waits[q]
  BY <1>2, Zenon
<1> QED BY <1>1, <1>3, <1>4

\* The callers are two.
LEMMA TwoCallers == Callers = {"life", "broker"} /\ "life" # "broker"
BY DEF Callers

\* The broker makes the call of its preflight, or of its burst.
LEMMA BrokerAsksKeeps ==
    ASSUME PipeInv, BrokerBegins \/ BrokerSends
    PROVE  PipeInv'
<1>1. PICK pc \in {"preflight", "burst"} :
          /\ broker' = [broker EXCEPT !.pc = pc]
          /\ Ask("broker", BrokerOp(pc), broker.frame)
          /\ pc = "preflight" => broker.pc = "posted"
          /\ pc = "burst" =>
                broker.pc = "preflight" /\ BrokerAnswer \notin {Pending, Failure}
  BY DEF BrokerBegins, BrokerSends, BrokerOp
<1>2. /\ modem' = modem /\ inbox' = inbox /\ line' = line /\ aired' = aired
      /\ serving' = serving /\ life' = life /\ outcomes' = outcomes
  BY DEF BrokerBegins, BrokerSends, linkVars
<1>3. /\ life.pc = "submit" /\ Going /\ broker.live /\ broker.frame = life.frame
      /\ serving.call = NoCall /\ calls = <<>> /\ inbox = <<>>
      /\ life.latched = FALSE /\ LifeAnswer = Pending /\ ~waits["life"].on
  <2>1. waits["broker"].on => BrokerAnswer \notin {Pending, Failure}
    BY <1>1 DEF PipeInv, BrokerInv
  <2>2. /\ life.pc = "submit" /\ Going
        /\ serving.call = NoCall /\ calls = <<>> /\ inbox = <<>>
    BY <1>1, <2>1, BrokerAlone
  <2>3. life.latched = FALSE /\ LifeAnswer = Pending /\ ~waits["life"].on
    BY <2>2, SubmitGoing, Fields DEF PipeInv
  <2> QED BY <1>1, <2>2, <2>3 DEF PipeInv, BrokerInv
<1>4. /\ broker' \in Brokers /\ broker'.pc = pc /\ broker'.frame = broker.frame
      /\ broker'.live = broker.live /\ broker'.result = broker.result
  BY <1>1 DEF PipeInv, Types, Brokers
<1>5. Types /\ "broker" \in Callers /\ "life" \in Callers /\ broker.frame \in Nat
      /\ BrokerOp(pc) \in Ops
  BY <1>1, Fields, TwoCallers DEF PipeInv, BrokerOp, Ops
<1>6. PICK c \in Calls :
           c.op = BrokerOp(pc) /\ c.frame = broker.frame /\ Joins(c, "broker")
  BY <1>1, <1>5, AskShape
<1>7. /\ c.op = BrokerOp(pc) /\ c.frame = broker.frame /\ c.by = "broker"
      /\ c.live /\ c # NoCall
      /\ calls' = Append(calls, c) /\ calls' \in Seq(Calls)
      /\ BurstIn(calls') <=> BurstIn(calls) \/ c.op = "tx_burst"
      /\ waits' \in [Callers -> Waits]
      /\ waits'["broker"].on = TRUE /\ waits'["broker"].age = 0
      /\ waits'["broker"].answer = Pending
  BY <1>6 DEF Joins
<1>8. waits'["life"] = waits["life"] /\ LifeAnswer' = LifeAnswer /\ BrokerAnswer' = Pending
  BY <1>5, <1>6, TwoCallers DEF LifeAnswer, BrokerAnswer, Joins
<1>9. Types'
  BY <1>2, <1>4, <1>7 DEF PipeInv, Types
<1>10. Going'
  BY <1>2, <1>3, <1>8 DEF Going
<1>11. modem.tx = "idle"
  BY <1>1, <1>3 DEF PipeInv, GoingInv, KnowInv
<1>12. WorkInv'
  <2>1. calls' = Queue(c, NoCall)
    BY <1>3, <1>7, QueueEnds
  <2>2. Holds(c, NoCall)'
    BY <1>2, <1>3, <1>7, <2>1 DEF Holds
  <2>3. BrokerCall(c)'
    <3>1. c.op \in {"rf_status", "tx_burst"}
      BY <1>1, <1>7 DEF BrokerOp
    <3>2. c.op = "rf_status" => modem'.tx = "idle" /\ broker'.pc = "preflight"
      BY <1>2, <1>4, <1>7, <1>11, <1>1 DEF BrokerOp
    <3>3. serving'.call # c
      BY <1>2, <1>3, <1>7
    <3> QED BY <1>2, <1>3, <1>4, <1>7, <1>8, <3>1, <3>2, <3>3 DEF BrokerCall
  <2>4. LifeCall(NoCall)'
    BY <1>3, <1>8 DEF LifeCall
  <2> QED BY <2>2, <2>3, <2>4 DEF WorkInv
<1>13. BurstInv'
  <2>1. ~BurstIn(inbox) /\ ~Sent(life.frame) /\ ~BurstIn(calls)
    BY <1>1 DEF PipeInv, BurstInv
  <2>2. pc = "preflight" => BrokerOp(pc) # "tx_burst"
    BY DEF BrokerOp
  <2> QED BY <1>2, <1>3, <1>4, <1>7, <2>1, <2>2 DEF PipeInv, BurstInv, Sent, Early
<1>14. BrokerInv'
  <2>1. pc = "preflight" => life.waited = 0
    BY <1>1 DEF PipeInv, BrokerInv
  <2>2. 0 <= 2 * T
    BY TxPipelineAssumption
  <2>3. broker.result = "none"
    BY <1>3 DEF PipeInv, BrokerInv
  <2> QED BY <1>1, <1>2, <1>3, <1>4, <1>7, <1>8, <2>1, <2>2, <2>3
          DEF PipeInv, BrokerInv, Sent
<1>15. LifeInv'
  BY <1>2, <1>3, <1>8 DEF PipeInv, LifeInv, Sent
<1>16. GoingInv'
  <2>1. KnowInv
    BY <1>3 DEF PipeInv, GoingInv
  <2>2. InboxInv' /\ LineInv'
    BY <1>2, <1>3 DEF InboxInv, LineInv
  <2>3. KnowInv'
    BY <1>2, <1>3, <1>8, <1>11, <2>1 DEF KnowInv
  <2> QED BY <2>2, <2>3 DEF GoingInv
<1> QED BY <1>9, <1>12, <1>13, <1>14, <1>15, <1>16 DEF PipeInv

\* The job ends, with or without anybody to hear of it.
LEMMA BrokerEndsKeeps ==
    ASSUME PipeInv, BrokerSucceeds \/ BrokerFails
    PROVE  PipeInv'
<1>1. PICK result \in {"ok", "error"} :
          /\ broker' = [pc |-> "idle", frame |-> 0, live |-> FALSE,
                        result |-> IF broker.live THEN result ELSE "none"]
          /\ waits' = [waits EXCEPT !["broker"] = NotWaiting]
          /\ broker.pc \in {"preflight", "burst"} /\ BrokerAnswer # Pending
          /\ result = "ok" =>
                broker.pc = "burst" /\ BrokerAnswer \notin {Pending, Failure}
  <2>1. CASE BrokerSucceeds
    BY <2>1 DEF BrokerSucceeds, BrokerEnds
  <2>2. CASE BrokerFails
    BY <2>2, Marks DEF BrokerFails, BrokerEnds
  <2> QED BY <2>1, <2>2
<1>2. /\ modem' = modem /\ inbox' = inbox /\ line' = line /\ aired' = aired
      /\ calls' = calls /\ serving' = serving /\ life' = life /\ outcomes' = outcomes
  BY DEF BrokerSucceeds, BrokerFails, BrokerEnds, linkVars
<1>3. /\ broker' \in Brokers /\ broker'.pc = "idle" /\ broker'.live = FALSE
      /\ broker'.result = IF broker.live THEN result ELSE "none"
  BY <1>1 DEF Brokers
<1>4. /\ waits' \in [Callers -> Waits] /\ waits'["life"] = waits["life"]
      /\ waits'["broker"].on = FALSE /\ waits'["broker"].answer = Pending
  BY <1>1, WakeShape, TwoCallers DEF PipeInv
<1>5. LifeAnswer' = LifeAnswer /\ BrokerAnswer' = Pending /\ (Going' <=> Going)
  BY <1>2, <1>4 DEF LifeAnswer, BrokerAnswer, Going
<1>6. Types'
  BY <1>2, <1>3, <1>4 DEF PipeInv, Types
<1>7. BrokerOut'
  BY <1>3 DEF BrokerOut
<1>8. WorkInv'
  <2>1. PICK b, l : Holds(b, l) /\ BrokerCall(b) /\ LifeCall(l)
    BY DEF PipeInv, WorkInv
  <2>2. Holds(b, l)'
    BY <1>2, <2>1 DEF Holds
  <2>3. b # NoCall => ~b.live
    BY <1>1, <2>1 DEF BrokerCall
  <2>4. BrokerCall(b)'
    BY <1>2, <1>3, <1>4, <1>5, <1>7, <2>1, <2>3 DEF BrokerCall
  <2>5. LifeCall(l)'
    BY <1>2, <1>4, <1>5, <2>1 DEF LifeCall
  <2> QED BY <2>2, <2>4, <2>5 DEF WorkInv
<1>9. BurstInv'
  BY <1>2, <1>3 DEF PipeInv, BurstInv, Sent
<1>10. BrokerInv'
  BY <1>1, <1>2, <1>3, <1>4, <1>5 DEF PipeInv, BrokerInv, Sent
<1>11. LifeInv'
  BY <1>2, <1>4, <1>5 DEF PipeInv, LifeInv, Sent
<1>12. GoingInv'
  <2> SUFFICES ASSUME Going PROVE InboxInv' /\ LineInv' /\ KnowInv'
    BY <1>5 DEF GoingInv
  <2>1. InboxInv /\ LineInv /\ KnowInv
    BY DEF PipeInv, GoingInv
  <2>2. \A q : Left(q) => Left(q)'
    BY <1>2, <1>3, <1>7 DEF Left
  <2>3. InboxInv'
    BY <1>2, <2>1, <2>2 DEF InboxInv
  <2>4. LineInv'
    BY <1>2, <2>1, <2>2 DEF LineInv
  <2>5. KnowInv'
    BY <1>2, <1>3, <1>5, <2>1 DEF KnowInv
  <2> QED BY <2>3, <2>4, <2>5
<1> QED BY <1>6, <1>8, <1>9, <1>10, <1>11, <1>12 DEF PipeInv

-----------------------------------------------------------------------------
(***************************************************************************)
(* The half-duplex lifecycle                                               *)
(***************************************************************************)

\* The broker works for nobody while the lifecycle does not wait for it.
LEMMA BrokerQuiet ==
    ASSUME PipeInv, life.pc # "submit"
    PROVE  /\ broker \in Brokers /\ broker.pc \in {"idle", "burst"}
           /\ broker.live = FALSE /\ broker.result = "none"
<1>1. broker \in Brokers
  BY DEF PipeInv, Types
<1>2. ~broker.live /\ broker.result = "none" /\ broker.pc \notin {"posted", "preflight"}
  BY DEF PipeInv, BrokerInv
<1> QED BY <1>1, <1>2, Fields DEF PipeInv

\* The steps of a cycle from one call to the next.
Moves(to) ==
    \/ life.pc \in Early /\ to \in Early \cup {"status"}
    \/ life.pc \in {"submit", "poll"} /\ to = "status"
    \/ life.pc = "status" /\ to = "diag"
    \/ life.pc = "diag" /\ to = "start" /\ modem.tx = "idle"
    \/ life.pc = "start" /\ to = "verify"

\* The lifecycle goes on with its next call.
LEMMA LifeAsksKeeps ==
    ASSUME PipeInv, Going, life.pc # "idle",
           life.pc \in Calling => LifeAnswer # Pending,
           NEW to \in Calling, Moves(to), Ask("life", LifeOp(to), life.frame),
           UNCHANGED <<linkVars, serving, outcomes>>,
           life' \in Lives, life'.pc = to, life'.frame = life.frame,
           life'.latched = FALSE,
           to \notin Early /\ ~life'.failing => Sent(life.frame),
           to = "diag" /\ ~life'.remain => modem.tx \in {"draining", "idle"},
           broker' \in Brokers, broker'.pc = broker.pc, broker'.live = FALSE,
           broker'.result = "none", broker.pc \in {"idle", "burst"}
    PROVE  PipeInv'
<1>1. /\ modem' = modem /\ inbox' = inbox /\ line' = line /\ aired' = aired
      /\ serving' = serving /\ outcomes' = outcomes
  BY DEF linkVars
<1>2. InboxInv /\ LineInv /\ KnowInv /\ life.latched = FALSE
  BY Fields DEF PipeInv, GoingInv, Going
<1>3. LifeOp(to) \in Ops /\ LifeOp(to) # "tx_burst"
  BY DEF LifeOp, Ops, Calling
<1>4. PICK c \in Calls : c.op = LifeOp(to) /\ c.frame = life.frame /\ Joins(c, "life")
  BY <1>3, AskShape, Fields, TwoCallers DEF PipeInv
<1>5. /\ c.by = "life" /\ c.live /\ c # NoCall
      /\ calls' = Append(calls, c) /\ calls' \in Seq(Calls)
      /\ BurstIn(calls') <=> BurstIn(calls)
      /\ waits' \in [Callers -> Waits] /\ waits'["broker"] = waits["broker"]
      /\ waits'["life"].on = TRUE /\ waits'["life"].answer = Pending
  BY <1>3, <1>4, TwoCallers DEF Joins
<1>6. BrokerAnswer' = BrokerAnswer /\ LifeAnswer' = Pending
  BY <1>5 DEF BrokerAnswer, LifeAnswer
<1>7. Going'
  BY <1>6, Marks DEF Going
<1>8. (BrokerOut' <=> BrokerOut) /\ broker.pc \notin {"posted", "preflight"}
  BY <1>5, <1>6 DEF BrokerOut
<1>9. to # "status" =>
          /\ life.pc # "submit" /\ serving.call = NoCall /\ calls = <<>>
          /\ ~BurstIn(calls) /\ ~BurstIn(inbox)
  <2> SUFFICES ASSUME to # "status"
               PROVE  /\ life.pc # "submit" /\ serving.call = NoCall /\ calls = <<>>
                      /\ ~BurstIn(calls) /\ ~BurstIn(inbox)
    OBVIOUS
  <2>1. life.pc # "submit"
    BY DEF Moves, Early
  <2>2. serving.call = NoCall /\ calls = <<>>
    BY <2>1, OwnerAlone DEF PipeInv
  <2>3. ~BurstIn(inbox)
    BY <1>2, <2>1 DEF PipeInv, BurstInv, KnowInv, Calling
  <2> QED BY <2>1, <2>2, <2>3, BurstEmpty
<1>10. Types'
  BY <1>1, <1>5 DEF PipeInv, Types
<1>11. WorkInv'
  <2>1. PICK b, l : Holds(b, l) /\ BrokerCall(b) /\ LifeCall(l)
    BY DEF PipeInv, WorkInv
  <2>2. l = NoCall
    BY <2>1, <1>2 DEF LifeCall, Going
  <2>3. /\ b \in Calls \cup {NoCall} /\ (b # NoCall => b.by = "broker")
        /\ \/ serving.call = NoCall /\ calls = Queue(b, NoCall)
           \/ serving.call = b /\ b # NoCall /\ calls = Queue(NoCall, NoCall)
    BY <2>1, <2>2 DEF Holds
  <2>4. \A x \in Calls \cup {NoCall} : Append(Queue(x, NoCall), c) = Queue(x, c)
    BY QueueEnds
  <2>5. Holds(b, c)'
    BY <1>1, <1>5, <2>3, <2>4 DEF Holds
  <2>6. b # NoCall => to = "status"
    BY <1>9, <2>3, QueueEnds
  <2>7. BrokerCall(b)'
    BY <1>1, <1>5, <1>6, <1>8, <2>1, <2>6 DEF BrokerCall
  <2>8. LifeCall(c)'
    BY <1>3, <1>4, <1>5, <1>6 DEF LifeCall
  <2> QED BY <2>5, <2>7, <2>8 DEF WorkInv
<1>12. BurstInv'
  <2>1. to \in Early => life.pc \in Early
    BY DEF Moves, Early
  <2> QED BY <1>1, <1>5, <1>8, <1>9, <2>1 DEF PipeInv, BurstInv, Sent, Calling
<1>13. BrokerInv'
  BY <1>1, <1>5, <1>6, <1>8 DEF PipeInv, BrokerInv, Sent, Calling
<1>14. LifeInv'
  BY <1>1, <1>5, <1>6 DEF PipeInv, LifeInv, Sent, Calling, Early
<1>15. GoingInv'
  <2>1. LineInv'
    <3>1. serving.call # NoCall => serving.call.by = "broker"
      <4>1. PICK b, l : Holds(b, l) /\ BrokerCall(b) /\ LifeCall(l)
        BY DEF PipeInv, WorkInv
      <4>2. l = NoCall
        BY <4>1, <1>2 DEF LifeCall, Going
      <4> QED BY <4>1, <4>2 DEF Holds
    <3> QED BY <1>1, <3>1 DEF LineInv
  <2>2. KnowInv'
    <3>1. to \in Early \cup {"start", "verify"} => modem.tx = "idle"
      BY <1>2 DEF Moves, KnowInv, Early
    <3> QED BY <1>1, <1>6, <1>8, <3>1 DEF KnowInv, Calling, Early
  <2>3. InboxInv'
    <3>1. ASSUME inbox # <<>>, Left(Head(inbox)) PROVE Left(Head(inbox))'
      <4>1. CASE to = "status"
        BY <1>1, <1>8, <3>1, <4>1 DEF Left
      <4>2. CASE to = "diag"
        <5>1. Head(inbox).op # "tx_burst"
          <6>1. inbox \in Seq(Requests)
            BY DEF PipeInv, Types
          <6> QED BY <1>9, <3>1, <4>2, <6>1, BurstTail
        <5> QED BY <1>1, <1>8, <3>1, <4>2, <5>1 DEF Left
      <4>3. CASE to \notin {"status", "diag"}
        BY <1>2, <3>1, <4>3 DEF Moves, Early, Left, KnowInv, Calling
      <4> QED BY <4>1, <4>2, <4>3
    <3>2. serving.call # NoCall => serving.call.by # "life"
      <4>1. PICK b, l : Holds(b, l) /\ BrokerCall(b) /\ LifeCall(l)
        BY DEF PipeInv, WorkInv
      <4>2. l = NoCall
        BY <4>1, <1>2 DEF LifeCall, Going
      <4> QED BY <4>1, <4>2 DEF Holds
    <3> QED BY <1>1, <1>2, <3>1, <3>2 DEF InboxInv
  <2> QED BY <2>1, <2>2, <2>3 DEF GoingInv
<1> QED BY <1>10, <1>11, <1>12, <1>13, <1>14, <1>15 DEF PipeInv

\* The answer that satisfies the lifecycle is one, and its call is over.
LEMMA SatisfiedGoing ==
    ASSUME PipeInv, Satisfied, life.pc \in Calling
    PROVE  Going /\ LifeAnswer # Pending /\ life.pc \notin {"submit", "idle"}
<1>1. LifeAnswer # Pending /\ LifeAnswer # Failure
  BY DEF Satisfied
<1>2. ~life.latched
  BY DEF PipeInv, LifeInv, Calling
<1> QED BY <1>1, <1>2 DEF Going, Calling

\* Only the place changes.
LEMMA PlaceShape ==
    ASSUME Types, NEW pc \in LifePcs, life' = [life EXCEPT !.pc = pc]
    PROVE  /\ life' \in Lives /\ life'.pc = pc /\ life'.frame = life.frame
           /\ life'.latched = life.latched /\ life'.failing = life.failing
           /\ life'.remain = life.remain
<1>1. life \in Lives
  BY DEF Types
<1>2. life' \in Lives
  BY <1>1, Zenon DEF Lives
<1> QED BY <1>1, <1>2 DEF Lives

\* The lifecycle goes on, with the broker out of it.
LEMMA LifeProceedsKeeps ==
    ASSUME PipeInv, LifeStopsRx \/ LifeChecksStop \/ LifeRestartsRx
                        \/ LifePolls \/ LifeVerifies
    PROVE  PipeInv'
<1>1. PICK to \in {"stop", "after", "start", "status", "verify"} :
          /\ life' = [life EXCEPT !.pc = to] /\ Ask("life", LifeOp(to), life.frame)
          /\ \/ life.pc = "before" /\ to = "stop" /\ Satisfied
             \/ life.pc = "stop" /\ to = "after" /\ Satisfied
             \/ life.pc = "diag" /\ to = "start" /\ Satisfied /\ IdleSeen
             \/ life.pc = "poll" /\ to = "status"
             \/ life.pc = "start" /\ to = "verify" /\ Satisfied
  <2>1. /\ LifeOp("stop") = "rx_stop" /\ LifeOp("after") = "rx_status"
        /\ LifeOp("start") = "rx_start" /\ LifeOp("status") = "rf_status"
        /\ LifeOp("verify") = "rx_status"
    BY DEF LifeOp
  <2>2. CASE LifeStopsRx
    BY <2>1, <2>2 DEF LifeStopsRx
  <2>3. CASE LifeChecksStop
    BY <2>1, <2>3 DEF LifeChecksStop
  <2>4. CASE LifeRestartsRx
    BY <2>1, <2>4 DEF LifeRestartsRx
  <2>5. CASE LifePolls
    BY <2>1, <2>5 DEF LifePolls
  <2>6. CASE LifeVerifies
    BY <2>1, <2>6 DEF LifeVerifies
  <2> QED BY <2>2, <2>3, <2>4, <2>5, <2>6
<1>2. UNCHANGED <<linkVars, serving, outcomes>> /\ broker' = broker
  BY DEF LifeStopsRx, LifeChecksStop, LifeRestartsRx, LifePolls, LifeVerifies
<1>3. /\ Going /\ life.pc \notin {"idle", "submit"}
      /\ life.pc \in Calling => LifeAnswer # Pending
  <2>1. CASE life.pc = "poll"
    BY <2>1, Marks DEF PipeInv, LifeInv, Going, Calling
  <2>2. CASE life.pc # "poll"
    BY <1>1, <2>2, SatisfiedGoing DEF Calling
  <2> QED BY <2>1, <2>2
<1>4. /\ life' \in Lives /\ life'.pc = to /\ life'.frame = life.frame
      /\ life'.latched = life.latched /\ life'.failing = life.failing
  <2>1. to \in LifePcs
    BY <1>1 DEF LifePcs
  <2> QED BY <1>1, <2>1, PlaceShape DEF PipeInv
<1>5. /\ broker \in Brokers /\ broker.pc \in {"idle", "burst"}
      /\ broker.live = FALSE /\ broker.result = "none"
  BY <1>3, BrokerQuiet
<1>6. life.latched = FALSE
  BY <1>3, Fields DEF Going, PipeInv
<1>7. Moves(to)
  <2>1. life.pc = "diag" /\ to = "start" => modem.tx = "idle"
    BY <1>1, <1>3 DEF PipeInv, GoingInv, KnowInv, Calling, IdleSeen
  <2> QED BY <1>1, <2>1 DEF Moves, Early
<1>8. to \notin Early /\ ~life'.failing => Sent(life.frame)
  BY <1>1, <1>4 DEF PipeInv, LifeInv, Early
<1>9. to \in Calling /\ to # "diag"
  BY <1>1 DEF Calling
<1> QED BY <1>1, <1>2, <1>3, <1>4, <1>5, <1>6, <1>7, <1>8, <1>9, LifeAsksKeeps

\* The first report of RF idle is read.
LEMMA ReadsStatusKeeps ==
    ASSUME PipeInv, LifeReadsStatus
    PROVE  PipeInv'
<1>1. /\ life.pc = "status" /\ Satisfied /\ Ask("life", "rf_diag", life.frame)
      /\ life' = [life EXCEPT !.pc = "diag", !.remain = LifeAnswer.remain]
      /\ UNCHANGED <<linkVars, serving, outcomes>> /\ broker' = broker
  BY DEF LifeReadsStatus
<1>2. Going /\ LifeAnswer # Pending
  BY <1>1, SatisfiedGoing DEF Calling
<1>3. LifeAnswer.remain \in BOOLEAN
  <2>1. LifeAnswer.kind = "rf_status" /\ LifeAnswer \in Replies
    BY <1>1, <1>2, Fields, TwoCallers
       DEF PipeInv, GoingInv, KnowInv, Satisfied, LifeAnswer, Answers
  <2> QED BY <2>1 DEF Replies, Nak, Ack
<1>4. life \in Lives /\ life.latched = FALSE
  BY <1>2, Fields DEF PipeInv, Types, Going
<1> DEFINE remain == LifeAnswer.remain
<1>5. /\ remain \in BOOLEAN /\ life' = [life EXCEPT !.pc = "diag", !.remain = remain]
      /\ ~remain => modem.tx \in {"draining", "idle"}
  BY <1>1, <1>2, <1>3 DEF PipeInv, GoingInv, KnowInv
<1> HIDE DEF remain
<1>6. /\ life' \in Lives /\ life'.pc = "diag" /\ life'.frame = life.frame
      /\ life'.latched = life.latched /\ life'.failing = life.failing
      /\ life'.remain = remain
  <2>1. "diag" \in LifePcs
    BY DEF LifePcs
  <2>2. life' \in Lives
    BY <1>4, <1>5, <2>1, Zenon DEF Lives
  <2> QED BY <1>4, <1>5, <2>2 DEF Lives
<1>7. /\ broker \in Brokers /\ broker.pc \in {"idle", "burst"}
      /\ broker.live = FALSE /\ broker.result = "none"
  BY <1>1, BrokerQuiet
<1>8. "diag" \in Calling /\ LifeOp("diag") = "rf_diag" /\ Moves("diag")
  BY <1>1 DEF Calling, LifeOp, Moves
<1>9. ~life'.failing => Sent(life.frame)
  BY <1>1, <1>6 DEF PipeInv, LifeInv
<1> QED BY <1>1, <1>2, <1>4, <1>5, <1>6, <1>7, <1>8, <1>9, LifeAsksKeeps

\* The wait for RF idle begins.
LEMMA AwaitIdleKeeps ==
    ASSUME PipeInv, Going, life.pc \in Early \cup {"submit"},
           life.pc \in Early => LifeAnswer # Pending,
           NEW failing \in BOOLEAN, AwaitIdle(failing),
           UNCHANGED <<linkVars, serving, outcomes>>,
           ~failing => Sent(life.frame),
           broker' \in Brokers, broker'.pc = broker.pc, broker'.live = FALSE,
           broker'.result = "none", broker.pc \in {"idle", "burst"}
    PROVE  PipeInv'
<1>1. /\ life' = [life EXCEPT !.pc = "status", !.failing = failing,
                              !.waited = 0, !.idleAge = 0]
      /\ Ask("life", "rf_status", life.frame)
  BY DEF AwaitIdle
<1>2. life \in Lives /\ life.latched = FALSE
  BY Fields DEF PipeInv, Types, Going
<1>3. /\ life' \in Lives /\ life'.pc = "status" /\ life'.frame = life.frame
      /\ life'.latched = life.latched /\ life'.failing = failing
  <2>1. "status" \in LifePcs /\ 0 \in Nat
    BY DEF LifePcs
  <2>2. life' \in Lives
    BY <1>1, <1>2, <2>1, Zenon DEF Lives
  <2> QED BY <1>1, <1>2, <2>2 DEF Lives
<1>4. /\ "status" \in Calling /\ LifeOp("status") = "rf_status" /\ Moves("status")
      /\ life.pc # "idle" /\ (life.pc \in Calling => LifeAnswer # Pending)
  BY DEF Calling, LifeOp, Moves, Early
<1> QED BY <1>1, <1>2, <1>3, <1>4, LifeAsksKeeps

\* The broker's part of the cycle is over: refused, reported, or given up.  A
\* submitter waits long enough for the preflight, so the broker it gives up
\* on has its burst under way.
LEMMA HandoffEndsKeeps ==
    ASSUME PipeInv, LifeRefused \/ LifeReceipt \/ LifeGivesUp
    PROVE  PipeInv'
<1>1. CASE LifeRefused
  <2>1. /\ life.pc = "after" /\ Satisfied /\ AwaitIdle(TRUE)
        /\ UNCHANGED <<linkVars, serving, outcomes>> /\ broker' = broker
    BY <1>1 DEF LifeRefused
  <2>2. Going /\ LifeAnswer # Pending
    BY <2>1, SatisfiedGoing DEF Calling
  <2>3. /\ broker \in Brokers /\ broker.pc \in {"idle", "burst"}
        /\ broker.live = FALSE /\ broker.result = "none"
    BY <2>1, BrokerQuiet
  <2>4. life.pc \in Early
    BY <2>1 DEF Early
  <2> QED BY <2>1, <2>2, <2>3, <2>4, AwaitIdleKeeps
<1>2. CASE LifeReceipt
  <2> DEFINE failing == broker.result = "error"
  <2>1. /\ life.pc = "submit" /\ broker.result # "none"
        /\ broker' = [broker EXCEPT !.result = "none"] /\ AwaitIdle(failing)
        /\ UNCHANGED <<linkVars, serving, outcomes>>
    BY <1>2 DEF LifeReceipt
  <2>2. Going
    BY <2>1, SubmitGoing DEF PipeInv
  <2>3. /\ broker.pc = "idle" /\ broker.live = FALSE
        /\ failing \in BOOLEAN /\ (~failing => Sent(life.frame))
    <3>1. broker.pc = "idle" /\ ~broker.live
      BY <2>1 DEF PipeInv, BrokerInv
    <3>2. ~failing => Sent(life.frame)
      BY <2>1, Fields DEF PipeInv, BrokerInv
    <3> QED BY <3>1, <3>2, Fields DEF PipeInv
  <2>4. /\ broker' \in Brokers /\ broker'.pc = broker.pc
        /\ broker'.live = broker.live /\ broker'.result = "none"
    BY <2>1 DEF PipeInv, Types, Brokers
  <2>5. life.pc \notin Early
    BY <2>1 DEF Early
  <2> HIDE DEF failing
  <2> QED BY <2>1, <2>2, <2>3, <2>4, <2>5, AwaitIdleKeeps
<1>3. CASE LifeGivesUp
  <2>1. /\ life.pc = "submit" /\ broker.result = "none" /\ life.waited >= BrokerWait
        /\ broker' = [broker EXCEPT !.live = FALSE] /\ AwaitIdle(TRUE)
        /\ UNCHANGED <<linkVars, serving, outcomes>>
    BY <1>3 DEF LifeGivesUp
  <2>2. Going
    BY <2>1, SubmitGoing DEF PipeInv
  <2>3. broker.pc = "burst"
    <3>1. broker.live /\ broker.pc # "idle"
      BY <2>1 DEF PipeInv, BrokerInv
    <3>2. 2 * T \in Nat /\ life.waited \in Nat /\ life.waited > 2 * T
      BY <2>1, Fields, TxPipelineAssumption DEF PipeInv, BrokerWait
    <3>3. broker.pc # "posted"
      BY <3>2 DEF PipeInv, BrokerInv
    <3>4. broker.pc # "preflight"
      <4>1. broker.pc = "preflight" =>
                life.waited <= waits["broker"].age /\ waits["broker"].age <= 2 * T
        BY DEF PipeInv, BrokerInv
      <4>2. waits["broker"].age \in Nat
        BY Fields, TwoCallers DEF PipeInv
      <4> QED BY <3>2, <4>1, <4>2
    <3> QED BY <3>1, <3>3, <3>4, Fields DEF PipeInv
  <2>4. /\ broker' \in Brokers /\ broker'.pc = broker.pc
        /\ broker'.live = FALSE /\ broker'.result = "none"
    BY <2>1 DEF PipeInv, Types, Brokers
  <2>5. life.pc \notin Early
    BY <2>1 DEF Early
  <2> QED BY <2>1, <2>2, <2>3, <2>4, <2>5, AwaitIdleKeeps
<1> QED BY <1>1, <1>2, <1>3

\* The frame is handed to the broker.
LEMMA SubmitsKeeps ==
    ASSUME PipeInv, LifeSubmits
    PROVE  PipeInv'
<1>1. /\ life.pc = "after" /\ Satisfied /\ broker.pc = "idle"
      /\ life' = [life EXCEPT !.pc = "submit", !.waited = 0]
      /\ waits' = [waits EXCEPT !["life"] = NotWaiting]
      /\ broker' = [pc |-> "posted", frame |-> life.frame, live |-> TRUE,
                    result |-> "none"]
      /\ modem' = modem /\ inbox' = inbox /\ line' = line /\ aired' = aired
      /\ calls' = calls /\ serving' = serving /\ outcomes' = outcomes
  BY DEF LifeSubmits, linkVars
<1>2. Going /\ LifeAnswer # Pending /\ life.latched = FALSE /\ life.frame \in Nat
  BY <1>1, SatisfiedGoing, Fields DEF Calling, Going, PipeInv
<1>3. serving.call = NoCall /\ calls = <<>>
  BY <1>1, <1>2, OwnerAlone DEF PipeInv
<1>4. InboxInv /\ KnowInv /\ inbox = <<>>
  BY <1>1, <1>2, <1>3 DEF PipeInv, GoingInv, InboxInv, Left
<1>5. /\ life' \in Lives /\ life'.pc = "submit" /\ life'.frame = life.frame
      /\ life'.latched = life.latched /\ life'.waited = 0
  <2>1. "submit" \in LifePcs /\ 0 \in Nat /\ life \in Lives
    BY DEF LifePcs, PipeInv, Types
  <2>2. life' \in Lives
    BY <1>1, <2>1, Zenon DEF Lives
  <2> QED BY <1>1, <2>1, <2>2 DEF Lives
<1>6. /\ broker' \in Brokers /\ broker'.pc = "posted" /\ broker'.frame = life.frame
      /\ broker'.live = TRUE /\ broker'.result = "none"
  BY <1>1, <1>2 DEF Brokers
<1>7. /\ waits' \in [Callers -> Waits] /\ waits'["broker"] = waits["broker"]
      /\ waits'["life"].on = FALSE /\ waits'["life"].answer = Pending
  BY <1>1, WakeShape, TwoCallers DEF PipeInv
<1>8. BrokerAnswer' = BrokerAnswer /\ LifeAnswer' = Pending
  BY <1>7 DEF BrokerAnswer, LifeAnswer
<1>9. ~waits["broker"].on /\ BrokerAnswer = Pending
  BY <1>1 DEF PipeInv, BrokerInv
<1>10. Types'
  BY <1>1, <1>5, <1>6, <1>7 DEF PipeInv, Types
<1>11. WorkInv'
  <2>1. Holds(NoCall, NoCall)'
    BY <1>1, <1>3 DEF Holds, Queue
  <2>2. BrokerCall(NoCall)' /\ LifeCall(NoCall)'
    BY <1>7, <1>8, <1>9 DEF BrokerCall, LifeCall
  <2> QED BY <2>1, <2>2 DEF WorkInv
<1>12. BurstInv'
  BY <1>1, <1>3, <1>5, <1>6 DEF PipeInv, BurstInv, Sent, Early
<1>13. BrokerInv'
  BY <1>1, <1>5, <1>6, <1>7, <1>8, <1>9 DEF PipeInv, BrokerInv, Sent
<1>14. LifeInv'
  BY <1>1, <1>2, <1>5, <1>7, <1>8 DEF PipeInv, LifeInv, Sent, Calling
<1>15. GoingInv'
  <2>1. InboxInv' /\ LineInv'
    BY <1>1, <1>3, <1>4 DEF InboxInv, LineInv
  <2>2. KnowInv'
    BY <1>1, <1>4, <1>5, <1>8 DEF KnowInv
  <2> QED BY <2>1, <2>2 DEF GoingInv
<1> QED BY <1>10, <1>11, <1>12, <1>13, <1>14, <1>15 DEF PipeInv

\* A frame's cycle begins.
LEMMA BeginsKeeps ==
    ASSUME PipeInv, LifeBegins
    PROVE  PipeInv'
<1> DEFINE next == life.frame + 1
<1>1. /\ life.pc = "idle" /\ ~life.latched
      /\ life' = [life EXCEPT !.pc = "before", !.frame = next, !.failing = FALSE]
      /\ Ask("life", "rx_status", next)
      /\ modem' = modem /\ inbox' = inbox /\ line' = line /\ aired' = aired
      /\ serving' = serving /\ broker' = broker /\ outcomes' = outcomes
  BY DEF LifeBegins, linkVars
<1>2. Going /\ life.latched = FALSE /\ life.frame \in Nat /\ next \in Nat /\ life \in Lives
  BY <1>1, Marks, Fields DEF PipeInv, Types, LifeInv, Going, Calling
<1>3. InboxInv /\ KnowInv /\ serving.call = NoCall /\ calls = <<>> /\ inbox = <<>>
  <2>1. serving.call = NoCall /\ calls = <<>>
    BY <1>1, <1>2, OwnerAlone DEF PipeInv, Calling
  <2> QED BY <1>1, <1>2, <2>1 DEF PipeInv, GoingInv, InboxInv, Left
<1>4. next = life.frame + 1
  OBVIOUS
<1> HIDE DEF next
<1>5. /\ life' \in Lives /\ life'.pc = "before" /\ life'.frame = next
      /\ life'.latched = life.latched /\ life'.waited = life.waited
  <2>1. "before" \in LifePcs /\ FALSE \in BOOLEAN
    BY DEF LifePcs
  <2>2. life' \in Lives
    BY <1>1, <1>2, <2>1, Zenon DEF Lives
  <2> QED BY <1>1, <1>2, <2>2 DEF Lives
<1>6. /\ broker.pc \in {"idle", "burst"} /\ broker.live = FALSE
      /\ broker.result = "none"
  BY <1>1, BrokerQuiet
<1>7. PICK c \in Calls : c.op = "rx_status" /\ c.frame = next /\ Joins(c, "life")
  BY <1>1, <1>2, AskShape, TwoCallers DEF PipeInv, Ops
<1>8. /\ c.by = "life" /\ c.live /\ c # NoCall
      /\ calls' = Append(calls, c) /\ calls' \in Seq(Calls)
      /\ BurstIn(calls') <=> BurstIn(calls)
      /\ waits' \in [Callers -> Waits] /\ waits'["broker"] = waits["broker"]
      /\ waits'["life"].on = TRUE /\ waits'["life"].answer = Pending
  BY <1>7, TwoCallers DEF Joins
<1>9. BrokerAnswer' = BrokerAnswer /\ LifeAnswer' = Pending
  BY <1>8 DEF BrokerAnswer, LifeAnswer
<1>10. Types'
  BY <1>1, <1>5, <1>8 DEF PipeInv, Types
<1>11. WorkInv'
  <2>1. PICK b, l : Holds(b, l) /\ BrokerCall(b) /\ LifeCall(l)
    BY DEF PipeInv, WorkInv
  <2>2. b = NoCall
    BY <1>1, <2>1 DEF BrokerCall
  <2>3. Append(<<>>, c) = Queue(NoCall, c)
    BY QueueEnds DEF Queue
  <2>4. Holds(NoCall, c)'
    BY <1>1, <1>3, <1>8, <2>3 DEF Holds
  <2>5. BrokerCall(NoCall)'
    BY <1>8, <1>9, <2>1, <2>2 DEF BrokerCall
  <2>6. LifeCall(c)'
    BY <1>5, <1>7, <1>8, <1>9 DEF LifeCall, LifeOp, Calling
  <2> QED BY <2>4, <2>5, <2>6 DEF WorkInv
<1>12. BurstInv'
  <2>1. ~SentIn(aired, next) /\ \A i \in 1..Len(aired) : aired[i] \in 1..next
    BY <1>2, <1>4 DEF PipeInv, BurstInv, SentIn
  <2>2. Distinct(aired)
    BY DEF PipeInv, BurstInv
  <2> QED BY <1>1, <1>3, <1>5, <1>6, <1>8, <2>1, <2>2, BurstEmpty DEF BurstInv, Sent
<1>13. BrokerInv'
  BY <1>1, <1>5, <1>6, <1>8, <1>9 DEF PipeInv, BrokerInv, Sent
<1>14. LifeInv'
  <2>1. next >= 1 /\ Len(outcomes) = next - 1
    BY <1>1, <1>2, <1>4 DEF PipeInv, LifeInv
  <2> QED BY <1>1, <1>5, <1>8, <1>9, <2>1 DEF PipeInv, LifeInv, Sent, Calling
<1>15. GoingInv'
  <2>1. InboxInv' /\ LineInv'
    BY <1>1, <1>3 DEF InboxInv, LineInv
  <2>2. KnowInv'
    BY <1>1, <1>3, <1>5, <1>9 DEF KnowInv
  <2> QED BY <2>1, <2>2 DEF GoingInv
<1> QED BY <1>10, <1>11, <1>12, <1>13, <1>14, <1>15 DEF PipeInv

\* The radio still transmits: the lifecycle sleeps before it asks again.
LEMMA SleepsKeeps ==
    ASSUME PipeInv, LifeSleeps
    PROVE  PipeInv'
<1>1. /\ life.pc = "diag" /\ Satisfied
      /\ life' = [life EXCEPT !.pc = "poll"]
      /\ waits' = [waits EXCEPT !["life"] = NotWaiting]
      /\ modem' = modem /\ inbox' = inbox /\ line' = line /\ aired' = aired
      /\ calls' = calls /\ serving' = serving /\ broker' = broker
      /\ outcomes' = outcomes
  BY DEF LifeSleeps, linkVars
<1>2. Going /\ LifeAnswer # Pending
  BY <1>1, SatisfiedGoing DEF Calling
<1>3. serving.call = NoCall /\ calls = <<>>
  BY <1>1, <1>2, OwnerAlone DEF PipeInv
<1>4. KnowInv /\ inbox = <<>>
  BY <1>1, <1>2 DEF PipeInv, GoingInv, KnowInv
<1>5. /\ life' \in Lives /\ life'.pc = "poll" /\ life'.frame = life.frame
      /\ life'.latched = life.latched /\ life'.failing = life.failing
  BY <1>1, PlaceShape DEF LifePcs, PipeInv
<1>6. /\ waits' \in [Callers -> Waits] /\ waits'["broker"] = waits["broker"]
      /\ waits'["life"].on = FALSE /\ waits'["life"].answer = Pending
  BY <1>1, WakeShape, TwoCallers DEF PipeInv
<1>7. BrokerAnswer' = BrokerAnswer /\ LifeAnswer' = Pending
  BY <1>6 DEF BrokerAnswer, LifeAnswer
<1>8. /\ broker.pc \in {"idle", "burst"} /\ broker.live = FALSE
      /\ broker.result = "none"
  BY <1>1, BrokerQuiet
<1>9. Types'
  BY <1>1, <1>5, <1>6 DEF PipeInv, Types
<1>10. WorkInv'
  <2>1. PICK b, l : Holds(b, l) /\ BrokerCall(b) /\ LifeCall(l)
    BY DEF PipeInv, WorkInv
  <2>2. b = NoCall
    BY <1>1, <1>2, <2>1 DEF BrokerCall, Going
  <2>3. Holds(NoCall, NoCall)'
    BY <1>1, <1>3 DEF Holds, Queue
  <2>4. BrokerCall(NoCall)' /\ LifeCall(NoCall)'
    BY <1>6, <1>7, <2>1, <2>2 DEF BrokerCall, LifeCall
  <2> QED BY <2>3, <2>4 DEF WorkInv
<1>11. BurstInv'
  BY <1>1, <1>2, <1>5 DEF PipeInv, BurstInv, Sent, Early, Going
<1>12. BrokerInv'
  BY <1>1, <1>5, <1>6, <1>7, <1>8 DEF PipeInv, BrokerInv, Sent
<1>13. LifeInv'
  BY <1>1, <1>5, <1>6, <1>7 DEF PipeInv, LifeInv, Sent, Calling
<1>14. GoingInv'
  <2>1. InboxInv' /\ LineInv'
    BY <1>1, <1>3, <1>4 DEF InboxInv, LineInv
  <2>2. KnowInv'
    BY <1>1, <1>4, <1>5, <1>7, <1>8 DEF KnowInv
  <2> QED BY <2>1, <2>2 DEF GoingInv
<1> QED BY <1>9, <1>10, <1>11, <1>12, <1>13, <1>14 DEF PipeInv

\* The cycle ends: with RX restored, or latched.
LEMMA EndsKeeps ==
    ASSUME PipeInv, LifeRestored \/ LifeLatches
    PROVE  PipeInv'
<1>1. PICK outcome \in Outcomes, latched \in BOOLEAN :
          /\ life' = [life EXCEPT !.pc = "idle", !.latched = latched,
                                  !.remain = FALSE, !.idleAge = 0]
          /\ waits' = [waits EXCEPT !["life"] = NotWaiting]
          /\ outcomes' = Append(outcomes, outcome)
          /\ life.pc \in Calling /\ LifeAnswer # Pending
          /\ ~latched => life.pc = "verify" /\ Satisfied
          /\ outcome = "complete" => life.pc = "verify" /\ ~life.failing
          /\ outcome = "handoff" => life.pc \in Early
  <2>1. CASE LifeRestored
    <3> DEFINE o == IF life.failing THEN "recovered" ELSE "complete"
    <3>1. life.pc = "verify" /\ Satisfied /\ LifeEnds(o, FALSE)
      BY <2>1 DEF LifeRestored
    <3>2. /\ o \in Outcomes /\ (o = "complete" => ~life.failing) /\ o # "handoff"
          /\ LifeAnswer # Pending
      BY <3>1, Fields DEF Outcomes, PipeInv, Satisfied
    <3> HIDE DEF o
    <3> QED BY <3>1, <3>2 DEF LifeEnds, Calling
  <2>2. CASE LifeLatches
    <3> DEFINE o == IF life.pc \in {"before", "stop", "after"} THEN "handoff" ELSE "latched"
    <3>1. LifeEnds(o, TRUE) /\ life.pc \in Calling /\ LifeAnswer # Pending
      BY <2>2 DEF LifeLatches, LifePcs, Calling, Satisfied
    <3>2. o \in Outcomes /\ o # "complete" /\ (o = "handoff" => life.pc \in Early)
      BY DEF Outcomes, Early
    <3> HIDE DEF o
    <3> QED BY <3>1, <3>2 DEF LifeEnds
  <2> QED BY <2>1, <2>2
<1>2. /\ modem' = modem /\ inbox' = inbox /\ line' = line /\ aired' = aired
      /\ calls' = calls /\ serving' = serving /\ broker' = broker
  BY DEF LifeRestored, LifeLatches, LifeEnds, linkVars
<1>3. /\ life.pc \notin {"idle", "submit"} /\ ~life.latched
      /\ life.frame \in Nat /\ life.frame >= 1 /\ life \in Lives
      /\ outcomes \in Seq(Outcomes) /\ Len(outcomes) = life.frame - 1
  BY <1>1, Fields DEF PipeInv, Types, LifeInv, Calling
<1>4. /\ life' \in Lives /\ life'.pc = "idle" /\ life'.frame = life.frame
      /\ life'.latched = latched /\ life'.waited = life.waited
  <2>1. "idle" \in LifePcs /\ FALSE \in BOOLEAN /\ 0 \in Nat
    BY DEF LifePcs
  <2>2. life' \in Lives
    BY <1>1, <1>3, <2>1, Zenon DEF Lives
  <2> QED BY <1>1, <1>3, <2>2 DEF Lives
<1>5. /\ waits' \in [Callers -> Waits] /\ waits'["broker"] = waits["broker"]
      /\ waits'["life"].on = FALSE /\ waits'["life"].answer = Pending
  BY <1>1, WakeShape, TwoCallers DEF PipeInv
<1>6. BrokerAnswer' = BrokerAnswer /\ LifeAnswer' = Pending
  BY <1>5 DEF BrokerAnswer, LifeAnswer
<1>7. /\ broker.pc \in {"idle", "burst"} /\ broker.live = FALSE
      /\ broker.result = "none"
  BY <1>3, BrokerQuiet
<1>8. /\ outcomes' \in Seq(Outcomes) /\ Len(outcomes') = life.frame
      /\ \A f \in 1..Len(outcomes) : outcomes'[f] = outcomes[f]
      /\ outcomes'[life.frame] = outcome
  BY <1>1, <1>3, SeqAppends
<1>9. Types'
  BY <1>2, <1>4, <1>5, <1>8 DEF PipeInv, Types
<1>10. Going' => ~latched /\ Going /\ life.pc = "verify" /\ Satisfied
  <2>1. ~latched => Going
    BY <1>1, <1>3 DEF Satisfied, Going
  <2> QED BY <1>1, <1>4, <2>1 DEF Going
<1>11. WorkInv'
  <2>1. PICK b, l : Holds(b, l) /\ BrokerCall(b) /\ LifeCall(l)
    BY DEF PipeInv, WorkInv
  <2>2. Holds(b, l)'
    BY <1>2, <2>1 DEF Holds
  <2>3. CASE latched
    <3>1. ~Going'
      BY <1>10, <2>3
    <3>2. BrokerCall(b)'
      BY <1>2, <1>4, <1>5, <1>6, <2>1, <2>3, <3>1 DEF BrokerCall
    <3>3. l # NoCall => ~l.live
      BY <1>1, <2>1 DEF LifeCall
    <3>4. LifeCall(l)'
      BY <1>4, <1>5, <1>6, <2>1, <2>3, <3>3 DEF LifeCall
    <3> QED BY <2>2, <3>2, <3>4 DEF WorkInv
  <2>4. CASE ~latched
    <3>1. Going /\ life.pc = "verify"
      BY <1>1, <1>3, <2>4 DEF Satisfied, Going
    <3>2. b = NoCall
      BY <2>1, <3>1 DEF BrokerCall, Going
    <3>3. l = NoCall
      BY <1>1, <2>1, <3>1 DEF LifeCall, Going
    <3>4. BrokerCall(NoCall)' /\ LifeCall(NoCall)'
      BY <1>5, <1>6, <2>1, <3>2 DEF BrokerCall, LifeCall
    <3> QED BY <2>2, <3>2, <3>3, <3>4 DEF WorkInv
  <2> QED BY <2>3, <2>4
<1>12. BurstInv'
  <2>1. ~latched => ~BurstIn(calls) /\ ~BurstIn(inbox)
    BY <1>1, <1>3 DEF PipeInv, BurstInv
  <2> QED BY <1>2, <1>4, <1>7, <2>1 DEF PipeInv, BurstInv, Sent, Early
<1>13. BrokerInv'
  BY <1>2, <1>4, <1>5, <1>6, <1>7 DEF PipeInv, BrokerInv, Sent
<1>14. LifeInv'
  <2>1. ASSUME NEW f \in 1..Len(outcomes')
        PROVE  /\ outcomes'[f] = "complete" => Sent(f)
               /\ outcomes'[f] = "handoff" => ~Sent(f)
    <3>1. CASE f = life.frame
      <4>1. outcome = "complete" => Sent(life.frame)
        BY <1>1 DEF PipeInv, LifeInv
      <4>2. outcome = "handoff" => ~Sent(life.frame)
        BY <1>1 DEF PipeInv, BurstInv
      <4> QED BY <1>8, <3>1, <4>1, <4>2
    <3>2. CASE f # life.frame
      <4>1. f \in 1..Len(outcomes)
        BY <1>3, <1>8, <2>1, <3>2
      <4> QED BY <1>8, <4>1 DEF PipeInv, LifeInv
    <3> QED BY <3>1, <3>2
  <2>2. outcome = "handoff" => ~BurstIn(calls) /\ ~BurstIn(inbox)
    BY <1>1 DEF PipeInv, BurstInv
  <2> QED BY <1>2, <1>3, <1>4, <1>5, <1>6, <1>8, <2>1, <2>2 DEF LifeInv, Sent, Calling
<1>15. GoingInv'
  <2> SUFFICES ASSUME Going' PROVE InboxInv' /\ LineInv' /\ KnowInv'
    BY DEF GoingInv
  <2>1. /\ Going /\ life.pc = "verify" /\ Satisfied
        /\ InboxInv /\ KnowInv
    BY <1>10 DEF PipeInv, GoingInv
  <2>2. serving.call = NoCall
    BY <1>1, <2>1, OwnerAlone DEF PipeInv
  <2>3. inbox = <<>>
    BY <2>1, <2>2 DEF InboxInv, Left
  <2>4. modem.rx /\ modem.tx = "idle"
    BY <1>1, <2>1 DEF KnowInv, Satisfied, ActiveRx
  <2>5. InboxInv' /\ LineInv'
    BY <1>2, <2>2, <2>3 DEF InboxInv, LineInv
  <2>6. KnowInv'
    BY <1>2, <1>4, <1>6, <2>4 DEF KnowInv
  <2> QED BY <2>5, <2>6
<1> QED BY <1>9, <1>11, <1>12, <1>13, <1>14, <1>15 DEF PipeInv

-----------------------------------------------------------------------------
(***************************************************************************)
(* Time                                                                    *)
(***************************************************************************)

\* Time passes only while every wait is within its bounds.
LEMMA TickKeeps ==
    ASSUME PipeInv, Tick
    PROVE  PipeInv'
<1> DEFINE sage == IF serving.call = NoCall THEN 0 ELSE serving.age + 1
           wage(p) == IF waits[p].on THEN waits[p].age + 1 ELSE 0
           waited == IF life.pc = "submit" THEN life.waited + 1 ELSE 0
           idleAge == IF life.pc \in {"status", "diag", "poll"}
                      THEN IF life.idleAge < IdleTimeout THEN life.idleAge + 1
                           ELSE life.idleAge
                      ELSE 0
<1>1. /\ ~Urgent
      /\ serving' = [serving EXCEPT !.age = sage]
      /\ waits' = [p \in Callers |-> [waits[p] EXCEPT !.age = wage(p)]]
      /\ life' = [life EXCEPT !.waited = waited, !.idleAge = idleAge]
      /\ modem' = modem /\ inbox' = inbox /\ line' = line /\ aired' = aired
      /\ calls' = calls /\ broker' = broker /\ outcomes' = outcomes
  BY DEF Tick, linkVars
<1>2. /\ serving \in Servings /\ life \in Lives /\ waits \in [Callers -> Waits]
      /\ serving.age \in 0..(2 * T) /\ T \in Nat
      /\ \A p \in Callers : waits[p] \in Waits /\ waits[p].age \in Nat
      /\ life.waited \in Nat /\ life.idleAge \in Nat
  BY Fields, TxPipelineAssumption DEF PipeInv, Types
<1>3. /\ ~(serving.call # NoCall /\ serving.age >= 2 * T)
      /\ ~(serving.call = NoCall /\ calls # <<>>)
      /\ broker.pc # "posted"
      /\ \A p \in Callers : waits[p].on => waits[p].answer = Pending
  BY <1>1 DEF Urgent
<1>4. sage \in 0..(2 * T) /\ waited \in Nat /\ idleAge \in Nat
      /\ \A p \in Callers : wage(p) \in Nat
  BY <1>2, <1>3
<1>5. /\ serving.call # NoCall => sage = serving.age + 1
      /\ \A p \in Callers : waits[p].on => wage(p) = waits[p].age + 1
      /\ life.pc = "submit" => waited = life.waited + 1
  OBVIOUS
<1> HIDE DEF sage, wage, waited, idleAge
<1>6. serving' \in Servings /\ serving'.call = serving.call /\ serving'.age = sage
  <2>1. serving' \in Servings
    BY <1>1, <1>2, <1>4, Zenon DEF Servings
  <2> QED BY <1>1, <1>2, <2>1 DEF Servings
<1>7. /\ life' \in Lives /\ life'.pc = life.pc /\ life'.frame = life.frame
      /\ life'.failing = life.failing /\ life'.remain = life.remain
      /\ life'.latched = life.latched /\ life'.waited = waited
  <2>1. life' \in Lives
    BY <1>1, <1>2, <1>4, Zenon DEF Lives
  <2> QED BY <1>1, <1>2, <2>1 DEF Lives
<1>8. /\ waits' \in [Callers -> Waits]
      /\ \A p \in Callers : /\ waits'[p].on = waits[p].on
                            /\ waits'[p].answer = waits[p].answer
                            /\ waits'[p].age = wage(p)
  <2>1. ASSUME NEW p \in Callers
        PROVE  [waits[p] EXCEPT !.age = wage(p)] \in Waits
    BY <1>2, <1>4, Zenon DEF Waits
  <2>2. \A p \in Callers : waits'[p] = [waits[p] EXCEPT !.age = wage(p)]
    BY <1>1
  <2>3. waits' \in [Callers -> Waits]
    BY <1>1, <2>1
  <2>4. ASSUME NEW p \in Callers
        PROVE  /\ waits'[p].on = waits[p].on /\ waits'[p].answer = waits[p].answer
               /\ waits'[p].age = wage(p)
    BY <1>2, <2>2 DEF Waits
  <2> QED BY <2>3, <2>4
<1>9. /\ waits'["life"].on = waits["life"].on /\ LifeAnswer' = LifeAnswer
      /\ waits'["broker"].on = waits["broker"].on /\ BrokerAnswer' = BrokerAnswer
      /\ waits'["broker"].age = wage("broker")
      /\ waits["broker"].age \in Nat
  BY <1>2, <1>8, TwoCallers DEF LifeAnswer, BrokerAnswer
<1>10. (Going' <=> Going) /\ (BrokerOut' <=> BrokerOut)
  BY <1>1, <1>7, <1>9 DEF Going, BrokerOut
<1>11. PICK b, l : Holds(b, l) /\ BrokerCall(b) /\ LifeCall(l)
  BY DEF PipeInv, WorkInv
<1>12. b # NoCall /\ b.live =>
           /\ serving.call = b /\ serving.age < 2 * T
           /\ waits["broker"].age <= serving.age
           /\ wage("broker") = waits["broker"].age + 1 /\ sage = serving.age + 1
  <2> SUFFICES ASSUME b # NoCall, b.live
               PROVE  /\ serving.call = b /\ serving.age < 2 * T
                      /\ waits["broker"].age <= serving.age
                      /\ wage("broker") = waits["broker"].age + 1
                      /\ sage = serving.age + 1
    OBVIOUS
  <2>1. serving.call = b
    BY <1>3, <1>11, QueueEnds DEF Holds
  <2>2. serving.age < 2 * T
    BY <1>2, <1>3, <2>1
  <2>3. waits["broker"].age <= serving.age
    BY <1>11, <2>1 DEF BrokerCall
  <2>4. waits["broker"].on
    BY <1>11 DEF BrokerCall
  <2> QED BY <1>5, <2>1, <2>2, <2>3, <2>4, TwoCallers
<1>13. Types'
  BY <1>1, <1>6, <1>7, <1>8 DEF PipeInv, Types
<1>14. WorkInv'
  <2>1. Holds(b, l)'
    BY <1>1, <1>6, <1>11 DEF Holds
  <2>2. b # NoCall /\ b.live => wage("broker") <= sage
    BY <1>2, <1>9, <1>12
  <2>3. BrokerCall(b)'
    BY <1>1, <1>6, <1>7, <1>9, <1>10, <1>11, <1>12, <2>2 DEF BrokerCall
  <2>4. LifeCall(l)'
    BY <1>7, <1>9, <1>11 DEF LifeCall
  <2> QED BY <2>1, <2>3, <2>4 DEF WorkInv
<1>15. BurstInv'
  BY <1>1, <1>6, <1>7 DEF PipeInv, BurstInv, Sent
<1>16. BrokerInv'
  <2>1. broker.pc = "preflight" => waited <= wage("broker") /\ wage("broker") <= 2 * T
    <3> SUFFICES ASSUME broker.pc = "preflight"
                 PROVE  waited <= wage("broker") /\ wage("broker") <= 2 * T
      OBVIOUS
    <3>1. waits["broker"].on /\ BrokerAnswer = Pending /\ life.pc = "submit"
          /\ life.waited <= waits["broker"].age
      BY <1>3, TwoCallers DEF PipeInv, BrokerInv, BrokerAnswer
    <3>2. b # NoCall /\ b.live
      BY <1>11, <3>1 DEF BrokerCall
    <3>3. waited = life.waited + 1
      BY <1>5, <3>1
    <3> QED BY <1>2, <1>9, <1>12, <3>1, <3>2, <3>3
  <2> QED BY <1>1, <1>3, <1>7, <1>9, <2>1 DEF PipeInv, BrokerInv, Sent
<1>17. LifeInv'
  BY <1>1, <1>7, <1>9 DEF PipeInv, LifeInv, Sent
<1>18. GoingInv'
  <2> SUFFICES ASSUME Going PROVE InboxInv' /\ LineInv' /\ KnowInv'
    BY <1>10 DEF GoingInv
  <2>1. InboxInv /\ LineInv /\ KnowInv
    BY DEF PipeInv, GoingInv
  <2>2. \A q : Left(q) => Left(q)'
    BY <1>1, <1>7, <1>10 DEF Left
  <2>3. InboxInv'
    BY <1>1, <1>6, <1>7, <2>1, <2>2 DEF InboxInv
  <2>4. LineInv'
    BY <1>1, <1>6, <1>7, <2>1, <2>2 DEF LineInv
  <2>5. KnowInv'
    BY <1>1, <1>7, <1>9, <2>1 DEF KnowInv
  <2> QED BY <2>3, <2>4, <2>5
<1> QED BY <1>13, <1>14, <1>15, <1>16, <1>17, <1>18 DEF PipeInv

-----------------------------------------------------------------------------
(***************************************************************************)
(* The theorems                                                            *)
(***************************************************************************)

\* The pipeline is constructed idle.
LEMMA PipeInit == Init => PipeInv
<1> SUFFICES ASSUME Init PROVE PipeInv
  OBVIOUS
<1>1. /\ modem = [rx |-> TRUE, tx |-> "idle", dropped |-> FALSE]
      /\ inbox = <<>> /\ line = <<>> /\ calls = <<>>
      /\ serving = [call |-> NoCall, age |-> 0]
      /\ waits = [p \in Callers |-> NotWaiting]
      /\ life = [pc |-> "idle", frame |-> 0, failing |-> FALSE, remain |-> FALSE,
                 waited |-> 0, idleAge |-> 0, latched |-> FALSE]
      /\ broker = [pc |-> "idle", frame |-> 0, live |-> FALSE, result |-> "none"]
      /\ outcomes = <<>> /\ aired = <<>>
  BY DEF Init
<1>2. /\ NotWaiting \in Waits /\ NotWaiting.on = FALSE /\ NotWaiting.answer = Pending
  BY Marks DEF NotWaiting, Waits
<1>3. /\ waits \in [Callers -> Waits] /\ ~waits["life"].on /\ ~waits["broker"].on
      /\ LifeAnswer = Pending /\ BrokerAnswer = Pending
  BY <1>1, <1>2, TwoCallers DEF LifeAnswer, BrokerAnswer
<1>4. /\ life.pc = "idle" /\ life.frame = 0 /\ ~life.latched /\ life \in Lives
  BY <1>1 DEF Lives, LifePcs
<1>5. /\ broker.pc = "idle" /\ ~broker.live /\ broker.result = "none"
      /\ broker \in Brokers
  BY <1>1 DEF Brokers
<1>6. serving.call = NoCall /\ serving \in Servings
  BY <1>1, TxPipelineAssumption DEF Servings
<1>7. modem \in Modems /\ modem.tx = "idle" /\ modem.rx
  BY <1>1 DEF Modems, TxStates
<1>8. Types
  BY <1>1, <1>3, <1>4, <1>5, <1>6, <1>7 DEF Types
<1>9. WorkInv
  <2>1. Holds(NoCall, NoCall)
    BY <1>1, <1>6 DEF Holds, Queue
  <2>2. BrokerCall(NoCall) /\ LifeCall(NoCall)
    BY <1>3 DEF BrokerCall, LifeCall
  <2> QED BY <2>1, <2>2 DEF WorkInv
<1>10. Len(aired) = 0 /\ Len(outcomes) = 0
  BY <1>1
<1>11. BurstInv
  <2>1. Distinct(aired) /\ ~Sent(0)
    BY <1>10 DEF Distinct, Sent, SentIn
  <2> QED BY <1>1, <1>4, <1>5, <1>6, <1>10, <2>1, BurstEmpty DEF BurstInv, Early
<1>12. BrokerInv
  BY <1>3, <1>4, <1>5, Marks DEF BrokerInv
<1>13. LifeInv
  BY <1>3, <1>4, <1>10 DEF LifeInv, Calling
<1>14. GoingInv
  BY <1>1, <1>3, <1>4, <1>5, <1>6, <1>7 DEF GoingInv, InboxInv, LineInv, KnowInv
<1> QED BY <1>8, <1>9, <1>11, <1>12, <1>13, <1>14 DEF PipeInv

\* Nothing changes.
LEMMA PipeStutters ==
    ASSUME PipeInv, UNCHANGED vars
    PROVE  PipeInv'
<1>1. /\ modem' = modem /\ inbox' = inbox /\ line' = line /\ aired' = aired
      /\ calls' = calls /\ serving' = serving /\ waits' = waits /\ life' = life
      /\ broker' = broker /\ outcomes' = outcomes
  BY DEF vars
<1>2. LifeAnswer' = LifeAnswer /\ BrokerAnswer' = BrokerAnswer
  BY <1>1 DEF LifeAnswer, BrokerAnswer
<1>3. (Going' <=> Going) /\ (BrokerOut' <=> BrokerOut)
  BY <1>1, <1>2 DEF Going, BrokerOut
<1>4. Types'
  BY <1>1 DEF PipeInv, Types
<1>5. WorkInv'
  <2>1. PICK b, l : Holds(b, l) /\ BrokerCall(b) /\ LifeCall(l)
    BY DEF PipeInv, WorkInv
  <2>2. Holds(b, l)' /\ BrokerCall(b)' /\ LifeCall(l)'
    BY <1>1, <1>2, <1>3, <2>1 DEF Holds, BrokerCall, LifeCall
  <2> QED BY <2>2 DEF WorkInv
<1>6. BurstInv' /\ BrokerInv' /\ LifeInv'
  BY <1>1, <1>2 DEF PipeInv, BurstInv, BrokerInv, LifeInv, Sent
<1>7. GoingInv'
  <2>1. \A q : Left(q) => Left(q)'
    BY <1>1, <1>3 DEF Left
  <2>2. (InboxInv => InboxInv') /\ (LineInv => LineInv') /\ (KnowInv => KnowInv')
    BY <1>1, <1>2, <2>1 DEF InboxInv, LineInv, KnowInv
  <2> QED BY <1>3, <2>2 DEF PipeInv, GoingInv
<1> QED BY <1>4, <1>5, <1>6, <1>7 DEF PipeInv

\* Every step keeps the invariant.
LEMMA PipeNext == PipeInv /\ [Next]_vars => PipeInv'
<1> SUFFICES ASSUME PipeInv, [Next]_vars PROVE PipeInv'
  OBVIOUS
<1>1. CASE ModemSteps
  BY <1>1, ServeKeeps, LoseKeeps, ModemMoves DEF ModemSteps
<1>2. CASE OwnerSteps
  BY <1>2, OwnerBeginsKeeps, OwnerEndsKeeps, GivesUpKeeps DEF OwnerSteps
<1>3. CASE BrokerSteps
  BY <1>3, BrokerAsksKeeps, BrokerEndsKeeps DEF BrokerSteps
<1>4. CASE LifeBegins
  BY <1>4, BeginsKeeps
<1>5. CASE CycleSteps
  BY <1>5, LifeProceedsKeeps, ReadsStatusKeeps, HandoffEndsKeeps, SubmitsKeeps,
     SleepsKeeps, EndsKeeps DEF CycleSteps
<1>6. CASE Tick
  BY <1>6, TickKeeps
<1>7. CASE UNCHANGED vars
  BY <1>7, PipeStutters
<1> QED BY <1>1, <1>2, <1>3, <1>4, <1>5, <1>6, <1>7 DEF Next

\* The invariant of the pipeline: whichever timeouts are hit, the owner holds
\* at most one call of each caller, each frame's burst exists at most once,
\* and the lifecycle knows what its answers told it.
THEOREM PipeInvariant == Spec => []PipeInv
<1>1. Init => PipeInv
  BY PipeInit
<1>2. PipeInv /\ [Next]_vars => PipeInv'
  BY PipeNext
<1> QED BY <1>1, <1>2, PTL DEF Spec

\* The types, and no backlog: two calls are the most the owner's queue ever
\* holds, those its callers abandoned included, so a queue of more than two
\* never refuses one.
THEOREM TypeCorrect ==
    ASSUME OwnerCapacity > 2
    PROVE  Spec => []TypeOK
<1>1. PipeInv => TypeOK
  <2> SUFFICES ASSUME PipeInv PROVE TypeOK
    OBVIOUS
  <2>1. Len(calls) <= 2
    <3>1. PICK b, l : Holds(b, l)
      BY DEF PipeInv, WorkInv
    <3>2. PICK x \in Calls \cup {NoCall}, y \in Calls \cup {NoCall} : calls = Queue(x, y)
      BY <3>1 DEF Holds, Queue
    <3>3. Len(Queue(x, y)) <= 2
      BY QueueEnds
    <3> QED BY <3>2, <3>3
  <2>2. calls \in Seq(Calls) /\ Len(calls) \in Nat /\ OwnerCapacity \in Nat
    BY TxPipelineAssumption DEF PipeInv, Types
  <2>3. Len(calls) < OwnerCapacity
    BY <2>1, <2>2
  <2> QED BY <2>3 DEF PipeInv, Types, TypeOK, Waits, Lives, Brokers, Servings, Outcomes
<1> QED BY <1>1, PipeInvariant, PTL

\* SettledBetweenCycles: when half_duplex.py has returned without latching,
\* the modem receives, nothing transmits, and nothing of the cycle is left in
\* the owner's queue, in service or on the line.
THEOREM AlwaysSettled == Spec => []SettledBetweenCycles
<1>1. PipeInv => SettledBetweenCycles
  <2> SUFFICES ASSUME PipeInv, life.pc = "idle", ~life.latched
               PROVE  /\ modem.rx /\ modem.tx = "idle"
                      /\ BrokerDone /\ broker.result = "none"
                      /\ calls = <<>> /\ serving.call = NoCall /\ inbox = <<>>
    BY DEF SettledBetweenCycles
  <2>1. Going
    BY Marks DEF PipeInv, LifeInv, Going, Calling
  <2>2. serving.call = NoCall /\ calls = <<>>
    BY <2>1, OwnerAlone DEF PipeInv, Calling
  <2>3. modem.rx /\ modem.tx = "idle" /\ inbox = <<>>
    BY <2>1, <2>2 DEF PipeInv, GoingInv, KnowInv, InboxInv, Left
  <2>4. broker.pc \in {"idle", "burst"} /\ broker.result = "none"
    BY BrokerQuiet
  <2>5. BrokerDone
    <3>1. PICK b, l : Holds(b, l) /\ BrokerCall(b)
      BY DEF PipeInv, WorkInv
    <3>2. b = NoCall
      BY <3>1 DEF BrokerCall
    <3>3. broker.pc = "burst" => BrokerAnswer # Pending
      BY <3>1, <3>2 DEF BrokerCall, PipeInv, BrokerInv
    <3> QED BY <2>4, <3>3 DEF BrokerDone
  <2> QED BY <2>2, <2>3, <2>4, <2>5
<1> QED BY <1>1, PipeInvariant, PTL

\* How often a frame was sent, from whether it was.
LEMMA TimesSent ==
    ASSUME PipeInv, NEW f
    PROVE  /\ Sent(f) => Times(f) = 1
           /\ ~Sent(f) => Times(f) = 0
<1> DEFINE I == {i \in 1..Len(aired) : aired[i] = f}
<1>1. Times(f) = Cardinality(I)
  BY DEF Times
<1>2. ASSUME Sent(f) PROVE Cardinality(I) = 1
  <2>1. PICK i \in 1..Len(aired) : aired[i] = f
    BY <1>2 DEF Sent, SentIn
  <2>2. \A j \in I : j = i
    BY <2>1 DEF PipeInv, BurstInv, Distinct
  <2>3. I = {i}
    BY <2>1, <2>2
  <2> HIDE DEF I
  <2> QED BY <2>3, FS_Singleton
<1>3. ASSUME ~Sent(f) PROVE Cardinality(I) = 0
  <2>1. I = {}
    BY <1>3 DEF Sent, SentIn
  <2> HIDE DEF I
  <2> QED BY <2>1, FS_EmptySet
<1> QED BY <1>1, <1>2, <1>3

\* OutcomesTruthful: the receipt half_duplex.py returns, or the error it
\* raises, says what the firmware did with the frame, and no frame is sent
\* twice.
THEOREM AlwaysTruthful == Spec => []OutcomesTruthful
<1>1. PipeInv => OutcomesTruthful
  <2> SUFFICES ASSUME PipeInv PROVE OutcomesTruthful
    OBVIOUS
  <2>1. \A f : Times(f) \in {0, 1} /\ (Sent(f) => Times(f) = 1)
                                   /\ (~Sent(f) => Times(f) = 0)
    BY TimesSent
  <2>2. \A f \in 1..Len(outcomes) : /\ outcomes[f] = "complete" => Sent(f)
                                    /\ outcomes[f] = "handoff" => ~Sent(f)
    BY DEF PipeInv, LifeInv
  <2>3. \A f : Times(f) <= 1
    BY <2>1
  <2> HIDE DEF Times
  <2> QED BY <2>1, <2>2, <2>3 DEF OutcomesTruthful
<1> QED BY <1>1, PipeInvariant, PTL

\* RxStartOnlyAfterBurst: half_duplex.py asks for RX_START only when the radio
\* is silent and no burst is queued, in service or on the line.
THEOREM RxStartsAfterBurst == Spec => RxStartOnlyAfterBurst
<1> DEFINE A == life.pc # "start" /\ life'.pc = "start" => modem.tx = "idle" /\ ~BurstWaits
<1>1. PipeInv /\ [Next]_vars => [A]_vars
  <2> SUFFICES ASSUME PipeInv, Next, life.pc # "start", life'.pc = "start"
               PROVE  modem.tx = "idle" /\ ~BurstWaits
    OBVIOUS
  <2>1. LifeRestartsRx
    <3>1. life \in Lives
      BY DEF PipeInv, Types
    <3>2. life' # life
      OBVIOUS
    <3>3. LifeBegins \/ CycleSteps \/ Tick
      BY <3>2 DEF Next, ModemSteps, Serve, LoseRequest, Transmit, Overflow, OwnerSteps,
                  OwnerBegins, OwnerReads, OwnerTimesOut, CallerGivesUp, BrokerSteps,
                  BrokerBegins, BrokerSends, BrokerSucceeds, BrokerFails, BrokerEnds
    <3>4. ~LifeBegins
      BY <3>1 DEF LifeBegins, Lives
    <3>5. ~Tick
      BY <3>1 DEF Tick, Lives
    <3>6. ~LifeStopsRx /\ ~LifeChecksStop /\ ~LifeSubmits /\ ~LifeSleeps
      BY <3>1 DEF LifeStopsRx, LifeChecksStop, LifeSubmits, LifeSleeps, Lives
    <3>7. ~LifeRefused /\ ~LifeReceipt /\ ~LifeGivesUp
      BY <3>1 DEF LifeRefused, LifeReceipt, LifeGivesUp, AwaitIdle, Lives
    <3>8. ~LifeReadsStatus /\ ~LifePolls /\ ~LifeVerifies
      BY <3>1 DEF LifeReadsStatus, LifePolls, LifeVerifies, Lives
    <3>9. ~LifeRestored /\ ~LifeLatches
      BY <3>1 DEF LifeRestored, LifeLatches, LifeEnds, Lives
    <3> QED BY <3>3, <3>4, <3>5, <3>6, <3>7, <3>8, <3>9 DEF CycleSteps
  <2>2. life.pc = "diag" /\ Satisfied /\ IdleSeen
    BY <2>1 DEF LifeRestartsRx
  <2>3. Going /\ LifeAnswer # Pending
    BY <2>2, SatisfiedGoing DEF Calling
  <2>4. serving.call = NoCall /\ calls = <<>>
    BY <2>2, <2>3, OwnerAlone DEF PipeInv
  <2>5. modem.tx = "idle" /\ inbox = <<>>
    BY <2>2, <2>3 DEF PipeInv, GoingInv, KnowInv, IdleSeen
  <2> QED BY <2>4, <2>5 DEF BurstWaits
<1> QED BY <1>1, PipeInvariant, PTL DEF Spec, RxStartOnlyAfterBurst

\* NoLateBurst: the firmware accepts a burst only for the frame whose cycle
\* waits for it, unless the lifecycle has latched.
THEOREM NeverLateBurst == Spec => NoLateBurst
<1> DEFINE A == aired' # aired =>
                   \/ life.latched
                   \/ /\ life.frame = aired'[Len(aired')]
                      /\ life.pc \in {"submit", "status", "diag", "poll"}
<1>1. PipeInv /\ [Next]_vars => [A]_vars
  <2> SUFFICES ASSUME PipeInv, Next, aired' # aired, ~life.latched
               PROVE  /\ life.frame = aired'[Len(aired')]
                      /\ life.pc \in {"submit", "status", "diag", "poll"}
    OBVIOUS
  <2>1. PICK replyLost \in BOOLEAN : Serve(replyLost)
    BY DEF Next, ModemSteps, LoseRequest, Transmit, Overflow, OwnerSteps, OwnerBegins,
           OwnerReads, OwnerTimesOut, CallerGivesUp, BrokerSteps, BrokerBegins,
           BrokerSends, BrokerSucceeds, BrokerFails, BrokerEnds, LifeBegins, CycleSteps,
           LifeStopsRx, LifeChecksStop, LifeSubmits, LifeRefused, LifeReceipt,
           LifeGivesUp, LifeReadsStatus, LifeRestartsRx, LifeSleeps, LifePolls,
           LifeVerifies, LifeRestored, LifeLatches, LifeEnds, Tick, linkVars
  <2>2. /\ inbox # <<>> /\ Head(inbox).op = "tx_burst"
        /\ aired' = Append(aired, Head(inbox).frame)
    BY <2>1 DEF Serve
  <2>3. /\ inbox \in Seq(Requests) /\ aired \in Seq(Nat) /\ life.frame \in Nat
    BY Fields DEF PipeInv, Types
  <2>4. Head(inbox).frame = life.frame /\ BurstIn(inbox)
    BY <2>2, <2>3, BurstTail DEF PipeInv, BurstInv
  <2>5. life.pc \in {"submit", "status"}
    BY <2>4 DEF PipeInv, BurstInv
  <2>6. aired'[Len(aired')] = life.frame
    BY <2>2, <2>3, <2>4, SeqAppends
  <2> QED BY <2>5, <2>6
<1> QED BY <1>1, PipeInvariant, PTL DEF Spec, NoLateBurst
=============================================================================
