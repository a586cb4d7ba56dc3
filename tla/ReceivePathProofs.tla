-------------------------- MODULE ReceivePathProofs --------------------------
(***************************************************************************)
(* The receive path, for every size of the ring, every number of bytes and *)
(* of own transmissions: the ring is a bounded FIFO whose drops are seen   *)
(* before they are forgotten, the decoder is never fed a spliced stream    *)
(* that the modem does not own up to, every transmission is published at   *)
(* most once and in order, and the drain before an own transmission leaves *)
(* no complete frame behind.                                               *)
(***************************************************************************)
EXTENDS ReceivePath, TLAPS, SequenceTheorems, FunctionTheorems, WellFoundedInduction

-----------------------------------------------------------------------------
(***************************************************************************)
(* The ring                                                                *)
(***************************************************************************)

\* The constants the ring is built from.
LEMMA RingConstants ==
    /\ BufferSize \in Nat /\ BufferSize > 1
    /\ DropLimit \in Nat /\ DropLimit > 0
    /\ MaxTime \in Nat
BY ReceivePathAssumption

\* Counting around the ring comes back by one turn.
LEMMA AroundRing ==
    ASSUME NEW a \in Nat, a < 2 * BufferSize
    PROVE  a % BufferSize = IF a < BufferSize THEN a ELSE a - BufferSize
BY RingConstants

\* What the ring holds, oldest byte first.
Contents(r) ==
    [i \in 1..Available(r) |-> r.buffer[(r.tail + i - 1) % BufferSize]]

\* The slot of the i-th byte.
Slot(tail, i) ==
    IF tail + i - 1 < BufferSize THEN tail + i - 1 ELSE (tail + i - 1) - BufferSize

\* The count of bytes is right, and each is in its slot.
LEMMA ContentsShape ==
    ASSUME NEW r \in Rings
    PROVE  /\ Available(r) \in 0..BufferSize - 1
           /\ Contents(r) \in Seq(Nat)
           /\ Len(Contents(r)) = Available(r)
           /\ \A i \in 1..Available(r) :
                 /\ Slot(r.tail, i) \in 0..BufferSize - 1
                 /\ Contents(r)[i] = r.buffer[Slot(r.tail, i)]
<1>1. /\ r.head \in 0..BufferSize - 1 /\ r.tail \in 0..BufferSize - 1
      /\ r.buffer \in [0..BufferSize - 1 -> Nat]
  BY DEF Rings
<1>2. Available(r) \in 0..BufferSize - 1
  BY <1>1, RingConstants DEF Available
<1>3. ASSUME NEW i \in 1..Available(r)
      PROVE  /\ Slot(r.tail, i) \in 0..BufferSize - 1
             /\ (r.tail + i - 1) % BufferSize = Slot(r.tail, i)
  <2>1. r.tail + i - 1 \in Nat /\ r.tail + i - 1 < 2 * BufferSize
    BY <1>1, <1>2, RingConstants
  <2> DEFINE a == r.tail + i - 1
  <2>2. a \in Nat /\ a < 2 * BufferSize /\ a = r.tail + i - 1
    BY <2>1
  <2>3. Slot(r.tail, i) = IF a < BufferSize THEN a ELSE a - BufferSize
    BY DEF Slot
  <2> HIDE DEF a
  <2>4. a % BufferSize = IF a < BufferSize THEN a ELSE a - BufferSize
    BY <2>2, AroundRing
  <2>5. Slot(r.tail, i) \in 0..BufferSize - 1
    BY <2>2, <2>3, RingConstants
  <2> QED BY <2>2, <2>3, <2>4, <2>5
<1>4. \A i \in 1..Available(r) : Contents(r)[i] = r.buffer[Slot(r.tail, i)]
  BY <1>3 DEF Contents
<1>5. \A i \in 1..Available(r) : r.buffer[Slot(r.tail, i)] \in Nat
  BY <1>1, <1>3
<1>6. Contents(r) \in Seq(Nat) /\ Len(Contents(r)) = Available(r)
  <2>1. Contents(r) \in [1..Available(r) -> Nat]
    BY <1>3, <1>5 DEF Contents
  <2> QED BY <1>2, <2>1
<1> QED BY <1>2, <1>3, <1>4, <1>6

\* The ring is full exactly when the next head would be the tail.
LEMMA FullRing ==
    ASSUME NEW r \in Rings
    PROVE  /\ NextSlot(r.head) = r.tail <=> Available(r) = BufferSize - 1
           /\ r.head = r.tail <=> Available(r) = 0
           /\ NextSlot(r.head) \in 0..BufferSize - 1
           /\ NextSlot(r.tail) \in 0..BufferSize - 1
<1>1. r.head \in 0..BufferSize - 1 /\ r.tail \in 0..BufferSize - 1
  BY DEF Rings
<1> QED BY <1>1, RingConstants DEF Available, NextSlot

\* The same, for the two indices alone: how the count and the slots move.
LEMMA MovingIndices ==
    ASSUME NEW h \in 0..BufferSize - 1, NEW t \in 0..BufferSize - 1
    PROVE  LET count(x, y) == IF x >= y THEN x - y ELSE BufferSize - y + x
           IN  /\ NextSlot(h) # t => count(NextSlot(h), t) = count(h, t) + 1
               /\ h # t => count(h, NextSlot(t)) = count(h, t) - 1
               /\ h # t => \A i \in 1..count(h, t) - 1 :
                     Slot(NextSlot(t), i) = Slot(t, i + 1)
               /\ Slot(t, 1) = t
               /\ \A i \in 1..count(h, t) : Slot(t, i) # h
               /\ Slot(t, count(h, t) + 1) = h
BY RingConstants DEF NextSlot, Slot

\* The interrupt's byte goes behind the others.
LEMMA RingPuts ==
    ASSUME NEW r \in Rings, NEW byte \in Nat, r.active,
           NextSlot(r.head) # r.tail
    PROVE  /\ SampleByte(r, byte) \in Rings
           /\ Contents(SampleByte(r, byte)) = Append(Contents(r), byte)
           /\ SampleByte(r, byte).dropped = r.dropped
           /\ SampleByte(r, byte).active
<1> DEFINE s == SampleByte(r, byte)
<1>1. /\ r.head \in 0..BufferSize - 1 /\ r.tail \in 0..BufferSize - 1
      /\ r.buffer \in [0..BufferSize - 1 -> Nat]
  BY DEF Rings
<1>2. s = [r EXCEPT !.buffer = [r.buffer EXCEPT ![r.head] = byte],
                    !.head = NextSlot(r.head)]
  BY DEF SampleByte
<1>3. NextSlot(r.head) \in 0..BufferSize - 1
  BY FullRing
<1>4. [r.buffer EXCEPT ![r.head] = byte] \in [0..BufferSize - 1 -> Nat]
  BY <1>1
<1>5. s \in Rings
  BY <1>2, <1>3, <1>4 DEF Rings
<1>6. /\ s.buffer = [r.buffer EXCEPT ![r.head] = byte]
      /\ s.head = NextSlot(r.head) /\ s.tail = r.tail
      /\ s.dropped = r.dropped /\ s.active = r.active
  BY <1>2 DEF Rings
<1> HIDE DEF s
<1>7. Available(s) = Available(r) + 1
  BY <1>1, <1>6, MovingIndices DEF Available
<1>8. \A i \in 1..Available(r) : Slot(r.tail, i) # r.head
  BY <1>1, MovingIndices DEF Available
<1>9. Slot(r.tail, Available(r) + 1) = r.head
  BY <1>1, MovingIndices DEF Available
<1>10. /\ Available(r) \in Nat
       /\ \A i \in 1..Available(s) : Contents(s)[i] = s.buffer[Slot(s.tail, i)]
  BY <1>5, ContentsShape
<1>11. \A i \in 1..Available(r) : Contents(s)[i] = Contents(r)[i]
  <2> SUFFICES ASSUME NEW i \in 1..Available(r)
               PROVE  Contents(s)[i] = Contents(r)[i]
    OBVIOUS
  <2>1. i \in 1..Available(s)
    BY <1>7, <1>10
  <2>2. Contents(s)[i] = s.buffer[Slot(r.tail, i)]
    BY <1>6, <1>10, <2>1
  <2>3. /\ Contents(r)[i] = r.buffer[Slot(r.tail, i)]
        /\ Slot(r.tail, i) \in 0..BufferSize - 1
    BY ContentsShape
  <2> QED BY <1>1, <1>6, <1>8, <2>2, <2>3
<1>12. Contents(s)[Available(r) + 1] = byte
  <2>1. Available(r) + 1 \in 1..Available(s)
    BY <1>7, <1>10
  <2>2. Contents(s)[Available(r) + 1] = s.buffer[Slot(r.tail, Available(r) + 1)]
    BY <1>6, <1>10, <2>1
  <2> QED BY <1>1, <1>6, <1>9, <2>2
<1>13. Contents(s) = Append(Contents(r), byte)
  <2>1. /\ Contents(s) \in Seq(Nat) /\ Len(Contents(s)) = Available(r) + 1
        /\ Contents(r) \in Seq(Nat) /\ Len(Contents(r)) = Available(r)
    BY <1>5, <1>7, ContentsShape
  <2>2. Append(Contents(r), byte) \in Seq(Nat)
        /\ Len(Append(Contents(r), byte)) = Available(r) + 1
        /\ \A i \in 1..Available(r) + 1 :
              Append(Contents(r), byte)[i]
                = IF i <= Available(r) THEN Contents(r)[i] ELSE byte
    BY <2>1, AppendProperties
  <2>3. \A i \in 1..Available(r) + 1 :
          Contents(s)[i] = Append(Contents(r), byte)[i]
    BY <1>10, <1>11, <1>12, <2>2
  <2> QED BY <2>1, <2>2, <2>3, SeqEqual
<1> QED BY <1>5, <1>6, <1>13 DEF s

\* One that finds the ring full, or the capture stopped, changes no byte.
LEMMA RingDrops ==
    ASSUME NEW r \in Rings, NEW byte \in Nat,
           ~r.active \/ NextSlot(r.head) = r.tail
    PROVE  /\ SampleByte(r, byte) \in Rings
           /\ Contents(SampleByte(r, byte)) = Contents(r)
           /\ SampleByte(r, byte).active = r.active
           /\ SampleByte(r, byte).dropped =
                 IF r.active /\ r.dropped < DropLimit THEN r.dropped + 1
                 ELSE r.dropped
<1>1. CASE ~r.active
  BY <1>1 DEF SampleByte, Rings
<1>2. CASE r.active
  <2> DEFINE d == IF r.dropped < DropLimit THEN r.dropped + 1 ELSE r.dropped
  <2>1. SampleByte(r, byte) = [r EXCEPT !.dropped = d]
    BY <1>2 DEF SampleByte
  <2>2. r.dropped \in 0..DropLimit
    BY DEF Rings
  <2>3. d \in 0..DropLimit
    BY <2>2, RingConstants
  <2>4. d = IF r.active /\ r.dropped < DropLimit THEN r.dropped + 1 ELSE r.dropped
    BY <1>2
  <2> HIDE DEF d
  <2>5. /\ [r EXCEPT !.dropped = d] \in Rings
        /\ [r EXCEPT !.dropped = d].dropped = d
        /\ [r EXCEPT !.dropped = d].head = r.head
        /\ [r EXCEPT !.dropped = d].tail = r.tail
        /\ [r EXCEPT !.dropped = d].active = r.active
        /\ [r EXCEPT !.dropped = d].buffer = r.buffer
    BY <2>3 DEF Rings
  <2> QED BY <2>1, <2>4, <2>5 DEF Contents, Available
<1> QED BY <1>1, <1>2

\* RX_READ takes the oldest byte.
LEMMA RingTakes ==
    ASSUME NEW r \in Rings, r.tail # r.head
    PROVE  /\ ReadByte(r) \in Rings
           /\ Contents(r) # <<>>
           /\ Contents(ReadByte(r)) = Tail(Contents(r))
           /\ Head(Contents(r)) = r.buffer[r.tail]
           /\ r.buffer[r.tail] \in Nat
           /\ ReadByte(r).dropped = r.dropped /\ ReadByte(r).active = r.active
<1> DEFINE s == ReadByte(r)
<1>1. /\ r.head \in 0..BufferSize - 1 /\ r.tail \in 0..BufferSize - 1
      /\ r.buffer \in [0..BufferSize - 1 -> Nat]
  BY DEF Rings
<1>2. NextSlot(r.tail) \in 0..BufferSize - 1
  BY FullRing
<1>3. s \in Rings
  BY <1>2 DEF Rings, ReadByte
<1>4. /\ s.tail = NextSlot(r.tail) /\ s.head = r.head /\ s.buffer = r.buffer
      /\ s.dropped = r.dropped /\ s.active = r.active
  BY DEF Rings, ReadByte
<1> HIDE DEF s
<1>5. Available(r) \in Nat /\ Available(r) > 0 /\ Available(s) = Available(r) - 1
  <2>1. Available(r) \in 0..BufferSize - 1 /\ Available(r) # 0
    BY ContentsShape, FullRing
  <2>2. Available(s) = Available(r) - 1
    BY <1>1, <1>4, MovingIndices DEF Available
  <2> QED BY <2>1, <2>2, RingConstants
<1>6. \A i \in 1..Available(r) - 1 : Slot(s.tail, i) = Slot(r.tail, i + 1)
  BY <1>1, <1>4, MovingIndices DEF Available
<1>7. Slot(r.tail, 1) = r.tail
  BY <1>1, MovingIndices
<1>8. /\ Contents(s) \in Seq(Nat) /\ Len(Contents(s)) = Available(r) - 1
      /\ Contents(r) \in Seq(Nat) /\ Len(Contents(r)) = Available(r)
  BY <1>3, <1>5, ContentsShape
<1>9. /\ Contents(r) # <<>> /\ Head(Contents(r)) = Contents(r)[1]
      /\ Tail(Contents(r)) \in Seq(Nat)
      /\ Len(Tail(Contents(r))) = Available(r) - 1
      /\ \A i \in 1..Available(r) - 1 : Tail(Contents(r))[i] = Contents(r)[i + 1]
  BY <1>5, <1>8, HeadTailProperties
<1>10. Contents(r)[1] = r.buffer[r.tail]
  BY <1>5, <1>7, ContentsShape
<1>11. \A i \in 1..Available(r) - 1 : Contents(s)[i] = Contents(r)[i + 1]
  <2> SUFFICES ASSUME NEW i \in 1..Available(r) - 1
               PROVE  Contents(s)[i] = Contents(r)[i + 1]
    OBVIOUS
  <2>1. i \in 1..Available(s) /\ i + 1 \in 1..Available(r)
    BY <1>5
  <2> QED BY <1>3, <1>4, <1>6, <2>1, ContentsShape
<1>12. Contents(s) = Tail(Contents(r))
  BY <1>8, <1>9, <1>11, SeqEqual
<1> QED BY <1>1, <1>3, <1>4, <1>9, <1>10, <1>12 DEF s

\* RX_START empties the ring and forgets its drops; RX_STOP keeps both.
LEMMA RingRestarts ==
    ASSUME NEW r \in Rings
    PROVE  /\ StartCapture(r) \in Rings /\ Contents(StartCapture(r)) = <<>>
           /\ StartCapture(r).dropped = 0 /\ StartCapture(r).active
           /\ StopCapture(r) \in Rings
           /\ Contents(StopCapture(r)) = Contents(r)
           /\ StopCapture(r).dropped = r.dropped /\ ~StopCapture(r).active
<1>1. StartCapture(r) \in Rings
  <2>1. 0 \in 0..BufferSize - 1 /\ 0 \in 0..DropLimit
    BY RingConstants
  <2> QED BY <2>1, Zenon DEF StartCapture, Rings
<1>2. /\ StartCapture(r).head = 0 /\ StartCapture(r).tail = 0
      /\ StartCapture(r).dropped = 0 /\ StartCapture(r).active
  BY DEF StartCapture, Rings
<1>3. Available(StartCapture(r)) = 0
  BY <1>2 DEF Available
<1>4. Contents(StartCapture(r)) = <<>>
  BY <1>1, <1>3, ContentsShape, EmptySeq
<1>5. StopCapture(r) \in Rings
  BY DEF StopCapture, Rings
<1>6. /\ StopCapture(r).head = r.head /\ StopCapture(r).tail = r.tail
      /\ StopCapture(r).buffer = r.buffer
      /\ StopCapture(r).dropped = r.dropped /\ ~StopCapture(r).active
  BY DEF StopCapture, Rings
<1>7. Contents(StopCapture(r)) = Contents(r)
  BY <1>6 DEF Contents, Available
<1> QED BY <1>1, <1>2, <1>4, <1>5, <1>6, <1>7

-----------------------------------------------------------------------------
(***************************************************************************)
(* The inductive invariant                                                 *)
(***************************************************************************)

\* A sequence of bytes that follow each other, up to the byte e.
Run(s, e) == \A i \in 1..Len(s) : s[i] = e - Len(s) + i

\* The worker has its fields.
WorkerShape ==
    worker = [pc |-> worker.pc, reads |-> worker.reads, chunk |-> worker.chunk,
              short |-> worker.short, fresh |-> worker.fresh,
              passes |-> worker.passes]

PathTypes ==
    /\ now \in 0..MaxTime
    /\ ring \in Rings
    /\ WorkerShape
    /\ worker.pc \in Places
    /\ worker.chunk \in Seq(Nat)
    /\ decoder.last \in Nat
    /\ decoder.torn \in BOOLEAN

\* A chunk is at hand only while it is read and fed; the capture is off only
\* during a transmission, and then nothing was dropped.
PlaceInv ==
    /\ worker.pc \notin {"reading", "feeding", "failed"} => worker.chunk = <<>>
    /\ worker.pc = "feeding" => worker.chunk # <<>>
    /\ worker.pc = "sending" => ~ring.active /\ ring.dropped = 0
    /\ worker.pc \notin {"sending", "failed"} => ring.active

\* As long as nothing was dropped, the last byte fed, the chunk in hand and
\* the ring's content are one run of bytes up to the present; the decoder's
\* part in it begins once it was renewed after a transmission.
StreamInv ==
    ring.dropped = 0 /\ worker.pc \notin {"sending", "failed"} =>
        /\ Run(Contents(ring), now)
        /\ Run(worker.chunk, now - Len(Contents(ring)))
        /\ worker.pc # "verify" /\ decoder.last # 0 =>
              decoder.last = now - Len(Contents(ring)) - Len(worker.chunk)

PathInv == PathTypes /\ PlaceInv /\ StreamInv /\ NoSplicedStream

\* The next byte goes on with a run, at its end.
LEMMA RunGrows ==
    ASSUME NEW s \in Seq(Nat), NEW e \in Int, Run(s, e), NEW b \in Nat, b = e + 1
    PROVE  Run(Append(s, b), e + 1)
<1>1. /\ Len(s) \in Nat /\ Len(Append(s, b)) = Len(s) + 1
      /\ \A i \in 1..Len(s) + 1 :
            Append(s, b)[i] = IF i <= Len(s) THEN s[i] ELSE b
  BY AppendProperties
<1> QED BY <1>1 DEF Run

\* Its first byte can be taken away.
LEMMA RunShrinks ==
    ASSUME NEW s \in Seq(Nat), NEW e \in Int, Run(s, e), s # <<>>
    PROVE  Run(Tail(s), e) /\ Head(s) = e - Len(s) + 1
<1>1. /\ Len(s) \in Nat \ {0} /\ Len(Tail(s)) = Len(s) - 1
      /\ \A i \in 1..Len(s) - 1 : Tail(s)[i] = s[i + 1]
      /\ Head(s) = s[1]
  BY EmptySeq, HeadTailProperties
<1> QED BY <1>1 DEF Run

\* An empty one goes up to anywhere.
LEMMA RunEmpty == \A e : Run(<<>>, e)
BY DEF Run

\* Going on leaves the chunk alone.
LEMMA GoesShape ==
    ASSUME WorkerShape, NEW pc, Goes(pc)
    PROVE  WorkerShape' /\ worker'.pc = pc /\ worker'.chunk = worker.chunk
BY DEF WorkerShape, Goes

\* The step after a read, or into a drain.
LEMMA DrainShape ==
    ASSUME WorkerShape, NEW w, NEW pc, NEW reads, NEW short, NEW fresh, NEW passes,
           w = [pc |-> pc, reads |-> reads, chunk |-> worker.chunk,
                short |-> short, fresh |-> fresh, passes |-> passes],
           worker' = DrainStep(w)
    PROVE  /\ WorkerShape' /\ worker'.chunk = worker.chunk
           /\ worker'.pc \in {"reading", "drained"}
<1>1. CASE DrainGoesOn(w)
  BY <1>1 DEF WorkerShape, DrainStep
<1>2. CASE ~DrainGoesOn(w)
  <2>1. worker' = [w EXCEPT !.pc = "drained", !.reads = 0, !.short = FALSE]
    BY <1>2 DEF DrainStep
  <2>2. worker' = [pc |-> "drained", reads |-> 0, chunk |-> worker.chunk,
                   short |-> FALSE, fresh |-> fresh, passes |-> passes]
    BY <2>1
  <2> QED BY <2>2 DEF WorkerShape
<1> QED BY <1>1, <1>2

\* A step of the worker that leaves the ring, the decoder and the chunk alone
\* and does not lead into a transmission.
LEMMA QuietStep ==
    ASSUME PathInv, UNCHANGED <<now, ring, decoder>>,
           WorkerShape', worker'.pc \in Places, worker'.chunk = worker.chunk,
           \/ worker'.pc = "failed"
           \/ /\ worker.pc \notin {"reading", "feeding", "sending", "verify", "failed"}
              /\ worker'.pc \notin {"feeding", "sending", "verify"}
    PROVE  PathInv'
<1>1. PathTypes'
  BY DEF PathInv, PathTypes
<1>2. PlaceInv' /\ StreamInv' /\ NoSplicedStream'
  BY DEF PathInv, PlaceInv, StreamInv, NoSplicedStream
<1> QED BY <1>1, <1>2 DEF PathInv

\* A byte time: the ring takes the byte, drops it, or is off.
LEMMA AirInv ==
    ASSUME PathInv, AirByte
    PROVE  PathInv'
<1> USE DEF PathInv, PathTypes
<1>1. /\ UNCHANGED <<worker, decoder>> /\ worker.pc # "failed"
      /\ now' = now + 1 /\ now' \in 0..MaxTime /\ now + 1 \in Nat
      /\ ring' = SampleByte(ring, now + 1)
  BY RingConstants DEF AirByte, workVars, Ended
<1>2. CASE ring.active /\ NextSlot(ring.head) # ring.tail
  <2>1. /\ ring' \in Rings /\ Contents(ring') = Append(Contents(ring), now + 1)
        /\ ring'.dropped = ring.dropped /\ ring'.active
    BY <1>1, <1>2, RingPuts
  <2>2. Contents(ring) \in Seq(Nat)
    BY ContentsShape
  <2>3. Len(Contents(ring)) \in Nat
        /\ Len(Contents(ring')) = Len(Contents(ring)) + 1
    BY <1>1, <2>1, <2>2, AppendProperties
  <2>4. PlaceInv' /\ NoSplicedStream' /\ PathTypes'
    BY <1>1, <1>2, <2>1 DEF PlaceInv, NoSplicedStream, WorkerShape
  <2>5. ASSUME ring'.dropped = 0, worker'.pc \notin {"sending", "failed"}
        PROVE  /\ Run(Contents(ring'), now')
               /\ Run(worker.chunk, now' - Len(Contents(ring')))
               /\ worker.pc # "verify" /\ decoder.last # 0 =>
                    decoder.last = now' - Len(Contents(ring')) - Len(worker.chunk)
    <3>1. /\ Run(Contents(ring), now)
          /\ Run(worker.chunk, now - Len(Contents(ring)))
          /\ worker.pc # "verify" /\ decoder.last # 0 =>
               decoder.last = now - Len(Contents(ring)) - Len(worker.chunk)
      BY <1>1, <2>1, <2>5 DEF StreamInv
    <3>2. Run(Contents(ring'), now')
      <4>1. now \in Int
        BY RingConstants
      <4> QED BY <1>1, <2>1, <2>2, <3>1, <4>1, RunGrows
    <3>3. now' - Len(Contents(ring')) = now - Len(Contents(ring))
      <4> DEFINE l == Len(Contents(ring))
                 m == Len(Contents(ring'))
      <4>1. now \in Int /\ now' = now + 1 /\ l \in Int /\ m = l + 1
        BY <1>1, <2>3, RingConstants
      <4> HIDE DEF l, m
      <4>2. now' - m = now - l
        BY <4>1
      <4> QED BY <4>2 DEF l, m
    <3> QED BY <3>1, <3>2, <3>3
  <2> QED BY <1>1, <2>4, <2>5 DEF StreamInv
<1>3. CASE ring.active /\ NextSlot(ring.head) = ring.tail
  <2>1. /\ ring' \in Rings /\ ring'.active
        /\ ring'.dropped = IF ring.dropped < DropLimit THEN ring.dropped + 1
                           ELSE ring.dropped
    BY <1>1, <1>3, RingDrops
  <2>2. ring.dropped \in 0..DropLimit
    BY DEF Rings
  <2>3. ring'.dropped > 0
    BY <2>1, <2>2, RingConstants
  <2>4. worker.pc # "sending"
    BY <1>3 DEF PlaceInv
  <2> QED BY <1>1, <2>1, <2>3, <2>4
        DEF PlaceInv, StreamInv, NoSplicedStream, WorkerShape
<1>4. CASE ~ring.active
  <2>1. ring' = ring
    BY <1>1, <1>4 DEF SampleByte
  <2>2. worker.pc = "sending"
    BY <1>1, <1>4 DEF PlaceInv
  <2> QED BY <1>1, <2>1, <2>2
        DEF PlaceInv, StreamInv, NoSplicedStream, WorkerShape
<1> QED BY <1>2, <1>3, <1>4

\* The firmware serves a byte of a read.
LEMMA ReadInv ==
    ASSUME PathInv, FirmwareReads
    PROVE  PathInv'
<1> USE DEF PathInv, PathTypes
<1> DEFINE c == Contents(ring)
           b == ring.buffer[ring.tail]
<1>1. /\ UNCHANGED <<now, decoder>> /\ worker.pc = "reading"
      /\ ring.tail # ring.head /\ ring' = ReadByte(ring)
      /\ worker' = [worker EXCEPT !.chunk = Append(worker.chunk, b)]
  BY DEF FirmwareReads, airVars, RestOfWork
<1>2. /\ ring' \in Rings /\ Contents(ring') = Tail(c) /\ c # <<>>
      /\ Head(c) = b /\ b \in Nat
      /\ ring'.dropped = ring.dropped /\ ring'.active = ring.active
  BY <1>1, RingTakes
<1>3. c \in Seq(Nat)
  BY ContentsShape
<1>4. /\ Len(c) \in Nat \ {0} /\ Len(Tail(c)) = Len(c) - 1
  BY <1>2, <1>3, EmptySeq, HeadTailProperties
<1>5. /\ Append(worker.chunk, b) \in Seq(Nat)
      /\ Len(Append(worker.chunk, b)) = Len(worker.chunk) + 1
      /\ Len(worker.chunk) \in Nat
  BY <1>2, AppendProperties
<1> HIDE DEF b, c
<1>6. /\ WorkerShape' /\ worker'.pc = "reading"
      /\ worker'.chunk = Append(worker.chunk, b)
  BY <1>1 DEF WorkerShape
<1>7. PathTypes' /\ PlaceInv' /\ NoSplicedStream'
  BY <1>1, <1>2, <1>5, <1>6 DEF PlaceInv, NoSplicedStream, Places
<1>8. ASSUME ring'.dropped = 0
      PROVE  /\ Run(Tail(c), now)
             /\ Run(Append(worker.chunk, b), now - Len(Tail(c)))
             /\ decoder.last # 0 =>
                  decoder.last = now - Len(Tail(c)) - Len(Append(worker.chunk, b))
  <2>1. /\ Run(c, now) /\ Run(worker.chunk, now - Len(c))
        /\ decoder.last # 0 => decoder.last = now - Len(c) - Len(worker.chunk)
    BY <1>1, <1>2, <1>8 DEF StreamInv, c
  <2>2. Run(Tail(c), now) /\ b = now - Len(c) + 1
    <3>1. now \in Int
      BY RingConstants
    <3> QED BY <1>2, <1>3, <2>1, <3>1, RunShrinks
  <2>3. now - Len(c) \in Int /\ b = (now - Len(c)) + 1
    BY <1>4, <2>2
  <2>4. Run(Append(worker.chunk, b), (now - Len(c)) + 1)
    BY <1>2, <2>1, <2>3, RunGrows
  <2>5. (now - Len(c)) + 1 = now - Len(Tail(c))
    BY <1>4
  <2>6. now - Len(Tail(c)) - Len(Append(worker.chunk, b))
          = now - Len(c) - Len(worker.chunk)
    BY <1>4, <1>5
  <2> QED BY <2>1, <2>2, <2>4, <2>5, <2>6
<1>9. StreamInv'
  BY <1>1, <1>2, <1>6, <1>8 DEF StreamInv
<1> QED BY <1>7, <1>9

\* The reply is taken over.
LEMMA ConsumeInv ==
    ASSUME PathInv, Consume
    PROVE  PathInv'
<1> USE DEF PathInv, PathTypes
<1>1. UNCHANGED <<now, ring, decoder>> /\ worker.pc = "reading"
  BY DEF Consume, airVars, modemVars, RestOfWork
<1>2. /\ WorkerShape' /\ worker'.chunk = worker.chunk
      /\ worker'.pc = IF worker.chunk = <<>> THEN "publish" ELSE "feeding"
  <2>1. CASE worker.chunk = <<>>
    BY <2>1 DEF Consume, WorkerShape
  <2>2. CASE worker.chunk # <<>>
    BY <2>2 DEF Consume, WorkerShape
  <2> QED BY <2>1, <2>2
<1> QED BY <1>1, <1>2 DEF PlaceInv, StreamInv, NoSplicedStream, Places

\* What feeding a byte does to the run the decoder is in.
LEMMA FedByte ==
    ASSUME NEW byte \in Nat, decoder' = FeedByte(decoder, byte),
           decoder.last \in Nat, decoder.torn \in BOOLEAN
    PROVE  /\ decoder'.last = byte
           /\ decoder'.torn = (decoder.torn \/ ~Follows(decoder, byte))
           /\ decoder'.torn \in BOOLEAN
BY DEF FeedByte

\* The decoder is fed: the byte follows the last one, or one was dropped.
LEMMA FeedInv ==
    ASSUME PathInv, Feed
    PROVE  PathInv'
<1> USE DEF PathInv, PathTypes
<1> DEFINE b == Head(worker.chunk)
           rest == Tail(worker.chunk)
           n == now - Len(Contents(ring))
<1>1. /\ UNCHANGED <<now, ring>> /\ worker.pc = "feeding"
      /\ worker.chunk # <<>> /\ decoder' = FeedByte(decoder, b)
  BY DEF Feed, airVars, modemVars, PlaceInv
<1>2. /\ b \in Nat /\ rest \in Seq(Nat)
      /\ Len(worker.chunk) \in Nat \ {0} /\ Len(rest) = Len(worker.chunk) - 1
  BY <1>1, EmptySeq, HeadTailProperties
<1>3. Contents(ring) \in Seq(Nat) /\ n \in Int
  BY ContentsShape
<1>4. /\ WorkerShape' /\ worker'.chunk = rest
      /\ worker'.pc = IF rest = <<>> THEN "publish" ELSE "feeding"
  <2>1. CASE rest # <<>>
    <3>1. PICK fresh : worker' = [worker EXCEPT !.chunk = rest, !.fresh = fresh]
      BY <2>1, Zenon DEF Feed
    <3> HIDE DEF rest
    <3> QED BY <1>1, <2>1, <3>1 DEF WorkerShape
  <2>2. CASE rest = <<>>
    <3>1. PICK fresh : worker' = [worker EXCEPT !.chunk = <<>>, !.pc = "publish",
                                                !.fresh = fresh]
      BY <2>2, Zenon DEF Feed
    <3> QED BY <2>2, <3>1 DEF WorkerShape
  <2> QED BY <2>1, <2>2
<1>5. /\ decoder'.last = b /\ decoder'.torn \in BOOLEAN
      /\ decoder'.torn = (decoder.torn \/ ~Follows(decoder, b))
  BY <1>1, <1>2, FedByte
<1> HIDE DEF b, rest, n
<1>6. ASSUME ring.dropped = 0
      PROVE  /\ Run(Contents(ring), now) /\ Run(rest, n)
             /\ b = n - Len(rest) /\ Follows(decoder, b)
  <2>1. /\ Run(Contents(ring), now) /\ Run(worker.chunk, n)
        /\ decoder.last # 0 => decoder.last = n - Len(worker.chunk)
    BY <1>1, <1>6 DEF StreamInv, n
  <2>2. Run(rest, n) /\ b = n - Len(worker.chunk) + 1
    BY <1>1, <1>3, <2>1, RunShrinks DEF b, rest
  <2>3. b = n - Len(rest) /\ b - 1 = n - Len(worker.chunk)
    BY <1>2, <1>3, <2>2
  <2> QED BY <2>1, <2>2, <2>3 DEF Follows
<1>7. PathTypes' /\ PlaceInv'
  BY <1>1, <1>2, <1>4, <1>5 DEF PlaceInv, Places
<1>8. StreamInv'
  BY <1>1, <1>4, <1>5, <1>6 DEF StreamInv, n
<1>9. NoSplicedStream'
  <2>1. ring.dropped \in 0..DropLimit
    BY DEF Rings
  <2>2. CASE ring.dropped = 0
    BY <1>1, <1>5, <1>6, <2>2 DEF NoSplicedStream
  <2>3. CASE ring.dropped > 0
    BY <1>1, <2>3 DEF NoSplicedStream
  <2> QED BY <2>1, <2>2, <2>3, RingConstants
<1> QED BY <1>7, <1>8, <1>9

\* The other steps of the loop.
LEMMA LoopInv ==
    ASSUME PathInv,
           \/ LoopTurns \/ Drained \/ CheckStatus \/ NothingQueued \/ Observe
           \/ Publish \/ PublishEnds \/ WorkerFails
    PROVE  PathInv'
<1> USE DEF PathInv, PathTypes
<1>1. UNCHANGED <<now, ring, decoder>>
  BY DEF LoopTurns, Drained, CheckStatus, NothingQueued, Observe, Publish,
         PublishEnds, WorkerFails, airVars, modemVars, RestOfWork
<1>2. CASE WorkerFails
  BY <1>1, <1>2, GoesShape, QuietStep DEF WorkerFails, Places
<1>3. ASSUME worker.pc \in {"loop", "publish", "drained", "status", "observe"},
             WorkerShape', worker'.chunk = worker.chunk,
             worker'.pc \in {"loop", "reading", "publish", "drained", "status",
                             "observe", "before", "failed", "stopped"}
      PROVE  PathInv'
  BY <1>1, <1>3, QuietStep DEF Places
<1>4. CASE LoopTurns
  <2>1. CASE Goes("stopped")
    BY <1>3, <1>4, <2>1, GoesShape DEF LoopTurns
  <2>2. CASE worker' = DrainStep([worker EXCEPT
                          !.passes = IF @ < StatusEvery THEN @ + 1 ELSE @])
    <3> DEFINE p == IF worker.passes < StatusEvery THEN worker.passes + 1
                    ELSE worker.passes
    <3>1. worker' = DrainStep([worker EXCEPT !.passes = p])
      BY <2>2
    <3> HIDE DEF p
    <3>2. [worker EXCEPT !.passes = p] =
            [pc |-> worker.pc, reads |-> worker.reads, chunk |-> worker.chunk,
             short |-> worker.short, fresh |-> worker.fresh, passes |-> p]
      BY DEF WorkerShape
    <3>3. /\ WorkerShape' /\ worker'.chunk = worker.chunk
          /\ worker'.pc \in {"reading", "drained"}
      BY <3>1, <3>2, DrainShape
    <3> QED BY <1>3, <1>4, <3>3 DEF LoopTurns
  <2> QED BY <1>4, <2>1, <2>2 DEF LoopTurns
<1>5. CASE Drained
  BY <1>3, <1>5, GoesShape DEF Drained
<1>6. CASE CheckStatus
  <2>1. PICK pc \in {"observe", "failed"} :
          worker' = [worker EXCEPT !.pc = pc, !.passes = 0]
    <3>1. CASE ActiveStatus
      BY <1>6, <3>1, Zenon DEF CheckStatus
    <3>2. CASE ~ActiveStatus
      BY <1>6, <3>2, Zenon DEF CheckStatus
    <3> QED BY <3>1, <3>2
  <2>2. WorkerShape' /\ worker'.chunk = worker.chunk /\ worker'.pc = pc
    BY <2>1 DEF WorkerShape
  <2> QED BY <1>3, <1>6, <2>2 DEF CheckStatus
<1>7. CASE NothingQueued
  BY <1>3, <1>7, GoesShape DEF NothingQueued
<1>8. CASE Observe
  BY <1>3, <1>8, GoesShape DEF Observe
<1>9. CASE Publish
  <2>1. PICK f : worker' = [worker EXCEPT !.fresh = f]
    BY <1>9, Zenon DEF Publish
  <2>2. WorkerShape' /\ worker'.chunk = worker.chunk /\ worker'.pc = worker.pc
    BY <2>1 DEF WorkerShape
  <2> QED BY <1>3, <1>9, <2>2 DEF Publish
<1>10. CASE PublishEnds
  <2>1. /\ WorkerShape' /\ worker'.chunk = worker.chunk
        /\ worker'.pc \in {"reading", "drained"}
    <3>1. worker' = DrainStep(worker)
      BY <1>10 DEF PublishEnds
    <3>2. worker = [pc |-> worker.pc, reads |-> worker.reads,
                    chunk |-> worker.chunk, short |-> worker.short,
                    fresh |-> worker.fresh, passes |-> worker.passes]
      BY DEF WorkerShape
    <3> QED BY <3>1, <3>2, DrainShape
  <2> QED BY <1>3, <1>10, <2>1 DEF PublishEnds
<1> QED BY <1>2, <1>4, <1>5, <1>6, <1>7, <1>8, <1>9, <1>10

\* A step of a transmit cycle goes on or fails.
LEMMA CycleShape ==
    ASSUME WorkerShape, NEW from, NEW condition, NEW to,
           CycleGoes(from, condition, to)
    PROVE  /\ worker.pc = from /\ WorkerShape' /\ worker'.chunk = worker.chunk
           /\ now' = now
           /\ (worker'.pc = to /\ condition) \/ worker'.pc = "failed"
<1>1. CASE Goes(to) /\ condition
  BY <1>1, GoesShape DEF CycleGoes, airVars
<1>2. CASE Goes("failed")
  BY <1>2, GoesShape DEF CycleGoes, airVars
<1> QED BY <1>1, <1>2 DEF CycleGoes

\* So does its last step, with which a status interval begins.
LEMMA VerifyShape ==
    ASSUME WorkerShape, CycleVerifies
    PROVE  /\ worker.pc = "verify" /\ WorkerShape' /\ now' = now
           /\ worker'.chunk = worker.chunk /\ worker'.fresh = worker.fresh
           /\ worker'.reads = worker.reads /\ worker'.short = worker.short
           /\ worker'.pc \in {"loop", "failed"}
<1>1. worker.pc = "verify" /\ now' = now
  BY DEF CycleVerifies, airVars
<1>2. PICK pc \in {"loop", "failed"} :
        worker' = [worker EXCEPT !.pc = pc, !.passes = 0]
  <2>1. CASE ActiveStatus
    BY <2>1, Zenon DEF CycleVerifies
  <2>2. CASE ~ActiveStatus
    BY <2>2, Zenon DEF CycleVerifies
  <2> QED BY <2>1, <2>2
<1> QED BY <1>1, <1>2 DEF WorkerShape

\* A transmit cycle: the capture is off only with nothing dropped, and on
\* again with a run that begins afresh, and a decoder too.
LEMMA CycleInv ==
    ASSUME PathInv,
           CycleBegins \/ CycleStopsRx \/ CycleRestartsRx \/ CycleVerifies
    PROVE  PathInv'
<1> USE DEF PathInv, PathTypes
<1>1. CASE CycleBegins
  <2>1. /\ UNCHANGED <<now, ring, decoder>> /\ worker.pc = "before"
        /\ WorkerShape' /\ worker'.chunk = worker.chunk
        /\ worker'.pc \in {"stopping", "failed"}
    BY <1>1, CycleShape DEF CycleBegins, modemVars
  <2> QED BY <2>1, QuietStep DEF Places
<1>2. CASE CycleStopsRx
  <2>1. /\ now' = now /\ decoder' = decoder /\ ring' = StopCapture(ring)
        /\ worker.pc = "stopping" /\ WorkerShape' /\ worker'.chunk = worker.chunk
        /\ \/ worker'.pc = "failed"
           \/ worker'.pc = "sending" /\ StoppedCleanly(StopCapture(ring))
    BY <1>2, CycleShape DEF CycleStopsRx
  <2>2. /\ ring' \in Rings /\ ring'.dropped = ring.dropped /\ ~ring'.active
    BY <2>1, RingRestarts
  <2>3. worker'.pc = "sending" => ring'.dropped = 0
    BY <2>1 DEF StoppedCleanly
  <2> QED BY <2>1, <2>2, <2>3 DEF PlaceInv, StreamInv, NoSplicedStream, Places
<1>3. CASE CycleRestartsRx
  <2>1. /\ now' = now /\ decoder' = decoder /\ ring' = StartCapture(ring)
        /\ worker.pc = "sending" /\ WorkerShape' /\ worker'.chunk = worker.chunk
        /\ worker'.pc \in {"verify", "failed"}
    BY <1>3, CycleShape DEF CycleRestartsRx
  <2>2. /\ ring' \in Rings /\ Contents(ring') = <<>> /\ ring'.active
        /\ ring'.dropped = 0
    BY <2>1, RingRestarts
  <2>3. ring.dropped = 0 /\ worker.chunk = <<>>
    BY <2>1 DEF PlaceInv
  <2>4. ~decoder.torn
    BY <2>3 DEF NoSplicedStream
  <2>5. PathTypes' /\ PlaceInv' /\ NoSplicedStream'
    BY <2>1, <2>2, <2>3, <2>4 DEF PlaceInv, NoSplicedStream, Places
  <2>6. StreamInv'
    BY <2>1, <2>2, <2>3, RunEmpty DEF StreamInv
  <2> QED BY <2>5, <2>6
<1>4. CASE CycleVerifies
  <2>1. /\ now' = now /\ decoder' = NewDecoder /\ ring' = ring
        /\ worker.pc = "verify" /\ WorkerShape' /\ worker'.chunk = worker.chunk
        /\ worker'.pc \in {"loop", "failed"}
    BY <1>4, VerifyShape DEF CycleVerifies, RenewedDecoder, modemVars
  <2>2. ~decoder'.torn /\ decoder'.torn \in BOOLEAN /\ decoder'.last = 0
    BY <2>1 DEF NewDecoder
  <2> QED BY <2>1, <2>2 DEF PlaceInv, StreamInv, NoSplicedStream, Places
<1> QED BY <1>1, <1>2, <1>3, <1>4

\* Every initial state satisfies the invariant.
LEMMA PathInit == Init => PathInv
<1> SUFFICES ASSUME Init PROVE PathInv
  OBVIOUS
<1>1. now = 0 /\ now \in 0..MaxTime
  BY RingConstants DEF Init
<1>2. ring \in Rings
  <2>1. /\ [i \in 0..BufferSize - 1 |-> 0] \in [0..BufferSize - 1 -> Nat]
        /\ 0 \in 0..BufferSize - 1 /\ 0 \in 0..DropLimit
    BY RingConstants
  <2> QED BY <2>1, Zenon DEF Init, Rings
<1>3. ring.head = 0 /\ ring.tail = 0 /\ ring.active /\ ring.dropped = 0
  BY DEF Init
<1>4. Contents(ring) = <<>>
  <2>1. Available(ring) = 0
    BY <1>3 DEF Available
  <2> QED BY <1>2, <2>1, ContentsShape, EmptySeq
<1>5. /\ WorkerShape /\ worker.pc = "loop" /\ worker.chunk = <<>>
  BY DEF Init, WorkerShape
<1>6. decoder.last = 0 /\ decoder.torn = FALSE
  BY DEF Init, NewDecoder
<1>7. PathTypes
  <2>1. worker.chunk \in Seq(Nat) /\ worker.pc \in Places
    BY <1>5 DEF Places
  <2>2. decoder.last \in Nat
    BY <1>6
  <2>3. decoder.torn \in BOOLEAN
    BY <1>6, Zenon
  <2> QED BY <1>1, <1>2, <1>5, <2>1, <2>2, <2>3 DEF PathTypes
<1> QED BY <1>1, <1>3, <1>4, <1>5, <1>6, <1>7, RunEmpty
      DEF PathInv, PlaceInv, StreamInv, NoSplicedStream

\* No step leaves the invariant.
LEMMA PathNext == PathInv /\ [Next]_vars => PathInv'
<1> SUFFICES ASSUME PathInv, [Next]_vars PROVE PathInv'
  OBVIOUS
<1>1. CASE UNCHANGED <<now, ring, worker, decoder>>
  BY <1>1 DEF PathInv, PathTypes, PlaceInv, StreamInv, NoSplicedStream,
              WorkerShape
<1>2. CASE UNCHANGED vars
  BY <1>1, <1>2 DEF vars, airVars, modemVars, workVars
<1>3. CASE StopAsked
  BY <1>1, <1>3 DEF StopAsked, airVars, modemVars, workVars
<1>4. CASE AirByte \/ WorkerSteps \/ WorkerFails
  BY <1>4, AirInv, ReadInv, ConsumeInv, FeedInv, LoopInv, CycleInv
     DEF WorkerSteps
<1> QED BY <1>2, <1>3, <1>4 DEF Next

-----------------------------------------------------------------------------
(***************************************************************************)
(* The theorems                                                            *)
(***************************************************************************)

\* The invariant holds throughout.
THEOREM StreamInvariant == Spec => []PathInv
BY PathInit, PathNext, PTL DEF Spec

\* The decoder is fed a byte that does not follow the last one only where the
\* modem still reports the drop: own transmissions never splice the stream.
THEOREM NeverSpliced == Spec => []NoSplicedStream
<1>1. PathInv => NoSplicedStream
  BY DEF PathInv
<1> QED BY <1>1, StreamInvariant, PTL

-----------------------------------------------------------------------------
(***************************************************************************)
(* The ring implements a bounded FIFO                                      *)
(***************************************************************************)

\* A step that keeps the content and the count of drops is a stutter.
LEMMA RingStutters ==
    ASSUME Content' = Content, ring'.dropped = ring.dropped
    PROVE  [Fifo!Next]_<<Content, ring.dropped>>
OBVIOUS

\* Every step of the receive path is a step of the FIFO, or none of it.
LEMMA FifoStep ==
    ASSUME PathInv, [Next]_vars
    PROVE  [Fifo!Next]_<<Content, ring.dropped>>
<1> USE DEF PathInv, PathTypes
<1>1. Content = Contents(ring) /\ Content' = Contents(ring')
  BY DEF Content, Contents
<1>2. CASE ring' = ring
  BY <1>1, <1>2, RingStutters
<1>3. CASE AirByte
  <2>1. /\ now + 1 \in 1..MaxTime /\ now + 1 \in Nat
        /\ ring' = SampleByte(ring, now + 1)
    BY <1>3, RingConstants DEF AirByte
  <2>2. CASE ring.active /\ NextSlot(ring.head) # ring.tail
    <3>1. /\ Contents(ring') = Append(Contents(ring), now + 1)
          /\ ring'.dropped = ring.dropped
      BY <2>1, <2>2, RingPuts
    <3>2. Len(Contents(ring)) < BufferSize - 1
      BY <2>2, FullRing, ContentsShape, RingConstants
    <3>3. Fifo!Put(now + 1)
      BY <1>1, <3>1, <3>2 DEF Fifo!Put
    <3> QED BY <2>1, <3>3 DEF Fifo!Next
  <2>3. CASE ring.active /\ NextSlot(ring.head) = ring.tail
    <3>1. /\ Contents(ring') = Contents(ring)
          /\ ring'.dropped = IF ring.dropped < DropLimit THEN ring.dropped + 1
                             ELSE ring.dropped
      BY <2>1, <2>3, RingDrops
    <3>2. Len(Contents(ring)) = BufferSize - 1
      BY <2>3, FullRing, ContentsShape
    <3>3. Fifo!Drop
      BY <1>1, <3>1, <3>2 DEF Fifo!Drop
    <3> QED BY <3>3 DEF Fifo!Next
  <2>4. CASE ~ring.active
    BY <1>2, <2>1, <2>4 DEF SampleByte
  <2> QED BY <2>2, <2>3, <2>4
<1>4. CASE FirmwareReads
  <2>1. ring.tail # ring.head /\ ring' = ReadByte(ring)
    BY <1>4 DEF FirmwareReads
  <2>2. /\ Contents(ring) # <<>> /\ Contents(ring') = Tail(Contents(ring))
        /\ ring'.dropped = ring.dropped
    BY <2>1, RingTakes
  <2>3. Fifo!Take
    BY <1>1, <2>2 DEF Fifo!Take
  <2> QED BY <2>3 DEF Fifo!Next
<1>5. CASE CycleStopsRx
  <2>1. Contents(ring') = Contents(ring) /\ ring'.dropped = ring.dropped
    BY <1>5, RingRestarts DEF CycleStopsRx
  <2> QED BY <1>1, <2>1, RingStutters
<1>6. CASE CycleRestartsRx
  <2>1. Contents(ring') = <<>> /\ ring'.dropped = 0
    BY <1>6, RingRestarts DEF CycleRestartsRx
  <2>2. ring.dropped = 0
    BY <1>6 DEF CycleRestartsRx, CycleGoes, PlaceInv
  <2>3. Fifo!Clear
    BY <1>1, <2>1, <2>2 DEF Fifo!Clear
  <2> QED BY <2>3 DEF Fifo!Next
<1>7. CASE \/ LoopTurns \/ Drained \/ Consume \/ Feed \/ CheckStatus
           \/ NothingQueued \/ Observe \/ Publish \/ PublishEnds
           \/ CycleBegins \/ CycleVerifies \/ WorkerFails \/ StopAsked
  BY <1>2, <1>7
     DEF LoopTurns, Drained, Consume, Feed, CheckStatus, NothingQueued, Observe,
         Publish, PublishEnds, CycleBegins, CycleVerifies, WorkerFails, StopAsked,
         modemVars
<1>8. CASE UNCHANGED vars
  BY <1>2, <1>8 DEF vars, modemVars
<1> QED BY <1>3, <1>4, <1>5, <1>6, <1>7, <1>8 DEF Next, WorkerSteps

\* The ring with its two indices is a bounded FIFO of BufferSize - 1 bytes,
\* and RX_START never wipes out a drop count that the host has not seen: for
\* every size of the ring.
THEOREM RingImplementsFifo == Spec => RingIsFifo
<1>1. Init => Fifo!Init
  <2> SUFFICES ASSUME Init PROVE Fifo!Init
    OBVIOUS
  <2>1. PathInv /\ ring.head = 0 /\ ring.tail = 0 /\ ring.dropped = 0
    BY PathInit DEF Init
  <2>2. Available(ring) = 0
    BY <2>1 DEF Available
  <2>3. Content = <<>>
    BY <2>1, <2>2, ContentsShape, EmptySeq
       DEF Content, Contents, PathInv, PathTypes
  <2> QED BY <2>1, <2>3 DEF Fifo!Init
<1>2. PathInv /\ [Next]_vars => [Fifo!Next]_<<Content, ring.dropped>>
  BY FifoStep
<1> QED BY <1>1, <1>2, StreamInvariant, PTL DEF Spec, RingIsFifo, Fifo!Spec
-----------------------------------------------------------------------------
(***************************************************************************)
(* What the clients get: the invariant of order                            *)
(***************************************************************************)

\* The longest delay of a hypothesis.
Latest == Max(Hypotheses)

Starts(t) == aired[t].start

\* Transmissions do not overlap, and none starts after the present.
AirApart ==
    /\ \A t \in 1..Len(aired) : Starts(t) \in 1..now
    /\ \A t, u \in 1..Len(aired) : t < u => Starts(t) + FrameBytes <= Starts(u)

\* An occurrence of a transmission that was made, at most Latest too late.
OfAir(o) ==
    /\ o.of \in 1..Len(aired)
    /\ o.start - Starts(o.of) \in 0..Latest

\* The types of the variables that the stream's invariant leaves open.
OrderTypes ==
    /\ aired \in Seq([start : Nat, heard : Clarity])
    /\ decoder.seen \in Seq(Occurrences)
    /\ decoder.from \in Nat
    /\ published \in Seq(Nat)

Rising(s) == \A i, j \in 1..Len(s) : i < j => s[i] < s[j]

\* All bytes that are still to be fed come after byte n.
Behind(n) ==
    /\ n <= now
    /\ \A i \in 1..Len(worker.chunk) : n < worker.chunk[i]
    /\ \A i \in 1..Len(Contents(ring)) : n < Contents(ring)[i]

\* The bytes on their way to the decoder are in order, whatever was dropped.
BytesInv ==
    /\ Rising(worker.chunk)
    /\ Rising(Contents(ring))
    /\ \A i \in 1..Len(worker.chunk) :
          /\ worker.chunk[i] <= now
          /\ \A j \in 1..Len(Contents(ring)) : worker.chunk[i] < Contents(ring)[j]
    /\ \A i \in 1..Len(Contents(ring)) : Contents(ring)[i] <= now
    /\ Behind(decoder.last)

\* Transmission t is among these occurrences.
Knows(seen, t) == \E i \in 1..Len(seen) : seen[i].of = t

\* Transmission t was decoded: it is published or about to be.
Decoded(t) ==
    \/ \E i \in 1..Len(published) : published[i] = t
    \/ Knows(worker.fresh, t)

\* The decoder does not take t for a new one: it knows it, or has not been
\* fed all of it.
Done(t) ==
    \/ Knows(decoder.seen, t)
    \/ decoder.last = 0
    \/ Starts(t) < decoder.from

SeenInv ==
    \A i \in 1..Len(decoder.seen) :
        OfAir(decoder.seen[i]) /\ Decoded(decoder.seen[i].of)

\* Occurrences that can be published next, in their order.
Upcoming(fresh) ==
    /\ fresh \in Seq(Occurrences)
    /\ \A i \in 1..Len(fresh) :
          /\ OfAir(fresh[i])
          /\ \A j \in 1..Len(published) : published[j] < fresh[i].of
    /\ \A i, j \in 1..Len(fresh) : i < j => fresh[i].of < fresh[j].of

LineInv ==
    /\ \A t : Decoded(t) => t \in 1..Len(aired) /\ Behind(EndOf(t)) /\ Done(t)
    /\ Rising(published)
    /\ Upcoming(worker.fresh)
    /\ worker.pc \notin {"feeding", "publish"} => worker.fresh = <<>>

OrderInv == OrderTypes /\ AirApart /\ BytesInv /\ SeenInv /\ LineInv

-----------------------------------------------------------------------------
(***************************************************************************)
(* The invariant of the drain                                              *)
(***************************************************************************)

\* The last byte the decoder was fed, or the one before the first it will be.
FedTo == IF decoder.last = 0 THEN capture - 1 ELSE decoder.last

\* The last byte taken from the ring.
Taken == now - Len(Contents(ring))

\* As long as nothing was dropped, the decoder gets the whole capture, and has
\* every transmission it was fed.
WholeInv ==
    ring.dropped = 0 /\ worker.pc # "failed" =>
        /\ worker.pc = "verify" => Taken = capture - 1
        /\ worker.pc # "verify" =>
              /\ decoder.last # 0 => decoder.from = capture
              /\ worker.pc # "sending" => FedTo = Taken - Len(worker.chunk)
              /\ \A t \in 1..Len(aired) :
                    Starts(t) >= capture /\ HeardBy(t, FedTo) => Decoded(t)

\* What the reads that are left of a drain bring.
Budget == (DrainLimit - worker.reads) * ReadMaximum

DrainTypes ==
    /\ capture \in 1..now + 1 /\ csma \in -1..now
    /\ worker.reads \in 0..DrainLimit
    /\ worker.pc \notin {"reading", "feeding", "publish", "failed"} =>
          worker.reads = 0 /\ ~worker.short
    /\ worker.pc = "reading" => worker.reads < DrainLimit

\* The drain that began after the channel was seen quiet gets beyond that byte.
DrainInv ==
    csma # None /\ ring.dropped = 0 /\ ~stop =>
        /\ worker.pc = "reading" =>
              \/ Taken >= csma
              \/ Taken - Len(worker.chunk) + Budget >= csma
        /\ worker.pc \in {"feeding", "publish"} =>
              \/ Taken >= csma
              \/ ~worker.short /\ Taken + Budget >= csma
        /\ worker.pc \in {"drained", "status", "observe"} => Taken >= csma
        /\ worker.pc \in {"before", "stopping", "sending"} => FedTo >= csma

ReceiveInv == PathInv /\ OrderInv /\ WholeInv /\ DrainTypes /\ DrainInv

-----------------------------------------------------------------------------
(***************************************************************************)
(* The least and the greatest of a set                                     *)
(***************************************************************************)

\* Min is an element, and no element is less.
LEMMA MinOf ==
    ASSUME NEW S \in SUBSET Nat, S # {}
    PROVE  Min(S) \in S /\ \A y \in S : Min(S) <= y
<1>1. PICK x \in S : \A y \in S : ~(<<y, x>> \in OpToRel(<, Nat))
  BY WFMin, NatLessThanWellFounded
<1>2. \A y \in S : x <= y
  <2> SUFFICES ASSUME NEW y \in S, y < x PROVE FALSE
    OBVIOUS
  <2>1. <<y, x>> \in Nat \X Nat /\ <<y, x>>[1] < <<y, x>>[2]
    OBVIOUS
  <2>2. <<y, x>> \in OpToRel(<, Nat)
    BY <2>1 DEF OpToRel
  <2> QED BY <1>1, <2>2
<1> QED BY <1>2 DEF Min

\* Max is an element, and no element is greater.
LEMMA MaxOf ==
    ASSUME NEW n \in Nat, NEW S \in SUBSET (0..n), S # {}
    PROVE  Max(S) \in S /\ \A y \in S : y <= Max(S)
<1> DEFINE T == {n - y : y \in S}
<1>1. T \in SUBSET Nat /\ T # {}
  <2>1. PICK y \in S : TRUE
    OBVIOUS
  <2>2. n - y \in T
    OBVIOUS
  <2>3. \A z \in S : n - z \in Nat
    OBVIOUS
  <2>4. T \in SUBSET Nat
    BY <2>3
  <2> QED BY <2>2, <2>4
<1> HIDE DEF T
<1>2. Min(T) \in T /\ \A z \in T : Min(T) <= z
  BY <1>1, MinOf
<1>3. PICK x \in S : Min(T) = n - x
  BY <1>2 DEF T
<1>4. \A y \in S : y <= x
  <2> SUFFICES ASSUME NEW y \in S PROVE y <= x
    OBVIOUS
  <2>1. n - y \in T
    BY DEF T
  <2>2. n - x <= n - y
    BY <1>2, <1>3, <2>1
  <2> QED BY <2>2
<1>5. \E m \in S : \A y \in S : m >= y
  BY <1>4
<1>6. Max(S) \in S /\ \A y \in S : Max(S) >= y
  BY <1>5, Zenon DEF Max
<1> QED BY <1>6

-----------------------------------------------------------------------------
(***************************************************************************)
(* Transmissions and their occurrences                                     *)
(***************************************************************************)

\* The delays of the hypotheses.
LEMMA Delays ==
    ASSUME NEW heard \in Clarity
    PROVE  /\ FrameBytes \in Nat \ {0} /\ Tolerance \in Nat
           /\ Latest \in 0..Tolerance /\ Tolerance + Latest < FrameBytes
           /\ heard \subseteq 0..Latest
           /\ Min(heard) \in heard /\ \A d \in heard : Min(heard) <= d
<1>1. /\ FrameBytes \in Nat \ {0} /\ Tolerance \in Nat
      /\ Hypotheses \subseteq 0..Tolerance
      /\ heard \subseteq Hypotheses /\ heard # {}
      /\ Tolerance + Latest < FrameBytes
  BY ReceivePathAssumption DEF Latest
<1>2. Latest \in Hypotheses /\ \A y \in Hypotheses : y <= Latest
  BY <1>1, MaxOf DEF Latest
<1>3. heard \in SUBSET Nat
  BY <1>1
<1>4. Min(heard) \in heard /\ \A d \in heard : Min(heard) <= d
  BY <1>1, <1>3, MinOf
<1> QED BY <1>1, <1>2, <1>4

\* The numbers of a transmission: its ends, and the delays at which it is heard.
LEMMA AirFacts ==
    ASSUME OrderTypes, NEW t \in 1..Len(aired)
    PROVE  /\ Starts(t) \in Nat
           /\ EndOf(t) \in Nat /\ EndOf(t) = Starts(t) + FrameBytes - 1
           /\ FrameBytes \in Nat \ {0} /\ Tolerance \in Nat
           /\ Latest \in 0..Tolerance /\ Tolerance + Latest < FrameBytes
           /\ aired[t].heard \subseteq 0..Latest
           /\ Min(aired[t].heard) \in aired[t].heard
           /\ \A d \in aired[t].heard : Min(aired[t].heard) <= d
<1>1. aired[t] \in [start : Nat, heard : Clarity]
  BY ElementOfSeq DEF OrderTypes
<1>2. Starts(t) \in Nat /\ aired[t].heard \in Clarity
  BY <1>1 DEF Starts
<1>3. EndOf(t) = Starts(t) + FrameBytes - 1
  BY DEF EndOf, Starts
<1> QED BY <1>2, <1>3, Delays

\* Two occurrences are taken for one exactly if they are of one transmission,
\* and the order of their starts is the order of the air.
LEMMA OneFrame ==
    ASSUME OrderTypes, AirApart, NEW a, NEW b, OfAir(a), OfAir(b),
           a.start \in Nat, b.start \in Nat
    PROVE  /\ SameOccurrence(a, b) <=> a.of = b.of
           /\ a.of < b.of <=> a.start < b.start /\ a.of # b.of
<1> DEFINE x == Starts(a.of)
           y == Starts(b.of)
<1>1. a.of \in 1..Len(aired) /\ b.of \in 1..Len(aired)
  BY DEF OfAir
<1>2. /\ x \in Nat /\ y \in Nat /\ FrameBytes \in Nat /\ Tolerance \in Nat
      /\ Latest \in 0..Tolerance /\ Tolerance + Latest < FrameBytes
  BY <1>1, AirFacts
<1>3. a.start - x \in 0..Latest /\ b.start - y \in 0..Latest
  BY DEF OfAir
<1>4. /\ a.of < b.of => x + FrameBytes <= y
      /\ b.of < a.of => y + FrameBytes <= x
      /\ a.of = b.of => x = y
  BY <1>1 DEF AirApart
<1>5. a.of \in Int /\ b.of \in Int
  BY <1>1
<1> HIDE DEF x, y
<1>6. SameOccurrence(a, b) <=> (IF a.start > b.start THEN a.start - b.start
                                ELSE b.start - a.start) <= Tolerance
  BY DEF SameOccurrence, Distance
<1> QED BY <1>2, <1>3, <1>4, <1>5, <1>6

\* What the bank completes with a byte.
LEMMA Item ==
    ASSUME OrderTypes, NEW from \in Nat, NEW byte \in Nat,
           NEW item \in Completed(from, byte)
    PROVE  /\ item \in Occurrences /\ OfAir(item)
           /\ from <= Starts(item.of)
           /\ item.start = Starts(item.of) + (byte - EndOf(item.of))
           /\ byte - EndOf(item.of) \in aired[item.of].heard
           /\ item = [start |-> item.start, of |-> item.of]
<1>1. PICK t \in 1..Len(aired) :
         /\ from <= Starts(t) /\ byte - EndOf(t) \in aired[t].heard
         /\ item = [start |-> Starts(t) + (byte - EndOf(t)), of |-> t]
  BY Zenon DEF Completed, Starts
<1>2. /\ Starts(t) \in Nat /\ aired[t].heard \subseteq 0..Latest
      /\ EndOf(t) \in Nat /\ Latest \in Nat
  BY AirFacts
<1>3. byte - EndOf(t) \in 0..Latest
  BY <1>1, <1>2
<1>4. /\ Starts(t) + (byte - EndOf(t)) \in Nat
      /\ (Starts(t) + (byte - EndOf(t))) - Starts(t) \in 0..Latest
  BY <1>2, <1>3
<1>5. item.of = t /\ item.start = Starts(t) + (byte - EndOf(t))
  BY <1>1
<1>6. t \in Nat
  OBVIOUS
<1>7. item \in Occurrences
  BY <1>1, <1>4, <1>6 DEF Occurrences
<1>8. OfAir(item)
  BY <1>4, <1>5 DEF OfAir
<1> QED BY <1>1, <1>5, <1>7, <1>8

\* At most one transmission is completed with a byte.
LEMMA OneItem ==
    ASSUME OrderTypes, AirApart, NEW from \in Nat, NEW byte \in Nat,
           NEW a \in Completed(from, byte), NEW b \in Completed(from, byte)
    PROVE  a = b
<1>1. /\ OfAir(a) /\ OfAir(b)
      /\ a.start = Starts(a.of) + (byte - EndOf(a.of))
      /\ b.start = Starts(b.of) + (byte - EndOf(b.of))
      /\ a = [start |-> a.start, of |-> a.of]
      /\ b = [start |-> b.start, of |-> b.of]
      /\ byte - EndOf(a.of) \in aired[a.of].heard
      /\ byte - EndOf(b.of) \in aired[b.of].heard
  BY Item
<1>2. a.of \in 1..Len(aired) /\ b.of \in 1..Len(aired)
  BY <1>1 DEF OfAir
<1> DEFINE x == Starts(a.of)
           y == Starts(b.of)
           xe == EndOf(a.of)
           ye == EndOf(b.of)
<1>3. /\ x \in Nat /\ y \in Nat /\ FrameBytes \in Nat
      /\ xe = x + FrameBytes - 1 /\ ye = y + FrameBytes - 1
      /\ Latest \in Nat /\ Latest < FrameBytes
      /\ byte - xe \in 0..Latest /\ byte - ye \in 0..Latest
  <2>1. /\ x \in Nat /\ xe = x + FrameBytes - 1 /\ FrameBytes \in Nat
        /\ Tolerance \in Nat /\ Latest \in 0..Tolerance
        /\ Tolerance + Latest < FrameBytes /\ byte - xe \in 0..Latest
    BY <1>1, <1>2, AirFacts
  <2>2. y \in Nat /\ ye = y + FrameBytes - 1 /\ byte - ye \in 0..Latest
    BY <1>1, <1>2, AirFacts
  <2>3. Latest < FrameBytes /\ Latest \in Nat
    BY <2>1
  <2> QED BY <2>1, <2>2, <2>3
<1>4. /\ a.of < b.of => x + FrameBytes <= y
      /\ b.of < a.of => y + FrameBytes <= x
      /\ a.of \in Int /\ b.of \in Int
  BY <1>2 DEF AirApart
<1>5. a.of = b.of
  <2> HIDE DEF x, y, xe, ye
  <2> QED BY <1>3, <1>4
<1>6. a.start = b.start
  BY <1>1, <1>5
<1> QED BY <1>1, <1>5, <1>6

-----------------------------------------------------------------------------
(***************************************************************************)
(* The decoder's list                                                      *)
(***************************************************************************)

\* The list knows the same transmissions in the same places.
SameKnown(before, after) ==
    /\ after \in Seq(Occurrences) /\ Len(after) = Len(before)
    /\ \A i \in 1..Len(before) : after[i].of = before[i].of /\ OfAir(after[i])

\* An item of a transmission that the list knows changes at most a start; any
\* other goes behind the rest.
LEMMA Accepted ==
    ASSUME OrderTypes, AirApart, NEW item \in Occurrences, OfAir(item),
           NEW seen \in Seq(Occurrences), \A i \in 1..Len(seen) : OfAir(seen[i])
    PROVE  /\ Knows(seen, item.of) => SameKnown(seen, Accept(seen, item))
           /\ ~Knows(seen, item.of) => Accept(seen, item) = Append(seen, item)
<1> DEFINE same == {i \in 1..Len(seen) : SameOccurrence(seen[i], item)}
<1>1. \A i \in 1..Len(seen) : seen[i] \in Occurrences
  BY ElementOfSeq
<1>2. \A i \in 1..Len(seen) : seen[i].start \in Nat /\ item.start \in Nat
  BY <1>1 DEF Occurrences
<1>3. \A i \in 1..Len(seen) : i \in same <=> seen[i].of = item.of
  BY <1>2, OneFrame
<1>4. Accept(seen, item) =
        IF same = {} THEN Append(seen, item)
        ELSE [seen EXCEPT ![Min(same)].start =
                 IF item.start < @ THEN item.start ELSE @]
  BY DEF Accept
<1>5. same \in SUBSET (1..Len(seen))
  OBVIOUS
<1> HIDE DEF same
<1>6. CASE same = {}
  BY <1>3, <1>4, <1>6 DEF Knows
<1>7. CASE same # {}
  <2>1. Min(same) \in same
    <3>1. same \in SUBSET Nat
      BY <1>5
    <3> QED BY <1>7, <3>1, MinOf
  <2> DEFINE m == Min(same)
             s == IF item.start < seen[m].start THEN item.start ELSE seen[m].start
             o == [start |-> s, of |-> item.of]
  <2>2. m \in 1..Len(seen) /\ seen[m].of = item.of
    BY <1>3, <1>5, <2>1
  <2>3. Knows(seen, item.of)
    BY <2>2 DEF Knows
  <2>4. seen[m] = [start |-> seen[m].start, of |-> seen[m].of]
    BY <1>1, <2>2 DEF Occurrences
  <2>5. s \in Nat /\ (s = item.start \/ s = seen[m].start)
    BY <1>2, <2>2
  <2>6. Accept(seen, item) = [seen EXCEPT ![m].start = s]
    BY <1>4, <1>7
  <2> HIDE DEF m, s
  <2>7. [seen[m] EXCEPT !.start = s] = o
    BY <2>2, <2>4
  <2>8. Accept(seen, item) = [seen EXCEPT ![m] = o]
    BY <2>2, <2>6, <2>7
  <2>9. o \in Occurrences
    BY <2>5 DEF Occurrences
  <2>10. OfAir(o)
    BY <2>2, <2>5 DEF OfAir
  <2>11. o.of = seen[m].of
    BY <2>2
  <2> HIDE DEF o
  <2>12. /\ Accept(seen, item) \in Seq(Occurrences)
         /\ Len(Accept(seen, item)) = Len(seen)
         /\ \A i \in 1..Len(seen) :
               Accept(seen, item)[i] = IF i = m THEN o ELSE seen[i]
    BY <2>2, <2>8, <2>9, ExceptSeq
  <2>13. SameKnown(seen, Accept(seen, item))
    BY <2>10, <2>11, <2>12 DEF SameKnown
  <2> QED BY <2>3, <2>13
<1> QED BY <1>6, <1>7

\* Where the decoder's run begins once it is fed a byte.
RunFrom(byte) ==
    IF Follows(decoder, byte) /\ decoder.last # 0 THEN decoder.from ELSE byte

\* The byte completes nothing the decoder does not know, or one transmission.
NothingNew ==
    /\ SameKnown(decoder.seen, decoder'.seen)
    /\ Added(decoder, decoder') = <<>>

NewItem(item) ==
    /\ decoder'.seen = Append(decoder.seen, item)
    /\ Added(decoder, decoder') = <<item>>
    /\ ~Knows(decoder.seen, item.of)

\* _feed_sample: a byte adds nothing to the occurrences or one that completes
\* with it and was unknown, and afterwards all that complete with it are known.
LEMMA FeedsByte ==
    ASSUME OrderTypes, AirApart, SeenInv, NEW byte \in Nat,
           decoder' = FeedByte(decoder, byte)
    PROVE  /\ decoder'.from = RunFrom(byte) /\ decoder'.last = byte
           /\ \/ NothingNew
              \/ \E item \in Completed(RunFrom(byte), byte) : NewItem(item)
           /\ \A item \in Completed(RunFrom(byte), byte) :
                 Knows(decoder'.seen, item.of)
<1> DEFINE done == Completed(RunFrom(byte), byte)
           item == CHOOSE i \in done : TRUE
           seen == decoder.seen
<1>1. /\ decoder'.from = RunFrom(byte) /\ decoder'.last = byte
      /\ decoder'.seen = IF done = {} THEN seen ELSE Accept(seen, item)
  BY DEF FeedByte, RunFrom
<1>2. seen \in Seq(Occurrences) /\ Len(seen) \in Nat
  BY DEF OrderTypes
<1>3. \A i \in 1..Len(seen) : OfAir(seen[i])
  BY DEF SeenInv
<1>4. RunFrom(byte) \in Nat
  BY DEF RunFrom, OrderTypes
<1>5. \A i \in done : i \in Occurrences /\ OfAir(i)
  BY <1>4, Item
<1>6. \A i, j \in done : i = j
  BY <1>4, OneItem
<1>7. done # {} => item \in done
  OBVIOUS
<1> HIDE DEF done, item, seen
<1>8. ASSUME SameKnown(seen, decoder'.seen)
      PROVE  Added(decoder, decoder') = <<>>
  <2>1. Len(decoder'.seen) = Len(seen)
    BY <1>8 DEF SameKnown
  <2>2. Added(decoder, decoder') = SubSeq(decoder'.seen, Len(seen) + 1, Len(seen))
    BY <2>1 DEF Added, seen
  <2>3. decoder'.seen \in Seq(Occurrences)
    BY <1>8 DEF SameKnown
  <2> QED BY <1>2, <2>2, <2>3, SubSeqEmpty
<1>9. CASE done = {}
  <2>1. SameKnown(seen, decoder'.seen)
    BY <1>1, <1>2, <1>3, <1>9 DEF SameKnown
  <2> QED BY <1>1, <1>8, <1>9, <2>1 DEF NothingNew, done, seen
<1>10. CASE done # {}
  <2>1. /\ item \in done /\ item \in Occurrences /\ OfAir(item)
        /\ decoder'.seen = Accept(seen, item)
        /\ \A i \in done : i = item
    BY <1>1, <1>5, <1>6, <1>7, <1>10
  <2>2. CASE Knows(seen, item.of)
    <3>1. SameKnown(seen, decoder'.seen)
      BY <1>2, <1>3, <2>1, <2>2, Accepted
    <3>2. Knows(decoder'.seen, item.of)
      BY <2>2, <3>1 DEF Knows, SameKnown
    <3>3. \A i \in done : Knows(decoder'.seen, i.of)
      BY <2>1, <3>2
    <3> QED BY <1>1, <1>8, <3>1, <3>3 DEF NothingNew, done, seen
  <2>3. CASE ~Knows(seen, item.of)
    <3>1. decoder'.seen = Append(seen, item)
      BY <1>2, <1>3, <2>1, <2>3, Accepted
    <3>2. /\ Len(decoder'.seen) = Len(seen) + 1
          /\ decoder'.seen[Len(seen) + 1] = item
          /\ decoder'.seen \in Seq(Occurrences)
      BY <1>2, <2>1, <3>1, AppendProperties
    <3>3. Added(decoder, decoder') = <<item>>
      <4>1. Added(decoder, decoder')
              = SubSeq(decoder'.seen, Len(seen) + 1, Len(seen) + 1)
        BY <3>2 DEF Added, seen
      <4>2. Len(seen) + 1 \in 1..Len(decoder'.seen)
        BY <1>2, <3>2
      <4> DEFINE n == Len(seen) + 1
      <4>3. n \in Nat /\ n \in 1..Len(decoder'.seen) /\ decoder'.seen[n] = item
        BY <1>2, <3>2, <4>2
      <4> HIDE DEF n
      <4>4. SubSeq(decoder'.seen, n, n) = <<item>>
        <5>1. /\ SubSeq(decoder'.seen, n, n) \in Seq(Occurrences)
              /\ Len(SubSeq(decoder'.seen, n, n)) = 1
              /\ SubSeq(decoder'.seen, n, n)[1] = item
          <6>1. \A i \in n..n : decoder'.seen[i] \in Occurrences
            BY <2>1, <4>3
          <6>2. /\ SubSeq(decoder'.seen, n, n) \in Seq(Occurrences)
                /\ Len(SubSeq(decoder'.seen, n, n)) = n - n + 1
                /\ \A i \in 1..n - n + 1 :
                      SubSeq(decoder'.seen, n, n)[i] = decoder'.seen[n + i - 1]
            BY <4>3, <6>1, SubSeqProperties
          <6>3. n - n + 1 = 1 /\ n + 1 - 1 = n /\ 1 \in 1..n - n + 1
            BY <4>3
          <6> QED BY <4>3, <6>2, <6>3
        <5>2. /\ <<item>> \in Seq(Occurrences) /\ Len(<<item>>) = 1
              /\ <<item>>[1] = item
          BY <2>1
        <5>3. \A i \in 1..1 : SubSeq(decoder'.seen, n, n)[i] = <<item>>[i]
          BY <5>1, <5>2
        <5> QED BY <5>1, <5>2, <5>3, SeqEqual
      <4> QED BY <4>1, <4>4 DEF n
    <3>4. Knows(decoder'.seen, item.of)
      BY <1>2, <3>2 DEF Knows
    <3>5. \A i \in done : Knows(decoder'.seen, i.of)
      BY <2>1, <3>4
    <3>6. NewItem(item)
      BY <2>3, <3>1, <3>3 DEF NewItem, seen
    <3> QED BY <1>1, <2>1, <3>5, <3>6 DEF done
  <2> QED BY <2>2, <2>3
<1> QED BY <1>9, <1>10

\* Sorting rearranges, and puts the starts in order.
LEMMA Sorted ==
    ASSUME NEW s \in Seq(Occurrences),
           \A i, j \in 1..Len(s) : i < j => s[i].start < s[j].start
    PROVE  LET r == SortedByStart(s)
           IN  /\ r \in Seq(Occurrences) /\ Len(r) = Len(s)
               /\ \A i \in 1..Len(s) : \E j \in 1..Len(s) : r[i] = s[j]
               /\ \A j \in 1..Len(s) : \E i \in 1..Len(s) : r[i] = s[j]
               /\ \A i, j \in 1..Len(s) : i < j => r[i].start < r[j].start
<1> DEFINE D == DOMAIN s
           InOrder(p) == \A i, j \in D : i < j => s[p[i]].start <= s[p[j]].start
           order == CHOOSE p \in Bijection(D, D) : InOrder(p)
           id == [i \in D |-> i]
           r == SortedByStart(s)
<1>1. D = 1..Len(s) /\ Len(s) \in Nat
  BY LenProperties
<1>2. \A i \in D : s[i] \in Occurrences
  BY <1>1, ElementOfSeq
<1>3. \A i \in D : s[i].start \in Nat
  BY <1>2 DEF Occurrences
<1>4. r = [i \in D |-> s[order[i]]]
  BY Zenon DEF SortedByStart
<1>5. id \in Bijection(D, D)
  <2> HIDE DEF D
  <2>1. /\ id \in [D -> D] /\ \A a, b \in D : id[a] = id[b] => a = b
        /\ \A t \in D : \E a \in D : id[a] = t
    OBVIOUS
  <2> HIDE DEF id
  <2> QED BY <2>1, Fun_IsBij
<1>6. InOrder(id)
  <2> SUFFICES ASSUME NEW i \in D, NEW j \in D, i < j
               PROVE  s[id[i]].start <= s[id[j]].start
    OBVIOUS
  <2>1. id[i] = i /\ id[j] = j
    OBVIOUS
  <2>2. s[i].start < s[j].start /\ s[i].start \in Nat /\ s[j].start \in Nat
    BY <1>1, <1>3
  <2> QED BY <2>1, <2>2
<1>7. order \in Bijection(D, D) /\ InOrder(order)
  <2> HIDE DEF D, InOrder, id
  <2> QED BY <1>5, <1>6
<1>8. /\ \A i \in D : order[i] \in D
      /\ \A i, j \in D : order[i] = order[j] => i = j
      /\ \A j \in D : \E i \in D : order[i] = j
  <2> HIDE DEF D, order
  <2>1. /\ order \in [D -> D] /\ order \in Injection(D, D)
        /\ order \in Surjection(D, D)
    BY <1>7, Fun_BijectionProperties
  <2>2. \A i, j \in D : order[i] = order[j] => i = j
    BY <2>1, Fun_InjectionProperties
  <2>3. \A j \in D : \E i \in D : order[i] = j
    BY <2>1, Fun_SurjectionProperties
  <2> QED BY <2>1, <2>2, <2>3
<1>9. \A i, j \in D : i < j => s[order[i]].start <= s[order[j]].start
  BY <1>7
<1> HIDE DEF order, id, InOrder, r
<1>10. \A i \in D : r[i] = s[order[i]]
  BY <1>4
<1>11. r \in Seq(Occurrences) /\ Len(r) = Len(s)
  <2>1. \A i \in D : s[order[i]] \in Occurrences
    BY <1>2, <1>8
  <2>2. r \in [1..Len(s) -> Occurrences]
    BY <1>1, <1>4, <2>1
  <2> QED BY <1>1, <2>2
<1>12. /\ \A i \in D : \E j \in D : r[i] = s[j]
       /\ \A j \in D : \E i \in D : r[i] = s[j]
  <2> HIDE DEF D
  <2>1. \A i \in D : \E j \in D : r[i] = s[j]
    BY <1>8, <1>10
  <2>2. ASSUME NEW j \in D PROVE \E i \in D : r[i] = s[j]
    <3>1. PICK i \in D : order[i] = j
      BY <1>8
    <3> QED BY <1>10, <3>1
  <2> QED BY <2>1, <2>2
<1>13. ASSUME NEW i \in D, NEW j \in D, i < j
       PROVE  r[i].start < r[j].start
  <2>1. order[i] \in D /\ order[j] \in D /\ order[i] # order[j]
    BY <1>8, <1>13
  <2>2. s[order[i]].start <= s[order[j]].start
    BY <1>9, <1>13
  <2>3. s[order[i]].start \in Nat /\ s[order[j]].start \in Nat
    BY <1>3, <2>1
  <2>4. s[order[i]].start # s[order[j]].start
    <3>1. order[i] < order[j] \/ order[j] < order[i]
      BY <1>1, <2>1
    <3>2. \/ s[order[i]].start < s[order[j]].start
          \/ s[order[j]].start < s[order[i]].start
      BY <1>1, <2>1, <3>1
    <3> QED BY <2>3, <3>2
  <2> QED BY <1>10, <2>2, <2>3, <2>4
<1> HIDE DEF D
<1> QED BY <1>1, <1>11, <1>12, <1>13 DEF r

\* Sorting leaves what can be published next as it is.
LEMMA SortedUpcoming ==
    ASSUME OrderTypes, AirApart, NEW f, Upcoming(f)
    PROVE  /\ Upcoming(SortedByStart(f))
           /\ \A t : Knows(SortedByStart(f), t) <=> Knows(f, t)
<1> DEFINE r == SortedByStart(f)
           D == 1..Len(f)
<1>1. /\ f \in Seq(Occurrences) /\ \A i \in D : f[i] \in Occurrences
  BY ElementOfSeq DEF Upcoming
<1>2. \A i \in D : f[i].start \in Nat /\ OfAir(f[i]) /\ f[i].of \in Nat
  BY <1>1 DEF Occurrences, Upcoming
<1>3. \A i, j \in D : i < j => f[i].start < f[j].start
  <2> SUFFICES ASSUME NEW i \in D, NEW j \in D, i < j
               PROVE  f[i].start < f[j].start
    OBVIOUS
  <2>1. f[i].of < f[j].of
    BY DEF Upcoming
  <2> QED BY <1>2, <2>1, OneFrame
<1>4. /\ r \in Seq(Occurrences) /\ Len(r) = Len(f)
      /\ \A i \in D : \E j \in D : r[i] = f[j]
      /\ \A j \in D : \E i \in D : r[i] = f[j]
      /\ \A i, j \in D : i < j => r[i].start < r[j].start
  BY <1>1, <1>3, Sorted
<1> HIDE DEF r
<1>5. \A i \in D : r[i].start \in Nat /\ OfAir(r[i]) /\ r[i].of \in Nat
  BY <1>2, <1>4
<1>6. \A i \in D : \A j \in 1..Len(published) : published[j] < r[i].of
  <2> SUFFICES ASSUME NEW i \in D, NEW j \in 1..Len(published)
               PROVE  published[j] < r[i].of
    OBVIOUS
  <2>1. PICK k \in D : r[i] = f[k]
    BY <1>4
  <2> QED BY <2>1 DEF Upcoming
<1>7. \A i, j \in D : i < j => r[i].of < r[j].of
  <2> SUFFICES ASSUME NEW i \in D, NEW j \in D, i < j
               PROVE  r[i].of < r[j].of
    OBVIOUS
  <2>1. r[i].start < r[j].start /\ r[i].start \in Nat /\ r[j].start \in Nat
    BY <1>4, <1>5
  <2>2. r[i].of # r[j].of
    <3>1. PICK k \in D : r[i] = f[k]
      BY <1>4
    <3>2. PICK l \in D : r[j] = f[l]
      BY <1>4
    <3>3. k # l
      BY <2>1, <3>1, <3>2
    <3>4. k < l \/ l < k
      BY <3>3
    <3>5. f[k].of < f[l].of \/ f[l].of < f[k].of
      BY <3>4 DEF Upcoming
    <3>6. f[k].of \in Nat /\ f[l].of \in Nat
      BY <1>2
    <3> QED BY <3>1, <3>2, <3>5, <3>6
  <2> QED BY <1>5, <2>1, <2>2, OneFrame
<1>8. Upcoming(r)
  BY <1>4, <1>5, <1>6, <1>7 DEF Upcoming
<1>9. \A t : Knows(r, t) <=> Knows(f, t)
  BY <1>4 DEF Knows
<1> QED BY <1>8, <1>9 DEF r

-----------------------------------------------------------------------------
(***************************************************************************)
(* Every step keeps the order                                              *)
(***************************************************************************)

\* A step that leaves the air, the bytes, the decoder and the line alone.
LEMMA OrderFrame ==
    ASSUME OrderInv, UNCHANGED <<now, aired, decoder, published>>,
           Contents(ring') = Contents(ring), worker'.chunk = worker.chunk,
           worker'.fresh = worker.fresh,
           worker'.pc \notin {"feeding", "publish"} => worker.fresh = <<>>
    PROVE  OrderInv'
<1> USE DEF OrderInv
<1>1. OrderTypes' /\ AirApart'
  BY DEF OrderTypes, AirApart, Starts
<1>2. \A n : Behind(n)' <=> Behind(n)
  BY DEF Behind
<1>3. BytesInv'
  BY DEF BytesInv, Rising, Behind
<1>4. \A t : /\ Decoded(t)' <=> Decoded(t)
             /\ Done(t)' <=> Done(t)
             /\ EndOf(t)' = EndOf(t)
  BY DEF Decoded, Done, Knows, EndOf, Starts
<1>5. \A o : OfAir(o)' <=> OfAir(o)
  BY DEF OfAir, Starts
<1>6. SeenInv'
  BY <1>4, <1>5 DEF SeenInv
<1>7. Upcoming(worker.fresh)' /\ Rising(published)'
  BY <1>5 DEF LineInv, Upcoming, Rising
<1>8. \A t : Decoded(t)' => t \in 1..Len(aired)' /\ Behind(EndOf(t))' /\ Done(t)'
  BY <1>4 DEF LineInv, Behind
<1> QED BY <1>1, <1>3, <1>6, <1>7, <1>8 DEF LineInv

\* A byte time leaves the past as it was.
LEMMA AirGrows ==
    ASSUME PathInv, OrderInv, AirByte
    PROVE  /\ now \in Nat /\ now' = now + 1 /\ Len(aired) <= Len(aired')
           /\ Len(aired) \in Nat /\ Len(aired') \in Nat
           /\ aired' \in Seq([start : Nat, heard : Clarity])
           /\ \A t \in 1..Len(aired) : aired'[t] = aired[t]
           /\ \A t \in 1..Len(aired') : t > Len(aired) => aired'[t].start = now + 1
           /\ AirApart'
<1>1. now \in Nat /\ now' = now + 1 /\ OrderTypes /\ AirApart
  BY RingConstants DEF AirByte, PathInv, PathTypes, OrderInv
<1>2. aired \in Seq([start : Nat, heard : Clarity]) /\ Len(aired) \in Nat
  BY <1>1 DEF OrderTypes
<1>3. CASE aired' = aired
  BY <1>1, <1>2, <1>3 DEF AirApart, Starts
<1>4. CASE ~OnAir /\ \E heard \in Clarity :
                aired' = Append(aired, [start |-> now + 1, heard |-> heard])
  <2>1. PICK heard \in Clarity :
                aired' = Append(aired, [start |-> now + 1, heard |-> heard])
    BY <1>4
  <2> DEFINE n == Len(aired)
             e == [start |-> now + 1, heard |-> heard]
  <2>2. e \in [start : Nat, heard : Clarity] /\ e.start = now + 1
    BY <1>1
  <2> HIDE DEF e
  <2>3. /\ aired' \in Seq([start : Nat, heard : Clarity]) /\ Len(aired') = n + 1
        /\ \A t \in 1..n : aired'[t] = aired[t]
        /\ aired'[n + 1] = e
    BY <1>2, <2>1, <2>2, AppendProperties DEF e
  <2>4. \A t \in 1..n : aired'[t].start = Starts(t) /\ Starts(t) \in 1..now
    BY <1>1, <2>3 DEF Starts, AirApart
  <2>5. \A t \in 1..n : Starts(t) + FrameBytes <= now + 1
    <3> SUFFICES ASSUME NEW t \in 1..n PROVE Starts(t) + FrameBytes <= now + 1
      OBVIOUS
    <3>1. n \in 1..n /\ n # 0
      BY <1>2
    <3>2. aired # <<>>
      BY <1>2, <3>1, EmptySeq
    <3>3. ~(now < EndOf(n))
      BY <1>4, <3>2 DEF OnAir
    <3>4. /\ Starts(n) \in Nat /\ EndOf(n) = Starts(n) + FrameBytes - 1
          /\ FrameBytes \in Nat
      BY <1>1, <3>1, AirFacts
    <3>5. Starts(n) + FrameBytes <= now + 1
      BY <1>1, <3>3, <3>4
    <3>6. t = n \/ Starts(t) + FrameBytes <= Starts(n)
      BY <1>1, <3>1 DEF AirApart
    <3>7. Starts(t) \in Nat
      BY <1>1, AirFacts
    <3> QED BY <1>1, <3>4, <3>5, <3>6, <3>7
  <2>6. AirApart'
    <3>1. \A t \in 1..n + 1 : aired'[t].start \in 1..now + 1
      <4>1. aired'[n + 1].start \in 1..now + 1
        BY <1>1, <2>2, <2>3
      <4>2. \A t \in 1..n : aired'[t].start \in 1..now + 1
        BY <1>1, <2>4
      <4> QED BY <1>2, <4>1, <4>2
    <3>2. \A t, u \in 1..n + 1 :
             t < u => aired'[t].start + FrameBytes <= aired'[u].start
      <4> SUFFICES ASSUME NEW t \in 1..n + 1, NEW u \in 1..n + 1, t < u
                   PROVE  aired'[t].start + FrameBytes <= aired'[u].start
        OBVIOUS
      <4>1. t \in 1..n
        BY <1>2
      <4>2. CASE u = n + 1
        BY <2>2, <2>3, <2>4, <2>5, <4>1, <4>2
      <4>3. CASE u # n + 1
        <5>1. u \in 1..n
          BY <1>2, <4>3
        <5>2. Starts(t) + FrameBytes <= Starts(u)
          BY <1>1, <4>1, <5>1 DEF AirApart
        <5> QED BY <2>4, <4>1, <5>1, <5>2
      <4> QED BY <4>2, <4>3
    <3> QED BY <1>1, <2>3, <3>1, <3>2 DEF AirApart, Starts
  <2>7. \A t \in 1..n + 1 : t > n => aired'[t].start = now + 1
    <3> SUFFICES ASSUME NEW t \in 1..n + 1, t > n PROVE aired'[t].start = now + 1
      OBVIOUS
    <3>1. t = n + 1
      BY <1>2
    <3> QED BY <2>2, <2>3, <3>1
  <2>8. n <= n + 1 /\ n + 1 \in Nat
    BY <1>2
  <2> QED BY <1>1, <1>2, <2>3, <2>6, <2>7, <2>8
<1> QED BY <1>3, <1>4 DEF AirByte

\* A rising sequence goes on rising with a greater element, or without its
\* first one.
LEMMA RisingGrows ==
    ASSUME NEW s \in Seq(Nat), NEW d, NEW b, Rising(s), Len(d) = Len(s) + 1,
           \A i \in 1..Len(s) : d[i] = s[i] /\ s[i] < b,
           d[Len(s) + 1] = b
    PROVE  Rising(d)
<1>1. Len(s) \in Nat
  OBVIOUS
<1> SUFFICES ASSUME NEW i \in 1..Len(d), NEW j \in 1..Len(d), i < j
             PROVE  d[i] < d[j]
  BY DEF Rising
<1>2. i \in 1..Len(s)
  BY <1>1
<1>3. CASE j = Len(s) + 1
  BY <1>2, <1>3
<1>4. CASE j # Len(s) + 1
  <2>1. j \in 1..Len(s)
    BY <1>1, <1>4
  <2> QED BY <1>2, <2>1 DEF Rising
<1> QED BY <1>3, <1>4

\* Without its first byte a rising sequence rises.
LEMMA RisingShrinks ==
    ASSUME NEW s \in Seq(Nat), NEW d, Rising(s), Len(d) = Len(s) - 1,
           \A i \in 1..Len(d) : d[i] = s[i + 1]
    PROVE  Rising(d)
<1>1. Len(s) \in Nat
  OBVIOUS
<1> SUFFICES ASSUME NEW i \in 1..Len(d), NEW j \in 1..Len(d), i < j
             PROVE  d[i] < d[j]
  BY DEF Rising
<1>2. i + 1 \in 1..Len(s) /\ j + 1 \in 1..Len(s) /\ i + 1 < j + 1
  BY <1>1
<1>3. s[i + 1] < s[j + 1]
  BY <1>2 DEF Rising
<1> QED BY <1>3

\* What the ring holds after a byte time.
LEMMA RingAfterAir ==
    ASSUME PathInv, AirByte
    PROVE  \/ /\ Contents(ring') = Contents(ring)
              /\ ring'.dropped # 0 \/ worker.pc = "sending"
           \/ /\ Contents(ring') = Append(Contents(ring), now + 1)
              /\ ring'.dropped = ring.dropped
<1>1. /\ ring' = SampleByte(ring, now + 1) /\ now + 1 \in Nat /\ ring \in Rings
      /\ worker.pc # "failed"
  BY RingConstants DEF AirByte, PathInv, PathTypes, Ended
<1>2. CASE ring.active /\ NextSlot(ring.head) # ring.tail
  BY <1>1, <1>2, RingPuts
<1>3. CASE ring.active /\ NextSlot(ring.head) = ring.tail
  <2>1. /\ Contents(ring') = Contents(ring)
        /\ ring'.dropped = IF ring.dropped < DropLimit THEN ring.dropped + 1
                           ELSE ring.dropped
    BY <1>1, <1>3, RingDrops
  <2>2. ring.dropped \in 0..DropLimit
    BY <1>1 DEF Rings
  <2>3. ring'.dropped # 0
    BY <2>1, <2>2, RingConstants
  <2> QED BY <2>1, <2>3
<1>4. CASE ~ring.active
  <2>1. Contents(ring') = Contents(ring)
    BY <1>1, <1>4, RingDrops
  <2>2. worker.pc = "sending"
    BY <1>1, <1>4 DEF PathInv, PlaceInv
  <2> QED BY <2>1, <2>2
<1> QED BY <1>2, <1>3, <1>4

\* A byte time.
LEMMA AirOrder ==
    ASSUME PathInv, OrderInv, AirByte
    PROVE  OrderInv'
<1> USE DEF OrderInv
<1>1. /\ UNCHANGED <<worker, decoder, published>>
      /\ now \in Nat /\ now' = now + 1
      /\ Len(aired) <= Len(aired') /\ Len(aired) \in Nat /\ Len(aired') \in Nat
      /\ aired' \in Seq([start : Nat, heard : Clarity])
      /\ \A t \in 1..Len(aired) : aired'[t] = aired[t]
      /\ AirApart'
  BY AirGrows DEF AirByte, workVars
<1> DEFINE c == Contents(ring)
           d == Contents(ring')
           k == worker.chunk
<1>2. c \in Seq(Nat) /\ Len(c) \in Nat /\ k \in Seq(Nat) /\ Len(k) \in Nat
      /\ (\A i \in 1..Len(c) : c[i] \in Nat) /\ (\A i \in 1..Len(k) : k[i] \in Nat)
  <2>1. c \in Seq(Nat) /\ k \in Seq(Nat)
    BY ContentsShape DEF PathInv, PathTypes
  <2> QED BY <2>1, ElementOfSeq
<1>3. \/ Len(d) = Len(c) /\ \A i \in 1..Len(c) : d[i] = c[i]
      \/ /\ Len(d) = Len(c) + 1 /\ d[Len(c) + 1] = now + 1
         /\ \A i \in 1..Len(c) : d[i] = c[i]
  <2>1. d = c \/ d = Append(c, now + 1)
    BY RingAfterAir
  <2>2. now + 1 \in Nat
    BY <1>1
  <2> QED BY <1>2, <2>1, <2>2, AppendProperties
<1>4. /\ Rising(k) /\ Rising(c)
      /\ \A i \in 1..Len(k) : k[i] <= now /\ \A j \in 1..Len(c) : k[i] < c[j]
      /\ \A i \in 1..Len(c) : c[i] <= now
      /\ Behind(decoder.last)
  BY DEF BytesInv
<1>5. ASSUME NEW n \in Int, Behind(n)
      PROVE  /\ n <= now' /\ \A i \in 1..Len(k) : n < k[i]
             /\ \A i \in 1..Len(d) : n < d[i]
  <2>1. /\ n <= now /\ \A i \in 1..Len(k) : n < k[i]
        /\ \A i \in 1..Len(c) : n < c[i]
    BY <1>5 DEF Behind
  <2> HIDE DEF c, d, k
  <2> QED BY <1>1, <1>2, <1>3, <2>1
<1>6. /\ Rising(d)
      /\ \A i \in 1..Len(k) : k[i] <= now' /\ \A j \in 1..Len(d) : k[i] < d[j]
      /\ \A i \in 1..Len(d) : d[i] <= now'
  <2> HIDE DEF c, d, k
  <2>1. Rising(d)
    <3>1. CASE Len(d) = Len(c)
      BY <1>2, <1>3, <1>4, <3>1 DEF Rising
    <3>2. CASE Len(d) = Len(c) + 1
      <4>1. /\ d[Len(c) + 1] = now + 1
            /\ \A i \in 1..Len(c) : d[i] = c[i] /\ c[i] < now + 1
        BY <1>1, <1>2, <1>3, <1>4, <3>2
      <4> QED BY <1>2, <1>4, <3>2, <4>1, RisingGrows
    <3> QED BY <1>3, <3>1, <3>2
  <2>2. \A i \in 1..Len(k) : k[i] <= now' /\ \A j \in 1..Len(d) : k[i] < d[j]
    BY <1>1, <1>2, <1>3, <1>4
  <2>3. \A i \in 1..Len(d) : d[i] <= now'
    BY <1>1, <1>2, <1>3, <1>4
  <2> QED BY <2>1, <2>2, <2>3
<1>7. decoder.last \in Int
  BY DEF PathInv, PathTypes
<1>8. BytesInv'
  <2>1. Behind(decoder.last)'
    BY <1>1, <1>4, <1>5, <1>7 DEF Behind
  <2> QED BY <1>1, <1>4, <1>6, <2>1 DEF BytesInv
<1>9. \A t \in 1..Len(aired) :
         /\ t \in 1..Len(aired')
         /\ Starts(t)' = Starts(t) /\ EndOf(t)' = EndOf(t) /\ EndOf(t) \in Int
  <2> SUFFICES ASSUME NEW t \in 1..Len(aired)
               PROVE  /\ t \in 1..Len(aired')
                      /\ Starts(t)' = Starts(t) /\ EndOf(t)' = EndOf(t)
                      /\ EndOf(t) \in Int
    OBVIOUS
  <2>1. t \in 1..Len(aired')
    BY <1>1
  <2>2. EndOf(t) \in Int
    BY AirFacts
  <2>3. Starts(t)' = Starts(t) /\ EndOf(t)' = EndOf(t)
    BY <1>1 DEF Starts, EndOf
  <2> QED BY <2>1, <2>2, <2>3
<1>10. \A o : OfAir(o) => OfAir(o)'
  BY <1>9 DEF OfAir
<1>11. \A t : Decoded(t)' <=> Decoded(t)
  BY <1>1 DEF Decoded
<1>12. SeenInv'
  BY <1>1, <1>10, <1>11 DEF SeenInv
<1>13. ASSUME NEW t, Decoded(t)'
       PROVE  t \in 1..Len(aired)' /\ Behind(EndOf(t))' /\ Done(t)'
  <2>1. t \in 1..Len(aired) /\ Behind(EndOf(t)) /\ Done(t)
    BY <1>11, <1>13 DEF LineInv
  <2>2. Behind(EndOf(t))'
    BY <1>1, <1>5, <1>9, <2>1 DEF Behind
  <2>3. Done(t)'
    BY <1>1, <1>9, <2>1 DEF Done
  <2> QED BY <1>9, <2>1, <2>2, <2>3
<1>14. Upcoming(worker.fresh)' /\ Rising(published)'
  BY <1>1, <1>10 DEF LineInv, Upcoming, Rising
<1>15. OrderTypes'
  BY <1>1 DEF OrderTypes
<1> QED BY <1>1, <1>8, <1>12, <1>13, <1>14, <1>15 DEF LineInv

\* A byte of a read goes from the ring to the chunk.
LEMMA ReadOrder ==
    ASSUME PathInv, OrderInv, FirmwareReads
    PROVE  OrderInv'
<1> USE DEF OrderInv
<1> DEFINE c == Contents(ring)
           d == Contents(ring')
           k == worker.chunk
           l == worker'.chunk
           b == ring.buffer[ring.tail]
<1>1. /\ UNCHANGED <<now, aired, decoder, published>> /\ worker.pc = "reading"
      /\ ring.tail # ring.head /\ ring' = ReadByte(ring) /\ ring \in Rings
      /\ WorkerShape
      /\ worker' = [worker EXCEPT !.chunk = Append(worker.chunk, b)]
  BY DEF FirmwareReads, airVars, RestOfWork, PathInv, PathTypes
<1>2. l = Append(k, b) /\ worker'.fresh = worker.fresh /\ worker'.pc = "reading"
  BY <1>1 DEF WorkerShape
<1>3. d = Tail(c) /\ c # <<>> /\ Head(c) = b /\ b \in Nat
  BY <1>1, RingTakes
<1>4. c \in Seq(Nat) /\ k \in Seq(Nat)
  BY ContentsShape DEF PathInv, PathTypes
<1>5. /\ Len(c) \in Nat \ {0} /\ Len(d) = Len(c) - 1 /\ b = c[1]
      /\ \A i \in 1..Len(d) : d[i] = c[i + 1]
      /\ \A i \in 1..Len(c) : c[i] \in Nat
  BY <1>3, <1>4, EmptySeq, HeadTailProperties, ElementOfSeq
<1>6. /\ Len(k) \in Nat /\ Len(l) = Len(k) + 1 /\ l[Len(k) + 1] = b
      /\ \A i \in 1..Len(k) : l[i] = k[i] /\ k[i] \in Nat
  BY <1>2, <1>3, <1>4, AppendProperties, ElementOfSeq
<1>7. /\ Rising(k) /\ Rising(c)
      /\ \A i \in 1..Len(k) : k[i] <= now /\ \A j \in 1..Len(c) : k[i] < c[j]
      /\ \A i \in 1..Len(c) : c[i] <= now
      /\ Behind(decoder.last)
  BY DEF BytesInv
<1>8. now \in Nat
  BY RingConstants DEF PathInv, PathTypes
<1>9. ASSUME NEW n, Behind(n)
      PROVE  Behind(n)'
  <2>1. /\ n <= now /\ \A i \in 1..Len(k) : n < k[i]
        /\ \A i \in 1..Len(c) : n < c[i]
    BY <1>9 DEF Behind
  <2>2. /\ \A i \in 1..Len(l) : n < l[i]
        /\ \A i \in 1..Len(d) : n < d[i]
    <3> HIDE DEF b, c, d, k, l
    <3>1. \A i \in 1..Len(d) : i + 1 \in 1..Len(c)
      BY <1>5
    <3>2. \A i \in 1..Len(l) : i \in 1..Len(k) \/ i = Len(k) + 1
      BY <1>6
    <3>3. 1 \in 1..Len(c)
      BY <1>5
    <3>4. n < b
      BY <1>5, <2>1, <3>3
    <3>5. \A i \in 1..Len(l) : n < l[i]
      BY <1>6, <2>1, <3>2, <3>4
    <3>6. \A i \in 1..Len(d) : n < d[i]
      BY <1>5, <2>1, <3>1
    <3> QED BY <3>5, <3>6
  <2> QED BY <1>1, <2>1, <2>2 DEF Behind
<1>10. BytesInv'
  <2>1. /\ Rising(l) /\ Rising(d)
        /\ \A i \in 1..Len(l) : l[i] <= now /\ \A j \in 1..Len(d) : l[i] < d[j]
        /\ \A i \in 1..Len(d) : d[i] <= now
    <3> HIDE DEF b, c, d, k, l
    <3>1. Rising(l)
      <4>1. 1 \in 1..Len(c)
        BY <1>5
      <4>2. \A i \in 1..Len(k) : l[i] = k[i] /\ k[i] < b
        BY <1>5, <1>6, <1>7, <4>1
      <4> QED BY <1>4, <1>6, <1>7, <4>2, RisingGrows
    <3>2. Rising(d)
      BY <1>4, <1>5, <1>7, RisingShrinks
    <3>3. \A i \in 1..Len(l) : l[i] <= now
      <4>1. \A i \in 1..Len(l) : i \in 1..Len(k) \/ i = Len(k) + 1
        BY <1>6
      <4>2. 1 \in 1..Len(c)
        BY <1>5
      <4>3. b <= now
        BY <1>5, <1>7, <4>2
      <4>4. \A i \in 1..Len(k) : l[i] <= now
        BY <1>6, <1>7
      <4> QED BY <1>6, <4>1, <4>3, <4>4
    <3>4. \A i \in 1..Len(l) : \A j \in 1..Len(d) : l[i] < d[j]
      <4> SUFFICES ASSUME NEW i \in 1..Len(l), NEW j \in 1..Len(d)
                   PROVE  l[i] < d[j]
        OBVIOUS
      <4>1. d[j] = c[j + 1] /\ j + 1 \in 1..Len(c) /\ 1 \in 1..Len(c) /\ 1 < j + 1
        BY <1>5
      <4>2. CASE i = Len(k) + 1
        BY <1>5, <1>6, <1>7, <4>1, <4>2 DEF Rising
      <4>3. CASE i # Len(k) + 1
        BY <1>6, <1>7, <4>1, <4>3
      <4> QED BY <4>2, <4>3
    <3>5. \A i \in 1..Len(d) : d[i] <= now
      BY <1>5, <1>7
    <3> QED BY <3>1, <3>2, <3>3, <3>4, <3>5
  <2>2. Behind(decoder.last)'
    BY <1>1, <1>7, <1>9 DEF Behind
  <2> QED BY <1>1, <2>1, <2>2 DEF BytesInv
<1>11. OrderTypes' /\ AirApart'
  BY <1>1 DEF OrderTypes, AirApart, Starts
<1>12. \A t : /\ Decoded(t)' <=> Decoded(t)
              /\ Done(t)' <=> Done(t)
              /\ EndOf(t)' = EndOf(t)
  BY <1>1, <1>2 DEF Decoded, Done, Knows, EndOf, Starts
<1>13. \A o : OfAir(o)' <=> OfAir(o)
  BY <1>1 DEF OfAir, Starts
<1>14. SeenInv'
  BY <1>1, <1>12, <1>13 DEF SeenInv
<1>15. Upcoming(worker.fresh)' /\ Rising(published)' /\ worker'.fresh = <<>>
  BY <1>1, <1>2, <1>13 DEF LineInv, Upcoming, Rising
<1>16. ASSUME NEW t, Decoded(t)'
       PROVE  t \in 1..Len(aired)' /\ Behind(EndOf(t))' /\ Done(t)'
  <2>1. t \in 1..Len(aired) /\ Behind(EndOf(t)) /\ Done(t)
    BY <1>12, <1>16 DEF LineInv
  <2>2. Behind(EndOf(t))'
    <3>1. PICK n : n = EndOf(t)
      OBVIOUS
    <3>2. Behind(n)'
      BY <1>9, <2>1, <3>1
    <3> QED BY <1>12, <3>1, <3>2 DEF Behind
  <2> QED BY <1>1, <1>12, <2>1, <2>2
<1> QED BY <1>10, <1>11, <1>14, <1>15, <1>16 DEF LineInv

\* Feeding a byte: what it completes is new, or known.
LEMMA FedWorker ==
    ASSUME PathInv, Feed
    PROVE  LET fresh == worker.fresh \o Added(decoder, decoder')
           IN  /\ UNCHANGED <<now, aired, ring, published, csma, capture, stop>>
               /\ worker.pc = "feeding" /\ worker.chunk # <<>>
               /\ decoder' = FeedByte(decoder, Head(worker.chunk))
               /\ WorkerShape' /\ worker'.chunk = Tail(worker.chunk)
               /\ worker'.pc = IF worker'.chunk = <<>> THEN "publish" ELSE "feeding"
               /\ worker'.fresh \in {fresh, SortedByStart(fresh)}
               /\ worker'.reads = worker.reads /\ worker'.short = worker.short
<1> DEFINE fresh == worker.fresh \o Added(decoder, decoder')
           rest == Tail(worker.chunk)
<1>1. /\ UNCHANGED <<now, aired, ring, published, csma, capture, stop>>
      /\ worker.pc = "feeding" /\ WorkerShape /\ worker.chunk # <<>>
      /\ decoder' = FeedByte(decoder, Head(worker.chunk))
  BY DEF Feed, airVars, modemVars, PathInv, PathTypes, PlaceInv
<1>2. CASE rest # <<>>
  <2>1. worker' = [worker EXCEPT !.chunk = rest, !.fresh = fresh]
    BY <1>2, Zenon DEF Feed
  <2> HIDE DEF rest, fresh
  <2>2. /\ WorkerShape' /\ worker'.chunk = rest /\ worker'.pc = "feeding"
        /\ worker'.fresh = fresh
        /\ worker'.reads = worker.reads /\ worker'.short = worker.short
    BY <1>1, <2>1 DEF WorkerShape
  <2> QED BY <1>1, <1>2, <2>2 DEF rest, fresh
<1>3. CASE rest = <<>>
  <2> DEFINE f == SortedByStart(fresh)
  <2>1. worker' = [worker EXCEPT !.chunk = <<>>, !.pc = "publish", !.fresh = f]
    BY <1>3, Zenon DEF Feed
  <2> HIDE DEF fresh, f
  <2>2. /\ WorkerShape' /\ worker'.chunk = <<>> /\ worker'.pc = "publish"
        /\ worker'.fresh = f
        /\ worker'.reads = worker.reads /\ worker'.short = worker.short
    BY <1>1, <2>1 DEF WorkerShape
  <2> QED BY <1>1, <1>3, <2>2 DEF fresh, f
<1> QED BY <1>2, <1>3

\* The line after a byte was fed: longer by what the byte completed.
LEMMA FedLine ==
    ASSUME PathInv, OrderInv, Feed,
           NEW byte \in Nat, byte = Head(worker.chunk),
           \A t : Decoded(t) => EndOf(t) < byte
    PROVE  LET fresh == worker.fresh \o Added(decoder, decoder')
           IN  /\ Upcoming(fresh)
               /\ \/ /\ NothingNew
                     /\ \A t : Knows(fresh, t) <=> Knows(worker.fresh, t)
                  \/ \E item \in Completed(RunFrom(byte), byte) :
                        /\ NewItem(item)
                        /\ \A t : Knows(fresh, t) <=>
                              Knows(worker.fresh, t) \/ t = item.of
<1> USE DEF OrderInv
<1> DEFINE f == worker.fresh
           fresh == worker.fresh \o Added(decoder, decoder')
<1>1. decoder' = FeedByte(decoder, byte)
  BY FedWorker
<1>2. \/ NothingNew
      \/ \E item \in Completed(RunFrom(byte), byte) : NewItem(item)
  BY <1>1, FeedsByte
<1>3. f \in Seq(Occurrences) /\ Upcoming(f) /\ Len(f) \in Nat
  BY DEF LineInv, Upcoming
<1>4. CASE NothingNew
  <2>1. Added(decoder, decoder') = <<>>
    BY <1>4 DEF NothingNew
  <2>2. fresh = f
    BY <1>3, <2>1, ConcatEmptySeq
  <2> QED BY <1>3, <1>4, <2>2
<1>5. ASSUME NEW item \in Completed(RunFrom(byte), byte), NewItem(item)
      PROVE  /\ Upcoming(fresh)
             /\ \A t : Knows(fresh, t) <=> Knows(f, t) \/ t = item.of
  <2>1. RunFrom(byte) \in Nat
    BY DEF RunFrom, OrderTypes
  <2>2. /\ item \in Occurrences /\ OfAir(item)
        /\ RunFrom(byte) <= Starts(item.of)
        /\ byte - EndOf(item.of) \in aired[item.of].heard
    BY <2>1, Item
  <2> DEFINE u == item.of
  <2>3. u \in 1..Len(aired) /\ u \in Nat
    BY <2>2 DEF OfAir
  <2>4. /\ Starts(u) \in Nat /\ EndOf(u) \in Nat
        /\ EndOf(u) = Starts(u) + FrameBytes - 1 /\ FrameBytes \in Nat \ {0}
        /\ Latest \in Nat /\ Latest < FrameBytes /\ byte - EndOf(u) \in 0..Latest
    <3>1. /\ Starts(u) \in Nat /\ EndOf(u) \in Nat
          /\ EndOf(u) = Starts(u) + FrameBytes - 1 /\ FrameBytes \in Nat \ {0}
          /\ Latest \in Nat /\ byte - EndOf(u) \in 0..Latest
          /\ Tolerance + Latest < FrameBytes /\ Tolerance \in Nat
      BY <2>2, <2>3, AirFacts
    <3>2. Latest < FrameBytes
      BY <3>1
    <3> QED BY <3>1, <3>2
  <2>5. RunFrom(byte) \in {byte, decoder.from}
        /\ (decoder.last = 0 => RunFrom(byte) = byte)
    BY DEF RunFrom
  <2>6. \A t : Decoded(t) => t < u
    <3> SUFFICES ASSUME NEW t, Decoded(t) PROVE t < u
      OBVIOUS
    <3>1. t \in 1..Len(aired) /\ Done(t) /\ EndOf(t) < byte
      BY DEF LineInv
    <3>2. Starts(t) \in Nat /\ EndOf(t) = Starts(t) + FrameBytes - 1
      BY <3>1, AirFacts
    <3>3. ASSUME u < t PROVE FALSE
      <4>1. Starts(u) + FrameBytes <= Starts(t)
        BY <2>3, <3>1, <3>3 DEF AirApart
      <4> HIDE DEF u
      <4> QED BY <2>4, <3>1, <3>2, <4>1
    <3>4. ASSUME t = u PROVE FALSE
      <4>1. ~Knows(decoder.seen, t)
        BY <1>5, <3>4 DEF NewItem
      <4>2. decoder.last = 0 \/ Starts(t) < decoder.from
        BY <3>1, <4>1 DEF Done
      <4>3. RunFrom(byte) <= Starts(t)
        BY <2>2, <3>4
      <4>4. Starts(t) < byte
        BY <2>4, <3>1, <3>2
      <4>5. decoder.from \in Nat
        BY DEF OrderTypes
      <4> QED BY <2>5, <3>2, <4>2, <4>3, <4>4, <4>5
    <3> QED BY <2>3, <3>1, <3>3, <3>4
  <2>7. fresh = Append(f, item)
    <3>1. Added(decoder, decoder') = <<item>>
      BY <1>5 DEF NewItem
    <3> QED BY <1>3, <2>2, <3>1, AppendIsConcat
  <2>8. /\ fresh \in Seq(Occurrences) /\ Len(fresh) = Len(f) + 1
        /\ fresh[Len(f) + 1] = item
        /\ \A i \in 1..Len(f) : fresh[i] = f[i]
    BY <1>3, <2>2, <2>7, AppendProperties
  <2>9. \A i \in 1..Len(f) : f[i].of < u
    BY <2>6 DEF Decoded, Knows
  <2>10. \A i \in 1..Len(published) : published[i] < u
    BY <2>6 DEF Decoded
  <2> HIDE DEF fresh, f
  <2>11. Upcoming(fresh)
    <3>1. \A i \in 1..Len(fresh) :
             /\ OfAir(fresh[i])
             /\ \A j \in 1..Len(published) : published[j] < fresh[i].of
      <4> SUFFICES ASSUME NEW i \in 1..Len(fresh)
                   PROVE  /\ OfAir(fresh[i])
                          /\ \A j \in 1..Len(published) : published[j] < fresh[i].of
        OBVIOUS
      <4>1. CASE i = Len(f) + 1
        BY <2>2, <2>8, <2>10, <4>1
      <4>2. CASE i # Len(f) + 1
        <5>1. i \in 1..Len(f)
          BY <1>3, <2>8, <4>2
        <5> QED BY <1>3, <2>8, <5>1 DEF Upcoming
      <4> QED BY <4>1, <4>2
    <3>2. \A i, j \in 1..Len(fresh) : i < j => fresh[i].of < fresh[j].of
      <4> SUFFICES ASSUME NEW i \in 1..Len(fresh), NEW j \in 1..Len(fresh), i < j
                   PROVE  fresh[i].of < fresh[j].of
        OBVIOUS
      <4>1. i \in 1..Len(f)
        BY <1>3, <2>8
      <4>2. CASE j = Len(f) + 1
        BY <2>8, <2>9, <4>1, <4>2
      <4>3. CASE j # Len(f) + 1
        <5>1. j \in 1..Len(f)
          BY <1>3, <2>8, <4>3
        <5> QED BY <1>3, <2>8, <4>1, <5>1 DEF Upcoming
      <4> QED BY <4>2, <4>3
    <3> QED BY <2>8, <3>1, <3>2 DEF Upcoming
  <2>12. \A t : Knows(fresh, t) <=> Knows(f, t) \/ t = item.of
    <3>1. \A i \in 1..Len(fresh) : i \in 1..Len(f) \/ i = Len(f) + 1
      BY <1>3, <2>8
    <3>2. Len(f) + 1 \in 1..Len(fresh) /\ \A i \in 1..Len(f) : i \in 1..Len(fresh)
      BY <1>3, <2>8
    <3> QED BY <2>8, <3>1, <3>2 DEF Knows
  <2> QED BY <2>11, <2>12
<1> QED BY <1>2, <1>4, <1>5

\* feed keeps the order, and what was decoded stays decoded.
LEMMA FeedOrder ==
    ASSUME PathInv, OrderInv, Feed
    PROVE  OrderInv' /\ \A t : Decoded(t) => Decoded(t)'
<1> USE DEF OrderInv
<1> DEFINE b == Head(worker.chunk)
           rest == Tail(worker.chunk)
           k == worker.chunk
           c == Contents(ring)
           fresh == worker.fresh \o Added(decoder, decoder')
<1>1. /\ UNCHANGED <<now, aired, ring, published>>
      /\ worker.pc = "feeding" /\ worker.chunk # <<>>
      /\ decoder' = FeedByte(decoder, b)
      /\ worker'.chunk = rest
      /\ worker'.pc = IF rest = <<>> THEN "publish" ELSE "feeding"
      /\ worker'.fresh \in {fresh, SortedByStart(fresh)}
  BY FedWorker
<1>2. k \in Seq(Nat)
  BY DEF PathInv, PathTypes
<1>3. /\ b \in Nat /\ rest \in Seq(Nat) /\ b = k[1]
      /\ Len(k) \in Nat \ {0} /\ Len(rest) = Len(k) - 1
      /\ \A i \in 1..Len(rest) : rest[i] = k[i + 1]
      /\ \A i \in 1..Len(k) : k[i] \in Nat
  <2>1. k # <<>>
    BY <1>1
  <2> HIDE DEF k
  <2>2. Head(k) \in Nat /\ Tail(k) \in Seq(Nat) /\ Len(Tail(k)) = Len(k) - 1
    BY <1>2, <2>1, HeadTailProperties
  <2>3. \A i \in 1..Len(Tail(k)) : Tail(k)[i] = k[i + 1]
    BY <1>2, <2>1, HeadTailProperties
  <2>4. \A i \in 1..Len(k) : k[i] \in Nat
    BY <1>2, ElementOfSeq
  <2>5. Len(k) \in Nat \ {0} /\ Head(k) = k[1]
    BY <1>2, <2>1
  <2>6. b = Head(k) /\ rest = Tail(k)
    BY DEF k
  <2> QED BY <2>2, <2>3, <2>4, <2>5, <2>6
<1>4. /\ Rising(k) /\ Rising(c)
      /\ \A i \in 1..Len(k) : k[i] <= now /\ \A j \in 1..Len(c) : k[i] < c[j]
      /\ \A i \in 1..Len(c) : c[i] <= now
  BY DEF BytesInv
<1>5. ASSUME NEW n, Behind(n)
      PROVE  n < b /\ Behind(n)'
  <2>1. /\ n <= now /\ \A i \in 1..Len(k) : n < k[i]
        /\ \A i \in 1..Len(c) : n < c[i]
    BY <1>5 DEF Behind
  <2>2. n < b /\ \A i \in 1..Len(rest) : n < rest[i]
    <3> HIDE DEF b, rest, k, c
    <3> QED BY <1>3, <2>1
  <2> QED BY <1>1, <2>1, <2>2 DEF Behind
<1>6. /\ \A i \in 1..Len(rest) : b < rest[i]
      /\ \A i \in 1..Len(c) : b < c[i]
      /\ b <= now /\ Rising(rest)
      /\ \A i \in 1..Len(rest) : rest[i] <= now /\ \A j \in 1..Len(c) : rest[i] < c[j]
  <2> HIDE DEF b, rest, k, c
  <2>1. \A i \in 1..Len(rest) : i + 1 \in 1..Len(k) /\ 1 < i + 1 /\ 1 \in 1..Len(k)
    BY <1>3
  <2>2. \A i \in 1..Len(rest) : b < rest[i]
    BY <1>3, <1>4, <2>1 DEF Rising
  <2>3. 1 \in 1..Len(k)
    BY <1>3
  <2>4. b <= now /\ \A i \in 1..Len(c) : b < c[i]
    BY <1>3, <1>4, <2>3
  <2>5. Rising(rest)
    BY <1>2, <1>3, <1>4, RisingShrinks
  <2>6. \A i \in 1..Len(rest) : rest[i] <= now /\ \A j \in 1..Len(c) : rest[i] < c[j]
    BY <1>3, <1>4, <2>1
  <2> QED BY <2>2, <2>4, <2>5, <2>6
<1>7. /\ decoder'.from = RunFrom(b) /\ decoder'.last = b
      /\ \/ NothingNew
         \/ \E item \in Completed(RunFrom(b), b) : NewItem(item)
  BY <1>1, <1>3, FeedsByte
<1>8. BytesInv'
  <2>1. Behind(decoder.last)'
    BY <1>1, <1>6, <1>7 DEF Behind
  <2> QED BY <1>1, <1>4, <1>6, <2>1 DEF BytesInv
<1>9. \A t : Decoded(t) => EndOf(t) < b
  BY <1>5 DEF LineInv
<1>10. /\ Upcoming(fresh)
       /\ \/ /\ NothingNew
             /\ \A t : Knows(fresh, t) <=> Knows(worker.fresh, t)
          \/ \E item \in Completed(RunFrom(b), b) :
                /\ NewItem(item)
                /\ \A t : Knows(fresh, t) <=>
                      Knows(worker.fresh, t) \/ t = item.of
  BY <1>3, <1>9, FedLine
<1>11. /\ Upcoming(worker'.fresh)
       /\ \A t : Knows(worker'.fresh, t) <=> Knows(fresh, t)
  <2> HIDE DEF fresh
  <2> QED BY <1>1, <1>10, SortedUpcoming
<1>12. \A o : OfAir(o)' <=> OfAir(o)
  BY <1>1 DEF OfAir, Starts
<1>13. Upcoming(worker.fresh)' /\ Rising(published)'
  BY <1>1, <1>11, <1>12 DEF Upcoming, Rising, LineInv
<1>14. RunFrom(b) \in Nat /\ RunFrom(b) \in {b, decoder.from}
       /\ (decoder.last = 0 => RunFrom(b) = b)
  BY <1>3 DEF RunFrom, OrderTypes
<1> HIDE DEF b, rest, k, c, fresh
<1>15. \A t : EndOf(t)' = EndOf(t) /\ Starts(t)' = Starts(t)
  BY <1>1 DEF EndOf, Starts
<1>16. AirApart'
  BY <1>1 DEF AirApart, Starts
\* What was done stays done.
<1>17. ASSUME NEW t, Decoded(t),
              \A u : Knows(decoder.seen, u) => Knows(decoder'.seen, u)
       PROVE  t \in 1..Len(aired)' /\ Behind(EndOf(t))' /\ Done(t)'
  <2>1. t \in 1..Len(aired) /\ Behind(EndOf(t)) /\ Done(t)
    BY <1>17 DEF LineInv
  <2>2. EndOf(t) < b
    BY <1>5, <2>1
  <2>3. Behind(EndOf(t))'
    <3>1. PICK n : n = EndOf(t)
      OBVIOUS
    <3>2. Behind(n)'
      BY <1>5, <2>1, <3>1
    <3> QED BY <1>15, <3>1, <3>2 DEF Behind
  <2>4. Done(t)'
    <3>1. Starts(t) \in Nat /\ EndOf(t) = Starts(t) + FrameBytes - 1
          /\ FrameBytes \in Nat \ {0}
      BY <2>1, AirFacts
    <3>2. Starts(t) < b
      BY <1>3, <2>2, <3>1
    <3>3. Knows(decoder'.seen, t) \/ Starts(t) < decoder'.from
      BY <1>7, <1>14, <1>17, <2>1, <3>2 DEF Done
    <3> QED BY <1>15, <3>3 DEF Done, Knows
  <2> QED BY <1>1, <2>1, <2>3, <2>4
<1>18. CASE NothingNew /\ \A t : Knows(fresh, t) <=> Knows(worker.fresh, t)
  <2>1. SameKnown(decoder.seen, decoder'.seen)
    BY <1>18 DEF NothingNew
  <2>2. \A u : Knows(decoder.seen, u) <=> Knows(decoder'.seen, u)
    BY <2>1 DEF SameKnown, Knows
  <2>3. \A t : Decoded(t)' <=> Decoded(t)
    BY <1>1, <1>11, <1>18 DEF Decoded, Knows
  <2>4. SeenInv'
    BY <1>12, <2>1, <2>3 DEF SeenInv, SameKnown
  <2>5. \A t : Decoded(t)' => t \in 1..Len(aired)' /\ Behind(EndOf(t))' /\ Done(t)'
    BY <1>17, <2>2, <2>3
  <2>6. OrderTypes'
    BY <1>1, <1>7, <1>14, <2>1 DEF OrderTypes, SameKnown
  <2> QED BY <1>1, <1>8, <1>13, <1>16, <2>3, <2>4, <2>5, <2>6 DEF LineInv
<1>19. ASSUME NEW item \in Completed(RunFrom(b), b), NewItem(item),
              \A t : Knows(fresh, t) <=> Knows(worker.fresh, t) \/ t = item.of
       PROVE  OrderInv' /\ \A t : Decoded(t) => Decoded(t)'
  <2>1. /\ item \in Occurrences /\ OfAir(item)
        /\ b - EndOf(item.of) \in aired[item.of].heard
    BY <1>3, <1>14, Item
  <2>2. decoder.seen \in Seq(Occurrences) /\ Len(decoder.seen) \in Nat
    BY DEF OrderTypes
  <2>3. /\ decoder'.seen \in Seq(Occurrences)
        /\ Len(decoder'.seen) = Len(decoder.seen) + 1
        /\ decoder'.seen[Len(decoder.seen) + 1] = item
        /\ \A i \in 1..Len(decoder.seen) : decoder'.seen[i] = decoder.seen[i]
    BY <1>19, <2>1, <2>2, AppendProperties DEF NewItem
  <2>4. \A u : Knows(decoder.seen, u) => Knows(decoder'.seen, u)
    BY <2>2, <2>3 DEF Knows
  <2>5. Knows(decoder'.seen, item.of)
    BY <2>2, <2>3 DEF Knows
  <2>6. \A t : Decoded(t)' <=> Decoded(t) \/ t = item.of
    BY <1>1, <1>11, <1>19 DEF Decoded, Knows
  <2>7. SeenInv'
    <3> SUFFICES ASSUME NEW i \in 1..Len(decoder'.seen)
                 PROVE  OfAir(decoder.seen[i])' /\ Decoded(decoder.seen[i].of)'
      BY DEF SeenInv
    <3>1. CASE i = Len(decoder.seen) + 1
      BY <1>1, <2>1, <2>3, <2>6, <3>1 DEF OfAir, Starts, Decoded
    <3>2. CASE i # Len(decoder.seen) + 1
      <4>1. i \in 1..Len(decoder.seen)
        BY <2>2, <2>3, <3>2
      <4>2. OfAir(decoder.seen[i]) /\ Decoded(decoder.seen[i].of)
        BY <4>1 DEF SeenInv
      <4>3. decoder'.seen[i] = decoder.seen[i]
        BY <2>3, <4>1
      <4>4. PICK t : t = decoder.seen[i].of
        OBVIOUS
      <4>5. Decoded(t)'
        BY <2>6, <4>2, <4>4
      <4> QED BY <1>1, <4>2, <4>3, <4>4, <4>5 DEF OfAir, Starts, Decoded
    <3> QED BY <3>1, <3>2
  <2>8. ASSUME NEW t, Decoded(t)'
        PROVE  t \in 1..Len(aired)' /\ Behind(EndOf(t))' /\ Done(t)'
    <3>1. CASE Decoded(t)
      BY <1>17, <2>4, <3>1
    <3>2. CASE t = item.of
      <4>1. t \in 1..Len(aired)
        BY <2>1, <3>2 DEF OfAir
      <4>2. EndOf(t) \in Nat /\ EndOf(t) <= b
        <5>1. /\ EndOf(t) \in Nat /\ aired[t].heard \subseteq 0..Latest
              /\ Latest \in Nat
          BY <4>1, AirFacts
        <5>2. b - EndOf(t) \in 0..Latest
          BY <2>1, <3>2, <5>1
        <5> QED BY <1>3, <5>1, <5>2
      <4>3. Behind(EndOf(t))'
        <5>1. /\ \A i \in 1..Len(rest) : rest[i] \in Nat
              /\ \A i \in 1..Len(Contents(ring)) : Contents(ring)[i] \in Nat
              /\ now \in Nat
          <6>1. Contents(ring) \in Seq(Nat) /\ now \in Nat
            BY ContentsShape, RingConstants DEF PathInv, PathTypes
          <6> QED BY <1>3, <6>1, ElementOfSeq
        <5>2. /\ EndOf(t) <= now /\ \A i \in 1..Len(rest) : EndOf(t) < rest[i]
              /\ \A i \in 1..Len(Contents(ring)) : EndOf(t) < Contents(ring)[i]
          BY <1>3, <1>6, <4>2, <5>1 DEF c
        <5> QED BY <1>1, <1>15, <5>2 DEF Behind
      <4> QED BY <1>1, <2>5, <3>2, <4>1, <4>3 DEF Done, Knows
    <3> QED BY <2>6, <2>8, <3>1, <3>2
  <2>9. OrderTypes'
    BY <1>1, <1>7, <1>14, <2>3 DEF OrderTypes
  <2> QED BY <1>1, <1>8, <1>13, <1>16, <2>6, <2>7, <2>8, <2>9 DEF LineInv
<1> QED BY <1>10, <1>18, <1>19

\* Publishing moves the first of the fresh ones behind the published ones.
LEMMA PublishOrder ==
    ASSUME PathInv, OrderInv, Publish
    PROVE  /\ OrderInv'
           /\ worker'.pc = "publish" /\ worker'.chunk = worker.chunk
           /\ worker'.reads = worker.reads /\ worker'.short = worker.short
           /\ \A t : Decoded(t)' <=> Decoded(t)
<1> USE DEF OrderInv
<1> DEFINE f == worker.fresh
           g == worker'.fresh
           u == Head(f).of
           p == published
           q == published'
<1>1. /\ UNCHANGED <<now, aired, ring, decoder>> /\ worker.pc = "publish"
      /\ f # <<>> /\ WorkerShape /\ q = Append(p, u)
      /\ worker' = [worker EXCEPT !.fresh = Tail(f)]
  BY DEF Publish, airVars, modemVars, PathInv, PathTypes
<1>2. /\ g = Tail(f) /\ worker'.chunk = worker.chunk /\ worker'.pc = "publish"
      /\ worker'.reads = worker.reads /\ worker'.short = worker.short
  BY <1>1 DEF WorkerShape
<1>3. f \in Seq(Occurrences) /\ Upcoming(f) /\ p \in Seq(Nat) /\ Rising(p)
  BY DEF LineInv, Upcoming, OrderTypes
<1>4. /\ Len(f) \in Nat \ {0} /\ Len(g) = Len(f) - 1 /\ g \in Seq(Occurrences)
      /\ u = f[1].of /\ \A i \in 1..Len(g) : g[i] = f[i + 1]
      /\ \A i \in 1..Len(f) : f[i] \in Occurrences
  BY <1>1, <1>2, <1>3, EmptySeq, HeadTailProperties, ElementOfSeq
<1>5. \A i \in 1..Len(f) : f[i].of \in Nat
  BY <1>4 DEF Occurrences
<1>6. u \in Nat /\ 1 \in 1..Len(f)
  BY <1>4, <1>5
<1>7. /\ Len(p) \in Nat /\ Len(q) = Len(p) + 1 /\ q \in Seq(Nat)
      /\ q[Len(p) + 1] = u /\ \A i \in 1..Len(p) : q[i] = p[i]
  BY <1>1, <1>3, <1>6, AppendProperties
<1>8. /\ \A i \in 1..Len(p) : \A j \in 1..Len(f) : p[i] < f[j].of
      /\ \A i, j \in 1..Len(f) : i < j => f[i].of < f[j].of
      /\ \A i \in 1..Len(f) : OfAir(f[i])
  BY <1>3 DEF Upcoming
<1> HIDE DEF u, p, q, g, f
<1>9. Rising(q)
  <2>1. \A i \in 1..Len(p) : q[i] = p[i] /\ p[i] < u
    BY <1>4, <1>6, <1>7, <1>8
  <2> QED BY <1>3, <1>7, <2>1, RisingGrows
<1>10. /\ \A i \in 1..Len(g) : OfAir(g[i])
       /\ \A i \in 1..Len(g) : \A j \in 1..Len(q) : q[j] < g[i].of
       /\ \A i, j \in 1..Len(g) : i < j => g[i].of < g[j].of
  <2>1. \A i \in 1..Len(g) : i + 1 \in 1..Len(f) /\ 1 < i + 1
    BY <1>4
  <2>2. \A i \in 1..Len(g) : OfAir(g[i])
    BY <1>4, <1>8, <2>1
  <2>3. \A i, j \in 1..Len(g) : i < j => g[i].of < g[j].of
    <3> SUFFICES ASSUME NEW i \in 1..Len(g), NEW j \in 1..Len(g), i < j
                 PROVE  g[i].of < g[j].of
      OBVIOUS
    <3>1. i + 1 < j + 1 /\ i + 1 \in 1..Len(f) /\ j + 1 \in 1..Len(f)
      BY <2>1
    <3> QED BY <1>4, <1>8, <3>1
  <2>4. ASSUME NEW i \in 1..Len(g), NEW j \in 1..Len(q)
        PROVE  q[j] < g[i].of
    <3>1. g[i] = f[i + 1] /\ i + 1 \in 1..Len(f) /\ 1 < i + 1
      BY <1>4, <2>1
    <3>2. CASE j = Len(p) + 1
      BY <1>4, <1>6, <1>7, <1>8, <3>1, <3>2
    <3>3. CASE j # Len(p) + 1
      <4>1. j \in 1..Len(p)
        BY <1>7, <3>3
      <4> QED BY <1>7, <1>8, <3>1, <4>1
    <3> QED BY <3>2, <3>3
  <2> QED BY <2>2, <2>3, <2>4
<1>11. \A t : Decoded(t)' <=> Decoded(t)
  <2> SUFFICES ASSUME NEW t
               PROVE  \/ \E i \in 1..Len(q) : q[i] = t
                      \/ \E i \in 1..Len(g) : g[i].of = t
                      <=>
                      \/ \E i \in 1..Len(p) : p[i] = t
                      \/ \E i \in 1..Len(f) : f[i].of = t
    BY DEF Decoded, Knows, f, g, p, q
  <2>1. ASSUME NEW i \in 1..Len(q), q[i] = t
        PROVE  \/ \E j \in 1..Len(p) : p[j] = t
               \/ \E j \in 1..Len(f) : f[j].of = t
    <3>1. i \in 1..Len(p) \/ i = Len(p) + 1
      BY <1>7
    <3> QED BY <1>4, <1>6, <1>7, <2>1, <3>1
  <2>2. ASSUME NEW i \in 1..Len(g), g[i].of = t
        PROVE  \E j \in 1..Len(f) : f[j].of = t
    <3>1. i + 1 \in 1..Len(f)
      BY <1>4
    <3> QED BY <1>4, <2>2, <3>1
  <2>3. ASSUME NEW i \in 1..Len(p), p[i] = t
        PROVE  \E j \in 1..Len(q) : q[j] = t
    <3>1. i \in 1..Len(q)
      BY <1>7
    <3> QED BY <1>7, <2>3, <3>1
  <2>4. ASSUME NEW i \in 1..Len(f), f[i].of = t
        PROVE  \/ \E j \in 1..Len(q) : q[j] = t
               \/ \E j \in 1..Len(g) : g[j].of = t
    <3>1. CASE i = 1
      <4>1. Len(p) + 1 \in 1..Len(q)
        BY <1>7
      <4> QED BY <1>4, <1>7, <2>4, <3>1, <4>1
    <3>2. CASE i # 1
      <4>1. i - 1 \in 1..Len(g) /\ (i - 1) + 1 = i
        BY <1>4, <3>2
      <4>2. g[i - 1] = f[i]
        BY <1>4, <4>1
      <4> QED BY <2>4, <4>1, <4>2
    <3> QED BY <3>1, <3>2
  <2> QED BY <2>1, <2>2, <2>3, <2>4
<1>12. \A o : OfAir(o)' <=> OfAir(o)
  BY <1>1 DEF OfAir, Starts
<1>13. Upcoming(worker.fresh)' /\ Rising(published)'
  BY <1>4, <1>9, <1>10, <1>12 DEF Upcoming, Rising, g, q
<1>14. OrderTypes' /\ AirApart'
  BY <1>1, <1>7 DEF OrderTypes, AirApart, Starts, q
<1>15. \A n : Behind(n)' <=> Behind(n)
  BY <1>1, <1>2 DEF Behind
<1>16. BytesInv'
  BY <1>1, <1>2 DEF BytesInv, Rising, Behind
<1>17. SeenInv'
  BY <1>1, <1>11, <1>12 DEF SeenInv
<1>18. \A t : Decoded(t)' => t \in 1..Len(aired)' /\ Behind(EndOf(t))' /\ Done(t)'
  <2>1. \A t : /\ EndOf(t)' = EndOf(t)
               /\ Done(t)' <=> Done(t)
    BY <1>1 DEF EndOf, Done, Knows, Starts
  <2> QED BY <1>1, <1>2, <1>11, <2>1 DEF LineInv, Behind
<1>19. OrderInv'
  BY <1>2, <1>13, <1>14, <1>16, <1>17, <1>18 DEF LineInv
<1> QED BY <1>2, <1>11, <1>19

\* The step after a read, or into a drain, field by field.
LEMMA DrainFields ==
    ASSUME NEW w,
           w = [pc |-> w.pc, reads |-> w.reads, chunk |-> w.chunk,
                short |-> w.short, fresh |-> w.fresh, passes |-> w.passes],
           worker' = DrainStep(w)
    PROVE  /\ worker'.chunk = w.chunk /\ worker'.fresh = w.fresh
           /\ DrainGoesOn(w) =>
                 /\ worker'.pc = "reading"
                 /\ worker'.reads = w.reads /\ worker'.short = w.short
           /\ ~DrainGoesOn(w) =>
                 /\ worker'.pc = "drained"
                 /\ worker'.reads = 0 /\ worker'.short = FALSE
<1>1. CASE DrainGoesOn(w)
  <2>1. worker' = [w EXCEPT !.pc = "reading"]
    BY <1>1 DEF DrainStep
  <2>2. worker' = [pc |-> "reading", reads |-> w.reads, chunk |-> w.chunk,
                   short |-> w.short, fresh |-> w.fresh, passes |-> w.passes]
    BY <2>1
  <2> QED BY <1>1, <2>2
<1>2. CASE ~DrainGoesOn(w)
  <2>1. worker' = [w EXCEPT !.pc = "drained", !.reads = 0, !.short = FALSE]
    BY <1>2 DEF DrainStep
  <2>2. worker' = [pc |-> "drained", reads |-> 0, chunk |-> w.chunk,
                   short |-> FALSE, fresh |-> w.fresh, passes |-> w.passes]
    BY <2>1
  <2> QED BY <1>2, <2>2
<1> QED BY <1>1, <1>2

\* The other steps of the loop leave the line alone.
LEMMA LoopOrder ==
    ASSUME PathInv, OrderInv,
           \/ Consume \/ LoopTurns \/ Drained \/ CheckStatus \/ NothingQueued
           \/ Observe \/ PublishEnds \/ WorkerFails \/ CycleBegins
    PROVE  OrderInv'
<1>1. UNCHANGED <<now, aired, ring, decoder, published>> /\ WorkerShape
  BY DEF LoopTurns, Drained, CheckStatus, NothingQueued, Observe, PublishEnds,
         WorkerFails, Consume, CycleBegins, CycleGoes, airVars, modemVars,
         RestOfWork, PathInv, PathTypes
<1>2. worker.pc \notin {"feeding", "publish"} => worker.fresh = <<>>
  BY DEF OrderInv, LineInv
<1>3. ASSUME worker'.chunk = worker.chunk, worker'.fresh = worker.fresh,
             worker.pc \notin {"feeding", "publish"} \/ worker.fresh = <<>>
      PROVE  OrderInv'
  BY <1>1, <1>2, <1>3, OrderFrame
<1>4. \A pc : Goes(pc) => worker'.chunk = worker.chunk /\ worker'.fresh = worker.fresh
  BY <1>1 DEF Goes, WorkerShape
<1>6. CASE LoopTurns
  <2>1. worker.pc = "loop"
    BY <1>6 DEF LoopTurns
  <2>2. worker'.chunk = worker.chunk /\ worker'.fresh = worker.fresh
    <3>1. CASE Goes("stopped")
      BY <1>4, <3>1
    <3>2. CASE ~Goes("stopped")
      <4> DEFINE p == IF worker.passes < StatusEvery THEN worker.passes + 1
                      ELSE worker.passes
                 w == [worker EXCEPT !.passes = p]
      <4>1. worker' = DrainStep(w)
        BY <1>6, <3>2 DEF LoopTurns
      <4> HIDE DEF p
      <4>2. w = [pc |-> worker.pc, reads |-> worker.reads,
                 chunk |-> worker.chunk, short |-> worker.short,
                 fresh |-> worker.fresh, passes |-> p]
        BY <1>1 DEF WorkerShape
      <4> HIDE DEF w
      <4>3. /\ w = [pc |-> w.pc, reads |-> w.reads, chunk |-> w.chunk,
                    short |-> w.short, fresh |-> w.fresh, passes |-> w.passes]
            /\ w.chunk = worker.chunk /\ w.fresh = worker.fresh
        BY <4>2
      <4>4. worker'.chunk = w.chunk /\ worker'.fresh = w.fresh
        BY <4>1, <4>3, DrainFields
      <4> QED BY <4>3, <4>4
    <3> QED BY <3>1, <3>2
  <2> QED BY <1>3, <2>1, <2>2
<1>7. CASE Drained \/ NothingQueued \/ Observe \/ WorkerFails \/ CycleBegins
  <2>1. worker.pc \notin {"feeding", "publish"}
    BY <1>7 DEF Drained, NothingQueued, Observe, WorkerFails, CycleBegins, CycleGoes
  <2>2. \E pc : Goes(pc)
    BY <1>7, Zenon DEF Drained, NothingQueued, Observe, WorkerFails, CycleBegins,
                       CycleGoes
  <2> QED BY <1>3, <1>4, <2>1, <2>2
<1>8. CASE CheckStatus
  <2>1. PICK pc : worker' = [worker EXCEPT !.pc = pc, !.passes = 0]
    BY <1>8, Zenon DEF CheckStatus
  <2>2. worker'.chunk = worker.chunk /\ worker'.fresh = worker.fresh
    BY <1>1, <2>1 DEF WorkerShape
  <2> QED BY <1>3, <1>8, <2>2 DEF CheckStatus
<1>9. CASE Consume
  <2>1. PICK pc, reads, short :
          worker' = [worker EXCEPT !.pc = pc, !.reads = reads, !.short = short]
    BY <1>9, Zenon DEF Consume
  <2>2. worker'.chunk = worker.chunk /\ worker'.fresh = worker.fresh
    BY <1>1, <2>1 DEF WorkerShape
  <2> QED BY <1>3, <1>9, <2>2 DEF Consume
<1>10. CASE PublishEnds
  <2>1. worker' = DrainStep(worker) /\ worker.fresh = <<>>
    BY <1>10 DEF PublishEnds
  <2>2. worker'.chunk = worker.chunk /\ worker'.fresh = worker.fresh
    <3>1. worker = [pc |-> worker.pc, reads |-> worker.reads,
                    chunk |-> worker.chunk, short |-> worker.short,
                    fresh |-> worker.fresh, passes |-> worker.passes]
      BY <1>1 DEF WorkerShape
    <3> QED BY <2>1, <3>1, DrainFields
  <2> QED BY <1>3, <2>1, <2>2
<1> QED BY <1>6, <1>7, <1>8, <1>9, <1>10

\* A transmit cycle: the ring is stopped and emptied, the decoder renewed.
LEMMA CycleOrder ==
    ASSUME PathInv, OrderInv, CycleStopsRx \/ CycleRestartsRx \/ CycleVerifies
    PROVE  OrderInv'
<1> USE DEF OrderInv
<1>1. /\ UNCHANGED <<now, aired, published>> /\ WorkerShape
      /\ worker.pc \in {"stopping", "sending", "verify"} /\ ring \in Rings
      /\ decoder.last \in Nat
  BY DEF CycleStopsRx, CycleRestartsRx, CycleVerifies, CycleGoes, airVars,
         PathInv, PathTypes
<1>2. worker'.chunk = worker.chunk /\ worker'.fresh = worker.fresh
  BY <1>1, VerifyShape DEF CycleStopsRx, CycleRestartsRx, CycleGoes, Goes,
                           WorkerShape
<1>3. worker.fresh = <<>> /\ worker.chunk = <<>>
  BY <1>1 DEF LineInv, PathInv, PlaceInv
<1>4. CASE CycleStopsRx
  <2>1. Contents(ring') = Contents(ring) /\ decoder' = decoder
    BY <1>1, <1>4, RingRestarts DEF CycleStopsRx
  <2> QED BY <1>1, <1>2, <1>3, <2>1, OrderFrame
\* What holds of the bytes on their way holds of none.
<1>5. ASSUME Contents(ring') \in {<<>>, Contents(ring)},
             decoder' = decoder \/ decoder' = NewDecoder
      PROVE  OrderInv'
  <2>1. \A n : Behind(n) => Behind(n)'
    BY <1>1, <1>2, <1>3, <1>5 DEF Behind
  <2>2. decoder'.last \in {0, decoder.last}
    BY <1>5 DEF NewDecoder
  <2>3. Behind(decoder.last)
    BY DEF BytesInv
  <2>4. now \in Nat /\ \A i \in 1..Len(Contents(ring)) : Contents(ring)[i] \in Nat
    <3>1. now \in Nat /\ Contents(ring) \in Seq(Nat)
      BY <1>1, ContentsShape, RingConstants DEF PathInv, PathTypes
    <3> QED BY <3>1, ElementOfSeq
  <2>5. Behind(0)
    BY <1>1, <1>3, <2>3, <2>4 DEF Behind
  <2>6. Behind(decoder.last)'
    <3>1. PICK n : n = decoder'.last
      OBVIOUS
    <3>2. Behind(n)'
      BY <2>1, <2>2, <2>3, <2>5, <3>1
    <3> QED BY <3>1, <3>2 DEF Behind
  <2>7. BytesInv'
    BY <1>1, <1>2, <1>3, <1>5, <2>6 DEF BytesInv, Rising
  <2>8. decoder' = NewDecoder => decoder'.seen = <<>> /\ decoder'.from = 0
                                 /\ decoder'.last = 0
    BY DEF NewDecoder
  <2>9. OrderTypes' /\ AirApart'
    <3>1. decoder'.seen \in Seq(Occurrences) /\ decoder'.from \in Nat
      <4>1. <<>> \in Seq(Occurrences) /\ 0 \in Nat
        OBVIOUS
      <4> QED BY <1>5, <2>8, <4>1 DEF OrderTypes
    <3>2. AirApart'
      BY <1>1 DEF AirApart, Starts
    <3>3. OrderTypes'
      BY <1>1, <3>1 DEF OrderTypes
    <3> QED BY <3>2, <3>3
  <2>10. \A t : Decoded(t)' <=> Decoded(t)
    BY <1>1, <1>2 DEF Decoded, Knows
  <2>11. \A o : OfAir(o)' <=> OfAir(o)
    BY <1>1 DEF OfAir, Starts
  <2>12. SeenInv'
    BY <1>5, <2>8, <2>10, <2>11 DEF SeenInv
  <2>13. Upcoming(worker.fresh)' /\ Rising(published)'
    BY <1>1, <1>2, <2>11 DEF LineInv, Upcoming, Rising
  <2>14. ASSUME NEW t, Decoded(t)'
         PROVE  t \in 1..Len(aired)' /\ Behind(EndOf(t))' /\ Done(t)'
    <3>1. t \in 1..Len(aired) /\ Behind(EndOf(t)) /\ Done(t)
      BY <2>10, <2>14 DEF LineInv
    <3>2. Done(t)'
      BY <1>1, <1>5, <2>8, <3>1 DEF Done, Knows, Starts
    <3>3. Behind(EndOf(t))'
      <4>1. PICK n : n = EndOf(t)
        OBVIOUS
      <4>2. Behind(n)'
        BY <2>1, <3>1, <4>1
      <4> QED BY <1>1, <4>1, <4>2 DEF Behind, EndOf
    <3> QED BY <1>1, <3>1, <3>2, <3>3
  <2> QED BY <1>2, <1>3, <2>7, <2>9, <2>12, <2>13, <2>14 DEF LineInv
<1>6. CASE CycleRestartsRx
  <2>1. Contents(ring') = <<>> /\ decoder' = decoder
    BY <1>1, <1>6, RingRestarts DEF CycleRestartsRx
  <2> QED BY <1>5, <2>1
<1>7. CASE CycleVerifies
  BY <1>5, <1>7 DEF CycleVerifies, RenewedDecoder, modemVars
<1> QED BY <1>4, <1>6, <1>7

\* The order holds before the first byte,
LEMMA OrderInit == Init => OrderInv
<1> SUFFICES ASSUME Init PROVE OrderInv
  OBVIOUS
<1>1. /\ now = 0 /\ aired = <<>> /\ published = <<>>
      /\ worker.fresh = <<>> /\ worker.chunk = <<>>
      /\ decoder.seen = <<>> /\ decoder.from = 0 /\ decoder.last = 0
  BY DEF Init, NewDecoder
<1>2. Contents(ring) = <<>>
  <2>1. ring \in Rings
    BY PathInit DEF PathInv, PathTypes
  <2>2. Available(ring) = 0
    BY DEF Available, Init
  <2> QED BY <2>1, <2>2, ContentsShape, EmptySeq
<1>3. OrderTypes /\ AirApart /\ SeenInv
  BY <1>1 DEF OrderTypes, AirApart, SeenInv
<1>4. BytesInv
  BY <1>1, <1>2 DEF BytesInv, Rising, Behind
<1>5. LineInv
  BY <1>1 DEF LineInv, Decoded, Knows, Rising, Upcoming
<1> QED BY <1>3, <1>4, <1>5 DEF OrderInv

\* and every step keeps it.
LEMMA OrderNext == PathInv /\ OrderInv /\ [Next]_vars => OrderInv'
<1> SUFFICES ASSUME PathInv, OrderInv, [Next]_vars PROVE OrderInv'
  OBVIOUS
<1>1. CASE UNCHANGED <<now, aired, ring, worker, decoder, published>>
  <2>1. worker.pc \notin {"feeding", "publish"} => worker.fresh = <<>>
    BY DEF OrderInv, LineInv
  <2> QED BY <1>1, <2>1, OrderFrame
<1>2. CASE UNCHANGED vars
  BY <1>1, <1>2 DEF vars, airVars, modemVars, workVars
<1>3. CASE StopAsked
  BY <1>1, <1>3 DEF StopAsked, airVars, modemVars, workVars
<1>4. CASE AirByte \/ WorkerSteps \/ WorkerFails
  BY <1>4, AirOrder, ReadOrder, FeedOrder, PublishOrder, LoopOrder, CycleOrder
     DEF WorkerSteps
<1> QED BY <1>2, <1>3, <1>4 DEF Next

-----------------------------------------------------------------------------
(***************************************************************************)
(* Every step keeps the promises of the drain                              *)
(***************************************************************************)

\* The reads of a drain, as numbers.
LEMMA DrainConstants ==
    /\ DrainLimit \in Nat \ {0} /\ ReadMaximum \in Nat \ {0}
    /\ DrainLimit * ReadMaximum >= BufferSize - 1
BY ReceivePathAssumption

\* Each read takes its maximum off the budget; a whole budget empties the ring.
LEMMA BudgetFacts ==
    ASSUME NEW r \in 0..DrainLimit
    PROVE  /\ (DrainLimit - r) * ReadMaximum \in Nat
           /\ r < DrainLimit =>
                (DrainLimit - (r + 1)) * ReadMaximum
                  = (DrainLimit - r) * ReadMaximum - ReadMaximum
           /\ r = DrainLimit => (DrainLimit - r) * ReadMaximum = 0
           /\ r = 0 => (DrainLimit - r) * ReadMaximum >= BufferSize - 1
<1>1. DrainLimit - r \in Nat /\ DrainLimit \in Nat /\ ReadMaximum \in Nat
  BY DrainConstants
<1>2. \A m, n \in Nat : m * n \in Nat
  OBVIOUS
<1>3. (DrainLimit - r) * ReadMaximum \in Nat
  BY <1>1, <1>2
<1>4. \A m \in Nat : \A n \in Int : (n - 1) * m = n * m - m
  OBVIOUS
<1>5. DrainLimit - (r + 1) = (DrainLimit - r) - 1
  BY <1>1
<1>6. (DrainLimit - (r + 1)) * ReadMaximum
        = (DrainLimit - r) * ReadMaximum - ReadMaximum
  BY <1>1, <1>4, <1>5
<1>7. r = DrainLimit => (DrainLimit - r) * ReadMaximum = 0
  BY <1>1
<1>8. r = 0 => (DrainLimit - r) * ReadMaximum >= BufferSize - 1
  <2>1. r = 0 => DrainLimit - r = DrainLimit
    BY <1>1
  <2> QED BY <2>1, DrainConstants
<1> QED BY <1>3, <1>6, <1>7, <1>8

\* The numbers that the invariants are about.
LEMMA Numbers ==
    ASSUME ReceiveInv
    PROVE  /\ now \in Nat /\ Contents(ring) \in Seq(Nat)
           /\ Len(Contents(ring)) \in 0..BufferSize - 1 /\ BufferSize \in Nat
           /\ worker.chunk \in Seq(Nat) /\ Len(worker.chunk) \in Nat
           /\ Taken \in Int /\ Taken = now - Len(Contents(ring))
           /\ Budget \in Nat /\ csma \in Int /\ csma <= now
           /\ FedTo \in Int /\ FedTo <= now
<1> USE DEF ReceiveInv
<1>1. /\ now \in Nat /\ ring \in Rings /\ worker.chunk \in Seq(Nat)
      /\ decoder.last \in Nat /\ BufferSize \in Nat
  BY RingConstants DEF PathInv, PathTypes
<1>2. /\ Contents(ring) \in Seq(Nat)
      /\ Len(Contents(ring)) \in 0..BufferSize - 1
  BY <1>1, ContentsShape
<1>3. Taken \in Int /\ Taken = now - Len(Contents(ring))
  BY <1>1, <1>2 DEF Taken
<1>4. Budget \in Nat
  BY BudgetFacts DEF Budget, DrainTypes
<1>5. csma \in Int /\ csma <= now /\ capture \in Nat /\ capture - 1 <= now
  BY <1>1 DEF DrainTypes
<1>6. decoder.last <= now
  BY DEF OrderInv, BytesInv, Behind
<1>7. FedTo \in Int /\ FedTo <= now
  BY <1>1, <1>5, <1>6 DEF FedTo
<1> QED BY <1>1, <1>2, <1>3, <1>4, <1>5, <1>7

\* A byte time.
LEMMA AirTimely ==
    ASSUME ReceiveInv, AirByte
    PROVE  WholeInv' /\ DrainTypes' /\ DrainInv'
<1> USE DEF ReceiveInv
<1>1. /\ UNCHANGED <<worker, decoder, csma, published, capture, stop>>
      /\ worker.pc # "failed"
  BY DEF AirByte, workVars, Ended
<1>2. /\ now \in Nat /\ now' = now + 1 /\ Len(aired) <= Len(aired')
      /\ Len(aired) \in Nat /\ Len(aired') \in Nat
      /\ \A t \in 1..Len(aired) : aired'[t] = aired[t]
      /\ \A t \in 1..Len(aired') : t > Len(aired) => aired'[t].start = now + 1
      /\ aired' \in Seq([start : Nat, heard : Clarity])
  BY AirGrows
<1>3. DrainTypes'
  BY <1>1, <1>2 DEF DrainTypes
<1>4. /\ FedTo' = FedTo /\ Budget' = Budget /\ FedTo \in Int /\ FedTo <= now
      /\ \A t : Decoded(t)' <=> Decoded(t)
  <2>1. FedTo \in Int /\ FedTo <= now
    BY Numbers
  <2> QED BY <1>1, <2>1 DEF FedTo, Budget, Decoded
<1>5. \/ ring'.dropped # 0 \/ worker.pc = "sending"
      \/ Taken' = Taken /\ ring'.dropped = ring.dropped
  <2> DEFINE c == Contents(ring)
             d == Contents(ring')
  <2>1. c \in Seq(Nat) /\ now + 1 \in Nat
    BY <1>2, Numbers
  <2>2. CASE d = Append(c, now + 1) /\ ring'.dropped = ring.dropped
    <3>1. Len(c) \in Nat /\ Len(d) = Len(c) + 1
      BY <2>1, <2>2, AppendProperties
    <3>2. Taken = now - Len(c) /\ Taken' = now' - Len(d)
      BY DEF Taken
    <3> HIDE DEF c, d
    <3>3. Taken' = Taken
      BY <1>2, <3>1, <3>2
    <3> QED BY <2>2, <3>3
  <2> QED BY <2>2, RingAfterAir
<1>6. ring'.dropped = 0 => ring.dropped = 0
  BY <1>5 DEF PathInv, PlaceInv
<1>7. DrainInv'
  BY <1>1, <1>4, <1>5, <1>6 DEF DrainInv
<1>8. ASSUME ring'.dropped = 0, worker.pc # "verify",
             NEW t \in 1..Len(aired'), Starts(t)' >= capture,
             HeardBy(t, FedTo)'
      PROVE  Decoded(t)'
  <2>1. CASE t \in 1..Len(aired)
    <3>1. Starts(t)' = Starts(t) /\ (HeardBy(t, FedTo)' <=> HeardBy(t, FedTo))
      BY <1>2, <1>4, <2>1 DEF Starts, HeardBy, EndOf
    <3> QED BY <1>1, <1>4, <1>6, <1>8, <2>1, <3>1 DEF WholeInv
  <2>2. CASE t \notin 1..Len(aired)
    <3>1. t > Len(aired)
      BY <1>2, <2>2
    <3>2. aired'[t].start = now + 1 /\ aired'[t] \in [start : Nat, heard : Clarity]
      BY <1>2, <3>1, ElementOfSeq
    <3> DEFINE m == Min(aired'[t].heard)
    <3>3. m \in Nat /\ FrameBytes \in Nat \ {0}
      <4>1. aired'[t].heard \in Clarity
        BY <3>2
      <4>2. /\ m \in aired'[t].heard /\ aired'[t].heard \subseteq 0..Latest
            /\ Latest \in Nat /\ FrameBytes \in Nat \ {0}
        BY <4>1, Delays
      <4> QED BY <4>2
    <3>4. (now + 1) + FrameBytes - 1 + m <= FedTo
      BY <1>4, <1>8, <3>2 DEF HeardBy, EndOf
    <3> HIDE DEF m
    <3> QED BY <1>2, <1>4, <3>3, <3>4
  <2> QED BY <2>1, <2>2
<1>9. WholeInv'
  <2>1. ASSUME ring'.dropped = 0, worker.pc = "verify"
        PROVE  Taken' = capture - 1
    BY <1>1, <1>5, <1>6, <2>1 DEF WholeInv
  <2>2. ASSUME ring'.dropped = 0, worker.pc # "verify"
        PROVE  /\ decoder.last # 0 => decoder.from = capture
               /\ worker.pc # "sending" => FedTo' = Taken' - Len(worker.chunk)
    BY <1>1, <1>4, <1>5, <1>6, <2>2 DEF WholeInv
  <2> QED BY <1>1, <1>8, <2>1, <2>2 DEF WholeInv
<1> QED BY <1>3, <1>7, <1>9

\* A byte of a read.
LEMMA ReadTimely ==
    ASSUME ReceiveInv, FirmwareReads
    PROVE  WholeInv' /\ DrainTypes' /\ DrainInv'
<1> USE DEF ReceiveInv
<1> DEFINE c == Contents(ring)
           d == Contents(ring')
           k == worker.chunk
           l == worker'.chunk
           b == ring.buffer[ring.tail]
<1>1. /\ UNCHANGED <<now, aired, decoder, published, csma, capture, stop>>
      /\ worker.pc = "reading" /\ WorkerShape /\ ring \in Rings
      /\ ring.tail # ring.head /\ ring' = ReadByte(ring)
      /\ worker' = [worker EXCEPT !.chunk = Append(worker.chunk, b)]
  BY DEF FirmwareReads, airVars, RestOfWork, PathInv, PathTypes
<1>2. /\ l = Append(k, b) /\ worker'.fresh = worker.fresh
      /\ worker'.pc = "reading" /\ worker'.reads = worker.reads
      /\ worker'.short = worker.short
  BY <1>1 DEF WorkerShape
<1>3. /\ d = Tail(c) /\ c # <<>> /\ b \in Nat /\ ring'.dropped = ring.dropped
  BY <1>1, RingTakes
<1>4. /\ c \in Seq(Nat) /\ k \in Seq(Nat) /\ now \in Nat /\ Budget \in Nat
      /\ Taken \in Int /\ csma \in Int /\ FedTo \in Int
  BY Numbers
<1>5. /\ Len(c) \in Nat \ {0} /\ Len(d) = Len(c) - 1
      /\ Len(k) \in Nat /\ Len(l) = Len(k) + 1
  BY <1>2, <1>3, <1>4, EmptySeq, HeadTailProperties, AppendProperties
<1>6. Taken = now - Len(c) /\ Taken' = now - Len(d)
  BY <1>1 DEF Taken
<1>7. FedTo' = FedTo /\ Budget' = Budget
  BY <1>1, <1>2 DEF FedTo, Budget
<1>8. \A t : /\ Decoded(t)' <=> Decoded(t)
             /\ Starts(t)' = Starts(t)
             /\ HeardBy(t, FedTo)' <=> HeardBy(t, FedTo)
  BY <1>1, <1>2, <1>7 DEF Decoded, Knows, Starts, HeardBy, EndOf
<1>9. DrainTypes'
  BY <1>1, <1>2 DEF DrainTypes
<1> HIDE DEF b, c, d, k, l
<1>10. Taken' = Taken + 1 /\ Taken' - Len(l) = Taken - Len(k)
  BY <1>4, <1>5, <1>6
<1>11. DrainInv'
  <2> SUFFICES ASSUME csma # None, ring.dropped = 0, ~stop
               PROVE  Taken' >= csma \/ Taken' - Len(l) + Budget >= csma
    BY <1>1, <1>2, <1>3, <1>7 DEF DrainInv, l
  <2>1. Taken >= csma \/ Taken - Len(k) + Budget >= csma
    BY <1>1 DEF DrainInv, k
  <2> QED BY <1>4, <1>10, <2>1
<1>12. WholeInv'
  <2> SUFFICES ASSUME ring.dropped = 0
               PROVE  /\ decoder.last # 0 => decoder.from = capture
                      /\ FedTo = Taken' - Len(l)
                      /\ \A t \in 1..Len(aired) :
                            Starts(t) >= capture /\ HeardBy(t, FedTo) => Decoded(t)
    BY <1>1, <1>2, <1>3, <1>7, <1>8 DEF WholeInv, l
  <2>1. /\ decoder.last # 0 => decoder.from = capture
        /\ FedTo = Taken - Len(k)
        /\ \A t \in 1..Len(aired) :
              Starts(t) >= capture /\ HeardBy(t, FedTo) => Decoded(t)
    BY <1>1 DEF WholeInv, k
  <2> QED BY <1>10, <2>1
<1> QED BY <1>9, <1>11, <1>12

\* A step that leaves the capture, the decoder and the line alone and is not
\* part of a transmission.
LEMMA WholeFrame ==
    ASSUME ReceiveInv,
           UNCHANGED <<now, aired, ring, decoder, published, capture>>,
           worker'.chunk = worker.chunk, worker'.fresh = worker.fresh,
           \/ worker'.pc = "failed"
           \/ worker.pc \notin {"sending", "verify", "failed"} /\ worker'.pc # "verify"
    PROVE  WholeInv' /\ FedTo' = FedTo /\ Taken' = Taken
<1> USE DEF ReceiveInv
<1>1. FedTo' = FedTo /\ Taken' = Taken
  BY DEF FedTo, Taken
<1>2. \A t : /\ Decoded(t)' <=> Decoded(t)
             /\ Starts(t)' = Starts(t)
             /\ HeardBy(t, FedTo)' <=> HeardBy(t, FedTo)
  BY <1>1 DEF Decoded, Knows, Starts, HeardBy, EndOf
<1>3. WholeInv'
  BY <1>1, <1>2 DEF WholeInv
<1> QED BY <1>1, <1>3

\* The reply of a read: full, or the ring was empty.
LEMMA ConsumeTimely ==
    ASSUME ReceiveInv, Consume
    PROVE  WholeInv' /\ DrainTypes' /\ DrainInv'
<1> USE DEF ReceiveInv
<1> DEFINE n == Len(worker.chunk)
<1>1. /\ UNCHANGED <<now, aired, ring, decoder, published, csma, capture, stop>>
      /\ worker.pc = "reading" /\ WorkerShape /\ ring \in Rings
      /\ n = ReadMaximum \/ ring.tail = ring.head
  BY DEF Consume, airVars, modemVars, RestOfWork, PathInv, PathTypes
<1>2. /\ worker'.chunk = worker.chunk /\ worker'.fresh = worker.fresh
      /\ worker'.pc \in {"publish", "feeding"}
      /\ worker'.reads = worker.reads + 1 /\ worker'.short = (n < ReadMaximum)
  <2> DEFINE s == n < ReadMaximum
             r == worker.reads + 1
             p == IF worker.chunk = <<>> THEN "publish" ELSE "feeding"
  <2>1. worker' = [worker EXCEPT !.pc = p, !.reads = r, !.short = s]
    BY DEF Consume
  <2>2. p \in {"publish", "feeding"}
    OBVIOUS
  <2> HIDE DEF s, r, p
  <2>3. worker' = [pc |-> p, reads |-> r, chunk |-> worker.chunk, short |-> s,
                   fresh |-> worker.fresh, passes |-> worker.passes]
    BY <1>1, <2>1 DEF WorkerShape
  <2> QED BY <2>2, <2>3 DEF s, r
<1>3. WholeInv' /\ FedTo' = FedTo /\ Taken' = Taken
  BY <1>1, <1>2, WholeFrame
<1>4. /\ worker.reads \in 0..DrainLimit /\ worker.reads < DrainLimit
      /\ DrainLimit \in Nat /\ ReadMaximum \in Nat
  BY <1>1, DrainConstants DEF DrainTypes
<1>5. DrainTypes'
  BY <1>1, <1>2, <1>4 DEF DrainTypes
<1>6. Budget' = Budget - ReadMaximum
  BY <1>2, <1>4, BudgetFacts DEF Budget
<1>7. /\ now \in Nat /\ Taken \in Int /\ Budget \in Nat /\ csma \in Int
      /\ csma <= now /\ n \in Nat /\ Taken = now - Len(Contents(ring))
  BY Numbers
<1>8. DrainInv'
  <2> SUFFICES ASSUME csma # None, ring.dropped = 0, ~stop
               PROVE  \/ Taken >= csma
                      \/ ~worker'.short /\ Taken + Budget' >= csma
    BY <1>1, <1>2, <1>3 DEF DrainInv
  <2>1. Taken >= csma \/ Taken - n + Budget >= csma
    BY <1>1 DEF DrainInv
  <2>2. CASE n = ReadMaximum
    <3>1. ~worker'.short
      <4>1. ~(n < ReadMaximum)
        BY <1>4, <2>2
      <4> QED BY <1>2, <4>1, Zenon
    <3>2. Taken >= csma \/ Taken + Budget' >= csma
      <4> HIDE DEF n
      <4> QED BY <1>4, <1>6, <1>7, <2>1, <2>2
    <3> QED BY <3>1, <3>2
  <2>3. CASE ring.tail = ring.head
    <3>1. Len(Contents(ring)) = 0
      BY <1>1, <2>3, FullRing, ContentsShape
    <3> QED BY <1>7, <3>1
  <2> QED BY <1>1, <2>2, <2>3
<1> QED BY <1>3, <1>5, <1>8

\* Feeding a byte: the decoder has what the byte completes.
LEMMA FeedTimely ==
    ASSUME ReceiveInv, Feed
    PROVE  WholeInv' /\ DrainTypes' /\ DrainInv'
<1> USE DEF ReceiveInv
<1> DEFINE b == Head(worker.chunk)
           k == worker.chunk
           l == worker'.chunk
<1>1. /\ UNCHANGED <<now, aired, ring, published, csma, capture, stop>>
      /\ worker.pc = "feeding" /\ k # <<>>
      /\ decoder' = FeedByte(decoder, b) /\ l = Tail(k)
      /\ worker'.pc \in {"publish", "feeding"}
      /\ worker'.reads = worker.reads /\ worker'.short = worker.short
  BY FedWorker
<1>2. /\ k \in Seq(Nat) /\ now \in Nat /\ Taken \in Int /\ FedTo \in Int
      /\ csma \in Int /\ Budget \in Nat
  BY Numbers
<1>3. /\ b \in Nat /\ b = k[1] /\ Len(k) \in Nat \ {0} /\ Len(l) = Len(k) - 1
  BY <1>1, <1>2, EmptySeq, HeadTailProperties
<1>4. Taken' = Taken /\ Budget' = Budget
  BY <1>1 DEF Taken, Budget
<1>5. DrainTypes'
  BY <1>1 DEF DrainTypes
<1>6. DrainInv'
  BY <1>1, <1>4 DEF DrainInv
<1>7. /\ decoder'.from = RunFrom(b) /\ decoder'.last = b
      /\ \A item \in Completed(RunFrom(b), b) : Knows(decoder'.seen, item.of)
  BY <1>1, <1>3, FeedsByte DEF OrderInv
<1>8. OrderInv' /\ \A t : Decoded(t) => Decoded(t)'
  BY FeedOrder
<1>9. capture \in Nat /\ capture >= 1 /\ decoder.last \in Nat
  BY <1>2 DEF DrainTypes, PathInv, PathTypes
<1>10. ASSUME ring.dropped = 0
       PROVE  /\ b = Taken - Len(l) /\ b = FedTo + 1 /\ b # 0
              /\ RunFrom(b) = capture
              /\ \A t \in 1..Len(aired) :
                    Starts(t) >= capture /\ HeardBy(t, FedTo) => Decoded(t)
  <2>1. /\ FedTo = Taken - Len(k)
        /\ decoder.last # 0 => decoder.from = capture
        /\ \A t \in 1..Len(aired) :
              Starts(t) >= capture /\ HeardBy(t, FedTo) => Decoded(t)
    BY <1>1, <1>10 DEF WholeInv
  <2>2. b = Taken - Len(k) + 1
    <3>1. Run(k, Taken)
      BY <1>1, <1>10 DEF PathInv, StreamInv, Taken
    <3> QED BY <1>1, <1>2, <3>1, RunShrinks
  <2> HIDE DEF b, k, l
  <2>3. b = Taken - Len(l) /\ b = FedTo + 1
    BY <1>2, <1>3, <2>1, <2>2
  <2>4. CASE decoder.last = 0
    <3>1. FedTo = capture - 1
      BY <2>4 DEF FedTo
    <3>2. b = capture /\ RunFrom(b) = b
      BY <1>9, <2>3, <2>4, <3>1 DEF RunFrom
    <3> QED BY <1>9, <2>1, <2>3, <3>2
  <2>5. CASE decoder.last # 0
    <3>1. FedTo = decoder.last /\ b - 1 = decoder.last
      BY <1>9, <2>3, <2>5 DEF FedTo
    <3>2. RunFrom(b) = decoder.from
      BY <2>5, <3>1 DEF RunFrom, Follows
    <3>3. b # 0
      BY <1>9, <2>3, <3>1
    <3> QED BY <2>1, <2>3, <2>5, <3>2, <3>3
  <2> QED BY <2>4, <2>5
<1> HIDE DEF b, k, l
<1>11. ASSUME ring.dropped = 0, NEW t \in 1..Len(aired),
              Starts(t) >= capture, HeardBy(t, b)
       PROVE  Decoded(t)'
  <2> DEFINE m == Min(aired[t].heard)
             e == EndOf(t)
  <2>1. /\ e \in Nat /\ m \in aired[t].heard /\ m \in Nat
    <3>1. /\ e \in Nat /\ m \in aired[t].heard
          /\ aired[t].heard \subseteq 0..Latest /\ Latest \in Nat
      BY AirFacts DEF OrderInv
    <3> QED BY <3>1
  <2>2. e + m <= b
    BY <1>11 DEF HeardBy
  <2>3. CASE e + m <= FedTo
    <3>1. HeardBy(t, FedTo)
      BY <2>3 DEF HeardBy
    <3> QED BY <1>8, <1>10, <1>11, <3>1
  <2>4. CASE ~(e + m <= FedTo)
    <3>1. b - e = m
      <4> HIDE DEF m, e
      <4> QED BY <1>2, <1>3, <1>10, <1>11, <2>1, <2>2, <2>4
    <3> DEFINE item == [start |-> Starts(t) + (b - EndOf(t)), of |-> t]
    <3>2. RunFrom(b) <= aired[t].start /\ b - EndOf(t) \in aired[t].heard
      BY <1>10, <1>11, <2>1, <3>1 DEF Starts
    <3>3. item \in Completed(RunFrom(b), b)
      BY <3>2, Zenon DEF Completed, Starts
    <3>4. item.of = t
      OBVIOUS
    <3>5. Knows(decoder'.seen, t)
      BY <1>7, <3>3, <3>4
    <3> HIDE DEF item
    <3> QED BY <1>8, <3>5 DEF OrderInv, SeenInv, Knows
  <2> QED BY <2>3, <2>4
<1>12. WholeInv'
  <2> SUFFICES ASSUME ring.dropped = 0
               PROVE  /\ decoder'.last # 0 => decoder'.from = capture
                      /\ FedTo' = Taken - Len(l)
                      /\ \A t \in 1..Len(aired) :
                            Starts(t)' >= capture /\ HeardBy(t, FedTo)' => Decoded(t)'
    BY <1>1, <1>4 DEF WholeInv, l
  <2>1. FedTo' = b /\ decoder'.from = capture
    BY <1>7, <1>10 DEF FedTo
  <2>2. \A t : /\ Starts(t)' = Starts(t)
               /\ HeardBy(t, FedTo)' <=> HeardBy(t, b)
    BY <1>1, <2>1 DEF Starts, HeardBy, EndOf
  <2> QED BY <1>10, <1>11, <2>1, <2>2
<1> QED BY <1>5, <1>6, <1>12

\* Publishing.
LEMMA PublishTimely ==
    ASSUME ReceiveInv, Publish
    PROVE  WholeInv' /\ DrainTypes' /\ DrainInv'
<1> USE DEF ReceiveInv
<1>1. /\ UNCHANGED <<now, aired, ring, decoder, csma, capture, stop>>
      /\ worker.pc = "publish"
  BY DEF Publish, airVars, modemVars
<1>2. /\ worker'.pc = "publish" /\ worker'.chunk = worker.chunk
      /\ worker'.reads = worker.reads /\ worker'.short = worker.short
      /\ \A t : Decoded(t)' <=> Decoded(t)
  BY PublishOrder
<1>3. FedTo' = FedTo /\ Taken' = Taken /\ Budget' = Budget
  BY <1>1, <1>2 DEF FedTo, Taken, Budget
<1>4. \A t : /\ Starts(t)' = Starts(t)
             /\ HeardBy(t, FedTo)' <=> HeardBy(t, FedTo)
  BY <1>1, <1>3 DEF Starts, HeardBy, EndOf
<1>5. WholeInv'
  BY <1>1, <1>2, <1>3, <1>4 DEF WholeInv
<1>6. DrainTypes'
  BY <1>1, <1>2 DEF DrainTypes
<1>7. DrainInv'
  BY <1>1, <1>2, <1>3 DEF DrainInv
<1> QED BY <1>5, <1>6, <1>7

\* A pass begins: its drain can empty a full ring.
LEMMA LoopTimely ==
    ASSUME ReceiveInv, LoopTurns
    PROVE  WholeInv' /\ DrainTypes' /\ DrainInv'
<1> USE DEF ReceiveInv
<1>1. /\ UNCHANGED <<now, aired, ring, decoder, published, csma, capture, stop>>
      /\ worker.pc = "loop" /\ WorkerShape
  BY DEF LoopTurns, airVars, modemVars, RestOfWork, PathInv, PathTypes
<1>2. worker.reads = 0 /\ ~worker.short /\ worker.chunk = <<>>
  BY <1>1 DEF DrainTypes, PathInv, PlaceInv
<1>3. CASE stop
  <2>1. /\ worker'.pc = "stopped" /\ worker'.chunk = worker.chunk
        /\ worker'.fresh = worker.fresh /\ worker'.reads = worker.reads
        /\ worker'.short = worker.short
    BY <1>1, <1>3 DEF LoopTurns, Goes, WorkerShape
  <2>2. WholeInv'
    BY <1>1, <2>1, WholeFrame
  <2>3. DrainTypes' /\ DrainInv'
    BY <1>1, <1>2, <1>3, <2>1 DEF DrainTypes, DrainInv
  <2> QED BY <2>2, <2>3
<1>4. CASE ~stop
  <2> DEFINE p == IF worker.passes < StatusEvery THEN worker.passes + 1
                  ELSE worker.passes
             w == [worker EXCEPT !.passes = p]
  <2>1. worker' = DrainStep(w)
    BY <1>4 DEF LoopTurns
  <2> HIDE DEF p
  <2>2. w = [pc |-> worker.pc, reads |-> worker.reads, chunk |-> worker.chunk,
             short |-> worker.short, fresh |-> worker.fresh, passes |-> p]
    BY <1>1 DEF WorkerShape
  <2> HIDE DEF w
  <2>3. /\ w = [pc |-> w.pc, reads |-> w.reads, chunk |-> w.chunk,
                short |-> w.short, fresh |-> w.fresh, passes |-> w.passes]
        /\ w.chunk = worker.chunk /\ w.fresh = worker.fresh
        /\ w.reads = worker.reads /\ w.short = worker.short
    BY <2>2
  <2>4. DrainGoesOn(w)
    BY <1>2, <1>4, <2>3, DrainConstants DEF DrainGoesOn
  <2>5. /\ worker'.pc = "reading" /\ worker'.reads = 0
        /\ worker'.chunk = worker.chunk /\ worker'.fresh = worker.fresh
    BY <1>2, <2>1, <2>3, <2>4, DrainFields
  <2>6. WholeInv' /\ Taken' = Taken
    BY <1>1, <2>5, WholeFrame
  <2>7. DrainTypes'
    BY <1>1, <2>5, DrainConstants DEF DrainTypes
  <2>8. Budget' \in Nat /\ Budget' >= BufferSize - 1
    BY <2>5, BudgetFacts, DrainConstants DEF Budget
  <2>9. Taken - Len(worker.chunk) + Budget' >= csma
    <3>1. Len(worker.chunk) = 0
      BY <1>2
    <3>2. /\ now \in Nat /\ Len(Contents(ring)) \in 0..BufferSize - 1
          /\ BufferSize \in Nat /\ Taken = now - Len(Contents(ring))
          /\ csma \in Int /\ csma <= now
      BY Numbers
    <3> DEFINE n == Len(Contents(ring))
    <3>3. n \in 0..BufferSize - 1 /\ Taken = now - n
      BY <3>2
    <3> HIDE DEF n
    <3> QED BY <2>8, <3>1, <3>2, <3>3
  <2>10. DrainInv'
    BY <1>1, <2>5, <2>6, <2>9 DEF DrainInv
  <2> QED BY <2>6, <2>7, <2>10
<1> QED BY <1>3, <1>4

\* The drain goes on or ends: short, or with its last read.
LEMMA PublishEndsTimely ==
    ASSUME ReceiveInv, PublishEnds
    PROVE  WholeInv' /\ DrainTypes' /\ DrainInv'
<1> USE DEF ReceiveInv
<1>1. /\ UNCHANGED <<now, aired, ring, decoder, published, csma, capture, stop>>
      /\ worker.pc = "publish" /\ worker' = DrainStep(worker)
      /\ worker = [pc |-> worker.pc, reads |-> worker.reads,
                   chunk |-> worker.chunk, short |-> worker.short,
                   fresh |-> worker.fresh, passes |-> worker.passes]
  BY DEF PublishEnds, airVars, modemVars, RestOfWork, PathInv, PathTypes,
         WorkerShape
<1>2. /\ worker'.chunk = worker.chunk /\ worker'.fresh = worker.fresh
      /\ DrainGoesOn(worker) =>
            worker'.pc = "reading" /\ worker'.reads = worker.reads
      /\ ~DrainGoesOn(worker) =>
            worker'.pc = "drained" /\ worker'.reads = 0 /\ ~worker'.short
  BY <1>1, DrainFields
<1>3. /\ DrainGoesOn(worker) <=>
            worker.reads < DrainLimit /\ ~stop /\ ~worker.short
      /\ worker.chunk = <<>> /\ worker.reads \in 0..DrainLimit
      /\ DrainLimit \in Nat \ {0}
  BY <1>1, DrainConstants DEF DrainGoesOn, PathInv, PlaceInv, DrainTypes
<1>4. worker'.pc \in {"reading", "drained"}
  BY <1>2
<1>5. WholeInv' /\ Taken' = Taken
  BY <1>1, <1>2, <1>4, WholeFrame
<1>6. Taken \in Int /\ csma \in Int /\ Budget \in Nat /\ Len(worker.chunk) = 0
  BY <1>3, Numbers
<1>7. CASE DrainGoesOn(worker)
  <2>1. worker'.pc = "reading" /\ worker'.reads = worker.reads
    BY <1>2, <1>7
  <2>2. Budget' = Budget
    BY <2>1 DEF Budget
  <2>3. DrainTypes'
    BY <1>1, <1>3, <1>7, <2>1 DEF DrainTypes
  <2>4. ASSUME csma # None, ring.dropped = 0, ~stop
        PROVE  Taken >= csma \/ Taken - Len(worker.chunk) + Budget >= csma
    <3>1. Taken >= csma \/ Taken + Budget >= csma
      BY <1>1, <2>4 DEF DrainInv
    <3> QED BY <1>6, <3>1
  <2>5. DrainInv'
    BY <1>1, <1>2, <1>5, <2>1, <2>2, <2>4 DEF DrainInv
  <2> QED BY <1>5, <2>3, <2>5
<1>8. CASE ~DrainGoesOn(worker)
  <2>1. worker'.pc = "drained" /\ worker'.reads = 0 /\ ~worker'.short
    BY <1>2, <1>8
  <2>2. DrainTypes'
    BY <1>1, <1>3, <2>1 DEF DrainTypes
  <2>3. ASSUME csma # None, ring.dropped = 0, ~stop
        PROVE  Taken >= csma
    <3>1. Taken >= csma \/ (~worker.short /\ Taken + Budget >= csma)
      BY <1>1, <2>3 DEF DrainInv
    <3>2. CASE worker.short
      BY <3>1, <3>2
    <3>3. CASE ~worker.short
      <4>1. ~(worker.reads < DrainLimit)
        BY <1>3, <1>8, <2>3, <3>3
      <4>2. worker.reads = DrainLimit
        BY <1>3, <4>1
      <4>3. Budget = 0
        BY <1>3, <4>2, BudgetFacts DEF Budget
      <4> QED BY <1>6, <3>1, <4>3
    <3> QED BY <3>2, <3>3
  <2>4. DrainInv'
    BY <1>1, <1>5, <2>1, <2>3 DEF DrainInv
  <2> QED BY <1>5, <2>2, <2>4
<1> QED BY <1>7, <1>8

\* After the drain: status, the channel, the start of a transmission.
LEMMA ObserveTimely ==
    ASSUME ReceiveInv,
           \/ Drained \/ CheckStatus \/ NothingQueued \/ Observe \/ WorkerFails
           \/ CycleBegins
    PROVE  WholeInv' /\ DrainTypes' /\ DrainInv'
<1> USE DEF ReceiveInv
<1>1. /\ UNCHANGED <<now, aired, ring, decoder, published, capture, stop>>
      /\ WorkerShape
  BY DEF Drained, CheckStatus, NothingQueued, Observe, WorkerFails, CycleBegins,
         CycleGoes, airVars, modemVars, RestOfWork, PathInv, PathTypes
<1> DEFINE Kept == /\ worker'.chunk = worker.chunk /\ worker'.fresh = worker.fresh
                   /\ worker'.reads = worker.reads /\ worker'.short = worker.short
<1>2. \A pc : Goes(pc) => worker'.pc = pc /\ Kept
  BY <1>1 DEF Goes, WorkerShape
<1>3. now \in Nat /\ csma \in -1..now
  BY Numbers DEF DrainTypes
<1>4. ASSUME Kept, worker'.pc = "failed", csma' = csma
      PROVE  WholeInv' /\ DrainTypes' /\ DrainInv'
  <2>1. WholeInv'
    BY <1>1, <1>4, WholeFrame
  <2>2. DrainTypes' /\ DrainInv'
    BY <1>1, <1>4 DEF DrainTypes, DrainInv
  <2> QED BY <2>1, <2>2
<1>5. ASSUME Kept, csma' \in {None, now, csma},
             worker.pc \in {"drained", "status", "observe", "before"},
             worker'.pc \in {"status", "observe", "loop", "before", "stopping"},
             worker'.pc # "loop" => csma' = csma,
             worker'.pc \in {"before", "stopping"} =>
                worker.pc \in {"observe", "before"},
             worker'.pc \in {"status", "observe"} =>
                worker.pc \in {"drained", "status"}
      PROVE  WholeInv' /\ DrainTypes' /\ DrainInv'
  <2>1. WholeInv' /\ FedTo' = FedTo /\ Taken' = Taken
    BY <1>1, <1>5, WholeFrame
  <2>2. DrainTypes'
    <3>1. csma' \in -1..now
      BY <1>3, <1>5 DEF None
    <3> QED BY <1>1, <1>5, <3>1 DEF DrainTypes
  <2>3. ASSUME csma # None, ring.dropped = 0, ~stop
        PROVE  /\ worker.pc # "before" => Taken >= csma
               /\ worker.pc \in {"observe", "before"} => FedTo >= csma
    <3>1. worker.pc # "before" => Taken >= csma
      BY <1>5, <2>3 DEF DrainInv
    <3>2. CASE worker.pc = "before"
      BY <2>3, <3>2 DEF DrainInv
    <3>3. CASE worker.pc = "observe"
      <4>1. worker.chunk = <<>> /\ FedTo = Taken - Len(worker.chunk)
        BY <2>3, <3>3 DEF PathInv, PlaceInv, WholeInv
      <4>2. Len(worker.chunk) = 0 /\ Taken \in Int
        BY <4>1, Numbers
      <4>3. FedTo = Taken
        BY <4>1, <4>2
      <4> QED BY <3>1, <3>3, <4>3
    <3> QED BY <3>1, <3>2, <3>3
  <2>4. DrainInv'
    BY <1>1, <1>5, <2>1, <2>3 DEF DrainInv
  <2> QED BY <2>1, <2>2, <2>4
<1>6. CASE Drained
  <2>1. worker.pc = "drained" /\ csma' = csma
    BY <1>6 DEF Drained, RestOfWork
  <2>2. Goes("status") \/ Goes("observe")
    BY <1>6 DEF Drained
  <2>3. Kept /\ worker'.pc \in {"status", "observe"}
    BY <1>2, <2>2
  <2> HIDE DEF Kept
  <2> QED BY <1>5, <2>1, <2>3
<1>7. CASE CheckStatus
  <2>1. worker.pc = "status" /\ csma' = csma
    BY <1>7 DEF CheckStatus, RestOfWork
  <2>2. PICK pc \in {"observe", "failed"} :
          worker' = [worker EXCEPT !.pc = pc, !.passes = 0]
    <3>1. CASE ActiveStatus
      BY <1>7, <3>1, Zenon DEF CheckStatus
    <3>2. CASE ~ActiveStatus
      BY <1>7, <3>2, Zenon DEF CheckStatus
    <3> QED BY <3>1, <3>2
  <2>3. Kept /\ worker'.pc = pc
    BY <1>1, <2>2 DEF WorkerShape
  <2> HIDE DEF Kept
  <2> QED BY <1>4, <1>5, <2>1, <2>3
<1>8. CASE NothingQueued
  <2>1. worker.pc = "observe" /\ csma' = None /\ Goes("loop")
    BY <1>8 DEF NothingQueued
  <2>2. Kept /\ worker'.pc = "loop"
    BY <1>2, <2>1
  <2> HIDE DEF Kept
  <2> QED BY <1>5, <2>1, <2>2
<1>9. CASE Observe
  <2>1. /\ worker.pc = "observe" /\ csma' \in {None, now, csma}
        /\ \/ Goes("loop")
           \/ Goes("before") /\ csma' = csma
    BY <1>9 DEF Observe
  <2>2. Kept /\ (worker'.pc = "loop" \/ (worker'.pc = "before" /\ csma' = csma))
    BY <1>2, <2>1
  <2> HIDE DEF Kept
  <2> QED BY <1>5, <2>1, <2>2
<1>10. CASE WorkerFails
  <2>1. Goes("failed") /\ csma' = csma
    BY <1>10 DEF WorkerFails, RestOfWork
  <2>2. Kept /\ worker'.pc = "failed"
    BY <1>2, <2>1
  <2> HIDE DEF Kept
  <2> QED BY <1>4, <2>1, <2>2
<1>11. CASE CycleBegins
  <2>1. worker.pc = "before" /\ csma' = csma /\ (Goes("stopping") \/ Goes("failed"))
    BY <1>11 DEF CycleBegins, CycleGoes
  <2>2. Kept /\ worker'.pc \in {"stopping", "failed"}
    BY <1>2, <2>1
  <2> HIDE DEF Kept
  <2> QED BY <1>4, <1>5, <2>1, <2>2
<1> QED BY <1>6, <1>7, <1>8, <1>9, <1>10, <1>11

\* The transmission itself: what was decoded stays so, and a new capture
\* begins with nothing fed.
LEMMA CycleTimely ==
    ASSUME ReceiveInv, CycleStopsRx \/ CycleRestartsRx \/ CycleVerifies
    PROVE  WholeInv' /\ DrainTypes' /\ DrainInv'
<1> USE DEF ReceiveInv
<1>1. /\ UNCHANGED <<now, aired, published, stop>> /\ WorkerShape /\ ring \in Rings
      /\ now \in Nat /\ csma \in -1..now /\ capture \in 1..now + 1
  BY Numbers DEF CycleStopsRx, CycleRestartsRx, CycleVerifies, CycleGoes, airVars,
                 PathInv, PathTypes, DrainTypes
<1>2. /\ worker'.chunk = worker.chunk /\ worker'.fresh = worker.fresh
      /\ worker'.reads = worker.reads /\ worker'.short = worker.short
  BY <1>1, VerifyShape DEF CycleStopsRx, CycleRestartsRx, CycleGoes, Goes,
                           WorkerShape
<1>3. \A t : Decoded(t)' <=> Decoded(t)
  BY <1>1, <1>2 DEF Decoded, Knows
<1>4. CASE CycleStopsRx
  <2>1. /\ worker.pc = "stopping" /\ worker'.pc \in {"sending", "failed"}
        /\ UNCHANGED <<decoder, csma, capture>> /\ ring' = StopCapture(ring)
    BY <1>1, <1>4, CycleShape DEF CycleStopsRx
  <2>2. ring'.dropped = ring.dropped
    BY <1>1, <2>1, RingRestarts
  <2>3. FedTo' = FedTo
    BY <2>1 DEF FedTo
  <2>4. \A t : /\ Starts(t)' = Starts(t)
               /\ HeardBy(t, FedTo)' <=> HeardBy(t, FedTo)
    BY <1>1, <2>3 DEF Starts, HeardBy, EndOf
  <2>5. WholeInv'
    BY <1>1, <1>3, <2>1, <2>2, <2>3, <2>4 DEF WholeInv
  <2>6. DrainTypes'
    BY <1>1, <1>2, <2>1 DEF DrainTypes
  <2>7. DrainInv'
    BY <1>1, <2>1, <2>2, <2>3 DEF DrainInv
  <2> QED BY <2>5, <2>6, <2>7
<1>5. CASE CycleRestartsRx
  <2>1. /\ worker.pc = "sending" /\ worker'.pc \in {"verify", "failed"}
        /\ csma' = csma /\ capture' = now + 1 /\ ring' = StartCapture(ring)
    BY <1>1, <1>5, CycleShape DEF CycleRestartsRx
  <2>2. Contents(ring') = <<>>
    BY <1>1, <2>1, RingRestarts
  <2>3. Taken' = now
    BY <1>1, <2>2 DEF Taken
  <2>4. Taken' = capture' - 1
    BY <1>1, <2>1, <2>3
  <2>5. WholeInv'
    BY <2>1, <2>4 DEF WholeInv
  <2>6. DrainTypes'
    BY <1>1, <1>2, <2>1 DEF DrainTypes
  <2>7. DrainInv'
    BY <2>1 DEF DrainInv
  <2> QED BY <2>5, <2>6, <2>7
<1>6. CASE CycleVerifies
  <2>1. /\ worker.pc = "verify" /\ worker'.pc \in {"loop", "failed"}
        /\ csma' = None /\ capture' = capture /\ ring' = ring
        /\ decoder' = NewDecoder
    BY <1>1, <1>6, VerifyShape DEF CycleVerifies, RenewedDecoder, modemVars
  <2>2. decoder'.last = 0
    BY <2>1 DEF NewDecoder
  <2>3. FedTo' = capture - 1 /\ Taken' = Taken
    BY <1>1, <2>1, <2>2 DEF FedTo, Taken
  <2>4. worker.chunk = <<>> /\ Len(worker.chunk) = 0 /\ Taken \in Int
    BY <2>1, Numbers DEF PathInv, PlaceInv
  <2>5. ring.dropped = 0 => Taken = capture - 1
    BY <2>1 DEF WholeInv
  <2>6. ASSUME NEW t \in 1..Len(aired), Starts(t)' >= capture, HeardBy(t, FedTo)'
        PROVE  FALSE
    <3> DEFINE m == Min(aired[t].heard)
    <3>1. /\ Starts(t) \in Nat /\ EndOf(t) = Starts(t) + FrameBytes - 1
          /\ FrameBytes \in Nat \ {0} /\ m \in Nat
      <4>1. /\ Starts(t) \in Nat /\ EndOf(t) = Starts(t) + FrameBytes - 1
            /\ FrameBytes \in Nat \ {0} /\ m \in aired[t].heard
            /\ aired[t].heard \subseteq 0..Latest /\ Latest \in Nat
        BY AirFacts DEF OrderInv
      <4> QED BY <4>1
    <3>2. Starts(t) >= capture /\ EndOf(t) + m <= capture - 1
      BY <1>1, <2>3, <2>6 DEF Starts, HeardBy, EndOf
    <3> HIDE DEF m
    <3> QED BY <1>1, <3>1, <3>2
  <2>7. WholeInv'
    <3>1. ring.dropped = 0 => FedTo' = Taken' - Len(worker'.chunk)
      BY <1>1, <1>2, <2>3, <2>4, <2>5
    <3> QED BY <1>1, <2>1, <2>2, <2>6, <3>1 DEF WholeInv
  <2>8. DrainTypes'
    BY <1>1, <1>2, <2>1 DEF DrainTypes, None
  <2>9. DrainInv'
    BY <2>1 DEF DrainInv
  <2> QED BY <2>7, <2>8, <2>9
<1> QED BY <1>4, <1>5, <1>6

\* The whole invariant holds at the start,
LEMMA ReceiveInit == Init => ReceiveInv
<1> SUFFICES ASSUME Init PROVE ReceiveInv
  OBVIOUS
<1>1. PathInv /\ OrderInv
  BY PathInit, OrderInit
<1>2. /\ now = 0 /\ aired = <<>> /\ csma = None /\ capture = 1
      /\ decoder.last = 0 /\ worker.pc = "loop" /\ worker.chunk = <<>>
      /\ worker.reads = 0 /\ worker.short = FALSE
  BY DEF Init, NewDecoder
<1>3. Contents(ring) = <<>>
  <2>1. ring \in Rings
    BY <1>1 DEF PathInv, PathTypes
  <2>2. Available(ring) = 0
    BY DEF Available, Init
  <2> QED BY <2>1, <2>2, ContentsShape, EmptySeq
<1>4. Taken = 0 /\ FedTo = 0
  <2>1. Len(Contents(ring)) = 0
    BY <1>3
  <2>2. Taken = 0 - 0
    BY <1>2, <2>1, Zenon DEF Taken
  <2>3. FedTo = 1 - 1
    BY <1>2, Zenon DEF FedTo
  <2> QED BY <2>2, <2>3
<1>5. WholeInv
  <2>1. Len(worker.chunk) = 0 /\ 1..Len(aired) = {}
    BY <1>2
  <2>2. FedTo = Taken - Len(worker.chunk)
    BY <1>4, <2>1
  <2> QED BY <1>2, <2>1, <2>2 DEF WholeInv
<1>6. DrainTypes
  BY <1>2, DrainConstants DEF DrainTypes, None
<1>7. DrainInv
  BY <1>2 DEF DrainInv
<1> QED BY <1>1, <1>5, <1>6, <1>7 DEF ReceiveInv

\* and every step keeps it.
LEMMA ReceiveNext == ReceiveInv /\ [Next]_vars => ReceiveInv'
<1> SUFFICES ASSUME ReceiveInv, [Next]_vars PROVE ReceiveInv'
  OBVIOUS
<1>1. PathInv' /\ OrderInv'
  BY PathNext, OrderNext DEF ReceiveInv
<1>2. ASSUME UNCHANGED <<now, aired, ring, worker, decoder, csma, published, capture>>,
             (stop' = stop) \/ stop'
      PROVE  WholeInv' /\ DrainTypes' /\ DrainInv'
  <2>1. FedTo' = FedTo /\ Taken' = Taken /\ Budget' = Budget
    BY <1>2 DEF FedTo, Taken, Budget
  <2>2. \A t : /\ Decoded(t)' <=> Decoded(t)
               /\ Starts(t)' = Starts(t)
               /\ HeardBy(t, FedTo)' <=> HeardBy(t, FedTo)
    BY <1>2, <2>1 DEF Decoded, Starts, HeardBy, EndOf
  <2>3. WholeInv'
    BY <1>2, <2>1, <2>2 DEF WholeInv, ReceiveInv
  <2>4. DrainTypes' /\ DrainInv'
    BY <1>2, <2>1 DEF DrainTypes, DrainInv, ReceiveInv
  <2> QED BY <2>3, <2>4
<1>3. CASE UNCHANGED vars
  BY <1>1, <1>2, <1>3 DEF vars, airVars, modemVars, workVars, ReceiveInv
<1>4. CASE StopAsked
  BY <1>1, <1>2, <1>4 DEF StopAsked, airVars, modemVars, workVars, ReceiveInv
<1>5. CASE AirByte \/ WorkerSteps \/ WorkerFails
  <2>1. WholeInv' /\ DrainTypes' /\ DrainInv'
    BY <1>5, AirTimely, ReadTimely, ConsumeTimely, FeedTimely, PublishTimely,
       LoopTimely, PublishEndsTimely, ObserveTimely, CycleTimely DEF WorkerSteps
  <2> QED BY <1>1, <2>1 DEF ReceiveInv
<1> QED BY <1>3, <1>4, <1>5 DEF Next

-----------------------------------------------------------------------------
(***************************************************************************)
(* The theorems about what the clients get                                 *)
(***************************************************************************)

\* The whole invariant of the receive path holds throughout: order of bytes
\* and frames, completeness of the capture, and the progress of a drain.
THEOREM ReceiveInvariant == Spec => []ReceiveInv
BY ReceiveInit, ReceiveNext, PTL DEF Spec

\* Whatever the noise lets the hypotheses hear, whatever is dropped and however
\* often the program transmits, _accept_frame and _publish hand each
\* transmission to the backend at most once, and in the order of the air.
THEOREM AlwaysPublishedOnce == Spec => []PublishedOnce
<1>1. ReceiveInv => PublishedOnce
  BY DEF ReceiveInv, OrderInv, LineInv, Rising, PublishedOnce
<1> QED BY <1>1, ReceiveInvariant, PTL

\* With no drop and no stop, a transmit cycle begins only once every frame of
\* the capture that was complete at the quiet that allows it is published:
\* _drain_rx_fifo's bounded reads always get beyond that moment.
THEOREM AlwaysHeardBeforeTransmit == Spec => []HeardBeforeTransmit
<1>1. ReceiveInv => HeardBeforeTransmit
  <2> SUFFICES ASSUME ReceiveInv,
                      worker.pc \in {"before", "stopping", "sending"},
                      ring.dropped = 0, ~stop,
                      NEW t \in 1..Len(aired), aired[t].start >= capture,
                      HeardBy(t, csma)
               PROVE  t \in Range(published)
    BY DEF HeardBeforeTransmit
  <2> USE DEF ReceiveInv
  <2> DEFINE m == Min(aired[t].heard)
  <2>1. EndOf(t) \in Nat /\ m \in Nat
    <3>1. /\ EndOf(t) \in Nat /\ m \in aired[t].heard
          /\ aired[t].heard \subseteq 0..Latest /\ Latest \in Nat
      BY AirFacts DEF OrderInv
    <3> QED BY <3>1
  <2>2. EndOf(t) + m <= csma
    BY DEF HeardBy
  <2>3. csma \in Int /\ FedTo \in Int
    BY Numbers
  <2>4. csma # None
    <3> HIDE DEF m
    <3> QED BY <2>1, <2>2 DEF None
  <2>5. FedTo >= csma
    BY <2>4 DEF DrainInv
  <2>6. EndOf(t) + m <= FedTo
    <3> HIDE DEF m
    <3> QED BY <2>1, <2>2, <2>3, <2>5
  <2>7. Decoded(t)
    BY <2>6 DEF WholeInv, HeardBy, Starts
  <2>8. worker.fresh = <<>>
    BY DEF OrderInv, LineInv
  <2>9. \E i \in 1..Len(published) : published[i] = t
    BY <2>7, <2>8 DEF Decoded, Knows
  <2>10. DOMAIN published = 1..Len(published)
    BY DEF OrderInv, OrderTypes
  <2> QED BY <2>9, <2>10 DEF Range
<1> QED BY <1>1, ReceiveInvariant, PTL
=============================================================================
