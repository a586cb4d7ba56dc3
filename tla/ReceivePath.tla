----------------------------- MODULE ReceivePath -----------------------------
(***************************************************************************)
(* From the air to the clients: the firmware's capture ring, filled by the *)
(* radio interrupt and emptied by RX_READ; the runtime worker, which       *)
(* drains it, checks the capture, samples the channel and transmits; the   *)
(* streaming decoder, and what it hands to the backend.                    *)
(*                                                                         *)
(* The unit of time is one packed byte of the sampler, which produces      *)
(* bytes in silence too.  A byte is its position on the air.  A            *)
(* transmission covers FrameBytes positions; a hypothesis h of the         *)
(* decoder's bank has it when h more bytes have come, and places its start *)
(* h later.  Which of them get it is up to the noise.  That a frame with a *)
(* byte missing is never decoded is the frame check sequence's doing.      *)
(* All transmissions carry the same bytes, the case in which telling       *)
(* copies from repetitions is hardest.                                     *)
(***************************************************************************)
EXTENDS Integers, Sequences, SequencesExt, FiniteSets, FiniteSetsExt

CONSTANTS
    BufferSize,     \* slots of the ring, one of which stays empty
    ReadMaximum,    \* bytes of one RX_READ
    DropLimit,      \* where the drop counter stays
    DrainLimit,     \* RX_FIFO_DRAIN_READ_LIMIT
    StatusEvery,    \* loop passes within a status interval
    Hold,           \* the channel's clear hold
    FrameBytes,     \* length of a transmission
    Hypotheses,     \* delays of the timing hypotheses
    Clarity,        \* the sets of hypotheses the noise may let succeed
    Tolerance,      \* OCCURRENCE_TOLERANCE_SAMPLES
    MaxTime,        \* bound: bytes the sampler produces
    MaxCycles       \* bound: own transmissions

\* Four reads exceed the FIFO; copies of a frame lie within the tolerance and
\* repetitions outside it.
ASSUME ReceivePathAssumption ==
    /\ {BufferSize, ReadMaximum, DrainLimit, DropLimit, FrameBytes,
        Hold, StatusEvery} \subseteq Nat \ {0}
    /\ Tolerance \in Nat
    /\ Hypotheses \subseteq 0..Tolerance
    /\ Clarity \subseteq (SUBSET Hypotheses) \ {{}}
    /\ Tolerance + Max(Hypotheses) < FrameBytes
    /\ DrainLimit * ReadMaximum >= BufferSize - 1
    /\ BufferSize > 1
    /\ MaxTime \in Nat /\ MaxCycles \in Nat

VARIABLES
    now,        \* bytes so far
    aired,      \* transmissions: [start, heard]
    ring,       \* CAX25AFSKRX
    worker,     \* the runtime worker: its place and its locals
    decoder,    \* StreamingBell202Decoder
    csma,       \* start of the clear candidate, or -1
    stop,       \* the runtime's _stop
    published,  \* the transmissions handed to the backend, in order
    cycles,     \* own transmissions so far
    capture     \* history: the first byte of this capture

airVars == <<now, aired>>
modemVars == <<ring, capture>>
workVars == <<worker, decoder, csma, published, cycles>>
vars == <<airVars, modemVars, workVars, stop>>

-----------------------------------------------------------------------------
None == -1

Rings == [buffer : [0..BufferSize - 1 -> Nat], head : 0..BufferSize - 1,
          tail : 0..BufferSize - 1, active : BOOLEAN, dropped : 0..DropLimit]

\* An occurrence of a frame: where it starts, and the transmission it is of.
Occurrences == [start : Nat, of : Nat]

\* One decoder: the first and the last byte of the run it is in, whether it
\* was fed a byte that did not follow the one before, and _occurrences.
Decoders == [from : Nat, last : Nat, torn : BOOLEAN, seen : Seq(Occurrences)]

NewDecoder == [from |-> 0, last |-> 0, torn |-> FALSE, seen |-> <<>>]

Places == {"loop", "reading", "feeding", "publish", "drained", "status",
           "observe", "before", "stopping", "sending", "verify", "failed",
           "stopped"}

Ended == worker.pc \in {"failed", "stopped"}

Workers == [pc : Places, reads : 0..DrainLimit, chunk : Seq(Nat),
            short : BOOLEAN, fresh : Seq(Occurrences), passes : 0..StatusEvery]

TypeOK ==
    /\ now \in 0..MaxTime
    /\ aired \in Seq([start : Nat, heard : SUBSET Hypotheses])
    /\ ring \in Rings
    /\ worker \in Workers
    /\ decoder \in Decoders
    /\ csma \in -1..MaxTime
    /\ stop \in BOOLEAN
    /\ published \in Seq(Nat)
    /\ cycles \in 0..MaxCycles
    /\ capture \in Nat

\* The engine has started the capture and the runtime has checked it.
Init ==
    /\ now = 0 /\ aired = <<>>
    /\ ring = [buffer |-> [i \in 0..BufferSize - 1 |-> 0], head |-> 0,
               tail |-> 0, active |-> TRUE, dropped |-> 0]
    /\ worker = [pc |-> "loop", reads |-> 0, chunk |-> <<>>, short |-> FALSE,
                 fresh |-> <<>>, passes |-> 0]
    /\ decoder = NewDecoder
    /\ csma = None
    /\ stop = FALSE
    /\ published = <<>>
    /\ cycles = 0
    /\ capture = 1

-----------------------------------------------------------------------------
(***************************************************************************)
(* The capture ring                                                        *)
(***************************************************************************)

NextSlot(i) == IF i + 1 >= BufferSize THEN 0 ELSE i + 1

Available(r) == IF r.head >= r.tail THEN r.head - r.tail
                ELSE BufferSize - r.tail + r.head

\* sample, at the eighth bit of a byte.
SampleByte(r, byte) ==
    IF ~r.active THEN r
    ELSE IF NextSlot(r.head) = r.tail
    THEN [r EXCEPT !.dropped = IF @ < DropLimit THEN @ + 1 ELSE @]
    ELSE [r EXCEPT !.buffer[r.head] = byte, !.head = NextSlot(r.head)]

\* One turn of read's loop: copy a byte, then give its slot back.
ReadByte(r) == [r EXCEPT !.tail = NextSlot(r.tail)]

\* RX_START: reset, then start.
StartCapture(r) ==
    [r EXCEPT !.head = 0, !.tail = 0, !.dropped = 0, !.active = TRUE]

StopCapture(r) == [r EXCEPT !.active = FALSE]

-----------------------------------------------------------------------------
(***************************************************************************)
(* The air                                                                 *)
(***************************************************************************)

EndOf(t) == aired[t].start + FrameBytes - 1

OnAir == aired # <<>> /\ now < EndOf(Len(aired))

\* One byte time: silence, the next byte of a transmission, or the first of a
\* new one.
AirByte ==
    /\ now < MaxTime /\ ~Ended
    /\ now' = now + 1
    /\ \/ UNCHANGED aired
       \/ /\ ~OnAir
          /\ \E heard \in Clarity :
                aired' = Append(aired, [start |-> now + 1, heard |-> heard])
    /\ ring' = SampleByte(ring, now + 1)
    /\ UNCHANGED <<capture, workVars, stop>>

-----------------------------------------------------------------------------
(***************************************************************************)
(* The decoder                                                             *)
(***************************************************************************)

\* The frame, if any, that the bank completes with this byte, in a run of
\* bytes that began at from.
Completed(from, byte) ==
    LET delay(t) == byte - EndOf(t)
    IN  {[start |-> aired[t].start + delay(t), of |-> t] :
           t \in {u \in 1..Len(aired) : /\ from <= aired[u].start
                                        /\ delay(u) \in aired[u].heard}}

Distance(a, b) == IF a > b THEN a - b ELSE b - a

SameOccurrence(a, b) == Distance(a.start, b.start) <= Tolerance

\* Mutant: every hypothesis reports its own copy.
AcceptsCopies(seen, item) == Append(seen, item)

\* _accept_frame: a copy of a known occurrence only moves it to the earlier
\* start.
Accept(seen, item) ==
    LET same == {i \in 1..Len(seen) : SameOccurrence(seen[i], item)} IN
    IF same = {} THEN Append(seen, item)
    ELSE [seen EXCEPT ![Min(same)].start =
             IF item.start < @ THEN item.start ELSE @]

\* Whether a byte goes on with what the decoder was fed before.
Follows(d, byte) == d.last \in {0, byte - 1}

\* _feed_sample, for the eight samples of a byte.  Two transmissions never
\* complete with the same byte: there is one item to accept, or none.
FeedByte(d, byte) ==
    LET from == IF Follows(d, byte) /\ d.last # 0 THEN d.from ELSE byte
        done == Completed(from, byte)
    IN  [from |-> from, last |-> byte,
         torn |-> d.torn \/ ~Follows(d, byte),
         seen |-> IF done = {} THEN d.seen
                  ELSE Accept(d.seen, CHOOSE item \in done : TRUE)]

\* The occurrences that a byte added.
Added(before, after) ==
    SubSeq(after.seen, Len(before.seen) + 1, Len(after.seen))

\* fresh.sort(key=...): rearranged by the starts, of which no two are equal.
SortedByStart(s) ==
    LET order == CHOOSE p \in Bijection(DOMAIN s, DOMAIN s) :
                    \A i, j \in DOMAIN s : i < j => s[p[i]].start <= s[p[j]].start
    IN  [i \in DOMAIN s |-> s[order[i]]]

-----------------------------------------------------------------------------
(***************************************************************************)
(* The worker                                                              *)
(***************************************************************************)

Goes(pc) == worker' = [worker EXCEPT !.pc = pc]

RestOfWork == <<decoder, csma, published, cycles>>

\* Mutant: one read is taken for a drain.
DrainGoesOnOnce(w) == w.reads = 0 /\ ~stop

\* _drain_rx_fifo: another read, unless told to stop, the limit is reached or
\* the last one came back short.
DrainGoesOn(w) == w.reads < DrainLimit /\ ~stop /\ ~w.short

DrainStep(w) ==
    IF DrainGoesOn(w) THEN [w EXCEPT !.pc = "reading"]
    ELSE [w EXCEPT !.pc = "drained", !.reads = 0, !.short = FALSE]

\* while not self._stop.is_set(): the pass begins with a drain.
LoopTurns ==
    /\ worker.pc = "loop"
    /\ IF stop THEN Goes("stopped")
       ELSE worker' = DrainStep([worker EXCEPT
                                    !.passes = IF @ < StatusEvery THEN @ + 1 ELSE @])
    /\ UNCHANGED <<airVars, modemVars, RestOfWork, stop>>

\* Is a status report due?  One is at the latest after StatusEvery passes.
Drained ==
    /\ worker.pc = "drained"
    /\ \/ Goes("status")
       \/ worker.passes < StatusEvery /\ Goes("observe")
    /\ UNCHANGED <<airVars, modemVars, RestOfWork, stop>>

\* The firmware serves RX_READ; the radio interrupt may come between any two
\* bytes.
FirmwareReads ==
    /\ worker.pc = "reading"
    /\ Len(worker.chunk) < ReadMaximum
    /\ ring.tail # ring.head
    /\ worker' = [worker EXCEPT !.chunk = Append(@, ring.buffer[ring.tail])]
    /\ ring' = ReadByte(ring)
    /\ UNCHANGED <<airVars, capture, RestOfWork, stop>>

\* The reply arrives: count the read, and feed what it brought.
Consume ==
    /\ worker.pc = "reading"
    /\ Len(worker.chunk) = ReadMaximum \/ ring.tail = ring.head
    /\ worker' = [worker EXCEPT !.pc = IF worker.chunk = <<>> THEN "publish"
                                                              ELSE "feeding",
                                !.reads = @ + 1,
                                !.short = Len(worker.chunk) < ReadMaximum]
    /\ UNCHANGED <<airVars, modemVars, RestOfWork, stop>>

\* feed: byte by byte; in the end the new occurrences are sorted.
Feed ==
    /\ worker.pc = "feeding"
    /\ decoder' = FeedByte(decoder, Head(worker.chunk))
    /\ LET rest == Tail(worker.chunk)
           fresh == worker.fresh \o Added(decoder, decoder')
       IN  worker' = IF rest # <<>>
                     THEN [worker EXCEPT !.chunk = rest, !.fresh = fresh]
                     ELSE [worker EXCEPT !.chunk = <<>>, !.pc = "publish",
                                        !.fresh = SortedByStart(fresh)]
    /\ UNCHANGED <<airVars, modemVars, csma, published, cycles, stop>>

\* Mutant: the report's drop count is not looked at.
ActiveFlags == ring.active

\* _require_active_status
ActiveStatus == ring.active /\ ring.dropped = 0

CheckStatus ==
    /\ worker.pc = "status"
    /\ worker' = [worker EXCEPT !.pc = IF ActiveStatus THEN "observe" ELSE "failed",
                                !.passes = 0]
    /\ UNCHANGED <<airVars, modemVars, RestOfWork, stop>>

\* No request waits.
NothingQueued ==
    /\ worker.pc = "observe"
    /\ csma' = None
    /\ Goes("loop")
    /\ UNCHANGED <<airVars, modemVars, decoder, published, cycles, stop>>

\* rx_rssi and observe_rssi.  A sample is clear only on a silent channel; the
\* attempt is ready only when every sample of the last Hold was.
Observe ==
    /\ worker.pc = "observe"
    /\ \/ csma' = None /\ Goes("loop")
       \/ /\ ~OnAir
          /\ csma' = IF csma = None THEN now ELSE csma
          /\ \/ Goes("loop")
             \/ /\ csma # None /\ now - csma >= Hold
                /\ cycles < MaxCycles
                /\ Goes("before")
    /\ UNCHANGED <<airVars, modemVars, decoder, published, cycles, stop>>

\* A modem call raises, or the transmission fails: the worker is done.
WorkerFails ==
    /\ worker.pc \in {"reading", "status", "observe", "before", "stopping",
                      "sending", "verify"}
    /\ Goes("failed")
    /\ UNCHANGED <<airVars, modemVars, RestOfWork, stop>>

-----------------------------------------------------------------------------
(***************************************************************************)
(* A transmit cycle, as far as it touches the capture.  A step is a modem  *)
(* call with the calls after it that a stopped capture cannot tell apart.  *)
(***************************************************************************)

CycleGoes(from, condition, to) ==
    /\ worker.pc = from
    /\ Goes(IF condition THEN to ELSE "failed")
    /\ UNCHANGED <<airVars, published, stop>>

\* The capture has to be sound before it is stopped.
CycleBegins ==
    /\ CycleGoes("before", ActiveStatus, "stopping")
    /\ UNCHANGED <<modemVars, decoder, csma, cycles>>

\* Mutant: bytes dropped up to RX_STOP are not looked at.
StoppedUnchecked(r) == ~r.active

\* _require_inactive_rx
StoppedCleanly(r) == ~r.active /\ r.dropped = 0

CycleStopsRx ==
    /\ CycleGoes("stopping", StoppedCleanly(StopCapture(ring)), "sending")
    /\ ring' = StopCapture(ring)
    /\ UNCHANGED <<capture, decoder, csma, cycles>>

\* The burst is over and RX_START resets the ring.
CycleRestartsRx ==
    /\ CycleGoes("sending", TRUE, "verify")
    /\ ring' = StartCapture(ring)
    /\ capture' = now + 1
    /\ cycles' = cycles + 1
    /\ UNCHANGED <<decoder, csma>>

\* Mutant: the decoder is kept across the gap.
KeptDecoder == decoder

RenewedDecoder == NewDecoder

\* The lifecycle's check of the restarted capture, DISPATCHED, a fresh decoder
\* and the worker's own check, after which a status interval begins.
CycleVerifies ==
    /\ worker.pc = "verify"
    /\ worker' = [worker EXCEPT !.pc = IF ActiveStatus THEN "loop" ELSE "failed",
                                !.passes = 0]
    /\ decoder' = RenewedDecoder
    /\ csma' = None
    /\ UNCHANGED <<airVars, modemVars, published, cycles, stop>>

\* _publish, in the order of their starts.
Publish ==
    /\ worker.pc = "publish"
    /\ worker.fresh # <<>>
    /\ published' = Append(published, Head(worker.fresh).of)
    /\ worker' = [worker EXCEPT !.fresh = Tail(@)]
    /\ UNCHANGED <<airVars, modemVars, decoder, csma, cycles, stop>>

PublishEnds ==
    /\ worker.pc = "publish"
    /\ worker.fresh = <<>>
    /\ worker' = DrainStep(worker)
    /\ UNCHANGED <<airVars, modemVars, RestOfWork, stop>>

StopAsked ==
    /\ ~stop
    /\ stop' = TRUE
    /\ UNCHANGED <<airVars, modemVars, workVars>>

-----------------------------------------------------------------------------
WorkerSteps ==
    \/ LoopTurns \/ Drained \/ FirmwareReads \/ Consume \/ Feed
    \/ CheckStatus \/ NothingQueued \/ Observe
    \/ Publish \/ PublishEnds
    \/ CycleBegins \/ CycleStopsRx \/ CycleRestartsRx \/ CycleVerifies

Next == AirByte \/ WorkerSteps \/ WorkerFails \/ StopAsked

Spec == Init /\ [][Next]_vars

\* The worker's thread runs and its modem calls return; the air and a
\* fault owe nothing.
FairSpec == Spec /\ WF_vars(WorkerSteps)

-----------------------------------------------------------------------------
(***************************************************************************)
(* Properties                                                              *)
(***************************************************************************)

Content ==
    [i \in 1..Available(ring) |-> ring.buffer[(ring.tail + i - 1) % BufferSize]]

Fifo == INSTANCE BoundedFifo WITH
    Bytes <- 1..MaxTime, Capacity <- BufferSize - 1, Limit <- DropLimit,
    content <- Content, overflow <- ring.dropped

\* The ring with its two indices, written by the interrupt and by RX_READ, is
\* a FIFO of BufferSize - 1 bytes, and RX_START never wipes out a drop count
\* that the host has not seen.
RingIsFifo == Fifo!Spec

\* A decoder that was fed bytes that do not follow each other, which leaves it
\* with phase and history of the wrong samples, exists only where the modem
\* still reports the drop: never because of a transmission of our own.
NoSplicedStream == decoder.torn => ring.dropped > 0

\* All that the first hypothesis needs to decode transmission t is out.
HeardBy(t, time) == EndOf(t) + Min(aired[t].heard) <= time

\* A frame of this capture that was complete when the channel was first seen
\* quiet is handed to the backend before the transmission that this quiet
\* allows, although RX_STOP and RX_START throw away what is still in the
\* ring.  The exceptions are a drop, which ends the service, and a stop,
\* which ends the drain early.
HeardBeforeTransmit ==
    worker.pc \in {"before", "stopping", "sending"}
    /\ ring.dropped = 0 /\ ~stop =>
        \A t \in 1..Len(aired) :
            aired[t].start >= capture /\ HeardBy(t, csma) => t \in Range(published)

\* The bank's many hypotheses and the retransmission of identical frames: a
\* transmission is published once, and in the order of the air.
PublishedOnce ==
    \A i, j \in 1..Len(published) : i < j => published[i] < published[j]

\* A dropped byte ends the service: the worker notices and fails.
DropNoticed == ring.dropped > 0 ~> Ended
=============================================================================
