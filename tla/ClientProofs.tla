---------------------------- MODULE ClientProofs ----------------------------
(***************************************************************************)
(* The TCP side, for any number of clients, every queue capacity and every *)
(* interleaving: a client gets every frame since its stream was opened, in *)
(* order and once, or the miss is counted.  And the KISS decoder of its    *)
(* handler, for every limit, every set of bytes and every stream.          *)
(***************************************************************************)
EXTENDS ClientStreams, KissFraming, FiniteSetTheorems, SequenceTheorems, TLAPS

-----------------------------------------------------------------------------
(***************************************************************************)
(* The KISS decoder                                                        *)
(***************************************************************************)

Results == [decoder : Decoders, delivers : BOOLEAN, discards : BOOLEAN]

\* Appending a byte keeps the buffer within the limit.
LEMMA AppendByteWithin ==
    ASSUME NEW d \in Decoders, Len(d.raw) <= MaxBody, NEW byte \in Bytes
    PROVE  /\ AppendByte(d, byte) \in Results
           /\ Len(AppendByte(d, byte).decoder.raw) <= MaxBody
           /\ ~AppendByte(d, byte).delivers
  <1>1. CASE Len(d.raw) >= MaxBody
    BY <1>1 DEF AppendByte, Result, Results, Decoders
  <1>2. CASE ~(Len(d.raw) >= MaxBody)
    <2> DEFINE e == [d EXCEPT !.raw = Append(@, byte), !.escaped = FALSE]
    <2>1. Append(d.raw, byte) \in Seq(Bytes)
          /\ Len(Append(d.raw, byte)) = Len(d.raw) + 1
          /\ Len(d.raw) \in Nat
      BY DEF Decoders
    <2>2. e \in Decoders /\ e.raw = Append(d.raw, byte)
      BY <2>1 DEF Decoders
    <2>3. AppendByte(d, byte) = Result(e, FALSE, FALSE)
      BY <1>2 DEF AppendByte
    <2>4. Len(e.raw) <= MaxBody
      BY <1>2, <2>1, <2>2, KissFramingAssumption
    <2> HIDE DEF e
    <2> QED
      BY <2>2, <2>3, <2>4 DEF Result, Results
  <1> QED
    BY <1>1, <1>2

\* One byte keeps the decoder within the limit, and a message is delivered
\* only from a buffer that holds at least the type byte.
LEMMA FeedWithin ==
    ASSUME NEW d \in Decoders, Len(d.raw) <= MaxBody, NEW byte \in Bytes
    PROVE  /\ Feed(d, byte) \in Results
           /\ Len(Feed(d, byte).decoder.raw) <= MaxBody
           /\ Feed(d, byte).delivers => d.raw # <<>>
  <1>1. CASE byte = FEND
    <2> DEFINE delivers == d.raw # <<>> /\ ~d.discard /\ ~d.escaped
               discards == d.escaped /\ ~d.discard
    <2>1. Reset(d) \in Decoders /\ Reset(d).raw = <<>>
      BY DEF Reset, Decoders
    <2>2. Len(Reset(d).raw) <= MaxBody
      BY <2>1, KissFramingAssumption
    <2>3. Feed(d, byte) = Result(Reset(d), delivers, discards)
      BY <1>1 DEF Feed
    <2>4. delivers \in BOOLEAN /\ discards \in BOOLEAN
          /\ (delivers => d.raw # <<>>)
      OBVIOUS
    <2> HIDE DEF delivers, discards
    <2> QED
      BY <2>1, <2>2, <2>3, <2>4 DEF Result, Results
  <1>2. CASE byte # FEND /\ d.discard
    BY <1>2 DEF Feed, Result, Results
  <1>3. CASE byte # FEND /\ ~d.discard /\ d.escaped
    <2>1. Feed(d, byte) = FeedEscaped(d, byte)
      BY <1>3 DEF Feed
    <2>2. FEND \in Bytes /\ FESC \in Bytes
      BY KissFramingAssumption
    <2>3. CASE byte \in {TFEND, TFESC}
      BY <2>1, <2>2, <2>3, AppendByteWithin DEF FeedEscaped
    <2>4. CASE byte \notin {TFEND, TFESC}
      <3> DEFINE e == [d EXCEPT !.discard = TRUE, !.escaped = FALSE]
      <3>1. e \in Decoders /\ e.raw = d.raw
        BY DEF Decoders
      <3>2. Feed(d, byte) = Result(e, FALSE, TRUE)
        BY <2>1, <2>4 DEF FeedEscaped
      <3> HIDE DEF e
      <3> QED
        BY <3>1, <3>2 DEF Result, Results
    <2> QED
      BY <2>3, <2>4
  <1>4. CASE byte # FEND /\ byte = FESC /\ ~d.discard /\ ~d.escaped
    <2> DEFINE e == [d EXCEPT !.escaped = TRUE]
    <2>1. e \in Decoders /\ e.raw = d.raw
      BY DEF Decoders
    <2>2. Feed(d, byte) = Result(e, FALSE, FALSE)
      BY <1>4 DEF Feed
    <2> HIDE DEF e
    <2> QED
      BY <2>1, <2>2 DEF Result, Results
  <1>5. CASE byte \notin {FEND, FESC} /\ ~d.discard /\ ~d.escaped
    <2>1. Feed(d, byte) = AppendByte(d, byte)
      BY <1>5 DEF Feed
    <2> QED
      BY <2>1, AppendByteWithin
  <1> QED
    BY <1>1, <1>2, <1>3, <1>4, <1>5

\* The type byte splits into two nibbles.
LEMMA Nibbles ==
    ASSUME NEW byte \in 0..255
    PROVE  byte \div 16 \in 0..15 /\ byte % 16 \in 0..15
  <1>1. byte \in Int /\ 0 <= byte /\ byte <= 255
    OBVIOUS
  <1>2. byte % 16 \in 0..15
    BY <1>1, SMT
  <1>3. byte \div 16 \in Int /\ byte = 16 * (byte \div 16) + (byte % 16)
    BY <1>1, SMT
  <1> QED
    BY <1>1, <1>2, <1>3, SMT

\* A nonempty body is a message.
LEMMA MessageType ==
    ASSUME NEW body \in Seq(Bytes), body # <<>>
    PROVE  Message(body) \in KissMessages
  <1>1. Len(body) \in Nat /\ Len(body) # 0
    OBVIOUS
  <1>2. body[1] \in Bytes /\ Tail(body) \in Seq(Bytes)
    BY <1>1
  <1>3. body[1] \in 0..255
    BY <1>2, KissFramingAssumption
  <1>4. body[1] \div 16 \in 0..15 /\ body[1] % 16 \in 0..15
    BY <1>3, Nibbles
  <1> QED
    BY <1>2, <1>4 DEF Message, KissMessages

\* The types, and the bound on the memory a peer that never sends a
\* delimiter can make the decoder use, for every max_body_bytes.
THEOREM DecoderBounded == KissSpec => []KissTypeOK
  <1>1. KissInit => KissTypeOK
    BY KissFramingAssumption DEF KissInit, KissTypeOK, Decoders
  <1>2. KissTypeOK /\ [KissNext]_kissVars => KissTypeOK'
    <2> SUFFICES ASSUME KissTypeOK, [KissNext]_kissVars
                 PROVE  KissTypeOK'
      OBVIOUS
    <2>1. ASSUME NEW byte \in Bytes, Receive(byte)
          PROVE  KissTypeOK'
      <3>1. Feed(decoder, byte) \in Results
            /\ Len(Feed(decoder, byte).decoder.raw) <= MaxBody
            /\ (Feed(decoder, byte).delivers => decoder.raw # <<>>)
        BY FeedWithin DEF KissTypeOK
      <3>2. decoder' \in Decoders /\ Len(decoder'.raw) <= MaxBody
        BY <2>1, <3>1 DEF Receive, Results
      <3>3. messages' \in Seq(KissMessages)
        BY <2>1, <3>1, MessageType DEF Receive, KissTypeOK, Decoders
      <3>4. discarded' \in Nat /\ stream' \in Seq(Bytes)
        BY <2>1 DEF Receive, KissTypeOK
      <3> QED
        BY <3>2, <3>3, <3>4 DEF KissTypeOK
    <2>2. CASE UNCHANGED kissVars
      BY <2>2 DEF KissTypeOK, kissVars
    <2> QED
      BY <2>1, <2>2 DEF KissNext
  <1> QED
    BY <1>1, <1>2, PTL DEF KissSpec

-----------------------------------------------------------------------------
(***************************************************************************)
(* Rising sequences: what a queue holds                                    *)
(***************************************************************************)

Fits(s, S) ==
    /\ Range(s) = S
    /\ \A i, j \in 1..Len(s) : i < j => s[i] < s[j]

\* The range of a sequence, by position.
LEMMA InRange ==
    ASSUME NEW s \in Seq(Nat), NEW x
    PROVE  x \in Range(s) <=> \E i \in 1..Len(s) : s[i] = x
BY RangeEquality

\* A later number goes to the end.
LEMMA FitsAppend ==
    ASSUME NEW s \in Seq(Nat), NEW S, Fits(s, S), NEW n \in Nat,
           \A x \in S : x < n
    PROVE  Fits(Append(s, n), S \cup {n})
<1> DEFINE t == Append(s, n)
<1>1. /\ t \in Seq(Nat) /\ Len(t) = Len(s) + 1 /\ Len(s) \in Nat
      /\ \A i \in 1..Len(s) : t[i] = s[i]
      /\ t[Len(s) + 1] = n
  BY AppendProperties
<1>2. \A i \in 1..Len(s) : s[i] \in Nat /\ s[i] \in S
  BY InRange DEF Fits
<1> HIDE DEF t
<1>3. ASSUME NEW x PROVE x \in Range(t) <=> x \in S \cup {n}
  <2>1. x \in Range(t) <=> \E i \in 1..Len(t) : t[i] = x
    BY <1>1, InRange
  <2>2. x \in S <=> \E i \in 1..Len(s) : s[i] = x
    BY InRange DEF Fits
  <2> QED BY <1>1, <2>1, <2>2
<1>4. ASSUME NEW i \in 1..Len(t), NEW j \in 1..Len(t), i < j
      PROVE  t[i] < t[j]
  <2>1. i \in 1..Len(s) /\ t[i] = s[i]
    BY <1>1, <1>4
  <2>2. CASE j \in 1..Len(s)
    BY <1>1, <1>4, <2>1, <2>2 DEF Fits
  <2>3. CASE j = Len(s) + 1
    BY <1>1, <1>2, <2>1, <2>3
  <2> QED BY <1>1, <2>2, <2>3
<1> QED BY <1>3, <1>4 DEF Fits, t

\* Without its last number.
LEMMA FitsFront ==
    ASSUME NEW s \in Seq(Nat), NEW n \in Nat, NEW S, Fits(Append(s, n), S)
    PROVE  Fits(s, S \ {n})
<1> DEFINE t == Append(s, n)
<1>1. /\ t \in Seq(Nat) /\ Len(t) = Len(s) + 1 /\ Len(s) \in Nat
      /\ \A i \in 1..Len(s) : t[i] = s[i]
      /\ t[Len(s) + 1] = n
  BY AppendProperties
<1>2. Fits(t, S)
  OBVIOUS
<1> HIDE DEF t
<1>3. \A i \in 1..Len(s) : s[i] < n
  BY <1>1, <1>2 DEF Fits
<1>4. \A i \in 1..Len(s) : s[i] \in Nat
  OBVIOUS
<1>5. ASSUME NEW x PROVE x \in Range(s) <=> x \in S \ {n}
  <2>1. x \in S <=> \E i \in 1..Len(t) : t[i] = x
    BY <1>1, <1>2, InRange DEF Fits
  <2>2. x \in Range(s) <=> \E i \in 1..Len(s) : s[i] = x
    BY InRange
  <2>3. ASSUME NEW i \in 1..Len(s), s[i] = x PROVE x \in S /\ x # n
    <3>1. i \in 1..Len(t) /\ t[i] = x
      BY <1>1, <2>3
    <3> QED BY <1>3, <1>4, <2>1, <2>3, <3>1
  <2>4. ASSUME NEW i \in 1..Len(t), t[i] = x, x # n
        PROVE  i \in 1..Len(s) /\ s[i] = x
    <3>1. i # Len(s) + 1
      BY <1>1, <2>4
    <3>2. i \in 1..Len(s)
      BY <1>1, <3>1
    <3> QED BY <1>1, <2>4, <3>2
  <2> QED BY <2>1, <2>2, <2>3, <2>4
<1>6. ASSUME NEW i \in 1..Len(s), NEW j \in 1..Len(s), i < j
      PROVE  s[i] < s[j]
  BY <1>1, <1>2, <1>6 DEF Fits
<1> QED BY <1>5, <1>6 DEF Fits

\* Without its first.
LEMMA FitsTail ==
    ASSUME NEW s \in Seq(Nat), s # <<>>, NEW S, Fits(s, S)
    PROVE  Fits(Tail(s), {x \in S : x > Head(s)})
<1> DEFINE t == Tail(s)
<1>1. /\ t \in Seq(Nat) /\ Len(t) = Len(s) - 1 /\ Len(s) \in Nat \ {0}
      /\ \A i \in 1..Len(t) : t[i] = s[i + 1]
  BY HeadTailProperties, EmptySeq
<1>2. Head(s) = s[1]
  BY <1>1
<1>3. \A i \in 1..Len(s) : s[i] \in Nat
  OBVIOUS
<1> HIDE DEF t
<1>4. ASSUME NEW x PROVE x \in Range(t) <=> x \in S /\ x > Head(s)
  <2>1. x \in S <=> \E i \in 1..Len(s) : s[i] = x
    BY InRange DEF Fits
  <2>2. x \in Range(t) <=> \E i \in 1..Len(t) : t[i] = x
    BY <1>1, InRange
  <2>3. ASSUME NEW i \in 1..Len(t), t[i] = x PROVE x \in S /\ x > Head(s)
    <3>1. /\ 1 \in 1..Len(s) /\ i + 1 \in 1..Len(s) /\ 1 < i + 1
          /\ x = s[i + 1]
      BY <1>1, <2>3
    <3>2. s[1] < s[i + 1]
      BY <3>1 DEF Fits
    <3> QED BY <1>2, <1>3, <2>1, <3>1, <3>2
  <2>4. ASSUME NEW i \in 1..Len(s), s[i] = x, x > Head(s)
        PROVE  \E k \in 1..Len(t) : t[k] = x
    <3>1. i # 1
      BY <1>2, <1>3, <2>4
    <3>2. i - 1 \in 1..Len(t)
      BY <1>1, <3>1
    <3>3. t[i - 1] = s[(i - 1) + 1] /\ (i - 1) + 1 = i
      BY <1>1, <3>2
    <3> QED BY <2>4, <3>2, <3>3
  <2> QED BY <2>1, <2>2, <2>3, <2>4
<1>5. ASSUME NEW i \in 1..Len(t), NEW j \in 1..Len(t), i < j
      PROVE  t[i] < t[j]
  <2>1. /\ i + 1 \in 1..Len(s) /\ j + 1 \in 1..Len(s) /\ i + 1 < j + 1
        /\ t[i] = s[i + 1] /\ t[j] = s[j + 1]
    BY <1>1, <1>5
  <2> QED BY <2>1 DEF Fits
<1> QED BY <1>4, <1>5 DEF Fits, t

\* Nothing is held where nothing is due.
LEMMA FitsNothing == Fits(<<>>, {})
<1>1. <<>> \in Seq(Nat) /\ Len(<<>>) = 0
  OBVIOUS
<1>2. \A x : x \notin Range(<<>>)
  <2> SUFFICES ASSUME NEW x, x \in Range(<<>>) PROVE FALSE
    OBVIOUS
  <2>1. \E i \in 1..Len(<<>>) : <<>>[i] = x
    BY <1>1, InRange
  <2> QED BY <1>1, <2>1
<1> QED BY <1>1, <1>2 DEF Fits

-----------------------------------------------------------------------------
(***************************************************************************)
(* The inductive invariant of the client streams                           *)
(***************************************************************************)

\* Only a publication under way has targets and misses to count.
PuttingInv ==
    worker.pc # "putting" => worker.targets = {} /\ worker.full = 0

\* A stream that was not opened yet has an empty queue and is no target of a
\* publication.
StreamInv(c) ==
    /\ handler[c].pc = "handling" => handler[c].batch # <<>>
    /\ handler[c].pc \in {"away", "closed"} => ~handler[c].open
    /\ ~handler[c].open /\ handler[c].pc # "closed"
       => queue[c] = <<>> /\ c \notin worker.targets

\* What is noted about a client is about published frames, and not yet about
\* the one it is a target of.
NotedInv(c) ==
    /\ account[c].base <= published /\ account[c].last <= published
    /\ account[c].missed \subseteq 1..published
    /\ c \in worker.targets => published > 0 /\ published \notin account[c].missed

ShapeInv == PuttingInv /\ \A c \in Clients : StreamInv(c) /\ NotedInv(c)

Accounted(c) == Fits(Held(c), Due(c))

CountInv == IsFiniteSet(Misses) /\ drops + worker.full = Cardinality(Misses)

ClientInv ==
    /\ TypeOK /\ ShapeInv /\ CountInv
    /\ \A c \in Open : Accounted(c)

Handlers == [pc : HandlerStates, open : BOOLEAN, event : 0..MaxFrames,
             batch : Seq(AllMessages)]
Accounts == [base : Nat, last : Nat, missed : SUBSET Nat]
Workers == [pc : {"loop", "putting", "cycle"}, targets : SUBSET Clients,
            full : Nat]

\* The bounds are numbers.
LEMMA ClientConstants ==
    /\ MaxFrames \in Nat /\ MaxCycles \in Nat
    /\ SubscriberCapacity \in Nat /\ SubscriberCapacity > 0
BY ClientStreamsAssumption

\* A client's messages are messages.
LEMMA MessagesKnown == \A c \in Clients : Messages(c) \subseteq AllMessages
BY DEF AllMessages

\* The property, from the invariant.
LEMMA AccountedFromInv == ClientInv => ClientsAccounted
BY DEF ClientInv, ClientsAccounted, Accounted, Fits, CountInv

LEMMA ClientInit == Init => ClientInv
<1> SUFFICES ASSUME Init PROVE ClientInv
  OBVIOUS
<1>1. TypeOK
  BY ClientConstants DEF Init, TypeOK, HandlerStates
<1>2. ShapeInv
  BY DEF Init, ShapeInv, PuttingInv, StreamInv, NotedInv
<1>3. Misses = {}
  BY DEF Init, Misses
<1>4. CountInv
  BY <1>3, FS_EmptySet DEF CountInv, Init
<1>5. Open = {}
  BY DEF Init, Open
<1> QED BY <1>1, <1>2, <1>4, <1>5 DEF ClientInv

\* Nothing is changed about a client that its step does not touch.
LEMMA SameClient ==
    ASSUME NEW c \in Clients, UNCHANGED published,
           queue'[c] = queue[c], account'[c] = account[c],
           c \in worker'.targets <=> c \in worker.targets
    PROVE  Accounted(c)' <=> Accounted(c)
<1>1. Held(c)' = Held(c) /\ Due(c)' = Due(c)
  BY DEF Held, Due
<1> QED BY <1>1 DEF Accounted

\* The misses depend on the accounts only.
LEMMA SameMisses ==
    ASSUME UNCHANGED published,
           \A c \in Clients : account'[c].missed = account[c].missed
    PROVE  Misses' = Misses
BY DEF Misses

\* A step of a handler that opens nothing, and touches no queue.
LEMMA HandlerKeeps ==
    ASSUME ClientInv, UNCHANGED <<queue, worker, published, drops, account>>,
           \A c \in Clients : handler'[c].open => handler[c].open
    PROVE  CountInv' /\ (\A c \in Open : Accounted(c))'
<1>1. CountInv'
  BY SameMisses DEF ClientInv, CountInv
<1>2. ASSUME NEW c \in Clients, handler'[c].open PROVE Accounted(c)'
  BY <1>2, SameClient DEF ClientInv, Open
<1> QED BY <1>1, <1>2 DEF Open

-----------------------------------------------------------------------------
(***************************************************************************)
(* The worker's steps                                                      *)
(***************************************************************************)

LEMMA PublishKeeps == ClientInv /\ Publish => ClientInv'
<1> SUFFICES ASSUME ClientInv, Publish PROVE ClientInv'
  OBVIOUS
<1>0. /\ worker.pc = "loop" /\ worker.targets = {} /\ worker.full = 0
      /\ published \in Nat /\ published' = published + 1 /\ published < MaxFrames
      /\ worker' = [pc |-> "putting", targets |-> Open, full |-> 0]
      /\ UNCHANGED <<handler, queue, inbox, sends, cycles, drops, account>>
  BY DEF ClientInv, TypeOK, ShapeInv, PuttingInv, Publish
<1>1. TypeOK'
  <2>1. queue \in [Clients -> Seq(1..MaxFrames)] /\ published' \in 0..MaxFrames
    BY <1>0, ClientConstants DEF ClientInv, TypeOK
  <2> QED BY <1>0, <2>1 DEF ClientInv, TypeOK, Open
<1>2. ShapeInv'
  <2>1. PuttingInv'
    BY <1>0 DEF PuttingInv
  <2>2. ASSUME NEW c \in Clients PROVE StreamInv(c)' /\ NotedInv(c)'
    BY <1>0, <2>2 DEF ClientInv, TypeOK, ShapeInv, StreamInv, NotedInv, Open
  <2> QED BY <2>1, <2>2 DEF ShapeInv
<1>3. CountInv'
  <2>1. \A c \in Clients : \A i : i \in account[c].missed => i \in 1..published
    BY DEF ClientInv, ShapeInv, NotedInv
  <2>2. Misses' = Misses
    BY <1>0, <2>1 DEF Misses
  <2> QED BY <1>0, <2>2 DEF ClientInv, CountInv
<1>4. ASSUME NEW c \in Open PROVE Accounted(c)'
  <2>1. c \in Clients /\ Fits(queue[c], Due(c)) /\ queue[c] \in Seq(Nat)
    <3>1. c \in Clients /\ queue[c] \in Seq(1..MaxFrames) /\ 1..MaxFrames \subseteq Nat
      BY DEF Open, ClientInv, TypeOK
    <3>2. queue[c] \in Seq(Nat)
      BY <3>1, SeqMonotonic
    <3> QED BY <1>0, <3>1, <3>2 DEF ClientInv, Accounted, Held
  <2>2. Held(c)' = Append(queue[c], published + 1)
    BY <1>0, <2>1 DEF Held
  <2>3. Due(c)' = Due(c) \cup {published + 1}
    <3>1. /\ account[c].last \in Nat /\ account[c].base \in Nat
          /\ account[c].last <= published /\ account[c].base <= published
          /\ published + 1 \notin account[c].missed
      BY <1>0, <2>1 DEF ClientInv, TypeOK, ShapeInv, NotedInv
    <3> QED BY <1>0, <3>1 DEF Due
  <2>4. \A x \in Due(c) : x < published + 1
    BY <1>0 DEF Due
  <2>5. Fits(Append(queue[c], published + 1), Due(c) \cup {published + 1})
    BY <1>0, <2>1, <2>4, FitsAppend
  <2> QED BY <2>2, <2>3, <2>5 DEF Accounted
<1>5. Open' = Open
  BY <1>0 DEF Open
<1> QED BY <1>1, <1>2, <1>3, <1>4, <1>5 DEF ClientInv

LEMMA PutKeeps ==
    ASSUME ClientInv, NEW c \in Clients, Put(c)
    PROVE  ClientInv'
<1>0. /\ worker.pc = "putting" /\ c \in worker.targets /\ worker \in Workers
      /\ worker'.pc = worker.pc /\ worker'.targets = worker.targets \ {c}
      /\ published \in Nat /\ published <= MaxFrames
      /\ account \in [Clients -> Accounts] /\ queue \in [Clients -> Seq(1..MaxFrames)]
      /\ UNCHANGED <<handler, inbox, sends, published, cycles, drops>>
  <2>1. /\ worker.pc = "putting" /\ c \in worker.targets /\ PutNowait(c)
        /\ UNCHANGED <<handler, inbox, sends, published, cycles, drops>>
    BY DEF Put
  <2>2. worker \in Workers
    BY DEF ClientInv, TypeOK, Workers
  <2>3. /\ account \in [Clients -> Accounts] /\ queue \in [Clients -> Seq(1..MaxFrames)]
        /\ published \in Nat /\ published <= MaxFrames
    BY ClientConstants DEF ClientInv, TypeOK, Accounts
  <2>4. worker'.pc = worker.pc /\ worker'.targets = worker.targets \ {c}
    BY <2>1, <2>2 DEF PutNowait, Workers
  <2> QED BY <2>1, <2>2, <2>3, <2>4
<1>1. Len(queue[c]) \in Nat /\ queue[c] \in Seq(Nat)
  <2>1. queue[c] \in Seq(1..MaxFrames) /\ 1..MaxFrames \subseteq Nat
    BY <1>0
  <2>2. queue[c] \in Seq(Nat)
    BY <2>1, SeqMonotonic
  <2> QED BY <2>2
<1>2. /\ published > 0 /\ published \notin account[c].missed
      /\ handler[c].open => Fits(Append(queue[c], published), Due(c))
  <2>1. published > 0 /\ published \notin account[c].missed
    BY <1>0 DEF ClientInv, ShapeInv, NotedInv
  <2>2. handler[c].open => Fits(Append(queue[c], published), Due(c))
    BY <1>0 DEF ClientInv, Accounted, Held, Open
  <2> QED BY <2>1, <2>2
<1>3. ASSUME NEW d \in Clients, d # c PROVE Accounted(d)' <=> Accounted(d)
  <2>1. queue'[d] = queue[d] /\ account'[d] = account[d]
    BY <1>0, <1>3 DEF Put, PutNowait, Accounts
  <2> QED BY <1>0, <1>3, <2>1, SameClient
<1>4. Open' = Open
  BY <1>0 DEF Open
<1>5. CASE Len(queue[c]) < SubscriberCapacity
  <2>1. /\ queue' = [queue EXCEPT ![c] = Append(@, published)]
        /\ worker' = [worker EXCEPT !.targets = @ \ {c}]
        /\ UNCHANGED account
    BY <1>5 DEF Put, PutNowait
  <2>2. TypeOK'
    <3>1. worker' \in Workers
      BY <1>0, <2>1 DEF Workers
    <3>2. /\ Append(queue[c], published) \in Seq(1..MaxFrames)
          /\ Len(Append(queue[c], published)) = Len(queue[c]) + 1
      BY <1>0, <1>2, AppendProperties
    <3>3. /\ queue' \in [Clients -> Seq(1..MaxFrames)]
          /\ \A d \in Clients : queue'[d] = IF d = c THEN Append(queue[c], published)
                                           ELSE queue[d]
      BY <1>0, <2>1, <3>2
    <3>4. \A d \in Clients : Len(queue'[d]) <= SubscriberCapacity
      <4>1. \A d \in Clients : Len(queue[d]) <= SubscriberCapacity
        BY DEF ClientInv, TypeOK
      <4>2. Len(Append(queue[c], published)) <= SubscriberCapacity
        BY <1>1, <1>5, <3>2, ClientConstants
      <4> QED BY <3>3, <4>1, <4>2, Zenon
    <3> QED BY <1>0, <2>1, <3>1, <3>3, <3>4 DEF ClientInv, TypeOK, Workers
  <2>3. ShapeInv'
    <3>1. PuttingInv'
      BY <1>0 DEF PuttingInv
    <3>2. ASSUME NEW d \in Clients PROVE StreamInv(d)' /\ NotedInv(d)'
      BY <1>0, <2>1, <3>2 DEF ClientInv, ShapeInv, StreamInv, NotedInv
    <3> QED BY <3>1, <3>2 DEF ShapeInv
  <2>4. CountInv'
    <3>1. Misses' = Misses /\ worker'.full = worker.full
      BY <1>0, <2>1, SameMisses DEF Workers
    <3> QED BY <1>0, <3>1 DEF ClientInv, CountInv
  <2>5. ASSUME handler[c].open PROVE Accounted(c)'
    <3>1. Held(c)' = Append(queue[c], published) /\ Due(c)' = Due(c)
      BY <1>0, <2>1, <2>5 DEF Held, Due
    <3> QED BY <1>2, <2>5, <3>1 DEF Accounted
  <2> QED BY <1>3, <1>4, <2>2, <2>3, <2>4, <2>5 DEF ClientInv, Open
<1>6. CASE ~(Len(queue[c]) < SubscriberCapacity)
  <2>1. /\ worker' = [worker EXCEPT !.targets = @ \ {c}, !.full = @ + 1]
        /\ account' = [account EXCEPT ![c].missed = @ \cup {published}]
        /\ UNCHANGED queue
    BY <1>6 DEF Put, PutNowait
  <2>2. account'[c].missed = account[c].missed \cup {published}
    BY <1>0, <2>1 DEF Accounts
  <2>3. TypeOK'
    <3>1. worker' \in Workers
      <4>1. worker' = [pc |-> worker.pc, targets |-> worker.targets \ {c},
                       full |-> worker.full + 1]
        BY <1>0, <2>1 DEF Workers
      <4>2. worker.full + 1 \in Nat /\ worker.targets \ {c} \in SUBSET Clients
        BY <1>0 DEF Workers
      <4> QED BY <1>0, <4>1, <4>2 DEF Workers
    <3>2. account' \in [Clients -> Accounts]
      BY <1>0, <2>1 DEF Accounts
    <3> QED BY <1>0, <2>1, <3>1, <3>2 DEF ClientInv, TypeOK, Accounts, Workers
  <2>4. ShapeInv'
    <3>1. PuttingInv'
      BY <1>0 DEF PuttingInv
    <3>2. ASSUME NEW d \in Clients PROVE StreamInv(d)'
      BY <1>0, <2>1, <3>2 DEF ClientInv, ShapeInv, StreamInv
    <3>3. ASSUME NEW d \in Clients PROVE NotedInv(d)'
      BY <1>0, <1>2, <2>1, <2>2, <3>3 DEF ClientInv, ShapeInv, NotedInv, Accounts
    <3> QED BY <3>1, <3>2, <3>3 DEF ShapeInv
  <2>5. CountInv'
    <3>1. Misses' = Misses \cup {<<c, published>>}
      BY <1>0, <1>2, <2>1, <2>2 DEF Misses, Accounts
    <3>2. <<c, published>> \notin Misses
      BY <1>2 DEF Misses
    <3>3. IsFiniteSet(Misses) /\ drops + worker.full = Cardinality(Misses)
          /\ drops \in Nat /\ worker.full \in Nat
      BY DEF ClientInv, CountInv, TypeOK
    <3>4. IsFiniteSet(Misses') /\ Cardinality(Misses') = Cardinality(Misses) + 1
      BY <3>1, <3>2, <3>3, FS_AddElement
    <3>5. worker'.full = worker.full + 1 /\ drops' = drops
      BY <1>0, <2>1 DEF Workers
    <3> QED BY <3>3, <3>4, <3>5 DEF CountInv
  <2>6. ASSUME handler[c].open PROVE Accounted(c)'
    <3>1. Held(c)' = queue[c]
      BY <1>0, <2>1 DEF Held
    <3>2. Due(c)' = Due(c) \ {published}
      BY <1>0, <2>1 DEF Due, Accounts
    <3>3. Fits(queue[c], Due(c) \ {published})
      BY <1>0, <1>1, <1>2, <2>6, FitsFront
    <3> QED BY <3>1, <3>2, <3>3 DEF Accounted
  <2> QED BY <1>3, <1>4, <2>3, <2>4, <2>5, <2>6 DEF ClientInv, Open
<1> QED BY <1>5, <1>6

\* The worker's other steps put nothing into a queue.
LEMMA WorkerKeeps ==
    ASSUME ClientInv, CountDrops \/ BeginCycle \/ EndCycle
    PROVE  ClientInv'
<1>0. /\ worker \in Workers /\ worker.targets = {} /\ worker'.targets = {}
      /\ drops \in Nat
      /\ UNCHANGED <<handler, queue, inbox, sends, published, account>>
  BY DEF ClientInv, TypeOK, ShapeInv, PuttingInv, CountDrops, BeginCycle, EndCycle,
         Workers
<1>1. /\ worker' \in Workers /\ drops' \in Nat /\ cycles' \in 0..MaxCycles
      /\ drops' + worker'.full = drops + worker.full /\ PuttingInv'
  <2>1. CASE CountDrops
    <3>1. /\ worker' = [worker EXCEPT !.pc = "loop", !.full = 0]
          /\ drops' = drops + worker.full /\ UNCHANGED cycles
      BY <2>1 DEF CountDrops
    <3>2. /\ worker' = [pc |-> "loop", targets |-> {}, full |-> 0]
          /\ worker.full \in Nat /\ cycles \in 0..MaxCycles
      BY <1>0, <3>1 DEF Workers, ClientInv, TypeOK
    <3> QED BY <1>0, <3>1, <3>2 DEF Workers, PuttingInv
  <2>2. CASE BeginCycle
    <3>1. /\ worker' = [worker EXCEPT !.pc = "cycle"] /\ worker.full = 0
          /\ cycles' = cycles + 1 /\ cycles < MaxCycles /\ cycles \in Nat
          /\ UNCHANGED drops
      BY <2>2, ClientConstants
         DEF BeginCycle, ClientInv, TypeOK, ShapeInv, PuttingInv
    <3> QED BY <1>0, <3>1, ClientConstants DEF Workers, PuttingInv
  <2>3. CASE EndCycle
    <3>1. /\ worker' = [worker EXCEPT !.pc = "loop"] /\ worker.full = 0
          /\ UNCHANGED <<drops, cycles>> /\ cycles \in 0..MaxCycles
      BY <2>3 DEF EndCycle, ClientInv, TypeOK, ShapeInv, PuttingInv
    <3> QED BY <1>0, <3>1 DEF Workers, PuttingInv
  <2> QED BY <2>1, <2>2, <2>3
<1>2. TypeOK'
  BY <1>0, <1>1 DEF ClientInv, TypeOK, Workers
<1>3. ShapeInv'
  BY <1>0, <1>1 DEF ClientInv, ShapeInv, StreamInv, NotedInv
<1>4. CountInv'
  BY <1>0, <1>1, SameMisses DEF ClientInv, CountInv
<1>5. ASSUME NEW c \in Open PROVE Accounted(c)'
  BY <1>0, SameClient DEF ClientInv, Open
<1> QED BY <1>0, <1>2, <1>3, <1>4, <1>5 DEF ClientInv, Open

-----------------------------------------------------------------------------
(***************************************************************************)
(* The handlers' steps                                                     *)
(***************************************************************************)

\* A handler after its step, and the types of everything else.
LEMMA HandlerTypes ==
    ASSUME ClientInv, NEW c \in Clients, NEW h \in Handlers,
           handler' = [handler EXCEPT ![c] = h],
           UNCHANGED <<worker, published, cycles, drops>>,
           queue' \in [Clients -> Seq(1..MaxFrames)],
           \A d \in Clients : Len(queue'[d]) <= SubscriberCapacity,
           inbox' \in [Clients -> Seq(AllMessages)], UNCHANGED sends,
           account' \in [Clients -> Accounts]
    PROVE  TypeOK' /\ PuttingInv'
<1>1. handler' \in [Clients -> Handlers]
  BY DEF ClientInv, TypeOK, Handlers
<1> QED BY <1>1 DEF ClientInv, TypeOK, Handlers, Accounts, ShapeInv, PuttingInv

\* A step that only moves the handler, and what it has received.
LEMMA MoveKeeps ==
    ASSUME ClientInv, NEW c \in Clients, NEW h \in Handlers,
           handler' = [handler EXCEPT ![c] = h], h.open = handler[c].open,
           h.pc \notin {"away", "closed"}, handler[c].pc \notin {"closed"},
           h.pc = "handling" => h.batch # <<>>,
           inbox' \in [Clients -> Seq(AllMessages)],
           UNCHANGED <<sends, queue, account, worker, published, cycles, drops>>
    PROVE  ClientInv'
<1>1. handler \in [Clients -> Handlers] /\ account \in [Clients -> Accounts]
  BY DEF ClientInv, TypeOK, Handlers, Accounts
<1>2. TypeOK' /\ PuttingInv'
  BY <1>1, HandlerTypes DEF ClientInv, TypeOK
<1>3. ASSUME NEW d \in Clients PROVE StreamInv(d)' /\ NotedInv(d)'
  BY <1>1, <1>3 DEF ClientInv, ShapeInv, StreamInv, NotedInv
<1>4. CountInv' /\ (\A d \in Open : Accounted(d))'
  BY <1>1, HandlerKeeps
<1> QED BY <1>2, <1>3, <1>4 DEF ClientInv, ShapeInv

\* A step that opens the stream: it is due nothing yet.
LEMMA OpenKeeps ==
    ASSUME ClientInv, NEW c \in Clients, NEW h \in Handlers,
           OpenStream(c, h), h.pc \notin {"away", "closed"},
           ~handler[c].open, handler[c].pc # "closed",
           h.pc = "handling" => h.batch # <<>>,
           UNCHANGED <<inbox, sends, queue, worker, published, cycles, drops>>
    PROVE  ClientInv'
<1>1. /\ handler \in [Clients -> Handlers] /\ account \in [Clients -> Accounts]
      /\ published \in Nat /\ queue \in [Clients -> Seq(1..MaxFrames)]
      /\ inbox \in [Clients -> Seq(AllMessages)]
      /\ \A d \in Clients : Len(queue[d]) <= SubscriberCapacity
  BY ClientConstants DEF ClientInv, TypeOK, Handlers, Accounts
<1> DEFINE g == [h EXCEPT !.open = TRUE]
<1>2. /\ handler' = [handler EXCEPT ![c] = g] /\ g \in Handlers
      /\ g.open /\ g.pc = h.pc /\ g.batch = h.batch
      /\ account' = [account EXCEPT ![c].base = published]
  BY DEF OpenStream, Handlers
<1> HIDE DEF g
<1>3. /\ account' \in [Clients -> Accounts]
      /\ \A d \in Clients :
            /\ account'[d].missed = account[d].missed
            /\ account'[d].last = account[d].last
            /\ account'[d].base = IF d = c THEN published ELSE account[d].base
            /\ d # c => account'[d] = account[d]
  <2> DEFINE a == [account[c] EXCEPT !.base = published]
  <2>1. /\ a \in Accounts /\ a.base = published /\ a.last = account[c].last
        /\ a.missed = account[c].missed
    BY <1>1 DEF Accounts
  <2>2. account' = [account EXCEPT ![c] = a]
    BY <1>1, <1>2
  <2> HIDE DEF a
  <2>3. account' \in [Clients -> Accounts]
    BY <1>1, <2>1, <2>2
  <2>4. \A d \in Clients : account'[d] = IF d = c THEN a ELSE account[d]
    BY <1>1, <2>2
  <2>5. account'[c] = a
    BY <2>4
  <2>6. \A d \in Clients : d # c => account'[d] = account[d]
    BY <2>4
  <2>7. ASSUME NEW d \in Clients
        PROVE  /\ account'[d].missed = account[d].missed
               /\ account'[d].last = account[d].last
               /\ account'[d].base = IF d = c THEN published ELSE account[d].base
               /\ (d # c => account'[d] = account[d])
    BY <2>1, <2>5, <2>6
  <2> QED BY <2>3, <2>7
<1>4. TypeOK' /\ PuttingInv'
  BY <1>1, <1>2, <1>3, HandlerTypes
<1>5. ASSUME NEW d \in Clients PROVE StreamInv(d)' /\ NotedInv(d)'
  BY <1>1, <1>2, <1>3, <1>5 DEF ClientInv, ShapeInv, StreamInv, NotedInv
<1>6. CountInv'
  BY <1>3, SameMisses DEF ClientInv, CountInv
<1>7. Accounted(c)'
  <2>1. queue[c] = <<>> /\ c \notin worker.targets
    BY DEF ClientInv, ShapeInv, StreamInv
  <2>2. Held(c)' = <<>>
    BY <2>1 DEF Held
  <2>3. Due(c)' = {}
    BY <1>1, <1>3 DEF Due, Accounts
  <2> QED BY <2>2, <2>3, FitsNothing DEF Accounted
<1>8. ASSUME NEW d \in Clients, d # c, handler'[d].open PROVE Accounted(d)'
  BY <1>1, <1>2, <1>3, <1>8, SameClient DEF ClientInv, Open
<1> QED BY <1>4, <1>5, <1>6, <1>7, <1>8 DEF ClientInv, ShapeInv, Open

\* A step that closes it.
LEMMA CloseKeeps ==
    ASSUME ClientInv, NEW c \in Clients, CloseStream(c),
           handler[c].pc \notin {"away", "closed"},
           inbox' \in [Clients -> Seq(AllMessages)],
           UNCHANGED <<queue, sends, account, worker, published, cycles, drops>>
    PROVE  ClientInv'
<1> DEFINE g == [pc |-> "closed", open |-> FALSE, event |-> 0, batch |-> <<>>]
<1>1. /\ handler \in [Clients -> Handlers] /\ account \in [Clients -> Accounts]
      /\ queue \in [Clients -> Seq(1..MaxFrames)]
      /\ \A d \in Clients : Len(queue[d]) <= SubscriberCapacity
  BY DEF ClientInv, TypeOK, Handlers, Accounts
<1>2. /\ handler' = [handler EXCEPT ![c] = g] /\ g \in Handlers
      /\ g.pc = "closed" /\ ~g.open
  BY ClientConstants DEF CloseStream, Handlers, HandlerStates
<1> HIDE DEF g
<1>3. TypeOK' /\ PuttingInv'
  BY <1>1, <1>2, HandlerTypes
<1>4. ASSUME NEW d \in Clients PROVE StreamInv(d)' /\ NotedInv(d)'
  BY <1>1, <1>2, <1>4 DEF ClientInv, ShapeInv, StreamInv, NotedInv
<1>5. CountInv' /\ (\A d \in Open : Accounted(d))'
  BY <1>1, <1>2, HandlerKeeps
<1> QED BY <1>3, <1>4, <1>5 DEF ClientInv, ShapeInv

\* A handler that goes on is a handler.
LEMMA HandlerType ==
    ASSUME ClientInv, NEW c \in Clients
    PROVE  /\ handler[c] \in Handlers /\ handler \in [Clients -> Handlers]
           /\ \A pc \in HandlerStates : [handler[c] EXCEPT !.pc = pc] \in Handlers
           /\ inbox \in [Clients -> Seq(AllMessages)]
BY DEF ClientInv, TypeOK, Handlers

\* It stays one when it notes the frame it sends, whatever set it is from.
LEMMA EventNoted ==
    ASSUME NEW S,
           NEW g \in [pc : HandlerStates, open : BOOLEAN, event : S,
                      batch : Seq(AllMessages)],
           NEW e \in S, NEW pc \in HandlerStates
    PROVE  /\ [g EXCEPT !.pc = pc, !.event = e]
                 \in [pc : HandlerStates, open : BOOLEAN, event : S,
                      batch : Seq(AllMessages)]
           /\ [g EXCEPT !.pc = pc, !.event = e].open = g.open
           /\ [g EXCEPT !.pc = pc, !.event = e].pc = pc
OBVIOUS

LEMMA ConnectKeeps ==
    ASSUME ClientInv, NEW c \in Clients, Connect(c)
    PROVE  ClientInv'
<1> DEFINE h == [handler[c] EXCEPT !.pc = "serving"]
<1>1. /\ h \in Handlers /\ h.pc = "serving" /\ h.open = handler[c].open
      /\ handler[c].pc = "away" /\ ~handler[c].open
      /\ UNCHANGED <<queue, inbox, sends, worker, published, cycles, drops>>
  BY HandlerType
     DEF Connect, At, RestOfDaemon, HandlerStates, Handlers, ClientInv, ShapeInv, StreamInv
<1>2. \/ OpenStream(c, h)
      \/ handler' = [handler EXCEPT ![c] = h] /\ UNCHANGED account
  BY DEF Connect
<1> HIDE DEF h
<1>3. CASE OpenStream(c, h)
  BY <1>1, <1>3, OpenKeeps
<1>4. CASE handler' = [handler EXCEPT ![c] = h] /\ UNCHANGED account
  <2>1. inbox' \in [Clients -> Seq(AllMessages)]
    BY <1>1, HandlerType
  <2> QED BY <1>1, <1>4, <2>1, MoveKeeps
<1> QED BY <1>2, <1>3, <1>4

LEMMA HandleKeeps ==
    ASSUME ClientInv, NEW c \in Clients, Handle(c)
    PROVE  ClientInv'
<1> DEFINE rest == Tail(handler[c].batch)
           h == [handler[c] EXCEPT !.batch = rest,
                    !.pc = IF rest = <<>> THEN "serving" ELSE "handling"]
<1>1. /\ handler[c].pc = "handling" /\ handler[c].batch # <<>>
      /\ handler[c] \in Handlers
      /\ UNCHANGED <<queue, inbox, sends, worker, published, cycles, drops>>
  BY HandlerType DEF Handle, At, RestOfDaemon, ClientInv, ShapeInv, StreamInv
<1>2. rest \in Seq(AllMessages)
  BY <1>1 DEF Handlers
<1>3. \/ OpenStream(c, h) /\ ~handler[c].open
      \/ handler' = [handler EXCEPT ![c] = h] /\ UNCHANGED account
  BY DEF Handle
<1> HIDE DEF rest
<1>4. /\ h \in Handlers /\ h.open = handler[c].open /\ h.batch = rest
      /\ h.pc = IF rest = <<>> THEN "serving" ELSE "handling"
  BY <1>1, <1>2 DEF Handlers, HandlerStates
<1> HIDE DEF h
<1>5. CASE OpenStream(c, h) /\ ~handler[c].open
  BY <1>1, <1>4, <1>5, OpenKeeps
<1>6. CASE handler' = [handler EXCEPT ![c] = h] /\ UNCHANGED account
  <2>1. inbox' \in [Clients -> Seq(AllMessages)]
    BY <1>1, HandlerType
  <2> QED BY <1>1, <1>4, <1>6, <2>1, MoveKeeps
<1> QED BY <1>3, <1>5, <1>6

LEMMA TakeKeeps ==
    ASSUME ClientInv, NEW c \in Clients, Take(c)
    PROVE  ClientInv'
<1> DEFINE e == Head(queue[c])
           h == [handler[c] EXCEPT !.pc = "sending", !.event = e]
           a == [account[c] EXCEPT !.last = e]
<1>1. /\ handler[c].pc = "serving" /\ handler[c].open /\ queue[c] # <<>>
      /\ queue' = [queue EXCEPT ![c] = Tail(@)]
      /\ UNCHANGED <<inbox, sends, worker, published, cycles, drops>>
  BY DEF Take, At, RestOfDaemon
<1>2. /\ queue \in [Clients -> Seq(1..MaxFrames)]
      /\ handler \in [Clients -> Handlers] /\ account \in [Clients -> Accounts]
      /\ published \in Nat /\ inbox \in [Clients -> Seq(AllMessages)]
      /\ \A d \in Clients : Len(queue[d]) <= SubscriberCapacity
  BY ClientConstants DEF ClientInv, TypeOK, Handlers, Accounts
<1>3. /\ e \in 1..MaxFrames /\ Tail(queue[c]) \in Seq(1..MaxFrames)
      /\ Len(Tail(queue[c])) = Len(queue[c]) - 1 /\ Len(queue[c]) \in Nat
      /\ queue[c] \in Seq(Nat)
  <2>1. queue[c] \in Seq(1..MaxFrames) /\ 1..MaxFrames \subseteq Nat
    BY <1>2
  <2>2. queue[c] \in Seq(Nat)
    BY <2>1, SeqMonotonic
  <2>3. /\ Head(queue[c]) \in 1..MaxFrames /\ Tail(queue[c]) \in Seq(1..MaxFrames)
        /\ Len(Tail(queue[c])) = Len(queue[c]) - 1
    BY <1>1, <2>1, HeadTailProperties
  <2>4. Len(queue[c]) \in Nat
    BY <2>1
  <2> QED BY <2>2, <2>3, <2>4
<1>4. handler' = [handler EXCEPT ![c] = h] /\ account' = [account EXCEPT ![c] = a]
  BY <1>2 DEF Take
<1>5. /\ h \in Handlers /\ h.open /\ h.pc = "sending"
      /\ a \in Accounts /\ a.base = account[c].base /\ a.missed = account[c].missed
      /\ a.last = e
  <2> HIDE DEF e
  <2>1. e \in 0..MaxFrames /\ e \in Nat
    BY <1>3, ClientConstants
  <2>2. handler[c] \in Handlers /\ account[c] \in Accounts
    BY <1>2
  <2>3. h \in Handlers /\ h.open = handler[c].open /\ h.pc = "sending"
    BY <2>1, <2>2, EventNoted DEF Handlers, HandlerStates
  <2>4. /\ a \in Accounts /\ a.base = account[c].base /\ a.missed = account[c].missed
        /\ a.last = e
    BY <2>1, <2>2 DEF Accounts
  <2> QED BY <1>1, <2>3, <2>4
<1> HIDE DEF e, h, a
<1>6. /\ queue' \in [Clients -> Seq(1..MaxFrames)]
      /\ \A d \in Clients : queue'[d] = IF d = c THEN Tail(queue[c]) ELSE queue[d]
  BY <1>1, <1>2, <1>3
<1>7. \A d \in Clients : Len(queue'[d]) <= SubscriberCapacity
  BY <1>2, <1>3, <1>6, ClientConstants
<1>8. /\ account' \in [Clients -> Accounts]
      /\ \A d \in Clients : account'[d] = IF d = c THEN a ELSE account[d]
  BY <1>2, <1>4, <1>5
<1>9. TypeOK' /\ PuttingInv'
  BY <1>1, <1>2, <1>4, <1>5, <1>6, <1>7, <1>8, HandlerTypes
<1>10. Fits(Held(c), Due(c)) /\ Held(c) \in Seq(Nat) /\ Held(c) # <<>> /\ Head(Held(c)) = e
       /\ Held(c)' = Tail(Held(c))
  <2>1. Fits(Held(c), Due(c))
    BY <1>1 DEF ClientInv, Open, Accounted
  <2>2. CASE c \in worker.targets
    <3>1. Held(c) = Append(queue[c], published) /\ Held(c)' = Append(Tail(queue[c]), published)
      BY <1>1, <1>6, <2>2 DEF Held
    <3>2. Head(Append(queue[c], published)) = Head(queue[c])
          /\ Tail(Append(queue[c], published)) = Append(Tail(queue[c]), published)
      BY <1>1, <1>3, HeadTailAppend
    <3> QED BY <1>2, <1>3, <2>1, <3>1, <3>2, AppendProperties DEF e
  <2>3. CASE c \notin worker.targets
    BY <1>1, <1>3, <1>6, <2>1, <2>3 DEF Held, e
  <2> QED BY <2>2, <2>3
<1>11. Due(c)' = {x \in Due(c) : x > e} /\ e <= published
  <2>1. e \in Due(c)
    <3>1. Len(Held(c)) \in Nat \ {0} /\ Held(c)[1] = e
      BY <1>10, EmptySeq
    <3> QED BY <1>10, <3>1, InRange DEF Fits
  <2>2. /\ account[c].last \in Nat /\ e \in Nat /\ e > account[c].last /\ e <= published
    BY <1>2, <1>3, <2>1 DEF Due, Accounts
  <2> QED BY <1>1, <1>2, <1>5, <1>8, <2>2 DEF Due
<1>12. Accounted(c)'
  BY <1>10, <1>11, FitsTail DEF Accounted
<1>13. ASSUME NEW d \in Clients PROVE StreamInv(d)' /\ NotedInv(d)'
  BY <1>1, <1>2, <1>4, <1>5, <1>6, <1>8, <1>11, <1>13
     DEF ClientInv, ShapeInv, StreamInv, NotedInv
<1>14. CountInv'
  BY <1>1, <1>5, <1>8, SameMisses DEF ClientInv, CountInv
<1>15. ASSUME NEW d \in Clients, d # c, handler'[d].open PROVE Accounted(d)'
  <2>1. handler[d].open
    BY <1>2, <1>4, <1>15
  <2> QED BY <1>1, <1>6, <1>8, <1>15, <2>1, SameClient DEF ClientInv, Open
<1> QED BY <1>9, <1>12, <1>13, <1>14, <1>15 DEF ClientInv, ShapeInv, Open

LEMMA RecvKeeps ==
    ASSUME ClientInv, NEW c \in Clients, Recv(c)
    PROVE  ClientInv'
<1>1. /\ handler[c].pc = "recv"
      /\ UNCHANGED <<queue, sends, worker, published, cycles, drops, account>>
      /\ handler[c] \in Handlers /\ inbox \in [Clients -> Seq(AllMessages)]
  BY HandlerType DEF Recv, At, RestOfDaemon
<1>2. PICK n \in 1..Len(inbox[c]) :
        /\ inbox' = [inbox EXCEPT ![c] = SubSeq(@, n + 1, Len(@))]
        /\ \/ CloseStream(c)
           \/ handler' = [handler EXCEPT ![c].pc = "handling",
                                         ![c].batch = SubSeq(inbox[c], 1, n)]
  BY DEF Recv
<1> DEFINE chunk == SubSeq(inbox[c], 1, n)
<1>3. /\ chunk \in Seq(AllMessages) /\ Len(chunk) = n /\ chunk # <<>>
      /\ SubSeq(inbox[c], n + 1, Len(inbox[c])) \in Seq(AllMessages)
  <2>1. inbox[c] \in Seq(AllMessages) /\ Len(inbox[c]) \in Nat
    BY <1>1
  <2>2. \A i \in 1..Len(inbox[c]) : inbox[c][i] \in AllMessages
    BY <2>1
  <2>3. chunk \in Seq(AllMessages) /\ Len(chunk) = n
    BY <2>1, <2>2, SubSeqProperties
  <2>4. SubSeq(inbox[c], n + 1, Len(inbox[c])) \in Seq(AllMessages)
    BY <2>1, <2>2, SubSeqProperties
  <2> QED BY <2>3, <2>4
<1>4. inbox' \in [Clients -> Seq(AllMessages)]
  BY <1>1, <1>2, <1>3
<1>5. CASE CloseStream(c)
  BY <1>1, <1>4, <1>5, CloseKeeps
<1>6. CASE handler' = [handler EXCEPT ![c].pc = "handling", ![c].batch = chunk]
  <2> DEFINE h == [handler[c] EXCEPT !.pc = "handling", !.batch = chunk]
  <2> HIDE DEF chunk
  <2>1. handler' = [handler EXCEPT ![c] = h]
    BY <1>6, HandlerType
  <2>2. h \in Handlers /\ h.open = handler[c].open /\ h.pc = "handling" /\ h.batch = chunk
    BY <1>1, <1>3 DEF Handlers, HandlerStates
  <2> HIDE DEF h
  <2> QED BY <1>1, <1>3, <1>4, <1>6, <2>1, <2>2, MoveKeeps
<1> QED BY <1>2, <1>5, <1>6

LEMMA SendKeeps ==
    ASSUME ClientInv, NEW c \in Clients, Send(c)
    PROVE  ClientInv'
<1>1. /\ UNCHANGED <<handler, queue, worker, published, cycles, drops, account>>
      /\ sends \in [Clients -> Nat] /\ sends' = [sends EXCEPT ![c] = @ + 1]
  BY DEF Send, RestOfDaemon, ClientInv, TypeOK
<1>2. PICK m \in Messages(c) : inbox' = [inbox EXCEPT ![c] = Append(@, m)]
  BY DEF Send
<1>3. inbox' \in [Clients -> Seq(AllMessages)]
  <2>1. m \in AllMessages
    BY MessagesKnown
  <2> QED BY <1>2, <2>1, HandlerType
<1>4. TypeOK'
  <2>1. sends' \in [Clients -> Nat]
    BY <1>1
  <2> QED BY <1>1, <1>3, <2>1 DEF ClientInv, TypeOK
<1>5. ShapeInv'
  BY <1>1 DEF ClientInv, ShapeInv, PuttingInv, StreamInv, NotedInv
<1>6. CountInv' /\ (\A d \in Open : Accounted(d))'
  BY <1>1, HandlerKeeps
<1> QED BY <1>4, <1>5, <1>6 DEF ClientInv

LEMMA OtherHandlerKeeps ==
    ASSUME ClientInv, NEW c \in Clients,
           Emit(c) \/ EmitFails(c) \/ Waits(c) \/ RecvTimesOut(c) \/ RecvFails(c)
    PROVE  ClientInv'
<1>1. /\ handler[c].pc \in {"serving", "sending", "recv"}
      /\ UNCHANGED <<inbox, sends, worker, published, cycles, drops, account>>
      /\ handler[c] \in Handlers /\ inbox' \in [Clients -> Seq(AllMessages)]
  BY HandlerType
     DEF Emit, EmitFails, Waits, RecvTimesOut, RecvFails, At, RestOfDaemon
<1>2. CASE EmitFails(c) \/ RecvFails(c)
  BY <1>1, <1>2, CloseKeeps DEF EmitFails, RecvFails
<1>3. CASE Waits(c) \/ RecvTimesOut(c)
  <2>1. PICK pc \in {"serving", "recv"} :
          handler' = [handler EXCEPT ![c].pc = pc] /\ UNCHANGED queue
    BY <1>3 DEF Waits, RecvTimesOut, Moves
  <2> DEFINE h == [handler[c] EXCEPT !.pc = pc]
  <2>2. handler' = [handler EXCEPT ![c] = h]
    BY <2>1, HandlerType
  <2>3. h \in Handlers /\ h.open = handler[c].open /\ h.pc = pc
    BY <1>1 DEF Handlers, HandlerStates
  <2> HIDE DEF h
  <2> QED BY <1>1, <2>1, <2>2, <2>3, MoveKeeps
<1>4. CASE Emit(c)
  <2> DEFINE h == [handler[c] EXCEPT !.pc = "serving", !.event = 0]
  <2>1. handler' = [handler EXCEPT ![c] = h] /\ UNCHANGED queue
    BY <1>4, HandlerType DEF Emit
  <2>2. 0 \in 0..MaxFrames
    BY ClientConstants
  <2>3. h \in Handlers /\ h.open = handler[c].open /\ h.pc = "serving"
    BY <1>1, <2>2, EventNoted DEF Handlers, HandlerStates
  <2> HIDE DEF h
  <2> QED BY <1>1, <2>1, <2>3, MoveKeeps
<1> QED BY <1>2, <1>3, <1>4

LEMMA ClientNext == ClientInv /\ [Next]_vars => ClientInv'
<1> SUFFICES ASSUME ClientInv, [Next]_vars PROVE ClientInv'
  OBVIOUS
<1>1. CASE WorkerSteps \/ Publish \/ BeginCycle
  BY <1>1, PublishKeeps, PutKeeps, WorkerKeeps DEF WorkerSteps
<1>2. ASSUME NEW c \in Clients,
             HandlerSteps(c) \/ Connect(c) \/ Send(c) \/ Recv(c) \/ RecvFails(c)
      PROVE  ClientInv'
  BY <1>2, TakeKeeps, OtherHandlerKeeps, HandleKeeps, ConnectKeeps, SendKeeps,
     RecvKeeps DEF HandlerSteps
<1>3. CASE UNCHANGED vars
  <2>1. TypeOK' /\ ShapeInv'
    BY <1>3 DEF vars, ClientInv, TypeOK, ShapeInv, PuttingInv, StreamInv, NotedInv
  <2>2. CountInv' /\ (\A d \in Open : Accounted(d))'
    BY <1>3, HandlerKeeps DEF vars
  <2> QED BY <2>1, <2>2 DEF ClientInv
<1> QED BY <1>1, <1>2, <1>3 DEF Next

\* The invariant of the client streams: what each queue holds is exactly what
\* its client is due, in order, and every miss is counted.
THEOREM ClientInvariant == Spec => []ClientInv
<1>1. Init => ClientInv
  BY ClientInit
<1>2. ClientInv /\ [Next]_vars => ClientInv'
  BY ClientNext
<1> QED BY <1>1, <1>2, PTL DEF Spec

\* The types of the handlers, the queues and the worker; no queue outgrows
\* its capacity although the worker puts without the handler's knowledge.
THEOREM ClientTypeCorrect == Spec => []TypeOK
<1>1. ClientInv => TypeOK
  BY DEF ClientInv
<1> QED BY <1>1, ClientInvariant, PTL

\* ClientsAccounted: a client that is served gets every frame since its
\* stream was opened, in order and once, or the miss is counted in
\* subscriber_drops.
THEOREM AlwaysAccounted == Spec => []ClientsAccounted
<1>1. ClientInv => ClientsAccounted
  BY AccountedFromInv
<1> QED BY <1>1, ClientInvariant, PTL
=============================================================================
