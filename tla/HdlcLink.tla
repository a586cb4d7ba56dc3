------------------------------- MODULE HdlcLink -------------------------------
(***************************************************************************)
(* A frame on the air, symbol by symbol: TXDELAY in whole flags, HDLC bit  *)
(* stuffing, NRZI and the packed selectors of the modem's request on the   *)
(* way out; one timing hypothesis of the receiver, its NRZI memory, flag   *)
(* detector and frame buffer, on the way in.  A symbol is one of the two   *)
(* tones; deciding which one it is, from samples, is taken for granted.    *)
(***************************************************************************)
EXTENDS Integers, Sequences, SequencesExt

CONSTANTS
    Frames,         \* frames to be sent, as sequences of bytes
    Delays,         \* TXDELAY values, in units of 10 ms
    MaxSelectors,   \* MAX_SELECTORS
    MaxStuffedBits, \* MAX_STUFFED_BITS
    MaxNoise        \* bound: symbols heard before a frame

ASSUME HdlcLinkAssumption ==
    /\ Frames \subseteq Seq(0..255) \ {<<>>}
    /\ Delays \subseteq 0..255
    /\ {MaxSelectors, MaxStuffedBits} \subseteq Nat \ {0} /\ MaxNoise \in Nat

VARIABLES
    hyp,        \* _Hypothesis: [tone, shift, open, after]
    noise,      \* symbols heard before the frame
    sender,     \* the frame, its request [count, packed], selectors of the
                \* opening flags, selectors sent; as history, whether the
                \* receiver heard a mark last and TXDELAY is zero
    heard       \* candidate frames since the data began

hdlcVars == <<hyp, noise, sender, heard>>

-----------------------------------------------------------------------------
MARK == 0
SPACE == 1
NoTone == 2     \* nothing was heard yet

Flag == <<0, 1, 1, 1, 1, 1, 1, 0>>
PostFlags == 3

Repeated(s, n) == FlattenSeq([i \in 1..n |-> s])

\* byte_bits_lsb
ByteBits(bytes) == FlattenSeq([i \in 1..Len(bytes) |->
                      [k \in 1..8 |-> (bytes[i] \div 2^(k - 1)) % 2]])

\* bits_to_bytes_lsb, of a whole number of octets.
BitsToBytes(bits) ==
    [i \in 1..(Len(bits) \div 8) |->
        FoldLeft(LAMBDA value, k : value + bits[8 * (i - 1) + k] * 2^(k - 1),
                 0, <<1, 2, 3, 4, 5, 6, 7, 8>>)]

\* One turn of stuff_bits.
Stuffed(s, bit) ==
    LET ones == IF bit = 1 THEN s.ones + 1 ELSE 0
    IN  [bits |-> s.bits \o (IF ones = 5 THEN <<bit, 0>> ELSE <<bit>>),
         ones |-> IF ones = 5 THEN 0 ELSE ones]

StuffBits(bits) == FoldLeft(Stuffed, [bits |-> <<>>, ones |-> 0], bits).bits

\* One turn of unstuff_bits: behind five ones only a zero is legal.
Unstuffed(s, bit) ==
    IF s.ones = 5
    THEN [s EXCEPT !.ones = 0, !.valid = @ /\ bit = 0]
    ELSE [s EXCEPT !.bits = Append(@, bit),
                   !.ones = IF bit = 1 THEN @ + 1 ELSE 0]

\* The bits, unless the stuffing is broken or a stuffed bit is missing.
UnstuffBits(bits) ==
    LET s == FoldLeft(Unstuffed, [bits |-> <<>>, ones |-> 0, valid |-> TRUE],
                      bits)
    IN  [s EXCEPT !.valid = @ /\ s.ones # 5]

\* Mutant: rounded down.
PreFlagsDown(units) == IF units = 0 THEN 1 ELSE (12 * units) \div 8

\* resolve_txdelay: 12 symbols a unit, rounded up to flags, at least one.
PreFlags(units) == IF units = 0 THEN 1 ELSE (12 * units + 7) \div 8

\* hdlc_bits
HdlcBits(frame, units) ==
    Repeated(Flag, PreFlags(units)) \o StuffBits(ByteBits(frame))
        \o Repeated(Flag, PostFlags)

\* nrzi_encode: a zero changes the tone, a one keeps it.
NrziEncode(bits) ==
    LET ToneOf(tones) == IF tones = <<>> THEN MARK ELSE tones[Len(tones)]
    IN  FoldLeft(LAMBDA tones, bit :
                    Append(tones, IF bit = 0 THEN 1 - ToneOf(tones)
                                  ELSE ToneOf(tones)),
                 <<>>, bits)

\* Selector i, counted from 0, of packed bytes, the most significant first.
Selector(packed, i) == (packed[i \div 8 + 1] \div 2^(7 - (i % 8))) % 2

PackSelectors(selectors) ==
    [b \in 1..(Len(selectors) + 7) \div 8 |->
        FoldLeft(LAMBDA value, k :
                    LET i == 8 * (b - 1) + k
                    IN  IF i <= Len(selectors)
                        THEN value + selectors[i] * 2^(8 - k) ELSE value,
                 0, <<1, 2, 3, 4, 5, 6, 7, 8>>)]

\* _prepare_frame, as far as it can serialize.
Prepared(frame, units) ==
    LET selectors == NrziEncode(HdlcBits(frame, units))
    IN  [count |-> Len(selectors), packed |-> PackSelectors(selectors)]

\* The requests of this instance, computed once.
Requests == [frame \in Frames, units \in Delays |-> Prepared(frame, units)]

\* rf_tx_tones_request: what the modem can be asked to send.
Sendable(request) ==
    /\ request.count \in 1..MaxSelectors
    /\ Len(request.packed) = (request.count + 7) \div 8

-----------------------------------------------------------------------------
(***************************************************************************)
(* The receiver                                                            *)
(***************************************************************************)

\* _finish_flag: what lies between two flags, if it is well stuffed and of
\* whole octets, goes on to the frame check.
Candidate(after) ==
    LET stuffed == SubSeq(after, 1, Len(after) - 8)
        s == UnstuffBits(stuffed)
    IN  IF stuffed # <<>> /\ s.valid /\ Len(s.bits) % 8 = 0
        THEN <<BitsToBytes(s.bits)>> ELSE <<>>

\* The current flag opens the next frame.
OpensFrame(h) == [h EXCEPT !.open = TRUE, !.after = <<>>]

Buffered(h, bit) ==
    IF ~h.open THEN h
    ELSE IF Len(h.after) = MaxStuffedBits
    THEN [h EXCEPT !.open = FALSE, !.after = <<>>]
    ELSE [h EXCEPT !.after = Append(@, bit)]

\* _emit_bit: the hypothesis, and the candidate it completes, if any.
EmitBit(h, bit) ==
    LET kept == IF Len(h.shift) = 8 THEN Tail(h.shift) ELSE h.shift
        shift == Append(kept, bit)
        next == [Buffered(h, bit) EXCEPT !.shift = shift]
    IN  IF shift # Flag THEN [hyp |-> next, frames |-> <<>>]
        ELSE [hyp |-> OpensFrame(next),
              frames |-> IF next.open THEN Candidate(next.after) ELSE <<>>]

\* _classify_hypothesis, once the tone is known.
Classify(h, tone) ==
    EmitBit([h EXCEPT !.tone = tone],
            IF h.tone \in {NoTone, tone} THEN 1 ELSE 0)

-----------------------------------------------------------------------------
Silent == [frame |-> <<>>, request |-> [count |-> 0, packed |-> <<>>],
           pre |-> 0, sent |-> 0, afterMark |-> FALSE, zero |-> FALSE]

HdlcInit ==
    /\ hyp = [tone |-> NoTone, shift |-> <<>>, open |-> FALSE, after |-> <<>>]
    /\ noise = 0
    /\ sender = Silent
    /\ heard = <<>>

\* Anything may have been heard before a frame begins.
Noise(tone) ==
    /\ noise < MaxNoise
    /\ sender = Silent
    /\ hyp' = Classify(hyp, tone).hyp
    /\ noise' = noise + 1
    /\ UNCHANGED <<sender, heard>>

\* A frame whose selectors exceed the modem's limit is rejected.
BeginFrame(frame, units) ==
    /\ sender = Silent
    /\ LET request == Requests[frame, units] IN
       sender' = [frame |-> frame,
                  request |-> IF Sendable(request) THEN request
                              ELSE Silent.request,
                  pre |-> 8 * PreFlags(units), sent |-> 0,
                  afterMark |-> hyp.tone = MARK, zero |-> units = 0]
    /\ noise' = MaxNoise
    /\ UNCHANGED <<hyp, heard>>

\* The modem sends the next selector and the receiver hears it.
SendSymbol ==
    /\ sender.sent < sender.request.count
    /\ LET tone == Selector(sender.request.packed, sender.sent)
           result == Classify(hyp, tone)
       IN  /\ sender' = [sender EXCEPT !.sent = @ + 1]
           /\ hyp' = result.hyp
           /\ heard' = IF sender.sent < sender.pre THEN heard
                       ELSE heard \o result.frames
    /\ UNCHANGED noise

HdlcNext ==
    \/ \E tone \in {MARK, SPACE} : Noise(tone)
    \/ \E frame \in Frames, units \in Delays : BeginFrame(frame, units)
    \/ SendSymbol

HdlcSpec == HdlcInit /\ [][HdlcNext]_hdlcVars

-----------------------------------------------------------------------------
(***************************************************************************)
(* Property                                                                *)
(***************************************************************************)

\* Whatever was heard before, a transmitted frame is received as exactly
\* itself, once, unless its stuffed bits and the closing flag exceed the
\* receiver's buffer; of a frame that is too long for the modem nothing is
\* sent.  It takes a second opening flag, which TXDELAY of at least one unit
\* sends: the first bit of the first flag is read against the tone heard
\* last, and behind a single flag only a mark will do.
FrameGetsThrough ==
    /\ sender # Silent /\ sender.sent = sender.request.count
    /\ sender.zero => sender.afterMark
    =>
        LET stuffed == Len(StuffBits(ByteBits(sender.frame)))
            tooLong == sender.pre + stuffed + 8 * PostFlags > MaxSelectors
        IN  heard = IF stuffed + 8 <= MaxStuffedBits /\ ~tooLong
                    THEN <<sender.frame>> ELSE <<>>
=============================================================================
