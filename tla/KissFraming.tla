----------------------------- MODULE KissFraming -----------------------------
(***************************************************************************)
(* KISS framing on a client connection: encode, and the incremental        *)
(* decoder that a handler feeds with whatever the socket delivers.  The    *)
(* decoder works byte by byte, so a step is one byte and chunks need no    *)
(* modelling.                                                              *)
(***************************************************************************)
EXTENDS Integers, Sequences, SequencesExt

CONSTANTS
    Bytes,          \* the bytes a client may send
    MaxBody,        \* max_body_bytes
    MaxStream       \* bound: bytes received

FEND == 192
FESC == 219
TFEND == 220
TFESC == 221

ASSUME KissFramingAssumption ==
    /\ Bytes \subseteq 0..255
    /\ {FEND, FESC, TFEND, TFESC} \subseteq Bytes
    /\ MaxBody \in Nat \ {0} /\ MaxStream \in Nat

VARIABLES
    decoder,    \* KISSStreamDecoder: _raw, _escaped, _discard
    discarded,  \* discarded_frames
    messages,   \* the messages decoded so far
    stream      \* history: the bytes received

kissVars == <<decoder, discarded, messages, stream>>

-----------------------------------------------------------------------------
Message(body) == [port |-> body[1] \div 16, command |-> body[1] % 16,
                  frame |-> Tail(body)]

KissMessages == [port : 0..15, command : 0..15, frame : Seq(Bytes)]

Decoders == [raw : Seq(Bytes), escaped : BOOLEAN, discard : BOOLEAN]

KissTypeOK ==
    /\ decoder \in Decoders
    /\ Len(decoder.raw) <= MaxBody
    /\ discarded \in Nat
    /\ messages \in Seq(KissMessages)
    /\ stream \in Seq(Bytes)

Escape(byte) ==
    CASE byte = FEND -> <<FESC, TFEND>>
      [] byte = FESC -> <<FESC, TFESC>>
      [] OTHER -> <<byte>>

\* The body is the type byte and the frame.
Encode(body) ==
    <<FEND>> \o FlattenSeq([i \in 1..Len(body) |-> Escape(body[i])]) \o <<FEND>>

\* Mutant: reset forgets that an escape was open.
ResetKeepsEscape(d) == [d EXCEPT !.raw = <<>>, !.discard = FALSE]

Reset(d) == [raw |-> <<>>, escaped |-> FALSE, discard |-> FALSE]

\* What one byte does to a decoder: the decoder after it, and whether it
\* delivered a message or cost a frame.
Result(d, delivers, discards) ==
    [decoder |-> d, delivers |-> delivers, discards |-> discards]

\* _append: a body over the limit is given up at once.
AppendByte(d, byte) ==
    IF Len(d.raw) >= MaxBody
    THEN Result([d EXCEPT !.discard = TRUE, !.escaped = FALSE], FALSE, TRUE)
    ELSE Result([d EXCEPT !.raw = Append(@, byte), !.escaped = FALSE],
                FALSE, FALSE)

\* Mutant: an invalid escape is dropped and the frame goes on.
FeedEscapedLenient(d, byte) ==
    IF byte = TFEND THEN AppendByte(d, FEND)
    ELSE IF byte = TFESC THEN AppendByte(d, FESC)
    ELSE Result([d EXCEPT !.escaped = FALSE], FALSE, FALSE)

\* The byte after FESC.
FeedEscaped(d, byte) ==
    IF byte = TFEND THEN AppendByte(d, FEND)
    ELSE IF byte = TFESC THEN AppendByte(d, FESC)
    ELSE Result([d EXCEPT !.discard = TRUE, !.escaped = FALSE], FALSE, TRUE)

\* One turn of the loop of feed.
Feed(d, byte) ==
    IF byte = FEND
    THEN Result(Reset(d), d.raw # <<>> /\ ~d.discard /\ ~d.escaped,
                d.escaped /\ ~d.discard)
    ELSE IF d.discard THEN Result(d, FALSE, FALSE)
    ELSE IF d.escaped THEN FeedEscaped(d, byte)
    ELSE IF byte = FESC THEN Result([d EXCEPT !.escaped = TRUE], FALSE, FALSE)
    ELSE AppendByte(d, byte)

-----------------------------------------------------------------------------
KissInit ==
    /\ decoder = [raw |-> <<>>, escaped |-> FALSE, discard |-> FALSE]
    /\ discarded = 0
    /\ messages = <<>>
    /\ stream = <<>>

Receive(byte) ==
    LET result == Feed(decoder, byte)
    IN  /\ Len(stream) < MaxStream
        /\ stream' = Append(stream, byte)
        /\ decoder' = result.decoder
        /\ messages' = IF result.delivers
                       THEN Append(messages, Message(decoder.raw))
                       ELSE messages
        /\ discarded' = IF result.discards THEN discarded + 1 ELSE discarded

KissNext == \E byte \in Bytes : Receive(byte)

KissSpec == KissInit /\ [][KissNext]_kissVars

-----------------------------------------------------------------------------
(***************************************************************************)
(* Properties                                                              *)
(***************************************************************************)

\* The reference, on the whole stream at once: the segments between
\* delimiters, each well escaped or not, and the body it stands for.
Ends == {i \in 1..Len(stream) : stream[i] = FEND}

Segment(end) ==
    LET start == CHOOSE i \in 0..(end - 1) :
                    /\ i \in Ends \cup {0}
                    /\ \A j \in (i + 1)..(end - 1) : j \notin Ends
    IN  SubSeq(stream, start + 1, end - 1)

WellEscaped(s) ==
    \A i \in 1..Len(s) :
        s[i] = FESC => i < Len(s) /\ s[i + 1] \in {TFEND, TFESC}

Unescaped(s) ==
    LET kept == SelectSeq([i \in 1..Len(s) |-> i],
                          LAMBDA i : i = 1 \/ s[i - 1] # FESC)
    IN  [k \in 1..Len(kept) |->
            LET i == kept[k]
            IN  IF s[i] # FESC THEN s[i]
                ELSE IF s[i + 1] = TFEND THEN FEND ELSE FESC]

Good(s) == WellEscaped(s) /\ Len(Unescaped(s)) <= MaxBody

\* The messages are the bodies of the good segments, in order, and every bad
\* segment is counted once: at the byte that spoiled it or, for an escape
\* left open, at its end, however the two causes combine.
MatchesReference ==
    LET ends == SetToSortSeq(Ends, LAMBDA a, b : a < b)
        segments == [k \in 1..Len(ends) |-> Segment(ends[k])]
        good == SelectSeq(segments, LAMBDA s : Good(s) /\ s # <<>>)
        bad == SelectSeq(segments, LAMBDA s : ~Good(s))
    IN  /\ messages = [k \in 1..Len(good) |-> Message(Unescaped(good[k]))]
        /\ discarded = Len(bad) + (IF decoder.discard THEN 1 ELSE 0)

Plain == CHOOSE b \in Bytes : b \notin {FEND, FESC, TFEND, TFESC}

Bodies == UNION {[1..n -> {Plain, FEND, FESC, TFEND}] : n \in 1..MaxBody}

\* The decoder after a sequence of bytes.
After(d, s) == FoldLeft(LAMBDA r, byte : Feed(r.decoder, byte),
                        Result(d, FALSE, FALSE), s)

\* Whatever garbage the connection carried before, the next encoded frame is
\* decoded to exactly itself: its first delimiter ends the garbage, and the
\* delimiter at its end delivers it.
Resynchronises ==
    \A body \in Bodies :
        LET packet == Encode(body)
            before == After(decoder, SubSeq(packet, 1, Len(packet) - 1)).decoder
        IN  /\ Feed(before, FEND).delivers
            /\ before.raw = body
=============================================================================
