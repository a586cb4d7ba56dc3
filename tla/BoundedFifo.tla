----------------------------- MODULE BoundedFifo -----------------------------
(***************************************************************************)
(* What the receive capture promises the host: bytes come out in the order *)
(* they went in, a byte that finds the FIFO full is counted and nothing    *)
(* else is disturbed, and only a new capture forgets either.               *)
(***************************************************************************)
EXTENDS Naturals, Sequences

CONSTANTS
    Bytes,      \* what a byte may be
    Capacity,   \* bytes the FIFO holds
    Limit       \* where the count of drops stays

VARIABLES
    content,    \* the bytes to be read
    overflow    \* how many were dropped

Init == content = <<>> /\ overflow = 0

Put(byte) ==
    /\ Len(content) < Capacity
    /\ content' = Append(content, byte)
    /\ UNCHANGED overflow

Drop ==
    /\ Len(content) = Capacity
    /\ overflow' = IF overflow < Limit THEN overflow + 1 ELSE overflow
    /\ UNCHANGED content

Take ==
    /\ content # <<>>
    /\ content' = Tail(content)
    /\ UNCHANGED overflow

\* A new capture begins.  It may throw bytes away, but not a drop nobody saw.
Clear ==
    /\ overflow = 0
    /\ content' = <<>>
    /\ UNCHANGED overflow

Next == Drop \/ Take \/ Clear \/ \E byte \in Bytes : Put(byte)

Spec == Init /\ [][Next]_<<content, overflow>>
=============================================================================
