--------------------------- MODULE RequestService ---------------------------
(***************************************************************************)
(* What the admission queue promises its clients, without time, channel    *)
(* access, parameters or threads: at most Capacity requests wait, they are *)
(* served in the order of admission, the transmitter is called at most     *)
(* once for each of them, for one request at a time, every admitted        *)
(* request ends in exactly one way, and after a failed call, or any other  *)
(* failure of the service, the transmitter is never called again.          *)
(***************************************************************************)
EXTENDS Integers, Sequences

CONSTANT
    Capacity    \* how many admitted requests may wait

VARIABLES
    waiting,    \* the ids of the admitted requests that have not ended
    onAir,      \* the id for which the transmitter is being called, or 0
    ended,      \* <<id, outcome>> of the requests that ended, in order
    halted      \* the service failed

vars == <<waiting, onAir, ended, halted>>

Init ==
    /\ waiting = <<>>
    /\ onAir = 0
    /\ ended = <<>>
    /\ halted = FALSE

\* The next id: ids are given in the order of admission and never again.
NextId == Len(ended) + Len(waiting) + 1

Admit ==
    /\ Len(waiting) < Capacity
    /\ waiting' = Append(waiting, NextId)
    /\ UNCHANGED <<onAir, ended, halted>>

End(outcome) ==
    /\ waiting' = Tail(waiting)
    /\ ended' = Append(ended, <<Head(waiting), outcome>>)

\* The oldest request's time is over: it ends without being transmitted.
Expire ==
    /\ waiting # <<>> /\ onAir = 0 /\ ~halted
    /\ End("timed-out")
    /\ UNCHANGED <<onAir, halted>>

Transmit ==
    /\ waiting # <<>> /\ onAir = 0 /\ ~halted
    /\ onAir' = Head(waiting)
    /\ UNCHANGED <<waiting, ended, halted>>

TransmitSucceeds ==
    /\ onAir # 0
    /\ End("dispatched")
    /\ onAir' = 0
    /\ UNCHANGED halted

TransmitFails ==
    /\ onAir # 0
    /\ End("downstream-failed")
    /\ onAir' = 0
    /\ halted' = TRUE

Halt ==
    /\ onAir = 0
    /\ halted' = TRUE
    /\ UNCHANGED <<waiting, onAir, ended>>

Next ==
    Admit \/ Expire \/ Transmit \/ TransmitSucceeds \/ TransmitFails \/ Halt

Spec == Init /\ [][Next]_vars
=============================================================================
