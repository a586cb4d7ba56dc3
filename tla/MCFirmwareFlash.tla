--------------------------- MODULE MCFirmwareFlash ---------------------------
(***************************************************************************)
(* The operator's tools for TLC: FirmwareFlash, whose directories are      *)
(* interchangeable, and ProfileSwitch, whose invocations are.  The models  *)
(* share no state: a behaviour takes steps of one, from any of its initial *)
(* states, and leaves the other in one fixed initial state.                *)
(***************************************************************************)
EXTENDS FirmwareFlash, ProfileSwitch, TLC

Symmetry == Permutations(Dirs) \cup Permutations(Invocations)

FlashRests ==
    /\ flash = "stock" /\ service = "inactive" /\ runs = 0
    /\ \A d \in Dirs : dirs[d] = Absent

SwitchRests ==
    /\ config = NoConfig /\ unit.state = "off"
    /\ \A i \in Invocations : cli[i] = Fresh

OperatorInit == Init /\ SwitchInit /\ (FlashRests \/ SwitchRests)

OperatorNext ==
    \/ Next /\ SwitchRests /\ UNCHANGED switchVars
    \/ SwitchNext /\ FlashRests /\ UNCHANGED vars

OperatorSpec == OperatorInit /\ [][OperatorNext]_<<vars, switchVars>>
=============================================================================
