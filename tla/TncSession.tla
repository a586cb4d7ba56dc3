----------------------------- MODULE TncSession -----------------------------
(***************************************************************************)
(* The KISS parameter state (TNCSessionState): one immutable snapshot that *)
(* a control message replaces under the session lock, so that applying a   *)
(* message and capturing the snapshot are atomic.  The message counters    *)
(* are operator diagnostics and are left out.                              *)
(***************************************************************************)
EXTENDS Integers

ParameterCommands == {"txdelay", "persist", "slottime", "fullduplex"}

Snapshots == [generation : Nat, txdelay : 0..255, persist : 0..255,
              slottime : 1..255, fullduplex : {0}]

\* The commands a client may send on a port; "data" on a port other than 0
\* also comes here, "other" is any command the TNC does not know.
Commands == ParameterCommands \cup {"data", "other"}

ControlMessages == [port : 0..15, command : Commands, length : Nat,
                    value : 0..255]

\* apply publishes a new snapshot only for a one-byte parameter command on
\* port 0 whose value the scheduler supports.
Acceptable(m) ==
    /\ m.port = 0
    /\ m.command \in ParameterCommands
    /\ m.length = 1
    /\ m.command = "slottime" => m.value # 0
    /\ m.command = "fullduplex" => m.value = 0

\* apply: exactly one field and the generation change together.
Apply(snapshot, m) ==
    IF Acceptable(m)
    THEN [snapshot EXCEPT !.generation = @ + 1, ![m.command] = m.value]
    ELSE snapshot
=============================================================================
