--------------------------- MODULE MCKissDataPath ---------------------------
(* TLC instance of KissDataPath. *)
EXTENDS KissDataPath, TLC

Initial == [generation |-> 0, txdelay |-> 30, persist |-> 63, slottime |-> 1,
            fullduplex |-> 0]

\* An update of the slot, an update of another field, and refused messages:
\* a zero slot, full duplex, and DATA for another port.
MCControls ==
    { [port |-> 0, command |-> "slottime", length |-> 1, value |-> 2],
      [port |-> 0, command |-> "persist", length |-> 1, value |-> 255],
      [port |-> 0, command |-> "slottime", length |-> 1, value |-> 0],
      [port |-> 0, command |-> "fullduplex", length |-> 1, value |-> 1],
      [port |-> 1, command |-> "data", length |-> 20, value |-> 0] }

MCRawSamples == {83, 86, 90, 256}
MCRandomBytes == {63, 64}

\* The connections are interchangeable.
Symmetry == Permutations(Connections)
=============================================================================
