------------------------ MODULE MCImageUnitExecution ------------------------
(* Instances of ImageUnitExecution for TLC: one job of one or two units.     *)
EXTENDS ImageUnitExecution, TLC

CONSTANTS j1, u1, u2

MCOneUnit == {u1}
MCTwoUnits == {u1, u2}
MCParentOf == [u \in Units |-> j1]
MCEditBytes == [j \in Jobs |-> 0]

MCSymmetry == Permutations({u1, u2})
=============================================================================
