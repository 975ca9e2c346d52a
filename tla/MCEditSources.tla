---------------------------- MODULE MCEditSources ----------------------------
(* Instances of EditSources for TLC: one edit job of one unit.               *)
EXTENDS EditSources

CONSTANTS j1, u1

MCOneUnit == {u1}
MCParentOf == [u \in Units |-> j1]
MCEditBytes == [j \in Jobs |-> 1]
=============================================================================
