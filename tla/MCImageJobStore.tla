-------------------------- MODULE MCImageJobStore --------------------------
(* Instances of ImageJobStore for TLC: a two-unit edit job and a one-unit   *)
(* generation job.                                                          *)
EXTENDS ImageJobStore, TLC

CONSTANTS j1, j2, u1, u2, u3

MCJobs == {j1, j2}
MCUnits == {u1, u2, u3}
MCParentOf == [u \in MCUnits |-> IF u = u3 THEN j2 ELSE j1]

\* Both jobs reserve bytes: 3 together.
MCEditBytes == [j \in MCJobs |-> IF j = j1 THEN 2 ELSE 1]

MCSymmetry == Permutations({u1, u2})
=============================================================================
