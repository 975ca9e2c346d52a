----------------------------- MODULE MCJobView -----------------------------
(* Instances of JobView for TLC.                                             *)
EXTENDS JobView, TLC

CONSTANTS w1, t1, t2, t3, s1, s2

\* One stream at a process with two calls, or two streams; and a call elsewhere.
MCOne == (t1 :> w1) @@ (t3 :> Elsewhere) @@ (s1 :> w1)
MCTwo == (t3 :> Elsewhere) @@ (s1 :> w1) @@ (s2 :> w1)
=============================================================================
