-------------------------- MODULE MCGalleryLibrary --------------------------
(* Instances of GalleryLibrary for TLC: a generated or an imported name with  *)
(* two disturbances, or both names with one disturbance and one thumbnail worker, *)
(* which share the limit of a collection.                                     *)
EXTENDS GalleryLibrary

CONSTANTS g, a, w1, w2

MCPlace == <<Image(g), Image(a), Thumb(g), Thumb(a)>>

VARIABLE names      \* how many names are used

Used == {f \in Names : puts[f] > 0}

Bounded ==
    /\ UNCHANGED names
    /\ names = 1 => Cardinality(Used') =< 1
    /\ names = 2 => count' =< 1 /\ work'[w2] = NoWork /\ \A f \in Names : puts'[f] =< 1

all == <<vars, names>>
MCInit == LibraryInit /\ names \in {1, 2}
MCNext == LibraryNext /\ Bounded
MCSpec == MCInit /\ [][MCNext]_all /\ WF_all(Background /\ Bounded)
=============================================================================
