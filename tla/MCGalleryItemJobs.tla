-------------------------- MODULE MCGalleryItemJobs --------------------------
(* An instance of GalleryItemJobs for TLC: a job of three images, which is an *)
(* upload to NodeImage or an analysis.                                       *)
EXTENDS GalleryItemJobs, TLC

CONSTANTS j1, i1, i2, i3

MCMixes == {[j \in Jobs |-> kind] : kind \in {"nodeimage", "analyze"}}
MCImages == [j \in Jobs |-> {i1, i2, i3}]
MCMaxClaims == [j \in Jobs |-> 2]
MCLimit == [k \in Kinds |-> IF k = "export" THEN 5 ELSE 1]
=============================================================================
