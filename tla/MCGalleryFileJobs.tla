-------------------------- MODULE MCGalleryFileJobs --------------------------
(* Instances of GalleryFileJobs and GallerySync for TLC, which share the rows: *)
(* two imports, which run one at a time, or two exports, or an export and a    *)
(* direct download; or a sync.                                                 *)
EXTENDS GalleryFileJobs, GallerySync, TLC

CONSTANTS j1, j2

\* The second job of the last mix is of a kind that neither module admits.
MCMixes == {[j \in Jobs |-> kind] : kind \in {"import", "export"}}
           \cup {[j \in Jobs |-> IF j = j1 THEN first ELSE second] :
                   <<first, second>> \in {<<"direct", "export">>, <<"sync", "analyze">>}}
MCMaxClaims == [j \in Jobs |-> IF j = j1 THEN 2 ELSE 1]
MCLimit == [k \in Kinds |-> IF k = "export" THEN 2 ELSE 1]

all == <<fileVars, syncVars>>
Syncs == KindOf(j1) = "sync"

\* Without a sync its variables have one value.
MCInit == /\ FilesInit /\ SyncInit
          /\ Syncs \/ (listed = Images \ Changing /\ synced = {} /\ \A j \in Jobs : full[j])
          /\ Syncs => ~full[j2]

InSync == Syncs /\ UNCHANGED <<file, bytes, up, run, begun, dl, known, astray, outlived>>
InFiles == ~Syncs /\ UNCHANGED <<full, cursor, syncing, library, synced, histories>>

MCNext == \/ InFiles /\ FilesNext
          \/ InSync /\ SyncNext

\* The fairness of each of them; a behaviour is one of one of them.
MCSpec ==
    /\ MCInit /\ [][MCNext]_all
    /\ WF_all(\/ InFiles /\ \E j \in Jobs : \E t \in Claim(j) : RunStep(j, t)
              \/ InSync /\ \E j \in Jobs, w \in Workers : SyncStep(w, j))
    /\ WF_all(\/ InFiles /\ \E j \in Jobs, w \in Workers : Start(j, w)
              \/ InSync /\ \E j \in Jobs, w \in Workers : ClaimSync(j, w))
    /\ WF_all(InFiles /\ \E j \in Jobs, r \in Requests : Prepare(j, r) \/ Stream(j, r) \/ StreamEnd(j, r))
    /\ WF_all(\/ InFiles /\ \E j \in Jobs : Expire(j) \/ DropSlot(j) \/ Forget(j) \/ BytesLapse(j)
              \/ InSync /\ \E j \in Jobs : LapseSync(j))
=============================================================================
