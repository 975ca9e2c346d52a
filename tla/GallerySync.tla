----------------------------- MODULE GallerySync -----------------------------
(***************************************************************************)
(* Jobs that copy the gallery to a bucket (services/gallery_sync_jobs.py,  *)
(* integrations/r2/sync.py, repositories/gallery/sync_state.py).           *)
(*                                                                         *)
(* A run goes through the images in the order of their names, page by      *)
(* page: it asks the bucket which of them it has, uploads the rest and     *)
(* stores a checkpoint.  A full comparison resumes behind the checkpoint;  *)
(* otherwise the images recorded in r2_sync_state are left out.  Nothing   *)
(* fences a run: while the bucket is asked about a page no progress is     *)
(* stored, a lease may run out under it, and a second run then writes the  *)
(* same row, checkpoint and records.                                       *)
(*                                                                         *)
(* The bucket is outside: which images it has when it is asked is open.    *)
(***************************************************************************)
EXTENDS GalleryJobRows

CONSTANTS
    N,          \* images, numbered in the order of their names
    BatchSize,  \* GALLERY_SYNC_BATCH_SIZE and R2_SYNC_BATCH_SIZE
    Changing    \* bound: images that are added or deleted meanwhile

ASSUME SyncAssumption == N \in Nat /\ BatchSize \in Nat \ {0} /\ Changing \subseteq 1 .. N

Images == 1 .. N

VARIABLES
    full,       \* payload.full_reconcile of each job
    cursor,     \* payload.start_after_filename
    syncing,    \* the run of each process
    listed,     \* images in gallery_entries
    gone,       \* images that were deleted
    synced,     \* r2_sync_state
    asked,      \* history: images listed from the admission of a job until now
    met,        \* history: images found in the bucket or put there: by the runs of the
                \* job if it compares everything, otherwise by any run at any time
    skipped     \* history: images whose upload failed before a stored checkpoint

library == <<listed, gone>>
histories == <<asked, met, skipped>>
syncVars == <<row, claims, full, cursor, syncing, listed, gone, synced, asked, met, skipped>>

SyncPc == {"prepare", "page", "look", "upload", "record", "finish", "fail"}
Resting == [pc |-> "idle", job |-> Nobody, pos |-> 0, todo |-> {}, ok |-> {}, bad |-> {}, last |-> FALSE]

SyncInit ==
    /\ RowsInit
    /\ full \in [Jobs -> BOOLEAN]
    /\ cursor = [j \in Jobs |-> 0]
    /\ syncing = [w \in Workers |-> Resting]
    /\ listed \in {F \in SUBSET Images : Images \ Changing \subseteq F}
    /\ gone = {}
    /\ synced \in SUBSET listed
    /\ asked = [j \in Jobs |-> {}]
    /\ met = [j \in Jobs |-> IF full[j] THEN {} ELSE synced]
    /\ skipped = [j \in Jobs |-> {}]

\* Worker w is at a place in the run of job j.
Runs(w, j, pc) == syncing[w].pc = pc /\ syncing[w].job = j
Turns(w, r) == syncing' = [syncing EXCEPT ![w] = r]
Steps(w, pc) == Turns(w, [syncing[w] EXCEPT !.pc = pc])

-----------------------------------------------------------------------------
(* Jobs, their claims and their leases.                                      *)

SubmitSync(j) == /\ KindOf(j) = "sync"
                 /\ Admit(j, "queued")
                 /\ asked' = [asked EXCEPT ![j] = listed]
                 /\ UNCHANGED <<full, cursor, syncing, library, synced, met, skipped>>

\* A process runs one sync at a time.  What the row says at the claim is where
\* the run starts, whatever is stored later.
ClaimSync(j, w) == /\ syncing[w].pc = "idle"
                   /\ KindOf(j) = "sync"
                   /\ ClaimRow(j, w)
                   /\ Turns(w, [Resting EXCEPT !.pc = "prepare", !.job = j, !.pos = cursor[j]])
                   /\ UNCHANGED <<full, cursor, library, synced, histories>>

\* Time passes, under a run as well.
LapseSync(j) == /\ Lapse(j, TRUE)
                /\ UNCHANGED <<full, cursor, syncing, library, synced, histories>>

\* Progress is stored.
RenewSync(j) == /\ Renew(j)
                /\ \E w \in Workers : syncing[w].job = j /\ syncing[w].pc \notin {"prepare", "fail"}
                /\ UNCHANGED <<full, cursor, syncing, library, synced, histories>>

CollectSync(j) == /\ Collect(j)
                  /\ UNCHANGED <<full, cursor, syncing, library, synced, histories>>

\* The process stops.
StopSync(w) == /\ syncing[w].pc # "idle"
               /\ \A j \in Jobs : syncing[w].job = j => claims[j] < MaxClaims[j]
               /\ Turns(w, Resting)
               /\ UNCHANGED <<row, claims, full, cursor, library, synced, histories>>

-----------------------------------------------------------------------------
(* The run.                                                                  *)

\* The row says "running" again, whatever became of it since the claim.
PrepareSync(w, j) == /\ Runs(w, j, "prepare")
                     /\ Write(j, "running")
                     /\ Steps(w, "page")
                     /\ UNCHANGED <<claims, full, cursor, library, synced, histories>>

\* The images to compare: a full comparison ignores what is recorded.
Compared(w, j) == {f \in listed : f > syncing[w].pos /\ (full[j] \/ f \notin synced)}

\* A page is read when the one before it is done, unless that was a short one.
ReadPage(w, j) ==
    /\ Runs(w, j, "page") /\ ~syncing[w].last
    /\ \E p \in Compared(w, j) :
          LET page == {f \in Compared(w, j) : f <= p}
          IN  /\ \/ Cardinality(page) = BatchSize
                 \/ page = Compared(w, j) /\ Cardinality(page) < BatchSize
              /\ Turns(w, [syncing[w] EXCEPT !.pc = "look", !.pos = p, !.todo = page, !.ok = {},
                                             !.last = Cardinality(page) < BatchSize])
    /\ UNCHANGED <<row, claims, full, cursor, library, synced, histories>>

ReadAll(w, j) == /\ Runs(w, j, "page")
                 /\ syncing[w].last \/ Compared(w, j) = {}
                 /\ Steps(w, "finish")
                 /\ UNCHANGED <<row, claims, full, cursor, library, synced, histories>>

Meet(j, F) == /\ met' = [k \in Jobs |-> IF k = j \/ ~full[k] THEN met[k] \cup F ELSE met[k]]
              /\ UNCHANGED <<asked, skipped>>

\* The bucket has some of the page.
LookUp(w, j) ==
    /\ Runs(w, j, "look")
    /\ \E F \in SUBSET syncing[w].todo :
          /\ Turns(w, [syncing[w] EXCEPT !.pc = "upload", !.todo = @ \ F, !.ok = F])
          /\ Meet(j, F)
    /\ UNCHANGED <<row, claims, full, cursor, library, synced>>

\* Uploads end in any order, and one that fails is only counted.
UploadOne(w, j) ==
    /\ Runs(w, j, "upload")
    /\ \E f \in syncing[w].todo :
          \/ /\ Turns(w, [syncing[w] EXCEPT !.todo = @ \ {f}, !.ok = @ \cup {f}])
             /\ Meet(j, {f})
          \/ /\ Turns(w, [syncing[w] EXCEPT !.todo = @ \ {f}, !.bad = @ \cup {f}])
             /\ UNCHANGED histories
    /\ UNCHANGED <<row, claims, full, cursor, library, synced>>

\* Mutant: without waiting for the uploads.
M_PageDone_Early(w) == TRUE

PageDone(w) == syncing[w].todo = {}

\* The checkpoint of a full comparison is stored, failures or not, unless storing
\* it fails.
Checkpoint(w, j) ==
    /\ Runs(w, j, "upload") /\ PageDone(w)
    /\ Steps(w, "record")
    /\ \/ /\ full[j] /\ row[j].st # "deleted"
          /\ cursor' = [cursor EXCEPT ![j] = syncing[w].pos]
          /\ skipped' = [skipped EXCEPT ![j] = @ \cup syncing[w].bad]
       \/ UNCHANGED <<cursor, skipped>>
    /\ UNCHANGED <<row, claims, full, library, synced, asked, met>>

\* The images of the page that are in the bucket are recorded, unless that fails.
Record(w, j) == /\ Runs(w, j, "record")
                /\ Turns(w, [syncing[w] EXCEPT !.pc = "page", !.todo = {}, !.ok = {}])
                /\ \/ synced' = synced \cup syncing[w].ok
                   \/ UNCHANGED synced
                /\ UNCHANGED <<row, claims, full, cursor, library, histories>>

\* Success only if no upload failed; the checkpoint goes with it.
FinishSync(w, j) ==
    /\ Runs(w, j, "finish")
    /\ \/ /\ syncing[w].bad = {}
          /\ Write(j, "success")
          /\ cursor' = IF row[j].st = "deleted" THEN cursor ELSE [cursor EXCEPT ![j] = 0]
       \/ /\ syncing[w].bad # {}
          /\ Write(j, "error")
          /\ UNCHANGED cursor
    /\ Turns(w, Resting)
    /\ UNCHANGED <<claims, full, library, synced, histories>>

\* The settings, the database or the bucket raise.
RaiseSync(w, j) == /\ syncing[w].job = j /\ syncing[w].pc \in {"prepare", "page", "look", "finish"}
                   /\ Steps(w, "fail")
                   /\ UNCHANGED <<row, claims, full, cursor, library, synced, histories>>

\* The error is stored, unless that fails as well.
FailSync(w, j) == /\ Runs(w, j, "fail")
                  /\ \/ Write(j, "error")
                     \/ claims[j] < MaxClaims[j] /\ UNCHANGED row
                  /\ Turns(w, Resting)
                  /\ UNCHANGED <<claims, full, cursor, library, synced, histories>>

SyncStep(w, j) == \/ PrepareSync(w, j) \/ ReadPage(w, j) \/ ReadAll(w, j) \/ LookUp(w, j)
                  \/ UploadOne(w, j) \/ Checkpoint(w, j) \/ Record(w, j)
                  \/ FinishSync(w, j) \/ FailSync(w, j)

-----------------------------------------------------------------------------
(* The gallery goes on.                                                      *)

AddImage(f) == /\ f \in Changing \ (listed \cup gone)
               /\ listed' = listed \cup {f}
               /\ UNCHANGED <<row, claims, full, cursor, syncing, gone, synced, histories>>

DeleteImage(f) == /\ f \in Changing \cap listed
                  /\ listed' = listed \ {f}
                  /\ gone' = gone \cup {f}
                  /\ synced' = synced \ {f}
                  /\ asked' = [j \in Jobs |-> asked[j] \ {f}]
                  /\ UNCHANGED <<row, claims, full, cursor, syncing, met, skipped>>

SyncNext ==
    \/ \E j \in Jobs : \/ SubmitSync(j) \/ LapseSync(j) \/ RenewSync(j) \/ CollectSync(j)
                       \/ \E w \in Workers : ClaimSync(j, w) \/ SyncStep(w, j) \/ RaiseSync(w, j)
    \/ \E w \in Workers : StopSync(w)
    \/ \E f \in Images : AddImage(f) \/ DeleteImage(f)

SyncSpec == SyncInit /\ [][SyncNext]_syncVars

\* Runs go on, dispatchers claim, and time passes.
SyncFairness ==
    /\ WF_syncVars(\E j \in Jobs, w \in Workers : SyncStep(w, j))
    /\ WF_syncVars(\E j \in Jobs, w \in Workers : ClaimSync(j, w))
    /\ WF_syncVars(\E j \in Jobs : LapseSync(j))

SyncFairSpec == SyncSpec /\ SyncFairness

-----------------------------------------------------------------------------
(* Properties.                                                               *)

SyncRecord == [pc : SyncPc \cup {"idle"}, job : Jobs \cup {Nobody}, pos : Nat, todo : SUBSET Images,
               ok : SUBSET Images, bad : SUBSET Images, last : BOOLEAN]

SyncTypeOK ==
    /\ RowsTypeOK
    /\ full \in [Jobs -> BOOLEAN] /\ cursor \in [Jobs -> Nat]
    /\ syncing \in [Workers -> SyncRecord]
    /\ listed \subseteq Images /\ gone \subseteq Images /\ synced \subseteq Images
    /\ asked \in [Jobs -> SUBSET Images] /\ met \in [Jobs -> SUBSET Images]
    /\ skipped \in [Jobs -> SUBSET Images]

\* When a job has succeeded every image it was asked to copy has been in the bucket:
\* under a full comparison one of its runs has seen it there, however often the job
\* was resumed behind a checkpoint and whatever runs overlapped; otherwise it had
\* been seen before, or is now.  The exception is an image whose upload failed in a
\* run that stored a later checkpoint: whoever resumes does not try it again.
NothingSkipped ==
    \A j \in Jobs : row[j].st = "success" =>
        asked[j] \subseteq met[j] \cup skipped[j]
=============================================================================
