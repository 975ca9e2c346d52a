---------------------------- MODULE GalleryLibrary ----------------------------
(***************************************************************************)
(* The gallery as rows and files (repositories/gallery/mutations.py,       *)
(* maintenance.py, repositories/thumbnail_jobs.py): images are saved,      *)
(* imported and deleted, thumbnails made, left-over files collected, and a *)
(* process that starts sweeps rows without files.                          *)
(*                                                                         *)
(* Rows change in SQLite transactions, one at a time; files change outside *)
(* of them, and the locks of db/state.py hold within a process only.  What *)
(* is left to coordinate processes is what its comment names: a generated  *)
(* name is used once, a file is replaced in one step, and files without a  *)
(* row are collected when they are old.  An imported image keeps the name  *)
(* it has in its archive, so such a name may come back.                    *)
(***************************************************************************)
EXTENDS Naturals, FiniteSets, SequencesExt

CONSTANTS
    Generated,      \* names made for one image
    Archived,       \* names from archives: one image after the other
    Workers,        \* processes that make thumbnails
    Nobody,         \* no worker, no name
    Unreadable,     \* names of images no thumbnail can be made of
    Place,          \* all paths in the order of their directories
    GcLimit,        \* GALLERY_ORPHAN_GC_BATCH_SIZE
    MaxAttempts,    \* THUMBNAIL_JOB_MAX_ATTEMPTS
    MaxNames,       \* bounds: names used,
    MaxPictures,    \* pictures under one archived name,
    MaxEvents       \* deletions, sweeps, requests for a thumbnail that
                    \* is not there, stops, leases that end under a run

Names == Generated \cup Archived
Image(f) == <<"image", f>>
Thumb(f) == <<"thumb", f>>
Paths == {"image", "thumb"} \X Names

ASSUME LibraryAssumption ==
    /\ Generated \cap Archived = {} /\ Unreadable \subseteq Names
    /\ Nobody \notin Workers \cup Names
    /\ IsInjective(Place) /\ ToSet(Place) = Paths
    /\ {GcLimit, MaxAttempts, MaxNames, MaxPictures, MaxEvents} \subseteq Nat \ {0}

VARIABLES
    entry,      \* names with a gallery row
    disk,       \* the picture each path shows, 0 if there is no file
    old,        \* paths of files older than GALLERY_ORPHAN_FILE_TTL_SECONDS
    puts,       \* pictures put under each name so far
    job,        \* thumbnail_jobs
    work,       \* the thumbnail run of each worker
    importing,  \* {f}: f is promoted and its row is not inserted, or {}
    del,        \* the deletion request under way
    gc,         \* the left-over paths a pass of the collection has found
    sweep,      \* the startup sweep under way
    count,      \* how many bounded events have happened
    clash       \* history: listed names that a deletion, a sweep or a thumbnail
                \* of before still has in hand

vars == <<entry, disk, old, puts, job, work, importing, del, gc, sweep, count, clash>>

NoJob == [st |-> "none", by |-> Nobody, live |-> FALSE, tries |-> 0]
NoWork == [at |-> "idle", name |-> Nobody, seen |-> 0, made |-> 0, left |-> 0]
NoDel == [at |-> "idle", all |-> FALSE, todo |-> {}, name |-> Nobody]
NoSweep == [at |-> "idle", names |-> {}]

Exists(p) == disk[p] # 0
Images == {f \in Names : Exists(Image(f))}
Event == count < MaxEvents /\ count' = count + 1
MayUse(f) == Cardinality({n \in Names : puts[n] > 0} \cup {f}) =< MaxNames

LibraryInit ==
    /\ entry = {} /\ disk = [p \in Paths |-> 0] /\ old = {}
    /\ puts = [f \in Names |-> 0]
    /\ job = [f \in Names |-> NoJob]
    /\ work = [w \in Workers |-> NoWork]
    /\ importing = {}
    /\ del = NoDel /\ gc = {} /\ sweep = NoSweep
    /\ count = 0
    /\ clash = {}

-----------------------------------------------------------------------------
(* Files.                                                                   *)

\* os.replace: one picture gives way to another, and the file is young again.
Put(p, picture) == disk' = [disk EXCEPT ![p] = picture] /\ old' = old \ {p}
Unlink(p) == Put(p, 0)

\* A file grows old, which tells only of one without a row; what has just been
\* written does so after its transaction, and for a pass of the collection what
\* was old when it began.
Grow(p) ==
    /\ Exists(p) /\ p \notin old \cup gc /\ p[2] \notin entry \cup importing
    /\ old' = old \cup {p}
    /\ UNCHANGED <<entry, disk, puts, job, work, importing, del, gc, sweep, count, clash>>

-----------------------------------------------------------------------------
(* Saving and importing.                                                    *)

\* _enqueue_thumbnail_jobs_on_conn, on a new row (there is no "success" row).
Enqueue(f, force) ==
    job' = IF ~force /\ job[f].st = "running" /\ job[f].live THEN job
           ELSE [job EXCEPT ![f] = [st |-> "queued", by |-> Nobody, live |-> FALSE,
                                    tries |-> job[f].tries]]

\* _insert_gallery_entries_on_conn: no job for a file that is not there.
Insert(f, there) == /\ entry' = entry \cup {f}
                    /\ IF there THEN Enqueue(f, FALSE) ELSE UNCHANGED job

\* A sweep has scanned the images without this one, or means its row by that
\* of an earlier image.
Overlooked(f) == \/ sweep.at = "rows" /\ f \notin sweep.names
                 \/ sweep.at = "batch" /\ f \in sweep.names

\* add_to_gallery_async: the file is promoted within the transaction that
\* inserts the row, and others read rows before or after it.
Save(f) ==
    /\ f \in Generated /\ puts[f] = 0 /\ MayUse(f)
    /\ puts' = [puts EXCEPT ![f] = 1]
    /\ Put(Image(f), 1)
    /\ \/ /\ Insert(f, TRUE)
          /\ clash' = IF Overlooked(f) THEN clash \cup {f} ELSE clash
          /\ UNCHANGED count
       \/ \* the transaction fails or the process stops: the file stays
          /\ Event
          /\ UNCHANGED <<entry, job, clash>>
    /\ UNCHANGED <<work, importing, del, gc, sweep>>

\* Mutant: the row of an import is inserted before its file is in place.
M_PromoteImport_RowFirst(f) ==
    /\ f \in Archived \ entry /\ importing = {} /\ puts[f] < MaxPictures /\ MayUse(f)
    /\ puts' = [puts EXCEPT ![f] = @ + 1]
    /\ entry' = entry \cup {f} /\ importing' = {f}
    /\ UNCHANGED <<disk, old, job, work, del, gc, sweep, count, clash>>

\* _import_gallery_entries_batch: a name that is not listed, whatever its file.
PromoteImport(f) ==
    /\ f \in Archived \ entry /\ importing = {} /\ puts[f] < MaxPictures /\ MayUse(f)
    /\ puts' = [puts EXCEPT ![f] = @ + 1]
    /\ Put(Image(f), puts[f] + 1)
    /\ importing' = {f}
    /\ UNCHANGED <<entry, job, work, del, gc, sweep, count, clash>>

\* What another image of this name has left under way.
Haunted(f) == \/ f \in del.todo \cup {del.name}
              \/ Exists(Thumb(f))
              \/ \E w \in Workers : work[w].name = f /\ work[w].at \in {"put", "complete", "fail"}

InsertImport(f) ==
    /\ f \in importing
    /\ Insert(f, Exists(Image(f)))
    /\ clash' = IF Haunted(f) \/ Overlooked(f) THEN clash \cup {f} ELSE clash
    /\ importing' = {}
    /\ UNCHANGED <<disk, old, puts, work, del, gc, sweep, count>>

\* The import fails or stops in between: the temporary files go, not this one.
BreakImport == /\ importing # {} /\ Event
               /\ importing' = {}
               /\ clash' = clash \ importing
               /\ UNCHANGED <<entry, disk, old, puts, job, work, del, gc, sweep>>

-----------------------------------------------------------------------------
(* Deleting.  Rows go in a transaction, then files one by one, unlocked.    *)

Onward(todo) == del' = IF todo = {} THEN NoDel
                       ELSE [del EXCEPT !.at = "next", !.todo = todo, !.name = Nobody]

\* Rows and what belongs to them (_delete_auxiliary_rows_for_filenames_on_conn).
DropRows(F) == /\ entry' = entry \ F
               /\ clash' = clash \ (F \cap entry)

\* delete_gallery_images, by ids or by filters.
DeleteRows(F) ==
    /\ del.at = "idle" /\ F # {} /\ Event
    /\ DropRows(F)
    /\ job' = [f \in Names |-> IF f \in F THEN NoJob ELSE job[f]]
    /\ del' = [NoDel EXCEPT !.at = "next", !.todo = F]
    /\ UNCHANGED <<disk, old, puts, work, importing, gc, sweep>>

\* delete_all_gallery_images: scan, transaction, then files without a row.
ScanAll ==
    /\ del.at = "idle" /\ Event
    /\ del' = [NoDel EXCEPT !.at = "rows", !.all = TRUE, !.todo = Images]
    /\ UNCHANGED <<entry, disk, old, puts, job, work, importing, gc, sweep, clash>>

DeleteAllRows ==
    /\ del.at = "rows"
    /\ DropRows(entry)
    /\ job' = [f \in Names |-> NoJob]
    /\ Onward(del.todo \cup entry)
    /\ UNCHANGED <<disk, old, puts, work, importing, gc, sweep, count>>

\* Only the deletion of all asks again whether a name is listed.
TakeFile(f) ==
    /\ del.at = "next" /\ f \in del.todo
    /\ IF del.all /\ f \in entry THEN Onward(del.todo \ {f})
       ELSE del' = [del EXCEPT !.at = "image", !.todo = @ \ {f}, !.name = f]
    /\ UNCHANGED <<entry, disk, old, puts, job, work, importing, gc, sweep, count, clash>>

\* Errors of unlink are logged and left to the collection.
DropImage ==
    /\ del.at = "image"
    /\ \/ Unlink(Image(del.name)) /\ clash' = clash \cup ({del.name} \cap importing)
       \/ UNCHANGED <<disk, old, clash>>
    /\ del' = [del EXCEPT !.at = "thumb"]
    /\ UNCHANGED <<entry, puts, job, work, importing, gc, sweep, count>>

DropThumb ==
    /\ del.at = "thumb"
    /\ Unlink(Thumb(del.name)) \/ UNCHANGED <<disk, old>>
    /\ Onward(del.todo)
    /\ UNCHANGED <<entry, puts, job, work, importing, gc, sweep, count, clash>>

StopDelete == /\ del.at # "idle" /\ Event
              /\ del' = NoDel
              /\ UNCHANGED <<entry, disk, old, puts, job, work, importing, gc, sweep, clash>>

-----------------------------------------------------------------------------
(* Collecting what is left over (cleanup_orphan_gallery_files).             *)

\* Mutant: thumbnails are not looked at.
M_Looked_ImagesOnly == {Image(f) : f \in Images}

\* A pass looks at the first GcLimit files, images before thumbnails, and counts
\* those it leaves alone too.  (A directory lists its files in an order of its own.)
Looked == LET there == SelectSeq(Place, Exists)
          IN  {there[i] : i \in {k \in DOMAIN there : k =< GcLimit}}

\* The names of the rows are read once; a pass that finds nothing is not one.
BeginGc ==
    /\ gc = {}
    /\ gc' = {p \in Looked \cap old : p[2] \notin entry}
    /\ gc' # {}
    /\ UNCHANGED <<entry, disk, old, puts, job, work, importing, del, sweep, count, clash>>

CollectFile(p) ==
    /\ p \in gc
    /\ gc' = gc \ {p}
    /\ IF p \in old THEN Unlink(p) ELSE UNCHANGED <<disk, old>>
    /\ UNCHANGED <<entry, puts, job, work, importing, del, sweep, count, clash>>

-----------------------------------------------------------------------------
(* The sweep of a process that starts (sync_gallery_with_image_files), while *)
(* others serve: files are scanned, then rows read, then rows deleted.      *)

SweepScan ==
    /\ sweep.at = "idle" /\ Event
    /\ sweep' = [at |-> "rows", names |-> Images]
    /\ UNCHANGED <<entry, disk, old, puts, job, work, importing, del, gc, clash>>

SweepRows ==
    /\ sweep.at = "rows"
    /\ sweep' = [at |-> "batch", names |-> entry \ sweep.names]
    /\ UNCHANGED <<entry, disk, old, puts, job, work, importing, del, gc, count, clash>>

\* One batch here is one row.
SweepBatch(f) ==
    /\ sweep.at = "batch" /\ f \in sweep.names
    /\ DropRows({f})
    /\ sweep' = [sweep EXCEPT !.names = @ \ {f}]
    /\ UNCHANGED <<disk, old, puts, job, work, importing, del, gc, count>>

\* cleanup_auxiliary_state: jobs of names that are not listed.
SweepJobs ==
    /\ sweep.at = "batch" /\ sweep.names = {}
    /\ job' = [f \in Names |-> IF f \in entry THEN job[f] ELSE NoJob]
    /\ sweep' = NoSweep
    /\ UNCHANGED <<entry, disk, old, puts, work, importing, del, gc, count, clash>>

-----------------------------------------------------------------------------
(* Thumbnails.                                                              *)

\* A request for a thumbnail that is not there (ensure_thumbnail_for_image),
\* by a name that was listed when it looked.
View(f) ==
    /\ f \in entry \cup del.todo /\ Exists(Image(f)) /\ ~Exists(Thumb(f))
    /\ Event
    /\ Enqueue(f, TRUE)
    /\ UNCHANGED <<entry, disk, old, puts, work, importing, del, gc, sweep, clash>>

\* Mutant: a job whose worker is gone is not claimed.
M_Claimable_QueuedOnly(f) == job[f].st = "queued"

Claimable(f) == job[f].st = "queued" \/ (job[f].st = "running" /\ ~job[f].live)

\* The oldest in the code, any here.
Claim(w, f) ==
    /\ work[w] = NoWork /\ Claimable(f)
    /\ job' = [job EXCEPT ![f] = [st |-> "running", by |-> w, live |-> TRUE,
                                  tries |-> job[f].tries + 1]]
    /\ work' = [work EXCEPT ![w] = [NoWork EXCEPT !.at = "look", !.name = f, !.left = 3]]
    /\ UNCHANGED <<entry, disk, old, puts, importing, del, gc, sweep, count, clash>>

At(w, pc) == work[w].at = pc
Picture(w) == disk[Image(work[w].name)]
Made(w) == disk[Thumb(work[w].name)]
Go(w, pc) == work' = [work EXCEPT ![w].at = pc]

\* generate_thumbnail_for_image, one of three rounds: look at the file ...
Look(w) ==
    /\ At(w, "look")
    /\ IF Made(w) # 0 THEN Go(w, "complete")
       ELSE IF Picture(w) = 0 \/ work[w].left = 0 THEN Go(w, "fail")
       ELSE work' = [work EXCEPT ![w].at = "render", ![w].seen = Picture(w),
                                 ![w].left = @ - 1]

\* ... make a thumbnail of what it is by now ...
Render(w) ==
    /\ At(w, "render")
    /\ IF Picture(w) = 0 \/ work[w].name \in Unreadable THEN Go(w, "fail")
       ELSE work' = [work EXCEPT ![w].at = "check", ![w].made = Picture(w)]

\* Mutant: the picture is not compared with the one that was looked at.
M_Check_Trusting(w) ==
    /\ At(w, "check")
    /\ Go(w, IF Made(w) # 0 THEN "complete" ELSE IF Picture(w) = 0 THEN "fail" ELSE "put")

\* ... and look again; the lock around this and the next step is one of the
\* process only.
Check(w) ==
    /\ At(w, "check")
    /\ Go(w, IF Made(w) # 0 THEN "complete" ELSE IF Picture(w) = 0 THEN "fail"
             ELSE IF Picture(w) # work[w].seen THEN "look" ELSE "put")

PutThumb(w) ==
    /\ At(w, "put")
    /\ Put(Thumb(work[w].name), work[w].made)
    /\ Go(w, "complete")

\* complete_thumbnail_job, fail_thumbnail_job.
Tell(w) ==
    LET f == work[w].name IN
    /\ At(w, "complete") \/ At(w, "fail")
    /\ job' = IF job[f].by # w THEN job
              ELSE IF At(w, "complete") \/ job[f].tries >= MaxAttempts
                   THEN [job EXCEPT ![f] = NoJob]
              ELSE [job EXCEPT ![f] = [st |-> "queued", by |-> Nobody, live |-> FALSE,
                                       tries |-> job[f].tries]]
    /\ work' = [work EXCEPT ![w] = NoWork]

WorkStep(w) ==
    /\ \/ (Look(w) \/ Render(w) \/ Check(w)) /\ UNCHANGED <<disk, old, job>>
       \/ PutThumb(w) /\ UNCHANGED job
       \/ Tell(w) /\ UNCHANGED <<disk, old>>
    /\ UNCHANGED <<entry, puts, importing, del, gc, sweep, count, clash>>

StopWork(w) == /\ work[w] # NoWork /\ Event
               /\ work' = [work EXCEPT ![w] = NoWork]
               /\ UNCHANGED <<entry, disk, old, puts, job, importing, del, gc, sweep, clash>>

\* Leases are not renewed: one may end under a run that takes long.
Lapse(f) ==
    /\ job[f].live
    /\ IF work[job[f].by].name = f THEN Event
       ELSE UNCHANGED count
    /\ job' = [job EXCEPT ![f].live = FALSE]
    /\ UNCHANGED <<entry, disk, old, puts, work, importing, del, gc, sweep, clash>>

-----------------------------------------------------------------------------
\* What goes on by itself.
Background ==
    \/ \E p \in Paths : Grow(p) \/ CollectFile(p)
    \/ BeginGc
    \/ \E w \in Workers : WorkStep(w) \/ \E f \in Names : Claim(w, f)
    \/ \E f \in Names : TakeFile(f) \/ SweepBatch(f) \/ InsertImport(f) \/ Lapse(f)
    \/ DeleteAllRows \/ DropImage \/ DropThumb
    \/ SweepRows \/ SweepJobs

Requests ==
    \/ \E f \in Names : Save(f) \/ PromoteImport(f) \/ View(f)
    \/ \E F \in SUBSET entry : DeleteRows(F)
    \/ ScanAll \/ SweepScan

Stops == BreakImport \/ StopDelete \/ \E w \in Workers : StopWork(w)

LibraryNext == Background \/ Requests \/ Stops

LibrarySpec == LibraryInit /\ [][LibraryNext]_vars

\* All of it is bounded, so this is enough: what can go on does.
LibraryFairSpec == LibrarySpec /\ WF_vars(Background)

-----------------------------------------------------------------------------
(* Properties.                                                              *)

LibraryTypeOK ==
    /\ entry \subseteq Names /\ clash \subseteq Names
    /\ disk \in [Paths -> 0 .. MaxPictures] /\ old \subseteq Paths
    /\ puts \in [Names -> 0 .. MaxPictures]
    /\ job \in [Names -> [st : {"none", "queued", "running"}, by : Workers \cup {Nobody},
                          live : BOOLEAN, tries : 0 .. MaxAttempts + MaxEvents]]
    /\ work \in [Workers -> [at : {"idle", "look", "render", "check", "put", "complete", "fail"},
                             name : Names \cup {Nobody}, seen : 0 .. MaxPictures,
                             made : 0 .. MaxPictures, left : 0 .. 3]]
    /\ importing \subseteq Archived /\ gc \subseteq Paths
    /\ del.at \in {"idle", "rows", "image", "next", "thumb"} /\ del.todo \subseteq Names
    /\ sweep.at \in {"idle", "rows", "batch"} /\ sweep.names \subseteq Names
    /\ count \in 0 .. MaxEvents

\* A listed image has the file that was stored for it, and a thumbnail of no
\* other image, unless something of the name's past was still under way when
\* it was listed (the coordination db/state.py describes).
ListedTrue ==
    \A f \in entry \ clash : /\ disk[Image(f)] = puts[f]
                             /\ disk[Thumb(f)] \in {0, puts[f]}

\* An image leaves the gallery only by a request to delete it; no sweep takes
\* it for one without a file (sync_gallery_with_image_files).
RowsKept == [][\A f \in entry \ clash : f \in entry' \/ f \in del'.todo]_vars

LeftOver(p) == Exists(p) /\ p[2] \notin entry

\* As many files of listed images as a pass looks at come before this one.
Crowded(p) ==
    LET ahead == {Place[i] : i \in {k \in DOMAIN Place : \E n \in DOMAIN Place : k < n /\ Place[n] = p}}
    IN  Cardinality({q \in ahead : Exists(q) /\ q[2] \in entry}) >= GcLimit

\* Files without a row go, whoever failed to remove them and however many there
\* are: in the end one only stays if files of listed images use up every pass of
\* the collection before it is reached (cleanup_orphan_gallery_files).
LeftoversGo == []<>(\A p \in Paths : LeftOver(p) => Crowded(p))

\* A listed image that can be read gets its thumbnail, although workers stop,
\* leases end and requests put its job back (thumbnail_jobs).
ThumbnailShown ==
    \A f \in Names \ Unreadable :
        f \in entry \ clash ~> Exists(Thumb(f)) \/ f \notin entry \ clash

=============================================================================
