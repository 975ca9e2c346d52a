--------------------------- MODULE GalleryFileJobs ---------------------------
(***************************************************************************)
(* Gallery jobs around a file (services/gallery_export_jobs.py,            *)
(* gallery_import_jobs.py): exports to an archive, direct downloads, and   *)
(* imports of an uploaded archive.  The sync has a module of its own,      *)
(* GallerySync.                                                            *)
(*                                                                         *)
(* Unlike the jobs of GalleryItemJobs these write their rows without       *)
(* lease_owner: an update changes the row whoever owns it.  No task renews *)
(* their leases.  The progress of a run does, as long as its writes get    *)
(* through, and a lease may run out under a run that goes on: a second one *)
(* is claimed then, and the first may store that the job runs, or how it   *)
(* ended, at any later time.                                               *)
(***************************************************************************)
EXTENDS GalleryJobRows

CONSTANT Requests   \* requests to download a direct slot

VARIABLES
    file,       \* the archive of a job exists
    bytes,      \* an import holds reserved bytes
    up,         \* the request that uploads an import
    run,        \* the run started by each claim: [pc, w]
    begun,      \* a direct slot has left the stage "queued"
    dl,         \* what each download request does
    known,      \* {S} if a clean-up has read that S are the exports, or {}
    astray,     \* history: exports admitted after a clean-up looked, and imports
                \* whose archive it left when it had removed the row
    outlived    \* history: jobs whose lease ran out under a run or a stream

fileVars == <<row, claims, file, bytes, up, run, begun, dl, known, astray, outlived>>

Claim(j) == 1 .. MaxClaims[j]
RunPc == {"begin", "work", "publish", "fail", "tidy", "release"}
Idle == [pc |-> "idle", w |-> Nobody]

FilesInit ==
    /\ RowsInit
    /\ file = [j \in Jobs |-> FALSE]
    /\ bytes = [j \in Jobs |-> FALSE]
    /\ up = [j \in Jobs |-> "none"]
    /\ run = [j \in Jobs |-> [t \in Claim(j) |-> Idle]]
    /\ begun = [j \in Jobs |-> FALSE]
    /\ dl = [j \in Jobs |-> [r \in Requests |-> "none"]]
    /\ known = {}
    /\ astray = {}
    /\ outlived = {}

At(j, t, pc) == run[j][t].pc = pc
Active(j, t) == run[j][t].pc \in RunPc
Go(j, t, pc) == run' = [run EXCEPT ![j][t].pc = pc]
Quit(j, t) == run' = [run EXCEPT ![j][t] = Idle]

-----------------------------------------------------------------------------
(* Submission.  An import reserves bytes, receives the archive and only      *)
(* then admits its job.                                                      *)

Submit(j) == /\ KindOf(j) \in {"export", "direct"}
             /\ Admit(j, IF KindOf(j) = "direct" THEN "running" ELSE "queued")
             /\ astray' = IF KindOf(j) = "export" /\ known # {} THEN astray \cup {j} ELSE astray
             /\ UNCHANGED <<file, bytes, up, run, begun, dl, known, outlived>>

Reserve(j) == /\ KindOf(j) = "import" /\ up[j] = "none"
              /\ up' = [up EXCEPT ![j] = "receiving"]
              /\ bytes' = [bytes EXCEPT ![j] = TRUE]
              /\ UNCHANGED <<row, claims, file, run, begun, dl, known, astray, outlived>>

Receive(j) == /\ up[j] = "receiving" /\ ~file[j]
              /\ file' = [file EXCEPT ![j] = TRUE]
              /\ UNCHANGED <<row, claims, bytes, up, run, begun, dl, known, astray, outlived>>

AdmitImport(j) == /\ up[j] = "receiving" /\ file[j]
                  /\ Admit(j, "queued")
                  /\ up' = [up EXCEPT ![j] = "done"]
                  /\ UNCHANGED <<file, bytes, run, begun, dl, known, astray, outlived>>

\* The archive is refused, the job is, or the client goes away.  If it does
\* while the admission is under way, the admission still commits.
AbortImport(j) == /\ up[j] = "receiving"
                  /\ \/ file[j] /\ Admit(j, "queued")
                     \/ UNCHANGED rowVars
                  /\ up' = [up EXCEPT ![j] = "aborted"]
                  /\ file' = [file EXCEPT ![j] = FALSE]
                  /\ bytes' = [bytes EXCEPT ![j] = FALSE]
                  /\ UNCHANGED <<run, begun, dl, known, astray, outlived>>

-----------------------------------------------------------------------------
(* The run of a claim.                                                       *)

Free(w, kind) == Cardinality({k \in Jobs : /\ KindOf(k) = kind
                                           /\ \E s \in Claim(k) : Active(k, s) /\ run[k][s].w = w})
                    < Limit[kind]

Start(j, w) == /\ KindOf(j) # "direct"
               /\ Free(w, KindOf(j))
               /\ ClaimRow(j, w)
               /\ run' = [run EXCEPT ![j][claims[j] + 1] = [pc |-> "begin", w |-> w]]
               /\ UNCHANGED <<file, bytes, up, begun, dl, known, astray, outlived>>

\* An import whose archive is gone fails before its first write.
Begin(j, t) == /\ At(j, t, "begin")
               /\ IF KindOf(j) = "import" /\ ~file[j]
                  THEN Go(j, t, "fail") /\ UNCHANGED row
                  ELSE Go(j, t, "work") /\ Write(j, "running")
               /\ UNCHANGED <<claims, file, bytes, up, begun, dl, known, astray, outlived>>

\* An archive appears under its name when it is complete.
Work(j, t) == /\ At(j, t, "work")
              /\ Go(j, t, "publish")
              /\ file' = IF KindOf(j) = "export" THEN [file EXCEPT ![j] = TRUE] ELSE file
              /\ UNCHANGED <<row, claims, bytes, up, begun, dl, known, astray, outlived>>

\* Only an import has something to tidy up.
Then(j, t) == IF KindOf(j) = "import" THEN Go(j, t, "tidy") ELSE Quit(j, t)

Publish(j, t) == /\ At(j, t, "publish")
                 /\ Write(j, "success")
                 /\ Then(j, t)
                 /\ UNCHANGED <<claims, file, bytes, up, begun, dl, known, astray, outlived>>

\* An exception.  A failed export removes its archive before it says so.
Raise(j, t) == /\ run[j][t].pc \in {"begin", "work", "publish"}
               /\ Go(j, t, "fail")
               /\ file' = IF KindOf(j) = "export" THEN [file EXCEPT ![j] = FALSE] ELSE file
               /\ UNCHANGED <<row, claims, bytes, up, begun, dl, known, astray, outlived>>

\* The error is stored, unless that fails as well.
Fail(j, t) == /\ At(j, t, "fail")
              /\ \/ Write(j, "error")
                 \/ claims[j] < MaxClaims[j] /\ UNCHANGED row
              /\ Then(j, t)
              /\ UNCHANGED <<claims, file, bytes, up, begun, dl, known, astray, outlived>>

Tidy(j, t) == /\ At(j, t, "tidy")
              /\ Go(j, t, "release")
              /\ file' = [file EXCEPT ![j] = FALSE]
              /\ UNCHANGED <<row, claims, bytes, up, begun, dl, known, astray, outlived>>

Release(j, t) == /\ At(j, t, "release")
                 /\ Quit(j, t)
                 /\ bytes' = [bytes EXCEPT ![j] = FALSE]
                 /\ UNCHANGED <<row, claims, file, up, begun, dl, known, astray, outlived>>

RunStep(j, t) == \/ Begin(j, t) \/ Work(j, t) \/ Publish(j, t) \/ Fail(j, t)
                 \/ Tidy(j, t) \/ Release(j, t)

-----------------------------------------------------------------------------
(* The end of a process.                                                     *)

RunsOf(w) == UNION {{<<j, t>> : t \in {t \in Claim(j) : Active(j, t) /\ run[j][t].w = w}} : j \in Jobs}

Stopped(w) == [j \in Jobs |-> [t \in Claim(j) |->
                  IF <<j, t>> \in RunsOf(w) THEN Idle ELSE run[j][t]]]

MayStop(w) == /\ RunsOf(w) # {}
              /\ \A p \in RunsOf(w) : claims[p[1]] < MaxClaims[p[1]]

\* A shutdown cancels the runs: an import still tidies up.
Shutdown(w) == /\ MayStop(w)
               /\ run' = Stopped(w)
               /\ LET tidied == {j \in Jobs : KindOf(j) = "import" /\ \E t \in Claim(j) : <<j, t>> \in RunsOf(w)}
                  IN  /\ file' = [j \in Jobs |-> file[j] /\ j \notin tidied]
                      /\ bytes' = [j \in Jobs |-> bytes[j] /\ j \notin tidied]
               /\ UNCHANGED <<row, claims, up, begun, dl, known, astray, outlived>>

Kill(w) == /\ MayStop(w)
           /\ run' = Stopped(w)
           /\ UNCHANGED <<row, claims, file, bytes, up, begun, dl, known, astray, outlived>>

-----------------------------------------------------------------------------
(* Direct downloads: the slot waits for a request, which streams the archive *)
(* as it is made.                                                            *)

\* The check and the write after it are two transactions.
Ask(j, r) == /\ KindOf(j) = "direct" /\ dl[j][r] = "none"
             /\ row[j].st = "running" /\ ~begun[j]
             /\ dl' = [dl EXCEPT ![j][r] = "asked"]
             /\ UNCHANGED <<row, claims, file, bytes, up, run, begun, known, astray, outlived>>

Prepare(j, r) == /\ dl[j][r] = "asked"
                 /\ \/ Write(j, "running") /\ dl' = [dl EXCEPT ![j][r] = "ready"]
                    \/ Write(j, "error") /\ dl' = [dl EXCEPT ![j][r] = "done"]
                 /\ begun' = [begun EXCEPT ![j] = TRUE]
                 /\ UNCHANGED <<claims, file, bytes, up, run, known, astray, outlived>>

\* The first chunk is read.
Stream(j, r) == /\ dl[j][r] = "ready"
                /\ Write(j, "running")
                /\ dl' = [dl EXCEPT ![j][r] = "streaming"]
                /\ UNCHANGED <<claims, file, bytes, up, run, begun, known, astray, outlived>>

StreamEnd(j, r) == /\ dl[j][r] = "streaming"
                   /\ \E st \in {"success", "error"} : Write(j, st)
                   /\ dl' = [dl EXCEPT ![j][r] = "done"]
                   /\ UNCHANGED <<claims, file, bytes, up, run, begun, known, astray, outlived>>

\* The client leaves before the first chunk, or the process stops.
Drop(j, r) == /\ dl[j][r] \in {"asked", "ready", "streaming"}
              /\ dl' = [dl EXCEPT ![j][r] = "done"]
              /\ UNCHANGED <<row, claims, file, bytes, up, run, begun, known, astray, outlived>>

-----------------------------------------------------------------------------
(* Leases and clean-up.                                                      *)

\* Somebody works on the job.
Tended(j) == \/ \E t \in Claim(j) : Active(j, t)
             \/ \E r \in Requests : dl[j][r] = "streaming"

\* Time passes.  Nothing but progress puts the end of a lease off, and errors of
\* storing it are swallowed.
Expire(j) == /\ IF KindOf(j) = "direct"
                THEN /\ row[j].st = "running" /\ row[j].live
                     /\ Tended(j) => "direct" \in Stalls
                     /\ row' = [row EXCEPT ![j].live = FALSE] /\ UNCHANGED claims
                ELSE Lapse(j, ~Tended(j))
             /\ outlived' = IF Tended(j) THEN outlived \cup {j} ELSE outlived
             /\ UNCHANGED <<file, bytes, up, run, begun, dl, known, astray>>

\* Progress is stored while an archive is written, read or streamed.
Progress(j) == /\ Renew(j)
               /\ \/ \E t \in Claim(j) : At(j, t, "work")
                  \/ \E r \in Requests : dl[j][r] = "streaming"
               /\ UNCHANGED <<file, bytes, up, run, begun, dl, known, astray, outlived>>

\* A row is collected long after it has ended; a run that has outlived its lease
\* may be as late.
Old(j) == ~Tended(j) \/ j \in outlived

\* Mutant: only the rows are removed.
M_Forget_RowsOnly(j) == /\ Old(j)
                        /\ Collect(j)
                        /\ UNCHANGED <<file, bytes, up, run, begun, dl, known, astray, outlived>>

\* Rows of ended jobs go first, then their archives, unless the process stops
\* in between.
Forget(j) == /\ Old(j)
             /\ Collect(j)
             /\ \/ file' = [file EXCEPT ![j] = FALSE] /\ UNCHANGED astray
                \/ /\ file[j] /\ UNCHANGED file
                   /\ astray' = IF KindOf(j) = "import" THEN astray \cup {j} ELSE astray
             /\ UNCHANGED <<bytes, up, run, begun, dl, known, outlived>>

\* Mutant: expired slots are left alone.
M_DropSlot_Never(j) == FALSE /\ UNCHANGED fileVars

\* cleanup_expired_gallery_jobs.
DropSlot(j) == /\ KindOf(j) = "direct" /\ Lapsed(j)
               /\ row' = [row EXCEPT ![j].st = "deleted"]
               /\ UNCHANGED <<claims, file, bytes, up, run, begun, dl, known, astray, outlived>>

Present == {j \in Jobs : KindOf(j) = "export" /\ row[j].st \notin {"none", "deleted"}}

\* Mutant: of jobs that have ended only.
M_WithFiles_Ended == {j \in Present : row[j].st \in Ended}

\* list_gallery_job_ids_with_files.
WithFiles == Present

\* The ids are read first and the directory afterwards.
SweepLook == /\ known = {}
             /\ \E j \in Jobs : KindOf(j) = "export"
             /\ known' = {WithFiles}
             /\ UNCHANGED <<row, claims, file, bytes, up, run, begun, dl, astray, outlived>>

Sweep == /\ known # {}
         /\ file' = [j \in Jobs |-> file[j] /\ (KindOf(j) = "export" => \E S \in known : j \in S)]
         /\ known' = {}
         /\ UNCHANGED <<row, claims, bytes, up, run, begun, dl, astray, outlived>>

\* import_upload_reservations.lease_expires_at.
BytesLapse(j) == /\ bytes[j]
                 /\ bytes' = [bytes EXCEPT ![j] = FALSE]
                 /\ UNCHANGED <<row, claims, file, up, run, begun, dl, known, astray, outlived>>

FilesNext ==
    \/ \E j \in Jobs :
          \/ Submit(j) \/ Reserve(j) \/ Receive(j) \/ AdmitImport(j) \/ AbortImport(j)
          \/ \E t \in Claim(j) : RunStep(j, t) \/ Raise(j, t)
          \/ \E w \in Workers : Start(j, w)
          \/ \E r \in Requests : Ask(j, r) \/ Prepare(j, r) \/ Stream(j, r) \/ StreamEnd(j, r) \/ Drop(j, r)
          \/ Expire(j) \/ Progress(j) \/ Forget(j) \/ DropSlot(j) \/ BytesLapse(j)
    \/ \E w \in Workers : Shutdown(w) \/ Kill(w)
    \/ SweepLook \/ Sweep

FilesSpec == FilesInit /\ [][FilesNext]_fileVars

\* Runs and streams go on, dispatchers claim, time passes, and the clean-up
\* comes round.
FilesFairness ==
    /\ WF_fileVars(\E j \in Jobs : \E t \in Claim(j) : RunStep(j, t))
    /\ WF_fileVars(\E j \in Jobs, w \in Workers : Start(j, w))
    /\ WF_fileVars(\E j \in Jobs, r \in Requests : Prepare(j, r) \/ Stream(j, r) \/ StreamEnd(j, r))
    /\ WF_fileVars(\E j \in Jobs : Expire(j) \/ DropSlot(j) \/ Forget(j) \/ BytesLapse(j))

FilesFairSpec == FilesSpec /\ FilesFairness

-----------------------------------------------------------------------------
(* Properties.                                                               *)

FilesTypeOK ==
    /\ RowsTypeOK
    /\ file \in [Jobs -> BOOLEAN] /\ bytes \in [Jobs -> BOOLEAN] /\ begun \in [Jobs -> BOOLEAN]
    /\ up \in [Jobs -> {"none", "receiving", "done", "aborted"}]
    /\ DOMAIN run = Jobs
    /\ \A j \in Jobs : run[j] \in [Claim(j) -> [pc : RunPc \cup {"idle"}, w : Workers \cup {Nobody}]]
    /\ dl \in [Jobs -> [Requests -> {"none", "asked", "ready", "streaming", "done"}]]
    /\ known \subseteq SUBSET Jobs
    /\ astray \subseteq Jobs /\ outlived \subseteq Jobs

\* An export that is ready can be downloaded: nobody but a clean-up that looked
\* before the job was there, or a run that was late already, has taken its archive.
ReadyExportHasArchive ==
    \A j \in Jobs : KindOf(j) = "export" /\ row[j].st = "success"
                      => file[j] \/ j \in astray \cup outlived

\* Two runs work on a job only if its lease ran out under one of them: no stop, no
\* late write and no clean-up alone brings a second one to its archive.
OneRunAtATime == \A j \in Jobs \ outlived :
    \A s, t \in Claim(j) : Active(j, s) /\ Active(j, t) => s = t

\* A job that was admitted ends or is removed.
FileJobsEnd == \A j \in Jobs :
    row[j].st \in {"queued", "running"} ~> row[j].st \notin {"queued", "running"}

\* Nothing is left of an import that was admitted, neither its archive nor its
\* claim to temporary space: unless two processes stop, the one that runs it and
\* the one that cleans up.
ImportLeavesNothing == \A j \in Jobs :
    KindOf(j) = "import" /\ row[j].st = "queued" ~> ~bytes[j] /\ (file[j] => j \in astray)
=============================================================================
