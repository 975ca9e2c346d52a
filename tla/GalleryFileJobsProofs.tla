------------------------- MODULE GalleryFileJobsProofs -------------------------
(***************************************************************************)
(* What the unfenced writes of the jobs around a file can and cannot do,   *)
(* for every number of jobs, processes, claims and requests.  Nothing but  *)
(* a lease that runs out under a run ever brings a second run to its job:  *)
(* as long as that has not happened, the row of a job that is worked on    *)
(* cannot be claimed, whatever stops, writes late or is collected.  And    *)
(* why a sync may be run twice at once: what it has settled stays settled. *)
(***************************************************************************)
EXTENDS GalleryFileJobs, GallerySync, TLAPS

-----------------------------------------------------------------------------
(* The inductive invariant, job by job.                                     *)

\* A run has a job that was admitted, and only an import has something left to
\* do behind its last write.
RunInv(j) == \A t \in Claim(j) :
    /\ Active(j, t) => KindOf(j) # "direct" /\ row[j].st # "none"
    /\ run[j][t].pc \in {"tidy", "release"} => KindOf(j) = "import"

\* Where no lease ran out under a run: before its last write its row is running
\* and not lapsed, and an export has its archive before it is published.
LeaseInv(j) == j \notin outlived => \A t \in Claim(j) :
    /\ run[j][t].pc \in {"begin", "work", "publish", "fail"} => row[j].st = "running" /\ row[j].live
    /\ run[j][t].pc \in {"tidy", "release"}
          => (row[j].st = "running" /\ row[j].live) \/ row[j].st \in Ended
    /\ At(j, t, "publish") /\ KindOf(j) = "export" => file[j] \/ j \in astray

SoleRun(j) == j \notin outlived =>
    \A s, t \in Claim(j) : Active(j, s) /\ Active(j, t) => s = t

\* Only imports are uploaded, only direct slots are asked for.
KindInv(j) == /\ up[j] # "none" => KindOf(j) = "import"
              /\ \A r \in Requests : dl[j][r] # "none" => KindOf(j) = "direct"

\* An archive that is ready is there, and a clean-up knows of it.
ArchiveInv(j) == KindOf(j) = "export" =>
    /\ row[j].st = "success" => file[j] \/ j \in astray \cup outlived
    /\ row[j].st \notin {"none", "deleted"} => \A S \in known : j \in S \/ j \in astray

JobInv(j) == RunInv(j) /\ LeaseInv(j) /\ SoleRun(j) /\ KindInv(j) /\ ArchiveInv(j)

FilesInv == FilesTypeOK /\ \A j \in Jobs : JobInv(j)

-----------------------------------------------------------------------------
(* Frames.                                                                  *)

\* A job that a step leaves alone; another may be admitted meanwhile.
Untouched(k) == /\ row'[k] = row[k] /\ run'[k] = run[k] /\ up'[k] = up[k] /\ dl'[k] = dl[k]
                /\ file[k] => file'[k]
                /\ astray \subseteq astray' /\ known' \subseteq known
                /\ k \in outlived' <=> k \in outlived

LEMMA UntouchedKeeps == ASSUME NEW k \in Jobs, JobInv(k), Untouched(k) PROVE JobInv(k)'
BY DEF JobInv, RunInv, LeaseInv, SoleRun, KindInv, ArchiveInv, Untouched, At, Active, KindOf, Claim

\* Admission, claim, and every other change of one row.
RowIs(j, r) == /\ row' \in [Jobs -> Row] /\ row'[j] = r /\ r.kind = row[j].kind
               /\ \A k \in Jobs \ {j} : row'[k] = row[k]

LEMMA RowPut ==
    ASSUME row \in [Jobs -> Row], NEW j \in Jobs, NEW r \in Row, r.kind = row[j].kind,
           row' = [row EXCEPT ![j] = r]
    PROVE  RowIs(j, r)
BY DEF RowIs

LEMMA WriteRow ==
    ASSUME row \in [Jobs -> Row], NEW j \in Jobs, NEW st \in {"running", "success", "error"},
           Write(j, st)
    PROVE  \E r \in Row :
              /\ RowIs(j, r)
              /\ row[j].st \in {"none", "deleted"} => r = row[j]
              /\ row[j].st \notin {"none", "deleted"} => r.st = st /\ r.live = (st = "running")
<1>0. row[j] \in Row
  OBVIOUS
<1>1. CASE row[j].st \in {"none", "deleted"}
  BY <1>0, <1>1 DEF Write, RowIs
<1>2. CASE row[j].st \notin {"none", "deleted"}
  <2> DEFINE r == [row[j] EXCEPT !.st = st, !.live = (st = "running"),
                                 !.owner = IF st = "running" THEN @ ELSE Nobody]
  <2>1. /\ r \in Row /\ r.kind = row[j].kind
        /\ r.st = st /\ r.live = (st = "running")
    BY <1>0 DEF Row, Ended
  <2>2. row' = [row EXCEPT ![j] = r]
    BY <1>2 DEF Write
  <2> HIDE DEF r
  <2> QED
    BY <1>2, <2>1, <2>2, RowPut
<1> QED
  BY <1>1, <1>2

RunRecord == [pc : RunPc \cup {"idle"}, w : Workers \cup {Nobody}]

\* One run is where it was put.
RunIs(j, t, pc) == /\ DOMAIN run' = Jobs /\ \A k \in Jobs : run'[k] \in [Claim(k) -> RunRecord]
                   /\ run'[j][t].pc = pc
                   /\ \A s \in Claim(j) \ {t} : run'[j][s] = run[j][s]
                   /\ \A k \in Jobs \ {j} : run'[k] = run[k]

LEMMA RunPut ==
    ASSUME FilesTypeOK, NEW j \in Jobs, NEW t \in Claim(j), NEW r \in RunRecord,
           run' = [run EXCEPT ![j][t] = r]
    PROVE  RunIs(j, t, r.pc)
<1>1. DOMAIN run = Jobs /\ \A k \in Jobs : run[k] \in [Claim(k) -> RunRecord]
  BY DEF FilesTypeOK, RunRecord
<1>2. [run[j] EXCEPT ![t] = r] \in [Claim(j) -> RunRecord]
  BY <1>1
<1>3. run' = [run EXCEPT ![j] = [run[j] EXCEPT ![t] = r]]
  OBVIOUS
<1> QED
  BY <1>1, <1>2, <1>3 DEF RunIs

LEMMA RunGoes ==
    ASSUME FilesTypeOK, NEW j \in Jobs, NEW t \in Claim(j), NEW pc \in RunPc, Go(j, t, pc)
    PROVE  RunIs(j, t, pc)
<1> DEFINE r == [run[j][t] EXCEPT !.pc = pc]
<1>1. run[j][t] \in RunRecord
  BY DEF FilesTypeOK, RunRecord
<1>2. r \in RunRecord /\ r.pc = pc
  BY <1>1 DEF RunRecord
<1>3. run' = [run EXCEPT ![j][t] = r]
  BY DEF Go
<1> HIDE DEF r
<1> QED
  BY <1>2, <1>3, RunPut

LEMMA RunQuits ==
    ASSUME FilesTypeOK, NEW j \in Jobs, NEW t \in Claim(j), Quit(j, t)
    PROVE  RunIs(j, t, "idle")
<1>1. Idle \in RunRecord /\ Idle.pc = "idle"
  BY DEF Idle, RunRecord
<1> QED
  BY <1>1, RunPut DEF Quit

-----------------------------------------------------------------------------
(* One action after the other, for the job it is about.                     *)

StepOf(j) == FilesTypeOK' /\ JobInv(j)' /\ \A k \in Jobs \ {j} : Untouched(k)

LEMMA StepKeeps == ASSUME FilesInv, NEW j \in Jobs, StepOf(j) PROVE FilesInv'
BY UntouchedKeeps DEF FilesInv, StepOf

\* What the row and the archive of a job must look like when its only run
\* arrives at pc.
Fits(j, r, pc) ==
    /\ r.kind # "direct" /\ r.st # "none"
    /\ pc \in {"tidy", "release"} => r.kind = "import"
    /\ j \notin outlived =>
          /\ pc \in {"begin", "work", "publish", "fail"} => r.st = "running" /\ r.live
          /\ pc \in {"tidy", "release"} => (r.st = "running" /\ r.live) \/ r.st \in Ended
          /\ r.kind = "export" /\ (pc = "publish" \/ r.st = "success") => file'[j] \/ j \in astray
    /\ row[j].st \in {"none", "deleted"} => r.st \in {"none", "deleted"}

\* A claim, or a step of the run it started.
LEMMA RunArrives ==
    ASSUME FilesInv, NEW j \in Jobs, NEW t \in Claim(j),
           j \notin outlived => \A s \in Claim(j) : Active(j, s) => s = t,
           NEW pc \in RunPc \cup {"idle"}, RunIs(j, t, pc),
           NEW r \in Row, RowIs(j, r), Fits(j, r, pc),
           DOMAIN claims' = Jobs, \A k \in Jobs : claims'[k] \in 0 .. MaxClaims[k],
           UNCHANGED <<up, begun, dl, known, astray, outlived>>,
           bytes' \in [Jobs -> BOOLEAN], file' \in [Jobs -> BOOLEAN],
           \A k \in Jobs \ {j} : file'[k] = file[k]
    PROVE  StepOf(j)
<1> USE DEF FilesInv
<1>1. FilesTypeOK'
  BY DEF FilesTypeOK, RowsTypeOK, RowIs, RunIs, RunRecord, Claim
<1>2. \A k \in Jobs \ {j} : Untouched(k)
  BY DEF Untouched, RowIs, RunIs
<1>3. j \notin outlived => \A s \in Claim(j) : Active(j, s)' => s = t
  BY DEF RunIs, Active
<1>4. RunInv(j)' /\ LeaseInv(j)'
  <2>1. ASSUME NEW s \in Claim(j) PROVE
        /\ Active(j, s)' => KindOf(j)' # "direct" /\ row'[j].st # "none"
        /\ run'[j][s].pc \in {"tidy", "release"} => KindOf(j)' = "import"
    <3>1. CASE s = t
      BY <3>1 DEF Fits, RowIs, RunIs, KindOf
    <3>2. CASE s # t
      BY <3>2 DEF JobInv, RunInv, Fits, RowIs, RunIs, KindOf
    <3> QED
      BY <3>1, <3>2
  <2>2. ASSUME NEW s \in Claim(j), j \notin outlived PROVE
        /\ run'[j][s].pc \in {"begin", "work", "publish", "fail"} => row'[j].st = "running" /\ row'[j].live
        /\ run'[j][s].pc \in {"tidy", "release"}
              => (row'[j].st = "running" /\ row'[j].live) \/ row'[j].st \in Ended
        /\ At(j, s, "publish")' /\ KindOf(j)' = "export" => file'[j] \/ j \in astray'
    <3>1. CASE s = t
      BY <2>2, <3>1 DEF Fits, RowIs, RunIs, At, KindOf
    <3>2. CASE s # t
      BY <1>3, <2>2, <3>2 DEF Active, RunPc, At
    <3> QED
      BY <3>1, <3>2
  <2>3. RunInv(j)'
    BY <2>1 DEF RunInv, Claim
  <2> QED
    BY <2>2, <2>3 DEF LeaseInv, Claim
<1>5. SoleRun(j)'
  BY <1>3 DEF SoleRun, Claim, Active
<1>6. KindInv(j)'
  BY DEF JobInv, KindInv, RowIs, KindOf
<1>7. ArchiveInv(j)'
  <2>1. ArchiveInv(j) /\ row'[j] = r /\ r.kind = row[j].kind
    BY DEF JobInv, RowIs
  <2> QED
    BY <2>1 DEF ArchiveInv, Fits, KindOf
<1> QED
  BY <1>1, <1>2, <1>4, <1>5, <1>6, <1>7 DEF StepOf, JobInv

LEMMA RunFits ==
    ASSUME FilesInv, NEW j \in Jobs, NEW t \in Claim(j), Active(j, t),
           NEW pc \in RunPc \cup {"idle"}, RunIs(j, t, pc),
           NEW r \in Row, RowIs(j, r), Fits(j, r, pc),
           UNCHANGED <<claims, up, begun, dl, known, astray, outlived>>,
           bytes' \in [Jobs -> BOOLEAN], file' \in [Jobs -> BOOLEAN],
           \A k \in Jobs \ {j} : file'[k] = file[k]
    PROVE  StepOf(j)
<1>1. j \notin outlived => \A s \in Claim(j) : Active(j, s) => s = t
  BY DEF FilesInv, JobInv, SoleRun
<1>2. DOMAIN claims' = Jobs /\ \A k \in Jobs : claims'[k] \in 0 .. MaxClaims[k]
  BY DEF FilesInv, FilesTypeOK, RowsTypeOK
<1> QED
  BY <1>1, <1>2, RunArrives

LEMMA RunSteps ==
    ASSUME FilesInv, NEW j \in Jobs, NEW t \in Claim(j), RunStep(j, t) \/ Raise(j, t)
    PROVE  StepOf(j)
<1> USE DEF At, Active, KindOf
<1>0. /\ FilesTypeOK /\ row \in [Jobs -> Row] /\ row[j] \in Row
      /\ file \in [Jobs -> BOOLEAN] /\ bytes \in [Jobs -> BOOLEAN]
  BY DEF FilesInv, FilesTypeOK, RowsTypeOK
<1>1. /\ run[j][t].pc \in RunPc => row[j].kind # "direct" /\ row[j].st # "none"
      /\ run[j][t].pc \in {"tidy", "release"} => row[j].kind = "import"
      /\ j \notin outlived =>
            /\ run[j][t].pc \in {"begin", "work", "publish", "fail"} => row[j].st = "running" /\ row[j].live
            /\ run[j][t].pc \in {"tidy", "release"}
                  => (row[j].st = "running" /\ row[j].live) \/ row[j].st \in Ended
            /\ run[j][t].pc = "publish" /\ row[j].kind = "export" => file[j] \/ j \in astray
            /\ row[j].kind = "export" /\ row[j].st = "success" => file[j] \/ j \in astray
  BY DEF FilesInv, JobInv, RunInv, LeaseInv, ArchiveInv
<1>2. row' = row => RowIs(j, row[j])
  BY <1>0 DEF RowIs
<1>3. \A pc \in {"begin", "work", "publish", "fail", "tidy", "release"} :
          pc \in RunPc /\ pc \in RunPc \cup {"idle"} /\ (Go(j, t, pc) => RunIs(j, t, pc))
  BY <1>0, RunGoes DEF RunPc
<1>4. "idle" \in RunPc \cup {"idle"} /\ (Quit(j, t) => RunIs(j, t, "idle"))
  BY <1>0, RunQuits
\* An end that is written, or not.
<1>5. ASSUME NEW r \in Row, RowIs(j, r), r.st # "none",
             row[j].st \in {"none", "deleted"} => r = row[j],
             j \notin outlived =>
                /\ (r.st = "running" /\ r.live) \/ r.st \in {"success", "error"}
                /\ r.st = "success" => run[j][t].pc = "publish",
             Then(j, t), file' = file, Active(j, t), UNCHANGED <<claims, bytes, up, begun, dl, known, astray, outlived>>
      PROVE  StepOf(j)
  <2>0. r.kind = row[j].kind
    BY <1>5 DEF RowIs
  <2>1. CASE KindOf(j) = "import"
    <3>1. Fits(j, r, "tidy")
      BY <1>1, <1>5, <2>0, <2>1 DEF Fits, Ended
    <3>2. RunIs(j, t, "tidy")
      BY <1>3, <1>5, <2>1 DEF Then
    <3> QED
      BY <1>0, <1>3, <1>5, <3>1, <3>2, RunFits
  <2>2. CASE KindOf(j) # "import"
    <3>1. Fits(j, r, "idle")
      BY <1>1, <1>5, <2>0, <2>2 DEF Fits
    <3>2. RunIs(j, t, "idle")
      BY <1>4, <1>5, <2>2 DEF Then
    <3> QED
      BY <1>0, <1>4, <1>5, <3>1, <3>2, RunFits
  <2> QED
    BY <2>1, <2>2
<1>6. CASE Begin(j, t)
  <2>1. CASE row' = row /\ Go(j, t, "fail")
    <3>1. Fits(j, row[j], "fail")
      BY <1>1, <1>6 DEF Begin, Fits, RunPc, Ended
    <3> QED
      BY <1>0, <1>2, <1>3, <1>6, <2>1, <3>1, RunFits DEF Begin, RunPc
  <2>2. CASE Write(j, "running") /\ Go(j, t, "work")
    <3>1. PICK r \in Row : /\ RowIs(j, r)
                           /\ row[j].st \in {"none", "deleted"} => r = row[j]
                           /\ row[j].st \notin {"none", "deleted"} => r.st = "running" /\ r.live
      BY <1>0, <2>2, WriteRow
    <3>2. Fits(j, r, "work")
      BY <1>1, <1>6, <3>1 DEF Begin, Fits, RowIs, RunPc, Ended
    <3> QED
      BY <1>0, <1>3, <1>6, <2>2, <3>1, <3>2, RunFits DEF Begin, RunPc
  <2> QED
    BY <1>6, <2>1, <2>2 DEF Begin
<1>7. CASE Work(j, t)
  <2>1. /\ file' \in [Jobs -> BOOLEAN] /\ \A k \in Jobs \ {j} : file'[k] = file[k]
        /\ KindOf(j) = "export" => file'[j]
    BY <1>0, <1>7 DEF Work
  <2>2. Fits(j, row[j], "publish")
    BY <1>1, <1>7, <2>1 DEF Work, Fits, RunPc, Ended
  <2> QED
    BY <1>0, <1>2, <1>3, <1>7, <2>1, <2>2, RunFits DEF Work, RunPc
<1>8. CASE Raise(j, t)
  <2>1. /\ file' \in [Jobs -> BOOLEAN] /\ \A k \in Jobs \ {j} : file'[k] = file[k]
    BY <1>0, <1>8 DEF Raise
  <2>2. Fits(j, row[j], "fail")
    BY <1>1, <1>8 DEF Raise, Fits, RunPc, Ended
  <2> QED
    BY <1>0, <1>2, <1>3, <1>8, <2>1, <2>2, RunFits DEF Raise, RunPc
<1>9. CASE Publish(j, t)
  <2>1. PICK r \in Row : /\ RowIs(j, r)
                         /\ row[j].st \in {"none", "deleted"} => r = row[j]
                         /\ row[j].st \notin {"none", "deleted"} => r.st = "success"
    BY <1>0, <1>9, WriteRow DEF Publish
  <2> QED
    BY <1>1, <1>5, <1>9, <2>1 DEF Publish, RunPc
<1>10. CASE Fail(j, t)
  <2>1. PICK r \in Row : /\ RowIs(j, r)
                         /\ row[j].st \in {"none", "deleted"} => r = row[j]
                         /\ r = row[j] \/ r.st = "error"
    BY <1>0, <1>2, <1>10, WriteRow DEF Fail
  <2> QED
    BY <1>1, <1>5, <1>10, <2>1 DEF Fail, RunPc
<1>11. CASE Tidy(j, t)
  <2>1. /\ file' \in [Jobs -> BOOLEAN] /\ \A k \in Jobs \ {j} : file'[k] = file[k]
    BY <1>0, <1>11 DEF Tidy
  <2>2. Fits(j, row[j], "release")
    BY <1>1, <1>11 DEF Tidy, Fits, RunPc, Ended
  <2> QED
    BY <1>0, <1>2, <1>3, <1>11, <2>1, <2>2, RunFits DEF Tidy, RunPc
<1>12. CASE Release(j, t)
  <2>1. bytes' \in [Jobs -> BOOLEAN]
    BY <1>0, <1>12 DEF Release
  <2>2. Fits(j, row[j], "idle")
    BY <1>1, <1>12 DEF Release, Fits, RunPc, Ended
  <2> QED
    BY <1>0, <1>2, <1>4, <1>12, <2>1, <2>2, RunFits DEF Release, RunPc
<1> QED
  BY <1>6, <1>7, <1>8, <1>9, <1>10, <1>11, <1>12 DEF RunStep

\* A claim finds no run where no lease ran out under one: the row of a job that
\* has one is neither queued nor lapsed.
LEMMA StartStep ==
    ASSUME FilesInv, NEW j \in Jobs, NEW w \in Workers, Start(j, w)
    PROVE  StepOf(j)
<1> DEFINE t == claims[j] + 1
           r == [row[j] EXCEPT !.st = "running", !.owner = w, !.live = TRUE]
           c == [pc |-> "begin", w |-> w]
<1>0. /\ FilesTypeOK /\ row \in [Jobs -> Row] /\ row[j] \in Row
      /\ DOMAIN claims = Jobs /\ \A k \in Jobs : claims[k] \in 0 .. MaxClaims[k] /\ MaxClaims[k] \in Nat
      /\ file \in [Jobs -> BOOLEAN] /\ bytes \in [Jobs -> BOOLEAN]
  BY JobsAssumption DEF FilesInv, FilesTypeOK, RowsTypeOK
<1>1. /\ row[j].kind # "direct" /\ claims[j] < MaxClaims[j]
      /\ row[j].st = "queued" \/ (row[j].st = "running" /\ ~row[j].live)
      /\ row' = [row EXCEPT ![j].st = "running", ![j].owner = w, ![j].live = TRUE]
      /\ claims' = [claims EXCEPT ![j] = @ + 1]
      /\ run' = [run EXCEPT ![j][t] = c]
      /\ UNCHANGED <<file, bytes, up, begun, dl, known, astray, outlived>>
  BY DEF Start, ClaimRow, Claimable, Lapsed, KindOf
<1>2. t \in Claim(j)
  BY <1>0, <1>1 DEF Claim
<1>3. /\ r \in Row /\ r.kind = row[j].kind /\ r.st = "running" /\ r.live
  BY <1>0 DEF Row, Ended
<1>4. row' = [row EXCEPT ![j] = r]
  BY <1>1
<1>5. c \in RunRecord /\ c.pc = "begin"
  BY DEF RunRecord, RunPc
<1> HIDE DEF r, c, t
<1>6. RowIs(j, r)
  BY <1>0, <1>3, <1>4, RowPut
<1>7. RunIs(j, t, "begin")
  BY <1>0, <1>1, <1>2, <1>5, RunPut
<1>8. j \notin outlived => \A s \in Claim(j) : Active(j, s) => s = t
  BY <1>1 DEF FilesInv, JobInv, LeaseInv, Active, RunPc, Ended
<1>9. Fits(j, r, "begin")
  BY <1>1, <1>3 DEF Fits
<1>10. DOMAIN claims' = Jobs /\ \A k \in Jobs : claims'[k] \in 0 .. MaxClaims[k]
  BY <1>0, <1>1
<1>11. "begin" \in RunPc \cup {"idle"}
  BY DEF RunPc
<1>12. /\ UNCHANGED <<up, begun, dl, known, astray, outlived>>
       /\ bytes' \in [Jobs -> BOOLEAN] /\ file' \in [Jobs -> BOOLEAN]
       /\ \A k \in Jobs \ {j} : file'[k] = file[k]
  BY <1>0, <1>1
<1> QED
  BY <1>2, <1>3, <1>6, <1>7, <1>8, <1>9, <1>10, <1>11, <1>12, RunArrives

\* Steps of others: a run that goes on under them has outlived its lease.
LEMMA OtherStep ==
    ASSUME FilesInv, NEW j \in Jobs, run' = run, KindOf(j)' = KindOf(j),
           \A t \in Claim(j) : Active(j, t) => j \in outlived' /\ row'[j].st # "none",
           FilesTypeOK', KindInv(j)', ArchiveInv(j)', \A k \in Jobs \ {j} : Untouched(k)
    PROVE  StepOf(j)
<1>1. RunInv(j)
  BY DEF FilesInv, JobInv
<1>2. RunInv(j)'
  BY <1>1 DEF RunInv, Claim, Active
<1>3. LeaseInv(j)' /\ SoleRun(j)'
  BY DEF LeaseInv, SoleRun, Claim, At, Active, RunPc
<1> QED
  BY <1>2, <1>3 DEF StepOf, JobInv

\* Steps of others that leave the row and an archive to download alone.
LEMMA SameRow ==
    ASSUME FilesInv, NEW j \in Jobs, UNCHANGED <<row, run, known, astray, outlived>>,
           KindOf(j) = "export" /\ file[j] => file'[j],
           FilesTypeOK', KindInv(j)', \A k \in Jobs \ {j} : Untouched(k)
    PROVE  StepOf(j)
<1>1. RunInv(j) /\ LeaseInv(j) /\ SoleRun(j) /\ ArchiveInv(j)
  BY DEF FilesInv, JobInv
<1>2. RunInv(j)' /\ LeaseInv(j)'
  BY <1>1 DEF RunInv, LeaseInv, Claim, At, Active, KindOf
<1>3. SoleRun(j)' /\ ArchiveInv(j)'
  BY <1>1 DEF SoleRun, ArchiveInv, Claim, Active, KindOf
<1> QED
  BY <1>2, <1>3 DEF StepOf, JobInv

\* What is known of a job that has a run.
LEMMA HasRun ==
    ASSUME FilesInv, NEW j \in Jobs, NEW t \in Claim(j), Active(j, t)
    PROVE  /\ KindOf(j) # "direct" /\ row[j].st # "none"
           /\ j \in outlived \/ ~Lapsed(j)
BY DEF FilesInv, JobInv, RunInv, LeaseInv, Active, RunPc, Ended, Lapsed

LEMMA AdmitSteps ==
    ASSUME FilesInv, NEW j \in Jobs, Submit(j) \/ AdmitImport(j) \/ (AbortImport(j) /\ row' # row)
    PROVE  StepOf(j)
<1>0. /\ FilesTypeOK /\ row \in [Jobs -> Row] /\ row[j] \in Row /\ KindInv(j)
  BY DEF FilesInv, FilesTypeOK, RowsTypeOK, JobInv
<1>1. PICK st \in {"queued", "running"} : Admit(j, st)
  BY DEF Submit, AdmitImport, AbortImport, rowVars
<1> DEFINE r == [row[j] EXCEPT !.st = st, !.live = (st = "running")]
<1>2. r \in Row /\ r.kind = row[j].kind /\ r.st = st
  BY <1>0 DEF Row, Ended
<1>3. row' = [row EXCEPT ![j] = r] /\ row[j].st = "none" /\ claims' = claims
  BY <1>1 DEF Admit
<1> HIDE DEF r
<1>4. RowIs(j, r)
  BY <1>0, <1>2, <1>3, RowPut
<1>5. /\ run' = run /\ begun' = begun /\ dl' = dl /\ known' = known /\ outlived' = outlived
      /\ bytes' \in [Jobs -> BOOLEAN] /\ file' \in [Jobs -> BOOLEAN]
      /\ up' \in [Jobs -> {"none", "receiving", "done", "aborted"}]
      /\ \A k \in Jobs \ {j} : file'[k] = file[k] /\ up'[k] = up[k]
      /\ up'[j] # "none" => up[j] # "none"
      /\ astray \subseteq astray' /\ astray' \subseteq Jobs
  <2>0. /\ file \in [Jobs -> BOOLEAN] /\ bytes \in [Jobs -> BOOLEAN] /\ astray \subseteq Jobs
        /\ up \in [Jobs -> {"none", "receiving", "done", "aborted"}]
    BY <1>0 DEF FilesTypeOK
  <2>1. CASE Submit(j)
    BY <2>0, <2>1 DEF Submit
  <2>2. CASE AdmitImport(j)
    BY <2>0, <2>2 DEF AdmitImport
  <2>3. CASE AbortImport(j)
    BY <2>0, <2>3 DEF AbortImport
  <2> QED
    BY <2>1, <2>2, <2>3
<1>6. FilesTypeOK'
  BY <1>0, <1>3, <1>4, <1>5 DEF FilesTypeOK, RowsTypeOK, RowIs, Claim
<1>7. KindInv(j)'
  BY <1>0, <1>4, <1>5 DEF KindInv, RowIs, KindOf
<1>8. ArchiveInv(j)'
  <2>1. CASE Submit(j)
    <3>1. /\ KindOf(j) = "export" => known = {} \/ j \in astray'
          /\ known' = known
      BY <2>1 DEF Submit
    <3>2. row'[j] = r /\ r.kind = row[j].kind /\ r.st # "success"
      BY <1>2, <1>4 DEF RowIs
    <3> QED
      BY <3>1, <3>2 DEF ArchiveInv, KindOf
  <2>2. CASE up[j] # "none"
    BY <1>0, <1>4, <2>2 DEF KindInv, ArchiveInv, RowIs, KindOf
  <2> QED
    BY <2>1, <2>2 DEF AdmitImport, AbortImport
<1>9. \A k \in Jobs \ {j} : Untouched(k)
  BY <1>4, <1>5 DEF Untouched, RowIs
<1>10. KindOf(j)' = KindOf(j) /\ \A t \in Claim(j) : ~Active(j, t)
  BY <1>2, <1>3, <1>4, HasRun DEF RowIs, KindOf
<1> QED
  BY <1>5, <1>6, <1>7, <1>8, <1>9, <1>10, OtherStep

\* An upload before its admission, a request at a slot, and reserved bytes.
LEMMA OutsideSteps ==
    ASSUME FilesInv, NEW j \in Jobs,
           \/ Reserve(j) \/ Receive(j) \/ (AbortImport(j) /\ row' = row) \/ BytesLapse(j)
           \/ \E q \in Requests : Ask(j, q) \/ Drop(j, q)
    PROVE  StepOf(j)
<1>0. FilesTypeOK /\ KindInv(j)
  BY DEF FilesInv, JobInv
<1>1. UNCHANGED <<row, claims, run, begun, known, astray, outlived>>
  BY DEF Reserve, Receive, AbortImport, BytesLapse, Ask, Drop, rowVars, Admit
<1>2. /\ bytes' \in [Jobs -> BOOLEAN] /\ file' \in [Jobs -> BOOLEAN]
      /\ up' \in [Jobs -> {"none", "receiving", "done", "aborted"}]
      /\ \A k \in Jobs \ {j} : file'[k] = file[k] /\ up'[k] = up[k]
      /\ up'[j] # "none" => KindOf(j) = "import"
      /\ KindOf(j) = "export" /\ file[j] => file'[j]
  <2>0. /\ file \in [Jobs -> BOOLEAN] /\ bytes \in [Jobs -> BOOLEAN]
        /\ up \in [Jobs -> {"none", "receiving", "done", "aborted"}]
        /\ up[j] # "none" => KindOf(j) = "import"
    BY <1>0 DEF FilesTypeOK, KindInv
  <2>1. CASE Reserve(j)
    BY <2>0, <2>1 DEF Reserve
  <2>2. CASE Receive(j)
    BY <2>0, <2>2 DEF Receive
  <2>3. CASE AbortImport(j)
    BY <2>0, <2>3 DEF AbortImport
  <2>4. CASE BytesLapse(j)
    BY <2>0, <2>4 DEF BytesLapse
  <2>5. CASE \E q \in Requests : Ask(j, q) \/ Drop(j, q)
    BY <2>0, <2>5 DEF Ask, Drop
  <2> QED
    BY <2>1, <2>2, <2>3, <2>4, <2>5
<1>3. /\ dl' \in [Jobs -> [Requests -> {"none", "asked", "ready", "streaming", "done"}]]
      /\ \A k \in Jobs \ {j} : dl'[k] = dl[k]
      /\ \A q \in Requests : dl'[j][q] # "none" => KindOf(j) = "direct"
  <2>1. CASE dl' = dl
    BY <1>0, <2>1 DEF FilesTypeOK, KindInv
  <2>2. CASE \E q \in Requests : Ask(j, q) \/ Drop(j, q)
    <3>1. PICK q \in Requests, v \in {"asked", "done"} :
              dl' = [dl EXCEPT ![j][q] = v] /\ KindOf(j) = "direct"
      BY <1>0, <2>2 DEF Ask, Drop, KindInv
    <3> QED
      BY <1>0, <3>1 DEF FilesTypeOK
  <2> QED
    BY <2>1, <2>2 DEF Reserve, Receive, AbortImport, BytesLapse
<1>4. FilesTypeOK'
  BY <1>0, <1>1, <1>2, <1>3 DEF FilesTypeOK, RowsTypeOK, Claim
<1>5. KindInv(j)'
  BY <1>1, <1>2, <1>3 DEF KindInv, KindOf
<1>6. \A k \in Jobs \ {j} : Untouched(k)
  BY <1>1, <1>2, <1>3 DEF Untouched
<1> QED
  BY <1>1, <1>2, <1>4, <1>5, <1>6, SameRow

\* What a request at a slot stores.
LEMMA SlotSteps ==
    ASSUME FilesInv, NEW j \in Jobs, NEW q \in Requests,
           Prepare(j, q) \/ Stream(j, q) \/ StreamEnd(j, q)
    PROVE  StepOf(j)
<1>0. /\ FilesTypeOK /\ KindInv(j) /\ row \in [Jobs -> Row]
  BY DEF FilesInv, JobInv, FilesTypeOK, RowsTypeOK
<1>1. dl \in [Jobs -> [Requests -> {"none", "asked", "ready", "streaming", "done"}]]
      /\ begun \in [Jobs -> BOOLEAN]
  BY <1>0 DEF FilesTypeOK
<1>2. PICK st \in {"running", "success", "error"}, v \in {"ready", "streaming", "done"} :
          Write(j, st) /\ dl' = [dl EXCEPT ![j][q] = v] /\ dl[j][q] # "none"
  BY DEF Prepare, Stream, StreamEnd
<1>3. /\ UNCHANGED <<claims, file, bytes, up, run, known, astray, outlived>>
      /\ begun' \in [Jobs -> BOOLEAN]
  BY <1>1 DEF Prepare, Stream, StreamEnd
<1>4. KindOf(j) = "direct"
  BY <1>0, <1>2 DEF KindInv
<1>5. PICK r \in Row : RowIs(j, r)
  BY <1>0, <1>2, WriteRow
<1>6. /\ dl' \in [Jobs -> [Requests -> {"none", "asked", "ready", "streaming", "done"}]]
      /\ \A k \in Jobs \ {j} : dl'[k] = dl[k]
  BY <1>1, <1>2
<1>7. KindOf(j)' = "direct"
  BY <1>4, <1>5 DEF RowIs, KindOf
<1>8. FilesTypeOK'
  BY <1>0, <1>3, <1>5, <1>6 DEF FilesTypeOK, RowsTypeOK, RowIs, Claim
<1>9. KindInv(j)' /\ ArchiveInv(j)'
  BY <1>0, <1>3, <1>4, <1>7 DEF KindInv, ArchiveInv
<1>10. \A k \in Jobs \ {j} : Untouched(k)
  BY <1>3, <1>5, <1>6 DEF Untouched, RowIs
<1>11. \A t \in Claim(j) : ~Active(j, t)
  BY <1>4, HasRun
<1> QED
  BY <1>3, <1>4, <1>7, <1>8, <1>9, <1>10, <1>11, OtherStep

\* Time passes under the row of a job, progress puts its lease off, or its row is
\* removed.
LEMMA AgeSteps ==
    ASSUME FilesInv, NEW j \in Jobs, Expire(j) \/ Progress(j) \/ Forget(j) \/ DropSlot(j)
    PROVE  StepOf(j)
<1>0. /\ FilesTypeOK /\ row \in [Jobs -> Row] /\ row[j] \in Row /\ ArchiveInv(j) /\ KindInv(j)
      /\ file \in [Jobs -> BOOLEAN] /\ astray \subseteq Jobs /\ outlived \subseteq Jobs
  BY DEF FilesInv, JobInv, FilesTypeOK, RowsTypeOK
<1>1. UNCHANGED <<claims, bytes, up, run, begun, dl, known>>
  BY DEF Expire, Progress, Renew, Forget, DropSlot, Lapse, Collect
<1>2. PICK r \in Row :
        /\ RowIs(j, r)
        /\ \/ r.st = "deleted"
           \/ r.st = row[j].st /\ row[j].st = "running" /\ file' = file /\ astray' = astray
  <2>1. CASE Expire(j) \/ Progress(j)
    <3>1. PICK b \in BOOLEAN : row' = [row EXCEPT ![j].live = b]
      BY <2>1 DEF Expire, Lapse, Progress, Renew
    <3> DEFINE r == [row[j] EXCEPT !.live = b]
    <3>2. row' = [row EXCEPT ![j] = r]
      BY <3>1
    <3>3. row[j].st = "running" /\ file' = file /\ astray' = astray
      BY <2>1 DEF Expire, Lapse, Progress, Renew, Lapsed
    <3>4. r \in Row /\ r.kind = row[j].kind /\ r.st = row[j].st
      BY <1>0 DEF Row
    <3> HIDE DEF r
    <3> QED
      BY <1>0, <3>2, <3>3, <3>4, RowPut
  <2>2. CASE Forget(j) \/ DropSlot(j)
    <3> DEFINE r == [row[j] EXCEPT !.st = "deleted"]
    <3>1. row' = [row EXCEPT ![j] = r]
      BY <2>2 DEF Forget, DropSlot, Collect
    <3>2. r \in Row /\ r.kind = row[j].kind /\ r.st = "deleted"
      BY <1>0 DEF Row
    <3> HIDE DEF r
    <3> QED
      BY <1>0, <3>1, <3>2, RowPut
  <2> QED
    BY <2>1, <2>2
<1>3. /\ file' \in [Jobs -> BOOLEAN] /\ \A k \in Jobs \ {j} : file'[k] = file[k]
      /\ astray \subseteq astray' /\ astray' \subseteq Jobs
      /\ outlived \subseteq outlived' /\ outlived' \subseteq outlived \cup {j}
  BY <1>0 DEF Expire, Progress, Forget, DropSlot
<1>4. FilesTypeOK'
  BY <1>0, <1>1, <1>2, <1>3 DEF FilesTypeOK, RowsTypeOK, RowIs, Claim
<1>5. KindOf(j)' = KindOf(j) /\ KindInv(j)'
  BY <1>0, <1>1, <1>2 DEF KindInv, RowIs, KindOf
<1>6. ArchiveInv(j)'
  <2>1. row'[j] = r /\ r.kind = row[j].kind
    BY <1>2 DEF RowIs
  <2> QED
    BY <1>0, <1>1, <1>2, <2>1 DEF ArchiveInv, KindOf
<1>7. \A k \in Jobs \ {j} : Untouched(k)
  BY <1>1, <1>2, <1>3 DEF Untouched, RowIs
\* Who takes no notice of a run has come after its lease.
<1>8. ASSUME NEW t \in Claim(j), Active(j, t) PROVE j \in outlived' /\ row'[j].st # "none"
  <2>1. KindOf(j) # "direct" /\ row[j].st # "none" /\ (j \in outlived \/ ~Lapsed(j)) /\ Tended(j)
    BY <1>8, HasRun DEF Tended
  <2>2. j \in outlived'
    BY <1>3, <2>1 DEF Expire, Progress, Renew, Forget, Old, DropSlot
  <2> QED
    BY <1>2, <2>1, <2>2 DEF RowIs
<1> QED
  BY <1>1, <1>4, <1>5, <1>6, <1>7, <1>8, OtherStep

-----------------------------------------------------------------------------
(* Steps that concern every job.                                            *)

\* Runs that stop leave nothing to another.
LEMMA StopSteps ==
    ASSUME FilesInv, NEW w \in Workers, Shutdown(w) \/ Kill(w)
    PROVE  FilesInv'
<1>0. /\ FilesTypeOK /\ \A j \in Jobs : JobInv(j)
      /\ \A j \in Jobs : run[j] \in [Claim(j) -> RunRecord]
  BY DEF FilesInv, FilesTypeOK, RunRecord
<1>1. UNCHANGED <<row, claims, up, begun, dl, known, astray, outlived>>
  BY DEF Shutdown, Kill
<1>2. /\ DOMAIN run' = Jobs
      /\ \A j \in Jobs : /\ run'[j] \in [Claim(j) -> RunRecord]
                         /\ \A t \in Claim(j) : run'[j][t] = run[j][t] \/ run'[j][t] = Idle
  <2>1. run' = Stopped(w) /\ Idle \in RunRecord
    BY DEF Shutdown, Kill, Idle, RunRecord
  <2> QED
    BY <1>0, <2>1 DEF Stopped
<1>3. /\ file' \in [Jobs -> BOOLEAN] /\ bytes' \in [Jobs -> BOOLEAN]
      /\ \A j \in Jobs : KindOf(j) = "export" => file'[j] = file[j]
  BY <1>0 DEF Shutdown, Kill, FilesTypeOK
<1>4. FilesTypeOK'
  BY <1>0, <1>1, <1>2, <1>3 DEF FilesTypeOK, RowsTypeOK, Claim, RunRecord
<1>5. ASSUME NEW j \in Jobs PROVE JobInv(j)'
  <2>1. RunInv(j) /\ LeaseInv(j) /\ SoleRun(j) /\ KindInv(j) /\ ArchiveInv(j)
    BY <1>0 DEF JobInv
  <2>2. RunInv(j)' /\ LeaseInv(j)'
    <3>1. \A t \in Claim(j) : run'[j][t] = run[j][t] \/ run'[j][t].pc = "idle"
      BY <1>2 DEF Idle
    <3>2. RunInv(j)'
      BY <1>1, <2>1, <3>1 DEF RunInv, Claim, Active, RunPc, KindOf
    <3>3. LeaseInv(j)'
      BY <1>1, <1>3, <2>1, <3>1 DEF LeaseInv, Claim, At, KindOf
    <3> QED
      BY <3>2, <3>3
  <2>3. SoleRun(j)'
    BY <1>1, <1>2, <2>1 DEF SoleRun, Claim, Active, Idle, RunPc
  <2>4. KindInv(j)' /\ ArchiveInv(j)'
    BY <1>1, <1>3, <2>1 DEF KindInv, ArchiveInv, KindOf
  <2> QED
    BY <2>2, <2>3, <2>4 DEF JobInv
<1> QED
  BY <1>4, <1>5 DEF FilesInv

\* The clean-up of archives: what it read stands for every export that was there,
\* and those that came later are astray.
LEMMA SweepSteps == ASSUME FilesInv, SweepLook \/ Sweep PROVE FilesInv'
<1>0. /\ FilesTypeOK /\ \A j \in Jobs : JobInv(j) /\ RunInv(j) /\ LeaseInv(j) /\ SoleRun(j) /\ KindInv(j) /\ ArchiveInv(j)
  BY DEF FilesInv, JobInv
<1>1. UNCHANGED <<row, claims, up, run, begun, dl, astray, outlived, bytes>>
  BY DEF SweepLook, Sweep
<1>2. /\ file' \in [Jobs -> BOOLEAN] /\ known' \subseteq SUBSET Jobs
      /\ \A j \in Jobs : KindOf(j) = "export" /\ row[j].st \notin {"none", "deleted"} =>
            /\ file[j] => file'[j] \/ j \in astray
            /\ \A S \in known' : j \in S \/ j \in astray
  <2>1. CASE SweepLook
    BY <1>0, <2>1 DEF SweepLook, WithFiles, Present, FilesTypeOK
  <2>2. CASE Sweep
    BY <1>0, <2>2 DEF Sweep, FilesTypeOK, ArchiveInv
  <2> QED
    BY <2>1, <2>2
<1>3. FilesTypeOK'
  BY <1>0, <1>1, <1>2 DEF FilesTypeOK, RowsTypeOK, Claim
<1>4. ASSUME NEW j \in Jobs PROVE JobInv(j)'
  <2>1. RunInv(j)' /\ LeaseInv(j)'
    BY <1>0, <1>1, <1>2 DEF RunInv, LeaseInv, Claim, At, Active, KindOf
  <2>2. SoleRun(j)' /\ KindInv(j)'
    BY <1>0, <1>1 DEF SoleRun, KindInv, Claim, Active, KindOf
  <2>3. ArchiveInv(j)'
    BY <1>0, <1>1, <1>2 DEF ArchiveInv, KindOf
  <2> QED
    BY <2>1, <2>2, <2>3 DEF JobInv
<1> QED
  BY <1>3, <1>4 DEF FilesInv

-----------------------------------------------------------------------------
(* The invariant.                                                           *)

LEMMA FilesInvInit == FilesInit => FilesInv
<1> SUFFICES ASSUME FilesInit PROVE FilesInv
  OBVIOUS
<1>1. PICK mix \in Mixes :
          row = [j \in Jobs |-> [kind |-> mix[j], st |-> "none", owner |-> Nobody,
                                 live |-> FALSE, cancel |-> FALSE]]
  BY DEF FilesInit, RowsInit
<1>2. mix \in [Jobs -> Kinds]
  BY JobsAssumption
<1>3. row \in [Jobs -> Row] /\ \A j \in Jobs : row[j].st = "none"
  BY <1>1, <1>2 DEF Row, Ended
<1>4. RowsTypeOK
  BY <1>3, JobsAssumption DEF FilesInit, RowsInit, RowsTypeOK
<1>5. /\ DOMAIN run = Jobs
      /\ \A j \in Jobs : /\ run[j] \in [Claim(j) -> [pc : RunPc \cup {"idle"}, w : Workers \cup {Nobody}]]
                         /\ \A t \in Claim(j) : run[j][t].pc = "idle"
  BY DEF FilesInit, Idle
<1>6. FilesTypeOK
  BY <1>4, <1>5 DEF FilesInit, FilesTypeOK
<1>7. ASSUME NEW j \in Jobs PROVE JobInv(j)
  <2>1. RunInv(j) /\ LeaseInv(j) /\ SoleRun(j)
    BY <1>5 DEF RunInv, LeaseInv, SoleRun, At, Active, RunPc
  <2>2. KindInv(j) /\ ArchiveInv(j)
    BY <1>3 DEF FilesInit, KindInv, ArchiveInv
  <2> QED
    BY <2>1, <2>2 DEF JobInv
<1> QED
  BY <1>6, <1>7 DEF FilesInv

LEMMA FilesInvStep == FilesInv /\ [FilesNext]_fileVars => FilesInv'
<1> SUFFICES ASSUME FilesInv, [FilesNext]_fileVars PROVE FilesInv'
  OBVIOUS
<1>1. ASSUME NEW j \in Jobs, Submit(j) \/ AdmitImport(j) PROVE FilesInv'
  BY <1>1, AdmitSteps, StepKeeps
<1>2. ASSUME NEW j \in Jobs, AbortImport(j) PROVE FilesInv'
  BY <1>2, AdmitSteps, OutsideSteps, StepKeeps
<1>3. ASSUME NEW j \in Jobs, \/ Reserve(j) \/ Receive(j) \/ BytesLapse(j)
                             \/ \E q \in Requests : Ask(j, q) \/ Drop(j, q)
      PROVE FilesInv'
  BY <1>3, OutsideSteps, StepKeeps
<1>4. ASSUME NEW j \in Jobs, NEW t \in Claim(j), RunStep(j, t) \/ Raise(j, t) PROVE FilesInv'
  BY <1>4, RunSteps, StepKeeps
<1>5. ASSUME NEW j \in Jobs, NEW w \in Workers, Start(j, w) PROVE FilesInv'
  BY <1>5, StartStep, StepKeeps
<1>6. ASSUME NEW j \in Jobs, NEW q \in Requests, Prepare(j, q) \/ Stream(j, q) \/ StreamEnd(j, q)
      PROVE FilesInv'
  BY <1>6, SlotSteps, StepKeeps
<1>7. ASSUME NEW j \in Jobs, Expire(j) \/ Progress(j) \/ Forget(j) \/ DropSlot(j) PROVE FilesInv'
  BY <1>7, AgeSteps, StepKeeps
<1>8. ASSUME NEW w \in Workers, Shutdown(w) \/ Kill(w) PROVE FilesInv'
  BY <1>8, StopSteps
<1>9. CASE SweepLook \/ Sweep
  BY <1>9, SweepSteps
<1>10. CASE UNCHANGED fileVars
  <2>1. FilesTypeOK'
    BY <1>10 DEF FilesInv, fileVars, FilesTypeOK, RowsTypeOK, Claim
  <2>2. \A j \in Jobs : Untouched(j)
    BY <1>10 DEF fileVars, Untouched
  <2> QED
    BY <2>1, <2>2, UntouchedKeeps DEF FilesInv
<1> QED
  BY <1>1, <1>2, <1>3, <1>4, <1>5, <1>6, <1>7, <1>8, <1>9, <1>10 DEF FilesNext

\* Every state has the types it should, and in each the row of a job that is
\* worked on is running and not lapsed, unless its lease, which only progress puts
\* off (gallery_job_shared.py), ran out under a run: nothing else makes a row that
\* is worked on claimable, collectable or final.
THEOREM AlwaysFilesInv == FilesSpec => []FilesInv
<1> QED
  BY FilesInvInit, FilesInvStep, PTL DEF FilesSpec

\* The writes of these runs are not fenced by lease_owner, so that two runs of a
\* job would write over each other's row and archive.  They meet only where a lease
\* ran out under a run: stops, take-overs, failures to store an error, and
\* collections never bring a second one.
THEOREM OneRunAtATimeHolds == FilesSpec => []OneRunAtATime
<1>1. FilesInv => OneRunAtATime
  BY DEF FilesInv, JobInv, SoleRun, OneRunAtATime
<1> QED
  BY <1>1, AlwaysFilesInv, PTL

\* An export that is ready has its archive, however often its run was taken over
\* and whenever the clean-up of archives (list_gallery_job_ids_with_files first,
\* the directory afterwards) came by, unless it was admitted between the two or a
\* run of it outlived its lease.
THEOREM ReadyExportHasArchiveHolds == FilesSpec => []ReadyExportHasArchive
<1>1. FilesInv => ReadyExportHasArchive
  BY DEF FilesInv, JobInv, ArchiveInv, ReadyExportHasArchive
<1> QED
  BY <1>1, AlwaysFilesInv, PTL

-----------------------------------------------------------------------------
(* Syncs.  Whatever runs overlap, a checkpoint has nothing unsettled before  *)
(* it, and neither has the place of a run, but for what the run has in hand. *)

Settled(j) == met[j] \cup skipped[j]

JobSync(j) ==
    /\ asked[j] \subseteq listed
    /\ ~full[j] => synced \subseteq met[j]
    /\ \A f \in asked[j] : f <= cursor[j] => f \in Settled(j)
    /\ row[j].st = "none" => cursor[j] = 0
    /\ row[j].st = "success" => asked[j] \subseteq Settled(j)

RunSync(w, j) == syncing[w].pc # "idle" /\ syncing[w].job = j =>
    /\ row[j].st # "none"
    /\ syncing[w].ok \subseteq met[j] /\ \A k \in Jobs : ~full[k] => syncing[w].ok \subseteq met[k]
    /\ syncing[w].pc \in {"prepare", "page", "record", "finish"} => syncing[w].todo = {}
    /\ syncing[w].pc # "fail" =>
          /\ \A f \in asked[j] : f <= syncing[w].pos
                => f \in Settled(j) \cup syncing[w].bad \cup syncing[w].todo
          /\ syncing[w].last \/ syncing[w].pc = "finish"
                => \A f \in asked[j] : f > syncing[w].pos => f \in met[j]

SyncInv == /\ SyncTypeOK
           /\ \A j \in Jobs : JobSync(j)
           /\ \A w \in Workers, j \in Jobs : RunSync(w, j)

\* Histories only grow, and an admitted job is not asked for more.
Grows == /\ full' = full
         /\ \A j \in Jobs : /\ met[j] \subseteq met'[j] /\ skipped[j] \subseteq skipped'[j]
                            /\ row[j].st # "none" => row'[j].st # "none" /\ asked'[j] \subseteq asked[j]

\* One process takes a step, or none does.
LEMMA SyncKeeps ==
    ASSUME SyncInv, SyncTypeOK', Grows, \A j \in Jobs : JobSync(j)',
           NEW W \in SUBSET Workers, \A v \in Workers \ W : syncing'[v] = syncing[v],
           \A v \in W, j \in Jobs : RunSync(v, j)'
    PROVE  SyncInv'
<1>1. ASSUME NEW v \in Workers \ W, NEW j \in Jobs PROVE RunSync(v, j)'
  <2>1. RunSync(v, j) /\ syncing'[v] = syncing[v]
    BY DEF SyncInv
  <2> SUFFICES ASSUME syncing[v].pc # "idle", syncing[v].job = j PROVE RunSync(v, j)'
    BY <2>1 DEF RunSync
  <2>2. row[j].st # "none"
    BY <2>1 DEF RunSync
  <2> QED
    BY <2>1, <2>2 DEF RunSync, Grows, Settled
<1> QED
  BY <1>1 DEF SyncInv

\* What a step may do to rows without ending a job well.
RowsGo == /\ RowsTypeOK'
          /\ \A j \in Jobs : /\ row'[j].st = "none" <=> row[j].st = "none"
                             /\ row'[j].st = "success" => row[j].st = "success"

\* Steps that touch rows and runs only.
LEMMA QuietSync ==
    ASSUME SyncInv, RowsGo, UNCHANGED <<full, cursor, library, synced, histories>>,
           NEW W \in SUBSET Workers, \A v \in Workers \ W : syncing'[v] = syncing[v],
           syncing' \in [Workers -> SyncRecord], \A v \in W, j \in Jobs : RunSync(v, j)'
    PROVE  SyncInv'
<1>1. SyncTypeOK'
  BY DEF SyncInv, SyncTypeOK, RowsGo, library, histories, Images
<1>2. \A j \in Jobs : JobSync(j)'
  BY DEF SyncInv, JobSync, Settled, RowsGo, library, histories
<1>3. Grows
  BY DEF Grows, RowsGo, histories
<1> QED
  BY <1>1, <1>2, <1>3, SyncKeeps

LEMMA SameRows == ASSUME SyncInv, UNCHANGED <<row, claims>> PROVE RowsGo
BY DEF SyncInv, SyncTypeOK, RowsTypeOK, RowsGo

LEMMA OneRow ==
    ASSUME SyncInv, NEW j \in Jobs, NEW r \in Row, RowIs(j, r),
           r.st = "none" <=> row[j].st = "none", r.st = "success" => row[j].st = "success",
           DOMAIN claims' = Jobs, \A k \in Jobs : claims'[k] \in 0 .. MaxClaims[k]
    PROVE  RowsGo
BY DEF RowIs, RowsGo, RowsTypeOK

LEMMA WrittenRow ==
    ASSUME SyncInv, NEW j \in Jobs, row[j].st # "none", claims' = claims,
           Write(j, "running") \/ Write(j, "error")
    PROVE  RowsGo
<1>1. row \in [Jobs -> Row] /\ DOMAIN claims = Jobs /\ \A k \in Jobs : claims[k] \in 0 .. MaxClaims[k]
  BY DEF SyncInv, SyncTypeOK, RowsTypeOK
<1>2. PICK st \in {"running", "error"} : Write(j, st)
  OBVIOUS
<1>3. PICK r \in Row : /\ RowIs(j, r)
                       /\ row[j].st \in {"none", "deleted"} => r = row[j]
                       /\ row[j].st \notin {"none", "deleted"} => r.st = st
  BY <1>1, <1>2, WriteRow
<1> QED
  BY <1>1, <1>3, OneRow

\* The run of one process becomes r.
LEMMA TurnsTo ==
    ASSUME SyncInv, NEW w \in Workers, NEW r \in SyncRecord, Turns(w, r)
    PROVE  /\ syncing' \in [Workers -> SyncRecord] /\ syncing'[w] = r
           /\ \A v \in Workers \ {w} : syncing'[v] = syncing[v]
BY DEF SyncInv, SyncTypeOK, Turns

LEMMA RestingRecord == Resting \in SyncRecord /\ Resting.pc = "idle"
BY DEF Resting, SyncRecord

LEMMA StepsTo ==
    ASSUME SyncInv, NEW w \in Workers, NEW pc \in SyncPc, Steps(w, pc)
    PROVE  \E r \in SyncRecord :
              /\ Turns(w, r)
              /\ r.pc = pc /\ r.job = syncing[w].job /\ r.pos = syncing[w].pos /\ r.last = syncing[w].last
              /\ r.todo = syncing[w].todo /\ r.ok = syncing[w].ok /\ r.bad = syncing[w].bad
<1> DEFINE r == [syncing[w] EXCEPT !.pc = pc]
<1>1. syncing[w] \in SyncRecord
  BY DEF SyncInv, SyncTypeOK
<1>2. r \in SyncRecord /\ Turns(w, r)
  BY <1>1 DEF SyncRecord, Steps
<1>3. /\ r.pc = pc /\ r.job = syncing[w].job /\ r.pos = syncing[w].pos /\ r.last = syncing[w].last
      /\ r.todo = syncing[w].todo /\ r.ok = syncing[w].ok /\ r.bad = syncing[w].bad
  BY <1>1 DEF SyncRecord
<1> QED
  BY <1>2, <1>3

-----------------------------------------------------------------------------
(* One action of the syncs after the other.                                 *)

LEMMA SubmitSyncStep == ASSUME SyncInv, NEW j \in Jobs, SubmitSync(j) PROVE SyncInv'
<1> DEFINE r == [row[j] EXCEPT !.st = "queued", !.live = FALSE]
<1>0. SyncTypeOK /\ RowsTypeOK /\ row \in [Jobs -> Row] /\ row[j] \in Row
  BY DEF SyncInv, SyncTypeOK, RowsTypeOK
<1>1. /\ row' = [row EXCEPT ![j] = r] /\ row[j].st = "none" /\ claims' = claims
      /\ asked' = [asked EXCEPT ![j] = listed]
      /\ UNCHANGED <<full, cursor, syncing, listed, gone, synced, met, skipped>>
  BY DEF SubmitSync, Admit, library
<1>2. r \in Row /\ r.kind = row[j].kind /\ r.st = "queued"
  BY <1>0 DEF Row
<1> HIDE DEF r
<1>3. RowIs(j, r)
  BY <1>0, <1>1, <1>2, RowPut
<1>4. SyncTypeOK'
  BY <1>0, <1>1, <1>3 DEF SyncTypeOK, RowsTypeOK, RowIs, Images
<1>5. Grows
  BY <1>0, <1>1, <1>2, <1>3 DEF Grows, RowIs, SyncTypeOK
<1>6. ASSUME NEW k \in Jobs PROVE JobSync(k)'
  <2>1. JobSync(k)
    BY DEF SyncInv
  <2>2. CASE k = j
    <3>1. cursor'[j] = 0 /\ asked'[j] = listed /\ listed \subseteq Images
      BY <1>0, <1>1, <2>1, <2>2 DEF JobSync, SyncTypeOK
    <3>2. ASSUME NEW f \in asked'[j] PROVE ~(f <= cursor'[j])
      <4>1. f \in 1 .. N /\ N \in Nat
        BY <3>1, SyncAssumption DEF Images
      <4> QED
        BY <3>1, <4>1
    <3> QED
      BY <1>1, <1>2, <1>3, <2>1, <2>2, <3>1, <3>2 DEF JobSync, RowIs
  <2>3. CASE k # j
    BY <1>0, <1>1, <1>3, <2>1, <2>3 DEF JobSync, Settled, RowIs, SyncTypeOK
  <2> QED
    BY <2>2, <2>3
<1> QED
  BY <1>1, <1>4, <1>5, <1>6, SyncKeeps, Workers \in SUBSET Workers, {} \in SUBSET Workers

LEMMA ClaimSyncStep == ASSUME SyncInv, NEW j \in Jobs, NEW w \in Workers, ClaimSync(j, w) PROVE SyncInv'
<1> DEFINE r == [row[j] EXCEPT !.st = "running", !.owner = w, !.live = TRUE]
           c == [Resting EXCEPT !.pc = "prepare", !.job = j, !.pos = cursor[j]]
<1>0. /\ SyncTypeOK /\ row \in [Jobs -> Row] /\ row[j] \in Row /\ JobSync(j) /\ cursor[j] \in Nat
      /\ DOMAIN claims = Jobs /\ \A k \in Jobs : claims[k] \in 0 .. MaxClaims[k] /\ MaxClaims[k] \in Nat
  BY JobsAssumption DEF SyncInv, SyncTypeOK, RowsTypeOK
<1>1. /\ claims[j] < MaxClaims[j] /\ row[j].st \in {"queued", "running"}
      /\ row' = [row EXCEPT ![j] = r]
      /\ claims' = [claims EXCEPT ![j] = @ + 1] /\ Turns(w, c)
      /\ UNCHANGED <<full, cursor, library, synced, histories>>
  BY DEF ClaimSync, ClaimRow, Claimable, Lapsed
<1>2. /\ r \in Row /\ r.kind = row[j].kind /\ r.st = "running"
  BY <1>0 DEF Row, Ended
<1>3. /\ c \in SyncRecord /\ c.pc = "prepare" /\ c.job = j /\ c.pos = cursor[j]
      /\ c.todo = {} /\ c.ok = {} /\ c.bad = {} /\ c.last = FALSE
  BY <1>0 DEF Resting, SyncRecord, SyncPc
<1> HIDE DEF r, c
<1>4. RowIs(j, r)
  BY <1>0, <1>1, <1>2, RowPut
<1>5. DOMAIN claims' = Jobs /\ \A k \in Jobs : claims'[k] \in 0 .. MaxClaims[k]
  BY <1>0, <1>1
<1>6. RowsGo
  BY <1>1, <1>2, <1>4, <1>5, OneRow
<1>7. /\ syncing' \in [Workers -> SyncRecord] /\ syncing'[w] = c
      /\ \A v \in Workers \ {w} : syncing'[v] = syncing[v]
  BY <1>1, <1>3, TurnsTo
<1>8. \A k \in Jobs : RunSync(w, k)'
  BY <1>0, <1>1, <1>2, <1>3, <1>4, <1>7 DEF RunSync, JobSync, Settled, RowIs, histories
<1> QED
  BY <1>1, <1>6, <1>7, <1>8, QuietSync, {w} \in SUBSET Workers

\* A run that goes no further leaves nothing to show.
LEMMA RestSync ==
    ASSUME SyncInv, NEW w \in Workers, Turns(w, Resting), RowsGo,
           UNCHANGED <<full, cursor, library, synced, histories>>
    PROVE  SyncInv'
<1>1. /\ syncing' \in [Workers -> SyncRecord] /\ syncing'[w] = Resting
      /\ \A v \in Workers \ {w} : syncing'[v] = syncing[v]
  BY RestingRecord, TurnsTo
<1>2. \A k \in Jobs : RunSync(w, k)'
  BY <1>1, RestingRecord DEF RunSync
<1> QED
  BY <1>1, <1>2, QuietSync, {w} \in SUBSET Workers

\* The clock, progress, collection.
LEMMA ClockSteps == ASSUME SyncInv, NEW j \in Jobs, LapseSync(j) \/ RenewSync(j) \/ CollectSync(j) PROVE SyncInv'
<1>0. /\ row \in [Jobs -> Row] /\ row[j] \in Row /\ syncing \in [Workers -> SyncRecord]
      /\ DOMAIN claims = Jobs /\ \A k \in Jobs : claims[k] \in 0 .. MaxClaims[k]
  BY DEF SyncInv, SyncTypeOK, RowsTypeOK
<1>1. UNCHANGED <<claims, full, cursor, syncing, library, synced, histories>>
  BY DEF LapseSync, Lapse, RenewSync, Renew, CollectSync, Collect
<1>2. PICK r \in Row : RowIs(j, r) /\ (r.st = "deleted" \/ r.st = row[j].st) /\ row[j].st # "none"
  <2>1. CASE LapseSync(j) \/ RenewSync(j)
    <3>1. PICK b \in BOOLEAN : row' = [row EXCEPT ![j].live = b] /\ row[j].st = "running"
      BY <2>1 DEF LapseSync, Lapse, RenewSync, Renew, Lapsed
    <3> DEFINE r == [row[j] EXCEPT !.live = b]
    <3>2. row' = [row EXCEPT ![j] = r]
      BY <3>1
    <3>3. r \in Row /\ r.kind = row[j].kind /\ r.st = row[j].st
      BY <1>0 DEF Row
    <3> HIDE DEF r
    <3> QED
      BY <1>0, <3>1, <3>2, <3>3, RowPut
  <2>2. CASE CollectSync(j)
    <3> DEFINE r == [row[j] EXCEPT !.st = "deleted"]
    <3>1. row' = [row EXCEPT ![j] = r] /\ row[j].st # "none"
      BY <2>2 DEF CollectSync, Collect, Ended
    <3>2. r \in Row /\ r.kind = row[j].kind /\ r.st = "deleted"
      BY <1>0 DEF Row
    <3> HIDE DEF r
    <3> QED
      BY <1>0, <3>1, <3>2, RowPut
  <2> QED
    BY <2>1, <2>2
<1>3. RowsGo
  BY <1>0, <1>1, <1>2, OneRow
<1> QED
  BY <1>0, <1>1, <1>3, QuietSync, {} \in SUBSET Workers

LEMMA PlainSteps ==
    ASSUME SyncInv, NEW j \in Jobs, NEW w \in Workers,
           PrepareSync(w, j) \/ ReadAll(w, j) \/ RaiseSync(w, j) \/ FailSync(w, j)
    PROVE  SyncInv'
<1>0. /\ SyncTypeOK /\ RunSync(w, j) /\ syncing[w].job = j /\ syncing[w].pc # "idle"
      /\ JobSync(j) /\ asked[j] \subseteq listed /\ listed \subseteq Images
      /\ syncing[w] \in SyncRecord
  BY DEF SyncInv, SyncTypeOK, JobSync, PrepareSync, ReadAll, RaiseSync, FailSync, Runs
<1>1. UNCHANGED <<claims, full, cursor, library, synced, histories>>
  BY DEF PrepareSync, ReadAll, RaiseSync, FailSync
<1>2. row[j].st # "none"
  BY <1>0 DEF RunSync
<1>3. RowsGo
  <2>1. CASE row' = row
    BY <1>1, <2>1, SameRows
  <2>2. CASE Write(j, "running") \/ Write(j, "error")
    BY <1>1, <1>2, <2>2, WrittenRow
  <2> QED
    BY <2>1, <2>2 DEF PrepareSync, ReadAll, RaiseSync, FailSync
<1>4. CASE FailSync(w, j)
  BY <1>1, <1>3, <1>4, RestSync DEF FailSync
<1>5. CASE PrepareSync(w, j) \/ ReadAll(w, j) \/ RaiseSync(w, j)
  <2>1. PICK pc \in {"page", "finish", "fail"} :
            /\ Steps(w, pc)
            /\ pc = "page" => syncing[w].pc = "prepare"
            /\ pc = "finish" => syncing[w].pc = "page" /\ (syncing[w].last \/ Compared(w, j) = {})
    BY <1>5 DEF PrepareSync, ReadAll, RaiseSync, Runs
  <2>2. pc \in SyncPc
    BY DEF SyncPc
  <2>3. PICK r \in SyncRecord :
            /\ Turns(w, r)
            /\ r.pc = pc /\ r.job = syncing[w].job /\ r.pos = syncing[w].pos /\ r.last = syncing[w].last
            /\ r.todo = syncing[w].todo /\ r.ok = syncing[w].ok /\ r.bad = syncing[w].bad
    BY <2>1, <2>2, StepsTo
  <2>4. /\ syncing' \in [Workers -> SyncRecord] /\ syncing'[w] = r
        /\ \A v \in Workers \ {w} : syncing'[v] = syncing[v]
    BY <2>3, TurnsTo
  <2>5. pc = "finish" => \A f \in asked[j] : f > syncing[w].pos => f \in met[j]
    BY <1>0, <2>1 DEF RunSync, JobSync, Compared
  <2>6. RunSync(w, j)'
    BY <1>0, <1>1, <1>2, <1>3, <2>1, <2>3, <2>4, <2>5 DEF RunSync, RowsGo, Settled, histories
  <2>7. \A k \in Jobs : RunSync(w, k)'
    BY <1>0, <2>3, <2>4, <2>6 DEF RunSync
  <2> QED
    BY <1>1, <1>3, <2>4, <2>7, QuietSync, {w} \in SUBSET Workers
<1> QED
  BY <1>4, <1>5

LEMMA ImagesNat == ASSUME NEW f \in Images PROVE f \in Nat /\ f > 0
BY SyncAssumption DEF Images

LEMMA ReadPageStep == ASSUME SyncInv, NEW j \in Jobs, NEW w \in Workers, ReadPage(w, j) PROVE SyncInv'
<1>0. /\ SyncTypeOK /\ RunSync(w, j) /\ syncing[w].job = j /\ syncing[w].pc = "page"
      /\ JobSync(j) /\ listed \subseteq Images /\ syncing[w] \in SyncRecord
  BY DEF SyncInv, SyncTypeOK, ReadPage, Runs
<1>1. UNCHANGED <<row, claims, full, cursor, library, synced, histories>>
  BY DEF ReadPage
<1>2. PICK p \in Compared(w, j) :
          LET page == {f \in Compared(w, j) : f <= p}
          IN  /\ \/ Cardinality(page) = BatchSize
                 \/ page = Compared(w, j) /\ Cardinality(page) < BatchSize
              /\ Turns(w, [syncing[w] EXCEPT !.pc = "look", !.pos = p, !.todo = page, !.ok = {},
                                             !.last = Cardinality(page) < BatchSize])
  BY DEF ReadPage
<1> DEFINE page == {f \in Compared(w, j) : f <= p}
           short == Cardinality(page) < BatchSize
           r == [syncing[w] EXCEPT !.pc = "look", !.pos = p, !.todo = page, !.ok = {}, !.last = short]
<1>3. Turns(w, r) /\ (short => page = Compared(w, j))
  BY <1>2, SyncAssumption
<1>4. p \in Nat /\ p > syncing[w].pos /\ Compared(w, j) \subseteq Images /\ page \subseteq Images
  <2>1. p \in Compared(w, j)
    BY <1>2
  <2>2. p > syncing[w].pos /\ Compared(w, j) \subseteq Images
    BY <1>0, <2>1 DEF Compared
  <2> QED
    BY <2>1, <2>2, ImagesNat
<1>5. /\ r \in SyncRecord /\ r.pc = "look" /\ r.job = j /\ r.pos = p /\ r.todo = page /\ r.ok = {}
      /\ r.bad = syncing[w].bad /\ r.last = short
  <2>1. short \in BOOLEAN
    OBVIOUS
  <2> HIDE DEF page, short
  <2> QED
    BY <1>0, <1>4, <2>1 DEF SyncRecord, SyncPc
<1>6. \A f \in page : f \in Compared(w, j) /\ f <= p
  OBVIOUS
<1>7. \A f \in Compared(w, j) : f <= p => f \in page
  OBVIOUS
<1> HIDE DEF page, r, short
<1>8. /\ syncing' \in [Workers -> SyncRecord] /\ syncing'[w] = r
      /\ \A v \in Workers \ {w} : syncing'[v] = syncing[v]
  BY <1>3, <1>5, TurnsTo
<1>9. ASSUME NEW f \in asked[j], f \notin Settled(j), f \notin syncing[w].bad PROVE f \in Compared(w, j)
  <2>1. f \in listed /\ f \in Nat /\ syncing[w].pos \in Nat
    BY <1>0, <1>9, ImagesNat DEF JobSync, SyncRecord
  <2>2. f > syncing[w].pos
    BY <1>0, <1>9, <2>1 DEF RunSync
  <2> QED
    BY <1>0, <1>9, <2>1, <2>2 DEF Compared, JobSync, Settled
<1>10. short => \A f \in asked[j] : f > p => f \in met[j]
  <2> SUFFICES ASSUME short, NEW f \in asked[j], f > p, f \notin met[j] PROVE FALSE
    OBVIOUS
  <2>1. f \in listed /\ f \in Nat /\ syncing[w].pos \in Nat
    BY <1>0, ImagesNat DEF JobSync, SyncRecord
  <2>2. f \in Compared(w, j)
    BY <1>0, <1>4, <2>1 DEF Compared, JobSync
  <2> QED
    BY <1>3, <1>4, <1>6, <2>1, <2>2
<1>11. \A f \in asked[j] : f <= p => f \in Settled(j) \cup syncing[w].bad \cup page
  BY <1>7, <1>9
<1>12. RunSync(w, j)'
  BY <1>0, <1>1, <1>5, <1>8, <1>10, <1>11 DEF RunSync, Settled, histories
<1>13. \A k \in Jobs : RunSync(w, k)'
  BY <1>5, <1>8, <1>12 DEF RunSync
<1>14. RowsGo
  BY <1>1, SameRows
<1> QED
  BY <1>1, <1>8, <1>13, <1>14, QuietSync, {w} \in SUBSET Workers

LEMMA MeetSteps ==
    ASSUME SyncInv, NEW j \in Jobs, NEW w \in Workers, LookUp(w, j) \/ UploadOne(w, j)
    PROVE  SyncInv'
<1>0. /\ SyncTypeOK /\ RunSync(w, j) /\ syncing[w].job = j /\ syncing[w].pc \in {"look", "upload"}
      /\ syncing[w] \in SyncRecord /\ met \in [Jobs -> SUBSET Images]
  BY DEF SyncInv, SyncTypeOK, LookUp, UploadOne, Runs
<1>1. UNCHANGED <<row, claims, full, cursor, library, synced, asked, skipped>>
  BY DEF LookUp, UploadOne, Meet, histories
\* What was met, what failed and what of the page is left.
<1>2. PICK F \in SUBSET syncing[w].todo, B \in SUBSET syncing[w].todo, r \in SyncRecord :
          /\ Turns(w, r) /\ met' = [k \in Jobs |-> IF k = j \/ ~full[k] THEN met[k] \cup F ELSE met[k]]
          /\ r.pc = "upload" /\ r.job = j /\ r.pos = syncing[w].pos /\ r.last = syncing[w].last
          /\ syncing[w].todo \subseteq r.todo \cup F \cup B
          /\ r.ok \subseteq syncing[w].ok \cup F /\ r.bad = syncing[w].bad \cup B
  <2>1. CASE LookUp(w, j)
    <3>1. PICK F \in SUBSET syncing[w].todo :
              /\ Turns(w, [syncing[w] EXCEPT !.pc = "upload", !.todo = @ \ F, !.ok = F])
              /\ Meet(j, F)
      BY <2>1 DEF LookUp
    <3> DEFINE r == [syncing[w] EXCEPT !.pc = "upload", !.todo = @ \ F, !.ok = F]
    <3>2. /\ r \in SyncRecord /\ r.pc = "upload" /\ r.job = j /\ r.pos = syncing[w].pos /\ r.last = syncing[w].last
          /\ r.todo = syncing[w].todo \ F /\ r.ok = F /\ r.bad = syncing[w].bad
      BY <1>0, <3>1 DEF SyncRecord, SyncPc
    <3>3. Turns(w, r)
      BY <3>1
    <3> HIDE DEF r
    <3>4. {} \in SUBSET syncing[w].todo /\ syncing[w].bad = syncing[w].bad \cup {}
      OBVIOUS
    <3>5. syncing[w].todo \subseteq r.todo \cup F \cup {} /\ r.ok \subseteq syncing[w].ok \cup F
      BY <3>2
    <3> QED
      BY <3>1, <3>2, <3>3, <3>4, <3>5 DEF Meet
  <2>2. CASE UploadOne(w, j)
    <3>1. PICK f \in syncing[w].todo :
          \/ /\ Turns(w, [syncing[w] EXCEPT !.todo = @ \ {f}, !.ok = @ \cup {f}])
             /\ Meet(j, {f})
          \/ /\ Turns(w, [syncing[w] EXCEPT !.todo = @ \ {f}, !.bad = @ \cup {f}])
             /\ UNCHANGED histories
      BY <2>2 DEF UploadOne
    <3>2. syncing[w].pc = "upload"
      BY <2>2 DEF UploadOne, Runs
    <3>3. CASE Turns(w, [syncing[w] EXCEPT !.todo = @ \ {f}, !.ok = @ \cup {f}]) /\ Meet(j, {f})
      <4> DEFINE r == [syncing[w] EXCEPT !.todo = @ \ {f}, !.ok = @ \cup {f}]
      <4>1. /\ r \in SyncRecord /\ r.pc = "upload" /\ r.job = j /\ r.pos = syncing[w].pos /\ r.last = syncing[w].last
            /\ r.todo = syncing[w].todo \ {f} /\ r.ok = syncing[w].ok \cup {f} /\ r.bad = syncing[w].bad
        BY <1>0, <3>2 DEF SyncRecord
      <4>2. Turns(w, r)
        BY <3>3
      <4> HIDE DEF r
      <4>3. {} \in SUBSET syncing[w].todo /\ {f} \in SUBSET syncing[w].todo
            /\ syncing[w].bad = syncing[w].bad \cup {}
            /\ syncing[w].todo \subseteq r.todo \cup {f} \cup {}
        BY <4>1
      <4> QED
        BY <3>3, <4>1, <4>2, <4>3 DEF Meet
    <3>4. CASE Turns(w, [syncing[w] EXCEPT !.todo = @ \ {f}, !.bad = @ \cup {f}]) /\ UNCHANGED histories
      <4> DEFINE r == [syncing[w] EXCEPT !.todo = @ \ {f}, !.bad = @ \cup {f}]
      <4>1. /\ r \in SyncRecord /\ r.pc = "upload" /\ r.job = j /\ r.pos = syncing[w].pos /\ r.last = syncing[w].last
            /\ r.todo = syncing[w].todo \ {f} /\ r.ok = syncing[w].ok /\ r.bad = syncing[w].bad \cup {f}
        BY <1>0, <3>2 DEF SyncRecord
      <4>2. Turns(w, r)
        BY <3>4
      <4> HIDE DEF r
      <4>3. {} \in SUBSET syncing[w].todo /\ {f} \in SUBSET syncing[w].todo
            /\ r.ok \subseteq syncing[w].ok \cup {}
            /\ syncing[w].todo \subseteq r.todo \cup {} \cup {f}
        BY <4>1
      <4>4. met' = [k \in Jobs |-> IF k = j \/ ~full[k] THEN met[k] \cup {} ELSE met[k]]
        BY <1>0, <3>4 DEF histories
      <4> QED
        BY <4>1, <4>2, <4>3, <4>4
    <3> QED
      BY <3>1, <3>3, <3>4
  <2> QED
    BY <2>1, <2>2
<1>3. /\ syncing' \in [Workers -> SyncRecord] /\ syncing'[w] = r
      /\ \A v \in Workers \ {w} : syncing'[v] = syncing[v]
  BY <1>2, TurnsTo
<1>4. F \subseteq Images
  BY <1>0 DEF SyncRecord
<1>5. SyncTypeOK'
  BY <1>0, <1>1, <1>2, <1>3, <1>4 DEF SyncTypeOK, RowsTypeOK, library, Images
<1>6. \A k \in Jobs : met[k] \subseteq met'[k] /\ (k = j \/ ~full[k] => met'[k] = met[k] \cup F)
  BY <1>2
<1>7. Grows
  BY <1>1, <1>6 DEF Grows
<1>8. \A k \in Jobs : JobSync(k)'
  BY <1>1, <1>6 DEF SyncInv, JobSync, Settled, library
<1>9. RunSync(w, j)'
  BY <1>0, <1>1, <1>2, <1>3, <1>6 DEF RunSync, Settled
<1>10. \A k \in Jobs : RunSync(w, k)'
  BY <1>2, <1>3, <1>9 DEF RunSync
<1> QED
  BY <1>3, <1>5, <1>7, <1>8, <1>10, SyncKeeps, {w} \in SUBSET Workers

\* A checkpoint settles what lies before it: what failed is skipped from now on.
LEMMA CheckpointStep == ASSUME SyncInv, NEW j \in Jobs, NEW w \in Workers, Checkpoint(w, j) PROVE SyncInv'
<1>0. /\ SyncTypeOK /\ RunSync(w, j) /\ syncing[w].job = j /\ syncing[w].pc = "upload"
      /\ syncing[w].todo = {} /\ syncing[w] \in SyncRecord
      /\ cursor \in [Jobs -> Nat] /\ skipped \in [Jobs -> SUBSET Images]
  BY DEF SyncInv, SyncTypeOK, Checkpoint, PageDone, Runs
<1>1. UNCHANGED <<row, claims, full, library, synced, asked, met>>
  BY DEF Checkpoint
<1>2. PICK r \in SyncRecord :
          /\ Turns(w, r)
          /\ r.pc = "record" /\ r.job = j /\ r.pos = syncing[w].pos /\ r.last = syncing[w].last
          /\ r.todo = syncing[w].todo /\ r.ok = syncing[w].ok /\ r.bad = syncing[w].bad
  BY <1>0, StepsTo DEF Checkpoint, SyncPc
<1>3. /\ syncing' \in [Workers -> SyncRecord] /\ syncing'[w] = r
      /\ \A v \in Workers \ {w} : syncing'[v] = syncing[v]
  BY <1>2, TurnsTo
<1>4. \/ /\ cursor' = [cursor EXCEPT ![j] = syncing[w].pos]
         /\ skipped' = [skipped EXCEPT ![j] = @ \cup syncing[w].bad]
      \/ UNCHANGED <<cursor, skipped>>
  BY DEF Checkpoint
<1>5. syncing[w].pos \in Nat /\ syncing[w].bad \subseteq Images
  BY <1>0 DEF SyncRecord
<1>6. /\ cursor' \in [Jobs -> Nat] /\ skipped' \in [Jobs -> SUBSET Images]
      /\ \A k \in Jobs : skipped[k] \subseteq skipped'[k]
      /\ \A k \in Jobs \ {j} : cursor'[k] = cursor[k]
  BY <1>0, <1>4, <1>5
<1>7. cursor'[j] = cursor[j] \/ (cursor'[j] = syncing[w].pos /\ syncing[w].bad \subseteq skipped'[j])
  BY <1>0, <1>4
<1>8. SyncTypeOK'
  BY <1>0, <1>1, <1>3, <1>6 DEF SyncTypeOK, RowsTypeOK, library, Images
<1>9. Grows
  BY <1>1, <1>6 DEF Grows
<1>10. ASSUME NEW k \in Jobs PROVE JobSync(k)'
  <2>1. JobSync(k)
    BY DEF SyncInv
  <2>2. CASE cursor'[k] = cursor[k]
    BY <1>1, <1>6, <2>1, <2>2 DEF JobSync, Settled, library
  <2>3. CASE k = j /\ cursor'[j] = syncing[w].pos /\ syncing[w].bad \subseteq skipped'[j]
    <3>1. row[j].st # "none" /\ \A f \in asked[j] : f <= syncing[w].pos => f \in Settled(j) \cup syncing[w].bad
      BY <1>0 DEF RunSync
    <3> QED
      BY <1>1, <1>6, <2>1, <2>3, <3>1 DEF JobSync, Settled, library
  <2> QED
    BY <1>6, <1>7, <2>2, <2>3
<1>11. RunSync(w, j)'
  BY <1>0, <1>1, <1>2, <1>3, <1>6 DEF RunSync, Settled
<1>12. \A k \in Jobs : RunSync(w, k)'
  BY <1>2, <1>3, <1>11 DEF RunSync
<1> QED
  BY <1>3, <1>8, <1>9, <1>10, <1>12, SyncKeeps, {w} \in SUBSET Workers

\* Only what has been met is recorded, for whatever job looks there next.
LEMMA RecordStep == ASSUME SyncInv, NEW j \in Jobs, NEW w \in Workers, Record(w, j) PROVE SyncInv'
<1> DEFINE r == [syncing[w] EXCEPT !.pc = "page", !.todo = {}, !.ok = {}]
<1>0. /\ SyncTypeOK /\ RunSync(w, j) /\ syncing[w].job = j /\ syncing[w].pc = "record"
      /\ syncing[w].todo = {} /\ syncing[w] \in SyncRecord /\ synced \subseteq Images
  BY DEF SyncInv, SyncTypeOK, Record, Runs, RunSync
<1>1. UNCHANGED <<row, claims, full, cursor, library, histories>> /\ Turns(w, r)
  BY DEF Record
<1>2. /\ r \in SyncRecord /\ r.pc = "page" /\ r.job = j /\ r.pos = syncing[w].pos /\ r.last = syncing[w].last
      /\ r.todo = {} /\ r.ok = {} /\ r.bad = syncing[w].bad
  BY <1>0 DEF SyncRecord, SyncPc
<1> HIDE DEF r
<1>3. /\ syncing' \in [Workers -> SyncRecord] /\ syncing'[w] = r
      /\ \A v \in Workers \ {w} : syncing'[v] = syncing[v]
  BY <1>1, <1>2, TurnsTo
<1>4. synced' \subseteq synced \cup syncing[w].ok /\ syncing[w].ok \subseteq Images
  BY <1>0 DEF Record, SyncRecord
<1>5. SyncTypeOK'
  BY <1>0, <1>1, <1>3, <1>4 DEF SyncTypeOK, RowsTypeOK, library, histories, Images
<1>6. Grows
  BY <1>1 DEF Grows, histories
<1>7. ASSUME NEW k \in Jobs PROVE JobSync(k)'
  <2>1. JobSync(k) /\ (~full[k] => syncing[w].ok \subseteq met[k])
    BY <1>0 DEF SyncInv, RunSync
  <2> QED
    BY <1>1, <1>4, <2>1 DEF JobSync, Settled, library, histories
<1>8. RunSync(w, j)'
  BY <1>0, <1>1, <1>2, <1>3 DEF RunSync, Settled, histories
<1>9. \A k \in Jobs : RunSync(w, k)'
  BY <1>2, <1>3, <1>8 DEF RunSync
<1> QED
  BY <1>3, <1>5, <1>6, <1>7, <1>9, SyncKeeps, {w} \in SUBSET Workers

\* A run without failures has met every image, except those an earlier run left
\* behind a checkpoint.
LEMMA FinishSyncStep == ASSUME SyncInv, NEW j \in Jobs, NEW w \in Workers, FinishSync(w, j) PROVE SyncInv'
<1>0. /\ SyncTypeOK /\ RunSync(w, j) /\ syncing[w].job = j /\ syncing[w].pc = "finish"
      /\ syncing[w] \in SyncRecord /\ JobSync(j) /\ listed \subseteq Images
      /\ row \in [Jobs -> Row] /\ cursor \in [Jobs -> Nat]
  BY DEF SyncInv, SyncTypeOK, RowsTypeOK, FinishSync, Runs
<1>1. UNCHANGED <<claims, full, library, synced, histories>> /\ Turns(w, Resting)
  BY DEF FinishSync
<1>2. row[j].st # "none"
  BY <1>0 DEF RunSync
<1>3. CASE Write(j, "error") /\ cursor' = cursor
  <2>1. RowsGo
    BY <1>1, <1>2, <1>3, WrittenRow
  <2> QED
    BY <1>1, <1>3, <2>1, RestSync
<1>4. CASE syncing[w].bad = {} /\ Write(j, "success")
           /\ cursor' = IF row[j].st = "deleted" THEN cursor ELSE [cursor EXCEPT ![j] = 0]
  <2>1. PICK r \in Row : /\ RowIs(j, r)
                         /\ row[j].st \in {"none", "deleted"} => r = row[j]
                         /\ row[j].st \notin {"none", "deleted"} => r.st = "success"
    BY <1>0, <1>4, WriteRow
  <2>2. asked[j] \subseteq Settled(j)
    <3> SUFFICES ASSUME NEW f \in asked[j] PROVE f \in Settled(j)
      OBVIOUS
    <3>1. f \in Nat /\ syncing[w].pos \in Nat
      BY <1>0, ImagesNat DEF JobSync, SyncRecord
    <3>2. CASE f <= syncing[w].pos
      BY <1>0, <1>4, <3>2 DEF RunSync
    <3>3. CASE f > syncing[w].pos
      BY <1>0, <3>3 DEF RunSync, Settled
    <3> QED
      BY <3>1, <3>2, <3>3
  <2>3. /\ cursor' \in [Jobs -> Nat] /\ \A k \in Jobs \ {j} : cursor'[k] = cursor[k]
        /\ cursor'[j] = cursor[j] \/ cursor'[j] = 0
    BY <1>0, <1>4
  <2>4. /\ syncing' \in [Workers -> SyncRecord] /\ syncing'[w] = Resting
        /\ \A v \in Workers \ {w} : syncing'[v] = syncing[v]
    BY <1>1, RestingRecord, TurnsTo
  <2>5. SyncTypeOK'
    BY <1>0, <1>1, <2>1, <2>3, <2>4 DEF SyncTypeOK, RowsTypeOK, RowIs, library, histories, Images
  <2>6. \A k \in Jobs \ {j} : row'[k] = row[k]
    BY <2>1 DEF RowIs
  <2>7. row'[j].st # "none"
    BY <1>2, <2>1 DEF RowIs
  <2>8. Grows
    BY <1>1, <2>6, <2>7 DEF Grows, histories
  <2>9. ASSUME NEW k \in Jobs PROVE JobSync(k)'
    <3>1. JobSync(k)
      BY DEF SyncInv
    <3>2. CASE k = j
      <4>1. \A f \in asked[j] : f \in Settled(j)
        BY <2>2
      <4> QED
        BY <1>0, <1>1, <2>7, <3>2, <4>1 DEF JobSync, Settled, library, histories
    <3>3. CASE k # j
      BY <1>1, <2>3, <2>6, <3>1, <3>3 DEF JobSync, Settled, library, histories
    <3> QED
      BY <3>2, <3>3
  <2>10. \A k \in Jobs : RunSync(w, k)'
    BY <2>4, RestingRecord DEF RunSync
  <2> QED
    BY <2>4, <2>5, <2>8, <2>9, <2>10, SyncKeeps, {w} \in SUBSET Workers
<1> QED
  BY <1>3, <1>4 DEF FinishSync

LEMMA LibrarySteps == ASSUME SyncInv, NEW f \in Images, AddImage(f) \/ DeleteImage(f) PROVE SyncInv'
<1>0. SyncTypeOK
  BY DEF SyncInv
<1>1. UNCHANGED <<row, claims, full, cursor, syncing, met, skipped>>
  BY DEF AddImage, DeleteImage, histories
<1>2. /\ listed' \subseteq Images /\ gone' \subseteq Images /\ synced' \subseteq synced
      /\ asked' \in [Jobs -> SUBSET Images]
      /\ \A j \in Jobs : asked'[j] \subseteq asked[j] /\ (asked[j] \subseteq listed => asked'[j] \subseteq listed')
  BY <1>0 DEF AddImage, DeleteImage, SyncTypeOK, histories
<1>3. SyncTypeOK'
  BY <1>0, <1>1, <1>2 DEF SyncTypeOK, RowsTypeOK, Images
<1>4. Grows
  BY <1>1, <1>2 DEF Grows
<1>5. \A j \in Jobs : JobSync(j)'
  BY <1>1, <1>2 DEF SyncInv, JobSync, Settled
<1> QED
  BY <1>1, <1>3, <1>4, <1>5, SyncKeeps, {} \in SUBSET Workers

LEMMA SyncInvInit == SyncInit => SyncInv
<1> SUFFICES ASSUME SyncInit PROVE SyncInv
  OBVIOUS
<1>1. PICK mix \in Mixes :
          row = [j \in Jobs |-> [kind |-> mix[j], st |-> "none", owner |-> Nobody,
                                 live |-> FALSE, cancel |-> FALSE]]
  BY DEF SyncInit, RowsInit
<1>2. mix \in [Jobs -> Kinds]
  BY JobsAssumption
<1>3. row \in [Jobs -> Row] /\ \A j \in Jobs : row[j].st = "none"
  BY <1>1, <1>2 DEF Row, Ended
<1>4. RowsTypeOK
  BY <1>3, JobsAssumption DEF SyncInit, RowsInit, RowsTypeOK
<1>5. syncing \in [Workers -> SyncRecord] /\ \A w \in Workers : syncing[w].pc = "idle"
  BY RestingRecord DEF SyncInit
<1>6. SyncTypeOK
  BY <1>4, <1>5 DEF SyncInit, SyncTypeOK
<1>7. \A j \in Jobs : JobSync(j)
  BY <1>3 DEF SyncInit, JobSync
<1>8. \A w \in Workers, j \in Jobs : RunSync(w, j)
  BY <1>5 DEF RunSync
<1> QED
  BY <1>6, <1>7, <1>8 DEF SyncInv

LEMMA SyncInvStep == SyncInv /\ [SyncNext]_syncVars => SyncInv'
<1> SUFFICES ASSUME SyncInv, [SyncNext]_syncVars PROVE SyncInv'
  OBVIOUS
<1>1. ASSUME NEW j \in Jobs, SubmitSync(j) PROVE SyncInv'
  BY <1>1, SubmitSyncStep
<1>2. ASSUME NEW j \in Jobs, LapseSync(j) \/ RenewSync(j) \/ CollectSync(j) PROVE SyncInv'
  BY <1>2, ClockSteps
<1>3. ASSUME NEW j \in Jobs, NEW w \in Workers, ClaimSync(j, w) PROVE SyncInv'
  BY <1>3, ClaimSyncStep
<1>4. ASSUME NEW j \in Jobs, NEW w \in Workers, SyncStep(w, j) \/ RaiseSync(w, j) PROVE SyncInv'
  <2>1. CASE PrepareSync(w, j) \/ ReadAll(w, j) \/ RaiseSync(w, j) \/ FailSync(w, j)
    BY <2>1, PlainSteps
  <2>2. CASE ReadPage(w, j)
    BY <2>2, ReadPageStep
  <2>3. CASE LookUp(w, j) \/ UploadOne(w, j)
    BY <2>3, MeetSteps
  <2>4. CASE Checkpoint(w, j)
    BY <2>4, CheckpointStep
  <2>5. CASE Record(w, j)
    BY <2>5, RecordStep
  <2>6. CASE FinishSync(w, j)
    BY <2>6, FinishSyncStep
  <2> QED
    BY <1>4, <2>1, <2>2, <2>3, <2>4, <2>5, <2>6 DEF SyncStep
<1>5. ASSUME NEW w \in Workers, StopSync(w) PROVE SyncInv'
  <2>1. Turns(w, Resting) /\ UNCHANGED <<row, claims, full, cursor, library, synced, histories>>
    BY <1>5 DEF StopSync
  <2> QED
    BY <2>1, SameRows, RestSync
<1>6. ASSUME NEW f \in Images, AddImage(f) \/ DeleteImage(f) PROVE SyncInv'
  BY <1>6, LibrarySteps
<1>7. CASE UNCHANGED syncVars
  <2>1. UNCHANGED <<row, claims, full, cursor, syncing, library, synced, histories>>
    BY <1>7 DEF syncVars, library, histories
  <2>2. syncing' \in [Workers -> SyncRecord]
    BY <2>1 DEF SyncInv, SyncTypeOK
  <2> QED
    BY <2>1, <2>2, SameRows, QuietSync, {} \in SUBSET Workers
<1> QED
  BY <1>1, <1>2, <1>3, <1>4, <1>5, <1>6, <1>7 DEF SyncNext

\* Whatever overlaps, stops or is stored twice, a sync that has succeeded
\* (sync_gallery_to_r2, resumed behind start_after_filename) has had every image it
\* was asked to copy in the bucket, or had left it behind a checkpoint of its own
\* after a failed upload.  Leases are not assumed to hold: neither the checkpoint
\* nor r2_sync_state relies on there being one run at a time.
THEOREM NothingSkippedHolds == SyncSpec => []NothingSkipped
<1>1. SyncInv => NothingSkipped
  BY DEF SyncInv, JobSync, Settled, NothingSkipped
<1> QED
  BY <1>1, SyncInvInit, SyncInvStep, PTL DEF SyncSpec
=============================================================================
