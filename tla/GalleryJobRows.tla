---------------------------- MODULE GalleryJobRows ----------------------------
(***************************************************************************)
(* The table gallery_jobs (repositories/coordination/gallery_jobs.py): the *)
(* transactions that the runners of every kind of gallery job share.       *)
(*                                                                         *)
(* Unlike a unit of an image job, a gallery job has no token: a claim      *)
(* stores the name of the claiming process.  What tells two claims of the  *)
(* same process apart is only how many jobs its dispatcher runs at a time. *)
(***************************************************************************)
EXTENDS Integers, FiniteSets

CONSTANTS
    Jobs,
    Mixes,      \* the kinds of the jobs: one mix in each behaviour
    Limit,      \* how many jobs of a kind are admitted and run (MAX_ACTIVE_...)
    Workers,    \* processes, by worker_id
    Nobody,
    MaxClaims,  \* bound: claims of each job
    Stalls      \* kinds whose runs may outlast their lease

Kinds == {"nodeimage", "analyze", "export", "direct", "import", "sync"}

ASSUME JobsAssumption == /\ IsFiniteSet(Jobs)
                         /\ Mixes \subseteq [Jobs -> Kinds]
                         /\ Limit \in [Kinds -> Nat \ {0}]
                         /\ MaxClaims \in [Jobs -> Nat]
                         /\ Nobody \notin Workers
                         /\ Stalls \subseteq Kinds

VARIABLES
    row,        \* the columns the properties need
    claims      \* how often a job was claimed

rowVars == <<row, claims>>

Ended == {"success", "partial", "cancelled", "error"}
Row == [kind : Kinds,
        st : {"none", "queued", "running", "deleted"} \cup Ended,
        owner : Workers \cup {Nobody},
        live : BOOLEAN,       \* lease_expires_at lies ahead
        cancel : BOOLEAN]     \* payload.cancel_requested

RowsInit == /\ \E mix \in Mixes :
                  row = [j \in Jobs |-> [kind |-> mix[j], st |-> "none", owner |-> Nobody,
                                        live |-> FALSE, cancel |-> FALSE]]
            /\ claims = [j \in Jobs |-> 0]

KindOf(j) == row[j].kind

\* Direct downloads take the places of export jobs.
Place(kind) == IF kind = "direct" THEN "export" ELSE kind
Alike(j) == {k \in Jobs : Place(KindOf(k)) = Place(KindOf(j))}

Running(j) == {k \in Alike(j) : row[k].st = "running" /\ row[k].live}
Occupying(j) == Running(j) \cup {k \in Alike(j) : row[k].st = "queued"}

Lapsed(j) == row[j].st = "running" /\ ~row[j].live
Owns(j, w) == row[j].st = "running" /\ row[j].owner = w /\ row[j].live

\* What every terminal update stores beside the status.
End(j, st) == row' = [row EXCEPT ![j].st = st, ![j].owner = Nobody, ![j].live = FALSE]

-----------------------------------------------------------------------------
(* Admission: counted and inserted in one transaction.                      *)

Admit(j, first) ==
    /\ row[j].st = "none"
    /\ Cardinality(Occupying(j)) < Limit[Place(KindOf(j))]
    /\ row' = [row EXCEPT ![j].st = first, ![j].live = first = "running"]
    /\ UNCHANGED claims

-----------------------------------------------------------------------------
(* Claims.  Jobs whose owner stopped come before jobs in the queue.         *)

\* Mutant: only queued jobs.
M_Claimable_QueuedOnly(j) == row[j].st = "queued"

\* Mutant: jobs that run, whatever their lease.
M_Claimable_Running(j) == row[j].st \in {"queued", "running"}

Claimable(j) ==
    \/ Lapsed(j)
    \/ row[j].st = "queued" /\ ~ \E k \in Jobs : KindOf(k) = KindOf(j) /\ Lapsed(k)

ClaimRow(j, w) ==
    /\ claims[j] < MaxClaims[j]
    /\ Claimable(j)
    /\ Cardinality(Running(j)) < Limit[Place(KindOf(j))]
    /\ row' = [row EXCEPT ![j].st = "running", ![j].owner = w, ![j].live = TRUE]
    /\ claims' = [claims EXCEPT ![j] = @ + 1]

-----------------------------------------------------------------------------
(* Updates and progress of runs whose writes are not fenced.                *)

\* update_gallery_job without lease_owner: any row that exists.
Write(j, st) ==
    row' = IF row[j].st \in {"none", "deleted"} THEN row
           ELSE [row EXCEPT ![j].st = st, ![j].live = st = "running",
                            ![j].owner = IF st = "running" THEN @ ELSE Nobody]

\* update_gallery_job_progress with a new lease, whoever has the job by now.
Renew(j) == /\ Lapsed(j)
            /\ row' = [row EXCEPT ![j].live = TRUE]
            /\ UNCHANGED claims

-----------------------------------------------------------------------------
(* The end of a lease, cancellation and garbage.                            *)

\* Time passes.  The bound on claims leaves one for whoever takes over.
Lapse(j, abandoned) ==
    /\ row[j].st = "running" /\ row[j].live
    /\ claims[j] < MaxClaims[j]
    /\ abandoned \/ KindOf(j) \in Stalls
    /\ row' = [row EXCEPT ![j].live = FALSE]
    /\ UNCHANGED claims

\* request_gallery_job_cancellation: only a queued job ends at once.
RequestCancel(j) ==
    /\ \/ row[j].st = "queued" /\ End(j, "cancelled")
       \/ row[j].st = "running" /\ row' = [row EXCEPT ![j].cancel = TRUE]
    /\ UNCHANGED claims

\* cleanup_stale_gallery_jobs: ended, and old enough.
Collect(j) == /\ row[j].st \in Ended
              /\ row' = [row EXCEPT ![j].st = "deleted"]
              /\ UNCHANGED claims

-----------------------------------------------------------------------------
(* Properties of every kind.                                                *)

RowsTypeOK == /\ row \in [Jobs -> Row] 
              /\ DOMAIN claims = Jobs /\ \A j \in Jobs : claims[j] \in 0 .. MaxClaims[j]

\* A job that has ended changes only by being collected: no late progress write,
\* cancellation or result of an earlier owner reaches it.
EndedJobsFrozen ==
    [][\A j \in Jobs : row[j].st \in Ended
          => row'[j] = row[j] \/ row'[j] = [row[j] EXCEPT !.st = "deleted"]]_rowVars

\* A cancellation that was accepted is not forgotten while the job runs,
\* although its runner writes the whole payload after every item.
CancelSticks ==
    [][\A j \in Jobs : row[j].cancel => row'[j].cancel]_rowVars
=============================================================================
