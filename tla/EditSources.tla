----------------------------- MODULE EditSources -----------------------------
(***************************************************************************)
(* The temporary files of edit jobs (backend/app/services/edit_sources.py, *)
(* job_queue.py, job_cancel.py), beside the processes that work on their   *)
(* units.                                                                  *)
(*                                                                         *)
(* A request copies its uploads to files, queues the job, and forgets      *)
(* them; the paths are then only in the unit rows.  Whoever finds a job    *)
(* over removes them: an aggregation after its final write, or the cancel  *)
(* route.  Every process may run every one of these.  All the files of a   *)
(* job are copied and removed together, so "files" is a set of jobs.       *)
(***************************************************************************)
EXTENDS ImageUnitExecution

\* What may befall a job besides work: the user may "cancel" or "forget" (clear,
\* trim) it, an agent may "withdraw" it, a request may "abort" while it is
\* stored, and maintenance may find its files "stale".
CONSTANT Events

ASSUME EventsAssumption == Events \subseteq {"cancel", "forget", "withdraw", "abort", "stale"}

VARIABLES
    files,      \* jobs whose uploads are on disk
    request,    \* the request that submits a job
    route,      \* the cancel route of a job
    tidying     \* jobs an aggregation is about to clean up after

fileVars == <<vars, files, request, route, tidying>>

Rejecting == {"reject", "withdraw"}
RequestState == {"idle", "staged", "late", "done"} \cup Rejecting
RouteState == {"idle", "saw_running", "saw_none", "release", "tidy"}

EditInit == /\ ExecInit
            /\ files = {}
            /\ request = [j \in Jobs |-> "idle"]
            /\ route = [j \in Jobs |-> "idle"]
            /\ tidying = {}

\* A store transaction by somebody else than the processes.
Rows == Forget /\ UNCHANGED <<run, outerVars, agg>>

Request(j, st) == request' = [request EXCEPT ![j] = st]
Route(j, st) == route' = [route EXCEPT ![j] = st]

-----------------------------------------------------------------------------
(* The request.                                                             *)

\* An upload that cannot be copied cleans up after itself.
Upload(j) == /\ request[j] = "idle"
             /\ files' = files \cup {j}
             /\ Request(j, "staged")
             /\ UNCHANGED <<vars, route, tidying>>

\* Queued: from here on the files belong to the job.
QueueEdit(j) == /\ request[j] = "staged"
                /\ Enqueue(j) /\ Rows
                /\ Request(j, "done")
                /\ UNCHANGED <<files, route, tidying>>

\* Not admitted, or an exception before or in the transaction.
Refuse(j) == /\ request[j] = "staged"
             /\ Request(j, "reject")
             /\ UNCHANGED <<vars, files, route, tidying>>

\* An agent's turn is cancelled while it queues a job: it waits for the job and
\* cancels it (queue_owned), ...
QueueWithdrawn(j) == /\ "withdraw" \in Events
                     /\ request[j] = "staged"
                     /\ Enqueue(j) /\ Rows
                     /\ Request(j, "withdraw")
                     /\ UNCHANGED <<files, route, tidying>>

\* Mutant: a withdrawn job is cancelled, its files are left to the route.
M_RemoveRejected_RefusedOnly(j) ==
    /\ request[j] = "reject"
    /\ files' = files \ {j}
    /\ Request(j, "done")
    /\ UNCHANGED <<vars, route, tidying>>

\* ... and only then removes the files, as a request does that was refused.
RemoveRejected(j) ==
    /\ \/ request[j] = "reject"
       \/ request[j] = "withdraw" /\ job[j] \notin JobActive
    /\ files' = files \ {j}
    /\ Request(j, "done")
    /\ UNCHANGED <<vars, route, tidying>>

\* The request is cancelled while its transaction runs in another thread, which
\* commits before the files are removed...
AbortAfter(j) == /\ "abort" \in Events
                 /\ request[j] = "staged"
                 /\ Enqueue(j) /\ Rows
                 /\ Request(j, "reject")
                 /\ UNCHANGED <<files, route, tidying>>

\* ... or after they were.
AbortBefore(j) == /\ "abort" \in Events
                  /\ request[j] = "staged"
                  /\ files' = files \ {j}
                  /\ Request(j, "late")
                  /\ UNCHANGED <<vars, route, tidying>>

CommitLate(j) == /\ request[j] = "late"
                 /\ (Enqueue(j) /\ Rows) \/ UNCHANGED vars
                 /\ Request(j, "done")
                 /\ UNCHANGED <<files, route, tidying>>

-----------------------------------------------------------------------------
(* Cleaning up.                                                             *)

\* DELETE FROM edit_source_reservations WHERE job_id = ?
DropBytes(j) == /\ reserved' = [reserved EXCEPT ![j] = 0]
                /\ UNCHANGED <<job, unit, remote, run, outerVars, agg>>

\* cleanup_parent_edit_sources: the paths come from the unit rows, so without
\* rows nothing is removed.
TidySources(j) ==
    /\ files' = IF \E u \in UnitsOf(j) : unit[u].st # "none" THEN files \ {j} ELSE files
    /\ DropBytes(j)

\* Mutant: a job of which no unit runs is cleaned up without being cancelled.
M_LookBeforeCancel_TidyFirst(j) ==
    /\ "cancel" \in Events \/ request[j] = "withdraw"
    /\ route[j] = "idle"
    /\ job[j] \in JobActive
    /\ Route(j, IF \E u \in UnitsOf(j) : unit[u].st = "running" THEN "saw_running" ELSE "tidy")
    /\ UNCHANGED <<vars, files, request, tidying>>

\* The cancel route reads the units first, ...
LookBeforeCancel(j) ==
    /\ "cancel" \in Events \/ request[j] = "withdraw"
    /\ route[j] = "idle"
    /\ job[j] \in JobActive
    /\ Route(j, IF \E u \in UnitsOf(j) : unit[u].st = "running" THEN "saw_running" ELSE "saw_none")
    /\ UNCHANGED <<vars, files, request, tidying>>

\* Mutant: the row is written without asking whether it is still active.
M_CancelJob_Unguarded(j) ==
    /\ route[j] \in {"saw_running", "saw_none"}
    /\ job' = [job EXCEPT ![j] = "cancelled"]
    /\ UNCHANGED <<unit, reserved>>
    /\ Rows
    /\ Route(j, IF route[j] = "saw_running" THEN "release" ELSE "tidy")
    /\ UNCHANGED <<files, request, tidying>>

\* ... then cancels (or answers that the job is over), ...
CancelJob(j) ==
    /\ route[j] \in {"saw_running", "saw_none"}
    /\ \/ /\ CancelTx(j) /\ Rows
          /\ Route(j, IF route[j] = "saw_running" THEN "release" ELSE "tidy")
       \/ /\ job[j] \notin JobActive /\ UNCHANGED vars
          /\ Route(j, "idle")
    /\ UNCHANGED <<files, request, tidying>>

\* ... then leaves the files to the run it saw, or removes them.
ReleaseOrTidy(j) ==
    /\ \/ route[j] = "release" /\ DropBytes(j) /\ UNCHANGED files
       \/ route[j] = "tidy" /\ TidySources(j)
    /\ Route(j, "idle")
    /\ UNCHANGED <<request, tidying>>

\* After the final write of an aggregation that found the row of its job, its
\* owner trims and cleans up.
FinalWrites == {Parent(u) : u \in {v \in Units :
                   /\ job[Parent(v)] # "deleted"
                   /\ \E t \in Tokens : /\ run[v][t].pc \in {"final", "announce_final"}
                                        /\ run'[v][t].pc \in {"done", "call"}}}

WorkersStep == /\ Workers
               /\ tidying' = tidying \cup FinalWrites
               /\ UNCHANGED <<files, request, route>>

BesideStep(u, k) ==
    /\ AggregateBeside(u, k)
    /\ tidying' = IF agg[u][k] = "final" /\ job[Parent(u)] # "deleted"
                  THEN tidying \cup {Parent(u)} ELSE tidying
    /\ UNCHANGED <<files, request, route>>

CleanUp(j) == /\ j \in tidying
              /\ TidySources(j)
              /\ tidying' = tidying \ {j}
              /\ UNCHANGED <<request, route>>

\* Clearing, and trimming, which follows every final write.
ForgetJobs == /\ "forget" \in Events
              /\ ClearHistory \/ Trim
              /\ Rows
              /\ UNCHANGED <<files, request, route, tidying>>

\* cleanup_stale_edit_source_files: by age alone, which may be any file's.
SweepStale == /\ "stale" \in Events
              /\ \E S \in SUBSET files : S # {} /\ files' = files \ S
              /\ UNCHANGED <<vars, request, route, tidying>>

-----------------------------------------------------------------------------
RequestStep(j) == QueueEdit(j) \/ Refuse(j) \/ RemoveRejected(j) \/ CommitLate(j)
RouteStep(j) == CancelJob(j) \/ ReleaseOrTidy(j)

EditNext == \/ WorkersStep
            \/ \E u \in Units, k \in {0} \cup Tokens : BesideStep(u, k)
            \/ \E j \in Jobs : \/ Upload(j) \/ RequestStep(j) \/ QueueWithdrawn(j)
                               \/ AbortAfter(j) \/ AbortBefore(j)
                               \/ LookBeforeCancel(j) \/ RouteStep(j) \/ CleanUp(j)
            \/ ForgetJobs
            \/ SweepStale

EditSpec == EditInit /\ [][EditNext]_fileVars

\* Handlers and cleanups that have begun run on, and an agent that withdraws a
\* job goes through with it.  Users and maintenance owe nothing.
EditFairness ==
    /\ Fairness
    /\ \A j \in Jobs : /\ WF_fileVars(RequestStep(j)) /\ WF_fileVars(RouteStep(j))
                       /\ WF_fileVars(CleanUp(j))
                       /\ WF_fileVars(request[j] = "withdraw" /\ LookBeforeCancel(j))

EditFairSpec == EditSpec /\ EditFairness

-----------------------------------------------------------------------------
(* Properties.                                                              *)

\* Every variable holds a value its type allows.
EditTypeOK == /\ ExecTypeOK
              /\ files \subseteq Jobs
              /\ request \in [Jobs -> RequestState]
              /\ route \in [Jobs -> RouteState]
              /\ tidying \subseteq Jobs

\* As long as a unit of a job may be claimed or run, the files it has to send
\* are there: neither a request, nor the cancel route, which decides on an old
\* read, nor an aggregation removes them too early.
SourcesWhileNeeded ==
    \A u \in Units : unit[u].st \in UnitActive => Parent(u) \in files

\* Uploads do not stay on disk: the spec of the image pipeline says they are
\* released on rejection, failure and cancellation.  A job that the user cancels
\* while it runs may keep them, because the run that was to remove them finds
\* its lease gone and leaves the job alone.
SourcesRemoved == \A j \in Jobs : j \in files ~> j \notin files

\* Requests, routes and cleanups use the store as the user of the processes
\* may, so what was shown of the processes holds with them.
ImplementsExecution == ExecSpec
=============================================================================
