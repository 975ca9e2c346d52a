------------------------- MODULE ImageUnitExecution -------------------------
(***************************************************************************)
(* What a worker process does with a unit it has claimed                   *)
(* (backend/app/services/image_unit_execution.py, image_unit_session.py    *)
(* and integrations/upstream/async_provider.py), on top of the store.      *)
(*                                                                         *)
(* A run is the execution of one claim: run[u][t] belongs to the claim of  *)
(* unit u that drew token t.  "pc" names the next await of the coroutine;  *)
(* everything up to the following await is one action.  Several runs of a  *)
(* unit can be alive at once, because nothing stops a process whose lease  *)
(* has passed.  The provider at the other end of the HTTP calls, the       *)
(* gallery table and the user are the environment.                         *)
(*                                                                         *)
(* Three kinds of provider: a direct one answers with the images; a mapped *)
(* one is described by a provider mapping and checkpointed; a mapped one   *)
(* may be polled for its result, and may accept an idempotency key.        *)
(***************************************************************************)
EXTENDS ImageJobStore

CONSTANTS
    Mapped,     \* units whose preset is an async_json provider
    Polled,     \* those whose mapping has a poll section
    Keyed,      \* those whose mapping has an idempotency header
    Reporting,  \* units whose upstream call lasts long enough to report progress
    Faults      \* what can befall a process: "crash", "shutdown", "dberror"

ASSUME ProvidersAssumption == /\ Mapped \subseteq Units
                              /\ Polled \subseteq Mapped
                              /\ Keyed \subseteq Mapped
                              /\ Reporting \subseteq Units
ASSUME FaultsAssumption == Faults \subseteq {"crash", "shutdown", "dberror"}

VARIABLES
    remote,     \* remote_json of a unit: its phase and idempotency key
    run,        \* the execution of each claim
    posted,     \* submits a provider received, by idempotency key
    task,       \* the task a polled provider keeps for the unit
    due,        \* whether the poll deadline of that task has passed
    gallery,    \* units whose images are saved in the gallery
    agg         \* aggregations of the parent of a unit that run beside its runs

outerVars == <<posted, task, due, gallery>>
vars == <<storeVars, remote, run, outerVars, agg>>

-----------------------------------------------------------------------------
(* States of a run.                                                         *)

\* Inside the try block of execute, before the upstream call.
Opening == {"prepare", "replay", "interrupt", "start", "store",
            "announce", "announce_refresh", "announce_final"}

\* Inside the upstream task, which the renewal task runs beside.
Upstream == {"call", "mark", "post", "await", "task", "poll", "giveup", "save"}

\* Inside complete, after the upstream task returned.
Closing == {"saved", "withdraw", "stage", "finish"}

\* Exception handlers, then the finally block.
Handling == {"cancel", "drop", "fail", "failing", "withdrawing", "revoke"}
Leaving == {"cleanup", "refresh", "final"}

Alive == Opening \cup Upstream \cup Closing \cup Handling \cup Leaving
Phases == {"none", "submitting", "submitted", "results_ready"}

NoRemote == [phase |-> "none", key |-> 0]
NoRun == [pc |-> "idle", seen |-> NoRemote, lost |-> FALSE]

Parent(u) == ParentOf[u]
At(u, t, pc) == run[u][t].pc = pc
Live(u, t) == run[u][t].pc \in Alive

\* On to pc; the second one is mark_lease_lost, then on to pc.
GoWith(u, t, pc, lost) ==
    run' = [run EXCEPT ![u][t] = [pc |-> pc, seen |-> run[u][t].seen, lost |-> lost]]
Go(u, t, pc) == GoWith(u, t, pc, run[u][t].lost)
Lose(u, t, pc) == GoWith(u, t, pc, TRUE)

\* flush_progress_updates: the progress writer of the run has nothing left.
Drained(u, t) == agg[u][t] = "idle"

\* A fenced statement that matched no row.
Refused(u, t) == ~Holds(u, t) /\ UNCHANGED storeVars

\* A unit write nobody checks the row count of: it lands or it is fenced off.
TryFail(u, t, st) == Fail(u, t, st) \/ Refused(u, t)

ExecInit == /\ Init
            /\ remote = [u \in Units |-> NoRemote]
            /\ run = [u \in Units |-> [t \in Tokens |-> NoRun]]
            /\ posted = [u \in Units |-> {}]
            /\ task = [u \in Units |-> "none"]
            /\ due = [u \in Units |-> FALSE]
            /\ gallery = {}
            /\ agg = [u \in Units |-> [k \in {0} \cup Tokens |-> "idle"]]

-----------------------------------------------------------------------------
(* Parent aggregation (aggregate_parent_image_job): a read of the parent    *)
(* and its units, then one of two writes.  A run aggregates in line, when   *)
(* it starts and when it leaves.  agg[u][t] is the aggregation by the       *)
(* progress writer of run t, agg[u][0] that by a dispatcher that expired u. *)

\* Where a read sends the caller.
Aggregated(j, refresh, final, end) ==
    IF job[j] = "deleted" \/ \A u \in UnitsOf(j) : unit[u].st = "none" THEN end
    ELSE IF AllTerminal(j) THEN final ELSE refresh

\* The active write, from a possibly old read (store_generate_job_async).
Refresh(j) == \/ UpsertActive(j, "running")
              \/ job[j] \in JobTerminal /\ UNCHANGED storeVars

\* The terminal write (finalize_parent_job_from_units): derived again inside
\* the transaction, skipped if the parent is terminal or gone.
Settle(j) == \/ Finalize(j)
             \/ ~(job[j] \in JobActive /\ AllTerminal(j)) /\ UNCHANGED storeVars

-----------------------------------------------------------------------------
(* Claiming, preparing, recovering.                                         *)

\* The claim returns the row it updated, so the run sees the checkpoint of
\* the moment it took over.
ClaimRun(u) ==
    /\ Claim(u)
    /\ run' = [run EXCEPT ![u][unit[u].attempts + 1] =
                  [pc |-> "prepare", seen |-> remote[u], lost |-> FALSE]]
    /\ UNCHANGED <<remote, outerVars, agg>>

\* How a claim continues from the checkpoint it found.
Recovery(u, t) ==
    LET phase == run[u][t].seen.phase IN
    IF phase = "results_ready" THEN "replay"
    ELSE IF u \in Mapped /\ \/ phase = "submitting" /\ u \notin Keyed
                            \/ phase = "none" /\ t > 1
    THEN "interrupt"
    ELSE "start"

\* prepare, the cancellation check, and the choice recover makes.  A missing
\* preset or a changed origin is an ordinary error.
Prepare(u, t) ==
    /\ At(u, t, "prepare")
    /\ \/ job[Parent(u)] = "cancelled" /\ Go(u, t, "cancel")
       \/ job[Parent(u)] # "cancelled" /\ Go(u, t, Recovery(u, t))
       \/ Go(u, t, "fail")
    /\ UNCHANGED <<storeVars, remote>>

\* complete_unit_from_checkpoint.  A lost claim is not marked as lost here.
Replay(u, t) ==
    /\ At(u, t, "replay")
    /\ Complete(u, t) \/ Refused(u, t)
    /\ Go(u, t, "cleanup")
    /\ UNCHANGED remote

InterruptUnknownSubmit(u, t) ==
    /\ At(u, t, "interrupt")
    /\ TryFail(u, t, "interrupted")
    /\ Go(u, t, "cleanup")
    /\ UNCHANGED remote

\* Mutant: the progress write is not fenced.
M_Start_Unfenced(u, t) ==
    /\ At(u, t, "start")
    /\ unit' = [unit EXCEPT ![u].live = TRUE] /\ UNCHANGED <<job, reserved>>
    /\ Go(u, t, "store")
    /\ UNCHANGED remote

\* start: a fenced progress write, which also renews the lease...
Start(u, t) ==
    /\ At(u, t, "start")
    /\ \/ Renew(u, t) /\ Go(u, t, "store")
       \/ Refused(u, t) /\ Go(u, t, "cleanup")
    /\ UNCHANGED remote

\* ... then the parent is stored as running, then it is aggregated if n > 1.
StoreParent(u, t) ==
    /\ At(u, t, "store")
    /\ Refresh(Parent(u))
    /\ Go(u, t, IF Cardinality(UnitsOf(Parent(u))) > 1 THEN "announce" ELSE "call")
    /\ UNCHANGED remote

\* One aggregation by a run: read, then the write the read asked for.
Aggregate(u, t, read, refresh, final, after) ==
    /\ \/ /\ At(u, t, read)
          /\ Go(u, t, Aggregated(Parent(u), refresh, final, after))
          /\ UNCHANGED storeVars
       \/ At(u, t, refresh) /\ Refresh(Parent(u)) /\ Go(u, t, after)
       \/ At(u, t, final) /\ Settle(Parent(u)) /\ Go(u, t, after)
    /\ UNCHANGED remote

Announce(u, t) ==
    Aggregate(u, t, "announce", "announce_refresh", "announce_final", "call")

-----------------------------------------------------------------------------
(* The upstream call.                                                       *)

\* The key under which a run submits: the checkpointed one when it retries an
\* interrupted submit, else a fresh one.  Without a header for it the number
\* only tells one submit from another.
SubmitKey(u, t) == IF u \in Keyed /\ run[u][t].seen.phase # "none"
                   THEN run[u][t].seen.key ELSE t

\* The upstream task raised: with the lease lost that is never a failure.
Raised(u, t) == Go(u, t, IF run[u][t].lost THEN "cleanup" ELSE "fail")

\* Mutant: a unit taken over is submitted again instead of polled.
M_Call_Resubmits(u, t) ==
    /\ At(u, t, "call")
    /\ Go(u, t, IF u \in Mapped THEN "mark" ELSE "post") \/ Raised(u, t)
    /\ UNCHANGED <<storeVars, remote, outerVars>>

\* run_async_provider and the direct APIs: resume, checkpoint, or just send.
\* A mapping, an origin or a URL that does not hold up raises, and so does an
\* unknown submit without a key, if recover let it come this far.
Call(u, t) ==
    /\ At(u, t, "call")
    /\ LET phase == run[u][t].seen.phase IN
       \/ u \notin Mapped /\ Go(u, t, "post")
       \/ u \in Mapped /\ phase = "submitted" /\ Go(u, t, "poll")
       \/ /\ u \in Mapped /\ phase # "submitted"
          /\ phase = "submitting" => u \in Keyed
          /\ Go(u, t, "mark")
       \/ Raised(u, t)
    /\ UNCHANGED <<storeVars, remote, outerVars>>

\* write_remote_checkpoint: a refused write marks the lease lost and aborts.
Checkpoint(u, t, phase, key, next) ==
    \/ /\ WriteRemote(u, t)
       /\ remote' = [remote EXCEPT ![u] = [phase |-> phase, key |-> key]]
       /\ Go(u, t, next)
    \/ Refused(u, t) /\ Lose(u, t, "cleanup") /\ UNCHANGED remote

MarkSubmitting(u, t) == /\ At(u, t, "mark")
                        /\ Checkpoint(u, t, "submitting", SubmitKey(u, t), "post")
                        /\ UNCHANGED outerVars

\* The request leaves; a provider that knows the key starts nothing new.  Or
\* the request cannot be built.
Post(u, t) ==
    /\ At(u, t, "post")
    /\ \/ /\ posted' = [posted EXCEPT ![u] = @ \cup {SubmitKey(u, t)}]
          /\ task' = [task EXCEPT ![u] = IF u \in Polled /\ @ = "none" THEN "open" ELSE @]
          /\ Go(u, t, "await")
       \/ UNCHANGED <<posted, task>> /\ Raised(u, t)
    /\ UNCHANGED <<storeVars, remote, due, gallery>>

\* The response comes, or no response, or one that cannot be used.
Answered(u, t) ==
    /\ At(u, t, "await")
    /\ Go(u, t, IF u \in Polled THEN "task" ELSE "save") \/ Raised(u, t)
    /\ UNCHANGED <<storeVars, remote, outerVars>>

MarkSubmitted(u, t) == /\ At(u, t, "task")
                       /\ Checkpoint(u, t, "submitted", SubmitKey(u, t), "poll")
                       /\ UNCHANGED outerVars

\* A poll finds the task done, or the deadline passed, or it raises: the task
\* failed, or the provider turned the poll down.  Polls that find the task open,
\* and retryable errors, change nothing.
Poll(u, t) ==
    /\ At(u, t, "poll")
    /\ \/ task[u] = "done" /\ Go(u, t, "save")
       \/ due[u] /\ Go(u, t, "giveup")
       \/ Raised(u, t)
    /\ UNCHANGED <<storeVars, remote, outerVars>>

\* _cancel_remote: best effort, without effect on a task that is over.
CancelRemote(u) ==
    /\ \/ task[u] = "open" /\ task' = [task EXCEPT ![u] = "cancelled"]
       \/ UNCHANGED task
    /\ UNCHANGED <<posted, due, gallery>>

GiveUp(u, t) == /\ At(u, t, "giveup")
                /\ CancelRemote(u)
                /\ Raised(u, t)
                /\ UNCHANGED <<storeVars, remote>>

\* Mutant: a save that failed is taken for a save.
M_Save_Ignored(u, t) ==
    /\ At(u, t, "save")
    /\ gallery' \in {gallery, gallery \cup {u}} /\ Go(u, t, "saved")
    /\ UNCHANGED <<storeVars, remote, posted, task, due>>

\* Images are saved under ids derived from the unit, so saving twice is saving
\* once.  A download or a save may fail.
Save(u, t) ==
    /\ At(u, t, "save")
    /\ \/ gallery' = gallery \cup {u} /\ Go(u, t, "saved")
       \/ UNCHANGED gallery /\ Raised(u, t)
    /\ UNCHANGED <<storeVars, remote, posted, task, due>>

-----------------------------------------------------------------------------
(* The lease while the upstream call runs.                                  *)

\* The renewal task runs beside the call, the progress writer until it is
\* drained.  (A run that failed before its upstream call has nothing to drain;
\* letting it renew only adds behaviour.)
Renewing == Upstream \cup {"saved", "cancel", "failing", "withdrawing"}

\* Extend, or learn of the loss.
RenewLease(u, t) ==
    /\ run[u][t].pc \in Renewing
    /\ \/ Renew(u, t) /\ UNCHANGED run
       \/ Refused(u, t) /\ Lose(u, t, run[u][t].pc)
    /\ UNCHANGED <<remote, outerVars, agg>>

\* A progress write long enough after the last one that it aggregates.  Progress
\* is reported during the upstream call; a write that comes after it is one that
\* was reported before, its aggregation one that takes long (AggregateBeside).
ReportProgress(u, t) ==
    /\ u \in Reporting
    /\ run[u][t].pc \in Upstream /\ ~run[u][t].lost
    /\ Drained(u, t)
    /\ Renew(u, t)
    /\ agg' = [agg EXCEPT ![u][t] = "read"]
    /\ UNCHANGED <<remote, run, outerVars>>

\* Renewals kept failing until the local deadline.
AbandonLease(u, t) ==
    /\ run[u][t].pc \in Upstream
    /\ "dberror" \in Faults
    /\ Lose(u, t, run[u][t].pc)
    /\ UNCHANGED <<storeVars, remote, outerVars, agg>>

\* Mutant: whoever stops polling cancels the task.
M_Unwind_Always(u, t, pc) == IF At(u, t, "poll") THEN "revoke" ELSE pc

\* Cancelling the upstream task while it polls asks the row whether the user
\* wanted that; anywhere else it just unwinds.
Unwind(u, t, pc) ==
    IF At(u, t, "poll") /\ unit[u].st = "cancelled" THEN "revoke" ELSE pc

\* run_upstream sees the lost lease and aborts.
AbortUpstream(u, t) ==
    /\ run[u][t].pc \in Upstream
    /\ run[u][t].lost
    /\ Go(u, t, Unwind(u, t, "cleanup"))
    /\ UNCHANGED <<storeVars, remote, outerVars>>

Revoke(u, t) == /\ At(u, t, "revoke")
                /\ CancelRemote(u)
                /\ Go(u, t, "cleanup")
                /\ UNCHANGED <<storeVars, remote>>

-----------------------------------------------------------------------------
(* Terminal writes.                                                         *)

\* complete: a lost lease ends it, a cancelled parent turns it around.
CheckSaved(u, t) ==
    /\ At(u, t, "saved") /\ Drained(u, t)
    /\ Go(u, t, IF run[u][t].lost THEN "cleanup"
                ELSE IF job[Parent(u)] = "cancelled" THEN "withdraw" ELSE "stage")
    /\ UNCHANGED <<storeVars, remote>>

Withdraw(u, t) == /\ At(u, t, "withdraw")
                  /\ TryFail(u, t, "cancelled")
                  /\ Go(u, t, "cleanup")
                  /\ UNCHANGED remote

\* The staged results replace what the run submitted itself.
StageResults(u, t) ==
    /\ At(u, t, "stage")
    /\ Checkpoint(u, t, "results_ready", run[u][t].seen.key, "finish")

Finish(u, t) == /\ At(u, t, "finish")
                /\ Complete(u, t) \/ Refused(u, t)
                /\ Go(u, t, "cleanup")
                /\ UNCHANGED remote

\* cancel: a mapped unit is left to its next owner, provided that prepare got
\* as far as learning that it is one.
CancelUnit(u, t) ==
    /\ \/ At(u, t, "cancel") /\ u \in Mapped /\ UNCHANGED storeVars
       \/ At(u, t, "cancel") /\ u \notin Mapped /\ TryFail(u, t, "cancelled")
       \/ At(u, t, "drop") /\ TryFail(u, t, "cancelled")
    /\ Drained(u, t)
    /\ Go(u, t, "cleanup")
    /\ UNCHANGED remote

\* fail: reads the parent, drains the progress writer, then writes unless the
\* lease is lost by then.
CheckFailed(u, t) ==
    /\ At(u, t, "fail")
    /\ Go(u, t, IF job[Parent(u)] = "cancelled" THEN "withdrawing" ELSE "failing")
    /\ UNCHANGED <<storeVars, remote>>

WriteFailed(u, t) ==
    /\ At(u, t, "failing") \/ At(u, t, "withdrawing")
    /\ Drained(u, t)
    /\ IF run[u][t].lost THEN UNCHANGED storeVars
       ELSE IF At(u, t, "withdrawing") THEN TryFail(u, t, "cancelled")
       ELSE \E st \in UnitFailed : TryFail(u, t, st)
    /\ Go(u, t, "cleanup")
    /\ UNCHANGED remote

\* cleanup: only an owner, or one that does not know better, aggregates.
Cleanup(u, t) ==
    /\ Drained(u, t)
    /\ \/ /\ At(u, t, "cleanup") /\ run[u][t].lost
          /\ Go(u, t, "done")
          /\ UNCHANGED <<storeVars, remote>>
       \/ /\ ~run[u][t].lost
          /\ Aggregate(u, t, "cleanup", "refresh", "final", "done")

-----------------------------------------------------------------------------
(* Processes that stop, and database calls that fail.                       *)

\* The process dies.
Crash(u, t) == /\ "crash" \in Faults
               /\ Live(u, t)
               /\ Go(u, t, "dead")
               /\ agg' = [agg EXCEPT ![u][t] = "idle"]
               /\ UNCHANGED <<storeVars, remote>>

\* The dispatcher cancels its tasks (run_claim_loop).  async_provider is set
\* halfway through prepare.
Shutdown(u, t) ==
    /\ "shutdown" \in Faults
    /\ Live(u, t)
    /\ \/ At(u, t, "prepare") /\ Go(u, t, "drop")
       \/ Go(u, t, IF run[u][t].pc \in Leaving THEN "dead"
                   ELSE IF run[u][t].pc \in Handling THEN "cleanup"
                   ELSE Unwind(u, t, "cancel"))
    /\ UNCHANGED <<storeVars, remote, agg>>

\* A database call raises after its retries.
DatabaseCalls == (Opening \cup Closing \cup {"mark", "task"}) \ {"call"}
DatabaseError(u, t) ==
    /\ "dberror" \in Faults
    /\ \/ run[u][t].pc \in DatabaseCalls /\ Go(u, t, "fail")
       \/ run[u][t].pc \in Handling \ {"revoke"} /\ Go(u, t, "cleanup")
       \/ run[u][t].pc \in Leaving /\ Go(u, t, "dead")
    /\ UNCHANGED <<storeVars, remote, agg>>

-----------------------------------------------------------------------------
(* The dispatcher's sweep, and the environment.                             *)

\* Mutant: the parents of expired units are not aggregated.
M_ExpireUnits_NoSweep == ExpireExhausted /\ UNCHANGED <<remote, run, outerVars, agg>>

\* expire_exhausted_units_if_needed: expire, then aggregate parent by parent.
ExpireUnits ==
    /\ ExpireExhausted
    /\ agg' = [u \in Units |-> IF u \in Exhausted THEN [agg[u] EXCEPT ![0] = "read"] ELSE agg[u]]
    /\ UNCHANGED <<remote, run, outerVars>>

\* An aggregation beside the runs.  Only the dispatcher's is always stored: that
\* of a progress writer is dropped if the last one is recent.
AggregateBeside(u, k) ==
    /\ \/ /\ agg[u][k] = "read"
          /\ agg' = [agg EXCEPT ![u][k] = Aggregated(Parent(u), "refresh", "final", "idle")]
          /\ UNCHANGED storeVars
       \/ /\ agg[u][k] = "refresh"
          /\ Refresh(Parent(u)) \/ (k # 0 /\ UNCHANGED storeVars)
          /\ agg' = [agg EXCEPT ![u][k] = "idle"]
       \/ /\ agg[u][k] = "final" /\ Settle(Parent(u))
          /\ agg' = [agg EXCEPT ![u][k] = "idle"]
    /\ UNCHANGED <<remote, run, outerVars>>

\* The sweeping process stops, or an exception ends the aggregation.
AggregationLost(u, k) ==
    /\ Faults \cap (IF k = 0 THEN {"crash", "shutdown", "dberror"} ELSE {"shutdown", "dberror"}) # {}
    /\ agg[u][k] # "idle"
    /\ agg' = [agg EXCEPT ![u][k] = "idle"]
    /\ UNCHANGED <<storeVars, remote, run, outerVars>>

\* The polled provider ends its task.
ProviderEnds(u) ==
    /\ task[u] = "open"
    /\ \E end \in {"done", "failed"} : task' = [task EXCEPT ![u] = end]
    /\ UNCHANGED <<storeVars, remote, run, posted, due, gallery, agg>>

\* deadline_at of the checkpoint passes; every owner polls against the same one.
DeadlinePasses(u) ==
    /\ remote[u].phase = "submitted" /\ ~due[u]
    /\ due' = [due EXCEPT ![u] = TRUE]
    /\ UNCHANGED <<storeVars, remote, run, posted, task, gallery, agg>>

\* Deleted rows take their checkpoints with them.
Forget == remote' = [u \in Units |-> IF unit'[u].st = "none" THEN NoRemote ELSE remote[u]]

User == /\ \/ \E j \in Jobs : Enqueue(j) \/ CancelTx(j) \/ ReleaseReservation(j)
           \/ ClearHistory
           \/ Trim
        /\ Forget
        /\ UNCHANGED <<run, outerVars, agg>>

-----------------------------------------------------------------------------
\* One step of the coroutine of a run.
Local(u, t) == \/ Prepare(u, t) \/ Replay(u, t) \/ InterruptUnknownSubmit(u, t)
               \/ Start(u, t) \/ StoreParent(u, t) \/ Announce(u, t)
               \/ CheckSaved(u, t) \/ Withdraw(u, t) \/ StageResults(u, t)
               \/ Finish(u, t) \/ CancelUnit(u, t) \/ CheckFailed(u, t)
               \/ WriteFailed(u, t) \/ Cleanup(u, t)

Remote(u, t) == \/ Call(u, t) \/ MarkSubmitting(u, t) \/ Post(u, t)
                \/ Answered(u, t) \/ MarkSubmitted(u, t) \/ Poll(u, t)
                \/ GiveUp(u, t) \/ Save(u, t) \/ AbortUpstream(u, t) \/ Revoke(u, t)

RunStep(u, t) == /\ \/ Local(u, t) /\ UNCHANGED outerVars
                    \/ Remote(u, t)
                 /\ UNCHANGED agg

Fault(u, t) == /\ Crash(u, t) \/ Shutdown(u, t) \/ DatabaseError(u, t)
               /\ UNCHANGED outerVars

LapseUnit(u) == Lapse(u) /\ UNCHANGED <<remote, run, outerVars, agg>>

\* The processes and their surroundings, aggregations beside the runs apart.
Workers ==
    \/ \E u \in Units, t \in Tokens :
          \/ RunStep(u, t) \/ Fault(u, t)
          \/ RenewLease(u, t) \/ ReportProgress(u, t) \/ AbandonLease(u, t)
    \/ \E u \in Units, k \in {0} \cup Tokens : AggregationLost(u, k)
    \/ \E u \in Units :
          ClaimRun(u) \/ LapseUnit(u) \/ ProviderEnds(u) \/ DeadlinePasses(u)
    \/ ExpireUnits

Beside == \E u \in Units, k \in {0} \cup Tokens : AggregateBeside(u, k)

ExecNext == Workers \/ Beside \/ User

ExecSpec == ExecInit /\ [][ExecNext]_vars

\* Nobody renews the lease of a unit whose run has stopped.
LapseUnowned(u) == ~(\E t \in Tokens : Live(u, t) /\ Holds(u, t)) /\ LapseUnit(u)

\* A step that must come: polls go on until there is something to find.
DueStep(u, t) == RunStep(u, t) /\ (At(u, t, "poll") => due[u] \/ task[u] # "open")

\* The event loop runs every coroutine on, HTTP calls and polls end (in an
\* answer, a timeout or the deadline), and some dispatcher is always there to
\* sweep, and to claim what its precheck finds (has_claimable_image_job_unit).
\* Renewals, faults, users and providers are not fair.
Fairness == /\ \A u \in Units : \A t \in Tokens : WF_vars(DueStep(u, t))
            /\ \A u \in Units : \A k \in {0} \cup Tokens : WF_vars(AggregateBeside(u, k))
            /\ \A u \in Units : WF_vars(LapseUnowned(u)) /\ WF_vars(DeadlinePasses(u))
            /\ WF_vars(HasClaimable /\ \E u \in Units : ClaimRun(u))
            /\ WF_vars(ExpireUnits)

FairSpec == ExecSpec /\ Fairness

-----------------------------------------------------------------------------
(* Properties.                                                              *)

RunState == [pc : Alive \cup {"idle", "done", "dead"},
             seen : [phase : Phases, key : {0} \cup Tokens], lost : BOOLEAN]

\* Every variable holds a value its type allows, and the checkpointed column
\* says exactly whether there is a checkpoint.
ExecTypeOK ==
    /\ TypeOK
    /\ remote \in [Units -> [phase : Phases, key : {0} \cup Tokens]]
    /\ run \in [Units -> [Tokens -> RunState]]
    /\ posted \in [Units -> SUBSET Tokens]
    /\ task \in [Units -> {"none", "open", "done", "failed", "cancelled"}]
    /\ due \in [Units -> BOOLEAN]
    /\ gallery \subseteq Units
    /\ agg \in [Units -> [{0} \cup Tokens -> {"idle", "read", "refresh", "final"}]]
    /\ \A u \in Units : unit[u].ckpt <=> remote[u].phase # "none"

\* A mapped provider never gets two submits it could bill twice, whatever
\* leases lapse and processes stop (README "Recovery"; recover, _submit_task).
NoDoubleSubmit == \A u \in Mapped : Cardinality(posted[u]) =< 1

\* Losing a lease, a shutdown or a failure never cancels a task that another
\* owner may be waiting for: before its poll deadline, a task is cancelled only
\* when its unit is over (should_cancel_remote).
CancelOnlyForUserOrDeadline ==
    [][\A u \in Units : task[u] = "open" /\ task'[u] = "cancelled"
          => due[u] \/ unit[u].st \notin UnitActive]_vars

\* A unit succeeds only after its images are in the gallery, whichever of its
\* owners saved them (complete, complete_unit_from_checkpoint).
SuccessHasImages == \A u \in Units : unit[u].st = "success" => u \in gallery

\* When all units of a parent have ended and the parent has not, somebody is
\* still on the way to aggregate it.
AggregationOwed ==
    \A j \in Jobs : job[j] \in JobActive /\ AllTerminal(j)
        => \E u \in UnitsOf(j) :
              \/ \E k \in {0} \cup Tokens : agg[u][k] \in {"read", "final"}
              \/ \E t \in Tokens : Live(u, t) /\ ~run[u][t].lost /\ ~At(u, t, "refresh")

\* A unit in the queue or running does not stay there: it is answered, or
\* ended as exhausted, or cancelled, however often its owners die.
UnitsEnd == \A u \in Units : unit[u].st \in UnitActive ~> unit[u].st \notin UnitActive

\* Every step of the workers, their faults included, is a step of the store's
\* most general client, so what holds of every client holds of the workers.
ImplementsStore == Spec

\* What the docstring of finalize_parent_job_from_units says: when nobody works
\* on a job any more, its status is the one its units give (or the user's
\* cancellation).  A crash between two writes leaves it running.
StatusFollowsUnits ==
    \A j \in Jobs :
        /\ job[j] \in JobActive \cup JobTerminal /\ AllTerminal(j)
        /\ \A u \in UnitsOf(j) : /\ \A t \in Tokens : ~Live(u, t)
                                 /\ \A k \in {0} \cup Tokens : agg[u][k] = "idle"
        => job[j] \in {Verdict(j), "cancelled"}

=============================================================================
