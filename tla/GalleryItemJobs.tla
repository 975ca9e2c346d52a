--------------------------- MODULE GalleryItemJobs ---------------------------
(***************************************************************************)
(* Gallery jobs that work through a list of images and store the result of *)
(* each (services/nodeimage_upload_jobs.py, services/assistant_batch.py):  *)
(* uploads to NodeImage, and AI analysis.                                  *)
(*                                                                         *)
(* Every write of a runner carries its worker_id and finds no row once the *)
(* lease has lapsed or moved; whoever claims the job next goes on behind   *)
(* the results that are stored.  A run is named by the job and the number  *)
(* of the claim that started it.                                           *)
(***************************************************************************)
EXTENDS GalleryJobRows

CONSTANTS
    Images,     \* the images each job is to send or analyze
    Width       \* NODEIMAGE_UPLOAD_CONCURRENCY

ASSUME ItemsAssumption == /\ Mixes \subseteq [Jobs -> {"nodeimage", "analyze"}]
                          /\ Limit["nodeimage"] = 1 /\ Limit["analyze"] = 1
                          /\ Width \in Nat \ {0}
                          /\ \A j \in Jobs : IsFiniteSet(Images[j]) /\ Images[j] # {}

VARIABLES
    stored,     \* the result of each image in the row
    run         \* what each run does and knows

itemVars == <<row, claims, stored, run>>

Claim(j) == 1 .. MaxClaims[j]
Known == {"ok", "error", "cancelled"}      \* results
Flight == {"sending", "refused", "skipped"} \* results still to be stored
RunPc == {"begin", "probe", "try", "gate", "batch", "final", "publish", "failing"}

Untold(j) == [i \in Images[j] |-> "none"]
Idle(j) == [pc |-> "idle", w |-> Nobody, item |-> Untold(j)]

ItemsInit ==
    /\ RowsInit
    /\ stored = [j \in Jobs |-> Untold(j)]
    /\ run = [j \in Jobs |-> [t \in Claim(j) |-> Idle(j)]]

Active(j, t) == run[j][t].pc \in RunPc
At(j, t, pc) == run[j][t].pc = pc
Item(j, t, i) == run[j][t].item[i]

Todo(j, t) == {i \in Images[j] : Item(j, t, i) = "none"}
InFlight(j, t) == {i \in Images[j] : Item(j, t, i) \in Flight}

\* The results a run has to tell: not those of requests under way.
Results(items) == [i \in DOMAIN items |-> IF items[i] \in Known THEN items[i] ELSE "none"]

\* Where the batch goes on: it is over when every image has its result.
Onward(kind, items) == IF \E i \in DOMAIN items : items[i] \notin Known THEN "batch"
                     ELSE IF kind = "nodeimage" THEN "final" ELSE "publish"

\* _nodeimage_job_cancel_requested.
CancelSeen(j) == KindOf(j) = "nodeimage" /\ row[j].cancel

Quit(j, t) == run' = [run EXCEPT ![j][t] = Idle(j)]
Go(j, t, pc) == run' = [run EXCEPT ![j][t].pc = pc]
Move(j, t, pc, items) == run' = [run EXCEPT ![j][t].pc = pc, ![j][t].item = items]

-----------------------------------------------------------------------------
(* The transactions of a runner.                                            *)

\* Mutant: the payload is written as the runner knows it.
M_Fenced_OldPayload(j, t, items) ==
    /\ Owns(j, run[j][t].w)
    /\ row' = [row EXCEPT ![j].cancel = FALSE]
    /\ stored' = [stored EXCEPT ![j] = Results(items)]

\* update_gallery_job with lease_owner: the payload is replaced, but a
\* cancellation it did not know of is kept.
Fenced(j, t, items) ==
    /\ Owns(j, run[j][t].w)
    /\ UNCHANGED row
    /\ stored' = [stored EXCEPT ![j] = Results(items)]

\* The fence found no row: the run stops without another write.
Fence(j, t) == /\ ~Owns(j, run[j][t].w)
               /\ Quit(j, t)
               /\ UNCHANGED <<row, stored>>

Store(j, t, pc, items) == \/ Fenced(j, t, items) /\ Move(j, t, pc, items)
                          \/ Fence(j, t)

-----------------------------------------------------------------------------
(* Claiming and sending.                                                    *)

\* Mutant: as many as are claimable.
M_Free_Always(w, kind) == TRUE

\* A dispatcher runs one job of a kind at a time, so that it never has two runs
\* that go by its name (run_claim_loop, active_tasks).
Free(w, kind) == \A k \in Jobs : \A s \in Claim(k) :
                    KindOf(k) = kind => ~(Active(k, s) /\ run[k][s].w = w)

Start(j, w) ==
    /\ Free(w, KindOf(j))
    /\ ClaimRow(j, w)
    /\ run' = [run EXCEPT ![j][claims[j] + 1] = [pc |-> "begin", w |-> w, item |-> stored[j]]]
    /\ UNCHANGED stored

\* The first write.  An upload has read the entries by then: an image whose
\* entry is gone is an error from the start.
Begin(j, t) ==
    /\ At(j, t, "begin")
    /\ IF KindOf(j) = "nodeimage"
       THEN \E gone \in SUBSET Todo(j, t) :
               Store(j, t, "probe", [i \in Images[j] |-> IF i \in gone THEN "error" ELSE Item(j, t, i)])
       ELSE Store(j, t, Onward(KindOf(j), run[j][t].item), run[j][t].item)
    /\ UNCHANGED claims

\* One image is tried before the others, to find a rejected key early.
Probe(j, t) ==
    /\ At(j, t, "probe")
    /\ Go(j, t, IF Todo(j, t) = {} \/ CancelSeen(j) THEN "gate" ELSE "try")
    /\ UNCHANGED <<row, claims, stored>>

\* A file that cannot be read is no try.
Unreadable(j, t, i) ==
    /\ At(j, t, "try") /\ InFlight(j, t) = {} /\ i \in Todo(j, t)
    /\ Store(j, t, "probe", [run[j][t].item EXCEPT ![i] = "error"])
    /\ UNCHANGED claims

\* The others start together, unless the job was cancelled by now.
Gate(j, t) ==
    /\ At(j, t, "gate")
    /\ Go(j, t, IF Todo(j, t) = {} \/ CancelSeen(j) THEN "final" ELSE "batch")
    /\ UNCHANGED <<row, claims, stored>>

\* An image gets its turn: a request is sent, or, if the job was cancelled or
\* the key rejected meanwhile, it has its result without one.
Take(j, t, i) ==
    /\ run[j][t].pc \in {"try", "batch"} /\ i \in Todo(j, t)
    /\ Cardinality(InFlight(j, t)) <
          IF At(j, t, "batch") /\ KindOf(j) = "nodeimage" THEN Width ELSE 1
    /\ \E what \in IF CancelSeen(j) THEN {"skipped"} ELSE {"sending", "refused"} :
          /\ what = "refused" => At(j, t, "batch")
          /\ Move(j, t, run[j][t].pc, [run[j][t].item EXCEPT ![i] = what])
    /\ UNCHANGED <<row, stored, claims>>

\* What comes of each try.
Outcomes == [sending |-> {"ok", "error"}, refused |-> {"error"}, skipped |-> {"cancelled"}]

\* The result of one image is known, and everything known is stored.
Keep(j, t, i) ==
    /\ i \in InFlight(j, t) /\ run[j][t].pc \in {"try", "batch"}
    /\ \E result \in Outcomes[Item(j, t, i)] :
          LET items == [run[j][t].item EXCEPT ![i] = result]
          IN  Store(j, t, IF At(j, t, "try") THEN "gate" ELSE Onward(KindOf(j), items), items)
    /\ UNCHANGED claims

-----------------------------------------------------------------------------
(* The end of a run.                                                        *)

\* Mutant: images nobody sent have no result.
M_Final_LeavesTodo(j, t) == /\ At(j, t, "final")
                            /\ Go(j, t, "publish")
                            /\ UNCHANGED <<row, claims, stored>>

\* The flag is read a last time; what a cancellation left undone is cancelled.
Final(j, t) ==
    /\ At(j, t, "final")
    /\ Move(j, t, "publish",
            [i \in Images[j] |-> IF CancelSeen(j) /\ Item(j, t, i) = "none"
                              THEN "cancelled" ELSE Item(j, t, i)])
    /\ UNCHANGED <<row, claims, stored>>

\* The status an ended job gets from its results.
Verdict(kind, items) ==
    IF \E i \in DOMAIN items : items[i] = "cancelled" THEN "cancelled"
    ELSE IF \A i \in DOMAIN items : items[i] # "error" THEN "success"
    ELSE IF kind = "nodeimage" THEN "partial" ELSE "error"

MayEnd(j, t) == Owns(j, run[j][t].w)

\* The last write, under the same fence.
PublishEnd(j, t) ==
    /\ At(j, t, "publish")
    /\ \/ /\ MayEnd(j, t) /\ End(j, Verdict(KindOf(j), run[j][t].item))
          /\ stored' = [stored EXCEPT ![j] = Results(run[j][t].item)]
          /\ Quit(j, t)
       \/ ~MayEnd(j, t) /\ Fence(j, t)
    /\ UNCHANGED claims

\* A run that raised gives up the images whose entries it finds.
GiveUp(j, t) ==
    /\ At(j, t, "failing")
    /\ \/ /\ Owns(j, run[j][t].w) /\ End(j, "error")
          /\ \E found \in SUBSET Images[j] :
                stored' = [stored EXCEPT ![j] = [i \in Images[j] |->
                    IF Item(j, t, i) \in Known THEN Item(j, t, i)
                    ELSE IF i \in found THEN "error" ELSE "none"]]
          /\ Quit(j, t)
       \/ Fence(j, t)
    /\ UNCHANGED claims

\* A database error.  The runner of analyses has no handler, nor has the handler
\* itself: the task ends, and the row waits for its lease to lapse.
Raise(j, t) ==
    /\ Active(j, t)
    /\ \/ /\ KindOf(j) = "nodeimage" /\ ~At(j, t, "failing")
          /\ Go(j, t, "failing")
       \/ /\ KindOf(j) = "analyze" \/ At(j, t, "failing")
          /\ claims[j] < MaxClaims[j]
          /\ Quit(j, t)
    /\ UNCHANGED <<row, claims, stored>>

\* The process goes down, at once or by cancelling its tasks: nothing is
\* written either way.
Stop(w) ==
    /\ \E j \in Jobs : \E t \in Claim(j) : Active(j, t) /\ run[j][t].w = w
    /\ \A j \in Jobs : \A t \in Claim(j) : Active(j, t) /\ run[j][t].w = w => claims[j] < MaxClaims[j]
    /\ run' = [j \in Jobs |-> [t \in Claim(j) |->
                  IF Active(j, t) /\ run[j][t].w = w THEN Idle(j) ELSE run[j][t]]]
    /\ UNCHANGED <<row, claims, stored>>

-----------------------------------------------------------------------------
(* What others do to a row.                                                 *)

Submit(j) == Admit(j, "queued") /\ UNCHANGED <<stored, run>>

Abandoned(j) == ~ \E t \in Claim(j) : Active(j, t) /\ Owns(j, run[j][t].w)
Expire(j) == Lapse(j, Abandoned(j)) /\ UNCHANGED <<stored, run>>

Cancel(j) == /\ KindOf(j) = "nodeimage"
             /\ RequestCancel(j)
             /\ stored' = IF row[j].st = "running" THEN stored
                          ELSE [stored EXCEPT ![j] = [i \in Images[j] |->
                                   IF @[i] = "none" THEN "cancelled" ELSE @[i]]]
             /\ UNCHANGED run

\* Half an hour after the job ended: no run of it is left.
Forget(j) == /\ \A t \in Claim(j) : ~Active(j, t)
             /\ Collect(j)
             /\ UNCHANGED <<stored, run>>

RunStep(j, t) == \/ Begin(j, t) \/ Probe(j, t) \/ Gate(j, t)
                 \/ \E i \in Images[j] : Unreadable(j, t, i) \/ Take(j, t, i) \/ Keep(j, t, i)
                 \/ Final(j, t) \/ PublishEnd(j, t) \/ GiveUp(j, t)

ItemsNext == \/ \E j \in Jobs : \/ Submit(j) \/ Expire(j) \/ Cancel(j) \/ Forget(j)
                                \/ \E w \in Workers : Start(j, w)
                                \/ \E t \in Claim(j) : RunStep(j, t) \/ Raise(j, t)
             \/ \E w \in Workers : Stop(w)

ItemsSpec == ItemsInit /\ [][ItemsNext]_itemVars

\* The event loop runs the runs on, requests end, some dispatcher keeps
\* claiming, and time passes for a row that nobody renews.  A run is finite, so
\* that fairness of all runs together is enough.
ItemsFairness ==
    /\ WF_itemVars(\E j \in Jobs : \E t \in Claim(j) : RunStep(j, t))
    /\ WF_itemVars(\E j \in Jobs : Abandoned(j) /\ Expire(j))
    /\ WF_itemVars(\E j \in Jobs, w \in Workers : Start(j, w))

ItemsFairSpec == ItemsSpec /\ ItemsFairness

-----------------------------------------------------------------------------
(* Properties.                                                              *)

RunRecord(j) == [pc : RunPc \cup {"idle"}, w : Workers \cup {Nobody},
                 item : [Images[j] -> Known \cup Flight \cup {"none"}]]

\* Every variable holds a value its type allows.
ItemsTypeOK == /\ RowsTypeOK
               /\ DOMAIN stored = Jobs /\ DOMAIN run = Jobs
               /\ \A j \in Jobs : /\ stored[j] \in [Images[j] -> Known \cup {"none"}]
                                 /\ run[j] \in [Claim(j) -> RunRecord(j)]

\* A result that was stored stays: a run that has lost its lease, or that began
\* before another stored more, does not take it back.
ResultsKept ==
    [][\A j \in Jobs : \A i \in Images[j] :
          stored[j][i] # "none" => stored'[j][i] = stored[j][i]]_itemVars

\* A job that has ended tells the result of every image, and its status follows
\* from them, whatever was cancelled, lost or taken over on the way.  Only an
\* upload that was given up may have said less.
EveryImageAnswered ==
    \A j \in Jobs : row[j].st \in Ended /\ ~(KindOf(j) = "nodeimage" /\ row[j].st = "error")
        => /\ \A i \in Images[j] : stored[j][i] # "none"
           /\ row[j].st = Verdict(KindOf(j), stored[j])

\* A job that was admitted ends, although its runs may stop at any point.
ItemJobsEnd == \A j \in Jobs :
    row[j].st \in {"queued", "running"} ~> row[j].st \notin {"queued", "running"}
=============================================================================
