----------------------------- MODULE AgentImages -----------------------------
(***************************************************************************)
(* The images of Agent turns (services/agent_tool_executor.py,             *)
(* repositories/agent/messages.py), beside the turns.                      *)
(*                                                                         *)
(* The run of a turn stores a pending image, queues an image job for it,   *)
(* stores the link between them, and waits for the job.  A run that does   *)
(* not complete cancels its jobs; what it leaves pending is reconciled     *)
(* from the jobs by whoever reads the conversation next.                   *)
(***************************************************************************)
EXTENDS AgentTurns

CONSTANT Pictures   \* turns whose model asks for an image; bound: one each

ASSUME PicturesAssumption == Pictures \subseteq Turns

VARIABLES
    image,      \* the row of the image, its link, and the job
    shot,       \* where the task of the image is
    reconciling \* the status a reader is about to store

imageVars == <<turnVars, image, shot, reconciling>>

JobEnd == {"success", "failed", "cancelled"}
RowOf == [success |-> "succeeded", failed |-> "failed", cancelled |-> "cancelled"]

ImagesInit == /\ TurnsInit
              /\ image = [t \in Turns |-> [row |-> "none", job |-> "none", link |-> FALSE]]
              /\ shot = [t \in Turns |-> "idle"]
              /\ reconciling = [t \in Turns |-> "none"]

Shot(t, pc) == shot' = [shot EXCEPT ![t] = pc]
Row(t, st) == image' = [image EXCEPT ![t].row = st]
CancelJob(t) == image' = [image EXCEPT ![t].job = IF @ = "active" THEN "cancelled" ELSE @]

-----------------------------------------------------------------------------
(* An image task, while the model loop waits for it.                        *)

\* A write in the name of the owner; otherwise the run has lost its turn.
Owned(t, pc, write) ==
    \/ Owns(t) /\ write /\ Shot(t, pc) /\ UNCHANGED turnVars
    \/ /\ ~Owns(t)
       /\ Run(t, Interrupted(run[t]))
       /\ UNCHANGED <<conv, row, log, saved, sweeping, reader, image, shot>>

At(t, pc) == Waiting(t) /\ shot[t] = pc /\ UNCHANGED reconciling

Ask(t) == /\ t \in Pictures /\ image[t].row = "none" /\ At(t, "idle")
          /\ Owned(t, "queue", Row(t, "pending"))

\* Refused jobs fail the image.
Queue(t) == /\ At(t, "queue")
            /\ \/ /\ image' = [image EXCEPT ![t].job = "active"]
                  /\ Shot(t, "link") /\ UNCHANGED turnVars
               \/ Owned(t, "idle", Row(t, "failed"))

Link(t) == /\ At(t, "link")
           /\ Owned(t, "poll", image' = [image EXCEPT ![t].link = TRUE])

Settle(t) == /\ At(t, "poll") /\ image[t].job \in JobEnd
             /\ Owned(t, "idle", Row(t, RowOf[image[t].job]))

\* It has waited long enough: the image stays pending.
WaitEnds(t) == /\ At(t, "poll")
               /\ Shot(t, "idle") /\ UNCHANGED <<turnVars, image>>

-----------------------------------------------------------------------------
(* A run that stops before the image is there.                              *)

\* queue_owned: a call that queues cannot be stopped, so its job is awaited and
\* cancelled.
QueueLate(t) ==
    /\ shot[t] = "queue" /\ run[t].pc \in {"stop", "withdraw"}
    /\ \/ image' = [image EXCEPT ![t].job = "active"] /\ Shot(t, "undo")
       \/ Shot(t, "idle") /\ UNCHANGED image
    /\ UNCHANGED <<turnVars, reconciling>>

UndoQueue(t) == /\ shot[t] = "undo"
                /\ CancelJob(t) /\ Shot(t, "idle")
                /\ UNCHANGED <<turnVars, reconciling>>

Keeps(t) == \/ t \notin Pictures
            \/ run[t].pc = "withdraw" /\ run[t].verdict = "completed" /\ ~run[t].lost

\* Mutant: the job the row names.
M_HasJob_Linked(t) == image[t].link

\* Jobs the run has queued, and the one the row names.
HasJob(t) == image[t].job # "none"

\* cancel_pending_images first cancels the jobs, ...
WithdrawJob(t) ==
    /\ run[t].pc \in {"withdraw", "drop"} /\ ~Keeps(t)
    /\ shot[t] \in {"idle", "link", "poll"}
    /\ IF HasJob(t) THEN CancelJob(t) ELSE UNCHANGED image
    /\ Shot(t, "list")
    /\ UNCHANGED <<turnVars, reconciling>>

\* ... then reads which images are pending, ...
ListPending(t) ==
    /\ shot[t] = "list"
    /\ Shot(t, IF image[t].row = "pending" THEN "settle" ELSE "withdrawn")
    /\ UNCHANGED <<turnVars, image, reconciling>>

\* ... and stores that they are cancelled, in nobody's name.
SettleCancelled(t) ==
    /\ shot[t] = "settle"
    /\ IF row[t].st = "deleted" THEN UNCHANGED image ELSE Row(t, "cancelled")
    /\ Shot(t, "withdrawn")
    /\ UNCHANGED <<turnVars, reconciling>>

WithdrawImages(t) == /\ Keeps(t) \/ shot[t] = "withdrawn"
                     /\ Withdraw(t)
                     /\ Shot(t, "idle")
                     /\ UNCHANGED <<image, reconciling>>

\* A process that dies while it queues may have queued.
KillImages(t) ==
    /\ Kill(t)
    /\ Shot(t, "idle")
    /\ image' \in IF shot[t] = "queue" THEN {image, [image EXCEPT ![t].job = "active"]} ELSE {image}
    /\ UNCHANGED reconciling

-----------------------------------------------------------------------------
(* Others: the job, and readers of the conversation.                        *)

JobEnds(t) == /\ image[t].job = "active"
              /\ \E st \in JobEnd : image' = [image EXCEPT ![t].job = st]
              /\ UNCHANGED <<turnVars, shot, reconciling>>

\* Mutant: a job that still runs has failed.
M_Finding_Active(t) == IF image[t].link /\ image[t].job \in JobEnd THEN RowOf[image[t].job] ELSE "failed"

\* Mutant: an image without a link waits for one.
M_Finding_Patient(t) == IF image[t].link /\ image[t].job \in JobEnd THEN RowOf[image[t].job] ELSE "none"

\* What the job says of a pending image of a turn that has ended.
Finding(t) == IF ~image[t].link THEN "failed"
              ELSE IF image[t].job \in JobEnd THEN RowOf[image[t].job] ELSE "none"

ReconcileRead(t) == /\ row[t].st \in Ended /\ image[t].row = "pending" /\ reconciling[t] = "none"
                    /\ Finding(t) # "none"
                    /\ reconciling' = [reconciling EXCEPT ![t] = Finding(t)]
                    /\ UNCHANGED <<turnVars, image, shot>>

ReconcileWrite(t) == /\ reconciling[t] # "none"
                     /\ IF row[t].st = "deleted" THEN UNCHANGED image ELSE Row(t, reconciling[t])
                     /\ reconciling' = [reconciling EXCEPT ![t] = "none"]
                     /\ UNCHANGED <<turnVars, shot>>

\* The jobs of a deleted conversation go on.
DeleteImages == /\ Delete
                /\ image' = [t \in Turns |-> [image[t] EXCEPT !.row = "none", !.link = FALSE]]
                /\ UNCHANGED <<shot, reconciling>>

-----------------------------------------------------------------------------
TaskStep(t) == \/ Queue(t) \/ Link(t) \/ Settle(t) \/ WaitEnds(t)
               \/ QueueLate(t) \/ UndoQueue(t)
               \/ WithdrawJob(t) \/ ListPending(t) \/ SettleCancelled(t) \/ WithdrawImages(t)
               \/ Leave(t) /\ shot[t] = "idle" /\ UNCHANGED <<image, shot, reconciling>>
ReaderStep(t) == ReconcileRead(t) \/ ReconcileWrite(t)
Beside(step) == step /\ UNCHANGED <<image, shot, reconciling>>

ImagesNext == \/ Beside(TurnsStep)
              \/ \E t \in Turns : \/ Ask(t) \/ TaskStep(t) \/ KillImages(t) \/ JobEnds(t)
                                  \/ ReaderStep(t)
              \/ DeleteImages

ImagesSpec == ImagesInit /\ [][ImagesNext]_imageVars

\* Runs go on: a model call has its timeout, and a lock its queue, so that a
\* flusher whose writes fail for ever does not keep its run out.
MainStep == \E t \in Turns : Beside(RunStep(t)) \/ TaskStep(t)

\* Threads answer, jobs end, time passes for a lease nobody renews, an open
\* stream sweeps now and then, and the conversation is read again.
OtherStep == \E t \in Turns : \/ Beside(Write(t, "flusher") \/ SweepEnd(t) \/ (Lapse(t) /\ ~Tended(t)))
                             \/ Beside(reader[t].pc \in {"list", "check"} /\ SweepRead)
                             \/ JobEnds(t) \/ ReaderStep(t)

ImagesFairness == /\ SF_imageVars(MainStep) /\ WF_imageVars(OtherStep)
                  /\ WF_imageVars(\E t \in Turns : Beside(StreamStep(t)))

ImagesFairSpec == ImagesSpec /\ ImagesFairness

-----------------------------------------------------------------------------
(* Properties.                                                              *)

\* Every variable holds a value its type allows.
ImagesTypeOK ==
    /\ TurnsTypeOK
    /\ image \in [Turns -> [row : {"none", "pending", "succeeded", "failed", "cancelled"},
                            job : {"none", "active"} \cup JobEnd, link : BOOLEAN]]
    /\ shot \in [Turns -> {"idle", "queue", "link", "poll", "undo", "list", "settle", "withdrawn"}]
    /\ reconciling \in [Turns -> {"none", "succeeded", "failed", "cancelled"}]

\* A run that ends its turn without completing it leaves no image job at work,
\* at whatever point between queueing it and waiting for it it was stopped.
NoJobLeftBehind ==
    [][\A t \in Turns : run[t].pc = "finish" /\ run[t].verdict # "completed"
          /\ row[t].st = "running" /\ row'[t].st = run[t].verdict
          => image[t].job # "active"]_imageVars

\* An image that has its job tells what became of the job, whoever settled it.
\* Only a cancellation may be told of a job that was faster.
ImagesTrue ==
    \A t \in Turns : image[t].link =>
        /\ image[t].row = "succeeded" => image[t].job = "success"
        /\ image[t].row = "failed" => image[t].job = "failed"
        /\ image[t].row = "cancelled" => image[t].job # "active"

\* No image of a turn that has ended stays pending.
ImagesSettle == \A t \in Pictures :
    (row[t].st \in Ended /\ image[t].row = "pending") ~> image[t].row # "pending"

\* A stream comes to an end, though the run it follows may stop or die at any
\* point, and at the latest because the stream itself sweeps.
StreamsEnd == \A t \in Watched :
    reader[t].pc = "list" ~> reader[t].pc = "closed"
=============================================================================
