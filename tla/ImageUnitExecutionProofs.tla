---------------------- MODULE ImageUnitExecutionProofs ----------------------
(***************************************************************************)
(* The workers implement the store, so every theorem about the store holds *)
(* of them; and what makes a takeover safe, for every number of jobs,      *)
(* units and claims and every mix of providers and faults.  In the last    *)
(* part, the requests, routes and cleanups of edit jobs are users the      *)
(* processes were specified for, and files stay while units need them.     *)
(***************************************************************************)
EXTENDS EditSources, ImageJobStoreProofs

-----------------------------------------------------------------------------
(* The workers implement the store.                                         *)

\* The transactions the processes use among themselves.
WorkNext == \/ \E j \in Jobs : UpsertActive(j, "running") \/ Finalize(j)
            \/ \E u \in Units : Lapse(u) \/ Claim(u)
            \/ \E u \in Units, t \in Tokens : FencedWrite(u, t)
            \/ ExpireExhausted

\* A parent aggregation writes the store in one of the store's own ways.
LEMMA AggregationWrites ==
    ASSUME NEW j \in Jobs, Refresh(j) \/ Settle(j)
    PROVE  [WorkNext]_storeVars
BY DEF Refresh, Settle, WorkNext

\* So does an unchecked terminal write.
LEMMA TerminalWrites ==
    ASSUME NEW u \in Units, NEW t \in Tokens, NEW st \in UnitTerminal \ {"success"},
           TryFail(u, t, st)
    PROVE  [WorkNext]_storeVars
BY DEF TryFail, Refused, WorkNext, FencedWrite

\* Every step of a coroutine is a store transaction or does not touch it.
LEMMA LocalImplements ==
    ASSUME NEW u \in Units, NEW t \in Tokens, Local(u, t) PROVE [WorkNext]_storeVars
<1>p. Parent(u) \in Jobs
  BY ParentAssumption DEF Parent
<1>1. CASE Prepare(u, t) \/ CheckSaved(u, t) \/ CheckFailed(u, t)
  BY <1>1 DEF Prepare, CheckSaved, CheckFailed
<1>2. CASE Replay(u, t) \/ Finish(u, t)
  BY <1>2 DEF Replay, Finish, Refused, WorkNext, FencedWrite
<1>3. CASE InterruptUnknownSubmit(u, t) \/ Withdraw(u, t)
  BY <1>3, TerminalWrites DEF InterruptUnknownSubmit, Withdraw, UnitTerminal
<1>4. CASE CancelUnit(u, t)
  BY <1>4, TerminalWrites DEF CancelUnit, UnitTerminal
<1>5. CASE WriteFailed(u, t)
  BY <1>5, TerminalWrites DEF WriteFailed, UnitTerminal, UnitFailed
<1>6. CASE Start(u, t)
  BY <1>6 DEF Start, Refused, WorkNext, FencedWrite
<1>7. CASE StageResults(u, t)
  BY <1>7 DEF StageResults, Checkpoint, Refused, WorkNext, FencedWrite
<1>8. CASE StoreParent(u, t)
  BY <1>8, <1>p, AggregationWrites DEF StoreParent
<1>9. CASE Announce(u, t) \/ Cleanup(u, t)
  BY <1>9, <1>p, AggregationWrites DEF Announce, Cleanup, Aggregate
<1> QED
  BY <1>1, <1>2, <1>3, <1>4, <1>5, <1>6, <1>7, <1>8, <1>9 DEF Local

LEMMA RemoteImplements ==
    ASSUME NEW u \in Units, NEW t \in Tokens, Remote(u, t) PROVE [WorkNext]_storeVars
<1>1. CASE MarkSubmitting(u, t) \/ MarkSubmitted(u, t)
  BY <1>1 DEF MarkSubmitting, MarkSubmitted, Checkpoint, Refused, WorkNext, FencedWrite
<1>2. CASE ~(MarkSubmitting(u, t) \/ MarkSubmitted(u, t))
  BY <1>2 DEF Remote, Call, Post, Answered, Poll, GiveUp, Save, AbortUpstream, Revoke
<1> QED
  BY <1>1, <1>2

\* Every step of the processes is one of them, or leaves the store alone.
LEMMA WorkersImplement ==
    ASSUME Workers \/ Beside PROVE [WorkNext]_storeVars
<1>1. ASSUME NEW u \in Units, NEW t \in Tokens, RunStep(u, t) PROVE [WorkNext]_storeVars
  BY <1>1, LocalImplements, RemoteImplements DEF RunStep
<1>2. ASSUME NEW u \in Units, NEW t \in Tokens,
             RenewLease(u, t) \/ ReportProgress(u, t) \/ AbandonLease(u, t)
      PROVE  [WorkNext]_storeVars
  BY <1>2 DEF RenewLease, ReportProgress, AbandonLease, Refused, WorkNext, FencedWrite
<1>3. ASSUME NEW u \in Units, NEW t \in Tokens, Fault(u, t) PROVE [WorkNext]_storeVars
  BY <1>3 DEF Fault, Crash, Shutdown, DatabaseError
<1>4. ASSUME NEW u \in Units, ClaimRun(u) \/ LapseUnit(u) PROVE [WorkNext]_storeVars
  BY <1>4 DEF ClaimRun, LapseUnit, WorkNext
<1>5. ASSUME NEW u \in Units, NEW k \in {0} \cup Tokens, AggregateBeside(u, k)
      PROVE  [WorkNext]_storeVars
  BY <1>5, AggregationWrites, ParentAssumption DEF AggregateBeside, Parent
<1>6. ASSUME NEW u \in Units, NEW k \in {0} \cup Tokens,
             AggregationLost(u, k)
      PROVE  [WorkNext]_storeVars
  BY <1>6 DEF AggregationLost
<1>7. ASSUME NEW u \in Units, ProviderEnds(u) \/ DeadlinePasses(u) PROVE [WorkNext]_storeVars
  BY <1>7 DEF ProviderEnds, DeadlinePasses
<1>8. CASE ExpireUnits
  BY <1>8 DEF ExpireUnits, WorkNext
<1> QED
  BY <1>1, <1>2, <1>3, <1>4, <1>5, <1>6, <1>7, <1>8 DEF Workers, Beside

\* Every step at all is a step of the store.
LEMMA ExecImplements == [ExecNext]_vars => [Next]_storeVars
<1> SUFFICES ASSUME [ExecNext]_vars PROVE [Next]_storeVars
  OBVIOUS
<1>1. CASE Workers \/ Beside
  BY <1>1, WorkersImplement DEF WorkNext, Next, JobStep, JobActive
<1>2. CASE User
  BY <1>2 DEF User, Next, JobStep
<1>3. CASE UNCHANGED vars
  BY <1>3 DEF vars
<1> QED
  BY <1>1, <1>2, <1>3 DEF ExecNext

\* Whatever the processes do, faults included, the store only sees clients it
\* was specified for.
THEOREM WorkersImplementStore == ExecSpec => ImplementsStore
<1>1. ExecInit => Init
  BY DEF ExecInit
<1> QED
  BY <1>1, ExecImplements, PTL DEF ExecSpec, Spec, ImplementsStore

\* So the store's invariants and its contract hold of the workers too.
THEOREM WorkersKeepStore == ExecSpec => []StoreInv /\ KeepsContract
BY WorkersImplementStore, StoreInvHolds, StoreKeepsContract, PTL DEF ImplementsStore

-----------------------------------------------------------------------------
(* What one step can do to a run, and to what its unit shares.              *)

\* A run that recovery let go on, up to its terminal write.
Engaged == {"start", "store", "announce", "announce_refresh", "announce_final",
            "call", "mark", "post", "await", "task", "poll", "giveup", "save",
            "saved", "withdraw", "stage", "finish"}
Saved == {"saved", "withdraw", "stage", "finish"}

\* A run that still has to aggregate, and that will finalize a parent it owes it to.
Settling == {"cleanup", "final"}
Finals == {"final", "announce_final"}
Owes(j) == job[j] \in JobActive /\ AllTerminal(j)

RunsTyped == run \in [Units -> [Tokens -> RunState]]

\* Where the program counter of a run may go next, its claim aside.
MayGo(u, t, next) ==
    LET pc == run[u][t].pc
        phase == run[u][t].seen.phase IN
    /\ pc \in Alive /\ next \in Alive \cup {"done", "dead"}
    /\ next \in Engaged \cup {"replay"}
          => \/ pc \in Engaged /\ next \in Engaged
             \/ pc = "prepare" /\ next = Recovery(u, t)
             \/ pc = next
    /\ next \in {"mark", "post"}
          => \/ pc \in {"mark", "post"} \/ u \notin Mapped
             \/ phase # "submitted" /\ (phase = "submitting" => u \in Keyed)
    /\ next \in Saved => pc \in Saved \/ u \in gallery'
    /\ next = "giveup" => pc = "giveup" \/ due[u]
    /\ next = "revoke" => pc = "revoke" \/ unit[u].st = "cancelled"
    /\ next \in Finals => pc \in Finals \/ AllTerminal(Parent(u))
    /\ pc \in Finals /\ next \in {"done", "call"} => Settle(Parent(u))
    /\ Faults = {} /\ ~run[u][t].lost /\ Owes(Parent(u)) =>
          /\ pc = "cleanup" => next = "final"
          /\ pc = "final" => Settle(Parent(u))

\* When it may learn, or come to think, that it lost its lease.
MayLose(u, t) == /\ run[u][t].pc \notin Settling
                 /\ \/ ~Holds(u, t) /\ UNCHANGED storeVars
                    \/ "dberror" \in Faults

Moves(u, t) == \/ UNCHANGED run
               \/ \E next \in Alive \cup {"done", "dead"} :
                     /\ MayGo(u, t, next)
                     /\ Go(u, t, next) \/ (Lose(u, t, next) /\ MayLose(u, t))

LEMMA LocalMoves ==
    ASSUME NEW u \in Units, NEW t \in Tokens, Local(u, t) PROVE Moves(u, t)
<1> USE DEF At, Alive, Opening, Upstream, Closing, Handling, Leaving, Engaged, Saved,
            Settling, Finals, MayGo, MayLose, Moves
<1>1. CASE Prepare(u, t)
  BY <1>1 DEF Prepare, Recovery
<1>2. CASE Replay(u, t) \/ InterruptUnknownSubmit(u, t) \/ Start(u, t)
  BY <1>2 DEF Replay, InterruptUnknownSubmit, Start
<1>3. CASE StoreParent(u, t)
  BY <1>3 DEF StoreParent
<1>4. CASE Announce(u, t)
  BY <1>4 DEF Announce, Aggregate, Aggregated
<1>5. CASE CheckSaved(u, t) \/ Withdraw(u, t) \/ Finish(u, t)
  BY <1>5 DEF CheckSaved, Withdraw, Finish
<1>6. CASE StageResults(u, t)
  BY <1>6 DEF StageResults, Checkpoint, Refused
<1>7. CASE CancelUnit(u, t) \/ CheckFailed(u, t) \/ WriteFailed(u, t)
  BY <1>7 DEF CancelUnit, CheckFailed, WriteFailed
<1>8. CASE Cleanup(u, t)
  <2>1. Owes(Parent(u)) => /\ job[Parent(u)] # "deleted" /\ AllTerminal(Parent(u))
                          /\ ~ \A v \in UnitsOf(Parent(u)) : unit[v].st = "none"
    BY DEF Owes, AllTerminal, JobActive, UnitTerminal, UnitFailed
  <2> QED
    BY <1>8, <2>1 DEF Cleanup, Aggregate, Aggregated
<1> QED
  BY <1>1, <1>2, <1>3, <1>4, <1>5, <1>6, <1>7, <1>8 DEF Local

LEMMA RemoteMoves ==
    ASSUME NEW u \in Units, NEW t \in Tokens, Remote(u, t) PROVE Moves(u, t)
<1> USE DEF At, Alive, Opening, Upstream, Closing, Handling, Leaving, Engaged, Saved,
            Settling, Finals, MayGo, MayLose, Moves
<1>1. CASE Call(u, t)
  BY <1>1 DEF Call, Raised
<1>2. CASE MarkSubmitting(u, t) \/ MarkSubmitted(u, t)
  BY <1>2 DEF MarkSubmitting, MarkSubmitted, Checkpoint, Refused
<1>3. CASE Post(u, t) \/ Answered(u, t)
  BY <1>3 DEF Post, Answered, Raised
<1>4. CASE Poll(u, t) \/ GiveUp(u, t)
  BY <1>4 DEF Poll, GiveUp, Raised
<1>5. CASE Save(u, t)
  BY <1>5 DEF Save, Raised
<1>6. CASE AbortUpstream(u, t) \/ Revoke(u, t)
  BY <1>6 DEF AbortUpstream, Unwind, Revoke
<1> QED
  BY <1>1, <1>2, <1>3, <1>4, <1>5, <1>6 DEF Remote

LEMMA FaultMoves ==
    ASSUME NEW u \in Units, NEW t \in Tokens,
           Fault(u, t) \/ RenewLease(u, t) \/ AbandonLease(u, t)
    PROVE  Moves(u, t)
<1> USE DEF At, Alive, Opening, Upstream, Closing, Handling, Leaving, Engaged, Saved,
            Settling, Finals, MayGo, MayLose, Moves
<1>f. {"crash", "shutdown", "dberror"} \cap Faults # {} => Faults # {}
  OBVIOUS
<1>1. CASE Crash(u, t)
  BY <1>1, <1>f DEF Crash, Live
<1>2. CASE Shutdown(u, t)
  BY <1>2, <1>f DEF Shutdown, Unwind, Live
<1>3. CASE DatabaseError(u, t)
  BY <1>3, <1>f DEF DatabaseError, DatabaseCalls
<1>4. CASE RenewLease(u, t)
  BY <1>4 DEF RenewLease, Renewing, Refused
<1>5. CASE AbandonLease(u, t)
  BY <1>5 DEF AbandonLease
<1> QED
  BY <1>1, <1>2, <1>3, <1>4, <1>5 DEF Fault

\* Moving a program counter keeps the runs typed.
LEMMA MoveTyped ==
    ASSUME RunsTyped, NEW u \in Units, NEW t \in Tokens,
           NEW next \in Alive \cup {"done", "dead"},
           Go(u, t, next) \/ Lose(u, t, next)
    PROVE  RunsTyped'
<1>1. PICK b \in BOOLEAN : GoWith(u, t, next, b)
  <2>1. run[u][t].lost \in BOOLEAN
    BY DEF RunsTyped, RunState
  <2> QED
    BY <2>1, Zenon DEF Go, Lose
<1>2. [pc |-> next, seen |-> run[u][t].seen, lost |-> b] \in RunState
  BY DEF RunsTyped, RunState
<1>3. [run[u] EXCEPT ![t] = [pc |-> next, seen |-> run[u][t].seen, lost |-> b]]
        \in [Tokens -> RunState]
  BY <1>2 DEF RunsTyped
<1> QED
  BY <1>1, <1>3 DEF RunsTyped, GoWith

\* What a step may make of a run that is under way.
Moved(v, k) == /\ MayGo(v, k, run'[v][k].pc)
               /\ run'[v][k].seen = run[v][k].seen
               /\ run'[v][k].lost = run[v][k].lost \/ MayLose(v, k)

\* And how it begins.
TakenOver(v, k) == /\ ClaimRun(v) /\ k = unit[v].attempts + 1
                  /\ run'[v][k] = [pc |-> "prepare", seen |-> remote[v], lost |-> FALSE]

\* A run is its old self, freshly claimed, or one move on.
LEMMA RunMoves ==
    ASSUME RunsTyped, remote \in [Units -> [phase : Phases, key : {0} \cup Tokens]],
           [ExecNext]_vars, NEW v \in Units, NEW k \in Tokens
    PROVE  RunsTyped' /\ (run'[v][k] = run[v][k] \/ TakenOver(v, k) \/ Moved(v, k))
<1> USE DEF RunsTyped, RunState
<1>1. ASSUME NEW u \in Units, NEW t \in Tokens, Moves(u, t)
      PROVE  RunsTyped' /\ (run'[v][k] = run[v][k] \/ Moved(v, k))
  <2>1. CASE UNCHANGED run
    BY <2>1
  <2>2. ASSUME NEW next \in Alive \cup {"done", "dead"}, MayGo(u, t, next),
               Go(u, t, next) \/ (Lose(u, t, next) /\ MayLose(u, t))
        PROVE  RunsTyped' /\ (run'[v][k] = run[v][k] \/ Moved(v, k))
    <3>1. CASE u = v /\ t = k
      <4>1. /\ run'[v][k].pc = next /\ run'[v][k].seen = run[v][k].seen
            /\ run'[v][k].lost = run[v][k].lost \/ MayLose(v, k)
        BY <2>2, <3>1 DEF Go, Lose, GoWith
      <4>2. RunsTyped'
        BY <2>2, MoveTyped
      <4> QED
        BY <2>2, <3>1, <4>1, <4>2 DEF Moved
    <3>2. CASE u # v \/ t # k
      <4>1. run'[v][k] = run[v][k]
        BY <2>2, <3>2 DEF Go, Lose, GoWith
      <4>2. RunsTyped'
        BY <2>2, MoveTyped
      <4> QED
        BY <4>1, <4>2
    <3> QED
      BY <3>1, <3>2
  <2> QED
    BY <1>1, <2>1, <2>2 DEF Moves
<1>2. ASSUME NEW u \in Units, ClaimRun(u)
      PROVE  RunsTyped' /\ (run'[v][k] = run[v][k] \/ TakenOver(v, k))
  BY <1>2 DEF ClaimRun, TakenOver, Alive, Opening
<1>3. CASE UNCHANGED run
  BY <1>3
<1>4. \/ UNCHANGED run
      \/ \E u \in Units : ClaimRun(u)
      \/ \E u \in Units, t \in Tokens : Moves(u, t)
  BY LocalMoves, RemoteMoves, FaultMoves
     DEF ExecNext, Workers, Beside, RunStep, vars, LapseUnit, ReportProgress, AggregateBeside,
         AggregationLost, ProviderEnds, DeadlinePasses, ExpireUnits, User
<1> QED
  BY <1>1, <1>2, <1>3, <1>4

SharedTyped == /\ remote \in [Units -> [phase : Phases, key : {0} \cup Tokens]]
               /\ posted \in [Units -> SUBSET ({0} \cup Tokens)]
               /\ gallery \subseteq Units

\* What a step may do to the things the runs of a unit share.
SharedMoves(v) ==
    /\ SharedTyped'
    /\ gallery \subseteq gallery'
    /\ \/ posted'[v] = posted[v]
       \/ \E t \in Tokens : /\ run[v][t].pc = "post"
                            /\ posted'[v] = posted[v] \cup {SubmitKey(v, t)}
    /\ \/ remote'[v] \in {remote[v], NoRemote}
       \/ \E t \in Tokens, phase \in Phases \ {"none"}, key \in {0} \cup Tokens :
             /\ run[v][t].pc \in Engaged
             /\ phase = "results_ready" => run[v][t].pc = "stage"
             /\ phase # "results_ready" => key = SubmitKey(v, t)
             /\ remote'[v] = [phase |-> phase, key |-> key]
    /\ unit'[v].st = "success"
          => \/ unit[v].st = "success"
             \/ \E t \in Tokens : run[v][t].pc \in {"replay", "finish"}

\* A key is a token or the checkpointed key.
LEMMA KeyType ==
    ASSUME RunsTyped, NEW u \in Units, NEW t \in Tokens
    PROVE  SubmitKey(u, t) \in {0} \cup Tokens
BY DEF RunsTyped, RunState, SubmitKey

\* Only completing a unit makes it succeed.
LEMMA NoSuccess ==
    ASSUME TypeOK, NEW v \in Units, unit'[v].st = "success",
           \/ UNCHANGED unit
           \/ \E u \in Units : Claim(u) \/ Lapse(u)
           \/ \E u \in Units, t \in Tokens : Renew(u, t) \/ WriteRemote(u, t)
           \/ \E u \in Units, t \in Tokens, st \in UnitTerminal \ {"success"} : Fail(u, t, st)
           \/ \E j \in Jobs : Enqueue(j) \/ CancelTx(j)
           \/ ExpireExhausted
           \/ \E S \in SUBSET Jobs : DeleteJobs(S)
    PROVE  unit[v].st = "success"
<1>t. unit \in [Units -> UnitRow] /\ unit[v] \in UnitRow
  BY DEF TypeOK
<1>e. \A st \in UnitTerminal \ {"success"} : Ended(unit[v], st).st # "success"
  BY <1>t DEF Ended, UnitRow
<1>1. CASE UNCHANGED unit
  BY <1>1
<1>2. ASSUME NEW u \in Units, Claim(u) \/ Lapse(u) PROVE unit[v].st = "success"
  <2>1. Claimed(unit[v]).st # "success"
    BY <1>t DEF Claimed, UnitRow
  <2>2. CASE Claim(u)
    BY <1>t, <2>1, <2>2 DEF Claim
  <2>3. CASE Lapse(u)
    BY <1>t, <2>3 DEF Lapse, UnitRow
  <2> QED
    BY <1>2, <2>2, <2>3
<1>3. ASSUME NEW u \in Units, NEW t \in Tokens, Renew(u, t) \/ WriteRemote(u, t)
      PROVE  unit[v].st = "success"
  BY <1>t, <1>3 DEF Renew, WriteRemote, UnitRow
<1>4. ASSUME NEW u \in Units, NEW t \in Tokens, NEW st \in UnitTerminal \ {"success"},
             Fail(u, t, st)
      PROVE  unit[v].st = "success"
  BY <1>t, <1>e, <1>4 DEF Fail
<1>5. ASSUME NEW j \in Jobs, Enqueue(j) \/ CancelTx(j) PROVE unit[v].st = "success"
  BY <1>t, <1>e, <1>5 DEF Enqueue, CancelTx, NewRow, NoRow, UnitTerminal
<1>6. CASE ExpireExhausted
  BY <1>t, <1>e, <1>6 DEF ExpireExhausted, UnitTerminal
<1>7. ASSUME NEW S \in SUBSET Jobs, DeleteJobs(S) PROVE unit[v].st = "success"
  BY <1>t, <1>7 DEF DeleteJobs, NoRow
<1> QED
  BY <1>1, <1>2, <1>3, <1>4, <1>5, <1>6, <1>7

\* A checkpoint.
LEMMA CheckpointMoves ==
    ASSUME TypeOK, RunsTyped, SharedTyped, NEW u \in Units, NEW t \in Tokens,
           NEW phase \in Phases \ {"none"}, NEW key \in {0} \cup Tokens, NEW next,
           Checkpoint(u, t, phase, key, next),
           run[u][t].pc \in Engaged,
           phase = "results_ready" => run[u][t].pc = "stage",
           phase # "results_ready" => key = SubmitKey(u, t),
           UNCHANGED outerVars, NEW v \in Units
    PROVE  SharedMoves(v)
<1>1. SharedTyped' /\ gallery' = gallery /\ posted' = posted
  BY DEF Checkpoint, outerVars, SharedTyped
<1>2. \/ remote' = remote
      \/ remote' = [remote EXCEPT ![u] = [phase |-> phase, key |-> key]]
  BY DEF Checkpoint
<1>3. unit'[v].st = "success" => unit[v].st = "success"
  BY NoSuccess DEF Checkpoint, Refused, storeVars
<1> QED
  BY <1>1, <1>2, <1>3 DEF SharedMoves, SharedTyped

LEMMA LocalShared ==
    ASSUME TypeOK, RunsTyped, SharedTyped, NEW u \in Units, NEW t \in Tokens,
           Local(u, t), UNCHANGED outerVars, NEW v \in Units
    PROVE  SharedMoves(v)
<1> USE DEF outerVars
<1>p. Parent(u) \in Jobs
  BY ParentAssumption DEF Parent
<1>1. CASE StageResults(u, t)
  <2>1. run[u][t].seen.key \in {0} \cup Tokens
    BY DEF RunsTyped, RunState
  <2> QED
    BY <1>1, <2>1, CheckpointMoves DEF StageResults, At, Phases, Engaged
<1>2. CASE Replay(u, t) \/ Finish(u, t)
  <2>1. v # u => unit'[v] = unit[v]
    BY <1>2 DEF Replay, Finish, Complete, Refused, storeVars, TypeOK
  <2>2. run[u][t].pc \in {"replay", "finish"} /\ remote' = remote
    BY <1>2 DEF Replay, Finish, At
  <2> QED
    BY <2>1, <2>2 DEF SharedMoves, SharedTyped
<1>3. CASE ~(StageResults(u, t) \/ Replay(u, t) \/ Finish(u, t))
  <2>1. remote' = remote
    BY <1>3 DEF Local, Prepare, InterruptUnknownSubmit, Start, StoreParent, Announce,
                CheckSaved, Withdraw, CancelUnit, CheckFailed, WriteFailed, Cleanup,
                Aggregate
  <2>2. \/ UNCHANGED unit
        \/ Renew(u, t)
        \/ \E st \in UnitTerminal \ {"success"} : Fail(u, t, st)
    BY <1>3 DEF Local, Prepare, InterruptUnknownSubmit, Start, StoreParent, Announce,
                CheckSaved, Withdraw, CancelUnit, CheckFailed, WriteFailed, Cleanup,
                Aggregate, Refresh, Settle, UpsertActive, Finalize, Refused, TryFail,
                storeVars, UnitTerminal, UnitFailed
  <2> QED
    BY <2>1, <2>2, NoSuccess DEF SharedMoves, SharedTyped
<1> QED
  BY <1>1, <1>2, <1>3

LEMMA RemoteShared ==
    ASSUME TypeOK, RunsTyped, SharedTyped, NEW u \in Units, NEW t \in Tokens,
           Remote(u, t), NEW v \in Units
    PROVE  SharedMoves(v)
<1>1. CASE MarkSubmitting(u, t) \/ MarkSubmitted(u, t)
  BY <1>1, KeyType, CheckpointMoves DEF MarkSubmitting, MarkSubmitted, At, Phases, Engaged
<1>2. CASE Post(u, t)
  <2>1. SubmitKey(u, t) \in {0} \cup Tokens
    BY KeyType
  <2> QED
    BY <1>2, <2>1 DEF Post, At, SharedMoves, SharedTyped, storeVars
<1>3. CASE ~(MarkSubmitting(u, t) \/ MarkSubmitted(u, t) \/ Post(u, t))
  <2>1. remote' = remote /\ posted' = posted /\ unit' = unit
    BY <1>3 DEF Remote, Call, Answered, Poll, GiveUp, Save, AbortUpstream, Revoke,
                CancelRemote, outerVars, storeVars
  <2>2. gallery' \in {gallery, gallery \cup {u}}
    BY <1>3 DEF Remote, Call, Answered, Poll, GiveUp, Save, AbortUpstream, Revoke,
                CancelRemote, outerVars
  <2> QED
    BY <2>1, <2>2 DEF SharedMoves, SharedTyped
<1> QED
  BY <1>1, <1>2, <1>3

LEMMA AllShared ==
    ASSUME TypeOK, RunsTyped, SharedTyped, [ExecNext]_vars, NEW v \in Units
    PROVE  SharedMoves(v)
<1>1. ASSUME NEW u \in Units, NEW t \in Tokens, RunStep(u, t) PROVE SharedMoves(v)
  BY <1>1, LocalShared, RemoteShared DEF RunStep
<1>2. CASE User
  <2>1. remote'[v] \in {remote[v], NoRemote} /\ SharedTyped'
    BY <1>2 DEF User, Forget, outerVars, SharedTyped, NoRemote, Phases
  <2>2. \/ UNCHANGED unit
        \/ \E j \in Jobs : Enqueue(j) \/ CancelTx(j)
        \/ \E S \in SUBSET Jobs : DeleteJobs(S)
    BY <1>2 DEF User, ReleaseReservation, ClearHistory, Trim, TerminalJobs
  <2> QED
    BY <1>2, <2>1, <2>2, NoSuccess DEF User, outerVars, SharedMoves
<1>3. ASSUME /\ UNCHANGED <<remote, posted, gallery>>
             /\ \/ UNCHANGED unit
                \/ \E u \in Units : Claim(u) \/ Lapse(u)
                \/ \E u \in Units, t \in Tokens : Renew(u, t)
                \/ ExpireExhausted
      PROVE  SharedMoves(v)
  BY <1>3, NoSuccess DEF SharedMoves, SharedTyped
<1>4. ASSUME NEW u \in Units, NEW t \in Tokens,
             \/ RenewLease(u, t) \/ ReportProgress(u, t)
             \/ AbandonLease(u, t) \/ Fault(u, t)
      PROVE  SharedMoves(v)
  BY <1>3, <1>4 DEF RenewLease, ReportProgress, AbandonLease, Fault, Crash, Shutdown, DatabaseError,
                    Refused, outerVars, storeVars
<1>5. ASSUME NEW u \in Units,
             ClaimRun(u) \/ LapseUnit(u) \/ ProviderEnds(u) \/ DeadlinePasses(u)
      PROVE  SharedMoves(v)
  BY <1>3, <1>5 DEF ClaimRun, LapseUnit, ProviderEnds, DeadlinePasses,
                    outerVars, storeVars
<1>6. ASSUME NEW u \in Units, NEW k \in {0} \cup Tokens,
             AggregateBeside(u, k) \/ AggregationLost(u, k)
      PROVE  SharedMoves(v)
  BY <1>3, <1>6 DEF AggregateBeside, AggregationLost, Refresh, Settle, UpsertActive,
                    Finalize, outerVars, storeVars
<1>7. CASE ExpireUnits
  BY <1>3, <1>7 DEF ExpireUnits, outerVars
<1>8. CASE UNCHANGED vars
  BY <1>3, <1>8 DEF vars, outerVars, storeVars
<1> QED
  BY <1>1, <1>2, <1>4, <1>5, <1>6, <1>7, <1>8 DEF ExecNext, Workers, Beside

-----------------------------------------------------------------------------
(* One submit per mapped unit.  Only the first claim can find no checkpoint *)
(* and go on, and without an idempotency key only it can reach the request. *)
(* With one, whoever submits uses the first claim's key.                    *)

Sent == {"submitting", "submitted"}

OneSubmit ==
    \A u \in Mapped :
        /\ posted[u] \subseteq {1}
        /\ u \in Keyed /\ remote[u].phase \in Sent => remote[u].key = 1
        /\ \A t \in Tokens :
              /\ u \in Keyed /\ run[u][t].seen.phase \in Sent => run[u][t].seen.key = 1
              /\ run[u][t].pc \in Engaged
                    => /\ run[u][t].seen.phase # "results_ready"
                       /\ run[u][t].seen.phase = "none" => t = 1
              /\ run[u][t].pc \in {"mark", "post"} /\ u \notin Keyed
                    => run[u][t].seen.phase = "none"

\* Whoever is past recovery and may submit, or checkpoints, does it with key 1.
LEMMA KeyIsOne ==
    ASSUME OneSubmit, RunsTyped, NEW u \in Mapped, NEW t \in Tokens, run[u][t].pc \in Engaged,
           u \in Keyed \/ run[u][t].pc \in {"mark", "post"}
    PROVE  SubmitKey(u, t) = 1
<1>1. run[u][t].seen.phase \in Phases
  BY ProvidersAssumption DEF RunsTyped, RunState
<1>2. /\ run[u][t].seen.phase # "results_ready"
      /\ run[u][t].seen.phase = "none" => t = 1
      /\ u \in Keyed /\ run[u][t].seen.phase \in Sent => run[u][t].seen.key = 1
      /\ u \notin Keyed => run[u][t].seen.phase = "none"
  BY DEF OneSubmit
<1>3. run[u][t].seen.phase \in Sent \cup {"none"}
  BY <1>1, <1>2 DEF Phases, Sent
<1> QED
  BY <1>2, <1>3 DEF SubmitKey

LEMMA OneSubmitStep ==
    ASSUME TypeOK, RunsTyped, SharedTyped, OneSubmit, [ExecNext]_vars PROVE OneSubmit'
<1> SUFFICES ASSUME NEW u \in Mapped
             PROVE  /\ posted'[u] \subseteq {1}
                    /\ u \in Keyed /\ remote'[u].phase \in Sent => remote'[u].key = 1
                    /\ \A t \in Tokens :
                       /\ u \in Keyed /\ run'[u][t].seen.phase \in Sent
                             => run'[u][t].seen.key = 1
                       /\ run'[u][t].pc \in Engaged
                             => /\ run'[u][t].seen.phase # "results_ready"
                                /\ run'[u][t].seen.phase = "none" => t = 1
                       /\ run'[u][t].pc \in {"mark", "post"} /\ u \notin Keyed
                             => run'[u][t].seen.phase = "none"
  BY DEF OneSubmit
<1>u. u \in Units
  BY ProvidersAssumption
<1>s. SharedMoves(u)
  BY <1>u, AllShared
<1>1. posted'[u] \subseteq {1}
  BY <1>s, KeyIsOne DEF SharedMoves, OneSubmit, Engaged
<1>2. u \in Keyed /\ remote'[u].phase \in Sent => remote'[u].key = 1
  <2>1. CASE remote'[u] \in {remote[u], NoRemote}
    BY <2>1 DEF OneSubmit, NoRemote, Sent
  <2>2. CASE remote'[u] \notin {remote[u], NoRemote}
    <3>1. PICK t \in Tokens, phase \in Phases \ {"none"}, key \in {0} \cup Tokens :
             /\ run[u][t].pc \in Engaged
             /\ phase # "results_ready" => key = SubmitKey(u, t)
             /\ remote'[u] = [phase |-> phase, key |-> key]
      BY <1>s, <2>2 DEF SharedMoves
    <3> QED
      BY <3>1, KeyIsOne DEF Sent
  <2> QED
    BY <2>1, <2>2
<1>3. ASSUME NEW t \in Tokens
      PROVE  /\ u \in Keyed /\ run'[u][t].seen.phase \in Sent => run'[u][t].seen.key = 1
             /\ run'[u][t].pc \in Engaged
                   => /\ run'[u][t].seen.phase # "results_ready"
                      /\ run'[u][t].seen.phase = "none" => t = 1
             /\ run'[u][t].pc \in {"mark", "post"} /\ u \notin Keyed
                   => run'[u][t].seen.phase = "none"
  <2>1. CASE run'[u][t] = run[u][t]
    BY <2>1 DEF OneSubmit
  <2>2. CASE TakenOver(u, t)
    BY <2>2 DEF TakenOver, OneSubmit, Engaged
  <2>3. CASE Moved(u, t)
    <3>1. run[u][t].seen.phase \in Phases /\ t \in Nat /\ t > 0
      BY <1>u, Limits DEF RunsTyped, RunState, Tokens, AtLeast
    <3>2. run[u][t].pc = "prepare" /\ Recovery(u, t) \in Engaged
            => /\ run[u][t].seen.phase # "results_ready"
               /\ run[u][t].seen.phase = "none" => t = 1
      BY <3>1 DEF Recovery, Engaged
    <3>3. run'[u][t].pc \in Engaged
            => /\ run'[u][t].seen.phase # "results_ready"
               /\ run'[u][t].seen.phase = "none" => t = 1
      BY <2>3, <3>2 DEF Moved, MayGo, OneSubmit, Engaged
    <3>4. run'[u][t].pc \in {"mark", "post"} /\ u \notin Keyed
            => run'[u][t].seen.phase = "none"
      BY <2>3, <3>1, <3>3 DEF Moved, MayGo, OneSubmit, Engaged, Phases
    <3> QED
      BY <2>3, <3>3, <3>4 DEF Moved, OneSubmit
  <2> QED
    BY <1>u, <2>1, <2>2, <2>3, RunMoves DEF SharedTyped
<1> QED
  BY <1>1, <1>2, <1>3

-----------------------------------------------------------------------------
(* Images before success.                                                   *)

ImagesFirst ==
    \A u \in Units :
        /\ unit[u].st = "success" \/ remote[u].phase = "results_ready" => u \in gallery
        /\ \A t \in Tokens :
              run[u][t].pc \in Saved \cup {"replay"} \/ run[u][t].seen.phase = "results_ready"
                => u \in gallery

LEMMA ImagesFirstStep ==
    ASSUME TypeOK, RunsTyped, SharedTyped, ImagesFirst, [ExecNext]_vars PROVE ImagesFirst'
<1> SUFFICES ASSUME NEW u \in Units
             PROVE  /\ unit'[u].st = "success" \/ remote'[u].phase = "results_ready"
                          => u \in gallery'
                    /\ \A t \in Tokens :
                          \/ run'[u][t].pc \in Saved \cup {"replay"}
                          \/ run'[u][t].seen.phase = "results_ready"
                          => u \in gallery'
  BY DEF ImagesFirst
<1>1. unit'[u].st = "success" \/ remote'[u].phase = "results_ready" => u \in gallery'
  <2>1. SharedMoves(u)
    BY AllShared
  <2>2. \A t \in Tokens : run[u][t].pc \in Saved \cup {"replay"} => u \in gallery'
    BY <2>1 DEF SharedMoves, ImagesFirst
  <2>3. unit'[u].st = "success" => u \in gallery'
    BY <2>1, <2>2 DEF SharedMoves, ImagesFirst, Saved
  <2>4. CASE remote'[u] \in {remote[u], NoRemote}
    BY <2>1, <2>3, <2>4 DEF SharedMoves, ImagesFirst, NoRemote
  <2>5. CASE remote'[u] \notin {remote[u], NoRemote}
    <3>1. PICK t \in Tokens, phase \in Phases \ {"none"}, key \in {0} \cup Tokens :
             /\ phase = "results_ready" => run[u][t].pc = "stage"
             /\ remote'[u] = [phase |-> phase, key |-> key]
      BY <2>1, <2>5 DEF SharedMoves
    <3> QED
      BY <2>2, <2>3, <3>1 DEF Saved
  <2> QED
    BY <2>4, <2>5
<1>2. ASSUME NEW t \in Tokens,
             run'[u][t].pc \in Saved \cup {"replay"} \/ run'[u][t].seen.phase = "results_ready"
      PROVE  u \in gallery'
  <2>g. gallery \subseteq gallery'
    BY AllShared DEF SharedMoves
  <2>1. CASE run'[u][t] = run[u][t]
    BY <1>2, <2>1, <2>g DEF ImagesFirst
  <2>2. CASE TakenOver(u, t)
    BY <1>2, <2>2, <2>g DEF TakenOver, ImagesFirst, Saved
  <2>3. CASE Moved(u, t)
    <3>1. run'[u][t].pc = "replay" /\ run[u][t].pc = "prepare"
            /\ run'[u][t].pc = Recovery(u, t) => run[u][t].seen.phase = "results_ready"
      BY DEF Recovery
    <3> QED
      BY <1>2, <2>3, <2>g, <3>1 DEF Moved, MayGo, ImagesFirst, Engaged, Saved
  <2> QED
    BY <2>1, <2>2, <2>3, RunMoves DEF SharedTyped
<1> QED
  BY <1>1, <1>2

-----------------------------------------------------------------------------
(* Tokens do not come back, and what a run thinks of its lease.             *)

\* A run belongs to a claim its unit has seen, and not one of a job to come.
Begun == \A u \in Units, t \in Tokens : run[u][t].pc # "idle" =>
            /\ job[Parent(u)] # "none"
            /\ unit[u].st = "none" \/ t =< unit[u].attempts

\* Who believes that the lease is lost is right, unless the database failed.
LostRightly == \A u \in Units, t \in Tokens : run[u][t].lost =>
                  /\ run[u][t].pc # "idle"
                  /\ ~Holds(u, t) \/ "dberror" \in Faults

\* Who gives up a task does it behind the deadline, who revokes one does it for
\* a unit that has ended.
ForAReason == \A u \in Units, t \in Tokens :
                  /\ run[u][t].pc = "giveup" => due[u]
                  /\ run[u][t].pc = "revoke" => unit[u].st \notin UnitActive

OuterTyped == /\ due \in [Units -> BOOLEAN]
              /\ task \in [Units -> {"none", "open", "done", "failed", "cancelled"}]
              /\ agg \in [Units -> [{0} \cup Tokens -> {"idle", "read", "refresh", "final"}]]

\* A unit row never forgets a claim, and no step makes a unit run again.
LEMMA RowAges ==
    ASSUME StoreInv, [Next]_storeVars, NEW u \in Units, job[Parent(u)] # "none"
    PROVE  /\ job'[Parent(u)] # "none"
           /\ unit'[u].st = "none" \/ (unit[u].st # "none" /\ unit'[u].attempts >= unit[u].attempts)
           /\ unit'[u].st \in UnitActive => unit[u].st \in UnitActive
           /\ \A t \in Tokens :
                 Holds(u, t)' => Holds(u, t) \/ (unit[u].st # "none" /\ t > unit[u].attempts)
<1>1. Parent(u) \in Jobs /\ TypeOK /\ unit[u] \in UnitRow /\ unit[u].attempts \in Nat
  BY ParentAssumption DEF Parent, StoreInv, TypeOK, UnitRow
<1>2. job'[Parent(u)] # "none"
  BY <1>1, ParentStep DEF JobActive, JobTerminal
<1>3. CASE unit'[u] = unit[u]
  BY <1>1, <1>2, <1>3 DEF Holds
<1>4. CASE unit'[u] = NoRow
  BY <1>2, <1>4 DEF NoRow, Holds, UnitActive
<1>5. CASE u \in Candidates /\ unit'[u] = Claimed(unit[u])
  <2>1. /\ Claimed(unit[u]).attempts = unit[u].attempts + 1
        /\ Claimed(unit[u]).token = unit[u].attempts + 1
    BY <1>1 DEF Claimed, UnitRow
  <2>2. unit[u].st \in UnitActive
    BY <1>1, <1>5 DEF Candidates, Reclaimable, Lapsed, Running, Queued, UnitActive
  <2>3. \A t \in Tokens : t \in Int
    BY Limits DEF Tokens
  <2> QED
    BY <1>1, <1>2, <1>5, <2>1, <2>2, <2>3 DEF Holds, UnitActive
<1>6. CASE /\ unit[u].st = "running"
           /\ \/ \E b \in BOOLEAN : unit'[u] = [unit[u] EXCEPT !.live = b]
              \/ unit'[u] = [unit[u] EXCEPT !.ckpt = TRUE]
  <2>1. /\ unit'[u].st = unit[u].st /\ unit'[u].token = unit[u].token
        /\ unit'[u].attempts = unit[u].attempts
    BY <1>1, <1>6 DEF UnitRow
  <2> QED
    BY <1>1, <1>2, <1>6, <2>1 DEF Holds
<1>7. CASE /\ unit[u].st \in UnitActive
           /\ \E st \in UnitTerminal : unit'[u] = Ended(unit[u], st)
  <2>1. unit'[u].attempts = unit[u].attempts /\ unit'[u].st \in UnitTerminal
    BY <1>1, <1>7 DEF Ended, UnitRow
  <2> QED
    BY <1>1, <1>2, <1>7, <2>1 DEF Holds, UnitActive, UnitTerminal, UnitFailed
<1> QED
  BY <1>1, <1>3, <1>4, <1>5, <1>6, <1>7, RowStep DEF Parent

\* A claim finds a row whose parent is there.
LEMMA TakenOverRow ==
    ASSUME StoreInv, NEW u \in Units, NEW t \in Tokens, TakenOver(u, t)
    PROVE  /\ job[Parent(u)] # "none" /\ job' = job
           /\ unit[u].st \in UnitActive
           /\ unit'[u].attempts = t
<1>1. u \in Candidates /\ unit' = [unit EXCEPT ![u] = Claimed(@)] /\ job' = job
  BY DEF TakenOver, ClaimRun, Claim
<1>2. unit[u].st \in UnitActive
  BY <1>1 DEF Candidates, Reclaimable, Lapsed, Running, Queued, UnitActive
<1>3. unit \in [Units -> UnitRow]
  BY DEF StoreInv, TypeOK
<1>4. unit'[u].attempts = unit[u].attempts + 1
  BY <1>1, <1>3 DEF Claimed, UnitRow
<1> QED
  BY <1>1, <1>2, <1>4 DEF TakenOver, StoreInv, UnitsHaveLiveParent, Parent, JobActive

LEMMA RunsAge ==
    ASSUME StoreInv, RunsTyped, SharedTyped, Begun, LostRightly, [ExecNext]_vars
    PROVE  Begun' /\ LostRightly'
<1> SUFFICES ASSUME NEW u \in Units, NEW t \in Tokens
             PROVE  /\ run'[u][t].pc # "idle" =>
                          /\ job'[Parent(u)] # "none"
                          /\ unit'[u].st = "none" \/ t =< unit'[u].attempts
                    /\ run'[u][t].lost =>
                          /\ run'[u][t].pc # "idle"
                          /\ ~Holds(u, t)' \/ "dberror" \in Faults
  BY DEF Begun, LostRightly, Holds, Parent
<1>0. [Next]_storeVars
  BY ExecImplements
<1>t. /\ t \in Nat /\ unit[u].attempts \in Nat
      /\ unit'[u].attempts \in Nat
  <2>1. TypeOK /\ TypeOK'
    BY <1>0, TypeStep DEF StoreInv
  <2> QED
    BY <2>1, Limits DEF TypeOK, UnitRow, Tokens, AtLeast
<1>1. CASE TakenOver(u, t)
  BY <1>1, <1>t, TakenOverRow DEF TakenOver
<1>2. CASE run'[u][t] = run[u][t]
  BY <1>0, <1>2, <1>t, RowAges DEF Begun, LostRightly
<1>3. CASE Moved(u, t)
  <2>1. run[u][t].pc # "idle" /\ run'[u][t].pc # "idle"
    BY <1>3 DEF Moved, MayGo, Alive, Opening, Upstream, Closing, Handling, Leaving
  <2>2. CASE run'[u][t].lost = run[u][t].lost
    BY <1>0, <1>t, <2>1, <2>2, RowAges DEF Begun, LostRightly
  <2>3. CASE MayLose(u, t)
    BY <1>0, <1>t, <2>1, <2>3, RowAges DEF Begun, MayLose, Holds, storeVars
  <2> QED
    BY <1>3, <2>2, <2>3 DEF Moved
<1> QED
  BY <1>1, <1>2, <1>3, RunMoves DEF SharedTyped

\* What a step may do to a task and to its deadline.
TaskMoves(v) ==
    /\ due[v] => due'[v]
    /\ task[v] = "open" /\ task'[v] = "cancelled"
          => \E t \in Tokens : run[v][t].pc \in {"giveup", "revoke"}

LEMMA AggPut ==
    ASSUME OuterTyped, NEW u \in Units, NEW k \in {0} \cup Tokens,
           NEW a \in {"idle", "read", "refresh", "final"}, agg' = [agg EXCEPT ![u][k] = a]
    PROVE  agg' \in [Units -> [{0} \cup Tokens -> {"idle", "read", "refresh", "final"}]]
<1>1. [agg[u] EXCEPT ![k] = a] \in [{0} \cup Tokens -> {"idle", "read", "refresh", "final"}]
  BY DEF OuterTyped
<1>2. agg' = [agg EXCEPT ![u] = [agg[u] EXCEPT ![k] = a]]
  OBVIOUS
<1> QED
  BY <1>1, <1>2 DEF OuterTyped

LEMMA OuterStep ==
    ASSUME OuterTyped, [ExecNext]_vars
    PROVE  OuterTyped' /\ \A v \in Units : TaskMoves(v)
<1> DEFINE Goal == OuterTyped' /\ \A v \in Units : TaskMoves(v)
<1> SUFFICES Goal
  OBVIOUS
<1> USE DEF OuterTyped, TaskMoves
<1>1. ASSUME UNCHANGED <<task, due>>,
             agg' \in [Units -> [{0} \cup Tokens -> {"idle", "read", "refresh", "final"}]]
      PROVE  Goal
  BY <1>1
<1>2. ASSUME NEW u \in Units, NEW t \in Tokens, Remote(u, t), UNCHANGED agg PROVE Goal
  <2>1. CASE Post(u, t)
    BY <1>2, <2>1 DEF Post
  <2>2. CASE GiveUp(u, t) \/ Revoke(u, t)
    BY <1>2, <2>2 DEF GiveUp, Revoke, CancelRemote, At
  <2>3. CASE ~(Post(u, t) \/ GiveUp(u, t) \/ Revoke(u, t))
    BY <1>1, <1>2, <2>3 DEF Remote, Call, MarkSubmitting, Answered, MarkSubmitted, Poll, Save,
                           AbortUpstream, outerVars
  <2> QED
    BY <2>1, <2>2, <2>3
<1>3. ASSUME NEW u \in Units, NEW t \in Tokens,
             \/ Local(u, t) /\ UNCHANGED outerVars /\ UNCHANGED agg
             \/ Fault(u, t) \/ RenewLease(u, t) \/ ReportProgress(u, t) \/ AbandonLease(u, t)
      PROVE  Goal
  <2>1. UNCHANGED <<task, due>>
    BY <1>3 DEF Fault, RenewLease, ReportProgress, AbandonLease, outerVars
  <2>2. \/ UNCHANGED agg
        \/ \E a \in {"idle", "read"} : agg' = [agg EXCEPT ![u][t] = a]
    BY <1>3 DEF Fault, Crash, Shutdown, DatabaseError, RenewLease, ReportProgress, AbandonLease
  <2> QED
    BY <1>1, <2>1, <2>2, AggPut
<1>4. ASSUME NEW u \in Units, NEW k \in {0} \cup Tokens,
             AggregateBeside(u, k) \/ AggregationLost(u, k)
      PROVE  Goal
  <2>1. UNCHANGED <<task, due>>
    BY <1>4 DEF AggregateBeside, AggregationLost, outerVars
  <2>2. \E a \in {"idle", "refresh", "final"} : agg' = [agg EXCEPT ![u][k] = a]
    BY <1>4 DEF AggregateBeside, AggregationLost, Aggregated
  <2> QED
    BY <1>1, <2>1, <2>2, AggPut
<1>5. ASSUME NEW u \in Units,
             ClaimRun(u) \/ LapseUnit(u) \/ ProviderEnds(u) \/ DeadlinePasses(u)
      PROVE  Goal
  BY <1>1, <1>5 DEF ClaimRun, LapseUnit, ProviderEnds, DeadlinePasses, outerVars
<1>6. CASE ExpireUnits
  BY <1>1, <1>6 DEF ExpireUnits, outerVars
<1>7. CASE User \/ UNCHANGED vars
  BY <1>1, <1>7 DEF User, vars, outerVars
<1> HIDE DEF Goal, OuterTyped, TaskMoves
<1>8. ASSUME NEW u \in Units, NEW t \in Tokens, RunStep(u, t) PROVE Goal
  BY <1>2, <1>3, <1>8 DEF RunStep
<1> QED
  BY <1>3, <1>4, <1>5, <1>6, <1>7, <1>8 DEF ExecNext, Workers, Beside

LEMMA ReasonStep ==
    ASSUME StoreInv, RunsTyped, SharedTyped, OuterTyped, Begun, ForAReason, [ExecNext]_vars
    PROVE  ForAReason'
<1> SUFFICES ASSUME NEW u \in Units, NEW t \in Tokens
             PROVE  /\ run'[u][t].pc = "giveup" => due'[u]
                    /\ run'[u][t].pc = "revoke" => unit'[u].st \notin UnitActive
  BY DEF ForAReason
<1>1. due[u] => due'[u]
  BY OuterStep DEF TaskMoves
<1>2. job[Parent(u)] # "none" /\ unit'[u].st \in UnitActive => unit[u].st \in UnitActive
  BY ExecImplements, RowAges
<1>3. CASE TakenOver(u, t)
  BY <1>3 DEF TakenOver
<1>4. CASE run'[u][t] = run[u][t]
  BY <1>1, <1>2, <1>4 DEF ForAReason, Begun
<1>5. CASE Moved(u, t)
  <2>1. run[u][t].pc # "idle"
    BY <1>5 DEF Moved, MayGo, Alive, Opening, Upstream, Closing, Handling, Leaving
  <2> QED
    BY <1>1, <1>2, <1>5, <2>1 DEF Moved, MayGo, ForAReason, Begun, UnitActive
<1> QED
  BY <1>3, <1>4, <1>5, RunMoves DEF SharedTyped

-----------------------------------------------------------------------------
(* Together.                                                                *)

ExecInv == RunsTyped /\ SharedTyped /\ OneSubmit /\ ImagesFirst

LEMMA ExecInvInit == ExecInit => ExecInv
BY ProvidersAssumption
   DEF ExecInit, Init, ExecInv, RunsTyped, RunState, SharedTyped, OneSubmit, Sent, ImagesFirst,
       NoRun, NoRemote, NoRow, Phases, Engaged, Saved

LEMMA ExecInvStep == TypeOK /\ ExecInv /\ [ExecNext]_vars => ExecInv'
<1> SUFFICES ASSUME TypeOK, ExecInv, [ExecNext]_vars PROVE ExecInv'
  OBVIOUS
<1>1. OneSubmit' /\ ImagesFirst'
  BY OneSubmitStep, ImagesFirstStep DEF ExecInv
<1>2. CASE Units = {}
  <2>1. User \/ UNCHANGED vars
    BY <1>2 DEF ExecNext, Workers, Beside, ExpireUnits, ExpireExhausted, Exhausted, Lapsed, Running
  <2>2. run' = run /\ posted' = posted /\ gallery' = gallery
    BY <2>1 DEF User, vars, outerVars
  <2>3. remote' \in [Units -> [phase : Phases, key : {0} \cup Tokens]]
    BY <1>2, <2>1 DEF User, Forget, vars, ExecInv, SharedTyped
  <2> QED
    BY <1>1, <2>2, <2>3 DEF ExecInv, RunsTyped, SharedTyped
<1>3. CASE Units # {}
  <2>1. PICK u \in Units : TRUE
    BY <1>3
  <2>2. 1 \in Tokens
    BY Limits DEF Tokens, AtLeast
  <2>3. RunsTyped'
    BY <2>1, <2>2, RunMoves DEF ExecInv, SharedTyped
  <2>4. SharedTyped'
    BY <2>1, AllShared DEF ExecInv, SharedMoves
  <2> QED
    BY <1>1, <2>3, <2>4 DEF ExecInv
<1> QED
  BY <1>2, <1>3

LEMMA ExecInvHolds == ExecSpec => []ExecInv
<1>1. ExecSpec => []TypeOK
  BY WorkersImplementStore, TypeCorrect, PTL DEF ImplementsStore
<1> QED
  BY <1>1, ExecInvInit, ExecInvStep, PTL DEF ExecSpec

\* However leases lapse and processes stop, a provider mapping is submitted at
\* most once under each key, and that is once.
THEOREM SubmitOnce == ExecSpec => []NoDoubleSubmit
<1>1. ExecInv => NoDoubleSubmit
  <2> SUFFICES ASSUME ExecInv, NEW u \in Mapped PROVE Cardinality(posted[u]) =< 1
    BY DEF NoDoubleSubmit
  <2>1. posted[u] \subseteq {1}
    BY DEF ExecInv, OneSubmit
  <2>2. IsFiniteSet({1}) /\ Cardinality({1}) = 1
    BY FS_Singleton
  <2> QED
    BY <2>1, <2>2, FS_Subset
<1> QED
  BY <1>1, ExecInvHolds, PTL

\* A unit that succeeded has its images in the gallery.
THEOREM ImagesBeforeSuccess == ExecSpec => []SuccessHasImages
<1>1. ExecInv => SuccessHasImages
  BY DEF ExecInv, ImagesFirst, SuccessHasImages
<1> QED
  BY <1>1, ExecInvHolds, PTL

\* What the runs know of their leases and tasks holds along with it.
LeaseInv == Begun /\ LostRightly /\ ForAReason /\ OuterTyped

LEMMA LeaseInvInit == ExecInit => LeaseInv
BY Limits DEF ExecInit, Init, LeaseInv, Begun, LostRightly, ForAReason, OuterTyped, NoRun

LEMMA LeaseInvStep == StoreInv /\ ExecInv /\ LeaseInv /\ [ExecNext]_vars => LeaseInv'
BY RunsAge, OuterStep, ReasonStep DEF ExecInv, LeaseInv

LEMMA LeaseInvHolds == ExecSpec => [](StoreInv /\ ExecInv /\ LeaseInv)
<1>1. ExecSpec => []StoreInv
  BY WorkersImplementStore, StoreInvHolds, PTL DEF ImplementsStore
<1> QED
  BY <1>1, ExecInvHolds, LeaseInvInit, LeaseInvStep, PTL DEF ExecSpec

\* No process takes a remote task from another that may be waiting for it:
\* _cancel_remote runs only behind the poll deadline or for a unit that is over
\* (should_cancel_remote), whatever leases, processes and database calls fail.
THEOREM TasksCancelledForAReason == ExecSpec => CancelOnlyForUserOrDeadline
<1>1. LeaseInv /\ [ExecNext]_vars =>
        [\A u \in Units : task[u] = "open" /\ task'[u] = "cancelled"
            => due[u] \/ unit[u].st \notin UnitActive]_vars
  BY OuterStep DEF LeaseInv, TaskMoves, ForAReason
<1> QED
  BY <1>1, LeaseInvHolds, PTL DEF ExecSpec, CancelOnlyForUserOrDeadline

-----------------------------------------------------------------------------
(* Somebody owes the aggregation, as long as nothing fails.                 *)

\* Who is bound to finalize a parent whose units have ended: a run of one of them
\* on its way out, or the sweep that expired one of them.
Debtor(u) == \/ agg[u][0] \in {"read", "final"}
             \/ \E t \in Tokens : run[u][t].pc \in Settling /\ ~run[u][t].lost

DebtOwed == \A j \in Jobs : Owes(j) => \E u \in UnitsOf(j) : Debtor(u)

\* Writes that end no unit.
LEMMA StillRuns ==
    ASSUME TypeOK, NEW v \in Units, unit[v].st \notin UnitTerminal,
           \/ UNCHANGED unit
           \/ \E u \in Units : Claim(u) \/ Lapse(u)
           \/ \E u \in Units, t \in Tokens : Renew(u, t) \/ WriteRemote(u, t)
           \/ \E j \in Jobs : Enqueue(j)
           \/ \E S \in SUBSET Jobs : DeleteJobs(S)
    PROVE  unit'[v].st \notin UnitTerminal
<1>t. unit \in [Units -> UnitRow] /\ unit[v] \in UnitRow
  BY DEF TypeOK
<1> USE DEF UnitTerminal, UnitFailed
<1>1. ASSUME NEW u \in Units, Claim(u) \/ Lapse(u) PROVE unit'[v].st \notin UnitTerminal
  <2>1. Claimed(unit[v]).st = "running"
    BY <1>t DEF Claimed, UnitRow
  <2> QED
    BY <1>t, <1>1, <2>1 DEF Claim, Lapse, UnitRow
<1>2. ASSUME NEW u \in Units, NEW t \in Tokens, Renew(u, t) \/ WriteRemote(u, t)
      PROVE  unit'[v].st \notin UnitTerminal
  BY <1>t, <1>2 DEF Renew, WriteRemote, UnitRow
<1>3. ASSUME NEW j \in Jobs, Enqueue(j) PROVE unit'[v].st \notin UnitTerminal
  BY <1>t, <1>3 DEF Enqueue, NewRow, NoRow
<1>4. ASSUME NEW S \in SUBSET Jobs, DeleteJobs(S) PROVE unit'[v].st \notin UnitTerminal
  BY <1>t, <1>4 DEF DeleteJobs, NoRow
<1> QED
  BY <1>1, <1>2, <1>3, <1>4

\* Who ends a unit: a run that holds it and goes to clean up, the sweep, or the
\* cancellation of its parent.
EndedBy(v) == \/ job'[Parent(v)] \notin JobActive
              \/ agg'[v][0] = "read"
              \/ \E t \in Tokens : Holds(v, t) /\ At(v, t, "cleanup")'
                                  /\ run'[v][t].lost = run[v][t].lost

LEMMA RunEnds ==
    ASSUME TypeOK, RunsTyped, NEW u \in Units, NEW t \in Tokens, RunStep(u, t),
           NEW v \in Units, unit[v].st \notin UnitTerminal, unit'[v].st \in UnitTerminal
    PROVE  EndedBy(v)
<1>1. ASSUME \/ Complete(u, t)
             \/ \E st \in UnitTerminal \ {"success"} : Fail(u, t, st),
             Go(u, t, "cleanup")
      PROVE  EndedBy(v)
  <2>1. v = u /\ Holds(u, t)
    BY <1>1 DEF Complete, Fail, TypeOK
  <2>2. run'[u][t].pc = "cleanup" /\ run'[u][t].lost = run[u][t].lost
    BY <1>1 DEF Go, GoWith, RunsTyped
  <2> QED
    BY <2>1, <2>2 DEF EndedBy, At
<1>2. CASE \/ UNCHANGED unit \/ Renew(u, t) \/ WriteRemote(u, t)
  BY <1>2, StillRuns
<1>3. CASE Replay(u, t) \/ Finish(u, t)
  BY <1>1, <1>2, <1>3 DEF Replay, Finish, Refused, storeVars
<1>4. CASE \/ InterruptUnknownSubmit(u, t) \/ Withdraw(u, t) \/ CancelUnit(u, t)
           \/ WriteFailed(u, t)
  <2>1. Go(u, t, "cleanup")
    BY <1>4 DEF InterruptUnknownSubmit, Withdraw, CancelUnit, WriteFailed
  <2>2. UNCHANGED storeVars \/ \E st \in UnitTerminal \ {"success"} : TryFail(u, t, st)
    BY <1>4 DEF InterruptUnknownSubmit, Withdraw, CancelUnit, WriteFailed, UnitTerminal, UnitFailed
  <2> QED
    BY <1>1, <1>2, <2>1, <2>2 DEF TryFail, Refused, storeVars
<1>5. CASE \/ Prepare(u, t) \/ Start(u, t) \/ StoreParent(u, t) \/ Announce(u, t)
           \/ CheckSaved(u, t) \/ StageResults(u, t) \/ CheckFailed(u, t) \/ Cleanup(u, t)
  BY <1>2, <1>5 DEF Prepare, Start, StoreParent, Announce, CheckSaved, StageResults, CheckFailed,
                    Cleanup, Checkpoint, Aggregate, Refresh, Settle, UpsertActive, Finalize,
                    Refused, storeVars
<1>6. CASE Remote(u, t)
  BY <1>2, <1>6 DEF Remote, Call, MarkSubmitting, Post, Answered, MarkSubmitted, Poll, GiveUp, Save,
                    AbortUpstream, Revoke, Checkpoint, Refused, storeVars
<1> QED
  BY <1>3, <1>4, <1>5, <1>6 DEF RunStep, Local

LEMMA SomebodyEnds ==
    ASSUME TypeOK, RunsTyped, OuterTyped, [ExecNext]_vars,
           NEW v \in Units, unit[v].st \notin UnitTerminal, unit'[v].st \in UnitTerminal
    PROVE  EndedBy(v)
<1>1. CASE \/ UNCHANGED unit
           \/ \E u \in Units : Claim(u) \/ Lapse(u)
           \/ \E u \in Units, t \in Tokens : Renew(u, t) \/ WriteRemote(u, t)
           \/ \E j \in Jobs : Enqueue(j)
           \/ \E S \in SUBSET Jobs : DeleteJobs(S)
  BY <1>1, StillRuns
<1>2. ASSUME NEW u \in Units, NEW t \in Tokens, RunStep(u, t) PROVE EndedBy(v)
  BY <1>2, RunEnds
<1>3. ASSUME NEW u \in Units, NEW t \in Tokens,
             Fault(u, t) \/ RenewLease(u, t) \/ ReportProgress(u, t) \/ AbandonLease(u, t)
      PROVE  EndedBy(v)
  BY <1>1, <1>3 DEF Fault, Crash, Shutdown, DatabaseError, RenewLease, ReportProgress,
                    AbandonLease, Refused, storeVars
<1>4. ASSUME NEW u \in Units, NEW k \in {0} \cup Tokens,
             AggregateBeside(u, k) \/ AggregationLost(u, k)
      PROVE  EndedBy(v)
  BY <1>1, <1>4 DEF AggregateBeside, AggregationLost, Refresh, Settle, UpsertActive, Finalize,
                    storeVars
<1>5. ASSUME NEW u \in Units,
             ClaimRun(u) \/ LapseUnit(u) \/ ProviderEnds(u) \/ DeadlinePasses(u)
      PROVE  EndedBy(v)
  BY <1>1, <1>5 DEF ClaimRun, LapseUnit, ProviderEnds, DeadlinePasses, storeVars
<1>6. CASE ExpireUnits
  <2>1. CASE v \in Exhausted
    BY <1>6, <2>1 DEF ExpireUnits, EndedBy, OuterTyped
  <2>2. CASE v \notin Exhausted
    BY <1>6, <2>2 DEF ExpireUnits, ExpireExhausted
  <2> QED
    BY <2>1, <2>2
<1>7. ASSUME NEW j \in Jobs, CancelTx(j) PROVE EndedBy(v)
  <2>1. CASE j = Parent(v)
    BY <1>7, <2>1 DEF CancelTx, EndedBy, TypeOK, JobActive
  <2>2. CASE j # Parent(v)
    BY <1>7, <2>2 DEF CancelTx, Parent
  <2> QED
    BY <2>1, <2>2
<1>8. CASE User
  BY <1>1, <1>7, <1>8 DEF User, ReleaseReservation, ClearHistory, Trim, TerminalJobs
<1>9. CASE UNCHANGED vars
  BY <1>1, <1>9 DEF vars, storeVars
<1> QED
  BY <1>2, <1>3, <1>4, <1>5, <1>6, <1>8, <1>9 DEF ExecNext, Workers, Beside

\* A debtor stays one until the parent is finalized.
LEMMA SweepStays ==
    ASSUME Faults = {}, OuterTyped, [ExecNext]_vars, NEW v \in Units,
           Owes(Parent(v)), agg[v][0] \in {"read", "final"}
    PROVE  agg'[v][0] \in {"read", "final"} \/ Settle(Parent(v))
<1>0. 0 \notin Tokens
  BY Limits DEF Tokens
<1>1. ASSUME NEW u \in Units, NEW t \in Tokens,
             \/ RunStep(u, t) \/ Fault(u, t) \/ RenewLease(u, t)
             \/ ReportProgress(u, t) \/ AbandonLease(u, t)
      PROVE  agg'[v][0] = agg[v][0]
  BY <1>0, <1>1 DEF OuterTyped, RunStep, Fault, Crash, Shutdown, DatabaseError, RenewLease,
                    ReportProgress, AbandonLease
<1>2. ASSUME NEW u \in Units, NEW k \in {0} \cup Tokens, AggregateBeside(u, k)
      PROVE  agg'[v][0] \in {"read", "final"} \/ Settle(Parent(v))
  <2>1. /\ job[Parent(v)] # "deleted" /\ AllTerminal(Parent(v))
        /\ ~ \A w \in UnitsOf(Parent(v)) : unit[w].st = "none"
    BY DEF Owes, AllTerminal, JobActive, UnitTerminal, UnitFailed
  <2>2. CASE u = v /\ k = 0
    BY <1>2, <2>1, <2>2 DEF AggregateBeside, Aggregated, OuterTyped
  <2>3. CASE u # v \/ k # 0
    BY <1>2, <2>3 DEF AggregateBeside, OuterTyped
  <2> QED
    BY <2>2, <2>3
<1>3. ASSUME NEW u \in Units, NEW k \in {0} \cup Tokens, AggregationLost(u, k) PROVE FALSE
  BY <1>3 DEF AggregationLost
<1>4. ASSUME NEW u \in Units,
             ClaimRun(u) \/ LapseUnit(u) \/ ProviderEnds(u) \/ DeadlinePasses(u)
      PROVE  agg' = agg
  BY <1>4 DEF ClaimRun, LapseUnit, ProviderEnds, DeadlinePasses
<1>5. CASE ExpireUnits
  BY <1>5 DEF ExpireUnits, OuterTyped
<1>6. CASE User \/ UNCHANGED vars
  BY <1>6 DEF User, vars
<1> QED
  BY <1>1, <1>2, <1>3, <1>4, <1>5, <1>6 DEF ExecNext, Workers, Beside

LEMMA RunStays ==
    ASSUME Faults = {}, StoreInv, RunsTyped, SharedTyped, [ExecNext]_vars, NEW v \in Units,
           Owes(Parent(v)), NEW t \in Tokens, run[v][t].pc \in Settling, ~run[v][t].lost
    PROVE  \/ run'[v][t].pc \in Settling /\ ~run'[v][t].lost
           \/ Settle(Parent(v))
<1>1. v \in UnitsOf(Parent(v)) /\ unit[v].st \in UnitTerminal
  BY DEF Owes, AllTerminal, UnitsOf, Parent
<1>2. ~TakenOver(v, t)
  BY <1>1, TakenOverRow DEF UnitActive, UnitTerminal, UnitFailed
<1>3. CASE Moved(v, t)
  <2>1. ~MayLose(v, t)
    BY DEF MayLose
  <2> QED
    BY <1>3, <2>1 DEF Moved, MayGo, Settling
<1> QED
  BY <1>2, <1>3, RunMoves DEF SharedTyped

LEMMA DebtStep ==
    ASSUME Faults = {}, StoreInv, ExecInv, LeaseInv, DebtOwed, [ExecNext]_vars
    PROVE  DebtOwed'
<1> SUFFICES ASSUME NEW j \in Jobs, Owes(j)' PROVE \E u \in UnitsOf(j) : Debtor(u)'
  BY DEF DebtOwed, UnitsOf
<1>0. /\ TypeOK /\ [Next]_storeVars /\ RunsTyped /\ SharedTyped /\ OuterTyped
      /\ \A u \in UnitsOf(j) : u \in Units /\ Parent(u) = j
  BY ExecImplements DEF StoreInv, ExecInv, LeaseInv, UnitsOf, Parent
<1>1. job'[j] \in JobActive /\ UnitsOf(j) # {}
      /\ \A u \in UnitsOf(j) : unit'[u].st \in UnitTerminal
  BY DEF Owes, AllTerminal, UnitsOf
<1>2. CASE AllTerminal(j)
  <2>1. PICK w \in UnitsOf(j) : unit[w].st \in UnitTerminal
    BY <1>1, <1>2 DEF AllTerminal
  <2>2. job[j] \notin {"none", "deleted"}
    BY <1>0, <2>1 DEF StoreInv, UnitsHaveLiveParent, Parent, UnitTerminal, UnitFailed
  <2>3. job[j] \in JobActive
    BY <1>0, <1>1, <2>2, ParentStep DEF JobActive, JobTerminal
  <2>4. Owes(j)
    BY <1>2, <2>3 DEF Owes
  <2>5. ~Settle(j)
    <3>1. Finalize(j) => job'[j] \in JobTerminal
      BY <1>0, VerdictType DEF Finalize, TypeOK
    <3> QED
      BY <1>1, <2>4, <3>1 DEF Settle, Owes, JobActive, JobTerminal
  <2>6. PICK u \in UnitsOf(j) : Debtor(u)
    BY <2>4 DEF DebtOwed
  <2>7. CASE agg[u][0] \in {"read", "final"}
    BY <1>0, <2>4, <2>5, <2>7, SweepStays DEF Debtor
  <2>8. ASSUME NEW t \in Tokens, run[u][t].pc \in Settling, ~run[u][t].lost
        PROVE  Debtor(u)'
    BY <1>0, <2>4, <2>5, <2>8, RunStays DEF Debtor
  <2> QED
    BY <2>6, <2>7, <2>8 DEF Debtor
<1>3. CASE ~AllTerminal(j)
  <2>1. PICK v \in UnitsOf(j) : unit[v].st \notin UnitTerminal
    BY <1>1, <1>3 DEF AllTerminal
  <2>2. EndedBy(v)
    BY <1>0, <1>1, <2>1, SomebodyEnds
  <2>3. ASSUME NEW t \in Tokens, Holds(v, t), run'[v][t].lost = run[v][t].lost
        PROVE  ~run'[v][t].lost
    BY <1>0, <2>3 DEF LeaseInv, LostRightly
  <2>4. Debtor(v)'
    BY <1>0, <1>1, <2>2, <2>3 DEF EndedBy, Debtor, At, Settling
  <2> QED
    BY <2>4
<1> QED
  BY <1>2, <1>3

LEMMA DebtHolds == ASSUME Faults = {} PROVE ExecSpec => []DebtOwed
<1>1. ExecInit => DebtOwed
  BY DEF ExecInit, Init, DebtOwed, Owes, JobActive
<1>2. StoreInv /\ ExecInv /\ LeaseInv /\ DebtOwed /\ [ExecNext]_vars => DebtOwed'
  BY DebtStep
<1> QED
  BY <1>1, <1>2, LeaseInvHolds, PTL DEF ExecSpec

\* As long as no process stops and no database call fails, a parent whose units
\* have all ended never waits for nobody: a run that ended one of them, or the
\* sweep, is on its way to finalize it (execute's finally block,
\* expire_exhausted_units_if_needed), however many runs of a unit there are.
THEOREM AggregationIsOwed == ASSUME Faults = {} PROVE ExecSpec => []AggregationOwed
<1>1. DebtOwed => AggregationOwed
  BY DEF DebtOwed, AggregationOwed, Owes, Debtor, Settling, Live, At, Alive, Leaving
<1> QED
  BY <1>1, DebtHolds, PTL

\* So, when nobody works on a parent any more, it has the status its units give
\* it, or the user's cancellation.
THEOREM StatusMatchesUnits == ASSUME Faults = {} PROVE ExecSpec => []StatusFollowsUnits
<1>1. DebtOwed /\ VerdictKept => StatusFollowsUnits
  <2> SUFFICES ASSUME DebtOwed, VerdictKept, NEW j \in Jobs,
                      job[j] \in JobActive \cup JobTerminal, AllTerminal(j),
                      \A u \in UnitsOf(j) : /\ \A t \in Tokens : ~Live(u, t)
                                           /\ \A k \in {0} \cup Tokens : agg[u][k] = "idle"
               PROVE  job[j] \in {Verdict(j), "cancelled"}
    BY DEF StatusFollowsUnits
  <2>1. \A u \in UnitsOf(j) : ~Debtor(u)
    BY DEF Debtor, Settling, Live, Alive, Leaving
  <2>2. job[j] \notin JobActive
    BY <2>1 DEF DebtOwed, Owes
  <2> QED
    BY <2>2 DEF VerdictKept
<1>2. ExecSpec => []VerdictKept
  BY WorkersImplementStore, VerdictsStand, PTL DEF ImplementsStore
<1> QED
  BY <1>1, <1>2, DebtHolds, PTL

-----------------------------------------------------------------------------
(* Edit sources: a job that is over stays over.                             *)

\* Enqueued once, nothing left to run, no bytes held.
Over(j) == /\ job[j] # "none"
           /\ \A u \in UnitsOf(j) : unit[u].st \notin UnitActive
           /\ reserved[j] = 0

LEMMA OverStays ==
    ASSUME StoreInv, [Next]_storeVars, NEW j \in Jobs, Over(j)
    PROVE  Over(j)'
<1> USE DEF StoreInv
<1>1. job'[j] # "none" /\ reserved'[j] = 0
  BY ParentStep DEF Over, JobActive, JobTerminal
<1>2. ASSUME NEW u \in UnitsOf(j) PROVE unit'[u].st \notin UnitActive
  <2>1. u \in Units /\ ParentOf[u] = j /\ unit[u].st \notin UnitActive /\ job[j] # "none"
    BY DEF UnitsOf, Over
  <2>2. u \notin Candidates
    BY <2>1 DEF Candidates, Reclaimable, Lapsed, Running, Queued, UnitActive
  <2>3. unit'[u] = unit[u] \/ unit'[u] = NoRow
    BY <2>1, <2>2, RowStep DEF UnitActive
  <2> QED
    BY <2>1, <2>3 DEF NoRow, UnitActive
<1> QED
  BY <1>1, <1>2 DEF Over, UnitsOf

\* All units ended, now or before they were deleted.
MayFinalize(j) == AllTerminal(j) \/ Over(j)

\* A job whose units have all ended has its row until that is deleted.
LEMMA AllTerminalHasRow ==
    ASSUME StoreInv, NEW j \in Jobs, AllTerminal(j)
    PROVE  job[j] \notin {"none", "deleted"}
<1>1. PICK u \in Units : ParentOf[u] = j /\ unit[u].st \in UnitTerminal
  BY DEF AllTerminal, UnitsOf
<1> QED
  BY <1>1 DEF StoreInv, UnitsHaveLiveParent, UnitTerminal, UnitFailed

LEMMA MayFinalizeStays ==
    ASSUME StoreInv, [Next]_storeVars, NEW j \in Jobs, MayFinalize(j)
    PROVE  MayFinalize(j)'
<1> USE DEF StoreInv
<1>1. CASE Over(j)
  BY <1>1, OverStays DEF MayFinalize
<1>2. CASE AllTerminal(j)
  <2>1. job[j] \notin {"none", "deleted"}
    BY <1>2, AllTerminalHasRow
  <2>2. ASSUME NEW u \in UnitsOf(j) PROVE unit'[u] = unit[u] \/ job'[j] = "deleted"
    <3>1. u \in Units /\ ParentOf[u] = j /\ unit[u].st \in UnitTerminal
      BY <1>2 DEF AllTerminal, UnitsOf
    <3>2. unit[u].st \notin {"none", "running", "queued"}
      BY <3>1 DEF UnitTerminal, UnitFailed
    <3>3. u \notin Candidates
      BY <3>2 DEF Candidates, Reclaimable, Lapsed, Running, Queued
    <3> QED
      BY <2>1, <3>1, <3>2, <3>3, RowStep DEF UnitActive
  <2>3. CASE job'[j] = "deleted"
    <3>1. reserved'[j] = 0 /\ \A u \in UnitsOf(j) : unit'[u] = NoRow
      BY <2>1, <2>3, ParentStep DEF JobActive, JobTerminal
    <3> QED
      BY <2>3, <3>1 DEF MayFinalize, Over, UnitsOf, NoRow, UnitActive
  <2>4. CASE job'[j] # "deleted"
    <3>1. \A u \in UnitsOf(j) : unit'[u] = unit[u]
      BY <2>2, <2>4
    <3> QED
      BY <1>2, <3>1 DEF MayFinalize, AllTerminal, UnitsOf
  <2> QED
    BY <2>3, <2>4
<1> QED
  BY <1>1, <1>2 DEF MayFinalize

\* The final write of an aggregation leaves a job that is over, if its row was
\* there to be found.
LEMMA SettleEnds ==
    ASSUME StoreInv, NEW j \in Jobs, MayFinalize(j), Settle(j), job[j] # "deleted"
    PROVE  Over(j)'
<1>1. CASE Finalize(j)
  <2>1. reserved'[j] = 0 /\ job'[j] # "none"
    BY <1>1, VerdictType DEF Finalize, StoreInv, TypeOK, JobTerminal
  <2> QED
    BY <1>1, <2>1 DEF Finalize, AllTerminal, Over, UnitsOf, UnitActive, UnitTerminal, UnitFailed
<1>2. CASE ~(job[j] \in JobActive /\ AllTerminal(j)) /\ UNCHANGED storeVars
  <2>1. CASE Over(j)
    BY <1>2, <2>1 DEF Over, UnitsOf, storeVars
  <2>2. CASE AllTerminal(j)
    <3>1. job[j] \notin JobActive /\ job[j] # "none"
      BY <1>2, <2>2, AllTerminalHasRow
    <3>2. reserved[j] = 0
      BY <3>1 DEF StoreInv, ReservationFollowsJob, TypeOK
    <3> QED
      BY <1>2, <2>2, <3>1, <3>2
         DEF AllTerminal, Over, UnitsOf, UnitActive, UnitTerminal, UnitFailed, storeVars
  <2> QED
    BY <2>1, <2>2 DEF MayFinalize
<1> QED
  BY <1>1, <1>2 DEF Settle

-----------------------------------------------------------------------------
(* Only jobs that are over are cleaned up, so cleaning up does not disturb   *)
(* the store.                                                                *)

Writing(u) == \/ \E t \in Tokens : run[u][t].pc \in Finals
              \/ \E k \in {0} \cup Tokens : agg[u][k] = "final"

Cleaning(j) == j \in tidying \/ route[j] \in {"release", "tidy"}

EditInv == /\ \A u \in Units : Writing(u) => MayFinalize(Parent(u))
           /\ \A j \in Jobs : Cleaning(j) => Over(j)
           /\ agg \in [Units -> [{0} \cup Tokens -> {"idle", "read", "refresh", "final"}]]
           /\ route \in [Jobs -> RouteState]

AllInv == StoreInv /\ ExecInv /\ EditInv

\* A release of bytes that are gone already changes nothing.
LEMMA NothingToDrop ==
    ASSUME TypeOK, NEW j \in Jobs, Over(j), DropBytes(j) PROVE UNCHANGED vars
<1>1. reserved' = reserved
  BY DEF TypeOK, Over, DropBytes
<1> QED
  BY <1>1 DEF DropBytes, vars, storeVars, outerVars

LEMMA EditImplements == AllInv /\ [EditNext]_fileVars => [ExecNext]_vars
<1> SUFFICES ASSUME AllInv, [EditNext]_fileVars PROVE [ExecNext]_vars
  OBVIOUS
<1>1. CASE WorkersStep
  BY <1>1 DEF WorkersStep, ExecNext
<1>2. ASSUME NEW u \in Units, NEW k \in {0} \cup Tokens, BesideStep(u, k)
      PROVE  [ExecNext]_vars
  BY <1>2 DEF BesideStep, Beside, ExecNext
<1>3. ASSUME NEW j \in Jobs, QueueEdit(j) \/ QueueWithdrawn(j) \/ AbortAfter(j) \/ CommitLate(j)
      PROVE  [ExecNext]_vars
  BY <1>3 DEF QueueEdit, QueueWithdrawn, AbortAfter, CommitLate, Rows, User, ExecNext
<1>4. ASSUME NEW j \in Jobs, Upload(j) \/ Refuse(j) \/ RemoveRejected(j) \/ AbortBefore(j)
      PROVE  [ExecNext]_vars
  BY <1>4 DEF Upload, Refuse, RemoveRejected, AbortBefore
<1>5. ASSUME NEW j \in Jobs, LookBeforeCancel(j) \/ CancelJob(j) PROVE [ExecNext]_vars
  BY <1>5 DEF LookBeforeCancel, CancelJob, Rows, User, ExecNext
<1>6. ASSUME NEW j \in Jobs, ReleaseOrTidy(j) \/ CleanUp(j) PROVE [ExecNext]_vars
  <2>1. Cleaning(j) /\ DropBytes(j)
    BY <1>6 DEF ReleaseOrTidy, CleanUp, TidySources, Cleaning
  <2> QED
    BY <2>1, NothingToDrop DEF AllInv, EditInv, StoreInv
<1>7. CASE ForgetJobs
  BY <1>7 DEF ForgetJobs, Rows, User, ExecNext
<1>8. CASE SweepStale
  BY <1>8 DEF SweepStale
<1>9. CASE UNCHANGED fileVars
  BY <1>9 DEF fileVars
<1> QED
  BY <1>1, <1>2, <1>3, <1>4, <1>5, <1>6, <1>7, <1>8, <1>9
     DEF EditNext, RequestStep, RouteStep

\* An aggregation beside the runs comes to its final write only when all units
\* have ended.
LEMMA AggMoves ==
    ASSUME [ExecNext]_vars,
           agg \in [Units -> [{0} \cup Tokens -> {"idle", "read", "refresh", "final"}]]
    PROVE  /\ agg' \in [Units -> [{0} \cup Tokens -> {"idle", "read", "refresh", "final"}]]
           /\ \A v \in Units, i \in {0} \cup Tokens :
                 agg'[v][i] = "final" => agg[v][i] = "final" \/ AllTerminal(Parent(v))
<1> DEFINE AggType == [Units -> [{0} \cup Tokens -> {"idle", "read", "refresh", "final"}]]
           Goal == /\ agg' \in AggType
                   /\ \A v \in Units, i \in {0} \cup Tokens :
                         agg'[v][i] = "final" => agg[v][i] = "final" \/ AllTerminal(Parent(v))
<1>1. CASE UNCHANGED agg
  BY <1>1
<1>2. ASSUME NEW u \in Units, NEW k \in {0} \cup Tokens,
             NEW st \in {"idle", "read", "refresh", "final"},
             agg' = [agg EXCEPT ![u][k] = st],
             st = "final" => AllTerminal(Parent(u))
      PROVE  Goal
  BY <1>2
<1>3. ASSUME NEW u \in Units, NEW t \in Tokens, Crash(u, t) \/ ReportProgress(u, t)
      PROVE  Goal
  BY <1>2, <1>3, t \in {0} \cup Tokens DEF Crash, ReportProgress
<1>4. ASSUME NEW u \in Units, NEW k \in {0} \cup Tokens, AggregateBeside(u, k)
      PROVE  Goal
  <2>1. CASE agg[u][k] = "read"
    <3>1. agg' = [agg EXCEPT ![u][k] = Aggregated(Parent(u), "refresh", "final", "idle")]
      BY <1>4, <2>1 DEF AggregateBeside
    <3> QED
      BY <1>2, <3>1 DEF Aggregated
  <2>2. CASE agg[u][k] # "read"
    BY <1>2, <1>4, <2>2 DEF AggregateBeside
  <2> QED
    BY <2>1, <2>2
<1>5. ASSUME NEW u \in Units, NEW k \in {0} \cup Tokens, AggregationLost(u, k)
      PROVE  Goal
  BY <1>2, <1>5 DEF AggregationLost
<1>6. CASE ExpireUnits
  <2>1. ASSUME NEW u \in Units PROVE agg'[u] \in {agg[u], [agg[u] EXCEPT ![0] = "read"]}
    BY <1>6 DEF ExpireUnits
  <2> QED
    BY <1>6, <2>1 DEF ExpireUnits
<1>7. \/ UNCHANGED agg
      \/ \E u \in Units, t \in Tokens : Crash(u, t) \/ ReportProgress(u, t)
      \/ \E u \in Units, k \in {0} \cup Tokens : AggregateBeside(u, k) \/ AggregationLost(u, k)
      \/ ExpireUnits
  BY DEF ExecNext, Workers, Beside, RunStep, Fault, Shutdown, DatabaseError, RenewLease,
         AbandonLease, ClaimRun, LapseUnit, ProviderEnds, DeadlinePasses, User, vars
<1> QED
  BY <1>1, <1>3, <1>4, <1>5, <1>6, <1>7

\* A run stands still, is a new one, or goes where it may.
LEMMA RunGoes ==
    ASSUME ExecInv, [ExecNext]_vars, NEW u \in Units, NEW t \in Tokens
    PROVE  \/ run'[u][t] = run[u][t]
           \/ run'[u][t].pc = "prepare"
           \/ MayGo(u, t, run'[u][t].pc)
<1>1. RunsTyped /\ remote \in [Units -> [phase : Phases, key : {0} \cup Tokens]]
  BY DEF ExecInv, SharedTyped
<1>2. run'[u][t] = run[u][t] \/ TakenOver(u, t) \/ Moved(u, t)
  BY <1>1, RunMoves
<1> QED
  BY <1>2 DEF TakenOver, Moved

\* What a step does to a cleanup: one begins only with a job that is over.
LEMMA CleaningBegins ==
    ASSUME AllInv, [EditNext]_fileVars, [ExecNext]_vars, NEW j \in Jobs,
           ~Cleaning(j), Cleaning(j)'
    PROVE  Over(j)'
<1> USE DEF AllInv, EditInv, Cleaning
<1>1. CASE WorkersStep
  <2>1. j \in FinalWrites
    BY <1>1 DEF WorkersStep
  <2>2. PICK u \in Units, t \in Tokens :
           /\ j = Parent(u) /\ job[j] # "deleted"
           /\ run[u][t].pc \in Finals /\ run'[u][t].pc \in {"done", "call"}
    BY <2>1 DEF FinalWrites, Finals
  <2>3. run'[u][t] # run[u][t] /\ run'[u][t].pc # "prepare"
    BY <2>2 DEF Finals
  <2>4. MayGo(u, t, run'[u][t].pc)
    BY <2>3, RunGoes
  <2>5. Settle(j)
    BY <2>2, <2>4 DEF MayGo
  <2>6. MayFinalize(j)
    BY <2>2 DEF Writing
  <2> QED
    BY <2>2, <2>5, <2>6, SettleEnds
<1>2. ASSUME NEW u \in Units, NEW k \in {0} \cup Tokens, BesideStep(u, k)
      PROVE  Over(j)'
  <2>1. agg[u][k] = "final" /\ job[Parent(u)] # "deleted" /\ j = Parent(u)
    BY <1>2 DEF BesideStep
  <2>2. Settle(j)
    BY <1>2, <2>1 DEF BesideStep, AggregateBeside
  <2>3. MayFinalize(j)
    BY <2>1 DEF Writing
  <2> QED
    BY <2>1, <2>2, <2>3, SettleEnds
<1>3. ASSUME NEW i \in Jobs, CancelJob(i) PROVE Over(j)'
  <2>1. i = j /\ CancelTx(j)
    BY <1>3 DEF CancelJob, Route
  <2>2. reserved'[j] = 0 /\ job'[j] = "cancelled"
    BY <2>1 DEF CancelTx, StoreInv, TypeOK
  <2>3. \A u \in UnitsOf(j) : unit'[u].st \notin UnitActive
    <3> SUFFICES ASSUME NEW u \in UnitsOf(j) PROVE unit'[u].st \notin UnitActive
      OBVIOUS
    <3>1. u \in Units /\ ParentOf[u] = j
      BY DEF UnitsOf
    <3>2. unit'[u] = IF unit[u].st \in UnitActive THEN Ended(unit[u], "cancelled") ELSE unit[u]
      BY <2>1, <3>1 DEF CancelTx
    <3>3. unit[u] \in UnitRow
      BY <3>1 DEF StoreInv, TypeOK
    <3> QED
      BY <3>2, <3>3 DEF Ended, UnitActive, UnitRow
  <2> QED
    BY <2>2, <2>3 DEF Over, UnitsOf
<1>4. CASE UNCHANGED <<route, tidying>>
  BY <1>4
<1>5. ASSUME NEW i \in Jobs, LookBeforeCancel(i) PROVE FALSE
  BY <1>5 DEF LookBeforeCancel, Route
<1>6. ASSUME NEW i \in Jobs, ReleaseOrTidy(i) \/ CleanUp(i) PROVE FALSE
  BY <1>6 DEF ReleaseOrTidy, CleanUp, Route
<1> QED
  BY <1>1, <1>2, <1>3, <1>4, <1>5, <1>6
     DEF EditNext, RequestStep, RouteStep, Upload, QueueEdit, Refuse, RemoveRejected, CommitLate,
         QueueWithdrawn, AbortAfter, AbortBefore, ForgetJobs, SweepStale, fileVars

LEMMA EditInvStep ==
    ASSUME AllInv, [EditNext]_fileVars, [ExecNext]_vars, [Next]_storeVars
    PROVE  EditInv'
<1> USE DEF AllInv, EditInv
<1>1. ASSUME NEW u \in Units, Writing(u)' PROVE MayFinalize(Parent(u))'
  <2>p. Parent(u) \in Jobs
    BY ParentAssumption DEF Parent
  <2>1. MayFinalize(Parent(u))
    <3>1. ASSUME NEW t \in Tokens, run'[u][t].pc \in Finals PROVE MayFinalize(Parent(u))
      <4>1. CASE run'[u][t] = run[u][t]
        BY <3>1, <4>1 DEF Writing
      <4>2. CASE MayGo(u, t, run'[u][t].pc)
        BY <3>1, <4>2 DEF MayGo, Writing, MayFinalize
      <4> QED
        BY <3>1, <4>1, <4>2, RunGoes DEF Finals
    <3>2. ASSUME NEW k \in {0} \cup Tokens, agg'[u][k] = "final" PROVE MayFinalize(Parent(u))
      BY <3>2, AggMoves DEF Writing, MayFinalize
    <3> QED
      BY <1>1, <3>1, <3>2 DEF Writing
  <2> QED
    BY <2>p, <2>1, MayFinalizeStays
<1>2. ASSUME NEW j \in Jobs, Cleaning(j)' PROVE Over(j)'
  BY <1>2, CleaningBegins, OverStays
<1>3. agg' \in [Units -> [{0} \cup Tokens -> {"idle", "read", "refresh", "final"}]]
  BY AggMoves
<1>4. route' \in [Jobs -> RouteState]
  <2>1. ASSUME NEW i \in Jobs, LookBeforeCancel(i) \/ CancelJob(i) \/ ReleaseOrTidy(i)
        PROVE  route' \in [Jobs -> RouteState]
    BY <2>1 DEF LookBeforeCancel, CancelJob, ReleaseOrTidy, Route, RouteState
  <2> QED
    BY <2>1 DEF EditNext, RequestStep, RouteStep, WorkersStep, BesideStep, Upload, QueueEdit,
         Refuse, RemoveRejected, CommitLate, QueueWithdrawn, AbortAfter, AbortBefore, CleanUp,
         ForgetJobs, SweepStale, fileVars
<1> QED
  BY <1>1, <1>2, <1>3, <1>4

LEMMA AllInvHolds == EditSpec => []AllInv /\ [][ExecNext]_vars
<1>1. EditInit => AllInv
  <2> SUFFICES ASSUME EditInit PROVE AllInv
    OBVIOUS
  <2>1. StoreInv /\ ExecInv
    BY StoreInvInit, ExecInvInit DEF EditInit, ExecInit
  <2>2. EditInv
    BY DEF EditInit, ExecInit, EditInv, Writing, Cleaning, NoRun, Finals, RouteState
  <2> QED
    BY <2>1, <2>2 DEF AllInv
<1>2. AllInv /\ [EditNext]_fileVars => AllInv' /\ [ExecNext]_vars
  <2> SUFFICES ASSUME AllInv, [EditNext]_fileVars PROVE AllInv' /\ [ExecNext]_vars
    OBVIOUS
  <2>1. [ExecNext]_vars
    BY EditImplements
  <2>2. [Next]_storeVars
    BY <2>1, ExecImplements
  <2>3. StoreInv' /\ ExecInv'
    BY <2>1, <2>2, StoreInvStep, ExecInvStep DEF AllInv, StoreInv
  <2> QED
    BY <2>1, <2>2, <2>3, EditInvStep DEF AllInv
<1> QED
  BY <1>1, <1>2, PTL DEF EditSpec

\* Requests, routes and cleanups do to the store what the user of the processes
\* may, so every theorem about the processes holds with them.
THEOREM SourcesImplementExecution == EditSpec => ImplementsExecution
<1>1. EditInit => ExecInit
  BY DEF EditInit
<1> QED
  BY <1>1, AllInvHolds, PTL DEF EditSpec, ExecSpec, ImplementsExecution

-----------------------------------------------------------------------------
(* Files outlive the need for them.  A request removes files only of a job   *)
(* that was never queued, or that it has itself seen ended; everybody else   *)
(* only those of a job that is over.                                         *)

KeptInv == /\ request \in [Jobs -> RequestState]
           /\ \A j \in Jobs : /\ request[j] \in {"idle", "staged", "reject"} => job[j] = "none"
                              /\ request[j] = "staged" => j \in files
                              /\ request[j] # "late"
           /\ SourcesWhileNeeded

\* Only queueing a job gives it units to run.
LEMMA NothingQueued ==
    ASSUME StoreInv, [Next]_storeVars, NEW u \in Units,
           job[Parent(u)] = "none" => job'[Parent(u)] = "none",
           unit'[u].st \in UnitActive
    PROVE  unit[u].st \in UnitActive
<1>1. unit[u] \in UnitRow
  BY DEF StoreInv, TypeOK
<1>2. CASE unit'[u] = NewRow /\ job[ParentOf[u]] = "none" /\ job'[ParentOf[u]] = "queued"
  BY <1>2 DEF Parent
<1>3. CASE unit'[u] = NoRow
  BY <1>3 DEF NoRow, UnitActive
<1>4. CASE u \in Candidates
  BY <1>4 DEF Candidates, Reclaimable, Lapsed, Running, Queued, UnitActive
<1> QED
  BY <1>2, <1>3, <1>4, RowStep DEF StoreInv, UnitActive

\* The processes, the cancel route and maintenance queue nothing.
LEMMA WorkQueuesNothing ==
    ASSUME [WorkNext]_storeVars, NEW j \in Jobs, TypeOK, job[j] = "none"
    PROVE  job'[j] = "none"
BY DEF WorkNext, UpsertActive, Finalize, Lapse, Claim, FencedWrite, Renew, WriteRemote,
       Complete, Fail, ExpireExhausted, JobActive, TypeOK, storeVars

LEMMA KeptInvStep ==
    ASSUME Events \cap {"abort", "stale"} = {}, AllInv, KeptInv,
           [EditNext]_fileVars, [Next]_storeVars
    PROVE  KeptInv'
<1> USE DEF AllInv, StoreInv, KeptInv
<1>p. \A u \in Units : Parent(u) \in Jobs /\ (unit[u].st \in UnitActive => job[Parent(u)] \in JobActive)
  BY ParentAssumption DEF Parent, UnitsHaveLiveParent
<1>1. ASSUME \A j \in Jobs : job[j] = "none" => job'[j] = "none",
             UNCHANGED <<files, request>>
      PROVE  KeptInv'
  BY <1>1, <1>p, NothingQueued DEF SourcesWhileNeeded
<1>2. CASE WorkersStep \/ \E u \in Units, k \in {0} \cup Tokens : BesideStep(u, k)
  <2>1. Workers \/ Beside
    BY <1>2 DEF WorkersStep, BesideStep, Beside
  <2>2. [WorkNext]_storeVars
    BY <2>1, WorkersImplement
  <2> QED
    BY <1>1, <1>2, <2>2, WorkQueuesNothing DEF WorkersStep, BesideStep
<1>3. ASSUME NEW i \in Jobs, CancelJob(i) PROVE KeptInv'
  BY <1>1, <1>3 DEF CancelJob, CancelTx, JobActive, TypeOK, vars, storeVars
<1>4. CASE ForgetJobs
  <2>1. \A j \in Jobs : job[j] = "none" => job'[j] = "none"
    BY <1>4 DEF ForgetJobs, ClearHistory, Trim, DeleteJobs, TerminalJobs, JobTerminal
  <2> QED
    BY <1>1, <1>4, <2>1 DEF ForgetJobs
<1>5. ASSUME NEW i \in Jobs, QueueEdit(i) \/ QueueWithdrawn(i) PROVE KeptInv'
  <2>1. /\ request[i] = "staged" /\ files' = files /\ Enqueue(i)
        /\ request' \in {[request EXCEPT ![i] = "done"], [request EXCEPT ![i] = "withdraw"]}
    BY <1>5 DEF QueueEdit, QueueWithdrawn, Request
  <2>2. ASSUME NEW u \in Units, unit'[u].st \in UnitActive PROVE Parent(u) \in files'
    BY <2>1, <2>2 DEF Enqueue, SourcesWhileNeeded, Parent
  <2> QED
    BY <2>1, <2>2 DEF Enqueue, SourcesWhileNeeded, RequestState, Rejecting, TypeOK
<1>6. ASSUME NEW i \in Jobs, Upload(i) \/ Refuse(i) PROVE KeptInv'
  <2>1. /\ request[i] \in {"idle", "staged"} /\ UNCHANGED <<job, unit>>
        /\ \/ files' = files \cup {i} /\ request' = [request EXCEPT ![i] = "staged"]
           \/ files' = files /\ request' = [request EXCEPT ![i] = "reject"]
    BY <1>6 DEF Upload, Refuse, Request, vars, storeVars
  <2> QED
    BY <2>1 DEF SourcesWhileNeeded, RequestState, Rejecting
<1>7. ASSUME NEW i \in Jobs, RemoveRejected(i) PROVE KeptInv'
  <2>1. /\ job[i] \notin JobActive /\ UNCHANGED <<job, unit>>
        /\ files' = files \ {i} /\ request' = [request EXCEPT ![i] = "done"]
    BY <1>7 DEF RemoveRejected, Request, JobActive, vars, storeVars
  <2>2. SourcesWhileNeeded'
    BY <1>p, <2>1 DEF SourcesWhileNeeded, Parent
  <2> QED
    BY <2>1, <2>2 DEF RequestState, Rejecting
<1>8. ASSUME NEW i \in Jobs, ReleaseOrTidy(i) \/ CleanUp(i) PROVE KeptInv'
  <2>1. /\ Cleaning(i) /\ UNCHANGED <<job, unit, request>>
        /\ files' \in {files, files \ {i}}
    BY <1>8 DEF ReleaseOrTidy, CleanUp, TidySources, DropBytes, Cleaning
  <2>2. Over(i)
    BY <2>1 DEF EditInv
  <2>3. request[i] # "staged"
    BY <2>2 DEF Over
  <2>4. SourcesWhileNeeded'
    BY <2>1, <2>2 DEF SourcesWhileNeeded, Over, UnitsOf, Parent
  <2> QED
    BY <2>1, <2>3, <2>4
<1>9. CASE UNCHANGED fileVars \/ \E i \in Jobs : LookBeforeCancel(i)
  BY <1>1, <1>9 DEF LookBeforeCancel, fileVars, vars, storeVars
<1> QED
  BY <1>2, <1>3, <1>4, <1>5, <1>6, <1>7, <1>8, <1>9
     DEF EditNext, RequestStep, RouteStep, AbortAfter, AbortBefore, CommitLate, SweepStale

\* The files of a job are there as long as one of its units may run, unless a
\* request is cancelled while its job is stored or maintenance takes the files
\* of a waiting job for abandoned: those two are what the runs exclude or refute.
THEOREM SourcesKept ==
    ASSUME Events \cap {"abort", "stale"} = {}
    PROVE  EditSpec => []SourcesWhileNeeded
<1>1. EditInit => KeptInv
  BY DEF EditInit, ExecInit, Init, KeptInv, SourcesWhileNeeded, RequestState, NoRow, UnitActive
<1>2. AllInv /\ KeptInv /\ [EditNext]_fileVars /\ [ExecNext]_vars => KeptInv'
  BY ExecImplements, KeptInvStep
<1>3. KeptInv => SourcesWhileNeeded
  BY DEF KeptInv
<1> QED
  BY <1>1, <1>2, <1>3, AllInvHolds, PTL DEF EditSpec
=============================================================================
