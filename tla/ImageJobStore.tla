--------------------------- MODULE ImageJobStore ---------------------------
(***************************************************************************)
(* The SQLite tables behind the image job queue and the transactions that  *)
(* change them (backend/app/repositories/image_jobs.py).  One table holds  *)
(* the parent jobs, one their image units, one the bytes that queued edit  *)
(* jobs have reserved.  Every action below is one write transaction, so it *)
(* is atomic; who calls it, in which order and with how old a claim token  *)
(* is left open, which makes this the most general client of the store.    *)
(*                                                                         *)
(* Claim tokens.  Each claim draws a fresh uuid4.  The k-th claim of a     *)
(* unit is written k here: with the unit's id it is as unique as the uuid. *)
(* 0 stands for the NULL of an unclaimed row.                              *)
(*                                                                         *)
(* Time.  A row keeps claim_expires_at; the only thing any statement does  *)
(* with it is to compare it with the current time.  "live" is the outcome  *)
(* of that comparison, and Lapse is the moment it turns false.  The order  *)
(* of candidates by expiry, creation and unit index is left open.          *)
(***************************************************************************)
EXTENDS Integers, FiniteSets, Functions, FiniteSetsExt

CONSTANTS
    Jobs,            \* job ids
    Units,           \* unit ids
    ParentOf,        \* the job each unit belongs to
    EditBytes,       \* bytes of the edit sources of a job, 0 for a generation
    MaxActive,       \* config.MAX_ACTIVE_GENERATE_JOBS
    MaxQueued,       \* config.MAX_QUEUED_GENERATE_JOBS
    MaxEditBytes,    \* limit on reserved edit-source bytes, 0 for no limit
    MaxAttempts,     \* config.IMAGE_JOB_UNIT_MAX_ATTEMPTS
    MaxRecoveries    \* IMAGE_JOB_UNIT_MAX_RECOVERIES

ASSUME JobsAssumption == IsFiniteSet(Jobs)
ASSUME UnitsAssumption == IsFiniteSet(Units)
ASSUME ParentAssumption == ParentOf \in [Units -> Jobs]
ASSUME BytesAssumption == EditBytes \in [Jobs -> Nat] /\ MaxEditBytes \in Nat
ASSUME LimitsAssumption == MaxActive \in Nat /\ MaxQueued \in Nat
ASSUME BoundsAssumption == MaxAttempts \in Nat \ {0} /\ MaxRecoveries \in Nat \ {0}

VARIABLES
    job,        \* status of each row of generate_jobs
    unit,       \* the rows of image_job_units
    reserved    \* byte_count of each row of edit_source_reservations

storeVars == <<job, unit, reserved>>

-----------------------------------------------------------------------------
(* Statuses and rows.                                                       *)

JobActive == {"queued", "running"}
JobTerminal == {"success", "partial_failure", "error", "upstream_error", "cancelled"}

\* "none": the id was never enqueued; "deleted": its row was removed.
JobStatus == JobActive \cup JobTerminal \cup {"none", "deleted"}

UnitActive == {"queued", "running"}
UnitFailed == {"error", "upstream_error"}
UnitTerminal == UnitFailed \cup {"success", "cancelled", "interrupted"}

UnitRow == [st : UnitActive \cup UnitTerminal \cup {"none"}, token : Nat,
            attempts : Nat, recoveries : Nat, ckpt : BOOLEAN, live : BOOLEAN]

NoRow == [st |-> "none", token |-> 0, attempts |-> 0, recoveries |-> 0,
          ckpt |-> FALSE, live |-> FALSE]

NewRow == [NoRow EXCEPT !.st = "queued"]

\* A terminal write clears the claim and keeps the counters.
Ended(row, st) == [row EXCEPT !.st = st, !.token = 0, !.live = FALSE]

UnitsOf(j) == {u \in Units : ParentOf[u] = j}
ActiveUnits == {u \in Units : unit[u].st \in UnitActive}
Queued == {u \in Units : unit[u].st = "queued"}
Running == {u \in Units : unit[u].st = "running"}
Unexpired == {u \in Running : unit[u].live}
Lapsed == {u \in Running : ~unit[u].live}

AtLeast(lo, n) == IF n < lo THEN lo ELSE n

\* Units the queue may hold, counted queued or running, expired leases included.
Capacity == AtLeast(1, MaxActive) + MaxQueued
RunningLimit == AtLeast(1, MaxActive)

\* Mutant: one ended unit is enough.
M_AllTerminal_Any(j) == \E u \in UnitsOf(j) : unit[u].st \in UnitTerminal

AllTerminal(j) == /\ UnitsOf(j) # {}
                  /\ \A u \in UnitsOf(j) : unit[u].st \in UnitTerminal

\* The terminal status of a parent whose units all ended.
Verdict(j) ==
    LET ended == {unit[u].st : u \in UnitsOf(j)} IN
    IF "success" \in ended
    THEN IF ended \cap UnitFailed # {} THEN "partial_failure" ELSE "success"
    ELSE IF ended = {"cancelled"} THEN "cancelled"
    ELSE IF ended \cap UnitFailed = {"upstream_error"} THEN "upstream_error"
    ELSE "error"

-----------------------------------------------------------------------------
(* Admission.                                                               *)

Init == /\ job = [j \in Jobs |-> "none"]
        /\ unit = [u \in Units |-> NoRow]
        /\ reserved = [j \in Jobs |-> 0]

\* Parent row, reservation and unit rows are one transaction; a full queue or
\* a full reservation table raises before anything is written.
Enqueue(j) ==
    /\ job[j] = "none"
    /\ UnitsOf(j) # {}
    /\ Cardinality(ActiveUnits) + Cardinality(UnitsOf(j)) =< Capacity
    /\ EditBytes[j] > 0 /\ MaxEditBytes > 0
          => SumFunction(reserved) + EditBytes[j] =< MaxEditBytes
    /\ job' = [job EXCEPT ![j] = "queued"]
    /\ reserved' = [reserved EXCEPT ![j] = EditBytes[j]]
    /\ unit' = [u \in Units |-> IF ParentOf[u] = j THEN NewRow ELSE unit[u]]

-----------------------------------------------------------------------------
(* Claims and the writes fenced by a claim token.                           *)

\* The time passes claim_expires_at.
Lapse(u) == /\ u \in Unexpired
            /\ unit' = [unit EXCEPT ![u].live = FALSE]
            /\ UNCHANGED <<job, reserved>>

HasBudget(row) == \/ row.attempts < MaxAttempts
                  \/ row.ckpt /\ row.recoveries < MaxRecoveries

Reclaimable == {u \in Lapsed : HasBudget(unit[u])}

\* An expired candidate goes before a queued one.
Candidates == IF Reclaimable # {} THEN Reclaimable ELSE Queued

\* Mutant: the precheck counts expired leases against the limit.
M_HasClaimable_CountsLapsed ==
    Reclaimable \cup Queued # {} /\ Cardinality(Running) < RunningLimit

\* has_claimable_image_job_unit, the read-only precheck of the claim loop.
HasClaimable == Reclaimable \cup Queued # {} /\ Cardinality(Unexpired) < RunningLimit

\* The row after a claim: a fresh token and lease, one more attempt, and one
\* more recovery if it was taken over from an owner that stopped renewing.
Claimed(row) ==
    [row EXCEPT !.st = "running",
                !.live = TRUE,
                !.token = row.attempts + 1,
                !.attempts = row.attempts + 1,
                !.recoveries = IF row.st = "running" THEN row.recoveries + 1
                                                     ELSE row.recoveries]

Claim(u) ==
    /\ u \in Candidates
    /\ Cardinality(Unexpired) < RunningLimit
    /\ unit' = [unit EXCEPT ![u] = Claimed(@)]
    /\ UNCHANGED <<job, reserved>>

\* WHERE unit_id = ? AND status = 'running' AND claim_token = ?
Holds(u, t) == unit[u].st = "running" /\ unit[u].token = t

\* Renewal and progress both move claim_expires_at forward; neither asks
\* whether the old one had already passed.
Renew(u, t) == /\ Holds(u, t)
               /\ unit' = [unit EXCEPT ![u].live = TRUE]
               /\ UNCHANGED <<job, reserved>>

\* The executor only ever writes a checkpoint, never clears one.
WriteRemote(u, t) == /\ Holds(u, t)
                     /\ unit' = [unit EXCEPT ![u].ckpt = TRUE]
                     /\ UNCHANGED <<job, reserved>>

Complete(u, t) == /\ Holds(u, t)
                  /\ unit' = [unit EXCEPT ![u] = Ended(@, "success")]
                  /\ UNCHANGED <<job, reserved>>

Fail(u, t, st) == /\ Holds(u, t)
                  /\ st \in UnitTerminal \ {"success"}
                  /\ unit' = [unit EXCEPT ![u] = Ended(@, st)]
                  /\ UNCHANGED <<job, reserved>>

\* Mutant: off by one in the recovery bound.
M_Exhausted_OffByOne == {u \in Lapsed : /\ unit[u].attempts >= MaxAttempts
                                        /\ \/ ~unit[u].ckpt
                                           \/ unit[u].recoveries > MaxRecoveries}

Exhausted == {u \in Lapsed : /\ unit[u].attempts >= MaxAttempts
                             /\ \/ ~unit[u].ckpt
                                \/ unit[u].recoveries >= MaxRecoveries}

ExpireExhausted ==
    /\ Exhausted # {}
    /\ unit' = [u \in Units |-> IF u \in Exhausted
                                THEN Ended(unit[u], "interrupted") ELSE unit[u]]
    /\ UNCHANGED <<job, reserved>>

-----------------------------------------------------------------------------
(* Parent rows.                                                             *)

\* The guarded upsert of an active status, computed from whatever the caller
\* read earlier: a terminal row is kept, a missing one is inserted.
UpsertActive(j, st) ==
    /\ st \in JobActive
    /\ job[j] \in JobActive \cup {"deleted"}
    /\ job' = [job EXCEPT ![j] = st]
    /\ UNCHANGED <<unit, reserved>>

\* Mutant: finalizing forgets the reservation.
M_Finalize_KeepsBytes(j) ==
    /\ job[j] \in JobActive
    /\ AllTerminal(j)
    /\ job' = [job EXCEPT ![j] = Verdict(j)]
    /\ UNCHANGED <<unit, reserved>>

\* Derived and written in one transaction, so never from an old read.
Finalize(j) ==
    /\ job[j] \in JobActive
    /\ AllTerminal(j)
    /\ job' = [job EXCEPT ![j] = Verdict(j)]
    /\ reserved' = [reserved EXCEPT ![j] = 0]
    /\ UNCHANGED unit

CancelTx(j) ==
    /\ job[j] \in JobActive
    /\ unit' = [u \in Units |-> IF ParentOf[u] = j /\ unit[u].st \in UnitActive
                                THEN Ended(unit[u], "cancelled") ELSE unit[u]]
    /\ job' = [job EXCEPT ![j] = "cancelled"]
    /\ reserved' = [reserved EXCEPT ![j] = 0]

TerminalJobs == {j \in Jobs : job[j] \in JobTerminal}

DeleteJobs(S) ==
    /\ job' = [j \in Jobs |-> IF j \in S THEN "deleted" ELSE job[j]]
    /\ unit' = [u \in Units |-> IF ParentOf[u] \in S THEN NoRow ELSE unit[u]]
    /\ reserved' = [j \in Jobs |-> IF j \in S THEN 0 ELSE reserved[j]]

ClearHistory == TerminalJobs # {} /\ DeleteJobs(TerminalJobs)

\* How many rows are too many is read before the transaction starts, so any
\* number of terminal rows may go.
Trim == \E S \in SUBSET TerminalJobs : S # {} /\ DeleteJobs(S)

\* Called once more by the cancel route and by the edit-source cleanup.
ReleaseReservation(j) ==
    /\ job[j] \in JobTerminal
    /\ reserved' = [reserved EXCEPT ![j] = 0]
    /\ UNCHANGED <<job, unit>>

-----------------------------------------------------------------------------
\* Tokens any caller may still hold.
Tokens == 1 .. AtLeast(MaxAttempts, MaxRecoveries + 1)

\* A write under the token of some claim of u, current or superseded.
FencedWrite(u, t) == \/ Renew(u, t)
                     \/ WriteRemote(u, t)
                     \/ Complete(u, t)
                     \/ \E st \in UnitTerminal \ {"success"} : Fail(u, t, st)

JobStep(j) == \/ Enqueue(j)
              \/ \E st \in JobActive : UpsertActive(j, st)
              \/ Finalize(j)
              \/ CancelTx(j)
              \/ ReleaseReservation(j)

Next == \/ \E j \in Jobs : JobStep(j)
        \/ \E u \in Units : Lapse(u) \/ Claim(u)
        \/ \E u \in Units, t \in Tokens : FencedWrite(u, t)
        \/ ExpireExhausted
        \/ ClearHistory
        \/ Trim

Spec == Init /\ [][Next]_storeVars

-----------------------------------------------------------------------------
(* Properties.                                                              *)

\* Every column holds a value its type allows.
TypeOK == /\ job \in [Jobs -> JobStatus]
          /\ unit \in [Units -> UnitRow]
          /\ reserved \in [Jobs -> Nat]

\* The claim columns of a row agree with each other: a token is there exactly
\* while the unit runs, it is the newest one drawn, and every claim but the
\* first one counted as a recovery.  The attempt and recovery bounds of claim
\* and expiry (claim_next_image_job_unit) rest on this.
ClaimBookkeeping ==
    \A u \in Units :
        /\ unit[u].st = "running" => /\ unit[u].token = unit[u].attempts
                                     /\ unit[u].attempts = unit[u].recoveries + 1
        /\ unit[u].st # "running" => unit[u].token = 0 /\ ~unit[u].live
        /\ unit[u].st \in {"none", "queued"} => unit[u] \in {NoRow, NewRow}

\* However claims, crashes and checkpoints interleave, a unit that never got
\* a checkpoint is not started more than MaxAttempts times, and no unit is
\* taken over more often than the larger of the two bounds allows.
AttemptsBounded ==
    \A u \in Units :
        /\ ~unit[u].ckpt => unit[u].attempts =< MaxAttempts
        /\ unit[u].recoveries =< AtLeast(MaxAttempts - 1, MaxRecoveries)

\* No unit falls between the claim predicate and the exhaustion predicate,
\* which are two SQL statements in two functions: a unit whose owner is gone
\* can always be taken over or ended, and never both.
LapsedHasOneWayOut ==
    \A u \in Lapsed : u \in Exhausted <=> u \notin Reclaimable

\* A unit that can still run belongs to a parent row that is still active, and
\* no unit row outlives its parent row: cancelling, finalizing, clearing and
\* trimming never strand a unit (cancel_generate_job_tx, trim_generate_jobs).
UnitsHaveLiveParent ==
    \A u \in Units :
        /\ unit[u].st \in UnitActive => job[ParentOf[u]] \in JobActive
        /\ unit[u].st # "none" => job[ParentOf[u]] \notin {"none", "deleted"}

\* The units queued and running never exceed the admission capacity, whatever
\* happens between two admissions (enqueue_image_job).
CapacityRespected == Cardinality(ActiveUnits) =< Capacity

\* Reserved edit-source bytes follow the job exactly: a job with a unit still
\* to run holds all of its bytes, and a job that ended holds none.
ReservationFollowsJob ==
    /\ \A u \in ActiveUnits : reserved[ParentOf[u]] = EditBytes[ParentOf[u]]
    /\ \A j \in Jobs : reserved[j] > 0 => job[j] \in JobActive

\* The result of a unit is written once: a step may delete a terminal row with
\* its parent, never change it (the fences of complete, fail and cancel).
TerminalUnitsFrozen ==
    [][\A u \in Units : unit[u].st \in UnitTerminal
          => unit'[u] = unit[u] \/ job'[ParentOf[u]] = "deleted"]_storeVars

\* A stored terminal parent status is never overwritten, not even by an upsert
\* computed from an older read (defect D3 of the code's comments).
TerminalParentsFrozen ==
    [][\A j \in Jobs : job[j] \in JobTerminal
          => job'[j] \in {job[j], "deleted"}]_storeVars

\* The store as its users see it.
Contract == INSTANCE ImageJobContract WITH
    outcome <- [j \in Jobs |-> IF job[j] \in JobActive THEN "open" ELSE job[j]],
    answer <- [u \in Units |-> IF unit[u].st \in UnitActive THEN "open" ELSE unit[u].st]

\* Every transaction, of whatever caller, is a step the contract allows or
\* invisible to it: answers and outcomes are given once, a cancellation keeps
\* the answers already there, a verdict follows from a full set of answers.
KeepsContract == Contract!ContractSpec

=============================================================================
