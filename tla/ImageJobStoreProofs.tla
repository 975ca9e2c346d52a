------------------------- MODULE ImageJobStoreProofs -------------------------
(***************************************************************************)
(* Invariants of ImageJobStore, for every set of jobs and units and every  *)
(* value of the limits.                                                    *)
(***************************************************************************)
EXTENDS ImageJobStore, FiniteSetTheorems, TLAPS

-----------------------------------------------------------------------------
(* Rows and limits.                                                         *)

\* The constants as plain numbers, for the arithmetic below.
LEMMA Limits ==
    /\ MaxAttempts \in Nat /\ MaxAttempts > 0
    /\ MaxRecoveries \in Nat /\ MaxRecoveries > 0
    /\ Capacity \in Nat /\ RunningLimit \in Nat
    /\ \A j \in Jobs : EditBytes[j] \in Nat
BY LimitsAssumption, BoundsAssumption, BytesAssumption
   DEF Capacity, RunningLimit, AtLeast

\* The row constants, a claim and a terminal write stay inside the row type.
LEMMA RowTypes ==
    /\ NoRow \in UnitRow
    /\ NewRow \in UnitRow
    /\ \A row \in UnitRow, st \in UnitTerminal : Ended(row, st) \in UnitRow
    /\ \A row \in UnitRow : Claimed(row) \in UnitRow
<1>1. NoRow \in UnitRow
  BY DEF NoRow, UnitRow
<1>2. NewRow \in UnitRow
  BY DEF NewRow, NoRow, UnitRow, UnitActive
<1>3. \A row \in UnitRow, st \in UnitTerminal : Ended(row, st) \in UnitRow
  BY DEF Ended, UnitRow
<1>4. \A row \in UnitRow : Claimed(row) \in UnitRow
  <2> TAKE row \in UnitRow
  <2>1. row.attempts + 1 \in Nat /\ row.recoveries + 1 \in Nat /\ row.recoveries \in Nat
    BY DEF UnitRow
  <2>2. (IF row.st = "running" THEN row.recoveries + 1 ELSE row.recoveries) \in Nat
    BY <2>1
  <2> QED
    BY <2>1, <2>2 DEF Claimed, UnitRow, UnitActive
<1> QED
  BY <1>1, <1>2, <1>3, <1>4

\* A verdict is a terminal job status.
LEMMA VerdictType == \A j \in Jobs : Verdict(j) \in JobTerminal
BY DEF Verdict, JobTerminal

-----------------------------------------------------------------------------
(* Types.                                                                   *)

LEMMA TypeStep == TypeOK /\ [Next]_storeVars => TypeOK'
<1> SUFFICES ASSUME TypeOK, [Next]_storeVars PROVE TypeOK'
  OBVIOUS
<1> USE DEF TypeOK
<1>1. ASSUME NEW j \in Jobs, Enqueue(j) PROVE TypeOK'
  BY <1>1, RowTypes, Limits DEF Enqueue, JobStatus, JobActive
<1>2. ASSUME NEW j \in Jobs, NEW st \in JobActive, UpsertActive(j, st) PROVE TypeOK'
  BY <1>2 DEF UpsertActive, JobStatus
<1>3. ASSUME NEW j \in Jobs, Finalize(j) PROVE TypeOK'
  BY <1>3, VerdictType DEF Finalize, JobStatus
<1>4. ASSUME NEW j \in Jobs, CancelTx(j) PROVE TypeOK'
  BY <1>4, RowTypes DEF CancelTx, JobStatus, JobTerminal, UnitTerminal
<1>5. ASSUME NEW j \in Jobs, ReleaseReservation(j) PROVE TypeOK'
  BY <1>5 DEF ReleaseReservation
<1>6. ASSUME NEW u \in Units, Lapse(u) PROVE TypeOK'
  BY <1>6 DEF Lapse, UnitRow
<1>7. ASSUME NEW u \in Units, Claim(u) PROVE TypeOK'
  BY <1>7, RowTypes DEF Claim
<1>8. ASSUME NEW u \in Units, NEW t \in Tokens, FencedWrite(u, t) PROVE TypeOK'
  <2>1. CASE Renew(u, t)
    BY <2>1 DEF Renew, UnitRow
  <2>2. CASE WriteRemote(u, t)
    BY <2>2 DEF WriteRemote, UnitRow
  <2>3. CASE Complete(u, t)
    BY <2>3, RowTypes DEF Complete, UnitTerminal
  <2>4. ASSUME NEW st \in UnitTerminal \ {"success"}, Fail(u, t, st) PROVE TypeOK'
    BY <2>4, RowTypes DEF Fail
  <2> QED
    BY <1>8, <2>1, <2>2, <2>3, <2>4 DEF FencedWrite
<1>9. CASE ExpireExhausted
  BY <1>9, RowTypes DEF ExpireExhausted, UnitTerminal
<1>10. ASSUME NEW S, DeleteJobs(S) PROVE TypeOK'
  BY <1>10, RowTypes DEF DeleteJobs, JobStatus
<1>11. CASE ClearHistory
  BY <1>10, <1>11 DEF ClearHistory
<1>12. CASE Trim
  BY <1>10, <1>12 DEF Trim
<1>13. CASE UNCHANGED storeVars
  BY <1>13 DEF storeVars
<1> QED
  BY <1>1, <1>2, <1>3, <1>4, <1>5, <1>6, <1>7, <1>8, <1>9, <1>11, <1>12, <1>13
     DEF Next, JobStep

\* Every reachable row has its type.
THEOREM TypeCorrect == Spec => []TypeOK
<1>1. Init => TypeOK
  BY RowTypes DEF Init, TypeOK, JobStatus
<1> QED
  BY <1>1, TypeStep, PTL DEF Spec

-----------------------------------------------------------------------------
(* What one step can do to a unit and to a parent.                          *)

\* A unit row is kept, created, deleted, claimed, renewed, checkpointed or
\* ended, each under the condition of the transaction that does it.
LEMMA RowStep ==
    ASSUME TypeOK, [Next]_storeVars, NEW u \in Units
    PROVE  \/ unit'[u] = unit[u]
           \/ /\ unit'[u] = NewRow
              /\ job[ParentOf[u]] = "none" /\ job'[ParentOf[u]] = "queued"
           \/ /\ unit'[u] = NoRow
              /\ job[ParentOf[u]] \in JobTerminal /\ job'[ParentOf[u]] = "deleted"
           \/ u \in Candidates /\ unit'[u] = Claimed(unit[u])
           \/ /\ unit[u].st = "running"
              /\ \/ \E b \in BOOLEAN : unit'[u] = [unit[u] EXCEPT !.live = b]
                 \/ unit'[u] = [unit[u] EXCEPT !.ckpt = TRUE]
           \/ /\ unit[u].st \in UnitActive
              /\ \E st \in UnitTerminal : unit'[u] = Ended(unit[u], st)
<1> DEFINE Goal ==
      \/ unit'[u] = unit[u]
      \/ /\ unit'[u] = NewRow
         /\ job[ParentOf[u]] = "none" /\ job'[ParentOf[u]] = "queued"
      \/ /\ unit'[u] = NoRow
         /\ job[ParentOf[u]] \in JobTerminal /\ job'[ParentOf[u]] = "deleted"
      \/ u \in Candidates /\ unit'[u] = Claimed(unit[u])
      \/ /\ unit[u].st = "running"
         /\ \/ \E b \in BOOLEAN : unit'[u] = [unit[u] EXCEPT !.live = b]
            \/ unit'[u] = [unit[u] EXCEPT !.ckpt = TRUE]
      \/ /\ unit[u].st \in UnitActive
         /\ \E st \in UnitTerminal : unit'[u] = Ended(unit[u], st)
<1> SUFFICES Goal
  OBVIOUS
<1> USE DEF TypeOK
<1>p. ParentOf[u] \in Jobs
  BY ParentAssumption
<1>1. ASSUME NEW j \in Jobs, Enqueue(j) PROVE Goal
  BY <1>1, <1>p DEF Enqueue
<1>2. ASSUME NEW j \in Jobs, NEW st \in JobActive, UpsertActive(j, st) PROVE Goal
  BY <1>2 DEF UpsertActive
<1>3. ASSUME NEW j \in Jobs, Finalize(j) PROVE Goal
  BY <1>3 DEF Finalize
<1>4. ASSUME NEW j \in Jobs, CancelTx(j) PROVE Goal
  BY <1>4 DEF CancelTx, UnitTerminal
<1>5. ASSUME NEW j \in Jobs, ReleaseReservation(j) PROVE Goal
  BY <1>5 DEF ReleaseReservation
<1>6. ASSUME NEW v \in Units, Lapse(v) PROVE Goal
  BY <1>6 DEF Lapse, Unexpired, Running
<1>7. ASSUME NEW v \in Units, Claim(v) PROVE Goal
  BY <1>7 DEF Claim
<1>8. ASSUME NEW v \in Units, NEW t \in Tokens, FencedWrite(v, t) PROVE Goal
  <2>1. CASE Renew(v, t)
    BY <2>1 DEF Renew, Holds
  <2>2. CASE WriteRemote(v, t)
    BY <2>2 DEF WriteRemote, Holds
  <2>3. CASE Complete(v, t)
    BY <2>3 DEF Complete, Holds, UnitTerminal, UnitActive
  <2>4. ASSUME NEW st \in UnitTerminal \ {"success"}, Fail(v, t, st) PROVE Goal
    BY <2>4 DEF Fail, Holds, UnitActive
  <2> QED
    BY <1>8, <2>1, <2>2, <2>3, <2>4 DEF FencedWrite
<1>9. CASE ExpireExhausted
  BY <1>9 DEF ExpireExhausted, Exhausted, Lapsed, Running, UnitTerminal, UnitActive
<1>10. ASSUME NEW S \in SUBSET TerminalJobs, DeleteJobs(S) PROVE Goal
  BY <1>10, <1>p DEF DeleteJobs, TerminalJobs
<1>11. CASE ClearHistory
  BY <1>10, <1>11 DEF ClearHistory
<1>12. CASE Trim
  BY <1>10, <1>12 DEF Trim
<1>13. CASE UNCHANGED storeVars
  BY <1>13 DEF storeVars
<1> HIDE DEF Goal
<1> QED
  BY <1>1, <1>2, <1>3, <1>4, <1>5, <1>6, <1>7, <1>8, <1>9, <1>11, <1>12, <1>13
     DEF Next, JobStep

\* A parent row is kept, inserted, revived by a stale upsert, ended with all of
\* its units ended and its bytes released, or deleted with all it owns.
LEMMA ParentStep ==
    ASSUME TypeOK, [Next]_storeVars, NEW j \in Jobs
    PROVE  \/ /\ job'[j] = job[j]
              /\ reserved'[j] # reserved[j] => job[j] \in JobTerminal /\ reserved'[j] = 0
           \/ /\ job[j] = "none" /\ job'[j] = "queued"
              /\ reserved'[j] = EditBytes[j]
           \/ /\ job[j] \in JobActive \cup {"deleted"} /\ job'[j] \in JobActive
              /\ reserved'[j] = reserved[j]
           \/ /\ job[j] \in JobActive /\ job'[j] \in JobTerminal
              /\ reserved'[j] = 0
              /\ \A u \in UnitsOf(j) : unit'[u].st \in UnitTerminal \cup {"none"}
           \/ /\ job[j] \in JobTerminal /\ job'[j] = "deleted"
              /\ reserved'[j] = 0
              /\ \A u \in UnitsOf(j) : unit'[u] = NoRow
<1> DEFINE Goal ==
      \/ /\ job'[j] = job[j]
         /\ reserved'[j] # reserved[j] => job[j] \in JobTerminal /\ reserved'[j] = 0
      \/ /\ job[j] = "none" /\ job'[j] = "queued"
         /\ reserved'[j] = EditBytes[j]
      \/ /\ job[j] \in JobActive \cup {"deleted"} /\ job'[j] \in JobActive
         /\ reserved'[j] = reserved[j]
      \/ /\ job[j] \in JobActive /\ job'[j] \in JobTerminal
         /\ reserved'[j] = 0
         /\ \A u \in UnitsOf(j) : unit'[u].st \in UnitTerminal \cup {"none"}
      \/ /\ job[j] \in JobTerminal /\ job'[j] = "deleted"
         /\ reserved'[j] = 0
         /\ \A u \in UnitsOf(j) : unit'[u] = NoRow
<1> SUFFICES Goal
  OBVIOUS
<1> USE DEF TypeOK
<1>1. ASSUME NEW i \in Jobs, Enqueue(i) PROVE Goal
  BY <1>1 DEF Enqueue
<1>2. ASSUME NEW i \in Jobs, NEW st \in JobActive, UpsertActive(i, st) PROVE Goal
  BY <1>2 DEF UpsertActive
<1>3. ASSUME NEW i \in Jobs, Finalize(i) PROVE Goal
  BY <1>3, VerdictType DEF Finalize, AllTerminal
<1>4. ASSUME NEW i \in Jobs, CancelTx(i) PROVE Goal
  <2>1. CASE i = j
    <3>1. \A u \in UnitsOf(j) : unit'[u].st \in UnitTerminal \cup {"none"}
      BY <1>4, <2>1
         DEF CancelTx, UnitsOf, UnitRow, Ended, UnitActive, UnitTerminal
    <3> QED
      BY <1>4, <2>1, <3>1 DEF CancelTx, JobTerminal
  <2>2. CASE i # j
    BY <1>4, <2>2 DEF CancelTx
  <2> QED
    BY <2>1, <2>2
<1>5. ASSUME NEW i \in Jobs, ReleaseReservation(i) PROVE Goal
  BY <1>5 DEF ReleaseReservation
<1>6. ASSUME NEW u \in Units, Lapse(u) \/ Claim(u) PROVE Goal
  BY <1>6 DEF Lapse, Claim
<1>7. ASSUME NEW u \in Units, NEW t \in Tokens, FencedWrite(u, t) PROVE Goal
  BY <1>7 DEF FencedWrite, Renew, WriteRemote, Complete, Fail
<1>8. CASE ExpireExhausted
  BY <1>8 DEF ExpireExhausted
<1>9. ASSUME NEW S \in SUBSET TerminalJobs, DeleteJobs(S) PROVE Goal
  BY <1>9 DEF DeleteJobs, TerminalJobs, UnitsOf
<1>10. CASE ClearHistory
  BY <1>9, <1>10 DEF ClearHistory
<1>11. CASE Trim
  BY <1>9, <1>11 DEF Trim
<1>12. CASE UNCHANGED storeVars
  BY <1>12 DEF storeVars
<1> HIDE DEF Goal
<1> QED
  BY <1>1, <1>2, <1>3, <1>4, <1>5, <1>6, <1>7, <1>8, <1>10, <1>11, <1>12
     DEF Next, JobStep

\* Nothing but an admission gives a job its first row.
LEMMA OnlyEnqueueCreates ==
    ASSUME TypeOK, [Next]_storeVars, NEW j \in Jobs, job[j] = "none", job'[j] # "none"
    PROVE  Enqueue(j)
<1> USE DEF TypeOK
<1>1. ASSUME NEW i \in Jobs, NEW st \in JobActive, UpsertActive(i, st) PROVE FALSE
  BY <1>1 DEF UpsertActive, JobActive
<1>2. ASSUME NEW i \in Jobs, Finalize(i) \/ CancelTx(i) \/ ReleaseReservation(i)
      PROVE  FALSE
  BY <1>2 DEF Finalize, CancelTx, ReleaseReservation, JobActive
<1>3. ASSUME NEW u \in Units, Lapse(u) \/ Claim(u) PROVE FALSE
  BY <1>3 DEF Lapse, Claim
<1>4. ASSUME NEW u \in Units, NEW t \in Tokens, FencedWrite(u, t) PROVE FALSE
  BY <1>4 DEF FencedWrite, Renew, WriteRemote, Complete, Fail
<1>5. ASSUME NEW S \in SUBSET TerminalJobs, DeleteJobs(S) PROVE FALSE
  BY <1>5 DEF DeleteJobs, TerminalJobs, JobTerminal
<1>6. ASSUME NEW i \in Jobs, Enqueue(i) PROVE i = j
  BY <1>6 DEF Enqueue
<1>7. ~ExpireExhausted /\ ~UNCHANGED storeVars
  BY DEF ExpireExhausted, storeVars
<1> QED
  BY <1>1, <1>2, <1>3, <1>4, <1>5, <1>6, <1>7 DEF Next, JobStep, ClearHistory, Trim

-----------------------------------------------------------------------------
(* The inductive invariant.  Its parts need each other: the attempt bounds  *)
(* rest on the claim columns, and a released reservation is safe because a  *)
(* terminal parent has no unit left to run.                                 *)

StoreInv == /\ TypeOK
            /\ ClaimBookkeeping
            /\ AttemptsBounded
            /\ UnitsHaveLiveParent
            /\ ReservationFollowsJob

LEMMA StoreInvInit == Init => StoreInv
BY ParentAssumption, Limits, RowTypes
   DEF Init, StoreInv, TypeOK, JobStatus, ClaimBookkeeping, AttemptsBounded,
       UnitsHaveLiveParent, ReservationFollowsJob, ActiveUnits, UnitActive,
       NoRow, NewRow, AtLeast

\* What a claim may start from.
LEMMA CandidateRows ==
    ASSUME TypeOK, ClaimBookkeeping, NEW u \in Candidates
    PROVE  /\ u \in Units
           /\ \/ unit[u] = NewRow
              \/ /\ unit[u].st = "running" /\ HasBudget(unit[u])
                 /\ unit[u].attempts = unit[u].recoveries + 1
BY DEF Candidates, Reclaimable, Lapsed, Running, Queued, ClaimBookkeeping, NoRow, NewRow

LEMMA BookkeepingStep ==
    ASSUME StoreInv, [Next]_storeVars PROVE ClaimBookkeeping'
<1> SUFFICES ASSUME NEW u \in Units
             PROVE  /\ unit'[u].st = "running"
                          => /\ unit'[u].token = unit'[u].attempts
                             /\ unit'[u].attempts = unit'[u].recoveries + 1
                    /\ unit'[u].st # "running" => unit'[u].token = 0 /\ ~unit'[u].live
                    /\ unit'[u].st \in {"none", "queued"} => unit'[u] \in {NoRow, NewRow}
  BY DEF ClaimBookkeeping
<1> USE DEF StoreInv
<1>t. unit[u] \in UnitRow
  BY DEF TypeOK
<1>1. CASE unit'[u] = unit[u] \/ unit'[u] \in {NoRow, NewRow}
  BY <1>1 DEF ClaimBookkeeping, NoRow, NewRow
<1>2. CASE u \in Candidates /\ unit'[u] = Claimed(unit[u])
  BY <1>2, <1>t, CandidateRows DEF Claimed, NewRow, NoRow, UnitRow
<1>3. CASE /\ unit[u].st = "running"
           /\ \/ \E b \in BOOLEAN : unit'[u] = [unit[u] EXCEPT !.live = b]
              \/ unit'[u] = [unit[u] EXCEPT !.ckpt = TRUE]
  BY <1>3, <1>t DEF ClaimBookkeeping, UnitRow
<1>4. CASE \E st \in UnitTerminal : unit'[u] = Ended(unit[u], st)
  BY <1>4, <1>t DEF Ended, UnitRow, UnitTerminal, UnitFailed
<1> QED
  BY RowStep, <1>1, <1>2, <1>3, <1>4

LEMMA AttemptsStep ==
    ASSUME StoreInv, [Next]_storeVars PROVE AttemptsBounded'
<1> SUFFICES ASSUME NEW u \in Units
             PROVE  /\ ~unit'[u].ckpt => unit'[u].attempts =< MaxAttempts
                    /\ unit'[u].recoveries =< AtLeast(MaxAttempts - 1, MaxRecoveries)
  BY DEF AttemptsBounded
<1> USE DEF StoreInv
<1>t. unit[u] \in UnitRow
  BY DEF TypeOK
<1>1. CASE unit'[u] = unit[u]
  BY <1>1 DEF AttemptsBounded
<1>2. CASE unit'[u] \in {NoRow, NewRow}
  BY <1>2, Limits DEF NoRow, NewRow, AtLeast
<1>3. CASE u \in Candidates /\ unit'[u] = Claimed(unit[u])
  <2>1. CASE unit[u] = NewRow
    BY <1>3, <2>1, Limits DEF Claimed, NewRow, NoRow, AtLeast
  <2>2. CASE /\ unit[u].st = "running" /\ HasBudget(unit[u])
             /\ unit[u].attempts = unit[u].recoveries + 1
    BY <1>3, <1>t, <2>2, Limits DEF Claimed, HasBudget, UnitRow, AtLeast
  <2> QED
    BY <1>3, <2>1, <2>2, CandidateRows
<1>4. CASE \/ \E b \in BOOLEAN : unit'[u] = [unit[u] EXCEPT !.live = b]
           \/ unit'[u] = [unit[u] EXCEPT !.ckpt = TRUE]
           \/ \E st \in UnitTerminal : unit'[u] = Ended(unit[u], st)
  BY <1>4, <1>t DEF AttemptsBounded, Ended, UnitRow
<1> QED
  BY RowStep, <1>1, <1>2, <1>3, <1>4

LEMMA LiveParentStep ==
    ASSUME StoreInv, [Next]_storeVars PROVE UnitsHaveLiveParent'
<1> SUFFICES ASSUME NEW u \in Units
             PROVE  /\ unit'[u].st \in UnitActive => job'[ParentOf[u]] \in JobActive
                    /\ unit'[u].st # "none" => job'[ParentOf[u]] \notin {"none", "deleted"}
  BY DEF UnitsHaveLiveParent
<1> USE DEF StoreInv
<1>p. ParentOf[u] \in Jobs /\ u \in UnitsOf(ParentOf[u])
  BY ParentAssumption DEF UnitsOf
<1>t. unit[u] \in UnitRow
  BY DEF TypeOK
<1>1. CASE unit'[u] = NewRow /\ job'[ParentOf[u]] = "queued"
  BY <1>1 DEF NewRow, NoRow, JobActive
<1>2. CASE unit'[u] = NoRow
  BY <1>2 DEF NoRow, UnitActive
<1>3. CASE /\ unit'[u].st \in UnitActive => unit[u].st \in UnitActive
           /\ unit'[u].st # "none" => unit[u].st # "none"
  <2>1. /\ unit'[u].st \in UnitActive => job[ParentOf[u]] \in JobActive
        /\ unit'[u].st # "none" => job[ParentOf[u]] \notin {"none", "deleted"}
    BY <1>3 DEF UnitsHaveLiveParent
  <2> QED
    BY <1>p, <2>1, ParentStep
       DEF JobActive, JobTerminal, UnitActive, UnitTerminal, UnitFailed, NoRow
<1>4. \/ unit'[u] = NewRow /\ job'[ParentOf[u]] = "queued"
      \/ unit'[u] = NoRow
      \/ /\ unit'[u].st \in UnitActive => unit[u].st \in UnitActive
         /\ unit'[u].st # "none" => unit[u].st # "none"
  <2>1. CASE u \in Candidates /\ unit'[u] = Claimed(unit[u])
    BY <2>1, <1>t, CandidateRows DEF Claimed, NewRow, NoRow, UnitRow, UnitActive
  <2>2. CASE /\ unit[u].st = "running"
             /\ \/ \E b \in BOOLEAN : unit'[u] = [unit[u] EXCEPT !.live = b]
                \/ unit'[u] = [unit[u] EXCEPT !.ckpt = TRUE]
    BY <2>2, <1>t DEF UnitRow, UnitActive
  <2>3. CASE /\ unit[u].st \in UnitActive
             /\ \E st \in UnitTerminal : unit'[u] = Ended(unit[u], st)
    BY <2>3, <1>t DEF Ended, UnitRow, UnitActive
  <2> QED
    BY RowStep, <2>1, <2>2, <2>3
<1> QED
  BY <1>1, <1>2, <1>3, <1>4

LEMMA ReservationStep ==
    ASSUME StoreInv, [Next]_storeVars PROVE ReservationFollowsJob'
<1> USE DEF StoreInv
<1>1. ASSUME NEW u \in Units, unit'[u].st \in UnitActive
      PROVE  reserved'[ParentOf[u]] = EditBytes[ParentOf[u]]
  <2>p. ParentOf[u] \in Jobs
    BY ParentAssumption
  <2>1. CASE job[ParentOf[u]] = "none"
    <3>1. unit[u].st = "none"
      BY <2>1 DEF UnitsHaveLiveParent, JobActive
    <3> QED
      BY <2>p, <2>1, <3>1, <1>1, RowStep, ParentStep, LiveParentStep, CandidateRows
         DEF UnitsHaveLiveParent, JobActive, JobTerminal, UnitActive, NewRow, NoRow
  <2>2. CASE job[ParentOf[u]] # "none"
    <3>1. job'[ParentOf[u]] \in JobActive
      BY <1>1, LiveParentStep DEF UnitsHaveLiveParent
    <3>2. u \in Candidates \/ unit[u].st \in UnitActive
      <4>1. unit'[u] # NoRow
        BY <1>1 DEF NoRow, UnitActive
      <4>2. unit'[u] = unit[u] => unit[u].st \in UnitActive
        BY <1>1
      <4>3. unit[u].st = "running" => unit[u].st \in UnitActive
        BY DEF UnitActive
      <4> QED
        BY <2>2, <4>1, <4>2, <4>3, RowStep
    <3>3. u \in ActiveUnits
      BY <3>2, CandidateRows DEF ActiveUnits, UnitActive, NewRow, NoRow
    <3>4. reserved[ParentOf[u]] = EditBytes[ParentOf[u]] /\ job[ParentOf[u]] \in JobActive
      BY <3>3 DEF ReservationFollowsJob, UnitsHaveLiveParent, ActiveUnits
    <3> QED
      BY <2>p, <3>1, <3>4, ParentStep DEF JobActive, JobTerminal
  <2> QED
    BY <2>1, <2>2
<1>2. ASSUME NEW j \in Jobs, reserved'[j] > 0 PROVE job'[j] \in JobActive
  BY <1>2, ParentStep DEF ReservationFollowsJob, JobActive, TypeOK
<1> QED
  BY <1>1, <1>2 DEF ReservationFollowsJob, ActiveUnits

LEMMA StoreInvStep == StoreInv /\ [Next]_storeVars => StoreInv'
BY TypeStep, BookkeepingStep, AttemptsStep, LiveParentStep, ReservationStep DEF StoreInv

\* The inductive invariant holds of every execution.
LEMMA StoreInvHolds == Spec => []StoreInv
BY StoreInvInit, StoreInvStep, PTL DEF Spec

-----------------------------------------------------------------------------
(* The safety properties.                                                   *)

\* Tokens, attempts and recoveries of a row always agree.
THEOREM BookkeepingCorrect == Spec => []ClaimBookkeeping
BY StoreInvHolds, PTL DEF StoreInv

\* No unit is started or taken over more often than its budget allows.
THEOREM AttemptsCorrect == Spec => []AttemptsBounded
BY StoreInvHolds, PTL DEF StoreInv

\* No unit that can still run lacks an active parent.
THEOREM LiveParentCorrect == Spec => []UnitsHaveLiveParent
BY StoreInvHolds, PTL DEF StoreInv

\* Reserved bytes are held exactly as long as the job may need them.
THEOREM ReservationCorrect == Spec => []ReservationFollowsJob
BY StoreInvHolds, PTL DEF StoreInv

\* A unit whose lease lapsed is reclaimable or exhausted, and never both: the
\* two SQL conditions are complements for every value of the bounds.
THEOREM OneWayOutCorrect == Spec => []LapsedHasOneWayOut
<1>1. TypeOK => LapsedHasOneWayOut
  BY Limits DEF TypeOK, LapsedHasOneWayOut, Lapsed, Running, Exhausted, Reclaimable,
                HasBudget, UnitRow
<1> QED
  BY <1>1, TypeCorrect, PTL

\* Queued and running units, lapsed ones included, fit the admission capacity.
THEOREM CapacityCorrect == Spec => []CapacityRespected
<1>1. Init => CapacityRespected
  <2> SUFFICES ASSUME Init PROVE CapacityRespected
    OBVIOUS
  <2>1. ActiveUnits = {}
    BY DEF Init, ActiveUnits, NoRow, UnitActive
  <2> QED
    BY <2>1, FS_EmptySet, Limits DEF CapacityRespected
<1>2. StoreInv /\ CapacityRespected /\ [Next]_storeVars => CapacityRespected'
  <2> SUFFICES ASSUME StoreInv, CapacityRespected, [Next]_storeVars
               PROVE  CapacityRespected'
    OBVIOUS
  <2>c. Capacity' = Capacity
    BY DEF Capacity, AtLeast
  <2>f. IsFiniteSet(ActiveUnits) /\ Cardinality(ActiveUnits) \in Nat
    BY UnitsAssumption, FS_Subset, FS_CardinalityType DEF ActiveUnits
  <2>1. CASE \E j \in Jobs : Enqueue(j)
    <3>1. PICK j \in Jobs : Enqueue(j)
      BY <2>1
    <3>2. ActiveUnits' \subseteq ActiveUnits \cup UnitsOf(j)
      BY <3>1 DEF Enqueue, ActiveUnits, UnitsOf, StoreInv, TypeOK
    <3>3. IsFiniteSet(UnitsOf(j)) /\ Cardinality(UnitsOf(j)) \in Nat
      BY UnitsAssumption, FS_Subset, FS_CardinalityType DEF UnitsOf
    <3>4. /\ IsFiniteSet(ActiveUnits \cup UnitsOf(j))
          /\ Cardinality(ActiveUnits \cup UnitsOf(j))
                =< Cardinality(ActiveUnits) + Cardinality(UnitsOf(j))
      <4>1. /\ IsFiniteSet(ActiveUnits \cup UnitsOf(j))
            /\ Cardinality(ActiveUnits \cup UnitsOf(j))
                 = Cardinality(ActiveUnits) + Cardinality(UnitsOf(j))
                     - Cardinality(ActiveUnits \cap UnitsOf(j))
        BY <2>f, <3>3, FS_Union
      <4>2. Cardinality(ActiveUnits \cap UnitsOf(j)) \in Nat
        BY <2>f, FS_Subset, FS_CardinalityType
      <4> QED
        BY <2>f, <3>3, <4>1, <4>2
    <3>5. /\ Cardinality(ActiveUnits') =< Cardinality(ActiveUnits \cup UnitsOf(j))
          /\ Cardinality(ActiveUnits') \in Nat
          /\ Cardinality(ActiveUnits \cup UnitsOf(j)) \in Nat
      BY <3>2, <3>4, FS_Subset, FS_CardinalityType
    <3>6. Cardinality(ActiveUnits) + Cardinality(UnitsOf(j)) =< Capacity
      BY <3>1 DEF Enqueue
    <3> QED
      BY <2>c, <2>f, <3>3, <3>4, <3>5, <3>6, Limits DEF CapacityRespected
  <2>2. CASE ~\E j \in Jobs : Enqueue(j)
    <3>1. ASSUME NEW u \in Units, unit'[u].st \in UnitActive PROVE unit[u].st \in UnitActive
      <4>p. ParentOf[u] \in Jobs
        BY ParentAssumption
      <4>1. unit'[u] # NoRow
        BY <3>1 DEF NoRow, UnitActive
      <4>2. u \in Candidates => unit[u].st \in UnitActive
        BY CandidateRows DEF StoreInv, UnitActive, NewRow, NoRow
      <4>3. unit[u].st = "running" => unit[u].st \in UnitActive
        BY DEF UnitActive
      <4>4. ~(job[ParentOf[u]] = "none" /\ job'[ParentOf[u]] = "queued")
        BY <2>2, <4>p, OnlyEnqueueCreates DEF StoreInv
      <4> QED
        BY <3>1, <4>1, <4>2, <4>3, <4>4, RowStep DEF StoreInv
    <3>2. ActiveUnits' \subseteq ActiveUnits
      BY <3>1 DEF ActiveUnits
    <3>3. Cardinality(ActiveUnits') =< Cardinality(ActiveUnits) /\ Cardinality(ActiveUnits') \in Nat
      BY <2>f, <3>2, FS_Subset, FS_CardinalityType
    <3> QED
      BY <2>c, <2>f, <3>3, Limits DEF CapacityRespected
  <2> QED
    BY <2>1, <2>2
<1> QED
  BY <1>1, <1>2, StoreInvHolds, PTL DEF Spec

\* A unit that has ended keeps its row until its job is deleted.
THEOREM TerminalUnitsKept == Spec => TerminalUnitsFrozen
<1>1. StoreInv /\ [Next]_storeVars
        => [\A u \in Units : unit[u].st \in UnitTerminal
              => unit'[u] = unit[u] \/ job'[ParentOf[u]] = "deleted"]_storeVars
  <2> SUFFICES ASSUME StoreInv, [Next]_storeVars,
                      NEW u \in Units, unit[u].st \in UnitTerminal
               PROVE  unit'[u] = unit[u] \/ job'[ParentOf[u]] = "deleted"
    OBVIOUS
  <2>1. unit[u].st \notin {"none", "running", "queued"}
    BY DEF UnitTerminal, UnitFailed
  <2>2. job[ParentOf[u]] # "none"
    BY <2>1 DEF StoreInv, UnitsHaveLiveParent
  <2>3. u \notin Candidates
    BY <2>1, CandidateRows DEF StoreInv, NewRow, NoRow
  <2> QED
    BY <2>1, <2>2, <2>3, RowStep DEF StoreInv, UnitActive
<1> QED
  BY <1>1, StoreInvHolds, PTL DEF Spec, TerminalUnitsFrozen

\* A parent that has ended keeps its status until it is deleted.
THEOREM TerminalParentsKept == Spec => TerminalParentsFrozen
<1>1. StoreInv /\ [Next]_storeVars
        => [\A j \in Jobs : job[j] \in JobTerminal
              => job'[j] \in {job[j], "deleted"}]_storeVars
  <2> SUFFICES ASSUME StoreInv, [Next]_storeVars,
                      NEW j \in Jobs, job[j] \in JobTerminal
               PROVE  job'[j] \in {job[j], "deleted"}
    OBVIOUS
  <2> QED
    BY ParentStep DEF StoreInv, JobActive, JobTerminal
<1> QED
  BY <1>1, StoreInvHolds, PTL DEF Spec, TerminalParentsFrozen

-----------------------------------------------------------------------------
(* The store implements its contract.                                       *)

\* The two views the contract is instantiated with.
OutcomeView == [j \in Jobs |-> IF job[j] \in JobActive THEN "open" ELSE job[j]]
AnswerView == [u \in Units |-> IF unit[u].st \in UnitActive THEN "open" ELSE unit[u].st]

\* One abstract answer: units that were active end, nothing else is seen.
LEMMA AnswerStep ==
    ASSUME TypeOK, NEW S \in SUBSET ActiveUnits, UNCHANGED job,
           \A u \in S : unit'[u].st \in UnitTerminal,
           \A u \in Units \ S : unit'[u] = unit[u]
    PROVE  Contract!ContractNext
<1>1. PICK given \in [S -> Contract!Answers] : \A u \in S : given[u] = unit'[u].st
  <2>1. [u \in S |-> unit'[u].st] \in [S -> Contract!Answers]
    BY DEF Contract!Answers, Contract!Failures, UnitTerminal, UnitFailed
  <2> QED
    BY <2>1
<1>2. Contract!Answer(S, given)
  <2>1. \A u \in S : AnswerView[u] = "open"
    BY DEF AnswerView, ActiveUnits
  <2>2. AnswerView' = [u \in Units |-> IF u \in S THEN given[u] ELSE AnswerView[u]]
    BY <1>1 DEF AnswerView, UnitActive, UnitTerminal, UnitFailed
  <2>3. OutcomeView' = OutcomeView
    BY DEF OutcomeView
  <2> QED
    BY <2>1, <2>2, <2>3 DEF Contract!Answer, AnswerView, OutcomeView
<1>3. S \in SUBSET Units
  BY DEF ActiveUnits
<1> QED
  BY <1>1, <1>2, <1>3 DEF Contract!ContractNext

\* A step that moves no unit in or out of the terminal statuses and keeps the
\* parents is not seen.
LEMMA Unseen ==
    ASSUME UNCHANGED job,
           \A u \in Units : \/ unit'[u] = unit[u]
                            \/ unit[u].st \in UnitActive /\ unit'[u].st \in UnitActive
    PROVE  UNCHANGED <<OutcomeView, AnswerView>>
<1>1. OutcomeView' = OutcomeView
  BY DEF OutcomeView
<1>2. \A u \in Units : AnswerView'[u] = AnswerView[u]
  BY DEF AnswerView
<1>3. AnswerView' = AnswerView
  BY <1>2 DEF AnswerView
<1> QED
  BY <1>1, <1>3

\* A verdict is one the contract allows.
LEMMA VerdictAllowed ==
    ASSUME TypeOK, NEW j \in Jobs, AllTerminal(j)
    PROVE  /\ Verdict(j) \in Contract!Outcomes
           /\ Verdict(j) \in {"success", "partial_failure"}
                <=> \E u \in UnitsOf(j) : unit[u].st = "success"
           /\ Verdict(j) = "partial_failure"
                => \E u \in UnitsOf(j) : unit[u].st \in UnitFailed
           /\ Verdict(j) = "cancelled"
                <=> \A u \in UnitsOf(j) : unit[u].st = "cancelled"
<1> DEFINE ended == {unit[u].st : u \in UnitsOf(j)}
<1>1. Verdict(j) = IF "success" \in ended
                   THEN IF ended \cap UnitFailed # {} THEN "partial_failure" ELSE "success"
                   ELSE IF ended = {"cancelled"} THEN "cancelled"
                   ELSE IF ended \cap UnitFailed = {"upstream_error"} THEN "upstream_error"
                   ELSE "error"
  BY DEF Verdict
<1>2. /\ "success" \in ended <=> \E u \in UnitsOf(j) : unit[u].st = "success"
      /\ ended \cap UnitFailed # {} => \E u \in UnitsOf(j) : unit[u].st \in UnitFailed
      /\ ended = {"cancelled"} <=> \A u \in UnitsOf(j) : unit[u].st = "cancelled"
  BY DEF AllTerminal
<1> HIDE DEF ended
<1> QED
  BY <1>1, <1>2 DEF Contract!Outcomes, Contract!Failures

\* Whatever a client of the store does, a reader sees only what the contract
\* allows: answers and outcomes given once, verdicts from full sets of answers.
THEOREM StoreKeepsContract == Spec => KeepsContract
<1>1. Init => Contract!ContractInit
  BY DEF Init, Contract!ContractInit, JobActive, UnitActive, NoRow
<1>2. StoreInv /\ [Next]_storeVars => [Contract!ContractNext]_<<OutcomeView, AnswerView>>
  <2> SUFFICES ASSUME StoreInv, [Next]_storeVars
               PROVE  Contract!ContractNext \/ UNCHANGED <<OutcomeView, AnswerView>>
    OBVIOUS
  <2> DEFINE Goal == Contract!ContractNext \/ UNCHANGED <<OutcomeView, AnswerView>>
  <2> USE DEF StoreInv
  <2>1. ASSUME NEW j \in Jobs, Enqueue(j) PROVE Goal
    <3>1. OutcomeView[j] = "none" /\ OutcomeView' = [OutcomeView EXCEPT ![j] = "open"]
      BY <2>1 DEF Enqueue, OutcomeView, JobActive, TypeOK
    <3>2. AnswerView' = [u \in Units |-> IF ParentOf[u] = j THEN "open" ELSE AnswerView[u]]
      BY <2>1 DEF Enqueue, AnswerView, UnitActive, NewRow, NoRow, TypeOK
    <3>3. Contract!Parts(j) # {}
      BY <2>1 DEF Enqueue, Contract!Parts, UnitsOf
    <3>4. Contract!Accept(j)
      BY <3>1, <3>2, <3>3 DEF Contract!Accept, OutcomeView, AnswerView
    <3> QED
      BY <3>4 DEF Contract!ContractNext
  <2>2. ASSUME NEW j \in Jobs, NEW st \in JobActive, UpsertActive(j, st) PROVE Goal
    <3>1. AnswerView' = AnswerView
      BY <2>2 DEF UpsertActive, AnswerView
    <3>2. CASE job[j] \in JobActive
      <4>1. \A i \in Jobs : OutcomeView'[i] = OutcomeView[i]
        BY <2>2, <3>2 DEF UpsertActive, OutcomeView, TypeOK
      <4> QED
        BY <3>1, <4>1 DEF OutcomeView
    <3>3. CASE job[j] = "deleted"
      <4>1. OutcomeView[j] = "deleted" /\ OutcomeView' = [OutcomeView EXCEPT ![j] = "open"]
        BY <2>2, <3>3 DEF UpsertActive, OutcomeView, TypeOK, JobActive
      <4>2. Contract!Haunt(j)
        BY <3>1, <4>1 DEF Contract!Haunt, OutcomeView, AnswerView
      <4> QED
        BY <4>2 DEF Contract!ContractNext
    <3> QED
      BY <2>2, <3>2, <3>3 DEF UpsertActive
  <2>3. ASSUME NEW j \in Jobs, Finalize(j) PROVE Goal
    <3>1. AnswerView' = AnswerView
      BY <2>3 DEF Finalize, AnswerView
    <3>2. OutcomeView[j] = "open" /\ OutcomeView' = [OutcomeView EXCEPT ![j] = Verdict(j)]
      BY <2>3, VerdictType DEF Finalize, OutcomeView, TypeOK, JobActive, JobTerminal
    <3>3. /\ Contract!Parts(j) # {}
          /\ \A u \in Contract!Parts(j) :
                AnswerView[u] = unit[u].st /\ AnswerView[u] \in Contract!Answers
      BY <2>3 DEF Finalize, AllTerminal, Contract!Parts, UnitsOf, AnswerView,
                  UnitActive, UnitTerminal, UnitFailed, Contract!Answers, Contract!Failures
    <3>4. /\ Verdict(j) \in Contract!Outcomes
          /\ Verdict(j) \in {"success", "partial_failure"}
                <=> \E u \in Contract!Parts(j) : AnswerView[u] = "success"
          /\ Verdict(j) = "partial_failure"
                => \E u \in Contract!Parts(j) : AnswerView[u] \in Contract!Failures
          /\ Verdict(j) = "cancelled"
                <=> \A u \in Contract!Parts(j) : AnswerView[u] = "cancelled"
      BY <2>3, <3>3, VerdictAllowed
         DEF Finalize, UnitsOf, Contract!Parts, UnitFailed, Contract!Failures
    <3>5. Contract!Decide(j)
      BY <3>1, <3>2, <3>3, <3>4 DEF Contract!Decide, OutcomeView, AnswerView
    <3> QED
      BY <3>5 DEF Contract!ContractNext
  <2>4. ASSUME NEW j \in Jobs, CancelTx(j) PROVE Goal
    <3>1. OutcomeView[j] = "open" /\ OutcomeView' = [OutcomeView EXCEPT ![j] = "cancelled"]
      BY <2>4 DEF CancelTx, OutcomeView, TypeOK, JobActive
    <3>2. \A u \in Units : AnswerView'[u] = IF ParentOf[u] = j /\ AnswerView[u] = "open"
                                            THEN "cancelled" ELSE AnswerView[u]
      BY <2>4 DEF CancelTx, AnswerView, TypeOK, UnitRow, UnitActive, UnitTerminal,
                  UnitFailed, Ended
    <3>3. AnswerView' = [u \in Units |-> IF ParentOf[u] = j /\ AnswerView[u] = "open"
                                         THEN "cancelled" ELSE AnswerView[u]]
      BY <3>2 DEF AnswerView
    <3>4. Contract!Cancel(j)
      BY <3>1, <3>3 DEF Contract!Cancel, OutcomeView, AnswerView
    <3> QED
      BY <3>4 DEF Contract!ContractNext
  <2>5. ASSUME NEW j \in Jobs, ReleaseReservation(j) PROVE Goal
    BY <2>5, Unseen DEF ReleaseReservation
  <2>6. ASSUME NEW u \in Units, Lapse(u) PROVE Goal
    <3>1. unit'[u].st = unit[u].st /\ unit[u].st \in UnitActive
      BY <2>6 DEF Lapse, Unexpired, Running, UnitActive, TypeOK, UnitRow
    <3> QED
      BY <2>6, <3>1, Unseen DEF Lapse
  <2>7. ASSUME NEW u \in Units, Claim(u) PROVE Goal
    <3>1. unit'[u].st = "running" /\ unit[u].st \in UnitActive
      BY <2>7, CandidateRows
         DEF Claim, Claimed, NewRow, NoRow, UnitActive, TypeOK, UnitRow
    <3> QED
      BY <2>7, <3>1, Unseen DEF Claim, UnitActive
  <2>8. ASSUME NEW u \in Units, NEW t \in Tokens, FencedWrite(u, t) PROVE Goal
    <3>1. CASE Renew(u, t) \/ WriteRemote(u, t)
      <4>1. unit'[u].st = unit[u].st /\ unit[u].st \in UnitActive
        BY <3>1 DEF Renew, WriteRemote, Holds, UnitActive, TypeOK, UnitRow
      <4>2. UNCHANGED job /\ \A v \in Units \ {u} : unit'[v] = unit[v]
        BY <3>1 DEF Renew, WriteRemote, TypeOK
      <4> QED
        BY <4>1, <4>2, Unseen
    <3>2. CASE Complete(u, t) \/ \E st \in UnitTerminal \ {"success"} : Fail(u, t, st)
      <4>0. PICK st \in UnitTerminal : /\ unit[u].st = "running"
                                       /\ unit' = [unit EXCEPT ![u] = Ended(@, st)]
        BY <3>2 DEF Complete, Fail, Holds, UnitTerminal
      <4>1. {u} \in SUBSET ActiveUnits /\ unit'[u].st \in UnitTerminal
        <5>1. u \in ActiveUnits
          BY <4>0 DEF ActiveUnits, UnitActive
        <5>2. unit'[u].st = st
          BY <4>0 DEF Ended, TypeOK, UnitRow
        <5> QED
          BY <5>1, <5>2
      <4>2. UNCHANGED job /\ \A v \in Units \ {u} : unit'[v] = unit[v]
        BY <3>2 DEF Complete, Fail, TypeOK
      <4>3. \A v \in {u} : unit'[v].st \in UnitTerminal
        BY <4>1
      <4> QED
        BY <4>1, <4>2, <4>3, AnswerStep
    <3> QED
      BY <2>8, <3>1, <3>2 DEF FencedWrite
  <2>9. CASE ExpireExhausted
    <3>1. Exhausted \in SUBSET ActiveUnits
      BY DEF Exhausted, Lapsed, Running, ActiveUnits, UnitActive
    <3>2. /\ UNCHANGED job
          /\ \A u \in Exhausted : unit'[u].st \in UnitTerminal
          /\ \A u \in Units \ Exhausted : unit'[u] = unit[u]
      BY <2>9, <3>1 DEF ExpireExhausted, ActiveUnits, Ended, UnitTerminal, TypeOK, UnitRow
    <3> QED
      BY <3>1, <3>2, AnswerStep
  <2>10. ASSUME NEW S \in SUBSET TerminalJobs, DeleteJobs(S) PROVE Goal
    <3>1. \A j \in S : OutcomeView[j] \in Contract!Outcomes
      BY DEF TerminalJobs, OutcomeView, JobActive, JobTerminal, Contract!Outcomes,
             Contract!Failures
    <3>2. OutcomeView' = [j \in Jobs |-> IF j \in S THEN "deleted" ELSE OutcomeView[j]]
      BY <2>10 DEF DeleteJobs, OutcomeView, JobActive
    <3>3. AnswerView' = [u \in Units |-> IF ParentOf[u] \in S THEN "none" ELSE AnswerView[u]]
      BY <2>10 DEF DeleteJobs, AnswerView, UnitActive, NoRow
    <3>4. Contract!Forget(S) /\ S \in SUBSET Jobs
      BY <3>1, <3>2, <3>3 DEF Contract!Forget, OutcomeView, AnswerView, TerminalJobs
    <3> QED
      BY <3>4 DEF Contract!ContractNext
  <2>11. CASE ClearHistory \/ Trim
    BY <2>10, <2>11 DEF ClearHistory, Trim
  <2>12. CASE UNCHANGED storeVars
    BY <2>12, Unseen DEF storeVars
  <2> QED
    BY <2>1, <2>2, <2>3, <2>4, <2>5, <2>6, <2>7, <2>8, <2>9, <2>11, <2>12
       DEF Next, JobStep
<1>3. Contract!ContractInit /\ [][Contract!ContractNext]_<<OutcomeView, AnswerView>>
        => KeepsContract
  BY DEF KeepsContract, Contract!ContractSpec, Contract!contractVars, OutcomeView, AnswerView
<1> QED
  BY <1>1, <1>2, <1>3, StoreInvHolds, PTL DEF Spec

-----------------------------------------------------------------------------
(* Verdicts stand.                                                          *)

\* A parent ends by a cancellation or by the verdict of its units.
LEMMA ParentEnds ==
    ASSUME TypeOK, [Next]_storeVars, NEW j \in Jobs,
           job[j] \notin JobTerminal, job'[j] \in JobTerminal
    PROVE  \/ job'[j] = "cancelled"
           \/ AllTerminal(j) /\ job'[j] = Verdict(j) /\ unit' = unit
<1> DEFINE Goal == \/ job'[j] = "cancelled"
                   \/ AllTerminal(j) /\ job'[j] = Verdict(j) /\ unit' = unit
<1> SUFFICES Goal
  OBVIOUS
<1> USE DEF TypeOK
<1>1. ASSUME NEW i \in Jobs, NEW st \in JobActive, UpsertActive(i, st) PROVE Goal
  BY <1>1 DEF UpsertActive, JobActive, JobTerminal
<1>2. ASSUME NEW i \in Jobs, Enqueue(i) \/ ReleaseReservation(i) PROVE Goal
  BY <1>2 DEF Enqueue, ReleaseReservation, JobTerminal
<1>3. ASSUME NEW i \in Jobs, Finalize(i) \/ CancelTx(i) PROVE Goal
  BY <1>3 DEF Finalize, CancelTx
<1>4. ASSUME NEW u \in Units, Lapse(u) \/ Claim(u) PROVE Goal
  BY <1>4 DEF Lapse, Claim
<1>5. ASSUME NEW u \in Units, NEW t \in Tokens, FencedWrite(u, t) PROVE Goal
  BY <1>5 DEF FencedWrite, Renew, WriteRemote, Complete, Fail
<1>6. ASSUME NEW S \in SUBSET TerminalJobs, DeleteJobs(S) PROVE Goal
  BY <1>6 DEF DeleteJobs, JobTerminal
<1>7. CASE ExpireExhausted \/ UNCHANGED storeVars
  BY <1>7 DEF ExpireExhausted, storeVars
<1> HIDE DEF Goal
<1> QED
  BY <1>1, <1>2, <1>3, <1>4, <1>5, <1>6, <1>7 DEF Next, JobStep, ClearHistory, Trim

\* The stored status of a parent that ended is the user's cancellation or what
\* its units say, and stays that.
VerdictKept == \A j \in Jobs : job[j] \in JobTerminal =>
                  job[j] = "cancelled" \/ (AllTerminal(j) /\ job[j] = Verdict(j))

LEMMA VerdictStep == StoreInv /\ VerdictKept /\ [Next]_storeVars => VerdictKept'
<1> SUFFICES ASSUME StoreInv, VerdictKept, [Next]_storeVars,
                    NEW j \in Jobs, job'[j] \in JobTerminal, job'[j] # "cancelled"
             PROVE  AllTerminal(j)' /\ job'[j] = Verdict(j)'
  BY DEF VerdictKept
<1>1. TypeOK
  BY DEF StoreInv
<1>2. CASE job[j] \notin JobTerminal
  <2>1. AllTerminal(j) /\ job'[j] = Verdict(j) /\ unit' = unit
    BY <1>1, <1>2, ParentEnds
  <2>2. AllTerminal(j)'
    BY <2>1 DEF AllTerminal, UnitsOf
  <2>3. Verdict(j)' = Verdict(j)
    BY <2>1 DEF Verdict, UnitsOf
  <2> QED
    BY <2>1, <2>2, <2>3
<1>3. CASE job[j] \in JobTerminal
  <2>1. job'[j] = job[j]
    BY <1>1, <1>3, ParentStep DEF JobActive, JobTerminal
  <2>2. AllTerminal(j) /\ job[j] = Verdict(j)
    BY <1>3, <2>1 DEF VerdictKept
  <2>3. \A u \in UnitsOf(j) : unit'[u] = unit[u]
    <3> SUFFICES ASSUME NEW u \in UnitsOf(j) PROVE unit'[u] = unit[u]
      OBVIOUS
    <3>1. u \in Units /\ ParentOf[u] = j /\ unit[u].st \in UnitTerminal
      BY <2>2 DEF AllTerminal, UnitsOf
    <3>2. unit[u].st \notin UnitActive /\ u \notin Candidates
      BY <3>1 DEF UnitTerminal, UnitFailed, UnitActive, Candidates, Reclaimable, Lapsed, Running, Queued
    <3> QED
      BY <1>1, <1>3, <2>1, <3>1, <3>2, RowStep DEF JobTerminal, UnitActive
  <2>4. {unit'[u].st : u \in UnitsOf(j)} = {unit[u].st : u \in UnitsOf(j)}
    BY <2>3
  <2>5. AllTerminal(j)'
    BY <2>2, <2>3 DEF AllTerminal, UnitsOf
  <2>6. Verdict(j)' = Verdict(j)
    BY <2>4 DEF Verdict, UnitsOf
  <2> QED
    BY <2>1, <2>2, <2>5, <2>6
<1> QED
  BY <1>2, <1>3

\* finalize_parent_job_from_units and cancel_generate_job_tx are the only writers
\* of a terminal status, and no later write parts it from the units.
THEOREM VerdictsStand == Spec => []VerdictKept
<1>1. Init => VerdictKept
  BY DEF Init, VerdictKept, JobTerminal
<1> QED
  BY <1>1, VerdictStep, StoreInvHolds, PTL DEF Spec

=============================================================================
