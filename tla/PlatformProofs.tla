---------------------------- MODULE PlatformProofs ----------------------------
(***************************************************************************)
(* What the processes share besides jobs and the gallery, for any number   *)
(* of them.                                                                *)
(*                                                                         *)
(* Slots of the assistant: a request works on a slot of its own, every     *)
(* slot in use has someone who returns it, and no permit is lost or        *)
(* returned twice.  Settings: the active preset exists, and a save takes   *)
(* back nothing.  The start: an upgrade is all or nothing, and the         *)
(* full-text index is whole.                                               *)
(***************************************************************************)
EXTENDS AssistantSlots, ApiSettings, DatabaseStart, FiniteSetTheorems, TLAPS

-----------------------------------------------------------------------------
(* The inductive invariant.                                                 *)

\* What the thread of a request may be doing where the request is.
PhaseOf(r) ==
    /\ at[r] \in {"permit", "pausing", "dead"} => call[r].op = "none"
    /\ at[r] = "acquiring" => call[r].op \in {"acquire", "got", "refused"}
    /\ at[r] = "working" => call[r].op = "got"
    /\ at[r] = "releasing" => call[r].op = "release"

\* A request that has a slot owns it until the lease lapses under it.
HasOwns(r) ==
    Has(r) => /\ call[r].slot \in Slots
              /\ r \notin lapsed => OwnedBy(r, call[r].slot)

SlotInv ==
    /\ SlotsTypeOK
    /\ \A r \in Requests : PhaseOf(r) /\ HasOwns(r)
    /\ SlotAccounted

LEMMA InitSlotInv == Init => SlotInv
  BY SlotsAssumption
  DEF Init, SlotInv, SlotsTypeOK, PhaseOf, HasOwns, SlotAccounted, Has, Slots

Calls == [op : {"none", "acquire", "got", "refused", "release"}, slot : 0 .. SlotCount]

LEMMA CallTyped ==
    ASSUME SlotsTypeOK, NEW r \in Requests,
           NEW op \in {"none", "acquire", "got", "refused", "release"},
           NEW i \in 0 .. SlotCount, Call(r, op, i)
    PROVE  call' \in [Requests -> Calls]
  BY DEF SlotsTypeOK, Call, Calls

LEMMA PermitTyped ==
    ASSUME SlotsTypeOK, NEW r \in Requests, ReturnPermit(r)
    PROVE  free' \in [Workers -> Nat]
  BY SlotsAssumption DEF SlotsTypeOK, ReturnPermit

LEMMA LeaseTyped ==
    ASSUME SlotsTypeOK, NEW i \in Slots, NEW o \in Requests, NEW b \in BOOLEAN,
           Lease(i, o, b)
    PROVE  slot' \in [Slots -> [owner : Requests \cup {Nobody}, live : BOOLEAN]]
  BY DEF SlotsTypeOK, Lease

LEMMA TypeStep ==
    ASSUME SlotInv, [Next]_vars
    PROVE  SlotsTypeOK'
<1>a. SlotsTypeOK /\ call \in [Requests -> Calls]
  BY DEF SlotInv, SlotsTypeOK, Calls
<1>b. \A r \in Requests : call[r].slot \in 0 .. SlotCount /\ (Has(r) => call[r].slot \in Slots)
  BY DEF SlotInv, SlotsTypeOK, HasOwns
<1> USE <1>a DEF SlotsTypeOK, Event
<1>c. ASSUME NEW r \in Requests, NEW op \in {"none", "acquire", "got", "refused", "release"},
             Call(r, op, 0) \/ Call(r, op, call[r].slot)
      PROVE  call' \in [Requests -> Calls]
  <2>1. CASE Call(r, op, 0)
    BY <2>1, CallTyped, SlotsAssumption
  <2>2. CASE Call(r, op, call[r].slot)
    BY <1>b, <2>2, CallTyped
  <2> QED
    BY <1>c, <2>1, <2>2
<1> DEFINE Typed == /\ slot' \in [Slots -> [owner : Requests \cup {Nobody}, live : BOOLEAN]]
                    /\ free' \in [Workers -> Nat]
                    /\ at' \in [Requests -> {"permit", "acquiring", "working", "releasing",
                                            "pausing", "done", "dead"}]
                    /\ call' \in [Requests -> Calls]
                    /\ lapsed' \subseteq Requests
                    /\ count' \in Nat
<1> SUFFICES Typed
  BY DEF Calls
<1>1. ASSUME NEW r \in Requests, AcquireTx(r) PROVE Typed
  <2>1. PICK i \in Slots : Lease(i, r, TRUE) /\ Call(r, "got", i)
    BY <1>1 DEF AcquireTx
  <2>2. i \in 0 .. SlotCount
    BY SlotsAssumption DEF Slots
  <2>3. slot' \in [Slots -> [owner : Requests \cup {Nobody}, live : BOOLEAN]]
    BY <2>1, LeaseTyped
  <2>4. call' \in [Requests -> Calls]
    BY <2>1, <2>2, CallTyped
  <2> QED
    BY <1>1, <2>3, <2>4 DEF AcquireTx
<1>2. ASSUME NEW r \in Requests, AcquireRefused(r) \/ ReleaseLate(r) PROVE Typed
  <2>1. call' \in [Requests -> Calls]
    BY <1>2, <1>c DEF AcquireRefused, ReleaseLate, NoCall
  <2> QED
    BY <1>2, <2>1 DEF AcquireRefused, ReleaseLate
<1>3. ASSUME NEW r \in Requests, Release(r) PROVE Typed
  <2>1. call' \in [Requests -> Calls]
    BY <1>3, <1>c DEF Release, NoCall
  <2>2. slot' \in [Slots -> [owner : Requests \cup {Nobody}, live : BOOLEAN]]
    <3>1. call[r].slot \in Slots
      BY <1>3, <1>b DEF Release, Has
    <3>2. CASE Lease(call[r].slot, r, FALSE)
      BY <3>1, <3>2, LeaseTyped
    <3> QED
      BY <1>3, <3>2 DEF Release, Released
  <2>3. (at' \in [Requests -> {"permit", "acquiring", "working", "releasing",
                              "pausing", "done", "dead"}])
        /\ free' \in [Workers -> Nat]
    <3>1. CASE at[r] = "releasing"
      BY <1>3, <3>1, PermitTyped DEF Release
    <3>2. CASE at[r] # "releasing"
      BY <1>3, <3>2 DEF Release
    <3> QED
      BY <3>1, <3>2
  <2>4. lapsed' = lapsed /\ count' = count
    BY <1>3, Zenon DEF Release
  <2> QED
    BY <2>1, <2>2, <2>3, <2>4
<1>4. ASSUME NEW r \in Requests, TakePermit(r) PROVE Typed
  <2>1. call' \in [Requests -> Calls]
    BY <1>4, <1>c DEF TakePermit
  <2>2. HomeOf[r] \in Workers /\ free[HomeOf[r]] - 1 \in Nat
    <3>1. HomeOf[r] \in Workers
      BY SlotsAssumption
    <3>2. free[HomeOf[r]] \in Nat /\ free[HomeOf[r]] > 0
      BY <1>4, <3>1 DEF TakePermit
    <3> QED
      BY <3>1, <3>2
  <2>3. free' \in [Workers -> Nat]
    BY <1>4, <2>2 DEF TakePermit
  <2>4. (at' \in [Requests -> {"permit", "acquiring", "working", "releasing",
                               "pausing", "done", "dead"}])
        /\ lapsed' = lapsed /\ count' = count /\ slot' = slot
    BY <1>4 DEF TakePermit
  <2> QED
    BY <2>1, <2>3, <2>4
<1>5. ASSUME NEW r \in Requests, Work(r) \/ Retry(r) \/ GiveUp(r) \/ CancelWaiting(r)
      PROVE  Typed
  BY <1>5 DEF Work, Retry, GiveUp, CancelWaiting
<1>6. ASSUME NEW r \in Requests, Refused(r) PROVE Typed
  <2>1. call' \in [Requests -> Calls] /\ free' \in [Workers -> Nat]
    BY <1>6, <1>c, PermitTyped DEF Refused, NoCall
  <2> QED
    BY <1>6, <2>1 DEF Refused
<1>7. ASSUME NEW r \in Requests, Finish(r) \/ StopLost(r) PROVE Typed
  <2>1. Leaving(r)
    BY <1>7 DEF Finish, StopLost
  <2>2. call' \in [Requests -> Calls]
    BY <2>1, <1>c DEF Leaving
  <2> QED
    BY <2>1, <2>2 DEF Leaving
<1>8. ASSUME NEW r \in Requests, CancelAcquiring(r) \/ CancelReleasing(r) PROVE Typed
  <2>1. free' \in [Workers -> Nat]
    BY <1>8, PermitTyped DEF CancelAcquiring, CancelReleasing
  <2> QED
    BY <1>8, <2>1 DEF CancelAcquiring, CancelReleasing
<1>9. ASSUME NEW r \in Requests, AcquireFails(r) \/ ReleaseFails(r) PROVE Typed
  <2>1. call' \in [Requests -> Calls] /\ free' \in [Workers -> Nat]
    BY <1>9, <1>c, PermitTyped DEF AcquireFails, ReleaseFails, NoCall
  <2> QED
    BY <1>9, <2>1 DEF AcquireFails, ReleaseFails
<1>10. ASSUME NEW w \in Workers, Kill(w) PROVE Typed
  <2>1. call' \in [Requests -> Calls]
    BY <1>10, SlotsAssumption DEF Kill, Calls
  <2>2. free' \in [Workers -> Nat]
    BY <1>10, SlotsAssumption DEF Kill
  <2> QED
    BY <1>10, <2>1, <2>2 DEF Kill
<1>11. ASSUME NEW i \in Slots, Lapse(i) PROVE Typed
  <2>1. slot[i].owner \in Requests
    BY <1>11 DEF Lapse, SlotInv, SlotAccounted
  <2>2. slot' \in [Slots -> [owner : Requests \cup {Nobody}, live : BOOLEAN]]
    BY <1>11, <2>1, LeaseTyped DEF Lapse
  <2> QED
    BY <1>11, <2>1, <2>2 DEF Lapse
<1>12. CASE UNCHANGED vars
  BY <1>12 DEF vars
<1> QED
  BY <1>1, <1>2, <1>3, <1>4, <1>5, <1>6, <1>7, <1>8, <1>9, <1>10, <1>11, <1>12
  DEF Next, Transact, Proceed, Fail

-----------------------------------------------------------------------------
(* Every step keeps the invariant.                                          *)

\* A step of request r that leaves the slots alone, and r what it has.
Quiet(r) ==
    /\ UNCHANGED <<slot, lapsed>>
    /\ \A q \in Requests \ {r} : at'[q] = at[q] /\ call'[q] = call[q]
    /\ PhaseOf(r)'
    /\ Has(r)' <=> (Has(r) /\ at'[r] # "dead")
    /\ Has(r)' => call'[r].slot = call[r].slot
    /\ at[r] = "dead" => at'[r] = "dead"

LEMMA QuietStep ==
    ASSUME SlotInv, SlotsTypeOK', NEW r \in Requests, Quiet(r)
    PROVE  SlotInv'
<1> USE DEF SlotInv, Quiet
<1>1. \A q \in Requests : PhaseOf(q)'
  BY DEF PhaseOf
<1>2. \A q \in Requests : HasOwns(q)'
  BY DEF HasOwns, Has, OwnedBy
<1>3. SlotAccounted'
  <2> SUFFICES ASSUME NEW i \in Slots, slot[i].live, NEW o, o = slot[i].owner
               PROVE  o \in Requests /\ ((Has(o)' /\ call'[o].slot = i) \/ at'[o] = "dead")
    BY DEF SlotAccounted, Has
  <2>1. o \in Requests /\ ((Has(o) /\ call[o].slot = i) \/ at[o] = "dead")
    BY DEF SlotAccounted
  <2>2. CASE o # r
    BY <2>1, <2>2 DEF Has
  <2>3. CASE o = r
    BY <2>1, <2>3
  <2> QED
    BY <2>2, <2>3
<1> QED
  BY <1>1, <1>2, <1>3

LEMMA ProceedStep ==
    ASSUME SlotInv, SlotsTypeOK', NEW r \in Requests, Proceed(r)
    PROVE  SlotInv'
<1>0. SlotsTypeOK /\ PhaseOf(r)
  BY DEF SlotInv
<1> USE <1>0 DEF SlotsTypeOK, Quiet, PhaseOf, Has, Call, NoCall
<1>1. CASE TakePermit(r)
  BY <1>1, QuietStep DEF TakePermit
<1>2. CASE Work(r) \/ Retry(r) \/ GiveUp(r)
  BY <1>2, QuietStep DEF Work, Retry, GiveUp
<1>3. CASE Refused(r)
  BY <1>3, QuietStep DEF Refused
<1>4. CASE Finish(r) \/ StopLost(r)
  BY <1>4, QuietStep DEF Finish, StopLost, Leaving
<1> QED
  BY <1>1, <1>2, <1>3, <1>4 DEF Proceed

LEMMA FailStep ==
    ASSUME SlotInv, SlotsTypeOK', NEW r \in Requests, Fail(r)
    PROVE  SlotInv'
<1>0. SlotsTypeOK /\ PhaseOf(r)
  BY DEF SlotInv
<1> USE <1>0 DEF SlotsTypeOK, Quiet, PhaseOf, Has, Call, NoCall
<1>1. CASE CancelWaiting(r) \/ CancelAcquiring(r) \/ CancelReleasing(r)
  BY <1>1, QuietStep DEF CancelWaiting, CancelAcquiring, CancelReleasing
<1>2. CASE AcquireFails(r)
  BY <1>2, QuietStep DEF AcquireFails
<1>3. CASE ReleaseFails(r)
  BY <1>3, QuietStep DEF ReleaseFails
<1> QED
  BY <1>1, <1>2, <1>3 DEF Fail

LEMMA TransactStep ==
    ASSUME SlotInv, SlotsTypeOK', NEW r \in Requests, Transact(r)
    PROVE  SlotInv'
<1>0. SlotsTypeOK /\ SlotAccounted /\ \A q \in Requests : PhaseOf(q) /\ HasOwns(q)
  BY DEF SlotInv
<1> USE <1>0 DEF SlotsTypeOK
<1>1. CASE AcquireTx(r)
  <2>1. PICK i \in Slots : ~slot[i].live /\ Lease(i, r, TRUE) /\ Call(r, "got", i)
    BY <1>1 DEF AcquireTx
  <2>2. call[r].op = "acquire" /\ at' = at /\ lapsed' = lapsed
    BY <1>1 DEF AcquireTx
  <2>3. /\ slot'[i].owner = r /\ slot'[i].live
        /\ \A k \in Slots \ {i} : slot'[k] = slot[k]
    BY <2>1 DEF Lease
  <2>4. /\ call'[r].op = "got" /\ call'[r].slot = i
        /\ \A q \in Requests \ {r} : call'[q] = call[q]
    BY <2>1 DEF Call
  <2>5. \A q \in Requests : PhaseOf(q)'
    BY <2>2, <2>4 DEF PhaseOf
  <2>6. \A q \in Requests : HasOwns(q)'
    BY <2>1, <2>2, <2>3, <2>4 DEF HasOwns, Has, OwnedBy
  <2>7. ASSUME NEW k \in Slots, slot'[k].live
        PROVE  \E q \in Requests : /\ slot'[k].owner = q
                                   /\ (Has(q)' /\ call'[q].slot = k) \/ at'[q] = "dead"
    <3>1. CASE k = i
      BY <2>3, <2>4, <3>1 DEF Has
    <3>2. CASE k # i
      <4>1. slot'[k] = slot[k]
        BY <2>3, <3>2
      <4>2. PICK q \in Requests : /\ slot[k].owner = q
                                  /\ (Has(q) /\ call[q].slot = k) \/ at[q] = "dead"
        BY <2>7, <4>1 DEF SlotAccounted
      <4>3. Has(q) => Has(q)' /\ call'[q] = call[q]
        BY <2>2, <2>4 DEF Has
      <4> QED
        BY <2>2, <4>1, <4>2, <4>3
    <3> QED
      BY <3>1, <3>2
  <2>8. SlotAccounted'
    BY <2>7 DEF SlotAccounted
  <2> QED
    BY <2>5, <2>6, <2>8 DEF SlotInv
<1>2. CASE AcquireRefused(r) \/ ReleaseLate(r)
  BY <1>2, QuietStep DEF AcquireRefused, ReleaseLate, Quiet, PhaseOf, Has, Call, NoCall
<1>3. CASE Release(r)
  <2>1. /\ call[r].op = "release" /\ lapsed' = lapsed
        /\ call[r].slot \in Slots
    BY <1>3 DEF Release, HasOwns, Has
  <2>2. /\ call'[r].op = "none"
        /\ \A q \in Requests \ {r} : call'[q] = call[q] /\ at'[q] = at[q]
        /\ at'[r] = IF at[r] = "releasing" THEN "done" ELSE at[r]
    <3>1. /\ call'[r].op = "none"
          /\ \A q \in Requests \ {r} : call'[q] = call[q]
      BY <1>3 DEF Release, Call, NoCall
    <3>2. CASE at[r] = "releasing"
      BY <1>3, <3>1, <3>2 DEF Release
    <3>3. CASE at[r] # "releasing"
      BY <1>3, <3>1, <3>3 DEF Release
    <3> QED
      BY <3>2, <3>3
  <2>3. /\ \A k \in Slots : slot[k].owner # r => slot'[k] = slot[k]
        /\ \A k \in Slots : slot'[k].owner = slot[k].owner
        /\ \A k \in Slots : slot'[k].live => slot[k].live
        /\ slot[call[r].slot].owner = r => ~slot'[call[r].slot].live
    <3>1. CASE slot[call[r].slot].owner = r
      BY <1>3, <2>1, <3>1 DEF Release, Released, Lease
    <3>2. CASE slot[call[r].slot].owner # r
      BY <1>3, <2>1, <3>2 DEF Release, Released
    <3> QED
      BY <3>1, <3>2
  <2>4. \A q \in Requests : PhaseOf(q)'
    BY <2>1, <2>2 DEF PhaseOf
  <2>5. \A q \in Requests : HasOwns(q)'
    BY <2>1, <2>2, <2>3 DEF HasOwns, Has, OwnedBy
  <2>6. SlotAccounted'
    <3> SUFFICES ASSUME NEW i \in Slots, slot'[i].live, NEW o, o = slot'[i].owner
                 PROVE  o \in Requests /\ ((Has(o)' /\ call'[o].slot = i) \/ at'[o] = "dead")
      BY DEF SlotAccounted, Has
    <3>1. o \in Requests /\ ((Has(o) /\ call[o].slot = i) \/ at[o] = "dead")
      BY <2>3 DEF SlotAccounted
    <3>2. CASE o # r
      BY <2>2, <3>1, <3>2 DEF Has
    <3>3. CASE o = r
      <4>1. slot[i].live /\ slot[i].owner = r
        BY <2>3, <3>3
      <4>2. call[r].slot # i
        BY <2>3, <4>1
      <4>3. at[r] = "dead"
        BY <3>1, <3>3, <4>2
      <4>4. at'[r] = "dead"
        BY <2>2, <4>3
      <4> QED
        BY <3>3, <4>4, <3>1
    <3> QED
      BY <3>2, <3>3
  <2> QED
    BY <2>4, <2>5, <2>6 DEF SlotInv
<1> QED
  BY <1>1, <1>2, <1>3 DEF Transact

LEMMA KillStep ==
    ASSUME SlotInv, SlotsTypeOK', NEW w \in Workers, Kill(w)
    PROVE  SlotInv'
<1>1. slot' = slot /\ lapsed' = lapsed
  BY DEF Kill
<1>2. \A q \in Requests : \/ at'[q] = "dead" /\ call'[q].op = "none"
                          \/ at'[q] = at[q] /\ call'[q] = call[q]
  BY DEF Kill, SlotInv, SlotsTypeOK
<1>3. \A q \in Requests : PhaseOf(q)'
  BY <1>2 DEF SlotInv, PhaseOf
<1>4. \A q \in Requests : HasOwns(q)'
  BY <1>1, <1>2 DEF SlotInv, HasOwns, Has, OwnedBy
<1>5. SlotAccounted'
  BY <1>1, <1>2 DEF SlotInv, SlotAccounted, Has
<1> QED
  BY <1>3, <1>4, <1>5 DEF SlotInv

LEMMA LapseStep ==
    ASSUME SlotInv, SlotsTypeOK', NEW i \in Slots, Lapse(i)
    PROVE  SlotInv'
<1>1. /\ at' = at /\ call' = call /\ lapsed' = lapsed \cup {slot[i].owner}
      /\ slot'[i].owner = slot[i].owner /\ ~slot'[i].live
      /\ \A k \in Slots \ {i} : slot'[k] = slot[k]
  BY DEF Lapse, Lease, SlotInv, SlotsTypeOK
<1>2. \A q \in Requests : PhaseOf(q)'
  BY <1>1 DEF SlotInv, PhaseOf
<1>3. \A q \in Requests : HasOwns(q)'
  BY <1>1 DEF SlotInv, HasOwns, Has, OwnedBy
<1>4. SlotAccounted'
  BY <1>1 DEF SlotInv, SlotAccounted, Has
<1> QED
  BY <1>2, <1>3, <1>4 DEF SlotInv

LEMMA SlotInvInductive ==
    ASSUME SlotInv, [Next]_vars
    PROVE  SlotInv'
<1>1. SlotsTypeOK'
  BY TypeStep
<1>2. CASE UNCHANGED vars
  <2>1. \A q \in Requests : PhaseOf(q)' /\ HasOwns(q)'
    BY <1>2 DEF SlotInv, PhaseOf, HasOwns, Has, OwnedBy, vars
  <2>2. SlotAccounted'
    BY <1>2 DEF SlotInv, SlotAccounted, Has, vars
  <2> QED
    BY <1>1, <2>1, <2>2 DEF SlotInv
<1>3. CASE Next
  BY <1>1, <1>3, TransactStep, ProceedStep, FailStep, KillStep, LapseStep DEF Next
<1> QED
  BY <1>2, <1>3

\* The inductive invariant: where a request is determines what its thread does,
\* and a request that has a slot owns it until the lease lapses.
THEOREM AlwaysSlotInv == SlotSpec => []SlotInv
<1>1. Init => SlotInv
  BY InitSlotInv
<1>2. SlotInv /\ [Next]_vars => SlotInv'
  BY SlotInvInductive
<1> QED
  BY <1>1, <1>2, PTL DEF SlotSpec

\* Neither an acquisition nor a late release takes the slot of a request that
\* works, for any number of processes, requests and slots.
THEOREM WorkingOwnsHolds == SlotSpec => []WorkingOwns
<1>1. SlotInv => WorkingOwns
  BY DEF SlotInv, PhaseOf, HasOwns, Has, WorkingOwns
<1> QED
  BY <1>1, AlwaysSlotInv, PTL

\* Every slot in use belongs to a request that uses or returns it, or has died.
THEOREM SlotAccountedHolds == SlotSpec => []SlotAccounted
<1>1. SlotInv => SlotAccounted
  BY DEF SlotInv
<1> QED
  BY <1>1, AlwaysSlotInv, PTL

-----------------------------------------------------------------------------
(* Permits.                                                                  *)

Holders(w) == {r \in Requests : HomeOf[r] = w /\ Permitted(r)}

LEMMA HoldersFinite ==
    \A w : /\ IsFiniteSet(Holders(w)) /\ Cardinality(Holders(w)) \in Nat
           /\ IsFiniteSet(Holders(w)') /\ Cardinality(Holders(w)') \in Nat
  BY SlotsAssumption, FS_Subset, FS_CardinalityType DEF Holders

\* A step that gives request r a permit, returns the one it has, or neither.
Takes(r) == ~Permitted(r) /\ Permitted(r)' /\ free' = [free EXCEPT ![HomeOf[r]] = @ - 1]
Gives(r) == Permitted(r) /\ ~Permitted(r)' /\ ReturnPermit(r)
Keeps(r) == (Permitted(r) <=> Permitted(r)') /\ free' = free

LEMMA PermitStep ==
    ASSUME SlotsTypeOK, PermitsBalanced, NEW r \in Requests,
           Takes(r) \/ Gives(r) \/ Keeps(r),
           \A q \in Requests \ {r} : at'[q] = at[q]
    PROVE  PermitsBalanced'
<1> SUFFICES ASSUME NEW w \in Workers
             PROVE  free'[w] + Cardinality(Holders(w)') = SlotCount
  BY DEF PermitsBalanced, Holders
<1>1. /\ free[w] + Cardinality(Holders(w)) = SlotCount
      /\ free[w] \in Nat /\ SlotCount \in Nat /\ HomeOf[r] \in Workers
  BY SlotsAssumption DEF PermitsBalanced, Holders, SlotsTypeOK
<1>2. \A q \in Requests \ {r} : q \in Holders(w)' <=> q \in Holders(w)
  BY DEF Holders, Permitted
<1>3. CASE HomeOf[r] # w \/ Keeps(r)
  <2>1. free'[w] = free[w]
    BY <1>1, <1>3 DEF Takes, Gives, Keeps, ReturnPermit, SlotsTypeOK
  <2>2. r \in Holders(w)' <=> r \in Holders(w)
    BY <1>3 DEF Keeps, Holders
  <2>3. Holders(w)' = Holders(w)
    BY <1>2, <2>2 DEF Holders
  <2> QED
    BY <1>1, <2>1, <2>3
<1>4. CASE HomeOf[r] = w /\ Takes(r)
  <2>1. free'[w] = free[w] - 1
    BY <1>1, <1>4 DEF Takes, SlotsTypeOK
  <2>2. r \notin Holders(w) /\ r \in Holders(w)'
    BY <1>4 DEF Takes, Holders
  <2>3. Holders(w)' = Holders(w) \cup {r}
    BY <1>2, <2>2 DEF Holders
  <2>4. Cardinality(Holders(w)') = Cardinality(Holders(w)) + 1
    BY <2>2, <2>3, HoldersFinite, FS_AddElement
  <2> QED
    BY <1>1, <2>1, <2>4, HoldersFinite
<1>5. CASE HomeOf[r] = w /\ Gives(r)
  <2>1. free'[w] = free[w] + 1
    BY <1>1, <1>5 DEF Gives, ReturnPermit, SlotsTypeOK
  <2>2. r \in Holders(w) /\ r \notin Holders(w)'
    BY <1>5 DEF Gives, Holders
  <2>3. Holders(w)' = Holders(w) \ {r}
    BY <1>2, <2>2 DEF Holders
  <2>4. Cardinality(Holders(w)') = Cardinality(Holders(w)) - 1
    BY <2>2, <2>3, HoldersFinite, FS_RemoveElement
  <2> QED
    BY <1>1, <2>1, <2>4, HoldersFinite
<1> QED
  BY <1>3, <1>4, <1>5

LEMMA RequestPermits ==
    ASSUME SlotInv, NEW r \in Requests, Transact(r) \/ Proceed(r) \/ Fail(r)
    PROVE  /\ Takes(r) \/ Gives(r) \/ Keeps(r)
           /\ \A q \in Requests \ {r} : at'[q] = at[q]
<1>0. SlotsTypeOK /\ PhaseOf(r)
  BY DEF SlotInv
<1> USE <1>0 DEF SlotsTypeOK, Takes, Gives, Keeps, Permitted, PhaseOf
<1>1. CASE AcquireTx(r) \/ AcquireRefused(r) \/ ReleaseLate(r)
  BY <1>1 DEF AcquireTx, AcquireRefused, ReleaseLate
<1>2. CASE Release(r)
  <2>1. CASE at[r] = "releasing"
    BY <1>2, <2>1 DEF Release
  <2>2. CASE at[r] # "releasing"
    BY <1>2, <2>2 DEF Release
  <2> QED
    BY <2>1, <2>2
<1>3. CASE TakePermit(r)
  BY <1>3 DEF TakePermit
<1>4. CASE Work(r) \/ Retry(r) \/ GiveUp(r) \/ CancelWaiting(r)
  BY <1>4 DEF Work, Retry, GiveUp, CancelWaiting
<1>5. CASE Refused(r)
  BY <1>5 DEF Refused
<1>6. CASE Finish(r) \/ StopLost(r)
  BY <1>6 DEF Finish, StopLost, Leaving
<1>7. CASE CancelAcquiring(r) \/ CancelReleasing(r)
  BY <1>7 DEF CancelAcquiring, CancelReleasing
<1>8. CASE AcquireFails(r)
  <2>1. CASE at[r] = "acquiring"
    BY <1>8, <2>1 DEF AcquireFails
  <2>2. CASE at[r] # "acquiring"
    BY <1>8, <2>2 DEF AcquireFails
  <2> QED
    BY <2>1, <2>2
<1>9. CASE ReleaseFails(r)
  <2>1. CASE at[r] = "releasing"
    BY <1>9, <2>1 DEF ReleaseFails
  <2>2. CASE at[r] # "releasing"
    BY <1>9, <2>2 DEF ReleaseFails
  <2> QED
    BY <2>1, <2>2
<1> QED
  BY <1>1, <1>2, <1>3, <1>4, <1>5, <1>6, <1>7, <1>8, <1>9 DEF Transact, Proceed, Fail

LEMMA KillPermits ==
    ASSUME SlotsTypeOK, PermitsBalanced, NEW v \in Workers, Kill(v)
    PROVE  PermitsBalanced'
<1> SUFFICES ASSUME NEW w \in Workers
             PROVE  free'[w] + Cardinality(Holders(w)') = SlotCount
  BY DEF PermitsBalanced, Holders
<1>1. /\ free[w] + Cardinality(Holders(w)) = SlotCount /\ SlotCount \in Nat
  BY SlotsAssumption DEF PermitsBalanced, Holders
<1>2. CASE w = v
  <2>1. Holders(w)' = {}
    BY <1>2 DEF Holders, Permitted, Kill, SlotsTypeOK
  <2>2. free'[w] = SlotCount
    BY <1>2 DEF Kill, SlotsTypeOK
  <2> QED
    BY <1>1, <2>1, <2>2, FS_EmptySet
<1>3. CASE w # v
  <2>1. Holders(w)' = Holders(w)
    BY <1>3 DEF Holders, Permitted, Kill, SlotsTypeOK
  <2>2. free'[w] = free[w]
    BY <1>3 DEF Kill, SlotsTypeOK
  <2> QED
    BY <1>1, <2>1, <2>2
<1> QED
  BY <1>2, <1>3

\* No permit is lost or returned twice, for any number of processes, requests
\* and slots.
THEOREM PermitsBalancedHolds == SlotSpec => []PermitsBalanced
<1>1. Init => PermitsBalanced
  <2> SUFFICES ASSUME Init, NEW w \in Workers
               PROVE  free[w] + Cardinality(Holders(w)) = SlotCount
    BY DEF PermitsBalanced, Holders
  <2>1. Holders(w) = {}
    BY DEF Init, Holders, Permitted
  <2>2. free[w] = SlotCount /\ SlotCount \in Nat
    BY SlotsAssumption DEF Init
  <2> QED
    BY <2>1, <2>2, FS_EmptySet
<1>2. SlotInv /\ PermitsBalanced /\ [Next]_vars => PermitsBalanced'
  <2> SUFFICES ASSUME SlotInv, PermitsBalanced, [Next]_vars
               PROVE  PermitsBalanced'
    OBVIOUS
  <2>1. SlotsTypeOK
    BY DEF SlotInv
  <2>2. ASSUME NEW r \in Requests, Transact(r) \/ Proceed(r) \/ Fail(r)
        PROVE  PermitsBalanced'
    BY <2>1, <2>2, RequestPermits, PermitStep
  <2>3. ASSUME NEW w \in Workers, Kill(w) PROVE PermitsBalanced'
    BY <2>1, <2>3, KillPermits
  <2>4. ASSUME (\E i \in Slots : Lapse(i)) \/ UNCHANGED vars
        PROVE  PermitsBalanced'
    <3>1. at' = at /\ free' = free
      BY <2>4 DEF Lapse, vars
    <3> QED
      BY <3>1 DEF PermitsBalanced, Permitted
  <2> QED
    BY <2>2, <2>3, <2>4 DEF Next
<1> QED
  BY <1>1, <1>2, AlwaysSlotInv, PTL DEF SlotSpec

-----------------------------------------------------------------------------
(* Settings: the inductive invariant.                                       *)

\* What a change that is being saved may store.  A load may have put the
\* settings of before in place of those of a request that was given up.
ToStore(t) == Results(t, stored.rows) \cup {s \in {stored.rows} : req[t].orphan}

\* Where the change t is, memory and what it holds are one step of the change
\* away from what is stored, or not even that.
ChangeInv(t) ==
    /\ req[t].pc \in {"reading", "read"} => req[t].gen = writing[PlaceOf[t]].gen
    /\ req[t].pc \in {"loaded", "held"} => memory[PlaceOf[t]] = stored.rows
    /\ At(t, "held") => req[t].held = stored.rows /\ req[t].what \in InThread
    /\ At(t, "persist") => memory[PlaceOf[t]] \in ToStore(t)
    /\ req[t].pc \in {"sections", "saving"} => req[t].rows \in ToStore(t)
    /\ At(t, "saving") => req[t].sections = stored.sections
    /\ At(t, "merged") => req[t].sections = stored.sections \cup {t}

\* Rows that a load may still apply are those that are stored; presets that
\* may be put back are those in memory.
LoadInv(l) ==
    /\ req[l].pc \in {"reading", "read"} => req[l].gen <= writing[PlaceOf[l]].gen
    /\ At(l, "read") /\ req[l].gen = writing[PlaceOf[l]].gen => req[l].rows = stored.rows
    /\ At(l, "checked") => req[l].rows = stored.rows
    /\ At(l, "looked") => l \in Loads /\ req[l].rows.preset = memory[PlaceOf[l]].preset

\* While a request saves, its process holds no load that could be applied.
KeptOut(t, l) ==
    Saving(t) /\ ~req[t].orphan /\ PlaceOf[l] = PlaceOf[t] =>
        /\ ~At(l, "checked")
        /\ req[l].pc \in {"reading", "read"} => req[l].gen # writing[PlaceOf[l]].gen

\* The flag is up exactly while a request of the process saves.
FlagInv(t) ==
    /\ req[t].orphan => Saving(t)
    /\ Saving(t) /\ ~req[t].orphan => writing[PlaceOf[t]].pending

Alone ==
    /\ \A t, u \in Changes : UnderWay(t) /\ UnderWay(u) => t = u
    /\ \A w \in Processes : writing[w].pending =>
           \E t \in Changes : PlaceOf[t] = w /\ Saving(t) /\ ~req[t].orphan
    /\ \A t \in Changes : ChangeInv(t) /\ FlagInv(t)
    /\ \A l \in Requesters : LoadInv(l)
    /\ \A t \in Changes, l \in Requesters : KeptOut(t, l)

SettingsInv ==
    /\ SettingsTypeOK
    /\ ActiveStored
    /\ excused \/ Alone

LEMMA PcsAre ==
    /\ "idle" \in Pcs /\ "looked" \in Pcs /\ "begun" \in Pcs /\ "reading" \in Pcs /\ "read" \in Pcs
    /\ "checked" \in Pcs /\ "loaded" \in Pcs /\ "held" \in Pcs /\ "persist" \in Pcs
    /\ "sections" \in Pcs /\ "saving" \in Pcs /\ "saved" \in Pcs /\ "failed" \in Pcs
    /\ "section" \in Pcs /\ "merged" \in Pcs /\ "done" \in Pcs
  BY DEF Pcs

LEMMA DefaultTyped == DefaultRows \in SettingsOf /\ Exists(DefaultRows, Default)
                      /\ DefaultRows.active = Default
  BY SettingsAssumption DEF DefaultRows, SettingsOf, Exists

LEMMA IdleTyped == Idle \in ReqOf
  BY DefaultTyped, PcsAre, SettingsAssumption DEF Idle, ReqOf

\* What a change makes of settings are settings; if the active preset exists,
\* so does the one that is active then.
LEMMA ResultsTyped ==
    ASSUME NEW t \in Changes, req[t].id \in PresetIds,
           NEW s \in SettingsOf, NEW m \in Results(t, s)
    PROVE  m \in SettingsOf /\ (Exists(s, s.active) => Exists(m, m.active))
<1> DEFINE i == req[t].id
<1>a. /\ s = [preset |-> s.preset, misc |-> s.misc, active |-> s.active]
      /\ s.preset \in [PresetIds -> Changes \cup {Missing, Original}]
      /\ s.misc \in Changes \cup {Original} /\ s.active \in PresetIds
  BY DEF SettingsOf
<1>b. t # Missing
  BY SettingsAssumption
<1> USE <1>a, <1>b DEF SettingsOf, Exists
<1>1. CASE req[t].what = "update"
  <2>1. m \in Updated(s, i, t)
    BY <1>1 DEF Results
  <2>2. PICK n \in {s.misc, t} : m = [s EXCEPT !.preset[i] = t, !.active = i, !.misc = n]
    BY <2>1 DEF Updated
  <2> QED
    BY <2>2
<1>2. CASE req[t].what = "create"
  <2>1. m \in Created(s, i, t)
    BY <1>2 DEF Results
  <2>2. m = [s EXCEPT !.preset[i] = t, !.active = i]
    BY <2>1 DEF Created
  <2> QED
    BY <2>2
<1>3. CASE req[t].what = "activate"
  <2>1. m \in Activated(s, i)
    BY <1>3 DEF Results
  <2>2. m = [s EXCEPT !.active = i] /\ Exists(s, i)
    BY <2>1 DEF Activated
  <2> QED
    BY <2>2
<1>4. CASE req[t].what = "delete"
  <2>1. m \in Deleted(s, i)
    BY <1>4 DEF Results
  <2>2. PICK a \in Existing(s) \ {i} : m = [s EXCEPT !.preset[i] = Missing, !.active = a]
    BY <2>1 DEF Deleted
  <2> QED
    BY <2>2 DEF Existing
<1>5. CASE req[t].what = "order"
  <2>1. m \in Ordered(s, t)
    BY <1>5 DEF Results
  <2>2. m = [s EXCEPT !.misc = t]
    BY <2>1 DEF Ordered
  <2> QED
    BY <2>2
<1>6. CASE req[t].what = "import"
  <2>1. m \in Imported(s, i, t)
    BY <1>6 DEF Results
  <2>2. m = [s EXCEPT !.preset[i] = t]
    BY <2>1 DEF Imported
  <2> QED
    BY <2>2
<1> QED
  BY <1>1, <1>2, <1>3, <1>4, <1>5, <1>6 DEF Results

\* What is stored has an active preset, and settings that have one are stored
\* as they are.
LEMMA NormalizedActive ==
    ASSUME NEW s \in SettingsOf, NEW r \in Normalized(s)
    PROVE  /\ r \in SettingsOf /\ Exists(r, r.active)
           /\ Exists(s, s.active) => r = s
<1>1. CASE Existing(s) = {}
  <2>1. r = [DefaultRows EXCEPT !.misc = s.misc]
    BY <1>1 DEF Normalized
  <2>2. ~Exists(s, s.active)
    BY <1>1 DEF Existing, SettingsOf
  <2> QED
    BY <2>1, <2>2, DefaultTyped DEF SettingsOf, Exists
<1>2. CASE Existing(s) # {}
  <2>1. PICK a \in (IF Exists(s, s.active) THEN {s.active} ELSE Existing(s)) :
            r = [s EXCEPT !.active = a]
    BY <1>2 DEF Normalized
  <2>2. a \in PresetIds /\ Exists(s, a)
    BY <2>1 DEF Existing, SettingsOf
  <2> QED
    BY <2>1, <2>2 DEF SettingsOf, Exists
<1> QED
  BY <1>1, <1>2

LEMMA InitSettingsInv == SettingsInit => SettingsInv
<1> SUFFICES ASSUME SettingsInit PROVE SettingsInv
  OBVIOUS
<1> USE DefaultTyped, IdleTyped DEF SettingsInit
<1>1. SettingsTypeOK
  BY DEF SettingsTypeOK, ReqOf
<1>2. ActiveStored
  BY DEF ActiveStored
<1>3. \A t \in Requesters : At(t, "idle") /\ ~req[t].orphan
  BY DEF At, Idle
<1>4. Alone
  BY <1>3 DEF Alone, UnderWay, ChangeInv, LoadInv, KeptOut, FlagInv, Saving, Unsaved, At, Requesters
<1> QED
  BY <1>1, <1>2, <1>4 DEF SettingsInv

-----------------------------------------------------------------------------
(* Settings: types.                                                         *)

\* A request that goes on.
LEMMA KeptRequest ==
    ASSUME NEW r \in ReqOf, NEW pc \in Pcs
    PROVE  /\ Kept(r, pc) \in ReqOf /\ Kept(r, pc).pc = pc
           /\ pc \in {"idle", "section", "done"} => Kept(r, pc) = [Idle EXCEPT !.pc = pc]
           /\ pc \notin {"idle", "section", "done"} =>
                 /\ Kept(r, pc).what = r.what /\ Kept(r, pc).id = r.id
                 /\ Kept(r, pc).orphan = r.orphan /\ Kept(r, pc).held = r.held
           /\ pc \notin {"idle", "section", "done", "loaded", "saved", "failed"} =>
                 Kept(r, pc) = [r EXCEPT !.pc = pc]
<1>1. CASE pc \in {"idle", "section", "done"}
  BY <1>1, IdleTyped DEF Kept, ReqOf, Pcs
<1>2. CASE pc \in {"loaded", "saved", "failed"}
  BY <1>2, DefaultTyped DEF Kept, ReqOf, Pcs
<1>3. CASE pc \notin {"idle", "section", "done", "loaded", "saved", "failed"}
  BY <1>3 DEF Kept, ReqOf, Pcs
<1> QED
  BY <1>1, <1>2, <1>3

LEMMA GoToTyped ==
    ASSUME SettingsTypeOK, NEW t \in Requesters, NEW pc \in Pcs, GoTo(t, pc)
    PROVE  req' \in [Requesters -> ReqOf]
  BY PcsAre, KeptRequest DEF GoTo, SettingsTypeOK, ReqOf

LEMMA ApplyTyped ==
    ASSUME SettingsTypeOK, NEW t \in Changes, NEW m \in SettingsOf,
           NEW pc \in {"persist", "done"}, Apply(t, m, pc)
    PROVE  SettingsTypeOK'
<1>1. t \in Requesters /\ PlaceOf[t] \in Processes /\ req \in [Requesters -> ReqOf]
  BY SettingsAssumption DEF Requesters, SettingsTypeOK, ReqOf
<1>2. memory' \in [Processes -> SettingsOf]
  BY <1>1 DEF Apply, SettingsTypeOK
<1>3. writing' \in [Processes -> [pending : BOOLEAN, gen : Nat]]
  BY <1>1 DEF Apply, SettingsTypeOK
<1>4. req' \in [Requesters -> ReqOf]
  <2>1. memory[PlaceOf[t]] \in SettingsOf /\ DefaultRows \in SettingsOf
    BY <1>1, DefaultTyped DEF SettingsTypeOK
  <2>2. Kept(req[t], pc) \in ReqOf
    BY <1>1, KeptRequest DEF Pcs
  <2>3. \A h \in SettingsOf : [Kept(req[t], pc) EXCEPT !.held = h] \in ReqOf
    BY PcsAre, <2>2 DEF ReqOf
  <2> DEFINE earlier == IF req[t].what = "import" THEN memory[PlaceOf[t]] ELSE DefaultRows
  <2>5. earlier \in SettingsOf
    BY <2>1
  <2>6. req' = [req EXCEPT ![t] = [Kept(req[t], pc) EXCEPT !.held =
                      IF req[t].what = "import" THEN memory[PlaceOf[t]] ELSE DefaultRows]]
    BY <1>1 DEF Apply
  <2>7. [Kept(req[t], pc) EXCEPT !.held = earlier] \in ReqOf
    BY <2>3, <2>5
  <2> QED
    BY <1>1, <2>6, <2>7
<1> QED
  BY <1>2, <1>3, <1>4 DEF Apply, SettingsTypeOK, ReqOf

LEMMA TypeStepLoads ==
    ASSUME SettingsTypeOK, NEW t \in Requesters, LoadSteps(t)
    PROVE  SettingsTypeOK'
<1>1. req \in [Requesters -> ReqOf] /\ PlaceOf[t] \in Processes
  BY SettingsAssumption DEF SettingsTypeOK, ReqOf
<1>2. Loaded(t) \in Pcs
  BY DEF Loaded, Pcs
<1>3. CASE LoadStart(t)
  <2>1. Kept(req[t], Loaded(t)) \in ReqOf
    BY <1>1, <1>2, KeptRequest
  <2>2. [req[t] EXCEPT !.pc = "reading", !.gen = writing[PlaceOf[t]].gen] \in ReqOf
    <3>1. req[t] \in ReqOf /\ writing[PlaceOf[t]].gen \in Nat
      BY <1>1 DEF SettingsTypeOK
    <3> QED
      BY PcsAre, <3>1 DEF ReqOf
  <2>3. req' \in [Requesters -> ReqOf]
    BY <1>1, <1>3, <2>1, <2>2 DEF LoadStart
  <2> QED
    BY <1>3, <2>3 DEF LoadStart, SettingsTypeOK, ReqOf
<1>4. CASE LoadRows(t)
  <2>1. [req[t] EXCEPT !.pc = "read", !.rows = stored.rows] \in ReqOf
    BY PcsAre, <1>1 DEF ReqOf, SettingsTypeOK
  <2>2. req' \in [Requesters -> ReqOf]
    BY <1>1, <1>4, <2>1 DEF LoadRows
  <2> QED
    BY <1>4, <2>2 DEF LoadRows, SettingsTypeOK, ReqOf
<1>5. CASE LoadCheck(t)
  <2>1. req' \in [Requesters -> ReqOf]
    BY <1>2, <1>5, GoToTyped DEF LoadCheck, Pcs
  <2> QED
    BY <1>5, <2>1 DEF LoadCheck, SettingsTypeOK, ReqOf
<1>6. CASE LoadApply(t)
  <2>1. req' \in [Requesters -> ReqOf]
    BY <1>2, <1>6, GoToTyped DEF LoadApply
  <2>2. memory' \in [Processes -> SettingsOf]
    BY <1>1, <1>6 DEF LoadApply, SettingsTypeOK, ReqOf
  <2>3. excused' \in BOOLEAN
    BY <1>6 DEF LoadApply, SettingsTypeOK
  <2> QED
    BY <1>6, <2>1, <2>2, <2>3 DEF LoadApply, SettingsTypeOK
<1>7. CASE PutBack(t)
  <2>1. req' \in [Requesters -> ReqOf]
    BY <1>7, PcsAre, GoToTyped DEF PutBack
  <2>2. memory' \in [Processes -> SettingsOf]
    <3>1. req[t].rows \in SettingsOf /\ memory \in [Processes -> SettingsOf]
      BY <1>1 DEF SettingsTypeOK, ReqOf
    <3> QED
      BY <1>1, <1>7, <3>1 DEF PutBack, SettingsOf
  <2> QED
    BY <1>7, <2>1, <2>2 DEF PutBack, SettingsTypeOK
<1> QED
  BY <1>3, <1>4, <1>5, <1>6, <1>7 DEF LoadSteps

LEMMA LookTyped ==
    ASSUME SettingsTypeOK, NEW t \in Requesters, Look(t)
    PROVE  SettingsTypeOK'
<1>1. req[t] \in ReqOf /\ memory[PlaceOf[t]] \in SettingsOf /\ req \in [Requesters -> ReqOf]
  BY SettingsAssumption DEF SettingsTypeOK
<1>2. [req[t] EXCEPT !.pc = "looked", !.rows = memory[PlaceOf[t]]] \in ReqOf
  BY PcsAre, <1>1 DEF ReqOf
<1>3. req' \in [Requesters -> ReqOf]
  BY <1>1, <1>2 DEF Look
<1> QED
  BY <1>3 DEF Look, SettingsTypeOK

LEMMA TypeStepChanges ==
    ASSUME SettingsTypeOK, NEW t \in Changes, ChangeSteps(t) \/ Disturb(t)
    PROVE  SettingsTypeOK'
<1>1. /\ req \in [Requesters -> ReqOf] /\ req[t] \in ReqOf
      /\ t \in Requesters /\ PlaceOf[t] \in Processes
      /\ memory[PlaceOf[t]] \in SettingsOf
  BY SettingsAssumption DEF Requesters, SettingsTypeOK, ReqOf
<1>2. CASE Refuse(t) \/ NoSection(t) \/ SaveFails(t)
  <2>1. req' \in [Requesters -> ReqOf]
    BY <1>1, <1>2, GoToTyped DEF Refuse, NoSection, SaveFails, Pcs
  <2> QED
    BY <1>2, <2>1 DEF Refuse, NoSection, SaveFails, MayFail, SettingsTypeOK, ReqOf
<1>3. CASE Hold(t) \/ Snapshot(t) \/ ReadSections(t) \/ MergeSection(t)
  <2>1. \A s \in SettingsOf, z \in SUBSET Changes :
            /\ [req[t] EXCEPT !.pc = "held", !.held = s] \in ReqOf
            /\ [req[t] EXCEPT !.pc = "sections", !.rows = s] \in ReqOf
            /\ [req[t] EXCEPT !.pc = "saving", !.sections = z] \in ReqOf
            /\ [req[t] EXCEPT !.pc = "merged", !.sections = z] \in ReqOf
    BY PcsAre, <1>1 DEF ReqOf
  <2>2. stored.sections \in SUBSET Changes /\ stored.sections \cup {t} \in SUBSET Changes
    BY DEF SettingsTypeOK
  <2>3. req' \in [Requesters -> ReqOf]
    BY <1>1, <1>3, <2>1, <2>2 DEF Hold, Snapshot, ReadSections, MergeSection
  <2> QED
    BY <1>3, <2>3 DEF Hold, Snapshot, ReadSections, MergeSection, SettingsTypeOK, ReqOf
<1>4. CASE Change(t) \/ ChangeInvalid(t)
  <2> DEFINE WithActive(m) == [m EXCEPT !.active = memory[PlaceOf[t]].active]
  <2>1. PICK m \in Results(t, memory[PlaceOf[t]]) :
            Apply(t, m, "persist") \/ Apply(t, WithActive(m), "done")
    BY <1>4 DEF Change, ChangeInvalid
  <2>2. m \in SettingsOf
    BY <1>1, <2>1, ResultsTyped DEF ReqOf
  <2>3. WithActive(m) \in SettingsOf
    BY <1>1, <2>2 DEF SettingsOf
  <2> HIDE DEF WithActive
  <2> QED
    BY <2>1, <2>2, <2>3, ApplyTyped
<1>5. CASE ChangeHeld(t)
  <2>1. PICK m \in Results(t, req[t].held) :
            Apply(t, [m EXCEPT !.active = memory[PlaceOf[t]].active], "persist")
    BY <1>5 DEF ChangeHeld
  <2>2. m \in SettingsOf
    BY <1>1, <2>1, ResultsTyped DEF ReqOf
  <2>3. [m EXCEPT !.active = memory[PlaceOf[t]].active] \in SettingsOf
    BY <1>1, <2>2 DEF SettingsOf
  <2> QED
    BY <2>1, <2>3, ApplyTyped
<1>6. CASE Replace(t)
  <2>1. req' \in [Requesters -> ReqOf]
    BY <1>1, <1>6, GoToTyped DEF Replace, Pcs
  <2>2. PICK r \in Normalized(req[t].rows) : stored' = [rows |-> r, sections |-> req[t].sections]
    BY <1>6 DEF Replace
  <2>3. r \in SettingsOf /\ req[t].sections \in SUBSET Changes
    BY <1>1, <2>2, NormalizedActive DEF ReqOf
  <2>4. stored' \in [rows : SettingsOf, sections : SUBSET Changes]
    BY <2>2, <2>3
  <2>5. excused' \in BOOLEAN
    BY <1>6 DEF Replace, SettingsTypeOK
  <2> QED
    BY <1>6, <2>1, <2>4, <2>5 DEF Replace, SettingsTypeOK, ReqOf
<1>7. CASE End(t)
  <2>1. req' \in [Requesters -> ReqOf]
    BY <1>1, <1>7, GoToTyped DEF End, Pcs
  <2>2. writing' \in [Processes -> [pending : BOOLEAN, gen : Nat]]
    <3>1. \/ writing' = writing
          \/ writing' = [writing EXCEPT ![PlaceOf[t]].pending = FALSE]
      BY <1>7 DEF End
    <3>2. writing \in [Processes -> [pending : BOOLEAN, gen : Nat]]
      BY DEF SettingsTypeOK
    <3> QED
      BY <1>1, <3>1, <3>2
  <2>3. RolledBack(t) \in [Processes -> SettingsOf]
    BY <1>1 DEF RolledBack, SettingsTypeOK, ReqOf, SettingsOf
  <2>4. excused' \in BOOLEAN
    BY <1>7 DEF End, SettingsTypeOK
  <2> QED
    BY <1>7, <2>1, <2>2, <2>3, <2>4 DEF End, SettingsTypeOK
<1>8. CASE StoreSection(t)
  <2>1. req' \in [Requesters -> ReqOf]
    BY <1>1, <1>8, GoToTyped DEF StoreSection, Pcs
  <2>2. stored' \in [rows : SettingsOf, sections : SUBSET Changes]
    BY <1>1, <1>8 DEF StoreSection, SettingsTypeOK, ReqOf
  <2> QED
    BY <1>8, <2>1, <2>2 DEF StoreSection, SettingsTypeOK, ReqOf
<1>9. CASE GiveUpRequest(t)
  <2>1. req' \in [Requesters -> ReqOf]
    BY <1>1, <1>9 DEF GiveUpRequest, ReqOf
  <2>2. writing' \in [Processes -> [pending : BOOLEAN, gen : Nat]]
    BY <1>1, <1>9 DEF GiveUpRequest, SettingsTypeOK
  <2> QED
    BY <1>9, <2>1, <2>2 DEF GiveUpRequest, MayFail, SettingsTypeOK, ReqOf
<1> QED
  BY <1>2, <1>3, <1>4, <1>5, <1>6, <1>7, <1>8, <1>9 DEF ChangeSteps, Disturb

LEMMA BeginTyped ==
    ASSUME SettingsTypeOK, NEW t \in Changes, NEW what \in Kinds, NEW i \in PresetIds,
           Begin(t, what, i)
    PROVE  SettingsTypeOK'
<1>1. req \in [Requesters -> ReqOf] /\ t \in Requesters
  BY DEF Requesters, SettingsTypeOK, ReqOf
<1>2. req' \in [Requesters -> ReqOf]
  <2>1. [req[t] EXCEPT !.pc = "begun", !.what = what, !.id = i] \in ReqOf
    BY PcsAre, <1>1 DEF ReqOf
  <2> QED
    BY <1>1, <2>1 DEF Begin
<1>3. excused' \in BOOLEAN
  BY DEF Begin, SettingsTypeOK
<1> QED
  BY <1>2, <1>3 DEF Begin, SettingsTypeOK, ReqOf

-----------------------------------------------------------------------------
(* Settings: one change at a time is never taken back.                      *)

\* Of the changes at most t is under way.
Lone(t) == \A u \in Changes \ {t} : ~UnderWay(u)

LEMMA LoneHolds ==
    ASSUME Alone, NEW t \in Changes, UnderWay(t)
    PROVE  Lone(t)
  BY DEF Alone, Lone

\* While t alone is under way it suffices to look at t and the loads.
LEMMA AloneStep ==
    ASSUME NEW t \in Changes, Lone(t)',
           \A u \in Changes \ {t} : ~req'[u].orphan,
           ChangeInv(t)', FlagInv(t)',
           \A l \in Requesters : LoadInv(l)' /\ KeptOut(t, l)',
           \A w \in Processes : writing'[w].pending =>
               PlaceOf[t] = w /\ Saving(t)' /\ ~req'[t].orphan
    PROVE  Alone'
<1>1. \A u \in Changes \ {t} : ~UnderWay(u)'
  BY DEF Lone
<1>2. \A u \in Changes \ {t} : req'[u].pc \in {"idle", "done"}
  BY <1>1 DEF UnderWay
<1>3. \A u \in Changes \ {t} : ChangeInv(u)' /\ FlagInv(u)' /\ ~Saving(u)'
  BY <1>2 DEF ChangeInv, FlagInv, Saving, Unsaved, At
<1>4. \A u \in Changes, l \in Requesters : KeptOut(u, l)'
  BY <1>3 DEF KeptOut
<1> QED
  BY <1>1, <1>3, <1>4 DEF Alone

\* Nothing changes of the others.
Same(l) == req'[l].pc = req[l].pc /\ req'[l].gen = req[l].gen
           /\ req'[l].rows = req[l].rows /\ req'[l].orphan = req[l].orphan

LEMMA LoneStep ==
    ASSUME Alone, NEW t \in Changes, Lone(t), \A u \in Changes \ {t} : Same(u)
    PROVE  Lone(t)' /\ \A u \in Changes \ {t} : ~req'[u].orphan
<1>1. \A u \in Changes \ {t} : req[u].pc \in {"idle", "done"} /\ ~req[u].orphan
  BY DEF Alone, Lone, UnderWay, FlagInv, Saving, Unsaved
<1> QED
  BY <1>1 DEF Same, Lone, UnderWay

\* A step of the change t that is its own affair.
LEMMA OwnStep ==
    ASSUME SettingsTypeOK, Alone, NEW t \in Changes, Lone(t),
           NEW r \in ReqOf, req' = [req EXCEPT ![t] = r],
           UNCHANGED <<stored, memory, writing>>,
           ChangeInv(t)', FlagInv(t)', LoadInv(t)',
           Saving(t)' <=> Saving(t), r.orphan = req[t].orphan
    PROVE  Alone'
<1>1. t \in Requesters /\ req \in [Requesters -> ReqOf]
  BY DEF Requesters, SettingsTypeOK, ReqOf
<1>2. \A l \in Requesters \ {t} : req'[l] = req[l] /\ Same(l)
  BY <1>1 DEF Same
<1>3. Lone(t)' /\ \A u \in Changes \ {t} : ~req'[u].orphan
  BY <1>2, LoneStep DEF Requesters
<1>4. req'[t] = r
  BY <1>1
<1>5. \A l \in Requesters : LoadInv(l)'
  <2>1. \A l \in Requesters \ {t} : LoadInv(l)'
    BY <1>2 DEF Alone, LoadInv, At
  <2> QED
    BY <2>1
<1>6. \A l \in Requesters : KeptOut(t, l)'
  <2>1. \A l \in Requesters \ {t} : KeptOut(t, l)'
    BY <1>2, <1>4 DEF Alone, KeptOut, At
  <2>2. KeptOut(t, t)'
    BY DEF KeptOut, Saving, Unsaved, At
  <2> QED
    BY <2>1, <2>2
<1>7. \A w \in Processes : writing'[w].pending =>
          PlaceOf[t] = w /\ Saving(t)' /\ ~req'[t].orphan
  <2> SUFFICES ASSUME NEW w \in Processes, writing[w].pending
               PROVE  PlaceOf[t] = w /\ Saving(t) /\ ~req[t].orphan
    BY <1>4
  <2>1. PICK u \in Changes : PlaceOf[u] = w /\ Saving(u) /\ ~req[u].orphan
    BY DEF Alone
  <2>2. UnderWay(u)
    BY <2>1 DEF UnderWay, Saving, Unsaved
  <2> QED
    BY <2>1, <2>2 DEF Lone
<1> QED
  BY <1>3, <1>5, <1>6, <1>7, AloneStep

LEMMA BeginAlone ==
    ASSUME SettingsTypeOK, Alone, NEW t \in Changes, NEW what \in Kinds, NEW i \in PresetIds,
           Begin(t, what, i), ~excused'
    PROVE  Alone'
<1>1. t \in Requesters /\ req \in [Requesters -> ReqOf]
  BY DEF Requesters, SettingsTypeOK, ReqOf
<1>2. Lone(t) /\ ~req[t].orphan
  BY DEF Begin, Overlap, Lone, Alone, FlagInv, Saving, Unsaved, At
<1> DEFINE r == [req[t] EXCEPT !.pc = "begun", !.what = what, !.id = i]
<1>3. r \in ReqOf
  BY PcsAre, <1>1 DEF ReqOf
<1>4. req' = [req EXCEPT ![t] = r] /\ UNCHANGED <<stored, memory, writing>>
  BY DEF Begin
<1>5. req'[t].pc = "begun" /\ ~req'[t].orphan
  BY <1>1, <1>2, <1>4 DEF ReqOf
<1>6. ChangeInv(t)' /\ FlagInv(t)' /\ LoadInv(t)'
  BY <1>5 DEF ChangeInv, FlagInv, LoadInv, Saving, Unsaved, At
<1>7. (Saving(t)' <=> Saving(t)) /\ r.orphan = req[t].orphan
  BY <1>1, <1>2, <1>5 DEF Saving, Unsaved, Begin, At, ReqOf
<1> QED
  BY <1>2, <1>3, <1>4, <1>6, <1>7, OwnStep

\* A change reads, or goes on without a change of what it shares.
LEMMA OwnChangeAlone ==
    ASSUME SettingsTypeOK, ActiveStored, Alone, NEW t \in Changes,
           \/ LoadStart(t) \/ LoadRows(t) \/ LoadCheck(t) \/ Refuse(t) \/ Hold(t)
           \/ Snapshot(t) \/ ReadSections(t) \/ SaveFails(t) \/ NoSection(t) \/ MergeSection(t)
    PROVE  Alone'
<1>1. /\ t \in Requesters /\ req \in [Requesters -> ReqOf] /\ req[t] \in ReqOf
      /\ PlaceOf[t] \in Processes /\ writing[PlaceOf[t]].gen \in Nat
      /\ memory[PlaceOf[t]] \in SettingsOf /\ stored.rows \in SettingsOf
      /\ stored.sections \in SUBSET Changes /\ stored.sections \cup {t} \in SUBSET Changes
  BY SettingsAssumption DEF Requesters, SettingsTypeOK, ReqOf
<1>2. UnderWay(t) /\ Lone(t)
  <2>1. UnderWay(t)
    BY SettingsAssumption
    DEF UnderWay, LoadStart, LoadRows, LoadCheck, Refuse, Hold, Snapshot, ReadSections,
        SaveFails, NoSection, MergeSection, At
  <2> QED
    BY <2>1, LoneHolds
<1>3. ChangeInv(t) /\ FlagInv(t) /\ LoadInv(t)
  BY <1>1 DEF Alone
<1>4. writing[PlaceOf[t]].pending => Saving(t) /\ ~req[t].orphan
  <2>1. \A u \in Changes : Saving(u) => UnderWay(u)
    BY DEF UnderWay, Saving, Unsaved
  <2> QED
    BY <1>1, <1>2, <2>1 DEF Alone, Lone
<1>5. ASSUME NEW r \in ReqOf, req' = [req EXCEPT ![t] = r],
             UNCHANGED <<stored, memory, writing>>,
             ChangeInv(t)', LoadInv(t)', Saving(t)' <=> Saving(t), r.orphan = req[t].orphan
      PROVE  Alone'
  <2>1. req'[t] = r
    BY <1>1, <1>5
  <2>2. FlagInv(t)'
    BY <1>3, <1>5, <2>1 DEF FlagInv
  <2> QED
    BY <1>2, <1>5, <2>2, OwnStep
<1> USE SettingsAssumption DEF At
<1>6. CASE LoadStart(t)
  <2>1. req[t].pc = "begun" /\ ~writing[PlaceOf[t]].pending
    BY <1>4, <1>6 DEF LoadStart, Saving, Unsaved
  <2> DEFINE r == [req[t] EXCEPT !.pc = "reading", !.gen = writing[PlaceOf[t]].gen]
  <2>2. r \in ReqOf /\ r.pc = "reading" /\ r.gen = writing[PlaceOf[t]].gen /\ r.orphan = req[t].orphan
    BY PcsAre, <1>1 DEF ReqOf
  <2>3. req' = [req EXCEPT ![t] = r] /\ UNCHANGED <<stored, memory, writing>>
    BY <1>6, <2>1 DEF LoadStart
  <2>4. req'[t] = r
    BY <1>1, <2>3
  <2>5. ChangeInv(t)' /\ LoadInv(t)' /\ (Saving(t)' <=> Saving(t))
    BY <1>1, <2>1, <2>2, <2>3, <2>4 DEF ChangeInv, LoadInv, Saving, Unsaved
  <2> QED
    BY <1>5, <2>2, <2>3, <2>5
<1>7. CASE LoadRows(t)
  <2> DEFINE r == [req[t] EXCEPT !.pc = "read", !.rows = stored.rows]
  <2>2. r \in ReqOf /\ r.pc = "read" /\ r.gen = req[t].gen /\ r.rows = stored.rows
        /\ r.orphan = req[t].orphan
    BY PcsAre, <1>1 DEF ReqOf
  <2>3. req' = [req EXCEPT ![t] = r] /\ UNCHANGED <<stored, memory, writing>>
    BY <1>7 DEF LoadRows
  <2>4. req'[t] = r
    BY <1>1, <2>3
  <2>5. ChangeInv(t)' /\ LoadInv(t)' /\ (Saving(t)' <=> Saving(t))
    BY <1>1, <1>3, <1>7, <2>2, <2>3, <2>4 DEF ChangeInv, LoadInv, Saving, Unsaved, LoadRows
  <2> QED
    BY <1>5, <2>2, <2>3, <2>5
<1>8. CASE LoadCheck(t)
  <2>1. Fresh(t)
    BY <1>3, <1>4, <1>8 DEF LoadCheck, Fresh, ChangeInv, Saving, Unsaved
  <2> DEFINE r == Kept(req[t], "checked")
  <2>2. r \in ReqOf /\ r = [req[t] EXCEPT !.pc = "checked"]
    BY <1>1, KeptRequest DEF Pcs
  <2>3. req' = [req EXCEPT ![t] = r] /\ UNCHANGED <<stored, memory, writing>>
    BY <1>8, <2>1 DEF LoadCheck, GoTo
  <2>4. req'[t] = r /\ r.pc = "checked" /\ r.rows = req[t].rows /\ r.orphan = req[t].orphan
    BY <1>1, <2>2, <2>3 DEF ReqOf
  <2>5. req[t].rows = stored.rows
    BY <1>3, <1>8 DEF LoadCheck, ChangeInv, LoadInv
  <2>6. ChangeInv(t)' /\ LoadInv(t)' /\ (Saving(t)' <=> Saving(t))
    BY <1>8, <2>3, <2>4, <2>5 DEF ChangeInv, LoadInv, Saving, Unsaved, LoadCheck
  <2> QED
    BY <1>5, <2>2, <2>3, <2>4, <2>6
<1>9. CASE Refuse(t) \/ NoSection(t)
  <2> DEFINE r == Kept(req[t], "done")
  <2>1. ~req[t].orphan
    BY <1>3, <1>9 DEF FlagInv, Refuse, NoSection, Saving, Unsaved
  <2>2. r \in ReqOf /\ r.pc = "done" /\ ~r.orphan
    BY <1>1, KeptRequest, IdleTyped DEF Pcs, Idle, ReqOf
  <2>3. req' = [req EXCEPT ![t] = r] /\ UNCHANGED <<stored, memory, writing>>
    BY <1>9 DEF Refuse, NoSection, GoTo
  <2>4. req'[t] = r
    BY <1>1, <2>3
  <2>5. ChangeInv(t)' /\ LoadInv(t)' /\ (Saving(t)' <=> Saving(t))
    BY <1>9, <2>2, <2>4 DEF ChangeInv, LoadInv, Saving, Unsaved, Refuse, NoSection
  <2>6. r.orphan = req[t].orphan
    BY <1>1, <2>1, <2>2 DEF ReqOf
  <2> QED
    BY <1>5, <2>2, <2>3, <2>5, <2>6
<1>10. CASE Hold(t)
  <2> DEFINE r == [req[t] EXCEPT !.pc = "held", !.held = memory[PlaceOf[t]]]
  <2>2. r \in ReqOf /\ r.pc = "held" /\ r.held = memory[PlaceOf[t]] /\ r.what = req[t].what
        /\ r.orphan = req[t].orphan
    BY PcsAre, <1>1 DEF ReqOf
  <2>3. req' = [req EXCEPT ![t] = r] /\ UNCHANGED <<stored, memory, writing>>
    BY <1>10 DEF Hold
  <2>4. req'[t] = r
    BY <1>1, <2>3
  <2>5. memory[PlaceOf[t]] = stored.rows /\ req[t].what \in InThread
    BY <1>3, <1>10 DEF Hold, ChangeInv
  <2>6. ChangeInv(t)' /\ LoadInv(t)' /\ (Saving(t)' <=> Saving(t))
    BY <1>10, <2>2, <2>3, <2>4, <2>5 DEF ChangeInv, LoadInv, Saving, Unsaved, Hold
  <2> QED
    BY <1>5, <2>2, <2>3, <2>6
<1>11. CASE Snapshot(t)
  <2> DEFINE r == [req[t] EXCEPT !.pc = "sections", !.rows = memory[PlaceOf[t]]]
  <2>2. r \in ReqOf /\ r.pc = "sections" /\ r.rows = memory[PlaceOf[t]] /\ r.what = req[t].what
        /\ r.id = req[t].id /\ r.orphan = req[t].orphan
    BY PcsAre, <1>1 DEF ReqOf
  <2>3. req' = [req EXCEPT ![t] = r] /\ UNCHANGED <<stored, memory, writing>>
    BY <1>11 DEF Snapshot
  <2>4. req'[t] = r
    BY <1>1, <2>3
  <2>5. memory[PlaceOf[t]] \in ToStore(t)
    BY <1>3, <1>11 DEF Snapshot, ChangeInv
  <2>6. ToStore(t)' = ToStore(t)
    BY <2>2, <2>3, <2>4 DEF ToStore, Results
  <2>7. ChangeInv(t)' /\ LoadInv(t)' /\ (Saving(t)' <=> Saving(t))
    BY <1>11, <2>2, <2>3, <2>4, <2>5, <2>6 DEF ChangeInv, LoadInv, Saving, Unsaved, Snapshot
  <2> QED
    BY <1>5, <2>2, <2>3, <2>7
<1>12. CASE ReadSections(t)
  <2> DEFINE r == [req[t] EXCEPT !.pc = "saving", !.sections = stored.sections]
  <2>2. r \in ReqOf /\ r.pc = "saving" /\ r.rows = req[t].rows /\ r.sections = stored.sections
        /\ r.what = req[t].what /\ r.id = req[t].id /\ r.orphan = req[t].orphan
    BY PcsAre, <1>1 DEF ReqOf
  <2>3. req' = [req EXCEPT ![t] = r] /\ UNCHANGED <<stored, memory, writing>>
    BY <1>12 DEF ReadSections
  <2>4. req'[t] = r
    BY <1>1, <2>3
  <2>5. req[t].rows \in ToStore(t)
    BY <1>3, <1>12 DEF ReadSections, ChangeInv
  <2>6. ToStore(t)' = ToStore(t)
    BY <2>2, <2>3, <2>4 DEF ToStore, Results
  <2>7. ChangeInv(t)' /\ LoadInv(t)' /\ (Saving(t)' <=> Saving(t))
    BY <1>12, <2>2, <2>3, <2>4, <2>5, <2>6 DEF ChangeInv, LoadInv, Saving, Unsaved, ReadSections
  <2> QED
    BY <1>5, <2>2, <2>3, <2>7
<1>13. CASE SaveFails(t)
  <2> DEFINE r == Kept(req[t], "failed")
  <2>2. r \in ReqOf /\ r.pc = "failed" /\ r.orphan = req[t].orphan
    BY <1>1, KeptRequest DEF Pcs
  <2>3. req' = [req EXCEPT ![t] = r] /\ UNCHANGED <<stored, memory, writing>>
    BY <1>13 DEF SaveFails, GoTo
  <2>4. req'[t] = r
    BY <1>1, <2>3
  <2>5. ChangeInv(t)' /\ LoadInv(t)' /\ (Saving(t)' <=> Saving(t))
    BY <1>13, <2>2, <2>4 DEF ChangeInv, LoadInv, Saving, Unsaved, SaveFails
  <2> QED
    BY <1>5, <2>2, <2>3, <2>5
<1>14. CASE MergeSection(t)
  <2> DEFINE r == [req[t] EXCEPT !.pc = "merged", !.sections = stored.sections \cup {t}]
  <2>2. r \in ReqOf /\ r.pc = "merged" /\ r.sections = stored.sections \cup {t}
        /\ r.orphan = req[t].orphan
    BY PcsAre, <1>1 DEF ReqOf
  <2>3. req' = [req EXCEPT ![t] = r] /\ UNCHANGED <<stored, memory, writing>>
    BY <1>14 DEF MergeSection
  <2>4. req'[t] = r
    BY <1>1, <2>3
  <2>5. ChangeInv(t)' /\ LoadInv(t)' /\ (Saving(t)' <=> Saving(t))
    BY <1>14, <2>2, <2>3, <2>4 DEF ChangeInv, LoadInv, Saving, Unsaved, MergeSection
  <2> QED
    BY <1>5, <2>2, <2>3, <2>5
<1> QED
  BY <1>6, <1>7, <1>8, <1>9, <1>10, <1>11, <1>12, <1>13, <1>14

\* A load of a request, or of anything else, that is applied.
LEMMA LoadApplyAlone ==
    ASSUME SettingsTypeOK, Alone, NEW t \in Requesters, LoadApply(t), ~excused'
    PROVE  Alone'
<1> DEFINE r == Kept(req[t], Loaded(t))
<1>1. /\ req \in [Requesters -> ReqOf] /\ req[t] \in ReqOf /\ PlaceOf[t] \in Processes
      /\ memory \in [Processes -> SettingsOf]
  BY SettingsAssumption DEF SettingsTypeOK, ReqOf
<1>2. r \in ReqOf /\ r.pc = Loaded(t) /\ ~r.orphan
  <2>1. ~req[t].orphan \/ t \notin Changes
    BY DEF LoadApply, Alone, FlagInv, Saving, Unsaved, At
  <2> QED
    BY <1>1, <2>1, KeptRequest, IdleTyped DEF Loaded, Pcs, ReqOf, Idle
<1>3. req' = [req EXCEPT ![t] = r] /\ UNCHANGED <<stored, writing>>
      /\ req[t].pc = "checked" /\ req[t].rows = stored.rows
      /\ memory' = [memory EXCEPT ![PlaceOf[t]] = stored.rows]
  BY DEF LoadApply, GoTo, Alone, LoadInv, At
<1>4. /\ \A l \in Requesters \ {t} : req'[l] = req[l] /\ Same(l)
      /\ req'[t] = r /\ memory'[PlaceOf[t]] = stored.rows
      /\ \A w \in Processes \ {PlaceOf[t]} : memory'[w] = memory[w]
  BY <1>1, <1>3 DEF Same
<1>5. req'[t].pc \in {"loaded", "idle"} /\ ~Saving(t) /\ ~Saving(t)'
  BY <1>2, <1>3, <1>4 DEF Loaded, Saving, Unsaved
<1>6. \A u \in Changes : UnderWay(u)' => UnderWay(u)
  BY <1>3, <1>4 DEF UnderWay, Requesters
<1>7. \A u, v \in Changes : UnderWay(u)' /\ UnderWay(v)' => u = v
  BY <1>6 DEF Alone
<1>8. \A u \in Changes : Saving(u)' = Saving(u) /\ (Saving(u) => req'[u].orphan = req[u].orphan)
  BY <1>4, <1>5 DEF Saving, Unsaved, Requesters
<1>9. \A w \in Processes : writing'[w].pending =>
          \E u \in Changes : PlaceOf[u] = w /\ Saving(u)' /\ ~req'[u].orphan
  BY <1>3, <1>8 DEF Alone
<1>10. ASSUME NEW u \in Changes PROVE ChangeInv(u)' /\ FlagInv(u)'
  <2>1. CASE u = t
    <3>1. ChangeInv(t)'
      BY <1>3, <1>4, <1>5 DEF ChangeInv, At
    <3> QED
      BY <1>2, <1>4, <1>5, <2>1, <3>1 DEF FlagInv
  <2>2. CASE u # t
    <3>1. req'[u] = req[u] /\ u \in Requesters /\ PlaceOf[u] \in Processes
          /\ ChangeInv(u) /\ FlagInv(u) /\ KeptOut(u, t)
      BY <1>4, <2>2, SettingsAssumption DEF Requesters, Alone
    <3>2. FlagInv(u)'
      BY <1>3, <3>1 DEF FlagInv, Saving, Unsaved
    <3>3. ToStore(u)' = ToStore(u)
      BY <1>3, <3>1 DEF ToStore, Results
    <3>4. CASE PlaceOf[u] # PlaceOf[t]
      <4>1. memory'[PlaceOf[u]] = memory[PlaceOf[u]]
        BY <1>4, <3>1, <3>4
      <4> QED
        BY <1>3, <3>1, <3>2, <3>3, <4>1 DEF ChangeInv, At
    <3>5. CASE PlaceOf[u] = PlaceOf[t]
      <4>1. At(u, "persist") => memory'[PlaceOf[u]] \in ToStore(u)
        <5>1. Saving(u) /\ req[t].pc = "checked" => req[u].orphan
          BY <3>1, <3>5 DEF KeptOut, At
        <5> QED
          BY <1>3, <1>4, <3>5, <5>1 DEF ToStore, At, Saving, Unsaved
      <4>2. memory'[PlaceOf[u]] = stored.rows
        BY <1>4, <3>5
      <4> QED
        BY <1>3, <3>1, <3>2, <3>3, <4>1, <4>2 DEF ChangeInv, At
    <3> QED
      BY <3>4, <3>5
  <2> QED
    BY <2>1, <2>2
<1>11. ASSUME NEW l \in Requesters PROVE LoadInv(l)'
  <2>1. CASE l = t
    BY <1>5, <2>1 DEF LoadInv, At
  <2>2. CASE l # t
    <3>1. LoadInv(l) /\ req'[l] = req[l] /\ PlaceOf[l] \in Processes
      BY <1>4, <2>2, SettingsAssumption DEF Alone
    <3>2. At(l, "looked") => memory'[PlaceOf[l]] = memory[PlaceOf[l]]
      <4>1. memory' = memory \/ ~Behind(PlaceOf[t])
        BY DEF LoadApply
      <4> QED
        BY <1>4, <3>1, <4>1 DEF Behind
    <3> QED
      BY <1>3, <3>1, <3>2 DEF LoadInv, At
  <2> QED
    BY <2>1, <2>2
<1>12. ASSUME NEW u \in Changes, NEW l \in Requesters PROVE KeptOut(u, l)'
  <2>1. CASE l = t
    BY <1>5, <2>1 DEF KeptOut, At
  <2>2. CASE l # t
    <3>1. req'[l] = req[l] /\ KeptOut(u, l)
      BY <1>4, <2>2 DEF Alone
    <3> QED
      BY <1>3, <1>8, <3>1 DEF KeptOut, At
  <2> QED
    BY <2>1, <2>2
<1> QED
  BY <1>7, <1>9, <1>10, <1>11, <1>12 DEF Alone

\* A load that is nobody's change reads, or somebody looks at the presets.
LEMMA OtherLoadAlone ==
    ASSUME SettingsTypeOK, Alone, NEW t \in Loads,
           LoadStart(t) \/ LoadRows(t) \/ LoadCheck(t) \/ Look(t) \/ PutBack(t)
    PROVE  Alone'
<1>1. /\ t \in Requesters /\ req \in [Requesters -> ReqOf] /\ req[t] \in ReqOf
      /\ PlaceOf[t] \in Processes /\ writing[PlaceOf[t]].gen \in Nat
      /\ stored.rows \in SettingsOf /\ t \notin Changes /\ LoadInv(t)
  BY SettingsAssumption DEF Requesters, SettingsTypeOK, ReqOf, Alone
<1>2. UNCHANGED <<stored, memory, writing>>
  <2>1. CASE PutBack(t)
    <3>1. req[t].rows.preset = memory[PlaceOf[t]].preset
      BY <1>1, <2>1 DEF PutBack, LoadInv, At
    <3>2. memory \in [Processes -> SettingsOf] /\ memory[PlaceOf[t]] \in SettingsOf
      BY <1>1 DEF SettingsTypeOK
    <3>3. [memory[PlaceOf[t]] EXCEPT !.preset = req[t].rows.preset] = memory[PlaceOf[t]]
      BY <3>1, <3>2 DEF SettingsOf
    <3>4. memory' = memory
      BY <1>1, <2>1, <3>2, <3>3 DEF PutBack
    <3> QED
      BY <2>1, <3>4 DEF PutBack
  <2> QED
    BY <2>1 DEF LoadStart, LoadRows, LoadCheck, Look
<1>3. \E r \in ReqOf :
         /\ req' = [req EXCEPT ![t] = r]
         /\ \/ r.pc = "idle"
            \/ r.pc = "reading" /\ r.gen = writing[PlaceOf[t]].gen /\ ~writing[PlaceOf[t]].pending
            \/ r.pc = "read" /\ r.gen = req[t].gen /\ r.rows = stored.rows
               /\ req[t].pc = "reading"
            \/ r.pc = "checked" /\ r.rows = stored.rows /\ ~writing[PlaceOf[t]].pending
            \/ r.pc = "looked" /\ r.rows.preset = memory[PlaceOf[t]].preset
  <2>1. CASE LoadStart(t)
    <3>1. Kept(req[t], "idle") \in ReqOf /\ Kept(req[t], "idle").pc = "idle"
      BY <1>1, KeptRequest DEF Pcs
    <3> DEFINE r == [req[t] EXCEPT !.pc = "reading", !.gen = writing[PlaceOf[t]].gen]
    <3>2. r \in ReqOf /\ r.pc = "reading" /\ r.gen = writing[PlaceOf[t]].gen
      BY PcsAre, <1>1 DEF ReqOf
    <3> QED
      BY <1>1, <2>1, <3>1, <3>2 DEF LoadStart, Loaded
  <2>2. CASE LoadRows(t)
    <3> DEFINE r == [req[t] EXCEPT !.pc = "read", !.rows = stored.rows]
    <3>1. r \in ReqOf /\ r.pc = "read" /\ r.gen = req[t].gen /\ r.rows = stored.rows
      BY PcsAre, <1>1 DEF ReqOf
    <3> QED
      BY <1>1, <2>2, <3>1 DEF LoadRows, At
  <2>3. CASE LoadCheck(t)
    <3>1. /\ Kept(req[t], "idle") \in ReqOf /\ Kept(req[t], "idle").pc = "idle"
          /\ Kept(req[t], "checked") \in ReqOf /\ Kept(req[t], "checked").pc = "checked"
          /\ Kept(req[t], "checked").rows = req[t].rows
      BY <1>1, KeptRequest DEF Pcs, ReqOf
    <3>2. Fresh(t) => req[t].rows = stored.rows /\ ~writing[PlaceOf[t]].pending
      BY <1>1, <2>3 DEF LoadCheck, LoadInv, Fresh, At
    <3> QED
      BY <1>1, <2>3, <3>1, <3>2 DEF LoadCheck, GoTo, Loaded
  <2>4. CASE Look(t)
    <3> DEFINE r == [req[t] EXCEPT !.pc = "looked", !.rows = memory[PlaceOf[t]]]
    <3>1. memory[PlaceOf[t]] \in SettingsOf
      BY <1>1 DEF SettingsTypeOK
    <3>2. r \in ReqOf /\ r.pc = "looked" /\ r.rows = memory[PlaceOf[t]]
      BY PcsAre, <1>1, <3>1 DEF ReqOf
    <3>3. req' = [req EXCEPT ![t] = r]
      BY <2>4 DEF Look
    <3> QED
      BY <3>2, <3>3
  <2>5. CASE PutBack(t)
    <3>1. Kept(req[t], "idle") \in ReqOf /\ Kept(req[t], "idle").pc = "idle"
      BY <1>1, KeptRequest, PcsAre
    <3> QED
      BY <2>5, <3>1 DEF PutBack, GoTo
  <2> QED
    BY <2>1, <2>2, <2>3, <2>4, <2>5
<1>4. PICK r \in ReqOf :
         /\ req' = [req EXCEPT ![t] = r]
         /\ \/ r.pc = "idle"
            \/ r.pc = "reading" /\ r.gen = writing[PlaceOf[t]].gen /\ ~writing[PlaceOf[t]].pending
            \/ r.pc = "read" /\ r.gen = req[t].gen /\ r.rows = stored.rows
               /\ req[t].pc = "reading"
            \/ r.pc = "checked" /\ r.rows = stored.rows /\ ~writing[PlaceOf[t]].pending
            \/ r.pc = "looked" /\ r.rows.preset = memory[PlaceOf[t]].preset
  BY <1>3
<1>5. req'[t] = r /\ \A l \in Requesters \ {t} : req'[l] = req[l]
  BY <1>1, <1>4
<1>6. \A u \in Changes : /\ u \in Requesters /\ req'[u] = req[u]
                         /\ (UnderWay(u)' <=> UnderWay(u)) /\ (Saving(u)' <=> Saving(u))
  BY <1>1, <1>5 DEF Requesters, UnderWay, Saving, Unsaved
<1>7. \A u \in Changes : ChangeInv(u)' /\ FlagInv(u)'
  BY <1>2, <1>6 DEF Alone, ChangeInv, FlagInv, ToStore, Results, At
<1>8. ASSUME NEW l \in Requesters PROVE LoadInv(l)'
  <2>1. CASE l = t
    BY <1>1, <1>2, <1>4, <1>5, <2>1 DEF LoadInv, At
  <2>2. CASE l # t
    BY <1>2, <1>5, <2>2 DEF LoadInv, At, Alone
  <2> QED
    BY <2>1, <2>2
<1>9. ASSUME NEW u \in Changes, NEW l \in Requesters PROVE KeptOut(u, l)'
  <2>1. KeptOut(u, l) /\ FlagInv(u)
    BY DEF Alone
  <2>2. CASE l = t
    BY <1>2, <1>4, <1>5, <1>6, <2>1, <2>2 DEF KeptOut, FlagInv, At
  <2>3. CASE l # t
    BY <1>2, <1>5, <1>6, <2>1, <2>3 DEF KeptOut, At
  <2> QED
    BY <2>2, <2>3
<1> QED
  BY <1>2, <1>6, <1>7, <1>8, <1>9 DEF Alone

\* Nobody else's save is pending.
LEMMA NobodyElsePending ==
    ASSUME Alone, NEW t \in Changes, Lone(t), NEW w \in Processes, writing[w].pending
    PROVE  PlaceOf[t] = w /\ Saving(t) /\ ~req[t].orphan
<1>1. PICK u \in Changes : PlaceOf[u] = w /\ Saving(u) /\ ~req[u].orphan
  BY DEF Alone
<1>2. UnderWay(u)
  BY <1>1 DEF UnderWay, Saving, Unsaved
<1> QED
  BY <1>1, <1>2 DEF Lone

\* A change is made in memory.
LEMMA ApplyAlone ==
    ASSUME SettingsTypeOK, Alone, NEW t \in Changes, At(t, "loaded") \/ At(t, "held"),
           NEW m, NEW pc \in {"persist", "done"}, Apply(t, m, pc), ~excused',
           pc = "persist" => m \in Results(t, stored.rows)
    PROVE  Alone'
<1> DEFINE w == PlaceOf[t]
           h == IF req[t].what = "import" THEN memory[w] ELSE DefaultRows
           r == [Kept(req[t], pc) EXCEPT !.held = h]
<1>1. /\ t \in Requesters /\ req \in [Requesters -> ReqOf] /\ req[t] \in ReqOf
      /\ w \in Processes /\ memory \in [Processes -> SettingsOf] /\ h \in SettingsOf
      /\ writing \in [Processes -> [pending : BOOLEAN, gen : Nat]]
      /\ \A l \in Requesters : PlaceOf[l] \in Processes /\ req[l].gen \in Nat
  BY SettingsAssumption, DefaultTyped DEF Requesters, SettingsTypeOK, ReqOf
<1>2. UnderWay(t) /\ Lone(t)
  <2>1. UnderWay(t)
    BY DEF UnderWay, At
  <2> QED
    BY <2>1, LoneHolds
<1>3. ~Saving(t) /\ ~req[t].orphan
  BY DEF Alone, FlagInv, Saving, Unsaved, At
<1>4. /\ r.pc = pc /\ ~r.orphan
      /\ pc = "persist" => r.what = req[t].what /\ r.id = req[t].id
  <2>1. Kept(req[t], pc) \in ReqOf /\ Kept(req[t], pc).pc = pc /\ ~Kept(req[t], pc).orphan
        /\ (pc = "persist" => Kept(req[t], pc).what = req[t].what /\ Kept(req[t], pc).id = req[t].id)
    <3>1. pc \in Pcs
      BY PcsAre
    <3> QED
      BY <1>1, <1>3, <3>1, KeptRequest DEF Idle
  <2> QED
    BY <2>1 DEF ReqOf
<1>5. req' = [req EXCEPT ![t] = r]
  BY <1>1 DEF Apply
<1>6. req'[t] = r
  BY <1>1, <1>5
<1>7. \A l \in Requesters \ {t} : Same(l)
  BY <1>1, <1>5 DEF Same
<1>8. \A l \in Requesters : ~(PlaceOf[l] = w /\ (At(l, "checked") \/ At(l, "looked")))
  BY DEF Apply, Torn, Behind
<1>9. /\ memory'[w] = m /\ stored' = stored
      /\ writing'[w] = [pending |-> pc = "persist", gen |-> writing[w].gen + 1]
      /\ \A v \in Processes \ {w} : writing'[v] = writing[v] /\ memory'[v] = memory[v]
  BY <1>1 DEF Apply
<1>a. writing'[w].pending <=> pc = "persist"
  <2> DEFINE up == pc = "persist"
  <2>0. up \in BOOLEAN /\ writing'[w] = [pending |-> up, gen |-> writing[w].gen + 1]
    BY <1>9
  <2> HIDE DEF up
  <2>1. writing'[w].pending <=> up
    BY <2>0
  <2> QED
    BY <2>1 DEF up
<1>10. Lone(t)' /\ \A u \in Changes \ {t} : ~req'[u].orphan
  BY <1>2, <1>7, LoneStep DEF Requesters
<1>11. ChangeInv(t)'
  <2>1. pc = "persist" => m \in ToStore(t)'
    BY <1>4, <1>6, <1>9 DEF ToStore, Results
  <2> QED
    BY <1>4, <1>6, <1>9, <2>1 DEF ChangeInv, At
<1>12. FlagInv(t)'
  BY <1>4, <1>6, <1>a DEF FlagInv, Saving, Unsaved
<1>13. ASSUME NEW l \in Requesters PROVE LoadInv(l)' /\ KeptOut(t, l)'
  <2>1. CASE l = t
    BY <1>4, <1>6, <2>1 DEF LoadInv, KeptOut, At, Saving, Unsaved
  <2>2. CASE l # t /\ PlaceOf[l] = w
    <3>1. Same(l) /\ LoadInv(l) /\ ~At(l, "checked") /\ ~At(l, "looked")
      BY <1>7, <1>8, <2>2 DEF Alone
    <3>2. writing'[PlaceOf[l]].gen = writing[w].gen + 1 /\ writing[w].gen \in Nat
      BY <1>1, <1>9, <2>2
    <3> QED
      BY <1>1, <2>2, <3>1, <3>2 DEF LoadInv, KeptOut, At, Same
  <2>3. CASE l # t /\ PlaceOf[l] # w
    <3>1. Same(l) /\ LoadInv(l)
      BY <1>7, <2>3 DEF Alone
    <3>2. writing'[PlaceOf[l]] = writing[PlaceOf[l]] /\ memory'[PlaceOf[l]] = memory[PlaceOf[l]]
      BY <1>1, <1>9, <2>3
    <3> QED
      BY <1>9, <2>3, <3>1, <3>2 DEF LoadInv, KeptOut, At, Same
  <2> QED
    BY <2>1, <2>2, <2>3
<1>14. ASSUME NEW v \in Processes, writing'[v].pending
       PROVE  PlaceOf[t] = v /\ Saving(t)' /\ ~req'[t].orphan
  <2>1. v = w
    BY <1>2, <1>3, <1>9, <1>14, NobodyElsePending
  <2> QED
    BY <1>4, <1>6, <1>a, <1>14, <2>1 DEF Saving, Unsaved
<1> QED
  BY <1>10, <1>11, <1>12, <1>13, <1>14, AloneStep

LEMMA ChangeAlone ==
    ASSUME SettingsTypeOK, Alone, NEW t \in Changes,
           Change(t) \/ ChangeHeld(t) \/ ChangeInvalid(t), ~excused'
    PROVE  Alone'
<1>1. /\ req[t] \in ReqOf /\ PlaceOf[t] \in Processes /\ stored.rows \in SettingsOf
      /\ memory[PlaceOf[t]] \in SettingsOf /\ ChangeInv(t)
  BY SettingsAssumption DEF Requesters, SettingsTypeOK, ReqOf, Alone
<1>2. CASE Change(t)
  <2>1. PICK m \in Results(t, memory[PlaceOf[t]]) : Apply(t, m, "persist")
    BY <1>2 DEF Change
  <2>2. At(t, "loaded") /\ memory[PlaceOf[t]] = stored.rows
    BY <1>1, <1>2 DEF Change, ChangeInv, At
  <2> QED
    BY <2>1, <2>2, ApplyAlone
<1>3. CASE ChangeHeld(t)
  <2>1. PICK m \in Results(t, req[t].held) :
            Apply(t, [m EXCEPT !.active = memory[PlaceOf[t]].active], "persist")
    BY <1>3 DEF ChangeHeld
  <2>2. At(t, "held") /\ memory[PlaceOf[t]] = stored.rows /\ req[t].held = stored.rows
        /\ req[t].what \in InThread
    BY <1>1, <1>3 DEF ChangeHeld, ChangeInv, At
  <2>3. [m EXCEPT !.active = memory[PlaceOf[t]].active] = m
    <3>1. m \in SettingsOf
      BY <1>1, <2>1, <2>2, ResultsTyped DEF ReqOf
    <3>2. m.active = stored.rows.active
      <4>1. CASE req[t].what = "order"
        <5>1. m = [stored.rows EXCEPT !.misc = t]
          BY <2>1, <2>2, <4>1 DEF Results, Ordered
        <5> QED
          BY <1>1, <5>1 DEF SettingsOf
      <4>2. CASE req[t].what = "import"
        <5>1. m = [stored.rows EXCEPT !.preset[req[t].id] = t]
          BY <2>1, <2>2, <4>2 DEF Results, Imported
        <5> QED
          BY <1>1, <5>1 DEF SettingsOf
      <4> QED
        BY <2>2, <4>1, <4>2 DEF InThread
    <3> QED
      BY <2>2, <3>1, <3>2 DEF SettingsOf
  <2>4. Apply(t, m, "persist") /\ m \in Results(t, stored.rows)
    BY <2>1, <2>2, <2>3
  <2> QED
    BY <2>2, <2>4, ApplyAlone
<1>4. CASE ChangeInvalid(t)
  <2>1. PICK m \in Results(t, memory[PlaceOf[t]]) :
            Apply(t, [m EXCEPT !.active = memory[PlaceOf[t]].active], "done")
    BY <1>4 DEF ChangeInvalid
  <2>2. At(t, "loaded")
    BY <1>4 DEF ChangeInvalid
  <2> QED
    BY <2>1, <2>2, ApplyAlone
<1> QED
  BY <1>2, <1>3, <1>4

\* What a lone change stores is its result for what was stored.
LEMMA ReplaceStores ==
    ASSUME SettingsTypeOK, ActiveStored, Alone, NEW t \in Changes, Replace(t)
    PROVE  stored' \in [rows : ToStore(t), sections : {stored.sections}]
<1>1. /\ req[t] \in ReqOf /\ stored.rows \in SettingsOf /\ ChangeInv(t)
  BY SettingsAssumption DEF Requesters, SettingsTypeOK, ReqOf, Alone
<1>2. req[t].rows \in ToStore(t) /\ req[t].sections = stored.sections
  BY <1>1 DEF Replace, ChangeInv, At
<1>3. PICK r \in Normalized(req[t].rows) : stored' = [rows |-> r, sections |-> req[t].sections]
  BY DEF Replace
<1>4. Exists(req[t].rows, req[t].rows.active)
  <2>1. req[t].rows \in Results(t, stored.rows) \/ req[t].rows = stored.rows
    BY <1>2 DEF ToStore
  <2> QED
    BY <1>1, <2>1, ResultsTyped DEF ActiveStored, ReqOf
<1>5. r = req[t].rows
  BY <1>1, <1>3, <1>4, NormalizedActive DEF ReqOf
<1> QED
  BY <1>2, <1>3, <1>5

\* A change is over, one way or the other, or is given up.
LEMMA SaveAlone ==
    ASSUME SettingsTypeOK, ActiveStored, Alone, NEW t \in Changes, ~excused',
           Replace(t) \/ GiveUpRequest(t) \/ End(t) \/ StoreSection(t)
    PROVE  Alone'
<1>1. /\ t \in Requesters /\ req \in [Requesters -> ReqOf] /\ req[t] \in ReqOf
      /\ PlaceOf[t] \in Processes
      /\ writing \in [Processes -> [pending : BOOLEAN, gen : Nat]]
      /\ \A l \in Requesters : PlaceOf[l] \in Processes
  BY SettingsAssumption DEF Requesters, SettingsTypeOK, ReqOf
<1>2. UnderWay(t) /\ Lone(t)
  <2>1. UnderWay(t)
    BY DEF UnderWay, Replace, GiveUpRequest, End, StoreSection, At, Saving, Unsaved
  <2> QED
    BY <2>1, LoneHolds
<1>3. ChangeInv(t) /\ FlagInv(t) /\ \A l \in Requesters : LoadInv(l) /\ KeptOut(t, l)
  BY DEF Alone
<1>4. \A l \in Requesters \ {t} : req'[l] = req[l] /\ Same(l)
  BY <1>1 DEF Replace, GiveUpRequest, End, StoreSection, GoTo, Same
<1>5. Lone(t)' /\ \A u \in Changes \ {t} : ~req'[u].orphan
  BY <1>2, <1>4, LoneStep DEF Requesters
<1>6. \A w \in Processes : writing[w].pending => PlaceOf[t] = w /\ Saving(t) /\ ~req[t].orphan
  BY <1>2, NobodyElsePending
<1>7. \A l \in Requesters : writing'[PlaceOf[l]].gen = writing[PlaceOf[l]].gen
  BY <1>1 DEF Replace, GiveUpRequest, End, StoreSection
<1>8. CASE Replace(t)
  <2>1. /\ req'[t].pc = "saved" /\ req'[t].orphan = req[t].orphan /\ writing' = writing
        /\ memory' = memory /\ Saving(t) /\ ~At(t, "read") /\ ~At(t, "checked")
    BY <1>1, <1>8, KeptRequest DEF Replace, GoTo, Pcs, At, Saving, Unsaved
  <2>2. ChangeInv(t)' /\ FlagInv(t)'
    BY <1>3, <2>1 DEF ChangeInv, FlagInv, At, Saving, Unsaved
  <2>3. ASSUME NEW l \in Requesters PROVE LoadInv(l)' /\ KeptOut(t, l)'
    <3>1. CASE l = t
      BY <2>1, <3>1 DEF LoadInv, KeptOut, At
    <3>2. CASE l # t
      <4>1. At(l, "read") \/ At(l, "checked") => PlaceOf[l] = PlaceOf[t] /\ ~req[t].orphan
        <5>1. ~Unseen(t)
          BY <1>8 DEF Replace
        <5> QED
          BY <3>2, <5>1 DEF Unseen, At
      <4>2. ~At(l, "checked") /\ (At(l, "read") => req[l].gen # writing[PlaceOf[l]].gen)
        BY <1>3, <2>1, <4>1 DEF KeptOut, At
      <4> QED
        BY <1>3, <1>4, <2>1, <3>2, <4>2 DEF LoadInv, KeptOut, At
    <3> QED
      BY <3>1, <3>2
  <2>4. \A w \in Processes : writing'[w].pending => PlaceOf[t] = w /\ Saving(t)' /\ ~req'[t].orphan
    BY <1>6, <2>1 DEF Saving, Unsaved
  <2> QED
    BY <1>5, <2>2, <2>3, <2>4, AloneStep
<1>9. CASE GiveUpRequest(t)
  <2>1. /\ req' = [req EXCEPT ![t].orphan = TRUE] /\ stored' = stored /\ memory' = memory
        /\ writing' = [writing EXCEPT ![PlaceOf[t]].pending = FALSE] /\ Saving(t)
    BY <1>9 DEF GiveUpRequest
  <2>2. /\ req'[t].pc = req[t].pc /\ req'[t].orphan /\ req'[t].rows = req[t].rows
        /\ req'[t].what = req[t].what /\ req'[t].id = req[t].id
        /\ req'[t].sections = req[t].sections
    BY <1>1, <2>1 DEF ReqOf
  <2>3. ToStore(t) \subseteq ToStore(t)'
    BY <2>1, <2>2 DEF ToStore, Results
  <2>4. ChangeInv(t)' /\ FlagInv(t)'
    BY <1>3, <2>1, <2>2, <2>3 DEF ChangeInv, FlagInv, At, Saving, Unsaved
  <2>5. ASSUME NEW l \in Requesters PROVE LoadInv(l)' /\ KeptOut(t, l)'
    <3>1. KeptOut(t, l)'
      BY <2>2 DEF KeptOut
    <3>2. CASE l = t
      BY <2>1, <2>2, <3>1, <3>2 DEF LoadInv, At, Saving, Unsaved
    <3>3. CASE l # t
      BY <1>3, <1>4, <1>7, <2>1, <3>1, <3>3 DEF LoadInv, At
    <3> QED
      BY <3>2, <3>3
  <2>6. \A w \in Processes : ~writing'[w].pending
    BY <1>1, <1>6, <2>1
  <2> QED
    BY <1>5, <2>4, <2>5, <2>6, AloneStep
<1>10. CASE End(t) \/ StoreSection(t)
  <2>1. /\ req'[t].pc \in {"section", "done"} /\ ~req'[t].orphan /\ stored'.rows = stored.rows
    <3>1. PICK pc \in {"section", "done"} : req' = [req EXCEPT ![t] = Kept(req[t], pc)]
      BY <1>10 DEF End, StoreSection, GoTo
    <3>2. Kept(req[t], pc) = [Idle EXCEPT !.pc = pc]
      BY <1>1, KeptRequest DEF Pcs
    <3>3. stored'.rows = stored.rows
      BY <1>10 DEF End, StoreSection, SettingsTypeOK
    <3> QED
      BY <1>1, <3>1, <3>2, <3>3 DEF Idle
  <2>2. ChangeInv(t)' /\ FlagInv(t)' /\ ~Saving(t)'
    BY <2>1 DEF ChangeInv, FlagInv, At, Saving, Unsaved
  <2>3. ASSUME NEW l \in Requesters PROVE LoadInv(l)' /\ KeptOut(t, l)'
    <3>1. CASE l = t
      BY <2>1, <2>2, <3>1 DEF LoadInv, KeptOut, At
    <3>2. CASE l # t
      <4>1. At(l, "looked") => memory'[PlaceOf[l]] = memory[PlaceOf[l]]
        <5>1. CASE memory' = memory
          BY <5>1
        <5>2. CASE memory' # memory
          <6>1. End(t) /\ ~Behind(PlaceOf[t])
            BY <1>10, <5>2 DEF End, StoreSection
          <6>2. \A w \in Processes \ {PlaceOf[t]} : memory'[w] = memory[w]
            BY <1>1, <6>1 DEF End, RolledBack, SettingsTypeOK
          <6> QED
            BY <1>1, <6>1, <6>2 DEF Behind
        <5> QED
          BY <5>1, <5>2
      <4> QED
        BY <1>3, <1>4, <1>7, <2>1, <2>2, <3>2, <4>1 DEF LoadInv, KeptOut, At
    <3> QED
      BY <3>1, <3>2
  <2>4. \A w \in Processes : ~writing'[w].pending
    <3>1. CASE End(t) /\ ~req[t].orphan
      BY <1>1, <1>6, <3>1 DEF End
    <3>2. CASE End(t) /\ req[t].orphan
      BY <1>6, <3>2 DEF End
    <3>3. CASE StoreSection(t)
      BY <1>6, <3>3 DEF StoreSection, At, Saving, Unsaved
    <3> QED
      BY <1>10, <3>1, <3>2, <3>3
  <2> QED
    BY <1>5, <2>2, <2>3, <2>4, AloneStep
<1> QED
  BY <1>8, <1>9, <1>10

LEMMA ActiveStoredStep ==
    ASSUME SettingsTypeOK, ActiveStored, [SettingsNext]_settingsVars
    PROVE  ActiveStored'
<1>1. CASE stored'.rows = stored.rows
  BY <1>1 DEF ActiveStored, Exists
<1>2. CASE stored'.rows # stored.rows
  <2>1. PICK t \in Changes : Replace(t) \/ StoreSection(t)
    <3>1. stored' # stored
      BY <1>2
    <3> QED
      BY <3>1
      DEF SettingsNext, settingsVars, Begin, LoadSteps, LoadStart, LoadRows, LoadCheck, LoadApply,
          Look, PutBack, ChangeSteps, Disturb, Refuse, Hold, Change, ChangeHeld, ChangeInvalid,
          Apply, Snapshot, ReadSections, End, NoSection, MergeSection, SaveFails, GiveUpRequest
  <2>2. ~StoreSection(t)
    BY <1>2 DEF StoreSection, SettingsTypeOK
  <2>3. PICK r \in Normalized(req[t].rows) : stored' = [rows |-> r, sections |-> req[t].sections]
    BY <2>1, <2>2 DEF Replace
  <2>4. req[t].rows \in SettingsOf
    BY DEF SettingsTypeOK, Requesters, ReqOf
  <2>5. Exists(r, r.active) /\ stored'.rows = r
    BY <2>3, <2>4, NormalizedActive
  <2> QED
    BY <2>5 DEF ActiveStored, Exists
<1> QED
  BY <1>1, <1>2

LEMMA AskedTyped ==
    \A t \in Changes : \A q \in AskedOf[t] : q[1] \in Kinds /\ q[2] \in PresetIds
  BY SettingsAssumption

LEMMA AloneInductive ==
    ASSUME SettingsTypeOK, ActiveStored, Alone, SettingsNext, ~excused'
    PROVE  Alone'
<1>1. ASSUME NEW t \in Changes, NEW what \in Kinds, NEW i \in PresetIds, Begin(t, what, i)
      PROVE  Alone'
  BY <1>1, BeginAlone
<1>2. ASSUME NEW t \in Requesters, LoadSteps(t) \/ Look(t) PROVE Alone'
  <2>1. CASE LoadApply(t)
    BY <2>1, LoadApplyAlone
  <2>2. CASE LoadStart(t) \/ LoadRows(t) \/ LoadCheck(t)
    BY <2>2, OwnChangeAlone, OtherLoadAlone DEF Requesters
  <2>3. CASE Look(t) \/ PutBack(t)
    <3>1. t \in Loads
      BY <2>3 DEF Look, PutBack, Alone, LoadInv
    <3> QED
      BY <2>3, <3>1, OtherLoadAlone
  <2> QED
    BY <1>2, <2>1, <2>2, <2>3 DEF LoadSteps
<1>3. ASSUME NEW t \in Changes, ChangeSteps(t) \/ Disturb(t) PROVE Alone'
  <2>1. CASE \/ Refuse(t) \/ Hold(t) \/ Snapshot(t) \/ ReadSections(t) \/ SaveFails(t)
             \/ NoSection(t) \/ MergeSection(t)
    BY <2>1, OwnChangeAlone
  <2>2. CASE Change(t) \/ ChangeHeld(t) \/ ChangeInvalid(t)
    BY <2>2, ChangeAlone
  <2>3. CASE Replace(t) \/ GiveUpRequest(t) \/ End(t) \/ StoreSection(t)
    BY <2>3, SaveAlone
  <2> QED
    BY <1>3, <2>1, <2>2, <2>3 DEF ChangeSteps, Disturb
<1> QED
  BY <1>1, <1>2, <1>3, AskedTyped DEF SettingsNext

\* What was excused stays excused.
LEMMA ExcusedStays ==
    ASSUME [SettingsNext]_settingsVars, excused
    PROVE  excused'
  BY DEF SettingsNext, settingsVars, Begin, LoadSteps, LoadStart, LoadRows, LoadCheck, LoadApply,
         Look, PutBack, ChangeSteps, Disturb, Refuse, Hold, Change, ChangeHeld, ChangeInvalid,
         Apply, Snapshot, ReadSections, Replace, End, NoSection, MergeSection, StoreSection,
         SaveFails, GiveUpRequest

LEMMA SettingsInvInductive ==
    ASSUME SettingsInv, [SettingsNext]_settingsVars
    PROVE  SettingsInv'
<1>1. SettingsTypeOK'
  <2>1. CASE UNCHANGED settingsVars
    BY <2>1 DEF SettingsInv, SettingsTypeOK, settingsVars
  <2>2. CASE SettingsNext
    BY <2>2, AskedTyped, BeginTyped, LookTyped, TypeStepLoads, TypeStepChanges
    DEF SettingsNext, SettingsInv
  <2> QED
    BY <2>1, <2>2
<1>2. ActiveStored'
  BY ActiveStoredStep DEF SettingsInv
<1>3. excused' \/ Alone'
  <2>1. CASE UNCHANGED settingsVars
    <3>1. /\ \A t \in Changes : (ChangeInv(t) => ChangeInv(t)') /\ (FlagInv(t) => FlagInv(t)')
                                /\ UnderWay(t)' = UnderWay(t) /\ Saving(t)' = Saving(t)
          /\ \A l \in Requesters : LoadInv(l) => LoadInv(l)'
      BY <2>1
      DEF settingsVars, UnderWay, ChangeInv, FlagInv, LoadInv, ToStore, Results, Saving, Unsaved, At
    <3>2. \A t \in Changes, l \in Requesters : KeptOut(t, l) => KeptOut(t, l)'
      BY <2>1, <3>1 DEF settingsVars, KeptOut, At
    <3>3. Alone => Alone'
      BY <2>1, <3>1, <3>2 DEF settingsVars, Alone
    <3> QED
      BY <2>1, <3>3 DEF SettingsInv, settingsVars
  <2>2. CASE SettingsNext
    BY <2>2, AloneInductive, ExcusedStays DEF SettingsInv
  <2> QED
    BY <2>1, <2>2
<1> QED
  BY <1>1, <1>2, <1>3 DEF SettingsInv

\* The inductive invariant of the settings (services/presets.py): types, the
\* active preset, and that a change that is alone saves what it made of the
\* stored settings.
THEOREM AlwaysSettingsInv == SettingsSpec => []SettingsInv
<1>1. SettingsInv /\ [SettingsNext]_settingsVars => SettingsInv'
  BY SettingsInvInductive
<1> QED
  BY InitSettingsInv, <1>1, PTL DEF SettingsSpec

\* The active preset that is stored exists, with any number of processes,
\* requests, loads and presets (settings_store.py:_normalize_settings).
THEOREM ActiveStoredHolds == SettingsSpec => []ActiveStored
<1>1. SettingsInv => ActiveStored
  BY DEF SettingsInv
<1> QED
  BY AlwaysSettingsInv, <1>1, PTL

\* What changes the tables while one change at a time is under way.
LEMMA StoresOnce ==
    ASSUME SettingsInv, [SettingsNext]_settingsVars
    PROVE  \/ excused' \/ stored' = stored
           \/ \E t \in Changes :
                \/ stored'.rows \in Results(t, stored.rows) /\ stored'.sections = stored.sections
                \/ stored' = [stored EXCEPT !.sections = @ \cup {t}]
<1> SUFFICES ASSUME ~excused', stored' # stored
             PROVE  \E t \in Changes :
                \/ stored'.rows \in Results(t, stored.rows) /\ stored'.sections = stored.sections
                \/ stored' = [stored EXCEPT !.sections = @ \cup {t}]
  OBVIOUS
<1>1. SettingsTypeOK /\ ActiveStored /\ Alone
  BY ExcusedStays DEF SettingsInv
<1>2. PICK t \in Changes : Replace(t) \/ StoreSection(t)
  BY DEF SettingsNext, settingsVars, Begin, LoadSteps, LoadStart, LoadRows, LoadCheck, LoadApply,
         Look, PutBack, ChangeSteps, Disturb, Refuse, Hold, Change, ChangeHeld, ChangeInvalid,
         Apply, Snapshot, ReadSections, End, NoSection, MergeSection, SaveFails, GiveUpRequest
<1>3. CASE Replace(t)
  <2>1. stored' \in [rows : ToStore(t), sections : {stored.sections}]
    BY <1>1, <1>3, ReplaceStores
  <2>2. stored'.rows # stored.rows
    BY <1>1, <2>1 DEF SettingsTypeOK
  <2>3. stored'.rows \in Results(t, stored.rows)
    BY <2>1, <2>2 DEF ToStore
  <2> QED
    BY <2>1, <2>3
<1>4. CASE StoreSection(t)
  <2>1. req[t].sections = stored.sections \cup {t}
    BY <1>1, <1>4 DEF Alone, ChangeInv, StoreSection, At
  <2> QED
    BY <1>4, <2>1 DEF StoreSection
<1> QED
  BY <1>2, <1>3, <1>4

\* A save changes what its request asked for and takes back nothing of what
\* was changed before, whatever loads and requests that are given up do to the
\* copy it is made of, as long as one change at a time is under way
\* (presets.py:persist_api_settings, load_api_settings).
THEOREM SavesApplyOnceHolds == SettingsSpec => SavesApplyOnce
<1>1. SettingsInv /\ [SettingsNext]_settingsVars =>
        [\/ excused' \/ stored' = stored
         \/ \E t \in Changes :
              \/ stored'.rows \in Results(t, stored.rows) /\ stored'.sections = stored.sections
              \/ stored' = [stored EXCEPT !.sections = @ \cup {t}]]_settingsVars
  BY StoresOnce
<1> QED
  BY AlwaysSettingsInv, <1>1, PTL DEF SettingsSpec, SavesApplyOnce

-----------------------------------------------------------------------------
(* The start of the processes (DatabaseStart): the file and the migrations. *)

\* An open transaction has what the file has, and more.
DraftExtends ==
    holder # NoStarter =>
        disk.items \subseteq draft.items /\ disk.recorded \subseteq draft.recorded

\* What a file has of the migrations that it records.
Whole(d) == \A v \in d.recorded : PartsOf[v] \subseteq d.items \cup torn

\* What a file that is not upgraded may have.
NotYet(d) ==
    /\ d.recorded = 1 .. before
    /\ d.items \subseteq Reached[before]
           \cup IF before = 0 THEN NewColumns ELSE PartsOf[before + 1]

\* The file has the version it had or the last one.
FileInv ==
    /\ DraftExtends
    /\ disk.recorded = Versions \/ NotYet(disk)
    /\ before # 0 => disk.items # {}
    /\ Whole(disk) /\ (holder # NoStarter => Whole(draft))

\* A process at a migration: all before it are recorded, its own are done up
\* to k, and a step that it will leave out has been done.
AtMigration(p) ==
    LET b == boot[p]
    IN  /\ b.v \in Versions /\ b.known = 1 .. b.v - 1 /\ b.k # 0
        /\ b.known \subseteq Sees(p).recorded
        /\ holder # p => before # 0 /\ b.v = before + 1
        /\ \A i \in DOMAIN StepsOf[b.v] :
             StepsOf[b.v][i].kind # "look" /\ (i < b.k \/ StepsOf[b.v][i].guard \in b.seen) =>
                 StepsOf[b.v][i].part \in Sees(p).items \cup torn

SearchPcs == {"search", "settle", "untrigger", "drop", "table", "publish", "triggers",
              "rebuild", "commit"}

\* What a process has read or done of the versions.
Knows(p) ==
    /\ Stands(p, "run") => AtMigration(p)
    /\ boot[p].pc \in SearchPcs => Sees(p).recorded = Versions
    /\ Stands(p, "ready") => disk.recorded = Versions

UpgradeInv ==
    /\ StartTypeOK /\ FileInv
    /\ \A p \in Starters : Knows(p)

\* Where a process is that has a transaction open, and what it sees of the index.
HolderAt(p) ==
    LET b == boot[p]
    IN  \/ b.pc \in {"run", "search", "settle"} /\ draft.search = disk.search
        \/ /\ b.pc \in {"table", "publish"} /\ ~b.rebuild
           /\ draft.search = disk.search /\ disk.search.table
        \/ /\ b.pc = "commit" /\ b.rebuild
           /\ draft.search = [disk.search EXCEPT !.whole = TRUE, !.key = TRUE]

\* p will make the triggers again.
Triggering(p) == boot[p].rebuild /\ boot[p].pc \in {"drop", "table", "publish", "triggers"}
\* p believes that they are there and fills the index.
Filling(p) ==
    /\ boot[p].rebuild
    /\ Stands(p, "rebuild") \/ (Stands(p, "commit") /\ holder = p)

\* An index with a valid key has all images and gets new ones, or someone will
\* care for it, or the next to start.
Tended ==
    disk.search.key /\ ~(disk.search.whole /\ disk.search.triggers) =>
        \/ orphaned
        \/ \E p \in Starters : Rebuilding(p)
        \/ ~disk.search.table /\ \A p \in Starters : ~Trusting(p)

Triggered ==
    ~disk.search.triggers /\ (\E p \in Starters : Filling(p)) =>
        orphaned \/ \E p \in Starters : Triggering(p)

\* The open transaction of p, and what p rebuilds.
AtSearch(p) ==
    /\ holder = p => HolderAt(p)
    /\ boot[p].pc \in {"settle", "untrigger", "drop", "rebuild"} => boot[p].rebuild
    /\ boot[p].pc = "commit" /\ boot[p].rebuild => holder = p

SearchInv ==
    /\ \A p \in Starters : AtSearch(p)
    /\ Tended /\ Triggered

Boots == [pc : StartPcs, v : 0 .. Last, k : Nat, seen : SUBSET Items,
          known : SUBSET Versions, rebuild : BOOLEAN]

-----------------------------------------------------------------------------
(* Operators                                                               *)

LEMMA PartsInItems ==
    ASSUME NEW v \in Versions
    PROVE  PartsOf[v] \subseteq Items
  BY DEF Items

LEMMA StepFacts ==
    ASSUME NEW v \in Versions, NEW i \in DOMAIN StepsOf[v]
    PROVE  /\ i \in Nat /\ 1 <= i /\ i <= Len(StepsOf[v])
           /\ StepsOf[v][i] \in StepsIn(v)
           /\ StepsOf[v][i].kind # "look" =>
                StepsOf[v][i].part \in PartsOf[v] /\ StepsOf[v][i].part \in Items
<1>1. DOMAIN StepsOf[v] = 1 .. Len(StepsOf[v]) /\ Len(StepsOf[v]) \in Nat
  BY StartAssumption
<1>2. StepsOf[v][i] \in StepsIn(v)
  BY DEF StepsIn
<1>3. StepsOf[v][i].kind # "look" => StepsOf[v][i].part \in PartsOf[v]
  BY <1>2 DEF PartsOf
<1> QED
  BY <1>1, <1>2, <1>3, PartsInItems

\* All parts of a migration come from its steps.
LEMMA PartsFromSteps ==
    ASSUME NEW v \in Versions, NEW x \in PartsOf[v]
    PROVE  \E i \in DOMAIN StepsOf[v] : StepsOf[v][i].kind # "look" /\ StepsOf[v][i].part = x
  BY DEF PartsOf, StepsIn

LEMMA ReachedInItems ==
    ASSUME NEW n \in 0 .. Last
    PROVE  /\ Reached[n] \subseteq Items
           /\ Always \subseteq Reached[n]
           /\ \A v \in 1 .. n : PartsOf[v] \subseteq Reached[n]
<1>1. 1 .. n \subseteq Versions
  BY StartAssumption DEF Versions
<1>2. UNION {PartsOf[v] : v \in 1 .. n} \subseteq Items
  BY <1>1, PartsInItems
<1>3. Reached[n] = (NewColumns \ UNION {PartsOf[v] : v \in n + 1 .. Last})
                       \cup Always \cup UNION {PartsOf[v] : v \in 1 .. n}
  BY DEF Reached
<1>4. NewColumns \subseteq Items /\ Always \subseteq Items
  BY DEF Items
<1> QED
  BY <1>2, <1>3, <1>4

LEMMA BootingTyped ==
    ASSUME NEW pc \in StartPcs, NEW v \in 0 .. Last, NEW k \in Nat, NEW known \in SUBSET Versions
    PROVE  Booting(pc, v, k, known) \in Boots
  BY DEF Booting, Boots

LEMMA NextUpIs ==
    ASSUME NEW m \in 0 .. Last
    PROVE  /\ m = Last => NextUp(1 .. m) = Booting("search", 0, 0, 1 .. m)
           /\ m < Last => NextUp(1 .. m) = Booting("run", m + 1, 1, 1 .. m)
           /\ NextUp(1 .. m) \in Boots
<1>1. m = Last => Pending(1 .. m) = {}
  BY StartAssumption DEF Pending, Versions
<1>2. ASSUME m < Last
      PROVE  /\ m + 1 \in Pending(1 .. m) /\ m + 1 \in 0 .. Last
             /\ (CHOOSE v \in Pending(1 .. m) : \A u \in Pending(1 .. m) : v <= u) = m + 1
  <2>1. Pending(1 .. m) = m + 1 .. Last /\ m + 1 \in m + 1 .. Last
    BY <1>2, StartAssumption DEF Pending, Versions
  <2>2. \A v \in m + 1 .. Last : (\A u \in m + 1 .. Last : v <= u) <=> v = m + 1
    BY <1>2, StartAssumption
  <2> QED
    BY <1>2, <2>1, <2>2, StartAssumption
<1>3. m = Last \/ m < Last
  BY StartAssumption
<1>4. 1 .. m \subseteq Versions
  BY StartAssumption DEF Versions
<1>5. CASE m = Last
  <2>1. NextUp(1 .. m) = Booting("search", 0, 0, 1 .. m)
    BY <1>1, <1>5 DEF NextUp
  <2> QED
    BY <1>4, <1>5, <2>1, BootingTyped, StartAssumption DEF StartPcs
<1>6. CASE m < Last
  <2>1. NextUp(1 .. m) = Booting("run", m + 1, 1, 1 .. m)
    BY <1>2, <1>6 DEF NextUp
  <2> QED
    BY <1>2, <1>4, <1>6, <2>1, BootingTyped, StartAssumption DEF StartPcs
<1> QED
  BY <1>3, <1>5, <1>6

-----------------------------------------------------------------------------
(* What a step of p does to the file, and what the others see of it.       *)

FileStep(p) ==
    /\ disk' \in FileOf /\ draft' \in FileOf /\ holder' \in Starters \cup {NoStarter}
    /\ FileInv'
    /\ disk.recorded \subseteq disk'.recorded
    /\ \A q \in Starters \ {p} :
         /\ holder' = q <=> holder = q
         /\ Sees(q).items \subseteq Sees(q)'.items
         /\ Sees(q).recorded \subseteq Sees(q)'.recorded

Steady == torn \subseteq torn' /\ before' = before

LEMMA SameStep ==
    ASSUME StartTypeOK, FileInv, NEW p \in Starters, Steady, UNCHANGED <<disk, draft, holder>>
    PROVE  FileStep(p) /\ Sees(p)' = Sees(p)
  BY DEF StartTypeOK, FileInv, FileStep, Steady, DraftExtends, NotYet, Whole, Sees

\* d has what p sees, and more.
Extending(p, d) ==
    /\ d \in FileOf
    /\ Sees(p).items \subseteq d.items /\ Sees(p).recorded \subseteq d.recorded

LEMMA PutStep ==
    ASSUME StartTypeOK, FileInv, NEW p \in Starters, Steady, NEW d, Put(p, d), Extending(p, d),
           d.recorded = Sees(p).recorded,
           holder = NoStarter => disk.recorded = Versions \/ NotYet(d)
    PROVE  FileStep(p) /\ Sees(p)' = d /\ (holder' = p <=> holder = p)
<1> USE DEF StartTypeOK, FileInv, FileStep, Steady, DraftExtends, NotYet, Whole, Sees, Extending
<1>1. p # NoStarter
  BY StartAssumption
<1>2. CASE d = Sees(p)
  BY <1>2 DEF Put
<1>3. CASE d # Sees(p) /\ holder = p
  BY <1>1, <1>3 DEF Put
<1>4. CASE d # Sees(p) /\ holder # p
  BY <1>1, <1>4, StartAssumption DEF Put
<1> QED
  BY <1>2, <1>3, <1>4

LEMMA EnterStep ==
    ASSUME StartTypeOK, FileInv, NEW p \in Starters, Steady, NEW d, Enter(p, d), Extending(p, d),
           Whole(d)
    PROVE  FileStep(p) /\ Sees(p)' = d /\ holder' = p
<1>1. p # NoStarter
  BY StartAssumption
<1> QED
  BY <1>1, StartAssumption
  DEF StartTypeOK, FileInv, FileStep, Steady, DraftExtends, NotYet, Whole, Sees, Extending, Enter

LEMMA BlankIsFile == Blank \in FileOf
  BY DEF Blank, FileOf, NoSearch, SearchOf

LEMMA CommitStep ==
    ASSUME StartTypeOK, FileInv, NEW p \in Starters, Steady, Commit(p), Sees(p).recorded = Versions
    PROVE  FileStep(p) /\ Sees(p)' = Sees(p) /\ holder' # p
<1>1. p # NoStarter
  BY StartAssumption
<1>2. CASE holder = p
  BY <1>1, <1>2, StartAssumption, BlankIsFile
  DEF StartTypeOK, FileInv, FileStep, Steady, DraftExtends, NotYet, Whole, Sees, Commit
<1>3. CASE holder # p
  BY <1>3, SameStep DEF Commit
<1> QED
  BY <1>2, <1>3

LEMMA RollbackStep ==
    ASSUME StartTypeOK, FileInv, NEW p \in Starters, Steady, Rollback(p)
    PROVE  FileStep(p) /\ holder' # p
<1>1. p # NoStarter
  BY StartAssumption
<1>2. CASE holder = p
  BY <1>1, <1>2, StartAssumption, BlankIsFile
  DEF StartTypeOK, FileInv, FileStep, Steady, DraftExtends, NotYet, Whole, Sees, Rollback
<1>3. CASE holder # p
  BY <1>3, SameStep DEF Rollback
<1> QED
  BY <1>2, <1>3

-----------------------------------------------------------------------------
(* A step of p leaves the others what they know.                           *)

\* Only p goes on.
Moves(p, b) ==
    /\ boot' \in [Starters -> Boots] /\ boot'[p] = b
    /\ \A q \in Starters \ {p} : boot'[q] = boot[q]

LEMMA MovesTo ==
    ASSUME StartTypeOK, NEW p \in Starters, NEW b \in Boots, boot' = [boot EXCEPT ![p] = b]
    PROVE  Moves(p, b)
  BY DEF StartTypeOK, Boots, Moves

LEMMA OthersKnow ==
    ASSUME UpgradeInv, NEW p \in Starters, NEW b, Moves(p, b), FileStep(p), Steady,
           NEW q \in Starters \ {p}
    PROVE  Knows(q)'
<1>1. /\ boot'[q] = boot[q] /\ before' = before /\ torn \subseteq torn'
      /\ (holder' = q <=> holder = q)
      /\ Sees(q).items \subseteq Sees(q)'.items
      /\ Sees(q).recorded \subseteq Sees(q)'.recorded
      /\ disk.recorded \subseteq disk'.recorded
  BY DEF Moves, FileStep, Steady
<1>2. Sees(q)' \in FileOf /\ disk' \in FileOf
  BY DEF FileStep, Sees
<1>3. Sees(q)'.recorded \subseteq Versions /\ disk'.recorded \subseteq Versions
  BY <1>2 DEF FileOf
<1>4. Knows(q)
  BY DEF UpgradeInv
<1>5. Stands(q, "run") => AtMigration(q)'
  BY <1>1, <1>4 DEF Knows, AtMigration
<1> QED
  BY <1>1, <1>3, <1>4, <1>5 DEF Knows, Stands

LEMMA UpgradeStep ==
    ASSUME UpgradeInv, NEW p \in Starters, NEW b, Moves(p, b), FileStep(p), Steady,
           Knows(p)', breaks' \in Nat, torn' \subseteq Items, orphaned' \in BOOLEAN
    PROVE  UpgradeInv'
<1>1. \A q \in Starters : Knows(q)'
  BY OthersKnow
<1>2. StartTypeOK'
  BY DEF UpgradeInv, StartTypeOK, Moves, FileStep, Steady, Boots
<1> QED
  BY <1>1, <1>2 DEF UpgradeInv, FileStep

-----------------------------------------------------------------------------
(* The actions of a process keep UpgradeInv.                               *)

LEMMA GoesOn ==
    ASSUME StartTypeOK, NEW p \in Starters, NEW pc \in StartPcs, GoOn(p, pc)
    PROVE  Moves(p, [boot[p] EXCEPT !.pc = pc])
  BY DEF StartTypeOK, Moves, GoOn, Boots

LEMMA StepsOn ==
    ASSUME StartTypeOK, NEW p \in Starters, StepOn(p)
    PROVE  Moves(p, [boot[p] EXCEPT !.k = @ + 1])
  BY DEF StartTypeOK, Moves, StepOn, Boots

LEMMA GoesDown ==
    ASSUME StartTypeOK, NEW p \in Starters, boot' = [boot EXCEPT ![p] = Down]
    PROVE  Moves(p, Down) /\ Knows(p)'
<1>1. Down \in Boots
  BY BootingTyped, StartAssumption DEF Down, StartPcs
<1>2. Moves(p, Down)
  BY <1>1, MovesTo
<1> QED
  BY <1>2 DEF Moves, Knows, Stands, Down, Booting, SearchPcs

\* The next migration after m, or the index.
LEMMA NextKnows ==
    ASSUME NEW p \in Starters, NEW m \in 1 .. Last, Moves(p, NextUp(1 .. m)), FileStep(p), Steady,
           1 .. m \subseteq Sees(p)'.recorded,
           m < Last => (holder' # p => before' = m)
    PROVE  Knows(p)'
<1>1. m \in 0 .. Last /\ boot'[p] = NextUp(1 .. m)
  BY StartAssumption DEF Moves
<1>2. CASE m = Last
  <2>1. boot'[p] = Booting("search", 0, 0, 1 .. m)
    BY <1>1, <1>2, NextUpIs
  <2>2. Sees(p)'.recorded \subseteq Versions
    BY DEF FileStep, FileOf, Sees
  <2>3. Sees(p)'.recorded = Versions
    BY <1>2, <2>2 DEF Versions
  <2>4. boot'[p].pc = "search"
    BY <2>1 DEF Booting
  <2> QED
    BY <2>3, <2>4 DEF Knows, Stands
<1>3. CASE m < Last
  <2>1. boot'[p] = Booting("run", m + 1, 1, 1 .. m)
    BY <1>1, <1>3, NextUpIs
  <2>2. m + 1 \in Versions /\ (m + 1) - 1 = m
    BY <1>3, StartAssumption DEF Versions
  <2>3. \A i \in DOMAIN StepsOf[m + 1] : ~(i < 1)
    BY <2>2, StepFacts
  <2>4. AtMigration(p)'
    BY <1>3, <2>1, <2>2, <2>3 DEF AtMigration, Booting
  <2> QED
    BY <2>1, <2>4 DEF Knows, Stands, Booting, SearchPcs
<1> QED
  BY <1>2, <1>3, StartAssumption

LEMMA BaseScriptKeeps ==
    ASSUME UpgradeInv, NEW p \in Starters, BaseScript(p)
    PROVE  UpgradeInv'
<1>1. StartTypeOK /\ FileInv /\ Steady
  BY DEF UpgradeInv, BaseScript, Steady
<1> DEFINE more == Always \cup IF disk.items = {} THEN NewColumns ELSE {}
<1>2. more \subseteq Items /\ (disk.items = {} \/ more = Always)
  BY DEF Items
<1>3. disk' = [disk EXCEPT !.items = @ \cup more]
  BY DEF BaseScript
<1>4. disk' \in FileOf /\ disk.items \subseteq disk'.items /\ disk'.recorded = disk.recorded
      /\ disk'.items = disk.items \cup more /\ disk'.items # {}
  BY <1>1, <1>2, <1>3, StartAssumption DEF StartTypeOK, FileOf
<1>5. NotYet(disk) => NotYet(disk)'
  <2>1. Always \subseteq Reached[before]
    BY <1>1, ReachedInItems DEF StartTypeOK
  <2>2. more \subseteq Reached[before] \cup IF before = 0 THEN NewColumns ELSE PartsOf[before + 1]
    BY <1>1, <1>2, <2>1 DEF FileInv
  <2> QED
    BY <1>1, <1>4, <2>2 DEF NotYet, Steady
<1> HIDE DEF more
<1>6. FileStep(p)
  BY <1>1, <1>4, <1>5, StartAssumption
  DEF BaseScript, FileStep, FileInv, StartTypeOK, DraftExtends, Whole, Sees
<1>7. Moves(p, [boot[p] EXCEPT !.pc = "versions"])
  BY <1>1, GoesOn DEF BaseScript, StartPcs
<1>8. Knows(p)'
  BY <1>1, <1>7 DEF Moves, Knows, Stands, SearchPcs, StartTypeOK
<1> QED
  BY <1>1, <1>6, <1>7, <1>8, UpgradeStep DEF BaseScript, StartTypeOK

LEMMA ReadVersionsKeeps ==
    ASSUME UpgradeInv, NEW p \in Starters, ReadVersions(p)
    PROVE  UpgradeInv'
<1>1. StartTypeOK /\ FileInv /\ Steady
  BY DEF UpgradeInv, ReadVersions, Steady
<1>2. FileStep(p) /\ Sees(p)' = Sees(p)
  BY <1>1, SameStep DEF ReadVersions
<1>3. CASE disk.recorded = {}
  <2>1. Moves(p, [boot[p] EXCEPT !.pc = "baseline"])
    BY <1>1, <1>3, GoesOn DEF ReadVersions, StartPcs
  <2>2. Knows(p)'
    BY <1>1, <2>1 DEF Moves, Knows, Stands, SearchPcs, StartTypeOK
  <2> QED
    BY <1>1, <1>2, <2>1, <2>2, UpgradeStep DEF ReadVersions, StartTypeOK
<1>4. CASE disk.recorded # {}
  <2>1. PICK m \in 1 .. Last : disk.recorded = 1 .. m /\ (m < Last => before = m)
    <3>1. CASE disk.recorded = Versions
      BY <3>1, StartAssumption DEF Versions
    <3>2. CASE disk.recorded = 1 .. before
      BY <1>1, <1>4, <3>2, StartAssumption DEF StartTypeOK
    <3> QED
      BY <1>1, <3>1, <3>2 DEF FileInv, NotYet
  <2>2. NextUp(1 .. m) \in Boots
    BY NextUpIs, StartAssumption
  <2>3. Moves(p, NextUp(1 .. m))
    BY <1>1, <1>4, <2>1, <2>2, MovesTo DEF ReadVersions
  <2>4. 1 .. m \subseteq Sees(p).recorded
    BY <1>1, <2>1, StartAssumption DEF FileInv, DraftExtends, Sees
  <2>5. Knows(p)'
    BY <1>1, <1>2, <2>1, <2>3, <2>4, NextKnows DEF Steady
  <2> QED
    BY <1>1, <1>2, <2>3, <2>5, UpgradeStep DEF ReadVersions, StartTypeOK
<1> QED
  BY <1>3, <1>4

\* p records m after what it has recorded.
LEMMA RecordsNext ==
    ASSUME UpgradeInv, NEW p \in Starters, NEW m \in 1 .. Last, Steady,
           Enter(p, [Sees(p) EXCEPT !.recorded = @ \cup {m}]),
           boot' = [boot EXCEPT ![p] = NextUp(1 .. m)],
           1 .. m - 1 \subseteq Sees(p).recorded, PartsOf[m] \subseteq Sees(p).items \cup torn,
           UNCHANGED <<breaks, torn, orphaned>>
    PROVE  UpgradeInv'
<1>1. StartTypeOK /\ FileInv /\ m \in Versions
  BY DEF UpgradeInv, Versions
<1> DEFINE d == [Sees(p) EXCEPT !.recorded = @ \cup {m}]
<1>2. Sees(p) \in FileOf /\ Whole(Sees(p))
  BY <1>1, StartAssumption DEF StartTypeOK, Sees, FileInv
<1>3. d \in FileOf /\ d.items = Sees(p).items /\ d.recorded = Sees(p).recorded \cup {m}
  BY <1>1, <1>2 DEF FileOf
<1>4. Whole(d)
  BY <1>2, <1>3 DEF Whole
<1>5. Enter(p, d) /\ Extending(p, d)
  BY <1>3 DEF Extending
<1> HIDE DEF d
<1>6. FileStep(p) /\ Sees(p)' = d /\ holder' = p
  BY <1>1, <1>4, <1>5, EnterStep
<1>7. NextUp(1 .. m) \in Boots
  BY NextUpIs, StartAssumption
<1>8. Moves(p, NextUp(1 .. m))
  BY <1>1, <1>7, MovesTo
<1>9. 1 .. m \subseteq Sees(p)'.recorded
  BY <1>3, <1>6
<1>10. Knows(p)'
  BY <1>6, <1>8, <1>9, NextKnows
<1> QED
  BY <1>1, <1>6, <1>8, <1>10, UpgradeStep DEF StartTypeOK

LEMMA BaselineKeeps ==
    ASSUME UpgradeInv, NEW p \in Starters, Baseline(p)
    PROVE  UpgradeInv'
<1>1. {1} = 1 .. 1 /\ 1 .. 1 - 1 = {} /\ 1 \in 1 .. Last /\ PartsOf[1] = {}
  BY StartAssumption
<1> QED
  BY <1>1, RecordsNext DEF Baseline, Steady

\* Where p is at a migration.
LEMMA RunFacts ==
    ASSUME UpgradeInv, NEW p \in Starters, Running(p)
    PROVE  /\ StartTypeOK /\ FileInv /\ AtMigration(p)
           /\ boot[p].v \in Versions /\ boot[p].k \in DOMAIN StepsOf[boot[p].v]
           /\ boot[p].k \in Nat
<1>1. StartTypeOK /\ FileInv /\ Knows(p)
  BY DEF UpgradeInv
<1>2. AtMigration(p) /\ boot[p].v \in Versions /\ boot[p].k \in Nat /\ boot[p].k # 0
  BY <1>1 DEF Knows, Running, AtMigration, StartTypeOK
<1>3. DOMAIN StepsOf[boot[p].v] = 1 .. Len(StepsOf[boot[p].v]) /\ Len(StepsOf[boot[p].v]) \in Nat
  BY <1>2, StartAssumption
<1> QED
  BY <1>1, <1>2, <1>3 DEF Running

\* Step k is done.
LEMMA StepDone ==
    ASSUME UpgradeInv, NEW p \in Starters, Running(p), Steady, FileStep(p), NEW b, Moves(p, b),
           b.pc = "run", b.v = boot[p].v, b.known = boot[p].known, b.k = boot[p].k + 1,
           \A i \in DOMAIN StepsOf[boot[p].v] :
              StepsOf[boot[p].v][i].kind # "look" /\ StepsOf[boot[p].v][i].guard \in b.seen =>
                  StepsOf[boot[p].v][i].part \in Sees(p)'.items \cup torn',
           StepAt(p).kind # "look" => StepAt(p).part \in Sees(p)'.items \cup torn',
           Sees(p).items \subseteq Sees(p)'.items, Sees(p).recorded \subseteq Sees(p)'.recorded,
           holder = p => holder' = p
    PROVE  Knows(p)'
<1>1. AtMigration(p) /\ boot[p].v \in Versions /\ boot[p].k \in Nat
  BY RunFacts
<1>2. ASSUME NEW i \in DOMAIN StepsOf[boot[p].v], StepsOf[boot[p].v][i].kind # "look", i < b.k
      PROVE  StepsOf[boot[p].v][i].part \in Sees(p)'.items \cup torn'
  <2>1. i < boot[p].k \/ i = boot[p].k
    BY <1>1, <1>2, StepFacts
  <2> QED
    BY <1>1, <1>2, <2>1 DEF AtMigration, StepAt, Steady
<1>3. boot'[p] = b
  BY DEF Moves
<1>4. AtMigration(p)'
  <2>1. b.v \in Versions /\ b.known = 1 .. b.v - 1 /\ b.k # 0
    BY <1>1 DEF AtMigration
  <2>2. b.known \subseteq Sees(p)'.recorded
    BY <1>1 DEF AtMigration
  <2>3. holder' # p => before' # 0 /\ b.v = before' + 1
    BY <1>1 DEF AtMigration, Steady
  <2>4. \A i \in DOMAIN StepsOf[b.v] :
          StepsOf[b.v][i].kind # "look" /\ (i < b.k \/ StepsOf[b.v][i].guard \in b.seen) =>
              StepsOf[b.v][i].part \in Sees(p)'.items \cup torn'
    BY <1>2
  <2> HIDE DEF Sees
  <2> QED
    BY <1>3, <2>1, <2>2, <2>3, <2>4 DEF AtMigration
<1> QED
  BY <1>3, <1>4 DEF Knows, Stands, SearchPcs

LEMMA LookUpKeeps ==
    ASSUME UpgradeInv, NEW p \in Starters, LookUp(p)
    PROVE  UpgradeInv'
<1>1. Running(p) /\ StepAt(p).kind = "look" /\ Steady
  BY DEF LookUp, Does, Steady
<1>2. StartTypeOK /\ FileInv /\ boot[p].v \in Versions
  BY <1>1, RunFacts
<1>3. FileStep(p) /\ Sees(p)' = Sees(p) /\ holder' = holder
  BY <1>1, <1>2, SameStep DEF LookUp
<1> DEFINE b == [boot[p] EXCEPT !.seen = Sees(p).items, !.k = @ + 1]
<1>4. /\ Moves(p, b) /\ b.pc = "run" /\ b.v = boot[p].v /\ b.known = boot[p].known
      /\ b.k = boot[p].k + 1 /\ b.seen = Sees(p).items
  <2>1. boot[p] \in Boots /\ Sees(p).items \subseteq Items
    BY <1>2 DEF StartTypeOK, Boots, Sees, FileOf
  <2> DEFINE c == [boot[p] EXCEPT !.seen = Sees(p).items]
  <2>0. /\ c \in Boots /\ c.pc = boot[p].pc /\ c.v = boot[p].v /\ c.known = boot[p].known
        /\ c.k = boot[p].k /\ c.seen = Sees(p).items
    BY <2>1 DEF Boots
  <2>4. b = [c EXCEPT !.k = boot[p].k + 1]
    BY <2>0
  <2> HIDE DEF c
  <2>2. b \in Boots /\ b.pc = boot[p].pc /\ b.v = boot[p].v /\ b.known = boot[p].known
        /\ b.k = boot[p].k + 1 /\ b.seen = Sees(p).items
    BY <2>0, <2>1, <2>4 DEF Boots
  <2>3. boot' = [boot EXCEPT ![p] = b]
    BY <1>2 DEF LookUp, StartTypeOK
  <2> QED
    BY <1>1, <1>2, <2>2, <2>3, MovesTo DEF Running, Stands
<1> HIDE DEF b
<1>5. ASSUME NEW i \in DOMAIN StepsOf[boot[p].v],
             StepsOf[boot[p].v][i].kind # "look", StepsOf[boot[p].v][i].guard \in b.seen
      PROVE  StepsOf[boot[p].v][i].part \in Sees(p)'.items \cup torn'
  <2>1. StepsOf[boot[p].v][i] \in StepsIn(boot[p].v)
    BY <1>2, StepFacts
  <2> QED
    BY <1>3, <1>4, <1>5, <2>1 DEF LookUp
<1>6. torn' \subseteq Items
  <2>1. \A s \in StepsIn(boot[p].v) : s.kind # "look" => s.part \in PartsOf[boot[p].v]
    BY <1>2 DEF PartsOf
  <2>2. PartsOf[boot[p].v] \subseteq Items
    BY <1>2, PartsInItems
  <2> QED
    BY <1>2, <2>1, <2>2 DEF LookUp, StartTypeOK
<1>7. Knows(p)'
  BY <1>1, <1>3, <1>4, <1>5, StepDone
<1> QED
  BY <1>1, <1>2, <1>3, <1>4, <1>6, <1>7, UpgradeStep DEF LookUp, StartTypeOK

\* A step with a part, which is there afterwards.
LEMMA PartDone ==
    ASSUME UpgradeInv, NEW p \in Starters, Running(p), StepOn(p), Steady, FileStep(p),
           StepAt(p).part \in Sees(p)'.items \cup torn',
           Sees(p).items \subseteq Sees(p)'.items, Sees(p).recorded \subseteq Sees(p)'.recorded,
           holder = p => holder' = p, UNCHANGED <<breaks, torn, orphaned>>
    PROVE  UpgradeInv'
<1>1. StartTypeOK /\ FileInv /\ AtMigration(p) /\ boot[p].v \in Versions
  BY RunFacts
<1> DEFINE b == [boot[p] EXCEPT !.k = @ + 1]
<1>2. Moves(p, b)
  BY <1>1, StepsOn
<1>3. /\ b.pc = "run" /\ b.v = boot[p].v /\ b.known = boot[p].known
      /\ b.k = boot[p].k + 1 /\ b.seen = boot[p].seen
  <2>1. boot[p] \in Boots
    BY <1>1 DEF StartTypeOK, Boots
  <2> QED
    BY <2>1 DEF Boots, Running, Stands
<1> HIDE DEF b
<1>4. \A i \in DOMAIN StepsOf[boot[p].v] :
        StepsOf[boot[p].v][i].kind # "look" /\ StepsOf[boot[p].v][i].guard \in b.seen =>
            StepsOf[boot[p].v][i].part \in Sees(p)'.items \cup torn'
  BY <1>1, <1>3 DEF AtMigration
<1>5. Knows(p)'
  BY <1>2, <1>3, <1>4, StepDone
<1> QED
  BY <1>1, <1>2, <1>5, UpgradeStep DEF StartTypeOK

LEMMA SkipKeeps ==
    ASSUME UpgradeInv, NEW p \in Starters, Skip(p)
    PROVE  UpgradeInv'
<1>1. Running(p) /\ StepAt(p).kind # "look" /\ StepAt(p).guard \in boot[p].seen /\ StepOn(p)
      /\ Steady /\ UNCHANGED <<disk, draft, holder, breaks, torn, orphaned>>
  BY DEF Skip, LeftOut, Steady
<1>2. StartTypeOK /\ FileInv /\ AtMigration(p) /\ boot[p].k \in DOMAIN StepsOf[boot[p].v]
  BY <1>1, RunFacts
<1>3. FileStep(p) /\ Sees(p)' = Sees(p)
  BY <1>1, <1>2, SameStep
<1>4. StepAt(p).part \in Sees(p)'.items \cup torn'
  BY <1>1, <1>2, <1>3 DEF AtMigration, StepAt
<1> QED
  BY <1>1, <1>3, <1>4, PartDone

\* The part of a step is added to what p sees.
LEMMA WithPartIs ==
    ASSUME UpgradeInv, NEW p \in Starters, Running(p), StepAt(p).kind # "look"
    PROVE  /\ Extending(p, WithPart(p)) /\ Whole(WithPart(p))
           /\ WithPart(p).items = Sees(p).items \cup {StepAt(p).part}
           /\ WithPart(p).recorded = Sees(p).recorded
           /\ holder = NoStarter => disk.recorded = Versions \/ NotYet(WithPart(p))
<1>1. /\ StartTypeOK /\ FileInv /\ AtMigration(p)
      /\ boot[p].v \in Versions /\ boot[p].k \in DOMAIN StepsOf[boot[p].v]
  BY RunFacts
<1>2. StepAt(p).part \in PartsOf[boot[p].v] /\ StepAt(p).part \in Items
  BY <1>1, StepFacts DEF StepAt
<1>3. Sees(p) \in FileOf /\ Whole(Sees(p))
  BY <1>1, StartAssumption DEF StartTypeOK, Sees, FileInv
<1>4. /\ WithPart(p).items = Sees(p).items \cup {StepAt(p).part}
      /\ WithPart(p).recorded = Sees(p).recorded /\ WithPart(p) \in FileOf
  BY <1>2, <1>3 DEF WithPart, FileOf
<1>5. Extending(p, WithPart(p)) /\ Whole(WithPart(p))
  BY <1>3, <1>4 DEF Extending, Whole
<1>6. ASSUME holder = NoStarter, NotYet(disk)
      PROVE  NotYet(WithPart(p))
  <2>1. Sees(p) = disk /\ before # 0 /\ boot[p].v = before + 1
    BY <1>1, <1>6, StartAssumption DEF Sees, AtMigration
  <2> QED
    BY <1>2, <1>4, <1>6, <2>1 DEF NotYet
<1> QED
  BY <1>1, <1>4, <1>5, <1>6 DEF FileInv

LEMMA AddsKeeps ==
    ASSUME UpgradeInv, NEW p \in Starters, Alter(p) \/ Create(p)
    PROVE  UpgradeInv'
<1>1. Running(p) /\ StepAt(p).kind # "look" /\ StepOn(p) /\ Put(p, WithPart(p))
      /\ Steady /\ UNCHANGED <<breaks, torn, orphaned>>
  BY DEF Alter, Create, Does, Steady
<1>2. StartTypeOK /\ FileInv
  BY DEF UpgradeInv
<1>3. FileStep(p) /\ Sees(p)' = WithPart(p) /\ (holder' = p <=> holder = p)
  BY <1>1, <1>2, WithPartIs, PutStep
<1> QED
  BY <1>1, <1>3, WithPartIs, PartDone

LEMMA FillKeeps ==
    ASSUME UpgradeInv, NEW p \in Starters, Fill(p)
    PROVE  UpgradeInv'
<1>1. Running(p) /\ StepAt(p).kind # "look" /\ StepOn(p) /\ Enter(p, WithPart(p))
      /\ Steady /\ UNCHANGED <<breaks, torn, orphaned>>
  BY DEF Fill, Does, Steady
<1>2. StartTypeOK /\ FileInv
  BY DEF UpgradeInv
<1>3. FileStep(p) /\ Sees(p)' = WithPart(p) /\ holder' = p
  BY <1>1, <1>2, WithPartIs, EnterStep
<1> QED
  BY <1>1, <1>3, WithPartIs, PartDone

LEMMA RecordKeeps ==
    ASSUME UpgradeInv, NEW p \in Starters, Record(p)
    PROVE  UpgradeInv'
<1> DEFINE v == boot[p].v
<1>1. StartTypeOK /\ AtMigration(p) /\ v \in 1 .. Last
  BY DEF UpgradeInv, Record, Done, Knows, AtMigration, Versions
<1>2. ASSUME NEW x \in PartsOf[v]
      PROVE  x \in Sees(p).items \cup torn
  <2>1. PICK i \in DOMAIN StepsOf[v] : StepsOf[v][i].kind # "look" /\ StepsOf[v][i].part = x
    BY <1>1, PartsFromSteps DEF Versions
  <2>2. i \in Nat /\ i <= Len(StepsOf[v]) /\ Len(StepsOf[v]) \in Nat
    BY <1>1, StepFacts, StartAssumption DEF Versions
  <2>3. i < boot[p].k
    BY <1>1, <2>2 DEF Record, Done, StartTypeOK
  <2> QED
    BY <1>1, <2>1, <2>3 DEF AtMigration
<1>3. boot[p].known = 1 .. v - 1 /\ 1 .. v - 1 \subseteq Sees(p).recorded
  BY <1>1 DEF AtMigration
<1>4. boot[p].known \cup {v} = 1 .. v
  BY <1>1, <1>3, StartAssumption
<1>5. boot' = [boot EXCEPT ![p] = NextUp(1 .. v)]
  BY <1>4 DEF Record
<1> QED
  BY <1>1, <1>2, <1>3, <1>5, RecordsNext DEF Record, Steady

LEMMA FailStartKeeps ==
    ASSUME UpgradeInv, NEW p \in Starters, FailStart(p)
    PROVE  UpgradeInv'
<1>1. StartTypeOK /\ FileInv /\ Steady
  BY DEF UpgradeInv, FailStart, Steady
<1>2. FileStep(p)
  BY <1>1, RollbackStep DEF FailStart
<1>3. Moves(p, Down) /\ Knows(p)'
  BY <1>1, GoesDown DEF FailStart
<1> QED
  BY <1>1, <1>2, <1>3, UpgradeStep DEF FailStart, StartTypeOK

\* What p knows at the index.
LEMMA SearchFacts ==
    ASSUME UpgradeInv, NEW p \in Starters, boot[p].pc \in SearchPcs
    PROVE  /\ StartTypeOK /\ FileInv /\ Sees(p).recorded = Versions
           /\ holder = NoStarter => disk.recorded = Versions
  BY StartAssumption DEF UpgradeInv, Knows, Sees

\* p stays at the index.
LEMMA StaysAtSearch ==
    ASSUME UpgradeInv, NEW p \in Starters, boot[p].pc \in SearchPcs, NEW b, Moves(p, b),
           b.pc \in SearchPcs, FileStep(p), Sees(p)'.recorded = Sees(p).recorded,
           UNCHANGED <<breaks, before, torn>>, orphaned' \in BOOLEAN
    PROVE  UpgradeInv'
<1>1. Sees(p)'.recorded = Versions
  BY SearchFacts
<1>2. boot'[p].pc \in SearchPcs
  BY DEF Moves
<1>3. Knows(p)'
  BY <1>1, <1>2 DEF Knows, Stands, SearchPcs
<1> QED
  BY <1>3, UpgradeStep DEF UpgradeInv, StartTypeOK, Steady

LEMMA WithSearchIs ==
    ASSUME UpgradeInv, NEW p \in Starters, boot[p].pc \in SearchPcs, NEW s \in SearchOf
    PROVE  /\ Extending(p, WithSearch(p, s)) /\ Whole(WithSearch(p, s))
           /\ WithSearch(p, s).recorded = Sees(p).recorded /\ WithSearch(p, s).search = s
<1>1. StartTypeOK /\ FileInv
  BY DEF UpgradeInv
<1>2. Sees(p) \in FileOf /\ Whole(Sees(p))
  BY <1>1, StartAssumption DEF StartTypeOK, Sees, FileInv
<1>3. /\ WithSearch(p, s) \in FileOf /\ WithSearch(p, s).items = Sees(p).items
      /\ WithSearch(p, s).recorded = Sees(p).recorded /\ WithSearch(p, s).search = s
  BY <1>2 DEF WithSearch, FileOf
<1> QED
  BY <1>2, <1>3 DEF Extending, Whole

LEMMA PutSearch ==
    ASSUME UpgradeInv, NEW p \in Starters, boot[p].pc \in SearchPcs, NEW s \in SearchOf,
           Put(p, WithSearch(p, s)), NEW pc \in SearchPcs, GoOn(p, pc),
           UNCHANGED <<breaks, before, torn, orphaned>>
    PROVE  UpgradeInv'
<1>1. StartTypeOK /\ FileInv /\ Steady
  BY DEF UpgradeInv, Steady
<1>2. FileStep(p) /\ Sees(p)'.recorded = Sees(p).recorded
  BY <1>1, SearchFacts, WithSearchIs, PutStep
<1>3. Moves(p, [boot[p] EXCEPT !.pc = pc]) /\ [boot[p] EXCEPT !.pc = pc].pc = pc
  BY <1>1, GoesOn DEF SearchPcs, StartPcs, StartTypeOK
<1> QED
  BY <1>1, <1>2, <1>3, StaysAtSearch DEF UpgradeInv, StartTypeOK

LEMMA SearchIsTyped ==
    ASSUME StartTypeOK, NEW p \in Starters
    PROVE  /\ Sees(p).search \in SearchOf
           /\ [Sees(p).search EXCEPT !.triggers = FALSE] \in SearchOf
           /\ [Sees(p).search EXCEPT !.triggers = TRUE] \in SearchOf
           /\ [Sees(p).search EXCEPT !.table = TRUE] \in SearchOf
           /\ [Sees(p).search EXCEPT !.table = FALSE, !.whole = FALSE] \in SearchOf
           /\ [Sees(p).search EXCEPT !.whole = TRUE, !.key = TRUE] \in SearchOf
<1>1. Sees(p).search \in SearchOf
  BY DEF StartTypeOK, FileOf, Sees
<1> DEFINE s == Sees(p).search
<1>2. s \in SearchOf
  BY <1>1
<1> HIDE DEF s
<1>3. /\ [s EXCEPT !.triggers = FALSE] \in SearchOf /\ [s EXCEPT !.triggers = TRUE] \in SearchOf
      /\ [s EXCEPT !.table = TRUE] \in SearchOf
  BY <1>2 DEF SearchOf
<1>4. /\ [s EXCEPT !.table = FALSE, !.whole = FALSE] \in SearchOf
      /\ [s EXCEPT !.whole = TRUE, !.key = TRUE] \in SearchOf
  BY <1>2 DEF SearchOf
<1> QED
  BY <1>1, <1>3, <1>4 DEF s

LEMMA TableKeeps ==
    ASSUME UpgradeInv, NEW p \in Starters,
           DropTriggers(p) \/ DropTable(p) \/ CreateTable(p) \/ CreateTriggers(p)
    PROVE  UpgradeInv'
<1>1. StartTypeOK
  BY DEF UpgradeInv
<1>2. CASE DropTriggers(p)
  BY <1>1, <1>2, SearchIsTyped, PutSearch DEF DropTriggers, Stands, SearchPcs
<1>3. CASE DropTable(p)
  BY <1>1, <1>3, SearchIsTyped, PutSearch DEF DropTable, Stands, SearchPcs
<1>4. CASE CreateTable(p)
  BY <1>1, <1>4, SearchIsTyped, PutSearch DEF CreateTable, Stands, SearchPcs
<1>5. CASE CreateTriggers(p)
  <2>1. (IF boot[p].rebuild THEN "rebuild" ELSE "commit") \in SearchPcs
    BY DEF SearchPcs
  <2> QED
    BY <1>1, <1>5, <2>1, SearchIsTyped, PutSearch DEF CreateTriggers, Stands, SearchPcs
<1> QED
  BY <1>2, <1>3, <1>4, <1>5

LEMMA CheckSearchMoves ==
    ASSUME StartTypeOK, NEW p \in Starters, CheckSearch(p)
    PROVE  LET again == ~Sees(p).search.table \/ ~Sees(p).search.key
               b == [boot[p] EXCEPT !.rebuild = again, !.pc = IF again THEN "settle" ELSE "table"]
           IN  /\ Moves(p, b) /\ b.rebuild = again
               /\ b.pc = IF again THEN "settle" ELSE "table"
<1> DEFINE again == ~Sees(p).search.table \/ ~Sees(p).search.key
           to == IF again THEN "settle" ELSE "table"
           c == [boot[p] EXCEPT !.rebuild = again]
           b == [boot[p] EXCEPT !.rebuild = again, !.pc = to]
<1>1. boot[p] \in Boots /\ again \in BOOLEAN /\ to \in StartPcs
  BY DEF StartTypeOK, Boots, StartPcs
<1>2. boot' = [boot EXCEPT ![p] = b]
  BY DEF CheckSearch, StartTypeOK
<1> HIDE DEF again, to
<1>3. c \in Boots /\ c.rebuild = again
  BY <1>1 DEF Boots
<1>4. b = [c EXCEPT !.pc = to]
  BY <1>3
<1> HIDE DEF c
<1>5. b \in Boots /\ b.rebuild = again /\ b.pc = to
  BY <1>1, <1>3, <1>4 DEF Boots
<1>6. Moves(p, b)
  BY <1>2, <1>5, MovesTo
<1> QED
  BY <1>5, <1>6 DEF again, to

LEMMA CheckSearchKeeps ==
    ASSUME UpgradeInv, NEW p \in Starters, CheckSearch(p)
    PROVE  UpgradeInv'
<1>1. StartTypeOK /\ FileInv /\ Steady
  BY DEF UpgradeInv, CheckSearch, Steady
<1>2. FileStep(p) /\ Sees(p)' = Sees(p)
  BY <1>1, SameStep DEF CheckSearch
<1>3. PICK b : Moves(p, b) /\ b.pc \in {"settle", "table"}
  BY <1>1, CheckSearchMoves
<1> QED
  BY <1>1, <1>2, <1>3, StaysAtSearch DEF CheckSearch, Stands, SearchPcs, StartTypeOK

LEMMA SettleKeeps ==
    ASSUME UpgradeInv, NEW p \in Starters, Settle(p)
    PROVE  UpgradeInv'
<1>1. boot[p].pc \in SearchPcs /\ Steady
  BY DEF Settle, Stands, SearchPcs, Steady
<1>2. StartTypeOK /\ FileInv /\ Sees(p).recorded = Versions
  BY <1>1, SearchFacts
<1>3. FileStep(p) /\ Sees(p)' = Sees(p)
  BY <1>1, <1>2, CommitStep DEF Settle
<1>4. PICK pc \in {"untrigger", "triggers"} : GoOn(p, pc)
  BY DEF Settle
<1>5. Moves(p, [boot[p] EXCEPT !.pc = pc]) /\ [boot[p] EXCEPT !.pc = pc].pc = pc
  BY <1>2, <1>4, GoesOn DEF StartPcs, StartTypeOK
<1> QED
  BY <1>1, <1>2, <1>3, <1>5, StaysAtSearch DEF Settle, SearchPcs, StartTypeOK

LEMMA RebuildKeeps ==
    ASSUME UpgradeInv, NEW p \in Starters, Rebuild(p)
    PROVE  UpgradeInv'
<1>1. boot[p].pc \in SearchPcs /\ Steady
  BY DEF Rebuild, Stands, SearchPcs, Steady
<1>2. StartTypeOK /\ FileInv /\ Sees(p).recorded = Versions
  BY <1>1, SearchFacts
<1>3. FileStep(p) /\ Sees(p)'.recorded = Sees(p).recorded
  <2>1. PICK s \in SearchOf : Enter(p, WithSearch(p, s))
    BY <1>2, SearchIsTyped DEF Rebuild
  <2> QED
    BY <1>1, <1>2, <2>1, WithSearchIs, EnterStep
<1>4. Moves(p, [boot[p] EXCEPT !.pc = "commit"]) /\ [boot[p] EXCEPT !.pc = "commit"].pc = "commit"
  BY <1>2, GoesOn DEF Rebuild, StartPcs, StartTypeOK
<1> QED
  BY <1>1, <1>2, <1>3, <1>4, StaysAtSearch DEF Rebuild, SearchPcs, StartTypeOK

LEMMA ServeKeeps ==
    ASSUME UpgradeInv, NEW p \in Starters, Serve(p)
    PROVE  UpgradeInv'
<1>1. boot[p].pc \in SearchPcs /\ Steady
  BY DEF Serve, Stands, SearchPcs, Steady
<1>2. StartTypeOK /\ FileInv /\ Sees(p).recorded = Versions
  BY <1>1, SearchFacts
<1>3. FileStep(p) /\ Sees(p)' = Sees(p) /\ holder' # p
  BY <1>1, <1>2, CommitStep DEF Serve
<1>4. Booting("ready", 0, 0, {}) \in Boots
  BY BootingTyped, StartAssumption DEF StartPcs
<1>5. Moves(p, Booting("ready", 0, 0, {}))
  BY <1>2, <1>4, MovesTo DEF Serve
<1>6. boot'[p].pc = "ready"
  BY <1>5 DEF Moves, Booting
<1>7. disk'.recorded = Versions
  BY <1>2, <1>3 DEF Sees
<1>8. Knows(p)'
  BY <1>6, <1>7 DEF Knows, Stands, SearchPcs
<1> QED
  BY <1>1, <1>2, <1>3, <1>5, <1>8, UpgradeStep DEF Serve, StartTypeOK

LEMMA GiveUpMoves ==
    ASSUME StartTypeOK, NEW p \in Starters, GiveUpSearch(p)
    PROVE  LET b == [boot[p] EXCEPT !.pc = "commit", !.rebuild = FALSE]
           IN  Moves(p, b) /\ b.pc = "commit" /\ ~b.rebuild
<1> DEFINE c == [boot[p] EXCEPT !.pc = "commit"]
           b == [boot[p] EXCEPT !.pc = "commit", !.rebuild = FALSE]
<1>1. boot[p] \in Boots
  BY DEF StartTypeOK, Boots
<1>2. boot' = [boot EXCEPT ![p] = b]
  BY DEF GiveUpSearch, StartTypeOK
<1>3. c \in Boots /\ c.pc = "commit"
  BY <1>1 DEF Boots, StartPcs
<1>4. b = [c EXCEPT !.rebuild = FALSE]
  BY <1>3
<1> HIDE DEF c
<1>5. b \in Boots /\ b.pc = "commit" /\ ~b.rebuild
  BY <1>3, <1>4 DEF Boots
<1>6. Moves(p, b)
  BY <1>2, <1>5, MovesTo
<1> QED
  BY <1>5, <1>6

LEMMA GiveUpKeeps ==
    ASSUME UpgradeInv, NEW p \in Starters, GiveUpSearch(p), boot[p].pc \in SearchPcs,
           UNCHANGED <<disk, draft, holder, before, torn>>, breaks' \in Nat
    PROVE  UpgradeInv'
<1>1. StartTypeOK /\ FileInv /\ Steady
  BY DEF UpgradeInv, Steady
<1>2. FileStep(p) /\ Sees(p)' = Sees(p)
  BY <1>1, SameStep
<1>3. PICK b : Moves(p, b) /\ b.pc = "commit"
  BY <1>1, GiveUpMoves
<1>4. orphaned' \in BOOLEAN
  BY <1>1 DEF GiveUpSearch, StartTypeOK
<1>5. boot'[p].pc = "commit" /\ Sees(p)'.recorded = Versions
  BY <1>2, <1>3, SearchFacts DEF Moves
<1>6. Knows(p)'
  BY <1>5 DEF Knows, Stands, SearchPcs
<1> QED
  BY <1>1, <1>2, <1>3, <1>4, <1>6, UpgradeStep DEF StartTypeOK

LEMMA AddImageKeeps ==
    ASSUME UpgradeInv, NEW p \in Starters, AddImage(p)
    PROVE  UpgradeInv'
<1>1. StartTypeOK /\ FileInv /\ Steady
  BY DEF UpgradeInv, AddImage, Steady
<1> DEFINE s == [disk.search EXCEPT !.whole = @ /\ disk.search.triggers]
<1>2. s \in SearchOf
  BY <1>1 DEF StartTypeOK, FileOf, SearchOf
<1>3. disk' = [disk EXCEPT !.search = s]
  BY DEF AddImage
<1> HIDE DEF s
<1>4. disk' \in FileOf /\ disk'.items = disk.items /\ disk'.recorded = disk.recorded
  BY <1>1, <1>2, <1>3 DEF StartTypeOK, FileOf
<1>5. FileStep(p)
  BY <1>1, <1>4, StartAssumption
  DEF AddImage, FileStep, FileInv, StartTypeOK, DraftExtends, NotYet, Whole, Sees
<1>6. Moves(p, boot[p])
  BY <1>1 DEF AddImage, Moves, StartTypeOK, Boots
<1>7. Knows(p)'
  BY <1>4 DEF UpgradeInv, AddImage, Knows, Stands, SearchPcs
<1> QED
  BY <1>1, <1>5, <1>6, <1>7, UpgradeStep DEF AddImage, StartTypeOK

LEMMA DieKeeps ==
    ASSUME UpgradeInv, NEW p \in Starters, Die(p)
    PROVE  UpgradeInv'
<1>1. StartTypeOK /\ FileInv /\ Steady
  BY DEF UpgradeInv, Die, Steady
<1>2. FileStep(p)
  BY <1>1, RollbackStep DEF Die
<1>3. Moves(p, Down) /\ Knows(p)'
  BY <1>1, GoesDown DEF Die
<1>4. breaks' \in Nat /\ orphaned' \in BOOLEAN
  BY <1>1 DEF Die, Break, StartTypeOK
<1> QED
  BY <1>1, <1>2, <1>3, <1>4, UpgradeStep DEF Die, StartTypeOK

LEMMA WaitsTooLongKeeps ==
    ASSUME UpgradeInv, NEW p \in Starters, WaitsTooLong(p)
    PROVE  UpgradeInv'
<1>1. StartTypeOK /\ FileInv /\ Steady /\ breaks' \in Nat
  BY DEF UpgradeInv, WaitsTooLong, Steady, Break, StartTypeOK
<1>2. CASE boot[p].pc \in {"untrigger", "drop", "table", "triggers", "rebuild"}
  BY <1>1, <1>2, GiveUpKeeps DEF WaitsTooLong, SearchPcs
<1>3. CASE boot[p].pc \notin {"untrigger", "drop", "table", "triggers", "rebuild"}
  <2>1. FileStep(p)
    BY <1>1, SameStep DEF WaitsTooLong
  <2>2. Moves(p, Down) /\ Knows(p)'
    BY <1>1, <1>3, GoesDown DEF WaitsTooLong
  <2> QED
    BY <1>1, <1>3, <2>1, <2>2, UpgradeStep DEF WaitsTooLong, StartTypeOK
<1> QED
  BY <1>2, <1>3

LEMMA RestartKeeps ==
    ASSUME UpgradeInv, NEW p \in Starters, Restart(p)
    PROVE  UpgradeInv'
<1>1. StartTypeOK /\ FileInv /\ Steady
  BY DEF UpgradeInv, Restart, Steady
<1>2. FileStep(p)
  BY <1>1, SameStep DEF Restart
<1>3. Moves(p, [boot[p] EXCEPT !.pc = "script"]) /\ [boot[p] EXCEPT !.pc = "script"].pc = "script"
  BY <1>1, GoesOn DEF Restart, StartPcs, StartTypeOK
<1>4. Knows(p)'
  BY <1>3 DEF Moves, Knows, Stands, SearchPcs
<1> QED
  BY <1>1, <1>2, <1>3, <1>4, UpgradeStep DEF Restart, StartTypeOK

LEMMA NoTableKeeps ==
    ASSUME UpgradeInv, NEW p \in Starters, NoTable(p)
    PROVE  UpgradeInv'
<1>1. boot[p].pc \in SearchPcs /\ breaks' \in Nat
  BY DEF NoTable, Stands, SearchPcs, UpgradeInv, StartTypeOK
<1> QED
  BY <1>1, GiveUpKeeps DEF NoTable

LEMMA SearchesAre ==
    ASSUME NEW s \in Searches
    PROVE  s \in SearchOf /\ (s.key => s.whole /\ s.triggers)
<1> DEFINE ready == [table : {TRUE}, triggers : {TRUE}, whole : {TRUE}, key : BOOLEAN]
<1>1. CASE s = NoSearch
  BY <1>1 DEF SearchOf, NoSearch
<1>2. CASE s \in ready
  <2>1. s = [table |-> s.table, triggers |-> s.triggers, whole |-> s.whole, key |-> s.key]
    BY <1>2
  <2>2. s.table = TRUE /\ s.triggers = TRUE /\ s.whole = TRUE /\ s.key \in BOOLEAN
    BY <1>2
  <2>3. s.table \in BOOLEAN /\ s.triggers \in BOOLEAN /\ s.whole \in BOOLEAN
    BY <2>2
  <2>4. s \in SearchOf
    BY <2>1, <2>2, <2>3 DEF SearchOf
  <2> QED
    BY <2>2, <2>4
<1> QED
  BY <1>1, <1>2 DEF Searches

LEMMA InitUpgradeInv == StartInit => UpgradeInv
<1> SUFFICES ASSUME StartInit PROVE UpgradeInv
  OBVIOUS
<1>1. Blank \in FileOf /\ draft = Blank /\ holder = NoStarter
  BY BlankIsFile DEF StartInit
<1>2. Down \in Boots
  BY BootingTyped, StartAssumption DEF Down, StartPcs
<1>3. boot \in [Starters -> Boots] /\ \A p \in Starters : boot[p].pc = "down"
  BY <1>2 DEF StartInit, Down, Booting
<1>4. \A p \in Starters : Knows(p)
  BY <1>3 DEF Knows, Stands, SearchPcs
<1>5. disk \in FileOf /\ before \in 0 .. Last /\ NotYet(disk) /\ (before # 0 => disk.items # {})
      /\ \A v \in disk.recorded : PartsOf[v] \subseteq disk.items
  <2>1. CASE disk = Blank /\ before = 0
    BY <1>1, <2>1, StartAssumption DEF Blank, NotYet
  <2>2. ASSUME NEW n \in StartedAt, NEW s \in Searches, before = n,
               disk = [items |-> Reached[n], recorded |-> 1 .. n, search |-> s]
        PROVE  /\ disk \in FileOf /\ before \in 0 .. Last /\ NotYet(disk)
               /\ before # 0 => disk.items # {}
               /\ \A v \in disk.recorded : PartsOf[v] \subseteq disk.items
    <3>1. n \in 0 .. Last /\ 1 .. n \subseteq Versions
      BY StartAssumption DEF Versions
    <3>2. s \in SearchOf
      BY SearchesAre
    <3>3. Reached[n] \subseteq Items /\ Reached[n] # {}
          /\ \A v \in 1 .. n : PartsOf[v] \subseteq Reached[n]
      BY <3>1, ReachedInItems, StartAssumption
    <3>4. disk.items = Reached[n] /\ disk.recorded = 1 .. n /\ disk.search = s
      BY <2>2
    <3>5. disk \in FileOf
      BY <2>2, <3>1, <3>2, <3>3 DEF FileOf
    <3>6. NotYet(disk)
      BY <2>2, <3>4 DEF NotYet
    <3> QED
      BY <2>2, <3>1, <3>3, <3>4, <3>5, <3>6
  <2> QED
    BY <2>1, <2>2 DEF StartInit
<1> QED
  BY <1>1, <1>3, <1>4, <1>5
  DEF StartInit, UpgradeInv, StartTypeOK, Boots, FileInv, DraftExtends, Whole

LEMMA NextUpgradeInv ==
    ASSUME UpgradeInv, [StartNext]_startVars
    PROVE  UpgradeInv'
<1>1. CASE UNCHANGED startVars
  BY <1>1 DEF startVars, UpgradeInv, StartTypeOK, FileInv, DraftExtends, NotYet, Whole, Knows,
              AtMigration, Sees, Stands
<1>2. ASSUME NEW p \in Starters, Restart(p) \/ AddImage(p) \/ Die(p) \/ WaitsTooLong(p)
      PROVE  UpgradeInv'
  BY <1>2, RestartKeeps, AddImageKeeps, DieKeeps, WaitsTooLongKeeps
<1>3. ASSUME NEW p \in Starters, MigrationSteps(p)
      PROVE  UpgradeInv'
  BY <1>3, BaseScriptKeeps, ReadVersionsKeeps, BaselineKeeps, LookUpKeeps, SkipKeeps, AddsKeeps,
     FillKeeps, RecordKeeps, FailStartKeeps DEF MigrationSteps
<1>4. ASSUME NEW p \in Starters, SearchSteps(p)
      PROVE  UpgradeInv'
  BY <1>4, CheckSearchKeeps, SettleKeeps, TableKeeps, RebuildKeeps, NoTableKeeps, ServeKeeps
  DEF SearchSteps
<1> QED
  BY <1>1, <1>2, <1>3, <1>4 DEF StartNext

\* A process knows what it has read and done, the file has what it records
\* (_run_schema_migrations, migrations.py:272-306).
THEOREM AlwaysUpgradeInv == StartSpec => []UpgradeInv
  BY InitUpgradeInv, NextUpgradeInv, PTL DEF StartSpec

\* The file has the version it had or the last one, and whoever serves has all
\* (_ensure_database, schema.py:449-473).
THEOREM UpgradeAllOrNothingHolds == StartSpec => []UpgradeAllOrNothing
<1>1. UpgradeInv => UpgradeAllOrNothing
  BY DEF UpgradeInv, FileInv, NotYet, Whole, Knows, UpgradeAllOrNothing
<1> QED
  BY <1>1, AlwaysUpgradeInv, PTL

-----------------------------------------------------------------------------
(* The full-text index: what others have to do with it stays.              *)

\* p does not touch what others have open.
Apart(p) ==
    \A q \in Starters \ {p} :
        /\ boot'[q] = boot[q]
        /\ holder' = q <=> holder = q
        /\ holder = q => disk' = disk /\ draft' = draft

LEMMA StepsApart ==
    ASSUME UpgradeInv, NEW p \in Starters, NEW b, Moves(p, b),
           \/ UNCHANGED <<disk, draft, holder>>
           \/ holder = NoStarter /\ UNCHANGED <<draft, holder>>
           \/ \E d : Put(p, d) \/ Enter(p, d)
           \/ Commit(p) \/ Rollback(p)
    PROVE  Apart(p)
  BY StartAssumption DEF Moves, Apart, Put, Enter, Commit, Rollback

LEMMA OthersAtSearch ==
    ASSUME NEW p \in Starters, NEW q \in Starters \ {p}, AtSearch(q), Apart(p)
    PROVE  AtSearch(q)'
<1>1. boot'[q] = boot[q] /\ (holder' = q <=> holder = q)
      /\ (holder = q => disk' = disk /\ draft' = draft)
  BY DEF Apart
<1> QED
  BY <1>1 DEF AtSearch, HolderAt

LEMMA SearchStep ==
    ASSUME SearchInv, NEW p \in Starters, Apart(p), AtSearch(p)', Tended', Triggered'
    PROVE  SearchInv'
  BY OthersAtSearch DEF SearchInv

\* What the others do is what they did.
LEMMA OthersRoles ==
    ASSUME NEW p \in Starters, Apart(p), NEW q \in Starters \ {p}
    PROVE  /\ Rebuilding(q)' <=> Rebuilding(q)
           /\ Trusting(q)' <=> Trusting(q)
           /\ Triggering(q)' <=> Triggering(q)
           /\ Filling(q)' <=> Filling(q)
  BY DEF Apart, Rebuilding, Trusting, Triggering, Filling, Stands

\* Everyone has the role that he had.
LEMMA SameRoles ==
    ASSUME SearchInv, NEW p \in Starters, Apart(p), AtSearch(p)',
           disk'.search = disk.search, orphaned => orphaned',
           Rebuilding(p) => Rebuilding(p)', Trusting(p)' => Trusting(p),
           Triggering(p) => Triggering(p)', Filling(p)' => Filling(p)
    PROVE  SearchInv'
<1>1. Tended'
  BY OthersRoles DEF SearchInv, Tended
<1>2. Triggered'
  BY OthersRoles DEF SearchInv, Triggered
<1> QED
  BY <1>1, <1>2, SearchStep

\* p has nothing to do with the index.
Uninvolved(b) ==
    /\ b.pc = "table" => b.rebuild
    /\ b.rebuild => b.pc \notin {"drop", "table", "publish", "triggers", "rebuild", "commit"}

LEMMA UninvolvedRoles ==
    ASSUME NEW p \in Starters
    PROVE  /\ Uninvolved(boot[p]) => ~Rebuilding(p) /\ ~Trusting(p) /\ ~Triggering(p) /\ ~Filling(p)
           /\ Uninvolved(boot[p])' => ~Rebuilding(p)' /\ ~Trusting(p)' /\ ~Triggering(p)' /\ ~Filling(p)'
  BY DEF Uninvolved, Rebuilding, Trusting, Triggering, Filling, Stands

\* p stays out of it.
LEMMA UninvolvedStep ==
    ASSUME SearchInv, NEW p \in Starters, Apart(p), AtSearch(p)', Uninvolved(boot[p]), Uninvolved(boot[p])',
           disk'.search = disk.search, orphaned => orphaned'
    PROVE  SearchInv'
  BY UninvolvedRoles, SameRoles

\* p gives up whatever it did.
LEMMA LeavesStep ==
    ASSUME SearchInv, NEW p \in Starters, Apart(p), AtSearch(p)', Uninvolved(boot[p])',
           disk'.search = disk.search, orphaned' = (orphaned \/ Orphans(p))
    PROVE  SearchInv'
<1>1. Tended'
  <2> SUFFICES ASSUME disk.search.key, ~(disk.search.whole /\ disk.search.triggers), ~orphaned'
               PROVE  \/ \E r \in Starters : Rebuilding(r)'
                      \/ ~disk.search.table /\ \A r \in Starters : ~Trusting(r)'
    BY DEF Tended
  <2>1. CASE \E r \in Starters \ {p} : Rebuilding(r)
    BY <2>1, OthersRoles
  <2>2. CASE ~disk.search.table /\ \A r \in Starters : ~Trusting(r)
    BY <2>2, OthersRoles, UninvolvedRoles
  <2>3. CASE Rebuilding(p)
    <3>1. ~disk.search.table /\ \A r \in Starters : ~Trusting(r)
      BY <2>3 DEF Orphans
    <3> QED
      BY <3>1, OthersRoles, UninvolvedRoles
  <2> QED
    BY <2>1, <2>2, <2>3 DEF SearchInv, Tended
<1>2. Triggered'
  <2> SUFFICES ASSUME ~disk.search.triggers, NEW q \in Starters, Filling(q)', ~orphaned'
               PROVE  \E r \in Starters : Triggering(r)'
    BY DEF Triggered
  <2>1. q # p /\ Filling(q)
    BY OthersRoles, UninvolvedRoles
  <2>2. PICK r \in Starters : Triggering(r)
    BY <2>1 DEF SearchInv, Triggered
  <2>3. Rebuilding(q)
    BY <2>1 DEF Filling, Rebuilding, Stands
  <2>4. CASE r = p
    <3>1. Rebuilding(p)
      BY <2>2, <2>4 DEF Triggering, Rebuilding
    <3> QED
      BY <2>1, <2>3, <3>1 DEF Orphans
  <2> QED
    BY <2>2, <2>4, OthersRoles
<1> QED
  BY <1>1, <1>2, SearchStep

-----------------------------------------------------------------------------
(* The actions of a process keep SearchInv.                                *)

\* Someone who holds the lock is where HolderAt says, and sees the index of the file.
LEMMA SeesSearch ==
    ASSUME SearchInv, NEW p \in Starters, boot[p].pc # "commit"
    PROVE  /\ Sees(p).search = disk.search
           /\ boot[p].pc \notin {"run", "search", "settle", "table", "publish"} => holder # p
  BY DEF SearchInv, AtSearch, HolderAt, Sees

\* A step of a migration.
LEMMA MigratesStep ==
    ASSUME UpgradeInv, SearchInv, NEW p \in Starters, NEW b, Moves(p, b),
           boot[p].pc \in {"versions", "baseline", "run"},
           b.pc \in {"down", "baseline", "run", "search"},
           holder' = p => b.pc \in {"run", "search"},
           \/ UNCHANGED <<disk, draft, holder>>
           \/ \E d : d.search = Sees(p).search /\ (Put(p, d) \/ Enter(p, d))
           \/ Rollback(p),
           UNCHANGED orphaned
    PROVE  SearchInv'
<1>1. Apart(p)
  BY StepsApart
<1>2. Sees(p).search = disk.search /\ p # NoStarter
  BY SeesSearch, StartAssumption
<1>3. disk'.search = disk.search /\ (holder' = p => draft'.search = disk.search)
  BY <1>2 DEF Put, Enter, Rollback, Sees
<1>4. boot'[p] = b
  BY DEF Moves
<1>5. AtSearch(p)'
  BY <1>3, <1>4 DEF AtSearch, HolderAt
<1>6. Uninvolved(boot[p]) /\ Uninvolved(boot[p])'
  BY <1>4 DEF Uninvolved
<1> QED
  BY <1>1, <1>3, <1>5, <1>6, UninvolvedStep

LEMMA NextUpMoves ==
    ASSUME NEW p \in Starters, NEW known, boot' = [boot EXCEPT ![p] = NextUp(known)],
           StartTypeOK, UpgradeInv'
    PROVE  Moves(p, NextUp(known)) /\ NextUp(known).pc \in {"run", "search"}
<1>1. boot'[p] = NextUp(known) /\ boot' \in [Starters -> Boots]
      /\ \A q \in Starters \ {p} : boot'[q] = boot[q]
  BY DEF StartTypeOK, UpgradeInv, Boots
<1> QED
  BY <1>1 DEF Moves, NextUp, Booting

LEMMA MigrationsKeepSearch ==
    ASSUME UpgradeInv, UpgradeInv', SearchInv, NEW p \in Starters, MigrationSteps(p)
    PROVE  SearchInv'
<1>1. StartTypeOK /\ StartTypeOK' /\ p # NoStarter
  BY StartAssumption DEF UpgradeInv
<1>2. boot[p] \in Boots /\ boot'[p] \in Boots
  BY <1>1 DEF StartTypeOK, Boots
<1>3. Sees(p) \in FileOf
  BY <1>1 DEF StartTypeOK, Sees
<1>4. CASE BaseScript(p)
  <2>1. Moves(p, [boot[p] EXCEPT !.pc = "versions"]) /\ [boot[p] EXCEPT !.pc = "versions"].pc = "versions"
    BY <1>1, <1>2, <1>4, GoesOn DEF BaseScript, StartPcs, Boots
  <2>2. Apart(p)
    BY <1>4, <2>1, StepsApart DEF BaseScript
  <2>3. disk'.search = disk.search /\ holder' # p
    BY <1>1, <1>4 DEF BaseScript, StartTypeOK, FileOf
  <2>4. boot[p].pc = "script" /\ boot'[p].pc = "versions"
    BY <1>4, <2>1 DEF BaseScript, Stands, Moves
  <2>5. AtSearch(p)' /\ Uninvolved(boot[p]) /\ Uninvolved(boot[p])'
    BY <2>3, <2>4 DEF AtSearch, Uninvolved
  <2> QED
    BY <1>4, <2>2, <2>3, <2>5, UninvolvedStep DEF BaseScript
<1>5. CASE ReadVersions(p)
  <2>1. boot[p].pc = "versions" /\ holder # p
    BY <1>5, SeesSearch DEF ReadVersions, Stands
  <2>2. CASE GoOn(p, "baseline")
    <3>1. Moves(p, [boot[p] EXCEPT !.pc = "baseline"])
          /\ [boot[p] EXCEPT !.pc = "baseline"].pc = "baseline"
      BY <1>1, <1>2, <2>2, GoesOn DEF StartPcs, Boots
    <3> QED
      BY <1>5, <2>1, <3>1, MigratesStep DEF ReadVersions
  <2>3. CASE boot' = [boot EXCEPT ![p] = NextUp(disk.recorded)]
    BY <1>1, <1>5, <2>1, <2>3, NextUpMoves, MigratesStep DEF ReadVersions
  <2> QED
    BY <1>5, <2>2, <2>3 DEF ReadVersions
<1>6. CASE Baseline(p) \/ Record(p)
  <2>1. PICK m, known : /\ Enter(p, [Sees(p) EXCEPT !.recorded = @ \cup {m}])
                        /\ boot' = [boot EXCEPT ![p] = NextUp(known)]
    BY <1>6 DEF Baseline, Record
  <2>2. [Sees(p) EXCEPT !.recorded = @ \cup {m}].search = Sees(p).search
    BY <1>3 DEF FileOf
  <2>3. \E d : d.search = Sees(p).search /\ Enter(p, d)
    BY <2>1, <2>2
  <2>4. boot[p].pc \in {"baseline", "run"} /\ UNCHANGED orphaned
    BY <1>6 DEF Baseline, Record, Done, Stands
  <2> QED
    BY <1>1, <2>1, <2>3, <2>4, NextUpMoves, MigratesStep
<1>7. CASE LookUp(p) \/ Skip(p) \/ Alter(p) \/ Create(p) \/ Fill(p)
  <2>1. Running(p) /\ boot[p].pc = "run" /\ UNCHANGED orphaned
    BY <1>7 DEF LookUp, Skip, Alter, Create, Fill, Does, Running, Stands
  <2>2. boot'[p].pc = "run" /\ \A q \in Starters \ {p} : boot'[q] = boot[q]
    BY <1>1, <1>7, <2>1 DEF LookUp, Skip, Alter, Create, Fill, StepOn, StartTypeOK
  <2>3. Moves(p, boot'[p])
    BY <1>1, <2>2 DEF Moves, StartTypeOK, Boots
  <2>4. WithPart(p).search = Sees(p).search
    BY <1>3 DEF WithPart, FileOf
  <2>5. \/ UNCHANGED <<disk, draft, holder>>
        \/ \E d : d.search = Sees(p).search /\ (Put(p, d) \/ Enter(p, d))
    BY <1>7, <2>4 DEF LookUp, Skip, Alter, Create, Fill
  <2> QED
    BY <2>1, <2>2, <2>3, <2>5, MigratesStep
<1>8. CASE FailStart(p)
  <2>1. boot[p].pc = "run" /\ UNCHANGED orphaned
    BY <1>8 DEF FailStart, Collides, Does, Running, Done, Stands
  <2>2. Moves(p, Down) /\ Down.pc = "down" /\ holder' # p
    BY <1>1, <1>8, GoesDown DEF FailStart, Rollback, Down, Booting
  <2> QED
    BY <1>8, <2>1, <2>2, MigratesStep DEF FailStart
<1> QED
  BY <1>4, <1>5, <1>6, <1>7, <1>8 DEF MigrationSteps

LEMMA CheckSearchKeepsSearch ==
    ASSUME UpgradeInv, SearchInv, NEW p \in Starters, CheckSearch(p)
    PROVE  SearchInv'
<1>1. StartTypeOK /\ boot[p].pc = "search" /\ Sees(p).search = disk.search
  BY SeesSearch DEF UpgradeInv, CheckSearch, Stands
<1>2. PICK b : /\ Moves(p, b)
               /\ \/ b.rebuild /\ b.pc = "settle"
                  \/ ~b.rebuild /\ b.pc = "table" /\ disk.search.table /\ disk.search.key
  BY <1>1, CheckSearchMoves
<1>3. boot'[p] = b /\ Apart(p) /\ UNCHANGED <<disk, draft, holder, orphaned>>
  BY <1>2, StepsApart DEF CheckSearch, Moves
<1>4. AtSearch(p)
  BY DEF SearchInv
<1>5. AtSearch(p)'
  BY <1>1, <1>2, <1>3, <1>4 DEF AtSearch, HolderAt
<1>6. Uninvolved(boot[p])
  BY <1>1 DEF Uninvolved
<1>7. CASE b.pc = "settle"
  BY <1>2, <1>3, <1>5, <1>6, <1>7, UninvolvedStep DEF Uninvolved
<1>8. CASE b.pc = "table"
  <2>1. ~Rebuilding(p) /\ ~Triggering(p) /\ ~Filling(p)
    BY <1>6, UninvolvedRoles
  <2>2. ~Rebuilding(p)' /\ ~Filling(p)' /\ disk.search.table
    BY <1>2, <1>3, <1>8 DEF Rebuilding, Filling, Stands
  <2>3. Tended'
    BY <1>3, <2>1, <2>2, OthersRoles DEF SearchInv, Tended
  <2>4. Triggered'
    BY <1>3, <2>1, <2>2, OthersRoles DEF SearchInv, Triggered
  <2> QED
    BY <1>3, <1>5, <2>3, <2>4, SearchStep
<1> QED
  BY <1>2, <1>7, <1>8

\* What a statement on the index makes of it, for one who has nothing open.
LEMMA PutsSearch ==
    ASSUME StartTypeOK, NEW p \in Starters, holder # p, NEW s \in SearchOf,
           Put(p, WithSearch(p, s))
    PROVE  disk'.search = s /\ holder' # p
<1>1. WithSearch(p, s).search = s /\ Sees(p) = disk /\ p # NoStarter
  BY StartAssumption DEF StartTypeOK, WithSearch, Sees, FileOf
<1> QED
  BY <1>1 DEF Put

LEMMA PutMoves ==
    ASSUME UpgradeInv, NEW p \in Starters, NEW d, Put(p, d), NEW pc \in StartPcs, GoOn(p, pc)
    PROVE  /\ Apart(p) /\ boot'[p].pc = pc /\ boot'[p].rebuild = boot[p].rebuild
<1>1. StartTypeOK /\ boot[p] \in Boots
  BY DEF UpgradeInv, StartTypeOK, Boots
<1>2. Moves(p, [boot[p] EXCEPT !.pc = pc])
  BY <1>1, GoesOn
<1>3. Apart(p)
  BY <1>2, StepsApart
<1> QED
  BY <1>1, <1>2, <1>3 DEF Moves, Boots

\* p is at work on the index and will make its triggers.
LEMMA WorkerStep ==
    ASSUME SearchInv, NEW p \in Starters, Apart(p), AtSearch(p)', Rebuilding(p)', Triggering(p)'
    PROVE  SearchInv'
  BY SearchStep DEF Tended, Triggered

LEMMA DropsKeepSearch ==
    ASSUME UpgradeInv, SearchInv, NEW p \in Starters, DropTriggers(p) \/ DropTable(p)
    PROVE  SearchInv'
<1>1. StartTypeOK /\ boot[p].pc \in {"untrigger", "drop"} /\ holder # p
  BY SeesSearch DEF UpgradeInv, DropTriggers, DropTable, Stands
<1>2. PICK pc \in {"drop", "table"} : GoOn(p, pc)
  BY DEF DropTriggers, DropTable
<1>3. PICK s \in SearchOf : Put(p, WithSearch(p, s))
  BY <1>1, SearchIsTyped DEF DropTriggers, DropTable
<1>4. boot[p].rebuild
  BY <1>1 DEF SearchInv, AtSearch
<1>5. Apart(p) /\ boot'[p].pc = pc /\ boot'[p].rebuild /\ holder' # p
  BY <1>1, <1>2, <1>3, <1>4, PutMoves, PutsSearch DEF StartPcs
<1> QED
  BY <1>5, WorkerStep DEF AtSearch, Rebuilding, Triggering

LEMMA CreateTableKeepsSearch ==
    ASSUME UpgradeInv, SearchInv, NEW p \in Starters, CreateTable(p)
    PROVE  SearchInv'
<1>1. StartTypeOK /\ boot[p].pc = "table" /\ AtSearch(p)
  BY DEF UpgradeInv, CreateTable, Stands, SearchInv
<1> DEFINE s == [Sees(p).search EXCEPT !.table = TRUE]
<1>2. s \in SearchOf /\ Put(p, WithSearch(p, s))
  BY <1>1, SearchIsTyped DEF CreateTable
<1>3. Apart(p) /\ boot'[p].pc = "publish" /\ boot'[p].rebuild = boot[p].rebuild
      /\ orphaned' = orphaned
  BY <1>2, PutMoves DEF CreateTable, StartPcs
<1>4. CASE boot[p].rebuild
  <2>1. holder # p
    BY <1>1, <1>4 DEF AtSearch, HolderAt
  <2>2. holder' # p
    BY <1>1, <1>2, <2>1, PutsSearch
  <2> QED
    BY <1>3, <1>4, <2>2, WorkerStep DEF AtSearch, Rebuilding, Triggering
<1>5. CASE ~boot[p].rebuild
  <2>1. ~Rebuilding(p) /\ ~Rebuilding(p)' /\ ~Filling(p)' /\ ~Triggering(p)
    BY <1>3, <1>5 DEF Rebuilding, Filling, Triggering
  <2>2. Trusting(p) /\ ~Trusting(p)'
    BY <1>1, <1>3, <1>5 DEF Trusting, Stands
  <2>3. disk.search \in SearchOf /\ draft \in FileOf
    BY <1>1 DEF StartTypeOK, FileOf
  <2>4. CASE holder = p
    <3>1. Sees(p) = draft /\ draft.search = disk.search /\ disk.search.table
      BY <1>1, <2>4 DEF AtSearch, HolderAt, Sees
    <3>2. s = draft.search
      BY <2>3, <3>1 DEF SearchOf
    <3>3. WithSearch(p, s) = draft
      BY <2>3, <3>1, <3>2 DEF WithSearch, FileOf
    <3>4. UNCHANGED <<disk, draft, holder>>
      BY <1>2, <3>1, <3>3 DEF Put
    <3>5. AtSearch(p)'
      BY <1>3, <1>5, <3>1, <3>4 DEF AtSearch, HolderAt
    <3> QED
      BY <1>3, <2>1, <2>2, <3>4, <3>5, SameRoles DEF Filling
  <2>5. CASE holder # p
    <3>1. disk'.search = s /\ holder' # p /\ Sees(p) = disk
      BY <1>1, <1>2, <2>5, PutsSearch DEF Sees
    <3>2. /\ disk'.search.key = disk.search.key /\ disk'.search.whole = disk.search.whole
          /\ disk'.search.triggers = disk.search.triggers
      BY <2>3, <3>1 DEF SearchOf
    <3>3. AtSearch(p)'
      BY <1>3, <1>5, <3>1 DEF AtSearch
    <3>4. Tended'
      BY <1>3, <2>1, <2>2, <3>2, OthersRoles DEF SearchInv, Tended
    <3>5. Triggered'
      BY <1>3, <2>1, <3>2, OthersRoles DEF SearchInv, Triggered
    <3> QED
      BY <1>3, <3>3, <3>4, <3>5, SearchStep
  <2> QED
    BY <2>4, <2>5
<1> QED
  BY <1>4, <1>5

LEMMA CreateTriggersKeepsSearch ==
    ASSUME UpgradeInv, SearchInv, NEW p \in Starters, CreateTriggers(p)
    PROVE  SearchInv'
<1>1. StartTypeOK /\ boot[p].pc = "triggers" /\ holder # p /\ Sees(p) = disk
  BY SeesSearch DEF UpgradeInv, CreateTriggers, Stands, Sees
<1> DEFINE s == [disk.search EXCEPT !.triggers = TRUE]
           to == IF boot[p].rebuild THEN "rebuild" ELSE "commit"
<1>2. s \in SearchOf /\ Put(p, WithSearch(p, s)) /\ GoOn(p, to) /\ to \in StartPcs
  BY <1>1, SearchIsTyped DEF CreateTriggers, StartPcs
<1>3. disk'.search = s /\ holder' # p
  BY <1>1, <1>2, PutsSearch
<1>4. Apart(p) /\ boot'[p].pc = to /\ boot'[p].rebuild = boot[p].rebuild /\ orphaned' = orphaned
  BY <1>2, PutMoves DEF CreateTriggers
<1>5. /\ disk'.search.key = disk.search.key /\ disk'.search.whole = disk.search.whole
      /\ disk'.search.table = disk.search.table /\ disk'.search.triggers
  BY <1>1, <1>3 DEF StartTypeOK, FileOf, SearchOf
<1>6. AtSearch(p)'
  BY <1>3, <1>4 DEF AtSearch
<1>7. (Rebuilding(p) => Rebuilding(p)') /\ ~Trusting(p)'
  BY <1>4 DEF Rebuilding, Trusting, Stands
<1>8. Tended'
  BY <1>4, <1>5, <1>7, OthersRoles DEF SearchInv, Tended
<1>9. Triggered'
  BY <1>5 DEF Triggered
<1> QED
  BY <1>4, <1>6, <1>8, <1>9, SearchStep

LEMMA SettleKeepsSearch ==
    ASSUME UpgradeInv, SearchInv, NEW p \in Starters, Settle(p)
    PROVE  SearchInv'
<1>1. StartTypeOK /\ AtSearch(p) /\ boot[p].pc \in {"settle", "publish"} /\ p # NoStarter
  BY StartAssumption DEF UpgradeInv, SearchInv, Settle, Stands
<1> DEFINE to == IF Stands(p, "settle") THEN "untrigger" ELSE "triggers"
<1>2. Moves(p, [boot[p] EXCEPT !.pc = to])
  BY <1>1, GoesOn DEF Settle, StartPcs
<1>3. boot'[p].pc = to /\ boot'[p].rebuild = boot[p].rebuild
  BY <1>1, <1>2 DEF Moves, StartTypeOK
<1>4. Apart(p) /\ orphaned' = orphaned
  BY <1>2, StepsApart DEF Settle
<1>5. disk'.search = disk.search /\ holder' # p
  BY <1>1 DEF Settle, Commit, AtSearch, HolderAt
<1>6. AtSearch(p)'
  BY <1>1, <1>3, <1>5 DEF AtSearch, Stands
<1> QED
  BY <1>1, <1>3, <1>4, <1>5, <1>6, SameRoles
  DEF Rebuilding, Trusting, Triggering, Filling, Stands

LEMMA RebuildKeepsSearch ==
    ASSUME UpgradeInv, SearchInv, NEW p \in Starters, Rebuild(p)
    PROVE  SearchInv'
<1>1. StartTypeOK /\ AtSearch(p) /\ boot[p].pc = "rebuild" /\ holder # p /\ Sees(p) = disk
  BY SeesSearch DEF UpgradeInv, SearchInv, Rebuild, Stands, Sees
<1> DEFINE s == [disk.search EXCEPT !.whole = TRUE, !.key = TRUE]
<1>2. s \in SearchOf /\ Enter(p, WithSearch(p, s))
  BY <1>1, SearchIsTyped DEF Rebuild
<1>3. WithSearch(p, s).search = s
  BY <1>1 DEF StartTypeOK, FileOf, WithSearch
<1>4. disk' = disk /\ draft'.search = s /\ holder' = p
  BY <1>2, <1>3 DEF Enter
<1>5. Moves(p, [boot[p] EXCEPT !.pc = "commit"])
  BY <1>1, GoesOn DEF Rebuild, StartPcs
<1>6. boot'[p].pc = "commit" /\ boot'[p].rebuild /\ boot[p].rebuild
  BY <1>1, <1>5 DEF Moves, StartTypeOK, AtSearch
<1>7. Apart(p) /\ orphaned' = orphaned
  BY <1>2, <1>5, StepsApart DEF Rebuild
<1>8. AtSearch(p)'
  BY <1>4, <1>6 DEF AtSearch, HolderAt
<1> QED
  BY <1>1, <1>4, <1>6, <1>7, <1>8, SameRoles
  DEF Rebuilding, Trusting, Triggering, Filling, Stands

LEMMA ServeKeepsSearch ==
    ASSUME UpgradeInv, SearchInv, NEW p \in Starters, Serve(p)
    PROVE  SearchInv'
<1>1. StartTypeOK /\ AtSearch(p) /\ boot[p].pc = "commit" /\ p # NoStarter
  BY StartAssumption DEF UpgradeInv, SearchInv, Serve, Stands
<1>2. Booting("ready", 0, 0, {}) \in Boots
  BY BootingTyped, StartAssumption DEF StartPcs
<1>3. Moves(p, Booting("ready", 0, 0, {}))
  BY <1>1, <1>2, MovesTo DEF Serve
<1>4. boot'[p].pc = "ready" /\ ~boot'[p].rebuild
  BY <1>3 DEF Moves, Booting
<1>5. Apart(p) /\ orphaned' = orphaned /\ holder' # p
  BY <1>1, <1>3, StepsApart DEF Serve, Commit
<1>6. AtSearch(p)' /\ Uninvolved(boot[p])'
  BY <1>4, <1>5 DEF AtSearch, Uninvolved
<1>7. CASE holder # p
  <2>1. Uninvolved(boot[p]) /\ disk' = disk
    BY <1>1, <1>7 DEF AtSearch, Uninvolved, Serve, Commit
  <2> QED
    BY <1>5, <1>6, <2>1, UninvolvedStep
<1>8. CASE holder = p
  <2>1. disk'.search = [disk.search EXCEPT !.whole = TRUE, !.key = TRUE] /\ boot[p].rebuild
    BY <1>1, <1>8 DEF AtSearch, HolderAt, Serve, Commit
  <2>2. disk'.search.whole /\ disk'.search.triggers = disk.search.triggers
    BY <1>1, <2>1 DEF StartTypeOK, FileOf, SearchOf
  <2>3. Filling(p) /\ ~Triggering(p)
    BY <1>1, <1>8, <2>1 DEF Filling, Triggering, Stands
  <2>4. ~disk.search.triggers => orphaned \/ \E r \in Starters : Triggering(r)'
    BY <1>5, <2>3, OthersRoles DEF SearchInv, Triggered
  <2>5. \A r \in Starters : Triggering(r)' => Rebuilding(r)'
    BY DEF Triggering, Rebuilding
  <2>6. Tended' /\ Triggered'
    BY <1>5, <2>2, <2>4, <2>5 DEF Tended, Triggered
  <2> QED
    BY <1>5, <1>6, <2>6, SearchStep
<1> QED
  BY <1>7, <1>8

\* p leaves the index as it is.
LEMMA GiveUpKeepsSearch ==
    ASSUME UpgradeInv, SearchInv, NEW p \in Starters, GiveUpSearch(p),
           UNCHANGED <<disk, draft, holder>>, holder # p
    PROVE  SearchInv'
<1>1. PICK b : Moves(p, b) /\ b.pc = "commit" /\ ~b.rebuild
  BY GiveUpMoves DEF UpgradeInv
<1>2. boot'[p] = b /\ Apart(p)
  BY <1>1, StepsApart DEF Moves
<1>3. AtSearch(p)' /\ Uninvolved(boot[p])'
  BY <1>1, <1>2 DEF AtSearch, Uninvolved
<1> QED
  BY <1>2, <1>3, LeavesStep DEF GiveUpSearch

LEMMA BreaksKeepSearch ==
    ASSUME UpgradeInv, SearchInv, NEW p \in Starters, NoTable(p) \/ Die(p) \/ WaitsTooLong(p)
    PROVE  SearchInv'
<1>1. StartTypeOK /\ p # NoStarter
  BY StartAssumption DEF UpgradeInv
<1>2. CASE NoTable(p)
  <2>1. holder # p
    BY <1>2, SeesSearch DEF NoTable, Stands
  <2> QED
    BY <1>2, <2>1, GiveUpKeepsSearch DEF NoTable
<1>3. CASE Die(p)
  <2>1. Moves(p, Down)
    BY <1>1, <1>3, GoesDown DEF Die
  <2>2. Apart(p) /\ disk' = disk /\ holder' # p
    BY <1>1, <1>3, <2>1, StepsApart DEF Die, Rollback
  <2>3. boot'[p].pc = "down" /\ ~boot'[p].rebuild
    BY <2>1 DEF Moves, Down, Booting
  <2>4. AtSearch(p)' /\ Uninvolved(boot[p])'
    BY <2>2, <2>3 DEF AtSearch, Uninvolved
  <2> QED
    BY <1>3, <2>2, <2>4, LeavesStep DEF Die
<1>4. CASE WaitsTooLong(p)
  <2>1. holder # p /\ UNCHANGED <<disk, draft, holder>>
    BY <1>4 DEF WaitsTooLong
  <2>2. CASE boot[p].pc \in {"untrigger", "drop", "table", "triggers", "rebuild"}
    BY <1>4, <2>1, <2>2, GiveUpKeepsSearch DEF WaitsTooLong
  <2>3. CASE boot[p].pc \notin {"untrigger", "drop", "table", "triggers", "rebuild"}
    <3>1. boot[p].pc \in {"script", "baseline", "run"}
      BY <1>4, <2>3 DEF WaitsTooLong, Writes, Does, Running, Done, Stands
    <3>2. Moves(p, Down) /\ orphaned' = orphaned
      BY <1>1, <1>4, <2>3, GoesDown DEF WaitsTooLong
    <3>3. boot'[p].pc = "down" /\ ~boot'[p].rebuild
      BY <3>2 DEF Moves, Down, Booting
    <3>4. AtSearch(p)' /\ Uninvolved(boot[p]) /\ Uninvolved(boot[p])'
      BY <2>1, <3>1, <3>3 DEF AtSearch, Uninvolved
    <3>5. Apart(p)
      BY <2>1, <3>2, StepsApart
    <3> QED
      BY <2>1, <3>2, <3>4, <3>5, UninvolvedStep
  <2> QED
    BY <2>2, <2>3
<1> QED
  BY <1>2, <1>3, <1>4

LEMMA RestartKeepsSearch ==
    ASSUME UpgradeInv, SearchInv, NEW p \in Starters, Restart(p)
    PROVE  SearchInv'
<1>1. StartTypeOK /\ boot[p].pc = "down" /\ holder # p
  BY SeesSearch DEF UpgradeInv, Restart, Stands
<1>2. Moves(p, [boot[p] EXCEPT !.pc = "script"])
  BY <1>1, GoesOn DEF Restart, StartPcs
<1>3. Apart(p) /\ boot'[p].pc = "script"
  BY <1>1, <1>2, StepsApart DEF Restart, Moves, StartTypeOK
<1>4. AtSearch(p)' /\ Uninvolved(boot[p]) /\ Uninvolved(boot[p])'
  BY <1>1, <1>3 DEF Restart, AtSearch, Uninvolved
<1> QED
  BY <1>3, <1>4, UninvolvedStep DEF Restart

LEMMA AddImageKeepsSearch ==
    ASSUME UpgradeInv, SearchInv, NEW p \in Starters, AddImage(p)
    PROVE  SearchInv'
<1>1. StartTypeOK /\ holder = NoStarter /\ UNCHANGED <<draft, holder, boot, orphaned>>
  BY DEF UpgradeInv, AddImage
<1>2. /\ disk'.search.key = disk.search.key /\ disk'.search.table = disk.search.table
      /\ disk'.search.triggers = disk.search.triggers
      /\ disk'.search.whole = (disk.search.whole /\ disk.search.triggers)
  BY <1>1 DEF AddImage, StartTypeOK, FileOf, SearchOf
<1>3. \A q \in Starters : AtSearch(q)'
  BY <1>1, StartAssumption DEF SearchInv, AtSearch
<1>4. \A q \in Starters : /\ Rebuilding(q)' <=> Rebuilding(q)
                          /\ Trusting(q)' <=> Trusting(q)
                          /\ Triggering(q)' <=> Triggering(q)
                          /\ Filling(q)' <=> Filling(q)
  BY <1>1 DEF Rebuilding, Trusting, Triggering, Filling, Stands
<1>5. Tended'
  BY <1>1, <1>2, <1>4 DEF SearchInv, Tended
<1>6. Triggered'
  BY <1>1, <1>2, <1>4 DEF SearchInv, Triggered
<1> QED
  BY <1>3, <1>5, <1>6 DEF SearchInv

StartInv == UpgradeInv /\ SearchInv

LEMMA InitStartInv == StartInit => StartInv
<1> SUFFICES ASSUME StartInit PROVE SearchInv
  BY InitUpgradeInv DEF StartInv
<1>1. \A p \in Starters : boot[p].pc = "down" /\ ~boot[p].rebuild /\ holder # p
  BY StartAssumption DEF StartInit, Down, Booting
<1>2. disk.search.key => disk.search.whole /\ disk.search.triggers
  BY SearchesAre DEF StartInit, Blank, NoSearch
<1>3. \A p \in Starters : AtSearch(p) /\ ~Filling(p)
  BY <1>1 DEF AtSearch, Filling
<1> QED
  BY <1>2, <1>3 DEF SearchInv, Tended, Triggered

LEMMA NextStartInv ==
    ASSUME StartInv, [StartNext]_startVars
    PROVE  StartInv'
<1>1. UpgradeInv /\ SearchInv /\ UpgradeInv'
  BY NextUpgradeInv DEF StartInv
<1>2. CASE UNCHANGED startVars
  BY <1>1, <1>2 DEF startVars, StartInv, SearchInv, AtSearch, HolderAt, Tended, Triggered,
                    Rebuilding, Trusting, Triggering, Filling, Stands
<1>3. ASSUME NEW p \in Starters, Restart(p) \/ AddImage(p) \/ Die(p) \/ WaitsTooLong(p)
      PROVE  SearchInv'
  BY <1>1, <1>3, RestartKeepsSearch, AddImageKeepsSearch, BreaksKeepSearch
<1>4. ASSUME NEW p \in Starters, MigrationSteps(p)
      PROVE  SearchInv'
  BY <1>1, <1>4, MigrationsKeepSearch
<1>5. ASSUME NEW p \in Starters, SearchSteps(p)
      PROVE  SearchInv'
  BY <1>1, <1>5, CheckSearchKeepsSearch, SettleKeepsSearch, DropsKeepSearch,
     CreateTableKeepsSearch, CreateTriggersKeepsSearch, RebuildKeepsSearch, BreaksKeepSearch,
     ServeKeepsSearch DEF SearchSteps
<1> QED
  BY <1>1, <1>2, <1>3, <1>4, <1>5 DEF StartNext, StartInv

\* An index with a valid key is complete, or someone will care for it
\* (_ensure_gallery_fts, migrations.py:45-97).
THEOREM AlwaysStartInv == StartSpec => []StartInv
  BY InitStartInv, NextStartInv, PTL DEF StartSpec

\* A search does not miss images (_ensure_gallery_fts, migrations.py:45-97).
THEOREM SearchWholeHolds == StartSpec => []SearchWhole
<1>1. StartInv => SearchWhole
  BY DEF StartInv, SearchInv, Tended, SearchWhole
<1> QED
  BY <1>1, AlwaysStartInv, PTL

=============================================================================
