---------------------------- MODULE AssistantSlots ----------------------------
(***************************************************************************)
(* The slots of requests to the assistant (services/assistant_slots.py     *)
(* over repositories/coordination/leases.py and services/lease_renewal.py) *)
(* when several processes share them.                                      *)
(*                                                                         *)
(* A request needs a permit of its process and a slot of the database.     *)
(* Transactions run in threads that outlive the request: one that is       *)
(* cancelled gives its permit back at once and leaves it to a clean-up     *)
(* task to return what the thread has taken.  A slot is a lease with a     *)
(* fresh owner, renewed while the request works; a renewal that finds the  *)
(* lease lapsed cancels the request.                                       *)
(***************************************************************************)
EXTENDS Naturals, FiniteSets

CONSTANTS
    Workers,        \* processes
    Requests,       \* requests; each is the owner of the slot it acquires
    HomeOf,         \* the process of each request
    Patient,        \* requests that wait for a slot, for a limited time
    Nobody,         \* no request
    SlotCount,      \* AI_ASSISTANT_MAX_CONCURRENCY
    MaxEvents       \* bound: cancellations, errors, stalls, kills

Slots == 1 .. SlotCount

ASSUME SlotsAssumption ==
    /\ SlotCount \in Nat \ {0} /\ MaxEvents \in Nat
    /\ HomeOf \in [Requests -> Workers]
    /\ IsFiniteSet(Requests) /\ Patient \subseteq Requests
    /\ Nobody \notin Requests

VARIABLES
    slot,       \* background_leases: owner, lease_expires_at not passed
    free,       \* permits left in the semaphore of each process
    at,         \* where each request is
    call,       \* the transaction of each request and the slot it is about
    lapsed,     \* history: requests whose lease ended before they returned it
    count       \* how many bounded events have happened

vars == <<slot, free, at, call, lapsed, count>>

Has(r) == call[r].op \in {"got", "release"}
OwnedBy(r, i) == slot[i].owner = r /\ slot[i].live
Permitted(r) == at[r] \in {"acquiring", "working", "releasing"}

Init ==
    /\ slot = [i \in Slots |-> [owner |-> Nobody, live |-> FALSE]]
    /\ free = [w \in Workers |-> SlotCount]
    /\ at = [r \in Requests |-> "permit"]
    /\ call = [r \in Requests |-> [op |-> "none", slot |-> 0]]
    /\ lapsed = {}
    /\ count = 0

Event == count < MaxEvents /\ count' = count + 1

Lease(i, o, live) == slot' = [slot EXCEPT ![i] = [owner |-> o, live |-> live]]
Call(r, op, i) == call' = [call EXCEPT ![r] = [op |-> op, slot |-> i]]
NoCall(r) == Call(r, "none", 0)
ReturnPermit(r) == free' = [free EXCEPT ![HomeOf[r]] = @ + 1]

-----------------------------------------------------------------------------
(* A request                                                               *)

\* The semaphore, then a task that acquires a slot in a thread.
TakePermit(r) ==
    /\ at[r] = "permit" /\ free[HomeOf[r]] > 0
    /\ free' = [free EXCEPT ![HomeOf[r]] = @ - 1]
    /\ at' = [at EXCEPT ![r] = "acquiring"]
    /\ Call(r, "acquire", 0)
    /\ UNCHANGED <<slot, lapsed, count>>

\* acquire_background_slot: the first slot whose lease has ended.
AcquireTx(r) ==
    /\ call[r].op = "acquire"
    /\ \E i \in Slots :
           /\ ~slot[i].live
           /\ \A k \in Slots : k < i => slot[k].live
           /\ Lease(i, r, TRUE)
           /\ Call(r, "got", i)
    /\ UNCHANGED <<free, at, lapsed, count>>

AcquireRefused(r) ==
    /\ call[r].op = "acquire"
    /\ \A i \in Slots : slot[i].live
    /\ Call(r, "refused", 0)
    /\ UNCHANGED <<slot, free, at, lapsed, count>>

Work(r) ==
    /\ at[r] = "acquiring" /\ call[r].op = "got"
    /\ at' = [at EXCEPT ![r] = "working"]
    /\ UNCHANGED <<slot, free, call, lapsed, count>>

\* Mutant: it pauses with its permit in hand.
M_Refused_KeepsPermit(r) ==
    /\ at[r] = "acquiring" /\ call[r].op = "refused"
    /\ at' = [at EXCEPT ![r] = IF r \in Patient THEN "pausing" ELSE "done"]
    /\ NoCall(r)
    /\ IF r \in Patient THEN UNCHANGED free ELSE ReturnPermit(r)
    /\ UNCHANGED <<slot, lapsed, count>>

\* All slots are taken: a patient request gives its permit back and pauses.
Refused(r) ==
    /\ at[r] = "acquiring" /\ call[r].op = "refused"
    /\ at' = [at EXCEPT ![r] = IF r \in Patient THEN "pausing" ELSE "done"]
    /\ NoCall(r)
    /\ ReturnPermit(r)
    /\ UNCHANGED <<slot, lapsed, count>>

Retry(r) ==
    /\ at[r] = "pausing"
    /\ at' = [at EXCEPT ![r] = "permit"]
    /\ UNCHANGED <<slot, free, call, lapsed, count>>

\* max_wait_seconds end while it waits for a permit or pauses.
GiveUp(r) ==
    /\ r \in Patient /\ at[r] \in {"permit", "pausing"}
    /\ at' = [at EXCEPT ![r] = "done"]
    /\ UNCHANGED <<slot, free, call, lapsed, count>>

Leaving(r) ==
    /\ at' = [at EXCEPT ![r] = "releasing"]
    /\ Call(r, "release", call[r].slot)
    /\ UNCHANGED <<slot, free, lapsed, count>>

\* The request returns, raises or is cancelled.
Finish(r) == at[r] = "working" /\ Leaving(r)

\* Mutant: a lapsed lease is noticed only once another request has it.
M_StopLost_OwnerOnly(r) == at[r] = "working" /\ slot[call[r].slot].owner # r /\ Leaving(r)

\* renew_background_slot finds no unexpired lease of this owner: on_lost
\* cancels the request, which leaves by the same way.
StopLost(r) == at[r] = "working" /\ ~OwnedBy(r, call[r].slot) /\ Leaving(r)

\* Mutant: without the owner in the condition.
M_Released_Unfenced(r) == Lease(call[r].slot, r, FALSE)

\* release_background_lease writes a row of this owner only.
Released(r) ==
    IF slot[call[r].slot].owner = r THEN Lease(call[r].slot, r, FALSE) ELSE UNCHANGED slot

Release(r) ==
    /\ call[r].op = "release"
    /\ Released(r)
    /\ NoCall(r)
    /\ IF at[r] = "releasing"
       THEN at' = [at EXCEPT ![r] = "done"] /\ ReturnPermit(r)
       ELSE UNCHANGED <<at, free>>
    /\ UNCHANGED <<lapsed, count>>

-----------------------------------------------------------------------------
(* Cancellation                                                            *)

\* The client is gone, or the wait is over, while the thread acquires a slot:
\* the permit is returned now, and release_late waits for the thread.
CancelAcquiring(r) ==
    /\ Event /\ at[r] = "acquiring"
    /\ at' = [at EXCEPT ![r] = "done"]
    /\ ReturnPermit(r)
    /\ UNCHANGED <<slot, call, lapsed>>

\* Mutant: what the thread acquired too late is left.
M_ReleaseLate_Forgets(r) ==
    /\ at[r] = "done" /\ call[r].op \in {"got", "refused"} /\ NoCall(r)
    /\ UNCHANGED <<slot, free, at, lapsed, count>>

ReleaseLate(r) ==
    /\ at[r] = "done"
    /\ \/ call[r].op = "got" /\ Call(r, "release", call[r].slot)
       \/ call[r].op = "refused" /\ NoCall(r)
    /\ UNCHANGED <<slot, free, at, lapsed, count>>

CancelWaiting(r) ==
    /\ Event /\ at[r] \in {"permit", "pausing"}
    /\ at' = [at EXCEPT ![r] = "done"]
    /\ UNCHANGED <<slot, free, call, lapsed>>

\* The release is shielded: it goes on in its thread.
CancelReleasing(r) ==
    /\ Event /\ at[r] = "releasing"
    /\ at' = [at EXCEPT ![r] = "done"]
    /\ ReturnPermit(r)
    /\ UNCHANGED <<slot, call, lapsed>>

-----------------------------------------------------------------------------
(* Failures                                                                *)

AcquireFails(r) ==
    /\ Event /\ call[r].op = "acquire"
    /\ NoCall(r)
    /\ IF at[r] = "acquiring"
       THEN at' = [at EXCEPT ![r] = "done"] /\ ReturnPermit(r)
       ELSE UNCHANGED <<at, free>>
    /\ UNCHANGED <<slot, lapsed>>

\* A release that fails is logged; the lease ends by itself.
ReleaseFails(r) ==
    /\ Event /\ call[r].op = "release"
    /\ NoCall(r)
    /\ at' = [at EXCEPT ![r] = "dead"]
    /\ IF at[r] = "releasing" THEN ReturnPermit(r) ELSE UNCHANGED free
    /\ UNCHANGED <<slot, lapsed>>

Kill(w) ==
    /\ Event
    /\ at' = [r \in Requests |-> IF HomeOf[r] = w THEN "dead" ELSE at[r]]
    /\ call' = [r \in Requests |-> IF HomeOf[r] = w THEN [op |-> "none", slot |-> 0] ELSE call[r]]
    /\ free' = [free EXCEPT ![w] = SlotCount]
    /\ UNCHANGED <<slot, lapsed>>

Orphaned(i) == slot[i].live /\ at[slot[i].owner] = "dead"

\* The clock passes lease_expires_at: always for an owner that is no more, and
\* for another one when its process or the database stalls for as long.
Lapse(i) ==
    /\ slot[i].live
    /\ IF Orphaned(i) THEN UNCHANGED count ELSE Event
    /\ Lease(i, slot[i].owner, FALSE)
    /\ lapsed' = lapsed \cup {slot[i].owner}
    /\ UNCHANGED <<free, at, call>>

-----------------------------------------------------------------------------

Transact(r) == AcquireTx(r) \/ AcquireRefused(r) \/ Release(r) \/ ReleaseLate(r)

Proceed(r) ==
    \/ TakePermit(r) \/ Work(r) \/ Refused(r) \/ Retry(r) \/ GiveUp(r)
    \/ Finish(r) \/ StopLost(r)

Fail(r) ==
    \/ CancelWaiting(r) \/ CancelAcquiring(r) \/ CancelReleasing(r)
    \/ AcquireFails(r) \/ ReleaseFails(r)

Next ==
    \/ \E r \in Requests : Transact(r) \/ Proceed(r) \/ Fail(r)
    \/ \E w \in Workers : Kill(w)
    \/ \E i \in Slots : Lapse(i)

SlotSpec == Init /\ [][Next]_vars

\* Threads finish, a request whose lease is lost is stopped by its renewal, a
\* patient one has a deadline, and leases of the dead end.  The work itself may
\* take for ever.
SlotFairSpec ==
    /\ SlotSpec
    /\ \A r \in Requests :
        /\ WF_vars(Transact(r))
        /\ WF_vars(Work(r) \/ Refused(r) \/ StopLost(r))
        /\ WF_vars(GiveUp(r))
    /\ \A i \in Slots : WF_vars(Orphaned(i) /\ Lapse(i))

-----------------------------------------------------------------------------
(* Properties                                                              *)

SlotsTypeOK ==
    /\ slot \in [Slots -> [owner : Requests \cup {Nobody}, live : BOOLEAN]]
    /\ free \in [Workers -> Nat]
    /\ at \in [Requests -> {"permit", "acquiring", "working", "releasing", "pausing", "done", "dead"}]
    /\ call \in [Requests -> [op : {"none", "acquire", "got", "refused", "release"},
                              slot : 0 .. SlotCount]]
    /\ lapsed \subseteq Requests
    /\ count \in Nat

\* A request works on a slot that is its own, unless the lease lapsed under it:
\* neither an acquisition nor a late release of another request takes it away
\* (leases.py:14-59, 110-133, assistant_slots.py:145-166).
WorkingOwns ==
    \A r \in Requests : at[r] = "working" /\ r \notin lapsed => OwnedBy(r, call[r].slot)

\* No slot is forgotten: a live lease belongs to a request that uses it or has a
\* task that will return it, or to one that died (assistant_slots.py:151-201).
SlotAccounted ==
    \A i \in Slots : slot[i].live =>
        LET r == slot[i].owner
        IN r \in Requests /\ ((Has(r) /\ call[r].slot = i) \/ at[r] = "dead")

\* No permit is lost or returned twice, however a request ends
\* (assistant_slots.py:145-201).
PermitsBalanced ==
    \A w \in Workers :
        free[w] + Cardinality({r \in Requests : HomeOf[r] = w /\ Permitted(r)}) = SlotCount

\* A request whose lease another may have taken does not go on
\* (lease_renewal.py:99-101, assistant_slots.py:176-196).
LostStops ==
    \A r \in Requests :
        at[r] = "working" /\ ~OwnedBy(r, call[r].slot) ~> at[r] # "working"
=============================================================================
