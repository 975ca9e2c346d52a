-------------------------- MODULE ImageJobContract --------------------------
(***************************************************************************)
(* What the image job queue promises to whoever submitted a job, without   *)
(* claims, leases, attempts or reservations: a job is open until all its   *)
(* units are answered, every answer is given once, and the job's outcome   *)
(* is decided once, from those answers.  A finished job may be forgotten.  *)
(***************************************************************************)
CONSTANTS Jobs, Units, ParentOf

VARIABLES
    outcome,    \* what a reader of the job sees
    answer      \* what became of each unit

contractVars == <<outcome, answer>>

Failures == {"error", "upstream_error"}
Answers == Failures \cup {"success", "cancelled", "interrupted"}
Outcomes == Failures \cup {"success", "partial_failure", "cancelled"}

Parts(j) == {u \in Units : ParentOf[u] = j}

ContractInit == /\ outcome = [j \in Jobs |-> "none"]
                /\ answer = [u \in Units |-> "none"]

Accept(j) == /\ outcome[j] = "none"
             /\ Parts(j) # {}
             /\ outcome' = [outcome EXCEPT ![j] = "open"]
             /\ answer' = [u \in Units |-> IF ParentOf[u] = j THEN "open" ELSE answer[u]]

\* Some open units get their answers, each its own.
Answer(S, given) ==
    /\ \A u \in S : answer[u] = "open"
    /\ answer' = [u \in Units |-> IF u \in S THEN given[u] ELSE answer[u]]
    /\ UNCHANGED outcome

\* The job is decided from a full set of answers.
Decide(j) ==
    /\ outcome[j] = "open"
    /\ Parts(j) # {} /\ \A u \in Parts(j) : answer[u] \in Answers
    /\ \E v \in Outcomes :
          /\ v \in {"success", "partial_failure"}
                <=> \E u \in Parts(j) : answer[u] = "success"
          /\ v = "partial_failure" => \E u \in Parts(j) : answer[u] \in Failures
          /\ v = "cancelled" <=> \A u \in Parts(j) : answer[u] = "cancelled"
          /\ outcome' = [outcome EXCEPT ![j] = v]
    /\ UNCHANGED answer

\* The user cancels: what is open is cancelled, what is answered stays.
Cancel(j) == /\ outcome[j] = "open"
             /\ outcome' = [outcome EXCEPT ![j] = "cancelled"]
             /\ answer' = [u \in Units |-> IF ParentOf[u] = j /\ answer[u] = "open"
                                           THEN "cancelled" ELSE answer[u]]

Forget(S) == /\ \A j \in S : outcome[j] \in Outcomes
             /\ outcome' = [j \in Jobs |-> IF j \in S THEN "deleted" ELSE outcome[j]]
             /\ answer' = [u \in Units |-> IF ParentOf[u] \in S THEN "none" ELSE answer[u]]

\* A forgotten job may come back as an empty open one (see the README).
Haunt(j) == /\ outcome[j] = "deleted"
            /\ outcome' = [outcome EXCEPT ![j] = "open"]
            /\ UNCHANGED answer

ContractNext == \/ \E j \in Jobs : Accept(j) \/ Decide(j) \/ Cancel(j) \/ Haunt(j)
                \/ \E S \in SUBSET Units : \E given \in [S -> Answers] : Answer(S, given)
                \/ \E S \in SUBSET Jobs : Forget(S)

ContractSpec == ContractInit /\ [][ContractNext]_contractVars

=============================================================================
