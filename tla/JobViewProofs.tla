----------------------------- MODULE JobViewProofs -----------------------------
(***************************************************************************)
(* Why the webhook of an image job is started once, for every number of    *)
(* processes, calls and streams: however the copies, the progress writes   *)
(* and the deliveries of several calls interleave, the URL is in the row   *)
(* until the call that ended the job takes it out.                         *)
(***************************************************************************)
EXTENDS JobView, FiniteSetTheorems, TLAPS

-----------------------------------------------------------------------------
(* The inductive invariant.                                                 *)

Rows == [st : {"active", "ended", "gone"}, v : Nat, url : BOOLEAN]
Calls == [at : {"idle", "write", "reload", "remember", "announce", "pop", "deliver"},
          v : Nat, url : BOOLEAN]

\* What the row and the calls hold.
HookTypeOK == /\ row \in Rows /\ task \in [Tasks -> Calls]
              /\ posts \in Nat /\ clock \in Nat /\ excused \in BOOLEAN

NobodyOwes == \A t \in Tasks : ~Owes(t)
OnlyOwes(t) == Owes(t) /\ \A u \in Tasks : Owes(u) => u = t

\* While the job is active its URL is in the row and nobody owes the webhook, so
\* that the one call that ends the job finds it.
HookInv == \/ excused
           \/ row.st = "active" /\ row.url /\ posts = 0 /\ NobodyOwes
           \/ row.st = "ended" /\ posts = 1 /\ NobodyOwes
           \/ row.st = "ended" /\ posts = 0
              /\ \E t \in Tasks : OnlyOwes(t) /\ (task[t].at # "deliver" => row.url)

\* Who is about to deliver owes it.
CallInv == \A t \in Tasks : task[t].at \in {"pop", "deliver"} => task[t].url

ViewInv == HookTypeOK /\ CallInv /\ HookInv

-----------------------------------------------------------------------------
(* Steps.                                                                   *)

LEMMA NoTaskType == NoTask \in Calls /\ NoTask.at = "idle"
BY DEF NoTask, Calls

\* A call that does not owe the webhook, and does not come to, takes a step.
LEMMA Aside ==
    ASSUME ViewInv, NEW t \in Tasks, NEW c \in Calls, task' = [task EXCEPT ![t] = c],
           ~Owes(t) \/ excused', c.at \notin {"announce", "pop", "deliver"},
           row' \in Rows, row'.st = row.st, row.url => row'.url, posts' = posts,
           clock' \in Nat, excused' \in BOOLEAN, excused => excused'
    PROVE  ViewInv'
<1>1. /\ HookTypeOK /\ CallInv /\ HookInv
      /\ task'[t] = c /\ \A u \in Tasks \ {t} : task'[u] = task[u]
  BY DEF ViewInv, HookTypeOK
<1>2. HookTypeOK'
  BY <1>1 DEF HookTypeOK
<1>3. CallInv'
  BY <1>1 DEF CallInv
<1>4. ~Owes(t)'
  BY <1>1 DEF Owes
<1>7. ASSUME NEW u \in Tasks, u # t PROVE Owes(u)' <=> Owes(u)
  <2>1. task'[u] = task[u]
    BY <1>1, <1>7
  <2> QED
    BY <2>1 DEF Owes
<1>5. ASSUME excused' PROVE HookInv'
  BY <1>5 DEF HookInv
<1>6. ASSUME ~excused', ~Owes(t) PROVE HookInv'
  <2>1. NobodyOwes => NobodyOwes'
    BY <1>4, <1>7 DEF NobodyOwes
  <2>2. ASSUME NEW u \in Tasks, OnlyOwes(u) PROVE OnlyOwes(u)' /\ task'[u] = task[u]
    <3>1. u # t /\ Owes(u)' /\ task'[u] = task[u]
      BY <1>1, <1>6, <1>7, <2>2 DEF OnlyOwes
    <3>2. ASSUME NEW v \in Tasks, Owes(v)' PROVE v = u
      BY <1>4, <1>7, <2>2, <3>2 DEF OnlyOwes
    <3> QED
      BY <3>1, <3>2 DEF OnlyOwes
  <2> QED
    BY <1>1, <1>6, <2>1, <2>2 DEF HookInv
<1> QED
  BY <1>2, <1>3, <1>5, <1>6 DEF ViewInv

LEMMA BeginStep == ASSUME ViewInv, NEW t \in Tasks, BeginUpdate(t) PROVE ViewInv'
<1> DEFINE c == [at |-> "write", v |-> clock + 1, url |-> Copied(HomeOf[t]) \/ row.url]
<1>1. HookTypeOK /\ task[t] = NoTask
  BY DEF ViewInv, BeginUpdate
<1>2. c.url \in BOOLEAN
  BY <1>1 DEF Copied, HookTypeOK, Rows
<1>3. c \in Calls /\ c.at = "write"
  BY <1>1, <1>2 DEF HookTypeOK, Calls
<1>4. /\ task' = [task EXCEPT ![t] = c] /\ clock' = clock + 1 /\ UNCHANGED <<row, posts, excused>>
  BY DEF BeginUpdate
<1> HIDE DEF c
<1>5. ~Owes(t)
  BY <1>1, NoTaskType DEF Owes
<1>6. /\ row' \in Rows /\ row'.st = row.st /\ (row.url => row'.url) /\ posts' = posts
      /\ clock' \in Nat /\ excused' \in BOOLEAN /\ (excused => excused')
  BY <1>1, <1>4 DEF HookTypeOK
<1> QED
  BY <1>3, <1>4, <1>5, <1>6, Aside

LEMMA UpsertStep == ASSUME ViewInv, NEW t \in Tasks, Upsert(t) PROVE ViewInv'
<1>1. HookTypeOK /\ task[t] \in Calls /\ task[t].at = "write" /\ ~Owes(t)
  BY DEF ViewInv, HookTypeOK, Upsert, Owes
<1>2. UNCHANGED <<posts, clock, excused>>
  BY DEF Upsert
<1>3. ASSUME NEW pc \in {"reload", "remember"}, task' = [task EXCEPT ![t].at = pc]
      PROVE  \E c \in Calls : task' = [task EXCEPT ![t] = c] /\ c.at = pc
  <2>1. [task[t] EXCEPT !.at = pc] \in Calls
    BY <1>1 DEF Calls
  <2> QED
    BY <1>1, <1>3, <2>1 DEF Calls
<1>4. CASE row.st = "ended"
  <2>1. row' = row /\ task' = [task EXCEPT ![t].at = "reload"]
    BY <1>4 DEF Upsert
  <2>2. PICK c \in Calls : task' = [task EXCEPT ![t] = c] /\ c.at = "reload"
    BY <1>3, <2>1
  <2> QED
    BY <1>1, <1>2, <2>1, <2>2, Aside DEF HookTypeOK
<1>5. CASE row.st # "ended"
  <2>1. /\ row' = [st |-> "active", v |-> task[t].v, url |-> task[t].url \/ row.url]
        /\ task' = [task EXCEPT ![t].at = "remember"]
    BY <1>5 DEF Upsert
  <2>2. row' \in Rows /\ (row.url => row'.url) /\ row'.st = "active"
    BY <1>1, <2>1 DEF HookTypeOK, Rows, Calls
  <2>3. PICK c \in Calls : task' = [task EXCEPT ![t] = c] /\ c.at = "remember"
    BY <1>3, <2>1
  <2>4. CASE row.st = "active"
    BY <1>1, <1>2, <2>2, <2>3, <2>4, Aside DEF HookTypeOK
  <2>5. CASE row.st # "active"
    <3>1. excused
      BY <1>5, <2>5 DEF ViewInv, HookInv
    <3>2. HookTypeOK' /\ HookInv'
      BY <1>1, <1>2, <2>2, <2>3, <3>1 DEF HookTypeOK, HookInv
    <3>3. CallInv'
      BY <1>1, <2>3 DEF ViewInv, CallInv, HookTypeOK
    <3> QED
      BY <3>2, <3>3 DEF ViewInv
  <2> QED
    BY <2>4, <2>5
<1> QED
  BY <1>4, <1>5

LEMMA ToldStep ==
    ASSUME ViewInv, NEW t \in Tasks, SkipUpsert(t) \/ Reload(t) \/ Remember(t) PROVE ViewInv'
<1>1. HookTypeOK /\ task[t].at \in {"write", "reload", "remember"} /\ task' = [task EXCEPT ![t] = NoTask]
      /\ UNCHANGED <<row, posts, clock, excused>>
  BY DEF ViewInv, SkipUpsert, Reload, Remember
<1>2. ~Owes(t)
  BY <1>1 DEF Owes
<1> QED
  BY <1>1, <1>2, NoTaskType, Aside DEF HookTypeOK

\* The call that ends the job comes to owe the webhook.
LEMMA EndStep == ASSUME ViewInv, NEW t \in Tasks, End(t) PROVE ViewInv'
<1> DEFINE c == [at |-> "announce", v |-> 0, url |-> Active]
<1>1. /\ HookTypeOK /\ CallInv /\ HookInv /\ task[t] = NoTask /\ task' = [task EXCEPT ![t] = c]
      /\ row.st # "gone" /\ clock' = clock + 1 /\ UNCHANGED <<posts, excused>>
  BY DEF ViewInv, End
<1>2. c \in Calls /\ c.at = "announce" /\ (c.url <=> row.st = "active")
  BY DEF Calls, Active
<1> HIDE DEF c
<1>3. ~Owes(t) /\ task'[t] = c /\ \A u \in Tasks \ {t} : task'[u] = task[u]
  BY <1>1, NoTaskType DEF Owes, HookTypeOK
<1>4. /\ row' \in Rows /\ row'.url = row.url /\ row'.st = "ended"
      /\ row.st # "active" => row' = row /\ row.st = "ended"
  <2>1. row' = IF Active THEN [row EXCEPT !.st = "ended", !.v = clock + 1] ELSE row
    BY DEF End
  <2>2. row.st \in {"active", "ended"} /\ row \in Rows /\ clock + 1 \in Nat
    BY <1>1 DEF HookTypeOK, Rows
  <2>3. CASE row.st = "active"
    <3>1. row' = [row EXCEPT !.st = "ended", !.v = clock + 1]
      BY <2>1, <2>3 DEF Active
    <3> QED
      BY <2>2, <2>3, <3>1 DEF Rows
  <2>4. CASE row.st = "ended"
    BY <2>1, <2>2, <2>4 DEF Active
  <2> QED
    BY <2>2, <2>3, <2>4
<1>5. HookTypeOK'
  BY <1>1, <1>2, <1>4 DEF HookTypeOK
<1>6. CallInv'
  BY <1>1, <1>2, <1>3 DEF CallInv
<1>7. /\ Owes(t)' <=> row.st = "active"
      /\ \A u \in Tasks \ {t} : Owes(u)' <=> Owes(u)
  BY <1>2, <1>3 DEF Owes
<1>8. HookInv'
  <2>1. CASE excused
    BY <1>1, <2>1 DEF HookInv
  <2>2. CASE ~excused /\ row.st = "active"
    <3>1. NobodyOwes /\ row.url /\ posts = 0
      BY <1>1, <2>2 DEF HookInv
    <3>2. OnlyOwes(t)'
      BY <1>7, <2>2, <3>1 DEF OnlyOwes, NobodyOwes
    <3> QED
      BY <1>1, <1>4, <3>1, <3>2 DEF HookInv
  <2>3. CASE ~excused /\ row.st # "active"
    <3>1. \A u \in Tasks : Owes(u)' <=> Owes(u)
      BY <1>3, <1>7, <2>3
    <3>2. NobodyOwes => NobodyOwes'
      BY <3>1 DEF NobodyOwes
    <3>3. ASSUME NEW u \in Tasks, OnlyOwes(u) PROVE OnlyOwes(u)' /\ task'[u] = task[u]
      BY <1>3, <3>1, <3>3 DEF OnlyOwes
    <3> QED
      BY <1>1, <1>4, <2>3, <3>2, <3>3 DEF HookInv
  <2> QED
    BY <2>1, <2>2, <2>3
<1> QED
  BY <1>5, <1>6, <1>8 DEF ViewInv

\* It tells its process, takes the URL out of the row ...
LEMMA OwedStep == ASSUME ViewInv, NEW t \in Tasks, Announce(t) \/ PopWebhook(t) PROVE ViewInv'
<1>1. /\ HookTypeOK /\ CallInv /\ HookInv /\ task[t] \in Calls /\ UNCHANGED <<posts, clock, excused>>
  BY DEF ViewInv, HookTypeOK, Announce, PopWebhook
<1>2. CASE task' = [task EXCEPT ![t] = NoTask] /\ ~Owes(t) /\ row' = row
  BY <1>1, <1>2, NoTaskType, Aside DEF HookTypeOK
<1>3. ASSUME NEW pc \in {"pop", "deliver"}, task' = [task EXCEPT ![t].at = pc], Owes(t),
             row' \in Rows, row'.st = row.st, pc = "pop" => row' = row /\ task[t].at # "deliver"
      PROVE  ViewInv'
  <2>1. /\ task'[t].at = pc /\ task'[t].url /\ task' \in [Tasks -> Calls]
        /\ \A u \in Tasks \ {t} : task'[u] = task[u]
    BY <1>1, <1>3 DEF HookTypeOK, Calls, Owes
  <2>2. \A u \in Tasks : Owes(u)' <=> Owes(u)
    BY <1>3, <2>1 DEF Owes
  <2>3. HookTypeOK' /\ CallInv'
    BY <1>1, <1>3, <2>1 DEF HookTypeOK, CallInv
  <2>4. ~NobodyOwes /\ (\A u \in Tasks : OnlyOwes(u) => u = t)
    BY <1>3 DEF NobodyOwes, OnlyOwes
  <2>5. OnlyOwes(t) => OnlyOwes(t)'
    BY <2>2 DEF OnlyOwes
  <2>6. HookInv'
    BY <1>1, <1>3, <2>1, <2>4, <2>5 DEF HookInv
  <2> QED
    BY <2>3, <2>6 DEF ViewInv
<1>4. CASE Announce(t)
  <2>1. row' = row /\ task[t].at = "announce"
    BY <1>4 DEF Announce
  <2>2. CASE task[t].url
    <3>1. task' = [task EXCEPT ![t].at = "pop"] /\ Owes(t)
      BY <1>4, <2>1, <2>2 DEF Announce, Owes
    <3> QED
      BY <1>1, <1>3, <2>1, <3>1 DEF HookTypeOK
  <2>3. CASE ~task[t].url
    <3>1. task' = [task EXCEPT ![t] = NoTask] /\ ~Owes(t)
      BY <1>4, <2>3 DEF Announce, Owes
    <3> QED
      BY <1>2, <2>1, <3>1
  <2> QED
    BY <2>2, <2>3
<1>5. CASE PopWebhook(t)
  <2>1. task[t].at = "pop" /\ Owes(t)
    BY <1>1, <1>5 DEF PopWebhook, CallInv, Owes
  <2>2. CASE row.url
    <3>1. row' = [row EXCEPT !.url = FALSE] /\ task' = [task EXCEPT ![t].at = "deliver"]
      BY <1>5, <2>2 DEF PopWebhook
    <3>2. row' \in Rows /\ row'.st = row.st
      BY <1>1, <3>1 DEF HookTypeOK, Rows
    <3> QED
      BY <1>3, <2>1, <3>1, <3>2
  <2>3. CASE ~row.url
    <3>1. row' = row /\ task' = [task EXCEPT ![t] = NoTask]
      BY <1>5, <2>3 DEF PopWebhook
    <3>2. excused
      BY <1>1, <2>1, <2>3 DEF HookInv, NobodyOwes, OnlyOwes
    <3> QED
      BY <1>1, <3>1, <3>2, NoTaskType, Aside DEF HookTypeOK
  <2> QED
    BY <2>2, <2>3
<1> QED
  BY <1>4, <1>5

\* ... and starts the delivery.
LEMMA DeliverStep == ASSUME ViewInv, NEW t \in Tasks, Deliver(t) PROVE ViewInv'
<1>1. /\ HookTypeOK /\ CallInv /\ HookInv /\ task[t].at = "deliver" /\ Owes(t)
      /\ posts' = posts + 1 /\ task' = [task EXCEPT ![t] = NoTask] /\ UNCHANGED <<row, clock, excused>>
  BY DEF ViewInv, Deliver, CallInv, Owes
<1>2. task'[t] = NoTask /\ \A u \in Tasks \ {t} : task'[u] = task[u]
  BY <1>1 DEF HookTypeOK
<1>3. HookTypeOK' /\ CallInv'
  BY <1>1, <1>2, NoTaskType DEF HookTypeOK, CallInv
<1>4. ASSUME OnlyOwes(t) PROVE NobodyOwes'
  BY <1>2, <1>4, NoTaskType DEF OnlyOwes, NobodyOwes, Owes
<1>5. HookInv'
  BY <1>1, <1>4 DEF HookInv, NobodyOwes, OnlyOwes
<1> QED
  BY <1>3, <1>5 DEF ViewInv

\* A call or its process dies: what it owed is excused.
LEMMA DiesStep == ASSUME ViewInv, (\E t \in Tasks : Abort(t)) \/ (\E w \in Workers : Restart(w)) PROVE ViewInv'
<1>1. HookTypeOK /\ CallInv /\ HookInv
  BY DEF ViewInv
<1>2. PICK D \in SUBSET Tasks :
        /\ task' = [t \in Tasks |-> IF t \in D THEN NoTask ELSE task[t]]
        /\ excused' = (excused \/ \E t \in D : Owes(t))
        /\ UNCHANGED <<row, posts, clock>>
  <2>1. ASSUME NEW t \in Tasks, Abort(t)
        PROVE  /\ task' = [u \in Tasks |-> IF u \in {t} THEN NoTask ELSE task[u]]
               /\ excused' = (excused \/ \E u \in {t} : Owes(u)) /\ UNCHANGED <<row, posts, clock>>
    BY <1>1, <2>1 DEF Abort, HookTypeOK
  <2>2. ASSUME NEW w \in Workers, Restart(w)
        PROVE  LET D == {t \in Tasks : HomeOf[t] = w}
               IN  /\ task' = [t \in Tasks |-> IF t \in D THEN NoTask ELSE task[t]]
                   /\ excused' = (excused \/ \E t \in D : Owes(t)) /\ UNCHANGED <<row, posts, clock>>
    BY <2>2 DEF Restart
  <2>3. CASE \E t \in Tasks : Abort(t)
    <3>1. PICK t \in Tasks : Abort(t)
      BY <2>3
    <3>2. {t} \in SUBSET Tasks
      OBVIOUS
    <3> QED
      BY <2>1, <3>1, <3>2
  <2>4. CASE \E w \in Workers : Restart(w)
    <3>1. PICK w \in Workers : Restart(w)
      BY <2>4
    <3>2. {t \in Tasks : HomeOf[t] = w} \in SUBSET Tasks
      OBVIOUS
    <3> QED
      BY <2>2, <3>1, <3>2
  <2> QED
    BY <2>3, <2>4
<1>3. HookTypeOK' /\ CallInv'
  BY <1>1, <1>2, NoTaskType DEF HookTypeOK, CallInv
<1>4. ASSUME ~excused'
      PROVE  (\A t \in Tasks : Owes(t)' <=> Owes(t)) /\ (\A t \in Tasks : Owes(t) => task'[t] = task[t])
  BY <1>2, <1>4, NoTaskType DEF Owes
<1>5. ASSUME ~excused' PROVE HookInv'
  <2>1. NobodyOwes => NobodyOwes'
    BY <1>4, <1>5 DEF NobodyOwes
  <2>2. ASSUME NEW u \in Tasks, OnlyOwes(u) PROVE OnlyOwes(u)' /\ task'[u] = task[u]
    BY <1>4, <1>5, <2>2 DEF OnlyOwes
  <2> QED
    BY <1>1, <1>2, <1>5, <2>1, <2>2 DEF HookInv
<1> QED
  BY <1>3, <1>5 DEF ViewInv, HookInv

LEMMA ClearStep == ASSUME ViewInv, ClearHistory PROVE ViewInv'
BY DEF ViewInv, ClearHistory, HookTypeOK, HookInv, CallInv, Rows

\* Nothing else touches the row, the calls or the deliveries.
LEMMA ElseStep ==
    ASSUME ViewInv, UNCHANGED <<row, task, posts, clock, excused>> PROVE ViewInv'
BY DEF ViewInv, HookTypeOK, HookInv, CallInv, NobodyOwes, OnlyOwes, Owes

-----------------------------------------------------------------------------
(* The theorems.                                                            *)

LEMMA ViewInvInit == Init => ViewInv
<1> SUFFICES ASSUME Init PROVE ViewInv
  OBVIOUS
<1>1. \A t \in Tasks : task[t] = NoTask
  BY DEF Init
<1>2. HookTypeOK
  BY NoTaskType DEF Init, HookTypeOK, Rows
<1>3. CallInv /\ NobodyOwes
  BY <1>1, NoTaskType DEF CallInv, NobodyOwes, Owes
<1>4. HookInv
  BY <1>3 DEF Init, HookInv
<1> QED
  BY <1>2, <1>3, <1>4 DEF ViewInv

LEMMA ViewInvStep == ViewInv /\ [Next]_vars => ViewInv'
<1> SUFFICES ASSUME ViewInv, [Next]_vars PROVE ViewInv'
  OBVIOUS
<1>1. ASSUME NEW t \in Tasks, BeginUpdate(t) \/ End(t) \/ Write(t) \/ Abort(t) PROVE ViewInv'
  BY <1>1, BeginStep, EndStep, UpsertStep, ToldStep, OwedStep, DeliverStep, DiesStep DEF Write
<1>2. ASSUME NEW s \in Streams, Subscribe(s) \/ Serve(s) \/ Leave(s)
      PROVE  UNCHANGED <<row, task, posts, clock, excused>>
  BY <1>2 DEF Subscribe, Serve, ReadFirst, ShowFirst, Take, Leave
<1>3. ASSUME NEW w \in Workers, Poll(w) \/ ReadActive(w) \/ Reconcile(w) \/ ListFeed(w) \/ PollFails(w)
      PROVE  UNCHANGED <<row, task, posts, clock, excused>>
  BY <1>3 DEF Poll, Snapshot, ReadEdges, PublishEdge, ReadActive, Reconcile, ListFeed, PollFails,
              ActiveRowRead
<1>4. CASE UNCHANGED vars
  BY <1>4, ElseStep DEF vars
<1> QED
  BY <1>1, <1>2, <1>3, <1>4, ElseStep, DiesStep, ClearStep DEF Next

LEMMA AlwaysViewInv == ViewSpec => []ViewInv
BY ViewInvInit, ViewInvStep, PTL DEF ViewSpec

\* The webhook of an ended job is delivered once, or exactly one call still owes
\* it (pop_generate_job_webhook), unless the history was cleared in between or a
\* call died that owed it.
THEOREM WebhookOnceHolds == ViewSpec => []WebhookOnce
<1>1. ViewInv => WebhookOnce
  <2> SUFFICES ASSUME ViewInv, row.st = "ended", ~excused
               PROVE  posts + Cardinality({t \in Tasks : Owes(t)}) = 1
    BY DEF WebhookOnce
  <2>1. CASE posts = 1 /\ NobodyOwes
    <3>1. {t \in Tasks : Owes(t)} = {}
      BY <2>1 DEF NobodyOwes
    <3>2. Cardinality({t \in Tasks : Owes(t)}) = 0
      BY <3>1, FS_EmptySet
    <3> QED
      BY <2>1, <3>2
  <2>2. CASE posts = 0 /\ \E t \in Tasks : OnlyOwes(t)
    <3>1. PICK t \in Tasks : OnlyOwes(t)
      BY <2>2
    <3>2. {u \in Tasks : Owes(u)} = {t}
      BY <3>1 DEF OnlyOwes
    <3>3. Cardinality({u \in Tasks : Owes(u)}) = 1
      BY <3>2, FS_Singleton
    <3> QED
      BY <2>2, <3>3
  <2> QED
    BY <2>1, <2>2 DEF ViewInv, HookInv
<1> QED
  BY <1>1, AlwaysViewInv, PTL

=============================================================================
