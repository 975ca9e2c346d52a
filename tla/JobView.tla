------------------------------- MODULE JobView -------------------------------
(***************************************************************************)
(* What the processes remember of an image job, show to its streams and    *)
(* post to its webhook (services/job_persistence.py, job_events.py,        *)
(* webhook_service.py, the stream and the poller of api/routers/           *)
(* generate.py), for one job whose request named a webhook.                *)
(*                                                                         *)
(* The row in SQLite is the truth.  Every process keeps a copy of an       *)
(* active job, which several tasks of it write between awaits; a process   *)
(* publishes its own writes to its own streams, and a poller per process   *)
(* compares the row's updated_at with the last one it has seen to notice   *)
(* what other processes wrote.  Only the call that ended the job takes the *)
(* webhook out of the row and delivers it.                                 *)
(***************************************************************************)
EXTENDS Naturals, FiniteSets, SequencesExt

CONSTANTS
    Workers,        \* processes whose copies and streams are followed
    Elsewhere,      \* any other process: its calls write the row
    Tasks,          \* calls that write the job: progress, aggregation, cancel
    Streams,        \* SSE connections to the job
    HomeOf,         \* the process of each call and connection
    QueueMax,       \* SSE_QUEUE_MAXSIZE
    MaxClock,       \* bounds: writes begun,
    MaxEvents       \* clearings, stops, aborted calls, failed polls, clients
                    \* that leave or open the list feed

ASSUME ViewAssumption ==
    /\ Elsewhere \notin Workers
    /\ HomeOf \in [Tasks \cup Streams -> Workers \cup {Elsewhere}]
    /\ \A s \in Streams : HomeOf[s] \in Workers
    /\ {QueueMax, MaxClock, MaxEvents} \subseteq Nat \ {0}

VARIABLES
    row,        \* generate_jobs: state, updated_at, webhook_url still there
    mem,        \* state.generate_jobs: updated_at of the copy, 0 without one
    task,       \* the calls that write the job
    reading,    \* active rows a process has read and not yet reconciled with
    poll,       \* _poll_generate_sse
    stream,     \* the connections
    posts,      \* deliveries started
    clock,      \* the time of the last write begun
    count,      \* how many bounded events have happened
    excused     \* history: the job was cleared, or a call died that owed the
                \* webhook

vars == <<row, mem, task, reading, poll, stream, posts, clock, count, excused>>

NoTask == [at |-> "idle", v |-> 0, url |-> FALSE]
NoPoll == [at |-> "off", subs |-> {}, edge |-> 0, last |-> 0]
NoStream == [at |-> "off", got |-> "active", v |-> 0, queue |-> <<>>]

Active == row.st = "active"
Open(s) == stream[s].at \in {"first", "overlay", "wait"}
Subscribers(w) == {s \in Streams : HomeOf[s] = w /\ Open(s)}

Newer(a, b) == IF a >= b THEN a ELSE b

\* The job has been queued here or elsewhere.
Init ==
    /\ row = [st |-> "active", v |-> 1, url |-> TRUE]
    /\ mem \in [Workers -> {0, 1}]
    /\ task = [t \in Tasks |-> NoTask]
    /\ reading = [w \in Workers |-> [on |-> FALSE, v |-> 0]]
    /\ poll = [w \in Workers |-> NoPoll]
    /\ stream = [s \in Streams |-> NoStream]
    /\ posts = 0 /\ clock = 1 /\ count = 0 /\ excused = FALSE

-----------------------------------------------------------------------------
(* Publishing                                                              *)

\* publish_queue: a full queue loses its oldest event.
Pushed(q, e) == Append(IF Len(q) < QueueMax THEN q ELSE Tail(q), e)

Published(to, e) ==
    [s \in Streams |-> IF s \in to THEN [stream[s] EXCEPT !.queue = Pushed(@, e)]
                       ELSE stream[s]]

\* publish_generate_job_row_async: the copy of an ended job is dropped, the
\* copy of an active one replaced, and the streams of this process are told.
Tell(w, st, v) ==
    /\ mem' = [x \in Workers |-> IF x # w THEN mem[x] ELSE IF st = "active" THEN v ELSE 0]
    /\ stream' = Published(Subscribers(w), st)

-----------------------------------------------------------------------------
(* Writers                                                                 *)

\* Every copy has the webhook the job was queued with.
Copied(w) == w = Elsewhere \/ mem[w] # 0

\* store_generate_job_async: progress is merged onto the copy, or onto the row
\* where the process has no copy.  Its time is taken before it is written.
BeginUpdate(t) ==
    /\ task[t] = NoTask /\ clock < MaxClock
    /\ clock' = clock + 1
    /\ task' = [task EXCEPT ![t] =
           [at |-> "write", v |-> clock + 1, url |-> Copied(HomeOf[t]) \/ row.url]]
    /\ UNCHANGED <<row, mem, reading, poll, stream, posts, count, excused>>

\* upsert_generate_job_guarded: an ended row is left alone, a missing one is
\* inserted anew.
Upsert(t) ==
    /\ task[t].at = "write"
    /\ IF row.st = "ended"
       THEN /\ task' = [task EXCEPT ![t].at = "reload"]
            /\ UNCHANGED row
       ELSE /\ row' = [st |-> "active", v |-> task[t].v,
                       url |-> task[t].url \/ row.url]
            /\ task' = [task EXCEPT ![t].at = "remember"]
    /\ UNCHANGED <<mem, reading, poll, stream, posts, clock, count, excused>>

\* Progress within GENERATE_JOB_PERSIST_INTERVAL_SECONDS is not written.
SkipUpsert(t) ==
    /\ task[t].at = "write"
    /\ Tell(HomeOf[t], "active", task[t].v)
    /\ task' = [task EXCEPT ![t] = NoTask]
    /\ UNCHANGED <<row, reading, poll, posts, clock, count, excused>>

\* The write was refused: the row is read again and told as it is.
Reload(t) ==
    /\ task[t].at = "reload"
    /\ IF row.st = "gone" THEN Tell(HomeOf[t], "active", task[t].v)
       ELSE Tell(HomeOf[t], row.st, row.v)
    /\ task' = [task EXCEPT ![t] = NoTask]
    /\ UNCHANGED <<row, reading, poll, posts, clock, count, excused>>

Remember(t) ==
    /\ task[t].at = "remember"
    /\ Tell(HomeOf[t], "active", task[t].v)
    /\ task' = [task EXCEPT ![t] = NoTask]
    /\ UNCHANGED <<row, reading, poll, posts, clock, count, excused>>

\* finalize_parent_job_from_units, cancel_generate_job_tx: one call ends the
\* job; a later one reads the ended row and tells it without the webhook.
End(t) ==
    /\ task[t] = NoTask /\ clock < MaxClock /\ row.st # "gone"
    /\ clock' = clock + 1
    /\ task' = [task EXCEPT ![t] =
           [at |-> "announce", v |-> 0, url |-> Active]]
    /\ row' = IF Active THEN [row EXCEPT !.st = "ended", !.v = clock + 1] ELSE row
    /\ UNCHANGED <<mem, reading, poll, stream, posts, count, excused>>

\* Mutant: the webhook is looked up in the copy.
M_Announce_FromCopy(t) ==
    /\ task[t].at = "announce"
    /\ Tell(HomeOf[t], "ended", 0)
    /\ task' = [task EXCEPT ![t] = IF @.url /\ Copied(HomeOf[t]) THEN [@ EXCEPT !.at = "pop"] ELSE NoTask]
    /\ UNCHANGED <<row, reading, poll, posts, clock, count, excused>>

Announce(t) ==
    /\ task[t].at = "announce"
    /\ Tell(HomeOf[t], "ended", 0)
    /\ task' = [task EXCEPT ![t] = IF @.url THEN [@ EXCEPT !.at = "pop"] ELSE NoTask]
    /\ UNCHANGED <<row, reading, poll, posts, clock, count, excused>>

\* pop_generate_job_webhook: taken out of the row, so it is taken once.
PopWebhook(t) ==
    /\ task[t].at = "pop"
    /\ IF row.url
       THEN /\ row' = [row EXCEPT !.url = FALSE]
            /\ task' = [task EXCEPT ![t].at = "deliver"]
       ELSE /\ task' = [task EXCEPT ![t] = NoTask]
            /\ UNCHANGED row
    /\ UNCHANGED <<mem, reading, poll, stream, posts, clock, count, excused>>

Deliver(t) ==
    /\ task[t].at = "deliver"
    /\ posts' = posts + 1
    /\ task' = [task EXCEPT ![t] = NoTask]
    /\ UNCHANGED <<row, mem, reading, poll, stream, clock, count, excused>>

-----------------------------------------------------------------------------
(* Copies of the active jobs                                               *)

ActiveRowRead(w) ==
    /\ ~reading[w].on
    /\ reading' = [reading EXCEPT ![w] = [on |-> TRUE, v |-> IF Active THEN row.v ELSE 0]]
    /\ UNCHANGED <<row, mem, task, poll, stream, posts, clock, excused>>

\* reconcile_stale_generate_job_memory: a process that has not touched a copy
\* for a while reads the active rows.
ReadActive(w) == mem[w] # 0 /\ ActiveRowRead(w) /\ UNCHANGED count

\* Mutant: copies of jobs that are not among the active ones stay.
M_Reconcile_Keeps(w) ==
    /\ reading[w].on
    /\ mem' = [mem EXCEPT ![w] = Newer(@, reading[w].v)]
    /\ reading' = [reading EXCEPT ![w] = [on |-> FALSE, v |-> 0]]
    /\ UNCHANGED <<row, task, poll, stream, posts, clock, count, excused>>

\* reconcile_active_generate_jobs: what was read replaces the copies, newer
\* copies of the jobs in it excepted.
Reconcile(w) ==
    /\ reading[w].on
    /\ mem' = [mem EXCEPT ![w] = IF reading[w].v = 0 THEN 0 ELSE Newer(@, reading[w].v)]
    /\ reading' = [reading EXCEPT ![w] = [on |-> FALSE, v |-> 0]]
    /\ UNCHANGED <<row, task, poll, stream, posts, clock, count, excused>>

-----------------------------------------------------------------------------
(* Streams                                                                 *)

\* stream_generate_job: subscribes, and starts the poller if there is none.
Subscribe(s) ==
    LET w == HomeOf[s]
    IN /\ stream[s].at = "off"
       /\ stream' = [stream EXCEPT ![s].at = "first"]
       /\ poll' = IF poll[w].at = "off" THEN [poll EXCEPT ![w].at = "sleep"] ELSE poll
       /\ UNCHANGED <<row, mem, task, reading, posts, clock, count, excused>>

\* resolve_generate_job_view: the row is read in a thread...
ReadFirst(s) ==
    /\ stream[s].at = "first"
    /\ stream' = [stream EXCEPT ![s].at = "overlay", ![s].got = row.st, ![s].v = row.v]
    /\ UNCHANGED <<row, mem, task, reading, poll, posts, clock, count, excused>>

Closed(s, at) == stream' = [stream EXCEPT ![s] = [NoStream EXCEPT !.at = at]]

\* ... and the copy this process has by then laid over it while both are
\* active; a copy stands in for a row that is gone.
ShowFirst(s) ==
    LET w == HomeOf[s]
        f == stream[s]
    IN /\ f.at = "overlay"
       /\ CASE f.got = "gone" /\ mem[w] = 0 -> Closed(s, "closed") /\ UNCHANGED mem
            [] f.got = "gone" /\ mem[w] # 0 ->
                   /\ stream' = [stream EXCEPT ![s] = [@ EXCEPT !.at = "wait", !.got = "active", !.v = 0]]
                   /\ UNCHANGED mem
            [] f.got = "ended" -> Closed(s, "told") /\ mem' = [mem EXCEPT ![w] = 0]
            [] f.got = "active" ->
                   /\ stream' = [stream EXCEPT ![s] = [@ EXCEPT !.at = "wait", !.v = 0]]
                   /\ mem' = [mem EXCEPT ![w] = IF @ = 0 THEN 0 ELSE Newer(@, f.v)]
       /\ UNCHANGED <<row, task, reading, poll, posts, clock, count, excused>>

Take(s) ==
    /\ stream[s].at = "wait" /\ stream[s].queue # <<>>
    /\ CASE Head(stream[s].queue) = "active" ->
                stream' = [stream EXCEPT ![s].queue = Tail(@)]
         [] Head(stream[s].queue) = "ended" -> Closed(s, "told")
         [] Head(stream[s].queue) = "missing" -> Closed(s, "closed")
    /\ UNCHANGED <<row, mem, task, reading, poll, posts, clock, count, excused>>

-----------------------------------------------------------------------------
(* The poller of a process                                                 *)

\* It notes who is subscribed before it reads, and stops without subscribers.
Snapshot(w) ==
    /\ poll[w].at = "sleep"
    /\ poll' = [poll EXCEPT ![w] =
           IF Subscribers(w) = {} THEN NoPoll
           ELSE [@ EXCEPT !.at = "edges", !.subs = Subscribers(w)]]
    /\ UNCHANGED <<row, mem, task, reading, stream, posts, clock, count, excused>>

\* get_generate_sse_edges and the first loop of publish_job_edges.
ReadEdges(w) ==
    /\ poll[w].at = "edges"
    /\ CASE row.st = "gone" ->
                /\ stream' = Published(poll[w].subs \cap Subscribers(w), "missing")
                /\ poll' = [poll EXCEPT ![w] = [NoPoll EXCEPT !.at = "sleep"]]
         [] row.st # "gone" /\ row.v = poll[w].last ->
                /\ poll' = [poll EXCEPT ![w] = [@ EXCEPT !.at = "sleep", !.subs = {}]]
                /\ UNCHANGED stream
         [] row.st # "gone" /\ row.v # poll[w].last ->
                /\ poll' = [poll EXCEPT ![w] = [@ EXCEPT !.at = "read", !.edge = row.v]]
                /\ UNCHANGED stream
    /\ UNCHANGED <<row, mem, task, reading, posts, clock, count, excused>>

\* Mutant: a job that is not active any more is not published.
M_PublishEdge_ActiveOnly(w) ==
    /\ poll[w].at = "read"
    /\ stream' = Published(IF Active THEN poll[w].subs \cap Subscribers(w) ELSE {}, "active")
    /\ poll' = [poll EXCEPT ![w] = [NoPoll EXCEPT !.at = "sleep", !.last = poll[w].edge]]
    /\ UNCHANGED <<row, mem, task, reading, posts, clock, count, excused>>

\* read_event and the second loop of publish_job_edges.
PublishEdge(w) ==
    /\ poll[w].at = "read"
    /\ stream' = Published(poll[w].subs \cap Subscribers(w),
                           IF row.st = "gone" THEN "missing" ELSE row.st)
    /\ poll' = [poll EXCEPT ![w] = [NoPoll EXCEPT !.at = "sleep", !.last = poll[w].edge]]
    /\ UNCHANGED <<row, mem, task, reading, posts, clock, count, excused>>

-----------------------------------------------------------------------------
(* What may go wrong                                                       *)

Event == count < MaxEvents /\ count' = count + 1

\* A client opens the list feed, which reads the active rows as well.
ListFeed(w) == Event /\ ActiveRowRead(w)

Owes(t) == task[t].url /\ task[t].at \in {"announce", "pop", "deliver"}

\* clear_generate_job_history.
ClearHistory ==
    /\ Event /\ row.st = "ended"
    /\ row' = [st |-> "gone", v |-> 0, url |-> FALSE]
    /\ excused' = TRUE
    /\ UNCHANGED <<mem, task, reading, poll, stream, posts, clock>>

\* An exception, or a request that is cancelled, between two awaits.
Abort(t) ==
    /\ Event /\ task[t] # NoTask
    /\ task' = [task EXCEPT ![t] = NoTask]
    /\ excused' = (excused \/ Owes(t))
    /\ UNCHANGED <<row, mem, reading, poll, stream, posts, clock>>

\* The process is replaced; it reads the active rows when it starts.
Restart(w) ==
    /\ Event
    /\ task' = [t \in Tasks |-> IF HomeOf[t] = w THEN NoTask ELSE task[t]]
    /\ excused' = (excused \/ \E t \in Tasks : HomeOf[t] = w /\ Owes(t))
    /\ mem' = [mem EXCEPT ![w] = IF Active THEN row.v ELSE 0]
    /\ reading' = [reading EXCEPT ![w] = [on |-> FALSE, v |-> 0]]
    /\ poll' = [poll EXCEPT ![w] = NoPoll]
    /\ stream' = [s \in Streams |-> IF s \in Subscribers(w)
                                    THEN [NoStream EXCEPT !.at = "closed"] ELSE stream[s]]
    /\ UNCHANGED <<row, posts, clock>>

\* A poller stops at a database error.
PollFails(w) ==
    /\ Event /\ poll[w].at \in {"edges", "read"}
    /\ poll' = [poll EXCEPT ![w] = NoPoll]
    /\ UNCHANGED <<row, mem, task, reading, stream, posts, clock, excused>>

\* The client is gone, its slot is lost or the connection is an hour old.
Leave(s) ==
    /\ Event /\ Open(s)
    /\ Closed(s, "closed")
    /\ UNCHANGED <<row, mem, task, reading, poll, posts, clock, excused>>

-----------------------------------------------------------------------------

Write(t) ==
    \/ Upsert(t) \/ SkipUpsert(t) \/ Reload(t) \/ Remember(t)
    \/ Announce(t) \/ PopWebhook(t) \/ Deliver(t)

Serve(s) == ReadFirst(s) \/ ShowFirst(s) \/ Take(s)

Poll(w) == Snapshot(w) \/ ReadEdges(w) \/ PublishEdge(w)

Next ==
    \/ \E t \in Tasks : BeginUpdate(t) \/ End(t) \/ Write(t) \/ Abort(t)
    \/ \E s \in Streams : Subscribe(s) \/ Serve(s) \/ Leave(s)
    \/ \E w \in Workers : Poll(w) \/ ReadActive(w) \/ Reconcile(w)
    \/ \E w \in Workers : ListFeed(w) \/ Restart(w) \/ PollFails(w)
    \/ ClearHistory

ViewSpec == Init /\ [][Next]_vars

\* Calls and streams go on; the poller and the refresher of a process are loops
\* that only sleep for a bounded time.
ViewFairSpec ==
    /\ ViewSpec
    /\ WF_vars((\E t \in Tasks : Write(t)) \/ (\E s \in Streams : Serve(s)))
    /\ \A w \in Workers :
        /\ WF_vars(Poll(w))
        /\ WF_vars(ReadActive(w) \/ Reconcile(w))

-----------------------------------------------------------------------------
(* Properties                                                              *)

ViewTypeOK ==
    /\ row \in [st : {"active", "ended", "gone"}, v : 0 .. MaxClock, url : BOOLEAN]
    /\ mem \in [Workers -> 0 .. MaxClock]
    /\ task \in [Tasks -> [at : {"idle", "write", "reload", "remember", "announce", "pop", "deliver"},
                           v : 0 .. MaxClock, url : BOOLEAN]]
    /\ reading \in [Workers -> [on : BOOLEAN, v : 0 .. MaxClock]]
    /\ poll \in [Workers -> [at : {"off", "sleep", "edges", "read"}, subs : SUBSET Streams,
                             edge : 0 .. MaxClock, last : 0 .. MaxClock]]
    /\ \A s \in Streams :
        /\ stream[s].at \in {"off", "first", "overlay", "wait", "told", "closed"}
        /\ stream[s].got \in {"active", "ended", "gone"}
        /\ stream[s].queue \in Seq({"active", "ended", "missing"})
        /\ Len(stream[s].queue) <= QueueMax
    /\ posts \in Nat /\ clock \in 1 .. MaxClock /\ count \in 0 .. MaxEvents
    /\ excused \in BOOLEAN

\* The webhook of an ended job is started once: it has been, or exactly one call
\* still owes it.  The exceptions are a history cleared in between and a call
\* that died with the webhook in hand (job_persistence.py:83-88,
\* webhook_service.py:215-222).
WebhookOnce ==
    row.st = "ended" /\ ~excused =>
        posts + Cardinality({t \in Tasks : Owes(t)}) = 1

\* A stream of a job that has ended, or is gone, is told so or closed, whichever
\* process ended the job (generate.py:101-187, 542-638), as long as the poller of
\* its process runs.
StreamTold ==
    \A s \in Streams :
        (Open(s) /\ ~Active) ~> (~Open(s) \/ Active \/ poll[HomeOf[s]].at = "off")

\* A process does not keep the copy of a job that has ended or is gone, whichever
\* of its calls wrote it last (job_events.py:221-285, "another worker (or a
\* finished job) likely owns the real state").
CacheForgets ==
    \A w \in Workers : (mem[w] # 0 /\ ~Active) ~> (mem[w] = 0 \/ Active)
=============================================================================
