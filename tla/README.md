# GPT Image Panel: TLA+ models and proofs

This directory holds TLA+ modules for the coordination core of GPT Image
Panel, configurations that check them with TLC on small instances, and proofs
that TLAPS checks for every value of the constants. Paths below are relative to
the repository; `app/` is short for `backend/app/`.

    tlc -workers 2 -config ImageJobStore.cfg MCImageJobStore.tla
    tlc -workers 2 -config ImageUnitExecution_Polled.cfg MCImageUnitExecution.tla
    tlc -workers 2 -config GalleryLibrary.cfg MCGalleryLibrary.tla
    tlapm ImageJobStoreProofs.tla
    tlapm AgentImagesProofs.tla

## 1. The system

The program is a FastAPI application that several worker processes run side by
side over one SQLite file. A browser submits an image job. The job and its image
units (one for each requested image) are rows; every process runs a dispatcher
that claims units under a lease, calls the upstream provider, saves the images
in the gallery and writes the unit's result; the parent job's status is derived
from its units. There is no broker and no leader: everything processes know of
each other is in SQLite rows, and every row write is a short `BEGIN IMMEDIATE`
transaction.

### Components

| Component | State | Operations | Talks to | What makes it correct |
|---|---|---|---|---|
| Image job store (`repositories/image_jobs.py`, `repositories/db/rows.py`) | rows of `generate_jobs`, `image_job_units`, `edit_source_reservations` | enqueue, claim, renew, checkpoint, progress, complete, fail, expire, upsert, finalize, cancel, clear, trim | everyone | results are written once; no unit is stranded; attempts and queue are bounded; bytes follow the job |
| Unit execution (`services/image_unit_execution.py`, `image_unit_session.py`, `lease_renewal.py`, `lease_holder.py`) | a coroutine, a renewal task, a progress writer, an upstream task, `lease_lost` | prepare, recover, start, call, complete, cancel, fail, cleanup | store, provider, gallery, aggregation | no result is lost or claimed falsely; a stale owner changes nothing |
| Mapped provider (`integrations/upstream/async_provider.py`) | `remote_json` checkpoint, the provider's task | submit, poll, fetch, cancel | provider over HTTP, store | never bills twice; cancels only what the user cancelled |
| Parent aggregation (`services/image_job_aggregate.py`, `job_persistence.py`) | parent row, per-process cache of active jobs | aggregate, store, publish | store, SSE, webhooks | status follows units; a terminal status stays |
| Dispatcher (`services/job_scheduler.py`, `claim_loop.py`, `dispatchers.py`) | active tasks, kick event, backoff | precheck, claim, sweep, sleep, shut down | store, execution | whatever can be claimed is claimed |
| Cancellation (`services/job_cancel.py`) | – | cancel route | store, edit sources | open units are ended, bytes and files released |
| Edit sources (`services/edit_sources.py`, `job_queue.py`) | temporary files, reservations | copy, reserve, release | store, startup maintenance | files live as long as a unit needs them and no longer |
| Job events and webhooks (`services/job_events.py`, `webhook_service.py`) | SSE subscribers, cache, pending webhook URL | publish, debounce, deliver | browsers, webhook endpoint | a viewer converges to the stored row |
| Leases, slots, heartbeats (`repositories/coordination/*`, `services/assistant_slots.py`, `repositories/sse_limiter.py`) | `background_leases`, `sse_slots`, `workers` | acquire, renew, release, complete | background loops, SSE, assistant | one owner at a time; limits hold |
| Gallery jobs (`repositories/coordination/gallery_jobs.py`, `services/gallery_*_jobs.py`, `nodeimage_upload_jobs.py`) | `gallery_jobs`, upload reservations, files | reserve, claim, renew, progress, cancel, clean up | gallery, R2, NodeImage | capacity; a stale owner changes nothing; cancellation is not forgotten |
| Thumbnail jobs (`repositories/thumbnail_jobs.py`, `thumbnails.py`) | `thumbnail_jobs`, thumbnail files | enqueue, claim, complete, fail | gallery | every image gets a thumbnail or runs out of attempts |
| Agent turns (`repositories/agent/*`, `services/agent_*.py`) | conversations, turns, messages, events | create, claim, renew, cancel, finish, sweep, stream | image jobs, assistant | one active turn per conversation; idempotent submission; a terminal turn stays |
| Gallery (`repositories/gallery/*`, `repositories/image_files.py`, `integrations/r2/*`) | entries, collections, files, R2 objects | add, update, delete, query, sync | everyone | rows and files agree |
| Database runtime (`repositories/db/*`, `runtime/*`) | connections, schema, versions, full-text index, thread pool | connect, transact, retry, migrate, rebuild the index | everyone | a transaction is atomic; an upgrade is all or nothing; a search misses nothing |
| Upstream generation (`integrations/upstream/*` but the mapped provider) | – | build requests, parse answers, stream previews | provider | pure I/O and parsing |
| Settings, presets, secrets, access, API layer, schemas, media, cost, frontend | – | configuration, validation, rendering | – | mostly pure or I/O |

### What is hard here

* **Leases instead of locks.** A process that is suspended or cut off from the
  database keeps running after its lease has passed. Nothing stops it; its
  writes are fenced by a claim token. Two or three owners of a unit may be alive
  at the same time, and a renewal revives a lease that has already expired.
* **Billing.** A provider call costs money and cannot be undone. Whether a
  submit reached the provider is unknown when the process dies in between.
* **Derived state.** The status of a parent is written by many: by each run when
  it starts and ends, by progress writers, by the sweep for exhausted units, by
  the cancel route. Each of them may act on an old read.
* **Cancellation** arrives from the user, from shutdown and from a lost lease,
  all three as `CancelledError`, and each has to end differently.
* **Partial steps.** Gallery write, checkpoint, terminal write, aggregation,
  trimming, and clean-up of edit sources are separate transactions.
* **Owners that are not claims.** A gallery job stores the name of a worker, not a
  token; a turn of the agent is owned for good by the process that admitted it.
* **Threads that outlive their tasks.** Database calls run in threads. A cancelled
  coroutine goes on without knowing whether its transaction commits, now or later.
* **Rows and files.** Files change outside transactions, and locks hold within a
  process only.
* **Half a transaction.** Processes that start bring the file up to date all at once, and
  schema statements commit one by one unless something has opened a transaction.
* **Copies.** Every process remembers active jobs and publishes its own writes; what
  others write it learns by polling.

The full list of such places, each with its line and the properties that would
notice it going wrong, is `hazards` in `PROJECT.json`.

## 2. Modules

| Module | What it is | Composed with |
|---|---|---|
| `ImageJobStore` | the tables and every write transaction on them, called by the most general client | refines `ImageJobContract` |
| `ImageJobContract` | what a submitter may rely on, without claims, leases, attempts or bytes | |
| `ImageUnitExecution` | the processes on top of the store: runs of claimed units, renewal, progress writers, aggregation, sweeps, provider, gallery, faults | extends and refines `ImageJobStore` |
| `EditSources` | the requests, the cancel route, clean-up and maintenance of edit jobs beside those processes: who removes which file when | extends and refines `ImageUnitExecution` |
| `JobView` | what processes remember of an image job, tell its streams and post to its webhook | one job, abstracted to three states |
| `GalleryJobRows` | the transactions on `gallery_jobs` that all kinds of gallery jobs share | |
| `GalleryItemJobs` | NodeImage uploads and AI analyses: a run with the result of each image | extends `GalleryJobRows` |
| `GalleryFileJobs` | exports, direct downloads and imports: runs with an archive | extends `GalleryJobRows` |
| `GallerySync` | R2 syncs: pages, uploads, checkpoints, records of runs that may overlap | extends `GalleryJobRows` |
| `AgentTurns` | turns of a conversation: rows, the run, its event writer, sweeps, a stream | |
| `AgentImages` | the images of turns and their jobs | extends `AgentTurns` |
| `GalleryLibrary` | images as rows and files: saving, importing, deleting, thumbnails, collection, the startup sweep | |
| `AssistantSlots` | permits and leased slots of requests to the assistant | |
| `ApiSettings` | presets, the active one and the settings beside them: the copies of the processes and the tables | |
| `DatabaseStart` | processes that start together on one file: base script, migrations, full-text index, statement by statement | takes its migrations from `DatabaseSchema` |
| `DatabaseSchema` | the 42 migrations as sequences of steps | |
| `*Proofs` | theorems and proofs: `ImageJobStoreProofs`, `ImageUnitExecutionProofs` (which includes `EditSources`), `JobViewProofs`, `GalleryItemJobsProofs`, `GalleryFileJobsProofs` (which includes `GallerySync`), `AgentImagesProofs` (which includes `AgentTurns`), `GalleryLibraryProofs`, `PlatformProofs` (`AssistantSlots`, `ApiSettings`, `DatabaseStart`) | each extends what it is about |
| `MC*` | instances for TLC | |

### ImageJobStore

One action is one write transaction (`with _transaction(conn)`), and nothing is
assumed of its callers: any order of calls, with the token of any past claim.
What holds here holds whatever the services do.

* `job[j]` is the status of a parent row, `"none"` before it is enqueued and
  `"deleted"` after its row is gone. `unit[u]` has the columns that claims read:
  status, token, attempts, recoveries, checkpointed, and whether the lease is
  `live`. `reserved[j]` is the row in `edit_source_reservations`.
* *Tokens.* A claim draws a fresh `uuid4`. The model numbers the claims of a unit
  instead, so a token is unique together with its unit. 0 is `NULL`.
* *Time.* Statements only compare `claim_expires_at` with the time. `live` is the
  outcome, and `Lapse` is the moment when it turns false, possible at any time.
  The order of candidates (`ORDER BY`) is left open, so every order is covered.
* `UpsertActive` takes its status from the caller, who computed it from an earlier
  read. It *inserts* a row that was deleted meanwhile, as the SQL does.
* `Trim` may remove any set of terminal rows: the number is read before the
  transaction starts, the choice among them depends on times.

### ImageUnitExecution

`run[u][t]` is the execution of the claim of `u` with token `t`. Its `pc` names
the `await` at which the coroutine stands, so an action is what the code does
between two awaits and the database call or HTTP call that it makes there. The
names of the actions follow the methods: `Prepare` (`prepare`, the cancellation
check, `recover`'s choice), `Replay`, `InterruptUnknownSubmit`, `Start`,
`StoreParent`, `Announce`, then `Call`, `MarkSubmitting`, `Post`, `Answered`,
`MarkSubmitted`, `Poll`, `GiveUp`, `Save` inside the upstream task, `CheckSaved`,
`Withdraw`, `StageResults`, `Finish` (`complete`), `CancelUnit`, `CheckFailed`,
`WriteFailed` (`cancel`, `fail`), `Cleanup`.

* `seen` is the checkpoint that the claim returned, which the run uses until it
  ends; `remote[u]` is the column as it is now. `lost` is the event `lease_lost`.
* Runs are concurrent: a unit may have several, one that owns it and others that
  do not know yet that they lost it. `RenewLease` runs beside a call;
  `AbandonLease` is the local deadline after renewals failed; `AbortUpstream` is
  `run_upstream` noticing the loss.
* A progress writer (`ReportProgress`) may still be aggregating while its run goes
  on, until the run drains it (`flush_progress_updates`). `agg[u][t]` is that
  aggregation, `agg[u][0]` the one that a dispatcher owes after it expired `u`.
* Three kinds of units: direct ones (the images come with the answer), mapped
  ones, and mapped ones that poll; a mapping may have an idempotency header.
* `posted[u]` collects the keys under which a provider received submits: two
  submits under one key are one for the provider, two keys are two bills.
* Faults are switched on per run: `"crash"` stops a run anywhere; `"shutdown"`
  cancels it, as the claim loop does; `"dberror"` makes a database call raise
  after its retries.
* `User` is everything other parties do with the rows: enqueue, cancel, clear,
  trim, release.

Abstractions worth knowing. A database call that is cancelled runs on in its
thread; in the model it has happened or not by the time its caller continues.
`RenewLease` and `ReportProgress` are enabled a little longer than in the code (a
run that failed before its upstream call has no renewal task): more behaviour,
never less. Trimming and the clean-up of edit sources that follow a finalization
are transactions of their own, so they appear as steps of `User` that may come
at any time. An aggregation by a progress writer may or may not be stored
(`should_persist_generate_job`). An active status derived for a parent is always
`running` here, because a run or a sweep only aggregates a parent of which some
unit has left the queue. Images, prices, stages, messages and timings are left out.

### EditSources

`EditSources` extends `ImageUnitExecution`: the steps of the processes are the
same, and what there was the anonymous `User` is here the code that does it,
with its own program counters and the files it handles.

* `files` is the set of jobs whose uploads are on disk. All the files of a job are
  copied before it is queued and removed in one loop, so a job has them or not.
* `request[j]` is the handler that submits `j`: `Upload`
  (`copy_edit_source_stream_to_temp`), then `QueueEdit`, or `Refuse` and
  `RemoveRejected` (`except BaseException: cleanup_edit_sources`). An agent that
  loses its turn while it queues a job waits for the transaction and cancels the
  job before it removes the files (`QueueWithdrawn`, `queue_owned`). A request
  cancelled while its transaction runs in a thread does not wait: the transaction
  commits before the files are removed (`AbortAfter`) or after (`AbortBefore`,
  `CommitLate`).
* `route[j]` is the cancel route, which takes three transactions:
  `LookBeforeCancel` reads whether a unit runs, `CancelJob` cancels or finds the
  job over, `ReleaseOrTidy` acts on the first answer, old by then.
* `tidying` holds the jobs that some aggregation has written the final status of
  and not yet cleaned up after (`FinalWrites`, `CleanUp`). `TidySources` reads the
  paths from the unit rows, so it does nothing for a job cleared or trimmed in
  between.
* `SweepStale` is startup maintenance. It goes by age alone, and the model has no
  clock, so it may take any file.
* `Events` says which of these an instance has, since each multiplies the states.
  A process or handler that dies is one that is never scheduled again; the safety
  runs have no fairness.

One cancel route per job at a time; a user who cancels twice comes back when the
first is through. Trimming after a final write or a cancellation is `ForgetJobs`,
at any time. Two clean-ups of one job that are due at once are one element of
`tidying`: removing files and deleting a reservation are idempotent. Validation
of uploads is part of `Refuse`. The mask copies kept for retries are not
modelled.

### JobView

One job whose request named a webhook. `row` is its row: active, ended or gone, its
`updated_at` (`v`, the number of the write), and whether `webhook_url` is still
there. `mem[w]` is the `updated_at` of the copy in `state.generate_jobs`.

* `task[t]` is a call that writes the job. `BeginUpdate`, `Upsert` or `SkipUpsert`,
  `Reload`, `Remember` are `store_generate_job_async` between its awaits; `End`,
  `Announce`, `PopWebhook`, `Deliver` a call that ends the job. Calls of the process
  `Elsewhere` only write the row: what that process remembers is of no interest here.
* `stream[s]` is `stream_generate_job`: it subscribes, reads the row in a thread,
  lays the copy of that moment over it, then waits at its queue. `Pushed` is
  `publish_queue`, which drops the oldest event of a full queue.
* `poll[w]` is `_poll_generate_sse`: `Snapshot` notes the subscribers, `ReadEdges`
  compares `updated_at` with the last one it published, `PublishEdge` reads the job
  and publishes to those it noted. The read and the publication are one step.
* `reading[w]` holds active rows that were read and not yet laid over the copies;
  the read is an await, so it may be old by then.

Left out: the list feed beyond its read of the active rows (which may show an ended
job again for a moment, as a read from before the end re-adds its copy), previews,
events of gallery jobs, whose poller has the same form, and the attempts of a
delivery (a bounded loop). A time is one write: calls that take the same
microsecond are not distinguished. The terminal branch of `store_generate_job_async`
is like `End` and has no action of its own.

### GalleryJobRows, GalleryItemJobs, GalleryFileJobs, GallerySync

`row[j]` has status, owner, whether the lease is live, and `cancel_requested`;
`Admit`, `Claimable`, `ClaimRow`, `RequestCancel`, `Lapse`, `Collect` are the shared
transactions. A run is named by the job and the number of its claim, but its owner in
the row is only its worker: `Free(j, w)`, that a dispatcher runs one job of a kind at
a time, is what tells two claims of one worker apart.

`GalleryItemJobs` has `stored[j][i]`, the result of each image in the row, and
`run[j][t]` with what the coroutine knows, holds in flight and has not told yet.
Writes are fenced by `lease_owner` (`Fenced`); the payload is merged under the
transaction, so that a cancellation stored meanwhile stays. An upload sends `Width`
images at a time, an analysis one.

`GalleryFileJobs` has `file[j]`, the archive, `bytes[j]`, the reservation of an
import, `up[j]`, the request that uploads it, `dl`, requests for a direct download,
and `known`, the exports a clean-up has read before it lists the directory. Writes
are *not* fenced here, and no task renews the lease (300 s, `gallery_common.py:54`): the
progress of a run does, as long as storing it works (`Progress`,
`gallery_job_shared.py:95-121`), and `Expire` may end a lease under a run at any time.
Then a second run may be claimed, and the first one still writes what it likes.
`outlived` is the history of the jobs this has happened to. `OneRunAtATime` says that
nothing else brings two runs together, and `ReadyExportHasArchive` excepts `outlived`;
what happens to those is in section 3. A row that ended is collected much later
(`Old`), but not later than a run that has outlived its lease may write. What an export
or an import computes is one step that may raise.

`GallerySync` is where overlapping runs are to be expected, because listing a bucket or
asking it for 500 images stores no progress. `syncing[w]` is the run of process `w`: the
place, the last image of its page, what it still has to upload, what is in the bucket
and what failed. `cursor[j]` is the checkpoint in the payload, `synced` the table
`r2_sync_state`, `full[j]` whether the job compares everything. The bucket is outside:
which images of a page it has is open. A run goes on from the checkpoint that its claim
read, whatever others store later; a late one may set the row to "running" again, or
take the checkpoint back. `asked`, `met` and `skipped` are histories for the
properties. Left out: dry runs, the content of objects (the code compares keys too),
images whose file is missing, a changed prefix of the keys, and images that come back
under an old name.

### AgentTurns, AgentImages

`row[t]` is the row of a turn, `log[t]` its events, `saved[t]` how many blocks its
stored message shows. A turn is claimed by the process that admitted it, once.
`run[t]` has the place of the main task and of the flusher, the events not yet
written, and the writes under way: `io` of each task, and `orphans`, transactions
whose task was cancelled and which may still commit, or not. `sweeping` holds turns
that a sweep has read as stale, `reader[t]` a stream that replays and tails the
events. `AgentImages` adds the pending image of a turn, its job and the link between
them, and the reader that reconciles what a run has left pending; a turn that is not
completed withdraws its jobs before it ends.

Left out: the content of rounds with the model (a run makes blocks or fails),
branches and attachments, the admission limit over all conversations, a job that
disappears, and a cancellation of a job that fails.

### GalleryLibrary

`entry` are the names with a row, `disk` the picture at each path, 0 without a file,
`puts[f]` the pictures put under a name so far. A generated name is used once; an
imported one comes from its archive and may come back. Saving promotes the file
inside its write transaction and is one step; an import promotes first and inserts
after, two steps. `del`, `gc`, `sweep`, `importing` and `work[w]` are the procedures
that hold something they read before: a deletion with its files still to remove, a
collection with the paths it found, the startup sweep with the files it saw, an import
that has promoted, a thumbnail run.

Locks of `db/state.py` are process-local, so they are not in the model; what is left
is what its comment names: leases in rows, unique names, files replaced in one step,
and the age of files. `old` is that age (`GALLERY_ORPHAN_FILE_TTL_SECONDS`), fixed for
a pass when it starts. An import inserts its row within that time. `Looked` are the files a pass looks at, the first `GcLimit` that exist in
the order of the directories (`Place`, images before thumbnails), listed or not. `clash` is a history: names that were listed
while a deletion, sweep or thumbnail of before had them in hand; the properties except
them, and section 3 says what happens to them. The owner of a thumbnail job is per
claim in the code and the worker here; their order, the limit of renderings at a time,
the cache of verified thumbnails, filter counts and favourites are left out; a
collection's `stat` and `unlink` of one file are one step.

### AssistantSlots

`free[w]` is the semaphore of a process, `slot[i]` a row of `background_leases` with
the owner and whether it is live, `at[r]` the place of the request, `call[r]` its
database call and the slot that is about. The call outlives the request: when it is
cancelled, its permit is back at once, and `ReleaseLate` is the clean-up task that
waits for the thread and returns the slot. Owners are fresh (`os.urandom`) for every
acquisition, so a request is its owner. `lapsed` is a history of requests whose lease
ended before they returned it. A change of `AI_ASSISTANT_MAX_CONCURRENCY` replaces the
semaphore and is left out.

### ApiSettings

`stored` are the tables, `memory[w]` is the copy in `runtime.state` of a process,
`writing[w]` its flag and generation (`api_settings_write_pending`,
`api_settings_write_generation`), `req[t]` a request that changes settings or one that
loads or looks at them. A value is the request that made it. `misc` is everything
beside the presets that a save writes from the copy (proxy, webhook, order).

A load checks the flag, reads the rows, checks flag and generation and replaces the
copy (`LoadStart`, `LoadRows`, `LoadCheck`, `LoadApply`): four steps, because the call
runs in a thread and the event loop goes on. A change loads first, changes the copy and
raises the flag in one step of the event loop (`Change`), and saves in a thread
(`Snapshot`, `ReadSections`, `Replace`). `End` clears the flag. Who only looks
at the presets normalizes them and puts his list back (`Look`, `PutBack`).

`excused` is a history of what the flag cannot keep apart: two changes under way at
once (`Overlap`), a load behind its check when a change begins (`Torn`), a load that
read rows which another process, or the thread of a request that was given up, replaces
(`Unseen`), and a list to be put back over a copy that changes (`Behind`).
Abstractions: the four reads of `Snapshot` are one step; `sections` stands for one of
the sections; the binding of secrets, exports, the normalization of single
fields and what the overall configuration applies are left out.

### DatabaseStart, DatabaseSchema

`disk` is the file as it is committed, `holder` the process whose transaction is open
and `draft` the file as that process sees it. Of a file we keep `items` (columns, tables,
indexes, values that a migration writes), `recorded` (the rows of `schema_migrations`)
and `search`, the full-text index: its table, its triggers, whether it is `whole`, and
whether `key` notes its version. `boot[p]` is where a process stands, which migrations it
read as applied and what it saw when it last looked at columns.

What makes this hard is Python's `sqlite3`, so the model has its rules: a schema
statement commits by itself unless a transaction is open (`Put`), `INSERT` and `UPDATE`
open one and take the write lock until the commit (`Enter`), `executescript` commits
first (`Settle`). There is no lock around the start. `DatabaseSchema` gives each
migration as the steps `look`, `alter`, `create` and `fill`, with the condition under
which the code leaves a step out.

`Die` is a kill, `WaitsTooLong` the busy timeout, `FailStart` the error of a process that
finds a column or a record that another one made since it looked; `Restart` is `restart:
unless-stopped`. `torn` is a history of parts that a start finds missing beside the
column that should vouch for them, `orphaned` of an index left empty under a valid key
(section 3). Left out: what migrations do to values, their names and times, the
check that the directory can be written, and files that a newer release has upgraded
further.

`MCPlatform` puts `AssistantSlots`, `ApiSettings` and `DatabaseStart` side by side. They
share no state: `chosen` says which of them a behaviour is about, and the fairness of each
is stated again with `In`. `MCGalleryFileJobs` does the same with `GalleryFileJobs` and
`GallerySync`, by the kinds of the jobs.

## 3. Runs

`MaxAttempts`, `MaxRecoveries` and the limits are the bounds: since a claim needs
budget, every instance is finite without a state constraint.

| Run | Instance | Question |
|---|---|---|
| `store` | a two-unit edit job and a one-unit job, capacity 2, 1 running, 2 attempts, 2 recoveries | do the tables implement the contract whatever their callers do, and are bytes reserved just as long as a job needs them? |
| `exec_polled` | one polled provider, 2 attempts, 1 recovery, all faults, fair | no second submit, no wrong cancellation, no success without images; do the processes use the store as its most general client may, and does every unit end, with claims only when the precheck finds one? |
| `exec_pair` | two direct units with progress writers, 1 attempt | whichever ends last: is somebody always on the way to aggregate their parent? |
| `sources_kept` | an edit job of one unit with an idempotency key, 2 attempts; the user cancels, clears and trims | are the files there while a unit may run, and is the store used as `User` may? |
| `sources_removed` | a direct edit unit, fair; requests are withdrawn and aborted, maintenance runs | do uploads go in the end? |
| `job_view` | one process with a call and a stream, a call elsewhere, 2 writes, 1 of: clearing, restart, aborted call, failed poll, client leaving, list feed | is the webhook started once, is the stream told of the end, is the copy forgotten? |
| `job_view_shared` | two streams at one process, the job ends elsewhere | the finding below |
| `gallery_items` | an upload or an analysis of three images, two workers, 2 claims, lapsing leases | are stored results kept, is a cancellation kept, does the job end with an answer for every image? |
| `gallery_files` | two imports or exports, an export and a direct download with two requests, or a sync of two images, one of which comes or goes; two workers, 2 claims, leases that end under runs | are archives there while they are needed and gone after, does only such a lease bring a second run to a job, does the success of a sync mean that every image has been in the bucket, and does every job end? |
| `agent_images` | a turn that writes a block and is streamed, or one with an image; lost leases, failing writes, kills, shutdowns | does everybody tell the same end, is the log in order, does no job or stream hang on? |
| `gallery_library` | a generated image, or two pictures one after the other under an imported name, with two thumbnail workers and 2 disturbances; or both names with one of each; a collection looks at two files | do listed images have their files, do left-over files go unless listed ones use up every pass, do thumbnails come? |
| `platform` | one of: three assistant requests at two processes, one patient, 2 slots, 3 disturbances; two changes of settings out of six kinds at one process, one requester that loads or looks again and again, a failing save or a request given up; two processes that start on a new file or one of version 3, 36 or 41, one death or timeout | is nobody's slot taken and none forgotten; does a save take nothing back and does the copy agree with the tables in the end; is an upgrade all or nothing, does search miss nothing, and does every process serve? |

`PROJECT.json` names the properties of each run, and for each one a changed
definition (`M_…` in the modules: the mistake a plausible change of the code would
make) under which TLC finds it violated.

*Why the bounds are enough.* Two attempts and one recovery make a first owner, a
takeover, and the state in which both bounds are used up; with a checkpoint a
unit has a third claim in the store runs, so the recovery bound is seen both
below and at its limit. A superseded owner and its successor are alive together.
Two jobs with different sizes make a queue that is full for one and not for the
other. In `exec_pair` the second unit is what makes "the last unit to end"
depend on order. The edit instances have one job, because files of different jobs
never meet, and a second attempt, so that a superseded run and its successor both
come to their end. The limit on reserved bytes is in the guard of `Enqueue`, but
it does not bind in these instances: with two jobs it would keep them from being
active together. `CHECK_DEADLOCK FALSE` appears in all but the `store` run: there the
system may come to rest when every unit, job, turn or request has ended.

The other instances are as small as their question allows. In `job_view` two writes
are one progress and the end, in either order of their awaits, by both processes; one
disturbance is enough because each of them is forgiven on its own. `gallery_items`
has one image more than are in flight, so that an image is still untouched when a run
is stopped; two claims are a run that is late and its successor. `gallery_files` takes
pairs, since what goes wrong between jobs does so between two. The two
images of its sync are two pages, so a run may stop, be late, resume or be overtaken between them;
`NothingSkipped` was also checked with three claims, three images and pages of two, where a third run
resumes from a checkpoint that a late one has taken back. `agent_images` has
`MaxTurns = 1`, so each behaviour has the one or the other turn: turns meet only in
the admission, which looks at the rows. With one block and the block of an error, a
flush of one (`FlushMax`) leaves one in the buffer. `gallery_library` has one name per
behaviour, of either kind, because what is under way for one name does not touch
another, or both: they meet in the limit of the collection. It is two, so that the files
of one image keep a pass from those of the other (`Crowded`), and two left-over files,
which must not keep each other waiting, fill it as well. In `platform` there is one request more than slots, two of them at one
process, so a slot can lapse, be taken and be returned late by its former owner. There are
two changes of settings, one after the other or at once, and the kinds of each are chosen so that
every pair that concerns one preset occurs (`AskedOf`); one process, because the only
thing processes share is the table, and what comes from there is excused (`Unseen`). Of
old files there is version 3, which has nearly everything before it, 36, whose next
migration fills a new column from other rows, and 41, before the last; two processes are a
fast one and a stale one, and one break is a death or a timeout at any statement. The
invariants were also checked with three processes.

### Fairness

`FairSpec` assumes weak fairness of the coroutine of each run (the event loop
runs every coroutine; HTTP calls have timeouts, polls have a deadline stored in
the checkpoint; a poll is only obliged to end once the task or its deadline is
over), of aggregations that are under way, of the claim when the precheck finds work (`HasClaimable`), and of the
sweep (every process loops over both for ever, `claim_loop.py`, and swallows
exceptions), and of the passing of a lease that nobody renews. It does not assume
that renewals, users, providers or faults ever happen. A task that the provider
never ends is ended by its deadline.

`exec_polled` checks `UnitsEnd` with all faults on. That the verdict of the units
reaches the job is stated without liveness: somebody is on the way while it is due
(`AggregationOwed`), and when nobody is any more it is there, which follows (theorem `StatusMatchesUnits`).

`EditFairness` adds the handlers and clean-ups that have begun: after its first
step a request goes on to queue or to reject, a cancel route to its end, an
aggregation to its clean-up, and an agent that withdraws a job cancels it. Nobody
has to upload, cancel or run maintenance. `sources_removed` leaves out the user's
cancellation and clearing: see "more places".

The other modules state weak fairness of a group of actions where they can: it says
only that somebody of the group goes on, which is less than fairness of each, and is
enough because what the group can do is bounded, so that it is everybody's turn in
the end. The groups: `JobView` (calls and streams go on; the poller and the
refresher are loops that sleep a bounded time), `GalleryItemJobs`,
`GalleryFileJobs` and `GallerySync` (dispatchers, runs, clean-ups and the clock; that
progress renews a lease is never fair), `AgentTurns` and
`AgentImages` (threads, sweeps, jobs, the clock, reconciliation, the stream; strong
fairness of a run, which waits at a lock that is granted in order while its own
flusher takes and leaves it), `GalleryLibrary` (all background work),
`AssistantSlots` (threads, a request whose call has returned, the deadline of a
patient one, leases of the dead; the work of a request may take for ever), `ApiSettings` (a request
that has arrived goes on, threads end; strong fairness of beginning to load, since every
image unit loads settings, `job_queue.py:309`, and finds the flag down in between), `DatabaseStart` (a process that
starts goes on, and one that failed or died is started again). Users,
kills, cancellations, failures and stalls are never fair.

### Findings

*A stream may never be told that its job has ended* (`job_view_shared`).
`image_jobs.py:192-194` says that edges have no status filter "so a subscribing
stream still observes the terminal update that ends it". The poller of a process
notes the subscribers before it reads the edges, publishes to the noted ones, and
records the edge *of the job*. A second stream that subscribes after the note and has
done its first read before another process ends the job is not told, and as its
process knows the edge now, no later poll tells it. It sends keep-alives until the
connection is as old as `SSE_CONNECTION_TTL_SECONDS`. With one stream per job and
process `StreamTold` holds (`job_view`), as it does for jobs that end in the process
itself.

More places where code and comment differ. TLC found each of them on an instance of
these modules; no run is kept of them.

*Image jobs*

* *A parent row is not write-once.* `rows.py:458-460` says the guard makes a parent a
  write-once terminal record. A run that is between its first progress write and
  `store_generate_job_async` when the user cancels and clears the history inserts the
  row again, as `running`, with no units; nothing ever ends it.
* *Staged results may still end as an error.* `image_unit_execution.py:492` says
  that after a death between staging and the terminal write only that write is
  replayed. `execute` prepares before it recovers, so a preset deleted or moved
  meanwhile ends the unit as `error` or `upstream_error` although its images are in
  the gallery.
* *A shutdown may end a unit that another owner should resume.*
  `image_unit_execution.py:534` says a shutdown must leave the checkpoint of a mapped
  unit for a new owner. Until `prepare` has read the preset, `async_provider` is still
  `False`, so a shutdown in those two database calls takes the other branch and writes
  `cancelled`, also for a unit whose task runs at the provider.
* *A job may stay running after its units have ended.* `image_jobs.py:1051` calls the
  parent's status a function of its units. If the process stops between the last
  terminal write and the aggregation, no sweep looks at that parent again.
* *Files of a job cancelled while it runs stay.* `job_cancel.py:46` leaves them to the
  run; the run learns of the cancellation from a refused renewal, counts as having
  lost its lease, and does not aggregate (`image_unit_execution.py:634`). A startup at
  least six hours later removes them.
* `image_jobs.py:532` says concurrency may exceed `running_limit` by the expired units
  that have not been reclaimed. Renewal and progress writes do not ask whether the
  lease has passed (`image_jobs.py:632`): an owner that comes back after its slot was
  given away makes two *unexpired* units under a limit of one.
* `startup_maintenance.py:32` assumes files older than six hours are abandoned. A job
  that is queued when the service stops, and still when it starts the next day, loses
  its files. (`SourcesWhileNeeded` is false with `"stale"` among the events.)
* The webhook of a job is lost if the process stops, the request is cancelled or the
  history is cleared between the terminal write and the delivery; `WebhookOnce`
  excepts exactly these.

*Agent turns*

* *A turn may be completed without its last events.* `agent_run_lifecycle.py:132-134`:
  "Everything is persisted before the turn status flips". The flusher is cancelled
  before that. If it waits for its batch, `agent_event_writer.py:91` re-raises without
  putting the batch back and without advancing the next number: the final flush finds
  an empty buffer, the turn is completed, and the batch commits later or, as its
  transaction then asks for an owner that is gone, never. No fault is needed. If other
  events follow instead, their numbers collide and the snapshot is skipped too.
* A stream lists the events before it reads the status (`agent_stream.py:80-88`): a
  turn that stores its last blocks and ends in between is told as ended without them.
* `cancel_pending_images` stores `cancelled` for what it read as pending, although a
  job may have succeeded since; a process killed between queueing a job and linking
  it leaves an image that is told as failed while its job runs; and an older snapshot
  whose task was cancelled may commit after the final one.

*Gallery jobs*

* The clean-up of exports, and the sweep at startup, read the ids before they list the
  directory: an export that is admitted and finished in between loses its archive
  (`ReadyExportHasArchive` excepts it).
* The check of a direct slot and its update are two transactions
  (`gallery_tasks.py:394, 412`). A slot that has lapsed (six hours) is taken back and
  may exceed the limit.
* An import interrupted by a shutdown removes its archive, and its next owner ends it
  as an error though images may be in; killed after its commit it runs twice. A
  clean-up stopped between the rows and the archives leaves an archive for good; a
  request aborted while its import is admitted leaves a queued import without one.
* The lease of an export, an import or a sync may end under its run, and a second run is
  claimed. The late one then removes the archive of the other when it fails
  (`gallery_export_jobs.py:481-483`), stores "error" over its success, or "running" over
  its end, after which the job is claimed once more; an import may run twice. The
  properties except such jobs (`outlived`); that each of them ends is still checked.
* A full comparison stores its checkpoint behind images whose upload has failed
  (`r2/sync.py:420-431`) and the number of failures nowhere that matters: if the run is
  taken over, the next one resumes behind them, counts no failure and reports "R2 gallery
  sync complete" (`NothingSkipped` excepts them with `skipped`). The next comparison finds
  them.

*Settings*

* `presets.py:111-113` says that while a settings write is being saved, concurrent loads
  "must not repopulate the runtime state from the pre-commit database row, or they would
  revert the update". The flag is one boolean: of two requests that change settings at
  once, the first to end clears it while the other is still being saved. A load that
  begins then finds neither a flag nor another generation, and replaces the copy. If the
  other one has not taken its snapshot yet, it stores the settings of before and answers
  that it changed them. (`SavesApplyOnce` excepts it with `Overlap`.)
* The check of a load and its replacement of the copy are not one step
  (`presets.py:130-140`): a change that begins in between is undone in memory. The same
  for whoever looks at the presets and puts his normalized list back (`presets.py:169`).
* The save of another process replaces whole tables from the copy it has: what was
  changed here since that copy was loaded is taken back, with no warning.
* An update that is refused as invalid has already changed the preset in memory
  (`routers/settings.py:252-272`) and is seen by units until the next load.

*Database start*

* A migration may be recorded although a part of it is missing (`RecordedIsWhole` is
  false). The first pending migration runs outside any transaction, and an index or a
  backfill stands under the condition of its column: a process killed between the two
  leaves the column, and the next start takes the migration as done. Version 42 makes
  `asset_alias` and then its unique index (`migrations.py:882-889`), which
  `test_storage_migrations_contract.py:839-852` expects; version 37 adds
  `parent_turn_id` and then fills it (`migrations.py:841-846`). With two processes no
  kill is needed: the second one looks between the two statements, finds the column and
  is first to record the version. Its colleague waits for the lock, makes the index late,
  or fills the column and then loses that to the rollback when its own record collides.
* Of two processes that both set out to rebuild the full-text index, one may fill it and
  note its version before the other drops it and makes it again; if that one then dies or
  waits too long, an empty index stands under a valid version and nothing fills it
  again (`SearchWhole` excepts it with `orphaned`).
* A process that starts a moment after another fails with a duplicate column or a UNIQUE
  constraint and has to be started again (`StartedAllServe` needs `Restart`).

*Gallery*

* "Delete unreferenced image and thumbnail files after a short TTL", says the docstring of
  the collection (`gallery/maintenance.py:273`). A pass stops after
  `GALLERY_ORPHAN_GC_BATCH_SIZE` (500) files and counts every one it looks at, before it asks
  whether it is listed or young (lines 294-300); it keeps no position, and looks at
  thumbnails only if the images leave some of the limit. So with 500 listed images no
  thumbnail is ever collected, and no image behind them in the order of the directory.
  `LeftoversGo` excepts such files (`Crowded`), and is false without that. What
  it says is that a left-over file is only ever kept waiting by listed ones.
* A file that can never be removed (`unlink` fails each time) counts against the limit of
  every pass of the collection like a listed one. (`CollectFile` does not fail.)
* The startup sweep of one worker lists the files before it reads the rows
  (`startup_maintenance.py:163`): an image another worker adds in between loses its
  row and later its file (`RowsKept` excepts it).
* An import of an archived name while a deletion of it is between its commit and its
  unlinking loses the new file; a `delete_all` may remove the promoted file of an import before its
  row; an old thumbnail may survive for a new image, and a run of the old image may
  end the new image's job.
* `THUMBNAIL_JOB_MAX_ATTEMPTS` is only compared when a run reports a failure
  (`thumbnail_jobs.py:380`): a job whose worker dies on it is claimed without limit.
* `sync_gallery_with_image_files` lowers filter counts for rows already deleted, and
  raises the gallery's version in its last batch only.

## 4. What is proved

Every safety property that a run checks is a theorem. The
theorems hold for every value of the constants that the ASSUMEs of the modules
allow: any finite sets of jobs, units, requests and turns, any number of processes,
names, images, blocks and claims, any limits, and attempt bounds of at least 1
(`config` and `max(1, …)` in the code justify them). Some assumptions say more than
that: an item job has at least one image, and finitely many (both routes refuse an
empty selection, `gallery_batch.py:231`, `assistant_batch.py:106,123`), and for the start migration 1 has no steps
and the base script makes something (both are so). Two theorems have a
hypothesis of their own, which their text names: `Faults = {}`.

**The store** (`ImageJobStoreProofs`). The inductive invariant is

    StoreInv == TypeOK /\ ClaimBookkeeping /\ AttemptsBounded
                /\ UnitsHaveLiveParent /\ ReservationFollowsJob

`ClaimBookkeeping` is what the others need: the attempt bound is kept because a
running row's recoveries are its attempts less one, so the test on either column
bounds both; without it a claim could raise one past its bound while the test
looks at the other. `UnitsHaveLiveParent` is why bytes stay reserved: a unit that
can run has a parent that is active, so no clean-up has released it, and a parent
that is finalized has no such unit. Each conjunct is one lemma on a step of
`Next`, one case for each action that can disturb it. From it follow `TypeCorrect`,
`BookkeepingCorrect`, `AttemptsCorrect`, `LiveParentCorrect`,
`ReservationCorrect`, `OneWayOutCorrect`, `CapacityCorrect`, the action properties
`TerminalUnitsKept` and `TerminalParentsKept`, and `StoreKeepsContract`: every
transaction maps to a step of `ImageJobContract` or to a stutter. The last one is
the step simulation one expects, with one case that needs care: an expired batch
of units is one `Answer` of the contract, and a verdict is an allowed `Decide`
(lemma `VerdictAllowed`). `VerdictsStand` says that the status of a job that ended is
the user's cancellation or what its units give, and stays so: an ended unit changes
only when its job is deleted.

**The processes** (`ImageUnitExecutionProofs`). `WorkersImplementStore`: every
step of every process, faults included, is a step of `ImageJobStore!Spec` or
leaves its variables alone. `WorkersKeepStore` carries `StoreInv` and the contract
over. `SubmitOnce` (no mapped unit is ever submitted under two keys) and
`ImagesBeforeSuccess` follow from

    ExecInv == RunsTyped /\ SharedTyped /\ OneSubmit /\ ImagesFirst

`OneSubmit` is the argument of the code made explicit: the only key a provider
ever sees is that of the first claim. A run that goes to the provider without
having seen a checkpoint is the first claim; a later one either found a checkpoint,
and then submits under the key in it or only polls, or found none and is told to
interrupt. `ImagesFirst` says that a checkpoint of
staged results, in the row or in the memory of a run, means the images are saved.

`TasksCancelledForAReason` (the action property `CancelOnlyForUserOrDeadline`, with
all faults) needs to know what a run knew when it set out to cancel a task:

    LeaseInv == Begun /\ LostRightly /\ ForAReason /\ (types)

`Begun` says that claims are numbered as they come, `LostRightly` that a run which
believes it lost its lease has lost it, unless a database call failed; `ForAReason`
that a run on its way to withdraw a task is behind the deadline stored in the
checkpoint, or its unit is over. They survive the steps of other owners because deadlines do not move back and ended units stay.

`AggregationIsOwed` and `StatusMatchesUnits` are about runs without faults: a process
that stops between the last terminal write and the aggregation leaves a job running
(section 3), so with `"crash"` both are false. `DebtOwed` strengthens what is checked:
the debtor of a parent whose units have ended is a run at `cleanup` or `final` that
has not lost its lease, or the sweep that expired a unit. The run that ends the last unit
becomes one in that very step, and it leaves `final` only by `Settle`.
`StatusMatchesUnits` follows from it with `VerdictsStand`.

**Edit sources** (the last part of `ImageUnitExecutionProofs`). `SourcesImplementExecution`: whatever of
`Events` befalls a job, requests, routes and clean-ups do to the store what `User`
may, so all of the above holds with them. The step that needs an invariant is the
release of a reservation, which `User` may only do for a job that has ended while
the clean-ups delete the row without looking:

    EditInv == /\ \A u : Writing(u) => MayFinalize(Parent(u))
               /\ \A j : Cleaning(j) => Over(j)
               /\ (types)

`Over(j)` says the job was queued, has no unit to run and holds no bytes; once true
it stays true, even if a stale upsert brings the parent row back (lemma
`OverStays`). An aggregation that is about to write the final status
(`Writing`) has read that all units ended, which is still so or the job is over by
now (`MayFinalize`), so after its write the job is over (`SettleEnds`).
`SourcesKept` says that files outlive the need for them if `Events` has
neither `"abort"` nor `"stale"`: `KeptInv` adds that a request that may still
remove files was never queued, only queueing gives a job units to run
(`NothingQueued`, `WorkQueuesNothing`), and all others clean up after jobs that are
over. The condition is needed: the end of section 3 shows what happens when
maintenance runs, and the abort of a request whose job is stored is the other half.

**Slots** (`PlatformProofs`). The invariant is

    SlotInv == SlotsTypeOK /\ (\A r : PhaseOf(r) /\ HasOwns(r)) /\ SlotAccounted

`PhaseOf` ties the call of a request to its place: a request that works has the slot
in hand, one that waits has no call under way. `HasOwns` is what makes `WorkingOwns`
inductive: not only a request that works but every one that has a slot, or is
returning it, owns it until the lease lapses, and an acquisition only takes slots
that are not live. `SlotAccounted` is its own strengthening with these. Most steps
leave the slots alone and the request with what it had (`Quiet`, `QuietStep`).
`PermitsBalanced` follows from `PhaseOf`: every step of a request takes a permit,
returns the one it has, or does neither (`RequestPermits`), and the number of
requests that hold one changes accordingly (`PermitStep`). The assumption is that
requests are finitely many and `AI_ASSISTANT_MAX_CONCURRENCY` is positive.

**Settings** (`PlatformProofs`).

    SettingsInv == SettingsTypeOK /\ ActiveStored /\ (excused \/ Alone)

`ActiveStored` is what the normalization before a save gives, whatever anyone did to the
copy. `Alone` is the argument for the flag: as long as nothing was excused there is one
change under way, and until it is saved the copy is one step of that change away from
the tables (`ChangeInv`). A load that may still be applied holds the rows that are
stored (`LoadInv`), because a change raises the generation first, so that whoever read before fails
the check (`KeptOut`), and the flag is up exactly while the change is being saved
(`FlagInv`). The exception is a request that was given up: its thread saves with the flag
down, and a load may replace the copy before the snapshot; then the save stores what
was there (`ToStore`). `SavesApplyOnce` follows: a save stores one step of what was
asked for, or nothing.

**The start** (`PlatformProofs`). Whatever the migrations are, as sequences of steps:

    UpgradeInv == StartTypeOK /\ FileInv /\ \A p : Knows(p)
    SearchInv  == (\A p : AtSearch(p)) /\ Tended /\ Triggered

An upgrade is all or nothing (`UpgradeAllOrNothing`) although nobody wrote a transaction
around it. A process only knows the versions it read, so until it records its first
migration the statements that commit one by one are those of migration `before + 1`
(`AtMigration`); on a new file the record of version 1 comes before everything. Its first
`INSERT` opens a transaction that stays open over all the migrations left: only
`executescript` or the last commit ends it, and by then the process has nothing pending
(`Knows`). So a commit takes the file from the versions it had to all of them
(`FileInv`), and a process that was late then collides. `Whole` says that what is
recorded has its parts, except those a look found torn.

For `SearchWhole` the invariant says who will put the index right while it lacks images or
triggers under a valid version (`Tended`): somebody that rebuilds it, or, as there is no
table and nobody that saw one, the next to start. What had to be added is `Triggered`:
one process may drop the triggers while another is already filling, and unless somebody is
still going to make them, images added after that are missed.

**The view of a job** (`JobViewProofs`). `WebhookOnce` counts; the invariant says who:
unless one of the excused events has happened, the job is active, its URL in the row and
nobody owes the webhook; or it has ended and the webhook was started and nobody owes it; or
it has ended, it was not started, and exactly one call owes it, which finds the URL in
the row until it takes it out (`HookInv`). A progress write of another call can bring a URL
back only while the job is active (lemma `Aside`).

**Item jobs** (`GalleryItemJobsProofs`).

    ItemsInv == ItemsTypeOK /\ RowInv /\ RunsInv /\ KnowInv /\ StandInv /\ EveryImageAnswered

`gallery_jobs` fences by the name of a worker, not by a token. That is enough
because a process has one run of a kind at a time: a run that goes by the name of the
owner is the run of the last claim (`RunsInv`), and that one knows every stored result
(`KnowInv`), so what it writes takes none back. Where it stands determines what it still
has to tell (`StandInv`), so its last write tells all. One lemma per action shows that
a step is one of two kinds, `Tells` or `Ends`, and these two keep the invariant.
`ResultsKept` and `CancelSticks` follow step by step.

**File jobs** (`GalleryFileJobsProofs`). Their writes are not fenced at all, and nothing
is assumed of their leases. `FilesInv` says what keeps a second run away: as long as no
lease of a job has ended under a run, a run that has its last write before it has a row that
is running and live, which is no row anyone claims, and behind that write only an
import has something left to do, and its row can no longer be claimed (`LeaseInv`,
`SoleRun`). `ArchiveInv` adds that a clean-up that has read the exports knows of every
archive that is ready, or the job is `astray`; it holds of all jobs, the part about the
archive itself of those that are not `outlived`. A step touches one job, and
`UntouchedKeeps` settles the others.

**Syncs** (the last part of `GalleryFileJobsProofs`). `NothingSkippedHolds`, with any number of
runs of a job at work at once:

    SyncInv == SyncTypeOK /\ (\A j : JobSync(j)) /\ \A w, j : RunSync(w, j)

An image is settled if it has been met in the bucket or its upload failed before a
checkpoint. `JobSync` says that everything before the checkpoint is settled, *whoever*
stored it, and everything in `r2_sync_state` met. `RunSync` says the same of the place of
each run, but for what it still has to upload and what failed in its hands. So a run may
start from any checkpoint, a checkpoint may be taken back by a late run, and runs may read
each other's records: a run that reaches the end without a failure of its own has
everything settled. Nothing in the argument needs one run at a time.

**Agent turns** (`AgentImagesProofs`). `ImagesImplementTurns`: the turns with their
images do only what `TurnsSpec` allows, so what is proved of turns holds of both. The
invariant of a turn relates its run, its log and the status of its row:

    RunInv(r, l, st) == (types) /\ LineInv(r, l, st) /\ ToldInv(r, l, st) /\ PcInv(r, l, st)

`LineInv` is the reason that late commits do no harm: everything still to be
written, by the run, its flusher or a thread nobody waits for, is in order, and is
behind the log *if* the log ends where the writer believes it does; if it does not,
the number collides and nothing is stored. `ToldInv` says that an end is only told when
the row has it. `LogInOrder` and `EndsAgree` follow. For the images,

    AgentInv == TurnsInv /\ ImagesTypeOK /\ \A t : ImageInv(t)

adds that the task of the image works only while its run waits for it, that a
run which goes to its end without completing has no job at work (`TaskInv`), and that
whoever settles an image has seen its job end (`SettledInv`). `ImagesTrue` and
`NoJobLeftBehind` follow.

**The gallery** (`GalleryLibraryProofs`).

    LibraryInv == LibraryOK /\ importing \cap entry = {}
                  /\ (\A f : UnusedInv(f) /\ PictureInv(f) /\ ListedInv(f))
                  /\ \A w : WorkInv(w)

`ListedTrue` speaks of files; what keeps it true is who has a name in hand. A name
that was never used is nowhere (`UnusedInv`), so a generated name is safe when its row
comes. A listed name is in the hand of no deletion and no sweep, and a thumbnail about
to be put under it is of its picture (`ListedInv`). That last part rests on `WorkInv`: a worker
looks, renders and looks again, the pictures of a name only grow in number, so if
the first and the last look show the same picture the one in between did, and it is the
present one. `clash` excepts the names that were listed while a step of their
past was under way, as the runs do. `RowsKept` follows from `ListedInv`: the scan of a
sweep saw the file of each listed name.

**What the proofs found.** The proof of `AgentTurns` did not go through where two
arms of a CASE overlapped (`Raises`: a failed write of the flusher while the run is in
its loop). TLC takes the first arm, the meaning of TLA+ is any of them. It is an IF
now, with the same runs. The type invariant of `GalleryFileJobs` did not say that `run`
is a function on the jobs.

**Model-checked only.** Liveness (`UnitsEnd`, `SourcesRemoved`, `StreamTold`,
`CacheForgets`, `ItemJobsEnd`, `FileJobsEnd`, `ImportLeavesNothing`, `StreamsEnd`,
`ImagesSettle`, `LeftoversGo`, `ThumbnailShown`, `MemoryConverges`, `StartedAllServe`), which is out of
reach of the prover. Every inductive
invariant was checked by TLC on the instance of its run before it was proved; the runs
do not repeat it, nor what theorems say of smaller things (`CapacityRespected`,
`TerminalUnitsFrozen`, `StatusFollowsUnits`, `PermitsBalanced`, `ActiveStored`). `LostStops`
holds on the instance of `platform` and is not kept in it. Nothing is proved about the bounds of an instance (`count`,
`MaxEvents`, …): the types in the proofs have `Nat` where `LibraryTypeOK` and
`ViewTypeOK` have a bound.

## 5. Not modelled, and the plan

The map of `PROJECT.json` covers about a fifth of the lines of the implementation.
Most of the rest has no state that steps of several parties could get wrong: HTTP
clients and their parsers, schemas, queries and row conversions, the archive formats,
prompts and vision. Those lines are not covered by widening the models. What is left
that is worth modelling:

1. `Leases`: `acquire_background_lease` with `completed_ttl_seconds` and
   `complete_background_lease`, under which startup maintenance, the daily sync and
   the clean-ups run; a lease acquired again by the owner that held it before while
   its first loop still runs.
2. `SseSlots`: the rows of `sse_slots` and the limits per address in
   `repositories/sse_limiter.py`, with refreshes and expiry.
3. `ClaimLoop`: kick, precheck and backoff; a queued unit does not wait for a
   wake-up that was swallowed. `LeaseRenewal`: the local deadline never runs ahead
   of the stored one.
4. `GalleryPages`: cursors, filter counts and the version of the gallery under
   changes; the scheduled sync.
5. `JobView` with the list feed and several jobs.

Proofs after that: the invariants of those modules.

Not planned: HTTP clients, parsers and payload builders, R2 transport, access control,
the API layer, media and cost arithmetic, and the frontend. They are I/O or pure
data conversion with unit tests of their own.
