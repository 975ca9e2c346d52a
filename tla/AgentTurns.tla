------------------------------ MODULE AgentTurns ------------------------------
(***************************************************************************)
(* Turns of one Agent conversation: rows and leases                        *)
(* (repositories/agent/turns.py), the run of a turn                        *)
(* (services/agent_run_lifecycle.py), its writer of events and message     *)
(* snapshots (agent_event_writer.py) and a stream that tails the events    *)
(* (agent_stream.py).                                                      *)
(*                                                                         *)
(* A turn is claimed once, by the process that admitted it, and nobody     *)
(* takes it over: when its lease lapses, whoever looks interrupts it.      *)
(* Inside the run, the main task and a flusher write through a pool of     *)
(* threads.  Cancelling a task does not stop the transaction it waits for: *)
(* that one is an orphan and may still commit.                             *)
(***************************************************************************)
EXTENDS Integers, Sequences, FiniteSets

CONSTANTS
    Turns,      \* by client_turn_id, which names a turn for good
    MaxTurns,   \* AGENT_MAX_TURNS_PER_CONVERSATION
    Blocks,     \* bound: blocks the run of each turn writes, beside an error block
    FlushMax,   \* EVENT_FLUSH_MAX
    Watched,    \* the turns somebody streams
    Stalls,     \* a run may fail to renew its lease
    Faults,     \* database calls may raise
    Kills       \* processes may die or shut down

ASSUME TurnsAssumption == /\ IsFiniteSet(Turns) /\ Watched \subseteq Turns /\ MaxTurns \in Nat
                          /\ Blocks \in [Turns -> Nat] /\ FlushMax \in Nat \ {0}
                          /\ {Stalls, Faults, Kills} \subseteq BOOLEAN

VARIABLES
    conv,       \* the conversation
    row,        \* agent_turns
    log,        \* agent_turn_events, by seq
    saved,      \* how many blocks the stored message shows
    run,        \* the run of each turn
    sweeping,   \* turns a sweep has read as stale
    reader      \* a stream of each turn

turnVars == <<conv, row, log, saved, run, sweeping, reader>>

Active == {"queued", "running"}
Ended == {"completed", "failed", "cancelled", "interrupted"}

Block(n) == [type |-> "block", n |-> n]
Outcome(st) == CASE st = "completed" -> "turn.completed"
                 [] st = "cancelled" -> "turn.cancelled"
                 [] OTHER -> "turn.failed"
End(st) == [type |-> Outcome(st), n |-> 0]
IsEnd(e) == e.type # "block"

\* A write handed to a thread.
NoWrite == [op |-> "none", evs |-> <<>>, at |-> 0, owned |-> TRUE]

Tasks == {"main", "flusher"}
Idle(pc) == [pc |-> pc, verdict |-> "failed", lost |-> FALSE, aux |-> FALSE, made |-> 0,
             kept |-> 0, pend |-> <<>>, next |-> 1,
             io |-> [p \in Tasks |-> NoWrite], orphans |-> {}]

TurnsInit ==
    /\ conv = "open"
    /\ row = [t \in Turns |-> [st |-> "none", live |-> FALSE, cancel |-> FALSE]]
    /\ log = [t \in Turns |-> <<>>]
    /\ saved = [t \in Turns |-> 0]
    /\ run = [t \in Turns |-> Idle("none")]
    /\ sweeping = {}
    /\ reader = [t \in Turns |-> [pc |-> "off", cursor |-> 0, told |-> "none"]]

\* What _require_owner asks.  The run is the only owner its turn ever has.
Owns(t) == row[t].st = "running" /\ row[t].live

Finish(t, st) == row' = [row EXCEPT ![t].st = st, ![t].live = FALSE]
Run(t, r) == run' = [run EXCEPT ![t] = r]
Go(t, pc) == run' = [run EXCEPT ![t].pc = pc]
Over(t) == Run(t, Idle("over"))

\* A cancelled task leaves its write to the thread.
Orphaned(r, p) == [r EXCEPT !.io[p] = NoWrite,
                            !.orphans = IF r.io[p].op = "none" THEN @ ELSE @ \cup {r.io[p]}]

-----------------------------------------------------------------------------
(* Admission and claim.                                                     *)

\* create_turn: one active turn in a conversation, and a number of them at all.  A
\* request that names a turn again finds it and changes nothing.
Create(t) ==
    /\ conv # "deleted"
    /\ row[t].st = "none"
    /\ Cardinality({s \in Turns : row[s].st # "none"}) < MaxTurns
    /\ \A s \in Turns : row[s].st \notin Active
    /\ row' = [row EXCEPT ![t].st = "queued", ![t].live = TRUE]
    /\ Go(t, "claim")
    /\ UNCHANGED <<conv, log, saved, sweeping, reader>>

\* claim_turn, whether or not the lease of the admission has lapsed.
Claim(t) ==
    /\ run[t].pc = "claim"
    /\ IF row[t].st = "queued"
       THEN /\ row' = [row EXCEPT ![t].st = "running", ![t].live = TRUE]
            /\ \/ Run(t, [run[t] EXCEPT !.pc = "loop", !.aux = TRUE])
               \/ (Kills \/ Faults) /\ Go(t, "undo")
       ELSE Over(t) /\ UNCHANGED row
    /\ UNCHANGED <<conv, log, saved, sweeping, reader>>

\* Stopped while it claimed, or the row could not be read: no event tells.
Undo(t) ==
    /\ run[t].pc = "undo"
    /\ IF row[t].st = "running" THEN Finish(t, "interrupted") ELSE UNCHANGED row
    /\ Over(t)
    /\ UNCHANGED <<conv, log, saved, sweeping, reader>>

-----------------------------------------------------------------------------
(* Writing through threads.                                                 *)

\* Who has the lock of this kind of write.
Free(t, op) == \A p \in Tasks : run[t].io[p].op # op

\* _flush_events_locked takes the whole buffer.  The owner is not asked for once
\* the run has ended its turn.
BeginFlush(t, p) ==
    /\ run[t].pend # <<>> /\ ~run[t].lost /\ run[t].io[p].op = "none" /\ Free(t, "events")
    /\ Run(t, [run[t] EXCEPT !.pend = <<>>,
           !.io[p] = [op |-> "events", evs |-> run[t].pend, at |-> run[t].next,
                      owned |-> run[t].pc # "tell"]])
    /\ UNCHANGED <<conv, row, log, saved, sweeping, reader>>

\* persist: the blocks as they are now.
BeginSave(t, p) ==
    /\ ~run[t].lost /\ run[t].io[p].op = "none" /\ Free(t, "save")
    /\ Run(t, [run[t] EXCEPT !.io[p] = [op |-> "save", evs |-> <<>>, at |-> run[t].made,
                                        owned |-> run[t].pc # "tell"]])
    /\ UNCHANGED <<conv, row, log, saved, sweeping, reader>>

Allowed(t, w) == IF w.owned THEN Owns(t) ELSE row[t].st # "deleted"

\* Mutant: numbered when it is written.
M_Fits_Always(t, w) == TRUE

\* append_turn_events numbers from where the writer believes the log ends: a
\* number that is taken is an IntegrityError.
Fits(t, w) == w.op = "events" => w.at = Len(log[t]) + 1

Store(t, w) == /\ log' = IF w.op = "events" THEN [log EXCEPT ![t] = @ \o w.evs] ELSE log
               /\ saved' = IF w.op = "save" THEN [saved EXCEPT ![t] = w.at] ELSE saved

\* The write of a task that waits for it is stored...
Stored(t, p, w) ==
    /\ Allowed(t, w) /\ Fits(t, w)
    /\ Store(t, w)
    /\ Run(t, [run[t] EXCEPT !.io[p] = NoWrite,
           !.next = IF w.op = "events" THEN w.at + Len(w.evs) ELSE @,
           !.kept = IF w.op = "save" THEN w.at ELSE @,
           !.pc = IF p = "flusher" THEN @
                  ELSE CASE @ = "flush" -> "save" [] @ = "save" -> "finish"
                         [] @ = "tell" -> "over" [] OTHER -> @])

\* A run that failed adds a block that says so.
Failed(r) == [r EXCEPT !.pc = "stop", !.verdict = "failed", !.made = @ + 1,
                       !.pend = Append(@, Block(r.made + 1))]

\* ... or raises: events go back to the buffer, the flusher only logs it, and
\* what finalize had left to write is skipped.
Raises(t, p, w) ==
    /\ Allowed(t, w) /\ (Faults \/ ~Fits(t, w))
    /\ LET r == [run[t] EXCEPT !.io[p] = NoWrite, !.pend = w.evs \o @]
       IN  Run(t, IF p = "flusher" THEN r
                  ELSE CASE r.pc = "loop" -> Failed(r)
                         [] r.pc \in {"flush", "save"} -> [r EXCEPT !.pc = "finish"]
                         [] OTHER -> [r EXCEPT !.pc = "over"])
    /\ UNCHANGED <<log, saved>>

\* What becomes of a run that learns its lease is lost.
Interrupted(r) == [r EXCEPT !.lost = TRUE, !.verdict = "interrupted",
                            !.pc = CASE @ = "loop" -> "stop" [] @ \in {"flush", "save"} -> "drop"
                                     [] OTHER -> @]

\* ... or finds that the turn is not its own any more.
Refused(t, p, w) ==
    /\ ~Allowed(t, w)
    /\ LET r == [run[t] EXCEPT !.io[p] = NoWrite]
       IN  Run(t, IF p = "main" THEN Interrupted(r)
                  ELSE IF r.pc = "loop" THEN Interrupted(Orphaned(r, "main"))
                  ELSE [r EXCEPT !.lost = TRUE])
    /\ UNCHANGED <<log, saved>>

Write(t, p) == /\ run[t].io[p].op # "none"
               /\ LET w == run[t].io[p] IN Stored(t, p, w) \/ Raises(t, p, w) \/ Refused(t, p, w)
               /\ UNCHANGED <<conv, row, sweeping, reader>>

\* The transaction nobody waits for.
Commit(t, w) ==
    /\ w \in run[t].orphans
    /\ IF Allowed(t, w) /\ Fits(t, w) THEN Store(t, w) ELSE UNCHANGED <<log, saved>>
    /\ Run(t, [run[t] EXCEPT !.orphans = @ \ {w}])
    /\ UNCHANGED <<conv, row, sweeping, reader>>

-----------------------------------------------------------------------------
(* The model loop.                                                          *)

Waiting(t) == run[t].pc = "loop" /\ run[t].io["main"].op = "none"

\* A block, new or changed, or a piece of text.
Emit(t) ==
    /\ Waiting(t) /\ run[t].made < Blocks[t] /\ Len(run[t].pend) < FlushMax
    /\ Free(t, "events")
    /\ Run(t, [run[t] EXCEPT !.made = @ + 1, !.pend = Append(@, Block(run[t].made + 1))])
    /\ UNCHANGED <<conv, row, log, saved, sweeping, reader>>

FlushFull(t) == Waiting(t) /\ Len(run[t].pend) >= FlushMax /\ BeginFlush(t, "main")
SaveRound(t) == Waiting(t) /\ run[t].kept # run[t].made /\ BeginSave(t, "main")

\* The model has finished, or something failed, which is one more block.
Leave(t) ==
    /\ Waiting(t)
    /\ \/ Run(t, [run[t] EXCEPT !.pc = "stop", !.verdict = "completed"])
       \/ Free(t, "events") /\ Run(t, Failed(run[t]))
    /\ UNCHANGED <<conv, row, log, saved, sweeping, reader>>

\* The watcher finds the flag and cancels the loop, whatever it waits for.
SeeCancel(t) ==
    /\ run[t].pc = "loop" /\ row[t].cancel /\ row[t].st # "deleted"
    /\ Run(t, [Orphaned(run[t], "main") EXCEPT !.pc = "stop", !.verdict = "cancelled"])
    /\ UNCHANGED <<conv, row, log, saved, sweeping, reader>>

\* The process shuts down: the run is finalized while its flusher still runs.
Shutdown(t) ==
    /\ Kills /\ run[t].pc = "loop"
    /\ Run(t, [Orphaned(run[t], "main") EXCEPT !.pc = "withdraw", !.verdict = "interrupted"])
    /\ UNCHANGED <<conv, row, log, saved, sweeping, reader>>

\* The renewer finds the lease gone, or cannot renew it until it ends.
LoseLease(t) ==
    /\ run[t].aux /\ ~run[t].lost
    /\ Stalls \/ ~Owns(t)
    /\ Run(t, IF run[t].pc = "loop" THEN Interrupted(Orphaned(run[t], "main"))
              ELSE [run[t] EXCEPT !.lost = TRUE])
    /\ UNCHANGED <<conv, row, log, saved, sweeping, reader>>

\* The flusher looks four times a second.
Flush(t) == run[t].aux /\ BeginFlush(t, "flusher")
Persist(t) == run[t].aux /\ run[t].kept # run[t].made /\ BeginSave(t, "flusher")

-----------------------------------------------------------------------------
(* The end of a run.                                                        *)

StopTasks(t) ==
    /\ run[t].pc = "stop" /\ run[t].io["main"].op = "none"
    /\ Run(t, [Orphaned(run[t], "flusher") EXCEPT !.pc = "withdraw", !.aux = FALSE])
    /\ UNCHANGED <<conv, row, log, saved, sweeping, reader>>

\* finalize first cancels the images a turn has not waited for; it does so again
\* when it loses the lease later.
Withdraw(t) ==
    /\ run[t].pc \in {"withdraw", "drop"}
    /\ Run(t, [run[t] EXCEPT !.pc = IF @ = "drop" \/ run[t].lost THEN "finish" ELSE "flush",
                             !.verdict = IF run[t].lost THEN "interrupted" ELSE @])
    /\ UNCHANGED <<conv, row, log, saved, sweeping, reader>>

FlushLast(t) ==
    /\ run[t].pc = "flush" /\ run[t].io["main"].op = "none"
    /\ \/ BeginFlush(t, "main")
       \/ /\ run[t].lost \/ (run[t].pend = <<>> /\ Free(t, "events"))
          /\ Go(t, "save")
          /\ UNCHANGED <<conv, row, log, saved, sweeping, reader>>

SaveLast(t) ==
    /\ run[t].pc = "save" /\ run[t].io["main"].op = "none"
    /\ \/ BeginSave(t, "main")
       \/ run[t].lost /\ Go(t, "finish") /\ UNCHANGED <<conv, row, log, saved, sweeping, reader>>

\* Mutant: the event is told whatever the row says.
M_Tells_Always(t, st) == ~run[t].lost

Tells(t, st) == st = run[t].verdict /\ ~run[t].lost

\* finish_turn by the owner, which may be late for the lease but not for a
\* sweep; and the terminal event, if the row says what the run wants to tell.
EndTurn(t) ==
    /\ run[t].pc = "finish"
    /\ LET st == IF row[t].st = "running" THEN run[t].verdict ELSE row[t].st
       IN  /\ IF row[t].st = "running" THEN Finish(t, st) ELSE UNCHANGED row
           /\ IF Tells(t, st)
              THEN Run(t, [run[t] EXCEPT !.pc = "tell", !.pend = Append(@, End(run[t].verdict))])
              ELSE Over(t)
    /\ UNCHANGED <<conv, log, saved, sweeping, reader>>

\* The database call raises: the turn stays as it is until it is swept.
EndFails(t) ==
    /\ Faults /\ run[t].pc = "finish"
    /\ Over(t)
    /\ UNCHANGED <<conv, row, log, saved, sweeping, reader>>

Tell(t) == /\ run[t].pc = "tell" /\ run[t].io["main"].op = "none"
           /\ \/ BeginFlush(t, "main")
              \/ /\ run[t].lost \/ (run[t].pend = <<>> /\ Free(t, "events"))
                 /\ Go(t, "over")
                 /\ UNCHANGED <<conv, row, log, saved, sweeping, reader>>

\* What is left when execute returns.
Return(t) == /\ run[t].pc = "over" /\ run[t] # Idle("over")
             /\ Over(t)
             /\ UNCHANGED <<conv, row, log, saved, sweeping, reader>>

Kill(t) == /\ Kills /\ run[t].pc \notin {"none", "over"}
           /\ Over(t)
           /\ UNCHANGED <<conv, row, log, saved, sweeping, reader>>

-----------------------------------------------------------------------------
(* Others: users, the clock, sweeps and streams.                            *)

\* A run that lives renews its lease.
Tended(t) == run[t].aux

Lapse(t) ==
    /\ row[t].st \in Active /\ row[t].live
    /\ row[t].st = "running" /\ Tended(t) => Stalls
    /\ row' = [row EXCEPT ![t].live = FALSE]
    /\ UNCHANGED <<conv, log, saved, run, sweeping, reader>>

RequestCancel(t) ==
    /\ row[t].st \in Active
    /\ row' = [row EXCEPT ![t].cancel = TRUE]
    /\ UNCHANGED <<conv, log, saved, run, sweeping, reader>>

\* Mutant: only turns that were claimed.
M_Stale_Running(t) == row[t].st = "running" /\ ~row[t].live

Stale(t) == row[t].st \in Active /\ ~row[t].live

SweepRead ==
    /\ sweeping = {}
    /\ sweeping' = {t \in Turns : Stale(t)}
    /\ UNCHANGED <<conv, row, log, saved, run, reader>>

StillStale(t) == Stale(t)

SweepEnd(t) ==
    /\ t \in sweeping
    /\ IF StillStale(t) THEN Finish(t, "interrupted") ELSE UNCHANGED row
    /\ sweeping' = sweeping \ {t}
    /\ UNCHANGED <<conv, log, saved, run, reader>>

\* delete_conversation.  It has asked an active turn to stop, which is a
\* RequestCancel, and waited for it, but not forever.
Delete ==
    /\ conv = "open"
    /\ conv' = "deleted"
    /\ row' = [t \in Turns |-> [st |-> "deleted", live |-> FALSE, cancel |-> FALSE]]
    /\ log' = [t \in Turns |-> <<>>]
    /\ saved' = [t \in Turns |-> 0]
    /\ UNCHANGED <<run, sweeping, reader>>

\* purge_turn_events: long after the turn has ended.
Purge(t) ==
    /\ row[t].st \in Ended /\ run[t] = Idle("over") /\ log[t] # <<>>
    /\ log' = [log EXCEPT ![t] = <<>>]
    /\ UNCHANGED <<conv, row, saved, run, sweeping, reader>>

Read(t, r) == /\ reader' = [reader EXCEPT ![t] = r]
              /\ UNCHANGED <<conv, row, log, saved, run, sweeping>>

\* A stream.  A client that comes back goes on behind the last event it has.
Open(t) ==
    /\ t \in Watched /\ reader[t].pc = "off" /\ row[t].st \notin {"none", "deleted"}
    /\ Read(t, [reader[t] EXCEPT !.pc = "list"])

\* Events it has not sent yet.
List(t) ==
    /\ reader[t].pc = "list"
    /\ LET new == SubSeq(log[t], reader[t].cursor + 1, Len(log[t]))
           ends == {i \in DOMAIN new : IsEnd(new[i])}
       IN  Read(t, IF new = <<>> THEN [reader[t] EXCEPT !.pc = "check"]
                   ELSE IF ends = {} THEN [reader[t] EXCEPT !.cursor = Len(log[t])]
                   ELSE LET i == CHOOSE i \in ends : TRUE
                        IN  [pc |-> "closed", cursor |-> reader[t].cursor + i, told |-> new[i].type])

\* Nothing new: the row tells whether the turn has ended.
Check(t) ==
    /\ reader[t].pc = "check"
    /\ Read(t, IF row[t].st = "deleted" THEN [reader[t] EXCEPT !.pc = "closed"]
               ELSE IF row[t].st \in Ended
               THEN [reader[t] EXCEPT !.pc = "closed", !.told = Outcome(row[t].st)]
               ELSE [reader[t] EXCEPT !.pc = "list"])

-----------------------------------------------------------------------------
RunStep(t) == \/ Claim(t) \/ Undo(t) \/ FlushFull(t) \/ StopTasks(t) \/ FlushLast(t)
              \/ SaveLast(t) \/ EndTurn(t) \/ Tell(t) \/ Return(t)
              \/ Write(t, "main")

BesideStep(t) == \/ Create(t) \/ Emit(t) \/ SaveRound(t) \/ SeeCancel(t) \/ Shutdown(t)
                 \/ LoseLease(t) \/ Flush(t) \/ Persist(t) \/ Write(t, "flusher") \/ EndFails(t)
                 \/ \E w \in run[t].orphans : Commit(t, w)
                 \/ Lapse(t) \/ RequestCancel(t) \/ SweepEnd(t) \/ Purge(t)

StreamStep(t) == Open(t) \/ List(t) \/ Check(t)

\* All that has nothing to do with images.
TurnsStep == \/ \E t \in Turns : RunStep(t) \/ BesideStep(t) \/ StreamStep(t)
             \/ SweepRead

TurnsNext == \/ TurnsStep
             \/ \E t \in Turns : Leave(t) \/ Withdraw(t) \/ Kill(t)
             \/ Delete

TurnsSpec == TurnsInit /\ [][TurnsNext]_turnVars

-----------------------------------------------------------------------------
(* Properties.                                                              *)

Event == [type : {"block"} \cup {Outcome(st) : st \in Ended}, n : Nat]
RunPc == {"none", "claim", "undo", "loop", "stop", "withdraw", "drop", "flush", "save", "finish",
          "tell", "over"}
Writing == [op : {"none", "events", "save"}, evs : Seq(Event), at : Nat, owned : BOOLEAN]
Runner == [pc : RunPc, verdict : Ended, lost : BOOLEAN, aux : BOOLEAN, made : Nat, kept : Nat,
           pend : Seq(Event), next : Nat, io : [Tasks -> Writing], orphans : SUBSET Writing]

\* Every variable holds a value its type allows.
TurnsTypeOK ==
    /\ conv \in {"open", "deleted"}
    /\ row \in [Turns -> [st : Active \cup Ended \cup {"none", "deleted"},
                          live : BOOLEAN, cancel : BOOLEAN]]
    /\ log \in [Turns -> Seq(Event)]
    /\ saved \in [Turns -> Nat]
    /\ run \in [Turns -> Runner]
    /\ sweeping \subseteq Turns
    /\ reader \in [Turns -> [pc : {"off", "list", "check", "closed"}, cursor : Nat,
                             told : {"none"} \cup {Outcome(st) : st \in Ended}]]

\* The events of a turn are in the order in which its run made them, each at
\* most once, and nothing follows the end: although a run goes on after writes
\* that may still commit, and writes once more without being asked who it is.
LogInOrder ==
    \A t \in Turns : \A i, k \in DOMAIN log[t] :
        i < k => ~IsEnd(log[t][i]) /\ (IsEnd(log[t][k]) \/ log[t][i].n < log[t][k].n)

\* Whatever ended a turn first, its run, a sweep or a cancellation, what the log
\* and a stream tell of its end is what the row says.
EndsAgree ==
    \A t \in Turns : row[t].st \in Ended =>
        /\ \A i \in DOMAIN log[t] : IsEnd(log[t][i]) => log[t][i] = End(row[t].st)
        /\ reader[t].told \in {"none", Outcome(row[t].st)}

=============================================================================
