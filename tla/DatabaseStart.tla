---------------------------- MODULE DatabaseStart ----------------------------
(***************************************************************************)
(* How worker processes bring the database up to date when they start      *)
(* (repositories/db/schema.py, migrations.py), all of them at once and on  *)
(* one file: the base script, the pending migrations, the full-text index. *)
(*                                                                         *)
(* Python's sqlite3 decides what is a transaction here.  A statement that  *)
(* changes the schema commits by itself unless a transaction is open;      *)
(* INSERT and UPDATE open one, which takes the write lock and keeps it     *)
(* until the commit; executescript commits first what is open.  Nothing    *)
(* else keeps processes apart.                                             *)
(*                                                                         *)
(* A migration is a sequence of steps, given by StepsOf (DatabaseSchema):  *)
(*   look    reads which columns there are                                 *)
(*   alter   adds a column, which fails if the column is there             *)
(*   create  makes something that is not there (IF NOT EXISTS)             *)
(*   fill    an INSERT or UPDATE                                           *)
(* A step with a guard is left out if the look before saw that column.     *)
(***************************************************************************)
EXTENDS Naturals, Sequences

CONSTANTS
    Starters,       \* worker processes
    NoStarter,      \* none of them
    Last,           \* the version of the last migration
    StepsOf,        \* the steps of each migration
    NewColumns,     \* the columns that the base script gives a new file
    Always,         \* the tables and indexes that it makes sure of in any file
    StartedAt,      \* the versions a file may have reached
    MaxBreaks       \* bound: processes that die, waits that last too long

Versions == 1 .. Last

StepKinds == {"look", "alter", "create", "fill"}

StepsIn(v) == {StepsOf[v][k] : k \in DOMAIN StepsOf[v]}
PartsOf == [v \in Versions |-> {s.part : s \in {s \in StepsIn(v) : s.kind # "look"}}]
Items == NewColumns \cup Always \cup UNION {PartsOf[v] : v \in Versions}

ASSUME StartAssumption ==
    /\ Last \in Nat \ {0} /\ MaxBreaks \in Nat
    /\ NoStarter \notin Starters
    /\ DOMAIN StepsOf = Versions
    /\ \A v \in Versions :
         /\ DOMAIN StepsOf[v] = 1 .. Len(StepsOf[v]) /\ Len(StepsOf[v]) \in Nat
         /\ \A s \in StepsIn(v) : s.kind \in StepKinds
    /\ PartsOf[1] = {}         \* what is older than migrations
    /\ Always # {}
    /\ StartedAt \subseteq 0 .. Last

VARIABLES
    disk,       \* the file as it is committed
    draft,      \* the file as the holder of the write lock sees it
    holder,     \* whose transaction is open
    boot,       \* where each process is
    breaks,     \* how many bounded events have happened
    before,     \* the version that the file had reached at first
    torn,       \* history: parts found missing while their column was there
    orphaned    \* history: an index was left empty under a valid key (Orphans)

startVars == <<disk, draft, holder, boot, breaks, before, torn, orphaned>>

\* A file of version n.
Reached == [n \in 0 .. Last |->
    (NewColumns \ UNION {PartsOf[v] : v \in n + 1 .. Last})
        \cup Always \cup UNION {PartsOf[v] : v \in 1 .. n}]

NoSearch == [table |-> FALSE, triggers |-> FALSE, whole |-> FALSE, key |-> FALSE]
Searches == {NoSearch} \cup [table : {TRUE}, triggers : {TRUE}, whole : {TRUE}, key : BOOLEAN]

Blank == [items |-> {}, recorded |-> {}, search |-> NoSearch]

\* Step k of migration v is next, all in known are applied.
Booting(pc, v, k, known) ==
    [pc |-> pc, v |-> v, k |-> k, seen |-> {}, known |-> known, rebuild |-> FALSE]
Down == Booting("down", 0, 0, {})

\* A new file, or one of a service that was stopped.  Files older than the
\* table of versions have none recorded.
StartInit ==
    /\ \/ disk = Blank /\ before = 0
       \/ \E n \in StartedAt, s \in Searches :
             disk = [items |-> Reached[n], recorded |-> 1 .. n, search |-> s] /\ before = n
    /\ draft = Blank /\ holder = NoStarter
    /\ boot = [p \in Starters |-> Down]
    /\ breaks = 0 /\ torn = {} /\ orphaned = FALSE

-----------------------------------------------------------------------------
(* Statements                                                              *)

Sees(p) == IF holder = p THEN draft ELSE disk

\* DDL: part of the open transaction, or committed at once; nothing to write if
\* it is so already (IF EXISTS, IF NOT EXISTS).
Put(p, d) ==
    IF d = Sees(p) THEN UNCHANGED <<disk, draft, holder>>
    ELSE IF holder = p THEN draft' = d /\ UNCHANGED <<disk, holder>>
    ELSE holder = NoStarter /\ disk' = d /\ UNCHANGED <<draft, holder>>

\* INSERT and UPDATE: opens a transaction.
Enter(p, d) ==
    /\ holder \in {NoStarter, p}
    /\ holder' = p /\ draft' = d
    /\ UNCHANGED disk

Commit(p) ==
    IF holder = p THEN disk' = draft /\ draft' = Blank /\ holder' = NoStarter
                  ELSE UNCHANGED <<disk, draft, holder>>

Rollback(p) ==
    IF holder = p THEN draft' = Blank /\ holder' = NoStarter /\ UNCHANGED disk
                  ELSE UNCHANGED <<disk, draft, holder>>

Stands(p, pc) == boot[p].pc = pc
GoOn(p, pc) == boot' = [boot EXCEPT ![p].pc = pc]

-----------------------------------------------------------------------------
(* Migrations                                                              *)

\* The next migration that is not known as applied, or the index.
Pending(known) == Versions \ known
NextUp(known) ==
    IF Pending(known) = {} THEN Booting("search", 0, 0, known)
    ELSE Booting("run", CHOOSE v \in Pending(known) : \A u \in Pending(known) : v <= u, 1, known)

\* _SCHEMA_DDL: each statement commits, and all of them may be repeated.  One
\* index is dropped and made again every time.
BaseScript(p) ==
    /\ Stands(p, "script")
    /\ holder = NoStarter
    /\ disk' = [disk EXCEPT !.items = @ \cup Always \cup IF @ = {} THEN NewColumns ELSE {}]
    /\ GoOn(p, "versions")
    /\ UNCHANGED <<draft, holder, breaks, before, torn, orphaned>>

ReadVersions(p) ==
    /\ Stands(p, "versions")
    /\ IF disk.recorded = {} THEN GoOn(p, "baseline")
       ELSE boot' = [boot EXCEPT ![p] = NextUp(disk.recorded)]
    /\ UNCHANGED <<disk, draft, holder, breaks, before, torn, orphaned>>

\* INSERT OR IGNORE.
Baseline(p) ==
    /\ Stands(p, "baseline")
    /\ Enter(p, [Sees(p) EXCEPT !.recorded = @ \cup {1}])
    /\ boot' = [boot EXCEPT ![p] = NextUp({1})]
    /\ UNCHANGED <<breaks, before, torn, orphaned>>

Running(p) == Stands(p, "run") /\ boot[p].k <= Len(StepsOf[boot[p].v])
StepAt(p) == StepsOf[boot[p].v][boot[p].k]
LeftOut(p) == StepAt(p).guard \in boot[p].seen
StepOn(p) == boot' = [boot EXCEPT ![p].k = @ + 1]
Does(p, kind) == Running(p) /\ StepAt(p).kind = kind /\ (kind # "look" => ~LeftOut(p))
WithPart(p) == [Sees(p) EXCEPT !.items = @ \cup {StepAt(p).part}]

\* The columns there are, among them some whose migration was cut off.
LookUp(p) ==
    /\ Does(p, "look")
    /\ boot' = [boot EXCEPT ![p].seen = Sees(p).items, ![p].k = @ + 1]
    /\ torn' = torn \cup {s.part : s \in {s \in StepsIn(boot[p].v) :
                   s.kind # "look" /\ s.guard \in Sees(p).items /\ s.part \notin Sees(p).items}}
    /\ UNCHANGED <<disk, draft, holder, breaks, before, orphaned>>

Skip(p) ==
    /\ Running(p) /\ StepAt(p).kind # "look" /\ LeftOut(p)
    /\ StepOn(p)
    /\ UNCHANGED <<disk, draft, holder, breaks, before, torn, orphaned>>

Alter(p) ==
    /\ Does(p, "alter") /\ StepAt(p).part \notin Sees(p).items
    /\ Put(p, WithPart(p)) /\ StepOn(p)
    /\ UNCHANGED <<breaks, before, torn, orphaned>>

Create(p) ==
    /\ Does(p, "create")
    /\ Put(p, WithPart(p)) /\ StepOn(p)
    /\ UNCHANGED <<breaks, before, torn, orphaned>>

Fill(p) ==
    /\ Does(p, "fill")
    /\ Enter(p, WithPart(p)) /\ StepOn(p)
    /\ UNCHANGED <<breaks, before, torn, orphaned>>

\* All steps are done.
Done(p) == Stands(p, "run") /\ boot[p].k > Len(StepsOf[boot[p].v])

\* Mutant: a connection that commits every statement.
M_Record_Autocommit(p) ==
    /\ Done(p) /\ boot[p].v \notin Sees(p).recorded
    /\ Put(p, [Sees(p) EXCEPT !.recorded = @ \cup {boot[p].v}])
    /\ boot' = [boot EXCEPT ![p] = NextUp(@.known \cup {@.v})]
    /\ UNCHANGED <<breaks, before, torn, orphaned>>

Record(p) ==
    /\ Done(p) /\ boot[p].v \notin Sees(p).recorded
    /\ Enter(p, [Sees(p) EXCEPT !.recorded = @ \cup {boot[p].v}])
    /\ boot' = [boot EXCEPT ![p] = NextUp(@.known \cup {@.v})]
    /\ UNCHANGED <<breaks, before, torn, orphaned>>

\* Another process was faster: duplicate column name, UNIQUE constraint failed.
Collides(p) ==
    \/ Does(p, "alter") /\ StepAt(p).part \in Sees(p).items
    \/ Done(p) /\ holder \in {NoStarter, p} /\ boot[p].v \in Sees(p).recorded

\* Mutant: the connection of a failed start stays open.
M_FailStart_NoRollback(p) ==
    /\ Collides(p)
    /\ boot' = [boot EXCEPT ![p] = Down]
    /\ UNCHANGED <<disk, draft, holder, breaks, before, torn, orphaned>>

FailStart(p) ==
    /\ Collides(p)
    /\ Rollback(p)
    /\ boot' = [boot EXCEPT ![p] = Down]
    /\ UNCHANGED <<breaks, before, torn, orphaned>>

-----------------------------------------------------------------------------
(* The full-text index                                                     *)

WithSearch(p, s) == [Sees(p) EXCEPT !.search = s]

\* Mutant: only the version is compared.
M_CheckSearch_KeyOnly(p) ==
    /\ Stands(p, "search")
    /\ LET again == ~Sees(p).search.key
       IN  boot' = [boot EXCEPT ![p].rebuild = again,
                                ![p].pc = IF again THEN "settle" ELSE "table"]
    /\ UNCHANGED <<disk, draft, holder, breaks, before, torn, orphaned>>

CheckSearch(p) ==
    /\ Stands(p, "search")
    /\ LET s == Sees(p).search
           again == ~s.table \/ ~s.key
       IN  boot' = [boot EXCEPT ![p].rebuild = again,
                                ![p].pc = IF again THEN "settle" ELSE "table"]
    /\ UNCHANGED <<disk, draft, holder, breaks, before, torn, orphaned>>

\* executescript commits what is open, the migrations among it.
Settle(p) ==
    /\ Stands(p, "settle") \/ Stands(p, "publish")
    /\ Commit(p)
    /\ GoOn(p, IF Stands(p, "settle") THEN "untrigger" ELSE "triggers")
    /\ UNCHANGED <<breaks, before, torn, orphaned>>

DropTriggers(p) ==
    /\ Stands(p, "untrigger")
    /\ Put(p, WithSearch(p, [Sees(p).search EXCEPT !.triggers = FALSE]))
    /\ GoOn(p, "drop")
    /\ UNCHANGED <<breaks, before, torn, orphaned>>

DropTable(p) ==
    /\ Stands(p, "drop")
    /\ Put(p, WithSearch(p, [Sees(p).search EXCEPT !.table = FALSE, !.whole = FALSE]))
    /\ GoOn(p, "table")
    /\ UNCHANGED <<breaks, before, torn, orphaned>>

CreateTable(p) ==
    /\ Stands(p, "table")
    /\ Put(p, WithSearch(p, [Sees(p).search EXCEPT !.table = TRUE]))
    /\ GoOn(p, "publish")
    /\ UNCHANGED <<breaks, before, torn, orphaned>>

CreateTriggers(p) ==
    /\ Stands(p, "triggers")
    /\ Put(p, WithSearch(p, [Sees(p).search EXCEPT !.triggers = TRUE]))
    /\ GoOn(p, IF boot[p].rebuild THEN "rebuild" ELSE "commit")
    /\ UNCHANGED <<breaks, before, torn, orphaned>>

\* The index is filled from the rows, and its version noted.
Rebuild(p) ==
    /\ Stands(p, "rebuild") /\ Sees(p).search.table
    /\ Enter(p, WithSearch(p, [Sees(p).search EXCEPT !.whole = TRUE, !.key = TRUE]))
    /\ GoOn(p, "commit")
    /\ UNCHANGED <<breaks, before, torn, orphaned>>

\* conn.commit(): the process serves.
Serve(p) ==
    /\ Stands(p, "commit")
    /\ Commit(p)
    /\ boot' = [boot EXCEPT ![p] = Booting("ready", 0, 0, {})]
    /\ UNCHANGED <<breaks, before, torn, orphaned>>

\* p has dropped the index, or is about to, and not yet filled it again.
Rebuilding(p) ==
    /\ boot[p].rebuild
    /\ \/ boot[p].pc \in {"drop", "table", "publish", "triggers", "rebuild"}
       \/ Stands(p, "commit") /\ holder = p

\* p has seen that there is an index and will only make sure that it is there.
Trusting(p) == Stands(p, "table") /\ ~boot[p].rebuild

\* p leaves an index behind that nobody will fill: its version is noted, or will
\* be by another process that rebuilds it at the same time.
Orphans(p) ==
    /\ Rebuilding(p)
    /\ \/ disk.search.key /\ (disk.search.table \/ \E q \in Starters : Trusting(q))
       \/ \E q \in Starters \ {p} : Rebuilding(q)

\* OperationalError: the service does without the index.
GiveUpSearch(p) ==
    /\ boot' = [boot EXCEPT ![p].pc = "commit", ![p].rebuild = FALSE]
    /\ orphaned' = (orphaned \/ Orphans(p))

\* Another process has dropped the table.
NoTable(p) ==
    /\ Stands(p, "rebuild") /\ ~Sees(p).search.table
    /\ GiveUpSearch(p)
    /\ UNCHANGED <<disk, draft, holder, breaks, before, torn>>

\* A process that serves adds an image; a trigger adds it to the index.
AddImage(p) ==
    /\ Stands(p, "ready") /\ holder = NoStarter
    /\ disk.search.triggers => disk.search.table
    /\ disk' = [disk EXCEPT !.search.whole = @ /\ disk.search.triggers]
    /\ UNCHANGED <<draft, holder, boot, breaks, before, torn, orphaned>>

-----------------------------------------------------------------------------
(* Breaks                                                                  *)

Break == breaks < MaxBreaks /\ breaks' = breaks + 1

\* A process dies; SQLite rolls back.
Die(p) ==
    /\ ~Stands(p, "down") /\ Break
    /\ Rollback(p)
    /\ boot' = [boot EXCEPT ![p] = Down]
    /\ orphaned' = (orphaned \/ Orphans(p))
    /\ UNCHANGED <<before, torn>>

Writes(p) ==
    \/ boot[p].pc \in {"script", "baseline"}
    \/ (Does(p, "alter") \/ Does(p, "create")) /\ StepAt(p).part \notin Sees(p).items
    \/ Does(p, "fill") \/ Done(p)
    \/ Stands(p, "untrigger") /\ Sees(p).search.triggers
    \/ Stands(p, "drop") /\ Sees(p).search.table
    \/ Stands(p, "table") /\ ~Sees(p).search.table
    \/ Stands(p, "triggers") /\ ~Sees(p).search.triggers
    \/ Stands(p, "rebuild") /\ Sees(p).search.table

\* The busy timeout of 30 seconds passes: "database is locked".
WaitsTooLong(p) ==
    /\ holder \notin {NoStarter, p} /\ Writes(p) /\ Break
    /\ IF boot[p].pc \in {"untrigger", "drop", "table", "triggers", "rebuild"}
       THEN GiveUpSearch(p)
       ELSE boot' = [boot EXCEPT ![p] = Down] /\ UNCHANGED orphaned
    /\ UNCHANGED <<disk, draft, holder, before, torn>>

\* restart: unless-stopped
Restart(p) ==
    /\ Stands(p, "down")
    /\ GoOn(p, "script")
    /\ UNCHANGED <<disk, draft, holder, breaks, before, torn, orphaned>>

-----------------------------------------------------------------------------

MigrationSteps(p) ==
    \/ BaseScript(p) \/ ReadVersions(p) \/ Baseline(p)
    \/ LookUp(p) \/ Skip(p) \/ Alter(p) \/ Create(p) \/ Fill(p) \/ Record(p) \/ FailStart(p)

SearchSteps(p) ==
    \/ CheckSearch(p) \/ Settle(p) \/ DropTriggers(p) \/ DropTable(p) \/ CreateTable(p)
    \/ CreateTriggers(p) \/ Rebuild(p) \/ NoTable(p) \/ Serve(p)

StartNext ==
    \E p \in Starters :
        \/ Restart(p) \/ MigrationSteps(p) \/ SearchSteps(p)
        \/ AddImage(p) \/ Die(p) \/ WaitsTooLong(p)

StartSpec == StartInit /\ [][StartNext]_startVars

\* Processes go on, and those that failed are started again.
StartFairSpec ==
    /\ StartSpec
    /\ \A p \in Starters : WF_startVars(Restart(p) \/ MigrationSteps(p) \/ SearchSteps(p))

-----------------------------------------------------------------------------
(* Properties                                                              *)

SearchOf == [table : BOOLEAN, triggers : BOOLEAN, whole : BOOLEAN, key : BOOLEAN]
FileOf == [items : SUBSET Items, recorded : SUBSET Versions, search : SearchOf]

StartPcs == {"down", "script", "versions", "baseline", "run", "search", "settle", "untrigger",
             "drop", "table", "publish", "triggers", "rebuild", "commit", "ready"}

\* The types of the file and of the processes (schema.py, migrations.py).
StartTypeOK ==
    /\ disk \in FileOf /\ draft \in FileOf
    /\ holder \in Starters \cup {NoStarter}
    /\ boot \in [Starters -> [pc : StartPcs, v : 0 .. Last, k : Nat, seen : SUBSET Items,
                              known : SUBSET Versions, rebuild : BOOLEAN]]
    /\ breaks \in Nat /\ before \in 0 .. Last /\ torn \subseteq Items /\ orphaned \in BOOLEAN

\* An upgrade is all or nothing, although a part of it commits statement by
\* statement and processes run it side by side, fail and die: the file records
\* the version it had or the last one, and has nothing from behind the first
\* pending migration unless it has the last.  A migration that is recorded has
\* all its parts but those that a start found missing beside their column, and a
\* process that serves has all migrations behind it (migrations.py:280-312).
UpgradeAllOrNothing ==
    /\ \/ disk.recorded = Versions
       \/ /\ disk.recorded = 1 .. before
          /\ disk.items \subseteq Reached[before]
                 \cup IF before = 0 THEN NewColumns ELSE PartsOf[before + 1]
    /\ \A v \in disk.recorded : PartsOf[v] \subseteq disk.items \cup torn
    /\ \A p \in Starters : Stands(p, "ready") => disk.recorded = Versions

\* A search does not miss images: an index whose version is noted is whole,
\* or a process is at work that will fill it, however many rebuild it at a time
\* and wherever they stop (migrations.py:47-101).
SearchWhole ==
    disk.search.key /\ disk.search.table /\ ~disk.search.whole =>
        orphaned \/ \E p \in Starters : Rebuilding(p)

\* A migration that is recorded has all its parts
\* (tests/test_storage_migrations_contract.py:839-852).
RecordedIsWhole == \A v \in disk.recorded : PartsOf[v] \subseteq disk.items

\* In the end every process serves: one that failed because another was faster
\* is started again and finds the work done (migrations.py:290-312).
AllServe == <>[](\A p \in Starters : Stands(p, "ready"))

=============================================================================
