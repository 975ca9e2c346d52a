----------------------------- MODULE ApiSettings -----------------------------
(***************************************************************************)
(* The settings of the API (services/presets.py, preset_package.py,        *)
(* api/routers/settings.py, settings_presets.py over repositories/         *)
(* settings.py and db/settings_store.py): presets, the active one, proxy   *)
(* and webhook, and the sections beside them.                              *)
(*                                                                         *)
(* Every process works with a copy in memory, which any request and any    *)
(* image unit may load again.  A request that changes settings loads them, *)
(* changes the copy, and saves the whole copy: all presets are deleted and *)
(* inserted anew, together with the sections, which the save reads first   *)
(* (sections stands for one of them, as the set of changes made to it).    *)
(* A flag and a generation keep loads from undoing a change that is being  *)
(* saved by the same process.  Database calls run in threads, and so do    *)
(* those who only look at the presets: to normalize them they replace the  *)
(* copy by one of their own.                                               *)
(***************************************************************************)
EXTENDS Naturals, FiniteSets

CONSTANTS
    Processes,      \* the worker processes
    Changes,        \* requests that change settings; each makes one value
    Loads,          \* everything else that loads settings, again and again
    PlaceOf,        \* the process of each of them
    AskedOf,        \* what each change may be, and of which preset
    PresetIds,      \* ids of presets
    Default,        \* the preset that is there at first
    Missing,        \* the value of a preset that does not exist
    Original,       \* the values before any change
    MaxFaults       \* bound: saves that fail, requests given up

Requesters == Changes \cup Loads

Kinds == {"update", "create", "activate", "delete", "order", "import"}

ASSUME SettingsAssumption ==
    /\ PlaceOf \in [Requesters -> Processes]
    /\ AskedOf \in [Changes -> SUBSET (Kinds \X PresetIds)]
    /\ Changes \cap Loads = {}
    /\ Default \in PresetIds
    /\ Missing # Original /\ {Missing, Original} \cap Changes = {}
    /\ MaxFaults \in Nat

VARIABLES
    stored,     \* the tables: [rows, sections]
    memory,     \* runtime.state of each process: presets, misc, active
    writing,    \* api_settings_write_pending, api_settings_write_generation
    req,        \* requests and loads
    faults,     \* how many bounded events have happened
    excused     \* history: two changes were under way at a time, or a load
                \* or a reader could not know of a change (see Overlap,
                \* Unseen, Torn, Behind)

settingsVars == <<stored, memory, writing, req, faults, excused>>

Exists(s, i) == s.preset[i] # Missing
Existing(s) == {i \in PresetIds : Exists(s, i)}

\* load_settings has stored the defaults, every process has loaded them.
DefaultRows == [preset |-> [i \in PresetIds |-> IF i = Default THEN Original ELSE Missing],
                misc |-> Original, active |-> Default]

Idle == [pc |-> "idle", gen |-> 0, rows |-> DefaultRows, held |-> DefaultRows, what |-> "none",
         id |-> Default, sections |-> {}, orphan |-> FALSE]

SettingsInit ==
    /\ stored = [rows |-> DefaultRows, sections |-> {}]
    /\ memory = [w \in Processes |-> DefaultRows]
    /\ writing = [w \in Processes |-> [pending |-> FALSE, gen |-> 0]]
    /\ req = [t \in Requesters |-> Idle]
    /\ faults = 0 /\ excused = FALSE

InThread == {"order", "import"}     \* run_db_operation(reorder_api_presets, ...)
UnderWay(t) == t \in Changes /\ req[t].pc \notin {"idle", "done"}
Unsaved(t) == req[t].pc \in {"persist", "sections", "saving"}
Saving(t) == Unsaved(t) \/ req[t].pc \in {"saved", "failed"}
At(t, pc) == req[t].pc = pc

\* A request goes on, with what it still needs.
Kept(r, pc) ==
    CASE pc \in {"idle", "section", "done"}      -> [Idle EXCEPT !.pc = pc]
      [] pc \in {"loaded", "saved", "failed"}    ->
            [r EXCEPT !.pc = pc, !.gen = 0, !.rows = DefaultRows, !.sections = {}]
      [] OTHER                                   -> [r EXCEPT !.pc = pc]
GoTo(t, pc) == req' = [req EXCEPT ![t] = Kept(@, pc)]
MayFail == faults < MaxFaults /\ faults' = faults + 1

-----------------------------------------------------------------------------
(* What a change makes of the settings s.                                  *)

\* The edited preset becomes the active one; proxy and webhook may change.
Updated(s, i, v) ==
    {[s EXCEPT !.preset[i] = v, !.active = i, !.misc = m] :
        m \in IF Exists(s, i) THEN {s.misc, v} ELSE {}}

Created(s, i, v) ==
    {r \in {[s EXCEPT !.preset[i] = v, !.active = i]} : ~Exists(s, i)}

Activated(s, i) == {r \in {[s EXCEPT !.active = i]} : Exists(s, i)}

\* The last preset stays.  A deleted active one is followed by a neighbour.
Deleted(s, i) ==
    LET left == Existing(s) \ {i}
    IN  {[s EXCEPT !.preset[i] = Missing, !.active = a] :
            a \in IF ~Exists(s, i) THEN {}
                  ELSE IF s.active \in left THEN {s.active} ELSE left}

\* The order is part of misc.
Ordered(s, v) == {[s EXCEPT !.misc = v]}

\* A preset of the package is merged into one that exists, or added.
Imported(s, i, v) == {[s EXCEPT !.preset[i] = v]}

Results(t, s) ==
    CASE req[t].what = "update"   -> Updated(s, req[t].id, t)
      [] req[t].what = "create"   -> Created(s, req[t].id, t)
      [] req[t].what = "activate" -> Activated(s, req[t].id)
      [] req[t].what = "delete"   -> Deleted(s, req[t].id)
      [] req[t].what = "order"    -> Ordered(s, t)
      [] req[t].what = "import"   -> Imported(s, req[t].id, t)
      [] OTHER                    -> {}

\* Mutant: what is saved is what the process had in mind.
M_Normalized_AsIs(s) == {s}

\* _normalize_settings: the active preset is one that exists.
Normalized(s) ==
    IF Existing(s) = {}
    THEN {[DefaultRows EXCEPT !.misc = s.misc]}
    ELSE {[s EXCEPT !.active = a] :
            a \in IF Exists(s, s.active) THEN {s.active} ELSE Existing(s)}

-----------------------------------------------------------------------------
(* Loading: a request that changes settings does it first.                 *)

Loaded(t) == IF t \in Changes THEN "loaded" ELSE "idle"

\* Two changes are under way.
Overlap(t) == \E u \in Changes \ {t} : UnderWay(u)

\* A request that changes settings arrives.
Begin(t, what, i) ==
    /\ t \in Changes /\ At(t, "idle")
    /\ req' = [req EXCEPT ![t] = [@ EXCEPT !.pc = "begun", !.what = what, !.id = i]]
    /\ excused' = (excused \/ Overlap(t))
    /\ UNCHANGED <<stored, memory, writing, faults>>

\* load_api_settings: nothing to do while a change is being saved.
LoadStart(t) ==
    /\ At(t, IF t \in Changes THEN "begun" ELSE "idle")
    /\ LET w == writing[PlaceOf[t]]
       IN  req' = [req EXCEPT ![t] = IF w.pending THEN Kept(@, Loaded(t))
                                     ELSE [@ EXCEPT !.pc = "reading", !.gen = w.gen]]
    /\ UNCHANGED <<stored, memory, writing, faults, excused>>

LoadRows(t) ==
    /\ At(t, "reading")
    /\ req' = [req EXCEPT ![t] = [@ EXCEPT !.pc = "read", !.rows = stored.rows]]
    /\ UNCHANGED <<stored, memory, writing, faults, excused>>

\* Mutant: only the flag is looked at again.
M_Fresh_NoGeneration(t) == ~writing[PlaceOf[t]].pending

Fresh(t) == LET w == writing[PlaceOf[t]] IN ~w.pending /\ w.gen = req[t].gen

LoadCheck(t) ==
    /\ At(t, "read")
    /\ GoTo(t, IF Fresh(t) THEN "checked" ELSE Loaded(t))
    /\ UNCHANGED <<stored, memory, writing, faults, excused>>

\* Somebody is about to put back presets that are replaced meanwhile.
Behind(w) == \E l \in Requesters : PlaceOf[l] = w /\ At(l, "looked")

\* A thread of its own: another may run between the check and this.
LoadApply(t) ==
    /\ At(t, "checked")
    /\ memory' = [memory EXCEPT ![PlaceOf[t]] = req[t].rows]
    /\ GoTo(t, Loaded(t))
    /\ excused' = (excused \/ (memory' # memory /\ Behind(PlaceOf[t])))
    /\ UNCHANGED <<stored, writing, faults>>

\* get_api_presets, of whoever looks at the presets: it normalizes them ...
Look(t) ==
    /\ t \in Loads /\ At(t, "idle")
    /\ req' = [req EXCEPT ![t] = [@ EXCEPT !.pc = "looked", !.rows = memory[PlaceOf[t]]]]
    /\ UNCHANGED <<stored, memory, writing, faults, excused>>

\* ... and puts them back.
PutBack(t) ==
    /\ At(t, "looked")
    /\ memory' = [memory EXCEPT ![PlaceOf[t]].preset = req[t].rows.preset]
    /\ GoTo(t, "idle")
    /\ UNCHANGED <<stored, writing, faults, excused>>

-----------------------------------------------------------------------------
(* Changing                                                                *)

\* 404, 400, 422 before anything is changed.
Refuse(t) ==
    /\ At(t, "loaded") \/ At(t, "held")
    /\ GoTo(t, "done")
    /\ UNCHANGED <<stored, memory, writing, faults, excused>>

\* A reordering or an import works out its list in a thread.
Hold(t) ==
    /\ At(t, "loaded") /\ req[t].what \in InThread
    /\ req' = [req EXCEPT ![t] = [@ EXCEPT !.pc = "held", !.held = memory[PlaceOf[t]]]]
    /\ UNCHANGED <<stored, memory, writing, faults, excused>>

\* A load that has made its check does not know of this change.
Torn(w) == Behind(w) \/ \E l \in Requesters : PlaceOf[l] = w /\ At(l, "checked")

\* begin_api_settings_write, and the settings m in memory.  An import keeps
\* the presets of before.
Apply(t, m, pc) ==
    LET w == PlaceOf[t]
        before == IF req[t].what = "import" THEN memory[w] ELSE DefaultRows
    IN
    /\ memory' = [memory EXCEPT ![w] = m]
    /\ writing' = [writing EXCEPT ![w] = [pending |-> pc = "persist", gen |-> @.gen + 1]]
    /\ req' = [req EXCEPT ![t] = [Kept(@, pc) EXCEPT !.held = before]]
    /\ excused' = (excused \/ Torn(w))
    /\ UNCHANGED <<stored, faults>>

Change(t) ==
    /\ At(t, "loaded") /\ req[t].what \notin InThread
    /\ \E m \in Results(t, memory[PlaceOf[t]]) : Apply(t, m, "persist")

\* The list of before replaces the one that is there by now.
ChangeHeld(t) ==
    /\ At(t, "held")
    /\ \E m \in Results(t, req[t].held) :
           Apply(t, [m EXCEPT !.active = memory[PlaceOf[t]].active], "persist")

\* The preset is changed in memory, then found to be invalid (422).
ChangeInvalid(t) ==
    /\ At(t, "loaded") /\ req[t].what = "update"
    /\ \E m \in Results(t, memory[PlaceOf[t]]) :
           Apply(t, [m EXCEPT !.active = memory[PlaceOf[t]].active], "done")

-----------------------------------------------------------------------------
(* Saving: persist_api_settings in a thread                                *)

Snapshot(t) ==
    /\ At(t, "persist")
    /\ req' = [req EXCEPT ![t] = [@ EXCEPT !.pc = "sections", !.rows = memory[PlaceOf[t]]]]
    /\ UNCHANGED <<stored, memory, writing, faults, excused>>

ReadSections(t) ==
    /\ At(t, "sections")
    /\ req' = [req EXCEPT ![t] = [@ EXCEPT !.pc = "saving", !.sections = stored.sections]]
    /\ UNCHANGED <<stored, memory, writing, faults, excused>>

\* A load holds rows that this replaces, and no generation tells it so.
Unseen(t) == \E l \in Requesters \ {t} :
                /\ req[l].pc \in {"read", "checked"}
                /\ PlaceOf[l] # PlaceOf[t] \/ req[t].orphan

Replace(t) ==
    /\ At(t, "saving")
    /\ \E r \in Normalized(req[t].rows) :
           stored' = [rows |-> r, sections |-> req[t].sections]
    /\ GoTo(t, "saved")
    /\ excused' = (excused \/ Unseen(t))
    /\ UNCHANGED <<memory, writing, faults>>

\* The database stays locked.
SaveFails(t) ==
    /\ req[t].pc \in {"sections", "saving"} /\ MayFail
    /\ GoTo(t, "failed")
    /\ UNCHANGED <<stored, memory, writing, excused>>

\* The request is cancelled; its thread goes on.
GiveUpRequest(t) ==
    /\ Saving(t)
    /\ req[t].what \notin InThread /\ ~req[t].orphan /\ MayFail
    /\ req' = [req EXCEPT ![t].orphan = TRUE]
    /\ writing' = [writing EXCEPT ![PlaceOf[t]].pending = FALSE]
    /\ UNCHANGED <<stored, memory, excused>>

\* An import that was not saved puts the presets of before back.
RolledBack(t) ==
    LET w == PlaceOf[t] IN
    IF At(t, "failed") /\ req[t].what = "import"
    THEN [memory EXCEPT ![w].preset = req[t].held.preset,
                        ![w].active = IF Exists(req[t].held, req[t].held.active)
                                      THEN req[t].held.active ELSE @]
    ELSE memory

\* Mutant: the flag is cleared after a successful save only.
M_End_NoFinally(t) ==
    /\ At(t, "saved") \/ At(t, "failed")
    /\ memory' = RolledBack(t)
    /\ writing' = IF req[t].orphan \/ At(t, "failed") THEN writing
                  ELSE [writing EXCEPT ![PlaceOf[t]].pending = FALSE]
    /\ GoTo(t, IF At(t, "saved") /\ req[t].what = "update" /\ ~req[t].orphan
               THEN "section" ELSE "done")
    /\ excused' = (excused \/ (memory' # memory /\ Behind(PlaceOf[t])))
    /\ UNCHANGED <<stored, faults>>

\* end_api_settings_write
End(t) ==
    /\ At(t, "saved") \/ At(t, "failed")
    /\ memory' = RolledBack(t)
    /\ writing' = IF req[t].orphan THEN writing
                  ELSE [writing EXCEPT ![PlaceOf[t]].pending = FALSE]
    /\ GoTo(t, IF At(t, "saved") /\ req[t].what = "update" /\ ~req[t].orphan
               THEN "section" ELSE "done")
    /\ excused' = (excused \/ (memory' # memory /\ Behind(PlaceOf[t])))
    /\ UNCHANGED <<stored, faults>>

\* The sections that an update brings: each is read, completed and stored.
NoSection(t) ==
    /\ At(t, "section")
    /\ GoTo(t, "done")
    /\ UNCHANGED <<stored, memory, writing, faults, excused>>

MergeSection(t) ==
    /\ At(t, "section")
    /\ req' = [req EXCEPT ![t] = [@ EXCEPT !.pc = "merged", !.sections = stored.sections \cup {t}]]
    /\ UNCHANGED <<stored, memory, writing, faults, excused>>

StoreSection(t) ==
    /\ At(t, "merged")
    /\ stored' = [stored EXCEPT !.sections = req[t].sections]
    /\ GoTo(t, "done")
    /\ UNCHANGED <<memory, writing, faults, excused>>

-----------------------------------------------------------------------------

LoadSteps(t) ==
    LoadStart(t) \/ LoadRows(t) \/ LoadCheck(t) \/ LoadApply(t) \/ PutBack(t)

ChangeSteps(t) ==
    \/ Refuse(t) \/ Hold(t) \/ Change(t) \/ ChangeHeld(t) \/ ChangeInvalid(t)
    \/ Snapshot(t) \/ ReadSections(t) \/ Replace(t) \/ End(t)
    \/ NoSection(t) \/ MergeSection(t) \/ StoreSection(t)

Disturb(t) == SaveFails(t) \/ GiveUpRequest(t)

SettingsNext ==
    \/ \E t \in Changes : \E asked \in AskedOf[t] : Begin(t, asked[1], asked[2])
    \/ \E t \in Requesters : LoadSteps(t) \/ Look(t)
    \/ \E t \in Changes : ChangeSteps(t) \/ Disturb(t)

SettingsSpec == SettingsInit /\ [][SettingsNext]_settingsVars

\* Requests that arrived go on, and every process loads settings again and
\* again: each unit of an image job does (get_preset_for_unit).
SettingsFairSpec ==
    /\ SettingsSpec
    /\ \A t \in Requesters : WF_settingsVars(LoadSteps(t))
    /\ \A t \in Loads : SF_settingsVars(LoadStart(t))
    /\ \A t \in Changes : WF_settingsVars(ChangeSteps(t))

-----------------------------------------------------------------------------
(* Properties                                                              *)

SettingsOf == [preset : [PresetIds -> Changes \cup {Missing, Original}],
               misc : Changes \cup {Original}, active : PresetIds]

Pcs == {"idle", "looked", "begun", "reading", "read", "checked", "loaded", "held",
        "persist", "sections", "saving", "saved", "failed", "section", "merged", "done"}

ReqOf == [pc : Pcs, gen : Nat, rows : SettingsOf, held : SettingsOf, what : Kinds \cup {"none"},
          id : PresetIds, sections : SUBSET Changes, orphan : BOOLEAN]

\* The types of the tables, the copies and the requests (presets.py,
\* settings_store.py).
SettingsTypeOK ==
    /\ stored \in [rows : SettingsOf, sections : SUBSET Changes]
    /\ memory \in [Processes -> SettingsOf]
    /\ writing \in [Processes -> [pending : BOOLEAN, gen : Nat]]
    /\ req \in [Requesters -> ReqOf]
    /\ faults \in Nat /\ excused \in BOOLEAN

\* Whatever requests and loads do to each other's copies, the active preset
\* that is stored exists (settings_store.py:586-588).
ActiveStored == Exists(stored.rows, stored.rows.active)

\* A save changes what its request asked for and nothing else: it takes back
\* no change of before, neither one of the presets nor one of the sections,
\* although it writes all of them from a copy that loads replace at any time
\* (presets.py:105-147).  Not so when two changes are under way at a time.
SavesApplyOnce ==
    [][\/ excused' \/ stored' = stored
       \/ \E t \in Changes :
            \/ stored'.rows \in Results(t, stored.rows) /\ stored'.sections = stored.sections
            \/ stored' = [stored EXCEPT !.sections = @ \cup {t}]]_settingsVars

\* In the end every process works with what is stored, whatever failed, was
\* given up or was refused half-way (presets.py:130-147).
MemoryConverges == <>[](\A w \in Processes : memory[w] = stored.rows)

=============================================================================
