--------------------------- MODULE GalleryLibraryProofs ---------------------------
(***************************************************************************)
(* Why a listed image has the file that was stored for it and no thumbnail *)
(* of another, and why no sweep takes it out of the gallery, for every     *)
(* number of names, processes and pictures: unless something of the past   *)
(* of its name was still under way when it was listed.                     *)
(***************************************************************************)
EXTENDS GalleryLibrary, TLAPS

-----------------------------------------------------------------------------
(* The inductive invariant.                                                 *)

Jobs == [st : {"none", "queued", "running"}, by : Workers \cup {Nobody}, live : BOOLEAN, tries : Nat]
Runs == [at : {"idle", "look", "render", "check", "put", "complete", "fail"},
         name : Names \cup {Nobody}, seen : Nat, made : Nat, left : Nat]
Dels == [at : {"idle", "rows", "next", "image", "thumb"}, all : BOOLEAN, todo : SUBSET Names,
         name : Names \cup {Nobody}]
Sweeps == [at : {"idle", "rows", "batch"}, names : SUBSET Names]

\* LibraryTypeOK but for the bounds of the instance.
LibraryOK == /\ entry \subseteq Names /\ disk \in [Paths -> Nat] /\ old \subseteq Paths
             /\ puts \in [Names -> Nat] /\ job \in [Names -> Jobs] /\ work \in [Workers -> Runs]
             /\ importing \subseteq Archived /\ del \in Dels /\ gc \subseteq Paths /\ sweep \in Sweeps
             /\ clash \subseteq Names

\* A name that was never used is nowhere.
UnusedInv(f) == puts[f] = 0 =>
    /\ f \notin entry \cup importing /\ disk[Image(f)] = 0 /\ disk[Thumb(f)] = 0
    /\ job[f].st = "none" /\ (\A w \in Workers : work[w].name # f)
    /\ f \notin del.todo /\ f # del.name

\* The picture of a name is the last one put there, which nobody collects while
\* its row is or comes to be.
PictureInv(f) ==
    /\ disk[Image(f)] \in {0, puts[f]}
    /\ f \in entry \cup importing => Image(f) \notin old
    /\ f \in (entry \cup importing) \ clash => disk[Image(f)] = puts[f]

\* A listed name is not in the hand of a deletion or a sweep, nor its thumbnail
\* in that of a worker that saw another picture.
ListedInv(f) == f \in entry \ clash =>
    /\ disk[Thumb(f)] \in {0, puts[f]}
    /\ \A w \in Workers : work[w].at = "put" /\ work[w].name = f => work[w].made = puts[f]
    /\ del.at \in {"next", "image", "thumb"} => f \notin del.todo /\ f # del.name
    /\ sweep.at = "rows" => f \in sweep.names
    /\ sweep.at = "batch" => f \notin sweep.names

\* What a worker has seen and made is no picture to come, in that order.
WorkInv(w) == LET f == work[w].name IN
    /\ work[w].at # "idle" => f \in Names
    /\ work[w].at = "render" => work[w].seen # 0 /\ work[w].seen =< puts[f]
    /\ work[w].at = "check" => work[w].seen # 0 /\ work[w].seen =< work[w].made /\ work[w].made =< puts[f]

LibraryInv == /\ LibraryOK /\ importing \cap entry = {}
              /\ \A f \in Names : UnusedInv(f) /\ PictureInv(f) /\ ListedInv(f)
              /\ \A w \in Workers : WorkInv(w)

NameInv(f) == UnusedInv(f) /\ PictureInv(f) /\ ListedInv(f)

-----------------------------------------------------------------------------
(* Files.                                                                   *)

LEMMA PathsDiffer ==
    \A f, g \in Names : /\ Image(f) \in Paths /\ Thumb(f) \in Paths /\ Image(f) # Thumb(g)
                        /\ f # g => Image(f) # Image(g) /\ Thumb(f) # Thumb(g)
BY DEF Image, Thumb, Paths

LEMMA PutIs ==
    ASSUME LibraryOK, NEW p \in Paths, NEW x \in Nat, Put(p, x)
    PROVE  /\ disk' \in [Paths -> Nat] /\ disk'[p] = x /\ \A q \in Paths \ {p} : disk'[q] = disk[q]
           /\ old' = old \ {p}
BY DEF LibraryOK, Put

LEMMA Has ==
    ASSUME LibraryInv, NEW f \in Names
    PROVE  /\ LibraryOK /\ UnusedInv(f) /\ PictureInv(f) /\ ListedInv(f)
           /\ importing \cap entry = {} /\ puts[f] \in Nat
BY DEF LibraryInv, LibraryOK

LEMMA WorkSame ==
    ASSUME LibraryInv, work' = work, puts' = puts PROVE \A w \in Workers : WorkInv(w)'
BY DEF LibraryInv, WorkInv

\* Files grow old, and those without a row are collected.
LEMMA CollectStep ==
    ASSUME LibraryInv, (\E p \in Paths : Grow(p) \/ CollectFile(p)) \/ BeginGc PROVE LibraryInv'
<1>1. /\ LibraryOK /\ importing \cap entry = {}
      /\ UNCHANGED <<entry, puts, job, work, importing, del, sweep, clash>>
  BY DEF LibraryInv, Grow, CollectFile, BeginGc
<1>2. /\ disk' \in [Paths -> Nat] /\ \A p \in Paths : disk'[p] = disk[p] \/ (p \in old /\ disk'[p] = 0)
      /\ old' \subseteq old \/ (\E p \in Paths : old' = old \cup {p} /\ p[2] \notin entry \cup importing)
      /\ gc' \subseteq Paths
  <2> DEFINE Kept == disk' \in [Paths -> Nat] /\ \A p \in Paths : disk'[p] = disk[p] \/ (p \in old /\ disk'[p] = 0)
  <2>0. disk' = disk => Kept
    BY <1>1 DEF LibraryOK
  <2>1. ASSUME NEW p \in Paths, Grow(p)
        PROVE  Kept /\ old' = old \cup {p} /\ p[2] \notin entry \cup importing /\ gc' \subseteq Paths
    <3>1. disk' = disk /\ old' = old \cup {p} /\ p[2] \notin entry \cup importing /\ gc' = gc
      BY <2>1 DEF Grow
    <3> QED
      BY <1>1, <2>0, <3>1 DEF LibraryOK
  <2>2. ASSUME NEW p \in Paths, CollectFile(p) PROVE Kept /\ old' \subseteq old /\ gc' \subseteq Paths
    <3>1. gc' \subseteq Paths
      BY <1>1, <2>2 DEF CollectFile, LibraryOK
    <3>2. CASE p \in old
      <4>1. Put(p, 0)
        BY <2>2, <3>2 DEF CollectFile, Unlink
      <4>2. /\ disk' \in [Paths -> Nat] /\ disk'[p] = 0 /\ old' = old \ {p}
            /\ \A q \in Paths \ {p} : disk'[q] = disk[q]
        BY <1>1, <4>1, PutIs
      <4> QED
        BY <3>1, <3>2, <4>2
    <3>3. CASE p \notin old
      <4>1. disk' = disk /\ old' = old
        BY <2>2, <3>3 DEF CollectFile
      <4> QED
        BY <2>0, <3>1, <4>1
    <3> QED
      BY <3>2, <3>3
  <2>3. ASSUME BeginGc PROVE Kept /\ old' \subseteq old /\ gc' \subseteq Paths
    <3>1. disk' = disk /\ old' = old /\ gc' \subseteq gc \cup old
      BY <2>3 DEF BeginGc
    <3> QED
      BY <1>1, <2>0, <3>1 DEF LibraryOK
  <2> HIDE DEF Kept
  <2>4. Kept /\ gc' \subseteq Paths
        /\ (old' \subseteq old \/ (\E p \in Paths : old' = old \cup {p} /\ p[2] \notin entry \cup importing))
    BY <2>1, <2>2, <2>3
  <2> QED
    BY <2>4 DEF Kept
<1>3. LibraryOK'
  BY <1>1, <1>2 DEF LibraryOK
<1>4. ASSUME NEW f \in Names PROVE NameInv(f)'
  <2>1. /\ Image(f) \in Paths /\ Thumb(f) \in Paths /\ Image(f)[2] = f
        /\ UnusedInv(f) /\ PictureInv(f) /\ ListedInv(f)
    BY Has, PathsDiffer DEF Image
  <2>2. /\ disk'[Image(f)] \in {disk[Image(f)], 0} /\ disk'[Thumb(f)] \in {disk[Thumb(f)], 0}
        /\ f \in entry \cup importing => disk'[Image(f)] = disk[Image(f)] /\ Image(f) \notin old'
    BY <1>2, <2>1 DEF PictureInv
  <2> HIDE DEF Image, Thumb
  <2>3. UnusedInv(f)' /\ PictureInv(f)' /\ ListedInv(f)'
    BY <1>1, <2>1, <2>2 DEF UnusedInv, PictureInv, ListedInv
  <2> QED
    BY <2>3 DEF NameInv
<1> QED
  BY <1>1, <1>3, <1>4, WorkSame DEF LibraryInv, NameInv

-----------------------------------------------------------------------------
(* Saving and importing.                                                    *)

LEMMA EnqueueIs ==
    ASSUME LibraryOK, NEW f \in Names, NEW force \in BOOLEAN, Enqueue(f, force)
    PROVE  job' \in [Names -> Jobs] /\ \A g \in Names \ {f} : job'[g] = job[g]
<1> DEFINE j == [st |-> "queued", by |-> Nobody, live |-> FALSE, tries |-> job[f].tries]
<1>1. j \in Jobs
  BY DEF LibraryOK, Jobs
<1>2. job' = job \/ job' = [job EXCEPT ![f] = j]
  BY DEF Enqueue
<1> HIDE DEF j
<1> QED
  BY <1>1, <1>2 DEF LibraryOK

LEMMA SaveStep == ASSUME LibraryInv, NEW f \in Names, Save(f) PROVE LibraryInv'
<1>1. /\ LibraryOK /\ importing \cap entry = {} /\ puts[f] = 0 /\ f \notin Archived
      /\ puts' = [puts EXCEPT ![f] = 1] /\ Put(Image(f), 1)
      /\ UNCHANGED <<work, importing, del, gc, sweep>>
  BY LibraryAssumption DEF LibraryInv, Save
<1>2. /\ disk' \in [Paths -> Nat] /\ disk'[Image(f)] = 1 /\ old' = old \ {Image(f)}
      /\ \A q \in Paths \ {Image(f)} : disk'[q] = disk[q]
  BY <1>1, PutIs, PathsDiffer
<1>3. puts' \in [Names -> Nat] /\ puts'[f] = 1 /\ \A g \in Names \ {f} : puts'[g] = puts[g]
  BY <1>1 DEF LibraryOK
<1>4. \/ /\ entry' = entry \cup {f} /\ job' \in [Names -> Jobs] /\ \A g \in Names \ {f} : job'[g] = job[g]
         /\ clash' = IF Overlooked(f) THEN clash \cup {f} ELSE clash
      \/ UNCHANGED <<entry, job, clash>>
  BY <1>1, EnqueueIs DEF Save, Insert
<1>5. LibraryOK'
  BY <1>1, <1>2, <1>3, <1>4 DEF LibraryOK
<1>6. UnusedInv(f) /\ f \notin importing /\ (importing \cap entry = {})'
  BY <1>1, <1>4, Has DEF UnusedInv
<1>7. NameInv(f)'
  <2>1. UnusedInv(f)'
    BY <1>3 DEF UnusedInv
  <2>2. PictureInv(f)'
    BY <1>2, <1>3 DEF PictureInv
  <2>3. disk'[Thumb(f)] = 0
    BY <1>1, <1>2, <1>6, PathsDiffer DEF UnusedInv
  <2>4. /\ \A w \in Workers : work'[w].name # f
        /\ f \notin del'.todo /\ f # del'.name
    BY <1>1, <1>6 DEF UnusedInv
  <2>5. f \in entry' \ clash' => /\ sweep'.at = "rows" => f \in sweep'.names
                                 /\ sweep'.at = "batch" => f \notin sweep'.names
    BY <1>1, <1>4, <1>6 DEF UnusedInv, Overlooked
  <2>6. ListedInv(f)'
    BY <2>3, <2>4, <2>5 DEF ListedInv
  <2> QED
    BY <2>1, <2>2, <2>6 DEF NameInv
<1>8. ASSUME NEW g \in Names \ {f} PROVE NameInv(g)'
  <2>1. /\ UnusedInv(g) /\ PictureInv(g) /\ ListedInv(g) /\ disk'[Image(g)] = disk[Image(g)]
        /\ disk'[Thumb(g)] = disk[Thumb(g)] /\ puts'[g] = puts[g] /\ (Image(g) \in old' => Image(g) \in old)
        /\ job'[g] = job[g] /\ (g \in entry' <=> g \in entry) /\ (g \in clash' <=> g \in clash)
    BY <1>2, <1>3, <1>4, Has, PathsDiffer
  <2> QED
    BY <1>1, <2>1 DEF NameInv, UnusedInv, PictureInv, ListedInv
<1>9. ASSUME NEW w \in Workers PROVE WorkInv(w)'
  <2>1. WorkInv(w) /\ work'[w] = work[w] /\ work[w].name # f
    BY <1>1, <1>6 DEF LibraryInv, UnusedInv
  <2> QED
    BY <1>3, <2>1 DEF WorkInv
<1> QED
  BY <1>5, <1>6, <1>7, <1>8, <1>9 DEF LibraryInv, NameInv

LEMMA PromoteStep == ASSUME LibraryInv, NEW f \in Names, PromoteImport(f) PROVE LibraryInv'
<1> DEFINE n == puts[f] + 1
<1>1. /\ LibraryOK /\ importing = {} /\ f \in Archived /\ f \notin entry
      /\ puts' = [puts EXCEPT ![f] = @ + 1] /\ Put(Image(f), n) /\ importing' = {f}
      /\ UNCHANGED <<entry, job, work, del, gc, sweep, clash>> /\ puts[f] \in Nat
  BY DEF LibraryInv, PromoteImport, LibraryOK
<1>0. n \in Nat /\ n # 0 /\ puts[f] =< n
  BY <1>1
<1>2. /\ disk' \in [Paths -> Nat] /\ disk'[Image(f)] = n /\ old' = old \ {Image(f)}
      /\ \A q \in Paths \ {Image(f)} : disk'[q] = disk[q]
  BY <1>0, <1>1, PutIs, PathsDiffer
<1>3. puts' \in [Names -> Nat] /\ puts'[f] = n /\ \A g \in Names \ {f} : puts'[g] = puts[g]
  BY <1>1 DEF LibraryOK
<1> HIDE DEF n
<1>4. LibraryOK'
  BY <1>1, <1>2, <1>3 DEF LibraryOK
<1>5. NameInv(f)'
  BY <1>0, <1>1, <1>2, <1>3 DEF NameInv, UnusedInv, PictureInv, ListedInv
<1>6. ASSUME NEW g \in Names \ {f} PROVE NameInv(g)'
  <2>1. /\ UnusedInv(g) /\ PictureInv(g) /\ ListedInv(g) /\ disk'[Image(g)] = disk[Image(g)]
        /\ disk'[Thumb(g)] = disk[Thumb(g)] /\ puts'[g] = puts[g] /\ (Image(g) \in old' => Image(g) \in old)
        /\ g \notin importing'
    BY <1>1, <1>2, <1>3, Has, PathsDiffer
  <2> QED
    BY <1>1, <2>1 DEF NameInv, UnusedInv, PictureInv, ListedInv
<1>7. ASSUME NEW w \in Workers PROVE WorkInv(w)'
  <2>1. WorkInv(w) /\ work'[w] = work[w] /\ work[w].seen \in Nat /\ work[w].made \in Nat
    BY <1>1 DEF LibraryInv, LibraryOK, Runs
  <2>2. CASE work[w].name = f
    BY <1>0, <1>1, <1>3, <2>1, <2>2 DEF WorkInv
  <2>3. CASE work[w].name # f
    BY <1>3, <2>1, <2>3 DEF WorkInv
  <2> QED
    BY <2>2, <2>3
<1> QED
  BY <1>1, <1>4, <1>5, <1>6, <1>7 DEF LibraryInv, NameInv

LEMMA InsertStep == ASSUME LibraryInv, NEW f \in Names, InsertImport(f) PROVE LibraryInv'
<1>1. /\ LibraryOK /\ importing \cap entry = {} /\ f \in importing /\ entry' = entry \cup {f}
      /\ clash' = (IF Haunted(f) \/ Overlooked(f) THEN clash \cup {f} ELSE clash) /\ importing' = {}
      /\ UNCHANGED <<disk, old, puts, work, del, gc, sweep>>
      /\ UnusedInv(f) /\ PictureInv(f)
  BY Has DEF LibraryInv, InsertImport, Insert
<1>2. job' \in [Names -> Jobs] /\ \A g \in Names \ {f} : job'[g] = job[g]
  BY <1>1, EnqueueIs DEF InsertImport, Insert, LibraryOK
<1>3. LibraryOK'
  BY <1>1, <1>2 DEF LibraryOK
<1>4. NameInv(f)'
  <2>1. UnusedInv(f)' /\ PictureInv(f)'
    BY <1>1 DEF UnusedInv, PictureInv
  <2>2. ASSUME f \notin clash' PROVE ~Haunted(f) /\ ~Overlooked(f)
    BY <1>1, <2>2
  <2>3. ListedInv(f)'
    BY <1>1, <2>2 DEF ListedInv, Haunted, Overlooked, Exists
  <2> QED
    BY <2>1, <2>3 DEF NameInv
<1>5. ASSUME NEW g \in Names \ {f} PROVE NameInv(g)'
  <2>1. /\ UnusedInv(g) /\ PictureInv(g) /\ ListedInv(g) /\ job'[g] = job[g]
        /\ (g \in entry' <=> g \in entry) /\ (g \in clash' <=> g \in clash)
    BY <1>1, <1>2, Has
  <2> QED
    BY <1>1, <2>1 DEF NameInv, UnusedInv, PictureInv, ListedInv
<1> QED
  BY <1>1, <1>3, <1>4, <1>5, WorkSame DEF LibraryInv, NameInv

LEMMA BreakStep == ASSUME LibraryInv, BreakImport PROVE LibraryInv'
<1>1. /\ LibraryOK /\ importing \cap entry = {} /\ importing' = {} /\ clash' = clash \ importing
      /\ UNCHANGED <<entry, disk, old, puts, job, work, del, gc, sweep>>
  BY DEF LibraryInv, BreakImport
<1>2. LibraryOK'
  BY <1>1 DEF LibraryOK
<1>3. ASSUME NEW g \in Names PROVE NameInv(g)'
  <2>1. UnusedInv(g) /\ PictureInv(g) /\ ListedInv(g) /\ (g \in entry => g \notin importing)
    BY <1>1, Has
  <2> QED
    BY <1>1, <2>1 DEF NameInv, UnusedInv, PictureInv, ListedInv
<1> QED
  BY <1>1, <1>2, <1>3, WorkSame DEF LibraryInv, NameInv

-----------------------------------------------------------------------------
(* Deleting.                                                                *)

LEMMA UnlinkIs ==
    ASSUME LibraryOK, NEW p, Unlink(p)
    PROVE  /\ disk' \in [Paths -> Nat] /\ old' \subseteq old
           /\ \A q \in Paths : (q # p => disk'[q] = disk[q]) /\ (q = p => disk'[q] = 0)
BY DEF LibraryOK, Unlink, Put

LEMMA NobodyIs == Nobody \notin Names /\ Nobody \notin Workers
BY LibraryAssumption

LEMMA OnwardIs ==
    ASSUME LibraryOK, NEW todo \in SUBSET Names, Onward(todo)
    PROVE  del' \in Dels /\ del'.todo = todo /\ del'.name = Nobody
BY DEF LibraryOK, Onward, NoDel, Dels

LEMMA DeleteRowsStep == ASSUME LibraryInv, NEW F \in SUBSET entry, DeleteRows(F) PROVE LibraryInv'
<1>1. /\ LibraryOK /\ importing \cap entry = {} /\ entry' = entry \ F /\ clash' = clash \ (F \cap entry)
      /\ job' = [f \in Names |-> IF f \in F THEN NoJob ELSE job[f]]
      /\ del' = [NoDel EXCEPT !.at = "next", !.todo = F] /\ F \subseteq Names
      /\ UNCHANGED <<disk, old, puts, work, importing, gc, sweep>>
  BY DEF LibraryInv, LibraryOK, DeleteRows, DropRows
<1>2. del' \in Dels /\ del'.todo = F /\ del'.name = Nobody
  BY <1>1 DEF NoDel, Dels
<1>3. job' \in [Names -> Jobs]
  BY <1>1 DEF LibraryOK, NoJob, Jobs
<1>4. LibraryOK'
  BY <1>1, <1>2, <1>3 DEF LibraryOK
<1>5. ASSUME NEW g \in Names PROVE NameInv(g)'
  <2>1. /\ UnusedInv(g) /\ PictureInv(g) /\ ListedInv(g) /\ (job[g].st = "none" => job'[g].st = "none")
        /\ (g \in entry' <=> g \in entry /\ g \notin F) /\ (g \in clash' <=> g \in clash /\ g \notin F)
        /\ (g \in F => g \in entry) /\ (g \in importing => g \notin entry)
    BY <1>1, Has DEF NoJob
  <2> QED
    BY <1>1, <1>2, <2>1, NobodyIs DEF NameInv, UnusedInv, PictureInv, ListedInv
<1> QED
  BY <1>1, <1>4, <1>5, WorkSame DEF LibraryInv, NameInv

\* The request under way changes, no row.
LEMMA RequestStep ==
    ASSUME LibraryInv, ScanAll \/ (\E f \in Names : TakeFile(f)) \/ StopDelete PROVE LibraryInv'
<1>1. /\ LibraryOK /\ importing \cap entry = {}
      /\ UNCHANGED <<entry, disk, old, puts, job, work, importing, gc, sweep, clash>>
  BY DEF LibraryInv, ScanAll, TakeFile, StopDelete
<1>2. /\ del' \in Dels
      /\ \/ del'.at = "rows" /\ del'.todo = Images /\ del'.name = Nobody
         \/ del'.todo = {} /\ del'.name = Nobody
         \/ \E f \in del.todo : del.at = "next" /\ del'.todo = del.todo \ {f} /\ del'.name \in {f, Nobody}
  <2>1. CASE ScanAll
    BY <2>1 DEF ScanAll, NoDel, Dels, Images
  <2>2. ASSUME NEW f \in Names, TakeFile(f)
        PROVE  /\ del' \in Dels /\ f \in del.todo /\ del.at = "next" /\ del'.todo = del.todo \ {f}
               /\ del'.name \in {f, Nobody}
    <3>1. f \in del.todo /\ del.at = "next" /\ del.todo \ {f} \in SUBSET Names
      BY <1>1, <2>2 DEF TakeFile, LibraryOK, Dels
    <3>2. CASE del.all /\ f \in entry
      BY <1>1, <2>2, <3>1, <3>2, OnwardIs DEF TakeFile
    <3>3. CASE ~(del.all /\ f \in entry)
      BY <1>1, <2>2, <3>1, <3>3 DEF TakeFile, LibraryOK, Dels
    <3> QED
      BY <3>1, <3>2, <3>3
  <2>3. CASE StopDelete
    BY <2>3 DEF StopDelete, NoDel, Dels
  <2> QED
    BY <2>1, <2>2, <2>3
<1>3. LibraryOK'
  BY <1>1, <1>2 DEF LibraryOK
<1>4. ASSUME NEW g \in Names PROVE NameInv(g)'
  <2>1. /\ UnusedInv(g) /\ PictureInv(g) /\ ListedInv(g) /\ g # Nobody
        /\ (disk[Image(g)] = 0 => g \notin Images)
    BY <1>1, Has, NobodyIs DEF Images, Exists
  <2>2. UnusedInv(g)' /\ PictureInv(g)'
    BY <1>1, <1>2, <2>1 DEF UnusedInv, PictureInv
  <2>3. ListedInv(g)'
    BY <1>1, <1>2, <2>1 DEF ListedInv
  <2> QED
    BY <2>2, <2>3 DEF NameInv
<1> QED
  BY <1>1, <1>3, <1>4, WorkSame DEF LibraryInv, NameInv

LEMMA DeleteAllStep == ASSUME LibraryInv, DeleteAllRows PROVE LibraryInv'
<1>1. /\ LibraryOK /\ importing \cap entry = {} /\ entry' = {} /\ clash' = clash \ entry
      /\ job' = [f \in Names |-> NoJob] /\ Onward(del.todo \cup entry)
      /\ UNCHANGED <<disk, old, puts, work, importing, gc, sweep>>
  BY DEF LibraryInv, DeleteAllRows, DropRows
<1>2. del' \in Dels /\ del'.todo = del.todo \cup entry /\ del'.name = Nobody
  <2>1. del.todo \cup entry \in SUBSET Names
    BY <1>1 DEF LibraryOK, Dels
  <2> QED
    BY <1>1, <2>1, OnwardIs
<1>3. LibraryOK'
  BY <1>1, <1>2 DEF LibraryOK, NoJob, Jobs
<1>4. ASSUME NEW g \in Names PROVE NameInv(g)'
  <2>1. /\ UnusedInv(g) /\ PictureInv(g) /\ ListedInv(g) /\ job'[g].st = "none" /\ g # Nobody
        /\ (g \in importing => g \notin entry)
    BY <1>1, Has, NobodyIs DEF NoJob
  <2> QED
    BY <1>1, <1>2, <2>1 DEF NameInv, UnusedInv, PictureInv, ListedInv
<1> QED
  BY <1>1, <1>3, <1>4, WorkSame DEF LibraryInv, NameInv

LEMMA DropImageStep == ASSUME LibraryInv, DropImage PROVE LibraryInv'
<1> DEFINE n == del.name
<1>1. /\ LibraryOK /\ importing \cap entry = {} /\ del.at = "image"
      /\ del' = [del EXCEPT !.at = "thumb"]
      /\ UNCHANGED <<entry, puts, job, work, importing, gc, sweep>>
  BY DEF LibraryInv, DropImage
<1>2. del' \in Dels /\ del'.at = "thumb" /\ del'.todo = del.todo /\ del'.name = n
  BY <1>1 DEF LibraryOK, Dels
<1>3. /\ disk' \in [Paths -> Nat] /\ old' \subseteq old /\ clash' \in {clash, clash \cup ({n} \cap importing)}
      /\ \/ disk' = disk /\ clash' = clash
         \/ /\ clash' = clash \cup ({n} \cap importing)
            /\ \A q \in Paths : (q # Image(n) => disk'[q] = disk[q]) /\ (q = Image(n) => disk'[q] = 0)
  <2>1. CASE Unlink(Image(n)) /\ clash' = clash \cup ({n} \cap importing)
    BY <1>1, <2>1, UnlinkIs
  <2>2. CASE UNCHANGED <<disk, old, clash>>
    BY <1>1, <2>2 DEF LibraryOK
  <2> QED
    BY <2>1, <2>2 DEF DropImage
<1>4. LibraryOK'
  BY <1>1, <1>2, <1>3 DEF LibraryOK, Names
<1>5. ASSUME NEW g \in Names PROVE NameInv(g)'
  <2>1. /\ UnusedInv(g) /\ PictureInv(g) /\ ListedInv(g) /\ (g \in importing => g \notin entry)
    BY <1>1, Has
  <2>2. /\ disk'[Thumb(g)] = disk[Thumb(g)]
        /\ \/ disk'[Image(g)] = disk[Image(g)]
           \/ disk'[Image(g)] = 0 /\ g = n /\ clash' = clash \cup ({n} \cap importing)
    BY <1>3 DEF Image, Thumb, Paths
  <2>3. UnusedInv(g)' /\ ListedInv(g)'
    BY <1>1, <1>2, <1>3, <2>1, <2>2 DEF UnusedInv, ListedInv
  <2>4. PictureInv(g)'
    BY <1>1, <1>2, <1>3, <2>1, <2>2 DEF PictureInv, ListedInv
  <2> QED
    BY <2>3, <2>4 DEF NameInv
<1> QED
  BY <1>1, <1>4, <1>5, WorkSame DEF LibraryInv, NameInv

LEMMA DropThumbStep == ASSUME LibraryInv, DropThumb PROVE LibraryInv'
<1> DEFINE n == del.name
<1>1. /\ LibraryOK /\ importing \cap entry = {} /\ del.at = "thumb" /\ Onward(del.todo)
      /\ UNCHANGED <<entry, puts, job, work, importing, gc, sweep, clash>>
  BY DEF LibraryInv, DropThumb
<1>2. del' \in Dels /\ del'.todo = del.todo /\ del'.name = Nobody
  BY <1>1, OnwardIs DEF LibraryOK, Dels
<1>3. /\ disk' \in [Paths -> Nat] /\ old' \subseteq old
      /\ \A q \in Paths : disk'[q] = disk[q] \/ (q = Thumb(n) /\ disk'[q] = 0)
  <2>1. CASE Unlink(Thumb(n))
    BY <1>1, <2>1, UnlinkIs
  <2>2. CASE UNCHANGED <<disk, old>>
    BY <1>1, <2>2 DEF LibraryOK
  <2> QED
    BY <2>1, <2>2 DEF DropThumb
<1>4. LibraryOK'
  BY <1>1, <1>2, <1>3 DEF LibraryOK
<1>5. ASSUME NEW g \in Names PROVE NameInv(g)'
  <2>1. /\ UnusedInv(g) /\ PictureInv(g) /\ ListedInv(g) /\ g # Nobody
        /\ disk'[Image(g)] = disk[Image(g)] /\ disk'[Thumb(g)] \in {0, disk[Thumb(g)]}
    BY <1>1, <1>3, Has, NobodyIs DEF Image, Thumb, Paths
  <2> QED
    BY <1>1, <1>2, <1>3, <2>1 DEF NameInv, UnusedInv, PictureInv, ListedInv
<1> QED
  BY <1>1, <1>4, <1>5, WorkSame DEF LibraryInv, NameInv

-----------------------------------------------------------------------------
(* The sweep: a listed image has its file when the sweep scans.             *)

LEMMA SweepScanStep == ASSUME LibraryInv, SweepScan \/ SweepRows PROVE LibraryInv'
<1>1. /\ LibraryOK /\ importing \cap entry = {}
      /\ UNCHANGED <<entry, disk, old, puts, job, work, importing, del, gc, clash>>
  BY DEF LibraryInv, SweepScan, SweepRows
<1>2. /\ sweep' \in Sweeps
      /\ \/ sweep'.at = "rows" /\ sweep'.names = Images
         \/ sweep.at = "rows" /\ sweep'.at = "batch" /\ sweep'.names = entry \ sweep.names
  BY <1>1 DEF LibraryOK, Sweeps, SweepScan, SweepRows, Images
<1>3. LibraryOK'
  BY <1>1, <1>2 DEF LibraryOK
<1>4. ASSUME NEW g \in Names PROVE NameInv(g)'
  <2>1. UnusedInv(g) /\ PictureInv(g) /\ ListedInv(g)
    BY Has
  <2>2. UnusedInv(g)' /\ PictureInv(g)'
    BY <1>1, <2>1 DEF UnusedInv, PictureInv
  <2>3. g \in entry \ clash => g \in Images
    BY <2>1 DEF UnusedInv, PictureInv, Images, Exists
  <2>4. ListedInv(g)'
    BY <1>1, <1>2, <2>1, <2>3 DEF ListedInv
  <2> QED
    BY <2>2, <2>4 DEF NameInv
<1> QED
  BY <1>1, <1>3, <1>4, WorkSame DEF LibraryInv, NameInv

LEMMA SweepBatchStep == ASSUME LibraryInv, NEW f \in Names, SweepBatch(f) PROVE LibraryInv'
<1>1. /\ LibraryOK /\ importing \cap entry = {} /\ entry' = entry \ {f} /\ clash' = clash \ ({f} \cap entry)
      /\ sweep.at = "batch" /\ sweep' = [sweep EXCEPT !.names = @ \ {f}]
      /\ UNCHANGED <<disk, old, puts, job, work, importing, del, gc>>
  BY DEF LibraryInv, SweepBatch, DropRows
<1>2. sweep' \in Sweeps /\ sweep'.at = "batch" /\ sweep'.names = sweep.names \ {f}
  BY <1>1 DEF LibraryOK, Sweeps
<1>3. LibraryOK'
  BY <1>1, <1>2 DEF LibraryOK
<1>4. ASSUME NEW g \in Names PROVE NameInv(g)'
  <2>1. UnusedInv(g) /\ PictureInv(g) /\ ListedInv(g) /\ (g \in importing => g \notin entry)
    BY <1>1, Has
  <2> QED
    BY <1>1, <1>2, <2>1 DEF NameInv, UnusedInv, PictureInv, ListedInv
<1> QED
  BY <1>1, <1>3, <1>4, WorkSame DEF LibraryInv, NameInv

LEMMA SweepJobsStep == ASSUME LibraryInv, SweepJobs PROVE LibraryInv'
<1>1. /\ LibraryOK /\ importing \cap entry = {} /\ sweep' = NoSweep
      /\ job' = [f \in Names |-> IF f \in entry THEN job[f] ELSE NoJob]
      /\ UNCHANGED <<entry, disk, old, puts, work, importing, del, gc, clash>>
  BY DEF LibraryInv, SweepJobs
<1>2. job' \in [Names -> Jobs] /\ sweep' \in Sweeps /\ sweep'.at = "idle"
  BY <1>1 DEF LibraryOK, NoJob, Jobs, NoSweep, Sweeps
<1>3. LibraryOK'
  BY <1>1, <1>2 DEF LibraryOK
<1>4. ASSUME NEW g \in Names PROVE NameInv(g)'
  <2>1. UnusedInv(g) /\ PictureInv(g) /\ ListedInv(g) /\ (job[g].st = "none" => job'[g].st = "none")
    BY <1>1, Has DEF NoJob
  <2> QED
    BY <1>1, <1>2, <2>1 DEF NameInv, UnusedInv, PictureInv, ListedInv
<1> QED
  BY <1>1, <1>3, <1>4, WorkSame DEF LibraryInv, NameInv

-----------------------------------------------------------------------------
(* Thumbnails.                                                              *)

\* Jobs change, of names that were used.
LEMMA JobStep ==
    ASSUME LibraryInv, job' \in [Names -> Jobs],
           UNCHANGED <<entry, disk, old, puts, work, importing, del, gc, sweep, clash>>,
           \A f \in Names : job[f].st = "none" /\ puts[f] = 0 => job'[f].st = "none"
    PROVE  LibraryInv'
<1>1. LibraryOK'
  BY DEF LibraryInv, LibraryOK
<1>2. ASSUME NEW g \in Names PROVE NameInv(g)'
  <2>1. UnusedInv(g) /\ PictureInv(g) /\ ListedInv(g) /\ (job[g].st = "none" /\ puts[g] = 0 => job'[g].st = "none")
    BY Has
  <2> QED
    BY <2>1 DEF NameInv, UnusedInv, PictureInv, ListedInv
<1> QED
  BY <1>1, <1>2, WorkSame DEF LibraryInv, NameInv

LEMMA ViewStep == ASSUME LibraryInv, NEW f \in Names, View(f) PROVE LibraryInv'
<1>1. /\ LibraryOK /\ f \in entry \cup del.todo /\ Enqueue(f, TRUE)
      /\ UNCHANGED <<entry, disk, old, puts, work, importing, del, gc, sweep, clash>>
  BY DEF LibraryInv, View
<1>2. job' \in [Names -> Jobs] /\ \A g \in Names \ {f} : job'[g] = job[g]
  BY <1>1, EnqueueIs
<1>3. puts[f] # 0
  BY <1>1, Has DEF UnusedInv
<1> QED
  BY <1>1, <1>2, <1>3, JobStep

LEMMA LapseStep == ASSUME LibraryInv, NEW f \in Names, Lapse(f) PROVE LibraryInv'
<1>1. /\ LibraryOK /\ job' = [job EXCEPT ![f].live = FALSE]
      /\ UNCHANGED <<entry, disk, old, puts, work, importing, del, gc, sweep, clash>>
  BY DEF LibraryInv, Lapse
<1>2. [job[f] EXCEPT !.live = FALSE] \in Jobs /\ [job[f] EXCEPT !.live = FALSE].st = job[f].st
  BY <1>1 DEF LibraryOK, Jobs
<1>3. job' \in [Names -> Jobs] /\ \A g \in Names : job'[g].st = job[g].st
  BY <1>1, <1>2 DEF LibraryOK
<1> QED
  BY <1>1, <1>3, JobStep

\* A worker goes on with the same name, or begins with one that was used, or
\* ends; it puts a thumbnail only of the picture it looked at first.
LEMMA RunStep ==
    ASSUME LibraryInv, NEW w \in Workers, NEW r \in Runs,
           work' = [work EXCEPT ![w] = r],
           job' \in [Names -> Jobs],
           \A f \in Names : job[f].st = "none" /\ puts[f] = 0 => job'[f].st = "none",
           \A f \in Names : r.name = f => puts[f] # 0,
           r.at # "idle" => r.name \in Names,
           r.at = "render" => r.seen # 0 /\ r.seen =< puts[r.name],
           r.at = "check" => r.seen # 0 /\ r.seen =< r.made /\ r.made =< puts[r.name],
           r.at = "put" => r.made = puts[r.name],
           UNCHANGED <<entry, disk, old, puts, importing, del, gc, sweep, clash>>
    PROVE  LibraryInv'
<1>1. work' \in [Workers -> Runs] /\ work'[w] = r /\ \A v \in Workers \ {w} : work'[v] = work[v]
  BY DEF LibraryInv, LibraryOK
<1>2. LibraryOK'
  BY <1>1 DEF LibraryInv, LibraryOK
<1>3. ASSUME NEW g \in Names PROVE NameInv(g)'
  <2>1. /\ UnusedInv(g) /\ PictureInv(g) /\ ListedInv(g) /\ (r.name = g => puts[g] # 0)
        /\ (job[g].st = "none" /\ puts[g] = 0 => job'[g].st = "none")
    BY Has
  <2>2. \A v \in Workers : work'[v] = work[v] \/ work'[v] = r
    BY <1>1
  <2>3. UnusedInv(g)' /\ PictureInv(g)'
    BY <2>1, <2>2 DEF UnusedInv, PictureInv
  <2>4. ASSUME NEW v \in Workers, g \in entry \ clash, work'[v].at = "put", work'[v].name = g
        PROVE  work'[v].made = puts'[g]
    BY <2>1, <2>2, <2>4 DEF ListedInv
  <2>5. ListedInv(g)'
    BY <2>1, <2>4 DEF ListedInv
  <2> QED
    BY <2>3, <2>5 DEF NameInv
<1>4. ASSUME NEW v \in Workers PROVE WorkInv(v)'
  <2>1. CASE v = w
    BY <1>1, <2>1 DEF WorkInv
  <2>2. CASE v # w
    BY <1>1, <2>2 DEF WorkInv, LibraryInv
  <2> QED
    BY <2>1, <2>2
<1> QED
  BY <1>2, <1>3, <1>4 DEF LibraryInv, NameInv

LEMMA ClaimStep == ASSUME LibraryInv, NEW w \in Workers, NEW f \in Names, Claim(w, f) PROVE LibraryInv'
<1> DEFINE r == [NoWork EXCEPT !.at = "look", !.name = f, !.left = 3]
           j == [st |-> "running", by |-> w, live |-> TRUE, tries |-> job[f].tries + 1]
<1>1. /\ LibraryOK /\ Claimable(f) /\ job' = [job EXCEPT ![f] = j] /\ work' = [work EXCEPT ![w] = r]
      /\ UNCHANGED <<entry, disk, old, puts, importing, del, gc, sweep, clash>>
  BY DEF LibraryInv, Claim
<1>2. r \in Runs /\ r.at = "look" /\ r.name = f
  BY DEF NoWork, Runs
<1>3. j \in Jobs
  BY <1>1 DEF LibraryOK, Jobs
<1>4. puts[f] # 0
  BY <1>1, Has DEF UnusedInv, Claimable
<1> HIDE DEF r, j
<1>5. job' \in [Names -> Jobs] /\ \A g \in Names \ {f} : job'[g] = job[g]
  BY <1>1, <1>3 DEF LibraryOK
<1>6. \A g \in Names : job[g].st = "none" /\ puts[g] = 0 => job'[g].st = "none"
  BY <1>4, <1>5
<1>7. /\ r.at # "idle" => r.name \in Names
      /\ \A g \in Names : r.name = g => puts[g] # 0
      /\ r.at # "render" /\ r.at # "check" /\ r.at # "put"
  BY <1>2, <1>4
<1>8. /\ work' = [work EXCEPT ![w] = r]
      /\ UNCHANGED <<entry, disk, old, puts, importing, del, gc, sweep, clash>>
  BY <1>1
<1>9. r \in Runs /\ job' \in [Names -> Jobs]
  BY <1>2, <1>5
<1> QED
  BY <1>6, <1>7, <1>8, <1>9, RunStep

LEMMA StopWorkStep == ASSUME LibraryInv, NEW w \in Workers, StopWork(w) PROVE LibraryInv'
<1>1. /\ LibraryOK /\ work' = [work EXCEPT ![w] = NoWork]
      /\ UNCHANGED <<entry, disk, old, puts, job, importing, del, gc, sweep, clash>>
  BY DEF LibraryInv, StopWork
<1>2. NoWork \in Runs /\ NoWork.at = "idle" /\ NoWork.name = Nobody
  BY DEF NoWork, Runs
<1>3. job' \in [Names -> Jobs]
  BY <1>1 DEF LibraryOK
<1> QED
  BY <1>1, <1>2, <1>3, NobodyIs, RunStep

\* The run of a worker that is not idle, and its name.
LEMMA AtWork ==
    ASSUME LibraryInv, NEW w \in Workers, work[w].at # "idle"
    PROVE  LET f == work[w].name IN
           /\ work[w] \in Runs /\ f \in Names /\ puts[f] # 0 /\ puts[f] \in Nat
           /\ disk[Image(f)] \in {0, puts[f]} /\ disk[Image(f)] \in Nat
           /\ WorkInv(w)
<1>1. work[w] \in Runs /\ WorkInv(w) /\ work[w].name \in Names
  BY DEF LibraryInv, LibraryOK, WorkInv
<1> QED
  BY <1>1, Has, PathsDiffer DEF UnusedInv, PictureInv, LibraryOK

LEMMA RoundStep ==
    ASSUME LibraryInv, NEW w \in Workers, Look(w) \/ Render(w) \/ Check(w),
           UNCHANGED <<entry, disk, old, puts, job, importing, del, gc, sweep, clash>>
    PROVE  LibraryInv'
<1> DEFINE f == work[w].name
<1>1. work[w].at \in {"look", "render", "check"}
  BY DEF Look, Render, Check, At
<1>2. /\ work[w] \in Runs /\ f \in Names /\ puts[f] # 0 /\ puts[f] \in Nat
      /\ Picture(w) \in {0, puts[f]} /\ Picture(w) \in Nat /\ WorkInv(w)
  BY <1>1, AtWork DEF Picture
<1>3. LibraryOK /\ job' \in [Names -> Jobs]
  BY DEF LibraryInv, LibraryOK
<1>4. ASSUME NEW pc \in {"look", "put", "fail", "complete"}, Go(w, pc),
             pc = "put" => work[w].made = puts[f]
      PROVE  LibraryInv'
  <2> DEFINE r == [work[w] EXCEPT !.at = pc]
  <2>1. work' = [work EXCEPT ![w] = r]
    BY <1>3, <1>4 DEF Go, LibraryOK
  <2>2. r \in Runs /\ r.at = pc /\ r.name = f /\ r.made = work[w].made
    BY <1>2 DEF Runs
  <2> HIDE DEF r
  <2> QED
    BY <1>2, <1>3, <1>4, <2>1, <2>2, RunStep
<1>5. CASE Look(w)
  <2> DEFINE r == [work[w] EXCEPT !.at = "render", !.seen = Picture(w), !.left = @ - 1]
  <2>1. CASE Go(w, "complete") \/ Go(w, "fail")
    BY <1>4, <2>1
  <2>2. CASE Picture(w) # 0 /\ work[w].left # 0 /\ work' = [work EXCEPT ![w] = r]
    <3>0. work[w].left \in Nat /\ work[w].left - 1 \in Nat
      BY <1>2, <2>2 DEF Runs
    <3>1. r \in Runs /\ r.at = "render" /\ r.name = f /\ r.seen = Picture(w)
      BY <1>2, <3>0 DEF Runs
    <3> HIDE DEF r
    <3>2. r.seen # 0 /\ r.seen =< puts[f]
      BY <1>2, <2>2, <3>1
    <3> QED
      BY <1>2, <1>3, <2>2, <3>1, <3>2, RunStep
  <2>3. ASSUME work' = [work EXCEPT ![w].at = "render", ![w].seen = Picture(w), ![w].left = @ - 1]
        PROVE  work' = [work EXCEPT ![w] = r]
    BY <1>3, <2>3 DEF LibraryOK
  <2> QED
    BY <1>5, <2>1, <2>2, <2>3 DEF Look
<1>6. CASE Render(w)
  <2> DEFINE r == [work[w] EXCEPT !.at = "check", !.made = Picture(w)]
  <2>1. CASE Go(w, "fail")
    BY <1>4, <2>1
  <2>2. CASE Picture(w) # 0 /\ work' = [work EXCEPT ![w] = r]
    <3>1. r \in Runs /\ r.at = "check" /\ r.name = f /\ r.seen = work[w].seen /\ r.made = Picture(w)
      BY <1>2, <2>2 DEF Runs
    <3> HIDE DEF r
    <3>2. work[w].seen # 0 /\ work[w].seen =< puts[f]
      BY <1>2, <1>6 DEF Render, At, WorkInv
    <3>3. r.seen # 0 /\ r.seen =< r.made /\ r.made =< puts[f]
      BY <1>2, <2>2, <3>1, <3>2
    <3> QED
      BY <1>2, <1>3, <2>2, <3>1, <3>3, RunStep
  <2>3. ASSUME work' = [work EXCEPT ![w].at = "check", ![w].made = Picture(w)]
        PROVE  work' = [work EXCEPT ![w] = r]
    BY <1>3, <2>3 DEF LibraryOK
  <2> QED
    BY <1>6, <2>1, <2>2, <2>3 DEF Render
<1>7. CASE Check(w)
  <2>1. /\ work[w].seen # 0 /\ work[w].seen =< work[w].made /\ work[w].made =< puts[f]
        /\ work[w].seen \in Nat /\ work[w].made \in Nat
    BY <1>2, <1>7 DEF Check, At, WorkInv, Runs
  <2>2. Picture(w) = work[w].seen => work[w].made = puts[f]
    BY <1>2, <2>1
  <2>3. \/ Go(w, "complete") \/ Go(w, "fail") \/ Go(w, "look")
        \/ Go(w, "put") /\ Picture(w) = work[w].seen
    BY <1>7 DEF Check
  <2> QED
    BY <1>4, <2>2, <2>3
<1> QED
  BY <1>5, <1>6, <1>7

LEMMA PutThumbStep ==
    ASSUME LibraryInv, NEW w \in Workers, PutThumb(w),
           UNCHANGED <<entry, puts, job, importing, del, gc, sweep, clash>>
    PROVE  LibraryInv'
<1> DEFINE f == work[w].name
           r == [work[w] EXCEPT !.at = "complete"]
<1>1. LibraryOK /\ work[w].at = "put" /\ Put(Thumb(f), work[w].made) /\ work' = [work EXCEPT ![w] = r]
  BY DEF LibraryInv, LibraryOK, PutThumb, At, Go
<1>2. work[w] \in Runs /\ f \in Names /\ puts[f] # 0
  BY <1>1, AtWork
<1>3. r \in Runs /\ r.at = "complete" /\ r.name = f
  BY <1>2 DEF Runs
<1>4. /\ disk' \in [Paths -> Nat] /\ disk'[Thumb(f)] = work[w].made /\ old' = old \ {Thumb(f)}
      /\ \A q \in Paths \ {Thumb(f)} : disk'[q] = disk[q]
  <2>1. work[w].made \in Nat /\ Thumb(f) \in Paths
    BY <1>2, PathsDiffer DEF Runs
  <2> QED
    BY <1>1, <2>1, PutIs
<1> HIDE DEF f, r
<1>5. work' \in [Workers -> Runs] /\ work'[w] = r /\ \A v \in Workers \ {w} : work'[v] = work[v]
  BY <1>1, <1>3 DEF LibraryOK
<1>6. LibraryOK'
  BY <1>1, <1>4, <1>5 DEF LibraryOK
<1>7. ASSUME NEW g \in Names PROVE NameInv(g)'
  <2>1. /\ UnusedInv(g) /\ PictureInv(g) /\ ListedInv(g) /\ disk'[Image(g)] = disk[Image(g)]
        /\ (Image(g) \in old' => Image(g) \in old)
    BY <1>2, <1>4, Has, PathsDiffer
  <2>2. g # f => disk'[Thumb(g)] = disk[Thumb(g)]
    BY <1>2, <1>4, PathsDiffer
  <2>3. g = f /\ g \in entry \ clash => disk'[Thumb(g)] = puts[g]
    BY <1>1, <1>4, <2>1 DEF ListedInv, f
  <2>4. \A v \in Workers : (work'[v] = r /\ r.name = f) \/ work'[v] = work[v]
    BY <1>3, <1>5
  <2>5. UnusedInv(g)'
    BY <1>2, <2>1, <2>2, <2>4 DEF UnusedInv
  <2>6. PictureInv(g)'
    BY <2>1 DEF PictureInv
  <2>7. ASSUME NEW v \in Workers, g \in entry \ clash, work'[v].at = "put", work'[v].name = g
        PROVE  work'[v].made = puts'[g]
    BY <1>3, <2>1, <2>4, <2>7 DEF ListedInv
  <2>8. ListedInv(g)'
    BY <2>1, <2>2, <2>3, <2>7 DEF ListedInv
  <2> QED
    BY <2>5, <2>6, <2>8 DEF NameInv
<1>8. ASSUME NEW v \in Workers PROVE WorkInv(v)'
  <2>1. CASE v = w
    BY <1>2, <1>3, <1>5, <2>1 DEF WorkInv
  <2>2. CASE v # w
    BY <1>5, <2>2 DEF WorkInv, LibraryInv
  <2> QED
    BY <2>1, <2>2
<1>9. importing' \cap entry' = {}
  BY DEF LibraryInv
<1> QED
  BY <1>6, <1>7, <1>8, <1>9 DEF LibraryInv, NameInv

LEMMA TellStep ==
    ASSUME LibraryInv, NEW w \in Workers, Tell(w),
           UNCHANGED <<entry, disk, old, puts, importing, del, gc, sweep, clash>>
    PROVE  LibraryInv'
<1> DEFINE f == work[w].name
           j == [st |-> "queued", by |-> Nobody, live |-> FALSE, tries |-> job[f].tries]
<1>1. /\ LibraryOK /\ work[w].at # "idle" /\ work' = [work EXCEPT ![w] = NoWork]
      /\ job' = job \/ job' = [job EXCEPT ![f] = NoJob] \/ job' = [job EXCEPT ![f] = j]
  BY DEF LibraryInv, Tell, At
<1>2. f \in Names /\ puts[f] # 0
  BY <1>1, AtWork
<1>3. j \in Jobs /\ NoJob \in Jobs
  BY <1>1, <1>2 DEF LibraryOK, NoJob, Jobs
<1>4. NoWork \in Runs /\ NoWork.at = "idle" /\ NoWork.name = Nobody
  BY DEF NoWork, Runs
<1> HIDE DEF f, j
<1>5. job' \in [Names -> Jobs] /\ \A g \in Names \ {f} : job'[g] = job[g]
  BY <1>1, <1>3 DEF LibraryOK
<1>6. \A g \in Names : job[g].st = "none" /\ puts[g] = 0 => job'[g].st = "none"
  BY <1>2, <1>5
<1>7. /\ NoWork.at # "idle" => NoWork.name \in Names
      /\ \A g \in Names : NoWork.name = g => puts[g] # 0
      /\ NoWork.at # "render" /\ NoWork.at # "check" /\ NoWork.at # "put"
  BY <1>4, NobodyIs
<1>8. /\ work' = [work EXCEPT ![w] = NoWork]
      /\ NoWork \in Runs /\ job' \in [Names -> Jobs]
  BY <1>1, <1>4, <1>5
<1> QED
  BY <1>6, <1>7, <1>8, RunStep

-----------------------------------------------------------------------------
(* The invariant, and what follows.                                         *)

LEMMA LibraryInitInv == LibraryInit => LibraryInv
<1> SUFFICES ASSUME LibraryInit PROVE LibraryInv
  OBVIOUS
<1>1. LibraryOK
  BY DEF LibraryInit, LibraryOK, NoJob, Jobs, NoWork, Runs, NoDel, Dels, NoSweep, Sweeps
<1>2. ASSUME NEW g \in Names PROVE NameInv(g)
  <2>1. /\ Image(g) \in Paths /\ Thumb(g) \in Paths /\ g # Nobody
    BY PathsDiffer, NobodyIs
  <2> QED
    BY <2>1 DEF LibraryInit, NameInv, UnusedInv, PictureInv, ListedInv, NoJob, NoWork, NoDel, NoSweep
<1>3. ASSUME NEW w \in Workers PROVE WorkInv(w)
  BY DEF LibraryInit, WorkInv, NoWork
<1>4. importing \cap entry = {}
  BY DEF LibraryInit
<1> QED
  BY <1>1, <1>2, <1>3, <1>4 DEF LibraryInv, NameInv

LEMMA LibraryStep == LibraryInv /\ [LibraryNext]_vars => LibraryInv'
<1> SUFFICES ASSUME LibraryInv, [LibraryNext]_vars PROVE LibraryInv'
  OBVIOUS
<1>1. ASSUME NEW w \in Workers, WorkStep(w) PROVE LibraryInv'
  <2>1. UNCHANGED <<entry, puts, importing, del, gc, sweep, clash>>
    BY <1>1 DEF WorkStep
  <2>2. CASE (Look(w) \/ Render(w) \/ Check(w)) /\ UNCHANGED <<disk, old, job>>
    BY <2>1, <2>2, RoundStep
  <2>3. CASE PutThumb(w) /\ UNCHANGED job
    BY <2>1, <2>3, PutThumbStep
  <2>4. CASE Tell(w) /\ UNCHANGED <<disk, old>>
    BY <2>1, <2>4, TellStep
  <2> QED
    BY <1>1, <2>2, <2>3, <2>4 DEF WorkStep
<1>2. CASE Background
  BY <1>1, <1>2, CollectStep, ClaimStep, RequestStep, SweepBatchStep, InsertStep, LapseStep,
     DeleteAllStep, DropImageStep, DropThumbStep, SweepScanStep, SweepJobsStep DEF Background
<1>3. CASE Requests
  BY <1>3, SaveStep, PromoteStep, ViewStep, DeleteRowsStep, RequestStep, SweepScanStep DEF Requests
<1>4. CASE Stops
  BY <1>4, BreakStep, RequestStep, StopWorkStep DEF Stops
<1>5. CASE UNCHANGED vars
  BY <1>5 DEF LibraryInv, LibraryOK, UnusedInv, PictureInv, ListedInv, WorkInv, vars
<1> QED
  BY <1>2, <1>3, <1>4, <1>5 DEF LibraryNext

\* The type invariant without the bounds of an instance, and what keeps names,
\* files, thumbnails and sweeps apart, hold in every state.
THEOREM AlwaysLibraryInv == LibrarySpec => []LibraryInv
BY LibraryInitInv, LibraryStep, PTL DEF LibrarySpec

\* A listed image has the file stored for it, and no thumbnail of another,
\* however saves, imports, deletions, collections, sweeps and workers meet
\* (mutations.py, maintenance.py, thumbnail_jobs.py).
THEOREM ListedTrueHolds == LibrarySpec => []ListedTrue
<1>1. LibraryInv => ListedTrue
  <2> SUFFICES ASSUME LibraryInv, NEW f \in entry \ clash
               PROVE  disk[Image(f)] = puts[f] /\ disk[Thumb(f)] \in {0, puts[f]}
    BY DEF ListedTrue
  <2>1. f \in Names
    BY DEF LibraryInv, LibraryOK
  <2> QED
    BY <2>1, Has DEF PictureInv, ListedInv
<1> QED
  BY <1>1, AlwaysLibraryInv, PTL

\* No sweep of a process that starts takes an image out of the gallery while
\* others serve: only a request to delete it does (maintenance.py).
THEOREM RowsKeptHolds == LibrarySpec => RowsKept
<1> DEFINE Kept == \A f \in entry \ clash : f \in entry' \/ f \in del'.todo
<1>1. LibraryInv /\ [LibraryNext]_vars => [Kept]_vars
  <2> SUFFICES ASSUME LibraryInv, [LibraryNext]_vars, NEW f \in entry \ clash
               PROVE  f \in entry' \/ f \in del'.todo
    OBVIOUS
  <2>1. f \in Names /\ ListedInv(f) /\ LibraryOK
    BY DEF LibraryInv, LibraryOK
  <2>2. ASSUME NEW F \in SUBSET entry, DeleteRows(F) PROVE f \in entry' \/ f \in del'.todo
    BY <2>1, <2>2 DEF DeleteRows, DropRows, NoDel
  <2>3. ASSUME DeleteAllRows PROVE f \in del'.todo
    <3>1. del.todo \cup entry \in SUBSET Names /\ Onward(del.todo \cup entry)
      BY <2>1, <2>3 DEF DeleteAllRows, LibraryOK, Dels
    <3> QED
      BY <2>1, <3>1, OnwardIs
  <2>4. ASSUME NEW g \in Names, SweepBatch(g) PROVE f \in entry'
    <3>1. g # f
      BY <2>1, <2>4 DEF SweepBatch, ListedInv
    <3> QED
      BY <2>4, <3>1 DEF SweepBatch, DropRows
  <2>5. ASSUME NEW g \in Names, Save(g) \/ InsertImport(g) PROVE f \in entry'
    BY <2>5 DEF Save, InsertImport, Insert
  <2>6. CASE Background
    <3>1. CASE \E p \in Paths : Grow(p) \/ CollectFile(p)
      BY <3>1 DEF Grow, CollectFile
    <3>2. CASE BeginGc
      BY <3>2 DEF BeginGc
    <3>3. CASE \E w \in Workers : WorkStep(w) \/ \E g \in Names : Claim(w, g)
      BY <3>3 DEF WorkStep, Claim
    <3>4. CASE \E g \in Names : TakeFile(g) \/ Lapse(g)
      BY <3>4 DEF TakeFile, Lapse
    <3>5. CASE DropImage \/ DropThumb
      BY <3>5 DEF DropImage, DropThumb
    <3>6. CASE SweepRows \/ SweepJobs
      BY <3>6 DEF SweepRows, SweepJobs
    <3> QED
      BY <2>3, <2>4, <2>5, <2>6, <3>1, <3>2, <3>3, <3>4, <3>5, <3>6 DEF Background
  <2>7. CASE Requests
    <3>1. CASE \E g \in Names : PromoteImport(g) \/ View(g)
      BY <3>1 DEF PromoteImport, View
    <3>2. CASE ScanAll \/ SweepScan
      BY <3>2 DEF ScanAll, SweepScan
    <3> QED
      BY <2>2, <2>5, <2>7, <3>1, <3>2 DEF Requests
  <2>8. CASE Stops
    BY <2>8 DEF Stops, BreakImport, StopDelete, StopWork
  <2>9. CASE UNCHANGED vars
    BY <2>9 DEF vars
  <2> QED
    BY <2>6, <2>7, <2>8, <2>9 DEF LibraryNext
<1> QED
  BY <1>1, AlwaysLibraryInv, PTL DEF LibrarySpec, RowsKept

=============================================================================
