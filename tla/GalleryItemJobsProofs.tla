------------------------- MODULE GalleryItemJobsProofs -------------------------
(***************************************************************************)
(* What makes the hand-over of a list of images safe, for every number of  *)
(* jobs, images, processes and claims: only the run that the last claim    *)
(* started can write, it knows every result that is stored, and where it   *)
(* stands determines what it still has to tell.                            *)
(***************************************************************************)
EXTENDS GalleryItemJobs, FiniteSetTheorems, TLAPS

-----------------------------------------------------------------------------
(* The inductive invariant.                                                 *)

\* Rows that were never claimed, and rows that nobody owns.
RowInv == \A j \in Jobs :
    /\ row[j].st \in {"none", "queued"} => claims[j] = 0 /\ stored[j] = Untold(j)
    /\ row[j].st # "running" => row[j].owner = Nobody /\ ~row[j].live

\* A run is that of a claim, and of the last one if it goes by the name of the
\* owner: a process has one run of a kind at a time.
RunsInv == \A j \in Jobs : \A t \in Claim(j) : Active(j, t) =>
    /\ t =< claims[j]
    /\ run[j][t].w \in Workers
    /\ run[j][t].w = row[j].owner => t = claims[j]

\* The run of the last claim knows what is stored.
KnowInv == \A j \in Jobs : \A t \in Claim(j) :
    Active(j, t) /\ t = claims[j] => \A i \in Images[j] : stored[j][i] \in {"none", Item(j, t, i)}

\* What a run still has to tell, by where it is.
Stands(j, t) ==
    /\ run[j][t].pc \in {"probe", "try", "gate", "final", "failing"} => KindOf(j) = "nodeimage"
    /\ run[j][t].pc \in {"begin", "probe", "gate"} => InFlight(j, t) = {}
    /\ At(j, t, "try") => \A i, k \in InFlight(j, t) : i = k
    /\ At(j, t, "final") => \A i \in Images[j] :
          Item(j, t, i) \in Known \/ (Item(j, t, i) = "none" /\ row[j].cancel)
    /\ At(j, t, "publish") => \A i \in Images[j] : Item(j, t, i) \in Known

StandInv == \A j \in Jobs : \A t \in Claim(j) : Stands(j, t)

ItemsInv == ItemsTypeOK /\ RowInv /\ RunsInv /\ KnowInv /\ StandInv /\ EveryImageAnswered

-----------------------------------------------------------------------------
(* Lemmas about the helpers.                                                *)

LEMMA ResultsType ==
    ASSUME NEW S, NEW items \in [S -> Known \cup Flight \cup {"none"}]
    PROVE  /\ Results(items) \in [S -> Known \cup {"none"}]
           /\ \A i \in S : Results(items)[i] = IF items[i] \in Known THEN items[i] ELSE "none"
BY DEF Results

\* A list in which everything is known is its own result.
LEMMA ResultsKnown ==
    ASSUME NEW S, NEW items \in [S -> Known \cup Flight \cup {"none"}],
           \A i \in S : items[i] \in Known
    PROVE  Results(items) = items
BY DEF Results

LEMMA VerdictEnds == \A kind, items : Verdict(kind, items) \in Ended
BY DEF Verdict, Ended

\* A run that is idle again, and one that is where it was put.
LEMMA RunPut ==
    ASSUME ItemsTypeOK, NEW j \in Jobs, NEW t \in Claim(j), NEW r \in RunRecord(j),
           run' = [run EXCEPT ![j][t] = r]
    PROVE  /\ run'[j][t] = r
           /\ \A k \in Jobs : \A s \in Claim(k) : k # j \/ s # t => run'[k][s] = run[k][s]
           /\ DOMAIN run' = Jobs /\ \A k \in Jobs : run'[k] \in [Claim(k) -> RunRecord(k)]
<1>1. DOMAIN run = Jobs /\ \A k \in Jobs : run[k] \in [Claim(k) -> RunRecord(k)]
  BY DEF ItemsTypeOK
<1>2. run' = [k \in Jobs |-> IF k = j THEN [run[j] EXCEPT ![t] = r] ELSE run[k]]
  BY <1>1
<1> QED
  BY <1>1, <1>2

-----------------------------------------------------------------------------
(* What one step of a run may do to its job.                                *)

Items(j) == [Images[j] -> Known \cup Flight \cup {"none"}]

\* It changes nothing of another job, and nothing of another run.
Alone(j, t) ==
    /\ claims' = claims
    /\ \A k \in Jobs : \A s \in Claim(k) : k # j \/ s # t => run'[k][s] = run[k][s]
    /\ \A k \in Jobs \ {j} : row'[k] = row[k] /\ stored'[k] = stored[k]

\* It forgets no result.
GoesOn(j, t) ==
    /\ Active(j, t)' /\ run'[j][t].w = run[j][t].w
    /\ \A i \in Images[j] : Item(j, t, i) \in Known => Item(j, t, i)' = Item(j, t, i)

\* What it writes while the job runs is what it knows by then.
Tells(j, t) ==
    /\ row'[j] = row[j]
    /\ \/ stored'[j] = stored[j] /\ (GoesOn(j, t) \/ run'[j][t] = Idle(j))
       \/ Owns(j, run[j][t].w) /\ GoesOn(j, t) /\ stored'[j] = Results(run'[j][t].item)

\* It ends the job, with the results it knows, or as one that was given up.
Ends(j, t) ==
    /\ Owns(j, run[j][t].w) /\ run'[j][t] = Idle(j)
    /\ \E st \in Ended :
          /\ row'[j] = [row[j] EXCEPT !.st = st, !.owner = Nobody, !.live = FALSE]
          /\ \/ st = "error" /\ At(j, t, "failing")
             \/ At(j, t, "publish") /\ st = Verdict(KindOf(j), run[j][t].item)
                /\ stored'[j] = Results(run[j][t].item)
    /\ \A i \in Images[j] : Item(j, t, i) \in Known => stored'[j][i] = Item(j, t, i)

StepOf(j, t) == /\ ItemsTypeOK'
                /\ Active(j, t)
                /\ Alone(j, t)
                /\ Tells(j, t) \/ Ends(j, t)

LEMMA IdleTyped == \A j \in Jobs : Idle(j) \in RunRecord(j) /\ Idle(j).pc \notin RunPc
BY DEF Idle, RunRecord, Untold, RunPc

\* A run that only moves.
LEMMA MoveStep ==
    ASSUME ItemsTypeOK, NEW j \in Jobs, NEW t \in Claim(j), Active(j, t),
           NEW pc \in RunPc, NEW items \in Items(j),
           \A i \in Images[j] : Item(j, t, i) \in Known => items[i] = Item(j, t, i),
           Move(j, t, pc, items), UNCHANGED <<row, claims, stored>>
    PROVE  StepOf(j, t) /\ run'[j][t].pc = pc /\ run'[j][t].item = items
<1> DEFINE r == [run[j][t] EXCEPT !.pc = pc, !.item = items]
<1>1. run[j][t] \in RunRecord(j) /\ run[j] \in [Claim(j) -> RunRecord(j)] /\ DOMAIN run = Jobs
  BY DEF ItemsTypeOK
<1>2. r \in RunRecord(j) /\ r.pc = pc /\ r.item = items /\ r.w = run[j][t].w
  BY <1>1 DEF RunRecord, Items
<1>3. run' = [run EXCEPT ![j][t] = r]
  BY <1>1 DEF Move
<1>4. /\ run'[j][t] = r
      /\ \A k \in Jobs : \A s \in Claim(k) : k # j \/ s # t => run'[k][s] = run[k][s]
      /\ DOMAIN run' = Jobs /\ \A k \in Jobs : run'[k] \in [Claim(k) -> RunRecord(k)]
  <2> HIDE DEF r
  <2> QED
    BY <1>2, <1>3, RunPut
<1>5. ItemsTypeOK'
  BY <1>4 DEF ItemsTypeOK, RowsTypeOK
<1>6. GoesOn(j, t)
  BY <1>2, <1>4 DEF GoesOn, Active, Item
<1> QED
  BY <1>2, <1>4, <1>5, <1>6 DEF StepOf, Alone, Tells

\* A run that stops without a word.
LEMMA QuitStep ==
    ASSUME ItemsTypeOK, NEW j \in Jobs, NEW t \in Claim(j), Active(j, t),
           Quit(j, t), UNCHANGED <<row, claims, stored>>
    PROVE  StepOf(j, t) /\ run'[j][t] = Idle(j)
<1>1. /\ run'[j][t] = Idle(j)
      /\ \A k \in Jobs : \A s \in Claim(k) : k # j \/ s # t => run'[k][s] = run[k][s]
      /\ DOMAIN run' = Jobs /\ \A k \in Jobs : run'[k] \in [Claim(k) -> RunRecord(k)]
  BY IdleTyped, RunPut DEF Quit
<1>2. ItemsTypeOK'
  BY <1>1 DEF ItemsTypeOK, RowsTypeOK
<1> QED
  BY <1>1, <1>2 DEF StepOf, Alone, Tells

\* A run that stores what it knows, or finds that it may not.
LEMMA StoreStep ==
    ASSUME ItemsTypeOK, NEW j \in Jobs, NEW t \in Claim(j), Active(j, t),
           NEW pc \in RunPc, NEW items \in Items(j),
           \A i \in Images[j] : Item(j, t, i) \in Known => items[i] = Item(j, t, i),
           Store(j, t, pc, items), claims' = claims
    PROVE  /\ StepOf(j, t) /\ row' = row
           /\ \/ run'[j][t].pc = pc /\ run'[j][t].item = items
              \/ run'[j][t] = Idle(j)
<1>1. CASE Fence(j, t)
  BY <1>1, QuitStep DEF Fence
<1>2. CASE Fenced(j, t, items) /\ Move(j, t, pc, items)
  <2> DEFINE r == [run[j][t] EXCEPT !.pc = pc, !.item = items]
  <2>1. run[j][t] \in RunRecord(j) /\ run[j] \in [Claim(j) -> RunRecord(j)] /\ DOMAIN run = Jobs
    BY DEF ItemsTypeOK
  <2>2. r \in RunRecord(j) /\ r.pc = pc /\ r.item = items /\ r.w = run[j][t].w
    BY <2>1 DEF RunRecord, Items
  <2>3. run' = [run EXCEPT ![j][t] = r]
    BY <1>2, <2>1 DEF Move
  <2>4. /\ run'[j][t] = r
        /\ \A k \in Jobs : \A s \in Claim(k) : k # j \/ s # t => run'[k][s] = run[k][s]
        /\ DOMAIN run' = Jobs /\ \A k \in Jobs : run'[k] \in [Claim(k) -> RunRecord(k)]
    <3> HIDE DEF r
    <3> QED
      BY <2>2, <2>3, RunPut
  <2>5. /\ Owns(j, run[j][t].w) /\ row' = row
        /\ stored' = [stored EXCEPT ![j] = Results(items)]
    BY <1>2 DEF Fenced
  <2>6. Results(items) \in [Images[j] -> Known \cup {"none"}]
    BY ResultsType DEF Items
  <2>7. ItemsTypeOK'
    BY <2>4, <2>5, <2>6 DEF ItemsTypeOK, RowsTypeOK
  <2>8. GoesOn(j, t)
    BY <2>2, <2>4 DEF GoesOn, Active, Item
  <2>9. stored'[j] = Results(run'[j][t].item) /\ \A k \in Jobs \ {j} : stored'[k] = stored[k]
    BY <2>2, <2>4, <2>5 DEF ItemsTypeOK
  <2> QED
    BY <2>2, <2>4, <2>5, <2>7, <2>8, <2>9 DEF StepOf, Alone, Tells
<1> QED
  BY <1>1, <1>2 DEF Store

-----------------------------------------------------------------------------
(* Every step of a run is such a step, and leaves the run where it may      *)
(* stand.                                                                   *)

LEMMA IdleStands ==
    ASSUME NEW j \in Jobs, NEW t \in Claim(j), run'[j][t] = Idle(j)
    PROVE  Stands(j, t)'
BY DEF Stands, Idle, At

LEMMA StoreStands ==
    ASSUME NEW j \in Jobs, NEW t \in Claim(j), NEW pc, NEW items,
           \/ run'[j][t].pc = pc /\ run'[j][t].item = items
           \/ run'[j][t] = Idle(j),
           run'[j][t].pc = pc /\ run'[j][t].item = items => Stands(j, t)'
    PROVE  Stands(j, t)'
BY IdleStands

LEMMA ItemTyped ==
    ASSUME ItemsTypeOK, NEW j \in Jobs, NEW t \in Claim(j)
    PROVE  /\ run[j][t] \in RunRecord(j) /\ run[j][t].item \in Items(j)
           /\ \A i \in Images[j] : Item(j, t, i) \in Known \cup Flight \cup {"none"}
           /\ Todo(j, t) \cup InFlight(j, t) \subseteq Images[j]
           /\ KindOf(j)' = row'[j].kind
BY DEF ItemsTypeOK, RunRecord, Items, Item, Todo, InFlight, RowsTypeOK, Row, KindOf, Kinds

LEMMA BeginStep ==
    ASSUME ItemsTypeOK, NEW j \in Jobs, NEW t \in Claim(j), Stands(j, t), Begin(j, t)
    PROVE  StepOf(j, t) /\ Stands(j, t)'
<1>0. /\ Active(j, t) /\ claims' = claims /\ InFlight(j, t) = {}
      /\ run[j][t].item \in Items(j)
  BY ItemTyped DEF Begin, At, Active, RunPc, Stands
<1>1. CASE KindOf(j) = "nodeimage"
  <2>1. PICK gone \in SUBSET Todo(j, t) :
           Store(j, t, "probe", [i \in Images[j] |-> IF i \in gone THEN "error" ELSE Item(j, t, i)])
    BY <1>1 DEF Begin
  <2> DEFINE items == [i \in Images[j] |-> IF i \in gone THEN "error" ELSE Item(j, t, i)]
  <2>2. items \in Items(j)
    BY ItemTyped DEF Items, Known
  <2>3. \A i \in Images[j] : Item(j, t, i) \in Known => items[i] = Item(j, t, i)
    BY DEF Todo, Known
  <2>4. \A i \in Images[j] : items[i] \notin Flight
    BY <1>0 DEF InFlight, Flight
  <2> HIDE DEF items
  <2>5. /\ StepOf(j, t) /\ row' = row
        /\ \/ run'[j][t].pc = "probe" /\ run'[j][t].item = items
           \/ run'[j][t] = Idle(j)
    BY <1>0, <2>1, <2>2, <2>3, StoreStep DEF RunPc, items
  <2>6. ASSUME run'[j][t].pc = "probe" /\ run'[j][t].item = items PROVE Stands(j, t)'
    BY <1>1, <2>4, <2>5, <2>6 DEF Stands, At, InFlight, Item, KindOf
  <2> QED
    BY <2>5, <2>6, StoreStands
<1>2. CASE KindOf(j) # "nodeimage"
  <2> DEFINE pc == Onward(KindOf(j), run[j][t].item)
  <2>1. Store(j, t, pc, run[j][t].item)
    BY <1>2 DEF Begin
  <2>2. /\ pc = "batch" \/ (pc = "publish" /\ \A i \in Images[j] : Item(j, t, i) \in Known)
        /\ pc \in RunPc
    BY <1>2, <1>0 DEF Onward, RunPc, Item, Items
  <2> HIDE DEF pc
  <2>3. /\ StepOf(j, t) /\ row' = row
        /\ \/ run'[j][t].pc = pc /\ run'[j][t].item = run[j][t].item
           \/ run'[j][t] = Idle(j)
    BY <1>0, <2>1, <2>2, StoreStep DEF Item
  <2>4. ASSUME run'[j][t].pc = pc /\ run'[j][t].item = run[j][t].item PROVE Stands(j, t)'
    BY <2>2, <2>4 DEF Stands, At, Item
  <2> QED
    BY <2>3, <2>4, StoreStands
<1> QED
  BY <1>1, <1>2

\* The steps that only move the run.
LEMMA GoStep ==
    ASSUME ItemsTypeOK, NEW j \in Jobs, NEW t \in Claim(j), Active(j, t),
           NEW pc \in RunPc, Go(j, t, pc), UNCHANGED <<row, claims, stored>>
    PROVE  StepOf(j, t) /\ run'[j][t].pc = pc /\ run'[j][t].item = run[j][t].item
<1>1. run[j][t] \in RunRecord(j) /\ run[j] \in [Claim(j) -> RunRecord(j)] /\ DOMAIN run = Jobs
  BY DEF ItemsTypeOK
<1>2. Move(j, t, pc, run[j][t].item)
  <2>1. [run[j][t] EXCEPT !.pc = pc] = [[run[j][t] EXCEPT !.pc = pc] EXCEPT !.item = run[j][t].item]
    BY <1>1 DEF RunRecord
  <2> QED
    BY <1>1, <2>1 DEF Go, Move
<1> QED
  BY <1>2, MoveStep, ItemTyped DEF Item

LEMMA ProbeStep ==
    ASSUME ItemsTypeOK, NEW j \in Jobs, NEW t \in Claim(j), Stands(j, t), Probe(j, t)
    PROVE  StepOf(j, t) /\ Stands(j, t)'
<1>1. /\ Active(j, t) /\ UNCHANGED <<row, claims, stored>>
      /\ InFlight(j, t) = {} /\ KindOf(j) = "nodeimage"
  BY DEF Probe, At, Active, RunPc, Stands
<1>2. PICK pc \in {"gate", "try"} : Go(j, t, pc)
  BY DEF Probe
<1>3. StepOf(j, t) /\ run'[j][t].pc = pc /\ run'[j][t].item = run[j][t].item
  BY <1>1, <1>2, GoStep DEF RunPc
<1> QED
  BY <1>1, <1>3 DEF Stands, At, InFlight, Item, KindOf

LEMMA GateStep ==
    ASSUME ItemsTypeOK, NEW j \in Jobs, NEW t \in Claim(j), Stands(j, t), Gate(j, t)
    PROVE  StepOf(j, t) /\ Stands(j, t)'
<1>1. /\ Active(j, t) /\ UNCHANGED <<row, claims, stored>>
      /\ InFlight(j, t) = {} /\ KindOf(j) = "nodeimage"
  BY DEF Gate, At, Active, RunPc, Stands
<1>2. PICK pc \in {"final", "batch"} :
         Go(j, t, pc) /\ (pc = "final" => Todo(j, t) = {} \/ CancelSeen(j))
  BY DEF Gate
<1>3. StepOf(j, t) /\ run'[j][t].pc = pc /\ run'[j][t].item = run[j][t].item
  BY <1>1, <1>2, GoStep DEF RunPc
<1>4. \A i \in Images[j] : Item(j, t, i) \in Known \/ Item(j, t, i) = "none"
  BY <1>1, ItemTyped DEF InFlight
<1>5. pc = "final" => \A i \in Images[j] :
          Item(j, t, i) \in Known \/ (Item(j, t, i) = "none" /\ row[j].cancel)
  BY <1>2, <1>4 DEF Todo, CancelSeen
<1> QED
  BY <1>1, <1>2, <1>3, <1>5 DEF Stands, At, InFlight, Item, KindOf

LEMMA FinalStep ==
    ASSUME ItemsTypeOK, NEW j \in Jobs, NEW t \in Claim(j), Stands(j, t), Final(j, t)
    PROVE  StepOf(j, t) /\ Stands(j, t)'
<1> DEFINE items == [i \in Images[j] |-> IF CancelSeen(j) /\ Item(j, t, i) = "none"
                                      THEN "cancelled" ELSE Item(j, t, i)]
<1>1. /\ Active(j, t) /\ UNCHANGED <<row, claims, stored>> /\ Move(j, t, "publish", items)
      /\ \A i \in Images[j] : Item(j, t, i) \in Known \/ (Item(j, t, i) = "none" /\ CancelSeen(j))
  BY DEF Final, At, Active, RunPc, Stands, CancelSeen
<1>2. items \in Items(j) /\ \A i \in Images[j] : items[i] \in Known
  BY <1>1, ItemTyped DEF Items, Known
<1>3. \A i \in Images[j] : Item(j, t, i) \in Known => items[i] = Item(j, t, i)
  BY DEF Known
<1> HIDE DEF items
<1>4. StepOf(j, t) /\ run'[j][t].pc = "publish" /\ run'[j][t].item = items
  BY <1>1, <1>2, <1>3, MoveStep DEF RunPc
<1> QED
  BY <1>2, <1>4 DEF Stands, At, Item

\* The steps of a batch, and of the image that is tried first.
LEMMA UnreadableStep ==
    ASSUME ItemsTypeOK, NEW j \in Jobs, NEW t \in Claim(j), Stands(j, t),
           NEW i \in Images[j], Unreadable(j, t, i)
    PROVE  StepOf(j, t) /\ Stands(j, t)'
<1> DEFINE items == [run[j][t].item EXCEPT ![i] = "error"]
<1>1. /\ Active(j, t) /\ claims' = claims /\ Store(j, t, "probe", items)
      /\ InFlight(j, t) = {} /\ KindOf(j) = "nodeimage" /\ Item(j, t, i) = "none"
  BY DEF Unreadable, At, Active, RunPc, Stands, Todo
<1>2. /\ items \in Items(j) /\ items[i] = "error"
      /\ \A k \in Images[j] : k # i => items[k] = Item(j, t, k)
  BY ItemTyped DEF Items, Known, Item
<1> HIDE DEF items
<1>3. \A k \in Images[j] : Item(j, t, k) \in Known => items[k] = Item(j, t, k)
  BY <1>1, <1>2 DEF Known
<1>4. \A k \in Images[j] : items[k] \notin Flight
  BY <1>1, <1>2 DEF InFlight, Flight
<1>5. /\ StepOf(j, t) /\ row' = row
      /\ \/ run'[j][t].pc = "probe" /\ run'[j][t].item = items
         \/ run'[j][t] = Idle(j)
  BY <1>1, <1>2, <1>3, StoreStep DEF RunPc
<1>6. ASSUME run'[j][t].pc = "probe" /\ run'[j][t].item = items PROVE Stands(j, t)'
  BY <1>1, <1>4, <1>5, <1>6 DEF Stands, At, InFlight, Item, KindOf
<1> QED
  BY <1>5, <1>6, StoreStands

LEMMA TakeStep ==
    ASSUME ItemsTypeOK, NEW j \in Jobs, NEW t \in Claim(j), Stands(j, t),
           NEW i \in Images[j], Take(j, t, i)
    PROVE  StepOf(j, t) /\ Stands(j, t)'
<1>1. PICK what \in Flight : Move(j, t, run[j][t].pc, [run[j][t].item EXCEPT ![i] = what])
  BY DEF Take, Flight
<1> DEFINE items == [run[j][t].item EXCEPT ![i] = what]
           pc == run[j][t].pc
<1>2. /\ Active(j, t) /\ UNCHANGED <<row, claims, stored>>
      /\ Item(j, t, i) = "none" /\ pc \in {"try", "batch"} /\ pc \in RunPc
      /\ pc = "try" => KindOf(j) = "nodeimage" /\ Cardinality(InFlight(j, t)) < 1
  BY DEF Take, Active, RunPc, Stands, At, Todo
<1>3. /\ items \in Items(j) /\ items[i] = what
      /\ \A k \in Images[j] : k # i => items[k] = Item(j, t, k)
  BY ItemTyped DEF Items, Item
<1>4. pc = "try" => InFlight(j, t) = {}
  <2>1. IsFiniteSet(InFlight(j, t))
    BY ItemsAssumption, FS_Subset DEF InFlight
  <2> QED
    BY <1>2, <2>1, FS_CardinalityType, FS_EmptySet
<1> HIDE DEF items, pc
<1>5. \A k \in Images[j] : Item(j, t, k) \in Known => items[k] = Item(j, t, k)
  BY <1>2, <1>3 DEF Known
<1>6. StepOf(j, t) /\ run'[j][t].pc = pc /\ run'[j][t].item = items
  BY <1>1, <1>2, <1>3, <1>5, MoveStep DEF items, pc
<1>7. pc = "try" => \A a, b \in InFlight(j, t)' : a = b
  BY <1>3, <1>4, <1>6 DEF InFlight, Item
<1> QED
  BY <1>2, <1>6, <1>7 DEF Stands, At, KindOf

LEMMA KeepStep ==
    ASSUME ItemsTypeOK, NEW j \in Jobs, NEW t \in Claim(j), Stands(j, t),
           NEW i \in Images[j], Keep(j, t, i)
    PROVE  StepOf(j, t) /\ Stands(j, t)'
<1> DEFINE itemsOf(result) == [run[j][t].item EXCEPT ![i] = result]
           pcOf(items) == IF At(j, t, "try") THEN "gate" ELSE Onward(KindOf(j), items)
<1>1. PICK result \in Known : Store(j, t, pcOf(itemsOf(result)), itemsOf(result))
  <2>1. PICK result \in Outcomes[Item(j, t, i)] : Store(j, t, pcOf(itemsOf(result)), itemsOf(result))
    BY DEF Keep
  <2>2. Item(j, t, i) \in Flight
    BY DEF Keep, InFlight
  <2>3. Outcomes[Item(j, t, i)] \subseteq Known
    BY <2>2 DEF Outcomes, Known, Flight
  <2> QED
    BY <2>1, <2>3
<1> DEFINE items == itemsOf(result)
           pc == pcOf(items)
<1>w. Store(j, t, pc, items)
  BY <1>1
<1>2. /\ Active(j, t) /\ claims' = claims /\ run[j][t].pc \in {"try", "batch"}
      /\ Item(j, t, i) \in Flight
      /\ At(j, t, "try") => KindOf(j) = "nodeimage" /\ \A a \in InFlight(j, t) : a = i
  BY DEF Keep, Active, RunPc, InFlight, Stands, At
<1>3. /\ items \in Items(j) /\ items[i] = result
      /\ \A k \in Images[j] : k # i => items[k] = Item(j, t, k)
  BY ItemTyped DEF Items, Item
<1>4. \A k \in Images[j] : Item(j, t, k) \in Known => items[k] = Item(j, t, k)
  BY <1>2, <1>3 DEF Known, Flight
<1> HIDE DEF items, itemsOf
<1>5. /\ pc \in RunPc
      /\ \/ pc = "gate" /\ KindOf(j) = "nodeimage" /\ \A k \in Images[j] : items[k] \notin Flight
         \/ pc = "batch"
         \/ /\ pc = "publish" \/ (pc = "final" /\ KindOf(j) = "nodeimage")
            /\ \A k \in Images[j] : items[k] \in Known
  <2>1. CASE At(j, t, "try")
    BY <1>2, <1>3, <2>1 DEF RunPc, InFlight, Known, Flight
  <2>2. CASE ~At(j, t, "try")
    <3>1. DOMAIN items = Images[j]
      BY <1>3 DEF Items
    <3>2. pc = Onward(KindOf(j), items)
      BY <2>2
    <3> QED
      BY <3>1, <3>2 DEF Onward, RunPc
  <2> QED
    BY <2>1, <2>2
<1> HIDE DEF pc, pcOf
<1>6. /\ StepOf(j, t) /\ row' = row
      /\ \/ run'[j][t].pc = pc /\ run'[j][t].item = items
         \/ run'[j][t] = Idle(j)
  BY <1>w, <1>2, <1>3, <1>4, <1>5, StoreStep
<1>7. ASSUME run'[j][t].pc = pc /\ run'[j][t].item = items PROVE Stands(j, t)'
  BY <1>5, <1>6, <1>7 DEF Stands, At, InFlight, Item, KindOf
<1> QED
  BY <1>6, <1>7, StoreStands

\* The steps that end the job.
LEMMA EndRow ==
    ASSUME RowsTypeOK, NEW j \in Jobs, NEW st \in Ended, End(j, st)
    PROVE  /\ row' \in [Jobs -> Row]
           /\ row'[j] = [row[j] EXCEPT !.st = st, !.owner = Nobody, !.live = FALSE]
           /\ \A k \in Jobs \ {j} : row'[k] = row[k]
<1>1. row \in [Jobs -> Row] /\ row[j] \in Row
  BY DEF RowsTypeOK
<1>2. row' = [row EXCEPT ![j] = [row[j] EXCEPT !.st = st, !.owner = Nobody, !.live = FALSE]]
  BY <1>1 DEF End
<1>3. [row[j] EXCEPT !.st = st, !.owner = Nobody, !.live = FALSE] \in Row
  BY <1>1 DEF Row
<1> QED
  BY <1>1, <1>2, <1>3

LEMMA EndStep ==
    ASSUME ItemsTypeOK, NEW j \in Jobs, NEW t \in Claim(j), Active(j, t), claims' = claims,
           Owns(j, run[j][t].w), Quit(j, t),
           NEW st \in Ended, End(j, st),
           NEW told \in [Images[j] -> Known \cup {"none"}], stored' = [stored EXCEPT ![j] = told],
           \/ st = "error" /\ At(j, t, "failing")
           \/ /\ At(j, t, "publish") /\ st = Verdict(KindOf(j), run[j][t].item)
              /\ told = Results(run[j][t].item),
           \A i \in Images[j] : Item(j, t, i) \in Known => told[i] = Item(j, t, i)
    PROVE  StepOf(j, t) /\ Stands(j, t)'
<1>1. /\ run'[j][t] = Idle(j)
      /\ \A k \in Jobs : \A s \in Claim(k) : k # j \/ s # t => run'[k][s] = run[k][s]
      /\ DOMAIN run' = Jobs /\ \A k \in Jobs : run'[k] \in [Claim(k) -> RunRecord(k)]
  BY IdleTyped, RunPut DEF Quit
<1>2. /\ row' \in [Jobs -> Row]
      /\ row'[j] = [row[j] EXCEPT !.st = st, !.owner = Nobody, !.live = FALSE]
      /\ \A k \in Jobs \ {j} : row'[k] = row[k]
  BY EndRow DEF ItemsTypeOK
<1>3. stored'[j] = told /\ \A k \in Jobs \ {j} : stored'[k] = stored[k]
  BY DEF ItemsTypeOK
<1>4. ItemsTypeOK'
  BY <1>1, <1>2, <1>3 DEF ItemsTypeOK, RowsTypeOK
<1>5. Alone(j, t)
  BY <1>1, <1>2, <1>3 DEF Alone
<1>6. Ends(j, t)
  BY <1>1, <1>2, <1>3 DEF Ends
<1> QED
  BY <1>1, <1>4, <1>5, <1>6, IdleStands DEF StepOf

LEMMA PublishStep ==
    ASSUME ItemsTypeOK, NEW j \in Jobs, NEW t \in Claim(j), Stands(j, t), PublishEnd(j, t)
    PROVE  StepOf(j, t) /\ Stands(j, t)'
<1>1. Active(j, t) /\ At(j, t, "publish") /\ claims' = claims
  BY DEF PublishEnd, At, Active, RunPc
<1>2. CASE Fence(j, t)
  BY <1>1, <1>2, QuitStep, IdleStands DEF Fence
<1>3. CASE /\ Owns(j, run[j][t].w) /\ End(j, Verdict(KindOf(j), run[j][t].item))
           /\ stored' = [stored EXCEPT ![j] = Results(run[j][t].item)]
           /\ Quit(j, t)
  <2>1. /\ Results(run[j][t].item) \in [Images[j] -> Known \cup {"none"}]
        /\ \A i \in Images[j] : Item(j, t, i) \in Known => Results(run[j][t].item)[i] = Item(j, t, i)
    BY ItemTyped, ResultsType DEF Items, Item
  <2> QED
    BY <1>1, <1>3, <2>1, VerdictEnds, EndStep
<1> QED
  BY <1>2, <1>3 DEF PublishEnd, MayEnd

LEMMA GiveUpStep ==
    ASSUME ItemsTypeOK, NEW j \in Jobs, NEW t \in Claim(j), Stands(j, t), GiveUp(j, t)
    PROVE  StepOf(j, t) /\ Stands(j, t)'
<1>1. Active(j, t) /\ At(j, t, "failing") /\ claims' = claims
  BY DEF GiveUp, At, Active, RunPc
<1>2. CASE Fence(j, t)
  BY <1>1, <1>2, QuitStep, IdleStands DEF Fence
<1>3. ASSUME Owns(j, run[j][t].w), End(j, "error"), Quit(j, t),
             NEW found \in SUBSET Images[j],
             stored' = [stored EXCEPT ![j] = [i \in Images[j] |->
                           IF Item(j, t, i) \in Known THEN Item(j, t, i)
                           ELSE IF i \in found THEN "error" ELSE "none"]]
      PROVE  StepOf(j, t) /\ Stands(j, t)'
  <2> DEFINE told == [i \in Images[j] |-> IF Item(j, t, i) \in Known THEN Item(j, t, i)
                                       ELSE IF i \in found THEN "error" ELSE "none"]
  <2>1. /\ told \in [Images[j] -> Known \cup {"none"}]
        /\ \A i \in Images[j] : Item(j, t, i) \in Known => told[i] = Item(j, t, i)
    BY DEF Known
  <2>2. "error" \in Ended /\ stored' = [stored EXCEPT ![j] = told]
    BY <1>3 DEF Ended
  <2> HIDE DEF told
  <2> QED
    BY <1>1, <1>3, <2>1, <2>2, EndStep
<1> QED
  BY <1>2, <1>3 DEF GiveUp

LEMMA RaiseStep ==
    ASSUME ItemsTypeOK, NEW j \in Jobs, NEW t \in Claim(j), Stands(j, t), Raise(j, t)
    PROVE  StepOf(j, t) /\ Stands(j, t)'
<1>1. Active(j, t) /\ UNCHANGED <<row, claims, stored>>
  BY DEF Raise
<1>2. CASE KindOf(j) = "nodeimage" /\ Go(j, t, "failing")
  <2>1. StepOf(j, t) /\ run'[j][t].pc = "failing"
    BY <1>1, <1>2, GoStep DEF RunPc
  <2> QED
    BY <1>1, <1>2, <2>1 DEF Stands, At, KindOf
<1>3. CASE Quit(j, t)
  BY <1>1, <1>3, QuitStep, IdleStands
<1> QED
  BY <1>2, <1>3 DEF Raise

LEMMA EveryRunStep ==
    ASSUME ItemsTypeOK, NEW j \in Jobs, NEW t \in Claim(j), Stands(j, t),
           RunStep(j, t) \/ Raise(j, t)
    PROVE  StepOf(j, t) /\ Stands(j, t)'
BY BeginStep, ProbeStep, GateStep, UnreadableStep, TakeStep, KeepStep, FinalStep, PublishStep,
   GiveUpStep, RaiseStep DEF RunStep

-----------------------------------------------------------------------------
(* Steps of runs keep the invariant.                                        *)

\* Only the run of the last claim owns its job.
LEMMA OwnerIsLast ==
    ASSUME RunsInv, NEW j \in Jobs, NEW t \in Claim(j), Active(j, t), Owns(j, run[j][t].w)
    PROVE  t = claims[j]
BY DEF RunsInv, Owns

LEMMA RunStepKeeps ==
    ASSUME ItemsInv, NEW j \in Jobs, NEW t \in Claim(j), StepOf(j, t), Stands(j, t)'
    PROVE  ItemsInv'
<1> USE DEF ItemsInv
<1>0. /\ Active(j, t) /\ Alone(j, t) /\ ItemsTypeOK'
      /\ Tells(j, t) \/ Ends(j, t)
      /\ row[j] \in Row
      /\ run'[j][t] = Idle(j) \/ GoesOn(j, t)
      /\ row'[j].kind = row[j].kind /\ row'[j].cancel = row[j].cancel
  BY DEF StepOf, Tells, Ends, ItemsTypeOK, RowsTypeOK, Row
<1>1. RowInv'
  <2> SUFFICES ASSUME NEW k \in Jobs
               PROVE  /\ row'[k].st \in {"none", "queued"} => claims'[k] = 0 /\ stored'[k] = Untold(k)
                      /\ row'[k].st # "running" => row'[k].owner = Nobody /\ ~row'[k].live
    BY DEF RowInv, Untold
  <2>1. CASE k # j
    BY <1>0, <2>1 DEF RowInv, Alone
  <2>2. CASE k = j /\ Tells(j, t)
    BY <1>0, <2>2 DEF RowInv, Alone, Tells, Owns
  <2>3. CASE k = j /\ Ends(j, t)
    BY <1>0, <2>3 DEF Ends, Ended, Row
  <2> QED
    BY <1>0, <2>1, <2>2, <2>3
<1>2. RunsInv'
  <2> SUFFICES ASSUME NEW k \in Jobs, NEW s \in Claim(k), Active(k, s)'
               PROVE  /\ s =< claims'[k] /\ run'[k][s].w \in Workers
                      /\ run'[k][s].w = row'[k].owner => s = claims'[k]
    BY DEF RunsInv, Claim
  <2>1. Active(k, s) /\ run'[k][s].w = run[k][s].w /\ claims' = claims
    <3>1. CASE k = j /\ s = t
      BY <1>0, <3>1, IdleTyped DEF GoesOn, Active, Alone
    <3>2. CASE k # j \/ s # t
      BY <1>0, <3>2 DEF Alone, Active
    <3> QED
      BY <3>1, <3>2
  <2>2. run[k][s].w \in Workers /\ s =< claims[k]
    BY <2>1 DEF RunsInv
  <2>3. row'[k].owner \in {row[k].owner, Nobody}
    <3>1. CASE k = j
      BY <1>0, <3>1 DEF Tells, Ends, Row
    <3>2. CASE k # j
      BY <1>0, <3>2 DEF Alone
    <3> QED
      BY <3>1, <3>2
  <2> QED
    BY <2>1, <2>2, <2>3, JobsAssumption DEF RunsInv
<1>3. KnowInv'
  <2> SUFFICES ASSUME NEW k \in Jobs, NEW s \in Claim(k), Active(k, s)', s = claims'[k],
                      NEW i \in Images[k]
               PROVE  stored'[k][i] \in {"none", Item(k, s, i)'}
    BY DEF KnowInv, Claim, Item
  <2>0. claims' = claims
    BY <1>0 DEF Alone
  <2>1. CASE k # j
    BY <1>0, <2>0, <2>1 DEF KnowInv, Alone, Active, Item
  <2>2. CASE k = j /\ s # t
    <3>1. ~Owns(j, run[j][t].w)
      BY <1>0, <2>0, <2>2, OwnerIsLast
    <3>2. stored'[j] = stored[j]
      BY <1>0, <3>1 DEF Tells, Ends
    <3> QED
      BY <1>0, <2>0, <2>2, <3>2 DEF KnowInv, Alone, Active, Item
  <2>3. CASE k = j /\ s = t
    <3>1. GoesOn(j, t)
      BY <1>0, <2>3, IdleTyped DEF Active
    <3>2. CASE stored'[j] = stored[j]
      <4>1. stored[j][i] \in {"none", Item(j, t, i)} /\ stored[j][i] \in Known \cup {"none"}
        BY <1>0, <2>0, <2>3 DEF KnowInv, ItemsTypeOK
      <4> QED
        BY <2>3, <3>1, <3>2, <4>1 DEF GoesOn
    <3>3. CASE stored'[j] = Results(run'[j][t].item)
      <4>1. run'[j][t].item \in Items(j)
        BY <1>0 DEF ItemsTypeOK, RunRecord, Items
      <4>2. stored'[j][i] \in {"none", run'[j][t].item[i]}
        BY <2>3, <3>3, <4>1, ResultsType DEF Items
      <4> QED
        BY <2>3, <4>2 DEF Item
    <3>4. Tells(j, t)
      BY <1>0, <2>3, IdleTyped DEF Ends, Active
    <3> QED
      BY <3>2, <3>3, <3>4 DEF Tells
  <2> QED
    BY <2>1, <2>2, <2>3
<1>4. StandInv'
  <2> SUFFICES ASSUME NEW k \in Jobs, NEW s \in Claim(k), k # j \/ s # t PROVE Stands(k, s)'
    BY DEF StandInv, Claim
  <2>1. /\ run'[k][s] = run[k][s] /\ row'[k].kind = row[k].kind
        /\ row'[k].cancel = row[k].cancel /\ Stands(k, s)
    BY <1>0 DEF Alone, StandInv
  <2> QED
    BY <2>1 DEF Stands, At, InFlight, Item, KindOf
<1>5. EveryImageAnswered'
  <2> SUFFICES ASSUME NEW k \in Jobs, row'[k].st \in Ended,
                      ~(row'[k].kind = "nodeimage" /\ row'[k].st = "error")
               PROVE  /\ \A i \in Images[k] : stored'[k][i] # "none"
                      /\ row'[k].st = Verdict(row'[k].kind, stored'[k])
    BY DEF EveryImageAnswered, KindOf
  <2>1. CASE row'[k] = row[k] /\ stored'[k] = stored[k]
    BY <2>1 DEF EveryImageAnswered, KindOf
  <2>2. CASE k = j /\ Ends(j, t)
    <3>1. /\ row'[j].st = Verdict(row[j].kind, run[j][t].item) /\ At(j, t, "publish")
          /\ stored'[j] = Results(run[j][t].item)
      <4>1. At(j, t, "failing") => row[j].kind = "nodeimage"
        BY DEF StandInv, Stands, At, KindOf
      <4> QED
        BY <1>0, <2>2, <4>1 DEF Ends, Row, KindOf
    <3>2. \A i \in Images[j] : run[j][t].item[i] \in Known
      BY <3>1 DEF StandInv, Stands, Item
    <3>3. stored'[j] = run[j][t].item
      BY <3>1, <3>2, ResultsKnown, ItemTyped DEF Items
    <3> QED
      BY <1>0, <2>2, <3>1, <3>2, <3>3 DEF Known
  <2>3. CASE k = j /\ Tells(j, t) /\ Owns(j, run[j][t].w)
    BY <2>3 DEF Tells, Owns, Ended
  <2> QED
    BY <1>0, <2>1, <2>2, <2>3 DEF Alone, Tells
<1> QED
  BY <1>0, <1>1, <1>2, <1>3, <1>4, <1>5

-----------------------------------------------------------------------------
(* Claims, and what others do, keep it too.                                 *)

LEMMA StartKeeps ==
    ASSUME ItemsInv, NEW j \in Jobs, NEW w \in Workers, Start(j, w)
    PROVE  ItemsInv'
<1> USE DEF ItemsInv
<1> DEFINE n == claims[j] + 1
           new == [pc |-> "begin", w |-> w, item |-> stored[j]]
           claimed == [row[j] EXCEPT !.st = "running", !.owner = w, !.live = TRUE]
<1>0. /\ ItemsTypeOK /\ row[j] \in Row /\ stored' = stored
      /\ claims[j] \in Nat /\ MaxClaims[j] \in Nat /\ n \in Claim(j)
      /\ stored[j] \in [Images[j] -> Known \cup {"none"}]
  <2>1. MaxClaims[j] \in Nat
    BY JobsAssumption
  <2>2. /\ row[j] \in Row /\ claims[j] \in 0 .. MaxClaims[j]
        /\ stored[j] \in [Images[j] -> Known \cup {"none"}]
    BY DEF ItemsTypeOK, RowsTypeOK
  <2>3. claims[j] < MaxClaims[j] /\ stored' = stored
    BY DEF Start, ClaimRow
  <2>4. claims[j] \in Nat /\ n \in Claim(j)
    BY <2>1, <2>2, <2>3 DEF Claim
  <2> QED
    BY <2>1, <2>2, <2>3, <2>4
<1>1. new \in RunRecord(j)
  BY <1>0 DEF RunRecord, RunPc
<1>2. /\ run'[j][n] = new
      /\ \A k \in Jobs : \A s \in Claim(k) : k # j \/ s # n => run'[k][s] = run[k][s]
      /\ DOMAIN run' = Jobs /\ \A k \in Jobs : run'[k] \in [Claim(k) -> RunRecord(k)]
  <2> HIDE DEF new, n
  <2> QED
    BY <1>0, <1>1, RunPut DEF Start, new, n
<1>3. row' = [row EXCEPT ![j] = claimed]
  BY <1>0 DEF Start, ClaimRow, ItemsTypeOK, RowsTypeOK
<1>4. claimed \in Row /\ claimed.st = "running" /\ claimed.owner = w
      /\ claimed.kind = row[j].kind /\ claimed.cancel = row[j].cancel
  BY <1>0 DEF Row
<1>5. row' \in [Jobs -> Row] /\ row'[j] = claimed /\ \A k \in Jobs \ {j} : row'[k] = row[k]
  <2> HIDE DEF claimed
  <2> QED
    BY <1>0, <1>3, <1>4 DEF ItemsTypeOK, RowsTypeOK
<1>6. /\ DOMAIN claims' = Jobs /\ claims'[j] = n /\ \A k \in Jobs \ {j} : claims'[k] = claims[k]
      /\ \A k \in Jobs : claims'[k] \in 0 .. MaxClaims[k]
  BY <1>0 DEF Start, ClaimRow, ItemsTypeOK, RowsTypeOK, Claim
<1>7. ItemsTypeOK'
  BY <1>0, <1>2, <1>5, <1>6 DEF ItemsTypeOK, RowsTypeOK
<1>8. \A s \in Claim(j) : Active(j, s) => s # n /\ run[j][s].w # w
  BY <1>0 DEF RunsInv, Claim, Start, Free
<1> HIDE DEF claimed
<1>9. RowInv'
  BY <1>0, <1>4, <1>5, <1>6 DEF RowInv, Untold
<1>10. RunsInv'
  <2> SUFFICES ASSUME NEW k \in Jobs, NEW s \in Claim(k), Active(k, s)'
               PROVE  /\ s =< claims'[k] /\ run'[k][s].w \in Workers
                      /\ run'[k][s].w = row'[k].owner => s = claims'[k]
    BY DEF RunsInv, Claim
  <2>1. CASE k # j
    BY <1>2, <1>5, <1>6, <2>1 DEF RunsInv, Active
  <2>2. CASE k = j /\ s = n
    BY <1>0, <1>2, <1>6, <2>2
  <2>3. CASE k = j /\ s # n
    <3>1. Active(j, s) /\ run'[j][s] = run[j][s]
      BY <1>2, <2>3 DEF Active
    <3>2. s =< claims[j] /\ run[j][s].w \in Workers /\ run[j][s].w # w /\ s \in Nat
      BY <1>8, <2>3, <3>1 DEF RunsInv, Claim
    <3> QED
      BY <1>0, <1>4, <1>5, <1>6, <2>3, <3>1, <3>2
  <2> QED
    BY <2>1, <2>2, <2>3
<1>11. KnowInv'
  <2> SUFFICES ASSUME NEW k \in Jobs, NEW s \in Claim(k), Active(k, s)', s = claims'[k],
                      NEW i \in Images[k]
               PROVE  stored'[k][i] \in {"none", Item(k, s, i)'}
    BY DEF KnowInv, Claim, Item
  <2>1. CASE k # j
    BY <1>0, <1>2, <1>6, <2>1 DEF KnowInv, Active, Item
  <2>2. CASE k = j
    BY <1>0, <1>2, <1>6, <2>2 DEF Item
  <2> QED
    BY <2>1, <2>2
<1>12. StandInv'
  <2> SUFFICES ASSUME NEW k \in Jobs, NEW s \in Claim(k) PROVE Stands(k, s)'
    BY DEF StandInv, Claim
  <2>1. row'[k].kind = row[k].kind /\ row'[k].cancel = row[k].cancel
    BY <1>4, <1>5
  <2>2. CASE k # j \/ s # n
    BY <1>2, <2>1, <2>2 DEF StandInv, Stands, At, InFlight, Item, KindOf
  <2>3. CASE k = j /\ s = n
    BY <1>0, <1>2, <2>3 DEF Stands, At, InFlight, Item, Known, Flight
  <2> QED
    BY <2>2, <2>3
<1>13. EveryImageAnswered'
  BY <1>0, <1>4, <1>5 DEF EveryImageAnswered, KindOf, Ended
<1> QED
  BY <1>7, <1>9, <1>10, <1>11, <1>12, <1>13

\* A step that leaves the runs alone, or stops some, and of row j keeps what
\* runs rely on.
Aside(j) ==
    /\ claims' = claims
    /\ \A k \in Jobs : \A s \in Claim(k) : run'[k][s] \in {run[k][s], Idle(k)}
    /\ \A k \in Jobs \ {j} : row'[k] = row[k] /\ stored'[k] = stored[k]
    /\ row'[j].kind = row[j].kind
    /\ row[j].cancel => row'[j].cancel
    /\ row'[j].owner \in {row[j].owner, Nobody}
    /\ claims[j] = 0 \/ stored'[j] = stored[j]
    /\ row'[j].st \in {"none", "queued"} => claims[j] = 0 /\ stored'[j] = Untold(j)
    /\ row'[j].st # "running" => row'[j].owner = Nobody /\ ~row'[j].live
    /\ row'[j].st \in Ended /\ ~(row'[j].kind = "nodeimage" /\ row'[j].st = "error")
        => /\ \A i \in Images[j] : stored'[j][i] # "none"
           /\ row'[j].st = Verdict(row'[j].kind, stored'[j])

LEMMA AsideKeeps ==
    ASSUME ItemsInv, ItemsTypeOK', NEW j \in Jobs, Aside(j) PROVE ItemsInv'
<1> USE DEF ItemsInv, Aside
<1>a. \A k \in Jobs : \A s \in Claim(k) : run'[k][s].pc # "idle" => run'[k][s] = run[k][s]
  BY DEF Idle
<1>b. \A k \in Jobs : \A s \in Claim(k) : Active(k, s)' => run'[k][s] = run[k][s] /\ Active(k, s)
  BY <1>a DEF Active, RunPc
<1>1. RowInv'
  BY DEF RowInv, Untold
<1>2. RunsInv'
  <2> SUFFICES ASSUME NEW k \in Jobs, NEW s \in Claim(k), Active(k, s)'
               PROVE  /\ s =< claims'[k] /\ run'[k][s].w \in Workers
                      /\ run'[k][s].w = row'[k].owner => s = claims'[k]
    BY DEF RunsInv, Claim
  <2>1. row'[k].owner \in {row[k].owner, Nobody}
    OBVIOUS
  <2> QED
    BY <1>b, <2>1, JobsAssumption DEF RunsInv
<1>3. KnowInv'
  <2> SUFFICES ASSUME NEW k \in Jobs, NEW s \in Claim(k), Active(k, s)', s = claims'[k],
                      NEW i \in Images[k]
               PROVE  stored'[k][i] \in {"none", Item(k, s, i)'}
    BY DEF KnowInv, Claim, Item
  <2>1. stored'[k] = stored[k]
    BY DEF Claim
  <2> QED
    BY <1>b, <2>1 DEF KnowInv, Item
<1>4. StandInv'
  <2> SUFFICES ASSUME NEW k \in Jobs, NEW s \in Claim(k) PROVE Stands(k, s)'
    BY DEF StandInv, Claim
  <2>1. row'[k].kind = row[k].kind /\ (row[k].cancel => row'[k].cancel)
    OBVIOUS
  <2>2. CASE run'[k][s].pc = "idle"
    BY <2>2 DEF Stands, At
  <2>3. CASE run'[k][s] = run[k][s]
    BY <2>1, <2>3 DEF StandInv, Stands, At, InFlight, Item, KindOf
  <2> QED
    BY <1>a, <2>2, <2>3
<1>5. EveryImageAnswered'
  BY DEF EveryImageAnswered, KindOf
<1> QED
  BY <1>1, <1>2, <1>3, <1>4, <1>5

LEMMA OthersKeep ==
    ASSUME ItemsInv, NEW j \in Jobs, Submit(j) \/ Expire(j) \/ Cancel(j) \/ Forget(j)
    PROVE  ItemsInv'
<1> USE DEF ItemsInv
<1>0. /\ ItemsTypeOK /\ row \in [Jobs -> Row] /\ row[j] \in Row
      /\ claims' = claims /\ run' = run /\ DOMAIN stored = Jobs
      /\ stored[j] \in [Images[j] -> Known \cup {"none"}]
  BY DEF ItemsTypeOK, RowsTypeOK, Submit, Admit, Expire, Lapse, Cancel, RequestCancel, Forget, Collect
<1>1. ASSUME NEW r \in Row, row' = [row EXCEPT ![j] = r],
             DOMAIN stored' = Jobs, stored'[j] \in [Images[j] -> Known \cup {"none"}],
             \A k \in Jobs \ {j} : stored'[k] = stored[k]
      PROVE  /\ ItemsTypeOK' /\ row'[j] = r /\ \A k \in Jobs \ {j} : row'[k] = row[k]
  BY <1>0, <1>1 DEF ItemsTypeOK, RowsTypeOK, Claim, RunRecord
<1>2. CASE Submit(j)
  <2> DEFINE r == [row[j] EXCEPT !.st = "queued", !.live = FALSE]
  <2>1. r \in Row /\ r.st = "queued" /\ r.kind = row[j].kind /\ r.owner = row[j].owner
        /\ ~r.live /\ r.cancel = row[j].cancel
    BY <1>0 DEF Row
  <2>2. row' = [row EXCEPT ![j] = r] /\ stored' = stored /\ row[j].st = "none"
    BY <1>0, <1>2 DEF Submit, Admit
  <2> HIDE DEF r
  <2>3. ItemsTypeOK' /\ row'[j] = r /\ \A k \in Jobs \ {j} : row'[k] = row[k]
    BY <1>0, <1>1, <2>1, <2>2
  <2>4. Aside(j)
    BY <1>0, <2>1, <2>2, <2>3 DEF Aside, RowInv, Ended
  <2> QED
    BY <2>3, <2>4, AsideKeeps
<1>3. CASE Expire(j)
  <2> DEFINE r == [row[j] EXCEPT !.live = FALSE]
  <2>1. r \in Row /\ r.st = row[j].st /\ r.kind = row[j].kind /\ r.owner = row[j].owner
        /\ r.cancel = row[j].cancel
    BY <1>0 DEF Row
  <2>2. row' = [row EXCEPT ![j] = r] /\ stored' = stored /\ row[j].st = "running"
    BY <1>0, <1>3 DEF Expire, Lapse
  <2> HIDE DEF r
  <2>3. ItemsTypeOK' /\ row'[j] = r /\ \A k \in Jobs \ {j} : row'[k] = row[k]
    BY <1>0, <1>1, <2>1, <2>2
  <2>4. Aside(j)
    BY <1>0, <2>1, <2>2, <2>3 DEF Aside, RowInv, Ended
  <2> QED
    BY <2>3, <2>4, AsideKeeps
<1>4. CASE Forget(j)
  <2> DEFINE r == [row[j] EXCEPT !.st = "deleted"]
  <2>1. r \in Row /\ r.st = "deleted" /\ r.kind = row[j].kind /\ r.owner = row[j].owner
        /\ r.cancel = row[j].cancel /\ r.live = row[j].live
    BY <1>0 DEF Row
  <2>2. row' = [row EXCEPT ![j] = r] /\ stored' = stored /\ row[j].st \in Ended
    BY <1>0, <1>4 DEF Forget, Collect
  <2> HIDE DEF r
  <2>3. ItemsTypeOK' /\ row'[j] = r /\ \A k \in Jobs \ {j} : row'[k] = row[k]
    BY <1>0, <1>1, <2>1, <2>2
  <2>4. Aside(j)
    BY <1>0, <2>1, <2>2, <2>3 DEF Aside, RowInv, Ended
  <2> QED
    BY <2>3, <2>4, AsideKeeps
<1>5. CASE Cancel(j) /\ row[j].st = "queued"
  <2> DEFINE r == [row[j] EXCEPT !.st = "cancelled", !.owner = Nobody, !.live = FALSE]
             told == [i \in Images[j] |-> IF stored[j][i] = "none" THEN "cancelled" ELSE stored[j][i]]
  <2>1. r \in Row /\ r.st = "cancelled" /\ r.kind = row[j].kind /\ r.owner = Nobody
        /\ r.cancel = row[j].cancel /\ ~r.live
    BY <1>0 DEF Row, Ended
  <2>2. row' = [row EXCEPT ![j] = r] /\ stored' = [stored EXCEPT ![j] = told]
    BY <1>0, <1>5 DEF Cancel, RequestCancel, End
  <2>3. told \in [Images[j] -> Known \cup {"none"}]
    BY <1>0 DEF Known
  <2>4. stored[j] = Untold(j) /\ claims[j] = 0
    BY <1>5 DEF RowInv
  <2>5. \A i \in Images[j] : told[i] = "cancelled"
    BY <2>4 DEF Untold
  <2> HIDE DEF r, told
  <2>6. DOMAIN stored' = Jobs /\ stored'[j] = told /\ \A k \in Jobs \ {j} : stored'[k] = stored[k]
    BY <1>0, <2>2
  <2>7. ItemsTypeOK' /\ row'[j] = r /\ \A k \in Jobs \ {j} : row'[k] = row[k]
    BY <1>0, <1>1, <2>1, <2>2, <2>3, <2>6
  <2>8. \E i \in Images[j] : TRUE
    BY ItemsAssumption
  <2>9. Verdict(r.kind, told) = "cancelled"
    BY <2>3, <2>5, <2>8 DEF Verdict
  <2>10. Aside(j)
    BY <1>0, <2>1, <2>4, <2>5, <2>6, <2>7, <2>9 DEF Aside, Ended
  <2> QED
    BY <2>7, <2>10, AsideKeeps
<1>6. CASE Cancel(j) /\ row[j].st = "running"
  <2> DEFINE r == [row[j] EXCEPT !.cancel = TRUE]
  <2>1. r \in Row /\ r.st = row[j].st /\ r.kind = row[j].kind /\ r.owner = row[j].owner
        /\ r.cancel /\ r.live = row[j].live
    BY <1>0 DEF Row
  <2>2. row' = [row EXCEPT ![j] = r] /\ stored' = stored
    BY <1>0, <1>6 DEF Cancel, RequestCancel
  <2> HIDE DEF r
  <2>3. ItemsTypeOK' /\ row'[j] = r /\ \A k \in Jobs \ {j} : row'[k] = row[k]
    BY <1>0, <1>1, <2>1, <2>2
  <2>4. Aside(j)
    BY <1>0, <1>6, <2>1, <2>2, <2>3 DEF Aside, RowInv, Ended
  <2> QED
    BY <2>3, <2>4, AsideKeeps
<1> QED
  BY <1>2, <1>3, <1>4, <1>5, <1>6 DEF Cancel, RequestCancel

LEMMA StopKeeps == ASSUME ItemsInv, NEW w \in Workers, Stop(w) PROVE ItemsInv'
<1> USE DEF ItemsInv
<1>1. PICK j \in Jobs : TRUE
  BY DEF Stop
<1>2. UNCHANGED <<row, claims, stored>> /\ DOMAIN run' = Jobs
      /\ \A k \in Jobs : /\ run'[k] \in [Claim(k) -> RunRecord(k)]
                         /\ \A s \in Claim(k) : run'[k][s] \in {run[k][s], Idle(k)}
  BY IdleTyped DEF Stop, ItemsTypeOK
<1>3. ItemsTypeOK'
  BY <1>2 DEF ItemsTypeOK, RowsTypeOK, Claim, RunRecord
<1>4. Aside(j)
  BY <1>2 DEF Aside, RowInv, EveryImageAnswered, KindOf, ItemsTypeOK, RowsTypeOK
<1> QED
  BY <1>3, <1>4, AsideKeeps

LEMMA ItemsInitInv == ItemsInit => ItemsInv
<1> SUFFICES ASSUME ItemsInit PROVE ItemsInv
  OBVIOUS
<1>1. PICK mix \in Mixes : row = [j \in Jobs |-> [kind |-> mix[j], st |-> "none", owner |-> Nobody,
                                               live |-> FALSE, cancel |-> FALSE]]
  BY DEF ItemsInit, RowsInit
<1>2. /\ claims = [j \in Jobs |-> 0] /\ stored = [j \in Jobs |-> Untold(j)]
      /\ run = [j \in Jobs |-> [t \in Claim(j) |-> Idle(j)]]
  BY DEF ItemsInit, RowsInit
<1>3. \A j \in Jobs : mix[j] \in Kinds /\ MaxClaims[j] \in Nat
  BY JobsAssumption
<1>4. \A j \in Jobs : ~ Idle(j).pc \in RunPc /\ Idle(j).pc = "idle"
  BY DEF Idle, RunPc
<1>5. ItemsTypeOK
  BY <1>1, <1>2, <1>3, IdleTyped DEF ItemsTypeOK, RowsTypeOK, Row, Untold
<1>6. RowInv
  BY <1>1, <1>2 DEF RowInv
<1>7. RunsInv /\ KnowInv /\ StandInv
  BY <1>2, <1>4 DEF RunsInv, KnowInv, StandInv, Stands, Active, At
<1>8. EveryImageAnswered
  BY <1>1 DEF EveryImageAnswered, Ended
<1> QED
  BY <1>5, <1>6, <1>7, <1>8 DEF ItemsInv

LEMMA ItemsInvStep == ItemsInv /\ [ItemsNext]_itemVars => ItemsInv'
<1> SUFFICES ASSUME ItemsInv, [ItemsNext]_itemVars PROVE ItemsInv'
  OBVIOUS
<1>1. ASSUME NEW j \in Jobs, NEW t \in Claim(j), RunStep(j, t) \/ Raise(j, t) PROVE ItemsInv'
  <2>1. ItemsTypeOK /\ Stands(j, t)
    BY <1>1 DEF ItemsInv, StandInv
  <2> QED
    BY <1>1, <2>1, EveryRunStep, RunStepKeeps
<1>2. ASSUME NEW j \in Jobs, Submit(j) \/ Expire(j) \/ Cancel(j) \/ Forget(j) PROVE ItemsInv'
  BY <1>2, OthersKeep
<1>3. ASSUME NEW j \in Jobs, NEW w \in Workers, Start(j, w) PROVE ItemsInv'
  BY <1>3, StartKeeps
<1>4. ASSUME NEW w \in Workers, Stop(w) PROVE ItemsInv'
  BY <1>4, StopKeeps
<1>5. CASE UNCHANGED itemVars
  BY <1>5 DEF itemVars, ItemsInv, ItemsTypeOK, RowsTypeOK, RowInv, RunsInv, KnowInv, StandInv, Stands,
              EveryImageAnswered, Active, At, Item, InFlight, KindOf, Claim, RunRecord, Untold, Verdict
<1> QED
  BY <1>1, <1>2, <1>3, <1>4, <1>5 DEF ItemsNext

-----------------------------------------------------------------------------
(* The theorems.                                                            *)

\* The inductive invariant holds in every reachable state, and with it the types
\* of all variables.
THEOREM AlwaysItemsInv == ItemsSpec => []ItemsInv
<1> QED
  BY ItemsInitInv, ItemsInvStep, PTL DEF ItemsSpec

\* A job that has ended tells the result of every image, and its status follows
\* from them (the terminal writes of services/nodeimage_upload_jobs.py and
\* services/assistant_batch.py), whoever took it over and however it was
\* cancelled; only an upload that was given up may have said less.
THEOREM EveryImageAnsweredHolds == ItemsSpec => []EveryImageAnswered
<1>1. ItemsInv => EveryImageAnswered
  BY DEF ItemsInv
<1> QED
  BY <1>1, AlwaysItemsInv, PTL

\* A run that may write knows every result in the row, so that its next write
\* repeats them.
LEMMA RunStepKeepsResults ==
    ASSUME ItemsInv, NEW j \in Jobs, NEW t \in Claim(j), StepOf(j, t), NEW i \in Images[j],
           stored[j][i] # "none"
    PROVE  stored'[j][i] = stored[j][i]
<1>1. stored[j][i] \in Known
  BY DEF ItemsInv, ItemsTypeOK
<1>2. CASE stored'[j] = stored[j]
  BY <1>2
<1>3. CASE Owns(j, run[j][t].w)
  <2>1. Item(j, t, i) = stored[j][i]
    BY <1>3, OwnerIsLast DEF ItemsInv, KnowInv, StepOf
  <2>2. CASE GoesOn(j, t) /\ stored'[j] = Results(run'[j][t].item)
    <3>1. run'[j][t].item \in Items(j)
      BY DEF StepOf, ItemsTypeOK, RunRecord, Items, Claim
    <3>2. run'[j][t].item[i] = stored[j][i]
      BY <1>1, <2>1, <2>2 DEF GoesOn, Item
    <3> QED
      BY <1>1, <2>2, <3>1, <3>2, ResultsType DEF Items
  <2>3. CASE Ends(j, t)
    BY <1>1, <2>1, <2>3 DEF Ends
  <2> QED
    BY <1>2, <2>2, <2>3 DEF StepOf, Tells
<1> QED
  BY <1>2, <1>3 DEF StepOf, Tells, Ends

LEMMA ResultsKeptStep ==
    ASSUME ItemsInv, [ItemsNext]_itemVars, NEW j \in Jobs, NEW i \in Images[j],
           stored[j][i] # "none"
    PROVE  stored'[j][i] = stored[j][i]
<1>1. ASSUME NEW k \in Jobs, NEW t \in Claim(k), RunStep(k, t) \/ Raise(k, t)
      PROVE  stored'[j][i] = stored[j][i]
  <2>1. StepOf(k, t)
    BY <1>1, EveryRunStep DEF ItemsInv, StandInv
  <2>2. CASE k = j
    BY <2>1, <2>2, RunStepKeepsResults
  <2>3. CASE k # j
    BY <2>1, <2>3 DEF StepOf, Alone
  <2> QED
    BY <2>2, <2>3
<1>2. ASSUME NEW k \in Jobs, Cancel(k) PROVE stored'[j][i] = stored[j][i]
  <2>1. CASE row[k].st = "running"
    BY <1>2, <2>1 DEF Cancel
  <2>2. CASE row[k].st = "queued"
    <3>1. stored[k] = Untold(k) /\ DOMAIN stored = Jobs
      BY <2>2 DEF ItemsInv, RowInv, ItemsTypeOK
    <3>2. k # j
      BY <3>1 DEF Untold
    <3> QED
      BY <1>2, <2>2, <3>1, <3>2 DEF Cancel
  <2> QED
    BY <1>2, <2>1, <2>2 DEF Cancel, RequestCancel
<1>3. ASSUME NEW k \in Jobs, \/ Submit(k) \/ Expire(k) \/ Forget(k)
                            \/ \E w \in Workers : Start(k, w)
      PROVE  stored'[j][i] = stored[j][i]
  BY <1>3 DEF Submit, Expire, Forget, Start
<1>4. ASSUME NEW w \in Workers, Stop(w) PROVE stored'[j][i] = stored[j][i]
  BY <1>4 DEF Stop
<1>5. CASE UNCHANGED itemVars
  BY <1>5 DEF itemVars
<1> QED
  BY <1>1, <1>2, <1>3, <1>4, <1>5 DEF ItemsNext

\* No write takes back a result: not that of a run that has lost its lease
\* (update_gallery_job finds no row), and not that of its successor, which read
\* the row after the last write of the run before.
THEOREM ResultsKeptHolds == ItemsSpec => ResultsKept
<1>1. ItemsInv /\ [ItemsNext]_itemVars =>
          [\A j \in Jobs : \A i \in Images[j] :
              stored[j][i] # "none" => stored'[j][i] = stored[j][i]]_itemVars
  BY ResultsKeptStep
<1> QED
  BY <1>1, AlwaysItemsInv, PTL DEF ItemsSpec, ResultsKept

LEMMA CancelSticksStep ==
    ASSUME ItemsInv, [ItemsNext]_itemVars, NEW j \in Jobs, row[j].cancel
    PROVE  row'[j].cancel
<1>0. row \in [Jobs -> Row] /\ row[j] \in Row
  BY DEF ItemsInv, ItemsTypeOK, RowsTypeOK
<1>1. ASSUME NEW k \in Jobs, NEW t \in Claim(k), RunStep(k, t) \/ Raise(k, t)
      PROVE  row'[j].cancel
  <2>1. StepOf(k, t)
    BY <1>1, EveryRunStep DEF ItemsInv, StandInv
  <2>2. CASE k = j
    BY <1>0, <2>1, <2>2 DEF StepOf, Tells, Ends, Row
  <2>3. CASE k # j
    BY <2>1, <2>3 DEF StepOf, Alone
  <2> QED
    BY <2>2, <2>3
<1>2. ASSUME NEW k \in Jobs, \/ Submit(k) \/ Expire(k) \/ Cancel(k) \/ Forget(k)
                            \/ \E w \in Workers : Start(k, w)
      PROVE  row'[j].cancel
  <2>0. row[k] \in Row
    BY <1>0
  <2>1. CASE Submit(k) \/ Expire(k)
    BY <1>0, <2>0, <2>1 DEF Submit, Admit, Expire, Lapse, Row
  <2>2. CASE Cancel(k)
    BY <1>0, <2>0, <2>2 DEF Cancel, RequestCancel, End, Row
  <2>3. CASE Forget(k)
    BY <1>0, <2>0, <2>3 DEF Forget, Collect, Row
  <2>4. ASSUME NEW w \in Workers, Start(k, w) PROVE row'[j].cancel
    <3>1. row' = [row EXCEPT ![k].st = "running", ![k].owner = w, ![k].live = TRUE]
      BY <2>4 DEF Start, ClaimRow
    <3> QED
      BY <1>0, <2>0, <3>1 DEF Row
  <2> QED
    BY <1>2, <2>1, <2>2, <2>3, <2>4
<1>3. ASSUME NEW w \in Workers, Stop(w) PROVE row'[j].cancel
  BY <1>3 DEF Stop
<1>4. CASE UNCHANGED itemVars
  BY <1>4 DEF itemVars
<1> QED
  BY <1>1, <1>2, <1>3, <1>4 DEF ItemsNext

\* A cancellation that was accepted stays in the row whatever its runner, which
\* replaces the payload after every image, writes over it.
THEOREM CancelSticksHolds == ItemsSpec => CancelSticks
<1>1. ItemsInv /\ [ItemsNext]_itemVars =>
          [\A j \in Jobs : row[j].cancel => row'[j].cancel]_rowVars
  BY CancelSticksStep
<1> QED
  BY <1>1, AlwaysItemsInv, PTL DEF ItemsSpec, CancelSticks

=============================================================================
