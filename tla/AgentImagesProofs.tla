--------------------------- MODULE AgentImagesProofs ---------------------------
(***************************************************************************)
(* Why the events of a turn stay in order and tell what its row says,      *)
(* although the threads of a cancelled task may still commit, and why a    *)
(* run that does not complete leaves no image job behind: for every number *)
(* of turns, blocks and pictures.  The images are beside the turns: what   *)
(* is proved of TurnsSpec holds of ImagesSpec, which implements it.        *)
(***************************************************************************)
EXTENDS AgentImages, SequenceTheorems, TLAPS

-----------------------------------------------------------------------------
(* Order.                                                                   *)

Elems(s) == {s[i] : i \in DOMAIN s}
Before(e, f) == ~IsEnd(e) /\ (IsEnd(f) \/ e.n < f.n)
InOrder(s) == \A i, k \in DOMAIN s : i < k => Before(s[i], s[k])
Precedes(s, u) == \A e \in Elems(s), f \in Elems(u) : Before(e, f)

LEMMA BlocksAndEnds ==
    /\ \A n \in Nat : Block(n) \in Event /\ ~IsEnd(Block(n)) /\ Block(n).n = n
    /\ \A st \in Ended : End(st) \in Event /\ IsEnd(End(st)) /\ End(st).n = 0
                         /\ End(st).type = Outcome(st)
<1>1. \A st : Outcome(st) # "block"
  BY DEF Outcome
<1> QED
  BY <1>1 DEF Event, Block, End, IsEnd

LEMMA ElemsType == ASSUME NEW s \in Seq(Event) PROVE Elems(s) \subseteq Event
BY DEF Elems

LEMMA ElemsEmpty == Elems(<<>>) = {} /\ InOrder(<<>>) /\ <<>> \in Seq(Event)
BY DEF Elems, InOrder

LEMMA Joined ==
    ASSUME NEW s \in Seq(Event), NEW u \in Seq(Event)
    PROVE  /\ s \o u \in Seq(Event) /\ Len(s \o u) = Len(s) + Len(u)
           /\ Elems(s \o u) = Elems(s) \cup Elems(u)
           /\ InOrder(s) /\ InOrder(u) /\ Precedes(s, u) => InOrder(s \o u)
<1>1. /\ s \o u \in Seq(Event) /\ Len(s \o u) = Len(s) + Len(u)
      /\ \A i \in 1 .. Len(s) + Len(u) :
            (s \o u)[i] = IF i <= Len(s) THEN s[i] ELSE u[i - Len(s)]
  BY ConcatProperties
<1>2. /\ Len(s) \in Nat /\ Len(u) \in Nat /\ DOMAIN s = 1 .. Len(s) /\ DOMAIN u = 1 .. Len(u)
      /\ DOMAIN (s \o u) = 1 .. Len(s) + Len(u)
  BY <1>1, LenProperties
<1>3. Elems(s \o u) \subseteq Elems(s) \cup Elems(u)
  BY <1>1, <1>2 DEF Elems
<1>4. Elems(s) \subseteq Elems(s \o u)
  BY <1>1, <1>2 DEF Elems
<1>5. ASSUME NEW i \in 1 .. Len(u) PROVE u[i] = (s \o u)[i + Len(s)] /\ i + Len(s) \in DOMAIN (s \o u)
  BY <1>1, <1>2
<1>6. Elems(u) \subseteq Elems(s \o u)
  BY <1>2, <1>5 DEF Elems
<1>7. ASSUME InOrder(s), InOrder(u), Precedes(s, u),
             NEW i \in DOMAIN (s \o u), NEW k \in DOMAIN (s \o u), i < k
      PROVE  Before((s \o u)[i], (s \o u)[k])
  <2>1. CASE k =< Len(s)
    BY <1>1, <1>2, <1>7, <2>1 DEF InOrder
  <2>2. CASE i > Len(s)
    BY <1>1, <1>2, <1>7, <2>2 DEF InOrder
  <2>3. CASE i =< Len(s) /\ k > Len(s)
    <3>1. s[i] \in Elems(s) /\ u[k - Len(s)] \in Elems(u)
      BY <1>2, <2>3 DEF Elems
    <3> QED
      BY <1>1, <1>2, <1>7, <2>3, <3>1 DEF Precedes
  <2> QED
    BY <1>2, <2>1, <2>2, <2>3
<1> QED
  BY <1>1, <1>3, <1>4, <1>6, <1>7 DEF InOrder

LEMMA Added ==
    ASSUME NEW s \in Seq(Event), NEW e \in Event
    PROVE  /\ Append(s, e) \in Seq(Event) /\ Elems(Append(s, e)) = Elems(s) \cup {e}
           /\ InOrder(s) /\ (\A f \in Elems(s) : Before(f, e)) => InOrder(Append(s, e))
<1>1. <<e>> \in Seq(Event) /\ Elems(<<e>>) = {e} /\ InOrder(<<e>>)
  BY DEF Elems, InOrder
<1>2. Append(s, e) = s \o <<e>>
  BY AppendIsConcat
<1> QED
  BY <1>1, <1>2, Joined DEF Precedes

-----------------------------------------------------------------------------
(* The inductive invariant of a turn, as a relation of its run r, its log l  *)
(* and the status st of its row.                                            *)

\* A write of events, whose number is right if the log has not grown.
Follows(l, evs, at) == at = Len(l) + 1 => Precedes(l, evs)

\* The writes of a run that may still be stored.
Writes(r) == {r.io[p] : p \in Tasks} \cup r.orphans
Events(r, l) == Elems(l) \cup Elems(r.pend) \cup UNION {Elems(w.evs) : w \in Writes(r)}

\* All that may still be written is in order, and behind the log if the log is
\* where its writer believes it ends.  An orphan that commits makes every later
\* write of its run a misfit.
LineInv(r, l, st) ==
    /\ InOrder(l) /\ InOrder(r.pend) /\ Follows(l, r.pend, r.next)
    /\ st # "deleted" => r.next =< Len(l) + 1
    /\ \A w \in Writes(r) :
          IF w.op = "events"
          THEN w.evs # <<>> /\ InOrder(w.evs) /\ w.at =< r.next /\ Follows(l, w.evs, w.at)
          ELSE w.evs = <<>>
    /\ \A p \in Tasks : r.io[p].op = "events" =>
          /\ r.io[p].at = r.next /\ Precedes(r.io[p].evs, r.pend)
          /\ \A q \in Tasks : r.io[q].op = "events" => q = p

\* The run numbers its blocks, and what it tells of the end is what the row says.
ToldInv(r, l, st) == \A e \in Events(r, l) :
    /\ r.pc # "over" => e.n =< r.made
    /\ IsEnd(e) => r.pc \in {"tell", "over"} /\ (st = "deleted" \/ (st \in Ended /\ e = End(st)))

\* A run that has not begun.
Blank(r) == /\ ~r.lost /\ ~r.aux /\ r.pend = <<>> /\ r.next = 1 /\ r.orphans = {}
            /\ \A p \in Tasks : r.io[p] = NoWrite

\* Where the run is.
PcInv(r, l, st) ==
    /\ r.pc \in {"none", "claim"} => Blank(r)
    /\ r.pc = "none" => l = <<>>
    /\ st = "none" => r.pc = "none"
    /\ st = "deleted" => l = <<>>
    /\ r.pc = "loop" => r.aux /\ ~r.lost
    /\ \A p \in Tasks : r.io[p].op = "none" => r.io[p] = NoWrite

RunInv(r, l, st) == /\ r \in Runner /\ l \in Seq(Event)
                    /\ LineInv(r, l, st) /\ ToldInv(r, l, st) /\ PcInv(r, l, st)

-----------------------------------------------------------------------------
(* What steps do to a run.                                                  *)

\* Where a step may take a run.
PcMoves(r, r2) == /\ r.pc # "none" /\ r2.pc \notin {"none", "claim"}
                  /\ r.pc = "over" => r2.pc = "over"
                  /\ r.pc = "tell" => r2.pc \in {"tell", "over"}
                  /\ r2.pc = "loop" => r2.aux /\ ~r2.lost

SameText(r, r2) == r2.pend = r.pend /\ r2.next = r.next /\ r2.made = r.made

LEMMA EventsType ==
    ASSUME NEW r \in Runner, NEW l \in Seq(Event)
    PROVE  /\ Events(r, l) \subseteq Event /\ \A e \in Events(r, l) : e.n \in Nat
           /\ \A w \in Writes(r) : w \in Writing /\ w.evs \in Seq(Event) /\ w.at \in Nat
<1>1. \A w \in Writes(r) : w \in Writing
  BY DEF Writes, Runner
<1>2. \A w \in Writes(r) : w.evs \in Seq(Event) /\ w.at \in Nat
  BY <1>1 DEF Writing
<1>3. Elems(l) \subseteq Event /\ Elems(r.pend) \subseteq Event
  BY ElemsType DEF Runner
<1>4. \A w \in Writes(r) : Elems(w.evs) \subseteq Event
  BY <1>2, ElemsType
<1>5. Events(r, l) \subseteq Event
  BY <1>3, <1>4 DEF Events
<1>6. \A e \in Event : e.n \in Nat
  BY DEF Event
<1> QED
  BY <1>1, <1>2, <1>5, <1>6

\* Writes may be given up or left to a thread.
LEMMA Sheds ==
    ASSUME NEW r, NEW l, NEW st, RunInv(r, l, st), NEW r2 \in Runner, PcMoves(r, r2), SameText(r, r2),
           \A p \in Tasks : r2.io[p] \in {r.io[p], NoWrite},
           r2.orphans \subseteq Writes(r)
    PROVE  RunInv(r2, l, st)
<1> USE DEF RunInv
<1>1. \A w \in Writes(r2) : w \in Writes(r) \/ w = NoWrite
  BY DEF Writes
<1>2. NoWrite.op = "none" /\ NoWrite.evs = <<>> /\ Elems(NoWrite.evs) = {}
  BY ElemsEmpty DEF NoWrite
<1>3. LineInv(r2, l, st)
  <2>1. /\ InOrder(l) /\ InOrder(r2.pend) /\ Follows(l, r2.pend, r2.next)
        /\ st # "deleted" => r2.next =< Len(l) + 1
    BY DEF LineInv, SameText
  <2>2. ASSUME NEW w \in Writes(r2)
        PROVE  IF w.op = "events"
               THEN w.evs # <<>> /\ InOrder(w.evs) /\ w.at =< r2.next /\ Follows(l, w.evs, w.at)
               ELSE w.evs = <<>>
    BY <1>1, <1>2, <2>2 DEF LineInv, SameText
  <2>3. ASSUME NEW p \in Tasks, r2.io[p].op = "events"
        PROVE  /\ r2.io[p].at = r2.next /\ Precedes(r2.io[p].evs, r2.pend)
               /\ \A q \in Tasks : r2.io[q].op = "events" => q = p
    BY <1>2, <2>3 DEF LineInv, SameText
  <2> QED
    BY <2>1, <2>2, <2>3 DEF LineInv
<1>4. Events(r2, l) \subseteq Events(r, l)
  BY <1>1, <1>2 DEF Events, SameText
<1>5. ToldInv(r2, l, st)
  BY <1>4 DEF ToldInv, SameText, PcMoves
<1>6. PcInv(r2, l, st)
  BY DEF PcInv, PcMoves
<1> QED
  BY <1>3, <1>5, <1>6

\* A run that returns or dies.
LEMMA IdleType == \A pc \in RunPc : Idle(pc) \in Runner /\ Idle(pc).pc = pc
BY ElemsEmpty DEF Idle, Runner, Writing, NoWrite, Ended, Tasks

LEMMA IdleWrites == \A pc : Writes(Idle(pc)) = {NoWrite}
BY DEF Writes, Idle, Tasks

LEMMA Leaves ==
    ASSUME NEW r, NEW l, NEW st, RunInv(r, l, st), r.pc # "none"
    PROVE  RunInv(Idle("over"), l, st)
<1> DEFINE o == Idle("over")
<1>1. o \in Runner /\ o.pc = "over"
  BY IdleType DEF RunPc
<1>2. /\ o.pend = <<>> /\ o.next = 1 /\ \A p \in Tasks : o.io[p] = NoWrite
      /\ Writes(o) = {NoWrite} /\ NoWrite.op = "none" /\ NoWrite.evs = <<>>
  BY IdleWrites DEF Idle, NoWrite
<1> HIDE DEF o
<1>3. Len(l) \in Nat /\ InOrder(l)
  BY LenProperties DEF RunInv, LineInv
<1>4. LineInv(o, l, st)
  BY <1>2, <1>3, ElemsEmpty DEF LineInv, Follows, Precedes
<1>5. Events(o, l) \subseteq Events(r, l)
  BY <1>2, ElemsEmpty DEF Events
<1>6. ToldInv(o, l, st)
  BY <1>1, <1>5 DEF RunInv, ToldInv
<1>7. PcInv(o, l, st)
  BY <1>1, <1>2 DEF RunInv, PcInv
<1> QED
  BY <1>1, <1>4, <1>6, <1>7 DEF RunInv, o

\* The row of a turn that has not ended changes, and no end is told yet.
LEMMA RowMoves ==
    ASSUME NEW r, NEW l, NEW st, RunInv(r, l, st), st \notin Ended \cup {"deleted"},
           NEW st2, st2 \notin {"none", "deleted"}
    PROVE  RunInv(r, l, st2)
BY DEF RunInv, LineInv, ToldInv, PcInv

\* Its conversation is deleted.
LEMMA Vanishes ==
    ASSUME NEW r, NEW l, NEW st, RunInv(r, l, st) PROVE RunInv(r, <<>>, "deleted")
<1>1. \A s : Precedes(<<>>, s)
  BY ElemsEmpty DEF Precedes
<1>2. LineInv(r, <<>>, "deleted")
  BY <1>1, ElemsEmpty DEF RunInv, LineInv, Follows
<1>3. Events(r, <<>>) \subseteq Events(r, l)
  BY ElemsEmpty DEF Events
<1>4. ToldInv(r, <<>>, "deleted")
  BY <1>3 DEF RunInv, ToldInv
<1> QED
  BY <1>2, <1>4, ElemsEmpty DEF RunInv, PcInv

\* A new piece of text, while no event is on its way.
LEMMA Says ==
    ASSUME NEW r, NEW l, NEW st, RunInv(r, l, st), NEW r2 \in Runner, PcMoves(r, r2), r.pc = "loop",
           r2.io = r.io, r2.orphans = r.orphans, r2.next = r.next, r2.made = r.made + 1,
           r2.pend = Append(r.pend, Block(r.made + 1))
    PROVE  RunInv(r2, l, st)
<1> DEFINE b == Block(r.made + 1)
<1>0. /\ r \in Runner /\ l \in Seq(Event) /\ r.made \in Nat /\ r.pend \in Seq(Event)
      /\ LineInv(r, l, st) /\ ToldInv(r, l, st) /\ PcInv(r, l, st)
  BY DEF RunInv, Runner
<1>1. b \in Event /\ ~IsEnd(b) /\ b.n = r.made + 1
  BY <1>0, BlocksAndEnds
<1> HIDE DEF b
<1>2. Writes(r2) = Writes(r)
  BY DEF Writes
<1>3. Elems(r2.pend) = Elems(r.pend) \cup {b} /\ Events(r2, l) = Events(r, l) \cup {b}
  BY <1>0, <1>1, <1>2, Added DEF Events, b
<1>4. \A e \in Events(r, l) : e.n =< r.made /\ ~IsEnd(e)
  BY <1>0 DEF ToldInv
<1>5. \A e \in Events(r, l) : e \in Event /\ e.n \in Nat
  BY <1>0, EventsType
<1>6. \A e \in Events(r, l) : Before(e, b)
  BY <1>0, <1>1, <1>4, <1>5 DEF Before
<1>7. \A s : Precedes(s, r.pend) /\ Elems(s) \subseteq Events(r, l) => Precedes(s, r2.pend)
  BY <1>3, <1>6 DEF Precedes
<1>8. LineInv(r2, l, st)
  <2>1. InOrder(r2.pend)
    BY <1>0, <1>1, <1>6, Added DEF LineInv, Events, b
  <2>2. Follows(l, r2.pend, r2.next)
    BY <1>0, <1>7 DEF LineInv, Follows, Events
  <2>3. ASSUME NEW p \in Tasks, r2.io[p].op = "events"
        PROVE  Precedes(r2.io[p].evs, r2.pend)
    BY <1>0, <1>7, <2>3 DEF LineInv, Events, Writes
  <2> QED
    BY <1>0, <1>2, <2>1, <2>2, <2>3 DEF LineInv
<1>9. ToldInv(r2, l, st)
  BY <1>0, <1>1, <1>3, <1>4, <1>5 DEF ToldInv
<1>10. PcInv(r2, l, st)
  BY <1>0 DEF PcInv, PcMoves
<1> QED
  BY <1>0, <1>8, <1>9, <1>10 DEF RunInv

\* The end is told, as the row has it.
LEMMA TellsEnd ==
    ASSUME NEW r, NEW l, NEW st \in Ended, RunInv(r, l, st), NEW r2 \in Runner, r.pc = "finish",
           r2.pc = "tell", r2.io = r.io, r2.orphans = r.orphans, r2.next = r.next, r2.made = r.made,
           r2.pend = Append(r.pend, End(st))
    PROVE  RunInv(r2, l, st)
<1> DEFINE b == End(st)
<1>0. /\ r \in Runner /\ l \in Seq(Event) /\ r.made \in Nat /\ r.pend \in Seq(Event)
      /\ LineInv(r, l, st) /\ ToldInv(r, l, st) /\ PcInv(r, l, st)
  BY DEF RunInv, Runner
<1>1. b \in Event /\ IsEnd(b) /\ b.n = 0
  BY BlocksAndEnds
<1>2. Writes(r2) = Writes(r)
  BY DEF Writes
<1> HIDE DEF b
<1>3. Elems(r2.pend) = Elems(r.pend) \cup {b} /\ Events(r2, l) = Events(r, l) \cup {b}
  BY <1>0, <1>1, <1>2, Added DEF Events, b
<1>4. \A e \in Events(r, l) : e.n =< r.made /\ ~IsEnd(e)
  BY <1>0 DEF ToldInv
<1>6. \A e \in Events(r, l) : Before(e, b)
  BY <1>1, <1>4 DEF Before
<1>7. \A s : Precedes(s, r.pend) /\ Elems(s) \subseteq Events(r, l) => Precedes(s, r2.pend)
  BY <1>3, <1>6 DEF Precedes
<1>8. LineInv(r2, l, st)
  <2>1. InOrder(r2.pend)
    BY <1>0, <1>1, <1>6, Added DEF LineInv, Events, b
  <2>2. Follows(l, r2.pend, r2.next)
    BY <1>0, <1>7 DEF LineInv, Follows, Events
  <2>3. ASSUME NEW p \in Tasks, r2.io[p].op = "events"
        PROVE  Precedes(r2.io[p].evs, r2.pend)
    BY <1>0, <1>7, <2>3 DEF LineInv, Events, Writes
  <2> QED
    BY <1>0, <1>2, <2>1, <2>2, <2>3 DEF LineInv
<1>9. ToldInv(r2, l, st)
  BY <1>0, <1>1, <1>3, <1>4 DEF ToldInv, b
<1>10. PcInv(r2, l, st)
  BY <1>0 DEF PcInv, Ended
<1> QED
  BY <1>0, <1>8, <1>9, <1>10 DEF RunInv

\* A write is handed to a thread: of all events there are, ...
LEMMA Flushes ==
    ASSUME NEW r, NEW l, NEW st, RunInv(r, l, st), NEW r2 \in Runner, PcMoves(r, r2),
           NEW p \in Tasks, NEW w \in Writing, w.op = "events", w.evs = r.pend, w.at = r.next,
           r.pend # <<>>, \A q \in Tasks : r.io[q].op # "events",
           r2.io = [r.io EXCEPT ![p] = w], r2.pend = <<>>,
           r2.orphans = r.orphans, r2.next = r.next, r2.made = r.made
    PROVE  RunInv(r2, l, st)
<1>0. /\ r \in Runner /\ l \in Seq(Event) /\ r.next \in Nat /\ r.io \in [Tasks -> Writing]
      /\ LineInv(r, l, st) /\ ToldInv(r, l, st) /\ PcInv(r, l, st)
  BY DEF RunInv, Runner
<1>1. /\ r2.io[p] = w /\ \A q \in Tasks : q # p => r2.io[q] = r.io[q]
      /\ \A v \in Writes(r2) : v = w \/ v \in Writes(r)
  BY <1>0 DEF Writes
<1>2. \A s : Precedes(s, <<>>)
  BY ElemsEmpty DEF Precedes
<1>3. LineInv(r2, l, st)
  <2>1. ASSUME NEW v \in Writes(r2)
        PROVE  IF v.op = "events"
               THEN v.evs # <<>> /\ InOrder(v.evs) /\ v.at =< r2.next /\ Follows(l, v.evs, v.at)
               ELSE v.evs = <<>>
    <3>1. CASE v = w
      BY <1>0, <3>1 DEF LineInv
    <3>2. CASE v \in Writes(r)
      BY <1>0, <3>2 DEF LineInv
    <3> QED
      BY <1>1, <2>1, <3>1, <3>2
  <2>2. ASSUME NEW q \in Tasks, r2.io[q].op = "events" PROVE q = p
    BY <1>1, <2>2
  <2>3. InOrder(r2.pend) /\ Follows(l, r2.pend, r2.next)
    BY <1>2, ElemsEmpty DEF Follows
  <2> QED
    BY <1>0, <1>1, <1>2, <2>1, <2>2, <2>3 DEF LineInv
<1>4. Events(r2, l) \subseteq Events(r, l)
  <2>1. Elems(r2.pend) = {} /\ Elems(w.evs) = Elems(r.pend)
    BY ElemsEmpty
  <2> QED
    BY <1>1, <2>1 DEF Events
<1>5. ToldInv(r2, l, st)
  BY <1>0, <1>4 DEF ToldInv, PcMoves
<1>6. PcInv(r2, l, st)
  BY <1>0, <1>1 DEF PcInv, PcMoves
<1> QED
  BY <1>0, <1>3, <1>5, <1>6 DEF RunInv

\* ... or of the message as it is.
LEMMA Saves ==
    ASSUME NEW r, NEW l, NEW st, RunInv(r, l, st), NEW r2 \in Runner, PcMoves(r, r2), SameText(r, r2),
           NEW p \in Tasks, NEW w \in Writing, w.op = "save", w.evs = <<>>,
           r2.io = [r.io EXCEPT ![p] = w], r2.orphans = r.orphans
    PROVE  RunInv(r2, l, st)
<1>0. /\ r \in Runner /\ l \in Seq(Event) /\ r.io \in [Tasks -> Writing]
      /\ LineInv(r, l, st) /\ ToldInv(r, l, st) /\ PcInv(r, l, st)
  BY DEF RunInv, Runner
<1>1. /\ r2.io[p] = w /\ \A q \in Tasks : q # p => r2.io[q] = r.io[q]
      /\ \A v \in Writes(r2) : v = w \/ v \in Writes(r)
  BY <1>0 DEF Writes
<1>3. LineInv(r2, l, st)
  <2>1. ASSUME NEW v \in Writes(r2)
        PROVE  IF v.op = "events"
               THEN v.evs # <<>> /\ InOrder(v.evs) /\ v.at =< r2.next /\ Follows(l, v.evs, v.at)
               ELSE v.evs = <<>>
    BY <1>0, <1>1, <2>1 DEF LineInv, SameText
  <2>2. ASSUME NEW q \in Tasks, r2.io[q].op = "events" PROVE r2.io[q] = r.io[q]
    BY <1>1, <2>2
  <2>3. ASSUME NEW q \in Tasks, r2.io[q].op = "events"
        PROVE  /\ r2.io[q].at = r2.next /\ Precedes(r2.io[q].evs, r2.pend)
               /\ \A s \in Tasks : r2.io[s].op = "events" => s = q
    BY <1>0, <2>2, <2>3 DEF LineInv, SameText
  <2> QED
    BY <1>0, <2>1, <2>3 DEF LineInv, SameText
<1>4. Events(r2, l) \subseteq Events(r, l)
  BY <1>1, ElemsEmpty DEF Events, SameText
<1>5. ToldInv(r2, l, st)
  BY <1>0, <1>4 DEF ToldInv, PcMoves, SameText
<1>6. PcInv(r2, l, st)
  BY <1>0, <1>1 DEF PcInv, PcMoves
<1> QED
  BY <1>0, <1>3, <1>5, <1>6 DEF RunInv

\* Events whose write raised come back before those that were said meanwhile.
LEMMA GivesBack ==
    ASSUME NEW r, NEW l, NEW st, RunInv(r, l, st), NEW r2 \in Runner, PcMoves(r, r2),
           NEW p \in Tasks, r.io[p].op # "none",
           r2.io = [r.io EXCEPT ![p] = NoWrite], r2.pend = r.io[p].evs \o r.pend,
           r2.orphans = r.orphans, r2.next = r.next, r2.made = r.made
    PROVE  RunInv(r2, l, st)
<1> DEFINE w == r.io[p]
<1>0. /\ r \in Runner /\ l \in Seq(Event) /\ r.io \in [Tasks -> Writing] /\ r.pend \in Seq(Event)
      /\ w \in Writing /\ w.evs \in Seq(Event) /\ w \in Writes(r)
      /\ LineInv(r, l, st) /\ ToldInv(r, l, st) /\ PcInv(r, l, st)
  BY DEF RunInv, Runner, Writes, Writing
<1>1. /\ r2.io[p] = NoWrite /\ \A q \in Tasks : q # p => r2.io[q] = r.io[q]
      /\ \A v \in Writes(r2) : v = NoWrite \/ v \in Writes(r)
      /\ NoWrite.op = "none" /\ NoWrite.evs = <<>>
  BY <1>0 DEF Writes, NoWrite
<1>2. CASE w.op # "events"
  <2>1. w.evs = <<>>
    BY <1>0, <1>2 DEF LineInv
  <2>2. r2.pend = r.pend
    BY <1>0, <2>1, ConcatEmptySeq
  <2>3. SameText(r, r2)
    BY <2>2 DEF SameText
  <2>4. \A q \in Tasks : r2.io[q] \in {r.io[q], NoWrite}
    BY <1>1
  <2>5. r2.orphans \subseteq Writes(r)
    BY DEF Writes
  <2> QED
    BY <2>3, <2>4, <2>5, Sheds
<1>3. CASE w.op = "events"
  <2>1. /\ InOrder(w.evs) /\ InOrder(r.pend) /\ Precedes(w.evs, r.pend) /\ w.at = r.next
        /\ Follows(l, w.evs, r.next) /\ Follows(l, r.pend, r.next)
    BY <1>0, <1>3 DEF LineInv
  <2>2. Elems(r2.pend) = Elems(w.evs) \cup Elems(r.pend) /\ InOrder(r2.pend)
    BY <1>0, <2>1, Joined
  <2>3. Follows(l, r2.pend, r2.next)
    BY <2>1, <2>2 DEF Follows, Precedes
  <2>4. ASSUME NEW q \in Tasks PROVE r2.io[q].op # "events"
    BY <1>0, <1>1, <1>3 DEF LineInv
  <2>5. ASSUME NEW v \in Writes(r2)
        PROVE  IF v.op = "events"
               THEN v.evs # <<>> /\ InOrder(v.evs) /\ v.at =< r2.next /\ Follows(l, v.evs, v.at)
               ELSE v.evs = <<>>
    BY <1>0, <1>1, <2>5 DEF LineInv
  <2>6. LineInv(r2, l, st)
    BY <1>0, <2>2, <2>3, <2>4, <2>5 DEF LineInv
  <2>7. Events(r2, l) \subseteq Events(r, l)
    BY <1>0, <1>1, <2>2, ElemsEmpty DEF Events
  <2>8. ToldInv(r2, l, st)
    BY <1>0, <2>7 DEF ToldInv, PcMoves
  <2>9. PcInv(r2, l, st)
    BY <1>0, <1>1 DEF PcInv, PcMoves
  <2> QED
    BY <1>0, <2>6, <2>8, <2>9 DEF RunInv
<1> QED
  BY <1>2, <1>3

LEMMA Beyond ==
    ASSUME NEW a \in Nat, NEW b \in Nat \ {0}
    PROVE  /\ (a + 1) + b = (a + b) + 1 /\ (a + b) + 1 =< (a + b) + 1
           /\ \A n \in Nat : n =< a + 1 => n =< (a + b) + 1 /\ n # (a + b) + 1
OBVIOUS

\* Events are stored: by their run, which goes on behind them, ...
StoredAs(r, l, st, r2, p, w, m) ==
    /\ w = r.io[p] /\ w.op = "events" /\ w.at = Len(l) + 1 /\ st # "deleted" /\ m = l \o w.evs
    /\ r2.io = [r.io EXCEPT ![p] = NoWrite] /\ r2.next = w.at + Len(w.evs)
    /\ r2.pend = r.pend /\ r2.orphans = r.orphans /\ r2.made = r.made

LEMMA Stores ==
    ASSUME NEW r, NEW l, NEW st, RunInv(r, l, st), NEW r2 \in Runner, PcMoves(r, r2),
           NEW p \in Tasks, NEW w, NEW m, StoredAs(r, l, st, r2, p, w, m)
    PROVE  RunInv(r2, m, st)
<1> USE DEF StoredAs
<1>0. /\ r \in Runner /\ l \in Seq(Event) /\ r.io \in [Tasks -> Writing] /\ r.pend \in Seq(Event)
      /\ w \in Writing /\ w.evs \in Seq(Event) /\ w \in Writes(r) /\ r.next \in Nat
      /\ LineInv(r, l, st) /\ ToldInv(r, l, st) /\ PcInv(r, l, st)
  BY DEF RunInv, Runner, Writes, Writing
<1>1. /\ r2.io[p] = NoWrite /\ \A q \in Tasks : q # p => r2.io[q] = r.io[q]
      /\ \A v \in Writes(r2) : v = NoWrite \/ v \in Writes(r)
      /\ NoWrite.op = "none" /\ NoWrite.evs = <<>>
  BY <1>0 DEF Writes, NoWrite
<1>2. /\ InOrder(l) /\ InOrder(w.evs) /\ w.evs # <<>> /\ w.at = r.next /\ r.next = Len(l) + 1
      /\ Precedes(l, w.evs) /\ Precedes(w.evs, r.pend) /\ Precedes(l, r.pend) /\ InOrder(r.pend)
  BY <1>0 DEF LineInv, Follows
<1>3. /\ m \in Seq(Event) /\ Len(m) = Len(l) + Len(w.evs) /\ InOrder(m)
      /\ Elems(m) = Elems(l) \cup Elems(w.evs)
  BY <1>0, <1>2, Joined
<1>4. Len(l) \in Nat /\ Len(w.evs) \in Nat \ {0}
  BY <1>0, <1>2, EmptySeq, LenProperties
<1>12. /\ r2.next = Len(m) + 1 /\ r2.next =< Len(m) + 1
       /\ \A n \in Nat : n =< r.next => n =< r2.next /\ n # Len(m) + 1
  <2>1. r2.next = (Len(l) + 1) + Len(w.evs) /\ r.next = Len(l) + 1
    BY <1>2, Zenon
  <2>2. /\ (Len(l) + 1) + Len(w.evs) = (Len(l) + Len(w.evs)) + 1
        /\ (Len(l) + Len(w.evs)) + 1 =< (Len(l) + Len(w.evs)) + 1
        /\ \A n \in Nat : n =< Len(l) + 1 =>
              n =< (Len(l) + Len(w.evs)) + 1 /\ n # (Len(l) + Len(w.evs)) + 1
    BY <1>4, Beyond, Zenon
  <2> QED
    BY <1>3, <2>1, <2>2, Zenon
<1>5. Precedes(m, r.pend)
  BY <1>2, <1>3 DEF Precedes
<1>6. ASSUME NEW q \in Tasks PROVE r2.io[q].op # "events"
  BY <1>0, <1>1 DEF LineInv
<1>7. ASSUME NEW v \in Writes(r2)
      PROVE  IF v.op = "events"
             THEN v.evs # <<>> /\ InOrder(v.evs) /\ v.at =< r2.next /\ Follows(m, v.evs, v.at)
             ELSE v.evs = <<>>
  <2>1. CASE v = NoWrite
    BY <1>1, <2>1
  <2>2. CASE v \in Writes(r)
    <3>1. v.at \in Nat
      BY <1>0, <2>2, EventsType
    <3>2. IF v.op = "events" THEN v.evs # <<>> /\ InOrder(v.evs) /\ v.at =< r.next ELSE v.evs = <<>>
      BY <1>0, <2>2 DEF LineInv
    <3> QED
      BY <1>12, <3>1, <3>2, Zenon DEF Follows
  <2> QED
    BY <1>1, <1>7, <2>1, <2>2
<1>8. LineInv(r2, m, st)
  <2>1. Follows(m, r2.pend, r2.next)
    BY <1>5 DEF Follows
  <2>2. InOrder(r2.pend) /\ r2.next =< Len(m) + 1
    BY <1>2, <1>12, Zenon
  <2> QED
    BY <1>3, <1>6, <1>7, <2>1, <2>2 DEF LineInv
<1>9. Events(r2, m) \subseteq Events(r, l)
  BY <1>0, <1>1, <1>3, ElemsEmpty DEF Events
<1>10. ToldInv(r2, m, st)
  BY <1>0, <1>9 DEF ToldInv, PcMoves
<1>11. PcInv(r2, m, st)
  BY <1>0, <1>1 DEF PcInv, PcMoves
<1> QED
  BY <1>3, <1>8, <1>10, <1>11 DEF RunInv

\* ... or by a thread nobody waits for: from then on nothing of the run fits.
LEMMA Commits ==
    ASSUME NEW r, NEW l, NEW st, RunInv(r, l, st), NEW r2 \in Runner, PcMoves(r, r2), SameText(r, r2),
           NEW w \in r.orphans, w.op = "events", w.at = Len(l) + 1, st # "deleted",
           r2.io = r.io, r2.orphans = r.orphans \ {w}
    PROVE  RunInv(r2, l \o w.evs, st)
<1> DEFINE m == l \o w.evs
<1>0. /\ r \in Runner /\ l \in Seq(Event) /\ r.io \in [Tasks -> Writing] /\ r.pend \in Seq(Event)
      /\ w \in Writing /\ w.evs \in Seq(Event) /\ w \in Writes(r) /\ r.next \in Nat
      /\ LineInv(r, l, st) /\ ToldInv(r, l, st) /\ PcInv(r, l, st)
  BY DEF RunInv, Runner, Writes, Writing
<1>1. Writes(r2) \subseteq Writes(r)
  BY DEF Writes
<1>2. /\ InOrder(l) /\ InOrder(w.evs) /\ w.evs # <<>> /\ Precedes(l, w.evs)
      /\ w.at =< r.next /\ r.next =< Len(l) + 1
  BY <1>0 DEF LineInv, Follows
<1>3. /\ m \in Seq(Event) /\ Len(m) = Len(l) + Len(w.evs) /\ InOrder(m)
      /\ Elems(m) = Elems(l) \cup Elems(w.evs)
  BY <1>0, <1>2, Joined
<1>4. Len(l) \in Nat /\ Len(w.evs) \in Nat \ {0}
  BY <1>0, <1>2, EmptySeq, LenProperties
<1>5. r.next < Len(m) + 1
  BY <1>0, <1>2, <1>3, <1>4
<1>6. ASSUME NEW v \in Writes(r2)
      PROVE  IF v.op = "events"
             THEN v.evs # <<>> /\ InOrder(v.evs) /\ v.at =< r2.next /\ Follows(m, v.evs, v.at)
             ELSE v.evs = <<>>
  <2>1. v.at \in Nat
    BY <1>0, <1>1, EventsType
  <2>2. IF v.op = "events" THEN v.evs # <<>> /\ InOrder(v.evs) /\ v.at =< r.next ELSE v.evs = <<>>
    BY <1>0, <1>1 DEF LineInv
  <2> QED
    BY <1>0, <1>3, <1>4, <1>5, <2>1, <2>2 DEF Follows, SameText
<1> HIDE DEF m
<1>8. LineInv(r2, m, st)
  <2>1. r2.next < Len(m) + 1 /\ r2.next \in Nat /\ Len(m) \in Nat /\ Follows(m, r2.pend, r2.next)
    BY <1>0, <1>3, <1>4, <1>5 DEF Follows, SameText
  <2> QED
    BY <1>0, <1>3, <1>6, <2>1 DEF LineInv, SameText
<1>9. Events(r2, m) \subseteq Events(r, l)
  BY <1>0, <1>1, <1>3 DEF Events, SameText
<1>10. ToldInv(r2, m, st)
  BY <1>0, <1>9 DEF ToldInv, PcMoves, SameText
<1>11. PcInv(r2, m, st)
  BY <1>0 DEF PcInv, PcMoves
<1> QED
  BY <1>3, <1>8, <1>10, <1>11 DEF RunInv, m

-----------------------------------------------------------------------------
(* The invariant of all turns.                                              *)

\* A stream tells of the end what the row says.
ReaderInv(q, st) == q.told # "none" => st = "deleted" \/ (st \in Ended /\ q.told = Outcome(st))

TurnInv(t) == /\ LineInv(run[t], log[t], row[t].st)
              /\ ToldInv(run[t], log[t], row[t].st)
              /\ PcInv(run[t], log[t], row[t].st)
              /\ ReaderInv(reader[t], row[t].st)

TurnsInv == TurnsTypeOK /\ \A t \in Turns : TurnInv(t)

LEMMA TurnHas ==
    ASSUME TurnsInv, NEW t \in Turns
    PROVE  /\ RunInv(run[t], log[t], row[t].st) /\ ReaderInv(reader[t], row[t].st)
           /\ run[t] \in Runner /\ log[t] \in Seq(Event)
           /\ TurnsTypeOK
BY DEF TurnsInv, TurnInv, TurnsTypeOK, RunInv

\* One turn changes; another keeps what its invariant is about.
LEMMA TurnChanges ==
    ASSUME TurnsInv, NEW t \in Turns, TurnsTypeOK',
           RunInv(run'[t], log'[t], row'[t].st), ReaderInv(reader'[t], row'[t].st),
           \A s \in Turns \ {t} : /\ run'[s] = run[s] /\ log'[s] = log[s]
                                  /\ row'[s].st = row[s].st /\ reader'[s] = reader[s]
    PROVE  TurnsInv'
<1>1. ASSUME NEW s \in Turns PROVE TurnInv(s)'
  <2>1. CASE s = t
    BY <2>1 DEF TurnInv, RunInv
  <2>2. CASE s # t
    BY <2>2 DEF TurnsInv, TurnInv
  <2> QED
    BY <2>1, <2>2
<1> QED
  BY <1>1 DEF TurnsInv

\* A step of the run of a turn, which may store events.
LEMMA RunTo ==
    ASSUME TurnsInv, NEW t \in Turns, NEW r2, NEW l2, Run(t, r2), RunInv(r2, l2, row[t].st),
           (log' = log /\ l2 = log[t]) \/ log' = [log EXCEPT ![t] = l2],
           UNCHANGED <<conv, row, sweeping, reader>>, saved' \in [Turns -> Nat]
    PROVE  TurnsInv'
<1>1. /\ TurnsTypeOK /\ r2 \in Runner /\ l2 \in Seq(Event) /\ ReaderInv(reader[t], row[t].st)
      /\ run \in [Turns -> Runner] /\ log \in [Turns -> Seq(Event)]
  BY DEF TurnsInv, TurnInv, RunInv, TurnsTypeOK
<1>2. run' \in [Turns -> Runner] /\ run'[t] = r2 /\ \A s \in Turns \ {t} : run'[s] = run[s]
  BY <1>1 DEF Run
<1>3. log' \in [Turns -> Seq(Event)] /\ log'[t] = l2 /\ \A s \in Turns \ {t} : log'[s] = log[s]
  BY <1>1
<1>4. TurnsTypeOK'
  BY <1>1, <1>2, <1>3 DEF TurnsTypeOK
<1> QED
  BY <1>1, <1>2, <1>3, <1>4, TurnChanges

LEMMA ShedsTo ==
    ASSUME TurnsInv, NEW t \in Turns, NEW r2 \in Runner, Run(t, r2),
           PcMoves(run[t], r2), SameText(run[t], r2),
           \A p \in Tasks : r2.io[p] \in {run[t].io[p], NoWrite},
           r2.orphans \subseteq Writes(run[t]),
           UNCHANGED <<conv, row, log, sweeping, reader>>, saved' \in [Turns -> Nat]
    PROVE  TurnsInv'
BY TurnHas, Sheds, RunTo

\* A change of the status of a row that has not ended, and of its run.
LEMMA RowTo ==
    ASSUME TurnsInv, NEW t \in Turns, row[t].st \notin Ended \cup {"deleted"},
           NEW r2, RunInv(r2, log[t], row'[t].st), row'[t].st # "deleted",
           (run' = run /\ r2 = run[t]) \/ Run(t, r2),
           row' \in [Turns -> [st : Active \cup Ended \cup {"none", "deleted"},
                               live : BOOLEAN, cancel : BOOLEAN]],
           \A s \in Turns \ {t} : row'[s] = row[s],
           UNCHANGED <<conv, log, saved, reader>>, sweeping' \subseteq Turns
    PROVE  TurnsInv'
<1>1. /\ TurnsTypeOK /\ r2 \in Runner /\ ReaderInv(reader[t], row[t].st)
      /\ run \in [Turns -> Runner]
  BY DEF TurnsInv, TurnInv, RunInv, TurnsTypeOK
<1>2. run' \in [Turns -> Runner] /\ run'[t] = r2 /\ \A s \in Turns \ {t} : run'[s] = run[s]
  BY <1>1 DEF Run
<1>3. TurnsTypeOK'
  BY <1>1, <1>2 DEF TurnsTypeOK
<1>4. ReaderInv(reader'[t], row'[t].st)
  BY <1>1 DEF ReaderInv
<1> QED
  BY <1>2, <1>3, <1>4, TurnChanges

-----------------------------------------------------------------------------
(* The parts of a run record.                                               *)

LEMMA RunnerParts ==
    ASSUME NEW r \in Runner
    PROVE  /\ r.pc \in RunPc /\ r.verdict \in Ended /\ r.lost \in BOOLEAN /\ r.aux \in BOOLEAN
           /\ r.made \in Nat /\ r.kept \in Nat /\ r.next \in Nat /\ r.pend \in Seq(Event)
           /\ r.io \in [Tasks -> Writing] /\ r.orphans \subseteq Writing
           /\ \A p \in Tasks : r.io[p] \in Writes(r) /\ r.io[p].evs \in Seq(Event) /\ r.io[p].at \in Nat
           /\ r.orphans \subseteq Writes(r)
BY DEF Runner, Writes, Writing

LEMMA NoWriteType == NoWrite \in Writing /\ NoWrite.op = "none"
BY ElemsEmpty DEF NoWrite, Writing

\* A run that has anything to do has begun.
LEMMA Begun ==
    ASSUME NEW r, NEW l, NEW st, RunInv(r, l, st),
           r.aux \/ r.pend # <<>> \/ r.orphans # {} \/ (\E p \in Tasks : r.io[p].op # "none")
    PROVE  r.pc \notin {"none", "claim"}
BY NoWriteType DEF RunInv, PcInv, Blank

LEMMA OrphanedIs ==
    ASSUME NEW r \in Runner, NEW p \in Tasks
    PROVE  LET o == Orphaned(r, p)
           IN  /\ o \in Runner /\ SameText(r, o) /\ o.orphans \subseteq Writes(r)
               /\ o.pc = r.pc /\ o.verdict = r.verdict /\ o.lost = r.lost /\ o.aux = r.aux
               /\ o.io[p] = NoWrite /\ \A q \in Tasks : o.io[q] \in {r.io[q], NoWrite}
<1> DEFINE os == IF r.io[p].op = "none" THEN r.orphans ELSE r.orphans \cup {r.io[p]}
           is == [r.io EXCEPT ![p] = NoWrite]
           o == [r EXCEPT !.io = is, !.orphans = os]
<1>1. os \subseteq Writes(r) /\ os \subseteq Writing
  BY RunnerParts
<1>2. /\ is \in [Tasks -> Writing] /\ is[p] = NoWrite
      /\ \A q \in Tasks : is[q] \in {r.io[q], NoWrite}
  BY RunnerParts, NoWriteType
<1>3. Orphaned(r, p) = o
  BY DEF Orphaned
<1> HIDE DEF os, is
<1>4. /\ o \in Runner /\ o.io = is /\ o.orphans = os /\ SameText(r, o)
      /\ o.pc = r.pc /\ o.verdict = r.verdict /\ o.lost = r.lost /\ o.aux = r.aux
  BY <1>1, <1>2 DEF Runner, SameText
<1> QED
  BY <1>1, <1>2, <1>3, <1>4

LEMMA InterruptedIs ==
    ASSUME NEW r \in Runner
    PROVE  LET o == Interrupted(r)
           IN  /\ o \in Runner /\ SameText(r, o) /\ o.io = r.io /\ o.orphans = r.orphans
               /\ o.verdict = "interrupted" /\ o.lost
               /\ o.pc = IF r.pc = "loop" THEN "stop" ELSE IF r.pc \in {"flush", "save"} THEN "drop"
                         ELSE r.pc
<1> DEFINE pc == IF r.pc = "loop" THEN "stop" ELSE IF r.pc \in {"flush", "save"} THEN "drop" ELSE r.pc
<1>1. Interrupted(r) = [r EXCEPT !.lost = TRUE, !.verdict = "interrupted", !.pc = pc]
  BY DEF Interrupted, Runner
<1>2. pc \in RunPc
  BY RunnerParts DEF RunPc
<1> HIDE DEF pc
<1>3. LET o == [r EXCEPT !.lost = TRUE, !.verdict = "interrupted", !.pc = pc]
      IN  /\ o \in Runner /\ SameText(r, o) /\ o.io = r.io /\ o.orphans = r.orphans
          /\ o.verdict = "interrupted" /\ o.lost /\ o.pc = pc
  BY <1>2 DEF Runner, SameText, Ended
<1> QED
  BY <1>1, <1>3 DEF pc

LEMMA FailedIs ==
    ASSUME NEW r \in Runner
    PROVE  LET o == Failed(r)
           IN  /\ o \in Runner /\ o.io = r.io /\ o.orphans = r.orphans /\ o.next = r.next
               /\ o.verdict = "failed" /\ o.pc = "stop" /\ o.lost = r.lost
               /\ o.made = r.made + 1 /\ o.pend = Append(r.pend, Block(r.made + 1))
<1> DEFINE s == Append(r.pend, Block(r.made + 1))
           m == r.made + 1
<1>1. s \in Seq(Event) /\ m \in Nat
  BY RunnerParts, BlocksAndEnds, Added
<1>2. Failed(r) = [r EXCEPT !.pc = "stop", !.verdict = "failed", !.made = m, !.pend = s]
  BY DEF Failed, Runner
<1> HIDE DEF s, m
<1>3. LET o == [r EXCEPT !.pc = "stop", !.verdict = "failed", !.made = m, !.pend = s]
      IN  /\ o \in Runner /\ o.io = r.io /\ o.orphans = r.orphans /\ o.next = r.next
          /\ o.verdict = "failed" /\ o.pc = "stop" /\ o.lost = r.lost /\ o.made = m /\ o.pend = s
  BY <1>1 DEF Runner, Ended, RunPc
<1> QED
  BY <1>2, <1>3 DEF s, m

-----------------------------------------------------------------------------
(* One action after the other: admission and claim.                         *)

LEMMA CreateStep == ASSUME TurnsInv, NEW t \in Turns, Create(t) PROVE TurnsInv'
<1> DEFINE c == [run[t] EXCEPT !.pc = "claim"]
<1>1. /\ TurnsTypeOK /\ RunInv(run[t], log[t], row[t].st) /\ row[t].st = "none" /\ run[t] \in Runner
  BY TurnHas DEF Create
<1>2. Blank(run[t]) /\ log[t] = <<>>
  BY <1>1 DEF RunInv, PcInv
<1>3. c \in Runner /\ c.pc = "claim" /\ Blank(c)
  BY <1>1, <1>2 DEF Runner, RunPc, Blank
<1>4. NoWrite.op = "none" /\ NoWrite.evs = <<>>
  BY DEF NoWrite
<1>5. Writes(c) = {NoWrite}
  BY <1>3 DEF Writes, Blank, Tasks
<1>6. RunInv(c, <<>>, "queued")
  <2> HIDE DEF c
  <2>1. Events(c, <<>>) = {}
    BY <1>3, <1>4, <1>5, ElemsEmpty DEF Events, Blank
  <2>2. ToldInv(c, <<>>, "queued") /\ PcInv(c, <<>>, "queued")
    BY <1>3, <2>1 DEF ToldInv, PcInv, Blank
  <2>3. LineInv(c, <<>>, "queued")
    BY <1>3, <1>4, <1>5, ElemsEmpty DEF LineInv, Follows, Precedes, Blank
  <2> QED
    BY <1>3, <2>2, <2>3, ElemsEmpty DEF RunInv
<1>7. Run(t, c) /\ row' = [row EXCEPT ![t].st = "queued", ![t].live = TRUE]
  BY DEF Create, Go, Run
<1>8. /\ row' \in [Turns -> [st : Active \cup Ended \cup {"none", "deleted"},
                             live : BOOLEAN, cancel : BOOLEAN]]
      /\ row'[t].st = "queued" /\ \A s \in Turns \ {t} : row'[s] = row[s]
  <2> DEFINE Rows == [st : Active \cup Ended \cup {"none", "deleted"}, live : BOOLEAN, cancel : BOOLEAN]
             q == [row[t] EXCEPT !.st = "queued", !.live = TRUE]
  <2>1. row \in [Turns -> Rows]
    BY <1>1 DEF TurnsTypeOK
  <2>2. q \in Rows /\ q.st = "queued"
    BY <2>1 DEF Active
  <2>3. row' = [row EXCEPT ![t] = q]
    BY <1>7, <2>1
  <2> HIDE DEF Rows, q
  <2>4. row' \in [Turns -> Rows] /\ row'[t] = q /\ \A s \in Turns \ {t} : row'[s] = row[s]
    BY <2>1, <2>2, <2>3
  <2> QED
    BY <2>2, <2>4 DEF Rows
<1>9. UNCHANGED <<conv, log, saved, reader>> /\ sweeping' \subseteq Turns
  BY <1>1 DEF Create, TurnsTypeOK
<1> HIDE DEF c
<1> QED
  BY <1>1, <1>2, <1>6, <1>7, <1>8, <1>9, RowTo DEF Ended

\* A row that ends, or changes in any other way before its end.
LEMMA RowSets ==
    ASSUME TurnsInv, NEW t \in Turns, NEW st \in Active \cup Ended, NEW live \in BOOLEAN,
           row' = [row EXCEPT ![t].st = st, ![t].live = live]
    PROVE  /\ row' \in [Turns -> [st : Active \cup Ended \cup {"none", "deleted"},
                                  live : BOOLEAN, cancel : BOOLEAN]]
           /\ row'[t].st = st /\ \A s \in Turns \ {t} : row'[s] = row[s]
<1>1. row \in [Turns -> [st : Active \cup Ended \cup {"none", "deleted"},
                         live : BOOLEAN, cancel : BOOLEAN]]
  BY DEF TurnsInv, TurnsTypeOK
<1> QED
  BY <1>1

LEMMA ClaimStep == ASSUME TurnsInv, NEW t \in Turns, Claim(t) PROVE TurnsInv'
<1>1. /\ TurnsTypeOK /\ RunInv(run[t], log[t], row[t].st) /\ run[t].pc = "claim" /\ run[t] \in Runner
  BY TurnHas DEF Claim
<1>2. Blank(run[t])
  BY <1>1 DEF RunInv, PcInv
<1>3. CASE row[t].st = "queued"
  <2> DEFINE a == [run[t] EXCEPT !.pc = "loop", !.aux = TRUE]
             b == [run[t] EXCEPT !.pc = "undo"]
  <2>1. /\ a \in Runner /\ b \in Runner /\ SameText(run[t], a) /\ SameText(run[t], b)
        /\ a.io = run[t].io /\ b.io = run[t].io /\ a.orphans = run[t].orphans /\ b.orphans = run[t].orphans
        /\ a.pc = "loop" /\ a.aux /\ a.lost = run[t].lost /\ b.pc = "undo"
    BY <1>1 DEF Runner, RunPc, SameText
  <2>2. ~run[t].lost
    BY <1>2 DEF Blank
  <2>3. PcMoves(run[t], a) /\ PcMoves(run[t], b)
    BY <1>1, <2>1, <2>2 DEF PcMoves
  <2>4. row' = [row EXCEPT ![t].st = "running", ![t].live = TRUE] /\ (Run(t, a) \/ Run(t, b))
    BY <1>3 DEF Claim, Go, Run
  <2> HIDE DEF a, b
  <2>5. RunInv(run[t], log[t], "running")
    BY <1>1, <1>3, RowMoves DEF Ended
  <2>6. RunInv(a, log[t], "running") /\ RunInv(b, log[t], "running")
    BY <1>1, <2>1, <2>3, <2>5, Sheds, RunnerParts
  <2>7. UNCHANGED <<conv, log, saved, reader>> /\ sweeping' \subseteq Turns
    BY <1>1 DEF Claim, TurnsTypeOK
  <2>8. /\ row' \in [Turns -> [st : Active \cup Ended \cup {"none", "deleted"},
                               live : BOOLEAN, cancel : BOOLEAN]]
        /\ row'[t].st = "running" /\ \A s \in Turns \ {t} : row'[s] = row[s]
    BY <2>4, RowSets DEF Active
  <2>9. row[t].st \notin Ended \cup {"deleted"}
    BY <1>3 DEF Ended
  <2>10. CASE Run(t, a)
    BY <2>6, <2>7, <2>8, <2>9, <2>10, RowTo
  <2>11. CASE Run(t, b)
    BY <2>6, <2>7, <2>8, <2>9, <2>11, RowTo
  <2> QED
    BY <2>4, <2>10, <2>11
<1>4. CASE row[t].st # "queued"
  BY <1>1, <1>4, Leaves, RunTo DEF Claim, Over, TurnsTypeOK
<1> QED
  BY <1>3, <1>4

LEMMA UndoStep == ASSUME TurnsInv, NEW t \in Turns, Undo(t) PROVE TurnsInv'
<1>1. /\ TurnsTypeOK /\ RunInv(run[t], log[t], row[t].st) /\ run[t].pc = "undo"
      /\ Run(t, Idle("over")) /\ UNCHANGED <<conv, log, saved, sweeping, reader>>
  BY TurnHas DEF Undo, Over
<1>2. CASE row[t].st = "running"
  <2>1. row' = [row EXCEPT ![t].st = "interrupted", ![t].live = FALSE]
    BY <1>2 DEF Undo, Finish
  <2>2. RunInv(Idle("over"), log[t], "interrupted")
    BY <1>1, <1>2, RowMoves, Leaves DEF Ended
  <2>3. /\ row' \in [Turns -> [st : Active \cup Ended \cup {"none", "deleted"},
                               live : BOOLEAN, cancel : BOOLEAN]]
        /\ row'[t].st = "interrupted" /\ \A s \in Turns \ {t} : row'[s] = row[s]
    BY <2>1, RowSets DEF Ended
  <2>4. row[t].st \notin Ended \cup {"deleted"} /\ sweeping' \subseteq Turns
    BY <1>1, <1>2 DEF Ended, TurnsTypeOK
  <2> QED
    BY <1>1, <2>2, <2>3, <2>4, RowTo
<1>3. CASE row[t].st # "running"
  BY <1>1, <1>3, Leaves, RunTo DEF Undo, TurnsTypeOK
<1> QED
  BY <1>2, <1>3

-----------------------------------------------------------------------------
(* Writes.                                                                  *)

LEMMA BeginFlushStep == ASSUME TurnsInv, NEW t \in Turns, NEW p \in Tasks, BeginFlush(t, p) PROVE TurnsInv'
<1> DEFINE w == [op |-> "events", evs |-> run[t].pend, at |-> run[t].next, owned |-> run[t].pc # "tell"]
           is == [run[t].io EXCEPT ![p] = w]
           r2 == [run[t] EXCEPT !.pend = <<>>, !.io = is]
<1>1. /\ TurnsTypeOK /\ RunInv(run[t], log[t], row[t].st) /\ run[t] \in Runner
      /\ run[t].pend # <<>> /\ \A q \in Tasks : run[t].io[q].op # "events"
      /\ UNCHANGED <<conv, row, log, saved, sweeping, reader>>
  BY TurnHas DEF BeginFlush, Free
<1>2. /\ w \in Writing /\ w.op = "events" /\ w.evs = run[t].pend /\ w.at = run[t].next
  BY <1>1, RunnerParts DEF Writing
<1>3. Run(t, r2)
  BY DEF BeginFlush, Run
<1> HIDE DEF w
<1>4. is \in [Tasks -> Writing]
  BY <1>1, <1>2, RunnerParts
<1>5. /\ r2 \in Runner /\ r2.io = is /\ r2.pend = <<>> /\ r2.orphans = run[t].orphans
      /\ r2.next = run[t].next /\ r2.made = run[t].made /\ r2.pc = run[t].pc
      /\ r2.aux = run[t].aux /\ r2.lost = run[t].lost
  BY <1>1, <1>4, ElemsEmpty DEF Runner
<1> HIDE DEF r2
<1>6. PcMoves(run[t], r2)
  BY <1>1, <1>5, Begun DEF PcMoves, RunInv, PcInv
<1>7. RunInv(r2, log[t], row[t].st)
  BY <1>1, <1>2, <1>5, <1>6, Flushes
<1> QED
  BY <1>1, <1>3, <1>7, RunTo DEF TurnsTypeOK

LEMMA BeginSaveStep ==
    ASSUME TurnsInv, NEW t \in Turns, NEW p \in Tasks, BeginSave(t, p), run[t].pc \notin {"none", "claim"}
    PROVE  TurnsInv'
<1> DEFINE w == [op |-> "save", evs |-> <<>>, at |-> run[t].made, owned |-> run[t].pc # "tell"]
           is == [run[t].io EXCEPT ![p] = w]
           r2 == [run[t] EXCEPT !.io = is]
<1>1. /\ TurnsTypeOK /\ RunInv(run[t], log[t], row[t].st) /\ run[t] \in Runner
      /\ UNCHANGED <<conv, row, log, saved, sweeping, reader>>
  BY TurnHas DEF BeginSave
<1>2. /\ w \in Writing /\ w.op = "save" /\ w.evs = <<>>
  BY <1>1, RunnerParts, ElemsEmpty DEF Writing
<1>3. Run(t, r2)
  BY DEF BeginSave, Run
<1> HIDE DEF w
<1>4. is \in [Tasks -> Writing]
  BY <1>1, <1>2, RunnerParts
<1>5. /\ r2 \in Runner /\ r2.io = is /\ SameText(run[t], r2) /\ r2.orphans = run[t].orphans
      /\ r2.pc = run[t].pc /\ r2.aux = run[t].aux /\ r2.lost = run[t].lost
  BY <1>1, <1>4 DEF Runner, SameText
<1> HIDE DEF r2
<1>6. PcMoves(run[t], r2)
  BY <1>1, <1>5 DEF PcMoves, RunInv, PcInv
<1>7. RunInv(r2, log[t], row[t].st)
  BY <1>1, <1>2, <1>5, <1>6, Saves
<1> QED
  BY <1>1, <1>3, <1>7, RunTo DEF TurnsTypeOK

LEMMA StoredStep ==
    ASSUME TurnsInv, NEW t \in Turns, NEW p \in Tasks, run[t].io[p].op # "none",
           Stored(t, p, run[t].io[p]), UNCHANGED <<conv, row, sweeping, reader>>
    PROVE  TurnsInv'
<1> DEFINE r == run[t]
           w == r.io[p]
           is == [r.io EXCEPT ![p] = NoWrite]
           pc == IF p = "flusher" THEN r.pc
                 ELSE CASE r.pc = "flush" -> "save" [] r.pc = "save" -> "finish"
                        [] r.pc = "tell" -> "over" [] OTHER -> r.pc
           nx == IF w.op = "events" THEN w.at + Len(w.evs) ELSE r.next
           kp == IF w.op = "save" THEN w.at ELSE r.kept
           r2 == [r EXCEPT !.io = is, !.next = nx, !.kept = kp, !.pc = pc]
<1>1. /\ TurnsTypeOK /\ RunInv(r, log[t], row[t].st) /\ r \in Runner /\ r.pc \notin {"none", "claim"}
      /\ saved \in [Turns -> Nat]
  BY TurnHas, Begun DEF TurnsTypeOK
<1>2. w \in Writing /\ w.evs \in Seq(Event) /\ w.at \in Nat
  BY <1>1, RunnerParts
<1>3. /\ pc \in RunPc /\ pc \notin {"none", "claim"}
      /\ r.pc = "over" => pc = "over"
      /\ r.pc = "tell" => pc \in {"tell", "over"}
      /\ pc = "loop" => r.pc = "loop"
  BY <1>1, RunnerParts DEF RunPc
<1>4. nx \in Nat /\ kp \in Nat
  BY <1>1, <1>2, RunnerParts, LenProperties
<1>5. is \in [Tasks -> Writing] /\ \A q \in Tasks : is[q] \in {r.io[q], NoWrite}
  BY <1>1, RunnerParts, NoWriteType
<1>6. Run(t, r2)
  BY DEF Stored, Run
<1>7. /\ Allowed(t, w) /\ Fits(t, w)
      /\ log' = IF w.op = "events" THEN [log EXCEPT ![t] = @ \o w.evs] ELSE log
      /\ saved' = IF w.op = "save" THEN [saved EXCEPT ![t] = w.at] ELSE saved
  BY DEF Stored, Store
<1>8. row[t].st # "deleted"
  BY <1>7 DEF Allowed, Owns
<1>9. w.op = "events" => w.at = Len(log[t]) + 1
  BY <1>7 DEF Fits
<1>10. saved' \in [Turns -> Nat]
  BY <1>1, <1>2, <1>7
<1> HIDE DEF pc, kp, is
<1>11. /\ r2 \in Runner /\ r2.io = is /\ r2.next = nx /\ r2.pend = r.pend /\ r2.made = r.made
       /\ r2.orphans = r.orphans /\ r2.pc = pc /\ r2.aux = r.aux /\ r2.lost = r.lost
  BY <1>1, <1>3, <1>4, <1>5 DEF Runner
<1>12. PcMoves(r, r2)
  BY <1>1, <1>3, <1>11 DEF PcMoves, RunInv, PcInv
<1> HIDE DEF r2
<1>13. CASE w.op = "events"
  <2> DEFINE m == log[t] \o w.evs
  <2>1. log' = [log EXCEPT ![t] = m]
    BY <1>7, <1>13
  <2>2. r2.next = w.at + Len(w.evs) /\ r2.io = [r.io EXCEPT ![p] = NoWrite]
    BY <1>11, <1>13 DEF is
  <2>3. w.at = Len(log[t]) + 1
    BY <1>9, <1>13
  <2> HIDE DEF nx, r
  <2>4. RunInv(r2, m, row[t].st)
    <3> HIDE DEF w, m
    <3>1. RunInv(r, log[t], row[t].st) /\ r2 \in Runner /\ PcMoves(r, r2)
      BY <1>1, <1>11, <1>12
    <3>2. StoredAs(r, log[t], row[t].st, r2, p, w, m)
      BY <1>8, <1>11, <1>13, <2>2, <2>3 DEF StoredAs, w, m
    <3> QED
      BY <3>1, <3>2, Stores
  <2> HIDE DEF m
  <2> QED
    BY <1>6, <1>10, <2>1, <2>4, RunTo
<1>14. CASE w.op # "events"
  <2>1. SameText(r, r2) /\ log' = log
    BY <1>7, <1>11, <1>14 DEF SameText
  <2>2. r2.orphans \subseteq Writes(r)
    BY <1>1, <1>11, RunnerParts
  <2> QED
    BY <1>1, <1>5, <1>6, <1>10, <1>11, <1>12, <2>1, <2>2, ShedsTo
<1> QED
  BY <1>13, <1>14

LEMMA RaisesStep ==
    ASSUME TurnsInv, NEW t \in Turns, NEW p \in Tasks, run[t].io[p].op # "none",
           Raises(t, p, run[t].io[p]), UNCHANGED <<conv, row, sweeping, reader>>
    PROVE  TurnsInv'
<1> DEFINE r == run[t]
           w == r.io[p]
           is == [r.io EXCEPT ![p] = NoWrite]
           ps == w.evs \o r.pend
           b == [r EXCEPT !.io = is, !.pend = ps]
<1>1. /\ TurnsTypeOK /\ RunInv(r, log[t], row[t].st) /\ r \in Runner /\ r.pc \notin {"none", "claim"}
      /\ UNCHANGED <<conv, row, log, sweeping, reader>> /\ saved' \in [Turns -> Nat]
  BY TurnHas, Begun DEF TurnsTypeOK, Raises
<1>2. w \in Writing /\ w.evs \in Seq(Event) /\ ps \in Seq(Event)
  BY <1>1, RunnerParts, Joined
<1>3. is \in [Tasks -> Writing]
  BY <1>1, RunnerParts, NoWriteType
<1>4. [r EXCEPT !.io[p] = NoWrite, !.pend = w.evs \o @] = b
  BY <1>1 DEF Runner
<1>5. \/ Run(t, b)
      \/ r.pc = "loop" /\ Run(t, Failed(b))
      \/ Run(t, [b EXCEPT !.pc = "finish"]) /\ r.pc \in {"flush", "save"}
      \/ Run(t, [b EXCEPT !.pc = "over"])
  <2>1. Run(t, IF p = "flusher" THEN b
               ELSE CASE b.pc = "loop" -> Failed(b)
                      [] b.pc \in {"flush", "save"} -> [b EXCEPT !.pc = "finish"]
                      [] OTHER -> [b EXCEPT !.pc = "over"])
    BY <1>4 DEF Raises
  <2>2. b.pc = r.pc
    BY <1>1 DEF Runner
  <2> HIDE DEF b, r
  <2> QED
    BY <2>1, <2>2
<1> HIDE DEF is, ps
<1>6. /\ b \in Runner /\ b.io = is /\ b.pend = ps /\ b.orphans = r.orphans /\ b.next = r.next
      /\ b.made = r.made /\ b.pc = r.pc /\ b.aux = r.aux /\ b.lost = r.lost
  BY <1>1, <1>2, <1>3 DEF Runner
<1> HIDE DEF b
<1>7. PcMoves(r, b)
  BY <1>1, <1>6 DEF PcMoves, RunInv, PcInv
<1>8. RunInv(b, log[t], row[t].st)
  BY <1>1, <1>6, <1>7, GivesBack DEF is, ps
<1> HIDE DEF r, w
<1>9. CASE Run(t, b)
  BY <1>1, <1>8, <1>9, RunTo
<1>10. CASE r.pc = "loop" /\ Run(t, Failed(b))
  <2>1. PcMoves(b, Failed(b))
    BY <1>6, <1>10, FailedIs DEF PcMoves
  <2>2. RunInv(Failed(b), log[t], row[t].st)
    BY <1>6, <1>8, <1>10, <2>1, FailedIs, Says
  <2> QED
    BY <1>1, <1>10, <2>2, RunTo
<1>11. ASSUME NEW pc \in {"finish", "over"}, Run(t, [b EXCEPT !.pc = pc]),
              pc = "finish" => r.pc \in {"flush", "save"}
       PROVE  TurnsInv'
  <2> DEFINE c == [b EXCEPT !.pc = pc]
  <2>1. c \in Runner /\ SameText(b, c) /\ c.io = b.io /\ c.orphans = b.orphans /\ c.pc = pc
    BY <1>6 DEF Runner, RunPc, SameText
  <2>0. Run(t, c)
    BY <1>11
  <2> HIDE DEF c
  <2>2. PcMoves(b, c)
    BY <1>1, <1>6, <1>11, <2>1 DEF PcMoves
  <2>3. c.orphans \subseteq Writes(b)
    BY <1>6, <2>1, RunnerParts
  <2>4. RunInv(c, log[t], row[t].st)
    BY <1>8, <2>1, <2>2, <2>3, Sheds
  <2> QED
    BY <1>1, <2>0, <2>4, RunTo
<1> QED
  BY <1>5, <1>9, <1>10, <1>11

LEMMA RefusedStep ==
    ASSUME TurnsInv, NEW t \in Turns, NEW p \in Tasks, run[t].io[p].op # "none",
           Refused(t, p, run[t].io[p]), UNCHANGED <<conv, row, sweeping, reader>>
    PROVE  TurnsInv'
<1> DEFINE r == run[t]
           is == [r.io EXCEPT ![p] = NoWrite]
           b == [r EXCEPT !.io = is]
<1>1. /\ TurnsTypeOK /\ RunInv(r, log[t], row[t].st) /\ r \in Runner /\ r.pc \notin {"none", "claim"}
      /\ UNCHANGED <<conv, row, log, sweeping, reader>> /\ saved' \in [Turns -> Nat]
  BY TurnHas, Begun DEF TurnsTypeOK, Refused
<1>2. is \in [Tasks -> Writing] /\ \A q \in Tasks : is[q] \in {r.io[q], NoWrite}
  BY <1>1, RunnerParts, NoWriteType
<1>3. Run(t, IF p = "main" THEN Interrupted(b)
             ELSE IF b.pc = "loop" THEN Interrupted(Orphaned(b, "main"))
             ELSE [b EXCEPT !.lost = TRUE])
  BY DEF Refused
<1>4. PICK r2 : /\ Run(t, r2)
                /\ \/ r2 = Interrupted(b) \/ r2 = Interrupted(Orphaned(b, "main"))
                   \/ r2 = [b EXCEPT !.lost = TRUE] /\ b.pc # "loop"
  BY <1>3
<1> HIDE DEF is
<1>5. /\ b \in Runner /\ SameText(r, b) /\ b.io = is /\ b.orphans = r.orphans
      /\ b.pc = r.pc /\ b.aux = r.aux /\ b.lost = r.lost
  BY <1>1, <1>2 DEF Runner, SameText
<1> HIDE DEF b
<1>6. PcMoves(r, b)
  BY <1>1, <1>5 DEF PcMoves, RunInv, PcInv
<1>7. RunInv(b, log[t], row[t].st)
  BY <1>1, <1>2, <1>5, <1>6, RunnerParts, Sheds
<1> HIDE DEF r
<1>8. /\ r2 \in Runner /\ SameText(b, r2) /\ \A q \in Tasks : r2.io[q] \in {b.io[q], NoWrite}
      /\ r2.orphans \subseteq Writes(b) /\ PcMoves(b, r2)
  <2>1. CASE r2 = Interrupted(b)
    BY <1>1, <1>5, <2>1, InterruptedIs, RunnerParts DEF PcMoves
  <2>2. CASE r2 = Interrupted(Orphaned(b, "main"))
    <3> DEFINE o == Orphaned(b, "main")
    <3>1. /\ o \in Runner /\ SameText(b, o) /\ o.orphans \subseteq Writes(b) /\ o.pc = b.pc
          /\ \A q \in Tasks : o.io[q] \in {b.io[q], NoWrite}
      BY <1>5, OrphanedIs DEF Tasks
    <3> HIDE DEF o
    <3>2. r2 = Interrupted(o)
      BY <2>2 DEF o
    <3> QED
      BY <1>1, <1>5, <3>1, <3>2, InterruptedIs DEF PcMoves, SameText
  <2>3. CASE r2 = [b EXCEPT !.lost = TRUE] /\ b.pc # "loop"
    <3>1. r2 \in Runner /\ SameText(b, r2) /\ r2.io = b.io /\ r2.orphans = b.orphans /\ r2.pc = b.pc
      BY <1>5, <2>3 DEF Runner, SameText
    <3> QED
      BY <1>1, <1>5, <2>3, <3>1, RunnerParts DEF PcMoves
  <2> QED
    BY <1>4, <2>1, <2>2, <2>3
<1>9. RunInv(r2, log[t], row[t].st)
  BY <1>7, <1>8, Sheds
<1> QED
  BY <1>1, <1>4, <1>9, RunTo

LEMMA WriteStep == ASSUME TurnsInv, NEW t \in Turns, NEW p \in Tasks, Write(t, p) PROVE TurnsInv'
BY StoredStep, RaisesStep, RefusedStep DEF Write

LEMMA CommitStep ==
    ASSUME TurnsInv, NEW t \in Turns, NEW w \in run[t].orphans, Commit(t, w) PROVE TurnsInv'
<1> DEFINE r == run[t]
           os == r.orphans \ {w}
           r2 == [r EXCEPT !.orphans = os]
<1>1. /\ TurnsTypeOK /\ RunInv(r, log[t], row[t].st) /\ r \in Runner /\ r.pc \notin {"none", "claim"}
      /\ UNCHANGED <<conv, row, sweeping, reader>> /\ saved \in [Turns -> Nat]
  BY TurnHas, Begun DEF TurnsTypeOK, Commit
<1>2. w \in Writing /\ w.evs \in Seq(Event) /\ w.at \in Nat /\ os \subseteq Writing /\ os \subseteq Writes(r)
  BY <1>1, RunnerParts DEF Writing
<1>3. Run(t, r2)
  BY DEF Commit, Run
<1>4. \/ UNCHANGED <<log, saved>>
      \/ Allowed(t, w) /\ Fits(t, w) /\ Store(t, w)
  BY DEF Commit
<1> HIDE DEF os
<1>5. /\ r2 \in Runner /\ SameText(r, r2) /\ r2.io = r.io /\ r2.orphans = os
      /\ r2.pc = r.pc /\ r2.aux = r.aux /\ r2.lost = r.lost
  BY <1>1, <1>2 DEF Runner, SameText
<1> HIDE DEF r2
<1>6. PcMoves(r, r2)
  BY <1>1, <1>5 DEF PcMoves, RunInv, PcInv
<1>7. saved' \in [Turns -> Nat]
  BY <1>1, <1>2, <1>4 DEF Store
<1>8. CASE log' = log
  BY <1>1, <1>2, <1>3, <1>5, <1>6, <1>7, <1>8, ShedsTo
<1>9. CASE Allowed(t, w) /\ Fits(t, w) /\ w.op = "events" /\ Store(t, w)
  <2> DEFINE m == log[t] \o w.evs
  <2>1. log' = [log EXCEPT ![t] = m] /\ w.at = Len(log[t]) + 1 /\ row[t].st # "deleted"
    BY <1>9 DEF Store, Fits, Allowed, Owns
  <2>2. w \in r.orphans /\ r2.orphans = r.orphans \ {w}
    BY <1>5 DEF os
  <2> HIDE DEF r
  <2>3. RunInv(r2, m, row[t].st)
    BY <1>1, <1>5, <1>6, <1>9, <2>1, <2>2, Commits
  <2> HIDE DEF m
  <2> QED
    BY <1>1, <1>3, <1>7, <2>1, <2>3, RunTo
<1> QED
  BY <1>4, <1>8, <1>9 DEF Store

-----------------------------------------------------------------------------
(* The model loop and the end of a run.                                     *)

LEMMA EmitStep ==
    ASSUME TurnsInv, NEW t \in Turns, Emit(t) \/ (Leave(t) /\ Run(t, Failed(run[t]))) PROVE TurnsInv'
<1> DEFINE r == run[t]
           s == Append(r.pend, Block(r.made + 1))
           m == r.made + 1
           e == [r EXCEPT !.made = m, !.pend = s]
<1>1. /\ TurnsTypeOK /\ RunInv(r, log[t], row[t].st) /\ r \in Runner /\ r.pc = "loop"
      /\ UNCHANGED <<conv, row, log, saved, sweeping, reader>> /\ saved' \in [Turns -> Nat]
  BY TurnHas DEF Emit, Leave, Waiting, TurnsTypeOK
<1>2. CASE Emit(t)
  <2>1. s \in Seq(Event) /\ m \in Nat
    BY <1>1, RunnerParts, BlocksAndEnds, Added
  <2>2. Run(t, e)
    BY <1>1, <1>2 DEF Emit, Runner
  <2> HIDE DEF s, m
  <2>3. /\ e \in Runner /\ e.io = r.io /\ e.orphans = r.orphans /\ e.next = r.next
        /\ e.made = m /\ e.pend = s /\ e.pc = r.pc /\ e.aux = r.aux /\ e.lost = r.lost
    BY <1>1, <2>1 DEF Runner
  <2> HIDE DEF e
  <2>4. PcMoves(r, e)
    BY <1>1, <2>3 DEF PcMoves, RunInv, PcInv
  <2>5. RunInv(e, log[t], row[t].st)
    BY <1>1, <2>3, <2>4, Says DEF s, m
  <2> QED
    BY <1>1, <2>2, <2>5, RunTo
<1>3. CASE Run(t, Failed(r))
  <2> HIDE DEF r
  <2>1. PcMoves(r, Failed(r))
    BY <1>1, FailedIs DEF PcMoves
  <2>2. RunInv(Failed(r), log[t], row[t].st)
    BY <1>1, <2>1, FailedIs, Says
  <2> QED
    BY <1>1, <1>3, <2>2, RunTo
<1> QED
  BY <1>2, <1>3

\* A step that only changes where the run is, or leaves a write to its thread.
LEMMA MovesTo ==
    ASSUME TurnsInv, NEW t \in Turns,
           NEW b \in {run[t], Orphaned(run[t], "main"), Orphaned(run[t], "flusher")},
           NEW r2 \in Runner, SameText(b, r2), r2.io = b.io, r2.orphans = b.orphans, Run(t, r2),
           PcMoves(run[t], r2), UNCHANGED <<conv, row, log, saved, sweeping, reader>>
    PROVE  TurnsInv'
<1>1. run[t] \in Runner /\ TurnsTypeOK
  BY TurnHas
<1>2. /\ SameText(run[t], b) /\ b.orphans \subseteq Writes(run[t])
      /\ \A q \in Tasks : b.io[q] \in {run[t].io[q], NoWrite}
  <2>1. CASE b = run[t]
    BY <1>1, <2>1, RunnerParts DEF SameText
  <2>2. CASE b # run[t]
    BY <1>1, <2>2, OrphanedIs DEF Tasks
  <2> QED
    BY <2>1, <2>2
<1>3. SameText(run[t], r2) /\ saved' \in [Turns -> Nat]
  BY <1>1, <1>2 DEF SameText, TurnsTypeOK
<1> QED
  BY <1>2, <1>3, ShedsTo

LEMMA LeaveStep ==
    ASSUME TurnsInv, NEW t \in Turns, Leave(t), ~Run(t, Failed(run[t]))
    PROVE  TurnsInv'
<1> DEFINE r == run[t]
           b == r
           r2 == [b EXCEPT !.pc = "stop", !.verdict = "completed"]
<1>1. /\ r \in Runner /\ RunInv(r, log[t], row[t].st)
      /\ UNCHANGED <<conv, row, log, saved, sweeping, reader>>
  BY TurnHas DEF Leave
<1>2. Run(t, r2) /\ r.pc = "loop"
  BY DEF Leave, Waiting
<1>3. b \in Runner /\ b.pc = r.pc /\ b.aux = r.aux /\ b.lost = r.lost /\ b.verdict = r.verdict
  BY <1>1
<1> HIDE DEF b
<1>4. /\ r2 \in Runner /\ SameText(b, r2) /\ r2.io = b.io /\ r2.orphans = b.orphans
      /\ r2.pc = "stop"
  BY <1>2, <1>3, RunnerParts DEF Runner, RunPc, Ended, SameText
<1> HIDE DEF r2
<1>5. PcMoves(r, r2)
  BY <1>1, <1>2, <1>4 DEF PcMoves, RunInv, PcInv
<1> QED
  BY <1>1, <1>2, <1>4, <1>5, MovesTo DEF b

LEMMA SeeCancelStep ==
    ASSUME TurnsInv, NEW t \in Turns, SeeCancel(t)
    PROVE  TurnsInv'
<1> DEFINE r == run[t]
           b == Orphaned(r, "main")
           r2 == [b EXCEPT !.pc = "stop", !.verdict = "cancelled"]
<1>1. /\ r \in Runner /\ RunInv(r, log[t], row[t].st)
      /\ UNCHANGED <<conv, row, log, saved, sweeping, reader>>
  BY TurnHas DEF SeeCancel
<1>2. Run(t, r2) /\ r.pc = "loop"
  BY DEF SeeCancel, Run, Go
<1>3. b \in Runner /\ b.pc = r.pc /\ b.aux = r.aux /\ b.lost = r.lost /\ b.verdict = r.verdict
  BY <1>1, OrphanedIs DEF Tasks
<1> HIDE DEF b
<1>4. /\ r2 \in Runner /\ SameText(b, r2) /\ r2.io = b.io /\ r2.orphans = b.orphans
      /\ r2.pc = "stop"
  BY <1>2, <1>3, RunnerParts DEF Runner, RunPc, Ended, SameText
<1> HIDE DEF r2
<1>5. PcMoves(r, r2)
  BY <1>1, <1>2, <1>4 DEF PcMoves, RunInv, PcInv
<1> QED
  BY <1>1, <1>2, <1>4, <1>5, MovesTo DEF b

LEMMA ShutdownStep ==
    ASSUME TurnsInv, NEW t \in Turns, Shutdown(t)
    PROVE  TurnsInv'
<1> DEFINE r == run[t]
           b == Orphaned(r, "main")
           r2 == [b EXCEPT !.pc = "withdraw", !.verdict = "interrupted"]
<1>1. /\ r \in Runner /\ RunInv(r, log[t], row[t].st)
      /\ UNCHANGED <<conv, row, log, saved, sweeping, reader>>
  BY TurnHas DEF Shutdown
<1>2. Run(t, r2) /\ r.pc = "loop"
  BY DEF Shutdown, Run, Go
<1>3. b \in Runner /\ b.pc = r.pc /\ b.aux = r.aux /\ b.lost = r.lost /\ b.verdict = r.verdict
  BY <1>1, OrphanedIs DEF Tasks
<1> HIDE DEF b
<1>4. /\ r2 \in Runner /\ SameText(b, r2) /\ r2.io = b.io /\ r2.orphans = b.orphans
      /\ r2.pc = "withdraw"
  BY <1>2, <1>3, RunnerParts DEF Runner, RunPc, Ended, SameText
<1> HIDE DEF r2
<1>5. PcMoves(r, r2)
  BY <1>1, <1>2, <1>4 DEF PcMoves, RunInv, PcInv
<1> QED
  BY <1>1, <1>2, <1>4, <1>5, MovesTo DEF b

LEMMA StopTasksStep ==
    ASSUME TurnsInv, NEW t \in Turns, StopTasks(t)
    PROVE  TurnsInv'
<1> DEFINE r == run[t]
           b == Orphaned(r, "flusher")
           r2 == [b EXCEPT !.pc = "withdraw", !.aux = FALSE]
<1>1. /\ r \in Runner /\ RunInv(r, log[t], row[t].st)
      /\ UNCHANGED <<conv, row, log, saved, sweeping, reader>>
  BY TurnHas DEF StopTasks
<1>2. Run(t, r2) /\ r.pc = "stop"
  BY DEF StopTasks, Run, Go
<1>3. b \in Runner /\ b.pc = r.pc /\ b.aux = r.aux /\ b.lost = r.lost /\ b.verdict = r.verdict
  BY <1>1, OrphanedIs DEF Tasks
<1> HIDE DEF b
<1>4. /\ r2 \in Runner /\ SameText(b, r2) /\ r2.io = b.io /\ r2.orphans = b.orphans
      /\ r2.pc = "withdraw"
  BY <1>2, <1>3, RunnerParts DEF Runner, RunPc, Ended, SameText
<1> HIDE DEF r2
<1>5. PcMoves(r, r2)
  BY <1>1, <1>2, <1>4 DEF PcMoves, RunInv, PcInv
<1> QED
  BY <1>1, <1>2, <1>4, <1>5, MovesTo DEF b

LEMMA WithdrawStep ==
    ASSUME TurnsInv, NEW t \in Turns, Withdraw(t)
    PROVE  TurnsInv'
<1> DEFINE r == run[t]
           b == r
           r2 == [b EXCEPT !.pc = IF r.pc = "drop" \/ r.lost THEN "finish" ELSE "flush",
                          !.verdict = IF r.lost THEN "interrupted" ELSE r.verdict]
<1>1. /\ r \in Runner /\ RunInv(r, log[t], row[t].st)
      /\ UNCHANGED <<conv, row, log, saved, sweeping, reader>>
  BY TurnHas DEF Withdraw
<1>2. Run(t, r2) /\ r.pc \in {"withdraw", "drop"}
  BY <1>1 DEF Withdraw, Run, Runner
<1>3. b \in Runner /\ b.pc = r.pc /\ b.aux = r.aux /\ b.lost = r.lost /\ b.verdict = r.verdict
  BY <1>1
<1> HIDE DEF b
<1>4. /\ r2 \in Runner /\ SameText(b, r2) /\ r2.io = b.io /\ r2.orphans = b.orphans
      /\ r2.pc \in {"finish", "flush"}
  BY <1>2, <1>3, RunnerParts DEF Runner, RunPc, Ended, SameText
<1> HIDE DEF r2
<1>5. PcMoves(r, r2)
  BY <1>1, <1>2, <1>4 DEF PcMoves, RunInv, PcInv
<1> QED
  BY <1>1, <1>2, <1>4, <1>5, MovesTo DEF b

LEMMA LoseLeaseStep == ASSUME TurnsInv, NEW t \in Turns, LoseLease(t) PROVE TurnsInv'
<1> DEFINE r == run[t]
<1>1. /\ r \in Runner /\ RunInv(r, log[t], row[t].st) /\ r.pc \notin {"none", "claim"}
      /\ UNCHANGED <<conv, row, log, saved, sweeping, reader>>
  BY TurnHas, Begun DEF LoseLease
<1>2. CASE r.pc = "loop"
  <2> DEFINE b == Orphaned(r, "main")
             r2 == Interrupted(b)
  <2>1. Run(t, r2)
    BY <1>2 DEF LoseLease
  <2>2. b \in Runner /\ b.pc = r.pc
    BY <1>1, OrphanedIs DEF Tasks
  <2> HIDE DEF b
  <2>3. r2 \in Runner /\ SameText(b, r2) /\ r2.io = b.io /\ r2.orphans = b.orphans /\ r2.pc = "stop"
    BY <1>2, <2>2, InterruptedIs
  <2> HIDE DEF r2
  <2>4. PcMoves(r, r2)
    BY <1>2, <2>3 DEF PcMoves
  <2> QED
    BY <1>1, <2>1, <2>3, <2>4, MovesTo DEF b
<1>3. CASE r.pc # "loop"
  <2> DEFINE r2 == [r EXCEPT !.lost = TRUE]
  <2>1. Run(t, r2)
    BY <1>3 DEF LoseLease
  <2>2. r2 \in Runner /\ SameText(r, r2) /\ r2.io = r.io /\ r2.orphans = r.orphans /\ r2.pc = r.pc
    BY <1>1 DEF Runner, SameText
  <2> HIDE DEF r2
  <2>3. PcMoves(r, r2)
    BY <1>1, <1>3, <2>2 DEF PcMoves
  <2> QED
    BY <1>1, <2>1, <2>2, <2>3, MovesTo
<1> QED
  BY <1>2, <1>3

\* The last flush, the last save and the last event are skipped or done.
LEMMA GoStep ==
    ASSUME TurnsInv, NEW t \in Turns, NEW pc \in {"save", "finish", "over"}, Go(t, pc),
           UNCHANGED <<conv, row, log, saved, sweeping, reader>>, run[t].pc \in {"flush", "save", "tell"},
           run[t].pc = "tell" => pc = "over"
    PROVE  TurnsInv'
<1> DEFINE r == run[t]
           r2 == [r EXCEPT !.pc = pc]
<1>1. r \in Runner
  BY TurnHas
<1>2. Run(t, r2)
  BY DEF Go, Run
<1>3. r2 \in Runner /\ SameText(r, r2) /\ r2.io = r.io /\ r2.orphans = r.orphans /\ r2.pc = pc
  BY <1>1 DEF Runner, SameText, RunPc
<1> HIDE DEF r2
<1>4. PcMoves(r, r2)
  BY <1>3 DEF PcMoves
<1> QED
  BY <1>2, <1>3, <1>4, MovesTo

LEMMA LastSteps ==
    ASSUME TurnsInv, NEW t \in Turns,
           \/ FlushFull(t) \/ SaveRound(t) \/ Flush(t) \/ Persist(t)
           \/ FlushLast(t) \/ SaveLast(t) \/ Tell(t)
    PROVE  TurnsInv'
<1>1. RunInv(run[t], log[t], row[t].st)
  BY TurnHas
<1>2. CASE BeginFlush(t, "main") \/ BeginFlush(t, "flusher")
  BY <1>2, BeginFlushStep DEF Tasks
<1>3. CASE SaveRound(t) \/ Persist(t) \/ (SaveLast(t) /\ BeginSave(t, "main"))
  <2>1. run[t].pc \notin {"none", "claim"} /\ (BeginSave(t, "main") \/ BeginSave(t, "flusher"))
    BY <1>1, <1>3, Begun DEF SaveRound, Persist, SaveLast, Waiting
  <2> QED
    BY <2>1, BeginSaveStep DEF Tasks
<1>4. CASE FlushLast(t) /\ Go(t, "save") /\ UNCHANGED <<conv, row, log, saved, sweeping, reader>>
  BY <1>4, GoStep DEF FlushLast
<1>5. CASE SaveLast(t) /\ Go(t, "finish") /\ UNCHANGED <<conv, row, log, saved, sweeping, reader>>
  BY <1>5, GoStep DEF SaveLast
<1>6. CASE Tell(t) /\ Go(t, "over") /\ UNCHANGED <<conv, row, log, saved, sweeping, reader>>
  BY <1>6, GoStep DEF Tell
<1> QED
  BY <1>2, <1>3, <1>4, <1>5, <1>6 DEF FlushFull, Flush, FlushLast, SaveLast, Tell

LEMMA EndTurnStep == ASSUME TurnsInv, NEW t \in Turns, EndTurn(t) PROVE TurnsInv'
<1> DEFINE r == run[t]
           v == r.verdict
           st == IF row[t].st = "running" THEN v ELSE row[t].st
           s == Append(r.pend, End(v))
           r2 == [r EXCEPT !.pc = "tell", !.pend = s]
<1>1. /\ TurnsTypeOK /\ r \in Runner /\ RunInv(r, log[t], row[t].st) /\ r.pc = "finish" /\ v \in Ended
      /\ UNCHANGED <<conv, log, saved, sweeping, reader>> /\ saved' \in [Turns -> Nat]
      /\ sweeping' \subseteq Turns
  BY TurnHas, RunnerParts DEF EndTurn, TurnsTypeOK
<1>2. /\ IF row[t].st = "running" THEN Finish(t, st) ELSE UNCHANGED row
      /\ \/ st = v /\ Run(t, r2)
         \/ Run(t, Idle("over"))
  BY <1>1 DEF EndTurn, Tells, Over, Run, Runner
<1>3. row[t].st = "running" => st = v
  OBVIOUS
<1>4. s \in Seq(Event)
  BY <1>1, RunnerParts, BlocksAndEnds, Added
<1> HIDE DEF s
<1>5. /\ r2 \in Runner /\ r2.io = r.io /\ r2.orphans = r.orphans /\ r2.next = r.next
      /\ r2.made = r.made /\ r2.pend = s /\ r2.pc = "tell"
  BY <1>1, <1>4 DEF Runner, RunPc
<1> HIDE DEF r2
<1>6. RunInv(r, log[t], st)
  BY <1>1, RowMoves DEF Ended
<1>7. RunInv(Idle("over"), log[t], st)
  BY <1>1, <1>6, Leaves
<1>8. st = v => RunInv(r2, log[t], st)
  BY <1>1, <1>5, <1>6, TellsEnd DEF s
<1>9. PICK r3 : Run(t, r3) /\ RunInv(r3, log[t], st)
  BY <1>2, <1>7, <1>8
<1>10. CASE row[t].st = "running"
  <2>1. row' = [row EXCEPT ![t].st = v, ![t].live = FALSE]
    BY <1>2, <1>10 DEF Finish
  <2>2. /\ row' \in [Turns -> [st : Active \cup Ended \cup {"none", "deleted"},
                               live : BOOLEAN, cancel : BOOLEAN]]
        /\ row'[t].st = v /\ \A u \in Turns \ {t} : row'[u] = row[u]
    BY <1>1, <2>1, RowSets
  <2>3. row[t].st \notin Ended \cup {"deleted"} /\ row'[t].st # "deleted"
    BY <1>1, <1>10, <2>2 DEF Ended
  <2>4. RunInv(r3, log[t], row'[t].st)
    BY <1>9, <1>10, <2>2
  <2> HIDE DEF r, v, st
  <2> QED
    BY <1>1, <1>9, <2>2, <2>3, <2>4, RowTo
<1>11. CASE row[t].st # "running"
  BY <1>1, <1>2, <1>9, <1>11, RunTo
<1> QED
  BY <1>10, <1>11

LEMMA OverStep ==
    ASSUME TurnsInv, NEW t \in Turns, EndFails(t) \/ Return(t) \/ Kill(t) PROVE TurnsInv'
<1>1. /\ TurnsTypeOK /\ RunInv(run[t], log[t], row[t].st) /\ run[t].pc # "none"
      /\ Run(t, Idle("over")) /\ UNCHANGED <<conv, row, log, saved, sweeping, reader>>
  BY TurnHas DEF EndFails, Return, Kill, Over
<1> QED
  BY <1>1, Leaves, RunTo DEF TurnsTypeOK

-----------------------------------------------------------------------------
(* Others.                                                                  *)

LEMMA RowStep ==
    ASSUME TurnsInv, NEW t \in Turns, Lapse(t) \/ RequestCancel(t) \/ SweepEnd(t) PROVE TurnsInv'
<1>1. /\ TurnsTypeOK /\ RunInv(run[t], log[t], row[t].st)
      /\ row \in [Turns -> [st : Active \cup Ended \cup {"none", "deleted"},
                            live : BOOLEAN, cancel : BOOLEAN]]
  BY TurnHas DEF TurnsTypeOK
<1>2. UNCHANGED <<conv, log, saved, run, reader>> /\ sweeping' \subseteq Turns
  BY <1>1 DEF Lapse, RequestCancel, SweepEnd, TurnsTypeOK
<1>3. CASE row' = row
  <2>1. TurnsTypeOK' /\ ReaderInv(reader[t], row[t].st)
    BY <1>1, <1>2, <1>3, TurnHas DEF TurnsTypeOK
  <2> QED
    BY <1>1, <1>2, <1>3, <2>1, TurnChanges
<1>4. CASE row' # row
  <2>1. row[t].st \in Active
    BY <1>4 DEF Lapse, RequestCancel, SweepEnd, StillStale, Stale
  <2>2. /\ row' \in [Turns -> [st : Active \cup Ended \cup {"none", "deleted"},
                               live : BOOLEAN, cancel : BOOLEAN]]
        /\ row'[t].st \in {row[t].st, "interrupted"} /\ \A u \in Turns \ {t} : row'[u] = row[u]
    <3>1. CASE Lapse(t)
      BY <1>1, <3>1 DEF Lapse
    <3>2. CASE RequestCancel(t)
      BY <1>1, <3>2 DEF RequestCancel
    <3>3. CASE SweepEnd(t)
      <4>1. row' = [row EXCEPT ![t].st = "interrupted", ![t].live = FALSE]
        BY <1>4, <3>3 DEF SweepEnd, Finish
      <4> QED
        BY <4>1, RowSets DEF Ended
    <3> QED
      BY <3>1, <3>2, <3>3
  <2>3. row[t].st \notin Ended \cup {"none", "deleted"} /\ row'[t].st \notin {"none", "deleted"}
    BY <2>1, <2>2 DEF Active, Ended
  <2>4. RunInv(run[t], log[t], row'[t].st)
    BY <1>1, <2>3, RowMoves
  <2> QED
    BY <1>2, <2>2, <2>3, <2>4, RowTo
<1> QED
  BY <1>3, <1>4

LEMMA DeleteStep == ASSUME TurnsInv, Delete PROVE TurnsInv'
<1>1. TurnsTypeOK'
  BY ElemsEmpty DEF TurnsInv, TurnsTypeOK, Delete
<1>2. ASSUME NEW t \in Turns PROVE TurnInv(t)'
  <2>1. /\ run'[t] = run[t] /\ log'[t] = <<>> /\ row'[t].st = "deleted"
    BY DEF Delete
  <2>2. RunInv(run[t], <<>>, "deleted")
    BY TurnHas, Vanishes
  <2>3. ReaderInv(reader'[t], "deleted")
    BY DEF ReaderInv
  <2> QED
    BY <2>1, <2>2, <2>3 DEF TurnInv, RunInv
<1> QED
  BY <1>1, <1>2 DEF TurnsInv

LEMMA PurgeStep == ASSUME TurnsInv, NEW t \in Turns, Purge(t) PROVE TurnsInv'
<1> DEFINE o == Idle("over")
<1>1. /\ TurnsTypeOK /\ RunInv(run[t], log[t], row[t].st) /\ run[t] = o /\ row[t].st \in Ended
      /\ log' = [log EXCEPT ![t] = <<>>] /\ UNCHANGED <<conv, row, saved, run, sweeping, reader>>
  BY TurnHas DEF Purge
<1>2. o \in Runner /\ o.pc = "over" /\ o.pend = <<>> /\ Writes(o) = {NoWrite} /\ NoWrite.evs = <<>>
      /\ o.next = 1 /\ (\A p \in Tasks : o.io[p] = NoWrite) /\ NoWrite.op = "none"
  BY IdleType, IdleWrites DEF RunPc, Idle, NoWrite
<1> HIDE DEF o
<1>3. Events(o, <<>>) = {}
  BY <1>2, ElemsEmpty DEF Events
<1>4. LineInv(o, <<>>, row[t].st)
  BY <1>2, ElemsEmpty DEF LineInv, Follows, Precedes
<1>5. ToldInv(o, <<>>, row[t].st) /\ PcInv(o, <<>>, row[t].st)
  BY <1>1, <1>2, <1>3 DEF ToldInv, PcInv, Ended
<1>6. RunInv(o, <<>>, row[t].st)
  BY <1>2, <1>4, <1>5, ElemsEmpty DEF RunInv
<1>7. Run(t, o)
  BY <1>1 DEF Run, TurnsTypeOK
<1> QED
  BY <1>1, <1>6, <1>7, RunTo DEF TurnsTypeOK

LEMMA ReadStep == ASSUME TurnsInv, NEW t \in Turns, StreamStep(t) PROVE TurnsInv'
<1> DEFINE q == reader[t]
           Readers == [pc : {"off", "list", "check", "closed"}, cursor : Nat,
                       told : {"none"} \cup {Outcome(st) : st \in Ended}]
<1>1. /\ TurnsTypeOK /\ RunInv(run[t], log[t], row[t].st) /\ ReaderInv(q, row[t].st)
      /\ q \in Readers /\ reader \in [Turns -> Readers] /\ log[t] \in Seq(Event)
  BY TurnHas DEF TurnsTypeOK
<1>2. PICK q2 : Read(t, q2) /\ q2 \in Readers /\ ReaderInv(q2, row[t].st)
  <2>1. CASE Open(t)
    <3> DEFINE q2 == [q EXCEPT !.pc = "list"]
    <3>1. q2 \in Readers /\ q2.told = q.told
      BY <1>1
    <3> QED
      BY <1>1, <2>1, <3>1 DEF Open, ReaderInv
  <2>2. CASE Check(t)
    <3>1. PICK q2 : /\ Read(t, q2)
                    /\ \/ row[t].st = "deleted" /\ q2 = [q EXCEPT !.pc = "closed"]
                       \/ row[t].st \in Ended /\ q2 = [q EXCEPT !.pc = "closed", !.told = Outcome(row[t].st)]
                       \/ q2 = [q EXCEPT !.pc = "list"]
      BY <2>2 DEF Check
    <3> HIDE DEF q
    <3>2. /\ q2 \in Readers
          /\ q2.told = q.told \/ (row[t].st \in Ended /\ q2.told = Outcome(row[t].st))
      BY <1>1, <3>1
    <3> HIDE DEF Readers
    <3>3. ReaderInv(q2, row[t].st)
      BY <1>1, <3>2 DEF ReaderInv
    <3> QED
      BY <3>1, <3>2, <3>3
  <2>3. CASE List(t)
    <3> DEFINE new == SubSeq(log[t], q.cursor + 1, Len(log[t]))
               ends == {i \in DOMAIN new : IsEnd(new[i])}
               i0 == CHOOSE i \in ends : TRUE
    <3>0. q.pc = "list" /\ Len(log[t]) \in Nat
      BY <1>1, <2>3, LenProperties DEF List
    <3>1. \/ Read(t, [q EXCEPT !.pc = "check"])
          \/ Read(t, [q EXCEPT !.cursor = Len(log[t])])
          \/ ends # {} /\ Read(t, [pc |-> "closed", cursor |-> q.cursor + i0, told |-> new[i0].type])
      BY <2>3 DEF List
    <3>2. CASE ends # {}
      <4>1. i0 \in DOMAIN new /\ IsEnd(new[i0])
        BY <3>2
      <4>2. /\ DOMAIN new \subseteq Nat
            /\ \A i \in DOMAIN new : new[i] \in Elems(log[t])
        <5>1. /\ new \in Seq(Event)
              /\ Len(new) = IF q.cursor + 1 <= Len(log[t]) THEN Len(log[t]) - (q.cursor + 1) + 1 ELSE 0
              /\ \A i \in 1 .. Len(new) : new[i] = log[t][q.cursor + 1 + i - 1]
          BY <1>1, <3>0, SubSeqProperties
        <5>2. DOMAIN new = 1 .. Len(new) /\ DOMAIN log[t] = 1 .. Len(log[t])
          BY <1>1, <5>1, LenProperties
        <5> HIDE DEF new
        <5>3. ASSUME NEW i \in 1 .. Len(new)
              PROVE  q.cursor + 1 + i - 1 \in 1 .. Len(log[t])
          BY <1>1, <3>0, <5>1
        <5> QED
          BY <5>1, <5>2, <5>3 DEF Elems
      <4> HIDE DEF i0, new
      <4>3. new[i0] \in Events(run[t], log[t])
        BY <4>1, <4>2 DEF Events
      <4>4. row[t].st = "deleted" \/ (row[t].st \in Ended /\ new[i0] = End(row[t].st))
        BY <1>1, <4>1, <4>3 DEF RunInv, ToldInv
      <4>5. row[t].st # "deleted"
        BY <1>1, <4>1, <4>2, ElemsEmpty DEF RunInv, PcInv
      <4>6. row[t].st \in Ended /\ new[i0].type = Outcome(row[t].st)
        BY <4>4, <4>5, BlocksAndEnds
      <4>7. q.cursor + i0 \in Nat
        BY <1>1, <4>1, <4>2
      <4>8. ASSUME NEW q2, q2 = [pc |-> "closed", cursor |-> q.cursor + i0, told |-> new[i0].type]
            PROVE  q2 \in Readers /\ ReaderInv(q2, row[t].st)
        BY <4>6, <4>7, <4>8 DEF ReaderInv
      <4>9. ASSUME NEW q2, q2 = [q EXCEPT !.pc = "check"] \/ q2 = [q EXCEPT !.cursor = Len(log[t])]
            PROVE  q2 \in Readers /\ ReaderInv(q2, row[t].st)
        BY <1>1, <3>0, <4>9 DEF ReaderInv
      <4> QED
        BY <3>1, <4>8, <4>9
    <3>3. CASE ends = {}
      <4> HIDE DEF ends
      <4>1. ASSUME NEW q2, q2 = [q EXCEPT !.pc = "check"] \/ q2 = [q EXCEPT !.cursor = Len(log[t])]
            PROVE  q2 \in Readers /\ ReaderInv(q2, row[t].st)
        BY <1>1, <3>0, <4>1 DEF ReaderInv
      <4> QED
        BY <3>1, <3>3, <4>1
    <3> QED
      BY <3>2, <3>3
  <2> QED
    BY <2>1, <2>2, <2>3 DEF StreamStep
<1>3. /\ reader' \in [Turns -> Readers] /\ reader'[t] = q2
      /\ \A s \in Turns \ {t} : reader'[s] = reader[s]
      /\ UNCHANGED <<conv, row, log, saved, run, sweeping>>
  BY <1>1, <1>2 DEF Read
<1>4. TurnsTypeOK'
  BY <1>1, <1>3 DEF TurnsTypeOK
<1> QED
  BY <1>1, <1>2, <1>3, <1>4, TurnChanges

-----------------------------------------------------------------------------
(* The turns.                                                               *)

LEMMA TurnsInvInit == TurnsInit => TurnsInv
<1> SUFFICES ASSUME TurnsInit PROVE TurnsInv
  OBVIOUS
<1> DEFINE o == Idle("none")
<1>1. o \in Runner /\ o.pc = "none" /\ Blank(o) /\ Writes(o) = {NoWrite}
      /\ NoWrite.op = "none" /\ NoWrite.evs = <<>>
  BY IdleType, IdleWrites DEF RunPc, Idle, NoWrite, Blank
<1>2. run = [t \in Turns |-> o]
  BY DEF TurnsInit
<1> HIDE DEF o
<1>3. TurnsTypeOK
  BY <1>1, <1>2, ElemsEmpty DEF TurnsInit, TurnsTypeOK
<1>4. Events(o, <<>>) = {}
  BY <1>1, ElemsEmpty DEF Events, Blank
<1>5. LineInv(o, <<>>, "none")
  BY <1>1, ElemsEmpty DEF LineInv, Follows, Precedes, Blank
<1>6. ToldInv(o, <<>>, "none") /\ PcInv(o, <<>>, "none") /\ \A q : q.told = "none" => ReaderInv(q, "none")
  BY <1>1, <1>4 DEF ToldInv, PcInv, Blank, ReaderInv
<1>7. \A t \in Turns : TurnInv(t)
  BY <1>2, <1>5, <1>6 DEF TurnsInit, TurnInv
<1> QED
  BY <1>3, <1>7 DEF TurnsInv

LEMMA TurnsInvStep == TurnsInv /\ [TurnsNext]_turnVars => TurnsInv'
<1> SUFFICES ASSUME TurnsInv, [TurnsNext]_turnVars PROVE TurnsInv'
  OBVIOUS
<1>1. ASSUME NEW t \in Turns, RunStep(t) PROVE TurnsInv'
  BY <1>1, ClaimStep, UndoStep, LastSteps, StopTasksStep, EndTurnStep, OverStep, WriteStep
     DEF RunStep, Tasks
<1>2. ASSUME NEW t \in Turns, BesideStep(t) PROVE TurnsInv'
  <2>1. CASE Create(t) \/ Emit(t) \/ SaveRound(t) \/ SeeCancel(t) \/ Shutdown(t) \/ LoseLease(t)
    BY <2>1, CreateStep, EmitStep, LastSteps, SeeCancelStep, ShutdownStep, LoseLeaseStep
  <2>2. CASE Flush(t) \/ Persist(t) \/ Write(t, "flusher") \/ EndFails(t)
    BY <2>2, LastSteps, WriteStep, OverStep DEF Tasks
  <2>3. CASE \E w \in run[t].orphans : Commit(t, w)
    BY <2>3, CommitStep
  <2>4. CASE Lapse(t) \/ RequestCancel(t) \/ SweepEnd(t) \/ Purge(t)
    BY <2>4, RowStep, PurgeStep
  <2> QED
    BY <1>2, <2>1, <2>2, <2>3, <2>4 DEF BesideStep
<1>3. ASSUME NEW t \in Turns, StreamStep(t) PROVE TurnsInv'
  BY <1>3, ReadStep
<1>4. ASSUME NEW t \in Turns, Leave(t) \/ Withdraw(t) \/ Kill(t) PROVE TurnsInv'
  BY <1>4, LeaveStep, EmitStep, WithdrawStep, OverStep
<1>5. CASE Delete
  BY <1>5, DeleteStep
<1>6. CASE SweepRead \/ UNCHANGED turnVars
  <2>1. UNCHANGED <<conv, row, log, saved, run, reader>>
    BY <1>6 DEF SweepRead, turnVars
  <2>2. sweeping' \subseteq Turns
    BY <1>6 DEF SweepRead, turnVars, TurnsInv, TurnsTypeOK
  <2>3. TurnsTypeOK'
    BY <2>1, <2>2 DEF TurnsInv, TurnsTypeOK
  <2>4. \A t \in Turns : TurnInv(t)'
    BY <2>1 DEF TurnsInv, TurnInv
  <2> QED
    BY <2>3, <2>4 DEF TurnsInv
<1> QED
  BY <1>1, <1>2, <1>3, <1>4, <1>5, <1>6 DEF TurnsNext, TurnsStep

-----------------------------------------------------------------------------
(* The images are beside the turns: what an image task does to its turn is   *)
(* what the renewer of the lease may do as well.                            *)

LEMMA OrphanedNothing ==
    ASSUME NEW r \in Runner, r.io["main"] = NoWrite PROVE Orphaned(r, "main") = r
<1>1. [r.io EXCEPT !["main"] = NoWrite] = r.io
  BY DEF Runner
<1>2. Orphaned(r, "main") = [r EXCEPT !.io = r.io, !.orphans = r.orphans]
  BY <1>1, NoWriteType DEF Orphaned, Runner
<1>3. [r EXCEPT !.io = r.io, !.orphans = r.orphans] = r
  BY DEF Runner
<1> QED
  BY <1>2, <1>3

LEMMA OwnedSteps ==
    ASSUME TurnsInv, NEW t \in Turns, Ask(t) \/ Queue(t) \/ Link(t) \/ Settle(t)
    PROVE  \/ UNCHANGED turnVars
           \/ LoseLease(t) /\ Run(t, Interrupted(run[t])) /\ UNCHANGED <<row, image, shot, reconciling>>
<1>1. /\ run[t].pc = "loop" /\ run[t].io["main"].op = "none" /\ UNCHANGED reconciling
      /\ \/ UNCHANGED turnVars
         \/ /\ ~Owns(t) /\ Run(t, Interrupted(run[t]))
            /\ UNCHANGED <<conv, row, log, saved, sweeping, reader, image, shot>>
  BY DEF Ask, Queue, Link, Settle, Owned, At, Waiting
<1>2. run[t] \in Runner /\ run[t].io["main"] = NoWrite /\ run[t].aux /\ ~run[t].lost
  BY <1>1, TurnHas DEF RunInv, PcInv, Tasks
<1>3. Orphaned(run[t], "main") = run[t]
  BY <1>2, OrphanedNothing
<1> QED
  BY <1>1, <1>2, <1>3 DEF LoseLease

LEMMA ImagesStepTurns == TurnsInv /\ [ImagesNext]_imageVars => [TurnsNext]_turnVars
<1> SUFFICES ASSUME TurnsInv, [ImagesNext]_imageVars PROVE [TurnsNext]_turnVars
  OBVIOUS
<1>1. ASSUME NEW t \in Turns, Ask(t) \/ Queue(t) \/ Link(t) \/ Settle(t) PROVE [TurnsNext]_turnVars
  BY <1>1, OwnedSteps DEF TurnsNext, TurnsStep, BesideStep
<1>2. ASSUME NEW t \in Turns, \/ WaitEnds(t) \/ QueueLate(t) \/ UndoQueue(t) \/ WithdrawJob(t)
                              \/ ListPending(t) \/ SettleCancelled(t) \/ JobEnds(t) \/ ReaderStep(t)
      PROVE  UNCHANGED turnVars
  BY <1>2 DEF WaitEnds, QueueLate, UndoQueue, WithdrawJob, ListPending, SettleCancelled, JobEnds,
              ReaderStep, ReconcileRead, ReconcileWrite
<1>3. ASSUME NEW t \in Turns, WithdrawImages(t) \/ Leave(t) \/ KillImages(t) PROVE TurnsNext
  BY <1>3 DEF WithdrawImages, KillImages, TurnsNext
<1>4. CASE Beside(TurnsStep) \/ DeleteImages
  BY <1>4 DEF Beside, DeleteImages, TurnsNext
<1>5. CASE UNCHANGED imageVars
  BY <1>5 DEF imageVars
<1> QED
  BY <1>1, <1>2, <1>3, <1>4, <1>5 DEF ImagesNext, TaskStep

LEMMA AlwaysTurnsInv == ImagesSpec => []TurnsInv
<1>1. ImagesInit => TurnsInv
  BY TurnsInvInit DEF ImagesInit
<1>2. TurnsInv /\ [ImagesNext]_imageVars => TurnsInv'
  BY ImagesStepTurns, TurnsInvStep
<1> QED
  BY <1>1, <1>2, PTL DEF ImagesSpec

\* Images are added to turns without changing what turns do: whatever the image
\* tasks of agent_tool_executor.py and the readers do, each step is one that the
\* lifecycle of a turn (agent_run_lifecycle.py) allows, or none.
THEOREM ImagesImplementTurns == ImagesSpec => TurnsSpec
<1>1. ImagesInit => TurnsInit
  BY DEF ImagesInit
<1> QED
  BY <1>1, ImagesStepTurns, AlwaysTurnsInv, PTL DEF ImagesSpec, TurnsSpec

\* The log of a turn has the blocks in the order in which its run made them, each
\* at most once, and nothing behind the end (append_turn_events numbers what it
\* stores), although transactions of cancelled tasks may still commit.
THEOREM LogInOrderHolds == ImagesSpec => []LogInOrder
<1>1. TurnsInv => LogInOrder
  <2> SUFFICES ASSUME TurnsInv, NEW t \in Turns PROVE InOrder(log[t])
    BY DEF LogInOrder, InOrder, Before
  <2> QED
    BY DEF TurnsInv, TurnInv, LineInv
<1> QED
  BY <1>1, AlwaysTurnsInv, PTL

\* What the log and a stream tell of the end of a turn is what its row says,
\* whoever ended it first: its run (finish_turn), a sweep or a cancellation.
THEOREM EndsAgreeHolds == ImagesSpec => []EndsAgree
<1>1. TurnsInv => EndsAgree
  <2> SUFFICES ASSUME TurnsInv, NEW t \in Turns, row[t].st \in Ended
               PROVE  /\ \A i \in DOMAIN log[t] : IsEnd(log[t][i]) => log[t][i] = End(row[t].st)
                      /\ reader[t].told \in {"none", Outcome(row[t].st)}
    BY DEF EndsAgree
  <2>1. ToldInv(run[t], log[t], row[t].st) /\ ReaderInv(reader[t], row[t].st)
    BY DEF TurnsInv, TurnInv
  <2>2. \A i \in DOMAIN log[t] : log[t][i] \in Events(run[t], log[t])
    BY DEF Events, Elems
  <2>3. row[t].st # "deleted"
    BY DEF Ended
  <2> QED
    BY <2>1, <2>2, <2>3 DEF ToldInv, ReaderInv
<1> QED
  BY <1>1, AlwaysTurnsInv, PTL

-----------------------------------------------------------------------------
(* The inductive invariant of an image, as a relation of the run r of its    *)
(* turn, the status st of the row, the image im, its task sh and what a       *)
(* reader is about to store, rc.                                            *)

\* Where a run may still have a task that makes an image, and where it ends a
\* turn.
Waits == {"loop", "stop", "withdraw", "drop"}
Ending == {"flush", "save", "finish"}

\* The main task has no write on its way when the run does not wait for one.
MainIdle(r) == r.pc \in {"stop", "withdraw", "drop", "finish"} => r.io["main"].op = "none"

\* The task works while the run waits or withdraws, and once the run has
\* cancelled its job, that job is not at work again.
TaskInv(t, r, st, im, sh) ==
    /\ t \notin Pictures => im.job = "none" /\ sh = "idle"
    /\ sh # "idle" => r.pc \in Waits
    /\ sh \in {"list", "settle", "withdrawn"} => r.pc \in {"withdraw", "drop"} /\ im.job # "active"
    /\ sh = "queue" => im.job = "none" /\ ~im.link
    /\ sh \in {"queue", "link"} => /\ st # "deleted" => im.row # "none"
                                   /\ st = "running" => im.row = "pending"
    /\ im.row = "none" /\ st # "deleted" => im.job = "none" /\ ~im.link
    /\ r.pc \in Ending /\ r.verdict # "completed" => im.job # "active"

\* A reader stores what became of a job that has ended.
SettledInv(st, im, rc) ==
    /\ rc # "none" => /\ st \in Ended \cup {"deleted"}
                      /\ im.link => im.job \in JobEnd /\ rc = RowOf[im.job]
    /\ im.link => /\ im.row = "succeeded" => im.job = "success"
                  /\ im.row = "failed" => im.job = "failed"
                  /\ im.row = "cancelled" => im.job # "active"

ImageIs(t, r, st, im, sh, rc) ==
    MainIdle(r) /\ TaskInv(t, r, st, im, sh) /\ SettledInv(st, im, rc)

ImageInv(t) == ImageIs(t, run[t], row[t].st, image[t], shot[t], reconciling[t])

AgentInv == TurnsInv /\ ImagesTypeOK /\ \A t \in Turns : ImageInv(t)

-----------------------------------------------------------------------------
(* What the steps of a turn do to the image of the turn.                    *)

\* A run that waits goes on waiting, and does not give up what it set out to
\* complete where nobody cancels its job any more.
Steers(r, r2) == MainIdle(r) =>
    /\ MainIdle(r2)
    /\ r.pc \in Waits => r2.pc \in Waits
    /\ r.pc \in {"withdraw", "drop"} => r2.pc = r.pc
    /\ r2.pc \in Ending /\ r2.verdict # "completed" => r.pc \in Ending /\ r.verdict # "completed"

\* How the status of a row moves.
Moves(r, st, st2) == \/ st2 = st
                     \/ st = "none" /\ st2 = "queued"
                     \/ r.pc = "claim" /\ st = "queued" /\ st2 = "running"
                     \/ st \in Active /\ st2 \in Ended

LEMMA ImageLasts ==
    ASSUME NEW t, NEW r, NEW st, NEW im, NEW sh, NEW rc, ImageIs(t, r, st, im, sh, rc),
           NEW r2, Steers(r, r2), NEW st2, Moves(r, st, st2)
    PROVE  ImageIs(t, r2, st2, im, sh, rc)
<1>1. MainIdle(r) /\ TaskInv(t, r, st, im, sh) /\ SettledInv(st, im, rc)
  BY DEF ImageIs
<1>2. /\ st2 = "deleted" <=> st = "deleted"
      /\ st \in Ended \cup {"deleted"} => st2 = st
      /\ st2 = "running" => st = "running" \/ r.pc = "claim"
  BY DEF Moves, Active, Ended
<1>3. TaskInv(t, r2, st2, im, sh)
  BY <1>1, <1>2 DEF TaskInv, Steers, Waits
<1>4. SettledInv(st2, im, rc)
  BY <1>1, <1>2 DEF SettledInv
<1> QED
  BY <1>1, <1>3, <1>4 DEF ImageIs, Steers

LEMMA RunIs ==
    ASSUME TurnsInv, NEW t \in Turns, NEW r2, Run(t, r2)
    PROVE  run'[t] = r2 /\ \A s \in Turns \ {t} : run'[s] = run[s]
BY DEF TurnsInv, TurnsTypeOK, Run

\* A run that stays where it is.
LEMMA StaysPut ==
    ASSUME NEW r, NEW r2, r2.pc = r.pc, r2.verdict = r.verdict,
           r2.io["main"].op \in {r.io["main"].op, "none"} \/ r.pc \in {"loop", "flush", "save", "tell"}
    PROVE  Steers(r, r2)
BY DEF Steers, MainIdle

LEMMA BeginSteers ==
    ASSUME TurnsInv, NEW t \in Turns, NEW p \in Tasks, BeginFlush(t, p) \/ BeginSave(t, p),
           p = "main" => run[t].pc \in {"loop", "flush", "save", "tell"}
    PROVE  Steers(run[t], run'[t]) /\ \A s \in Turns \ {t} : run'[s] = run[s]
<1> DEFINE r == run[t]
<1>1. r \in Runner
  BY TurnHas
<1>2. PICK w \in {[op |-> "events", evs |-> r.pend, at |-> r.next, owned |-> r.pc # "tell"],
                  [op |-> "save", evs |-> <<>>, at |-> r.made, owned |-> r.pc # "tell"]} :
        \/ Run(t, [r EXCEPT !.pend = <<>>, !.io[p] = w])
        \/ Run(t, [r EXCEPT !.io[p] = w])
  BY DEF BeginFlush, BeginSave
<1> DEFINE is == [r.io EXCEPT ![p] = w]
<1>3. p # "main" => is["main"] = r.io["main"]
  BY <1>1, RunnerParts DEF Tasks
<1>4. PICK r2 : /\ Run(t, r2)
                /\ r2 = [r EXCEPT !.pend = <<>>, !.io = is] \/ r2 = [r EXCEPT !.io = is]
  BY <1>2
<1> HIDE DEF is
<1>5. r2.pc = r.pc /\ r2.verdict = r.verdict /\ r2.io = is
  BY <1>1, <1>4 DEF Runner
<1> HIDE DEF r
<1>6. Steers(r, r2)
  BY <1>3, <1>5, StaysPut DEF Tasks, r
<1> QED
  BY <1>4, <1>6, RunIs DEF r

\* A task hands over its write, has it stored, or finds that it raises.
LEMMA WriteSteers ==
    ASSUME TurnsInv, NEW t \in Turns, NEW p \in Tasks, Write(t, p)
    PROVE  Steers(run[t], run'[t]) /\ \A s \in Turns \ {t} : run'[s] = run[s]
<1> DEFINE r == run[t]
           w == r.io[p]
           is == [r.io EXCEPT ![p] = NoWrite]
           ps == w.evs \o r.pend
<1>1. r \in Runner /\ w.op # "none"
  BY TurnHas DEF Write
<1>2. is["main"].op \in {r.io["main"].op, "none"} /\ (p = "main" => is["main"].op = "none")
  BY <1>1, RunnerParts, NoWriteType DEF Tasks
<1>3. CASE Stored(t, p, w)
  <2> DEFINE r2 == [r EXCEPT !.io = is,
                             !.next = IF w.op = "events" THEN w.at + Len(w.evs) ELSE @,
                             !.kept = IF w.op = "save" THEN w.at ELSE @,
                             !.pc = IF p = "flusher" THEN @
                                    ELSE CASE @ = "flush" -> "save" [] @ = "save" -> "finish"
                                           [] @ = "tell" -> "over" [] OTHER -> @]
  <2>1. Run(t, r2)
    BY <1>3 DEF Stored
  <2> HIDE DEF is, w
  <2>2. /\ r2.io = is /\ r2.verdict = r.verdict
        /\ \/ r2.pc = r.pc
           \/ p = "main" /\ r.pc = "flush" /\ r2.pc = "save"
           \/ p = "main" /\ r.pc = "save" /\ r2.pc = "finish"
           \/ p = "main" /\ r.pc = "tell" /\ r2.pc = "over"
    <3>1. r2.io = is /\ r2.verdict = r.verdict
      BY <1>1 DEF Runner
    <3>2. r2.pc = IF p = "flusher" THEN r.pc
                  ELSE CASE r.pc = "flush" -> "save" [] r.pc = "save" -> "finish"
                         [] r.pc = "tell" -> "over" [] OTHER -> r.pc
      BY <1>1 DEF Runner
    <3> HIDE DEF r2, r
    <3> QED
      BY <3>1, <3>2 DEF Tasks
  <2> HIDE DEF r2, r
  <2>3. Steers(r, r2)
    <3>1. CASE r2.pc = r.pc
      BY <1>2, <2>2, <3>1, StaysPut
    <3>2. CASE r2.pc # r.pc
      BY <1>2, <2>2, <3>2 DEF Steers, MainIdle, Waits, Ending
    <3> QED
      BY <3>1, <3>2
  <2> QED
    BY <2>1, <2>3, RunIs DEF r
<1>4. CASE Raises(t, p, w)
  <2> DEFINE b == [r EXCEPT !.io = is, !.pend = ps]
  <2>1. [r EXCEPT !.io[p] = NoWrite, !.pend = w.evs \o @] = b
    BY <1>1 DEF Runner
  <2>2. PICK r2 : /\ Run(t, r2)
                  /\ \/ p = "flusher" /\ r2 = b
                     \/ p = "main" /\ b.pc = "loop" /\ r2 = Failed(b)
                     \/ p = "main" /\ b.pc \in {"flush", "save"} /\ r2 = [b EXCEPT !.pc = "finish"]
                     \/ p = "main" /\ b.pc \notin {"loop", "flush", "save"} /\ r2 = [b EXCEPT !.pc = "over"]
    <3>1. Run(t, IF p = "flusher" THEN b
                 ELSE CASE b.pc = "loop" -> Failed(b)
                        [] b.pc \in {"flush", "save"} -> [b EXCEPT !.pc = "finish"]
                        [] OTHER -> [b EXCEPT !.pc = "over"])
      BY <1>4, <2>1 DEF Raises
    <3> HIDE DEF b, r
    <3>2. CASE p = "flusher"
      BY <3>1, <3>2
    <3>3. CASE p = "main"
      BY <3>1, <3>3
    <3> QED
      BY <3>2, <3>3 DEF Tasks
  <2>3. is \in [Tasks -> Writing] /\ ps \in Seq(Event)
    BY <1>1, RunnerParts, NoWriteType, Joined
  <2> HIDE DEF is, ps
  <2>4. b \in Runner /\ b.io = is /\ b.pc = r.pc /\ b.verdict = r.verdict
    BY <1>1, <2>3 DEF Runner
  <2> HIDE DEF b
  <2>5. \/ r2.pc = r.pc /\ r2.verdict = r.verdict /\ r2.io = is
        \/ r.pc = "loop" /\ r2.pc = "stop" /\ r2.io = is /\ p = "main"
        \/ r.pc \in {"flush", "save"} /\ r2.pc = "finish" /\ r2.verdict = r.verdict /\ r2.io = is /\ p = "main"
        \/ r.pc \notin {"loop", "flush", "save"} /\ r2.pc = "over" /\ p = "main"
    <3>1. CASE p = "flusher" /\ r2 = b
      BY <2>4, <3>1
    <3>2. CASE p = "main" /\ b.pc = "loop" /\ r2 = Failed(b)
      BY <2>4, <3>2, FailedIs
    <3>3. CASE p = "main" /\ b.pc \in {"flush", "save"} /\ r2 = [b EXCEPT !.pc = "finish"]
      BY <2>4, <3>3 DEF Runner
    <3>4. CASE p = "main" /\ b.pc \notin {"loop", "flush", "save"} /\ r2 = [b EXCEPT !.pc = "over"]
      BY <2>4, <3>4 DEF Runner
    <3> QED
      BY <2>2, <3>1, <3>2, <3>3, <3>4
  <2>6. MainIdle(r) => ~(p = "main" /\ r.pc \in {"stop", "withdraw", "drop", "finish"})
    BY <1>1 DEF MainIdle
  <2> HIDE DEF r, w
  <2>7. Steers(r, r2)
    <3>1. CASE r2.pc = r.pc /\ r2.verdict = r.verdict /\ r2.io = is
      BY <1>2, <3>1, StaysPut
    <3>2. CASE r.pc = "loop" /\ r2.pc = "stop" /\ r2.io = is /\ p = "main"
      BY <1>2, <3>2 DEF Steers, MainIdle, Waits, Ending
    <3>3. CASE r.pc \in {"flush", "save"} /\ r2.pc = "finish" /\ r2.verdict = r.verdict /\ r2.io = is /\ p = "main"
      BY <1>2, <3>3 DEF Steers, MainIdle, Waits, Ending
    <3>4. CASE r.pc \notin {"loop", "flush", "save"} /\ r2.pc = "over" /\ p = "main"
      BY <2>6, <3>4 DEF Steers, MainIdle, Waits, Ending
    <3> QED
      BY <2>5, <3>1, <3>2, <3>3, <3>4
  <2> QED
    BY <2>2, <2>7, RunIs DEF r
<1>5. CASE Refused(t, p, w)
  <2> DEFINE b == [r EXCEPT !.io = is]
  <2>1. Run(t, IF p = "main" THEN Interrupted(b)
               ELSE IF b.pc = "loop" THEN Interrupted(Orphaned(b, "main"))
               ELSE [b EXCEPT !.lost = TRUE])
    BY <1>5 DEF Refused
  <2>2. is \in [Tasks -> Writing]
    BY <1>1, RunnerParts, NoWriteType
  <2> HIDE DEF is
  <2>3. b \in Runner /\ b.io = is /\ b.pc = r.pc /\ b.verdict = r.verdict
    BY <1>1, <2>2 DEF Runner
  <2> HIDE DEF b
  <2>4. PICK r2 : /\ Run(t, r2)
                  /\ \/ p = "main" /\ r2 = Interrupted(b)
                     \/ b.pc = "loop" /\ r2 = Interrupted(Orphaned(b, "main"))
                     \/ b.pc # "loop" /\ r2 = [b EXCEPT !.lost = TRUE]
    BY <2>1
  <2>5. MainIdle(r) => ~(p = "main" /\ r.pc \in {"stop", "withdraw", "drop", "finish"})
    BY <1>1 DEF MainIdle
  <2> HIDE DEF r, w
  <2>6. Steers(r, r2)
    <3>1. CASE p = "main" /\ r2 = Interrupted(b)
      <4>1. /\ r2.io = is /\ r2.pc = IF r.pc = "loop" THEN "stop" ELSE IF r.pc \in {"flush", "save"} THEN "drop"
                                     ELSE r.pc
        BY <2>3, <3>1, InterruptedIs
      <4> QED
        BY <1>2, <2>5, <3>1, <4>1 DEF Steers, MainIdle, Waits, Ending
    <3>2. CASE b.pc = "loop" /\ r2 = Interrupted(Orphaned(b, "main"))
      <4> DEFINE o == Orphaned(b, "main")
      <4>1. o \in Runner /\ o.pc = b.pc /\ o.io["main"] = NoWrite
        BY <2>3, OrphanedIs DEF Tasks
      <4> HIDE DEF o
      <4>2. r2.io = o.io /\ r2.pc = "stop"
        BY <2>3, <3>2, <4>1, InterruptedIs DEF o
      <4> QED
        BY <2>3, <3>2, <4>1, <4>2, NoWriteType DEF Steers, MainIdle, Waits, Ending
    <3>3. CASE b.pc # "loop" /\ r2 = [b EXCEPT !.lost = TRUE]
      <4>1. r2.pc = r.pc /\ r2.verdict = r.verdict /\ r2.io = is
        BY <2>3, <3>3 DEF Runner
      <4> QED
        BY <1>2, <4>1, StaysPut
    <3> QED
      BY <2>4, <3>1, <3>2, <3>3
  <2> QED
    BY <2>4, <2>6, RunIs DEF r
<1> QED
  BY <1>3, <1>4, <1>5 DEF Write

\* A step of a turn that takes its run from r to r2, by its places alone.
LEMMA EndsSteer ==
    ASSUME NEW r, NEW r2, r.pc \notin Waits, r2.pc \notin Ending \cup {"stop", "withdraw", "drop"}
    PROVE  Steers(r, r2)
BY DEF Steers, MainIdle, Waits, Ending

LEMMA LoopSteers ==
    ASSUME NEW r, NEW r2, r.pc = "loop", r2.pc \in {"stop", "withdraw"}, r2.io["main"].op = "none"
    PROVE  Steers(r, r2)
BY DEF Steers, MainIdle, Waits, Ending

LEMMA OverSteers ==
    ASSUME TurnsInv, NEW t \in Turns, Over(t), run[t].pc \notin Waits
    PROVE  Steers(run[t], run'[t]) /\ \A s \in Turns \ {t} : run'[s] = run[s]
<1>1. Idle("over").pc = "over"
  BY IdleType DEF RunPc
<1>2. Steers(run[t], Idle("over"))
  BY <1>1, EndsSteer DEF Ending
<1> QED
  BY <1>2, RunIs DEF Over

\* Where it goes from one place to the next.
LEMMA GoSteers ==
    ASSUME TurnsInv, NEW t \in Turns, NEW pc \in RunPc, Go(t, pc),
           \/ run[t].pc = "none" /\ pc = "claim"
           \/ run[t].pc = "claim" /\ pc = "undo"
           \/ run[t].pc = "flush" /\ pc = "save"
           \/ run[t].pc = "save" /\ pc = "finish" /\ run[t].io["main"].op = "none"
           \/ run[t].pc = "tell" /\ pc = "over"
    PROVE  Steers(run[t], run'[t]) /\ \A s \in Turns \ {t} : run'[s] = run[s]
<1> DEFINE r == run[t]
           r2 == [r EXCEPT !.pc = pc]
<1>1. Run(t, r2) /\ r \in Runner
  BY TurnHas DEF Go, Run
<1>2. r2.pc = pc /\ r2.verdict = r.verdict /\ r2.io = r.io
  BY <1>1 DEF Runner
<1> HIDE DEF r2
<1>3. Steers(r, r2)
  BY <1>2 DEF Steers, MainIdle, Waits, Ending
<1> QED
  BY <1>1, <1>3, RunIs

LEMMA ClaimSteers ==
    ASSUME TurnsInv, NEW t \in Turns, Claim(t)
    PROVE  Steers(run[t], run'[t]) /\ \A s \in Turns \ {t} : run'[s] = run[s]
<1> DEFINE r == run[t]
           r2 == [r EXCEPT !.pc = "loop", !.aux = TRUE]
<1>1. r.pc = "claim" /\ (Over(t) \/ Go(t, "undo") \/ Run(t, r2))
  BY DEF Claim
<1>2. CASE Run(t, r2)
  <2>1. r2.pc = "loop"
    BY TurnHas DEF Runner
  <2> HIDE DEF r2
  <2>2. Steers(r, r2)
    BY <1>1, <2>1, EndsSteer DEF Waits, Ending
  <2> QED
    BY <1>2, <2>2, RunIs
<1> QED
  BY <1>1, <1>2, OverSteers, GoSteers DEF Waits, RunPc

\* The loop is cancelled, or the turn is told to end.
LEMMA CancelledSteers ==
    ASSUME TurnsInv, NEW t \in Turns, SeeCancel(t) \/ Shutdown(t)
    PROVE  Steers(run[t], run'[t]) /\ \A s \in Turns \ {t} : run'[s] = run[s]
<1> DEFINE r == run[t]
           o == Orphaned(r, "main")
<1>1. o \in Runner /\ o.io["main"] = NoWrite /\ r.pc = "loop"
  BY TurnHas, OrphanedIs DEF Tasks, SeeCancel, Shutdown
<1> HIDE DEF o
<1>2. PICK r2 : /\ Run(t, r2)
                /\ \/ r2 = [o EXCEPT !.pc = "stop", !.verdict = "cancelled"]
                   \/ r2 = [o EXCEPT !.pc = "withdraw", !.verdict = "interrupted"]
  BY DEF SeeCancel, Shutdown, o
<1>3. r2.pc \in {"stop", "withdraw"} /\ r2.io = o.io
  BY <1>1, <1>2 DEF Runner
<1>4. Steers(r, r2)
  BY <1>1, <1>3, LoopSteers, NoWriteType
<1> QED
  BY <1>2, <1>4, RunIs

LEMMA LoseLeaseSteers ==
    ASSUME TurnsInv, NEW t \in Turns, LoseLease(t)
    PROVE  Steers(run[t], run'[t]) /\ \A s \in Turns \ {t} : run'[s] = run[s]
<1> DEFINE r == run[t]
           o == Orphaned(r, "main")
           n == Interrupted(o)
           b == [r EXCEPT !.lost = TRUE]
<1>1. o \in Runner /\ o.io["main"] = NoWrite /\ o.pc = r.pc /\ r \in Runner
  BY TurnHas, OrphanedIs DEF Tasks
<1>2. (r.pc = "loop" /\ Run(t, n)) \/ (r.pc # "loop" /\ Run(t, b))
  BY DEF LoseLease
<1> HIDE DEF o
<1>3. CASE r.pc = "loop" /\ Run(t, n)
  <2>1. n.pc = "stop" /\ n.io = o.io
    BY <1>1, <1>3, InterruptedIs
  <2> HIDE DEF n
  <2>2. Steers(r, n)
    BY <1>1, <1>3, <2>1, LoopSteers, NoWriteType
  <2> QED
    BY <1>3, <2>2, RunIs
<1>4. CASE r.pc # "loop" /\ Run(t, b)
  <2>1. b.pc = r.pc /\ b.verdict = r.verdict /\ b.io = r.io
    BY <1>1 DEF Runner
  <2> HIDE DEF b
  <2>2. Steers(r, b)
    BY <2>1, StaysPut
  <2> QED
    BY <1>4, <2>2, RunIs
<1> QED
  BY <1>2, <1>3, <1>4

LEMMA StopSteers ==
    ASSUME TurnsInv, NEW t \in Turns, StopTasks(t)
    PROVE  Steers(run[t], run'[t]) /\ \A s \in Turns \ {t} : run'[s] = run[s]
<1> DEFINE r == run[t]
           o == Orphaned(r, "flusher")
           r2 == [o EXCEPT !.pc = "withdraw", !.aux = FALSE]
<1>1. /\ o \in Runner /\ o.io["main"] \in {r.io["main"], NoWrite} /\ o.verdict = r.verdict
      /\ r.pc = "stop" /\ r.io["main"].op = "none" /\ Run(t, r2)
  BY TurnHas, OrphanedIs DEF Tasks, StopTasks
<1> HIDE DEF o
<1>2. r2.pc = "withdraw" /\ r2.io = o.io /\ r2.verdict = r.verdict
  BY <1>1 DEF Runner
<1> HIDE DEF r2, r
<1>3. Steers(r, r2)
  BY <1>1, <1>2, NoWriteType DEF Steers, MainIdle, Waits, Ending
<1> QED
  BY <1>1, <1>3, RunIs DEF r

LEMMA EndTurnSteers ==
    ASSUME TurnsInv, NEW t \in Turns, EndTurn(t)
    PROVE  Steers(run[t], run'[t]) /\ \A s \in Turns \ {t} : run'[s] = run[s]
<1> DEFINE r == run[t]
           s2 == Append(r.pend, End(r.verdict))
           r2 == [r EXCEPT !.pc = "tell", !.pend = s2]
<1>1. r.pc = "finish" /\ r \in Runner /\ (Over(t) \/ Run(t, [r EXCEPT !.pc = "tell", !.pend = Append(@, End(r.verdict))]))
  BY TurnHas DEF EndTurn
<1>2. Over(t) \/ Run(t, r2)
  BY <1>1 DEF Runner
<1> HIDE DEF s2
<1>3. r2.pc = "tell"
  BY <1>1 DEF Runner
<1> HIDE DEF r2
<1>4. Steers(r, r2)
  BY <1>1, <1>3, EndsSteer DEF Waits, Ending
<1> QED
  BY <1>1, <1>2, <1>4, OverSteers, RunIs DEF Waits

LEMMA EmitSteers ==
    ASSUME TurnsInv, NEW t \in Turns, Emit(t) \/ (\E w \in run[t].orphans : Commit(t, w))
    PROVE  Steers(run[t], run'[t]) /\ \A s \in Turns \ {t} : run'[s] = run[s]
<1> DEFINE r == run[t]
<1>1. r \in Runner
  BY TurnHas
<1>2. PICK r2 : Run(t, r2) /\ r2.pc = r.pc /\ r2.verdict = r.verdict /\ r2.io = r.io
  <2>1. CASE Emit(t)
    <3>1. PICK s : Run(t, [r EXCEPT !.made = r.made + 1, !.pend = s])
      BY <1>1, <2>1 DEF Emit, Runner
    <3>2. ASSUME NEW m, NEW r2, r2 = [r EXCEPT !.made = m, !.pend = s]
          PROVE  r2.pc = r.pc /\ r2.verdict = r.verdict /\ r2.io = r.io
      BY <1>1, <3>2 DEF Runner
    <3> QED
      BY <3>1, <3>2
  <2>2. CASE \E w \in r.orphans : Commit(t, w)
    <3>1. PICK s : Run(t, [r EXCEPT !.orphans = s])
      BY <2>2 DEF Commit
    <3>2. ASSUME NEW r2, r2 = [r EXCEPT !.orphans = s]
          PROVE  r2.pc = r.pc /\ r2.verdict = r.verdict /\ r2.io = r.io
      BY <1>1, <3>2 DEF Runner
    <3> QED
      BY <3>1, <3>2
  <2> QED
    BY <2>1, <2>2
<1>3. Steers(r, r2)
  BY <1>2, StaysPut
<1> QED
  BY <1>2, <1>3, RunIs

LEMMA RunStepSteers ==
    ASSUME TurnsInv, NEW t \in Turns, RunStep(t) \/ BesideStep(t)
    PROVE  Steers(run[t], run'[t]) /\ \A s \in Turns \ {t} : run'[s] = run[s]
<1>1. CASE Claim(t) \/ StopTasks(t) \/ EndTurn(t) \/ SeeCancel(t) \/ Shutdown(t) \/ LoseLease(t)
  BY <1>1, ClaimSteers, StopSteers, EndTurnSteers, CancelledSteers, LoseLeaseSteers
<1>2. CASE Undo(t) \/ Return(t) \/ EndFails(t)
  <2>1. Over(t) /\ run[t].pc \notin Waits
    BY <1>2 DEF Undo, Return, EndFails, Waits
  <2> QED
    BY <2>1, OverSteers
<1>3. CASE FlushFull(t) \/ SaveRound(t) \/ Flush(t) \/ Persist(t)
  BY <1>3, BeginSteers DEF FlushFull, SaveRound, Flush, Persist, Waiting, Tasks
<1>4. CASE FlushLast(t) \/ SaveLast(t) \/ Tell(t)
  <2>1. \/ BeginFlush(t, "main") /\ run[t].pc \in {"flush", "tell"}
        \/ BeginSave(t, "main") /\ run[t].pc = "save"
        \/ Go(t, "save") /\ run[t].pc = "flush"
        \/ Go(t, "finish") /\ run[t].pc = "save" /\ run[t].io["main"].op = "none"
        \/ Go(t, "over") /\ run[t].pc = "tell"
    BY <1>4 DEF FlushLast, SaveLast, Tell
  <2>2. CASE (BeginFlush(t, "main") /\ run[t].pc \in {"flush", "tell"}) \/ (BeginSave(t, "main") /\ run[t].pc = "save")
    BY <2>2, BeginSteers DEF Tasks
  <2> QED
    BY <2>1, <2>2, GoSteers DEF RunPc
<1>5. CASE Write(t, "main") \/ Write(t, "flusher")
  BY <1>5, WriteSteers DEF Tasks
<1>6. CASE Create(t)
  <2>1. Go(t, "claim") /\ run[t].pc = "none"
    BY <1>6, TurnHas DEF Create, RunInv, PcInv
  <2> QED
    BY <2>1, GoSteers DEF RunPc
<1>7. CASE Emit(t) \/ (\E w \in run[t].orphans : Commit(t, w))
  BY <1>7, EmitSteers
<1>8. CASE Lapse(t) \/ RequestCancel(t) \/ SweepEnd(t) \/ Purge(t)
  <2>1. run' = run
    BY <1>8 DEF Lapse, RequestCancel, SweepEnd, Purge
  <2> QED
    BY <2>1, StaysPut
<1> QED
  BY <1>1, <1>2, <1>3, <1>4, <1>5, <1>6, <1>7, <1>8 DEF RunStep, BesideStep

\* What they do to its row.
LEMMA RowStepMoves ==
    ASSUME TurnsInv, NEW t \in Turns, RunStep(t) \/ BesideStep(t)
    PROVE  Moves(run[t], row[t].st, row'[t].st) /\ \A s \in Turns \ {t} : row'[s] = row[s]
<1>1. run[t].verdict \in Ended
  BY TurnHas, RunnerParts
<1>2. CASE row' = row
  BY <1>2 DEF Moves
<1>3. ASSUME NEW st \in Active \cup Ended, NEW live \in BOOLEAN,
             row' = [row EXCEPT ![t].st = st, ![t].live = live], Moves(run[t], row[t].st, st)
      PROVE  Moves(run[t], row[t].st, row'[t].st) /\ \A s \in Turns \ {t} : row'[s] = row[s]
  BY <1>3, RowSets
<1>4. CASE Create(t)
  BY <1>3, <1>4 DEF Create, Moves, Active
<1>5. CASE Claim(t) /\ row' # row
  <2>1. row' = [row EXCEPT ![t].st = "running", ![t].live = TRUE] /\ row[t].st = "queued" /\ run[t].pc = "claim"
    BY <1>5 DEF Claim
  <2> QED
    BY <1>3, <2>1 DEF Moves, Active
<1>6. CASE (Undo(t) \/ EndTurn(t) \/ SweepEnd(t)) /\ row' # row
  <2>1. PICK st \in Ended : Finish(t, st) /\ row[t].st \in Active
    BY <1>1, <1>6 DEF Undo, EndTurn, SweepEnd, StillStale, Stale, Active, Ended
  <2> QED
    BY <1>3, <2>1 DEF Moves, Finish
<1>7. CASE Lapse(t) \/ RequestCancel(t)
  <2>1. row' = [row EXCEPT ![t].live = FALSE] \/ row' = [row EXCEPT ![t].cancel = TRUE]
    BY <1>7 DEF Lapse, RequestCancel
  <2>2. row'[t].st = row[t].st /\ \A s \in Turns \ {t} : row'[s] = row[s]
    BY <2>1 DEF TurnsInv, TurnsTypeOK
  <2> QED
    BY <2>2 DEF Moves
<1>8. row' = row \/ Create(t) \/ Claim(t) \/ Undo(t) \/ EndTurn(t) \/ SweepEnd(t) \/ Lapse(t) \/ RequestCancel(t)
  <2>1. CASE RunStep(t)
    BY <2>1 DEF RunStep, FlushFull, StopTasks, FlushLast, SaveLast, Tell, Return, Write, BeginFlush, BeginSave
  <2>2. CASE BesideStep(t)
    BY <2>2 DEF BesideStep, Emit, SaveRound, SeeCancel, Shutdown, LoseLease, Flush, Persist, Write, EndFails,
                Commit, Purge, BeginFlush, BeginSave
  <2> QED
    BY <2>1, <2>2
<1> QED
  BY <1>2, <1>4, <1>5, <1>6, <1>7, <1>8

-----------------------------------------------------------------------------
(* What each step does to an image.                                         *)

Images == [row : {"none", "pending", "succeeded", "failed", "cancelled"},
           job : {"none", "active"} \cup JobEnd, link : BOOLEAN]
Shots == {"idle", "queue", "link", "poll", "undo", "list", "settle", "withdrawn"}
Findings == {"none", "succeeded", "failed", "cancelled"}

LEMMA AgentHas ==
    ASSUME AgentInv, NEW t \in Turns
    PROVE  /\ TurnsInv /\ image \in [Turns -> Images] /\ shot \in [Turns -> Shots]
           /\ reconciling \in [Turns -> Findings]
           /\ image[t] \in Images /\ run[t] \in Runner /\ row[t].st \in Active \cup Ended \cup {"none", "deleted"}
           /\ MainIdle(run[t]) /\ TaskInv(t, run[t], row[t].st, image[t], shot[t])
           /\ SettledInv(row[t].st, image[t], reconciling[t])
BY TurnHas DEF AgentInv, ImagesTypeOK, TurnsTypeOK, ImageInv, ImageIs, Images, Shots, Findings

\* A step touches the image of one turn.
Edited(t) == image' \in [Turns -> Images] /\ \A s \in Turns \ {t} : image'[s] = image[s]

LEMMA ImageChanges ==
    ASSUME AgentInv, TurnsInv', NEW t \in Turns, Edited(t),
           shot' = shot \/ (\E sh \in Shots : Shot(t, sh)),
           reconciling' = reconciling \/ (\E rc \in Findings : reconciling' = [reconciling EXCEPT ![t] = rc]),
           \A s \in Turns \ {t} : run'[s] = run[s] /\ row'[s] = row[s],
           ImageIs(t, run'[t], row'[t].st, image'[t], shot'[t], reconciling'[t])
    PROVE  AgentInv'
<1>1. shot \in [Turns -> Shots] /\ reconciling \in [Turns -> Findings]
  BY AgentHas
<1>2. shot' \in [Turns -> Shots] /\ \A s \in Turns \ {t} : shot'[s] = shot[s]
  BY <1>1 DEF Shot
<1>3. reconciling' \in [Turns -> Findings] /\ \A s \in Turns \ {t} : reconciling'[s] = reconciling[s]
  BY <1>1
<1>4. ImagesTypeOK'
  BY <1>2, <1>3 DEF ImagesTypeOK, TurnsInv, Edited, Images, Shots, Findings
<1>5. \A s \in Turns : ImageInv(s)'
  BY <1>2, <1>3 DEF AgentInv, ImageInv, Edited
<1> QED
  BY <1>4, <1>5 DEF AgentInv

\* The edits of an image.
LEMMA SameImage ==
    ASSUME AgentInv, NEW t \in Turns, image' = image PROVE Edited(t) /\ image'[t] = image[t]
BY AgentHas DEF Edited

LEMMA RowEdit ==
    ASSUME AgentInv, NEW t \in Turns, NEW st \in {"none", "pending", "succeeded", "failed", "cancelled"},
           Row(t, st)
    PROVE  Edited(t) /\ image'[t].row = st /\ image'[t].job = image[t].job /\ image'[t].link = image[t].link
BY AgentHas DEF Edited, Row, Images

LEMMA JobEdit ==
    ASSUME AgentInv, NEW t \in Turns, NEW st \in {"none", "active"} \cup JobEnd,
           image' = [image EXCEPT ![t].job = st]
    PROVE  Edited(t) /\ image'[t].job = st /\ image'[t].row = image[t].row /\ image'[t].link = image[t].link
BY AgentHas DEF Edited, Images

LEMMA CancelEdit ==
    ASSUME AgentInv, NEW t \in Turns, CancelJob(t)
    PROVE  /\ Edited(t) /\ image'[t].row = image[t].row /\ image'[t].link = image[t].link
           /\ image'[t].job = IF image[t].job = "active" THEN "cancelled" ELSE image[t].job
<1> DEFINE st == IF image[t].job = "active" THEN "cancelled" ELSE image[t].job
<1>1. st \in {"none", "active"} \cup JobEnd
  BY AgentHas DEF Images, JobEnd
<1>2. image' = [image EXCEPT ![t].job = st]
  BY DEF CancelJob
<1> HIDE DEF st
<1>3. /\ Edited(t) /\ image'[t].job = st /\ image'[t].row = image[t].row /\ image'[t].link = image[t].link
  BY <1>1, <1>2, JobEdit
<1> QED
  BY <1>3 DEF st

LEMMA LinkEdit ==
    ASSUME AgentInv, NEW t \in Turns, image' = [image EXCEPT ![t].link = TRUE]
    PROVE  Edited(t) /\ image'[t].link /\ image'[t].job = image[t].job /\ image'[t].row = image[t].row
BY AgentHas DEF Edited, Images

LEMMA ShotIs ==
    ASSUME AgentInv, NEW t \in Turns, NEW sh \in Shots, Shot(t, sh)
    PROVE  shot'[t] = sh /\ \E h \in Shots : Shot(t, h)
BY AgentHas DEF Shot

\* A task or a reader takes a step beside the turn.
LEMMA BesideTurn ==
    ASSUME AgentInv, TurnsInv', NEW t \in Turns, UNCHANGED turnVars, Edited(t),
           NEW sh, (shot' = shot /\ sh = shot[t]) \/ (Shot(t, sh) /\ sh \in Shots),
           reconciling' = reconciling,
           TaskInv(t, run[t], row[t].st, image'[t], sh),
           SettledInv(row[t].st, image'[t], reconciling[t])
    PROVE  AgentInv'
<1>1. shot'[t] = sh /\ (shot' = shot \/ (\E h \in Shots : Shot(t, h)))
  BY ShotIs
<1>2. UNCHANGED <<run, row>>
  BY DEF turnVars
<1>3. ImageIs(t, run'[t], row'[t].st, image'[t], shot'[t], reconciling'[t])
  BY <1>1, <1>2, AgentHas DEF ImageIs
<1> QED
  BY <1>1, <1>2, <1>3, ImageChanges

\* A step of the turn that leaves the image alone.
LEMMA TurnAlone ==
    ASSUME AgentInv, TurnsInv', NEW t \in Turns, RunStep(t) \/ BesideStep(t),
           UNCHANGED <<image, shot, reconciling>>
    PROVE  AgentInv'
<1>1. /\ TurnsInv /\ ImageIs(t, run[t], row[t].st, image[t], shot[t], reconciling[t])
  BY DEF AgentInv, ImageInv
<1>2. /\ Steers(run[t], run'[t]) /\ Moves(run[t], row[t].st, row'[t].st)
      /\ \A s \in Turns \ {t} : run'[s] = run[s] /\ row'[s] = row[s]
  BY <1>1, RunStepSteers, RowStepMoves
<1>3. ImageIs(t, run'[t], row'[t].st, image[t], shot[t], reconciling[t])
  BY <1>1, <1>2, ImageLasts
<1> QED
  BY <1>2, <1>3, SameImage, ImageChanges

\* The row of a running turn is nobody's but its run's.
LEMMA RunningRow ==
    ASSUME AgentInv, NEW t \in Turns, Owns(t)
    PROVE  row[t].st = "running" /\ reconciling[t] = "none"
BY AgentHas DEF Owns, SettledInv, Ended

LEMMA AskStep ==
    ASSUME AgentInv, TurnsInv', NEW t \in Turns, Ask(t) \/ Queue(t) \/ Link(t) \/ Settle(t)
    PROVE  AgentInv'
<1> DEFINE im == image[t]
           i2 == image'[t]
<1>0. /\ TaskInv(t, run[t], row[t].st, im, shot[t]) /\ SettledInv(row[t].st, im, reconciling[t]) /\ im \in Images
  BY AgentHas
<1>1. run[t].pc = "loop" /\ UNCHANGED reconciling
  BY DEF Ask, Queue, Link, Settle, At, Waiting
<1>2. CASE LoseLease(t) /\ UNCHANGED <<image, shot, reconciling>>
  BY <1>2, TurnAlone DEF BesideStep
<1>3. CASE UNCHANGED turnVars /\ Owns(t) /\ Ask(t)
  <2>1. t \in Pictures /\ im.row = "none"
    BY <1>3 DEF Ask
  <2>2. CASE Row(t, "pending") /\ Shot(t, "queue")
    <3>1. Edited(t) /\ i2.row = "pending" /\ i2.job = im.job /\ i2.link = im.link
      BY <2>2, RowEdit
    <3>2. TaskInv(t, run[t], row[t].st, i2, "queue") /\ SettledInv(row[t].st, i2, reconciling[t])
      BY <1>0, <1>1, <1>3, <2>1, <3>1, RunningRow DEF TaskInv, SettledInv, Waits, Ending
    <3> QED
      BY <1>1, <1>3, <2>2, <3>1, <3>2, BesideTurn DEF Shots
  <2> QED
    BY <1>3, <2>2 DEF Ask, Owned
<1>4. CASE UNCHANGED turnVars /\ Queue(t) /\ image' = [image EXCEPT ![t].job = "active"] /\ Shot(t, "link")
  <2>1. shot[t] = "queue"
    BY <1>4 DEF Queue, At
  <2>2. Edited(t) /\ i2.row = im.row /\ i2.job = "active" /\ i2.link = im.link
    BY <1>4, JobEdit
  <2>3. t \in Pictures /\ im.job = "none" /\ ~im.link
    BY <1>0, <2>1 DEF TaskInv
  <2>4. TaskInv(t, run[t], row[t].st, i2, "link") /\ SettledInv(row[t].st, i2, reconciling[t])
    BY <1>0, <1>1, <2>1, <2>2, <2>3 DEF TaskInv, SettledInv, Waits, Ending
  <2> QED
    BY <1>1, <1>4, <2>2, <2>4, BesideTurn DEF Shots
<1>5. CASE UNCHANGED turnVars /\ Owns(t) /\ Queue(t) /\ Row(t, "failed") /\ Shot(t, "idle")
  <2>1. shot[t] = "queue"
    BY <1>5 DEF Queue, At
  <2>2. Edited(t) /\ i2.row = "failed" /\ i2.job = im.job /\ i2.link = im.link
    BY <1>5, RowEdit
  <2>3. im.job = "none" /\ ~im.link
    BY <1>0, <2>1 DEF TaskInv
  <2>4. TaskInv(t, run[t], row[t].st, i2, "idle") /\ SettledInv(row[t].st, i2, reconciling[t])
    BY <1>0, <1>1, <2>2, <2>3 DEF TaskInv, SettledInv, Waits, Ending
  <2> QED
    BY <1>1, <1>5, <2>2, <2>4, BesideTurn DEF Shots
<1>6. CASE UNCHANGED turnVars /\ Owns(t) /\ Link(t) /\ image' = [image EXCEPT ![t].link = TRUE] /\ Shot(t, "poll")
  <2>1. shot[t] = "link"
    BY <1>6 DEF Link, At
  <2>2. Edited(t) /\ i2.row = im.row /\ i2.job = im.job /\ i2.link
    BY <1>6, LinkEdit
  <2>3. im.row = "pending" /\ t \in Pictures /\ reconciling[t] = "none"
    BY <1>0, <1>6, <2>1, RunningRow DEF TaskInv
  <2>4. TaskInv(t, run[t], row[t].st, i2, "poll") /\ SettledInv(row[t].st, i2, reconciling[t])
    BY <1>0, <1>1, <2>2, <2>3 DEF TaskInv, SettledInv, Waits, Ending
  <2> QED
    BY <1>1, <1>6, <2>2, <2>4, BesideTurn DEF Shots
<1>7. CASE UNCHANGED turnVars /\ Owns(t) /\ Settle(t) /\ Row(t, RowOf[im.job]) /\ Shot(t, "idle")
  <2>1. im.job \in JobEnd
    BY <1>7 DEF Settle
  <2>2. /\ RowOf[im.job] \in {"succeeded", "failed", "cancelled"}
        /\ im.job = "success" => RowOf[im.job] = "succeeded"
        /\ im.job = "failed" => RowOf[im.job] = "failed"
        /\ im.job = "cancelled" => RowOf[im.job] = "cancelled"
    BY <2>1 DEF JobEnd, RowOf
  <2>3. Edited(t) /\ i2.row = RowOf[im.job] /\ i2.job = im.job /\ i2.link = im.link
    BY <1>7, <2>2, RowEdit
  <2>4. TaskInv(t, run[t], row[t].st, i2, "idle")
    BY <1>0, <1>1, <2>2, <2>3 DEF TaskInv, Waits, Ending
  <2>5. SettledInv(row[t].st, i2, reconciling[t])
    BY <1>0, <1>7, <2>1, <2>2, <2>3, RunningRow DEF SettledInv, JobEnd
  <2> QED
    BY <1>1, <1>7, <2>3, <2>4, <2>5, BesideTurn DEF Shots
<1>8. \/ ~UNCHANGED turnVars
      \/ Queue(t) /\ image' = [image EXCEPT ![t].job = "active"] /\ Shot(t, "link")
      \/ Owns(t) /\ \/ Ask(t) \/ (Queue(t) /\ Row(t, "failed") /\ Shot(t, "idle"))
                    \/ (Link(t) /\ image' = [image EXCEPT ![t].link = TRUE] /\ Shot(t, "poll"))
                    \/ (Settle(t) /\ Row(t, RowOf[im.job]) /\ Shot(t, "idle"))
      \/ ~Owns(t) /\ UNCHANGED <<image, shot, reconciling>>
  BY DEF Ask, Queue, Link, Settle, Owned, At
<1>9. CASE UNCHANGED turnVars /\ UNCHANGED <<image, shot, reconciling>>
  BY <1>0, <1>9, SameImage, BesideTurn
<1>10. UNCHANGED turnVars \/ (LoseLease(t) /\ UNCHANGED <<image, shot, reconciling>>)
  BY OwnedSteps DEF AgentInv
<1> QED
  BY <1>2, <1>3, <1>4, <1>5, <1>6, <1>7, <1>8, <1>9, <1>10

\* A run that stops before its image is there, and the end of the job.
LEMMA GivesUpStep ==
    ASSUME AgentInv, TurnsInv', NEW t \in Turns,
           \/ WaitEnds(t) \/ QueueLate(t) \/ UndoQueue(t) \/ WithdrawJob(t) \/ ListPending(t)
           \/ SettleCancelled(t) \/ JobEnds(t)
    PROVE  AgentInv'
<1> DEFINE im == image[t]
           i2 == image'[t]
<1>0. /\ TaskInv(t, run[t], row[t].st, im, shot[t]) /\ SettledInv(row[t].st, im, reconciling[t])
      /\ im \in Images /\ UNCHANGED turnVars /\ reconciling' = reconciling
  BY AgentHas DEF WaitEnds, QueueLate, UndoQueue, WithdrawJob, ListPending, SettleCancelled, JobEnds, At
<1>1. ASSUME image' = image, NEW sh \in Shots, Shot(t, sh), TaskInv(t, run[t], row[t].st, im, sh)
      PROVE  AgentInv'
  BY <1>0, <1>1, SameImage, BesideTurn
<1>2. CASE WaitEnds(t) \/ (QueueLate(t) /\ image' = image /\ Shot(t, "idle"))
  <2>1. Shot(t, "idle") /\ image' = image /\ TaskInv(t, run[t], row[t].st, im, "idle")
    BY <1>0, <1>2 DEF WaitEnds, TaskInv
  <2> QED
    BY <1>1, <2>1 DEF Shots
<1>3. CASE QueueLate(t) /\ image' = [image EXCEPT ![t].job = "active"] /\ Shot(t, "undo")
  <2>1. shot[t] = "queue" /\ run[t].pc \in {"stop", "withdraw"}
    BY <1>3 DEF QueueLate
  <2>2. Edited(t) /\ i2.row = im.row /\ i2.job = "active" /\ i2.link = im.link
    BY <1>3, JobEdit
  <2>3. TaskInv(t, run[t], row[t].st, i2, "undo") /\ SettledInv(row[t].st, i2, reconciling[t])
    BY <1>0, <2>1, <2>2 DEF TaskInv, SettledInv, Waits, Ending
  <2> QED
    BY <1>0, <1>3, <2>2, <2>3, BesideTurn DEF Shots
<1>4. ASSUME CancelJob(t), NEW sh \in {"idle", "list"}, Shot(t, sh),
             sh = "list" => t \in Pictures /\ run[t].pc \in {"withdraw", "drop"}
      PROVE  AgentInv'
  <2>1. /\ Edited(t) /\ i2.row = im.row /\ i2.link = im.link
        /\ i2.job = IF im.job = "active" THEN "cancelled" ELSE im.job
    BY <1>4, CancelEdit
  <2>2. TaskInv(t, run[t], row[t].st, i2, sh)
    BY <1>0, <1>4, <2>1 DEF TaskInv, Waits
  <2>3. SettledInv(row[t].st, i2, reconciling[t])
    BY <1>0, <2>1 DEF SettledInv, JobEnd
  <2> QED
    BY <1>0, <1>4, <2>1, <2>2, <2>3, BesideTurn DEF Shots
<1>5. CASE UndoQueue(t)
  BY <1>4, <1>5 DEF UndoQueue
<1>6. CASE WithdrawJob(t)
  <2>1. run[t].pc \in {"withdraw", "drop"} /\ t \in Pictures /\ Shot(t, "list")
    BY <1>6 DEF WithdrawJob, Keeps
  <2>2. CASE HasJob(t)
    BY <1>4, <1>6, <2>1, <2>2 DEF WithdrawJob
  <2>3. CASE ~HasJob(t)
    <3>1. image' = image /\ im.job = "none"
      BY <1>6, <2>3 DEF WithdrawJob, HasJob
    <3>2. TaskInv(t, run[t], row[t].st, im, "list")
      BY <1>0, <2>1, <3>1 DEF TaskInv, Waits
    <3> QED
      BY <1>1, <2>1, <3>1, <3>2 DEF Shots
  <2> QED
    BY <2>2, <2>3
<1>7. CASE ListPending(t)
  <2>1. PICK sh \in {"settle", "withdrawn"} : Shot(t, sh)
    BY <1>7 DEF ListPending
  <2>2. image' = image /\ TaskInv(t, run[t], row[t].st, im, sh)
    BY <1>0, <1>7, <2>1 DEF ListPending, TaskInv
  <2> QED
    BY <1>1, <2>1, <2>2 DEF Shots
<1>8. CASE SettleCancelled(t)
  <2>1. shot[t] = "settle" /\ Shot(t, "withdrawn")
    BY <1>8 DEF SettleCancelled
  <2>2. t \in Pictures /\ im.job # "active"
    BY <1>0, <2>1 DEF TaskInv
  <2>3. CASE image' = image
    <3>1. TaskInv(t, run[t], row[t].st, im, "withdrawn")
      BY <1>0, <2>1 DEF TaskInv
    <3> QED
      BY <1>1, <2>1, <2>3, <3>1 DEF Shots
  <2>4. CASE Row(t, "cancelled")
    <3>1. Edited(t) /\ i2.row = "cancelled" /\ i2.job = im.job /\ i2.link = im.link
      BY <2>4, RowEdit
    <3>2. TaskInv(t, run[t], row[t].st, i2, "withdrawn") /\ SettledInv(row[t].st, i2, reconciling[t])
      BY <1>0, <2>1, <2>2, <3>1 DEF TaskInv, SettledInv
    <3> QED
      BY <1>0, <2>1, <3>1, <3>2, BesideTurn DEF Shots
  <2> QED
    BY <1>8, <2>3, <2>4 DEF SettleCancelled
<1>9. CASE JobEnds(t)
  <2>1. PICK st \in JobEnd : image' = [image EXCEPT ![t].job = st]
    BY <1>9 DEF JobEnds
  <2>2. im.job = "active" /\ shot' = shot /\ st # "active"
    BY <1>9 DEF JobEnds, JobEnd
  <2>3. Edited(t) /\ i2.row = im.row /\ i2.job = st /\ i2.link = im.link
    BY <2>1, JobEdit
  <2>4. TaskInv(t, run[t], row[t].st, i2, shot[t])
    BY <1>0, <2>2, <2>3 DEF TaskInv
  <2>5. SettledInv(row[t].st, i2, reconciling[t])
    BY <1>0, <2>2, <2>3 DEF SettledInv, JobEnd
  <2> QED
    BY <1>0, <2>2, <2>3, <2>4, <2>5, BesideTurn
<1> QED
  BY <1>2, <1>3, <1>5, <1>6, <1>7, <1>8, <1>9 DEF QueueLate

LEMMA ReconcileStep == ASSUME AgentInv, TurnsInv', NEW t \in Turns, ReaderStep(t) PROVE AgentInv'
<1> DEFINE im == image[t]
           i2 == image'[t]
           rc == reconciling[t]
<1>0. /\ TaskInv(t, run[t], row[t].st, im, shot[t]) /\ SettledInv(row[t].st, im, rc) /\ MainIdle(run[t])
      /\ im \in Images /\ reconciling \in [Turns -> Findings] /\ rc \in Findings
  BY AgentHas
<1>1. UNCHANGED <<run, row, shot>>
  BY DEF ReaderStep, ReconcileRead, ReconcileWrite, turnVars
<1>2. ASSUME Edited(t), NEW c \in Findings, reconciling' = [reconciling EXCEPT ![t] = c],
             TaskInv(t, run[t], row[t].st, i2, shot[t]), SettledInv(row[t].st, i2, c)
      PROVE  AgentInv'
  <2>1. ImageIs(t, run'[t], row'[t].st, i2, shot'[t], reconciling'[t])
    BY <1>0, <1>1, <1>2 DEF ImageIs
  <2> QED
    BY <1>1, <1>2, <2>1, ImageChanges
<1>3. CASE ReconcileRead(t)
  <2> DEFINE c == Finding(t)
  <2>1. /\ image' = image /\ reconciling' = [reconciling EXCEPT ![t] = c] /\ c # "none"
        /\ row[t].st \in Ended /\ im.row = "pending"
    BY <1>3 DEF ReconcileRead
  <2>2. c \in Findings /\ (im.link => im.job \in JobEnd /\ c = RowOf[im.job])
    BY <2>1 DEF Finding, Findings, JobEnd, RowOf
  <2> HIDE DEF c
  <2>3. Edited(t) /\ i2 = im
    BY <2>1, SameImage
  <2>4. SettledInv(row[t].st, im, c)
    BY <2>1, <2>2 DEF SettledInv
  <2> QED
    BY <1>0, <1>2, <2>1, <2>2, <2>3, <2>4
<1>4. CASE ReconcileWrite(t)
  <2>1. rc # "none" /\ reconciling' = [reconciling EXCEPT ![t] = "none"] /\ "none" \in Findings
    BY <1>4 DEF ReconcileWrite, Findings
  <2>2. CASE image' = image
    <3>1. SettledInv(row[t].st, im, "none") /\ Edited(t) /\ i2 = im
      BY <1>0, <2>2, SameImage DEF SettledInv
    <3> QED
      BY <1>0, <1>2, <2>1, <3>1
  <2>3. CASE Row(t, rc)
    <3>1. rc \in {"succeeded", "failed", "cancelled"}
      BY <1>0, <2>1 DEF Findings
    <3>2. Edited(t) /\ i2.row = rc /\ i2.job = im.job /\ i2.link = im.link
      BY <2>3, <3>1, RowEdit
    <3>3. /\ row[t].st \in Ended \cup {"deleted"} /\ (im.link => im.job \in JobEnd /\ rc = RowOf[im.job])
      BY <1>0, <2>1 DEF SettledInv
    <3>4. TaskInv(t, run[t], row[t].st, i2, shot[t])
      BY <1>0, <3>1, <3>2, <3>3 DEF TaskInv, Ended
    <3>5. SettledInv(row[t].st, i2, "none")
      BY <3>1, <3>2, <3>3 DEF SettledInv, JobEnd, RowOf
    <3> QED
      BY <1>2, <2>1, <3>2, <3>4, <3>5
  <2> QED
    BY <1>4, <2>2, <2>3 DEF ReconcileWrite
<1> QED
  BY <1>3, <1>4 DEF ReaderStep

\* The turn and its image move together.
LEMMA TurnAndImage ==
    ASSUME AgentInv, TurnsInv', NEW t \in Turns, NEW r2, Run(t, r2), row' = row, Edited(t),
           Shot(t, "idle"), reconciling' = reconciling, MainIdle(r2),
           TaskInv(t, r2, row[t].st, image'[t], "idle"), SettledInv(row[t].st, image'[t], reconciling[t])
    PROVE  AgentInv'
<1>1. run'[t] = r2 /\ \A s \in Turns \ {t} : run'[s] = run[s]
  BY RunIs DEF AgentInv
<1>2. shot'[t] = "idle" /\ \E h \in Shots : Shot(t, h)
  BY ShotIs DEF Shots
<1>3. ImageIs(t, run'[t], row'[t].st, image'[t], shot'[t], reconciling'[t])
  BY <1>1, <1>2 DEF ImageIs
<1> QED
  BY <1>1, <1>2, <1>3, ImageChanges

\* When nothing pends, or what pended is cancelled, a run goes on to its end: it
\* has no job at work unless it completes.
LEMMA WithdrawImagesStep ==
    ASSUME AgentInv, TurnsInv', NEW t \in Turns, WithdrawImages(t) PROVE AgentInv'
<1> DEFINE r == run[t]
           im == image[t]
           pc2 == IF r.pc = "drop" \/ r.lost THEN "finish" ELSE "flush"
           v2 == IF r.lost THEN "interrupted" ELSE r.verdict
           r2 == [r EXCEPT !.pc = pc2, !.verdict = v2]
<1>0. /\ TaskInv(t, r, row[t].st, im, shot[t]) /\ SettledInv(row[t].st, im, reconciling[t])
      /\ im \in Images /\ r \in Runner /\ MainIdle(r)
  BY AgentHas
<1>1. r.pc \in {"withdraw", "drop"} /\ row' = row /\ image' = image /\ Shot(t, "idle") /\ reconciling' = reconciling
  BY DEF WithdrawImages, Withdraw
<1>2. Run(t, r2)
  BY <1>0 DEF WithdrawImages, Withdraw, Runner
<1>3. /\ pc2 \in {"flush", "finish"}
      /\ im.job # "active" \/ v2 = "completed"
  BY <1>0 DEF WithdrawImages, Keeps, TaskInv
<1> HIDE DEF pc2, v2
<1>4. r2.pc = pc2 /\ r2.verdict = v2 /\ r2.io = r.io
  BY <1>0 DEF Runner
<1> HIDE DEF r2
<1>5. MainIdle(r2)
  BY <1>0, <1>1, <1>4 DEF MainIdle
<1>6. TaskInv(t, r2, row[t].st, im, "idle")
  BY <1>0, <1>3, <1>4 DEF TaskInv
<1>7. Edited(t) /\ image'[t] = im
  BY <1>1, SameImage
<1> QED
  BY <1>0, <1>1, <1>2, <1>5, <1>6, <1>7, TurnAndImage

LEMMA KillImagesStep == ASSUME AgentInv, TurnsInv', NEW t \in Turns, KillImages(t) PROVE AgentInv'
<1> DEFINE r2 == Idle("over")
           im == image[t]
<1>0. /\ TaskInv(t, run[t], row[t].st, im, shot[t]) /\ SettledInv(row[t].st, im, reconciling[t])
      /\ im \in Images
  BY AgentHas
<1>1. Run(t, r2) /\ row' = row /\ Shot(t, "idle") /\ reconciling' = reconciling
  BY DEF KillImages, Kill, Over
<1>2. r2.pc = "over"
  BY IdleType DEF RunPc
<1> HIDE DEF r2
<1>3. MainIdle(r2)
  BY <1>2 DEF MainIdle
<1>4. CASE image' = image
  <2>1. TaskInv(t, r2, row[t].st, im, "idle") /\ Edited(t) /\ image'[t] = im
    BY <1>0, <1>2, <1>4, SameImage DEF TaskInv, Ending
  <2> QED
    BY <1>0, <1>1, <1>3, <2>1, TurnAndImage
<1>5. CASE image' = [image EXCEPT ![t].job = "active"] /\ shot[t] = "queue"
  <2>1. Edited(t) /\ image'[t].row = im.row /\ image'[t].job = "active" /\ image'[t].link = im.link
    BY <1>5, JobEdit
  <2>2. TaskInv(t, r2, row[t].st, image'[t], "idle") /\ SettledInv(row[t].st, image'[t], reconciling[t])
    BY <1>0, <1>2, <1>5, <2>1 DEF TaskInv, SettledInv, Ending
  <2> QED
    BY <1>1, <1>3, <2>1, <2>2, TurnAndImage
<1> QED
  BY <1>4, <1>5 DEF KillImages

LEMMA LeaveLoopStep ==
    ASSUME AgentInv, TurnsInv', NEW t \in Turns, Leave(t), shot[t] = "idle",
           UNCHANGED <<image, shot, reconciling>>
    PROVE  AgentInv'
<1> DEFINE r == run[t]
           c == [r EXCEPT !.pc = "stop", !.verdict = "completed"]
<1>0. ImageIs(t, r, row[t].st, image[t], shot[t], reconciling[t]) /\ r \in Runner
  BY AgentHas DEF ImageIs
<1>1. r.pc = "loop" /\ r.io["main"].op = "none" /\ row' = row /\ (Run(t, c) \/ Run(t, Failed(r)))
  BY DEF Leave, Waiting
<1>2. c.pc = "stop" /\ c.io = r.io /\ Failed(r).pc = "stop" /\ Failed(r).io = r.io
  BY <1>0, FailedIs DEF Runner
<1> HIDE DEF c
<1>3. Steers(r, c) /\ Steers(r, Failed(r))
  BY <1>1, <1>2, LoopSteers
<1>4. Steers(r, run'[t]) /\ \A s \in Turns \ {t} : run'[s] = run[s]
  BY <1>1, <1>3, RunIs DEF AgentInv
<1>5. ImageIs(t, run'[t], row'[t].st, image[t], shot[t], reconciling[t])
  BY <1>0, <1>1, <1>4, ImageLasts DEF Moves
<1> QED
  BY <1>1, <1>4, <1>5, SameImage, ImageChanges

\* The jobs of a deleted conversation go on, and its images are no more.
LEMMA DeleteImagesStep == ASSUME AgentInv, TurnsInv', DeleteImages PROVE AgentInv'
<1>1. UNCHANGED <<run, shot, reconciling>>
  BY DEF DeleteImages, Delete
<1>2. ImagesTypeOK'
  BY <1>1 DEF AgentInv, TurnsInv, ImagesTypeOK, DeleteImages
<1>3. ASSUME NEW t \in Turns PROVE ImageInv(t)'
  <2> DEFINE im == image[t]
             i2 == image'[t]
  <2>1. /\ TaskInv(t, run[t], row[t].st, im, shot[t]) /\ SettledInv(row[t].st, im, reconciling[t])
        /\ im \in Images /\ MainIdle(run[t])
    BY AgentHas
  <2>2. row'[t].st = "deleted" /\ i2 = [im EXCEPT !.row = "none", !.link = FALSE]
    BY DEF DeleteImages, Delete
  <2>3. i2.row = "none" /\ ~i2.link /\ i2.job = im.job
    BY <2>1, <2>2 DEF Images
  <2>4. TaskInv(t, run[t], "deleted", i2, shot[t]) /\ SettledInv("deleted", i2, reconciling[t])
    BY <2>1, <2>3 DEF TaskInv, SettledInv
  <2> QED
    BY <1>1, <2>1, <2>2, <2>4 DEF ImageInv, ImageIs
<1> QED
  BY <1>2, <1>3 DEF AgentInv

\* Streams and sweeps only read.
LEMMA OnlyReads ==
    ASSUME AgentInv, TurnsInv', UNCHANGED <<run, row, image, shot, reconciling>> PROVE AgentInv'
<1>1. ImagesTypeOK'
  BY DEF AgentInv, TurnsInv, ImagesTypeOK
<1>2. \A t \in Turns : ImageInv(t)'
  BY DEF AgentInv, ImageInv
<1> QED
  BY <1>1, <1>2 DEF AgentInv

-----------------------------------------------------------------------------
(* The turns and their images.                                              *)

LEMMA AgentInvInit == ImagesInit => AgentInv
<1> SUFFICES ASSUME ImagesInit PROVE AgentInv
  OBVIOUS
<1>1. TurnsInv
  BY TurnsInvInit DEF ImagesInit
<1>2. ImagesTypeOK
  BY <1>1 DEF ImagesInit, TurnsInv, ImagesTypeOK
<1>3. ASSUME NEW t \in Turns PROVE ImageInv(t)
  <2>1. run[t].pc = "none"
    BY IdleType DEF ImagesInit, TurnsInit, RunPc
  <2>2. /\ row[t].st = "none" /\ image[t] = [row |-> "none", job |-> "none", link |-> FALSE]
        /\ shot[t] = "idle" /\ reconciling[t] = "none"
    BY DEF ImagesInit, TurnsInit
  <2>3. MainIdle(run[t]) /\ TaskInv(t, run[t], row[t].st, image[t], shot[t])
    BY <2>1, <2>2 DEF MainIdle, TaskInv, Ending
  <2>4. SettledInv(row[t].st, image[t], reconciling[t])
    BY <2>2 DEF SettledInv
  <2> QED
    BY <2>3, <2>4 DEF ImageInv, ImageIs
<1> QED
  BY <1>1, <1>2, <1>3 DEF AgentInv

LEMMA AgentInvStep == AgentInv /\ [ImagesNext]_imageVars => AgentInv'
<1> SUFFICES ASSUME AgentInv, [ImagesNext]_imageVars PROVE AgentInv'
  OBVIOUS
<1>0. TurnsInv'
  BY ImagesStepTurns, TurnsInvStep DEF AgentInv
<1>1. CASE Beside(TurnsStep)
  <2>1. UNCHANGED <<image, shot, reconciling>> /\ TurnsStep
    BY <1>1 DEF Beside
  <2>2. ASSUME NEW t \in Turns, RunStep(t) \/ BesideStep(t) PROVE AgentInv'
    BY <1>0, <2>1, <2>2, TurnAlone
  <2>3. ASSUME (\E t \in Turns : StreamStep(t)) \/ SweepRead PROVE UNCHANGED <<run, row>>
    BY <2>3 DEF StreamStep, Open, List, Check, Read, SweepRead
  <2>4. CASE (\E t \in Turns : StreamStep(t)) \/ SweepRead
    BY <1>0, <2>1, <2>3, <2>4, OnlyReads
  <2> QED
    BY <2>1, <2>2, <2>4 DEF TurnsStep
<1>2. ASSUME NEW t \in Turns, Ask(t) \/ TaskStep(t) PROVE AgentInv'
  <2>1. CASE Ask(t) \/ Queue(t) \/ Link(t) \/ Settle(t)
    BY <1>0, <2>1, AskStep
  <2>2. CASE \/ WaitEnds(t) \/ QueueLate(t) \/ UndoQueue(t) \/ WithdrawJob(t) \/ ListPending(t)
             \/ SettleCancelled(t)
    BY <1>0, <2>2, GivesUpStep
  <2>3. CASE WithdrawImages(t)
    BY <1>0, <2>3, WithdrawImagesStep
  <2>4. CASE Leave(t) /\ shot[t] = "idle" /\ UNCHANGED <<image, shot, reconciling>>
    BY <1>0, <2>4, LeaveLoopStep
  <2> QED
    BY <1>2, <2>1, <2>2, <2>3, <2>4 DEF TaskStep
<1>3. ASSUME NEW t \in Turns, KillImages(t) \/ JobEnds(t) \/ ReaderStep(t) PROVE AgentInv'
  BY <1>0, <1>3, KillImagesStep, GivesUpStep, ReconcileStep
<1>4. CASE DeleteImages
  BY <1>0, <1>4, DeleteImagesStep
<1>5. CASE UNCHANGED imageVars
  <2>1. UNCHANGED <<run, row, image, shot, reconciling>>
    BY <1>5 DEF imageVars, turnVars
  <2> QED
    BY <1>0, <2>1, OnlyReads
<1> QED
  BY <1>1, <1>2, <1>3, <1>4, <1>5 DEF ImagesNext

\* The inductive invariant of turns and images, ImagesTypeOK among it.
THEOREM AlwaysAgentInv == ImagesSpec => []AgentInv
BY AgentInvInit, AgentInvStep, PTL DEF ImagesSpec

\* An image that has its job tells what became of the job, whoever settled it: the
\* run that waited (settle_image), a withdrawal (cancel_pending_images) or a reader
\* of the conversation.  Only a cancellation may be told of a job that was faster.
THEOREM ImagesTrueHolds == ImagesSpec => []ImagesTrue
<1>1. AgentInv => ImagesTrue
  BY DEF AgentInv, ImageInv, ImageIs, SettledInv, ImagesTrue
<1> QED
  BY <1>1, AlwaysAgentInv, PTL

\* A run that ends its turn without completing it (finalize) leaves no image job
\* at work, wherever between queueing and waiting its task was stopped.
THEOREM NoLeftJob == ImagesSpec => NoJobLeftBehind
<1> DEFINE Ends(t) == run[t].pc = "finish" /\ run[t].verdict # "completed"
                         /\ row[t].st = "running" /\ row'[t].st = run[t].verdict
                         => image[t].job # "active"
<1>1. AgentInv => \A t \in Turns : Ends(t)
  BY DEF AgentInv, ImageInv, ImageIs, TaskInv, Ending
<1>2. AgentInv => [\A t \in Turns : Ends(t)]_imageVars
  BY <1>1
<1> QED
  BY <1>2, AlwaysAgentInv, PTL DEF NoJobLeftBehind


=============================================================================
