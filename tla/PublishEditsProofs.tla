-------------------------- MODULE PublishEditsProofs --------------------------
(***************************************************************************)
(* What publishing does to texts.  skaldr's own writes stay explained by   *)
(* the state file (OwnWritesExplained), a person's edit is replaced only   *)
(* when it was shown (SeenBeforeOverwritten), and an apply that ends well  *)
(* has published its YAML (AppliedMeansPublished): each of every behaviour *)
(* in which no dry run writes to the service (DryRunWritesNothing), which  *)
(* is every behaviour where the connector fills no page that a create left *)
(* empty, as Jira and Slack.  That the state file then records the YAML    *)
(* (RecordedAsPlanned) is true of every behaviour.                         *)
(***************************************************************************)
EXTENDS PublishProofs

------------------------------------------------------------------------------
(* Which item is held by whom                                                *)

\* Two refs never hold the same item.
LEMMA HeldApart ==
  ASSUME NEW its, NEW st \in PublishState, ServiceOK(its), StateOK(its, st),
         NEW r \in HeldRefs(st), NEW q \in HeldRefs(st), st.held[r].id = st.held[q].id
  PROVE  r = q
<1>1. /\ r \in Refs /\ q \in Refs /\ st.held[r] # None /\ st.held[q] # None
      /\ st.held[r].origin \in Origin /\ st.held[q].origin \in Origin
  BY DEF HeldRefs, PublishState, Item
<1>2. /\ st.held[r].origin = "created" => its[st.held[r].id].made = r
      /\ st.held[r].origin = "adopted" => r = Document /\ its[st.held[r].id].made = None
      /\ st.held[q].origin = "created" => its[st.held[q].id].made = q
      /\ st.held[q].origin = "adopted" => q = Document /\ its[st.held[q].id].made = None
  BY <1>1 DEF StateOK, HeldItemsAreTheRefs, ServiceOK
<1>3. QED
  BY <1>1, <1>2, NoneAssumption DEF Origin

\* An item made for a ref that has none, and a page not yet written into, is
\* held by no ref.
LEMMA Unheld ==
  ASSUME NEW its, NEW st \in PublishState, ServiceOK(its), StateOK(its, st),
         NEW i \in Ids, Alive(its, i), NEW r \in Refs, NotThere(its, st, r),
         its[i].made = r \/ (i = Into /\ Into # None /\ r = Document)
  PROVE  \A q \in HeldRefs(st) : st.held[q].id # i
<1>1. SUFFICES ASSUME NEW q \in HeldRefs(st), st.held[q].id = i PROVE FALSE
  OBVIOUS
<1>2. q \in Refs /\ st.held[q] # None /\ st.held[q].origin \in Origin
  BY DEF HeldRefs, PublishState, Item
<1>3. q # r
  BY <1>1, <1>2 DEF NotThere
<1>4. /\ st.held[q].origin = "created" => its[i].made = q
      /\ st.held[q].origin = "adopted" => /\ q = Document /\ its[i].made = None
                                          /\ i = Into
  BY <1>1, <1>2 DEF StateOK, HeldItemsAreTheRefs, ServiceOK
<1>5. Into # None => its[Into].made = None
  BY DEF ServiceOK
<1>6. QED
  BY <1>2, <1>3, <1>4, <1>5, NoneAssumption DEF Origin

------------------------------------------------------------------------------
(* What is told stays told                                                   *)

\* Items go away and texts change, but only by a person's hand.
ByHand(its, its2) ==
  \A i \in Ids : Alive(its2, i) =>
    /\ Alive(its, i)
    /\ its[i].hand \subseteq its2[i].hand
    /\ \A x \in Parts : its2[i].text[x] = its[i].text[x] \/ x \in its2[i].hand

\* A person's edits account for themselves.
LEMMA ByHandAccounted ==
  ASSUME NEW its, NEW its2, ByHand(its, its2), NEW item, item.id \in Ids,
         NEW x \in Parts, Unaccounted(its2, item, x)
  PROVE  Unaccounted(its, item, x) /\ its2[item.id].text[x] = its[item.id].text[x]
BY DEF ByHand, Unaccounted

\* What a publish state tells does not depend on the items it does not hold,
\* nor on what a person does to those it holds.
LEMMA StillTells ==
  ASSUME NEW its, NEW its2, NEW st \in PublishState, NEW sn, Tells(its, st, sn),
         \/ ByHand(its, its2)
         \/ \A r \in HeldRefs(st) : its2[st.held[r].id] = its[st.held[r].id]
  PROVE  /\ Tells(its2, st, sn)
         /\ \A r \in HeldRefs(st) : Clean(its, st.held[r]) => Clean(its2, st.held[r])
<1>1. ASSUME NEW r \in HeldRefs(st), NEW x \in Parts
      PROVE  Unaccounted(its2, st.held[r], x) =>
               /\ Unaccounted(its, st.held[r], x)
               /\ its2[st.held[r].id].text[x] = its[st.held[r].id].text[x]
  <2>1. st.held[r].id \in Ids
    BY DEF HeldRefs, PublishState, Item
  <2>2. CASE ByHand(its, its2)
    BY <2>1, <2>2, ByHandAccounted
  <2>3. CASE its2[st.held[r].id] = its[st.held[r].id]
    BY <2>3 DEF Unaccounted, Alive
  <2>4. QED
    BY <2>2, <2>3
<1>2. Tells(its2, st, sn)
  BY <1>1 DEF Tells, Explained
<1>3. \A r \in HeldRefs(st) : Clean(its, st.held[r]) => Clean(its2, st.held[r])
  BY <1>1 DEF Clean
<1>4. QED
  BY <1>2, <1>3

\* A command that holds the lock knows what the state file tells.
LEMMA OfTold ==
  ASSUME Inductive, Told, NEW p \in Procs
  PROVE  /\ Tells(items, disk, seen)
         /\ Writer(pc[p], run[p]) => /\ ToldOf(items, disk, seen, pc[p], run[p])
                                     /\ Tells(items, run[p].state, seen)
         /\ pc[p] \in ApplyPlaces => disk = run[p].state
<1>1. Writer(pc[p], run[p]) => ToldOf(items, disk, seen, pc[p], run[p])
  BY DEF Told
<1>2. pc[p] \in ApplyPlaces => Writer(pc[p], run[p])
  BY AtApply
<1>3. QED
  BY <1>1, <1>2 DEF Told, ToldOf

------------------------------------------------------------------------------
(* Frames                                                                    *)

\* A command moves on: either it holds the lock, and no other writes, or it
\* changes nothing that others see.
LEMMA ToldStep ==
  ASSUME Inductive, Told, NEW p \in Procs, NEW place, NEW rn, Goto(p, place, rn),
         Writer(pc[p], run[p]) \/ UNCHANGED <<items, disk, seen>>,
         Tells(items', disk', seen'),
         Writer(place, rn) => ToldOf(items', disk', seen', place, rn)
  PROVE  Told'
<1>1. /\ pc'[p] = place /\ run'[p] = rn
      /\ \A q \in Procs \ {p} : pc'[q] = pc[q] /\ run'[q] = run[q]
  BY DEF Goto, Inductive, TypeOK
<1>2. ASSUME NEW q \in Procs \ {p}, Writer(pc[q], run[q])
      PROVE  ToldOf(items', disk', seen', pc[q], run[q])
  <2>1. lock = q
    BY <1>2 DEF Inductive, WriterHoldsTheLock
  <2>2. ~Writer(pc[p], run[p])
    BY <2>1 DEF Inductive, WriterHoldsTheLock
  <2>3. QED
    BY <1>2, <2>2 DEF Told
<1>3. \A q \in Procs : Writer(pc'[q], run'[q]) =>
        ToldOf(items', disk', seen', pc'[q], run'[q])
  BY <1>1, <1>2
<1>4. QED
  BY <1>3 DEF Told

\* A command that holds the lock ends.
LEMMA EndTold ==
  ASSUME Inductive, Told, NEW p \in Procs, End(p),
         Writer(pc[p], run[p]) \/ UNCHANGED <<items, disk, seen>>,
         Tells(items', disk', seen')
  PROVE  Told'
<1>1. Goto(p, "idle", IdleRun) /\ ~Writer("idle", IdleRun)
  BY IdleOK DEF End
<1>2. QED
  BY <1>1, ToldStep

\* A command does something only in its own memory.
LEMMA QuietTold ==
  ASSUME Inductive, Told, NEW p \in Procs, UNCHANGED <<items, disk, seen>>,
         \/ End(p)
         \/ \E place, rn : /\ Goto(p, place, rn)
                           /\ Writer(place, rn) => ToldOf(items, disk, seen, place, rn)
  PROVE  Told'
<1>1. Tells(items', disk', seen')
  BY OfTold
<1>2. CASE End(p)
  BY <1>1, <1>2, EndTold
<1>3. CASE \E place, rn : /\ Goto(p, place, rn)
                          /\ Writer(place, rn) => ToldOf(items, disk, seen, place, rn)
  BY <1>1, <1>3, ToldStep
<1>4. QED
  BY <1>2, <1>3

\* The person acts: no command moves.
LEMMA PersonTold ==
  ASSUME Inductive, Told, ByHand(items, items'), UNCHANGED <<pc, run, seen>>,
         disk' = disk \/ (lock = None /\ disk' \in PublishState /\ disk'.held = disk.held)
  PROVE  Told'
<1>1. Tells(items', disk', seen')
  <2>1. disk' \in PublishState /\ Tells(items, disk', seen)
    BY DEF Told, Tells, HeldRefs, Inductive, TypeOK
  <2>2. QED
    BY <2>1, StillTells
<1>2. ASSUME NEW p \in Procs, Writer(pc[p], run[p])
      PROVE  ToldOf(items', disk', seen', pc[p], run[p])
  <2>1. lock = p
    BY <1>2 DEF Inductive, WriterHoldsTheLock
  <2>2. disk' = disk
    BY <2>1, NoneAssumption
  <2>3. ToldOf(items, disk, seen, pc[p], run[p]) /\ run[p].state \in PublishState
    BY <1>2, OfTold, OfCommand
  <2>4. /\ Tells(items', run[p].state, seen)
        /\ \A r \in HeldRefs(run[p].state) :
             Clean(items, run[p].state.held[r]) => Clean(items', run[p].state.held[r])
    BY <2>3, StillTells DEF ToldOf
  <2>5. QED
    BY <2>2, <2>3, <2>4 DEF ToldOf
<1>3. QED
  BY <1>1, <1>2 DEF Told

------------------------------------------------------------------------------
(* The person, and the start of a command                                    *)

\* What the person does to the items is done by hand.
LEMMA PersonToldStep == ASSUME Inductive, Told, Person PROVE Told'
<1>0. items \in [Ids -> RemoteItem] /\ disk \in PublishState
  BY DEF Inductive, TypeOK
<1>1. CASE ReviseYaml
  <2>1. ByHand(items, items')
    BY <1>1 DEF ReviseYaml, ByHand
  <2>2. QED
    BY <1>1, <2>1, PersonTold DEF ReviseYaml
<1>2. ASSUME NEW i \in Ids, EditItem(i) \/ RemoveStamp(i) \/ DeleteItem(i)
      PROVE  Told'
  <2>1. ByHand(items, items')
    <3>1. CASE EditItem(i)
      <4>1. PICK x \in Parts, t \in {Form[u] : u \in Texts \ {Unkeyed}} :
              items' = [items EXCEPT ![i].text[x] = t, ![i].hand = @ \cup {x}]
        BY <3>1 DEF EditItem
      <4>2. /\ items'[i].life = items[i].life
            /\ items'[i].hand = items[i].hand \cup {x}
            /\ \A y \in Parts \ {x} : items'[i].text[y] = items[i].text[y]
            /\ \A j \in Ids \ {i} : items'[j] = items[j]
        BY <1>0, <4>1 DEF RemoteItem, Content
      <4>3. QED
        BY <4>2 DEF ByHand, Alive
    <3>2. CASE RemoveStamp(i)
      BY <1>0, <3>2 DEF RemoveStamp, ByHand, Alive, RemoteItem
    <3>3. CASE DeleteItem(i)
      BY <1>0, <3>3 DEF DeleteItem, ByHand, Alive, RemoteItem
    <3>4. QED
      BY <1>2, <3>1, <3>2, <3>3
  <2>2. UNCHANGED <<pc, run, seen, disk>>
    BY <1>2 DEF EditItem, RemoveStamp, DeleteItem
  <2>3. QED
    BY <2>1, <2>2, PersonTold
<1>3. CASE ResolveCreate
  <2>1. PICK d \in disk.pending :
          /\ disk' = Drop(disk, d)
          /\ items' = [i \in Ids |->
               IF /\ items[i].made = d.ref
                  /\ ~\E r \in HeldRefs(disk) : disk.held[r].id = i
                  /\ There(i)
               THEN [items[i] EXCEPT !.life = "gone"] ELSE items[i]]
    BY <1>3 DEF ResolveCreate
  <2>2. ByHand(items, items')
    BY <1>0, <2>1 DEF ByHand, Alive, RemoteItem
  <2>3. disk' \in PublishState /\ disk'.held = disk.held
    BY <1>0, <2>1, DropType
  <2>4. QED
    BY <1>3, <2>2, <2>3, PersonTold DEF ResolveCreate
<1>4. QED
  BY <1>1, <1>2, <1>3 DEF Person

\* Commands that start, and commands that end without a change.
LEMMA QuietSteps ==
  ASSUME Inductive, Told, NEW p \in Procs,
         \/ \E c \in Command : Prepare(p, c)
         \/ LockHeldElsewhere(p) \/ YamlChangedSincePlanned(p) \/ Stop(p)
         \/ RefuseInterruptedCreate(p) \/ RefuseInto(p) \/ EndDryRun(p)
         \/ RefuseMissing(p) \/ ReleaseLock(p)
  PROVE  Told'
<1>1. CASE \E c \in Command : Prepare(p, c)
  <2>1. PICK c \in Command : Prepare(p, c)
    BY <1>1
  <2> DEFINE place == IF c = "dry" THEN "settle" ELSE "prepared"
             rn == [IdleRun EXCEPT !.cmd = c, !.drafts = yaml, !.state = disk]
  <2>2. Goto(p, place, rn) /\ UNCHANGED <<items, disk, seen>>
    BY <2>1 DEF Prepare
  <2>3. rn.cmd = c
    BY DEF IdleRun
  <2>4. ~Writer(place, rn)
    BY <2>3 DEF Writer
  <2> HIDE DEF place, rn
  <2>5. QED
    BY <2>2, <2>4, QuietTold
<1>2. CASE ~\E c \in Command : Prepare(p, c)
  <2>1. End(p) /\ UNCHANGED <<items, disk, seen>>
    BY <1>2 DEF LockHeldElsewhere, YamlChangedSincePlanned, Stop,
         RefuseInterruptedCreate, RefuseInto, EndDryRun, RefuseMissing, ReleaseLock
  <2>2. QED
    BY <2>1, QuietTold
<1>3. QED
  BY <1>1, <1>2

\* A command that has read no item knows what the state file tells.
LEMMA FreshTold ==
  ASSUME NEW its, NEW dk, NEW sn, NEW place \in FreshPlaces \cup {"read"}, NEW rn,
         Tells(its, rn.state, sn), Fresh(rn),
         place \in {"settle", "fill"} => rn.state.pending \subseteq dk.pending,
         place = "read" => rn.unread = HeldRefs(rn.state)
  PROVE  ToldOf(its, dk, sn, place, rn)
<1>1. \A r \in HeldRefs(rn.state) : News(rn, r) = {}
  BY DEF News, Fresh, HeldRefs
<1>2. QED
  BY <1>1 DEF ToldOf, FreshPlaces, ReadPlaces, ApplyPlaces, StepPlaces

\* With the lock, a command reads the state file again.
LEMMA TakeLockTold ==
  ASSUME Inductive, Told, NEW p \in Procs, TakeLock(p)
  PROVE  Told'
<1> DEFINE rn == [run[p] EXCEPT !.drafts = yaml, !.state = disk,
                                !.unread = HeldRefs(disk)]
           place == IF run[p].cmd = "diff" THEN "read" ELSE "settle"
<1>1. run[p] \in Run /\ Fresh(run[p])
  BY OfCommand DEF TakeLock, ShapeOK, FreshPlaces
<1>2. rn.state = disk /\ rn.unread = HeldRefs(disk) /\ Fresh(rn)
  BY <1>1 DEF Run, Fresh
<1>3. place \in {"settle", "read"} /\ Goto(p, place, rn) /\ UNCHANGED <<items, disk, seen>>
  BY DEF TakeLock
<1> HIDE DEF rn, place
<1>4. ToldOf(items, disk, seen, place, rn)
  BY <1>2, <1>3, OfTold, FreshTold DEF FreshPlaces
<1>5. QED
  BY <1>3, <1>4, QuietTold

------------------------------------------------------------------------------
(* Preflight                                                                 *)

\* What is recorded of an item as it is read leaves nothing to explain.
LEMMA RecordedTells ==
  ASSUME NEW its, NEW st \in PublishState, NEW sn, Tells(its, st, sn),
         NEW r \in Refs, NEW item \in Item,
         item.remote = its[item.id].text, item.shown = {}
  PROVE  /\ Tells(its, WithItem(st, r, item), sn)
         /\ Clean(its, item)
<1>1. /\ WithItem(st, r, item).held[r] = item
      /\ \A q \in Refs \ {r} : WithItem(st, r, item).held[q] = st.held[q]
  BY WithItemType
<1>2. Clean(its, item)
  BY DEF Clean, Unaccounted
<1>3. QED
  BY <1>1, <1>2 DEF Tells, HeldRefs, Explained, Clean

\* Dropping an entry changes no item.
LEMMA DropTells ==
  ASSUME NEW its, NEW st \in PublishState, NEW sn, Tells(its, st, sn), NEW d
  PROVE  Tells(its, Drop(st, d), sn)
BY DropType DEF Tells, HeldRefs

\* What is recorded of the item of an entry.
LEMMA AdoptedRecord ==
  ASSUME NEW d, NEW i, NEW text, NEW draft, NEW keyed
  PROVE  LET item == Adopted(d, i, text, draft, keyed)
         IN  item.remote = text /\ item.shown = {} /\ item.writing = None /\ item.id = i
BY DEF Adopted, Recorded

\* The item of an interrupted create is recorded as it is in the service.
LEMMA SettleTold ==
  ASSUME Inductive, Told, NEW p \in Procs, NEW d \in run[p].state.pending, Settle(p, d)
  PROVE  Told'
<1> DEFINE st == run[p].state
           i == PendingId(d)
           draft == run[p].drafts[d.ref]
           item == Adopted(d, i, items[i].text, draft, Keyed)
           own == There(i) /\ (d.into = None \/ items[i].stamp # None)
           st2 == IF own THEN WithItem(Drop(st, d), d.ref, item) ELSE Drop(st, d)
           rn == [run[p] EXCEPT !.state = st2]
<1>1. /\ pc[p] = "settle" /\ Goto(p, "settle", rn) /\ UNCHANGED <<items, disk, seen>>
      /\ run[p] \in Run /\ st \in PublishState /\ Fresh(run[p])
  BY OfCommand DEF Settle, ShapeOK, FreshPlaces
<1>2. SUFFICES ASSUME Writer("settle", rn)
               PROVE  ToldOf(items, disk, seen, "settle", rn)
  BY <1>1, QuietTold
<1>3. rn.state = st2 /\ rn.cmd = run[p].cmd /\ Fresh(rn)
  BY <1>1 DEF Run, Fresh
<1>4. Tells(items, st, seen) /\ st.pending \subseteq disk.pending
  BY <1>1, <1>2, <1>3, OfTold DEF Writer, ToldOf
<1>5. d.ref \in Refs /\ item \in Item /\ item.id = i
  <2>1. d \in Pending /\ i \in Ids
    BY <1>1, NoneAssumption DEF PublishState, Settle, Settleable, PendingId, Pending
  <2>2. draft \in Content \cup {None} /\ items[i].text \in Content
    BY <1>1, <2>1, OfCommand DEF Run, Drafts, Pending, RemoteItem
  <2>3. QED
    BY <2>1, <2>2, AdoptedType DEF Pending
<1>6. item.remote = items[item.id].text /\ item.shown = {}
  BY <1>5, AdoptedRecord
<1>7. /\ Drop(st, d) \in PublishState /\ Drop(st, d).pending \subseteq st.pending
      /\ Tells(items, Drop(st, d), seen)
  BY <1>1, <1>4, DropType, DropTells
<1> HIDE DEF item, own
<1>8. /\ Tells(items, WithItem(Drop(st, d), d.ref, item), seen)
      /\ WithItem(Drop(st, d), d.ref, item).pending = Drop(st, d).pending
  BY <1>5, <1>6, <1>7, RecordedTells, WithItemType
<1>9. Tells(items, st2, seen) /\ st2.pending \subseteq disk.pending
  BY <1>4, <1>7, <1>8
<1> HIDE DEF rn, st2
<1>10. QED
  BY <1>3, <1>9, FreshTold DEF FreshPlaces

\* The page was read empty; nothing is recorded yet.
LEMMA FindLeftEmptyTold ==
  ASSUME Inductive, Told, NEW p \in Procs, NEW d \in run[p].state.pending,
         FindLeftEmpty(p, d)
  PROVE  Told'
<1> DEFINE rn == [run[p] EXCEPT !.id = PendingId(d)]
<1>1. /\ pc[p] = "settle" /\ Goto(p, "fill", rn) /\ UNCHANGED <<items, disk, seen>>
      /\ run[p] \in Run /\ Fresh(run[p])
  BY OfCommand DEF FindLeftEmpty, ShapeOK, FreshPlaces
<1>2. rn.state = run[p].state /\ rn.cmd = run[p].cmd /\ Fresh(rn)
  BY <1>1 DEF Run, Fresh
<1> HIDE DEF rn
<1>3. ASSUME Writer("fill", rn)
      PROVE  ToldOf(items, disk, seen, "fill", rn)
  <2>1. Tells(items, rn.state, seen) /\ rn.state.pending \subseteq disk.pending
    BY <1>1, <1>2, <1>3, OfTold DEF Writer, ToldOf
  <2>2. QED
    BY <1>2, <2>1, FreshTold DEF FreshPlaces
<1>4. QED
  BY <1>1, <1>3, QuietTold

\* The page of an interrupted create is held by no ref until it is recorded.
LEMMA FillUnheld ==
  ASSUME Inductive, Told, NEW p \in Procs, NEW d \in run[p].state.pending,
         pc[p] = "fill", PendingId(d) = run[p].id, There(run[p].id),
         Writer(pc[p], run[p])
  PROVE  /\ \A q \in HeldRefs(disk) : disk.held[q].id # run[p].id
         /\ \A q \in HeldRefs(run[p].state) : run[p].state.held[q].id # run[p].id
<1> DEFINE st == run[p].state
           i == run[p].id
<1>1. /\ d.ref \in Refs /\ d.into = None /\ i \in Ids /\ d.id = i
      /\ st \in PublishState /\ disk \in PublishState
      /\ StateOK(items, st) /\ StateOK(items, disk) /\ ServiceOK(items)
  BY AtFill, OfCommand DEF PendingId
<1>2. d \in disk.pending
  BY OfTold DEF ToldOf
<1>3. Alive(items, i) /\ i # None
  BY <1>1, NoneAssumption DEF There, Alive
<1> HIDE DEF st, i
<1>4. \A s \in {st, disk} : NotThere(items, s, d.ref) /\ items[i].made = d.ref
  BY <1>1, <1>2, <1>3 DEF StateOK, PendingStandsForItsRef, st
<1>5. QED
  BY <1>1, <1>3, <1>4, Unheld DEF st, i

\* The page is filled and recorded as it then is.
LEMMA FillTold ==
  ASSUME Inductive, Told, NEW p \in Procs, NEW d \in run[p].state.pending, Fill(p, d),
         run[p].cmd = "dry" => items' = items
  PROVE  Told'
<1> DEFINE st == run[p].state
           i == run[p].id
           draft == run[p].drafts[d.ref]
           filled == Write(items[i], d.ref, draft, Parts)
           item == Adopted(d, i, filled.text, draft, TRUE)
           st2 == WithItem(Drop(st, d), d.ref, item)
           rn == [run[p] EXCEPT !.state = st2, !.id = None]
<1>1. /\ pc[p] = "fill" /\ Goto(p, "settle", rn) /\ UNCHANGED <<disk, seen>>
      /\ PendingId(d) = i /\ There(i) /\ items' = [items EXCEPT ![i] = filled]
      /\ run[p] \in Run /\ st \in PublishState /\ disk \in PublishState /\ Fresh(run[p])
      /\ items \in [Ids -> RemoteItem]
  BY OfCommand DEF Fill, ShapeOK, FreshPlaces
<1>2. rn.state = st2 /\ rn.cmd = run[p].cmd /\ Fresh(rn)
  BY <1>1 DEF Run, Fresh
<1>3. CASE run[p].cmd = "dry"
  <2>1. ~Writer("settle", rn)
    BY <1>2, <1>3 DEF Writer
  <2> HIDE DEF rn
  <2>2. QED
    BY <1>1, <1>3, <2>1, QuietTold
<1>4. CASE run[p].cmd # "dry"
  <2>1. Writer(pc[p], run[p])
    BY <1>1, <1>4 DEF Writer
  <2>2. Tells(items, st, seen) /\ Tells(items, disk, seen) /\ st.pending \subseteq disk.pending
    BY <1>1, <2>1, OfTold DEF ToldOf
  <2>3. /\ \A q \in HeldRefs(disk) : items'[disk.held[q].id] = items[disk.held[q].id]
        /\ \A q \in HeldRefs(st) : items'[st.held[q].id] = items[st.held[q].id]
    BY <1>1, <2>1, FillUnheld
  <2> HIDE DEF filled, item, st2, rn
  <2>4. Tells(items', disk', seen') /\ Tells(items', st, seen)
    <3>1. st \in PublishState /\ disk \in PublishState /\ disk' = disk /\ seen' = seen
      BY <1>1
    <3> HIDE DEF st
    <3>2. Tells(items', disk, seen)
      BY <2>2, <2>3, <3>1, StillTells
    <3>3. Tells(items', st, seen)
      BY <2>2, <2>3, <3>1, StillTells
    <3>4. QED
      BY <3>1, <3>2, <3>3
  <2>5. d \in Pending /\ d.ref \in Refs /\ d.into = None /\ i \in Ids /\ draft \in Content
        /\ items[i] \in RemoteItem
    BY <1>1, AtFill
  <2>6. filled.text \in Content /\ items'[i] = filled
    BY <1>1, <2>5, WriteKeepsLife DEF filled
  <2>7. item \in Item /\ item.id = i
    BY <2>5, <2>6, FilledType, Zenon DEF item
  <2>8. item.remote = items'[item.id].text /\ item.shown = {}
    BY <2>6, <2>7 DEF item, Adopted, Recorded
  <2>9. /\ Drop(st, d) \in PublishState /\ Drop(st, d).pending \subseteq st.pending
        /\ Tells(items', Drop(st, d), seen)
    BY <1>1, <2>4, DropType, DropTells
  <2>10. Tells(items', st2, seen) /\ st2.pending \subseteq disk.pending
    BY <2>2, <2>5, <2>7, <2>9, <2>8, RecordedTells, WithItemType DEF st2
  <2>11. ToldOf(items', disk', seen', "settle", rn)
    BY <1>1, <1>2, <2>10, FreshTold DEF FreshPlaces
  <2>12. QED
    BY <1>1, <2>1, <2>4, <2>11, ToldStep
<1>5. QED
  BY <1>3, <1>4

\* The fill is refused, or part of it lands in a page that no ref holds.
LEMMA FillFailsTold ==
  ASSUME Inductive, Told, NEW p \in Procs, NEW d \in run[p].state.pending,
         FillFails(p, d), run[p].cmd = "dry" => items' = items
  PROVE  Told'
<1> DEFINE i == run[p].id
<1>1. /\ pc[p] = "fill" /\ End(p) /\ UNCHANGED <<disk, seen>> /\ PendingId(d) = i
      /\ items \in [Ids -> RemoteItem] /\ disk \in PublishState
  BY OfCommand DEF FillFails
<1>2. CASE items' = items
  BY <1>1, <1>2, QuietTold
<1>3. CASE items' # items
  <2>1. PICK ps \in SUBSET Parts :
          items' = [items EXCEPT ![i] = Write(@, d.ref, run[p].drafts[d.ref], ps)]
    BY <1>3 DEF FillFails
  <2>2. There(i)
    BY <1>3 DEF FillFails
  <2>3. Writer(pc[p], run[p])
    BY <1>1, <1>3 DEF Writer
  <2>4. \A q \in HeldRefs(disk) : items'[disk.held[q].id] = items[disk.held[q].id]
    BY <1>1, <2>1, <2>2, <2>3, FillUnheld
  <2>5. Tells(items', disk', seen')
    BY <1>1, <2>4, OfTold, StillTells
  <2>6. QED
    BY <1>1, <2>3, <2>5, EndTold
<1>4. QED
  BY <1>2, <1>3

\* Everything is settled: every item is still to be read.
LEMMA AllSettledTold ==
  ASSUME Inductive, Told, NEW p \in Procs, AllSettled(p)
  PROVE  Told'
<1> DEFINE rn == [run[p] EXCEPT !.unread = HeldRefs(run[p].state)]
<1>1. /\ pc[p] = "settle" /\ Goto(p, "read", rn) /\ UNCHANGED <<items, disk, seen>>
      /\ run[p] \in Run /\ Fresh(run[p])
  BY OfCommand DEF AllSettled, ShapeOK, FreshPlaces
<1>2. /\ rn.state = run[p].state /\ rn.cmd = run[p].cmd /\ Fresh(rn)
      /\ rn.unread = HeldRefs(rn.state)
  BY <1>1 DEF Run, Fresh
<1> HIDE DEF rn
<1>3. ASSUME Writer("read", rn)
      PROVE  ToldOf(items, disk, seen, "read", rn)
  BY <1>1, <1>2, <1>3, OfTold, FreshTold DEF Writer
<1>4. QED
  BY <1>1, <1>3, QuietTold

------------------------------------------------------------------------------
(* Reading an item                                                           *)

\* What of the differences was settled is in the saved copy, and no more.
LEMMA SettledRemote ==
  ASSUME NEW item \in Item, NEW text \in Content, NEW differ \in SUBSET Parts,
         differ = Differing(item.remote, text)
  PROVE  LET settled == Settled(item, text, differ)
             landed == Landed(item, text, differ)
         IN  /\ settled.shown = item.shown /\ settled.retiring = item.retiring
             /\ \A x \in Parts : settled.remote[x] # text[x] =>
                                   x \in differ \ landed
<1>1. CASE item.writing = None
  BY <1>1 DEF Settled, Landed, Differing
<1>2. CASE item.writing # None
  <2> DEFINE landed == Landed(item, text, differ)
             rendered == WithParts(item.rendered, item.writing.rendered, landed)
             remote == WithParts(item.remote, text, landed)
  <2>1. Settled(item, text, differ) =
          IF differ \subseteq landed
          THEN [item EXCEPT !.rendered = rendered, !.remote = text, !.writing = None]
          ELSE [item EXCEPT !.rendered = rendered, !.remote = remote,
                  !.writing = IF landed = {} THEN item.writing
                              ELSE [item.writing EXCEPT !.parts = landed]]
    BY <1>2 DEF Settled
  <2>2. \A x \in Parts : remote[x] = IF x \in landed THEN text[x] ELSE item.remote[x]
    BY DEF WithParts
  <2>3. \A x \in Parts : remote[x] # text[x] => x \in differ \ landed
    BY <2>2 DEF Differing
  <2> HIDE DEF landed, rendered, remote
  <2>4. QED
    BY <2>1, <2>3 DEF Item, landed
<1>3. QED
  BY <1>1, <1>2

\* An item that is read has nothing left to explain, and what was edited of it is
\* what the saved copy does not have.
LEMMA FoundTells ==
  ASSUME NEW its \in [Ids -> RemoteItem], NEW item \in Item,
         \A x \in Parts : Explained(its, item, x)
  PROVE  LET found == Found(item, its[item.id])
         IN  found.item # None =>
               /\ found.item.id = item.id /\ found.item.shown = item.shown
               /\ \A x \in Parts : Explained(its, found.item, x)
               /\ ~item.retiring => Clean(its, found.item)
               /\ ~found.item.retiring /\ found.read # None =>
                    \A x \in Parts : found.read[x] # found.item.remote[x] =>
                                       x \in found.edited
<1> DEFINE remote == its[item.id]
           text == remote.text
           differ == Differing(item.remote, text)
           landed == Landed(item, text, differ)
           settled == Settled(item, text, differ)
           found == Found(item, remote)
<1>1. remote \in RemoteItem /\ text \in Content /\ differ \in SUBSET Parts
  BY DEF Item, RemoteItem, Differing
<1>2. CASE RetiredAlready(item, remote)
  BY <1>2 DEF Found
<1>3. CASE ~RetiredAlready(item, remote) /\ remote.life # "there"
  <2>1. found = [item |-> item, read |-> None, edited |-> {}]
    BY <1>3 DEF Found
  <2>2. Clean(its, item)
    BY <1>3 DEF Clean, Unaccounted, Alive
  <2>3. QED
    BY <2>1, <2>2
<1>4. CASE ~RetiredAlready(item, remote) /\ remote.life = "there" /\ item.retiring
  <2>1. found = [item |-> item, read |-> text, edited |-> {}]
    BY <1>4 DEF Found
  <2>2. QED
    BY <1>4, <2>1
<1>5. CASE ~RetiredAlready(item, remote) /\ remote.life = "there" /\ ~item.retiring
  <2>1. found = [item |-> settled, read |-> text, edited |-> differ \ landed]
    BY <1>5 DEF Found
  <2>2. /\ settled.shown = item.shown /\ settled.retiring = item.retiring
        /\ \A x \in Parts : settled.remote[x] # text[x] => x \in differ \ landed
    BY <1>1, SettledRemote
  <2>3. settled.id = item.id /\ settled.origin = item.origin
    BY <1>1, SettledType
  <2> HIDE DEF settled
  <2>4. \A x \in Parts : ~Unaccounted(its, settled, x)
    <3>1. SUFFICES ASSUME NEW x \in Parts, Unaccounted(its, settled, x) PROVE FALSE
      OBVIOUS
    <3>2. x \in differ /\ x \notin landed
      BY <2>2, <2>3, <3>1 DEF Unaccounted
    <3>3. Unaccounted(its, item, x)
      BY <2>3, <3>1, <3>2 DEF Unaccounted, Differing
    <3>4. x \in landed
      BY <3>2, <3>3 DEF Explained, Landed
    <3>5. QED
      BY <3>2, <3>4
  <2> HIDE DEF differ, landed, text
  <2>5. QED
    BY <2>1, <2>2, <2>3, <2>4 DEF Clean, Explained
<1>6. QED
  BY <1>2, <1>3, <1>4, <1>5

\* One item is read: it is settled, and its edits are known.
LEMMA OneReadTold ==
  ASSUME NEW its, NEW dk, NEW sn, NEW rn \in Run, NEW r \in rn.unread,
         ToldOf(its, dk, sn, "read", rn), Tells(its, rn.state, sn), r \in Refs,
         rn.state.held[r] # None,
         NEW new \in Item \cup {None}, NEW read \in Content \cup {None},
         NEW missing \in SUBSET Refs, NEW edited \in SUBSET Parts,
         new # None =>
           /\ new.id = rn.state.held[r].id /\ new.shown = rn.state.held[r].shown
           /\ \A x \in Parts : Explained(its, new, x)
           /\ rn.drafts[r] # None => Clean(its, new)
           /\ ~new.retiring /\ read # None =>
                \A x \in Parts : read[x] # new.remote[x] => x \in edited
  PROVE  ToldOf(its, dk, sn, "read",
                [rn EXCEPT !.unread = @ \ {r}, !.state = WithItem(rn.state, r, new),
                           !.read[r] = read, !.missing = missing,
                           !.edited[r] = edited])
<1> DEFINE st == rn.state
           st2 == WithItem(st, r, new)
           rn2 == [rn EXCEPT !.unread = @ \ {r}, !.state = st2, !.read[r] = read,
                             !.missing = missing, !.edited[r] = edited]
<1>1. /\ st2.held[r] = new /\ \A q \in Refs \ {r} : st2.held[q] = st.held[q]
  BY WithItemType DEF Run
<1>2. /\ rn2.state = st2 /\ rn2.unread = rn.unread \ {r} /\ rn2.drafts = rn.drafts
      /\ rn2.read[r] = read /\ rn2.edited[r] = edited
      /\ \A q \in Refs \ {r} : rn2.read[q] = rn.read[q] /\ rn2.edited[q] = rn.edited[q]
  BY DEF Run
<1> HIDE DEF rn2, st2
<1>3. Tells(its, st2, sn)
  <2>1. SUFFICES ASSUME NEW q \in HeldRefs(st2)
                 PROVE  /\ \A x \in Parts : Explained(its, st2.held[q], x)
                        /\ \A t \in st2.held[q].shown :
                             <<st2.held[q].id, t[1], t[2]>> \in sn
    BY DEF Tells
  <2>2. CASE q = r
    BY <1>1, <2>1, <2>2 DEF Tells, HeldRefs
  <2>3. CASE q # r
    BY <1>1, <2>1, <2>3 DEF Tells, HeldRefs
  <2>4. QED
    BY <2>2, <2>3
<1>4. ASSUME NEW q \in HeldRefs(st2)
      PROVE  /\ q \in Drafted(rn2) \ rn2.unread => Clean(its, st2.held[q])
             /\ News(rn2, q) \subseteq rn2.edited[q]
  <2>1. CASE q = r
    <3>1. new # None
      BY <1>1, <1>4, <2>1 DEF HeldRefs
    <3>2. q \in Drafted(rn2) => Clean(its, st2.held[q])
      BY <1>1, <1>2, <2>1, <3>1 DEF Drafted
    <3>3. News(rn2, q) \subseteq rn2.edited[q]
      BY <1>1, <1>2, <2>1, <3>1 DEF News
    <3>4. QED
      BY <3>2, <3>3
  <2>2. CASE q # r
    <3>1. q \in HeldRefs(st) /\ q \in Refs
      BY <1>1, <1>4, <2>2 DEF HeldRefs
    <3>2. /\ q \in Drafted(rn) \ rn.unread => Clean(its, st.held[q])
          /\ News(rn, q) \subseteq rn.edited[q]
      BY <3>1 DEF ToldOf, ReadPlaces
    <3>3. QED
      BY <1>1, <1>2, <2>2, <3>1, <3>2 DEF Drafted, News
  <2>3. QED
    BY <2>1, <2>2
<1>5. ToldOf(its, dk, sn, "read", rn2)
  BY <1>2, <1>3, <1>4 DEF ToldOf, ReadPlaces, ApplyPlaces, StepPlaces
<1>6. QED
  BY <1>5 DEF rn2, st2

\* A command reads an item of the state file.
LEMMA ReadItemTold ==
  ASSUME Inductive, Told, NEW p \in Procs, NEW r \in Refs, ReadItem(p, r)
  PROVE  Told'
<1> DEFINE st == run[p].state
           old == st.held[r]
           item == IF run[p].drafts[r] # None THEN [old EXCEPT !.retiring = FALSE]
                                              ELSE old
           found == Found(item, items[item.id])
           missing == IF found.item # None /\ found.read = None
                      THEN run[p].missing \cup {r} ELSE run[p].missing
           rn == [run[p] EXCEPT !.unread = @ \ {r},
                    !.state = WithItem(run[p].state, r, found.item),
                    !.read[r] = found.read, !.missing = missing,
                    !.edited[r] = found.edited]
<1>1. /\ pc[p] = "read" /\ r \in run[p].unread /\ Goto(p, "read", rn)
      /\ UNCHANGED <<items, disk, seen>> /\ items \in [Ids -> RemoteItem]
      /\ run[p] \in Run /\ st \in PublishState /\ ReadsOK(run[p])
  BY OfCommand, Zenon DEF ReadItem, ShapeOK, ReadPlaces
<1>2. old # None /\ old \in Item /\ run[p].missing \in SUBSET Refs
  BY <1>1, Zenon DEF ReadsOK, PublishState, Run
<1>3. rn.cmd = run[p].cmd
  BY <1>1 DEF Run
<1>4. SUFFICES ASSUME Writer("read", run[p])
               PROVE  ToldOf(items, disk, seen, "read", rn)
  <2> HIDE DEF rn
  <2>1. Writer("read", rn) => Writer("read", run[p])
    BY <1>3, SMTT(20) DEF Writer
  <2>2. QED
    BY <1>1, <2>1, QuietTold
<1>5. ToldOf(items, disk, seen, "read", run[p]) /\ Tells(items, st, seen)
  BY <1>1, <1>4, OfTold
<1>6. /\ item \in Item /\ item.id = old.id /\ item.origin = old.origin
      /\ item.remote = old.remote /\ item.writing = old.writing /\ item.shown = old.shown
      /\ run[p].drafts[r] # None => ~item.retiring
  BY <1>2, Zenon DEF Item
<1> HIDE DEF item
<1>7. \A x \in Parts : Explained(items, item, x)
  BY <1>1, <1>2, <1>5, <1>6, Zenon DEF Tells, HeldRefs, Explained, Unaccounted
<1>8. /\ found.item \in Item \cup {None} /\ found.read \in Content \cup {None}
      /\ found.edited \in SUBSET Parts
  <2>1. items[item.id] \in RemoteItem
    BY <1>1, <1>6, Zenon DEF Item
  <2>2. QED
    BY <1>6, <2>1, FoundType
<1>9. found.item # None =>
        /\ found.item.id = old.id /\ found.item.shown = old.shown
        /\ \A x \in Parts : Explained(items, found.item, x)
        /\ run[p].drafts[r] # None => Clean(items, found.item)
        /\ ~found.item.retiring /\ found.read # None =>
             \A x \in Parts : found.read[x] # found.item.remote[x] => x \in found.edited
  BY <1>1, <1>6, <1>7, FoundTells, Zenon
<1>10. missing \in SUBSET Refs
  BY <1>2
<1> HIDE DEF found, missing
<1>11. QED
  <2> DEFINE new == found.item
             read == found.read
             edited == found.edited
  <2>1. /\ new \in Item \cup {None} /\ read \in Content \cup {None}
        /\ edited \in SUBSET Parts
        /\ new # None =>
             /\ new.id = old.id /\ new.shown = old.shown
             /\ \A x \in Parts : Explained(items, new, x)
             /\ run[p].drafts[r] # None => Clean(items, new)
             /\ ~new.retiring /\ read # None =>
                  \A x \in Parts : read[x] # new.remote[x] => x \in edited
    BY <1>8, <1>9
  <2> HIDE DEF new, read, edited
  <2>2. ToldOf(items, disk, seen, "read",
                [run[p] EXCEPT !.unread = @ \ {r},
                    !.state = WithItem(run[p].state, r, new),
                    !.read[r] = read, !.missing = missing, !.edited[r] = edited])
    BY <1>1, <1>2, <1>5, <1>10, <2>1, OneReadTold
  <2>3. QED
    BY <2>2 DEF new, read, edited

\* All items are read.
LEMMA AllReadTold ==
  ASSUME Inductive, Told, NEW p \in Procs, AllRead(p)
  PROVE  Told'
<1> DEFINE place == IF run[p].cmd # "diff" /\ WritesInto(run[p]) THEN "into" ELSE "decide"
<1>1. /\ pc[p] = "read" /\ Goto(p, place, run[p]) /\ UNCHANGED <<items, disk, seen>>
      /\ place \in {"into", "decide"}
  BY DEF AllRead
<1> HIDE DEF place
<1>2. ASSUME Writer(place, run[p])
      PROVE  ToldOf(items, disk, seen, place, run[p])
  <2>1. ToldOf(items, disk, seen, "read", run[p])
    BY <1>1, <1>2, OfTold DEF Writer
  <2>2. QED
    BY <1>1, <2>1 DEF ToldOf, ReadPlaces, ApplyPlaces, StepPlaces
<1>3. QED
  BY <1>1, <1>2, QuietTold

\* The page to write into is read; no ref holds it.
LEMMA ReadIntoTold ==
  ASSUME Inductive, Told, NEW p \in Procs, ReadInto(p)
  PROVE  Told'
<1> DEFINE text == items[Into].text
           rn == [run[p] EXCEPT !.read[Document] = text]
<1>1. /\ pc[p] = "into" /\ Goto(p, "decide", rn) /\ UNCHANGED <<items, disk, seen>>
      /\ run[p] \in Run /\ run[p].state.held[Document] = None
  BY OfCommand DEF ReadInto, ShapeOK
<1> HIDE DEF text
<1>2. /\ rn.state = run[p].state /\ rn.cmd = run[p].cmd /\ rn.drafts = run[p].drafts
      /\ rn.unread = run[p].unread /\ rn.edited = run[p].edited
      /\ \A q \in Refs \ {Document} : rn.read[q] = run[p].read[q]
  BY <1>1 DEF Run
<1> HIDE DEF rn
<1>3. ASSUME Writer("decide", rn)
      PROVE  ToldOf(items, disk, seen, "decide", rn)
  <2>1. ToldOf(items, disk, seen, "into", run[p])
    BY <1>1, <1>2, <1>3, OfTold DEF Writer
  <2>2. \A q \in HeldRefs(rn.state) : News(rn, q) = News(run[p], q)
    BY <1>1, <1>2 DEF News, HeldRefs
  <2>3. Drafted(rn) = Drafted(run[p])
    BY <1>2 DEF Drafted
  <2>4. QED
    BY <1>2, <2>1, <2>2, <2>3 DEF ToldOf, ReadPlaces, ApplyPlaces, StepPlaces
<1>4. QED
  BY <1>1, <1>3, QuietTold

------------------------------------------------------------------------------
(* The decision                                                              *)

\* What a diff shows counts as shown, and what it shows of an item replaces what
\* was shown of that item before.
LEMMA ShowEditsTold ==
  ASSUME Inductive, Told, NEW p \in Procs,
         RefuseEdited(p) \/ RefuseUnseen(p) \/ ShowDiff(p)
  PROVE  Told'
<1> DEFINE st == run[p].state
<1>1. PICK rs \in SUBSET EditedRefs(run[p]) : ShowEdits(p, rs)
  BY DEF RefuseEdited, RefuseUnseen, ShowDiff, Unseen
<1> DEFINE st2 == WithShown(run[p], rs)
<1>2. pc[p] = "decide" /\ Writer(pc[p], run[p])
  BY DEF RefuseEdited, RefuseUnseen, ShowDiff, Writer
<1>3. /\ run[p] \in Run /\ ReadsOK(run[p]) /\ StateOK(items, st) /\ ServiceOK(items)
      /\ st \in PublishState /\ Tells(items, st, seen)
  BY <1>2, OfCommand, OfTold DEF ShapeOK, ReadPlaces
<1>4. disk' = st2 /\ ShowsTo(run[p], rs) /\ End(p) /\ UNCHANGED items
  BY <1>1 DEF ShowEdits
<1>5. st2 \in PublishState /\ SameHeld(st, st2)
  BY <1>3, WithShownType
<1>6. ASSUME NEW r \in HeldRefs(st)
      PROVE  /\ st2.held[r].id = st.held[r].id /\ st2.held[r].origin = st.held[r].origin
             /\ st2.held[r].remote = st.held[r].remote
             /\ st2.held[r].writing = st.held[r].writing
             /\ st2.held[r].shown = IF r \in rs THEN Token(run[p], r)
                                                ELSE st.held[r].shown
  <2>1. r \in Refs /\ st.held[r] \in Item
    BY <1>3 DEF HeldRefs, PublishState
  <2>2. st2.held[r] = IF r \in rs THEN [st.held[r] EXCEPT !.shown = Token(run[p], r)]
                                  ELSE st.held[r]
    BY <1>3, <2>1 DEF WithShown, PublishState
  <2> HIDE DEF st2, st
  <2>3. QED
    BY <2>1, <2>2 DEF Item
<1> HIDE DEF st2
<1>7. HeldRefs(st2) = HeldRefs(st)
  BY <1>5 DEF SameHeld, HeldRefs
<1>8. ASSUME NEW r \in HeldRefs(st), NEW t \in st2.held[r].shown
      PROVE  <<st.held[r].id, t[1], t[2]>> \in seen'
  <2>1. CASE r \in rs
    <3>1. PICK x \in run[p].edited[r] : t = <<x, run[p].read[r][x]>>
      BY <1>6, <1>8, <2>1, Zenon DEF Token
    <3>2. t[1] = x /\ t[2] = run[p].read[r][x]
      BY <3>1
    <3>3. QED
      BY <1>4, <2>1, <3>2 DEF ShowsTo
  <2>2. CASE r \notin rs
    <3>1. <<st.held[r].id, t[1], t[2]>> \in seen
      BY <1>3, <1>6, <1>8, <2>2 DEF Tells
    <3>2. ASSUME NEW q \in rs, st.held[q].id = st.held[r].id PROVE FALSE
      <4>1. q \in HeldRefs(st)
        BY <1>3 DEF EditedRefs, ReadsOK, HeldRefs
      <4>2. q = r
        BY <1>3, <3>2, <4>1, HeldApart
      <4>3. QED
        BY <2>2, <4>2
    <3>3. st.held[r].id \notin {st.held[q].id : q \in rs}
      BY <3>2
    <3>4. QED
      BY <1>4, <3>1, <3>3 DEF ShowsTo
  <2>3. QED
    BY <2>1, <2>2
<1>9. Tells(items, st2, seen')
  <2>1. \A r \in HeldRefs(st), x \in Parts : Explained(items, st2.held[r], x)
    <3>1. SUFFICES ASSUME NEW r \in HeldRefs(st), NEW x \in Parts
                   PROVE  Explained(items, st2.held[r], x)
      OBVIOUS
    <3>2. Explained(items, st.held[r], x)
      BY <1>3 DEF Tells
    <3>3. QED
      BY <1>6, <3>2 DEF Explained, Unaccounted
  <2>2. \A r \in HeldRefs(st) : \A t \in st2.held[r].shown :
          <<st2.held[r].id, t[1], t[2]>> \in seen'
    BY <1>6, <1>8
  <2>3. QED
    BY <1>7, <2>1, <2>2 DEF Tells
<1>10. QED
  BY <1>2, <1>4, <1>9, EndTold

\* The page the target names is gone: what was settled is saved.
LEMMA RefuseMissingIntoTold ==
  ASSUME Inductive, Told, NEW p \in Procs, RefuseMissingInto(p)
  PROVE  Told'
<1>1. /\ Writer(pc[p], run[p]) /\ End(p)
      /\ disk' = run[p].state /\ UNCHANGED <<items, seen>>
  BY DEF RefuseMissingInto, MayWrite, Writer
<1>2. QED
  BY <1>1, OfTold, EndTold

\* A command that may write was either told of no edit, or its overwrite of each
\* was asked for after a diff that showed it.
LEMMA MakePlanTold ==
  ASSUME Inductive, Told, NEW p \in Procs, MakePlan(p)
  PROVE  Told'
<1> DEFINE rn == [run[p] EXCEPT !.todo = Plan(run[p])]
           st == run[p].state
<1>1. /\ pc[p] = "decide" /\ Writer(pc[p], run[p]) /\ MayWrite(run[p])
      /\ disk' = st /\ Goto(p, "apply", rn) /\ UNCHANGED <<items, seen>>
  BY DEF MakePlan, MayWrite, Writer
<1>2. /\ run[p] \in Run /\ run[p].unread = {} /\ Tells(items, st, seen)
      /\ ToldOf(items, disk, seen, "decide", run[p])
  BY <1>1, OfCommand, OfTold DEF ShapeOK
<1>3. rn.state = st /\ rn.drafts = run[p].drafts /\ rn.read = run[p].read
  BY <1>2 DEF Run
<1> HIDE DEF rn
<1>4. ASSUME NEW r \in HeldRefs(st)
      PROVE  /\ r \in Drafted(rn) => Clean(items, st.held[r])
             /\ \A x \in News(rn, r) : <<st.held[r].id, x, rn.read[r][x]>> \in seen
  <2>1. /\ r \in Drafted(rn) => Clean(items, st.held[r])
        /\ News(rn, r) \subseteq run[p].edited[r]
    BY <1>2, <1>3 DEF ToldOf, ReadPlaces, Drafted, News
  <2>2. ASSUME NEW x \in News(rn, r)
        PROVE  <<st.held[r].id, x, rn.read[r][x]>> \in seen
    <3>1. x \in run[p].edited[r] /\ r \in EditedRefs(run[p])
      BY <2>1 DEF EditedRefs, HeldRefs
    <3>2. st.held[r].shown = Token(run[p], r)
      BY <1>1, <3>1 DEF MayWrite, Unseen
    <3>3. <<x, run[p].read[r][x]>> \in st.held[r].shown
      BY <3>1, <3>2 DEF Token
    <3>4. QED
      BY <1>2, <1>3, <3>3 DEF Tells
  <2>3. QED
    BY <2>1, <2>2
<1>5. ToldOf(items', disk', seen', "apply", rn)
  BY <1>1, <1>2, <1>3, <1>4 DEF ToldOf, ReadPlaces, ApplyPlaces, StepPlaces
<1>6. QED
  BY <1>1, <1>2, <1>5, ToldStep

------------------------------------------------------------------------------
(* The applier                                                               *)

\* What a command that applies is told of one ref.
OneTold(its, sn, rn, r) ==
  LET item == rn.state.held[r]
  IN  item # None =>
        /\ \A x \in Parts : Explained(its, item, x)
        /\ \A t \in item.shown : <<item.id, t[1], t[2]>> \in sn
        /\ r \in Drafted(rn) => Clean(its, item)
        /\ \A x \in News(rn, r) : <<item.id, x, rn.read[r][x]>> \in sn

\* A command that applies is told of every ref, and the state file is its own.
LEMMA AllTold ==
  ASSUME Inductive, Told, NEW p \in Procs, pc[p] \in ApplyPlaces
  PROVE  /\ disk = run[p].state
         /\ \A r \in Refs : OneTold(items, seen, run[p], r)
         /\ Tells(items, disk, seen)
<1>1. ToldOf(items, disk, seen, pc[p], run[p]) /\ Tells(items, run[p].state, seen)
  BY OfTold, AtApply
<1>2. ASSUME NEW r \in Refs PROVE OneTold(items, seen, run[p], r)
  BY <1>1 DEF ToldOf, OneTold, Tells, HeldRefs
<1>3. QED
  BY <1>1, <1>2, OfTold

\* The item of one ref is written, and with it its record.
LEMMA TellsButOne ==
  ASSUME NEW its, NEW its2, NEW st, NEW st2, NEW sn, NEW r, Tells(its, st, sn),
         \A q \in Refs \ {r} : st2.held[q] = st.held[q],
         \A q \in HeldRefs(st) \ {r} : its2[st.held[q].id] = its[st.held[q].id],
         st2.held[r] # None =>
           /\ \A x \in Parts : Explained(its2, st2.held[r], x)
           /\ \A t \in st2.held[r].shown : <<st2.held[r].id, t[1], t[2]>> \in sn
  PROVE  Tells(its2, st2, sn)
<1>1. SUFFICES ASSUME NEW q \in HeldRefs(st2)
               PROVE  /\ \A x \in Parts : Explained(its2, st2.held[q], x)
                      /\ \A t \in st2.held[q].shown : <<st2.held[q].id, t[1], t[2]>> \in sn
  BY DEF Tells
<1>2. CASE q = r
  BY <1>2 DEF HeldRefs
<1>3. CASE q # r
  <2>1. /\ q \in HeldRefs(st) /\ st2.held[q] = st.held[q]
        /\ its2[st.held[q].id] = its[st.held[q].id]
    BY <1>1, <1>3 DEF HeldRefs
  <2>2. QED
    BY <2>1 DEF Tells, Explained, Unaccounted, Alive
<1>4. QED
  BY <1>2, <1>3

\* A step of the applier is about one ref.
LEMMA ApplyTold ==
  ASSUME Inductive, Told, NEW p \in Procs, pc[p] \in ApplyPlaces,
         NEW place \in ApplyPlaces, NEW rn, Goto(p, place, rn), NEW r \in Refs,
         disk' = rn.state, seen' = seen, rn.drafts = run[p].drafts,
         \A q \in Refs \ {r} : /\ rn.state.held[q] = run[p].state.held[q]
                               /\ rn.read[q] = run[p].read[q],
         \A q \in HeldRefs(disk) \ {r} : items'[disk.held[q].id] = items[disk.held[q].id],
         OneTold(items', seen, rn, r),
         place = "writing" => NoteOK(rn),
         place = "retiring" => rn.state.held[rn.step.ref].retiring
  PROVE  Told'
<1>1. /\ disk = run[p].state /\ Tells(items, disk, seen) /\ Writer(pc[p], run[p])
      /\ \A q \in Refs : OneTold(items, seen, run[p], q)
  BY AllTold, AtApply
<1>2. ASSUME NEW q \in Refs PROVE OneTold(items', seen, rn, q)
  <2>1. CASE q = r
    BY <2>1, SMTT(20)
  <2>2. CASE q # r
    <3>1. SUFFICES ASSUME rn.state.held[q] # None PROVE OneTold(items', seen, rn, q)
      BY DEF OneTold
    <3>2. /\ rn.state.held[q] = disk.held[q] /\ rn.read[q] = run[p].read[q]
          /\ items'[disk.held[q].id] = items[disk.held[q].id]
      BY <1>1, <2>2, <3>1 DEF HeldRefs
    <3>3. OneTold(items, seen, run[p], q)
      BY <1>1
    <3>4. News(rn, q) = News(run[p], q)
      BY <1>1, <3>2 DEF News
    <3>5. \A x \in Parts : Explained(items, disk.held[q], x) => Explained(items', disk.held[q], x)
      BY <3>2 DEF Explained, Unaccounted, Alive
    <3>6. Clean(items, disk.held[q]) => Clean(items', disk.held[q])
      BY <3>2 DEF Clean, Unaccounted, Alive
    <3>7. Drafted(rn) = Drafted(run[p])
      BY DEF Drafted
    <3>8. QED
      BY <1>1, <3>2, <3>3, <3>4, <3>5, <3>6, <3>7 DEF OneTold
  <2>3. QED
    BY <2>1, <2>2
<1>3. Tells(items', disk', seen')
  BY <1>2 DEF Tells, OneTold, HeldRefs
<1>4. ToldOf(items', disk', seen', place, rn)
  <2>1. place \notin FreshPlaces \cup ReadPlaces
    BY DEF FreshPlaces, ReadPlaces, ApplyPlaces, StepPlaces
  <2>2. \A q \in HeldRefs(rn.state) :
          /\ q \in Drafted(rn) => Clean(items', rn.state.held[q])
          /\ \A x \in News(rn, q) : <<rn.state.held[q].id, x, rn.read[q][x]>> \in seen'
    BY <1>2 DEF OneTold, HeldRefs
  <2>3. QED
    BY <1>3, <2>1, <2>2 DEF ToldOf, FreshPlaces
<1>5. QED
  BY <1>1, <1>3, <1>4, ToldStep

\* A step ends the command; what it wrote is in the item of one ref.
LEMMA ApplyEndTold ==
  ASSUME Inductive, Told, NEW p \in Procs, pc[p] \in ApplyPlaces, End(p), NEW r \in Refs,
         seen' = seen, \A q \in Refs \ {r} : disk'.held[q] = disk.held[q],
         \A q \in HeldRefs(disk) \ {r} : items'[disk.held[q].id] = items[disk.held[q].id],
         disk'.held[r] # None =>
           /\ \A x \in Parts : Explained(items', disk'.held[r], x)
           /\ \A t \in disk'.held[r].shown : <<disk'.held[r].id, t[1], t[2]>> \in seen
  PROVE  Told'
<1>1. Tells(items, disk, seen) /\ Writer(pc[p], run[p])
  BY AllTold, AtApply
<1>2. Tells(items', disk', seen')
  BY <1>1, TellsButOne
<1>3. QED
  BY <1>1, <1>2, EndTold

\* A step is begun with a note in the state file.
LEMMA BegunTold ==
  ASSUME Inductive, Told, NEW p \in Procs, pc[p] = "apply", NEW s, s.ref \in Refs,
         NEW place \in {"creating", "writing", "retiring"}, NEW st, disk' = st,
         Start(p, place, s, st), UNCHANGED <<items, seen>>,
         \A q \in Refs \ {s.ref} : st.held[q] = run[p].state.held[q],
         LET item == st.held[s.ref]
             read == run[p].read[s.ref]
         IN  item # None =>
               /\ \A x \in Parts : Explained(items, item, x)
               /\ \A t \in item.shown : <<item.id, t[1], t[2]>> \in seen
               /\ s.ref \in Drafted(run[p]) => Clean(items, item)
               /\ \A x \in Parts : read # None /\ ~item.retiring /\ read[x] # item.remote[x]
                                     => <<item.id, x, read[x]>> \in seen,
         place = "writing" =>
           /\ st.held[s.ref].writing.parts = s.parts
           /\ \A x \in s.parts :
                st.held[s.ref].writing.rendered[x] = run[p].drafts[s.ref][x],
         place = "retiring" => st.held[s.ref].retiring
  PROVE  Told'
<1> DEFINE rn == [run[p] EXCEPT !.state = st, !.step = s, !.todo = @ \ {s}]
<1>1. Goto(p, place, rn) /\ pc[p] \in ApplyPlaces /\ place \in ApplyPlaces
  BY DEF Start, ApplyPlaces, StepPlaces
<1>2. /\ rn.state = st /\ rn.step = s /\ rn.drafts = run[p].drafts
      /\ rn.read = run[p].read
  BY OfCommand DEF Run
<1> HIDE DEF rn
<1>3. OneTold(items', seen, rn, s.ref)
  BY <1>2 DEF OneTold, News, Drafted
<1>4. /\ place = "writing" => NoteOK(rn)
      /\ place = "retiring" => rn.state.held[rn.step.ref].retiring
  BY <1>2 DEF NoteOK
<1>5. QED
  BY <1>1, <1>2, <1>3, <1>4, ApplyTold

\* A step is over and its outcome recorded.
LEMMA DoneTold ==
  ASSUME Inductive, Told, NEW p \in Procs, pc[p] \in ApplyPlaces, NEW s, s.ref \in Refs,
         NEW st, NEW text, StepDone(p, s, st, text), seen' = seen,
         \A q \in Refs \ {s.ref} : st.held[q] = run[p].state.held[q],
         \A q \in HeldRefs(disk) \ {s.ref} :
           items'[disk.held[q].id] = items[disk.held[q].id],
         LET item == st.held[s.ref]
         IN  item # None =>
               /\ \A x \in Parts : Explained(items', item, x)
               /\ \A t \in item.shown : <<item.id, t[1], t[2]>> \in seen
               /\ s.ref \in Drafted(run[p]) => Clean(items', item)
               /\ \A x \in Parts : text # None /\ ~item.retiring /\ text[x] # item.remote[x]
                                     => <<item.id, x, text[x]>> \in seen
  PROVE  Told'
<1> DEFINE rn == [run[p] EXCEPT !.state = st, !.todo = @ \ {s}, !.step = None,
                                !.id = None, !.read[s.ref] = text]
<1>1. Goto(p, "apply", rn) /\ disk' = st /\ "apply" \in ApplyPlaces
  BY DEF StepDone, ApplyPlaces
<1>2. /\ rn.state = st /\ rn.drafts = run[p].drafts /\ rn.read[s.ref] = text
      /\ \A q \in Refs \ {s.ref} : rn.read[q] = run[p].read[q]
  BY OfCommand DEF Run
<1> HIDE DEF rn
<1>3. OneTold(items', seen, rn, s.ref)
  BY <1>2 DEF OneTold, News, Drafted
<1>4. QED
  BY <1>1, <1>2, <1>3, ApplyTold

\* A step touches nothing that is held and notes nothing new.
LEMMA UnnotedTold ==
  ASSUME Inductive, Told, NEW p \in Procs, pc[p] \in ApplyPlaces,
         NEW place \in ApplyPlaces \ {"writing", "retiring"}, NEW rn, Goto(p, place, rn),
         rn.state = run[p].state, rn.drafts = run[p].drafts, rn.read = run[p].read,
         UNCHANGED <<disk, seen>>,
         \A q \in HeldRefs(disk) : items'[disk.held[q].id] = items[disk.held[q].id]
  PROVE  Told'
<1>1. /\ disk = run[p].state /\ OneTold(items, seen, run[p], Document) /\ Document \in Refs
  BY AllTold, ConstantsAssumption
<1>2. OneTold(items', seen, rn, Document)
  <2>1. SUFFICES ASSUME disk.held[Document] # None
                 PROVE  OneTold(items', seen, rn, Document)
    BY <1>1 DEF OneTold
  <2>2. items'[disk.held[Document].id] = items[disk.held[Document].id]
    BY <1>1, <2>1 DEF HeldRefs
  <2>3. /\ \A x \in Parts : Explained(items, disk.held[Document], x)
                              => Explained(items', disk.held[Document], x)
        /\ Clean(items, disk.held[Document]) => Clean(items', disk.held[Document])
    BY <2>2 DEF Explained, Clean, Unaccounted, Alive
  <2>4. News(rn, Document) = News(run[p], Document) /\ Drafted(rn) = Drafted(run[p])
    BY DEF News, Drafted
  <2>5. QED
    BY <1>1, <2>3, <2>4 DEF OneTold
<1>3. QED
  BY <1>1, <1>2, ApplyTold

\* A command ends; what it changed in the service and in the file is not held.
LEMMA EndUntold ==
  ASSUME Inductive, Told, NEW p \in Procs, pc[p] \in ApplyPlaces, End(p), seen' = seen,
         \A q \in Refs : disk'.held[q] = disk.held[q],
         \A q \in HeldRefs(disk) : items'[disk.held[q].id] = items[disk.held[q].id]
  PROVE  Told'
<1>1. Tells(items, disk, seen) /\ disk \in PublishState /\ Writer(pc[p], run[p])
  BY AllTold, AtApply, OfCommand
<1>2. Tells(items', disk, seen)
  BY <1>1, StillTells
<1>3. Tells(items', disk', seen')
  BY <1>2 DEF Tells, HeldRefs
<1>4. QED
  BY <1>1, <1>3, EndTold

------------------------------------------------------------------------------
(* A create, told                                                            *)

\* The create is noted: no record changes.
LEMMA StartCreateTold ==
  ASSUME Inductive, Told, NEW p \in Procs, NEW s \in run[p].todo, StartCreate(p, s)
  PROVE  Told'
<1> DEFINE st == [run[p].state EXCEPT !.pending = @ \cup {PendingOf(s)}]
<1>1. /\ pc[p] = "apply" /\ disk' = st /\ Start(p, "creating", s, st)
      /\ UNCHANGED <<items, seen>>
  BY DEF StartCreate
<1>2. s.ref \in Refs /\ run[p].state \in PublishState
  BY <1>1, AtApply DEF ApplyPlaces
<1>3. st.held = run[p].state.held
  BY <1>2 DEF PublishState
<1> HIDE DEF st
<1>4. OneTold(items, seen, run[p], s.ref)
  BY <1>1, <1>2, AllTold DEF ApplyPlaces
<1>5. QED
  BY <1>1, <1>2, <1>3, <1>4, BegunTold DEF OneTold, News

\* An item that did not exist is held by no ref.
LEMMA SendCreateTold ==
  ASSUME Inductive, Told, NEW p \in Procs, SendCreate(p)
  PROVE  Told'
<1>1. PICK i \in Ids, ps \in FirstLanding :
        /\ items[i].life = "unborn"
        /\ items' = [items EXCEPT ![i] = New(run[p].step.ref,
                                             run[p].drafts[run[p].step.ref], ps)]
        /\ Goto(p, "finishing", Sent(run[p], i, ps))
  BY DEF SendCreate
<1>2. pc[p] = "creating" /\ UNCHANGED <<disk, seen>>
  BY DEF SendCreate
<1>3. /\ Sent(run[p], i, ps).state = run[p].state
      /\ Sent(run[p], i, ps).drafts = run[p].drafts
      /\ Sent(run[p], i, ps).read = run[p].read
  BY OfCommand DEF Sent, Run
<1>4. ASSUME NEW q \in HeldRefs(disk)
      PROVE  items'[disk.held[q].id] = items[disk.held[q].id]
  <2>1. Born(items, disk.held[q].id)
    BY OfCommand DEF StateOK, HeldItemsAreTheRefs, HeldRefs
  <2>2. disk.held[q].id # i
    BY <1>1, <2>1 DEF Born
  <2>3. QED
    BY <1>1, <2>2, OfCommand
<1>5. QED
  BY <1>1, <1>2, <1>3, <1>4, UnnotedTold DEF ApplyPlaces, StepPlaces

\* The item that is being created is held by no ref until it is finished.
LEMMA MadeUnheld ==
  ASSUME Inductive, Told, NEW p \in Procs, pc[p] \in {"creating", "finishing"},
         NEW i \in Ids, There(i),
         \/ pc[p] = "creating" /\ IntoOf(run[p].step.ref) # None /\ i = Into
         \/ pc[p] = "finishing" /\ i = run[p].id
  PROVE  \A q \in HeldRefs(disk) : disk.held[q].id # i
<1> DEFINE r == run[p].step.ref
<1>1. /\ pc[p] \in ApplyPlaces /\ r \in Refs /\ disk \in PublishState
      /\ NotThere(items, run[p].state, r) /\ KnowsOK(items, pc[p], run[p])
      /\ ServiceOK(items) /\ StateOK(items, disk)
  BY AtCreate, OfCommand
<1>2. disk = run[p].state
  BY <1>1, AllTold
<1>3. items[i].made = r \/ (i = Into /\ Into # None /\ r = Document)
  <2>1. IntoOf(r) # None => Into # None /\ r = Document
    BY DEF IntoOf
  <2>2. QED
    BY <1>1, <2>1 DEF KnowsOK
<1> HIDE DEF r
<1>4. QED
  BY <1>1, <1>2, <1>3, Unheld DEF There, Alive

\* The page the target names is held by no ref until it is recorded.
LEMMA SendCreateIntoTold ==
  ASSUME Inductive, Told, NEW p \in Procs, SendCreateInto(p)
  PROVE  Told'
<1>1. PICK ps \in SUBSET SectionParts :
        /\ items' = [items EXCEPT ![Into] =
                       Write(Release(@, SectionParts, None), run[p].step.ref,
                             run[p].drafts[run[p].step.ref], ps)]
        /\ Goto(p, "finishing", Sent(run[p], Into, ps))
  BY DEF SendCreateInto
<1>2. /\ pc[p] = "creating" /\ UNCHANGED <<disk, seen>> /\ There(Into)
      /\ IntoOf(run[p].step.ref) # None
  BY DEF SendCreateInto
<1>3. Into \in Ids
  BY <1>2, ConstantsAssumption DEF IntoOf
<1>4. /\ Sent(run[p], Into, ps).state = run[p].state
      /\ Sent(run[p], Into, ps).drafts = run[p].drafts
      /\ Sent(run[p], Into, ps).read = run[p].read
  BY OfCommand DEF Sent, Run
<1>5. \A q \in HeldRefs(disk) : items'[disk.held[q].id] = items[disk.held[q].id]
  BY <1>1, <1>2, <1>3, MadeUnheld, OfCommand
<1>6. QED
  BY <1>1, <1>2, <1>4, <1>5, UnnotedTold DEF ApplyPlaces, StepPlaces

\* The note of the create is taken back.
LEMMA RejectCreateTold ==
  ASSUME Inductive, Told, NEW p \in Procs, RejectCreate(p)
  PROVE  Told'
<1>1. /\ pc[p] = "creating" /\ End(p) /\ UNCHANGED <<items, seen>>
      /\ disk' = Drop(run[p].state, PendingOf(run[p].step))
  BY DEF RejectCreate, Rejected
<1>2. pc[p] \in ApplyPlaces /\ run[p].state \in PublishState /\ disk = run[p].state
  BY <1>1, AtCreate, AllTold
<1>3. disk'.held = disk.held
  BY <1>1, <1>2, DropType
<1>4. QED
  BY <1>1, <1>2, <1>3, EndUntold

\* The item is recorded as it is once it is finished.
LEMMA FinishCreateTold ==
  ASSUME Inductive, Told, NEW p \in Procs, FinishCreate(p)
  PROVE  Told'
<1> DEFINE s == run[p].step
           i == run[p].id
           draft == run[p].drafts[s.ref]
           made == Write(items[i], s.ref, draft, s.parts)
           origin == IF IntoOf(s.ref) = None THEN "created" ELSE "adopted"
           item == Recorded(i, origin, draft, made.text)
           st == WithItem(Drop(run[p].state, PendingOf(s)), s.ref, item)
<1>1. /\ pc[p] = "finishing" /\ There(i) /\ items' = [items EXCEPT ![i] = made]
      /\ StepDone(p, s, st, made.text) /\ UNCHANGED seen
  BY DEF FinishCreate
<1>2. /\ pc[p] \in ApplyPlaces /\ s \in Step /\ s.ref \in Refs /\ draft \in Content
      /\ run[p].state \in PublishState /\ items \in [Ids -> RemoteItem]
  BY <1>1, AtCreate, OfCommand
<1>3. i \in Ids
  BY <1>1, OfCommand, Zenon DEF ShapeOK, StepOK, ApplyPlaces, StepPlaces
<1>4. \A q \in HeldRefs(disk) : items'[disk.held[q].id] = items[disk.held[q].id]
  BY <1>1, <1>2, <1>3, MadeUnheld, SMTT(20)
<1>5. made.text \in Content /\ items'[i] = made
  BY <1>1, <1>2, <1>3, WriteKeepsLife DEF Step
<1> HIDE DEF made
<1>6. /\ item \in Item /\ item.id = i
  BY <1>2, <1>3, <1>5, RecordedType DEF Origin
<1>7. item.remote = made.text /\ item.shown = {}
  BY DEF Recorded
<1> HIDE DEF item
<1>8. Clean(items', item)
  BY <1>5, <1>6, <1>7 DEF Clean, Unaccounted
<1>9. Drop(run[p].state, PendingOf(s)).held = run[p].state.held
      /\ Drop(run[p].state, PendingOf(s)) \in PublishState
  BY <1>2, DropType
<1>10. /\ st.held[s.ref] = item
       /\ \A q \in Refs \ {s.ref} : st.held[q] = run[p].state.held[q]
  BY <1>2, <1>6, <1>9, WithItemType
<1> HIDE DEF st
<1>11. \A x \in Parts : Explained(items', item, x)
  BY <1>8 DEF Clean, Explained
<1>12. QED
  BY <1>1, <1>2, <1>4, <1>7, <1>8, <1>10, <1>11, DoneTold

\* The item that could not be finished is held by no ref.
LEMMA LeaveUnfinishedTold ==
  ASSUME Inductive, Told, NEW p \in Procs, LeaveUnfinished(p)
  PROVE  Told'
<1> DEFINE s == run[p].step
           i == run[p].id
           noted == [PendingOf(s) EXCEPT !.id = i]
           st == run[p].state
<1>1. /\ pc[p] = "finishing" /\ End(p) /\ UNCHANGED seen
      /\ disk' = IF IntoOf(s.ref) # None THEN disk
                 ELSE [st EXCEPT !.pending = (@ \ {PendingOf(s)}) \cup {noted}]
  BY DEF LeaveUnfinished
<1>2. /\ pc[p] \in ApplyPlaces /\ st \in PublishState /\ disk = st
      /\ items \in [Ids -> RemoteItem]
  BY <1>1, AtCreate, AllTold, OfCommand
<1>3. disk'.held = disk.held
  BY <1>1, <1>2 DEF PublishState
<1>4. i \in Ids
  BY <1>1, OfCommand DEF ShapeOK, StepOK, ApplyPlaces, StepPlaces
<1>5. \A q \in HeldRefs(disk) : items'[disk.held[q].id] = items[disk.held[q].id]
  <2>1. CASE There(i)
    <3>1. \A j \in Ids \ {i} : items'[j] = items[j]
      BY <1>2, <2>1 DEF LeaveUnfinished
    <3>2. \A q \in HeldRefs(disk) : disk.held[q].id # i /\ disk.held[q].id \in Ids
      BY <1>1, <1>2, <1>4, <2>1, MadeUnheld DEF PublishState, Item, HeldRefs
    <3>3. QED
      BY <3>1, <3>2
  <2>2. CASE ~There(i)
    BY <2>2 DEF LeaveUnfinished
  <2>3. QED
    BY <2>1, <2>2
<1>6. QED
  BY <1>1, <1>2, <1>3, <1>5, EndUntold

------------------------------------------------------------------------------
(* A write and a retirement, told                                            *)

\* The item of a step is held by the step's ref only.
LEMMA OthersApart ==
  ASSUME Inductive, Told, NEW p \in Procs, pc[p] \in ApplyPlaces, NEW r \in HeldRefs(disk),
         NEW i, i = disk.held[r].id, NEW item,
         items' = [items EXCEPT ![i] = item] \/ items' = items
  PROVE  \A q \in HeldRefs(disk) \ {r} : items'[disk.held[q].id] = items[disk.held[q].id]
<1>1. disk \in PublishState /\ StateOK(items, disk) /\ ServiceOK(items)
      /\ items \in [Ids -> RemoteItem]
  BY OfCommand
<1>2. \A q \in HeldRefs(disk) \ {r} : disk.held[q].id # i /\ disk.held[q].id \in Ids
  BY <1>1, HeldApart DEF HeldRefs, PublishState, Item
<1>3. QED
  BY <1>1, <1>2

\* What a command that writes an item or skips it is told of it.
LEMMA AtWrite ==
  ASSUME Inductive, Told, NEW p \in Procs, pc[p] \in ApplyPlaces,
         NEW s \in Step, Planned(run[p], s), s.kind = "write"
  PROVE  LET item == disk.held[s.ref]
         IN  /\ disk = run[p].state /\ disk \in PublishState
             /\ s.ref \in Refs /\ s.parts \in SUBSET Parts
             /\ item \in Item /\ item # None /\ s.ref \in HeldRefs(disk)
             /\ items[item.id] \in RemoteItem /\ item.id \in Ids
             /\ run[p].drafts[s.ref] \in Content /\ run[p].read[s.ref] \in Content
             /\ run[p].read[s.ref] # None
             /\ Clean(items, item)
             /\ \A t \in item.shown : <<item.id, t[1], t[2]>> \in seen
             /\ \A x \in Parts : /\ ~item.retiring
                                 /\ run[p].read[s.ref][x] # item.remote[x]
                  => <<item.id, x, run[p].read[s.ref][x]>> \in seen
<1>1. /\ disk = run[p].state /\ disk \in PublishState
  BY AllTold, OfCommand
<1>2. /\ s.ref \in Refs /\ s.parts \in SUBSET Parts
      /\ disk.held[s.ref] \in Item /\ disk.held[s.ref] # None
      /\ items[disk.held[s.ref].id] \in RemoteItem /\ disk.held[s.ref].id \in Ids
      /\ run[p].drafts[s.ref] \in Content /\ run[p].read[s.ref] \in Content
  BY <1>1, AtHeldItem
<1>3. run[p].read[s.ref] # None /\ s.ref \in Drafted(run[p]) /\ s.ref \in HeldRefs(disk)
  BY <1>2, NoneAssumption DEF Drafted, HeldRefs
<1>4. OneTold(items, seen, run[p], s.ref)
  BY <1>2, AllTold
<1>5. QED
  BY <1>1, <1>2, <1>3, <1>4 DEF OneTold, News

\* Nothing is sent: the draft is recorded.
LEMMA SkipWriteTold ==
  ASSUME Inductive, Told, NEW p \in Procs, NEW s \in run[p].todo, SkipWrite(p, s)
  PROVE  Told'
<1> DEFINE old == run[p].state.held[s.ref]
           item == [old EXCEPT !.rendered = RenderedAfter(run[p], s)]
           st == WithItem(run[p].state, s.ref, item)
           read == run[p].read[s.ref]
<1>1. /\ pc[p] = "apply" /\ StepDone(p, s, st, read) /\ UNCHANGED <<items, seen>>
      /\ s.kind = "write" /\ s \in Step /\ Planned(run[p], s) /\ pc[p] \in ApplyPlaces
  BY AtApply DEF SkipWrite, ApplyPlaces
<1>2. /\ disk = run[p].state /\ disk \in PublishState /\ s.ref \in Refs /\ old \in Item
      /\ Clean(items, old) /\ \A t \in old.shown : <<old.id, t[1], t[2]>> \in seen
      /\ \A x \in Parts : ~old.retiring /\ read[x] # old.remote[x]
                            => <<old.id, x, read[x]>> \in seen
  BY <1>1, AtWrite
<1>3. /\ item.id = old.id /\ item.origin = old.origin /\ item.remote = old.remote
      /\ item.shown = old.shown /\ item.retiring = old.retiring
  BY <1>2 DEF Item
<1>4. /\ st.held[s.ref] = item
      /\ \A q \in Refs \ {s.ref} : st.held[q] = run[p].state.held[q]
  BY <1>2 DEF WithItem, PublishState
<1> HIDE DEF st, item, old, read
<1>5. Clean(items, item)
  BY <1>2, <1>3 DEF Clean, Unaccounted
<1>6. \A x \in Parts : Explained(items, item, x)
  BY <1>5 DEF Clean, Explained
<1>7. QED
  BY <1>1, <1>2, <1>3, <1>4, <1>5, <1>6, DoneTold

\* The note says what is about to be sent; before it nothing had to be explained.
LEMMA StartWriteTold ==
  ASSUME Inductive, Told, NEW p \in Procs, NEW s \in run[p].todo, StartWrite(p, s)
  PROVE  Told'
<1> DEFINE old == run[p].state.held[s.ref]
           note == [parts |-> s.parts, rendered |-> RenderedAfter(run[p], s)]
           item == [old EXCEPT !.writing = note]
           st == WithItem(run[p].state, s.ref, item)
           read == run[p].read[s.ref]
<1>1. /\ pc[p] = "apply" /\ Start(p, "writing", s, st) /\ UNCHANGED <<items, seen>>
      /\ disk' = st /\ s.kind = "write" /\ s \in Step /\ Planned(run[p], s)
      /\ pc[p] \in ApplyPlaces
  BY AtApply DEF StartWrite, ApplyPlaces
<1>2. /\ disk = run[p].state /\ disk \in PublishState /\ s.ref \in Refs /\ old \in Item
      /\ Clean(items, old) /\ \A t \in old.shown : <<old.id, t[1], t[2]>> \in seen
      /\ \A x \in Parts : ~old.retiring /\ read[x] # old.remote[x]
                            => <<old.id, x, read[x]>> \in seen
      /\ s.parts \in SUBSET Parts
  BY <1>1, AtWrite
<1>3. /\ item.id = old.id /\ item.origin = old.origin /\ item.remote = old.remote
      /\ item.shown = old.shown /\ item.retiring = old.retiring /\ item.writing = note
  BY <1>2 DEF Item
<1>4. /\ st.held[s.ref] = item
      /\ \A q \in Refs \ {s.ref} : st.held[q] = run[p].state.held[q]
  BY <1>2 DEF WithItem, PublishState
<1>5. /\ note.parts = s.parts
      /\ \A x \in s.parts : note.rendered[x] = run[p].drafts[s.ref][x]
  BY <1>2 DEF RenderedAfter, WithParts
<1> HIDE DEF st, item, old, read, note
<1>6. Clean(items, item)
  BY <1>2, <1>3 DEF Clean, Unaccounted
<1>7. \A x \in Parts : Explained(items, item, x)
  BY <1>6 DEF Clean, Explained
<1>8. QED
  BY <1>1, <1>2, <1>3, <1>4, <1>5, <1>6, <1>7, BegunTold DEF read

\* What a command that sends a write is told of the item.
LEMMA AtSendWrite ==
  ASSUME Inductive, Told, NEW p \in Procs, pc[p] = "writing"
  PROVE  LET s == run[p].step
             item == disk.held[s.ref]
         IN  /\ pc[p] \in ApplyPlaces /\ s \in Step /\ Planned(run[p], s)
             /\ s.kind = "write" /\ item.writing # None
             /\ item.writing.parts = s.parts
             /\ \A x \in s.parts : item.writing.rendered[x] = run[p].drafts[s.ref][x]
<1>1. /\ pc[p] \in ApplyPlaces /\ pc[p] \in StepPlaces
      /\ ToldOf(items, disk, seen, pc[p], run[p])
  BY OfTold, AtApply DEF ApplyPlaces, StepPlaces
<1>2. /\ run[p].step \in Step /\ Planned(run[p], run[p].step)
      /\ StepOK("writing", run[p])
  BY <1>1, AtStep
<1>3. NoteOK(run[p]) /\ disk = run[p].state
  BY <1>1 DEF ToldOf
<1>4. QED
  BY <1>1, <1>2, <1>3, Zenon DEF NoteOK, StepOK

\* What was written is recorded as written, and what was not sent stays.
LEMMA SendWriteTold ==
  ASSUME Inductive, Told, NEW p \in Procs, SendWrite(p)
  PROVE  Told'
<1> DEFINE s == run[p].step
           old == run[p].state.held[s.ref]
           draft == run[p].drafts[s.ref]
           written == Write(items[old.id], s.ref, draft, s.parts)
           remote == WithParts(old.remote, written.text, s.parts)
           item == [old EXCEPT !.rendered = old.writing.rendered,
                      !.remote = remote, !.shown = {}, !.writing = None]
           st == WithItem(run[p].state, s.ref, item)
           read == run[p].read[s.ref]
           text == WithParts(read, written.text, s.parts)
<1>1. /\ pc[p] = "writing" /\ items' = [items EXCEPT ![old.id] = written]
      /\ UNCHANGED seen
  BY Zenon DEF SendWrite
<1>2. StepDone(p, s, st, text)
  BY OfCommand, AtWrite, AtSendWrite, <1>1, Zenon DEF SendWrite
<1>3. /\ pc[p] \in ApplyPlaces /\ s \in Step /\ Planned(run[p], s) /\ s.kind = "write"
  BY <1>1, AtSendWrite
<1>4. /\ disk = run[p].state /\ disk \in PublishState /\ s.ref \in Refs /\ old \in Item
      /\ s.ref \in HeldRefs(disk) /\ items[old.id] \in RemoteItem /\ old.id \in Ids
      /\ Clean(items, old) /\ s.parts \in SUBSET Parts /\ draft \in Content
      /\ \A x \in Parts : ~old.retiring /\ read[x] # old.remote[x]
                            => <<old.id, x, read[x]>> \in seen
  BY <1>3, AtWrite, Zenon
<1>5. \A q \in HeldRefs(disk) \ {s.ref} : items'[disk.held[q].id] = items[disk.held[q].id]
  BY <1>1, <1>3, <1>4, OthersApart, Zenon
<1>6. /\ items'[old.id] = written /\ written.hand = items[old.id].hand \ s.parts
      /\ written.life = items[old.id].life
      /\ \A x \in Parts \ s.parts : written.text[x] = items[old.id].text[x]
  <2>1. items'[old.id] = written
    BY <1>1, <1>4, OfCommand, Zenon
  <2>2. /\ written.hand = items[old.id].hand \ s.parts
        /\ written.life = items[old.id].life
        /\ \A x \in Parts \ s.parts : written.text[x] = items[old.id].text[x]
    BY <1>4, Zenon DEF Write, WithParts, RemoteItem
  <2>3. QED
    BY <2>1, <2>2, Zenon
<1> HIDE DEF written
<1>7. /\ item.id = old.id /\ item.origin = old.origin /\ item.remote = remote
      /\ item.shown = {} /\ item.retiring = old.retiring
  BY <1>4, Zenon DEF Item
<1>8. /\ st.held[s.ref] = item
      /\ \A q \in Refs \ {s.ref} : st.held[q] = run[p].state.held[q]
  BY <1>4, Zenon DEF WithItem, PublishState
<1>9. \A x \in Parts : remote[x] = IF x \in s.parts THEN written.text[x] ELSE old.remote[x]
  BY DEF WithParts
<1>10. \A x \in Parts : text[x] = IF x \in s.parts THEN written.text[x] ELSE read[x]
  BY SMTT(20) DEF WithParts
<1> HIDE DEF st, item, remote, text
<1>11. ASSUME NEW x \in Parts, Unaccounted(items', item, x) PROVE FALSE
  <2>1. x \notin s.parts
    BY <1>6, <1>7, <1>9, <1>11, Zenon DEF Unaccounted
  <2>2. Unaccounted(items, old, x)
    BY <1>6, <1>7, <1>9, <1>11, <2>1, Zenon DEF Unaccounted, Alive
  <2>3. QED
    BY <1>4, <2>2 DEF Clean
<1>12. Clean(items', item) /\ \A x \in Parts : Explained(items', item, x)
  BY <1>11 DEF Clean, Explained
<1>13. \A x \in Parts : ~item.retiring /\ text[x] # item.remote[x]
                          => <<item.id, x, text[x]>> \in seen
  BY <1>4, <1>7, <1>9, <1>10, Zenon
<1>14. QED
  BY <1>1, <1>2, <1>3, <1>4, <1>5, <1>7, <1>8, <1>12, <1>13, DoneTold, Zenon

\* The note of the write is taken back: nothing of it is in the service.
LEMMA RejectWriteTold ==
  ASSUME Inductive, Told, NEW p \in Procs, RejectWrite(p)
  PROVE  Told'
<1> DEFINE s == run[p].step
           old == run[p].state.held[s.ref]
           item == [old EXCEPT !.writing = None]
           st == WithItem(run[p].state, s.ref, item)
<1>1. /\ pc[p] = "writing" /\ disk' = st /\ End(p) /\ UNCHANGED <<items, seen>>
  BY SMTT(20) DEF RejectWrite, Rejected
<1>2. /\ pc[p] \in ApplyPlaces /\ s \in Step /\ Planned(run[p], s) /\ s.kind = "write"
  BY <1>1, AtSendWrite
<1>3. /\ disk = run[p].state /\ disk \in PublishState /\ s.ref \in Refs /\ old \in Item
      /\ Clean(items, old) /\ \A t \in old.shown : <<old.id, t[1], t[2]>> \in seen
  BY <1>2, AtWrite
<1>4. /\ item.id = old.id /\ item.origin = old.origin /\ item.remote = old.remote
      /\ item.shown = old.shown
  BY <1>3 DEF Item
<1>5. /\ st.held[s.ref] = item
      /\ \A q \in Refs \ {s.ref} : st.held[q] = disk.held[q]
  BY <1>3, Zenon DEF WithItem, PublishState
<1> HIDE DEF st, item, old
<1>6. \A x \in Parts : Explained(items', item, x)
  BY <1>1, <1>3, <1>4 DEF Clean, Unaccounted, Explained
<1>7. QED
  BY <1>1, <1>2, <1>3, <1>4, <1>5, <1>6, ApplyEndTold

\* What landed of the write is what the note says.
LEMMA LoseWriteAnswerTold ==
  ASSUME Inductive, Told, NEW p \in Procs, LoseWriteAnswer(p)
  PROVE  Told'
<1> DEFINE s == run[p].step
           item == disk.held[s.ref]
           i == item.id
           draft == run[p].drafts[s.ref]
<1>1. /\ pc[p] = "writing" /\ End(p) /\ UNCHANGED <<disk, seen>>
  BY Zenon DEF LoseWriteAnswer
<1>2. /\ pc[p] \in ApplyPlaces /\ s \in Step /\ Planned(run[p], s) /\ s.kind = "write"
      /\ item.writing # None /\ item.writing.parts = s.parts
      /\ \A x \in s.parts : item.writing.rendered[x] = draft[x]
  BY <1>1, AtSendWrite, SMTT(20)
<1>3. /\ disk = run[p].state /\ disk \in PublishState /\ s.ref \in Refs /\ item \in Item
      /\ s.ref \in HeldRefs(disk) /\ items[i] \in RemoteItem /\ i \in Ids
      /\ Clean(items, item) /\ \A t \in item.shown : <<item.id, t[1], t[2]>> \in seen
      /\ s.parts \in SUBSET Parts /\ draft \in Content
  BY <1>2, AtWrite
<1>4. CASE items' = items
  BY <1>1, <1>2, <1>4, EndUntold
<1>5. CASE items' # items
  <2>1. PICK ps \in SUBSET s.parts : items' = [items EXCEPT ![i] =
                                                 Write(@, s.ref, draft, ps)]
    BY <1>3, <1>5, Zenon DEF LoseWriteAnswer
  <2> DEFINE written == Write(items[i], s.ref, draft, ps)
  <2>2. /\ items'[i] = written /\ written.hand = items[i].hand \ ps
        /\ written.life = items[i].life
    BY <1>3, <2>1, OfCommand, Zenon DEF Write, RemoteItem
  <2>3. \A x \in Parts : written.text[x] = IF x \in ps THEN Form[draft[x]]
                                           ELSE items[i].text[x]
    BY <1>3, Zenon DEF Write, WithParts, Shown, RemoteItem
  <2> HIDE DEF written, item
  <2>4. ASSUME NEW x \in Parts, Unaccounted(items', item, x)
        PROVE  x \in s.parts /\ items'[i].text[x] = Form[draft[x]]
    <3>1. CASE x \in ps
      BY <2>2, <2>3, <3>1
    <3>2. CASE x \notin ps
      <4>1. Unaccounted(items, item, x)
        BY <2>2, <2>3, <2>4, <3>2 DEF Unaccounted, Alive
      <4>2. QED
        BY <1>3, <4>1 DEF Clean
    <3>3. QED
      BY <3>1, <3>2
  <2>5. \A x \in Parts : Explained(items', item, x)
    BY <1>2, <2>4 DEF Explained
  <2>6. \A q \in HeldRefs(disk) \ {s.ref} : items'[disk.held[q].id] = items[disk.held[q].id]
    BY <1>2, <1>3, <2>1, OthersApart, Zenon DEF item
  <2>7. QED
    BY <1>1, <1>2, <1>3, <2>5, <2>6, ApplyEndTold, Zenon DEF item
<1>6. QED
  BY <1>4, <1>5

\* What a command that retires an item is told of it.
LEMMA AtRetire ==
  ASSUME Inductive, Told, NEW p \in Procs, pc[p] = "retiring"
  PROVE  LET r == run[p].step.ref
             item == disk.held[r]
         IN  /\ pc[p] \in ApplyPlaces /\ disk = run[p].state /\ disk \in PublishState
             /\ r \in Refs /\ item \in Item /\ item # None /\ r \in HeldRefs(disk)
             /\ items[item.id] \in RemoteItem /\ item.id \in Ids
             /\ item.retiring /\ run[p].drafts[r] = None
             /\ \A x \in Parts : Explained(items, item, x)
             /\ \A t \in item.shown : <<item.id, t[1], t[2]>> \in seen
<1>1. /\ pc[p] \in ApplyPlaces /\ run[p].step \in Step /\ run[p].step.ref \in Refs
      /\ disk.held[run[p].step.ref] \in Item /\ disk.held[run[p].step.ref] # None
      /\ disk.held[run[p].step.ref].id \in Ids
      /\ items[disk.held[run[p].step.ref].id] \in RemoteItem
      /\ run[p].drafts[run[p].step.ref] = None /\ disk = run[p].state
  BY AtSend, AllTold
<1>2. ToldOf(items, disk, seen, "retiring", run[p])
  BY <1>1, AtApply, OfTold
<1>3. disk.held[run[p].step.ref].retiring /\ disk \in PublishState
  BY <1>1, <1>2, OfCommand DEF ToldOf
<1>4. run[p].step.ref \in HeldRefs(disk) /\ OneTold(items, seen, run[p], run[p].step.ref)
  BY <1>1, AllTold DEF HeldRefs
<1>5. QED
  BY <1>1, <1>3, <1>4 DEF OneTold

\* The item is no longer in the service: its record goes.
LEMMA ForgetMissingTold ==
  ASSUME Inductive, Told, NEW p \in Procs, NEW s \in run[p].todo, ForgetMissing(p, s)
  PROVE  Told'
<1> DEFINE st == WithItem(run[p].state, s.ref, None)
<1>1. /\ pc[p] \in ApplyPlaces /\ StepDone(p, s, st, None) /\ UNCHANGED <<items, seen>>
  BY DEF ForgetMissing, ApplyPlaces
<1>2. s.ref \in Refs /\ run[p].state \in PublishState
  BY <1>1, AtApply
<1>3. /\ st.held[s.ref] = None
      /\ \A q \in Refs \ {s.ref} : st.held[q] = run[p].state.held[q]
  BY <1>2, WithItemType
<1> HIDE DEF st
<1>4. QED
  BY <1>1, <1>2, <1>3, DoneTold

\* The retirement is noted: what was edited of the item no longer counts.
LEMMA StartRetireTold ==
  ASSUME Inductive, Told, NEW p \in Procs, NEW s \in run[p].todo, StartRetire(p, s)
  PROVE  Told'
<1> DEFINE old == run[p].state.held[s.ref]
           item == [old EXCEPT !.retiring = TRUE]
           st == WithItem(run[p].state, s.ref, item)
<1>1. /\ pc[p] = "apply" /\ Start(p, "retiring", s, st) /\ UNCHANGED <<items, seen>>
      /\ disk' = st /\ s.kind = "retire" /\ s \in Step /\ Planned(run[p], s)
      /\ pc[p] \in ApplyPlaces
  BY AtApply, SMTT(20) DEF StartRetire, ApplyPlaces
<1>2. /\ s.ref \in Refs /\ old \in Item /\ old # None /\ run[p].state \in PublishState
      /\ s.ref \notin Drafted(run[p])
  BY <1>1, AtHeldItem, AtApply DEF Planned, Drafted
<1>3. /\ \A x \in Parts : Explained(items, old, x)
      /\ \A t \in old.shown : <<old.id, t[1], t[2]>> \in seen
  BY <1>1, <1>2, AllTold DEF OneTold
<1>4. /\ item.id = old.id /\ item.origin = old.origin /\ item.remote = old.remote
      /\ item.shown = old.shown /\ item.retiring /\ item.writing = old.writing
  BY <1>2 DEF Item
<1>5. /\ st.held[s.ref] = item
      /\ \A q \in Refs \ {s.ref} : st.held[q] = run[p].state.held[q]
  BY <1>2 DEF WithItem, PublishState
<1> HIDE DEF st, item, old
<1>6. \A x \in Parts : Explained(items, item, x)
  BY <1>3, <1>4 DEF Explained, Unaccounted
<1>7. QED
  BY <1>1, <1>2, <1>3, <1>4, <1>5, <1>6, BegunTold

\* The item is archived or released, and its record goes.
LEMMA SendRetireTold ==
  ASSUME Inductive, Told, NEW p \in Procs, SendRetire(p)
  PROVE  Told'
<1> DEFINE s == run[p].step
           item == run[p].state.held[s.ref]
           st == WithItem(run[p].state, s.ref, None)
<1>1. /\ pc[p] = "retiring" /\ StepDone(p, s, st, None) /\ UNCHANGED seen
  BY DEF SendRetire
<1>2. /\ pc[p] \in ApplyPlaces /\ disk = run[p].state /\ s.ref \in HeldRefs(disk)
      /\ s.ref \in Refs /\ run[p].state \in PublishState
  BY <1>1, AtRetire
<1>3. \A q \in HeldRefs(disk) \ {s.ref} : items'[disk.held[q].id] = items[disk.held[q].id]
  <2>1. items' = [items EXCEPT ![item.id] =
          IF item.origin = "created" THEN Archive(@)
          ELSE Release(@, ReleasedParts(item), None)]
    BY DEF SendRetire
  <2>2. QED
    BY <1>2, <2>1, OthersApart, Zenon
<1>4. /\ st.held[s.ref] = None
      /\ \A q \in Refs \ {s.ref} : st.held[q] = run[p].state.held[q]
  BY <1>2, WithItemType
<1> HIDE DEF st, item
<1>5. QED
  BY <1>1, <1>2, <1>3, <1>4, DoneTold

\* The note of the retirement is taken back.
LEMMA RejectRetireTold ==
  ASSUME Inductive, Told, NEW p \in Procs, RejectRetire(p)
  PROVE  Told'
<1> DEFINE s == run[p].step
           old == run[p].state.held[s.ref]
           item == [old EXCEPT !.retiring = FALSE]
           st == WithItem(run[p].state, s.ref, item)
<1>1. /\ pc[p] = "retiring" /\ disk' = st /\ End(p) /\ UNCHANGED <<items, seen>>
  BY DEF RejectRetire, Rejected
<1>2. /\ pc[p] \in ApplyPlaces /\ disk = run[p].state /\ disk \in PublishState
      /\ s.ref \in Refs /\ old \in Item /\ \A x \in Parts : Explained(items, old, x)
      /\ \A t \in old.shown : <<old.id, t[1], t[2]>> \in seen
  BY <1>1, AtRetire, Zenon
<1>3. /\ item.id = old.id /\ item.origin = old.origin /\ item.remote = old.remote
      /\ item.shown = old.shown /\ item.writing = old.writing
  BY <1>2, SMTT(20) DEF Item
<1>4. /\ st.held[s.ref] = item
      /\ \A q \in Refs \ {s.ref} : st.held[q] = disk.held[q]
  BY <1>2 DEF WithItem, PublishState
<1> HIDE DEF st, item, old
<1>5. \A x \in Parts : Explained(items', item, x)
  BY <1>1, <1>2, <1>3 DEF Explained, Unaccounted
<1>6. QED
  BY <1>1, <1>2, <1>3, <1>4, <1>5, ApplyEndTold

\* The item is archived, or what of it was released is blank.
LEMMA LoseRetireAnswerTold ==
  ASSUME Inductive, Told, NEW p \in Procs, LoseRetireAnswer(p)
  PROVE  Told'
<1> DEFINE s == run[p].step
           item == disk.held[s.ref]
           i == item.id
<1>1. /\ pc[p] = "retiring" /\ End(p) /\ UNCHANGED <<disk, seen>>
  BY Zenon DEF LoseRetireAnswer
<1>2. /\ pc[p] \in ApplyPlaces /\ disk = run[p].state /\ s.ref \in HeldRefs(disk)
      /\ s.ref \in Refs /\ item \in Item /\ items[i] \in RemoteItem /\ i \in Ids
      /\ \A x \in Parts : Explained(items, item, x)
      /\ \A t \in item.shown : <<item.id, t[1], t[2]>> \in seen
  BY <1>1, AtRetire
<1>3. CASE items' = items
  BY <1>1, <1>2, <1>3, EndUntold
<1>4. CASE items' = [items EXCEPT ![i] = Archive(@)]
  <2>1. items'[i].life = "gone"
    BY <1>2, <1>4, ArchiveType, OfCommand
  <2>2. \A q \in HeldRefs(disk) \ {s.ref} : items'[disk.held[q].id] = items[disk.held[q].id]
    BY <1>2, <1>4, OthersApart, Zenon
  <2> HIDE DEF item
  <2>3. \A x \in Parts : Explained(items', item, x)
    BY <2>1 DEF Explained, Unaccounted, Alive
  <2>4. QED
    BY <1>1, <1>2, <2>2, <2>3, ApplyEndTold, SMTT(20) DEF item
<1>5. CASE /\ item.origin = "adopted"
           /\ \E ps \in SUBSET ReleasedParts(item), stamp \in {items[i].stamp, None} :
                items' = [items EXCEPT ![i] = Release(@, ps, stamp)]
  <2>1. PICK ps \in SUBSET ReleasedParts(item), stamp \in {items[i].stamp, None} :
          items' = [items EXCEPT ![i] = Release(@, ps, stamp)]
    BY <1>5, Zenon
  <2> DEFINE cleared == Release(items[i], ps, stamp)
  <2>2. /\ items'[i] = cleared /\ cleared.hand = items[i].hand \ ps
        /\ cleared.life = items[i].life
    BY <1>2, <2>1, OfCommand, Zenon DEF Release, RemoteItem
  <2>3. \A x \in Parts : cleared.text[x] = IF x \in ps THEN Blank ELSE items[i].text[x]
    BY <1>2, Zenon DEF Release, WithParts, Empty, RemoteItem
  <2>4. \A q \in HeldRefs(disk) \ {s.ref} : items'[disk.held[q].id] = items[disk.held[q].id]
    BY <1>2, <2>1, OthersApart, Zenon
  <2> HIDE DEF cleared, item
  <2>5. ASSUME NEW x \in Parts, Unaccounted(items', item, x)
        PROVE  Unaccounted(items, item, x) /\ items'[i].text[x] = items[i].text[x]
    BY <1>5, <2>2, <2>3, <2>5 DEF Unaccounted, Alive
  <2>6. \A x \in Parts : Explained(items', item, x)
    BY <1>2, <2>5 DEF Explained
  <2>7. QED
    BY <1>1, <1>2, <2>4, <2>6, ApplyEndTold, Zenon DEF item
<1>6. QED
  BY <1>2, <1>3, <1>4, <1>5, Zenon DEF LoseRetireAnswer

\* Every step of the plan is done.
LEMMA EverythingAppliedTold ==
  ASSUME Inductive, Told, NEW p \in Procs, EverythingApplied(p)
  PROVE  Told'
<1>1. /\ pc[p] = "apply" /\ Goto(p, "applied", run[p]) /\ UNCHANGED <<items, disk, seen>>
  BY DEF EverythingApplied
<1>2. QED
  BY <1>1, UnnotedTold DEF ApplyPlaces

------------------------------------------------------------------------------
(* Told is an invariant where no dry run writes                              *)

\* No dry run writes to the service.
DryRunsKeepItems == \A p \in Procs : run[p].cmd = "dry" /\ Steps(p) => items' = items

\* Nothing is published and no command runs.
LEMMA InitTold == ASSUME Init PROVE Told
<1>1. HeldRefs(disk) = {}
  BY DEF Init, NoState, HeldRefs
<1>2. \A p \in Procs : ~Writer(pc[p], run[p])
  BY IdleOK DEF Init
<1>3. QED
  BY <1>1, <1>2 DEF Told, Tells

\* A stuttering step.
LEMMA StutterTold == ASSUME Told, UNCHANGED vars PROVE Told'
BY DEF Told, Tells, vars

\* A dry run that fills a page, or fails to, takes a step.
LEMMA DryFill ==
  ASSUME Inductive, DryRunsKeepItems, NEW p \in Procs, NEW d \in run[p].state.pending,
         Fill(p, d) \/ FillFails(p, d)
  PROVE  run[p].cmd = "dry" => items' = items
<1>1. pc[p] = "fill" /\ pc'[p] \in {"settle", "idle"}
  BY DEF Fill, FillFails, End, Goto, Inductive, TypeOK
<1>2. QED
  BY <1>1 DEF DryRunsKeepItems, Steps

\* What a command does until it has decided keeps Told.
LEMMA PreflightTold ==
  ASSUME Inductive, Told, DryRunsKeepItems, NEW p \in Procs,
         Begin(p) \/ Preflight(p) \/ Decide(p)
  PROVE  Told'
<1>1. CASE Begin(p)
  BY <1>1, QuietSteps, TakeLockTold DEF Begin
<1>2. CASE Preflight(p)
  <2>1. CASE \E d \in run[p].state.pending : Settle(p, d) \/ FindLeftEmpty(p, d)
    BY <2>1, SettleTold, FindLeftEmptyTold
  <2>2. CASE \E d \in run[p].state.pending : Fill(p, d) \/ FillFails(p, d)
    BY <2>2, DryFill, FillTold, FillFailsTold
  <2>3. CASE \E r \in Refs : ReadItem(p, r)
    BY <2>3, ReadItemTold
  <2>4. CASE RefuseInterruptedCreate(p) \/ RefuseInto(p)
    BY <2>4, QuietSteps
  <2>5. CASE AllSettled(p) \/ AllRead(p) \/ ReadInto(p)
    BY <2>5, AllSettledTold, AllReadTold, ReadIntoTold
  <2>6. QED
    BY <1>2, <2>1, <2>2, <2>3, <2>4, <2>5 DEF Preflight
<1>3. CASE Decide(p)
  BY <1>3, QuietSteps, ShowEditsTold, RefuseMissingIntoTold, MakePlanTold DEF Decide
<1>4. QED
  BY <1>1, <1>2, <1>3

\* So does what it does while it applies.
LEMMA AppliesTold ==
  ASSUME Inductive, Told, NEW p \in Procs,
         \/ StartStep(p) \/ Send(p) \/ EverythingApplied(p) \/ ReleaseLock(p)
  PROVE  Told'
<1>1. CASE StartStep(p)
  BY <1>1, StartCreateTold, SkipWriteTold, StartWriteTold, ForgetMissingTold,
     StartRetireTold DEF StartStep
<1>2. CASE Send(p)
  <2>1. CASE SendCreate(p) \/ SendCreateInto(p) \/ RejectCreate(p)
             \/ FinishCreate(p) \/ LeaveUnfinished(p)
    BY <2>1, SendCreateTold, SendCreateIntoTold, RejectCreateTold, FinishCreateTold,
       LeaveUnfinishedTold
  <2>2. CASE SendWrite(p) \/ RejectWrite(p) \/ LoseWriteAnswer(p)
    BY <2>2, SendWriteTold, RejectWriteTold, LoseWriteAnswerTold
  <2>3. CASE SendRetire(p) \/ RejectRetire(p) \/ LoseRetireAnswer(p)
    BY <2>3, SendRetireTold, RejectRetireTold, LoseRetireAnswerTold
  <2>4. QED
    BY <1>2, <2>1, <2>2, <2>3 DEF Send
<1>3. CASE EverythingApplied(p) \/ ReleaseLock(p)
  BY <1>3, EverythingAppliedTold, QuietSteps
<1>4. QED
  BY <1>1, <1>2, <1>3

\* Every step but a dry run's write keeps Told.
LEMMA NextTold ==
  ASSUME Inductive, Told, [Next]_vars, [DryRunsKeepItems]_vars
  PROVE  Told'
<1>1. CASE UNCHANGED vars
  BY <1>1, StutterTold
<1>2. CASE Next /\ DryRunsKeepItems
  <2>1. CASE Person
    BY <2>1, PersonToldStep
  <2>2. ASSUME NEW p \in Procs,
               (\E c \in Command : Prepare(p, c)) \/ Advance(p) \/ Stop(p)
        PROVE  Told'
    <3>1. CASE (\E c \in Command : Prepare(p, c)) \/ Stop(p)
      BY <3>1, QuietSteps
    <3>2. CASE Advance(p)
      BY <1>2, <3>2, PreflightTold, AppliesTold DEF Advance
    <3>3. QED
      BY <2>2, <3>1, <3>2
  <2>3. QED
    BY <1>2, <2>1, <2>2 DEF Next
<1>3. QED
  BY <1>1, <1>2

\* In a behaviour in which no dry run writes to the service, the state file and the
\* memory of the command that holds the lock tell of every text skaldr wrote.
THEOREM ToldInvariant == Spec /\ DryRunWritesNothing => []Told
<1>1. Init => Told
  BY InitTold
<1>2. Inductive /\ Told /\ [Next]_vars /\ [DryRunsKeepItems]_vars => Told'
  BY NextTold
<1>3. DryRunWritesNothing => [][DryRunsKeepItems]_vars
  BY PTL DEF DryRunWritesNothing, DryRunsKeepItems
<1>4. QED
  BY <1>1, <1>2, <1>3, InductiveInvariant, PTL DEF Spec

\* In such a behaviour a text that is neither in the saved copy nor a person's is
\* what the item's in-flight write says, wherever a run was interrupted: the next
\* read does not take skaldr's own write for an edit.
THEOREM OwnWritesAreExplained == Spec /\ DryRunWritesNothing => []OwnWritesExplained
<1>1. Told => OwnWritesExplained
  <2>1. SUFFICES ASSUME Told, NEW r \in HeldRefs(disk), NEW x \in Parts,
                        Unaccounted(items, disk.held[r], x)
                 PROVE  LET item == disk.held[r]
                        IN  /\ item.writing # None /\ x \in item.writing.parts
                            /\ items[item.id].text[x] = Form[item.writing.rendered[x]]
    BY DEF OwnWritesExplained, Unaccounted, There, Alive
  <2>2. QED
    BY <2>1 DEF Told, Tells, Explained
<1>2. QED
  BY <1>1, ToldInvariant, PTL

------------------------------------------------------------------------------
(* A person's edit is overwritten only when it was shown                     *)

\* A step that leaves the text of an item, or all items that are held, overwrites
\* nothing that the state file does not have.
LEMMA NothingOverwritten ==
  ASSUME NEW i, NEW x, UnsavedEdit(i, x), ReplacedBySkaldr(i, x),
         \/ items' = items
         \/ \A q \in HeldRefs(disk) : items'[disk.held[q].id] = items[disk.held[q].id]
  PROVE  FALSE
BY DEF UnsavedEdit, ReplacedBySkaldr

\* The person replaces no text without an edit of the person's own.
LEMMA PersonReplacesNothing ==
  ASSUME Inductive, Person, NEW i \in Ids, NEW x, UnsavedEdit(i, x),
         ReplacedBySkaldr(i, x)
  PROVE  FALSE
<1>1. items \in [Ids -> RemoteItem] /\ edits \in Nat
  BY DEF Inductive, TypeOK
<1>2. CASE ReviseYaml
  BY <1>2, NothingOverwritten DEF ReviseYaml
<1>3. CASE \E j \in Ids : EditItem(j) \/ RemoveStamp(j) \/ DeleteItem(j)
  BY <1>1, <1>3 DEF EditItem, RemoveStamp, DeleteItem, ReplacedBySkaldr
<1>4. CASE ResolveCreate
  <2>1. \A j \in Ids : items'[j].life = "there" => items'[j] = items[j]
    BY <1>1, <1>4 DEF ResolveCreate, RemoteItem
  <2>2. QED
    BY <2>1 DEF ReplacedBySkaldr
<1>5. QED
  BY <1>2, <1>3, <1>4 DEF Person

\* A create, and the fill of an interrupted one, write to an item no ref holds.
LEMMA CreatesOverwriteNothing ==
  ASSUME Inductive, Told, DryRunsKeepItems, NEW p \in Procs,
         \/ \E d \in run[p].state.pending : Fill(p, d) \/ FillFails(p, d)
         \/ SendCreate(p) \/ SendCreateInto(p) \/ FinishCreate(p) \/ LeaveUnfinished(p)
  PROVE  items' = items \/ \A q \in HeldRefs(disk) :
                             items'[disk.held[q].id] = items[disk.held[q].id]
<1>0. /\ items \in [Ids -> RemoteItem]
      /\ \A q \in HeldRefs(disk) : disk.held[q].id \in Ids /\ Born(items, disk.held[q].id)
  BY OfCommand DEF StateOK, HeldItemsAreTheRefs, HeldRefs, PublishState, Item
<1>1. ASSUME NEW d \in run[p].state.pending, Fill(p, d) \/ FillFails(p, d),
             items' # items
      PROVE  \A q \in HeldRefs(disk) : items'[disk.held[q].id] = items[disk.held[q].id]
  <2>1. /\ pc[p] = "fill" /\ PendingId(d) = run[p].id /\ There(run[p].id)
        /\ \A j \in Ids \ {run[p].id} : items'[j] = items[j]
    BY <1>0, <1>1, Zenon DEF Fill, FillFails
  <2>2. Writer(pc[p], run[p])
    BY <1>1, <2>1, DryFill DEF Writer
  <2>3. QED
    BY <1>0, <2>1, <2>2, FillUnheld
<1>2. CASE SendCreate(p)
  <2>1. PICK i \in Ids : /\ items[i].life = "unborn"
                         /\ \A j \in Ids \ {i} : items'[j] = items[j]
    BY <1>0, <1>2 DEF SendCreate
  <2>2. QED
    BY <1>0, <2>1 DEF Born
<1>3. CASE SendCreateInto(p)
  <2>1. /\ pc[p] = "creating" /\ There(Into) /\ IntoOf(run[p].step.ref) # None
        /\ \A j \in Ids \ {Into} : items'[j] = items[j]
    BY <1>0, <1>3 DEF SendCreateInto
  <2>2. Into \in Ids
    BY <2>1, ConstantsAssumption DEF IntoOf
  <2>3. QED
    BY <1>0, <2>1, <2>2, MadeUnheld
<1>4. CASE (FinishCreate(p) \/ LeaveUnfinished(p)) /\ There(run[p].id)
  <2>1. /\ pc[p] = "finishing" /\ \A j \in Ids \ {run[p].id} : items'[j] = items[j]
    BY <1>0, <1>4, Zenon DEF FinishCreate, LeaveUnfinished
  <2>2. run[p].id \in Ids
    BY <2>1, OfCommand DEF ShapeOK, StepOK, ApplyPlaces, StepPlaces
  <2>3. QED
    BY <1>0, <1>4, <2>1, <2>2, MadeUnheld
<1>5. CASE (FinishCreate(p) \/ LeaveUnfinished(p)) /\ ~There(run[p].id)
  BY <1>5 DEF FinishCreate, LeaveUnfinished
<1>6. QED
  BY <1>1, <1>2, <1>3, <1>4, <1>5

\* A write replaces what was read, and what of it was edited was shown.
LEMMA WritesOverwriteWhatWasSeen ==
  ASSUME Inductive, Told, NEW p \in Procs, SendWrite(p) \/ LoseWriteAnswer(p),
         NEW i \in Ids, NEW x \in Compared, UnsavedEdit(i, x), ReplacedBySkaldr(i, x)
  PROVE  Seen(i, x)
<1> DEFINE s == run[p].step
           item == disk.held[s.ref]
           draft == run[p].drafts[s.ref]
           read == run[p].read[s.ref]
<1>1. /\ pc[p] = "writing" /\ pc[p] \in ApplyPlaces /\ s \in Step /\ Planned(run[p], s)
      /\ s.kind = "write"
  BY AtSendWrite, Zenon DEF SendWrite, LoseWriteAnswer
<1>2. /\ disk = run[p].state /\ s.ref \in HeldRefs(disk) /\ items[item.id] \in RemoteItem
      /\ s.parts \in SUBSET Parts /\ draft \in Content /\ item.id \in Ids
      /\ \A y \in Parts : ~item.retiring /\ read[y] # item.remote[y]
                            => <<item.id, y, read[y]>> \in seen
  BY <1>1, AtWrite
<1>3. PICK ps \in SUBSET s.parts :
        /\ items' = [items EXCEPT ![item.id] = Write(items[item.id], s.ref, draft, ps)]
        /\ ~ChangedSinceRead(p, item.id, s)
  <2>1. items' # items
    BY NothingOverwritten
  <2>2. QED
    BY <1>2, <2>1, Zenon DEF SendWrite, LoseWriteAnswer
<1>4. PICK r \in HeldRefs(disk) :
        /\ disk.held[r].id = i /\ ~disk.held[r].retiring
        /\ items[i].text[x] # disk.held[r].remote[x]
  BY DEF UnsavedEdit
<1>5. items'[i].text[x] # items[i].text[x] /\ x \in Parts
  BY ConstantsAssumption DEF ReplacedBySkaldr
<1>6. r = s.ref
  <2>1. \A q \in HeldRefs(disk) \ {s.ref} : items'[disk.held[q].id] = items[disk.held[q].id]
    BY <1>1, <1>2, <1>3, OthersApart, Zenon
  <2>2. QED
    BY <1>4, <1>5, <2>1
<1>7. i = item.id /\ ~item.retiring /\ items[i].text[x] # item.remote[x]
  BY <1>4, <1>6
<1>8. x \in ps
  <2>1. items'[i] = Write(items[i], s.ref, draft, ps)
    BY <1>3, <1>7, OfCommand, Zenon
  <2>2. s.ref \in Refs /\ items[i] \in RemoteItem /\ ps \in SUBSET Parts
    BY <1>2, <1>7, Zenon DEF HeldRefs
  <2>3. items'[i].text = WithParts(items[i].text, Shown(draft), ps)
    BY <1>2, <2>1, <2>2, WriteKeepsLife
  <2>4. QED
    BY <1>5, <2>3 DEF WithParts
<1> HIDE DEF item, read
<1>9. items[i].text[x] = read[x]
  BY <1>3, <1>7, <1>8 DEF ChangedSinceRead, read
<1>10. QED
  BY <1>2, <1>5, <1>7, <1>9 DEF Seen

\* What is being retired is no longer a person's edit to keep.
LEMMA RetirementsOverwriteNothing ==
  ASSUME Inductive, Told, NEW p \in Procs, SendRetire(p) \/ LoseRetireAnswer(p),
         NEW i \in Ids, NEW x, UnsavedEdit(i, x), ReplacedBySkaldr(i, x)
  PROVE  FALSE
<1> DEFINE item == disk.held[run[p].step.ref]
<1>1. pc[p] = "retiring"
  BY Zenon DEF SendRetire, LoseRetireAnswer
<1>2. /\ pc[p] \in ApplyPlaces /\ disk = run[p].state
      /\ run[p].step.ref \in HeldRefs(disk) /\ item.retiring
  BY <1>1, AtRetire
<1>3. items' = items \/ \E new : items' = [items EXCEPT ![item.id] = new]
  <2>1. CASE SendRetire(p)
    BY <1>2, <2>1, Zenon DEF SendRetire
  <2>2. CASE LoseRetireAnswer(p)
    BY <1>2, <2>2, Zenon DEF LoseRetireAnswer
  <2>3. QED
    BY <2>1, <2>2, Zenon
<1>4. \A q \in HeldRefs(disk) \ {run[p].step.ref} :
        items'[disk.held[q].id] = items[disk.held[q].id]
  <2>1. CASE items' = items
    BY <2>1
  <2>2. ASSUME NEW new, items' = [items EXCEPT ![item.id] = new]
        PROVE  \A q \in HeldRefs(disk) \ {run[p].step.ref} :
                 items'[disk.held[q].id] = items[disk.held[q].id]
    BY <1>2, <2>2, OthersApart, Zenon
  <2>3. QED
    BY <1>3, <2>1, <2>2
<1>5. QED
  BY <1>2, <1>4 DEF UnsavedEdit, ReplacedBySkaldr

\* Every step but a dry run's write overwrites only what was shown.
LEMMA NextSeen ==
  ASSUME Inductive, Told, [Next]_vars, [DryRunsKeepItems]_vars
  PROVE  OverwritesOnlyWhatWasSeen
<1>1. SUFFICES ASSUME NEW i \in Ids, NEW x \in Compared, UnsavedEdit(i, x),
                      ReplacedBySkaldr(i, x)
               PROVE  Seen(i, x)
  BY DEF OverwritesOnlyWhatWasSeen
<1>2. items' # items
  BY <1>1, NothingOverwritten
<1>3. Next /\ DryRunsKeepItems
  BY <1>2 DEF vars
<1>4. CASE Person
  BY <1>1, <1>4, PersonReplacesNothing
<1>5. ASSUME NEW p \in Procs, (\E c \in Command : Prepare(p, c)) \/ Advance(p) \/ Stop(p)
      PROVE  Seen(i, x)
  <2>1. CASE \/ \E d \in run[p].state.pending : Fill(p, d) \/ FillFails(p, d)
             \/ SendCreate(p) \/ SendCreateInto(p) \/ FinishCreate(p)
             \/ LeaveUnfinished(p)
    BY <1>1, <1>3, <2>1, CreatesOverwriteNothing, NothingOverwritten
  <2>2. CASE SendWrite(p) \/ LoseWriteAnswer(p)
    BY <1>1, <2>2, WritesOverwriteWhatWasSeen
  <2>3. CASE SendRetire(p) \/ LoseRetireAnswer(p)
    BY <1>1, <2>3, RetirementsOverwriteNothing
  <2>4. CASE (\E c \in Command : Prepare(p, c)) \/ Stop(p) \/ Begin(p) \/ Decide(p)
             \/ StartStep(p) \/ EverythingApplied(p) \/ ReleaseLock(p)
    <3>1. CASE (\E c \in Command : Prepare(p, c)) \/ Stop(p) \/ Begin(p)
      BY <1>2, <3>1 DEF Prepare, Stop, Begin, LockHeldElsewhere,
           YamlChangedSincePlanned, TakeLock
    <3>2. CASE Decide(p)
      BY <1>2, <3>2 DEF Decide, EndDryRun, RefuseMissing, RefuseEdited, RefuseUnseen,
           ShowDiff, ShowEdits, RefuseMissingInto, MakePlan
    <3>3. CASE StartStep(p)
      BY <1>2, <3>3 DEF StartStep, StartCreate, SkipWrite, StartWrite, ForgetMissing,
           StartRetire
    <3>4. CASE EverythingApplied(p) \/ ReleaseLock(p)
      BY <1>2, <3>4 DEF EverythingApplied, ReleaseLock
    <3>5. QED
      BY <2>4, <3>1, <3>2, <3>3, <3>4
  <2>5. CASE Preflight(p) /\ ~\E d \in run[p].state.pending : Fill(p, d) \/ FillFails(p, d)
    BY <1>2, <2>5, Zenon DEF Preflight, Settle, FindLeftEmpty, RefuseInterruptedCreate,
         AllSettled, ReadItem, AllRead, ReadInto, RefuseInto
  <2>6. CASE RejectCreate(p) \/ RejectWrite(p) \/ RejectRetire(p)
    BY <1>2, <2>6, Zenon DEF RejectCreate, RejectWrite, RejectRetire
  <2>7. QED
    BY <1>5, <2>1, <2>2, <2>3, <2>4, <2>5, <2>6 DEF Advance, Send
<1>6. QED
  BY <1>3, <1>4, <1>5 DEF Next

\* In a behaviour in which no dry run writes to the service, a run replaces a person's
\* edit of a compared part only when the last diff of the item showed that text.
THEOREM EditsAreSeenBeforeOverwritten ==
  Spec /\ DryRunWritesNothing => SeenBeforeOverwritten
<1>1. Inductive /\ Told /\ [Next]_vars /\ [DryRunsKeepItems]_vars
        => [OverwritesOnlyWhatWasSeen]_vars
  BY NextSeen
<1>2. DryRunWritesNothing => [][DryRunsKeepItems]_vars
  BY PTL DEF DryRunWritesNothing, DryRunsKeepItems
<1>3. QED
  BY <1>1, <1>2, InductiveInvariant, ToldInvariant, PTL DEF Spec, SeenBeforeOverwritten

------------------------------------------------------------------------------
(* Where the connector fills no page a create left empty no dry run writes   *)

\* No command is about to fill a page.
NothingToFill == \A p \in Procs : pc[p] # "fill"

\* A step of a command moves that command only, and where the connector fills no page
\* it never leads to a fill.
LEMMA OneMoves ==
  ASSUME ~Fills, Inductive, NEW p \in Procs,
         (\E c \in Command : Prepare(p, c)) \/ Advance(p) \/ Stop(p)
  PROVE  \E place, rn : Goto(p, place, rn) /\ place # "fill"
<1>1. ASSUME End(p) PROVE \E place, rn : Goto(p, place, rn) /\ place # "fill"
  BY <1>1 DEF End
<1>2. CASE (\E c \in Command : Prepare(p, c)) \/ Stop(p) \/ Begin(p)
  <2>1. ASSUME NEW c \in Command, Prepare(p, c)
        PROVE  \E place, rn : Goto(p, place, rn) /\ place # "fill"
    <3> DEFINE place == IF c = "dry" THEN "settle" ELSE "prepared"
               rn == [IdleRun EXCEPT !.cmd = c, !.drafts = yaml, !.state = disk]
    <3>1. Goto(p, place, rn) /\ place # "fill"
      BY <2>1 DEF Prepare
    <3> HIDE DEF place, rn
    <3>2. QED
      BY <3>1
  <2>2. CASE TakeLock(p)
    BY <2>2 DEF TakeLock
  <2>3. CASE Stop(p) \/ LockHeldElsewhere(p) \/ YamlChangedSincePlanned(p)
    BY <1>1, <2>3 DEF Stop, LockHeldElsewhere, YamlChangedSincePlanned
  <2>4. QED
    BY <1>2, <2>1, <2>2, <2>3 DEF Begin
<1>3. CASE Preflight(p)
  <2>1. CASE \E d \in run[p].state.pending : Settle(p, d) \/ Fill(p, d)
    BY <2>1 DEF Settle, Fill
  <2>2. CASE \E d \in run[p].state.pending : FindLeftEmpty(p, d) \/ FillFails(p, d)
    BY <1>1, <2>2 DEF FindLeftEmpty, FillFails
  <2>3. CASE RefuseInterruptedCreate(p) \/ RefuseInto(p)
    BY <1>1, <2>3 DEF RefuseInterruptedCreate, RefuseInto
  <2>4. CASE \E r \in Refs : ReadItem(p, r)
    BY <2>4 DEF ReadItem
  <2>5. CASE AllSettled(p) \/ ReadInto(p)
    BY <2>5 DEF AllSettled, ReadInto
  <2>6. CASE AllRead(p)
    BY <2>6 DEF AllRead
  <2>7. QED
    BY <1>3, <2>1, <2>2, <2>3, <2>4, <2>5, <2>6 DEF Preflight
<1>4. CASE Decide(p)
  <2>1. CASE MakePlan(p)
    BY <2>1 DEF MakePlan
  <2>2. CASE ~MakePlan(p)
    BY <1>1, <1>4, <2>2 DEF Decide, EndDryRun, RefuseMissing, RefuseEdited, RefuseUnseen,
         ShowDiff, ShowEdits, RefuseMissingInto
  <2>3. QED
    BY <2>1, <2>2
<1>5. CASE StartStep(p)
  BY <1>5 DEF StartStep, StartCreate, SkipWrite, StartWrite, ForgetMissing, StartRetire,
       Start, StepDone
<1>6. CASE Send(p)
  <2>1. CASE SendCreate(p) \/ SendCreateInto(p)
    BY <2>1 DEF SendCreate, SendCreateInto
  <2>2. CASE FinishCreate(p) \/ SendWrite(p) \/ SendRetire(p)
    <3>1. ASSUME NEW s, NEW st, NEW text, StepDone(p, s, st, text)
          PROVE  \E place, rn : Goto(p, place, rn) /\ place # "fill"
      BY <3>1 DEF StepDone
    <3>2. \E s, st, text : StepDone(p, s, st, text)
      BY <2>2, Zenon DEF FinishCreate, SendWrite, SendRetire
    <3>3. QED
      BY <3>1, <3>2
  <2>3. CASE RejectCreate(p) \/ RejectWrite(p) \/ RejectRetire(p)
    BY <1>1, <2>3, Zenon DEF RejectCreate, RejectWrite, RejectRetire, Rejected
  <2>4. CASE LeaveUnfinished(p) \/ LoseWriteAnswer(p) \/ LoseRetireAnswer(p)
    BY <1>1, <2>4, Zenon DEF LeaveUnfinished, LoseWriteAnswer, LoseRetireAnswer
  <2>5. QED
    BY <1>6, <2>1, <2>2, <2>3, <2>4 DEF Send
<1>7. CASE EverythingApplied(p) \/ ReleaseLock(p)
  BY <1>1, <1>7 DEF EverythingApplied, ReleaseLock
<1>8. QED
  BY <1>2, <1>3, <1>4, <1>5, <1>6, <1>7 DEF Advance

\* A command that changes the service fills a page or applies a plan.
LEMMA WhoChangesItems ==
  ASSUME Inductive, NothingToFill, NEW p \in Procs, items' # items,
         (\E c \in Command : Prepare(p, c)) \/ Advance(p) \/ Stop(p)
  PROVE  pc[p] \in ApplyPlaces
<1>1. CASE (\E c \in Command : Prepare(p, c)) \/ Stop(p) \/ Begin(p)
  BY <1>1 DEF Prepare, Stop, Begin, LockHeldElsewhere, YamlChangedSincePlanned, TakeLock
<1>2. CASE Preflight(p)
  BY <1>2, Zenon DEF Preflight, Settle, FindLeftEmpty, Fill, FillFails, NothingToFill,
       RefuseInterruptedCreate, AllSettled, ReadItem, AllRead, ReadInto, RefuseInto
<1>3. CASE Decide(p)
  BY <1>3 DEF Decide, EndDryRun, RefuseMissing, RefuseEdited, RefuseUnseen,
       ShowDiff, ShowEdits, RefuseMissingInto, MakePlan
<1>4. CASE StartStep(p)
  BY <1>4 DEF StartStep, StartCreate, SkipWrite, StartWrite, ForgetMissing, StartRetire
<1>5. CASE Send(p)
  BY <1>5, Zenon DEF Send, SendCreate, SendCreateInto, RejectCreate, FinishCreate,
       LeaveUnfinished, SendWrite, RejectWrite, LoseWriteAnswer, SendRetire,
       RejectRetire, LoseRetireAnswer, ApplyPlaces, StepPlaces
<1>6. CASE EverythingApplied(p) \/ ReleaseLock(p)
  BY <1>6 DEF EverythingApplied, ReleaseLock
<1>7. QED
  BY <1>1, <1>2, <1>3, <1>4, <1>5, <1>6 DEF Advance

\* No command ever fills a page, and a dry run changes no item.
LEMMA NextUnfilled ==
  ASSUME ~Fills, Inductive, NothingToFill, [Next]_vars
  PROVE  NothingToFill' /\ [DryRunsKeepItems]_vars
<1>1. CASE UNCHANGED vars
  BY <1>1 DEF vars, NothingToFill
<1>2. CASE Person
  <2>1. UNCHANGED <<pc, run>>
    BY <1>2 DEF Person, ReviseYaml, EditItem, RemoveStamp, DeleteItem, ResolveCreate
  <2>2. QED
    BY <2>1 DEF NothingToFill, DryRunsKeepItems, Steps
<1>3. ASSUME NEW p \in Procs, (\E c \in Command : Prepare(p, c)) \/ Advance(p) \/ Stop(p)
      PROVE  NothingToFill' /\ DryRunsKeepItems
  <2>1. PICK place, rn : Goto(p, place, rn) /\ place # "fill"
    BY <1>3, OneMoves
  <2>2. /\ pc'[p] # "fill" /\ \A q \in Procs \ {p} : pc'[q] = pc[q] /\ run'[q] = run[q]
    BY <2>1 DEF Goto, Inductive, TypeOK
  <2>3. NothingToFill'
    BY <2>2 DEF NothingToFill
  <2>4. ASSUME NEW q \in Procs, run[q].cmd = "dry", Steps(q), items' # items PROVE FALSE
    <3>1. q = p
      BY <2>2, <2>4 DEF Steps
    <3>2. pc[p] \in ApplyPlaces
      BY <1>3, <2>4, WhoChangesItems
    <3>3. QED
      BY <2>4, <3>1, <3>2, AtApply
  <2>5. QED
    BY <2>3, <2>4 DEF DryRunsKeepItems
<1>4. QED
  BY <1>1, <1>2, <1>3 DEF Next

\* Where the connector fills no page that a create left empty (Jira, Slack), a dry run
\* leaves the service as it is.
THEOREM DryRunsWriteNothing ==
  ASSUME ~Fills PROVE Spec => DryRunWritesNothing
<1>1. Init => NothingToFill
  BY DEF Init, NothingToFill
<1>2. Inductive /\ NothingToFill /\ [Next]_vars => NothingToFill' /\ [DryRunsKeepItems]_vars
  BY NextUnfilled
<1>3. QED
  BY <1>1, <1>2, InductiveInvariant, PTL DEF Spec, DryRunWritesNothing, DryRunsKeepItems

\* There every write of skaldr's stays explained, and every overwritten edit was seen.
THEOREM EditsAreSafe ==
  ASSUME ~Fills
  PROVE  Spec => []OwnWritesExplained /\ SeenBeforeOverwritten
BY DryRunsWriteNothing, OwnWritesAreExplained, EditsAreSeenBeforeOverwritten, PTL

------------------------------------------------------------------------------
(* What the texts have to do with the drafts stays true                      *)

\* A part stays as it is, comes to be a person's, or goes with its item.
Ebbs(its, its2, i, x) ==
  OwnText(its2, i, x) => OwnText(its, i, x) /\ its2[i].text[x] = its[i].text[x]

\* What is known of a part stays known where the part ebbs.
LEMMA StillFollows ==
  ASSUME NEW its, NEW its2, NEW r \in Refs, NEW x
  PROVE  /\ \A item : Ebbs(its, its2, item.id, x) =>
              /\ Mirrors(its, item, x) => Mirrors(its2, item, x)
              /\ MayMirror(its, item, x) => MayMirror(its2, item, x)
         /\ \A rn : Ebbs(its, its2, rn.state.held[r].id, x) /\ KnownOf(its, rn, r, x)
                      => KnownOf(its2, rn, r, x)
         /\ \A i, draft : Ebbs(its, its2, i, x) /\ HasDraft(its, i, draft, x)
                            => HasDraft(its2, i, draft, x)
BY DEF Ebbs, Mirrors, MayMirror, KnownOf, HasDraft

LEMMA StillFollowsOf ==
  ASSUME NEW its, NEW its2, NEW r \in Refs, NEW x, NEW place, NEW rn,
         FollowsOf(its, place, rn, r, x),
         r \in HeldRefs(rn.state) => Ebbs(its, its2, rn.state.held[r].id, x),
         place = "finishing" => Ebbs(its, its2, rn.id, x)
  PROVE  FollowsOf(its2, place, rn, r, x)
BY StillFollows DEF FollowsOf

\* A command moves on: either it holds the lock, and no other writes, or it
\* changes nothing that others see.
LEMMA FollowsStep ==
  ASSUME Inductive, NEW r \in Refs, NEW x \in Parts, Follows(r, x), NEW p \in Procs,
         NEW place, NEW rn, Goto(p, place, rn),
         Writer(pc[p], run[p]) \/ UNCHANGED <<items, disk>>,
         r \in HeldRefs(disk') => MayMirror(items', disk'.held[r], x),
         Writer(place, rn) => FollowsOf(items', place, rn, r, x)
  PROVE  Follows(r, x)'
<1>1. /\ pc'[p] = place /\ run'[p] = rn
      /\ \A q \in Procs \ {p} : pc'[q] = pc[q] /\ run'[q] = run[q]
  BY DEF Goto, Inductive, TypeOK
<1>2. ASSUME NEW q \in Procs \ {p}, Writer(pc[q], run[q])
      PROVE  FollowsOf(items', pc[q], run[q], r, x)
  <2>1. lock = q
    BY <1>2 DEF Inductive, WriterHoldsTheLock
  <2>2. ~Writer(pc[p], run[p])
    BY <2>1 DEF Inductive, WriterHoldsTheLock
  <2>3. QED
    BY <1>2, <2>2 DEF Follows
<1>3. \A q \in Procs : Writer(pc'[q], run'[q]) =>
        FollowsOf(items', pc'[q], run'[q], r, x)
  BY <1>1, <1>2
<1>4. QED
  BY <1>3 DEF Follows

\* A command that holds the lock ends.
LEMMA FollowsEnd ==
  ASSUME Inductive, NEW r \in Refs, NEW x \in Parts, Follows(r, x), NEW p \in Procs,
         End(p), Writer(pc[p], run[p]) \/ UNCHANGED <<items, disk>>,
         r \in HeldRefs(disk') => MayMirror(items', disk'.held[r], x)
  PROVE  Follows(r, x)'
<1>1. Goto(p, "idle", IdleRun) /\ ~Writer("idle", IdleRun)
  BY IdleOK DEF End
<1>2. QED
  BY <1>1, FollowsStep

\* A command does something only in its own memory.
LEMMA FollowsQuietly ==
  ASSUME Inductive, NEW r \in Refs, NEW x \in Parts, Follows(r, x), NEW p \in Procs,
         UNCHANGED <<items, disk>>,
         \/ End(p)
         \/ \E place, rn : /\ Goto(p, place, rn)
                           /\ Writer(place, rn) => FollowsOf(items, place, rn, r, x)
  PROVE  Follows(r, x)'
<1>1. r \in HeldRefs(disk') => MayMirror(items', disk'.held[r], x)
  BY DEF Follows
<1>2. CASE End(p)
  BY <1>1, <1>2, FollowsEnd
<1>3. CASE \E place, rn : /\ Goto(p, place, rn)
                          /\ Writer(place, rn) => FollowsOf(items, place, rn, r, x)
  BY <1>1, <1>3, FollowsStep
<1>4. QED
  BY <1>2, <1>3

\* The person acts: no command moves.
LEMMA PersonFollows ==
  ASSUME Inductive, NEW r \in Refs, NEW x \in Parts, Follows(r, x), Person
  PROVE  Follows(r, x)'
<1>0. items \in [Ids -> RemoteItem] /\ disk \in PublishState
  BY DEF Inductive, TypeOK
<1>1. \A i \in Ids : Ebbs(items, items', i, x)
  <2>1. ASSUME NEW i \in Ids, EditItem(i)
        PROVE  \A j \in Ids : Ebbs(items, items', j, x)
    <3>1. PICK y \in Parts, t \in {Form[u] : u \in Texts \ {Unkeyed}} :
            items' = [items EXCEPT ![i].text[y] = t, ![i].hand = @ \cup {y}]
      BY <2>1 DEF EditItem
    <3>2. /\ items'[i].life = items[i].life
          /\ items'[i].hand = items[i].hand \cup {y}
          /\ \A z \in Parts \ {y} : items'[i].text[z] = items[i].text[z]
          /\ \A j \in Ids \ {i} : items'[j] = items[j]
      BY <1>0, <3>1 DEF RemoteItem, Content
    <3>3. QED
      BY <3>2 DEF Ebbs, OwnText, Alive
  <2>2. ASSUME NEW i \in Ids, RemoveStamp(i) \/ DeleteItem(i)
        PROVE  \A j \in Ids : Ebbs(items, items', j, x)
    BY <1>0, <2>2 DEF RemoveStamp, DeleteItem, Ebbs, OwnText, Alive, RemoteItem
  <2>3. ASSUME ResolveCreate PROVE \A j \in Ids : Ebbs(items, items', j, x)
    <3>1. PICK d \in disk.pending :
            items' = [i \in Ids |->
               IF /\ items[i].made = d.ref
                  /\ ~\E q \in HeldRefs(disk) : disk.held[q].id = i
                  /\ There(i)
               THEN [items[i] EXCEPT !.life = "gone"] ELSE items[i]]
      BY <2>3 DEF ResolveCreate
    <3>2. QED
      BY <1>0, <3>1 DEF Ebbs, OwnText, Alive, RemoteItem
  <2>4. ASSUME ReviseYaml PROVE \A j \in Ids : Ebbs(items, items', j, x)
    BY <2>4 DEF ReviseYaml, Ebbs
  <2>5. QED
    BY <2>1, <2>2, <2>3, <2>4 DEF Person
<1>2. UNCHANGED <<pc, run>> /\ disk'.held = disk.held
  BY <1>0, DropType DEF Person, ReviseYaml, EditItem, RemoveStamp, DeleteItem, ResolveCreate
<1>3. r \in HeldRefs(disk') => MayMirror(items', disk'.held[r], x)
  <2>1. r \in HeldRefs(disk) => disk.held[r].id \in Ids
    BY <1>0 DEF HeldRefs, PublishState, Item
  <2>2. QED
    BY <1>1, <1>2, <2>1, StillFollows DEF Follows, HeldRefs
<1>4. ASSUME NEW q \in Procs, Writer(pc[q], run[q])
      PROVE  FollowsOf(items', pc[q], run[q], r, x)
  <2>1. r \in HeldRefs(run[q].state) => run[q].state.held[r].id \in Ids
    BY OfCommand DEF HeldRefs, PublishState, Item
  <2>2. pc[q] = "finishing" => run[q].id \in Ids
    BY OfCommand DEF ShapeOK, StepOK, StepPlaces
  <2>3. QED
    BY <1>1, <1>4, <2>1, <2>2, StillFollowsOf DEF Follows
<1>5. QED
  BY <1>2, <1>3, <1>4 DEF Follows

------------------------------------------------------------------------------
(* Follows until a command decides                                           *)

\* Commands that start, and commands that end without a change.
LEMMA QuietFollows ==
  ASSUME Inductive, NEW r \in Refs, NEW x \in Parts, Follows(r, x), NEW p \in Procs,
         \/ \E c \in Command : Prepare(p, c)
         \/ LockHeldElsewhere(p) \/ YamlChangedSincePlanned(p) \/ Stop(p)
         \/ RefuseInterruptedCreate(p) \/ RefuseInto(p) \/ EndDryRun(p)
         \/ RefuseMissing(p) \/ ReleaseLock(p)
  PROVE  Follows(r, x)'
<1>1. CASE \E c \in Command : Prepare(p, c)
  <2>1. PICK c \in Command : Prepare(p, c)
    BY <1>1
  <2> DEFINE place == IF c = "dry" THEN "settle" ELSE "prepared"
             rn == [IdleRun EXCEPT !.cmd = c, !.drafts = yaml, !.state = disk]
  <2>2. Goto(p, place, rn) /\ UNCHANGED <<items, disk>>
    BY <2>1 DEF Prepare
  <2>3. rn.cmd = c
    BY DEF IdleRun
  <2>4. ~Writer(place, rn)
    BY <2>3 DEF Writer
  <2> HIDE DEF place, rn
  <2>5. QED
    BY <2>2, <2>4, FollowsQuietly
<1>2. CASE ~\E c \in Command : Prepare(p, c)
  <2>1. End(p) /\ UNCHANGED <<items, disk>>
    BY <1>2 DEF LockHeldElsewhere, YamlChangedSincePlanned, Stop,
         RefuseInterruptedCreate, RefuseInto, EndDryRun, RefuseMissing, ReleaseLock
  <2>2. QED
    BY <2>1, FollowsQuietly
<1>3. QED
  BY <1>1, <1>2

\* A command that has read no item knows what the state file has.
LEMMA FreshFollows ==
  ASSUME NEW its, NEW place \in FreshPlaces \cup {"read"}, NEW rn, NEW r \in Refs, NEW x,
         r \in HeldRefs(rn.state) => MayMirror(its, rn.state.held[r], x),
         place = "read" => rn.unread = HeldRefs(rn.state)
  PROVE  FollowsOf(its, place, rn, r, x)
BY DEF FollowsOf, FreshPlaces, ReadPlaces, ApplyPlaces, StepPlaces

\* With the lock, a command reads the state file again.
LEMMA TakeLockFollows ==
  ASSUME Inductive, NEW r \in Refs, NEW x \in Parts, Follows(r, x), NEW p \in Procs,
         TakeLock(p)
  PROVE  Follows(r, x)'
<1> DEFINE rn == [run[p] EXCEPT !.drafts = yaml, !.state = disk,
                                !.unread = HeldRefs(disk)]
           place == IF run[p].cmd = "diff" THEN "read" ELSE "settle"
<1>1. rn.state = disk /\ rn.unread = HeldRefs(disk)
  BY OfCommand DEF Run
<1>2. place \in FreshPlaces \cup {"read"} /\ Goto(p, place, rn) /\ UNCHANGED <<items, disk>>
  BY DEF TakeLock, FreshPlaces
<1> HIDE DEF rn, place
<1>3. FollowsOf(items, place, rn, r, x)
  BY <1>1, <1>2, FreshFollows DEF Follows
<1>4. QED
  BY <1>2, <1>3, FollowsQuietly

------------------------------------------------------------------------------
(* Preflight                                                                 *)

\* What is recorded of a text read goes with it.
LEMMA AdoptedMirrors ==
  ASSUME NEW its, NEW d, NEW i, NEW text \in Content, NEW draft, NEW keyed \in BOOLEAN,
         NEW x \in Parts, Form[text[x]] = text[x], its[i].text = text
  PROVE  Mirrors(its, Adopted(d, i, text, draft, keyed), x)
<1> DEFINE item == Adopted(d, i, text, draft, keyed)
           rendered == RenderedWhereItMatches(text, draft, keyed)
<1>1. item.remote = text /\ item.id = i /\ item.rendered = rendered
  BY DEF Adopted, Recorded
<1>2. rendered[x] = Unkeyed \/ text[x] = Form[rendered[x]]
  <2>1. CASE x \in SectionParts /\ ~keyed
    BY <2>1, ConstantsAssumption DEF RenderedWhereItMatches
  <2>2. CASE (x \in FieldParts \/ keyed) /\ draft # None /\ ~(x \in SectionParts /\ ~keyed)
    BY <2>2 DEF RenderedWhereItMatches
  <2>3. CASE ~(x \in SectionParts /\ ~keyed) /\ ~((x \in FieldParts \/ keyed) /\ draft # None)
    BY <2>3 DEF RenderedWhereItMatches
  <2>4. QED
    BY <2>1, <2>2, <2>3
<1> HIDE DEF item, rendered
<1>3. Mirrors(its, item, x)
  BY <1>1, <1>2 DEF Mirrors
<1>4. QED
  BY <1>3 DEF item

\* The item of an interrupted create is recorded as it is in the service.
LEMMA SettleFollows ==
  ASSUME Inductive, Formed, NEW r \in Refs, NEW x \in Parts, Follows(r, x),
         NEW p \in Procs, NEW d \in run[p].state.pending, Settle(p, d)
  PROVE  Follows(r, x)'
<1> DEFINE st == run[p].state
           i == PendingId(d)
           draft == run[p].drafts[d.ref]
           item == Adopted(d, i, items[i].text, draft, Keyed)
           own == There(i) /\ (d.into = None \/ items[i].stamp # None)
           st2 == IF own THEN WithItem(Drop(st, d), d.ref, item) ELSE Drop(st, d)
           rn == [run[p] EXCEPT !.state = st2]
<1>1. /\ pc[p] = "settle" /\ Goto(p, "settle", rn) /\ UNCHANGED <<items, disk>>
      /\ run[p] \in Run /\ st \in PublishState
  BY OfCommand DEF Settle
<1>2. SUFFICES ASSUME Writer("settle", rn)
               PROVE  FollowsOf(items, "settle", rn, r, x)
  BY <1>1, FollowsQuietly
<1>3. rn.state = st2 /\ rn.cmd = run[p].cmd
  BY <1>1 DEF Run
<1>4. r \in HeldRefs(st) => MayMirror(items, st.held[r], x)
  BY <1>1, <1>2, <1>3 DEF Writer, Follows, FollowsOf
<1>5. d.ref \in Refs /\ item \in Item /\ Mirrors(items, item, x)
  <2>1. d \in Pending /\ i \in Ids
    BY <1>1, NoneAssumption DEF PublishState, Settle, Settleable, PendingId, Pending
  <2>2. draft \in Content \cup {None} /\ items[i].text \in Content
    BY <1>1, <2>1, OfCommand DEF Run, Drafts, Pending, RemoteItem
  <2>3. Form[items[i].text[x]] = items[i].text[x] /\ Keyed \in BOOLEAN
    BY <2>1, ConstantsAssumption DEF Formed
  <2>4. item \in Item
    BY <2>1, <2>2, AdoptedType
  <2>5. Mirrors(items, item, x)
    BY <2>2, <2>3, AdoptedMirrors
  <2>6. QED
    BY <2>1, <2>4, <2>5 DEF Pending
<1>6. /\ Drop(st, d) \in PublishState /\ Drop(st, d).held = st.held
  BY <1>1, DropType
<1> HIDE DEF item, own
<1>7. r \in HeldRefs(st2) => MayMirror(items, st2.held[r], x)
  BY <1>4, <1>5, <1>6, WithItemType, SMTT(20) DEF HeldRefs, MayMirror
<1> HIDE DEF rn, st2
<1>8. QED
  BY <1>3, <1>7, FreshFollows DEF FreshPlaces

\* The page was read empty; nothing is recorded yet.
LEMMA FindLeftEmptyFollows ==
  ASSUME Inductive, NEW r \in Refs, NEW x \in Parts, Follows(r, x), NEW p \in Procs,
         NEW d \in run[p].state.pending, FindLeftEmpty(p, d)
  PROVE  Follows(r, x)'
<1> DEFINE rn == [run[p] EXCEPT !.id = PendingId(d)]
<1>1. /\ pc[p] = "settle" /\ Goto(p, "fill", rn) /\ UNCHANGED <<items, disk>>
  BY DEF FindLeftEmpty
<1>2. rn.state = run[p].state /\ rn.cmd = run[p].cmd
  BY OfCommand DEF Run
<1> HIDE DEF rn
<1>3. Writer("fill", rn) => FollowsOf(items, "fill", rn, r, x)
  BY <1>1, <1>2, FreshFollows DEF Writer, Follows, FollowsOf, FreshPlaces
<1>4. QED
  BY <1>1, <1>3, FollowsQuietly

\* The page is filled and recorded as it then is.
LEMMA FillFollows ==
  ASSUME Inductive, Told, Formed', NEW r \in Refs, NEW x \in Parts, Follows(r, x),
         NEW p \in Procs, NEW d \in run[p].state.pending, Fill(p, d),
         run[p].cmd = "dry" => items' = items
  PROVE  Follows(r, x)'
<1> DEFINE st == run[p].state
           i == run[p].id
           draft == run[p].drafts[d.ref]
           filled == Write(items[i], d.ref, draft, Parts)
           item == Adopted(d, i, filled.text, draft, TRUE)
           st2 == WithItem(Drop(st, d), d.ref, item)
           rn == [run[p] EXCEPT !.state = st2, !.id = None]
<1>1. /\ pc[p] = "fill" /\ Goto(p, "settle", rn) /\ UNCHANGED disk
      /\ PendingId(d) = i /\ There(i) /\ items' = [items EXCEPT ![i] = filled]
      /\ run[p] \in Run /\ st \in PublishState /\ disk \in PublishState
      /\ items \in [Ids -> RemoteItem]
  BY OfCommand DEF Fill
<1>2. rn.state = st2 /\ rn.cmd = run[p].cmd
  BY <1>1 DEF Run
<1>3. CASE run[p].cmd = "dry"
  <2>1. ~Writer("settle", rn)
    BY <1>2, <1>3 DEF Writer
  <2> HIDE DEF rn
  <2>2. QED
    BY <1>1, <1>3, <2>1, FollowsQuietly
<1>4. CASE run[p].cmd # "dry"
  <2>1. Writer(pc[p], run[p])
    BY <1>1, <1>4 DEF Writer
  <2>2. /\ r \in HeldRefs(disk) => items'[disk.held[r].id] = items[disk.held[r].id]
        /\ r \in HeldRefs(st) => items'[st.held[r].id] = items[st.held[r].id]
    BY <1>1, <2>1, FillUnheld
  <2>3. /\ r \in HeldRefs(disk) => MayMirror(items', disk.held[r], x)
        /\ r \in HeldRefs(st) => MayMirror(items', st.held[r], x)
    <3> HIDE DEF st
    <3>1. /\ r \in HeldRefs(disk) => MayMirror(items, disk.held[r], x)
          /\ r \in HeldRefs(st) => MayMirror(items, st.held[r], x)
      BY <2>1 DEF Follows, FollowsOf, st
    <3>2. QED
      BY <2>2, <3>1, StillFollows DEF Ebbs, OwnText, Alive
  <2>4. /\ d \in Pending /\ d.ref \in Refs /\ d.into = None /\ i \in Ids
        /\ draft \in Content /\ items[i] \in RemoteItem
    BY <1>1, AtFill
  <2>5. filled.text \in Content /\ items'[i] = filled
    BY <1>1, <2>4, WriteKeepsLife
  <2> HIDE DEF filled
  <2>6. item \in Item /\ Mirrors(items', item, x)
    <3>1. Form[filled.text[x]] = filled.text[x]
      BY <2>4, <2>5 DEF Formed
    <3>2. Mirrors(items', item, x)
      BY <2>5, <3>1, AdoptedMirrors
    <3>3. QED
      BY <2>4, <2>5, <3>2, FilledType
  <2>7. Drop(st, d) \in PublishState /\ Drop(st, d).held = st.held
    BY <1>1, DropType
  <2> HIDE DEF item
  <2>8. r \in HeldRefs(st2) => MayMirror(items', st2.held[r], x)
    BY <2>3, <2>4, <2>6, <2>7, WithItemType, SMTT(20) DEF HeldRefs, MayMirror
  <2> HIDE DEF st2, rn
  <2>9. FollowsOf(items', "settle", rn, r, x)
    BY <1>2, <2>8, FreshFollows DEF FreshPlaces
  <2>10. QED
    BY <1>1, <2>1, <2>3, <2>9, FollowsStep
<1>5. QED
  BY <1>3, <1>4

\* The fill is refused, or part of it lands in a page that no ref holds.
LEMMA FillFailsFollows ==
  ASSUME Inductive, Told, NEW r \in Refs, NEW x \in Parts, Follows(r, x), NEW p \in Procs,
         NEW d \in run[p].state.pending, FillFails(p, d),
         run[p].cmd = "dry" => items' = items
  PROVE  Follows(r, x)'
<1> DEFINE i == run[p].id
<1>1. /\ pc[p] = "fill" /\ End(p) /\ UNCHANGED disk /\ PendingId(d) = i
      /\ items \in [Ids -> RemoteItem] /\ disk \in PublishState
  BY OfCommand DEF FillFails
<1>2. CASE items' = items
  BY <1>1, <1>2, FollowsQuietly
<1>3. CASE items' # items
  <2>1. PICK ps \in SUBSET Parts :
          items' = [items EXCEPT ![i] = Write(@, d.ref, run[p].drafts[d.ref], ps)]
    BY <1>3 DEF FillFails
  <2>2. There(i) /\ Writer(pc[p], run[p])
    BY <1>1, <1>3 DEF FillFails, Writer
  <2>3. \A q \in HeldRefs(disk) : items'[disk.held[q].id] = items[disk.held[q].id]
    BY <1>1, <2>1, <2>2, FillUnheld
  <2>4. r \in HeldRefs(disk') => MayMirror(items', disk'.held[r], x)
    BY <1>1, <2>3, StillFollows DEF Follows, Ebbs, OwnText, Alive
  <2>5. QED
    BY <1>1, <2>2, <2>4, FollowsEnd
<1>4. QED
  BY <1>2, <1>3

\* Everything is settled: every item is still to be read.
LEMMA AllSettledFollows ==
  ASSUME Inductive, NEW r \in Refs, NEW x \in Parts, Follows(r, x), NEW p \in Procs,
         AllSettled(p)
  PROVE  Follows(r, x)'
<1> DEFINE rn == [run[p] EXCEPT !.unread = HeldRefs(run[p].state)]
<1>1. /\ pc[p] = "settle" /\ Goto(p, "read", rn) /\ UNCHANGED <<items, disk>>
  BY DEF AllSettled
<1>2. /\ rn.state = run[p].state /\ rn.cmd = run[p].cmd /\ rn.unread = HeldRefs(rn.state)
  BY OfCommand DEF Run
<1> HIDE DEF rn
<1>3. Writer("read", rn) => FollowsOf(items, "read", rn, r, x)
  BY <1>1, <1>2, FreshFollows DEF Writer, Follows, FollowsOf
<1>4. QED
  BY <1>1, <1>3, FollowsQuietly

\* An item is read for what it is, unless the command overlooks what was put there.
LEMMA FoundMirrors ==
  ASSUME NEW its, NEW item \in Item, NEW x \in Parts, MayMirror(its, item, x),
         LET remote == its[item.id]
         IN  ~ /\ ~item.retiring /\ OwnText(its, item.id, x)
               /\ remote.text[x] = item.remote[x]
               /\ item.rendered[x] # Unkeyed /\ remote.text[x] # Form[item.rendered[x]]
               /\ \/ /\ item.writing # None /\ x \in item.writing.parts
                     /\ remote.text[x] = Form[item.writing.rendered[x]]
                  \/ item.origin = "adopted" /\ remote.text[x] = Blank
  PROVE  LET found == Found(item, its[item.id])
         IN  found.item # None =>
               /\ MayMirror(its, found.item, x)
               /\ ~item.retiring =>
                    /\ ~found.item.retiring /\ Mirrors(its, found.item, x)
                    /\ found.read # None => found.read = its[item.id].text
<1> DEFINE remote == its[item.id]
           found == Found(item, remote)
           differ == Differing(item.remote, remote.text)
           landed == Landed(item, remote.text, differ)
           settled == Settled(item, remote.text, differ)
<1> SUFFICES found.item # None =>
               /\ MayMirror(its, found.item, x)
               /\ ~item.retiring =>
                    /\ ~found.item.retiring /\ Mirrors(its, found.item, x)
                    /\ found.read # None => found.read = remote.text
  OBVIOUS
<1>1. CASE RetiredAlready(item, remote)
  BY <1>1, SMTT(20) DEF Found
<1>2. CASE ~RetiredAlready(item, remote) /\ remote.life # "there"
  BY <1>2 DEF Found, MayMirror, Mirrors, OwnText, Alive
<1>3. CASE ~RetiredAlready(item, remote) /\ remote.life = "there" /\ item.retiring
  BY <1>3 DEF Found
<1>4. CASE ~RetiredAlready(item, remote) /\ remote.life = "there" /\ ~item.retiring
  <2>1. found.item = settled /\ found.read = remote.text
    BY <1>4 DEF Found
  <2>2. Mirrors(its, item, x)
    BY <1>4 DEF MayMirror, Mirrors
  <2>3. /\ settled.id = item.id /\ ~settled.retiring
        /\ remote.text[x] = settled.remote[x] =>
             \/ remote.text[x] = Form[settled.rendered[x]]
             \/ /\ settled.rendered[x] = item.rendered[x]
                /\ remote.text[x] = item.remote[x]
    <3>1. CASE item.writing = None
      BY <1>4, <3>1 DEF Settled
    <3>2. CASE item.writing # None
      <4> DEFINE rendered == WithParts(item.rendered, item.writing.rendered, landed)
      <4>1. /\ settled.id = item.id /\ ~settled.retiring
            /\ settled.rendered = rendered
            /\ settled.remote = IF differ \subseteq landed THEN remote.text
                                ELSE WithParts(item.remote, remote.text, landed)
        BY <1>4, <3>2 DEF Settled, Item
      <4>2. x \in landed => remote.text[x] = Form[item.writing.rendered[x]]
        BY <3>2 DEF Landed
      <4>3. x \notin differ => remote.text[x] = item.remote[x]
        BY DEF Differing
      <4> HIDE DEF landed, differ, settled
      <4>4. CASE x \in landed
        BY <4>1, <4>2, <4>4 DEF WithParts
      <4>5. CASE x \notin landed
        BY <4>1, <4>3, <4>5 DEF WithParts
      <4>6. QED
        BY <4>1, <4>4, <4>5
    <3>3. QED
      BY <3>1, <3>2
  <2> HIDE DEF found, settled, landed, differ
  <2>4. Mirrors(its, settled, x)
    BY <2>2, <2>3 DEF Mirrors
  <2>5. QED
    BY <2>1, <2>3, <2>4 DEF found, MayMirror
<1> HIDE DEF found
<1>5. QED
  BY <1>1, <1>2, <1>3, <1>4

\* A command reads an item of the state file.
LEMMA ReadItemFollows ==
  ASSUME Inductive, NEW r \in Refs, NEW x \in Parts, Follows(r, x), ~Overlooked(r, x),
         NEW p \in Procs, NEW q \in Refs, ReadItem(p, q)
  PROVE  Follows(r, x)'
<1> DEFINE st == run[p].state
           old == st.held[q]
           item == IF run[p].drafts[q] # None THEN [old EXCEPT !.retiring = FALSE]
                                              ELSE old
           found == Found(item, items[item.id])
           missing == IF found.item # None /\ found.read = None
                      THEN run[p].missing \cup {q} ELSE run[p].missing
           rn == [run[p] EXCEPT !.unread = @ \ {q},
                    !.state = WithItem(run[p].state, q, found.item),
                    !.read[q] = found.read, !.missing = missing,
                    !.edited[q] = found.edited]
<1>1. /\ pc[p] = "read" /\ q \in run[p].unread /\ Goto(p, "read", rn)
      /\ UNCHANGED <<items, disk>> /\ items \in [Ids -> RemoteItem]
      /\ run[p] \in Run /\ st \in PublishState /\ ReadsOK(run[p])
  BY OfCommand, Zenon DEF ReadItem, ShapeOK, ReadPlaces
<1>2. old # None /\ old \in Item
  BY <1>1, Zenon DEF ReadsOK, PublishState, Run
<1>3. /\ rn.cmd = run[p].cmd /\ rn.drafts = run[p].drafts
      /\ rn.unread = run[p].unread \ {q} /\ rn.read[q] = found.read
      /\ \A t \in Refs \ {q} : rn.read[t] = run[p].read[t]
      /\ rn.state = WithItem(st, q, found.item)
  BY <1>1, Zenon DEF Run
<1>4. SUFFICES ASSUME Writer("read", run[p])
               PROVE  FollowsOf(items, "read", rn, r, x)
  <2> HIDE DEF rn
  <2>1. Writer("read", rn) => Writer("read", run[p])
    BY <1>3 DEF Writer
  <2>2. QED
    BY <1>1, <2>1, FollowsQuietly
<1>5. FollowsOf(items, "read", run[p], r, x)
  BY <1>1, <1>4 DEF Follows
<1>6. /\ item \in Item /\ item.id = old.id /\ item.origin = old.origin
      /\ item.remote = old.remote /\ item.writing = old.writing
      /\ item.rendered = old.rendered
      /\ run[p].drafts[q] # None => ~item.retiring
      /\ run[p].drafts[q] = None => item = old
  BY <1>2, Zenon DEF Item
<1> HIDE DEF item
<1>7. /\ found.item \in Item \cup {None}
      /\ rn.state.held[q] = found.item
      /\ \A t \in Refs \ {q} : rn.state.held[t] = st.held[t]
  <2>1. items[item.id] \in RemoteItem
    BY <1>1, <1>6, Zenon DEF Item
  <2>2. found.item \in Item \cup {None}
    BY <1>6, <2>1, FoundType
  <2> HIDE DEF found, rn
  <2>3. QED
    BY <1>1, <1>3, <2>2, WithItemType
<1>8. CASE r # q
  <2> HIDE DEF found, rn
  <2>1. /\ rn.state.held[r] = st.held[r] /\ rn.read[r] = run[p].read[r]
        /\ r \in rn.unread <=> r \in run[p].unread
    BY <1>3, <1>7, <1>8
  <2>2. KnownOf(items, run[p], r, x) => KnownOf(items, rn, r, x)
    BY <2>1 DEF KnownOf
  <2>3. "read" \notin ApplyPlaces
    BY DEF ApplyPlaces, StepPlaces
  <2>4. QED
    BY <1>3, <1>5, <2>1, <2>2, <2>3 DEF FollowsOf, HeldRefs, Drafted
<1>9. CASE r = q
  <2>1. MayMirror(items, item, x)
    BY <1>2, <1>5, <1>6, <1>9 DEF FollowsOf, HeldRefs, MayMirror, Mirrors
  <2>2. LET remote == items[item.id]
         IN  ~ /\ ~item.retiring /\ OwnText(items, item.id, x)
               /\ remote.text[x] = item.remote[x]
               /\ item.rendered[x] # Unkeyed /\ remote.text[x] # Form[item.rendered[x]]
               /\ \/ /\ item.writing # None /\ x \in item.writing.parts
                     /\ remote.text[x] = Form[item.writing.rendered[x]]
                  \/ item.origin = "adopted" /\ remote.text[x] = Blank
    <3>1. ~Overlooks(run[p], r, x)
      BY <1>1, <1>4 DEF Overlooked, Writer
    <3>2. QED
      BY <1>1, <1>6, <1>9, <3>1, Zenon DEF Overlooks, There, OwnText, Alive
  <2>3. found.item # None =>
               /\ MayMirror(items, found.item, x)
               /\ ~item.retiring =>
                    /\ ~found.item.retiring /\ Mirrors(items, found.item, x)
                    /\ found.read # None => found.read = items[item.id].text
    BY <1>6, <2>1, <2>2, FoundMirrors, Zenon
  <2>4. found.item # None => found.item.id = item.id
    BY <1>1, <1>6, FoundType, Zenon DEF Item
  <2> HIDE DEF found, rn
  <2>5. found.item # None /\ run[p].drafts[r] # None => KnownOf(items, rn, r, x)
    BY <1>3, <1>6, <1>7, <1>9, <2>3, <2>4 DEF KnownOf
  <2>6. "read" \notin ApplyPlaces
    BY DEF ApplyPlaces, StepPlaces
  <2>7. QED
    BY <1>3, <1>7, <1>9, <2>3, <2>5, <2>6 DEF FollowsOf, HeldRefs, Drafted
<1>10. QED
  BY <1>8, <1>9

\* All items are read.
LEMMA AllReadFollows ==
  ASSUME Inductive, NEW r \in Refs, NEW x \in Parts, Follows(r, x), NEW p \in Procs,
         AllRead(p)
  PROVE  Follows(r, x)'
<1> DEFINE place == IF run[p].cmd # "diff" /\ WritesInto(run[p]) THEN "into" ELSE "decide"
<1>1. /\ pc[p] = "read" /\ Goto(p, place, run[p]) /\ UNCHANGED <<items, disk>>
      /\ place \in {"into", "decide"}
  BY DEF AllRead
<1> HIDE DEF place
<1>2. ASSUME Writer(place, run[p])
      PROVE  FollowsOf(items, place, run[p], r, x)
  <2>1. FollowsOf(items, "read", run[p], r, x)
    BY <1>1, <1>2 DEF Writer, Follows
  <2>2. QED
    BY <1>1, <2>1 DEF FollowsOf, ReadPlaces, ApplyPlaces, StepPlaces
<1>3. QED
  BY <1>1, <1>2, FollowsQuietly

\* The page to write into is read; no ref holds it.
LEMMA ReadIntoFollows ==
  ASSUME Inductive, NEW r \in Refs, NEW x \in Parts, Follows(r, x), NEW p \in Procs,
         ReadInto(p)
  PROVE  Follows(r, x)'
<1> DEFINE text == items[Into].text
           rn == [run[p] EXCEPT !.read[Document] = text]
<1>1. /\ pc[p] = "into" /\ Goto(p, "decide", rn) /\ UNCHANGED <<items, disk>>
      /\ run[p] \in Run /\ run[p].state.held[Document] = None
  BY OfCommand DEF ReadInto, ShapeOK
<1> HIDE DEF text
<1>2. /\ rn.state = run[p].state /\ rn.cmd = run[p].cmd /\ rn.drafts = run[p].drafts
      /\ rn.unread = run[p].unread
      /\ \A q \in Refs \ {Document} : rn.read[q] = run[p].read[q]
  BY <1>1 DEF Run
<1> HIDE DEF rn
<1>3. ASSUME Writer("decide", rn)
      PROVE  FollowsOf(items, "decide", rn, r, x)
  <2>1. FollowsOf(items, "into", run[p], r, x)
    BY <1>1, <1>2, <1>3 DEF Writer, Follows
  <2>2. r \in HeldRefs(run[p].state) => rn.read[r] = run[p].read[r]
    BY <1>1, <1>2 DEF HeldRefs
  <2>3. QED
    BY <1>2, <2>1, <2>2 DEF FollowsOf, KnownOf, Drafted, ReadPlaces, ApplyPlaces, StepPlaces
<1>4. QED
  BY <1>1, <1>3, FollowsQuietly

------------------------------------------------------------------------------
(* The decision                                                              *)

\* What a diff shows leaves what is recorded of the texts as it is.
LEMMA ShowEditsFollows ==
  ASSUME Inductive, NEW r \in Refs, NEW x \in Parts, Follows(r, x), NEW p \in Procs,
         RefuseEdited(p) \/ RefuseUnseen(p) \/ ShowDiff(p)
  PROVE  Follows(r, x)'
<1> DEFINE st == run[p].state
<1>1. PICK rs \in SUBSET EditedRefs(run[p]) : ShowEdits(p, rs)
  BY DEF RefuseEdited, RefuseUnseen, ShowDiff, Unseen
<1> DEFINE st2 == WithShown(run[p], rs)
<1>2. Writer(pc[p], run[p]) /\ st \in PublishState
  BY OfCommand DEF RefuseEdited, RefuseUnseen, ShowDiff, Writer
<1>3. disk' = st2 /\ End(p) /\ UNCHANGED items
  BY <1>1 DEF ShowEdits
<1>4. st2.held[r] = IF r \in rs THEN [st.held[r] EXCEPT !.shown = Token(run[p], r)]
                                ELSE st.held[r]
  BY <1>2 DEF WithShown, PublishState
<1>5. r \in rs => r \in HeldRefs(st)
  BY OfCommand DEF EditedRefs, RefuseEdited, RefuseUnseen, ShowDiff, ShapeOK, ReadPlaces,
                   ReadsOK, HeldRefs
<1>6. r \in HeldRefs(st) => MayMirror(items, st.held[r], x) /\ st.held[r] \in Item
  BY <1>2 DEF Follows, FollowsOf, HeldRefs, PublishState
<1> HIDE DEF st, st2
<1>7. r \in HeldRefs(st2) => MayMirror(items, st2.held[r], x)
  <2>1. CASE r \notin rs
    BY <1>4, <1>6, <2>1 DEF HeldRefs
  <2>2. CASE r \in rs
    <3>1. /\ st2.held[r].id = st.held[r].id /\ st2.held[r].remote = st.held[r].remote
          /\ st2.held[r].rendered = st.held[r].rendered
          /\ st2.held[r].writing = st.held[r].writing
          /\ st2.held[r].origin = st.held[r].origin
      BY <1>4, <1>5, <1>6, <2>2 DEF Item
    <3>2. QED
      BY <1>5, <1>6, <2>2, <3>1 DEF MayMirror, Mirrors
  <2>3. QED
    BY <2>1, <2>2
<1>8. QED
  BY <1>2, <1>3, <1>7, FollowsEnd

\* The page the target names is gone: what was settled is saved.
LEMMA RefuseMissingIntoFollows ==
  ASSUME Inductive, NEW r \in Refs, NEW x \in Parts, Follows(r, x), NEW p \in Procs,
         RefuseMissingInto(p)
  PROVE  Follows(r, x)'
<1>1. /\ Writer(pc[p], run[p]) /\ End(p)
      /\ disk' = run[p].state /\ UNCHANGED items
  BY DEF RefuseMissingInto, MayWrite, Writer
<1>2. QED
  BY <1>1, FollowsEnd DEF Follows, FollowsOf

\* A part for which nothing is planned is in the service as the YAML has it.
LEMMA MakePlanFollows ==
  ASSUME Inductive, Told, AsPlanned, NEW r \in Refs, NEW x \in Parts, Follows(r, x),
         NEW p \in Procs, MakePlan(p)
  PROVE  Follows(r, x)'
<1> DEFINE rn == [run[p] EXCEPT !.todo = Plan(run[p])]
           st == run[p].state
           item == st.held[r]
<1>1. /\ pc[p] = "decide" /\ Writer(pc[p], run[p])
      /\ disk' = st /\ Goto(p, "apply", rn) /\ UNCHANGED items
  BY DEF MakePlan, MayWrite, Writer
<1>2. /\ run[p] \in Run /\ run[p].unread = {} /\ ReadsOK(run[p])
      /\ ToldOf(items, disk, seen, "decide", run[p])
      /\ FollowsOf(items, "decide", run[p], r, x) /\ Named(run[p].drafts)
  BY <1>1, OfCommand, OfTold DEF ShapeOK, ReadPlaces, Follows, AsPlanned, DoesAsPlanned
<1>3. /\ rn.state = st /\ rn.drafts = run[p].drafts /\ rn.read = run[p].read
      /\ rn.todo = Plan(run[p])
  BY <1>2 DEF Run
<1> HIDE DEF rn
<1>4. r \in HeldRefs(st) => MayMirror(items, item, x)
  BY <1>2 DEF FollowsOf
<1>5. ASSUME r \in HeldRefs(st) \cap Drafted(run[p])
      PROVE  /\ KnownOf(items, run[p], r, x) /\ Clean(items, item)
             /\ News(run[p], r) \subseteq run[p].edited[r]
  BY <1>2, <1>5 DEF FollowsOf, ToldOf, ReadPlaces
<1>6. ASSUME r \in HeldRefs(st) \cap Drafted(run[p]), ~Due("apply", rn, r, x),
             OwnText(items, item.id, x)
      PROVE  items[item.id].text[x] = Form[run[p].drafts[r][x]]
  <2>1. \A t \in Plan(run[p]) : t.ref = r =>
          t.kind # "create" /\ (t.kind = "write" => x \notin t.parts)
    BY <1>3, <1>6 DEF Due, StepsLeft, StepPlaces
  <2>2. /\ r \notin Absent(run[p]) /\ x \notin run[p].edited[r]
        /\ item.rendered[x] = run[p].drafts[r][x]
    BY <1>2, <1>6, <2>1, PlanIsWhole
  <2>3. run[p].read[r] # None
    BY <1>2, <1>6, <2>2 DEF Absent, ReadsOK, HeldRefs
  <2>4. run[p].drafts[r][x] # Unkeyed
    BY <1>2, <1>6 DEF Named, Drafted
  <2>5. /\ ~item.retiring /\ run[p].read[r][x] = items[item.id].text[x]
        /\ Mirrors(items, item, x)
    BY <1>5, <1>6, <2>3 DEF KnownOf
  <2>6. items[item.id].text[x] = item.remote[x]
    <3>1. x \notin News(run[p], r)
      BY <1>5, <1>6, <2>2
    <3>2. QED
      BY <2>3, <2>5, <3>1 DEF News
  <2>7. QED
    BY <1>6, <2>2, <2>4, <2>5, <2>6 DEF Mirrors
<1>7. r \in HeldRefs(st) \cap Drafted(run[p]) => KnownOf(items, rn, r, x)
  BY <1>3, <1>5 DEF KnownOf
<1>8. FollowsOf(items', "apply", rn, r, x)
  <2>1. "apply" \in ApplyPlaces /\ Drafted(rn) = Drafted(run[p])
    BY <1>3 DEF ApplyPlaces, Drafted
  <2>2. QED
    BY <1>1, <1>3, <1>4, <1>6, <1>7, <2>1 DEF FollowsOf, HasDraft
<1>9. QED
  BY <1>1, <1>4, <1>8, FollowsStep

------------------------------------------------------------------------------
(* The applier                                                               *)

\* What a command that applies knows of a part.
LEMMA AtFollows ==
  ASSUME Inductive, Told, NEW r \in Refs, NEW x \in Parts, Follows(r, x), NEW p \in Procs,
         pc[p] \in ApplyPlaces
  PROVE  /\ disk = run[p].state /\ Writer(pc[p], run[p])
         /\ FollowsOf(items, pc[p], run[p], r, x)
         /\ r \in HeldRefs(disk) => MayMirror(items, disk.held[r], x)
         /\ r \in HeldRefs(disk) \cap Drafted(run[p]) =>
              /\ KnownOf(items, run[p], r, x)
              /\ ~Due(pc[p], run[p], r, x) =>
                   HasDraft(items, disk.held[r].id, run[p].drafts[r], x)
<1>1. disk = run[p].state /\ Writer(pc[p], run[p])
  BY AllTold, AtApply
<1>2. FollowsOf(items, pc[p], run[p], r, x)
  BY <1>1 DEF Follows
<1>3. QED
  BY <1>1, <1>2 DEF FollowsOf

\* A step moves on that is not about the ref.
LEMMA OtherFollows ==
  ASSUME Inductive, Told, NEW r \in Refs, NEW x \in Parts, Follows(r, x), NEW p \in Procs,
         pc[p] \in ApplyPlaces, NEW place \in ApplyPlaces, NEW rn, Goto(p, place, rn),
         disk' = rn.state, rn.state.held[r] = run[p].state.held[r],
         rn.drafts = run[p].drafts, rn.read[r] = run[p].read[r],
         \A t \in StepsLeft(pc[p], run[p]) : t.ref = r => t \in StepsLeft(place, rn),
         place = "finishing" => rn.step.ref # r,
         r \in HeldRefs(disk) => Ebbs(items, items', disk.held[r].id, x)
  PROVE  Follows(r, x)'
<1>1. /\ disk = run[p].state /\ Writer(pc[p], run[p])
      /\ r \in HeldRefs(disk) => MayMirror(items, disk.held[r], x)
      /\ r \in HeldRefs(disk) \cap Drafted(run[p]) =>
           /\ KnownOf(items, run[p], r, x)
           /\ ~Due(pc[p], run[p], r, x) =>
                HasDraft(items, disk.held[r].id, run[p].drafts[r], x)
  BY AtFollows
<1>2. Due(pc[p], run[p], r, x) => Due(place, rn, r, x)
  BY DEF Due
<1>3. r \in HeldRefs(disk) =>
        /\ MayMirror(items', disk.held[r], x)
        /\ KnownOf(items, run[p], r, x) => KnownOf(items', run[p], r, x)
        /\ HasDraft(items, disk.held[r].id, run[p].drafts[r], x) =>
             HasDraft(items', disk.held[r].id, run[p].drafts[r], x)
  BY <1>1, StillFollows
<1>4. KnownOf(items', run[p], r, x) => KnownOf(items', rn, r, x)
  BY DEF KnownOf
<1>5. FollowsOf(items', place, rn, r, x)
  BY <1>1, <1>2, <1>3, <1>4 DEF FollowsOf, HeldRefs, Drafted
<1>6. QED
  BY <1>1, <1>3, <1>5, FollowsStep DEF HeldRefs

\* A step is begun with a note.
LEMMA BegunFollows ==
  ASSUME Inductive, Told, NEW r \in Refs, NEW x \in Parts, Follows(r, x), NEW p \in Procs,
         pc[p] = "apply", NEW s \in run[p].todo, NEW st, disk' = st, items' = items,
         NEW place \in {"creating", "writing", "retiring"}, Start(p, place, s, st),
         LET old == run[p].state.held[r]
             new == st.held[r]
         IN  \/ new = old
             \/ /\ old # None /\ MayMirror(items, new, x)
                /\ new.id = old.id /\ new.remote = old.remote /\ new.rendered = old.rendered
                /\ run[p].drafts[r] # None => new.retiring = old.retiring
  PROVE  Follows(r, x)'
<1> DEFINE rn == [run[p] EXCEPT !.state = st, !.step = s, !.todo = @ \ {s}]
           old == run[p].state.held[r]
           new == st.held[r]
<1>1. /\ Goto(p, place, rn) /\ pc[p] \in ApplyPlaces /\ place \in ApplyPlaces \cap StepPlaces
      /\ pc[p] \notin StepPlaces /\ place # "finishing"
  BY DEF Start, ApplyPlaces, StepPlaces
<1>2. /\ rn.state = st /\ rn.step = s /\ rn.drafts = run[p].drafts
      /\ rn.todo = run[p].todo \ {s} /\ rn.read = run[p].read
  BY OfCommand DEF Run
<1> HIDE DEF rn
<1>3. StepsLeft(place, rn) = StepsLeft(pc[p], run[p])
  BY <1>1, <1>2 DEF StepsLeft
<1>4. CASE new = old
  <2>1. r \in HeldRefs(disk) => Ebbs(items, items', disk.held[r].id, x)
    BY DEF Ebbs
  <2>2. QED
    BY <1>1, <1>2, <1>3, <1>4, <2>1, OtherFollows
<1>5. CASE /\ old # None /\ MayMirror(items, new, x)
           /\ new.id = old.id /\ new.remote = old.remote /\ new.rendered = old.rendered
           /\ run[p].drafts[r] # None => new.retiring = old.retiring
  <2>1. /\ Writer(pc[p], run[p]) /\ r \in HeldRefs(disk) /\ old = disk.held[r]
        /\ r \in Drafted(run[p]) =>
             /\ KnownOf(items, run[p], r, x)
             /\ ~Due(pc[p], run[p], r, x) => HasDraft(items, old.id, run[p].drafts[r], x)
    BY <1>1, <1>5, AtFollows DEF HeldRefs
  <2>2. Due(pc[p], run[p], r, x) => Due(place, rn, r, x)
    BY <1>3 DEF Due
  <2>3. r \in Drafted(run[p]) /\ KnownOf(items, run[p], r, x) => KnownOf(items, rn, r, x)
    BY <1>2, <1>5 DEF KnownOf, Mirrors, Drafted
  <2>4. FollowsOf(items', place, rn, r, x)
    BY <1>1, <1>2, <1>5, <2>1, <2>2, <2>3 DEF FollowsOf, HeldRefs, Drafted
  <2>5. QED
    BY <1>1, <1>5, <2>1, <2>4, FollowsStep
<1>6. QED
  BY <1>4, <1>5

\* A step is over: its ref goes with what was sent, and no other is touched.
LEMMA DoneFollows ==
  ASSUME Inductive, Told, NEW r \in Refs, NEW x \in Parts, Follows(r, x), NEW p \in Procs,
         pc[p] \in ApplyPlaces, NEW s, s.ref \in Refs, NEW st, NEW text,
         StepDone(p, s, st, text), pc[p] \in StepPlaces => run[p].step = s,
         r # s.ref => /\ st.held[r] = run[p].state.held[r]
                      /\ r \in HeldRefs(disk) => Ebbs(items, items', disk.held[r].id, x),
         r = s.ref /\ st.held[r] # None =>
           /\ MayMirror(items', st.held[r], x)
           /\ run[p].drafts[r] # None =>
                /\ ~st.held[r].retiring /\ Mirrors(items', st.held[r], x)
                /\ text # None /\ OwnText(items', st.held[r].id, x) =>
                     text[x] = items'[st.held[r].id].text[x]
                /\ s.kind = "create" \/ x \in s.parts \/ ~Due(pc[p], run[p], r, x) =>
                     HasDraft(items', st.held[r].id, run[p].drafts[r], x)
  PROVE  Follows(r, x)'
<1> DEFINE rn == [run[p] EXCEPT !.state = st, !.todo = @ \ {s}, !.step = None,
                                !.id = None, !.read[s.ref] = text]
<1>1. /\ Goto(p, "apply", rn) /\ disk' = st /\ "apply" \in ApplyPlaces \ StepPlaces
  BY DEF StepDone, ApplyPlaces, StepPlaces
<1>2. /\ rn.state = st /\ rn.drafts = run[p].drafts /\ rn.todo = run[p].todo \ {s}
      /\ rn.read[s.ref] = text /\ \A q \in Refs \ {s.ref} : rn.read[q] = run[p].read[q]
  BY OfCommand DEF Run
<1> HIDE DEF rn
<1>3. \A t \in StepsLeft(pc[p], run[p]) : t # s => t \in StepsLeft("apply", rn)
  BY <1>1, <1>2 DEF StepsLeft
<1>4. CASE r # s.ref
  BY <1>1, <1>2, <1>3, <1>4, OtherFollows
<1>5. CASE r = s.ref
  <2>1. ~Due("apply", rn, r, x) =>
          s.kind = "create" \/ x \in s.parts \/ ~Due(pc[p], run[p], r, x)
    BY <1>3 DEF Due
  <2>2. Writer(pc[p], run[p])
    BY AtApply
  <2>3. FollowsOf(items', "apply", rn, r, x)
    BY <1>1, <1>2, <1>5, <2>1 DEF FollowsOf, KnownOf, HeldRefs, Drafted
  <2>4. QED
    BY <1>1, <1>5, <2>2, <2>3, FollowsStep DEF HeldRefs
<1>6. QED
  BY <1>4, <1>5

\* The steps of creating, writing and retiring are begun.
LEMMA StartsFollow ==
  ASSUME Inductive, Told, NEW r \in Refs, NEW x \in Parts, Follows(r, x), NEW p \in Procs,
         NEW s \in run[p].todo, StartCreate(p, s) \/ StartWrite(p, s) \/ StartRetire(p, s)
  PROVE  Follows(r, x)'
<1>1. /\ pc[p] = "apply" /\ pc[p] \in ApplyPlaces /\ items' = items
  BY DEF StartCreate, StartWrite, StartRetire, ApplyPlaces
<1>2. /\ s.ref \in Refs /\ s \in Step /\ Planned(run[p], s)
      /\ run[p].state \in PublishState
  BY <1>1, AtApply
<1>3. /\ disk = run[p].state
      /\ r \in HeldRefs(disk) => MayMirror(items, disk.held[r], x)
      /\ r \in HeldRefs(disk) \cap Drafted(run[p]) => KnownOf(items, run[p], r, x)
  BY <1>1, AtFollows
<1>4. CASE StartCreate(p, s)
  <2> DEFINE st == [run[p].state EXCEPT !.pending = @ \cup {PendingOf(s)}]
  <2>1. disk' = st /\ Start(p, "creating", s, st)
    BY <1>4 DEF StartCreate
  <2>2. st.held = run[p].state.held
    BY <1>2 DEF PublishState
  <2> HIDE DEF st
  <2>3. QED
    BY <1>1, <2>1, <2>2, BegunFollows
<1>5. CASE StartWrite(p, s)
  <2> DEFINE note == [parts |-> s.parts, rendered |-> RenderedAfter(run[p], s)]
             old == run[p].state.held[s.ref]
             item == [old EXCEPT !.writing = note]
             st == WithItem(run[p].state, s.ref, item)
  <2>1. disk' = st /\ Start(p, "writing", s, st) /\ s.kind = "write"
    BY <1>5 DEF StartWrite
  <2>2. old \in Item /\ old # None /\ run[p].drafts[s.ref] # None
    BY <1>1, <1>2, <2>1, AtHeldItem DEF Planned
  <2>3. /\ item.id = old.id /\ item.remote = old.remote /\ item.rendered = old.rendered
        /\ item.retiring = old.retiring
    BY <2>2 DEF Item
  <2>4. /\ st.held[s.ref] = item
        /\ \A q \in Refs \ {s.ref} : st.held[q] = run[p].state.held[q]
    BY <1>2 DEF WithItem, PublishState
  <2>5. r = s.ref => MayMirror(items, item, x)
    BY <1>2, <1>3, <2>2, <2>3, Zenon DEF MayMirror, Mirrors, KnownOf, HeldRefs, Drafted
  <2> HIDE DEF st, item, note
  <2>6. QED
    BY <1>1, <2>1, <2>2, <2>3, <2>4, <2>5, BegunFollows, SMTT(20)
<1>6. CASE StartRetire(p, s)
  <2> DEFINE old == run[p].state.held[s.ref]
             item == [old EXCEPT !.retiring = TRUE]
             st == WithItem(run[p].state, s.ref, item)
  <2>1. disk' = st /\ Start(p, "retiring", s, st) /\ s.kind = "retire"
    BY <1>6 DEF StartRetire
  <2>2. old \in Item /\ old # None /\ run[p].drafts[s.ref] = None
    BY <1>1, <1>2, <2>1, AtHeldItem DEF Planned
  <2>3. /\ item.id = old.id /\ item.remote = old.remote /\ item.rendered = old.rendered
        /\ item.writing = old.writing /\ item.origin = old.origin
    BY <2>2 DEF Item
  <2>4. /\ st.held[s.ref] = item
        /\ \A q \in Refs \ {s.ref} : st.held[q] = run[p].state.held[q]
    BY <1>2 DEF WithItem, PublishState
  <2>5. r = s.ref => MayMirror(items, item, x)
    BY <1>2, <1>3, <2>2, <2>3, Zenon DEF MayMirror, Mirrors, HeldRefs
  <2> HIDE DEF st, item
  <2>6. QED
    BY <1>1, <2>1, <2>2, <2>3, <2>4, <2>5, BegunFollows
<1>7. QED
  BY <1>4, <1>5, <1>6

\* What a request that writes a part leaves there.
LEMMA WritesTexts ==
  ASSUME NEW remote \in RemoteItem, NEW q \in Refs, NEW draft \in Content,
         NEW ps \in SUBSET Parts, NEW x \in Parts
  PROVE  LET written == Write(remote, q, draft, ps)
         IN  /\ x \in ps => written.text[x] = Form[draft[x]]
             /\ x \notin ps => /\ written.text[x] = remote.text[x]
                               /\ x \in written.hand <=> x \in remote.hand
             /\ written.life = remote.life
<1>1. Write(remote, q, draft, ps).text = WithParts(remote.text, Shown(draft), ps)
      /\ Write(remote, q, draft, ps).life = remote.life
  BY WriteKeepsLife
<1>2. Write(remote, q, draft, ps).hand = remote.hand \ ps
  BY DEF Write, RemoteItem
<1>3. QED
  BY <1>1, <1>2 DEF WithParts, Shown

\* The item's id is known; what was sent of it is there.
LEMMA SentFollows ==
  ASSUME Inductive, Told, NEW r \in Refs, NEW x \in Parts, Follows(r, x), NEW p \in Procs,
         pc[p] = "creating", NEW i, NEW ps, Goto(p, "finishing", Sent(run[p], i, ps)),
         disk' = disk, r \in HeldRefs(disk) => Ebbs(items, items', disk.held[r].id, x),
         r = run[p].step.ref /\ x \in ps => HasDraft(items', i, run[p].drafts[r], x)
  PROVE  Follows(r, x)'
<1> DEFINE rn == Sent(run[p], i, ps)
<1>1. /\ pc[p] \in ApplyPlaces /\ pc[p] \in StepPlaces
      /\ "finishing" \in ApplyPlaces \cap StepPlaces
  BY DEF ApplyPlaces, StepPlaces
<1>2. run[p].step \in Step /\ run[p].step.ref \in Refs /\ run[p] \in Run
      /\ run[p].step.kind = "create"
  BY AtCreate, OfCommand
<1>3. /\ rn.state = run[p].state /\ rn.drafts = run[p].drafts /\ rn.todo = run[p].todo
      /\ rn.step.ref = run[p].step.ref /\ rn.step.kind = run[p].step.kind
      /\ rn.step.parts = Parts \ ps /\ rn.id = i /\ rn.read = run[p].read
  BY <1>2 DEF Sent, Run, Step
<1>4. /\ disk = run[p].state /\ Writer(pc[p], run[p])
      /\ r \in HeldRefs(disk) => MayMirror(items, disk.held[r], x)
      /\ r \in HeldRefs(disk) \cap Drafted(run[p]) => KnownOf(items, run[p], r, x)
  BY <1>1, AtFollows
<1> HIDE DEF rn
<1>5. CASE r # run[p].step.ref
  <2>1. \A t \in StepsLeft(pc[p], run[p]) : t.ref = r => t \in StepsLeft("finishing", rn)
    BY <1>1, <1>3, <1>5 DEF StepsLeft
  <2>2. QED
    BY <1>1, <1>3, <1>4, <1>5, <2>1, OtherFollows DEF rn
<1>6. CASE r = run[p].step.ref
  <2>1. Due("finishing", rn, r, x)
    BY <1>1, <1>2, <1>3, <1>6 DEF Due, StepsLeft
  <2>2. r \in HeldRefs(disk) =>
          /\ MayMirror(items', disk.held[r], x)
          /\ KnownOf(items, run[p], r, x) => KnownOf(items', run[p], r, x)
    BY <1>4, StillFollows
  <2>3. KnownOf(items', run[p], r, x) => KnownOf(items', rn, r, x)
    BY <1>3 DEF KnownOf
  <2>4. FollowsOf(items', "finishing", rn, r, x)
    BY <1>3, <1>4, <1>6, <2>1, <2>2, <2>3 DEF FollowsOf, HeldRefs, Drafted
  <2>5. QED
    BY <1>4, <2>2, <2>4, FollowsStep DEF rn
<1>7. QED
  BY <1>5, <1>6

\* The first request of a create has landed.
LEMMA SendCreateFollows ==
  ASSUME Inductive, Told, NEW r \in Refs, NEW x \in Parts, Follows(r, x), NEW p \in Procs,
         SendCreate(p)
  PROVE  Follows(r, x)'
<1> DEFINE draft == run[p].drafts[run[p].step.ref]
<1>1. PICK i \in Ids, ps \in FirstLanding :
        /\ items[i].life = "unborn"
        /\ items' = [items EXCEPT ![i] = New(run[p].step.ref, draft, ps)]
        /\ Goto(p, "finishing", Sent(run[p], i, ps))
  BY DEF SendCreate
<1>2. pc[p] = "creating" /\ disk' = disk
  BY DEF SendCreate
<1>3. ASSUME r \in HeldRefs(disk)
      PROVE  Ebbs(items, items', disk.held[r].id, x)
  <2>1. Born(items, disk.held[r].id)
    BY <1>3, OfCommand DEF StateOK, HeldItemsAreTheRefs, HeldRefs
  <2>2. disk.held[r].id # i
    BY <1>1, <2>1 DEF Born
  <2>3. items'[disk.held[r].id] = items[disk.held[r].id]
    BY <1>1, <2>2, OfCommand
  <2>4. QED
    BY <2>3 DEF Ebbs, OwnText, Alive
<1>4. ASSUME r = run[p].step.ref, x \in ps
      PROVE  HasDraft(items', i, run[p].drafts[r], x)
  <2>1. items'[i] = New(run[p].step.ref, draft, ps)
    BY <1>1, OfCommand
  <2>2. items'[i].text = WithParts(Empty, Shown(draft), ps)
    BY <2>1 DEF New
  <2>3. WithParts(Empty, Shown(draft), ps)[x] = Form[draft[x]]
    BY <1>4 DEF WithParts, Shown
  <2>4. QED
    BY <1>4, <2>2, <2>3 DEF HasDraft
<1>5. QED
  BY <1>1, <1>2, <1>3, <1>4, SentFollows

\* The first request into the page the target names has landed.
LEMMA SendCreateIntoFollows ==
  ASSUME Inductive, Told, NEW r \in Refs, NEW x \in Parts, Follows(r, x), NEW p \in Procs,
         SendCreateInto(p)
  PROVE  Follows(r, x)'
<1> DEFINE draft == run[p].drafts[run[p].step.ref]
           released == Release(items[Into], SectionParts, None)
<1>1. PICK ps \in SUBSET SectionParts :
        /\ items' = [items EXCEPT ![Into] = Write(released, run[p].step.ref, draft, ps)]
        /\ Goto(p, "finishing", Sent(run[p], Into, ps))
  BY DEF SendCreateInto
<1>2. /\ pc[p] = "creating" /\ disk' = disk /\ There(Into)
      /\ IntoOf(run[p].step.ref) # None
  BY DEF SendCreateInto
<1>3. Into \in Ids /\ items \in [Ids -> RemoteItem]
  BY <1>2, ConstantsAssumption, OfCommand DEF IntoOf
<1>4. r \in HeldRefs(disk) => items'[disk.held[r].id] = items[disk.held[r].id]
  BY <1>1, <1>2, <1>3, MadeUnheld
<1>5. r \in HeldRefs(disk) => Ebbs(items, items', disk.held[r].id, x)
  BY <1>4 DEF Ebbs, OwnText, Alive
<1>6. ASSUME r = run[p].step.ref, x \in ps
      PROVE  HasDraft(items', Into, run[p].drafts[r], x)
  <2>1. SectionParts \in SUBSET Parts /\ ps \in SUBSET Parts
    BY DEF Parts
  <2>2. released \in RemoteItem
    BY <1>3, <2>1, ReleaseKeepsLife
  <2>3. run[p].step.ref \in Refs /\ draft \in Content
    BY <1>2, AtCreate
  <2> HIDE DEF released, draft
  <2>4. items'[Into].text[x] = Form[draft[x]]
    BY <1>1, <1>3, <1>6, <2>1, <2>2, <2>3, WritesTexts
  <2>5. QED
    BY <1>6, <2>4 DEF HasDraft, draft
<1>7. QED
  BY <1>1, <1>2, <1>5, <1>6, SentFollows

\* The item is recorded as the YAML has it and as it then is.
LEMMA FinishCreateFollows ==
  ASSUME Inductive, Told, NEW r \in Refs, NEW x \in Parts, Follows(r, x), NEW p \in Procs,
         FinishCreate(p)
  PROVE  Follows(r, x)'
<1> DEFINE s == run[p].step
           i == run[p].id
           draft == run[p].drafts[s.ref]
           made == Write(items[i], s.ref, draft, s.parts)
           origin == IF IntoOf(s.ref) = None THEN "created" ELSE "adopted"
           item == Recorded(i, origin, draft, made.text)
           st == WithItem(Drop(run[p].state, PendingOf(s)), s.ref, item)
<1>1. /\ pc[p] = "finishing" /\ There(i) /\ items' = [items EXCEPT ![i] = made]
      /\ StepDone(p, s, st, made.text)
  BY DEF FinishCreate
<1>2. /\ pc[p] \in ApplyPlaces /\ s \in Step /\ s.ref \in Refs /\ draft \in Content
      /\ run[p].state \in PublishState /\ items \in [Ids -> RemoteItem]
      /\ s.kind = "create"
  BY <1>1, AtCreate, OfCommand
<1>3. i \in Ids /\ s.parts \in SUBSET Parts
  BY <1>1, <1>2, OfCommand, Zenon DEF ShapeOK, StepOK, ApplyPlaces, StepPlaces, Step
<1>4. r \in HeldRefs(disk) => items'[disk.held[r].id] = items[disk.held[r].id]
  BY <1>1, <1>2, <1>3, MadeUnheld
<1>5. /\ made.text \in Content /\ items'[i] = made
      /\ x \in s.parts => made.text[x] = Form[draft[x]]
      /\ x \notin s.parts => /\ made.text[x] = items[i].text[x]
                             /\ x \in made.hand <=> x \in items[i].hand
      /\ made.life = items[i].life
  <2>1. items[i] \in RemoteItem /\ items'[i] = made
    BY <1>1, <1>2, <1>3
  <2> HIDE DEF s, i, draft
  <2>2. QED
    BY <1>2, <1>3, <2>1, WriteKeepsLife, WritesTexts
<1> HIDE DEF made
<1>6. /\ item \in Item /\ item.id = i /\ item.remote = made.text /\ item.rendered = draft
      /\ ~item.retiring
  BY <1>2, <1>3, <1>5, RecordedType DEF Origin, Recorded
<1> HIDE DEF item
<1>7. Drop(run[p].state, PendingOf(s)).held = run[p].state.held
      /\ Drop(run[p].state, PendingOf(s)) \in PublishState
  BY <1>2, DropType
<1>8. /\ st.held[s.ref] = item
      /\ \A q \in Refs \ {s.ref} : st.held[q] = run[p].state.held[q]
  BY <1>2, <1>6, <1>7, WithItemType
<1> HIDE DEF st
<1>9. r \in HeldRefs(disk) => Ebbs(items, items', disk.held[r].id, x)
  BY <1>4 DEF Ebbs, OwnText, Alive
<1>10. r = s.ref => HasDraft(items', i, draft, x)
  <2>1. r = s.ref /\ x \notin s.parts => HasDraft(items, i, draft, x)
    BY <1>1, <1>2, AtFollows DEF FollowsOf
  <2>2. QED
    BY <1>5, <2>1 DEF HasDraft, OwnText, Alive
<1>11. r = s.ref => Mirrors(items', item, x)
  BY <1>5, <1>6, <1>10 DEF HasDraft, Mirrors
<1>12. r = s.ref => MayMirror(items', item, x)
  BY <1>11 DEF MayMirror
<1>13. made.text[x] = items'[i].text[x]
  BY <1>5
<1>14. r = s.ref => run[p].drafts[r] = draft
  OBVIOUS
<1>15. item # None
  BY <1>6, NoneAssumption
<1> HIDE DEF draft, i, s
<1>16. r # s.ref => /\ st.held[r] = run[p].state.held[r]
                    /\ r \in HeldRefs(disk) => Ebbs(items, items', disk.held[r].id, x)
  BY <1>8, <1>9
<1>17. r = s.ref /\ st.held[r] # None =>
         /\ MayMirror(items', st.held[r], x)
         /\ run[p].drafts[r] # None =>
              /\ ~st.held[r].retiring /\ Mirrors(items', st.held[r], x)
              /\ made.text # None /\ OwnText(items', st.held[r].id, x) =>
                   made.text[x] = items'[st.held[r].id].text[x]
              /\ s.kind = "create" \/ x \in s.parts \/ ~Due(pc[p], run[p], r, x) =>
                   HasDraft(items', st.held[r].id, run[p].drafts[r], x)
  BY <1>6, <1>8, <1>10, <1>11, <1>12, <1>13, <1>14
<1>18. pc[p] \in StepPlaces => run[p].step = s
  BY DEF s
<1>19. QED
  BY <1>1, <1>2, <1>16, <1>17, <1>18, DoneFollows

\* Nothing had to be sent: the service holds the draft of the step's parts.
LEMMA SkipWriteFollows ==
  ASSUME Inductive, Told, NEW r \in Refs, NEW x \in Parts, Follows(r, x), NEW p \in Procs,
         NEW s \in run[p].todo, SkipWrite(p, s)
  PROVE  Follows(r, x)'
<1> DEFINE old == run[p].state.held[s.ref]
           draft == run[p].drafts[s.ref]
           text == run[p].read[s.ref]
           item == [old EXCEPT !.rendered = RenderedAfter(run[p], s)]
           st == WithItem(run[p].state, s.ref, item)
<1>1. /\ pc[p] = "apply" /\ pc[p] \in ApplyPlaces \ StepPlaces /\ items' = items
      /\ StepDone(p, s, st, text) /\ s.kind = "write"
      /\ NothingToSend(run[p], s)
  BY DEF SkipWrite, ApplyPlaces, StepPlaces
<1>2. /\ s.ref \in Refs /\ s \in Step /\ Planned(run[p], s)
      /\ run[p].state \in PublishState
  BY <1>1, AtApply
<1>3. /\ old \in Item /\ old # None /\ draft \in Content /\ text \in Content
      /\ s.parts \in SUBSET Parts
  BY <1>1, <1>2, AtHeldItem
<1>4. RenderedAfter(run[p], s)[x] = IF x \in s.parts THEN draft[x] ELSE old.rendered[x]
  BY DEF RenderedAfter, WithParts
<1>5. /\ item.id = old.id /\ item.remote = old.remote /\ item.retiring = old.retiring
      /\ item.rendered = RenderedAfter(run[p], s)
  BY <1>3 DEF Item
<1>6. /\ st.held[s.ref] = item
      /\ \A q \in Refs \ {s.ref} : st.held[q] = run[p].state.held[q]
  BY <1>2 DEF WithItem, PublishState
<1>7. disk = run[p].state
  BY <1>1, AtFollows
<1>8. r = s.ref =>
        /\ ~old.retiring /\ Mirrors(items, old, x)
        /\ OwnText(items, old.id, x) => text[x] = items[old.id].text[x]
        /\ ~Due(pc[p], run[p], r, x) => HasDraft(items, old.id, draft, x)
  <2>1. SUFFICES ASSUME r = s.ref
                 PROVE  /\ ~old.retiring /\ Mirrors(items, old, x)
                        /\ OwnText(items, old.id, x) => text[x] = items[old.id].text[x]
                        /\ ~Due(pc[p], run[p], r, x) => HasDraft(items, old.id, draft, x)
    OBVIOUS
  <2>2. r \in HeldRefs(disk) \cap Drafted(run[p])
    BY <1>3, <1>7, <2>1, NoneAssumption DEF HeldRefs, Drafted
  <2>3. KnownOf(items, run[p], r, x)
        /\ (~Due(pc[p], run[p], r, x) => HasDraft(items, disk.held[r].id, run[p].drafts[r], x))
    BY <1>1, <2>2, AtFollows
  <2>4. QED
    BY <1>3, <1>7, <2>1, <2>3, NoneAssumption DEF KnownOf
<1>9. x \in s.parts => draft[x] = Blank /\ text[x] = Blank /\ Form[draft[x]] = Blank
  BY <1>1, ConstantsAssumption, SMTT(20) DEF NothingToSend
<1> HIDE DEF item, st
<1>10. r = s.ref => Mirrors(items, item, x)
  BY <1>4, <1>5, <1>8, <1>9, SMTT(20) DEF Mirrors
<1>11. r = s.ref /\ OwnText(items, item.id, x) => text[x] = items[item.id].text[x]
  BY <1>5, <1>8
<1>12. r = s.ref /\ (x \in s.parts \/ ~Due(pc[p], run[p], r, x)) =>
         HasDraft(items, item.id, draft, x)
  <2>1. CASE x \in s.parts
    BY <1>9, <1>11, <2>1 DEF HasDraft
  <2>2. CASE x \notin s.parts
    BY <1>5, <1>8, <2>2
  <2>3. QED
    BY <2>1, <2>2
<1>13. r = s.ref => run[p].drafts[r] = draft /\ ~item.retiring
  BY <1>5, <1>8
<1> HIDE DEF draft, text, old
<1>14. r # s.ref => /\ st.held[r] = run[p].state.held[r]
                    /\ r \in HeldRefs(disk) => Ebbs(items, items', disk.held[r].id, x)
  BY <1>1, <1>6 DEF Ebbs
<1>15. r = s.ref /\ st.held[r] # None =>
         /\ MayMirror(items', st.held[r], x)
         /\ run[p].drafts[r] # None =>
              /\ ~st.held[r].retiring /\ Mirrors(items', st.held[r], x)
              /\ text # None /\ OwnText(items', st.held[r].id, x) =>
                   text[x] = items'[st.held[r].id].text[x]
              /\ s.kind = "create" \/ x \in s.parts \/ ~Due(pc[p], run[p], r, x) =>
                   HasDraft(items', st.held[r].id, run[p].drafts[r], x)
  BY <1>1, <1>6, <1>10, <1>11, <1>12, <1>13 DEF MayMirror
<1>16. QED
  BY <1>1, <1>2, <1>14, <1>15, DoneFollows

\* The parts of the step hold the draft, and the note says what is recorded.
LEMMA SendWriteFollows ==
  ASSUME Inductive, Told, AsPlanned, NEW r \in Refs, NEW x \in Parts, Follows(r, x),
         NEW p \in Procs, SendWrite(p)
  PROVE  Follows(r, x)'
<1> DEFINE s == run[p].step
           old == run[p].state.held[s.ref]
           draft == run[p].drafts[s.ref]
           written == Write(items[old.id], s.ref, draft, s.parts)
           item == [old EXCEPT !.rendered = old.writing.rendered,
                      !.remote = WithParts(@, written.text, s.parts),
                      !.shown = {}, !.writing = None]
           st == WithItem(run[p].state, s.ref, item)
           text == WithParts(run[p].read[s.ref], written.text, s.parts)
<1>1. /\ pc[p] = "writing" /\ pc[p] \in ApplyPlaces \cap StepPlaces
      /\ items' = [items EXCEPT ![old.id] = written]
      /\ StepDone(p, s, st, text)
  BY Zenon DEF SendWrite, ApplyPlaces, StepPlaces
<1>2. /\ s \in Step /\ s.ref \in Refs /\ s.kind = "write" /\ s.parts \in SUBSET Parts
      /\ old \in Item /\ old # None /\ draft \in Content /\ old.writing \in Writing
      /\ run[p].state \in PublishState /\ items[old.id] \in RemoteItem /\ old.id \in Ids
      /\ run[p].read[s.ref] \in Content /\ items \in [Ids -> RemoteItem]
  <2>1. /\ s \in Step /\ s.ref \in Refs /\ s.kind = "write" /\ s.parts \in SUBSET Parts
        /\ old \in Item /\ old # None /\ draft \in Content /\ old.writing \in Writing
        /\ run[p].state \in PublishState /\ items[old.id] \in RemoteItem
    BY <1>1, AtSend, AtStep, OfCommand, Zenon DEF StepOK
  <2>2. Planned(run[p], s)
    BY <1>1, AtSendWrite, Zenon
  <2>3. old.id \in Ids /\ run[p].read[s.ref] \in Content
    BY <1>1, <2>1, <2>2, AtHeldItem, Zenon
  <2>4. QED
    BY <2>1, <2>3, OfCommand
<1>3. old.writing.rendered[x] = IF x \in s.parts THEN draft[x] ELSE old.rendered[x]
  BY <1>1, Zenon DEF AsPlanned, DoesAsPlanned, RenderedAfter, WithParts
<1>4. /\ item.id = old.id /\ item.remote = WithParts(old.remote, written.text, s.parts)
      /\ item.retiring = old.retiring /\ item.rendered = old.writing.rendered
  BY <1>2 DEF Item
<1>5. /\ st.held[s.ref] = item
      /\ \A q \in Refs \ {s.ref} : st.held[q] = run[p].state.held[q]
  BY <1>2, Zenon DEF WithItem, PublishState
<1>6. disk = run[p].state
  BY <1>1, AtFollows, Zenon
<1>7. r = s.ref =>
        /\ ~old.retiring /\ Mirrors(items, old, x)
        /\ OwnText(items, old.id, x) => run[p].read[s.ref][x] = items[old.id].text[x]
        /\ ~Due(pc[p], run[p], r, x) => HasDraft(items, old.id, draft, x)
  <2>1. SUFFICES ASSUME r = s.ref
                 PROVE  /\ ~old.retiring /\ Mirrors(items, old, x)
                        /\ OwnText(items, old.id, x) =>
                             run[p].read[s.ref][x] = items[old.id].text[x]
                        /\ ~Due(pc[p], run[p], r, x) => HasDraft(items, old.id, draft, x)
    OBVIOUS
  <2>2. r \in HeldRefs(disk) \cap Drafted(run[p])
    BY <1>2, <1>6, <2>1, NoneAssumption DEF HeldRefs, Drafted
  <2>3. KnownOf(items, run[p], r, x)
        /\ (~Due(pc[p], run[p], r, x) => HasDraft(items, disk.held[r].id, run[p].drafts[r], x))
    BY <1>1, <2>2, AtFollows, Zenon
  <2>4. QED
    BY <1>2, <1>6, <2>1, <2>3, NoneAssumption, Zenon DEF KnownOf
<1>8. /\ x \in s.parts => written.text[x] = Form[draft[x]]
      /\ x \notin s.parts => /\ written.text[x] = items[old.id].text[x]
                             /\ x \in written.hand <=> x \in items[old.id].hand
      /\ written.life = items[old.id].life
  <2> HIDE DEF s, draft, old
  <2>1. QED
    BY <1>2, WritesTexts
<1>9. items'[old.id] = written
  BY <1>1, <1>2, Zenon
<1>10. /\ x \in s.parts => text[x] = written.text[x]
       /\ x \notin s.parts => text[x] = run[p].read[s.ref][x]
       /\ x \in s.parts => item.remote[x] = written.text[x]
       /\ x \notin s.parts => item.remote[x] = old.remote[x]
  BY <1>4, Zenon DEF WithParts
<1>11. r # s.ref /\ r \in HeldRefs(disk) => Ebbs(items, items', disk.held[r].id, x)
  <2>1. s.ref \in HeldRefs(disk) /\ old.id = disk.held[s.ref].id
    BY <1>2, <1>6 DEF HeldRefs
  <2>2. r # s.ref /\ r \in HeldRefs(disk) => items'[disk.held[r].id] = items[disk.held[r].id]
    BY <1>1, <2>1, OthersApart, Zenon
  <2>3. QED
    BY <2>2 DEF Ebbs, OwnText, Alive
<1> HIDE DEF item, st, text, written
<1>12. x \notin s.parts => /\ OwnText(items', old.id, x) <=> OwnText(items, old.id, x)
                           /\ items'[old.id].text[x] = items[old.id].text[x]
  BY <1>8, <1>9, Zenon DEF OwnText, Alive
<1>13. r = s.ref => Mirrors(items', item, x)
  <2>1. CASE x \in s.parts
    BY <1>3, <1>4, <1>8, <1>10, <2>1, Zenon DEF Mirrors
  <2>2. CASE x \notin s.parts
    BY <1>3, <1>4, <1>7, <1>10, <1>12, <2>2, Zenon DEF Mirrors
  <2>3. QED
    BY <2>1, <2>2
<1>14. r = s.ref /\ (x \in s.parts \/ ~Due(pc[p], run[p], r, x)) =>
         HasDraft(items', item.id, draft, x)
  BY <1>4, <1>7, <1>8, <1>9, <1>12, Zenon DEF HasDraft
<1>15. r = s.ref /\ OwnText(items', item.id, x) => text[x] = items'[item.id].text[x]
  BY <1>4, <1>7, <1>9, <1>10, <1>12, Zenon
<1>16. r = s.ref => run[p].drafts[r] = draft /\ ~item.retiring
  BY <1>4, <1>7, Zenon
<1>17. pc[p] \in StepPlaces => run[p].step = s
  OBVIOUS
<1> HIDE DEF draft, old, s
<1>18. r # s.ref => /\ st.held[r] = run[p].state.held[r]
                    /\ r \in HeldRefs(disk) => Ebbs(items, items', disk.held[r].id, x)
  BY <1>5, <1>11
<1>19. r = s.ref /\ st.held[r] # None =>
         /\ MayMirror(items', st.held[r], x)
         /\ run[p].drafts[r] # None =>
              /\ ~st.held[r].retiring /\ Mirrors(items', st.held[r], x)
              /\ text # None /\ OwnText(items', st.held[r].id, x) =>
                   text[x] = items'[st.held[r].id].text[x]
              /\ s.kind = "create" \/ x \in s.parts \/ ~Due(pc[p], run[p], r, x) =>
                   HasDraft(items', st.held[r].id, run[p].drafts[r], x)
  BY <1>2, <1>5, <1>13, <1>14, <1>15, <1>16 DEF MayMirror
<1>20. QED
  BY <1>1, <1>2, <1>17, <1>18, <1>19, DoneFollows, Zenon

\* The record of what is retired goes; nothing else is touched.
LEMMA RetiredFollows ==
  ASSUME Inductive, Told, NEW r \in Refs, NEW x \in Parts, Follows(r, x), NEW p \in Procs,
         (\E s \in run[p].todo : ForgetMissing(p, s)) \/ SendRetire(p)
  PROVE  Follows(r, x)'
<1>1. PICK s : /\ StepDone(p, s, WithItem(run[p].state, s.ref, None), None)
               /\ s.ref \in Refs
               /\ pc[p] \in ApplyPlaces /\ (pc[p] \in StepPlaces => s = run[p].step)
               /\ r # s.ref /\ r \in HeldRefs(disk) =>
                    items'[disk.held[r].id] = items[disk.held[r].id]
  <2>1. ASSUME NEW s \in run[p].todo, ForgetMissing(p, s)
        PROVE  /\ StepDone(p, s, WithItem(run[p].state, s.ref, None), None)
               /\ s.ref \in Refs /\ items' = items
               /\ pc[p] \in ApplyPlaces /\ pc[p] \notin StepPlaces
    <3>1. /\ pc[p] = "apply" /\ items' = items
          /\ StepDone(p, s, WithItem(run[p].state, s.ref, None), None)
      BY <2>1 DEF ForgetMissing
    <3>2. pc[p] \in ApplyPlaces /\ pc[p] \notin StepPlaces
      BY <3>1 DEF ApplyPlaces, StepPlaces
    <3>3. QED
      BY <3>1, <3>2, AtApply
  <2>2. ASSUME SendRetire(p)
        PROVE  LET s == run[p].step
               IN  /\ StepDone(p, s, WithItem(run[p].state, s.ref, None), None)
                   /\ s.ref \in Refs /\ pc[p] \in ApplyPlaces
                   /\ r # s.ref /\ r \in HeldRefs(disk) =>
                        items'[disk.held[r].id] = items[disk.held[r].id]
    <3> DEFINE s == run[p].step
               item == run[p].state.held[s.ref]
    <3>1. /\ pc[p] = "retiring"
          /\ StepDone(p, s, WithItem(run[p].state, s.ref, None), None)
      BY <2>2 DEF SendRetire
    <3>2. PICK after : items' = [items EXCEPT ![item.id] = after]
      BY <2>2, Zenon DEF SendRetire
    <3>3. /\ pc[p] \in ApplyPlaces /\ s.ref \in Refs /\ s.ref \in HeldRefs(disk)
          /\ item.id = disk.held[s.ref].id
      BY <3>1, AtRetire
    <3>4. r # s.ref /\ r \in HeldRefs(disk) =>
            items'[disk.held[r].id] = items[disk.held[r].id]
      BY <3>2, <3>3, OthersApart, Zenon
    <3>5. QED
      BY <3>1, <3>3, <3>4, SMTT(20)
  <2>3. QED
    BY <2>1, <2>2
<1> DEFINE st == WithItem(run[p].state, s.ref, None)
<1>2. /\ st.held[s.ref] = None
      /\ \A q \in Refs \ {s.ref} : st.held[q] = run[p].state.held[q]
  BY <1>1, OfCommand, WithItemType
<1>3. StepDone(p, s, st, None)
  BY <1>1
<1> HIDE DEF st
<1>4. r # s.ref => /\ st.held[r] = run[p].state.held[r]
                   /\ r \in HeldRefs(disk) => Ebbs(items, items', disk.held[r].id, x)
  BY <1>1, <1>2 DEF Ebbs, OwnText, Alive
<1>5. QED
  BY <1>1, <1>2, <1>3, <1>4, DoneFollows

\* A command that applies ends: no record changes, and the part ebbs.
LEMMA UnrecordedFollows ==
  ASSUME Inductive, Told, NEW r \in Refs, NEW x \in Parts, Follows(r, x), NEW p \in Procs,
         pc[p] \in ApplyPlaces, End(p), disk'.held = disk.held,
         r \in HeldRefs(disk) => Ebbs(items, items', disk.held[r].id, x)
  PROVE  Follows(r, x)'
<1>1. Writer(pc[p], run[p])
      /\ (r \in HeldRefs(disk) => MayMirror(items, disk.held[r], x))
  BY AtFollows
<1>2. r \in HeldRefs(disk) => MayMirror(items', disk.held[r], x)
  BY <1>1, StillFollows
<1>3. r \in HeldRefs(disk') => MayMirror(items', disk'.held[r], x)
  BY <1>2 DEF HeldRefs
<1>4. QED
  BY <1>1, <1>3, FollowsEnd

\* The record of the step's ref changes, and no item.
LEMMA RejectedFollows ==
  ASSUME Inductive, Told, NEW r \in Refs, NEW x \in Parts, Follows(r, x), NEW p \in Procs,
         pc[p] \in ApplyPlaces, NEW q \in Refs, NEW item,
         Rejected(p, WithItem(run[p].state, q, item)), items' = items,
         r = q => MayMirror(items, item, x)
  PROVE  Follows(r, x)'
<1>1. /\ Writer(pc[p], run[p]) /\ disk = run[p].state /\ disk \in PublishState
      /\ r \in HeldRefs(disk) => MayMirror(items, disk.held[r], x)
  BY AtFollows, OfCommand
<1>2. End(p) /\ disk' = WithItem(disk, q, item)
  BY <1>1 DEF Rejected
<1>3. disk'.held[q] = item /\ \A o \in Refs \ {q} : disk'.held[o] = disk.held[o]
  BY <1>1, <1>2 DEF WithItem, PublishState
<1>4. r \in HeldRefs(disk') => MayMirror(items', disk'.held[r], x)
  BY <1>1, <1>3 DEF HeldRefs
<1>5. QED
  BY <1>1, <1>2, <1>4, FollowsEnd

\* A create that is rejected leaves no item behind, one left unfinished no record.
LEMMA CreateEndsFollow ==
  ASSUME Inductive, Told, NEW r \in Refs, NEW x \in Parts, Follows(r, x), NEW p \in Procs,
         RejectCreate(p) \/ LeaveUnfinished(p)
  PROVE  Follows(r, x)'
<1> DEFINE s == run[p].step
           i == run[p].id
           noted == [PendingOf(s) EXCEPT !.id = i]
           st == run[p].state
<1>1. /\ pc[p] \in {"creating", "finishing"} /\ End(p)
      /\ RejectCreate(p) => disk' = Drop(st, PendingOf(s)) /\ items' = items
      /\ LeaveUnfinished(p) =>
           /\ pc[p] = "finishing"
           /\ disk' = IF IntoOf(s.ref) # None THEN disk
                      ELSE [st EXCEPT !.pending = (@ \ {PendingOf(s)}) \cup {noted}]
  BY DEF RejectCreate, LeaveUnfinished, Rejected
<1>2. /\ pc[p] \in ApplyPlaces /\ st \in PublishState /\ disk = st
      /\ items \in [Ids -> RemoteItem]
  BY <1>1, AtCreate, AllTold, OfCommand
<1>3. disk'.held = disk.held
  BY <1>1, <1>2, DropType DEF PublishState
<1>4. r \in HeldRefs(disk) => items'[disk.held[r].id] = items[disk.held[r].id]
  <2>1. CASE items' = items
    BY <2>1
  <2>2. CASE LeaveUnfinished(p) /\ There(i)
    <3>1. i \in Ids
      BY <1>1, <2>2, OfCommand, SMTT(20) DEF ShapeOK, StepOK, ApplyPlaces, StepPlaces
    <3>2. \A j \in Ids \ {i} : items'[j] = items[j]
      BY <1>2, <2>2 DEF LeaveUnfinished
    <3>3. r \in HeldRefs(disk) => disk.held[r].id # i /\ disk.held[r].id \in Ids
      BY <1>1, <1>2, <2>2, <3>1, MadeUnheld DEF PublishState, Item, HeldRefs
    <3>4. QED
      BY <3>2, <3>3
  <2>3. CASE LeaveUnfinished(p) /\ ~There(i)
    BY <2>1, <2>3 DEF LeaveUnfinished
  <2>4. QED
    BY <1>1, <2>1, <2>2, <2>3
<1>5. r \in HeldRefs(disk) => Ebbs(items, items', disk.held[r].id, x)
  BY <1>4 DEF Ebbs, OwnText, Alive
<1>6. QED
  BY <1>1, <1>2, <1>3, <1>5, UnrecordedFollows, SMTT(20)

\* The note of a write that is rejected is taken back: the part was known.
LEMMA RejectWriteFollows ==
  ASSUME Inductive, Told, NEW r \in Refs, NEW x \in Parts, Follows(r, x), NEW p \in Procs,
         RejectWrite(p)
  PROVE  Follows(r, x)'
<1> DEFINE s == run[p].step
           old == run[p].state.held[s.ref]
           item == [old EXCEPT !.writing = None]
<1>1. /\ pc[p] = "writing" /\ items' = items
      /\ Rejected(p, WithItem(run[p].state, s.ref, item))
  BY SMTT(20) DEF RejectWrite
<1>2. pc[p] \in ApplyPlaces /\ s \in Step /\ Planned(run[p], s) /\ s.kind = "write"
  BY <1>1, AtSendWrite
<1>3. /\ s.ref \in Refs /\ old \in Item /\ old # None /\ run[p].drafts[s.ref] # None
      /\ disk = run[p].state
  BY <1>2, AtHeldItem, AtFollows DEF Planned
<1>4. item.id = old.id /\ item.remote = old.remote /\ item.rendered = old.rendered
  BY <1>3 DEF Item
<1>5. r = s.ref => KnownOf(items, run[p], r, x)
  BY <1>2, <1>3, AtFollows, SMTT(20) DEF HeldRefs, Drafted
<1>6. r = s.ref => Mirrors(items, old, x)
  BY <1>5 DEF KnownOf
<1> HIDE DEF item
<1>7. r = s.ref => MayMirror(items, item, x)
  BY <1>4, <1>6, Zenon DEF Mirrors, MayMirror
<1>8. QED
  BY <1>1, <1>2, <1>3, <1>7, RejectedFollows, SMTT(20)

\* What landed of the write is what the note says.
LEMMA LoseWriteAnswerFollows ==
  ASSUME Inductive, Told, NEW r \in Refs, NEW x \in Parts, Follows(r, x), NEW p \in Procs,
         LoseWriteAnswer(p)
  PROVE  Follows(r, x)'
<1> DEFINE s == run[p].step
           item == disk.held[s.ref]
           i == item.id
           draft == run[p].drafts[s.ref]
<1>1. /\ pc[p] = "writing" /\ End(p) /\ UNCHANGED disk
  BY Zenon DEF LoseWriteAnswer
<1>2. /\ pc[p] \in ApplyPlaces /\ s \in Step /\ Planned(run[p], s) /\ s.kind = "write"
      /\ item.writing # None /\ item.writing.parts = s.parts
      /\ \A y \in s.parts : item.writing.rendered[y] = draft[y]
  BY <1>1, AtSendWrite, SMTT(20)
<1>3. /\ disk = run[p].state /\ disk \in PublishState /\ s.ref \in Refs /\ item \in Item
      /\ s.ref \in HeldRefs(disk) /\ items[i] \in RemoteItem /\ i \in Ids
      /\ s.parts \in SUBSET Parts /\ draft \in Content
  BY <1>2, AtWrite
<1>4. CASE items' = items
  BY <1>1, <1>2, <1>4, UnrecordedFollows DEF Ebbs
<1>5. CASE items' # items
  <2>1. PICK ps \in SUBSET s.parts : items' = [items EXCEPT ![i] =
                                                 Write(@, s.ref, draft, ps)]
    BY <1>3, <1>5, Zenon DEF LoseWriteAnswer
  <2> DEFINE written == Write(items[i], s.ref, draft, ps)
  <2>2. items'[i] = written
    BY <1>3, <2>1, OfCommand
  <2>3. /\ x \in ps => written.text[x] = Form[draft[x]]
        /\ x \notin ps => /\ written.text[x] = items[i].text[x]
                          /\ x \in written.hand <=> x \in items[i].hand
        /\ written.life = items[i].life
    <3> ps \in SUBSET Parts
      BY <1>3
    <3> HIDE DEF s, draft, i
    <3>1. QED
      BY <1>3, WritesTexts
  <2>4. r \in HeldRefs(disk) \ {s.ref} => Ebbs(items, items', disk.held[r].id, x)
    <3>1. r \in HeldRefs(disk) \ {s.ref} => items'[disk.held[r].id] = items[disk.held[r].id]
      BY <1>2, <1>3, <2>1, OthersApart, Zenon
    <3>2. QED
      BY <3>1 DEF Ebbs, OwnText, Alive
  <2> HIDE DEF written
  <2>5. CASE r = s.ref /\ x \in ps
    <3> HIDE DEF item, draft
    <3>1. /\ x \in s.parts /\ item.writing.rendered[x] = draft[x]
          /\ items'[item.id].text[x] = Form[draft[x]]
      BY <1>2, <2>2, <2>3, <2>5
    <3>2. MayMirror(items', item, x)
      BY <1>2, <3>1 DEF MayMirror, Mirrors
    <3>3. r \in HeldRefs(disk') => MayMirror(items', disk'.held[r], x)
      BY <1>1, <2>5, <3>2 DEF item
    <3>4. QED
      BY <1>1, <1>2, <3>3, AtFollows, FollowsEnd
  <2>6. CASE r = s.ref /\ x \notin ps
    <3>1. Ebbs(items, items', i, x)
      BY <2>2, <2>3, <2>6 DEF Ebbs, OwnText, Alive
    <3>2. QED
      BY <1>1, <1>2, <2>6, <3>1, UnrecordedFollows, SMTT(20)
  <2>7. CASE r # s.ref
    BY <1>1, <1>2, <2>4, <2>7, UnrecordedFollows
  <2>8. QED
    BY <2>5, <2>6, <2>7
<1>6. QED
  BY <1>4, <1>5

\* The note of a retirement that is rejected is taken back.
LEMMA RejectRetireFollows ==
  ASSUME Inductive, Told, NEW r \in Refs, NEW x \in Parts, Follows(r, x), NEW p \in Procs,
         RejectRetire(p)
  PROVE  Follows(r, x)'
<1> DEFINE s == run[p].step
           old == run[p].state.held[s.ref]
           item == [old EXCEPT !.retiring = FALSE]
<1>1. /\ pc[p] = "retiring" /\ items' = items
      /\ Rejected(p, WithItem(run[p].state, s.ref, item))
  BY SMTT(20) DEF RejectRetire
<1>2. /\ pc[p] \in ApplyPlaces /\ s.ref \in Refs /\ old \in Item /\ disk = run[p].state
      /\ s.ref \in HeldRefs(disk)
  BY <1>1, AtRetire
<1>3. /\ item.id = old.id /\ item.origin = old.origin /\ item.remote = old.remote
      /\ item.rendered = old.rendered /\ item.writing = old.writing
  BY <1>2 DEF Item
<1>4. r = s.ref => MayMirror(items, old, x)
  BY <1>2, AtFollows
<1> HIDE DEF item
<1>5. r = s.ref => MayMirror(items, item, x)
  BY <1>3, <1>4, Zenon DEF Mirrors, MayMirror
<1>6. QED
  BY <1>1, <1>2, <1>5, RejectedFollows

\* The item is archived, or what of it was released is blank.
LEMMA LoseRetireAnswerFollows ==
  ASSUME Inductive, Told, NEW r \in Refs, NEW x \in Parts, Follows(r, x), NEW p \in Procs,
         LoseRetireAnswer(p)
  PROVE  Follows(r, x)'
<1> DEFINE s == run[p].step
           item == disk.held[s.ref]
           i == item.id
<1>1. /\ pc[p] = "retiring" /\ End(p) /\ UNCHANGED disk
  BY Zenon DEF LoseRetireAnswer
<1>2. /\ pc[p] \in ApplyPlaces /\ disk = run[p].state /\ s.ref \in HeldRefs(disk)
      /\ s.ref \in Refs /\ item \in Item /\ items[i] \in RemoteItem /\ i \in Ids
  BY <1>1, AtRetire
<1>3. ASSUME NEW after, items' = [items EXCEPT ![i] = after]
      PROVE  /\ items'[i] = after
             /\ r \in HeldRefs(disk) \ {s.ref} =>
                  Ebbs(items, items', disk.held[r].id, x)
  <2>1. items'[i] = after
    BY <1>2, <1>3, OfCommand
  <2>2. r \in HeldRefs(disk) \ {s.ref} => items'[disk.held[r].id] = items[disk.held[r].id]
    BY <1>2, <1>3, OthersApart, Zenon
  <2>3. QED
    BY <2>1, <2>2 DEF Ebbs, OwnText, Alive
<1>4. CASE items' = items
  BY <1>1, <1>2, <1>4, UnrecordedFollows DEF Ebbs
<1>5. CASE items' = [items EXCEPT ![i] = Archive(@)]
  <2>1. items'[i].life = "gone"
    BY <1>2, <1>5, ArchiveType, OfCommand, SMTT(20)
  <2>2. Ebbs(items, items', i, x)
    BY <2>1 DEF Ebbs, OwnText, Alive
  <2>3. r \in HeldRefs(disk) => Ebbs(items, items', disk.held[r].id, x)
    BY <1>3, <1>5, <2>2, Zenon
  <2>4. QED
    BY <1>1, <1>2, <2>3, UnrecordedFollows
<1>6. CASE /\ item.origin = "adopted"
           /\ \E ps \in SUBSET ReleasedParts(item), stamp \in {items[i].stamp, None} :
                items' = [items EXCEPT ![i] = Release(@, ps, stamp)]
  <2>1. PICK ps \in SUBSET ReleasedParts(item), stamp \in {items[i].stamp, None} :
          items' = [items EXCEPT ![i] = Release(@, ps, stamp)]
    BY <1>6, Zenon
  <2> DEFINE cleared == Release(items[i], ps, stamp)
  <2>2. items' = [items EXCEPT ![i] = cleared]
    BY <2>1
  <2>3. items'[i] = cleared
        /\ (r \in HeldRefs(disk) \ {s.ref} => Ebbs(items, items', disk.held[r].id, x))
    BY <1>3, <2>2, Zenon
  <2>4. /\ cleared.hand = items[i].hand \ ps /\ cleared.life = items[i].life
        /\ cleared.text[x] = IF x \in ps THEN Blank ELSE items[i].text[x]
    BY <1>2, Zenon DEF Release, WithParts, Empty, RemoteItem
  <2> HIDE DEF cleared
  <2>5. CASE x \in ps
    <3>1. MayMirror(items', item, x)
      BY <1>6, <2>3, <2>4, <2>5, Zenon DEF MayMirror, Mirrors
    <3>2. r # s.ref /\ r \in HeldRefs(disk) =>
            MayMirror(items', disk.held[r], x)
      BY <1>2, <2>3, AtFollows, StillFollows
    <3>3. r \in HeldRefs(disk) => MayMirror(items', disk.held[r], x)
      BY <3>1, <3>2
    <3>4. QED
      BY <1>1, <1>2, <3>3, AtFollows, FollowsEnd
  <2>6. CASE x \notin ps
    <3>1. Ebbs(items, items', i, x)
      BY <2>3, <2>4, <2>6, Zenon DEF Ebbs, OwnText, Alive
    <3>2. r \in HeldRefs(disk) => Ebbs(items, items', disk.held[r].id, x)
      BY <2>3, <3>1
    <3>3. QED
      BY <1>1, <1>2, <3>2, UnrecordedFollows
  <2>7. QED
    BY <2>5, <2>6
<1>7. QED
  BY <1>2, <1>4, <1>5, <1>6, Zenon DEF LoseRetireAnswer

\* Every step of the plan is done.
LEMMA EverythingAppliedFollows ==
  ASSUME Inductive, Told, NEW r \in Refs, NEW x \in Parts, Follows(r, x), NEW p \in Procs,
         EverythingApplied(p)
  PROVE  Follows(r, x)'
<1>1. /\ pc[p] = "apply" /\ pc[p] \in ApplyPlaces \ StepPlaces
      /\ "applied" \in ApplyPlaces \ StepPlaces
      /\ Goto(p, "applied", run[p]) /\ UNCHANGED <<items, disk>>
  BY DEF EverythingApplied, ApplyPlaces, StepPlaces
<1>2. disk = run[p].state
  BY <1>1, AtFollows
<1>3. StepsLeft("applied", run[p]) = StepsLeft(pc[p], run[p])
  BY <1>1 DEF StepsLeft
<1>4. r \in HeldRefs(disk) => Ebbs(items, items', disk.held[r].id, x)
  BY <1>1 DEF Ebbs
<1>5. QED
  BY <1>1, <1>2, <1>3, <1>4, OtherFollows

------------------------------------------------------------------------------
(* Follows is an invariant of what is not overlooked                         *)

\* What a command does until it has decided.
LEMMA PreflightFollows ==
  ASSUME Inductive, Told, AsPlanned, Formed, Formed', DryRunsKeepItems,
         NEW r \in Refs, NEW x \in Parts, Follows(r, x), ~Overlooked(r, x),
         NEW p \in Procs, Begin(p) \/ Preflight(p) \/ Decide(p)
  PROVE  Follows(r, x)'
<1>1. CASE Begin(p)
  BY <1>1, QuietFollows, TakeLockFollows DEF Begin
<1>2. CASE Preflight(p)
  <2>1. CASE \E d \in run[p].state.pending : Settle(p, d) \/ FindLeftEmpty(p, d)
    BY <2>1, SettleFollows, FindLeftEmptyFollows
  <2>2. CASE \E d \in run[p].state.pending : Fill(p, d) \/ FillFails(p, d)
    BY <2>2, DryFill, FillFollows, FillFailsFollows
  <2>3. CASE \E q \in Refs : ReadItem(p, q)
    BY <2>3, ReadItemFollows
  <2>4. CASE RefuseInterruptedCreate(p) \/ RefuseInto(p)
    BY <2>4, QuietFollows
  <2>5. CASE AllSettled(p) \/ AllRead(p) \/ ReadInto(p)
    BY <2>5, AllSettledFollows, AllReadFollows, ReadIntoFollows
  <2>6. QED
    BY <1>2, <2>1, <2>2, <2>3, <2>4, <2>5 DEF Preflight
<1>3. CASE Decide(p)
  BY <1>3, QuietFollows, ShowEditsFollows, RefuseMissingIntoFollows, MakePlanFollows
     DEF Decide
<1>4. QED
  BY <1>1, <1>2, <1>3

\* What it does while it applies.
LEMMA AppliesFollow ==
  ASSUME Inductive, Told, AsPlanned, NEW r \in Refs, NEW x \in Parts, Follows(r, x),
         NEW p \in Procs,
         \/ StartStep(p) \/ Send(p) \/ EverythingApplied(p) \/ ReleaseLock(p)
  PROVE  Follows(r, x)'
<1>1. CASE StartStep(p)
  BY <1>1, StartsFollow, SkipWriteFollows, RetiredFollows DEF StartStep
<1>2. CASE Send(p)
  <2>1. CASE SendCreate(p) \/ SendCreateInto(p) \/ RejectCreate(p)
             \/ FinishCreate(p) \/ LeaveUnfinished(p)
    BY <2>1, SendCreateFollows, SendCreateIntoFollows, FinishCreateFollows,
       CreateEndsFollow
  <2>2. CASE SendWrite(p) \/ RejectWrite(p) \/ LoseWriteAnswer(p)
    BY <2>2, SendWriteFollows, RejectWriteFollows, LoseWriteAnswerFollows
  <2>3. CASE SendRetire(p) \/ RejectRetire(p) \/ LoseRetireAnswer(p)
    BY <2>3, RetiredFollows, RejectRetireFollows, LoseRetireAnswerFollows
  <2>4. QED
    BY <1>2, <2>1, <2>2, <2>3 DEF Send
<1>3. CASE EverythingApplied(p) \/ ReleaseLock(p)
  BY <1>3, EverythingAppliedFollows, QuietFollows
<1>4. QED
  BY <1>1, <1>2, <1>3

\* Every step but a dry run's write, from a state in which the part is not overlooked.
LEMMA NextFollows ==
  ASSUME Inductive, Told, AsPlanned, Formed, Formed', NEW r \in Refs, NEW x \in Parts,
         Follows(r, x), ~Overlooked(r, x), [Next]_vars, [DryRunsKeepItems]_vars
  PROVE  Follows(r, x)'
<1>1. CASE UNCHANGED vars
  BY <1>1 DEF vars, Follows
<1>2. CASE Next /\ DryRunsKeepItems
  <2>1. CASE Person
    BY <2>1, PersonFollows
  <2>2. ASSUME NEW p \in Procs,
               (\E c \in Command : Prepare(p, c)) \/ Advance(p) \/ Stop(p)
        PROVE  Follows(r, x)'
    <3>1. CASE (\E c \in Command : Prepare(p, c)) \/ Stop(p)
      BY <3>1, QuietFollows
    <3>2. CASE Advance(p)
      BY <1>2, <3>2, PreflightFollows, AppliesFollow DEF Advance
    <3>3. QED
      BY <2>2, <3>1, <3>2
  <2>3. QED
    BY <1>2, <2>1, <2>2 DEF Next
<1>3. QED
  BY <1>1, <1>2

LEMMA InitFollows == ASSUME Init, NEW r \in Refs, NEW x \in Parts PROVE Follows(r, x)
<1>1. HeldRefs(disk) = {}
  BY DEF Init, NoState, HeldRefs
<1>2. \A p \in Procs : ~Writer(pc[p], run[p])
  BY IdleOK DEF Init
<1>3. QED
  BY <1>1, <1>2 DEF Follows

\* Once nothing is left to do, the service holds what the YAML says.
LEMMA AppliedHolds ==
  ASSUME Inductive, Told, AsPlanned, NEW r \in Refs, NEW x \in Parts, Follows(r, x)
  PROVE  HoldsAsPlanned(r, x)
<1>1. SUFFICES ASSUME NEW p \in Procs, pc[p] = "applied", run[p].drafts[r] # None
               PROVE  HasDraft(items, disk.held[r].id, run[p].drafts[r], x)
  BY DEF HoldsAsPlanned, HasDraft, OwnText, Alive, There
<1>2. pc[p] \in ApplyPlaces \ StepPlaces
  BY <1>1 DEF ApplyPlaces, StepPlaces
<1>3. /\ disk = run[p].state /\ RefAsPlanned("applied", run[p], r)
      /\ StepsLeft("applied", run[p]) = {}
  BY <1>1, <1>2 DEF AsPlanned, DoesAsPlanned, StepsLeft
<1>4. r \in HeldRefs(disk) \cap Drafted(run[p]) /\ ~Due(pc[p], run[p], r, x)
  BY <1>1, <1>3 DEF RefAsPlanned, Due, DueTo, Drafted
<1>5. QED
  BY <1>2, <1>4, AtFollows

\* A part that no command overlooks is in the service as the YAML says whenever an
\* apply ends well, if no dry run writes to the service.
THEOREM AppliedIsHeld ==
  ASSUME NEW r \in Refs, NEW x \in Parts
  PROVE  Spec /\ DryRunWritesNothing /\ []~Overlooked(r, x) => []HoldsAsPlanned(r, x)
<1>1. Init => Follows(r, x)
  BY InitFollows
<1>2. Inductive /\ Told /\ AsPlanned /\ Formed /\ Formed' /\ Follows(r, x)
      /\ ~Overlooked(r, x) /\ [Next]_vars /\ [DryRunsKeepItems]_vars => Follows(r, x)'
  BY NextFollows
<1>3. Inductive /\ Told /\ AsPlanned /\ Follows(r, x) => HoldsAsPlanned(r, x)
  BY AppliedHolds
<1>4. DryRunWritesNothing => [][DryRunsKeepItems]_vars
  BY PTL DEF DryRunWritesNothing, DryRunsKeepItems
<1>5. QED
  BY <1>1, <1>2, <1>3, <1>4, InductiveInvariant, ToldInvariant, PlansAreFollowed,
     TextsAreFormed, PTL DEF Spec

\* An apply that ends well has published its YAML, if no dry run writes to the service.
THEOREM ApplyPublishes == Spec /\ DryRunWritesNothing => AppliedMeansPublished
<1>1. Spec => []RecordedAsPlanned
  BY AppliedIsRecorded
<1>2. ASSUME NEW r \in Refs, NEW x \in Parts
      PROVE  Spec /\ DryRunWritesNothing => (([]~Overlooked(r, x)) => []HoldsAsPlanned(r, x))
  BY AppliedIsHeld, PTL
<1>3. Spec /\ DryRunWritesNothing =>
        \A r \in Refs, x \in Parts : ([]~Overlooked(r, x)) => []HoldsAsPlanned(r, x)
  BY <1>2
<1>4. QED
  BY <1>1, <1>3 DEF AppliedMeansPublished

\* It has where the connector fills no page that a create left empty (Jira, Slack).
THEOREM UnfilledApplyPublishes ==
  ASSUME ~Fills PROVE Spec => AppliedMeansPublished
BY DryRunsWriteNothing, ApplyPublishes

==============================================================================
