---------------------------- MODULE PublishProofs ----------------------------
(***************************************************************************)
(* Inductive is an invariant of Publish for every value of the constants,  *)
(* and with it TypeOK, Tracked and NoDuplicates.  First what the pure parts*)
(* of Publish return, and how StateOK and KnowsOK survive a change of the  *)
(* service or of a publish state; then the steps of commands and people.   *)
(***************************************************************************)
EXTENDS PublishProperties, TLAPS

------------------------------------------------------------------------------
(* Types                                                                     *)

\* Taking some parts of one content and the rest of another is a content.
LEMMA WithPartsType ==
  ASSUME NEW a \in Content, NEW b \in Content, NEW ps
  PROVE  WithParts(a, b, ps) \in Content
BY DEF WithParts, Content

\* A draft in the service's own formatting is a content.
LEMMA ShownType ==
  ASSUME NEW c \in Content
  PROVE  Shown(c) \in Content
BY ConstantsAssumption DEF Shown, Content

\* The empty content is a content.
LEMMA EmptyType == Empty \in Content
BY ConstantsAssumption DEF Empty, Content

\* A write changes what an item holds, not whether it is there or for whom.
LEMMA WriteKeepsLife ==
  ASSUME NEW remote \in RemoteItem, NEW r \in Refs, NEW draft \in Content,
         NEW ps \in SUBSET Parts
  PROVE  /\ Write(remote, r, draft, ps) \in RemoteItem
         /\ Write(remote, r, draft, ps).life = remote.life
         /\ Write(remote, r, draft, ps).made = remote.made
         /\ Write(remote, r, draft, ps).text = WithParts(remote.text, Shown(draft), ps)
         /\ Write(remote, r, draft, ps).text \in Content
<1>1. Shown(draft) \in Content
  BY ShownType
<1>2. remote.text \in Content
  BY DEF RemoteItem
<1>3. WithParts(remote.text, Shown(draft), ps) \in Content
  BY <1>1, <1>2, WithPartsType
<1>4. QED
  BY <1>3 DEF Write, RemoteItem

\* So does a release.
LEMMA ReleaseKeepsLife ==
  ASSUME NEW remote \in RemoteItem, NEW ps \in SUBSET Parts,
         NEW stamp \in Refs \cup {None}
  PROVE  /\ Release(remote, ps, stamp) \in RemoteItem
         /\ Release(remote, ps, stamp).life = remote.life
         /\ Release(remote, ps, stamp).made = remote.made
<1>1. remote.text \in Content
  BY DEF RemoteItem
<1>2. WithParts(remote.text, Empty, ps) \in Content
  BY <1>1, EmptyType, WithPartsType
<1>3. QED
  BY <1>2 DEF Release, RemoteItem

\* An archived item is gone and stays the item of its ref.
LEMMA ArchiveType ==
  ASSUME NEW remote \in RemoteItem
  PROVE  /\ Archive(remote) \in RemoteItem
         /\ Archive(remote).life = "gone"
         /\ Archive(remote).made = remote.made
BY DEF Archive, RemoteItem

\* A created item is there, made for its ref.
LEMMA NewType ==
  ASSUME NEW r \in Refs, NEW draft \in Content, NEW ps
  PROVE  /\ New(r, draft, ps) \in RemoteItem
         /\ New(r, draft, ps).life = "there"
         /\ New(r, draft, ps).made = r
<1>1. WithParts(Empty, Shown(draft), ps) \in Content
  BY ShownType, EmptyType, WithPartsType
<1>2. QED
  BY <1>1 DEF New, RemoteItem

\* What is recorded of a text read is a content.
LEMMA RenderedType ==
  ASSUME NEW text \in Content, NEW d \in Content \cup {None}, NEW keyed
  PROVE  RenderedWhereItMatches(text, d, keyed) \in Content
BY ConstantsAssumption DEF RenderedWhereItMatches, Content

\* A recorded item is an item of the state file.
LEMMA RecordedType ==
  ASSUME NEW i \in Ids, NEW origin \in Origin, NEW rendered \in Content,
         NEW text \in Content
  PROVE  /\ Recorded(i, origin, rendered, text) \in Item
         /\ Recorded(i, origin, rendered, text).id = i
         /\ Recorded(i, origin, rendered, text).origin = origin
BY DEF Recorded, Item

\* So is an adopted one; its origin tells whether skaldr created it.
LEMMA AdoptedType ==
  ASSUME NEW d \in Pending, NEW i \in Ids, NEW text \in Content,
         NEW draft \in Content \cup {None}, NEW keyed
  PROVE  /\ Adopted(d, i, text, draft, keyed) \in Item
         /\ Adopted(d, i, text, draft, keyed).id = i
         /\ d.into = None => Adopted(d, i, text, draft, keyed).origin = "created"
         /\ d.into # None => Adopted(d, i, text, draft, keyed).origin = "adopted"
BY RenderedType, RecordedType DEF Adopted, Origin

\* What is recorded of a page that was just filled.
LEMMA FilledType ==
  ASSUME NEW d \in Pending, NEW i \in Ids, NEW text \in Content, NEW draft \in Content,
         d.into = None
  PROVE  /\ Adopted(d, i, text, draft, TRUE) \in Item
         /\ Adopted(d, i, text, draft, TRUE).id = i
         /\ Adopted(d, i, text, draft, TRUE).origin = "created"
<1> DEFINE rendered == RenderedWhereItMatches(text, draft, TRUE)
           adopted == Adopted(d, i, text, draft, TRUE)
<1>1. rendered \in Content
  BY NoneAssumption DEF RenderedWhereItMatches, Content
<1>2. adopted = Recorded(i, "created", rendered, text)
  BY DEF Adopted
<1>3. "created" \in Origin
  BY DEF Origin
<1> HIDE DEF rendered, adopted
<1>4. adopted \in Item /\ adopted.id = i /\ adopted.origin = "created"
  BY <1>1, <1>2, <1>3, RecordedType
<1>5. QED
  BY <1>4 DEF adopted

\* Settling an in-flight write keeps the item's id and origin.
LEMMA SettledType ==
  ASSUME NEW item \in Item, NEW text \in Content, NEW differ \in SUBSET Parts
  PROVE  /\ Settled(item, text, differ) \in Item
         /\ Settled(item, text, differ).id = item.id
         /\ Settled(item, text, differ).origin = item.origin
<1>1. CASE item.writing = None
  BY <1>1 DEF Settled
<1>2. CASE item.writing # None
  <2> DEFINE landed == Landed(item, text, differ)
             rendered == WithParts(item.rendered, item.writing.rendered, landed)
             remote == WithParts(item.remote, text, landed)
  <2>1. item.writing \in Writing /\ item.writing.rendered \in Content
        /\ item.rendered \in Content /\ item.remote \in Content
    BY <1>2 DEF Item, Writing
  <2>2. rendered \in Content /\ remote \in Content
    BY <2>1, WithPartsType
  <2>3. landed \in SUBSET Parts
    BY <1>2 DEF Landed
  <2>4. [item.writing EXCEPT !.parts = landed] \in Writing
    BY <2>1, <2>3 DEF Writing
  <2>5. Settled(item, text, differ) =
          IF differ \subseteq landed
          THEN [item EXCEPT !.rendered = rendered, !.remote = text, !.writing = None]
          ELSE [item EXCEPT !.rendered = rendered, !.remote = remote,
                  !.writing = IF landed = {} THEN item.writing
                              ELSE [item.writing EXCEPT !.parts = landed]]
    BY <1>2 DEF Settled
  <2> HIDE DEF landed, rendered, remote
  <2>6. QED
    BY <2>1, <2>2, <2>4, <2>5 DEF Item
<1>3. QED
  BY <1>1, <1>2

\* What reading an item tells: only an item that is gone or was written into is
\* forgotten, and only one that is gone is taken for missing.
LEMMA FoundType ==
  ASSUME NEW item \in Item, NEW remote \in RemoteItem
  PROVE  LET found == Found(item, remote)
         IN  /\ found.item \in Item \cup {None} /\ found.read \in Content \cup {None}
             /\ found.edited \in SUBSET Parts
             /\ found.item # None => /\ found.item.id = item.id
                                     /\ found.item.origin = item.origin
             /\ found.item = None =>
                  remote.life # "there" \/ item.origin = "adopted"
             /\ found.read = None => found.item = None \/ remote.life # "there"
             /\ found.edited # {} => found.item # None /\ found.read # None
<1> DEFINE differ == Differing(item.remote, remote.text)
           settled == Settled(item, remote.text, differ)
           edited == differ \ Landed(item, remote.text, differ)
<1>1. remote.text \in Content /\ remote.text # None /\ item # None
  BY NoneAssumption DEF RemoteItem
<1>2. differ \in SUBSET Parts /\ edited \in SUBSET Parts
  BY DEF Differing
<1>3. settled \in Item /\ settled.id = item.id /\ settled.origin = item.origin
      /\ settled # None
  BY <1>1, <1>2, SettledType, NoneAssumption
<1>4. CASE RetiredAlready(item, remote)
  <2>1. Found(item, remote) = [item |-> None, read |-> None, edited |-> {}]
    BY <1>4 DEF Found
  <2>2. QED
    BY <1>4, <2>1 DEF RetiredAlready
<1>5. CASE ~RetiredAlready(item, remote) /\ remote.life # "there"
  <2>1. Found(item, remote) = [item |-> item, read |-> None, edited |-> {}]
    BY <1>5 DEF Found
  <2>2. QED
    BY <1>1, <1>5, <2>1
<1>6. CASE ~RetiredAlready(item, remote) /\ remote.life = "there" /\ item.retiring
  <2>1. Found(item, remote) = [item |-> item, read |-> remote.text, edited |-> {}]
    BY <1>6 DEF Found
  <2>2. QED
    BY <1>1, <2>1
<1>7. CASE ~RetiredAlready(item, remote) /\ remote.life = "there" /\ ~item.retiring
  <2>1. Found(item, remote)
          = [item |-> settled, read |-> remote.text, edited |-> edited]
    BY <1>7 DEF Found
  <2> HIDE DEF settled, edited
  <2>2. QED
    BY <1>1, <1>2, <1>3, <2>1
<1>8. QED
  BY <1>4, <1>5, <1>6, <1>7

\* Replacing what a ref is held by.
LEMMA WithItemType ==
  ASSUME NEW st \in PublishState, NEW r \in Refs, NEW item \in Item \cup {None}
  PROVE  /\ WithItem(st, r, item) \in PublishState
         /\ WithItem(st, r, item).pending = st.pending
         /\ WithItem(st, r, item).held[r] = item
         /\ \A q \in Refs \ {r} : WithItem(st, r, item).held[q] = st.held[q]
BY DEF WithItem, PublishState

\* Dropping an entry of pending_creates.
LEMMA DropType ==
  ASSUME NEW st \in PublishState, NEW d
  PROVE  /\ Drop(st, d) \in PublishState
         /\ Drop(st, d).pending = st.pending \ {d}
         /\ Drop(st, d).held = st.held
BY DEF Drop, PublishState

\* The entry a create leaves.
LEMMA PendingOfType ==
  ASSUME NEW s, s.ref \in Refs
  PROVE  /\ PendingOf(s) \in Pending
         /\ PendingOf(s).ref = s.ref /\ PendingOf(s).id = None
         /\ PendingOf(s).into = IntoOf(s.ref)
BY ConstantsAssumption DEF PendingOf, IntoOf, Pending

------------------------------------------------------------------------------
(* The service grows older                                                   *)

\* Texts change and items go away; none comes.
Ages(its, its2) ==
  \A i \in Ids :
    /\ its2[i].made = its[i].made
    /\ \/ its2[i].life = its[i].life
       \/ its[i].life = "there" /\ its2[i].life = "gone"

\* An item that was there may be replaced by one of the same ref that is there.
LEMMA OneItemAges ==
  ASSUME NEW its \in [Ids -> RemoteItem], NEW i \in Ids, NEW item \in RemoteItem,
         item.made = its[i].made,
         item.life = its[i].life \/ (its[i].life = "there" /\ item.life = "gone")
  PROVE  /\ [its EXCEPT ![i] = item] \in [Ids -> RemoteItem]
         /\ Ages(its, [its EXCEPT ![i] = item])
BY DEF Ages

\* No item comes: the page written into stays, and no ref gets a second item.
LEMMA AgesServiceOK ==
  ASSUME NEW its \in [Ids -> RemoteItem], NEW its2 \in [Ids -> RemoteItem],
         Ages(its, its2), ServiceOK(its)
  PROVE  ServiceOK(its2)
BY ConstantsAssumption DEF Ages, ServiceOK, Alive, Born

\* A state that accounts for the items accounts for the older ones.
LEMMA AgesStateOK ==
  ASSUME NEW its \in [Ids -> RemoteItem], NEW its2 \in [Ids -> RemoteItem],
         NEW st \in PublishState, Ages(its, its2), StateOK(its, st)
  PROVE  StateOK(its2, st)
<1>1. \A r \in Refs : st.held[r] # None => st.held[r].id \in Ids
  BY DEF PublishState, Item
<1>2. \A d \in st.pending : d.ref \in Refs /\ (d.id # None => d.id \in Ids)
  BY DEF PublishState, Pending
<1>3. HeldItemsAreTheRefs(its2, st)
  BY <1>1 DEF HeldItemsAreTheRefs, StateOK, Ages, Born
<1>4. PendingStandsForItsRef(its2, st)
  BY <1>1, <1>2 DEF PendingStandsForItsRef, NotThere, StateOK, Ages, Born, Alive
<1>5. \A i \in Ids : Alive(its2, i) /\ its2[i].made # None => Accounts(its2, st, i)
  BY DEF Accounts, StateOK, Ages, Alive
<1>6. QED
  BY <1>3, <1>4, <1>5 DEF StateOK

\* What a command knows of the items it still knows of the older ones.
LEMMA AgesCommandOK ==
  ASSUME NEW its \in [Ids -> RemoteItem], NEW its2 \in [Ids -> RemoteItem],
         NEW place, NEW rn \in Run, Ages(its, its2), CommandOK(its, place, rn)
  PROVE  CommandOK(its2, place, rn)
<1>1. SUFFICES ASSUME Writer(place, rn), KnowsOK(its, place, rn)
               PROVE  KnowsOK(its2, place, rn)
  BY DEF CommandOK
<1>2. rn.state \in PublishState
  BY DEF Run
<1>3. \A r \in Refs : NotThere(its, rn.state, r) => NotThere(its2, rn.state, r)
  <2>1. \A r \in Refs : rn.state.held[r] # None => rn.state.held[r].id \in Ids
    BY <1>2 DEF PublishState, Item
  <2>2. QED
    BY <2>1 DEF NotThere, Ages, Alive
<1>4. \A i : HoldsAllBut(its, rn.state, i) => HoldsAllBut(its2, rn.state, i)
  BY DEF HoldsAllBut, Ages, Alive
<1>5. StateOK(its2, rn.state)
  BY <1>1, <1>2, AgesStateOK DEF KnowsOK
<1>6. \A t \in rn.todo : t.ref \in Refs
  BY DEF Run, Step
<1>7. place \in {"creating", "finishing"} => rn.step.ref \in Refs
  BY DEF CommandOK, ShapeOK, StepOK, StepPlaces, Run, Step
<1>8. place = "finishing" => rn.id \in Ids
  BY DEF CommandOK, ShapeOK, StepOK, StepPlaces
<1>9. place = "finishing" =>
        /\ Born(its2, rn.id)
        /\ IF IntoOf(rn.step.ref) = None THEN its2[rn.id].made = rn.step.ref
                                         ELSE rn.id = Into
  BY <1>1, <1>8 DEF KnowsOK, Born, Ages
<1>10. QED
  BY <1>1, <1>3, <1>4, <1>5, <1>6, <1>7, <1>9 DEF KnowsOK

------------------------------------------------------------------------------
(* A publish state changes                                                   *)

\* The same items under the same refs.
SameHeld(st, st2) ==
  /\ st2.pending = st.pending
  /\ \A r \in Refs :
       /\ st2.held[r] = None <=> st.held[r] = None
       /\ st.held[r] # None => /\ st2.held[r].id = st.held[r].id
                               /\ st2.held[r].origin = st.held[r].origin

\* Only which items are held matters.
LEMMA SameHeldStateOK ==
  ASSUME NEW its, NEW st \in PublishState, NEW st2, SameHeld(st, st2),
         StateOK(its, st)
  PROVE  StateOK(its, st2)
<1>1. \A d \in st.pending : d.ref \in Refs
  BY DEF PublishState, Pending
<1>2. HeldItemsAreTheRefs(its, st2)
  BY DEF HeldItemsAreTheRefs, StateOK, SameHeld
<1>3. PendingStandsForItsRef(its, st2)
  BY <1>1 DEF PendingStandsForItsRef, NotThere, StateOK, SameHeld
<1>4. \A i \in Ids : Alive(its, i) /\ its[i].made # None => Accounts(its, st2, i)
  BY DEF Accounts, StateOK, SameHeld
<1>5. QED
  BY <1>2, <1>3, <1>4 DEF StateOK, AtMostOnePending, SameHeld

\* Another record of the same item in the place of the old one.
LEMMA WithSameItem ==
  ASSUME NEW st \in PublishState, NEW r \in Refs, NEW item \in Item,
         st.held[r] # None, item.id = st.held[r].id, item.origin = st.held[r].origin
  PROVE  SameHeld(st, WithItem(st, r, item))
<1>1. item # None
  BY NoneAssumption
<1>2. QED
  BY <1>1, WithItemType DEF SameHeld

\* An item may be forgotten when it is gone or is not skaldr's own.
LEMMA ForgetStateOK ==
  ASSUME NEW its, NEW st \in PublishState, NEW r \in Refs, StateOK(its, st),
         st.held[r] # None,
         ~Alive(its, st.held[r].id) \/ its[st.held[r].id].made = None
  PROVE  StateOK(its, WithItem(st, r, None))
<1> DEFINE st2 == WithItem(st, r, None)
<1>1. st2.pending = st.pending /\ st2.held[r] = None
      /\ \A q \in Refs \ {r} : st2.held[q] = st.held[q]
  BY WithItemType
<1>2. \A d \in st.pending : d.ref \in Refs
  BY DEF PublishState, Pending
<1> HIDE DEF st2
<1>3. HeldItemsAreTheRefs(its, st2)
  BY <1>1 DEF HeldItemsAreTheRefs, StateOK
<1>4. PendingStandsForItsRef(its, st2)
  BY <1>1, <1>2 DEF PendingStandsForItsRef, NotThere, StateOK
<1>5. \A i \in Ids : Alive(its, i) /\ its[i].made # None => Accounts(its, st2, i)
  BY <1>1 DEF Accounts, StateOK
<1>6. StateOK(its, st2)
  BY <1>1, <1>3, <1>4, <1>5 DEF StateOK, AtMostOnePending
<1>7. QED
  BY <1>6 DEF st2

\* An entry whose page was written into, or whose item is gone, may be dropped.
LEMMA DropStateOK ==
  ASSUME NEW its, NEW st \in PublishState, NEW d \in st.pending,
         StateOK(its, st), PendingId(d) # None,
         d.into # None \/ ~Alive(its, PendingId(d))
  PROVE  StateOK(its, Drop(st, d))
<1> DEFINE st2 == Drop(st, d)
<1>1. st2.pending = st.pending \ {d} /\ st2.held = st.held
  BY DropType
<1> HIDE DEF st2
<1>2. HeldItemsAreTheRefs(its, st2)
  BY <1>1 DEF HeldItemsAreTheRefs, StateOK
<1>3. PendingStandsForItsRef(its, st2)
  BY <1>1 DEF PendingStandsForItsRef, NotThere, StateOK
<1>4. ASSUME NEW i \in Ids, Alive(its, i), its[i].made # None
      PROVE  Accounts(its, st2, i)
  <2>1. Accounts(its, st, i)
    BY <1>4 DEF StateOK
  <2>2. ~(d.into = None /\ d.ref = its[i].made /\ d.id \in {None, i})
    BY <1>4 DEF PendingId
  <2>3. QED
    BY <1>1, <2>1, <2>2 DEF Accounts
<1>5. StateOK(its, st2)
  BY <1>1, <1>2, <1>3, <1>4 DEF StateOK, AtMostOnePending
<1>6. QED
  BY <1>5 DEF st2

\* The item of an entry takes its place.
LEMMA AdoptStateOK ==
  ASSUME NEW its, NEW st \in PublishState, NEW d \in st.pending, NEW item \in Item,
         ServiceOK(its), StateOK(its, st), PendingId(d) # None,
         item.id = PendingId(d),
         d.into = None => item.origin = "created",
         d.into # None => item.origin = "adopted"
  PROVE  StateOK(its, WithItem(Drop(st, d), d.ref, item))
<1> DEFINE st2 == WithItem(Drop(st, d), d.ref, item)
<1>0. d \in Pending /\ d.ref \in Refs
  BY DEF PublishState, Pending
<1>1. /\ st2.pending = st.pending \ {d} /\ st2.held[d.ref] = item
      /\ \A q \in Refs \ {d.ref} : st2.held[q] = st.held[q]
  <2>1. Drop(st, d) \in PublishState /\ Drop(st, d).pending = st.pending \ {d}
        /\ Drop(st, d).held = st.held
    BY DropType
  <2>2. QED
    BY <1>0, <2>1, WithItemType
<1> HIDE DEF st2
<1>2. st2.pending = {}
  BY <1>1 DEF StateOK, AtMostOnePending
<1>3. HeldItemsAreTheRefs(its, st2)
  <2>1. Born(its, item.id)
    BY DEF StateOK, PendingStandsForItsRef, PendingId, ServiceOK
  <2>2. item.origin = "created" => its[item.id].made = d.ref
    BY DEF StateOK, PendingStandsForItsRef, PendingId
  <2>3. item.origin = "adopted" => d.ref = Document /\ item.id = Into /\ Into # None
    BY DEF StateOK, PendingStandsForItsRef, PendingId
  <2>4. QED
    BY <1>0, <1>1, <2>1, <2>2, <2>3 DEF HeldItemsAreTheRefs, StateOK
<1>4. ASSUME NEW i \in Ids, Alive(its, i), its[i].made # None
      PROVE  Accounts(its, st2, i)
  <2>1. Accounts(its, st, i)
    BY <1>4 DEF StateOK
  <2>2. CASE \E r \in Refs : st.held[r] # None /\ st.held[r].id = i
    <3>1. PICK r \in Refs : st.held[r] # None /\ st.held[r].id = i
      BY <2>2
    <3>2. r # d.ref
      BY <1>4, <3>1 DEF StateOK, PendingStandsForItsRef, NotThere
    <3>3. QED
      BY <1>1, <3>1, <3>2 DEF Accounts
  <2>3. CASE \E e \in st.pending :
               e.into = None /\ e.ref = its[i].made /\ e.id \in {None, i}
    <3>1. d.into = None /\ d.id \in {None, i}
      BY <2>3 DEF StateOK, AtMostOnePending
    <3>2. item.id = i
      BY <3>1 DEF PendingId
    <3>3. item # None
      BY NoneAssumption
    <3>4. QED
      BY <1>0, <1>1, <3>2, <3>3 DEF Accounts
  <2>4. QED
    BY <2>1, <2>2, <2>3 DEF Accounts
<1>5. StateOK(its, st2)
  BY <1>2, <1>3, <1>4 DEF StateOK, AtMostOnePending, PendingStandsForItsRef
<1>6. QED
  BY <1>5 DEF st2

------------------------------------------------------------------------------
(* A create, from its note to its end                                        *)

\* A ref without an item may be noted; nothing else is pending then.
LEMMA NoteCreateStateOK ==
  ASSUME NEW its, NEW st \in PublishState, NEW s, s.ref \in Refs,
         StateOK(its, st), st.pending = {}, NotThere(its, st, s.ref)
  PROVE  LET st2 == [st EXCEPT !.pending = @ \cup {PendingOf(s)}]
         IN  /\ st2 \in PublishState /\ st2.held = st.held
             /\ st2.pending = {PendingOf(s)}
             /\ StateOK(its, st2) /\ HoldsAllBut(its, st2, None)
<1> DEFINE st2 == [st EXCEPT !.pending = @ \cup {PendingOf(s)}]
<1>1. PendingOf(s) \in Pending /\ PendingOf(s).ref = s.ref
      /\ PendingOf(s).id = None /\ PendingOf(s).into = IntoOf(s.ref)
  BY PendingOfType
<1>2. st2 \in PublishState /\ st2.held = st.held /\ st2.pending = {PendingOf(s)}
  BY <1>1 DEF PublishState
<1> HIDE DEF st2
<1>3. HeldItemsAreTheRefs(its, st2)
  BY <1>2 DEF HeldItemsAreTheRefs, StateOK
<1>4. PendingStandsForItsRef(its, st2)
  BY <1>1, <1>2 DEF PendingStandsForItsRef, NotThere, IntoOf
<1>5. HoldsAllBut(its, st2, None)
  BY <1>2 DEF HoldsAllBut, StateOK, Accounts
<1>6. \A i \in Ids : Alive(its, i) /\ its[i].made # None => Accounts(its, st2, i)
  BY <1>2 DEF Accounts, StateOK
<1>7. StateOK(its, st2)
  BY <1>2, <1>3, <1>4, <1>6 DEF StateOK, AtMostOnePending
<1>8. QED
  BY <1>2, <1>5, <1>7 DEF st2

\* The item appears: the state that notes it accounts for it.
LEMMA AppearStateOK ==
  ASSUME NEW its \in [Ids -> RemoteItem], NEW i \in Ids, NEW item \in RemoteItem,
         NEW st \in PublishState, NEW d \in st.pending,
         its[i].life = "unborn", item.life = "there", item.made = d.ref,
         d.into = None, d.id = None, StateOK(its, st)
  PROVE  StateOK([its EXCEPT ![i] = item], st)
<1> DEFINE its2 == [its EXCEPT ![i] = item]
<1>1. its2[i] = item /\ \A j \in Ids \ {i} : its2[j] = its[j]
  OBVIOUS
<1>2. \A r \in Refs : st.held[r] # None => st.held[r].id \in Ids
  BY DEF PublishState, Item
<1>3. \A e \in st.pending : e.ref \in Refs /\ (e.id # None => e.id \in Ids)
  BY DEF PublishState, Pending
<1> HIDE DEF its2
<1>4. \A r \in Refs : st.held[r] # None => st.held[r].id # i
  BY DEF StateOK, HeldItemsAreTheRefs, Born
<1>5. \A e \in st.pending : e = d
  BY DEF StateOK, AtMostOnePending
<1>6. HeldItemsAreTheRefs(its2, st)
  BY <1>1, <1>2, <1>4 DEF HeldItemsAreTheRefs, StateOK, Born
<1>7. PendingStandsForItsRef(its2, st)
  BY <1>1, <1>2, <1>3, <1>4, <1>5 DEF PendingStandsForItsRef, NotThere, StateOK, Alive
<1>8. \A j \in Ids : Alive(its2, j) /\ its2[j].made # None => Accounts(its2, st, j)
  <2>1. Accounts(its2, st, i)
    BY <1>1 DEF Accounts
  <2>2. ASSUME NEW j \in Ids \ {i}, Alive(its2, j), its2[j].made # None
        PROVE  Accounts(its2, st, j)
    BY <1>1, <2>2 DEF Accounts, StateOK, Alive
  <2>3. QED
    BY <2>1, <2>2
<1>9. StateOK(its2, st)
  BY <1>6, <1>7, <1>8 DEF StateOK
<1>10. QED
  BY <1>9 DEF its2

\* The item appears: its ref had no other.
LEMMA AppearServiceOK ==
  ASSUME NEW its \in [Ids -> RemoteItem], NEW i \in Ids, NEW item \in RemoteItem,
         NEW st \in PublishState, NEW r \in Refs,
         its[i].life = "unborn", item.life = "there", item.made = r,
         ServiceOK(its), StateOK(its, st), NotThere(its, st, r),
         HoldsAllBut(its, st, None)
  PROVE  ServiceOK([its EXCEPT ![i] = item])
<1> DEFINE its2 == [its EXCEPT ![i] = item]
<1>1. its2[i] = item /\ \A j \in Ids \ {i} : its2[j] = its[j]
  OBVIOUS
<1> HIDE DEF its2
<1>2. ASSUME NEW j \in Ids, Alive(its, j)
      PROVE  its[j].made # r
  <2>1. SUFFICES ASSUME its[j].made = r PROVE FALSE
    OBVIOUS
  <2>2. PICK q \in Refs : st.held[q] # None /\ st.held[q].id = j
    BY <1>2, <2>1, NoneAssumption DEF HoldsAllBut
  <2>3. st.held[q].origin \in Origin
    BY <2>2 DEF PublishState, Item
  <2>4. st.held[q].origin # "adopted"
    BY <2>1, <2>2, NoneAssumption DEF StateOK, HeldItemsAreTheRefs, ServiceOK
  <2>5. q = r
    BY <2>1, <2>2, <2>3, <2>4 DEF StateOK, HeldItemsAreTheRefs, Origin
  <2>6. QED
    BY <1>2, <2>2, <2>5 DEF NotThere
<1>3. Into # None => its2[Into].made = None /\ Born(its2, Into)
  BY <1>1, ConstantsAssumption DEF ServiceOK, Born
<1>4. ASSUME NEW j \in Ids, NEW k \in Ids, Alive(its2, j), Alive(its2, k),
             its2[j].made # None, its2[j].made = its2[k].made
      PROVE  j = k
  BY <1>1, <1>2, <1>4 DEF ServiceOK, Alive
<1>5. QED
  BY <1>3, <1>4 DEF ServiceOK, its2

\* A rejected create is taken back: nothing was made for it.
LEMMA RejectedStateOK ==
  ASSUME NEW its, NEW st \in PublishState, NEW d, st.pending = {d},
         StateOK(its, st), HoldsAllBut(its, st, None)
  PROVE  StateOK(its, Drop(st, d))
<1> DEFINE st2 == Drop(st, d)
<1>1. st2.pending = {} /\ st2.held = st.held
  BY DropType
<1> HIDE DEF st2
<1>2. HeldItemsAreTheRefs(its, st2)
  BY <1>1 DEF HeldItemsAreTheRefs, StateOK
<1>3. \A i \in Ids : Alive(its, i) /\ its[i].made # None => Accounts(its, st2, i)
  BY <1>1, NoneAssumption DEF Accounts, HoldsAllBut
<1>4. StateOK(its, st2)
  BY <1>1, <1>2, <1>3 DEF StateOK, AtMostOnePending, PendingStandsForItsRef
<1>5. QED
  BY <1>4 DEF st2

\* A finished create: the item takes the place of the note.
LEMMA FinishedStateOK ==
  ASSUME NEW its, NEW st \in PublishState, NEW d \in Pending, st.pending = {d},
         NEW item \in Item, StateOK(its, st), NotThere(its, st, d.ref),
         HoldsAllBut(its, st, item.id), Born(its, item.id),
         item.origin = "created" => its[item.id].made = d.ref,
         item.origin = "adopted" => d.ref = Document /\ item.id = Into /\ Into # None
  PROVE  StateOK(its, WithItem(Drop(st, d), d.ref, item))
<1> DEFINE st2 == WithItem(Drop(st, d), d.ref, item)
<1>0. d.ref \in Refs /\ item # None
  BY NoneAssumption DEF Pending
<1>1. /\ st2.pending = {} /\ st2.held[d.ref] = item
      /\ \A q \in Refs \ {d.ref} : st2.held[q] = st.held[q]
  <2>1. Drop(st, d) \in PublishState /\ Drop(st, d).pending = {}
        /\ Drop(st, d).held = st.held
    BY DropType
  <2>2. QED
    BY <1>0, <2>1, WithItemType
<1> HIDE DEF st2
<1>2. HeldItemsAreTheRefs(its, st2)
  BY <1>0, <1>1 DEF HeldItemsAreTheRefs, StateOK
<1>3. ASSUME NEW i \in Ids, Alive(its, i), its[i].made # None
      PROVE  Accounts(its, st2, i)
  <2>1. CASE i = item.id
    BY <1>0, <1>1, <2>1 DEF Accounts
  <2>2. CASE i # item.id
    <3>1. PICK r \in Refs : st.held[r] # None /\ st.held[r].id = i
      BY <1>3, <2>2 DEF HoldsAllBut
    <3>2. r # d.ref
      BY <1>3, <3>1 DEF NotThere
    <3>3. QED
      BY <1>1, <3>1, <3>2 DEF Accounts
  <2>3. QED
    BY <2>1, <2>2
<1>4. StateOK(its, st2)
  BY <1>1, <1>2, <1>3 DEF StateOK, AtMostOnePending, PendingStandsForItsRef
<1>5. QED
  BY <1>4 DEF st2

\* A create that could not be finished: its note names the item.
LEMMA NotedStateOK ==
  ASSUME NEW its, NEW st \in PublishState, NEW d \in Pending, st.pending = {d},
         NEW i \in Ids, d.into = None, StateOK(its, st), NotThere(its, st, d.ref),
         HoldsAllBut(its, st, i), Born(its, i), its[i].made = d.ref
  PROVE  LET st2 == [st EXCEPT !.pending = (@ \ {d}) \cup {[d EXCEPT !.id = i]}]
         IN  st2 \in PublishState /\ StateOK(its, st2)
<1> DEFINE noted == [d EXCEPT !.id = i]
           st2 == [st EXCEPT !.pending = (@ \ {d}) \cup {noted}]
<1>1. noted \in Pending /\ noted.ref = d.ref /\ noted.into = None /\ noted.id = i
  BY DEF Pending
<1> HIDE DEF noted
<1>2. st2 \in PublishState /\ st2.held = st.held /\ st2.pending = {noted}
  BY <1>1 DEF PublishState
<1> HIDE DEF st2
<1>3. HeldItemsAreTheRefs(its, st2)
  BY <1>2 DEF HeldItemsAreTheRefs, StateOK
<1>4. PendingStandsForItsRef(its, st2)
  BY <1>1, <1>2 DEF PendingStandsForItsRef, NotThere
<1>5. \A j \in Ids : Alive(its, j) /\ its[j].made # None => Accounts(its, st2, j)
  BY <1>1, <1>2 DEF Accounts, HoldsAllBut
<1>6. StateOK(its, st2)
  BY <1>2, <1>3, <1>4, <1>5 DEF StateOK, AtMostOnePending
<1>7. QED
  BY <1>2, <1>6 DEF st2, noted

------------------------------------------------------------------------------
(* What is planned and shown                                                 *)

\* The plan holds steps that fit; it creates only what was missing or never made.
LEMMA PlanType ==
  ASSUME NEW rn \in Run, ReadsOK(rn), rn.unread = {}
  PROVE  /\ Plan(rn) \in SUBSET Step
         /\ \A t \in Plan(rn) : Planned(rn, t) /\ Whole(t)
         /\ \A t \in Plan(rn) : t.kind = "create" =>
              rn.state.held[t.ref] = None \/ rn.read[t.ref] = None
<1>1. SUFFICES ASSUME NEW t \in Plan(rn)
               PROVE  /\ t \in Step /\ Planned(rn, t) /\ Whole(t)
                      /\ t.kind = "create" =>
                           rn.state.held[t.ref] = None \/ rn.read[t.ref] = None
  OBVIOUS
<1>2. CASE t \in Creates(rn)
  BY <1>2 DEF Creates, Drafted, Absent, ReadsOK, Planned, Whole, Step
<1>3. CASE t \in Writes(rn)
  BY <1>3 DEF Writes, Drafted, Absent, ReadsOK, Planned, Whole, Step
<1>4. CASE t \in Retirements(rn)
  BY <1>4 DEF Retirements, Drafted, HeldRefs, Planned, Whole, Step
<1>5. QED
  BY <1>1, <1>2, <1>3, <1>4 DEF Plan

\* The digest of an item's edits.
LEMMA TokenType ==
  ASSUME NEW rn \in Run, ReadsOK(rn), NEW r \in Refs, rn.edited[r] # {}
  PROVE  Token(rn, r) \in SUBSET (Parts \X Texts)
<1>1. rn.read[r] \in Content /\ rn.edited[r] \in SUBSET Parts
  BY DEF ReadsOK, Run
<1>2. QED
  BY <1>1 DEF Token, Content

\* Noting what was shown keeps the items.
LEMMA WithShownType ==
  ASSUME NEW rn \in Run, ReadsOK(rn), NEW rs \in SUBSET EditedRefs(rn)
  PROVE  /\ WithShown(rn, rs) \in PublishState
         /\ SameHeld(rn.state, WithShown(rn, rs))
<1> DEFINE held == [r \in Refs |-> IF r \in rs
                      THEN [rn.state.held[r] EXCEPT !.shown = Token(rn, r)]
                      ELSE rn.state.held[r]]
<1>0. rn.state \in PublishState
  BY DEF Run
<1>1. ASSUME NEW r \in rs
      PROVE  /\ r \in Refs /\ rn.state.held[r] # None
             /\ [rn.state.held[r] EXCEPT !.shown = Token(rn, r)] \in Item
             /\ [rn.state.held[r] EXCEPT !.shown = Token(rn, r)].id = rn.state.held[r].id
             /\ [rn.state.held[r] EXCEPT !.shown = Token(rn, r)].origin
                  = rn.state.held[r].origin
  <2>1. r \in Refs /\ rn.edited[r] # {}
    BY DEF EditedRefs
  <2>2. rn.state.held[r] # None /\ Token(rn, r) \in SUBSET (Parts \X Texts)
    BY <2>1, TokenType DEF ReadsOK
  <2>3. rn.state.held[r] \in Item
    BY <1>0, <2>1, <2>2 DEF PublishState
  <2>4. QED
    BY <2>1, <2>2, <2>3 DEF Item
<1>2. WithShown(rn, rs) = [rn.state EXCEPT !.held = held]
  BY <1>0 DEF WithShown, PublishState
<1>3. held \in [Refs -> Item \cup {None}]
  BY <1>0, <1>1 DEF PublishState
<1>4. \A r \in Refs : /\ held[r] = None <=> rn.state.held[r] = None
                      /\ rn.state.held[r] # None =>
                           /\ held[r].id = rn.state.held[r].id
                           /\ held[r].origin = rn.state.held[r].origin
  BY <1>1, NoneAssumption
<1> HIDE DEF held
<1>5. QED
  BY <1>0, <1>2, <1>3, <1>4 DEF PublishState, SameHeld

------------------------------------------------------------------------------
(* The rest of the state                                                     *)

\* What no action leaves its type with but by a step of its own.
RestOK ==
  /\ yaml \in Drafts /\ seen \subseteq Ids \X Parts \X Texts
  /\ edits \in Nat /\ revisions \in Nat /\ faults \in Nat

------------------------------------------------------------------------------
(* Frames: what has to be shown of a step of a command, and of the person    *)

\* A command moves on; the service grows older.
LEMMA CommandStep ==
  ASSUME Inductive, RestOK', NEW p \in Procs, NEW place \in Places, NEW rn \in Run,
         Goto(p, place, rn),
         items' \in [Ids -> RemoteItem], Ages(items, items'),
         disk' \in PublishState, StateOK(items', disk'),
         disk' = disk \/ Writer(pc[p], run[p]),
         lock' \in Procs \cup {None},
         \A q \in Procs \ {p} : lock = q => lock' = q,
         Writer(place, rn) => lock' = p,
         CommandOK(items', place, rn),
         place \in {"creating", "finishing"} => PendingOf(rn.step) \in disk'.pending
  PROVE  Inductive'
<1>1. TypeOK'
  BY DEF TypeOK, Inductive, Goto, RestOK
<1>2. pc'[p] = place /\ run'[p] = rn
      /\ \A q \in Procs \ {p} : pc'[q] = pc[q] /\ run'[q] = run[q]
  BY DEF Inductive, TypeOK, Goto
<1>3. ServiceOK(items')
  BY AgesServiceOK DEF Inductive, TypeOK
<1>4. \A q \in Procs : CommandOK(items', pc'[q], run'[q])
  <2>1. \A q \in Procs \ {p} : CommandOK(items', pc[q], run[q])
    BY AgesCommandOK DEF Inductive, TypeOK
  <2>2. QED
    BY <1>2, <2>1
<1>5. \A q \in Procs : Writer(pc'[q], run'[q]) => lock' = q
  BY <1>2 DEF Inductive, WriterHoldsTheLock
<1>6. \A q \in Procs : pc'[q] \in {"creating", "finishing"} =>
        PendingOf(run'[q].step) \in disk'.pending
  <2>1. SUFFICES ASSUME NEW q \in Procs \ {p}, pc[q] \in {"creating", "finishing"}
                 PROVE  PendingOf(run[q].step) \in disk'.pending
    BY <1>2
  <2>2. Writer(pc[q], run[q])
    BY <2>1 DEF Inductive, CommandOK, ShapeOK, ApplyPlaces, StepPlaces, Writer
  <2>3. disk' = disk
    BY <2>2 DEF Inductive, WriterHoldsTheLock
  <2>4. QED
    BY <2>1, <2>3 DEF Inductive, CreateIsNoted
<1>7. QED
  BY <1>1, <1>3, <1>4, <1>5, <1>6 DEF Inductive, WriterHoldsTheLock, CreateIsNoted

\* Nothing happens to the service.
LEMMA AgesReflexive == ASSUME NEW its PROVE Ages(its, its)
BY DEF Ages

\* What the invariant says of one command.
LEMMA OfCommand ==
  ASSUME Inductive, NEW p \in Procs
  PROVE  /\ pc[p] \in Places /\ run[p] \in Run /\ run[p].state \in PublishState
         /\ items \in [Ids -> RemoteItem] /\ disk \in PublishState
         /\ StateOK(items, disk) /\ ServiceOK(items)
         /\ yaml \in Drafts /\ lock \in Procs \cup {None}
         /\ RestOK
         /\ ShapeOK(pc[p], run[p])
         /\ Writer(pc[p], run[p]) =>
              /\ lock = p /\ KnowsOK(items, pc[p], run[p])
              /\ StateOK(items, run[p].state)
BY DEF Inductive, TypeOK, Run, RestOK, CommandOK, WriterHoldsTheLock, KnowsOK

\* A command changes nothing but what it holds in memory.
LEMMA MemoryStep ==
  ASSUME Inductive, NEW p \in Procs, NEW place \in Places, NEW rn \in Run,
         Goto(p, place, rn), UNCHANGED <<yaml, items, disk, lock, seen, counters>>,
         Writer(place, rn) => lock = p,
         CommandOK(items, place, rn),
         place \notin {"creating", "finishing"}
  PROVE  Inductive'
<1>1. RestOK' /\ items' \in [Ids -> RemoteItem] /\ disk' \in PublishState
      /\ lock' \in Procs \cup {None} /\ StateOK(items', disk')
  BY DEF Inductive, TypeOK, RestOK, counters
<1>2. Ages(items, items') /\ CommandOK(items', place, rn)
  BY AgesReflexive
<1>3. QED
  BY <1>1, <1>2, CommandStep

\* An idle command holds nothing.
LEMMA IdleOK ==
  /\ IdleRun \in Run
  /\ \A its : CommandOK(its, "idle", IdleRun)
  /\ ~Writer("idle", IdleRun)
<1>1. NoState \in PublishState /\ NoState.pending = {}
  BY DEF NoState, PublishState
<1>2. [r \in Refs |-> None] \in Drafts
  BY DEF Drafts
<1>3. IdleRun \in Run /\ IdleRun.state = NoState
  BY <1>1, <1>2 DEF IdleRun, Run, Command
<1>4. ~Writer("idle", IdleRun)
  BY DEF Writer
<1>5. ShapeOK("idle", IdleRun)
  BY <1>1, <1>3 DEF ShapeOK, AtMostOnePending, FreshPlaces, ReadPlaces, ApplyPlaces,
                    StepPlaces
<1>6. QED
  BY <1>3, <1>4, <1>5 DEF CommandOK

\* A command ends; it may have changed texts and, as a writer, the state file.
LEMMA EndStep ==
  ASSUME Inductive, RestOK', NEW p \in Procs, End(p),
         items' \in [Ids -> RemoteItem], Ages(items, items'),
         disk' \in PublishState, StateOK(items', disk'),
         disk' = disk \/ Writer(pc[p], run[p])
  PROVE  Inductive'
<1>1. Goto(p, "idle", IdleRun) /\ lock' = IF lock = p THEN None ELSE lock
  BY DEF End
<1>2. lock \in Procs \cup {None}
  BY OfCommand
<1>3. "idle" \in Places
  BY DEF Places
<1>4. QED
  BY <1>1, <1>2, <1>3, CommandStep, IdleOK

\* A command ends and leaves all as it is.
LEMMA QuietEnd ==
  ASSUME Inductive, NEW p \in Procs, End(p),
         UNCHANGED <<yaml, items, disk, seen, edits, revisions>>,
         faults' \in Nat
  PROVE  Inductive'
<1>1. RestOK' /\ items' \in [Ids -> RemoteItem] /\ disk' \in PublishState
      /\ StateOK(items', disk')
  BY DEF Inductive, TypeOK, RestOK
<1>2. Ages(items, items')
  BY AgesReflexive
<1>3. QED
  BY <1>1, <1>2, EndStep

------------------------------------------------------------------------------
(* The person                                                                *)

\* The person acts between two steps of the commands.
LEMMA PersonStep ==
  ASSUME Inductive, RestOK', items' \in [Ids -> RemoteItem], Ages(items, items'),
         disk' \in PublishState, StateOK(items', disk'),
         disk' = disk \/ lock = None, UNCHANGED <<lock, pc, run>>
  PROVE  Inductive'
<1>1. TypeOK'
  BY DEF TypeOK, Inductive, RestOK
<1>2. ServiceOK(items')
  BY AgesServiceOK DEF Inductive, TypeOK
<1>3. \A q \in Procs : CommandOK(items', pc'[q], run'[q])
  BY AgesCommandOK DEF Inductive, TypeOK
<1>4. \A q \in Procs : Writer(pc'[q], run'[q]) => lock' = q
  BY DEF Inductive, WriterHoldsTheLock
<1>5. \A q \in Procs : pc'[q] \in {"creating", "finishing"} =>
        PendingOf(run'[q].step) \in disk'.pending
  <2>1. SUFFICES ASSUME NEW q \in Procs, pc[q] \in {"creating", "finishing"}
                 PROVE  PendingOf(run[q].step) \in disk'.pending
    OBVIOUS
  <2>2. Writer(pc[q], run[q])
    BY <2>1 DEF Inductive, CommandOK, ShapeOK, ApplyPlaces, StepPlaces, Writer
  <2>3. disk' = disk
    BY <2>2, NoneAssumption DEF Inductive, WriterHoldsTheLock
  <2>4. QED
    BY <2>1, <2>3 DEF Inductive, CreateIsNoted
<1>6. QED
  BY <1>1, <1>2, <1>3, <1>4, <1>5 DEF Inductive, WriterHoldsTheLock, CreateIsNoted

\* Editing one item, or deleting it, keeps Inductive.
LEMMA PersonActs ==
  ASSUME Inductive, NEW i \in Ids, NEW item \in RemoteItem, There(i),
         item.made = items[i].made, item.life \in {"there", "gone"},
         items' = [items EXCEPT ![i] = item], edits' = edits + 1,
         UNCHANGED <<yaml, disk, lock, pc, run, seen, revisions, faults>>
  PROVE  Inductive'
<1>1. items \in [Ids -> RemoteItem] /\ disk \in PublishState /\ StateOK(items, disk)
  BY DEF Inductive, TypeOK
<1>2. items' \in [Ids -> RemoteItem] /\ Ages(items, items')
  BY <1>1, OneItemAges DEF There
<1>3. StateOK(items', disk')
  BY <1>1, <1>2, AgesStateOK
<1>4. RestOK'
  BY DEF Inductive, TypeOK, RestOK
<1>5. QED
  BY <1>1, <1>2, <1>3, <1>4, PersonStep

\* A person's edit of a text or of the stamp, or a deletion.
LEMMA EditActions ==
  ASSUME Inductive, NEW i \in Ids, EditItem(i) \/ RemoveStamp(i) \/ DeleteItem(i)
  PROVE  Inductive'
<1>1. items[i] \in RemoteItem /\ items \in [Ids -> RemoteItem]
  BY DEF Inductive, TypeOK
<1>2. CASE EditItem(i)
  <2>1. PICK x \in Parts, t \in {Form[u] : u \in Texts \ {Unkeyed}} :
          items' = [items EXCEPT ![i].text[x] = t, ![i].hand = @ \cup {x}]
    BY <1>2 DEF EditItem
  <2>2. t \in Texts
    BY ConstantsAssumption
  <2> DEFINE item == [items[i] EXCEPT !.text = [items[i].text EXCEPT ![x] = t],
                                      !.hand = items[i].hand \cup {x}]
  <2>3. items' = [items EXCEPT ![i] = item]
    BY <1>1, <2>1 DEF RemoteItem
  <2>4. item \in RemoteItem /\ item.made = items[i].made /\ item.life = items[i].life
    BY <1>1, <2>2 DEF RemoteItem, Content
  <2> HIDE DEF item
  <2>5. QED
    BY <1>2, <2>3, <2>4, PersonActs DEF EditItem, There
<1>3. CASE RemoveStamp(i)
  <2> DEFINE item == [items[i] EXCEPT !.stamp = None]
  <2>1. item \in RemoteItem /\ item.made = items[i].made /\ item.life = items[i].life
    BY <1>1 DEF RemoteItem
  <2>2. items' = [items EXCEPT ![i] = item]
    BY <1>1, <1>3 DEF RemoveStamp
  <2> HIDE DEF item
  <2>3. QED
    BY <1>3, <2>1, <2>2, PersonActs DEF RemoveStamp, There
<1>4. CASE DeleteItem(i)
  <2> DEFINE item == [items[i] EXCEPT !.life = "gone"]
  <2>1. item \in RemoteItem /\ item.made = items[i].made /\ item.life = "gone"
    BY <1>1 DEF RemoteItem
  <2>2. items' = [items EXCEPT ![i] = item]
    BY <1>1, <1>4 DEF DeleteItem
  <2> HIDE DEF item
  <2>3. QED
    BY <1>4, <2>1, <2>2, PersonActs DEF DeleteItem
<1>5. QED
  BY <1>2, <1>3, <1>4

\* The person puts other drafts in the YAML.
LEMMA ReviseYamlStep == ASSUME Inductive, ReviseYaml PROVE Inductive'
<1>1. RestOK'
  BY ConstantsAssumption DEF ReviseYaml, Inductive, TypeOK, RestOK
<1>2. Ages(items, items')
  BY AgesReflexive DEF ReviseYaml
<1>3. QED
  BY <1>1, <1>2, PersonStep DEF ReviseYaml, Inductive, TypeOK

\* The person archives what an interrupted create left and drops its entry.
LEMMA ResolveCreateStep == ASSUME Inductive, ResolveCreate PROVE Inductive'
<1>0. /\ items \in [Ids -> RemoteItem] /\ disk \in PublishState /\ StateOK(items, disk)
      /\ RestOK
  BY DEF Inductive, TypeOK, RestOK
<1>1. PICK d \in disk.pending :
        /\ PendingId(d) = None
        /\ disk' = Drop(disk, d)
        /\ items' = [i \in Ids |->
             IF /\ items[i].made = d.ref
                /\ ~\E r \in HeldRefs(disk) : disk.held[r].id = i
                /\ There(i)
             THEN [items[i] EXCEPT !.life = "gone"] ELSE items[i]]
  BY DEF ResolveCreate
<1>2. items' \in [Ids -> RemoteItem] /\ Ages(items, items')
  BY <1>0, <1>1 DEF RemoteItem, Ages, There
<1>3. disk' \in PublishState /\ disk'.pending = {} /\ disk'.held = disk.held
  BY <1>0, <1>1, DropType DEF StateOK, AtMostOnePending
<1>4. StateOK(items', disk)
  BY <1>0, <1>2, AgesStateOK
<1>5. HeldItemsAreTheRefs(items', disk')
  BY <1>3, <1>4 DEF StateOK, HeldItemsAreTheRefs
<1>6. ASSUME NEW i \in Ids, Alive(items', i), items'[i].made # None
      PROVE  Accounts(items', disk', i)
  <2>1. Accounts(items', disk, i)
    BY <1>4, <1>6 DEF StateOK
  <2>2. CASE \E r \in Refs : disk.held[r] # None /\ disk.held[r].id = i
    BY <1>3, <2>2 DEF Accounts
  <2>3. CASE /\ ~\E r \in Refs : disk.held[r] # None /\ disk.held[r].id = i
             /\ \E e \in disk.pending :
                  e.into = None /\ e.ref = items'[i].made /\ e.id \in {None, i}
    <3>1. d.ref = items'[i].made
      BY <1>4, <2>3 DEF StateOK, AtMostOnePending
    <3>2. items'[i].made = items[i].made
      BY <1>2 DEF Ages
    <3>3. items[i] \in RemoteItem
      BY <1>0
    <3>4. items'[i].life # "there"
      BY <1>1, <2>3, <3>1, <3>2, <3>3 DEF HeldRefs, There, RemoteItem
    <3>5. QED
      BY <1>6, <3>4 DEF Alive
  <2>4. QED
    BY <2>1, <2>2, <2>3 DEF Accounts
<1>7. StateOK(items', disk')
  BY <1>3, <1>5, <1>6 DEF StateOK, AtMostOnePending, PendingStandsForItsRef
<1>8. RestOK'
  BY <1>0 DEF ResolveCreate, RestOK, counters
<1>9. QED
  BY <1>2, <1>3, <1>7, <1>8, PersonStep DEF ResolveCreate

------------------------------------------------------------------------------
(* A command starts                                                          *)

\* A command reads the YAML and the state file.
LEMMA PrepareStep ==
  ASSUME Inductive, NEW p \in Procs, NEW c \in Command, Prepare(p, c)
  PROVE  Inductive'
<1> DEFINE rn == [IdleRun EXCEPT !.cmd = c, !.drafts = yaml, !.state = disk]
           place == IF c = "dry" THEN "settle" ELSE "prepared"
<1>1. /\ rn \in Run /\ rn.cmd = c /\ rn.state = disk
      /\ rn.read = [r \in Refs |-> None] /\ rn.edited = [r \in Refs |-> {}]
      /\ rn.missing = {}
  BY OfCommand, IdleOK DEF Run, IdleRun
<1>2. place \in Places /\ place \in {"settle", "prepared"}
  BY DEF Places
<1>3. ~Writer(place, rn)
  BY <1>1 DEF Writer
<1>4. Goto(p, place, rn)
  BY DEF Prepare
<1> HIDE DEF rn
<1>5. ShapeOK(place, rn)
  BY <1>1, OfCommand
     DEF ShapeOK, Fresh, StateOK, FreshPlaces, ReadPlaces, ApplyPlaces, StepPlaces
<1> HIDE DEF place
<1>6. CommandOK(items, place, rn)
  BY <1>3, <1>5 DEF CommandOK
<1>7. QED
  BY <1>1, <1>2, <1>3, <1>4, <1>6, MemoryStep DEF Prepare

\* A command takes the lock and reads the YAML and the state file again.
LEMMA TakeLockStep ==
  ASSUME Inductive, NEW p \in Procs, TakeLock(p)
  PROVE  Inductive'
<1> DEFINE rn == [run[p] EXCEPT !.drafts = yaml, !.state = disk,
                                !.unread = HeldRefs(disk)]
           place == IF run[p].cmd = "diff" THEN "read" ELSE "settle"
<1>1. run[p] \in Run /\ Fresh(run[p])
  BY OfCommand DEF TakeLock, ShapeOK, FreshPlaces
<1>2. HeldRefs(disk) = {r \in Refs : disk.held[r] # None}
  BY DEF HeldRefs
<1>3. /\ rn \in Run /\ rn.cmd = run[p].cmd /\ rn.state = disk /\ Fresh(rn)
      /\ rn.unread = {r \in Refs : disk.held[r] # None}
  BY <1>1, <1>2, OfCommand DEF Run, Fresh
<1>4. place \in Places /\ place \in {"read", "settle"}
      /\ (place = "read" <=> rn.cmd = "diff")
  BY <1>3 DEF Places
<1>5. Goto(p, place, rn)
  BY DEF TakeLock
<1> HIDE DEF rn, place
<1>6. ReadsOK(rn)
  BY <1>3 DEF ReadsOK, Fresh
<1>7. ShapeOK(place, rn)
  BY <1>3, <1>4, <1>6, OfCommand
     DEF ShapeOK, StateOK, FreshPlaces, ReadPlaces, ApplyPlaces, StepPlaces
<1>8. KnowsOK(items, place, rn)
  BY <1>3, <1>4, OfCommand DEF KnowsOK, NotThere, ReadPlaces, ApplyPlaces, StepPlaces
<1>9. CommandOK(items', place, rn) /\ Ages(items, items')
  BY <1>7, <1>8, AgesReflexive DEF CommandOK, TakeLock
<1>10. RestOK' /\ items' \in [Ids -> RemoteItem] /\ disk' \in PublishState
       /\ StateOK(items', disk')
  BY OfCommand DEF TakeLock, RestOK, counters
<1>11. lock' = p /\ lock = None /\ \A q \in Procs : lock # q
  BY NoneAssumption DEF TakeLock
<1>12. QED
  BY <1>3, <1>4, <1>5, <1>9, <1>10, <1>11, CommandStep DEF TakeLock

\* A command that does not get on ends.
LEMMA EndsQuietly ==
  ASSUME Inductive, NEW p \in Procs,
         \/ LockHeldElsewhere(p) \/ YamlChangedSincePlanned(p) \/ Stop(p)
         \/ RefuseInterruptedCreate(p) \/ RefuseInto(p) \/ EndDryRun(p)
         \/ RefuseMissing(p) \/ ReleaseLock(p)
  PROVE  Inductive'
<1>1. End(p) /\ UNCHANGED <<yaml, items, disk, seen, edits, revisions>>
  BY DEF LockHeldElsewhere, YamlChangedSincePlanned, Stop, RefuseInterruptedCreate,
         RefuseInto, EndDryRun, RefuseMissing, ReleaseLock, counters
<1>2. faults' \in Nat
  BY OfCommand DEF LockHeldElsewhere, YamlChangedSincePlanned, Stop, RestOK,
         RefuseInterruptedCreate, RefuseInto, EndDryRun, RefuseMissing, ReleaseLock,
         counters
<1>3. QED
  BY <1>1, <1>2, QuietEnd

------------------------------------------------------------------------------
(* Preflight                                                                 *)

\* A command that settles has read nothing yet.
LEMMA AtSettle ==
  ASSUME Inductive, NEW p \in Procs, pc[p] \in {"settle", "fill"},
         NEW st \in PublishState, AtMostOnePending(st),
         run[p].cmd # "dry" => StateOK(items', st),
         NEW id \in Ids \cup {None}
  PROVE  LET rn == [run[p] EXCEPT !.state = st, !.id = id]
         IN  /\ rn \in Run
             /\ CommandOK(items', "settle", rn)
             /\ Writer("settle", rn) => lock = p
<1> DEFINE rn == [run[p] EXCEPT !.state = st, !.id = id]
<1>1. run[p] \in Run /\ Fresh(run[p]) /\ run[p].cmd # "diff"
  BY OfCommand DEF ShapeOK, FreshPlaces
<1>2. rn \in Run /\ rn.state = st /\ rn.cmd = run[p].cmd /\ Fresh(rn)
  BY <1>1 DEF Run, Fresh
<1> HIDE DEF rn
<1>3. ShapeOK("settle", rn)
  BY <1>1, <1>2 DEF ShapeOK, FreshPlaces, ReadPlaces, ApplyPlaces, StepPlaces
<1>4. Writer("settle", rn) => lock = p /\ StateOK(items', st)
  BY <1>2, OfCommand DEF Writer
<1>5. CommandOK(items', "settle", rn)
  BY <1>2, <1>3, <1>4 DEF CommandOK, KnowsOK, ReadPlaces, ApplyPlaces, StepPlaces
<1>6. QED
  BY <1>2, <1>4, <1>5 DEF rn

\* The item of an interrupted create is recorded, or its entry dropped.
LEMMA SettleStep ==
  ASSUME Inductive, NEW p \in Procs, NEW d \in run[p].state.pending, Settle(p, d)
  PROVE  Inductive'
<1> DEFINE st == run[p].state
           i == PendingId(d)
           draft == run[p].drafts[d.ref]
           item == Adopted(d, i, items[i].text, draft, Keyed)
           own == There(i) /\ (d.into = None \/ items[i].stamp # None)
           st2 == IF own THEN WithItem(Drop(st, d), d.ref, item) ELSE Drop(st, d)
           rn == [run[p] EXCEPT !.state = st2]
<1>1. /\ st \in PublishState /\ AtMostOnePending(st) /\ d \in Pending
      /\ i \in Ids /\ i # None /\ d.ref \in Refs /\ draft \in Content \cup {None}
      /\ items[i].text \in Content
  <2>1. st \in PublishState /\ AtMostOnePending(st) /\ d \in Pending
    BY OfCommand DEF ShapeOK, PublishState
  <2>2. i \in Ids /\ i # None /\ d.ref \in Refs
    BY <2>1, NoneAssumption DEF Settle, Settleable, PendingId, Pending
  <2>3. draft \in Content \cup {None}
    BY <2>2, OfCommand DEF Run, Drafts
  <2>4. items[i].text \in Content
    BY <2>2, OfCommand DEF RemoteItem
  <2>5. QED
    BY <2>1, <2>2, <2>3, <2>4
<1>2. /\ item \in Item /\ item.id = i
      /\ d.into = None => item.origin = "created"
      /\ d.into # None => item.origin = "adopted"
  BY <1>1, AdoptedType
<1>3. pc[p] = "settle" /\ Goto(p, "settle", rn)
      /\ UNCHANGED <<yaml, items, disk, lock, seen, counters>>
  BY DEF Settle
<1> HIDE DEF item, draft, i
<1>4. /\ Drop(st, d) \in PublishState /\ Drop(st, d).pending = {}
      /\ WithItem(Drop(st, d), d.ref, item) \in PublishState
      /\ WithItem(Drop(st, d), d.ref, item).pending = {}
  BY <1>1, <1>2, DropType, WithItemType DEF AtMostOnePending
<1>5. st2 \in PublishState /\ AtMostOnePending(st2)
  BY <1>4 DEF AtMostOnePending
<1>6. ASSUME run[p].cmd # "dry" PROVE StateOK(items, st2)
  <2>1. StateOK(items, st) /\ ServiceOK(items)
    BY <1>3, <1>6, OfCommand DEF Writer
  <2>2. CASE own
    BY <1>1, <1>2, <2>1, <2>2, AdoptStateOK DEF i
  <2>3. CASE ~own
    BY <1>1, <2>1, <2>3, DropStateOK DEF i, There, Alive
  <2>4. QED
    BY <2>2, <2>3
<1>7. run[p].id \in Ids \cup {None} /\ run[p] \in Run
  BY OfCommand DEF Run
<1> HIDE DEF st2
<1>8. rn = [run[p] EXCEPT !.state = st2, !.id = run[p].id]
  BY <1>7 DEF Run
<1>9. rn \in Run /\ CommandOK(items, "settle", rn) /\ (Writer("settle", rn) => lock = p)
  BY <1>3, <1>5, <1>6, <1>7, <1>8, AtSettle
<1>10. QED
  BY <1>3, <1>9, MemoryStep DEF Places

\* The page was read empty; the fill is sent next.
LEMMA FindLeftEmptyStep ==
  ASSUME Inductive, NEW p \in Procs, NEW d \in run[p].state.pending,
         FindLeftEmpty(p, d)
  PROVE  Inductive'
<1> DEFINE rn == [run[p] EXCEPT !.id = PendingId(d)]
<1>1. run[p] \in Run /\ ShapeOK("settle", run[p]) /\ pc[p] = "settle"
      /\ d \in Pending /\ PendingId(d) \in Ids
      /\ Goto(p, "fill", rn) /\ UNCHANGED <<yaml, items, disk, lock, seen, counters>>
  BY OfCommand DEF FindLeftEmpty, PublishState, Settleable, PendingId, Pending
<1>2. \A e \in run[p].state.pending : e.into = None /\ run[p].drafts[e.ref] # None
  BY <1>1 DEF ShapeOK, AtMostOnePending, FindLeftEmpty
<1>3. /\ rn \in Run /\ rn.state = run[p].state /\ rn.cmd = run[p].cmd
      /\ rn.drafts = run[p].drafts /\ rn.id \in Ids /\ Fresh(rn)
  BY <1>1 DEF Run, ShapeOK, Fresh, FreshPlaces
<1> HIDE DEF rn
<1>4. ShapeOK("fill", rn)
  BY <1>1, <1>2, <1>3 DEF ShapeOK, FreshPlaces, ReadPlaces, ApplyPlaces, StepPlaces
<1>5. Writer("fill", rn) => lock = p /\ StateOK(items, rn.state)
  BY <1>1, <1>3, OfCommand DEF Writer
<1>6. CommandOK(items, "fill", rn)
  BY <1>4, <1>5 DEF CommandOK, KnowsOK, ReadPlaces, ApplyPlaces, StepPlaces
<1>7. QED
  BY <1>1, <1>3, <1>5, <1>6, MemoryStep DEF Places

\* What a command that is about to fill a page knows.
LEMMA AtFill ==
  ASSUME Inductive, NEW p \in Procs, NEW d \in run[p].state.pending, pc[p] = "fill",
         PendingId(d) = run[p].id
  PROVE  /\ d \in Pending /\ d.ref \in Refs /\ d.into = None
         /\ run[p].id \in Ids /\ items[run[p].id] \in RemoteItem
         /\ run[p].drafts[d.ref] \in Content
BY OfCommand DEF ShapeOK, PublishState, Pending, Run, Drafts

\* The page is filled and recorded.
LEMMA FillStep ==
  ASSUME Inductive, NEW p \in Procs, NEW d \in run[p].state.pending, Fill(p, d)
  PROVE  Inductive'
<1> DEFINE st == run[p].state
           i == run[p].id
           draft == run[p].drafts[d.ref]
           filled == Write(items[i], d.ref, draft, Parts)
           item == Adopted(d, i, filled.text, draft, TRUE)
           st2 == WithItem(Drop(st, d), d.ref, item)
           rn == [run[p] EXCEPT !.state = st2, !.id = None]
<1>1. pc[p] = "fill" /\ PendingId(d) = i /\ i # None /\ Goto(p, "settle", rn)
      /\ items' = [items EXCEPT ![i] = filled]
      /\ UNCHANGED <<yaml, disk, lock, seen, counters>>
  BY AtFill, NoneAssumption DEF Fill
<1>2. d \in Pending /\ d.ref \in Refs /\ d.into = None /\ i \in Ids
      /\ items[i] \in RemoteItem /\ draft \in Content
  BY <1>1, AtFill
<1>3. /\ filled \in RemoteItem /\ filled.life = items[i].life
      /\ filled.made = items[i].made /\ filled.text \in Content
  BY <1>2, WriteKeepsLife
<1>4. item \in Item /\ item.id = i /\ item.origin = "created"
  BY <1>2, <1>3, FilledType
<1> HIDE DEF filled, item, draft
<1>5. items' \in [Ids -> RemoteItem] /\ Ages(items, items')
  <2>1. items' = [items EXCEPT ![i] = filled] /\ items \in [Ids -> RemoteItem]
    BY <1>1, OfCommand
  <2>2. QED
    BY <1>2, <1>3, <2>1, OneItemAges
<1>6. st \in PublishState /\ AtMostOnePending(st)
  BY OfCommand DEF ShapeOK
<1>7. st2 \in PublishState /\ AtMostOnePending(st2)
  BY <1>2, <1>4, <1>6, DropType, WithItemType DEF AtMostOnePending
<1>8. ASSUME run[p].cmd # "dry" PROVE StateOK(items', st2)
  <2>1. StateOK(items', st) /\ ServiceOK(items')
    BY <1>1, <1>5, <1>6, <1>8, OfCommand, AgesStateOK, AgesServiceOK DEF Writer
  <2>2. QED
    BY <1>1, <1>2, <1>4, <1>6, <2>1, AdoptStateOK
<1> HIDE DEF st2
<1>9. rn \in Run /\ CommandOK(items', "settle", rn) /\ (Writer("settle", rn) => lock = p)
  BY <1>1, <1>7, <1>8, AtSettle
<1>10. disk' = disk /\ StateOK(items', disk') /\ lock' = lock /\ RestOK'
  BY <1>1, <1>5, OfCommand, AgesStateOK DEF RestOK, counters
<1> HIDE DEF rn
<1>11. QED
  BY <1>1, <1>5, <1>9, <1>10, CommandStep, OfCommand DEF Places

\* The fill is refused or lands in part; the command ends.
LEMMA FillFailsStep ==
  ASSUME Inductive, NEW p \in Procs, NEW d \in run[p].state.pending, FillFails(p, d)
  PROVE  Inductive'
<1> DEFINE i == run[p].id
           draft == run[p].drafts[d.ref]
<1>1. End(p) /\ UNCHANGED <<yaml, disk, seen, edits, revisions>>
      /\ faults' \in Nat
  BY OfCommand DEF FillFails, RestOK
<1>2. d.ref \in Refs /\ i \in Ids /\ items[i] \in RemoteItem /\ draft \in Content
  BY AtFill DEF FillFails
<1>3. items' \in [Ids -> RemoteItem] /\ Ages(items, items')
  <2>1. CASE UNCHANGED items
    BY <2>1, OfCommand, AgesReflexive
  <2>2. CASE \E ps \in SUBSET Parts :
               items' = [items EXCEPT ![i] = Write(@, d.ref, draft, ps)]
    <3>1. PICK ps \in SUBSET Parts :
            items' = [items EXCEPT ![i] = Write(items[i], d.ref, draft, ps)]
      BY <2>2
    <3> DEFINE item == Write(items[i], d.ref, draft, ps)
    <3>2. item \in RemoteItem /\ item.life = items[i].life /\ item.made = items[i].made
      BY <1>2, WriteKeepsLife
    <3> HIDE DEF item
    <3>3. items' = [items EXCEPT ![i] = item]
      BY <3>1 DEF item
    <3>4. QED
      BY <1>2, <3>2, <3>3, OfCommand, OneItemAges
  <2>3. QED
    BY <2>1, <2>2 DEF FillFails
<1>4. StateOK(items', disk') /\ RestOK'
  BY <1>1, <1>3, OfCommand, AgesStateOK DEF RestOK
<1>5. QED
  BY <1>1, <1>3, <1>4, EndStep, OfCommand

\* All creates are settled: the items are read.
LEMMA AllSettledStep ==
  ASSUME Inductive, NEW p \in Procs, AllSettled(p)
  PROVE  Inductive'
<1> DEFINE rn == [run[p] EXCEPT !.unread = HeldRefs(run[p].state)]
<1>1. run[p] \in Run /\ Fresh(run[p]) /\ run[p].state.pending = {} /\ pc[p] = "settle"
      /\ Goto(p, "read", rn) /\ UNCHANGED <<yaml, items, disk, lock, seen, counters>>
  BY OfCommand DEF AllSettled, ShapeOK, FreshPlaces
<1>2. /\ rn \in Run /\ rn.state = run[p].state /\ rn.cmd = run[p].cmd /\ Fresh(rn)
      /\ rn.unread = {r \in Refs : rn.state.held[r] # None}
  BY <1>1 DEF Run, Fresh, HeldRefs
<1> HIDE DEF rn
<1>3. ReadsOK(rn)
  BY <1>2 DEF ReadsOK, Fresh
<1>4. ShapeOK("read", rn)
  BY <1>1, <1>2, <1>3
     DEF ShapeOK, AtMostOnePending, FreshPlaces, ReadPlaces, ApplyPlaces, StepPlaces
<1>5. Writer("read", rn) => lock = p /\ StateOK(items, rn.state)
  BY <1>1, <1>2, OfCommand DEF Writer
<1>6. CommandOK(items, "read", rn)
  BY <1>2, <1>4, <1>5
     DEF CommandOK, KnowsOK, NotThere, ReadPlaces, ApplyPlaces, StepPlaces
<1>7. QED
  BY <1>1, <1>2, <1>5, <1>6, MemoryStep DEF Places

\* One read more: what is recorded, found and edited of one ref changes.
LEMMA OneRead ==
  ASSUME Inductive, NEW p \in Procs, pc[p] = "read", NEW r \in run[p].unread,
         NEW item \in Item \cup {None}, NEW read \in Content \cup {None},
         NEW missing \in SUBSET Refs, NEW edited \in SUBSET Parts,
         missing \in {run[p].missing, run[p].missing \cup {r}},
         item # None => (r \in missing <=> read = None),
         edited # {} => item # None /\ read # None,
         LET rn == [run[p] EXCEPT !.unread = @ \ {r},
                      !.state = WithItem(run[p].state, r, item), !.read[r] = read,
                      !.missing = missing, !.edited[r] = edited]
         IN  Goto(p, "read", rn),
         UNCHANGED <<yaml, items, disk, lock, seen, counters>>,
         Writer("read", run[p]) => StateOK(items, WithItem(run[p].state, r, item)),
         Writer("read", run[p]) /\ read = None =>
           NotThere(items, WithItem(run[p].state, r, item), r)
  PROVE  Inductive'
<1> DEFINE old == run[p]
           st2 == WithItem(old.state, r, item)
           rn == [old EXCEPT !.unread = @ \ {r}, !.state = st2, !.read[r] = read,
                             !.missing = missing, !.edited[r] = edited]
<1>1. old \in Run /\ ReadsOK(old) /\ ShapeOK("read", old) /\ r \in Refs
      /\ old.state \in PublishState
  BY OfCommand DEF ShapeOK, ReadPlaces, Run
<1>2. /\ st2 \in PublishState /\ st2.pending = old.state.pending /\ st2.held[r] = item
      /\ \A q \in Refs \ {r} : st2.held[q] = old.state.held[q]
  BY <1>1, WithItemType
<1> HIDE DEF st2
<1>3. /\ rn \in Run /\ rn.state = st2 /\ rn.cmd = old.cmd /\ rn.missing = missing
      /\ rn.unread = old.unread \ {r}
      /\ rn.read[r] = read /\ rn.edited[r] = edited
      /\ \A q \in Refs \ {r} : rn.read[q] = old.read[q] /\ rn.edited[q] = old.edited[q]
  BY <1>1, <1>2 DEF Run
<1>4. Goto(p, "read", rn)
  BY DEF st2
<1> HIDE DEF rn
<1>5. ReadsOK(rn)
  BY <1>1, <1>2, <1>3 DEF ReadsOK
<1>6. ShapeOK("read", rn)
  BY <1>1, <1>2, <1>3, <1>5
     DEF ShapeOK, AtMostOnePending, FreshPlaces, ReadPlaces, ApplyPlaces, StepPlaces
<1>7. ASSUME Writer("read", rn)
      PROVE  lock = p /\ KnowsOK(items, "read", rn)
  <2>1. Writer("read", old) /\ lock = p /\ KnowsOK(items, "read", old)
    BY <1>3, <1>7, OfCommand DEF Writer
  <2>2. StateOK(items, rn.state)
    BY <1>3, <2>1 DEF st2
  <2>3. ASSUME NEW q \in Refs \ rn.unread, rn.read[q] = None
        PROVE  NotThere(items, rn.state, q)
    <3>1. CASE q = r
      BY <1>3, <2>1, <2>3, <3>1 DEF st2
    <3>2. CASE q # r
      BY <1>2, <1>3, <2>1, <2>3, <3>2 DEF KnowsOK, NotThere, ReadPlaces
    <3>3. QED
      BY <3>1, <3>2
  <2>4. QED
    BY <2>1, <2>2, <2>3 DEF KnowsOK, ReadPlaces, ApplyPlaces, StepPlaces
<1>8. QED
  BY <1>3, <1>4, <1>6, <1>7, MemoryStep DEF CommandOK, Places

\* An item of the state file is read: forgotten, missing, kept or settled.
LEMMA ReadItemStep ==
  ASSUME Inductive, NEW p \in Procs, NEW r \in Refs, ReadItem(p, r)
  PROVE  Inductive'
<1> DEFINE st == run[p].state
           old == st.held[r]
           item == IF run[p].drafts[r] # None THEN [old EXCEPT !.retiring = FALSE]
                                              ELSE old
           found == Found(item, items[item.id])
           missing == IF found.item # None /\ found.read = None
                      THEN run[p].missing \cup {r} ELSE run[p].missing
           rn == [run[p] EXCEPT !.unread = @ \ {r}, !.state = WithItem(st, r, found.item),
                    !.read[r] = found.read, !.missing = missing,
                    !.edited[r] = found.edited]
<1>1. /\ pc[p] = "read" /\ r \in run[p].unread /\ Goto(p, "read", rn)
      /\ UNCHANGED <<yaml, items, disk, lock, seen, counters>>
  BY DEF ReadItem
<1>2. /\ run[p] \in Run /\ st \in PublishState /\ old \in Item /\ old # None
      /\ r \notin run[p].missing /\ run[p].missing \in SUBSET Refs
  <2>1. run[p] \in Run /\ ReadsOK(run[p])
    BY <1>1, OfCommand DEF ShapeOK, ReadPlaces
  <2>2. old # None /\ r \notin run[p].missing
    BY <1>1, <2>1 DEF ReadsOK
  <2>3. QED
    BY <2>1, <2>2, SMTT(20) DEF PublishState, Run
<1>3. item \in Item /\ item.id = old.id /\ item.origin = old.origin
  BY <1>2 DEF Item
<1>4. items[item.id] \in RemoteItem
  BY <1>3, OfCommand DEF Item
<1> HIDE DEF item
<1>5. /\ found.item \in Item \cup {None} /\ found.read \in Content \cup {None}
      /\ found.edited \in SUBSET Parts
      /\ found.item # None => found.item.id = old.id /\ found.item.origin = old.origin
      /\ found.item = None => ~Alive(items, old.id) \/ old.origin = "adopted"
      /\ found.read = None => found.item = None \/ ~Alive(items, old.id)
      /\ found.edited # {} => found.item # None /\ found.read # None
  BY <1>3, <1>4, FoundType DEF Alive
<1> HIDE DEF found
<1>6. missing \in SUBSET Refs /\ missing \in {run[p].missing, run[p].missing \cup {r}}
      /\ (found.item # None => (r \in missing <=> found.read = None))
  BY <1>2
<1>7. ASSUME Writer("read", run[p])
      PROVE  StateOK(items, WithItem(st, r, found.item))
  <2>1. StateOK(items, st) /\ ServiceOK(items)
    BY <1>1, <1>7, OfCommand
  <2>2. CASE found.item = None
    <3>1. ~Alive(items, old.id) \/ items[old.id].made = None
      BY <1>2, <1>5, <2>1, <2>2 DEF StateOK, HeldItemsAreTheRefs, ServiceOK
    <3>2. QED
      BY <1>2, <2>1, <2>2, <3>1, ForgetStateOK
  <2>3. CASE found.item # None
    BY <1>2, <1>5, <2>1, <2>3, SameHeldStateOK, WithSameItem
  <2>4. QED
    BY <2>2, <2>3
<1>8. found.read = None => NotThere(items, WithItem(st, r, found.item), r)
  BY <1>2, <1>5, WithItemType DEF NotThere
<1> HIDE DEF missing
<1>9. QED
  <2> DEFINE new == found.item
             read == found.read
             edited == found.edited
  <2>1. /\ new \in Item \cup {None} /\ read \in Content \cup {None}
        /\ edited \in SUBSET Parts /\ (edited # {} => new # None /\ read # None)
        /\ new # None => (r \in missing <=> read = None)
        /\ Writer("read", run[p]) => StateOK(items, WithItem(st, r, new))
        /\ read = None => NotThere(items, WithItem(st, r, new), r)
        /\ Goto(p, "read", [run[p] EXCEPT !.unread = @ \ {r},
                !.state = WithItem(run[p].state, r, new), !.read[r] = read,
                !.missing = missing, !.edited[r] = edited])
    BY <1>1, <1>5, <1>6, <1>7, <1>8
  <2> HIDE DEF new, read, edited, st
  <2>2. QED
    BY <1>1, <1>6, <2>1, OneRead DEF st

\* All items are read.
LEMMA AllReadStep ==
  ASSUME Inductive, NEW p \in Procs, AllRead(p)
  PROVE  Inductive'
<1> DEFINE rn == run[p]
           place == IF rn.cmd # "diff" /\ WritesInto(rn) THEN "into" ELSE "decide"
<1>1. pc[p] = "read" /\ rn.unread = {} /\ Goto(p, place, rn) /\ rn \in Run
      /\ UNCHANGED <<yaml, items, disk, lock, seen, counters>>
  BY OfCommand DEF AllRead
<1>2. place \in {"into", "decide"} /\ place \in Places
      /\ (place = "into" => rn.cmd # "diff" /\ WritesInto(rn))
  BY DEF Places
<1> HIDE DEF place
<1>3. ShapeOK(place, rn)
  BY <1>1, <1>2, OfCommand
     DEF ShapeOK, WritesInto, FreshPlaces, ReadPlaces, ApplyPlaces, StepPlaces
<1>4. Writer(place, rn) => lock = p /\ KnowsOK(items, place, rn)
  BY <1>1, <1>2, OfCommand DEF Writer, KnowsOK, ReadPlaces, ApplyPlaces, StepPlaces
<1>5. QED
  BY <1>1, <1>2, <1>3, <1>4, MemoryStep DEF CommandOK

\* The page to write into is read.
LEMMA ReadIntoStep ==
  ASSUME Inductive, NEW p \in Procs, ReadInto(p)
  PROVE  Inductive'
<1> DEFINE text == items[Into].text
           rn == [run[p] EXCEPT !.read[Document] = text]
<1>1. /\ pc[p] = "into" /\ Goto(p, "decide", rn) /\ run[p] \in Run
      /\ ShapeOK("into", run[p])
      /\ UNCHANGED <<yaml, items, disk, lock, seen, counters>>
  BY OfCommand DEF ReadInto
<1>2. Into \in Ids /\ Document \in Refs /\ text \in Content /\ text # None
  BY <1>1, ConstantsAssumption, NoneAssumption, OfCommand DEF ShapeOK, RemoteItem
<1> HIDE DEF text
<1>3. /\ rn \in Run /\ rn.state = run[p].state /\ rn.cmd = run[p].cmd
      /\ rn.unread = run[p].unread /\ rn.missing = run[p].missing
      /\ rn.edited = run[p].edited /\ rn.read[Document] = text
      /\ \A r \in Refs \ {Document} : rn.read[r] = run[p].read[r]
  BY <1>1, <1>2 DEF Run
<1> HIDE DEF rn
<1>4. /\ ReadsOK(run[p]) /\ run[p].state.held[Document] = None /\ rn.unread = {}
      /\ AtMostOnePending(rn.state) /\ (rn.cmd # "diff" => rn.state.pending = {})
  BY <1>1, <1>3 DEF ShapeOK, ReadPlaces
<1>5. ReadsOK(rn)
  BY <1>2, <1>3, <1>4 DEF ReadsOK
<1>6. ShapeOK("decide", rn)
  BY <1>4, <1>5 DEF ShapeOK, FreshPlaces, ReadPlaces, ApplyPlaces, StepPlaces
<1>7. ASSUME Writer("decide", rn)
      PROVE  lock = p /\ KnowsOK(items, "decide", rn)
  <2>1. lock = p /\ KnowsOK(items, "into", run[p])
    BY <1>1, <1>3, <1>7, OfCommand DEF Writer
  <2>2. QED
    BY <1>2, <1>3, <2>1 DEF KnowsOK, ReadPlaces, ApplyPlaces, StepPlaces
<1>8. QED
  BY <1>1, <1>3, <1>6, <1>7, MemoryStep DEF CommandOK, Places

------------------------------------------------------------------------------
(* The decision                                                              *)

\* A refused apply and a diff save what they showed.
LEMMA ShowEditsStep ==
  ASSUME Inductive, NEW p \in Procs,
         RefuseEdited(p) \/ RefuseUnseen(p) \/ ShowDiff(p)
  PROVE  Inductive'
<1>1. PICK rs \in SUBSET EditedRefs(run[p]) : ShowEdits(p, rs)
  BY DEF RefuseEdited, RefuseUnseen, ShowDiff, Unseen
<1>2. pc[p] = "decide" /\ run[p].cmd # "dry" /\ Writer(pc[p], run[p])
  BY DEF RefuseEdited, RefuseUnseen, ShowDiff, Writer
<1>3. run[p] \in Run /\ ReadsOK(run[p]) /\ StateOK(items, run[p].state)
      /\ run[p].state \in PublishState
  BY <1>2, OfCommand DEF ShapeOK, ReadPlaces
<1>4. WithShown(run[p], rs) \in PublishState
      /\ StateOK(items, WithShown(run[p], rs))
  BY <1>3, WithShownType, SameHeldStateOK
<1>5. /\ disk' = WithShown(run[p], rs) /\ ShowsTo(run[p], rs) /\ End(p)
      /\ UNCHANGED <<yaml, items, counters>>
  BY <1>1 DEF ShowEdits
<1>6. seen' \subseteq Ids \X Parts \X Texts
  <2>1. ASSUME NEW r \in rs, NEW x \in run[p].edited[r]
        PROVE  <<run[p].state.held[r].id, x, run[p].read[r][x]>> \in Ids \X Parts \X Texts
    <3>1. r \in Refs /\ run[p].edited[r] # {} /\ x \in Parts
      BY <1>3, <2>1 DEF EditedRefs, Run
    <3>2. run[p].state.held[r] \in Item /\ run[p].read[r] \in Content
      BY <1>3, <3>1 DEF ReadsOK, Run, PublishState
    <3>3. QED
      BY <3>1, <3>2 DEF Item, Content
  <2>2. seen \subseteq Ids \X Parts \X Texts
    BY OfCommand DEF RestOK
  <2>3. QED
    BY <1>5, <2>1, <2>2 DEF ShowsTo
<1>7. RestOK' /\ Ages(items, items') /\ items' \in [Ids -> RemoteItem]
      /\ disk' \in PublishState /\ StateOK(items', disk')
  BY <1>4, <1>5, <1>6, OfCommand, AgesReflexive DEF RestOK, counters
<1>8. QED
  BY <1>2, <1>5, <1>7, EndStep

\* The page the target names is gone: what was settled is saved.
LEMMA RefuseMissingIntoStep ==
  ASSUME Inductive, NEW p \in Procs, RefuseMissingInto(p)
  PROVE  Inductive'
<1>1. pc[p] = "decide" /\ run[p].cmd # "dry" /\ Writer(pc[p], run[p])
  BY DEF RefuseMissingInto, MayWrite, Writer
<1>2. disk' = run[p].state /\ End(p) /\ UNCHANGED <<yaml, items, seen, counters>>
  BY DEF RefuseMissingInto
<1>3. RestOK' /\ Ages(items, items') /\ items' \in [Ids -> RemoteItem]
      /\ disk' \in PublishState /\ StateOK(items', disk')
  BY <1>1, <1>2, OfCommand, AgesReflexive DEF RestOK, counters
<1>4. QED
  BY <1>1, <1>2, <1>3, EndStep

\* What was settled is saved, and the writes are planned.
LEMMA MakePlanStep ==
  ASSUME Inductive, NEW p \in Procs, MakePlan(p)
  PROVE  Inductive'
<1> DEFINE rn == [run[p] EXCEPT !.todo = Plan(run[p])]
<1>1. /\ pc[p] = "decide" /\ run[p].cmd \in {"apply", "overwrite"}
      /\ Writer(pc[p], run[p])
  BY DEF MakePlan, MayWrite, Writer
<1>2. /\ run[p] \in Run /\ ReadsOK(run[p]) /\ run[p].unread = {}
      /\ run[p].state.pending = {} /\ lock = p /\ StateOK(items, run[p].state)
      /\ KnowsOK(items, "decide", run[p])
  BY <1>1, OfCommand DEF ShapeOK, ReadPlaces
<1>3. /\ disk' = run[p].state /\ Goto(p, "apply", rn)
      /\ UNCHANGED <<yaml, items, lock, seen, counters>>
  BY DEF MakePlan
<1>4. /\ Plan(run[p]) \in SUBSET Step
      /\ \A t \in Plan(run[p]) : Planned(run[p], t) /\ Whole(t)
      /\ \A t \in Plan(run[p]) : t.kind = "create" =>
           run[p].state.held[t.ref] = None \/ run[p].read[t.ref] = None
  BY <1>2, PlanType
<1>5. /\ rn \in Run /\ rn.todo = Plan(run[p]) /\ rn.state = run[p].state
      /\ rn.cmd = run[p].cmd /\ rn.drafts = run[p].drafts /\ rn.read = run[p].read
  BY <1>2, <1>4 DEF Run
<1> HIDE DEF rn
<1>6. \A t \in rn.todo : Planned(rn, t) /\ Whole(t)
  BY <1>4, <1>5 DEF Planned
<1>7. ShapeOK("apply", rn)
  BY <1>1, <1>2, <1>5, <1>6
     DEF ShapeOK, AtMostOnePending, FreshPlaces, ReadPlaces, ApplyPlaces, StepPlaces
<1>8. \A r \in Refs : rn.read[r] = None => NotThere(items, rn.state, r)
  BY <1>2, <1>5 DEF KnowsOK, ReadPlaces
<1>9. \A t \in rn.todo : t.kind = "create" => NotThere(items, rn.state, t.ref)
  BY <1>4, <1>5, <1>8 DEF Step, NotThere
<1>10. CommandOK(items, "apply", rn)
  BY <1>2, <1>5, <1>7, <1>8, <1>9
     DEF CommandOK, KnowsOK, ReadPlaces, ApplyPlaces, StepPlaces
<1>11. RestOK' /\ Ages(items, items') /\ items' \in [Ids -> RemoteItem]
       /\ disk' \in PublishState /\ StateOK(items', disk') /\ lock' = lock
       /\ items' = items
  BY <1>1, <1>2, <1>3, OfCommand, AgesReflexive DEF RestOK, counters
<1>12. QED
  BY <1>1, <1>2, <1>3, <1>5, <1>10, <1>11, CommandStep DEF Places

------------------------------------------------------------------------------
(* The applier: frames                                                       *)

\* What a command that applies knows.
LEMMA AtApply ==
  ASSUME Inductive, NEW p \in Procs, pc[p] \in ApplyPlaces
  PROVE  /\ run[p] \in Run /\ run[p].state \in PublishState
         /\ Writer(pc[p], run[p]) /\ lock = p
         /\ run[p].cmd \in {"apply", "overwrite"}
         /\ StateOK(items, run[p].state) /\ KnowsOK(items, pc[p], run[p])
         /\ \A t \in run[p].todo :
              /\ t \in Step /\ t.ref \in Refs /\ Planned(run[p], t) /\ Whole(t)
              /\ t.kind = "create" => NotThere(items, run[p].state, t.ref)
         /\ \A r \in Refs : run[p].read[r] = None => NotThere(items, run[p].state, r)
<1>1. ShapeOK(pc[p], run[p]) /\ run[p] \in Run /\ run[p].state \in PublishState
  BY OfCommand
<1>2. run[p].cmd \in {"apply", "overwrite"}
      /\ \A t \in run[p].todo : Planned(run[p], t) /\ Whole(t)
  BY <1>1 DEF ShapeOK
<1>3. Writer(pc[p], run[p])
  BY <1>2 DEF Writer, ApplyPlaces, StepPlaces
<1>4. lock = p /\ KnowsOK(items, pc[p], run[p]) /\ StateOK(items, run[p].state)
  BY <1>3, OfCommand
<1>5. \A t \in run[p].todo : t \in Step /\ t.ref \in Refs
  BY <1>1 DEF Run, Step
<1>6. QED
  BY <1>1, <1>2, <1>3, <1>4, <1>5 DEF KnowsOK

\* What a command in the middle of a step knows of the step.
LEMMA AtStep ==
  ASSUME Inductive, NEW p \in Procs, pc[p] \in StepPlaces
  PROVE  /\ pc[p] \in ApplyPlaces
         /\ run[p].step \in Step /\ run[p].step.ref \in Refs
         /\ Planned(run[p], run[p].step) /\ Alone(run[p], run[p].step)
         /\ StepOK(pc[p], run[p])
         /\ run[p].drafts \in Drafts
<1>1. pc[p] \in ApplyPlaces
  BY DEF ApplyPlaces
<1>2. run[p] \in Run /\ StepOK(pc[p], run[p])
  BY <1>1, OfCommand DEF ShapeOK
<1>3. QED
  BY <1>1, <1>2 DEF StepOK, Run, Step

\* A step is noted in the state file and begun.
LEMMA BeginStep ==
  ASSUME Inductive, NEW p \in Procs, NEW s \in run[p].todo, pc[p] = "apply",
         NEW place \in {"creating", "writing", "retiring"},
         NEW st \in PublishState, StateOK(items, st),
         \A r \in Refs : run[p].state.held[r] # None => st.held[r] # None,
         \A r \in Refs : NotThere(items, run[p].state, r) => NotThere(items, st, r),
         disk' = st, Start(p, place, s, st),
         UNCHANGED <<yaml, items, lock, seen, counters>>,
         place = "creating" =>
           /\ s.kind = "create" /\ st.pending = {PendingOf(s)}
           /\ HoldsAllBut(items, st, None),
         place # "creating" => st.pending = {},
         place = "writing" => s.kind = "write" /\ st.held[s.ref].writing # None,
         place = "retiring" => s.kind = "retire" /\ run[p].read[s.ref] # None
  PROVE  Inductive'
<1> DEFINE rn == [run[p] EXCEPT !.state = st, !.step = s, !.todo = @ \ {s}]
<1>1. pc[p] \in ApplyPlaces
  BY DEF ApplyPlaces
<1>2. /\ run[p] \in Run /\ lock = p /\ run[p].cmd \in {"apply", "overwrite"}
      /\ Writer(pc[p], run[p])
      /\ \A t \in run[p].todo :
              /\ t \in Step /\ t.ref \in Refs /\ Planned(run[p], t) /\ Whole(t)
              /\ t.kind = "create" => NotThere(items, run[p].state, t.ref)
      /\ \A r \in Refs : run[p].read[r] = None => NotThere(items, run[p].state, r)
  BY <1>1, AtApply
<1>3. /\ rn \in Run /\ rn.state = st /\ rn.cmd = run[p].cmd /\ rn.step = s
      /\ rn.todo = run[p].todo \ {s} /\ rn.drafts = run[p].drafts
      /\ rn.read = run[p].read
  BY <1>2 DEF Run
<1>4. Goto(p, place, rn)
  BY DEF Start
<1> HIDE DEF rn
<1>5. \A r \in Refs : NotThere(items, run[p].state, r) => NotThere(items, st, r)
  OBVIOUS
<1>6. \A t \in run[p].todo : Planned(rn, t) /\ Whole(t)
  BY <1>2, <1>3 DEF Planned
<1>7. s # None /\ Alone(rn, s)
  <2>1. \A t \in rn.todo : t.kind = s.kind /\ s.kind # "write" => t.ref # s.ref
    <3>1. SUFFICES ASSUME NEW t \in rn.todo, t.kind = s.kind, s.kind # "write",
                          t.ref = s.ref
                   PROVE  FALSE
      OBVIOUS
    <3>2. t.parts = s.parts
      BY <1>2, <1>3, <3>1 DEF Whole, Step
    <3>3. t = s
      BY <1>2, <1>3, <3>1, <3>2 DEF Step
    <3>4. QED
      BY <1>3, <3>3
  <2>2. QED
    BY <1>2, <2>1, NoneAssumption DEF Alone
<1>8. StepOK(place, rn)
  BY <1>3, <1>6, <1>7 DEF StepOK
<1>9. ShapeOK(place, rn)
  BY <1>2, <1>3, <1>6, <1>8
     DEF ShapeOK, AtMostOnePending, FreshPlaces, ReadPlaces, ApplyPlaces, StepPlaces
<1>10. KnowsOK(items, place, rn)
  BY <1>2, <1>3, <1>5 DEF KnowsOK, ReadPlaces, ApplyPlaces, StepPlaces
<1>11. RestOK' /\ Ages(items, items') /\ items' \in [Ids -> RemoteItem]
       /\ disk' \in PublishState /\ StateOK(items', disk') /\ lock' = lock
       /\ items' = items
  BY OfCommand, AgesReflexive DEF RestOK, counters
<1>12. QED
  BY <1>2, <1>3, <1>4, <1>9, <1>10, <1>11, CommandStep, OfCommand DEF CommandOK, Places

\* A step is over: its outcome is in the state file.
LEMMA DoneStep ==
  ASSUME Inductive, RestOK', NEW p \in Procs, pc[p] \in ApplyPlaces,
         NEW s, s.ref \in Refs, NEW st \in PublishState, NEW text \in Content \cup {None},
         StepDone(p, s, st, text), lock' = lock,
         items' \in [Ids -> RemoteItem], Ages(items, items'),
         StateOK(items', st), st.pending = {},
         \A q \in Refs \ {s.ref} : st.held[q] = run[p].state.held[q],
         text = None => NotThere(items', st, s.ref),
         \A t \in run[p].todo \ {s} : t.ref = s.ref =>
           /\ t.kind = "create" => NotThere(items', st, s.ref)
           /\ t.kind = "write" => st.held[s.ref] # None /\ text # None
           /\ t.kind = "retire" => st.held[s.ref] # None
  PROVE  Inductive'
<1> DEFINE rn == [run[p] EXCEPT !.state = st, !.todo = @ \ {s}, !.step = None,
                                !.id = None, !.read[s.ref] = text]
<1>1. /\ run[p] \in Run /\ lock = p /\ run[p].cmd \in {"apply", "overwrite"}
      /\ Writer(pc[p], run[p]) /\ run[p].state \in PublishState
      /\ \A t \in run[p].todo :
              /\ t \in Step /\ t.ref \in Refs /\ Planned(run[p], t) /\ Whole(t)
              /\ t.kind = "create" => NotThere(items, run[p].state, t.ref)
      /\ \A r \in Refs : run[p].read[r] = None => NotThere(items, run[p].state, r)
  BY AtApply
<1>2. /\ rn \in Run /\ rn.state = st /\ rn.cmd = run[p].cmd
      /\ rn.todo = run[p].todo \ {s} /\ rn.drafts = run[p].drafts
      /\ rn.read[s.ref] = text
      /\ \A q \in Refs \ {s.ref} : rn.read[q] = run[p].read[q]
  BY <1>1 DEF Run
<1>3. Goto(p, "apply", rn) /\ disk' = st
  BY DEF StepDone
<1> HIDE DEF rn
<1>4. ASSUME NEW q \in Refs \ {s.ref}, NotThere(items, run[p].state, q)
      PROVE  NotThere(items', st, q)
  <2>1. st.held[q] # None => st.held[q].id \in Ids
    BY DEF PublishState, Item
  <2>2. QED
    BY <1>4, <2>1 DEF NotThere, Ages, Alive
<1>5. \A t \in rn.todo : Planned(rn, t) /\ Whole(t)
  BY <1>1, <1>2 DEF Planned
<1>6. ShapeOK("apply", rn)
  BY <1>1, <1>2, <1>5
     DEF ShapeOK, AtMostOnePending, FreshPlaces, ReadPlaces, ApplyPlaces, StepPlaces
<1>7. \A r \in Refs : rn.read[r] = None => NotThere(items', st, r)
  BY <1>1, <1>2, <1>4
<1>8. \A t \in rn.todo : t.kind = "create" => NotThere(items', st, t.ref)
  BY <1>1, <1>2, <1>4
<1>9. KnowsOK(items', "apply", rn)
  BY <1>2, <1>7, <1>8 DEF KnowsOK, ReadPlaces, ApplyPlaces, StepPlaces
<1>10. CommandOK(items', "apply", rn) /\ "apply" \in Places
  BY <1>6, <1>9 DEF CommandOK, Places
<1>11. QED
  BY <1>1, <1>2, <1>3, <1>10, CommandStep

------------------------------------------------------------------------------
(* Creates                                                                   *)

\* The create is noted.
LEMMA StartCreateStep ==
  ASSUME Inductive, NEW p \in Procs, NEW s \in run[p].todo, StartCreate(p, s)
  PROVE  Inductive'
<1> DEFINE st == [run[p].state EXCEPT !.pending = @ \cup {PendingOf(s)}]
<1>1. /\ pc[p] = "apply" /\ s.kind = "create" /\ disk' = st
      /\ Start(p, "creating", s, st) /\ UNCHANGED <<yaml, items, lock, seen, counters>>
  BY DEF StartCreate
<1>2. /\ run[p].state \in PublishState /\ StateOK(items, run[p].state)
      /\ s.ref \in Refs /\ NotThere(items, run[p].state, s.ref)
      /\ run[p].state.pending = {}
  BY <1>1, AtApply, OfCommand DEF ApplyPlaces, ShapeOK
<1>3. /\ st \in PublishState /\ st.held = run[p].state.held
      /\ st.pending = {PendingOf(s)}
      /\ StateOK(items, st) /\ HoldsAllBut(items, st, None)
  BY <1>2, NoteCreateStateOK
<1> HIDE DEF st
<1>4. \A r \in Refs : NotThere(items, run[p].state, r) => NotThere(items, st, r)
  BY <1>3 DEF NotThere
<1>5. QED
  BY <1>1, <1>3, <1>4, BeginStep

\* What a command knows while it creates.
LEMMA AtCreate ==
  ASSUME Inductive, NEW p \in Procs, pc[p] \in {"creating", "finishing"}
  PROVE  LET s == run[p].step
             d == PendingOf(s)
             st == run[p].state
         IN  /\ pc[p] \in ApplyPlaces /\ Writer(pc[p], run[p]) /\ lock = p
             /\ s \in Step /\ s.ref \in Refs /\ s.kind = "create"
             /\ run[p].drafts[s.ref] \in Content /\ Alone(run[p], s)
             /\ d \in Pending /\ d.ref = s.ref /\ d.id = None /\ d.into = IntoOf(s.ref)
             /\ d \in disk.pending
             /\ st \in PublishState /\ st.pending = {d} /\ StateOK(items, st)
             /\ NotThere(items, st, s.ref) /\ KnowsOK(items, pc[p], run[p])
<1>1. pc[p] \in StepPlaces /\ pc[p] \in ApplyPlaces
  BY DEF StepPlaces, ApplyPlaces
<1>2. /\ run[p].step \in Step /\ run[p].step.ref \in Refs
      /\ Alone(run[p], run[p].step) /\ run[p].drafts \in Drafts
      /\ run[p].step.kind = "create"
      /\ run[p].state.pending = {PendingOf(run[p].step)}
      /\ run[p].drafts[run[p].step.ref] # None
  BY <1>1, AtStep DEF StepOK, Planned
<1>3. run[p].drafts[run[p].step.ref] \in Content
  BY <1>2 DEF Drafts
<1>4. /\ Writer(pc[p], run[p]) /\ lock = p /\ run[p].state \in PublishState
      /\ StateOK(items, run[p].state) /\ KnowsOK(items, pc[p], run[p])
  BY <1>1, AtApply
<1>5. NotThere(items, run[p].state, run[p].step.ref)
  BY <1>4 DEF KnowsOK
<1>6. PendingOf(run[p].step) \in disk.pending
  BY DEF Inductive, CreateIsNoted
<1>7. QED
  BY <1>1, <1>2, <1>3, <1>4, <1>5, <1>6, PendingOfType

\* What a command that sent the first request holds in memory.
LEMMA SentShape ==
  ASSUME Inductive, NEW p \in Procs, pc[p] = "creating",
         NEW i \in Ids, NEW ps
  PROVE  LET rn == Sent(run[p], i, ps) IN
         /\ rn \in Run /\ rn.state = run[p].state /\ rn.cmd = run[p].cmd
         /\ rn.id = i /\ rn.todo = run[p].todo /\ rn.read = run[p].read
         /\ rn.step.ref = run[p].step.ref
         /\ PendingOf(rn.step) = PendingOf(run[p].step)
         /\ ShapeOK("finishing", rn)
<1> DEFINE old == run[p]
           s2 == [old.step EXCEPT !.parts = Parts \ ps]
           rn == Sent(old, i, ps)
<1>1. old \in Run /\ old.step \in Step /\ pc[p] \in ApplyPlaces
      /\ Planned(old, old.step) /\ Alone(old, old.step)
      /\ old.cmd \in {"apply", "overwrite"}
      /\ \A t \in old.todo : Planned(old, t) /\ Whole(t)
  BY AtApply, AtStep DEF ApplyPlaces, StepPlaces
<1>2. old.step.kind = "create" /\ old.state.pending = {PendingOf(old.step)}
  BY AtCreate
<1>3. s2 \in Step /\ s2.kind = "create" /\ s2.ref = old.step.ref
  BY <1>1, <1>2 DEF Step
<1>4. /\ rn \in Run /\ rn.state = old.state /\ rn.cmd = old.cmd /\ rn.id = i
      /\ rn.todo = old.todo /\ rn.read = old.read /\ rn.step = s2
      /\ rn.drafts = old.drafts
  BY <1>1, <1>3 DEF Run, Sent
<1> HIDE DEF s2, rn
<1>5. PendingOf(s2) = PendingOf(old.step)
  BY <1>3 DEF PendingOf
<1>6. s2 # None /\ Planned(rn, s2) /\ Alone(rn, s2)
  BY <1>1, <1>2, <1>3, <1>4, NoneAssumption DEF Planned, Alone
<1>7. StepOK("finishing", rn)
  BY <1>2, <1>3, <1>4, <1>5, <1>6 DEF StepOK
<1>8. \A t \in rn.todo : Planned(rn, t) /\ Whole(t)
  BY <1>1, <1>4 DEF Planned
<1>9. ShapeOK("finishing", rn)
  BY <1>1, <1>2, <1>4, <1>7, <1>8
     DEF ShapeOK, AtMostOnePending, FreshPlaces, ReadPlaces, ApplyPlaces, StepPlaces
<1>10. QED
  BY <1>3, <1>4, <1>5, <1>9 DEF rn

\* The item is created: the state file already stands for it.
LEMMA SendCreateStep ==
  ASSUME Inductive, NEW p \in Procs, SendCreate(p)
  PROVE  Inductive'
<1> DEFINE s == run[p].step
           d == PendingOf(s)
           draft == run[p].drafts[s.ref]
<1>1. pc[p] = "creating" /\ IntoOf(s.ref) = None
      /\ UNCHANGED <<yaml, disk, lock, seen, counters>>
  BY DEF SendCreate
<1>2. PICK i \in Ids, ps \in FirstLanding :
        /\ items[i].life = "unborn"
        /\ items' = [items EXCEPT ![i] = New(s.ref, draft, ps)]
        /\ Goto(p, "finishing", Sent(run[p], i, ps))
  BY DEF SendCreate
<1> DEFINE new == New(s.ref, draft, ps)
           rn == Sent(run[p], i, ps)
<1>3. /\ pc[p] \in ApplyPlaces /\ Writer(pc[p], run[p]) /\ lock = p /\ s.ref \in Refs
      /\ draft \in Content /\ d \in Pending /\ d.ref = s.ref /\ d.id = None
      /\ d.into = None /\ d \in disk.pending
      /\ run[p].state \in PublishState /\ run[p].state.pending = {d}
      /\ StateOK(items, run[p].state) /\ NotThere(items, run[p].state, s.ref)
      /\ KnowsOK(items, pc[p], run[p])
  BY <1>1, AtCreate
<1>4. HoldsAllBut(items, run[p].state, None)
  BY <1>1, <1>3 DEF KnowsOK
<1>5. new \in RemoteItem /\ new.life = "there" /\ new.made = s.ref
  BY <1>3, NewType
<1>6. /\ rn \in Run /\ rn.state = run[p].state /\ rn.cmd = run[p].cmd
      /\ rn.id = i /\ rn.todo = run[p].todo /\ rn.read = run[p].read
      /\ rn.step.ref = s.ref /\ PendingOf(rn.step) = d
      /\ ShapeOK("finishing", rn)
  BY <1>1, SentShape
<1>7. items' = [items EXCEPT ![i] = new] /\ Goto(p, "finishing", rn)
      /\ items[i].life = "unborn"
  BY <1>2
<1> HIDE DEF new, rn
<1>8. /\ items \in [Ids -> RemoteItem] /\ disk \in PublishState
      /\ ServiceOK(items) /\ StateOK(items, disk)
  BY OfCommand
<1>9. /\ ServiceOK(items') /\ StateOK(items', disk) /\ StateOK(items', run[p].state)
      /\ items' \in [Ids -> RemoteItem]
  <2>1. ServiceOK(items')
    <3>1. ServiceOK([items EXCEPT ![i] = new])
      BY <1>3, <1>4, <1>5, <1>7, <1>8, AppearServiceOK
    <3>2. QED
      BY <1>7, <3>1
  <2>2. StateOK(items', disk) /\ StateOK(items', run[p].state)
    <3> HIDE DEF d
    <3>1. /\ StateOK([items EXCEPT ![i] = new], disk)
          /\ d \in run[p].state.pending /\ items[i].life = "unborn"
      BY <1>3, <1>5, <1>7, <1>8, AppearStateOK
    <3>2. StateOK([items EXCEPT ![i] = new], run[p].state)
      BY <1>3, <1>5, <1>8, <3>1, AppearStateOK
    <3>3. QED
      BY <1>7, <3>1, <3>2
  <2>3. QED
    BY <1>5, <1>7, <1>8, <2>1, <2>2
<1>10. \A r \in Refs : NotThere(items, run[p].state, r) => NotThere(items', run[p].state, r)
  <2>1. SUFFICES ASSUME NEW r \in Refs, run[p].state.held[r] # None
                 PROVE  run[p].state.held[r].id \in Ids \ {i}
    BY <1>7, <1>8 DEF NotThere, Alive
  <2>2. QED
    BY <1>3, <1>7, <2>1 DEF StateOK, HeldItemsAreTheRefs, Born, PublishState, Item
<1>11. HoldsAllBut(items', run[p].state, i)
  BY <1>4, <1>7, <1>8, NoneAssumption DEF HoldsAllBut, Alive
<1>12. Born(items', i) /\ items'[i].made = s.ref
  BY <1>5, <1>7, <1>8 DEF Born
<1>13. \A t \in rn.todo : t.kind = "create" => NotThere(items', rn.state, t.ref)
  BY <1>3, <1>6, <1>10, AtApply
<1>14. \A r \in Refs : rn.read[r] = None => NotThere(items', rn.state, r)
  BY <1>3, <1>6, <1>10, AtApply
<1>15. KnowsOK(items', "finishing", rn)
  BY <1>1, <1>3, <1>6, <1>9, <1>10, <1>11, <1>12, <1>13, <1>14
     DEF KnowsOK, ReadPlaces, ApplyPlaces, StepPlaces
<1>16. /\ pc'[p] = "finishing" /\ run'[p] = rn
       /\ \A q \in Procs \ {p} : pc'[q] = pc[q] /\ run'[q] = run[q]
  BY <1>7 DEF Goto, Inductive, TypeOK
<1>17. ASSUME NEW q \in Procs \ {p}
       PROVE  /\ ~Writer(pc[q], run[q]) /\ CommandOK(items', pc'[q], run'[q])
              /\ pc[q] \notin {"creating", "finishing"}
  <2>1. ~Writer(pc[q], run[q])
    BY <1>3 DEF Inductive, WriterHoldsTheLock
  <2>2. ShapeOK(pc[q], run[q])
    BY OfCommand
  <2>3. QED
    BY <1>16, <2>1, <2>2 DEF CommandOK, Writer, ShapeOK, ApplyPlaces, StepPlaces
<1>18. \A q \in Procs : CommandOK(items', pc'[q], run'[q])
  BY <1>6, <1>15, <1>16, <1>17 DEF CommandOK
<1>19. WriterHoldsTheLock'
  BY <1>1, <1>3, <1>16, <1>17 DEF WriterHoldsTheLock
<1>20. CreateIsNoted'
  BY <1>1, <1>3, <1>6, <1>16, <1>17 DEF CreateIsNoted
<1>21. TypeOK'
  <2>1. "finishing" \in Places
    BY DEF Places
  <2>2. QED
    BY <1>1, <1>6, <1>7, <1>9, <2>1 DEF Inductive, TypeOK, Goto, counters
<1>22. QED
  BY <1>1, <1>9, <1>18, <1>19, <1>20, <1>21 DEF Inductive

\* The page the target names is written into: it stays the page it is.
LEMMA SendCreateIntoStep ==
  ASSUME Inductive, NEW p \in Procs, SendCreateInto(p)
  PROVE  Inductive'
<1> DEFINE s == run[p].step
           d == PendingOf(s)
           draft == run[p].drafts[s.ref]
           blanked == Release(items[Into], SectionParts, None)
<1>1. pc[p] = "creating" /\ IntoOf(s.ref) # None
      /\ UNCHANGED <<yaml, disk, lock, seen, counters>>
  BY DEF SendCreateInto
<1>2. PICK ps \in SUBSET SectionParts :
        /\ items' = [items EXCEPT ![Into] = Write(blanked, s.ref, draft, ps)]
        /\ Goto(p, "finishing", Sent(run[p], Into, ps))
  BY DEF SendCreateInto
<1> DEFINE item == Write(blanked, s.ref, draft, ps)
           rn == Sent(run[p], Into, ps)
<1>3. /\ pc[p] \in ApplyPlaces /\ Writer(pc[p], run[p]) /\ lock = p /\ s.ref \in Refs
      /\ draft \in Content /\ d \in disk.pending
      /\ run[p].state \in PublishState
      /\ StateOK(items, run[p].state) /\ NotThere(items, run[p].state, s.ref)
      /\ KnowsOK(items, pc[p], run[p])
  BY <1>1, AtCreate
<1>4. Into \in Ids /\ Into # None /\ items[Into] \in RemoteItem
      /\ ps \in SUBSET Parts /\ SectionParts \in SUBSET Parts
  BY <1>1, ConstantsAssumption, OfCommand DEF IntoOf, Parts
<1>5. /\ item \in RemoteItem /\ item.life = items[Into].life
      /\ item.made = items[Into].made
  BY <1>3, <1>4, ReleaseKeepsLife, WriteKeepsLife
<1>6. /\ rn \in Run /\ rn.state = run[p].state /\ rn.cmd = run[p].cmd
      /\ rn.id = Into /\ rn.todo = run[p].todo /\ rn.read = run[p].read
      /\ rn.step.ref = s.ref /\ PendingOf(rn.step) = d
      /\ ShapeOK("finishing", rn)
  BY <1>1, <1>4, SentShape
<1>7. items' = [items EXCEPT ![Into] = item] /\ Goto(p, "finishing", rn)
  BY <1>2
<1> HIDE DEF item, rn, d
<1>8. items' \in [Ids -> RemoteItem] /\ Ages(items, items')
  BY <1>4, <1>5, <1>7, OfCommand, OneItemAges
<1>9. HoldsAllBut(items, rn.state, Into) /\ Born(items, Into)
  BY <1>1, <1>3, <1>4, <1>6, NoneAssumption, OfCommand DEF KnowsOK, HoldsAllBut, ServiceOK
<1>10. KnowsOK(items, "finishing", rn)
  BY <1>1, <1>3, <1>6, <1>9, AtApply DEF KnowsOK, ReadPlaces, ApplyPlaces, StepPlaces
<1>11. CommandOK(items', "finishing", rn)
  BY <1>6, <1>8, <1>10, OfCommand, AgesCommandOK DEF CommandOK
<1>12. disk' = disk /\ StateOK(items', disk') /\ lock' = lock /\ RestOK'
       /\ disk' \in PublishState
  BY <1>1, <1>8, OfCommand, AgesStateOK DEF RestOK, counters
<1>13. "finishing" \in Places /\ lock' \in Procs \cup {None}
  BY <1>12, OfCommand DEF Places
<1>14. QED
  BY <1>3, <1>6, <1>7, <1>8, <1>11, <1>12, <1>13, CommandStep

\* The create is rejected and its note taken back: nothing was made for it.
LEMMA RejectCreateStep ==
  ASSUME Inductive, NEW p \in Procs, RejectCreate(p)
  PROVE  Inductive'
<1> DEFINE s == run[p].step
           d == PendingOf(s)
           st == Drop(run[p].state, d)
<1>1. pc[p] = "creating" /\ disk' = st /\ End(p)
      /\ UNCHANGED <<yaml, items, seen, edits, revisions>>
  BY DEF RejectCreate, Rejected
<1>2. faults' \in Nat
  BY OfCommand DEF RejectCreate, RestOK
<1>3. /\ Writer(pc[p], run[p]) /\ run[p].state \in PublishState
      /\ run[p].state.pending = {d} /\ StateOK(items, run[p].state)
      /\ KnowsOK(items, pc[p], run[p])
  BY <1>1, AtCreate
<1>4. HoldsAllBut(items, run[p].state, None)
  BY <1>1, <1>3 DEF KnowsOK
<1>5. st \in PublishState /\ StateOK(items, st)
  BY <1>3, <1>4, DropType, RejectedStateOK
<1> HIDE DEF st
<1>6. RestOK' /\ Ages(items, items') /\ items' \in [Ids -> RemoteItem]
      /\ disk' \in PublishState /\ StateOK(items', disk')
  BY <1>1, <1>2, <1>5, OfCommand, AgesReflexive DEF RestOK
<1>7. QED
  BY <1>1, <1>3, <1>6, EndStep

\* The item is finished and recorded in the place of its note.
LEMMA FinishCreateStep ==
  ASSUME Inductive, NEW p \in Procs, FinishCreate(p)
  PROVE  Inductive'
<1> DEFINE s == run[p].step
           d == PendingOf(s)
           i == run[p].id
           draft == run[p].drafts[s.ref]
           made == Write(items[i], s.ref, draft, s.parts)
           origin == IF IntoOf(s.ref) = None THEN "created" ELSE "adopted"
           item == Recorded(i, origin, draft, made.text)
           text == made.text
           st == WithItem(Drop(run[p].state, d), s.ref, item)
<1>1. /\ pc[p] = "finishing" /\ items' = [items EXCEPT ![i] = made]
      /\ StepDone(p, s, st, text)
      /\ UNCHANGED <<yaml, lock, seen, counters>>
  BY DEF FinishCreate
<1>2. /\ pc[p] \in ApplyPlaces /\ s \in Step /\ s.ref \in Refs /\ s.kind = "create"
      /\ draft \in Content /\ Alone(run[p], s)
      /\ d \in Pending /\ d.ref = s.ref /\ d.into = IntoOf(s.ref)
      /\ run[p].state \in PublishState /\ run[p].state.pending = {d}
      /\ StateOK(items, run[p].state) /\ NotThere(items, run[p].state, s.ref)
      /\ KnowsOK(items, pc[p], run[p])
  BY <1>1, AtCreate, SMTT(20)
<1>3. i \in Ids /\ Born(items, i) /\ HoldsAllBut(items, run[p].state, i)
      /\ (IntoOf(s.ref) = None => items[i].made = s.ref)
      /\ (IntoOf(s.ref) # None => i = Into)
  BY <1>1, <1>2, OfCommand DEF KnowsOK, ShapeOK, StepOK, StepPlaces
<1>4. items \in [Ids -> RemoteItem] /\ items[i] \in RemoteItem /\ s.parts \in SUBSET Parts
  BY <1>2, <1>3, OfCommand DEF Step
<1>5. /\ made \in RemoteItem /\ made.life = items[i].life
      /\ made.made = items[i].made /\ text \in Content
  BY <1>2, <1>4, WriteKeepsLife
<1>6. item \in Item /\ item.id = i /\ item.origin = origin
      /\ origin \in Origin
  BY <1>2, <1>3, <1>5, RecordedType DEF Origin
<1> HIDE DEF made, item, text
<1>7. items' \in [Ids -> RemoteItem] /\ Ages(items, items')
  BY <1>1, <1>3, <1>4, <1>5, OneItemAges
<1>8. /\ st \in PublishState /\ st.pending = {} /\ st.held[s.ref] = item
      /\ \A q \in Refs \ {s.ref} : st.held[q] = run[p].state.held[q]
  <2>1. /\ Drop(run[p].state, d) \in PublishState
        /\ Drop(run[p].state, d).pending = {}
        /\ Drop(run[p].state, d).held = run[p].state.held
    BY <1>2, DropType
  <2>2. QED
    BY <1>2, <1>6, <2>1, WithItemType
<1>9. StateOK(items, st)
  <2>1. item.origin = "created" => items[item.id].made = d.ref
    BY <1>2, <1>3, <1>6
  <2>2. item.origin = "adopted" => d.ref = Document /\ item.id = Into /\ Into # None
    BY <1>2, <1>3, <1>6 DEF IntoOf
  <2>3. HoldsAllBut(items, run[p].state, item.id) /\ Born(items, item.id)
    BY <1>3, <1>6
  <2> HIDE DEF d
  <2>4. StateOK(items, WithItem(Drop(run[p].state, d), d.ref, item))
    BY <1>2, <1>6, <2>1, <2>2, <2>3, FinishedStateOK
  <2>5. QED
    BY <1>2, <2>4
<1> HIDE DEF st
<1>10. StateOK(items', st)
  BY <1>4, <1>7, <1>8, <1>9, AgesStateOK
<1>11. ASSUME NEW t \in run[p].todo, t.ref = s.ref
       PROVE  t.kind = "write"
  <2>1. t \in Step /\ Planned(run[p], t) /\ draft # None
    BY <1>2, AtApply, NoneAssumption
  <2>2. QED
    BY <1>2, <1>11, <2>1 DEF Alone, Planned, Step
<1>12. lock' = lock /\ RestOK' /\ text # None /\ item # None
       /\ text \in Content \cup {None}
  BY <1>1, <1>5, <1>6, NoneAssumption, OfCommand DEF RestOK, counters
<1>13. QED
  BY <1>1, <1>2, <1>7, <1>8, <1>10, <1>11, <1>12, DoneStep

\* The item could not be finished; the note of a created one names it.
LEMMA LeaveUnfinishedStep ==
  ASSUME Inductive, NEW p \in Procs, LeaveUnfinished(p)
  PROVE  Inductive'
<1> DEFINE s == run[p].step
           d == PendingOf(s)
           i == run[p].id
           draft == run[p].drafts[s.ref]
           st == run[p].state
           st2 == [st EXCEPT !.pending = (@ \ {d}) \cup {[d EXCEPT !.id = i]}]
<1>1. /\ pc[p] = "finishing" /\ End(p)
      /\ disk' = IF IntoOf(s.ref) # None THEN disk ELSE st2
      /\ UNCHANGED <<yaml, seen, edits, revisions>>
  BY DEF LeaveUnfinished
<1>2. /\ s \in Step /\ s.ref \in Refs /\ draft \in Content
      /\ d \in Pending /\ d.ref = s.ref /\ d.into = IntoOf(s.ref)
      /\ st \in PublishState /\ st.pending = {d}
      /\ StateOK(items, st) /\ NotThere(items, st, s.ref)
      /\ Writer(pc[p], run[p]) /\ KnowsOK(items, pc[p], run[p])
  BY <1>1, AtCreate
<1>3. i \in Ids /\ Born(items, i) /\ HoldsAllBut(items, st, i)
      /\ (IntoOf(s.ref) = None => items[i].made = s.ref)
  BY <1>1, <1>2, OfCommand DEF KnowsOK, ShapeOK, StepOK, StepPlaces
<1>4. items \in [Ids -> RemoteItem] /\ items[i] \in RemoteItem /\ s.parts \in SUBSET Parts
  BY <1>2, <1>3, OfCommand DEF Step
<1>5. items' \in [Ids -> RemoteItem] /\ Ages(items, items')
  <2>1. CASE UNCHANGED items
    BY <1>4, <2>1, AgesReflexive
  <2>2. CASE ~UNCHANGED items
    <3>1. PICK ps \in SUBSET s.parts : items' = [items EXCEPT ![i] =
            IF ps \cap SectionParts = {}
            THEN [Write(items[i], s.ref, draft, ps) EXCEPT !.stamp = items[i].stamp]
            ELSE Write(items[i], s.ref, draft, ps)]
      BY <2>2 DEF LeaveUnfinished
    <3> DEFINE written == Write(items[i], s.ref, draft, ps)
               item == IF ps \cap SectionParts = {}
                       THEN [written EXCEPT !.stamp = items[i].stamp] ELSE written
    <3>2. /\ written \in RemoteItem /\ written.life = items[i].life
          /\ written.made = items[i].made
      BY <1>2, <1>4, WriteKeepsLife
    <3>3. items' = [items EXCEPT ![i] = item]
      BY <3>1
    <3> HIDE DEF written
    <3>4. item \in RemoteItem /\ item.life = items[i].life /\ item.made = items[i].made
      BY <1>4, <3>2 DEF RemoteItem
    <3> HIDE DEF item
    <3>5. QED
      BY <1>3, <1>4, <3>3, <3>4, OneItemAges
  <2>3. QED
    BY <2>1, <2>2
<1>6. disk' \in PublishState /\ StateOK(items, disk')
  <2>1. CASE IntoOf(s.ref) # None
    BY <1>1, <2>1, OfCommand
  <2>2. CASE IntoOf(s.ref) = None
    <3> HIDE DEF d
    <3>1. st2 \in PublishState /\ StateOK(items, st2)
      BY <1>2, <1>3, <2>2, NotedStateOK
    <3>2. QED
      BY <1>1, <2>2, <3>1
  <2>3. QED
    BY <2>1, <2>2
<1>7. StateOK(items', disk')
  BY <1>4, <1>5, <1>6, AgesStateOK
<1>8. RestOK'
  BY <1>1, OfCommand DEF LeaveUnfinished, RestOK
<1>9. QED
  BY <1>1, <1>2, <1>5, <1>6, <1>7, <1>8, EndStep

------------------------------------------------------------------------------
(* Writes                                                                    *)

\* What a command knows of the item a step writes to or retires.
LEMMA AtHeldItem ==
  ASSUME Inductive, NEW p \in Procs, pc[p] \in ApplyPlaces,
         NEW s \in Step, Planned(run[p], s), s.kind # "create"
  PROVE  LET item == run[p].state.held[s.ref]
         IN  /\ s.ref \in Refs /\ s.parts \in SUBSET Parts
             /\ item \in Item /\ item # None
             /\ item.id \in Ids /\ items[item.id] \in RemoteItem
             /\ s.kind = "write" => /\ run[p].drafts[s.ref] \in Content
                                    /\ run[p].read[s.ref] \in Content
             /\ Born(items, item.id)
             /\ item.origin = "adopted" => items[item.id].made = None
<1>1. run[p] \in Run /\ run[p].state \in PublishState /\ StateOK(items, run[p].state)
  BY AtApply
<1>2. s.ref \in Refs /\ s.parts \in SUBSET Parts /\ run[p].state.held[s.ref] # None
  BY DEF Step, Planned
<1>3. run[p].state.held[s.ref] \in Item /\ run[p].state.held[s.ref].id \in Ids
  BY <1>1, <1>2 DEF PublishState, Item
<1>4. s.kind = "write" => /\ run[p].drafts[s.ref] \in Content
                          /\ run[p].read[s.ref] \in Content
  BY <1>1, <1>2 DEF Planned, Run, Drafts
<1>5. Born(items, run[p].state.held[s.ref].id)
      /\ (run[p].state.held[s.ref].origin = "adopted" =>
            items[run[p].state.held[s.ref].id].made = None)
  BY <1>1, <1>2, OfCommand DEF StateOK, HeldItemsAreTheRefs, ServiceOK
<1>6. QED
  BY <1>2, <1>3, <1>4, <1>5, OfCommand

\* A note in the record of an item a step writes to or retires keeps the items.
LEMMA NoteInPlace ==
  ASSUME Inductive, NEW p \in Procs, pc[p] \in ApplyPlaces \ {"creating", "finishing"},
         NEW r \in Refs, NEW item \in Item, run[p].state.held[r] # None,
         item.id = run[p].state.held[r].id,
         item.origin = run[p].state.held[r].origin
  PROVE  LET old == run[p].state
             st == WithItem(old, r, item)
         IN  /\ st \in PublishState /\ st.pending = {} /\ st.held[r] = item
             /\ StateOK(items, st)
             /\ \A q \in Refs : old.held[q] # None => st.held[q] # None
             /\ \A q \in Refs : NotThere(items, old, q) => NotThere(items, st, q)
             /\ \A q \in Refs \ {r} : st.held[q] = old.held[q]
<1>1. /\ run[p].state \in PublishState /\ run[p].state.pending = {}
      /\ StateOK(items, run[p].state)
  BY AtApply, OfCommand DEF ShapeOK
<1>2. SameHeld(run[p].state, WithItem(run[p].state, r, item))
  BY <1>1, WithSameItem
<1>3. StateOK(items, WithItem(run[p].state, r, item))
  BY <1>1, <1>2, SameHeldStateOK
<1>4. /\ \A q \in Refs : run[p].state.held[q] # None =>
           WithItem(run[p].state, r, item).held[q] # None
      /\ \A q \in Refs : NotThere(items, run[p].state, q) =>
           NotThere(items, WithItem(run[p].state, r, item), q)
  BY <1>2 DEF SameHeld, NotThere
<1>5. QED
  BY <1>1, <1>3, <1>4, WithItemType

\* A write is over: the item's record is brought up to date.
LEMMA WrittenStep ==
  ASSUME Inductive, RestOK', NEW p \in Procs, pc[p] \in {"apply", "writing"},
         NEW s, s.ref \in Refs, NEW item \in Item, NEW text \in Content,
         run[p].state.held[s.ref] # None,
         item.id = run[p].state.held[s.ref].id,
         item.origin = run[p].state.held[s.ref].origin,
         StepDone(p, s, WithItem(run[p].state, s.ref, item), text), lock' = lock,
         items' \in [Ids -> RemoteItem], Ages(items, items')
  PROVE  Inductive'
<1> DEFINE old == run[p].state
           st == WithItem(old, s.ref, item)
<1>1. pc[p] \in ApplyPlaces /\ old \in PublishState
      /\ StateOK(items, old) /\ old.pending = {}
  BY AtApply, OfCommand DEF ApplyPlaces, StepPlaces, ShapeOK
<1>2. /\ st \in PublishState /\ st.pending = {} /\ st.held[s.ref] = item
      /\ \A q \in Refs \ {s.ref} : st.held[q] = old.held[q]
  BY <1>1, WithItemType
<1>3. StateOK(items, st)
  BY <1>1, SameHeldStateOK, WithSameItem
<1> HIDE DEF st
<1>4. StateOK(items', st)
  BY <1>2, <1>3, OfCommand, AgesStateOK
<1>5. NotThere(items, old, s.ref) => NotThere(items', st, s.ref)
  BY <1>2 DEF NotThere, Ages, Alive, Item
<1>6. \A t \in run[p].todo : t.kind = "create" => NotThere(items, old, t.ref)
  BY <1>1, AtApply
<1>7. text # None /\ item # None /\ text \in Content \cup {None}
  BY NoneAssumption
<1>8. \A t \in run[p].todo \ {s} : t.ref = s.ref =>
        /\ t.kind = "create" => NotThere(items', st, s.ref)
        /\ t.kind = "write" => st.held[s.ref] # None /\ text # None
        /\ t.kind = "retire" => st.held[s.ref] # None
  BY <1>2, <1>5, <1>6, <1>7
<1>9. StepDone(p, s, st, text)
  BY DEF st
<1>10. QED
  BY <1>1, <1>2, <1>4, <1>7, <1>8, <1>9, DoneStep

\* Nothing is sent: the draft is recorded.
LEMMA SkipWriteStep ==
  ASSUME Inductive, NEW p \in Procs, NEW s \in run[p].todo, SkipWrite(p, s)
  PROVE  Inductive'
<1> DEFINE old == run[p].state.held[s.ref]
           item == [old EXCEPT !.rendered = RenderedAfter(run[p], s)]
           text == run[p].read[s.ref]
<1>1. /\ pc[p] = "apply" /\ s.kind = "write"
      /\ StepDone(p, s, WithItem(run[p].state, s.ref, item), text)
      /\ UNCHANGED <<yaml, items, lock, seen, counters>>
  BY DEF SkipWrite
<1>2. /\ s.ref \in Refs /\ old \in Item /\ old # None /\ text \in Content
      /\ run[p].drafts[s.ref] \in Content
  <2>1. pc[p] \in ApplyPlaces
    BY <1>1 DEF ApplyPlaces
  <2>2. s \in Step /\ Planned(run[p], s) /\ s.kind # "create"
    BY <1>1, <2>1, AtApply
  <2>3. QED
    BY <1>1, <2>1, <2>2, AtHeldItem
<1>3. RenderedAfter(run[p], s) \in Content
  BY <1>2, WithPartsType DEF RenderedAfter, Item
<1>4. item \in Item /\ item.id = old.id /\ item.origin = old.origin
  BY <1>2, <1>3 DEF Item
<1> HIDE DEF item, text
<1>5. RestOK' /\ lock' = lock /\ items' \in [Ids -> RemoteItem] /\ Ages(items, items')
  BY <1>1, OfCommand, AgesReflexive DEF RestOK, counters
<1>6. QED
  BY <1>1, <1>2, <1>4, <1>5, WrittenStep

\* The write is noted in the item's record.
LEMMA StartWriteStep ==
  ASSUME Inductive, NEW p \in Procs, NEW s \in run[p].todo, StartWrite(p, s)
  PROVE  Inductive'
<1> DEFINE old == run[p].state.held[s.ref]
           note == [parts |-> s.parts, rendered |-> RenderedAfter(run[p], s)]
           item == [old EXCEPT !.writing = note]
           st == WithItem(run[p].state, s.ref, item)
<1>1. /\ pc[p] = "apply" /\ s.kind = "write" /\ disk' = st
      /\ Start(p, "writing", s, st) /\ UNCHANGED <<yaml, items, lock, seen, counters>>
  BY DEF StartWrite
<1>2. /\ s.ref \in Refs /\ old \in Item /\ old # None /\ s.parts \in SUBSET Parts
      /\ run[p].drafts[s.ref] \in Content
  <2>1. pc[p] \in ApplyPlaces
    BY <1>1 DEF ApplyPlaces
  <2>2. s \in Step /\ Planned(run[p], s) /\ s.kind # "create"
    BY <1>1, <2>1, AtApply
  <2>3. QED
    BY <1>1, <2>1, <2>2, AtHeldItem
<1>3. note \in Writing
  BY <1>2, WithPartsType DEF RenderedAfter, Item, Writing
<1> HIDE DEF note
<1>4. item \in Item /\ item.id = old.id /\ item.origin = old.origin /\ item.writing = note
  BY <1>2, <1>3 DEF Item
<1> HIDE DEF item
<1>5. /\ st \in PublishState /\ st.pending = {} /\ st.held[s.ref] = item
      /\ StateOK(items, st)
      /\ \A q \in Refs :
           /\ run[p].state.held[q] # None => st.held[q] # None
           /\ NotThere(items, run[p].state, q) => NotThere(items, st, q)
  <2>1. pc[p] \in ApplyPlaces \ {"creating", "finishing"}
    BY <1>1 DEF ApplyPlaces
  <2>2. item.id = run[p].state.held[s.ref].id
        /\ item.origin = run[p].state.held[s.ref].origin
        /\ run[p].state.held[s.ref] # None /\ s.ref \in Refs /\ item \in Item
    BY <1>2, <1>4
  <2>3. QED
    BY <2>1, <2>2, NoteInPlace, SMTT(20)
<1>6. note # None
  BY <1>3, NoneAssumption
<1> HIDE DEF st
<1>7. QED
  BY <1>1, <1>4, <1>5, <1>6, BeginStep

\* What a command knows of the item it sends a write or a retirement to.
LEMMA AtSend ==
  ASSUME Inductive, NEW p \in Procs, pc[p] \in {"writing", "retiring"}
  PROVE  LET s == run[p].step
             item == run[p].state.held[s.ref]
         IN  /\ pc[p] \in ApplyPlaces \ {"creating", "finishing"}
             /\ Writer(pc[p], run[p])
             /\ s \in Step /\ s.ref \in Refs /\ s.parts \in SUBSET Parts
             /\ item \in Item /\ item # None
             /\ item.id \in Ids /\ items[item.id] \in RemoteItem
             /\ Born(items, item.id)
             /\ item.origin = "adopted" => items[item.id].made = None
             /\ pc[p] = "writing" => /\ run[p].drafts[s.ref] \in Content
                                     /\ run[p].read[s.ref] \in Content
                                     /\ item.writing \in Writing
             /\ pc[p] = "retiring" => /\ s.kind = "retire" /\ Alone(run[p], s)
                                      /\ run[p].drafts[s.ref] = None
<1>1. pc[p] \in StepPlaces /\ pc[p] \in ApplyPlaces \ {"creating", "finishing"}
  BY DEF StepPlaces, ApplyPlaces
<1>2. /\ run[p].step \in Step /\ Planned(run[p], run[p].step)
      /\ Alone(run[p], run[p].step) /\ StepOK(pc[p], run[p])
  BY <1>1, AtStep
<1>3. /\ pc[p] = "writing" => run[p].step.kind = "write"
           /\ run[p].state.held[run[p].step.ref].writing # None
      /\ pc[p] = "retiring" => run[p].step.kind = "retire"
  BY <1>2 DEF StepOK
<1>4. run[p].step.kind # "create" /\ Writer(pc[p], run[p])
  BY <1>1, <1>3, AtApply
<1>5. pc[p] = "retiring" => run[p].drafts[run[p].step.ref] = None
  BY <1>2, <1>3 DEF Planned
<1> DEFINE s == run[p].step
           item == run[p].state.held[s.ref]
<1>6. /\ s.ref \in Refs /\ s.parts \in SUBSET Parts /\ item \in Item /\ item # None
      /\ item.id \in Ids /\ items[item.id] \in RemoteItem
      /\ (s.kind = "write" => /\ run[p].drafts[s.ref] \in Content
                              /\ run[p].read[s.ref] \in Content)
      /\ (item.origin = "adopted" => items[item.id].made = None)
      /\ Born(items, item.id)
  BY <1>1, <1>2, <1>4, AtHeldItem, SMTT(20)
<1>7. pc[p] = "writing" => item.writing \in Writing
  BY <1>3, <1>6 DEF Item
<1>8. QED
  BY <1>1, <1>2, <1>3, <1>4, <1>5, <1>6, <1>7

\* The write lands and is recorded.
LEMMA SendWriteStep ==
  ASSUME Inductive, NEW p \in Procs, SendWrite(p)
  PROVE  Inductive'
<1> DEFINE s == run[p].step
           old == run[p].state.held[s.ref]
           draft == run[p].drafts[s.ref]
           written == Write(items[old.id], s.ref, draft, s.parts)
           item == [old EXCEPT !.rendered = old.writing.rendered,
                      !.remote = WithParts(@, written.text, s.parts),
                      !.shown = {}, !.writing = None]
           text == WithParts(run[p].read[s.ref], written.text, s.parts)
<1>1. /\ pc[p] = "writing" /\ items' = [items EXCEPT ![old.id] = written]
      /\ StepDone(p, s, WithItem(run[p].state, s.ref, item), text)
      /\ UNCHANGED <<yaml, lock, seen, counters>>
  BY DEF SendWrite
<1>2. /\ s.ref \in Refs /\ s.parts \in SUBSET Parts /\ old \in Item /\ old # None
      /\ old.id \in Ids /\ items[old.id] \in RemoteItem /\ draft \in Content
      /\ run[p].read[s.ref] \in Content /\ old.writing \in Writing
  BY <1>1, AtSend
<1>3. /\ written \in RemoteItem /\ written.life = items[old.id].life
      /\ written.made = items[old.id].made /\ written.text \in Content
  BY <1>2, WriteKeepsLife
<1> HIDE DEF written
<1>4. text \in Content /\ WithParts(old.remote, written.text, s.parts) \in Content
  BY <1>2, <1>3, WithPartsType DEF Item
<1>5. item \in Item /\ item.id = old.id /\ item.origin = old.origin
  BY <1>2, <1>4 DEF Item, Writing
<1> HIDE DEF item, text
<1>6. items' \in [Ids -> RemoteItem] /\ Ages(items, items')
  BY <1>1, <1>2, <1>3, OfCommand, OneItemAges
<1>7. RestOK' /\ lock' = lock
  BY <1>1, OfCommand DEF RestOK, counters
<1>8. QED
  BY <1>1, <1>2, <1>4, <1>5, <1>6, <1>7, WrittenStep

\* A command ends with a note of its item taken back, and the service as it was.
LEMMA RejectedStep ==
  ASSUME Inductive, NEW p \in Procs, pc[p] \in {"writing", "retiring"},
         NEW item \in Item,
         item.id = run[p].state.held[run[p].step.ref].id,
         item.origin = run[p].state.held[run[p].step.ref].origin,
         Rejected(p, WithItem(run[p].state, run[p].step.ref, item)),
         faults' \in Nat, UNCHANGED <<yaml, items, seen, edits, revisions>>
  PROVE  Inductive'
<1> DEFINE r == run[p].step.ref
           st == WithItem(run[p].state, r, item)
<1>1. /\ pc[p] \in ApplyPlaces \ {"creating", "finishing"} /\ Writer(pc[p], run[p])
      /\ r \in Refs /\ run[p].state.held[r] # None
  BY AtSend
<1>2. disk' = st /\ End(p)
  BY DEF Rejected
<1> HIDE DEF r
<1>3. st \in PublishState /\ StateOK(items, st)
  BY <1>1, NoteInPlace DEF r
<1> HIDE DEF st
<1>4. RestOK' /\ Ages(items, items') /\ items' \in [Ids -> RemoteItem]
      /\ disk' \in PublishState /\ StateOK(items', disk')
  BY <1>2, <1>3, OfCommand, AgesReflexive DEF RestOK
<1>5. QED
  BY <1>1, <1>2, <1>4, EndStep, SMTT(20)

\* The service rejects the write.
LEMMA RejectWriteStep ==
  ASSUME Inductive, NEW p \in Procs, RejectWrite(p)
  PROVE  Inductive'
<1> DEFINE old == run[p].state.held[run[p].step.ref]
           item == [old EXCEPT !.writing = None]
<1>1. /\ pc[p] = "writing" /\ UNCHANGED <<yaml, items, seen, edits, revisions>>
      /\ Rejected(p, WithItem(run[p].state, run[p].step.ref, item))
  BY DEF RejectWrite
<1>2. faults' \in Nat
  BY OfCommand, SMTT(20) DEF RejectWrite, RestOK
<1>3. old \in Item
  BY <1>1, AtSend
<1>4. item \in Item /\ item.id = old.id /\ item.origin = old.origin
  BY <1>3 DEF Item
<1> HIDE DEF item
<1>5. QED
  BY <1>1, <1>2, <1>4, RejectedStep

\* A command ends without a word; what it sent may have reached its item.
LEMMA UnansweredStep ==
  ASSUME Inductive, NEW p \in Procs, End(p), faults' \in Nat,
         UNCHANGED <<yaml, disk, seen, edits, revisions>>,
         NEW i \in Ids, NEW item \in RemoteItem, item.made = items[i].made,
         item.life = items[i].life \/ (items[i].life = "there" /\ item.life = "gone"),
         items' = [items EXCEPT ![i] = item] \/ items' = items
  PROVE  Inductive'
<1>1. items' \in [Ids -> RemoteItem] /\ Ages(items, items')
  <2>1. CASE items' = items
    BY <2>1, OfCommand, AgesReflexive
  <2>2. CASE items' = [items EXCEPT ![i] = item]
    BY <2>2, OfCommand, OneItemAges
  <2>3. QED
    BY <2>1, <2>2
<1>2. RestOK' /\ disk' \in PublishState /\ StateOK(items', disk')
  BY <1>1, OfCommand, AgesStateOK DEF RestOK
<1>3. QED
  BY <1>1, <1>2, EndStep

\* Part of the write lands and the answer is lost.
LEMMA LoseWriteAnswerStep ==
  ASSUME Inductive, NEW p \in Procs, LoseWriteAnswer(p)
  PROVE  Inductive'
<1> DEFINE s == run[p].step
           i == run[p].state.held[s.ref].id
           draft == run[p].drafts[s.ref]
<1>1. /\ pc[p] = "writing" /\ End(p) /\ faults' \in Nat
      /\ UNCHANGED <<yaml, disk, seen, edits, revisions>>
  <2>1. faults \in Nat
    BY OfCommand DEF RestOK
  <2>2. faults' = faults + 1 \/ faults' = faults
    BY DEF LoseWriteAnswer
  <2>3. pc[p] = "writing" /\ End(p) /\ UNCHANGED <<yaml, disk, seen, edits, revisions>>
    BY Zenon DEF LoseWriteAnswer
  <2>4. QED
    BY <2>1, <2>2, <2>3
<1>2. /\ s.ref \in Refs /\ s.parts \in SUBSET Parts /\ i \in Ids
      /\ items[i] \in RemoteItem /\ draft \in Content
  BY <1>1, AtSend, SMTT(20)
<1>3. PICK ps \in SUBSET s.parts :
        \/ items' = [items EXCEPT ![i] = Write(items[i], s.ref, draft, ps)]
        \/ items' = items
  BY DEF LoseWriteAnswer
<1> DEFINE item == Write(items[i], s.ref, draft, ps)
<1>4. item \in RemoteItem /\ item.life = items[i].life /\ item.made = items[i].made
  <2>1. ps \in SUBSET Parts
    BY <1>2
  <2>2. QED
    BY <1>2, <2>1, WriteKeepsLife
<1>5. items' = [items EXCEPT ![i] = item] \/ items' = items
  BY <1>3
<1> HIDE DEF item, i
<1>6. QED
  BY <1>1, <1>2, <1>4, <1>5, UnansweredStep

------------------------------------------------------------------------------
(* Retirements                                                               *)

\* An item is retired and forgotten: it is gone, or it was never skaldr's own.
LEMMA RetiredStep ==
  ASSUME Inductive, RestOK', NEW p \in Procs,
         pc[p] \in ApplyPlaces \ {"creating", "finishing"},
         NEW s, s.ref \in Refs, run[p].state.held[s.ref] # None,
         run[p].drafts[s.ref] = None,
         \A t \in run[p].todo \ {s} : t.kind = "retire" => t.ref # s.ref,
         StepDone(p, s, WithItem(run[p].state, s.ref, None), None), lock' = lock,
         items' \in [Ids -> RemoteItem], Ages(items, items'),
         \/ ~Alive(items', run[p].state.held[s.ref].id)
         \/ items'[run[p].state.held[s.ref].id].made = None
  PROVE  Inductive'
<1> DEFINE old == run[p].state
           st == WithItem(old, s.ref, None)
<1>1. /\ old \in PublishState /\ StateOK(items, old) /\ old.pending = {}
  BY AtApply, OfCommand DEF ShapeOK
<1>2. StateOK(items', old)
  BY <1>1, OfCommand, AgesStateOK
<1>3. /\ st \in PublishState /\ st.pending = {} /\ st.held[s.ref] = None
      /\ \A q \in Refs \ {s.ref} : st.held[q] = old.held[q]
  BY <1>1, WithItemType
<1>4. StateOK(items', st)
  BY <1>1, <1>2, ForgetStateOK
<1>5. NotThere(items', st, s.ref)
  BY <1>3, SMTT(20) DEF NotThere
<1>6. \A t \in run[p].todo \ {s} : t.ref = s.ref =>
        /\ t.kind # "write" /\ t.kind # "retire"
  BY AtApply DEF Planned
<1>7. StepDone(p, s, st, None)
  BY DEF st
<1> HIDE DEF st
<1>8. QED
  BY <1>1, <1>3, <1>4, <1>5, <1>6, <1>7, DoneStep

\* The item is no longer in the service.
LEMMA ForgetMissingStep ==
  ASSUME Inductive, NEW p \in Procs, NEW s \in run[p].todo, ForgetMissing(p, s)
  PROVE  Inductive'
<1>1. /\ pc[p] = "apply" /\ s.kind = "retire" /\ run[p].read[s.ref] = None
      /\ StepDone(p, s, WithItem(run[p].state, s.ref, None), None)
      /\ UNCHANGED <<yaml, items, lock, seen, counters>>
  BY DEF ForgetMissing
<1>2. pc[p] \in ApplyPlaces /\ pc[p] \in ApplyPlaces \ {"creating", "finishing"}
  BY <1>1 DEF ApplyPlaces
<1>3. s \in Step /\ Planned(run[p], s) /\ Whole(s) /\ s.ref \in Refs
      /\ NotThere(items, run[p].state, s.ref)
  BY <1>1, <1>2, AtApply
<1>4. run[p].drafts[s.ref] = None /\ run[p].state.held[s.ref] # None
      /\ ~Alive(items, run[p].state.held[s.ref].id)
  BY <1>1, <1>3 DEF Planned, NotThere
<1>5. ASSUME NEW t \in run[p].todo \ {s}, t.kind = "retire" PROVE t.ref # s.ref
  <2>1. t \in Step /\ Whole(t)
    BY <1>2, AtApply
  <2>2. QED
    BY <1>1, <1>3, <1>5, <2>1 DEF Whole, Step
<1>6. RestOK' /\ lock' = lock /\ items' \in [Ids -> RemoteItem] /\ Ages(items, items')
      /\ items' = items
  BY <1>1, OfCommand, AgesReflexive DEF RestOK, counters
<1>7. QED
  BY <1>1, <1>2, <1>3, <1>4, <1>5, <1>6, RetiredStep

\* The retirement is noted in the item's record.
LEMMA StartRetireStep ==
  ASSUME Inductive, NEW p \in Procs, NEW s \in run[p].todo, StartRetire(p, s)
  PROVE  Inductive'
<1> DEFINE old == run[p].state.held[s.ref]
           item == [old EXCEPT !.retiring = TRUE]
           st == WithItem(run[p].state, s.ref, item)
<1>1. /\ pc[p] = "apply" /\ s.kind = "retire" /\ run[p].read[s.ref] # None /\ disk' = st
      /\ Start(p, "retiring", s, st) /\ UNCHANGED <<yaml, items, lock, seen, counters>>
  BY DEF StartRetire
<1>2. s.ref \in Refs /\ old \in Item /\ old # None
  <2>1. pc[p] \in ApplyPlaces
    BY <1>1 DEF ApplyPlaces
  <2>2. s \in Step /\ Planned(run[p], s) /\ s.kind # "create"
    BY <1>1, <2>1, AtApply
  <2>3. QED
    BY <1>1, <2>1, <2>2, AtHeldItem
<1>3. item \in Item /\ item.id = old.id /\ item.origin = old.origin
  BY <1>2 DEF Item
<1> HIDE DEF item
<1>4. /\ st \in PublishState /\ st.pending = {} /\ StateOK(items, st)
      /\ \A q \in Refs :
           /\ run[p].state.held[q] # None => st.held[q] # None
           /\ NotThere(items, run[p].state, q) => NotThere(items, st, q)
  <2>1. pc[p] \in ApplyPlaces \ {"creating", "finishing"}
    BY <1>1 DEF ApplyPlaces
  <2>2. item.id = run[p].state.held[s.ref].id
        /\ item.origin = run[p].state.held[s.ref].origin
        /\ run[p].state.held[s.ref] # None /\ s.ref \in Refs /\ item \in Item
    BY <1>2, <1>3
  <2>3. QED
    BY <2>1, <2>2, NoteInPlace, SMTT(20)
<1> HIDE DEF st
<1>5. QED
  BY <1>1, <1>4, BeginStep

\* The item is archived, or skaldr's part of the page is cleared.
LEMMA SendRetireStep ==
  ASSUME Inductive, NEW p \in Procs, SendRetire(p)
  PROVE  Inductive'
<1> DEFINE s == run[p].step
           old == run[p].state.held[s.ref]
           i == old.id
           new == IF old.origin = "created" THEN Archive(items[i])
                  ELSE Release(items[i], ReleasedParts(old), None)
<1>1. /\ pc[p] = "retiring"
      /\ StepDone(p, s, WithItem(run[p].state, s.ref, None), None)
      /\ items' = [items EXCEPT ![i] = new]
      /\ UNCHANGED <<yaml, lock, seen, counters>>
  BY SMTT(20) DEF SendRetire
<1>2. /\ pc[p] \in ApplyPlaces \ {"creating", "finishing"}
      /\ s \in Step /\ s.ref \in Refs /\ s.kind = "retire"
      /\ old \in Item /\ old # None /\ i \in Ids /\ items[i] \in RemoteItem
      /\ (old.origin = "adopted" => items[i].made = None)
      /\ Alone(run[p], s) /\ run[p].drafts[s.ref] = None /\ Born(items, i)
  BY <1>1, AtSend
<1>3. /\ new \in RemoteItem /\ new.made = items[i].made
      /\ new.life \in {items[i].life, "gone"}
      /\ new.life = "gone" \/ new.made = None
  <2>1. CASE old.origin = "created"
    <3>1. new = Archive(items[i])
      BY <2>1
    <3>2. QED
      BY <1>2, <3>1, ArchiveType
  <2>2. CASE old.origin = "adopted"
    <3>1. ReleasedParts(old) \in SUBSET Parts
      BY SMTT(20) DEF ReleasedParts, Parts
    <3> DEFINE released == Release(items[i], ReleasedParts(old), None)
    <3>2. /\ released \in RemoteItem /\ released.life = items[i].life
          /\ released.made = items[i].made
      BY <1>2, <3>1, ReleaseKeepsLife
    <3>3. new = released
      BY <2>2
    <3> HIDE DEF new, released
    <3>4. QED
      BY <1>2, <2>2, <3>2, <3>3
  <2>3. QED
    BY <1>2, <2>1, <2>2 DEF Item, Origin
<1> HIDE DEF new, i
<1>4. items' \in [Ids -> RemoteItem] /\ Ages(items, items')
  BY <1>1, <1>2, <1>3, OfCommand, OneItemAges DEF Born, RemoteItem
<1>5. ~Alive(items', i) \/ items'[i].made = None
  BY <1>1, <1>2, <1>3, OfCommand DEF Alive
<1>6. RestOK' /\ lock' = lock
  BY <1>1, OfCommand DEF RestOK, counters
<1>7. \A t \in run[p].todo \ {s} : t.kind = "retire" => t.ref # s.ref
  BY <1>2 DEF Alone
<1>8. QED
  BY <1>1, <1>2, <1>4, <1>5, <1>6, <1>7, RetiredStep DEF i

\* The service rejects the retirement.
LEMMA RejectRetireStep ==
  ASSUME Inductive, NEW p \in Procs, RejectRetire(p)
  PROVE  Inductive'
<1> DEFINE old == run[p].state.held[run[p].step.ref]
           item == [old EXCEPT !.retiring = FALSE]
<1>1. /\ pc[p] = "retiring" /\ UNCHANGED <<yaml, items, seen, edits, revisions>>
      /\ Rejected(p, WithItem(run[p].state, run[p].step.ref, item))
  BY DEF RejectRetire
<1>2. faults' \in Nat
  BY OfCommand, SMTT(20) DEF RejectRetire, RestOK
<1>3. old \in Item
  BY <1>1, AtSend
<1>4. item \in Item /\ item.id = old.id /\ item.origin = old.origin
  BY <1>3 DEF Item
<1> HIDE DEF item
<1>5. QED
  BY <1>1, <1>2, <1>4, RejectedStep

\* The item is archived, or part of the release lands, and the answer is lost.
LEMMA LoseRetireAnswerStep ==
  ASSUME Inductive, NEW p \in Procs, LoseRetireAnswer(p)
  PROVE  Inductive'
<1> DEFINE old == run[p].state.held[run[p].step.ref]
           i == old.id
<1>1. /\ pc[p] = "retiring" /\ End(p) /\ UNCHANGED <<yaml, disk, seen, edits, revisions>>
  BY Zenon DEF LoseRetireAnswer
<1>2. faults' \in Nat
  <2>1. faults \in Nat
    BY OfCommand DEF RestOK
  <2>2. faults' = faults + 1 \/ faults' = faults
    BY DEF LoseRetireAnswer
  <2>3. QED
    BY <2>1, <2>2, SMTT(20)
<1>3. old \in Item /\ i \in Ids /\ items[i] \in RemoteItem /\ Born(items, i)
  BY <1>1, AtSend, SMTT(20)
<1>4. \/ items' = items
      \/ items' = [items EXCEPT ![i] = Archive(items[i])]
      \/ \E ps \in SUBSET ReleasedParts(old), stamp \in {items[i].stamp, None} :
           items' = [items EXCEPT ![i] = Release(items[i], ps, stamp)]
  BY DEF LoseRetireAnswer
<1> HIDE DEF i
<1>5. CASE items' = items
  BY <1>1, <1>2, <1>3, <1>5, UnansweredStep
<1>6. CASE items' = [items EXCEPT ![i] = Archive(items[i])]
  <2> DEFINE item == Archive(items[i])
  <2>1. item \in RemoteItem /\ item.life = "gone" /\ item.made = items[i].made
    BY <1>3, ArchiveType
  <2>2. item.life = items[i].life \/ (items[i].life = "there" /\ item.life = "gone")
    BY <1>3, <2>1 DEF Born, RemoteItem
  <2>3. items' = [items EXCEPT ![i] = item]
    BY <1>6
  <2> HIDE DEF item
  <2>4. QED
    BY <1>1, <1>2, <1>3, <2>1, <2>2, <2>3, UnansweredStep
<1>7. CASE \E ps \in SUBSET ReleasedParts(old), stamp \in {items[i].stamp, None} :
             items' = [items EXCEPT ![i] = Release(items[i], ps, stamp)]
  <2>1. PICK ps \in SUBSET ReleasedParts(old), stamp \in {items[i].stamp, None} :
          items' = [items EXCEPT ![i] = Release(items[i], ps, stamp)]
    BY <1>7
  <2>2. ps \in SUBSET Parts /\ stamp \in Refs \cup {None}
    BY <1>3 DEF ReleasedParts, Parts, RemoteItem
  <2> DEFINE item == Release(items[i], ps, stamp)
  <2>3. item \in RemoteItem /\ item.life = items[i].life /\ item.made = items[i].made
    BY <1>3, <2>2, ReleaseKeepsLife
  <2>4. items' = [items EXCEPT ![i] = item]
    BY <2>1
  <2> HIDE DEF item
  <2>5. QED
    BY <1>1, <1>2, <1>3, <2>3, <2>4, UnansweredStep
<1>8. QED
  BY <1>4, <1>5, <1>6, <1>7

\* Every step of the plan is done.
LEMMA EverythingAppliedStep ==
  ASSUME Inductive, NEW p \in Procs, EverythingApplied(p)
  PROVE  Inductive'
<1>1. pc[p] = "apply" /\ Goto(p, "applied", run[p])
      /\ UNCHANGED <<yaml, items, disk, lock, seen, counters>>
  BY DEF EverythingApplied
<1>2. pc[p] \in ApplyPlaces /\ "applied" \in Places
  BY <1>1 DEF ApplyPlaces, Places
<1>3. run[p] \in Run /\ lock = p /\ KnowsOK(items, "apply", run[p])
      /\ ShapeOK("apply", run[p])
  BY <1>1, <1>2, AtApply, OfCommand
<1>4. ShapeOK("applied", run[p])
  BY <1>3 DEF ShapeOK, FreshPlaces, ReadPlaces, ApplyPlaces, StepPlaces
<1>5. KnowsOK(items, "applied", run[p])
  BY <1>3 DEF KnowsOK, ReadPlaces, ApplyPlaces, StepPlaces
<1>6. QED
  BY <1>1, <1>2, <1>3, <1>4, <1>5, MemoryStep DEF CommandOK

------------------------------------------------------------------------------
(* The invariant and what follows from it                                    *)

\* Nothing is published, no command runs and no item is skaldr's.
LEMMA InitInductive == ASSUME Init PROVE Inductive
<1>1. NoState \in PublishState /\ NoState.pending = {}
      /\ \A r \in Refs : NoState.held[r] = None
  BY DEF NoState, PublishState
<1>2. Unborn \in RemoteItem /\ Unborn.made = None
  BY EmptyType DEF Unborn, RemoteItem
<1>3. /\ items \in [Ids -> RemoteItem] /\ \A i \in Ids : items[i].made = None
      /\ Into # None => Born(items, Into)
  BY <1>2, ConstantsAssumption DEF Init, Born, RemoteItem
<1>4. TypeOK
  BY <1>1, <1>3, ConstantsAssumption, IdleOK DEF Init, TypeOK, Places
<1>5. ServiceOK(items)
  BY <1>3, ConstantsAssumption DEF ServiceOK
<1>6. StateOK(items, disk)
  BY <1>1, <1>3 DEF Init, StateOK, AtMostOnePending, HeldItemsAreTheRefs,
                    PendingStandsForItsRef
<1>7. \A p \in Procs : pc[p] = "idle" /\ run[p] = IdleRun
  BY DEF Init
<1>8. QED
  BY <1>4, <1>5, <1>6, <1>7, IdleOK DEF Inductive, WriterHoldsTheLock, CreateIsNoted

\* A stuttering step.
LEMMA StutterInductive == ASSUME Inductive, UNCHANGED vars PROVE Inductive'
<1>1. RestOK' /\ items' \in [Ids -> RemoteItem] /\ disk' \in PublishState
      /\ StateOK(items', disk')
  BY DEF Inductive, TypeOK, RestOK, vars
<1>2. QED
  BY <1>1, AgesReflexive, PersonStep DEF vars

\* What the person does keeps the invariant.
LEMMA PersonInductive == ASSUME Inductive, Person PROVE Inductive'
BY EditActions, ReviseYamlStep, ResolveCreateStep DEF Person

\* So does what a command does until it has decided.
LEMMA PreflightInductive ==
  ASSUME Inductive, NEW p \in Procs, Begin(p) \/ Preflight(p) \/ Decide(p)
  PROVE  Inductive'
<1>1. CASE Begin(p)
  BY <1>1, EndsQuietly, TakeLockStep DEF Begin
<1>2. CASE Preflight(p)
  <2>1. CASE \E d \in run[p].state.pending :
               Settle(p, d) \/ FindLeftEmpty(p, d) \/ Fill(p, d) \/ FillFails(p, d)
    BY <2>1, SettleStep, FindLeftEmptyStep, FillStep, FillFailsStep
  <2>2. CASE \E r \in Refs : ReadItem(p, r)
    BY <2>2, ReadItemStep
  <2>3. CASE RefuseInterruptedCreate(p) \/ RefuseInto(p)
    BY <2>3, EndsQuietly
  <2>4. CASE AllSettled(p) \/ AllRead(p) \/ ReadInto(p)
    BY <2>4, AllSettledStep, AllReadStep, ReadIntoStep
  <2>5. QED
    BY <1>2, <2>1, <2>2, <2>3, <2>4 DEF Preflight
<1>3. CASE Decide(p)
  BY <1>3, EndsQuietly, ShowEditsStep, RefuseMissingIntoStep, MakePlanStep DEF Decide
<1>4. QED
  BY <1>1, <1>2, <1>3

\* And what it does while it applies.
LEMMA ApplyInductive ==
  ASSUME Inductive, NEW p \in Procs,
         \/ StartStep(p) \/ Send(p) \/ EverythingApplied(p) \/ ReleaseLock(p)
  PROVE  Inductive'
<1>1. CASE StartStep(p)
  BY <1>1, StartCreateStep, SkipWriteStep, StartWriteStep, ForgetMissingStep,
     StartRetireStep DEF StartStep
<1>2. CASE Send(p)
  <2>1. CASE SendCreate(p) \/ SendCreateInto(p) \/ RejectCreate(p)
             \/ FinishCreate(p) \/ LeaveUnfinished(p)
    BY <2>1, SendCreateStep, SendCreateIntoStep, RejectCreateStep, FinishCreateStep,
       LeaveUnfinishedStep
  <2>2. CASE SendWrite(p) \/ RejectWrite(p) \/ LoseWriteAnswer(p)
    BY <2>2, SendWriteStep, RejectWriteStep, LoseWriteAnswerStep
  <2>3. CASE SendRetire(p) \/ RejectRetire(p) \/ LoseRetireAnswer(p)
    BY <2>3, SendRetireStep, RejectRetireStep, LoseRetireAnswerStep
  <2>4. QED
    BY <1>2, <2>1, <2>2, <2>3 DEF Send
<1>3. CASE EverythingApplied(p) \/ ReleaseLock(p)
  BY <1>3, EverythingAppliedStep, EndsQuietly
<1>4. QED
  BY <1>1, <1>2, <1>3

\* Every step keeps the invariant.
LEMMA NextInductive == ASSUME Inductive, [Next]_vars PROVE Inductive'
<1>1. CASE Person
  BY <1>1, PersonInductive
<1>2. CASE \E p \in Procs :
             (\E c \in Command : Prepare(p, c)) \/ Advance(p) \/ Stop(p)
  <2>1. PICK p \in Procs : (\E c \in Command : Prepare(p, c)) \/ Advance(p) \/ Stop(p)
    BY <1>2
  <2>2. CASE \E c \in Command : Prepare(p, c)
    BY <2>2, PrepareStep
  <2>3. CASE Advance(p)
    BY <2>3, PreflightInductive, ApplyInductive DEF Advance
  <2>4. CASE Stop(p)
    BY <2>4, EndsQuietly
  <2>5. QED
    BY <2>1, <2>2, <2>3, <2>4
<1>3. CASE UNCHANGED vars
  BY <1>3, StutterInductive
<1>4. QED
  BY <1>1, <1>2, <1>3 DEF Next

\* Inductive is an invariant: at every moment, whatever stopped, was lost or was
\* edited, the state file and each command's memory fit the service.
THEOREM InductiveInvariant == Spec => []Inductive
<1>1. Init => Inductive
  BY InitInductive
<1>2. Inductive /\ [Next]_vars => Inductive'
  BY NextInductive
<1>3. QED
  BY <1>1, <1>2, PTL DEF Spec

\* Every variable holds a value of its kind, whatever the commands do.
THEOREM TypeCorrect == Spec => []TypeOK
<1>1. Inductive => TypeOK
  BY DEF Inductive
<1>2. QED
  BY <1>1, InductiveInvariant, PTL

\* The state file accounts for every item skaldr created that is in the service.
THEOREM EveryItemIsTracked == Spec => []Tracked
<1>1. Inductive => Tracked
  <2>1. SUFFICES ASSUME Inductive, NEW i \in Ids, There(i), items[i].made # None
                 PROVE  Covers(disk, i)
    BY DEF Tracked
  <2>2. Accounts(items, disk, i)
    BY <2>1 DEF Inductive, StateOK, There, Alive
  <2>3. QED
    BY <2>2 DEF Accounts, Covers
<1>2. QED
  BY <1>1, InductiveInvariant, PTL

\* No ref of the document has two items in the service.
THEOREM NothingPublishedTwice == Spec => []NoDuplicates
<1>1. Inductive => NoDuplicates
  BY DEF Inductive, ServiceOK, NoDuplicates, There, Alive
<1>2. QED
  BY <1>1, InductiveInvariant, PTL

------------------------------------------------------------------------------
(* What an apply still has to do, and what it has recorded                   *)

\* No text of a YAML goes by the name of text without a section.
LEMMA YamlsNamed == \A y \in Yamls \cup {FirstYaml} : Named(y)
BY ConstantsAssumption DEF Named

\* A command that does not apply has nothing planned to keep.
LEMMA UnplannedSteps ==
  ASSUME NEW dk, NEW place \in Places \ ApplyPlaces, NEW rn, Named(rn.drafts)
  PROVE  DoesAsPlanned(dk, place, rn)
BY DEF DoesAsPlanned, ApplyPlaces, StepPlaces

\* A command that ends has nothing left to do.
LEMMA IdleAsPlanned == \A dk : DoesAsPlanned(dk, "idle", IdleRun)
<1>1. Named(IdleRun.drafts)
  BY DEF Named, IdleRun
<1>2. "idle" \in Places \ ApplyPlaces
  BY DEF Places, ApplyPlaces, StepPlaces
<1>3. QED
  BY <1>1, <1>2, UnplannedSteps

\* A command moves on: either it holds the lock, and no other applies, or it leaves
\* the state file alone.
LEMMA PlannedStep ==
  ASSUME Inductive, AsPlanned, NEW p \in Procs, NEW place, NEW rn, Goto(p, place, rn),
         Writer(pc[p], run[p]) \/ disk' = disk, yaml' = yaml,
         DoesAsPlanned(disk', place, rn)
  PROVE  AsPlanned'
<1>1. /\ pc'[p] = place /\ run'[p] = rn
      /\ \A q \in Procs \ {p} : pc'[q] = pc[q] /\ run'[q] = run[q]
  BY DEF Goto, Inductive, TypeOK
<1>2. ASSUME NEW q \in Procs \ {p} PROVE DoesAsPlanned(disk', pc[q], run[q])
  <2>1. DoesAsPlanned(disk, pc[q], run[q])
    BY DEF AsPlanned
  <2>2. pc[q] \in ApplyPlaces => disk' = disk
    BY AtApply, NoneAssumption DEF Inductive, WriterHoldsTheLock
  <2>3. QED
    BY <2>1, <2>2 DEF DoesAsPlanned
<1>3. QED
  BY <1>1, <1>2 DEF AsPlanned

\* So it is when it ends.
LEMMA PlannedEnd ==
  ASSUME Inductive, AsPlanned, NEW p \in Procs, End(p), yaml' = yaml,
         Writer(pc[p], run[p]) \/ disk' = disk
  PROVE  AsPlanned'
BY IdleAsPlanned, PlannedStep DEF End

\* The person acts: no command moves, and one that applies holds the lock.
LEMMA PlannedPerson ==
  ASSUME Inductive, AsPlanned, Person
  PROVE  AsPlanned'
<1>1. UNCHANGED <<pc, run>> /\ Named(yaml')
  BY YamlsNamed DEF Person, ReviseYaml, EditItem, RemoveStamp, DeleteItem, ResolveCreate,
                    AsPlanned
<1>2. disk' = disk \/ lock = None
  BY DEF Person, ReviseYaml, EditItem, RemoveStamp, DeleteItem, ResolveCreate
<1>3. ASSUME NEW p \in Procs PROVE DoesAsPlanned(disk', pc[p], run[p])
  <2>1. DoesAsPlanned(disk, pc[p], run[p])
    BY DEF AsPlanned
  <2>2. pc[p] \in ApplyPlaces => disk' = disk
    BY <1>2, AtApply, NoneAssumption
  <2>3. QED
    BY <2>1, <2>2 DEF DoesAsPlanned
<1>4. QED
  BY <1>1, <1>3 DEF AsPlanned

\* Until it plans, a command only reads what the YAML says.
LEMMA PlannedBefore ==
  ASSUME Inductive, AsPlanned, NEW p \in Procs,
         \/ \E c \in Command : Prepare(p, c)
         \/ Stop(p) \/ Begin(p) \/ Preflight(p) \/ (Decide(p) /\ ~MakePlan(p))
  PROVE  AsPlanned'
<1>0. run[p] \in Run /\ Named(run[p].drafts) /\ Named(yaml)
  BY OfCommand DEF AsPlanned, DoesAsPlanned
<1>1. ASSUME NEW place \in Places \ ApplyPlaces, NEW rn, Goto(p, place, rn),
             rn.drafts \in {yaml, run[p].drafts}, UNCHANGED <<yaml, disk>>
      PROVE  AsPlanned'
  BY <1>0, <1>1, UnplannedSteps, PlannedStep
<1>2. {"prepared", "settle", "fill", "read", "into", "decide"} \subseteq Places \ ApplyPlaces
  BY DEF Places, ApplyPlaces, StepPlaces
<1>3. ASSUME NEW c \in Command, Prepare(p, c)
      PROVE  AsPlanned'
  <2> DEFINE place == IF c = "dry" THEN "settle" ELSE "prepared"
             rn == [IdleRun EXCEPT !.cmd = c, !.drafts = yaml, !.state = disk]
  <2>1. Goto(p, place, rn) /\ UNCHANGED <<yaml, disk>> /\ rn.drafts = yaml
    BY <1>3 DEF Prepare, IdleRun
  <2>2. place \in Places \ ApplyPlaces
    BY <1>2
  <2> HIDE DEF place, rn
  <2>3. QED
    BY <1>1, <2>1, <2>2
<1>4. CASE TakeLock(p)
  <2> DEFINE place == IF run[p].cmd = "diff" THEN "read" ELSE "settle"
             rn == [run[p] EXCEPT !.drafts = yaml, !.state = disk,
                                  !.unread = HeldRefs(disk)]
  <2>1. Goto(p, place, rn) /\ UNCHANGED <<yaml, disk>> /\ rn.drafts = yaml
    BY <1>0, <1>4 DEF TakeLock, Run
  <2>2. place \in Places \ ApplyPlaces
    BY <1>2
  <2> HIDE DEF place, rn
  <2>3. QED
    BY <1>1, <2>1, <2>2
<1>5. CASE Stop(p) \/ LockHeldElsewhere(p) \/ YamlChangedSincePlanned(p)
  BY <1>5, PlannedEnd DEF Stop, LockHeldElsewhere, YamlChangedSincePlanned
<1>6. CASE Preflight(p)
  <2>1. ASSUME \E place \in Places \ ApplyPlaces : \E rn :
                 Goto(p, place, rn) /\ rn.drafts = run[p].drafts,
               UNCHANGED <<yaml, disk>>
        PROVE  AsPlanned'
    BY <1>1, <2>1
  <2>2. ASSUME NEW d \in run[p].state.pending, Settle(p, d) \/ FindLeftEmpty(p, d) \/ Fill(p, d)
        PROVE  AsPlanned'
    <3>1. ASSUME NEW st, Goto(p, "settle", [run[p] EXCEPT !.state = st]),
                 UNCHANGED <<yaml, disk>>
          PROVE  AsPlanned'
      <4>1. [run[p] EXCEPT !.state = st].drafts = run[p].drafts
        BY <1>0 DEF Run
      <4>2. QED
        BY <1>2, <2>1, <3>1, <4>1
    <3>2. ASSUME NEW i, Goto(p, "fill", [run[p] EXCEPT !.id = i]),
                 UNCHANGED <<yaml, disk>>
          PROVE  AsPlanned'
      <4>1. [run[p] EXCEPT !.id = i].drafts = run[p].drafts
        BY <1>0 DEF Run
      <4>2. QED
        BY <1>2, <2>1, <3>2, <4>1
    <3>3. ASSUME NEW st, Goto(p, "settle", [run[p] EXCEPT !.state = st, !.id = None]),
                 UNCHANGED <<yaml, disk>>
          PROVE  AsPlanned'
      <4>1. [run[p] EXCEPT !.state = st, !.id = None].drafts = run[p].drafts
        BY <1>0 DEF Run
      <4>2. QED
        BY <1>2, <2>1, <3>3, <4>1
    <3>4. CASE Settle(p, d)
      BY <3>1, <3>4 DEF Settle
    <3>5. CASE FindLeftEmpty(p, d)
      BY <3>2, <3>5 DEF FindLeftEmpty
    <3>6. CASE Fill(p, d)
      BY <3>3, <3>6 DEF Fill
    <3>7. QED
      BY <2>2, <3>4, <3>5, <3>6
  <2>3. CASE \E d \in run[p].state.pending : FillFails(p, d)
    BY <2>3, PlannedEnd DEF FillFails
  <2>4. CASE RefuseInterruptedCreate(p) \/ RefuseInto(p)
    BY <2>4, PlannedEnd DEF RefuseInterruptedCreate, RefuseInto
  <2>5. CASE AllSettled(p) \/ AllRead(p) \/ ReadInto(p)
    <3>1. \A u : [run[p] EXCEPT !.unread = u].drafts = run[p].drafts
      BY <1>0 DEF Run
    <3>2. [run[p] EXCEPT !.read[Document] = items[Into].text].drafts = run[p].drafts
      BY <1>0 DEF Run
    <3>3. QED
      BY <1>2, <2>1, <2>5, <3>1, <3>2 DEF AllSettled, AllRead, ReadInto
  <2>6. ASSUME NEW r \in Refs, ReadItem(p, r) PROVE AsPlanned'
    <3>1. PICK un, st, read, missing, edited :
            Goto(p, "read", [run[p] EXCEPT !.unread = un, !.state = st, !.read[r] = read,
                               !.missing = missing, !.edited[r] = edited])
      BY <2>6 DEF ReadItem
    <3> DEFINE rn == [run[p] EXCEPT !.unread = un, !.state = st, !.read[r] = read,
                        !.missing = missing, !.edited[r] = edited]
    <3>2. rn.drafts = run[p].drafts
      BY <1>0 DEF Run
    <3>3. UNCHANGED <<yaml, disk>> /\ Goto(p, "read", rn)
      BY <2>6, <3>1 DEF ReadItem
    <3> HIDE DEF rn
    <3>4. QED
      BY <1>2, <2>1, <3>2, <3>3
  <2>7. QED
    BY <1>6, <2>2, <2>3, <2>4, <2>5, <2>6 DEF Preflight
<1>7. CASE Decide(p) /\ ~MakePlan(p)
  <2>1. End(p) /\ yaml' = yaml
    BY <1>7 DEF Decide, EndDryRun, RefuseMissing, RefuseEdited, RefuseUnseen, ShowDiff,
         ShowEdits, RefuseMissingInto
  <2>2. Writer(pc[p], run[p]) \/ disk' = disk
    BY <1>7 DEF Decide, EndDryRun, RefuseMissing, RefuseEdited, RefuseUnseen, ShowDiff,
         ShowEdits, RefuseMissingInto, MayWrite, Writer
  <2>3. QED
    BY <2>1, <2>2, PlannedEnd
<1>8. QED
  BY <1>3, <1>4, <1>5, <1>6, <1>7 DEF Begin

\* A step of the applier is about one ref.
LEMMA PlannedApply ==
  ASSUME Inductive, AsPlanned, NEW p \in Procs, pc[p] \in ApplyPlaces,
         NEW place \in ApplyPlaces \ {"applied"}, NEW rn, Goto(p, place, rn),
         NEW r \in Refs, yaml' = yaml, disk' = rn.state, rn.drafts = run[p].drafts,
         \A q \in Refs \ {r} : rn.state.held[q] = run[p].state.held[q],
         \A t \in StepsLeft(pc[p], run[p]) : t.ref # r => t \in StepsLeft(place, rn),
         RefAsPlanned(place, rn, r),
         place = "writing" =>
           rn.state.held[rn.step.ref].writing.rendered = RenderedAfter(rn, rn.step)
  PROVE  AsPlanned'
<1>1. DoesAsPlanned(disk, pc[p], run[p])
  BY DEF AsPlanned
<1>2. ASSUME NEW q \in Refs \ {r} PROVE RefAsPlanned(place, rn, q)
  <2>1. RefAsPlanned(pc[p], run[p], q)
    BY <1>1 DEF DoesAsPlanned
  <2>2. \A x : Due(pc[p], run[p], q, x) => Due(place, rn, q, x)
    BY <1>2 DEF Due
  <2>3. \A kind : DueTo(kind, pc[p], run[p], q) => DueTo(kind, place, rn, q)
    BY <1>2 DEF DueTo
  <2>4. QED
    BY <1>2, <2>1, <2>2, <2>3 DEF RefAsPlanned, Drafted, HeldRefs
<1>3. DoesAsPlanned(disk', place, rn)
  BY <1>1, <1>2 DEF DoesAsPlanned
<1>4. QED
  BY <1>3, PlannedStep, AtApply

\* The plan has a step for all that is not recorded as the YAML says.
LEMMA PlanIsWhole ==
  ASSUME NEW rn \in Run, ReadsOK(rn), rn.unread = {}, NEW r \in Refs
  PROVE  /\ r \in Drafted(rn) \cap Absent(rn) =>
              \E t \in Plan(rn) : t.ref = r /\ t.kind = "create"
         /\ r \in Drafted(rn) \ Absent(rn) => \A x \in Parts :
              \/ \E t \in Plan(rn) : t.ref = r /\ t.kind = "write" /\ x \in t.parts
              \/ /\ rn.state.held[r].rendered[x] = rn.drafts[r][x]
                 /\ x \notin rn.edited[r]
         /\ r \in HeldRefs(rn.state) \ Drafted(rn) =>
              \E t \in Plan(rn) : t.ref = r /\ t.kind = "retire"
<1>1. ASSUME r \in Drafted(rn) \cap Absent(rn)
      PROVE  \E t \in Plan(rn) : t.ref = r /\ t.kind = "create"
  <2> DEFINE t == [kind |-> "create", ref |-> r, parts |-> Parts]
  <2>1. t \in Creates(rn)
    BY <1>1 DEF Creates
  <2>2. QED
    BY <2>1 DEF Plan
<1>2. ASSUME r \in Drafted(rn) \ Absent(rn), NEW x \in Parts,
             x \in Changed(rn.state.held[r], rn.drafts[r], rn.edited[r])
      PROVE  \E t \in Plan(rn) : t.ref = r /\ t.kind = "write" /\ x \in t.parts
  <2> DEFINE changed == Changed(rn.state.held[r], rn.drafts[r], rn.edited[r])
  <2>1. changed \in SUBSET Parts
    BY DEF Changed, Differing, Run
  <2>2. PICK g \in Groups(changed) : x \in g /\ g \in SUBSET Parts
    <3> HIDE DEF changed
    <3>1. CASE x \in FieldParts
      BY <1>2, <2>1, <3>1 DEF Groups, changed, Parts
    <3>2. CASE x \in SectionParts /\ WholeContent
      BY <1>2, <2>1, <3>2 DEF Groups, changed, Parts
    <3>3. CASE x \in SectionParts /\ ~WholeContent
      <4>1. {x} \in {{y} : y \in changed \cap SectionParts} /\ x \in {x}
        BY <1>2, <3>3 DEF changed
      <4>2. QED
        BY <3>3, <4>1 DEF Groups, Parts
    <3>4. QED
      BY <3>1, <3>2, <3>3 DEF Parts
  <2> DEFINE t == [kind |-> "write", ref |-> r, parts |-> g]
  <2>3. t \in Writes(rn)
    BY <1>2, <2>2 DEF Writes
  <2>4. QED
    BY <2>2, <2>3 DEF Plan
<1>3. ASSUME r \in HeldRefs(rn.state) \ Drafted(rn)
      PROVE  \E t \in Plan(rn) : t.ref = r /\ t.kind = "retire"
  <2> DEFINE t == [kind |-> "retire", ref |-> r, parts |-> {}]
  <2>1. t \in Retirements(rn)
    BY <1>3 DEF Retirements
  <2>2. QED
    BY <2>1 DEF Plan
<1>4. QED
  BY <1>1, <1>2, <1>3 DEF Absent, Changed, Differing

\* Everything is planned.
LEMMA MakePlanPlanned ==
  ASSUME Inductive, AsPlanned, NEW p \in Procs, MakePlan(p)
  PROVE  AsPlanned'
<1> DEFINE rn == [run[p] EXCEPT !.todo = Plan(run[p])]
<1>1. /\ pc[p] = "decide" /\ Writer(pc[p], run[p]) /\ Goto(p, "apply", rn)
      /\ disk' = run[p].state /\ yaml' = yaml
  BY DEF MakePlan, MayWrite, Writer
<1>2. run[p] \in Run /\ ReadsOK(run[p]) /\ run[p].unread = {} /\ Named(run[p].drafts)
  BY <1>1, OfCommand DEF ShapeOK, ReadPlaces, AsPlanned, DoesAsPlanned
<1>3. /\ rn.state = run[p].state /\ rn.drafts = run[p].drafts
      /\ rn.todo = Plan(run[p])
  BY <1>2 DEF Run
<1> HIDE DEF rn
<1>4. ASSUME NEW r \in Refs PROVE RefAsPlanned("apply", rn, r)
  <2>1. StepsLeft("apply", rn) = Plan(run[p])
    BY <1>3 DEF StepsLeft, StepPlaces
  <2>2. QED
    BY <1>2, <1>3, <2>1, PlanIsWhole DEF RefAsPlanned, Due, DueTo, Drafted, HeldRefs, Absent
<1>5. DoesAsPlanned(disk', "apply", rn)
  BY <1>1, <1>2, <1>3, <1>4 DEF DoesAsPlanned
<1>6. QED
  BY <1>1, <1>5, PlannedStep

\* A step that is begun is still to be done.
LEMMA PlannedBegun ==
  ASSUME Inductive, AsPlanned, NEW p \in Procs, pc[p] = "apply", NEW s \in run[p].todo,
         s.ref \in Refs, NEW place \in {"creating", "writing", "retiring"}, NEW st,
         disk' = st, yaml' = yaml, Start(p, place, s, st),
         \A q \in Refs \ {s.ref} : st.held[q] = run[p].state.held[q],
         st.held[s.ref] # None <=> run[p].state.held[s.ref] # None,
         st.held[s.ref] # None =>
           st.held[s.ref].rendered = run[p].state.held[s.ref].rendered,
         place = "writing" => st.held[s.ref].writing.rendered = RenderedAfter(run[p], s)
  PROVE  AsPlanned'
<1> DEFINE rn == [run[p] EXCEPT !.state = st, !.step = s, !.todo = @ \ {s}]
<1>1. Goto(p, place, rn) /\ pc[p] \in ApplyPlaces /\ place \in ApplyPlaces
  BY DEF Start, ApplyPlaces, StepPlaces
<1>2. /\ rn.state = st /\ rn.step = s /\ rn.drafts = run[p].drafts
      /\ rn.todo = run[p].todo \ {s}
  BY OfCommand DEF Run
<1> HIDE DEF rn
<1>3. StepsLeft(place, rn) = StepsLeft(pc[p], run[p])
  BY <1>2 DEF StepsLeft, StepPlaces
<1>4. RefAsPlanned(pc[p], run[p], s.ref)
  BY <1>1 DEF AsPlanned, DoesAsPlanned
<1>5. RefAsPlanned(place, rn, s.ref)
  BY <1>2, <1>3, <1>4 DEF RefAsPlanned, Due, DueTo, Drafted, HeldRefs
<1>6. place = "writing" =>
        rn.state.held[rn.step.ref].writing.rendered = RenderedAfter(rn, rn.step)
  BY <1>2 DEF RenderedAfter, WithParts
<1>7. QED
  BY <1>1, <1>2, <1>3, <1>5, <1>6, PlannedApply

\* A step that is over is recorded, or its ref no longer held.
LEMMA PlannedDone ==
  ASSUME Inductive, AsPlanned, NEW p \in Procs, pc[p] \in ApplyPlaces, NEW s,
         s.ref \in Refs, NEW st, NEW text, StepDone(p, s, st, text), yaml' = yaml,
         pc[p] \in StepPlaces => run[p].step = s,
         \A q \in Refs \ {s.ref} : st.held[q] = run[p].state.held[q],
         run[p].drafts[s.ref] # None =>
           /\ st.held[s.ref] # None
           /\ \A x \in Parts :
                \/ st.held[s.ref].rendered[x] = run[p].drafts[s.ref][x]
                \/ /\ s.kind = "write" /\ x \notin s.parts
                   /\ run[p].state.held[s.ref] # None
                   /\ st.held[s.ref].rendered[x] = run[p].state.held[s.ref].rendered[x],
         run[p].drafts[s.ref] = None => st.held[s.ref] = None
  PROVE  AsPlanned'
<1> DEFINE rn == [run[p] EXCEPT !.state = st, !.todo = @ \ {s}, !.step = None,
                                !.id = None, !.read[s.ref] = text]
<1>1. Goto(p, "apply", rn) /\ disk' = st /\ "apply" \in ApplyPlaces \ StepPlaces
  BY DEF StepDone, ApplyPlaces, StepPlaces
<1>2. /\ rn.state = st /\ rn.drafts = run[p].drafts /\ rn.todo = run[p].todo \ {s}
  BY OfCommand DEF Run
<1> HIDE DEF rn
<1>3. \A t \in StepsLeft(pc[p], run[p]) : t # s => t \in StepsLeft("apply", rn)
  BY <1>1, <1>2 DEF StepsLeft
<1>4. RefAsPlanned(pc[p], run[p], s.ref)
  BY DEF AsPlanned, DoesAsPlanned
<1>5. RefAsPlanned("apply", rn, s.ref)
  BY <1>2, <1>3, <1>4 DEF RefAsPlanned, Due, DueTo, Drafted, HeldRefs
<1>6. QED
  BY <1>1, <1>2, <1>3, <1>5, PlannedApply

\* A step is begun with a note.
LEMMA StartsPlanned ==
  ASSUME Inductive, AsPlanned, NEW p \in Procs, NEW s \in run[p].todo,
         StartCreate(p, s) \/ StartWrite(p, s) \/ StartRetire(p, s)
  PROVE  AsPlanned'
<1>1. pc[p] = "apply" /\ pc[p] \in ApplyPlaces /\ yaml' = yaml
  BY DEF StartCreate, StartWrite, StartRetire, ApplyPlaces
<1>2. /\ s.ref \in Refs /\ s \in Step /\ Planned(run[p], s)
      /\ run[p].state \in PublishState
  BY <1>1, AtApply
<1>3. CASE StartCreate(p, s)
  <2> DEFINE st == [run[p].state EXCEPT !.pending = @ \cup {PendingOf(s)}]
  <2>1. disk' = st /\ Start(p, "creating", s, st)
    BY <1>3 DEF StartCreate
  <2>2. st.held = run[p].state.held
    BY <1>2 DEF PublishState
  <2> HIDE DEF st
  <2>3. QED
    BY <1>1, <1>2, <2>1, <2>2, PlannedBegun
<1>4. CASE StartWrite(p, s)
  <2> DEFINE note == [parts |-> s.parts, rendered |-> RenderedAfter(run[p], s)]
             item == [run[p].state.held[s.ref] EXCEPT !.writing = note]
             st == WithItem(run[p].state, s.ref, item)
  <2>1. disk' = st /\ Start(p, "writing", s, st) /\ s.kind = "write"
    BY <1>4, SMTT(20) DEF StartWrite
  <2>2. run[p].state.held[s.ref] \in Item /\ run[p].state.held[s.ref] # None
    BY <1>1, <1>2, <2>1, AtHeldItem
  <2>3. /\ item.rendered = run[p].state.held[s.ref].rendered /\ item.writing = note
        /\ note.rendered = RenderedAfter(run[p], s)
    BY <2>2 DEF Item
  <2>4. item # None
    <3>1. item \in [id : Ids, origin : Origin, rendered : Content, remote : Content,
                    shown : SUBSET (Parts \X Texts), writing : {note},
                    retiring : BOOLEAN]
      BY <2>2 DEF Item
    <3>2. note \in Writing
      BY <1>1, <1>2, <2>1, <2>2, AtHeldItem, WithPartsType, Zenon
      DEF Writing, RenderedAfter, Item
    <3>3. item \in Item
      BY <2>2, <3>2 DEF Item
    <3>4. QED
      BY <3>3, NoneAssumption
  <2>5. /\ st.held[s.ref] = item
        /\ \A q \in Refs \ {s.ref} : st.held[q] = run[p].state.held[q]
    BY <1>2 DEF WithItem, PublishState
  <2> HIDE DEF st, item, note
  <2>6. QED
    BY <1>1, <1>2, <2>1, <2>2, <2>3, <2>4, <2>5, PlannedBegun
<1>5. CASE StartRetire(p, s)
  <2> DEFINE item == [run[p].state.held[s.ref] EXCEPT !.retiring = TRUE]
             st == WithItem(run[p].state, s.ref, item)
  <2>1. disk' = st /\ Start(p, "retiring", s, st) /\ s.kind = "retire"
    BY <1>5 DEF StartRetire
  <2>2. run[p].state.held[s.ref] \in Item /\ run[p].state.held[s.ref] # None
    BY <1>1, <1>2, <2>1, AtHeldItem
  <2>3. item \in Item /\ item.rendered = run[p].state.held[s.ref].rendered
    BY <2>2 DEF Item
  <2>4. /\ st.held[s.ref] = item /\ item # None
        /\ \A q \in Refs \ {s.ref} : st.held[q] = run[p].state.held[q]
    BY <1>2, <2>3, NoneAssumption DEF WithItem, PublishState
  <2> HIDE DEF st, item
  <2>5. QED
    BY <1>1, <1>2, <2>1, <2>2, <2>3, <2>4, PlannedBegun
<1>6. QED
  BY <1>3, <1>4, <1>5

\* The item's id is known; the create is still to be finished.
LEMMA SentPlanned ==
  ASSUME Inductive, AsPlanned, NEW p \in Procs, SendCreate(p) \/ SendCreateInto(p)
  PROVE  AsPlanned'
<1>1. PICK i, ps : Goto(p, "finishing", Sent(run[p], i, ps))
  BY DEF SendCreate, SendCreateInto
<1>2. /\ pc[p] = "creating" /\ pc[p] \in ApplyPlaces /\ UNCHANGED <<yaml, disk>>
      /\ "finishing" \in ApplyPlaces \cap StepPlaces /\ pc[p] \in StepPlaces
  BY DEF SendCreate, SendCreateInto, ApplyPlaces, StepPlaces
<1> DEFINE rn == Sent(run[p], i, ps)
<1>3. run[p].step \in Step /\ run[p].step.ref \in Refs /\ run[p] \in Run
  BY <1>2, AtStep, OfCommand
<1>4. /\ rn.state = run[p].state /\ rn.drafts = run[p].drafts /\ rn.todo = run[p].todo
      /\ rn.step.ref = run[p].step.ref /\ rn.step.kind = run[p].step.kind
  BY <1>3 DEF Sent, Run, Step
<1> HIDE DEF rn
<1>5. run[p].step.kind = "create" /\ rn.step \in StepsLeft("finishing", rn)
  BY <1>2, AtCreate DEF StepsLeft
<1>6. disk = run[p].state /\ RefAsPlanned(pc[p], run[p], run[p].step.ref)
  BY <1>2, <1>3 DEF AsPlanned, DoesAsPlanned
<1>7. RefAsPlanned("finishing", rn, run[p].step.ref)
  <2>1. /\ DueTo("create", "finishing", rn, run[p].step.ref)
        /\ \A x : Due("finishing", rn, run[p].step.ref, x)
    BY <1>4, <1>5 DEF Due, DueTo
  <2>2. run[p].step.ref \in Drafted(rn)
    BY <1>2, <1>4, AtCreate, NoneAssumption DEF Drafted
  <2>3. QED
    BY <2>1, <2>2 DEF RefAsPlanned
<1>8. \A t \in StepsLeft(pc[p], run[p]) :
        t.ref # run[p].step.ref => t \in StepsLeft("finishing", rn)
  BY <1>2, <1>4 DEF StepsLeft
<1>9. QED
  BY <1>1, <1>2, <1>3, <1>4, <1>6, <1>7, <1>8, PlannedApply DEF rn

\* The item is recorded as the YAML has it.
LEMMA FinishedPlanned ==
  ASSUME Inductive, AsPlanned, NEW p \in Procs, FinishCreate(p)
  PROVE  AsPlanned'
<1> DEFINE s == run[p].step
           draft == run[p].drafts[s.ref]
           made == Write(items[run[p].id], s.ref, draft, s.parts)
           origin == IF IntoOf(s.ref) = None THEN "created" ELSE "adopted"
           item == Recorded(run[p].id, origin, draft, made.text)
           dropped == Drop(run[p].state, PendingOf(s))
           st == WithItem(dropped, s.ref, item)
<1>1. /\ pc[p] = "finishing" /\ StepDone(p, s, st, made.text) /\ yaml' = yaml
      /\ pc[p] \in ApplyPlaces \cap StepPlaces
  BY DEF FinishCreate, ApplyPlaces, StepPlaces
<1>2. /\ s \in Step /\ s.ref \in Refs /\ draft \in Content /\ draft # None
      /\ run[p].state \in PublishState /\ run[p].id \in Ids
      /\ items[run[p].id] \in RemoteItem
  BY <1>1, AtCreate, OfCommand, NoneAssumption, Zenon
     DEF ShapeOK, StepOK
<1>3. made.text \in Content
  BY <1>2, WriteKeepsLife DEF Step
<1> HIDE DEF made
<1>4. item \in Item /\ item.rendered = draft
  BY <1>2, <1>3, RecordedType DEF Recorded, Origin
<1> HIDE DEF item
<1>5. dropped \in PublishState /\ dropped.held = run[p].state.held
  BY <1>2, DropType
<1> HIDE DEF dropped
<1>6. /\ st.held[s.ref] = item /\ item # None
      /\ \A q \in Refs \ {s.ref} : st.held[q] = run[p].state.held[q]
  <2>1. s.ref \in Refs /\ item \in Item
    BY <1>2, <1>4
  <2> HIDE DEF s
  <2>2. /\ st.held[s.ref] = item
        /\ \A q \in Refs \ {s.ref} : st.held[q] = dropped.held[q]
    BY <1>5, <2>1, WithItemType
  <2>3. item # None
    BY <2>1, NoneAssumption
  <2>4. QED
    BY <1>5, <2>2, <2>3
<1> HIDE DEF st
<1>7. s = run[p].step /\ draft = run[p].drafts[s.ref]
  OBVIOUS
<1> HIDE DEF draft, s, origin
<1>8. QED
  BY <1>1, <1>2, <1>4, <1>6, <1>7, PlannedDone, SMTT(20)

\* Nothing had to be sent, and it is recorded as the YAML has it.
LEMMA SkippedPlanned ==
  ASSUME Inductive, AsPlanned, NEW p \in Procs, NEW s \in run[p].todo, SkipWrite(p, s)
  PROVE  AsPlanned'
<1> DEFINE old == run[p].state.held[s.ref]
           item == [old EXCEPT !.rendered = RenderedAfter(run[p], s)]
           st == WithItem(run[p].state, s.ref, item)
<1>1. /\ pc[p] = "apply" /\ pc[p] \in ApplyPlaces \ StepPlaces /\ yaml' = yaml
      /\ StepDone(p, s, st, run[p].read[s.ref]) /\ s.kind = "write"
  BY DEF SkipWrite, ApplyPlaces, StepPlaces
<1>2. /\ s.ref \in Refs /\ s \in Step /\ Planned(run[p], s)
      /\ run[p].state \in PublishState
  BY <1>1, AtApply
<1>3. /\ old \in Item /\ old # None /\ run[p].drafts[s.ref] \in Content
      /\ s.parts \in SUBSET Parts
  BY <1>1, <1>2, AtHeldItem
<1>4. /\ RenderedAfter(run[p], s) \in Content
      /\ \A x \in Parts : RenderedAfter(run[p], s)[x] =
           IF x \in s.parts THEN run[p].drafts[s.ref][x] ELSE old.rendered[x]
  BY <1>3, WithPartsType DEF RenderedAfter, WithParts, Item
<1>5. item \in Item /\ item.rendered = RenderedAfter(run[p], s)
  BY <1>3, <1>4 DEF Item
<1>6. /\ st.held[s.ref] = item /\ item # None
      /\ \A q \in Refs \ {s.ref} : st.held[q] = run[p].state.held[q]
  BY <1>2, <1>5, NoneAssumption DEF WithItem, PublishState
<1>7. run[p].drafts[s.ref] # None
  BY <1>3, NoneAssumption
<1> HIDE DEF st, item
<1>8. QED
  BY <1>1, <1>2, <1>3, <1>4, <1>5, <1>6, <1>7, PlannedDone

\* What the note of the write says is recorded.
LEMMA WrittenPlanned ==
  ASSUME Inductive, AsPlanned, NEW p \in Procs, SendWrite(p)
  PROVE  AsPlanned'
<1> DEFINE s == run[p].step
           old == run[p].state.held[s.ref]
           draft == run[p].drafts[s.ref]
           written == Write(items[old.id], s.ref, draft, s.parts)
           item == [old EXCEPT !.rendered = old.writing.rendered,
                      !.remote = WithParts(@, written.text, s.parts),
                      !.shown = {}, !.writing = None]
           st == WithItem(run[p].state, s.ref, item)
           text == WithParts(run[p].read[s.ref], written.text, s.parts)
<1>1. /\ pc[p] = "writing" /\ pc[p] \in ApplyPlaces \cap StepPlaces /\ yaml' = yaml
      /\ StepDone(p, s, st, text)
  BY Zenon DEF SendWrite, ApplyPlaces, StepPlaces
<1>2. /\ s \in Step /\ s.ref \in Refs /\ s.kind = "write" /\ s.parts \in SUBSET Parts
      /\ old \in Item /\ old # None /\ draft \in Content /\ old.writing \in Writing
      /\ run[p].state \in PublishState /\ items[old.id] \in RemoteItem
  BY <1>1, AtSend, AtStep, OfCommand, Zenon DEF StepOK
<1>3. old.writing.rendered = RenderedAfter(run[p], s)
  BY <1>1, Zenon DEF AsPlanned, DoesAsPlanned
<1>4. \A x \in Parts : RenderedAfter(run[p], s)[x] =
           IF x \in s.parts THEN draft[x] ELSE old.rendered[x]
  BY DEF RenderedAfter, WithParts
<1>5. item \in Item /\ item.rendered = old.writing.rendered
  <2>1. written.text \in Content
    BY <1>2, WriteKeepsLife, SMTT(20)
  <2>2. WithParts(old.remote, written.text, s.parts) \in Content
    BY <1>2, <2>1, WithPartsType DEF Item
  <2> HIDE DEF written
  <2>3. QED
    BY <1>2, <2>2, Zenon DEF Item, Writing
<1>6. /\ st.held[s.ref] = item /\ item # None
      /\ \A q \in Refs \ {s.ref} : st.held[q] = run[p].state.held[q]
  BY <1>2, <1>5, NoneAssumption, Zenon DEF WithItem, PublishState
<1>7. draft # None
  BY <1>2, NoneAssumption
<1> HIDE DEF st, item, text
<1>8. \A x \in Parts : item.rendered[x] = IF x \in s.parts THEN draft[x] ELSE old.rendered[x]
  BY <1>3, <1>4, <1>5
<1>9. QED
  BY <1>1, <1>2, <1>6, <1>7, <1>8, PlannedDone, Zenon

\* The record of what is retired goes.
LEMMA RetiredPlanned ==
  ASSUME Inductive, AsPlanned, NEW p \in Procs,
         (\E s \in run[p].todo : ForgetMissing(p, s)) \/ SendRetire(p)
  PROVE  AsPlanned'
<1>1. PICK s : /\ StepDone(p, s, WithItem(run[p].state, s.ref, None), None)
               /\ s.ref \in Refs /\ run[p].drafts[s.ref] = None
               /\ pc[p] \in ApplyPlaces /\ (pc[p] \in StepPlaces => s = run[p].step)
  <2>1. ASSUME NEW s \in run[p].todo, ForgetMissing(p, s)
        PROVE  /\ StepDone(p, s, WithItem(run[p].state, s.ref, None), None)
               /\ s.ref \in Refs /\ run[p].drafts[s.ref] = None
               /\ pc[p] \in ApplyPlaces /\ pc[p] \notin StepPlaces
    <3>1. /\ pc[p] = "apply" /\ s.kind = "retire"
          /\ StepDone(p, s, WithItem(run[p].state, s.ref, None), None)
      BY <2>1 DEF ForgetMissing
    <3>2. pc[p] \in ApplyPlaces /\ pc[p] \notin StepPlaces
      BY <3>1 DEF ApplyPlaces, StepPlaces
    <3>3. QED
      BY <3>1, <3>2, AtApply DEF Planned
  <2>2. ASSUME SendRetire(p)
        PROVE  LET s == run[p].step
               IN  /\ StepDone(p, s, WithItem(run[p].state, s.ref, None), None)
                   /\ s.ref \in Refs /\ run[p].drafts[s.ref] = None
                   /\ pc[p] \in ApplyPlaces
    BY <2>2, AtSend, Zenon DEF SendRetire
  <2>3. QED
    BY <2>1, <2>2
<1>2. yaml' = yaml /\ run[p].state \in PublishState
  BY OfCommand, Zenon DEF ForgetMissing, SendRetire
<1> DEFINE st == WithItem(run[p].state, s.ref, None)
<1>3. /\ st.held[s.ref] = None
      /\ \A q \in Refs \ {s.ref} : st.held[q] = run[p].state.held[q]
  BY <1>1, <1>2, WithItemType
<1> HIDE DEF st
<1>4. QED
  BY <1>1, <1>2, <1>3, PlannedDone DEF st

\* An apply that ends, well or not, leaves no command behind it.
LEMMA EndsPlanned ==
  ASSUME Inductive, AsPlanned, NEW p \in Procs,
         \/ RejectCreate(p) \/ LeaveUnfinished(p) \/ RejectWrite(p) \/ LoseWriteAnswer(p)
         \/ RejectRetire(p) \/ LoseRetireAnswer(p) \/ ReleaseLock(p)
  PROVE  AsPlanned'
<1>1. End(p) /\ yaml' = yaml /\ pc[p] \in ApplyPlaces
  BY Zenon DEF RejectCreate, LeaveUnfinished, RejectWrite, LoseWriteAnswer, RejectRetire,
         LoseRetireAnswer, ReleaseLock, Rejected, ApplyPlaces, StepPlaces
<1>2. QED
  BY <1>1, AtApply, PlannedEnd

\* Everything was done.
LEMMA EverythingAppliedPlanned ==
  ASSUME Inductive, AsPlanned, NEW p \in Procs, EverythingApplied(p)
  PROVE  AsPlanned'
<1>1. /\ pc[p] = "apply" /\ Goto(p, "applied", run[p]) /\ UNCHANGED <<yaml, disk>>
      /\ run[p].todo = {}
  BY DEF EverythingApplied
<1>2. /\ "apply" \in ApplyPlaces \ StepPlaces /\ "applied" \in ApplyPlaces \ StepPlaces
  BY DEF ApplyPlaces, StepPlaces
<1>3. DoesAsPlanned(disk, "apply", run[p])
  BY <1>1 DEF AsPlanned
<1>4. StepsLeft("applied", run[p]) = StepsLeft("apply", run[p])
  BY <1>2 DEF StepsLeft
<1>5. DoesAsPlanned(disk, "applied", run[p])
  BY <1>1, <1>2, <1>3, <1>4 DEF DoesAsPlanned, RefAsPlanned, Due, DueTo
<1>6. QED
  BY <1>1, <1>5, PlannedStep

\* Every step keeps AsPlanned.
LEMMA NextAsPlanned == ASSUME Inductive, AsPlanned, [Next]_vars PROVE AsPlanned'
<1>1. CASE UNCHANGED vars
  BY <1>1 DEF vars, AsPlanned
<1>2. CASE Person
  BY <1>2, PlannedPerson
<1>3. ASSUME NEW p \in Procs, (\E c \in Command : Prepare(p, c)) \/ Advance(p) \/ Stop(p)
      PROVE  AsPlanned'
  <2>1. CASE StartStep(p)
    BY <2>1, StartsPlanned, SkippedPlanned, RetiredPlanned DEF StartStep
  <2>2. CASE Send(p)
    BY <2>2, SentPlanned, FinishedPlanned, WrittenPlanned, RetiredPlanned, EndsPlanned
       DEF Send
  <2>3. QED
    BY <1>3, <2>1, <2>2, PlannedBefore, MakePlanPlanned, EverythingAppliedPlanned,
       EndsPlanned DEF Advance
<1>4. QED
  BY <1>1, <1>2, <1>3 DEF Next

\* Nothing is planned before a command starts.
LEMMA InitAsPlanned == ASSUME Init PROVE AsPlanned
BY IdleAsPlanned, YamlsNamed DEF Init, AsPlanned

\* At every moment of an apply, what of the YAML is not recorded is still to be done.
THEOREM PlansAreFollowed == Spec => []AsPlanned
<1>1. Init => AsPlanned
  BY InitAsPlanned
<1>2. Inductive /\ AsPlanned /\ [Next]_vars => AsPlanned'
  BY NextAsPlanned
<1>3. QED
  BY <1>1, <1>2, InductiveInvariant, PTL DEF Spec

\* When an apply ends well, nothing is pending and the state file records the YAML
\* that it planned from, ref by ref and part by part.
THEOREM AppliedIsRecorded == Spec => []RecordedAsPlanned
<1>1. Inductive /\ AsPlanned => RecordedAsPlanned
  <2>1. SUFFICES ASSUME Inductive, AsPlanned, NEW p \in Procs, pc[p] = "applied"
                 PROVE  /\ disk.pending = {}
                        /\ \A r \in Refs :
                             /\ run[p].drafts[r] = None <=> disk.held[r] = None
                             /\ run[p].drafts[r] # None =>
                                  disk.held[r].rendered = run[p].drafts[r]
    BY DEF RecordedAsPlanned
  <2>2. pc[p] \in ApplyPlaces \ StepPlaces
    BY <2>1 DEF ApplyPlaces, StepPlaces
  <2>3. /\ disk = run[p].state /\ disk \in PublishState /\ run[p] \in Run
        /\ \A r \in Refs : RefAsPlanned("applied", run[p], r)
    BY <2>1, <2>2, OfCommand DEF AsPlanned, DoesAsPlanned
  <2>4. disk.pending = {}
    BY <2>1, <2>2, <2>3, OfCommand DEF ShapeOK
  <2>5. StepsLeft("applied", run[p]) = {}
    BY <2>1, <2>2 DEF StepsLeft, AsPlanned, DoesAsPlanned
  <2>6. ASSUME NEW r \in Refs
        PROVE  /\ run[p].drafts[r] = None <=> disk.held[r] = None
               /\ run[p].drafts[r] # None => disk.held[r].rendered = run[p].drafts[r]
    <3>1. CASE run[p].drafts[r] = None
      BY <2>3, <2>5, <3>1 DEF RefAsPlanned, DueTo, HeldRefs, Drafted
    <3>2. CASE run[p].drafts[r] # None
      <4>1. /\ disk.held[r] # None
            /\ \A x \in Parts : disk.held[r].rendered[x] = run[p].drafts[r][x]
        BY <2>3, <2>5, <3>2 DEF RefAsPlanned, Due, DueTo, Drafted, HeldRefs
      <4>2. disk.held[r].rendered \in Content /\ run[p].drafts[r] \in Content
        BY <2>3, <3>2, <4>1 DEF PublishState, Item, Run, Drafts
      <4>3. QED
        BY <3>2, <4>1, <4>2 DEF Content
    <3>3. QED
      BY <3>1, <3>2
  <2>7. QED
    BY <2>4, <2>6
<1>2. QED
  BY <1>1, PlansAreFollowed, InductiveInvariant, PTL

------------------------------------------------------------------------------
(* The service formats what it is sent                                       *)

\* A content the way the service formats it stays so.
LEMMA ShownFormed ==
  ASSUME NEW c \in Content, NEW x \in Parts
  PROVE  /\ Form[Shown(c)[x]] = Shown(c)[x]
         /\ Form[Empty[x]] = Empty[x]
BY ConstantsAssumption, FormsAreStable DEF Shown, Empty, Content

\* An item holds texts the way the service formats them.
WellFormed(remote) == \A x \in Parts : Form[remote.text[x]] = remote.text[x]

\* A request leaves them so.
LEMMA RequestsFormed ==
  ASSUME NEW remote \in RemoteItem, WellFormed(remote)
  PROVE  /\ \A r \in Refs, draft \in Content, ps \in SUBSET Parts :
              WellFormed(Write(remote, r, draft, ps))
         /\ \A r : \A ps \in SUBSET Parts : WellFormed(Release(remote, ps, r))
         /\ WellFormed(Archive(remote))
<1>1. ASSUME NEW r \in Refs, NEW draft \in Content, NEW ps \in SUBSET Parts
      PROVE  WellFormed(Write(remote, r, draft, ps))
  <2>1. Write(remote, r, draft, ps).text = WithParts(remote.text, Shown(draft), ps)
    BY WriteKeepsLife
  <2>2. \A x \in Parts : Form[Shown(draft)[x]] = Shown(draft)[x]
    BY ShownFormed
  <2>3. QED
    BY <2>1, <2>2 DEF WithParts, WellFormed
<1>2. ASSUME NEW r, NEW ps \in SUBSET Parts
      PROVE  WellFormed(Release(remote, ps, r))
  <2>1. Release(remote, ps, r).text = WithParts(remote.text, Empty, ps)
    BY DEF Release, RemoteItem
  <2>2. \A x \in Parts : Form[Empty[x]] = Empty[x]
    BY ConstantsAssumption DEF Empty
  <2>3. QED
    BY <2>1, <2>2 DEF WithParts, WellFormed
<1>3. Archive(remote).text = remote.text
  BY DEF Archive, RemoteItem
<1>4. QED
  BY <1>1, <1>2, <1>3 DEF WellFormed

\* One item is written, and what is left in it is formatted.
LEMMA OneFormed ==
  ASSUME Inductive, Formed, NEW i, NEW item, i \in Ids => WellFormed(item),
         items' = [items EXCEPT ![i] = item] \/ items' = items
  PROVE  Formed'
BY DEF Formed, WellFormed, Inductive, TypeOK

\* What a person types the service formats.
LEMMA PersonFormed == ASSUME Inductive, Formed, Person PROVE Formed'
<1>0. items \in [Ids -> RemoteItem]
  BY DEF Inductive, TypeOK
<1>1. ASSUME NEW i \in Ids, EditItem(i)
      PROVE  Formed'
  <2>1. PICK x \in Parts, u \in Texts :
          items' = [items EXCEPT ![i].text[x] = Form[u], ![i].hand = @ \cup {x}]
    BY <1>1 DEF EditItem
  <2>2. /\ items'[i].text[x] = Form[u]
        /\ \A y \in Parts \ {x} : items'[i].text[y] = items[i].text[y]
        /\ \A j \in Ids \ {i} : items'[j] = items[j]
    BY <1>0, <2>1 DEF RemoteItem, Content
  <2>3. QED
    BY <2>2, FormsAreStable DEF Formed
<1>2. CASE \A j \in Ids : items'[j].text = items[j].text
  BY <1>2 DEF Formed
<1>3. ASSUME NEW i \in Ids, RemoveStamp(i) \/ DeleteItem(i)
      PROVE  \A j \in Ids : items'[j].text = items[j].text
  BY <1>0, <1>3 DEF RemoveStamp, DeleteItem, RemoteItem
<1>4. ASSUME ResolveCreate PROVE \A j \in Ids : items'[j].text = items[j].text
  <2>1. PICK d \in disk.pending :
          items' = [i \in Ids |->
               IF /\ items[i].made = d.ref
                  /\ ~\E r \in HeldRefs(disk) : disk.held[r].id = i
                  /\ There(i)
               THEN [items[i] EXCEPT !.life = "gone"] ELSE items[i]]
    BY <1>4 DEF ResolveCreate
  <2>2. QED
    BY <1>0, <2>1 DEF RemoteItem
<1>5. QED
  BY <1>1, <1>2, <1>3, <1>4 DEF Person, ReviseYaml

\* What a command does to the service is one request to one item.
LEMMA RequestsOnly ==
  ASSUME Inductive, NEW p \in Procs, items' # items,
         (\E c \in Command : Prepare(p, c)) \/ Advance(p) \/ Stop(p)
  PROVE  \/ \E d \in run[p].state.pending : Fill(p, d) \/ FillFails(p, d)
         \/ SendCreate(p) \/ SendCreateInto(p) \/ FinishCreate(p) \/ LeaveUnfinished(p)
         \/ SendWrite(p) \/ LoseWriteAnswer(p) \/ SendRetire(p) \/ LoseRetireAnswer(p)
<1>1. CASE (\E c \in Command : Prepare(p, c)) \/ Stop(p) \/ Begin(p)
  BY <1>1 DEF Prepare, Stop, Begin, LockHeldElsewhere, YamlChangedSincePlanned, TakeLock
<1>2. CASE Preflight(p)
  BY <1>2, Zenon DEF Preflight, Settle, FindLeftEmpty, RefuseInterruptedCreate, AllSettled,
       ReadItem, AllRead, ReadInto, RefuseInto
<1>3. CASE Decide(p)
  BY <1>3 DEF Decide, EndDryRun, RefuseMissing, RefuseEdited, RefuseUnseen,
       ShowDiff, ShowEdits, RefuseMissingInto, MakePlan
<1>4. CASE StartStep(p)
  BY <1>4 DEF StartStep, StartCreate, SkipWrite, StartWrite, ForgetMissing, StartRetire
<1>5. CASE Send(p)
  BY <1>5, Zenon DEF Send, RejectCreate, RejectWrite, RejectRetire
<1>6. CASE EverythingApplied(p) \/ ReleaseLock(p)
  BY <1>6 DEF EverythingApplied, ReleaseLock
<1>7. QED
  BY <1>1, <1>2, <1>3, <1>4, <1>5, <1>6 DEF Advance

\* What a command leaves in the service is formatted.
LEMMA CommandFormed ==
  ASSUME Inductive, Formed, NEW p \in Procs,
         (\E c \in Command : Prepare(p, c)) \/ Advance(p) \/ Stop(p)
  PROVE  Formed'
<1>0. \A i \in Ids : items[i] \in RemoteItem /\ WellFormed(items[i])
  BY DEF Inductive, TypeOK, Formed, WellFormed
<1>1. ASSUME NEW d \in run[p].state.pending, Fill(p, d) \/ FillFails(p, d)
      PROVE  Formed'
  <2>1. /\ d.ref \in Refs /\ run[p].id \in Ids /\ run[p].drafts[d.ref] \in Content
    BY <1>1, AtFill DEF Fill, FillFails
  <2>2. PICK ps \in SUBSET Parts :
          \/ items' = [items EXCEPT ![run[p].id] =
                         Write(items[run[p].id], d.ref, run[p].drafts[d.ref], ps)]
          \/ items' = items
    BY <1>1 DEF Fill, FillFails
  <2>3. QED
    BY <1>0, <2>1, <2>2, RequestsFormed, OneFormed
<1>2. CASE SendCreate(p) \/ SendCreateInto(p)
  <2>1. /\ run[p].step.ref \in Refs /\ run[p].drafts[run[p].step.ref] \in Content
    BY <1>2, AtCreate DEF SendCreate, SendCreateInto
  <2>2. CASE SendCreate(p)
    <3>1. PICK i \in Ids, ps \in FirstLanding :
            items' = [items EXCEPT ![i] = New(run[p].step.ref,
                                              run[p].drafts[run[p].step.ref], ps)]
      BY <2>2 DEF SendCreate
    <3>2. WellFormed(New(run[p].step.ref, run[p].drafts[run[p].step.ref], ps))
      BY <2>1, ShownFormed DEF New, WithParts, WellFormed
    <3>3. QED
      BY <3>1, <3>2, OneFormed
  <2>3. CASE SendCreateInto(p)
    <3> DEFINE released == Release(items[Into], SectionParts, None)
    <3>1. Into \in Ids
      BY <2>1, <2>3, ConstantsAssumption DEF SendCreateInto, IntoOf
    <3>2. PICK ps \in SUBSET SectionParts :
            items' = [items EXCEPT ![Into] = Write(released, run[p].step.ref,
                                      run[p].drafts[run[p].step.ref], ps)]
      BY <2>3 DEF SendCreateInto
    <3>3. SectionParts \in SUBSET Parts /\ ps \in SUBSET Parts
      BY DEF Parts
    <3>4. released \in RemoteItem /\ WellFormed(released)
      <4>1. items[Into] \in RemoteItem /\ WellFormed(items[Into])
        BY <1>0, <3>1
      <4>2. WellFormed(released)
        BY <3>3, <4>1, RequestsFormed
      <4>3. released \in RemoteItem
        BY <3>3, <4>1, ReleaseKeepsLife
      <4>4. QED
        BY <4>2, <4>3
    <3> HIDE DEF released
    <3>5. QED
      BY <2>1, <3>2, <3>3, <3>4, RequestsFormed, OneFormed
  <2>4. QED
    BY <1>2, <2>2, <2>3
<1>3. CASE FinishCreate(p) \/ LeaveUnfinished(p)
  <2>1. /\ run[p].step \in Step /\ run[p].step.ref \in Refs
        /\ run[p].drafts[run[p].step.ref] \in Content
        /\ pc[p] = "finishing"
    BY <1>3, AtCreate DEF FinishCreate, LeaveUnfinished
  <2>2. run[p].id \in Ids /\ run[p].step.parts \in SUBSET Parts
    BY <2>1, OfCommand DEF ShapeOK, StepOK, StepPlaces, Step
  <2> DEFINE W(ps) == Write(items[run[p].id], run[p].step.ref,
                            run[p].drafts[run[p].step.ref], ps)
  <2>3. PICK ps \in SUBSET Parts :
          \/ items' = [items EXCEPT ![run[p].id] = W(ps)]
          \/ items' = [items EXCEPT ![run[p].id] =
                         [W(ps) EXCEPT !.stamp = items[run[p].id].stamp]]
          \/ items' = items
    <3>1. CASE FinishCreate(p)
      BY <2>2, <3>1, Zenon DEF FinishCreate
    <3>2. CASE LeaveUnfinished(p)
      BY <2>2, <3>2 DEF LeaveUnfinished
    <3>3. QED
      BY <1>3, <3>1, <3>2
  <2>4. W(ps) \in RemoteItem /\ WellFormed(W(ps))
    BY <1>0, <2>1, <2>2, WriteKeepsLife, RequestsFormed
  <2>5. WellFormed([W(ps) EXCEPT !.stamp = items[run[p].id].stamp])
    BY <2>4, Zenon DEF RemoteItem, WellFormed
  <2> HIDE DEF W
  <2>6. QED
    BY <2>3, <2>4, <2>5, OneFormed, SMTT(20)
<1>4. CASE SendWrite(p) \/ LoseWriteAnswer(p)
  <2> DEFINE i == run[p].state.held[run[p].step.ref].id
  <2>1. /\ i \in Ids /\ run[p].step.ref \in Refs /\ run[p].step.parts \in SUBSET Parts
        /\ run[p].drafts[run[p].step.ref] \in Content
    BY <1>4, AtSend, Zenon DEF SendWrite, LoseWriteAnswer
  <2>2. PICK ps \in SUBSET Parts :
          \/ items' = [items EXCEPT ![i] = Write(items[i], run[p].step.ref,
                                              run[p].drafts[run[p].step.ref], ps)]
          \/ items' = items
    <3>1. CASE SendWrite(p)
      BY <2>1, <3>1, Zenon DEF SendWrite
    <3>2. CASE LoseWriteAnswer(p)
      BY <2>1, <3>2, Zenon DEF LoseWriteAnswer
    <3>3. QED
      BY <1>4, <3>1, <3>2
  <2>3. QED
    BY <1>0, <2>1, <2>2, RequestsFormed, OneFormed, SMTT(20)
<1>5. CASE SendRetire(p) \/ LoseRetireAnswer(p)
  <2> DEFINE item == run[p].state.held[run[p].step.ref]
             i == item.id
  <2>1. i \in Ids /\ ReleasedParts(item) \in SUBSET Parts
    BY <1>5, AtSend, Zenon DEF SendRetire, LoseRetireAnswer, ReleasedParts, Parts
  <2>2. PICK ps, stamp :
          /\ ps \in SUBSET Parts
          /\ \/ items' = [items EXCEPT ![i] = Archive(items[i])]
             \/ items' = [items EXCEPT ![i] = Release(items[i], ps, stamp)]
             \/ items' = items
    <3>1. CASE SendRetire(p)
      BY <2>1, <3>1, Zenon DEF SendRetire
    <3>2. CASE LoseRetireAnswer(p)
      BY <2>1, <3>2, Zenon DEF LoseRetireAnswer
    <3>3. QED
      BY <1>5, <3>1, <3>2, Zenon
  <2>3. QED
    BY <1>0, <2>1, <2>2, RequestsFormed, OneFormed, Zenon
<1>6. CASE items' = items
  BY <1>6 DEF Formed
<1>7. QED
  BY <1>1, <1>2, <1>3, <1>4, <1>5, <1>6, RequestsOnly

\* Every text in the service is one that the service gives back.
THEOREM TextsAreFormed == Spec => []Formed
<1>1. Init => Formed
  <2>1. \A x \in Parts : Form[Empty[x]] = Empty[x]
    BY ConstantsAssumption DEF Empty
  <2>2. Unborn.text = Empty /\ [Unborn EXCEPT !.life = "there"].text = Empty
    BY DEF Unborn
  <2>3. QED
    BY <2>1, <2>2 DEF Init, Formed
<1>2. Inductive /\ Formed /\ [Next]_vars => Formed'
  <2>1. Formed /\ UNCHANGED vars => Formed'
    BY DEF vars, Formed
  <2>2. QED
    BY <2>1, PersonFormed, CommandFormed DEF Next
<1>3. QED
  BY <1>1, <1>2, InductiveInvariant, PTL DEF Spec

==============================================================================
