------------------------------- MODULE Publish -------------------------------
(***************************************************************************)
(* `skaldr publish`, `skaldr publish --apply [--overwrite]` and            *)
(* `skaldr diff` on one document with one target: the publish state file   *)
(* kept beside the document, the items the document has in a service, and  *)
(* the person who edits both the YAML and the items.                       *)
(*                                                                         *)
(* A run reads everything before it writes anything, and saves the state   *)
(* file before and after each request it sends.  A request may land        *)
(* without its answer arriving, a run may stop between any two steps, and  *)
(* the person may act between any two steps.                               *)
(*                                                                         *)
(* An item's content is a function from its parts to texts.  FieldParts    *)
(* are the parts one request sets together (fields, icon, cover);          *)
(* SectionParts are the sections.  Form[t] is text t the way the service   *)
(* gives it back, so texts are compared in the service's own formatting.   *)
(***************************************************************************)
EXTENDS Naturals, FiniteSets

CONSTANTS
  Procs,          \* skaldr commands that may run at the same time
  Refs,           \* what the document publishes: itself and its split sections
  Document,       \* the document's own item, the parent of the others
  FieldParts,     \* the parts of an item one write_fields request carries
  SectionParts,   \* the sections of an item
  Texts,          \* what a part may hold
  Blank,          \* a part that is not there
  Unkeyed,        \* text the state file holds under no section of the YAML
  Form,           \* a text as the service formats it
  Ids,            \* the ids the service can give
  Into,           \* the page the target names with `page`, or None
  Yamls,          \* the drafts the person may put in the YAML
  FirstYaml,      \* the drafts of the first version of the YAML
  None,           \* no value
  WholeContent,   \* the connector writes "content", not "section" by section
  Keyed,          \* the service knows an item's sections without the state file
  Compared,       \* the parts the service replaces only if unchanged since read
  Templated,      \* a created page starts without content and without a stamp
  Fills,          \* the connector fills a page that a create left empty
  MaxEdits,       \* bound: what the person does to the items
  MaxRevisions,   \* bound: changes of the YAML
  MaxFaults       \* bound: stops, lost answers and rejected requests

Parts == FieldParts \cup SectionParts
Content == [Parts -> Texts]

\* A document that publishes nothing has no sections to publish either.
Drafts == {d \in [Refs -> Content \cup {None}] :
             d[Document] = None => \A r \in Refs : d[r] = None}

Origin == {"created", "adopted"}
Writing == [parts : SUBSET Parts, rendered : Content]

\* An item of the state file.  `shown` is the digest of the edits a diff last
\* showed ({}: none shown); which of archive and release `retiring` stands for
\* follows from the origin.
Item == [id : Ids, origin : Origin, rendered : Content, remote : Content,
         shown : SUBSET (Parts \X Texts), writing : Writing \cup {None},
         retiring : BOOLEAN]

Pending == [ref : Refs, into : Ids \cup {None}, id : Ids \cup {None}]

PublishState == [held : [Refs -> Item \cup {None}], pending : SUBSET Pending]

Step == [kind : {"create", "write", "retire"}, ref : Refs, parts : SUBSET Parts]

\* An item of the service.  `made` (the ref skaldr created it for) and `hand`
\* (the parts a person wrote last) are not known to the code: the properties
\* use them to tell skaldr's text from a person's.
RemoteItem == [life : {"unborn", "there", "gone"}, made : Refs \cup {None},
               stamp : Refs \cup {None}, text : Content, hand : SUBSET Parts]

Command == {"apply", "overwrite", "diff", "dry"}

Run == [cmd : Command, drafts : Drafts, state : PublishState,
        unread : SUBSET Refs, read : [Refs -> Content \cup {None}],
        edited : [Refs -> SUBSET Parts], missing : SUBSET Refs,
        todo : SUBSET Step, step : Step \cup {None}, id : Ids \cup {None}]

ASSUME ConstantsAssumption ==
  /\ Document \in Refs
  /\ Blank \in Texts /\ Unkeyed \in Texts
  /\ Form \in [Texts -> Texts]
  /\ Form[Blank] = Blank
  /\ Into \in Ids \cup {None}
  /\ Yamls \subseteq Drafts
  /\ FirstYaml \in Drafts
  /\ \A y \in Yamls \cup {FirstYaml}, r \in Refs :
       y[r] # None => \A x \in Parts : y[r][x] # Unkeyed
  /\ Compared \subseteq Parts
  /\ WholeContent \in BOOLEAN /\ Keyed \in BOOLEAN
  /\ Templated \in BOOLEAN /\ Fills \in BOOLEAN /\ (Templated => Fills)
  /\ MaxEdits \in Nat /\ MaxRevisions \in Nat /\ MaxFaults \in Nat

ASSUME NoneAssumption ==
  /\ None \notin Procs /\ None \notin Refs /\ None \notin Ids
  /\ None \notin Content /\ None \notin Item /\ None \notin Step
  /\ None \notin Writing

ASSUME FormsAreStable == \A t \in Texts : Form[Form[t]] = Form[t]

------------------------------------------------------------------------------
(* Contents and states                                                       *)

Empty == [x \in Parts |-> Blank]

\* comparable_draft
Shown(c) == [x \in Parts |-> Form[c[x]]]

Differing(a, b) == {x \in Parts : a[x] # b[x]}

WithParts(before, after, ps) ==
  [x \in Parts |-> IF x \in ps THEN after[x] ELSE before[x]]

NoState == [held |-> [r \in Refs |-> None], pending |-> {}]

WithItem(st, r, item) == [st EXCEPT !.held[r] = item]

Drop(st, d) == [st EXCEPT !.pending = @ \ {d}]

HeldRefs(st) == {r \in Refs : st.held[r] # None}

IdleRun ==
  [cmd |-> "apply", drafts |-> [r \in Refs |-> None], state |-> NoState,
   unread |-> {}, read |-> [r \in Refs |-> None],
   edited |-> [r \in Refs |-> {}], missing |-> {}, todo |-> {},
   step |-> None, id |-> None]

Unborn == [life |-> "unborn", made |-> None, stamp |-> None,
           text |-> Empty, hand |-> {}]

------------------------------------------------------------------------------
(* Reading back what an earlier run left                                     *)

\* Mutant: takes the draft as written, also when the YAML no longer holds it.
RenderedAsDrafted(text, d, keyed) == d

\* _rendered_where_it_matches, _adopted: what is recorded for an item an
\* interrupted create left.  Read without a layout, Notion and Slack give the
\* text of all sections under one key that no draft has.
RenderedWhereItMatches(text, d, keyed) ==
  [x \in Parts |->
     CASE x \in SectionParts /\ ~keyed -> IF text[x] = Blank THEN Blank ELSE Unkeyed
       [] (x \in FieldParts \/ keyed) /\ d # None -> IF Form[d[x]] = text[x] THEN d[x]
                                                                      ELSE text[x]
       [] OTHER -> text[x]]

Recorded(i, origin, rendered, text) ==
  [id |-> i, origin |-> origin, rendered |-> rendered, remote |-> text,
   shown |-> {}, writing |-> None, retiring |-> FALSE]

Adopted(d, i, text, draft, keyed) ==
  Recorded(i, IF d.into = None THEN "created" ELSE "adopted",
           RenderedWhereItMatches(text, draft, keyed), text)

PendingId(d) == IF d.into # None THEN d.into ELSE d.id

Settleable(st) == {d \in st.pending : PendingId(d) # None}

\* _left_empty_by_the_create
LeftEmpty(remote) ==
  remote.stamp = None /\ \A x \in SectionParts : remote.text[x] = Blank

\* _released
Released(remote, item) ==
  /\ LeftEmpty(remote)
  /\ \A x \in FieldParts : item.rendered[x] # Blank => remote.text[x] = Blank

\* _retired_already
RetiredAlready(item, remote) ==
  /\ item.retiring
  /\ \/ remote.life # "there"
     \/ item.origin = "adopted" /\ Released(remote, item)

\* _settled: which of the parts that differ are an earlier run's own write.
Landed(item, text, differ) ==
  IF item.writing = None THEN {}
  ELSE {x \in item.writing.parts \cap differ :
          text[x] = Form[item.writing.rendered[x]]}

Settled(item, text, differ) ==
  LET landed == Landed(item, text, differ)
      rendered == WithParts(item.rendered, item.writing.rendered, landed)
  IN  CASE item.writing = None -> item
        [] item.writing # None /\ differ \subseteq landed ->
             [item EXCEPT !.rendered = rendered, !.remote = text,
                          !.writing = None]
        [] OTHER ->
             [item EXCEPT !.rendered = rendered,
                          !.remote = WithParts(@, text, landed),
                          !.writing = IF landed = {} THEN @
                                      ELSE [@ EXCEPT !.parts = landed]]

\* What reading an item tells: it was retired already and is forgotten, it is
\* missing, it is still being retired, or what of it was edited.
Found(item, remote) ==
  LET differ == Differing(item.remote, remote.text)
  IN  CASE RetiredAlready(item, remote) ->
             [item |-> None, read |-> None, edited |-> {}]
        [] ~RetiredAlready(item, remote) /\ remote.life # "there" ->
             [item |-> item, read |-> None, edited |-> {}]
        [] ~RetiredAlready(item, remote) /\ remote.life = "there" /\ item.retiring ->
             [item |-> item, read |-> remote.text, edited |-> {}]
        [] OTHER ->
             [item |-> Settled(item, remote.text, differ), read |-> remote.text,
              edited |-> differ \ Landed(item, remote.text, differ)]

------------------------------------------------------------------------------
(* The plan                                                                  *)

Groups(changed) ==
  ({changed \cap FieldParts} \cup
   (IF WholeContent THEN {changed \cap SectionParts}
                    ELSE {{x} : x \in changed \cap SectionParts})) \ {{}}

Changed(item, draft, edited) == Differing(item.rendered, draft) \cup edited

Drafted(rn) == {r \in Refs : rn.drafts[r] # None}

Absent(rn) == {r \in Refs : rn.state.held[r] = None \/ r \in rn.missing}

\* _target_plan, item_steps, _removed_target_plan
Creates(rn) ==
  {[kind |-> "create", ref |-> r, parts |-> Parts] : r \in Drafted(rn) \cap Absent(rn)}

Writes(rn) ==
  {s \in [kind : {"write"}, ref : Drafted(rn) \ Absent(rn), parts : SUBSET Parts] :
     s.parts \in Groups(Changed(rn.state.held[s.ref], rn.drafts[s.ref],
                                rn.edited[s.ref]))}

Retirements(rn) ==
  {[kind |-> "retire", ref |-> r, parts |-> {}] :
     r \in HeldRefs(rn.state) \ Drafted(rn)}

\* plan_publish for the run: creates, then writes, then what is retired.
Plan(rn) == Creates(rn) \cup Writes(rn) \cup Retirements(rn)

Rank(s) == CASE s.kind = "create" -> IF s.ref = Document THEN 0 ELSE 1
             [] s.kind = "write" -> 2
             [] OTHER -> IF s.ref = Document THEN 4 ELSE 3

Before(t, s) ==
  \/ Rank(t) < Rank(s)
  \/ /\ t.kind = "write" /\ s.kind = "write" /\ t.ref = s.ref
     /\ t.parts \subseteq FieldParts /\ s.parts \subseteq SectionParts

------------------------------------------------------------------------------
(* Requests: what they leave in the service                                  *)

Write(remote, r, draft, ps) ==
  [remote EXCEPT !.text = WithParts(@, Shown(draft), ps),
                 !.hand = @ \ ps, !.stamp = r]

\* A release clears what skaldr wrote and takes the stamp off.
Release(remote, ps, stamp) ==
  [remote EXCEPT !.text = WithParts(@, Empty, ps),
                 !.hand = @ \ ps, !.stamp = stamp]

New(r, draft, ps) ==
  [life |-> "there", made |-> r, stamp |-> IF Templated THEN None ELSE r,
   text |-> WithParts(Empty, Shown(draft), ps), hand |-> {}]

\* The parts the request that creates an item carries.
FirstLanding ==
  IF Templated THEN {FieldParts}
  ELSE {FieldParts \cup ps : ps \in SUBSET SectionParts}

Archive(remote) == [remote EXCEPT !.life = "gone"]

ReleasedParts(item) ==
  SectionParts \cup {x \in FieldParts : item.rendered[x] # Blank}

SameSections(a, b) == \A x \in SectionParts : a[x] = b[x]

------------------------------------------------------------------------------
(* What a run finds and decides                                              *)

EditedRefs(rn) == {r \in Refs : rn.edited[r] # {}}

\* shown_token
Token(rn, r) == {<<x, rn.read[r][x]>> : x \in rn.edited[r]}

\* Mutant: an item of which any edit was shown counts as seen.
NeverShown(rn) == {r \in EditedRefs(rn) : rn.state.held[r].shown = {}}

Unseen(rn) == {r \in EditedRefs(rn) : rn.state.held[r].shown # Token(rn, r)}

\* Mutant: prints the edits and does not record that it did.
ShownUnrecorded(rn, rs) == rn.state

WithShown(rn, rs) ==
  [rn.state EXCEPT !.held = [r \in Refs |->
     IF r \in rs THEN [@[r] EXCEPT !.shown = Token(rn, r)] ELSE @[r]]]

MayWrite(rn) ==
  \/ rn.cmd = "apply" /\ rn.missing = {} /\ EditedRefs(rn) = {}
  \/ rn.cmd = "overwrite" /\ Unseen(rn) = {}

WritesInto(rn) ==
  /\ Into # None
  /\ rn.drafts[Document] # None
  /\ rn.state.held[Document] = None

IntoOf(r) == IF r = Document THEN Into ELSE None

PendingOf(s) == [ref |-> s.ref, into |-> IntoOf(s.ref), id |-> None]

\* _write_section: a section that is not there needs no request to be removed.
NothingToSend(rn, s) ==
  /\ ~WholeContent
  /\ s.parts \subseteq SectionParts
  /\ \A x \in s.parts : rn.drafts[s.ref][x] = Blank /\ rn.read[s.ref][x] = Blank

\* Mutant: the draft is written and the old one stays recorded.
RenderedBefore(rn, s) == rn.state.held[s.ref].rendered

RenderedAfter(rn, s) ==
  WithParts(rn.state.held[s.ref].rendered, rn.drafts[s.ref], s.parts)

------------------------------------------------------------------------------
(* The machine                                                               *)

VARIABLES
  yaml,       \* the drafts the YAML holds now
  items,      \* the service
  disk,       \* the publish state file
  lock,       \* who holds the state file's lock
  pc, run,    \* each command's place and what it holds in memory
  seen,       \* the edits of each item that the last diff of it showed
  edits, revisions, faults

vars == <<yaml, items, disk, lock, pc, run, seen, edits, revisions, faults>>

counters == <<edits, revisions, faults>>

There(i) == items[i].life = "there"

------------------------------------------------------------------------------
(* The person                                                                *)

ReviseYaml ==
  /\ revisions < MaxRevisions
  /\ \E y \in Yamls \ {yaml} : yaml' = y
  /\ revisions' = revisions + 1
  /\ UNCHANGED <<items, disk, lock, pc, run, seen, edits, faults>>

EditItem(i) ==
  /\ edits < MaxEdits
  /\ There(i)
  /\ \E x \in Parts, t \in {Form[u] : u \in Texts \ {Unkeyed}} :
       /\ t # items[i].text[x]
       /\ items' = [items EXCEPT ![i].text[x] = t, ![i].hand = @ \cup {x}]
  /\ edits' = edits + 1
  /\ UNCHANGED <<yaml, disk, lock, pc, run, seen, revisions, faults>>

RemoveStamp(i) ==
  /\ edits < MaxEdits
  /\ There(i) /\ items[i].stamp # None
  /\ items' = [items EXCEPT ![i].stamp = None]
  /\ edits' = edits + 1
  /\ UNCHANGED <<yaml, disk, lock, pc, run, seen, revisions, faults>>

DeleteItem(i) ==
  /\ edits < MaxEdits
  /\ There(i)
  /\ items' = [items EXCEPT ![i].life = "gone"]
  /\ edits' = edits + 1
  /\ UNCHANGED <<yaml, disk, lock, pc, run, seen, revisions, faults>>

\* What _interrupted_create_message asks for: look under the parent for the
\* item, archive it if it is there, and delete the entry of the state file.
ResolveCreate ==
  /\ lock = None
  /\ \E d \in disk.pending :
       /\ PendingId(d) = None
       /\ disk' = Drop(disk, d)
       /\ items' = [i \in Ids |->
            IF /\ items[i].made = d.ref
               /\ ~\E r \in HeldRefs(disk) : disk.held[r].id = i
               /\ There(i)
            THEN [items[i] EXCEPT !.life = "gone"] ELSE items[i]]
  /\ UNCHANGED <<yaml, lock, pc, run, seen, counters>>

------------------------------------------------------------------------------
(* A command starts, holds the lock, and ends                                *)

Goto(p, place, rn) ==
  /\ pc' = [pc EXCEPT ![p] = place]
  /\ run' = [run EXCEPT ![p] = rn]

End(p) ==
  /\ Goto(p, "idle", IdleRun)
  /\ lock' = IF lock = p THEN None ELSE lock

\* prepare_publish: a dry run goes on with the state it read, without the lock.
Prepare(p, c) ==
  /\ pc[p] = "idle"
  /\ Goto(p, IF c = "dry" THEN "settle" ELSE "prepared",
          [IdleRun EXCEPT !.cmd = c, !.drafts = yaml, !.state = disk])
  /\ UNCHANGED <<yaml, items, disk, lock, seen, counters>>

\* held_state_lock gives up at once when another command holds the lock.
LockHeldElsewhere(p) ==
  /\ pc[p] = "prepared"
  /\ lock # None
  /\ End(p)
  /\ UNCHANGED <<yaml, items, disk, seen, counters>>

\* _prepared_again_from_the_same_yaml: an apply whose YAML changed after it
\* was planned stops; what runs has read the state file again.
YamlChangedSincePlanned(p) ==
  /\ pc[p] = "prepared"
  /\ lock = None
  /\ run[p].cmd # "diff" /\ run[p].drafts # yaml
  /\ End(p)
  /\ UNCHANGED <<yaml, items, disk, seen, counters>>

\* Mutant: goes on although another command holds the lock.
BreakLock(p) ==
  /\ pc[p] = "prepared"
  /\ run[p].cmd = "diff" \/ run[p].drafts = yaml
  /\ lock' = p
  /\ Goto(p, IF run[p].cmd = "diff" THEN "read" ELSE "settle",
          [run[p] EXCEPT !.drafts = yaml, !.state = disk,
                         !.unread = HeldRefs(disk)])
  /\ UNCHANGED <<yaml, items, disk, seen, counters>>

TakeLock(p) ==
  /\ pc[p] = "prepared"
  /\ lock = None
  /\ run[p].cmd = "diff" \/ run[p].drafts = yaml
  /\ lock' = p
  /\ Goto(p, IF run[p].cmd = "diff" THEN "read" ELSE "settle",
          [run[p] EXCEPT !.drafts = yaml, !.state = disk,
                         !.unread = HeldRefs(disk)])
  /\ UNCHANGED <<yaml, items, disk, seen, counters>>

\* The process dies, is interrupted, or a read or request fails with nothing
\* landed and no word from the service: nothing more is saved.
Stop(p) ==
  /\ pc[p] # "idle"
  /\ faults < MaxFaults
  /\ faults' = faults + 1
  /\ End(p)
  /\ UNCHANGED <<yaml, items, disk, seen, edits, revisions>>

------------------------------------------------------------------------------
(* Preflight: settle_interrupted_creates                                     *)

\* Mutant: records the item and leaves the entry of its create.
SettleKeepingTheEntry(p, d) ==
  LET st == run[p].state
      i == PendingId(d)
      draft == run[p].drafts[d.ref]
  IN  /\ pc[p] = "settle"
      /\ d \in Settleable(st)
      /\ ~(There(i) /\ d.into = None /\ draft # None /\ Fills
           /\ LeftEmpty(items[i]))
      /\ Goto(p, "settle", [run[p] EXCEPT !.state =
           IF There(i) /\ (d.into = None \/ items[i].stamp # None)
           THEN WithItem(st, d.ref, Adopted(d, i, items[i].text, draft, Keyed))
           ELSE Drop(st, d)])
      /\ UNCHANGED <<yaml, items, disk, lock, seen, counters>>

\* A pending create whose item is known by id is read: gone, the entry is
\* dropped; skaldr's own or stamped, the item is recorded.
Settle(p, d) ==
  LET st == run[p].state
      i == PendingId(d)
      draft == run[p].drafts[d.ref]
  IN  /\ pc[p] = "settle"
      /\ d \in Settleable(st)
      /\ ~(There(i) /\ d.into = None /\ draft # None /\ Fills
           /\ LeftEmpty(items[i]))
      /\ Goto(p, "settle", [run[p] EXCEPT !.state =
           IF There(i) /\ (d.into = None \/ items[i].stamp # None)
           THEN WithItem(Drop(st, d), d.ref,
                         Adopted(d, i, items[i].text, draft, Keyed))
           ELSE Drop(st, d)])
      /\ UNCHANGED <<yaml, items, disk, lock, seen, counters>>

\* fill_a_page_left_empty: the page was read without content; the request
\* that fills it is sent in a later step.
FindLeftEmpty(p, d) ==
  LET i == PendingId(d)
  IN  /\ pc[p] = "settle"
      /\ d \in Settleable(run[p].state)
      /\ There(i) /\ d.into = None /\ run[p].drafts[d.ref] # None /\ Fills
      /\ LeftEmpty(items[i])
      /\ Goto(p, "fill", [run[p] EXCEPT !.id = i])
      /\ UNCHANGED <<yaml, items, disk, lock, seen, counters>>

Fill(p, d) ==
  LET st == run[p].state
      i == run[p].id
      draft == run[p].drafts[d.ref]
      filled == Write(items[i], d.ref, draft, Parts)
  IN  /\ pc[p] = "fill"
      /\ d \in st.pending /\ PendingId(d) = i
      /\ There(i) /\ \A x \in SectionParts : items[i].text[x] = Blank
      /\ items' = [items EXCEPT ![i] = filled]
      /\ Goto(p, "settle", [run[p] EXCEPT
           !.state = WithItem(Drop(st, d), d.ref,
                              Adopted(d, i, filled.text, draft, TRUE)),
           !.id = None])
      /\ UNCHANGED <<yaml, disk, lock, seen, counters>>

\* The page holds text by now, is gone, or only part of the fill lands.
FillFails(p, d) ==
  LET i == run[p].id
      draft == run[p].drafts[d.ref]
      refused == ~There(i) \/ \E x \in SectionParts : items[i].text[x] # Blank
  IN  /\ pc[p] = "fill"
      /\ d \in run[p].state.pending /\ PendingId(d) = i
      /\ \/ /\ refused
            /\ UNCHANGED <<items, faults>>
         \/ /\ ~refused /\ faults < MaxFaults
            /\ faults' = faults + 1
            /\ \E ps \in SUBSET Parts :
                 items' = [items EXCEPT ![i] = Write(@, d.ref, draft, ps)]
      /\ End(p)
      /\ UNCHANGED <<yaml, disk, seen, edits, revisions>>

\* _refuse_an_interrupted_create
RefuseInterruptedCreate(p) ==
  /\ pc[p] = "settle"
  /\ Settleable(run[p].state) = {}
  /\ run[p].state.pending # {}
  /\ End(p)
  /\ UNCHANGED <<yaml, items, disk, seen, counters>>

\* Mutant: goes on although a create was interrupted before its answer.
SettledButForUnknown(p) ==
  /\ pc[p] = "settle"
  /\ Settleable(run[p].state) = {}
  /\ Goto(p, "read", [run[p] EXCEPT !.unread = HeldRefs(run[p].state)])
  /\ UNCHANGED <<yaml, items, disk, lock, seen, counters>>

AllSettled(p) ==
  /\ pc[p] = "settle"
  /\ run[p].state.pending = {}
  /\ Goto(p, "read", [run[p] EXCEPT !.unread = HeldRefs(run[p].state)])
  /\ UNCHANGED <<yaml, items, disk, lock, seen, counters>>

------------------------------------------------------------------------------
(* Preflight: read_published, read_items_written_into                        *)

\* An item of the state file is read.  One the YAML holds again is no longer
\* being retired.
ReadItem(p, r) ==
  LET st == run[p].state
      old == st.held[r]
      item == IF run[p].drafts[r] # None THEN [old EXCEPT !.retiring = FALSE]
                                         ELSE old
      found == Found(item, items[item.id])
      missing == IF found.item # None /\ found.read = None
                 THEN run[p].missing \cup {r} ELSE run[p].missing
  IN  /\ pc[p] = "read"
      /\ r \in run[p].unread
      /\ Goto(p, "read", [run[p] EXCEPT
           !.unread = @ \ {r},
           !.state = WithItem(st, r, found.item),
           !.read[r] = found.read,
           !.missing = missing,
           !.edited[r] = found.edited])
      /\ UNCHANGED <<yaml, items, disk, lock, seen, counters>>

AllRead(p) ==
  /\ pc[p] = "read"
  /\ run[p].unread = {}
  /\ Goto(p, IF run[p].cmd # "diff" /\ WritesInto(run[p]) THEN "into"
                                                          ELSE "decide",
          run[p])
  /\ UNCHANGED <<yaml, items, disk, lock, seen, counters>>

\* _read_written_into: the page the target names is written into only when it
\* is there and carries a stamp, holds nothing, or holds this very draft (which
\* can be told only where the sections are known without a layout).
IntoIsFree(rn) ==
  /\ There(Into)
  /\ \/ items[Into].stamp # None
     \/ items[Into].text = Empty
     \/ Keyed /\ items[Into].text = Shown(rn.drafts[Document])

ReadInto(p) ==
  /\ pc[p] = "into"
  /\ IntoIsFree(run[p])
  /\ Goto(p, "decide", [run[p] EXCEPT !.read[Document] = items[Into].text])
  /\ UNCHANGED <<yaml, items, disk, lock, seen, counters>>

RefuseInto(p) ==
  /\ pc[p] = "into"
  /\ ~IntoIsFree(run[p])
  /\ End(p)
  /\ UNCHANGED <<yaml, items, disk, seen, counters>>

------------------------------------------------------------------------------
(* The decision: refuse, show, or write                                      *)

\* What a diff shows of an item replaces what an earlier one showed of it.
ShowsTo(rn, rs) ==
  LET ids == {rn.state.held[r].id : r \in rs}
  IN  seen' = {t \in seen : t[1] \notin ids}
              \cup UNION {{<<rn.state.held[r].id, x, rn.read[r][x]>> :
                              x \in rn.edited[r]} : r \in rs}

\* A dry run prints and saves nothing: what it printed does not count as shown.
EndDryRun(p) ==
  /\ pc[p] = "decide" /\ run[p].cmd = "dry"
  /\ End(p)
  /\ UNCHANGED <<yaml, items, disk, seen, counters>>

RefuseMissing(p) ==
  /\ pc[p] = "decide" /\ run[p].cmd = "apply"
  /\ run[p].missing # {}
  /\ End(p)
  /\ UNCHANGED <<yaml, items, disk, seen, counters>>

\* What a refused apply and a diff save: what is settled, and the digest of
\* each edit they print.
ShowEdits(p, rs) ==
  /\ disk' = WithShown(run[p], rs)
  /\ ShowsTo(run[p], rs)
  /\ End(p)
  /\ UNCHANGED <<yaml, items, counters>>

RefuseEdited(p) ==
  /\ pc[p] = "decide" /\ run[p].cmd = "apply"
  /\ run[p].missing = {}
  /\ EditedRefs(run[p]) # {}
  /\ ShowEdits(p, EditedRefs(run[p]))

RefuseUnseen(p) ==
  /\ pc[p] = "decide" /\ run[p].cmd = "overwrite"
  /\ Unseen(run[p]) # {}
  /\ ShowEdits(p, Unseen(run[p]))

ShowDiff(p) ==
  /\ pc[p] = "decide" /\ run[p].cmd = "diff"
  /\ ShowEdits(p, EditedRefs(run[p]))

\* A page the target names cannot be created again: the run stops after
\* saving what it settled.
RefuseMissingInto(p) ==
  /\ pc[p] = "decide" /\ MayWrite(run[p])
  /\ Into # None /\ Document \in run[p].missing /\ run[p].drafts[Document] # None
  /\ disk' = run[p].state
  /\ End(p)
  /\ UNCHANGED <<yaml, items, seen, counters>>

MakePlan(p) ==
  /\ pc[p] = "decide" /\ MayWrite(run[p])
  /\ ~(Into # None /\ Document \in run[p].missing
       /\ run[p].drafts[Document] # None)
  /\ disk' = run[p].state
  /\ Goto(p, "apply", [run[p] EXCEPT !.todo = Plan(run[p])])
  /\ UNCHANGED <<yaml, items, lock, seen, counters>>

------------------------------------------------------------------------------
(* The applier: every step notes what it sends, sends it, and records it     *)

Start(p, place, s, st) ==
  Goto(p, place, [run[p] EXCEPT !.state = st, !.step = s, !.todo = @ \ {s}])

\* The step is over: its outcome is saved, and the copy read is brought up to
\* date with what the service answered.
StepDone(p, s, st, text) ==
  /\ disk' = st
  /\ Goto(p, "apply", [run[p] EXCEPT !.state = st, !.todo = @ \ {s},
                                     !.step = None, !.id = None,
                                     !.read[s.ref] = text])

\* The service rejected the request: the note is taken back and the run ends.
Rejected(p, st) ==
  /\ disk' = st
  /\ End(p)

Ready(p, s) == s \in run[p].todo /\ ~\E t \in run[p].todo : Before(t, s)

\* Mutant: creates without a word in the state file.
StartCreateUnnoted(p, s) ==
  LET st == [run[p].state EXCEPT !.pending = @ \cup {PendingOf(s)}]
  IN  /\ pc[p] = "apply" /\ Ready(p, s) /\ s.kind = "create"
      /\ Start(p, "creating", s, st)
      /\ UNCHANGED <<yaml, items, disk, lock, seen, counters>>

StartCreate(p, s) ==
  LET st == [run[p].state EXCEPT !.pending = @ \cup {PendingOf(s)}]
  IN  /\ pc[p] = "apply" /\ Ready(p, s) /\ s.kind = "create"
      /\ disk' = st
      /\ Start(p, "creating", s, st)
      /\ UNCHANGED <<yaml, items, lock, seen, counters>>

\* Mutant: what the first request did not carry is taken for sent.
SentWhole(rn, i, ps) == [rn EXCEPT !.id = i, !.step.parts = {}]

\* The item's id is known; what its first request did not carry is still to do.
Sent(rn, i, ps) == [rn EXCEPT !.id = i, !.step.parts = Parts \ ps]

\* A create whose answer never arrives is this step followed by Stop.
SendCreate(p) ==
  LET s == run[p].step
  IN  /\ pc[p] = "creating" /\ IntoOf(s.ref) = None
      /\ \E i \in Ids, ps \in FirstLanding :
           /\ items[i].life = "unborn"
           /\ items' = [items EXCEPT ![i] = New(s.ref, run[p].drafts[s.ref], ps)]
           /\ Goto(p, "finishing", Sent(run[p], i, ps))
      /\ UNCHANGED <<yaml, disk, lock, seen, counters>>

\* _create_into: the first request replaces the page's content by the stamp and
\* the sections that fit it, if the page's sections are still those that were read.
SendCreateInto(p) ==
  LET s == run[p].step
  IN  /\ pc[p] = "creating" /\ IntoOf(s.ref) # None
      /\ There(Into) /\ SameSections(items[Into].text, run[p].read[s.ref])
      /\ \E ps \in SUBSET SectionParts :
           /\ items' = [items EXCEPT ![Into] =
                          Write(Release(@, SectionParts, None), s.ref,
                                run[p].drafts[s.ref], ps)]
           /\ Goto(p, "finishing", Sent(run[p], Into, ps))
      /\ UNCHANGED <<yaml, disk, lock, seen, counters>>

\* The page changed since it was read; or, as a bound, the service has no id
\* left to give.
CannotCreate(p, s) ==
  IF IntoOf(s.ref) = None THEN \A i \in Ids : items[i].life # "unborn"
  ELSE ~There(Into) \/ ~SameSections(items[Into].text, run[p].read[s.ref])

RejectCreate(p) ==
  LET s == run[p].step
  IN  /\ pc[p] = "creating"
      /\ \/ CannotCreate(p, s) /\ UNCHANGED faults
         \/ ~CannotCreate(p, s) /\ faults < MaxFaults /\ faults' = faults + 1
      /\ Rejected(p, Drop(run[p].state, PendingOf(s)))
      /\ UNCHANGED <<yaml, items, seen, edits, revisions>>

\* _finish_create: what the first request did not carry (the step's parts) is
\* written, then the item is read back and recorded.
FinishCreate(p) ==
  LET s == run[p].step
      i == run[p].id
      draft == run[p].drafts[s.ref]
      made == Write(items[i], s.ref, draft, s.parts)
      origin == IF IntoOf(s.ref) = None THEN "created" ELSE "adopted"
  IN  /\ pc[p] = "finishing"
      /\ There(i)
      /\ items' = [items EXCEPT ![i] = made]
      /\ StepDone(p, s,
                  WithItem(Drop(run[p].state, PendingOf(s)), s.ref,
                           Recorded(i, origin, draft, made.text)),
                  made.text)
      /\ UNCHANGED <<yaml, lock, seen, counters>>

\* finished_after_a_create notes the id of the item it could not finish;
\* finished_after_a_change leaves the entry as it is.
LeaveUnfinished(p) ==
  LET s == run[p].step
      i == run[p].id
      draft == run[p].drafts[s.ref]
      noted == [PendingOf(s) EXCEPT !.id = i]
      st == run[p].state
  IN  /\ pc[p] = "finishing"
      /\ IF There(i)
         THEN /\ faults < MaxFaults
              /\ faults' = faults + 1
              /\ \E ps \in SUBSET s.parts :
                   items' = [items EXCEPT ![i] =
                     IF ps \cap SectionParts = {}
                     THEN [Write(@, s.ref, draft, ps) EXCEPT !.stamp = items[i].stamp]
                     ELSE Write(@, s.ref, draft, ps)]
         ELSE UNCHANGED <<items, faults>>
      /\ disk' = IF IntoOf(s.ref) # None THEN disk
                 ELSE [st EXCEPT !.pending = (@ \ {PendingOf(s)}) \cup {noted}]
      /\ End(p)
      /\ UNCHANGED <<yaml, seen, edits, revisions>>

SkipWrite(p, s) ==
  LET item == run[p].state.held[s.ref]
  IN  /\ pc[p] = "apply" /\ Ready(p, s) /\ s.kind = "write"
      /\ NothingToSend(run[p], s)
      /\ StepDone(p, s,
                  WithItem(run[p].state, s.ref,
                           [item EXCEPT !.rendered = RenderedAfter(run[p], s)]),
                  run[p].read[s.ref])
      /\ UNCHANGED <<yaml, items, lock, seen, counters>>

\* Mutant: writes without a word in the state file.
StartWriteUnnoted(p, s) ==
  LET rn == run[p]
      st == WithItem(rn.state, s.ref,
              [rn.state.held[s.ref] EXCEPT
                 !.writing = [parts |-> s.parts, rendered |-> RenderedAfter(rn, s)]])
  IN  /\ pc[p] = "apply" /\ Ready(p, s) /\ s.kind = "write"
      /\ ~NothingToSend(rn, s)
      /\ Start(p, "writing", s, st)
      /\ UNCHANGED <<yaml, items, disk, lock, seen, counters>>

StartWrite(p, s) ==
  LET rn == run[p]
      st == WithItem(rn.state, s.ref,
              [rn.state.held[s.ref] EXCEPT
                 !.writing = [parts |-> s.parts, rendered |-> RenderedAfter(rn, s)]])
  IN  /\ pc[p] = "apply" /\ Ready(p, s) /\ s.kind = "write"
      /\ ~NothingToSend(rn, s)
      /\ disk' = st
      /\ Start(p, "writing", s, st)
      /\ UNCHANGED <<yaml, items, lock, seen, counters>>

\* refuse_a_change_since_the_read, and the old text an update quotes.
ChangedSinceRead(p, i, s) ==
  /\ s.parts \cap Compared # {}
  /\ \E x \in Compared : items[i].text[x] # run[p].read[s.ref][x]

SendWrite(p) ==
  LET s == run[p].step
      item == run[p].state.held[s.ref]
      draft == run[p].drafts[s.ref]
      written == Write(items[item.id], s.ref, draft, s.parts)
  IN  /\ pc[p] = "writing"
      /\ There(item.id) /\ ~ChangedSinceRead(p, item.id, s)
      /\ items' = [items EXCEPT ![item.id] = written]
      /\ StepDone(p, s,
                  WithItem(run[p].state, s.ref,
                    [item EXCEPT !.rendered = item.writing.rendered,
                                 !.remote = WithParts(@, written.text, s.parts),
                                 !.shown = {}, !.writing = None]),
                  WithParts(run[p].read[s.ref], written.text, s.parts))
      /\ UNCHANGED <<yaml, lock, seen, counters>>

RejectWrite(p) ==
  LET s == run[p].step
      item == run[p].state.held[s.ref]
      changed == ~There(item.id) \/ ChangedSinceRead(p, item.id, s)
  IN  /\ pc[p] = "writing"
      /\ \/ changed /\ UNCHANGED faults
         \/ ~changed /\ faults < MaxFaults /\ faults' = faults + 1
      /\ Rejected(p, WithItem(run[p].state, s.ref, [item EXCEPT !.writing = None]))
      /\ UNCHANGED <<yaml, items, seen, edits, revisions>>

\* Some of the parts land and the answer never arrives, or the item is gone:
\* the note stays.
LoseWriteAnswer(p) ==
  LET s == run[p].step
      i == run[p].state.held[s.ref].id
      draft == run[p].drafts[s.ref]
  IN  /\ pc[p] = "writing"
      /\ \/ /\ There(i) /\ ~ChangedSinceRead(p, i, s)
            /\ faults < MaxFaults /\ faults' = faults + 1
            /\ \E ps \in SUBSET s.parts \ {{}} :
                 items' = [items EXCEPT ![i] = Write(@, s.ref, draft, ps)]
         \/ ~There(i) /\ UNCHANGED <<items, faults>>
      /\ End(p)
      /\ UNCHANGED <<yaml, disk, seen, edits, revisions>>

\* _retired for an item that is no longer in the service.
ForgetMissing(p, s) ==
  /\ pc[p] = "apply" /\ Ready(p, s) /\ s.kind = "retire"
  /\ run[p].read[s.ref] = None
  /\ StepDone(p, s, WithItem(run[p].state, s.ref, None), None)
  /\ UNCHANGED <<yaml, items, lock, seen, counters>>

StartRetire(p, s) ==
  LET st == WithItem(run[p].state, s.ref,
                     [run[p].state.held[s.ref] EXCEPT !.retiring = TRUE])
  IN  /\ pc[p] = "apply" /\ Ready(p, s) /\ s.kind = "retire"
      /\ run[p].read[s.ref] # None
      /\ disk' = st
      /\ Start(p, "retiring", s, st)
      /\ UNCHANGED <<yaml, items, lock, seen, counters>>

ReleaseConflict(p, item, s) ==
  /\ item.origin = "adopted"
  /\ ~There(item.id) \/ ~SameSections(items[item.id].text, run[p].read[s.ref])

SendRetire(p) ==
  LET s == run[p].step
      item == run[p].state.held[s.ref]
  IN  /\ pc[p] = "retiring"
      /\ ~ReleaseConflict(p, item, s)
      /\ items' = [items EXCEPT ![item.id] =
           IF item.origin = "created" THEN Archive(@)
           ELSE Release(@, ReleasedParts(item), None)]
      /\ StepDone(p, s, WithItem(run[p].state, s.ref, None), None)
      /\ UNCHANGED <<yaml, lock, seen, counters>>

\* The page changed since it was read, or the service says no.
RejectRetire(p) ==
  LET s == run[p].step
      item == run[p].state.held[s.ref]
      conflict == ReleaseConflict(p, item, s)
  IN  /\ pc[p] = "retiring"
      /\ \/ conflict /\ UNCHANGED faults
         \/ ~conflict /\ faults < MaxFaults /\ faults' = faults + 1
      /\ Rejected(p, WithItem(run[p].state, s.ref, [item EXCEPT !.retiring = FALSE]))
      /\ UNCHANGED <<yaml, items, seen, edits, revisions>>

\* Only part of a release lands, the answer never arrives, or the page is gone:
\* the note stays.
LoseRetireAnswer(p) ==
  LET s == run[p].step
      item == run[p].state.held[s.ref]
  IN  /\ pc[p] = "retiring"
      /\ \/ /\ item.origin = "created"
            /\ faults < MaxFaults /\ faults' = faults + 1
            /\ items' = [items EXCEPT ![item.id] = Archive(@)]
         \/ /\ item.origin = "adopted" /\ ~ReleaseConflict(p, item, s)
            /\ faults < MaxFaults /\ faults' = faults + 1
            /\ \E ps \in SUBSET ReleasedParts(item),
                  stamp \in {items[item.id].stamp, None} :
                 items' = [items EXCEPT ![item.id] = Release(@, ps, stamp)]
         \/ /\ item.origin = "adopted" /\ ~There(item.id)
            /\ UNCHANGED <<items, faults>>
      /\ End(p)
      /\ UNCHANGED <<yaml, disk, seen, edits, revisions>>

EverythingApplied(p) ==
  /\ pc[p] = "apply"
  /\ run[p].todo = {}
  /\ Goto(p, "applied", run[p])
  /\ UNCHANGED <<yaml, items, disk, lock, seen, counters>>

ReleaseLock(p) ==
  /\ pc[p] = "applied"
  /\ End(p)
  /\ UNCHANGED <<yaml, items, disk, seen, counters>>

------------------------------------------------------------------------------
Places == {"idle", "prepared", "settle", "fill", "read", "into", "decide",
           "apply", "creating", "finishing", "writing", "retiring", "applied"}

Init ==
  /\ yaml = FirstYaml
  /\ items = [i \in Ids |-> IF i = Into THEN [Unborn EXCEPT !.life = "there"]
                                        ELSE Unborn]
  /\ disk = NoState
  /\ lock = None
  /\ pc = [p \in Procs |-> "idle"]
  /\ run = [p \in Procs |-> IdleRun]
  /\ seen = {}
  /\ edits = 0 /\ revisions = 0 /\ faults = 0

Person ==
  \/ ReviseYaml
  \/ \E i \in Ids : EditItem(i) \/ RemoveStamp(i) \/ DeleteItem(i)
  \/ ResolveCreate

Begin(p) ==
  LockHeldElsewhere(p) \/ YamlChangedSincePlanned(p) \/ TakeLock(p)

Preflight(p) ==
  \/ \E d \in run[p].state.pending :
       Settle(p, d) \/ FindLeftEmpty(p, d) \/ Fill(p, d) \/ FillFails(p, d)
  \/ RefuseInterruptedCreate(p) \/ AllSettled(p)
  \/ \E r \in Refs : ReadItem(p, r)
  \/ AllRead(p) \/ ReadInto(p) \/ RefuseInto(p)

Decide(p) ==
  \/ EndDryRun(p) \/ RefuseMissing(p) \/ RefuseEdited(p) \/ RefuseUnseen(p)
  \/ ShowDiff(p) \/ RefuseMissingInto(p) \/ MakePlan(p)

StartStep(p) ==
  \E s \in run[p].todo :
    \/ StartCreate(p, s) \/ SkipWrite(p, s) \/ StartWrite(p, s)
    \/ ForgetMissing(p, s) \/ StartRetire(p, s)

Send(p) ==
  \/ SendCreate(p) \/ SendCreateInto(p) \/ RejectCreate(p)
  \/ FinishCreate(p) \/ LeaveUnfinished(p)
  \/ SendWrite(p) \/ RejectWrite(p) \/ LoseWriteAnswer(p)
  \/ SendRetire(p) \/ RejectRetire(p) \/ LoseRetireAnswer(p)

Advance(p) ==
  \/ Begin(p) \/ Preflight(p) \/ Decide(p) \/ StartStep(p) \/ Send(p)
  \/ EverythingApplied(p) \/ ReleaseLock(p)

Next ==
  \/ Person
  \/ \E p \in Procs :
       (\E c \in Command : Prepare(p, c)) \/ Advance(p) \/ Stop(p)

Spec == Init /\ [][Next]_vars

==============================================================================
