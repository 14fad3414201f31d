------------------------------ MODULE PlanOrder ------------------------------
(***************************************************************************)
(* One document with several targets, each a document item and the items   *)
(* split off it: the order in which a run creates and retires them, which  *)
(* items it links with which, and what the state file holds when a run     *)
(* stops and another one starts.                                           *)
(*                                                                         *)
(* What is written into an item that is already there is SectionOrder's,   *)
(* and the edits and stamps of one item are Publish's: here an item has a  *)
(* place, a life and its links, set at once: module JiraLinks has the      *)
(* requests of one item's.  An item that lies under another goes with it.  *)
(***************************************************************************)
EXTENDS Naturals, Sequences, SequencesExt, FiniteSets, FiniteSetsExt

CONSTANTS
  Labels,      \* the targets, each named by its place
  Sections,
  Ids,         \* the items of the services
  Service,     \* the service of each target
  LinksSections, \* the services whose documents link to their own sections
  Existing,    \* the page each target's document is written into, or None
  Yamls,       \* the publish blocks: sequences of [label, split]
  Doc, None,
  MaxRevisions, MaxDeletes, MaxFaults

\* Every target is drafted once, and every section split off it once.
PlanAssumption ==
  /\ IsFiniteSet(Labels) /\ IsFiniteSet(Sections)
  /\ Doc \notin Sections /\ None \notin Ids \cup (Labels \X ({Doc} \cup Sections))
  /\ Existing \in [Labels -> Ids \cup {None}]
  /\ \A y \in Yamls :
       /\ y \in Seq([label : Labels, split : Seq(Sections)])
       /\ \A j, k \in 1..Len(y) : y[j].label = y[k].label => j = k
       /\ \A k \in 1..Len(y) : IsInjective(y[k].split)

\* No two targets name one page: document.py, _validate_distinct_locations (which
\* would take a canvas named with and without its workspace for two places).
PagesAreApart == \A l, m \in Labels : Existing[l] # None /\ Existing[l] = Existing[m] => l = m

VARIABLES
  yaml,        \* the publish block
  items,       \* the services
  held,        \* the state file: the item of each ref it holds, and its links
  pending,     \* the state file: the creates that were noted and not recorded
  pc,
  run,         \* [drafts, read, todo]: what the run planned from
  revisions, deletes, faults

vars == <<yaml, items, held, pending, pc, run, revisions, deletes, faults>>
bounds == <<revisions, deletes, faults>>

Refs == Labels \X ({Doc} \cup Sections)
NoItem == [life |-> "none", of |-> None, under |-> None, links |-> {}]
There(i) == items[i].life = "there"
HeldRefs == DOMAIN held

\* TargetDraft.items: the document, then its sections.
ItemsOf(d) == <<<<d.label, Doc>>>> \o [k \in 1..Len(d.split) |-> <<d.label, d.split[k]>>]

Drafted(drafts) == UNION {ToSet(ItemsOf(drafts[k])) : k \in 1..Len(drafts)}
LabelsOf(drafts) == {drafts[k].label : k \in 1..Len(drafts)}

With(f, r, v) == [q \in DOMAIN f \cup {r} |-> IF q = r THEN v ELSE f[q]]
Without(f, r) == [q \in DOMAIN f \ {r} |-> f[q]]

Init ==
  /\ yaml \in Yamls
  /\ items = [i \in Ids |-> IF \E l \in Labels : Existing[l] = i
                            THEN [NoItem EXCEPT !.life = "there"] ELSE NoItem]
  /\ held = <<>> /\ pending = {}
  /\ pc = "idle" /\ run = [drafts |-> <<>>, read |-> {}, todo |-> <<>>]
  /\ revisions = 0 /\ deletes = 0 /\ faults = 0

------------------------------------------------------------------------------
(* The person                                                                *)

Revise ==
  /\ revisions < MaxRevisions
  /\ \E y \in Yamls \ {yaml} : yaml' = y
  /\ revisions' = revisions + 1
  /\ UNCHANGED <<items, held, pending, pc, run, deletes, faults>>

\* The items with `i` and everything under it gone.
Gone(i) == [j \in Ids |-> IF (j = i \/ items[j].under = i) /\ There(j)
                          THEN [items[j] EXCEPT !.life = "gone"] ELSE items[j]]

Delete(i) ==
  /\ deletes < MaxDeletes
  /\ There(i)
  /\ items' = Gone(i)
  /\ deletes' = deletes + 1
  /\ UNCHANGED <<yaml, held, pending, pc, run, revisions, faults>>

\* _interrupted_create_message: look under the parent, archive what is there
\* and delete the entry.
Resolve ==
  /\ pc = "idle"
  /\ \E p \in pending :
       /\ pending' = pending \ {p}
       /\ items' = [i \in Ids |->
            IF /\ There(i) /\ items[i].of = p.ref
               /\ ~\E r \in HeldRefs : held[r].id = i
            THEN [items[i] EXCEPT !.life = "gone"] ELSE items[i]]
  /\ UNCHANGED <<yaml, held, pc, run, bounds>>

------------------------------------------------------------------------------
(* The plan                                                                  *)

Create(r, into) == [do |-> "create", ref |-> r, into |-> into]
Retire(r) == [do |-> "retire", ref |-> r, into |-> None]

Into(d, r) == IF r[2] = Doc THEN Existing[d.label] ELSE None

Creates(d, h, missing) ==
  FlattenSeq([k \in 1..Len(ItemsOf(d)) |->
    LET r == ItemsOf(d)[k]
    IN  IF r \notin DOMAIN h \/ r \in missing THEN <<Create(r, Into(d, r))>> ELSE <<>>])

Retirements(l, h, keep) ==
  LET old == SetToSeq({r \in DOMAIN h : r[1] = l /\ r[2] # Doc} \ keep)
  IN  [k \in 1..Len(old) |-> Retire(old[k])]

TargetPlan(d, h, missing) ==
  Creates(d, h, missing) \o Retirements(d.label, h, ToSet(ItemsOf(d)))

\* A bug: the document is archived before what is under it.
DocumentFirst(l, h) ==
  (IF <<l, Doc>> \in DOMAIN h THEN <<Retire(<<l, Doc>>)>> ELSE <<>>)
    \o Retirements(l, h, {})

RemovedTargetPlan(l, h) ==
  Retirements(l, h, {})
    \o IF <<l, Doc>> \in DOMAIN h THEN <<Retire(<<l, Doc>>)>> ELSE <<>>

Plan(drafts, h, missing) ==
  LET removed == SetToSeq({r[1] : r \in DOMAIN h} \ LabelsOf(drafts))
  IN  FlattenSeq([k \in 1..Len(drafts) |-> TargetPlan(drafts[k], h, missing)])
        \o FlattenSeq([k \in 1..Len(removed) |-> RemovedTargetPlan(removed[k], h)])

\* refuse_moved_targets: a service with a target that is new and one that is
\* no longer drafted.
Moved(drafts, h) ==
  LET known == {r[1] : r \in DOMAIN h}
  IN  \E new \in LabelsOf(drafts) \ known, old \in known \ LabelsOf(drafts) :
        Service[new] = Service[old]

\* _refuse_shared_items
Shared(h) == \E q, r \in DOMAIN h : q # r /\ h[q].id = h[r].id

------------------------------------------------------------------------------
(* A run                                                                     *)

\* settle_interrupted_creates: a create into a page that is there, and that
\* got as far as the stamp, is taken up; any other entry of that kind goes.
SettledHeld ==
  LET taken == {p \in pending : p.into # None /\ items[p.into].of = p.ref /\ There(p.into)}
  IN  [r \in HeldRefs \cup {p.ref : p \in taken} |->
         IF \E p \in taken : p.ref = r
         THEN [id |-> (CHOOSE p \in taken : p.ref = r).into, retiring |-> FALSE, links |-> {}]
         ELSE held[r]]
SettledPending == {p \in pending : p.into = None}

\* read_published: an item that was being retired and is not there any more is
\* dropped; one that is drafted again is no longer being retired.
ReadHeld(h, drafts) ==
  LET again == [r \in DOMAIN h |-> [h[r] EXCEPT !.retiring = @ /\ r \notin Drafted(drafts)]]
  IN  [r \in {q \in DOMAIN h : ~again[q].retiring \/ There(again[q].id)} |-> again[r]]

MissingOf(h) == {r \in DOMAIN h : ~There(h[r].id)}

\* _refuse_missing_items, and read_items_written_into: a page to write into
\* that is not there or is another target's.
Refuses(overwrite, h, plan) ==
  \/ MissingOf(h) # {} /\ ~overwrite
  \/ Shared(h)
  \/ \E k \in 1..Len(plan) :
       plan[k].into \in {i \in Ids : ~There(i)}

Start(overwrite) ==
  /\ pc = "idle"
  /\ LET h == ReadHeld(SettledHeld, yaml)
         plan == Plan(yaml, h, MissingOf(h))
     IN  /\ ~Moved(yaml, SettledHeld)
         /\ SettledPending = {}
         /\ ~Refuses(overwrite, h, plan)
         /\ held' = h /\ pending' = {}
         /\ run' = [drafts |-> yaml, read |-> DOMAIN h \ MissingOf(h), todo |-> plan]
  /\ pc' = "note"
  /\ UNCHANGED <<yaml, items, bounds>>

Step == Head(run.todo)

\* _created and _retired save what they are about to do; an item that was not
\* read is forgotten without a request.
NoteCreate ==
  /\ pc = "note" /\ run.todo # <<>> /\ Step.do = "create"
  /\ IF Step.ref[2] = Doc \/ <<Step.ref[1], Doc>> \in HeldRefs
     THEN /\ pending' = pending \cup {[ref |-> Step.ref, into |-> Step.into]}
          /\ pc' = "send"
     ELSE pc' = "lost" /\ UNCHANGED pending    \* "is not in the state file"
  /\ UNCHANGED <<yaml, items, held, run, bounds>>

NoteRetire ==
  /\ pc = "note" /\ run.todo # <<>> /\ Step.do = "retire"
  /\ IF Step.ref \in run.read
     THEN /\ held' = [held EXCEPT ![Step.ref].retiring = TRUE]
          /\ pc' = "send" /\ UNCHANGED run
     ELSE /\ held' = Without(held, Step.ref)
          /\ run' = [run EXCEPT !.todo = Tail(@)] /\ UNCHANGED pc
  /\ UNCHANGED <<yaml, items, pending, bounds>>

ParentId(r) == IF r[2] = Doc THEN None ELSE held[<<r[1], Doc>>].id

\* The id a create is answered with: the page it is written into, or a new one.
NewId == IF Step.into # None THEN Step.into
         ELSE CHOOSE i \in Ids : items[i].life = "none"

\* The page a create is written into, or its parent, has gone since it was read.
PlaceGone ==
  \E i \in {Step.into, ParentId(Step.ref)} \ {None} : ~There(i)

SendCreate ==
  /\ pc = "send" /\ Step.do = "create"
  /\ Step.into = None => \E i \in Ids : items[i].life = "none"
  /\ ~PlaceGone
  /\ items' = [items EXCEPT ![NewId] =
                 [life |-> "there", of |-> Step.ref, under |-> ParentId(Step.ref), links |-> {}]]
  /\ run' = [run EXCEPT !.todo[1] = [@ EXCEPT !.into = NewId]]
  /\ pc' = "record"
  /\ UNCHANGED <<yaml, held, pending, bounds>>

\* An adopted page is released, a created item archived.
SendRetire ==
  /\ pc = "send" /\ Step.do = "retire"
  /\ LET i == held[Step.ref].id
     IN  items' = IF Step.ref[2] = Doc /\ Existing[Step.ref[1]] = i
                  THEN [items EXCEPT ![i].of = None, ![i].links = {}] ELSE Gone(i)
  /\ pc' = "record"
  /\ UNCHANGED <<yaml, held, pending, run, bounds>>

Record ==
  /\ pc = "record"
  /\ IF Step.do = "create"
     THEN /\ held' = With(held, Step.ref, [id |-> Step.into, retiring |-> FALSE, links |-> {}])
          /\ pending' = {p \in pending : p.ref # Step.ref}
     ELSE held' = Without(held, Step.ref) /\ UNCHANGED pending
  /\ run' = [run EXCEPT !.todo = Tail(@)]
  /\ pc' = "note"
  /\ UNCHANGED <<yaml, items, bounds>>

\* WriteRejectedError: what was noted is taken back, and the run stops.
Rejected ==
  /\ pc = "send" /\ faults < MaxFaults
  /\ IF Step.do = "create"
     THEN pending' = {p \in pending : p.ref # Step.ref} /\ UNCHANGED held
     ELSE held' = [held EXCEPT ![Step.ref].retiring = FALSE] /\ UNCHANGED pending
  /\ pc' = "idle" /\ run' = [run EXCEPT !.todo = <<>>]
  /\ faults' = faults + 1
  /\ UNCHANGED <<yaml, items, revisions, deletes>>

\* The service refuses a create whose parent or page has gone.
ParentGone ==
  /\ pc = "send" /\ Step.do = "create"
  /\ PlaceGone
  /\ pending' = {p \in pending : p.ref # Step.ref}
  /\ pc' = "idle" /\ run' = [run EXCEPT !.todo = <<>>]
  /\ UNCHANGED <<yaml, items, held, bounds>>

------------------------------------------------------------------------------
(* apply_links                                                               *)

\* paired_items: the other services' items of the same section, and for the
\* document of a target of a service in LinksSections its own sections.
Partners(r, drafts) ==
  {q \in Drafted(drafts) :
     \/ q[2] = r[2] /\ Service[q[1]] # Service[r[1]]
     \/ q[1] = r[1] /\ r[2] = Doc /\ q[2] # Doc /\ Service[r[1]] \in LinksSections}

\* item_links: an item links to the partners that the state file holds, and one
\* without partners is looked at while it holds links.
Wanted(r) == {held[q].id : q \in Partners(r, run.drafts) \cap HeldRefs}

ToLink ==
  {r \in Drafted(run.drafts) \cap HeldRefs :
     /\ Partners(r, run.drafts) # {} \/ held[r].links # {}
     /\ Wanted(r) # items[held[r].id].links \/ Wanted(r) # held[r].links}

Link ==
  /\ pc = "note" /\ run.todo = <<>>
  /\ \E r \in ToLink :
       /\ There(held[r].id) \/ Wanted(r) = items[held[r].id].links
       /\ held' = [held EXCEPT ![r].links = Wanted(r)]
       /\ items' = [items EXCEPT ![held[r].id].links = Wanted(r)]
  /\ UNCHANGED <<yaml, pending, pc, run, bounds>>

\* An item that went after the run read it: its links were noted before the
\* service refused them.
LinkRefused ==
  /\ pc = "note" /\ run.todo = <<>>
  /\ \E r \in ToLink :
       /\ ~There(held[r].id) /\ Wanted(r) # items[held[r].id].links
       /\ held' = [held EXCEPT ![r].links = @ \cup Wanted(r)]
  /\ pc' = "idle"
  /\ UNCHANGED <<yaml, items, pending, run, bounds>>

Stop ==
  /\ pc # "idle" /\ (run.todo # <<>> \/ ToLink # {}) /\ faults < MaxFaults
  /\ pc' = "idle" /\ run' = [run EXCEPT !.todo = <<>>]
  /\ faults' = faults + 1
  /\ UNCHANGED <<yaml, items, held, pending, revisions, deletes>>

Done ==
  /\ pc = "note" /\ run.todo = <<>> /\ ToLink = {}
  /\ pc' = "idle"
  /\ UNCHANGED <<yaml, items, held, pending, run, bounds>>

Next ==
  \/ Revise \/ Resolve \/ \E i \in Ids : Delete(i)
  \/ \E o \in BOOLEAN : Start(o)
  \/ NoteCreate \/ NoteRetire \/ SendCreate \/ SendRetire
  \/ Record \/ Rejected \/ ParentGone \/ Link \/ LinkRefused \/ Stop \/ Done

Spec == Init /\ [][Next]_vars

------------------------------------------------------------------------------
(* Properties                                                                *)

\* plan.py's order: no run reaches a section before its document has an id to
\* put it under, and the state file never holds a section without its
\* document, wherever a run stopped and whatever was deleted before it (so
\* a document, with which its sections would go, is archived after them).
SectionsHaveADocument ==
  \A r \in HeldRefs : <<r[1], Doc>> \in HeldRefs

\* An item skaldr created and did not archive is the state file's to find: it
\* is held, or a pending create says where to look for it.
NothingLost ==
  \A i \in Ids :
    There(i) /\ items[i].of # None =>
      \/ \E r \in HeldRefs : held[r].id = i
      \/ \E p \in pending : p.ref = items[i].of

\* A run that ends without being stopped leaves the state file with exactly
\* the items that the publish block it planned from asks for.
DoneIsDrafted ==
  Done => HeldRefs = Drafted(run.drafts)

\* And when it ends, the items of a section link to one another, each way, and
\* nothing links to an item that was archived, released or made anew.
DoneIsLinked ==
  Done =>
    LET ids == {held[r].id : r \in HeldRefs}
        links(r) == items[held[r].id].links
    IN /\ \A i \in Ids : There(i) => items[i].links \subseteq ids
       /\ \A q, r \in HeldRefs :
            q[2] = r[2] => (held[q].id \in links(r) <=> held[r].id \in links(q))
==============================================================================
