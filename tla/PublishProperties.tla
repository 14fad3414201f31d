-------------------------- MODULE PublishProperties --------------------------
(***************************************************************************)
(* What `skaldr publish` keeps true of the state file, the service and the *)
(* person's edits, and three things its documentation says that it does    *)
(* not keep.                                                               *)
(***************************************************************************)
EXTENDS Publish

\* Every variable holds a value of its kind.
TypeOK ==
  /\ yaml \in Drafts
  /\ items \in [Ids -> RemoteItem]
  /\ disk \in PublishState
  /\ lock \in Procs \cup {None}
  /\ pc \in [Procs -> Places]
  /\ run \in [Procs -> Run]
  /\ seen \subseteq Ids \X Parts \X Texts
  /\ edits \in Nat /\ revisions \in Nat /\ faults \in Nat

Covers(st, i) ==
  \/ \E r \in Refs : st.held[r] # None /\ st.held[r].id = i
  \/ \E d \in st.pending :
       d.into = None /\ d.ref = items[i].made /\ d.id \in {None, i}

\* Whatever a run was interrupted in, the state file accounts for every item
\* skaldr created that is still in the service: it holds the item, or an entry
\* of pending_creates stands for it.
Tracked ==
  \A i \in Ids : There(i) /\ items[i].made # None => Covers(disk, i)

\* A document's item or section is never in the service twice, however creates
\* are interrupted, repeated, or raced by other commands.
NoDuplicates ==
  \A i, j \in Ids :
    There(i) /\ There(j) /\ items[i].made # None /\ items[i].made = items[j].made
      => i = j

\* A part that skaldr wrote last and that differs from the saved copy is
\* explained by the in-flight write in the state file, so the next read does
\* not take skaldr's own write for a person's edit.  Not so for what an
\* interrupted release of a page written into has cleared.
OwnWritesExplained ==
  \A r \in HeldRefs(disk), x \in Parts :
    LET item == disk.held[r]
        remote == items[item.id]
    IN  There(item.id) /\ ~item.retiring
        /\ ~(item.origin = "adopted" /\ remote.text[x] = Blank)
        /\ x \notin remote.hand /\ remote.text[x] # item.remote[x]
          => /\ item.writing # None
             /\ x \in item.writing.parts
             /\ remote.text[x] = Form[item.writing.rendered[x]]

\* A command reads a part that it takes for what it last published although it is
\* not: skaldr wrote a text that a person had put there when the saved copy was
\* taken, and the answer was lost, or an interrupted release emptied what a person
\* had emptied then.
Overlooks(rn, r, x) ==
  LET item == rn.state.held[r]
      remote == items[item.id]
  IN  /\ r \in rn.unread
      /\ rn.drafts[r] # None \/ ~item.retiring
      /\ There(item.id) /\ x \notin remote.hand
      /\ remote.text[x] = item.remote[x]
      /\ item.rendered[x] # Unkeyed /\ remote.text[x] # Form[item.rendered[x]]
      /\ \/ /\ item.writing # None /\ x \in item.writing.parts
            /\ remote.text[x] = Form[item.writing.rendered[x]]
         \/ item.origin = "adopted" /\ remote.text[x] = Blank

Overlooked(r, x) ==
  \E p \in Procs : pc[p] = "read" /\ run[p].cmd # "dry" /\ Overlooks(run[p], r, x)

\* When an apply ends well, the state file records the YAML it planned from.
RecordedAsPlanned ==
  \A p \in Procs : pc[p] = "applied" =>
    /\ disk.pending = {}
    /\ \A r \in Refs :
         /\ run[p].drafts[r] = None <=> disk.held[r] = None
         /\ run[p].drafts[r] # None => disk.held[r].rendered = run[p].drafts[r]

\* And the service holds it, but for what a person wrote there last.
HoldsAsPlanned(r, x) ==
  \A p \in Procs :
    LET draft == run[p].drafts[r]
        remote == items[disk.held[r].id]
    IN  pc[p] = "applied" /\ draft # None
        /\ There(disk.held[r].id) /\ x \notin remote.hand
          => remote.text[x] = Form[draft[x]]

\* An apply that ends well has published the YAML it planned from: the state file
\* records it, and each part of it that no command has overlooked is in the service.
AppliedMeansPublished ==
  /\ []RecordedAsPlanned
  /\ \A r \in Refs, x \in Parts :
       ([]~Overlooked(r, x)) => []HoldsAsPlanned(r, x)

\* A person's text the state file does not have.
UnsavedEdit(i, x) ==
  \E r \in HeldRefs(disk) :
    LET item == disk.held[r]
    IN  /\ item.id = i /\ ~item.retiring
        /\ There(i) /\ x \in items[i].hand
        /\ items[i].text[x] # item.remote[x]

ReplacedBySkaldr(i, x) ==
  /\ edits' = edits
  /\ items'[i].life = "there"
  /\ items'[i].text[x] # items[i].text[x]

Seen(i, x) == <<i, x, items[i].text[x]>> \in seen

OverwritesOnlyWhatWasSeen ==
  \A i \in Ids, x \in Compared :
    UnsavedEdit(i, x) /\ ReplacedBySkaldr(i, x) => Seen(i, x)

\* A run replaces a person's edit of a compared part only when the last diff
\* of the item, printed by `diff` or by a refused publish, showed that text.
SeenBeforeOverwritten == [][OverwritesOnlyWhatWasSeen]_vars

Held(i) == \E r \in HeldRefs(disk) : disk.held[r].id = i

\* The same of every edit of an item in the state file, also of those that
\* were there when skaldr recorded the item.  The code does not keep it.
NoEditOverwrittenUnseen ==
  [][\A i \in Ids, x \in Compared :
       Held(i) /\ x \in items[i].hand /\ ReplacedBySkaldr(i, x)
         => Seen(i, x)]_vars

Steps(p) == pc[p] # "idle" /\ (pc'[p] # pc[p] \/ run'[p] # run[p])

\* A dry run leaves the service as it is.  The code does not keep it.
DryRunWritesNothing ==
  [][\A p \in Procs : run[p].cmd = "dry" /\ Steps(p) => items' = items]_vars

\* A page that holds exactly the draft is written into, whatever interrupted
\* the run that wrote it.  The code does not keep it.
ResumesItsOwnDraft ==
  \A p \in Procs :
    pc[p] = "into" /\ There(Into)
    /\ items[Into].text = Shown(run[p].drafts[Document])
      => IntoIsFree(run[p])

\* The service and the state file hold what the YAML says, and nothing is pending.
Published ==
  /\ disk.pending = {}
  /\ \A r \in Refs :
       /\ disk.held[r] = None <=> yaml[r] = None
       /\ yaml[r] # None =>
            /\ disk.held[r].rendered = yaml[r]
            /\ There(disk.held[r].id)
            /\ items[disk.held[r].id].text = Shown(yaml[r])

------------------------------------------------------------------------------
(* The inductive invariant behind Tracked and NoDuplicates: what is true at  *)
(* every moment of the state file, of the service, of what a command holds   *)
(* in memory at each of its places, and of the lock.                         *)

Alive(its, i) == its[i].life = "there"

Born(its, i) == its[i].life # "unborn"

\* The item a ref is held by is no longer in the service.
NotThere(its, st, r) == st.held[r] # None => ~Alive(its, st.held[r].id)

------------------------------------------------------------------------------
(* The service, and a publish state, in the file or in memory                *)

ServiceOK(its) ==
  /\ Into # None => its[Into].made = None /\ Born(its, Into)
  /\ \A i, j \in Ids :
       Alive(its, i) /\ Alive(its, j) /\ its[i].made # None
         /\ its[i].made = its[j].made => i = j

AtMostOnePending(st) == \A d, e \in st.pending : d = e

\* An item created for a ref is held by that ref; what was written into is Into.
HeldItemsAreTheRefs(its, st) ==
  \A r \in Refs : st.held[r] # None =>
    /\ Born(its, st.held[r].id)
    /\ st.held[r].origin = "created" => its[st.held[r].id].made = r
    /\ st.held[r].origin = "adopted" =>
         r = Document /\ st.held[r].id = Into /\ Into # None

\* A ref whose create is pending has no item.
PendingStandsForItsRef(its, st) ==
  \A d \in st.pending :
    /\ NotThere(its, st, d.ref)
    /\ d.into # None => d.into = Into /\ d.ref = Document
    /\ d.into = None /\ d.id # None =>
         Born(its, d.id) /\ its[d.id].made = d.ref

Accounts(its, st, i) ==
  \/ \E r \in Refs : st.held[r] # None /\ st.held[r].id = i
  \/ \E d \in st.pending :
       d.into = None /\ d.ref = its[i].made /\ d.id \in {None, i}

StateOK(its, st) ==
  /\ AtMostOnePending(st)
  /\ HeldItemsAreTheRefs(its, st)
  /\ PendingStandsForItsRef(its, st)
  /\ \A i \in Ids : Alive(its, i) /\ its[i].made # None => Accounts(its, st, i)

\* Every item skaldr created is held, but for the one being created.
HoldsAllBut(its, st, i) ==
  \A j \in Ids \ {i} : Alive(its, j) /\ its[j].made # None =>
    \E r \in Refs : st.held[r] # None /\ st.held[r].id = j

------------------------------------------------------------------------------
(* A command, place by place                                                 *)

FreshPlaces == {"prepared", "settle", "fill"}
ReadPlaces == {"read", "into", "decide"}
StepPlaces == {"creating", "finishing", "writing", "retiring"}
ApplyPlaces == {"apply", "applied"} \cup StepPlaces

\* A command that may write: it holds the lock.
Writer(place, rn) == place \notin {"idle", "prepared"} /\ rn.cmd # "dry"

Fresh(rn) ==
  /\ rn.read = [r \in Refs |-> None] /\ rn.edited = [r \in Refs |-> {}]
  /\ rn.missing = {}

\* What the reads so far have told: an item was found or was missing.
ReadsOK(rn) ==
  /\ rn.unread \subseteq {r \in Refs : rn.state.held[r] # None}
  /\ \A r \in rn.unread : rn.read[r] = None /\ r \notin rn.missing
                            /\ rn.edited[r] = {}
  /\ \A r \in Refs : rn.state.held[r] # None /\ r \notin rn.unread =>
       (r \in rn.missing <=> rn.read[r] = None)
  /\ \A r \in Refs : rn.edited[r] # {} =>
       rn.state.held[r] # None /\ rn.read[r] # None

\* A step still fits the YAML and the state file.
Planned(rn, t) ==
  /\ t.kind = "create" => rn.drafts[t.ref] # None
  /\ t.kind = "write" => /\ rn.drafts[t.ref] # None
                         /\ rn.state.held[t.ref] # None
                         /\ rn.read[t.ref] # None
  /\ t.kind = "retire" => /\ rn.drafts[t.ref] = None
                          /\ rn.state.held[t.ref] # None

Whole(t) == (t.kind = "create" => t.parts = Parts)
            /\ (t.kind = "retire" => t.parts = {})

\* No other step creates or retires the item of this one.
Alone(rn, s) ==
  \A t \in rn.todo : t.kind = s.kind /\ s.kind # "write" => t.ref # s.ref

StepOK(place, rn) ==
  LET s == rn.step
  IN  /\ s # None /\ Planned(rn, s) /\ Alone(rn, s)
      /\ place \in {"creating", "finishing"} =>
           s.kind = "create" /\ rn.state.pending = {PendingOf(s)}
      /\ place = "finishing" => rn.id \in Ids
      /\ place = "writing" =>
           s.kind = "write" /\ rn.state.held[s.ref].writing # None
      /\ place = "retiring" => s.kind = "retire" /\ rn.read[s.ref] # None

\* What a command's memory looks like at a place.
ShapeOK(place, rn) ==
  /\ AtMostOnePending(rn.state)
  /\ place \in FreshPlaces => Fresh(rn)
  /\ place \in {"settle", "fill", "into"} => rn.cmd # "diff"
  /\ place = "fill" => rn.id \in Ids /\ \A d \in rn.state.pending :
                         d.into = None /\ rn.drafts[d.ref] # None
  /\ place \in ReadPlaces =>
       ReadsOK(rn) /\ (rn.cmd # "diff" => rn.state.pending = {})
  /\ place \in {"into", "decide"} => rn.unread = {}
  /\ place = "into" => Into # None /\ rn.drafts[Document] # None
                         /\ rn.state.held[Document] = None
  /\ place \in ApplyPlaces =>
       /\ rn.cmd \in {"apply", "overwrite"}
       /\ \A t \in rn.todo : Planned(rn, t) /\ Whole(t)
  /\ place \in ApplyPlaces \ {"creating", "finishing"} => rn.state.pending = {}
  /\ place \in StepPlaces => StepOK(place, rn)

\* What a command that holds the lock knows of the service.
KnowsOK(its, place, rn) ==
  /\ StateOK(its, rn.state)
  /\ place \in ReadPlaces =>
       \A r \in Refs \ rn.unread : rn.read[r] = None => NotThere(its, rn.state, r)
  /\ place \in ApplyPlaces =>
       \A r \in Refs : rn.read[r] = None => NotThere(its, rn.state, r)
  /\ place \in ApplyPlaces => \A t \in rn.todo :
       t.kind = "create" => NotThere(its, rn.state, t.ref)
  /\ place \in {"creating", "finishing"} => NotThere(its, rn.state, rn.step.ref)
  /\ place = "creating" => HoldsAllBut(its, rn.state, None)
  /\ place = "finishing" =>
       /\ Born(its, rn.id) /\ HoldsAllBut(its, rn.state, rn.id)
       /\ IF IntoOf(rn.step.ref) = None THEN its[rn.id].made = rn.step.ref
                                        ELSE rn.id = Into

CommandOK(its, place, rn) ==
  /\ ShapeOK(place, rn)
  /\ Writer(place, rn) => KnowsOK(its, place, rn)

WriterHoldsTheLock == \A p \in Procs : Writer(pc[p], run[p]) => lock = p

CreateIsNoted ==
  \A p \in Procs : pc[p] \in {"creating", "finishing"} =>
    PendingOf(run[p].step) \in disk.pending

\* The inductive invariant: TLC finds every part of it kept on small instances.
Inductive ==
  /\ TypeOK
  /\ ServiceOK(items)
  /\ StateOK(items, disk)
  /\ \A p \in Procs : CommandOK(items, pc[p], run[p])
  /\ WriterHoldsTheLock
  /\ CreateIsNoted

------------------------------------------------------------------------------
(* The inductive invariant behind OwnWritesExplained and                     *)
(* SeenBeforeOverwritten: what the state file, and the memory of a command   *)
(* that holds the lock, tell of the texts in the service.                    *)

\* A text in the service that is neither in the saved copy nor a person's.
\* What a release cleared of a page written into is not counted.
Unaccounted(its, item, x) ==
  /\ Alive(its, item.id) /\ x \notin its[item.id].hand
  /\ ~(item.origin = "adopted" /\ its[item.id].text[x] = Blank)
  /\ its[item.id].text[x] # item.remote[x]

Explained(its, item, x) ==
  Unaccounted(its, item, x) =>
    /\ item.writing # None
    /\ x \in item.writing.parts
    /\ its[item.id].text[x] = Form[item.writing.rendered[x]]

Clean(its, item) == \A x \in Parts : ~Unaccounted(its, item, x)

\* Every text skaldr wrote is explained, and what counts as shown was shown.
Tells(its, st, sn) ==
  \A r \in HeldRefs(st) :
    /\ \A x \in Parts : Explained(its, st.held[r], x)
    /\ \A t \in st.held[r].shown : <<st.held[r].id, t[1], t[2]>> \in sn

\* What was read of an item that is kept and the saved copy does not have.
News(rn, r) ==
  {x \in Parts : /\ rn.read[r] # None /\ ~rn.state.held[r].retiring
                 /\ rn.read[r][x] # rn.state.held[r].remote[x]}

\* The note of a write says what is sent.
NoteOK(rn) ==
  LET s == rn.step
      note == rn.state.held[s.ref].writing
  IN  note.parts = s.parts
      /\ \A x \in s.parts : note.rendered[x] = rn.drafts[s.ref][x]

\* What a command that holds the lock is told, place by place.
ToldOf(its, dk, sn, place, rn) ==
  /\ Tells(its, rn.state, sn)
  /\ place \in {"settle", "fill"} => rn.state.pending \subseteq dk.pending
  /\ place \in ReadPlaces => \A r \in HeldRefs(rn.state) :
       /\ r \in Drafted(rn) \ rn.unread => Clean(its, rn.state.held[r])
       /\ News(rn, r) \subseteq rn.edited[r]
  /\ place \in ApplyPlaces =>
       /\ dk = rn.state
       /\ \A r \in HeldRefs(rn.state) :
            /\ r \in Drafted(rn) => Clean(its, rn.state.held[r])
            /\ \A x \in News(rn, r) : <<rn.state.held[r].id, x, rn.read[r][x]>> \in sn
  /\ place = "writing" => NoteOK(rn)
  /\ place = "retiring" => rn.state.held[rn.step.ref].retiring

Told ==
  /\ Tells(items, disk, seen)
  /\ \A p \in Procs :
       Writer(pc[p], run[p]) => ToldOf(items, disk, seen, pc[p], run[p])

------------------------------------------------------------------------------
(* The inductive invariants behind AppliedMeansPublished: what a command     *)
(* still has to do for a part of a ref, and what the texts that skaldr wrote *)
(* last have to do with the state file and with what was read.               *)

\* No section of a draft goes by the name under which text without one is kept.
Named(drafts) ==
  \A r \in Refs : drafts[r] # None => \A x \in Parts : drafts[r][x] # Unkeyed

StepsLeft(place, rn) ==
  IF place \in StepPlaces THEN rn.todo \cup {rn.step} ELSE rn.todo

\* A step is left that writes the part.
Due(place, rn, r, x) ==
  \E t \in StepsLeft(place, rn) :
    t.ref = r /\ (t.kind = "create" \/ (t.kind = "write" /\ x \in t.parts))

DueTo(kind, place, rn, r) ==
  \E t \in StepsLeft(place, rn) : t.ref = r /\ t.kind = kind

\* What of a ref is not due is recorded as the YAML says.
RefAsPlanned(place, rn, r) ==
  /\ r \in Drafted(rn) =>
       /\ r \notin HeldRefs(rn.state) => DueTo("create", place, rn, r)
       /\ \A x \in Parts : \/ Due(place, rn, r, x)
                            \/ rn.state.held[r].rendered[x] = rn.drafts[r][x]
  /\ r \in HeldRefs(rn.state) \ Drafted(rn) => DueTo("retire", place, rn, r)

\* A command that applies keeps the state file up to date with its plan, and the
\* note of a write is what it is to record.
DoesAsPlanned(dk, place, rn) ==
  /\ Named(rn.drafts)
  /\ place \in ApplyPlaces => /\ dk = rn.state
                             /\ \A r \in Refs : RefAsPlanned(place, rn, r)
  /\ place = "writing" =>
       rn.state.held[rn.step.ref].writing.rendered = RenderedAfter(rn, rn.step)
  /\ place = "applied" => rn.todo = {}

AsPlanned ==
  /\ Named(yaml)
  /\ \A p \in Procs : DoesAsPlanned(disk, pc[p], run[p])

\* A text of the service that a person did not write last.
OwnText(its, i, x) == Alive(its, i) /\ x \notin its[i].hand

\* Where the service holds the saved copy, the draft recorded with it gives it.
Mirrors(its, item, x) ==
  OwnText(its, item.id, x) /\ its[item.id].text[x] = item.remote[x] =>
    item.rendered[x] = Unkeyed \/ item.remote[x] = Form[item.rendered[x]]

\* So it is before the item is read, but for a write under way and a release.
MayMirror(its, item, x) ==
  \/ Mirrors(its, item, x)
  \/ /\ item.writing # None /\ x \in item.writing.parts
     /\ item.remote[x] = Form[item.writing.rendered[x]]
  \/ item.origin = "adopted" /\ item.remote[x] = Blank

\* An item that is kept was read and settled.
KnownOf(its, rn, r, x) ==
  LET item == rn.state.held[r]
  IN  /\ ~item.retiring /\ Mirrors(its, item, x)
      /\ rn.read[r] # None /\ OwnText(its, item.id, x) =>
           rn.read[r][x] = its[item.id].text[x]

HasDraft(its, i, draft, x) == OwnText(its, i, x) => its[i].text[x] = Form[draft[x]]

\* What a command that holds the lock knows of a part it publishes.
FollowsOf(its, place, rn, r, x) ==
  LET item == rn.state.held[r]
      kept == r \in HeldRefs(rn.state) \cap Drafted(rn)
  IN  /\ r \in HeldRefs(rn.state) => MayMirror(its, item, x)
      /\ kept /\ (place \in ApplyPlaces \/ (place \in ReadPlaces /\ r \notin rn.unread))
           => KnownOf(its, rn, r, x)
      /\ kept /\ place \in ApplyPlaces /\ ~Due(place, rn, r, x)
           => HasDraft(its, item.id, rn.drafts[r], x)
      /\ place = "finishing" /\ rn.step.ref = r /\ x \notin rn.step.parts
           => HasDraft(its, rn.id, rn.drafts[r], x)

Follows(r, x) ==
  /\ r \in HeldRefs(disk) => MayMirror(items, disk.held[r], x)
  /\ \A p \in Procs :
       Writer(pc[p], run[p]) => FollowsOf(items, pc[p], run[p], r, x)

\* The service holds texts the way it formats them.
Formed == \A i \in Ids, x \in Parts : Form[items[i].text[x]] = items[i].text[x]

==============================================================================
