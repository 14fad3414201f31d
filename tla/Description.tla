----------------------------- MODULE Description -----------------------------
(***************************************************************************)
(* The description of one Jira issue by its blocks: skaldr sends it whole, *)
(* with a layout that says which blocks each section was given; Jira fills *)
(* in attributes as it saves; people edit it, block by block; and skaldr   *)
(* tells by the layout whose each block is now.  What fails and who edits  *)
(* between a read and a write is module JiraWrites's.                      *)
(*                                                                         *)
(* A block is the sequence of its nodes, each [type, says, attrs, marks],  *)
(* attrs a set of <<name, value>>.  A digest is the block it is of.        *)
(***************************************************************************)
EXTENDS Integers, Sequences, SequencesExt, FiniteSetsExt, Functions, Keying

CONSTANTS
  Drafts,    \* the contents that may be published: sequences of [key, text]
  Additions, \* the blocks a person may add
  Limit,     \* how many nodes a description may have
  MaxEdits,  \* bound: what people do between two writes
  MaxWrites  \* bound: writes

VARIABLES
  issue,     \* the description's blocks
  layout,    \* the property skaldr.layout
  published, \* the sections as skaldr last read them back
  touched,   \* the sections people changed since then
  wanted,    \* the sections the last write was to leave
  told,      \* how the last operation went
  edits, writes

vars == <<issue, layout, published, touched, wanted, told, edits, writes>>

------------------------------------------------------------------------------
(* comparable_node                                                           *)

\* _SAVED_ATTRS: what Jira fills in, whatever its value or with that value.
SavedWhatever == {<<"mention", "text">>, <<"table", "displayMode">>}
SavedDefaults == {<<"table", "layout", "default">>, <<"table", "layout", "center">>,
                  <<"orderedList", "order", "1">>, <<"tableCell", "colspan", "1">>}

FilledInByJira(type, attr) ==
  \/ attr[1] = "localId"
  \/ <<type, attr[1]>> \in SavedWhatever
  \/ <<type, attr[1], attr[2]>> \in SavedDefaults

ComparableAttrs(node) ==
  {attr \in node.attrs : attr[2] # "null" /\ ~FilledInByJira(node.type, attr)}

\* The marks of a text are sorted: their order says nothing.
ComparableNode(node) == [type |-> node.type, says |-> node.says,
                         attrs |-> ComparableAttrs(node), marks |-> ToSet(node.marks)]
Comparable(block) == [n \in DOMAIN block |-> ComparableNode(block[n])]

\* comparable_section, block_digest
ComparableSection(blocks) == Evaluated([n \in DOMAIN blocks |-> Comparable(blocks[n])])

------------------------------------------------------------------------------
(* split_description                                                         *)

\* layout_of
LayoutSections(sections) ==
  LET held == SelectSeq(sections, LAMBDA s : s.text # <<>>)
  IN [n \in DOMAIN held |-> [key |-> held[n].key, blocks |-> ComparableSection(held[n].text)]]

RunStarts(run, remote) ==
  {start \in 1..(Len(remote) - Len(run) + 1) :
     SubSeq(remote, start, start + Len(run) - 1) = run}

CountOf(x, seq) == Cardinality({n \in DOMAIN seq : seq[n] = x})

\* _whole_run_anchors: where each section stands whole, if it does once, the
\* longer sections first, none inside another.
WholeRunAnchors(sections, remote) ==
  LET runs == [s \in DOMAIN sections |-> sections[s].blocks]
      longest == SetToSortSeq(DOMAIN sections,
                   LAMBDA s, t : \/ Len(runs[s]) > Len(runs[t])
                                 \/ Len(runs[s]) = Len(runs[t]) /\ s < t)
      span(start, s) == start..(start + Len(runs[s]) - 1)
      Anchored(anchors, s) ==
        LET starts == IF CountOf(runs[s], runs) = 1 THEN RunStarts(runs[s], remote) ELSE {}
            claimed == UNION {span(anchors[t], t) : t \in DOMAIN anchors}
        IN IF Cardinality(starts) = 1 /\ span(Min(starts), s) \cap claimed = {}
           THEN (s :> Min(starts)) @@ anchors ELSE anchors
  IN FoldLeft(Anchored, <<>>, longest)

\* _anchors: and where its first block stands, if that is written and found once.
Anchors(sections, remote, whole) ==
  LET expected == Concat([s \in DOMAIN sections |-> sections[s].blocks])
      first(s) == sections[s].blocks[1]
      at(s) == CHOOSE n \in DOMAIN remote : remote[n] = first(s)
      found == {s \in DOMAIN sections \ DOMAIN whole :
                  /\ CountOf(first(s), expected) = 1 /\ CountOf(first(s), remote) = 1
                  /\ at(s) \notin Range(whole)}
  IN whole @@ [s \in found |-> at(s)]

\* _anchored_groups: the sections from an anchored one to the next.
GroupFrom(s, sections, anchors) ==
  LET later == {t \in DOMAIN anchors : t > s}
  IN SubSeq(sections, s, IF later = {} THEN Len(sections) ELSE Min(later) - 1)

\* _matched_owners: what is inserted goes with what stands above it.
MatchedOwners(remote, group) ==
  LET keys == Concat([s \in DOMAIN group |-> [b \in DOMAIN group[s].blocks |-> group[s].key]])
      changes == Opcodes(Concat([s \in DOMAIN group |-> group[s].blocks]), remote)
      over(u) == CHOOSE c \in changes : c[4] <= u /\ u <= c[5]
      of(c, u) == IF c[1] = "insert" THEN keys[Max({c[2] - 1, 1})]
                  ELSE keys[Min({c[2] + u - c[4], c[3]})]
  IN [u \in DOMAIN remote |-> of(over(u), u)]

\* _owners, by the anchors: what stands above the first anchored section goes
\* with the sections before it, and with it if there are none.
OwnersBy(sections, remote, anchors) ==
  LET starts == SetToSortSeq(DOMAIN anchors, LAMBDA s, t : anchors[s] < anchors[t])
      before == IF DOMAIN anchors = {} THEN sections
                ELSE SubSeq(sections, 1, Min(DOMAIN anchors) - 1)
      leading == IF before # <<>> THEN before ELSE GroupFrom(starts[1], sections, anchors)
      end(n) == IF n < Len(starts) THEN anchors[starts[n + 1]] - 1 ELSE Len(remote)
  IN MatchedOwners(SubSeq(remote, 1, end(0)), leading)
     \o Concat([n \in DOMAIN starts |->
                 MatchedOwners(SubSeq(remote, anchors[starts[n]], end(n)),
                               GroupFrom(starts[n], sections, anchors))])

Owners(blocks, sections) ==
  IF sections = <<>> THEN [n \in DOMAIN blocks |-> Unkeyed]
  ELSE LET remote == ComparableSection(blocks)
       IN OwnersBy(sections, remote,
                   Anchors(sections, remote, WholeRunAnchors(sections, remote)))

\* split_description: each owner's blocks, in the order the owners first come.
SplitBy(owners, blocks) ==
  LET keys == FoldLeft(LAMBDA done, k : IF Contains(done, k) THEN done ELSE Append(done, k),
                       <<>>, owners)
      of(k) == FoldLeft(LAMBDA done, n : IF owners[n] = k THEN Append(done, blocks[n]) ELSE done,
                        <<>>, [n \in DOMAIN blocks |-> n])
  IN [n \in DOMAIN keys |-> [key |-> keys[n], text |-> of(keys[n])]]
SplitDescription(blocks, sections) == SplitBy(Evaluated(Owners(blocks, sections)), blocks)

\* comparable_form, and the comparable sections of _remote.
ComparableForm(sections) ==
  LET held == SelectSeq(sections, LAMBDA s : s.text # <<>>)
  IN Evaluated([n \in DOMAIN held |-> [held[n] EXCEPT !.text = ComparableSection(@)]])

------------------------------------------------------------------------------
(* Jira                                                                      *)

\* What Jira makes of a node as it saves it: an id of its own, marks in another
\* order, and a value it has a default for is put in, or left out.
Default(type) == {<<d[2], d[3]>> : d \in {e \in SavedDefaults : e[1] = type /\ e[3] # "center"}}
SavedNode(node) ==
  [node EXCEPT
     !.attrs = {a \in @ : a[2] # "null" /\ a[1] # "localId" /\ a \notin Default(node.type)}
                 \cup {<<"localId", "new">>}
                 \cup {d \in Default(node.type) : ~\E a \in node.attrs : a[1] = d[1]},
     !.marks = Reverse(@)]
SavedBlock(block) == [n \in DOMAIN block |-> SavedNode(block[n])]
SavedByJira(blocks) == Evaluated([n \in DOMAIN blocks |-> SavedBlock(blocks[n])])

TextsIn(sections) == Concat([n \in DOMAIN sections |-> sections[n].text])

Init ==
  \E draft \in Drafts :
    /\ issue = SavedByJira(TextsIn(draft)) /\ layout = LayoutSections(draft)
    /\ published = ComparableForm(draft) /\ wanted = ComparableForm(draft)
    /\ touched = {} /\ told = "written" /\ edits = 0 /\ writes = 0

------------------------------------------------------------------------------
(* People                                                                    *)

Read == SplitDescription(issue, layout)

\* The section a person writes in below the n-th block: that of the nearest
\* block of skaldr's above, or of the first below.
SectionAt(n) ==
  LET own(m) == {s \in DOMAIN published : Comparable(issue[m]) \in ToSet(published[s].text)}
      ours == {m \in DOMAIN issue : own(m) # {}}
      near == IF \E m \in ours : m <= n THEN Max({m \in ours : m <= n}) ELSE Min(ours)
  IN IF ours = {} THEN {} ELSE {published[s].key : s \in own(near)}

Edit(blocks, keys) ==
  /\ edits < MaxEdits /\ edits' = edits + 1
  /\ issue' = blocks /\ touched' = touched \cup keys
  /\ told' = "edited"
  /\ UNCHANGED <<layout, published, wanted, writes>>

\* Below the n-th block, or above them all, a block the issue does not have yet.
AddBlock ==
  \E n \in 0..Len(issue), block \in Additions :
    /\ Comparable(block) \notin ToSet(ComparableSection(issue))
    /\ Edit(InsertAt(issue, n + 1, block), SectionAt(n))

DeleteBlock == \E n \in DOMAIN issue : Edit(RemoveAt(issue, n), SectionAt(n))

\* An attribute Jira fills in takes another value.
SetAttribute ==
  \E n \in DOMAIN issue : \E m \in DOMAIN issue[n], d \in SavedDefaults :
    /\ issue[n][m].type = d[1]
    /\ Edit([issue EXCEPT ![n][m].attrs = {a \in @ : a[1] # d[2]} \cup {<<d[2], "own">>}],
            SectionAt(n))

\* What Jira saves once more reads as nothing else.
SaveAgain == issue # SavedByJira(issue) /\ Edit(SavedByJira(issue), {})

\* The property goes; every block reads as no section's.
LoseLayout ==
  /\ layout # <<>> /\ edits < MaxEdits /\ edits' = edits + 1
  /\ layout' = <<>> /\ touched' = ToSet([n \in DOMAIN published |-> published[n].key])
  /\ told' = "edited"
  /\ UNCHANGED <<issue, published, wanted, writes>>

------------------------------------------------------------------------------
(* skaldr                                                                    *)

\* write_content, the one write the Jira connector asks for: the description of
\* a draft, its layout with it, and what the two read back as.
WriteContent ==
  \E draft \in Drafts :
    /\ writes < MaxWrites /\ writes' = writes + 1 /\ edits' = 0
    /\ IF FoldLeft(LAMBDA size, block : size + Len(block), 0, TextsIn(draft)) > Limit
       THEN told' = "rejected" /\ UNCHANGED <<issue, layout, published, wanted, touched>>
       ELSE /\ issue' = SavedByJira(TextsIn(draft)) /\ layout' = LayoutSections(draft)
            /\ published' = ComparableForm(SplitDescription(issue', layout'))
            /\ wanted' = ComparableForm(draft)
            /\ touched' = {} /\ told' = "written"

Next == \/ AddBlock \/ DeleteBlock \/ SetAttribute \/ SaveAgain \/ LoseLayout
        \/ WriteContent

Spec == Init /\ [][Next]_vars

------------------------------------------------------------------------------
(* Properties                                                                *)

EachOnce(blocks) == Cardinality(ToSet(blocks)) = Len(blocks)

\* A section nobody changed reads as it was written, whatever Jira filled in and
\* whatever was done to the sections around it, so no run shows an edit in it
\* (split_description, comparable_section), if no block was written twice.
UntouchedReadsAsPublished ==
  EachOnce(TextsIn(published)) =>
    LET reads == ToSet(ComparableForm(Read))
    IN \A n \in DOMAIN published : published[n].key \in touched \/ published[n] \in reads

\* The sections joined are the description: what a diff shows of a section
\* stands there together, as it does on the issue.
SectionsJoinIntoTheDescription ==
  EachOnce(TextsIn(published)) => TextsIn(Read) = issue

\* What a write leaves reads back as what it was to leave.
WrittenIsWanted == told = "written" => published = wanted

\* An attribute that holds a value of a person's shows as an edit.
Own(blocks) == {b \in ToSet(blocks) : \E m \in DOMAIN b : \E a \in b[m].attrs : a[2] = "own"}
EveryEditShows ==
  \/ Own(issue) = {}
  \/ Own(TextsIn(published)) # {}
  \/ ComparableForm(Read) # published

==============================================================================
