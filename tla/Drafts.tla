------------------------------- MODULE Drafts ---------------------------------
(***************************************************************************)
(* What a publish target is made of: its `from` and `split` lists checked  *)
(* against the document, the regions dealt out to the document's item and  *)
(* the items split off it, the key each region is published under, and the *)
(* YAML path a change of an item's fields is reported at.                  *)
(*                                                                         *)
(* A block is a section with an id, a block with an anchor, or any other   *)
(* block, known by a digest of what it says.                               *)
(***************************************************************************)
EXTENDS Naturals, Sequences, SequencesExt, FiniteSets, FiniteSetsExt

CONSTANTS
  Blocks,      \* the documents: sequences of [id, anchor, says]
  Targets,     \* [from, split, overrides, field]: lists of section ids, and
               \* which fields the target sets for every item
  Sizes,       \* how long each thing a block says is, as the service counts it
  SectionMax, ItemMax,
  None

VARIABLES doc, target, pc, refused, items

vars == <<doc, target, pc, refused, items>>

Ids(d) == {d[k].id : k \in 1..Len(d)} \ {None}

------------------------------------------------------------------------------
(* publish_block: the choice of sections                                     *)

Twice(s) == {s[k] : k \in {j \in 1..Len(s) : \E i \in 1..(j - 1) : s[i] = s[j]}}

FromErrors(t, known) ==
  {<<"twice in from", s>> : s \in Twice(t.from)}
    \cup {<<"not a section", s>> : s \in ToSet(t.from) \ known}

\* An id that is no section's is not also reported as left out by `from`.
SplitErrors(t, known) ==
  {<<"twice in split", s>> : s \in Twice(t.split)}
    \cup {<<"not a section", s>> : s \in ToSet(t.split) \ known}
    \cup {<<"left out", s>> : s \in {x \in ToSet(t.split) \cap known :
                                         t.from # <<>> /\ x \notin ToSet(t.from)}}

OverrideErrors(t) == {<<"not split", s>> : s \in t.overrides \ ToSet(t.split)}

SectionChoiceErrors(t, known) ==
  FromErrors(t, known) \cup SplitErrors(t, known) \cup OverrideErrors(t)

------------------------------------------------------------------------------
(* drafts.py                                                                 *)

NamedKey(b) ==
  CASE b.id # None     -> <<"id", b.id>>
    [] b.anchor # None -> <<"anchor", b.anchor>>
    [] OTHER           -> <<"block", b.says>>

\* A bug: a block without a name is known by its place.
KeysByPlace(regions) ==
  [k \in 1..Len(regions) |->
     IF NamedKey(regions[k])[1] = "block" THEN <<<<"block", k>>, 1>>
     ELSE <<NamedKey(regions[k]), 1>>]

\* The name, and ` #2` on from the second region of the same name.
RegionKeys(regions) ==
  [k \in 1..Len(regions) |->
     <<NamedKey(regions[k]),
       Cardinality({j \in 1..k : NamedKey(regions[j]) = NamedKey(regions[k])})>>]

Chosen(d, t) == SelectSeq(d, LAMBDA b : t.from = <<>> \/ b.id \in ToSet(t.from))

\* A bug: a section that is split off stays on the document as well.
StaysOnTheDocument(d, t) == Chosen(d, t)

OnTheDocument(d, t) == SelectSeq(Chosen(d, t), LAMBDA b : b.id \notin ToSet(t.split))
SplitOff(d, t) == SelectSeq(Chosen(d, t), LAMBDA b : b.id \in ToSet(t.split))

\* fields_for, with each name's layer: the section's own fields, under the
\* target's, under the item's override.
Layers(t, id) ==
  [f \in t.sections \cup t.field \cup (IF id \in t.overrides THEN t.overridden ELSE {}) |->
     IF id \in t.overrides /\ f \in t.overridden THEN "override"
     ELSE IF f \in t.field THEN "where" ELSE "section"]

OwnFields(t, id) == IF id = None THEN [t EXCEPT !.sections = {}] ELSE t

FieldsPath(t, id) ==
  LET override == IF id \in t.overrides THEN t.overridden ELSE {}
      taken == override \cup t.field
  IN  IF OwnFields(t, id).sections \ taken # {} THEN "section"
      ELSE IF override # {} THEN "override" ELSE "where"

ItemDraft(t, id, regions) ==
  [id |-> id, keys |-> RegionKeys(regions), regions |-> regions,
   fields |-> Layers(OwnFields(t, id), id), fieldsAt |-> FieldsPath(t, id)]

TargetDraft(d, t) ==
  LET split == SplitOff(d, t)
  IN  <<ItemDraft(t, None, OnTheDocument(d, t))>>
        \o [k \in 1..Len(split) |-> ItemDraft(t, split[k].id, <<split[k]>>)]

Fits(item) ==
  /\ \A k \in 1..Len(item.regions) : Sizes[item.regions[k].says] <= SectionMax
  /\ FoldSeq(LAMBDA b, n : n + Sizes[b.says], 0, item.regions) <= ItemMax

Init ==
  /\ doc \in Blocks /\ target \in Targets
  /\ pc = "read" /\ refused = FALSE /\ items = <<>>

Validate ==
  /\ pc = "read"
  /\ refused' = (SectionChoiceErrors(target, Ids(doc)) # {})
  /\ pc' = IF refused' THEN "ended" ELSE "valid"
  /\ UNCHANGED <<doc, target, items>>

\* Every item is measured before the first one is sent.
Draft ==
  /\ pc = "valid"
  /\ LET drafted == TargetDraft(doc, target)
     IN  IF \A k \in 1..Len(drafted) : Fits(drafted[k])
         THEN items' = drafted /\ UNCHANGED refused
         ELSE refused' = TRUE /\ UNCHANGED items
  /\ pc' = "ended"
  /\ UNCHANGED <<doc, target>>

\* The author changes the order of the blocks and nothing else.
Moved(d, e) == \E p \in Permutations(1..Len(d)) : e = [k \in 1..Len(d) |-> d[p[k]]]

Move ==
  /\ pc = "ended"
  /\ doc' \in {e \in Blocks : Len(e) = Len(doc) /\ e # doc /\ Moved(doc, e)}
  /\ pc' = "read" /\ refused' = FALSE
  /\ UNCHANGED <<target, items>>

Next == Validate \/ Draft \/ Move

Spec == Init /\ [][Next]_vars

------------------------------------------------------------------------------
(* Properties                                                                *)

Accepted == pc = "ended" /\ ~refused

\* Dealing out: each block that the target is built from is published in one
\* place, in the order of the document, and each split section has one item.
EachBlockOnce ==
  Accepted =>
    /\ \A k \in 2..Len(items) : items[k].regions[1].id = items[k].id
    /\ ToSet(target.split) = {items[k].id : k \in 2..Len(items)}
    /\ Len(items) = 1 + Len(target.split)
    /\ FoldSeq(LAMBDA i, n : n + Len(i.regions), 0, items) = Len(Chosen(doc, target))

\* Two regions of one item are never published under one key: each would be
\* read as an edit of the other.
KeysAreDistinct ==
  Accepted => \A k \in 1..Len(items) : IsInjective(items[k].keys)

\* Moving blocks about changes the order of an item's keys and no key, so
\* nothing is removed and added for a move.
KeepsTheKeys ==
  Draft /\ items # <<>> /\ items' # items =>
    /\ {i.id : i \in ToSet(items')} = {i.id : i \in ToSet(items)}
    /\ \A k \in 1..Len(items'), j \in 1..Len(items) :
         items'[k].id = items[j].id => ToSet(items'[k].keys) = ToSet(items[j].keys)

\* The path that a change of the fields is reported at is one that a field of
\* the item comes from.
PathGivesAField ==
  Accepted => \A k \in 1..Len(items) :
    DOMAIN items[k].fields = {}
      \/ \E f \in DOMAIN items[k].fields : items[k].fields[f] = items[k].fieldsAt

\* What is sent to a service is what the service said it takes: no item is
\* over the limit for its whole text though each section is under its own.
NothingTooLong ==
  Accepted => \A k \in 1..Len(items) :
    FoldSeq(LAMBDA b, n : n + Sizes[b.says], 0, items[k].regions) <= ItemMax
==============================================================================
