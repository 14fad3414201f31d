------------------------------- MODULE MCPlans -------------------------------
(***************************************************************************)
(* What a run decides before it writes: the items each target is to have,  *)
(* in what order they are created and retired, and in what order the       *)
(* sections of one item are written.                                       *)
(***************************************************************************)
EXTENDS Naturals, Sequences, TLC

CONSTANTS
  a, b, c, Doc, None

VARIABLES
  part,    \* the component this behaviour is of
  yaml, items, held, pending, pc, run, revisions, deletes, faults, doc,
  target, refused, page, rendered, remote, writing, steps, shown, touched,
  edits, hands, stops, files, followed

\* A page that is written into, a place in the same service that pages are made
\* in, and a board of another service.
ServiceOf == [l \in {"page", "place", "board"} |-> IF l = "board" THEN "slack" ELSE "notion"]
ExistingPage == [l \in {"page", "place", "board"} |-> IF l = "page" THEN 1 ELSE None]
PublishBlocks ==
  {<<[label |-> "page", split |-> <<"s">>], [label |-> "place", split |-> <<"s">>]>>,
   <<[label |-> "page", split |-> <<"s">>]>>,
   <<[label |-> "place", split |-> <<"t", "s">>]>>,
   <<[label |-> "page", split |-> <<"s">>], [label |-> "board", split |-> <<"s">>]>>,
   <<>>}

\* Documents of up to three blocks, two of which say the same.
SectionNamed(s) == [id |-> s, anchor |-> None, says |-> "short"]
Plain(x) == [id |-> None, anchor |-> None, says |-> x]
Kinds ==
  {SectionNamed("a"), SectionNamed("b"), Plain("short"), Plain("long"),
   [id |-> None, anchor |-> "here", says |-> "short"]}
\* The model refuses a document that uses an id or an anchor twice.
IsNamed(x) == x.id # None \/ x.anchor # None
Documents ==
  {d \in UNION {[1..n -> Kinds] : n \in 1..3} :
     \A j, k \in 1..Len(d) : j # k /\ d[j] = d[k] => ~IsNamed(d[j])}
SomeTargets ==
  [from : {<<>>, <<"b", "a">>, <<"a", "a">>},
   split : {<<>>, <<"a">>, <<"a", "b">>},
   overrides : SUBSET {"a"}, overridden : {{"f"}},
   sections : {{}, {"f"}, {"f", "g"}}, field : {{}, {"f"}}]
SizeOf == [x \in {"short", "long"} |-> IF x = "short" THEN 1 ELSE 2]

\* A main file, two documents and two blocks that others include; "again" is
\* another path to the first document, and "away" leads out of the folder.
FileAt ==
  "main" :> "main" @@ "one" :> "one" @@ "again" :> "one" @@ "two" :> "two" @@ "away" :> "two"
    @@ "piece" :> "piece" @@ "/piece" :> "piece" @@ "deeper" :> "deeper" @@ "lost" :> None
Including(p) == [path |-> p, id |-> None, names |-> None, badge |-> None]
Block(i, n, g) == [path |-> None, id |-> i, names |-> n, badge |-> g]
Stating(blocks, badges, docId, site) ==
  [document |-> TRUE, parts |-> None, blocks |-> blocks, badges |-> badges, docId |-> docId, site |-> site]
IndexOf(parts, blocks, badges, docId) == [Stating(blocks, badges, docId, None) EXCEPT !.parts = parts]
OneBlock(block) == [Stating(<<block>>, <<>>, None, None) EXCEPT !.document = FALSE]
ContentOf ==
  "main" :>
    ({IndexOf(parts, blocks, badges, None) :
        parts \in {<<"one", "two">>, <<"two", "again">>, <<"one", "again">>, <<"one", "away">>, <<"one", "one">>},
        blocks \in {<<>>, <<Block("i", "j", None)>>, <<Including("deeper")>>},
        badges \in {<<>>, "good" :> "red"}}
     \cup {IndexOf(<<"one">>, <<>>, <<>>, "d"), IndexOf(<<>>, <<Block(None, None, None)>>, <<>>, None), None}
     \cup {Stating(<<Block("i", None, None), Including(p)>>, <<>>, None, None) :
             p \in {"piece", "/piece", "deeper", "lost", "one", "main"}})
  @@ "one" :>
    ({Stating(<<Block("j", "j", "good")>>, "good" :> "green", d, s) : d \in {None, "d"}, s \in {None, "here"}}
     \cup {Stating(<<Block("i", None, None), Including("piece")>>, "good" :> "green", None, None),
           Stating(<<Block("i", "j", None)>>, <<>>, None, None),
           IndexOf(<<"two">>, <<>>, <<>>, None), OneBlock(Block("i", None, None)), None})
  @@ "two" :>
    ({Stating(<<Block("k", "k", None), Including("deeper")>>, <<>>, None, s) : s \in {"here", "there"}}
    \cup {Stating(<<Block("k", n, "good")>>, "good" :> colour, "d", None) :
            n \in {None, "j"}, colour \in {"green", "red"}})
  @@ "piece" :> {OneBlock(Block(None, None, None)), OneBlock(Block("k", None, "good")), OneBlock(Including("deeper"))}
  @@ "deeper" :> {OneBlock(Block(None, None, None)), OneBlock(Including("piece")), OneBlock(Including("one")), None}

Items == INSTANCE PlanOrder WITH
  Labels <- {"page", "place", "board"}, Sections <- {"s", "t"}, Ids <- 1..6,
  Service <- ServiceOf, LinksSections <- {"slack"}, Existing <- ExistingPage,
  Yamls <- PublishBlocks, MaxRevisions <- 2, MaxDeletes <- 1, MaxFaults <- 1

Dealt == INSTANCE Drafts WITH
  Blocks <- Documents, Targets <- SomeTargets, Sizes <- SizeOf,
  SectionMax <- 2, ItemMax <- 4

Sections == INSTANCE SectionOrder WITH
  Keys <- {a, b, c}, Texts <- {1, 2}, Granularity <- "section", MaxEdits <- 2,
  MaxHands <- 0, MaxStops <- 1

Overwritten == INSTANCE SectionOrder WITH
  Keys <- {a, b, c}, Texts <- {1, 2}, Granularity <- "section", MaxEdits <- 1,
  MaxHands <- 2, MaxStops <- 0

Content == INSTANCE SectionOrder WITH
  Keys <- {a, b, c}, Texts <- {1, 2}, Granularity <- "content", MaxEdits <- 2,
  MaxHands <- 0, MaxStops <- 1

Pages == INSTANCE Loading WITH
  Main <- "main", Contents <- ContentOf, Target <- FileAt,
  Absolute <- {"/piece"}, Outside <- {"away"}, MaxDepth <- 3

ASSUME Items!PlanAssumption /\ Items!PagesAreApart
ASSUME Sections!OrderAssumption /\ Overwritten!OrderAssumption /\ Content!OrderAssumption

Symmetry == Permutations({a, b, c})

------------------------------------------------------------------------------
(* One component at a time: the variables of the others hold nothing.        *)

planOrderVars == <<held, pending, run, revisions, deletes, faults>>
draftsVars == <<doc, target, refused>>
sectionOrderVars == <<
  rendered, remote, writing, steps, shown, touched, edits, hands, stops>>
loadingVars == <<files, followed>>
vars == <<part, yaml, items, planOrderVars, pc, draftsVars, page, sectionOrderVars,
  loadingVars>>

NoPlanOrder ==
  /\ held = None /\ pending = None /\ run = None /\ revisions = None
  /\ deletes = None /\ faults = None
NoDrafts ==
  /\ doc = None /\ target = None /\ refused = None
NoSectionOrder ==
  /\ rendered = None /\ remote = None /\ writing = None /\ steps = None
  /\ shown = None /\ touched = None /\ edits = None /\ hands = None
  /\ stops = None
NoLoading ==
  /\ files = None /\ followed = None

Init ==
  \/ /\ part = "items" /\ Items!Init
     /\ NoDrafts /\ page = None /\ NoSectionOrder /\ NoLoading
  \/ /\ part = "drafts" /\ Dealt!Init
     /\ yaml = None /\ NoPlanOrder /\ page = None /\ NoSectionOrder
     /\ NoLoading
  \/ /\ part = "sections" /\ Sections!Init
     /\ items = None /\ NoPlanOrder /\ NoDrafts /\ NoLoading
  \/ /\ part = "overwrites" /\ Overwritten!Init
     /\ items = None /\ NoPlanOrder /\ NoDrafts /\ NoLoading
  \/ /\ part = "content" /\ Content!Init
     /\ items = None /\ NoPlanOrder /\ NoDrafts /\ NoLoading
  \/ /\ part = "pages" /\ Pages!Init
     /\ yaml = None /\ items = None /\ NoPlanOrder /\ pc = None /\ NoDrafts
     /\ NoSectionOrder

ItemsSteps ==
  /\ part = "items" /\ Items!Next
  /\ UNCHANGED <<part, draftsVars, page, sectionOrderVars, loadingVars>>
DealtSteps ==
  /\ part = "drafts" /\ Dealt!Next
  /\ UNCHANGED <<part, yaml, planOrderVars, page, sectionOrderVars,
                  loadingVars>>
SectionsSteps ==
  /\ part = "sections" /\ Sections!Next
  /\ UNCHANGED <<part, items, planOrderVars, draftsVars, loadingVars>>
OverwrittenSteps ==
  /\ part = "overwrites" /\ Overwritten!Next
  /\ UNCHANGED <<part, items, planOrderVars, draftsVars, loadingVars>>
ContentSteps ==
  /\ part = "content" /\ Content!Next
  /\ UNCHANGED <<part, items, planOrderVars, draftsVars, loadingVars>>
PagesSteps ==
  /\ part = "pages" /\ Pages!Next
  /\ UNCHANGED <<part, yaml, items, planOrderVars, pc, draftsVars,
                  sectionOrderVars>>

Next == ItemsSteps \/ DealtSteps \/ SectionsSteps \/ OverwrittenSteps \/
        ContentSteps \/ PagesSteps

Spec == Init /\ [][Next]_vars

------------------------------------------------------------------------------
(* Properties                                                                *)

\* A run that has sent its last step leaves the service with the sections of the
\* YAML, in its order, whatever moved, came or went and wherever earlier runs
\* stopped (plan.py _section_updates, content.py placed_section).  And where the
\* content is written as one part, a write without an answer never makes a later
\* run take its own text for a person's (of sections written one by one this does
\* not hold: reading.py _settled looks only at the parts that differ).
DoneIsInOrder ==
  /\ part = "sections" => Sections!DoneIsInOrder
  /\ part = "overwrites" => Overwritten!DoneIsInOrder
  /\ part = "content" => Content!DoneIsInOrder /\ Content!OnlyEditsStopARun

\* An item skaldr created and did not archive is the state file's to find, held
\* or as a pending create, and no section is held without its document, wherever
\* a run stopped (plan.py: items are created parents first, retired last).
NothingLost == part = "items" => Items!NothingLost /\ Items!SectionsHaveADocument

\* Each block a target is built from goes to one item, under a key no other
\* block of the item has, with fields it has a path for and a size that fits
\* (drafts.py region_keys, _target_draft).
EachBlockOnce ==
  part = "drafts" =>
    /\ Dealt!EachBlockOnce /\ Dealt!KeysAreDistinct
    /\ Dealt!PathGivesAField /\ Dealt!NothingTooLong

\* One page of a document, or of an index and its parts, is what each file says
\* alone, and every file it is made of, and no other, is one that --watch and
\* --if-stale follow (loading.py, models/report.py): the files are walked twice,
\* by code that is written apart.
PagesAreWhole ==
  part = "pages" =>
    /\ Pages!FollowsWhatItShows /\ Pages!TakenWhenSound /\ Pages!PartsReadAsAlone

\* A run that ends without being stopped leaves the state file with exactly the
\* items its publish block asks for, those of one section linked each way and
\* none to an item that is no longer published (plan.py, links.py); and blocks
\* that only move keep their keys, so nothing is removed and added for a move
\* (drafts.py region_keys).
RunsKeepTheirWord ==
  [][/\ part = "items" => Items!DoneIsDrafted /\ Items!DoneIsLinked
     /\ part = "drafts" => Dealt!KeepsTheKeys]_vars

==============================================================================
