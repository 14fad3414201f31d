------------------------------- MODULE MCEdits -------------------------------
(***************************************************************************)
(* Four instances of Publish in one run, one in each behaviour: an item    *)
(* that skaldr made and people edit, a page that is written into, an item  *)
(* that two commands publish, and one whose YAML goes back to an old text. *)
(***************************************************************************)
EXTENDS TLC

CONSTANTS p, p1, p2, i1, i2, page, new,
          doc, field, intro, body, blank, plain, other, raw, unkeyed, None

VARIABLES instance, yaml, items, disk, lock, pc, run, seen, edits, revisions, faults

\* The parts a command has overlooked so far, with their refs.
VARIABLE overlooked

vars == <<instance, yaml, items, disk, lock, pc, run, seen, edits, revisions, faults,
          overlooked>>

Document == doc
Refs == {doc}
Blank == blank
Unkeyed == unkeyed
Texts == {blank, plain, other, raw, unkeyed}

\* The service gives `raw` back as `plain`.
Form == [t \in Texts |-> IF t = raw THEN plain ELSE t]

Draft(fields, sections, t, u) ==
  [r \in Refs |-> [x \in fields \cup sections |-> IF x \in fields THEN t ELSE u]]
Nothing == [r \in Refs |-> None]

Jira(t, u) == Draft({field}, {intro, body}, t, u)
Own == INSTANCE PublishProperties WITH
  Procs <- {p}, Ids <- {i1, i2}, Into <- None,
  FieldParts <- {field}, SectionParts <- {intro, body}, Compared <- {intro, body},
  FirstYaml <- Jira(plain, raw),
  Yamls <- {Jira(plain, raw), Jira(other, other), Jira(plain, blank)},
  WholeContent <- TRUE, Keyed <- TRUE, Templated <- FALSE, Fills <- FALSE,
  MaxEdits <- 2, MaxRevisions <- 1, MaxFaults <- 1

Page(t, u) == Draft({field}, {intro}, t, u)
IntoPage == INSTANCE PublishProperties WITH
  Procs <- {p}, Ids <- {page, new}, Into <- page,
  FieldParts <- {field}, SectionParts <- {intro}, Compared <- {intro},
  FirstYaml <- Page(plain, raw),
  Yamls <- {Page(plain, raw), Page(plain, blank), Nothing},
  WholeContent <- FALSE, Keyed <- FALSE, Templated <- FALSE, Fills <- TRUE,
  MaxEdits <- 2, MaxRevisions <- 1, MaxFaults <- 2

Short(u) == Draft({}, {intro}, plain, u)
Two == INSTANCE PublishProperties WITH
  Procs <- {p1, p2}, Ids <- {i1, i2}, Into <- None,
  FieldParts <- {}, SectionParts <- {intro}, Compared <- {intro},
  FirstYaml <- Short(raw), Yamls <- {Short(raw), Short(other)},
  WholeContent <- FALSE, Keyed <- TRUE, Templated <- FALSE, Fills <- FALSE,
  MaxEdits <- 1, MaxRevisions <- 1, MaxFaults <- 1

Back == INSTANCE PublishProperties WITH
  Procs <- {p}, Ids <- {i1}, Into <- None,
  FieldParts <- {}, SectionParts <- {body}, Compared <- {body},
  FirstYaml <- Draft({}, {body}, plain, blank),
  Yamls <- {Draft({}, {body}, plain, blank), Draft({}, {body}, plain, plain)},
  WholeContent <- FALSE, Keyed <- TRUE, Templated <- FALSE, Fills <- FALSE,
  MaxEdits <- 1, MaxRevisions <- 3, MaxFaults <- 1

Symmetry == Permutations({p1, p2}) \cup Permutations({i1, i2})

------------------------------------------------------------------------------
Init ==
  /\ overlooked = {}
  /\ \/ instance = "own" /\ Own!Init
     \/ instance = "into" /\ IntoPage!Init
     \/ instance = "two" /\ Two!Init
     \/ instance = "back" /\ Back!Init

\* What a command overlooks now is remembered.
Remembering(parts, Overlooks(_, _)) ==
  overlooked' = overlooked \cup {rx \in Refs \X parts : Overlooks(rx[1], rx[2])}

OwnSteps ==
  instance = "own" /\ Own!Next /\ Remembering(Own!Parts, Own!Overlooked)
IntoSteps ==
  instance = "into" /\ IntoPage!Next /\ Remembering(IntoPage!Parts, IntoPage!Overlooked)
TwoSteps ==
  instance = "two" /\ Two!Next /\ Remembering(Two!Parts, Two!Overlooked)
BackSteps ==
  instance = "back" /\ Back!Next /\ Remembering(Back!Parts, Back!Overlooked)

Next == (OwnSteps \/ IntoSteps \/ TwoSteps \/ BackSteps) /\ UNCHANGED instance

Spec == Init /\ [][Next]_vars

------------------------------------------------------------------------------
Holds(parts, AsPlanned(_, _)) ==
  \A rx \in (Refs \X parts) \ overlooked : AsPlanned(rx[1], rx[2])

\* A part that skaldr wrote last and that differs from the saved copy is noted
\* as under way, so no run takes skaldr's own write for an edit (reading.py); and
\* an apply that ends well leaves in the state file what the YAML it planned from
\* says, and in the service too, but for what people changed and for the parts of
\* a lost write that a command took for published ones (apply_publish, _settled).
FileAndServiceAgree ==
  CASE instance = "own" ->
         Own!OwnWritesExplained /\ Own!RecordedAsPlanned
         /\ Holds(Own!Parts, Own!HoldsAsPlanned)
    [] instance = "into" ->
         IntoPage!OwnWritesExplained /\ IntoPage!RecordedAsPlanned
         /\ Holds(IntoPage!Parts, IntoPage!HoldsAsPlanned)
    [] instance = "two" ->
         Two!OwnWritesExplained /\ Two!RecordedAsPlanned
         /\ Holds(Two!Parts, Two!HoldsAsPlanned)
    [] OTHER ->
         Back!OwnWritesExplained /\ Back!RecordedAsPlanned
         /\ Holds(Back!Parts, Back!HoldsAsPlanned)

\* A run replaces a person's edit only when a diff has shown it, also with two
\* commands at work and also when the edit comes between read and write.
SeenBeforeOverwritten ==
  [][CASE instance = "own" -> Own!OverwritesOnlyWhatWasSeen
       [] instance = "into" -> IntoPage!OverwritesOnlyWhatWasSeen
       [] instance = "two" -> Two!OverwritesOnlyWhatWasSeen
       [] OTHER -> Back!OverwritesOnlyWhatWasSeen]_vars

==============================================================================
