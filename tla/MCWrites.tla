------------------------------ MODULE MCWrites -------------------------------
(***************************************************************************)
(* One operation that writes, at each service, and what people, refusals   *)
(* and lost answers do to it: a Notion page, a Jira issue, the links of    *)
(* issues, a Slack canvas, the fields of a database row, a file.           *)
(***************************************************************************)
EXTENDS TLC

CONSTANTS
  l1, l2, None

VARIABLES
  part,    \* the component this behaviour is of
  page, read, seen, op, wanted, pc, sent, told, landed, hand, edits, faults,
  issue, layout, history, marker, written, saved, touched, paired, dropped,
  held, current, todo, stamp, changes, removed, canvas, section, target,
  parent, schema, row, isRow, rendered, verdict, mode, file, disk, staged,
  flushed, up

\* A draft of two sections.
Draft == <<"s1", "s2">>

NotionOps == {"section", "content", "fields", "links", "archive", "release",
              "create", "template", "into"}
JiraOps == {"description", "fields", "create"}
SlackOps == NotionOps \ {"template"}

\* Sections of one field and two over databases that name a property in one
\* capitalisation, in another, in both, or as another kind.
Folded ==
  [status |-> "status", Status |-> "status", STATUS |-> "status", labels |-> "labels",
   Labels |-> "labels", due |-> "due", assignee |-> "assignee", estimate |-> "estimate",
   Team |-> "team", team |-> "team", high |-> "high", High |-> "high", low |-> "low",
   Low |-> "low", five |-> "five", day |-> "day", ann |-> "ann", bob |-> "bob",
   none |-> "none"]
WrittenIds == [ann |-> "dashed", bob |-> "missing"]

Field(key, shape, words) ==
  [key |-> key, shape |-> shape, words |-> words, named |-> TRUE, comma |-> FALSE]
Extra(key, shape, words) == [Field(key, shape, words) EXCEPT !.named = FALSE]

StatusHigh == Field("status", "text", <<"high">>)
Fields ==
  {StatusHigh, Field("labels", "texts", <<"low", "high", "Low">>),
   [Field("status", "text", <<"low">>) EXCEPT !.comma = TRUE],
   Field("assignee", "person", <<"ann">>), Field("assignee", "person", <<"bob">>),
   Field("due", "date", <<"day">>), Field("estimate", "number", <<"five">>),
   Extra("team", "text", <<"low">>), Extra("Team", "texts", <<"low">>),
   Extra("STATUS", "text", <<"low">>)}

SectionOf(fields) == [fields |-> fields, optIn |-> TRUE]
AuthoredSections ==
  {SectionOf(<<field>>) : field \in Fields}
    \cup {SectionOf(<<StatusHigh, field>>) : field \in {g \in Fields : g.key # "status"}}
    \cup {[fields |-> <<StatusHigh>>, optIn |-> FALSE], SectionOf(<<>>)}

TargetOf(name, json, words) == [n \in {name} |-> [json |-> json, words |-> words]]
TargetFields ==
  {<<>>, TargetOf("Status", "text", <<"Low">>), TargetOf("status", "null", <<>>),
   TargetOf("Team", "number", <<"five">>)}

Property(kind, options) == [kind |-> kind, options |-> options]
Statuses ==
  {Property("select", <<>>), Property("select", <<"High">>),
   Property("status", <<"Low", "High">>), Property("multi_select", <<"Low">>),
   Property("rich_text", <<>>), Property("title", <<>>)}
Rest ==
  [labels |-> Property("multi_select", <<>>), assignee |-> Property("people", <<>>),
   due |-> Property("date", <<>>), estimate |-> Property("number", <<>>),
   Team |-> Property("multi_select", <<"Low">>)]
SomeDatabases ==
  {[Status |-> one] @@ Rest : one \in Statuses}
    \cup {[status |-> Property("select", <<"High">>), STATUS |-> Property("select", <<>>)] @@ Rest,
          [Status |-> Property("number", <<>>), STATUS |-> Property("select", <<>>)] @@ Rest}
EveryParent == {"database", "page", "trash", "block", "two sources"}

Notion == INSTANCE NotionWrites WITH
  Sections <- Draft, Ops <- NotionOps, Notes <- "notes", MaxEdits <- 2,
  MaxFaults <- 1

Jira == INSTANCE JiraWrites WITH
  Ops <- JiraOps, MaxEdits <- 3, MaxFaults <- 1

JiraPairs == INSTANCE JiraLinks WITH
  Links <- {l1, l2}, MaxChanges <- 3, MaxRemoved <- 1, MaxFaults <- 3

Slack == INSTANCE SlackWrites WITH
  Sections <- Draft, Ops <- SlackOps, MaxEdits <- 2, MaxFaults <- 2

Row == INSTANCE SectionFields WITH
  Sections <- AuthoredSections, Targets <- TargetFields,
  Databases <- SomeDatabases, Parents <- EveryParent, Fold <- Folded,
  UserIds <- WrittenIds, MaxEdits <- 2

File == INSTANCE ReplaceFile WITH
  Modes <- {"staged", "in place", "create"}, MaxFaults <- 2

ASSUME Notion!NotionAssumption /\ Jira!JiraAssumption /\ JiraPairs!LinksAssumption
ASSUME Slack!SlackAssumption /\ File!FileAssumption

Symmetry == Permutations({l1, l2})

------------------------------------------------------------------------------
(* One component at a time: the variables of the others hold nothing.        *)

notionWritesVars == <<page, sent>>
jiraWritesVars == <<layout, history, marker, written, saved, touched>>
jiraLinksVars == <<
  paired, dropped, held, current, todo, stamp, changes, removed>>
sectionFieldsVars == <<
  section, target, parent, schema, row, isRow, rendered, verdict>>
replaceFileVars == <<mode, file, disk, staged, flushed, up>>
vars == <<part, notionWritesVars, read, op, seen, edits, wanted, pc, faults, told, landed,
  hand, issue, jiraWritesVars, jiraLinksVars, canvas, sectionFieldsVars,
  replaceFileVars>>

NoNotionWrites ==
  /\ page = None /\ sent = None
NoJiraWrites ==
  /\ layout = None /\ history = None /\ marker = None /\ written = None
  /\ saved = None /\ touched = None
NoJiraLinks ==
  /\ paired = None /\ dropped = None /\ held = None /\ current = None
  /\ todo = None /\ stamp = None /\ changes = None /\ removed = None
NoSectionFields ==
  /\ section = None /\ target = None /\ parent = None /\ schema = None
  /\ row = None /\ isRow = None /\ rendered = None /\ verdict = None
NoReplaceFile ==
  /\ mode = None /\ file = None /\ disk = None /\ staged = None
  /\ flushed = None /\ up = None

Init ==
  \/ /\ part = "notion" /\ Notion!Init
     /\ issue = None /\ NoJiraWrites /\ NoJiraLinks /\ canvas = None
     /\ NoSectionFields /\ NoReplaceFile
  \/ /\ part = "jira" /\ Jira!Init
     /\ NoNotionWrites /\ wanted = None /\ landed = None /\ hand = None
     /\ NoJiraLinks /\ canvas = None /\ NoSectionFields /\ NoReplaceFile
  \/ /\ part = "links" /\ JiraPairs!Init
     /\ NoNotionWrites /\ read = None /\ op = None /\ seen = None
     /\ edits = None /\ told = None /\ landed = None /\ hand = None
     /\ NoJiraWrites /\ canvas = None /\ NoSectionFields /\ NoReplaceFile
  \/ /\ part = "slack" /\ Slack!Init
     /\ NoNotionWrites /\ issue = None /\ NoJiraWrites /\ NoJiraLinks
     /\ NoSectionFields /\ NoReplaceFile
  \/ /\ part = "row" /\ Row!Init
     /\ NoNotionWrites /\ read = None /\ op = None /\ wanted = None
     /\ pc = None /\ faults = None /\ told = None /\ landed = None
     /\ hand = None /\ issue = None /\ NoJiraWrites /\ NoJiraLinks
     /\ canvas = None /\ NoReplaceFile
  \/ /\ part = "file" /\ File!Init
     /\ NoNotionWrites /\ read = None /\ op = None /\ seen = None
     /\ edits = None /\ wanted = None /\ landed = None /\ hand = None
     /\ issue = None /\ NoJiraWrites /\ NoJiraLinks /\ canvas = None
     /\ NoSectionFields

NotionSteps ==
  /\ part = "notion" /\ Notion!Next
  /\ UNCHANGED <<part, issue, jiraWritesVars, jiraLinksVars, canvas,
                  sectionFieldsVars, replaceFileVars>>
JiraSteps ==
  /\ part = "jira" /\ Jira!Next
  /\ UNCHANGED <<part, notionWritesVars, wanted, landed, hand, jiraLinksVars,
                  canvas, sectionFieldsVars, replaceFileVars>>
JiraPairsSteps ==
  /\ part = "links" /\ JiraPairs!Next
  /\ UNCHANGED <<part, notionWritesVars, read, op, seen, edits, told, landed,
                  hand, jiraWritesVars, canvas, sectionFieldsVars,
                  replaceFileVars>>
SlackSteps ==
  /\ part = "slack" /\ Slack!Next
  /\ UNCHANGED <<part, notionWritesVars, issue, jiraWritesVars, jiraLinksVars,
                  sectionFieldsVars, replaceFileVars>>
RowSteps ==
  /\ part = "row" /\ Row!Next
  /\ UNCHANGED <<part, notionWritesVars, read, op, wanted, pc, faults, told,
                  landed, hand, issue, jiraWritesVars, jiraLinksVars, canvas,
                  replaceFileVars>>
FileSteps ==
  /\ part = "file" /\ File!Next
  /\ UNCHANGED <<part, notionWritesVars, read, op, seen, edits, wanted,
                  landed, hand, issue, jiraWritesVars, jiraLinksVars, canvas,
                  sectionFieldsVars>>

Next == NotionSteps \/ JiraSteps \/ JiraPairsSteps \/ SlackSteps \/ RowSteps
        \/ FileSteps

Spec == Init /\ [][Next]_vars

------------------------------------------------------------------------------
(* Properties                                                                *)

\* What an operation told as done was asked to write is at the service, or a
\* person changed it since: the applier records it as published.  A create that
\* ends halfway is found again by its stamp, and a canvas is named archived only
\* once its text says so (the operations of the three transport.py).  Jira checks
\* no version: an edit that lands while skaldr writes is left on the issue and
\* found by the history read back, so the next run shows it.
DoneStands ==
  /\ part = "notion" => Notion!DoneIsOnThePage /\ Notion!UnfinishedIsFound
  /\ part = "jira" => Jira!DoneIsOnTheIssue /\ Jira!EditsAreShown
  /\ part = "slack" => Slack!DoneIsOnTheCanvas /\ Slack!ArchivedSaysSo

\* A write the service rejected outright leaves no trace, so the run may clear
\* its note of it (WriteRejectedError, GUIDE.md), in every operation of which
\* only the first request can be refused: that of sections too, on a Notion page
\* that was read with its stamp.
RejectedLeavesNoTrace ==
  /\ part = "notion" /\ op \in {"section", "content"} /\ seen.stamp # None =>
       Notion!RejectedLeavesNoTrace
  /\ part = "notion" /\ op \notin {"section", "content", "fields", "links", "release"} =>
       Notion!RejectedLeavesNoTrace
  /\ part = "jira" /\ op # "description" => Jira!RejectedLeavesNoTrace
  /\ part = "slack" /\ op # "fields" => Slack!RejectedLeavesNoTrace

\* No write replaces a person's text that the run has not read as what it is
\* about to replace (the checks of the transports between read and request).
EditsAreKept ==
  [][/\ part = "notion" => Notion!KeepsEdits
     /\ part = "slack" => Slack!KeepsEdits]_vars

\* Every link on an issue is in the state file and marked in the issue's stamp,
\* whichever request of a run fails or gets no answer; an archived issue holds
\* none and is commented on once (links.py, jira/transport.py archive_item).
LinksAreAccountedFor ==
  part = "links" => JiraPairs!LinksAreAccountedFor

\* A published section's row holds the fields of the section and the target, and
\* the next run reads them back as the same, though the database writes options
\* in a capitalisation and an order of its own (section_fields.py, properties.py).
FieldsArrive ==
  part = "row" =>
    /\ Row!RowHoldsTheFields /\ Row!NothingToSendAgain
    /\ Row!EveryFieldIsSet /\ Row!AcceptedMeansSendable

\* A publish leaves alone the properties of a row neither it nor the one before
\* set (transport.py cleared_fields), and create_file replaces no file, not even
\* one that appears while it runs (replace_file.py).
OthersAreLeftAlone ==
  [][/\ part = "row" => Row!LeavesOthersAlone
     /\ part = "file" => File!CreateReplacesNothing]_vars

\* A file replaced through a staged one is never half a file, to a reader or to
\* a machine that stops, and what is told as written is on disk (replace_file.py).
WholeFiles ==
  part = "file" => File!WholeFiles

==============================================================================
