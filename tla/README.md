# skaldr in TLA+

skaldr turns YAML files into a page, exports that page to other formats, and publishes it to Notion, Jira and Slack.
Publishing changes a remote service one request at a time, keeps a state file of what it did, can be stopped
anywhere, and shares both with other skaldr commands and with the people who edit the same pages; sign-ins are kept
in a keychain that several processes change; and much of what is computed is computed twice, by code that is written
apart and has to agree. This directory models those parts, checks them with TLC on small instances, and proves the
main safety properties of the publish core, the credential store, the Notion sign-in, the service clients and the
replacement of files with TLAPS for every instance.

Paths below are relative to `src/skaldr/` in the repository. `PROJECT.json` lists every component with its status,
every hazard at the line where it bites, and the lines each definition models.

## The system

| part | code | state it keeps | operations | modules |
| --- | --- | --- | --- | --- |
| publish state file | `publish/state.py`, `prepared.py` | items held per target, entries of interrupted creates | load, save, lock | `Publish` |
| publish engine | `publish/engine.py` | what a command holds in memory | `publish`, `--apply [--overwrite]`, `diff` | `Publish` |
| reading and settling | `publish/reading.py` | what each read told | settle interrupted creates and in-flight writes, find edits | `Publish`, `SectionOrder` |
| plan | `publish/plan.py`, `content.py` | the steps of a run | create, write, place, archive, release | `Publish`, `PlanOrder`, `SectionOrder` |
| applier | `publish/applier.py` | the state file between steps | note a step, send it, record it | `Publish` |
| drafts | `publish/drafts.py` | none | deal a document out to items, key its blocks | `Drafts` |
| links | `publish/links.py` | links noted on items | pair, note, send, drop | `PlanOrder`, `JiraLinks` |
| transports | `publish/{notion,jira,slack}/transport.py`, `keyed.py` | what a run read last of an item | the requests of each step | `NotionWrites`, `JiraWrites`, `JiraLinks`, `SlackWrites`, `SectionFields` |
| page text | `notion/page_markdown.py`, `jira/description.py`, `slack/canvas_markdown.py` | none | cut a text into sections, write into it | `Keying`, `NotionText`, `PageText`, `CanvasWrites`, `Description` |
| service clients | `publish/*/api.py`, `jira/client.py` | a command's answers so far | retry, renew, follow tasks, classify answers | `Requests`, `WriteCall` |
| credential store | `auth/store.py` | keychain index, entries, a command's remembered reads | save, list, move, forget, under one lock | `Keychain`, `SignIns` |
| Notion sign-in | `auth/notion.py` | a session's token, the redirect's listener | sign in, renew, revoke, log out | `NotionSignIn`, `Callback` |
| file replacement | `replace_file.py` | a file | staged, in-place and creating writes | `ReplaceFile` |
| command line | `cli.py` | the rendered page | `--if-stale`, `--watch` | `Watching` |
| content model | `models/` | none | load files and parts, validate blocks | `Loading`, `Swimlane`, `RequestCalls` |
| layout | `compute/` | none | place a swimlane, resolve calls | `Swimlane`, `RequestCalls` |
| export | `export/` | a folder and its list | check, write to four targets, keep a folder | `ExportTree`, `AdfBlocks`, `CanvasBlocks`, `NotionBlocks`, `MarkdownBlocks`, `Export`, `ExportFiles` |
| templates, rendering, outline | `auth/templates.py`, `render.py`, `outline.py`, ... | one small file | pure conversions | not modelled |

How they interact. A command prepares: it loads the YAML (`Loading`), drafts its items (`Drafts`) and loads the state
file. An apply and a diff take the lock of the state file and prepare again. The engine settles what earlier runs
were interrupted in, reads every item through the transports, and then refuses, shows, or hands a plan to the
applier. The applier saves the state file (`ReplaceFile`) before and after every request. The transports cut texts
into sections, call the service clients, and these take their token from the sign-in, which reads and writes the
credential store. The person edits the YAML, the items in the service and, when a refusal asks for it, the state file.

Hard behaviours, and what makes each part correct:

* *Own writes and other people's edits* look alike in the service. A part skaldr wrote last must be explained by the
  state file at every moment, and a person's edit must be shown before it is overwritten.
* *Creates* give an id that is lost with their answer. Every item must stay accounted for, and none made twice.
* *Partial outcomes*: one step is several requests, and a run may stop between any two of them.
* *Two commands* on one document; several processes on one keychain and on one rotating token.
* *Requests whose effect is unknown*: a write is at most once, and "rejected" means that nothing landed.
* *Texts without markers*: which section a line, a block or a node of a page belongs to is worked out from what was
  saved, after people and the service changed it.
* *Code written twice*: the export's check and its four writers, the walk that loads files and the walk that lists
  them, the page as a whole and region by region, a layout with and without groups.
* *Convergence*: whatever was interrupted, publishing again must finish.

## How the modules fit together

`Publish` models an operation on an item as one step with a few outcomes. The modules below it open that step:
`NotionWrites`, `JiraWrites` and `SlackWrites` send the requests of one operation and check the outcomes `Publish`
relies on (done has landed, rejected left nothing, an unfinished create is found again). They in turn take a text for
a sequence of sections; `PageText`, `CanvasWrites` and `Description` show that texts can be cut that way. `Requests`
implements `WriteCall`, which is what all of them assume of one request. `Keychain` implements `SignIns`, which is
what `NotionSignIn` assumes of the store. `PlanOrder` and `SectionOrder` do for several items and for the order of
sections what `Publish` leaves out.

| modules | what they hold |
| --- | --- |
| `Publish`, `PublishProperties` | the publish core: constants, records, pure parts and actions; the properties and the inductive invariants |
| `PublishProofs`, `PublishEditsProofs` | what the state file and the service hold and what an apply records, after lemmas about the operators; what the texts in them say |
| `SignIns`, `WriteCall` | the two abstract specifications |
| `Keying`, `NotionText`, `ExportTree`, `*Blocks` | pure operators the machines are built from |
| the other modules of the table above | one state machine each; `NotionSignIn`, `ReplaceFile` and `Requests` carry their inductive invariant and theorems at their end |
| `KeychainProofs` | the inductive invariant of the credential store, and that it implements `SignIns`; the inductive invariant of `Callback` |
| `WritesProofs` | the inductive invariants of `NotionWrites`, `JiraWrites`, `JiraLinks`, `SlackWrites`, `ExportFiles` and `Watching` |
| `PlanProofs` | the inductive invariants of `PlanOrder` |
| `MCPublish`, `MCEdits`, `MCSignIns`, `MCWrites`, `MCTexts`, `MCPlans`, `MCExports`, `MCEnds` | instances for TLC |

A run module of more than one part takes one instance per behaviour: `part` says which, the variables of the other
parts hold nothing, and each property says what it means in each part. So one run asks one kind of question of
several components, at the cost of the sum of their state spaces and not of the product.

## The publish core

### State

`yaml` is what the YAML says: for each `ref` (the document or one of its split sections) a draft or nothing.
`items` is the service. `disk` is the state file: `held` is `targets[..].items`, `pending` is `pending_creates`.
`lock` is the lock of the state file. `pc[p]` and `run[p]` are a command's place and what it holds in memory:
`drafts` and `state` are `Prepared`, `read` the remote copies, `edited` and `missing` what the reads found, `todo`
the rest of the plan, `step` the step being sent and `id` the id a create has answered with.

Two parts of the state are not in the code: `made` (which ref an item was created for) and `hand` (the parts of an
item a person wrote last). No action's guard or effect on the state file depends on `hand`; `made` is read by one
action, `ResolveCreate`, where it is what the person sees. `seen` records what diffs have shown. They are there so
that properties can say what really happened.

The content of an item is a function from parts to texts. `FieldParts` are what one fields request carries,
`SectionParts` the sections. `Form[t]` is a text as the service gives it back (`comparable_draft`); skaldr compares
only such forms. The differences between services are constants: `WholeContent` (Jira writes all sections at once),
`Keyed` (the service tells sections apart without a saved layout; Notion and Slack do not, and give all the text
under one key, `Unkeyed`), `Compared` (which parts a write compares with what was read), `Templated` (a page made
from a Notion template is empty and unstamped at first), `Fills` (the connector fills a page a create left empty, as
Notion's does with a template or without) and `Into` (a page a target names with `page`).

### Actions

| place | code | actions |
| --- | --- | --- |
| `idle`, `prepared` | `prepare_publish`, `held_state_lock`, `_prepared_again_from_the_same_yaml` | `Prepare`, `LockHeldElsewhere`, `YamlChangedSincePlanned`, `TakeLock` |
| `settle`, `fill` | `settle_interrupted_creates`, `fill_a_page_left_empty`, `_refuse_an_interrupted_create` | `Settle`, `FindLeftEmpty`, `Fill`, `FillFails`, `RefuseInterruptedCreate`, `AllSettled` |
| `read`, `into` | `read_published`, `read_items_written_into` | `ReadItem`, `AllRead`, `ReadInto`, `RefuseInto` |
| `decide` | `_applied_with`, `_refusal`, `dry_run_publish`, `diff_publish` | `EndDryRun`, `RefuseMissing`, `RefuseEdited`, `RefuseUnseen`, `ShowDiff`, `RefuseMissingInto`, `MakePlan` |
| `apply`, `creating`, `finishing` | `Applier._created`, `create_item`, `_create_into`, `_finish_create` | `StartCreate`, `SendCreate`, `SendCreateInto`, `RejectCreate`, `FinishCreate`, `LeaveUnfinished` |
| `apply`, `writing` | `Applier._written`, `write_section`, `write_content`, `write_fields` | `StartWrite`, `SkipWrite`, `SendWrite`, `RejectWrite`, `LoseWriteAnswer` |
| `apply`, `retiring` | `Applier._retired`, `archive_item`, `release_item` | `StartRetire`, `ForgetMissing`, `SendRetire`, `RejectRetire`, `LoseRetireAnswer` |
| `applied` | the end of `apply_publish` | `EverythingApplied`, `ReleaseLock` |
| any | the process stops, or a read fails | `Stop` |
| the person | | `ReviseYaml`, `EditItem`, `RemoveStamp`, `DeleteItem`, `ResolveCreate` |

A step of the applier is two or three actions: the save that notes it, the request with the save that records its
outcome, and for a create the requests that finish it. What the service does within a request is one step, and a
request that fails may have landed in part (`LoseWriteAnswer`, `LoseRetireAnswer`, `LeaveUnfinished`, `FillFails`).
A create whose answer never arrives is `SendCreate` followed by `Stop`. The person acts between any two actions.
Reads are one action per item, so an edit may fall between the reads of two items, between a read and a write, and
between the decision and the last step.

Abstractions. One document with one target (several in `PlanOrder`); the order of sections (`SectionOrder`) and of
fields; the title, which a release keeps and which does not count as content, is left out of `FieldParts` instances;
stamps of other documents; an item restored from the trash; a request that lands after skaldr has given up on it;
links (`PlanOrder`, `JiraLinks`); what Jira's history reports beyond the text (`JiraWrites`); the refusals of overlong
link ids and of fields an item cannot hold (`SectionFields`); `_keep_each_target_as_written`, which changes no item;
a Notion section write whose second request, putting the stamp back, is refused (`NotionWrites`). `status` reads and
writes nothing. The compared parts are the same for every write of an item: Jira also compares its fields, Notion and
Slack only sections.

Bounds. `MaxEdits`, `MaxRevisions` and `MaxFaults` bound what the person does to the items, the changes of the YAML,
and stops with lost answers and rejected requests. When `Ids` are used up a create is rejected (`CannotCreate`).
The proofs hold for every value of these constants.

## The other machines

* **`Keychain`**: `item` is the keychain, `index` its list of names, `lock` the file lock, `mem[p]` what a command
  remembers (`_get`, `_index` without `fresh`). Each action is one keychain call of `save`, `forget`, `_entries`,
  `_migrate_legacy_entry`; a command waits, is stopped, or goes on between any two. `EarlierSignsIn` is an older
  skaldr that writes the old item without the lock. `ImplementsSignIns` maps the items to `kept` and what a command
  was told to `seen`: every operation is a single step of `SignIns`.
* **`NotionSignIn`**: `life` is each token at Notion, `stored` the keychain's, `cred`, `other`, `mayTake` and `renewed`
  a session's. `told` and `unheard` are kept for the properties: tokens a warning named, tokens whose command died.
  `SaveTimesOut` is followed by `SaveLate` or `SaveNever`.
* **`Callback`**: the handler threads of the redirect, step by step between `acquire`, the answer and `set`.
* **`Requests`**: one call of a client with its attempts, renewals and the polled task; `flying` is a request without an
  answer that may still land. `ImplementsWriteCall` maps the five outcomes to `WriteCall`'s.
* **`NotionWrites`, `JiraWrites`, `SlackWrites`**: `pc` is the next request of the operation, `seen` what it read last,
  `read` what the run read before, `hand` or `touched` what people changed since. `JiraWrites` looks for foreign
  entries in `history`, as Jira has no conditional write.
* **`JiraLinks`**: `held` is the state file's links, `issue` the service; a run notes, sends links one by one, notes
  again, or archives. Refusals and lost answers end the run.
* **`SectionFields`**: a section's fields find properties of a row and are shaped, sent, held in the database's spelling
  and read back. `Update` compares as the next publish does.
* **`ReplaceFile`**: `file` is what a reader finds, `disk` what may be there after the machine stopped.
* **`SectionOrder`**: contents are sequences of [key, text]; `steps` are the writes of `_section_updates` with the place
  `placed_section` counts; the next run knows `rendered`, `remote` and `writing`. **`Keying`** is `SectionLayout` over
  `difflib.SequenceMatcher`, written out.
* **`PlanOrder`**: several targets, each an item with the items split off it, created parents first, linked, and retired
  last; **`Drafts`** deals the blocks out and keys them.
* **`PageText`, `CanvasWrites`, `Description`**: the page as the service holds it, the sections as they were read back
  (`published`, `saved`), what people changed (`touched`), and the requests by the text they quote or send.
* **`Watching`**: `saved` are the files' times, `last` and `current` the loop's, `page` the saves it shows.
* **`Loading`**: one step loads the page and lists its files; `Swimlane`, `RequestCalls` and `Export` take a block or a
  document through validation, layout and output, a step each; `ExportFiles` writes a folder file by file.

Where a component is a function, its machine has the steps of the code (load; validate; lower, check, write), the
instance enumerates inputs, and the properties compare the results of parts that are written apart.

## What the runs check

Deadlock is checked in the runs of `Publish`, where a command can always be started; the components of the other runs
really stop (a call ends, a file is written).

| run | instances | distinct states |
| --- | --- | --- |
| `edits` | an item of a field and two sections (Jira), a page written into (Notion, Slack), an item of two commands, an item whose YAML goes back to an old text; up to 2 edits, 1 revision (3 in the last), 2 faults each | 2 538 935 |
| `creates` | a document and a split section from a template, 1 edit, 1 revision, 2 faults, 3 ids | 281 367 |
| `commands` | two commands at once on an item or a page written into, 1 edit, 1 revision, 1 fault | 2 086 133 |
| `sign_ins` | keychains of one site and of two workspaces, one with refusals and an earlier skaldr; 3 tokens, 3 commands, 2 faults; 3 handler threads; 2 calls of 4 attempts | 1 936 975 |
| `writes` | every operation on a Notion page, a Jira issue, two links, a canvas, a row and a file; up to 3 edits and 3 faults | 479 989 |
| `texts` | two pages' worth of drafts with tables, lists, code, child pages and repeated lines; canvases; descriptions; up to 2 edits and 2 writes | 28 219 |
| `plans` | 3 targets, 6 ids, 2 revisions, 1 delete, 1 fault; documents of up to 3 blocks; 3 sections in any order; 5 files in every content listed | 512 152 |
| `exports` | every kind of block alone under up to two containers, some under three, and pairs, to 4 targets; swimlanes of 2 lanes, 3 columns and up to 3 groups; requests and flows of up to 3 steps; a folder over several exports | 190 431 |
| `ends` | small instances of what must end | 235 089 |
| `unseen`, `dry`, `resumes` | small instances of `Publish` | one documented statement each, violated |

**`edits`, `creates`, `commands`.** `OwnWritesExplained`: a part that skaldr wrote last and that differs from the saved copy
is covered by the noted in-flight write. What an interrupted release has cleared of a page written into is left out:
when the document takes the page back, the code does report those parts as edited. `AppliedMeansPublished`: when an
apply ends well, the state file records the YAML it planned from (`RecordedAsPlanned`), and every part that a person did
not write last reads as the YAML says (`HoldsAsPlanned`), unless a command has overlooked it at some time (`Overlooked`, a
finding); `FileAndServiceAgree` of `edits` is the two together, with what was overlooked kept in a variable. `SeenBeforeOverwritten`: a run
replaces a person's edit of a compared part only with a text that the last diff of the item showed. `Tracked`,
`NoDuplicates`: the state file accounts for every item created, and none is created twice, also by two commands.

**`sign_ins`.** `EverySecretIsListedOnce`, `ImplementsSignIns`: the index lists every secret under one name, and the calls of
every operation add up to one step of the abstract store. `NoTokenForgotten`, `OnlyWorkingTokensSaved`: every token that
works is stored, in a command's hands or named by a warning, and no retired or revoked token is saved.
`TakesItsOwnAnswer`: the sign-in goes on with one answer, its own. `ImplementsWriteCall`: at most once, and "rejected" is
final. `MissingMeansMissing`: whichever call of a command reports an issue missing, it is, or the sign-in that an
earlier call had asked about was revoked since (`SignInGrewOld`, a finding).

**`writes`.** `DoneStands`: what an operation told as done stands in the service, an unfinished create is found again, and
edits that land meanwhile are shown next. `RejectedLeavesNoTrace`, for the operations of which only the first request
can be refused, the sections and the content of a Notion page that still has its stamp among them. `EditsAreKept`: nothing is replaced that the run has not read. `LinksAreAccountedFor`: every link is in
the state file and the stamp, an archived issue holds none and has one comment. `FieldsArrive`: a row holds what was
set, and the next run finds nothing to send. `OthersAreLeftAlone`: properties skaldr did not set stay, and a file that
appears is not replaced. `WholeFiles`: a replaced file is the earlier one or the new one, also after the machine stops.

**`texts`.** `UntouchedReadsAsPublished`, `WrittenReadsAsSent`, `RequestsAreSound`, `PeoplesTextStays`: sections nobody touched
show no edit whatever happened around them; what was written reads back as sent; each quote stands once and no block is
torn or turned into other markup; nobody's text is lost.

**`plans`.** `DoneIsInOrder`: after the last step the sections are those of the YAML in its order, wherever earlier runs
stopped. `NothingLost`: every item is held or noted, no section without its document. `EachBlockOnce`: each block goes to
one item under a key of its own. `PagesAreWhole`: a page of parts is what the parts say alone, and what it was made of
is what `--watch` follows. `RunsKeepTheirWord`: a finished run holds and links exactly what the YAML asks for, and blocks
that only move keep their keys.

**`exports`.** `AcceptedIsWritten`: what the check lets through, each writer writes and each service can show.
`EveryBlockOnceInOrder`: nothing is lost, repeated or moved, whole or by region, and the first rejection is shown.
`TheGridTiles`: a swimlane covers its grid, and is refused only when no order of its groups fits. `CallsAreWhole`: no
accepted request leaves a blank. `FolderIsAccountedFor`: exports replace nobody's file and never forget their own.

**`ends`.** `CommandsEnd`: sign-ins, logouts, handler threads and calls end however the other side answers.
`EndsPublished`: publishing or archiving again ends with service and state file as the YAML says, whatever was
interrupted. `EverySaveIsShown`: the page of `--watch` shows the last save. All under the fairness below.

Why these bounds. A hazard of the publish core needs at most two interruptions (one to leave something behind, one in
the run that settles it), one or two edits (before and after a diff), and one change of the YAML, or
three where a text has to come, go and come back. Two refs tell a
document from a section; a text the service formats (`raw` comes back as `plain`) tells what was written from what is
read. Two processes meet in every pair of steps; three threads are one more than can race for the redirect. Three
sections are the fewest whose difference of orders can name the wrong one. Nesting two containers meets every pair of
container rules of the writers, and three the ones that look two levels up. Ids, commands, tokens, keys and links are
symmetric in the runs that name none of them; liveness runs use no symmetry.

Bounds are constants (`MaxEdits`, `MaxFaults`, `MaxStops`, ...), each named at its declaration. `Attempts`, `Renewals` and
`LongestWait` are smaller than the code's numbers; the clients count up to them in the same way.

### Fairness

* `EndsPublished`, for the publish core: a command that has begun goes on (weak fairness of `Advance`; the program waits for nothing), the person
  runs `--apply --overwrite` again and again (strong, since other commands come in between) and does what a refusal
  over an interrupted create asks for.
* `CommandsEnd`: weak fairness of a command's own steps, of each handler thread, and of a client's steps: the code has a
  time limit wherever it waits for a service, so it goes on also when nothing answers. Nothing is assumed of the
  keychain's late answers, of other processes or of the service.
* `EndsPublished`, for links and canvases: weak fairness of a run, that is of a person who publishes again, and archives again after a failure,
  until nothing is left to do. Faults and changes of the YAML are bounded.
* `EverySaveIsShown`: the loop of `--watch` goes on; saves are bounded, and nothing is assumed of them.

## What the code does otherwise than its documents say

Three runs expect a violation:

* `dry`: a dry run after a create that stopped between its two requests fills the empty page. It sends a write,
  takes no lock, and saves nothing, so the guide's "never writes to a service or to the state file" does not hold.
* `unseen`: an item left by an interrupted create is recorded with whatever it holds by then as the copy to compare
  with. A person's text in it is then no edit, differs from the draft, and the same apply overwrites it unseen.
* `resumes`: a page written into that holds exactly the draft but no stamp is refused: it is read without a layout,
  so on Notion and Slack its text is under one key and never equals the draft.

The other findings of `PROJECT.json` were met while modelling. The runs that check the property keep the case out, by a
constant or by a condition in the property, so that they show what does hold; each finding names what brings it back:

| code | what happens | brought back by |
| --- | --- | --- |
| `auth/store.py:630`, `:601` | a moved or a refused entry stays in the keychain, unlisted | `EverySecretIsListed` in part `faults` of `MCSignIns` |
| `publish/jira/client.py:308` | a later issue is reported missing on an old answer | `MissingMeansMissing` without `SignInGrewOld` |
| `notion/transport.py:445`, `:338`, `jira/transport.py:540`, `slack/transport.py:159` | "rejected" after an earlier request of the operation landed | the operations `RejectedLeavesNoTrace` of `MCWrites` leaves out |
| `jira/transport.py:546` | an edit between the two requests of the read-back is recorded as published | `EditsAreShown` without `EditedSince` |
| `publish/reading.py:119` | the text of a lost write is taken for the published one, and a YAML that goes back finds nothing to change | `HoldsAsPlanned` of every part in instance `back` of `MCEdits` |
| `publish/applier.py:192` | a section that a person and the YAML removed is reported as edited by every later publish | `OnlyEditsStopARun` with `MaxHands <- 1` |
| `publish/reading.py:117`, `:118` | a moved section hides which write landed; a moved one is recorded in its new place | `OnlyEditsStopARun` in part `sections`; `MaxHands <- 1` |
| `notion/transport.py:471` | an emptied section above repeated lines refuses every later write | `UnchangedIsNotRefused` in part `repeated` |
| `notion/section_fields.py:249` | two fields meet in one property | a database with the one property `STATUS` |
| `cli.py:661`, `:666` | a save during the first render, or after an include is gone, is not shown | `EarlySaves`, `IncludeMoves` of `Watching` |
| `cli.py:602` | a save while the page is rendered is older than the page, and `--if-stale` takes the page for current | `FreshIsCurrent` without `~during` |
| `export/adf/blocks.py:356`, `:363`, `:367` | nestings the check lets through stop the Jira writer | `JiraExcludes` of `MCExports` |
| `export/notion.py:973`, `export/markdown.py:412` | lists that join; an alert in a list item | a detailed flow before a list; `TonedGridsInSteps` |
| `models/request.py:595` | a bound value leaves a blank that only a later step fills | such a value in `MCExports` |

## What is proved

Every theorem holds for every value of the constants its assumption admits: any number of processes, items, tokens,
requests and faults. The assumptions are evaluated by TLC in the runs (`MCSignIns`, `MCWrites` and `MCEnds` state them of
each instance). "`property`" below is what a run checks on an instance.

### The publish core

| theorem | states |
| --- | --- |
| `InductiveInvariant` | `Spec => []Inductive` |
| `TypeCorrect`, `EveryItemIsTracked`, `NothingPublishedTwice` | `Spec => []TypeOK`, `[]Tracked`, `[]NoDuplicates` |
| `ToldInvariant` | `Spec /\ DryRunWritesNothing => []Told` |
| `OwnWritesAreExplained` | `Spec /\ DryRunWritesNothing => []OwnWritesExplained` |
| `EditsAreSeenBeforeOverwritten` | `Spec /\ DryRunWritesNothing => SeenBeforeOverwritten` |
| `DryRunsWriteNothing` | `~Fills` proves `Spec => DryRunWritesNothing` |
| `EditsAreSafe` | `~Fills` proves `Spec => []OwnWritesExplained /\ SeenBeforeOverwritten` |
| `PlansAreFollowed`, `TextsAreFormed` | `Spec => []AsPlanned`, `Spec => []Formed` |
| `AppliedIsRecorded` | `Spec => []RecordedAsPlanned` |
| `AppliedIsHeld` | of every `r \in Refs` and `x \in Parts`: `Spec /\ DryRunWritesNothing /\ []~Overlooked(r, x) => []HoldsAsPlanned(r, x)` |
| `ApplyPublishes` | `Spec /\ DryRunWritesNothing => AppliedMeansPublished` |
| `UnfilledApplyPublishes` | `~Fills` proves `Spec => AppliedMeansPublished` |

The assumptions are the types of the constants, that `None` is none of the values it stands beside, and that the
service's form of a form is the form itself (`FormsAreStable`). TLC evaluates them in every run
of the publish core.

`NoDuplicates` and `Tracked` are not inductive. A create adds an item whose id the state file does not hold, and
only its entry in `pending_creates` accounts for it; so the invariant has to say that the entry is on disk while the
create is under way (`CreateIsNoted`), that there is one at most and that its ref holds no item in the service
(`PendingStandsForItsRef`), that what the command has in memory accounts for the items as well as the file does
(`StateOK` of both), what each place of a command may rely on (`ShapeOK`: which reads have been made, that the steps
left fit the drafts and the state; `KnowsOK`: that an item not read is not there), and that a command that may
write holds the lock (`WriterHoldsTheLock`), so that nobody else changes the file or creates anything meanwhile. TLC
checks `Inductive` in `creates` before anything is proved.

The proof has a lemma for each action. Most are instances of a few shared ones: what a person's step or another
command's request does to the service leaves every part of the invariant (`items` only lose life, an id never
changes what it was made for); a command that ends, or moves on without touching the file, leaves the others; a
command that saves replaces the file by a state its memory has accounted for. `PublishProofs` begins with the facts
about `Found`, `Settled`, `Plan` and the record updates that they cite.

#### Texts: `Told`

That an edit is never overwritten unseen rests on what a command knows of texts, from its first read to its last write.
`OwnWritesExplained` is an invariant of the file alone, and `SeenBeforeOverwritten` is about one step; neither is
inductive, because between the two stands a chain that only the memory of the command holds:

* the file explains each of skaldr's own texts that its copy does not have, and what it says was shown was shown
  (`Tells`, for the file and for the memory of the command that holds the lock);
* once an item of the YAML is read, the copy in memory has every one of skaldr's texts, for the in-flight write is
  settled (`Clean`), so what was read and the copy does not have is a person's and counts as edited (`News`);
* past the decision every such edit was in a diff (`ToldOf` at `ApplyPlaces`), and the file says what memory says;
* at a write, the note on disk says what is sent (`NoteOK`), so a write that lands in part stays explained; at a
  retirement the item is marked, so what a release clears is not taken for a text.

A write changes compared parts only where they still read as they were read, so what it replaces is either skaldr's own
or `News`, and `News` was shown. `Told` joins these; with `Inductive` it is preserved by every step. TLC checked `Told`
on the instances of `edits`, `creates` and `commands`, and with two commands on a templated service, before it was
proved.

The hypothesis `DryRunWritesNothing` is there for a reason. A dry run fills an empty page without the lock (the finding
of run `dry`). If it does so after another command has read that page, the text it writes is skaldr's, no file and no
memory accounts for it, and the next run takes it for a person's edit. So the two properties hold of the behaviours in
which that does not happen: all of them where the connector fills no page a create left empty (Jira, Slack),
which is `EditsAreSafe`.

The proof has a lemma for each action here too. Most of them come from three: a step that only takes items away or
hands parts to a person keeps `Tells` and `Clean`; a command that saves keeps what it knows if the saved state tells
the same; a step of a command without the lock leaves the writer's knowledge alone.

#### What an apply leaves: `AsPlanned`, `Follows`

That an apply that ends well has published its YAML says nothing of the places before the end, and nothing of the runs
before. Its two halves need an invariant each.

What is recorded (`AppliedIsRecorded`, in `PublishProofs`): while a command applies, the file says what its memory says,
and whatever of the YAML is not recorded is due in a step that is left, a part of a draft in a create or a write, a ref
without a draft in a retirement (`RefAsPlanned`). At the end no step is left. It holds of every behaviour, whatever dry
runs do.

What is held (`AppliedIsHeld`, in `PublishEditsProofs`) is harder, because a command that finds nothing to change relies on
a record that an earlier command left, and so on what each earlier one took for published. `Follows(r, x)` says it of one
part of one ref:

* where the service has the saved copy of a part nobody else wrote, the recorded draft gives that copy (`Mirrors`). Before
  the item is read there are two exceptions, a write under way and a release (`MayMirror`); reading the item and
  settling the write ends both, unless the command overlooks the part (`FoundMirrors`);
* past the reads, what was read is what is there, as long as the part is skaldr's own (`KnownOf`), and past the
  decision a part that is not due reads as the YAML says (`HasDraft`): either it was due and has been written, or the record
  matched the YAML and the copy matched the service;
* a create that is being finished has the parts that its first request carried.

It needs `Told` for "the copy matched the service" and `Formed`, that every text in the service is one the service gives
back, because a section that was moved is compared in the service's own formatting. `Overlooked` is the one thing that
breaks it, and it is no hypothesis that could be dropped: it describes the states in which `_settled` drops the note of a
lost write whose text was in the saved copy before (a finding; TLC finds the counterexample in instance `back`).
`DryRunWritesNothing` comes in through `Told`. TLC checked `AsPlanned`, `Formed` and `Follows` of all parts, with commands
that overlook nothing, on six instances (up to 6.8 million states, two commands and templates among them) before they were proved.

### The credential store: `KeychainProofs`

| theorem | for | states |
| --- | --- | --- |
| `KeychainInvariant` | every instance | `Spec => []Inductive` |
| `SecretsAreListed` | no earlier skaldr, no refused delete | `[]EverySecretIsListed` |
| `SecretsAreKeptOnce` | Jira (`LegacyReplaces`); Notion (`Renews`) without an earlier skaldr and refused deletes | `[]OneCopy` |
| `SecretsAreListedOnce` | both, without them | `[]EverySecretIsListedOnce` |
| `KeychainImplementsSignIns` | no earlier skaldr | `Spec => ImplementsSignIns`, that is `Store!Spec` |

The hypotheses are those of the run's instances, and none can be dropped: a refused delete leaves an entry unlisted,
and an earlier skaldr writes the old item at any moment (a finding each). `OneCopy` is not claimed for Slack: there the same secret can
be signed in again while the old item still holds it, and nothing promises otherwise.

What the callers see of the store is spread over three places: the items, the index, and what a command remembers of both.
So the invariant says: only the command with the lock is between two calls of an operation (`OneAtWork`); what its job
says fits where it is (`JobFits`); it deletes only what it found there, or what it knows to be a copy
(`DeletesWhatItFound`); what it takes the old item for is what is there (`LegacyIsMoved`, `MovesTheLegacy`). A name is
unlisted only after its entry is gone, and a remembered index is a reason not to write it only while it is still true (`Listed`,
`NothingLeftBehind`). For `OneCopy`, what an entry holds belongs to the place of its name (`KeptAtHome`), or, where tokens are new with each sign-in, no token
about to be saved is stored anywhere, and a move that was stopped is done again to the same name (`FreshUntilSet`, `OneTarget`). The
refinement then goes action by action: four of them (`Move`, `DropMoved`, `Set`, `Forget`) are steps of the store,
the call that reads an entry for a logout is `Find`, and the rest leave it alone. Each place has two names to choose from; the code goes
on with `-3`, `-4`, ... in a loop.

### Notion's tokens: `NotionSignIn`, `Callback`

| theorem | states |
| --- | --- |
| `TokensInvariant` | `Spec => []Inductive` |
| `TokensAreAccountedFor` | `Spec => [](NoTokenForgotten /\ StoredSignInWorks)` |
| `SavedTokensWork` | `Spec => OnlyWorkingTokensSaved` |
| `OneAnswerIsTaken` (in `KeychainProofs`) | `Spec => []TakesItsOwnAnswer`, for `Callback` |

That a working token is never forgotten needs to know who still has to do something about it (`Owes`): the command that is to
save it, to revoke it because it could not, or to revoke the one it replaced. Two processes renew the same
stored token, so it also needs that a token nobody has stored is in one command's hands only (`UnsavedIsApart`), and that
what a replacement is about to revoke is not the stored one again (`RevokedIsNotStored`). That is also why a save that lands
after its command gave up saves a working token. A stored token that no longer works has a command about to
replace or remove it, or a warning named it (`StoredIsCaredFor`). For the redirect: one thread holds `first_answer`,
which is never released, so one query is accepted, and the event is set after that (`OneIsBehind`, `ToldAfterAccepted`).

### The clients and files: `Requests`, `ReplaceFile`

| theorem | states |
| --- | --- |
| `CallInvariant` | `Spec => []Inductive` |
| `CallsImplementWriteCall` | `Spec => ImplementsWriteCall`, that is `Writing!Spec` |
| `MissingIsMissing` | `Spec => []MissingMeansMissing` |
| `FilesAreWhole` | `Spec => []WholeFiles` |
| `CreatesReplaceNothing` | `Spec => [][CreateReplacesNothing]_vars`, the half of `OthersAreLeftAlone` about files |

A call implements `WriteCall` for any number of attempts, renewals and waits, because a request is sent again only
after an answer that says it did nothing (`AnswerSays`), one request at most may still land (`LandsOnce`), and what is
told stands (`ToldStands`). `MissingIsMissing` is about every call of a command: the first one asks
whether Jira still takes the sign-in, and a later one rests on that answer, so what is reported missing is, unless
the sign-in was revoked between the two (a finding). The invariant of `ReplaceFile` has a part for each way of
writing (`StagedOK`, `InPlaceOK`, `CreateOK`): which places a call may have come to and what is in the file and on
disk there.

### The transports, folders, pages and plans: `WritesProofs`, `PlanProofs`

| theorem | for | states |
| --- | --- | --- |
| `RunsAreFollowed` | `JiraLinks` | `Spec => []LinksInvariant` |
| `LinksAreHeldAndMarked` | | `Spec => []LinksAreAccountedFor` |
| `PagesAreAccountedFor` | `NotionWrites` | `Spec => []PageInvariant` |
| `DoneMeansWritten` | | `Spec => [](DoneIsOnThePage /\ UnfinishedIsFound)` |
| `RefusedBeforeItWrote` | | `Spec => []RejectedFirst`: `RejectedLeavesNoTrace` of the operations of which only the first request can be refused (sections of a page with its stamp are left to the run) |
| `EditsAreKept` | | `Spec => [][KeepsEdits]_vars` |
| `WritesAreAccountedFor` | `JiraWrites` | `Spec => []IssueInvariant` |
| `EditsOfIssuesAreShown` | | `Spec => [](EditsAreShown /\ DoneIsOnTheIssue)` |
| `RejectedIssuesAreUnwritten` | | `Spec => []RejectedUnwritten`: as `RefusedBeforeItWrote` |
| `CanvasHoldsWhatIsTold` | `SlackWrites` | `Spec => [](DoneIsOnTheCanvas /\ ArchivedSaysSo)` |
| `CanvasRejectionsLeaveNoTrace` | | `Spec => [](op # "fields" => RejectedLeavesNoTrace)` |
| `CanvasWritesKeepEdits` | | `Spec => [][KeepsEdits]_vars` |
| `FoldersAreFollowed` | `ExportFiles` | `Spec => []FolderInvariant` |
| `FoldersAreAccountedFor` | | `Spec => [](OthersFilesStay /\ DoneLeavesTheExport) /\ [][KeepsStaleListed]_vars` |
| `FreshPagesAreCurrent` | `Watching` | `Spec => []FreshIsCurrent` |
| `PlansAreCarriedOut` | `PlanOrder` | `Spec => []PlanInvariant` |
| `ItemsAreAccountedFor` | | `Spec => [](SectionsHaveADocument /\ NothingLost)` |
| `DoneHoldsWhatIsDrafted` | | `Spec => [][DoneIsDrafted]_vars` |
| `LinksAreNotedFirst` | `PlanOrder`, `PagesAreApart` | `Spec => []LinkedInvariant` |
| `DoneIsLinkedBothWays` | | `Spec => [][DoneIsLinked]_vars` |

The first twelve are the parts of what `writes` checks that are about a page, an issue and its links, and a canvas, for any
sections, links, edits and faults; then comes what `exports` checks of the folder of an export, for any exports (`FolderAssumption`: each a sequence of
names) and any number of runs, and the safety half of what `ends` checks of `--watch` and `--if-stale`, for any files and includes. `NotionAssumption` says that a draft has no section twice and that a section is not the stamp or a
person's notes; `SlackAssumption`, that a draft has a section and none is the stamp, the line of an archived document or a
person's notes. Of a canvas, the operation on the fields is left out of what a rejection says, as in the run: there it is false
(a finding). Of an issue, the history and the issue are read back in two requests, with edits between them: what
is shown is every edit that came before the first, and one between the two (a finding) is named in what the history
has grown by (`EditedSince`).

None of the properties says what is at the service between two requests, so each invariant says it for every place.
For links, a run works off copies: what it took from the stamp is what the stamp says until it writes it (`StampIsRead`),
each request is one its place can send (`RunFits`), and an archive is behind the deletes it needs (`LinksAreFollowed`). For
a page, a text nobody has touched is what was read or what was asked for, depending on how far the operation is, and a create knows
how many of its sections are there; the stamp and the properties come where the place says. For an issue, the
length of its history tells whether there was an edit: it is the marker, or one more once the write has landed, only if
nobody else has changed the issue (`LengthIfAlone`), so a history read back at that length was read before any edit. For a
canvas, every write replaces or adds to a body as a whole, so each has a lemma of what the body holds after it (`SwappedBody`,
`KeptBody`, `ArchivedBodyIs`, ...); what the operation read of the content is what the run read before (`ReadingIsCurrent`), a
canvas has one stamp at most (`StampIsSingle`), and what is wanted stands on a canvas nobody changed from the moment the body is
written (`WritesAreThere`). For a
folder, the names left to write are the end of the export's (`WhatIsLeft`) and free or skaldr's (`NamesAreFree`); what has been
written or removed is so unless people touched it (`WrittenOrRemoved`), and a name is on the list until its file is gone
(`ListedUntilRemoved`), which lets a run that stops anywhere be followed by any other export. For a rendered page, everything
read is what is saved now, or gone, unless a file was saved since (`ReadIsSaved`), and a save makes the page older than a file it
uses. The model checker went through all six invariants on the instances of the runs before they were proved.

#### Plans: `PlanInvariant` and `LinkedInvariant`

The last five theorems, in `PlanProofs`, are the part of `plans` that is about items: any targets, sections and publish blocks, any number
of deletes, stops and revisions. `PlanAssumption` says that a block drafts each target once and splits each section off
once, which the model of the publish block refuses otherwise, and that `None` is neither an id nor a ref;
`PagesAreApart`, that no two targets name one page. `_validate_distinct_locations` refuses two targets at one place, but
takes a Slack canvas named with its workspace and without it for two places, so it is a hypothesis of the two theorems that
need it and no part of `PlanAssumption`. TLC evaluates both in `plans`.

*The plan* (`IsPlan`) is a statement about a sequence of steps, and not about how it was put together: no ref has two
steps; a create is of what is drafted and not held, or missing, and its document is held or comes before it (`CreatesFit`);
a retirement is of what is held and not drafted, and its document's comes after it (`RetiresFit`); what is drafted is held
or will be, and what is not is retired (`LeavesDrafted`). `PlanOfARun` shows that `Plan` is one, from lemmas about its parts
(`CreatesOfATarget`, `RetirementsOfATarget`, `PlanOfATarget`, `PlanOfARemovedTarget`) and about a sequence of sequences
joined (`FlattenedSteps`, `JoinedPlans`: `Joins` says of each element where it is from); `PlanGoesOn` shows that the tail is
one when the first step is done, and `WhenItemsGo` that it stays one when something is deleted.

*Between two runs* `NothingLost` is not inductive: a create that was noted and not recorded must say where the item it may
have made is. So at most one is noted, what it has made is where it says, and what is held in its place is gone
(`NotedFits`); what is noted at each place of a step is what the step needs (`StepFits`); and a document that is being
retired has no sections left and gets none (`RetiringIsLast`), so that a run may drop it when it has gone. With it `Settled`
shows that settling the interrupted creates finds every item that nothing holds.

*Links* are noted before they are written, so what is on an item that is there was noted (`LinksFit`), no two refs hold one
item, and a page that is there is its own target's document's (`HeldApart`): a link written to one item changes no other. A
page that is created anew or taken up again has no links (`MadeFits`), which rests on `PagesAreApart`.

That `FlattenSeq` joins its sequences (`Flattened`) is proved by induction over the numbers, as a statement about a set of
numbers and its least element (`Induct`), because the library's theorems of induction cannot be instantiated. `SlackWrites`
picks blocks out of a body with it too (`Among`, `AmongThem`).

### Only model-checked

* A database row (`SectionFields`) request by request, and the order of the sections of one item (`SectionOrder`), which
  reaches the recursive `MatchingBlocks` of `Keying`.
* The texts and the exports (`PageText`, `CanvasWrites`, `Description`, `Drafts`, `Export`, `Swimlane`, `RequestCalls`): they
  are recursive functions of data, compared over the enumerated inputs.
* Liveness (`CommandsEnd`, `EndsPublished`, `EverySaveIsShown`), which is out of the prover's reach.
* What the recursive functions of `Keying`, `Loading`, `ExportTree` and `RequestCalls` compute: they are operators the
  prover does not expand, and are checked over the enumerated inputs.

## Not modelled

* `auth/templates.py`: one small file, read, changed and replaced under a lock by one command.
* Prompts of the other sign-ins, and look-ups of people, icons and covers: one request each, without state.
* `publish status`, argument parsing, printing, and the text of messages, stamps and refusals.
* Rendering (`render.py`, `charts.py`, `richtext.py`, `pdf.py`, ...), the outline and the guide: pure formatting that
  promises a text.
* In the export: runs of text, mermaid and the sizes a service allows; in the content model: the declarations that its
  types validate field by field; numbering of headings and references.

## Plan

Done: the publish core with its inductive invariants and fifteen theorems; the credential store, the Notion sign-in,
its redirect, the clients and the replacement of files with their invariants, two refinements and fourteen theorems; the
writes of a Notion page, a Jira issue and its links and a Slack canvas, the folder of an export, the page of `--if-stale` and
the plan of a run with their invariants and twenty theorems; the texts, the export and the small machines, model-checked.

1. `SectionOrder`, where what it promises does not rest on sequences that are filtered.
