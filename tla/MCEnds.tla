------------------------------- MODULE MCEnds --------------------------------
(***************************************************************************)
(* What must come to an end, on small instances: a command that signs in,  *)
(* the answer of a browser, a call to a service, an issue's links, the     *)
(* archiving of a canvas, a page that is rendered on every save, and an    *)
(* item that is published again whatever was interrupted.                  *)
(***************************************************************************)
EXTENDS Naturals, FiniteSets

CONSTANTS
  p, q, t1, t2, t3, h1, h2, l1, l2, doc, intro, blank, plain, another, raw, unkeyed, None

VARIABLES
  part,    \* the component this behaviour is of
  life, stored, at, cred, other, mayTake, renewed, late, told, unheard,
  replaced, commands, expiries, faults, request, firstAnswer, accepted,
  answered, waiter, service, writes, task, attempt, renewals, waited, answer,
  flying, landed, outcome, checked, exists, signedIn, calls, paired, dropped,
  held, issue, wanted, current, todo, stamp, pc, changes, removed, canvas,
  read, seen, op, hand, edits, clock, saved, valid, includes, page, loaded,
  source, watched, last, during, yaml, items, disk, lock, run, revisions

\* An answer, one without a code, one of another sign-in and one to another path.
SomeRequests ==
  {[path |-> TRUE, state |-> TRUE, answer |-> TRUE],
   [path |-> TRUE, state |-> TRUE, answer |-> FALSE],
   [path |-> TRUE, state |-> FALSE, answer |-> TRUE],
   [path |-> FALSE, state |-> TRUE, answer |-> TRUE]}

\* The service gives `raw` back as `plain`.
Formatted ==
  [t \in {blank, plain, another, raw, unkeyed} |-> IF t = raw THEN plain ELSE t]

Draft(t) == [r \in {doc} |-> [x \in {intro} |-> t]]

SignIn == INSTANCE NotionSignIn WITH
  Procs <- {p, q}, Tokens <- {t1, t2, t3}, MaxCommands <- 2, MaxExpiries <- 1,
  MaxFaults <- 1

Listener == INSTANCE Callback WITH
  Threads <- {h1, h2}, Requests <- SomeRequests

Client == INSTANCE Requests WITH
  Attempts <- 4, Renewals <- 2, LongestWait <- 2, MaxCalls <- 1

Issue == INSTANCE JiraLinks WITH
  Links <- {l1, l2}, MaxChanges <- 2, MaxRemoved <- 1, MaxFaults <- 2

Canvas == INSTANCE SlackWrites WITH
  Sections <- <<"s1", "s2">>, Ops <- {"archive"}, MaxEdits <- 2,
  MaxFaults <- 2

Watch == INSTANCE Watching WITH
  Command <- "watch", EarlySaves <- FALSE, IncludeMoves <- FALSE,
  MaxWrites <- 6

IfStale == INSTANCE Watching WITH
  Command <- "if-stale", EarlySaves <- TRUE, IncludeMoves <- TRUE,
  MaxWrites <- 7

Publishing == INSTANCE PublishProperties WITH
  Procs <- {p}, Refs <- {doc}, Document <- doc, FieldParts <- {},
  SectionParts <- {intro}, Compared <- {intro},
  Texts <- {blank, plain, another, raw, unkeyed}, Blank <- blank,
  Unkeyed <- unkeyed, Form <- Formatted, Ids <- 1..4, Into <- None,
  FirstYaml <- Draft(raw), Yamls <- {Draft(raw), Draft(another)},
  WholeContent <- FALSE, Keyed <- FALSE, Templated <- TRUE, Fills <- TRUE, MaxEdits <- 1,
  MaxRevisions <- 0, MaxFaults <- 2

Revising == INSTANCE PublishProperties WITH
  Procs <- {p}, Refs <- {doc}, Document <- doc, FieldParts <- {},
  SectionParts <- {intro}, Compared <- {intro},
  Texts <- {blank, plain, another, raw, unkeyed}, Blank <- blank,
  Unkeyed <- unkeyed, Form <- Formatted, Ids <- 1..3, Into <- None,
  FirstYaml <- Draft(raw), Yamls <- {Draft(raw), Draft(another)},
  WholeContent <- FALSE, Keyed <- FALSE, Templated <- TRUE, Fills <- TRUE, MaxEdits <- 1,
  MaxRevisions <- 1, MaxFaults <- 1

ASSUME SignIn!NotionAssumption /\ Listener!CallbackAssumption /\ Client!RequestsAssumption
ASSUME Issue!LinksAssumption /\ Canvas!SlackAssumption
ASSUME Watch!WatchAssumption /\ IfStale!WatchAssumption

------------------------------------------------------------------------------
(* One component at a time: the variables of the others hold nothing.        *)

notionSignInVars == <<
  life, stored, cred, other, mayTake, renewed, late, unheard, replaced,
  commands, expiries>>
callbackVars == <<request, firstAnswer, accepted, answered, waiter>>
requestsVars == <<
  service, writes, task, attempt, renewals, waited, answer, flying, outcome,
  checked, exists, signedIn, calls>>
jiraLinksVars == <<paired, dropped, held, issue, todo, stamp, changes, removed>>
slackWritesVars == <<canvas, read, op, hand>>
watchingVars == <<
  clock, saved, valid, includes, page, loaded, source, watched, last, during>>
publishVars == <<yaml, items, disk, lock, run, revisions>>
vars == <<part, notionSignInVars, at, told, faults, callbackVars, requestsVars, landed,
  jiraLinksVars, wanted, current, pc, slackWritesVars, seen, edits,
  watchingVars, publishVars>>

NoNotionSignIn ==
  /\ life = None /\ stored = None /\ cred = None /\ other = None
  /\ mayTake = None /\ renewed = None /\ late = None /\ unheard = None
  /\ replaced = None /\ commands = None /\ expiries = None
NoCallback ==
  /\ request = None /\ firstAnswer = None /\ accepted = None
  /\ answered = None /\ waiter = None
NoRequests ==
  /\ service = None /\ writes = None /\ task = None /\ attempt = None
  /\ renewals = None /\ waited = None /\ answer = None /\ flying = None
  /\ outcome = None /\ checked = None /\ exists = None /\ signedIn = None
  /\ calls = None
NoJiraLinks ==
  /\ paired = None /\ dropped = None /\ held = None /\ issue = None
  /\ todo = None /\ stamp = None /\ changes = None /\ removed = None
NoSlackWrites ==
  /\ canvas = None /\ read = None /\ op = None /\ hand = None
NoWatching ==
  /\ clock = None /\ saved = None /\ valid = None /\ includes = None
  /\ page = None /\ loaded = None /\ source = None /\ watched = None
  /\ last = None /\ during = None
NoPublish ==
  /\ yaml = None /\ items = None /\ disk = None /\ lock = None /\ run = None
  /\ revisions = None

Init ==
  \/ /\ part = "command" /\ SignIn!Init
     /\ NoCallback /\ NoRequests /\ landed = None /\ NoJiraLinks
     /\ wanted = None /\ current = None /\ pc = None /\ NoSlackWrites
     /\ seen = None /\ edits = None /\ NoWatching /\ NoPublish
  \/ /\ part = "browser" /\ Listener!Init
     /\ NoNotionSignIn /\ told = None /\ faults = None /\ NoRequests
     /\ landed = None /\ NoJiraLinks /\ wanted = None /\ current = None
     /\ pc = None /\ NoSlackWrites /\ seen = None /\ edits = None
     /\ NoWatching /\ NoPublish
  \/ /\ part = "call" /\ Client!Init
     /\ NoNotionSignIn /\ told = None /\ faults = None /\ NoCallback
     /\ NoJiraLinks /\ wanted = None /\ current = None /\ pc = None
     /\ NoSlackWrites /\ seen = None /\ edits = None /\ NoWatching
     /\ NoPublish
  \/ /\ part = "links" /\ Issue!Init
     /\ NoNotionSignIn /\ at = None /\ told = None /\ NoCallback /\ NoRequests
     /\ landed = None /\ NoSlackWrites /\ seen = None /\ edits = None
     /\ NoWatching /\ NoPublish
  \/ /\ part = "canvas" /\ Canvas!Init
     /\ NoNotionSignIn /\ at = None /\ NoCallback /\ NoRequests /\ NoJiraLinks
     /\ current = None /\ NoWatching /\ NoPublish
  \/ /\ part = "watch" /\ Watch!Init
     /\ NoNotionSignIn /\ at = None /\ told = None /\ faults = None
     /\ NoCallback /\ NoRequests /\ landed = None /\ NoJiraLinks
     /\ wanted = None /\ NoSlackWrites /\ seen = None /\ edits = None
     /\ NoPublish
  \/ /\ part = "stale" /\ IfStale!Init
     /\ NoNotionSignIn /\ at = None /\ told = None /\ faults = None
     /\ NoCallback /\ NoRequests /\ landed = None /\ NoJiraLinks
     /\ wanted = None /\ NoSlackWrites /\ seen = None /\ edits = None
     /\ NoPublish
  \/ /\ part = "publish" /\ Publishing!Init
     /\ NoNotionSignIn /\ at = None /\ told = None /\ NoCallback /\ NoRequests
     /\ landed = None /\ NoJiraLinks /\ wanted = None /\ current = None
     /\ NoSlackWrites /\ NoWatching
  \/ /\ part = "revised" /\ Revising!Init
     /\ NoNotionSignIn /\ at = None /\ told = None /\ NoCallback /\ NoRequests
     /\ landed = None /\ NoJiraLinks /\ wanted = None /\ current = None
     /\ NoSlackWrites /\ NoWatching

SignInSteps ==
  /\ part = "command" /\ SignIn!Next
  /\ UNCHANGED <<part, callbackVars, requestsVars, landed, jiraLinksVars,
                  wanted, current, pc, slackWritesVars, seen, edits,
                  watchingVars, publishVars>>
ListenerSteps ==
  /\ part = "browser" /\ Listener!Next
  /\ UNCHANGED <<part, notionSignInVars, told, faults, requestsVars, landed,
                  jiraLinksVars, wanted, current, pc, slackWritesVars, seen,
                  edits, watchingVars, publishVars>>
ClientSteps ==
  /\ part = "call" /\ Client!Next
  /\ UNCHANGED <<part, notionSignInVars, told, faults, callbackVars,
                  jiraLinksVars, wanted, current, pc, slackWritesVars, seen,
                  edits, watchingVars, publishVars>>
IssueSteps ==
  /\ part = "links" /\ Issue!Next
  /\ UNCHANGED <<part, notionSignInVars, at, told, callbackVars, requestsVars,
                  landed, slackWritesVars, seen, edits, watchingVars,
                  publishVars>>
CanvasSteps ==
  /\ part = "canvas" /\ Canvas!Next
  /\ UNCHANGED <<part, notionSignInVars, at, callbackVars, requestsVars,
                  jiraLinksVars, current, watchingVars, publishVars>>
WatchSteps ==
  /\ part = "watch" /\ Watch!Next
  /\ UNCHANGED <<part, notionSignInVars, at, told, faults, callbackVars,
                  requestsVars, landed, jiraLinksVars, wanted,
                  slackWritesVars, seen, edits, publishVars>>
IfStaleSteps ==
  /\ part = "stale" /\ IfStale!Next
  /\ UNCHANGED <<part, notionSignInVars, at, told, faults, callbackVars,
                  requestsVars, landed, jiraLinksVars, wanted,
                  slackWritesVars, seen, edits, publishVars>>
PublishingSteps ==
  /\ part = "publish" /\ Publishing!Next
  /\ UNCHANGED <<part, notionSignInVars, at, told, callbackVars, requestsVars,
                  landed, jiraLinksVars, wanted, current, slackWritesVars,
                  watchingVars>>
RevisingSteps ==
  /\ part = "revised" /\ Revising!Next
  /\ UNCHANGED <<part, notionSignInVars, at, told, callbackVars, requestsVars,
                  landed, jiraLinksVars, wanted, current, slackWritesVars,
                  watchingVars>>

Next == SignInSteps \/ ListenerSteps \/ ClientSteps \/ IssueSteps \/
        CanvasSteps \/ WatchSteps \/ IfStaleSteps \/ PublishingSteps \/
        RevisingSteps

Spec == Init /\ [][Next]_vars

\* A command that has begun goes on; threads are scheduled; a client waits for
\* nothing but its own timeouts; a person publishes and archives again until
\* nothing is left; the loop of --watch goes on; and a person publishes again
\* with --overwrite and does what a refusal over an interrupted create asks for.
Goes(x) ==
  /\ part = "command" /\ SignIn!Advance(x)
  /\ UNCHANGED <<part, callbackVars, requestsVars, landed, jiraLinksVars,
                  wanted, current, pc, slackWritesVars, seen, edits,
                  watchingVars, publishVars>>
Hears ==
  /\ part = "browser" /\ Listener!Take
  /\ UNCHANGED <<part, notionSignInVars, told, faults, requestsVars, landed,
                  jiraLinksVars, wanted, current, pc, slackWritesVars, seen,
                  edits, watchingVars, publishVars>>
Handles(h) ==
  /\ part = "browser" /\ Listener!Handle(h)
  /\ UNCHANGED <<part, notionSignInVars, told, faults, requestsVars, landed,
                  jiraLinksVars, wanted, current, pc, slackWritesVars, seen,
                  edits, watchingVars, publishVars>>
Calls ==
  /\ part = "call" /\ Client!Client
  /\ UNCHANGED <<part, notionSignInVars, told, faults, callbackVars,
                  jiraLinksVars, wanted, current, pc, slackWritesVars, seen,
                  edits, watchingVars, publishVars>>
Publishes ==
  /\ part = "links" /\ Issue!Run
  /\ UNCHANGED <<part, notionSignInVars, at, told, callbackVars, requestsVars,
                  landed, slackWritesVars, seen, edits, watchingVars,
                  publishVars>>
Archives ==
  /\ part = "canvas" /\ Canvas!Skaldr
  /\ UNCHANGED <<part, notionSignInVars, at, callbackVars, requestsVars,
                  jiraLinksVars, current, watchingVars, publishVars>>
Watches ==
  /\ part = "watch" /\ Watch!Skaldr
  /\ UNCHANGED <<part, notionSignInVars, at, told, faults, callbackVars,
                  requestsVars, landed, jiraLinksVars, wanted,
                  slackWritesVars, seen, edits, publishVars>>
Runs ==
  /\ \/ part = "publish" /\ Publishing!Advance(p)
     \/ part = "revised" /\ Revising!Advance(p)
  /\ UNCHANGED <<part, notionSignInVars, at, told, callbackVars, requestsVars,
                  landed, jiraLinksVars, wanted, current, slackWritesVars,
                  watchingVars>>
Begins ==
  /\ \/ part = "publish" /\ Publishing!Prepare(p, "overwrite")
     \/ part = "revised" /\ Revising!Prepare(p, "overwrite")
  /\ UNCHANGED <<part, notionSignInVars, at, told, callbackVars, requestsVars,
                  landed, jiraLinksVars, wanted, current, slackWritesVars,
                  watchingVars>>
Resolves ==
  /\ \/ part = "publish" /\ Publishing!ResolveCreate
     \/ part = "revised" /\ Revising!ResolveCreate
  /\ UNCHANGED <<part, notionSignInVars, at, told, callbackVars, requestsVars,
                  landed, jiraLinksVars, wanted, current, slackWritesVars,
                  watchingVars>>

FairSpec ==
  /\ Spec
  /\ \A x \in {p, q} : WF_vars(Goes(x))
  /\ WF_vars(Hears) /\ \A h \in {h1, h2} : WF_vars(Handles(h))
  /\ WF_vars(Calls) /\ WF_vars(Publishes) /\ WF_vars(Archives) /\ WF_vars(Watches)
  /\ WF_vars(Runs) /\ SF_vars(Begins) /\ SF_vars(Resolves)

------------------------------------------------------------------------------
(* Properties                                                                *)

\* A command that has begun ends, whatever other processes do with the sign-in
\* (_sign_in_to_notion, _log_out_of_notion, NotionSession.renew); a browser that
\* is told the sign-in succeeded did succeed or came after it gave up
\* (wait_for_callback); and a call ends however the service answers, renews and
\* queues (RETRY_ATTEMPTS, LONGEST_TASK_WAIT_SECONDS).
CommandsEnd ==
  /\ \A x \in {p, q} : (part = "command" /\ SignIn!Busy(x)) ~> (part = "command" /\ ~SignIn!Busy(x))
  /\ \A h \in {h1, h2} : (part = "browser" /\ Listener!Told(h)) ~> (part = "browser" /\ Listener!Over)
  /\ (part = "call" /\ Client!Sending) ~> (part = "call" /\ Client!Ended)

\* Published until nothing is left to do, an issue shows the links the YAML pairs
\* it with or is archived (links.py, _archive); a canvas that is archived again
\* after every failure is archived (slack/transport.py, archive_item); and once
\* edits, faults and changes of the YAML have come to an end, publishing again
\* brings the service and the state file to the YAML, whatever was interrupted
\* (apply_publish, settle_interrupted_creates).
EndsPublished ==
  /\ <>[](part = "links" => Issue!Settled)
  /\ (part = "canvas" /\ Canvas!Archiving) ~> (part = "canvas" /\ Canvas!Archived)
  /\ <>[](part = "publish" => Publishing!Published)
  /\ <>[](part = "revised" => Revising!Published)

\* Once nobody saves any more, the page of --watch shows what is there, and a page
\* that --if-stale takes for current is (README.md, cli.py _watch, _is_stale).
EverySaveIsShown ==
  /\ <>[](part = "watch" => Watch!Shown)
  /\ [](part = "stale" => IfStale!FreshIsCurrent)

==============================================================================
