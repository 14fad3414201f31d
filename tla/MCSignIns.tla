------------------------------ MODULE MCSignIns ------------------------------
(***************************************************************************)
(* What keeps the sign-ins and what calls a service with them: the         *)
(* keychain at one Jira site and with two Notion workspaces, Notion's      *)
(* tokens, the listener of its redirect, and one call of a service client. *)
(***************************************************************************)
EXTENDS TLC

CONSTANTS
  p, q, a, b, a1, a2, b1, b2, legacy, tok1, tok2, tok3, bad,
  h1, h2, h3, Unread, None

VARIABLES
  part,    \* the component this behaviour is of
  item, index, lock, at, job, mem, commands, stops, refusals, earlier, life,
  stored, cred, other, mayTake, renewed, late, told, unheard, replaced,
  expiries, faults, request, firstAnswer, accepted, answered, waiter, service,
  writes, task, attempt, renewals, waited, answer, flying, landed, outcome,
  checked, exists, signedIn, calls

Procs == {p, q}
OneSite == a :> <<a1, a2>>
TwoNames == a :> <<a1, a2>> @@ b :> <<b1, b2>>
HomesAtOneSite == tok1 :> a @@ tok2 :> a @@ bad :> None
TwoHomes == tok1 :> a @@ tok3 :> b

\* An answer, one without a code, one of another sign-in, one to another path.
SomeRequests ==
  {[path |-> TRUE, state |-> TRUE, answer |-> TRUE],
   [path |-> TRUE, state |-> TRUE, answer |-> FALSE],
   [path |-> TRUE, state |-> FALSE, answer |-> TRUE],
   [path |-> FALSE, state |-> TRUE, answer |-> TRUE]}

JiraKeychain == INSTANCE Keychain WITH
  Procs <- {p, q}, Legacy <- legacy, Places <- {a}, Candidate <- OneSite,
  Secrets <- {tok1, tok2, bad}, Current <- {tok1, tok2},
  Home <- HomesAtOneSite, LegacyReplaces <- TRUE, Renews <- FALSE,
  MaxCommands <- 2, MaxStops <- 1, MaxRefusals <- 0, MaxEarlier <- 0

NotionKeychain == INSTANCE Keychain WITH
  Procs <- {p, q}, Legacy <- legacy, Places <- {a, b}, Candidate <- TwoNames,
  Secrets <- {tok1, tok3}, Current <- {tok1, tok3}, Home <- TwoHomes,
  LegacyReplaces <- FALSE, Renews <- TRUE, MaxCommands <- 2, MaxStops <- 0,
  MaxRefusals <- 0, MaxEarlier <- 0

FaultyKeychain == INSTANCE Keychain WITH
  Procs <- {p, q}, Legacy <- legacy, Places <- {a}, Candidate <- OneSite,
  Secrets <- {tok1, tok2, bad}, Current <- {tok1, tok2},
  Home <- HomesAtOneSite, LegacyReplaces <- TRUE, Renews <- FALSE,
  MaxCommands <- 2, MaxStops <- 1, MaxRefusals <- 1, MaxEarlier <- 1

SignIn == INSTANCE NotionSignIn WITH
  Procs <- {p, q}, Tokens <- {tok1, tok2, tok3}, MaxCommands <- 3,
  MaxExpiries <- 1, MaxFaults <- 2

Listener == INSTANCE Callback WITH
  Threads <- {h1, h2, h3}, Requests <- SomeRequests

Client == INSTANCE Requests WITH
  Attempts <- 4, Renewals <- 2, LongestWait <- 2, MaxCalls <- 2

ASSUME JiraKeychain!KeychainAssumption /\ NotionKeychain!KeychainAssumption
ASSUME FaultyKeychain!KeychainAssumption
ASSUME SignIn!NotionAssumption /\ Listener!CallbackAssumption /\ Client!RequestsAssumption

Symmetry == Permutations({p, q}) \cup Permutations({tok1, tok2})

------------------------------------------------------------------------------
(* One component at a time: the variables of the others hold nothing.        *)

keychainVars == <<item, index, lock, job, mem, stops, refusals, earlier>>
notionSignInVars == <<
  life, stored, cred, other, mayTake, renewed, late, told, unheard, replaced,
  expiries, faults>>
callbackVars == <<request, firstAnswer, accepted, answered, waiter>>
requestsVars == <<
  service, writes, task, attempt, renewals, waited, answer, flying, landed,
  outcome, checked, exists, signedIn, calls>>
vars == <<part, keychainVars, at, commands, notionSignInVars, callbackVars, requestsVars>>

NoKeychain ==
  /\ item = None /\ index = None /\ lock = None /\ job = None /\ mem = None
  /\ stops = None /\ refusals = None /\ earlier = None
NoNotionSignIn ==
  /\ life = None /\ stored = None /\ cred = None /\ other = None
  /\ mayTake = None /\ renewed = None /\ late = None /\ told = None
  /\ unheard = None /\ replaced = None /\ expiries = None /\ faults = None
NoCallback ==
  /\ request = None /\ firstAnswer = None /\ accepted = None
  /\ answered = None /\ waiter = None
NoRequests ==
  /\ service = None /\ writes = None /\ task = None /\ attempt = None
  /\ renewals = None /\ waited = None /\ answer = None /\ flying = None
  /\ landed = None /\ outcome = None /\ checked = None /\ exists = None
  /\ signedIn = None /\ calls = None

Init ==
  \/ /\ part = "jira" /\ JiraKeychain!Init
     /\ NoNotionSignIn /\ NoCallback /\ NoRequests
  \/ /\ part = "notion" /\ NotionKeychain!Init
     /\ NoNotionSignIn /\ NoCallback /\ NoRequests
  \/ /\ part = "faults" /\ FaultyKeychain!Init
     /\ NoNotionSignIn /\ NoCallback /\ NoRequests
  \/ /\ part = "tokens" /\ SignIn!Init
     /\ NoKeychain /\ NoCallback /\ NoRequests
  \/ /\ part = "redirect" /\ Listener!Init
     /\ NoKeychain /\ commands = None /\ NoNotionSignIn /\ NoRequests
  \/ /\ part = "call" /\ Client!Init
     /\ NoKeychain /\ commands = None /\ NoNotionSignIn /\ NoCallback

JiraKeychainSteps ==
  /\ part = "jira" /\ JiraKeychain!Next
  /\ UNCHANGED <<part, notionSignInVars, callbackVars, requestsVars>>
NotionKeychainSteps ==
  /\ part = "notion" /\ NotionKeychain!Next
  /\ UNCHANGED <<part, notionSignInVars, callbackVars, requestsVars>>
FaultyKeychainSteps ==
  /\ part = "faults" /\ FaultyKeychain!Next
  /\ UNCHANGED <<part, notionSignInVars, callbackVars, requestsVars>>
SignInSteps ==
  /\ part = "tokens" /\ SignIn!Next
  /\ UNCHANGED <<part, keychainVars, callbackVars, requestsVars>>
ListenerSteps ==
  /\ part = "redirect" /\ Listener!Next
  /\ UNCHANGED <<part, keychainVars, commands, notionSignInVars,
                  requestsVars>>
ClientSteps ==
  /\ part = "call" /\ Client!Next
  /\ UNCHANGED <<part, keychainVars, commands, notionSignInVars,
                  callbackVars>>

Next == JiraKeychainSteps \/ NotionKeychainSteps \/ FaultyKeychainSteps \/
        SignInSteps \/ ListenerSteps \/ ClientSteps

Spec == Init /\ [][Next]_vars

------------------------------------------------------------------------------
(* Properties                                                                *)

\* The index lists every item that holds a secret, whatever stopped halfway, so
\* `status` and `logout` find them all (store.py _write lists, then sets, and
\* forget deletes, then unlists, while other commands read a remembered index);
\* and a sign-in is never under two of its service's names, also when a move
\* out of the old item stops before that is deleted and is done again.
EverySecretIsListedOnce ==
  /\ part = "jira" => JiraKeychain!EverySecretIsListedOnce
  /\ part = "notion" => NotionKeychain!EverySecretIsListedOnce
  /\ part = "faults" => FaultyKeychain!OneCopy

Names == {a1, a2, b1, b2}
InKeychain == part \in {"jira", "notion"}

Store == INSTANCE SignIns WITH
  Legacy <- legacy, Secrets <- {tok1, tok2, tok3, bad},
  kept <- [n \in Names \cup {legacy} |->
             IF InKeychain THEN IF n \in DOMAIN item THEN item[n] ELSE None ELSE None],
  seen <- [x \in Procs |-> IF part = "jira" THEN JiraKeychain!Found(x)
                            ELSE IF part = "notion" THEN NotionKeychain!Found(x) ELSE None]

\* The calls of an operation and the interruptions between them add up to the
\* single steps callers rely on: a logout removes only what it read, a save
\* stored meanwhile is kept, and the old item goes only once it is copied
\* (store.py save, forget, _migrate_legacy_entry).
ImplementsSignIns == Store!Spec

\* A token that works is the stored one, in the hands of a command, or one a
\* warning named: sign-in, replacement and logout never leave one behind
\* (auth/notion.py _run_or_revoke, _revoke_replaced_token).  And once no command
\* is at work, the stored sign-in can be used or renewed (NotionSession.renew).
NoTokenForgotten ==
  part = "tokens" => SignIn!NoTokenForgotten /\ SignIn!StoredSignInWorks

\* Only a working token is ever saved: what a failed or late save leaves in the
\* keychain has not been revoked, and a renewal is not renewed before its save.
OnlyWorkingTokensSaved == [][part = "tokens" => SignIn!SavesWorkingTokens]_vars

\* The sign-in goes on with one query, that of a request that carried its state,
\* and that query is there when the sign-in is told, whatever else reaches the
\* port at the same time (CallbackHandler.do_GET, wait_for_callback).
TakesItsOwnAnswer == part = "redirect" => Listener!TakesItsOwnAnswer

Writing == INSTANCE WriteCall WITH
  landed <- IF part = "call" THEN landed ELSE 0,
  outcome <- IF part = "call" THEN Client!WriteOutcome ELSE None

\* Whatever is retried, renewed and polled, a write lands once at most, and the
\* caller is told "rejected" or "missing" only of a write that has not landed
\* and cannot land any more; this is what the state file's notes rest on.
ImplementsWriteCall == Writing!Spec

\* An issue is reported missing (and then forgotten by a release or an archive)
\* only when it is, not when Jira no longer takes the sign-in.
MissingMeansMissing == part = "call" => Client!MissingMeansMissing

==============================================================================
