------------------------------ MODULE Requests -------------------------------
(***************************************************************************)
(* The three service clients: a call is sent until an answer is worth no   *)
(* retry, renewed sign-ins and tasks included, and its last answer is told *)
(* to the caller as one of five outcomes.  The service does what it wants  *)
(* with a request it answers badly or not at all.                          *)
(***************************************************************************)
EXTENDS Naturals, TLAPS

CONSTANTS
  Attempts,      \* sends of one request: RETRY_ATTEMPTS, MAX_ATTEMPTS
  Renewals,      \* RENEWALS_PER_REQUEST
  LongestWait,   \* polls of a task that fit LONGEST_TASK_WAIT_SECONDS
  MaxCalls,      \* bound: calls of one command
  None

RequestsAssumption ==
  /\ Attempts \in Nat \ {0} /\ Renewals \in Nat /\ LongestWait \in Nat
  /\ MaxCalls \in Nat \ {0}
  /\ None \notin {"pending", "succeeded", "failed", "done", "rejected", "missing", "auth"}
  /\ None \notin BOOLEAN

VARIABLES
  service, writes,    \* the call
  task,               \* the task Notion answered with, if any
  at, attempt, renewals, waited, answer,
  flying,             \* a request without an answer that may still land
  landed,             \* times the change has landed
  outcome,
  checked,            \* Jira: whether the command found its sign-in refused
  exists, signedIn,   \* the service: the item is there, the sign-in is good
  calls

loop == <<attempt, renewals, waited>>
item == <<exists, signedIn>>
effects == <<landed, flying, task>>
call == <<service, writes, calls>>
vars == <<call, task, at, loop, answer, flying, landed, outcome, checked, item>>

\* 4xx answers: what Notion counts as refusing a write (REFUSED_WRITE_STATUSES),
\* a body that is too large, and the rest.  "Long" asks to wait over a minute.
Refusals == {"refused", "tooLarge", "otherRefusal"}
Limited == {"limited", "limitedLong"}
Broken == {"broken", "brokenLong", "overloaded"}
NoAnswer == {"unsent", "silent"}

Answers ==
  {"ok", "garbled", "unauthorized"} \cup Refusals \cup Limited
    \cup Broken \cup NoAnswer
    \cup (IF exists THEN {} ELSE {"missing"})
    \cup (IF service = "slack" THEN {"locked"} ELSE {})
    \cup (IF service = "notion" /\ writes THEN {"accepted"} ELSE {})

------------------------------------------------------------------------------
(* Retries                                                                   *)

\* _deserves_a_retry, _unreachable_on_a_read
NotionRetries(a) ==
  \/ a \in {"limited", "overloaded"}
  \/ ~writes /\ a \in {"broken"} \cup NoAnswer

\* _worth_retrying, _dropped_read
JiraRetries(a) ==
  \/ a = "limited"
  \/ ~writes /\ a \in {"broken", "overloaded"} \cup NoAnswer

\* _worth_retrying, _dropped_read
SlackRetries(a) ==
  \/ a \in {"limited", "locked"}
  \/ ~writes /\ a \in {"broken", "brokenLong", "overloaded"} \cup NoAnswer

Retried(a) ==
  CASE service = "notion" -> NotionRetries(a)
    [] service = "jira" -> JiraRetries(a)
    [] OTHER -> SlackRetries(a)

Goto(place) == at' = place

Begin ==
  /\ at = "ended" \/ at = "idle"
  /\ calls < MaxCalls
  /\ calls' = calls + 1
  /\ writes' \in BOOLEAN
  /\ exists' \in BOOLEAN
  /\ Goto("send")
  /\ attempt' = 0 /\ renewals' = 0 /\ waited' = 0
  /\ answer' = None /\ outcome' = None
  /\ landed' = 0 /\ flying' = FALSE /\ task' = None
  /\ UNCHANGED <<service, checked, signedIn>>

\* A sign-in the service no longer takes: Jira says "no such issue" (or 401),
\* Notion 401, Slack an error of its own.
SignInAnswers ==
  CASE service = "jira" -> {"missing", "unauthorized"}
    [] service = "notion" -> {"unauthorized"}
    [] OTHER -> {"refused"}

\* What a service makes of a request by its answer: a server error and silence
\* leave it open whether the change is made, also for later.
Open == {"broken", "brokenLong", "silent"}
Lands(a) == writes /\ a \in {"ok", "garbled"} \cup Open
MayLandLater(a) == writes /\ a \in Open
HasNotLanded(a) == a # "accepted" /\ (writes => a \notin {"ok", "garbled"})

\* _request, attempt
Send ==
  /\ at = "send"
  /\ attempt' = attempt + 1
  /\ answer' \in IF signedIn THEN Answers ELSE SignInAnswers \cup NoAnswer \cup Broken \cup Limited
  /\ \/ Lands(answer') /\ landed' = landed + 1 /\ UNCHANGED <<flying, task>>
     \/ MayLandLater(answer') /\ flying' = TRUE /\ UNCHANGED <<landed, task>>
     \/ answer' = "accepted" /\ task' = "pending" /\ UNCHANGED <<landed, flying>>
     \/ HasNotLanded(answer') /\ UNCHANGED effects
  /\ Goto("answered")
  /\ UNCHANGED <<call, renewals, waited, outcome, checked, item>>

\* The retry loop of tenacity.
Retry ==
  /\ at = "answered"
  /\ Retried(answer)
  /\ attempt < Attempts
  /\ Goto("send")
  /\ UNCHANGED <<call, task, loop, answer, flying, landed, outcome, checked, item>>

Settled == at = "answered" /\ ~(Retried(answer) /\ attempt < Attempts)

------------------------------------------------------------------------------
(* What the caller is told                                                   *)

End(o) ==
  /\ outcome' = o
  /\ Goto("ended")
  /\ UNCHANGED <<call, loop, answer, effects, checked, item>>

\* _refusal_class
Rejection == IF writes THEN "rejected" ELSE "failed"

\* Mutant: a server error is a refusal.
BrokenIsRefused(a) ==
  CASE a = "ok" -> "done"
    [] a = "missing" -> "missing"
    [] a \in Refusals \cup Limited \cup Broken -> Rejection
    [] OTHER -> "failed"

\* notion_failure, _succeeded
NotionTells(a) ==
  CASE a = "ok" -> "done"
    [] a = "missing" -> "missing"
    [] a \in {"refused", "tooLarge"} \cup Limited -> Rejection
    [] OTHER -> "failed"

\* _refuse_a_failure, _parsed; an edit does not look at the body ("ok").
JiraTells(a) ==
  CASE a = "ok" -> "done"
    [] a = "missing" -> "missing"
    [] a \in Refusals \cup Limited \cup {"unauthorized"} -> Rejection
    [] OTHER -> "failed"

\* _failure, _slack_refusal
SlackTells(a) ==
  CASE a = "ok" -> "done"
    [] a = "missing" -> "missing"
    [] a = "locked" -> "rejected"
    [] a \in Refusals \cup Limited \cup {"unauthorized"} -> Rejection
    [] OTHER -> "failed"

Tells(a) ==
  CASE service = "notion" -> NotionTells(a)
    [] service = "jira" -> JiraTells(a)
    [] OTHER -> SlackTells(a)

Tell ==
  /\ Settled
  /\ answer # "accepted"
  /\ ~(service = "notion" /\ answer = "unauthorized")
  /\ ~(service = "jira" /\ answer = "missing" /\ checked # FALSE)
  /\ End(Tells(answer))

\* NotionApi._send: renewed, and sent again with retries of its own.
Renew ==
  /\ Settled
  /\ service = "notion" /\ answer = "unauthorized"
  /\ renewals < Renewals
  /\ renewals' = renewals + 1
  /\ attempt' = 0
  /\ Goto("send")
  /\ signedIn' \in BOOLEAN
  /\ UNCHANGED <<call, waited, answer, effects, outcome, checked, exists>>

\* The renewal is refused, or so is the renewed sign-in.
GiveUpSignIn ==
  /\ Settled
  /\ service = "notion" /\ answer = "unauthorized"
  /\ End("auth")

\* Mutant: the issue counts as missing before the sign-in is checked.
MissingUnchecked ==
  /\ Settled
  /\ service = "jira" /\ answer = "missing" /\ checked # FALSE
  /\ End("missing")

\* _token_is_rejected: asked once, and remembered by the client.
CheckSignIn ==
  /\ Settled
  /\ service = "jira" /\ answer = "missing" /\ checked # FALSE
  /\ \/ /\ checked = None
        /\ checked' = ~signedIn
        /\ outcome' = IF signedIn THEN "missing" ELSE Rejection
     \/ /\ checked = None
        /\ outcome' = "failed"             \* the check itself gets no answer
        /\ UNCHANGED checked
     \/ /\ checked = TRUE
        /\ outcome' = Rejection
        /\ UNCHANGED checked
  /\ Goto("ended")
  /\ UNCHANGED <<call, loop, answer, effects, item>>

------------------------------------------------------------------------------
(* Notion's tasks                                                            *)

\* _finished: the wait is over.
GiveUp ==
  /\ Settled
  /\ answer = "accepted" /\ waited >= LongestWait
  /\ End("failed")

Poll ==
  /\ Settled
  /\ answer = "accepted" /\ waited < LongestWait
  /\ task = "pending"
  /\ waited' = waited + 1
  /\ UNCHANGED <<call, at, attempt, renewals, answer, effects, outcome, checked, item>>

\* _followed: a poll fails, whatever its reason.
CannotFollow ==
  /\ Settled
  /\ answer = "accepted" /\ waited < LongestWait
  /\ End("failed")

\* A failed task carries the status the request would have been answered with.
TaskOver ==
  /\ Settled
  /\ answer = "accepted" /\ waited < LongestWait
  /\ \/ task = "succeeded" /\ outcome' \in {"done", "failed"}
     \/ task = "failed" /\ outcome' \in {Tells("refused"), Tells("broken")}
     \/ task = "failed" /\ ~exists /\ outcome' = Tells("missing")
  /\ Goto("ended")
  /\ UNCHANGED <<call, loop, answer, effects, checked, item>>

------------------------------------------------------------------------------
(* The service meanwhile                                                     *)

TaskSucceeds ==
  /\ task = "pending"
  /\ task' = "succeeded"
  /\ landed' = landed + 1
  /\ UNCHANGED <<call, at, loop, answer, flying, outcome, checked, item>>

TaskFails ==
  /\ task = "pending"
  /\ task' = "failed"
  /\ UNCHANGED <<call, at, loop, answer, flying, landed, outcome, checked, item>>

LandsLate ==
  /\ flying
  /\ flying' = FALSE
  /\ landed' = landed + 1
  /\ UNCHANGED <<call, task, at, loop, answer, outcome, checked, item>>

RevokeSignIn ==
  /\ signedIn
  /\ signedIn' = FALSE
  /\ UNCHANGED <<call, task, at, loop, answer, flying, landed, outcome, checked, exists>>

Init ==
  /\ service \in {"notion", "jira", "slack"}
  /\ writes = FALSE /\ calls = 0
  /\ at = "idle" /\ attempt = 0 /\ renewals = 0 /\ waited = 0 /\ answer = None
  /\ flying = FALSE /\ landed = 0 /\ task = None /\ outcome = None
  /\ checked = None /\ exists = TRUE /\ signedIn = TRUE

Client ==
  \/ Send \/ Retry \/ Tell \/ Renew \/ GiveUpSignIn \/ CheckSignIn
  \/ GiveUp \/ Poll \/ CannotFollow \/ TaskOver

Next == Begin \/ Client \/ TaskSucceeds \/ TaskFails \/ LandsLate \/ RevokeSignIn

Spec == Init /\ [][Next]_vars

------------------------------------------------------------------------------
(* Properties                                                                *)

TypeOK ==
  /\ service \in {"notion", "jira", "slack"} /\ writes \in BOOLEAN
  /\ at \in {"idle", "send", "answered", "ended"}
  /\ attempt \in 0..Attempts /\ renewals \in 0..Renewals /\ waited \in 0..LongestWait
  /\ flying \in BOOLEAN /\ landed \in Nat
  /\ task \in {None, "pending", "succeeded", "failed"}
  /\ outcome \in {None, "done", "failed", "rejected", "missing", "auth"}
  /\ checked \in {None, TRUE, FALSE}

\* What WriteCall sees of a call, with `landed`.
WriteOutcome == IF writes THEN outcome ELSE None

\* What an earlier call of the command found of the sign-in is no longer so.
SignInGrewOld == calls > 1 /\ checked = FALSE /\ ~signedIn

\* An issue is reported missing (and then forgotten by a release or an archive)
\* only when it is, not when Jira no longer takes the sign-in: in any call of a
\* command, unless an earlier one found a sign-in good that was revoked since.
MissingMeansMissing == outcome = "missing" => ~exists \/ SignInGrewOld

\* A call that is being sent has to end, however the service answers, renews and
\* queues.
Sending == at = "send"
Ended == at = "ended"

Writing == INSTANCE WriteCall WITH outcome <- WriteOutcome

\* Whatever is retried, renewed and polled, a write lands once at most, and its
\* caller is told "rejected" or "missing" only of one that never will.
ImplementsWriteCall == Writing!Spec

------------------------------------------------------------------------------
(* The inductive invariant                                                   *)

NothingDone == landed = 0 /\ ~flying /\ task = None

\* A change lands once: by an answer, late, or by its task, and only a write does.
LandsOnce ==
  /\ landed \in {0, 1} /\ task \in {None, "pending", "succeeded", "failed"}
  /\ ~writes => NothingDone
  /\ flying => landed = 0 /\ task = None
  /\ task \in {"pending", "failed"} => landed = 0
  /\ task = "succeeded" => landed = 1

\* What an answer says of the change, until the caller is told.
AnswerSays ==
  /\ at \in {"idle", "send"} => NothingDone
  /\ at = "answered" =>
       CASE answer \in {"ok", "garbled"} -> (writes => landed = 1) /\ task = None
         [] answer = "accepted" -> service = "notion" /\ writes /\ task # None
         [] answer \in Open -> task = None
         [] OTHER -> NothingDone

\* What the caller was told holds from then on.
ToldStands ==
  /\ at \in {"idle", "send", "answered", "ended"}
  /\ outcome \in {None, "done", "failed", "rejected", "missing", "auth"}
  /\ outcome # None <=> at = "ended"
  /\ writes /\ outcome = "done" => landed = 1
  /\ writes /\ outcome \in {"rejected", "missing", "auth"} =>
       landed = 0 /\ ~flying /\ task # "pending"

Inductive ==
  /\ service \in {"notion", "jira", "slack"} /\ writes \in BOOLEAN /\ flying \in BOOLEAN
  /\ LandsOnce /\ AnswerSays /\ ToldStands

\* Within the first call nothing is remembered of the sign-in; an item that is not
\* found while Jira takes the sign-in is not there, and a sign-in it does not take
\* stays so.
SignInIsFollowed ==
  /\ calls \in Nat /\ (calls = 0 <=> at = "idle")
  /\ exists \in BOOLEAN /\ signedIn \in BOOLEAN
  /\ calls <= 1 /\ at # "ended" => checked = None
  /\ at = "answered" /\ answer = "missing" /\ (service = "jira" => signedIn) => ~exists
  /\ MissingMeansMissing

------------------------------------------------------------------------------
(* Theorems                                                                  *)

Step == Writing!Land \/ Writing!End \/ Writing!Again \/ UNCHANGED <<landed, WriteOutcome>>

LEMMA StepsKeepTheInvariant ==
  ASSUME RequestsAssumption, Inductive, Next
  PROVE  Inductive' /\ Step
<1> USE DEF RequestsAssumption, Inductive, LandsOnce, AnswerSays, ToldStands, NothingDone, Open, Step, Writing!Land, Writing!End,
   Writing!Again, Writing!Without, WriteOutcome, Goto, loop, item, effects, call, Settled, End
<1>1. CASE Begin
  BY <1>1 DEF Begin
<1>2. CASE Send
  <2>1. /\ NothingDone /\ outcome = None /\ at' = "answered"
        /\ UNCHANGED <<service, writes, calls, outcome>>
    BY <1>2 DEF Send
  <2>2. answer' = "accepted" => service = "notion" /\ writes
    BY <1>2 DEF Send, Answers, SignInAnswers, Refusals, Limited, Broken, NoAnswer
  <2>3. CASE Lands(answer') /\ landed' = landed + 1 /\ UNCHANGED <<flying, task>>
    <3>1. landed' = 1
      BY <2>1, <2>3
    <3>2. QED
      BY <2>1, <2>3, <3>1 DEF Lands
  <2>4. CASE MayLandLater(answer') /\ flying' = TRUE /\ UNCHANGED <<landed, task>>
    BY <2>1, <2>4 DEF MayLandLater
  <2>5. CASE answer' = "accepted" /\ task' = "pending" /\ UNCHANGED <<landed, flying>>
    BY <2>1, <2>2, <2>5
  <2>6. CASE HasNotLanded(answer') /\ UNCHANGED effects
    BY <2>1, <2>6 DEF HasNotLanded
  <2>7. QED
    BY <1>2, <2>3, <2>4, <2>5, <2>6 DEF Send
<1>3. CASE Retry
  BY <1>3 DEF Retry, Retried, NotionRetries, JiraRetries, SlackRetries, NoAnswer
<1>4. CASE Tell
  BY <1>4 DEF Tell, Tells, NotionTells, JiraTells, SlackTells, Rejection, Refusals, Limited, Broken
<1>5. CASE Renew
  BY <1>5 DEF Renew
<1>6. CASE GiveUpSignIn
  BY <1>6 DEF GiveUpSignIn
<1>7. CASE CheckSignIn
  BY <1>7 DEF CheckSignIn, Rejection
<1>8. CASE GiveUp
  BY <1>8 DEF GiveUp
<1>9. CASE Poll
  BY <1>9 DEF Poll
<1>10. CASE CannotFollow
  BY <1>10 DEF CannotFollow
<1>11. CASE TaskOver
  BY <1>11 DEF TaskOver, Tells, NotionTells, JiraTells, SlackTells, Rejection, Refusals, Limited, Broken
<1>12. CASE TaskSucceeds
  BY <1>12 DEF TaskSucceeds
<1>13. CASE TaskFails
  BY <1>13 DEF TaskFails
<1>14. CASE LandsLate
  <2>1. flying /\ writes /\ landed = 0 /\ task = None /\ ~flying'
    BY <1>14 DEF LandsLate
  <2>2. landed' = 1
    BY <1>14, <2>1 DEF LandsLate
  <2>3. at = "answered" => answer \in Open
    BY <2>1
  <2>4. outcome \in {None, "failed"}
    BY <2>1
  <2>5. QED
    BY <1>14, <2>1, <2>2, <2>3, <2>4 DEF LandsLate
<1>15. CASE RevokeSignIn
  BY <1>15 DEF RevokeSignIn
<1>16. QED
  BY <1>1, <1>2, <1>3, <1>4, <1>5, <1>6, <1>7, <1>8,
     <1>9, <1>10, <1>11, <1>12, <1>13, <1>14, <1>15 DEF Next, Client

THEOREM CallInvariant ==
  ASSUME RequestsAssumption PROVE Spec => []Inductive
<1>1. Init => Inductive
  BY DEF RequestsAssumption, Init, Inductive, LandsOnce, AnswerSays, ToldStands, NothingDone
<1>2. Inductive /\ UNCHANGED vars => Inductive'
  BY DEF vars, call, loop, item, Inductive, LandsOnce, AnswerSays, ToldStands, NothingDone
<1>3. Inductive /\ [Next]_vars => Inductive'
  BY <1>2, StepsKeepTheInvariant
<1>4. QED
  BY <1>1, <1>3, PTL DEF Spec

\* A call implements WriteCall: whatever is retried, renewed and polled, a change
\* lands once at most, "done" means it has, and "rejected" that it never will.
THEOREM CallsImplementWriteCall ==
  ASSUME RequestsAssumption PROVE Spec => ImplementsWriteCall
<1>1. Init => Writing!Init
  BY DEF Init, Writing!Init, WriteOutcome
<1>2. Inductive /\ [Next]_vars =>
        [Writing!Land \/ Writing!End \/ Writing!Again]_<<landed, WriteOutcome>>
  <2>1. UNCHANGED vars => UNCHANGED <<landed, WriteOutcome>>
    BY DEF vars, call, WriteOutcome
  <2>2. QED
    BY <2>1, StepsKeepTheInvariant DEF Step
<1>3. QED
  BY <1>1, <1>2, CallInvariant, PTL DEF Spec, Writing!Spec, ImplementsWriteCall

\* "Missing" means that the item is not there, in every call of a command, unless an
\* earlier call found good a sign-in that Jira no longer takes (_token_is_rejected).
THEOREM MissingIsMissing ==
  ASSUME RequestsAssumption PROVE Spec => []MissingMeansMissing
<1>1. Init => SignInIsFollowed
  BY DEF RequestsAssumption, Init, SignInIsFollowed, MissingMeansMissing, SignInGrewOld
<1>2. Inductive /\ SignInIsFollowed /\ Next => SignInIsFollowed'
  <2> SUFFICES ASSUME Inductive, SignInIsFollowed, Next PROVE SignInIsFollowed'
    OBVIOUS
  <2> USE DEF RequestsAssumption, Inductive, ToldStands, SignInIsFollowed, MissingMeansMissing, SignInGrewOld, Goto,
         loop, item, effects, call, Settled, End
  <2>1. CASE Begin
    <3>1. /\ at' = "send" /\ outcome' = None /\ calls' = calls + 1
          /\ exists' \in BOOLEAN /\ UNCHANGED <<checked, signedIn>>
      BY <2>1 DEF Begin
    <3>2. calls' <= 1 => at = "idle"
      BY <3>1
    <3>3. QED
      BY <3>1, <3>2
  <2>2. CASE Send
    BY <2>2 DEF Send, Answers, SignInAnswers, Refusals, Limited, Broken, NoAnswer
  <2>3. CASE Retry
    BY <2>3 DEF Retry, Retried, NotionRetries, JiraRetries, SlackRetries, NoAnswer
  <2>4. CASE Tell
    <3>1. /\ at = "answered" /\ at' = "ended" /\ outcome' = Tells(answer)
          /\ UNCHANGED <<calls, exists, signedIn, checked, answer, service>>
      BY <2>4 DEF Tell
    <3>2. outcome' = "missing" => answer = "missing" /\ (service = "jira" => checked = FALSE)
      BY <2>4, <3>1 DEF Tell, Tells, NotionTells, JiraTells, SlackTells, Rejection,
         Refusals, Limited, Broken
    <3>3. checked = FALSE => calls > 1
      <4>1. FALSE # None
        BY Zenon
      <4>2. calls <= 1 => checked = None
        BY <3>1, Zenon
      <4>3. ~(calls <= 1) => calls > 1
        OBVIOUS
      <4>4. QED
        BY <4>1, <4>2, <4>3, Zenon
    <3>4. outcome' = "missing" => ~exists \/ (calls > 1 /\ checked = FALSE /\ ~signedIn)
      BY <3>1, <3>2, <3>3
    <3>5. MissingMeansMissing'
      BY <3>1, <3>4, Zenon
    <3>6. QED
      BY <3>1, <3>5
  <2>5. CASE Renew
    BY <2>5 DEF Renew
  <2>6. CASE GiveUpSignIn
    BY <2>6 DEF GiveUpSignIn
  <2>7. CASE CheckSignIn
    BY <2>7 DEF CheckSignIn, Rejection
  <2>8. CASE GiveUp
    BY <2>8 DEF GiveUp
  <2>9. CASE Poll
    BY <2>9 DEF Poll
  <2>10. CASE CannotFollow
    BY <2>10 DEF CannotFollow
  <2>11. CASE TaskOver
    BY <2>11 DEF TaskOver, Tells, NotionTells, JiraTells, SlackTells, Rejection, Refusals, Limited, Broken
  <2>12. CASE TaskSucceeds
    BY <2>12 DEF TaskSucceeds
  <2>13. CASE TaskFails
    BY <2>13 DEF TaskFails
  <2>14. CASE LandsLate
    BY <2>14 DEF LandsLate
  <2>15. CASE RevokeSignIn
    BY <2>15 DEF RevokeSignIn
  <2>16. QED
    BY <2>1, <2>2, <2>3, <2>4, <2>5, <2>6, <2>7, <2>8,
       <2>9, <2>10, <2>11, <2>12, <2>13, <2>14, <2>15 DEF Next, Client
<1>3. SignInIsFollowed /\ UNCHANGED vars => SignInIsFollowed'
  <2>1. UNCHANGED vars =>
          UNCHANGED <<calls, at, exists, signedIn, checked, answer, service, outcome>>
    BY DEF vars, call, item
  <2>2. QED
    BY <2>1, Zenon DEF SignInIsFollowed, MissingMeansMissing, SignInGrewOld
<1>4. SignInIsFollowed => MissingMeansMissing
  BY DEF SignInIsFollowed
<1>5. QED
  BY <1>1, <1>2, <1>3, <1>4, CallInvariant, PTL DEF Spec

==============================================================================
