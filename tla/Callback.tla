------------------------------ MODULE Callback -------------------------------
(***************************************************************************)
(* The listener that waits on a loopback port for Notion's redirect.  Each *)
(* request is handled by a thread of its own; the sign-in waits for the    *)
(* first answer that carries its state, and gives up after a while.        *)
(***************************************************************************)
EXTENDS Naturals, Sequences

CONSTANTS
  Threads,    \* requests that arrive
  Requests,   \* what a request may be: [path, state, answer]
  None

\* A request: to the callback path or another; with this sign-in's state or
\* another; with a code or an error, or with neither.
Request == [path : BOOLEAN, state : BOOLEAN, answer : BOOLEAN]

CallbackAssumption ==
  /\ Requests \subseteq Request
  /\ None \notin Requests /\ None \notin Threads

VARIABLES
  at, request,    \* each handler's place and the request it handles
  firstAnswer,    \* the thread that holds first_answer, which is never released
  accepted,       \* the queries accepted
  answered,       \* the event the sign-in waits for
  waiter          \* the sign-in: "waiting", "closed", or the query it took

vars == <<at, request, firstAnswer, accepted, answered, waiter>>

Goto(h, place) == at' = [at EXCEPT ![h] = place]

Arrive(h, r) ==
  /\ at[h] = "none" /\ waiter = "waiting"
  /\ request' = [request EXCEPT ![h] = r]
  /\ Goto(h, "check")
  /\ UNCHANGED <<firstAnswer, accepted, answered, waiter>>

\* do_GET's first two refusals: _answers_this_sign_in
Answers(r) == r.path /\ r.state /\ r.answer

TurnAway(h) ==
  /\ at[h] = "check"
  /\ ~Answers(request[h])
  /\ Goto(h, "refused")
  /\ UNCHANGED <<request, firstAnswer, accepted, answered, waiter>>

Check(h) ==
  /\ at[h] = "check"
  /\ Answers(request[h])
  /\ Goto(h, "acquire")
  /\ UNCHANGED <<request, firstAnswer, accepted, answered, waiter>>

\* Mutant: tells the sign-in before the query is there.
SetFirst(h) ==
  /\ at[h] = "acquire" /\ firstAnswer = None
  /\ firstAnswer' = h
  /\ answered' = TRUE
  /\ Goto(h, "append")
  /\ UNCHANGED <<request, accepted, waiter>>

Acquire(h) ==
  /\ at[h] = "acquire" /\ firstAnswer = None
  /\ firstAnswer' = h
  /\ Goto(h, "append")
  /\ UNCHANGED <<request, accepted, answered, waiter>>

AlreadyAnswered(h) ==
  /\ at[h] = "acquire" /\ firstAnswer # None
  /\ Goto(h, "refused")
  /\ UNCHANGED <<request, firstAnswer, accepted, answered, waiter>>

Accept(h) ==
  /\ at[h] = "append"
  /\ accepted' = Append(accepted, request[h])
  /\ Goto(h, "set")
  /\ UNCHANGED <<request, firstAnswer, answered, waiter>>

Tell(h) ==
  /\ at[h] = "set"
  /\ answered' = TRUE
  /\ Goto(h, "page")
  /\ UNCHANGED <<request, firstAnswer, accepted, waiter>>

\* wait_for_callback, then the listener is closed.
Take ==
  /\ waiter = "waiting" /\ answered
  /\ waiter' = IF accepted = <<>> THEN "failed" ELSE "took"
  /\ UNCHANGED <<at, request, firstAnswer, accepted, answered>>

TimeOut ==
  /\ waiter = "waiting" /\ ~answered
  /\ waiter' = "closed"
  /\ UNCHANGED <<at, request, firstAnswer, accepted, answered>>

Init ==
  /\ at = [h \in Threads |-> "none"]
  /\ request = [h \in Threads |-> None]
  /\ firstAnswer = None
  /\ accepted = <<>> /\ answered = FALSE
  /\ waiter = "waiting"

Handle(h) ==
  \/ TurnAway(h) \/ Check(h) \/ Acquire(h) \/ AlreadyAnswered(h)
  \/ Accept(h) \/ Tell(h)

Next ==
  \/ \E h \in Threads : (\E r \in Requests : Arrive(h, r)) \/ Handle(h)
  \/ Take \/ TimeOut

Spec == Init /\ [][Next]_vars

------------------------------------------------------------------------------
(* Properties                                                                *)

\* The sign-in goes on with one query, of a request that carried its state, and
\* that query is there when the sign-in is told, whatever other requests reach
\* the port at the same time (CallbackHandler.do_GET, wait_for_callback).
TakesItsOwnAnswer ==
  /\ Len(accepted) <= 1
  /\ \A i \in 1..Len(accepted) : Answers(request[firstAnswer])
                                 /\ accepted[i].state /\ accepted[i].answer
  /\ waiter # "failed"

\* The browser is told the sign-in succeeded; it has to have succeeded, unless
\* it gave up.
Told(h) == at[h] = "page"
Over == waiter \in {"took", "closed"}

==============================================================================
