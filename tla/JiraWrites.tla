----------------------------- MODULE JiraWrites ------------------------------
(***************************************************************************)
(* How JiraTransport writes an issue's description and fields, and tells   *)
(* from the issue's history which edits people made meanwhile.  Jira has   *)
(* no conditional write: skaldr reads the history, writes, reads the       *)
(* history again and looks for entries that are not its own.               *)
(*                                                                         *)
(* The history names who changed which fields, not what they held.  skaldr *)
(* writes as the person who signed in, so that person's own edits carry    *)
(* skaldr's account.                                                       *)
(***************************************************************************)
EXTENDS Naturals, Sequences, FiniteSets

CONSTANTS
  Ops,             \* the operations that may be asked for
  None,            \* no outcome
  MaxEdits,        \* bound: edits by people
  MaxFaults        \* bound: requests refused or left without an answer

\* The parts of an issue skaldr owns.  The description stands for the section
\* the operation writes.
Parts == {"summary", "description", "field"}
Authors == {"account", "other"}
Texts == {"old", "new", "hand"}

JiraAssumption ==
  /\ Ops \subseteq {"description", "fields", "create"}
  /\ None \notin Texts \cup {"done", "rejected", "unfinished", "failed"}
  /\ MaxEdits \in Nat /\ MaxFaults \in Nat

Entry == [what : SUBSET Parts, by : Authors]

VARIABLES
  issue,    \* the parts' texts as Jira holds them
  layout,   \* whether the issue's skaldr.layout property fits the description
  history,  \* the issue's changelog
  read,     \* the texts the run read before the operation
  marker,   \* _markers: the newest entry skaldr has seen or written
  seen,     \* the history as read back
  op, pc, told,
  written,  \* the parts the operation's request sets
  saved,    \* the texts handed over as the published copy
  touched,  \* the parts people changed after the run read the issue
  edits, faults

vars == <<issue, layout, history, read, marker, seen, op, pc, told, written,
          saved, touched, edits, faults>>
people == <<touched, edits>>

Newest(h) == Len(h)

Init ==
  /\ op \in Ops
  /\ written \in CASE op = "description" -> {{"description"}}
                   [] op = "fields" -> SUBSET {"summary", "field"}
                   [] op = "create" -> {Parts}
  /\ issue = [p \in Parts |-> "old"]
  /\ layout = TRUE
  /\ history \in {<<>>, <<[what |-> {"field"}, by |-> "other"]>>}
  /\ read = issue /\ marker = Newest(history) /\ seen = history
  /\ pc = "begin" /\ told = None /\ saved = issue
  /\ touched = {} /\ edits = 0 /\ faults = 0

\* A person changes parts, in one edit of the issue.
Edit ==
  /\ pc # "begin" \/ op # "create"
  /\ edits < MaxEdits
  /\ edits' = edits + 1
  /\ \E ps \in {qs \in SUBSET Parts : Cardinality(qs) \in 1..2}, a \in Authors :
       /\ issue' = [p \in Parts |-> IF p \in ps THEN "hand" ELSE issue[p]]
       /\ issue' # issue
       /\ layout' = (layout /\ "description" \notin ps)
       /\ touched' = touched \cup ps
       /\ history' = Append(history, [what |-> {p \in ps : issue[p] # "hand"}, by |-> a])
  /\ UNCHANGED <<read, marker, seen, op, pc, told, written, saved, faults>>

End(outcome) == pc' = "ended" /\ told' = outcome

Stop(outcome) ==
  /\ End(outcome)
  /\ UNCHANGED <<issue, layout, history, read, marker, seen, op, written, saved, people, faults>>

Fault == faults < MaxFaults /\ faults' = faults + 1

\* Once an issue is created, every error becomes CreatedButUnfinishedError.
Refused == IF op = "create" /\ pc # "begin" THEN "unfinished" ELSE "rejected"
Unanswered == IF op = "create" /\ pc # "begin" THEN "unfinished" ELSE "failed"

ReadFails ==
  /\ pc \in {"begin", "text", "history", "issue"} /\ ~(pc = "begin" /\ op = "create")
  /\ Fault
  /\ End(Unanswered)
  /\ UNCHANGED <<issue, layout, history, read, marker, seen, op, written, saved, people>>

------------------------------------------------------------------------------
(* Before the write                                                          *)

\* _refuse_unseen_edits: nothing skaldr owns changed after the run's read.
NothingUnseen(h) == Newest(h) = marker

CheckHistory ==
  /\ pc = "begin" /\ op # "create"
  /\ \/ /\ NothingUnseen(history)
        /\ pc' = IF op = "description" THEN "text" ELSE "send"
        /\ UNCHANGED <<issue, layout, history, read, marker, seen, op, told, written,
                       saved, people, faults>>
     \/ ~NothingUnseen(history) /\ Stop("rejected")

\* _read_unchanged: the sections still read as they did.
CheckText ==
  /\ pc = "text"
  /\ \/ /\ issue["description"] = read["description"]
        /\ pc' = "send"
        /\ UNCHANGED <<issue, layout, history, read, marker, seen, op, told, written,
                       saved, people, faults>>
     \/ issue["description"] # read["description"] /\ Stop("rejected")

------------------------------------------------------------------------------
(* The write.  Jira notes an entry for what it changes, in skaldr's account, *)
(* and may leave out the property sent with an issue's description.          *)

Written == [p \in Parts |-> IF p \in written THEN "new" ELSE issue[p]]

Lands ==
  /\ issue' = Written
  /\ history' = IF op = "create" THEN <<>>
                ELSE IF Written = issue THEN history
                ELSE Append(history, [what |-> {p \in Parts : Written[p] # issue[p]},
                                      by |-> "account"])
  /\ layout' \in IF op = "fields" THEN {layout} ELSE BOOLEAN

SendWrite ==
  /\ pc = IF op = "create" THEN "begin" ELSE "send"
  /\ \/ /\ written = {}
        /\ pc' = "history"
        /\ UNCHANGED <<issue, layout, history, told, faults>>
     \/ /\ written # {} /\ Lands
        /\ pc' = "history"
        /\ UNCHANGED <<told, faults>>
     \/ written # {} /\ Fault /\ End(Refused) /\ UNCHANGED <<issue, layout, history>>
     \/ /\ written # {} /\ Fault /\ End(Unanswered)
        /\ Lands \/ UNCHANGED <<issue, layout, history>>
  /\ UNCHANGED <<read, marker, seen, op, written, saved, people>>

------------------------------------------------------------------------------
(* _read, in two requests: the history, then the issue and its properties.   *)

\* _after_write records what was read back of the parts it wrote.
Recorded == [p \in Parts |-> IF p \in written THEN issue[p] ELSE saved[p]]

ReadHistory ==
  /\ pc = "history"
  /\ seen' = history /\ pc' = "issue"
  /\ UNCHANGED <<issue, layout, history, read, marker, op, told, written, saved, people, faults>>

ReadIssue ==
  /\ pc = "issue"
  /\ saved' = Recorded
  /\ pc' = IF layout \/ op = "fields" THEN "verify" ELSE "repair"
  /\ UNCHANGED <<issue, layout, history, read, marker, seen, op, told, written, people, faults>>

Repaired == layout' = TRUE

\* _read_after_write puts the properties the write did not leave.
Repair ==
  /\ pc = "repair"
  /\ \/ Repaired /\ pc' = "verify" /\ UNCHANGED <<told, faults>>
     \/ Fault /\ End(Refused) /\ UNCHANGED layout
     \/ Fault /\ End(Unanswered) /\ layout' \in {layout, TRUE}
  /\ UNCHANGED <<issue, history, read, marker, seen, op, written, saved, people>>

------------------------------------------------------------------------------
(* _verified                                                                 *)

Later == (marker + 1)..Len(seen)

\* _is_skaldrs
IsSkaldrs(e) == written # {} /\ e.what \subseteq written /\ e.by = "account"

Own == {n \in Later : IsSkaldrs(seen[n]) /\ \A k \in Later : IsSkaldrs(seen[k]) => k <= n}

Replaced == {n \in Later : \E o \in Own : n < o /\ seen[n].what \cap written # {}}

\* Mutant: only what came before skaldr's own entry is looked through.
BeforeOwn == {n \in Later : \E o \in Own : n < o}

Foreign == Later \ Own

Verify ==
  /\ pc = "verify" /\ op # "create"
  /\ \/ Replaced \cup Foreign # {} /\ End("failed") /\ UNCHANGED marker
     \/ /\ Replaced \cup Foreign = {}
        /\ End("done")
        /\ marker' \in IF Own = {} THEN {marker} ELSE Own
  /\ UNCHANGED <<issue, layout, history, read, seen, op, written, saved, people, faults>>

\* _read_back_created: an edit in the history is left for the next run to see,
\* against the text skaldr sent.
HandOver ==
  /\ pc = "verify" /\ op = "create"
  /\ End("done")
  /\ \/ seen = <<>> /\ marker' = 0 /\ UNCHANGED saved
     \/ seen # <<>> /\ marker' = 0 /\ saved' = [p \in Parts |-> "new"]
  /\ UNCHANGED <<issue, layout, history, read, seen, op, written, people, faults>>

Skaldr == CheckHistory \/ CheckText \/ SendWrite \/ ReadHistory \/ ReadIssue
          \/ Repair \/ Verify \/ HandOver \/ ReadFails

Next == Skaldr \/ Edit

Spec == Init /\ [][Next]_vars

------------------------------------------------------------------------------
(* Properties                                                                *)

TypeOK ==
  /\ issue \in [Parts -> Texts] /\ saved \in [Parts -> Texts]
  /\ layout \in BOOLEAN /\ written \subseteq Parts
  /\ \A n \in DOMAIN history : history[n] \in Entry /\ history[n].what # {}
  /\ marker \in 0..Len(history) + 1
  /\ Len(seen) <= Len(history) \/ op = "create"
  /\ touched \subseteq Parts
  /\ told \in {None, "done", "rejected", "unfinished", "failed"}
  /\ (told # None) = (pc = "ended")

\* The history names an edit of the part that came after it was read back.
EditedSince(p) == \E n \in Len(seen) + 1..Len(history) : p \in history[n].what

\* GUIDE.md: an edit that lands while skaldr writes, between its request and
\* its read-back, stops the run.  A write told as done has replaced no edit, and
\* left each one to be shown that came before the history was read back: a text
\* of a person's that is handed over as published came between that request and
\* the next, which reads the issue.
EditsAreShown ==
  told = "done" =>
    \A p \in touched : issue[p] = "hand" /\ (saved[p] = "hand" => EditedSince(p))

\* What is told as done has landed, with the layout the next read splits it by.
DoneIsOnTheIssue ==
  told = "done" =>
    /\ \A p \in written : issue[p] \in {"new", "hand"}
    /\ op # "fields" => layout \/ issue["description"] = "hand"

\* GUIDE.md: a write the service rejected outright leaves no trace.
RejectedLeavesNoTrace ==
  told = "rejected" => \A p \in written : issue[p] # "new"

==============================================================================
