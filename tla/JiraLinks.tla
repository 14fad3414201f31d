------------------------------ MODULE JiraLinks ------------------------------
(***************************************************************************)
(* The remote links skaldr puts on one Jira issue, and the issue's archive,*)
(* over as many runs as it takes: publish/links.py notes the links in the  *)
(* state file before and after JiraTransport.write_links sends them one by *)
(* one; archive_item deletes them, comments and closes the issue.  Any     *)
(* request may be refused or left without an answer, which ends the run;   *)
(* the person publishes again.                                             *)
(***************************************************************************)
EXTENDS Naturals, FiniteSets

CONSTANTS
  Links,        \* the items the issue may be paired with
  MaxChanges,   \* bound: changes of what the YAML pairs the issue with
  MaxRemoved,   \* bound: links a person deletes
  MaxFaults     \* bound: requests refused or left without an answer

LinksAssumption ==
  /\ IsFiniteSet(Links)
  /\ MaxChanges \in Nat /\ MaxRemoved \in Nat /\ MaxFaults \in Nat

VARIABLES
  paired,     \* the links the YAML asks for
  dropped,    \* the document no longer holds the item: archive it
  held,       \* PublishedItem.links of the state file
  issue,      \* the issue: links, comments, done, and its skaldr.stamp
  wanted,     \* LinksWrite.links of the run
  current,    \* LinksWrite.current: what the run read on the issue
  todo,       \* the links the operation has yet to delete or to send
  stamp,      \* the stamp as the operation read it
  pc,         \* where the run stands
  changes, removed, faults

vars == <<paired, dropped, held, issue, wanted, current, todo, stamp, pc, changes,
          removed, faults>>
bounds == <<changes, removed, faults>>

Stamp == [commented : BOOLEAN, archived : BOOLEAN, linked : BOOLEAN]

Unmarked == [commented |-> FALSE, archived |-> FALSE, linked |-> FALSE]

Init ==
  /\ paired \in SUBSET Links /\ dropped = FALSE
  /\ held = {}
  /\ issue = [links |-> {}, comments |-> 0, done |-> FALSE, stamp |-> Unmarked]
  /\ wanted = {} /\ current = {} /\ todo = {} /\ stamp = Unmarked /\ pc = "idle"
  /\ changes = 0 /\ removed = 0 /\ faults = 0

Goto(place) == pc' = place

\* A request that makes the issue `after`: done, refused, or not answered.
Request(after, next) ==
  /\ \/ issue' = after /\ Goto(next) /\ UNCHANGED faults
     \/ /\ faults < MaxFaults /\ faults' = faults + 1
        /\ Goto("idle")
        /\ issue' \in {issue, after}
  /\ UNCHANGED <<paired, dropped, held, wanted, current, stamp, changes, removed>>

------------------------------------------------------------------------------
(* People                                                                    *)

RemoveLink ==
  /\ removed < MaxRemoved /\ removed' = removed + 1
  /\ \E l \in issue.links : issue' = [issue EXCEPT !.links = @ \ {l}]
  /\ UNCHANGED <<paired, dropped, held, wanted, current, todo, stamp, pc, changes, faults>>

\* The person closes the issue or opens it again; neither is an archive.
SetStatus ==
  /\ removed < MaxRemoved /\ removed' = removed + 1
  /\ issue' = [issue EXCEPT !.done = ~@]
  /\ UNCHANGED <<paired, dropped, held, wanted, current, todo, stamp, pc, changes, faults>>

\* The YAML is changed between runs.
Pair ==
  /\ pc = "idle" /\ ~dropped /\ changes < MaxChanges /\ changes' = changes + 1
  /\ \/ paired' \in SUBSET Links /\ UNCHANGED dropped
     \/ dropped' = TRUE /\ UNCHANGED paired
  /\ UNCHANGED <<held, issue, wanted, current, todo, stamp, pc, removed, faults>>

------------------------------------------------------------------------------
(* apply_links                                                               *)

Sent == wanted \ current
Dropped == current \ wanted
\* Mutant: an issue without partners is not looked at.
HasPartners == paired # {}

\* _LinkPlanner.plan: an issue without partners is looked at while the state
\* file holds links for it.
LookedAt == paired # {} \/ held # {}

Plan ==
  /\ pc = "idle" /\ ~dropped
  /\ LookedAt
  /\ wanted' = paired /\ current' = issue.links
  /\ paired # issue.links \/ held # paired
  /\ Goto(IF paired = issue.links THEN "note" ELSE "sending")
  /\ UNCHANGED <<todo, paired, dropped, held, issue, stamp, bounds>>

\* Mutant: the links are noted once they have been sent.
NotNoted == held

\* What is noted before anything is sent.
Sending == held \cup wanted

NoteSending ==
  /\ pc = "sending"
  /\ held' = Sending
  /\ Goto("stamp")
  /\ UNCHANGED <<todo, paired, dropped, issue, wanted, current, stamp, bounds>>

NoteWritten ==
  /\ pc = "note"
  /\ held' = wanted
  /\ Goto("idle")
  /\ UNCHANGED <<todo, paired, dropped, issue, wanted, current, stamp, bounds>>

------------------------------------------------------------------------------
(* write_links                                                               *)

ReadStamp ==
  /\ pc = "stamp"
  /\ stamp' = issue.stamp
  /\ Goto("mark")
  /\ UNCHANGED <<todo, paired, dropped, held, issue, wanted, current, bounds>>

Marks == wanted # {} /\ ~stamp.linked

Same == UNCHANGED <<paired, dropped, held, issue, wanted, current, stamp, bounds>>

PutLinked ==
  /\ pc = "mark"
  /\ \/ Marks /\ Request([issue EXCEPT !.stamp = [stamp EXCEPT !.linked = TRUE]], "deletes")
     \/ ~Marks /\ Goto("deletes") /\ Same
  /\ todo' = Dropped

\* A link already gone is deleted all the same.
DeleteLink ==
  /\ pc = "deletes"
  /\ \/ \E l \in todo : /\ Request([issue EXCEPT !.links = @ \ {l}], "deletes")
                        /\ todo' = todo \ {l}
     \/ todo = {} /\ todo' = Sent /\ Goto("upserts") /\ Same

UpsertLink ==
  /\ pc = "upserts"
  /\ \/ \E l \in todo : /\ Request([issue EXCEPT !.links = @ \cup {l}], "upserts")
                        /\ todo' = todo \ {l}
     \/ todo = {} /\ Goto("clear") /\ Same /\ UNCHANGED todo

ClearLinked ==
  /\ pc = "clear" /\ UNCHANGED todo
  /\ \/ /\ stamp.linked /\ wanted = {}
        /\ Request([issue EXCEPT !.stamp = [stamp EXCEPT !.linked = FALSE]], "note")
     \/ ~(stamp.linked /\ wanted = {}) /\ Goto("note") /\ Same

------------------------------------------------------------------------------
(* archive_item                                                              *)

ToUnlink == IF issue.stamp.linked THEN issue.links ELSE {}

StartArchive ==
  /\ pc = "idle" /\ dropped /\ ~issue.stamp.archived
  /\ stamp' = issue.stamp
  /\ todo' = ToUnlink
  /\ Goto("unlink")
  /\ UNCHANGED <<paired, dropped, held, issue, wanted, current, bounds>>

Unlink ==
  /\ pc = "unlink"
  /\ \/ \E l \in todo : /\ Request([issue EXCEPT !.links = @ \ {l}], "unlink")
                        /\ todo' = todo \ {l}
     \/ /\ todo = {} /\ UNCHANGED todo
        /\ Goto(IF issue.done THEN "archive" ELSE "comment") /\ Same

\* _comment_once
Commented == IF issue.comments > 0 THEN issue ELSE [issue EXCEPT !.comments = 1]

\* The workflow may offer no transition to a done status.
NoTransition ==
  /\ pc = "comment"
  /\ faults < MaxFaults /\ faults' = faults + 1
  /\ Goto("idle")
  /\ UNCHANGED <<paired, dropped, held, issue, wanted, current, todo, stamp, changes, removed>>

Comment ==
  /\ pc = "comment" /\ UNCHANGED todo
  /\ \/ stamp.commented /\ Goto("close")
        /\ UNCHANGED <<paired, dropped, held, issue, wanted, current, stamp, bounds>>
     \/ ~stamp.commented /\ Request(Commented, "commented")

NoteCommented ==
  /\ pc = "commented"
  /\ \/ /\ issue' = [issue EXCEPT !.stamp = [stamp EXCEPT !.commented = TRUE]]
        /\ stamp' = [stamp EXCEPT !.commented = TRUE]
        /\ Goto("close") /\ UNCHANGED faults
     \/ /\ faults < MaxFaults /\ faults' = faults + 1
        /\ issue' \in {issue, [issue EXCEPT !.stamp = [stamp EXCEPT !.commented = TRUE]]}
        /\ Goto("idle") /\ UNCHANGED stamp
  /\ UNCHANGED <<paired, dropped, held, wanted, current, todo, changes, removed>>

Close ==
  /\ pc = "close" /\ UNCHANGED todo
  /\ Request([issue EXCEPT !.done = TRUE], "archive")

PutArchived ==
  /\ pc = "archive" /\ UNCHANGED todo
  /\ Request([issue EXCEPT !.stamp = [stamp EXCEPT !.archived = TRUE]], "idle")

------------------------------------------------------------------------------

Run == Plan \/ NoteSending \/ NoteWritten \/ ReadStamp \/ PutLinked \/ DeleteLink
       \/ UpsertLink \/ ClearLinked \/ StartArchive \/ Unlink \/ Comment
       \/ NoteCommented \/ Close \/ PutArchived

Next == Run \/ NoTransition \/ RemoveLink \/ SetStatus \/ Pair

Spec == Init /\ [][Next]_vars

------------------------------------------------------------------------------
(* Properties                                                                *)

TypeOK ==
  /\ paired \subseteq Links /\ held \subseteq Links /\ wanted \subseteq Links
  /\ current \subseteq Links /\ dropped \in BOOLEAN
  /\ todo \subseteq Links /\ (pc = "deletes" => todo \cap wanted = {})
  /\ issue \in [links : SUBSET Links, comments : Nat, done : BOOLEAN, stamp : Stamp]
  /\ stamp \in Stamp

\* publish/links.py: every link on the issue is in the state file, so that a
\* pair that ends later is looked for and unlinked.
EveryLinkIsHeld == issue.links \subseteq held

\* The stamp says that the issue holds links whenever it does, so an archive
\* that asks only then deletes them all.
MarkedWhileLinked == issue.links # {} => issue.stamp.linked

\* GUIDE.md: skaldr does not comment twice.
CommentedOnce == issue.comments <= 1

\* GUIDE.md: an archived issue holds no link of skaldr's, and was in a done
\* status when it was marked as archived.
ArchivedHoldsNoLinks ==
  /\ issue.stamp.archived => issue.links = {}
  /\ pc = "archive" /\ removed = 0 => issue.done

\* What a run relies on when it finds the links of the runs before it, and what a
\* reader of an archived issue finds.
LinksAreAccountedFor ==
  EveryLinkIsHeld /\ MarkedWhileLinked /\ CommentedOnce /\ ArchivedHoldsNoLinks

\* The issue shows the links the YAML pairs it with, or is archived: what it has
\* to come to when it is published until nothing is left to do.
Settled == IF dropped THEN issue.stamp.archived ELSE issue.links = paired /\ held = paired

==============================================================================
