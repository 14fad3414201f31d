----------------------------- MODULE WritesProofs -----------------------------
(***************************************************************************)
(* What skaldr's writes leave, for any sections, links, edits, refusals    *)
(* and lost answers: the remote links of a Jira issue over any number of   *)
(* runs, one operation on a Notion page, one on a Jira issue, the folder   *)
(* exports are written to, a page rendered from files that are saved       *)
(* meanwhile, and one operation on a Slack canvas.  In each part an        *)
(* invariant says what has been written for every place the machine has    *)
(* come to.  The machines are independent: a variable of the same name in  *)
(* two of them stands for each of them in its own part only.               *)
(***************************************************************************)
EXTENDS Naturals, Sequences, FiniteSets, SequenceTheorems, FiniteSetTheorems,
  WellFoundedInduction, TLAPS

CONSTANTS Links, MaxChanges, MaxRemoved, MaxFaults

VARIABLES paired, dropped, held, issue, wanted, current, todo, stamp, pc, changes,
          removed, faults

Pairs == INSTANCE JiraLinks

CONSTANTS Sections, Ops, Notes, None, MaxEdits

VARIABLES page, read, seen, op, sent, told, landed, hand, edits

Notion == INSTANCE NotionWrites

VARIABLES layout, history, marker, written, saved, touched

Jira == INSTANCE JiraWrites

CONSTANTS Exports, MaxRuns

VARIABLES files, listed, readable, run, begun, theirs, runs

Folder == INSTANCE ExportFiles

CONSTANTS Command, EarlySaves, IncludeMoves, MaxWrites

VARIABLES clock, valid, includes, loaded, source, watched, last, during

Watch == INSTANCE Watching

------------------------------------------------------------------------------
(* The links of an issue                                                     *)

Linking == {"sending", "stamp", "mark", "deletes", "upserts", "clear", "note"}
Archiving == {"unlink", "comment", "commented", "close", "archive"}

\* Links are changed before the document drops the item, an archive comes after.
RunFits ==
  /\ pc \in {"idle"} \cup Linking \cup Archiving
  /\ pc \in Linking => ~dropped
  /\ pc \in Archiving \/ issue.stamp.archived => dropped
  /\ changes \in Nat /\ removed \in Nat /\ faults \in Nat

\* A run works with the stamp it read, and skaldr alone changes a stamp.
StampIsRead ==
  /\ pc \in {"mark", "unlink", "comment", "commented", "close", "archive"} =>
       stamp = issue.stamp
  /\ pc \in {"deletes", "upserts", "clear"} =>
       /\ (issue.stamp.linked <=> stamp.linked \/ wanted # {})
       /\ issue.stamp.commented = stamp.commented /\ issue.stamp.archived = stamp.archived

\* What may be on the issue at each place of a run.
LinksAreFollowed ==
  /\ pc \in {"sending", "stamp", "mark"} => issue.links \subseteq current
  /\ pc = "deletes" => issue.links \subseteq wanted \cup todo
  /\ pc \in {"upserts", "clear", "note"} => issue.links \subseteq wanted
  /\ pc = "unlink" => issue.links \subseteq todo
  /\ pc \in Archiving \ {"unlink"} => issue.links = {}
  /\ pc \in {"stamp", "mark", "deletes", "upserts", "clear"} => wanted \subseteq held
  /\ pc = "upserts" => todo \subseteq wanted

LinksInvariant ==
  /\ Pairs!TypeOK /\ RunFits /\ StampIsRead /\ LinksAreFollowed
  /\ Pairs!EveryLinkIsHeld /\ Pairs!MarkedWhileLinked
  /\ Pairs!CommentedOnce /\ Pairs!ArchivedHoldsNoLinks

\* Every step of a run, and of people, keeps what is said of the issue, its stamp and
\* the state file.
LEMMA LinkStepsKeepTheInvariant ==
  ASSUME Pairs!LinksAssumption, LinksInvariant, Pairs!Next
  PROVE  LinksInvariant'
<1>1. CASE Pairs!Plan
  BY <1>1 DEF Pairs!Plan, LinksInvariant, RunFits, StampIsRead, LinksAreFollowed, Linking,
     Archiving, Pairs!TypeOK, Pairs!EveryLinkIsHeld, Pairs!MarkedWhileLinked,
     Pairs!CommentedOnce, Pairs!ArchivedHoldsNoLinks, Pairs!Goto, Pairs!bounds
<1>2. CASE Pairs!NoteSending
  BY <1>2 DEF Pairs!NoteSending, Pairs!Sending, LinksInvariant, RunFits, StampIsRead,
     LinksAreFollowed, Linking, Archiving, Pairs!TypeOK, Pairs!EveryLinkIsHeld,
     Pairs!MarkedWhileLinked, Pairs!CommentedOnce, Pairs!ArchivedHoldsNoLinks, Pairs!Goto,
     Pairs!bounds
<1>3. CASE Pairs!NoteWritten
  BY <1>3 DEF Pairs!NoteWritten, LinksInvariant, RunFits, StampIsRead, LinksAreFollowed,
     Archiving, Pairs!TypeOK, Pairs!EveryLinkIsHeld, Pairs!MarkedWhileLinked,
     Pairs!CommentedOnce, Pairs!ArchivedHoldsNoLinks, Pairs!Goto, Pairs!bounds
<1>4. CASE Pairs!ReadStamp
  BY <1>4 DEF Pairs!ReadStamp, LinksInvariant, RunFits, StampIsRead, LinksAreFollowed, Linking,
     Archiving, Pairs!TypeOK, Pairs!EveryLinkIsHeld, Pairs!MarkedWhileLinked,
     Pairs!CommentedOnce, Pairs!ArchivedHoldsNoLinks, Pairs!Goto, Pairs!bounds
<1>5. CASE Pairs!PutLinked
  <2>1. pc = "mark" /\ todo' = current \ wanted
    BY <1>5 DEF Pairs!PutLinked, Pairs!Dropped
  <2>2. CASE ~Pairs!Marks /\ pc' = "deletes" /\ Pairs!Same
    BY <2>1, <2>2 DEF Pairs!Marks, Pairs!Same, LinksInvariant, RunFits, StampIsRead,
       LinksAreFollowed, Linking, Archiving, Pairs!TypeOK, Pairs!EveryLinkIsHeld,
       Pairs!MarkedWhileLinked, Pairs!CommentedOnce, Pairs!ArchivedHoldsNoLinks, Pairs!bounds
  <2>3. CASE /\ Pairs!Marks
             /\ Pairs!Request([issue EXCEPT !.stamp = [stamp EXCEPT !.linked = TRUE]], "deletes")
    <3>1. /\ pc' \in {"deletes", "idle"} /\ faults' \in Nat
          /\ issue' \in {issue, [issue EXCEPT !.stamp = [stamp EXCEPT !.linked = TRUE]]}
          /\ pc' = "deletes" => issue' = [issue EXCEPT !.stamp = [stamp EXCEPT !.linked = TRUE]]
          /\ UNCHANGED <<paired, dropped, held, wanted, current, stamp, changes, removed>>
      BY <2>3 DEF Pairs!Request, LinksInvariant, RunFits, Pairs!Goto
    <3>2. wanted # {}
      BY <2>3 DEF Pairs!Marks
    <3>3. CASE issue' = issue
      BY <2>1, <3>1, <3>2, <3>3 DEF LinksInvariant, RunFits, StampIsRead, LinksAreFollowed,
         Linking, Archiving, Pairs!TypeOK, Pairs!Stamp, Pairs!EveryLinkIsHeld,
         Pairs!MarkedWhileLinked, Pairs!CommentedOnce, Pairs!ArchivedHoldsNoLinks
    <3>4. CASE issue' = [issue EXCEPT !.stamp = [stamp EXCEPT !.linked = TRUE]]
      BY <2>1, <3>1, <3>2, <3>4 DEF LinksInvariant, RunFits, StampIsRead, LinksAreFollowed,
         Linking, Archiving, Pairs!TypeOK, Pairs!Stamp, Pairs!EveryLinkIsHeld,
         Pairs!MarkedWhileLinked, Pairs!CommentedOnce, Pairs!ArchivedHoldsNoLinks
    <3>5. QED
      BY <3>1, <3>3, <3>4
  <2>4. QED
    BY <1>5, <2>2, <2>3 DEF Pairs!PutLinked, Pairs!Goto
<1>6. CASE Pairs!DeleteLink
  <2>1. Pairs!TypeOK'
    BY <1>6 DEF Pairs!DeleteLink, Pairs!Same, Pairs!Sent, Pairs!Request, LinksInvariant,
       Pairs!TypeOK, Pairs!Goto
  <2>2. RunFits'
    BY <1>6 DEF Pairs!DeleteLink, Pairs!Same, Pairs!Request, LinksInvariant, RunFits, Linking,
       Archiving, Pairs!TypeOK, Pairs!Goto, Pairs!bounds
  <2>3. StampIsRead'
    BY <1>6 DEF Pairs!DeleteLink, Pairs!Same, Pairs!Request, LinksInvariant, StampIsRead,
       Pairs!TypeOK, Pairs!Goto
  <2>4. LinksAreFollowed'
    BY <1>6 DEF Pairs!DeleteLink, Pairs!Same, Pairs!Sent, Pairs!Request, LinksInvariant,
       LinksAreFollowed, Archiving, Pairs!TypeOK, Pairs!Goto
  <2>5. Pairs!EveryLinkIsHeld'
    BY <1>6 DEF Pairs!DeleteLink, Pairs!Same, Pairs!Request, LinksInvariant, Pairs!TypeOK,
       Pairs!EveryLinkIsHeld
  <2>6. Pairs!MarkedWhileLinked'
    BY <1>6 DEF Pairs!DeleteLink, Pairs!Same, Pairs!Request, LinksInvariant, Pairs!TypeOK,
       Pairs!MarkedWhileLinked
  <2>7. Pairs!CommentedOnce'
    BY <1>6 DEF Pairs!DeleteLink, Pairs!Same, Pairs!Request, LinksInvariant, Pairs!TypeOK,
       Pairs!CommentedOnce
  <2>8. Pairs!ArchivedHoldsNoLinks'
    BY <1>6 DEF Pairs!DeleteLink, Pairs!Same, Pairs!Request, LinksInvariant, Pairs!TypeOK,
       Pairs!ArchivedHoldsNoLinks, Pairs!Goto
  <2>9. QED
    BY <2>1, <2>2, <2>3, <2>4, <2>5, <2>6, <2>7, <2>8 DEF LinksInvariant
<1>7. CASE Pairs!UpsertLink
  <2>1. Pairs!TypeOK'
    BY <1>7 DEF Pairs!UpsertLink, Pairs!Same, Pairs!Request, LinksInvariant, Pairs!TypeOK,
       Pairs!Goto
  <2>2. RunFits'
    BY <1>7 DEF Pairs!UpsertLink, Pairs!Same, Pairs!Request, LinksInvariant, RunFits, Linking,
       Archiving, Pairs!TypeOK, Pairs!Goto, Pairs!bounds
  <2>3. StampIsRead'
    BY <1>7 DEF Pairs!UpsertLink, Pairs!Same, Pairs!Request, LinksInvariant, StampIsRead,
       Pairs!TypeOK, Pairs!Goto
  <2>4. LinksAreFollowed'
    BY <1>7 DEF Pairs!UpsertLink, Pairs!Same, Pairs!Request, LinksInvariant, LinksAreFollowed,
       Archiving, Pairs!TypeOK, Pairs!Goto
  <2>5. Pairs!EveryLinkIsHeld'
    BY <1>7 DEF Pairs!UpsertLink, Pairs!Same, Pairs!Request, LinksInvariant, LinksAreFollowed,
       Pairs!TypeOK, Pairs!EveryLinkIsHeld
  <2>6. Pairs!MarkedWhileLinked'
    BY <1>7 DEF Pairs!UpsertLink, Pairs!Same, Pairs!Request, LinksInvariant, StampIsRead,
       LinksAreFollowed, Pairs!TypeOK, Pairs!MarkedWhileLinked
  <2>7. Pairs!CommentedOnce'
    BY <1>7 DEF Pairs!UpsertLink, Pairs!Same, Pairs!Request, LinksInvariant, Pairs!TypeOK,
       Pairs!CommentedOnce
  <2>8. Pairs!ArchivedHoldsNoLinks'
    BY <1>7 DEF Pairs!UpsertLink, Pairs!Same, Pairs!Request, LinksInvariant, RunFits, Archiving,
       Pairs!TypeOK, Pairs!ArchivedHoldsNoLinks, Pairs!Goto
  <2>9. QED
    BY <2>1, <2>2, <2>3, <2>4, <2>5, <2>6, <2>7, <2>8 DEF LinksInvariant
<1>8. CASE Pairs!ClearLinked
  <2>1. Pairs!TypeOK'
    BY <1>8 DEF Pairs!ClearLinked, Pairs!Same, Pairs!Request, LinksInvariant, StampIsRead,
       Pairs!TypeOK, Pairs!Stamp, Pairs!Goto
  <2>2. RunFits'
    BY <1>8 DEF Pairs!ClearLinked, Pairs!Same, Pairs!Request, LinksInvariant, RunFits,
       StampIsRead, Linking, Archiving, Pairs!TypeOK, Pairs!Stamp, Pairs!Goto, Pairs!bounds
  <2>3. StampIsRead'
    BY <1>8 DEF Pairs!ClearLinked, Pairs!Request, StampIsRead, Pairs!Goto
  <2>4. LinksAreFollowed'
    BY <1>8 DEF Pairs!ClearLinked, Pairs!Same, Pairs!Request, LinksInvariant, LinksAreFollowed,
       Archiving, Pairs!TypeOK, Pairs!Goto
  <2>5. Pairs!EveryLinkIsHeld'
    BY <1>8 DEF Pairs!ClearLinked, Pairs!Same, Pairs!Request, LinksInvariant, Pairs!TypeOK,
       Pairs!EveryLinkIsHeld
  <2>6. Pairs!MarkedWhileLinked'
    BY <1>8 DEF Pairs!ClearLinked, Pairs!Same, Pairs!Request, LinksInvariant, LinksAreFollowed,
       Pairs!TypeOK, Pairs!MarkedWhileLinked
  <2>7. Pairs!CommentedOnce'
    BY <1>8 DEF Pairs!ClearLinked, Pairs!Same, Pairs!Request, LinksInvariant, Pairs!TypeOK,
       Pairs!CommentedOnce
  <2>8. Pairs!ArchivedHoldsNoLinks'
    BY <1>8 DEF Pairs!ClearLinked, Pairs!Same, Pairs!Request, LinksInvariant, LinksAreFollowed,
       Pairs!TypeOK, Pairs!ArchivedHoldsNoLinks, Pairs!Goto
  <2>9. QED
    BY <2>1, <2>2, <2>3, <2>4, <2>5, <2>6, <2>7, <2>8 DEF LinksInvariant
<1>9. CASE Pairs!StartArchive
  BY <1>9 DEF Pairs!StartArchive, Pairs!ToUnlink, LinksInvariant, RunFits, StampIsRead,
     LinksAreFollowed, Linking, Archiving, Pairs!TypeOK, Pairs!EveryLinkIsHeld,
     Pairs!MarkedWhileLinked, Pairs!CommentedOnce, Pairs!ArchivedHoldsNoLinks, Pairs!Goto,
     Pairs!bounds
<1>10. CASE Pairs!Unlink
  <2>1. CASE todo = {} /\ todo' = todo /\ Pairs!Same
             /\ pc' = IF issue.done THEN "archive" ELSE "comment"
    <3>1. pc = "unlink" /\ pc' \in {"archive", "comment"} /\ issue.links = {}
          /\ (pc' = "archive" => issue.done)
      BY <1>10, <2>1 DEF Pairs!Unlink, LinksInvariant, LinksAreFollowed
    <3>2. QED
      BY <2>1, <3>1 DEF Pairs!Same, LinksInvariant, RunFits, StampIsRead, LinksAreFollowed,
         Linking, Archiving, Pairs!TypeOK, Pairs!EveryLinkIsHeld, Pairs!MarkedWhileLinked,
         Pairs!CommentedOnce, Pairs!ArchivedHoldsNoLinks, Pairs!bounds
  <2>2. CASE \E l \in todo : /\ Pairs!Request([issue EXCEPT !.links = @ \ {l}], "unlink")
                             /\ todo' = todo \ {l}
    <3>1. PICK l \in todo : /\ Pairs!Request([issue EXCEPT !.links = @ \ {l}], "unlink")
                            /\ todo' = todo \ {l}
      BY <2>2
    <3>2. /\ pc = "unlink" /\ pc' \in {"unlink", "idle"}
          /\ pc' = "unlink" => issue'.links = issue.links \ {l}
          /\ issue'.links \in {issue.links, issue.links \ {l}}
          /\ issue' = [issue EXCEPT !.links = issue'.links]
          /\ faults' \in Nat
          /\ UNCHANGED <<paired, dropped, held, wanted, current, stamp, changes, removed>>
      BY <1>10, <3>1 DEF Pairs!Unlink, Pairs!Request, LinksInvariant, RunFits, Pairs!TypeOK,
         Pairs!Goto
    <3>3. QED
      BY <3>1, <3>2 DEF LinksInvariant, RunFits, StampIsRead, LinksAreFollowed, Linking,
         Archiving, Pairs!TypeOK, Pairs!EveryLinkIsHeld, Pairs!MarkedWhileLinked,
         Pairs!CommentedOnce, Pairs!ArchivedHoldsNoLinks
  <2>3. QED
    BY <1>10, <2>1, <2>2 DEF Pairs!Unlink, Pairs!Goto
<1>11. CASE Pairs!Comment
  <2>1. /\ pc = "comment" /\ pc' \in {"close", "commented", "idle"} /\ todo' = todo
        /\ issue' \in {issue, Pairs!Commented} /\ faults' \in Nat
        /\ UNCHANGED <<paired, dropped, held, wanted, current, stamp, changes, removed>>
    <3>1. pc = "comment" /\ todo' = todo
      BY <1>11 DEF Pairs!Comment
    <3>2. CASE /\ pc' = "close"
               /\ UNCHANGED <<paired, dropped, held, issue, wanted, current, stamp,
                  Pairs!bounds>>
      BY <3>1, <3>2 DEF LinksInvariant, RunFits, Pairs!bounds
    <3>3. CASE Pairs!Request(Pairs!Commented, "commented")
      BY <3>1, <3>3 DEF Pairs!Request, LinksInvariant, RunFits, Pairs!Goto
    <3>4. QED
      BY <1>11, <3>2, <3>3 DEF Pairs!Comment, Pairs!Goto
  <2>2. /\ Pairs!Commented.comments \in {0, 1}
        /\ Pairs!Commented = [issue EXCEPT !.comments = Pairs!Commented.comments]
    BY <1>11 DEF Pairs!Commented, LinksInvariant, Pairs!TypeOK, Pairs!CommentedOnce
  <2>3. /\ issue'.comments \in {0, 1}
        /\ issue' \in [links : SUBSET Links, comments : Nat, done : BOOLEAN,
              stamp : Pairs!Stamp]
        /\ issue'.links = issue.links /\ issue'.stamp = issue.stamp /\ issue'.done = issue.done
    <3>1. CASE issue' = issue
      BY <3>1 DEF LinksInvariant, Pairs!TypeOK, Pairs!CommentedOnce
    <3>2. CASE issue' = Pairs!Commented
      BY <2>2, <3>2 DEF LinksInvariant, Pairs!TypeOK
    <3>3. QED
      BY <2>1, <3>1, <3>2
  <2>4. QED
    BY <2>1, <2>3 DEF LinksInvariant, RunFits, StampIsRead, LinksAreFollowed, Linking,
       Archiving, Pairs!TypeOK, Pairs!EveryLinkIsHeld, Pairs!MarkedWhileLinked,
       Pairs!CommentedOnce, Pairs!ArchivedHoldsNoLinks
<1>12. CASE Pairs!NoteCommented
  <2>1. Pairs!TypeOK'
    BY <1>12 DEF Pairs!NoteCommented, LinksInvariant, StampIsRead, Pairs!TypeOK, Pairs!Stamp,
       Pairs!Goto
  <2>2. RunFits'
    BY <1>12 DEF Pairs!NoteCommented, LinksInvariant, RunFits, Linking, Archiving, Pairs!Goto
  <2>3. StampIsRead'
    BY <1>12 DEF Pairs!NoteCommented, LinksInvariant, StampIsRead, Pairs!TypeOK, Pairs!Goto
  <2>4. LinksAreFollowed'
    BY <1>12 DEF Pairs!NoteCommented, LinksInvariant, LinksAreFollowed, Archiving, Pairs!TypeOK,
       Pairs!Goto
  <2>5. Pairs!EveryLinkIsHeld'
    BY <1>12 DEF Pairs!NoteCommented, LinksInvariant, Pairs!TypeOK, Pairs!EveryLinkIsHeld
  <2>6. Pairs!MarkedWhileLinked'
    BY <1>12 DEF Pairs!NoteCommented, LinksInvariant, LinksAreFollowed, Archiving, Pairs!TypeOK,
       Pairs!MarkedWhileLinked
  <2>7. Pairs!CommentedOnce'
    BY <1>12 DEF Pairs!NoteCommented, LinksInvariant, Pairs!TypeOK, Pairs!CommentedOnce
  <2>8. Pairs!ArchivedHoldsNoLinks'
    BY <1>12 DEF Pairs!NoteCommented, LinksInvariant, LinksAreFollowed, Archiving, Pairs!TypeOK,
       Pairs!ArchivedHoldsNoLinks, Pairs!Goto
  <2>9. QED
    BY <2>1, <2>2, <2>3, <2>4, <2>5, <2>6, <2>7, <2>8 DEF LinksInvariant
<1>13. CASE Pairs!Close
  <2>1. Pairs!TypeOK'
    BY <1>13 DEF Pairs!Close, Pairs!Request, LinksInvariant, Pairs!TypeOK, Pairs!Goto
  <2>2. RunFits'
    BY <1>13 DEF Pairs!Close, Pairs!Request, LinksInvariant, RunFits, Linking, Archiving,
       Pairs!Goto
  <2>3. StampIsRead'
    BY <1>13 DEF Pairs!Close, Pairs!Request, LinksInvariant, StampIsRead, Pairs!TypeOK,
       Pairs!Goto
  <2>4. LinksAreFollowed'
    BY <1>13 DEF Pairs!Close, Pairs!Request, LinksInvariant, LinksAreFollowed, Archiving,
       Pairs!TypeOK, Pairs!Goto
  <2>5. Pairs!EveryLinkIsHeld'
    BY <1>13 DEF Pairs!Close, Pairs!Request, LinksInvariant, Pairs!TypeOK, Pairs!EveryLinkIsHeld
  <2>6. Pairs!MarkedWhileLinked'
    BY <1>13 DEF Pairs!Close, Pairs!Request, LinksInvariant, Pairs!TypeOK,
       Pairs!MarkedWhileLinked
  <2>7. Pairs!CommentedOnce'
    BY <1>13 DEF Pairs!Close, Pairs!Request, LinksInvariant, Pairs!TypeOK, Pairs!CommentedOnce
  <2>8. Pairs!ArchivedHoldsNoLinks'
    BY <1>13 DEF Pairs!Close, Pairs!Request, LinksInvariant, Pairs!TypeOK,
       Pairs!ArchivedHoldsNoLinks, Pairs!Goto
  <2>9. QED
    BY <2>1, <2>2, <2>3, <2>4, <2>5, <2>6, <2>7, <2>8 DEF LinksInvariant
<1>14. CASE Pairs!PutArchived
  <2>1. Pairs!TypeOK'
    BY <1>14 DEF Pairs!PutArchived, Pairs!Request, LinksInvariant, StampIsRead, Pairs!TypeOK,
       Pairs!Stamp, Pairs!Goto
  <2>2. RunFits'
    BY <1>14 DEF Pairs!PutArchived, Pairs!Request, LinksInvariant, RunFits, Linking, Pairs!Goto
  <2>3. StampIsRead'
    BY <1>14 DEF Pairs!PutArchived, Pairs!Request, StampIsRead, Pairs!Goto
  <2>4. LinksAreFollowed'
    BY <1>14 DEF Pairs!PutArchived, Pairs!Request, LinksAreFollowed, Archiving, Pairs!Goto
  <2>5. Pairs!EveryLinkIsHeld'
    BY <1>14 DEF Pairs!PutArchived, Pairs!Request, LinksInvariant, Pairs!TypeOK,
       Pairs!EveryLinkIsHeld
  <2>6. Pairs!MarkedWhileLinked'
    BY <1>14 DEF Pairs!PutArchived, Pairs!Request, LinksInvariant, LinksAreFollowed, Archiving,
       Pairs!TypeOK, Pairs!MarkedWhileLinked
  <2>7. Pairs!CommentedOnce'
    BY <1>14 DEF Pairs!PutArchived, Pairs!Request, LinksInvariant, Pairs!TypeOK,
       Pairs!CommentedOnce
  <2>8. Pairs!ArchivedHoldsNoLinks'
    BY <1>14 DEF Pairs!PutArchived, Pairs!Request, LinksInvariant, LinksAreFollowed, Archiving,
       Pairs!TypeOK, Pairs!ArchivedHoldsNoLinks
  <2>9. QED
    BY <2>1, <2>2, <2>3, <2>4, <2>5, <2>6, <2>7, <2>8 DEF LinksInvariant
<1>15. CASE Pairs!NoTransition
  BY <1>15 DEF Pairs!NoTransition, LinksInvariant, RunFits, StampIsRead, LinksAreFollowed,
     Linking, Pairs!TypeOK, Pairs!EveryLinkIsHeld, Pairs!MarkedWhileLinked, Pairs!CommentedOnce,
     Pairs!ArchivedHoldsNoLinks, Pairs!Goto
<1>16. CASE Pairs!RemoveLink
  BY <1>16 DEF Pairs!RemoveLink, LinksInvariant, RunFits, StampIsRead, LinksAreFollowed,
     Pairs!TypeOK, Pairs!EveryLinkIsHeld, Pairs!MarkedWhileLinked, Pairs!CommentedOnce,
     Pairs!ArchivedHoldsNoLinks
<1>17. CASE Pairs!SetStatus
  <2>1. Pairs!TypeOK'
    BY <1>17 DEF Pairs!SetStatus, LinksInvariant, Pairs!TypeOK
  <2>2. RunFits'
    BY <1>17 DEF Pairs!SetStatus, LinksInvariant, RunFits
  <2>3. StampIsRead'
    BY <1>17 DEF Pairs!SetStatus, LinksInvariant, StampIsRead
  <2>4. LinksAreFollowed'
    BY <1>17 DEF Pairs!SetStatus, LinksInvariant, LinksAreFollowed
  <2>5. Pairs!EveryLinkIsHeld'
    BY <1>17 DEF Pairs!SetStatus, LinksInvariant, Pairs!EveryLinkIsHeld
  <2>6. Pairs!MarkedWhileLinked'
    BY <1>17 DEF Pairs!SetStatus, LinksInvariant, Pairs!MarkedWhileLinked
  <2>7. Pairs!CommentedOnce'
    BY <1>17 DEF Pairs!SetStatus, LinksInvariant, Pairs!CommentedOnce
  <2>8. Pairs!ArchivedHoldsNoLinks'
    BY <1>17 DEF Pairs!SetStatus, LinksInvariant, RunFits, Pairs!ArchivedHoldsNoLinks
  <2>9. QED
    BY <2>1, <2>2, <2>3, <2>4, <2>5, <2>6, <2>7, <2>8 DEF LinksInvariant
<1>18. CASE Pairs!Pair
  <2>1. Pairs!TypeOK'
    BY <1>18 DEF Pairs!Pair, LinksInvariant, Pairs!TypeOK
  <2>2. RunFits'
    BY <1>18 DEF Pairs!Pair, LinksInvariant, RunFits, Linking
  <2>3. StampIsRead'
    BY <1>18 DEF Pairs!Pair, StampIsRead
  <2>4. LinksAreFollowed'
    BY <1>18 DEF Pairs!Pair, LinksAreFollowed, Archiving
  <2>5. Pairs!EveryLinkIsHeld'
    BY <1>18 DEF Pairs!Pair, LinksInvariant, Pairs!EveryLinkIsHeld
  <2>6. Pairs!MarkedWhileLinked'
    BY <1>18 DEF Pairs!Pair, LinksInvariant, Pairs!MarkedWhileLinked
  <2>7. Pairs!CommentedOnce'
    BY <1>18 DEF Pairs!Pair, LinksInvariant, Pairs!CommentedOnce
  <2>8. Pairs!ArchivedHoldsNoLinks'
    BY <1>18 DEF Pairs!Pair, LinksInvariant, Pairs!ArchivedHoldsNoLinks
  <2>9. QED
    BY <2>1, <2>2, <2>3, <2>4, <2>5, <2>6, <2>7, <2>8 DEF LinksInvariant
<1>19. QED
  BY <1>1, <1>2, <1>3, <1>4, <1>5, <1>6, <1>7, <1>8, <1>9, <1>10, <1>11, <1>12, <1>13, <1>14,
     <1>15, <1>16, <1>17, <1>18 DEF Pairs!Next, Pairs!Run

\* In every reachable state the issue, its stamp and the state file agree with the
\* place the run has come to (publish/links.py, jira/transport.py archive_item).
THEOREM RunsAreFollowed ==
  ASSUME Pairs!LinksAssumption
  PROVE  Pairs!Spec => []LinksInvariant
<1>1. ASSUME Pairs!Init PROVE LinksInvariant
  <2>1. Pairs!TypeOK
    BY <1>1 DEF Pairs!Init, Pairs!TypeOK, Pairs!Unmarked, Pairs!Stamp
  <2>2. RunFits
    BY <1>1 DEF Pairs!Init, RunFits, Pairs!Unmarked, Linking, Archiving
  <2>3. StampIsRead
    BY <1>1 DEF Pairs!Init, StampIsRead
  <2>4. LinksAreFollowed
    BY <1>1 DEF Pairs!Init, LinksAreFollowed, Archiving
  <2>5. Pairs!EveryLinkIsHeld
    BY <1>1 DEF Pairs!Init, Pairs!EveryLinkIsHeld
  <2>6. Pairs!MarkedWhileLinked
    BY <1>1 DEF Pairs!Init, Pairs!MarkedWhileLinked
  <2>7. Pairs!CommentedOnce
    BY <1>1 DEF Pairs!Init, Pairs!CommentedOnce
  <2>8. Pairs!ArchivedHoldsNoLinks
    BY <1>1 DEF Pairs!Init, Pairs!ArchivedHoldsNoLinks, Pairs!Unmarked
  <2>9. QED
    BY <2>1, <2>2, <2>3, <2>4, <2>5, <2>6, <2>7, <2>8 DEF LinksInvariant
<1>2. LinksInvariant /\ UNCHANGED Pairs!vars => LinksInvariant'
  BY DEF Pairs!vars, LinksInvariant, RunFits, StampIsRead, LinksAreFollowed,
         Pairs!TypeOK, Pairs!EveryLinkIsHeld, Pairs!MarkedWhileLinked, Pairs!CommentedOnce,
         Pairs!ArchivedHoldsNoLinks
<1>3. QED
  BY <1>1, <1>2, LinkStepsKeepTheInvariant, PTL DEF Pairs!Spec

\* Every link on an issue is in the state file and marked in its stamp, whichever
\* request of any run fails or gets no answer; an archived issue holds none and was
\* commented on once (publish/links.py, jira/transport.py archive_item).
THEOREM LinksAreHeldAndMarked ==
  ASSUME Pairs!LinksAssumption
  PROVE  Pairs!Spec => []Pairs!LinksAreAccountedFor
<1>1. LinksInvariant => Pairs!LinksAreAccountedFor
  BY DEF LinksInvariant, Pairs!LinksAreAccountedFor
<1>2. QED
  BY <1>1, RunsAreFollowed, PTL


------------------------------------------------------------------------------
(* One operation on a Notion page                                            *)

Changes == {"section", "content", "fields", "links"}
Creating == {"create", "template", "into"}
Untouched == Notion!Keys \ hand

\* What an operation is asked for, and what the page held when the run read it.
AskIsKept ==
  /\ op \notin Creating => read[Notes] = None /\ \A k \in Notion!Keys : read[k] # "hand"
  /\ op \in {"section", "content"} => wanted[Notes] = None
  /\ op \in {"fields", "links"} => wanted = read
  /\ op = "release" => wanted = Notion!Blank
  /\ op \in Creating => wanted = Notion!First(Len(Sections))

\* Which operation comes to which request.
PlacesFit ==
  /\ \/ pc \in {"begin", "ended"}
     \/ pc \in {"stamp", "look"} /\ op \in Changes
     \/ pc = "send" /\ op \in {"section", "content"} \cup Creating
     \/ pc = "props" /\ op \in {"fields", "into"}
     \/ pc = "links" /\ op = "links"
     \/ pc \in {"remove", "clear", "over"} /\ op = "release"
     \/ pc \in {"trash", "over"} /\ op = "archive"
     \/ pc = "replace" /\ op = "template"
     \/ pc \in {"reread", "batches", "look"} /\ op \in Creating
  /\ (op \in Creating /\ pc \in {"begin", "send"}) \/ pc \in {"begin", "trash"} => landed = 0

\* What the texts are that nobody touched; a section that is not on the page cannot
\* be edited.
TextsAreFollowed ==
  /\ pc = "begin" /\ op \notin Creating => \A k \in Untouched : page.text[k] = read[k]
  /\ pc = "send" /\ op \notin Creating =>
       /\ seen.text = read
       /\ \A k \in Untouched : page.text[k] = read[k]
       /\ \A k \in Notion!Keys \ {Notes} : read[k] = None => page.text[k] = None
  /\ op \in Changes /\ pc \in {"stamp", "props", "links", "look"} =>
       \A k \in Untouched : page.text[k] = wanted[k]
  /\ pc = "stamp" => \A k \in Untouched : seen.text[k] = wanted[k]
  /\ pc = "remove" => \A k \in Untouched : page.text[k] = seen.text[k] /\ page.text[k] # "hand"
  /\ op = "release" /\ pc \in {"clear", "over"} => \A k \in Untouched : page.text[k] = None

\* A create has put its first sections on the page, and the others are not there.
SentIsThere ==
  /\ op \in Creating /\ pc \in {"props", "reread", "batches"} =>
       /\ \A k \in Untouched : page.text[k] = Notion!First(sent)[k]
       /\ \A j \in (sent + 1)..Len(Sections) : page.text[Sections[j]] = None
  /\ op \in Creating /\ pc = "look" => \A k \in Untouched : page.text[k] = wanted[k]

StampIsThere == page.stamp = None => "stamp" \in hand

\* Where the stamp is, and where the page is still empty.
StampsAreFollowed ==
  /\ pc = "send" /\ op \notin Creating => seen.stamp = None \/ StampIsThere
  /\ pc \in {"props", "links", "look", "reread", "batches"} => StampIsThere
  /\ pc = "remove" /\ seen.stamp = None => page.stamp = None
  /\ op = "release" /\ pc \in {"clear", "over"} => page.stamp = None
  /\ pc = "replace" /\ hand = {} => Notion!Emptied(page)

\* Which properties the page has, and whether it is there.
PropsAreFollowed ==
  /\ op \in Creating /\ pc \in {"replace", "reread", "batches", "look"} => page.props = "new"
  /\ op = "fields" /\ pc = "look" => page.props = "new"
  /\ op = "release" /\ pc = "over" => page.props = "new"
  /\ op = "archive" /\ pc = "over" => page.life # "there"

\* In these operations only the first request can be refused outright.
RejectedFirst ==
  op \notin Changes \cup {"release"} => Notion!RejectedLeavesNoTrace

Counted == faults \in Nat /\ edits \in Nat

PageInvariant ==
  /\ Notion!TypeOK /\ Counted /\ AskIsKept /\ PlacesFit /\ TextsAreFollowed /\ SentIsThere
  /\ StampsAreFollowed /\ PropsAreFollowed
  /\ Notion!DoneIsOnThePage /\ Notion!UnfinishedIsFound /\ RejectedFirst

\* The sections of a draft, as the assumption has them.
LEMMA SectionsAreKeys ==
  ASSUME Notion!NotionAssumption
  PROVE  /\ Len(Sections) \in Nat \ {0} /\ DOMAIN Sections = 1..Len(Sections)
         /\ Notes \in Notion!Keys /\ "stamp" \notin Notion!Keys
         /\ \A j \in 1..Len(Sections) : Sections[j] \in Notion!Keys \ {Notes}
         /\ \A i, j \in 1..Len(Sections) : Sections[i] = Sections[j] => i = j
         /\ None \notin {"old", "new", "hand", "plain", "linked"}
         /\ None \notin {"done", "rejected", "unfinished", "failed"}
BY DEF Notion!NotionAssumption, Notion!Keys

\* The texts of a page.
LEMMA TextTypes ==
  ASSUME Notion!NotionAssumption
  PROVE  /\ Notion!Blank \in [Notion!Keys -> Notion!Texts]
         /\ \A n \in Nat : Notion!First(n) \in [Notion!Keys -> {"new", None}]
         /\ \A k \in Notion!Keys : Notion!Blank[k] = None
         /\ Notion!First(0) = Notion!Blank
         /\ \A n \in 1..Len(Sections) : \A j \in 1..Len(Sections) :
              j > n => Notion!First(n)[Sections[j]] = None
         /\ \A n \in Nat : \A k \in Notion!Keys :
              Notion!First(n)[k] = IF \E j \in 1..n : Sections[j] = k THEN "new" ELSE None
<1> USE SectionsAreKeys
<1>1. Notion!First(0) = Notion!Blank
  BY DEF Notion!First, Notion!Blank
<1>2. \A n \in Nat : \A k \in Notion!Keys :
        Notion!First(n)[k] = IF \E j \in 1..n : Sections[j] = k THEN "new" ELSE None
  BY DEF Notion!First
<1>3. \A n \in Nat : Notion!First(n) \in [Notion!Keys -> {"new", None}]
  BY DEF Notion!First
<1>4. Notion!Blank \in [Notion!Keys -> Notion!Texts] /\
      \A k \in Notion!Keys : Notion!Blank[k] = None
  BY DEF Notion!Blank, Notion!Texts
<1>5. QED
  BY <1>2, <1>3, <1>4

\* An operation ends without having done all it was asked for.
LEMMA ItEnds ==
  ASSUME PageInvariant, pc' = "ended", told' \in {"rejected", "unfinished", "failed"},
         UNCHANGED <<read, op, wanted, hand, edits>>, faults' \in Nat,
            sent' \in 0..Len(Sections),
         page' \in Notion!Page, seen' \in Notion!Page, landed' \in Nat,
         told' = "rejected" /\ op \notin Changes \cup {"release"} => landed' = 0,
         told' = "unfinished" /\ hand = {} => page'.stamp # None \/ Notion!Emptied(page'),
         op = "into" /\ landed' > 0 => page'.stamp # None \/ "stamp" \in hand,
         Notion!NotionAssumption
  PROVE  PageInvariant'
<1>1. Notion!TypeOK'
  BY SectionsAreKeys DEF PageInvariant, Notion!TypeOK
<1>2. Counted' /\ AskIsKept' /\ PlacesFit'
  BY DEF PageInvariant, Counted, AskIsKept, PlacesFit
<1>3. TextsAreFollowed' /\ SentIsThere' /\ StampsAreFollowed' /\ PropsAreFollowed'
  BY DEF TextsAreFollowed, SentIsThere, StampsAreFollowed, PropsAreFollowed
<1>4. Notion!DoneIsOnThePage' /\ Notion!UnfinishedIsFound' /\ RejectedFirst'
  BY DEF Notion!DoneIsOnThePage, Notion!UnfinishedIsFound, RejectedFirst,
     Notion!RejectedLeavesNoTrace
<1>5. QED
  BY <1>1, <1>2, <1>3, <1>4 DEF PageInvariant

\* A request that is refused or gets no answer ends the operation; what it has to do
\* when it is taken is left to show.
LEMMA RequestsKeepTheInvariant ==
  ASSUME Notion!NotionAssumption, PageInvariant, pc # "ended",
         NEW quoted, NEW after \in Notion!Page, NEW known \in Notion!Page, NEW next,
         Notion!Request(quoted, after, known, next), sent' \in 0..Len(Sections),
         Notion!Finishing \/ op \in Changes \cup {"release"} \/ landed = 0,
         Notion!Finishing /\ op # "into" /\ hand = {} =>
           /\ page.stamp # None \/ Notion!Emptied(page)
           /\ Notion!Takes(quoted) => after.stamp # None \/ Notion!Emptied(after),
         op = "into" /\ Notion!Takes(quoted) => after.stamp # None \/ "stamp" \in hand,
         /\ Notion!Takes(quoted) /\ page' = after /\ seen' = known /\ landed' = landed + 1
         /\ pc' = next /\ UNCHANGED <<told, faults, hand, edits, read, op, wanted>>
         => PageInvariant'
  PROVE  PageInvariant'
<1> USE DEF Notion!work
<1>1. /\ UNCHANGED <<hand, edits, read, op, wanted>> /\ landed \in Nat /\ faults \in Nat
      /\ page \in Notion!Page /\ seen \in Notion!Page
      /\ op = "into" /\ landed > 0 => page.stamp # None \/ "stamp" \in hand
  BY DEF Notion!Request, PageInvariant, Notion!TypeOK, Counted, Notion!UnfinishedIsFound
<1>2. CASE /\ Notion!Takes(quoted) /\ Notion!Lands(after)
           /\ seen' = known /\ pc' = next
           /\ UNCHANGED <<told, faults>>
  BY <1>1, <1>2 DEF Notion!Lands
<1>3. CASE /\ (~Notion!Takes(quoted) /\ UNCHANGED faults) \/ Notion!Fault
           /\ Notion!End(Notion!Refused)
           /\ UNCHANGED <<page, seen, landed>>
  <2>1. told' = Notion!Refused /\ pc' = "ended" /\ faults' \in Nat
    BY <1>1, <1>3 DEF Notion!End, Notion!Fault
  <2>2. CASE Notion!Finishing
    BY <1>1, <1>3, <2>1, ItEnds DEF Notion!Refused, Notion!Unanswered
  <2>3. CASE ~Notion!Finishing
    BY <1>1, <1>3, <2>1, <2>3, ItEnds DEF Notion!Refused
  <2>4. QED
    BY <2>2, <2>3
<1>4. CASE /\ (page.life # "there" /\ UNCHANGED faults) \/ Notion!Fault
           /\ \/ UNCHANGED <<page, landed>>
              \/ Notion!Takes(quoted) /\ Notion!Lands(after)
           /\ Notion!End(Notion!Unanswered)
           /\ UNCHANGED seen
  <2>1. /\ pc' = "ended" /\ faults' \in Nat
        /\ told' = IF Notion!Finishing /\ op # "into" THEN "unfinished" ELSE "failed"
        /\ \/ UNCHANGED <<page, landed>>
           \/ Notion!Takes(quoted) /\ page' = after /\ landed' = landed + 1
    BY <1>1, <1>4 DEF Notion!End, Notion!Unanswered, Notion!Fault, Notion!Lands
  <2>2. page' \in Notion!Page /\ landed' \in Nat
        /\ (op = "into" /\ landed' > 0 => page'.stamp # None \/ "stamp" \in hand)
    BY <1>1, <2>1
  <2>3. told' = "unfinished" /\ hand = {} => page'.stamp # None \/ Notion!Emptied(page')
    BY <2>1
  <2>4. QED
    BY <1>1, <1>4, <2>1, ItEnds
<1>5. QED
  BY <1>2, <1>3, <1>4 DEF Notion!Request

\* What a person does to a page.
LEMMA PeopleKeepTheInvariant ==
  ASSUME Notion!NotionAssumption, PageInvariant,
         Notion!EditSection \/ Notion!RemoveStamp \/ Notion!TrashPage
  PROVE  PageInvariant'
<1>1. /\ page.life = "there" /\ page' \in Notion!Page /\ edits' \in Nat /\ page' # page
      /\ UNCHANGED <<seen, pc, sent, told, landed, faults, read, op, wanted>>
      /\ page'.props = page.props /\ hand \subseteq hand'
      /\ hand' \subseteq Notion!Keys \cup {"stamp"}
      /\ page'.stamp = page.stamp \/ (page'.stamp = None /\ "stamp" \in hand')
      /\ page'.life \in {"there", "trash"}
      /\ \A k \in Notion!Keys : page'.text[k] = page.text[k] \/ (k \in hand' /\
         (page.text[k] # None \/ k = Notes))
      /\ hand' = {} => page'.text = page.text /\ page'.stamp = page.stamp
  <2> USE SectionsAreKeys
  <2>0. page \in Notion!Page /\ edits \in Nat /\ hand \subseteq Notion!Keys \cup {"stamp"}
    BY DEF PageInvariant, Notion!TypeOK, Counted
  <2>1. CASE Notion!EditSection
    <3>1. PICK k \in {j \in Notion!Keys : page.text[j] # None} \cup {Notes},
               x \in {"hand", None} :
            Notion!Person([page EXCEPT !.text[k] = x], {k})
      BY <2>1 DEF Notion!EditSection
    <3>2. k \in Notion!Keys
      OBVIOUS
    <3>3. [page EXCEPT !.text[k] = x] \in Notion!Page
      BY <2>0 DEF Notion!Page, Notion!Texts
    <3>4. page' = [page EXCEPT !.text[k] = x] /\ hand' = hand \cup {k}
          /\ edits' = edits + 1 /\ page.life = "there" /\ page' # page
          /\ UNCHANGED <<seen, pc, sent, told, landed, faults, read, op, wanted>>
      BY <3>1 DEF Notion!Person, Notion!work
    <3>5. /\ page'.props = page.props /\ page'.stamp = page.stamp /\ page'.life = page.life
          /\ \A j \in Notion!Keys : j # k => page'.text[j] = page.text[j]
      BY <3>4
    <3>6. QED
      BY <2>0, <3>3, <3>4
  <2>2. CASE Notion!RemoveStamp
    <3>1. page' = [page EXCEPT !.stamp = None] /\ hand' = hand \cup {"stamp"}
          /\ edits' = edits + 1 /\ page.life = "there" /\ page' # page
          /\ UNCHANGED <<seen, pc, sent, told, landed, faults, read, op, wanted>>
      BY <2>2 DEF Notion!RemoveStamp, Notion!Person, Notion!work
    <3>2. page' \in Notion!Page /\ page'.text = page.text /\ page'.props = page.props
          /\ page'.stamp = None /\ page'.life = page.life
      BY <2>0, <3>1 DEF Notion!Page, Notion!Stamps
    <3>3. QED
      BY <2>0, <3>1, <3>2
  <2>3. CASE Notion!TrashPage
    <3>1. page' = [page EXCEPT !.life = "trash"] /\ hand' = hand
          /\ edits' = edits + 1 /\ page.life = "there" /\ page' # page
          /\ UNCHANGED <<seen, pc, sent, told, landed, faults, read, op, wanted>>
      BY <2>3 DEF Notion!TrashPage, Notion!Person, Notion!work
    <3>2. page' \in Notion!Page /\ page'.text = page.text /\ page'.props = page.props
          /\ page'.stamp = page.stamp /\ page'.life = "trash"
      BY <2>0, <3>1 DEF Notion!Page
    <3>3. QED
      BY <2>0, <3>1, <3>2
  <2>4. QED
    BY <2>1, <2>2, <2>3
<1>2. Notion!TypeOK'
  BY <1>1 DEF PageInvariant, Notion!TypeOK
<1>3. Counted'
  BY <1>1 DEF PageInvariant, Counted
<1>4. AskIsKept'
  BY <1>1 DEF PageInvariant, AskIsKept
<1>5. PlacesFit'
  BY <1>1 DEF PageInvariant, PlacesFit
<1>6. TextsAreFollowed'
  BY <1>1 DEF PageInvariant, TextsAreFollowed, Untouched
<1>12. SentIsThere'
  <2>1. sent \in 0..Len(Sections)
    BY DEF PageInvariant, Notion!TypeOK
  <2>2. \A j \in (sent + 1)..Len(Sections) :
          page.text[Sections[j]] = None => page'.text[Sections[j]] = None
    BY <1>1, <2>1, SectionsAreKeys
  <2>3. \A k \in Untouched' : k \in Untouched /\ page'.text[k] = page.text[k]
    BY <1>1 DEF Untouched
  <2>4. CASE op \in Creating /\ pc \in {"props", "reread", "batches"}
    BY <1>1, <2>2, <2>3 DEF PageInvariant, SentIsThere
  <2>5. CASE op \in Creating /\ pc = "look"
    BY <1>1, <2>3, <2>5 DEF PageInvariant, SentIsThere
  <2>6. QED
    BY <1>1, <2>4, <2>5 DEF SentIsThere
<1>7. StampsAreFollowed'
  BY <1>1 DEF PageInvariant, StampsAreFollowed, StampIsThere, Notion!Emptied
<1>8. PropsAreFollowed'
  BY <1>1 DEF PageInvariant, PropsAreFollowed
<1>9. Notion!DoneIsOnThePage'
  BY <1>1 DEF PageInvariant, Notion!DoneIsOnThePage, Notion!IsOnThePage
<1>10. Notion!UnfinishedIsFound'
  BY <1>1 DEF PageInvariant, Notion!UnfinishedIsFound, Notion!Emptied
<1>11. RejectedFirst'
  BY <1>1 DEF PageInvariant, RejectedFirst, Notion!RejectedLeavesNoTrace
<1>13. QED
  BY <1>2, <1>3, <1>4, <1>5, <1>6, <1>7, <1>8, <1>9, <1>10, <1>11, <1>12 DEF PageInvariant

\* An operation that ends says what holds.
LEMMA StopsKeepTheInvariant ==
  ASSUME Notion!NotionAssumption, PageInvariant,
         NEW outcome \in {"done", "rejected", "unfinished", "failed"}, Notion!Stop(outcome),
         outcome = "rejected" /\ op \notin Changes \cup {"release"} => landed = 0,
         outcome = "unfinished" /\ hand = {} => page.stamp # None \/ Notion!Emptied(page),
         outcome = "done" => Notion!IsOnThePage
  PROVE  PageInvariant'
<1>1. /\ pc' = "ended" /\ told' = outcome
      /\ UNCHANGED <<page, seen, sent, landed, hand, edits, faults, read, op, wanted>>
  BY DEF Notion!Stop, Notion!End, Notion!work
<1>2. page \in Notion!Page /\ seen \in Notion!Page /\ landed \in Nat /\ faults \in Nat
      /\ sent \in 0..Len(Sections) /\ (op = "into" /\ landed > 0 => page.stamp # None \/
         "stamp" \in hand)
  BY DEF PageInvariant, Notion!TypeOK, Counted, Notion!UnfinishedIsFound
<1>3. CASE outcome # "done"
  BY <1>1, <1>2, <1>3, ItEnds
<1>4. CASE outcome = "done"
  <2>1. Notion!TypeOK'
    BY <1>1, SectionsAreKeys DEF PageInvariant, Notion!TypeOK
  <2>2. Counted' /\ AskIsKept' /\ PlacesFit'
    BY <1>1 DEF PageInvariant, Counted, AskIsKept, PlacesFit
  <2>3. TextsAreFollowed' /\ SentIsThere' /\ StampsAreFollowed' /\ PropsAreFollowed'
    BY <1>1 DEF TextsAreFollowed, SentIsThere, StampsAreFollowed, PropsAreFollowed
  <2>4. Notion!DoneIsOnThePage'
    BY <1>1 DEF Notion!DoneIsOnThePage, Notion!IsOnThePage
  <2>5. Notion!UnfinishedIsFound' /\ RejectedFirst'
    BY <1>1, <1>2 DEF Notion!UnfinishedIsFound, RejectedFirst, Notion!RejectedLeavesNoTrace
  <2>6. QED
    BY <2>1, <2>2, <2>3, <2>4, <2>5 DEF PageInvariant
<1>5. QED
  BY <1>3, <1>4

\* An operation that goes on has told nothing yet.
LEMMA MovesKeepTheInvariant ==
  ASSUME Notion!NotionAssumption, PageInvariant, pc # "ended", pc' # "ended", told' = told,
         UNCHANGED <<hand, edits, read, op, wanted>>, faults' \in Nat,
         page' \in Notion!Page, seen' \in Notion!Page, sent' \in 0..Len(Sections),
            landed' \in Nat,
         op = "into" /\ landed' > 0 => page'.stamp # None \/ "stamp" \in hand,
         PlacesFit', TextsAreFollowed', SentIsThere', StampsAreFollowed', PropsAreFollowed'
  PROVE  PageInvariant'
<1>1. told' = None
  BY DEF PageInvariant, Notion!TypeOK
<1>2. Notion!TypeOK'
  BY DEF PageInvariant, Notion!TypeOK
<1>3. Counted' /\ AskIsKept'
  BY DEF PageInvariant, Counted, AskIsKept
<1>4. Notion!DoneIsOnThePage' /\ Notion!UnfinishedIsFound' /\ RejectedFirst'
  BY <1>1, SectionsAreKeys DEF Notion!DoneIsOnThePage, Notion!UnfinishedIsFound, RejectedFirst,
     Notion!RejectedLeavesNoTrace
<1>5. QED
  BY <1>2, <1>3, <1>4 DEF PageInvariant

\* The types of the variables, and what an interrupted "into" has left.
LEMMA TypeFacts ==
  ASSUME Notion!NotionAssumption, PageInvariant
  PROVE  /\ page \in Notion!Page /\ seen \in Notion!Page
         /\ read \in [Notion!Keys -> Notion!Texts] /\ wanted \in [Notion!Keys -> Notion!Texts]
         /\ sent \in 0..Len(Sections) /\ landed \in Nat /\ faults \in Nat
         /\ op \in Changes \cup Creating \cup {"archive", "release"}
         /\ hand \subseteq Notion!Keys \cup {"stamp"}
         /\ op = "into" /\ landed > 0 => page.stamp # None \/ "stamp" \in hand
BY DEF PageInvariant, Notion!TypeOK, Counted, Notion!NotionAssumption, Notion!AllOps, Changes,
   Creating, Notion!UnfinishedIsFound

\* What a read leaves as it was.
LEMMA ReadFacts ==
  ASSUME NEW next, Notion!Read(next)
  PROVE  /\ seen' = page /\ pc' = next
         /\ UNCHANGED <<page, sent, told, landed, hand, edits, faults, read, op, wanted>>
BY DEF Notion!Read, Notion!work

\* write_section, write_content and release_item look at the page and read it.
LEMMA BeginKeeps ==
  ASSUME Notion!NotionAssumption, PageInvariant, Notion!Begin
  PROVE  PageInvariant'
<1>1. pc = "begin" /\ op \in {"section", "content", "release"}
  BY DEF Notion!Begin
<1>2. CASE /\ page.life = "there" /\ Notion!UnchangedSinceRead
           /\ Notion!Read(IF op = "release" THEN "remove" ELSE "send")
  <2>1. /\ page.text = read /\ seen' = page /\ pc' = IF op = "release" THEN "remove" ELSE "send"
        /\ UNCHANGED <<page, sent, told, landed, hand, edits, faults, read, op, wanted>>
    BY <1>2, ReadFacts DEF Notion!UnchangedSinceRead
  <2>2. PlacesFit'
    BY <1>1, <2>1 DEF PlacesFit, Creating
  <2>3. TextsAreFollowed'
    BY <2>1 DEF PageInvariant, TextsAreFollowed, Untouched, AskIsKept, Creating
  <2>4. SentIsThere'
    BY <2>1 DEF SentIsThere
  <2>5. StampsAreFollowed'
    BY <2>1 DEF StampsAreFollowed, StampIsThere
  <2>6. PropsAreFollowed'
    BY <2>1 DEF PropsAreFollowed
  <2>7. QED
    BY <1>1, <2>1, <2>2, <2>3, <2>4, <2>5, <2>6, TypeFacts, MovesKeepTheInvariant
<1>3. CASE Notion!Stop("rejected") \/ Notion!Stop("failed")
  BY <1>1, <1>3, StopsKeepTheInvariant DEF Changes
<1>4. QED
  BY <1>2, <1>3 DEF Notion!Begin

\* write_fields and write_links read the page.
LEMMA BeginFieldsKeeps ==
  ASSUME Notion!NotionAssumption, PageInvariant, Notion!BeginFields
  PROVE  PageInvariant'
<1>1. pc = "begin" /\ op \in {"fields", "links"}
  BY DEF Notion!BeginFields
<1>2. CASE /\ page.life = "there"
           /\ Notion!Read(IF page.stamp = None THEN "stamp"
                          ELSE IF op = "fields" THEN "props" ELSE "links")
  <2>1. /\ seen' = page /\ pc' = IF page.stamp = None THEN "stamp"
                                 ELSE IF op = "fields" THEN "props" ELSE "links"
        /\ UNCHANGED <<page, sent, told, landed, hand, edits, faults, read, op, wanted>>
    BY <1>2, ReadFacts
  <2>2. PlacesFit'
    BY <1>1, <2>1 DEF PlacesFit, Changes
  <2>3. TextsAreFollowed'
    BY <1>1, <2>1 DEF PageInvariant, TextsAreFollowed, Untouched, AskIsKept, Creating
  <2>4. SentIsThere'
    BY <2>1 DEF SentIsThere, Creating
  <2>5. StampsAreFollowed'
    BY <2>1 DEF StampsAreFollowed, StampIsThere
  <2>6. PropsAreFollowed'
    BY <2>1 DEF PropsAreFollowed
  <2>7. QED
    BY <1>1, <2>1, <2>2, <2>3, <2>4, <2>5, <2>6, TypeFacts, MovesKeepTheInvariant
<1>3. CASE Notion!Stop("failed")
  BY <1>3, StopsKeepTheInvariant
<1>4. QED
  BY <1>2, <1>3 DEF Notion!BeginFields

\* create_item looks at the page it is to write into.
LEMMA BeginCreateKeeps ==
  ASSUME Notion!NotionAssumption, PageInvariant, Notion!BeginCreate
  PROVE  PageInvariant'
<1>1. pc = "begin" /\ op \in Creating /\ landed = 0
  BY DEF Notion!BeginCreate, Notion!Creates, Creating, PageInvariant, PlacesFit
<1>2. CASE Notion!Read("send")
  <2>1. /\ seen' = page /\ pc' = "send"
        /\ UNCHANGED <<page, sent, told, landed, hand, edits, faults, read, op, wanted>>
    BY <1>2, ReadFacts
  <2>2. PlacesFit'
    BY <1>1, <2>1 DEF PlacesFit
  <2>3. TextsAreFollowed'
    BY <1>1, <2>1 DEF TextsAreFollowed
  <2>4. SentIsThere'
    BY <2>1 DEF SentIsThere
  <2>5. StampsAreFollowed'
    BY <1>1, <2>1 DEF StampsAreFollowed
  <2>6. PropsAreFollowed'
    BY <2>1 DEF PropsAreFollowed
  <2>7. QED
    BY <1>1, <2>1, <2>2, <2>3, <2>4, <2>5, <2>6, TypeFacts, MovesKeepTheInvariant
<1>3. CASE Notion!Stop("rejected")
  BY <1>1, <1>3, StopsKeepTheInvariant
<1>4. QED
  BY <1>2, <1>3 DEF Notion!BeginCreate

\* A create reads its page again before the later batches.
LEMMA RereadKeeps ==
  ASSUME Notion!NotionAssumption, PageInvariant, Notion!Reread
  PROVE  PageInvariant'
<1>1. /\ pc = "reread" /\ seen' = page /\ pc' = "batches"
      /\ UNCHANGED <<page, sent, told, landed, hand, edits, faults, read, op, wanted>>
  BY ReadFacts DEF Notion!Reread
<1>2. PlacesFit'
  BY <1>1 DEF PageInvariant, PlacesFit
<1>3. TextsAreFollowed'
  BY <1>1 DEF TextsAreFollowed
<1>4. SentIsThere'
  BY <1>1 DEF PageInvariant, SentIsThere, Untouched
<1>5. StampsAreFollowed'
  BY <1>1 DEF PageInvariant, StampsAreFollowed, StampIsThere
<1>6. PropsAreFollowed'
  BY <1>1 DEF PageInvariant, PropsAreFollowed
<1>7. QED
  BY <1>1, <1>2, <1>3, <1>4, <1>5, <1>6, TypeFacts, MovesKeepTheInvariant

\* What an operation did is there when it has looked at the page: it is told as done.
LEMMA LookKeeps ==
  ASSUME Notion!NotionAssumption, PageInvariant, Notion!Look
  PROVE  PageInvariant'
<1>1. pc = "look" /\ op \in Changes \cup Creating
  BY DEF Notion!Look, PageInvariant, PlacesFit
<1>2. CASE Notion!Stop("done")
  <2>1. Notion!IsOnThePage
    BY <1>1 DEF PageInvariant, TextsAreFollowed, SentIsThere, StampsAreFollowed,
       PropsAreFollowed,
       Notion!IsOnThePage, StampIsThere, Untouched, Changes, Creating
  <2>2. QED
    BY <1>2, <2>1, StopsKeepTheInvariant
<1>3. CASE Notion!Stop(Notion!Unanswered)
  BY <1>1, <1>3, StopsKeepTheInvariant DEF Notion!Unanswered, PageInvariant, StampsAreFollowed,
     StampIsThere
<1>4. QED
  BY <1>2, <1>3 DEF Notion!Look

\* archive_item and release_item are told as done.
LEMMA OverKeeps ==
  ASSUME Notion!NotionAssumption, PageInvariant, Notion!Over
  PROVE  PageInvariant'
<1>1. pc = "over" /\ op \in {"release", "archive"} /\ Notion!Stop("done")
  BY DEF Notion!Over, PageInvariant, PlacesFit
<1>2. Notion!IsOnThePage
  BY <1>1, TextTypes DEF PageInvariant, TextsAreFollowed, AskIsKept, StampsAreFollowed,
     PropsAreFollowed, Notion!IsOnThePage, Untouched
<1>3. QED
  BY <1>1, <1>2, StopsKeepTheInvariant

\* A read that gets no answer ends the operation.
LEMMA ReadFailsKeeps ==
  ASSUME Notion!NotionAssumption, PageInvariant, Notion!ReadFails
  PROVE  PageInvariant'
<1>1. /\ pc # "ended" /\ pc' = "ended" /\ faults' \in Nat
      /\ told' = IF op \in Creating /\ pc = "begin" THEN "rejected" ELSE Notion!Unanswered
      /\ UNCHANGED <<page, seen, sent, landed, hand, edits, read, op, wanted>>
  BY TypeFacts DEF Notion!ReadFails, Notion!Fault, Notion!End, Notion!work, Notion!Creates,
     Creating
<1>2. told' = "rejected" => landed' = 0
  BY <1>1 DEF Notion!Unanswered, PageInvariant, PlacesFit
<1>3. told' = "unfinished" /\ hand = {} => page.stamp # None \/ Notion!Emptied(page)
  <2>1. CASE op \in Creating /\ pc \in {"reread", "batches", "look", "replace"}
    BY <2>1 DEF PageInvariant, StampsAreFollowed, StampIsThere
  <2>2. QED
    BY <1>1, <2>1 DEF Notion!Unanswered, Notion!Finishing, Notion!Creates, Creating,
       PageInvariant,
       PlacesFit, Changes
<1>4. QED
  BY <1>1, <1>2, <1>3, TypeFacts, ItEnds DEF Notion!Unanswered

\* The request that sets the properties.
LEMMA UpdatePropertiesKeeps ==
  ASSUME Notion!NotionAssumption, PageInvariant, Notion!UpdateProperties
  PROVE  PageInvariant'
<1> DEFINE after == [page EXCEPT !.props = "new"]
           next == IF op = "into" THEN "reread" ELSE "look"
<1>1. pc = "props" /\ op \in {"fields", "into"} /\ Notion!Request({}, after, after, next) /\
      sent' = sent
  BY DEF Notion!UpdateProperties, Notion!Send, PageInvariant, PlacesFit
<1>2. /\ after \in Notion!Page /\ after.text = page.text /\ after.stamp = page.stamp
      /\ after.props = "new" /\ after.life = page.life
  BY TypeFacts DEF Notion!Page
<1>3. StampIsThere /\ next \in {"reread", "look"}
  BY <1>1 DEF PageInvariant, StampsAreFollowed
<1> HIDE DEF after
<1>4. ASSUME Notion!Takes({}), page' = after, seen' = after, landed' = landed + 1,
                pc' = next, UNCHANGED <<told, faults, hand, edits, read, op, wanted>>
      PROVE  PageInvariant'
  <2>1. PlacesFit'
    BY <1>1, <1>4, TypeFacts DEF PlacesFit, Changes
  <2>2. TextsAreFollowed'
    BY <1>1, <1>2, <1>4 DEF PageInvariant, TextsAreFollowed, Untouched
  <2>3. SentIsThere'
    BY <1>1, <1>2, <1>4 DEF PageInvariant, SentIsThere, Untouched, Creating
  <2>4. StampsAreFollowed'
    BY <1>2, <1>3, <1>4 DEF StampsAreFollowed, StampIsThere
  <2>5. PropsAreFollowed'
    BY <1>2, <1>4 DEF PropsAreFollowed
  <2>6. QED
    BY <1>1, <1>2, <1>3, <1>4, <2>1, <2>2, <2>3, <2>4, <2>5, TypeFacts, MovesKeepTheInvariant
       DEF StampIsThere
<1>5. QED
  BY <1>1, <1>2, <1>3, <1>4, TypeFacts, RequestsKeepTheInvariant DEF StampIsThere,
     Notion!Finishing,
     Notion!Creates, Changes

\* The request that changes the links in the stamp line.
LEMMA UpdateLinksKeeps ==
  ASSUME Notion!NotionAssumption, PageInvariant, Notion!UpdateLinks
  PROVE  PageInvariant'
<1> DEFINE after == [page EXCEPT !.stamp = "linked"]
<1>1. pc = "links" /\ op = "links" /\ sent' = sent
      /\ Notion!Request({"stamp"}, after, after, "look")
  BY DEF Notion!UpdateLinks, Notion!Send, PageInvariant, PlacesFit
<1>2. /\ after \in Notion!Page /\ after.text = page.text /\ after.stamp = "linked"
      /\ after.props = page.props /\ after.life = page.life
  BY TypeFacts DEF Notion!Page, Notion!Stamps
<1> HIDE DEF after
<1>3. ASSUME Notion!Takes({"stamp"}), page' = after, seen' = after, landed' = landed + 1,
                pc' = "look", UNCHANGED <<told, faults, hand, edits, read, op, wanted>>
      PROVE  PageInvariant'
  <2>1. PlacesFit'
    BY <1>1, <1>3, TypeFacts DEF PlacesFit
  <2>2. TextsAreFollowed'
    BY <1>1, <1>2, <1>3 DEF PageInvariant, TextsAreFollowed, Untouched
  <2>3. SentIsThere'
    BY <1>1, <1>3 DEF SentIsThere, Creating
  <2>4. StampsAreFollowed'
    BY <1>2, <1>3, SectionsAreKeys DEF StampsAreFollowed, StampIsThere
  <2>5. PropsAreFollowed'
    BY <1>1, <1>3 DEF PropsAreFollowed, Creating
  <2>6. QED
    BY <1>1, <1>2, <1>3, <2>1, <2>2, <2>3, <2>4, <2>5, TypeFacts, MovesKeepTheInvariant
<1>4. QED
  BY <1>1, <1>2, <1>3, TypeFacts, RequestsKeepTheInvariant DEF Notion!Finishing, Notion!Creates,
     Changes

\* The request that puts a lost stamp back quotes a text next to it or replaces an empty page.
LEMMA StampBackKeeps ==
  ASSUME Notion!NotionAssumption, PageInvariant, Notion!StampBack
  PROVE  PageInvariant'
<1> DEFINE stamped == [page EXCEPT !.stamp = IF op = "links" THEN "linked" ELSE "plain"]
           next == IF op = "fields" THEN "props" ELSE "look"
<1>1. pc = "stamp" /\ op \in Changes /\ sent' = sent
  BY DEF Notion!StampBack, Notion!Send, PageInvariant, PlacesFit
<1>2. /\ stamped \in Notion!Page /\ stamped.text = page.text
      /\ stamped.stamp \in {"plain", "linked"}
      /\ stamped.props = page.props /\ stamped.life = page.life
  BY TypeFacts DEF Notion!Page, Notion!Stamps
<1> HIDE DEF stamped
<1>3. ASSUME NEW q, NEW after \in Notion!Page, Notion!Request(q, after, after, next),
             after.stamp \in {"plain", "linked"}, \A k \in Untouched : after.text[k] = wanted[k]
      PROVE  PageInvariant'
  <2>1. ASSUME Notion!Takes(q), page' = after, seen' = after, landed' = landed + 1,
                  pc' = next, UNCHANGED <<told, faults, hand, edits, read, op, wanted>>
        PROVE  PageInvariant'
    <3>1. PlacesFit'
      BY <1>1, <2>1 DEF PlacesFit
    <3>2. TextsAreFollowed'
      BY <1>3, <2>1 DEF TextsAreFollowed, Untouched
    <3>3. SentIsThere'
      BY <1>3, <2>1 DEF SentIsThere, Untouched, Creating
    <3>4. StampsAreFollowed'
      BY <1>3, <2>1, SectionsAreKeys DEF StampsAreFollowed, StampIsThere
    <3>5. PropsAreFollowed'
      BY <1>1, <2>1 DEF PropsAreFollowed, Creating, Changes
    <3>6. QED
      BY <1>1, <1>3, <2>1, SectionsAreKeys, <3>1, <3>2, <3>3, <3>4, <3>5, TypeFacts,
         MovesKeepTheInvariant
  <2>2. QED
    BY <1>1, <1>3, <2>1, TypeFacts, RequestsKeepTheInvariant DEF Notion!Finishing,
       Notion!Creates,
       Changes
<1>4. CASE /\ seen.text = Notion!Blank
           /\ Notion!Send({}, [stamped EXCEPT !.text = Notion!Blank], next)
  <2>1. /\ [stamped EXCEPT !.text = Notion!Blank] \in Notion!Page
        /\ [stamped EXCEPT !.text = Notion!Blank].text = Notion!Blank
        /\ [stamped EXCEPT !.text = Notion!Blank].stamp = stamped.stamp
    BY <1>2, TextTypes DEF Notion!Page
  <2>2. \A k \in Untouched : Notion!Blank[k] = wanted[k]
    BY <1>1, <1>4 DEF PageInvariant, TextsAreFollowed
  <2>3. QED
    BY <1>2, <1>3, <1>4, <2>1, <2>2 DEF Notion!Send
<1>5. CASE \E k \in Notion!Present : Notion!Send({k}, stamped, next)
  <2>1. \A k \in Untouched : stamped.text[k] = wanted[k]
    BY <1>1, <1>2 DEF PageInvariant, TextsAreFollowed
  <2>2. QED
    BY <1>2, <1>3, <1>5, <2>1 DEF Notion!Send
<1>6. QED
  BY <1>4, <1>5 DEF Notion!StampBack, stamped

\* The request that changes sections is taken only where each text it quotes is as it was read.
LEMMA SendSectionsKeeps ==
  ASSUME Notion!NotionAssumption, PageInvariant, Notion!SendSections
  PROVE  PageInvariant'
<1> DEFINE after == [page EXCEPT !.text = [k \in Notion!Keys |->
                      IF k \in Notion!Changed THEN wanted[k] ELSE page.text[k]]]
<1>1. pc = "send" /\ op \in {"section", "content"}
  BY DEF Notion!SendSections
<1>2. /\ \A k \in Untouched : page.text[k] = seen.text[k]
      /\ seen.stamp = None \/ StampIsThere
      /\ Notion!AfterSections = IF seen.stamp = None THEN "stamp" ELSE "look"
  BY <1>1 DEF PageInvariant, TextsAreFollowed, StampsAreFollowed, Creating, Notion!AfterSections
<1>3. \A k \in Notion!Keys : k \notin Notion!Changed => wanted[k] = seen.text[k]
  BY DEF Notion!Changed
<1>4. CASE /\ Notion!Changed = {} /\ pc' = Notion!AfterSections
           /\ UNCHANGED <<page, seen, sent, told, landed, hand, edits, faults, Notion!work>>
  <2>1. UNCHANGED <<page, seen, sent, told, landed, hand, edits, faults, read, op, wanted>>
        /\ pc' = Notion!AfterSections /\ Notion!Changed = {}
    BY <1>4 DEF Notion!work
  <2>2. PlacesFit'
    BY <1>1, <1>2, <2>1 DEF PlacesFit, Changes
  <2>3. TextsAreFollowed'
    BY <1>2, <1>3, <2>1 DEF TextsAreFollowed, Untouched
  <2>4. SentIsThere'
    BY <1>2, <1>3, <2>1 DEF SentIsThere, Untouched
  <2>5. StampsAreFollowed'
    BY <1>2, <2>1 DEF StampsAreFollowed, StampIsThere
  <2>6. PropsAreFollowed'
    BY <1>1, <2>1 DEF PropsAreFollowed, Creating
  <2>7. QED
    BY <1>1, <1>2, <2>1, <2>2, <2>3, <2>4, <2>5, <2>6, TypeFacts, MovesKeepTheInvariant
<1>5. CASE \E q \in Notion!Quotes : Notion!Send(q, after, Notion!AfterSections)
  <2>1. PICK q \in Notion!Quotes : Notion!Request(q, after, after, Notion!AfterSections) /\
        sent' = sent
    BY <1>5 DEF Notion!Send
  <2>2. /\ after \in Notion!Page /\ after.stamp = page.stamp /\ after.props = page.props
        /\ after.life = page.life
        /\ \A k \in Notion!Keys : after.text[k] = IF k \in
           Notion!Changed THEN wanted[k] ELSE page.text[k]
    BY TypeFacts DEF Notion!Page
  <2>3. \A k \in Untouched : after.text[k] = wanted[k]
    BY <1>2, <1>3 DEF Untouched
  <2> HIDE DEF after
  <2>4. ASSUME Notion!Takes(q), page' = after, seen' = after, landed' = landed + 1,
                  pc' = Notion!AfterSections, UNCHANGED <<told, faults, hand, edits, read,
                     op, wanted>>
        PROVE  PageInvariant'
    <3>1. PlacesFit'
      BY <1>1, <1>2, <2>4 DEF PlacesFit, Changes
    <3>2. TextsAreFollowed'
      BY <1>2, <2>3, <2>4 DEF TextsAreFollowed, Untouched
    <3>3. SentIsThere'
      BY <1>2, <2>3, <2>4 DEF SentIsThere, Untouched
    <3>4. StampsAreFollowed'
      BY <1>2, <2>2, <2>4 DEF StampsAreFollowed, StampIsThere
    <3>5. PropsAreFollowed'
      BY <1>1, <2>4 DEF PropsAreFollowed, Creating
    <3>6. QED
      BY <1>1, <1>2, <2>1, <2>2, <2>4, <3>1, <3>2, <3>3, <3>4, <3>5, TypeFacts,
         MovesKeepTheInvariant
  <2>5. QED
    BY <1>1, <2>1, <2>2, <2>4, TypeFacts, RequestsKeepTheInvariant DEF Notion!Finishing, Changes
<1>6. CASE Notion!Stop("rejected")
  BY <1>1, <1>6, StopsKeepTheInvariant DEF Changes
<1>7. QED
  BY <1>4, <1>5, <1>6 DEF Notion!SendSections

\* archive_item puts the page in the trash.
LEMMA ArchiveKeeps ==
  ASSUME Notion!NotionAssumption, PageInvariant, Notion!Archive
  PROVE  PageInvariant'
<1> DEFINE after == [page EXCEPT !.life = "trash"]
<1>1. op = "archive"
  BY DEF Notion!Archive
<1>2. CASE pc = "begin" /\ page.life # "there" /\ Notion!Stop("done")
  <2>1. Notion!IsOnThePage
    BY <1>1, <1>2 DEF Notion!IsOnThePage
  <2>2. QED
    BY <1>2, <2>1, StopsKeepTheInvariant
<1>3. CASE pc = "begin" /\ page.life = "there" /\ Notion!Read("trash")
  <2>1. /\ seen' = page /\ pc' = "trash" /\ pc = "begin"
        /\ UNCHANGED <<page, sent, told, landed, hand, edits, faults, read, op, wanted>>
    BY <1>3, ReadFacts
  <2>2. PlacesFit'
    BY <1>1, <2>1 DEF PageInvariant, PlacesFit
  <2>3. TextsAreFollowed'
    BY <2>1 DEF TextsAreFollowed
  <2>4. SentIsThere'
    BY <2>1 DEF SentIsThere
  <2>5. StampsAreFollowed'
    BY <2>1 DEF StampsAreFollowed
  <2>6. PropsAreFollowed'
    BY <2>1 DEF PropsAreFollowed
  <2>7. QED
    BY <2>1, <2>2, <2>3, <2>4, <2>5, <2>6, TypeFacts, MovesKeepTheInvariant
<1>4. CASE pc = "trash" /\ Notion!Send({}, after, "over")
  <2>1. pc = "trash" /\ Notion!Request({}, after, after, "over") /\ sent' = sent /\ landed = 0
    BY <1>4 DEF Notion!Send, PageInvariant, PlacesFit
  <2>2. after \in Notion!Page /\ after.life = "trash"
    BY TypeFacts DEF Notion!Page
  <2> HIDE DEF after
  <2>3. ASSUME Notion!Takes({}), page' = after, seen' = after, landed' = landed + 1,
                  pc' = "over", UNCHANGED <<told, faults, hand, edits, read, op, wanted>>
        PROVE  PageInvariant'
    <3>1. PlacesFit'
      BY <1>1, <2>3 DEF PlacesFit
    <3>2. TextsAreFollowed'
      BY <1>1, <2>3 DEF TextsAreFollowed
    <3>3. SentIsThere'
      BY <2>3 DEF SentIsThere
    <3>4. StampsAreFollowed'
      BY <1>1, <2>3 DEF StampsAreFollowed
    <3>5. PropsAreFollowed'
      BY <1>1, <2>2, <2>3 DEF PropsAreFollowed
    <3>6. QED
      BY <1>1, <2>1, <2>2, <2>3, <3>1, <3>2, <3>3, <3>4, <3>5, TypeFacts, MovesKeepTheInvariant
  <2>4. QED
    BY <1>1, <2>1, <2>2, <2>3, TypeFacts, RequestsKeepTheInvariant DEF Notion!Finishing,
       Notion!Creates
<1>5. QED
  BY <1>2, <1>3, <1>4 DEF Notion!Archive

\* Each request of release_item removes what it quotes, and the stamp when it comes to it.
LEMMA RemoveSomeKeeps ==
  ASSUME Notion!NotionAssumption, PageInvariant, Notion!RemoveSome
  PROVE  PageInvariant'
<1>1. pc = "remove" /\ op = "release"
  BY DEF Notion!RemoveSome, PageInvariant, PlacesFit
<1>2. /\ \A k \in Untouched : page.text[k] = seen.text[k] /\ page.text[k] # "hand"
      /\ seen.stamp = None => page.stamp = None
  BY <1>1 DEF PageInvariant, TextsAreFollowed, StampsAreFollowed
<1>3. CASE Notion!Skaldrs = {} /\ seen.stamp = None /\ Notion!Read("clear")
  <2>1. /\ seen' = page /\ pc' = "clear"
        /\ UNCHANGED <<page, sent, told, landed, hand, edits, faults, read, op, wanted>>
    BY <1>3, ReadFacts
  <2>2. \A k \in Untouched : page.text[k] = None
    BY <1>2, <1>3, TypeFacts DEF Notion!Skaldrs, Untouched, Notion!Page, Notion!Texts
  <2>3. PlacesFit'
    BY <1>1, <2>1 DEF PlacesFit
  <2>4. TextsAreFollowed'
    BY <2>1, <2>2 DEF TextsAreFollowed, Untouched
  <2>5. SentIsThere'
    BY <2>1 DEF SentIsThere
  <2>6. StampsAreFollowed'
    BY <1>2, <1>3, <2>1 DEF StampsAreFollowed
  <2>7. PropsAreFollowed'
    BY <2>1 DEF PropsAreFollowed
  <2>8. QED
    BY <1>1, <2>1, <2>3, <2>4, <2>5, <2>6, <2>7, TypeFacts, MovesKeepTheInvariant
<1>4. CASE \E q \in SUBSET (Notion!Skaldrs \cup IF seen.stamp = None THEN {} ELSE {"stamp"}) :
             /\ q # {}
             /\ Notion!Request(q, Notion!Without(page, q), Notion!Without(seen, q), "remove")
             /\ UNCHANGED sent
  <2>1. PICK q \in SUBSET (Notion!Skaldrs \cup IF seen.stamp = None THEN {} ELSE {"stamp"}) :
             /\ Notion!Request(q, Notion!Without(page, q), Notion!Without(seen, q), "remove")
             /\ sent' = sent
    BY <1>4
  <2> DEFINE after == Notion!Without(page, q)
             known == Notion!Without(seen, q)
  <2>2. \A p \in Notion!Page :
          /\ Notion!Without(p, q) \in Notion!Page
          /\ Notion!Without(p, q).stamp = IF "stamp" \in q THEN None ELSE p.stamp
          /\ \A k \in Notion!Keys :
               Notion!Without(p, q).text[k] = IF k \in q THEN None ELSE p.text[k]
    BY DEF Notion!Without, Notion!Page, Notion!Texts, Notion!Stamps
  <2>3. /\ after \in Notion!Page /\ known \in Notion!Page
        /\ \A k \in Untouched : after.text[k] = known.text[k] /\ after.text[k] # "hand"
        /\ known.stamp = None => after.stamp = None
    BY <1>2, <2>2, TypeFacts, SectionsAreKeys DEF Untouched
  <2>4. Notion!Request(q, after, known, "remove")
    BY <2>1
  <2> HIDE DEF after, known
  <2>5. ASSUME Notion!Takes(q), page' = after, seen' = known, landed' = landed + 1,
                  pc' = "remove", UNCHANGED <<told, faults, hand, edits, read, op, wanted>>
        PROVE  PageInvariant'
    <3>1. PlacesFit'
      BY <1>1, <2>5 DEF PlacesFit
    <3>2. TextsAreFollowed'
      BY <2>3, <2>5 DEF TextsAreFollowed, Untouched
    <3>3. SentIsThere'
      BY <2>5 DEF SentIsThere
    <3>4. StampsAreFollowed'
      BY <2>3, <2>5 DEF StampsAreFollowed
    <3>5. PropsAreFollowed'
      BY <2>5 DEF PropsAreFollowed
    <3>6. QED
      BY <1>1, <2>1, <2>3, <2>5, <3>1, <3>2, <3>3, <3>4, <3>5, TypeFacts, MovesKeepTheInvariant
  <2>6. QED
    BY <1>1, <2>1, <2>3, <2>4, <2>5, TypeFacts, RequestsKeepTheInvariant DEF Notion!Finishing,
       Notion!Creates
<1>5. QED
  BY <1>3, <1>4 DEF Notion!RemoveSome

\* The last request of release_item clears the properties.
LEMMA ClearPropertiesKeeps ==
  ASSUME Notion!NotionAssumption, PageInvariant, Notion!ClearProperties
  PROVE  PageInvariant'
<1> DEFINE after == [page EXCEPT !.props = "new"]
<1>1. pc = "clear" /\ op = "release"
  BY DEF Notion!ClearProperties, PageInvariant, PlacesFit
<1>2. CASE page.life = "there" /\ Notion!Send({}, after, "over")
  <2>1. Notion!Request({}, after, after, "over") /\ sent' = sent
    BY <1>2 DEF Notion!Send
  <2>2. /\ after \in Notion!Page /\ after.text = page.text /\ after.stamp = page.stamp
        /\ after.props = "new"
    BY TypeFacts DEF Notion!Page
  <2> HIDE DEF after
  <2>3. ASSUME Notion!Takes({}), page' = after, seen' = after, landed' = landed + 1,
                  pc' = "over", UNCHANGED <<told, faults, hand, edits, read, op, wanted>>
        PROVE  PageInvariant'
    <3>1. PlacesFit'
      BY <1>1, <2>3 DEF PlacesFit
    <3>2. TextsAreFollowed'
      BY <1>1, <2>2, <2>3 DEF PageInvariant, TextsAreFollowed, Untouched
    <3>3. SentIsThere'
      BY <2>3 DEF SentIsThere
    <3>4. StampsAreFollowed'
      BY <1>1, <2>2, <2>3 DEF PageInvariant, StampsAreFollowed
    <3>5. PropsAreFollowed'
      BY <1>1, <2>2, <2>3 DEF PropsAreFollowed
    <3>6. QED
      BY <1>1, <2>1, <2>2, <2>3, <3>1, <3>2, <3>3, <3>4, <3>5, TypeFacts, MovesKeepTheInvariant
  <2>4. QED
    BY <1>1, <2>1, <2>2, <2>3, TypeFacts, RequestsKeepTheInvariant DEF Notion!Finishing,
       Notion!Creates
<1>3. CASE Notion!Stop("failed")
  BY <1>3, StopsKeepTheInvariant
<1>4. QED
  BY <1>2, <1>3 DEF Notion!ClearProperties

\* A page is created with its first sections and the stamp, or empty from a template.
LEMMA CreatePageKeeps ==
  ASSUME Notion!NotionAssumption, PageInvariant, Notion!CreatePage
  PROVE  PageInvariant'
<1>1. pc = "send" /\ op \in {"create", "template"} /\ landed = 0
      /\ UNCHANGED <<hand, edits, read, op, wanted>>
  BY DEF Notion!CreatePage, PageInvariant, PlacesFit, Notion!work
<1> DEFINE made(n) == IF op = "create" THEN Notion!CreatedPage(n)
                      ELSE [Notion!CreatedPage(0) EXCEPT !.stamp = None]
<1>2. PICK n \in 1..Len(Sections) :
        /\ sent' = IF op = "create" THEN n ELSE 0
        /\ \/ /\ Notion!Lands(made(n)) /\ seen' = made(n)
              /\ pc' = IF op = "create" THEN "reread" ELSE "replace"
              /\ UNCHANGED <<told, faults>>
           \/ Notion!Fault /\ Notion!End("rejected") /\ UNCHANGED <<page, seen, landed>>
           \/ /\ Notion!Fault /\ Notion!End("failed")
              /\ Notion!Lands(made(n)) \/ UNCHANGED <<page, landed>>
              /\ UNCHANGED seen
  BY DEF Notion!CreatePage
<1>3. /\ made(n) \in Notion!Page /\ made(n).props = "new" /\ made(n).life = "there"
      /\ op = "create" => made(n).text = Notion!First(n) /\ made(n).stamp = "plain"
      /\ op = "template" => made(n).text = Notion!Blank /\ made(n).stamp = None
  BY TextTypes DEF Notion!CreatedPage, Notion!Page, Notion!Texts, Notion!Stamps
<1>4. sent' \in 0..Len(Sections)
  BY <1>2
<1> HIDE DEF made
<1>5. CASE /\ Notion!Lands(made(n)) /\ seen' = made(n)
           /\ pc' = IF op = "create" THEN "reread" ELSE "replace"
           /\ UNCHANGED <<told, faults>>
  <2>1. page' = made(n) /\ landed' = landed + 1 /\ sent' = IF op = "create" THEN n ELSE 0
    BY <1>2, <1>5 DEF Notion!Lands
  <2>2. op = "create" => \A j \in (n + 1)..Len(Sections) : Notion!First(n)[Sections[j]] = None
    BY TextTypes
  <2>3. PlacesFit'
    BY <1>1, <1>5, TypeFacts DEF PlacesFit, Changes
  <2>4. TextsAreFollowed'
    BY <1>5 DEF TextsAreFollowed
  <2>5. SentIsThere'
    BY <1>3, <1>5, <2>1, <2>2 DEF SentIsThere
  <2>6. StampsAreFollowed'
    BY <1>1, <1>3, <1>5, <2>1, SectionsAreKeys DEF StampsAreFollowed, StampIsThere,
       Notion!Emptied
  <2>7. PropsAreFollowed'
    BY <1>3, <1>5, <2>1 DEF PropsAreFollowed
  <2>8. QED
    BY <1>1, <1>3, <1>5, <2>1, <2>3, <2>4, <2>5, <2>6, <2>7, TypeFacts, MovesKeepTheInvariant
<1>6. CASE Notion!Fault /\ Notion!End("rejected") /\ UNCHANGED <<page, seen, landed>>
  BY <1>1, <1>4, <1>6, TypeFacts, ItEnds DEF Notion!Fault, Notion!End
<1>7. CASE /\ Notion!Fault /\ Notion!End("failed")
           /\ Notion!Lands(made(n)) \/ UNCHANGED <<page, landed>>
           /\ UNCHANGED seen
  BY <1>1, <1>3, <1>4, <1>7, TypeFacts, ItEnds DEF Notion!Fault, Notion!End, Notion!Lands
<1>8. QED
  BY <1>2, <1>5, <1>6, <1>7

\* replace_content puts the first sections and the stamp on an empty page.
LEMMA ReplaceContentKeeps ==
  ASSUME Notion!NotionAssumption, PageInvariant, Notion!ReplaceContent
  PROVE  PageInvariant'
<1>1. /\ \/ pc = "send" /\ op = "into" /\ landed = 0
         \/ pc = "replace" /\ op = "template" /\ page.props = "new"
      /\ pc = "replace" /\ hand = {} => Notion!Emptied(page)
  BY DEF Notion!ReplaceContent, PageInvariant, PlacesFit, StampsAreFollowed, PropsAreFollowed,
     Creating
<1> DEFINE after(n) == [page EXCEPT !.text = Notion!First(n), !.stamp = "plain"]
           next == IF op = "into" THEN "props" ELSE "reread"
<1>2. PICK n \in 1..Len(Sections) : Notion!Request({}, after(n), after(n), next) /\ sent' = n
  BY DEF Notion!ReplaceContent
<1>3. /\ after(n) \in Notion!Page /\ after(n).text = Notion!First(n) /\ after(n).stamp = "plain"
      /\ after(n).props = page.props
  <2>1. Notion!First(n) \in [Notion!Keys -> Notion!Texts] /\ page \in Notion!Page
    BY TypeFacts, TextTypes DEF Notion!Texts
  <2>2. QED
    BY <2>1 DEF Notion!Page, Notion!Stamps
<1>4. sent' \in 0..Len(Sections) /\
      \A j \in (n + 1)..Len(Sections) : Notion!First(n)[Sections[j]] = None
  BY <1>2, TextTypes
<1> HIDE DEF after
<1>5. ASSUME Notion!Takes({}), page' = after(n), seen' = after(n), landed' = landed + 1,
                pc' = next, UNCHANGED <<told, faults, hand, edits, read, op, wanted>>
      PROVE  PageInvariant'
  <2>1. PlacesFit'
    BY <1>1, <1>5, TypeFacts DEF PlacesFit, Changes
  <2>2. TextsAreFollowed'
    BY <1>5 DEF TextsAreFollowed, Changes
  <2>3. SentIsThere'
    BY <1>2, <1>3, <1>4, <1>5 DEF SentIsThere
  <2>4. StampsAreFollowed'
    BY <1>3, <1>5, SectionsAreKeys DEF StampsAreFollowed, StampIsThere
  <2>5. PropsAreFollowed'
    BY <1>1, <1>3, <1>5 DEF PropsAreFollowed
  <2>6. QED
    BY <1>1, <1>3, <1>4, <1>5, SectionsAreKeys, <2>1, <2>2, <2>3, <2>4, <2>5, TypeFacts,
       MovesKeepTheInvariant
<1>6. QED
  BY <1>1, <1>2, <1>3, <1>4, <1>5, SectionsAreKeys, RequestsKeepTheInvariant
     DEF Notion!Finishing,
     Notion!Creates

\* Each later batch adds the sections after those that were sent.
LEMMA SendBatchKeeps ==
  ASSUME Notion!NotionAssumption, PageInvariant, Notion!SendBatch
  PROVE  PageInvariant'
<1>1. pc = "batches" /\ op \in Creating /\ StampIsThere /\ page.props = "new"
      /\ (op \in Creating => wanted = Notion!First(Len(Sections)))
  BY DEF Notion!SendBatch, PageInvariant, PlacesFit, StampsAreFollowed, PropsAreFollowed,
     AskIsKept
<1>2. /\ \A k \in Untouched : page.text[k] = Notion!First(sent)[k]
      /\ \A j \in (sent + 1)..Len(Sections) : page.text[Sections[j]] = None
  BY <1>1 DEF PageInvariant, SentIsThere
<1>3. CASE sent = Len(Sections) /\ Notion!Read("look")
  <2>1. /\ seen' = page /\ pc' = "look" /\ sent = Len(Sections)
        /\ UNCHANGED <<page, sent, told, landed, hand, edits, faults, read, op, wanted>>
    BY <1>3, ReadFacts
  <2>2. PlacesFit'
    BY <1>1, <2>1 DEF PlacesFit
  <2>3. TextsAreFollowed'
    BY <1>1, <1>2, <2>1 DEF TextsAreFollowed, Untouched
  <2>4. SentIsThere'
    BY <1>1, <1>2, <2>1 DEF SentIsThere, Untouched
  <2>5. StampsAreFollowed'
    BY <1>1, <2>1 DEF StampsAreFollowed, StampIsThere
  <2>6. PropsAreFollowed'
    BY <1>1, <2>1 DEF PropsAreFollowed
  <2>7. QED
    BY <1>1, <2>1, <2>2, <2>3, <2>4, <2>5, <2>6, TypeFacts, MovesKeepTheInvariant
<1>4. CASE \E n \in (sent + 1)..Len(Sections) :
             LET after == [page EXCEPT !.text = [k \in Notion!Keys |->
                    IF \E j \in (sent + 1)..n : Sections[j] = k THEN "new" ELSE page.text[k]]]
             IN  Notion!Request({"stamp"}, after, after, "batches") /\ sent' = n
  <2> DEFINE after(n) == [page EXCEPT !.text = [k \in Notion!Keys |->
                  IF \E j \in (sent + 1)..n : Sections[j] = k THEN "new" ELSE page.text[k]]]
  <2>1. PICK n \in (sent + 1)..Len(Sections) :
          Notion!Request({"stamp"}, after(n), after(n), "batches") /\ sent' = n
    BY <1>4
  <2>2. n \in 1..Len(Sections) /\ sent < n
    BY TypeFacts
  <2>3. /\ after(n) \in Notion!Page /\ after(n).stamp = page.stamp
        /\ after(n).props = page.props
        /\ \A k \in Notion!Keys : after(n).text[k] =
             IF \E j \in (sent + 1)..n : Sections[j] = k THEN "new" ELSE page.text[k]
    BY TypeFacts DEF Notion!Page, Notion!Texts
  <2> HIDE DEF after
  <2>4. \A k \in Untouched : after(n).text[k] = Notion!First(n)[k]
    <3>1. SUFFICES ASSUME NEW k \in Untouched PROVE after(n).text[k] = Notion!First(n)[k]
      OBVIOUS
    <3>2. k \in Notion!Keys /\ page.text[k] = Notion!First(sent)[k]
      BY <1>2 DEF Untouched
    <3>3. /\ Notion!First(n)[k] = IF \E j \in 1..n : Sections[j] = k THEN "new" ELSE None
          /\ Notion!First(sent)[k] = IF \E j \in 1..sent : Sections[j] = k THEN "new" ELSE None
      BY <3>2, TypeFacts, TextTypes
    <3>4. (\E j \in 1..n : Sections[j] = k)
          <=> (\E j \in 1..sent : Sections[j] = k) \/ (\E j \in (sent + 1)..n : Sections[j] = k)
      BY TypeFacts
    <3>5. QED
      BY <2>3, <3>2, <3>3, <3>4
  <2>5. \A j \in (n + 1)..Len(Sections) : after(n).text[Sections[j]] = None
    <3>1. SUFFICES ASSUME NEW j \in (n + 1)..Len(Sections) PROVE after(n).text[Sections[j]] = None
      OBVIOUS
    <3>2. ~\E i \in (sent + 1)..n : Sections[i] = Sections[j]
      BY TypeFacts, SectionsAreKeys
    <3>3. Sections[j] \in Notion!Keys /\ page.text[Sections[j]] = None
      BY <1>2, TypeFacts, SectionsAreKeys
    <3>4. QED
      BY <2>3, <3>2, <3>3
  <2>6. ASSUME Notion!Takes({"stamp"}), page' = after(n), seen' = after(n),
        landed' = landed + 1,
                  pc' = "batches", UNCHANGED <<told, faults, hand, edits, read, op, wanted>>
        PROVE  PageInvariant'
    <3>1. PlacesFit'
      BY <1>1, <2>6 DEF PlacesFit
    <3>2. TextsAreFollowed'
      BY <2>6 DEF TextsAreFollowed
    <3>3. SentIsThere'
      BY <2>1, <2>4, <2>5, <2>6 DEF SentIsThere, Untouched
    <3>4. StampsAreFollowed'
      BY <1>1, <2>3, <2>6 DEF StampsAreFollowed, StampIsThere
    <3>5. PropsAreFollowed'
      BY <1>1, <2>3, <2>6 DEF PropsAreFollowed
    <3>6. QED
      BY <1>1, <2>1, <2>3, <2>6, <3>1, <3>2, <3>3, <3>4, <3>5, TypeFacts, MovesKeepTheInvariant
         DEF StampIsThere
  <2>7. Notion!Finishing /\ sent' \in 0..Len(Sections)
    BY <1>1, <2>1, <2>2 DEF Notion!Finishing, Notion!Creates, Creating
  <2>8. /\ after(n) \in Notion!Page /\ pc # "ended"
        /\ page.stamp = None => "stamp" \in hand
        /\ after(n).stamp = None => "stamp" \in hand
    BY <1>1, <2>3 DEF StampIsThere
  <2>9. QED
    BY <2>1, <2>6, <2>7, <2>8, RequestsKeepTheInvariant
<1>5. QED
  BY <1>3, <1>4 DEF Notion!SendBatch

\* Every step of an operation, and of the person, keeps the invariant.
LEMMA StepsKeepThePage ==
  ASSUME Notion!NotionAssumption, PageInvariant, Notion!Next \/ UNCHANGED Notion!vars
  PROVE  PageInvariant'
<1>1. CASE Notion!Skaldr
  BY <1>1, BeginKeeps, BeginFieldsKeeps, BeginCreateKeeps, RereadKeeps, LookKeeps, OverKeeps,
     ReadFailsKeeps, UpdatePropertiesKeeps, UpdateLinksKeeps, StampBackKeeps, SendSectionsKeeps,
     ArchiveKeeps, RemoveSomeKeeps, ClearPropertiesKeeps, CreatePageKeeps, ReplaceContentKeeps,
     SendBatchKeeps DEF Notion!Skaldr
<1>2. CASE Notion!EditSection \/ Notion!RemoveStamp \/ Notion!TrashPage
  BY <1>2, PeopleKeepTheInvariant
<1>3. CASE UNCHANGED Notion!vars
  <2>1. UNCHANGED <<page, read, seen, op, wanted, pc, sent, told, landed, hand, edits, faults>>
    BY <1>3 DEF Notion!vars
  <2>2. Notion!TypeOK' /\ Counted' /\ AskIsKept' /\ PlacesFit'
    BY <2>1 DEF PageInvariant, Notion!TypeOK, Counted, AskIsKept, PlacesFit
  <2>3. TextsAreFollowed' /\ SentIsThere' /\ StampsAreFollowed' /\ PropsAreFollowed'
    BY <2>1 DEF PageInvariant, TextsAreFollowed, SentIsThere, StampsAreFollowed,
       PropsAreFollowed,
       Untouched, StampIsThere
  <2>4. Notion!DoneIsOnThePage' /\ Notion!UnfinishedIsFound' /\ RejectedFirst'
    BY <2>1 DEF PageInvariant, Notion!DoneIsOnThePage, Notion!IsOnThePage,
       Notion!UnfinishedIsFound,
       RejectedFirst, Notion!RejectedLeavesNoTrace
  <2>5. QED
    BY <2>2, <2>3, <2>4 DEF PageInvariant
<1>4. QED
  BY <1>1, <1>2, <1>3 DEF Notion!Next

\* Each operation begins on a page it may be asked to write on.
LEMMA ItBeginsWell ==
  ASSUME Notion!NotionAssumption, Notion!Init
  PROVE  PageInvariant
<1>1. op \in Changes \cup Creating \cup {"archive", "release"} /\ op \in Ops
  BY DEF Notion!Init, Notion!NotionAssumption, Notion!AllOps, Changes, Creating
<1>2. /\ page \in Notion!Page
      /\ op \notin Creating => \A k \in Notion!Keys : page.text[k] # "hand"
      /\ op \notin Creating => page.text[Notes] = None
  <2>1. page \in Notion!Before(op)
    BY DEF Notion!Init
  <2> USE SectionsAreKeys
  <2>2. CASE op \in {"create", "template"}
    BY <2>1, <2>2 DEF Notion!Before, Notion!Page, Notion!Texts, Notion!Stamps
  <2>3. CASE op = "into"
    BY <2>1, <2>3 DEF Notion!Before, Notion!Page, Notion!Texts, Notion!Stamps, Creating
  <2>4. CASE op \in Changes \cup {"archive", "release"}
    <3>1. op \notin Creating
      BY <2>4 DEF Creating, Changes
    <3>2. PICK s \in Notion!Stamps :
            \/ page = [text |-> [k \in Notion!Keys |-> IF k = Notes THEN None ELSE "old"],
                       stamp |-> s, props |-> "old", life |-> "there"]
            \/ page = [[text |-> [k \in Notion!Keys |-> IF k = Notes THEN None ELSE "old"],
                        stamp |-> s, props |-> "old",
                           life |-> "there"] EXCEPT !.text = Notion!Blank]
      BY <2>1, <2>4 DEF Notion!Before, Changes
    <3>3. CASE page = [text |-> [k \in Notion!Keys |-> IF k = Notes THEN None ELSE "old"],
                       stamp |-> s, props |-> "old", life |-> "there"]
      <4>1. [k \in Notion!Keys |-> IF k = Notes THEN None ELSE "old"] \in
            [Notion!Keys -> Notion!Texts]
        BY DEF Notion!Texts
      <4>2. /\ page \in Notion!Page /\ page.text[Notes] = None
            /\ \A k \in Notion!Keys : page.text[k] # "hand"
        BY <3>3, <4>1 DEF Notion!Page
      <4>3. QED
        BY <4>2
    <3>4. CASE page = [[text |-> [k \in Notion!Keys |-> IF k = Notes THEN None ELSE "old"],
                        stamp |-> s, props |-> "old",
                           life |-> "there"] EXCEPT !.text = Notion!Blank]
      <4>1. /\ page = [text |-> Notion!Blank, stamp |-> s, props |-> "old", life |-> "there"]
            /\ Notion!Blank \in [Notion!Keys -> Notion!Texts]
        BY <3>4, TextTypes
      <4>2. /\ page \in Notion!Page /\ page.text[Notes] = None
            /\ \A k \in Notion!Keys : page.text[k] # "hand"
        BY <4>1, TextTypes DEF Notion!Page
      <4>3. QED
        BY <4>2
    <3>5. QED
      BY <3>2, <3>3, <3>4
  <2>5. QED
    BY <1>1, <2>2, <2>3, <2>4 DEF Creating
<1>3. /\ read = page.text /\ seen = page /\ pc = "begin" /\ sent = 0 /\ told = None
      /\ landed = 0
      /\ hand = {} /\ edits = 0 /\ faults = 0
  BY DEF Notion!Init
<1>4. page \in Notion!Page /\ page.text \in [Notion!Keys -> Notion!Texts]
  BY <1>2 DEF Notion!Page
<1>5. wanted \in [Notion!Keys -> Notion!Texts] /\ AskIsKept
  <2> USE SectionsAreKeys
  <2>1. wanted \in Notion!Asked(op, page)
    BY DEF Notion!Init
  <2>2. CASE op = "section"
    <3>1. PICK k \in Notion!Keys \ {Notes}, t \in {"new",
          None} : wanted = [page.text EXCEPT ![k] = t]
      BY <2>1, <2>2 DEF Notion!Asked
    <3>2. QED
      BY <1>2, <1>3, <1>4, <2>2, <3>1 DEF AskIsKept, Creating, Notion!Texts
  <2>3. CASE op = "content"
    <3>1. wanted \in [Notion!Keys -> {"new", None}] /\ wanted[Notes] = None
      BY <2>1, <2>3 DEF Notion!Asked
    <3>2. wanted \in [Notion!Keys -> Notion!Texts]
      BY <3>1 DEF Notion!Texts
    <3>3. QED
      BY <1>2, <1>3, <2>3, <3>1, <3>2 DEF AskIsKept, Creating
  <2>4. CASE op \in Creating
    <3>1. wanted = Notion!First(Len(Sections)) /\
          op \notin {"section", "content", "fields", "links", "release"}
      BY <2>1, <2>4 DEF Notion!Asked, Creating
    <3>2. wanted \in [Notion!Keys -> Notion!Texts]
      BY <3>1, TextTypes DEF Notion!Texts
    <3>3. QED
      BY <2>4, <3>1, <3>2 DEF AskIsKept
  <2>5. CASE op = "release"
    <3>1. wanted = Notion!Blank
      BY <2>1, <2>5 DEF Notion!Asked
    <3>2. QED
      BY <1>2, <1>3, <2>5, <3>1, TextTypes DEF AskIsKept, Creating
  <2>6. CASE op \in {"fields", "links", "archive"}
    <3>1. wanted = page.text
      BY <2>1, <2>6 DEF Notion!Asked
    <3>2. QED
      BY <1>2, <1>3, <1>4, <2>6, <3>1 DEF AskIsKept, Creating
  <2>7. QED
    BY <1>1, <2>2, <2>3, <2>4, <2>5, <2>6 DEF Changes
<1>6. Notion!TypeOK /\ Counted
  BY <1>1, <1>3, <1>4, <1>5 DEF Notion!TypeOK, Counted
<1>7. PlacesFit /\ TextsAreFollowed /\ SentIsThere
  BY <1>3 DEF PlacesFit, TextsAreFollowed, SentIsThere
<1>8. StampsAreFollowed /\ PropsAreFollowed
  BY <1>3 DEF StampsAreFollowed, PropsAreFollowed
<1>9. Notion!DoneIsOnThePage /\ Notion!UnfinishedIsFound /\ RejectedFirst
  BY <1>3, SectionsAreKeys DEF Notion!DoneIsOnThePage, Notion!UnfinishedIsFound, RejectedFirst,
     Notion!RejectedLeavesNoTrace
<1>10. QED
  BY <1>5, <1>6, <1>7, <1>8, <1>9 DEF PageInvariant

\* In every reachable state of any operation on a page of any sections, between any
\* edits, refusals and lost answers, the page holds what the requests so far and the
\* person have put there (publish/notion/transport.py).
THEOREM PagesAreAccountedFor ==
  ASSUME Notion!NotionAssumption
  PROVE  Notion!Spec => []PageInvariant
<1>1. Notion!Init => PageInvariant
  BY ItBeginsWell
<1>2. PageInvariant /\ [Notion!Next]_(Notion!vars) => PageInvariant'
  BY StepsKeepThePage
<1>3. QED
  BY <1>1, <1>2, PTL DEF Notion!Spec

\* What an operation told as done was asked to write is on the page, or a person has
\* changed it since; a create that ended halfway left a page that carries the stamp
\* or is still empty, so that the next run finds it (write_section, create_item).
THEOREM DoneMeansWritten ==
  ASSUME Notion!NotionAssumption
  PROVE  Notion!Spec => [](Notion!DoneIsOnThePage /\ Notion!UnfinishedIsFound)
<1>1. PageInvariant => Notion!DoneIsOnThePage /\ Notion!UnfinishedIsFound
  BY DEF PageInvariant
<1>2. QED
  BY <1>1, PagesAreAccountedFor, PTL

\* Of the operations of which only the first request can be refused, one that is told
\* as rejected has left no trace (WriteRejectedError of the transport).
THEOREM RefusedBeforeItWrote ==
  ASSUME Notion!NotionAssumption
  PROVE  Notion!Spec => []RejectedFirst
<1>1. PageInvariant => RejectedFirst
  BY DEF PageInvariant
<1>2. QED
  BY <1>1, PagesAreAccountedFor, PTL

\* A step of skaldr's replaces a person's text only where KeepsEdits allows it.
LEMMA StepsKeepEdits ==
  ASSUME Notion!NotionAssumption, PageInvariant, Notion!Next
  PROVE  Notion!KeepsEdits
<1>1. SUFFICES ASSUME NEW k \in hand \cap Notion!Keys,
                      page.text[k] = "hand", page'.text[k] # "hand", edits' = edits,
                      ~(pc \in {"replace", "send"} /\ Notion!Creates),
                      ~(pc = "stamp" /\ seen.text = Notion!Blank)
               PROVE  FALSE
  BY DEF Notion!KeepsEdits
<1>2. page \in Notion!Page /\ edits \in Nat /\ seen \in Notion!Page /\ k \in Notion!Keys /\
      page'.text # page.text
  BY <1>1, TypeFacts DEF PageInvariant, Counted
<1>3. ASSUME NEW quoted, NEW after, NEW known, NEW next,
             Notion!Request(quoted, after, known, next)
      PROVE  Notion!Takes(quoted) /\ page' = after
  BY <1>1, <1>3 DEF Notion!Request, Notion!Lands
<1>4. CASE Notion!EditSection \/ Notion!RemoveStamp \/ Notion!TrashPage
  BY <1>1, <1>2, <1>4 DEF Notion!EditSection, Notion!RemoveStamp, Notion!TrashPage,
     Notion!Person
<1>5. CASE Notion!SendSections
  <2>1. PICK q \in Notion!Quotes :
          Notion!Send(q, [page EXCEPT !.text = [j \in Notion!Keys |->
                        IF j \in Notion!Changed THEN wanted[j] ELSE page.text[j]]],
                           Notion!AfterSections)
    BY <1>1, <1>5 DEF Notion!SendSections, Notion!Stop
  <2>2. Notion!Takes(q) /\ page'.text[k] = IF k \in
        Notion!Changed THEN wanted[k] ELSE page.text[k]
    BY <1>2, <1>3, <2>1 DEF Notion!Send, Notion!Page
  <2>3. k \in Notion!Changed
    BY <1>1, <2>2
  <2>4. seen.text = read /\ read[k] # "hand" /\ page.text[k] = "hand"
    BY <1>1, <1>5 DEF Notion!SendSections, PageInvariant, TextsAreFollowed, AskIsKept, Creating
  <2>5. k = Notes \/ read[k] # None
    BY <1>5, <2>4 DEF Notion!SendSections, PageInvariant, TextsAreFollowed, Creating
  <2>6. k # Notes
    BY <1>5, <2>3, <2>4 DEF Notion!SendSections, PageInvariant, AskIsKept, Notion!Changed,
       Creating
  <2>7. k \in q
    BY <2>3, <2>4, <2>5, <2>6 DEF Notion!Quotes, Notion!Present
  <2>8. QED
    BY <2>2, <2>4, <2>7 DEF Notion!Takes
<1>6. CASE Notion!RemoveSome
  <2>1. PICK q \in SUBSET (Notion!Skaldrs \cup IF seen.stamp = None THEN {} ELSE {"stamp"}) :
          Notion!Request(q, Notion!Without(page, q), Notion!Without(seen, q), "remove")
    BY <1>1, <1>6 DEF Notion!RemoveSome, Notion!Read
  <2>2. Notion!Takes(q) /\ page'.text[k] = IF k \in q THEN None ELSE page.text[k]
    <3>1. Notion!Takes(q) /\ page' = Notion!Without(page, q)
      BY <1>3, <2>1
    <3>2. Notion!Without(page, q).text =
            [j \in Notion!Keys |-> IF j \in q THEN None ELSE page.text[j]]
      BY <1>2 DEF Notion!Without, Notion!Page
    <3>3. QED
      BY <1>2, <3>1, <3>2
  <2>3. k \in q /\ k # "stamp"
    BY <1>1, <2>2, SectionsAreKeys
  <2>4. seen.text[k] \in {"old", "new"} /\ seen.text[k] = page.text[k]
    BY <2>2, <2>3 DEF Notion!Skaldrs, Notion!Takes
  <2>5. QED
    BY <1>1, <2>4
<1>7. CASE Notion!SendBatch
  <2>1. PICK n \in (sent + 1)..Len(Sections) :
          LET after == [page EXCEPT !.text = [j \in Notion!Keys |->
                 IF \E i \in (sent + 1)..n : Sections[i] = j THEN "new" ELSE page.text[j]]]
          IN  Notion!Request({"stamp"}, after, after, "batches")
    BY <1>1, <1>7 DEF Notion!SendBatch, Notion!Read
  <2>2. page'.text[k] = IF \E i \in (sent + 1)..n : Sections[i] = k THEN "new" ELSE page.text[k]
    BY <1>2, <1>3, <2>1 DEF Notion!Page
  <2>3. PICK i \in (sent + 1)..n : Sections[i] = k
    BY <1>1, <2>2
  <2>4. \A j \in (sent + 1)..Len(Sections) : page.text[Sections[j]] = None
    BY <1>7 DEF Notion!SendBatch, PageInvariant, PlacesFit, SentIsThere
  <2>5. page.text[k] = None
    BY <2>3, <2>4
  <2>6. QED
    BY <1>1, <2>5, SectionsAreKeys
<1>8. CASE Notion!StampBack
  <2>1. CASE seen.text = Notion!Blank
    BY <1>1, <1>8, <2>1 DEF Notion!StampBack
  <2>2. CASE \E j \in Notion!Present, next \in {"props", "look"} :
               Notion!Send({j}, [page EXCEPT !.stamp = IF op =
                  "links" THEN "linked" ELSE "plain"], next)
    BY <1>2, <1>3, <2>2 DEF Notion!Send, Notion!Page
  <2>3. QED
    BY <1>8, <2>1, <2>2 DEF Notion!StampBack
<1>9. CASE Notion!UpdateProperties \/ Notion!UpdateLinks \/ Notion!Archive \/
      Notion!ClearProperties
  BY <1>2, <1>3, <1>9 DEF Notion!UpdateProperties, Notion!UpdateLinks, Notion!Archive,
     Notion!ClearProperties, Notion!Send, Notion!Stop, Notion!Read, Notion!Page
<1>10. CASE Notion!CreatePage \/ Notion!ReplaceContent
  BY <1>1, <1>10 DEF Notion!CreatePage, Notion!ReplaceContent, Notion!Creates
<1>11. CASE Notion!Begin \/ Notion!Look \/ Notion!BeginFields \/ Notion!Over \/
       Notion!BeginCreate
            \/ Notion!Reread \/ Notion!ReadFails
  BY <1>1, <1>11 DEF Notion!Begin, Notion!Look, Notion!BeginFields, Notion!Over,
     Notion!BeginCreate,
     Notion!Reread, Notion!ReadFails, Notion!Read, Notion!Stop
<1>12. QED
  BY <1>4, <1>5, <1>6, <1>7, <1>8, <1>9, <1>10, <1>11 DEF Notion!Next, Notion!Skaldr

\* No request replaces a text a person wrote after the run read the page, except
\* where a create or a lost stamp replaces the whole of an empty page.
THEOREM EditsAreKept ==
  ASSUME Notion!NotionAssumption
  PROVE  Notion!Spec => [][Notion!KeepsEdits]_(Notion!vars)
<1>1. PageInvariant /\ [Notion!Next]_(Notion!vars) => [Notion!KeepsEdits]_(Notion!vars)
  BY StepsKeepEdits
<1>2. QED
  BY <1>1, PagesAreAccountedFor, PTL DEF Notion!Spec

------------------------------------------------------------------------------
(* A write of a Jira issue                                                   *)

BeforeWrite == {"begin", "text", "send"}
ReadBack == {"issue", "repair", "verify"}

IssueTypes ==
  /\ Jira!TypeOK /\ history \in Seq(Jira!Entry) /\ seen \in Seq(Jira!Entry)
  /\ op \in {"description", "fields", "create"}
  /\ pc \in BeforeWrite \cup {"history"} \cup ReadBack \cup {"ended"}
  /\ marker \in Nat /\ edits \in Nat /\ faults \in Nat

\* Which operation comes to which request.
WritesFit ==
  /\ op = "create" => written = Jira!Parts /\ pc \notin {"text", "send"}
  /\ op = "description" => written = {"description"}
  /\ op = "fields" => pc # "repair"

\* How long the history is if nobody but the write itself has changed the issue.
LengthIfAlone ==
  IF op = "create" THEN 0 ELSE IF written = {} THEN marker ELSE marker + 1

\* Before the write an edit shows in the history's length.
EditsAreNoted ==
  pc \in BeforeWrite =>
    /\ \A p \in Jira!Parts : issue[p] # "new" /\ saved[p] = "old"
    /\ Len(history) >= marker
    /\ Len(history) = marker \/ op = "create" =>
         touched = {} /\ \A p \in Jira!Parts : issue[p] # "hand"

\* So it does after the write.
EditsAreNotedBesideTheWrite ==
  pc = "history" =>
    /\ \A p \in Jira!Parts : saved[p] = "old"
    /\ Len(history) >= LengthIfAlone
    /\ Len(history) = LengthIfAlone =>
         touched = {} /\ \A p \in Jira!Parts : issue[p] # "hand"

\* A history read back at that length was read before every edit: those on the issue,
\* and those handed over as published, came after it.
EditsAreReadBack ==
  /\ pc \in ReadBack =>
       /\ LengthIfAlone <= Len(seen) /\ Len(seen) <= Len(history)
       /\ Len(seen) = LengthIfAlone =>
            \A p \in Jira!Parts :
              /\ issue[p] = "hand" \/ saved[p] = "hand" => Jira!EditedSince(p)
              /\ p \in touched => issue[p] = "hand"
  /\ told = "done" => \A p \in Jira!Parts : saved[p] = "hand" => Jira!EditedSince(p)

\* Nothing is written into a created issue again.
CreatedIsLeft == op = "create" => marker <= 1 /\ \A p \in touched : issue[p] = "hand"

\* What was sent is on the issue, with its layout once it has been repaired.
WrittenIsThere ==
  /\ pc \in {"history"} \cup ReadBack => \A p \in written : issue[p] \in {"new", "hand"}
  /\ pc = "verify" /\ op # "fields" => layout \/ issue["description"] = "hand"

\* A description is rejected, too, when its layout cannot be put.
RejectedUnwritten == op # "description" => Jira!RejectedLeavesNoTrace

IssueInvariant ==
  /\ IssueTypes /\ WritesFit
  /\ EditsAreNoted /\ EditsAreNotedBesideTheWrite /\ EditsAreReadBack
  /\ CreatedIsLeft /\ WrittenIsThere
  /\ Jira!EditsAreShown /\ Jira!DoneIsOnTheIssue /\ RejectedUnwritten

\* The types of the variables.
LEMMA IssueFacts ==
  ASSUME Jira!JiraAssumption, IssueInvariant
  PROVE  /\ issue \in [Jira!Parts -> Jira!Texts] /\ saved \in [Jira!Parts -> Jira!Texts]
         /\ history \in Seq(Jira!Entry) /\ seen \in Seq(Jira!Entry)
         /\ \A n \in DOMAIN history : history[n].what # {}
         /\ Len(history) \in Nat /\ Len(seen) \in Nat /\ marker \in Nat
         /\ faults \in Nat /\ edits \in Nat
         /\ written \subseteq Jira!Parts /\ touched \subseteq Jira!Parts /\ layout \in BOOLEAN
         /\ op \in {"description", "fields", "create"} /\ LengthIfAlone \in Nat
         /\ None \notin {"done", "rejected", "unfinished", "failed"}
         /\ marker \in 0..Len(history) + 1 /\ (Len(seen) <= Len(history) \/ op = "create")
BY DEF IssueInvariant, IssueTypes, Jira!TypeOK, Jira!JiraAssumption, LengthIfAlone

\* An operation that ends otherwise than as done.
LEMMA WriteEnds ==
  ASSUME Jira!JiraAssumption, IssueInvariant, pc' = "ended",
         told' \in {"rejected", "unfinished", "failed"},
         UNCHANGED <<op, written, saved, touched, edits, seen, marker>>, faults' \in Nat,
         issue' \in [Jira!Parts -> Jira!Texts], history' \in Seq(Jira!Entry),
            layout' \in BOOLEAN,
         \A n \in DOMAIN history' : history'[n].what # {},
         marker \in 0..Len(history') + 1, Len(seen) <= Len(history') \/ op = "create",
         told' = "rejected" /\ op # "description" => \A p \in written : issue'[p] # "new",
         op = "create" => \A p \in touched : issue'[p] = "hand"
  PROVE  IssueInvariant'
<1>1. IssueTypes'
  <2>1. IssueTypes
    BY DEF IssueInvariant
  <2>2. Jira!TypeOK'
    BY <2>1, IssueFacts DEF IssueTypes, Jira!TypeOK
  <2>3. QED
    BY <2>1, <2>2 DEF IssueTypes
<1>2. WritesFit'
  BY DEF IssueInvariant, WritesFit
<1>3. EditsAreNoted'
  BY DEF EditsAreNoted, BeforeWrite
<1>4. EditsAreNotedBesideTheWrite'
  BY DEF EditsAreNotedBesideTheWrite
<1>5. EditsAreReadBack'
  BY DEF EditsAreReadBack, ReadBack
<1>6. CreatedIsLeft'
  BY DEF IssueInvariant, CreatedIsLeft
<1>7. WrittenIsThere'
  BY DEF WrittenIsThere, ReadBack
<1>8. Jira!EditsAreShown'
  BY DEF Jira!EditsAreShown
<1>9. Jira!DoneIsOnTheIssue'
  BY DEF Jira!DoneIsOnTheIssue
<1>10. RejectedUnwritten'
  BY DEF RejectedUnwritten, Jira!RejectedLeavesNoTrace
<1>11. QED
  BY <1>1, <1>2, <1>3, <1>4, <1>5, <1>6, <1>7, <1>8, <1>9, <1>10 DEF IssueInvariant

\* An edit that came after the history was read back stays named there, and the parts
\* the newest entry names are edited since.
LEMMA EditsStayNamed ==
  ASSUME history \in Seq(Jira!Entry), seen \in Seq(Jira!Entry), UNCHANGED seen,
         NEW e \in Jira!Entry, history' = Append(history, e), NEW p
  PROVE  /\ Jira!EditedSince(p) => Jira!EditedSince(p)'
         /\ p \in e.what /\ Len(seen) <= Len(history) => Jira!EditedSince(p)'
<1>1. /\ Len(history) \in Nat /\ Len(seen) \in Nat /\ Len(history') = Len(history) + 1
      /\ \A n \in 1..Len(history) : history'[n] = history[n]
      /\ history'[Len(history) + 1] = e
  OBVIOUS
<1>2. ASSUME Jira!EditedSince(p) PROVE Jira!EditedSince(p)'
  <2>1. PICK n \in Len(seen) + 1..Len(history) : p \in history[n].what
    BY <1>2 DEF Jira!EditedSince
  <2>2. n \in Len(seen) + 1..Len(history') /\ p \in history'[n].what
    BY <1>1, <2>1
  <2>3. QED
    BY <2>2 DEF Jira!EditedSince
<1>3. ASSUME p \in e.what, Len(seen) <= Len(history) PROVE Jira!EditedSince(p)'
  <2>1. Len(history) + 1 \in Len(seen) + 1..Len(history')
    BY <1>1, <1>3
  <2>2. QED
    BY <1>1, <1>3, <2>1 DEF Jira!EditedSince
<1>4. QED
  BY <1>2, <1>3

\* A person's edit lengthens the history, and what it changes is a person's.
LEMMA PeopleKeepTheIssue ==
  ASSUME Jira!JiraAssumption, IssueInvariant, Jira!Edit
  PROVE  IssueInvariant'
<1>1. PICK ps \in SUBSET Jira!Parts, a \in Jira!Authors :
        /\ issue' = [p \in Jira!Parts |-> IF p \in ps THEN "hand" ELSE issue[p]]
        /\ issue' # issue
        /\ layout' = (layout /\ "description" \notin ps)
        /\ touched' = touched \cup ps
        /\ history' = Append(history, [what |-> {p \in ps : issue[p] # "hand"}, by |-> a])
  BY DEF Jira!Edit
<1>2. /\ pc # "begin" \/ op # "create"
      /\ edits' = edits + 1 /\ UNCHANGED <<read, marker, seen, op, pc, told, written, saved,
         faults>>
  BY DEF Jira!Edit
<1>3. /\ {p \in ps : issue[p] # "hand"} # {}
      /\ [what |-> {p \in ps : issue[p] # "hand"}, by |-> a] \in Jira!Entry
  BY <1>1, IssueFacts DEF Jira!Entry
<1>4. /\ history' \in Seq(Jira!Entry) /\ Len(history') = Len(history) + 1
      /\ \A n \in DOMAIN history' : history'[n].what # {}
  BY <1>1, <1>3, IssueFacts
<1>5. /\ issue' \in [Jira!Parts -> Jira!Texts] /\ touched' \subseteq Jira!Parts
      /\ \A p \in Jira!Parts : issue'[p] \in {issue[p], "hand"}
      /\ \A p \in touched' : issue'[p] = "hand" \/ (p \in touched /\ issue'[p] = issue[p])
      /\ layout' \in BOOLEAN /\ (layout' = layout \/ issue'["description"] = "hand")
  BY <1>1, IssueFacts DEF Jira!Texts
<1>6. IssueTypes'
  BY <1>2, <1>4, <1>5, IssueFacts DEF IssueInvariant, IssueTypes, Jira!TypeOK
<1>7. WritesFit'
  BY <1>2 DEF IssueInvariant, WritesFit
<1>8. EditsAreNoted'
  BY <1>2, <1>4, <1>5, IssueFacts DEF IssueInvariant, WritesFit, EditsAreNoted, BeforeWrite
<1>9. EditsAreNotedBesideTheWrite'
  BY <1>2, <1>4, IssueFacts DEF IssueInvariant, EditsAreNotedBesideTheWrite, LengthIfAlone
<1>10. EditsAreReadBack'
  <2>1. /\ \A p \in Jira!Parts : Jira!EditedSince(p) => Jira!EditedSince(p)'
        /\ Len(seen) <= Len(history) =>
             \A p \in Jira!Parts :
               issue'[p] = "hand" /\ issue[p] # "hand" => Jira!EditedSince(p)'
    BY <1>1, <1>2, <1>3, IssueFacts, EditsStayNamed
  <2>2. ASSUME pc \in ReadBack
        PROVE  /\ LengthIfAlone' <= Len(seen') /\ Len(seen') <= Len(history')
               /\ Len(seen') = LengthIfAlone' =>
                    \A p \in Jira!Parts :
                      /\ issue'[p] = "hand" \/ saved'[p] = "hand" => Jira!EditedSince(p)'
                      /\ p \in touched' => issue'[p] = "hand"
    <3>1. /\ LengthIfAlone <= Len(seen) /\ Len(seen) <= Len(history)
          /\ Len(seen) = LengthIfAlone =>
               \A p \in Jira!Parts :
                 /\ issue[p] = "hand" \/ saved[p] = "hand" => Jira!EditedSince(p)
                 /\ p \in touched => issue[p] = "hand"
      BY <2>2 DEF IssueInvariant, EditsAreReadBack
    <3>2. LengthIfAlone' = LengthIfAlone
      BY <1>2 DEF LengthIfAlone
    <3>3. QED
      BY <1>2, <1>4, <1>5, <2>1, <3>1, <3>2, IssueFacts
  <2>3. told = "done" => \A p \in Jira!Parts : saved'[p] = "hand" => Jira!EditedSince(p)'
    BY <1>2, <2>1 DEF IssueInvariant, EditsAreReadBack
  <2>4. QED
    BY <1>2, <2>2, <2>3 DEF EditsAreReadBack
<1>11. CreatedIsLeft'
  BY <1>2, <1>5 DEF IssueInvariant, CreatedIsLeft
<1>12. WrittenIsThere'
  BY <1>2, <1>5, IssueFacts DEF IssueInvariant, WrittenIsThere, Jira!Parts
<1>13. Jira!EditsAreShown'
  BY <1>2, <1>5, <1>10 DEF IssueInvariant, EditsAreReadBack, Jira!EditsAreShown
<1>14. Jira!DoneIsOnTheIssue'
  BY <1>2, <1>5, IssueFacts DEF IssueInvariant, Jira!DoneIsOnTheIssue, Jira!Parts
<1>15. RejectedUnwritten'
  BY <1>2, <1>5, IssueFacts DEF IssueInvariant, RejectedUnwritten, Jira!RejectedLeavesNoTrace
<1>16. QED
  BY <1>6, <1>7, <1>8, <1>9, <1>10, <1>11, <1>12, <1>13, <1>14, <1>15 DEF IssueInvariant

\* _refuse_unseen_edits and _read_unchanged: nothing is written before they are done.
LEMMA ChecksKeepTheIssue ==
  ASSUME Jira!JiraAssumption, IssueInvariant, Jira!CheckHistory \/ Jira!CheckText
  PROVE  IssueInvariant'
<1>1. CASE Jira!Stop("rejected")
  <2>1. /\ pc \in {"begin", "text"} /\ pc' = "ended" /\ told' = "rejected"
        /\ UNCHANGED <<issue, layout, history, read, marker, seen, op, written, saved,
           touched, edits, faults>>
    BY <1>1 DEF Jira!CheckHistory, Jira!CheckText, Jira!Stop, Jira!End, Jira!people
  <2>2. \A p \in Jira!Parts : issue[p] # "new"
    BY <2>1 DEF IssueInvariant, EditsAreNoted, BeforeWrite
  <2>3. op = "create" => \A p \in touched : issue[p] = "hand"
    BY DEF IssueInvariant, CreatedIsLeft
  <2>4. QED
    BY <2>1, <2>2, <2>3, IssueFacts, WriteEnds
<1>2. CASE /\ pc \in {"begin", "text"} /\ op # "create"
           /\ pc' \in {"text", "send"}
           /\ UNCHANGED <<issue, layout, history, read, marker, seen, op, told, written,
                          saved, touched, edits, faults>>
  <2>1. IssueTypes'
    BY <1>2 DEF IssueInvariant, IssueTypes, Jira!TypeOK, BeforeWrite
  <2>2. WritesFit'
    BY <1>2 DEF IssueInvariant, WritesFit
  <2>3. EditsAreNoted'
    BY <1>2 DEF IssueInvariant, EditsAreNoted, BeforeWrite
  <2>4. EditsAreNotedBesideTheWrite'
    BY <1>2 DEF EditsAreNotedBesideTheWrite
  <2>5. EditsAreReadBack'
    BY <1>2 DEF IssueInvariant, EditsAreReadBack, ReadBack, Jira!EditedSince
  <2>6. CreatedIsLeft'
    BY <1>2 DEF CreatedIsLeft
  <2>7. WrittenIsThere'
    BY <1>2 DEF WrittenIsThere, ReadBack
  <2>8. Jira!EditsAreShown'
    BY <1>2 DEF IssueInvariant, Jira!EditsAreShown, Jira!EditedSince
  <2>9. Jira!DoneIsOnTheIssue'
    BY <1>2 DEF IssueInvariant, Jira!DoneIsOnTheIssue
  <2>10. RejectedUnwritten'
    BY <1>2 DEF IssueInvariant, RejectedUnwritten, Jira!RejectedLeavesNoTrace
  <2>11. QED
    BY <2>1, <2>2, <2>3, <2>4, <2>5, <2>6, <2>7, <2>8, <2>9, <2>10 DEF IssueInvariant
<1>3. QED
  BY <1>1, <1>2 DEF Jira!CheckHistory, Jira!CheckText, Jira!people, IssueInvariant, WritesFit

\* What the write makes of the issue and its history.
LEMMA LandsFacts ==
  ASSUME Jira!JiraAssumption, IssueInvariant, pc \in BeforeWrite, written # {}, Jira!Lands,
         pc = IF op = "create" THEN "begin" ELSE "send"
  PROVE  /\ issue' \in [Jira!Parts -> Jira!Texts] /\ layout' \in BOOLEAN
         /\ \A p \in Jira!Parts : issue'[p] = IF p \in written THEN "new" ELSE issue[p]
         /\ history' \in Seq(Jira!Entry) /\ \A n \in DOMAIN history' : history'[n].what # {}
         /\ Len(history') = IF op = "create" THEN 0 ELSE Len(history) + 1
         /\ marker \in 0..Len(history') + 1
<1>1. /\ issue' = [p \in Jira!Parts |-> IF p \in written THEN "new" ELSE issue[p]]
      /\ layout' \in BOOLEAN
  BY IssueFacts DEF Jira!Lands, Jira!Written
<1>2. /\ issue' \in [Jira!Parts -> Jira!Texts] /\ issue' # issue
      /\ {p \in Jira!Parts : issue'[p] # issue[p]} # {}
  BY <1>1, IssueFacts DEF IssueInvariant, EditsAreNoted, Jira!Texts
<1>3. CASE op = "create"
  <2>1. history' = <<>>
    BY <1>3 DEF Jira!Lands
  <2>2. marker <= 1
    BY <1>3 DEF IssueInvariant, CreatedIsLeft
  <2>3. QED
    BY <1>1, <1>2, <1>3, <2>1, <2>2, IssueFacts
<1>4. CASE op # "create"
  <2> DEFINE entry == [what |-> {p \in Jira!Parts : issue'[p] # issue[p]}, by |-> "account"]
  <2>1. history' = Append(history, entry)
    BY <1>2, <1>4 DEF Jira!Lands
  <2>2. entry \in Jira!Entry /\ entry.what # {}
    BY <1>2 DEF Jira!Entry, Jira!Authors
  <2> HIDE DEF entry
  <2>3. history' \in Seq(Jira!Entry) /\ Len(history') = Len(history) + 1
        /\ \A n \in DOMAIN history' : history'[n].what # {}
    BY <2>1, <2>2, IssueFacts
  <2>4. QED
    BY <1>1, <1>2, <1>4, <2>3, IssueFacts
<1>5. QED
  BY <1>3, <1>4

\* The write lands or not, whatever its answer.
LEMMA SendKeepsTheIssue ==
  ASSUME Jira!JiraAssumption, IssueInvariant, Jira!SendWrite
  PROVE  IssueInvariant'
<1>1. /\ pc = IF op = "create" THEN "begin" ELSE "send"
      /\ UNCHANGED <<read, marker, seen, op, written, saved, touched, edits>>
      /\ op = "create" => written = Jira!Parts /\ written # {}
  BY DEF Jira!SendWrite, Jira!people, IssueInvariant, WritesFit, Jira!Parts
<1>2. /\ pc \in BeforeWrite
      /\ \A p \in Jira!Parts : issue[p] # "new" /\ saved[p] = "old"
      /\ Len(history) >= marker
      /\ Len(history) = marker \/ op = "create" =>
            touched = {} /\ \A p \in Jira!Parts : issue[p] # "hand"
      /\ told \notin {"done", "rejected"}
  BY <1>1, IssueFacts DEF IssueInvariant, EditsAreNoted, BeforeWrite, IssueTypes, Jira!TypeOK
<1>3. CASE written = {} /\ pc' = "history" /\ UNCHANGED <<issue, layout, history, told, faults>>
  <2>1. IssueTypes'
    BY <1>1, <1>3 DEF IssueInvariant, IssueTypes, Jira!TypeOK
  <2>2. WritesFit'
    BY <1>1, <1>3 DEF IssueInvariant, WritesFit
  <2>3. EditsAreNoted'
    BY <1>1, <1>2, <1>3 DEF EditsAreNoted
  <2>4. EditsAreNotedBesideTheWrite'
    BY <1>1, <1>2, <1>3 DEF EditsAreNotedBesideTheWrite, LengthIfAlone
  <2>5. EditsAreReadBack'
    BY <1>2, <1>3 DEF EditsAreReadBack, ReadBack
  <2>6. CreatedIsLeft'
    BY <1>1, <1>3 DEF CreatedIsLeft
  <2>7. WrittenIsThere'
    BY <1>1, <1>3 DEF WrittenIsThere
  <2>8. Jira!EditsAreShown'
    BY <1>2, <1>3 DEF Jira!EditsAreShown
  <2>9. Jira!DoneIsOnTheIssue'
    BY <1>2, <1>3 DEF Jira!DoneIsOnTheIssue
  <2>10. RejectedUnwritten'
    BY <1>2, <1>3 DEF RejectedUnwritten, Jira!RejectedLeavesNoTrace
  <2>11. QED
    BY <2>1, <2>2, <2>3, <2>4, <2>5, <2>6, <2>7, <2>8, <2>9, <2>10 DEF IssueInvariant
<1>4. CASE written # {} /\ Jira!Lands /\ pc' = "history" /\ UNCHANGED <<told, faults>>
  <2>1. IssueTypes'
    BY <1>1, <1>2, <1>4, IssueFacts, LandsFacts DEF IssueInvariant, IssueTypes, Jira!TypeOK,
       BeforeWrite, ReadBack
  <2>2. WritesFit'
    BY <1>1, <1>4 DEF IssueInvariant, WritesFit
  <2>3. EditsAreNoted'
    BY <1>4 DEF EditsAreNoted, BeforeWrite
  <2>4. EditsAreNotedBesideTheWrite'
    BY <1>1, <1>2, <1>4, IssueFacts, LandsFacts DEF EditsAreNotedBesideTheWrite, LengthIfAlone
  <2>5. EditsAreReadBack'
    BY <1>2, <1>4 DEF EditsAreReadBack, ReadBack
  <2>6. CreatedIsLeft'
    BY <1>1, <1>2, <1>4, LandsFacts DEF CreatedIsLeft
  <2>7. WrittenIsThere'
    BY <1>1, <1>2, <1>4, IssueFacts, LandsFacts DEF WrittenIsThere
  <2>8. Jira!EditsAreShown'
    BY <1>2, <1>4 DEF Jira!EditsAreShown
  <2>9. Jira!DoneIsOnTheIssue'
    BY <1>2, <1>4 DEF Jira!DoneIsOnTheIssue
  <2>10. RejectedUnwritten'
    BY <1>2, <1>4 DEF RejectedUnwritten, Jira!RejectedLeavesNoTrace
  <2>11. QED
    BY <2>1, <2>2, <2>3, <2>4, <2>5, <2>6, <2>7, <2>8, <2>9, <2>10 DEF IssueInvariant
<1>5. CASE written # {} /\ Jira!Fault /\ Jira!End(Jira!Refused) /\
      UNCHANGED <<issue, layout, history>>
  BY <1>1, <1>2, <1>5, IssueFacts, WriteEnds DEF Jira!Fault, Jira!End, Jira!Refused
<1>6. CASE /\ written # {} /\ Jira!Fault /\ Jira!End(Jira!Unanswered)
           /\ Jira!Lands \/ UNCHANGED <<issue, layout, history>>
  <2>1. pc' = "ended" /\ told' = "failed" /\ faults' \in Nat
    BY <1>1, <1>6, IssueFacts DEF Jira!Fault, Jira!End, Jira!Unanswered
  <2>2. CASE Jira!Lands
    <3>1. /\ issue' \in [Jira!Parts -> Jira!Texts] /\ layout' \in BOOLEAN
          /\ history' \in Seq(Jira!Entry) /\ \A n \in DOMAIN history' : history'[n].what # {}
          /\ marker \in 0..Len(history') + 1
          /\ Len(history') = IF op = "create" THEN 0 ELSE Len(history) + 1
      BY <1>1, <1>2, <1>6, <2>2, LandsFacts
    <3>2. Len(seen) <= Len(history') \/ op = "create"
      BY <3>1, IssueFacts
    <3>3. QED
      BY <1>1, <1>2, <2>1, <3>1, IssueFacts, WriteEnds
  <2>3. CASE UNCHANGED <<issue, layout, history>>
    BY <1>1, <1>2, <2>1, <2>3, IssueFacts, WriteEnds
  <2>4. QED
    BY <1>6, <2>2, <2>3
<1>7. QED
  BY <1>3, <1>4, <1>5, <1>6 DEF Jira!SendWrite

\* The history, then the issue, are read back, and its layout is put if it is not there.
LEMMA ReadsKeepTheIssue ==
  ASSUME Jira!JiraAssumption, IssueInvariant, Jira!ReadHistory \/ Jira!ReadIssue
  PROVE  IssueInvariant'
<1>1. CASE Jira!ReadHistory
  <2>0. /\ pc = "history" /\ seen' = history /\ pc' = "issue"
        /\ UNCHANGED <<issue, layout, history, read, marker, op, told, written, saved,
           touched, edits, faults>>
    BY <1>1 DEF Jira!ReadHistory, Jira!people
  <2>1. told \notin {"done", "rejected"}
    BY <2>0, IssueFacts DEF IssueInvariant, IssueTypes, Jira!TypeOK
  <2>2. IssueTypes'
    BY <2>0 DEF IssueInvariant, IssueTypes, Jira!TypeOK, ReadBack
  <2>3. WritesFit'
    BY <2>0 DEF IssueInvariant, WritesFit
  <2>4. EditsAreNoted'
    BY <2>0 DEF EditsAreNoted, BeforeWrite
  <2>5. EditsAreNotedBesideTheWrite'
    BY <2>0 DEF EditsAreNotedBesideTheWrite
  <2>6. EditsAreReadBack'
    BY <2>0, <2>1, IssueFacts DEF IssueInvariant, EditsAreNotedBesideTheWrite,
       EditsAreReadBack, LengthIfAlone
  <2>7. CreatedIsLeft'
    BY <2>0 DEF IssueInvariant, CreatedIsLeft
  <2>8. WrittenIsThere'
    BY <2>0 DEF IssueInvariant, WrittenIsThere
  <2>9. Jira!EditsAreShown'
    BY <2>0, <2>1 DEF Jira!EditsAreShown
  <2>10. Jira!DoneIsOnTheIssue'
    BY <2>0, <2>1 DEF Jira!DoneIsOnTheIssue
  <2>11. RejectedUnwritten'
    BY <2>0, <2>1 DEF RejectedUnwritten, Jira!RejectedLeavesNoTrace
  <2>12. QED
    BY <2>2, <2>3, <2>4, <2>5, <2>6, <2>7, <2>8, <2>9, <2>10, <2>11 DEF IssueInvariant
<1>2. CASE Jira!ReadIssue
  <2>1. /\ pc = "issue" /\ pc' = IF layout \/ op = "fields" THEN "verify" ELSE "repair"
        /\ saved' = [p \in Jira!Parts |-> IF p \in written THEN issue[p] ELSE saved[p]]
        /\ UNCHANGED <<issue, layout, history, read, marker, seen, op, told, written,
           touched, edits, faults>>
    BY <1>2 DEF Jira!ReadIssue, Jira!Recorded, Jira!people
  <2>0. /\ saved' \in [Jira!Parts -> Jira!Texts]
        /\ \A p \in Jira!Parts : saved'[p] \in {issue[p], saved[p]}
        /\ told # "done"
    BY <2>1, IssueFacts DEF IssueInvariant, IssueTypes, Jira!TypeOK
  <2>2. IssueTypes'
    BY <2>0, <2>1 DEF IssueInvariant, IssueTypes, Jira!TypeOK, ReadBack
  <2>3. WritesFit'
    BY <2>1 DEF IssueInvariant, WritesFit
  <2>4. EditsAreNoted'
    BY <2>1 DEF EditsAreNoted, BeforeWrite
  <2>5. EditsAreNotedBesideTheWrite'
    BY <2>1 DEF EditsAreNotedBesideTheWrite
  <2>6. EditsAreReadBack'
    BY <2>0, <2>1 DEF IssueInvariant, EditsAreReadBack, LengthIfAlone, ReadBack,
       Jira!EditedSince
  <2>7. CreatedIsLeft'
    BY <2>1 DEF IssueInvariant, CreatedIsLeft
  <2>8. WrittenIsThere'
    BY <2>1 DEF IssueInvariant, WrittenIsThere, ReadBack
  <2>9. Jira!EditsAreShown'
    BY <2>0, <2>1 DEF Jira!EditsAreShown
  <2>10. Jira!DoneIsOnTheIssue'
    BY <2>1 DEF IssueInvariant, Jira!DoneIsOnTheIssue
  <2>11. RejectedUnwritten'
    BY <2>1 DEF IssueInvariant, RejectedUnwritten, Jira!RejectedLeavesNoTrace
  <2>12. QED
    BY <2>2, <2>3, <2>4, <2>5, <2>6, <2>7, <2>8, <2>9, <2>10, <2>11 DEF IssueInvariant
<1>3. QED
  BY <1>1, <1>2

\* _read_after_write puts the layout.
LEMMA RepairKeepsTheIssue ==
  ASSUME Jira!JiraAssumption, IssueInvariant, Jira!Repair
  PROVE  IssueInvariant'
<1>1. /\ pc = "repair" /\ op # "fields"
      /\ UNCHANGED <<issue, history, read, marker, seen, op, written, saved, touched, edits>>
  BY DEF Jira!Repair, Jira!people, IssueInvariant, WritesFit
<1>2. op = "create" => \A p \in touched : issue[p] = "hand"
  BY DEF IssueInvariant, CreatedIsLeft
<1>3. CASE layout' = TRUE /\ pc' = "verify" /\ UNCHANGED <<told, faults>>
  <2>1. IssueTypes'
    BY <1>1, <1>3 DEF IssueInvariant, IssueTypes, Jira!TypeOK, ReadBack
  <2>2. WritesFit'
    BY <1>1, <1>3 DEF IssueInvariant, WritesFit
  <2>3. EditsAreNoted'
    BY <1>3 DEF EditsAreNoted, BeforeWrite
  <2>4. EditsAreNotedBesideTheWrite'
    BY <1>3 DEF EditsAreNotedBesideTheWrite
  <2>5. EditsAreReadBack'
    BY <1>1, <1>3 DEF IssueInvariant, EditsAreReadBack, LengthIfAlone, ReadBack,
       Jira!EditedSince
  <2>6. CreatedIsLeft'
    BY <1>1 DEF IssueInvariant, CreatedIsLeft
  <2>7. WrittenIsThere'
    BY <1>1, <1>3 DEF IssueInvariant, WrittenIsThere, ReadBack
  <2>8. Jira!EditsAreShown'
    BY <1>1, <1>3 DEF IssueInvariant, Jira!EditsAreShown, Jira!EditedSince
  <2>9. Jira!DoneIsOnTheIssue'
    BY <1>1, <1>3 DEF IssueInvariant, Jira!DoneIsOnTheIssue
  <2>10. RejectedUnwritten'
    BY <1>1, <1>3 DEF IssueInvariant, RejectedUnwritten, Jira!RejectedLeavesNoTrace
  <2>11. QED
    BY <2>1, <2>2, <2>3, <2>4, <2>5, <2>6, <2>7, <2>8, <2>9, <2>10 DEF IssueInvariant
<1>4. CASE Jira!Fault /\ Jira!End(Jira!Refused) /\ UNCHANGED layout
  BY <1>1, <1>2, <1>4, IssueFacts, WriteEnds DEF Jira!Fault, Jira!End, Jira!Refused
<1>5. CASE Jira!Fault /\ Jira!End(Jira!Unanswered) /\ layout' \in {layout, TRUE}
  <2>1. pc' = "ended" /\ told' \in {"unfinished", "failed"} /\ faults' \in Nat
    BY <1>5, IssueFacts DEF Jira!Fault, Jira!End, Jira!Unanswered
  <2>2. layout' \in BOOLEAN
    BY <1>5, IssueFacts
  <2>3. QED
    BY <1>1, <1>2, <2>1, <2>2, IssueFacts, WriteEnds
<1>6. QED
  BY <1>3, <1>4, <1>5 DEF Jira!Repair, Jira!Repaired

\* _verified takes a history for skaldr's own only when it is no longer than the write
\* makes it, and so was read before every edit.
LEMMA VerifyKeepsTheIssue ==
  ASSUME Jira!JiraAssumption, IssueInvariant, Jira!Verify
  PROVE  IssueInvariant'
<1>1. /\ pc = "verify" /\ op # "create" /\ pc' = "ended"
      /\ UNCHANGED <<issue, layout, history, read, seen, op, written, saved, touched, edits,
         faults>>
  BY DEF Jira!Verify, Jira!End, Jira!people
<1>2. CASE told' = "failed" /\ UNCHANGED marker
  BY <1>1, <1>2, IssueFacts, WriteEnds
<1>3. CASE /\ Jira!Replaced \cup Jira!Foreign = {} /\ told' = "done"
           /\ marker' \in IF Jira!Own = {} THEN {marker} ELSE Jira!Own
  <2>1. Jira!Later \subseteq Jira!Own /\ Jira!Own \subseteq Jira!Later
        /\ \A m, n \in Jira!Own : m = n
    <3>1. Jira!Later \subseteq Jira!Own /\ Jira!Own \subseteq Jira!Later
      BY <1>3 DEF Jira!Foreign, Jira!Own
    <3>2. \A m, n \in Jira!Own : m <= n /\ n <= m
      BY DEF Jira!Own
    <3>3. \A n \in Jira!Own : n \in Nat
      BY <3>1, IssueFacts DEF Jira!Later
    <3>4. QED
      BY <3>1, <3>2, <3>3
  <2>2. Len(seen) <= marker + 1
    <3>1. SUFFICES ASSUME Len(seen) >= marker + 2 PROVE FALSE
      BY IssueFacts
    <3>2. marker + 1 \in Jira!Later /\ marker + 2 \in Jira!Later
      BY <3>1, IssueFacts DEF Jira!Later
    <3>3. QED
      BY <2>1, <3>2, IssueFacts
  <2>3. written = {} => Len(seen) <= marker
    <3>1. SUFFICES ASSUME written = {}, Len(seen) >= marker + 1 PROVE FALSE
      BY IssueFacts
    <3>2. marker + 1 \in Jira!Later /\ Jira!Own = {}
      BY <3>1, IssueFacts DEF Jira!Later, Jira!Own, Jira!IsSkaldrs
    <3>3. QED
      BY <2>1, <3>2
  <2>4. Len(seen) = LengthIfAlone
    BY <1>1, <2>2, <2>3, IssueFacts DEF IssueInvariant, EditsAreReadBack, LengthIfAlone,
       ReadBack
  <2>5. \A p \in Jira!Parts : /\ saved[p] = "hand" => Jira!EditedSince(p)
                              /\ p \in touched => issue[p] = "hand"
    BY <1>1, <2>4 DEF IssueInvariant, EditsAreReadBack, ReadBack
  <2>6. marker' \in Nat /\ marker' \in 0..Len(history) + 1
    <3>1. CASE marker' = marker
      BY <3>1, IssueFacts
    <3>2. CASE marker' \in Jira!Own
      BY <1>1, <2>1, <3>2, IssueFacts DEF Jira!Later
    <3>3. QED
      BY <1>3, <3>1, <3>2
  <2>7. op # "fields" => layout \/ issue["description"] = "hand"
    BY <1>1 DEF IssueInvariant, WrittenIsThere
  <2>8. \A p \in written : issue[p] \in {"new", "hand"}
    BY <1>1 DEF IssueInvariant, WrittenIsThere, ReadBack
  <2>9. IssueTypes'
    BY <1>1, <1>3, <2>6, IssueFacts DEF IssueTypes, Jira!TypeOK
  <2>10. WritesFit'
    BY <1>1 DEF IssueInvariant, WritesFit
  <2>11. EditsAreNoted'
    BY <1>1 DEF EditsAreNoted, BeforeWrite
  <2>12. EditsAreNotedBesideTheWrite'
    BY <1>1 DEF EditsAreNotedBesideTheWrite
  <2>13. EditsAreReadBack'
    BY <1>1, <2>5 DEF EditsAreReadBack, ReadBack, Jira!EditedSince
  <2>14. CreatedIsLeft'
    BY <1>1 DEF CreatedIsLeft
  <2>15. WrittenIsThere'
    BY <1>1, <2>8 DEF WrittenIsThere
  <2>16. Jira!EditsAreShown'
    BY <1>1, <2>5, IssueFacts DEF Jira!EditsAreShown, Jira!EditedSince
  <2>17. Jira!DoneIsOnTheIssue'
    BY <1>1, <2>7, <2>8 DEF Jira!DoneIsOnTheIssue
  <2>18. RejectedUnwritten'
    BY <1>3 DEF RejectedUnwritten, Jira!RejectedLeavesNoTrace
  <2>19. QED
    BY <2>9, <2>10, <2>11, <2>12, <2>13, <2>14, <2>15, <2>16, <2>17, <2>18 DEF IssueInvariant
<1>4. QED
  BY <1>2, <1>3 DEF Jira!Verify, Jira!End

\* A created issue is handed over as it was sent, if people have changed it since.
LEMMA HandOverKeepsTheIssue ==
  ASSUME Jira!JiraAssumption, IssueInvariant, Jira!HandOver
  PROVE  IssueInvariant'
<1>1. /\ pc = "verify" /\ op = "create" /\ pc' = "ended" /\ told' = "done" /\ marker' = 0
      /\ \/ seen = <<>> /\ UNCHANGED saved
         \/ saved' = [p \in Jira!Parts |-> "new"]
      /\ UNCHANGED <<issue, layout, history, read, seen, op, written, touched, edits, faults>>
  BY DEF Jira!HandOver, Jira!End, Jira!people
<1>2. /\ saved' \in [Jira!Parts -> Jira!Texts]
      /\ \A p \in Jira!Parts : saved'[p] = "hand" => Jira!EditedSince(p)
  <2>1. CASE seen = <<>> /\ UNCHANGED saved
    BY <1>1, <2>1, IssueFacts DEF IssueInvariant, EditsAreReadBack, ReadBack, LengthIfAlone
  <2>2. CASE saved' = [p \in Jira!Parts |-> "new"]
    BY <2>2 DEF Jira!Texts
  <2>3. QED
    BY <1>1, <2>1, <2>2
<1>3. \A p \in touched : issue[p] = "hand"
  BY <1>1 DEF IssueInvariant, CreatedIsLeft
<1>4. layout \/ issue["description"] = "hand"
  BY <1>1 DEF IssueInvariant, WrittenIsThere
<1>5. \A p \in written : issue[p] \in {"new", "hand"}
  BY <1>1 DEF IssueInvariant, WrittenIsThere, ReadBack
<1>6. IssueTypes'
  BY <1>1, <1>2, IssueFacts DEF IssueTypes, Jira!TypeOK
<1>7. WritesFit'
  BY <1>1 DEF IssueInvariant, WritesFit
<1>8. EditsAreNoted'
  BY <1>1 DEF EditsAreNoted, BeforeWrite
<1>9. EditsAreNotedBesideTheWrite'
  BY <1>1 DEF EditsAreNotedBesideTheWrite
<1>10. EditsAreReadBack'
  BY <1>1, <1>2 DEF EditsAreReadBack, ReadBack, Jira!EditedSince
<1>11. CreatedIsLeft'
  BY <1>1, <1>3 DEF CreatedIsLeft
<1>12. WrittenIsThere'
  BY <1>1, <1>5 DEF WrittenIsThere
<1>13. Jira!EditsAreShown'
  BY <1>1, <1>2, <1>3, IssueFacts DEF Jira!EditsAreShown, Jira!EditedSince
<1>14. Jira!DoneIsOnTheIssue'
  BY <1>1, <1>4, <1>5 DEF Jira!DoneIsOnTheIssue
<1>15. RejectedUnwritten'
  BY <1>1 DEF RejectedUnwritten, Jira!RejectedLeavesNoTrace
<1>16. QED
  BY <1>6, <1>7, <1>8, <1>9, <1>10, <1>11, <1>12, <1>13, <1>14, <1>15 DEF IssueInvariant

\* Every step of a write, and of people, keeps what the history says of the issue.
LEMMA StepsKeepTheIssue ==
  ASSUME Jira!JiraAssumption, IssueInvariant, Jira!Next \/ UNCHANGED Jira!vars
  PROVE  IssueInvariant'
<1>1. CASE Jira!ReadFails
  <2>1. /\ pc' = "ended" /\ told' \in {"unfinished", "failed"} /\ faults' \in Nat
        /\ UNCHANGED <<issue, layout, history, read, marker, seen, op, written, saved,
           touched, edits>>
    BY <1>1, IssueFacts DEF Jira!ReadFails, Jira!Fault, Jira!End, Jira!Unanswered, Jira!people
  <2>2. op = "create" => \A p \in touched : issue[p] = "hand"
    BY DEF IssueInvariant, CreatedIsLeft
  <2>3. QED
    BY <2>1, <2>2, IssueFacts, WriteEnds
<1>2. CASE UNCHANGED Jira!vars
  <2>1. UNCHANGED <<issue, layout, history, read, marker, seen, op, pc, told, written, saved,
                    touched, edits, faults>>
    BY <1>2 DEF Jira!vars
  <2>2. IssueTypes'
    BY <2>1 DEF IssueInvariant, IssueTypes, Jira!TypeOK
  <2>3. WritesFit'
    BY <2>1 DEF IssueInvariant, WritesFit
  <2>4. EditsAreNoted'
    BY <2>1 DEF IssueInvariant, EditsAreNoted
  <2>5. EditsAreNotedBesideTheWrite'
    BY <2>1 DEF IssueInvariant, EditsAreNotedBesideTheWrite, LengthIfAlone
  <2>6. EditsAreReadBack'
    BY <2>1 DEF IssueInvariant, EditsAreReadBack, LengthIfAlone, Jira!EditedSince
  <2>7. CreatedIsLeft'
    BY <2>1 DEF IssueInvariant, CreatedIsLeft
  <2>8. WrittenIsThere'
    BY <2>1 DEF IssueInvariant, WrittenIsThere
  <2>9. Jira!EditsAreShown'
    BY <2>1 DEF IssueInvariant, Jira!EditsAreShown, Jira!EditedSince
  <2>10. Jira!DoneIsOnTheIssue'
    BY <2>1 DEF IssueInvariant, Jira!DoneIsOnTheIssue
  <2>11. RejectedUnwritten'
    BY <2>1 DEF IssueInvariant, RejectedUnwritten, Jira!RejectedLeavesNoTrace
  <2>12. QED
    BY <2>2, <2>3, <2>4, <2>5, <2>6, <2>7, <2>8, <2>9, <2>10, <2>11 DEF IssueInvariant
<1>3. QED
  BY <1>1, <1>2, PeopleKeepTheIssue, ChecksKeepTheIssue, SendKeepsTheIssue, ReadsKeepTheIssue,
     RepairKeepsTheIssue, VerifyKeepsTheIssue, HandOverKeepsTheIssue DEF Jira!Next, Jira!Skaldr

\* Skaldr begins with the history it has read.
LEMMA WriteBeginsWell ==
  ASSUME Jira!JiraAssumption, Jira!Init
  PROVE  IssueInvariant
<1>1. /\ issue = [p \in Jira!Parts |-> "old"] /\ layout = TRUE /\ marker = Len(history)
      /\ seen = history
      /\ pc = "begin" /\ told = None /\ saved = issue /\ touched = {} /\ edits = 0 /\ faults = 0
      /\ op \in {"description", "fields", "create"} /\ op \in Ops
  BY DEF Jira!Init, Jira!Newest, Jira!JiraAssumption
<1>2. /\ written \subseteq Jira!Parts /\ (op = "create" => written = Jira!Parts)
      /\ (op = "description" => written = {"description"})
  BY <1>1 DEF Jira!Init, Jira!Parts
<1>3. /\ history \in Seq(Jira!Entry) /\ Len(history) \in {0, 1}
      /\ \A n \in DOMAIN history : history[n].what # {} /\ history[n] \in Jira!Entry
  <2>1. [what |-> {"field"}, by |-> "other"] \in Jira!Entry
    BY DEF Jira!Entry, Jira!Parts, Jira!Authors
  <2>2. history \in {<<>>, <<[what |-> {"field"}, by |-> "other"]>>}
    BY DEF Jira!Init
  <2>3. CASE history = <<>>
    BY <2>3
  <2>4. CASE history = <<[what |-> {"field"}, by |-> "other"]>>
    BY <2>1, <2>4
  <2>5. QED
    BY <2>2, <2>3, <2>4
<1>4. IssueTypes
  BY <1>1, <1>2, <1>3 DEF Jira!Texts, IssueTypes, Jira!TypeOK, BeforeWrite
<1>5. WritesFit
  BY <1>1, <1>2 DEF WritesFit
<1>6. EditsAreNoted
  BY <1>1 DEF EditsAreNoted
<1>7. EditsAreNotedBesideTheWrite
  BY <1>1 DEF EditsAreNotedBesideTheWrite
<1>8. EditsAreReadBack
  BY <1>1 DEF EditsAreReadBack, ReadBack
<1>9. CreatedIsLeft
  BY <1>1, <1>3 DEF CreatedIsLeft
<1>10. WrittenIsThere
  BY <1>1 DEF WrittenIsThere, ReadBack
<1>11. Jira!EditsAreShown
  BY <1>1 DEF Jira!EditsAreShown
<1>12. Jira!DoneIsOnTheIssue
  BY <1>1 DEF Jira!JiraAssumption, Jira!DoneIsOnTheIssue
<1>13. RejectedUnwritten
  BY <1>1, <1>2 DEF RejectedUnwritten, Jira!RejectedLeavesNoTrace
<1>14. QED
  BY <1>4, <1>5, <1>6, <1>7, <1>8, <1>9, <1>10, <1>11, <1>12, <1>13 DEF IssueInvariant

\* In every reachable state of a write, whatever people change and whichever request
\* fails, the length of the history read back says whether skaldr alone had changed the
\* issue since the run read it, and an edit between that request and the next one, which
\* reads the issue, is named in what the history has grown by (publish/jira/transport.py).
THEOREM WritesAreAccountedFor ==
  ASSUME Jira!JiraAssumption
  PROVE  Jira!Spec => []IssueInvariant
<1>1. Jira!Init => IssueInvariant
  BY WriteBeginsWell
<1>2. IssueInvariant /\ [Jira!Next]_(Jira!vars) => IssueInvariant'
  BY StepsKeepTheIssue
<1>3. QED
  BY <1>1, <1>2, PTL DEF Jira!Spec

\* A write told as done has replaced no edit, and left each one to be shown to the next
\* run that came before the history was read back; what it wrote is on the issue, with
\* the layout the next read splits it by (_verified, _read_back_created).
THEOREM EditsOfIssuesAreShown ==
  ASSUME Jira!JiraAssumption
  PROVE  Jira!Spec => [](Jira!EditsAreShown /\ Jira!DoneIsOnTheIssue)
<1>1. IssueInvariant => Jira!EditsAreShown /\ Jira!DoneIsOnTheIssue
  BY DEF IssueInvariant
<1>2. QED
  BY <1>1, WritesAreAccountedFor, PTL

\* A write of fields or of a new issue that is told as rejected has left no trace
\* (WriteRejectedError of the transport).
THEOREM RejectedIssuesAreUnwritten ==
  ASSUME Jira!JiraAssumption
  PROVE  Jira!Spec => []RejectedUnwritten
<1>1. IssueInvariant => RejectedUnwritten
  BY DEF IssueInvariant
<1>2. QED
  BY <1>1, WritesAreAccountedFor, PTL

------------------------------------------------------------------------------
(* The folder of an export                                                   *)

Exporting == {"write", "list", "remove"}
Entry == {"nobody", "skaldr", "people", "folder"}
Run == [at : {"idle", "done"} \cup Exporting, names : Exports \cup {<<>>},
        left : Seq(Folder!Names), earlier : SUBSET Folder!Names]

\* What is left to write is the end of the export.
WhatIsLeft ==
  run.at \in Exporting \cup {"done"} =>
    /\ run.names \in Exports
    /\ Len(run.left) <= Len(run.names)
    /\ \A i \in 1..Len(run.left) :
         run.left[i] = run.names[Len(run.names) - Len(run.left) + i]
    /\ run.at \in {"remove", "done"} => run.left = <<>>

\* A run was not refused: each of its names is free or skaldr's.
NamesAreFree ==
  run.at \in Exporting =>
    /\ run.earlier \subseteq begun.listed
    /\ \A i \in 1..Len(run.names) :
         run.names[i] \in begun.listed \/ begun.files[run.names[i]] = "nobody"

\* What a run wrote is in the folder, and what it removed is not.
WrittenOrRemoved ==
  run.at \in Exporting \cup {"done"} =>
    /\ \A i \in 1..(Len(run.names) - Len(run.left)) :
         run.names[i] \in theirs \/ files[run.names[i]] = "skaldr"
    /\ \A n \in begun.listed \ (Folder!ToSet(run.names) \cup run.earlier) :
         n \in theirs \/ files[n] # "skaldr"

\* The list names what a run has yet to remove.
ListedUntilRemoved ==
  /\ run.at \in {"write", "list"} /\ readable =>
       listed \subseteq run.earlier \cup Folder!Written
  /\ run.at = "remove" /\ readable =>
       \A n \in listed \ (Folder!ToSet(run.names) \cup run.earlier) : files[n] # "skaldr"
  /\ run.at = "done" =>
       listed = Folder!ToSet(run.names) /\ run.earlier \subseteq Folder!ToSet(run.names)


\* What stands in the folder besides was there when the run began.
FolderInvariant ==
  /\ files \in [Folder!Names -> Entry] /\ begun.files \in [Folder!Names -> Entry]
  /\ listed \subseteq Folder!Names /\ begun.listed \subseteq Folder!Names
  /\ readable \in BOOLEAN
  /\ run \in Run
  /\ WhatIsLeft /\ NamesAreFree /\ WrittenOrRemoved /\ ListedUntilRemoved
  /\ Folder!OthersFilesStay

\* The names of an export are among those of the folder.
LEMMA ExportedNames ==
  ASSUME Folder!FolderAssumption, NEW e \in Exports
  PROVE  /\ e \in Seq(Folder!Names) /\ Folder!ToSet(e) \subseteq Folder!Names
         /\ Folder!ToSet(e) = {e[i] : i \in 1..Len(e)}
<1>1. e \in Seq(STRING) /\ DOMAIN e = 1..Len(e) /\ Len(e) \in Nat
  BY DEF Folder!FolderAssumption
<1>2. Folder!ToSet(e) = {e[i] : i \in 1..Len(e)}
  BY <1>1 DEF Folder!ToSet
<1>3. Folder!ToSet(e) \subseteq Folder!Names
  BY DEF Folder!Names
<1>4. \A i \in 1..Len(e) : e[i] \in Folder!Names
  BY <1>2, <1>3
<1>5. QED
  BY <1>1, <1>2, <1>3, <1>4

\* What a run has written are the names before those that are left.
LEMMA WrittenNames ==
  ASSUME NEW names, NEW left, NEW S, names \in Seq(S), left \in Seq(S),
         Len(left) <= Len(names)
  PROVE  Folder!ToSet(SubSeq(names, 1, Len(names) - Len(left)))
           = {names[i] : i \in 1..(Len(names) - Len(left))}
<1> DEFINE k == Len(names) - Len(left)
           firsts == SubSeq(names, 1, k)
<1>1. k \in Nat /\ k <= Len(names) /\ Len(names) \in Nat
  OBVIOUS
<1>2. firsts \in Seq(S) /\ Len(firsts) = k /\ \A i \in 1..k : firsts[i] = names[i]
  BY <1>1, SubSeqProperties
<1>3. DOMAIN firsts = 1..k
  BY <1>1, <1>2
<1> HIDE DEF k, firsts
<1>4. {firsts[i] : i \in 1..k} = {names[i] : i \in 1..k}
  BY <1>2
<1>5. Folder!ToSet(firsts) = {names[i] : i \in 1..k}
  BY <1>3, <1>4 DEF Folder!ToSet
<1>6. QED
  BY <1>5 DEF k, firsts

LEMMA PeopleInTheFolder ==
  ASSUME Folder!FolderAssumption, FolderInvariant, Folder!Put
  PROVE  FolderInvariant'
<1>1. PICK n \in Folder!Names, as \in {"people", "folder", "nobody"} : Folder!Use(n, as)
  BY DEF Folder!Put
<1>2. /\ files' = [files EXCEPT ![n] = as] /\ theirs' = theirs \cup {n}
      /\ UNCHANGED <<listed, readable, run, begun>>
  BY <1>1 DEF Folder!Use
<1>3. /\ files' \in [Folder!Names -> Entry]
      /\ \A m \in Folder!Names : m # n => files'[m] = files[m]
      /\ files'[n] # "skaldr"
  BY <1>2 DEF FolderInvariant, Entry
<1>4. ASSUME NEW m \in Folder!Names, m \in theirs \/ files[m] = "skaldr"
      PROVE  m \in theirs' \/ files'[m] = "skaldr"
  BY <1>2, <1>3, <1>4
<1>5. ASSUME NEW m \in Folder!Names, m \in theirs \/ files[m] # "skaldr"
      PROVE  m \in theirs' \/ files'[m] # "skaldr"
  BY <1>2, <1>3, <1>5
<1>6. WrittenOrRemoved'
  <2>1. SUFFICES ASSUME run.at \in Exporting \cup {"done"} PROVE WrittenOrRemoved'
    BY <1>2 DEF WrittenOrRemoved
  <2>2. \A i \in 1..Len(run.names) : run.names[i] \in Folder!Names
    BY <2>1, ExportedNames DEF FolderInvariant, WhatIsLeft
  <2>3. \A i \in 1..(Len(run.names) - Len(run.left)) : i \in 1..Len(run.names)
    BY <2>1, ExportedNames DEF FolderInvariant, WhatIsLeft
  <2>4. \A i \in 1..(Len(run.names) - Len(run.left)) :
          run.names[i] \in theirs' \/ files'[run.names[i]] = "skaldr"
    BY <1>4, <2>1, <2>2, <2>3 DEF FolderInvariant, WrittenOrRemoved
  <2>5. \A m \in begun.listed \ (Folder!ToSet(run.names) \cup run.earlier) :
          m \in theirs' \/ files'[m] # "skaldr"
    BY <1>5, <2>1 DEF FolderInvariant, WrittenOrRemoved
  <2>6. QED
    BY <1>2, <2>4, <2>5 DEF WrittenOrRemoved
<1>7. QED
  BY <1>2, <1>3, <1>6
     DEF FolderInvariant, WhatIsLeft, NamesAreFree, ListedUntilRemoved,
         Folder!OthersFilesStay, Folder!Written

LEMMA ExportBegins ==
  ASSUME Folder!FolderAssumption, FolderInvariant, Folder!Begin
  PROVE  FolderInvariant'
<1>1. PICK names \in Exports :
        run' = IF Folder!Refuses(names, Folder!EarlierExport) THEN Folder!Idle
               ELSE [at |-> "write", names |-> names, left |-> names,
                     earlier |-> Folder!EarlierExport]
  BY DEF Folder!Begin
<1>2. /\ begun' = [files |-> files, listed |-> Folder!EarlierExport] /\ theirs' = {}
      /\ UNCHANGED <<files, listed, readable>>
  BY DEF Folder!Begin
<1>3. Folder!EarlierExport \subseteq Folder!Names
  BY DEF FolderInvariant, Folder!EarlierExport
<1>4. CASE Folder!Refuses(names, Folder!EarlierExport)
  BY <1>1, <1>2, <1>3, <1>4
     DEF FolderInvariant, Folder!Idle, WhatIsLeft, NamesAreFree, WrittenOrRemoved,
         ListedUntilRemoved, Folder!OthersFilesStay, Exporting, Run
<1>5. CASE ~Folder!Refuses(names, Folder!EarlierExport)
  <2>1. /\ run'.at = "write" /\ run'.names = names /\ run'.left = names
        /\ run'.earlier = Folder!EarlierExport
    BY <1>1, <1>5
  <2>2. names \in Seq(Folder!Names) /\ Len(names) \in Nat
        /\ Folder!ToSet(names) = {names[i] : i \in 1..Len(names)}
    BY ExportedNames
  <2>3. \A i \in 1..Len(names) :
          names[i] \in Folder!EarlierExport \/ files[names[i]] = "nobody"
    BY <1>5, <2>2 DEF Folder!Refuses, Folder!IsTaken
  <2>4. WhatIsLeft' /\ NamesAreFree' /\ WrittenOrRemoved'
    BY <1>2, <2>1, <2>2, <2>3 DEF WhatIsLeft, NamesAreFree, WrittenOrRemoved, Exporting
  <2>5. ListedUntilRemoved'
    BY <1>2, <2>1 DEF ListedUntilRemoved, Folder!EarlierExport
  <2>6. run' \in Run
    BY <1>1, <1>3, <1>5, <2>2 DEF Exporting, Run
  <2>7. QED
    BY <1>2, <1>3, <2>4, <2>5, <2>6 DEF FolderInvariant, Folder!OthersFilesStay
<1>6. QED
  BY <1>4, <1>5

LEMMA ListSpoilt ==
  ASSUME FolderInvariant, Folder!Spoil
  PROVE  FolderInvariant'
BY DEF Folder!Spoil, FolderInvariant, WhatIsLeft, NamesAreFree, WrittenOrRemoved,
       ListedUntilRemoved, Folder!OthersFilesStay, Folder!Written

\* What a run under way knows of the names it writes.
LEMMA UnderWay ==
  ASSUME Folder!FolderAssumption, FolderInvariant, run.at \in Exporting \cup {"done"}
  PROVE  /\ run.names \in Seq(Folder!Names) /\ run.left \in Seq(Folder!Names)
         /\ Len(run.names) \in Nat /\ Len(run.left) \in 0..Len(run.names)
         /\ Folder!ToSet(run.names) = {run.names[i] : i \in 1..Len(run.names)}
         /\ Folder!ToSet(run.names) \subseteq Folder!Names
         /\ Folder!Written = {run.names[i] : i \in 1..(Len(run.names) - Len(run.left))}
         /\ Folder!Written \subseteq Folder!ToSet(run.names)
<1>1. /\ run.names \in Exports /\ run.left \in Seq(Folder!Names)
      /\ Len(run.left) <= Len(run.names) /\ Len(run.left) \in Nat
  <2>1. run.left \in Seq(Folder!Names)
    BY DEF FolderInvariant, Run
  <2>2. run.names \in Exports /\ Len(run.left) <= Len(run.names)
    BY DEF FolderInvariant, WhatIsLeft
  <2>3. QED
    BY <2>1, <2>2
<1>2. /\ run.names \in Seq(Folder!Names) /\ Len(run.names) \in Nat
      /\ Folder!ToSet(run.names) = {run.names[i] : i \in 1..Len(run.names)}
      /\ Folder!ToSet(run.names) \subseteq Folder!Names
  BY <1>1, ExportedNames
<1>3. Folder!Written = {run.names[i] : i \in 1..(Len(run.names) - Len(run.left))}
  BY <1>1, <1>2, WrittenNames DEF Folder!Written
<1>4. Folder!Written \subseteq Folder!ToSet(run.names)
  BY <1>1, <1>2, <1>3
<1>5. QED
  BY <1>1, <1>2, <1>3, <1>4

\* Writing the first name that is left leaves the others.
LEMMA OneLess ==
  ASSUME Folder!FolderAssumption, FolderInvariant, Folder!Write
  PROVE  LET next == Len(run.names) - Len(run'.left)
         IN /\ run'.left \in Seq(Folder!Names) /\ Len(run'.left) <= Len(run.names)
            /\ \A i \in 1..Len(run'.left) : run'.left[i] = run.names[next + i]
            /\ next \in 1..Len(run.names) /\ run.left[1] = run.names[next]
            /\ 1..next = (1..(Len(run.names) - Len(run.left))) \cup {next}
            /\ \A i \in 1..next : run.names[i] \in Folder!Names
<1> DEFINE names == run.names
           left == run.left
           rest == run'.left
           n == Len(names)
           l == Len(left)
           next == n - Len(rest)
<1>1. run.at = "write" /\ left # <<>> /\ rest = Tail(left)
  BY DEF Folder!Write, FolderInvariant, Run
<1>2. names \in Seq(Folder!Names) /\ left \in Seq(Folder!Names)
  BY <1>1, UnderWay DEF Exporting
<1>3. l <= n /\ \A i \in 1..l : left[i] = names[n - l + i]
  BY <1>1 DEF FolderInvariant, WhatIsLeft, Exporting
<1>4. n \in Nat /\ l \in Nat /\ l # 0
  BY <1>1, <1>2, EmptySeq
<1>5. /\ rest \in Seq(Folder!Names) /\ Len(rest) = l - 1
      /\ \A i \in 1..(l - 1) : rest[i] = left[i + 1]
  BY <1>1, <1>2, <1>4, HeadTailProperties
<1>6. \A i \in 1..n : names[i] \in Folder!Names
  BY <1>2
<1>7. next = n - Len(rest)
  OBVIOUS
<1> HIDE DEF n, l, names, left, rest, next
<1>8. next = n - l + 1 /\ Len(rest) <= n /\ next \in 1..n
  BY <1>3, <1>4, <1>5, <1>7
<1>9. left[1] = names[next]
  <2>1. 1 \in 1..l
    BY <1>4
  <2>2. left[1] = names[n - l + 1]
    BY <1>3, <2>1
  <2>3. QED
    BY <1>8, <2>2
<1>10. ASSUME NEW i \in 1..Len(rest) PROVE rest[i] = names[next + i]
  <2>1. i + 1 \in 1..l /\ n - l + (i + 1) = next + i
    BY <1>4, <1>5, <1>8
  <2>2. left[i + 1] = names[n - l + (i + 1)]
    BY <1>3, <2>1
  <2>3. rest[i] = left[i + 1]
    BY <1>4, <1>5
  <2>4. QED
    BY <2>1, <2>2, <2>3
<1>11. 1..next = (1..(n - l)) \cup {next}
  BY <1>3, <1>4, <1>8
<1>12. \A i \in 1..next : names[i] \in Folder!Names
  BY <1>4, <1>6, <1>8
<1>13. QED
  BY <1>5, <1>8, <1>9, <1>10, <1>11, <1>12 DEF n, l, names, left, rest, next

LEMMA FileWritten ==
  ASSUME Folder!FolderAssumption, FolderInvariant, Folder!Write
  PROVE  FolderInvariant'
<1> DEFINE n == run.left[1]
           k == Len(run.names) - Len(run'.left)
<1>1. /\ run.at = "write" /\ run.left # <<>>
      /\ files' = [files EXCEPT ![n] = "skaldr"]
      /\ run' = [run EXCEPT !.at = "list", !.left = Tail(@)]
      /\ UNCHANGED <<listed, readable, begun, theirs>>
  BY DEF Folder!Write
<1>2. /\ run'.at = "list" /\ run'.left = Tail(run.left)
      /\ run'.names = run.names /\ run'.earlier = run.earlier
  BY <1>1 DEF FolderInvariant, Run
<1>3. /\ run.names \in Exports /\ run.names \in Seq(Folder!Names)
      /\ Folder!ToSet(run.names) = {run.names[i] : i \in 1..Len(run.names)}
      /\ Folder!Written = {run.names[i] : i \in 1..(Len(run.names) - Len(run.left))}
      /\ run.left \in Seq(Folder!Names) /\ Len(run.left) <= Len(run.names)
      /\ \A i \in 1..Len(run.left) :
           run.left[i] = run.names[Len(run.names) - Len(run.left) + i]
  <2>1. run.at \in Exporting \cup {"done"}
    BY <1>1 DEF Exporting
  <2>2. run.names \in Exports /\ Len(run.left) <= Len(run.names)
        /\ \A i \in 1..Len(run.left) :
             run.left[i] = run.names[Len(run.names) - Len(run.left) + i]
    BY <2>1 DEF FolderInvariant, WhatIsLeft
  <2>3. QED
    BY <2>1, <2>2, UnderWay
<1>4. /\ run'.left \in Seq(Folder!Names) /\ Len(run'.left) <= Len(run.names)
      /\ \A i \in 1..Len(run'.left) : run'.left[i] = run.names[k + i]
      /\ k \in 1..Len(run.names) /\ n = run.names[k]
      /\ 1..k = (1..(Len(run.names) - Len(run.left))) \cup {k}
      /\ \A i \in 1..k : run.names[i] \in Folder!Names
  BY OneLess
<1>5. n \in Folder!ToSet(run.names) /\ n \in Folder!Names
  BY <1>3, <1>4
<1>6. /\ files' \in [Folder!Names -> Entry] /\ files'[n] = "skaldr"
      /\ \A m \in Folder!Names : m # n => files'[m] = files[m]
  BY <1>1, <1>5 DEF FolderInvariant, Entry
<1>7. run' \in Run
  BY <1>1, <1>2, <1>4 DEF FolderInvariant, Exporting, Run
<1>8. WhatIsLeft'
  BY <1>2, <1>3, <1>4 DEF WhatIsLeft, Exporting
<1>9. n \in begun.listed \/ begun.files[n] = "nobody"
  BY <1>1, <1>4 DEF FolderInvariant, NamesAreFree, Exporting
<1>10. NamesAreFree' /\ Folder!OthersFilesStay'
  BY <1>1, <1>2, <1>6, <1>9
     DEF FolderInvariant, NamesAreFree, Folder!OthersFilesStay, Exporting
<1>11. WrittenOrRemoved'
  <2>1. /\ \A i \in 1..(Len(run.names) - Len(run.left)) :
             run.names[i] \in theirs \/ files[run.names[i]] = "skaldr"
        /\ \A m \in begun.listed \ (Folder!ToSet(run.names) \cup run.earlier) :
             m \in theirs \/ files[m] # "skaldr"
    BY <1>1 DEF FolderInvariant, WrittenOrRemoved, Exporting
  <2>2. ASSUME NEW m \in Folder!Names, m \in theirs \/ files[m] = "skaldr"
        PROVE  m \in theirs \/ files'[m] = "skaldr"
    BY <1>6, <2>2
  <2>3. ASSUME NEW i \in 1..k
        PROVE  run.names[i] \in theirs \/ files'[run.names[i]] = "skaldr"
    <3>1. CASE i = k
      BY <1>4, <1>6, <3>1
    <3>2. CASE i \in 1..(Len(run.names) - Len(run.left))
      BY <1>4, <2>1, <2>2, <3>2
    <3>3. QED
      BY <1>4, <3>1, <3>2
  <2>4. \A m \in begun.listed \ (Folder!ToSet(run.names) \cup run.earlier) :
          m \in theirs \/ files'[m] # "skaldr"
    BY <1>5, <1>6, <2>1 DEF FolderInvariant
  <2>5. /\ \A i \in 1..(Len(run'.names) - Len(run'.left)) :
             run'.names[i] \in theirs' \/ files'[run'.names[i]] = "skaldr"
        /\ \A m \in begun'.listed \ (Folder!ToSet(run'.names) \cup run'.earlier) :
             m \in theirs' \/ files'[m] # "skaldr"
    <3>1. /\ Len(run'.names) - Len(run'.left) = k /\ theirs' = theirs /\ begun' = begun
          /\ Folder!ToSet(run'.names) = Folder!ToSet(run.names)
      BY <1>1, <1>2
    <3>2. QED
      BY <1>2, <2>3, <2>4, <3>1
  <2> QED
    BY <2>5 DEF WrittenOrRemoved
<1>12. ListedUntilRemoved'
  <2>1. Folder!Written' = {run.names[i] : i \in 1..k}
    <3>1. /\ run.names \in Seq(Folder!Names) /\ run'.left \in Seq(Folder!Names)
          /\ Len(run'.left) <= Len(run.names)
      BY <1>3, <1>4
    <3>2. Folder!ToSet(SubSeq(run.names, 1, k)) = {run.names[i] : i \in 1..k}
      BY <3>1, WrittenNames
    <3>3. QED
      BY <1>2, <3>2 DEF Folder!Written
  <2>2. Folder!Written \subseteq Folder!Written'
    BY <1>3, <1>4, <2>1
  <2>3. readable => listed \subseteq run.earlier \cup Folder!Written
    BY <1>1 DEF FolderInvariant, ListedUntilRemoved
  <2> QED
    BY <1>1, <1>2, <2>2, <2>3 DEF ListedUntilRemoved
<1>13. QED
  BY <1>1, <1>6, <1>7, <1>8, <1>10, <1>11, <1>12 DEF FolderInvariant

LEMMA ListWritten ==
  ASSUME Folder!FolderAssumption, FolderInvariant, Folder!List
  PROVE  FolderInvariant'
<1>1. /\ run.at = "list" /\ listed' = run.earlier \cup Folder!Written /\ readable'
      /\ run' = [run EXCEPT !.at = IF run.left = <<>> THEN "remove" ELSE "write"]
      /\ UNCHANGED <<files, begun, theirs>>
  BY DEF Folder!List, Folder!WriteManifest
<1>2. /\ run'.at \in {"remove", "write"} /\ (run'.at = "remove" => run.left = <<>>)
      /\ run'.left = run.left /\ run'.names = run.names /\ run'.earlier = run.earlier
  BY <1>1 DEF FolderInvariant, Run
<1>3. Folder!Written \subseteq Folder!ToSet(run.names)
      /\ Folder!ToSet(run.names) \subseteq Folder!Names
  BY <1>1, UnderWay DEF Exporting
<1>4. Folder!Written' = Folder!Written
  BY <1>2 DEF Folder!Written
<1>5. listed' \subseteq Folder!Names
  BY <1>1, <1>3 DEF FolderInvariant, NamesAreFree, Exporting
<1>6. WhatIsLeft' /\ NamesAreFree' /\ WrittenOrRemoved'
  <2>1. WhatIsLeft /\ NamesAreFree /\ WrittenOrRemoved
    BY DEF FolderInvariant
  <2>2. WhatIsLeft'
    BY <1>1, <1>2, <2>1 DEF WhatIsLeft, Exporting
  <2>3. NamesAreFree'
    BY <1>1, <1>2, <2>1 DEF NamesAreFree, Exporting
  <2>4. /\ \A i \in 1..(Len(run.names) - Len(run.left)) :
             run.names[i] \in theirs \/ files[run.names[i]] = "skaldr"
        /\ \A m \in begun.listed \ (Folder!ToSet(run.names) \cup run.earlier) :
             m \in theirs \/ files[m] # "skaldr"
    BY <1>1, <2>1 DEF WrittenOrRemoved, Exporting
  <2>5. /\ Len(run'.names) - Len(run'.left) = Len(run.names) - Len(run.left)
        /\ Folder!ToSet(run'.names) = Folder!ToSet(run.names)
        /\ theirs' = theirs /\ files' = files /\ begun' = begun
    BY <1>1, <1>2
  <2>6. WrittenOrRemoved'
    <3>1. /\ \A i \in 1..(Len(run'.names) - Len(run'.left)) :
               run'.names[i] \in theirs' \/ files'[run'.names[i]] = "skaldr"
          /\ \A m \in begun'.listed \ (Folder!ToSet(run'.names) \cup run'.earlier) :
               m \in theirs' \/ files'[m] # "skaldr"
      BY <1>2, <2>4, <2>5
    <3>2. QED
      BY <3>1 DEF WrittenOrRemoved
  <2>7. QED
    BY <2>2, <2>3, <2>6
<1>7. ListedUntilRemoved'
  BY <1>1, <1>2, <1>3, <1>4 DEF ListedUntilRemoved
<1>8. QED
  BY <1>1, <1>2, <1>5, <1>6, <1>7
     DEF FolderInvariant, Folder!OthersFilesStay, Exporting, Run

LEMMA FileRemoved ==
  ASSUME Folder!FolderAssumption, FolderInvariant, Folder!Unlink
  PROVE  FolderInvariant'
<1>1. PICK name \in Folder!Stale :
        /\ files' = [files EXCEPT ![name] = IF @ = "folder" THEN @ ELSE "nobody"]
        /\ run' = [run EXCEPT !.earlier = @ \ {name}]
  BY DEF Folder!Unlink
<1>2. run.at = "remove" /\ UNCHANGED <<listed, readable, begun, theirs>>
  BY DEF Folder!Unlink
<1>3. /\ run'.at = run.at /\ run'.left = run.left /\ run'.names = run.names
      /\ run'.earlier = run.earlier \ {name}
  BY <1>1, <1>2 DEF FolderInvariant, Run
<1>4. /\ name \in run.earlier /\ name \notin Folder!ToSet(run.names)
      /\ name \in begun.listed /\ name \in Folder!Names
  BY <1>1, <1>2 DEF Folder!Stale, FolderInvariant, NamesAreFree, Exporting
<1>5. /\ files' \in [Folder!Names -> Entry] /\ files'[name] # "skaldr"
      /\ \A m \in Folder!Names : m # name => files'[m] = files[m]
  BY <1>1, <1>4 DEF FolderInvariant, Entry
<1>6. WhatIsLeft' /\ NamesAreFree' /\ Folder!OthersFilesStay'
  BY <1>2, <1>3, <1>4, <1>5
     DEF FolderInvariant, WhatIsLeft, NamesAreFree, Folder!OthersFilesStay, Exporting
<1>7. WrittenOrRemoved'
  <2>1. /\ \A i \in 1..(Len(run.names) - Len(run.left)) :
             run.names[i] \in theirs \/ files[run.names[i]] = "skaldr"
        /\ \A m \in begun.listed \ (Folder!ToSet(run.names) \cup run.earlier) :
             m \in theirs \/ files[m] # "skaldr"
    BY <1>2 DEF FolderInvariant, WrittenOrRemoved, Exporting
  <2>2. \A i \in 1..(Len(run.names) - Len(run.left)) :
          run.names[i] \in Folder!ToSet(run.names) /\ run.names[i] \in Folder!Names
    BY <1>2, UnderWay DEF Exporting
  <2>3. \A i \in 1..(Len(run.names) - Len(run.left)) :
          run.names[i] \in theirs \/ files'[run.names[i]] = "skaldr"
    BY <1>4, <1>5, <2>1, <2>2
  <2>4. \A m \in begun.listed \ (Folder!ToSet(run.names) \cup run'.earlier) :
          m \in theirs \/ files'[m] # "skaldr"
    BY <1>3, <1>5, <2>1 DEF FolderInvariant
  <2> QED
    BY <1>2, <1>3, <2>3, <2>4 DEF WrittenOrRemoved
<1>8. ListedUntilRemoved'
  BY <1>2, <1>3, <1>5 DEF FolderInvariant, ListedUntilRemoved
<1>9. run' \in Run
  BY <1>1 DEF FolderInvariant, Run
<1>10. QED
  BY <1>2, <1>5, <1>6, <1>7, <1>8, <1>9 DEF FolderInvariant

LEMMA ExportFinished ==
  ASSUME Folder!FolderAssumption, FolderInvariant, Folder!Finish
  PROVE  FolderInvariant'
<1>1. /\ run.at = "remove" /\ Folder!Stale = {}
      /\ listed' = Folder!ToSet(run.names) /\ readable'
      /\ run' = [run EXCEPT !.at = "done"]
      /\ UNCHANGED <<files, begun, theirs>>
  BY DEF Folder!Finish, Folder!WriteManifest
<1>2. /\ run'.at = "done" /\ run'.left = run.left /\ run'.names = run.names
      /\ run'.earlier = run.earlier /\ run.earlier \subseteq Folder!ToSet(run.names)
  BY <1>1 DEF FolderInvariant, Folder!Stale
<1>3. listed' \subseteq Folder!Names
  BY <1>1, UnderWay DEF Exporting
<1>4. WhatIsLeft' /\ NamesAreFree' /\ WrittenOrRemoved' /\ ListedUntilRemoved'
  BY <1>1, <1>2
     DEF FolderInvariant, WhatIsLeft, NamesAreFree, WrittenOrRemoved,
         ListedUntilRemoved, Exporting, Run
<1>5. run' \in Run
  BY <1>1 DEF FolderInvariant, Run
<1>6. QED
  BY <1>1, <1>3, <1>4, <1>5 DEF FolderInvariant, Folder!OthersFilesStay

LEMMA ExportStopped ==
  ASSUME FolderInvariant, Folder!Stop
  PROVE  FolderInvariant'
BY DEF Folder!Stop, Folder!Idle, FolderInvariant, WhatIsLeft, NamesAreFree,
       WrittenOrRemoved, ListedUntilRemoved, Folder!OthersFilesStay, Exporting, Run

\* The invariant says what a finished export leaves.
LEMMA DoneIsLeft ==
  ASSUME Folder!FolderAssumption, FolderInvariant
  PROVE  Folder!DoneLeavesTheExport
<1>1. SUFFICES ASSUME run.at = "done", readable PROVE Folder!DoneLeavesTheExport
  BY DEF Folder!DoneLeavesTheExport
<1>2. /\ run.left = <<>> /\ listed = Folder!ToSet(run.names)
      /\ run.earlier \subseteq Folder!ToSet(run.names)
  BY <1>1 DEF FolderInvariant, WhatIsLeft, ListedUntilRemoved
<1>3. /\ Len(run.names) - Len(run.left) = Len(run.names)
      /\ Folder!ToSet(run.names) = {run.names[i] : i \in 1..Len(run.names)}
  BY <1>1, <1>2, UnderWay
<1>4. QED
  BY <1>1, <1>2, <1>3
     DEF FolderInvariant, WrittenOrRemoved, Folder!DoneLeavesTheExport

\* A list never loses a file of skaldr's that is still there.
LEMMA StaleStaysListed ==
  ASSUME FolderInvariant, [Folder!Next]_(Folder!vars)
  PROVE  Folder!KeepsStaleListed
<1>1. CASE Folder!List
  <2>1. readable => listed \subseteq listed'
    BY <1>1 DEF Folder!List, Folder!WriteManifest, FolderInvariant, ListedUntilRemoved
  <2>2. QED
    BY <2>1 DEF Folder!KeepsStaleListed
<1>2. CASE Folder!Finish
  <2>1. /\ run.at = "remove" /\ run.earlier \subseteq Folder!ToSet(run.names)
        /\ listed' = Folder!ToSet(run.names) /\ files' = files
    BY <1>2 DEF Folder!Finish, Folder!WriteManifest, Folder!Stale
  <2>2. QED
    BY <2>1 DEF Folder!KeepsStaleListed, FolderInvariant, ListedUntilRemoved
<1>3. CASE ~Folder!List /\ ~Folder!Finish
  <2>1. listed' = listed
    BY <1>3 DEF Folder!Next, Folder!vars, Folder!Put, Folder!Use, Folder!Spoil,
                Folder!Begin, Folder!Write, Folder!Unlink, Folder!Stop
  <2>2. QED
    BY <2>1 DEF Folder!KeepsStaleListed
<1>4. QED
  BY <1>1, <1>2, <1>3

\* FolderInvariant is an invariant of every folder exports are written to, for
\* any exports: export/__init__.py.
THEOREM FoldersAreFollowed ==
  ASSUME Folder!FolderAssumption
  PROVE  Folder!Spec => []FolderInvariant
<1>1. Folder!Init => FolderInvariant
  BY DEF Folder!Init, Folder!Idle, Run, FolderInvariant, WhatIsLeft, NamesAreFree,
         WrittenOrRemoved, ListedUntilRemoved, Folder!OthersFilesStay, Exporting, Entry
<1>2. FolderInvariant /\ [Folder!Next]_(Folder!vars) => FolderInvariant'
  <2>1. SUFFICES ASSUME FolderInvariant, [Folder!Next]_(Folder!vars)
                 PROVE  FolderInvariant'
    OBVIOUS
  <2>2. CASE Folder!Put
    BY <2>1, <2>2, PeopleInTheFolder
  <2>3. CASE Folder!Spoil
    BY <2>1, <2>3, ListSpoilt
  <2>4. CASE Folder!Begin
    BY <2>1, <2>4, ExportBegins
  <2>5. CASE Folder!Write
    BY <2>1, <2>5, FileWritten
  <2>6. CASE Folder!List
    BY <2>1, <2>6, ListWritten
  <2>7. CASE Folder!Unlink
    BY <2>1, <2>7, FileRemoved
  <2>8. CASE Folder!Finish
    BY <2>1, <2>8, ExportFinished
  <2>9. CASE Folder!Stop
    BY <2>1, <2>9, ExportStopped
  <2>10. CASE UNCHANGED Folder!vars
    BY <2>1, <2>10
       DEF Folder!vars, FolderInvariant, WhatIsLeft, NamesAreFree, WrittenOrRemoved,
           ListedUntilRemoved, Folder!OthersFilesStay, Folder!Written
  <2>11. QED
    BY <2>1, <2>2, <2>3, <2>4, <2>5, <2>6, <2>7, <2>8, <2>9, <2>10 DEF Folder!Next
<1>3. QED
  BY <1>1, <1>2, PTL DEF Folder!Spec

\* Exports replace nothing of others', a finished one leaves its own files and a
\* list of exactly them, and wherever one stops the list still names what skaldr
\* wrote there, for any exports: _refuse_to_overwrite_what_skaldr_did_not_write.
THEOREM FoldersAreAccountedFor ==
  ASSUME Folder!FolderAssumption
  PROVE  Folder!Spec =>
           /\ [](Folder!OthersFilesStay /\ Folder!DoneLeavesTheExport)
           /\ [][Folder!KeepsStaleListed]_(Folder!vars)
<1>1. FolderInvariant => Folder!OthersFilesStay /\ Folder!DoneLeavesTheExport
  BY DoneIsLeft DEF FolderInvariant
<1>2. FolderInvariant /\ [Folder!Next]_(Folder!vars)
        => [Folder!KeepsStaleListed]_(Folder!vars)
  BY StaleStaysListed
<1>3. QED
  BY <1>1, <1>2, FoldersAreFollowed, PTL DEF Folder!Spec

------------------------------------------------------------------------------
(* A page and what it was made of                                            *)

\* Every time is one of the clock's, and --if-stale only asks and renders.
TimesFit ==
  /\ clock \in Nat /\ saved \in [Watch!Files -> Nat \cup {None}]
  /\ \A f \in Watch!Files : saved[f] # None => saved[f] <= clock
  /\ page.time # None => page.time \in Nat /\ page.time <= clock
  /\ Command = "watch" => pc # "ask"
  /\ Command = "if-stale" => pc \in {"ask", "load", "source", "write"}

\* Nothing but a render makes a page that is stale current again.
StaleUntilWritten ==
  Command = "if-stale" /\ pc \in {"load", "source", "write"} => Watch!IsStale

\* What a render has read is what is saved, or gone, unless a file was saved
\* since.
ReadIsSaved ==
  pc \in {"source", "write"} /\ ~during =>
    /\ loaded = [f \in Watch!Uses |-> loaded[f]]
    /\ \A f \in Watch!Uses : saved[f] \in {loaded[f], None}
    /\ pc = "write" => source = loaded["main"]

WatchInvariant ==
  TimesFit /\ StaleUntilWritten /\ ReadIsSaved /\ Watch!FreshIsCurrent

\* A save or a rename touches a file the page is made of, and then the page is
\* stale, or leaves all of those as they are.
LEMMA TouchedIsStale ==
  ASSUME None \notin Nat, WatchInvariant, Watch!Save \/ Watch!Vanish
  PROVE  \/ Watch!IsStale'
         \/ /\ Watch!Uses' = Watch!Uses
            /\ \A f \in Watch!Uses : saved'[f] = saved[f] /\ valid'[f] = valid[f]
<1>1. SUFFICES ASSUME ~Watch!IsStale'
               PROVE  /\ Watch!Uses' = Watch!Uses
                      /\ \A f \in Watch!Uses : saved'[f] = saved[f] /\ valid'[f] = valid[f]
  OBVIOUS
<1>2. page' = page /\ page.time \in Nat /\ page.time <= clock /\ clock \in Nat
  BY <1>1 DEF Watch!IsStale, Watch!Save, Watch!Vanish, WatchInvariant, TimesFit
<1>3. \A f \in Watch!Uses' : saved'[f] # None /\ saved'[f] <= page.time
  BY <1>1, <1>2 DEF Watch!IsStale, Watch!CanLoad
<1>4. "main" \in Watch!Uses' /\ "main" \in Watch!Uses
  BY DEF Watch!Uses
<1>5. CASE Watch!Save
  <2>1. PICK g \in Watch!Files, ok \in BOOLEAN :
          /\ saved' = [saved EXCEPT ![g] = clock + 1]
          /\ valid' = [valid EXCEPT ![g] = ok]
          /\ includes' \in (IF g = "main" /\ IncludeMoves THEN BOOLEAN ELSE {includes})
    BY <1>5 DEF Watch!Save
  <2>2. saved'[g] = clock + 1
    BY <2>1 DEF WatchInvariant, TimesFit
  <2>3. g \notin Watch!Uses' /\ g # "main"
    BY <1>2, <1>3, <1>4, <2>2
  <2>4. Watch!Uses' = Watch!Uses
    BY <2>1, <2>3 DEF Watch!Uses
  <2>5. \A f \in Watch!Uses : saved'[f] = saved[f] /\ valid'[f] = valid[f]
    BY <2>1, <2>3, <2>4 
  <2>6. QED
    BY <2>4, <2>5
<1>6. CASE Watch!Vanish
  <2>1. PICK g \in Watch!Files : saved' = [saved EXCEPT ![g] = None]
    BY <1>6 DEF Watch!Vanish
  <2>2. saved'[g] = None /\ UNCHANGED <<includes, valid>>
    BY <1>6, <2>1 DEF Watch!Vanish, WatchInvariant, TimesFit
  <2>3. Watch!Uses' = Watch!Uses
    BY <2>2 DEF Watch!Uses
  <2>4. g \notin Watch!Uses
    BY <1>3, <2>2, <2>3
  <2>5. QED
    BY <2>1, <2>2, <2>3, <2>4 DEF WatchInvariant, TimesFit
<1>7. QED
  BY <1>5, <1>6

LEMMA FilesAreTouched ==
  ASSUME None \notin Nat, WatchInvariant, Watch!Save \/ Watch!Vanish
  PROVE  WatchInvariant'
<1>1. UNCHANGED <<page, loaded, source, pc>>
  BY DEF Watch!Save, Watch!Vanish
<1>2. TimesFit'
  <2>1. CASE Watch!Save
    <3>1. PICK g \in Watch!Files : saved' = [saved EXCEPT ![g] = clock + 1]
      BY <2>1 DEF Watch!Save
    <3>2. clock' = clock + 1 /\ clock \in Nat
      BY <2>1 DEF Watch!Save, WatchInvariant, TimesFit
    <3>3. QED
      BY <1>1, <3>1, <3>2 DEF WatchInvariant, TimesFit
  <2>2. CASE Watch!Vanish
    <3>1. PICK g \in Watch!Files : saved' = [saved EXCEPT ![g] = None]
      BY <2>2 DEF Watch!Vanish
    <3>2. clock' = clock
      BY <2>2 DEF Watch!Vanish
    <3>3. QED
      BY <1>1, <3>1, <3>2 DEF WatchInvariant, TimesFit
  <2>3. QED
    BY <2>1, <2>2
<1>3. CASE Watch!IsStale'
  <2>1. StaleUntilWritten' /\ Watch!FreshIsCurrent'
    BY <1>3 DEF StaleUntilWritten, Watch!FreshIsCurrent
  <2>2. ReadIsSaved'
    <3>1. SUFFICES ASSUME pc \in {"source", "write"}, ~during' PROVE ReadIsSaved'
      BY <1>1 DEF ReadIsSaved
    <3>2. Watch!Vanish /\ during' = during /\ includes' = includes
      BY <3>1 DEF Watch!Save, Watch!Vanish
    <3>3. PICK g \in Watch!Files : saved' = [saved EXCEPT ![g] = None]
      BY <3>2 DEF Watch!Vanish
    <3>4. Watch!Uses' = Watch!Uses /\ Watch!Uses \subseteq Watch!Files
      BY <3>2 DEF Watch!Uses, Watch!Files
    <3>5. QED
      BY <1>1, <3>1, <3>2, <3>3, <3>4 DEF WatchInvariant, TimesFit, ReadIsSaved
  <2>3. QED
    BY <1>2, <2>1, <2>2 DEF WatchInvariant
<1>4. CASE ~Watch!IsStale'
  <2>1. /\ Watch!Uses' = Watch!Uses
        /\ \A f \in Watch!Uses : saved'[f] = saved[f] /\ valid'[f] = valid[f]
    BY <1>4, TouchedIsStale
  <2>2. ~Watch!IsStale
    BY <1>1, <1>4, <2>1 DEF Watch!IsStale, Watch!CanLoad
  <2>3. StaleUntilWritten'
    BY <1>1, <2>2 DEF WatchInvariant, StaleUntilWritten
  <2>4. ~during' => ~during
    <3>1. CASE Watch!Save
      BY <3>1, Zenon DEF Watch!Save
    <3>2. CASE Watch!Vanish
      BY <3>2 DEF Watch!Vanish
    <3>3. QED
      BY <3>1, <3>2
  <2>5. ReadIsSaved'
    BY <1>1, <2>1, <2>4 DEF WatchInvariant, ReadIsSaved
  <2>6. Watch!FreshIsCurrent'
    <3>1. SUFFICES ASSUME pc = "ask", ~during' PROVE Watch!Current'
      BY <1>1 DEF Watch!FreshIsCurrent
    <3>2. ~during
      BY <2>4, <3>1
    <3>3. Watch!Current
      BY <2>2, <3>1, <3>2 DEF WatchInvariant, Watch!FreshIsCurrent
    <3>4. Watch!Times(Watch!Uses)' = Watch!Times(Watch!Uses) /\ saved'["main"] = saved["main"]
      BY <2>1 DEF Watch!Times, Watch!Uses
    <3>5. QED
      BY <1>1, <3>3, <3>4 DEF Watch!Current
  <2>7. QED
    BY <1>2, <2>3, <2>5, <2>6 DEF WatchInvariant
<1>5. QED
  BY <1>3, <1>4

\* Where a step of skaldr leads.
LEMMA SkaldrSteps ==
  ASSUME None \notin Nat, Command \in {"watch", "if-stale"}, WatchInvariant, Watch!Skaldr
  PROVE  WatchInvariant'
<1>1. CASE Watch!WritePage
  <2>1. /\ pc = "write" /\ pc' = Watch!AfterRender /\ clock' = clock + 1
        /\ page' = [shows |-> loaded, source |-> source, time |-> clock + 1]
        /\ UNCHANGED <<saved, valid, includes, during, loaded, source>>
    BY <1>1 DEF Watch!WritePage
  <2>2. page'.time = clock + 1 /\ page'.shows = loaded /\ page'.source = source
    BY <2>1
  <2>3. TimesFit'
    <3>1. /\ clock' \in Nat /\ clock < clock'
      BY <2>1 DEF WatchInvariant, TimesFit
    <3>2. /\ saved' \in [Watch!Files -> Nat \cup {None}]
          /\ \A f \in Watch!Files : saved'[f] # None => saved'[f] <= clock'
      BY <2>1, <3>1 DEF WatchInvariant, TimesFit
    <3>3. /\ Command = "watch" => pc' # "ask"
          /\ Command = "if-stale" => pc' \in {"ask", "load", "source", "write"}
      BY <2>1 DEF Watch!AfterRender
    <3>4. page'.time = clock' /\ page'.time <= clock'
      BY <2>1, <2>2, <3>1
    <3>5. QED
      BY <3>1, <3>2, <3>3, <3>4 DEF TimesFit
  <2>4. pc' \notin {"load", "source", "write"}
    BY <2>1 DEF Watch!AfterRender
  <2>5. StaleUntilWritten' /\ ReadIsSaved'
    BY <2>4 DEF StaleUntilWritten, ReadIsSaved
  <2>6. Watch!FreshIsCurrent'
    <3>1. SUFFICES ASSUME ~Watch!IsStale', ~during PROVE Watch!Current'
      BY <2>1 DEF Watch!FreshIsCurrent
    <3>2. Watch!Uses' = Watch!Uses /\ "main" \in Watch!Uses
      BY <2>1 DEF Watch!Uses
    <3>3. \A f \in Watch!Uses : saved[f] # None
      BY <2>1, <3>1, <3>2 DEF Watch!IsStale, Watch!CanLoad
    <3>4. /\ loaded = [f \in Watch!Uses |-> loaded[f]]
          /\ \A f \in Watch!Uses : saved[f] = loaded[f]
          /\ source = loaded["main"]
      BY <2>1, <3>1, <3>3 DEF WatchInvariant, ReadIsSaved
    <3>5. loaded = [f \in Watch!Uses |-> saved[f]]
      BY <3>4
    <3>6. QED
      BY <2>1, <2>2, <3>2, <3>4, <3>5 DEF Watch!Current, Watch!Times
  <2>7. QED
    BY <2>3, <2>5, <2>6 DEF WatchInvariant
<1>2. CASE ~Watch!WritePage
  <2>1. UNCHANGED <<clock, saved, valid, includes, page>>
    BY <1>2 DEF Watch!Skaldr, Watch!Load, Watch!ReadSource, Watch!Resolve,
                Watch!TakeTimes, Watch!Poll, Watch!ResolveAgain, Watch!Ask, Watch!files
  <2>2. /\ Watch!Uses' = Watch!Uses /\ Watch!CanLoad' = Watch!CanLoad
        /\ Watch!IsStale' = Watch!IsStale
    BY <2>1 DEF Watch!IsStale, Watch!CanLoad, Watch!Uses
  <2>3. /\ Command = "watch" => pc' # "ask"
        /\ Command = "if-stale" => pc' \in {"ask", "load", "source", "write"}
    BY <1>2 DEF Watch!Skaldr, Watch!Load, Watch!ReadSource, Watch!Resolve,
                Watch!TakeTimes, Watch!Poll, Watch!ResolveAgain, Watch!Ask,
                Watch!AfterRender, WatchInvariant, TimesFit
  <2>4. TimesFit'
    BY <2>1, <2>3 DEF WatchInvariant, TimesFit
  <2>5. Command = "if-stale" => Watch!IsStale
    BY <1>2 DEF Watch!Skaldr, Watch!Load, Watch!ReadSource, Watch!Resolve,
                Watch!TakeTimes, Watch!Poll, Watch!ResolveAgain, Watch!Ask,
                WatchInvariant, TimesFit, StaleUntilWritten
  <2>6. StaleUntilWritten' /\ Watch!FreshIsCurrent'
    BY <2>2, <2>3, <2>5 DEF StaleUntilWritten, Watch!FreshIsCurrent
  <2>7. ReadIsSaved'
    <3>1. CASE Watch!Load
      <4>1. SUFFICES ASSUME pc' \in {"source", "write"} PROVE ReadIsSaved'
        BY DEF ReadIsSaved
      <4>2. pc' = "source" /\ loaded' = Watch!Times(Watch!Uses)
        BY <3>1, <4>1 DEF Watch!Load, Watch!AfterRender
      <4>3. QED
        BY <2>1, <2>2, <4>2 DEF ReadIsSaved, Watch!Times
    <3>2. CASE Watch!ReadSource
      <4>1. SUFFICES ASSUME pc' \in {"source", "write"}, ~during' PROVE ReadIsSaved'
        BY DEF ReadIsSaved
      <4>2. /\ pc = "source" /\ loaded' = loaded /\ during' = during
            /\ source' = saved["main"] /\ saved["main"] # None
        BY <3>2, <4>1 DEF Watch!ReadSource, Watch!AfterRender, Watch!files
      <4>3. "main" \in Watch!Uses
        BY DEF Watch!Uses
      <4>4. QED
        BY <2>1, <2>2, <4>1, <4>2, <4>3 DEF WatchInvariant, ReadIsSaved
    <3>3. CASE ~Watch!Load /\ ~Watch!ReadSource
      <4>1. pc' \notin {"source", "write"}
        BY <1>2, <3>3 DEF Watch!Skaldr, Watch!Resolve, Watch!TakeTimes, Watch!Poll,
                          Watch!ResolveAgain, Watch!Ask
      <4>2. QED
        BY <4>1 DEF ReadIsSaved
    <3>4. QED
      BY <3>1, <3>2, <3>3
  <2>8. QED
    BY <2>4, <2>6, <2>7 DEF WatchInvariant
<1>3. QED
  BY <1>1, <1>2

\* A page --if-stale takes for current is the page of what is saved, unless a file
\* was saved while it was rendered, however often files are saved, renamed and
\* spoilt and whatever they include: cli.py _is_stale.
THEOREM FreshPagesAreCurrent ==
  ASSUME Watch!WatchAssumption
  PROVE  Watch!Spec => []Watch!FreshIsCurrent
<1>1. None \notin Nat /\ Command \in {"watch", "if-stale"}
  BY DEF Watch!WatchAssumption
<1>2. Watch!Init => WatchInvariant
  <2>1. SUFFICES ASSUME Watch!Init PROVE WatchInvariant
    OBVIOUS
  <2>2. page.time = None /\ pc \in {"load", "ask"} /\ (Command = "watch" => pc = "load")
    BY <2>1 DEF Watch!Init, Watch!NoPage
  <2>3. Watch!IsStale
    BY <2>2 DEF Watch!IsStale
  <2>4. TimesFit
    BY <1>1, <2>1, <2>2 DEF Watch!Init, TimesFit, Watch!Files
  <2>5. QED
    BY <2>2, <2>3, <2>4
       DEF WatchInvariant, StaleUntilWritten, ReadIsSaved, Watch!FreshIsCurrent
<1>3. WatchInvariant /\ [Watch!Next]_(Watch!vars) => WatchInvariant'
  <2>1. SUFFICES ASSUME WatchInvariant, [Watch!Next]_(Watch!vars) PROVE WatchInvariant'
    OBVIOUS
  <2>2. CASE Watch!Skaldr
    BY <1>1, <2>1, <2>2, SkaldrSteps
  <2>3. CASE Watch!Save \/ Watch!Vanish
    BY <1>1, <2>1, <2>3, FilesAreTouched
  <2>4. CASE UNCHANGED Watch!vars
    BY <2>1, <2>4
       DEF Watch!vars, WatchInvariant, TimesFit, StaleUntilWritten, ReadIsSaved,
           Watch!FreshIsCurrent, Watch!IsStale, Watch!CanLoad, Watch!Uses,
           Watch!Current, Watch!Times
  <2>5. QED
    BY <2>1, <2>2, <2>3, <2>4 DEF Watch!Next
<1>4. WatchInvariant => Watch!FreshIsCurrent
  BY DEF WatchInvariant
<1>5. QED
  BY <1>2, <1>3, <1>4, PTL DEF Watch!Spec

------------------------------------------------------------------------------
(* One operation on a Slack canvas                                           *)

VARIABLE canvas

Slack == INSTANCE SlackWrites

\* A canvas carries one stamp at most, and people add none.
StampIsSingle(c) ==
  \A m, n \in DOMAIN c.body : c.body[m].key = "stamp" /\ c.body[n].key = "stamp" => m = n

\* Which operation comes to which request.
RequestsFit ==
  \/ pc \in {"begin", "over", "ended"}
  \/ pc = "again" /\ op = "release"
  \/ pc = "send" /\ op \in {"section", "content", "into", "archive", "release"}
  \/ pc = "stamp" /\ op = "fields"
  \/ pc = "links" /\ op = "links"
  \/ pc = "rename" /\ op \in {"fields", "into", "archive"}
  \/ pc = "look" /\ op \in {"section", "content", "fields", "links", "into", "create"}

\* What the operation read is what the run read before, and what it may replace.
ReadingIsCurrent ==
  /\ pc = "send" /\ op \in {"section", "content", "into"} => Slack!Content(seen) = read
  /\ op = "into" /\ pc = "begin" => Slack!StampAt(canvas) = 0
  /\ op = "into" /\ pc = "send" => Slack!StampAt(seen) = 0
  /\ op = "create" /\ pc = "begin" => seen.body = <<>>
  /\ op = "release" /\ pc = "send" /\ ~hand => seen = canvas
  /\ seen.title = "new" => canvas.title = "new"

\* Nothing has been written before the first request, and a refusal that comes later
\* is not told as a rejection.
LandedIsFollowed ==
  /\ pc \in {"begin", "again", "send", "stamp", "links"} => landed = {}
  /\ pc = "rename" /\ op = "archive" => landed \subseteq {"body"}
  /\ op # "fields" => Slack!RejectedLeavesNoTrace

\* What the operation is to write stands on a canvas.
WantedIsOn(c) ==
  \A k \in DOMAIN wanted :
    /\ \A n \in DOMAIN Slack!Content(c) :
         c.body[n].key = k => c.body[n].text = wanted[k]
    /\ wanted[k] # None => Slack!Holds(c, Slack!At(k, wanted[k]))

SaysSo(c) == Slack!OpensWithTheLine(c) /\ Slack!StampAt(c) = 0

\* What is on a canvas nobody changed, at each place of the operation.
WritesAreThere ==
  /\ canvas.life = "gone" => hand
  /\ pc \in {"look", "over"} \/ (pc = "rename" /\ op = "into") => hand \/ WantedIsOn(canvas)
  /\ op \notin {"archive", "release"} /\ pc \in {"rename", "look", "over"} =>
       hand \/ Slack!StampAt(canvas) # 0
  /\ op = "archive" /\ pc \in {"rename", "over"} => hand \/ SaysSo(canvas)
  /\ op = "release" /\ pc = "over" => hand \/ Slack!StampAt(canvas) = 0
  /\ op \in {"fields", "create", "into"} /\ pc \in {"look", "over"} => canvas.title = "new"
  /\ canvas.marked => op = "archive" /\ pc \in {"begin", "over", "ended"}
  /\ op = "archive" /\ pc = "over" => canvas.marked

\* What an operation that is told as done leaves on a canvas nobody changed.
AskedIsThere ==
  hand \/ /\ WantedIsOn(canvas)
          /\ Slack!StampAt(canvas) = 0 <=> op \in {"archive", "release"}
          /\ op \in {"fields", "create", "into"} => canvas.title = "new"
          /\ op = "archive" => canvas.marked

CanvasTypes ==
  /\ Slack!TypeOK /\ read \in Seq(Slack!Block) /\ wanted \in Slack!Asked(op)
  /\ edits \in Nat /\ faults \in Nat

CanvasInvariant ==
  /\ CanvasTypes /\ StampIsSingle(canvas) /\ StampIsSingle(seen)
  /\ RequestsFit /\ ReadingIsCurrent /\ LandedIsFollowed /\ WritesAreThere
  /\ Slack!DoneIsOnTheCanvas /\ Slack!ArchivedSaysSo

\* Every non-empty set of numbers has a least one.
LEMMA Least ==
  ASSUME NEW T \in SUBSET Nat, T # {}
  PROVE  \E m \in T : \A n \in T : m <= n
<1> DEFINE R == OpToRel(<, Nat)
<1>1. IsWellFoundedOn(R, Nat)
  BY NatLessThanWellFounded
<1>2. \A i, j \in Nat : <<i, j>> \in R <=> i < j
  BY DEF OpToRel
<1> HIDE DEF R
<1>3. PICK x \in T : \A y \in T : ~(<<y, x>> \in R)
  BY <1>1, WFMin
<1>4. \A y \in T : x <= y
  <2>1. TAKE y \in T
  <2>2. x \in Nat /\ y \in Nat /\ ~(y < x)
    BY <1>2, <1>3
  <2>3. QED
    BY <2>2
<1>5. QED
  BY <1>4

\* What holds of 0, and of the next number with a number, holds of all.
LEMMA Induct ==
  ASSUME NEW S, 0 \in S, \A n \in Nat : n \in S => n + 1 \in S
  PROVE  Nat \subseteq S
<1>1. SUFFICES ASSUME Nat \ S # {} PROVE FALSE
  OBVIOUS
<1>2. PICK m \in Nat \ S : \A n \in Nat \ S : m <= n
  BY <1>1, Least
<1>3. m # 0 /\ m - 1 \in Nat
  BY <1>2
<1>4. m - 1 \in S
  BY <1>2, <1>3
<1>5. (m - 1) + 1 \in S
  BY <1>3, <1>4
<1>6. QED
  BY <1>2, <1>3, <1>5

\* F is the first n sequences one after the other: `at` says where each of its
\* elements is from.
Joins(F, seqs, n, at) ==
  /\ at \in [1..Len(F) -> Nat \X Nat]
  /\ \A p \in 1..Len(F) :
       /\ at[p][1] \in 1..n /\ at[p][2] \in 1..Len(seqs[at[p][1]])
       /\ F[p] = seqs[at[p][1]][at[p][2]]
  /\ \A p, q \in 1..Len(F) :
       p < q => at[p][1] < at[q][1] \/ (at[p][1] = at[q][1] /\ at[p][2] < at[q][2])
  /\ \A k \in 1..n : \A j \in 1..Len(seqs[k]) : \E p \in 1..Len(F) : at[p] = <<k, j>>

LEMMA OneMoreJoined ==
  ASSUME NEW S, NEW seqs \in Seq(Seq(S)), NEW n \in Nat, n + 1 \in 1..Len(seqs),
         NEW F \in Seq(S), NEW at, Joins(F, seqs, n, at)
  PROVE  /\ F \o seqs[n + 1] \in Seq(S)
         /\ \E new : Joins(F \o seqs[n + 1], seqs, n + 1, new)
<1> DEFINE s == seqs[n + 1]
           G == F \o s
           new == [p \in 1..Len(G) |-> IF p <= Len(F) THEN at[p] ELSE <<n + 1, p - Len(F)>>]
<1>1. s \in Seq(S) /\ Len(s) \in Nat /\ Len(F) \in Nat
  BY ElementOfSeq
<1>2. /\ G \in Seq(S) /\ Len(G) = Len(F) + Len(s)
      /\ \A p \in 1..Len(G) : G[p] = IF p <= Len(F) THEN F[p] ELSE s[p - Len(F)]
  BY <1>1, ConcatProperties
<1> HIDE DEF G
<1>3. \A p \in 1..Len(F) : p \in 1..Len(G) /\ new[p] = at[p] /\ G[p] = F[p]
  BY <1>1, <1>2
<1>4. \A j \in 1..Len(s) : /\ Len(F) + j \in 1..Len(G)
                           /\ new[Len(F) + j] = <<n + 1, j>> /\ G[Len(F) + j] = s[j]
  <2>1. TAKE j \in 1..Len(s)
  <2>2. Len(F) + j \in 1..Len(G) /\ ~(Len(F) + j <= Len(F)) /\ (Len(F) + j) - Len(F) = j
    BY <1>1, <1>2
  <2>3. QED
    BY <1>2, <2>2
<1>5. \A p \in 1..Len(G) : p \in 1..Len(F) \/ \E j \in 1..Len(s) : p = Len(F) + j
  <2>1. TAKE p \in 1..Len(G)
  <2>2. CASE p <= Len(F)
    BY <1>1, <1>2, <2>2
  <2>3. CASE ~(p <= Len(F))
    <3>1. p - Len(F) \in 1..Len(s) /\ p = Len(F) + (p - Len(F))
      BY <1>1, <1>2, <2>3
    <3>2. QED
      BY <3>1
  <2>4. QED
    BY <2>2, <2>3
<1>6. \A p \in 1..Len(F) : at[p] \in Nat \X Nat /\ at[p][1] \in 1..n
  BY DEF Joins
<1>7. new \in [1..Len(G) -> Nat \X Nat]
  <2>1. \A p \in 1..Len(G) : new[p] \in Nat \X Nat
    BY <1>3, <1>4, <1>5, <1>6
  <2>2. QED
    BY <2>1
<1>8. DOMAIN new = 1..Len(G)
  OBVIOUS
<1> HIDE DEF new
<1>9. \A p \in 1..Len(G) :
         /\ new[p][1] \in 1..(n + 1) /\ new[p][2] \in 1..Len(seqs[new[p][1]])
         /\ G[p] = seqs[new[p][1]][new[p][2]]
  <2>1. TAKE p \in 1..Len(G)
  <2>2. CASE p \in 1..Len(F)
    <3>1. at[p][1] \in 1..n /\ at[p][2] \in 1..Len(seqs[at[p][1]])
          /\ F[p] = seqs[at[p][1]][at[p][2]]
      BY <2>2 DEF Joins
    <3>2. new[p] = at[p] /\ G[p] = F[p]
      BY <1>3, <2>2
    <3>3. \A i \in 1..n : i \in 1..(n + 1)
      OBVIOUS
    <3>4. QED
      BY <3>1, <3>2, <3>3
  <2>3. CASE p \notin 1..Len(F)
    <3>1. PICK j \in 1..Len(s) : p = Len(F) + j
      BY <1>5, <2>3
    <3>2. new[p] = <<n + 1, j>> /\ G[p] = s[j]
      BY <1>4, <3>1
    <3>3. QED
      BY <3>2
  <2>4. QED
    BY <2>2, <2>3
<1>10. \A p, q \in 1..Len(G) :
         p < q => \/ new[p][1] < new[q][1]
                  \/ (new[p][1] = new[q][1] /\ new[p][2] < new[q][2])
  <2>1. SUFFICES ASSUME NEW p \in 1..Len(G), NEW q \in 1..Len(G), p < q
                 PROVE  \/ new[p][1] < new[q][1]
                        \/ (new[p][1] = new[q][1] /\ new[p][2] < new[q][2])
    OBVIOUS
  <2>2. CASE q \in 1..Len(F)
    <3>1. p \in 1..Len(F)
      BY <2>1, <2>2, <1>1, <1>2
    <3>2. at[p][1] < at[q][1] \/ (at[p][1] = at[q][1] /\ at[p][2] < at[q][2])
      BY <2>1, <2>2, <3>1 DEF Joins
    <3>3. QED
      BY <1>3, <2>2, <3>1, <3>2
  <2>3. CASE q \notin 1..Len(F)
    <3>1. PICK j \in 1..Len(s) : q = Len(F) + j
      BY <1>5, <2>3
    <3>2. new[q] = <<n + 1, j>>
      BY <1>4, <3>1
    <3>3. CASE p \in 1..Len(F)
      <4>1. new[p][1] = at[p][1] /\ at[p][1] \in 1..n /\ new[q][1] = n + 1
        BY <1>3, <1>6, <3>2, <3>3
      <4>2. \A i \in 1..n : i < n + 1
        OBVIOUS
      <4>3. QED
        BY <4>1, <4>2
    <3>4. CASE p \notin 1..Len(F)
      <4>1. PICK i \in 1..Len(s) : p = Len(F) + i
        BY <1>5, <3>4
      <4>2. new[p] = <<n + 1, i>>
        BY <1>4, <4>1
      <4>3. i < j
        BY <1>1, <2>1, <3>1, <4>1
      <4>4. QED
        BY <3>2, <4>2, <4>3
    <3>5. QED
      BY <3>3, <3>4
  <2>4. QED
    BY <2>2, <2>3
<1>11. \A k \in 1..(n + 1) : \A j \in 1..Len(seqs[k]) :
         \E p \in 1..Len(G) : new[p] = <<k, j>>
  <2>1. TAKE k \in 1..(n + 1)
  <2>2. TAKE j \in 1..Len(seqs[k])
  <2>3. CASE k = n + 1
    BY <1>4, <2>3
  <2>4. CASE k # n + 1
    <3>1. k \in 1..n
      BY <2>4
    <3>2. PICK p \in 1..Len(F) : at[p] = <<k, j>>
      BY <3>1 DEF Joins
    <3>3. QED
      BY <1>3, <3>2
  <2>5. QED
    BY <2>3, <2>4
<1>12. Joins(G, seqs, n + 1, new)
  BY <1>7, <1>9, <1>10, <1>11 DEF Joins
<1>13. QED
  BY <1>2, <1>12 DEF G

\* FlattenSeq joins them all.
LEMMA Flattened ==
  ASSUME NEW S, NEW seqs \in Seq(Seq(S))
  PROVE  /\ Slack!FlattenSeq(seqs) \in Seq(S)
         /\ \E at : Joins(Slack!FlattenSeq(seqs), seqs, Len(seqs), at)
<1> DEFINE N == Len(seqs)
           Flat(g, n) == g = [i \in 1..n |-> IF i = 1 THEN seqs[i] ELSE g[i - 1] \o seqs[i]]
           f == CHOOSE g : Flat(g, N)
<1>1. N \in Nat /\ \A k \in 1..N : seqs[k] \in Seq(S)
  BY ElementOfSeq
<1>2. \E g : Flat(g, N)
  <2> DEFINE T == {n \in Nat : \E g : Flat(g, n)}
  <2>1. 0 \in T
    <3>1. Flat([i \in 1..0 |-> 0], 0)
      BY DEF Flat
    <3>2. QED
      BY <3>1
  <2>2. ASSUME NEW n \in Nat, n \in T PROVE n + 1 \in T
    <3>1. PICK g : Flat(g, n)
      BY <2>2
    <3> DEFINE h == [i \in 1..(n + 1) |-> IF i = 1 THEN seqs[i] ELSE g[i - 1] \o seqs[i]]
    <3>2. \A i \in 1..n : g[i] = IF i = 1 THEN seqs[i] ELSE g[i - 1] \o seqs[i]
      BY <3>1
    <3>3. /\ h = [i \in 1..(n + 1) |-> h[i]]
          /\ \A i \in 1..(n + 1) : h[i] = IF i = 1 THEN seqs[i] ELSE g[i - 1] \o seqs[i]
      OBVIOUS
    <3> HIDE DEF h
    <3>4. \A i \in 1..n : i \in 1..(n + 1)
      OBVIOUS
    <3>5. \A i \in 1..n : h[i] = g[i]
      BY <3>2, <3>3, <3>4
    <3>6. \A i \in 1..(n + 1) : i # 1 => i - 1 \in 1..n
      OBVIOUS
    <3>7. \A i \in 1..(n + 1) : h[i] = IF i = 1 THEN seqs[i] ELSE h[i - 1] \o seqs[i]
      BY <3>3, <3>5, <3>6
    <3>8. Flat(h, n + 1)
      BY <3>3, <3>7
    <3>9. \E k : Flat(k, n + 1)
      <4> HIDE DEF Flat
      <4>1. QED
        BY <3>8
    <3>10. n + 1 \in Nat
      OBVIOUS
    <3>11. QED
      <4> HIDE DEF Flat
      <4>1. QED
        BY <3>9, <3>10
  <2>3. Nat \subseteq T
    <3> HIDE DEF T
    <3>1. QED
      BY <2>1, <2>2, Induct
  <2>4. QED
    BY <1>1, <2>3
<1>3. Flat(f, N)
  BY <1>2
<1>4. N # 0 => Slack!FlattenSeq(seqs) = f[N]
  BY DEF Slack!FlattenSeq
<1> HIDE DEF f
<1>5. \A i \in 1..N : f[i] = IF i = 1 THEN seqs[i] ELSE f[i - 1] \o seqs[i]
  BY <1>3
<1>6. Joins(<<>>, seqs, 0, <<>>)
  BY DEF Joins
<1> DEFINE T == {n \in Nat : n \in 1..N => f[n] \in Seq(S) /\ \E at : Joins(f[n], seqs, n, at)}
<1>7. Nat \subseteq T
  <2>1. 0 \in T
    OBVIOUS
  <2>2. ASSUME NEW n \in Nat, n \in T PROVE n + 1 \in T
    <3>1. SUFFICES ASSUME n + 1 \in 1..N
                   PROVE  f[n + 1] \in Seq(S) /\ \E at : Joins(f[n + 1], seqs, n + 1, at)
      OBVIOUS
    <3>2. CASE n = 0
      <4>1. f[n + 1] = <<>> \o seqs[n + 1]
        BY <1>1, <1>5, <3>1, <3>2, ConcatEmptySeq
      <4>2. <<>> \in Seq(S)
        OBVIOUS
      <4>3. QED
        BY <1>6, <3>1, <3>2, <4>1, <4>2, OneMoreJoined
    <3>3. CASE n # 0
      <4> HIDE DEF N
      <4>0. n \in 1..N /\ (n + 1) - 1 = n /\ n + 1 # 1
        BY <1>1, <3>1, <3>3
      <4>1. n \in 1..N /\ f[n + 1] = f[n] \o seqs[n + 1]
        BY <1>5, <3>1, <4>0
      <4>2. f[n] \in Seq(S) /\ \E at : Joins(f[n], seqs, n, at)
        BY <2>2, <4>1
      <4>3. PICK at : Joins(f[n], seqs, n, at)
        BY <4>2
      <4>4. n + 1 \in 1..Len(seqs)
        BY <3>1 DEF N
      <4>5. f[n] \o seqs[n + 1] \in Seq(S)
            /\ \E new : Joins(f[n] \o seqs[n + 1], seqs, n + 1, new)
        <5> HIDE DEF T, N, Flat
        <5>1. QED
          BY <4>2, <4>3, <4>4, OneMoreJoined
      <4>6. QED
        BY <4>1, <4>5
    <3>4. QED
      BY <3>2, <3>3
  <2>3. QED
    <3> HIDE DEF T
    <3>1. QED
      BY <2>1, <2>2, Induct
<1>8. CASE N = 0
  <2>1. Slack!FlattenSeq(seqs) = seqs /\ seqs = <<>>
    BY <1>8 DEF Slack!FlattenSeq
  <2>2. QED
    BY <1>6, <1>8, <2>1
<1>9. CASE N # 0
  <2>1. N \in 1..N
    BY <1>1, <1>9
  <2>2. QED
    BY <1>4, <1>7, <1>9, <2>1
<1>10. QED
  BY <1>8, <1>9

\* What is picked out of a sequence is in it, and all of it that is asked for is picked.
PickedFrom(t, s, B) ==
  /\ \A p \in 1..Len(t) : \E n \in 1..Len(s) : s[n] \in B /\ t[p] = s[n]
  /\ \A n \in 1..Len(s) : s[n] \in B => \E p \in 1..Len(t) : t[p] = s[n]

LEMMA AmongThem ==
  ASSUME NEW S, NEW s \in Seq(S), NEW B
  PROVE  Slack!Among(s, B) \in Seq(S) /\ PickedFrom(Slack!Among(s, B), s, B)
<1> DEFINE seqs == [n \in DOMAIN s |-> IF s[n] \in B THEN <<s[n]>> ELSE <<>>]
           F == Slack!Among(s, B)
<1>1. Len(s) \in Nat /\ DOMAIN s = 1..Len(s) /\ \A n \in 1..Len(s) : s[n] \in S
  BY LenProperties, ElementOfSeq
<1>2. \A n \in 1..Len(s) : (IF s[n] \in B THEN <<s[n]>> ELSE <<>>) \in Seq(S)
  BY <1>1
<1>3. seqs \in Seq(Seq(S)) /\ Len(seqs) = Len(s)
  <2>1. seqs = [n \in 1..Len(s) |-> IF s[n] \in B THEN <<s[n]>> ELSE <<>>]
    BY <1>1
  <2>2. seqs \in [1..Len(s) -> Seq(S)]
    BY <1>2, <2>1
  <2> HIDE DEF seqs
  <2>3. seqs \in Seq(Seq(S))
    BY <1>1, <2>2, SeqDef
  <2>4. DOMAIN seqs = 1..Len(seqs) /\ DOMAIN seqs = 1..Len(s) /\ Len(seqs) \in Nat
    BY <2>2, <2>3, LenProperties
  <2>5. \A a, b \in Nat : 1..a = 1..b => a = b
    <3>1. SUFFICES ASSUME NEW a \in Nat, NEW b \in Nat, 1..a = 1..b, a < b PROVE FALSE
      <4>1. \A a, b \in Nat : a = b \/ a < b \/ b < a
        OBVIOUS
      <4>2. QED
        BY <4>1
    <3>2. b \in 1..b /\ b \notin 1..a
      BY <3>1
    <3>3. QED
      BY <3>1, <3>2
  <2>6. Len(seqs) = Len(s)
    BY <1>1, <2>4, <2>5
  <2>7. QED
    BY <2>3, <2>6
<1>4. \A n \in 1..Len(s) : seqs[n] = IF s[n] \in B THEN <<s[n]>> ELSE <<>>
  BY <1>1
<1>5. F = Slack!FlattenSeq(seqs)
  BY DEF Slack!Among
<1> HIDE DEF seqs, F
<1>6. PICK at : F \in Seq(S) /\ Joins(F, seqs, Len(seqs), at)
  BY <1>3, <1>5, Flattened
<1>7. ASSUME NEW p \in 1..Len(F)
      PROVE  \E n \in 1..Len(s) : s[n] \in B /\ F[p] = s[n]
  <2>1. /\ at[p][1] \in 1..Len(s) /\ at[p][2] \in 1..Len(seqs[at[p][1]])
        /\ F[p] = seqs[at[p][1]][at[p][2]]
    BY <1>3, <1>6 DEF Joins
  <2>2. s[at[p][1]] \in B
    <3>1. SUFFICES ASSUME s[at[p][1]] \notin B PROVE FALSE
      OBVIOUS
    <3>2. seqs[at[p][1]] = <<>>
      BY <1>4, <2>1, <3>1
    <3>3. Len(seqs[at[p][1]]) = 0
      BY <3>2
    <3>4. at[p][2] \in 1..0
      BY <2>1, <3>3
    <3>5. QED
      BY <3>4
  <2>3. seqs[at[p][1]] = <<s[at[p][1]]>>
    BY <1>4, <2>1, <2>2
  <2>4. at[p][2] = 1
    BY <2>1, <2>3
  <2>5. QED
    BY <2>1, <2>2, <2>3, <2>4
<1>8. ASSUME NEW n \in 1..Len(s), s[n] \in B
      PROVE  \E p \in 1..Len(F) : F[p] = s[n]
  <2>1. seqs[n] = <<s[n]>>
    BY <1>4, <1>8
  <2>2. 1 \in 1..Len(seqs[n])
    BY <2>1
  <2>3. PICK p \in 1..Len(F) : at[p] = <<n, 1>>
    BY <1>3, <1>6, <2>2 DEF Joins
  <2>4. F[p] = seqs[at[p][1]][at[p][2]]
    BY <1>6 DEF Joins
  <2>5. QED
    BY <2>1, <2>3, <2>4
<1>9. QED
  BY <1>6, <1>7, <1>8 DEF F, PickedFrom

\* The greatest of some numbers up to a bound.
LEMMA Greatest ==
  ASSUME NEW L \in Nat, NEW I \in SUBSET (1..L), I # {}
  PROVE  Slack!Max(I) \in I /\ \A y \in I : Slack!Max(I) >= y
<1> DEFINE T == {n \in Nat : \E i \in I : n = L - i}
<1>1. PICK i \in I : TRUE
  OBVIOUS
<1>2. L - i \in T
  OBVIOUS
<1>3. PICK m \in T : \A n \in T : m <= n
  <2> HIDE DEF T
  <2>1. T \subseteq Nat
    BY DEF T
  <2>2. QED
    BY <1>2, <2>1, Least
<1>4. PICK x \in I : m = L - x
  OBVIOUS
<1>5. \A y \in I : L - y \in T
  OBVIOUS
<1>6. \A y \in I : L - x <= L - y
  BY <1>3, <1>4, <1>5
<1>7. \A y \in I : x >= y
  BY <1>6
<1>8. QED
  BY <1>7 DEF Slack!Max

\* The stamp of a canvas is the lowest one.
LEMMA StampPlace ==
  ASSUME NEW c, c.body \in Seq(Slack!Block)
  PROVE  /\ Slack!StampAt(c) \in 0..Len(c.body)
         /\ Slack!StampAt(c) = 0 => \A n \in 1..Len(c.body) : c.body[n].key # "stamp"
         /\ Slack!StampAt(c) # 0 =>
              /\ c.body[Slack!StampAt(c)].key = "stamp"
              /\ \A n \in 1..Len(c.body) : n > Slack!StampAt(c) => c.body[n].key # "stamp"
<1> DEFINE L == Len(c.body)
           I == {i \in 1..L : c.body[i].key = "stamp"}
<1>1. L \in Nat
  BY LenProperties
<1>2. Slack!StampAt(c) = IF I # {} THEN Slack!Max(I) ELSE 0
  BY DEF Slack!StampAt, Slack!SelectLastInSeq
<1>3. CASE I = {}
  <2>1. Slack!StampAt(c) = 0
    BY <1>2, <1>3
  <2>2. \A n \in 1..L : c.body[n].key # "stamp"
    BY <1>3
  <2> HIDE DEF L
  <2>3. 0 \in 0..L
    BY <1>1
  <2>4. QED
    BY <2>1, <2>2, <2>3 DEF L
<1>4. CASE I # {}
  <2>1. I \in SUBSET (1..L)
    OBVIOUS
  <2>2. Slack!StampAt(c) \in I /\ \A y \in I : Slack!StampAt(c) >= y
    <3> HIDE DEF I, L
    <3>1. QED
      BY <1>1, <1>2, <1>4, <2>1, Greatest
  <2>3. QED
    BY <1>1, <2>2
<1>5. QED
  BY <1>3, <1>4

\* A block that is a stamp and has none after it is the stamp, and without one there is none.
LEMMA StampIsAt ==
  ASSUME NEW c, c.body \in Seq(Slack!Block), NEW p \in 1..Len(c.body),
         c.body[p].key = "stamp",
         \A n \in 1..Len(c.body) : n > p => c.body[n].key # "stamp"
  PROVE  Slack!StampAt(c) = p
<1>1. Len(c.body) \in Nat
  BY LenProperties
<1>2. Slack!StampAt(c) # 0
  BY StampPlace
<1>3. Slack!StampAt(c) \in 1..Len(c.body)
  BY <1>1, <1>2, StampPlace
<1>4. ~(Slack!StampAt(c) > p) /\ ~(p > Slack!StampAt(c))
  BY <1>2, <1>3, StampPlace
<1>5. QED
  BY <1>1, <1>3, <1>4

LEMMA NoStamp ==
  ASSUME NEW c, c.body \in Seq(Slack!Block),
         \A n \in 1..Len(c.body) : c.body[n].key # "stamp"
  PROVE  Slack!StampAt(c) = 0 /\ Slack!Content(c) = c.body
<1>1. Len(c.body) \in Nat
  BY LenProperties
<1>2. Slack!StampAt(c) = 0
  BY <1>1, StampPlace
<1>3. QED
  BY <1>2 DEF Slack!Content

\* The content of a canvas is what is above its stamp.
LEMMA ContentCut ==
  ASSUME NEW c, c.body \in Seq(Slack!Block)
  PROVE  /\ Slack!Content(c) \in Seq(Slack!Block)
         /\ Len(Slack!Content(c)) =
              IF Slack!StampAt(c) = 0 THEN Len(c.body) ELSE Slack!StampAt(c) - 1
         /\ \A n \in 1..Len(Slack!Content(c)) : Slack!Content(c)[n] = c.body[n]
         /\ Slack!Below(c) \in Seq(Slack!Block)
         /\ Len(Slack!Below(c)) =
              IF Slack!StampAt(c) = 0 THEN 0 ELSE Len(c.body) - Slack!StampAt(c)
         /\ \A n \in 1..Len(Slack!Below(c)) : Slack!Below(c)[n] = c.body[Slack!StampAt(c) + n]
<1> DEFINE p == Slack!StampAt(c)
           L == Len(c.body)
<1>1. L \in Nat /\ p \in 0..L /\ \A n \in 1..L : c.body[n] \in Slack!Block
  BY LenProperties, ElementOfSeq, StampPlace
<1>2. CASE p = 0
  <2>1. Slack!Content(c) = c.body /\ Slack!Below(c) = <<>>
    BY <1>2 DEF Slack!Content, Slack!Below
  <2>2. <<>> \in Seq(Slack!Block) /\ Len(<<>>) = 0
    BY EmptySeq
  <2>3. QED
    BY <1>2, <2>1, <2>2
<1>3. CASE p # 0
  <2> HIDE DEF p
  <2>1. Slack!Content(c) = SubSeq(c.body, 1, p - 1) /\ Slack!Below(c) = SubSeq(c.body, p + 1, L)
    BY <1>3 DEF Slack!Content, Slack!Below, p
  <2> HIDE DEF L
  <2>2. 1 \in Int /\ p - 1 \in Int /\ p + 1 \in Int /\ L \in Int /\ p \in 1..L
    BY <1>1, <1>3
  <2>3. (\A i \in 1..(p - 1) : c.body[i] \in Slack!Block)
        /\ (\A i \in (p + 1)..L : c.body[i] \in Slack!Block)
    BY <1>1, <2>2
  <2>4. /\ Slack!Content(c) \in Seq(Slack!Block)
        /\ Len(Slack!Content(c)) = IF 1 <= p - 1 THEN (p - 1) - 1 + 1 ELSE 0
        /\ \A i \in 1..((p - 1) - 1 + 1) : Slack!Content(c)[i] = c.body[1 + i - 1]
    BY <2>1, <2>2, <2>3, SubSeqProperties
  <2>5. /\ Slack!Below(c) \in Seq(Slack!Block)
        /\ Len(Slack!Below(c)) = IF p + 1 <= L THEN L - (p + 1) + 1 ELSE 0
        /\ \A i \in 1..(L - (p + 1) + 1) : Slack!Below(c)[i] = c.body[(p + 1) + i - 1]
    BY <2>1, <2>2, <2>3, SubSeqProperties
  <2>6. Len(Slack!Content(c)) = p - 1 /\ Len(Slack!Below(c)) = L - p
    BY <2>2, <2>4, <2>5
  <2>7. \A i \in 1..(p - 1) : i \in 1..((p - 1) - 1 + 1) /\ 1 + i - 1 = i
    BY <2>2
  <2>8. \A i \in 1..(L - p) : i \in 1..(L - (p + 1) + 1) /\ (p + 1) + i - 1 = p + i
    BY <2>2
  <2>9. QED
    BY <1>3, <2>4, <2>5, <2>6, <2>7, <2>8 DEF p, L
<1>4. QED
  BY <1>2, <1>3

\* Canvases of one body have their stamp in one place.
LEMMA SameBody ==
  ASSUME NEW c, NEW d, c.body = d.body
  PROVE  /\ Slack!StampAt(c) = Slack!StampAt(d) /\ Slack!Content(c) = Slack!Content(d)
         /\ Slack!OpensWithTheLine(c) <=> Slack!OpensWithTheLine(d)
         /\ StampIsSingle(c) <=> StampIsSingle(d)
         /\ \A b : Slack!Holds(c, b) <=> Slack!Holds(d, b)
<1>1. Slack!StampAt(c) = Slack!StampAt(d)
  BY DEF Slack!StampAt, Slack!SelectLastInSeq, Slack!Max
<1>2. Slack!Content(c) = Slack!Content(d)
  BY <1>1 DEF Slack!Content
<1>3. QED
  BY <1>1, <1>2 DEF Slack!OpensWithTheLine, StampIsSingle, Slack!Holds

\* The blocks skaldr writes, and how they differ from a person's.
LEMMA BlocksAre ==
  ASSUME Slack!SlackAssumption
  PROVE  /\ Len(Sections) \in Nat \ {0} /\ DOMAIN Sections = 1..Len(Sections)
         /\ \A n \in 1..Len(Sections) : Sections[n] \in Slack!Keys
         /\ "stamp" \notin Slack!Keys /\ "archived" \notin Slack!Keys /\ "notes" \notin Slack!Keys
         /\ None \notin {"new", "done", "rejected", "unfinished", "failed"}
         /\ Slack!Stamp \in Slack!Block /\ Slack!At("stamp", "linked") \in Slack!Block
         /\ Slack!ArchivedLine \in Slack!Block /\ Slack!ArchivedLine.key = "archived"
         /\ Slack!Stamp.key = "stamp" /\ Slack!At("stamp", "linked").key = "stamp"
         /\ \A b \in Slack!Block : b.key = "stamp" => b.text # "hand"
         /\ \A k \in Slack!Keys, t \in {"old", "new", "hand"} : Slack!At(k, t) \in Slack!Block
<1>1. /\ Len(Sections) \in Nat \ {0} /\ DOMAIN Sections = 1..Len(Sections)
      /\ \A n \in 1..Len(Sections) : Sections[n] \in Slack!Keys
  BY DEF Slack!SlackAssumption, Slack!Keys
<1>2. "stamp" \notin Slack!Keys /\ "archived" \notin Slack!Keys /\ "notes" \notin Slack!Keys
  BY DEF Slack!SlackAssumption
<1>3. None \notin {"new", "done", "rejected", "unfinished", "failed"}
  BY DEF Slack!SlackAssumption
<1>4. /\ Slack!Stamp \in Slack!Block /\ Slack!At("stamp", "linked") \in Slack!Block
      /\ Slack!ArchivedLine \in Slack!Block /\ Slack!ArchivedLine.key = "archived"
      /\ Slack!Stamp.key = "stamp" /\ Slack!At("stamp", "linked").key = "stamp"
  BY DEF Slack!Stamp, Slack!At, Slack!ArchivedLine, Slack!Block
<1>5. \A b \in Slack!Block : b.key = "stamp" => b.text # "hand"
  BY <1>2 DEF Slack!Block
<1>6. \A k \in Slack!Keys, t \in {"old", "new", "hand"} : Slack!At(k, t) \in Slack!Block
  BY DEF Slack!At, Slack!Block
<1>7. QED
  BY <1>1, <1>2, <1>3, <1>4, <1>5, <1>6

\* The texts of the draft.
LEMMA TextsAre ==
  ASSUME Slack!SlackAssumption, NEW t \in {"old", "new"}
  PROVE  /\ Slack!Texts(t) \in Seq(Slack!Block) /\ Len(Slack!Texts(t)) = Len(Sections)
         /\ \A n \in 1..Len(Sections) : /\ Slack!Texts(t)[n] = Slack!At(Sections[n], t)
                                        /\ Slack!Texts(t)[n].key = Sections[n]
                                        /\ Slack!Texts(t)[n].key # "stamp"
         /\ \A k \in Slack!Keys : \E n \in 1..Len(Sections) : Slack!Texts(t)[n] = Slack!At(k, t)
<1>1. \A n \in 1..Len(Sections) : Slack!Texts(t)[n] = Slack!At(Sections[n], t)
  BY BlocksAre DEF Slack!Texts
<1>2. \A n \in 1..Len(Sections) : Slack!At(Sections[n], t) \in Slack!Block
  BY BlocksAre
<1>3. Slack!Texts(t) \in [1..Len(Sections) -> Slack!Block]
  BY <1>2, BlocksAre DEF Slack!Texts
<1>4. Slack!Texts(t) \in Seq(Slack!Block) /\ Len(Slack!Texts(t)) = Len(Sections)
  BY <1>3, BlocksAre
<1>5. \A n \in 1..Len(Sections) : Slack!Texts(t)[n].key = Sections[n] /\ Sections[n] # "stamp"
  <2>1. \A k : Slack!At(k, t).key = k
    BY DEF Slack!At
  <2>2. \A n \in 1..Len(Sections) : Sections[n] # "stamp"
    BY BlocksAre
  <2>3. QED
    BY <1>1, <2>1, <2>2
<1>6. \A k \in Slack!Keys : \E n \in 1..Len(Sections) : k = Sections[n]
  BY BlocksAre DEF Slack!Keys
<1>7. QED
  BY <1>1, <1>4, <1>5, <1>6

\* A body that is a content and then, if anything, a stamp and what is below it.
IsComposed(c, top, low) ==
  /\ c.body \in Seq(Slack!Block) /\ StampIsSingle(c)
  /\ Slack!StampAt(c) = 0 <=> low = <<>>
  /\ Len(Slack!Content(c)) = Len(top) /\ DOMAIN Slack!Content(c) = 1..Len(top)
  /\ DOMAIN c.body = 1..(Len(top) + Len(low))
  /\ \A n \in 1..Len(top) : c.body[n] = top[n] /\ Slack!Holds(c, top[n])
  /\ \A n \in 1..Len(low) : c.body[Len(top) + n] = low[n] /\ Slack!Holds(c, low[n])

LEMMA Composed ==
  ASSUME NEW top \in Seq(Slack!Block), NEW low \in Seq(Slack!Block), NEW c,
         c.body = top \o low,
         \A n \in 1..Len(top) : top[n].key # "stamp",
         \A n \in 1..Len(low) : low[n].key = "stamp" <=> n = 1
  PROVE  IsComposed(c, top, low)
<1> DEFINE T == Len(top)
           L == Len(low)
<1>1. T \in Nat /\ L \in Nat /\ (low = <<>> <=> L = 0)
  BY LenProperties, EmptySeq
<1>2. /\ c.body \in Seq(Slack!Block) /\ Len(c.body) = T + L
      /\ \A i \in 1..(T + L) : c.body[i] = IF i <= T THEN top[i] ELSE low[i - T]
  BY ConcatProperties
<1> HIDE DEF T, L
<1>3. DOMAIN c.body = 1..(T + L)
  BY <1>1, <1>2, LenProperties
<1>4. \A n \in 1..T : n \in 1..(T + L) /\ c.body[n] = top[n]
  BY <1>1, <1>2
<1>5. \A n \in 1..L : T + n \in 1..(T + L) /\ c.body[T + n] = low[n]
  <2>1. \A n \in 1..L : T + n \in 1..(T + L) /\ ~(T + n <= T) /\ (T + n) - T = n
    BY <1>1
  <2>2. QED
    BY <1>2, <2>1
<1>6. \A i \in 1..(T + L) : c.body[i].key = "stamp" <=> L # 0 /\ i = T + 1
  <2>1. TAKE i \in 1..(T + L)
  <2>2. CASE i <= T
    <3>1. i \in 1..T /\ i # T + 1
      BY <1>1, <2>2
    <3>2. QED
      BY <1>4, <3>1 DEF T
  <2>3. CASE ~(i <= T)
    <3>1. i - T \in 1..L /\ (i - T = 1 <=> i = T + 1) /\ L # 0
      BY <1>1, <2>3
    <3>2. QED
      BY <1>2, <2>3, <3>1 DEF L
  <2>4. QED
    BY <2>2, <2>3
<1>7. StampIsSingle(c)
  <2>1. SUFFICES ASSUME NEW m \in 1..(T + L), NEW n \in 1..(T + L),
                        c.body[m].key = "stamp", c.body[n].key = "stamp"
                 PROVE  m = n
    BY <1>3 DEF StampIsSingle
  <2>2. m = T + 1 /\ n = T + 1
    BY <1>6, <2>1
  <2>3. QED
    BY <2>2
<1>8. Slack!StampAt(c) = IF L = 0 THEN 0 ELSE T + 1
  <2>1. CASE L = 0
    BY <1>2, <1>6, <2>1, NoStamp
  <2>2. CASE L # 0
    <3>1. T + 1 \in 1..Len(c.body) /\ c.body[T + 1].key = "stamp"
      BY <1>1, <1>2, <1>6, <2>2
    <3>2. \A n \in 1..Len(c.body) : n > T + 1 => c.body[n].key # "stamp"
      BY <1>1, <1>2, <1>6
    <3>3. QED
      BY <1>2, <2>2, <3>1, <3>2, StampIsAt
  <2>3. QED
    BY <2>1, <2>2
<1>9. Len(Slack!Content(c)) = T /\ Slack!Content(c) \in Seq(Slack!Block)
  <2>1. /\ Slack!Content(c) \in Seq(Slack!Block)
        /\ Len(Slack!Content(c)) =
             IF Slack!StampAt(c) = 0 THEN Len(c.body) ELSE Slack!StampAt(c) - 1
    BY <1>2, ContentCut
  <2>2. CASE L = 0
    BY <1>1, <1>2, <1>8, <2>1, <2>2
  <2>3. CASE L # 0
    <3>1. Slack!StampAt(c) = T + 1 /\ T + 1 # 0 /\ (T + 1) - 1 = T
      BY <1>1, <1>8, <2>3
    <3>2. QED
      BY <2>1, <3>1
  <2>4. QED
    BY <2>2, <2>3
<1>10. DOMAIN Slack!Content(c) = 1..T
  BY <1>9, LenProperties
<1>11. (\A n \in 1..T : Slack!Holds(c, top[n])) /\ (\A n \in 1..L : Slack!Holds(c, low[n]))
  BY <1>3, <1>4, <1>5 DEF Slack!Holds
<1>12. QED
  BY <1>1, <1>2, <1>3, <1>4, <1>5, <1>7, <1>8, <1>9, <1>10, <1>11 DEF T, L, IsComposed

\* What is written has nothing below its content but a stamp and what was below it.
LowOf(c) == IF Slack!StampAt(c) = 0 THEN <<Slack!Stamp>>
            ELSE <<c.body[Slack!StampAt(c)]>> \o Slack!Below(c)

LEMMA LowAre ==
  ASSUME Slack!SlackAssumption, NEW c, c.body \in Seq(Slack!Block)
  PROVE  /\ LowOf(c) \in Seq(Slack!Block) /\ LowOf(c) # <<>>
         /\ \A n \in 1..Len(LowOf(c)) : LowOf(c)[n].key = "stamp" <=> n = 1
         /\ \A n \in DOMAIN c.body :
              n > Len(Slack!Content(c)) => \E m \in 1..Len(LowOf(c)) : LowOf(c)[m] = c.body[n]
         /\ LET rest == SubSeq(c.body, Len(Slack!Content(c)) + 1, Len(c.body))
            IN /\ rest \in Seq(Slack!Block)
               /\ LowOf(c) = IF Slack!StampAt(c) = 0 THEN Append(rest, Slack!Stamp) ELSE rest
               /\ Slack!StampAt(c) = 0 => rest = <<>>
<1> DEFINE p == Slack!StampAt(c)
           L == Len(c.body)
           rest == SubSeq(c.body, Len(Slack!Content(c)) + 1, Len(c.body))
           low == LowOf(c)
<1>1. L \in Nat /\ p \in 0..L /\ (\A n \in 1..L : c.body[n] \in Slack!Block)
      /\ DOMAIN c.body = 1..L
  BY LenProperties, ElementOfSeq, StampPlace
<1>2. CASE p = 0
  <2>1. low = <<Slack!Stamp>>
    BY <1>2 DEF LowOf
  <2>2. low \in Seq(Slack!Block) /\ Len(low) = 1 /\ low[1] = Slack!Stamp /\ low # <<>>
    BY <2>1, BlocksAre
  <2>3. Len(Slack!Content(c)) = L
    BY <1>2, ContentCut
  <2>4. rest = <<>>
    <3> HIDE DEF L
    <3>1. L + 1 \in Int /\ L \in Int /\ L < L + 1
      BY <1>1
    <3>2. QED
      BY <2>3, <3>1, SubSeqEmpty DEF L
  <2>5. Append(<<>>, Slack!Stamp) = <<Slack!Stamp>> /\ <<>> \in Seq(Slack!Block)
    OBVIOUS
  <2>6. \A n \in 1..Len(low) : low[n].key = "stamp" <=> n = 1
    BY <2>2, BlocksAre
  <2>7. \A n \in DOMAIN c.body : ~(n > Len(Slack!Content(c)))
    BY <1>1, <2>3
  <2>8. QED
    <3> HIDE DEF rest, low
    <3>1. rest \in Seq(Slack!Block) /\ low = Append(rest, Slack!Stamp)
      BY <2>1, <2>4, <2>5
    <3>2. QED
      BY <1>2, <2>2, <2>4, <2>6, <2>7, <3>1 DEF rest, low
<1>3. CASE p # 0
  <2> DEFINE below == Slack!Below(c)
             b == c.body[p]
  <2>1. p \in 1..L /\ b \in Slack!Block /\ b.key = "stamp"
        /\ \A n \in 1..L : n > p => c.body[n].key # "stamp"
    BY <1>1, <1>3, StampPlace
  <2>2. low = <<b>> \o below
    BY <1>3 DEF LowOf
  <2>3. /\ below \in Seq(Slack!Block) /\ Len(below) = L - p
        /\ \A n \in 1..(L - p) : below[n] = c.body[p + n]
        /\ Len(Slack!Content(c)) = p - 1
    BY <1>3, ContentCut
  <2> HIDE DEF p, L, below, low
  <2>4. <<b>> \in Seq(Slack!Block) /\ Len(<<b>>) = 1 /\ <<b>>[1] = b
    BY <2>1
  <2>5. /\ low \in Seq(Slack!Block) /\ Len(low) = 1 + (L - p)
        /\ \A i \in 1..(1 + (L - p)) : low[i] = IF i <= 1 THEN <<b>>[i] ELSE below[i - 1]
    BY <2>2, <2>3, <2>4, ConcatProperties
  <2>6. \A i \in 1..(1 + (L - p)) : low[i] = c.body[p + i - 1]
    <3>1. TAKE i \in 1..(1 + (L - p))
    <3>2. CASE i = 1
      <4>1. p + i - 1 = p
        BY <1>1, <3>2, <2>1
      <4>2. QED
        BY <2>4, <2>5, <3>2, <4>1
    <3>3. CASE i # 1
      <4>1. ~(i <= 1) /\ i - 1 \in 1..(L - p) /\ p + (i - 1) = p + i - 1
        BY <1>1, <2>1, <3>3
      <4>2. low[i] = below[i - 1] /\ below[i - 1] = c.body[p + (i - 1)]
        BY <2>3, <2>5, <4>1
      <4>3. QED
        BY <4>1, <4>2
    <3>4. QED
      BY <3>2, <3>3
  <2>7. \A i \in 1..Len(low) : low[i].key = "stamp" <=> i = 1
    <3>1. TAKE i \in 1..Len(low)
    <3>2. low[i] = c.body[p + i - 1] /\ p + i - 1 \in 1..L /\ (i # 1 => p + i - 1 > p)
          /\ (i = 1 => p + i - 1 = p)
      BY <1>1, <2>1, <2>5, <2>6
    <3>3. QED
      BY <2>1, <3>2
  <2>8. \A n \in DOMAIN c.body : n > p - 1 => \E m \in 1..Len(low) : low[m] = c.body[n]
    <3>1. SUFFICES ASSUME NEW n \in 1..L, n > p - 1
                   PROVE  \E m \in 1..Len(low) : low[m] = c.body[n]
      BY <1>1
    <3>2. n - p + 1 \in 1..(1 + (L - p)) /\ p + (n - p + 1) - 1 = n
      BY <1>1, <2>1, <3>1
    <3>3. QED
      BY <2>5, <2>6, <3>2
  <2>9. rest \in Seq(Slack!Block) /\ rest = low
    <3>1. rest = SubSeq(c.body, p, L)
      <4>1. (p - 1) + 1 = p
        BY <2>1, <1>1
      <4>2. QED
        BY <2>3, <4>1 DEF L
    <3>2. p \in Int /\ L \in Int /\ \A i \in p..L : c.body[i] \in Slack!Block
      BY <1>1, <2>1
    <3>3. /\ rest \in Seq(Slack!Block)
          /\ Len(rest) = IF p <= L THEN L - p + 1 ELSE 0
          /\ \A i \in 1..(L - p + 1) : rest[i] = c.body[p + i - 1]
      BY <3>1, <3>2, SubSeqProperties
    <3>4. Len(rest) = Len(low) /\ 1 + (L - p) = L - p + 1
      BY <1>1, <2>1, <2>5, <3>3
    <3>5. \A i \in 1..Len(rest) : rest[i] = low[i]
      BY <2>5, <2>6, <3>3, <3>4
    <3> HIDE DEF rest
    <3>6. QED
      BY <2>5, <3>3, <3>4, <3>5, SeqEqual
  <2>10. low # <<>>
    <3>1. 1 + (L - p) # 0
      BY <1>1, <2>1
    <3>2. QED
      BY <2>5, <3>1, EmptySeq
  <2>11. QED
    BY <1>3, <2>3, <2>5, <2>7, <2>8, <2>9, <2>10 DEF p, low
<1>4. QED
  BY <1>2, <1>3

\* A stamp is on no canvas above the stamp.
LEMMA ContentIsUnstamped ==
  ASSUME NEW c, c.body \in Seq(Slack!Block), StampIsSingle(c)
  PROVE  \A n \in 1..Len(Slack!Content(c)) :
           /\ n \in DOMAIN c.body /\ c.body[n] \in Slack!Block
           /\ Slack!Content(c)[n] = c.body[n] /\ c.body[n].key # "stamp"
<1> DEFINE p == Slack!StampAt(c)
           L == Len(c.body)
<1>1. L \in Nat /\ p \in 0..L /\ DOMAIN c.body = 1..L
      /\ \A n \in 1..L : c.body[n] \in Slack!Block
  BY LenProperties, ElementOfSeq, StampPlace
<1>2. Len(Slack!Content(c)) = (IF p = 0 THEN L ELSE p - 1)
      /\ \A n \in 1..Len(Slack!Content(c)) : Slack!Content(c)[n] = c.body[n]
  BY ContentCut
<1>3. TAKE n \in 1..Len(Slack!Content(c))
<1>4. n \in 1..L /\ (p # 0 => n # p /\ p \in 1..L)
  <2> HIDE DEF L, p
  <2>1. QED
    BY <1>1, <1>2
<1>5. c.body[n].key # "stamp"
  <2>1. CASE p = 0
    BY <1>4, <2>1, StampPlace
  <2>2. CASE p # 0
    <3>1. c.body[p].key = "stamp"
      BY <2>2, StampPlace
    <3>2. QED
      BY <1>1, <1>4, <2>2, <3>1 DEF StampIsSingle
  <2>3. QED
    BY <2>1, <2>2
<1>6. QED
  BY <1>1, <1>2, <1>4, <1>5

\* A sequence put into another holds what both hold.
HoldsBoth(u, s, t) ==
  /\ \A n \in 1..Len(u) : \/ \E m \in 1..Len(s) : u[n] = s[m]
                          \/ \E m \in 1..Len(t) : u[n] = t[m]
  /\ \A m \in 1..Len(s) : \E n \in 1..Len(u) : u[n] = s[m]
  /\ \A m \in 1..Len(t) : \E n \in 1..Len(u) : u[n] = t[m]

LEMMA Inserted ==
  ASSUME NEW S, NEW s \in Seq(S), NEW t \in Seq(S), NEW at \in 0..Len(s),
         NEW u, u = SubSeq(s, 1, at) \o t \o SubSeq(s, at + 1, Len(s))
  PROVE  u \in Seq(S) /\ HoldsBoth(u, s, t)
<1> DEFINE a == SubSeq(s, 1, at)
           b == SubSeq(s, at + 1, Len(s))
           L == Len(s)
           M == Len(t)
<1>1. L \in Nat /\ M \in Nat /\ (\A i \in 1..L : s[i] \in S)
  BY LenProperties, ElementOfSeq
<1>2. at \in 0..L /\ a = SubSeq(s, 1, at) /\ b = SubSeq(s, at + 1, L) /\ u = (a \o t) \o b
  OBVIOUS
<1> HIDE DEF a, b, L
<1>3. a \in Seq(S) /\ Len(a) = at /\ \A i \in 1..at : a[i] = s[i]
  <2>1. 1 \in Int /\ at \in Int /\ \A i \in 1..at : s[i] \in S
    BY <1>1, <1>2
  <2>2. /\ a \in Seq(S) /\ Len(a) = IF 1 <= at THEN at - 1 + 1 ELSE 0
        /\ \A i \in 1..(at - 1 + 1) : a[i] = s[1 + i - 1]
    BY <1>2, <2>1, SubSeqProperties
  <2>3. \A i \in 1..at : i \in 1..(at - 1 + 1) /\ 1 + i - 1 = i
    BY <2>1
  <2>4. QED
    BY <1>1, <1>2, <2>2, <2>3
<1>4. b \in Seq(S) /\ Len(b) = L - at /\ \A i \in 1..(L - at) : b[i] = s[at + i]
  <2>1. at + 1 \in Int /\ L \in Int /\ \A i \in (at + 1)..L : s[i] \in S
    BY <1>1, <1>2
  <2>2. /\ b \in Seq(S) /\ Len(b) = IF at + 1 <= L THEN L - (at + 1) + 1 ELSE 0
        /\ \A i \in 1..(L - (at + 1) + 1) : b[i] = s[(at + 1) + i - 1]
    BY <1>2, <2>1, SubSeqProperties
  <2>3. \A i \in 1..(L - at) : i \in 1..(L - (at + 1) + 1) /\ (at + 1) + i - 1 = at + i
    BY <1>1, <1>2
  <2>4. QED
    BY <1>1, <1>2, <2>2, <2>3
<1>5. /\ a \o t \in Seq(S) /\ Len(a \o t) = at + M
      /\ \A i \in 1..(at + M) : (a \o t)[i] = IF i <= at THEN a[i] ELSE t[i - at]
  BY <1>3, ConcatProperties
<1>6. /\ u \in Seq(S) /\ Len(u) = (at + M) + (L - at)
      /\ \A i \in 1..((at + M) + (L - at)) :
           u[i] = IF i <= at + M THEN (a \o t)[i] ELSE b[i - (at + M)]
  <2> DEFINE v == a \o t
  <2>1. v \in Seq(S) /\ Len(v) = at + M /\ u = v \o b
    BY <1>2, <1>5
  <2> HIDE DEF v
  <2>2. /\ v \o b \in Seq(S) /\ Len(v \o b) = Len(v) + Len(b)
        /\ \A i \in 1..(Len(v) + Len(b)) :
             (v \o b)[i] = IF i <= Len(v) THEN v[i] ELSE b[i - Len(v)]
    BY <1>4, <2>1, ConcatProperties
  <2>3. QED
    BY <1>4, <2>1, <2>2 DEF v
<1> HIDE DEF M
<1>7. \A i \in 1..at : i \in 1..Len(u) /\ i \in 1..L /\ u[i] = s[i]
  <2>1. TAKE i \in 1..at
  <2>2. i \in 1..((at + M) + (L - at)) /\ i <= at + M /\ i \in 1..(at + M) /\ i <= at /\ i \in 1..L
    BY <1>1, <1>2
  <2>3. QED
    BY <1>3, <1>5, <1>6, <2>2
<1>8. \A i \in 1..M : at + i \in 1..Len(u) /\ u[at + i] = t[i]
  <2>1. TAKE i \in 1..M
  <2>2. /\ at + i \in 1..((at + M) + (L - at)) /\ at + i <= at + M /\ at + i \in 1..(at + M)
        /\ ~(at + i <= at) /\ (at + i) - at = i
    BY <1>1, <1>2
  <2>3. QED
    BY <1>5, <1>6, <2>2
<1>9. \A i \in 1..(L - at) : (at + M) + i \in 1..Len(u) /\ u[(at + M) + i] = s[at + i] /\ at + i \in 1..L
  <2>1. TAKE i \in 1..(L - at)
  <2>2. /\ (at + M) + i \in 1..((at + M) + (L - at)) /\ ~((at + M) + i <= at + M)
        /\ ((at + M) + i) - (at + M) = i /\ at + i \in 1..L
    BY <1>1, <1>2
  <2>3. QED
    BY <1>4, <1>6, <2>2
<1>10. \A n \in 1..Len(u) : \/ n \in 1..at
                            \/ \E i \in 1..M : n = at + i
                            \/ \E i \in 1..(L - at) : n = (at + M) + i
  <2>1. TAKE n \in 1..Len(u)
  <2>0. n \in 1..((at + M) + (L - at))
    BY <1>6
  <2>2. \/ n \in 1..at
        \/ n - at \in 1..M /\ n = at + (n - at)
        \/ n - (at + M) \in 1..(L - at) /\ n = (at + M) + (n - (at + M))
    BY <1>1, <1>2, <2>0
  <2>3. QED
    BY <2>2
<1>11. \A m \in 1..L : m \in 1..at \/ \E i \in 1..(L - at) : m = at + i
  <2>1. TAKE m \in 1..L
  <2>2. m \in 1..at \/ (m - at \in 1..(L - at) /\ m = at + (m - at))
    BY <1>1, <1>2
  <2>3. QED
    BY <2>2
<1>12. \A m \in 1..L : \E n \in 1..Len(u) : u[n] = s[m]
  BY <1>7, <1>9, <1>11
<1>13. \A m \in 1..M : \E n \in 1..Len(u) : u[n] = t[m]
  BY <1>8
<1>14. \A n \in 1..Len(u) : (\E m \in 1..L : u[n] = s[m]) \/ (\E m \in 1..M : u[n] = t[m])
  BY <1>7, <1>8, <1>9, <1>10
<1>15. QED
  BY <1>6, <1>12, <1>13, <1>14 DEF L, M, HoldsBoth

\* What an operation is asked for.
LEMMA WantedAre ==
  ASSUME Slack!SlackAssumption, CanvasTypes
  PROVE  /\ op \in Slack!AllOps
         /\ DOMAIN wanted \subseteq Slack!Keys
         /\ \A k \in DOMAIN wanted : wanted[k] \in {"new", None}
         /\ op \in {"create", "into"} => /\ DOMAIN wanted = Slack!Keys
                                         /\ \A k \in Slack!Keys : wanted[k] = "new"
         /\ op \in {"fields", "links", "archive", "release"} => DOMAIN wanted = {}
<1>1. op \in Slack!AllOps /\ wanted \in Slack!Asked(op)
  BY DEF CanvasTypes, Slack!TypeOK, Slack!SlackAssumption
<1>2. CASE op = "section"
  <2>1. wanted \in UNION {[{key} -> {"new", None}] : key \in Slack!Keys}
    BY <1>1, <1>2 DEF Slack!Asked
  <2>2. PICK key \in Slack!Keys : wanted \in [{key} -> {"new", None}]
    BY <2>1
  <2>3. QED
    BY <1>1, <1>2, <2>2
<1>3. CASE op = "content"
  <2>1. wanted \in [Slack!Keys -> {"new", None}]
    BY <1>1, <1>3 DEF Slack!Asked
  <2>2. QED
    BY <1>1, <1>3, <2>1
<1>4. CASE op \in {"create", "into"}
  <2>1. wanted = [k \in Slack!Keys |-> "new"]
    BY <1>1, <1>4 DEF Slack!Asked
  <2>2. QED
    BY <1>1, <1>4, <2>1
<1>5. CASE op \in {"fields", "links", "archive", "release"}
  <2>1. wanted = <<>>
    BY <1>1, <1>5 DEF Slack!Asked
  <2>2. DOMAIN wanted = {}
    BY <2>1
  <2>3. QED
    BY <1>1, <1>5, <2>2
<1>6. QED
  BY <1>1, <1>2, <1>3, <1>4, <1>5 DEF Slack!AllOps

\* The body that write_section and write_content send.
LEMMA SwappedBody ==
  ASSUME Slack!SlackAssumption, CanvasTypes, StampIsSingle(seen),
         op \in {"section", "content"}, NEW c, c.body = Slack!Stamped(Slack!Swapped)
  PROVE  /\ c.body \in Seq(Slack!Block) /\ StampIsSingle(c) /\ Slack!StampAt(c) # 0
         /\ WantedIsOn(c)
         /\ \A n \in DOMAIN seen.body :
              \/ Slack!Holds(c, seen.body[n])
              \/ /\ n <= Len(Slack!Content(seen))
                 /\ op = "section" => seen.body[n].key \in DOMAIN wanted
<1> DEFINE C == Slack!Content(seen)
           B == {b \in Slack!Block : b.key \notin DOMAIN wanted}
           N == {Slack!At(k, "new") : k \in {j \in DOMAIN wanted : wanted[j] # None}}
           above == Slack!Among(C, B)
           texts == Slack!Among(Slack!Texts("new"), N)
           rest == SubSeq(seen.body, Len(C) + 1, Len(seen.body))
           low == LowOf(seen)
           before == {Sections[n] : n \in {m \in DOMAIN Sections :
                        \A j \in DOMAIN Sections : Sections[j] \in DOMAIN wanted => m < j}}
           at == Slack!SelectLastInSeq(above, LAMBDA b : b.key \in before)
           mixed == SubSeq(above, 1, at) \o texts \o SubSeq(above, at + 1, Len(above))
           top == IF op = "content" THEN texts ELSE mixed
<1>1. seen.body \in Seq(Slack!Block)
  BY DEF CanvasTypes, Slack!TypeOK, Slack!Canvas
<1>2. /\ C \in Seq(Slack!Block) /\ Len(C) \in Nat
      /\ \A n \in 1..Len(C) : /\ n \in DOMAIN seen.body /\ seen.body[n] \in Slack!Block
                              /\ C[n] = seen.body[n] /\ C[n].key # "stamp"
  BY <1>1, ContentCut, ContentIsUnstamped, LenProperties
<1>3. /\ low \in Seq(Slack!Block) /\ low # <<>>
      /\ \A n \in 1..Len(low) : low[n].key = "stamp" <=> n = 1
      /\ \A n \in DOMAIN seen.body : n > Len(C) => \E m \in 1..Len(low) : low[m] = seen.body[n]
      /\ rest \in Seq(Slack!Block)
      /\ low = IF Slack!StampAt(seen) = 0 THEN Append(rest, Slack!Stamp) ELSE rest
      /\ Slack!StampAt(seen) = 0 => rest = <<>>
  BY <1>1, LowAre
<1>4. /\ Slack!Texts("new") \in Seq(Slack!Block) /\ Len(Slack!Texts("new")) = Len(Sections)
      /\ \A n \in 1..Len(Sections) : /\ Slack!Texts("new")[n] = Slack!At(Sections[n], "new")
                                     /\ Slack!Texts("new")[n].key # "stamp"
      /\ \A k \in Slack!Keys :
           \E n \in 1..Len(Sections) : Slack!Texts("new")[n] = Slack!At(k, "new")
  BY TextsAre
<1>5. Slack!Swapped = top \o rest
  BY DEF Slack!Swapped
<1>6. /\ above \in Seq(Slack!Block)
      /\ \A p \in 1..Len(above) : \E n \in 1..Len(C) : C[n] \in B /\ above[p] = C[n]
      /\ \A n \in 1..Len(C) : C[n] \in B => \E p \in 1..Len(above) : above[p] = C[n]
  <2>1. above \in Seq(Slack!Block) /\ PickedFrom(above, C, B)
    BY <1>2, AmongThem
  <2> HIDE DEF C, B, above
  <2>2. QED
    BY <2>1 DEF PickedFrom
<1>7. /\ texts \in Seq(Slack!Block)
      /\ \A p \in 1..Len(texts) :
           \E n \in 1..Len(Sections) : /\ Slack!Texts("new")[n] \in N
                                       /\ texts[p] = Slack!Texts("new")[n]
      /\ \A n \in 1..Len(Sections) :
           Slack!Texts("new")[n] \in N => \E p \in 1..Len(texts) : texts[p] = Slack!Texts("new")[n]
  <2>1. texts \in Seq(Slack!Block) /\ PickedFrom(texts, Slack!Texts("new"), N)
    BY <1>4, AmongThem
  <2> HIDE DEF N, texts
  <2>2. QED
    BY <1>4, <2>1 DEF PickedFrom
<1> HIDE DEF C, B, N, texts, rest, low, before
<1>8. at \in 0..Len(above)
  <2> DEFINE I == {i \in 1..Len(above) : above[i].key \in before}
  <2>1. at = IF I # {} THEN Slack!Max(I) ELSE 0
    BY DEF Slack!SelectLastInSeq
  <2>2. I \in SUBSET (1..Len(above)) /\ Len(above) \in Nat
    BY <1>6, LenProperties
  <2> HIDE DEF I, above
  <2>3. I # {} => Slack!Max(I) \in I
    BY <2>2, Greatest
  <2> HIDE DEF at
  <2>4. CASE I = {}
    BY <2>1, <2>2, <2>4
  <2>5. CASE I # {}
    <3>1. at \in I
      BY <2>1, <2>3, <2>5
    <3>2. QED
      BY <2>2, <3>1
  <2>6. QED
    BY <2>4, <2>5
<1> HIDE DEF above, at
<1>9. mixed \in Seq(Slack!Block) /\ HoldsBoth(mixed, above, texts)
  BY <1>6, <1>7, <1>8, Inserted
<1> HIDE DEF mixed
<1>10. /\ top \in Seq(Slack!Block)
       /\ \A n \in 1..Len(top) : \/ \E m \in 1..Len(above) : top[n] = above[m]
                                 \/ \E m \in 1..Len(texts) : top[n] = texts[m]
       /\ op = "section" => \A m \in 1..Len(above) : \E n \in 1..Len(top) : top[n] = above[m]
       /\ \A m \in 1..Len(texts) : \E n \in 1..Len(top) : top[n] = texts[m]
  BY <1>7, <1>9 DEF HoldsBoth
<1> HIDE DEF top
<1>11. c.body = top \o low
  <2>1. CASE Slack!StampAt(seen) = 0
    <3>1. rest = <<>> /\ top \o <<>> = top
      BY <1>3, <1>10, <2>1, ConcatEmptySeq
    <3>2. c.body = Append(top, Slack!Stamp)
      BY <1>5, <2>1, <3>1 DEF Slack!Stamped
    <3>3. low = <<Slack!Stamp>>
      BY <1>3, <2>1, <3>1
    <3>4. Append(top, Slack!Stamp) = top \o <<Slack!Stamp>>
      BY <1>10, BlocksAre, AppendIsConcat
    <3>5. QED
      BY <3>2, <3>3, <3>4
  <2>2. CASE Slack!StampAt(seen) # 0
    BY <1>3, <1>5, <2>2 DEF Slack!Stamped
  <2>3. QED
    BY <2>1, <2>2
<1>12. \A k : Slack!At(k, "new").key = k /\ Slack!At(k, "new").text = "new"
  BY DEF Slack!At
<1>13. \A b \in N : \E k \in DOMAIN wanted :
         wanted[k] = "new" /\ b.key = k /\ b.text = "new" /\ b = Slack!At(k, "new")
  BY <1>12, WantedAre DEF N
<1>14. \A n \in 1..Len(top) : (top[n] \in B \/ top[n] \in N) /\ top[n].key # "stamp"
  <2>1. \A p \in 1..Len(above) : above[p] \in B /\ above[p].key # "stamp"
    BY <1>2, <1>6
  <2>2. \A p \in 1..Len(texts) : texts[p] \in N /\ texts[p].key # "stamp"
    BY <1>4, <1>7
  <2>3. TAKE n \in 1..Len(top)
  <2>4. (\E m \in 1..Len(above) : top[n] = above[m]) \/ (\E m \in 1..Len(texts) : top[n] = texts[m])
    BY <1>10
  <2>5. QED
    BY <2>1, <2>2, <2>4
<1>15. IsComposed(c, top, low)
  <2>1. \A n \in 1..Len(top) : top[n].key # "stamp"
    BY <1>14
  <2>2. \A n \in 1..Len(low) : low[n].key = "stamp" <=> n = 1
    BY <1>3
  <2>3. QED
    BY <1>3, <1>10, <1>11, <2>1, <2>2, Composed
<1>16. /\ c.body \in Seq(Slack!Block) /\ StampIsSingle(c)
       /\ Slack!StampAt(c) = 0 <=> low = <<>>
       /\ DOMAIN Slack!Content(c) = 1..Len(top)
       /\ \A n \in 1..Len(top) : c.body[n] = top[n] /\ Slack!Holds(c, top[n])
       /\ \A n \in 1..Len(low) : Slack!Holds(c, low[n])
  BY <1>15 DEF IsComposed
<1>17. WantedIsOn(c)
  <2>1. SUFFICES ASSUME NEW k \in DOMAIN wanted
                 PROVE  /\ \A n \in 1..Len(top) : top[n].key = k => top[n].text = wanted[k]
                        /\ wanted[k] # None => Slack!Holds(c, Slack!At(k, wanted[k]))
    BY <1>16 DEF WantedIsOn
  <2>2. \A n \in 1..Len(top) : top[n].key = k => top[n].text = wanted[k]
    <3>1. SUFFICES ASSUME NEW n \in 1..Len(top), top[n].key = k
                   PROVE  top[n].text = wanted[k]
      OBVIOUS
    <3>2. top[n] \notin B
      BY <3>1 DEF B
    <3>3. top[n] \in N
      BY <1>14, <3>2
    <3>4. QED
      BY <1>13, <3>1, <3>3
  <2>3. ASSUME wanted[k] # None
        PROVE  Slack!Holds(c, Slack!At(k, wanted[k]))
    <3>1. k \in Slack!Keys /\ wanted[k] = "new" /\ Slack!At(k, "new") \in N
      BY <2>3, WantedAre DEF N
    <3>2. PICK n \in 1..Len(Sections) : Slack!Texts("new")[n] = Slack!At(k, "new")
      BY <1>4, <3>1
    <3>3. PICK p \in 1..Len(texts) : texts[p] = Slack!At(k, "new")
      BY <1>7, <3>1, <3>2
    <3>4. PICK m \in 1..Len(top) : top[m] = Slack!At(k, "new")
      BY <1>10, <3>3
    <3>5. QED
      BY <1>16, <3>1, <3>4
  <2>4. QED
    BY <2>2, <2>3
<1>18. ASSUME NEW n \in DOMAIN seen.body
       PROVE  \/ Slack!Holds(c, seen.body[n])
              \/ /\ n <= Len(C)
                 /\ op = "section" => seen.body[n].key \in DOMAIN wanted
  <2>1. CASE n > Len(C)
    BY <1>3, <1>16, <2>1
  <2>2. CASE ~(n > Len(C))
    <3>1. n \in 1..Len(C) /\ n <= Len(C)
      BY <1>1, <1>2, <2>2, LenProperties
    <3>2. CASE op = "section" /\ seen.body[n].key \notin DOMAIN wanted
      <4>1. C[n] \in B /\ C[n] = seen.body[n]
        BY <1>2, <3>1, <3>2 DEF B
      <4>2. QED
        BY <1>6, <1>10, <1>16, <3>1, <3>2, <4>1
    <3>3. QED
      BY <3>1, <3>2
  <2>3. QED
    BY <2>1, <2>2
<1>19. QED
  BY <1>3, <1>16, <1>17, <1>18 DEF C

\* The body that create_item sends.
LEMMA WholeBody ==
  ASSUME Slack!SlackAssumption, CanvasTypes, op \in {"create", "into"},
         NEW c, c.body = Append(Slack!Texts("new"), Slack!Stamp)
  PROVE  /\ c.body \in Seq(Slack!Block) /\ StampIsSingle(c) /\ Slack!StampAt(c) # 0
         /\ WantedIsOn(c)
<1> DEFINE top == Slack!Texts("new")
           low == <<Slack!Stamp>>
<1>1. /\ top \in Seq(Slack!Block) /\ Len(top) = Len(Sections)
      /\ \A n \in 1..Len(Sections) : top[n] = Slack!At(Sections[n], "new") /\ top[n].key # "stamp"
      /\ \A k \in Slack!Keys : \E n \in 1..Len(Sections) : top[n] = Slack!At(k, "new")
  BY TextsAre
<1>2. low \in Seq(Slack!Block) /\ Len(low) = 1 /\ low[1] = Slack!Stamp /\ low # <<>>
  BY BlocksAre
<1>3. c.body = top \o low
  BY <1>1, BlocksAre, AppendIsConcat
<1> HIDE DEF top, low
<1>4. IsComposed(c, top, low)
  <2>1. \A n \in 1..Len(top) : top[n].key # "stamp"
    BY <1>1
  <2>2. \A n \in 1..Len(low) : low[n].key = "stamp" <=> n = 1
    BY <1>2, BlocksAre
  <2>3. QED
    BY <1>1, <1>2, <1>3, <2>1, <2>2, Composed
<1>5. /\ c.body \in Seq(Slack!Block) /\ StampIsSingle(c) /\ Slack!StampAt(c) # 0
      /\ DOMAIN Slack!Content(c) = 1..Len(top)
      /\ \A n \in 1..Len(top) : c.body[n] = top[n] /\ Slack!Holds(c, top[n])
  BY <1>2, <1>4 DEF IsComposed
<1>6. WantedIsOn(c)
  <2>1. SUFFICES ASSUME NEW k \in DOMAIN wanted
                 PROVE  /\ \A n \in 1..Len(top) : top[n].text = wanted[k]
                        /\ Slack!Holds(c, Slack!At(k, wanted[k]))
    BY <1>5 DEF WantedIsOn
  <2>2. k \in Slack!Keys /\ wanted[k] = "new"
    BY WantedAre
  <2>3. \A key : Slack!At(key, "new").text = "new"
    BY DEF Slack!At
  <2>4. PICK n \in 1..Len(top) : top[n] = Slack!At(k, "new")
    BY <1>1, <2>2
  <2>5. QED
    BY <1>1, <1>5, <2>2, <2>3, <2>4
<1>7. QED
  BY <1>5, <1>6

\* A body without a stamp.
LEMMA UnstampedBody ==
  ASSUME NEW c, c.body \in Seq(Slack!Block),
         \A n \in 1..Len(c.body) : c.body[n].key # "stamp"
  PROVE  StampIsSingle(c) /\ Slack!StampAt(c) = 0 /\ Slack!Content(c) = c.body
<1>1. DOMAIN c.body = 1..Len(c.body)
  BY LenProperties
<1>2. StampIsSingle(c)
  BY <1>1 DEF StampIsSingle
<1>3. QED
  BY <1>2, NoStamp

\* A body that is given a stamp at its end.
LEMMA StampAtTheEnd ==
  ASSUME Slack!SlackAssumption, NEW body \in Seq(Slack!Block),
         \A n \in 1..Len(body) : body[n].key # "stamp",
         NEW line \in Slack!Block, line.key = "stamp", NEW c, c.body = Append(body, line)
  PROVE  /\ c.body \in Seq(Slack!Block) /\ StampIsSingle(c) /\ Slack!StampAt(c) # 0
         /\ \A n \in DOMAIN body : Slack!Holds(c, body[n])
<1> DEFINE low == <<line>>
<1>1. low \in Seq(Slack!Block) /\ Len(low) = 1 /\ low[1] = line /\ low # <<>>
  OBVIOUS
<1>2. c.body = body \o low
  BY AppendIsConcat
<1> HIDE DEF low
<1>3. IsComposed(c, body, low)
  <2>1. \A n \in 1..Len(low) : low[n].key = "stamp" <=> n = 1
    BY <1>1
  <2>2. QED
    BY <1>1, <1>2, <2>1, Composed
<1>4. DOMAIN body = 1..Len(body)
  BY LenProperties
<1>5. QED
  BY <1>1, <1>3, <1>4 DEF IsComposed

\* The body that write_fields sends when the stamp is lost.
LEMMA StampedBody ==
  ASSUME Slack!SlackAssumption, seen.body \in Seq(Slack!Block), StampIsSingle(seen),
         NEW c, c.body = Slack!Stamped(seen.body)
  PROVE  /\ c.body \in Seq(Slack!Block) /\ StampIsSingle(c) /\ Slack!StampAt(c) # 0
         /\ \A n \in DOMAIN seen.body : Slack!Holds(c, seen.body[n])
<1>1. CASE Slack!StampAt(seen) = 0
  <2>1. c.body = Append(seen.body, Slack!Stamp)
    BY <1>1 DEF Slack!Stamped
  <2>2. \A n \in 1..Len(seen.body) : seen.body[n].key # "stamp"
    BY <1>1, StampPlace
  <2>3. QED
    BY <2>1, <2>2, BlocksAre, StampAtTheEnd
<1>2. CASE Slack!StampAt(seen) # 0
  <2>1. c.body = seen.body
    BY <1>2 DEF Slack!Stamped
  <2>2. \A n \in DOMAIN seen.body : Slack!Holds(seen, seen.body[n])
    BY DEF Slack!Holds
  <2>3. QED
    BY <1>2, <2>1, <2>2, SameBody
<1>3. QED
  BY <1>1, <1>2

\* The body that write_links sends: the stamp's line is another.
LEMMA LinkedBody ==
  ASSUME Slack!SlackAssumption, seen.body \in Seq(Slack!Block), StampIsSingle(seen), NEW c,
         c.body = IF Slack!StampAt(seen) = 0
                  THEN Append(seen.body, Slack!At("stamp", "linked"))
                  ELSE [seen.body EXCEPT ![Slack!StampAt(seen)] = Slack!At("stamp", "linked")]
  PROVE  /\ c.body \in Seq(Slack!Block) /\ StampIsSingle(c) /\ Slack!StampAt(c) # 0
         /\ \A n \in DOMAIN seen.body :
              seen.body[n].text = "hand" => Slack!Holds(c, seen.body[n])
<1> DEFINE line == Slack!At("stamp", "linked")
           p == Slack!StampAt(seen)
           L == Len(seen.body)
<1>1. line \in Slack!Block /\ line.key = "stamp"
  BY BlocksAre
<1>2. /\ L \in Nat /\ p \in 0..L /\ DOMAIN seen.body = 1..L
      /\ \A n \in 1..L : seen.body[n] \in Slack!Block
  BY LenProperties, ElementOfSeq, StampPlace
<1>3. CASE p = 0
  <2>1. c.body = Append(seen.body, line)
    BY <1>3
  <2>2. \A n \in 1..Len(seen.body) : seen.body[n].key # "stamp"
    BY <1>3, StampPlace
  <2> HIDE DEF line
  <2>3. QED
    BY <1>1, <2>1, <2>2, StampAtTheEnd
<1>4. CASE p # 0
  <2>1. c.body = [seen.body EXCEPT ![p] = line]
    BY <1>4
  <2>2. p \in 1..L /\ seen.body[p].key = "stamp"
    BY <1>2, <1>4, StampPlace
  <2> HIDE DEF line, p, L
  <2>3. /\ c.body \in Seq(Slack!Block) /\ Len(c.body) = L
        /\ \A n \in 1..L : c.body[n] = IF n = p THEN line ELSE seen.body[n]
    <3> DEFINE s == seen.body
    <3>1. s \in Seq(Slack!Block) /\ p \in 1..Len(s) /\ c.body = [s EXCEPT ![p] = line]
      BY <2>1, <2>2 DEF L
    <3> HIDE DEF s
    <3>2. /\ [s EXCEPT ![p] = line] \in Seq(Slack!Block)
          /\ Len([s EXCEPT ![p] = line]) = Len(s)
          /\ \A n \in 1..Len(s) : [s EXCEPT ![p] = line][n] = IF n = p THEN line ELSE s[n]
      BY <1>1, <3>1, ExceptSeq
    <3>3. QED
      BY <3>1, <3>2 DEF s, L
  <2>4. DOMAIN c.body = 1..L
    BY <2>3, LenProperties
  <2>5. \A n \in 1..L : c.body[n].key = "stamp" <=> n = p
    <3>1. \A n \in 1..L : n # p => seen.body[n].key # "stamp"
      BY <1>2, <2>2 DEF StampIsSingle
    <3>2. QED
      BY <1>1, <2>3, <3>1
  <2>6. StampIsSingle(c)
    <3>1. SUFFICES ASSUME NEW m \in 1..L, NEW n \in 1..L,
                          c.body[m].key = "stamp", c.body[n].key = "stamp"
                   PROVE  m = n
      BY <2>4 DEF StampIsSingle
    <3>2. QED
      BY <2>5, <3>1
  <2>7. Slack!StampAt(c) # 0
    BY <2>2, <2>3, <2>5, StampPlace
  <2>8. ASSUME NEW n \in DOMAIN seen.body, seen.body[n].text = "hand"
        PROVE  Slack!Holds(c, seen.body[n])
    <3>1. n \in 1..L /\ n # p
      BY <1>2, <2>2, <2>8, BlocksAre
    <3>2. QED
      BY <2>3, <2>4, <3>1 DEF Slack!Holds
  <2>9. QED
    BY <2>3, <2>6, <2>7, <2>8
<1>5. QED
  BY <1>3, <1>4

\* The body of an archived canvas.
LEMMA ArchivedBodyIs ==
  ASSUME Slack!SlackAssumption, seen.body \in Seq(Slack!Block), StampIsSingle(seen),
         NEW c, c.body = Slack!ArchivedBody
  PROVE  /\ c.body \in Seq(Slack!Block) /\ StampIsSingle(c) /\ SaysSo(c)
         /\ \A n \in DOMAIN seen.body : seen.body[n].text = "hand" =>
              \/ Slack!Holds(c, seen.body[n])
              \/ n <= Len(Slack!Content(seen)) /\ ~Slack!OpensWithTheLine(seen)
<1> DEFINE C == Slack!Content(seen)
           below == Slack!Below(seen)
           p == Slack!StampAt(seen)
           L == Len(seen.body)
           top == IF Slack!OpensWithTheLine(seen) THEN C ELSE <<Slack!ArchivedLine>>
<1>1. /\ L \in Nat /\ p \in 0..L /\ DOMAIN seen.body = 1..L
      /\ \A n \in 1..L : seen.body[n] \in Slack!Block
  BY LenProperties, ElementOfSeq, StampPlace
<1>2. /\ C \in Seq(Slack!Block) /\ Len(C) \in Nat
      /\ \A n \in 1..Len(C) : C[n] = seen.body[n] /\ C[n].key # "stamp"
      /\ below \in Seq(Slack!Block) /\ Len(below) \in Nat
      /\ Len(C) = IF p = 0 THEN L ELSE p - 1
      /\ Len(below) = IF p = 0 THEN 0 ELSE L - p
      /\ \A n \in 1..Len(below) : below[n] = seen.body[p + n]
  BY ContentCut, ContentIsUnstamped, LenProperties
<1>3. p # 0 => /\ seen.body[p].key = "stamp"
               /\ \A n \in 1..L : n > p => seen.body[n].key # "stamp"
  BY StampPlace
<1>4. c.body = top \o below
  BY DEF Slack!ArchivedBody
<1> HIDE DEF L, p, below
<1>5. \A n \in 1..Len(below) : below[n].key # "stamp"
  <2>1. TAKE n \in 1..Len(below)
  <2>2. p # 0 /\ p + n \in 1..L /\ p + n > p
    BY <1>1, <1>2
  <2>3. QED
    BY <1>2, <1>3, <2>2
<1>6. /\ top \in Seq(Slack!Block) /\ Len(top) \in Nat \ {0} /\ top[1].key = "archived"
      /\ \A n \in 1..Len(top) : top[n].key # "stamp"
  <2>1. CASE Slack!OpensWithTheLine(seen)
    <3>1. C # <<>> /\ C[1].key = "archived" /\ top = C
      BY <2>1 DEF Slack!OpensWithTheLine
    <3> HIDE DEF C, top
    <3>2. Len(C) \in Nat \ {0}
      BY <1>2, <3>1, EmptySeq
    <3>3. QED
      BY <1>2, <3>1, <3>2
  <2>2. CASE ~Slack!OpensWithTheLine(seen)
    <3>1. top = <<Slack!ArchivedLine>>
      BY <2>2
    <3> HIDE DEF top
    <3>2. top \in Seq(Slack!Block) /\ Len(top) = 1 /\ top[1] = Slack!ArchivedLine
      BY <3>1, BlocksAre
    <3>3. QED
      BY <3>2, BlocksAre
  <2>3. QED
    BY <2>1, <2>2
<1>7. Slack!OpensWithTheLine(seen) => top = C
  OBVIOUS
<1> HIDE DEF C, top
<1>8. /\ c.body \in Seq(Slack!Block) /\ Len(c.body) = Len(top) + Len(below)
      /\ \A i \in 1..(Len(top) + Len(below)) :
           c.body[i] = IF i <= Len(top) THEN top[i] ELSE below[i - Len(top)]
  <2>1. top \in Seq(Slack!Block) /\ below \in Seq(Slack!Block)
    BY <1>2, <1>6
  <2>2. /\ top \o below \in Seq(Slack!Block) /\ Len(top \o below) = Len(top) + Len(below)
        /\ \A i \in 1..(Len(top) + Len(below)) :
             (top \o below)[i] = IF i <= Len(top) THEN top[i] ELSE below[i - Len(top)]
    BY <2>1, ConcatProperties
  <2>3. QED
    BY <1>4, <2>2
<1>9. \A i \in 1..Len(top) : i \in 1..Len(c.body) /\ c.body[i] = top[i]
  BY <1>2, <1>6, <1>8
<1>10. \A i \in 1..Len(below) : Len(top) + i \in 1..Len(c.body) /\ c.body[Len(top) + i] = below[i]
  <2>1. TAKE i \in 1..Len(below)
  <2>2. /\ Len(top) + i \in 1..(Len(top) + Len(below)) /\ ~(Len(top) + i <= Len(top))
        /\ (Len(top) + i) - Len(top) = i
    BY <1>2, <1>6
  <2>3. QED
    BY <1>8, <2>2
<1>11. \A i \in 1..Len(c.body) : c.body[i].key # "stamp"
  <2>1. TAKE i \in 1..Len(c.body)
  <2>2. i \in 1..(Len(top) + Len(below))
    BY <1>8
  <2>3. CASE i <= Len(top)
    <3>1. i \in 1..Len(top)
      BY <1>2, <1>6, <2>2, <2>3
    <3>2. QED
      BY <1>6, <1>9, <3>1
  <2>4. CASE ~(i <= Len(top))
    <3>1. i - Len(top) \in 1..Len(below)
      BY <1>2, <1>6, <2>2, <2>4
    <3>2. QED
      BY <1>5, <1>8, <2>2, <2>4, <3>1
  <2>5. QED
    BY <2>3, <2>4
<1>12. StampIsSingle(c) /\ Slack!StampAt(c) = 0 /\ Slack!Content(c) = c.body
  BY <1>8, <1>11, UnstampedBody
<1>13. SaysSo(c)
  <2>1. 1 \in 1..Len(top) /\ Len(c.body) # 0
    BY <1>2, <1>6, <1>8
  <2>2. c.body[1].key = "archived" /\ c.body # <<>>
    <3>1. Len(<<>>) = 0
      OBVIOUS
    <3>2. QED
      BY <1>6, <1>9, <2>1, <3>1
  <2>3. QED
    BY <1>12, <2>2 DEF SaysSo, Slack!OpensWithTheLine
<1>14. ASSUME NEW n \in DOMAIN seen.body, seen.body[n].text = "hand"
       PROVE  \/ Slack!Holds(c, seen.body[n])
              \/ n <= Len(C) /\ ~Slack!OpensWithTheLine(seen)
  <2>1. n \in 1..L /\ DOMAIN c.body = 1..Len(c.body)
    BY <1>1, <1>8, LenProperties
  <2>2. n # p \/ p = 0
    BY <1>1, <1>3, <1>14, <2>1, BlocksAre
  <2>3. CASE n <= Len(C)
    <3>1. n \in 1..Len(C)
      BY <1>1, <1>2, <2>1, <2>3
    <3>2. CASE Slack!OpensWithTheLine(seen)
      <4>1. c.body[n] = seen.body[n] /\ n \in DOMAIN c.body
        BY <1>2, <1>7, <1>9, <2>1, <3>1, <3>2
      <4>2. QED
        BY <4>1 DEF Slack!Holds
    <3>3. QED
      BY <2>3, <3>2
  <2>4. CASE ~(n <= Len(C))
    <3>1. p # 0 /\ n - p \in 1..Len(below) /\ p + (n - p) = n
      BY <1>1, <1>2, <2>1, <2>2, <2>4
    <3>2. Len(top) + (n - p) \in DOMAIN c.body /\ c.body[Len(top) + (n - p)] = seen.body[n]
      BY <1>2, <1>10, <2>1, <3>1
    <3>3. QED
      BY <3>2 DEF Slack!Holds
  <2>5. QED
    BY <2>3, <2>4
<1>15. QED
  BY <1>8, <1>12, <1>13, <1>14 DEF C

\* The body that release_item leaves.
LEMMA KeptBody ==
  ASSUME Slack!SlackAssumption, seen.body \in Seq(Slack!Block), NEW c, c.body = Slack!Kept
  PROVE  /\ c.body \in Seq(Slack!Block) /\ StampIsSingle(c) /\ Slack!StampAt(c) = 0
         /\ \A n \in DOMAIN seen.body :
              seen.body[n].text = "hand" => Slack!Holds(c, seen.body[n])
<1> DEFINE B == {b \in Slack!Block : b.text = "hand"}
           kept == Slack!Among(seen.body, B)
<1>1. c.body = kept
  BY DEF Slack!Kept
<1>2. /\ kept \in Seq(Slack!Block)
      /\ \A p \in 1..Len(kept) : \E n \in 1..Len(seen.body) : seen.body[n] \in B /\ kept[p] = seen.body[n]
      /\ \A n \in 1..Len(seen.body) :
           seen.body[n] \in B => \E p \in 1..Len(kept) : kept[p] = seen.body[n]
  <2>1. kept \in Seq(Slack!Block) /\ PickedFrom(kept, seen.body, B)
    BY AmongThem
  <2> HIDE DEF B, kept
  <2>2. QED
    BY <2>1 DEF PickedFrom
<1> HIDE DEF kept
<1>3. \A b \in B : b.key # "stamp"
  BY BlocksAre
<1> HIDE DEF B
<1>4. \A p \in 1..Len(kept) : kept[p].key # "stamp"
  BY <1>2, <1>3
<1>5. StampIsSingle(c) /\ Slack!StampAt(c) = 0
  BY <1>1, <1>2, <1>4, UnstampedBody
<1>6. DOMAIN seen.body = 1..Len(seen.body) /\ DOMAIN kept = 1..Len(kept)
      /\ \A n \in 1..Len(seen.body) : seen.body[n] \in Slack!Block
  BY <1>2, LenProperties, ElementOfSeq
<1>7. ASSUME NEW n \in DOMAIN seen.body, seen.body[n].text = "hand"
      PROVE  Slack!Holds(c, seen.body[n])
  <2>1. seen.body[n] \in B /\ n \in 1..Len(seen.body)
    BY <1>6, <1>7 DEF B
  <2>2. PICK p \in 1..Len(kept) : kept[p] = seen.body[n]
    BY <1>2, <2>1
  <2>3. QED
    BY <1>1, <1>6, <2>2 DEF Slack!Holds
<1>8. QED
  BY <1>1, <1>2, <1>5, <1>7

\* A body of which every stamp is a stamp of another, and of no two the same one.
HasStampsOf(c, d, f) ==
  /\ \A i \in 1..Len(c.body) : c.body[i].key = "stamp" =>
       f[i] \in 1..Len(d.body) /\ d.body[f[i]].key = "stamp"
  /\ \A i, j \in 1..Len(c.body) :
       c.body[i].key = "stamp" /\ c.body[j].key = "stamp" /\ f[i] = f[j] => i = j

LEMMA StampsAreKept ==
  ASSUME NEW c, NEW d, c.body \in Seq(Slack!Block), d.body \in Seq(Slack!Block),
         StampIsSingle(d), NEW f, HasStampsOf(c, d, f)
  PROVE  StampIsSingle(c) /\ (Slack!StampAt(d) = 0 => Slack!StampAt(c) = 0)
<1>1. DOMAIN c.body = 1..Len(c.body) /\ DOMAIN d.body = 1..Len(d.body)
  BY LenProperties
<1>2. ASSUME NEW m \in DOMAIN c.body, NEW n \in DOMAIN c.body,
             c.body[m].key = "stamp", c.body[n].key = "stamp"
      PROVE  m = n
  <2>1. f[m] = f[n]
    BY <1>1, <1>2 DEF StampIsSingle, HasStampsOf
  <2>2. QED
    BY <1>1, <1>2, <2>1 DEF HasStampsOf
<1>3. ASSUME Slack!StampAt(d) = 0
      PROVE  Slack!StampAt(c) = 0
  <2>1. \A n \in 1..Len(d.body) : d.body[n].key # "stamp"
    BY <1>3, StampPlace
  <2>2. \A n \in 1..Len(c.body) : c.body[n].key # "stamp"
    BY <2>1 DEF HasStampsOf
  <2>3. QED
    BY <2>2, NoStamp
<1>4. QED
  BY <1>2, <1>3 DEF StampIsSingle

LEMMA WithoutOne ==
  ASSUME NEW d, d.body \in Seq(Slack!Block), StampIsSingle(d), NEW n \in 1..Len(d.body),
         NEW c, c.body = Slack!RemoveAt(d.body, n)
  PROVE  /\ c.body \in Seq(Slack!Block) /\ StampIsSingle(c)
         /\ Slack!StampAt(d) = 0 => Slack!StampAt(c) = 0
<1> DEFINE s == d.body
           L == Len(s)
           a == SubSeq(s, 1, n - 1)
           b == SubSeq(s, n + 1, L)
<1>1. L \in Nat /\ n \in 1..L /\ \A i \in 1..L : s[i] \in Slack!Block
  BY LenProperties, ElementOfSeq
<1>2. c.body = a \o b
  BY DEF Slack!RemoveAt
<1> HIDE DEF L
<1>3. a \in Seq(Slack!Block) /\ Len(a) = n - 1 /\ \A i \in 1..(n - 1) : a[i] = s[i]
  <2>1. 1 \in Int /\ n - 1 \in Int /\ \A i \in 1..(n - 1) : s[i] \in Slack!Block
    BY <1>1
  <2> HIDE DEF s
  <2>2. /\ a \in Seq(Slack!Block) /\ Len(a) = IF 1 <= n - 1 THEN (n - 1) - 1 + 1 ELSE 0
        /\ \A i \in 1..((n - 1) - 1 + 1) : a[i] = s[1 + i - 1]
    BY <2>1, SubSeqProperties
  <2>3. \A i \in 1..(n - 1) : i \in 1..((n - 1) - 1 + 1) /\ 1 + i - 1 = i
    BY <1>1
  <2>4. QED
    BY <1>1, <2>2, <2>3
<1>4. b \in Seq(Slack!Block) /\ Len(b) = L - n /\ \A i \in 1..(L - n) : b[i] = s[n + i]
  <2>1. n + 1 \in Int /\ L \in Int /\ \A i \in (n + 1)..L : s[i] \in Slack!Block
    BY <1>1
  <2> HIDE DEF s
  <2>2. /\ b \in Seq(Slack!Block) /\ Len(b) = IF n + 1 <= L THEN L - (n + 1) + 1 ELSE 0
        /\ \A i \in 1..(L - (n + 1) + 1) : b[i] = s[(n + 1) + i - 1]
    BY <2>1, SubSeqProperties
  <2>3. \A i \in 1..(L - n) : i \in 1..(L - (n + 1) + 1) /\ (n + 1) + i - 1 = n + i
    BY <1>1
  <2>4. QED
    BY <1>1, <2>2, <2>3
<1> HIDE DEF a, b
<1>5. /\ c.body \in Seq(Slack!Block) /\ Len(c.body) = (n - 1) + (L - n)
      /\ \A i \in 1..((n - 1) + (L - n)) : c.body[i] = IF i <= n - 1 THEN a[i] ELSE b[i - (n - 1)]
  <2>1. /\ a \o b \in Seq(Slack!Block) /\ Len(a \o b) = Len(a) + Len(b)
        /\ \A i \in 1..(Len(a) + Len(b)) :
             (a \o b)[i] = IF i <= Len(a) THEN a[i] ELSE b[i - Len(a)]
    BY <1>3, <1>4, ConcatProperties
  <2>2. QED
    BY <1>2, <1>3, <1>4, <2>1
<1> DEFINE f == [i \in 1..L |-> IF i <= n - 1 THEN i ELSE i + 1]
<1>6. \A i \in 1..Len(c.body) : /\ f[i] = (IF i <= n - 1 THEN i ELSE i + 1)
                                /\ f[i] \in 1..L /\ c.body[i] = s[f[i]]
  <2> HIDE DEF s
  <2>1. TAKE i \in 1..Len(c.body)
  <2>2. i \in 1..((n - 1) + (L - n)) /\ i \in 1..L
    BY <1>1, <1>5
  <2>3. CASE i <= n - 1
    <3>1. i \in 1..(n - 1)
      BY <1>1, <2>2, <2>3
    <3>2. QED
      BY <1>3, <1>5, <2>2, <2>3, <3>1
  <2>4. CASE ~(i <= n - 1)
    <3>1. i - (n - 1) \in 1..(L - n) /\ n + (i - (n - 1)) = i + 1 /\ i + 1 \in 1..L
      BY <1>1, <2>2, <2>4
    <3>2. f[i] = i + 1
      BY <2>2, <2>4
    <3> HIDE DEF f
    <3>3. c.body[i] = b[i - (n - 1)]
      BY <1>5, <2>2, <2>4
    <3>4. b[i - (n - 1)] = s[i + 1]
      BY <1>4, <3>1
    <3>5. QED
      BY <2>4, <3>1, <3>2, <3>3, <3>4
  <2>5. QED
    BY <2>3, <2>4
<1> HIDE DEF f
<1>7. \A i, j \in 1..Len(c.body) : f[i] = f[j] => i = j
  <2>1. TAKE i, j \in 1..Len(c.body)
  <2>2. /\ f[i] = (IF i <= n - 1 THEN i ELSE i + 1)
        /\ f[j] = (IF j <= n - 1 THEN j ELSE j + 1)
        /\ i \in Nat /\ j \in Nat /\ n \in Nat
    BY <1>1, <1>5, <1>6
  <2>3. QED
    BY <2>2
<1>8. \A i \in 1..Len(c.body) : c.body[i].key = "stamp" =>
        f[i] \in 1..Len(d.body) /\ d.body[f[i]].key = "stamp"
  BY <1>6 DEF L
<1>9. \A i, j \in 1..Len(c.body) :
        c.body[i].key = "stamp" /\ c.body[j].key = "stamp" /\ f[i] = f[j] => i = j
  BY <1>7
<1>10. HasStampsOf(c, d, f)
  BY <1>8, <1>9 DEF HasStampsOf
<1> HIDE DEF s
<1>11. QED
  BY <1>5, <1>10, StampsAreKept

LEMMA WithOneMore ==
  ASSUME NEW d, d.body \in Seq(Slack!Block), StampIsSingle(d), NEW n \in 1..(Len(d.body) + 1),
         NEW e \in Slack!Block, e.key # "stamp",
         NEW c, c.body = Slack!InsertAt(d.body, n, e)
  PROVE  /\ c.body \in Seq(Slack!Block) /\ StampIsSingle(c)
         /\ Slack!StampAt(d) = 0 => Slack!StampAt(c) = 0
<1> DEFINE s == d.body
           L == Len(s)
           a == SubSeq(s, 1, n - 1)
           b == SubSeq(s, n, L)
           h == a \o <<e>>
<1>1. L \in Nat /\ n \in 1..(L + 1) /\ \A i \in 1..L : s[i] \in Slack!Block
  BY LenProperties, ElementOfSeq
<1>2. c.body = h \o b
  BY DEF Slack!InsertAt
<1> HIDE DEF L
<1>3. a \in Seq(Slack!Block) /\ Len(a) = n - 1 /\ \A i \in 1..(n - 1) : a[i] = s[i]
  <2>1. 1 \in Int /\ n - 1 \in Int /\ \A i \in 1..(n - 1) : s[i] \in Slack!Block
    BY <1>1
  <2> HIDE DEF s
  <2>2. /\ a \in Seq(Slack!Block) /\ Len(a) = IF 1 <= n - 1 THEN (n - 1) - 1 + 1 ELSE 0
        /\ \A i \in 1..((n - 1) - 1 + 1) : a[i] = s[1 + i - 1]
    BY <2>1, SubSeqProperties
  <2>3. \A i \in 1..(n - 1) : i \in 1..((n - 1) - 1 + 1) /\ 1 + i - 1 = i
    BY <1>1
  <2>4. QED
    BY <1>1, <2>2, <2>3
<1>4. b \in Seq(Slack!Block) /\ Len(b) = L - n + 1 /\ \A i \in 1..(L - n + 1) : b[i] = s[n + i - 1]
  <2>1. n \in Int /\ L \in Int /\ \A i \in n..L : s[i] \in Slack!Block
    BY <1>1
  <2> HIDE DEF s
  <2>2. /\ b \in Seq(Slack!Block) /\ Len(b) = IF n <= L THEN L - n + 1 ELSE 0
        /\ \A i \in 1..(L - n + 1) : b[i] = s[n + i - 1]
    BY <2>1, SubSeqProperties
  <2>3. QED
    BY <1>1, <2>2
<1>5. /\ h \in Seq(Slack!Block) /\ Len(h) = n
      /\ \A i \in 1..(n - 1) : h[i] = s[i]
      /\ h[n] = e
  <2>1. <<e>> \in Seq(Slack!Block) /\ Len(<<e>>) = 1 /\ <<e>>[1] = e
    OBVIOUS
  <2> HIDE DEF a, s
  <2>2. /\ h \in Seq(Slack!Block) /\ Len(h) = (n - 1) + 1
        /\ \A i \in 1..((n - 1) + 1) : h[i] = IF i <= n - 1 THEN a[i] ELSE <<e>>[i - (n - 1)]
    <3> DEFINE one == <<e>>
    <3>1. one \in Seq(Slack!Block) /\ Len(one) = 1 /\ h = a \o one
      BY <2>1
    <3> HIDE DEF one, h
    <3>2. /\ a \o one \in Seq(Slack!Block) /\ Len(a \o one) = Len(a) + Len(one)
          /\ \A i \in 1..(Len(a) + Len(one)) :
               (a \o one)[i] = IF i <= Len(a) THEN a[i] ELSE one[i - Len(a)]
      BY <1>3, <3>1, ConcatProperties
    <3>3. QED
      BY <1>3, <3>1, <3>2 DEF one
  <2> HIDE DEF h
  <2>3. (n - 1) + 1 = n /\ n \in 1..((n - 1) + 1) /\ ~(n <= n - 1) /\ n - (n - 1) = 1
        /\ \A i \in 1..(n - 1) : i \in 1..((n - 1) + 1) /\ i <= n - 1
    BY <1>1
  <2>4. h[n] = e
    BY <2>1, <2>2, <2>3
  <2>5. \A i \in 1..(n - 1) : h[i] = s[i]
    BY <1>3, <2>2, <2>3
  <2>6. QED
    BY <2>2, <2>3, <2>4, <2>5
<1> HIDE DEF a, b, h
<1>6. /\ c.body \in Seq(Slack!Block) /\ Len(c.body) = n + (L - n + 1)
      /\ \A i \in 1..(n + (L - n + 1)) : c.body[i] = IF i <= n THEN h[i] ELSE b[i - n]
  <2>1. /\ h \o b \in Seq(Slack!Block) /\ Len(h \o b) = Len(h) + Len(b)
        /\ \A i \in 1..(Len(h) + Len(b)) :
             (h \o b)[i] = IF i <= Len(h) THEN h[i] ELSE b[i - Len(h)]
    BY <1>4, <1>5, ConcatProperties
  <2>2. QED
    BY <1>2, <1>4, <1>5, <2>1
<1> DEFINE f == [i \in 1..(L + 1) |-> IF i <= n - 1 THEN i ELSE i - 1]
<1>7. \A i \in 1..Len(c.body) :
        \/ i = n /\ c.body[i] = e
        \/ /\ i # n /\ f[i] = (IF i <= n - 1 THEN i ELSE i - 1)
           /\ f[i] \in 1..L /\ c.body[i] = s[f[i]]
  <2> HIDE DEF s
  <2>1. TAKE i \in 1..Len(c.body)
  <2>2. i \in 1..(n + (L - n + 1)) /\ i \in 1..(L + 1)
    BY <1>1, <1>6
  <2>3. CASE i <= n - 1
    <3>1. i \in 1..(n - 1) /\ i <= n /\ i # n /\ i \in 1..L
      BY <1>1, <2>2, <2>3
    <3>2. QED
      BY <1>5, <1>6, <2>2, <2>3, <3>1
  <2>4. CASE i = n
    <3>1. i <= n
      BY <1>1, <2>4
    <3>2. QED
      BY <1>5, <1>6, <2>2, <2>4, <3>1
  <2>5. CASE ~(i <= n - 1) /\ i # n
    <3>1. i - n \in 1..(L - n + 1) /\ n + (i - n) - 1 = i - 1 /\ i - 1 \in 1..L /\ ~(i <= n)
      <4>1. i \in Int /\ n \in Int /\ L \in Int /\ i <= L + 1 /\ i > n /\ n >= 1
        BY <1>1, <2>2, <2>5
      <4>2. i - n >= 1 /\ i - n <= L - n + 1 /\ i - n \in Int /\ L - n + 1 \in Int
        BY <4>1
      <4>3. i - 1 >= 1 /\ i - 1 <= L /\ i - 1 \in Int
        BY <4>1
      <4>4. n + (i - n) - 1 = i - 1
        BY <4>1
      <4>5. QED
        BY <4>1, <4>2, <4>3, <4>4
    <3>2. QED
      BY <1>4, <1>6, <2>2, <2>5, <3>1
  <2>6. QED
    BY <2>3, <2>4, <2>5
<1> HIDE DEF f
<1>8. \A i \in 1..Len(c.body) : c.body[i].key = "stamp" =>
        /\ i # n /\ f[i] = (IF i <= n - 1 THEN i ELSE i - 1)
        /\ f[i] \in 1..L /\ s[f[i]].key = "stamp"
  BY <1>7
<1>9. \A i, j \in 1..Len(c.body) :
        c.body[i].key = "stamp" /\ c.body[j].key = "stamp" /\ f[i] = f[j] => i = j
  BY <1>1, <1>6, <1>8
<1>10. \A i \in 1..Len(c.body) : c.body[i].key = "stamp" =>
         f[i] \in 1..Len(d.body) /\ d.body[f[i]].key = "stamp"
  BY <1>8 DEF L
<1>11. HasStampsOf(c, d, f)
  BY <1>9, <1>10 DEF HasStampsOf
<1> HIDE DEF s
<1>12. QED
  BY <1>6, <1>11, StampsAreKept

\* An operation ends, with or without having done what it was asked for.
LEMMA CanvasWriteEnds ==
  ASSUME Slack!SlackAssumption, CanvasInvariant, pc' = "ended",
         told' \in {"done", "rejected", "unfinished", "failed"},
         UNCHANGED <<read, seen, op, wanted, hand, edits>>, faults' \in Nat,
         canvas' \in Slack!Canvas, StampIsSingle(canvas'),
         seen.title = "new" => canvas'.title = "new",
         canvas'.life = "gone" => hand,
         canvas'.marked => op = "archive" /\ (hand \/ SaysSo(canvas')),
         landed' \subseteq {"body", "stamp", "title"},
         told' = "rejected" /\ op # "fields" => landed' = {},
         told' = "done" => AskedIsThere'
  PROVE  CanvasInvariant'
<1>1. CanvasTypes'
  BY BlocksAre DEF CanvasInvariant, CanvasTypes, Slack!TypeOK
<1>2. StampIsSingle(canvas)' /\ StampIsSingle(seen)'
  BY DEF CanvasInvariant, StampIsSingle
<1>3. RequestsFit' /\ ReadingIsCurrent'
  BY DEF RequestsFit, ReadingIsCurrent
<1>4. LandedIsFollowed'
  BY DEF LandedIsFollowed, Slack!RejectedLeavesNoTrace
<1>5. WritesAreThere'
  BY DEF WritesAreThere
<1>6. Slack!DoneIsOnTheCanvas'
  BY DEF AskedIsThere, WantedIsOn, Slack!DoneIsOnTheCanvas
<1>7. Slack!ArchivedSaysSo'
  BY DEF Slack!ArchivedSaysSo, SaysSo
<1>8. QED
  BY <1>1, <1>2, <1>3, <1>4, <1>5, <1>6, <1>7 DEF CanvasInvariant

\* What the invariant says of the canvas at any time.
LEMMA CanvasIs ==
  ASSUME CanvasInvariant
  PROVE  /\ canvas \in Slack!Canvas /\ seen \in Slack!Canvas
         /\ canvas.body \in Seq(Slack!Block) /\ seen.body \in Seq(Slack!Block)
         /\ StampIsSingle(canvas) /\ StampIsSingle(seen)
         /\ seen.title = "new" => canvas.title = "new"
         /\ canvas.life = "gone" => hand
         /\ canvas.marked => op = "archive" /\ (hand \/ SaysSo(canvas))
         /\ canvas.marked => pc \in {"begin", "over", "ended"}
         /\ landed \subseteq {"body", "stamp", "title"}
         /\ edits \in Nat /\ faults \in Nat
BY DEF CanvasInvariant, CanvasTypes, Slack!TypeOK, Slack!Canvas, ReadingIsCurrent,
   WritesAreThere, Slack!ArchivedSaysSo, SaysSo

LEMMA StopsKeepTheCanvas ==
  ASSUME Slack!SlackAssumption, CanvasInvariant,
         NEW outcome \in {"done", "rejected", "unfinished", "failed"}, Slack!Stop(outcome),
         outcome = "rejected" /\ op # "fields" => landed = {},
         outcome = "done" => AskedIsThere
  PROVE  CanvasInvariant'
<1>1. /\ pc' = "ended" /\ told' = outcome
      /\ UNCHANGED <<canvas, read, seen, landed, hand, edits, faults, op, wanted>>
  BY DEF Slack!Stop, Slack!End, Slack!counters, Slack!work
<1>2. AskedIsThere => AskedIsThere'
  BY <1>1 DEF AskedIsThere, WantedIsOn
<1>3. QED
  BY <1>1, <1>2, CanvasIs, CanvasWriteEnds

\* Where a request is sent, what is refused outright has written nothing.
LEMMA RefusedCanvasWrites ==
  ASSUME CanvasInvariant, pc \in {"begin", "send", "stamp", "links", "rename"}
  PROVE  /\ Slack!Refused \in {"rejected", "unfinished", "failed"}
         /\ Slack!Unanswered \in {"unfinished", "failed"}
         /\ Slack!NotFound \in {"rejected", "unfinished", "failed"}
         /\ Slack!Refused = "rejected" /\ op # "fields" => landed = {}
         /\ Slack!NotFound = "rejected" => landed = {}
<1>1. Slack!Unanswered \in {"unfinished", "failed"}
  BY DEF Slack!Unanswered
<1>2. pc \in {"begin", "send", "stamp", "links"} => landed = {}
  BY DEF CanvasInvariant, LandedIsFollowed
<1>3. pc = "rename" => op \in {"fields", "into", "archive"}
  BY DEF CanvasInvariant, RequestsFit
<1>4. pc = "rename" /\ op = "archive" => landed \subseteq {"body"}
  BY DEF CanvasInvariant, LandedIsFollowed
<1>5. ASSUME Slack!Refused = "rejected", op # "fields"
      PROVE  landed = {}
  <2>1. ~Slack!Finishing /\ ~(op = "archive" /\ pc = "rename" /\ "body" \in landed)
    BY <1>1, <1>5 DEF Slack!Refused
  <2>2. CASE pc = "rename"
    BY <1>3, <1>4, <1>5, <2>1, <2>2 DEF Slack!Finishing
  <2>3. QED
    BY <1>2, <2>2
<1>6. ASSUME Slack!NotFound = "rejected"
      PROVE  landed = {}
  <2>1. op \in {"create", "into"} /\ ~Slack!Finishing
    BY <1>1, <1>6 DEF Slack!NotFound
  <2>2. pc # "rename"
    BY <2>1 DEF Slack!Finishing
  <2>3. QED
    BY <1>2, <2>2
<1>7. QED
  BY <1>1, <1>5, <1>6 DEF Slack!Refused, Slack!NotFound

\* A request is taken, or it ends the operation.
LEMMA SendsKeepTheCanvas ==
  ASSUME Slack!SlackAssumption, CanvasInvariant,
         pc \in {"begin", "send", "stamp", "links", "rename"},
         NEW writes \in SUBSET {"body", "stamp", "title"}, NEW after \in Slack!Canvas, NEW next,
         Slack!Send(writes, after, next), StampIsSingle(after),
         seen.title = "new" => after.title = "new",
         canvas.life # "gone" => after.life # "gone",
         after.marked => op = "archive" /\ (hand \/ SaysSo(after)),
         /\ canvas.life # "gone" /\ canvas' = after /\ landed' = landed \cup writes /\ pc' = next
         /\ UNCHANGED <<told, faults, read, seen, hand, edits, op, wanted>>
         => CanvasInvariant'
  PROVE  CanvasInvariant'
<1>1. /\ UNCHANGED <<read, seen, hand, edits, op, wanted>>
      /\ canvas \in Slack!Canvas /\ landed \subseteq {"body", "stamp", "title"} /\ faults \in Nat
  BY CanvasIs DEF Slack!Send, Slack!work
<1>2. CASE /\ canvas.life # "gone"
           /\ canvas' = after /\ landed' = landed \cup writes
           /\ pc' = next
           /\ UNCHANGED <<told, faults>>
  BY <1>1, <1>2
<1>3. CASE \/ Slack!Fault /\ Slack!End(Slack!Refused) /\ UNCHANGED <<canvas, landed>>
           \/ canvas.life = "gone" /\ Slack!End(Slack!NotFound) /\ UNCHANGED <<canvas, landed, faults>>
  <2>1. /\ pc' = "ended" /\ told' \in {"rejected", "unfinished", "failed"} /\ faults' \in Nat
        /\ UNCHANGED <<canvas, landed>>
        /\ told' = "rejected" /\ op # "fields" => landed' = {}
    <3>1. /\ pc' = "ended" /\ UNCHANGED <<canvas, landed>>
          /\ told' = Slack!Refused \/ told' = Slack!NotFound
          /\ faults' = faults \/ faults' = faults + 1
      BY <1>3 DEF Slack!Fault, Slack!End
    <3>2. faults' \in Nat
      BY <1>1, <3>1
    <3>3. QED
      BY <3>1, <3>2, RefusedCanvasWrites
  <2>2. QED
    BY <1>1, <2>1, CanvasIs, CanvasWriteEnds
<1>4. CASE /\ Slack!Fault /\ Slack!End(Slack!Unanswered)
           /\ \/ UNCHANGED <<canvas, landed>>
              \/ /\ canvas.life # "gone"
                 /\ canvas' = after /\ landed' = landed \cup writes
  <2>1. pc' = "ended" /\ told' \in {"unfinished", "failed"} /\ faults' \in Nat
    BY <1>1, <1>4, RefusedCanvasWrites DEF Slack!Fault, Slack!End
  <2>2. CASE UNCHANGED <<canvas, landed>>
    BY <1>1, <2>1, <2>2, CanvasIs, CanvasWriteEnds
  <2>3. CASE canvas.life # "gone" /\ canvas' = after /\ landed' = landed \cup writes
    <3>1. landed' \subseteq {"body", "stamp", "title"}
      BY <1>1, <2>3
    <3>2. QED
      BY <1>1, <2>1, <2>3, <3>1, CanvasWriteEnds
  <2>4. QED
    BY <1>4, <2>2, <2>3
<1>5. QED
  BY <1>2, <1>3, <1>4 DEF Slack!Send

\* An operation that goes on has told nothing yet.
LEMMA CanvasWriteGoesOn ==
  ASSUME Slack!SlackAssumption, CanvasInvariant, pc # "ended", pc' # "ended",
         UNCHANGED <<told, read, hand, edits, faults, op, wanted>>,
         canvas' \in Slack!Canvas, seen' \in Slack!Canvas,
         StampIsSingle(canvas'), StampIsSingle(seen'),
         landed' \subseteq {"body", "stamp", "title"},
         canvas'.marked => hand \/ SaysSo(canvas'),
         RequestsFit', ReadingIsCurrent', WritesAreThere',
         /\ pc' \in {"begin", "again", "send", "stamp", "links"} => landed' = {}
         /\ pc' = "rename" /\ op = "archive" => landed' \subseteq {"body"}
  PROVE  CanvasInvariant'
<1>1. told = None
  BY DEF CanvasInvariant, CanvasTypes, Slack!TypeOK
<1>2. CanvasTypes'
  BY <1>1, BlocksAre DEF CanvasInvariant, CanvasTypes, Slack!TypeOK
<1>3. StampIsSingle(canvas)' /\ StampIsSingle(seen)'
  BY DEF StampIsSingle
<1>4. told' = None /\ told' # "rejected" /\ told' # "done"
  BY <1>1, BlocksAre
<1>5. LandedIsFollowed'
  BY <1>4 DEF LandedIsFollowed, Slack!RejectedLeavesNoTrace
<1>6. Slack!DoneIsOnTheCanvas'
  BY <1>4 DEF Slack!DoneIsOnTheCanvas
<1>7. Slack!ArchivedSaysSo'
  BY DEF Slack!ArchivedSaysSo, SaysSo
<1>8. QED
  BY <1>2, <1>3, <1>5, <1>6, <1>7 DEF CanvasInvariant

\* A body that an operation sends after it has read the canvas.
LEMMA BodiesKeepTheCanvas ==
  ASSUME Slack!SlackAssumption, CanvasInvariant, pc \in {"send", "stamp", "links"},
         NEW writes \in SUBSET {"body", "stamp", "title"}, NEW body, NEW next,
         Slack!ReplaceBody(writes, body, next),
         NEW after, after = [canvas EXCEPT !.body = body],
         after.body \in Seq(Slack!Block), StampIsSingle(after),
         \/ next = "look" /\ op \in {"section", "content", "links"}
         \/ next = "rename" /\ op \in {"fields", "into"}
         \/ next = "rename" /\ op = "archive" /\ writes = {"body"}
         \/ next = "over" /\ op = "release",
         op \in {"section", "content", "into"} => WantedIsOn(after),
         op \notin {"archive", "release"} => Slack!StampAt(after) # 0,
         op = "archive" => SaysSo(after),
         op = "release" => Slack!StampAt(after) = 0
  PROVE  CanvasInvariant'
<1>1. /\ after \in Slack!Canvas /\ after.title = canvas.title /\ after.life = canvas.life
      /\ after.marked = canvas.marked
  <2>1. canvas \in Slack!Canvas /\ after.body = body
    BY CanvasIs DEF Slack!Canvas
  <2>2. QED
    BY <2>1 DEF Slack!Canvas
<1>2. ~canvas.marked
  BY CanvasIs
<1>3. op \in {"links", "fields", "archive", "release"} => WantedIsOn(after)
  BY WantedAre DEF WantedIsOn, CanvasInvariant
<1>4. WantedIsOn(after)
  BY <1>3
<1>5. ASSUME canvas.life # "gone", canvas' = after, landed' = landed \cup writes, pc' = next,
             UNCHANGED <<told, faults, read, seen, hand, edits, op, wanted>>
      PROVE  CanvasInvariant'
  <2>1. pc # "ended" /\ pc' # "ended" /\ landed' \subseteq {"body", "stamp", "title"}
    BY <1>5, CanvasIs
  <2>2. RequestsFit'
    BY <1>5 DEF RequestsFit
  <2>3. ReadingIsCurrent'
    BY <1>1, <1>5, CanvasIs DEF ReadingIsCurrent
  <2>4. WritesAreThere'
    BY <1>1, <1>2, <1>4, <1>5 DEF WritesAreThere, WantedIsOn
  <2>5. /\ pc' \in {"begin", "again", "send", "stamp", "links"} => landed' = {}
        /\ pc' = "rename" /\ op = "archive" => landed' \subseteq {"body"}
    BY <1>5 DEF CanvasInvariant, LandedIsFollowed
  <2>6. QED
    BY <1>1, <1>2, <1>5, <2>1, <2>2, <2>3, <2>4, <2>5, CanvasIs, CanvasWriteGoesOn
<1>6. Slack!Send(writes, after, next)
  BY DEF Slack!ReplaceBody
<1>7. QED
  BY <1>1, <1>2, <1>5, <1>6, CanvasIs, SendsKeepTheCanvas

LEMMA ReadsAre ==
  ASSUME CanvasInvariant, NEW next, Slack!Read(next)
  PROVE  /\ canvas.life = "there" /\ ~canvas.marked /\ seen' = canvas /\ pc' = next
         /\ UNCHANGED <<canvas, read, told, landed, hand, edits, faults, op, wanted>>
BY DEF Slack!Read, Slack!counters, Slack!work

\* Reads that go on.
LEMMA ReadsKeepTheCanvas ==
  ASSUME Slack!SlackAssumption, CanvasInvariant, pc # "ended", NEW next, next # "ended",
         Slack!Read(next), RequestsFit',
         pc \in {"begin", "again"} \/ next = "over",
         next = "send" /\ op \in {"section", "content", "into"} => Slack!Content(canvas) = read,
         next = "send" /\ op = "into" => Slack!StampAt(canvas) = 0,
         next # "begin" /\ next # "look",
         next = "rename" => \/ op = "archive" /\ SaysSo(canvas)
                            \/ op = "fields" /\ Slack!StampAt(canvas) # 0,
         next = "over" => pc = "look"
  PROVE  CanvasInvariant'
<1>1. /\ canvas.life = "there" /\ ~canvas.marked /\ seen' = canvas /\ pc' = next
      /\ UNCHANGED <<canvas, read, told, landed, hand, edits, faults, op, wanted>>
  BY ReadsAre
<1>2. ReadingIsCurrent'
  BY <1>1 DEF ReadingIsCurrent
<1>3. pc \in {"begin", "again"} => landed = {}
  BY DEF CanvasInvariant, LandedIsFollowed
<1>4. WritesAreThere'
  <2>1. WantedIsOn(canvas)' <=> WantedIsOn(canvas)
    BY <1>1 DEF WantedIsOn
  <2>2. SaysSo(canvas)' <=> SaysSo(canvas)
    BY <1>1 DEF SaysSo
  <2>3. CASE next = "over"
    <3>1. pc = "look" /\ op \notin {"archive", "release"}
      BY <2>3 DEF CanvasInvariant, RequestsFit
    <3>2. QED
      BY <1>1, <2>1, <2>3, <3>1 DEF CanvasInvariant, WritesAreThere
  <2>4. CASE next # "over"
    BY <1>1, <2>2, <2>4 DEF WritesAreThere
  <2>5. QED
    BY <2>3, <2>4
<1>5. QED
  BY <1>1, <1>2, <1>3, <1>4, CanvasIs, CanvasWriteGoesOn

\* write_section, write_content, release_item and a create into a canvas begin with a read.
LEMMA CanvasBeginKeeps ==
  ASSUME Slack!SlackAssumption, CanvasInvariant, Slack!Begin
  PROVE  CanvasInvariant'
<1>1. pc = "begin" /\ op \in {"section", "content", "release", "into"} /\ landed = {}
  BY DEF Slack!Begin, CanvasInvariant, LandedIsFollowed
<1>2. CASE Slack!UnchangedSinceRead /\ Slack!Read(IF op = "release" THEN "again" ELSE "send")
  <2> DEFINE next == IF op = "release" THEN "again" ELSE "send"
  <2>1. Slack!Content(canvas) = read
    BY <1>2 DEF Slack!UnchangedSinceRead
  <2>2. op = "into" => Slack!StampAt(canvas) = 0
    BY <1>1 DEF CanvasInvariant, ReadingIsCurrent
  <2>3. pc' = next /\ op' = op
    BY <1>2, ReadsAre
  <2>4. RequestsFit'
    BY <1>1, <2>3 DEF RequestsFit
  <2>5. Slack!Read(next) /\ next \in {"again", "send"}
    BY <1>2
  <2> HIDE DEF next
  <2>6. QED
    BY <1>1, <2>1, <2>2, <2>4, <2>5, ReadsKeepTheCanvas
<1>3. CASE Slack!Stop("rejected")
  BY <1>1, <1>3, StopsKeepTheCanvas
<1>4. CASE Slack!Stop(Slack!NotFound)
  BY <1>1, <1>4, RefusedCanvasWrites, StopsKeepTheCanvas
<1>5. QED
  BY <1>2, <1>3, <1>4 DEF Slack!Begin

LEMMA SendContentKeeps ==
  ASSUME Slack!SlackAssumption, CanvasInvariant, Slack!SendContent
  PROVE  CanvasInvariant'
<1> DEFINE body == Slack!Stamped(Slack!Swapped)
           after == [canvas EXCEPT !.body = body]
<1>1. /\ pc = "send" /\ op \in {"section", "content"}
      /\ Slack!ReplaceBody({"body"}, body, "look")
  BY DEF Slack!SendContent
<1>2. after.body = body
  BY CanvasIs DEF Slack!Canvas
<1>3. /\ after.body \in Seq(Slack!Block) /\ StampIsSingle(after) /\ Slack!StampAt(after) # 0
      /\ WantedIsOn(after)
  <2>1. CanvasTypes /\ StampIsSingle(seen)
    BY DEF CanvasInvariant
  <2> HIDE DEF after
  <2>2. QED
    BY <1>1, <1>2, <2>1, SwappedBody
<1> HIDE DEF body
<1>4. after = [canvas EXCEPT !.body = body]
  OBVIOUS
<1> HIDE DEF after
<1>5. QED
  BY <1>1, <1>3, <1>4, BodiesKeepTheCanvas

LEMMA CanvasBeginFieldsKeeps ==
  ASSUME Slack!SlackAssumption, CanvasInvariant, Slack!BeginFields
  PROVE  CanvasInvariant'
<1> DEFINE next == IF op = "links" THEN "links"
                   ELSE IF Slack!StampAt(canvas) = 0 THEN "stamp" ELSE "rename"
<1>1. pc = "begin" /\ op \in {"fields", "links"} /\ landed = {}
  BY DEF Slack!BeginFields, CanvasInvariant, LandedIsFollowed
<1>2. CASE Slack!Read(next)
  <2>1. pc' = next /\ op' = op
    BY <1>2, ReadsAre
  <2>2. /\ RequestsFit' /\ next \in {"links", "stamp", "rename"}
        /\ next = "rename" => op = "fields" /\ Slack!StampAt(canvas) # 0
    BY <1>1, <2>1 DEF RequestsFit
  <2> HIDE DEF next
  <2>3. QED
    BY <1>1, <1>2, <2>2, ReadsKeepTheCanvas
<1>3. CASE Slack!Stop("rejected")
  BY <1>1, <1>3, StopsKeepTheCanvas
<1>4. CASE Slack!Stop("failed")
  BY <1>4, StopsKeepTheCanvas
<1>5. QED
  BY <1>2, <1>3, <1>4 DEF Slack!BeginFields

LEMMA CanvasStampBackKeeps ==
  ASSUME Slack!SlackAssumption, CanvasInvariant, Slack!StampBack
  PROVE  CanvasInvariant'
<1> DEFINE body == Slack!Stamped(seen.body)
           after == [canvas EXCEPT !.body = body]
<1>1. /\ pc = "stamp" /\ op = "fields"
      /\ Slack!ReplaceBody({"stamp"}, body, "rename")
  BY DEF Slack!StampBack, CanvasInvariant, RequestsFit
<1>2. after.body = body
  BY CanvasIs DEF Slack!Canvas
<1>3. after.body \in Seq(Slack!Block) /\ StampIsSingle(after) /\ Slack!StampAt(after) # 0
  <2> HIDE DEF after
  <2>1. QED
    BY <1>2, CanvasIs, StampedBody
<1> HIDE DEF body
<1>4. after = [canvas EXCEPT !.body = body]
  OBVIOUS
<1> HIDE DEF after
<1>5. QED
  BY <1>1, <1>3, <1>4, BodiesKeepTheCanvas

LEMMA RetitleKeeps ==
  ASSUME Slack!SlackAssumption, CanvasInvariant, Slack!Retitle
  PROVE  CanvasInvariant'
<1>1. pc = "rename" /\ op \in {"fields", "into"} /\ canvas \in Slack!Canvas /\ ~canvas.marked
  BY CanvasIs DEF Slack!Retitle
<1>2. ASSUME canvas' \in Slack!Canvas, canvas'.body = canvas.body, canvas'.life = canvas.life,
             canvas'.title = "new", canvas'.marked = canvas.marked,
             landed' \subseteq {"body", "stamp", "title"}, pc' = "look",
             UNCHANGED <<told, faults, read, seen, hand, edits, op, wanted>>
      PROVE  CanvasInvariant'
  <2>1. /\ Slack!StampAt(canvas') = Slack!StampAt(canvas)
        /\ Slack!Content(canvas') = Slack!Content(canvas)
        /\ StampIsSingle(canvas')
        /\ \A b : Slack!Holds(canvas', b) <=> Slack!Holds(canvas, b)
    BY <1>2, CanvasIs, SameBody
  <2>2. WantedIsOn(canvas)' <=> WantedIsOn(canvas)
    BY <1>2, <2>1 DEF WantedIsOn
  <2>3. op = "fields" => WantedIsOn(canvas)
    BY WantedAre DEF WantedIsOn, CanvasInvariant
  <2>4. WritesAreThere'
    BY <1>1, <1>2, <2>1, <2>2, <2>3 DEF CanvasInvariant, WritesAreThere
  <2>5. RequestsFit' /\ ReadingIsCurrent'
    BY <1>1, <1>2 DEF RequestsFit, ReadingIsCurrent
  <2>6. QED
    BY <1>1, <1>2, <2>1, <2>4, <2>5, CanvasIs, CanvasWriteGoesOn
<1>3. CASE op = "into" /\ seen.title = "new" /\ pc' = "look"
           /\ UNCHANGED <<canvas, read, seen, told, landed, hand, Slack!counters, Slack!work>>
  BY <1>1, <1>2, <1>3, CanvasIs DEF Slack!counters, Slack!work
<1>4. CASE Slack!Rename("new", "look")
  <2> DEFINE after == [canvas EXCEPT !.title = "new"]
  <2>1. /\ after \in Slack!Canvas /\ after.title = "new" /\ after.body = canvas.body
        /\ after.life = canvas.life /\ after.marked = canvas.marked
    BY <1>1 DEF Slack!Canvas
  <2>2. Slack!Send({"title"}, after, "look")
    BY <1>4 DEF Slack!Rename
  <2> HIDE DEF after
  <2>3. StampIsSingle(after)
    BY <2>1, CanvasIs, SameBody
  <2>4. landed \cup {"title"} \subseteq {"body", "stamp", "title"}
    BY CanvasIs
  <2>5. /\ canvas.life # "gone" /\ canvas' = after /\ landed' = landed \cup {"title"} /\ pc' = "look"
        /\ UNCHANGED <<told, faults, read, seen, hand, edits, op, wanted>>
        => CanvasInvariant'
    BY <1>2, <2>1, <2>4
  <2>6. QED
    BY <1>1, <2>1, <2>2, <2>3, <2>5, SendsKeepTheCanvas
<1>5. QED
  BY <1>3, <1>4 DEF Slack!Retitle

LEMMA CanvasUpdateLinksKeeps ==
  ASSUME Slack!SlackAssumption, CanvasInvariant, Slack!UpdateLinks
  PROVE  CanvasInvariant'
<1> DEFINE line == Slack!At("stamp", "linked")
           body == IF Slack!StampAt(seen) = 0 THEN Append(seen.body, line)
                   ELSE [seen.body EXCEPT ![Slack!StampAt(seen)] = line]
           after == [canvas EXCEPT !.body = body]
<1>1. /\ pc = "links" /\ op = "links"
      /\ Slack!ReplaceBody({"stamp"}, body, "look")
  BY DEF Slack!UpdateLinks, CanvasInvariant, RequestsFit
<1>2. after.body = body
  <2> HIDE DEF body
  <2>1. QED
    BY CanvasIs DEF Slack!Canvas
<1>3. after.body \in Seq(Slack!Block) /\ StampIsSingle(after) /\ Slack!StampAt(after) # 0
  <2> HIDE DEF after
  <2>1. QED
    BY <1>2, CanvasIs, LinkedBody
<1> HIDE DEF body
<1>4. after = [canvas EXCEPT !.body = body]
  OBVIOUS
<1> HIDE DEF after
<1>5. QED
  BY <1>1, <1>3, <1>4, BodiesKeepTheCanvas

LEMMA CanvasLookKeeps ==
  ASSUME Slack!SlackAssumption, CanvasInvariant, Slack!Look \/ Slack!Over \/ Slack!ReadFails
  PROVE  CanvasInvariant'
<1>1. Slack!Unanswered \in {"unfinished", "failed"}
  BY DEF Slack!Unanswered
<1>2. CASE Slack!Look
  <2>1. pc = "look"
    BY <1>2 DEF Slack!Look
  <2>2. CASE Slack!Stop(Slack!Unanswered)
    BY <1>1, <2>2, StopsKeepTheCanvas
  <2>3. CASE Slack!Read("over")
    <3>1. RequestsFit'
      BY <2>3, ReadsAre DEF RequestsFit
    <3>2. QED
      BY <2>1, <2>3, <3>1, ReadsKeepTheCanvas
  <2>4. QED
    BY <1>2, <2>2, <2>3 DEF Slack!Look
<1>3. CASE Slack!Over
  <2>1. pc = "over" /\ Slack!Stop("done")
    BY <1>3 DEF Slack!Over
  <2>2. AskedIsThere
    <3>1. op \in Slack!AllOps
      BY WantedAre DEF CanvasInvariant
    <3>2. QED
      BY <2>1, <3>1 DEF AskedIsThere, CanvasInvariant, WritesAreThere, SaysSo, Slack!AllOps
  <2>3. QED
    BY <2>1, <2>2, StopsKeepTheCanvas
<1>4. CASE Slack!ReadFails
  <2>1. /\ pc' = "ended" /\ told' = Slack!Unanswered /\ faults' = faults + 1
        /\ UNCHANGED <<canvas, read, seen, landed, hand, edits, op, wanted>>
    BY <1>4 DEF Slack!ReadFails, Slack!Fault, Slack!End, Slack!work
  <2>2. faults' \in Nat
    BY <2>1, CanvasIs
  <2>3. QED
    BY <1>1, <2>1, <2>2, CanvasIs, CanvasWriteEnds
<1>5. QED
  BY <1>2, <1>3, <1>4

\* archive_item begins with a read, and a canvas that is gone or marked needs nothing more.
LEMMA BeginArchiveKeeps ==
  ASSUME Slack!SlackAssumption, CanvasInvariant, Slack!BeginArchive
  PROVE  CanvasInvariant'
<1> DEFINE next == IF Slack!OpensWithTheLine(canvas) /\ Slack!StampAt(canvas) = 0
                   THEN "rename" ELSE "send"
<1>1. pc = "begin" /\ op = "archive"
  BY DEF Slack!BeginArchive
<1>2. CASE Slack!Missing /\ Slack!Stop("done")
  <2>1. WantedIsOn(canvas)
    BY <1>1, WantedAre DEF WantedIsOn, CanvasInvariant
  <2>2. hand \/ (canvas.marked /\ SaysSo(canvas))
    BY <1>2, CanvasIs DEF Slack!Missing
  <2>3. AskedIsThere
    BY <1>1, <2>1, <2>2 DEF AskedIsThere, SaysSo
  <2>4. QED
    BY <1>2, <2>3, StopsKeepTheCanvas
<1>3. CASE Slack!Read(next)
  <2>1. pc' = next /\ op' = op
    BY <1>3, ReadsAre
  <2>2. /\ RequestsFit' /\ next \in {"rename", "send"}
        /\ next = "rename" => op = "archive" /\ SaysSo(canvas)
    BY <1>1, <2>1 DEF RequestsFit, SaysSo
  <2> HIDE DEF next
  <2>3. QED
    BY <1>1, <1>3, <2>2, ReadsKeepTheCanvas
<1>4. QED
  BY <1>2, <1>3 DEF Slack!BeginArchive

LEMMA ArchiveBodyKeeps ==
  ASSUME Slack!SlackAssumption, CanvasInvariant, Slack!ArchiveBody
  PROVE  CanvasInvariant'
<1> DEFINE body == Slack!ArchivedBody
           after == [canvas EXCEPT !.body = body]
<1>1. pc = "send" /\ op = "archive" /\ landed = {}
  BY DEF Slack!ArchiveBody, CanvasInvariant, LandedIsFollowed
<1>2. CASE Slack!Stop("rejected")
  BY <1>1, <1>2, StopsKeepTheCanvas
<1>3. CASE Slack!ReplaceBody({"body"}, body, "rename")
  <2>1. after.body = body
    BY CanvasIs DEF Slack!Canvas
  <2>2. after.body \in Seq(Slack!Block) /\ StampIsSingle(after) /\ SaysSo(after)
    <3> HIDE DEF after
    <3>1. QED
      BY <2>1, CanvasIs, ArchivedBodyIs
  <2> HIDE DEF body
  <2>3. after = [canvas EXCEPT !.body = body]
    OBVIOUS
  <2> HIDE DEF after
  <2>4. QED
    BY <1>1, <1>3, <2>2, <2>3, BodiesKeepTheCanvas
<1>4. QED
  BY <1>2, <1>3 DEF Slack!ArchiveBody

LEMMA ArchiveNameKeeps ==
  ASSUME Slack!SlackAssumption, CanvasInvariant, Slack!ArchiveName
  PROVE  CanvasInvariant'
<1> DEFINE after == [canvas EXCEPT !.marked = TRUE]
<1>1. /\ pc = "rename" /\ op = "archive" /\ canvas \in Slack!Canvas
      /\ Slack!Send({"title"}, after, "over")
  BY CanvasIs DEF Slack!ArchiveName
<1>2. /\ after \in Slack!Canvas /\ after.title = canvas.title /\ after.body = canvas.body
      /\ after.life = canvas.life /\ after.marked
  BY <1>1 DEF Slack!Canvas
<1> HIDE DEF after
<1>3. hand \/ SaysSo(canvas)
  BY <1>1 DEF CanvasInvariant, WritesAreThere
<1>4. StampIsSingle(after) /\ (SaysSo(after) <=> SaysSo(canvas))
  BY <1>2, CanvasIs, SameBody DEF SaysSo
<1>5. ASSUME canvas' = after, landed' = landed \cup {"title"}, pc' = "over",
             UNCHANGED <<told, faults, read, seen, hand, edits, op, wanted>>
      PROVE  CanvasInvariant'
  <2>1. landed' \subseteq {"body", "stamp", "title"}
    BY <1>5, CanvasIs
  <2>2. WantedIsOn(canvas)'
    BY <1>1, <1>5, WantedAre DEF WantedIsOn, CanvasInvariant
  <2>3. SaysSo(canvas)' <=> SaysSo(after)
    BY <1>5 DEF SaysSo
  <2>4. WritesAreThere'
    BY <1>1, <1>2, <1>3, <1>4, <1>5, <2>2, <2>3, CanvasIs DEF WritesAreThere
  <2>5. RequestsFit' /\ ReadingIsCurrent'
    BY <1>1, <1>2, <1>5, CanvasIs DEF RequestsFit, ReadingIsCurrent
  <2>6. QED
    BY <1>1, <1>2, <1>3, <1>4, <1>5, <2>1, <2>4, <2>5, CanvasIs, CanvasWriteGoesOn
<1>6. QED
  BY <1>1, <1>2, <1>3, <1>4, <1>5, CanvasIs, SendsKeepTheCanvas

\* The next run reads the canvas afresh.
LEMMA ArchiveAgainKeeps ==
  ASSUME Slack!SlackAssumption, CanvasInvariant, Slack!ArchiveAgain
  PROVE  CanvasInvariant'
<1>1. /\ op = "archive" /\ read' = Slack!Content(canvas) /\ seen' = canvas /\ pc' = "begin"
      /\ told' = None /\ landed' = {}
      /\ UNCHANGED <<canvas, hand, edits, faults, op, wanted>>
  BY DEF Slack!ArchiveAgain, Slack!counters, Slack!work
<1>2. None \notin {"done", "rejected", "unfinished", "failed"}
  BY BlocksAre
<1>3. CanvasTypes'
  BY <1>1, <1>2, CanvasIs, ContentCut DEF CanvasInvariant, CanvasTypes, Slack!TypeOK
<1>4. StampIsSingle(canvas)' /\ StampIsSingle(seen)'
  BY <1>1, CanvasIs DEF StampIsSingle
<1>5. RequestsFit' /\ ReadingIsCurrent'
  BY <1>1 DEF RequestsFit, ReadingIsCurrent
<1>6. LandedIsFollowed' /\ Slack!DoneIsOnTheCanvas'
  BY <1>1, <1>2 DEF LandedIsFollowed, Slack!RejectedLeavesNoTrace, Slack!DoneIsOnTheCanvas
<1>7. WritesAreThere'
  BY <1>1, CanvasIs DEF WritesAreThere
<1>8. Slack!ArchivedSaysSo'
  BY <1>1 DEF CanvasInvariant, Slack!ArchivedSaysSo
<1>9. QED
  BY <1>3, <1>4, <1>5, <1>6, <1>7, <1>8 DEF CanvasInvariant

\* release_item
LEMMA ReleaseKeeps ==
  ASSUME Slack!SlackAssumption, CanvasInvariant, Slack!ReadAgain \/ Slack!ReleaseBody
  PROVE  CanvasInvariant'
<1>1. CASE Slack!ReadAgain
  <2>1. pc = "again" /\ op = "release"
    BY <1>1 DEF Slack!ReadAgain, CanvasInvariant, RequestsFit
  <2>2. CASE Slack!Stop("failed")
    BY <2>2, StopsKeepTheCanvas
  <2>3. CASE Slack!Read("send")
    <3>1. RequestsFit'
      BY <2>1, <2>3, ReadsAre DEF RequestsFit
    <3>2. QED
      BY <2>1, <2>3, <3>1, ReadsKeepTheCanvas
  <2>4. QED
    BY <1>1, <2>2, <2>3 DEF Slack!ReadAgain
<1>2. CASE Slack!ReleaseBody
  <2> DEFINE body == Slack!Kept
             after == [canvas EXCEPT !.body = body]
  <2>1. pc = "send" /\ op = "release"
    BY <1>2 DEF Slack!ReleaseBody
  <2>2. CASE body = seen.body /\ Slack!Stop("done")
    <3>1. Slack!StampAt(seen) = 0
      BY <2>2, CanvasIs, KeptBody
    <3>2. hand \/ seen = canvas
      BY <2>1 DEF CanvasInvariant, ReadingIsCurrent
    <3>3. WantedIsOn(canvas)
      BY <2>1, WantedAre DEF WantedIsOn, CanvasInvariant
    <3>4. AskedIsThere
      BY <2>1, <3>1, <3>2, <3>3 DEF AskedIsThere
    <3>5. QED
      BY <2>2, <3>4, StopsKeepTheCanvas
  <2>3. CASE Slack!ReplaceBody({"body"}, body, "over")
    <3>1. after.body = body
      BY CanvasIs DEF Slack!Canvas
    <3>2. after.body \in Seq(Slack!Block) /\ StampIsSingle(after) /\ Slack!StampAt(after) = 0
      <4> HIDE DEF after
      <4>1. QED
        BY <3>1, CanvasIs, KeptBody
    <3> HIDE DEF body
    <3>3. after = [canvas EXCEPT !.body = body]
      OBVIOUS
    <3> HIDE DEF after
    <3>4. QED
      BY <2>1, <2>3, <3>2, <3>3, BodiesKeepTheCanvas
  <2>4. QED
    BY <1>2, <2>2, <2>3 DEF Slack!ReleaseBody
<1>3. QED
  BY <1>1, <1>2

\* create_item
LEMMA CreateCanvasKeeps ==
  ASSUME Slack!SlackAssumption, CanvasInvariant, Slack!CreateCanvas
  PROVE  CanvasInvariant'
<1> DEFINE body == Append(Slack!Texts("new"), Slack!Stamp)
           after == [body |-> body, title |-> "new", marked |-> FALSE, life |-> "there"]
<1>1. pc = "begin" /\ op = "create" /\ Slack!Send({"body"}, after, "look")
  BY DEF Slack!CreateCanvas
<1>2. /\ after.body = body /\ after.title = "new" /\ after.marked = FALSE /\ after.life = "there"
  OBVIOUS
<1>3. /\ after.body \in Seq(Slack!Block) /\ StampIsSingle(after) /\ Slack!StampAt(after) # 0
      /\ WantedIsOn(after)
  <2>1. CanvasTypes
    BY DEF CanvasInvariant
  <2> HIDE DEF after
  <2>2. QED
    BY <1>1, <1>2, <2>1, WholeBody
<1>4. after \in Slack!Canvas
  BY <1>3 DEF Slack!Canvas
<1> HIDE DEF after
<1>5. ASSUME canvas' = after, landed' = landed \cup {"body"}, pc' = "look",
             UNCHANGED <<told, faults, read, seen, hand, edits, op, wanted>>
      PROVE  CanvasInvariant'
  <2>1. landed' \subseteq {"body", "stamp", "title"}
    BY <1>5, CanvasIs
  <2>2. WantedIsOn(canvas)' <=> WantedIsOn(after)
    BY <1>5 DEF WantedIsOn
  <2>3. WritesAreThere'
    BY <1>1, <1>2, <1>3, <1>5, <2>2 DEF WritesAreThere
  <2>4. RequestsFit' /\ ReadingIsCurrent'
    BY <1>1, <1>2, <1>5 DEF RequestsFit, ReadingIsCurrent
  <2>5. QED
    BY <1>1, <1>2, <1>3, <1>4, <1>5, <2>1, <2>3, <2>4, CanvasIs, CanvasWriteGoesOn
<1>6. QED
  BY <1>1, <1>2, <1>3, <1>4, <1>5, SendsKeepTheCanvas

LEMMA CreateIntoKeeps ==
  ASSUME Slack!SlackAssumption, CanvasInvariant, Slack!CreateInto
  PROVE  CanvasInvariant'
<1> DEFINE body == Append(Slack!Texts("new"), Slack!Stamp)
           after == [canvas EXCEPT !.body = body]
<1>1. pc = "send" /\ op = "into" /\ Slack!ReplaceBody({"body"}, body, "rename")
  BY DEF Slack!CreateInto
<1>2. after.body = body
  BY CanvasIs DEF Slack!Canvas
<1>3. /\ after.body \in Seq(Slack!Block) /\ StampIsSingle(after) /\ Slack!StampAt(after) # 0
      /\ WantedIsOn(after)
  <2>1. CanvasTypes
    BY DEF CanvasInvariant
  <2> HIDE DEF after
  <2>2. QED
    BY <1>1, <1>2, <2>1, WholeBody
<1> HIDE DEF body
<1>4. after = [canvas EXCEPT !.body = body]
  OBVIOUS
<1> HIDE DEF after
<1>5. QED
  BY <1>1, <1>3, <1>4, BodiesKeepTheCanvas

\* A person who changes the canvas, at any time.
LEMMA PersonKeepsTheCanvas ==
  ASSUME Slack!SlackAssumption, CanvasInvariant, NEW c, Slack!Person(c),
         c.body \in Seq(Slack!Block), StampIsSingle(c),
         Slack!StampAt(canvas) = 0 => Slack!StampAt(c) = 0,
         c.title = canvas.title, c.marked = canvas.marked, c \in Slack!Canvas
  PROVE  CanvasInvariant'
<1>1. /\ canvas' = c /\ hand' = TRUE /\ edits' = edits + 1 /\ edits \in Nat
      /\ UNCHANGED <<read, seen, pc, told, landed, faults, op, wanted>>
  BY CanvasIs DEF Slack!Person, Slack!work
<1>2. CanvasTypes'
  BY <1>1 DEF CanvasInvariant, CanvasTypes, Slack!TypeOK
<1>3. StampIsSingle(canvas)' /\ StampIsSingle(seen)'
  BY <1>1 DEF CanvasInvariant, StampIsSingle
<1>4. RequestsFit' /\ LandedIsFollowed'
  BY <1>1 DEF CanvasInvariant, RequestsFit, LandedIsFollowed, Slack!RejectedLeavesNoTrace
<1>5. ReadingIsCurrent'
  BY <1>1 DEF CanvasInvariant, ReadingIsCurrent
<1>6. WritesAreThere'
  BY <1>1 DEF CanvasInvariant, WritesAreThere
<1>7. Slack!DoneIsOnTheCanvas' /\ Slack!ArchivedSaysSo'
  BY <1>1 DEF Slack!DoneIsOnTheCanvas, Slack!ArchivedSaysSo
<1>8. QED
  BY <1>2, <1>3, <1>4, <1>5, <1>6, <1>7 DEF CanvasInvariant

\* A block that a person has written anew.
LEMMA WithOneRewritten ==
  ASSUME NEW d, d.body \in Seq(Slack!Block), StampIsSingle(d), NEW n \in 1..Len(d.body),
         d.body[n].key \in Slack!Keys,
         NEW c, c.body = [d.body EXCEPT ![n].text = "hand"]
  PROVE  /\ c.body \in Seq(Slack!Block) /\ StampIsSingle(c)
         /\ Slack!StampAt(d) = 0 => Slack!StampAt(c) = 0
<1> DEFINE f == [i \in 1..Len(d.body) |-> i]
           e == [d.body[n] EXCEPT !.text = "hand"]
<1>1. DOMAIN d.body = 1..Len(d.body) /\ Len(d.body) \in Nat /\ d.body[n] \in Slack!Block
  BY LenProperties, ElementOfSeq
<1>2. e \in Slack!Block /\ e.key = d.body[n].key
  <2>1. PICK k \in Slack!Keys : d.body[n].key = k
    OBVIOUS
  <2>2. e = [key |-> k, text |-> "hand"]
    BY <1>1, <2>1 DEF Slack!Block
  <2>3. QED
    BY <2>1, <2>2 DEF Slack!Block
<1> HIDE DEF e
<1>3. c.body = [d.body EXCEPT ![n] = e]
  BY DEF e
<1>4. c.body \in Seq(Slack!Block) /\ Len(c.body) = Len(d.body)
  BY <1>1, <1>2, <1>3, ExceptSeq
<1>5. \A i \in 1..Len(c.body) : c.body[i].key = d.body[i].key
  BY <1>1, <1>2, <1>3, <1>4
<1>6. HasStampsOf(c, d, f)
  BY <1>4, <1>5 DEF HasStampsOf
<1>7. QED
  BY <1>4, <1>6, StampsAreKept

LEMMA PeopleKeepTheCanvas ==
  ASSUME Slack!SlackAssumption, CanvasInvariant,
         Slack!EditBlock \/ Slack!RemoveBlock \/ Slack!AddBlock \/ Slack!DeleteCanvas
  PROVE  CanvasInvariant'
<1>1. canvas \in Slack!Canvas /\ canvas.body \in Seq(Slack!Block) /\ StampIsSingle(canvas)
  BY CanvasIs
<1>2. DOMAIN canvas.body = 1..Len(canvas.body) /\ Len(canvas.body) \in Nat
  BY <1>1, LenProperties
<1>3. ASSUME NEW c, Slack!Person(c), NEW body \in Seq(Slack!Block),
             c = [canvas EXCEPT !.body = body],
             StampIsSingle(c), Slack!StampAt(canvas) = 0 => Slack!StampAt(c) = 0
      PROVE  CanvasInvariant'
  <2>1. /\ c \in Slack!Canvas /\ c.body \in Seq(Slack!Block)
        /\ c.title = canvas.title /\ c.marked = canvas.marked
    BY <1>1, <1>3 DEF Slack!Canvas
  <2>2. QED
    BY <1>3, <2>1, PersonKeepsTheCanvas
<1>4. ASSUME NEW body, NEW c, c = [canvas EXCEPT !.body = body]
      PROVE  c.body = body
  BY <1>1, <1>4 DEF Slack!Canvas
<1>5. CASE Slack!EditBlock
  <2>1. PICK n \in 1..Len(canvas.body) :
          canvas.body[n].key \in Slack!Keys /\ Slack!Person([canvas EXCEPT !.body[n].text = "hand"])
    BY <1>2, <1>5 DEF Slack!EditBlock
  <2> DEFINE body == [canvas.body EXCEPT ![n].text = "hand"]
             c == [canvas EXCEPT !.body = body]
  <2>2. Slack!Person(c)
    BY <2>1
  <2>3. c.body = body
    BY <1>4
  <2>4. c = [canvas EXCEPT !.body = body]
    OBVIOUS
  <2> HIDE DEF c
  <2>5. /\ c.body \in Seq(Slack!Block) /\ StampIsSingle(c)
        /\ Slack!StampAt(canvas) = 0 => Slack!StampAt(c) = 0
    BY <1>1, <2>1, <2>3, WithOneRewritten
  <2> HIDE DEF body
  <2>6. QED
    BY <1>3, <2>2, <2>3, <2>4, <2>5
<1>6. CASE Slack!RemoveBlock
  <2>1. PICK n \in 1..Len(canvas.body) :
          Slack!Person([canvas EXCEPT !.body = Slack!RemoveAt(canvas.body, n)])
    BY <1>2, <1>6 DEF Slack!RemoveBlock
  <2> DEFINE body == Slack!RemoveAt(canvas.body, n)
             c == [canvas EXCEPT !.body = body]
  <2>2. Slack!Person(c)
    BY <2>1
  <2>3. c.body = body
    BY <1>4
  <2>4. c = [canvas EXCEPT !.body = body]
    OBVIOUS
  <2> HIDE DEF c
  <2>5. /\ c.body \in Seq(Slack!Block) /\ StampIsSingle(c)
        /\ Slack!StampAt(canvas) = 0 => Slack!StampAt(c) = 0
    BY <1>1, <2>1, <2>3, WithoutOne
  <2> HIDE DEF body
  <2>6. QED
    BY <1>3, <2>2, <2>3, <2>4, <2>5
<1>7. CASE Slack!AddBlock
  <2>1. PICK n \in 1..(Len(canvas.body) + 1), k \in Slack!Keys :
          Slack!Person([canvas EXCEPT !.body =
                          Slack!InsertAt(canvas.body, n, Slack!At(k, "hand"))])
    BY <1>7 DEF Slack!AddBlock
  <2> DEFINE body == Slack!InsertAt(canvas.body, n, Slack!At(k, "hand"))
             c == [canvas EXCEPT !.body = body]
  <2>2. Slack!Person(c)
    BY <2>1
  <2>3. c.body = body
    BY <1>4
  <2>4. c = [canvas EXCEPT !.body = body]
    OBVIOUS
  <2> HIDE DEF c
  <2>5. Slack!At(k, "hand") \in Slack!Block /\ Slack!At(k, "hand").key # "stamp"
    BY BlocksAre DEF Slack!At
  <2>6. /\ c.body \in Seq(Slack!Block) /\ StampIsSingle(c)
        /\ Slack!StampAt(canvas) = 0 => Slack!StampAt(c) = 0
    BY <1>1, <2>1, <2>3, <2>5, WithOneMore
  <2> HIDE DEF body
  <2>7. QED
    BY <1>3, <2>2, <2>3, <2>4, <2>6
<1>8. CASE Slack!DeleteCanvas
  <2> DEFINE c == [canvas EXCEPT !.life = "gone"]
  <2>1. /\ Slack!Person(c) /\ c \in Slack!Canvas /\ c.body = canvas.body
        /\ c.title = canvas.title /\ c.marked = canvas.marked
    BY <1>1, <1>8 DEF Slack!DeleteCanvas, Slack!Canvas
  <2> HIDE DEF c
  <2>2. StampIsSingle(c) /\ Slack!StampAt(c) = Slack!StampAt(canvas)
    BY <1>1, <2>1, SameBody
  <2>3. QED
    BY <1>1, <2>1, <2>2, PersonKeepsTheCanvas
<1>9. QED
  BY <1>5, <1>6, <1>7, <1>8

\* The canvas an operation finds: skaldr's, without its stamp or with it, or none yet.
LEMMA CanvasesStart ==
  ASSUME Slack!SlackAssumption, op \in Slack!AllOps, canvas \in Slack!Before(op)
  PROVE  /\ canvas \in Slack!Canvas /\ StampIsSingle(canvas)
         /\ ~canvas.marked /\ canvas.life # "gone" /\ canvas.title = "old"
         /\ op = "into" => Slack!StampAt(canvas) = 0
         /\ op = "create" => canvas.body = <<>>
<1> DEFINE notes == Slack!At("notes", "hand")
           final == Slack!At(Sections[Len(Sections)], "hand")
<1>1. /\ notes \in Slack!Block /\ notes.key # "stamp"
      /\ final \in Slack!Block /\ final.key # "stamp"
  <2>1. Sections[Len(Sections)] \in Slack!Keys /\ "stamp" \notin Slack!Keys
    BY BlocksAre
  <2>2. QED
    BY <2>1, BlocksAre DEF Slack!At, Slack!Block
<1> HIDE DEF notes, final
<1>2. /\ ~canvas.marked /\ canvas.life # "gone" /\ canvas.title = "old"
      /\ canvas.body \in Seq(Slack!Block) => canvas \in Slack!Canvas
      /\ \/ canvas.body = <<>> /\ op \in {"create", "into"}
         \/ canvas.body = <<notes>> /\ op = "into"
         \/ /\ op \notin {"create", "into"}
            /\ \E s \in {<<>>, <<Slack!Stamp>>}, below \in {<<>>, <<final>>} :
                 canvas.body = Slack!Texts("old") \o s \o below
  <2> DEFINE holds(body, life) == [body |-> body, title |-> "old", marked |-> FALSE, life |-> life]
  <2>1. \A body, life : /\ holds(body, life).body = body /\ holds(body, life).life = life
                        /\ holds(body, life).title = "old" /\ holds(body, life).marked = FALSE
                        /\ body \in Seq(Slack!Block) /\ life \in {"unborn", "there"}
                             => holds(body, life) \in Slack!Canvas
    BY DEF Slack!Canvas
  <2>2. CASE op = "create"
    <3>1. canvas = holds(<<>>, "unborn")
      BY <2>2 DEF Slack!Before
    <3> HIDE DEF holds
    <3>2. QED
      BY <2>1, <2>2, <3>1
  <2>3. CASE op = "into"
    <3>1. canvas = holds(<<>>, "there") \/ canvas = holds(<<notes>>, "there")
      BY <2>3 DEF Slack!Before, notes
    <3> HIDE DEF holds
    <3>2. QED
      BY <2>1, <2>3, <3>1
  <2>4. CASE op \notin {"create", "into"}
    <3>1. canvas \in {holds(Slack!Texts("old") \o s \o below, "there") :
                        s \in {<<>>, <<Slack!Stamp>>}, below \in {<<>>, <<final>>}}
      BY <2>4 DEF Slack!Before, final
    <3>2. PICK s \in {<<>>, <<Slack!Stamp>>}, below \in {<<>>, <<final>>} :
            canvas = holds(Slack!Texts("old") \o s \o below, "there")
      BY <3>1
    <3> DEFINE body == Slack!Texts("old") \o s \o below
    <3>3. canvas = holds(body, "there")
      BY <3>2
    <3>4. \E t \in {<<>>, <<Slack!Stamp>>}, b \in {<<>>, <<final>>} :
            body = Slack!Texts("old") \o t \o b
      OBVIOUS
    <3> HIDE DEF holds, body
    <3>5. /\ canvas.body = body /\ canvas.life = "there" /\ canvas.title = "old"
          /\ canvas.marked = FALSE
          /\ body \in Seq(Slack!Block) => canvas \in Slack!Canvas
      BY <2>1, <3>3
    <3>6. QED
      BY <2>4, <3>4, <3>5
  <2>5. QED
    BY <2>2, <2>3, <2>4
<1>3. CASE canvas.body = <<>>
  <2>1. canvas.body \in Seq(Slack!Block) /\ Len(canvas.body) = 0
    BY <1>3, EmptySeq
  <2>2. \A n \in 1..Len(canvas.body) : canvas.body[n].key # "stamp"
    BY <2>1
  <2>3. StampIsSingle(canvas) /\ Slack!StampAt(canvas) = 0
    BY <2>1, <2>2, UnstampedBody
  <2>4. QED
    BY <1>2, <1>3, <2>1, <2>3
<1>4. CASE canvas.body = <<notes>> /\ op = "into"
  <2>1. canvas.body \in Seq(Slack!Block) /\ Len(canvas.body) = 1 /\ canvas.body[1] = notes
    BY <1>1, <1>4
  <2>2. \A n \in 1..Len(canvas.body) : canvas.body[n].key # "stamp"
    BY <1>1, <2>1
  <2>3. QED
    BY <1>2, <1>4, <2>1, <2>2, UnstampedBody
<1>5. ASSUME op \notin {"create", "into"},
             NEW s \in {<<>>, <<Slack!Stamp>>}, NEW below \in {<<>>, <<final>>},
             canvas.body = Slack!Texts("old") \o s \o below
      PROVE  canvas.body \in Seq(Slack!Block) /\ StampIsSingle(canvas)
  <2> DEFINE top == Slack!Texts("old")
  <2>1. top \in Seq(Slack!Block) /\ \A n \in 1..Len(top) : top[n].key # "stamp"
    BY TextsAre
  <2> HIDE DEF top
  <2>2. /\ below \in Seq(Slack!Block)
        /\ \A n \in 1..Len(below) : below[n].key # "stamp"
    <3>1. CASE below = <<>>
      <4>1. below \in Seq(Slack!Block) /\ Len(below) = 0
        BY <3>1, EmptySeq
      <4>2. QED
        BY <4>1
    <3>2. CASE below = <<final>>
      <4>1. below \in Seq(Slack!Block) /\ Len(below) = 1 /\ below[1] = final
        BY <1>1, <3>2
      <4>2. QED
        BY <1>1, <4>1
    <3>3. QED
      BY <3>1, <3>2
  <2>3. CASE s = <<>>
    <3>1. canvas.body = top \o below
      BY <1>5, <2>1, <2>3, ConcatEmptySeq DEF top
    <3>2. /\ canvas.body \in Seq(Slack!Block) /\ Len(canvas.body) = Len(top) + Len(below)
          /\ \A i \in 1..(Len(top) + Len(below)) :
               canvas.body[i] = IF i <= Len(top) THEN top[i] ELSE below[i - Len(top)]
      BY <2>1, <2>2, <3>1, ConcatProperties
    <3>3. Len(top) \in Nat /\ Len(below) \in Nat
      BY <2>1, <2>2, LenProperties
    <3>4. ASSUME NEW i \in 1..(Len(top) + Len(below))
          PROVE  canvas.body[i].key # "stamp"
      <4>1. CASE i <= Len(top)
        <5>1. i \in 1..Len(top)
          BY <3>3, <4>1
        <5>2. QED
          BY <2>1, <3>2, <4>1, <5>1
      <4>2. CASE ~(i <= Len(top))
        <5>1. i - Len(top) \in 1..Len(below)
          BY <3>3, <4>2
        <5>2. QED
          BY <2>2, <3>2, <4>2, <5>1
      <4>3. QED
        BY <4>1, <4>2
    <3>5. QED
      BY <3>2, <3>4, UnstampedBody
  <2>4. CASE s = <<Slack!Stamp>>
    <3> DEFINE low == s \o below
    <3>1. s \in Seq(Slack!Block) /\ Len(s) = 1 /\ s[1].key = "stamp"
      BY <2>4, BlocksAre
    <3>2. /\ low \in Seq(Slack!Block) /\ Len(low) = 1 + Len(below)
          /\ \A i \in 1..(1 + Len(below)) : low[i] = IF i <= 1 THEN s[i] ELSE below[i - 1]
      <4>1. /\ s \o below \in Seq(Slack!Block) /\ Len(s \o below) = Len(s) + Len(below)
            /\ \A i \in 1..(Len(s) + Len(below)) :
                 (s \o below)[i] = IF i <= Len(s) THEN s[i] ELSE below[i - Len(s)]
        BY <2>2, <3>1, ConcatProperties
      <4>2. QED
        BY <3>1, <4>1
    <3>3. \A n \in 1..Len(low) : low[n].key = "stamp" <=> n = 1
      <4>1. Len(below) \in Nat
        BY <2>2, LenProperties
      <4>2. TAKE n \in 1..Len(low)
      <4>3. n \in 1..(1 + Len(below))
        BY <3>2
      <4>4. CASE n = 1
        BY <3>1, <3>2, <4>1, <4>3, <4>4
      <4>5. CASE n # 1
        <5>1. ~(n <= 1) /\ n - 1 \in 1..Len(below)
          BY <4>1, <4>3, <4>5
        <5>2. QED
          BY <2>2, <3>2, <4>3, <4>5, <5>1
      <4>6. QED
        BY <4>4, <4>5
    <3>4. canvas.body = top \o low
      BY <1>5, <2>1, <2>2, <3>1, ConcatAssociative DEF top
    <3> HIDE DEF low
    <3>5. IsComposed(canvas, top, low)
      BY <2>1, <3>2, <3>3, <3>4, Composed
    <3>6. QED
      BY <3>5 DEF IsComposed
  <2>5. QED
    BY <2>3, <2>4
<1>6. QED
  BY <1>2, <1>3, <1>4, <1>5

\* Init establishes the invariant.
LEMMA CanvasWritesStart ==
  ASSUME Slack!SlackAssumption, Slack!Init
  PROVE  CanvasInvariant
<1>1. /\ op \in Ops /\ op \in Slack!AllOps /\ canvas \in Slack!Before(op)
      /\ read = Slack!Content(canvas) /\ seen = canvas /\ wanted \in Slack!Asked(op)
      /\ pc = "begin" /\ told = None /\ landed = {} /\ hand = FALSE /\ edits = 0 /\ faults = 0
  BY DEF Slack!Init, Slack!SlackAssumption
<1>2. None \notin {"done", "rejected", "unfinished", "failed"}
  BY BlocksAre
<1>3. /\ canvas \in Slack!Canvas /\ StampIsSingle(canvas)
      /\ ~canvas.marked /\ canvas.life # "gone" /\ canvas.title = "old"
      /\ op = "into" => Slack!StampAt(canvas) = 0
      /\ op = "create" => canvas.body = <<>>
  BY <1>1, CanvasesStart
<1>4. canvas.body \in Seq(Slack!Block)
  BY <1>3 DEF Slack!Canvas
<1>5. CanvasTypes
  BY <1>1, <1>2, <1>3, <1>4, ContentCut DEF CanvasTypes, Slack!TypeOK
<1>6. RequestsFit /\ ReadingIsCurrent /\ LandedIsFollowed
  BY <1>1, <1>2, <1>3 DEF RequestsFit, ReadingIsCurrent, LandedIsFollowed,
     Slack!RejectedLeavesNoTrace
<1>7. WritesAreThere
  BY <1>1, <1>3 DEF WritesAreThere
<1>8. Slack!DoneIsOnTheCanvas /\ Slack!ArchivedSaysSo
  BY <1>1, <1>2, <1>3 DEF Slack!DoneIsOnTheCanvas, Slack!ArchivedSaysSo
<1>9. QED
  BY <1>1, <1>3, <1>5, <1>6, <1>7, <1>8 DEF CanvasInvariant

\* Every step keeps it.
LEMMA CanvasStepsKeep ==
  ASSUME Slack!SlackAssumption, CanvasInvariant, [Slack!Next]_(Slack!vars)
  PROVE  CanvasInvariant'
<1>1. CASE UNCHANGED Slack!vars
  BY <1>1 DEF Slack!vars, Slack!counters, Slack!work, CanvasInvariant, CanvasTypes, Slack!TypeOK,
     StampIsSingle, RequestsFit, ReadingIsCurrent, LandedIsFollowed,
     Slack!RejectedLeavesNoTrace, WritesAreThere, WantedIsOn, SaysSo,
     Slack!DoneIsOnTheCanvas, Slack!ArchivedSaysSo
<1>2. CASE Slack!Begin \/ Slack!SendContent \/ Slack!BeginFields \/ Slack!StampBack
  BY <1>2, CanvasBeginKeeps, SendContentKeeps, CanvasBeginFieldsKeeps, CanvasStampBackKeeps
<1>3. CASE \/ Slack!Retitle \/ Slack!UpdateLinks
           \/ Slack!Look \/ Slack!Over \/ Slack!ReadFails
  BY <1>3, RetitleKeeps, CanvasUpdateLinksKeeps, CanvasLookKeeps
<1>4. CASE \/ Slack!BeginArchive \/ Slack!ArchiveBody
           \/ Slack!ArchiveName \/ Slack!ArchiveAgain
  BY <1>4, BeginArchiveKeeps, ArchiveBodyKeeps, ArchiveNameKeeps, ArchiveAgainKeeps
<1>5. CASE \/ Slack!ReadAgain \/ Slack!ReleaseBody
           \/ Slack!CreateCanvas \/ Slack!CreateInto
  BY <1>5, ReleaseKeeps, CreateCanvasKeeps, CreateIntoKeeps
<1>6. CASE Slack!EditBlock \/ Slack!RemoveBlock \/ Slack!AddBlock \/ Slack!DeleteCanvas
  BY <1>6, PeopleKeepTheCanvas
<1>7. QED
  BY <1>1, <1>2, <1>3, <1>4, <1>5, <1>6 DEF Slack!Next, Slack!Skaldr

LEMMA CanvasesAreFollowed ==
  ASSUME Slack!SlackAssumption
  PROVE  Slack!Spec => []CanvasInvariant
<1>1. Slack!Init => CanvasInvariant
  BY CanvasWritesStart
<1>2. CanvasInvariant /\ [Slack!Next]_(Slack!vars) => CanvasInvariant'
  BY CanvasStepsKeep
<1>3. QED
  BY <1>1, <1>2, PTL DEF Slack!Spec

\* What an operation told as done was asked to write is on the canvas, unless a
\* person has changed it since, and a canvas is named archived only when its text
\* says so: however the requests of an operation are refused, lost or asked for anew.
THEOREM CanvasHoldsWhatIsTold ==
  ASSUME Slack!SlackAssumption
  PROVE  Slack!Spec => [](Slack!DoneIsOnTheCanvas /\ Slack!ArchivedSaysSo)
<1>1. CanvasInvariant => Slack!DoneIsOnTheCanvas /\ Slack!ArchivedSaysSo
  BY DEF CanvasInvariant
<1>2. QED
  BY <1>1, CanvasesAreFollowed, PTL

\* A write told as rejected has changed nothing, but for the fields: a stamp that
\* was put back stays when the new title is refused (a finding of the run
\* "ends").
THEOREM CanvasRejectionsLeaveNoTrace ==
  ASSUME Slack!SlackAssumption
  PROVE  Slack!Spec => [](op # "fields" => Slack!RejectedLeavesNoTrace)
<1>1. CanvasInvariant => (op # "fields" => Slack!RejectedLeavesNoTrace)
  BY DEF CanvasInvariant, LandedIsFollowed
<1>2. QED
  BY <1>1, CanvasesAreFollowed, PTL

\* A request that changes the body has made it what it sends.
LEMMA SendsMakeIt ==
  ASSUME NEW writes, NEW after, NEW next, Slack!Send(writes, after, next),
         canvas'.body # canvas.body
  PROVE  canvas' = after
BY DEF Slack!Send

\* The two ways in which a body that is sent accounts for a block that was read.
Accounted(c, n) ==
  \/ Slack!Holds(c, seen.body[n])
  \/ /\ n <= Len(read) /\ read[n] = seen.body[n]
     /\ op = "section" => seen.body[n].key \in DOMAIN wanted
     /\ op \in {"section", "content", "archive", "into"}

\* What the run read before of a canvas it reads again stands above the stamp.
LEMMA ReadAbove ==
  ASSUME CanvasInvariant, Slack!Content(seen) = read,
         NEW n \in DOMAIN seen.body, n <= Len(read)
  PROVE  read[n] = seen.body[n]
<1>1. seen.body \in Seq(Slack!Block)
  BY CanvasIs
<1>2. Len(read) \in Nat /\ n \in 1..Len(read)
  BY <1>1, ContentCut, LenProperties
<1>3. QED
  BY <1>1, <1>2, ContentCut

\* What the operation sends accounts for every block a person wrote.
LEMMA BodiesAccountForEdits ==
  ASSUME Slack!SlackAssumption, CanvasInvariant, canvas'.body # canvas.body,
         \/ Slack!SendContent \/ Slack!StampBack \/ Slack!UpdateLinks \/ Slack!ArchiveBody
         \/ Slack!ReleaseBody \/ Slack!CreateCanvas \/ Slack!CreateInto,
         NEW n \in DOMAIN seen.body, seen.body[n].text = "hand"
  PROVE  Accounted(canvas', n)
<1>1. /\ canvas \in Slack!Canvas /\ seen.body \in Seq(Slack!Block) /\ StampIsSingle(seen)
      /\ CanvasTypes
  BY CanvasIs DEF CanvasInvariant
<1>2. ASSUME NEW writes, NEW body, NEW next, Slack!ReplaceBody(writes, body, next)
      PROVE  canvas'.body = body
  <2>1. canvas' = [canvas EXCEPT !.body = body]
    BY <1>2, SendsMakeIt DEF Slack!ReplaceBody
  <2>2. QED
    BY <1>1, <2>1 DEF Slack!Canvas
<1>3. CASE Slack!SendContent
  <2>1. /\ pc = "send" /\ op \in {"section", "content"}
        /\ canvas'.body = Slack!Stamped(Slack!Swapped)
    BY <1>2, <1>3 DEF Slack!SendContent
  <2>2. Slack!Content(seen) = read
    BY <2>1 DEF CanvasInvariant, ReadingIsCurrent
  <2>3. \/ Slack!Holds(canvas', seen.body[n])
        \/ /\ n <= Len(Slack!Content(seen))
           /\ op = "section" => seen.body[n].key \in DOMAIN wanted
    BY <1>1, <2>1, SwappedBody
  <2>4. QED
    BY <2>1, <2>2, <2>3, ReadAbove DEF Accounted
<1>4. CASE Slack!StampBack
  <2>1. canvas'.body = Slack!Stamped(seen.body)
    BY <1>2, <1>4 DEF Slack!StampBack
  <2>2. QED
    BY <1>1, <2>1, StampedBody DEF Accounted
<1>5. CASE Slack!UpdateLinks
  <2>1. canvas'.body = IF Slack!StampAt(seen) = 0
                       THEN Append(seen.body, Slack!At("stamp", "linked"))
                       ELSE [seen.body EXCEPT ![Slack!StampAt(seen)] = Slack!At("stamp", "linked")]
    BY <1>2, <1>5 DEF Slack!UpdateLinks
  <2>2. QED
    BY <1>1, <2>1, LinkedBody DEF Accounted
<1>6. CASE Slack!ArchiveBody
  <2>1. /\ op = "archive" /\ (Slack!OpensWithTheLine(seen) \/ Slack!Content(seen) = read)
        /\ canvas'.body = Slack!ArchivedBody
    BY <1>2, <1>6 DEF Slack!ArchiveBody, Slack!Stop
  <2>2. \/ Slack!Holds(canvas', seen.body[n])
        \/ n <= Len(Slack!Content(seen)) /\ ~Slack!OpensWithTheLine(seen)
    BY <1>1, <2>1, ArchivedBodyIs
  <2>3. QED
    BY <1>6, <2>1, <2>2, ReadAbove DEF Accounted, Slack!ArchiveBody
<1>7. CASE Slack!ReleaseBody
  <2>1. canvas'.body = Slack!Kept
    BY <1>2, <1>7 DEF Slack!ReleaseBody, Slack!Stop
  <2>2. QED
    BY <1>1, <2>1, KeptBody DEF Accounted
<1>8. CASE Slack!CreateCanvas
  <2>1. seen.body = <<>>
    BY <1>8 DEF Slack!CreateCanvas, CanvasInvariant, ReadingIsCurrent
  <2>2. FALSE
    BY <2>1
  <2>3. QED
    BY <2>2
<1>9. CASE Slack!CreateInto
  <2>1. pc = "send" /\ op = "into"
    BY <1>9 DEF Slack!CreateInto
  <2>2. Slack!Content(seen) = read /\ Slack!StampAt(seen) = 0
    BY <2>1 DEF CanvasInvariant, ReadingIsCurrent
  <2>3. n <= Len(read)
    BY <1>1, <2>2, LenProperties DEF Slack!Content
  <2>4. QED
    BY <2>1, <2>2, <2>3, ReadAbove DEF Accounted
<1>10. QED
  BY <1>3, <1>4, <1>5, <1>6, <1>7, <1>8, <1>9

\* What changes the body of a canvas is a person, or a request with a body.
LEMMA OnlyTheseChangeBodies ==
  ASSUME CanvasInvariant, [Slack!Next]_(Slack!vars), canvas'.body # canvas.body, edits' = edits
  PROVE  \/ Slack!SendContent \/ Slack!StampBack \/ Slack!UpdateLinks \/ Slack!ArchiveBody
         \/ Slack!ReleaseBody \/ Slack!CreateCanvas \/ Slack!CreateInto
<1>1. canvas \in Slack!Canvas /\ edits \in Nat
  BY CanvasIs
<1>2. ~UNCHANGED Slack!vars
  BY DEF Slack!vars
<1>3. \A c : ~Slack!Person(c)
  BY <1>1 DEF Slack!Person
<1>4. ~(Slack!EditBlock \/ Slack!RemoveBlock \/ Slack!AddBlock \/ Slack!DeleteCanvas)
  BY <1>3 DEF Slack!EditBlock, Slack!RemoveBlock, Slack!AddBlock, Slack!DeleteCanvas
<1>5. \A outcome, next : ~Slack!Stop(outcome) /\ ~Slack!Read(next)
  BY DEF Slack!Stop, Slack!Read
<1>6. ~(\/ Slack!Begin \/ Slack!BeginFields \/ Slack!Look \/ Slack!Over \/ Slack!BeginArchive
        \/ Slack!ReadAgain)
  BY <1>5 DEF Slack!Begin, Slack!BeginFields, Slack!Look, Slack!Over, Slack!BeginArchive,
     Slack!ReadAgain
<1>7. ~Slack!ArchiveAgain /\ ~Slack!ReadFails
  BY DEF Slack!ArchiveAgain, Slack!ReadFails
<1>8. ~Slack!Retitle
  <2>1. \A t \in {"old", "new"} : [canvas EXCEPT !.title = t].body = canvas.body
    BY <1>1 DEF Slack!Canvas
  <2>2. ~Slack!Rename("new", "look")
    BY <2>1, SendsMakeIt DEF Slack!Rename
  <2>3. QED
    BY <2>2 DEF Slack!Retitle
<1>9. ~Slack!ArchiveName
  <2>1. [canvas EXCEPT !.marked = TRUE].body = canvas.body
    BY <1>1 DEF Slack!Canvas
  <2>2. QED
    BY <2>1, SendsMakeIt DEF Slack!ArchiveName
<1>10. QED
  BY <1>2, <1>4, <1>6, <1>7, <1>8, <1>9 DEF Slack!Next, Slack!Skaldr

\* Every block a person wrote and an operation read is in the body it sends, but
\* for what the run itself had read before, of the section or of the content that
\* is written: no whole body that is sent takes a note or a section with it.
THEOREM CanvasWritesKeepEdits ==
  ASSUME Slack!SlackAssumption
  PROVE  Slack!Spec => [][Slack!KeepsEdits]_(Slack!vars)
<1>1. CanvasInvariant /\ [Slack!Next]_(Slack!vars) => Slack!KeepsEdits
  <2>1. SUFFICES ASSUME CanvasInvariant, [Slack!Next]_(Slack!vars), NEW n \in DOMAIN seen.body,
                        seen.body[n].text = "hand", canvas'.body # canvas.body, edits' = edits
                 PROVE  Accounted(canvas', n)
    BY DEF Slack!KeepsEdits, Accounted
  <2>2. QED
    BY <2>1, OnlyTheseChangeBodies, BodiesAccountForEdits
<1>2. QED
  BY <1>1, CanvasesAreFollowed, PTL DEF Slack!Spec

==============================================================================
