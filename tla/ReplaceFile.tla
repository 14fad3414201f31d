----------------------------- MODULE ReplaceFile ------------------------------
(***************************************************************************)
(* replace_file.py: how skaldr writes a file of its own, system call by    *)
(* system call, with calls that fail and a machine that stops at any of    *)
(* them.                                                                   *)
(***************************************************************************)
EXTENDS Naturals, TLAPS

CONSTANTS
  Modes,      \* "staged", "in place" and "create": the ways of writing asked for
  None,       \* no file
  MaxFaults   \* bound: calls that fail

FileAssumption ==
  /\ Modes \subseteq {"staged", "in place", "create"}
  /\ None \notin {"old", "new", "half", "other", "done", "failed", "refused"}
  /\ MaxFaults \in Nat

\* "half" is any part of what was to be written, an empty file included;
\* "other" what another program put there.
Data == {"old", "new", "half", "other", None}

VARIABLES
  mode,      \* the way of writing
  file,      \* what a reader of the path finds
  disk,      \* what the path may hold after the machine has stopped
  staged,    \* the file in the staging directory: its data, and whether flushed
  pc, told,  \* where the call stands, and how it ended
  flushed,   \* the directory was flushed
  up,        \* the machine has not stopped
  faults

vars == <<mode, file, disk, staged, pc, told, flushed, up, faults>>

NoStage == [data |-> None, kept |-> FALSE]

\* A read-only file and a directory are refused before: file is a plain one or
\* none.  One with another hard link, or in a folder that takes no new file, is
\* written in place (_rewrite_in_place); a folder like that cannot take a file
\* that is not there either.
Init ==
  /\ mode \in Modes
  /\ file \in (IF mode = "in place" THEN {"old"} ELSE {"old", None})
  /\ disk = {file}
  /\ staged = NoStage /\ pc = "begin" /\ told = None
  /\ flushed = FALSE /\ up = TRUE /\ faults = 0

Fails == up /\ faults < MaxFaults /\ faults' = faults + 1

End(how) == pc' = "ended" /\ told' = how

\* An error ends the call; what the path holds is left alone.
Gives(next) == Fails /\ pc' = next /\ UNCHANGED <<mode, file, disk, staged, told, flushed, up>>

Step(at, next) == up /\ pc = at /\ pc' = next /\ UNCHANGED <<mode, told, up, faults>>

------------------------------------------------------------------------------
(* replace_bytes, by a staged file                                           *)

\* _write_and_flush
Stage ==
  /\ Step("begin", "move") /\ mode = "staged"
  /\ staged' = [data |-> "new", kept |-> TRUE]
  /\ UNCHANGED <<file, disk, flushed>>

\* The staging directory goes with all that is in it.
StageFails == mode = "staged" /\ pc \in {"begin", "move"} /\ Gives("failed")

\* staged.replace(path)
Move ==
  /\ Step("move", "directory") /\ mode = "staged"
  /\ file' = staged.data
  /\ disk' = disk \cup (IF staged.kept THEN {"new"} ELSE {"new", "half", None})
  /\ staged' = NoStage
  /\ UNCHANGED flushed

\* _flush_directory: an error is suppressed.
FlushDirectory ==
  \/ /\ Step("directory", "done")
     /\ disk' = {file} /\ flushed' = TRUE
     /\ UNCHANGED <<file, staged>>
  \/ pc = "directory" /\ Gives("done")

------------------------------------------------------------------------------
(* replace_bytes, in place                                                   *)

\* path.write_bytes empties the file and fills it.
WriteInPlace ==
  /\ mode = "in place"
  /\ \/ Step("begin", "fill") /\ file' = "half"
     \/ Step("fill", "flush") /\ file' = "new"
  /\ disk' = disk \cup {"half", file'}
  /\ UNCHANGED <<staged, flushed>>

Flush ==
  /\ Step("flush", IF mode = "create" THEN "directory" ELSE "done")
  /\ disk' = {file} \cup (IF mode = "create" THEN {None} ELSE {})
  /\ UNCHANGED <<file, staged, flushed>>

\* Mutant: what the file held is not put back.
NotRestored == mode = "in place" /\ pc \in {"begin", "fill", "flush"} /\ Gives("failed")

WriteFails == mode = "in place" /\ pc \in {"begin", "fill", "flush"} /\ Gives("restore")

\* The earlier bytes go back; an error there is suppressed.
Restore ==
  /\ mode = "in place"
  /\ \/ /\ Step("restore", "failed")
        /\ file' = "old" /\ disk' = disk \cup {"half", "old"}
        /\ UNCHANGED <<staged, flushed>>
     \/ pc = "restore" /\ Gives("failed")

------------------------------------------------------------------------------
(* create_file                                                               *)

\* path.open("xb"): TargetAlreadyExistsError for a file that is there.
Open ==
  /\ mode = "create"
  /\ \/ /\ file = None
        /\ Step("begin", "fill") /\ file' = "half" /\ disk' = disk \cup {"half"}
     \/ /\ file # None
        /\ Step("begin", "refused")
        /\ UNCHANGED <<file, disk>>
  /\ UNCHANGED <<staged, flushed>>

Fill ==
  /\ mode = "create"
  /\ Step("fill", "flush") /\ file' = "new" /\ disk' = disk \cup {"new"}
  /\ UNCHANGED <<staged, flushed>>

FillFails == mode = "create" /\ pc \in {"fill", "flush"} /\ Gives("unlink")

\* What was created is taken away again; an error there is suppressed.
Unlink ==
  \/ /\ Step("unlink", "failed")
     /\ file' = None /\ disk' = disk \cup {None}
     /\ UNCHANGED <<staged, flushed>>
  \/ pc = "unlink" /\ Gives("failed")

------------------------------------------------------------------------------

Return ==
  /\ up /\ pc \in {"done", "failed", "refused"}
  /\ End(pc)
  /\ UNCHANGED <<mode, file, disk, staged, flushed, up, faults>>

\* The machine stops, and comes back with what it kept.
Crash ==
  /\ up /\ up' = FALSE
  /\ file' \in disk /\ disk' = {file'}
  /\ staged' = NoStage
  /\ UNCHANGED <<mode, pc, told, flushed, faults>>

\* Another program creates the file.
Other ==
  /\ up /\ file = None /\ pc = "begin"
  /\ file' = "other" /\ disk' = {"other"}
  /\ UNCHANGED <<mode, staged, pc, told, flushed, up, faults>>

Next ==
  \/ Stage \/ StageFails \/ Move \/ FlushDirectory
  \/ WriteInPlace \/ Flush \/ WriteFails \/ Restore
  \/ Open \/ Fill \/ FillFails \/ Unlink
  \/ Return \/ Crash \/ Other

Spec == Init /\ [][Next]_vars

------------------------------------------------------------------------------
(* Properties                                                                *)

TypeOK ==
  /\ file \in Data /\ disk \subseteq Data /\ (up => file \in disk)
  /\ staged \in [data : {"new", None}, kept : BOOLEAN]
  /\ told \in {None, "done", "failed", "refused"}
  /\ told = None <=> pc # "ended"

\* A file that is replaced through a staged one is never half a file, to a
\* reader at any moment or after the machine has stopped.
ReplacedWhole == mode = "staged" => file # "half" /\ "half" \notin disk

\* A call that failed once leaves what was there, in place too.
FailedLeavesEarlier ==
  told = "failed" /\ up /\ faults <= 1 => file \in {"old", "other", None}

\* What is told as written is on disk: a machine that stops right after keeps
\* it, unless the directory could not be flushed.
DoneIsKept ==
  told = "done" =>
    \/ file = "new"
    \/ ~flushed /\ mode # "in place" /\ file \in {"old", "other", None}

\* The three together: what a caller of replace_file may rely on.
WholeFiles == ReplacedWhole /\ FailedLeavesEarlier /\ DoneIsKept

\* create_file replaces no file, not even one that appeared while it ran.
CreateReplacesNothing ==
  mode = "create" /\ file \in {"old", "other"} => file' = file

------------------------------------------------------------------------------
(* The inductive invariant                                                   *)

Earlier == {"old", "other", None}

Ends(how) == pc = how \/ told = how

\* A staged file is moved whole; what may be on disk is known place by place.
StagedOK ==
  mode = "staged" =>
    /\ pc \in {"begin", "move", "directory", "done", "failed", "ended"}
    /\ disk \subseteq Earlier \cup {"new"} /\ file \in Earlier \cup {"new"}
    /\ up /\ pc = "move" => staged.data = "new" /\ staged.kept
    /\ pc \in {"begin", "move"} \/ Ends("failed") =>
         disk \subseteq Earlier /\ file \in Earlier
    /\ up /\ (pc = "directory" \/ Ends("done")) => file = "new"
    /\ flushed => Ends("done")
    /\ Ends("done") /\ flushed => disk = {"new"} /\ file = "new"

\* Only a second failure keeps the earlier bytes from going back.
InPlaceOK ==
  mode = "in place" =>
    /\ pc \in {"begin", "fill", "flush", "done", "restore", "failed", "ended"}
    /\ up /\ pc = "flush" => file = "new"
    /\ Ends("done") => disk = {"new"} /\ file = "new"
    /\ pc = "restore" => faults # 0
    /\ up /\ Ends("failed") /\ faults \in {0, 1} => file = "old"

\* What was there before a create stays where it is; what it made it takes away.
CreateOK ==
  mode = "create" =>
    /\ pc \in {"begin", "fill", "flush", "directory", "done", "unlink", "failed",
               "refused", "ended"}
    /\ up /\ file \in {"old", "other"} =>
         disk = {file} /\ (pc \in {"begin", "refused"} \/ told = "refused")
    /\ up /\ (pc \in {"flush", "directory"} \/ Ends("done")) => file = "new"
    /\ pc = "directory" \/ Ends("done") =>
         disk \subseteq {"new", None} /\ file \in {"new", None}
    /\ flushed => Ends("done")
    /\ Ends("done") /\ flushed => disk = {"new"} /\ file = "new"
    /\ pc = "unlink" => faults # 0
    /\ up /\ Ends("failed") /\ faults \in {0, 1} => file = None

Typed == TypeOK /\ mode \in Modes /\ faults \in Nat /\ up \in BOOLEAN /\ flushed \in BOOLEAN

Inductive == Typed /\ StagedOK /\ InPlaceOK /\ CreateOK

------------------------------------------------------------------------------
(* Theorems                                                                  *)

LEMMA AFaultCounts ==
  ASSUME faults \in Nat, Fails
  PROVE  up /\ faults' \in Nat \ {0} /\ (faults # 0 => faults' \notin {0, 1})
BY DEF Fails

LEMMA TypesAreKept ==
  ASSUME FileAssumption, Typed, StagedOK, Next
  PROVE  Typed' /\ mode' = mode
<1> USE AFaultCounts DEF FileAssumption, Typed, TypeOK, Data, NoStage, End, Gives, Step
<1>1. CASE Stage
  BY <1>1 DEF Stage
<1>2. CASE StageFails
  BY <1>2 DEF StageFails
<1>3. CASE Move
  <2>1. staged.data = "new" /\ staged.kept /\ up /\ pc = "move" /\ mode = "staged"
    BY <1>3 DEF Move, StagedOK
  <2>2. file' = "new" /\ disk' = disk \cup {"new"} /\ pc' = "directory"
    BY <1>3, <2>1 DEF Move
  <2>3. QED
    BY <1>3, <2>1, <2>2 DEF Move
<1>4. CASE FlushDirectory
  BY <1>4 DEF FlushDirectory
<1>5. CASE WriteInPlace
  BY <1>5 DEF WriteInPlace
<1>6. CASE Flush
  BY <1>6 DEF Flush
<1>7. CASE WriteFails
  BY <1>7 DEF WriteFails
<1>8. CASE Restore
  BY <1>8 DEF Restore
<1>9. CASE Open
  BY <1>9 DEF Open
<1>10. CASE Fill
  BY <1>10 DEF Fill
<1>11. CASE FillFails
  BY <1>11 DEF FillFails
<1>12. CASE Unlink
  BY <1>12 DEF Unlink
<1>13. CASE Return
  BY <1>13 DEF Return
<1>14. CASE Crash
  BY <1>14 DEF Crash
<1>15. CASE Other
  BY <1>15 DEF Other
<1>16. QED
  BY <1>1, <1>2, <1>3, <1>4, <1>5, <1>6, <1>7, <1>8, <1>9, <1>10, <1>11, <1>12, <1>13, <1>14, <1>15 DEF Next

LEMMA StagedSteps ==
  ASSUME FileAssumption, Typed, StagedOK, mode = "staged", Next
  PROVE  StagedOK'
<1> USE AFaultCounts DEF FileAssumption, Typed, TypeOK, StagedOK, Earlier, Ends, NoStage, End, Gives, Step
<1>1. CASE Stage
  BY <1>1 DEF Stage
<1>2. CASE StageFails
  BY <1>2 DEF StageFails
<1>3. CASE Move
  <2>1. staged.data = "new" /\ staged.kept /\ up /\ pc = "move" /\ mode = "staged"
    BY <1>3 DEF Move, StagedOK
  <2>2. file' = "new" /\ disk' = disk \cup {"new"} /\ pc' = "directory"
    BY <1>3, <2>1 DEF Move
  <2>3. QED
    BY <1>3, <2>1, <2>2 DEF Move
<1>4. CASE FlushDirectory
  BY <1>4 DEF FlushDirectory
<1>5. CASE Return
  BY <1>5 DEF Return
<1>6. CASE Crash
  BY <1>6 DEF Crash
<1>7. CASE Other
  BY <1>7 DEF Other
<1>8. ~(WriteInPlace \/ Flush \/ WriteFails \/ Restore \/ Open \/ Fill \/ FillFails \/ Unlink)
  BY DEF WriteInPlace, Flush, WriteFails, Restore, Open, Fill, FillFails, Unlink
<1>9. QED
  BY <1>1, <1>2, <1>3, <1>4, <1>5, <1>6, <1>7, <1>8 DEF Next

LEMMA InPlaceSteps ==
  ASSUME FileAssumption, Typed, InPlaceOK, mode = "in place", Next
  PROVE  InPlaceOK'
<1> USE AFaultCounts DEF FileAssumption, Typed, TypeOK, InPlaceOK, Earlier, Ends, NoStage, End, Gives, Step
<1>1. CASE WriteInPlace
  BY <1>1 DEF WriteInPlace
<1>2. CASE Flush
  BY <1>2 DEF Flush
<1>3. CASE WriteFails
  BY <1>3 DEF WriteFails
<1>4. CASE Restore
  BY <1>4 DEF Restore
<1>5. CASE Return
  BY <1>5 DEF Return
<1>6. CASE Crash
  BY <1>6 DEF Crash
<1>7. CASE Other
  BY <1>7 DEF Other
<1>8. ~(Stage \/ StageFails \/ Move \/ FlushDirectory \/ Open \/ Fill \/ FillFails \/ Unlink)
  BY DEF Stage, StageFails, Move, FlushDirectory, Open, Fill, FillFails, Unlink
<1>9. QED
  BY <1>1, <1>2, <1>3, <1>4, <1>5, <1>6, <1>7, <1>8 DEF Next

LEMMA CreateSteps ==
  ASSUME FileAssumption, Typed, CreateOK, mode = "create", Next
  PROVE  CreateOK' /\ CreateReplacesNothing
<1> USE AFaultCounts DEF FileAssumption, Typed, TypeOK, CreateOK, Earlier, Ends, NoStage, End, Gives, Step, CreateReplacesNothing
<1>1. CASE Open
  BY <1>1 DEF Open
<1>2. CASE Fill
  BY <1>2 DEF Fill
<1>3. CASE FillFails
  BY <1>3 DEF FillFails
<1>4. CASE Flush
  <2>1. disk' = {"new", None} /\ file' = "new" /\ file = "new" /\ pc' = "directory"
    BY <1>4 DEF Flush
  <2>2. QED
    BY <1>4, <2>1 DEF Flush
<1>5. CASE FlushDirectory
  <2>1. pc = "directory" /\ up /\ pc' = "done" /\ file' = "new" /\ file = "new"
    BY <1>5 DEF FlushDirectory
  <2>2. disk' = {"new"} \/ (disk' = disk /\ ~flushed')
    BY <1>5, <2>1 DEF FlushDirectory
  <2>3. QED
    BY <1>5, <2>1, <2>2 DEF FlushDirectory
<1>6. CASE Unlink
  <2>1. pc = "unlink" /\ up /\ pc' = "failed" /\ UNCHANGED <<told, flushed, up>> /\ faults # 0
    BY <1>6 DEF Unlink
  <2>2. \/ file' = None /\ disk' = disk \cup {None} /\ faults' = faults
        \/ file' = file /\ disk' = disk /\ faults' \notin {0, 1}
    BY <1>6, <2>1 DEF Unlink
  <2>3. QED
    BY <2>1, <2>2, TypesAreKept DEF StagedOK
<1>7. CASE Return
  BY <1>7 DEF Return
<1>8. CASE Crash
  BY <1>8 DEF Crash
<1>9. CASE Other
  BY <1>9 DEF Other
<1>10. ~(Stage \/ StageFails \/ Move \/ WriteInPlace \/ WriteFails \/ Restore)
  BY DEF Stage, StageFails, Move, WriteInPlace, WriteFails, Restore
<1>11. QED
  BY <1>1, <1>2, <1>3, <1>4, <1>5, <1>6, <1>7, <1>8, <1>9, <1>10 DEF Next

LEMMA StepsKeepTheInvariant ==
  ASSUME FileAssumption, Inductive, Next
  PROVE  Inductive' /\ CreateReplacesNothing
<1>1. Typed' /\ mode' = mode
  BY TypesAreKept DEF Inductive
<1>2. CASE mode = "staged"
  BY <1>1, <1>2, StagedSteps DEF Inductive, InPlaceOK, CreateOK, CreateReplacesNothing
<1>3. CASE mode = "in place"
  BY <1>1, <1>3, InPlaceSteps DEF Inductive, StagedOK, CreateOK, CreateReplacesNothing
<1>4. CASE mode = "create"
  BY <1>1, <1>4, CreateSteps DEF Inductive, StagedOK, InPlaceOK
<1>5. QED
  BY <1>2, <1>3, <1>4 DEF Inductive, Typed, FileAssumption

LEMMA FileInvariant ==
  ASSUME FileAssumption PROVE Spec => []Inductive
<1>1. Init => Inductive
  <2> SUFFICES ASSUME Init PROVE Inductive
    OBVIOUS
  <2> USE DEF FileAssumption, Init, Data, Earlier, Ends, NoStage
  <2>1. Typed
    BY DEF Typed, TypeOK
  <2>2. StagedOK
    BY DEF StagedOK
  <2>3. InPlaceOK
    BY DEF InPlaceOK
  <2>4. CreateOK
    BY DEF CreateOK
  <2>5. QED
    BY <2>1, <2>2, <2>3, <2>4 DEF Inductive
<1>2. Inductive /\ [Next]_vars => Inductive'
  <2> SUFFICES ASSUME Inductive, UNCHANGED vars PROVE Inductive'
    BY StepsKeepTheInvariant
  <2> USE DEF vars, Inductive, Ends
  <2>1. Typed'
    BY DEF Typed, TypeOK
  <2>2. StagedOK'
    BY DEF StagedOK
  <2>3. InPlaceOK'
    BY DEF InPlaceOK
  <2>4. CreateOK'
    BY DEF CreateOK
  <2>5. QED
    BY <2>1, <2>2, <2>3, <2>4
<1>3. QED
  BY <1>1, <1>2, PTL DEF Spec

LEMMA AtMostOne == ASSUME NEW n \in Nat, n <= 1 PROVE n \in {0, 1}
OBVIOUS

LEMMA WhatFollows ==
  ASSUME FileAssumption, Inductive
  PROVE  ReplacedWhole /\ FailedLeavesEarlier /\ DoneIsKept
<1> USE DEF FileAssumption, Inductive, Typed, StagedOK, InPlaceOK, CreateOK, Earlier, Ends
<1>1. ReplacedWhole
  BY DEF ReplacedWhole
<1>2. FailedLeavesEarlier
  <2>1. faults <= 1 => faults \in {0, 1}
    BY AtMostOne
  <2>2. QED
    BY <2>1 DEF FailedLeavesEarlier
<1>3. DoneIsKept
  BY DEF DoneIsKept
<1>4. QED
  BY <1>1, <1>2, <1>3

\* A replaced file is whole at any moment and after any stop, a call that failed
\* once has put back what was there, and what was told as written is kept.
THEOREM FilesAreWhole ==
  ASSUME FileAssumption
  PROVE  Spec => []WholeFiles
BY WhatFollows, FileInvariant, PTL DEF WholeFiles

\* A create never replaces a file, not one that appears before it opens either.
THEOREM CreatesReplaceNothing ==
  ASSUME FileAssumption PROVE Spec => [][CreateReplacesNothing]_vars
<1>1. Inductive /\ [Next]_vars => [CreateReplacesNothing]_vars
  BY StepsKeepTheInvariant
<1>2. QED
  BY <1>1, FileInvariant, PTL DEF Spec

==============================================================================
