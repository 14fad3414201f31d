------------------------------ MODULE ExportFiles ------------------------------
(***************************************************************************)
(* The folder an export is written to, and the list it keeps of what       *)
(* skaldr wrote there.  A run writes file after file, each followed by the *)
(* list, then removes what an earlier run wrote and this one did not; it   *)
(* may stop between any two of these steps, and people use the folder.     *)
(* How one file is replaced is module ReplaceFile's.                       *)
(***************************************************************************)
EXTENDS Naturals, FiniteSets, Sequences, SequencesExt

CONSTANTS
  Exports,  \* what may be exported: its file names in order, images first
  MaxEdits, \* bound: what people do
  MaxRuns   \* bound: exports

\* An export is a sequence of names.
FolderAssumption == \A e \in Exports : e \in Seq(STRING)

VARIABLES
  files,   \* name -> who wrote what stands under it: nobody, skaldr, people, folder
  listed,  \* .skaldr-export.json: the names on it
  readable,\* and whether it can be read
  run,     \* the export under way
  begun,   \* the files and the list when it began
  theirs,  \* the names people touched since
  edits, runs

vars == <<files, listed, readable, run, begun, theirs, edits, runs>>

Names == UNION {ToSet(e) : e \in Exports}
Idle == [at |-> "idle", names |-> <<>>, left |-> <<>>, earlier |-> {}]

Init ==
  /\ files \in [Names -> {"nobody", "people"}]
  /\ listed = {} /\ readable = TRUE
  /\ run = Idle /\ theirs = {}
  /\ begun = [files |-> files, listed |-> {}]
  /\ edits = 0 /\ runs = 0

------------------------------------------------------------------------------
(* People                                                                    *)

Use(name, as) ==
  /\ edits < MaxEdits /\ edits' = edits + 1
  /\ files[name] # as /\ files' = [files EXCEPT ![name] = as]
  /\ theirs' = theirs \cup {name}
  /\ UNCHANGED <<listed, readable, run, begun, runs>>

Put == \E n \in Names, as \in {"people", "folder", "nobody"} : Use(n, as)

Spoil ==
  /\ edits < MaxEdits /\ edits' = edits + 1
  /\ listed # {} /\ readable /\ readable' = FALSE
  /\ UNCHANGED <<files, listed, run, begun, theirs, runs>>

------------------------------------------------------------------------------
(* An export                                                                 *)

\* _earlier_export
EarlierExport == IF readable THEN listed ELSE {}

\* _is_taken_by_something_skaldr_did_not_write
IsTaken(name, earlier) == name \notin earlier /\ files[name] # "nobody"

\* Mutant: whatever a list names may be written over.
RefusesFolders(names, earlier) == \E n \in ToSet(names) : files[n] = "folder"

\* _refuse_to_overwrite_what_skaldr_did_not_write
Refuses(names, earlier) ==
  \E n \in ToSet(names) : files[n] = "folder" \/ IsTaken(n, earlier)

Begin ==
  /\ run.at \in {"idle", "done"} /\ runs < MaxRuns /\ runs' = runs + 1
  /\ \E names \in Exports :
       run' = IF Refuses(names, EarlierExport) THEN Idle
              ELSE [at |-> "write", names |-> names, left |-> names, earlier |-> EarlierExport]
  /\ begun' = [files |-> files, listed |-> EarlierExport] /\ theirs' = {}
  /\ UNCHANGED <<files, listed, readable, edits>>

Written == ToSet(SubSeq(run.names, 1, Len(run.names) - Len(run.left)))

\* _write_manifest
WriteManifest(names) == listed' = names /\ readable' = TRUE

\* replace_bytes, replace_file
Write ==
  /\ run.at = "write" /\ run.left # <<>> /\ files[run.left[1]] # "folder"
  /\ files' = [files EXCEPT ![run.left[1]] = "skaldr"]
  /\ run' = [run EXCEPT !.at = "list", !.left = Tail(@)]
  /\ UNCHANGED <<listed, readable, begun, theirs, edits, runs>>

List ==
  /\ run.at = "list"
  /\ WriteManifest(run.earlier \cup Written)
  /\ run' = [run EXCEPT !.at = IF run.left = <<>> THEN "remove" ELSE "write"]
  /\ UNCHANGED <<files, begun, theirs, edits, runs>>

Stale == run.earlier \ ToSet(run.names)

\* What is no longer a file is left.
Unlink ==
  /\ run.at = "remove" /\ Stale # {}
  /\ \E name \in Stale :
       /\ files' = [files EXCEPT ![name] = IF @ = "folder" THEN @ ELSE "nobody"]
       /\ run' = [run EXCEPT !.earlier = @ \ {name}]
  /\ UNCHANGED <<listed, readable, begun, theirs, edits, runs>>

Finish ==
  /\ run.at = "remove" /\ Stale = {}
  /\ WriteManifest(ToSet(run.names))
  /\ run' = [run EXCEPT !.at = "done"]
  /\ UNCHANGED <<files, begun, theirs, edits, runs>>

\* A step fails or the process ends.
Stop ==
  /\ run.at \notin {"idle", "done"} /\ run' = Idle
  /\ UNCHANGED <<files, listed, readable, begun, theirs, edits, runs>>

Next == Put \/ Spoil \/ Begin \/ Write \/ List \/ Unlink \/ Finish \/ Stop

Spec == Init /\ [][Next]_vars

------------------------------------------------------------------------------
(* Properties                                                                *)

\* A run replaces and removes nothing that stood in the folder when it began
\* and was not on the list (_refuse_to_overwrite_what_skaldr_did_not_write).
OthersFilesStay ==
  \A n \in Names \ (begun.listed \cup theirs) :
    begun.files[n] # "nobody" => files[n] = begun.files[n]

\* A finished export leaves its own files, none of those an earlier list named,
\* and a list of exactly that.
DoneLeavesTheExport ==
  run.at = "done" /\ readable =>
    /\ listed = ToSet(run.names)
    /\ \A n \in ToSet(run.names) \ theirs : files[n] = "skaldr"
    /\ \A n \in begun.listed \ (ToSet(run.names) \cup theirs) : files[n] # "skaldr"

\* Wherever a run stops, what an earlier run listed and is still there stays on
\* the list, so that the next run can remove it.
KeepsStaleListed ==
  \A n \in listed \ listed' : readable => files'[n] # "skaldr" \/ n \in theirs'

==============================================================================
