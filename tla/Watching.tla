------------------------------ MODULE Watching --------------------------------
(***************************************************************************)
(* A content file and a part it includes, saved while skaldr renders them: *)
(* the --watch loop and --if-stale of cli.py.                              *)
(*                                                                         *)
(* Every write of a file has a modification time of its own, later than    *)
(* the ones before it.                                                     *)
(***************************************************************************)
EXTENDS Naturals, FiniteSets

CONSTANTS
  Command,      \* "watch" or "if-stale"
  EarlySaves,   \* whether files are saved before the loop has taken their times
  IncludeMoves, \* whether a save may change what the content file includes
  None,         \* no file, no time
  MaxWrites     \* bound: what is saved, and rendered

WatchAssumption ==
  /\ Command \in {"watch", "if-stale"}
  /\ EarlySaves \in BOOLEAN /\ IncludeMoves \in BOOLEAN
  /\ None \notin Nat /\ MaxWrites \in Nat

VARIABLES
  clock,     \* the time of the last write
  saved,     \* the time each file was saved at, None while it is being replaced
  valid,     \* whether it can be loaded
  includes,  \* whether the content file includes the part
  page,      \* the page: the saves it shows, the save its source is of, its time
  loaded,    \* what the render under way has loaded
  source,    \* the save of the content file it read as the source
  watched, last, current,  \* the loop's files, their times, the times it found
  pc,
  during     \* a file was saved while the last render was under way

vars == <<clock, saved, valid, includes, page, loaded, source, watched, last,
          current, pc, during>>
files == <<clock, saved, valid, includes, during>>

Files == {"main", "part"}
NoPage == [shows |-> None, source |-> None, time |-> None]

\* content_files: what the report is made of, when all of it can be loaded.
Uses == IF includes THEN {"main", "part"} ELSE {"main"}
CanLoad == \A f \in Uses : saved[f] # None /\ valid[f]
Times(fs) == [f \in fs |-> saved[f]]

Init ==
  /\ clock = 2 /\ saved = [f \in Files |-> IF f = "main" THEN 1 ELSE 2]
  /\ valid = [f \in Files |-> TRUE]
  /\ includes = TRUE
  /\ page = NoPage /\ loaded = None /\ source = None
  /\ watched = {} /\ last = None /\ current = None
  /\ pc = IF Command = "watch" THEN "load" ELSE "ask"
  /\ during = FALSE

------------------------------------------------------------------------------
(* The editor                                                                *)

MaySave == EarlySaves \/ Command # "watch" \/ last # None

Save ==
  /\ MaySave /\ clock < MaxWrites
  /\ \E f \in Files, ok \in BOOLEAN :
       /\ saved' = [saved EXCEPT ![f] = clock + 1]
       /\ valid' = [valid EXCEPT ![f] = ok]
       /\ includes' \in (IF f = "main" /\ IncludeMoves THEN BOOLEAN ELSE {includes})
  /\ clock' = clock + 1
  /\ during' = (during \/ pc \in {"source", "write"})
  /\ UNCHANGED <<page, loaded, source, watched, last, current, pc>>

\* A save that renames a new file into place: for a moment there is none.
Vanish ==
  /\ MaySave /\ clock < MaxWrites
  /\ \E f \in Files : saved[f] # None /\ saved' = [saved EXCEPT ![f] = None]
  /\ UNCHANGED <<clock, valid, includes, during, page, loaded, source, watched,
                 last, current, pc>>

------------------------------------------------------------------------------
(* _render_once                                                              *)

AfterRender == IF Command = "if-stale" THEN "ask"
               ELSE IF last = None THEN "resolve" ELSE "resolve again"

Load ==
  /\ pc = "load"
  /\ \/ CanLoad /\ loaded' = Times(Uses) /\ pc' = "source"
     \/ ~CanLoad /\ loaded' = None /\ pc' = AfterRender
  /\ during' = FALSE
  /\ UNCHANGED <<clock, saved, valid, includes, page, source, watched, last, current>>

\* The embedded source is read for itself.
ReadSource ==
  /\ pc = "source"
  /\ \/ saved["main"] # None /\ source' = saved["main"] /\ pc' = "write"
     \/ saved["main"] = None /\ pc' = AfterRender /\ UNCHANGED source
  /\ UNCHANGED <<files, page, loaded, watched, last, current>>

WritePage ==
  /\ pc = "write"
  /\ page' = [shows |-> loaded, source |-> source, time |-> clock + 1]
  /\ clock' = clock + 1
  /\ pc' = AfterRender
  /\ UNCHANGED <<saved, valid, includes, during, loaded, source, watched, last, current>>

------------------------------------------------------------------------------
(* _watch                                                                    *)

\* _watched_files: the files of before while they cannot be loaded.
Resolved == IF CanLoad THEN Uses ELSE IF watched = {} THEN {"main"} ELSE watched

Resolve ==
  /\ pc = "resolve"
  /\ watched' = Resolved /\ pc' = "times"
  /\ UNCHANGED <<files, page, loaded, source, last, current>>

TakeTimes ==
  /\ pc = "times"
  /\ last' = Times(watched) /\ pc' = "poll"
  /\ UNCHANGED <<files, page, loaded, source, watched, current>>

\* A file that is gone for a moment is waited for.
Changed(times) == None \notin {times[f] : f \in DOMAIN times} /\ times # last

Poll ==
  /\ pc = "poll" /\ Changed(Times(watched))
  /\ current' = Times(watched) /\ pc' = "load"
  /\ UNCHANGED <<files, page, loaded, source, watched, last>>

\* Mutant: the times after the render are remembered.
ResolveLate ==
  /\ pc = "resolve again"
  /\ watched' = Resolved /\ pc' = "times"
  /\ UNCHANGED <<files, page, loaded, source, last, current>>

\* The times found before the render are kept, unless the files are others.
ResolveAgain ==
  /\ pc = "resolve again"
  /\ watched' = Resolved
  /\ \/ Resolved = watched /\ last' = current /\ pc' = "poll"
     \/ Resolved # watched /\ pc' = "times" /\ UNCHANGED last
  /\ UNCHANGED <<files, page, loaded, source, current>>

------------------------------------------------------------------------------
(* --if-stale                                                                *)

\* _is_stale, with the options of the page the ones asked for.
IsStale ==
  ~ /\ page.time # None
    /\ CanLoad
    /\ \A f \in Uses : saved[f] <= page.time

Ask ==
  /\ pc = "ask" /\ IsStale
  /\ pc' = "load"
  /\ UNCHANGED <<files, page, loaded, source, watched, last, current>>

------------------------------------------------------------------------------

Skaldr == Load \/ ReadSource \/ WritePage \/ Resolve \/ TakeTimes \/ Poll
          \/ ResolveAgain \/ Ask

Next == Skaldr \/ Save \/ Vanish

Spec == Init /\ [][Next]_vars

------------------------------------------------------------------------------
(* Properties                                                                *)

TypeOK ==
  /\ page.time = None <=> page.shows = None
  /\ page.time # None => page.time <= clock
  /\ (pc = "poll") => last # None /\ DOMAIN last = watched
  /\ \A f \in Files : saved[f] = None \/ saved[f] \in 1..clock

Current == page.shows = Times(Uses) /\ page.source = saved["main"]

\* README.md, --watch: the page is rendered again on every save.  When what is
\* there can be loaded, the page has to come to show it.
Shown == CanLoad => Current

\* A page that is not stale is the page of what is saved, if nothing was saved
\* while it was rendered.
FreshIsCurrent == pc = "ask" /\ ~IsStale /\ ~during => Current

==============================================================================
