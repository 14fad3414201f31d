------------------------------- MODULE SignIns -------------------------------
(***************************************************************************)
(* What the credential store promises its callers: a map of names to       *)
(* sign-ins in which every change is a single step, whatever the store     *)
(* does underneath.  A logout removes a sign-in only while the entry still *)
(* holds what the logout read; a sign-in an earlier skaldr left is gone    *)
(* only once another name holds it.                                        *)
(***************************************************************************)
CONSTANTS Procs, Names, Legacy, Secrets, None

VARIABLES
  kept,   \* the sign-in under each name
  seen    \* the entry each command found, and what it held

Entries == [name : Names \cup {Legacy}, raw : Secrets]

Init ==
  /\ kept \in [Names \cup {Legacy} -> Secrets \cup {None}]
  /\ seen = [p \in Procs |-> None]

Find(p) ==
  /\ \E e \in Entries \cup {None} : seen' = [seen EXCEPT ![p] = e]
  /\ UNCHANGED kept

Save(n, s) ==
  /\ kept' = [kept EXCEPT ![n] = s]
  /\ UNCHANGED seen

Remove(p) ==
  /\ seen[p] # None
  /\ kept[seen[p].name] = seen[p].raw
  /\ kept' = [kept EXCEPT ![seen[p].name] = None]
  /\ UNCHANGED seen

DropMoved ==
  /\ \E n \in Names : kept[n] = kept[Legacy]
  /\ kept' = [kept EXCEPT ![Legacy] = None]
  /\ UNCHANGED seen

Next ==
  \/ \E p \in Procs : Find(p) \/ Remove(p)
  \/ \E n \in Names, s \in Secrets : Save(n, s)
  \/ DropMoved

Spec == Init /\ [][Next]_<<kept, seen>>

==============================================================================
