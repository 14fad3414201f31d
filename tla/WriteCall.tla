----------------------------- MODULE WriteCall -------------------------------
(***************************************************************************)
(* What a caller of a service client may rely on when it sends a write:    *)
(* the change lands at most once; "done" means it has landed; "rejected",  *)
(* "missing" and "auth" mean that it has not and never will; "failed" says *)
(* nothing, the change may even land later.                                *)
(***************************************************************************)
EXTENDS Naturals

CONSTANT None

VARIABLES landed, outcome

Without == {"rejected", "missing", "auth"}

Init == landed = 0 /\ outcome = None

Land ==
  /\ landed = 0
  /\ outcome \in {None, "failed"}
  /\ landed' = 1
  /\ UNCHANGED outcome

End ==
  /\ outcome = None
  /\ \/ outcome' = "done" /\ landed = 1
     \/ outcome' \in Without /\ landed = 0
     \/ outcome' = "failed"
  /\ UNCHANGED landed

\* The next call.
Again == outcome # None /\ landed' = 0 /\ outcome' = None

Spec == Init /\ [][Land \/ End \/ Again]_<<landed, outcome>>

==============================================================================
