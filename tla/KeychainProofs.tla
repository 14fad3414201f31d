---------------------------- MODULE KeychainProofs ----------------------------
(***************************************************************************)
(* What is proved of Keychain, for any processes, sites, names and         *)
(* sign-ins.  One invariant joins what the operations rely on: that the    *)
(* holder of the lock is the only one at work, that what is being moved,   *)
(* set or deleted is what was read, and that what a command remembers is   *)
(* still so where it matters.  A part that a refused delete or an earlier  *)
(* skaldr can break is claimed while neither has happened.                 *)
(*                                                                         *)
(* The last section is about Callback, the listener of a sign-in; `at` are *)
(* the places of its handlers there, and of the commands in all others.    *)
(***************************************************************************)
EXTENDS Keychain, TLAPS

------------------------------------------------------------------------------
(* The inductive invariant                                                   *)

\* Only the command that holds the lock is in an operation.
OneAtWork ==
  \A p \in Procs : at[p] \notin {"idle", "thinking", "asked"} => lock = p

\* What a command asks for, or is doing, is complete; a logout has an entry only
\* with what it held, and forgets no other.
JobFits ==
  \A p \in Procs : LET j == job[p] IN
    /\ at[p] = "idle" => j = NoJob
    /\ at[p] = "asked" => j.op # None
    /\ j.op = None => j.entry = None
    /\ j.op = "named" => j.name \in Names
    /\ j.op = "save" => j.secret \in Current /\ j.cmd # "logout"
    /\ at[p] \in {"migrate", "move", "drop", "look"} => j.op \in {"entries", "save"}
    /\ at[p] = "name" => j.op = "named"
    /\ at[p] \in {"list", "set"} => j.op = "save"
    /\ at[p] \in {"set", "move", "drop"} => j.name \in Names
    /\ at[p] \in {"check", "delete", "unlist"} => j.op = "forget"
    /\ j.op = "forget" => j.cmd = "logout" /\ j.entry # None
    /\ j.cmd = "logout" /\ j.entry # None => j.raw # None
    /\ j.cmd = "logout" /\ at[p] \notin {"idle", "thinking", "answered"} /\ j.op # "forget"
         => j.entry = None

\* What a logout is about to delete is what it found, or nothing.
DeletesWhatItFound ==
  \A p \in Procs : at[p] = "delete" => item[job[p].entry] \in {None, job[p].raw}

\* A remembered secret of the old item is being moved; past that the command
\* takes it for gone.
LegacyIsMoved ==
  \A p \in Procs : LET s == mem[p].item[Legacy] IN
    /\ s \in Secrets /\ Home[s] # None => at[p] \in {"move", "drop"}
    /\ at[p] = "look" /\ Remembers(p) => s # Unread

\* What is being moved is what the old item holds, and it is dropped when another
\* name has it.
MovesTheLegacy ==
  \A p \in Procs :
    /\ at[p] \in {"move", "drop"} => Readable(item[Legacy]) /\ job[p].raw = item[Legacy]
    /\ at[p] = "drop" => item[job[p].name] = item[Legacy]

\* A command past its move of the old item, where an earlier skaldr has not
\* signed in and no delete was refused: the old item holds nothing to move.
PastTheMove(p) ==
  LET j == job[p]
  IN  \/ j.op = "save" /\ at[p] \in {"look", "list", "set"}
      \/ j.cmd = "logout" /\ \/ j.op \in {"named", "forget"}
                             \/ j.op = "entries" /\ at[p] \notin {"asked", "migrate", "move", "drop"}

NothingLeftBehind ==
  \A p \in Procs :
    \/ PastTheMove(p)
    \/ mem[p].item[Legacy] # Unread /\ ~Readable(mem[p].item[Legacy])
    => ~Readable(item[Legacy])

\* What a command remembers of the index is still listed: of a save, and of any
\* as long as there is something to move.
RemembersTheIndex ==
  \A p \in Procs :
    \/ Readable(item[Legacy])
    \/ job[p].op = "save" /\ at[p] \notin {"idle", "thinking", "asked", "answered"}
    => mem[p].index = Unread \/ mem[p].index \subseteq index

Listed ==
  /\ EverySecretIsListed
  /\ RemembersTheIndex
  /\ \A p \in Procs :
       /\ at[p] \in {"move", "set"} => job[p].name \in index
       /\ at[p] = "unlist" => item[job[p].entry] = None

\* Where a moved entry replaces the one its site holds, every sign-in is under its
\* site's name.
KeptAtHome ==
  /\ \A n \in Names : Readable(item[n]) => n = Preferred(item[n])
  /\ \A m, n \in Names : item[m] = item[n] /\ item[m] # None /\ ~Readable(item[m]) => m = n
  /\ \A p \in Procs :
       /\ at[p] = "move" => Readable(job[p].raw) /\ job[p].name = Preferred(job[p].raw)
       /\ at[p] = "set" => job[p].name = Preferred(job[p].secret)

\* Where sign-ins are tokens a service issues, the one being saved is nowhere yet.
Saving(p) == job[p].op = "save" /\ at[p] \notin {"idle", "thinking", "answered"}

FreshUntilSet ==
  \A p \in Procs : Saving(p) =>
    /\ \A n \in Items : item[n] # job[p].secret
    /\ \A q \in Procs : q # p /\ Saving(q) => job[q].secret # job[p].secret

\* As long as there is something to move, nobody has saved or removed a sign-in, so
\* every command finds the same name for it.
Target(s) ==
  IF item[Preferred(s)] \in {None, s} THEN Preferred(s) ELSE Candidate[Home[s]][2]

OneTarget ==
  LET s == item[Legacy]
  IN  Readable(s) =>
        /\ \A n \in Names : item[n] = s => n = Target(s)
        /\ \A p \in Procs :
             LET m == mem[p].item[Preferred(s)]
             IN  /\ m \in {Unread, item[Preferred(s)]} \/ (m = None /\ item[Preferred(s)] = s)
                 /\ at[p] = "move" => job[p].name = Target(s)

Inductive ==
  /\ TypeOK /\ OneAtWork /\ JobFits
  /\ earlier = 0 => DeletesWhatItFound /\ LegacyIsMoved /\ MovesTheLegacy
  /\ earlier = 0 /\ refusals = 0 => NothingLeftBehind /\ Listed
  /\ LegacyReplaces => KeptAtHome
  /\ earlier = 0 /\ refusals = 0 /\ Renews /\ ~LegacyReplaces => OneCopy /\ FreshUntilSet /\ OneTarget

------------------------------------------------------------------------------
(* Theorems                                                                  *)

\* Names and sign-ins, without the tuples they come from.
NameFacts ==
  /\ Items = Names \cup {Legacy} /\ Legacy \notin Names /\ None \notin Items
  /\ ~Readable(None)
  /\ \A s \in Secrets : Readable(s) =>
       Preferred(s) \in Names /\ Candidate[Home[s]][2] \in Names \ {Preferred(s)}
  /\ \A s \in Current : s \in Secrets /\ Readable(s)
  /\ None \notin Secrets \cup Procs /\ Unread \notin Secrets \cup {None}
  /\ \A ns : ns \subseteq Names => Unread # ns

LEMMA NamesHold ==
  ASSUME KeychainAssumption PROVE NameFacts
<1>1. ASSUME NEW s \in Secrets, Readable(s)
      PROVE  Preferred(s) \in Names /\ Candidate[Home[s]][2] \in Names \ {Preferred(s)}
  BY <1>1 DEF KeychainAssumption, Readable, Preferred
<1>2. QED
  BY <1>1 DEF NameFacts, KeychainAssumption, Items, Readable

\* What a command is given when it reads, remembered or not.
LEMMA Reads ==
  ASSUME NameFacts, Typed, NEW p \in Procs
  PROVE  /\ \A n \in Items : Got(p, n) \in Secrets \cup {None}
         /\ ListedTo(p) \subseteq Names
         /\ \A n \in Items, s \in Secrets \cup {None} : Known(mem[p], n, s) \in Memory
         /\ \A n \in Items : mem[p].item[n] \in Secrets \cup {None, Unread}
         /\ \A m \in Memory, n \in Names : ListKnown(p, m, n) \in Memory
         /\ \A s \in Secrets : Readable(s) => MovesTo(p, s) \in Names
<1> USE DEF NameFacts, Typed, Memory
<1>1. mem[p] \in Memory
  OBVIOUS
<1>2. \A n \in Items : Got(p, n) \in Secrets \cup {None}
  BY <1>1 DEF Got
<1>3. ListedTo(p) \subseteq Names
  BY <1>1 DEF ListedTo
<1>4. \A n \in Items, s \in Secrets \cup {None} : Known(mem[p], n, s) \in Memory
  BY <1>1 DEF Known
<1>5. \A m \in Memory, n \in Names : ListKnown(p, m, n) \in Memory
  BY <1>1, <1>3 DEF ListKnown
<1>6. \A s \in Secrets : Readable(s) => MovesTo(p, s) \in Names
  BY DEF MovesTo
<1>7. QED
  BY <1>1, <1>2, <1>3, <1>4, <1>5, <1>6

Moves(p) == Command(p) \/ Call(p) \/ Stop(p)

\* What a command does leaves places and jobs of their types.
LEMMA JobsKeepTheirTypes ==
  ASSUME KeychainAssumption, Inductive, NEW p \in Procs, Moves(p)
  PROVE  (at \in [Procs -> At] /\ job \in [Procs -> Job])'
<1> USE DEF Job, At, Goto, Leave, NoJob
<1>1. at \in [Procs -> At] /\ job \in [Procs -> Job] /\ job[p] \in Job
  BY DEF Inductive, TypeOK, Typed
<1>2. /\ Got(p, Legacy) \in Secrets \cup {None} /\ Legacy \in Items
      /\ \A n \in Names : n \in Items /\ Got(p, n) \in Secrets \cup {None}
      /\ ListedTo(p) \cup {Legacy} \subseteq Items
      /\ Readable(Got(p, Legacy)) => MovesTo(p, Got(p, Legacy)) \in Names
      /\ at[p] = "list" => Preferred(job[p].secret) \in Names
      /\ at[p] = "name" => job[p].name \in Names
      /\ at[p] = "set" => job[p].name \in Names /\ job[p].secret \in Secrets
  BY NamesHold, Reads DEF NameFacts, Inductive, TypeOK, JobFits
<1>3. CASE \E c \in {"publish", "status", "signin", "logout"} : Begin(p, c)
  BY <1>3, <1>1, <1>2 DEF Begin
<1>4. CASE AskForEntries(p)
  BY <1>4, <1>1, <1>2 DEF AskForEntries, Ask
<1>5. CASE \E n \in Names : AskForName(p, n)
  <2>1. PICK n \in Names : AskForName(p, n)
    BY <1>5
  <2>2. [job[p] EXCEPT !.op = "named", !.name = n, !.entry = None, !.raw = None] \in Job
    BY <1>1
  <2>3. QED
    BY <1>1, <2>1, <2>2 DEF AskForName, Ask
<1>6. CASE \E s \in Secrets : AskToSave(p, s)
  <2>1. PICK s \in Secrets : AskToSave(p, s)
    BY <1>6
  <2>2. [job[p] EXCEPT !.op = "save", !.secret = s] \in Job
    BY <1>1
  <2>3. QED
    BY <1>1, <2>1, <2>2 DEF AskToSave, Ask
<1>7. CASE AskToForget(p)
  BY <1>7, <1>1, <1>2 DEF AskToForget, Ask
<1>8. CASE LockHeldTooLong(p) \/ End(p) \/ Stop(p)
  BY <1>8, <1>1, <1>2 DEF LockHeldTooLong, End, Stop
<1>9. CASE Release(p) \/ TakeLock(p)
  BY <1>9, <1>1, <1>2 DEF Release, TakeLock
<1>10. CASE NothingToMove(p)
  BY <1>10, <1>1, <1>2 DEF NothingToMove, AfterMigration
<1>11. CASE ListToMove(p)
  BY <1>11, <1>1, <1>2 DEF ListToMove
<1>12. CASE Move(p)
  BY <1>12, <1>1, <1>2 DEF Move
<1>13. CASE DropMoved(p)
  BY <1>13, <1>1, <1>2 DEF DropMoved, AfterMigration
<1>14. CASE Look(p)
  <2>1. CASE job[p].op = "save"
    BY <1>14, <1>1, <2>1 DEF Look
  <2>2. CASE job[p].op # "save"
    <3>1. PICK n \in Items \cup {None} :
            /\ n # None => n \in Items /\ Got(p, n) \in Secrets \cup {None}
            /\ Goto(p, "answered", [job[p] EXCEPT
                  !.entry = n, !.raw = IF n = None THEN None ELSE Got(p, n)])
      BY <1>14, <1>1, <1>2, <2>2, Reads, NamesHold DEF Look, Inductive, TypeOK
    <3>2. QED
      BY <1>1, <3>1
  <2>3. QED
    BY <2>1, <2>2
<1>15. CASE NameFinds(p)
  BY <1>15, <1>1, <1>2 DEF NameFinds
<1>16. CASE NameFindsNothing(p)
  BY <1>16, <1>1, <1>2 DEF NameFindsNothing
<1>17. CASE List(p)
  BY <1>17, <1>1, <1>2 DEF List
<1>18. CASE Set(p)
  BY <1>18, <1>1, <1>2 DEF Set
<1>19. CASE KeepNewer(p) \/ StillThere(p) \/ Unlist(p)
  BY <1>19, <1>1, <1>2 DEF KeepNewer, StillThere, Unlist
<1>20. CASE Forget(p)
  BY <1>20, <1>1, <1>2 DEF Forget
<1>21. QED
  BY <1>3, <1>4, <1>5, <1>6, <1>7, <1>8, <1>9, <1>10, <1>11, <1>12, <1>13, <1>14, <1>15,
     <1>16, <1>17, <1>18, <1>19, <1>20 DEF Moves, Command, Call

\* The keychain, its index and the lock keep their types.
LEMMA KeychainKeepsItsTypes ==
  ASSUME KeychainAssumption, Inductive, NEW p \in Procs, Moves(p)
  PROVE  (item \in [Items -> Secrets \cup {None}] /\ index \subseteq Names /\ lock \in Procs \cup {None})'
<1> USE DEF ListName, Delete
<1>1. /\ item \in [Items -> Secrets \cup {None}] /\ index \subseteq Names /\ lock \in Procs \cup {None}
      /\ job[p].raw \in Secrets \cup {None}
  BY DEF Inductive, TypeOK, Typed, Job
<1>2. /\ Got(p, Legacy) \in Secrets \cup {None} /\ Legacy \in Items
      /\ \A n \in Names : n \in Items /\ Got(p, n) \in Secrets \cup {None}
      /\ ListedTo(p) \cup {Legacy} \subseteq Items
      /\ Readable(Got(p, Legacy)) => MovesTo(p, Got(p, Legacy)) \in Names
      /\ at[p] = "list" => Preferred(job[p].secret) \in Names
      /\ at[p] = "name" => job[p].name \in Names
      /\ at[p] \in {"move", "set"} => job[p].name \in Names
      /\ at[p] = "set" => job[p].secret \in Secrets
  BY NamesHold, Reads DEF NameFacts, Inductive, TypeOK, JobFits
<1>3. CASE \E c \in {"publish", "status", "signin", "logout"} : Begin(p, c)
  BY <1>3, <1>1, <1>2 DEF Begin
<1>4. CASE \/ AskForEntries(p)
           \/ \E n \in Names : AskForName(p, n)
           \/ \E s \in Secrets : AskToSave(p, s)
           \/ AskToForget(p)
  BY <1>4, <1>1, <1>2 DEF AskForEntries, Ask, AskForName, AskToSave, AskToForget
<1>5. CASE LockHeldTooLong(p) \/ End(p) \/ Stop(p)
  BY <1>5, <1>1, <1>2 DEF LockHeldTooLong, End, Stop
<1>6. CASE Release(p) \/ TakeLock(p)
  BY <1>6, <1>1, <1>2 DEF Release, TakeLock
<1>7. CASE NothingToMove(p)
  BY <1>7, <1>1, <1>2 DEF NothingToMove
<1>8. CASE ListToMove(p)
  BY <1>8, <1>1, <1>2 DEF ListToMove
<1>9. CASE Move(p)
  BY <1>9, <1>1, <1>2 DEF Move
<1>10. CASE DropMoved(p)
  BY <1>10, <1>1, <1>2 DEF DropMoved
<1>11. CASE Look(p)
  BY <1>11, <1>1, <1>2 DEF Look
<1>12. CASE NameFinds(p)
  BY <1>12, <1>1, <1>2 DEF NameFinds
<1>13. CASE NameFindsNothing(p)
  BY <1>13, <1>1, <1>2 DEF NameFindsNothing
<1>14. CASE List(p)
  BY <1>14, <1>1, <1>2 DEF List
<1>15. CASE Set(p)
  BY <1>15, <1>1, <1>2 DEF Set
<1>16. CASE KeepNewer(p) \/ StillThere(p) \/ Unlist(p)
  BY <1>16, <1>1, <1>2 DEF KeepNewer, StillThere, Unlist
<1>17. CASE Forget(p)
  BY <1>17, <1>1, <1>2 DEF Forget
<1>18. QED
  BY <1>3, <1>4, <1>5, <1>6, <1>7, <1>8, <1>9, <1>10, <1>11, <1>12, <1>13, <1>14, <1>15,
     <1>16, <1>17 DEF Moves, Command, Call

\* What a command remembers is of its type.
LEMMA MemoryKeepsItsType ==
  ASSUME KeychainAssumption, Inductive, NEW p \in Procs, Moves(p)
  PROVE  (mem \in [Procs -> Memory])'
<1> USE DEF Noting, Leave
<1>1. /\ mem \in [Procs -> Memory] /\ mem[p] \in Memory /\ NothingRead \in Memory
      /\ job[p].raw \in Secrets \cup {None}
  BY DEF Inductive, TypeOK, Typed, Job, Memory, NothingRead
<1>2. /\ Got(p, Legacy) \in Secrets \cup {None} /\ Legacy \in Items
      /\ \A n \in Names : n \in Items /\ Got(p, n) \in Secrets \cup {None}
      /\ ListedTo(p) \cup {Legacy} \subseteq Items
      /\ Readable(Got(p, Legacy)) => MovesTo(p, Got(p, Legacy)) \in Names
      /\ at[p] = "list" => Preferred(job[p].secret) \in Names
      /\ at[p] = "name" => job[p].name \in Names
      /\ at[p] \in {"move", "set"} => job[p].name \in Names
      /\ at[p] = "set" => job[p].secret \in Secrets
  BY NamesHold, Reads DEF NameFacts, Inductive, TypeOK, JobFits
<1>3. /\ \A m \in Memory, n \in Items, s \in Secrets \cup {None} : Known(m, n, s) \in Memory
      /\ \A m \in Memory, n \in Names : ListKnown(p, m, n) \in Memory
  BY NamesHold, Reads DEF Memory, Known, Inductive, TypeOK
<1>4. CASE \E c \in {"publish", "status", "signin", "logout"} : Begin(p, c)
  BY <1>4, <1>1, <1>2, <1>3 DEF Begin
<1>5. CASE \/ AskForEntries(p)
           \/ \E n \in Names : AskForName(p, n)
           \/ \E s \in Secrets : AskToSave(p, s)
           \/ AskToForget(p)
  BY <1>5, <1>1, <1>2, <1>3 DEF AskForEntries, Ask, AskForName, AskToSave, AskToForget
<1>6. CASE LockHeldTooLong(p) \/ End(p) \/ Stop(p)
  BY <1>6, <1>1, <1>2, <1>3 DEF LockHeldTooLong, End, Stop
<1>7. CASE Release(p) \/ TakeLock(p)
  BY <1>7, <1>1, <1>2, <1>3 DEF Release, TakeLock
<1>8. CASE NothingToMove(p)
  BY <1>8, <1>1, <1>2, <1>3 DEF NothingToMove
<1>9. CASE ListToMove(p)
  BY <1>9, <1>1, <1>2, <1>3 DEF ListToMove
<1>10. CASE Move(p)
  BY <1>10, <1>1, <1>2, <1>3 DEF Move
<1>11. CASE DropMoved(p)
  BY <1>11, <1>1, <1>2, <1>3 DEF DropMoved
<1>12. CASE Look(p)
  <2> DEFINE m == [item |-> [n \in Items |-> IF n \in ListedTo(p) \cup {Legacy}
                                               THEN Got(p, n) ELSE mem[p].item[n]],
                   index |-> ListedTo(p)]
  <2>1. m \in Memory
    BY <1>1, NamesHold, Reads DEF Memory, NameFacts, Inductive, TypeOK
  <2>2. mem' = [mem EXCEPT ![p] = IF Remembers(p) THEN m ELSE @]
    BY <1>12 DEF Look
  <2>3. QED
    BY <1>1, <2>1, <2>2
<1>13. CASE NameFinds(p)
  BY <1>13, <1>1, <1>2, <1>3 DEF NameFinds
<1>14. CASE NameFindsNothing(p)
  BY <1>14, <1>1, <1>2, <1>3 DEF NameFindsNothing
<1>15. CASE List(p)
  BY <1>15, <1>1, <1>2, <1>3 DEF List
<1>16. CASE Set(p)
  BY <1>16, <1>1, <1>2, <1>3 DEF Set
<1>17. CASE KeepNewer(p) \/ StillThere(p) \/ Unlist(p)
  BY <1>17, <1>1, <1>2, <1>3 DEF KeepNewer, StillThere, Unlist
<1>18. CASE Forget(p)
  BY <1>18, <1>1, <1>2, <1>3 DEF Forget
<1>19. QED
  BY <1>4, <1>5, <1>6, <1>7, <1>8, <1>9, <1>10, <1>11, <1>12, <1>13, <1>14, <1>15,
     <1>16, <1>17, <1>18 DEF Moves, Command, Call

\* A command that does not remember has nothing to remember.
LEMMA OthersRememberNothing ==
  ASSUME KeychainAssumption, Inductive, NEW p \in Procs, Moves(p)
  PROVE  (\A q \in Procs : ~Remembers(q) => mem[q] = NothingRead)'
<1> USE DEF Noting, Leave, Goto, NoJob, Remembers
<1>1. /\ mem \in [Procs -> Memory] /\ job \in [Procs -> Job] /\ job[p] \in Job
      /\ \A q \in Procs : ~Remembers(q) => mem[q] = NothingRead
  BY DEF Inductive, TypeOK, Typed
<1>2. at[p] = "idle" => mem[p] = NothingRead
  BY DEF Inductive, TypeOK, Typed, JobFits, NoJob, KeychainAssumption
<1>3. CASE \E c \in {"publish", "status", "signin", "logout"} : Begin(p, c)
  BY <1>3, <1>1, <1>2 DEF Begin
<1>4. CASE AskForEntries(p)
  BY <1>4, <1>1, <1>2 DEF AskForEntries, Ask
<1>5. CASE \E n \in Names : AskForName(p, n)
  BY <1>5, <1>1, <1>2 DEF AskForName, Ask
<1>6. CASE \E s \in Secrets : AskToSave(p, s)
  BY <1>6, <1>1, <1>2 DEF AskToSave, Ask
<1>7. CASE AskToForget(p)
  BY <1>7, <1>1, <1>2 DEF AskToForget, Ask
<1>8. CASE LockHeldTooLong(p) \/ End(p) \/ Stop(p)
  BY <1>8, <1>1, <1>2 DEF LockHeldTooLong, End, Stop
<1>9. CASE Release(p) \/ TakeLock(p)
  BY <1>9, <1>1, <1>2 DEF Release, TakeLock
<1>10. CASE NothingToMove(p)
  BY <1>10, <1>1, <1>2 DEF NothingToMove
<1>11. CASE ListToMove(p)
  BY <1>11, <1>1, <1>2 DEF ListToMove
<1>12. CASE Move(p)
  BY <1>12, <1>1, <1>2 DEF Move
<1>13. CASE DropMoved(p)
  BY <1>13, <1>1, <1>2 DEF DropMoved
<1>14. CASE Look(p)
  <2>1. job'[p].cmd = job[p].cmd /\ \A q \in Procs : q # p => job'[q] = job[q]
    BY <1>14, <1>1 DEF Look, Job
  <2>2. \E m : mem' = [mem EXCEPT ![p] = IF Remembers(p) THEN m ELSE @]
    BY <1>14 DEF Look
  <2>3. QED
    BY <1>1, <2>1, <2>2
<1>15. CASE NameFinds(p)
  BY <1>15, <1>1, <1>2 DEF NameFinds
<1>16. CASE NameFindsNothing(p)
  BY <1>16, <1>1, <1>2 DEF NameFindsNothing
<1>17. CASE List(p)
  BY <1>17, <1>1, <1>2 DEF List
<1>18. CASE Set(p)
  BY <1>18, <1>1, <1>2 DEF Set
<1>19. CASE KeepNewer(p) \/ StillThere(p) \/ Unlist(p)
  BY <1>19, <1>1, <1>2 DEF KeepNewer, StillThere, Unlist
<1>20. CASE Forget(p)
  BY <1>20, <1>1, <1>2 DEF Forget
<1>21. QED
  BY <1>3, <1>4, <1>5, <1>6, <1>7, <1>8, <1>9, <1>10, <1>11, <1>12, <1>13, <1>14, <1>15,
     <1>16, <1>17, <1>18, <1>19, <1>20 DEF Moves, Command, Call

\* Whatever a command does, every variable keeps its type.
LEMMA TypesAreKept ==
  ASSUME KeychainAssumption, Inductive, NEW p \in Procs, Moves(p)
  PROVE  Typed'
BY JobsKeepTheirTypes, KeychainKeepsItsTypes, MemoryKeepsItsType, OthersRememberNothing DEF Typed

\* A command is in an operation only while it holds the lock.
LEMMA OneStaysAtWork ==
  ASSUME KeychainAssumption, Inductive, NEW p \in Procs, Moves(p)
  PROVE  OneAtWork'
<1> USE DEF OneAtWork, Goto, Leave
<1>1. at \in [Procs -> At] /\ OneAtWork /\ None \notin Procs
  BY DEF Inductive, TypeOK, Typed, KeychainAssumption
<1>2. CASE \E c \in {"publish", "status", "signin", "logout"} : Begin(p, c)
  BY <1>2, <1>1 DEF Begin
<1>3. CASE \/ AskForEntries(p)
           \/ \E n \in Names : AskForName(p, n)
           \/ \E s \in Secrets : AskToSave(p, s)
           \/ AskToForget(p)
  BY <1>3, <1>1 DEF AskForEntries, Ask, AskForName, AskToSave, AskToForget
<1>4. CASE LockHeldTooLong(p) \/ End(p) \/ Stop(p)
  BY <1>4, <1>1 DEF LockHeldTooLong, End, Stop
<1>5. CASE Release(p) \/ TakeLock(p)
  BY <1>5, <1>1 DEF Release, TakeLock
<1>6. CASE NothingToMove(p)
  BY <1>6, <1>1 DEF NothingToMove
<1>7. CASE ListToMove(p)
  BY <1>7, <1>1 DEF ListToMove
<1>8. CASE Move(p)
  BY <1>8, <1>1 DEF Move
<1>9. CASE DropMoved(p)
  BY <1>9, <1>1 DEF DropMoved
<1>10. CASE Look(p)
  BY <1>10, <1>1 DEF Look
<1>11. CASE NameFinds(p)
  BY <1>11, <1>1 DEF NameFinds
<1>12. CASE NameFindsNothing(p)
  BY <1>12, <1>1 DEF NameFindsNothing
<1>13. CASE List(p)
  BY <1>13, <1>1 DEF List
<1>14. CASE Set(p)
  BY <1>14, <1>1 DEF Set
<1>15. CASE KeepNewer(p) \/ StillThere(p) \/ Unlist(p)
  BY <1>15, <1>1 DEF KeepNewer, StillThere, Unlist
<1>16. CASE Forget(p)
  BY <1>16, <1>1 DEF Forget
<1>17. QED
  BY <1>2, <1>3, <1>4, <1>5, <1>6, <1>7, <1>8, <1>9, <1>10, <1>11, <1>12, <1>13, <1>14,
     <1>15, <1>16 DEF Moves, Command, Call

\* What a command asks for, and does, stays complete.
LEMMA JobsStayFit ==
  ASSUME KeychainAssumption, Inductive, NEW p \in Procs, Moves(p)
  PROVE  JobFits'
<1> USE DEF JobFits, Goto, Leave, NoJob
<1>1. /\ at \in [Procs -> At] /\ job \in [Procs -> Job] /\ job[p] \in Job /\ JobFits
      /\ None \notin Secrets /\ None \notin Items
      /\ None \notin {"publish", "status", "signin", "logout", "entries", "named", "save", "forget"}
  BY DEF Inductive, TypeOK, Typed, KeychainAssumption
<1>2. /\ \A n \in Items : Got(p, n) \in Secrets \cup {None}
      /\ Readable(Got(p, Legacy)) => MovesTo(p, Got(p, Legacy)) \in Names
      /\ at[p] = "list" => Preferred(job[p].secret) \in Names
      /\ at[p] = "set" => job[p].secret # None
      /\ Names \subseteq Items /\ Legacy \in Items /\ ListedTo(p) \subseteq Items
  BY NamesHold, Reads DEF NameFacts, Inductive, TypeOK, JobFits, KeychainAssumption
<1>3. CASE \E c \in {"publish", "status", "signin", "logout"} : Begin(p, c)
  BY <1>3, <1>1, <1>2 DEF Begin
<1>4. CASE AskForEntries(p)
  BY <1>4, <1>1, <1>2 DEF AskForEntries, Ask
<1>5. CASE \E n \in Names : AskForName(p, n)
  BY <1>5, <1>1, <1>2 DEF AskForName, Ask
<1>6. CASE \E s \in Secrets : AskToSave(p, s)
  BY <1>6, <1>1, <1>2 DEF AskToSave, Ask
<1>7. CASE AskToForget(p)
  BY <1>7, <1>1, <1>2 DEF AskToForget, Ask
<1>8. CASE TakeLock(p)
  <2>1. job[p].op \in {"entries", "named", "save", "forget"}
    BY <1>8, <1>1 DEF TakeLock, Job
  <2>2. QED
    BY <1>8, <1>1, <2>1 DEF TakeLock
<1>9. CASE LockHeldTooLong(p) \/ End(p) \/ Stop(p)
  BY <1>9, <1>1, <1>2 DEF LockHeldTooLong, End, Stop
<1>10. CASE Release(p)
  BY <1>10, <1>1, <1>2 DEF Release
<1>11. CASE NothingToMove(p)
  BY <1>11, <1>1, <1>2 DEF NothingToMove, AfterMigration
<1>12. CASE ListToMove(p)
  BY <1>12, <1>1, <1>2 DEF ListToMove
<1>13. CASE Move(p)
  BY <1>13, <1>1, <1>2 DEF Move
<1>14. CASE DropMoved(p)
  BY <1>14, <1>1, <1>2 DEF DropMoved, AfterMigration
<1>15. CASE Look(p)
  <2>1. CASE job[p].op = "save"
    BY <1>15, <1>1, <2>1 DEF Look
  <2>2. CASE job[p].op # "save"
    <3>1. job[p].op = "entries"
      BY <1>15, <1>1, <2>2 DEF Look
    <3>2. PICK n \in Items \cup {None} :
            /\ n # None => Got(p, n) # None
            /\ Goto(p, "answered", [job[p] EXCEPT
                  !.entry = n, !.raw = IF n = None THEN None ELSE Got(p, n)])
      <4>1. PICK n \in {m \in ListedTo(p) \cup {Legacy} : Got(p, m) # None} \cup {None} :
              Goto(p, "answered", [job[p] EXCEPT
                    !.entry = n, !.raw = IF n = None THEN None ELSE Got(p, n)])
        BY <1>15, <2>2 DEF Look
      <4>2. QED
        BY <1>2, <4>1
    <3>3. at[p] = "look"
      BY <1>15 DEF Look
    <3>4. QED
      BY <1>1, <3>1, <3>2, <3>3 DEF Job
  <2>3. QED
    BY <2>1, <2>2
<1>16. CASE NameFinds(p)
  BY <1>16, <1>1, <1>2 DEF NameFinds
<1>17. CASE NameFindsNothing(p)
  BY <1>17, <1>1, <1>2 DEF NameFindsNothing
<1>18. CASE List(p)
  BY <1>18, <1>1, <1>2 DEF List
<1>19. CASE Set(p)
  BY <1>19, <1>1, <1>2 DEF Set
<1>20. CASE KeepNewer(p) \/ StillThere(p) \/ Unlist(p)
  BY <1>20, <1>1, <1>2 DEF KeepNewer, StillThere, Unlist
<1>21. CASE Forget(p)
  BY <1>21, <1>1, <1>2 DEF Forget
<1>22. QED
  BY <1>3, <1>4, <1>5, <1>6, <1>7, <1>8, <1>9, <1>10, <1>11, <1>12, <1>13, <1>14, <1>15,
     <1>16, <1>17, <1>18, <1>19, <1>20, <1>21 DEF Moves, Command, Call

\* The bounds are kept, and only a delete is refused.
LEMMA CountsGrow ==
  ASSUME KeychainAssumption, Inductive, NEW p \in Procs, Moves(p)
  PROVE  Counted' /\ earlier' = earlier /\ (refusals' = 0 => refusals = 0)
<1> USE DEF Counted, counters, Delete
<1>1. Counted /\ MaxCommands \in Nat /\ MaxStops \in Nat /\ MaxRefusals \in Nat
  BY DEF Inductive, TypeOK, KeychainAssumption
<1>2. CASE \E c \in {"publish", "status", "signin", "logout"} : Begin(p, c)
  BY <1>2, <1>1 DEF Begin
<1>3. CASE \/ AskForEntries(p)
           \/ \E n \in Names : AskForName(p, n)
           \/ \E s \in Secrets : AskToSave(p, s)
           \/ AskToForget(p)
  BY <1>3, <1>1 DEF AskForEntries, Ask, AskForName, AskToSave, AskToForget
<1>4. CASE LockHeldTooLong(p) \/ End(p) \/ Stop(p)
  BY <1>4, <1>1 DEF LockHeldTooLong, End, Stop
<1>5. CASE Release(p) \/ TakeLock(p)
  BY <1>5, <1>1 DEF Release, TakeLock
<1>6. CASE NothingToMove(p)
  BY <1>6, <1>1 DEF NothingToMove
<1>7. CASE ListToMove(p)
  BY <1>7, <1>1 DEF ListToMove
<1>8. CASE Move(p)
  BY <1>8, <1>1 DEF Move
<1>9. CASE DropMoved(p)
  BY <1>9, <1>1 DEF DropMoved
<1>10. CASE Look(p)
  BY <1>10, <1>1 DEF Look
<1>11. CASE NameFinds(p)
  BY <1>11, <1>1 DEF NameFinds
<1>12. CASE NameFindsNothing(p)
  BY <1>12, <1>1 DEF NameFindsNothing
<1>13. CASE List(p)
  BY <1>13, <1>1 DEF List
<1>14. CASE Set(p)
  BY <1>14, <1>1 DEF Set
<1>15. CASE KeepNewer(p) \/ StillThere(p) \/ Unlist(p)
  BY <1>15, <1>1 DEF KeepNewer, StillThere, Unlist
<1>16. CASE Forget(p)
  BY <1>16, <1>1 DEF Forget
<1>17. QED
  BY <1>2, <1>3, <1>4, <1>5, <1>6, <1>7, <1>8, <1>9, <1>10, <1>11, <1>12, <1>13, <1>14,
     <1>15, <1>16 DEF Moves, Command, Call

\* What noting a read changes in a command's memory.
NoteFacts(p) ==
  /\ \A m \in Memory, n \in Items, s \in Secrets \cup {None} :
       /\ Known(m, n, s) \in Memory
       /\ Known(m, n, s).index = m.index
       /\ Known(m, n, s).item[n] = s
       /\ \A k \in Items : k # n => Known(m, n, s).item[k] = m.item[k]
  /\ \A m \in Memory, n \in Names :
       /\ ListKnown(p, m, n) \in Memory
       /\ ListKnown(p, m, n).item = m.item
       /\ ListKnown(p, m, n).index = IF n \in ListedTo(p) THEN ListedTo(p) ELSE index \cup {n}
  /\ ~Remembers(p) => mem[p] = NothingRead
  /\ \A n \in Items : NothingRead.item[n] = Unread
  /\ NothingRead.index = Unread

LEMMA Notes ==
  ASSUME NameFacts, Typed, NEW p \in Procs
  PROVE  NoteFacts(p)
<1>1. ListedTo(p) \subseteq Names /\ index \subseteq Names
  BY Reads DEF Typed
<1>2. ASSUME NEW m \in Memory, NEW n \in Items, NEW s \in Secrets \cup {None}
      PROVE  /\ Known(m, n, s) \in Memory
             /\ Known(m, n, s).index = m.index
             /\ Known(m, n, s).item[n] = s
             /\ \A k \in Items : k # n => Known(m, n, s).item[k] = m.item[k]
  BY DEF Memory, Known
<1>3. ASSUME NEW m \in Memory, NEW n \in Names
      PROVE  /\ ListKnown(p, m, n) \in Memory
             /\ ListKnown(p, m, n).item = m.item
             /\ ListKnown(p, m, n).index = IF n \in ListedTo(p) THEN ListedTo(p) ELSE index \cup {n}
  BY <1>1 DEF Memory, ListKnown
<1>4. QED
  BY <1>2, <1>3 DEF NoteFacts, Typed, NothingRead

\* What the names and sign-ins of a command's next call are.
CallFacts(p) ==
  /\ \A n \in Items : Got(p, n) \in Secrets \cup {None}
  /\ ListedTo(p) \subseteq Names
  /\ Readable(Got(p, Legacy)) => MovesTo(p, Got(p, Legacy)) \in Names
  /\ at[p] = "list" => Preferred(job[p].secret) \in Names
  /\ at[p] \in {"name", "move", "set"} => job[p].name \in Names
  /\ job[p].op = "save" => job[p].secret \in Secrets /\ Readable(job[p].secret)
  /\ job[p].raw \in Secrets \cup {None}
  /\ job[p].entry # None => job[p].entry \in Items
  /\ Names \subseteq Items /\ Legacy \in Items /\ Legacy \notin Names

LEMMA CallFactsHold ==
  ASSUME KeychainAssumption, Inductive, NEW p \in Procs
  PROVE  CallFacts(p)
BY NamesHold, Reads DEF CallFacts, NameFacts, Inductive, TypeOK, Typed, Job, JobFits

\* Nobody else changes an entry between a logout's check and its delete.
LEMMA DeletesStayCurrent ==
  ASSUME KeychainAssumption, Inductive, DeletesWhatItFound, NEW p \in Procs, Moves(p)
  PROVE  DeletesWhatItFound'
<1> USE DEF DeletesWhatItFound, OneAtWork, Goto, Leave, Delete
<1>1. /\ at \in [Procs -> At] /\ job \in [Procs -> Job] /\ job[p] \in Job
      /\ item \in [Items -> Secrets \cup {None}] /\ mem \in [Procs -> Memory] /\ mem[p] \in Memory
      /\ OneAtWork
  BY DEF Inductive, TypeOK, Typed
<1>2. CASE \E c \in {"publish", "status", "signin", "logout"} : Begin(p, c)
  BY <1>2, <1>1 DEF Begin
<1>3. CASE \/ AskForEntries(p)
           \/ \E n \in Names : AskForName(p, n)
           \/ \E s \in Secrets : AskToSave(p, s)
           \/ AskToForget(p)
  BY <1>3, <1>1 DEF AskForEntries, Ask, AskForName, AskToSave, AskToForget
<1>4. CASE LockHeldTooLong(p) \/ End(p) \/ Stop(p)
  BY <1>4, <1>1 DEF LockHeldTooLong, End, Stop
<1>5. CASE Release(p) \/ TakeLock(p)
  BY <1>5, <1>1 DEF Release, TakeLock
<1>6. CASE NothingToMove(p)
  BY <1>6, <1>1 DEF NothingToMove, AfterMigration
<1>7. CASE ListToMove(p)
  BY <1>7, <1>1 DEF ListToMove
<1>8. CASE Move(p)
  BY <1>8, <1>1 DEF Move
<1>9. CASE DropMoved(p)
  BY <1>9, <1>1 DEF DropMoved, AfterMigration
<1>10. CASE Look(p)
  BY <1>10, <1>1 DEF Look
<1>11. CASE NameFinds(p)
  BY <1>11, <1>1 DEF NameFinds
<1>12. CASE NameFindsNothing(p)
  BY <1>12, <1>1 DEF NameFindsNothing
<1>13. CASE List(p)
  BY <1>13, <1>1 DEF List
<1>14. CASE Set(p)
  BY <1>14, <1>1 DEF Set
<1>15. CASE KeepNewer(p) \/ StillThere(p) \/ Unlist(p)
  BY <1>15, <1>1 DEF KeepNewer, StillThere, Unlist
<1>16. CASE Forget(p)
  BY <1>16, <1>1 DEF Forget
<1>17. QED
  BY <1>2, <1>3, <1>4, <1>5, <1>6, <1>7, <1>8, <1>9, <1>10, <1>11, <1>12, <1>13, <1>14,
     <1>15, <1>16 DEF Moves, Command, Call

\* How a command's memory changes with a step of its own.
MemoryMoves(p) ==
  /\ \A q \in Procs : q # p => mem'[q] = mem[q]
  /\ \A n \in Items :
       \/ mem'[p].item[n] \in {mem[p].item[n], Unread}
       \/ at[p] \in {"migrate", "look"} /\ mem'[p].item[n] = Got(p, n)
       \/ at[p] = "name" /\ n = job[p].name /\ mem'[p].item[n] = Got(p, n)
       \/ at[p] \in {"move", "set"} /\ n = job[p].name /\ mem'[p].item[n] = item'[n]
       \/ at[p] = "drop" /\ n = Legacy /\ mem'[p].item[n] = None
  /\ \/ mem'[p].index \in {mem[p].index, ListedTo(p), Unread}
     \/ mem'[p].index = index'

\* What a step adds to a command's memory is what it read or wrote.
LEMMA HowMemoryMoves ==
  ASSUME KeychainAssumption, Inductive, NEW p \in Procs, Moves(p)
  PROVE  MemoryMoves(p)
<1> USE DEF MemoryMoves
<1>1. /\ at \in [Procs -> At] /\ job \in [Procs -> Job] /\ job[p] \in Job
      /\ item \in [Items -> Secrets \cup {None}] /\ mem \in [Procs -> Memory] /\ mem[p] \in Memory
  BY DEF Inductive, TypeOK, Typed
<1>2. NoteFacts(p) /\ CallFacts(p)
  BY NamesHold, Notes, CallFactsHold DEF Inductive, TypeOK
<1>3. CASE \E c \in {"publish", "status", "signin", "logout"} : Begin(p, c)
  BY <1>3, <1>1, <1>2 DEF Begin
<1>4. CASE \/ AskForEntries(p)
           \/ \E n \in Names : AskForName(p, n)
           \/ \E s \in Secrets : AskToSave(p, s)
           \/ AskToForget(p)
           \/ Release(p)
           \/ KeepNewer(p)
           \/ StillThere(p)
           \/ Forget(p)
           \/ Unlist(p)
  BY <1>4, <1>1, <1>2 DEF AskForEntries, Ask, AskForName, AskToSave, AskToForget,
     Release, KeepNewer, StillThere, Forget, Unlist
<1>5. CASE TakeLock(p)
  BY <1>5, <1>1, <1>2 DEF TakeLock, NoteFacts
<1>6. CASE LockHeldTooLong(p) \/ End(p) \/ Stop(p)
  BY <1>6, <1>1, <1>2 DEF LockHeldTooLong, NoteFacts, Leave, End, Stop
<1>7. CASE NothingToMove(p)
  <2>1. Legacy \in Items /\ Got(p, Legacy) \in Secrets \cup {None}
    BY <1>7, <1>2 DEF NothingToMove, CallFacts
  <2>2. LET k == Known(mem[p], Legacy, Got(p, Legacy))
        IN  /\ k.index = mem[p].index /\ k.item[Legacy] = Got(p, Legacy)
            /\ \A n \in Items : n # Legacy => k.item[n] = mem[p].item[n]
    BY <1>1, <1>2, <2>1 DEF NoteFacts
  <2>3. mem' = [mem EXCEPT ![p] = IF Remembers(p) THEN Known(mem[p], Legacy, Got(p, Legacy)) ELSE @]
    BY <1>7 DEF NothingToMove, Noting
  <2>4. at[p] = "migrate"
    BY <1>7, <1>1, <2>1 DEF NothingToMove
  <2>5. QED
    BY <1>1, <2>2, <2>3, <2>4
<1>8. CASE ListToMove(p)
  <2> DEFINE n == MovesTo(p, Got(p, Legacy))
             k == Known(mem[p], Legacy, Got(p, Legacy))
             m == Known(k, n, Got(p, n))
  <2>1. n \in Names /\ n \in Items /\ Legacy \in Items /\ n # Legacy /\ at[p] = "migrate"
    BY <1>8, <1>2 DEF ListToMove, CallFacts
  <2>2. k \in Memory /\ \A x \in Items : k.item[x] = IF x = Legacy THEN Got(p, Legacy) ELSE mem[p].item[x]
    <3>1. mem[p] \in Memory /\ Got(p, Legacy) \in Secrets \cup {None}
      BY <1>1, <1>2, <2>1 DEF CallFacts
    <3>2. QED
      BY <1>2, <2>1, <3>1 DEF NoteFacts
  <2>3. mem' = [mem EXCEPT ![p] = IF Remembers(p) THEN ListKnown(p, m, n) ELSE @]
    BY <1>8 DEF ListToMove, Noting
  <2>4. index' = IF n \in ListedTo(p) THEN index ELSE index \cup {n}
    BY <1>8 DEF ListToMove, ListName
  <2> HIDE DEF k, n
  <2>5. Got(p, n) \in Secrets \cup {None}
    BY <1>2, <2>1 DEF CallFacts
  <2>6. m \in Memory /\ \A x \in Items : m.item[x] = IF x = n THEN Got(p, n) ELSE k.item[x]
    BY <1>2, <2>1, <2>2, <2>5 DEF NoteFacts
  <2>7. /\ ListKnown(p, m, n).item = m.item
        /\ ListKnown(p, m, n).index = IF n \in ListedTo(p) THEN ListedTo(p) ELSE index \cup {n}
    BY <1>2, <2>1, <2>6 DEF NoteFacts
  <2> HIDE DEF m
  <2>8. QED
    BY <1>1, <2>1, <2>2, <2>3, <2>4, <2>6, <2>7
<1>9. CASE Move(p)
  <2>1. job[p].name \in Items /\ job[p].raw \in Secrets \cup {None}
    BY <1>9, <1>2 DEF Move, CallFacts
  <2>2. LET k == Known(mem[p], job[p].name, job[p].raw)
        IN  /\ k.index = mem[p].index /\ k.item[job[p].name] = job[p].raw
            /\ \A n \in Items : n # job[p].name => k.item[n] = mem[p].item[n]
    BY <1>1, <1>2, <2>1 DEF NoteFacts
  <2>3. mem' = [mem EXCEPT ![p] = IF Remembers(p) THEN Known(mem[p], job[p].name, job[p].raw) ELSE @]
    BY <1>9 DEF Move, Noting
  <2>4. at[p] = "move" /\ item'[job[p].name] = job[p].raw
    BY <1>9, <1>1, <2>1 DEF Move
  <2>5. QED
    BY <1>1, <2>2, <2>3, <2>4
<1>10. CASE DropMoved(p)
  <2>1. Legacy \in Items /\ None \in Secrets \cup {None}
    BY <1>10, <1>2 DEF DropMoved, CallFacts
  <2>2. LET k == Known(mem[p], Legacy, None)
        IN  /\ k.index = mem[p].index /\ k.item[Legacy] = None
            /\ \A n \in Items : n # Legacy => k.item[n] = mem[p].item[n]
    BY <1>1, <1>2, <2>1 DEF NoteFacts
  <2>3. mem' = [mem EXCEPT ![p] = IF Remembers(p) THEN Known(mem[p], Legacy, None) ELSE @]
    BY <1>10 DEF DropMoved, Noting
  <2>4. at[p] = "drop"
    BY <1>10, <1>1, <2>1 DEF DropMoved
  <2>5. QED
    BY <1>1, <2>2, <2>3, <2>4
<1>11. CASE Look(p)
  <2> DEFINE m == [item |-> [n \in Items |-> IF n \in ListedTo(p) \cup {Legacy}
                                               THEN Got(p, n) ELSE mem[p].item[n]],
                   index |-> ListedTo(p)]
  <2>1. mem' = [mem EXCEPT ![p] = IF Remembers(p) THEN m ELSE @] /\ at[p] = "look"
    BY <1>11 DEF Look, Noting
  <2>2. m.index = ListedTo(p) /\ \A n \in Items : m.item[n] \in {mem[p].item[n], Got(p, n)}
    OBVIOUS
  <2> HIDE DEF m
  <2>3. QED
    BY <1>1, <2>1, <2>2
<1>12. CASE NameFinds(p)
  <2> DEFINE n == job[p].name
             k == mem[p]
             m == Known(k, n, Got(p, n))
  <2>1. n \in Names /\ n \in Items /\ Legacy \in Items /\ n # Legacy /\ at[p] = "name"
    BY <1>12, <1>2 DEF NameFinds, CallFacts
  <2>2. k \in Memory /\ \A x \in Items : k.item[x] = mem[p].item[x]
    BY <1>1, <1>2, <2>1 DEF NoteFacts, CallFacts
  <2>3. mem' = [mem EXCEPT ![p] = IF Remembers(p) THEN ListKnown(p, m, n) ELSE @]
    BY <1>12 DEF NameFinds, Noting
  <2>4. index' = IF n \in ListedTo(p) THEN index ELSE index \cup {n}
    BY <1>12 DEF NameFinds, ListName
  <2> HIDE DEF k, n
  <2>5. Got(p, n) \in Secrets \cup {None}
    BY <1>2, <2>1 DEF CallFacts
  <2>6. m \in Memory /\ \A x \in Items : m.item[x] = IF x = n THEN Got(p, n) ELSE k.item[x]
    BY <1>2, <2>1, <2>2, <2>5 DEF NoteFacts
  <2>7. /\ ListKnown(p, m, n).item = m.item
        /\ ListKnown(p, m, n).index = IF n \in ListedTo(p) THEN ListedTo(p) ELSE index \cup {n}
    BY <1>2, <2>1, <2>6 DEF NoteFacts
  <2> HIDE DEF m
  <2>8. QED
    BY <1>1, <2>1, <2>2, <2>3, <2>4, <2>6, <2>7 DEF n
<1>13. CASE NameFindsNothing(p)
  <2>1. job[p].name \in Items /\ None \in Secrets \cup {None}
    BY <1>13, <1>2 DEF NameFindsNothing, CallFacts
  <2>2. LET k == Known(mem[p], job[p].name, None)
        IN  /\ k.index = mem[p].index /\ k.item[job[p].name] = None
            /\ \A n \in Items : n # job[p].name => k.item[n] = mem[p].item[n]
    BY <1>1, <1>2, <2>1 DEF NoteFacts
  <2>3. mem' = [mem EXCEPT ![p] = IF Remembers(p) THEN Known(mem[p], job[p].name, None) ELSE @]
    BY <1>13 DEF NameFindsNothing, Noting
  <2>4. at[p] = "name" /\ Got(p, job[p].name) = None
    BY <1>13, <1>1, <2>1 DEF NameFindsNothing
  <2>5. QED
    BY <1>1, <2>2, <2>3, <2>4
<1>14. CASE List(p)
  <2> DEFINE n == Preferred(job[p].secret)
             k == mem[p]
             m == k
  <2>1. n \in Names /\ n \in Items /\ Legacy \in Items /\ n # Legacy /\ at[p] = "list"
    BY <1>14, <1>2 DEF List, CallFacts
  <2>2. k \in Memory /\ \A x \in Items : k.item[x] = mem[p].item[x]
    BY <1>1, <1>2, <2>1 DEF NoteFacts, CallFacts
  <2>3. mem' = [mem EXCEPT ![p] = IF Remembers(p) THEN ListKnown(p, m, n) ELSE @]
    BY <1>14 DEF List, Noting
  <2>4. index' = IF n \in ListedTo(p) THEN index ELSE index \cup {n}
    BY <1>14 DEF List, ListName
  <2> HIDE DEF k, n
  <2>5. Got(p, n) \in Secrets \cup {None}
    BY <1>2, <2>1 DEF CallFacts
  <2>6. m \in Memory /\ \A x \in Items : m.item[x] = k.item[x]
    BY <1>2, <2>1, <2>2, <2>5 DEF NoteFacts
  <2>7. /\ ListKnown(p, m, n).item = m.item
        /\ ListKnown(p, m, n).index = IF n \in ListedTo(p) THEN ListedTo(p) ELSE index \cup {n}
    BY <1>2, <2>1, <2>6 DEF NoteFacts
  <2> HIDE DEF m
  <2>8. QED
    BY <1>1, <2>1, <2>2, <2>3, <2>4, <2>6, <2>7
<1>15. CASE Set(p)
  <2>1. job[p].name \in Items /\ job[p].secret \in Secrets \cup {None}
    BY <1>15, <1>2 DEF Set, CallFacts, Inductive, JobFits
  <2>2. LET k == Known(mem[p], job[p].name, job[p].secret)
        IN  /\ k.index = mem[p].index /\ k.item[job[p].name] = job[p].secret
            /\ \A n \in Items : n # job[p].name => k.item[n] = mem[p].item[n]
    BY <1>1, <1>2, <2>1 DEF NoteFacts
  <2>3. mem' = [mem EXCEPT ![p] = IF Remembers(p) THEN Known(mem[p], job[p].name, job[p].secret) ELSE @]
    BY <1>15 DEF Set, Noting
  <2>4. at[p] = "set" /\ item'[job[p].name] = job[p].secret
    BY <1>15, <1>1, <2>1 DEF Set
  <2>5. QED
    BY <1>1, <2>2, <2>3, <2>4
<1>16. QED
  BY <1>3, <1>4, <1>5, <1>6, <1>7, <1>8, <1>9, <1>10, <1>11,
     <1>12, <1>13, <1>14, <1>15 DEF Moves, Command, Call

\* A command remembers a secret of the old item only while it moves it.
LEMMA TheOldItemIsMoved ==
  ASSUME KeychainAssumption, Inductive, LegacyIsMoved, NEW p \in Procs, Moves(p)
  PROVE  LegacyIsMoved'
<1> USE DEF LegacyIsMoved, Goto, Leave, Remembers, NoJob
<1>1. /\ at \in [Procs -> At] /\ job \in [Procs -> Job] /\ job[p] \in Job
      /\ item \in [Items -> Secrets \cup {None}] /\ mem \in [Procs -> Memory] /\ mem[p] \in Memory
  BY DEF Inductive, TypeOK, Typed
<1>2. /\ \A q \in Procs : q # p => mem'[q] = mem[q]
      /\ \/ mem'[p].item[Legacy] \in {mem[p].item[Legacy], Unread}
         \/ at[p] \in {"migrate", "look"} /\ mem'[p].item[Legacy] = Got(p, Legacy)
         \/ at[p] = "drop" /\ mem'[p].item[Legacy] = None
  BY HowMemoryMoves, CallFactsHold DEF MemoryMoves, CallFacts
<1>3. NoteFacts(p) /\ CallFacts(p)
  BY NamesHold, Notes, CallFactsHold DEF Inductive, TypeOK
<1>4. Unread \notin Secrets \cup {None} /\ None \notin Secrets
  BY DEF KeychainAssumption
<1>5. CASE \E c \in {"publish", "status", "signin", "logout"} : Begin(p, c)
  BY <1>5, <1>1, <1>2, <1>3, <1>4 DEF Begin
<1>6. CASE \/ AskForEntries(p)
           \/ \E n \in Names : AskForName(p, n)
           \/ \E s \in Secrets : AskToSave(p, s)
           \/ AskToForget(p)
  BY <1>6, <1>1, <1>2, <1>3, <1>4 DEF AskForEntries, Ask, AskForName, AskToSave,
     AskToForget
<1>7. CASE LockHeldTooLong(p) \/ End(p)
  BY <1>7, <1>1, <1>2, <1>3, <1>4 DEF LockHeldTooLong, NoteFacts, End
<1>8. CASE Release(p) \/ TakeLock(p)
  BY <1>8, <1>1, <1>2, <1>3, <1>4 DEF Release, TakeLock, NoteFacts
<1>9. CASE NothingToMove(p)
  BY <1>9, <1>1, <1>2, <1>3, <1>4 DEF NothingToMove, AfterMigration, Readable,
     NoteFacts, CallFacts, Noting
<1>10. CASE ListToMove(p)
  BY <1>10, <1>1, <1>2, <1>3, <1>4 DEF ListToMove
<1>11. CASE Move(p)
  BY <1>11, <1>1, <1>2, <1>3, <1>4 DEF Move
<1>12. CASE DropMoved(p)
  BY <1>12, <1>1, <1>2, <1>3, <1>4 DEF DropMoved, AfterMigration, NoteFacts, CallFacts,
     Noting
<1>13. CASE Look(p)
  <2>1. Remembers(p) => mem[p].item[Legacy] # Unread
    BY <1>13, <1>1 DEF Look
  <2>2. mem'[p].item[Legacy] = mem[p].item[Legacy]
    <3> DEFINE m == [item |-> [n \in Items |-> IF n \in ListedTo(p) \cup {Legacy}
                                                 THEN Got(p, n) ELSE mem[p].item[n]],
                     index |-> ListedTo(p)]
    <3>1. mem' = [mem EXCEPT ![p] = IF Remembers(p) THEN m ELSE @]
      BY <1>13 DEF Look, Noting
    <3>2. m.item[Legacy] = Got(p, Legacy)
      BY <1>3 DEF CallFacts
    <3> HIDE DEF m
    <3>3. QED
      BY <1>1, <2>1, <3>1, <3>2 DEF Got
  <2>3. /\ at[p] = "look" /\ at'[p] \in {"list", "answered"}
        /\ \A q \in Procs : q # p => at'[q] = at[q] /\ job'[q] = job[q]
    BY <1>13, <1>1 DEF Look
  <2>4. QED
    BY <1>1, <1>2, <2>2, <2>3
<1>14. CASE NameFinds(p)
  BY <1>14, <1>1, <1>2, <1>3, <1>4 DEF NameFinds
<1>15. CASE NameFindsNothing(p)
  BY <1>15, <1>1, <1>2, <1>3, <1>4 DEF NameFindsNothing
<1>16. CASE List(p)
  BY <1>16, <1>1, <1>2, <1>3, <1>4 DEF List
<1>17. CASE Set(p)
  BY <1>17, <1>1, <1>2, <1>3, <1>4 DEF Set
<1>18. CASE KeepNewer(p) \/ StillThere(p) \/ Unlist(p)
  BY <1>18, <1>1, <1>2, <1>3, <1>4 DEF KeepNewer, StillThere, Unlist
<1>19. CASE Forget(p)
  BY <1>19, <1>1, <1>2, <1>3, <1>4 DEF Forget
<1>20. CASE Stop(p)
  <2>1. mem'[p].item[Legacy] = Unread
    BY <1>20, <1>1, <1>3 DEF Stop, NoteFacts, CallFacts
  <2>2. at'[p] = "idle" /\ \A q \in Procs : q # p => at'[q] = at[q] /\ job'[q] = job[q]
    BY <1>20, <1>1 DEF Stop
  <2>3. QED
    BY <1>1, <1>2, <1>4, <2>1, <2>2
<1>21. QED
  BY <1>5, <1>6, <1>7, <1>8, <1>9, <1>10, <1>11, <1>12, <1>13, <1>14, <1>15, <1>16,
     <1>17, <1>18, <1>19, <1>20 DEF Moves, Command, Call

\* Nobody else changes the old item or its copy between a move's calls.
LEMMA MovesStayCurrent ==
  ASSUME KeychainAssumption, Inductive, LegacyIsMoved, MovesTheLegacy, NEW p \in Procs, Moves(p)
  PROVE  MovesTheLegacy'
<1> USE DEF MovesTheLegacy, OneAtWork, Goto, Leave, Delete
<1>1. /\ at \in [Procs -> At] /\ job \in [Procs -> Job] /\ job[p] \in Job
      /\ item \in [Items -> Secrets \cup {None}] /\ mem \in [Procs -> Memory] /\ mem[p] \in Memory
      /\ OneAtWork
  BY DEF Inductive, TypeOK, Typed
<1>2. /\ at[p] = "migrate" /\ Readable(Got(p, Legacy)) => Got(p, Legacy) = item[Legacy]
      /\ at[p] \in {"move", "set"} => job[p].name \in Items /\ job[p].name # Legacy
      /\ Legacy \in Items
  BY CallFactsHold DEF CallFacts, LegacyIsMoved, Got, Readable, Inductive, TypeOK, Typed, Memory
<1>3. CASE \E c \in {"publish", "status", "signin", "logout"} : Begin(p, c)
  BY <1>3, <1>1, <1>2 DEF Begin
<1>4. CASE \/ AskForEntries(p)
           \/ \E n \in Names : AskForName(p, n)
           \/ \E s \in Secrets : AskToSave(p, s)
           \/ AskToForget(p)
  BY <1>4, <1>1, <1>2 DEF AskForEntries, Ask, AskForName, AskToSave, AskToForget
<1>5. CASE LockHeldTooLong(p) \/ End(p) \/ Stop(p)
  BY <1>5, <1>1, <1>2 DEF LockHeldTooLong, End, Stop
<1>6. CASE Release(p) \/ TakeLock(p)
  BY <1>6, <1>1, <1>2 DEF Release, TakeLock
<1>7. CASE NothingToMove(p)
  BY <1>7, <1>1, <1>2 DEF NothingToMove, AfterMigration
<1>8. CASE ListToMove(p)
  BY <1>8, <1>1, <1>2 DEF ListToMove
<1>9. CASE Move(p)
  BY <1>9, <1>1, <1>2 DEF Move
<1>10. CASE DropMoved(p)
  BY <1>10, <1>1, <1>2 DEF DropMoved, AfterMigration
<1>11. CASE Look(p)
  BY <1>11, <1>1, <1>2 DEF Look
<1>12. CASE NameFinds(p)
  BY <1>12, <1>1, <1>2 DEF NameFinds
<1>13. CASE NameFindsNothing(p)
  BY <1>13, <1>1, <1>2 DEF NameFindsNothing
<1>14. CASE List(p)
  BY <1>14, <1>1, <1>2 DEF List
<1>15. CASE Set(p)
  BY <1>15, <1>1, <1>2 DEF Set
<1>16. CASE KeepNewer(p) \/ StillThere(p) \/ Unlist(p)
  BY <1>16, <1>1, <1>2 DEF KeepNewer, StillThere, Unlist
<1>17. CASE Forget(p)
  BY <1>17, <1>1, <1>2 DEF Forget
<1>18. QED
  BY <1>3, <1>4, <1>5, <1>6, <1>7, <1>8, <1>9, <1>10, <1>11, <1>12, <1>13, <1>14, <1>15,
     <1>16, <1>17 DEF Moves, Command, Call

\* No command of this skaldr puts anything into the old item.
LEMMA TheOldItemOnlyGoes ==
  ASSUME KeychainAssumption, Inductive, NEW p \in Procs, Moves(p)
  PROVE  /\ item'[Legacy] \in {item[Legacy], None}
         /\ refusals' = refusals /\ at[p] = "drop" =>
              item'[Legacy] = None \/ (at'[p] = "idle" /\ mem'[p] = NothingRead)
<1> USE DEF Delete, Goto, Leave
<1>1. /\ at \in [Procs -> At] /\ item \in [Items -> Secrets \cup {None}]
      /\ mem \in [Procs -> Memory] /\ refusals \in Nat
  BY DEF Inductive, TypeOK, Typed, Counted, KeychainAssumption
<1>2. Legacy \in Items /\ (at[p] \in {"move", "set"} => job[p].name # Legacy)
  BY CallFactsHold DEF CallFacts
<1>3. CASE \/ \E c \in {"publish", "status", "signin", "logout"} : Begin(p, c)
           \/ AskForEntries(p)
           \/ \E n \in Names : AskForName(p, n)
           \/ \E s \in Secrets : AskToSave(p, s)
           \/ AskToForget(p)
           \/ TakeLock(p)
           \/ LockHeldTooLong(p)
           \/ Release(p)
           \/ End(p)
           \/ NothingToMove(p)
           \/ ListToMove(p)
           \/ Look(p)
           \/ NameFinds(p)
           \/ NameFindsNothing(p)
           \/ List(p)
           \/ KeepNewer(p)
           \/ StillThere(p)
           \/ Unlist(p)
  BY <1>3, <1>1, <1>2 DEF Begin, AskForEntries, Ask, AskForName, AskToSave, AskToForget,
     TakeLock, LockHeldTooLong, Release, End, NothingToMove, AfterMigration, ListToMove,
     Look, NameFinds, NameFindsNothing, List, KeepNewer, StillThere, Unlist
<1>4. CASE Move(p)
  BY <1>4, <1>1, <1>2 DEF Move
<1>5. CASE DropMoved(p)
  BY <1>5, <1>1, <1>2 DEF DropMoved, AfterMigration
<1>6. CASE Set(p)
  BY <1>6, <1>1, <1>2 DEF Set
<1>7. CASE Forget(p)
  BY <1>7, <1>1, <1>2 DEF Forget
<1>8. CASE Stop(p)
  BY <1>8, <1>1, <1>2 DEF Stop
<1>9. QED
  BY <1>3, <1>4, <1>5, <1>6, <1>7, <1>8 DEF Moves, Command, Call

\* Only a command that has moved the old item, or found nothing to move, goes past it.
LEMMA OnlyAMoveGoesPast ==
  ASSUME KeychainAssumption, Inductive, NothingLeftBehind, refusals' = refusals, NEW p \in Procs, Moves(p)
  PROVE  \A q \in Procs : PastTheMove(q)' => PastTheMove(q) \/ ~Readable(item'[Legacy])
<1> USE DEF PastTheMove, Goto, Leave, NoJob
<1>1. at \in [Procs -> At] /\ job \in [Procs -> Job] /\ job[p] \in Job
  BY DEF Inductive, TypeOK, Typed
<1>2. at[p] = "migrate" /\ ~Readable(Got(p, Legacy)) => ~Readable(item[Legacy])
  BY DEF NothingLeftBehind, Got
<1>3. at[p] = "drop" /\ at'[p] # "idle" => ~Readable(item'[Legacy])
  BY TheOldItemOnlyGoes DEF Readable
<1>4. /\ at[p] \in {"migrate", "move", "drop", "look"} => job[p].op \in {"entries", "save"}
      /\ job[p].op = None => job[p].entry = None
      /\ job[p].op = "save" => job[p].cmd # "logout"
      /\ at[p] \in {"list", "set"} => job[p].op = "save"
      /\ None \notin {"publish", "status", "signin", "logout", "entries", "named", "save", "forget"}
  BY DEF Inductive, JobFits, KeychainAssumption
<1>5. CASE \E c \in {"publish", "status", "signin", "logout"} : Begin(p, c)
  BY <1>5, <1>1, <1>2, <1>3, <1>4 DEF Begin
<1>6. CASE AskForEntries(p)
  BY <1>6, <1>1, <1>2, <1>3, <1>4 DEF AskForEntries, Ask
<1>7. CASE \E n \in Names : AskForName(p, n)
  BY <1>7, <1>1, <1>2, <1>3, <1>4 DEF AskForName, Ask
<1>8. CASE \E s \in Secrets : AskToSave(p, s)
  BY <1>8, <1>1, <1>2, <1>3, <1>4 DEF AskToSave, Ask
<1>9. CASE AskToForget(p)
  BY <1>9, <1>1, <1>2, <1>3, <1>4 DEF AskToForget, Ask, Job
<1>10. CASE LockHeldTooLong(p) \/ End(p) \/ Stop(p)
  BY <1>10, <1>1, <1>2, <1>3, <1>4 DEF LockHeldTooLong, End, Stop
<1>11. CASE Release(p) \/ TakeLock(p)
  BY <1>11, <1>1, <1>2, <1>3, <1>4 DEF Release, TakeLock
<1>12. CASE NothingToMove(p)
  BY <1>12, <1>1, <1>2, <1>3, <1>4 DEF NothingToMove, AfterMigration
<1>13. CASE ListToMove(p)
  BY <1>13, <1>1, <1>2, <1>3, <1>4 DEF ListToMove
<1>14. CASE Move(p)
  BY <1>14, <1>1, <1>2, <1>3, <1>4 DEF Move
<1>15. CASE DropMoved(p)
  BY <1>15, <1>1, <1>2, <1>3, <1>4 DEF DropMoved, AfterMigration
<1>16. CASE Look(p)
  <2>1. job'[p].op = job[p].op /\ job'[p].cmd = job[p].cmd
    BY <1>16, <1>1 DEF Look, Job
  <2>2. at[p] = "look" /\ \A q \in Procs : q # p => at'[q] = at[q] /\ job'[q] = job[q]
    BY <1>16, <1>1 DEF Look
  <2>3. QED
    BY <1>1, <1>4, <2>1, <2>2
<1>17. CASE NameFinds(p)
  BY <1>17, <1>1, <1>2, <1>3, <1>4 DEF NameFinds
<1>18. CASE NameFindsNothing(p)
  BY <1>18, <1>1, <1>2, <1>3, <1>4 DEF NameFindsNothing
<1>19. CASE List(p)
  BY <1>19, <1>1, <1>2, <1>3, <1>4 DEF List
<1>20. CASE Set(p)
  BY <1>20, <1>1, <1>2, <1>3, <1>4 DEF Set
<1>21. CASE KeepNewer(p) \/ StillThere(p) \/ Unlist(p)
  BY <1>21, <1>1, <1>2, <1>3, <1>4 DEF KeepNewer, StillThere, Unlist
<1>22. CASE Forget(p)
  BY <1>22, <1>1, <1>2, <1>3, <1>4 DEF Forget
<1>23. QED
  BY <1>5, <1>6, <1>7, <1>8, <1>9, <1>10, <1>11, <1>12, <1>13, <1>14, <1>15, <1>16,
     <1>17, <1>18, <1>19, <1>20, <1>21, <1>22 DEF Moves, Command, Call

\* So it stays empty for whoever takes it for gone.
LEMMA NothingStaysBehind ==
  ASSUME KeychainAssumption, Inductive, LegacyIsMoved, NothingLeftBehind, refusals' = refusals,
         NEW p \in Procs, Moves(p)
  PROVE  NothingLeftBehind'
<1>1. item'[Legacy] \in {item[Legacy], None}
  BY TheOldItemOnlyGoes
<1>2. \A q \in Procs : PastTheMove(q)' => ~Readable(item'[Legacy])
  BY <1>1, OnlyAMoveGoesPast DEF NothingLeftBehind, Readable
<1>3. ASSUME NEW q \in Procs, mem'[q].item[Legacy] # Unread, ~Readable(mem'[q].item[Legacy])
      PROVE  ~Readable(item'[Legacy])
  <2>1. CASE q = p /\ at[p] = "drop"
    <3>1. item'[Legacy] = None \/ mem'[p] = NothingRead
      BY <2>1, TheOldItemOnlyGoes
    <3>2. NothingRead.item[Legacy] = Unread
      BY DEF NothingRead, Items
    <3>3. QED
      BY <1>3, <2>1, <3>1, <3>2 DEF Readable
  <2>2. CASE q # p \/ at[p] # "drop"
    <3>1. Legacy \in Items /\ (at[p] \in {"name", "move", "set"} => job[p].name # Legacy)
      BY CallFactsHold DEF CallFacts
    <3>2. mem'[q].item[Legacy] \in {mem[q].item[Legacy], Unread, Got(q, Legacy)}
      BY <2>2, <3>1, HowMemoryMoves DEF MemoryMoves
    <3>3. QED
      BY <1>1, <1>3, <3>2 DEF NothingLeftBehind, Readable, Got
  <2>3. QED
    BY <2>1, <2>2
<1>4. QED
  BY <1>2, <1>3 DEF NothingLeftBehind, Readable

\* Who changes the keychain and its index, and what.
LEMMA WhoChangesTheKeychain ==
  ASSUME KeychainAssumption, Inductive, NEW p \in Procs, Moves(p)
  PROVE  /\ \A n \in Items :
              \/ item'[n] \in {item[n], None}
              \/ at[p] \in {"move", "set"} /\ n = job[p].name /\ index' = index
         /\ index \subseteq index' \/ (at[p] = "unlist" /\ index' = index \ {job[p].entry} /\ item' = item)
         /\ at[p] \in {"idle", "thinking", "asked"} => item' = item /\ index' = index
<1> USE DEF Delete, ListName
<1>1. item \in [Items -> Secrets \cup {None}]
  BY DEF Inductive, TypeOK, Typed
<1>2. CASE \/ \E c \in {"publish", "status", "signin", "logout"} : Begin(p, c)
           \/ AskForEntries(p)
           \/ \E n \in Names : AskForName(p, n)
           \/ \E s \in Secrets : AskToSave(p, s)
           \/ AskToForget(p)
           \/ TakeLock(p)
           \/ Release(p)
           \/ NothingToMove(p)
           \/ Look(p)
           \/ NameFindsNothing(p)
           \/ KeepNewer(p)
           \/ StillThere(p)
  BY <1>2, <1>1 DEF Begin, AskForEntries, Ask, AskForName, AskToSave, AskToForget,
     TakeLock, Release, NothingToMove, Look, NameFindsNothing, KeepNewer, StillThere
<1>3. CASE LockHeldTooLong(p) \/ End(p) \/ Stop(p)
  BY <1>3, <1>1 DEF LockHeldTooLong, End, Stop
<1>4. CASE ListToMove(p)
  BY <1>4, <1>1 DEF ListToMove
<1>5. CASE Move(p)
  BY <1>5, <1>1 DEF Move
<1>6. CASE DropMoved(p)
  BY <1>6, <1>1 DEF DropMoved
<1>7. CASE NameFinds(p)
  BY <1>7, <1>1 DEF NameFinds
<1>8. CASE List(p)
  BY <1>8, <1>1 DEF List
<1>9. CASE Set(p)
  BY <1>9, <1>1 DEF Set
<1>10. CASE Forget(p)
  BY <1>10, <1>1 DEF Forget
<1>11. CASE Unlist(p)
  BY <1>11, <1>1 DEF Unlist
<1>12. QED
  BY <1>2, <1>3, <1>4, <1>5, <1>6, <1>7, <1>8, <1>9, <1>10,
     <1>11 DEF Moves, Command, Call

\* What is about to be written is listed, and what is about to be unlisted is gone.
LEMMA JobsAreListed ==
  ASSUME KeychainAssumption, Inductive, LegacyIsMoved, Listed, refusals' = refusals, NEW p \in Procs, Moves(p)
  PROVE  \A q \in Procs :
           /\ at'[q] \in {"move", "set"} => job'[q].name \in index'
           /\ at'[q] = "unlist" => item'[job'[q].entry] = None
<1> USE DEF OneAtWork, Goto, Leave, Delete, ListName
<1>1. /\ at \in [Procs -> At] /\ job \in [Procs -> Job] /\ job[p] \in Job /\ OneAtWork
      /\ item \in [Items -> Secrets \cup {None}] /\ refusals \in Nat
  BY DEF Inductive, TypeOK, Typed, Counted
<1>2. \A q \in Procs :
        /\ at[q] \in {"move", "set"} => job[q].name \in index
        /\ at[q] = "unlist" => item[job[q].entry] = None
  BY DEF Listed
<1>3. at[p] = "migrate" /\ Readable(Got(p, Legacy)) => Readable(item[Legacy])
  BY CallFactsHold DEF CallFacts, LegacyIsMoved, Got, Readable
<1>4. /\ at[p] = "list" => job[p].op = "save"
      /\ at[p] \in {"check", "delete", "unlist"} => job[p].entry \in Items
  BY CallFactsHold DEF CallFacts, Inductive, JobFits
<1>5. (at[p] = "migrate" /\ Readable(Got(p, Legacy))) \/ at[p] = "list" => ListedTo(p) \subseteq index
  BY <1>3, <1>4 DEF Listed, RemembersTheIndex, ListedTo
<1>6. CASE \E c \in {"publish", "status", "signin", "logout"} : Begin(p, c)
  BY <1>6, <1>1, <1>2, <1>3, <1>4, <1>5 DEF Begin
<1>7. CASE \/ AskForEntries(p)
           \/ \E n \in Names : AskForName(p, n)
           \/ \E s \in Secrets : AskToSave(p, s)
           \/ AskToForget(p)
  BY <1>7, <1>1, <1>2, <1>3, <1>4, <1>5 DEF AskForEntries, Ask, AskForName, AskToSave,
     AskToForget
<1>8. CASE LockHeldTooLong(p) \/ End(p) \/ Stop(p)
  BY <1>8, <1>1, <1>2, <1>3, <1>4, <1>5 DEF LockHeldTooLong, End, Stop
<1>9. CASE Release(p) \/ TakeLock(p)
  BY <1>9, <1>1, <1>2, <1>3, <1>4, <1>5 DEF Release, TakeLock
<1>10. CASE NothingToMove(p)
  BY <1>10, <1>1, <1>2, <1>3, <1>4, <1>5 DEF NothingToMove, AfterMigration
<1>11. CASE ListToMove(p)
  BY <1>11, <1>1, <1>2, <1>3, <1>4, <1>5 DEF ListToMove
<1>12. CASE Move(p)
  BY <1>12, <1>1, <1>2, <1>3, <1>4, <1>5 DEF Move
<1>13. CASE DropMoved(p)
  BY <1>13, <1>1, <1>2, <1>3, <1>4, <1>5 DEF DropMoved, AfterMigration
<1>14. CASE Look(p)
  BY <1>14, <1>1, <1>2, <1>3, <1>4, <1>5 DEF Look
<1>15. CASE NameFinds(p)
  BY <1>15, <1>1, <1>2, <1>3, <1>4, <1>5 DEF NameFinds
<1>16. CASE NameFindsNothing(p)
  BY <1>16, <1>1, <1>2, <1>3, <1>4, <1>5 DEF NameFindsNothing
<1>17. CASE List(p)
  BY <1>17, <1>1, <1>2, <1>3, <1>4, <1>5 DEF List
<1>18. CASE Set(p)
  BY <1>18, <1>1, <1>2, <1>3, <1>4, <1>5 DEF Set
<1>19. CASE KeepNewer(p) \/ StillThere(p) \/ Unlist(p)
  BY <1>19, <1>1, <1>2, <1>3, <1>4, <1>5 DEF KeepNewer, StillThere, Unlist
<1>20. CASE Forget(p)
  BY <1>20, <1>1, <1>2, <1>3, <1>4, <1>5 DEF Forget
<1>21. QED
  BY <1>6, <1>7, <1>8, <1>9, <1>10, <1>11, <1>12, <1>13, <1>14, <1>15, <1>16, <1>17,
     <1>18, <1>19, <1>20 DEF Moves, Command, Call

\* A save starts with nothing remembered.
LEMMA WhoSaves ==
  ASSUME KeychainAssumption, Inductive, NEW p \in Procs, Moves(p)
  PROVE  \A q \in Procs :
           job'[q].op = "save" /\ at'[q] \notin {"idle", "thinking", "asked", "answered"} =>
             \/ job[q].op = "save" /\ at[q] \notin {"idle", "thinking", "asked", "answered"}
             \/ q = p /\ mem'[p] = NothingRead
<1> USE DEF Goto, Leave
<1>1. at \in [Procs -> At] /\ mem \in [Procs -> Memory] /\ job \in [Procs -> Job] /\ job[p] \in Job
  BY DEF Inductive, TypeOK, Typed
<1>2. at[p] = "migrate" => job[p].op # "named"
  BY DEF Inductive, JobFits
<1>3. CASE \E c \in {"publish", "status", "signin", "logout"} : Begin(p, c)
  BY <1>3, <1>1, <1>2 DEF Begin
<1>4. CASE \/ AskForEntries(p)
           \/ \E n \in Names : AskForName(p, n)
           \/ \E s \in Secrets : AskToSave(p, s)
           \/ AskToForget(p)
  BY <1>4, <1>1, <1>2 DEF AskForEntries, Ask, AskForName, AskToSave, AskToForget
<1>5. CASE LockHeldTooLong(p) \/ End(p) \/ Stop(p)
  BY <1>5, <1>1, <1>2 DEF LockHeldTooLong, End, Stop
<1>6. CASE Release(p) \/ TakeLock(p)
  BY <1>6, <1>1, <1>2 DEF Release, TakeLock
<1>7. CASE NothingToMove(p)
  BY <1>7, <1>1, <1>2 DEF NothingToMove, AfterMigration
<1>8. CASE ListToMove(p)
  BY <1>8, <1>1, <1>2 DEF ListToMove
<1>9. CASE Move(p)
  BY <1>9, <1>1, <1>2 DEF Move
<1>10. CASE DropMoved(p)
  BY <1>10, <1>1, <1>2 DEF DropMoved, AfterMigration
<1>11. CASE Look(p)
  BY <1>11, <1>1, <1>2 DEF Look, Job
<1>12. CASE NameFinds(p)
  BY <1>12, <1>1, <1>2 DEF NameFinds
<1>13. CASE NameFindsNothing(p)
  BY <1>13, <1>1, <1>2 DEF NameFindsNothing
<1>14. CASE List(p)
  BY <1>14, <1>1, <1>2 DEF List
<1>15. CASE Set(p)
  BY <1>15, <1>1, <1>2 DEF Set
<1>16. CASE KeepNewer(p) \/ StillThere(p) \/ Unlist(p)
  BY <1>16, <1>1, <1>2 DEF KeepNewer, StillThere, Unlist
<1>17. CASE Forget(p)
  BY <1>17, <1>1, <1>2 DEF Forget
<1>18. QED
  BY <1>3, <1>4, <1>5, <1>6, <1>7, <1>8, <1>9, <1>10, <1>11, <1>12, <1>13, <1>14, <1>15,
     <1>16, <1>17 DEF Moves, Command, Call

\* What a command remembers of the index stays listed where that matters.
LEMMA TheIndexStaysRemembered ==
  ASSUME KeychainAssumption, Inductive, NothingLeftBehind, Listed, refusals' = refusals,
         NEW p \in Procs, Moves(p)
  PROVE  RemembersTheIndex'
<1> DEFINE Trusts(q) ==
      \/ Readable(item[Legacy])
      \/ job[q].op = "save" /\ at[q] \notin {"idle", "thinking", "asked", "answered"}
    Knows(q) == mem[q].index = Unread \/ mem[q].index \subseteq index
<1>1. ASSUME NEW q \in Procs, Trusts(q)'
      PROVE  Trusts(q) \/ (q = p /\ mem'[p] = NothingRead)
  BY <1>1, TheOldItemOnlyGoes, WhoSaves DEF Readable
<1>2. ASSUME NEW q \in Procs, q # p, Trusts(q), Knows(q)
      PROVE  Knows(q)'
  <2>1. mem'[q] = mem[q]
    BY <1>2, HowMemoryMoves DEF MemoryMoves
  <2>2. at[p] # "unlist"
    BY <1>2 DEF NothingLeftBehind, PastTheMove, Inductive, JobFits, OneAtWork
  <2>3. index \subseteq index'
    BY <2>2, WhoChangesTheKeychain
  <2>4. QED
    BY <1>2, <2>1, <2>3
<1>3. ASSUME Trusts(p), Knows(p)
      PROVE  Knows(p)'
  <2>1. at[p] # "unlist"
    BY <1>3 DEF NothingLeftBehind, PastTheMove, Inductive, JobFits
  <2>2. index \subseteq index'
    BY <2>1, WhoChangesTheKeychain
  <2>3. mem'[p].index \in {mem[p].index, index, Unread} \/ mem'[p].index = index'
    BY HowMemoryMoves DEF MemoryMoves, ListedTo
  <2>4. QED
    BY <1>3, <2>2, <2>3
<1>4. ASSUME NEW q \in Procs, Trusts(q)' PROVE Knows(q)'
  <2>1. CASE q = p /\ mem'[p] = NothingRead
    BY <2>1 DEF NothingRead
  <2>2. CASE Trusts(q)
    BY <1>2, <1>3, <2>2 DEF Listed, RemembersTheIndex
  <2>3. QED
    BY <1>1, <1>4, <2>1, <2>2
<1>5. QED
  BY <1>4 DEF RemembersTheIndex

\* The index lists every item, and what is on its way there.
LEMMA ItemsStayListed ==
  ASSUME KeychainAssumption, Inductive, LegacyIsMoved, NothingLeftBehind, Listed, refusals' = refusals,
         NEW p \in Procs, Moves(p)
  PROVE  Listed'
<1>1. EverySecretIsListed'
  <2> SUFFICES ASSUME NEW n \in Names, item'[n] # None PROVE n \in index'
    BY DEF EverySecretIsListed
  <2>1. n \in index
    BY CallFactsHold, WhoChangesTheKeychain DEF CallFacts, Listed, EverySecretIsListed
  <2>2. CASE index \subseteq index'
    BY <2>1, <2>2
  <2>3. CASE at[p] = "unlist" /\ index' = index \ {job[p].entry} /\ item' = item
    BY <2>1, <2>3 DEF Listed
  <2>4. QED
    BY <2>2, <2>3, WhoChangesTheKeychain
<1>2. QED
  BY <1>1, JobsAreListed, TheIndexStaysRemembered DEF Listed

\* A moved entry goes to its site's name, and a sign-in to its own.
LEMMA SignInsStayAtHome ==
  ASSUME KeychainAssumption, Inductive, LegacyReplaces, KeptAtHome, NEW p \in Procs, Moves(p)
  PROVE  KeptAtHome'
<1> USE DEF KeptAtHome, Goto, Leave, Delete
<1>1. /\ at \in [Procs -> At] /\ job \in [Procs -> Job] /\ job[p] \in Job
      /\ item \in [Items -> Secrets \cup {None}] /\ ~Readable(None)
  BY DEF Inductive, TypeOK, Typed, Readable
<1>2. /\ at[p] = "set" => Readable(job[p].secret)
      /\ \A s : MovesTo(p, s) = Preferred(s)
      /\ Names \subseteq Items
  BY CallFactsHold DEF CallFacts, Inductive, JobFits, MovesTo
<1>3. CASE \E c \in {"publish", "status", "signin", "logout"} : Begin(p, c)
  BY <1>3, <1>1, <1>2 DEF Begin
<1>4. CASE \/ AskForEntries(p)
           \/ \E n \in Names : AskForName(p, n)
           \/ \E s \in Secrets : AskToSave(p, s)
           \/ AskToForget(p)
  BY <1>4, <1>1, <1>2 DEF AskForEntries, Ask, AskForName, AskToSave, AskToForget
<1>5. CASE LockHeldTooLong(p) \/ End(p) \/ Stop(p)
  BY <1>5, <1>1, <1>2 DEF LockHeldTooLong, End, Stop
<1>6. CASE Release(p) \/ TakeLock(p)
  BY <1>6, <1>1, <1>2 DEF Release, TakeLock
<1>7. CASE NothingToMove(p)
  BY <1>7, <1>1, <1>2 DEF NothingToMove, AfterMigration
<1>8. CASE ListToMove(p)
  BY <1>8, <1>1, <1>2 DEF ListToMove
<1>9. CASE Move(p)
  BY <1>9, <1>1, <1>2 DEF Move
<1>10. CASE DropMoved(p)
  BY <1>10, <1>1, <1>2 DEF DropMoved, AfterMigration
<1>11. CASE Look(p)
  BY <1>11, <1>1, <1>2 DEF Look
<1>12. CASE NameFinds(p)
  BY <1>12, <1>1, <1>2 DEF NameFinds
<1>13. CASE NameFindsNothing(p)
  BY <1>13, <1>1, <1>2 DEF NameFindsNothing
<1>14. CASE List(p)
  BY <1>14, <1>1, <1>2 DEF List
<1>15. CASE Set(p)
  BY <1>15, <1>1, <1>2 DEF Set
<1>16. CASE KeepNewer(p) \/ StillThere(p) \/ Unlist(p)
  BY <1>16, <1>1, <1>2 DEF KeepNewer, StillThere, Unlist
<1>17. CASE Forget(p)
  BY <1>17, <1>1, <1>2 DEF Forget
<1>18. QED
  BY <1>3, <1>4, <1>5, <1>6, <1>7, <1>8, <1>9, <1>10, <1>11, <1>12, <1>13, <1>14, <1>15,
     <1>16, <1>17 DEF Moves, Command, Call

\* What is being saved is a new token until it is set.
LEMMA TokensStayFresh ==
  ASSUME KeychainAssumption, Inductive, Renews, MovesTheLegacy, FreshUntilSet, NEW p \in Procs, Moves(p)
  PROVE  FreshUntilSet'
<1> USE DEF FreshUntilSet, Saving, Goto, Leave, Delete
<1>1. /\ at \in [Procs -> At] /\ job \in [Procs -> Job] /\ job[p] \in Job
      /\ item \in [Items -> Secrets \cup {None}]
  BY DEF Inductive, TypeOK, Typed
<1>2. /\ at[p] = "move" => job[p].raw = item[Legacy] /\ Legacy \in Items
      /\ at[p] \in {"list", "set"} => job[p].op = "save"
      /\ \A q \in Procs : job[q].op = "save" => job[q].secret # None
  BY CallFactsHold DEF CallFacts, MovesTheLegacy, Inductive, JobFits, KeychainAssumption
<1>3. CASE \E c \in {"publish", "status", "signin", "logout"} : Begin(p, c)
  BY <1>3, <1>1, <1>2 DEF Begin
<1>4. CASE AskForEntries(p)
  BY <1>4, <1>1, <1>2 DEF AskForEntries, Ask
<1>5. CASE \E n \in Names : AskForName(p, n)
  BY <1>5, <1>1, <1>2 DEF AskForName, Ask
<1>6. CASE \E s \in Secrets : AskToSave(p, s)
  BY <1>6, <1>1, <1>2 DEF AskToSave, Ask
<1>7. CASE AskToForget(p)
  BY <1>7, <1>1, <1>2 DEF AskToForget, Ask
<1>8. CASE LockHeldTooLong(p) \/ End(p) \/ Stop(p)
  BY <1>8, <1>1, <1>2 DEF LockHeldTooLong, End, Stop
<1>9. CASE Release(p) \/ TakeLock(p)
  BY <1>9, <1>1, <1>2 DEF Release, TakeLock
<1>10. CASE NothingToMove(p)
  BY <1>10, <1>1, <1>2 DEF NothingToMove, AfterMigration
<1>11. CASE ListToMove(p)
  BY <1>11, <1>1, <1>2 DEF ListToMove
<1>12. CASE Move(p)
  BY <1>12, <1>1, <1>2 DEF Move
<1>13. CASE DropMoved(p)
  BY <1>13, <1>1, <1>2 DEF DropMoved, AfterMigration
<1>14. CASE Look(p)
  <2>1. job'[p].op = job[p].op /\ job'[p].secret = job[p].secret
    BY <1>14, <1>1 DEF Look, Job
  <2>2. at[p] = "look" /\ item' = item /\ \A q \in Procs : q # p => at'[q] = at[q] /\ job'[q] = job[q]
    BY <1>14, <1>1 DEF Look
  <2>3. QED
    BY <1>1, <2>1, <2>2
<1>15. CASE NameFinds(p)
  BY <1>15, <1>1, <1>2 DEF NameFinds
<1>16. CASE NameFindsNothing(p)
  BY <1>16, <1>1, <1>2 DEF NameFindsNothing
<1>17. CASE List(p)
  BY <1>17, <1>1, <1>2 DEF List
<1>18. CASE Set(p)
  BY <1>18, <1>1, <1>2 DEF Set
<1>19. CASE KeepNewer(p) \/ StillThere(p) \/ Unlist(p)
  BY <1>19, <1>1, <1>2 DEF KeepNewer, StillThere, Unlist
<1>20. CASE Forget(p)
  BY <1>20, <1>1, <1>2 DEF Forget
<1>21. QED
  BY <1>3, <1>4, <1>5, <1>6, <1>7, <1>8, <1>9, <1>10, <1>11, <1>12, <1>13, <1>14, <1>15,
     <1>16, <1>17, <1>18, <1>19, <1>20 DEF Moves, Command, Call

\* Which calls change items.
LEMMA OnlyCallsChangeItems ==
  ASSUME KeychainAssumption, Inductive, NEW p \in Procs, Moves(p)
  PROVE  item' = item \/ Move(p) \/ at[p] \in {"set", "delete"} \/ item'[Legacy] = None
<1> USE DEF Delete
<1>1. item \in [Items -> Secrets \cup {None}] /\ Legacy \in Items
  BY DEF Inductive, TypeOK, Typed, Items
<1>2. CASE \/ \E c \in {"publish", "status", "signin", "logout"} : Begin(p, c)
           \/ AskForEntries(p)
           \/ \E n \in Names : AskForName(p, n)
           \/ \E s \in Secrets : AskToSave(p, s)
           \/ AskToForget(p)
           \/ TakeLock(p)
           \/ LockHeldTooLong(p)
           \/ Release(p)
           \/ End(p)
           \/ NothingToMove(p)
           \/ ListToMove(p)
           \/ Look(p)
           \/ NameFinds(p)
           \/ NameFindsNothing(p)
           \/ List(p)
           \/ KeepNewer(p)
           \/ StillThere(p)
           \/ Unlist(p)
           \/ Stop(p)
  BY <1>2, <1>1 DEF Begin, AskForEntries, Ask, AskForName, AskToSave, AskToForget,
     TakeLock, LockHeldTooLong, Release, End, NothingToMove, ListToMove, Look,
     NameFinds, NameFindsNothing, List, KeepNewer, StillThere, Unlist, Stop
<1>3. CASE Move(p)
  BY <1>3, <1>1 DEF Move
<1>4. CASE DropMoved(p)
  BY <1>4, <1>1 DEF DropMoved
<1>5. CASE Set(p)
  BY <1>5, <1>1 DEF Set
<1>6. CASE Forget(p)
  BY <1>6, <1>1 DEF Forget
<1>7. QED
  BY <1>2, <1>3, <1>4, <1>5, <1>6 DEF Moves, Command, Call

\* Which calls put something in.
LEMMA OnlyTwoWrite ==
  ASSUME KeychainAssumption, Inductive, NEW p \in Procs, Moves(p)
  PROVE  Move(p) \/ Set(p) \/ \A n \in Items : item'[n] \in {item[n], None}
<1> USE DEF Delete
<1>1. item \in [Items -> Secrets \cup {None}]
  BY DEF Inductive, TypeOK, Typed
<1>2. CASE \/ \E c \in {"publish", "status", "signin", "logout"} : Begin(p, c)
           \/ AskForEntries(p)
           \/ \E n \in Names : AskForName(p, n)
           \/ \E s \in Secrets : AskToSave(p, s)
           \/ AskToForget(p)
           \/ TakeLock(p)
           \/ LockHeldTooLong(p)
           \/ Release(p)
           \/ End(p)
           \/ NothingToMove(p)
           \/ ListToMove(p)
           \/ Look(p)
           \/ NameFinds(p)
           \/ NameFindsNothing(p)
           \/ List(p)
           \/ KeepNewer(p)
           \/ StillThere(p)
           \/ Unlist(p)
           \/ Stop(p)
  BY <1>2, <1>1 DEF Begin, AskForEntries, Ask, AskForName, AskToSave, AskToForget,
     TakeLock, LockHeldTooLong, Release, End, NothingToMove, ListToMove, Look,
     NameFinds, NameFindsNothing, List, KeepNewer, StillThere, Unlist, Stop
<1>3. CASE Move(p)
  BY <1>3, <1>1 DEF Move
<1>4. CASE DropMoved(p)
  BY <1>4, <1>1 DEF DropMoved
<1>5. CASE Set(p)
  BY <1>5, <1>1 DEF Set
<1>6. CASE Forget(p)
  BY <1>6, <1>1 DEF Forget
<1>7. QED
  BY <1>2, <1>3, <1>4, <1>5, <1>6 DEF Moves, Command, Call

\* A move starts where the old item was read.
LEMMA WhoMoves ==
  ASSUME KeychainAssumption, Inductive, NEW p \in Procs, Moves(p)
  PROVE  \A q \in Procs : at'[q] = "move" => (at[q] = "move" /\ job'[q] = job[q]) \/ (q = p /\ ListToMove(p))
<1> USE DEF Goto, Leave
<1>1. at \in [Procs -> At] /\ job \in [Procs -> Job]
  BY DEF Inductive, TypeOK, Typed
<1>2. CASE \E c \in {"publish", "status", "signin", "logout"} : Begin(p, c)
  BY <1>2, <1>1 DEF Begin
<1>3. CASE \/ AskForEntries(p)
           \/ \E n \in Names : AskForName(p, n)
           \/ \E s \in Secrets : AskToSave(p, s)
           \/ AskToForget(p)
  BY <1>3, <1>1 DEF AskForEntries, Ask, AskForName, AskToSave, AskToForget
<1>4. CASE LockHeldTooLong(p) \/ End(p) \/ Stop(p)
  BY <1>4, <1>1 DEF LockHeldTooLong, End, Stop
<1>5. CASE Release(p) \/ TakeLock(p)
  BY <1>5, <1>1 DEF Release, TakeLock
<1>6. CASE NothingToMove(p)
  BY <1>6, <1>1 DEF NothingToMove, AfterMigration
<1>7. CASE ListToMove(p)
  BY <1>7, <1>1 DEF ListToMove
<1>8. CASE Move(p)
  BY <1>8, <1>1 DEF Move
<1>9. CASE DropMoved(p)
  BY <1>9, <1>1 DEF DropMoved, AfterMigration
<1>10. CASE Look(p)
  BY <1>10, <1>1 DEF Look
<1>11. CASE NameFinds(p)
  BY <1>11, <1>1 DEF NameFinds
<1>12. CASE NameFindsNothing(p)
  BY <1>12, <1>1 DEF NameFindsNothing
<1>13. CASE List(p)
  BY <1>13, <1>1 DEF List
<1>14. CASE Set(p)
  BY <1>14, <1>1 DEF Set
<1>15. CASE KeepNewer(p) \/ StillThere(p) \/ Unlist(p)
  BY <1>15, <1>1 DEF KeepNewer, StillThere, Unlist
<1>16. CASE Forget(p)
  BY <1>16, <1>1 DEF Forget
<1>17. QED
  BY <1>2, <1>3, <1>4, <1>5, <1>6, <1>7, <1>8, <1>9, <1>10, <1>11, <1>12, <1>13, <1>14,
     <1>15, <1>16 DEF Moves, Command, Call

\* So a token is never under two names.
LEMMA OneCopyStays ==
  ASSUME KeychainAssumption, Inductive, MovesTheLegacy, OneCopy, FreshUntilSet, OneTarget,
         NEW p \in Procs, Moves(p)
  PROVE  OneCopy'
<1>1. item \in [Items -> Secrets \cup {None}] /\ Names \subseteq Items
  BY CallFactsHold DEF CallFacts, Inductive, TypeOK, Typed
<1>2. CASE Move(p)
  <2>1. item' = [item EXCEPT ![job[p].name] = item[Legacy]] /\ job[p].name \in Names
    BY <1>2, CallFactsHold DEF CallFacts, Move, MovesTheLegacy
  <2>2. \A n \in Names : item[n] = item[Legacy] => n = job[p].name
    BY <1>2 DEF Move, MovesTheLegacy, OneTarget
  <2>3. QED
    BY <1>1, <2>1, <2>2 DEF OneCopy
<1>3. CASE Set(p)
  <2>1. item' = [item EXCEPT ![job[p].name] = job[p].secret] /\ \A n \in Items : item[n] # job[p].secret
    BY <1>3 DEF Set, FreshUntilSet, Saving, Inductive, JobFits
  <2>2. QED
    BY <1>1, <2>1 DEF OneCopy
<1>4. CASE ~Move(p) /\ ~Set(p)
  <2>1. \A n \in Names : item'[n] \in {item[n], None}
    BY <1>1, <1>4, OnlyTwoWrite
  <2>2. QED
    BY <2>1 DEF OneCopy
<1>5. QED
  BY <1>2, <1>3, <1>4

\* As long as there is something to move, all that is done is to move it.
LEMMA TheTargetStays ==
  ASSUME KeychainAssumption, Inductive, ~LegacyReplaces, LegacyIsMoved, MovesTheLegacy,
         NothingLeftBehind, OneTarget, refusals' = refusals, NEW p \in Procs, Moves(p)
  PROVE  OneTarget'
<1> SUFFICES ASSUME Readable(item'[Legacy]) PROVE OneTarget'
  BY DEF OneTarget
<1> DEFINE s == item[Legacy]
           first == Preferred(s)
<1>1. /\ item'[Legacy] = s /\ Readable(s) /\ s \in Secrets
      /\ item \in [Items -> Secrets \cup {None}] /\ Legacy \in Items /\ Legacy \notin Names
      /\ Names \subseteq Items /\ first \in Names /\ Candidate[Home[s]][2] # first
  BY NamesHold, TheOldItemOnlyGoes DEF NameFacts, Readable, Inductive, TypeOK, Typed
<1>2. \/ item' = item /\ at[p] # "set"
      \/ Move(p) /\ job[p].name = Target(s) /\ item' = [item EXCEPT ![Target(s)] = s]
  <2>1. CASE Move(p)
    BY <1>1, <2>1 DEF Move, OneTarget, MovesTheLegacy
  <2>2. at[p] \notin {"set", "delete"}
    BY <1>1 DEF NothingLeftBehind, PastTheMove, Inductive, JobFits
  <2>3. CASE ~Move(p)
    BY <1>1, <2>2, <2>3, OnlyCallsChangeItems, TheOldItemOnlyGoes DEF Readable
  <2>4. QED
    BY <2>1, <2>3
<1>3. Target(s)' = Target(s) /\ (item'[first] # item[first] => item[first] = None /\ item'[first] = s)
  <2>1. CASE item' = item
    BY <2>1 DEF Target
  <2>2. CASE item' = [item EXCEPT ![Target(s)] = s] /\ item[first] \in {None, s}
    <3>1. Target(s) = first /\ item'[first] = s
      BY <1>1, <2>2 DEF Target
    <3>2. QED
      BY <1>1, <2>2, <3>1 DEF Target
  <2>3. CASE item' = [item EXCEPT ![Target(s)] = s] /\ item[first] \notin {None, s}
    <3>1. Target(s) = Candidate[Home[s]][2]
      BY <2>3 DEF Target
    <3>2. item'[first] = item[first]
      BY <1>1, <2>3, <3>1
    <3>3. QED
      BY <1>1, <2>3, <3>1, <3>2 DEF Target
  <2>4. QED
    BY <1>2, <2>1, <2>2, <2>3
<1>4. \A n \in Names : item'[n] = s => n = Target(s)
  BY <1>1, <1>2 DEF OneTarget
<1>5. ASSUME NEW q \in Procs
      PROVE  \/ mem'[q].item[first] \in {Unread, item'[first]}
             \/ mem'[q].item[first] = None /\ item'[first] = s
  <2>1. \/ mem'[q].item[first] \in {mem[q].item[first], Unread, item[first]}
        \/ mem'[q].item[first] = item'[first]
    BY <1>1, HowMemoryMoves DEF MemoryMoves, Got
  <2>2. QED
    BY <1>1, <1>3, <2>1 DEF OneTarget
<1>6. ASSUME NEW q \in Procs, at'[q] = "move" PROVE job'[q].name = Target(s)
  <2>1. CASE at[q] = "move" /\ job'[q] = job[q]
    BY <1>1, <2>1 DEF OneTarget
  <2>2. CASE q = p /\ ListToMove(p)
    <3>1. Got(p, Legacy) = s
      BY <2>2, CallFactsHold DEF ListToMove, CallFacts, LegacyIsMoved, Got, Readable
    <3>2. Got(p, first) \in {None, s} <=> item[first] \in {None, s}
      BY <1>1 DEF OneTarget, Got
    <3>3. job'[p].name = MovesTo(p, s)
      BY <2>2, <3>1 DEF ListToMove, Goto, Inductive, TypeOK, Typed, Job
    <3>4. QED
      BY <2>2, <3>2, <3>3 DEF MovesTo, Target
  <2>3. QED
    BY <1>6, <2>1, <2>2, WhoMoves
<1>7. QED
  BY <1>1, <1>3, <1>4, <1>5, <1>6 DEF OneTarget

\* A step of any command keeps the whole invariant.
LEMMA MovesKeepTheInvariant ==
  ASSUME KeychainAssumption, Inductive, NEW p \in Procs, Moves(p)
  PROVE  Inductive'
<1>1. Typed' /\ Counted' /\ OneAtWork' /\ JobFits' /\ earlier' = earlier
  BY TypesAreKept, CountsGrow, OneStaysAtWork, JobsStayFit
<1>2. ASSUME earlier' = 0
      PROVE  DeletesWhatItFound' /\ LegacyIsMoved' /\ MovesTheLegacy'
  BY <1>1, <1>2, DeletesStayCurrent, TheOldItemIsMoved, MovesStayCurrent DEF Inductive
<1>3. ASSUME earlier' = 0, refusals' = 0
      PROVE  NothingLeftBehind' /\ Listed'
  <2>1. earlier = 0 /\ refusals = 0 /\ refusals' = refusals
    BY <1>1, <1>3, CountsGrow
  <2>2. LegacyIsMoved /\ NothingLeftBehind /\ Listed
    BY <2>1 DEF Inductive
  <2>3. QED
    BY <2>1, <2>2, NothingStaysBehind, ItemsStayListed
<1>4. ASSUME LegacyReplaces PROVE KeptAtHome'
  BY <1>4, SignInsStayAtHome DEF Inductive
<1>5. ASSUME earlier' = 0, refusals' = 0, Renews, ~LegacyReplaces
      PROVE  OneCopy' /\ FreshUntilSet' /\ OneTarget'
  <2>1. earlier = 0 /\ refusals = 0 /\ refusals' = refusals
    BY <1>1, <1>5, CountsGrow
  <2>2. /\ LegacyIsMoved /\ MovesTheLegacy /\ NothingLeftBehind
        /\ OneCopy /\ FreshUntilSet /\ OneTarget
    BY <1>5, <2>1 DEF Inductive
  <2>3. QED
    BY <1>5, <2>1, <2>2, TokensStayFresh, OneCopyStays, TheTargetStays
<1>6. QED
  BY <1>1, <1>2, <1>3, <1>4, <1>5 DEF Inductive, TypeOK

LEMMA TheStartIsSound ==
  ASSUME KeychainAssumption, Init
  PROVE  Inductive
<1>1. NameFacts /\ Names \subseteq Items /\ Legacy \in Items
  BY NamesHold DEF NameFacts
<1>2. /\ item \in [Items -> Secrets \cup {None}] /\ lock = None
      /\ index = {n \in Names : item[n] # None}
      /\ \A n \in Names : Readable(item[n]) => n = Preferred(item[n])
      /\ \A m, n \in Items : item[m] = item[n] /\ item[m] # None => m = n
  BY DEF Init
<1>3. \A p \in Procs : at[p] = "idle" /\ job[p] = NoJob /\ mem[p] = NothingRead
  BY DEF Init
<1>4. NoJob \in Job /\ NothingRead \in Memory /\ NothingRead.index = Unread
  BY DEF NoJob, Job, NothingRead, Memory
<1>5. NothingRead.item \in [Items -> {Unread}]
  BY DEF NothingRead
<1>6. Typed
  BY <1>2, <1>3, <1>4 DEF Typed, Init, At
<1>7. Counted
  BY DEF Init, Counted, KeychainAssumption
<1>8. OneAtWork /\ JobFits
  BY <1>3 DEF OneAtWork, JobFits, NoJob, KeychainAssumption
<1>9. DeletesWhatItFound /\ MovesTheLegacy
  BY <1>3 DEF DeletesWhatItFound, MovesTheLegacy
<1>10. LegacyIsMoved
  BY <1>1, <1>3, <1>5 DEF LegacyIsMoved, NameFacts
<1>11. NothingLeftBehind
  BY <1>1, <1>3, <1>5 DEF NothingLeftBehind, PastTheMove, NoJob, KeychainAssumption
<1>12. Listed
  BY <1>2, <1>3, <1>4 DEF Listed, EverySecretIsListed, RemembersTheIndex
<1>13. KeptAtHome
  BY <1>1, <1>2, <1>3 DEF KeptAtHome
<1>14. OneCopy /\ FreshUntilSet
  BY <1>1, <1>2, <1>3 DEF OneCopy, FreshUntilSet, Saving
<1>15. OneTarget
  <2> SUFFICES ASSUME Readable(item[Legacy]) PROVE OneTarget
    BY DEF OneTarget
  <2>1. Preferred(item[Legacy]) \in Items
    BY <1>1, <1>2 DEF NameFacts, Readable
  <2>2. \A n \in Names : item[n] # item[Legacy]
    BY <1>1, <1>2 DEF NameFacts, Readable
  <2>3. QED
    BY <1>3, <1>5, <2>1, <2>2 DEF OneTarget
<1>16. QED
  BY <1>6, <1>7, <1>8, <1>9, <1>10, <1>11, <1>12, <1>13, <1>14, <1>15 DEF Inductive, TypeOK

\* What the commands rely on holds in every reachable state, for any processes, sites,
\* names and sign-ins, also with refused deletes and an earlier skaldr signing in.
THEOREM KeychainInvariant ==
  ASSUME KeychainAssumption PROVE Spec => []Inductive
<1>1. Init => Inductive
  BY TheStartIsSound
<1>2. ASSUME Inductive, EarlierSignsIn PROVE Inductive'
  <2>1. earlier' # 0 /\ Counted'
    BY <1>2 DEF EarlierSignsIn, Inductive, TypeOK, Counted, KeychainAssumption
  <2>2. PICK s \in Secrets : item' = [item EXCEPT ![Legacy] = s]
    BY <1>2 DEF EarlierSignsIn
  <2>3. UNCHANGED <<index, lock, at, job, mem>>
    BY <1>2 DEF EarlierSignsIn
  <2>4. Typed'
    BY <1>2, <2>2, <2>3 DEF Inductive, TypeOK, Typed, Remembers
  <2>5. OneAtWork' /\ JobFits'
    BY <1>2, <2>3 DEF Inductive, OneAtWork, JobFits
  <2>6. \A n \in Names : item'[n] = item[n]
    BY <1>2, <2>2, NamesHold DEF NameFacts, Inductive, TypeOK, Typed
  <2>7. LegacyReplaces => KeptAtHome'
    BY <1>2, <2>3, <2>6 DEF Inductive, KeptAtHome
  <2>8. QED
    BY <2>1, <2>4, <2>5, <2>7 DEF Inductive, TypeOK
<1>3. Inductive /\ UNCHANGED vars => Inductive'
  BY DEF vars, counters, Inductive, TypeOK, Typed, Counted, Remembers, OneAtWork, JobFits, DeletesWhatItFound,
    LegacyIsMoved, MovesTheLegacy, NothingLeftBehind, PastTheMove, Listed, EverySecretIsListed,
    RemembersTheIndex, KeptAtHome, OneCopy, FreshUntilSet, Saving, OneTarget, Target
<1>4. Inductive /\ [Next]_vars => Inductive'
  BY <1>2, <1>3, MovesKeepTheInvariant DEF Next, Moves
<1>5. QED
  BY <1>1, <1>4, PTL DEF Spec

\* Where no earlier skaldr is at work and no delete is refused, `status` and `logout`
\* see every sign-in, whatever stops halfway.
THEOREM SecretsAreListed ==
  ASSUME KeychainAssumption, MaxEarlier = 0, MaxRefusals = 0
  PROVE  Spec => []EverySecretIsListed
<1>1. Inductive => EverySecretIsListed
  BY DEF Inductive, TypeOK, Counted, Listed
<1>2. QED
  BY <1>1, KeychainInvariant, PTL

\* Jira's sign-ins are kept once whatever happens; Notion's tokens where no earlier
\* skaldr is at work and no delete is refused.
THEOREM SecretsAreKeptOnce ==
  ASSUME KeychainAssumption, LegacyReplaces \/ (Renews /\ MaxEarlier = 0 /\ MaxRefusals = 0)
  PROVE  Spec => []OneCopy
<1>1. Inductive /\ LegacyReplaces => OneCopy
  BY DEF Inductive, KeptAtHome, OneCopy
<1>2. Inductive /\ ~LegacyReplaces => OneCopy
  BY DEF Inductive, TypeOK, Counted
<1>3. Inductive => OneCopy
  BY <1>1, <1>2
<1>4. QED
  BY <1>3, KeychainInvariant, PTL

\* The two together, for Jira and for Notion: `status` and `logout` see every sign-in
\* once.
THEOREM SecretsAreListedOnce ==
  ASSUME KeychainAssumption, MaxEarlier = 0, MaxRefusals = 0, LegacyReplaces \/ Renews
  PROVE  Spec => []EverySecretIsListedOnce
BY SecretsAreListed, SecretsAreKeptOnce, PTL DEF EverySecretIsListedOnce

\* A step that leaves the items alone is one of the command's own to the callers.
LEMMA ItFinds ==
  ASSUME NameFacts, Inductive', NEW p \in Procs, item' = item,
         \A q \in Procs : q # p => job'[q] = job[q]
  PROVE  Store!Find(p)
<1>1. Found(p)' \in Store!Entries \cup {None}
  BY DEF Found, Store!Entries, Inductive, TypeOK, Typed, Job, NameFacts
<1>2. \A q \in Procs : q # p => Found(q)' = Found(q)
  BY DEF Found
<1>3. Seen' = [Seen EXCEPT ![p] = Found(p)']
  BY <1>2 DEF Seen
<1>4. QED
  BY <1>1, <1>3 DEF Store!Find

\* Which steps leave the items alone, and which others' jobs.
LEMMA QuietSteps ==
  ASSUME KeychainAssumption, Inductive, NEW p \in Procs, Moves(p)
  PROVE  /\ item' = item \/ Move(p) \/ DropMoved(p) \/ Set(p) \/ Forget(p)
         /\ \A q \in Procs : q # p => job'[q] = job[q]
<1> USE DEF Goto, Leave
<1>1. job \in [Procs -> Job]
  BY DEF Inductive, TypeOK, Typed
<1>2. CASE \E c \in {"publish", "status", "signin", "logout"} : Begin(p, c)
  BY <1>2, <1>1 DEF Begin
<1>3. CASE \/ AskForEntries(p)
           \/ \E n \in Names : AskForName(p, n)
           \/ \E s \in Secrets : AskToSave(p, s)
           \/ AskToForget(p)
  BY <1>3, <1>1 DEF AskForEntries, Ask, AskForName, AskToSave, AskToForget
<1>4. CASE LockHeldTooLong(p) \/ End(p) \/ Stop(p)
  BY <1>4, <1>1 DEF LockHeldTooLong, End, Stop
<1>5. CASE Release(p) \/ TakeLock(p)
  BY <1>5, <1>1 DEF Release, TakeLock
<1>6. CASE NothingToMove(p)
  BY <1>6, <1>1 DEF NothingToMove
<1>7. CASE ListToMove(p)
  BY <1>7, <1>1 DEF ListToMove
<1>8. CASE Move(p)
  BY <1>8, <1>1 DEF Move
<1>9. CASE DropMoved(p)
  BY <1>9, <1>1 DEF DropMoved
<1>10. CASE Look(p)
  BY <1>10, <1>1 DEF Look
<1>11. CASE NameFinds(p)
  BY <1>11, <1>1 DEF NameFinds
<1>12. CASE NameFindsNothing(p)
  BY <1>12, <1>1 DEF NameFindsNothing
<1>13. CASE List(p)
  BY <1>13, <1>1 DEF List
<1>14. CASE Set(p)
  BY <1>14, <1>1 DEF Set
<1>15. CASE KeepNewer(p) \/ StillThere(p) \/ Unlist(p)
  BY <1>15, <1>1 DEF KeepNewer, StillThere, Unlist
<1>16. CASE Forget(p)
  BY <1>16, <1>1 DEF Forget
<1>17. QED
  BY <1>2, <1>3, <1>4, <1>5, <1>6, <1>7, <1>8, <1>9, <1>10, <1>11, <1>12, <1>13, <1>14,
     <1>15, <1>16 DEF Moves, Command, Call

\* Every step of a command is one step of the abstract store, or none.
LEMMA StepsAreStoreSteps ==
  ASSUME KeychainAssumption, Inductive, Inductive', earlier = 0, NEW p \in Procs, Moves(p)
  PROVE  [Store!Next]_<<item, Seen>>
<1>1. /\ NameFacts /\ DeletesWhatItFound /\ MovesTheLegacy /\ JobFits
      /\ item \in [Items -> Secrets \cup {None}] /\ job \in [Procs -> Job] /\ job[p] \in Job
  BY NamesHold DEF Inductive, TypeOK, Typed
<1>2. CASE item' = item
  BY <1>1, <1>2, QuietSteps, ItFinds DEF Store!Next
<1>3. CASE item' # item
  <2>1. ASSUME Found(p)' = Found(p)
        PROVE  UNCHANGED Seen
    BY <2>1, QuietSteps DEF Seen, Found
  <2>2. CASE Move(p)
    <3>1. job'[p] = job[p]
      BY <1>1, <2>2 DEF Move, Goto
    <3>2. /\ item' = [item EXCEPT ![job[p].name] = job[p].raw]
          /\ job[p].name \in Names /\ job[p].raw \in Secrets
      BY <1>1, <2>2, CallFactsHold DEF Move, CallFacts, MovesTheLegacy, Readable
    <3>3. QED
      BY <2>1, <3>1, <3>2 DEF Found, Store!Next, Store!Save
  <2>3. CASE DropMoved(p)
    <3>1. item' = [item EXCEPT ![Legacy] = None]
      BY <1>3, <2>3 DEF DropMoved, Delete
    <3>2. job[p].name \in Names /\ item[job[p].name] = item[Legacy]
      BY <1>1, <2>3 DEF DropMoved, MovesTheLegacy, JobFits
    <3>3. Found(p)' = Found(p)
      <4>1. job'[p].cmd = job[p].cmd /\ job'[p].entry = job[p].entry
        BY <1>1, <2>3 DEF DropMoved, Goto, Job
      <4>2. job[p].cmd = "logout" => job[p].entry = None
        BY <1>1, <2>3 DEF DropMoved, JobFits
      <4>3. QED
        BY <4>1, <4>2 DEF Found
    <3>4. QED
      BY <2>1, <3>1, <3>2, <3>3 DEF Store!Next, Store!DropMoved
  <2>4. CASE Set(p)
    <3>1. job[p].cmd # "logout" /\ job'[p].cmd = job[p].cmd
      BY <1>1, <2>4 DEF Set, Goto, Job, JobFits
    <3>2. /\ item' = [item EXCEPT ![job[p].name] = job[p].secret]
          /\ job[p].name \in Names /\ job[p].secret \in Secrets
      BY <1>1, <2>4, CallFactsHold DEF Set, CallFacts, JobFits
    <3>3. QED
      BY <2>1, <3>1, <3>2 DEF Found, Store!Next, Store!Save
  <2>5. CASE Forget(p)
    <3>1. item' = [item EXCEPT ![job[p].entry] = None] /\ at[p] = "delete"
      BY <1>3, <2>5 DEF Forget, Delete
    <3>2. job'[p] = job[p]
      BY <1>1, <2>5 DEF Forget, Goto
    <3>3. /\ job[p].cmd = "logout" /\ job[p].entry # None /\ job[p].raw # None
          /\ job[p].entry \in Items
      BY <1>1, <3>1 DEF JobFits, Job
    <3>4. item[job[p].entry] = job[p].raw
      BY <1>1, <1>3, <3>1, <3>3 DEF DeletesWhatItFound
    <3>5. [name |-> job[p].entry, raw |-> job[p].raw] \in [name : Items, raw : Secrets]
      BY <1>1, <3>3 DEF Job
    <3>6. Found(p) = [name |-> job[p].entry, raw |-> job[p].raw] /\ Found(p) # None
      BY <3>3, <3>5 DEF Found, KeychainAssumption
    <3>7. Seen[p] # None /\ Seen[p].name = job[p].entry /\ Seen[p].raw = job[p].raw
      BY <3>6 DEF Seen
    <3>8. UNCHANGED Seen
      BY <2>1, <3>2 DEF Found
    <3>9. Store!Remove(p)
      BY <3>1, <3>4, <3>7, <3>8 DEF Store!Remove
    <3>10. QED
      BY <3>9 DEF Store!Next
  <2>6. QED
    BY <1>3, <2>2, <2>3, <2>4, <2>5, QuietSteps
<1>4. QED
  BY <1>2, <1>3

\* What the store promises its callers: where no earlier skaldr is at work, the calls of
\* an operation and whatever stops between them add up to single steps.
THEOREM KeychainImplementsSignIns ==
  ASSUME KeychainAssumption, MaxEarlier = 0
  PROVE  Spec => ImplementsSignIns
<1>1. Init => Store!Init
  BY DEF Init, Store!Init, Items, Seen, Found, NoJob, KeychainAssumption
<1>2. Inductive /\ Inductive' /\ [Next]_vars => [Store!Next]_<<item, Seen>>
  <2> SUFFICES ASSUME Inductive, Inductive', [Next]_vars
               PROVE  [Store!Next]_<<item, Seen>>
    OBVIOUS
  <2>1. earlier = 0 /\ ~EarlierSignsIn
    BY DEF Inductive, TypeOK, Counted, EarlierSignsIn
  <2>2. CASE UNCHANGED vars
    BY <2>2 DEF vars, Seen, Found
  <2>3. QED
    BY <2>1, <2>2, StepsAreStoreSteps DEF Next, Moves
<1>3. QED
  BY <1>1, <1>2, KeychainInvariant, PTL DEF Spec, Store!Spec, ImplementsSignIns

------------------------------------------------------------------------------
(* The answer that a sign-in takes                                           *)

CONSTANTS Threads, Requests

VARIABLES request, firstAnswer, accepted, answered, waiter

Listener == INSTANCE Callback

Behind == {"append", "set", "page"}     \* past the acquire

\* Only the thread that holds first_answer is past it, and it answers the sign-in.
OneIsBehind ==
  /\ at \in [Threads -> {"none", "check", "acquire", "refused"} \cup Behind]
  /\ request \in [Threads -> Requests \cup {None}]
  /\ firstAnswer \in Threads \cup {None}
  /\ \A h \in Threads :
       /\ at[h] \in Behind <=> h = firstAnswer
       /\ at[h] # "none" => request[h] \in Requests
       /\ at[h] \in {"acquire"} \cup Behind => Listener!Answers(request[h])

\* What is accepted, and whether the sign-in is told, goes with the thread's place.
ToldAfterAccepted ==
  /\ accepted = IF firstAnswer # None /\ at[firstAnswer] \in {"set", "page"}
                THEN <<request[firstAnswer]>> ELSE <<>>
  /\ answered \in BOOLEAN /\ (answered => firstAnswer # None /\ at[firstAnswer] = "page")
  /\ waiter \in {"waiting", "took", "closed"}

ListenerInvariant == OneIsBehind /\ ToldAfterAccepted

LEMMA HandlersKeepTheInvariant ==
  ASSUME Listener!CallbackAssumption, ListenerInvariant, NEW h \in Threads
  PROVE  /\ (\E r \in Requests : Listener!Arrive(h, r)) => ListenerInvariant'
         /\ Listener!Handle(h) => ListenerInvariant'
<1> USE DEF Listener!CallbackAssumption, ListenerInvariant, OneIsBehind, ToldAfterAccepted,
     Behind, Listener!Goto
<1>1. ASSUME NEW r \in Requests, Listener!Arrive(h, r) PROVE ListenerInvariant'
  BY <1>1 DEF Listener!Arrive
<1>2. CASE Listener!TurnAway(h)
  BY <1>2 DEF Listener!TurnAway
<1>3. CASE Listener!Check(h)
  BY <1>3 DEF Listener!Check
<1>4. CASE Listener!Acquire(h)
  BY <1>4 DEF Listener!Acquire
<1>5. CASE Listener!AlreadyAnswered(h)
  BY <1>5 DEF Listener!AlreadyAnswered
<1>6. CASE Listener!Accept(h)
  BY <1>6 DEF Listener!Accept
<1>7. CASE Listener!Tell(h)
  BY <1>7 DEF Listener!Tell
<1>8. QED
  BY <1>1, <1>2, <1>3, <1>4, <1>5, <1>6, <1>7 DEF Listener!Handle

\* The sign-in takes its own answer and one only, for any number of requests.
THEOREM OneAnswerIsTaken ==
  ASSUME Listener!CallbackAssumption PROVE Listener!Spec => []Listener!TakesItsOwnAnswer
<1>1. Listener!Init => ListenerInvariant
  BY DEF Listener!CallbackAssumption, Listener!Init, ListenerInvariant, OneIsBehind,
     ToldAfterAccepted, Behind
<1>2. ListenerInvariant /\ [Listener!Next]_(Listener!vars) => ListenerInvariant'
  <2>1. ASSUME ListenerInvariant, Listener!Take \/ Listener!TimeOut \/ UNCHANGED Listener!vars
        PROVE  ListenerInvariant'
    BY <2>1 DEF Listener!Take, Listener!TimeOut, Listener!vars, ListenerInvariant, OneIsBehind,
       ToldAfterAccepted, Behind
  <2>2. QED
    BY <2>1, HandlersKeepTheInvariant DEF Listener!Next
<1>3. ListenerInvariant => Listener!TakesItsOwnAnswer
  BY DEF ListenerInvariant, OneIsBehind, ToldAfterAccepted, Listener!TakesItsOwnAnswer,
     Listener!Answers, Behind
<1>4. QED
  BY <1>1, <1>2, <1>3, PTL DEF Listener!Spec

==============================================================================
