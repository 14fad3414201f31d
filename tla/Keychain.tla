------------------------------ MODULE Keychain -------------------------------
(***************************************************************************)
(* The sign-ins of one service in the system keychain: an item for each    *)
(* site or workspace, an item an earlier skaldr kept for the whole         *)
(* service, and the index that lists the names (a keychain cannot be       *)
(* searched).  Commands of several processes change them under one file    *)
(* lock, one keychain call at a time; a process may stop between any two   *)
(* calls.  `publish` and `status` remember what they read.                 *)
(***************************************************************************)
EXTENDS Naturals

CONSTANTS
  Procs,            \* skaldr processes
  Places,           \* sites or workspaces
  Candidate,        \* place -> the names an entry of it may be moved to
  Legacy,           \* the name an earlier skaldr used
  Secrets,          \* sign-ins
  Current,          \* those a sign-in of this skaldr can give
  Home,             \* sign-in -> its place; None: an entry nobody can read
  LegacyReplaces,   \* Jira: a moved entry replaces the one its site holds
  Renews,           \* Notion: `publish` renews; a save reads the entries first
  None, Unread,
  MaxCommands,      \* bound: commands started
  MaxStops,         \* bound: processes that die, keychain calls that fail
  MaxRefusals,      \* bound: deletes the keychain refuses
  MaxEarlier        \* bound: sign-ins with an earlier skaldr, meanwhile

Names == {Candidate[w][k] : w \in Places, k \in 1..2}
Items == Names \cup {Legacy}

KeychainAssumption ==
  /\ Candidate \in [Places -> Names \X Names]
  /\ \A w \in Places : Candidate[w][1] # Candidate[w][2]
  /\ Home \in [Secrets -> Places \cup {None}]
  /\ Current \subseteq Secrets /\ \A s \in Current : Home[s] # None
  /\ Legacy \notin Names
  /\ None \notin Secrets /\ None \notin Places /\ None \notin Items
  /\ None \notin [name : Items, raw : Secrets]
  /\ None \notin Procs \cup
               {"publish", "status", "signin", "logout", "entries", "named", "save", "forget"}
  /\ Unread \notin Secrets \cup {None} /\ \A ns \in SUBSET Names : Unread # ns
  /\ LegacyReplaces \in BOOLEAN /\ Renews \in BOOLEAN
  /\ MaxCommands \in Nat /\ MaxStops \in Nat
  /\ MaxRefusals \in Nat /\ MaxEarlier \in Nat

VARIABLES
  item,       \* the keychain's items
  index,      \* the names its index lists
  lock,       \* who holds auth.lock
  at, job,    \* each command's place and what it is doing
  mem,        \* what each command remembers of its reads
  commands, stops, refusals, earlier

vars == <<item, index, lock, at, job, mem, commands, stops, refusals, earlier>>
counters == <<commands, stops, refusals, earlier>>

NothingRead == [item |-> [n \in Items |-> Unread], index |-> Unread]

NoJob == [cmd |-> None, op |-> None, name |-> None, secret |-> None,
          entry |-> None, raw |-> None]

Readable(s) == s # None /\ Home[s] # None

Preferred(s) == Candidate[Home[s]][1]

------------------------------------------------------------------------------
(* Reads, which may be remembered                                            *)

Remembers(p) == job[p].cmd \in {"publish", "status"}

Noting(p, m) == mem' = [mem EXCEPT ![p] = IF Remembers(p) THEN m ELSE @]

\* _get
Got(p, n) == IF mem[p].item[n] = Unread THEN item[n] ELSE mem[p].item[n]

\* _read_index
ListedTo(p) == IF mem[p].index = Unread THEN index ELSE mem[p].index

Known(m, n, s) == [m EXCEPT !.item[n] = s]

\* _list: the index is read again before anything is added to it.
ListName(p, n) == index' = IF n \in ListedTo(p) THEN index ELSE index \cup {n}

ListKnown(p, m, n) ==
  [m EXCEPT !.index = IF n \in ListedTo(p) THEN ListedTo(p) ELSE index \cup {n}]

\* _migration_username
MovesTo(p, s) ==
  IF LegacyReplaces \/ Got(p, Preferred(s)) \in {None, s} THEN Preferred(s)
  ELSE Candidate[Home[s]][2]

------------------------------------------------------------------------------
(* A command, and what it asks of the keychain                               *)

Goto(p, place, j) ==
  /\ at' = [at EXCEPT ![p] = place]
  /\ job' = [job EXCEPT ![p] = j]

Leave(p) ==
  /\ Goto(p, "idle", NoJob)
  /\ mem' = [mem EXCEPT ![p] = NothingRead]

Begin(p, c) ==
  /\ at[p] = "idle"
  /\ commands < MaxCommands
  /\ commands' = commands + 1
  /\ Goto(p, "thinking", [NoJob EXCEPT !.cmd = c])
  /\ UNCHANGED <<item, index, lock, mem, stops, refusals, earlier>>

Ask(p, j) ==
  /\ at[p] = "thinking"
  /\ Goto(p, "asked", j)
  /\ UNCHANGED <<item, index, lock, mem, counters>>

\* stored_*_sign_ins: status, a target that names no sign-in, a logout.
AskForEntries(p) ==
  /\ job[p].cmd \in {"publish", "status", "logout"} /\ job[p].op # "forget"
  /\ Ask(p, [job[p] EXCEPT !.op = "entries", !.entry = None, !.raw = None])

\* _entry_named: a target that names its sign-in; a logout whose entries do
\* not hold the one it names.
AskForName(p, n) ==
  /\ \/ job[p].cmd = "publish"
     \/ job[p].cmd = "logout" /\ job[p].op = "entries" /\ job[p].entry = None
  /\ Ask(p, [job[p] EXCEPT !.op = "named", !.name = n,
                           !.entry = None, !.raw = None])

\* save_jira, save_slack, save_notion_returning_the_replaced: a sign-in once,
\* a renewal of the sign-in the publish found.
AskToSave(p, s) ==
  /\ s \in Current
  /\ \/ job[p].cmd = "signin" /\ job[p].op = None
     \/ /\ Renews /\ job[p].cmd = "publish" /\ Readable(job[p].raw)
        /\ Home[s] = Home[job[p].raw]
  /\ Renews =>                                  \* Notion issues new tokens
       /\ \A n \in Items : item[n] # s
       /\ \A q \in Procs : job[q].secret # s /\ job[q].raw # s
  /\ Ask(p, [job[p] EXCEPT !.op = "save", !.secret = s])

\* forget the entry that was found
AskToForget(p) ==
  /\ job[p].cmd = "logout" /\ job[p].op # "forget" /\ job[p].entry # None
  /\ Ask(p, [job[p] EXCEPT !.op = "forget"])

End(p) ==
  /\ at[p] = "thinking"
  /\ Leave(p)
  /\ UNCHANGED <<item, index, lock, counters>>

\* _under_the_lock; a save forgets what the command remembers of the service.
TakeLock(p) ==
  /\ at[p] = "asked"
  /\ lock = None
  /\ lock' = p
  /\ Goto(p, CASE job[p].op = "named" -> "name" [] job[p].op = "forget" -> "check"
               [] OTHER -> "migrate", job[p])
  /\ mem' = IF job[p].op = "save" THEN [mem EXCEPT ![p] = NothingRead] ELSE mem
  /\ UNCHANGED <<item, index, counters>>

LockHeldTooLong(p) ==
  /\ at[p] = "asked"
  /\ lock \notin {None, p}
  /\ Leave(p)
  /\ UNCHANGED <<item, index, lock, counters>>

Release(p) ==
  /\ at[p] = "answered"
  /\ lock' = IF lock = p THEN None ELSE lock
  /\ Goto(p, "thinking", job[p])
  /\ UNCHANGED <<item, index, mem, counters>>

------------------------------------------------------------------------------
(* The keychain calls of an operation                                        *)

AfterMigration(p) == IF job[p].op = "entries" \/ Renews THEN "look" ELSE "list"

\* _migrate_legacy_entry
NothingToMove(p) ==
  /\ at[p] = "migrate"
  /\ ~Readable(Got(p, Legacy))
  /\ Noting(p, Known(mem[p], Legacy, Got(p, Legacy)))
  /\ Goto(p, AfterMigration(p), job[p])
  /\ UNCHANGED <<item, index, lock, counters>>

\* Mutant: the secret is written before the index lists it.
MoveUnlisted(p) ==
  LET s == Got(p, Legacy)
      n == MovesTo(p, s)
  IN  /\ at[p] = "migrate"
      /\ Readable(s)
      /\ Noting(p, Known(Known(mem[p], Legacy, s), n, Got(p, n)))
      /\ Goto(p, "move", [job[p] EXCEPT !.name = n, !.raw = s])
      /\ UNCHANGED <<item, index, lock, counters>>

ListToMove(p) ==
  LET s == Got(p, Legacy)
      n == MovesTo(p, s)
  IN  /\ at[p] = "migrate"
      /\ Readable(s)
      /\ ListName(p, n)
      /\ Noting(p, ListKnown(p, Known(Known(mem[p], Legacy, s), n, Got(p, n)), n))
      /\ Goto(p, "move", [job[p] EXCEPT !.name = n, !.raw = s])
      /\ UNCHANGED <<item, lock, counters>>

Move(p) ==
  LET n == job[p].name
  IN  /\ at[p] = "move"
      /\ item' = [item EXCEPT ![n] = job[p].raw]
      /\ Noting(p, Known(mem[p], n, job[p].raw))
      /\ Goto(p, "drop", job[p])
      /\ UNCHANGED <<index, lock, counters>>

\* _delete: what the keychain refuses counts as deleted.
Delete(p, n) ==
  \/ /\ item' = [item EXCEPT ![n] = None]
     /\ UNCHANGED refusals
  \/ /\ refusals < MaxRefusals
     /\ refusals' = refusals + 1
     /\ UNCHANGED item

DropMoved(p) ==
  /\ at[p] = "drop"
  /\ Delete(p, Legacy)
  /\ Noting(p, Known(mem[p], Legacy, None))
  /\ Goto(p, AfterMigration(p), [job[p] EXCEPT !.raw = None])
  /\ UNCHANGED <<index, lock, commands, stops, earlier>>

\* _entries: the command picks one of what is stored, or none.
Look(p) ==
  LET there == {n \in ListedTo(p) \cup {Legacy} : Got(p, n) # None}
      m == [item |-> [n \in Items |-> IF n \in ListedTo(p) \cup {Legacy}
                                        THEN Got(p, n) ELSE mem[p].item[n]],
            index |-> ListedTo(p)]
  IN  /\ at[p] = "look"
      /\ Noting(p, m)
      /\ IF job[p].op = "save" THEN Goto(p, "list", job[p])
         ELSE \E n \in there \cup {None} :
                Goto(p, "answered", [job[p] EXCEPT
                  !.entry = n, !.raw = IF n = None THEN None ELSE Got(p, n)])
      /\ UNCHANGED <<item, index, lock, counters>>

NameFinds(p) ==
  LET n == job[p].name
  IN  /\ at[p] = "name"
      /\ Got(p, n) # None
      /\ ListName(p, n)
      /\ Noting(p, ListKnown(p, Known(mem[p], n, Got(p, n)), n))
      /\ Goto(p, "answered", [job[p] EXCEPT !.entry = n, !.raw = Got(p, n)])
      /\ UNCHANGED <<item, lock, counters>>

NameFindsNothing(p) ==
  LET n == job[p].name
  IN  /\ at[p] = "name"
      /\ Got(p, n) = None
      /\ Noting(p, Known(mem[p], n, None))
      /\ Goto(p, "answered", job[p])
      /\ UNCHANGED <<item, index, lock, counters>>

\* _write: listed first, then set.
List(p) ==
  LET n == Preferred(job[p].secret)
  IN  /\ at[p] = "list"
      /\ ListName(p, n)
      /\ Noting(p, ListKnown(p, mem[p], n))
      /\ Goto(p, "set", [job[p] EXCEPT !.name = n])
      /\ UNCHANGED <<item, lock, counters>>

Set(p) ==
  LET n == job[p].name
      s == job[p].secret
  IN  /\ at[p] = "set"
      /\ item' = [item EXCEPT ![n] = s]
      /\ Noting(p, Known(mem[p], n, s))
      /\ Goto(p, "answered", [job[p] EXCEPT !.entry = n, !.raw = s])
      /\ UNCHANGED <<index, lock, counters>>

\* forget reads past the memory and leaves what was stored meanwhile.
KeepNewer(p) ==
  /\ at[p] = "check"
  /\ item[job[p].entry] \notin {None, job[p].raw}
  /\ Goto(p, "answered", job[p])
  /\ UNCHANGED <<item, index, lock, mem, counters>>

\* Mutant: removes whatever the entry holds by now.
StillThereOrNewer(p) ==
  /\ at[p] = "check"
  /\ Goto(p, "delete", job[p])
  /\ UNCHANGED <<item, index, lock, mem, counters>>

StillThere(p) ==
  /\ at[p] = "check"
  /\ item[job[p].entry] \in {None, job[p].raw}
  /\ Goto(p, "delete", job[p])
  /\ UNCHANGED <<item, index, lock, mem, counters>>

Forget(p) ==
  /\ at[p] = "delete"
  /\ Delete(p, job[p].entry)
  /\ Goto(p, "unlist", job[p])
  /\ UNCHANGED <<index, lock, mem, commands, stops, earlier>>

Unlist(p) ==
  /\ at[p] = "unlist"
  /\ index' = index \ {job[p].entry}
  /\ Goto(p, "answered", job[p])
  /\ UNCHANGED <<item, lock, mem, counters>>

------------------------------------------------------------------------------
(* What goes wrong                                                           *)

\* The process dies, gives up on a keychain that does not answer, or a call
\* is refused: the lock goes with it.
Stop(p) ==
  /\ at[p] # "idle"
  /\ stops < MaxStops
  /\ stops' = stops + 1
  /\ lock' = IF lock = p THEN None ELSE lock
  /\ Leave(p)
  /\ UNCHANGED <<item, index, commands, refusals, earlier>>

\* An earlier skaldr that still runs takes no lock and knows one name.
EarlierSignsIn ==
  /\ earlier < MaxEarlier
  /\ earlier' = earlier + 1
  /\ \E s \in Secrets : Readable(s) /\ item' = [item EXCEPT ![Legacy] = s]
  /\ UNCHANGED <<index, lock, at, job, mem, commands, stops, refusals>>

------------------------------------------------------------------------------
Init ==
  /\ item \in [Items -> Secrets \cup {None}]
  /\ \A n \in Names : Readable(item[n]) => n = Preferred(item[n])
  /\ \A m, n \in Items : item[m] = item[n] /\ item[m] # None => m = n
  /\ index = {n \in Names : item[n] # None}
  /\ lock = None
  /\ at = [p \in Procs |-> "idle"]
  /\ job = [p \in Procs |-> NoJob]
  /\ mem = [p \in Procs |-> NothingRead]
  /\ commands = 0 /\ stops = 0 /\ refusals = 0 /\ earlier = 0

Call(p) ==
  \/ NothingToMove(p) \/ ListToMove(p) \/ Move(p) \/ DropMoved(p)
  \/ Look(p) \/ NameFinds(p) \/ NameFindsNothing(p) \/ List(p) \/ Set(p)
  \/ KeepNewer(p) \/ StillThere(p) \/ Forget(p) \/ Unlist(p)

Command(p) ==
  \/ \E c \in {"publish", "status", "signin", "logout"} : Begin(p, c)
  \/ AskForEntries(p) \/ AskToForget(p)
  \/ \E n \in Names : AskForName(p, n)
  \/ \E s \in Secrets : AskToSave(p, s)
  \/ TakeLock(p) \/ LockHeldTooLong(p) \/ Release(p) \/ End(p)

Next ==
  \/ \E p \in Procs : Command(p) \/ Call(p) \/ Stop(p)
  \/ EarlierSignsIn

Spec == Init /\ [][Next]_vars

------------------------------------------------------------------------------
(* Properties                                                                *)

Job == [cmd : {"publish", "status", "signin", "logout", None},
        op : {"entries", "named", "save", "forget", None},
        name : Names \cup {None}, secret : Secrets \cup {None},
        entry : Items \cup {None}, raw : Secrets \cup {None}]

Memory == [item : [Items -> Secrets \cup {None, Unread}],
           index : {Unread} \cup SUBSET Names]

At == {"idle", "thinking", "asked", "migrate", "move", "drop", "look", "name",
       "list", "set", "check", "delete", "unlist", "answered"}

\* The state is well-typed, and commands that do not remember (sign-in,
\* logout) work on the keychain itself.
Typed ==
  /\ item \in [Items -> Secrets \cup {None}]
  /\ index \subseteq Names
  /\ lock \in Procs \cup {None}
  /\ at \in [Procs -> At]
  /\ job \in [Procs -> Job]
  /\ mem \in [Procs -> Memory]
  /\ \A p \in Procs : ~Remembers(p) => mem[p] = NothingRead

Counted ==
  /\ commands \in 0..MaxCommands /\ stops \in 0..MaxStops
  /\ refusals \in 0..MaxRefusals /\ earlier \in 0..MaxEarlier

TypeOK == Typed /\ Counted

\* The index lists every item that holds a secret, whatever stopped halfway:
\* `status` and `logout` find them all (store.py _write lists, then sets, and
\* forget deletes, then unlists, while other commands read a remembered index).
EverySecretIsListed == \A n \in Names : item[n] # None => n \in index

\* A sign-in is never stored under two of its service's names, also when a move
\* out of the old item stops before the old item is deleted and is done again.
OneCopy ==
  \A m, n \in Names : item[m] = item[n] /\ item[m] # None => m = n

EverySecretIsListedOnce == EverySecretIsListed /\ OneCopy

\* The entry a logout has found, and what it held: with `item`, what SignIns
\* sees of the store.
Found(p) ==
  IF job[p].cmd = "logout" /\ job[p].entry # None /\ job[p].raw # None
  THEN [name |-> job[p].entry, raw |-> job[p].raw] ELSE None

Seen == [p \in Procs |-> Found(p)]

Store == INSTANCE SignIns WITH kept <- item, seen <- Seen

\* The calls of an operation and what stops between them add up to single steps.
ImplementsSignIns == Store!Spec

==============================================================================
