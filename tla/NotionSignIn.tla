---------------------------- MODULE NotionSignIn -----------------------------
(***************************************************************************)
(* The sign-in to one Notion workspace, in the keychain and at Notion:     *)
(* `skaldr auth notion`, `skaldr auth logout notion` and the commands that *)
(* publish with the sign-in and renew it when Notion refuses it.           *)
(*                                                                         *)
(* The keychain operations are single steps here, as module Keychain shows *)
(* they may be.  A token stands for the access token and the refresh token *)
(* Notion issues together; renewing retires the pair that was renewed.     *)
(***************************************************************************)
EXTENDS Naturals, TLAPS

CONSTANTS
  Procs,          \* skaldr processes
  Tokens,         \* the tokens Notion can issue
  None,
  MaxCommands,    \* bound: commands started
  MaxExpiries,    \* bound: access tokens Notion refuses although nobody renewed
  MaxFaults       \* bound: failed requests, failed saves and deaths

NotionAssumption ==
  /\ None \notin Tokens /\ None \notin Procs
  /\ MaxCommands \in Nat /\ MaxExpiries \in Nat /\ MaxFaults \in Nat

VARIABLES
  life,         \* each token at Notion
  stored,       \* the token of the workspace's keychain entry
  at, cred,     \* each command's place and the token it works with
  other,        \* the token it replaced, or found stored
  mayTake,      \* _may_take_the_stored_token
  renewed,      \* _renewed_with_notion
  late,         \* a save its command gave up on that the keychain may still do
  told,         \* tokens a warning says to look after
  unheard,      \* tokens whose command died, or whose answer got lost
  replaced,     \* tokens a renewal's save took the place of
  commands, expiries, faults

session == <<cred, other, mayTake, renewed>>
history == <<told, unheard, replaced>>
counters == <<commands, expiries, faults>>
vars == <<life, stored, at, session, late, history, counters>>

Usable(t) == life[t] \in {"live", "expired"}

Goto(p, place) == at' = [at EXCEPT ![p] = place]

Fault ==
  /\ faults < MaxFaults
  /\ faults' = faults + 1
  /\ UNCHANGED <<commands, expiries>>

------------------------------------------------------------------------------
(* Commands                                                                  *)

Begin(p) ==
  /\ at[p] = "idle" /\ late[p] = None
  /\ commands < MaxCommands
  /\ commands' = commands + 1
  /\ \/ Goto(p, "consent") /\ cred' = cred
     \/ /\ stored # None                          \* load_notion, find_notion
        /\ \E place \in {"use", "revoke"} : Goto(p, place)
        /\ cred' = [cred EXCEPT ![p] = stored]
  /\ UNCHANGED <<life, stored, other, mayTake, renewed, late, history,
                 expiries, faults>>

Leave(p) ==
  /\ Goto(p, "idle")
  /\ cred' = [cred EXCEPT ![p] = None]
  /\ other' = [other EXCEPT ![p] = None]
  /\ mayTake' = [mayTake EXCEPT ![p] = TRUE]
  /\ renewed' = [renewed EXCEPT ![p] = FALSE]

\* The process is killed; between a renewal and its save, the stored token is
\* already retired.
Die(p) ==
  /\ at[p] # "idle"
  /\ Fault
  /\ Leave(p)
  /\ unheard' = unheard \cup ({cred[p], other[p]} \ {None})
                         \cup (IF at[p] = "saveRenewed" THEN {stored} \ {None} ELSE {})
  /\ UNCHANGED <<life, stored, late, told, replaced>>

\* Notion refuses an access token whose refresh token still works.
Expire(t) ==
  /\ life[t] = "live"
  /\ expiries < MaxExpiries
  /\ expiries' = expiries + 1
  /\ life' = [life EXCEPT ![t] = "expired"]
  /\ UNCHANGED <<stored, at, session, late, history, commands, faults>>

------------------------------------------------------------------------------
(* skaldr auth notion                                                        *)

\* sign_in_to_notion: consent, callback and the token answer; a token answer
\* that does not arrive leaves a token nobody has.
Consent(p) ==
  /\ at[p] = "consent"
  /\ \E t \in Tokens :
       /\ life[t] = "unissued"
       /\ life' = [life EXCEPT ![t] = "live"]
       /\ \/ /\ Goto(p, "save")
             /\ cred' = [cred EXCEPT ![p] = t]
             /\ UNCHANGED <<other, mayTake, renewed, unheard, counters>>
          \/ /\ Fault
             /\ Leave(p)
             /\ unheard' = unheard \cup {t}
  /\ UNCHANGED <<stored, late, told, replaced>>

NoConsent(p) ==
  /\ at[p] = "consent"
  /\ Leave(p)
  /\ UNCHANGED <<life, stored, late, history, counters>>

\* save_notion_returning_the_replaced
Save(p) ==
  /\ at[p] = "save"
  /\ stored' = cred[p]
  /\ other' = [other EXCEPT ![p] = stored]
  /\ Goto(p, "revokeOld")
  /\ UNCHANGED <<life, cred, mayTake, renewed, late, history, counters>>

SaveFails(p) ==
  /\ at[p] = "save"
  /\ Fault
  /\ Goto(p, "revokeNew")
  /\ UNCHANGED <<life, stored, session, late, history>>

\* Mutant: revokes the new token also when its save may still complete.
RevokeAlthoughMaySave(p) ==
  /\ at[p] = "save"
  /\ Fault
  /\ life' = [life EXCEPT ![cred[p]] = "dead"]
  /\ late' = [late EXCEPT ![p] = cred[p]]
  /\ told' = told \cup {cred[p]}
  /\ Leave(p)
  /\ UNCHANGED <<stored, unheard, replaced>>

\* _run_or_revoke: after a timeout or an interrupt nothing is revoked.
SaveTimesOut(p) ==
  /\ at[p] = "save"
  /\ Fault
  /\ late' = [late EXCEPT ![p] = cred[p]]
  /\ told' = told \cup {cred[p]}
  /\ Leave(p)
  /\ UNCHANGED <<life, stored, unheard, replaced>>

\* The keychain answers after the command gave up.
SaveLate(p) ==
  /\ late[p] # None
  /\ stored' = late[p]
  /\ told' = told \cup ({stored} \ {None})
  /\ late' = [late EXCEPT ![p] = None]
  /\ UNCHANGED <<life, at, session, unheard, replaced, counters>>

SaveNever(p) ==
  /\ late[p] # None
  /\ late' = [late EXCEPT ![p] = None]
  /\ UNCHANGED <<life, stored, at, session, history, counters>>

\* revoke_notion_token: refused, or the answer is lost, the token is warned of.
Revoke(p, t) ==
  \/ life' = [life EXCEPT ![t] = "dead"] /\ UNCHANGED <<told, counters>>
  \/ /\ IF life[t] = "live" THEN Fault ELSE UNCHANGED counters
     /\ told' = told \cup {t}
     /\ life' \in {life, [life EXCEPT ![t] = "dead"]}

\* Mutant: leaves the token it replaced alone.
KeepOld(p) ==
  /\ at[p] = "revokeOld"
  /\ Leave(p)
  /\ UNCHANGED <<life, stored, late, history, counters>>

\* _revoke_replaced_token
RevokeOld(p) ==
  /\ at[p] = "revokeOld"
  /\ IF other[p] \in {None, cred[p]} THEN UNCHANGED <<life, told, counters>>
                                     ELSE Revoke(p, other[p])
  /\ Leave(p)
  /\ UNCHANGED <<stored, late, unheard, replaced>>

RevokeNew(p) ==
  /\ at[p] = "revokeNew"
  /\ Revoke(p, cred[p])
  /\ Leave(p)
  /\ UNCHANGED <<stored, late, unheard, replaced>>

------------------------------------------------------------------------------
(* skaldr auth logout notion                                                 *)

RevokeFound(p) ==
  /\ at[p] = "revoke"
  /\ Revoke(p, cred[p])
  /\ Goto(p, "forget")
  /\ UNCHANGED <<stored, session, late, unheard, replaced>>

\* forget: a newer sign-in is kept.
Forget(p) ==
  /\ at[p] = "forget"
  /\ stored' = IF stored = cred[p] THEN None ELSE stored
  /\ Leave(p)
  /\ UNCHANGED <<life, late, history, counters>>

\* _forget_after_the_revoke: says that the entry may remain.
ForgetFails(p) ==
  /\ at[p] = "forget"
  /\ Fault
  /\ told' = told \cup {cred[p]}
  /\ Leave(p)
  /\ UNCHANGED <<life, stored, late, unheard, replaced>>

------------------------------------------------------------------------------
(* NotionSession, in a command that publishes                                *)

Accepted(p) ==
  /\ at[p] = "use"
  /\ life[cred[p]] = "live"
  /\ Leave(p)
  /\ UNCHANGED <<life, stored, late, history, counters>>

Refused(p) ==
  /\ at[p] = "use"
  /\ life[cred[p]] # "live"
  /\ Goto(p, "look")
  /\ UNCHANGED <<life, stored, session, late, history, counters>>

\* renew: another command has stored a newer token.
TakeStored(p) ==
  /\ at[p] = "look"
  /\ mayTake[p] /\ stored \notin {None, cred[p]}
  /\ cred' = [cred EXCEPT ![p] = stored]
  /\ mayTake' = [mayTake EXCEPT ![p] = FALSE]
  /\ Goto(p, "use")
  /\ UNCHANGED <<life, stored, other, renewed, late, history, counters>>

RefusedAgain(p) ==
  /\ at[p] = "look"
  /\ ~(mayTake[p] /\ stored \notin {None, cred[p]})
  /\ renewed[p]
  /\ Leave(p)
  /\ UNCHANGED <<life, stored, late, history, counters>>

Ask(p) ==
  /\ at[p] = "look"
  /\ ~(mayTake[p] /\ stored \notin {None, cred[p]})
  /\ ~renewed[p]
  /\ Goto(p, "renew")
  /\ UNCHANGED <<life, stored, session, late, history, counters>>

\* Bound: when the tokens are used up, Notion does not answer.
NoAnswer == IF \E t \in Tokens : life[t] = "unissued" THEN Fault
                                                      ELSE UNCHANGED counters

\* renewed_notion_credentials with token t: Notion issues a token and retires
\* the one it was asked to renew.
RenewedFrom(p, t, new) ==
  /\ Usable(t)
  /\ life[new] = "unissued"
  /\ life' = [life EXCEPT ![new] = "live", ![t] = "dead"]

Renew(p) ==
  /\ at[p] \in {"renew", "renewStored"}
  /\ \E new \in Tokens :
       /\ RenewedFrom(p, IF at[p] = "renew" THEN cred[p] ELSE other[p], new)
       /\ cred' = [cred EXCEPT ![p] = new]
  /\ renewed' = [renewed EXCEPT ![p] = TRUE]
  /\ Goto(p, "saveRenewed")
  /\ UNCHANGED <<stored, other, mayTake, late, history, counters>>

\* _renewed: the refresh token is refused, or no answer arrives (after Notion
\* may have done it); the keychain may hold a newer one by now.
RenewFails(p) ==
  /\ at[p] = "renew"
  /\ \/ ~Usable(cred[p]) /\ UNCHANGED <<life, unheard, counters>>
     \/ /\ Usable(cred[p]) /\ NoAnswer
        /\ \/ UNCHANGED <<life, unheard>>
           \/ \E new \in Tokens : RenewedFrom(p, cred[p], new)
                                  /\ unheard' = unheard \cup {new, cred[p]}
  /\ other' = [other EXCEPT ![p] = stored]
  /\ Goto(p, IF stored \in {None, cred[p]} THEN "renewRefused" ELSE "renewStored")
  /\ UNCHANGED <<stored, cred, mayTake, renewed, late, told, replaced>>

RenewStoredFails(p) ==
  /\ at[p] = "renewStored"
  /\ \/ ~Usable(other[p]) /\ UNCHANGED <<life, unheard, counters>>
     \/ /\ Usable(other[p]) /\ NoAnswer
        /\ \/ UNCHANGED <<life, unheard>>
           \/ \E new \in Tokens : RenewedFrom(p, other[p], new)
                                  /\ unheard' = unheard \cup {new, other[p]}
  /\ Goto(p, "renewRefused")
  /\ UNCHANGED <<stored, session, late, told, replaced>>

\* Mutant: sends the request again with the token it has.
TryAgain(p) ==
  /\ at[p] = "renewRefused"
  /\ Goto(p, "use")
  /\ UNCHANGED <<life, stored, session, late, history, counters>>

RenewRefused(p) ==
  /\ at[p] = "renewRefused"
  /\ Leave(p)
  /\ UNCHANGED <<life, stored, late, history, counters>>

\* The save of a renewal replaces what is stored and leaves what it returns.
SaveRenewed(p) ==
  /\ at[p] = "saveRenewed"
  /\ stored' = cred[p]
  /\ replaced' = replaced \cup ({stored} \ {None})
  /\ Goto(p, "use")
  /\ UNCHANGED <<life, session, late, told, unheard, counters>>

SaveRenewedFails(p) ==
  /\ at[p] = "saveRenewed"
  /\ Fault
  /\ told' = told \cup ({cred[p], stored} \ {None})
  /\ late' \in {late, [late EXCEPT ![p] = cred[p]]}
  /\ Leave(p)
  /\ UNCHANGED <<life, stored, unheard, replaced>>

------------------------------------------------------------------------------
Init ==
  /\ \/ stored = None /\ life = [t \in Tokens |-> "unissued"]
     \/ \E t \in Tokens :
          /\ stored = t
          /\ life = [[u \in Tokens |-> "unissued"] EXCEPT ![t] = "live"]
  /\ at = [p \in Procs |-> "idle"]
  /\ cred = [p \in Procs |-> None] /\ other = [p \in Procs |-> None]
  /\ mayTake = [p \in Procs |-> TRUE] /\ renewed = [p \in Procs |-> FALSE]
  /\ late = [p \in Procs |-> None]
  /\ told = {} /\ unheard = {} /\ replaced = {}
  /\ commands = 0 /\ expiries = 0 /\ faults = 0

SignIn(p) ==
  \/ Consent(p) \/ NoConsent(p) \/ Save(p) \/ SaveFails(p) \/ SaveTimesOut(p)
  \/ RevokeOld(p) \/ RevokeNew(p)

Logout(p) == RevokeFound(p) \/ Forget(p) \/ ForgetFails(p)

Session(p) ==
  \/ Accepted(p) \/ Refused(p) \/ TakeStored(p) \/ RefusedAgain(p) \/ Ask(p)
  \/ Renew(p) \/ RenewFails(p) \/ RenewStoredFails(p) \/ RenewRefused(p)
  \/ SaveRenewed(p) \/ SaveRenewedFails(p)

Advance(p) == SignIn(p) \/ Logout(p) \/ Session(p)

Next ==
  \/ \E p \in Procs :
       Begin(p) \/ Advance(p) \/ SaveLate(p) \/ SaveNever(p) \/ Die(p)
  \/ \E t \in Tokens : Expire(t)

Spec == Init /\ [][Next]_vars

------------------------------------------------------------------------------
(* Properties                                                                *)

At == {"idle", "consent", "save", "revokeOld", "revokeNew", "revoke", "forget",
       "use", "look", "renew", "renewStored", "renewRefused", "saveRenewed"}

\* The state is well-typed, and a command that works with a token holds one.
TypeOK ==
  /\ life \in [Tokens -> {"unissued", "live", "expired", "dead"}]
  /\ stored \in Tokens \cup {None}
  /\ at \in [Procs -> At]
  /\ cred \in [Procs -> Tokens \cup {None}]
  /\ other \in [Procs -> Tokens \cup {None}]
  /\ mayTake \in [Procs -> BOOLEAN] /\ renewed \in [Procs -> BOOLEAN]
  /\ late \in [Procs -> Tokens \cup {None}]
  /\ told \subseteq Tokens /\ unheard \subseteq Tokens
  /\ replaced \subseteq Tokens
  /\ \A p \in Procs : cred[p] = None <=> at[p] \in {"idle", "consent"}
  /\ \A p \in Procs : at[p] \in {"renewStored"} => other[p] # None

Held == {cred[p] : p \in Procs} \cup {other[p] : p \in Procs}
        \cup {late[p] : p \in Procs}

\* A token that works is the stored one, in the hands of a command, or one a
\* warning named: sign-in, replacement and logout never leave one behind
\* (auth/notion.py _run_or_revoke, _revoke_replaced_token; logout revokes before
\* it removes).  Left out: what a killed command held, and what the save of a
\* renewal took the place of.
NoTokenForgotten ==
  \A t \in Tokens : Usable(t) =>
    t = stored \/ t \in Held \cup told \cup unheard \cup replaced

SavesWorkingTokens == stored' # stored /\ stored' # None => Usable(stored')

\* Only a working token is ever saved: what a failed or late save leaves in the
\* keychain has not been revoked, and a renewal is not renewed before its save.
OnlyWorkingTokensSaved == [][SavesWorkingTokens]_vars

\* Once no command is at work, the stored sign-in can be used or renewed, unless
\* a warning said otherwise or a command died: renewals by two processes, logouts
\* and sign-ins never leave a retired token behind (NotionSession.renew).
StoredSignInWorks ==
  (\A p \in Procs : at[p] = "idle") /\ stored # None /\ ~Usable(stored)
  => stored \in told \cup unheard

\* A command has begun and not ended; it must end: taking the stored token and
\* renewing it do not go on in turns between two processes.
Busy(p) == at[p] # "idle"

------------------------------------------------------------------------------
(* The inductive invariant                                                   *)

\* The token of a command that no entry of the keychain has held: one that is
\* about to be saved, or revoked because it could not be, or may be saved late.
Unsaved(p) ==
  IF at[p] \in {"save", "revokeNew", "saveRenewed"} THEN cred[p] ELSE late[p]

\* What a command works with was issued; a late save is one its command ended with.
HeldIsIssued ==
  /\ stored # None => life[stored] # "unissued"
  /\ \A p \in Procs :
       /\ \A t \in {cred[p], other[p], late[p]} \ {None} : life[t] # "unissued"
       /\ late[p] # None => at[p] = "idle" /\ late[p] \in told

\* An unsaved token works and is in no other hands.
UnsavedIsApart ==
  \A p \in Procs : Unsaved(p) # None =>
    /\ Usable(Unsaved(p)) /\ Unsaved(p) # stored
    /\ \A q \in Procs :
         /\ other[q] # Unsaved(p)
         /\ q # p => cred[q] # Unsaved(p) /\ Unsaved(q) # Unsaved(p)

\* Who has to save or to revoke a token.
Owes(p, t) ==
  \/ at[p] \in {"save", "revokeNew", "saveRenewed"} /\ cred[p] = t
  \/ at[p] = "revokeOld" /\ other[p] = t

Accounted ==
  \A t \in Tokens : Usable(t) =>
    t = stored \/ t \in told \cup unheard \cup replaced \/ \E p \in Procs : Owes(p, t)

\* A replaced token is not the stored one again; a logout that comes to forget has
\* revoked or warned.
RevokedIsNotStored ==
  \A p \in Procs :
    /\ at[p] = "revokeOld" /\ other[p] # None => other[p] \notin {stored, cred[p]}
    /\ at[p] = "forget" => ~Usable(cred[p]) \/ cred[p] \in told

\* A stored token that does not work is known of, or a command is about to replace
\* or to remove it.
StoredIsCaredFor ==
  stored # None /\ ~Usable(stored) =>
    \/ stored \in told \cup unheard
    \/ \E p \in Procs : at[p] = "saveRenewed" \/ (at[p] = "forget" /\ cred[p] = stored)

Inductive ==
  /\ TypeOK /\ HeldIsIssued /\ UnsavedIsApart /\ Accounted
  /\ RevokedIsNotStored /\ StoredIsCaredFor

------------------------------------------------------------------------------
(* Theorems                                                                  *)

Moves(p) == Begin(p) \/ Advance(p) \/ SaveLate(p) \/ SaveNever(p) \/ Die(p)

\* Whatever a command, its keychain or its death does to the tokens.
LEMMA MovesKeepTheInvariant ==
  ASSUME NotionAssumption, Inductive, NEW p \in Procs, Moves(p)
  PROVE  Inductive'
<1> USE DEF NotionAssumption, Inductive, TypeOK, HeldIsIssued, UnsavedIsApart, Unsaved,
            Accounted, Owes, RevokedIsNotStored, StoredIsCaredFor, At, Goto, Leave,
            Fault, Usable, Revoke, session, history, counters
<1>1. CASE Begin(p)
  BY <1>1 DEF Begin
<1>2. CASE Consent(p)
  <2>1. PICK t \in Tokens : life[t] = "unissued" /\ life' = [life EXCEPT ![t] = "live"]
        /\ \/ /\ Goto(p, "save")
              /\ cred' = [cred EXCEPT ![p] = t]
              /\ UNCHANGED <<other, mayTake, renewed, unheard, counters>>
           \/ Leave(p) /\ unheard' = unheard \cup {t}
    BY <1>2 DEF Consent
  <2>2. at[p] = "consent" /\ UNCHANGED <<stored, late, told, replaced>>
    BY <1>2 DEF Consent
  <2>3. CASE Leave(p) /\ unheard' = unheard \cup {t}
    BY <2>1, <2>2, <2>3
  <2>4. CASE Goto(p, "save") /\ cred' = [cred EXCEPT ![p] = t]
             /\ UNCHANGED <<other, mayTake, renewed, unheard>>
    BY <2>1, <2>2, <2>4
  <2>5. QED
    BY <2>1, <2>3, <2>4
<1>3. CASE NoConsent(p)
  BY <1>3 DEF NoConsent
<1>4. CASE Save(p)
  BY <1>4 DEF Save
<1>5. CASE SaveFails(p)
  BY <1>5 DEF SaveFails
<1>6. CASE SaveTimesOut(p)
  BY <1>6 DEF SaveTimesOut
<1>7. CASE RevokeOld(p)
  BY <1>7 DEF RevokeOld
<1>8. CASE RevokeNew(p)
  BY <1>8 DEF RevokeNew
<1>9. CASE RevokeFound(p)
  BY <1>9 DEF RevokeFound
<1>10. CASE Forget(p)
  BY <1>10 DEF Forget
<1>11. CASE ForgetFails(p)
  BY <1>11 DEF ForgetFails
<1>12. CASE Accepted(p)
  BY <1>12 DEF Accepted
<1>13. CASE Refused(p)
  BY <1>13 DEF Refused
<1>14. CASE TakeStored(p)
  BY <1>14 DEF TakeStored
<1>15. CASE RefusedAgain(p)
  BY <1>15 DEF RefusedAgain
<1>16. CASE Ask(p)
  BY <1>16 DEF Ask
<1>17. CASE Renew(p)
  BY <1>17 DEF Renew, RenewedFrom
<1>18. CASE RenewFails(p)
  BY <1>18 DEF RenewFails, NoAnswer, RenewedFrom
<1>19. CASE RenewStoredFails(p)
  BY <1>19 DEF RenewStoredFails, NoAnswer, RenewedFrom
<1>20. CASE RenewRefused(p)
  BY <1>20 DEF RenewRefused
<1>21. CASE SaveRenewed(p)
  BY <1>21 DEF SaveRenewed
<1>22. CASE SaveRenewedFails(p)
  BY <1>22 DEF SaveRenewedFails
<1>23. CASE SaveLate(p)
  BY <1>23 DEF SaveLate
<1>24. CASE SaveNever(p)
  BY <1>24 DEF SaveNever
<1>25. CASE Die(p)
  BY <1>25 DEF Die
<1>26. QED
  BY <1>1, <1>2, <1>3, <1>4, <1>5, <1>6, <1>7, <1>8, <1>9, <1>10, <1>11,
     <1>12, <1>13, <1>14, <1>15, <1>16, <1>17, <1>18, <1>19, <1>20, <1>21,
     <1>22, <1>23, <1>24, <1>25 DEF Moves, Advance, SignIn, Logout, Session

\* The tokens of a workspace, in every reachable state, for any number of processes
\* and tokens.
THEOREM TokensInvariant ==
  ASSUME NotionAssumption PROVE Spec => []Inductive
<1>1. Init => Inductive
  BY DEF NotionAssumption, Init, Inductive, TypeOK, HeldIsIssued, UnsavedIsApart, Unsaved,
         Accounted, Owes, RevokedIsNotStored, StoredIsCaredFor, At, Usable
<1>2. Inductive /\ [Next]_vars => Inductive'
  <2> SUFFICES ASSUME Inductive, [Next]_vars PROVE Inductive'
    OBVIOUS
  <2>1. ASSUME NEW p \in Procs, Moves(p) PROVE Inductive'
    BY <2>1, MovesKeepTheInvariant
  <2>2. ASSUME NEW t \in Tokens, Expire(t) PROVE Inductive'
    BY <2>2 DEF Expire, NotionAssumption, Inductive, TypeOK, HeldIsIssued, UnsavedIsApart, Unsaved,
         Accounted, Owes, RevokedIsNotStored, StoredIsCaredFor, At, Usable, session, history
  <2>3. CASE UNCHANGED vars
    BY <2>3 DEF vars, Inductive, TypeOK, HeldIsIssued, UnsavedIsApart, Unsaved,
         Accounted, Owes, RevokedIsNotStored, StoredIsCaredFor, Usable, session, history
  <2>4. QED
    BY <2>1, <2>2, <2>3 DEF Next, Moves
<1>3. QED
  BY <1>1, <1>2, PTL DEF Spec

\* No working token is ever left behind by a sign-in, a replacement or a logout; and
\* when every command has ended, the stored sign-in works or its user was told.
THEOREM TokensAreAccountedFor ==
  ASSUME NotionAssumption PROVE Spec => [](NoTokenForgotten /\ StoredSignInWorks)
<1>1. Inductive => NoTokenForgotten
  BY DEF Inductive, Accounted, Owes, NoTokenForgotten, Held
<1>2. Inductive => StoredSignInWorks
  BY DEF Inductive, StoredIsCaredFor, StoredSignInWorks
<1>3. QED
  BY <1>1, <1>2, TokensInvariant, PTL

\* No revoked or retired token comes into the keychain, not by a late save either.
THEOREM SavedTokensWork ==
  ASSUME NotionAssumption PROVE Spec => OnlyWorkingTokensSaved
<1>1. ASSUME Inductive, NEW p \in Procs, Moves(p) PROVE SavesWorkingTokens
  <2> USE DEF SavesWorkingTokens
  <2>1. CASE Save(p) \/ SaveLate(p) \/ SaveRenewed(p)
    BY <1>1, <2>1 DEF Save, SaveLate, SaveRenewed, Inductive, TypeOK, HeldIsIssued,
       UnsavedIsApart, Unsaved
  <2>2. CASE Forget(p)
    BY <2>2 DEF Forget
  <2>3. CASE ~(Save(p) \/ SaveLate(p) \/ SaveRenewed(p) \/ Forget(p))
    BY <1>1, <2>3 DEF Moves, Begin, Advance, SignIn, Logout, Session, SaveNever, Die,
       Consent, NoConsent, SaveFails, SaveTimesOut, RevokeOld, RevokeNew, RevokeFound,
       ForgetFails, Accepted, Refused, TakeStored, RefusedAgain, Ask, Renew, RenewFails,
       RenewStoredFails, RenewRefused, SaveRenewedFails
  <2>4. QED
    BY <2>1, <2>2, <2>3
<1>2. Inductive /\ [Next]_vars => [SavesWorkingTokens]_vars
  BY <1>1 DEF Next, Moves, Expire, SavesWorkingTokens
<1>3. QED
  BY <1>2, TokensInvariant, PTL DEF Spec, OnlyWorkingTokensSaved

==============================================================================
