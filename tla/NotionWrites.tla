---------------------------- MODULE NotionWrites -----------------------------
(***************************************************************************)
(* The operations of NotionTransport on one page, request by request, and  *)
(* a person who edits the page between any two of them.                    *)
(*                                                                         *)
(* A page is the texts of its sections, its stamp line and its properties. *)
(* How Markdown is split into sections, and which text of a section a      *)
(* request quotes, is module PageText's; here a request quotes whole       *)
(* sections and Notion refuses it unless each still reads as quoted.  What *)
(* a request's answer says about its effect is module WriteCall's.         *)
(***************************************************************************)
EXTENDS Naturals, Sequences, FiniteSets

CONSTANTS
  Sections,    \* the sections of the draft, in order: a sequence of keys
  Ops,         \* the operations that may be asked for
  Notes,       \* text on the page that no section of the draft holds
  None,        \* no text, no stamp, no operation
  MaxEdits,    \* bound: what the person does
  MaxFaults    \* bound: requests refused or left without an answer

Keys == {Sections[n] : n \in DOMAIN Sections} \cup {Notes}

\* "old" and "new" are skaldr's texts, "hand" a person's.
Texts == {"old", "new", "hand", None}

Stamps == {"plain", "linked", None}

Page == [text : [Keys -> Texts], stamp : Stamps, props : {"old", "new"},
         life : {"unborn", "there", "trash"}]

AllOps == {"section", "content", "fields", "links", "archive", "release",
           "create", "template", "into"}

NotionAssumption ==
  /\ Sections \in Seq(STRING) /\ Len(Sections) > 0
  /\ Ops \subseteq AllOps
  /\ \A n \in DOMAIN Sections : Sections[n] \notin {Notes, "stamp"}
  /\ \A m, n \in DOMAIN Sections : Sections[m] = Sections[n] => m = n
  /\ Notes # "stamp"
  /\ None \notin {"old", "new", "hand", "plain", "linked"} \cup AllOps
                  \cup {"done", "rejected", "unfinished", "failed"}
  /\ MaxEdits \in Nat /\ MaxFaults \in Nat

VARIABLES
  page,     \* the page as Notion holds it
  read,     \* request.raw_sections: the sections as the run read them before
  seen,     \* the Markdown the operation last got from Notion
  op,       \* the operation under way
  wanted,   \* the texts the operation is to leave
  pc,       \* where it stands
  sent,     \* how many sections of the draft a create has sent
  told,     \* how it ended: done, rejected, unfinished or failed
  landed,   \* how many of its requests have taken effect
  hand,     \* the sections, and "stamp", a person changed since the run read
  edits, faults

vars == <<page, read, seen, op, wanted, pc, sent, told, landed, hand, edits, faults>>
work == <<read, op, wanted>>

Blank == [k \in Keys |-> None]
Emptied(p) == p.text = Blank /\ p.stamp = None

\* The first n sections as skaldr writes them, and nothing else.
First(n) == [k \in Keys |-> IF \E j \in 1..n : Sections[j] = k THEN "new" ELSE None]

\* A page skaldr published, its stamp there or lost; the page an "into" names.
Before(o) ==
  LET shows(t, s) == [text |-> [k \in Keys |-> IF k = Notes THEN None ELSE t],
                      stamp |-> s, props |-> "old", life |-> "there"]
  IN CASE o \in {"create", "template"} -> {[shows(None, None) EXCEPT !.life = "unborn"]}
       [] o = "into" -> {[shows(None, None) EXCEPT !.text[Notes] = "hand"]}
       [] OTHER -> {shows("old", s) : s \in Stamps}
                   \cup {[shows("old", s) EXCEPT !.text = Blank] : s \in Stamps}

\* What the operation is asked to leave on the page.
Asked(o, p) ==
  CASE o = "section" -> {[p.text EXCEPT ![k] = t] :
                           k \in Keys \ {Notes}, t \in {"new", None}}
    [] o = "content" -> {w \in [Keys -> {"new", None}] : w[Notes] = None}
    [] o \in {"create", "template", "into"} -> {First(Len(Sections))}
    [] o = "release" -> {Blank}
    [] OTHER -> {p.text}

Init ==
  /\ op \in Ops
  /\ page \in Before(op)
  /\ read = page.text /\ seen = page
  /\ wanted \in Asked(op, page)
  /\ pc = "begin" /\ sent = 0 /\ told = None /\ landed = 0
  /\ hand = {} /\ edits = 0 /\ faults = 0

------------------------------------------------------------------------------
(* The person                                                                *)

Person(p, changed) ==
  /\ edits < MaxEdits
  /\ page.life = "there"
  /\ p # page
  /\ page' = p
  /\ edits' = edits + 1 /\ hand' = hand \cup changed
  /\ UNCHANGED <<seen, pc, sent, told, landed, faults, work>>

EditSection ==
  \E k \in {j \in Keys : page.text[j] # None} \cup {Notes}, t \in {"hand", None} :
    Person([page EXCEPT !.text[k] = t], {k})
RemoveStamp == Person([page EXCEPT !.stamp = None], {"stamp"})
TrashPage == Person([page EXCEPT !.life = "trash"], {})

------------------------------------------------------------------------------
(* Requests, and how an operation ends                                       *)

Creates == op \in {"create", "template", "into"}

\* The page exists, or has been replaced: the rest of a create only finishes it.
Finishing == Creates /\ pc \notin {"begin", "send"}

\* finished_after_a_create, finished_after_a_change
Unanswered == IF Finishing /\ op # "into" THEN "unfinished" ELSE "failed"

\* Mutant: a create is left to the error of the request that failed.
RefusedAsItIs == "rejected"

\* What a refused request becomes.  Every operation but the creates lets
\* WriteRejectedError through, whichever of its requests was refused.
Refused == IF Finishing THEN Unanswered ELSE "rejected"

End(outcome) == pc' = "ended" /\ told' = outcome

Stop(outcome) ==
  /\ End(outcome)
  /\ UNCHANGED <<page, seen, sent, landed, hand, edits, faults, work>>

Fault == faults < MaxFaults /\ faults' = faults + 1

\* Notion takes a request if it finds what it quotes as it was last seen.
Takes(quoted) ==
  /\ page.life = "there"
  /\ \A k \in quoted \cap Keys : page.text[k] = seen.text[k]
  /\ "stamp" \in quoted => page.stamp = seen.stamp /\ page.stamp # None

Lands(after) == page' = after /\ landed' = landed + 1

\* A request that quotes `quoted` and makes the page `after`: done, after which the
\* operation takes the page for `known`; refused by Notion or by skaldr itself before
\* it is sent; or left without an answer.
Request(quoted, after, known, next) ==
  /\ \/ /\ Takes(quoted) /\ Lands(after)
        /\ seen' = known /\ pc' = next
        /\ UNCHANGED <<told, faults>>
     \/ /\ (~Takes(quoted) /\ UNCHANGED faults) \/ Fault
        /\ End(Refused)
        /\ UNCHANGED <<page, seen, landed>>
     \/ /\ (page.life # "there" /\ UNCHANGED faults) \/ Fault
        /\ \/ UNCHANGED <<page, landed>>
           \/ Takes(quoted) /\ Lands(after)
        /\ End(Unanswered)
        /\ UNCHANGED seen
  /\ UNCHANGED <<hand, edits, work>>

Send(quoted, after, next) == Request(quoted, after, after, next) /\ UNCHANGED sent

\* A read, and one that is not answered.  A create that has sent nothing tells
\* every error as a rejection (_with_nothing_sent).
Read(next) ==
  /\ seen' = page /\ pc' = next
  /\ UNCHANGED <<page, sent, told, landed, hand, edits, faults, work>>

ReadFails ==
  /\ pc # "ended" /\ Fault
  /\ End(IF Creates /\ pc = "begin" THEN "rejected" ELSE Unanswered)
  /\ UNCHANGED <<page, seen, sent, landed, hand, edits, work>>

------------------------------------------------------------------------------
(* write_section, write_content                                              *)

\* Mutant: what changed since the run read the page is not looked for.
NotLookedAt == TRUE

UnchangedSinceRead == page.text = read

Begin ==
  /\ pc = "begin" /\ op \in {"section", "content", "release"}
  /\ \/ /\ page.life = "there" /\ UnchangedSinceRead
        /\ Read(IF op = "release" THEN "remove" ELSE "send")
     \/ page.life = "there" /\ ~UnchangedSinceRead /\ Stop("rejected")
     \/ page.life # "there" /\ Stop("failed")

Changed == {k \in Keys : wanted[k] # seen.text[k]}
Present == {k \in Keys : seen.text[k] # None}

\* section_replacement: what changes, with neighbours where it is not found
\* once by itself; an insertion quotes what it is placed next to.
Quotes ==
  LET old == Changed \cap Present
      anchors == {{k} : k \in Present}
                 \cup IF seen.stamp = None THEN {} ELSE {{"stamp"}}
  IN IF old = {} THEN anchors ELSE {q \in SUBSET Present : old \subseteq q}

AfterSections == IF seen.stamp = None THEN "stamp" ELSE "look"

SendSections ==
  /\ pc = "send" /\ op \in {"section", "content"}
  /\ \/ /\ Changed = {}
        /\ pc' = AfterSections
        /\ UNCHANGED <<page, seen, sent, told, landed, hand, edits, faults, work>>
     \/ /\ Changed # {}
        /\ \E q \in Quotes :
             Send(q, [page EXCEPT !.text = [k \in Keys |->
                        IF k \in Changed THEN wanted[k] ELSE page.text[k]]],
                  AfterSections)
     \/ Changed # {} /\ Quotes = {} /\ Stop("rejected")

\* _stamp_put_back: next to the last section; into a page that holds nothing
\* by replacing all of it; nowhere if no text can be quoted.
StampBack ==
  /\ pc = "stamp"
  /\ LET stamped(p) == [p EXCEPT !.stamp = IF op = "links" THEN "linked" ELSE "plain"]
         next == IF op = "fields" THEN "props" ELSE "look"
     IN \/ seen.text = Blank /\ Send({}, [stamped(page) EXCEPT !.text = Blank], next)
        \/ \E k \in Present : Send({k}, stamped(page), next)

\* _live_page, _remote: the page goes back to the caller.
Look ==
  /\ pc = "look"
  /\ Stop(IF page.life = "there" THEN "done" ELSE Unanswered)

------------------------------------------------------------------------------
(* write_fields, write_links, archive_item                                   *)

BeginFields ==
  /\ pc = "begin" /\ op \in {"fields", "links"}
  /\ \/ page.life # "there" /\ Stop("failed")
     \/ /\ page.life = "there"
        /\ Read(IF page.stamp = None THEN "stamp"
                ELSE IF op = "fields" THEN "props" ELSE "links")

UpdateProperties ==
  /\ pc = "props"
  /\ Send({}, [page EXCEPT !.props = "new"], IF op = "into" THEN "reread" ELSE "look")

UpdateLinks ==
  /\ pc = "links"
  /\ Send({"stamp"}, [page EXCEPT !.stamp = "linked"], "look")

Archive ==
  /\ op = "archive"
  /\ \/ pc = "begin" /\ page.life # "there" /\ Stop("done")
     \/ pc = "begin" /\ page.life = "there" /\ Read("trash")
     \/ pc = "trash" /\ Send({}, [page EXCEPT !.life = "trash"], "over")

------------------------------------------------------------------------------
(* release_item: what nobody edited and the stamp, in as many requests as    *)
(* their size needs, all computed from the first read (release_replacements), *)
(* then the properties                                                       *)

Skaldrs == {k \in Keys : seen.text[k] \in {"old", "new"}}

Without(p, q) ==
  [p EXCEPT !.text = [k \in Keys |-> IF k \in q THEN None ELSE p.text[k]],
            !.stamp = IF "stamp" \in q THEN None ELSE @]

RemoveSome ==
  /\ pc = "remove"
  /\ \/ \E q \in SUBSET (Skaldrs \cup IF seen.stamp = None THEN {} ELSE {"stamp"}) :
          /\ q # {}
          /\ Request(q, Without(page, q), Without(seen, q), "remove")
          /\ UNCHANGED sent
     \/ Skaldrs = {} /\ seen.stamp = None /\ Read("clear")

ClearProperties ==
  /\ pc = "clear"
  /\ \/ page.life = "there" /\ Send({}, [page EXCEPT !.props = "new"], "over")
     \/ page.life # "there" /\ Stop("failed")

Over == pc = "over" /\ Stop("done")

------------------------------------------------------------------------------
(* create_item, fill_a_page_left_empty                                       *)

BeginCreate ==
  /\ pc = "begin" /\ Creates
  /\ \/ op # "into" /\ Read("send")
     \/ op = "into" /\ page.life = "there" /\ UnchangedSinceRead /\ Read("send")
     \/ op = "into" /\ ~(page.life = "there" /\ UnchangedSinceRead) /\ Stop("rejected")

\* Mutant: the stamp follows in a later request.
CreatedUnstamped(n) ==
  [text |-> First(n), stamp |-> None, props |-> "new", life |-> "there"]

\* A page created with its first n sections and the stamp.
CreatedPage(n) ==
  [text |-> First(n), stamp |-> "plain", props |-> "new", life |-> "there"]

\* A page created from a template has neither: `first_write` follows.
CreatePage ==
  /\ pc = "send" /\ op \in {"create", "template"}
  /\ \E n \in 1..Len(Sections) :
       LET made == IF op = "create" THEN CreatedPage(n)
                   ELSE [CreatedPage(0) EXCEPT !.stamp = None]
       IN /\ sent' = IF op = "create" THEN n ELSE 0
          /\ \/ /\ Lands(made)
                /\ seen' = made
                /\ pc' = IF op = "create" THEN "reread" ELSE "replace"
                /\ UNCHANGED <<told, faults>>
             \/ Fault /\ End("rejected") /\ UNCHANGED <<page, seen, landed>>
             \/ /\ Fault /\ End("failed")
                /\ Lands(made) \/ UNCHANGED <<page, landed>>
                /\ UNCHANGED seen
  /\ UNCHANGED <<hand, edits, work>>

\* replace_content with the first batch and the stamp.
ReplaceContent ==
  /\ pc = IF op = "into" THEN "send" ELSE "replace"
  /\ Creates
  /\ \E n \in 1..Len(Sections) :
       LET after == [page EXCEPT !.text = First(n), !.stamp = "plain"]
       IN  /\ Request({}, after, after, IF op = "into" THEN "props" ELSE "reread")
           /\ sent' = n

Reread == pc = "reread" /\ Read("batches")

\* Each later batch takes the stamp's place, with the stamp after it.
SendBatch ==
  /\ pc = "batches"
  /\ \/ /\ sent = Len(Sections)
        /\ Read("look")
     \/ \E n \in (sent + 1)..Len(Sections) :
          LET after == [page EXCEPT !.text = [k \in Keys |->
                 IF \E j \in (sent + 1)..n : Sections[j] = k THEN "new" ELSE page.text[k]]]
          IN  Request({"stamp"}, after, after, "batches") /\ sent' = n

------------------------------------------------------------------------------

Skaldr == Begin \/ SendSections \/ StampBack \/ Look \/ BeginFields
          \/ UpdateProperties \/ UpdateLinks \/ Archive \/ RemoveSome
          \/ ClearProperties \/ Over \/ BeginCreate \/ CreatePage
          \/ ReplaceContent \/ Reread \/ SendBatch \/ ReadFails

Next == Skaldr \/ EditSection \/ RemoveStamp \/ TrashPage

Spec == Init /\ [][Next]_vars

------------------------------------------------------------------------------
(* Properties                                                                *)

TypeOK ==
  /\ page \in Page /\ seen \in Page
  /\ read \in [Keys -> Texts] /\ wanted \in [Keys -> Texts]
  /\ op \in Ops /\ sent \in 0..Len(Sections)
  /\ told \in {None, "done", "rejected", "unfinished", "failed"}
  /\ (told # None) = (pc = "ended")
  /\ landed \in Nat /\ hand \subseteq Keys \cup {"stamp"}

\* GUIDE.md: a write the service rejected outright leaves no trace; the run
\* then clears its note of the write (WriteRejectedError in publish/applier.py).
RejectedLeavesNoTrace == told = "rejected" => landed = 0

\* What the operation was asked to write is on the page, or a person has changed it
\* since.
IsOnThePage ==
  /\ op # "archive" =>
       \A k \in Keys \ hand : page.text[k] = wanted[k]
  /\ page.stamp = None => op \in {"release", "archive"} \/ "stamp" \in hand
  /\ op = "release" => page.stamp = None
  /\ op \in {"fields", "release", "create", "into", "template"} => page.props = "new"
  /\ op = "archive" => page.life # "there"

\* The applier records what is told as done as published.
DoneIsOnThePage == told = "done" => IsOnThePage

\* A person's text is replaced only where a request replaces the whole page:
\* an empty page given its stamp, a new page filled, a page written into.
KeepsEdits ==
  \A k \in hand \cap Keys :
    page.text[k] = "hand" /\ page'.text[k] # "hand" =>
      \/ edits' # edits
      \/ pc \in {"replace", "send"} /\ Creates
      \/ pc = "stamp" /\ seen.text = Blank

\* A create that ends halfway is found again: its page carries the stamp or
\* is still empty, unless a person changed it.
UnfinishedIsFound ==
  /\ told = "unfinished" /\ hand = {} => page.stamp # None \/ Emptied(page)
  /\ op = "into" /\ landed > 0 => page.stamp # None \/ "stamp" \in hand

==============================================================================
