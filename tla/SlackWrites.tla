----------------------------- MODULE SlackWrites ------------------------------
(***************************************************************************)
(* The operations of SlackTransport on one canvas, request by request, and *)
(* people who edit the canvas between any two of them.                     *)
(*                                                                         *)
(* Slack changes no block of a canvas by itself: every write sends the     *)
(* whole body, composed from the operation's own last read, and the title  *)
(* takes a request of its own.  A canvas is a sequence of blocks, the      *)
(* stamp one of them: what is above it is the document's, what is below it *)
(* is not.  How Markdown is cut into blocks is module CanvasWrites'.       *)
(***************************************************************************)
EXTENDS Naturals, Sequences, SequencesExt

CONSTANTS
  Sections,    \* the sections of the draft, in order: a sequence of keys
  Ops,         \* the operations that may be asked for
  None,        \* nothing
  MaxEdits,    \* bound: what people do
  MaxFaults    \* bound: requests refused or left without an answer

Keys == {Sections[n] : n \in DOMAIN Sections}

\* "old" and "new" are skaldr's texts, "hand" a person's.
Block == [key : Keys \cup {"notes"}, text : {"old", "new", "hand"}]
         \cup [key : {"stamp"}, text : {"plain", "linked"}]
         \cup [key : {"archived"}, text : {"new"}]

Canvas == [body : Seq(Block), title : {"old", "new"}, marked : BOOLEAN,
           life : {"unborn", "there", "gone"}]

AllOps == {"section", "content", "fields", "links", "archive", "release",
           "create", "into"}

SlackAssumption ==
  /\ Sections \in Seq(STRING) /\ Len(Sections) > 0
  /\ Ops \subseteq AllOps
  /\ Keys \cap {"notes", "stamp", "archived"} = {}
  /\ None \notin AllOps \cup {"new", "done", "rejected", "unfinished", "failed"}
  /\ MaxEdits \in Nat /\ MaxFaults \in Nat

VARIABLES
  canvas,   \* the canvas as Slack holds it
  read,     \* the layout of the content as the run read it before
  seen,     \* the canvas as the operation last read it
  op,       \* the operation under way
  wanted,   \* the texts of the sections it is to leave
  pc,       \* where it stands
  told,     \* how it ended: done, rejected, unfinished or failed
  landed,   \* which of its writes have taken effect: "body", "stamp", "title"
  hand,     \* whether a person has changed the canvas since the run read it
  edits, faults

vars == <<canvas, read, seen, op, wanted, pc, told, landed, hand, edits, faults>>
work == <<op, wanted>>
counters == <<edits, faults>>

At(key, text) == [key |-> key, text |-> text]

\* The blocks of s that are among `blocks`, in their order.
Among(s, blocks) == FlattenSeq([n \in DOMAIN s |-> IF s[n] \in blocks THEN <<s[n]>> ELSE <<>>])

Stamp == At("stamp", "plain")
ArchivedLine == At("archived", "new")

\* _last_stamp_at, and what a canvas holds above and below it.
StampAt(c) == SelectLastInSeq(c.body, LAMBDA b : b.key = "stamp")
Content(c) == IF StampAt(c) = 0 THEN c.body ELSE SubSeq(c.body, 1, StampAt(c) - 1)
Below(c) == IF StampAt(c) = 0 THEN <<>> ELSE SubSeq(c.body, StampAt(c) + 1, Len(c.body))

Texts(t) == [n \in DOMAIN Sections |-> At(Sections[n], t)]

\* A canvas skaldr published, its stamp there or lost, notes below it or none;
\* the canvas an "into" names.
Before(o) ==
  LET holds(body, life) == [body |-> body, title |-> "old", marked |-> FALSE, life |-> life]
      notes == At("notes", "hand")
      last == At(Sections[Len(Sections)], "hand")
  IN CASE o = "create" -> {holds(<<>>, "unborn")}
       [] o = "into" -> {holds(<<>>, "there"), holds(<<notes>>, "there")}
       [] OTHER -> {holds(Texts("old") \o s \o below, "there") :
                      s \in {<<>>, <<Stamp>>}, below \in {<<>>, <<last>>}}

Asked(o) ==
  CASE o = "section" -> UNION {[{key} -> {"new", None}] : key \in Keys}
    [] o = "content" -> [Keys -> {"new", None}]
    [] o \in {"create", "into"} -> {[k \in Keys |-> "new"]}
    [] OTHER -> {<<>>}

Init ==
  /\ op \in Ops
  /\ canvas \in Before(op)
  /\ read = Content(canvas) /\ seen = canvas
  /\ wanted \in Asked(op)
  /\ pc = "begin" /\ told = None /\ landed = {}
  /\ hand = FALSE /\ edits = 0 /\ faults = 0

------------------------------------------------------------------------------
(* People                                                                    *)

Person(c) ==
  /\ edits < MaxEdits /\ canvas.life = "there" /\ c # canvas
  /\ canvas' = c
  /\ edits' = edits + 1 /\ hand' = TRUE
  /\ UNCHANGED <<read, seen, pc, told, landed, faults, work>>

EditBlock ==
  \E n \in DOMAIN canvas.body :
    canvas.body[n].key \in Keys /\ Person([canvas EXCEPT !.body[n].text = "hand"])
RemoveBlock ==
  \E n \in DOMAIN canvas.body : Person([canvas EXCEPT !.body = RemoveAt(@, n)])
\* Which section a new block is read as a part of is CanvasWrites' to say.
AddBlock ==
  \E n \in 1..(Len(canvas.body) + 1), k \in Keys :
    Person([canvas EXCEPT !.body = InsertAt(@, n, At(k, "hand"))])
DeleteCanvas == Person([canvas EXCEPT !.life = "gone"])

------------------------------------------------------------------------------
(* Requests, and how an operation ends                                       *)

\* The canvas of a create exists, or has been replaced.
Finishing == op \in {"create", "into"} /\ pc \notin {"begin", "send"}

\* finished_after_a_create, finished_after_a_change
Unanswered == IF Finishing /\ op = "create" THEN "unfinished" ELSE "failed"

\* What a refused request becomes.
Refused ==
  IF Finishing \/ (op = "archive" /\ pc = "rename" /\ "body" \in landed)
  THEN Unanswered ELSE "rejected"

\* refused_when_not_found, and a canvas that is not there.
NotFound == IF op \in {"create", "into"} /\ ~Finishing THEN "rejected" ELSE Unanswered

End(outcome) == pc' = "ended" /\ told' = outcome

Stop(outcome) ==
  /\ End(outcome)
  /\ UNCHANGED <<canvas, read, seen, landed, hand, counters, work>>

Fault == faults < MaxFaults /\ faults' = faults + 1

\* A request that makes the canvas `after`: done, refused or left without an
\* answer.  edit_canvas checks nothing: it replaces what it finds.
Send(writes, after, next) ==
  /\ \/ /\ canvas.life # "gone"
        /\ canvas' = after /\ landed' = landed \cup writes
        /\ pc' = next
        /\ UNCHANGED <<told, faults>>
     \/ Fault /\ End(Refused) /\ UNCHANGED <<canvas, landed>>
     \/ canvas.life = "gone" /\ End(NotFound) /\ UNCHANGED <<canvas, landed, faults>>
     \/ /\ Fault /\ End(Unanswered)
        /\ \/ UNCHANGED <<canvas, landed>>
           \/ /\ canvas.life # "gone"
              /\ canvas' = after /\ landed' = landed \cup writes
  /\ UNCHANGED <<read, seen, hand, edits, work>>

\* _replace_body
ReplaceBody(writes, body, next) == Send(writes, [canvas EXCEPT !.body = body], next)

Rename(title, next) == Send({"title"}, [canvas EXCEPT !.title = title], next)

\* canvas_markdown, and a read that is not answered.
Read(next) ==
  /\ canvas.life = "there" /\ ~canvas.marked
  /\ seen' = canvas /\ pc' = next
  /\ UNCHANGED <<canvas, read, told, landed, hand, counters, work>>

Missing == canvas.life = "gone" \/ canvas.marked

ReadFails ==
  /\ pc \in {"begin", "again", "look"} /\ (op = "create" => pc = "look")
  /\ Fault /\ End(Unanswered)
  /\ UNCHANGED <<canvas, read, seen, landed, hand, edits, work>>

------------------------------------------------------------------------------
(* write_section, write_content, write_fields, write_links                   *)

\* _unchanged_since_read
UnchangedSinceRead == Content(canvas) = read

Begin ==
  /\ pc = "begin" /\ op \in {"section", "content", "release", "into"}
  /\ \/ UnchangedSinceRead /\ Read(IF op = "release" THEN "again" ELSE "send")
     \/ ~Missing /\ ~UnchangedSinceRead /\ Stop("rejected")
     \/ Missing /\ Stop(NotFound)

\* with_the_stamp_line
Stamped(body) == IF StampAt(seen) = 0 THEN Append(body, Stamp) ELSE body

\* body_with_content_swapped: the section's blocks go, the new one takes the
\* place after the sections it follows.
Swapped ==
  LET above == Among(Content(seen), {b \in Block : b.key \notin DOMAIN wanted})
      below == SubSeq(seen.body, Len(Content(seen)) + 1, Len(seen.body))
      texts == Among(Texts("new"), {At(k, "new") : k \in {j \in DOMAIN wanted : wanted[j] # None}})
      before == {Sections[n] : n \in {m \in DOMAIN Sections :
                   \A j \in DOMAIN Sections : Sections[j] \in DOMAIN wanted => m < j}}
      at == SelectLastInSeq(above, LAMBDA b : b.key \in before)
  IN IF op = "content" THEN texts \o below
     ELSE SubSeq(above, 1, at) \o texts \o SubSeq(above, at + 1, Len(above)) \o below

SendContent ==
  /\ pc = "send" /\ op \in {"section", "content"}
  /\ ReplaceBody({"body"}, Stamped(Swapped), "look")

\* A canvas has no fields, and takes the stamp of no other document.
BeginFields ==
  /\ pc = "begin" /\ op \in {"fields", "links"}
  /\ \/ Read(IF op = "links" THEN "links"
             ELSE IF StampAt(canvas) = 0 THEN "stamp" ELSE "rename")
     \/ ~Missing /\ Stop("rejected")
     \/ Missing /\ Stop("failed")

StampBack == pc = "stamp" /\ ReplaceBody({"stamp"}, Stamped(seen.body), "rename")

Retitle ==
  /\ pc = "rename" /\ op \in {"fields", "into"}
  /\ \/ op = "into" /\ seen.title = "new" /\ pc' = "look"
        /\ UNCHANGED <<canvas, read, seen, told, landed, hand, counters, work>>
     \/ (op = "into" => seen.title # "new") /\ Rename("new", "look")

UpdateLinks ==
  /\ pc = "links"
  /\ LET line == At("stamp", "linked")
     IN ReplaceBody({"stamp"}, IF StampAt(seen) = 0 THEN Append(seen.body, line)
                               ELSE [seen.body EXCEPT ![StampAt(seen)] = line], "look")

\* _remote: what the caller gets back.
Look == pc = "look" /\ IF Missing THEN Stop(Unanswered) ELSE Read("over")

Over == pc = "over" /\ Stop("done")

------------------------------------------------------------------------------
(* archive_item, release_item                                                *)

OpensWithTheLine(c) == Content(c) # <<>> /\ Content(c)[1].key = "archived"

BeginArchive ==
  /\ pc = "begin" /\ op = "archive"
  /\ \/ Missing /\ Stop("done")
     \/ Read(IF OpensWithTheLine(canvas) /\ StampAt(canvas) = 0 THEN "rename" ELSE "send")

ArchivedBody ==
  IF OpensWithTheLine(seen) THEN Content(seen) \o Below(seen)
  ELSE <<ArchivedLine>> \o Below(seen)

ArchiveBody ==
  /\ pc = "send" /\ op = "archive"
  /\ \/ ~OpensWithTheLine(seen) /\ Content(seen) # read /\ Stop("rejected")
     \/ /\ OpensWithTheLine(seen) \/ Content(seen) = read
        /\ ReplaceBody({"body"}, ArchivedBody, "rename")

ArchiveName ==
  /\ pc = "rename" /\ op = "archive"
  /\ Send({"title"}, [canvas EXCEPT !.marked = TRUE], "over")

\* The next run archives a canvas whose archiving is not told as done.
ArchiveAgain ==
  /\ pc = "ended" /\ op = "archive" /\ told # "done"
  /\ read' = Content(canvas) /\ seen' = canvas /\ pc' = "begin"
  /\ told' = None /\ landed' = {}
  /\ UNCHANGED <<canvas, hand, counters, work>>

\* Read once more, and what nobody wrote by hand goes with the stamp.
ReadAgain == pc = "again" /\ IF Missing THEN Stop("failed") ELSE Read("send")

Kept == Among(seen.body, {b \in Block : b.text = "hand"})

ReleaseBody ==
  /\ pc = "send" /\ op = "release"
  /\ \/ Kept = seen.body /\ Stop("done")
     \/ Kept # seen.body /\ ReplaceBody({"body"}, Kept, "over")

------------------------------------------------------------------------------
(* create_item                                                               *)

\* _share follows a create: what fails there is a warning, so nothing depends
\* on it.
CreateCanvas ==
  /\ pc = "begin" /\ op = "create"
  /\ Send({"body"}, [body |-> Append(Texts("new"), Stamp), title |-> "new",
                     marked |-> FALSE, life |-> "there"], "look")

CreateInto ==
  /\ pc = "send" /\ op = "into"
  /\ ReplaceBody({"body"}, Append(Texts("new"), Stamp), "rename")

------------------------------------------------------------------------------

Skaldr == Begin \/ SendContent \/ BeginFields \/ StampBack \/ Retitle
          \/ UpdateLinks \/ Look \/ Over \/ BeginArchive \/ ArchiveBody
          \/ ArchiveName \/ ArchiveAgain \/ ReadAgain \/ ReleaseBody
          \/ CreateCanvas \/ CreateInto \/ ReadFails

Next == Skaldr \/ EditBlock \/ RemoveBlock \/ AddBlock \/ DeleteCanvas

Spec == Init /\ [][Next]_vars

------------------------------------------------------------------------------
(* Properties                                                                *)

TypeOK ==
  /\ canvas \in Canvas /\ seen \in Canvas
  /\ op \in Ops /\ landed \subseteq {"body", "stamp", "title"} /\ hand \in BOOLEAN
  /\ told \in {None, "done", "rejected", "unfinished", "failed"}
  /\ (told # None) = (pc = "ended")

\* GUIDE.md: a write the service rejected outright leaves no trace; the run
\* then clears its note of the write (WriteRejectedError in publish/applier.py).
RejectedLeavesNoTrace == told = "rejected" => landed = {}

Holds(c, b) == \E n \in DOMAIN c.body : c.body[n] = b

\* A whole body is sent for every change of it, so every block a person wrote
\* and the operation read is in the body it sends: only what the run itself
\* read, of the section or of the content that is written, is replaced.
KeepsEdits ==
  \A n \in DOMAIN seen.body :
    LET b == seen.body[n]
    IN b.text = "hand" /\ canvas'.body # canvas.body /\ edits' = edits =>
         \/ Holds(canvas', b)
         \/ /\ n <= Len(read) /\ read[n] = b
            /\ op = "section" => b.key \in DOMAIN wanted
            /\ op \in {"section", "content", "archive", "into"}

\* What an operation told as done was asked to write is on the canvas, or a
\* person has changed it since: the applier records it as published.
DoneIsOnTheCanvas ==
  told = "done" /\ ~hand =>
    /\ \A k \in DOMAIN wanted :
         \A n \in DOMAIN Content(canvas) :
           canvas.body[n].key = k => canvas.body[n].text = wanted[k]
    /\ \A k \in DOMAIN wanted : wanted[k] # None => Holds(canvas, At(k, wanted[k]))
    /\ StampAt(canvas) = 0 <=> op \in {"release", "archive"}
    /\ op \in {"fields", "create", "into"} => canvas.title = "new"
    /\ op = "archive" => canvas.marked

\* The title names a canvas archived only when its text says so: a stop between
\* the two requests leaves the one that the next run still looks for.
ArchivedSaysSo ==
  canvas.marked /\ ~hand => OpensWithTheLine(canvas) /\ StampAt(canvas) = 0

\* An archiving that is asked for again after every failure has to be told as
\* done.
Archiving == op = "archive"
Archived == told = "done"

==============================================================================
