------------------------------- MODULE PageText -------------------------------
(***************************************************************************)
(* One Notion page by its text: skaldr writes its sections and releases    *)
(* the page by quoting text, people edit it, block by block, in between.   *)
(* Requests that fail and people who edit between a read and a write are   *)
(* module NotionWrites's.                                                  *)
(***************************************************************************)
EXTENDS NotionText

CONSTANTS
  Drafts,    \* the contents that may be published: sequences of [key, text]
  Additions, \* the blocks a person may add
  Over,      \* a word a person may write over another
  MostWords, \* what one request of a release may carry
  MaxEdits,  \* bound: what people do between two writes
  MaxWrites  \* bound: writes and releases

VARIABLES
  page,      \* the page's Markdown
  published, \* the sections as skaldr last read them back: what it keys by
  touched,   \* the sections people changed since then
  wanted,    \* the sections the last write was to leave
  requests,  \* what a release has still to send
  told,      \* how the last operation went
  edits, writes

vars == <<page, published, touched, wanted, requests, told, edits, writes>>

StampLine == <<StampWord, "nl">>

Written(draft) ==
  SelectSeq([n \in DOMAIN draft |-> [draft[n] EXCEPT !.text = ComparableText(@)]],
            LAMBDA s : s.text # <<>>)

Init ==
  \E draft \in Drafts :
    /\ page = Append(Joined(TextsOf(draft)), StampWord) \o <<"nl">>
    /\ published = Written(draft) /\ wanted = Written(draft)
    /\ touched = {} /\ requests = <<>> /\ told = "written"
    /\ edits = 0 /\ writes = 0

------------------------------------------------------------------------------
(* People: whole blocks, and the words of a line                             *)

Lines == PlacedLines(page, published)
Raw(lines) == Concat([n \in DOMAIN lines |-> lines[n].line.raw])

Edit(p, keys) ==
  /\ requests = <<>> /\ told # "released"
  /\ edits < MaxEdits /\ edits' = edits + 1
  /\ page' = p /\ touched' = touched \cup keys
  /\ told' = "edited"
  /\ UNCHANGED <<published, wanted, requests, writes>>

\* What stands before a section's first line belongs to it, whatever skaldr does
\* not key itself stands between them; the rest to the section it stands in.
SectionAt(lines, n) ==
  LET keyed == {m \in DOMAIN lines : lines[m].role \in {"published", "added"}}
      below == {m \in keyed : m >= n}
  IN IF \E m \in 1..(n - 1) : lines[m].role = "stamp" THEN ""
     ELSE IF below # {} THEN lines[CHOOSE m \in below : \A k \in below : m <= k].key
     ELSE IF published = <<>> THEN Unkeyed ELSE published[Len(published)].key

\* Above the n-th line, which starts a block, or below them all.
AddBlock ==
  \E lines \in {Lines} :
    \E n \in 1..(Len(lines) + 1), text \in Additions :
       /\ n \in DOMAIN lines => StartsABlock(lines[n].line)
       /\ Edit(Joined(<<Raw(SubSeq(lines, 1, n - 1)), text, Raw(SubSeq(lines, n, Len(lines)))>>),
               IF \E c \in ChildPages : text = <<c, "nl">> THEN {} ELSE {SectionAt(lines, n)})

\* Without its stamp, what stands below the last section belongs to it.
DeleteBlock ==
  \E lines \in {Lines} :
    LET of(b) == {lines[n] : n \in {m \in DOMAIN lines : lines[m].block = b}}
    IN \E b \in {lines[n].block : n \in DOMAIN lines} :
       /\ \A l \in of(b) : ~IsChild(l.line)
       /\ Edit(Raw(SelectSeq(lines, LAMBDA l : l.block # b)),
               {IF l.role = "stamp" THEN published[Len(published)].key ELSE l.key : l \in of(b)})

Markup == {"nl", "tab", "code", "math", StampWord, EmptyBlock, UnknownBlock, "<table>",
           Comment, CommentAndColour, Colour, Closing} \cup Inside \cup ChildPages

\* The n-th line with some of its own words replaced.
Rewritten(lines, n, i, words) ==
  LET raw == lines[n].line.raw
  IN Raw(SubSeq(lines, 1, n - 1)) \o SubSeq(raw, 1, i - 1) \o words
     \o SubSeq(raw, i + 1, Len(raw)) \o Raw(SubSeq(lines, n + 1, Len(lines)))

EditLine ==
  \E lines \in {Lines} : \E n \in DOMAIN lines :
    \E i \in DOMAIN lines[n].line.raw :
       /\ lines[n].line.raw[i] \notin Markup \cup {Over}
       /\ Edit(Rewritten(lines, n, i, <<Over>>), {lines[n].key})

CommentOn ==
  \E lines \in {Lines} : \E n \in DOMAIN lines :
    \E i \in DOMAIN lines[n].line.raw :
       LET raw == lines[n].line.raw
       IN /\ raw[i] \notin Markup /\ Comment \notin ToSet(raw)
          /\ lines[n].line.top
          /\ Edit(Rewritten(lines, n, i, <<Comment, raw[i], Closing>>), {})

------------------------------------------------------------------------------
(* skaldr                                                                    *)

\* Notion takes a replacement whose text it finds exactly once.
Takes(p, r) == r = NoReplacement \/ CountIn(p, r.old) = 1

\* What Notion keeps of what it is sent: blank lines may go.
Kept(p) == {p, LinesAsText(FoldLeft(LAMBDA kept, l : IF l.kept THEN Append(kept, Bare(l.raw)) ELSE kept,
                                    <<>>, PageLines(p)))}

\* What the run reads of the page, and what its write reads again.
Read == KeyedPage(page, published)
Reread(read) == KeyedPage(page, read.raw)

Tell(what) == told' = what /\ UNCHANGED <<page, published, touched, wanted>>

\* The sections a write is to leave, each with the child pages it held.
After(current, draft) ==
  WithChildrenOfRemovedSections(current,
    [n \in DOMAIN draft |->
       [draft[n] EXCEPT !.text = CarriedInto(TextAt(current, draft[n].key), @)]])

\* _stamp_put_back: after the last section, or as all there is.
StampPutBack(p, layout) ==
  IF ~Shows(p) THEN {Replacement(p, StampLine, {})}
  ELSE LET current == KeyedPage(p, layout).raw
       IN SectionReplacement(current, Append(current, [key |-> "stamp", text |-> StampLine]), p, <<>>)

\* _written_with: the page is now `sent`; a stamp it had lost goes back.
WrittenWith(draft, after, sent, stamped) ==
  LET left(b) == IF ~Shows(sent) THEN <<b.new, "written">>
                 ELSE IF ~Takes(sent, b) THEN <<sent, "ambiguous">>
                 ELSE <<Replaced(sent, b), "written">>
  IN \E backs \in {IF stamped THEN {NoReplacement} ELSE StampPutBack(sent, after)} :
     \E leaves \in IF backs = {} THEN {<<sent, "nowhere">>} ELSE {left(b) : b \in backs} :
       /\ page' = leaves[1] /\ told' = leaves[2]
       /\ published' = KeyedPage(leaves[1], after).sections
       /\ wanted' = Written(draft) /\ touched' = {}

\* write_content: each of its requests, then what the page reads as.
WriteContent ==
  /\ requests = <<>> /\ told # "released"
  /\ writes < MaxWrites /\ writes' = writes + 1 /\ edits' = 0
  /\ UNCHANGED requests
  /\ \E read \in {Read} : \E again \in {Reread(read)} : \E draft \in Drafts :
       IF again.raw # read.raw THEN Tell("changed")
       ELSE \E after \in {After(again.raw, draft)} :
            \E found \in {SectionReplacement(again.raw, after, page, again.stamp)} :
              IF found = {} THEN Tell("nowhere")
              ELSE \E r \in found :
                IF HoldsAnUnknownBlock(r.old) THEN Tell("unknown")
                ELSE IF ~Takes(page, r) THEN Tell("ambiguous")
                ELSE \E sent \in Kept(Replaced(page, r)) :
                       WrittenWith(draft, after, sent, again.stamp # <<>>)

\* release_item, one request at a time.
BeginRelease ==
  /\ requests = <<>> /\ told # "released"
  /\ writes < MaxWrites /\ writes' = writes + 1
  /\ UNCHANGED <<page, published, touched, wanted, edits>>
  /\ \E read \in {Read}, sent \in {ReleaseReplacements(page, published, MostWords)} :
       IF Reread(read).raw # read.raw THEN told' = "changed" /\ UNCHANGED requests
       ELSE requests' = sent /\ told' = IF sent = <<>> THEN "released" ELSE "releasing"

SendRelease ==
  /\ requests # <<>>
  /\ UNCHANGED <<published, touched, wanted, edits, writes>>
  /\ IF HoldsAnUnknownBlock(requests[1].old) THEN Tell("unknown") /\ requests' = <<>>
     ELSE IF ~Takes(page, requests[1]) THEN Tell("ambiguous") /\ requests' = <<>>
     ELSE /\ page' = Replaced(page, requests[1])
          /\ requests' = Tail(requests)
          /\ told' = IF Len(requests) = 1 THEN "released" ELSE "releasing"

Next == \/ AddBlock \/ DeleteBlock \/ EditLine \/ CommentOn
        \/ WriteContent \/ BeginRelease \/ SendRelease

Spec == Init /\ [][Next]_vars

------------------------------------------------------------------------------
(* Properties                                                                *)

TellsOf == {"written", "edited", "changed", "nowhere", "unknown", "ambiguous", "releasing", "released"}

TypeOK ==
  /\ told \in TellsOf
  /\ published \in Seq([key : {"one", "two", "three", Unkeyed}, text : Seq(STRING)])
  /\ edits \in 0..MaxEdits /\ writes \in 0..MaxWrites
  /\ requests # <<>> => told = "releasing"

AboveTheStamp == Raw(SelectSeq(Lines, LAMBDA l : l.key # ""))
BelowTheStamp(p) ==
  LET lines == PlacedLines(p, <<>>)
  IN ComparableText(Concat([n \in DOMAIN lines |->
       IF lines[n].role = "below" THEN lines[n].line.raw ELSE <<>>]))

\* The sections a page is read as, put after one another, are the page down to
\* its stamp, so a place counted in sections is a place on the page
\* (_offset_of, keyed_page).
SectionsJoinIntoThePage == Joined(TextsOf(Read.raw)) = AboveTheStamp

\* A section nobody changed since reads as skaldr published it, comments or not,
\* and whatever was done to the sections around it: the next run takes no edit
\* for one of another section (keyed_page, without_comment_markers).
UntouchedReadsAsPublished ==
  requests = <<>> /\ told # "released" =>
    LET reads == ToSet(Read.sections)
    IN \A n \in DOMAIN published : published[n].key \in touched \/ published[n] \in reads

\* A write leaves each section as it was asked to, in order and once
\* (section_replacement, carried_into, _stamp_put_back), and the stamp on the page.
WrittenIsWanted ==
  told = "written" => published = wanted /\ Read.stamp = StampLine

\* Whatever skaldr quotes stands on the page once when it is sent, so Notion
\* never has to choose (_found_once_at, _unique_edge, _unique_removal): but for a
\* release beside a block Notion does not show, which skaldr does not quote.
EachQuoteIsFoundOnce ==
  told = "ambiguous" => touched # {} /\ HoldsAnUnknownBlock(page)

\* No request of a release, and no write, leaves part of a block behind
\* (_released_runs, _chunks_of_whole_blocks).
NoBlockIsTorn ==
  /\ Len(SelectSeq(page, LAMBDA w : w = "<table>")) = Len(SelectSeq(page, LAMBDA w : w = "</table>"))
  /\ Len(SelectSeq(page, LAMBDA w : w = "code")) % 2 = 0
  /\ \A n \in DOMAIN page : page[n] = "<td>" => \E m \in 1..n : page[m] = "<table>"

\* A released page has no stamp, and nothing that only sections nobody touched
\* say.
ReleasedHoldsNothingOfSkaldrs ==
  LET said(ours) == UNION {ToSet(published[n].text) :
                             n \in {m \in DOMAIN published : (published[m].key \in touched) # ours}}
      peoples == UNION {ToSet(text) : text \in Additions}
  IN told = "released" =>
       /\ StampWord \notin ToSet(page)
       /\ (said(TRUE) \cap ToSet(page)) \subseteq ({"nl", "tab"} \cup peoples \cup said(FALSE))

\* A write is refused because the page changed only when it did: nothing
\* changes between the two readings here (refuse_a_change_since_the_read).
UnchangedIsNotRefused == told # "changed"

Occurs(p, w) == Len(SelectSeq(p, LAMBDA v : v = w))

\* skaldr never takes a child page off the page, whose reference is its content
\* in Notion's trash, nor what people wrote below the stamp, and a release takes
\* nothing people wrote.
KeepsPeoplesText ==
  /\ \A c \in ChildPages : Occurs(page', c) >= Occurs(page, c)
  /\ writes' # writes => BelowTheStamp(page') = BelowTheStamp(page)
  /\ requests' # requests => \A w \in {"x", Over} : Occurs(page', w) = Occurs(page, w)

==============================================================================
