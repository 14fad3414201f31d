---------------------------- MODULE CanvasWrites -----------------------------
(***************************************************************************)
(* One Slack canvas by its text, read and composed: every write sends the  *)
(* whole body, the sections nobody changed as skaldr rendered them and the *)
(* rest as Slack stores it, and people edit it in between.  Requests that  *)
(* fail and edits between a read and a write are in module SlackWrites.    *)
(*                                                                         *)
(* A text is a sequence of lines, a line a sequence of words; a block is   *)
(* the lines between two empty ones.  The title, which no body holds, is   *)
(* left out.  Slack stores text without its escapes: "\\a" is stored as    *)
(* "*a", which, sent as it is, Slack takes for markup, "styled a".         *)
(***************************************************************************)
EXTENDS Integers, Sequences, SequencesExt, Keying

Bullets == {"-", "+", "*"}
Numbers == {"1."}
Markers == Bullets \cup Numbers
\* A marker at the head of an item's own text, escaped.
EscapedMarkers == [m \in {"\\-", "\\1."} |-> IF m = "\\-" THEN "-" ELSE "1."]

ListSeparator == <<<<"&nbsp;">>>>
Blanks == {"tab", "nbsp"}

HeadOf(line) == IF line = <<>> THEN "" ELSE line[1]
Indent(line) ==
  CHOOSE n \in 0..Len(line) : /\ \A m \in 1..n : line[m] \in Blanks
                              /\ n = Len(line) \/ line[n + 1] \notin Blanks
LeftStripped(line) == SubSeq(line, Indent(line) + 1, Len(line))
RightStripped(line) == Reverse(LeftStripped(Reverse(line)))
Stripped(line) == RightStripped(LeftStripped(line))

\* LIST_ITEM, by a block's first line.
IsAList(block) == HeadOf(LeftStripped(block[1])) \in Markers

------------------------------------------------------------------------------
(* Blocks                                                                    *)

\* _Fences: an open code fence, and the containers around.
Outside == [code |-> FALSE, depth |-> 0]

Fenced(at, line) ==
  LET stripped == Stripped(line)
  IN IF at.code THEN [at EXCEPT !.code = stripped # <<"code">>]
     ELSE IF HeadOf(stripped) = "code" THEN [at EXCEPT !.code = TRUE]
     ELSE IF HeadOf(stripped) = ":::{" THEN [at EXCEPT !.depth = @ + 1]
     ELSE IF stripped = <<":::">> /\ at.depth > 0 THEN [at EXCEPT !.depth = @ - 1]
     ELSE at

\* canvas_blocks: an empty line at the top level ends a block.
CanvasBlocks(text) ==
  LET flushed(c) == IF c.now = <<>> THEN c.done ELSE Append(c.done, c.now)
      read(c, line) ==
        IF c.at = Outside /\ line = <<>> THEN [c EXCEPT !.done = flushed(c), !.now = <<>>]
        ELSE [c EXCEPT !.at = Fenced(@, line), !.now = Append(@, line)]
  IN flushed(FoldLeft(read, [done |-> <<>>, now |-> <<>>, at |-> Outside], text))

\* _blocks_text, with the empty line every block ends in.
BlocksText(blocks) == Concat([n \in DOMAIN blocks |-> Append(blocks[n], <<>>)])

\* _table_row: a row's cells without the blanks around them; the row of dashes
\* is the same whatever it aligns.
TableRow(line) ==
  LET dashes == {"---", ":---", "---:"}
      cells == SelectSeq(line, LAMBDA w : w \notin Blanks \cup {"|"})
      shown == SelectSeq(line, LAMBDA w : w \notin Blanks)
  IN IF cells # <<>> /\ ToSet(cells) \subseteq dashes
     THEN [n \in DOMAIN shown |-> IF shown[n] \in dashes THEN "---" ELSE shown[n]]
     ELSE shown

WithoutHardBreak(line) ==
  IF line # <<>> /\ line[Len(line)] = "\\" THEN RightStripped(Front(line)) ELSE line

AsSlackWritesIt(bare, at) ==
  IF at <= Len(bare) /\ bare[at] = "|" /\ bare[Len(bare)] = "|" THEN TableRow(SubSeq(bare, at, Len(bare)))
  ELSE [n \in DOMAIN bare |-> IF n = at /\ bare[n] \in Bullets THEN "*"
                              ELSE IF bare[n] = "![](@U)" THEN "<@U>" ELSE bare[n]]

\* _comparable_line: no hard break at the end, one kind of bullet, and people
\* named the way Slack stores them.
ComparableLine(line) ==
  LET Of(bare) == AsSlackWritesIt(bare, Indent(bare) + 1)
  IN Of(WithoutHardBreak(RightStripped(line)))

\* An item's text once its marker is taken off.
Unescaped(text) ==
  IF HeadOf(text) \in DOMAIN EscapedMarkers THEN [text EXCEPT ![1] = EscapedMarkers[@]] ELSE text

\* _comparable_list: each item under as many indents as it has items above it.
ComparableList(block) ==
  LET tabs(indents) == [n \in DOMAIN indents |-> "tab"]
      item(c, above, indent, words) ==
        [indents |-> Append(above, indent),
         lines |-> Append(c.lines, tabs(above) \o <<words[1]>> \o Unescaped(Tail(words)))]
      read(c, indent, words) ==
        IF words = <<>> THEN c
        ELSE IF words[1] \notin Markers
        THEN [c EXCEPT !.lines = Append(@, tabs(c.indents) \o words)]
        ELSE item(c, SelectSeq(c.indents, LAMBDA i : i < indent), indent, words)
      next(c, line) == read(c, Indent(line), LeftStripped(line))
  IN FoldLeft(LAMBDA c, raw : next(c, ComparableLine(raw)),
              [indents |-> <<>>, lines |-> <<>>], block).lines

HoldsAFence(block) == \E n \in DOMAIN block : HeadOf(Stripped(block[n])) = "code"

\* A block that shows nothing: SEPARATOR_TEXTS.
IsBlank(block) ==
  LET words == Concat([n \in DOMAIN block |-> Stripped(block[n])])
  IN words = <<>> \/ words = <<"&nbsp;">>

\* comparable_block; <<>>: it reads as nothing.
ComparableBlock(block) ==
  LET kept(c, next, line, code) ==
        [at |-> next, lines |-> IF code \/ LeftStripped(line) # <<>> THEN Append(c.lines, line)
                                ELSE c.lines]
      read(c, next, line) ==
        IF ~c.at.code /\ ~next.code THEN kept(c, next, ComparableLine(line), FALSE)
        ELSE kept(c, next, IF c.at.code /\ next.code THEN line ELSE RightStripped(line), TRUE)
  IN IF IsBlank(block) THEN <<>>
     ELSE IF IsAList(block) /\ ~HoldsAFence(block) THEN ComparableList(block)
     ELSE FoldLeft(LAMBDA c, line : read(c, Fenced(c.at, line), line),
                   [at |-> Outside, lines |-> <<>>], block).lines

Reads(raws) == Evaluated([n \in DOMAIN raws |-> ComparableBlock(raws[n])])

ComparableBlocks(text) ==
  SelectSeq(Reads(CanvasBlocks(text)), LAMBDA b : b # <<>>)

ComparableText(text) == BlocksText(ComparableBlocks(text))

------------------------------------------------------------------------------
(* A canvas by section                                                       *)

StampBlock == <<<<"stamp">>>>

\* _last_stamp_at; 0: none.
LastStampAt(raws) ==
  LET at == {n \in DOMAIN raws : Len(raws[n]) = 1 /\ HeadOf(raws[n][1]) = "stamp"}
  IN IF at = {} THEN 0 ELSE CHOOSE n \in at : \A m \in at : m <= n

\* Each block with its section and its role, by what it reads as.
KeyedWith(raws, reads, shape) ==
  LET aligned == SelectSeq([n \in DOMAIN raws |-> n], LAMBDA n : reads[n] # <<>>)
      Blocks(keyed) ==
        [n \in DOMAIN raws |->
           [raw |-> raws[n], key |-> keyed[n][1],
            role |-> IF keyed[n][2] = "unaligned" THEN "blank" ELSE keyed[n][2]]]
  IN Blocks(KeyedUnits(Found(shape, reads, aligned), shape.fallback, Len(raws)))

\* _Keying.content
KeyedContent(raws, layout) ==
  KeyedWith(raws, Reads(raws), LayoutOf(layout, ComparableBlocks))

\* keyed_canvas
KeyedCanvas(raws, layout) ==
  LET at == LastStampAt(raws)
      end == IF at = 0 THEN Len(raws) ELSE at - 1
      below(n) == [raw |-> raws[n], key |-> "", role |-> IF n = at THEN "stamp" ELSE "below"]
      content == KeyedContent(SubSeq(raws, 1, end), layout)
  IN [blocks |-> content \o [n \in 1..(Len(raws) - end) |-> below(end + n)],
      end |-> end, stamped |-> at # 0]

RawOf(blocks) == [n \in DOMAIN blocks |-> blocks[n].raw]
Body(keyed) == RawOf(keyed.blocks)

\* KeyedCanvas.raw_sections, in the order they are met.
RawSections(keyed) ==
  LET content == SubSeq(keyed.blocks, 1, keyed.end)
      keys == FoldLeft(LAMBDA done, b : IF b.key \in ToSet(done) THEN done ELSE Append(done, b.key),
                       <<>>, content)
  IN [n \in DOMAIN keys |->
        [key |-> keys[n], text |-> BlocksText(RawOf(SelectSeq(content, LAMBDA b : b.key = keys[n])))]]

\* KeyedCanvas.sections
SectionsOf(keyed) ==
  LET raw == RawSections(keyed)
  IN SelectSeq([n \in DOMAIN raw |-> [raw[n] EXCEPT !.text = ComparableText(@)]],
               LAMBDA s : s.text # <<>>)

TextAt(sections, key) == Concat([n \in DOMAIN sections |->
                           IF sections[n].key = key THEN sections[n].text ELSE <<>>])

\* _owned_spans: where a section stands block for block as it was saved, with
\* nothing but blanks in it.
OwnedSpans(keyed, rendered, saved) ==
  LET held(k) == {n \in DOMAIN keyed : keyed[n].key = k /\ keyed[n].role = "published"}
      first(k) == CHOOSE n \in held(k) : \A m \in held(k) : n <= m
      last(k) == CHOOSE n \in held(k) : \A m \in held(k) : m <= n
      whole(s) == LET k == saved[s].key
                  IN /\ held(k) # {}
                     /\ Cardinality(held(k)) = Len(ComparableBlocks(saved[s].text))
                     /\ \A n \in first(k)..last(k) : keyed[n].role \in {"published", "blank"}
                     /\ \E n \in DOMAIN TextAt(rendered, k) : TextAt(rendered, k)[n] # <<>>
  IN {[first |-> first(saved[s].key), last |-> last(saved[s].key), key |-> saved[s].key] :
        s \in {r \in DOMAIN saved : whole(r)}}

\* in_the_markdown_skaldr_wrote: those sections as skaldr rendered them, the
\* rest as Slack stores it.
InTheMarkdownSkaldrWrote(keyed, rendered, saved) ==
  LET content == SubSeq(keyed.blocks, 1, keyed.end)
      blocks(texts, key) ==
        [t \in DOMAIN texts |-> [raw |-> texts[t], key |-> key, role |-> "published"]]
      sent(n, span) ==
        IF n # span.first THEN <<>>
        ELSE blocks(CanvasBlocks(TextAt(rendered, span.key)), content[n].key)
      at(n, over) == IF over = {} THEN <<content[n]>> ELSE sent(n, CHOOSE s \in over : TRUE)
      With(spans) == [n \in DOMAIN content |->
                        at(n, {s \in spans : s.first <= n /\ n <= s.last})]
      Swapped(whole) ==
        [keyed EXCEPT !.blocks = whole \o SubSeq(@, keyed.end + 1, Len(@)), !.end = Len(whole)]
  IN Swapped(Concat(With(OwnedSpans(KeyedContent(RawOf(content), saved), rendered, saved))))

------------------------------------------------------------------------------
(* Bodies                                                                    *)

\* _as_slack_takes_it_back: a blank paragraph is sent as &nbsp;, and the text of
\* an item must not begin a list of its own.
AsSlackTakesItBack(raw) ==
  LET escaped(w) == CHOOSE m \in DOMAIN EscapedMarkers : EscapedMarkers[m] = (IF w \in Bullets THEN "-" ELSE w)
      itemAt(line, at) == IF at < Len(line) /\ {line[at], line[at + 1]} \subseteq Markers
                          THEN [line EXCEPT ![at + 1] = escaped(@)] ELSE line
      item(line) == itemAt(line, Indent(line) + 1)
  IN IF IsBlank(raw) THEN ListSeparator
     ELSE IF ~IsAList(raw) THEN raw ELSE [n \in DOMAIN raw |-> item(raw[n])]

\* canvas_body: two lists in a row are kept apart, and a body is never empty.
CanvasBody(raws) ==
  LET space(done, sent) ==
        done \o (IF done # <<>> /\ IsAList(done[Len(done)]) /\ IsAList(sent)
                 THEN <<ListSeparator>> ELSE <<>>) \o <<sent>>
      sent(blocks) == BlocksText(IF blocks = <<>> THEN <<ListSeparator>> ELSE blocks)
  IN sent(FoldLeft(LAMBDA done, raw : space(done, AsSlackTakesItBack(raw)), <<>>, raws))

\* position_after: behind the last block of the nearest of these sections.
PositionAfter(keyed, keys) ==
  LET held == {n \in 1..keyed.end : keyed.blocks[n].key \in ToSet(keys)}
      nearest == CHOOSE k \in DOMAIN keys :
        /\ \E n \in held : keyed.blocks[n].key = keys[k]
        /\ \A j \in (k + 1)..Len(keys) : \A n \in held : keyed.blocks[n].key # keys[j]
      ofIt == {n \in held : keyed.blocks[n].key = keys[nearest]}
  IN IF held = {} THEN 1 ELSE 1 + CHOOSE n \in ofIt : \A m \in ofIt : m <= n

\* body_with_content_swapped: without the blocks `old`, and with the text's in
\* front of the block that stood at `at`.
BodyWithContentSwapped(keyed, old, at, text) ==
  LET part(from, to) == LET ns == SelectSeq([n \in 1..(to - from + 1) |-> from + n - 1],
                                            LAMBDA n : n \notin old)
                        IN [i \in DOMAIN ns |-> keyed.blocks[ns[i]].raw]
  IN part(1, at - 1) \o CanvasBlocks(text) \o part(at, Len(keyed.blocks))

WithTheStampLine(keyed, raws) == IF keyed.stamped THEN raws ELSE Append(raws, StampBlock)

------------------------------------------------------------------------------
(* The canvas, and what is done to it                                       *)

CONSTANTS
  Drafts,    \* the contents that may be published: sequences of [key, text]
  Additions, \* the blocks people may add
  MaxEdits,  \* bound: what people do
  MaxWrites  \* bound: writes

VARIABLES
  canvas,    \* the body, block by block, as Slack stores it
  rendered,  \* the sections as skaldr last sent them
  saved,     \* and as it read them back
  touched,   \* the sections people changed since
  told,      \* how the last operation went, and on which section
  edits, writes

vars == <<canvas, rendered, saved, touched, told, edits, writes>>

------------------------------------------------------------------------------
(* Slack                                                                     *)

Merged(blocks) ==
  FoldLeft(LAMBDA done, b :
             IF done # <<>> /\ IsAList(done[Len(done)]) /\ IsAList(b)
             THEN [done EXCEPT ![Len(done)] = @ \o b] ELSE Append(done, b),
           <<>>, blocks)

StoredWord(w) == CASE w = "\\a" -> "*a" [] w = "*a" -> "styled a" [] w = "![](@U)" -> "<@U>"
                   [] w \in DOMAIN EscapedMarkers -> EscapedMarkers[w] [] OTHER -> w

\* A marker at the head of an item's text begins a list in the item.
StoredLine(line) ==
  LET stored(at, item) ==
        [n \in DOMAIN line |->
           IF n = at /\ item THEN (IF line[n] \in Bullets THEN "*" ELSE line[n])
           ELSE IF n = at + 1 /\ item /\ line[n] \in Markers THEN "nested"
           ELSE StoredWord(line[n])]
  IN stored(Indent(line) + 1, HeadOf(LeftStripped(line)) \in Markers)

StoredBlock(block) ==
  IF IsBlank(block) THEN <<<<"nbsp">>>>
  ELSE IF HoldsAFence(block) THEN block
  ELSE [n \in DOMAIN block |-> StoredLine(block[n])]

\* A paragraph of blanks that is not &nbsp; is dropped.
Stored(text) ==
  LET blocks == SelectSeq(CanvasBlocks(text), LAMBDA b : ~IsBlank(b) \/ b = ListSeparator)
  IN Merged([n \in DOMAIN blocks |-> StoredBlock(blocks[n])])

\* canvas_markdown_of
MarkdownOf(texts) ==
  LET some == SelectSeq(texts, LAMBDA t : t # <<>>) IN BlocksText(some)

TextsOf(sections) == [n \in DOMAIN sections |-> sections[n].text]

Shown(draft) == SelectSeq(draft, LAMBDA s : s.text # <<>>)
Comparable(draft) ==
  SelectSeq([n \in DOMAIN draft |-> [draft[n] EXCEPT !.text = ComparableText(@)]],
            LAMBDA s : s.text # <<>>)

Init ==
  \E draft \in Drafts :
    /\ canvas = Stored(MarkdownOf(Append(TextsOf(draft), StampBlock)))
    /\ rendered = Shown(draft)
    /\ saved = SectionsOf(KeyedCanvas(canvas, Comparable(draft)))
    /\ touched = {} /\ told = [how |-> "written", key |-> ""]
    /\ edits = 0 /\ writes = 0

------------------------------------------------------------------------------
(* People                                                                    *)

Read == KeyedCanvas(canvas, saved)

\* Where two lists meet, Slack makes them one.
Edit(blocks, keys) ==
  LET meet == {n \in 1..(Len(blocks) - 1) : IsAList(blocks[n].raw) /\ IsAList(blocks[n + 1].raw)}
  IN /\ edits < MaxEdits /\ edits' = edits + 1 /\ told.how # "released"
     /\ canvas' = Merged(RawOf(blocks))
     /\ touched' = touched \cup keys \cup {blocks[n].key : n \in meet \cup {m + 1 : m \in meet}}
     /\ told' = [how |-> "edited", key |-> ""]
     /\ UNCHANGED <<rendered, saved, writes>>

\* In front of a section's first block: in that section; else where it stands.
SectionAt(keyed, n) ==
  LET below == {m \in n..keyed.end : keyed.blocks[m].role # "blank"}
  IN IF n > keyed.end + 1 THEN ""
     ELSE IF below # {} THEN keyed.blocks[CHOOSE m \in below : \A k \in below : m <= k].key
     ELSE IF saved = <<>> THEN Unkeyed ELSE saved[Len(saved)].key

AddBlock ==
  \E keyed \in {Read} : \E n \in 1..(Len(keyed.blocks) + 1), text \in Additions :
    LET at == SectionAt(keyed, n)
    IN Edit(SubSeq(keyed.blocks, 1, n - 1) \o <<[raw |-> text, key |-> at, role |-> "added"]>>
              \o SubSeq(keyed.blocks, n, Len(keyed.blocks)), {at})

\* Without its stamp, what stands below the content belongs to it.
DeleteBlock ==
  \E keyed \in {Read} : \E n \in DOMAIN keyed.blocks :
    Edit(SubSeq(keyed.blocks, 1, n - 1) \o SubSeq(keyed.blocks, n + 1, Len(keyed.blocks)),
         IF keyed.blocks[n].role # "stamp" THEN {keyed.blocks[n].key}
         ELSE {s.key : s \in ToSet(saved)} \cup {Unkeyed})

EditBlock ==
  \E keyed \in {Read} : \E n \in DOMAIN keyed.blocks :
    LET raw == keyed.blocks[n].raw
    IN /\ keyed.blocks[n].role \notin {"stamp", "blank"}
       /\ Edit([keyed.blocks EXCEPT ![n].raw[1] = Append(@, "y")], {keyed.blocks[n].key})

------------------------------------------------------------------------------
(* skaldr                                                                    *)

ReadAgain(read) == KeyedCanvas(canvas, RawSections(read))
AsSkaldrWroteIt(keyed) == InTheMarkdownSkaldrWrote(keyed, rendered, saved)

Busy == writes < MaxWrites /\ writes' = writes + 1 /\ UNCHANGED edits /\ told.how # "released"
Refused == told' = [how |-> "changed", key |-> ""] /\ UNCHANGED <<canvas, rendered, saved, touched>>

\* _replace_body
ReplaceBody(raws) == canvas' = Stored(CanvasBody(raws))

\* The draft's sections with one of them as it now is: with_parts.
WithSection(sections, draft, key, text) ==
  SelectSeq([n \in DOMAIN draft |->
               [key |-> draft[n].key,
                text |-> IF draft[n].key = key THEN text ELSE TextAt(sections, draft[n].key)]],
            LAMBDA s : s.text # <<>>)

\* write_section; no text: the section goes.
WriteSection ==
  /\ Busy
  /\ \E read \in {Read} : \E again \in {ReadAgain(read)} : \E current \in {RawSections(again)} :
     IF current # RawSections(read) THEN Refused
     ELSE \E keyed \in {AsSkaldrWroteIt(again)} : \E draft \in Drafts : \E n \in DOMAIN draft :
       LET key == draft[n].key
           text == draft[n].text
           before == SelectSeq([m \in 1..(n - 1) |-> draft[m].key],
                               LAMBDA k : TextAt(current, k) # <<>>)
           old == {m \in 1..keyed.end : keyed.blocks[m].key = key}
           body == BodyWithContentSwapped(keyed, old, PositionAfter(keyed, before), text)
       IN /\ ReplaceBody(WithTheStampLine(keyed, body))
          /\ \E now \in {SectionsOf(KeyedCanvas(canvas', WithSection(current, draft, key, text)))} :
               saved' = WithSection(saved, draft, key, TextAt(now, key))
          /\ rendered' = WithSection(rendered, draft, key, text)
          /\ touched' = touched \ {key}
          /\ told' = [how |-> "written", key |-> key]

\* write_content
WriteContent ==
  /\ Busy
  /\ \E read \in {Read} : \E keyed \in {ReadAgain(read)} : \E draft \in Drafts :
       IF RawSections(keyed) # RawSections(read) THEN Refused
       ELSE /\ ReplaceBody(WithTheStampLine(keyed, BodyWithContentSwapped(keyed, 1..keyed.end, 1,
                 MarkdownOf(TextsOf(draft)))))
            /\ saved' = SectionsOf(KeyedCanvas(canvas', Shown(draft)))
            /\ rendered' = Shown(draft) /\ touched' = {}
            /\ told' = [how |-> "written", key |-> ""]

\* write_links, and write_fields on a canvas that lost its stamp.
WriteStamp ==
  /\ Busy
  /\ \E keyed \in {AsSkaldrWroteIt(ReadAgain(Read))} :
       ReplaceBody(WithTheStampLine(keyed, Body(keyed)))
  /\ told' = [how |-> "stamped", key |-> ""]
  /\ UNCHANGED <<rendered, saved, touched>>

\* release_item: what is as published goes, and so do blanks and the stamp.
ReleaseItem ==
  /\ Busy
  /\ \E read \in {Read} :
       LET kept == SelectSeq(read.blocks, LAMBDA b : b.role \notin {"published", "blank", "stamp"})
       IN IF RawSections(ReadAgain(read)) # RawSections(read) THEN Refused
          ELSE /\ IF kept = read.blocks THEN UNCHANGED canvas ELSE ReplaceBody(RawOf(kept))
               /\ told' = [how |-> "released", key |-> ""]
               /\ UNCHANGED <<rendered, saved, touched>>

Next == \/ AddBlock \/ DeleteBlock \/ EditBlock
        \/ WriteSection \/ WriteContent \/ WriteStamp \/ ReleaseItem

Spec == Init /\ [][Next]_vars

------------------------------------------------------------------------------
(* Properties                                                                *)

Keys == {"one", "two", "three"}
WordsOf(blocks) == UNION {ToSet(l) : l \in UNION {ToSet(b) : b \in ToSet(blocks)}}

TypeOK ==
  /\ told.how \in {"written", "edited", "changed", "stamped", "released"}
  /\ {s.key : s \in ToSet(rendered)} \subseteq Keys
  /\ {s.key : s \in ToSet(saved)} = {s.key : s \in ToSet(rendered)}
  /\ touched \subseteq Keys \cup {"", Unkeyed}

\* A section nobody changed reads as it was saved, whatever was written or added
\* around it (in_the_markdown_skaldr_wrote, canvas_body).
UntouchedReadsAsSaved ==
  told.how # "released" =>
    \E reads \in {ToSet(SectionsOf(Read))} :
      \A s \in ToSet(saved) : s.key \in touched \/ s \in reads

\* What is sent back never makes markup of text skaldr wrote, in a section
\* nobody changed (in_the_markdown_skaldr_wrote).
NothingIsRestyled ==
  told.how # "released" =>
    \A s \in ToSet(RawSections(Read)) : \A n \in DOMAIN s.text :
      s.key \in Keys \ touched => "styled a" \notin ToSet(s.text[n])

\* Nor does an item's text begin a list of its own, whoever changed the section
\* (_as_slack_takes_it_back).
NoItemBecomesAList == "nested" \notin WordsOf(canvas)

\* A section that was written reads as it would on a canvas of its own.
WrittenReadsAlone ==
  told.how = "written" /\ told.key # "" =>
    LET blocks == Stored(TextAt(rendered, told.key))
    IN TextAt(saved, told.key) = ComparableText(BlocksText(blocks))

\* A write compares the canvas with the run's read of it: unchanged, it is
\* never refused as changed.
UnchangedIsNotRefused == told.how # "changed"

Xs(blocks) == Concat([n \in DOMAIN blocks |->
                SelectSeq(Concat(blocks[n]), LAMBDA w : w = "x")])

\* A write of one section or of the stamp, and a release, take nothing people
\* added to the sections it does not write.
KeepsPeoplesBlocks ==
  told'.how \in {"stamped", "released"} \/ (told'.how = "written" /\ told'.key \notin touched \cup {""})
    => Len(Xs(canvas')) >= Len(Xs(canvas))

==============================================================================
