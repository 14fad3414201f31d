----------------------------- MODULE NotionText ------------------------------
(***************************************************************************)
(* A Notion page's Markdown: as skaldr reads it, without comment markers,  *)
(* normalised the way Notion normalises it, in lines, each keyed by the    *)
(* section it belongs to; and the replacements skaldr asks Notion for:     *)
(* `old`, which has to stand on the page exactly once, becomes `new`.  Each*)
(* quotes as little as it can and as much as finds it once.                *)
(*                                                                         *)
(* A text is a sequence of words; "nl" ends a line and "tab" indents one.  *)
(* Sections are a sequence of [key, text]; no text is <<>>.                *)
(***************************************************************************)
EXTENDS Integers, Sequences, SequencesExt, Keying

\* LINE_INSIDE_A_BLOCK
Inside == {"<td>", "</table>", "</callout>"}
ChildPages == {"<page 1>", "<page 2>"}
StampWord == "stamp"
EmptyBlock == "<empty-block/>"
UnknownBlock == "<unknown>"

\* Span openings: of a comment, of a colour, of both; and the closing.
Comment == "<span comment>"
Colour == "<span colour>"
CommentAndColour == "<span comment colour>"
Closing == "</span>"

EndsALine(text) == text # <<>> /\ text[Len(text)] = "nl"

------------------------------------------------------------------------------
(* Comment markers                                                           *)

\* _SpanEdits: each closing closes the last span still open; a comment's
\* opening goes when its closing does.
SpanEdits(text) ==
  FoldLeft(LAMBDA e, n :
             CASE text[n] = Comment -> [e EXCEPT !.open = Append(@, n)]
               [] text[n] \in {Colour, CommentAndColour} -> [e EXCEPT !.open = Append(@, 0)]
               [] text[n] = Closing /\ e.open # <<>> ->
                    [open |-> Front(e.open),
                     gone |-> IF e.open[Len(e.open)] = 0 THEN e.gone
                              ELSE e.gone \cup {n, e.open[Len(e.open)]}]
               [] OTHER -> e,
           [open |-> <<>>, gone |-> {}], [n \in DOMAIN text |-> n])

WithoutCommentMarkers(text) ==
  LET gone == SpanEdits(text).gone
      kept == SelectSeq([n \in DOMAIN text |-> n], LAMBDA n : n \notin gone)
  IN Evaluated([i \in DOMAIN kept |->
                  IF text[kept[i]] = CommentAndColour THEN Colour ELSE text[kept[i]]])

HoldsAnUnknownBlock(text) == UnknownBlock \in ToSet(text)

------------------------------------------------------------------------------
(* Lines                                                                     *)

\* _raw_lines: each with its "nl"; the last may be without.
RawLines(text) ==
  LET cut == FoldLeft(LAMBDA c, w :
                        IF w = "nl" THEN [done |-> Append(c.done, Append(c.line, w)), line |-> <<>>]
                        ELSE [c EXCEPT !.line = Append(@, w)],
                      [done |-> <<>>, line |-> <<>>], text)
  IN IF cut.line = <<>> THEN cut.done ELSE Append(cut.done, cut.line)

Bare(raw) == IF EndsALine(raw) THEN Front(raw) ELSE raw

LeftStripped(line) ==
  LET shown == {n \in DOMAIN line : line[n] # "tab"}
  IN IF shown = {} THEN <<>>
     ELSE SubSeq(line, CHOOSE n \in shown : \A m \in shown : n <= m, Len(line))

Stripped(line) == Reverse(LeftStripped(Reverse(LeftStripped(line))))
Indented(line) == line # <<>> /\ line[1] = "tab"

\* _Normaliser: where the reading of lines stands.
Start == [closer |-> "", indentedFence |-> FALSE, inTable |-> FALSE]
AtBlockLevel(at) == at.closer = "" /\ ~at.inTable

\* notion_fence_closer
Opens(stripped) ==
  IF stripped = <<"math">> THEN "math" ELSE IF stripped[1] = "code" THEN "code" ELSE ""

\* The line as Notion keeps it, if it keeps it, and where the reading stands
\* after it.
NormalisedLine(at, line, stripped) ==
  LET closes == stripped = <<at.closer>>
      keeps(text, next) == [kept |-> TRUE, text |-> text, at |-> next]
  IN IF at.closer # "" THEN
       keeps(IF ~at.indentedFence THEN line ELSE IF closes THEN stripped ELSE LeftStripped(line),
             [at EXCEPT !.closer = IF closes THEN "" ELSE @])
     ELSE IF stripped = <<>> THEN [kept |-> FALSE, text |-> <<>>, at |-> at]
     ELSE IF at.inTable \/ stripped[1] = "<table>" THEN
       keeps(stripped, [at EXCEPT !.inTable = stripped # <<"</table>">>])
     ELSE keeps(line, [closer |-> Opens(stripped), inTable |-> FALSE,
                       indentedFence |-> Opens(stripped) # "" /\ Indented(line)])

\* _Normaliser.line
Normalised(at, line) == NormalisedLine(at, line, Stripped(line))

\* _page_lines: what each line reads as, and whether it stands at the top level.
PageLines(text) ==
  LET Line(done, raw, bare, read) ==
        [at |-> read.at,
         lines |-> Append(done.lines,
                     [raw |-> raw, kept |-> read.kept, text |-> read.text,
                      top |-> AtBlockLevel(done.at) /\ ~Indented(bare)])]
      Next(done, raw, bare) == Line(done, raw, bare, Normalised(done.at, bare))
  IN FoldLeft(LAMBDA done, raw : Next(done, raw, WithoutCommentMarkers(Bare(raw))),
              [at |-> Start, lines |-> <<>>], RawLines(text)).lines

IsEmptyBlock(line) == Stripped(line) = <<EmptyBlock>>

\* comparable_text, of lines that end with what shows something.
UpToTheLastShown(kept, shown) ==
  SubSeq(kept, 1, IF shown = {} THEN 0 ELSE CHOOSE n \in shown : \A m \in shown : m <= n)
WithoutTrailingEmptyBlocks(kept) ==
  UpToTheLastShown(kept, {n \in DOMAIN kept : ~IsEmptyBlock(kept[n])})

\* The lines of comparable_text.
ComparableLines(text) ==
  LET Next(lines, read) ==
        [at |-> read.at, lines |-> IF read.kept THEN Append(lines, read.text) ELSE lines]
  IN WithoutTrailingEmptyBlocks(
       FoldLeft(LAMBDA done, raw : Next(done.lines, Normalised(done.at, Bare(raw))),
                [at |-> Start, lines |-> <<>>], RawLines(text)).lines)

LinesAsText(lines) == Concat([n \in DOMAIN lines |-> Append(lines[n], "nl")])
ComparableText(text) == LinesAsText(ComparableLines(text))

\* joined: a piece that is not the last starts the next on a line of its own.
Joined(pieces) ==
  LET present == SelectSeq(pieces, LAMBDA p : p # <<>>)
  IN Concat([n \in DOMAIN present |->
               IF n = Len(present) \/ EndsALine(present[n]) THEN present[n]
               ELSE Append(present[n], "nl")])

IsChild(line) == line.top /\ line.kept /\ \E c \in ChildPages : Stripped(line.text) = <<c>>
IsStamp(line) == line.top /\ line.kept /\ line.text[1] = StampWord
Aligns(line) == line.kept /\ ~IsChild(line)
StartsABlock(line) == /\ line.top /\ line.kept
                      /\ Stripped(line.text) # <<>> /\ Stripped(line.text)[1] \notin Inside

------------------------------------------------------------------------------
(* Lines by section                                                          *)

\* _last_stamp_at; 0: there is none.
LastStampAt(lines) ==
  LET at == {n \in DOMAIN lines : IsStamp(lines[n])}
  IN IF at = {} THEN 0 ELSE CHOOSE n \in at : \A m \in at : m <= n

\* _comparable_lines
LinesToMatch(text) == ComparableLines(WithoutCommentMarkers(text))

\* Every line of the page with its section, its role and the number of the
\* block it belongs to.
LinesWith(keyed, lines, stampAt, end) ==
  LET role(n) == IF n > end THEN (IF n = stampAt THEN "stamp" ELSE "below")
                 ELSE IF keyed[n][2] # "unaligned" THEN keyed[n][2]
                 ELSE IF IsChild(lines[n]) THEN "child" ELSE "blank"
  IN Evaluated([n \in DOMAIN lines |->
        [line |-> lines[n], role |-> role(n),
         key |-> IF n > end THEN "" ELSE keyed[n][1],
         block |-> Cardinality({m \in 1..n : StartsABlock(lines[m]) \/ m = stampAt})]])

PlacedBetween(lines, shape, stampAt, end) ==
  LET aligned == SelectSeq([n \in 1..end |-> n], LAMBDA n : Aligns(lines[n]))
      found == Found(shape, [n \in DOMAIN lines |-> lines[n].text], aligned)
  IN LinesWith(KeyedUnits(found, shape.fallback, end), lines, stampAt, end)

\* _placed_lines
PlacedLines(text, layout) ==
  LET Upto(lines, stampAt) ==
        PlacedBetween(lines, LayoutOf(layout, LinesToMatch), stampAt,
                      IF stampAt = 0 THEN Len(lines) ELSE stampAt - 1)
      Of(lines) == Upto(lines, LastStampAt(lines))
  IN Of(PageLines(text))

\* The text of each section, in the order they are met: as it stands, and as it
\* reads; the stamp's line; and the child pages.
PageOf(placed, mine, keys) ==
  LET raw(lines) == Concat([n \in DOMAIN lines |-> lines[n].line.raw])
      of(k) == SelectSeq(mine, LAMBDA p : p.key = k)
      reads(k) == ComparableText(WithoutCommentMarkers(
                    raw(SelectSeq(of(k), LAMBDA p : p.role # "child"))))
  IN [raw |-> [n \in DOMAIN keys |-> [key |-> keys[n], text |-> raw(of(keys[n]))]],
      sections |-> SelectSeq([n \in DOMAIN keys |-> [key |-> keys[n], text |-> reads(keys[n])]],
                             LAMBDA s : s.text # <<>>),
      stamp |-> raw(SelectSeq(placed, LAMBDA p : p.role = "stamp")),
      children |-> Concat([n \in DOMAIN placed |->
                 IF IsChild(placed[n].line) THEN Stripped(placed[n].line.text) ELSE <<>>])]

\* keyed_page
KeyedPage(text, layout) ==
  LET By(placed, mine) ==
        PageOf(placed, mine,
               FoldLeft(LAMBDA done, p : IF p.key \in ToSet(done) THEN done ELSE Append(done, p.key),
                        <<>>, mine))
      Of(placed) == By(placed, SelectSeq(placed, LAMBDA p : p.key # ""))
  IN Of(PlacedLines(text, layout))

------------------------------------------------------------------------------
(* The replacements                                                         *)

Replacement(old, new, quoted) == [old |-> old, new |-> new, quoted |-> quoted]
NoReplacement == Replacement(<<>>, <<>>, {})

TextsOf(pairs) == [n \in DOMAIN pairs |-> pairs[n].text]
KeysOf(pairs) == {pairs[n].key : n \in DOMAIN pairs}
TextAt(pairs, key) == Concat(TextsOf(SelectSeq(pairs, LAMBDA p : p.key = key)))

StandsAt(page, text, i) ==
  i + Len(text) - 1 <= Len(page) /\ \A n \in DOMAIN text : page[i + n - 1] = text[n]

\* str.count: how often text stands on the page without overlapping itself.
CountIn(page, text) ==
  FoldLeft(LAMBDA c, i : IF i >= c.from /\ StandsAt(page, text, i)
                         THEN [n |-> c.n + 1, from |-> i + Len(text)] ELSE c,
           [n |-> 0, from |-> 1], [i \in DOMAIN page |-> i]).n

FindIn(page, text) == CHOOSE i \in DOMAIN page :
  StandsAt(page, text, i) /\ \A j \in 1..(i - 1) : ~StandsAt(page, text, j)

FoundOnceAt(page, text, at) == CountIn(page, text) = 1 /\ FindIn(page, text) = at

\* str.replace(old, new, 1)
Replaced(page, r) ==
  IF CountIn(page, r.old) = 0 THEN page
  ELSE LET i == FindIn(page, r.old)
       IN SubSeq(page, 1, i - 1) \o r.new \o SubSeq(page, i + Len(r.old), Len(page))

Shows(text) == \E n \in DOMAIN text : text[n] \notin {"nl", "tab"}

\* _quotable
Quotable(line, withMarkers) ==
  /\ ~HoldsAnUnknownBlock(line)
  /\ withMarkers \/ ToSet(line) \cap {Comment, CommentAndColour} = {}

------------------------------------------------------------------------------
(* Child pages                                                               *)

\* The child references of a section, and how many lines stand above each.
ChildrenIn(raw) ==
  FoldLeft(LAMBDA c, line :
             IF IsChild(line)
             THEN [c EXCEPT !.found = Append(@, [above |-> c.above, raw |-> Append(Bare(line.raw), "nl")])]
             ELSE [c EXCEPT !.above = IF line.kept THEN @ + 1 ELSE @],
           [above |-> 0, found |-> <<>>], PageLines(raw)).found

\* Mutant: no child is placed below the last line.
CarriedAbove(raw, text) ==
  LET lines == RawLines(text)
      children == ChildrenIn(raw)
      here(n) == SelectSeq(children, LAMBDA c : c.above = n - 1)
  IN Joined(Concat([n \in DOMAIN lines |->
                      [c \in DOMAIN here(n) |-> here(n)[c].raw] \o <<lines[n]>>]))

\* The new text with the children of the old one, each at the first place
\* between two blocks that has as many lines above it.
Carried(lines, children, text) ==
  LET boundary(n) == n = Len(lines) + 1
                     \/ LET before == FoldLeft(LAMBDA at, l : Normalised(at, Bare(l)).at, Start,
                                               SubSeq(lines, 1, n - 1))
                        IN AtBlockLevel(before) /\ ~Indented(lines[n])
      place(c) == CHOOSE n \in 1..(Len(lines) + 1) :
                    LET fits(m) == boundary(m) /\ (c.above <= m - 1 \/ m = Len(lines) + 1)
                    IN fits(n) /\ \A m \in 1..(n - 1) : ~fits(m)
      here(n) == SelectSeq(children, LAMBDA c : place(c) = n)
  IN IF children = <<>> THEN text
     ELSE Joined(Concat([n \in 1..(Len(lines) + 1) |->
                           [c \in DOMAIN here(n) |-> here(n)[c].raw]
                           \o IF n \in DOMAIN lines THEN <<lines[n]>> ELSE <<>>]))

\* carried_into
CarriedInto(raw, text) == Carried(RawLines(text), ChildrenIn(raw), text)

\* _with_children_of_removed_sections: they stay at the end of the section
\* before it that stays, else at the head of the next one.
WithChildrenOfRemovedSections(current, after) ==
  LET gone == SelectSeq([n \in DOMAIN current |-> n],
                        LAMBDA n : current[n].key \notin KeysOf(after))
      order(n) == [m \in 1..(n - 1) |-> current[n - m].key]
      next(n) == [m \in 1..(Len(current) - n) |-> current[n + m].key]
                 \o [m \in DOMAIN after |-> after[m].key]
      staying(keys) == SelectSeq(keys, LAMBDA k : k \in KeysOf(after))
      put(texts, key, T(_)) == [m \in DOMAIN texts |->
        IF texts[m].key = key THEN [texts[m] EXCEPT !.text = T(@)] ELSE texts[m]]
      moved(texts, n) ==
        LET children == CarriedInto(current[n].text, <<>>)
        IN IF children = <<>> THEN texts
           ELSE IF staying(order(n)) # <<>>
           THEN put(texts, staying(order(n))[1], LAMBDA t : Joined(<<t, children>>))
           ELSE IF staying(next(n)) # <<>>
           THEN put(texts, staying(next(n))[1], LAMBDA t : Joined(<<children, t>>))
           ELSE texts
  IN FoldLeft(moved, after, gone)

------------------------------------------------------------------------------
(* Sections                                                                  *)

\* The lengths of what two sequences of sections begin and end with alike.
CommonPrefix(a, b) ==
  CHOOSE n \in 0..Len(a) :
    LET alike(m) == m <= Len(b) /\ SubSeq(a, 1, m) = SubSeq(b, 1, m)
    IN alike(n) /\ (n = Len(a) \/ ~alike(n + 1))

CommonSuffix(a, b, prefix) ==
  LET room == (IF Len(a) < Len(b) THEN Len(a) ELSE Len(b)) - prefix
      alike == CommonPrefix(Reverse(a), Reverse(b))
  IN IF alike < room THEN alike ELSE room

\* Where the n-th section begins on the page.
OffsetOf(current, n) == Len(Joined(Append(TextsOf(SubSeq(current, 1, n - 1)), <<"end">>)))

\* The fewest lines at one end of a section that the page holds once, there;
\* <<>>: none.
EdgeOf(lines, text, offset, page, fromTheEnd, withMarkers) ==
  LET taken(n) == IF fromTheEnd THEN SubSeq(lines, Len(lines) - n + 1, Len(lines))
                  ELSE SubSeq(lines, 1, n)
      at(n) == IF fromTheEnd THEN offset + Len(text) - Len(Concat(taken(n))) ELSE offset
      good(n) == /\ \A l \in DOMAIN taken(n) : Quotable(taken(n)[l], withMarkers)
                 /\ Shows(Concat(taken(n)))
                 /\ FoundOnceAt(page, Concat(taken(n)), at(n))
      Least(sizes) == IF sizes = {} THEN <<>>
                      ELSE Concat(taken(CHOOSE n \in sizes : \A m \in sizes : n <= m))
  IN Least({n \in DOMAIN lines : good(n)})

\* _unique_edge
UniqueEdge(text, offset, page, fromTheEnd, withMarkers) ==
  EdgeOf(RawLines(text), text, offset, page, fromTheEnd, withMarkers)

\* Mutant: the text replaces what it is anchored on.
OverTheAnchor(anchor, inserted, below) == inserted

\* What an insertion puts in place of its anchor.
BesideTheAnchor(anchor, inserted, below) ==
  IF below THEN Joined(<<anchor, inserted>>) ELSE Joined(<<inserted, anchor>>)

\* _anchored_insertion after the first n sections: {} or one replacement, beside
\* the section above, the one below or, at the end, the stamp; rather where no
\* comment is quoted.
AnchoredInsertion(current, n, inserted, page, stamp) ==
  LET First(tried) == IF tried = <<>> THEN {} ELSE {tried[1]}
      beside(anchor, below, quoted) ==
        IF anchor = <<>> THEN <<>>
        ELSE <<Replacement(anchor, BesideTheAnchor(anchor, inserted, below), quoted)>>
      above(marked) ==
        IF n = 0 THEN <<>>
        ELSE beside(UniqueEdge(current[n].text, OffsetOf(current, n), page, TRUE, marked),
                    TRUE, {current[n].key})
      below(marked) ==
        IF n = Len(current) THEN beside(stamp, FALSE, {})
        ELSE beside(UniqueEdge(current[n + 1].text, OffsetOf(current, n + 1), page, FALSE, marked),
                    FALSE, {current[n + 1].key})
  IN First(above(FALSE) \o below(FALSE) \o above(TRUE) \o below(TRUE))

\* The sections between those that stay at the start and at the end, widened as
\* far as makes what is quoted stand on the page once.
WidenedReplacement(current, after, page, start, suffix) ==
  LET ends == Len(current) - suffix
      \* the n-th widening: first upwards, then downwards
      from(n) == IF n < start THEN start - n ELSE 0
      more(n) == IF n < start THEN 0 ELSE n - start
      old(n) == SubSeq(current, from(n) + 1, ends + more(n))
      new(n) == SubSeq(after, from(n) + 1, Len(after) - suffix + more(n))
      good == {n \in 0..(start + suffix) :
                 LET text == Joined(TextsOf(old(n)))
                 IN text # <<>> /\ FoundOnceAt(page, text, OffsetOf(current, from(n) + 1))}
  IN {Replacement(Joined(TextsOf(old(n))), Joined(TextsOf(new(n))), KeysOf(old(n))) :
        n \in {m \in good : \A k \in good : m <= k}}

\* section_replacement: {} when there is nothing to place the text next to.
SectionReplacement(current, after, page, stamp) ==
  LET Anchored(start, suffix) ==
        IF start # Len(current) - suffix THEN {}
        ELSE AnchoredInsertion(current, start,
               Joined(TextsOf(SubSeq(after, start + 1, Len(after) - suffix))), page, stamp)
      Chosen(start, suffix, anchored) ==
        IF start = Len(current) - suffix /\ start = Len(after) - suffix THEN {NoReplacement}
        ELSE IF anchored # {} THEN anchored
        ELSE WidenedReplacement(current, after, page, start, suffix)
      Between(start, suffix) == Chosen(start, suffix, Anchored(start, suffix))
      From(start) == Between(start, CommonSuffix(current, after, start))
  IN From(CommonPrefix(current, after))

------------------------------------------------------------------------------
(* Releases                                                                  *)

KeptWhenReleased == {"added", "child"}
RemovedWhenReleased == {"published", "blank"}

\* _released_runs: the stretches of lines that go.  A block with one line that
\* stays is left whole.
ReleasedRuns(placed) ==
  LET keptBlocks == {placed[n].block : n \in {m \in DOMAIN placed : placed[m].role \in KeptWhenReleased}}
      goes(n) == \/ placed[n].role = "stamp"
                 \/ /\ placed[n].role \in RemovedWhenReleased
                    /\ placed[n].block \notin keptBlocks
  IN FoldLeft(LAMBDA runs, n :
                IF ~goes(n) THEN runs
                ELSE IF n > 1 /\ goes(n - 1)
                THEN [runs EXCEPT ![Len(runs)] = Append(@, n)]
                ELSE Append(runs, <<n>>),
              <<>>, [n \in DOMAIN placed |-> n])

\* Mutant: a request is filled line by line.
ChunksOfLines(placed, run, most) ==
  FoldLeft(LAMBDA chunks, n : IF chunks[Len(chunks)] # <<>> /\ Len(chunks[Len(chunks)]) * 2 > most
                              THEN Append(chunks, <<n>>)
                              ELSE [chunks EXCEPT ![Len(chunks)] = Append(@, n)],
           <<<<>>>>, run)

\* _chunks_of_whole_blocks: as many whole blocks in a request as it can carry.
ChunksOfWholeBlocks(placed, run, most) ==
  LET size(block) == Len(Concat([i \in DOMAIN run |->
                       IF placed[run[i]].block = block THEN placed[run[i]].line.raw ELSE <<>>]))
      opens(n) == n = run[1] \/ placed[n].block # placed[n - 1].block
      add(c, n) ==
        LET block == size(placed[n].block)
            full == opens(n) /\ c.size > 0 /\ c.size + block > most
        IN [done |-> IF full THEN Append(c.done, c.now) ELSE c.done,
            now |-> IF full THEN <<n>> ELSE Append(c.now, n),
            size |-> (IF full THEN 0 ELSE c.size) + IF opens(n) THEN block ELSE 0]
      cut == FoldLeft(add, [done |-> <<>>, now |-> <<>>, size |-> 0], run)
  IN Append(cut.done, cut.now)

\* _unique_removal: the lines of a chunk, with as many lines that stay above it,
\* then below it, as make the text stand on the page once.
UniqueRemoval(placed, chunk, page, gone) ==
  LET raw(ns) == Concat([i \in DOMAIN ns |-> placed[ns[i]].line.raw])
      mayQuote(n) == n \notin gone /\ Quotable(placed[n].line.raw, TRUE)
      first == chunk[1]
      last == chunk[Len(chunk)]
      up == CHOOSE u \in 0..(first - 1) :
              /\ \A n \in (first - u)..(first - 1) : mayQuote(n)
              /\ u = first - 1 \/ ~mayQuote(first - u - 1)
      down == CHOOSE d \in 0..(Len(placed) - last) :
                /\ \A n \in (last + 1)..(last + d) : mayQuote(n)
                /\ d = Len(placed) - last \/ ~mayQuote(last + d + 1)
      before(k) == LET u == IF k < up THEN k ELSE up IN [i \in 1..u |-> first - u + i - 1]
      after(k) == LET d == IF k < up THEN 0 ELSE k - up IN [i \in 1..d |-> last + i]
      quote(k) == raw(before(k) \o chunk \o after(k))
      good == {k \in 0..(up + down) : CountIn(page, quote(k)) = 1}
      k == IF good = {} THEN up + down ELSE CHOOSE m \in good : \A n \in good : m <= n
  IN Replacement(quote(k), raw(before(k) \o after(k)), {placed[chunk[i]].key : i \in DOMAIN chunk} \ {""})

\* release_replacements, in the order they are sent.
ReleaseReplacements(page, layout, most) ==
  LET Chunks(placed, runs) ==
        Concat([n \in DOMAIN runs |-> ChunksOfWholeBlocks(placed, runs[n], most)])
      Sent(s, chunk, r) == [page |-> Replaced(s.page, r), gone |-> s.gone \cup ToSet(chunk),
                            sent |-> Append(s.sent, r)]
      Of(placed) ==
        FoldLeft(LAMBDA s, chunk : Sent(s, chunk, UniqueRemoval(placed, chunk, s.page, s.gone)),
                 [page |-> page, gone |-> {}, sent |-> <<>>], Chunks(placed, ReleasedRuns(placed))).sent
  IN Of(SelectSeq(PlacedLines(page, layout), LAMBDA p : p.role # "below"))

==============================================================================
