--------------------------- MODULE MarkdownBlocks ---------------------------
(***************************************************************************)
(* The GitHub writer (export/markdown.py). Containers GitHub's Markdown    *)
(* lacks are HTML around Markdown. Two lists in a row that share a marker  *)
(* would read as one list, so the second takes the other marker of its     *)
(* family. An alert is read only at the top level or inside HTML.          *)
(***************************************************************************)
EXTENDS ExportTree

NoList == [family |-> "none", alternated |-> FALSE]
MarkerFamily(node) == IF node.kind = "number" THEN "ordinal" ELSE "dash"
Marker(family, alternated) ==
    CASE family = "dash" -> IF alternated THEN "*" ELSE "-"
      [] family = "ordinal" -> IF alternated THEN ")" ELSE "."

MustAlternateMarkers(family, after) == after.family = family /\ ~after.alternated

IsWrittenNatively(node) ==
    \/ node.is = "toggle" /\ node.open
    \/ node.is = "list" /\ node.numbered # ""
    \/ node.is \in {"facts", "cards", "definitions", "references"}

\* Where a block is written: how many quotes, items and cells are around it, and
\* whether an HTML block is.
TopLevel == [depth |-> 0, html |-> FALSE]
InsideAContainer(place) == [place EXCEPT !.depth = @ + 1]
InsideAnHtmlBlock(place) == [place EXCEPT !.html = TRUE]
IsAtTheTopLevel(place) == place = TopLevel

DepthOfATopLevelGridCell == 1
IsAnAlert(node, place) ==
    /\ node.as # "panel"
    /\ place.depth = IF node.as = "grid cell" THEN DepthOfATopLevelGridCell ELSE 0

\* What was written, and the list it ends with.
Lines(blocks) == [blocks |-> blocks, tail |-> NoList]
EndingWith(blocks, tail) == [blocks |-> blocks, tail |-> tail]

RECURSIVE BlocksAfter(_, _, _), WrittenNode(_, _, _)

BlocksAlone(nodes, place) == BlocksAfter(nodes, NoList, place).blocks

ListLines(node, alternate, place) ==
    [Around("list", node.at,
            [i \in DOMAIN node.groups |->
                Around("item", node.at, BlocksAlone(node.groups[i], InsideAContainer(place)))])
       EXCEPT !.mark = Marker(MarkerFamily(node), alternate)]

HtmlCell(type, nodes, at, place) ==
    Around(type, at, BlocksAlone(nodes, InsideAnHtmlBlock(InsideAContainer(place))))
HtmlCells(type, node, place) == [i \in DOMAIN node.groups |-> HtmlCell(type, node.groups[i], node.at, place)]

CalloutLines(node, place) ==
    <<Around(IF IsAnAlert(node, place) THEN "alert" ELSE "quote", node.at,
             BlocksAlone(NestedNodes(node), InsideAContainer(place)))>>

DetailsWritten(node, place) ==
    <<Around("details", node.at, BlocksAlone(NestedNodes(node), InsideAnHtmlBlock(place)))>>

\* References are footnotes where GitHub reads them, bullets anywhere else.
ReferencesWritten(node, after, place) ==
    IF IsAtTheTopLevel(place) THEN Lines([i \in DOMAIN node.groups |-> WrittenBlock("footnote", node.at)])
    ELSE WrittenNode(Folded(<<node>>)[1], after, place)

\* A figure mermaid draws keeps what its labels cannot show under it.
DiagramWritten(node, after, place) ==
    LET swapped == Swaps(FigureFeature(node), "markdown")
        supplement == BlocksAfter(NestedNodes(node), IF swapped THEN after ELSE NoList, place)
    IN  IF swapped THEN supplement
        ELSE EndingWith(<<WrittenBlock("mermaid", node.at)>> \o supplement.blocks, supplement.tail)

WrittenNode(node, after, place) ==
    CASE node.is \in {"heading", "paragraph", "table", "code", "math", "divider"} ->
           Lines(<<WrittenBlock(node.is, node.at)>>)
      [] node.is = "list" /\ node.numbered # "" -> Lines(<<Around("ordered html", node.at, HtmlCells("li", node, place))>>)
      [] node.is = "list" /\ node.numbered = "" ->
           LET alternate == MustAlternateMarkers(MarkerFamily(node), after)
           IN  EndingWith(<<ListLines(node, alternate, place)>>,
                          [family |-> MarkerFamily(node), alternated |-> alternate])
      [] node.is = "media" -> Lines(Require(node.tag # "unwritable data", node.at, <<WrittenBlock("media", node.at)>>))
      [] node.is = "callout" -> Lines(CalloutLines(node, place))
      [] node.is = "quote" ->
           Lines(<<Around("quote", node.at, BlocksAlone(NestedNodes(node), InsideAContainer(place)))>>)
      [] node.is = "toggle" -> Lines(DetailsWritten(node, place))
      [] node.is = "columns" -> Lines(<<Around("html table", node.at, HtmlCells("td", node, place))>>)
      [] node.is = "tabs" -> Lines(Each(TabsAsToggles(node), LAMBDA tab : DetailsWritten(tab, place)))
      [] node.is = "diagram" -> DiagramWritten(node, after, place)
      [] node.is \in {"facts", "cards"} -> Lines(<<WrittenBlock("table", node.at)>>)
      [] node.is = "definitions" -> Lines(<<Around("dl", node.at, HtmlCells("dd", node, place))>>)
      [] node.is = "references" -> ReferencesWritten(node, after, place)
      [] OTHER -> Lines(<<Raised(node.at)>>)

BlocksAfter(nodes, after, place) ==
    LET Write(acc, node) ==
            LET written == WrittenNode(node, acc.tail, place)
            IN  IF written.blocks = << >> THEN acc
                ELSE EndingWith(acc.blocks \o written.blocks, written.tail)
    IN  FoldLeft(Write, EndingWith(<< >>, after), FoldedExcept(nodes, IsWrittenNatively))

RenderMarkdown(nodes) == BlocksAlone(nodes, TopLevel)

=============================================================================
