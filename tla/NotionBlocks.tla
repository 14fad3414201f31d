---------------------------- MODULE NotionBlocks ----------------------------
(***************************************************************************)
(* The Notion writer (export/notion.py). A page is lines of Notion's       *)
(* Markdown; a container is a pair of tags, so a code line reading as one  *)
(* of the tags around it cannot be written. Two lists of one kind in a row *)
(* are one list in Notion, so an empty block is written between them.      *)
(***************************************************************************)
EXTENDS ExportTree

DeepestNotionHeading == 4
MostColumnsPerStrip == 4
EmptyBlock(at) == WrittenBlock("empty", at)

NotionHeadingShift(nodes) ==
    IF DeepestHeadingLevel(nodes) > DeepestNotionHeading /\ ~UsesHeadingLevel1(nodes) THEN 1 ELSE 0
Marks == <<"#", "##", "###", "####">>
HeadingMarks(level, shift) == Marks[Min({level - shift, DeepestNotionHeading})]

\* The room a block is written in: the containers around it, and the shift.
OnPage(nodes) == [enclosing |-> {}, inAColumn |-> FALSE, shift |-> NotionHeadingShift(nodes)]
Inside(room, name) == [room EXCEPT !.enclosing = @ \cup {name}]
WithinAColumn(room) == [Inside(room, "column") EXCEPT !.inAColumn = TRUE]

IsNative(node, room) ==
    CASE node.is = "facts" -> Len(node.groups) > 1 /\ ~room.inAColumn
      [] node.is \in {"pairs", "cards", "definitions"} -> TRUE
      [] OTHER -> FALSE
NativelyOrFolded(nodes, room) == Each(nodes, LAMBDA node : IF IsNative(node, room) THEN <<node>> ELSE Folded(<<node>>))

StartsANumberedListPastOne(node) == node.is = "list" /\ node.kind = "number" /\ node.start # 1
HoldsLists(node) == \E i \in DOMAIN NestedNodes(node) : NestedNodes(node)[i].is = "list"

\* Rows as even as they can be, of at most four columns.
RowSizes(count) ==
    LET rows == (count + MostColumnsPerStrip - 1) \div MostColumnsPerStrip
    IN  [i \in 1 .. rows |-> count \div rows + (IF i <= count % rows THEN 1 ELSE 0)]

RECURSIVE NotionBlocksOf(_, _), NotionLines(_, _), ColumnsLines(_, _, _)

ColumnsLines(groups, at, room) ==
    <<Around("columns", at,
             [i \in DOMAIN groups |-> Around("column", at, NotionBlocksOf(groups[i], WithinAColumn(room)))])>>

\* Facts and cards stand in strips of columns, or one under another in a column.
ColumnStripLines(columns, at, room) ==
    IF Len(columns) = 1 \/ room.inAColumn THEN NotionBlocksOf(Each(columns, LAMBDA column : column), room)
    ELSE LET sizes == RowSizes(Len(columns))
             First(row) == FoldLeft(LAMBDA acc, i : acc + sizes[i], 1, [i \in 1 .. row - 1 |-> i])
         IN  Each([row \in DOMAIN sizes |-> row], LAMBDA row :
                 ColumnsLines(SubSeq(columns, First(row), First(row) + sizes[row] - 1), at, room))

FactColumns(node) == [i \in DOMAIN node.groups |-> <<Paragraph(node.at)>>]
CardColumns(node) ==
    [i \in DOMAIN node.groups |-> <<Holding(Node("callout", node.at), <<<<Paragraph(node.at)>> \o node.groups[i]>>)>>]

ListLines(node, room) ==
    Require(~StartsANumberedListPastOne(node), node.at,
        <<[Around("list", node.at,
                  [i \in DOMAIN node.groups |-> Around("item", node.at, NotionBlocksOf(node.groups[i], room))])
             EXCEPT !.mark = node.kind]>>)

ToggleLines(node, room) ==
    IF node.level > 0
    THEN <<[Around("toggle heading", node.at, NotionBlocksOf(NestedNodes(node), room))
              EXCEPT !.mark = HeadingMarks(node.level, room.shift)]>>
    ELSE <<Around("details", node.at, NotionBlocksOf(NestedNodes(node), Inside(room, "details")))>>

TabsLines(node, room) ==
    <<Around("tabs", node.at,
             [i \in DOMAIN node.groups |->
                Around("tab", node.at, NotionBlocksOf(node.groups[i], Inside(room, "tab")))])>>

\* A quote whose lists Notion can nest holds them; another is one line.
QuoteLines(node, room) ==
    IF HoldsLists(node) THEN <<Around("quote", node.at, NotionBlocksOf(NestedNodes(node), room))>>
    ELSE <<WrittenBlock("quote", node.at)>>

DefinitionLines(node, room) ==
    [i \in DOMAIN node.groups |-> Around("term", node.at, NotionBlocksOf(node.groups[i], room))]

\* Notion draws what mermaid can; any other figure is its table of values.
DiagramLines(node, room) ==
    IF Swaps(FigureFeature(node), "notion") THEN NotionBlocksOf(NestedNodes(node), room)
    ELSE <<WrittenBlock("mermaid", node.at)>> \o NotionBlocksOf(NestedNodes(node), room)

NotionLines(node, room) ==
    CASE node.is \in {"paragraph", "table", "math", "divider"} -> <<WrittenBlock(node.is, node.at)>>
      [] node.is = "facts" -> ColumnStripLines(FactColumns(node), node.at, room)
      [] node.is = "cards" -> ColumnStripLines(CardColumns(node), node.at, room)
      [] node.is = "pairs" -> <<WrittenBlock("table", node.at)>>
      [] node.is = "definitions" -> DefinitionLines(node, room)
      [] node.is = "heading" ->
           <<[WrittenBlock("heading", node.at) EXCEPT !.mark = HeadingMarks(node.level, room.shift)]>>
      [] node.is = "list" -> ListLines(node, room)
      [] node.is = "code" -> Require(node.tag \notin room.enclosing, node.at, <<WrittenBlock("code", node.at)>>)
      [] node.is = "media" ->
           Require(node.tag \notin {"data", "unwritable data"}, node.at, <<WrittenBlock("media", node.at)>>)
      [] node.is = "callout" ->
           <<Around("callout", node.at, NotionBlocksOf(NestedNodes(node), Inside(room, "callout")))>>
      [] node.is = "quote" -> QuoteLines(node, room)
      [] node.is = "toggle" -> ToggleLines(node, room)
      [] node.is = "columns" -> ColumnsLines(node.groups, node.at, room)
      [] node.is = "tabs" -> TabsLines(node, room)
      [] node.is = "diagram" -> DiagramLines(node, room)

\* The blocks of each node by its position, an empty block before a list that
\* follows one of its kind.
RenderedBlocksByPosition(nodes, room) ==
    LET Write(acc, node) ==
            LET lines == NotionLines(node, room)
                kind == IF node.is = "list" THEN node.kind ELSE "none"
                separator == IF kind # "none" /\ kind = acc.previous THEN <<EmptyBlock(node.at)>> ELSE << >>
            IN  IF lines = << >> THEN [acc EXCEPT !.blocks = Append(@, << >>)]
                ELSE [blocks |-> Append(acc.blocks, separator \o lines), previous |-> kind]
    IN  FoldLeft(Write, [blocks |-> << >>, previous |-> "none"], NativelyOrFolded(nodes, room)).blocks

NotionBlocksOf(nodes, room) == Each(RenderedBlocksByPosition(nodes, room), LAMBDA blocks : blocks)

RenderNotion(nodes) == NotionBlocksOf(nodes, OnPage(nodes))

\* The page cut back into its regions, by the region each node came from.
RenderNotionRegions(regions) ==
    LET body == Each(regions, LAMBDA region : region)
        room == OnPage(body)
        blocks == RenderedBlocksByPosition(body, room)
        Count(region) == Len(NativelyOrFolded(region, room))
        First(r) == FoldLeft(LAMBDA acc, i : acc + Count(regions[i]), 1, [i \in 1 .. r - 1 |-> i])
    IN  [r \in DOMAIN regions |->
            Each(SubSeq(blocks, First(r), First(r) + Count(regions[r]) - 1), LAMBDA each : each)]

=============================================================================
