------------------------------ MODULE AdfBlocks ------------------------------
(***************************************************************************)
(* The Jira writer (export/adf/blocks.py). Every container of an Atlassian *)
(* document takes a fixed set of blocks; the writer checks each block      *)
(* against its container and stops when the check let through one that     *)
(* does not fit. A node with no native form in its container is folded.    *)
(***************************************************************************)
EXTENDS ExportTree

TextBlocks == {"paragraph", "heading", "bulletList", "orderedList", "taskList", "decisionList"}
FencedBlocks == {"codeBlock", "rule", "panel", "blockquote"}
Cards == {"blockCard", "embedCard"}
ListItemBlocks == {"paragraph", "bulletList", "orderedList", "taskList", "codeBlock"}

AllowedBlocks ==
    "doc" :> (TextBlocks \cup FencedBlocks \cup Cards \cup {"table", "expand"}) @@
    "expand" :> (TextBlocks \cup FencedBlocks \cup Cards \cup {"table", "nestedExpand"}) @@
    "nested_expand" :> (TextBlocks \cup FencedBlocks) @@
    "panel" :> (TextBlocks \cup {"codeBlock", "rule", "blockCard"}) @@
    "cell" :> (TextBlocks \cup FencedBlocks \cup Cards \cup {"nestedExpand"}) @@
    "list item" :> ListItemBlocks @@
    "quote" :> {"paragraph", "bulletList", "orderedList"}

NestedExpandContainers == {"expand", "nested_expand", "cell"}
PlainGridColumnLimit == 3
MostToggleLevelsInACell == 1

ExpandType(container) == IF container \in NestedExpandContainers THEN "nestedExpand" ELSE "expand"
CardType(node) == IF node.kind = "card" THEN "blockCard" ELSE "embedCard"

RequireTheContainerHolds(node, blocks, container) ==
    Require(\A i \in DOMAIN blocks : blocks[i].type \in AllowedBlocks[container], node.at, blocks)

OrAnEmptyParagraph(blocks, at) == IF blocks = << >> THEN <<WrittenBlock("paragraph", at)>> ELSE blocks

RECURSIVE HoldsATable(_), ToggleLevels(_)
HoldsATable(nodes) == \E i \in DOMAIN nodes : nodes[i].is = "table" \/ HoldsATable(NestedNodes(nodes[i]))
ToggleLevels(nodes) ==
    Max({0} \cup {ToggleLevels(NestedNodes(nodes[i])) + (IF nodes[i].is \in {"toggle", "tabs"} THEN 1 ELSE 0)
                    : i \in DOMAIN nodes})

IsATonedGridCell(column) == Len(column) = 1 /\ column[1].is = "callout" /\ column[1].as = "grid cell"

\* A grid of many cells or of toned ones is a table, and a plain one when what
\* it holds fits in a cell.
IsATableOfCells(node) ==
    /\ ~HoldsATable(NestedNodes(node))
    /\ \/ Len(node.groups) > PlainGridColumnLimit
       \/ \E i \in DOMAIN node.groups : IsATonedGridCell(node.groups[i])
       \/ ToggleLevels(NestedNodes(node)) <= MostToggleLevelsInACell

TableTypes == {"facts", "pairs", "definitions", "cards", "timeline"}

IsWrittenNatively(node, container) ==
    CASE node.is \in TableTypes -> "table" \in AllowedBlocks[container]
      [] node.is = "references" -> TRUE
      [] node.is = "linkcard" -> CardType(node) \in AllowedBlocks[container]
      [] node.is = "toggle" -> node.open /\ ExpandType(container) \in AllowedBlocks[container]
      [] node.is = "columns" -> "table" \in AllowedBlocks[container] /\ IsATableOfCells(node)
      [] OTHER -> FALSE

RECURSIVE Blocks(_, _), NativeBlocks(_, _), NodeBlocks(_, _), ListItem(_), NestedTaskLists(_)

Blocks(nodes, container) ==
    Each(nodes, LAMBDA node :
        IF IsWrittenNatively(node, container)
        THEN RequireTheContainerHolds(node, NativeBlocks(node, container), container)
        ELSE Each(Folded(<<node>>), LAMBDA each :
                 RequireTheContainerHolds(each, NodeBlocks(each, container), container)))

Cell(nodes, at) == Around("tableCell", at, OrAnEmptyParagraph(Blocks(nodes, "cell"), at))
Table(cells, at) == IF cells = << >> THEN << >> ELSE <<Around("table", at, cells)>>
CellsOf(groups, at) == [i \in DOMAIN groups |-> Cell(groups[i], at)]

Expand(node, container) ==
    LET inside == IF ExpandType(container) = "nestedExpand" THEN "nested_expand" ELSE "expand"
    IN  <<Around(ExpandType(container), node.at, OrAnEmptyParagraph(Blocks(NestedNodes(node), inside), node.at))>>

\* A toned cell's callout gives way to the colour of the cell.
GridTable(node) ==
    Table([i \in DOMAIN node.groups |->
              Cell(IF IsATonedGridCell(node.groups[i]) THEN NestedNodes(node.groups[i][1]) ELSE node.groups[i],
                   node.at)], node.at)

\* References are one numbered list.
ReferenceBlocks(node) ==
    <<Around("orderedList", node.at, [i \in DOMAIN node.groups |-> Around("listItem", node.at, <<WrittenBlock("paragraph", node.at)>>)])>>

LinkCardBlocks(node) == <<WrittenBlock(CardType(node), node.at), WrittenBlock("paragraph", node.at)>>

NativeBlocks(node, container) ==
    CASE node.is \in TableTypes -> Table(CellsOf(node.groups, node.at), node.at)
      [] node.is = "references" -> ReferenceBlocks(node)
      [] node.is = "linkcard" -> LinkCardBlocks(node)
      [] node.is = "toggle" -> Expand(node, container)
      [] node.is = "columns" -> GridTable(node)

\* A checklist's entries hold only checklists.
NestedTaskLists(entry) ==
    Each(Folded(entry), LAMBDA child :
        LET produced == NodeBlocks(child, "list item")
        IN  Require(\A i \in DOMAIN produced : produced[i].type = "taskList", child.at, produced))

TaskBlocks(node) ==
    <<Around("taskList", node.at,
             Each(node.groups, LAMBDA entry : <<WrittenBlock("taskItem", node.at)>> \o NestedTaskLists(entry)))>>

ListItem(entry) ==
    Each(Folded(entry), LAMBDA child : RequireTheContainerHolds(child, NodeBlocks(child, "list item"), "list item"))

ListItems(node, groups) ==
    [i \in DOMAIN groups |-> Around("listItem", node.at, <<WrittenBlock("paragraph", node.at)>> \o ListItem(groups[i]))]

\* The decided points of a list, its first here, are a decision list of their own.
BulletAndDecisionBlocks(node) ==
    IF node.as = "decisions"
    THEN <<Around("decisionList", node.at, <<WrittenBlock("decisionItem", node.at)>>),
           Around("bulletList", node.at, ListItems(node, Tail(node.groups)))>>
    ELSE <<Around("bulletList", node.at, ListItems(node, node.groups))>>

ListBlocks(node, container) ==
    CASE node.groups = << >> -> << >>
      [] node.groups # << >> /\ node.kind = "check" -> TaskBlocks(node)
      [] node.groups # << >> /\ node.kind = "bullet" /\ "decisionList" \in AllowedBlocks[container] ->
           BulletAndDecisionBlocks(node)
      [] OTHER ->
           <<Around(IF node.kind = "bullet" THEN "bulletList" ELSE "orderedList", node.at,
                    ListItems(node, node.groups))>>

QuoteBlocks(node) == <<Around("blockquote", node.at, Blocks(NestedNodes(node), "quote"))>>

NodeBlocks(node, container) ==
    CASE node.is = "heading" -> <<WrittenBlock("heading", node.at)>>
      [] node.is = "paragraph" -> <<WrittenBlock("paragraph", node.at)>>
      [] node.is = "list" -> ListBlocks(node, container)
      [] node.is = "table" -> Table(<<Cell(<< >>, node.at)>>, node.at)
      [] node.is = "code" -> <<WrittenBlock("codeBlock", node.at)>>
      [] node.is = "math" -> Require(Swaps("math block", "adf"), node.at, <<WrittenBlock("codeBlock", node.at)>>)
      [] node.is = "callout" ->
           <<Around("panel", node.at, OrAnEmptyParagraph(Blocks(NestedNodes(node), "panel"), node.at))>>
      [] node.is = "quote" -> QuoteBlocks(node)
      [] node.is = "divider" -> <<WrittenBlock("rule", node.at)>>
      [] node.is = "media" ->
           Require(node.tag \notin {"data", "unwritable data"}, node.at, <<WrittenBlock("paragraph", node.at)>>)
      [] node.is = "toggle" -> Expand(node, container)
      [] node.is = "columns" -> Blocks(NestedNodes(node), container)
      [] node.is = "tabs" ->
           Require(Swaps(PanesFeature(node), "adf"), node.at,
                   Each(TabsAsToggles(node), LAMBDA toggle : NodeBlocks(toggle, container)))
      [] node.is = "diagram" ->
           Require(Swaps(FigureFeature(node), "adf"), node.at, Blocks(NestedNodes(node), container))

RenderAdf(nodes) == OrAnEmptyParagraph(Blocks(nodes, "doc"), << >>)
RenderAdfRegions(regions) == [i \in DOMAIN regions |-> Blocks(regions[i], "doc")]

=============================================================================
