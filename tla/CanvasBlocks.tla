---------------------------- MODULE CanvasBlocks ----------------------------
(***************************************************************************)
(* The Slack canvas writer (export/slack.py). A canvas has no toggles and  *)
(* no tabs: they are flattened under their titles. A callout and a column  *)
(* hold less than the page, a layout holds at most three columns, a list   *)
(* item holds text and one nested list, and two lists in a row would read  *)
(* as one, so a separator is written between them.                         *)
(***************************************************************************)
EXTENDS ExportTree

Separator(at) == WrittenBlock("separator", at)
KeepsUrlAsText(node) == node.kind # "embed"

ACanvasCalloutCannotHold(node) == node.is \in {"table", "callout", "toggle", "divider", "tabs"}
ThePlaceCannotHold(node, place) ==
    \/ place = "callout" /\ ACanvasCalloutCannotHold(node)
    \/ place = "column" /\ node.is \in {"table", "callout", "divider", "columns"}

IsWrittenInItsOwnForm(node, place) ==
    \/ node.is \in {"facts", "definitions"}
    \/ node.is = "cards" /\ place = "top"
    \/ node.is = "linkcard" /\ place = "top" /\ KeepsUrlAsText(node)

Forms(node, place) == IF IsWrittenInItsOwnForm(node, place) THEN <<node>> ELSE Folded(<<node>>)

\* A list as a canvas keeps it: paragraphs join their item's text up to its one
\* nested list.
RECURSIVE CanvasList(_)
CanvasItem(entry, at) ==
    LET Place(acc, child) ==
            LET onlyText == \A i \in DOMAIN acc.content : acc.content[i].type = "text"
            IN  CASE child.is = "paragraph" /\ onlyText ->
                       [acc EXCEPT !.content = Append(@, WrittenBlock("text", child.at))]
                  [] child.is = "list" /\ onlyText -> [acc EXCEPT !.content = @ \o CanvasList(child)]
                  [] OTHER -> [acc EXCEPT !.content = Append(@, Raised(child.at))]
    IN  FoldLeft(Place, WrittenBlock("item", at), Folded(entry))

CanvasList(node) ==
    Require(~(node.kind = "number" /\ node.start # 1), node.at,
            <<[Around("list", node.at, [i \in DOMAIN node.groups |-> CanvasItem(node.groups[i], node.at)])
                 EXCEPT !.mark = node.kind]>>)

\* Cards stand in layouts of three; a card alone in its row needs none.
CardColumn(node, i) ==
    <<WrittenBlock("paragraph", node.at)>> \o [j \in DOMAIN node.groups[i] |-> WrittenBlock("paragraph", node.at)]
CardRow(node, first) ==
    LET row == first .. Min({first + CanvasColumnLimit - 1, Len(node.groups)})
    IN  IF Cardinality(row) = 1 THEN CardColumn(node, first)
        ELSE <<Around("layout", node.at,
                      [i \in 1 .. Cardinality(row) |-> Around("column", node.at, CardColumn(node, first + i - 1))])>>
CanvasCards(node) ==
    Each(SetToSortSeq({i \in DOMAIN node.groups : i % CanvasColumnLimit = 1}, <), LAMBDA i : CardRow(node, i))

CanvasLinkCard(node) == <<WrittenBlock("bare url", node.at), WrittenBlock("paragraph", node.at)>>

\* The blocks a writer's lines come from, with separators where lists meet.
WithListsKeptApart(blocks) ==
    FoldLeft(LAMBDA acc, block :
                 IF acc # << >> /\ Last(acc).type = "list" /\ block.type = "list"
                 THEN acc \o <<Separator(block.at), block>> ELSE Append(acc, block), << >>, blocks)

CanvasHeading(node, shift) ==
    Require(node.level <= CanvasHeadingLevelLimit + shift, node.at, <<WrittenBlock("heading", node.at)>>)

ToggleTitle(node, shift) ==
    IF node.level > 0 THEN CanvasHeading(node, shift) ELSE <<WrittenBlock("title", node.at)>>

RECURSIVE CanvasBlocksOf(_, _, _), CanvasBlock(_, _, _)

CanvasBlocksOf(nodes, place, shift) ==
    Each(nodes, LAMBDA node : Each(Forms(node, place), LAMBDA form : CanvasBlock(form, place, shift)))

\* Mutant: the first tab alone is written.
FirstCanvasTab(node, place, shift) ==
    <<WrittenBlock("title", node.at)>> \o CanvasBlocksOf(node.groups[1], place, shift)

CanvasTabs(node, place, shift) ==
    Each(node.groups, LAMBDA tab : <<WrittenBlock("title", node.at)>> \o CanvasBlocksOf(tab, place, shift))

CanvasDefinitions(node, place, shift) ==
    Each(node.groups, LAMBDA body : <<WrittenBlock("paragraph", node.at)>> \o CanvasBlocksOf(body, place, shift))

CanvasCallout(node, shift) ==
    <<Around("callout", node.at, WithListsKeptApart(CanvasBlocksOf(NestedNodes(node), "callout", shift)))>>

CanvasColumns(node, shift) ==
    Require(Len(node.groups) <= CanvasColumnLimit, node.at,
        <<Around("layout", node.at,
            [i \in DOMAIN node.groups |->
                Around("column", node.at, WithListsKeptApart(CanvasBlocksOf(node.groups[i], "column", shift)))])>>)

CanvasGenericBlock(node, place, shift) ==
    CASE node.is \in {"paragraph", "code", "divider", "quote"} -> <<WrittenBlock(node.is, node.at)>>
      [] node.is = "heading" -> CanvasHeading(node, shift)
      [] node.is = "table" ->
           Require(node.count <= CanvasTableCellLimit, node.at, <<WrittenBlock("table", node.at)>>)
      [] node.is = "math" -> Require(Swaps("math block", "slack"), node.at, <<WrittenBlock("code", node.at)>>)
      [] node.is = "media" ->
           Require(node.tag \notin {"data", "unwritable data"}, node.at, <<WrittenBlock("paragraph", node.at)>>)
      [] node.is = "list" -> CanvasList(node)
      [] node.is = "callout" -> CanvasCallout(node, shift)
      [] node.is = "toggle" -> ToggleTitle(node, shift) \o CanvasBlocksOf(NestedNodes(node), place, shift)
      [] node.is = "tabs" -> CanvasTabs(node, place, shift)
      [] node.is = "columns" -> CanvasColumns(node, shift)
      [] node.is = "diagram" ->
           Require(Swaps(FigureFeature(node), "slack"), node.at, CanvasBlocksOf(NestedNodes(node), place, shift))

CanvasBlock(node, place, shift) ==
    CASE node.is = "facts" -> <<WrittenBlock("paragraph", node.at)>>
      [] node.is = "definitions" -> CanvasDefinitions(node, place, shift)
      [] node.is = "cards" -> CanvasCards(node)
      [] node.is = "linkcard" -> CanvasLinkCard(node)
      [] OTHER ->
           IF ThePlaceCannotHold(node, place) THEN <<Raised(node.at)>> ELSE CanvasGenericBlock(node, place, shift)

Rendered(nodes, shift) == WithListsKeptApart(CanvasBlocksOf(nodes, "top", shift))
RenderSlack(nodes) == Rendered(nodes, CanvasHeadingShift(nodes))

\* A region's first list is kept apart from the list the last region ended with.
RenderSlackRegions(regions) ==
    LET shift == CanvasHeadingShift(Each(regions, LAMBDA region : region))
        Write(acc, region) ==
            LET blocks == Rendered(region, shift)
                meet == blocks # << >> /\ Head(blocks).type = "list" /\ acc.last = "list"
                written == IF meet THEN <<Separator(Head(blocks).at)>> \o blocks ELSE blocks
            IN  [texts |-> Append(acc.texts, written),
                 last |-> IF blocks = << >> THEN acc.last ELSE Last(blocks).type]
    IN  FoldLeft(Write, [texts |-> << >>, last |-> ""], regions).texts

=============================================================================
