----------------------------- MODULE ExportTree ------------------------------
(***************************************************************************)
(* What an export is made of: what each target cannot show                 *)
(* (export/capabilities.py), for every feature the targets that refuse it  *)
(* and those that write another form in its place; the tree every target is*)
(* written from (export/tree.py) with the nodes folded into plainer ones   *)
(* (export/folds.py); and the blocks a writer produces. Texts and the words*)
(* of a refusal are left out.                                              *)
(***************************************************************************)
EXTENDS FiniteSets, TLC, Naturals, Sequences, SequencesExt, FiniteSetsExt

Targets == {"markdown", "notion", "adf", "slack"}
NoTarget == {}

PlacementRefused ==
    "table inside a callout" :> {"adf", "slack"} @@
    "callout inside a callout" :> {"adf", "slack"} @@
    "quote inside a callout" :> {"adf"} @@
    "link card inside a callout" :> NoTarget @@
    "toggle inside a callout" :> {"adf", "slack"} @@
    "table inside a toggle inside a toggle" :> {"adf"} @@
    "toggle inside a toggle inside a toggle" :> {"adf"} @@
    "divider inside a callout" :> {"slack"}

ListRefused ==
    "block inside a list item" :> {"slack"} @@
    "block inside a walkthrough step" :> {"slack"} @@
    "numbered list starting past 1" :> {"notion", "slack"} @@
    "grid inside a walkthrough step" :> {"slack"}

TableRefused == "table over 300 cells" :> {"slack"}

\* What text may carry: scripts, colours, underlines, links, inline code.
MarkRefused ==
    "script with no Unicode form" :> {"slack"} @@
    "colour span" :> {"markdown", "slack"} @@
    "highlight span" :> {"slack"} @@
    "colour and highlight span" :> {"markdown", "notion", "slack"} @@
    "underline" :> {"slack"}

LinkRefused ==
    "highlight span inside a toned step title" :> {"notion"} @@
    "link to a heading of the same document" :> {"notion", "adf", "slack"} @@
    "link to another document" :> {"notion", "adf", "slack"}

CodeRefused ==
    "code holding a backtick" :> {"notion"} @@
    "code holding a closing tag in a cell" :> {"notion"} @@
    "code holding a closing tag in a span" :> {"notion"} @@
    "code line reading as a tag" :> {"notion"}

ItemRefused ==
    "list numbered with letters" :> {"adf", "slack"} @@
    "fenced block inside a list item" :> {"adf"} @@
    "divider inside a walkthrough step" :> {"adf"} @@
    "list inside a quote" :> {"slack"}

GridRefused ==
    "grid with more than three cells" :> {"slack"} @@
    "table inside a grid cell" :> {"slack"} @@
    "callout inside a grid cell" :> {"slack"} @@
    "divider inside a grid cell" :> {"slack"} @@
    "toned grid cell" :> {"slack"} @@
    "grid inside a grid cell" :> {"slack"} @@
    "deep heading" :> {"slack"}

FigureRefused ==
    "set of tabs" :> NoTarget @@
    "request cases" :> NoTarget @@
    "range" :> Targets @@
    "flow diagram" :> {"adf", "slack"} @@
    "rich step note" :> {"markdown", "notion"} @@
    "chart" :> NoTarget @@
    "chart with several series" :> NoTarget @@
    "math block" :> NoTarget @@
    "inline math" :> NoTarget @@
    "image from a data URI" :> {"notion", "adf", "slack"} @@
    "unwritable data image" :> {"markdown"}

Refused ==
    PlacementRefused @@ ListRefused @@ TableRefused @@ MarkRefused @@ LinkRefused @@ CodeRefused
        @@ ItemRefused @@ GridRefused @@ FigureRefused

\* The targets that write a feature in another form.
Swapped ==
    "set of tabs" :> {"adf"} @@
    "request cases" :> {"adf"} @@
    "chart" :> {"adf", "slack"} @@
    "chart with several series" :> Targets @@
    "math block" :> {"adf", "slack"} @@
    "inline math" :> {"adf", "slack"}

Swaps(feature, target) == feature \in DOMAIN Swapped /\ target \in Swapped[feature]
Rejects(feature, target) == target \in Refused[feature]

\* What a container around a block makes of it, by what it holds.
Placements ==
    <<"callout", "table">> :> "table inside a callout" @@
    <<"callout", "callout">> :> "callout inside a callout" @@
    <<"callout", "quote">> :> "quote inside a callout" @@
    <<"callout", "link card">> :> "link card inside a callout" @@
    <<"callout", "toggle">> :> "toggle inside a callout" @@
    <<"callout", "divider">> :> "divider inside a callout" @@
    <<"toggle inside a toggle", "table">> :> "table inside a toggle inside a toggle" @@
    <<"toggle inside a toggle", "toggle">> :> "toggle inside a toggle inside a toggle"

GridCellFeatures ==
    "table" :> "table inside a grid cell" @@
    "callout" :> "callout inside a grid cell" @@
    "divider" :> "divider inside a grid cell"

CanvasTableCellLimit == 300
CanvasColumnLimit == 3
CanvasHeadingLevelLimit == 3

------------------------------------------------------------------------------
(* A node of the tree: its kind, the path of the block it was authored in,   *)
(* what decides where it may stand, and the groups of nodes it holds.        *)

Node(is, at) ==
    [is |-> is, at |-> at, as |-> "", level |-> 0, open |-> FALSE, kind |-> "", start |-> 1,
     numbered |-> "", count |-> 0, tag |-> "", groups |-> << >>]

Holding(node, groups) == [node EXCEPT !.groups = groups]
Paragraph(at) == Node("paragraph", at)
Bullets(at, groups) == [Node("list", at) EXCEPT !.kind = "bullet", !.groups = groups]

\* Every node of a sequence turned into nodes, in order.
Each(seq, Op(_)) == FoldLeft(LAMBDA acc, x : acc \o Op(x), << >>, seq)

NestedNodes(node) == Each(node.groups, LAMBDA group : group)

IsHeading(node) == node.is = "heading" \/ (node.is = "toggle" /\ node.level > 0)

RECURSIVE HeadingLevels(_)
HeadingLevels(nodes) ==
    UNION {(IF IsHeading(nodes[i]) THEN {nodes[i].level} ELSE {})
               \cup HeadingLevels(NestedNodes(nodes[i])) : i \in DOMAIN nodes}

UsesHeadingLevel1(nodes) == 1 \in HeadingLevels(nodes)
DeepestHeadingLevel(nodes) == Max(HeadingLevels(nodes) \cup {0})
CanvasHeadingShift(body) == IF UsesHeadingLevel1(body) THEN 0 ELSE 1

\* A definition's first paragraph joins its label; the rest stays under it.
DefinitionEntry(body) == IF body # << >> /\ body[1].is = "paragraph" THEN Tail(body) ELSE body

LinkCardQuote(node) ==
    [Node("quote", node.at) EXCEPT !.as = IF node.kind = "card" THEN "link card" ELSE "link embed",
                                   !.groups = <<<<Paragraph(node.at)>>>>]

\* The node as a target without a form of its own for it is written:
\* an open toggle is its title over its content, labelled values are bullets.
RECURSIVE AsWrittenToday(_)
AsWrittenToday(node) ==
    CASE node.is = "toggle" /\ node.open ->
           <<Paragraph(node.at)>> \o Each(NestedNodes(node), AsWrittenToday)
      [] node.is = "list" /\ node.numbered # "" ->
           <<[node EXCEPT !.kind = "bullet", !.start = 1, !.numbered = ""]>>
      [] node.is \in {"facts", "pairs", "references", "cards", "timeline"} -> <<Bullets(node.at, node.groups)>>
      [] node.is = "definitions" ->
           <<Bullets(node.at, [i \in DOMAIN node.groups |-> DefinitionEntry(node.groups[i])])>>
      [] node.is = "linkcard" -> <<LinkCardQuote(node)>>
      [] OTHER -> <<node>>

Folded(nodes) == Each(nodes, AsWrittenToday)

FoldedExcept(nodes, IsWrittenNatively(_)) ==
    Each(nodes, LAMBDA node : IF IsWrittenNatively(node) THEN <<node>> ELSE AsWrittenToday(node))

FigureFeature(node) ==
    CASE node.kind = "graph" -> "flow diagram"
      [] node.kind = "chart" -> "chart"
      [] node.kind = "charts" -> "chart with several series"

PanesFeature(node) == IF node.kind = "tabs" THEN "set of tabs" ELSE "request cases"

\* A set of tabs as a closed toggle for each tab.
TabsAsToggles(node) ==
    [i \in DOMAIN node.groups |-> Holding(Node("toggle", node.at), <<node.groups[i]>>)]

------------------------------------------------------------------------------
(* The blocks a writer produces, each with the path of the authored block.  *)

WrittenBlock(type, at) == [type |-> type, at |-> at, mark |-> "", content |-> << >>]
Around(type, at, content) == [WrittenBlock(type, at) EXCEPT !.content = content]
Raised(at) == WrittenBlock("raised", at)
Require(condition, at, blocks) == IF condition THEN blocks ELSE <<Raised(at)>>

\* Every block of a page, outermost first, in document order.
RECURSIVE EveryBlock(_)
EveryBlock(blocks) == Each(blocks, LAMBDA block : <<block>> \o EveryBlock(block.content))

Raises(blocks) == \E i \in DOMAIN EveryBlock(blocks) : EveryBlock(blocks)[i].type = "raised"

WithoutRepeats(seq) ==
    FoldLeft(LAMBDA acc, x : IF acc # << >> /\ Last(acc) = x THEN acc ELSE Append(acc, x), << >>, seq)

\* The authored blocks of a set of paths in the order a page shows them.
ShownAmong(blocks, paths) ==
    LET every == EveryBlock(blocks)
    IN  WithoutRepeats(SelectSeq([i \in DOMAIN every |-> every[i].at], LAMBDA at : at \in paths))

------------------------------------------------------------------------------
(* Lowering: the blocks of a document to that tree (export/lower/). A block  *)
(* is a record of its type, a variant that tells apart the shapes the        *)
(* targets treat differently, and the groups of blocks it holds: cells,      *)
(* tabs, steps, or one group. A path is the sequence of positions that       *)
(* leads to a block.                                                         *)

Block(type, variant) == [type |-> type, variant |-> variant, toned |-> FALSE, groups |-> << >>]
BlockOf(type, variant, groups) == [Block(type, variant) EXCEPT !.groups = groups]

CappedHeadingLevel(level) == IF level > 6 THEN 6 ELSE level
PartHeadingLevel == 1
SectionHeadingLevel == 2
PartLimit == CanvasTableCellLimit + 1

\* Prose is paragraphs and lists.
Prose(variant, at) ==
    IF variant = "with a list" THEN <<Paragraph(at), Bullets(at, <<<< >>, << >>>>)>> ELSE <<Paragraph(at)>>

LowerList(block, at) ==
    <<[Node("list", at) EXCEPT
          !.kind = IF block.variant \in {"bullet", "nested", "decisions"} THEN "bullet"
                   ELSE IF block.variant = "check" THEN "check" ELSE "number",
          !.as = IF block.variant = "decisions" THEN "decisions" ELSE "",
          !.start = IF block.variant = "from three" THEN 3 ELSE 1,
          !.numbered = IF block.variant = "letters" THEN "letters" ELSE "",
          !.groups = IF block.variant = "nested" THEN <<<<Bullets(at, <<<< >>>>)>>, << >>>> ELSE <<<< >>, << >>>>]>>

LowerTable(block, at) == <<[Node("table", at) EXCEPT !.count = IF block.variant = "big" THEN PartLimit ELSE 4]>>
LowerComparison(block, at) == <<[Node("table", at) EXCEPT !.as = "comparison", !.count = 4]>>
LowerCode(block, at) == <<[Node("code", at) EXCEPT !.tag = block.variant]>>
LowerMath(at) == <<Node("math", at)>>
LowerQuote(block, at) == <<Holding(Node("quote", at), <<Prose(block.variant, at)>>)>>
TitledCallout(block, at) == <<Holding([Node("callout", at) EXCEPT !.as = block.type], <<Prose(block.variant, at)>>)>>
LowerImage(block, at) == <<[Node("media", at) EXCEPT !.kind = "image", !.tag = block.variant]>>
LowerMedia(at) == <<[Node("media", at) EXCEPT !.kind = "video"]>>
LowerLink(block, at) ==
    IF block.variant = "inline" THEN <<Paragraph(at)>> ELSE <<[Node("linkcard", at) EXCEPT !.kind = block.variant]>>

\* Labelled values: facts, pairs, cards with a note, an event with a body.
LowerFactStrip(block, at) ==
    <<Holding(Node("facts", at), IF block.variant = "one" THEN <<<< >>>> ELSE <<<< >>, << >>>>)>>
LowerKeyValue(at) == <<Holding(Node("pairs", at), <<<< >>, << >>>>)>>
LowerDefinitions(block, at) ==
    <<Holding(Node("definitions", at), <<Prose(block.variant, at), Prose("plain", at)>>)>>
LowerCards(block, at) ==
    <<Holding([Node("cards", at) EXCEPT !.count = IF block.variant = "four" THEN 4 ELSE 2],
              [i \in 1 .. (IF block.variant = "four" THEN 4 ELSE 2) |-> IF i = 1 THEN <<Paragraph(at)>> ELSE << >>])>>
LowerTimeline(at) == <<Holding(Node("timeline", at), <<<<Paragraph(at)>>, << >>>>)>>
LowerReferences(at) == <<Holding(Node("references", at), <<<< >>, << >>>>)>>

\* A diagram carries what its labels cannot: a chart its data table, a flow the
\* steps that have points or badges.
LowerFlow(block, at) ==
    <<Holding([Node("diagram", at) EXCEPT !.kind = "graph", !.tag = block.variant],
              IF block.variant = "detailed" THEN <<<<Bullets(at, <<<<Bullets(at, <<<< >>>>)>>>>)>>>> ELSE << >>)>>
LowerChart(block, at) ==
    <<Holding([Node("diagram", at) EXCEPT !.kind = IF block.variant = "several" THEN "charts" ELSE "chart"],
              <<<<[Node("table", at) EXCEPT !.as = "chart", !.count = 4]>>>>)>>

\* A request's cases: one in line, several as a set of panes.
CaseNodes(at, as) ==
    <<Node("code", at), Paragraph(at), Node("code", at),
      Holding([Node("callout", at) EXCEPT !.as = as], <<<<Paragraph(at)>>>>)>>
Cases(block, at, as) ==
    IF block.variant = "one case" THEN <<Paragraph(at)>> \o CaseNodes(at, as)
    ELSE <<Holding([Node("tabs", at) EXCEPT !.kind = "request cases", !.as = as],
                   <<CaseNodes(at, as), CaseNodes(at, as)>>)>>
LowerRequest(block, at) == <<Paragraph(at)>> \o Cases(block, at, "request")

LowerLeaf(block, at, depth) ==
    CASE block.type = "text" -> Prose(block.variant, at)
      [] block.type = "heading" ->
           <<[Node("heading", at) EXCEPT
                 !.level = CappedHeadingLevel((IF block.variant = "deep" THEN 4 ELSE 2) + depth)]>>
      [] block.type = "list" -> LowerList(block, at)
      [] block.type = "table" -> LowerTable(block, at)
      [] block.type = "comparison" -> LowerComparison(block, at)
      [] block.type = "code" -> LowerCode(block, at)
      [] block.type = "math" -> LowerMath(at)
      [] block.type = "quote" -> LowerQuote(block, at)
      [] block.type \in {"callout", "note"} -> TitledCallout(block, at)
      [] block.type = "divider" -> <<Node("divider", at)>>
      [] block.type = "image" -> LowerImage(block, at)
      [] block.type = "media" -> LowerMedia(at)
      [] block.type = "link" -> LowerLink(block, at)
      [] block.type = "fact_strip" -> LowerFactStrip(block, at)
      [] block.type = "key_value" -> LowerKeyValue(at)
      [] block.type = "def_list" -> LowerDefinitions(block, at)
      [] block.type = "cards" -> LowerCards(block, at)
      [] block.type = "timeline" -> LowerTimeline(at)
      [] block.type = "references" -> LowerReferences(at)
      [] block.type = "flow" -> LowerFlow(block, at)
      [] block.type = "chart" -> LowerChart(block, at)
      [] block.type = "request" -> LowerRequest(block, at)
      [] block.type = "range" -> << >>

Containers == {"part", "section", "toggle", "tabs", "panel", "grid", "inner grid", "walkthrough"}

\* A heading with its content under it, or a toggle of that level when collapsed.
Titled(block, at, level, children) ==
    IF block.variant = "collapsed"
    THEN <<Holding([Node("toggle", at) EXCEPT !.level = level, !.as = block.type], <<children>>)>>
    ELSE <<[Node("heading", at) EXCEPT !.level = level]>> \o children

ToggleNode(block, at, children) ==
    <<Holding([Node("toggle", at) EXCEPT !.open = (block.variant = "open"), !.as = "toggle"], <<children>>)>>

\* A toned cell is a callout; a grid of one cell, or inside another, is its content.
CellNodes(block, at, i, children) ==
    IF block.toned /\ i = 1
    THEN <<Holding([Node("callout", Append(at, i)) EXCEPT !.as = "grid cell"], <<children>>)>>
    ELSE children

GridNode(block, at, cells) ==
    LET toned == [i \in DOMAIN cells |-> CellNodes(block, at, i, cells[i])]
    IN  IF Len(cells) = 1 \/ block.type = "inner grid" THEN Each(toned, LAMBDA cell : cell)
        ELSE <<Holding(Node("columns", at), toned)>>

RECURSIVE LowerBlock(_, _, _)
LowerBlock(block, at, depth) ==
    LET Inside(deeper) ==
            [g \in DOMAIN block.groups |->
                FoldLeft(LAMBDA acc, i : acc \o LowerBlock(block.groups[g][i], at \o <<g, i>>, deeper), << >>,
                         [i \in DOMAIN block.groups[g] |-> i])]
        All(deeper) == Each(Inside(deeper), LAMBDA group : group)
    IN  CASE block.type = "part" -> Titled(block, at, PartHeadingLevel, All(0))
          [] block.type = "section" ->
               Titled(block, at, CappedHeadingLevel(SectionHeadingLevel + depth), All(depth + 1))
          [] block.type = "toggle" -> ToggleNode(block, at, All(depth))
          [] block.type = "tabs" -> <<Holding([Node("tabs", at) EXCEPT !.kind = "tabs"], Inside(depth))>>
          [] block.type = "panel" ->
               <<Holding([Node("callout", at) EXCEPT !.as = "panel"], <<<<Paragraph(at)>> \o All(depth)>>)>>
          [] block.type \in {"grid", "inner grid"} -> GridNode(block, at, Inside(depth))
          [] block.type = "walkthrough" ->
               <<[Node("list", at) EXCEPT !.kind = "number", !.groups = Inside(depth)]>>
          [] OTHER -> LowerLeaf(block, at, depth)

LowerRegions(blocks) == [i \in DOMAIN blocks |-> LowerBlock(blocks[i], <<i>>, 0)]
==============================================================================
