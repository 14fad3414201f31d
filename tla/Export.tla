------------------------------- MODULE Export --------------------------------
(***************************************************************************)
(* A document exported to one target (export/__init__.py): lowered to the  *)
(* tree, checked against what the target can show, and written. The same   *)
(* page is also written region by region, for publishing.                  *)
(***************************************************************************)
EXTENDS ExportTree

CONSTANTS
    Reports,     \* the documents exported to each target, each a sequence of blocks
    To           \* the targets they are exported to

ToAssumption == To \subseteq Targets

------------------------------------------------------------------------------
(***************************************************************************)
(* The check that refuses a document before it is written to a target      *)
(* (export/check.py). One walk of the tree meets every feature a target    *)
(* could refuse, in document order; the hits found in the authored blocks  *)
(* are merged into it, each before the first node standing after it. The   *)
(* first feature the target refuses is the one the author is told of.      *)
(* What a run of text may carry is left out.                               *)
(***************************************************************************)
Hit(feature, at) == <<[feature |-> feature, at |-> at]>>
When(condition, hits) == IF condition THEN hits ELSE << >>

\* The walk has reached a node authored at this path.
Reached(at) == Hit("reached", at)

Document == [container |-> "document", inColumn |-> FALSE, enclosing |-> {}]
InACallout(place) == [place EXCEPT !.container = "callout", !.enclosing = @ \cup {"callout"}]
InAToggle(place) ==
    [place EXCEPT !.container = IF @ \in {"toggle", "toggle inside a toggle"} THEN "toggle inside a toggle"
                                ELSE "toggle"]
InADetailsBlock(place) == [InAToggle(place) EXCEPT !.enclosing = @ \cup {"details"}]
InATab(place) == [InAToggle(place) EXCEPT !.enclosing = @ \cup {"tab"}]
InAColumn(place) == [place EXCEPT !.inColumn = TRUE, !.enclosing = @ \cup {"column"}]

\* What a node counts as inside a container, "" when no container minds it.
Held(node) ==
    CASE node.is \in {"table", "callout", "toggle", "divider"} -> node.is
      [] node.is = "quote" -> IF node.as = "link card" THEN "link card" ELSE "quote"
      [] node.is = "tabs" -> "toggle"
      [] OTHER -> ""

\* Mutant: a list item holds any list.
AnyListsInAnItem(child, holdsAList) == child.is \in {"paragraph", "list"}

AListItemHolds(child, holdsAList) == child.is \in {"paragraph", "list"} /\ ~holdsAList

ItemFeature(child, holder) ==
    IF child.at # holder.at THEN "block inside a walkthrough step" ELSE "block inside a list item"

RECURSIVE NodesAdfCannotPlaceInAListItem(_)
NodesAdfCannotPlaceInAListItem(child) ==
    CASE child.is \in {"columns", "diagram"} ->
           Each(Folded(NestedNodes(child)), NodesAdfCannotPlaceInAListItem)
      [] child.is \in {"heading", "divider"} \/ Held(child) # "" -> <<child>>
      [] OTHER -> << >>

UnplacedHits(child) ==
    IF child.is = "divider" THEN Hit("divider inside a walkthrough step", child.at)
    ELSE LET unplaced == NodesAdfCannotPlaceInAListItem(child)
         IN  When(unplaced # << >>, Hit("fenced block inside a list item", Head(unplaced).at))

\* A canvas writes a definition's body as blocks of their own.
RECURSIVE NodesAsChecked(_, _)
NodesAsChecked(nodes, target) ==
    Each(nodes, LAMBDA node :
        IF target = "slack" /\ node.is = "definitions" THEN NodesAsChecked(NestedNodes(node), target)
        ELSE Folded(<<node>>))

DeepHeadingHits(node, shift) ==
    When(IsHeading(node) /\ node.level > CanvasHeadingLevelLimit + shift, Hit("deep heading", node.at))

PlacementHits(node, place) ==
    LET key == <<place.container, Held(node)>>
    IN  When(key \in DOMAIN Placements, Hit(Placements[key], node.at))

GridCellHits(node) ==
    CASE node.is = "callout" /\ node.as = "grid cell" -> Hit("toned grid cell", node.at)
      [] node.is = "columns" -> Hit("grid inside a grid cell", node.at)
      [] OTHER -> When(Held(node) \in DOMAIN GridCellFeatures, Hit(GridCellFeatures[Held(node)], node.at))

DiagramHits(node) ==
    Hit(FigureFeature(node), node.at)
        \o When(node.kind = "graph" /\ node.tag = "rich note", Hit("rich step note", node.at))

TableHits(node) == When(node.count > CanvasTableCellLimit, Hit("table over 300 cells", node.at))

\* The walk: "walk" is the target it is for and how far its headings move up.
RECURSIVE NodeHits(_, _, _), EntryHits(_, _, _, _)

NodesHits(nodes, place, walk) ==
    Each(NodesAsChecked(nodes, walk.target), LAMBDA node : NodeHits(node, place, walk))

EntryHits(entry, holder, place, walk) ==
    LET children == Folded(entry)
        HoldsAList(i) == \E j \in 1 .. i - 1 : children[j].is = "list"
        ChildHits(i) ==
            Reached(children[i].at)
                \o When(~AListItemHolds(children[i], HoldsAList(i)),
                        Hit(ItemFeature(children[i], holder), children[i].at))
                \o UnplacedHits(children[i])
                \o NodeHits(children[i], place, walk)
    IN  Each([i \in DOMAIN children |-> i], ChildHits)

ListHits(node, place, walk) ==
    When(node.kind = "number" /\ node.start # 1, Hit("numbered list starting past 1", node.at))
        \o Each(node.groups, LAMBDA entry : EntryHits(entry, node, place, walk))

InsideHits(node, place, walk) ==
    CASE node.is = "heading" -> DeepHeadingHits(node, walk.shift)
      [] node.is = "list" -> ListHits(node, place, walk)
      [] node.is = "table" -> TableHits(node)
      [] node.is = "callout" -> NodesHits(NestedNodes(node), InACallout(place), walk)
      [] node.is = "toggle" ->
           DeepHeadingHits(node, walk.shift)
               \o NodesHits(NestedNodes(node),
                            IF node.level > 0 THEN InAToggle(place) ELSE InADetailsBlock(place), walk)
      [] node.is = "tabs" ->
           Hit(PanesFeature(node), node.at) \o NodesHits(NestedNodes(node), InATab(place), walk)
      [] node.is = "columns" ->
           When(Len(node.groups) > CanvasColumnLimit, Hit("grid with more than three cells", node.at))
               \o NodesHits(NestedNodes(node), InAColumn(place), walk)
      [] node.is = "diagram" -> DiagramHits(node) \o NodesHits(NestedNodes(node), place, walk)
      [] node.is = "code" -> When(node.tag \in place.enclosing, Hit("code line reading as a tag", node.at))
      [] OTHER -> << >>

NodeHits(node, place, walk) ==
    Reached(node.at)
        \o When(node.is = "math", Hit("math block", node.at))
        \o When(place.inColumn, GridCellHits(node))
        \o PlacementHits(node, place)
        \o InsideHits(node, place, walk)

\* What the authored blocks hold that the tree no longer shows.
ShowsColumns(block) == block.type = "inner grid" /\ Len(block.groups) > 1

GridsInside(block, at, feature) ==
    Each([g \in DOMAIN block.groups |-> g], LAMBDA g :
        Each([i \in DOMAIN block.groups[g] |-> i], LAMBDA i :
            When(ShowsColumns(block.groups[g][i]), Hit(feature, at \o <<g, i>>))))

BlockHits(block, at) ==
    CASE block.type = "walkthrough" -> GridsInside(block, at, "grid inside a walkthrough step")
      [] block.type = "grid" -> GridsInside(block, at, "grid inside a grid cell")
      [] block.type = "list" /\ block.variant = "letters" -> Hit("list numbered with letters", at)
      [] block.type = "quote" /\ block.variant = "with a list" -> Hit("list inside a quote", at)
      [] block.type = "range" -> Hit("range", at)
      [] block.type = "image" /\ block.variant \in {"data", "unwritable data"} ->
           Hit("image from a data URI", at)
               \o When(block.variant = "unwritable data", Hit("unwritable data image", at))
      [] OTHER -> << >>

RECURSIVE LocatedHits(_, _)
LocatedHits(block, at) ==
    BlockHits(block, at)
        \o Each([g \in DOMAIN block.groups |-> g], LAMBDA g :
               Each([i \in DOMAIN block.groups[g] |-> i], LAMBDA i :
                   LocatedHits(block.groups[g][i], at \o <<g, i>>)))

\* One path stands at or before another in the document.
AtOrBefore(path, other) ==
    \/ IsPrefix(path, other)
    \/ \E i \in DOMAIN path \cap DOMAIN other :
         path[i] < other[i] /\ SubSeq(path, 1, i - 1) = SubSeq(other, 1, i - 1)

PathOrder(a, b) == a.at # b.at /\ AtOrBefore(a.at, b.at)

ModelHitsInDocumentOrder(blocks) ==
    LET hits == Each([i \in DOMAIN blocks |-> i], LAMBDA i : LocatedHits(blocks[i], <<i>>))
        order == SetToSortSeq(DOMAIN hits, LAMBDA i, j :
                     PathOrder(hits[i], hits[j]) \/ (hits[i].at = hits[j].at /\ i < j))
    IN  [i \in DOMAIN order |-> hits[order[i]]]

\* The located hits join the walk before the first node standing after them.
Merged(events, located) ==
    LET Join(acc, event) ==
            IF event.feature # "reached" THEN [acc EXCEPT !.hits = Append(@, event)]
            ELSE LET due == SelectSeq(acc.left, LAMBDA hit : AtOrBefore(hit.at, event.at))
                     taken == IF due = acc.left THEN Len(due)
                              ELSE CHOOSE n \in 0 .. Len(due) :
                                     /\ \A i \in 1 .. n : AtOrBefore(acc.left[i].at, event.at)
                                     /\ ~AtOrBefore(acc.left[n + 1].at, event.at)
                 IN  [hits |-> acc.hits \o SubSeq(acc.left, 1, taken),
                      left |-> SubSeq(acc.left, taken + 1, Len(acc.left))]
        joined == FoldLeft(Join, [hits |-> << >>, left |-> located], events)
    IN  joined.hits \o joined.left

FeatureHits(blocks, tree, target) ==
    Merged(NodesHits(tree, Document, [target |-> target, shift |-> CanvasHeadingShift(tree)]),
           ModelHitsInDocumentOrder(blocks))

\* The first feature the target refuses, none when it takes the document.
FirstRejection(hits, target) ==
    LET refused == SelectSeq(hits, LAMBDA hit : Rejects(hit.feature, target))
    IN  IF refused = << >> THEN << >> ELSE <<Head(refused)>>

RejectWhatTheTargetCannotShow(blocks, tree, target) == FirstRejection(FeatureHits(blocks, tree, target), target)

------------------------------------------------------------------------------
(* The document, its page and its texts                                      *)

Adf == INSTANCE AdfBlocks
Canvas == INSTANCE CanvasBlocks
Notion == INSTANCE NotionBlocks
Markdown == INSTANCE MarkdownBlocks

VARIABLES
    report,      \* the document's top-level blocks
    target,      \* the target it is exported to
    stage,       \* "authored", "lowered", "checked", "refused" or "written"
    regions,     \* the tree of each top-level block
    rejection,   \* what the target cannot show first, when it refuses
    page,        \* the blocks written
    texts        \* the same, region by region

vars == <<report, target, stage, regions, rejection, page, texts>>

Body == Each(regions, LAMBDA region : region)

Rendered(nodes, t) ==
    CASE t = "adf" -> Adf!RenderAdf(nodes)
      [] t = "slack" -> Canvas!RenderSlack(nodes)
      [] t = "notion" -> Notion!RenderNotion(nodes)
      [] t = "markdown" -> Markdown!RenderMarkdown(nodes)

\* GitHub is no target of publishing: its page is one text.
RenderedRegions(nodes, t) ==
    CASE t = "adf" -> Adf!RenderAdfRegions(nodes)
      [] t = "slack" -> Canvas!RenderSlackRegions(nodes)
      [] t = "notion" -> Notion!RenderNotionRegions(nodes)
      [] t = "markdown" -> <<Markdown!RenderMarkdown(Each(nodes, LAMBDA region : region))>>

Init ==
    /\ target \in To
    /\ report \in Reports[target]
    /\ stage = "authored"
    /\ regions = << >> /\ rejection = << >> /\ page = << >> /\ texts = << >>

Lower ==
    /\ stage = "authored"
    /\ stage' = "lowered"
    /\ regions' = LowerRegions(report)
    /\ UNCHANGED <<report, target, rejection, page, texts>>

\* The check names the first feature the target refuses, or lets the page pass.
Check ==
    /\ stage = "lowered"
    /\ rejection' = RejectWhatTheTargetCannotShow(report, Body, target)
    /\ stage' = IF rejection' = << >> THEN "checked" ELSE "refused"
    /\ UNCHANGED <<report, target, regions, page, texts>>

Write ==
    /\ stage = "checked"
    /\ stage' = "written"
    /\ page' = Rendered(Body, target)
    /\ texts' = RenderedRegions(regions, target)
    /\ UNCHANGED <<report, target, regions, rejection>>

Next == Lower \/ Check \/ Write
Spec == Init /\ [][Next]_vars

------------------------------------------------------------------------------
(* What an export promises of the page it writes                            *)

TypeOK ==
    /\ report # << >>
    /\ target \in To
    /\ stage \in {"authored", "lowered", "checked", "refused", "written"}
    /\ (rejection # << >>) <=> (stage = "refused")
    /\ rejection # << >> => rejection[1].feature \in DOMAIN Refused

\* A page the check lets through is written: no writer meets a node it has no
\* form for, for every nesting of containers around every block
\* (the ExportInvariantError "the export check should have refused it").
AcceptedIsWritten == stage = "written" => ~Raises(page)

RECURSIVE LeafPaths(_, _)
LeafPaths(block, at) ==
    IF block.type \in Containers
    THEN Each([g \in DOMAIN block.groups |-> g], LAMBDA g :
             Each([i \in DOMAIN block.groups[g] |-> i], LAMBDA i : LeafPaths(block.groups[g][i], at \o <<g, i>>)))
    ELSE <<at>>

AuthoredPaths == Each([i \in DOMAIN report |-> i], LAMBDA i : LeafPaths(report[i], <<i>>))

\* Every block of the document reaches the page, once and in its place: no fold,
\* flattening, strip of columns or table of cells drops, repeats or moves one.
EveryBlockOnceInOrder ==
    stage = "written" /\ ~Raises(page) => ShownAmong(page, ToSet(AuthoredPaths)) = AuthoredPaths

\* The rejection shown to the author is the first in the document: nothing the
\* target refuses stands before it, whichever of the two searches found it.
TheFirstRejectionIsShown ==
    stage = "refused" =>
        \A i \in DOMAIN FeatureHits(report, Body, target) :
            LET hit == FeatureHits(report, Body, target)[i]
            IN  Rejects(hit.feature, target) => AtOrBefore(rejection[1].at, hit.at)

\* The regions a page is published in are the page: joined they read as the whole
\* export, separators between lists of different regions included.
RegionsJoinToThePage == stage = "written" => Each(texts, LAMBDA text : text) = page

\* Two lists one after the other that the service would join into one list.
JoinedByTheService(one, other) ==
    CASE target = "slack" -> one.type = "list" /\ other.type = "list"
      [] target \in {"notion", "markdown"} -> one.type = "list" /\ other.type = "list" /\ one.mark = other.mark
      [] OTHER -> FALSE

\* Lists authored apart stay apart, at the top of the page and in every container.
ListsKeptApart ==
    stage = "written" =>
        \A blocks \in {page} \cup {block.content : block \in ToSet(EveryBlock(page))} :
            \A i \in 1 .. Len(blocks) - 1 : ~JoinedByTheService(blocks[i], blocks[i + 1])

\* The blocks Atlassian's document schema lets each container hold (external).
SchemaContent ==
    LET lists == {"bulletList", "orderedList", "taskList"}
        common == lists \cup {"paragraph", "heading", "codeBlock", "rule", "decisionList"}
        cards == {"blockCard", "embedCard"}
    IN  "panel" :> (common \cup {"blockCard"}) @@
        "expand" :> (common \cup cards \cup {"panel", "blockquote", "table", "nestedExpand"}) @@
        "nestedExpand" :> (common \cup {"panel", "blockquote"}) @@
        "tableCell" :> (common \cup cards \cup {"panel", "blockquote", "nestedExpand"}) @@
        "listItem" :> (lists \cup {"paragraph", "codeBlock"}) @@
        "blockquote" :> {"paragraph", "bulletList", "orderedList", "codeBlock"}

FitsTheAdfSchema(block) ==
    block.type \in DOMAIN SchemaContent =>
        /\ block.content # << >>
        /\ \A i \in DOMAIN block.content : block.content[i].type \in SchemaContent[block.type]

\* A canvas has no layout in a layout or a callout, nor a callout in a layout.
FitsACanvas(block) ==
    block.type \in {"callout", "layout"} =>
        ~\E inner \in ToSet(EveryBlock(block.content)) : inner.type \in {"callout", "layout", "table", "divider"}

\* Notion has no columns in columns, and no heading of the page jumps over its limit.
FitsNotion(block) ==
    block.type = "columns" => ~\E inner \in ToSet(EveryBlock(block.content)) : inner.type = "columns"

\* GitHub reads no alert inside a list item, a quote or another alert.
FitsGitHub(block) ==
    block.type \in {"item", "quote", "alert"} =>
        ~\E inner \in ToSet(EveryBlock(block.content)) : inner.type = "alert"

\* The page holds nothing where the service cannot show it: Jira's document
\* schema, a canvas's layouts, Notion's columns and GitHub's alerts.
FitsTheService ==
    stage = "written" /\ ~Raises(page) =>
        \A block \in ToSet(EveryBlock(page)) :
            CASE target = "adf" -> FitsTheAdfSchema(block)
              [] target = "slack" -> FitsACanvas(block)
              [] target = "notion" -> FitsNotion(block)
              [] target = "markdown" -> FitsGitHub(block)

==============================================================================
