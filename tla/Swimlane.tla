------------------------------- MODULE Swimlane -------------------------------
(***************************************************************************)
(* A swimlane: steps on a grid of lanes and columns, with groups that span *)
(* a run of columns and may split one (models/swimlane.py), laid out as    *)
(* boxes on a grid of numbered lines for the page (compute/swimlane.py)    *)
(* and as one table for the exports (export/lower/tables.py). A box is     *)
(* the lines around it; a step is the lane, column and group it names and  *)
(* its value, 0 when it has none.                                          *)
(***************************************************************************)
EXTENDS Integers, SequencesExt

CONSTANTS
    Blocks,     \* the swimlanes an author may write
    NoGroup     \* the group of a step that names none and of an uncovered column

VARIABLES
    block,      \* the swimlane
    verdict,    \* "unread", "accepted", or why it is refused
    layout,     \* the boxes and lines of the page
    table       \* the rows of the exports

vars == <<block, verdict, layout, table>>

IndexOf(seq, x) == CHOOSE i \in DOMAIN seq : seq[i] = x
Where(seq, Test(_)) == {i \in DOMAIN seq : Test(seq[i])}

\* ------------------------------- validation -------------------------------

GroupsCovering(b, col) == Where(b.groups, LAMBDA group : col \in ToSet(group.columns))

\* The group a step resolves to: its own, else the only one over its column.
StepGroup(b, step) ==
    LET covering == GroupsCovering(b, step.col)
    IN  IF step.group # NoGroup THEN step.group
        ELSE IF Cardinality(covering) = 1 THEN b.groups[Min(covering)].name ELSE NoGroup

Span(b, g) ==
    LET indices == {IndexOf(b.columns, col) : col \in ToSet(b.groups[g].columns)}
    IN  <<Min(indices), Max(indices)>>

\* Groups of a column stand by the run of columns they span, then as declared.
Before(b, g, h) ==
    LET key(i) == <<Span(b, i)[1], Span(b, i)[2], i>>
        first == CHOOSE k \in 1 .. 3 : key(g)[k] # key(h)[k] /\ \A j \in 1 .. k - 1 : key(g)[j] = key(h)[j]
    IN  g # h /\ key(g)[first] < key(h)[first]

Segments(b) ==
    LET Of(col) ==
            LET covering == SetToSortSeq(GroupsCovering(b, col), LAMBDA g, h : Before(b, g, h))
            IN  IF covering = << >> THEN <<[col |-> col, group |-> NoGroup]>>
                ELSE [i \in DOMAIN covering |-> [col |-> col, group |-> b.groups[covering[i]].name]]
    IN  FoldLeft(LAMBDA acc, col : acc \o Of(col), << >>, b.columns)

Contiguous(positions) == positions = Min(positions) .. Max(positions)
SegmentsOf(segments, name) == Where(segments, LAMBDA segment : segment.group = name)
Interleaves(b, segments) == \E g \in DOMAIN b.groups : ~Contiguous(SegmentsOf(segments, b.groups[g].name))

GroupNames(b) == [g \in DOMAIN b.groups |-> b.groups[g].name]

GroupRefused(b, group) ==
    LET indices == [i \in DOMAIN group.columns |-> IndexOf(b.columns, group.columns[i])]
    IN  IF ~(ToSet(group.columns) \subseteq ToSet(b.columns)) THEN "undeclared column"
        ELSE IF ~IsInjective(indices) \/ ~Contiguous(ToSet(indices)) THEN "not a run of columns" ELSE ""

StepRefused(b, step) ==
    LET covering == {b.groups[g].name : g \in GroupsCovering(b, step.col)}
    IN  IF step.lane \notin ToSet(b.lanes) THEN "undeclared lane"
        ELSE IF step.col \notin ToSet(b.columns) THEN "undeclared column"
        ELSE IF step.group # NoGroup
        THEN IF step.group \notin ToSet(GroupNames(b)) THEN "undeclared group"
             ELSE IF step.group \notin covering THEN "group elsewhere" ELSE ""
        ELSE IF Cardinality(covering) > 1 THEN "must name a group" ELSE ""

DependencyRefused(b, step) ==
    LET ids == {b.steps[i].id : i \in DOMAIN b.steps}
    IN  IF ~(step.dependsOn \subseteq ids) THEN "unknown step"
        ELSE IF step.id \in step.dependsOn THEN "depends on itself" ELSE ""

FirstRefused(seq, Refused(_)) ==
    LET refused == SelectSeq([i \in DOMAIN seq |-> Refused(seq[i])], LAMBDA why : why # "")
    IN  IF refused = << >> THEN "" ELSE Head(refused)

Unused(b) ==
    \/ \E lane \in ToSet(b.lanes) : \A i \in DOMAIN b.steps : b.steps[i].lane # lane
    \/ \E col \in ToSet(b.columns) : \A i \in DOMAIN b.steps : b.steps[i].col # col
    \/ \E name \in ToSet(GroupNames(b)) : \A i \in DOMAIN b.steps : StepGroup(b, b.steps[i]) # name

\* What the model says of a swimlane: its checks, in their order.
Shape(b) ==
    IF ~IsInjective(b.lanes) \/ ~IsInjective(b.columns) \/ ~IsInjective(GroupNames(b)) THEN "not unique"
    ELSE IF FirstRefused(b.groups, LAMBDA group : GroupRefused(b, group)) # ""
    THEN FirstRefused(b.groups, LAMBDA group : GroupRefused(b, group))
    ELSE IF FirstRefused(b.steps, LAMBDA step : StepRefused(b, step)) # ""
    THEN FirstRefused(b.steps, LAMBDA step : StepRefused(b, step))
    ELSE IF Unused(b) THEN "no steps"
    ELSE IF ~IsInjective([i \in DOMAIN b.steps |-> b.steps[i].id]) THEN "not unique"
    ELSE IF FirstRefused(b.steps, LAMBDA step : DependencyRefused(b, step)) # ""
    THEN FirstRefused(b.steps, LAMBDA step : DependencyRefused(b, step))
    ELSE IF Interleaves(b, Segments(b)) THEN "interleaves" ELSE "accepted"

\* --------------------------------- totals ---------------------------------

HasTotals(b) == \E i \in DOMAIN b.steps : b.steps[i].value # 0
SumOf(b, steps) == FoldSet(LAMBDA i, sum : sum + b.steps[i].value, 0, steps)
LaneTotal(b, lane) == SumOf(b, Where(b.steps, LAMBDA step : step.lane = lane))
ColumnTotal(b, col) == SumOf(b, Where(b.steps, LAMBDA step : step.col = col))
GroupTotal(b, name) == SumOf(b, Where(b.steps, LAMBDA step : StepGroup(b, step) = name))

\* --------------------------------- layout ---------------------------------

Box(lines, rows) == [lines |-> lines, rows |-> rows]
ColLines(index) == <<index + 1, index + 2>>
LinesOf(positions) == <<ColLines(Min(positions))[1], ColLines(Max(positions))[2]>>

Top(b) == IF b.groups # << >> THEN 2 ELSE 1
HeaderRow(b) == <<Top(b), Top(b) + 1>>
LaneRow(b, l) == <<Top(b) + l, Top(b) + l + 1>>
\* Mutant: the totals stand in the row of the last lane.
FooterOnTheLastLane(b) == <<Top(b) + Len(b.lanes), Top(b) + 1 + Len(b.lanes)>>

FooterRow(b) == <<Top(b) + 1 + Len(b.lanes), Top(b) + 2 + Len(b.lanes)>>
TableRows(b) == <<Top(b), Top(b) + 1 + Len(b.lanes) + (IF HasTotals(b) THEN 1 ELSE 0)>>
FullRows(b) == IF b.groups # << >> THEN <<1, TableRows(b)[2] + 1>> ELSE TableRows(b)

StepsAt(b, lane, segment) ==
    Where(b.steps, LAMBDA step : step.lane = lane /\ step.col = segment.col /\ StepGroup(b, step) = segment.group)

ColumnLines(b, col) == LinesOf(Where(Segments(b), LAMBDA segment : segment.col = col))
Headers(b) == {Box(ColumnLines(b, col), HeaderRow(b)) : col \in ToSet(b.columns)}
HeaderTints(b) == {Box(ColLines(i), HeaderRow(b)) : i \in DOMAIN Segments(b)}
Gutter(b) == {[lane |-> b.lanes[l], rows |-> LaneRow(b, l), total |-> LaneTotal(b, b.lanes[l])] : l \in DOMAIN b.lanes}
Cells(b) ==
    {[box |-> Box(ColLines(i), LaneRow(b, l)), lane |-> b.lanes[l], segment |-> Segments(b)[i],
      steps |-> StepsAt(b, b.lanes[l], Segments(b)[i])] : i \in DOMAIN Segments(b), l \in DOMAIN b.lanes}
Caps(b) ==
    {[group |-> b.groups[g].name, lines |-> LinesOf(SegmentsOf(Segments(b), b.groups[g].name)),
      total |-> GroupTotal(b, b.groups[g].name)] : g \in DOMAIN b.groups}
Foot(b) ==
    IF HasTotals(b)
    THEN {[col |-> col, box |-> Box(ColumnLines(b, col), FooterRow(b)), total |-> ColumnTotal(b, col)] : col \in ToSet(b.columns)}
    ELSE {}

\* A line between two columns runs through the caps where two groups meet.
VSolid(b) ==
    LET segments == Segments(b)
        Meets(i) == LET left == segments[i].group right == segments[i + 1].group
                    IN  left # NoGroup /\ right # NoGroup /\ left # right
    IN  {[line |-> 2, poke |-> FALSE, rows |-> TableRows(b)]}
            \cup {[line |-> ColLines(i)[2], poke |-> Meets(i), rows |-> IF Meets(i) THEN FullRows(b) ELSE TableRows(b)]
                    : i \in {i \in 1 .. Len(segments) - 1 : segments[i].col # segments[i + 1].col}}

\* A group split in a column, down to the totals row.
VDash(b) ==
    LET segments == Segments(b)
        splits == {i \in 1 .. Len(segments) - 1 :
                     segments[i].col = segments[i + 1].col /\ segments[i].group # segments[i + 1].group}
    IN  {[line |-> ColLines(i)[2], rows |-> <<FullRows(b)[1], IF HasTotals(b) THEN FooterRow(b)[1] ELSE FullRows(b)[2]>>]
            : i \in splits}

HDiv(b) ==
    {[row |-> HeaderRow(b)[2], from |-> 2]}
        \cup {[row |-> LaneRow(b, l)[1], from |-> 1] : l \in 2 .. Len(b.lanes)}
        \cup (IF HasTotals(b) THEN {[row |-> FooterRow(b)[1], from |-> 1]} ELSE {})

SwimlaneLayout(b) ==
    [headers |-> Headers(b), tints |-> HeaderTints(b), gutter |-> Gutter(b), cells |-> Cells(b), caps |-> Caps(b),
     foot |-> Foot(b), vsolid |-> VSolid(b), vdash |-> VDash(b), hdiv |-> HDiv(b),
     tbl |-> Box(<<1, Len(Segments(b)) + 2>>, TableRows(b)),
     squareRight |-> b.groups # << >> /\ Last(Segments(b)).group # NoGroup]

\* ------------------------------ exported table ------------------------------

GroupsStartingAt(b, col) ==
    {name \in ToSet(GroupNames(b)) : Segments(b)[Min(SegmentsOf(Segments(b), name))].col = col}
IsSplit(b, col) == Cardinality(Where(Segments(b), LAMBDA segment : segment.col = col)) > 1

\* A step of a split column says its group.
LaneCells(b, lane) ==
    [c \in DOMAIN b.columns |->
        FoldLeft(LAMBDA acc, segment :
                     acc \o [k \in 1 .. Cardinality(StepsAt(b, lane, segment)) |->
                                [step |-> SetToSortSeq(StepsAt(b, lane, segment), <)[k],
                                 says |-> IF IsSplit(b, b.columns[c]) THEN segment.group ELSE NoGroup]],
                 << >>, SelectSeq(Segments(b), LAMBDA segment : segment.col = b.columns[c]))]

LowerSwimlane(b) ==
    [header |-> [c \in DOMAIN b.columns |-> GroupsStartingAt(b, b.columns[c])],
     rows |-> [l \in DOMAIN b.lanes |-> LaneCells(b, b.lanes[l])],
     totals |-> IF HasTotals(b) THEN [c \in DOMAIN b.columns |-> ColumnTotal(b, b.columns[c])] ELSE << >>]

\* --------------------------------- actions ---------------------------------

Nothing == [none |-> TRUE]

Init ==
    /\ block \in Blocks
    /\ verdict = "unread" /\ layout = Nothing /\ table = Nothing

Validate ==
    /\ verdict = "unread"
    /\ verdict' = Shape(block)
    /\ UNCHANGED <<block, layout, table>>

LayOut ==
    /\ verdict = "accepted" /\ layout = Nothing
    /\ layout' = SwimlaneLayout(block)
    /\ UNCHANGED <<block, verdict, table>>

Lower ==
    /\ verdict = "accepted" /\ table = Nothing
    /\ table' = LowerSwimlane(block)
    /\ UNCHANGED <<block, verdict, layout>>

Next == Validate \/ LayOut \/ Lower
Spec == Init /\ [][Next]_vars

\* -------------------------------- properties --------------------------------

LaidOut == layout # Nothing
Exported == table # Nothing

Inside(lines) == lines[1] .. lines[2] - 1
Squares(box) == Inside(box.lines) \X Inside(box.rows)
Tile(boxes, whole) ==
    /\ UNION {Squares(box) : box \in boxes} = Squares(whole)
    /\ \A one, other \in boxes : one = other \/ Squares(one) \cap Squares(other) = {}

\* The header, the lanes and the totals cover the table beside its gutter with no
\* gap and no overlap, and so do the columns' labels over the header: no box is
\* placed by a number another box does not agree with.
TheGridTiles ==
    LaidOut =>
        LET data(rows) == Box(<<2, layout.tbl.lines[2]>>, rows)
        IN  /\ Tile(layout.tints \cup {cell.box : cell \in layout.cells} \cup {foot.box : foot \in layout.foot},
                    data(layout.tbl.rows))
            /\ Tile(layout.headers, data(HeaderRow(block)))
            /\ {row \in Inside(layout.tbl.rows) : \E lane \in layout.gutter : row \in Inside(lane.rows)}
                   = {cell.box.rows[1] : cell \in layout.cells}

\* A step stands once on the page: in its lane's row, under its column's label and
\* between the sides of its group's cap.
EveryStepOncePlaced ==
    LaidOut =>
        \A i \in DOMAIN block.steps :
            LET step == block.steps[i]
                cells == {cell \in layout.cells : i \in cell.steps}
            IN  \E cell \in cells :
                    /\ cells = {cell}
                    /\ \E lane \in layout.gutter : lane.lane = step.lane /\ lane.rows = cell.box.rows
                    /\ Inside(cell.box.lines) \subseteq Inside(ColumnLines(block, step.col))
                    /\ \A cap \in layout.caps :
                           (cap.group = StepGroup(block, step)) <=> (Inside(cell.box.lines) \subseteq Inside(cap.lines))

\* Caps stand apart, no line runs through one, and where two meet a line parts them.
CapsStandApart ==
    LaidOut =>
        LET poking == {solid.line : solid \in {solid \in layout.vsolid : solid.poke}}
                          \cup {dash.line : dash \in layout.vdash}
        IN  /\ \A one, other \in layout.caps :
                   /\ one.group # other.group => Inside(one.lines) \cap Inside(other.lines) = {}
                   /\ one.lines[2] = other.lines[1] => one.lines[2] \in poking
            /\ \A cap \in layout.caps : \A line \in poking : ~(cap.lines[1] < line /\ line < cap.lines[2])
            /\ \A solid \in layout.vsolid : solid.rows[1] < layout.tbl.rows[1] => solid.line \in poking

\* The totals beside the lanes, in the footer and on the caps add up to the same sum.
TotalsAgree ==
    LaidOut /\ layout.foot # {} =>
        LET Sum(totals) == FoldSet(LAMBDA each, sum : sum + each.total, 0, totals)
            ungrouped == SumOf(block, Where(block.steps, LAMBDA step : StepGroup(block, step) = NoGroup))
        IN  /\ Sum(layout.gutter) = SumOf(block, DOMAIN block.steps)
            /\ Sum(layout.foot) = Sum(layout.gutter)
            /\ Sum(layout.caps) + ungrouped = Sum(layout.gutter)

\* Every order of a column's groups, column by column.
Arrangements(b) ==
    LET orders(c) == SetToSeqs(GroupsCovering(b, b.columns[c]))
    IN  {arrangement \in [DOMAIN b.columns -> UNION {orders(c) : c \in DOMAIN b.columns}] :
            \A c \in DOMAIN b.columns : arrangement[c] \in orders(c)}
LinedUp(b, arrangement) ==
    LET names(c) == IF arrangement[c] = << >> THEN <<NoGroup>> ELSE [i \in DOMAIN arrangement[c] |-> b.groups[arrangement[c][i]].name]
        line == FoldLeft(LAMBDA acc, c : acc \o names(c), << >>, [c \in DOMAIN b.columns |-> c])
    IN  \A name \in ToSet(GroupNames(b)) : Contiguous(Where(line, LAMBDA each : each = name))

\* A swimlane is refused as interleaving only when no order of the groups in their
\* columns would keep every group together.
RefusedOnlyWhenNoOrderFits ==
    verdict = "interleaves" => \A arrangement \in Arrangements(block) : ~LinedUp(block, arrangement)

\* The exported table holds every step once, in its lane and column, and names
\* every group once, over the column it starts in.
ExportedOnce ==
    Exported =>
        /\ \A i \in DOMAIN block.steps :
               LET step == block.steps[i]
                   places == {<<l, c, k>> \in (DOMAIN block.lanes) \X (DOMAIN block.columns) \X (DOMAIN block.steps) :
                                 k \in DOMAIN table.rows[l][c] /\ table.rows[l][c][k].step = i}
               IN  \E place \in places : /\ places = {place}
                                         /\ block.lanes[place[1]] = step.lane
                                         /\ block.columns[place[2]] = step.col
        /\ \A g \in DOMAIN block.groups :
               {c \in DOMAIN table.header : block.groups[g].name \in table.header[c]} = {Span(block, g)[1]}

=============================================================================
