------------------------------ MODULE MCExports ------------------------------
(***************************************************************************)
(* What skaldr computes from a document alone: its export to each target,  *)
(* the layout of its swimlanes, the calls its requests send; and the       *)
(* folder an export is written to.                                         *)
(***************************************************************************)
EXTENDS Integers, FiniteSets, SequencesExt, TLC

CONSTANTS
  NoGroup, None

VARIABLES
  part,    \* the component this behaviour is of
  report, target, stage, regions, rejection, page, texts, block, verdict,
  layout, table, step, have, files, listed, readable, run, begun, theirs,
  edits, runs

------------------------------------------------------------------------------
(* Documents for the export: each kind of block alone in every nesting of two *)
(* containers, the ones containers mind in three, and blocks side by side.   *)
(* What a container may hold is what models/containers.py lets an author     *)
(* write.                                                                    *)

Tree == INSTANCE ExportTree

Text == Tree!Block("text", "plain")
Leaf(type, variant) == Tree!Block(type, variant)

\* A container around blocks; a second group holds a plain text.
Wrap(wrapping, blocks) ==
  LET Around(groups) ==
        [Tree!BlockOf(wrapping[1], wrapping[2], groups) EXCEPT !.toned = wrapping[2] = "toned"]
  IN CASE wrapping[2] \in {"two", "toned"} -> Around(<<blocks, <<Text>>>>)
       [] wrapping[2] = "four" -> Around(<<blocks, <<Text>>, <<Text>>, <<Text>>>>)
       [] OTHER -> Around(<<blocks>>)

Toggles == {<<"toggle", "collapsed">>, <<"toggle", "open">>}
TabsTwo == {<<"tabs", "two">>}

\* The places blocks stand in, and the containers each may hold.
HoldersIn ==
  LET inner == Toggles \cup TabsTwo
      full == inner \cup {<<"panel", "titled">>}
      cell == inner \cup ({"inner grid"} \X {"one", "two", "toned"})
  IN [mode \in {"inner", "in a cell", "panel"} |-> inner] @@
     [mode \in {"full", "open toggle"} |-> full] @@
     [mode \in {"cell", "step"} |-> cell] @@
     "top" :> (full \cup ({"section"} \X {"open", "collapsed"})
                 \cup ({"grid"} \X {"one", "two", "toned", "four"}) \cup {<<"walkthrough", "two">>}) @@
     "page" :> ({"part"} \X {"open", "collapsed"})

\* The place a container opens, by the place it stands in.
Opens(wrapping, mode) ==
  CASE wrapping[1] = "part" -> "top"
    [] wrapping[1] = "section" -> "full"
    [] wrapping[1] = "panel" -> "panel"
    [] wrapping[1] = "grid" -> "cell"
    [] wrapping[1] = "walkthrough" -> "step"
    [] wrapping[1] = "inner grid" -> "inner"
    [] mode \in {"cell", "step", "in a cell"} -> "in a cell"
    [] OTHER -> IF wrapping[1] = "tabs" \/ mode = "inner" THEN "inner"
                ELSE IF wrapping = <<"toggle", "open">> THEN "open toggle" ELSE "full"

Leaves ==
  {Leaf(type, "plain") : type \in {"text", "heading", "table", "comparison", "code", "math", "quote",
      "callout", "note", "divider", "image", "media", "fact_strip", "key_value", "def_list", "cards",
      "timeline", "references", "flow", "chart", "range"}}
  \cup {Leaf(type, "with a list") : type \in {"text", "quote", "callout", "def_list"}}
  \cup {Leaf("heading", "deep"), Leaf("table", "big"), Leaf("image", "data"), Leaf("image", "unwritable data"),
        Leaf("cards", "four"), Leaf("fact_strip", "one"), Leaf("chart", "several")}
  \cup {Leaf("link", variant) : variant \in {"card", "embed", "inline"}}
  \cup {Leaf("flow", variant) : variant \in {"detailed", "rich note"}}
  \cup {Leaf("list", variant) : variant \in {"bullet", "number", "check", "nested", "decisions", "from three", "letters"}}
  \cup {Leaf("code", variant) : variant \in {"details", "tab", "column", "callout"}}

LeavesIn(mode) ==
  IF mode \in {"inner", "cell", "step", "in a cell"} THEN Leaves
  ELSE Leaves \cup {Leaf("request", variant) : variant \in {"one case", "several cases"}}

\* The blocks containers mind most.
Minded ==
  {Leaf(type, "plain") : type \in {"text", "table", "callout", "divider", "quote", "cards", "chart"}}
    \cup {Leaf("link", "card"), Leaf("list", "bullet")}

RECURSIVE Nested(_, _, _, _)
Nested(mode, depth, minded, excluded) ==
  IF depth = 0 THEN (IF minded THEN Minded ELSE LeavesIn(mode))
  ELSE UNION {{Wrap(w, <<inner>>) : inner \in Nested(Opens(w, mode), depth - 1, minded, excluded)} :
                w \in {h \in HoldersIn[mode] : <<mode, h>> \notin excluded}}

\* Blocks side by side, at the top of the page and in a container.
Neighbours ==
  {Leaf("list", variant) : variant \in {"bullet", "check", "number", "letters"}}
    \cup {Leaf(type, "plain") : type \in {"timeline", "references", "table", "range"}}
    \cup {Leaf("text", "with a list"), Leaf("heading", "deep")}
Side == {<<"toggle", "collapsed">>, <<"panel", "titled">>, <<"grid", "two">>, <<"walkthrough", "two">>,
         <<"section", "open">>}
Pairs ==
  {<<one, other>> : one, other \in Neighbours}
    \cup {<<Wrap(w, <<one, other>>)>> : w \in Side, one, other \in Neighbours}
    \cup {<<one, between, other>> : one, other \in Neighbours, between \in {Text, Leaf("list", "bullet")}}

\* What the check lets through and Jira's writer has no form for, and what GitHub
\* reads no alert in: the README's findings.
TogglesInToggles ==
  ({"full", "inner", "in a cell", "open toggle"} \X {<<"toggle", "open">>})
    \cup ({"open toggle"} \X (Toggles \cup TabsTwo)) \cup {<<"page", <<"part", "collapsed">>>>}
JiraExcludes ==
  TogglesInToggles \cup ({"in a cell"} \X (Toggles \cup TabsTwo)) \cup {<<"panel", <<"toggle", "open">>>>}
TonedGridsInSteps == {<<"step", <<"inner grid", "toned">>>>}

DocumentsBut(excluded) ==
  {<<one>> : one \in UNION {Nested("top", depth, FALSE, excluded) : depth \in 0..2}
                           \cup UNION {Nested(mode, 3, TRUE, excluded) : mode \in {"top", "page"}}} \cup Pairs
Documents ==
  LET ForEach(jira, others) ==
        [service \in {"markdown", "notion", "adf", "slack"} |-> IF service = "adf" THEN jira ELSE others]
  IN ForEach(DocumentsBut(JiraExcludes), DocumentsBut(TonedGridsInSteps))

------------------------------------------------------------------------------
(* Swimlanes of two lanes and three columns under every choice of up to      *)
(* three groups, filled with a step in each place, in all places but one, or *)
(* in at most two places of a wrong kind.                                    *)

GroupNames == <<"X", "Y", "Z">>

\* The columns a group may name: runs in any order, a gap, a repeat, an unknown one.
Runs == {<<1>>, <<3>>, <<1, 2>>, <<3, 2>>, <<1, 2, 3>>}
Wrong == {<<1, 3>>, <<2, 2>>, <<4>>}

GroupsOver(choices, n) ==
  {[g \in 1..n |-> [name |-> GroupNames[g], columns |-> columns[g]]] : columns \in [1..n -> choices]}
Groupings ==
  UNION {GroupsOver(Runs, n) : n \in 0..3} \cup GroupsOver(Wrong, 1)
    \cup {<<[name |-> "X", columns |-> <<1>>], [name |-> "X", columns |-> <<2>>]>>}

\* Every place of a grid: a column split between groups needs the name of one.
Places(groups) ==
  LET covers(col) == {groups[g].name : g \in {h \in DOMAIN groups : col \in ToSet(groups[h].columns)}}
  IN {place \in {"a", "b"} \X (1..3) \X (ToSet(GroupNames) \cup {NoGroup}) :
        IF Cardinality(covers(place[2])) < 2 THEN place[3] = NoGroup ELSE place[3] \in covers(place[2])}

\* The places a step may be written for, in reading order.
EveryPlace ==
  [n \in 1..48 |-> <<(<<"a", "b", "c">>)[((n - 1) \div 16) + 1], (((n - 1) \div 4) % 4) + 1,
                     (<<"X", "Y", "Z", NoGroup>>)[((n - 1) % 4) + 1]>>]

Steps(places, value, dependsOn) ==
  LET At(order) ==
        [i \in DOMAIN order |->
           [id |-> i, lane |-> order[i][1], col |-> order[i][2], group |-> order[i][3],
            value |-> IF i % 2 = 1 THEN value * i ELSE 0, dependsOn |-> IF i = 1 THEN dependsOn ELSE {}]]
  IN At(SelectSeq(EveryPlace, LAMBDA place : place \in places))

LanesOf(groups, steps) ==
  [lanes |-> <<"a", "b">>, columns |-> <<1, 2, 3>>, groups |-> groups, steps |-> steps]

Swimlanes ==
  UNION {{LanesOf(groups, Steps(Places(groups) \ {place}, value, {})) :
            place \in Places(groups) \cup {<<"none", 0, NoGroup>>}, value \in {0, 1}} : groups \in Groupings}
  \cup {LanesOf(groups, Steps({one, other}, 1, {})) :
          groups \in GroupsOver(Runs, 1) \cup GroupsOver({<<1, 2>>}, 2),
          one, other \in {"a", "b", "c"} \X {1, 4} \X {"X", "Z", NoGroup}}
  \cup {LanesOf(<<>>, Steps(Places(<<>>), 0, dependsOn)) : dependsOn \in {{1}, {2}, {9}}}

------------------------------------------------------------------------------
(* Requests that vary in the parts of a call, in the headers of two cases and *)
(* in the values they bind, and flows of two steps and three that pass       *)
(* captured values along.                                                    *)

Case1 == [label |-> 1, value |-> None, values |-> None, headers |-> None, add |-> None,
          command |-> None, tone |-> FALSE, status |-> TRUE]
Case2 == [Case1 EXCEPT !.label = 2]
Call == [method |-> TRUE, url |-> {}, command |-> None, note |-> FALSE, query |-> None, headers |-> <<>>,
         body |-> None, axis |-> None, cases |-> <<Case1>>, captures |-> <<>>]
Variable(name) == [name |-> name, secret |-> FALSE]
RequestOf(core, variables) == [flow |-> FALSE, variables |-> variables, steps |-> <<core>>]
Header(name, spelling, value) == [name |-> name, spelling |-> spelling, value |-> value]

V == {"v"}
PartsOfACall == {None, V}

Shapes ==
  {RequestOf([Call EXCEPT !.method = method, !.url = url, !.command = command, !.query = query, !.body = body,
                          !.note = note, !.cases = <<case>>], <<Variable("v")>>) :
     method, note \in BOOLEAN, url, command, query, body \in PartsOfACall,
     case \in {Case1, [Case1 EXCEPT !.command = V], [Case1 EXCEPT !.headers = <<>>],
               [Case1 EXCEPT !.tone = TRUE], [Case1 EXCEPT !.add = <<Header("accept", 1, {})>>]}}

HeaderSet == {Header("auth", 1, V), Header("auth", 2, {}), Header("accept", 1, {})}
HeaderMaps == {<<>>} \cup {<<h>> : h \in HeaderSet} \cup {<<g, h>> : g, h \in HeaderSet}
OwnHeaders ==
  {RequestOf([Call EXCEPT !.url = V, !.headers = headers,
                          !.cases = <<[Case1 EXCEPT !.headers = own, !.add = add], second>>], <<Variable("v")>>) :
     headers \in HeaderMaps, own \in {None, <<>>, <<Header("auth", 2, V)>>}, add \in {None} \cup HeaderMaps,
     second \in {Case1, Case2}}

\* A value a case binds: nothing open in it, unless it is one of "open".
BoundTo(open) ==
  {None} \cup UNION {{[n \in names |-> value] : value \in open} : names \in {{"v"}, {"w"}, {"u"}, {"v", "w"}}}
Values(open) ==
  {RequestOf([Call EXCEPT !.url = url, !.axis = axis,
                          !.cases = <<[Case1 EXCEPT !.values = one, !.value = value], [Case2 EXCEPT !.values = two]>>],
             <<Variable("v"), [name |-> "w", secret |-> secret]>>) :
     url \in {V, {"w"}, {"v", "w"}, {"v", "a"}, {"v", "w", "x"}}, axis \in {None, "a", "v"},
     one, two \in BoundTo(open), value \in {None, {}}, secret \in BOOLEAN}

Capturing(names) == [i \in DOMAIN names |-> [name |-> names[i], body |-> TRUE, path |-> FALSE]]
StepOf(url, axis, captures, cases) ==
  [Call EXCEPT !.url = url, !.axis = axis, !.captures = Capturing(captures), !.cases = cases]
FlowOf(variables, steps) == [flow |-> TRUE, variables |-> variables, steps |-> steps]

Urls == SUBSET {"v", "c", "d"}
TwoSteps ==
  {FlowOf([i \in DOMAIN names |-> Variable(names[i])],
          <<StepOf(first, axis, captures, <<Case1>>), StepOf(second, None, later, cases)>>) :
     names \in {<<"v">>, <<"c">>, <<"v", "v">>, <<>>}, first, second \in Urls, axis \in {None, "x"},
     captures \in {<<>>, <<"c">>, <<"c", "c">>}, later \in {<<>>, <<"c">>, <<"d">>},
     cases \in {<<Case1>>, <<Case1, Case2>>, <<[Case1 EXCEPT !.values = [n \in {"v"} |-> {}]], Case2>>}}
ThreeSteps ==
  {FlowOf(<<>>, <<StepOf({}, None, <<"c">>, <<Case1>>), StepOf(second, None, <<"d">>, <<Case1>>),
                  StepOf(third, None, captures, <<Case1>>)>>) :
     second, third \in Urls, captures \in {<<>>, <<"e">>}}
BadCapture ==
  {FlowOf(<<>>, <<[StepOf({}, None, <<"c">>, <<Case1>>) EXCEPT !.captures[1].path = path, !.query = query],
                  StepOf({"c"}, None, <<>>, <<Case1>>)>>) : path \in BOOLEAN, query \in {None, {}}}

Requests == Shapes \cup OwnHeaders \cup Values({{}, V}) \cup TwoSteps \cup ThreeSteps \cup BadCapture

\* A folder's exports: a page; a page and its image; a page in chunks.
FolderExports == {<<"page.md">>, <<"image-1.png", "page.md">>, <<"page.00.md", "page.01.md">>}

Page == INSTANCE Export WITH
  Reports <- Documents, To <- {"markdown", "notion", "adf", "slack"}

Lanes == INSTANCE Swimlane WITH
  Blocks <- Swimlanes

Calls == INSTANCE RequestCalls WITH
  Blocks <- Requests, MaxCases <- 2

Folder == INSTANCE ExportFiles WITH
  Exports <- FolderExports, MaxEdits <- 1, MaxRuns <- 3

ASSUME Page!ToAssumption /\ Folder!FolderAssumption

------------------------------------------------------------------------------
(* One component at a time: the variables of the others hold nothing.        *)

exportVars == <<report, target, stage, regions, rejection, page, texts>>
swimlaneVars == <<layout, table>>
requestCallsVars == <<step, have>>
exportFilesVars == <<files, listed, readable, run, begun, theirs, edits, runs>>
vars == <<part, exportVars, block, verdict, swimlaneVars, requestCallsVars, exportFilesVars>>

NoExport ==
  /\ report = None /\ target = None /\ stage = None /\ regions = None
  /\ rejection = None /\ page = None /\ texts = None
NoSwimlane ==
  /\ layout = None /\ table = None
NoRequestCalls ==
  /\ step = None /\ have = None
NoExportFiles ==
  /\ files = None /\ listed = None /\ readable = None /\ run = None
  /\ begun = None /\ theirs = None /\ edits = None /\ runs = None

Init ==
  \/ /\ part = "page" /\ Page!Init
     /\ block = None /\ verdict = None /\ NoSwimlane /\ NoRequestCalls
     /\ NoExportFiles
  \/ /\ part = "swimlane" /\ Lanes!Init
     /\ NoExport /\ NoRequestCalls /\ NoExportFiles
  \/ /\ part = "calls" /\ Calls!Init
     /\ NoExport /\ NoSwimlane /\ NoExportFiles
  \/ /\ part = "folder" /\ Folder!Init
     /\ NoExport /\ block = None /\ verdict = None /\ NoSwimlane
     /\ NoRequestCalls

PageSteps ==
  /\ part = "page" /\ Page!Next
  /\ UNCHANGED <<part, block, verdict, swimlaneVars, requestCallsVars,
                  exportFilesVars>>
LanesSteps ==
  /\ part = "swimlane" /\ Lanes!Next
  /\ UNCHANGED <<part, exportVars, requestCallsVars, exportFilesVars>>
CallsSteps ==
  /\ part = "calls" /\ Calls!Next
  /\ UNCHANGED <<part, exportVars, swimlaneVars, exportFilesVars>>
FolderSteps ==
  /\ part = "folder" /\ Folder!Next
  /\ UNCHANGED <<part, exportVars, block, verdict, swimlaneVars,
                  requestCallsVars>>

Next == PageSteps \/ LanesSteps \/ CallsSteps \/ FolderSteps

Spec == Init /\ [][Next]_vars

------------------------------------------------------------------------------
(* Properties                                                                *)

\* A page the check lets through is written, and the service can show it: no
\* writer meets a node it has no form for, nothing lands where Jira's schema, a
\* canvas, Notion's columns or GitHub's alerts cannot hold it, and lists written
\* apart stay apart (the ExportInvariantError "the export check should have
\* refused it", export/__init__.py).
AcceptedIsWritten ==
  part = "page" => Page!AcceptedIsWritten /\ Page!FitsTheService /\ Page!ListsKeptApart

\* Every block reaches the page once and in its place, whether the page is written
\* whole or in the regions it is published in, and of what a target refuses the
\* first in the document is shown (export/tree.py, folds.py, check.py).
EveryBlockOnceInOrder ==
  part = "page" => /\ Page!EveryBlockOnceInOrder /\ Page!RegionsJoinToThePage
                   /\ Page!TheFirstRejectionIsShown

\* A swimlane's boxes cover its grid with no gap and no overlap, each step stands
\* once, under its group's cap, its totals agree, and the same steps are exported
\* (compute/swimlane.py, models/swimlane.py).
TheGridTiles ==
  part = "swimlane" =>
    /\ Lanes!TheGridTiles /\ Lanes!EveryStepOncePlaced /\ Lanes!CapsStandApart
    /\ Lanes!TotalsAgree /\ Lanes!RefusedOnlyWhenNoOrderFits /\ Lanes!ExportedOnce

\* A reader who works down the steps of an accepted request never meets a blank
\* in a command, a header sent twice, or a part no case sends (models/request.py,
\* compute/requests.py).
CallsAreWhole ==
  part = "calls" => Calls!NoBlankLeft /\ Calls!HeadersSentOnce /\ Calls!EveryPartIsSent

\* Wherever an export stops, no file that others put in the folder is replaced,
\* but for files under a name on the list of what skaldr wrote and for files put
\* there while it is at work; and what earlier runs wrote stays on the list until
\* it is removed, unless the list could not be read
\* (_refuse_to_overwrite_what_skaldr_did_not_write).
FolderIsAccountedFor ==
  /\ [](part = "folder" => Folder!OthersFilesStay /\ Folder!DoneLeavesTheExport)
  /\ [][part = "folder" => Folder!KeepsStaleListed]_vars

==============================================================================
