------------------------------- MODULE MCTexts -------------------------------
(***************************************************************************)
(* The text of one page that is read back, keyed and written into: a       *)
(* Notion page with lines of their own, one with the same lines in         *)
(* several sections, a Slack canvas, and the description of a Jira issue.  *)
(***************************************************************************)
EXTENDS Naturals, Sequences, TLC

CONSTANTS
  None

VARIABLES
  part,    \* the component this behaviour is of
  page, published, touched, wanted, requests, told, edits, writes, canvas,
  rendered, saved, issue, layout

Sec(k, t) == [key |-> k, text |-> t]

\* A Notion page: a table, a list with an indented item, code.
Line(w) == <<w, "nl">>
A == Line("a")
B == Line("b") \o <<"tab", "c", "nl">>
T == Line("<table>") \o <<"<td>", "d", "nl">> \o Line("</table>")
F == Line("code") \o Line("e") \o Line("code")

\* No line twice.
PageDrafts == {
  <<Sec("one", A \o T), Sec("two", B)>>,
  <<Sec("two", B), Sec("three", F)>> }
PageAdditions == {Line("x"), Line("<page 1>")}

\* The same lines in more than one section.
RepeatedDrafts == {
  <<Sec("one", A), Sec("two", A)>>,
  <<Sec("one", A \o A), Sec("two", B \o A)>>,
  <<Sec("three", T), Sec("two", T)>> }
RepeatedAdditions == {Line("a"), Line("<page 1>"), Line("<unknown>"), <<"nl">>}

\* A canvas: text that needs escapes, lists that meet, code, a table, a container.
Empty == <<>>
Items == <<<<"-", "i">>, <<"tab", "tab", "-", "\\-", "j">>>>
CanvasDrafts == {
  <<Sec("one", <<<<"p", "\\a">>, Empty>> \o Items), Sec("two", <<<<"&nbsp;">>, Empty, <<"1.", "k", "\\">>>>),
    Sec("three", <<<<"code">>, <<"*a">>, Empty, <<"code">>>>)>>,
  <<Sec("one", Items), Sec("two", <<>>),
    Sec("three", <<<<"|", "---:", "|">>, <<"|", "c", "|">>, Empty, <<":::{">>, <<"![](@U)", "\\a">>, Empty, <<":::">>>>)>> }
CanvasAdditions == {<<<<"nbsp">>>>, <<<<"*", "x">>>>}

\* A description: paragraphs, some of them twice, and blocks whose attributes
\* Jira fills in.
Node(type, says, attrs, marks) == [type |-> type, says |-> says, attrs |-> attrs, marks |-> marks]
Paragraph(w) == <<Node("paragraph", w, {}, <<>>)>>
JiraTable ==
  <<Node("table", "t", {<<"layout", "default">>}, <<>>),
    Node("tableCell", "c", {<<"colspan", "1">>, <<"background", "null">>}, <<"strong", "em">>)>>
JiraList ==
  <<Node("orderedList", "l", {<<"order", "1">>}, <<>>), Node("mention", "u", {<<"text", "U">>}, <<>>)>>
DescriptionDrafts == {
  <<Sec("one", <<Paragraph("a"), JiraTable>>), Sec("two", <<JiraList>>)>>,
  <<Sec("two", <<JiraList, Paragraph("b")>>), Sec("three", <<Paragraph("c"), Paragraph("b")>>)>>,
  <<Sec("one", <<Paragraph("b")>>), Sec("two", <<>>), Sec("three", <<Paragraph("b")>>)>>,
  <<Sec("one", <<JiraTable>>), Sec("two", <<JiraTable, JiraTable>>)>> }
DescriptionAdditions == {Paragraph("x")}

Page == INSTANCE PageText WITH
  Drafts <- PageDrafts, Additions <- PageAdditions, Over <- "y",
  MostWords <- 6, MaxEdits <- 2, MaxWrites <- 1

Repeated == INSTANCE PageText WITH
  Drafts <- RepeatedDrafts, Additions <- RepeatedAdditions, Over <- "y",
  MostWords <- 6, MaxEdits <- 1, MaxWrites <- 2

Canvas == INSTANCE CanvasWrites WITH
  Drafts <- CanvasDrafts, Additions <- CanvasAdditions, MaxEdits <- 1,
  MaxWrites <- 2

Description == INSTANCE Description WITH
  Drafts <- DescriptionDrafts, Additions <- DescriptionAdditions, Limit <- 8,
  MaxEdits <- 2, MaxWrites <- 1

------------------------------------------------------------------------------
(* One component at a time: the variables of the others hold nothing.        *)

pageTextVars == <<page, requests>>
canvasWritesVars == <<canvas, rendered, saved>>
descriptionVars == <<issue, layout>>
vars == <<part, pageTextVars, published, wanted, touched, told, edits, writes,
  canvasWritesVars, descriptionVars>>

NoPageText ==
  /\ page = None /\ requests = None
NoCanvasWrites ==
  /\ canvas = None /\ rendered = None /\ saved = None
NoDescription ==
  /\ issue = None /\ layout = None

Init ==
  \/ /\ part = "page" /\ Page!Init
     /\ NoCanvasWrites /\ NoDescription
  \/ /\ part = "repeated" /\ Repeated!Init
     /\ NoCanvasWrites /\ NoDescription
  \/ /\ part = "canvas" /\ Canvas!Init
     /\ NoPageText /\ published = None /\ wanted = None /\ NoDescription
  \/ /\ part = "description" /\ Description!Init
     /\ NoPageText /\ NoCanvasWrites

PageSteps ==
  /\ part = "page" /\ Page!Next
  /\ UNCHANGED <<part, canvasWritesVars, descriptionVars>>
RepeatedSteps ==
  /\ part = "repeated" /\ Repeated!Next
  /\ UNCHANGED <<part, canvasWritesVars, descriptionVars>>
CanvasSteps ==
  /\ part = "canvas" /\ Canvas!Next
  /\ UNCHANGED <<part, pageTextVars, published, wanted, descriptionVars>>
DescriptionSteps ==
  /\ part = "description" /\ Description!Next
  /\ UNCHANGED <<part, pageTextVars, canvasWritesVars>>

Next == PageSteps \/ RepeatedSteps \/ CanvasSteps \/ DescriptionSteps

Spec == Init /\ [][Next]_vars

------------------------------------------------------------------------------
(* Properties                                                                *)

\* A section nobody changed reads as skaldr published it, whatever was done to
\* those around it, so no edit is reported in it; and the sections a page is read
\* as join into the page (keyed_page, SectionLayout, canvas_body).
UntouchedReadsAsPublished ==
  /\ part = "page" => Page!SectionsJoinIntoThePage /\ Page!UntouchedReadsAsPublished
  /\ part = "canvas" => Canvas!UntouchedReadsAsSaved
  /\ part = "description" =>
       Description!SectionsJoinIntoTheDescription /\ Description!UntouchedReadsAsPublished
       /\ Description!EveryEditShows

\* What a write leaves reads as what it was asked to leave, each section in its
\* place, and a write of an unchanged page is not refused as changed
\* (section_replacement, carried_into, refuse_a_change_since_the_read).
WrittenReadsAsSent ==
  /\ part = "page" => Page!UnchangedIsNotRefused
  /\ part = "repeated" => Repeated!WrittenIsWanted
  /\ part = "canvas" => Canvas!WrittenReadsAlone /\ Canvas!UnchangedIsNotRefused
  /\ part = "description" => Description!WrittenIsWanted

\* No request quotes what stands twice, tears a block apart or leaves what only
\* skaldr wrote on a released page, and none makes markup of a text: neither
\* style nor a list (_found_once_at, _chunks_of_whole_blocks, canvas_markdown.py).
RequestsAreSound ==
  /\ part = "page" => Page!NoBlockIsTorn
  /\ part = "repeated" => Repeated!EachQuoteIsFoundOnce /\ Repeated!ReleasedHoldsNothingOfSkaldrs
  /\ part = "canvas" => Canvas!NothingIsRestyled /\ Canvas!NoItemBecomesAList

\* No write and no release takes a child page, what people wrote below the stamp,
\* or what they added to sections that are not written.
PeoplesTextStays ==
  [][/\ part = "page" => Page!KeepsPeoplesText
     /\ part = "canvas" => Canvas!KeepsPeoplesBlocks]_vars

==============================================================================
