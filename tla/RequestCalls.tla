----------------------------- MODULE RequestCalls -----------------------------
(***************************************************************************)
(* The calls a report records and a reader runs again (models/request.py,  *)
(* compute/requests.py): a request, or a flow of steps that pass captured  *)
(* values along. A text is the set of names it writes as {{name}}; the     *)
(* names it leaves open are slots of the page, filled from the fields the  *)
(* reader types in and from the responses pasted into earlier steps. A     *)
(* request is a flow of one step here, told apart by its kind.             *)
(***************************************************************************)
EXTENDS Integers, SequencesExt

CONSTANTS
    Blocks,     \* the requests and flows an author may write
    None,       \* a part that is not written
    MaxCases    \* the cases one strip of tabs can hold

VARIABLES
    block,      \* the request or flow
    verdict,    \* "unread", "accepted", or why it is refused
    step,       \* the steps the reader has run
    have        \* the names the reader has a value for

vars == <<block, verdict, step, have>>

Names(text) == IF text = None THEN {} ELSE text
NamesOf(headers) == IF headers = None THEN {} ELSE UNION {headers[i].value : i \in DOMAIN headers}
Declared(b) == {b.variables[i].name : i \in DOMAIN b.variables}
Captured(core) == {core.captures[i].name : i \in DOMAIN core.captures}
Cases(core) == ToSet(core.cases)
Repeats(seq, Key(_)) == \E i, j \in DOMAIN seq : i < j /\ Key(seq[i]) = Key(seq[j])

\* -------------------------- what a call interpolates --------------------------

ReferencedVariables(core) ==
    UNION {Names(core.url), Names(core.command), Names(core.query), NamesOf(core.headers), Names(core.body)}
        \cup UNION {NamesOf(case.headers) \cup NamesOf(case.add) \cup Names(case.command) : case \in Cases(core)}

ReferencedByCase(core, case) ==
    UNION {Names(core.url), Names(IF case.command = None THEN core.command ELSE case.command), Names(core.query),
           NamesOf(IF case.headers = None THEN core.headers ELSE case.headers), NamesOf(case.add), Names(core.body)}

CaseAxis(core) == IF core.axis = None THEN {} ELSE {core.axis}

\* The names the case writes in, with what their values interpolate themselves.
CaseBindings(core, case) ==
    IF core.axis # None THEN [n \in {core.axis} |-> Names(case.value)]
    ELSE IF case.values = None THEN << >> ELSE case.values

ResolveCase(text, core, case) ==
    LET bindings == CaseBindings(core, case)
    IN  UNION {IF n \in DOMAIN bindings THEN bindings[n] ELSE {n} : n \in text}

\* Mutant: headers are told apart by their spelling.
SameSpelling(one, other) == one.name = other.name /\ one.spelling = other.spelling

SameHeader(one, other) == one.name = other.name

\* The case's own headers, or the request's with the added ones over them by name.
RequestHeaders(core, case) ==
    IF case.headers # None THEN case.headers
    ELSE IF case.add = None THEN core.headers
    ELSE LET Override(header) == SelectSeq(case.add, LAMBDA added : SameHeader(added, header))
             merged == [i \in DOMAIN core.headers |->
                          IF Override(core.headers[i]) = << >> THEN core.headers[i]
                          ELSE [core.headers[i] EXCEPT !.value = Head(Override(core.headers[i])).value]]
         IN  merged \o SelectSeq(case.add, LAMBDA added :
                                     \A i \in DOMAIN core.headers : ~SameHeader(added, core.headers[i]))

\* What the page shows to be run: its pieces, each with the names left open.
Piece(part, text, core, case) == [part |-> part, open |-> ResolveCase(text, core, case)]
CommandFor(core, case) ==
    IF case.command # None THEN {Piece("case command", case.command, core, case)}
    ELSE IF core.command # None THEN {Piece("command", core.command, core, case)}
    ELSE LET headers == RequestHeaders(core, case)
         IN  {Piece("url", core.url, core, case)}
             \cup {Piece("header", headers[i].value, core, case) : i \in DOMAIN headers}
             \cup (IF core.body = None THEN {} ELSE {Piece("body", core.body, core, case)})
SentTextFor(core, case) ==
    IF core.query # None THEN {Piece("query", core.query, core, case)} ELSE CommandFor(core, case)

OpenIn(core, case) == UNION {piece.open : piece \in SentTextFor(core, case)}

AnyUnbound(b) ==
    {n \in Declared(b) : \A i \in DOMAIN b.steps : \A case \in Cases(b.steps[i]) :
                             case.values = None \/ n \notin DOMAIN case.values}

\* The fields of the page: a variable no case binds, or one some case leaves open.
ReaderVariables(b) ==
    AnyUnbound(b) \cup
        (Declared(b) \cap UNION {UNION {OpenIn(b.steps[i], case) : case \in Cases(b.steps[i])} : i \in DOMAIN b.steps})

\* ------------------------------- the checks -------------------------------

CheckHeaderMap(headers) == headers # None /\ Repeats(headers, LAMBDA header : header.name)

CaseShape(case) ==
    IF case.headers # None /\ case.add # None THEN "headers twice"
    ELSE IF CheckHeaderMap(case.headers) \/ CheckHeaderMap(case.add) THEN "one header twice"
    ELSE IF case.tone /\ case.status THEN "tone and status" ELSE ""

HowTheCaseFillsItsValues(core, case) ==
    IF case.value # None /\ case.values # None THEN "value and values"
    ELSE IF case.values # None /\ core.axis # None THEN "values and case_variable"
    ELSE IF case.value # None /\ core.axis = None THEN "nothing to fill" ELSE ""

CheckQueryCall(core) ==
    IF core.method \/ core.url # None \/ core.headers # << >> \/ core.body # None \/ core.command # None
    THEN "query and curl"
    ELSE IF core.note THEN "note on a query"
    ELSE IF \E case \in Cases(core) : case.command # None \/ case.headers # None \/ case.add # None
    THEN "case of a query" ELSE ""

CheckComposedCall(core) ==
    IF ~core.method \/ core.url = None THEN "no call"
    ELSE IF \E case \in Cases(core) : case.command # None THEN "command of a curl"
    ELSE IF core.note THEN "note on a curl" ELSE ""

CheckCommandCall(core) ==
    IF core.method \/ core.url # None \/ core.headers # << >> \/ core.body # None THEN "command and curl"
    ELSE IF \E case \in Cases(core) : case.headers # None \/ case.add # None THEN "case of a command" ELSE ""

First(reasons) ==
    LET given == SelectSeq(reasons, LAMBDA why : why # "")
    IN  IF given = << >> THEN "" ELSE Head(given)

CoreShape(core) ==
    First(<<IF Repeats(core.cases, LAMBDA case : case.label) THEN "repeats a label" ELSE "",
            IF Len(core.cases) > MaxCases THEN "too many cases" ELSE "">>
          \o [i \in DOMAIN core.cases |-> HowTheCaseFillsItsValues(core, core.cases[i])]
          \o <<IF CheckHeaderMap(core.headers) THEN "one header twice" ELSE "",
               IF core.query # None THEN CheckQueryCall(core)
               ELSE IF core.command = None THEN CheckComposedCall(core) ELSE CheckCommandCall(core)>>)

CaptureShape(capture) == IF capture.body = capture.path THEN "one of the two" ELSE ""

StepShape(core) ==
    IF Repeats(core.captures, LAMBDA capture : capture.name) THEN "captures twice"
    ELSE IF core.captures # << >> /\ Len(core.cases) > 1 THEN "captures from several cases"
    ELSE IF core.captures # << >> /\ core.query # None THEN "captures from a query" ELSE ""

CheckValuesKeys(core, b) ==
    LET Keys(case) == IF case.values = None THEN {} ELSE DOMAIN case.values
        Secret(n) == \E i \in DOMAIN b.variables : b.variables[i].name = n /\ b.variables[i].secret
    IN  IF \E case \in Cases(core) : ~(Keys(case) \subseteq Declared(b)) THEN "value of no variable"
        ELSE IF \E case \in Cases(core) : \E n \in Keys(case) : Secret(n) THEN "value of a secret"
        ELSE IF \E case \in Cases(core) : ~(Keys(case) \subseteq ReferencedByCase(core, case)) THEN "value not used"
        ELSE ""

\* Names captured by the steps before one.
ProducedBy(b, index) == UNION {Captured(b.steps[i]) : i \in 1 .. index - 1}

AllCaptured(b) == UNION {Captured(b.steps[i]) : i \in DOMAIN b.steps}
ResolvableVariables(b) == Declared(b) \cup AllCaptured(b) \cup UNION {CaseAxis(b.steps[i]) : i \in DOMAIN b.steps}
Unused(b) == ResolvableVariables(b) \ UNION {ReferencedVariables(b.steps[i]) : i \in DOMAIN b.steps}

UnresolvedVariables(b) ==
    UNION {ReferencedVariables(b.steps[i]) \ (Declared(b) \cup CaseAxis(b.steps[i]) \cup ProducedBy(b, i)) :
              i \in DOMAIN b.steps}

RequestShape(b) ==
    IF CaseAxis(b.steps[1]) \cap Declared(b) # {} THEN "case_variable declared"
    ELSE IF CheckValuesKeys(b.steps[1], b) # "" THEN CheckValuesKeys(b.steps[1], b)
    ELSE IF Unused(b) # {} THEN "unused" ELSE ""

FlowShape(b) ==
    LET keys == First([i \in DOMAIN b.steps |-> CheckValuesKeys(b.steps[i], b)])
        late(i) == ReferencedVariables(b.steps[i]) \cap (AllCaptured(b) \ ProducedBy(b, i))
    IN  IF keys # "" THEN keys
        ELSE IF AllCaptured(b) \cap Declared(b) # {} THEN "captured and declared"
        ELSE IF \E i, j \in DOMAIN b.steps : i < j /\ Captured(b.steps[i]) \cap Captured(b.steps[j]) # {}
        THEN "captured by two steps"
        ELSE IF \E i \in DOMAIN b.steps : late(i) # {} THEN "used before it is captured"
        ELSE IF Unused(b) # {} THEN "unused" ELSE ""

StepRefused(core) ==
    First([i \in DOMAIN core.cases |-> CaseShape(core.cases[i])]
          \o [i \in DOMAIN core.captures |-> CaptureShape(core.captures[i])]
          \o <<CoreShape(core), StepShape(core)>>)

Refused(b) ==
    First([i \in DOMAIN b.steps |-> StepRefused(b.steps[i])]
          \o <<IF Repeats(b.variables, LAMBDA variable : variable.name) THEN "declared twice"
               ELSE IF b.flow THEN FlowShape(b) ELSE RequestShape(b)>>)

\* --------------------------------- actions ---------------------------------

Init ==
    /\ block \in Blocks
    /\ verdict = "unread"
    /\ step = 0
    /\ have = {}

\* The report is read, and refused for the first reason found.
Validate ==
    /\ verdict = "unread"
    /\ verdict' = IF Refused(block) = "" THEN "accepted" ELSE Refused(block)
    /\ UNCHANGED <<block, step, have>>

\* The reader fills every field of the page.
FillFields ==
    /\ verdict = "accepted" /\ step = 0
    /\ step' = 1
    /\ have' = ReaderVariables(block)
    /\ UNCHANGED <<block, verdict>>

\* The reader runs a step and pastes its response, which fills what it captures.
RunStep ==
    /\ step \in DOMAIN block.steps
    /\ step' = step + 1
    /\ have' = have \cup Captured(block.steps[step])
    /\ UNCHANGED <<block, verdict>>

Next == Validate \/ FillFields \/ RunStep

Spec == Init /\ [][Next]_vars

\* -------------------------------- properties --------------------------------

Accepted == verdict = "accepted"
Calls == UNION {{<<block.steps[i], case>> : case \in Cases(block.steps[i])} : i \in DOMAIN block.steps}

(***************************************************************************)
(* A reader who works down the steps never meets a command with a blank in *)
(* it: what a step leaves open is in a field or was captured before it,    *)
(* save the names the strict check reports (GUIDE.md:1102).                *)
(***************************************************************************)
NoBlankLeft ==
    step \in DOMAIN block.steps =>
        \A case \in Cases(block.steps[step]) : OpenIn(block.steps[step], case) \subseteq have \cup UnresolvedVariables(block)

(***************************************************************************)
(* No call sends one header twice, and every header a case adds is sent    *)
(* with the case's value (request_headers; GUIDE.md:920).                  *)
(***************************************************************************)
HeadersSentOnce ==
    Accepted => \A <<core, case>> \in Calls :
        LET sent == RequestHeaders(core, case)
            added == IF case.add = None THEN << >> ELSE case.add
        IN  /\ ~Repeats(sent, LAMBDA header : header.name)
            /\ \A i \in DOMAIN added : \E j \in DOMAIN sent : sent[j].name = added[i].name /\ sent[j].value = added[i].value

(***************************************************************************)
(* What an author writes reaches what some case sends: a field that never  *)
(* could is refused (request.py:331, 432; GUIDE.md:975).                   *)
(***************************************************************************)
EveryPartIsSent ==
    Accepted => \A i \in DOMAIN block.steps :
        LET core == block.steps[i]
            sent == UNION {{piece.part : piece \in SentTextFor(core, case)} : case \in Cases(core)}
        IN  /\ core.url # None => "url" \in sent
            /\ core.body # None => "body" \in sent
            /\ core.query # None => "query" \in sent
            /\ (\E case \in Cases(core) : case.command # None) => "case command" \in sent

=============================================================================
