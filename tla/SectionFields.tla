----------------------------- MODULE SectionFields -----------------------------
(***************************************************************************)
(* The fields of a section as the properties of its row in a Notion        *)
(* database (publish/notion/section_fields.py, properties.py): each field  *)
(* finds a property by name, its value is shaped for the property's kind   *)
(* and sent, the database holds it in its own way, and the next run reads  *)
(* it back and compares. A value is the JSON shape it has and its words.   *)
(***************************************************************************)
EXTENDS Integers, SequencesExt

CONSTANTS
    Sections,   \* the fields an author may write on a section
    Targets,    \* the field values a target may set itself, by property name
    Databases,  \* the properties the database may start with
    Parents,    \* what `parent_page` may name
    Fold,       \* a name or word without its capitalisation
    UserIds,    \* the Notion user id written for each person, in the form it is written
    None,       \* no row yet
    MaxEdits    \* bound: edits of the author and of people in Notion

VARIABLES
    section,    \* the section's fields, in their order
    target,     \* the values the target sets itself
    parent,     \* what the target names: a page, a database, or something skaldr refuses
    schema,     \* the database's properties: their kinds and options
    row,        \* what the row holds: the words of each property
    isRow,      \* whether the section's page is a row of the database
    rendered,   \* the fields last published, None before
    seen,       \* the fields read back after that
    verdict,    \* how the last publish ended
    edits       \* edits so far

vars == <<section, target, parent, schema, row, isRow, rendered, seen, verdict, edits>>

\* --------------------------------- values ---------------------------------

Value(json, words) == [json |-> json, words |-> words]
Null == Value("null", << >>)
IsUnset(value) == value.words = << >>

Comparable(value) == IF value.json = "texts" THEN <<"texts", ToSet(value.words)>> ELSE <<value.json, value.words>>
SameValue(one, other) == (IsUnset(one) /\ IsUnset(other)) \/ Comparable(one) = Comparable(other)

Of(fields, name) == IF name \in DOMAIN fields THEN fields[name] ELSE Null
SameFields(one, other) == \A name \in DOMAIN one \cup DOMAIN other : SameValue(Of(one, name), Of(other, name))
WithFieldsNamed(fields, names) == [name \in DOMAIN fields \cap names |-> fields[name]]

\* ----------------------------- fields to properties -----------------------------

KindsAShapeGoesTo ==
    [text |-> {"select", "status", "multi_select", "rich_text"}, texts |-> {"multi_select"},
     number |-> {"number"}, date |-> {"date"}, person |-> {"people"}]
OptionKinds == {"select", "status", "multi_select"}

\* The id of a person, however it is written; none when it is missing or not an id.
NotionUserId(person) == IF UserIds[person] \in {"missing", "bad"} THEN "none" ELSE person

AuthoredFields(fields) ==
    [i \in DOMAIN fields |-> IF fields[i].shape = "person"
                             THEN [fields[i] EXCEPT !.words = <<NotionUserId(fields[i].words[1])>>] ELSE fields[i]]

LeftToTheSection(fields, taken) ==
    SelectSeq(fields, LAMBDA field :
        /\ field.key \notin taken
        /\ ~(field.named /\ Fold[field.key] \in {Fold[name] : name \in taken}))

\* Mutant: a field finds a property whatever the case of its letters.
AnyCapitalisation(field, properties) ==
    LET matches == {name \in DOMAIN properties : Fold[name] = Fold[field.key]}
    IN  IF matches = {} THEN {} ELSE {CHOOSE name \in matches : TRUE}

\* The one property a field goes to: by its exact name, else in any capitalisation.
PropertyNamed(field, properties) ==
    LET matches == {name \in DOMAIN properties : Fold[name] = Fold[field.key]}
    IN  IF field.key \in DOMAIN properties THEN {field.key}
        ELSE IF field.named /\ Cardinality(matches) = 1 THEN matches ELSE {}

RefusedForTheKind(field, kind) == kind = "title" \/ kind \notin KindsAShapeGoesTo[field.shape]

RefusedForTheOptions(field, property) ==
    \/ property.kind \in {"select", "multi_select"} /\ field.comma
    \/ property.kind = "status" /\ ~({Fold[w] : w \in ToSet(field.words)} \subseteq {Fold[o] : o \in ToSet(property.options)})

AsTheDatabaseHoldsIt(word, options) ==
    LET known == SelectSeq(options, LAMBDA option : Fold[option] = Fold[word])
    IN  IF known = << >> THEN word ELSE Head(known)

OnceEachIgnoringCase(words) ==
    FoldLeft(LAMBDA kept, word : IF Fold[word] \in {Fold[w] : w \in ToSet(kept)} THEN kept ELSE Append(kept, word),
             << >>, words)

JsonOf(field) == IF field.shape = "date" THEN "text" ELSE field.shape

ValueFor(field, property) ==
    IF field.shape = "person" THEN Value("texts", field.words)
    ELSE IF property.kind \notin OptionKinds THEN Value(JsonOf(field), field.words)
    ELSE Value(IF property.kind = "multi_select" THEN "texts" ELSE "text",
               OnceEachIgnoringCase([i \in DOMAIN field.words |-> AsTheDatabaseHoldsIt(field.words[i], property.options)]))

Refused(field, properties) ==
    LET names == PropertyNamed(field, properties)
    IN  \/ names = {}
        \/ \E name \in names : RefusedForTheKind(field, properties[name].kind) \/ RefusedForTheOptions(field, properties[name])

\* The properties the fields go to; of two that meet in one property the later stays.
Mapped(fields, properties) ==
    LET PropertyOf(i) == CHOOSE name \in PropertyNamed(fields[i], properties) : TRUE
        names == {PropertyOf(i) : i \in DOMAIN fields}
        latest(name) == Max({i \in DOMAIN fields : PropertyOf(i) = name})
    IN  [name \in names |-> ValueFor(fields[latest(name)], properties[name])]

PersonRefused(fields) == \E i \in DOMAIN fields : fields[i].key = "assignee" /\ fields[i].words = <<"none">>

\* Why the section's fields cannot be set, "" when they can.
DefaultsRefused ==
    LET left == LeftToTheSection(AuthoredFields(section.fields), DOMAIN target)
    IN  IF ~section.optIn \/ left = << >> THEN ""
        ELSE IF PersonRefused(left) THEN "assignee"
        ELSE IF parent \in {"trash", "block", "two sources"} THEN "parent"
        ELSE IF parent = "page" THEN "no properties"
        ELSE IF \E i \in DOMAIN left : Refused(left[i], schema) THEN "field" ELSE ""

SectionDefaults ==
    IF ~section.optIn \/ parent # "database" THEN << >>
    ELSE Mapped(LeftToTheSection(AuthoredFields(section.fields), DOMAIN target), schema)

DraftFields ==
    LET defaults == SectionDefaults
    IN  [name \in DOMAIN defaults \cup DOMAIN target |-> IF name \in DOMAIN target THEN target[name] ELSE defaults[name]]

\* ---------------------------- requests and reading ----------------------------

\* The JSON shapes a property of a kind is sent as.
Encodings ==
    [rich_text |-> {"text"}, number |-> {"number"}, select |-> {"text"}, status |-> {"text"},
     multi_select |-> {"texts"}, date |-> {"text"}, people |-> {"texts"}]
PropertyTakes(kind, value) == kind \in DOMAIN Encodings /\ (IsUnset(value) \/ value.json \in Encodings[kind])

ReadAs == [rich_text |-> "text", number |-> "number", select |-> "text", status |-> "text",
           multi_select |-> "texts", date |-> "text", people |-> "texts"]
PropertyFields(properties, holds) ==
    [name \in {n \in DOMAIN properties : properties[n].kind \in DOMAIN ReadAs} |->
        Value(ReadAs[properties[name].kind], holds[name])]

\* What Notion keeps of a sent value: an option it holds already, each once, in an order of its own.
Kept(property, value, reversed) ==
    LET Option(word) == {o \in ToSet(property.options) : Fold[o] = Fold[word]}
        words == FoldLeft(LAMBDA kept, word : IF Fold[word] \in {Fold[w] : w \in ToSet(kept)} THEN kept
                                              ELSE Append(kept, CHOOSE o \in Option(word) \cup {word} : Option(word) = {} \/ o \in Option(word)),
                          << >>, value.words)
    IN  IF property.kind \notin OptionKinds THEN value.words
        ELSE IF property.kind = "multi_select" /\ reversed THEN Reverse(words) ELSE words

WithNewOptions(property, value) ==
    LET kept == Kept(property, value, FALSE)
    IN  IF property.kind \notin OptionKinds THEN property
        ELSE [property EXCEPT !.options = @ \o SelectSeq(kept, LAMBDA word : word \notin ToSet(property.options))]

Sent(values) ==
    \E reversed \in BOOLEAN :
        /\ row' = [name \in DOMAIN row |->
                     IF name \in DOMAIN values THEN Kept(schema[name], values[name], reversed) ELSE row[name]]
        /\ schema' = [name \in DOMAIN schema |->
                        IF name \in DOMAIN values THEN WithNewOptions(schema[name], values[name]) ELSE schema[name]]

CanSend(values) == \A name \in DOMAIN values : name \in DOMAIN schema /\ PropertyTakes(schema[name].kind, values[name])

ChangedFields(fields, previous) ==
    WithFieldsNamed(fields, {name \in DOMAIN fields : ~SameValue(Of(previous, name), fields[name])})

ClearedFields(fields, previous) ==
    [name \in {n \in DOMAIN previous : n \notin DOMAIN fields /\ ~IsUnset(previous[n])} |-> Null]

\* --------------------------------- actions ---------------------------------

Init ==
    /\ section \in Sections
    /\ target \in Targets
    /\ parent \in Parents
    /\ schema \in Databases
    /\ row = [name \in DOMAIN schema |-> << >>]
    /\ isRow = FALSE
    /\ rendered = None
    /\ seen = None
    /\ verdict = "unpublished"
    /\ edits = 0

\* What the section's page holds: the properties of a row, or none.
Held(properties, holds, asRow) == IF asRow THEN PropertyFields(properties, holds) ELSE << >>

\* A section's page is created with the fields it sets: as a row where the target opts in.
Create ==
    LET fields == DraftFields
        values == WithFieldsNamed(fields, {name \in DOMAIN fields : ~IsUnset(fields[name])})
        asRow == section.optIn /\ parent = "database"
    IN  /\ rendered = None /\ verdict = "unpublished"
        /\ IF DefaultsRefused # "" \/ ~CanSend(values) \/ (values # << >> /\ ~asRow)
           THEN verdict' = "refused" /\ UNCHANGED <<row, isRow, schema, rendered, seen>>
           ELSE /\ verdict' = "published"
                /\ isRow' = asRow
                /\ Sent(values)
                /\ rendered' = fields
                /\ seen' = WithFieldsNamed(Held(schema', row', asRow), DOMAIN fields)
        /\ UNCHANGED <<section, target, parent, edits>>

\* Mutant: what the row holds already is taken for what skaldr owns.
AllOfTheRow(fields) == Held(schema, row, isRow)

\* What the row holds of the properties skaldr set or is about to set.
NowOwned(fields) == WithFieldsNamed(Held(schema, row, isRow), DOMAIN rendered \cup DOMAIN fields)

\* A later publish sends what differs from the row; edits made in Notion are replaced only with --overwrite.
Update ==
    LET fields == DraftFields
        now == NowOwned(fields)
        values == ChangedFields(fields, now) @@ ClearedFields(fields, now)
    IN  /\ rendered # None /\ verdict = "stale"
        /\ IF \/ DefaultsRefused # "" \/ ~CanSend(values)
              \/ ~isRow /\ \E name \in DOMAIN fields : ~IsUnset(fields[name])
           THEN verdict' = "refused" /\ UNCHANGED <<row, schema, rendered, seen>>
           ELSE /\ verdict' = "published"
                /\ Sent(values)
                /\ rendered' = fields
                /\ seen' = WithFieldsNamed(Held(schema', row', isRow), DOMAIN fields)
        /\ UNCHANGED <<section, target, parent, isRow, edits>>

\* The author writes other fields, or the target sets others.
Author ==
    /\ edits < MaxEdits
    /\ edits' = edits + 1
    /\ \E other \in Sections, fields \in Targets :
        /\ <<other, fields>> # <<section, target>>
        /\ section' = other /\ target' = fields
    /\ verdict' = IF rendered = None THEN "unpublished" ELSE "stale"
    /\ UNCHANGED <<parent, schema, row, isRow, rendered, seen>>

\* Someone sets a property of the row in Notion, or clears it.
EditInNotion ==
    /\ edits < MaxEdits /\ rendered # None /\ isRow
    /\ edits' = edits + 1
    /\ \E name \in DOMAIN row :
        /\ row' = [row EXCEPT ![name] = IF @ = << >> /\ schema[name].options # << >> THEN <<schema[name].options[1]>> ELSE << >>]
        /\ row' # row
    /\ verdict' = "stale"
    /\ UNCHANGED <<section, target, parent, schema, isRow, rendered, seen>>

Next == Create \/ Update \/ Author \/ EditInNotion

Spec == Init /\ [][Next]_vars

\* -------------------------------- properties --------------------------------

(***************************************************************************)
(* After a publish the row holds what the section and the target set, in   *)
(* every property skaldr sets (GUIDE.md:1441).                           *)
(***************************************************************************)
RowHoldsTheFields ==
    verdict = "published" => SameFields(rendered, WithFieldsNamed(Held(schema, row, isRow), DOMAIN rendered))

(***************************************************************************)
(* A publish repeated at once is refused nothing and finds nothing to      *)
(* send, also where the first one created options or Notion ordered them   *)
(* its own way (same_fields, _as_the_database_holds_it).                   *)
(***************************************************************************)
NothingToSendAgain ==
    verdict = "published" =>
        /\ DefaultsRefused = ""
        /\ SameFields(DraftFields, rendered)
        /\ SameFields(WithFieldsNamed(Held(schema, row, isRow), DOMAIN rendered), seen)

(***************************************************************************)
(* What a section's fields come to can be sent: a value the property       *)
(* cannot take is refused with the fields, not by the write (GUIDE.md:1446). *)
(***************************************************************************)
AcceptedMeansSendable ==
    parent = "database" /\ DefaultsRefused = "" => CanSend(SectionDefaults)

(***************************************************************************)
(* No two fields of a section meet in one property, so each is set         *)
(* (GUIDE.md:1441).                                                        *)
(***************************************************************************)
EveryFieldIsSet ==
    verdict = "published" /\ isRow /\ section.optIn =>
        \A i \in DOMAIN section.fields :
            LET field == AuthoredFields(section.fields)[i]
            IN  field \in ToSet(LeftToTheSection(AuthoredFields(section.fields), DOMAIN target)) =>
                \E name \in PropertyNamed(field, schema) :
                    /\ Fold[name] = Fold[field.key]
                    /\ {Fold[w] : w \in ToSet(row[name])} = {Fold[w] : w \in ToSet(field.words)}

(***************************************************************************)
(* A publish leaves alone the properties neither this publish nor the one  *)
(* before it set.                                                          *)
(***************************************************************************)
LeavesOthersAlone ==
    verdict' = "published" /\ rendered # None =>
        \A name \in DOMAIN row : name \notin DOMAIN rendered \cup DOMAIN rendered' => row'[name] = row[name]

=============================================================================
