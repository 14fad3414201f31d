------------------------------ MODULE MCPublish ------------------------------
(***************************************************************************)
(* Instances of Publish for TLC: contents of one field and one or two      *)
(* sections, texts of which one is formatted by the service, and the       *)
(* drafts a person may put in the YAML.                                    *)
(***************************************************************************)
EXTENDS PublishProperties, TLC

CONSTANTS doc, sec, field, intro, body, blank, plain, other, raw, unkeyed

\* The service gives `raw` back as `plain`.
FormDef == [t \in Texts |-> IF t = raw THEN plain ELSE t]

Of(t, u) == [x \in Parts |-> IF x \in FieldParts THEN t ELSE u]

OnlyDocument(c) == [r \in Refs |-> IF r = Document THEN c ELSE None]

Both(c, d) == [r \in Refs |-> IF r = Document THEN c ELSE d]

Nothing == [r \in Refs |-> None]

\* A document with a split section, without it, and no longer published.
CreateFirst == Both(Of(plain, raw), Of(plain, plain))
CreateYamls == {CreateFirst, OnlyDocument(Of(plain, raw)), Nothing}

\* A page written into, rewritten, and released.
IntoFirst == OnlyDocument(Of(plain, raw))
IntoYamls == {IntoFirst, OnlyDocument(Of(plain, blank)), Nothing}

\* A page written into that is rewritten and then loses its section.
CommandYamls == IntoYamls \cup {OnlyDocument(Of(plain, other))}

\* One item that two commands publish.
RaceFirst == OnlyDocument(Of(blank, raw))
RaceYamls == {RaceFirst, OnlyDocument(Of(blank, other))}

IdSymmetry == Permutations(Ids)

==============================================================================
