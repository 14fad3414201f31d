---------------------------- MODULE SectionOrder ------------------------------
(***************************************************************************)
(* The sections of one item: the order the YAML gives them, the order the  *)
(* service holds, the steps that bring one to the other, and runs that     *)
(* stop between two of them.                                               *)
(*                                                                         *)
(* Publish compares an item part by part and leaves their order out.  Here *)
(* a content is the sequence of its sections, and everything the next run  *)
(* knows of a write without an answer is what the item reads as.           *)
(***************************************************************************)
EXTENDS Naturals, Sequences, SequencesExt, FiniteSets, Keying

CONSTANTS
  Keys,         \* the keys of sections
  Texts,        \* what a section may hold; 1 is what the first publish wrote
  Granularity,  \* "section" or "content": Connector.writes
  None,         \* no write under way
  MaxEdits,     \* bound: changes of the YAML
  MaxHands,     \* bound: changes a person makes in the service
  MaxStops      \* bound: writes without an answer

OrderAssumption ==
  /\ IsFiniteSet(Keys) /\ None \notin STRING
  /\ Texts \subseteq Nat /\ 1 \in Texts
  /\ Granularity \in {"section", "content"}
  /\ MaxEdits \in Nat /\ MaxHands \in Nat /\ MaxStops \in Nat

VARIABLES
  yaml,      \* the sections of the draft
  page,      \* the sections as the service holds them
  rendered,  \* item.rendered.sections
  remote,    \* item.remote.sections: the copy read after the last write
  writing,   \* item.writing: the parts under way and what they are to leave
  steps,     \* the steps of the run that are left
  pc,        \* "idle", "apply", or "refused": edits stop the run
  shown,     \* the edits a run stopped for
  touched,   \* a person has changed the item since the service was last read
  edits, hands, stops

vars == <<yaml, page, rendered, remote, writing, steps, pc, shown, touched,
          edits, hands, stops>>

KeysOf(c) == [n \in DOMAIN c |-> c[n].key]
KeySet(c) == {c[n].key : n \in DOMAIN c}
TextOf(c, k) == c[CHOOSE n \in DOMAIN c : c[n].key = k].text
\* sections.get(key): 0 for none
Get(c, k) == IF k \in KeySet(c) THEN TextOf(c, k) ELSE 0

\* The sections named once each, in every order.
Contents(texts) ==
  {c \in UNION {[1..n -> [key : Keys, text : texts]] : n \in 0..Cardinality(Keys)} :
     \A i, j \in DOMAIN c : c[i].key = c[j].key => i = j}

------------------------------------------------------------------------------
(* content.py                                                                *)

\* _keys_kept_in_place
KeptInPlace(old, new) ==
  LET m == MatchingBlocks(KeysOf(old), KeysOf(new))
  IN UNION {{old[m[n][1] + i].key : i \in 0..(m[n][3] - 1)} : n \in DOMAIN m}

\* Mutant: a section that moved with its text unchanged is not written.
WrittenByText(old, new) == {k \in KeySet(new) : Get(old, k) # Get(new, k)}

\* section_changes
Written(old, new) ==
  {k \in KeySet(new) : k \notin KeptInPlace(old, new) \/ Get(old, k) # Get(new, k)}
Removed(old, new) == KeySet(old) \ KeySet(new)

\* differing_parts, of the sections
Differing(old, new) == Written(old, new) \cup Removed(old, new)

\* _place_after: how many of the others come before; `follows` None is the top.
PlaceAfter(follows, keys) ==
  CASE follows = None -> 0
    [] follows # None /\ follows \in ToSet(keys) ->
         CHOOSE n \in DOMAIN keys : keys[n] = follows
    [] OTHER -> Len(keys)

\* placed_section: text 0 removes it.
PlacedSection(c, k, text, follows) ==
  LET others == SelectSeq(c, LAMBDA s : s.key # k)
      at == PlaceAfter(follows, KeysOf(others))
  IN IF text = 0 THEN others
     ELSE InsertAt(others, at + 1, [key |-> k, text |-> text])

\* The section before k: what a write of it follows.
Previous(c, k) ==
  LET n == CHOOSE i \in DOMAIN c : c[i].key = k
  IN IF n = 1 THEN None ELSE c[n - 1].key

\* with_parts, part after part in the order they are listed.
WithParts(before, after, parts) ==
  FoldLeft(LAMBDA c, k : IF k \in KeySet(after)
                         THEN PlacedSection(c, k, TextOf(after, k), Previous(after, k))
                         ELSE PlacedSection(c, k, 0, None),
           before, parts)

------------------------------------------------------------------------------
(* plan.py, for one item                                                     *)

\* item_steps, _section_updates: the sections written in the draft's order,
\* then the ones removed.
Steps(last, draft, rewritten) ==
  LET written == Written(last, draft) \cup (rewritten \cap KeySet(draft))
      removed == Removed(last, draft) \cup (rewritten \ KeySet(draft))
      inOrder == SelectSeq(KeysOf(draft), LAMBDA k : k \in written)
      keys == inOrder \o SetToSeq(removed)
  IN IF keys = <<>> THEN <<>>
     ELSE IF Granularity = "content" THEN <<keys>>
     ELSE [n \in DOMAIN keys |-> <<keys[n]>>]

\* What the item holds once a step is done: of its rendered text, of the
\* service's copy.  A write of the content leaves the draft's sections alone.
After(c, step) ==
  IF Granularity = "content" THEN yaml ELSE WithParts(c, yaml, step)

------------------------------------------------------------------------------

Init ==
  /\ page \in Contents({1})
  /\ rendered = page /\ remote = page /\ yaml = page
  /\ writing = None /\ steps = <<>> /\ pc = "idle" /\ shown = {}
  /\ touched = FALSE /\ edits = 0 /\ hands = 0 /\ stops = 0

\* The YAML changes between two runs.
EditYaml ==
  /\ pc # "apply" /\ edits < MaxEdits
  /\ yaml' \in Contents(Texts) \ {yaml}
  /\ edits' = edits + 1
  /\ UNCHANGED <<page, rendered, remote, writing, steps, pc, shown, touched, hands, stops>>

\* A person moves, rewrites or removes a section.
EditPage ==
  /\ pc # "apply" /\ hands < MaxHands
  /\ \E k \in KeySet(page), t \in Texts \cup {0}, f \in KeySet(page) \cup {None} :
       page' = PlacedSection(page, k, t, f)
  /\ page' # page
  /\ hands' = hands + 1 /\ touched' = TRUE
  /\ UNCHANGED <<yaml, rendered, remote, writing, steps, pc, shown, edits, stops>>

\* _settled: the parts under way that read as they were being written.
Landed(edited) ==
  IF writing = None THEN {}
  ELSE {k \in edited \cap ToSet(writing.parts) : Get(page, k) = Get(writing.rendered, k)}

\* read_published and prepare: read the item, settle what was under way, and
\* stop for what is left unless --overwrite was asked for after seeing it.
Run ==
  /\ pc # "apply"
  /\ LET edited == Differing(remote, page)
         landed == Landed(edited)
         rest == edited \ landed
         inOrder == IF writing = None THEN <<>>
                    ELSE SelectSeq(writing.parts, LAMBDA k : k \in landed)
         now == IF writing = None THEN rendered
                ELSE WithParts(rendered, writing.rendered, inOrder)
     IN /\ rendered' = now
        /\ \/ /\ rest = {}
              /\ remote' = IF writing = None THEN remote ELSE page
              /\ writing' = None
           \/ /\ rest # {}
              /\ remote' = WithParts(remote, page, inOrder)
              /\ writing' = IF writing = None \/ inOrder = <<>> THEN writing
                            ELSE [writing EXCEPT !.parts = inOrder]
        /\ \/ /\ rest = {} \/ rest = shown
              /\ steps' = Steps(now, yaml, rest)
              /\ pc' = "apply" /\ shown' = {} /\ touched' = FALSE
           \/ /\ rest # {} /\ rest # shown
              /\ pc' = "refused" /\ shown' = rest
              /\ UNCHANGED <<steps, touched>>
  /\ UNCHANGED <<yaml, page, edits, hands, stops>>

\* _section_write: a section to remove that the item has not is not sent.
NothingToSend(step) ==
  Granularity = "section" /\ ToSet(step) \cap (KeySet(page) \cup KeySet(yaml)) = {}

\* _write_section: the text is recorded, and the copy stays as it was.
Skip ==
  /\ pc = "apply" /\ steps # <<>> /\ NothingToSend(Head(steps))
  /\ rendered' = After(rendered, Head(steps))
  /\ steps' = Tail(steps)
  /\ UNCHANGED <<yaml, page, remote, writing, pc, shown, touched, edits, hands, stops>>

\* Applier._written: the write lands and is recorded.
Write ==
  /\ pc = "apply" /\ steps # <<>> /\ ~NothingToSend(Head(steps))
  /\ page' = After(page, Head(steps))
  /\ rendered' = After(rendered, Head(steps))
  /\ remote' = page'
  /\ writing' = None
  /\ steps' = Tail(steps)
  /\ UNCHANGED <<yaml, pc, shown, touched, edits, hands, stops>>

\* The write is noted, sent, and not answered: it landed or not, and the run
\* stops.
Unanswered ==
  /\ pc = "apply" /\ steps # <<>> /\ stops < MaxStops
  /\ ~NothingToSend(Head(steps))
  /\ writing' = [parts |-> Head(steps), rendered |-> After(rendered, Head(steps))]
  /\ page' \in {page, After(page, Head(steps))}
  /\ pc' = "idle" /\ steps' = <<>>
  /\ stops' = stops + 1
  /\ UNCHANGED <<yaml, rendered, remote, shown, touched, edits, hands>>

RunDone ==
  /\ pc = "apply" /\ steps = <<>>
  /\ pc' = "idle"
  /\ UNCHANGED <<yaml, page, rendered, remote, writing, steps, shown, touched,
                 edits, hands, stops>>

Next ==
  \/ EditYaml \/ EditPage
  \/ Run \/ Skip \/ Write \/ Unanswered \/ RunDone

Spec == Init /\ [][Next]_vars

------------------------------------------------------------------------------
(* Properties                                                                *)

TypeOK ==
  /\ {yaml, page, rendered, remote} \subseteq Contents(Texts)
  /\ pc \in {"idle", "apply", "refused"}
  /\ steps # <<>> => pc = "apply"
  /\ shown \subseteq Keys /\ touched \in BOOLEAN

\* A run that has sent its last step leaves the service with the sections of
\* the YAML, in its order, whatever moved, came or went, and wherever earlier
\* runs stopped (_section_updates, placed_section).
DoneIsInOrder == pc = "apply" /\ steps = <<>> => page = yaml /\ rendered = yaml

\* A write without an answer is never taken for a person's edit: a run stops
\* only for an item somebody else has changed (_settled).
OnlyEditsStopARun == pc = "refused" => touched

==============================================================================
