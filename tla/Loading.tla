------------------------------- MODULE Loading -------------------------------
(***************************************************************************)
(* How one page is put together from content files: `!include` splices a   *)
(* file's blocks in, and an index lists whole documents as the parts of    *)
(* its page, merging what each declares.  content_files walks the same     *)
(* files apart from that, for `--watch` and `--if-stale` to follow.        *)
(*                                                                         *)
(* A block is [path, id, names, badge]: an include has a path, and any     *)
(* other may have an id, name the id of another block and show a badge.    *)
(* A file is a document or one block, for others to include, and its       *)
(* content is [document, parts, blocks, badges, docId, site], an index the *)
(* one with parts.                                                         *)
(***************************************************************************)
EXTENDS Integers, Sequences, FiniteSets, SequencesExt

CONSTANTS
  Main,      \* the path a command is given
  Contents,  \* what each file may hold
  Target,    \* the file each path resolves to, or None
  Absolute,  \* the paths that are absolute
  Outside,   \* the paths that resolve outside the folder of the index
  MaxDepth,  \* _MAX_INCLUDE_DEPTH
  None

VARIABLES
  files,     \* what the files hold; None: not there, or not YAML
  page,      \* what was loaded; None before that
  followed   \* the files content_files names; None: none could be named

vars == <<files, page, followed>>

Refused == [ok |-> FALSE]

------------------------------------------------------------------------------
(* _load_yaml_with_includes                                                  *)

Loads(blocks, used) == [ok |-> TRUE, blocks |-> blocks, used |-> used]

\* What the items of a file come to, one after another, and the files used.
Spliced(f, loaded) ==
  IF \E n \in DOMAIN loaded : ~loaded[n].ok THEN Refused
  ELSE Loads(FlattenSeq([n \in DOMAIN loaded |-> loaded[n].blocks]),
             {f} \cup UNION {loaded[n].used : n \in DOMAIN loaded})

\* Only a block stands among blocks: the model refuses a document there.
Standing(f, loaded) ==
  IF loaded.ok /\ files[f].document THEN Loads(<<None>>, loaded.used) ELSE loaded

RECURSIVE LoadYaml(_, _)
LoadYaml(path, ancestors) ==
  LET f == Target[path]
      Included(block) == IF block.path = None THEN Loads(<<block>>, {})
                         ELSE IF block.path \in Absolute THEN Refused
                         ELSE Standing(Target[block.path], LoadYaml(block.path, Append(ancestors, f)))
  IN IF f = None \/ Contains(ancestors, f) \/ Len(ancestors) >= MaxDepth \/ files[f] = None
     THEN Refused
     ELSE Spliced(f, <<>> \o [n \in DOMAIN files[f].blocks |-> Included(files[f].blocks[n])])

Content(path) == files[Target[path]]

------------------------------------------------------------------------------
(* Report                                                                    *)

IdsOf(blocks) == {blocks[n].id : n \in {m \in DOMAIN blocks : blocks[m].id # None}}

\* _refuse_repeats
Repeats(blocks) ==
  \E m, n \in DOMAIN blocks : m # n /\ blocks[m].id # None /\ blocks[m].id = blocks[n].id

\* The validators of Report: some blocks and nothing else; every badge declared, every id one
\* block's, every name an id.
ValidReport(blocks, badges) ==
  /\ blocks # <<>> /\ None \notin ToSet(blocks) /\ ~Repeats(blocks)
  /\ \A n \in DOMAIN blocks :
       /\ blocks[n].badge \in DOMAIN badges \cup {None}
       /\ blocks[n].names \in IdsOf(blocks) \cup {None}

------------------------------------------------------------------------------
(* _combined_index                                                           *)

\* Index: at least one part, none twice, none absolute or above the folder.
ValidIndex(parts) ==
  parts # <<>> /\ IsInjective(parts) /\ ToSet(parts) \cap Absolute = {}

\* _part_file, _loaded_part
LoadPart(path) ==
  IF path \in Outside THEN Refused
  ELSE LET loaded == LoadYaml(path, <<>>)
       IN IF ~loaded.ok THEN Refused
          ELSE IF Content(path).parts # None THEN Refused
          ELSE IF ~Content(path).document \/ ~ValidReport(loaded.blocks, Content(path).badges)
          THEN Refused
          ELSE loaded

\* Mutant: the part that declares a badge last decides what it is.
LastDeclared(declared) ==
  [ok |-> TRUE, merged |-> FoldLeft(LAMBDA all, badges : badges @@ all, <<>>, declared)]

\* _merged_badges, _merged_people: a key stands for one thing in all of them.
MergedBadges(declared) ==
  [ok |-> \A m, n \in DOMAIN declared :
            \A key \in DOMAIN declared[m] \cap DOMAIN declared[n] : declared[m][key] = declared[n][key],
   merged |-> FoldLeft(LAMBDA all, badges : all @@ badges, <<>>, declared)]

\* _merged_jira_site: the first one given, if all that are given agree.
SitesAgree(sites) == Cardinality(ToSet(sites) \ {None}) <= 1
MergedSite(sites) ==
  IF ToSet(sites) = {None} THEN None ELSE CHOOSE s \in ToSet(sites) : s # None

\* _refuse_a_doc_id_published_twice
PublishedTwice(docIds) ==
  \E m, n \in DOMAIN docIds : m # n /\ docIds[m] # None /\ docIds[m] = docIds[n]

\* The page of an index: its own blocks, then each part's as one.
CombinedBy(index, intro, loaded, badges) ==
  LET parts == [n \in DOMAIN loaded |-> loaded[n].blocks]
      contents == [n \in DOMAIN loaded |-> Content(index.parts[n])]
      sites == <<index.site>> \o [n \in DOMAIN contents |-> contents[n].site]
      whole == FlattenSeq(<<intro.blocks>> \o parts)
  IN IF \/ PublishedTwice([n \in DOMAIN contents |-> contents[n].docId])
        \/ ~badges.ok \/ ~SitesAgree(sites) \/ ~ValidReport(whole, badges.merged)
     THEN Refused
     ELSE [ok |-> TRUE, blocks |-> whole, parts |-> parts, places |-> Len(intro.blocks),
           badges |-> badges.merged, site |-> MergedSite(sites),
           used |-> intro.used \cup UNION {loaded[n].used : n \in DOMAIN loaded}]

CombinedIndex(index, intro) ==
  IF index.docId # None \/ ~ValidIndex(index.parts) THEN Refused
  ELSE LET loaded == <<>> \o [n \in DOMAIN index.parts |-> LoadPart(index.parts[n])]
       IN IF \E n \in DOMAIN loaded : ~loaded[n].ok THEN Refused
          ELSE CombinedBy(index, intro, loaded,
                 MergedBadges(<<index.badges>> \o
                   [n \in DOMAIN loaded |-> Content(index.parts[n]).badges]))

\* load_report
LoadReport ==
  LET main == LoadYaml(Main, <<>>)
      own == Content(Main)
  IN IF ~main.ok THEN Refused
     ELSE IF own.parts # None THEN CombinedIndex(own, main)
     ELSE IF ~own.document \/ ~ValidReport(main.blocks, own.badges) THEN Refused
     ELSE [ok |-> TRUE, blocks |-> main.blocks, parts |-> <<>>, places |-> Len(main.blocks),
           badges |-> own.badges, site |-> own.site, used |-> main.used]

\* content_files: it neither validates a part nor refuses an index as one.
ContentFiles ==
  LET main == LoadYaml(Main, <<>>)
      parts == Content(Main).parts
      loaded == [n \in DOMAIN parts |-> IF parts[n] \in Outside THEN Refused
                                        ELSE LoadYaml(parts[n], <<>>)]
  IN IF ~main.ok THEN None
     ELSE IF parts = None THEN main.used
     ELSE IF ~ValidIndex(parts) \/ \E n \in DOMAIN parts : ~loaded[n].ok THEN None
     ELSE main.used \cup UNION {loaded[n].used : n \in DOMAIN parts}

Init ==
  /\ files \in FoldSet(LAMBDA f, gs : {g @@ (f :> c) : g \in gs, c \in Contents[f]},
                      {<<>>}, DOMAIN Contents)
  /\ page = None /\ followed = None

Load ==
  /\ page = None
  /\ page' = LoadReport /\ followed' = ContentFiles
  /\ UNCHANGED files

Next == Load

Spec == Init /\ [][Next]_vars

------------------------------------------------------------------------------
(* Properties                                                                *)

Loaded == page # None /\ page.ok

\* What is followed is what the page is made of, so a save to any file of it is
\* seen: two walks of the files that are written apart agree.
FollowsWhatItShows == Loaded => followed = page.used

Includes(f) == {Target[b.path] : b \in {c \in ToSet(files[f].blocks) : c.path # None}}
There == {f \in DOMAIN files : files[f] # None}

\* The files that one file reaches: the least set that holds it and what each
\* of its files includes.
Reached(f) ==
  LET closed == {S \in SUBSET (DOMAIN files \cup {None}) :
                   f \in S /\ \A g \in S \cap There : Includes(g) \subseteq S}
  IN {g \in DOMAIN files \cup {None} : \A S \in closed : g \in S}

\* A file is taken exactly when everything it reaches is there, none of it
\* includes itself by way of others, and no chain is too long.
Chain(f, chain) ==
  chain[1] = f /\ \A n \in 1..(Len(chain) - 1) : chain[n + 1] \in Includes(chain[n])
Sound(f) ==
  /\ Reached(f) \subseteq There
  /\ \A g \in Reached(f) : \A b \in ToSet(files[g].blocks) : b.path \notin Absolute
  /\ \A g \in Reached(f) : \A h \in Includes(g) : g \notin Reached(h)
  /\ ~\E chain \in [1..(MaxDepth + 1) -> There] : Chain(f, chain)
TakenWhenSound == page # None => (LoadYaml(Main, <<>>).ok <=> Sound(Target[Main]))

\* Each part reads on the page of an index as it does alone: its blocks stand
\* together in its place, each name is a block's of its own, and each badge is
\* what it declares.
PartsReadAsAlone ==
  Loaded => \A n \in DOMAIN page.parts :
    LET before == page.places + FoldLeft(LAMBDA l, p : l + Len(p), 0, SubSeq(page.parts, 1, n - 1))
        own == Content(Content(Main).parts[n])
        here == (before + 1)..(before + Len(page.parts[n]))
    IN /\ LoadPart(Content(Main).parts[n]).blocks = SubSeq(page.blocks, before + 1, before + Len(page.parts[n]))
       /\ \A m \in here : \A o \in DOMAIN page.blocks :
            page.blocks[m].names # None /\ page.blocks[o].id = page.blocks[m].names => o \in here
       /\ \A key \in DOMAIN own.badges : page.badges[key] = own.badges[key]
       /\ own.site \in {None, page.site}

==============================================================================
