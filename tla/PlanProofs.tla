----------------------------- MODULE PlanProofs ------------------------------
(***************************************************************************)
(* What is proved of PlanOrder, for any targets, sections, publish blocks, *)
(* revisions, deletes and faults: the items that the plans of runs create, *)
(* retire and link, and what the state file holds of them when a run has   *)
(* ended or was stopped.  Module WritesProofs gives the lemmas on          *)
(* sequences that are joined; its machines have no part in this one.       *)
(***************************************************************************)
EXTENDS WritesProofs

CONSTANTS Labels, Ids, Service, LinksSections, Existing, Yamls, Doc, MaxRevisions, MaxDeletes

VARIABLES yaml, items, pending, revisions, deletes

Plans == INSTANCE PlanOrder

\* What the steps of a plan are joined from.
LEMMA FlattenedSteps ==
  ASSUME NEW S, NEW seqs \in Seq(Seq(S))
  PROVE  /\ Plans!FlattenSeq(seqs) \in Seq(S)
         /\ \E at : Joins(Plans!FlattenSeq(seqs), seqs, Len(seqs), at)
<1>1. Plans!FlattenSeq(seqs) = Slack!FlattenSeq(seqs)
  BY DEF Plans!FlattenSeq, Slack!FlattenSeq
<1>2. QED
  BY <1>1, Flattened

\* SetToSeq puts every element of a finite set in one place.
LEMMA EachInOnePlace ==
  ASSUME NEW S, IsFiniteSet(S)
  PROVE  LET s == Plans!SetToSeq(S)
         IN  /\ s \in Seq(S)
             /\ \A i, j \in 1..Len(s) : s[i] = s[j] => i = j
             /\ \A x \in S : \E i \in 1..Len(s) : s[i] = x
<1> DEFINE n == Cardinality(S)
           s == Plans!SetToSeq(S)
<1>1. n \in Nat
  BY FS_CardinalityType
<1>2. \E f \in [1..n -> S] : Plans!IsInjective(f)
  <2>1. PICK f : f \in Bijection(1..n, S)
    BY <1>1, FS_CardinalityType, FS_Bijection DEF ExistsBijection
  <2>2. QED
    BY <2>1 DEF Bijection, Injection, IsInjective, Plans!IsInjective
<1>3. s \in [1..n -> S] /\ Plans!IsInjective(s)
  <2>1. Plans!Cardinality(S) = n
    BY DEF Plans!Cardinality, Cardinality
  <2>2. s = CHOOSE f \in [1..n -> S] : Plans!IsInjective(f)
    BY <2>1 DEF Plans!SetToSeq
  <2>3. QED
    BY <1>2, <2>2
<1> HIDE DEF s
<1>4. s \in Injection(1..n, S)
  BY <1>3 DEF Injection, IsInjective, Plans!IsInjective
<1>5. Cardinality(1..n) = n /\ IsFiniteSet(1..n)
  BY <1>1, FS_Interval
<1>6. s \in Surjection(1..n, S)
  BY <1>4, <1>5, FS_Injection
<1>7. \A x \in S : \E i \in 1..n : s[i] = x
  BY <1>6 DEF Surjection
<1>8. s \in Seq(S) /\ Len(s) = n
  BY <1>1, <1>3
<1>9. /\ s \in Seq(S)
      /\ \A i, j \in 1..Len(s) : s[i] = s[j] => i = j
      /\ \A x \in S : \E i \in 1..Len(s) : s[i] = x
  BY <1>3, <1>7, <1>8 DEF Plans!IsInjective
<1>10. QED
  BY <1>9 DEF s

PlanStep == [do : {"create", "retire"}, ref : Plans!Refs, into : Ids \cup {None}]
HeldItem == [id : Ids, retiring : BOOLEAN, links : SUBSET Ids]
Item == [life : {"none", "there", "gone"}, of : Plans!Refs \cup {None}, under : Ids \cup {None},
         links : SUBSET Ids]
DocOf(r) == <<r[1], Doc>>

\* A create is of what is drafted and not held, or held and missing, and comes
\* after its document's.
CreatesFit(remaining, drafts, h, missing) ==
  \A k \in 1..Len(remaining) : remaining[k].do = "create" =>
    /\ remaining[k].ref \in Plans!Drafted(drafts)
    /\ remaining[k].ref \in DOMAIN h => remaining[k].ref \in missing
    /\ remaining[k].ref[2] = Doc \/ DocOf(remaining[k].ref) \in DOMAIN h
       \/ \E j \in 1..(k - 1) : remaining[j].do = "create" /\ remaining[j].ref = DocOf(remaining[k].ref)

\* A retirement is of what is held and not drafted, and a document's comes after
\* those of its sections.
RetiresFit(remaining, drafts, h, missing, inHand) ==
  \A k \in 1..Len(remaining) : remaining[k].do = "retire" =>
    /\ remaining[k].ref \in DOMAIN h \ Plans!Drafted(drafts)
    /\ remaining[k].ref \in missing \cup inHand
    /\ remaining[k].ref[2] = Doc =>
         \A r \in DOMAIN h : r[1] = remaining[k].ref[1] /\ r[2] # Doc =>
           \E j \in 1..(k - 1) : remaining[j].do = "retire" /\ remaining[j].ref = r

\* Of these targets, what is drafted is held or will be, and nothing else.
LeavesDrafted(remaining, targets, drafts, h) ==
  /\ \A r \in Plans!Drafted(drafts) : r[1] \in targets =>
       r \in DOMAIN h \/ \E k \in 1..Len(remaining) : remaining[k].do = "create" /\ remaining[k].ref = r
  /\ \A r \in DOMAIN h \ Plans!Drafted(drafts) : r[1] \in targets =>
       \E k \in 1..Len(remaining) : remaining[k].do = "retire" /\ remaining[k].ref = r

\* What a run has left to do in some targets.
IsPlan(remaining, targets, drafts, h, missing, inHand) ==
  /\ remaining \in Seq(PlanStep)
  /\ \A k \in 1..Len(remaining) : remaining[k].ref[1] \in targets
  /\ \A j, k \in 1..Len(remaining) : remaining[j].ref = remaining[k].ref => j = k
  /\ CreatesFit(remaining, drafts, h, missing)
  /\ RetiresFit(remaining, drafts, h, missing, inHand)
  /\ LeavesDrafted(remaining, targets, drafts, h)

\* Only documents are made of pages that are there, each of its target's.
IntoDocuments(remaining) ==
  \A k \in 1..Len(remaining) :
    remaining[k].into # None => remaining[k].ref[2] = Doc /\ remaining[k].into = Existing[remaining[k].ref[1]]

PlanTypes ==
  /\ yaml \in Yamls /\ items \in [Ids -> Item]
  /\ DOMAIN held \subseteq Plans!Refs /\ held \in [DOMAIN held -> HeldItem]
  /\ pending \subseteq [ref : Plans!Refs, into : Ids \cup {None}]
  /\ run \in [drafts : Yamls \cup {<<>>}, read : SUBSET Plans!Refs, todo : Seq(PlanStep)]
  /\ pc \in {"idle", "note", "send", "record"}

Unheld(r) == {i \in Ids : /\ Plans!There(i) /\ items[i].of = r
                          /\ \A q \in DOMAIN held : held[q].id # i}

\* One create may be noted; what it has made is where it says, and what is held
\* in its place is gone.
NotedFits ==
  /\ \A p, q \in pending : p = q
  /\ \A p \in pending :
       /\ p.into # None => p.ref[2] = Doc /\ Unheld(p.ref) \subseteq {p.into}
       /\ p.ref \in DOMAIN held => p.ref \in Plans!MissingOf(held)

\* How far the step under way is.
StepFits ==
  /\ pc = "idle" => run.todo = <<>>
  /\ pc = "note" => pending = {}
  /\ pc \in {"send", "record"} => run.todo # <<>>
  /\ pc \in {"send", "record"} /\ Plans!Step.do = "retire" => pending = {}
  /\ pc \in {"send", "record"} /\ Plans!Step.do = "create" =>
       \E p \in pending : p.ref = Plans!Step.ref /\ (pc = "send" => p.into = Plans!Step.into)
  /\ pc = "send" /\ Plans!Step.do = "create" => Unheld(Plans!Step.ref) = {}
  /\ pc = "record" /\ Plans!Step.do = "create" =>
       /\ Plans!Step.into \in Ids /\ items[Plans!Step.into].life # "none"
       /\ Unheld(Plans!Step.ref) \subseteq {Plans!Step.into}
  /\ pc = "record" /\ Plans!Step.do = "retire" =>
       LET i == held[Plans!Step.ref].id IN ~Plans!There(i) \/ items[i].of = None
  /\ \A k \in 1..Len(run.todo) :
       run.todo[k].into # None /\ (pc = "record" => k # 1) => run.todo[k].ref[2] = Doc

\* A document being retired has no sections left and gets none.
RetiringIsLast ==
  \A r \in DOMAIN held : held[r].retiring /\ r[2] = Doc =>
    /\ \A q \in DOMAIN held : q[1] = r[1] => q[2] = Doc
    /\ \A k \in 1..Len(run.todo) : run.todo[k].do = "create" => run.todo[k].ref[1] # r[1]

HeldIsMade == \A r \in DOMAIN held : items[held[r].id].life # "none"

PlanInvariant ==
  /\ PlanTypes /\ NotedFits /\ StepFits /\ RetiringIsLast /\ HeldIsMade
  /\ pc # "idle" => IsPlan(run.todo, Labels, run.drafts, held, Plans!MissingOf(held), run.read)
  /\ Plans!SectionsHaveADocument /\ Plans!NothingLost

\* Sequences that are plans of targets that are not one another's.
PlansOf(seqs, targets, all, drafts, h, missing, inHand) ==
  /\ \A k \in 1..Len(seqs) : targets[k] \subseteq all
  /\ \A k \in 1..Len(seqs) : IsPlan(seqs[k], targets[k], drafts, h, missing, inHand)
  /\ \A k \in 1..Len(seqs) : IntoDocuments(seqs[k])
  /\ \A t \in all : \E k \in 1..Len(seqs) : t \in targets[k]
  /\ \A j, k \in 1..Len(seqs) : targets[j] \cap targets[k] # {} => j = k

LEMMA JoinedPlans ==
  ASSUME NEW drafts, NEW h, NEW missing, NEW inHand,
         NEW seqs \in Seq(Seq(PlanStep)), NEW F \in Seq(PlanStep), NEW at,
         Joins(F, seqs, Len(seqs), at), NEW targets, NEW all,
         PlansOf(seqs, targets, all, drafts, h, missing, inHand)
  PROVE  IsPlan(F, all, drafts, h, missing, inHand) /\ IntoDocuments(F)
<1> DEFINE n == Len(seqs)
           N == 1..Len(F)
<1>17. /\ \A k \in 1..Len(seqs) : /\ targets[k] \subseteq all
                                /\ IsPlan(seqs[k], targets[k], drafts, h, missing, inHand)
                                /\ IntoDocuments(seqs[k])
       /\ \A t \in all : \E k \in 1..Len(seqs) : t \in targets[k]
       /\ \A j, k \in 1..Len(seqs) : targets[j] \cap targets[k] # {} => j = k
  BY DEF PlansOf
<1> USE <1>17
<1>1. \A p \in N :
        /\ at[p] \in Nat \X Nat /\ at[p][1] \in 1..n
        /\ at[p][2] \in 1..Len(seqs[at[p][1]])
        /\ F[p] = seqs[at[p][1]][at[p][2]]
  BY DEF Joins
<1>2. \A p, q \in N : at[p] = at[q] => p = q
  BY DEF Joins
<1>3. \A k \in 1..n : \A i, j \in 1..Len(seqs[k]) : \A p \in N :
        i < j /\ at[p] = <<k, j>> => \E q \in 1..(p - 1) : at[q] = <<k, i>>
  <2>1. SUFFICES ASSUME NEW k \in 1..n, NEW i \in 1..Len(seqs[k]), NEW j \in 1..Len(seqs[k]),
                        NEW p \in N, i < j, at[p] = <<k, j>>
                 PROVE  \E q \in 1..(p - 1) : at[q] = <<k, i>>
    OBVIOUS
  <2>2. PICK q \in N : at[q] = <<k, i>>
    BY DEF Joins
  <2>3. ~(p < q)
    <3>1. p < q => at[p][1] < at[q][1] \/ (at[p][1] = at[q][1] /\ at[p][2] < at[q][2])
      BY DEF Joins
    <3>2. at[p][1] = k /\ at[q][1] = k /\ at[p][2] = j /\ at[q][2] = i
      BY <2>1, <2>2
    <3>3. ~(k < k) /\ ~(j < i)
      BY <2>1
    <3>4. QED
      BY <3>1, <3>2, <3>3
  <2>4. p # q
    BY <2>1, <2>2
  <2>5. q \in 1..(p - 1)
    BY <2>3, <2>4
  <2>6. QED
    BY <2>2, <2>5
<1>4. \A k \in 1..n : \A j \in 1..Len(seqs[k]) : \E p \in N : at[p] = <<k, j>>
  BY DEF Joins
<1>5. \A k \in 1..n : \A j \in 1..Len(seqs[k]) : \A p \in N : at[p] = <<k, j>> => F[p] = seqs[k][j]
  BY <1>1
<1>6. \A p \in N : at[p] = <<at[p][1], at[p][2]>>
  BY <1>1
<1>15. \A p \in N : \E k \in 1..n, j \in Nat :
         j \in 1..Len(seqs[k]) /\ at[p] = <<k, j>> /\ F[p] = seqs[k][j]
  <2>1. TAKE p \in N
  <2> DEFINE k == at[p][1]
             j == at[p][2]
  <2>2. /\ k \in 1..n /\ j \in Nat /\ j \in 1..Len(seqs[k])
        /\ at[p] = <<k, j>> /\ F[p] = seqs[k][j]
    BY <1>1, <1>6
  <2> HIDE DEF k, j
  <2>3. QED
    BY <2>2
<1>16. \A k \in 1..n : \A j \in 1..Len(seqs[k]) :
         /\ seqs[k][j].ref[1] \in targets[k]
         /\ seqs[k][j].into # None => seqs[k][j].ref[2] = Doc /\ seqs[k][j].into = Existing[seqs[k][j].ref[1]]
         /\ \A i \in 1..Len(seqs[k]) : seqs[k][i].ref = seqs[k][j].ref => i = j
  BY DEF IsPlan, IntoDocuments
<1>7. \A p \in N : F[p].ref[1] \in all
  <2>1. TAKE p \in N
  <2>2. PICK k \in 1..n, j \in Nat : j \in 1..Len(seqs[k]) /\ F[p] = seqs[k][j]
    BY <1>15
  <2>3. F[p].ref[1] \in targets[k]
    BY <1>16, <2>2
  <2>4. QED
    BY <2>3
<1>8. \A p, q \in N : F[p].ref = F[q].ref => p = q
  <2>1. SUFFICES ASSUME NEW p \in N, NEW q \in N, F[p].ref = F[q].ref PROVE p = q
    OBVIOUS
  <2>2. PICK k \in 1..n, j \in Nat : j \in 1..Len(seqs[k]) /\ at[p] = <<k, j>> /\ F[p] = seqs[k][j]
    BY <1>15
  <2>3. PICK m \in 1..n, i \in Nat : i \in 1..Len(seqs[m]) /\ at[q] = <<m, i>> /\ F[q] = seqs[m][i]
    BY <1>15
  <2>4. seqs[k][j].ref = seqs[m][i].ref
    BY <2>1, <2>2, <2>3
  <2>5. seqs[k][j].ref[1] \in targets[k] \cap targets[m]
    BY <1>16, <2>2, <2>3, <2>4
  <2>6. k = m
    BY <2>5
  <2>7. i = j
    BY <1>16, <2>2, <2>3, <2>4, <2>6
  <2>8. QED
    BY <1>2, <2>2, <2>3, <2>6, <2>7
<1>9. CreatesFit(F, drafts, h, missing)
  <2>1. SUFFICES ASSUME NEW p \in N, F[p].do = "create"
                 PROVE  /\ F[p].ref \in Plans!Drafted(drafts)
                        /\ F[p].ref \in DOMAIN h => F[p].ref \in missing
                        /\ \/ F[p].ref[2] = Doc \/ DocOf(F[p].ref) \in DOMAIN h
                           \/ \E q \in 1..(p - 1) : F[q].do = "create" /\ F[q].ref = DocOf(F[p].ref)
    BY DEF CreatesFit
  <2> DEFINE k == at[p][1]
             j == at[p][2]
             s == seqs[k]
  <2>2. /\ k \in 1..n /\ j \in 1..Len(s) /\ F[p] = s[j] /\ at[p] = <<k, j>>
    BY <1>1, <1>6
  <2>3. CreatesFit(s, drafts, h, missing)
    BY <2>2 DEF IsPlan
  <2> HIDE DEF k, j, s
  <2>4. /\ s[j].ref \in Plans!Drafted(drafts)
        /\ s[j].ref \in DOMAIN h => s[j].ref \in missing
        /\ \/ s[j].ref[2] = Doc \/ DocOf(s[j].ref) \in DOMAIN h
           \/ \E i \in 1..(j - 1) : s[i].do = "create" /\ s[i].ref = DocOf(s[j].ref)
    BY <2>1, <2>2, <2>3 DEF CreatesFit
  <2>5. ASSUME NEW i \in 1..(j - 1) PROVE \E q \in 1..(p - 1) : F[q] = s[i]
    <3>1. i \in 1..Len(s) /\ i < j /\ Len(s) = Len(seqs[k])
      BY <2>2 DEF s
    <3>2. PICK q \in 1..(p - 1) : at[q] = <<k, i>>
      BY <1>3, <2>2, <3>1
    <3>3. q \in N
      OBVIOUS
    <3>4. QED
      BY <1>5, <2>2, <3>1, <3>2, <3>3 DEF s
  <2>6. QED
    BY <2>2, <2>4, <2>5
<1>10. RetiresFit(F, drafts, h, missing, inHand)
  <2>1. SUFFICES ASSUME NEW p \in N, F[p].do = "retire"
                 PROVE  /\ F[p].ref \in DOMAIN h \ Plans!Drafted(drafts)
                        /\ F[p].ref \in missing \cup inHand
                        /\ F[p].ref[2] = Doc =>
                             \A r \in DOMAIN h : r[1] = F[p].ref[1] /\ r[2] # Doc =>
                               \E q \in 1..(p - 1) : F[q].do = "retire" /\ F[q].ref = r
    BY DEF RetiresFit
  <2> DEFINE k == at[p][1]
             j == at[p][2]
             s == seqs[k]
  <2>2. /\ k \in 1..n /\ j \in 1..Len(s) /\ F[p] = s[j] /\ at[p] = <<k, j>>
    BY <1>1, <1>6
  <2>3. RetiresFit(s, drafts, h, missing, inHand)
    BY <2>2 DEF IsPlan
  <2> HIDE DEF k, j, s
  <2>4. /\ s[j].ref \in DOMAIN h \ Plans!Drafted(drafts)
        /\ s[j].ref \in missing \cup inHand
        /\ s[j].ref[2] = Doc =>
             \A r \in DOMAIN h : r[1] = s[j].ref[1] /\ r[2] # Doc =>
               \E i \in 1..(j - 1) : s[i].do = "retire" /\ s[i].ref = r
    BY <2>1, <2>2, <2>3 DEF RetiresFit
  <2>5. ASSUME NEW i \in 1..(j - 1) PROVE \E q \in 1..(p - 1) : F[q] = s[i]
    <3>1. i \in 1..Len(s) /\ i < j /\ Len(s) = Len(seqs[k])
      BY <2>2 DEF s
    <3>2. PICK q \in 1..(p - 1) : at[q] = <<k, i>>
      BY <1>3, <2>2, <3>1
    <3>3. q \in N
      OBVIOUS
    <3>4. QED
      BY <1>5, <2>2, <3>1, <3>2, <3>3 DEF s
  <2>6. ASSUME NEW r \in DOMAIN h, F[p].ref[2] = Doc, r[1] = F[p].ref[1], r[2] # Doc
        PROVE  \E q \in 1..(p - 1) : F[q].do = "retire" /\ F[q].ref = r
    <3>1. PICK i \in 1..(j - 1) : s[i].do = "retire" /\ s[i].ref = r
      BY <2>2, <2>4, <2>6
    <3>2. QED
      BY <2>5, <3>1
  <2>7. QED
    BY <2>2, <2>4, <2>6
<1>11. LeavesDrafted(F, all, drafts, h)
  <2>1. ASSUME NEW r \in Plans!Drafted(drafts), r[1] \in all, r \notin DOMAIN h
        PROVE  \E p \in N : F[p].do = "create" /\ F[p].ref = r
    <3>1. PICK k \in 1..n : r[1] \in targets[k]
      BY <2>1
    <3>2. PICK j \in 1..Len(seqs[k]) : seqs[k][j].do = "create" /\ seqs[k][j].ref = r
      BY <2>1, <3>1 DEF IsPlan, LeavesDrafted
    <3>3. PICK p \in N : at[p] = <<k, j>>
      BY <1>4
    <3>4. F[p] = seqs[k][j]
      BY <1>5, <3>3
    <3>5. QED
      BY <3>2, <3>4
  <2>2. ASSUME NEW r \in DOMAIN h \ Plans!Drafted(drafts), r[1] \in all
        PROVE  \E p \in N : F[p].do = "retire" /\ F[p].ref = r
    <3>1. PICK k \in 1..n : r[1] \in targets[k]
      BY <2>2
    <3>2. PICK j \in 1..Len(seqs[k]) : seqs[k][j].do = "retire" /\ seqs[k][j].ref = r
      BY <2>2, <3>1 DEF IsPlan, LeavesDrafted
    <3>3. PICK p \in N : at[p] = <<k, j>>
      BY <1>4
    <3>4. F[p] = seqs[k][j]
      BY <1>5, <3>3
    <3>5. QED
      BY <3>2, <3>4
  <2>3. QED
    BY <2>1, <2>2 DEF LeavesDrafted
<1>12. IntoDocuments(F)
  <2>1. ASSUME NEW p \in N, F[p].into # None
        PROVE  F[p].ref[2] = Doc /\ F[p].into = Existing[F[p].ref[1]]
    <3>1. PICK k \in 1..n, j \in Nat : j \in 1..Len(seqs[k]) /\ F[p] = seqs[k][j]
      BY <1>15
    <3>2. QED
      BY <1>16, <2>1, <3>1
  <2>2. QED
    BY <2>1 DEF IntoDocuments
<1>14. QED
  BY <1>7, <1>8, <1>9, <1>10, <1>11, <1>12 DEF IsPlan

\* G is s, then t.
Parts(G, s, t) ==
  /\ \A i \in 1..Len(s) : i \in 1..Len(G) /\ G[i] = s[i]
  /\ \A i \in 1..Len(t) : Len(s) + i \in 1..Len(G) /\ G[Len(s) + i] = t[i]
  /\ \A p \in 1..Len(G) : p \in 1..Len(s) \/ \E i \in 1..Len(t) : p = Len(s) + i

LEMMA TwoParts ==
  ASSUME NEW S, NEW s \in Seq(S), NEW t \in Seq(S), NEW G, G = s \o t
  PROVE  G \in Seq(S) /\ Parts(G, s, t)
<1>1. Len(s) \in Nat /\ Len(t) \in Nat
  OBVIOUS
<1>2. /\ G \in Seq(S) /\ Len(G) = Len(s) + Len(t)
      /\ \A p \in 1..Len(G) : G[p] = IF p <= Len(s) THEN s[p] ELSE t[p - Len(s)]
  BY <1>1, ConcatProperties
<1>3. \A i \in 1..Len(s) : i \in 1..Len(G) /\ G[i] = s[i]
  BY <1>1, <1>2
<1>4. \A i \in 1..Len(t) : Len(s) + i \in 1..Len(G) /\ G[Len(s) + i] = t[i]
  <2>1. TAKE i \in 1..Len(t)
  <2>2. Len(s) + i \in 1..Len(G) /\ ~(Len(s) + i <= Len(s)) /\ (Len(s) + i) - Len(s) = i
    BY <1>1, <1>2
  <2>3. QED
    BY <1>2, <2>2
<1>5. \A p \in 1..Len(G) : p \in 1..Len(s) \/ \E i \in 1..Len(t) : p = Len(s) + i
  <2>1. TAKE p \in 1..Len(G)
  <2>2. CASE p <= Len(s)
    BY <1>1, <2>2
  <2>3. CASE ~(p <= Len(s))
    <3>1. p - Len(s) \in 1..Len(t) /\ p = Len(s) + (p - Len(s))
      BY <1>1, <1>2, <2>3
    <3>2. QED
      BY <3>1
  <2>4. QED
    BY <2>2, <2>3
<1>6. QED
  BY <1>2, <1>3, <1>4, <1>5 DEF Parts

Target == [label : Labels, split : Seq(Sections)]
ItemsFit(its, l) ==
  /\ its \in Seq(Plans!Refs) /\ 1 \in 1..Len(its) /\ its[1] = <<l, Doc>>
  /\ \A k \in 1..Len(its) : its[k] \in Plans!Refs /\ its[k][1] = l /\ (its[k][2] = Doc => k = 1)
  /\ \A j, k \in 1..Len(its) : its[j] = its[k] => j = k
  /\ Plans!ToSet(its) = {its[k] : k \in 1..Len(its)}

LEMMA ItemsOfATarget ==
  ASSUME Plans!PlanAssumption, NEW d \in Target, Plans!IsInjective(d.split)
  PROVE  ItemsFit(Plans!ItemsOf(d), d.label)
<1> DEFINE doc == <<<<d.label, Doc>>>>
           secs == [k \in 1..Len(d.split) |-> <<d.label, d.split[k]>>]
           its == Plans!ItemsOf(d)
<1>1. /\ d.label \in Labels /\ d.split \in Seq(Sections) /\ Len(d.split) \in Nat
      /\ Doc \notin Sections
      /\ \A k \in 1..Len(d.split) : d.split[k] \in Sections
  BY ElementOfSeq DEF Target, Plans!PlanAssumption
<1>2. /\ doc \in Seq(Plans!Refs) /\ Len(doc) = 1 /\ doc[1] = <<d.label, Doc>>
  BY <1>1 DEF Plans!Refs
<1>3. /\ secs \in Seq(Plans!Refs) /\ Len(secs) = Len(d.split)
      /\ \A k \in 1..Len(secs) : /\ secs[k] = <<d.label, d.split[k]>> /\ d.split[k] # Doc
                                 /\ secs[k] \in Plans!Refs
  BY <1>1 DEF Plans!Refs
<1>4. \A j, k \in 1..Len(secs) : secs[j] = secs[k] => j = k
  <2>1. \A j, k \in 1..Len(d.split) : d.split[j] = d.split[k] => j = k
    BY <1>1 DEF Plans!IsInjective
  <2>2. QED
    BY <1>3, <2>1
<1>5. its = doc \o secs
  BY DEF Plans!ItemsOf
<1> HIDE DEF doc, secs, its
<1>6. /\ its \in Seq(Plans!Refs)
      /\ 1 \in 1..Len(its) /\ its[1] = doc[1]
      /\ \A i \in 1..Len(secs) : 1 + i \in 1..Len(its) /\ its[1 + i] = secs[i]
      /\ \A p \in 1..Len(its) : p = 1 \/ \E i \in 1..Len(secs) : p = 1 + i
  <2>1. 1 \in 1..Len(doc) /\ \A p \in 1..Len(doc) : p = 1
    BY <1>2
  <2>2. /\ its \in Seq(Plans!Refs)
        /\ \A i \in 1..Len(doc) : i \in 1..Len(its) /\ its[i] = doc[i]
        /\ \A i \in 1..Len(secs) : Len(doc) + i \in 1..Len(its) /\ its[Len(doc) + i] = secs[i]
        /\ \A p \in 1..Len(its) :
             p \in 1..Len(doc) \/ \E i \in 1..Len(secs) : p = Len(doc) + i
    <3>1. doc \in Seq(Plans!Refs) /\ secs \in Seq(Plans!Refs)
      BY <1>2, <1>3
    <3>2. QED
      <4>1. its \in Seq(Plans!Refs) /\ Parts(its, doc, secs)
        BY <1>5, <3>1, TwoParts
      <4>2. QED
        BY <4>1 DEF Parts
  <2>3. QED
    BY <1>2, <2>1, <2>2
<1>7. \A k \in 1..Len(its) : its[k] \in Plans!Refs /\ its[k][1] = d.label /\ (its[k][2] = Doc => k = 1)
  <2>1. TAKE k \in 1..Len(its)
  <2>2. CASE k = 1
    BY <1>1, <1>2, <1>6, <2>2 DEF Plans!Refs
  <2>3. CASE k # 1
    <3>1. PICK i \in 1..Len(secs) : k = 1 + i
      BY <1>6, <2>3
    <3>2. its[k] = secs[i]
      BY <1>6, <3>1
    <3>3. QED
      BY <1>3, <3>2
  <2>4. QED
    BY <2>2, <2>3
<1>8. \A j, k \in 1..Len(its) : its[j] = its[k] => j = k
  <2>1. SUFFICES ASSUME NEW j \in 1..Len(its), NEW k \in 1..Len(its), its[j] = its[k]
                 PROVE  j = k
    OBVIOUS
  <2>2. CASE j = 1 \/ k = 1
    <3>1. its[1][2] = Doc
      BY <1>2, <1>6
    <3>2. its[j][2] = Doc /\ its[k][2] = Doc
      BY <2>1, <2>2, <3>1
    <3>3. QED
      BY <1>7, <3>2
  <2>3. CASE j # 1 /\ k # 1
    <3>1. PICK i \in 1..Len(secs) : j = 1 + i
      BY <1>6, <2>3
    <3>2. PICK m \in 1..Len(secs) : k = 1 + m
      BY <1>6, <2>3
    <3>3. secs[i] = secs[m]
      BY <1>6, <2>1, <3>1, <3>2
    <3>4. i = m
      BY <1>4, <3>3
    <3>5. QED
      BY <3>1, <3>2, <3>4
  <2>4. QED
    BY <2>2, <2>3
<1>9. Plans!ToSet(its) = {its[k] : k \in 1..Len(its)}
  <2>1. DOMAIN its = 1..Len(its)
    BY <1>6
  <2>2. QED
    BY <2>1 DEF Plans!ToSet
<1>10. QED
  BY <1>2, <1>6, <1>7, <1>8, <1>9 DEF ItemsFit, its

Needs(r, h, missing) == r \notin DOMAIN h \/ r \in missing

\* The creates of a target, whose items are `its`.
CreatesAre(c, its, l, h, missing) ==
  /\ c \in Seq(PlanStep)
  /\ \A p \in 1..Len(c) :
       /\ c[p].do = "create" /\ c[p].ref \in its
       /\ Needs(c[p].ref, h, missing)
       /\ c[p].into # None => c[p].ref[2] = Doc /\ c[p].into = Existing[c[p].ref[1]]
       /\ \/ c[p].ref[2] = Doc \/ <<l, Doc>> \in DOMAIN h
          \/ \E q \in 1..(p - 1) : c[q].ref = <<l, Doc>>
  /\ \A p, q \in 1..Len(c) : c[p].ref = c[q].ref => p = q
  /\ \A r \in its : Needs(r, h, missing) => \E p \in 1..Len(c) : c[p].ref = r

LEMMA CreatesOfATarget ==
  ASSUME Plans!PlanAssumption, NEW d \in Target, Plans!IsInjective(d.split),
         NEW h, NEW missing
  PROVE  CreatesAre(Plans!Creates(d, h, missing), Plans!ToSet(Plans!ItemsOf(d)), d.label,
                    h, missing)
<1> DEFINE its == Plans!ItemsOf(d)
           new(r) == Plans!Create(r, Plans!Into(d, r))
           seqs == [k \in 1..Len(its) |->
                      IF its[k] \notin DOMAIN h \/ its[k] \in missing THEN <<new(its[k])>> ELSE <<>>]
           c == Plans!Creates(d, h, missing)
<1>1. ItemsFit(its, d.label)
  BY ItemsOfATarget
<1>2. c = Plans!FlattenSeq(seqs)
  BY DEF Plans!Creates
<1> HIDE DEF its, c
<1>3. \A r \in Plans!Refs : r[1] = d.label =>
        new(r) \in PlanStep /\ new(r).do = "create" /\ new(r).ref = r
        /\ (new(r).into # None => r[2] = Doc /\ new(r).into = Existing[r[1]])
  BY DEF Plans!Create, Plans!Into, PlanStep, Plans!PlanAssumption, Target, Plans!Refs
<1>4. \A k \in 1..Len(its) : its[k] \in Plans!Refs /\ its[k][1] = d.label
  BY <1>1 DEF ItemsFit
<1>5. Len(its) \in Nat /\ seqs \in Seq(Seq(PlanStep)) /\ Len(seqs) = Len(its)
  <2>1. Len(its) \in Nat
    BY <1>1 DEF ItemsFit
  <2>2. \A k \in 1..Len(its) : seqs[k] \in Seq(PlanStep)
    <3> HIDE DEF new
    <3>1. TAKE k \in 1..Len(its)
    <3>2. new(its[k]) \in PlanStep
      BY <1>3, <1>4
    <3>3. <<new(its[k])>> \in Seq(PlanStep) /\ <<>> \in Seq(PlanStep)
      BY <3>2
    <3>4. QED
      BY <3>3
  <2>3. QED
    <3>1. DOMAIN seqs = 1..Len(its) /\ seqs = [k \in 1..Len(its) |-> seqs[k]]
      OBVIOUS
    <3> HIDE DEF seqs
    <3>2. QED
      BY <2>1, <2>2, <3>1
<1>6. \A k \in 1..Len(its) :
        seqs[k] = IF Needs(its[k], h, missing) THEN <<new(its[k])>> ELSE <<>>
  BY DEF Needs
<1>7. PICK at : c \in Seq(PlanStep) /\ Joins(c, seqs, Len(seqs), at)
  BY <1>2, <1>5, FlattenedSteps
<1> HIDE DEF seqs, new
<1>8. \A p \in 1..Len(c) : \E k \in 1..Len(its) :
        at[p] = <<k, 1>> /\ c[p] = new(its[k]) /\ Needs(its[k], h, missing)
  <2>1. TAKE p \in 1..Len(c)
  <2> DEFINE k == at[p][1]
             j == at[p][2]
  <2>2. /\ k \in 1..Len(its) /\ j \in 1..Len(seqs[k]) /\ c[p] = seqs[k][j]
        /\ at[p] = <<k, j>>
    BY <1>5, <1>7 DEF Joins
  <2> HIDE DEF k, j
  <2>3. CASE ~Needs(its[k], h, missing)
    <3>1. seqs[k] = <<>>
      BY <1>6, <2>2, <2>3
    <3>2. Len(seqs[k]) = 0
      BY <3>1
    <3>3. QED
      BY <2>2, <3>2
  <2>4. CASE Needs(its[k], h, missing)
    <3>1. seqs[k] = <<new(its[k])>>
      BY <1>6, <2>2, <2>4
    <3>2. j = 1 /\ c[p] = new(its[k])
      BY <2>2, <3>1
    <3>3. QED
      BY <2>2, <2>4, <3>2
  <2>5. QED
    BY <2>3, <2>4
<1>9. \A k \in 1..Len(its) : Needs(its[k], h, missing) =>
        \E p \in 1..Len(c) : at[p] = <<k, 1>> /\ c[p] = new(its[k])
  <2>1. SUFFICES ASSUME NEW k \in 1..Len(its), Needs(its[k], h, missing)
                 PROVE  \E p \in 1..Len(c) : at[p] = <<k, 1>> /\ c[p] = new(its[k])
    OBVIOUS
  <2>2. seqs[k] = <<new(its[k])>>
    BY <1>6, <2>1
  <2>3. 1 \in 1..Len(seqs[k]) /\ seqs[k][1] = new(its[k])
    BY <2>2
  <2>4. PICK p \in 1..Len(c) : at[p] = <<k, 1>>
    BY <1>5, <1>7, <2>3 DEF Joins
  <2>5. c[p] = seqs[at[p][1]][at[p][2]]
    BY <1>7 DEF Joins
  <2>6. at[p][1] = k /\ at[p][2] = 1
    BY <2>4
  <2>7. QED
    BY <2>3, <2>4, <2>5, <2>6
<1>10. \A k \in 1..Len(its) :
         /\ new(its[k]).do = "create" /\ new(its[k]).ref = its[k]
         /\ new(its[k]).into # None => its[k][2] = Doc /\ new(its[k]).into = Existing[its[k][1]]
  BY <1>3, <1>4
<1>11. \A p, q \in 1..Len(c) : c[p].ref = c[q].ref => p = q
  <2>1. SUFFICES ASSUME NEW p \in 1..Len(c), NEW q \in 1..Len(c), c[p].ref = c[q].ref
                 PROVE  p = q
    OBVIOUS
  <2>2. PICK k \in 1..Len(its) : at[p] = <<k, 1>> /\ c[p] = new(its[k])
    BY <1>8
  <2>3. PICK m \in 1..Len(its) : at[q] = <<m, 1>> /\ c[q] = new(its[m])
    BY <1>8
  <2>4. k = m
    BY <1>1, <1>10, <2>1, <2>2, <2>3 DEF ItemsFit
  <2>5. ~(p < q) /\ ~(q < p)
    <3>1. at[p] = at[q] /\ at[p][1] = k /\ at[p][2] = 1 /\ at[q][1] = k /\ at[q][2] = 1
      BY <2>2, <2>3, <2>4
    <3>2. \A i, j \in 1..Len(c) :
            i < j => at[i][1] < at[j][1] \/ (at[i][1] = at[j][1] /\ at[i][2] < at[j][2])
      BY <1>7 DEF Joins
    <3>3. QED
      BY <3>1, <3>2
  <2>6. QED
    BY <2>5
<1>12. \A p \in 1..Len(c) :
         \/ c[p].ref[2] = Doc \/ <<d.label, Doc>> \in DOMAIN h
         \/ \E q \in 1..(p - 1) : c[q].ref = <<d.label, Doc>>
  <2>1. SUFFICES ASSUME NEW p \in 1..Len(c), c[p].ref[2] # Doc, <<d.label, Doc>> \notin DOMAIN h
                 PROVE  \E q \in 1..(p - 1) : c[q].ref = <<d.label, Doc>>
    OBVIOUS
  <2>2. PICK k \in 1..Len(its) : at[p] = <<k, 1>> /\ c[p] = new(its[k])
    BY <1>8
  <2>3. 1 \in 1..Len(its) /\ its[1] = <<d.label, Doc>> /\ Needs(its[1], h, missing)
    BY <1>1, <2>1 DEF ItemsFit, Needs
  <2>4. PICK q \in 1..Len(c) : at[q] = <<1, 1>> /\ c[q] = new(its[1])
    BY <1>9, <2>3
  <2>5. k # 1
    BY <1>10, <2>1, <2>2, <2>3
  <2>6. q < p
    <3>1. p < q => at[p][1] < at[q][1] \/ (at[p][1] = at[q][1] /\ at[p][2] < at[q][2])
      BY <1>7 DEF Joins
    <3>2. at[p][1] = k /\ at[q][1] = 1 /\ at[p][2] = 1 /\ at[q][2] = 1 /\ ~(k < 1)
      BY <2>2, <2>4
    <3>3. ~(p < q)
      BY <2>5, <3>1, <3>2
    <3>5. p # q
      BY <2>5, <3>2
    <3>4. p \in Nat /\ q \in Nat
      BY <1>7
    <3>6. QED
      BY <3>3, <3>4, <3>5
  <2>7. q \in 1..(p - 1) /\ c[q].ref = <<d.label, Doc>>
    BY <1>10, <2>3, <2>4, <2>6
  <2>8. QED
    BY <2>7
<1>13. \A p \in 1..Len(c) :
         /\ c[p].do = "create" /\ c[p].ref \in Plans!ToSet(its)
         /\ Needs(c[p].ref, h, missing)
         /\ c[p].into # None => c[p].ref[2] = Doc /\ c[p].into = Existing[c[p].ref[1]]
  <2>1. TAKE p \in 1..Len(c)
  <2>2. PICK k \in 1..Len(its) : c[p] = new(its[k]) /\ Needs(its[k], h, missing)
    BY <1>8
  <2>3. its[k] \in Plans!ToSet(its)
    BY <1>1 DEF ItemsFit
  <2>4. QED
    BY <1>10, <2>2, <2>3
<1>14. \A r \in Plans!ToSet(its) : Needs(r, h, missing) => \E p \in 1..Len(c) : c[p].ref = r
  <2>1. SUFFICES ASSUME NEW r \in Plans!ToSet(its), Needs(r, h, missing)
                 PROVE  \E p \in 1..Len(c) : c[p].ref = r
    OBVIOUS
  <2>2. PICK k \in 1..Len(its) : r = its[k]
    BY <1>1 DEF ItemsFit
  <2>3. QED
    BY <1>9, <1>10, <2>1, <2>2
<1>15. QED
  BY <1>7, <1>11, <1>12, <1>13, <1>14 DEF CreatesAre, c, its

\* The retirements of a target, of which `old` are to go.
RetirementsAre(rt, old) ==
  /\ rt \in Seq(PlanStep)
  /\ \A k \in 1..Len(rt) : rt[k] = Plans!Retire(rt[k].ref) /\ rt[k].ref \in old
  /\ \A j, k \in 1..Len(rt) : rt[j].ref = rt[k].ref => j = k
  /\ \A r \in old : \E k \in 1..Len(rt) : rt[k].ref = r

Old(l, h, keep) == {r \in DOMAIN h : r[1] = l /\ r[2] # Doc} \ keep

LEMMA RetirementsOfATarget ==
  ASSUME Plans!PlanAssumption, NEW l, NEW h, NEW keep, DOMAIN h \subseteq Plans!Refs
  PROVE  RetirementsAre(Plans!Retirements(l, h, keep), Old(l, h, keep))
<1> DEFINE old == {r \in DOMAIN h : r[1] = l /\ r[2] # Doc} \ keep
           s == Plans!SetToSeq(old)
           rt == Plans!Retirements(l, h, keep)
<1>1. IsFiniteSet(old)
  <2>1. IsFiniteSet(Labels) /\ IsFiniteSet(Sections)
    BY DEF Plans!PlanAssumption, Plans!IsFiniteSet, IsFiniteSet
  <2>2. IsFiniteSet({Doc} \cup Sections)
    BY <2>1, FS_Singleton, FS_Union
  <2>3. IsFiniteSet(Plans!Refs)
    BY <2>1, <2>2, FS_Product DEF Plans!Refs
  <2>4. QED
    BY <2>3, FS_Subset
<1>2. old \subseteq Plans!Refs
  OBVIOUS
<1>3. rt = [k \in 1..Len(s) |-> Plans!Retire(s[k])]
  BY DEF Plans!Retirements
<1> HIDE DEF old, s, rt
<1>4. /\ s \in Seq(old)
      /\ \A i, j \in 1..Len(s) : s[i] = s[j] => i = j
      /\ \A x \in old : \E i \in 1..Len(s) : s[i] = x
  BY <1>1, EachInOnePlace DEF s
<1>5. Len(s) \in Nat /\ \A k \in 1..Len(s) : s[k] \in old /\ s[k] \in Plans!Refs
  BY <1>2, <1>4, ElementOfSeq
<1>6. \A r \in Plans!Refs : Plans!Retire(r) \in PlanStep /\ Plans!Retire(r).ref = r
  BY DEF Plans!Retire, PlanStep
<1>7. /\ rt \in Seq(PlanStep) /\ Len(rt) = Len(s)
      /\ \A k \in 1..Len(rt) : rt[k] = Plans!Retire(s[k]) /\ rt[k].ref = s[k]
  BY <1>3, <1>5, <1>6
<1>8. /\ \A k \in 1..Len(rt) : rt[k] = Plans!Retire(rt[k].ref) /\ rt[k].ref \in old
      /\ \A j, k \in 1..Len(rt) : rt[j].ref = rt[k].ref => j = k
      /\ \A r \in old : \E k \in 1..Len(rt) : rt[k].ref = r
  BY <1>4, <1>5, <1>7
<1>9. QED
  BY <1>7, <1>8 DEF rt, old, RetirementsAre, Old

LEMMA DraftedOfATarget ==
  ASSUME Plans!PlanAssumption, NEW drafts \in Yamls
  PROVE  /\ Len(drafts) \in Nat
         /\ \A k \in 1..Len(drafts) : /\ drafts[k] \in Target /\ Plans!IsInjective(drafts[k].split)
                                      /\ drafts[k].label \in Labels
         /\ \A j, k \in 1..Len(drafts) : drafts[j].label = drafts[k].label => j = k
         /\ Plans!LabelsOf(drafts) = {drafts[k].label : k \in 1..Len(drafts)}
         /\ \A k \in 1..Len(drafts) : \A r : r[1] = drafts[k].label =>
              (r \in Plans!Drafted(drafts) <=> r \in Plans!ToSet(Plans!ItemsOf(drafts[k])))
         /\ \A r \in Plans!Drafted(drafts) : r[1] \in Plans!LabelsOf(drafts)
         /\ \A l \in Plans!LabelsOf(drafts) : <<l, Doc>> \in Plans!Drafted(drafts)
         /\ Plans!Drafted(drafts) \subseteq Plans!Refs
<1>1. drafts \in Seq(Target)
  BY DEF Plans!PlanAssumption, Target
<1>2. /\ Len(drafts) \in Nat
      /\ \A k \in 1..Len(drafts) : drafts[k] \in Target /\ Plans!IsInjective(drafts[k].split)
      /\ \A j, k \in 1..Len(drafts) : drafts[j].label = drafts[k].label => j = k
  BY <1>1, ElementOfSeq DEF Plans!PlanAssumption
<1>3. \A k \in 1..Len(drafts) : drafts[k].label \in Labels
  BY <1>2 DEF Target
<1>4. Plans!LabelsOf(drafts) = {drafts[k].label : k \in 1..Len(drafts)}
  BY DEF Plans!LabelsOf
<1> DEFINE its(k) == Plans!ItemsOf(drafts[k])
<1>5. \A k \in 1..Len(drafts) : ItemsFit(its(k), drafts[k].label)
  BY <1>2, ItemsOfATarget
<1>6. Plans!Drafted(drafts) = UNION {Plans!ToSet(its(k)) : k \in 1..Len(drafts)}
  BY DEF Plans!Drafted
<1> HIDE DEF its
<1>7. \A k \in 1..Len(drafts) :
        /\ \A r \in Plans!ToSet(its(k)) : r[1] = drafts[k].label /\ r \in Plans!Refs
        /\ <<drafts[k].label, Doc>> \in Plans!ToSet(its(k))
  <2>1. ASSUME NEW s, NEW l, ItemsFit(s, l)
        PROVE  /\ \A r \in Plans!ToSet(s) : r[1] = l /\ r \in Plans!Refs
               /\ <<l, Doc>> \in Plans!ToSet(s)
    BY <2>1 DEF ItemsFit
  <2>2. QED
    BY <1>5, <2>1
<1>8. \A k \in 1..Len(drafts) : \A r : r[1] = drafts[k].label =>
        (r \in Plans!Drafted(drafts) <=> r \in Plans!ToSet(its(k)))
  <2>1. SUFFICES ASSUME NEW k \in 1..Len(drafts), NEW r, r[1] = drafts[k].label
                 PROVE  r \in Plans!Drafted(drafts) <=> r \in Plans!ToSet(its(k))
    OBVIOUS
  <2>2. ASSUME r \in Plans!Drafted(drafts) PROVE r \in Plans!ToSet(its(k))
    <3>1. PICK j \in 1..Len(drafts) : r \in Plans!ToSet(its(j))
      BY <1>6, <2>2
    <3>2. j = k
      BY <1>2, <1>7, <2>1, <3>1
    <3>3. QED
      BY <3>1, <3>2
  <2>3. QED
    BY <1>6, <2>2
<1>9. \A r \in Plans!Drafted(drafts) : r[1] \in Plans!LabelsOf(drafts) /\ r \in Plans!Refs
  BY <1>4, <1>6, <1>7
<1>10. \A l \in Plans!LabelsOf(drafts) : <<l, Doc>> \in Plans!Drafted(drafts)
  BY <1>4, <1>6, <1>7
<1>11. QED
  BY <1>2, <1>3, <1>4, <1>8, <1>9, <1>10 DEF its

\* The plan of a target that is drafted.
LEMMA PlanOfATarget ==
  ASSUME Plans!PlanAssumption, NEW drafts \in Yamls, NEW h, NEW missing, NEW inHand,
         DOMAIN h \subseteq Plans!Refs, DOMAIN h \subseteq missing \cup inHand,
         NEW k \in 1..Len(drafts)
  PROVE  LET s == Plans!TargetPlan(drafts[k], h, missing)
         IN  IsPlan(s, {drafts[k].label}, drafts, h, missing, inHand) /\ IntoDocuments(s)
<1> DEFINE d == drafts[k]
           its == Plans!ToSet(Plans!ItemsOf(d))
           c == Plans!Creates(d, h, missing)
           rt == Plans!Retirements(d.label, h, its)
           s == Plans!TargetPlan(d, h, missing)
<1>1. /\ d \in Target /\ Plans!IsInjective(d.split)
      /\ \A r : r[1] = d.label => (r \in Plans!Drafted(drafts) <=> r \in its)
      /\ \A r \in Plans!Drafted(drafts) : r[1] \in Plans!LabelsOf(drafts)
      /\ <<d.label, Doc>> \in Plans!Drafted(drafts)
  BY DraftedOfATarget
<1>2. ItemsFit(Plans!ItemsOf(d), d.label)
  BY <1>1, ItemsOfATarget
<1>3. \A r \in its : r[1] = d.label /\ r \in Plans!Drafted(drafts)
  BY <1>1, <1>2 DEF ItemsFit
<1> DEFINE old == Old(d.label, h, its)
<1>4. CreatesAre(c, its, d.label, h, missing)
  BY <1>1, CreatesOfATarget
<1>5. RetirementsAre(rt, old)
  BY RetirementsOfATarget
<1>6. s = c \o rt
  BY DEF Plans!TargetPlan
<1> HIDE DEF d, its, c, rt, s, old
<1>7. /\ s \in Seq(PlanStep)
      /\ \A i \in 1..Len(c) : i \in 1..Len(s) /\ s[i] = c[i]
      /\ \A i \in 1..Len(rt) : Len(c) + i \in 1..Len(s) /\ s[Len(c) + i] = rt[i]
      /\ \A p \in 1..Len(s) : p \in 1..Len(c) \/ \E i \in 1..Len(rt) : p = Len(c) + i
  <2>1. c \in Seq(PlanStep) /\ rt \in Seq(PlanStep)
    BY <1>4, <1>5 DEF CreatesAre, RetirementsAre
  <2>2. QED
    <3>1. s \in Seq(PlanStep) /\ Parts(s, c, rt)
      BY <1>6, <2>1, TwoParts
    <3>2. QED
      BY <3>1 DEF Parts
<1>8. \A i \in 1..Len(rt) :
        /\ rt[i].do = "retire" /\ rt[i].into = None
        /\ rt[i].ref \in DOMAIN h \ Plans!Drafted(drafts) /\ rt[i].ref \notin its
        /\ rt[i].ref[1] = d.label /\ rt[i].ref[2] # Doc
  <2>1. TAKE i \in 1..Len(rt)
  <2>2. rt[i].ref \in old /\ rt[i] = Plans!Retire(rt[i].ref)
    BY <1>5 DEF RetirementsAre
  <2>3. rt[i].do = "retire" /\ rt[i].into = None
    BY <2>2 DEF Plans!Retire
  <2>4. QED
    BY <1>1, <2>2, <2>3 DEF old, Old
<1>17. \A i \in 1..Len(c) :
         /\ c[i].do = "create" /\ c[i].ref \in its /\ c[i].ref[1] = d.label
         /\ c[i].into # None => c[i].ref[2] = Doc /\ c[i].into = Existing[c[i].ref[1]]
  BY <1>3, <1>4 DEF CreatesAre
<1>9. \A p \in 1..Len(s) :
        \/ p \in 1..Len(c) /\ s[p] = c[p] /\ s[p].do = "create"
        \/ \E i \in 1..Len(rt) : p = Len(c) + i /\ s[p] = rt[i] /\ s[p].do = "retire"
  <2>1. TAKE p \in 1..Len(s)
  <2>2. CASE p \in 1..Len(c)
    BY <1>7, <1>17, <2>2
  <2>3. CASE p \notin 1..Len(c)
    <3>1. PICK i \in 1..Len(rt) : p = Len(c) + i
      BY <1>7, <2>3
    <3>2. s[p] = rt[i] /\ rt[i].do = "retire"
      BY <1>7, <1>8, <3>1
    <3>3. QED
      BY <3>1, <3>2
  <2>4. QED
    BY <2>2, <2>3
<1>10. \A p \in 1..Len(s) : s[p].ref[1] = d.label /\ (s[p].into # None => s[p].ref[2] = Doc /\ s[p].into = Existing[s[p].ref[1]])
  <2>1. TAKE p \in 1..Len(s)
  <2>2. CASE p \in 1..Len(c) /\ s[p] = c[p]
    BY <1>17, <2>2
  <2>3. CASE \E i \in 1..Len(rt) : s[p] = rt[i]
    BY <1>8, <2>3
  <2>4. QED
    BY <1>9, <2>2, <2>3
<1>11. \A p, q \in 1..Len(s) : s[p].ref = s[q].ref => p = q
  <2>1. SUFFICES ASSUME NEW p \in 1..Len(s), NEW q \in 1..Len(s), s[p].ref = s[q].ref
                 PROVE  p = q
    OBVIOUS
  <2>2. \A i \in 1..Len(s) : s[i].ref \in its <=> s[i].do = "create"
    <3>1. TAKE i \in 1..Len(s)
    <3>2. CASE i \in 1..Len(c) /\ s[i] = c[i]
      BY <1>17, <3>2
    <3>3. CASE \E j \in 1..Len(rt) : s[i] = rt[j]
      BY <1>8, <3>3
    <3>4. QED
      BY <1>9, <3>2, <3>3
  <2>3. CASE s[p].ref \in its
    <3>1. p \in 1..Len(c) /\ q \in 1..Len(c) /\ s[p] = c[p] /\ s[q] = c[q]
      BY <1>9, <2>1, <2>2, <2>3
    <3>2. QED
      BY <1>4, <2>1, <3>1 DEF CreatesAre
  <2>4. CASE s[p].ref \notin its
    <3>1. PICK i \in 1..Len(rt) : p = Len(c) + i /\ s[p] = rt[i]
      BY <1>9, <2>2, <2>4
    <3>2. PICK j \in 1..Len(rt) : q = Len(c) + j /\ s[q] = rt[j]
      BY <1>9, <2>1, <2>2, <2>4
    <3>3. i = j
      BY <1>5, <2>1, <3>1, <3>2 DEF RetirementsAre
    <3>4. QED
      BY <3>1, <3>2, <3>3
  <2>5. QED
    BY <2>3, <2>4
<1>12. CreatesFit(s, drafts, h, missing)
  <2>1. SUFFICES ASSUME NEW p \in 1..Len(s), s[p].do = "create"
                 PROVE  /\ s[p].ref \in Plans!Drafted(drafts)
                        /\ s[p].ref \in DOMAIN h => s[p].ref \in missing
                        /\ \/ s[p].ref[2] = Doc \/ DocOf(s[p].ref) \in DOMAIN h
                           \/ \E j \in 1..(p - 1) : s[j].do = "create" /\ s[j].ref = DocOf(s[p].ref)
    BY DEF CreatesFit
  <2>2. p \in 1..Len(c) /\ s[p] = c[p]
    BY <1>9, <2>1
  <2>3. s[p].ref \in Plans!Drafted(drafts) /\ (s[p].ref \in DOMAIN h => s[p].ref \in missing)
    BY <1>3, <1>4, <2>2 DEF CreatesAre, Needs
  <2>4. DocOf(s[p].ref) = <<d.label, Doc>>
    BY <1>10 DEF DocOf
  <2>5. ASSUME NEW q \in 1..(p - 1), c[q].ref = <<d.label, Doc>>
        PROVE  s[q].do = "create" /\ s[q].ref = DocOf(s[p].ref)
    <3>1. q \in 1..Len(c)
      BY <1>7, <2>2
    <3>2. s[q] = c[q] /\ c[q].do = "create"
      BY <1>7, <1>17, <3>1
    <3>3. QED
      BY <2>4, <2>5, <3>2
  <2>6. \/ c[p].ref[2] = Doc \/ <<d.label, Doc>> \in DOMAIN h
        \/ \E q \in 1..(p - 1) : c[q].ref = <<d.label, Doc>>
    BY <1>4, <2>2 DEF CreatesAre
  <2>7. QED
    BY <2>2, <2>3, <2>4, <2>5, <2>6
<1>13. RetiresFit(s, drafts, h, missing, inHand)
  <2>1. SUFFICES ASSUME NEW p \in 1..Len(s), s[p].do = "retire"
                 PROVE  /\ s[p].ref \in DOMAIN h \ Plans!Drafted(drafts)
                        /\ s[p].ref \in missing \cup inHand
                        /\ s[p].ref[2] # Doc
    BY DEF RetiresFit
  <2>2. PICK i \in 1..Len(rt) : s[p] = rt[i]
    BY <1>9, <2>1
  <2>3. QED
    BY <1>8, <2>2
<1>14. LeavesDrafted(s, {d.label}, drafts, h)
  <2>1. ASSUME NEW r \in Plans!Drafted(drafts), r[1] = d.label, r \notin DOMAIN h
        PROVE  \E p \in 1..Len(s) : s[p].do = "create" /\ s[p].ref = r
    <3>1. r \in its /\ Needs(r, h, missing)
      BY <1>1, <2>1 DEF Needs
    <3>2. PICK p \in 1..Len(c) : c[p].ref = r
      BY <1>4, <3>1 DEF CreatesAre
    <3>3. p \in 1..Len(s) /\ s[p] = c[p] /\ c[p].do = "create"
      BY <1>7, <1>17
    <3>4. QED
      BY <3>2, <3>3
  <2>2. ASSUME NEW r \in DOMAIN h \ Plans!Drafted(drafts), r[1] = d.label
        PROVE  \E p \in 1..Len(s) : s[p].do = "retire" /\ s[p].ref = r
    <3>1. r \notin its
      BY <1>1, <2>2
    <3>2. r[2] # Doc
      <4>1. r \in Plans!Refs
        BY <2>2
      <4>2. r = <<r[1], r[2]>>
        BY <4>1 DEF Plans!Refs
      <4>3. QED
        BY <1>1, <2>2, <4>2
    <3>3. PICK i \in 1..Len(rt) : rt[i].ref = r
      BY <1>5, <2>2, <3>1, <3>2 DEF old, Old, RetirementsAre
    <3>4. Len(c) + i \in 1..Len(s) /\ s[Len(c) + i] = rt[i] /\ rt[i].do = "retire"
      BY <1>7, <1>8
    <3>5. QED
      BY <3>3, <3>4
  <2>3. QED
    BY <2>1, <2>2 DEF LeavesDrafted
<1>15. IsPlan(s, {d.label}, drafts, h, missing, inHand) /\ IntoDocuments(s)
  BY <1>7, <1>10, <1>11, <1>12, <1>13, <1>14 DEF IsPlan, IntoDocuments
<1>16. QED
  BY <1>15 DEF s, d

\* The plan of a target that is not drafted any more.
LEMMA PlanOfARemovedTarget ==
  ASSUME Plans!PlanAssumption, NEW drafts \in Yamls, NEW h, NEW missing, NEW inHand,
         DOMAIN h \subseteq Plans!Refs, DOMAIN h \subseteq missing \cup inHand,
         NEW l, l \notin Plans!LabelsOf(drafts)
  PROVE  LET s == Plans!RemovedTargetPlan(l, h)
         IN  IsPlan(s, {l}, drafts, h, missing, inHand) /\ IntoDocuments(s)
<1> DEFINE doc == <<l, Doc>>
           rt == Plans!Retirements(l, h, {})
           final == IF doc \in DOMAIN h THEN <<Plans!Retire(doc)>> ELSE <<>>
           s == Plans!RemovedTargetPlan(l, h)
           old == Old(l, h, {})
<1>1. \A r \in Plans!Drafted(drafts) : r[1] # l
  BY DraftedOfATarget
<1>2. RetirementsAre(rt, old)
  BY RetirementsOfATarget
<1>3. s = rt \o final
  BY DEF Plans!RemovedTargetPlan
<1>4. \A r \in Plans!Refs : Plans!Retire(r) \in PlanStep
  BY DEF Plans!Retire, PlanStep
<1>5. /\ final \in Seq(PlanStep)
      /\ \A i \in 1..Len(final) : i = 1 /\ doc \in DOMAIN h /\ final[i] = Plans!Retire(doc)
      /\ doc \in DOMAIN h => 1 \in 1..Len(final) /\ final[1] = Plans!Retire(doc)
  <2>1. CASE doc \in DOMAIN h
    <3>1. Plans!Retire(doc) \in PlanStep
      BY <1>4, <2>1
    <3>2. final = <<Plans!Retire(doc)>>
      BY <2>1
    <3> HIDE DEF final
    <3>3. QED
      BY <2>1, <3>1, <3>2
  <2>2. CASE doc \notin DOMAIN h
    <3>1. final = <<>>
      BY <2>2
    <3> HIDE DEF final
    <3>2. QED
      BY <2>2, <3>1
  <2>3. QED
    BY <2>1, <2>2
<1>6. \A r : Plans!Retire(r).do = "retire" /\ Plans!Retire(r).ref = r /\ Plans!Retire(r).into = None
  BY DEF Plans!Retire
<1>7. old = {r \in DOMAIN h : r[1] = l /\ r[2] # Doc}
  BY DEF Old
<1>8. doc[1] = l /\ doc[2] = Doc
  OBVIOUS
<1> HIDE DEF rt, final, s, old
<1>9. /\ s \in Seq(PlanStep)
      /\ \A i \in 1..Len(rt) : i \in 1..Len(s) /\ s[i] = rt[i]
      /\ \A i \in 1..Len(final) : Len(rt) + i \in 1..Len(s) /\ s[Len(rt) + i] = final[i]
      /\ \A p \in 1..Len(s) : p \in 1..Len(rt) \/ \E i \in 1..Len(final) : p = Len(rt) + i
  <2>1. rt \in Seq(PlanStep) /\ final \in Seq(PlanStep)
    BY <1>2, <1>5 DEF RetirementsAre
  <2>2. QED
    <3>1. s \in Seq(PlanStep) /\ Parts(s, rt, final)
      BY <1>3, <2>1, TwoParts
    <3>2. QED
      BY <3>1 DEF Parts
<1>19. Len(rt) \in Nat
  BY <1>2 DEF RetirementsAre
<1> HIDE DEF doc
<1>10. \A p \in 1..Len(s) :
         \/ p \in 1..Len(rt) /\ s[p] = rt[p] /\ s[p].ref \in old /\ s[p].do = "retire" /\ s[p].into = None
         \/ p = Len(rt) + 1 /\ doc \in DOMAIN h /\ s[p] = Plans!Retire(doc)
  <2>1. TAKE p \in 1..Len(s)
  <2>2. CASE p \in 1..Len(rt)
    <3>1. s[p] = rt[p] /\ rt[p] = Plans!Retire(rt[p].ref) /\ rt[p].ref \in old
      BY <1>2, <1>9, <2>2 DEF RetirementsAre
    <3>2. QED
      BY <1>6, <2>2, <3>1
  <2>3. CASE p \notin 1..Len(rt)
    <3>1. PICK i \in 1..Len(final) : p = Len(rt) + i
      BY <1>9, <2>3
    <3>2. s[p] = final[i]
      BY <1>9, <3>1
    <3>3. QED
      BY <1>5, <3>1, <3>2
  <2>4. QED
    BY <2>2, <2>3
<1>11. \A p \in 1..Len(s) : /\ s[p].do = "retire" /\ s[p].into = None
                            /\ s[p].ref \in DOMAIN h /\ s[p].ref[1] = l
  BY <1>6, <1>7, <1>8, <1>10
<1>12. \A p, q \in 1..Len(s) : s[p].ref = s[q].ref => p = q
  <2>1. SUFFICES ASSUME NEW p \in 1..Len(s), NEW q \in 1..Len(s), s[p].ref = s[q].ref
                 PROVE  p = q
    OBVIOUS
  <2>2. \A i \in 1..Len(s) : i \in 1..Len(rt) <=> s[i].ref # doc
    <3>1. doc \notin old
      BY <1>7, <1>8
    <3>2. QED
      BY <1>6, <1>9, <1>10, <3>1
  <2>3. CASE s[p].ref # doc
    BY <1>2, <1>9, <2>1, <2>2, <2>3 DEF RetirementsAre
  <2>4. CASE s[p].ref = doc
    BY <1>10, <2>1, <2>2, <2>4
  <2>5. QED
    BY <2>3, <2>4
<1>13. CreatesFit(s, drafts, h, missing)
  BY <1>11 DEF CreatesFit
<1>14. \A p \in 1..Len(s) : s[p].ref \in DOMAIN h \ Plans!Drafted(drafts)
  BY <1>1, <1>11
<1>15. RetiresFit(s, drafts, h, missing, inHand)
  <2>1. ASSUME NEW p \in 1..Len(s), s[p].ref[2] = Doc,
               NEW r \in DOMAIN h, r[1] = s[p].ref[1], r[2] # Doc
        PROVE  \E j \in 1..(p - 1) : s[j].do = "retire" /\ s[j].ref = r
    <3>1. p = Len(rt) + 1
      BY <1>7, <1>10, <2>1
    <3>2. r \in old
      BY <1>7, <1>11, <2>1
    <3>3. PICK j \in 1..Len(rt) : rt[j].ref = r
      BY <1>2, <3>2 DEF RetirementsAre
    <3>4. j \in 1..(p - 1) /\ s[j] = rt[j] /\ j \in 1..Len(s)
      BY <1>9, <3>1
    <3>5. QED
      BY <1>11, <3>3, <3>4
  <2>2. \A p \in 1..Len(s) : s[p].ref \in missing \cup inHand
    BY <1>11
  <2>3. QED
    BY <1>14, <2>1, <2>2 DEF RetiresFit
<1>16. LeavesDrafted(s, {l}, drafts, h)
  <2>1. ASSUME NEW r \in DOMAIN h, r[1] = l
        PROVE  \E p \in 1..Len(s) : s[p].do = "retire" /\ s[p].ref = r
    <3>1. CASE r[2] # Doc
      <4>1. PICK i \in 1..Len(rt) : rt[i].ref = r
        BY <1>2, <1>7, <2>1, <3>1 DEF RetirementsAre
      <4>2. QED
        BY <1>9, <1>11, <4>1
    <3>2. CASE r[2] = Doc
      <4>1. r = doc
        <5>1. r \in Plans!Refs
          BY <2>1
        <5>2. r = <<r[1], r[2]>>
          BY <5>1 DEF Plans!Refs
        <5>3. QED
          BY <2>1, <3>2, <5>2 DEF doc
      <4>2. Len(rt) + 1 \in 1..Len(s) /\ s[Len(rt) + 1] = Plans!Retire(doc)
        BY <1>5, <1>9, <2>1, <4>1
      <4>3. QED
        BY <1>6, <4>1, <4>2
    <3>3. QED
      BY <3>1, <3>2
  <2>2. QED
    BY <1>1, <2>1 DEF LeavesDrafted
<1>17. IsPlan(s, {l}, drafts, h, missing, inHand) /\ IntoDocuments(s)
  BY <1>9, <1>11, <1>12, <1>13, <1>15, <1>16 DEF IsPlan, IntoDocuments
<1>18. QED
  BY <1>17 DEF s

LEMMA BothJoined ==
  ASSUME NEW S, NEW s \in Seq(S), NEW t \in Seq(S)
  PROVE  s \o t \in Seq(S) /\ \E at : Joins(s \o t, <<s, t>>, 2, at)
<1> DEFINE both == <<s, t>>
<1>1. both \in Seq(Seq(S)) /\ Len(both) = 2 /\ both[1] = s /\ both[2] = t
  OBVIOUS
<1> HIDE DEF both
<1>2. Joins(<<>>, both, 0, <<>>)
  BY DEF Joins
<1>3. <<>> \in Seq(S) /\ <<>> \o s = s
  BY ConcatEmptySeq
<1>4. \E at : Joins(s, both, 1, at)
  <2>1. <<>> \o both[0 + 1] \in Seq(S) /\ \E at : Joins(<<>> \o both[0 + 1], both, 0 + 1, at)
    <3>1. 0 + 1 \in 1..Len(both)
      BY <1>1
    <3>2. QED
      BY <1>1, <1>2, <1>3, <3>1, OneMoreJoined
  <2>2. 0 + 1 = 1
    OBVIOUS
  <2>3. QED
    BY <1>1, <1>3, <2>1, <2>2
<1>5. PICK at : Joins(s, both, 1, at)
  BY <1>4
<1>6. s \o both[1 + 1] \in Seq(S) /\ \E new : Joins(s \o both[1 + 1], both, 1 + 1, new)
  <2>1. 1 + 1 \in 1..Len(both)
    BY <1>1
  <2>2. QED
    BY <1>1, <1>5, <2>1, OneMoreJoined
<1>7. 1 + 1 = 2
  OBVIOUS
<1>8. QED
  BY <1>1, <1>6, <1>7 DEF both

\* The plan of a run does what the publish block asks for in every target.
LEMMA PlanOfARun ==
  ASSUME Plans!PlanAssumption, NEW drafts \in Yamls, NEW h, NEW missing, NEW inHand,
         DOMAIN h \subseteq Plans!Refs, DOMAIN h \subseteq missing \cup inHand
  PROVE  LET s == Plans!Plan(drafts, h, missing)
         IN  IsPlan(s, Labels, drafts, h, missing, inHand) /\ IntoDocuments(s)
<1> DEFINE labels == Plans!LabelsOf(drafts)
           gone == {r[1] : r \in DOMAIN h} \ labels
           dropping == Plans!SetToSeq(gone)
           kept == [k \in 1..Len(drafts) |-> Plans!TargetPlan(drafts[k], h, missing)]
           left == [k \in 1..Len(dropping) |-> Plans!RemovedTargetPlan(dropping[k], h)]
           A == Plans!FlattenSeq(kept)
           B == Plans!FlattenSeq(left)
           s == Plans!Plan(drafts, h, missing)
           Is(t, targets) == IsPlan(t, targets, drafts, h, missing, inHand) /\ IntoDocuments(t)
<1>1. /\ Len(drafts) \in Nat
      /\ \A k \in 1..Len(drafts) : drafts[k].label \in Labels
      /\ \A j, k \in 1..Len(drafts) : drafts[j].label = drafts[k].label => j = k
      /\ labels = {drafts[k].label : k \in 1..Len(drafts)}
      /\ \A r \in Plans!Drafted(drafts) : r[1] \in labels
  BY DraftedOfATarget
<1>2. gone \subseteq Labels /\ labels \cap gone = {}
  BY DEF Plans!Refs
<1>3. /\ dropping \in Seq(gone)
      /\ \A i, j \in 1..Len(dropping) : dropping[i] = dropping[j] => i = j
      /\ \A x \in gone : \E i \in 1..Len(dropping) : dropping[i] = x
  <2>1. IsFiniteSet(Labels)
    BY DEF Plans!PlanAssumption, Plans!IsFiniteSet, IsFiniteSet
  <2>2. IsFiniteSet(gone)
    BY <1>2, <2>1, FS_Subset
  <2> HIDE DEF gone
  <2>3. QED
    BY <2>2, EachInOnePlace
<1>4. Len(dropping) \in Nat /\ \A k \in 1..Len(dropping) : dropping[k] \in gone
  <2> HIDE DEF gone, dropping
  <2>1. QED
    BY <1>3, ElementOfSeq
<1>5. s = A \o B
  BY DEF Plans!Plan
<1>6. \A k \in 1..Len(drafts) : Is(kept[k], {drafts[k].label})
  BY PlanOfATarget
<1>7. \A k \in 1..Len(dropping) : Is(left[k], {dropping[k]})
  <2> HIDE DEF dropping
  <2>1. \A k \in 1..Len(dropping) : dropping[k] \notin Plans!LabelsOf(drafts)
    BY <1>4
  <2>2. QED
    BY <2>1, PlanOfARemovedTarget
<1>8. Len(kept) = Len(drafts) /\ kept \in Seq(Seq(PlanStep))
  <2>1. \A k \in 1..Len(drafts) : kept[k] \in Seq(PlanStep)
    BY <1>6 DEF IsPlan
  <2>2. kept = [k \in 1..Len(drafts) |-> kept[k]]
    OBVIOUS
  <2> HIDE DEF kept
  <2>3. QED
    BY <1>1, <2>1, <2>2
<1>9. Len(left) = Len(dropping) /\ left \in Seq(Seq(PlanStep))
  <2>1. \A k \in 1..Len(dropping) : left[k] \in Seq(PlanStep)
    BY <1>7 DEF IsPlan
  <2>2. left = [k \in 1..Len(dropping) |-> left[k]]
    OBVIOUS
  <2> HIDE DEF left, dropping
  <2>3. QED
    BY <1>4, <2>1, <2>2
<1> HIDE DEF labels, gone, dropping, kept, left, s
<1>10. Is(A, labels) /\ A \in Seq(PlanStep)
  <2>1. PICK at : A \in Seq(PlanStep) /\ Joins(A, kept, Len(kept), at)
    BY <1>8, FlattenedSteps
  <2> DEFINE targets == [k \in 1..Len(drafts) |-> {drafts[k].label}]
  <2>2. /\ \A k \in 1..Len(kept) : targets[k] \subseteq labels /\ Is(kept[k], targets[k])
        /\ \A t \in labels : \E k \in 1..Len(kept) : t \in targets[k]
        /\ \A j, k \in 1..Len(kept) : targets[j] \cap targets[k] # {} => j = k
    BY <1>1, <1>6, <1>8
  <2> HIDE DEF targets, A
  <2>3. QED
    <3>1. PlansOf(kept, targets, labels, drafts, h, missing, inHand)
      BY <2>2 DEF PlansOf
    <3> HIDE DEF Is
    <3>2. IsPlan(A, labels, drafts, h, missing, inHand) /\ IntoDocuments(A)
      BY <1>8, <2>1, <3>1, JoinedPlans
    <3>3. QED
      BY <2>1, <3>2 DEF Is
<1>11. Is(B, gone) /\ B \in Seq(PlanStep)
  <2>1. PICK at : B \in Seq(PlanStep) /\ Joins(B, left, Len(left), at)
    BY <1>9, FlattenedSteps
  <2> DEFINE targets == [k \in 1..Len(dropping) |-> {dropping[k]}]
  <2>2. /\ \A k \in 1..Len(left) : targets[k] \subseteq gone /\ Is(left[k], targets[k])
        /\ \A t \in gone : \E k \in 1..Len(left) : t \in targets[k]
        /\ \A j, k \in 1..Len(left) : targets[j] \cap targets[k] # {} => j = k
    BY <1>3, <1>4, <1>7, <1>9
  <2> HIDE DEF targets, B
  <2>3. QED
    <3>1. PlansOf(left, targets, gone, drafts, h, missing, inHand)
      BY <2>2 DEF PlansOf
    <3> HIDE DEF Is
    <3>2. IsPlan(B, gone, drafts, h, missing, inHand) /\ IntoDocuments(B)
      BY <1>9, <2>1, <3>1, JoinedPlans
    <3>3. QED
      BY <2>1, <3>2 DEF Is
<1> HIDE DEF A, B
<1>12. Is(s, labels \cup gone)
  <2> DEFINE both == <<A, B>>
             targets == <<labels, gone>>
             all == labels \cup gone
  <2>1. PICK at : s \in Seq(PlanStep) /\ Joins(s, both, 2, at)
    BY <1>5, <1>10, <1>11, BothJoined
  <2>2. both \in Seq(Seq(PlanStep)) /\ Len(both) = 2 /\ both[1] = A /\ both[2] = B
    BY <1>10, <1>11
  <2>3. targets[1] = labels /\ targets[2] = gone
    OBVIOUS
  <2> HIDE DEF both, targets
  <2>4. \A k \in 1..Len(both) : k = 1 \/ k = 2
    BY <2>2
  <2>5. /\ \A k \in 1..Len(both) : targets[k] \subseteq all /\ Is(both[k], targets[k])
        /\ \A t \in all : \E k \in 1..Len(both) : t \in targets[k]
        /\ \A j, k \in 1..Len(both) : targets[j] \cap targets[k] # {} => j = k
    <3>1. \A k \in 1..Len(both) : targets[k] \subseteq all /\ Is(both[k], targets[k])
      <4> HIDE DEF Is
      <4>1. QED
        BY <1>10, <1>11, <2>2, <2>3, <2>4
    <3>2. \A t \in all : \E k \in 1..Len(both) : t \in targets[k]
      BY <2>2, <2>3
    <3>3. \A j, k \in 1..Len(both) : targets[j] \cap targets[k] # {} => j = k
      BY <1>2, <2>3, <2>4
    <3>4. QED
      BY <3>1, <3>2, <3>3
  <2> HIDE DEF all
  <2>6. Is(s, all)
    <3>1. PlansOf(both, targets, all, drafts, h, missing, inHand)
      BY <2>5 DEF PlansOf
    <3> HIDE DEF Is
    <3>2. IsPlan(s, all, drafts, h, missing, inHand) /\ IntoDocuments(s)
      BY <2>1, <2>2, <3>1, JoinedPlans
    <3>3. QED
      BY <3>2 DEF Is
  <2>7. QED
    BY <2>6 DEF all
<1>13. Is(s, Labels)
  <2>1. s \in Seq(PlanStep) /\ \A k \in 1..Len(s) : s[k].ref[1] \in Labels
    <3>1. s \in Seq(PlanStep)
      BY <1>12 DEF IsPlan
    <3>2. \A k \in 1..Len(s) : s[k] \in PlanStep
      BY <3>1
    <3>3. \A x \in PlanStep : x.ref[1] \in Labels
      BY DEF PlanStep, Plans!Refs
    <3>4. QED
      BY <3>1, <3>2, <3>3
  <2>2. LeavesDrafted(s, Labels, drafts, h)
    <3>1. \A r \in Plans!Drafted(drafts) \cup DOMAIN h : r[1] \in labels \cup gone
      BY <1>1 DEF gone
    <3>2. LeavesDrafted(s, labels \cup gone, drafts, h)
      BY <1>12 DEF IsPlan
    <3>3. QED
      BY <3>1, <3>2 DEF LeavesDrafted
  <2>3. QED
    BY <1>12, <2>1, <2>2 DEF IsPlan
<1>14. QED
  BY <1>13 DEF s

LEMMA StepsLeft ==
  ASSUME NEW remaining \in Seq(PlanStep), remaining # <<>>
  PROVE  /\ Len(remaining) \in Nat /\ Len(remaining) # 0 /\ 1 \in 1..Len(remaining)
         /\ Head(remaining) = remaining[1] /\ remaining[1] \in PlanStep
         /\ Tail(remaining) \in Seq(PlanStep) /\ Len(Tail(remaining)) = Len(remaining) - 1
         /\ \A k \in 1..Len(Tail(remaining)) : Tail(remaining)[k] = remaining[k + 1] /\ k + 1 \in 2..Len(remaining)
         /\ \A k \in 2..Len(remaining) : k - 1 \in 1..Len(Tail(remaining)) /\ Tail(remaining)[k - 1] = remaining[k]
  OBVIOUS

\* What a run has left to do is the same when items go, and when a step gets its id.
LEMMA PlanStays ==
  ASSUME NEW remaining, NEW new \in Seq(PlanStep), NEW targets, NEW drafts, NEW h, NEW h2,
         NEW missing, NEW missing2, NEW inHand,
         IsPlan(remaining, targets, drafts, h, missing, inHand),
         Len(new) = Len(remaining),
         \A k \in 1..Len(remaining) : new[k].do = remaining[k].do /\ new[k].ref = remaining[k].ref,
         DOMAIN h2 = DOMAIN h, missing \subseteq missing2
  PROVE  IsPlan(new, targets, drafts, h2, missing2, inHand)
<1>1. /\ \A k \in 1..Len(new) : new[k].ref[1] \in targets
      /\ \A j, k \in 1..Len(new) : new[j].ref = new[k].ref => j = k
  BY DEF IsPlan
<1>2. Len(new) \in Nat /\ \A k \in 1..Len(new) : \A j \in 1..(k - 1) : j \in 1..Len(new)
  OBVIOUS
<1>3. CreatesFit(new, drafts, h2, missing2)
  <2>1. CreatesFit(remaining, drafts, h, missing)
    BY DEF IsPlan
  <2>2. QED
    BY <1>2, <2>1 DEF CreatesFit
<1>4. RetiresFit(new, drafts, h2, missing2, inHand)
  <2>1. RetiresFit(remaining, drafts, h, missing, inHand)
    BY DEF IsPlan
  <2>2. SUFFICES ASSUME NEW k \in 1..Len(new), new[k].do = "retire"
                 PROVE  /\ new[k].ref \in DOMAIN h \ Plans!Drafted(drafts)
                        /\ new[k].ref \in missing2 \cup inHand
                        /\ new[k].ref[2] = Doc =>
                             \A r \in DOMAIN h : r[1] = new[k].ref[1] /\ r[2] # Doc =>
                               \E j \in 1..(k - 1) : new[j].do = "retire" /\ new[j].ref = r
    BY DEF RetiresFit
  <2>3. /\ remaining[k].ref \in DOMAIN h \ Plans!Drafted(drafts)
        /\ remaining[k].ref \in missing \cup inHand
        /\ remaining[k].ref[2] = Doc =>
             \A r \in DOMAIN h : r[1] = remaining[k].ref[1] /\ r[2] # Doc =>
               \E j \in 1..(k - 1) : remaining[j].do = "retire" /\ remaining[j].ref = r
    BY <2>1, <2>2 DEF RetiresFit
  <2>4. \A j \in 1..(k - 1) : new[j].do = remaining[j].do /\ new[j].ref = remaining[j].ref
    BY <1>2
  <2>5. QED
    BY <2>3, <2>4
<1>5. LeavesDrafted(new, targets, drafts, h2)
  <2>1. LeavesDrafted(remaining, targets, drafts, h)
    BY DEF IsPlan
  <2>2. QED
    BY <1>2, <2>1 DEF LeavesDrafted
<1>6. QED
  BY <1>1, <1>3, <1>4, <1>5 DEF IsPlan

\* Where a section is drafted, so is its document.
WithDocuments(drafts) == \A r \in Plans!Drafted(drafts) : DocOf(r) \in Plans!Drafted(drafts)

LEMMA DocumentsAreDrafted ==
  ASSUME Plans!PlanAssumption, NEW drafts \in Yamls \cup {<<>>}
  PROVE  WithDocuments(drafts) /\ Plans!Drafted(drafts) \subseteq Plans!Refs
<1>1. CASE drafts \in Yamls
  BY <1>1, DraftedOfATarget DEF WithDocuments, DocOf
<1>2. CASE drafts = <<>>
  <2>1. Plans!Drafted(drafts) = {}
    BY <1>2 DEF Plans!Drafted
  <2>2. QED
    BY <2>1 DEF WithDocuments
<1>3. QED
  BY <1>1, <1>2

\* A step that is done leaves the rest of the plan.
LEMMA PlanGoesOn ==
  ASSUME NEW remaining, remaining # <<>>, NEW targets, NEW drafts, NEW h, NEW h2,
         NEW missing, NEW missing2, NEW inHand,
         IsPlan(remaining, targets, drafts, h, missing, inHand), WithDocuments(drafts),
         remaining[1].do = "create" => DOMAIN h2 = DOMAIN h \cup {remaining[1].ref},
         remaining[1].do = "retire" => DOMAIN h2 = DOMAIN h \ {remaining[1].ref},
         missing \ {remaining[1].ref} \subseteq missing2
  PROVE  IsPlan(Tail(remaining), targets, drafts, h2, missing2, inHand)
<1> DEFINE t == Tail(remaining)
           r == remaining[1].ref
           D == Plans!Drafted(drafts)
<1>1. /\ remaining \in Seq(PlanStep)
      /\ \A k \in 1..Len(remaining) : remaining[k].ref[1] \in targets
      /\ \A j, k \in 1..Len(remaining) : remaining[j].ref = remaining[k].ref => j = k
  BY DEF IsPlan
<1>2. /\ Len(remaining) \in Nat /\ 1 \in 1..Len(remaining) /\ remaining[1] \in PlanStep
      /\ t \in Seq(PlanStep) /\ Len(t) = Len(remaining) - 1
      /\ \A k \in 1..Len(t) : t[k] = remaining[k + 1] /\ k + 1 \in 2..Len(remaining)
      /\ \A k \in 2..Len(remaining) : k - 1 \in 1..Len(t) /\ t[k - 1] = remaining[k]
  BY <1>1, StepsLeft
<1> HIDE DEF t, r, D
<1>3. remaining[1].do \in {"create", "retire"}
  BY <1>2 DEF PlanStep
<1>4. \A k \in 1..Len(t) : t[k].ref[1] \in targets /\ t[k].ref # r
  BY <1>1, <1>2 DEF r
<1>5. \A j, k \in 1..Len(t) : t[j].ref = t[k].ref => j = k
  BY <1>1, <1>2
<1>6. CreatesFit(remaining, drafts, h, missing) /\ RetiresFit(remaining, drafts, h, missing, inHand)
      /\ LeavesDrafted(remaining, targets, drafts, h)
  BY DEF IsPlan
<1>7. remaining[1].do = "create" => r \in D
  BY <1>2, <1>6 DEF CreatesFit, r, D
<1>8. remaining[1].do = "retire" => r \in DOMAIN h \ D
  BY <1>2, <1>6 DEF RetiresFit, r, D
<1>9. ASSUME NEW k \in 1..Len(t), NEW do, NEW q, q # r \/ remaining[1].do # do,
             \E j \in 1..((k + 1) - 1) : remaining[j].do = do /\ remaining[j].ref = q
      PROVE  \E j \in 1..(k - 1) : t[j].do = do /\ t[j].ref = q
  <2>1. PICK j \in 1..((k + 1) - 1) : remaining[j].do = do /\ remaining[j].ref = q
    BY <1>9
  <2>2. j # 1
    BY <1>9, <2>1 DEF r
  <2>3. j - 1 \in 1..(k - 1) /\ j \in 2..Len(remaining)
    BY <1>2, <2>2
  <2>4. t[j - 1] = remaining[j]
    BY <1>2, <2>3
  <2>5. QED
    BY <2>1, <2>3, <2>4
<1>10. CreatesFit(t, drafts, h2, missing2)
  <2>1. SUFFICES ASSUME NEW k \in 1..Len(t), t[k].do = "create"
                 PROVE  /\ t[k].ref \in D
                        /\ t[k].ref \in DOMAIN h2 => t[k].ref \in missing2
                        /\ t[k].ref[2] = Doc \/ DocOf(t[k].ref) \in DOMAIN h2
                           \/ \E j \in 1..(k - 1) : t[j].do = "create" /\ t[j].ref = DocOf(t[k].ref)
    BY DEF CreatesFit, D
  <2> DEFINE q == t[k].ref
  <2>2. q = remaining[k + 1].ref /\ k + 1 \in 1..Len(remaining) /\ remaining[k + 1].do = "create" /\ q # r
    BY <1>2, <1>4, <2>1
  <2>3. /\ q \in D /\ (q \in DOMAIN h => q \in missing)
        /\ q[2] = Doc \/ DocOf(q) \in DOMAIN h
           \/ \E j \in 1..((k + 1) - 1) : remaining[j].do = "create" /\ remaining[j].ref = DocOf(q)
    BY <1>6, <2>2 DEF CreatesFit, D
  <2> HIDE DEF q
  <2>4. q \in DOMAIN h2 => q \in missing2
    BY <1>3, <2>2, <2>3 DEF r
  <2>5. DocOf(q) \in D
    BY <2>3 DEF WithDocuments, D
  <2>6. ASSUME DocOf(q) \in DOMAIN h PROVE DocOf(q) \in DOMAIN h2
    BY <1>3, <1>8, <2>5, <2>6 DEF r
  <2>7. ASSUME \E j \in 1..((k + 1) - 1) : remaining[j].do = "create" /\ remaining[j].ref = DocOf(q)
        PROVE  DocOf(q) \in DOMAIN h2
               \/ \E j \in 1..(k - 1) : t[j].do = "create" /\ t[j].ref = DocOf(q)
    <3>1. CASE DocOf(q) = r /\ remaining[1].do = "create"
      <4>1. r \in DOMAIN h2
        BY <3>1 DEF r
      <4>2. QED
        BY <3>1, <4>1
    <3>2. CASE DocOf(q) # r \/ remaining[1].do # "create"
      <4> DEFINE d == DocOf(q)
      <4>1. d # r \/ remaining[1].do # "create"
        BY <3>2
      <4>2. \E j \in 1..((k + 1) - 1) : remaining[j].do = "create" /\ remaining[j].ref = d
        BY <2>7
      <4> HIDE DEF d
      <4>3. \E j \in 1..(k - 1) : t[j].do = "create" /\ t[j].ref = d
        BY <1>9, <4>1, <4>2
      <4>4. QED
        BY <4>3 DEF d
    <3>3. QED
      BY <3>1, <3>2
  <2>8. QED
    BY <2>3, <2>4, <2>6, <2>7 DEF q
<1>11. RetiresFit(t, drafts, h2, missing2, inHand)
  <2>1. SUFFICES ASSUME NEW k \in 1..Len(t), t[k].do = "retire"
                 PROVE  /\ t[k].ref \in DOMAIN h2 \ D
                        /\ t[k].ref \in missing2 \cup inHand
                        /\ t[k].ref[2] = Doc =>
                             \A s \in DOMAIN h2 : s[1] = t[k].ref[1] /\ s[2] # Doc =>
                               \E j \in 1..(k - 1) : t[j].do = "retire" /\ t[j].ref = s
    BY DEF RetiresFit, D
  <2> DEFINE q == t[k].ref
  <2>2. q = remaining[k + 1].ref /\ k + 1 \in 1..Len(remaining) /\ remaining[k + 1].do = "retire" /\ q # r
    BY <1>2, <1>4, <2>1
  <2>3. /\ q \in DOMAIN h \ D /\ q \in missing \cup inHand
        /\ q[2] = Doc => \A s \in DOMAIN h : s[1] = q[1] /\ s[2] # Doc =>
             \E j \in 1..((k + 1) - 1) : remaining[j].do = "retire" /\ remaining[j].ref = s
    BY <1>6, <2>2 DEF RetiresFit, D
  <2> HIDE DEF q
  <2>4. q \in DOMAIN h2 \ D /\ q \in missing2 \cup inHand
    BY <1>3, <2>2, <2>3 DEF r
  <2>5. ASSUME q[2] = Doc, NEW s \in DOMAIN h2, s[1] = q[1], s[2] # Doc
        PROVE  \E j \in 1..(k - 1) : t[j].do = "retire" /\ t[j].ref = s
    <3>1. s \notin D
      <4>1. q = DocOf(s)
        <5>1. q \in Plans!Refs
          <6>1. remaining[k + 1] \in PlanStep
            BY <1>1, <2>2
          <6>2. QED
            BY <2>2, <6>1 DEF PlanStep
        <5>2. q = <<q[1], q[2]>>
          BY <5>1 DEF Plans!Refs
        <5>3. QED
          BY <2>5, <5>2 DEF DocOf
      <4>2. QED
        BY <2>3, <4>1 DEF WithDocuments, D
    <3>2. s \in DOMAIN h /\ (remaining[1].do = "retire" => s # r)
      BY <1>3, <1>7, <3>1 DEF r
    <3>3. \E j \in 1..((k + 1) - 1) : remaining[j].do = "retire" /\ remaining[j].ref = s
      BY <2>3, <2>5, <3>2
    <3>4. QED
      BY <1>9, <3>2, <3>3
  <2>6. QED
    BY <2>4, <2>5 DEF q
<1>12. LeavesDrafted(t, targets, drafts, h2)
  <2>1. ASSUME NEW do, NEW q, q # r \/ remaining[1].do # do,
               \E j \in 1..Len(remaining) : remaining[j].do = do /\ remaining[j].ref = q
        PROVE  \E j \in 1..Len(t) : t[j].do = do /\ t[j].ref = q
    <3>1. PICK j \in 1..Len(remaining) : remaining[j].do = do /\ remaining[j].ref = q
      BY <2>1
    <3>2. j \in 2..Len(remaining)
      BY <2>1, <3>1 DEF r
    <3>3. j - 1 \in 1..Len(t) /\ t[j - 1] = remaining[j]
      BY <1>2, <3>2
    <3>4. QED
      BY <3>1, <3>3
  <2>2. ASSUME NEW q \in D, q[1] \in targets, q \notin DOMAIN h2
        PROVE  \E j \in 1..Len(t) : t[j].do = "create" /\ t[j].ref = q
    <3>1. q \notin DOMAIN h /\ (q # r \/ remaining[1].do # "create")
      BY <1>3, <1>8, <2>2 DEF r
    <3>2. \E j \in 1..Len(remaining) : remaining[j].do = "create" /\ remaining[j].ref = q
      BY <1>6, <2>2, <3>1 DEF LeavesDrafted, D
    <3>3. QED
      BY <2>1, <3>1, <3>2
  <2>3. ASSUME NEW q \in DOMAIN h2 \ D, q[1] \in targets
        PROVE  \E j \in 1..Len(t) : t[j].do = "retire" /\ t[j].ref = q
    <3>1. q \in DOMAIN h /\ (q # r \/ remaining[1].do # "retire")
      BY <1>3, <1>7, <2>3 DEF r
    <3>2. \E j \in 1..Len(remaining) : remaining[j].do = "retire" /\ remaining[j].ref = q
      BY <1>6, <2>3, <3>1 DEF LeavesDrafted, D
    <3>3. QED
      BY <2>1, <3>1, <3>2
  <2>4. QED
    BY <2>2, <2>3 DEF LeavesDrafted, D
<1>13. QED
  BY <1>2, <1>4, <1>5, <1>10, <1>11, <1>12 DEF IsPlan, t

HeldAreItems ==
  /\ \A i \in Ids : items[i] \in Item
  /\ \A r \in DOMAIN held : held[r] \in HeldItem /\ r \in Plans!Refs

LEMMA HeldItems ==
  ASSUME PlanTypes
  PROVE  HeldAreItems
BY DEF PlanTypes, HeldAreItems

\* What the step under way is.
StepIsPlanned ==
  LET s == run.todo[1] IN
  /\ Plans!Step = s /\ s \in PlanStep /\ run.todo \in Seq(PlanStep) /\ 1 \in 1..Len(run.todo)
  /\ s.ref \in Plans!Refs /\ s.do \in {"create", "retire"} /\ s.into \in Ids \cup {None}
  /\ WithDocuments(run.drafts)
  /\ s.do = "create" =>
       /\ s.ref \in Plans!Drafted(run.drafts)
       /\ s.ref \in DOMAIN held => s.ref \in Plans!MissingOf(held)
       /\ s.ref[2] = Doc \/ DocOf(s.ref) \in DOMAIN held
  /\ s.do = "retire" =>
       /\ s.ref \in DOMAIN held \ Plans!Drafted(run.drafts)
       /\ s.ref \in Plans!MissingOf(held) \cup run.read
       /\ s.ref[2] = Doc =>
            /\ \A r \in DOMAIN held : r[1] = s.ref[1] => r[2] = Doc
            /\ \A k \in 1..Len(run.todo) : run.todo[k].do = "create" => run.todo[k].ref[1] # s.ref[1]

LEMMA TheStep ==
  ASSUME Plans!PlanAssumption, PlanInvariant, pc # "idle", run.todo # <<>>
  PROVE  StepIsPlanned
<1> DEFINE s == run.todo[1]
<1>1. /\ run.todo \in Seq(PlanStep) /\ run.drafts \in Yamls \cup {<<>>}
      /\ IsPlan(run.todo, Labels, run.drafts, held, Plans!MissingOf(held), run.read)
  BY DEF PlanInvariant, PlanTypes
<1>2. Plans!Step = s /\ s \in PlanStep /\ 1 \in 1..Len(run.todo)
  BY <1>1, StepsLeft DEF Plans!Step
<1>3. WithDocuments(run.drafts)
  BY <1>1, DocumentsAreDrafted
<1>4. s.ref \in Plans!Refs /\ s.do \in {"create", "retire"} /\ s.into \in Ids \cup {None}
  BY <1>2 DEF PlanStep
<1>5. /\ CreatesFit(run.todo, run.drafts, held, Plans!MissingOf(held))
      /\ RetiresFit(run.todo, run.drafts, held, Plans!MissingOf(held), run.read)
  BY <1>1 DEF IsPlan
<1>6. ~\E j \in 1..(1 - 1) : TRUE
  OBVIOUS
<1>7. s.do = "create" =>
       /\ s.ref \in Plans!Drafted(run.drafts)
       /\ s.ref \in DOMAIN held => s.ref \in Plans!MissingOf(held)
       /\ s.ref[2] = Doc \/ DocOf(s.ref) \in DOMAIN held
  BY <1>2, <1>5, <1>6 DEF CreatesFit
<1>8. s.do = "retire" =>
       /\ s.ref \in DOMAIN held \ Plans!Drafted(run.drafts)
       /\ s.ref \in Plans!MissingOf(held) \cup run.read
  BY <1>2, <1>5 DEF RetiresFit
<1>9. ASSUME s.do = "retire", s.ref[2] = Doc, NEW r \in DOMAIN held, r[1] = s.ref[1]
      PROVE  r[2] = Doc
  BY <1>2, <1>5, <1>6, <1>9 DEF RetiresFit
<1>10. ASSUME s.do = "retire", s.ref[2] = Doc, NEW k \in 1..Len(run.todo), run.todo[k].do = "create"
       PROVE  run.todo[k].ref[1] # s.ref[1]
  <2>1. run.todo[k].ref \in Plans!Drafted(run.drafts)
    BY <1>5, <1>10 DEF CreatesFit
  <2>2. DocOf(run.todo[k].ref) \in Plans!Drafted(run.drafts)
    BY <1>3, <2>1 DEF WithDocuments
  <2>3. s.ref = <<s.ref[1], Doc>>
    BY <1>4, <1>10 DEF Plans!Refs
  <2>4. QED
    BY <1>8, <1>10, <2>2, <2>3 DEF DocOf
<1> HIDE DEF s
<1>11. QED
  BY <1>1, <1>2, <1>3, <1>4, <1>7, <1>8, <1>9, <1>10 DEF StepIsPlanned, s

LEMMA ReviseKeeps ==
  ASSUME PlanInvariant, Plans!Revise
  PROVE  PlanInvariant'
<1>1. yaml' \in Yamls /\ UNCHANGED <<items, held, pending, pc, run>>
  BY DEF Plans!Revise
<1>2. PlanTypes'
  BY <1>1 DEF PlanTypes, PlanInvariant, Item, HeldItem, Plans!Refs, PlanStep
<1>3. NotedFits' /\ StepFits' /\ RetiringIsLast' /\ HeldIsMade'
  BY <1>1 DEF PlanInvariant, NotedFits, StepFits, RetiringIsLast, HeldIsMade, Unheld, Plans!There,
       Plans!MissingOf, Plans!Step
<1>4. Plans!SectionsHaveADocument' /\ Plans!NothingLost'
  BY <1>1 DEF PlanInvariant, Plans!SectionsHaveADocument, Plans!NothingLost, Plans!There, Plans!HeldRefs
<1>5. pc' # "idle" => IsPlan(run.todo, Labels, run.drafts, held, Plans!MissingOf(held), run.read)'
  <2>1. Plans!MissingOf(held)' = Plans!MissingOf(held)
    BY <1>1 DEF Plans!MissingOf, Plans!There
  <2>2. ASSUME pc' # "idle"
        PROVE  IsPlan(run.todo', Labels, run.drafts', held', Plans!MissingOf(held)', run.read')
    BY <1>1, <2>1, <2>2 DEF PlanInvariant
  <2>3. QED
    BY <2>2
<1>6. QED
  BY <1>2, <1>3, <1>4, <1>5 DEF PlanInvariant

\* The rest of what a run has planned, while it runs.
Planned == pc # "idle" => IsPlan(run.todo, Labels, run.drafts, held, Plans!MissingOf(held), run.read)

\* Items go, and are released, and none is made.
ItemsGo ==
  /\ items' \in [Ids -> Item]
  /\ \A i \in Ids : /\ items[i].life # "none" => items'[i].life # "none"
                    /\ items'[i].life = "there" => items[i].life = "there"
                    /\ items'[i].of \in {items[i].of, None}

LEMMA GoneItemsGo ==
  ASSUME PlanTypes, NEW i \in Ids, items' = Plans!Gone(i)
  PROVE  /\ ItemsGo /\ items'[i].life # "there"
         /\ \A j \in Ids : items'[j].of = items[j].of
<1>1. items \in [Ids -> Item]
  BY DEF PlanTypes
<1>2. \A j \in Ids : items'[j] = IF (j = i \/ items[j].under = i) /\ items[j].life = "there"
                                 THEN [items[j] EXCEPT !.life = "gone"] ELSE items[j]
  BY DEF Plans!Gone, Plans!There
<1>3. \A j \in Ids : items[j] \in Item
  BY <1>1
<1>4. \A j \in Ids : items'[j] \in Item
  BY <1>2, <1>3 DEF Item
<1>5. items' = [j \in Ids |-> items'[j]]
  BY DEF Plans!Gone
<1>6. items' \in [Ids -> Item]
  BY <1>4, <1>5
<1>7. \A j \in Ids : /\ items[j].life # "none" => items'[j].life # "none"
                     /\ items'[j].life = "there" => items[j].life = "there"
                     /\ items'[j].of = items[j].of
  BY <1>2, <1>3 DEF Item
<1>8. items'[i].life # "there"
  BY <1>2, <1>3 DEF Item
<1>9. QED
  BY <1>6, <1>7, <1>8 DEF ItemsGo

\* What stays true of the state file and of the plan when items go.
LEMMA WhenItemsGo ==
  ASSUME Plans!PlanAssumption, PlanInvariant, ItemsGo, UNCHANGED <<yaml, held, run>>
  PROVE  /\ RetiringIsLast' /\ HeldIsMade' /\ Plans!SectionsHaveADocument'
         /\ pc # "idle" => Planned'
         /\ Plans!MissingOf(held) \subseteq Plans!MissingOf(held)'
         /\ \A r \in Plans!Refs : Unheld(r)' \subseteq Unheld(r)
         /\ \A i \in Ids : items'[i].life = "there" /\ items'[i].of # None =>
              items[i].life = "there" /\ items[i].of # None /\ items'[i].of = items[i].of
<1>1. HeldAreItems
  BY HeldItems DEF PlanInvariant
<1>2. RetiringIsLast' /\ Plans!SectionsHaveADocument'
  BY DEF PlanInvariant, RetiringIsLast, Plans!SectionsHaveADocument, Plans!HeldRefs
<1>3. HeldIsMade'
  BY <1>1 DEF PlanInvariant, HeldIsMade, HeldAreItems, HeldItem, ItemsGo
<1>4. Plans!MissingOf(held) \subseteq Plans!MissingOf(held)'
  BY <1>1 DEF Plans!MissingOf, Plans!There, HeldAreItems, HeldItem, ItemsGo
<1>5. \A r \in Plans!Refs : Unheld(r)' \subseteq Unheld(r)
  <2>1. None \notin Plans!Refs
    BY DEF Plans!PlanAssumption, Plans!Refs
  <2>2. QED
    BY <2>1 DEF Unheld, Plans!There, ItemsGo
<1>6. \A i \in Ids : items'[i].life = "there" /\ items'[i].of # None =>
              items[i].life = "there" /\ items[i].of # None /\ items'[i].of = items[i].of
  BY DEF ItemsGo
<1>7. ASSUME pc # "idle"
      PROVE  IsPlan(run.todo', Labels, run.drafts', held', Plans!MissingOf(held)', run.read')
  <2>1. IsPlan(run.todo, Labels, run.drafts, held, Plans!MissingOf(held), run.read)
    BY <1>7 DEF PlanInvariant
  <2>2. run.todo \in Seq(PlanStep)
    BY DEF PlanInvariant, PlanTypes
  <2>3. IsPlan(run.todo, Labels, run.drafts, held, Plans!MissingOf(held)', run.read)
    BY <1>4, <2>1, <2>2, PlanStays
  <2>4. QED
    BY <2>3
<1>8. pc # "idle" => Planned'
  BY <1>7 DEF Planned
<1>9. QED
  BY <1>2, <1>3, <1>4, <1>5, <1>6, <1>8

LEMMA DeleteKeeps ==
  ASSUME Plans!PlanAssumption, PlanInvariant, NEW i \in Ids, Plans!Delete(i)
  PROVE  PlanInvariant'
<1>1. ItemsGo /\ (\A j \in Ids : items'[j].of = items[j].of)
      /\ UNCHANGED <<yaml, held, pending, pc, run>>
  BY GoneItemsGo DEF Plans!Delete, PlanInvariant
<1>2. /\ RetiringIsLast' /\ HeldIsMade' /\ Plans!SectionsHaveADocument'
      /\ pc # "idle" => Planned'
      /\ Plans!MissingOf(held) \subseteq Plans!MissingOf(held)'
      /\ \A r \in Plans!Refs : Unheld(r)' \subseteq Unheld(r)
      /\ \A j \in Ids : items'[j].life = "there" /\ items'[j].of # None =>
           items[j].life = "there" /\ items[j].of # None /\ items'[j].of = items[j].of
  BY <1>1, WhenItemsGo
<1>3. PlanTypes'
  BY <1>1 DEF PlanInvariant, PlanTypes, ItemsGo, Item, HeldItem, PlanStep, Plans!Refs
<1>4. NotedFits'
  <2>1. \A p \in pending : p.ref \in Plans!Refs
    BY DEF PlanInvariant, PlanTypes
  <2>2. QED
    BY <1>1, <1>2, <2>1 DEF PlanInvariant, NotedFits
<1>5. StepFits'
  <2>1. pc \in {"send", "record"} => StepIsPlanned
    BY TheStep DEF PlanInvariant, StepFits
  <2>2. Plans!Step' = Plans!Step
    BY <1>1 DEF Plans!Step
  <2>3. StepFits
    BY DEF PlanInvariant
  <2>4. /\ pc' = "idle" => run.todo' = <<>>
        /\ pc' = "note" => pending' = {}
        /\ pc' \in {"send", "record"} => run.todo' # <<>>
        /\ pc' \in {"send", "record"} /\ Plans!Step'.do = "retire" => pending' = {}
        /\ pc' \in {"send", "record"} /\ Plans!Step'.do = "create" =>
             \E p \in pending' : p.ref = Plans!Step'.ref /\ (pc' = "send" => p.into = Plans!Step'.into)
    BY <1>1, <2>2, <2>3 DEF StepFits
  <2>5. pc' = "send" /\ Plans!Step'.do = "create" => Unheld(Plans!Step.ref)' = {}
    BY <1>1, <1>2, <2>1, <2>2, <2>3 DEF StepFits, StepIsPlanned
  <2>6. pc' = "record" /\ Plans!Step'.do = "create" =>
          /\ Plans!Step'.into \in Ids /\ items'[Plans!Step'.into].life # "none"
          /\ Unheld(Plans!Step.ref)' \subseteq {Plans!Step'.into}
    BY <1>1, <1>2, <2>1, <2>2, <2>3 DEF StepFits, StepIsPlanned, ItemsGo
  <2>7. pc' = "record" /\ Plans!Step'.do = "retire" =>
          items'[held'[Plans!Step'.ref].id].life # "there" \/ items'[held'[Plans!Step'.ref].id].of = None
    <3>1. SUFFICES ASSUME pc = "record", Plans!Step.do = "retire"
                   PROVE  items'[held[Plans!Step.ref].id].life # "there" \/ items'[held[Plans!Step.ref].id].of = None
      BY <1>1, <2>2
    <3>2. held[Plans!Step.ref].id \in Ids
      BY <2>1, <3>1, HeldItems DEF StepIsPlanned, HeldAreItems, HeldItem, PlanInvariant
    <3>3. QED
      BY <1>1, <2>3, <3>1, <3>2 DEF StepFits, Plans!There, ItemsGo
  <2>8. \A k \in 1..Len(run.todo') :
          run.todo'[k].into # None /\ (pc' = "record" => k # 1) => run.todo'[k].ref[2] = Doc
    BY <1>1, <2>3 DEF StepFits
  <2>9. QED
    BY <2>4, <2>5, <2>6, <2>7, <2>8 DEF StepFits, Plans!There
<1>6. Plans!NothingLost'
  BY <1>1, <1>2 DEF PlanInvariant, Plans!NothingLost, Plans!There, Plans!HeldRefs
<1>7. QED
  BY <1>1, <1>2, <1>3, <1>4, <1>5, <1>6 DEF PlanInvariant, Planned

LEMMA ResolveKeeps ==
  ASSUME Plans!PlanAssumption, PlanInvariant, Plans!Resolve
  PROVE  PlanInvariant'
<1>1. PICK p \in pending :
        /\ pending' = pending \ {p}
        /\ items' = [i \in Ids |->
             IF /\ Plans!There(i) /\ items[i].of = p.ref
                /\ ~\E r \in Plans!HeldRefs : held[r].id = i
             THEN [items[i] EXCEPT !.life = "gone"] ELSE items[i]]
  BY DEF Plans!Resolve
<1>2. pc = "idle" /\ UNCHANGED <<yaml, held, run>> /\ pc' = pc
  BY DEF Plans!Resolve
<1>3. pending' = {} /\ \A q \in pending : q = p
  BY <1>1 DEF PlanInvariant, NotedFits
<1>4. ItemsGo
  <2>1. \A i \in Ids : items[i] \in Item
    BY DEF PlanInvariant, PlanTypes
  <2>2. \A i \in Ids : items'[i] \in {items[i], [items[i] EXCEPT !.life = "gone"]}
                       /\ (items[i].life # "there" => items'[i] = items[i])
    BY <1>1 DEF Plans!There
  <2>3. \A i \in Ids : items'[i] \in Item
    BY <2>1, <2>2 DEF Item
  <2>4. items' = [i \in Ids |-> items'[i]]
    BY <1>1
  <2>5. items' \in [Ids -> Item]
    BY <2>3, <2>4
  <2>6. \A i \in Ids : /\ items[i].life # "none" => items'[i].life # "none"
                       /\ items'[i].life = "there" => items[i].life = "there"
                       /\ items'[i].of = items[i].of
    BY <2>1, <2>2 DEF Item
  <2>7. QED
    BY <2>5, <2>6 DEF ItemsGo
<1>5. /\ RetiringIsLast' /\ HeldIsMade' /\ Plans!SectionsHaveADocument'
      /\ \A j \in Ids : items'[j].life = "there" /\ items'[j].of # None =>
           items[j].life = "there" /\ items[j].of # None /\ items'[j].of = items[j].of
  BY <1>2, <1>4, WhenItemsGo
<1>6. PlanTypes'
  BY <1>2, <1>3, <1>4 DEF PlanInvariant, PlanTypes, ItemsGo, Item, HeldItem, PlanStep, Plans!Refs
<1>7. NotedFits'
  BY <1>3 DEF NotedFits
<1>8. StepFits'
  BY <1>2, <1>3 DEF PlanInvariant, StepFits
<1>9. Plans!NothingLost'
  <2>1. SUFFICES ASSUME NEW i \in Ids, items'[i].life = "there", items'[i].of # None
                 PROVE  \E r \in DOMAIN held : held[r].id = i
    BY <1>2 DEF Plans!NothingLost, Plans!There, Plans!HeldRefs
  <2>2. items[i].life = "there" /\ items[i].of # None
    BY <1>5, <2>1
  <2>3. (\E r \in DOMAIN held : held[r].id = i) \/ p.ref = items[i].of
    BY <1>3, <2>2 DEF PlanInvariant, Plans!NothingLost, Plans!There, Plans!HeldRefs
  <2>4. ASSUME p.ref = items[i].of, ~\E r \in DOMAIN held : held[r].id = i
        PROVE  FALSE
    <3>1. items'[i] = [items[i] EXCEPT !.life = "gone"]
      BY <1>1, <2>2, <2>4 DEF Plans!There, Plans!HeldRefs
    <3>2. items[i] \in Item
      BY DEF PlanInvariant, PlanTypes
    <3>3. items'[i].life = "gone"
      BY <3>1, <3>2 DEF Item
    <3>4. QED
      BY <2>1, <3>3
  <2>5. QED
    BY <2>3, <2>4
<1>10. QED
  BY <1>2, <1>5, <1>6, <1>7, <1>8, <1>9 DEF PlanInvariant

LEMMA NothingToDo ==
  ASSUME NEW D, NEW R, NEW S, NEW x \in [drafts : D, read : R, todo : Seq(S)]
  PROVE  [x EXCEPT !.todo = <<>>] \in [drafts : D, read : R, todo : Seq(S)]
         /\ [x EXCEPT !.todo = <<>>].todo = <<>>
<1>1. <<>> \in Seq(S)
  OBVIOUS
<1>2. QED
  BY <1>1

LEMMA StoppedRun ==
  ASSUME PlanTypes, run' = [run EXCEPT !.todo = <<>>]
  PROVE  /\ run' \in [drafts : Yamls \cup {<<>>}, read : SUBSET Plans!Refs, todo : Seq(PlanStep)]
         /\ run'.todo = <<>>
<1>1. run \in [drafts : Yamls \cup {<<>>}, read : SUBSET Plans!Refs, todo : Seq(PlanStep)]
  BY DEF PlanTypes
<1>2. QED
  BY <1>1, NothingToDo

\* A run that stops leaves what it noted.
LEMMA StoppedKeeps ==
  ASSUME PlanInvariant, UNCHANGED <<yaml, items, held, pending>>,
         pc' = "idle", run' = [run EXCEPT !.todo = <<>>]
  PROVE  PlanInvariant'
<1>1. /\ run' \in [drafts : Yamls \cup {<<>>}, read : SUBSET Plans!Refs, todo : Seq(PlanStep)]
      /\ run'.todo = <<>>
  BY StoppedRun DEF PlanInvariant
<1>2. PlanTypes'
  BY <1>1 DEF PlanInvariant, PlanTypes, Item, HeldItem, PlanStep, Plans!Refs
<1>3. NotedFits'
  <2>1. \A r : Unheld(r)' = Unheld(r)
    BY DEF Unheld, Plans!There
  <2>2. Plans!MissingOf(held)' = Plans!MissingOf(held)
    BY DEF Plans!MissingOf, Plans!There
  <2>3. QED
    BY <2>1, <2>2 DEF PlanInvariant, NotedFits
<1>7. HeldIsMade' /\ Plans!SectionsHaveADocument' /\ Plans!NothingLost'
  BY DEF PlanInvariant, HeldIsMade, Plans!SectionsHaveADocument, Plans!NothingLost,
         Plans!There, Plans!HeldRefs
<1>4. StepFits'
  BY <1>1 DEF StepFits
<1>5. RetiringIsLast'
  BY <1>1 DEF PlanInvariant, RetiringIsLast
<1>6. QED
  BY <1>2, <1>3, <1>4, <1>5, <1>7 DEF PlanInvariant

LEMMA StopKeeps ==
  ASSUME PlanInvariant, Plans!Stop PROVE PlanInvariant'
BY StoppedKeeps DEF Plans!Stop

LEMMA DoneKeeps ==
  ASSUME PlanInvariant, Plans!Done PROVE PlanInvariant'
<1>1. run \in [drafts : Yamls \cup {<<>>}, read : SUBSET Plans!Refs, todo : Seq(PlanStep)]
      /\ run.todo = <<>>
  BY DEF PlanInvariant, PlanTypes, Plans!Done
<1>2. run = [run EXCEPT !.todo = <<>>]
  BY <1>1
<1>3. QED
  BY <1>2, StoppedKeeps DEF Plans!Done

\* A create that was refused has made nothing.
LEMMA RefusedKeeps ==
  ASSUME Plans!PlanAssumption, PlanInvariant, pc = "send", Plans!Step.do = "create",
         UNCHANGED <<yaml, items, held>>, pending' = {p \in pending : p.ref # Plans!Step.ref},
         pc' = "idle", run' = [run EXCEPT !.todo = <<>>]
  PROVE  PlanInvariant'
<1>1. /\ run' \in [drafts : Yamls \cup {<<>>}, read : SUBSET Plans!Refs, todo : Seq(PlanStep)]
      /\ run'.todo = <<>>
  BY StoppedRun DEF PlanInvariant
<1>2. /\ \A p \in pending : p.ref = Plans!Step.ref
      /\ Unheld(Plans!Step.ref) = {}
  BY DEF PlanInvariant, StepFits, NotedFits
<1>3. pending' = {}
  BY <1>2
<1>4. PlanTypes'
  BY <1>1, <1>3 DEF PlanInvariant, PlanTypes, Item, HeldItem, PlanStep, Plans!Refs
<1>5. NotedFits' /\ HeldIsMade' /\ Plans!SectionsHaveADocument'
  BY <1>3 DEF PlanInvariant, NotedFits, HeldIsMade, Plans!SectionsHaveADocument, Plans!HeldRefs
<1>6. StepFits'
  BY <1>1 DEF StepFits
<1>7. RetiringIsLast'
  BY <1>1 DEF PlanInvariant, RetiringIsLast
<1>8. Plans!NothingLost'
  <2>1. \A i \in Ids : Plans!There(i) /\ items[i].of = Plans!Step.ref => \E r \in DOMAIN held : held[r].id = i
    BY <1>2 DEF Unheld
  <2>2. QED
    BY <1>2, <1>3, <2>1 DEF PlanInvariant, Plans!NothingLost, Plans!There, Plans!HeldRefs
<1>9. QED
  BY <1>4, <1>5, <1>6, <1>7, <1>8 DEF PlanInvariant

LEMMA ParentGoneKeeps ==
  ASSUME Plans!PlanAssumption, PlanInvariant, Plans!ParentGone PROVE PlanInvariant'
BY RefusedKeeps DEF Plans!ParentGone

\* One item of the state file is written over, and keeps its id.
LEMMA WrittenOver ==
  ASSUME PlanTypes, NEW r \in DOMAIN held, NEW v \in HeldItem, v.id = held[r].id,
         held' = [held EXCEPT ![r] = v]
  PROVE  /\ DOMAIN held' = DOMAIN held /\ held' \in [DOMAIN held' -> HeldItem]
         /\ held'[r] = v /\ \A q \in DOMAIN held : q # r => held'[q] = held[q]
         /\ \A q \in DOMAIN held : held'[q].id = held[q].id
BY DEF PlanTypes

LEMMA RejectedKeeps ==
  ASSUME Plans!PlanAssumption, PlanInvariant, Plans!Rejected
  PROVE  PlanInvariant'
<1> DEFINE s == Plans!Step
<1>1. /\ pc = "send" /\ pc' = "idle" /\ UNCHANGED <<yaml, items>>
      /\ run' = [run EXCEPT !.todo = <<>>]
  BY DEF Plans!Rejected
<1>2. CASE s.do = "create"
  BY <1>1, <1>2, RefusedKeeps DEF Plans!Rejected
<1>3. CASE s.do # "create"
  <2>1. run.todo # <<>>
    BY <1>1 DEF PlanInvariant, StepFits
  <2>2. StepIsPlanned
    BY <1>1, <2>1, TheStep
  <2>3. s.ref \in DOMAIN held /\ s.do = "retire" /\ s.ref \in Plans!Refs
    BY <1>3, <2>2 DEF StepIsPlanned
  <2>4. held' = [held EXCEPT ![s.ref].retiring = FALSE] /\ pending' = pending
    BY <1>3 DEF Plans!Rejected
  <2>5. pending = {}
    BY <1>1, <2>3 DEF PlanInvariant, StepFits
  <2> DEFINE v == [held[s.ref] EXCEPT !.retiring = FALSE]
  <2> HIDE DEF s
  <2>6. held[s.ref] \in HeldItem
    BY <2>3 DEF PlanInvariant, PlanTypes
  <2>7. v \in HeldItem /\ v.id = held[s.ref].id /\ v.retiring = FALSE
    BY <2>6 DEF HeldItem
  <2>8. held' = [held EXCEPT ![s.ref] = v]
    BY <2>4
  <2> HIDE DEF v
  <2>9. /\ DOMAIN held' = DOMAIN held /\ held' \in [DOMAIN held' -> HeldItem]
        /\ held'[s.ref] = v /\ \A q \in DOMAIN held : q # s.ref => held'[q] = held[q]
        /\ \A q \in DOMAIN held : held'[q].id = held[q].id
    BY <2>3, <2>7, <2>8, WrittenOver DEF PlanInvariant
  <2>10. /\ run' \in [drafts : Yamls \cup {<<>>}, read : SUBSET Plans!Refs, todo : Seq(PlanStep)]
         /\ run'.todo = <<>>
    BY <1>1, StoppedRun DEF PlanInvariant
  <2>11. PlanTypes'
    <3>1. yaml' \in Yamls /\ items' \in [Ids -> Item] /\ DOMAIN held' \subseteq Plans!Refs
      BY <1>1, <2>9 DEF PlanInvariant, PlanTypes
    <3>2. QED
      BY <1>1, <2>4, <2>5, <2>9, <2>10, <3>1 DEF PlanTypes, Item, HeldItem, PlanStep, Plans!Refs
  <2>12. NotedFits'
    BY <2>4, <2>5 DEF NotedFits
  <2>13. StepFits'
    BY <1>1, <2>10 DEF StepFits
  <2>14. RetiringIsLast'
    <3>1. \A q \in DOMAIN held : held'[q].retiring => held[q].retiring
      BY <2>7, <2>9
    <3>2. QED
      BY <2>9, <2>10, <3>1 DEF PlanInvariant, RetiringIsLast
  <2>15. HeldIsMade' /\ Plans!SectionsHaveADocument'
    BY <1>1, <2>9 DEF PlanInvariant, HeldIsMade, Plans!SectionsHaveADocument, Plans!HeldRefs
  <2>16. Plans!NothingLost'
    BY <1>1, <2>4, <2>9 DEF PlanInvariant, Plans!NothingLost, Plans!There, Plans!HeldRefs
  <2>17. QED
    BY <1>1, <2>11, <2>12, <2>13, <2>14, <2>15, <2>16 DEF PlanInvariant
<1>4. QED
  BY <1>2, <1>3

LEMMA NoneIsNoRef ==
  ASSUME Plans!PlanAssumption PROVE None \notin Plans!Refs /\ None \notin Ids
BY DEF Plans!PlanAssumption, Plans!Refs

LEMMA NoteCreateKeeps ==
  ASSUME Plans!PlanAssumption, PlanInvariant, Plans!NoteCreate
  PROVE  PlanInvariant'
<1> DEFINE s == Plans!Step
           p == [ref |-> s.ref, into |-> s.into]
<1>1. /\ pc = "note" /\ run.todo # <<>> /\ s.do = "create" /\ UNCHANGED <<yaml, items, held, run>>
  BY DEF Plans!NoteCreate
<1>2. StepIsPlanned /\ s = run.todo[1]
  BY <1>1, TheStep DEF StepIsPlanned
<1>3. /\ s.ref \in Plans!Refs /\ s.into \in Ids \cup {None}
      /\ s.ref \in DOMAIN held => s.ref \in Plans!MissingOf(held)
      /\ s.ref[2] = Doc \/ DocOf(s.ref) \in DOMAIN held
      /\ 1 \in 1..Len(run.todo)
  BY <1>1, <1>2 DEF StepIsPlanned
<1>4. pending = {}
  BY <1>1 DEF PlanInvariant, StepFits
<1>5. pc' = "send" /\ pending' = {p}
  BY <1>3, <1>4 DEF Plans!NoteCreate, DocOf, Plans!HeldRefs
<1>6. Plans!Step' = s
  BY <1>1 DEF Plans!Step
<1>7. s.into # None => s.ref[2] = Doc
  BY <1>1, <1>2, <1>3 DEF PlanInvariant, StepFits
<1>8. Unheld(s.ref) = {}
  BY <1>3, <1>4, NoneIsNoRef DEF PlanInvariant, Plans!NothingLost, Unheld, Plans!HeldRefs
<1>9. p \in [ref : Plans!Refs, into : Ids \cup {None}] /\ p.ref = s.ref /\ p.into = s.into
  BY <1>3
<1> HIDE DEF s, p
<1>10. PlanTypes'
  BY <1>1, <1>5, <1>9 DEF PlanInvariant, PlanTypes, Item, HeldItem, PlanStep, Plans!Refs
<1>11. Unheld(s.ref)' = Unheld(s.ref) /\ Plans!MissingOf(held)' = Plans!MissingOf(held)
  <2>1. s' = s
    BY <1>6 DEF s
  <2>2. QED
    BY <1>1, <2>1 DEF Unheld, Plans!There, Plans!MissingOf
<1>17. \A x \in pending' : x = p
  BY <1>5
<1>12. NotedFits'
  <2>1. s' = s
    BY <1>6 DEF s
  <2>2. \A x \in pending' : Unheld(x.ref)' = Unheld(s.ref)
    BY <1>9, <1>11, <1>17, <2>1
  <2>3. QED
    BY <1>1, <1>3, <1>5, <1>7, <1>8, <1>9, <1>11, <1>17, <2>2 DEF NotedFits
<1>13. StepFits'
  <2>1. /\ pc' = "send" /\ run'.todo # <<>> /\ Plans!Step'.do = "create"
        /\ \E x \in pending' : x.ref = Plans!Step'.ref /\ x.into = Plans!Step'.into
    BY <1>1, <1>5, <1>6, <1>9
  <2>2. \A k \in 1..Len(run'.todo) : run'.todo[k].into # None => run'.todo[k].ref[2] = Doc
    BY <1>1 DEF PlanInvariant, StepFits
  <2>3. Unheld(s.ref)' = {}
    BY <1>8, <1>11
  <2>4. Unheld(Plans!Step.ref)' = {}
    BY <2>3 DEF s
  <2>5. QED
    BY <2>1, <2>2, <2>4 DEF StepFits
<1>14. RetiringIsLast' /\ HeldIsMade' /\ Plans!SectionsHaveADocument'
  BY <1>1 DEF PlanInvariant, RetiringIsLast, HeldIsMade, Plans!SectionsHaveADocument, Plans!HeldRefs
<1>15. Plans!NothingLost'
  BY <1>1, <1>4 DEF PlanInvariant, Plans!NothingLost, Plans!There, Plans!HeldRefs
<1>16. QED
  BY <1>1, <1>10, <1>11, <1>12, <1>13, <1>14, <1>15 DEF PlanInvariant

LEMMA SendRetireKeeps ==
  ASSUME Plans!PlanAssumption, PlanInvariant, Plans!SendRetire
  PROVE  PlanInvariant'
<1> DEFINE s == Plans!Step
           i == held[s.ref].id
<1>1. /\ pc = "send" /\ s.do = "retire" /\ pc' = "record" /\ UNCHANGED <<yaml, held, pending, run>>
      /\ items' = IF s.ref[2] = Doc /\ Existing[s.ref[1]] = i
                  THEN [items EXCEPT ![i].of = None, ![i].links = {}] ELSE Plans!Gone(i)
  BY DEF Plans!SendRetire
<1>2. run.todo # <<>> /\ pending = {}
  BY <1>1 DEF PlanInvariant, StepFits
<1>3. StepIsPlanned
  BY <1>1, <1>2, TheStep
<1>4. s.ref \in DOMAIN held /\ HeldAreItems
  BY <1>1, <1>3, HeldItems DEF PlanInvariant, StepIsPlanned
<1>5. i \in Ids
  BY <1>4 DEF HeldAreItems, HeldItem
<1>6. Plans!Step' = s
  BY <1>1 DEF Plans!Step
<1> HIDE DEF s, i
<1>7. ItemsGo /\ (items'[i].life # "there" \/ items'[i].of = None)
  <2>1. CASE items' = Plans!Gone(i)
    BY <1>5, <2>1, GoneItemsGo DEF PlanInvariant
  <2>2. CASE items' = [items EXCEPT ![i].of = None, ![i].links = {}]
    <3>1. items[i] \in Item /\ items \in [Ids -> Item]
      BY <1>5 DEF PlanInvariant, PlanTypes
    <3> DEFINE v == [items[i] EXCEPT !.of = None, !.links = {}]
    <3>2. items' = [items EXCEPT ![i] = v]
      BY <1>5, <2>2, <3>1
    <3>3. v \in Item /\ v.life = items[i].life /\ v.of = None
      BY <3>1 DEF Item
    <3> HIDE DEF v
    <3>4. items' \in [Ids -> Item] /\ \A j \in Ids : items'[j] = IF j = i THEN v ELSE items[j]
      BY <3>1, <3>2, <3>3
    <3>5. QED
      BY <1>5, <3>3, <3>4 DEF ItemsGo
  <2>3. QED
    BY <1>1, <2>1, <2>2
<1>8. /\ RetiringIsLast' /\ HeldIsMade' /\ Plans!SectionsHaveADocument'
      /\ pc # "idle" => Planned'
      /\ \A j \in Ids : items'[j].life = "there" /\ items'[j].of # None =>
           items[j].life = "there" /\ items[j].of # None /\ items'[j].of = items[j].of
  BY <1>1, <1>7, WhenItemsGo
<1>9. PlanTypes'
  BY <1>1, <1>7 DEF PlanInvariant, PlanTypes, ItemsGo, Item, HeldItem, PlanStep, Plans!Refs
<1>10. NotedFits'
  BY <1>1, <1>2 DEF NotedFits
<1>11. StepFits'
  <2>1. pc' = "record" /\ run'.todo # <<>> /\ pending' = {} /\ Plans!Step'.do = "retire"
    BY <1>1, <1>2, <1>6
  <2>2. items'[held'[Plans!Step'.ref].id].life # "there" \/ items'[held'[Plans!Step'.ref].id].of = None
    BY <1>1, <1>6, <1>7 DEF i
  <2>3. \A k \in 1..Len(run'.todo) : run'.todo[k].into # None /\ k # 1 => run'.todo[k].ref[2] = Doc
    BY <1>1 DEF PlanInvariant, StepFits
  <2>4. QED
    BY <2>1, <2>2, <2>3 DEF StepFits, Plans!There
<1>12. Plans!NothingLost'
  BY <1>1, <1>8 DEF PlanInvariant, Plans!NothingLost, Plans!There, Plans!HeldRefs
<1>13. QED
  BY <1>1, <1>8, <1>9, <1>10, <1>11, <1>12 DEF PlanInvariant, Planned

LEMMA IdOfACreate ==
  ASSUME Plans!PlanAssumption, PlanInvariant, Plans!SendCreate
  PROVE  /\ Plans!NewId \in Ids
         /\ Plans!Step.into = None => items[Plans!NewId].life = "none"
         /\ Plans!Step.into # None => Plans!NewId = Plans!Step.into /\ items[Plans!NewId].life = "there"
         /\ Plans!ParentId(Plans!Step.ref) \in Ids \cup {None}
<1> DEFINE s == Plans!Step
<1>1. /\ pc = "send" /\ s.do = "create" /\ run.todo # <<>>
      /\ s.into = None => \E i \in Ids : items[i].life = "none"
      /\ ~Plans!PlaceGone
  BY DEF Plans!SendCreate, PlanInvariant, StepFits
<1>2. StepIsPlanned /\ HeldAreItems
  BY <1>1, TheStep, HeldItems DEF PlanInvariant
<1>3. /\ s.ref \in Plans!Refs /\ s.into \in Ids \cup {None}
      /\ s.ref[2] = Doc \/ DocOf(s.ref) \in DOMAIN held
  BY <1>1, <1>2 DEF StepIsPlanned
<1>4. ASSUME s.into = None PROVE Plans!NewId \in Ids /\ items[Plans!NewId].life = "none"
  BY <1>1, <1>4 DEF Plans!NewId
<1>5. ASSUME s.into # None
      PROVE  Plans!NewId = s.into /\ s.into \in Ids /\ items[s.into].life = "there"
  BY <1>1, <1>3, <1>5 DEF Plans!NewId, Plans!PlaceGone, Plans!There
<1>6. Plans!ParentId(s.ref) \in Ids \cup {None}
  BY <1>2, <1>3 DEF Plans!ParentId, DocOf, HeldAreItems, HeldItem
<1>7. QED
  BY <1>4, <1>5, <1>6

RunType == [drafts : Yamls \cup {<<>>}, read : SUBSET Plans!Refs, todo : Seq(PlanStep)]

\* The step under way gets the id of the item that was made.
GetsItsId(x, y, i) ==
  /\ y \in RunType
  /\ y.drafts = x.drafts /\ y.read = x.read /\ y.todo # <<>>
  /\ Len(y.todo) = Len(x.todo)
  /\ Head(y.todo) = y.todo[1] /\ y.todo[1].into = i
  /\ \A k \in 1..Len(x.todo) : /\ y.todo[k].do = x.todo[k].do /\ y.todo[k].ref = x.todo[k].ref
                               /\ k # 1 => y.todo[k] = x.todo[k]

LEMMA StepGetsItsId ==
  ASSUME NEW x \in RunType, x.todo # <<>>, NEW i \in Ids,
         NEW z, z = [x EXCEPT !.todo[1] = [@ EXCEPT !.into = i]]
  PROVE  GetsItsId(x, z, i)
<1> DEFINE t == x.todo
           v == [t[1] EXCEPT !.into = i]
           new == [t EXCEPT ![1] = v]
           y == [x EXCEPT !.todo[1] = [@ EXCEPT !.into = i]]
<1>1. t \in Seq(PlanStep) /\ 1 \in 1..Len(t) /\ t[1] \in PlanStep
  BY DEF RunType
<1>2. v \in PlanStep /\ v.do = t[1].do /\ v.ref = t[1].ref /\ v.into = i
  BY <1>1 DEF PlanStep
<1>3. y = [x EXCEPT !.todo = new]
  OBVIOUS
<1> HIDE DEF v
<1>4. /\ new \in Seq(PlanStep) /\ Len(new) = Len(t) /\ new # <<>> /\ new[1] = v
      /\ \A k \in 1..Len(t) : k # 1 => new[k] = t[k]
  BY <1>1, <1>2
<1>5. Head(new) = new[1]
  BY <1>4
<1> HIDE DEF new, t
<1>6. /\ y \in RunType
      /\ y.drafts = x.drafts /\ y.read = x.read /\ y.todo = new
  BY <1>3, <1>4 DEF RunType
<1> HIDE DEF y
<1>7. \A k \in 1..Len(t) : new[k].do = t[k].do /\ new[k].ref = t[k].ref
  BY <1>2, <1>4
<1>8. QED
  BY <1>2, <1>4, <1>5, <1>6, <1>7 DEF y, t, GetsItsId

LEMMA SendCreateKeeps ==
  ASSUME Plans!PlanAssumption, PlanInvariant, Plans!SendCreate
  PROVE  PlanInvariant'
<1> DEFINE s == Plans!Step
           i == Plans!NewId
           v == [life |-> "there", of |-> s.ref, under |-> Plans!ParentId(s.ref), links |-> {}]
<1>1. /\ pc = "send" /\ s.do = "create" /\ pc' = "record" /\ UNCHANGED <<yaml, held, pending>>
      /\ items' = [items EXCEPT ![i] = v]
      /\ run' = [run EXCEPT !.todo[1] = [@ EXCEPT !.into = i]]
  BY DEF Plans!SendCreate
<1>2. run.todo # <<>> /\ Unheld(s.ref) = {}
      /\ \E p \in pending : p.ref = s.ref /\ p.into = s.into
  BY <1>1 DEF PlanInvariant, StepFits
<1>3. StepIsPlanned /\ HeldAreItems
  BY <1>1, <1>2, TheStep, HeldItems DEF PlanInvariant
<1>4. /\ s.ref \in Plans!Refs /\ s = run.todo[1] /\ 1 \in 1..Len(run.todo)
      /\ s.into # None => s.ref[2] = Doc
  <2>1. \A k \in 1..Len(run.todo) : run.todo[k].into # None => run.todo[k].ref[2] = Doc
    BY <1>1 DEF PlanInvariant, StepFits
  <2>2. QED
    BY <1>3, <2>1 DEF StepIsPlanned
<1>5. /\ i \in Ids
      /\ s.into = None => items[i].life = "none"
      /\ s.into # None => i = s.into /\ items[i].life = "there"
      /\ Plans!ParentId(s.ref) \in Ids \cup {None}
  BY IdOfACreate
<1>6. v \in Item /\ v.life = "there" /\ v.of = s.ref
  BY <1>4, <1>5 DEF Item
<1>7. run \in RunType
  BY DEF PlanInvariant, PlanTypes, RunType
<1> HIDE DEF i
<1>24. GetsItsId(run, run', i)
  BY <1>1, <1>2, <1>5, <1>7, StepGetsItsId
<1>8. /\ run' \in RunType
      /\ run'.drafts = run.drafts /\ run'.read = run.read /\ run'.todo # <<>>
      /\ Len(run'.todo) = Len(run.todo)
      /\ Head(run'.todo) = run'.todo[1] /\ run'.todo[1].into = i
      /\ \A k \in 1..Len(run.todo) :
           /\ run'.todo[k].do = run.todo[k].do /\ run'.todo[k].ref = run.todo[k].ref
           /\ k # 1 => run'.todo[k] = run.todo[k]
  BY <1>24 DEF GetsItsId
<1>9. Plans!Step'.do = "create" /\ Plans!Step'.ref = s.ref /\ Plans!Step'.into = i
  BY <1>1, <1>4, <1>8 DEF Plans!Step
<1> HIDE DEF s, v
<1>10. items' \in [Ids -> Item] /\ \A j \in Ids : items'[j] = IF j = i THEN v ELSE items[j]
  <2>1. items \in [Ids -> Item]
    BY DEF PlanInvariant, PlanTypes
  <2>2. QED
    BY <1>1, <1>5, <1>6, <2>1
<1>11. \A r \in DOMAIN held : held[r].id \in Ids /\ items[held[r].id].life # "none"
  BY <1>3 DEF HeldAreItems, HeldItem, PlanInvariant, HeldIsMade
<1>12. Plans!MissingOf(held) \subseteq Plans!MissingOf(held)'
  BY <1>1, <1>5, <1>10, <1>11 DEF Plans!MissingOf, Plans!There
<1>13. IsPlan(run'.todo, Labels, run'.drafts, held', Plans!MissingOf(held)', run'.read)
  <2>1. IsPlan(run.todo, Labels, run.drafts, held, Plans!MissingOf(held), run.read)
    BY <1>1 DEF PlanInvariant
  <2>2. run'.todo \in Seq(PlanStep) /\ DOMAIN held' = DOMAIN held
    BY <1>1, <1>8 DEF RunType
  <2>3. QED
    BY <1>8, <1>12, <2>1, <2>2, PlanStays
<1>14. PlanTypes'
  <2>1. yaml' \in Yamls /\ DOMAIN held' \subseteq Plans!Refs /\ held' \in [DOMAIN held' -> HeldItem]
        /\ pending' \subseteq [ref : Plans!Refs, into : Ids \cup {None}]
    BY <1>1 DEF PlanInvariant, PlanTypes
  <2>2. QED
    BY <1>1, <1>8, <1>10, <2>1 DEF PlanTypes, RunType, Item, HeldItem, PlanStep, Plans!Refs
<1>15. \A x \in Ids : Plans!There(x)' /\ items'[x].of = s.ref /\ x # i =>
         \E q \in DOMAIN held : held[q].id = x
  BY <1>2, <1>10 DEF Unheld, Plans!There
<1>16. \A x \in Unheld(s.ref)' : x = i
  <2>1. s'.ref = s.ref
    BY <1>9 DEF s
  <2>2. QED
    BY <1>1, <1>15, <2>1 DEF Unheld
<1>17. NotedFits'
  <2>1. \A p, q \in pending : p = q
    BY DEF PlanInvariant, NotedFits
  <2>2. \A p \in pending : p.ref = s.ref /\ p.into = s.into
    BY <1>2, <2>1
  <2>3. s'.ref = s.ref
    BY <1>9 DEF s
  <2>4. Unheld(s.ref)' \subseteq {i}
    BY <1>16
  <2>5. \A p \in pending : Unheld(p.ref)' \subseteq {i}
    BY <1>1, <2>2, <2>3, <2>4 DEF Unheld
  <2>6. \A p \in pending : p.ref \in DOMAIN held => p.ref \in Plans!MissingOf(held)'
    BY <1>12 DEF PlanInvariant, NotedFits
  <2>7. \A p \in pending : p.into # None => p.ref[2] = Doc /\ p.into = i
    BY <1>4, <1>5, <2>2
  <2>8. \A p \in pending' : Unheld(p.ref)' \subseteq {i}
    BY <1>1, <2>5
  <2>9. QED
    BY <1>1, <2>1, <2>6, <2>7, <2>8 DEF NotedFits
<1>18. StepFits'
  <2>1. \A k \in 1..Len(run'.todo) : run'.todo[k].into # None /\ k # 1 => run'.todo[k].ref[2] = Doc
    BY <1>1, <1>8 DEF PlanInvariant, StepFits
  <2>2. Unheld(Plans!Step.ref)' \subseteq {i}
    BY <1>16 DEF s
  <2>3. items'[i].life # "none"
    BY <1>5, <1>6, <1>10
  <2>4. QED
    BY <1>1, <1>2, <1>5, <1>8, <1>9, <2>1, <2>2, <2>3 DEF StepFits
<1>19. RetiringIsLast'
  BY <1>1, <1>8 DEF PlanInvariant, RetiringIsLast
<1>20. HeldIsMade'
  BY <1>1, <1>6, <1>10, <1>11 DEF HeldIsMade
<1>21. Plans!SectionsHaveADocument'
  BY <1>1 DEF PlanInvariant, Plans!SectionsHaveADocument, Plans!HeldRefs
<1>22. Plans!NothingLost'
  BY <1>1, <1>2, <1>6, <1>10 DEF PlanInvariant, Plans!NothingLost, Plans!There, Plans!HeldRefs
<1>23. QED
  BY <1>13, <1>14, <1>17, <1>18, <1>19, <1>20, <1>21, <1>22 DEF PlanInvariant

\* What is left to do after a step that is done: the first one goes.
OneDone(x, y) ==
  /\ y \in RunType
  /\ y.drafts = x.drafts /\ y.read = x.read /\ y.todo = Tail(x.todo)
  /\ \A k \in 1..Len(y.todo) : \E j \in 2..Len(x.todo) : y.todo[k] = x.todo[j]

LEMMA StepIsDone ==
  ASSUME NEW x \in RunType, x.todo # <<>>, NEW z, z = [x EXCEPT !.todo = Tail(@)]
  PROVE  OneDone(x, z)
<1>1. /\ Tail(x.todo) \in Seq(PlanStep)
      /\ \A k \in 1..Len(Tail(x.todo)) : Tail(x.todo)[k] = x.todo[k + 1] /\ k + 1 \in 2..Len(x.todo)
  BY StepsLeft DEF RunType
<1> DEFINE t == Tail(x.todo)
           y == [x EXCEPT !.todo = t]
<1>2. \A k \in 1..Len(t) : \E j \in 2..Len(x.todo) : t[k] = x.todo[j]
  BY <1>1
<1> HIDE DEF t
<1>3. y \in RunType /\ y.drafts = x.drafts /\ y.read = x.read /\ y.todo = t
  BY <1>1 DEF t, RunType
<1>4. z = y
  BY DEF t
<1> HIDE DEF y
<1>5. QED
  BY <1>2, <1>3, <1>4 DEF t, OneDone

LEMMA WithoutARef ==
  ASSUME PlanTypes, NEW r, held' = Plans!Without(held, r)
  PROVE  /\ DOMAIN held' = DOMAIN held \ {r} /\ held' \in [DOMAIN held' -> HeldItem]
         /\ DOMAIN held' \subseteq Plans!Refs
         /\ \A q \in DOMAIN held' : held'[q] = held[q]
<1>1. held \in [DOMAIN held -> HeldItem] /\ DOMAIN held \subseteq Plans!Refs
  BY DEF PlanTypes
<1>2. held' = [q \in DOMAIN held \ {r} |-> held[q]]
  BY DEF Plans!Without
<1>3. QED
  BY <1>1, <1>2

\* A retired item is forgotten, and the run goes on.
LEMMA ForgottenKeeps ==
  ASSUME Plans!PlanAssumption, PlanInvariant, pc \in {"note", "record"}, run.todo # <<>>,
         Plans!Step.do = "retire", pending = {},
         ~Plans!There(held[Plans!Step.ref].id) \/ items[held[Plans!Step.ref].id].of = None,
         held' = Plans!Without(held, Plans!Step.ref), run' = [run EXCEPT !.todo = Tail(@)],
         pc' = "note", UNCHANGED <<yaml, items, pending>>
  PROVE  PlanInvariant'
<1> DEFINE s == Plans!Step
<1>1. StepIsPlanned
  BY TheStep
<1>2. /\ s = run.todo[1] /\ s.do = "retire" /\ s.ref \in DOMAIN held \ Plans!Drafted(run.drafts)
      /\ s.ref[2] = Doc => \A r \in DOMAIN held : r[1] = s.ref[1] => r[2] = Doc
      /\ s.ref \in Plans!Refs /\ WithDocuments(run.drafts)
  BY <1>1 DEF StepIsPlanned
<1>3. /\ DOMAIN held' = DOMAIN held \ {s.ref} /\ held' \in [DOMAIN held' -> HeldItem]
      /\ DOMAIN held' \subseteq Plans!Refs
      /\ \A q \in DOMAIN held' : held'[q] = held[q]
  BY WithoutARef DEF PlanInvariant
<1>4. run \in RunType
  BY DEF PlanInvariant, PlanTypes, RunType
<1>15. OneDone(run, run')
  BY <1>4, StepIsDone
<1>5. /\ run' \in RunType
      /\ run'.drafts = run.drafts /\ run'.read = run.read /\ run'.todo = Tail(run.todo)
      /\ \A k \in 1..Len(run'.todo) : \E j \in 2..Len(run.todo) : run'.todo[k] = run.todo[j]
  BY <1>15 DEF OneDone
<1>6. IsPlan(run'.todo, Labels, run'.drafts, held', Plans!MissingOf(held)', run'.read)
  <2>1. IsPlan(run.todo, Labels, run.drafts, held, Plans!MissingOf(held), run.read)
    BY DEF PlanInvariant
  <2>2. Plans!MissingOf(held) \ {s.ref} \subseteq Plans!MissingOf(held)'
    BY <1>3 DEF Plans!MissingOf, Plans!There
  <2>3. run.todo[1].do = "retire" /\ run.todo[1].ref = s.ref
    BY <1>2
  <2>4. IsPlan(Tail(run.todo), Labels, run.drafts, held', Plans!MissingOf(held)', run.read)
    BY <1>2, <1>3, <2>1, <2>2, <2>3, PlanGoesOn
  <2>5. QED
    BY <1>5, <2>4
<1> HIDE DEF s
<1>7. PlanTypes'
  <2>1. yaml' \in Yamls /\ items' \in [Ids -> Item] /\ pending' = {}
    BY DEF PlanInvariant, PlanTypes
  <2>2. QED
    BY <1>3, <1>5, <2>1 DEF PlanTypes, RunType, Item, HeldItem, PlanStep, Plans!Refs
<1>8. NotedFits'
  BY DEF NotedFits
<1>9. StepFits'
  <2>1. \A k \in 2..Len(run.todo) : run.todo[k].into # None => run.todo[k].ref[2] = Doc
    BY <1>4 DEF PlanInvariant, StepFits
  <2>2. \A k \in 1..Len(run'.todo) : run'.todo[k].into # None => run'.todo[k].ref[2] = Doc
    BY <1>5, <2>1
  <2>3. QED
    BY <2>2 DEF StepFits
<1>10. RetiringIsLast'
  <2>1. \A k \in 1..Len(run'.todo) : \E j \in 1..Len(run.todo) : run'.todo[k] = run.todo[j]
    BY <1>5
  <2>2. QED
    BY <1>3, <2>1 DEF PlanInvariant, RetiringIsLast
<1>11. HeldIsMade'
  BY <1>3 DEF PlanInvariant, HeldIsMade
<1>12. Plans!SectionsHaveADocument'
  <2>1. SUFFICES ASSUME NEW r \in DOMAIN held' PROVE <<r[1], Doc>> \in DOMAIN held'
    BY DEF Plans!SectionsHaveADocument, Plans!HeldRefs
  <2>2. <<r[1], Doc>> \in DOMAIN held /\ r \in DOMAIN held /\ r # s.ref /\ r \in Plans!Refs
    BY <1>3 DEF PlanInvariant, Plans!SectionsHaveADocument, Plans!HeldRefs
  <2>3. ASSUME s.ref = <<r[1], Doc>> PROVE FALSE
    <3>1. r[2] = Doc
      BY <1>2, <2>2, <2>3
    <3>2. r = <<r[1], r[2]>>
      BY <2>2 DEF Plans!Refs
    <3>3. QED
      BY <2>2, <2>3, <3>1, <3>2
  <2>4. QED
    BY <1>3, <2>2, <2>3
<1>13. Plans!NothingLost'
  <2>1. SUFFICES ASSUME NEW i \in Ids, Plans!There(i), items[i].of # None
                 PROVE  \E r \in DOMAIN held' : held'[r].id = i
    BY DEF Plans!NothingLost, Plans!There, Plans!HeldRefs
  <2>2. PICK r \in DOMAIN held : held[r].id = i
    BY <2>1 DEF PlanInvariant, Plans!NothingLost, Plans!HeldRefs
  <2>3. r # s.ref
    BY <2>1, <2>2 DEF s
  <2>4. QED
    BY <1>3, <2>2, <2>3
<1>14. QED
  BY <1>6, <1>7, <1>8, <1>9, <1>10, <1>11, <1>12, <1>13 DEF PlanInvariant

LEMMA NoteRetireKeeps ==
  ASSUME Plans!PlanAssumption, PlanInvariant, Plans!NoteRetire
  PROVE  PlanInvariant'
<1> DEFINE s == Plans!Step
<1>1. /\ pc = "note" /\ run.todo # <<>> /\ s.do = "retire" /\ UNCHANGED <<yaml, items, pending>>
  BY DEF Plans!NoteRetire
<1>2. StepIsPlanned /\ pending = {} /\ HeldAreItems
  BY <1>1, TheStep, HeldItems DEF PlanInvariant, StepFits
<1>3. /\ s = run.todo[1] /\ s.ref \in DOMAIN held \ Plans!Drafted(run.drafts)
      /\ s.ref \in Plans!MissingOf(held) \cup run.read
      /\ s.ref[2] = Doc =>
           /\ \A r \in DOMAIN held : r[1] = s.ref[1] => r[2] = Doc
           /\ \A k \in 1..Len(run.todo) : run.todo[k].do = "create" => run.todo[k].ref[1] # s.ref[1]
  BY <1>1, <1>2 DEF StepIsPlanned
<1>4. CASE s.ref \notin run.read
  <2>1. ~Plans!There(held[s.ref].id)
    BY <1>3, <1>4 DEF Plans!MissingOf
  <2>2. held' = Plans!Without(held, s.ref) /\ run' = [run EXCEPT !.todo = Tail(@)] /\ pc' = "note"
    BY <1>1, <1>4 DEF Plans!NoteRetire
  <2>3. QED
    BY <1>1, <1>2, <2>1, <2>2, ForgottenKeeps
<1>5. CASE s.ref \in run.read
  <2>1. held' = [held EXCEPT ![s.ref].retiring = TRUE] /\ pc' = "send" /\ run' = run
    BY <1>1, <1>5 DEF Plans!NoteRetire
  <2>2. Plans!Step' = s
    BY <2>1 DEF Plans!Step
  <2> DEFINE v == [held[s.ref] EXCEPT !.retiring = TRUE]
  <2> HIDE DEF s
  <2>3. held[s.ref] \in HeldItem
    BY <1>2, <1>3 DEF HeldAreItems
  <2>4. v \in HeldItem /\ v.id = held[s.ref].id
    BY <2>3 DEF HeldItem
  <2>5. held' = [held EXCEPT ![s.ref] = v]
    BY <2>1
  <2> HIDE DEF v
  <2>6. /\ DOMAIN held' = DOMAIN held /\ held' \in [DOMAIN held' -> HeldItem]
        /\ held'[s.ref] = v /\ \A q \in DOMAIN held : q # s.ref => held'[q] = held[q]
        /\ \A q \in DOMAIN held : held'[q].id = held[q].id
    BY <1>3, <2>4, <2>5, WrittenOver DEF PlanInvariant
  <2>7. PlanTypes'
    <3>1. yaml' \in Yamls /\ items' \in [Ids -> Item] /\ DOMAIN held' \subseteq Plans!Refs /\ pending' = {}
          /\ run' \in [drafts : Yamls \cup {<<>>}, read : SUBSET Plans!Refs, todo : Seq(PlanStep)]
      BY <1>1, <1>2, <2>1, <2>6 DEF PlanInvariant, PlanTypes
    <3>2. QED
      BY <2>1, <2>6, <3>1 DEF PlanTypes, Item, HeldItem, PlanStep, Plans!Refs
  <2>8. NotedFits'
    BY <1>1, <1>2 DEF NotedFits
  <2>9. StepFits'
    <3>1. \A k \in 1..Len(run'.todo) : run'.todo[k].into # None => run'.todo[k].ref[2] = Doc
      BY <1>1, <2>1 DEF PlanInvariant, StepFits
    <3>2. Plans!Step'.do = "retire" /\ pending' = {} /\ run'.todo # <<>>
      BY <1>1, <1>2, <2>1, <2>2
    <3>3. QED
      BY <2>1, <3>1, <3>2 DEF StepFits
  <2>10. RetiringIsLast'
    <3>1. SUFFICES ASSUME NEW r \in DOMAIN held, held'[r].retiring, r[2] = Doc
                   PROVE  /\ \A q \in DOMAIN held : q[1] = r[1] => q[2] = Doc
                          /\ \A k \in 1..Len(run.todo) :
                               run.todo[k].do = "create" => run.todo[k].ref[1] # r[1]
      BY <2>1, <2>6 DEF RetiringIsLast
    <3>2. CASE r = s.ref
      BY <1>3, <3>1, <3>2
    <3>3. CASE r # s.ref
      BY <2>6, <3>1, <3>3 DEF PlanInvariant, RetiringIsLast
    <3>4. QED
      BY <3>2, <3>3
  <2>11. HeldIsMade' /\ Plans!SectionsHaveADocument'
    BY <1>1, <2>6 DEF PlanInvariant, HeldIsMade, Plans!SectionsHaveADocument, Plans!HeldRefs
  <2>12. Plans!NothingLost'
    BY <1>1, <2>6 DEF PlanInvariant, Plans!NothingLost, Plans!There, Plans!HeldRefs
  <2>13. IsPlan(run'.todo, Labels, run'.drafts, held', Plans!MissingOf(held)', run'.read)
    <3>1. IsPlan(run.todo, Labels, run.drafts, held, Plans!MissingOf(held), run.read)
      BY <1>1 DEF PlanInvariant
    <3>2. Plans!MissingOf(held)' = Plans!MissingOf(held)
      BY <1>1, <2>6 DEF Plans!MissingOf, Plans!There
    <3>3. run.todo \in Seq(PlanStep)
      BY DEF PlanInvariant, PlanTypes
    <3>4. IsPlan(run.todo, Labels, run.drafts, held', Plans!MissingOf(held)', run.read)
      BY <2>6, <3>1, <3>2, <3>3, PlanStays
    <3>5. QED
      BY <2>1, <3>4
  <2>14. QED
    BY <2>7, <2>8, <2>9, <2>10, <2>11, <2>12, <2>13 DEF PlanInvariant
<1>6. QED
  BY <1>4, <1>5

LEMMA WithARef ==
  ASSUME PlanTypes, NEW r \in Plans!Refs, NEW v \in HeldItem, held' = Plans!With(held, r, v)
  PROVE  /\ DOMAIN held' = DOMAIN held \cup {r} /\ held' \in [DOMAIN held' -> HeldItem]
         /\ DOMAIN held' \subseteq Plans!Refs
         /\ held'[r] = v /\ \A q \in DOMAIN held : q # r => held'[q] = held[q]
<1>1. held \in [DOMAIN held -> HeldItem] /\ DOMAIN held \subseteq Plans!Refs
  BY DEF PlanTypes
<1>2. held' = [q \in DOMAIN held \cup {r} |-> IF q = r THEN v ELSE held[q]]
  BY DEF Plans!With
<1>3. QED
  BY <1>1, <1>2

LEMMA RecordKeeps ==
  ASSUME Plans!PlanAssumption, PlanInvariant, Plans!Record
  PROVE  PlanInvariant'
<1> DEFINE s == Plans!Step
           v == [id |-> s.into, retiring |-> FALSE, links |-> {}]
<1>1. /\ pc = "record" /\ pc' = "note" /\ UNCHANGED <<yaml, items>>
      /\ run' = [run EXCEPT !.todo = Tail(@)]
  BY DEF Plans!Record
<1>2. run.todo # <<>>
  BY <1>1 DEF PlanInvariant, StepFits
<1>3. StepIsPlanned
  BY <1>1, <1>2, TheStep
<1>4. s = run.todo[1] /\ s.ref \in Plans!Refs /\ s.do \in {"create", "retire"} /\ WithDocuments(run.drafts)
  BY <1>3 DEF StepIsPlanned
<1>5. CASE s.do = "retire"
  <2>1. held' = Plans!Without(held, s.ref) /\ pending' = pending
    BY <1>5 DEF Plans!Record
  <2>2. pending = {} /\ (~Plans!There(held[s.ref].id) \/ items[held[s.ref].id].of = None)
    BY <1>1, <1>5 DEF PlanInvariant, StepFits
  <2>3. QED
    BY <1>1, <1>2, <1>5, <2>1, <2>2, ForgottenKeeps
<1>6. CASE s.do = "create"
  <2>1. held' = Plans!With(held, s.ref, v) /\ pending' = {p \in pending : p.ref # s.ref}
    BY <1>6 DEF Plans!Record
  <2>2. /\ s.into \in Ids /\ items[s.into].life # "none" /\ Unheld(s.ref) \subseteq {s.into}
        /\ \E p \in pending : p.ref = s.ref
    BY <1>1, <1>6 DEF PlanInvariant, StepFits
  <2>3. \A p \in pending : p.ref = s.ref
    BY <2>2 DEF PlanInvariant, NotedFits
  <2>4. pending' = {}
    BY <2>1, <2>3
  <2>5. /\ s.ref \in Plans!Drafted(run.drafts)
        /\ s.ref \in DOMAIN held => ~Plans!There(held[s.ref].id)
        /\ s.ref[2] = Doc \/ DocOf(s.ref) \in DOMAIN held
        /\ 1 \in 1..Len(run.todo)
    BY <1>3, <1>6 DEF StepIsPlanned, Plans!MissingOf
  <2>6. v \in HeldItem /\ v.id = s.into /\ v.retiring = FALSE
    BY <2>2 DEF HeldItem
  <2>7. run \in RunType
    BY DEF PlanInvariant, PlanTypes, RunType
  <2>8. OneDone(run, run')
    BY <1>1, <1>2, <2>7, StepIsDone
  <2>9. /\ run' \in RunType
        /\ run'.drafts = run.drafts /\ run'.read = run.read /\ run'.todo = Tail(run.todo)
        /\ \A k \in 1..Len(run'.todo) : \E j \in 2..Len(run.todo) : run'.todo[k] = run.todo[j]
    BY <2>8 DEF OneDone
  <2> HIDE DEF v
  <2>10. /\ DOMAIN held' = DOMAIN held \cup {s.ref} /\ held' \in [DOMAIN held' -> HeldItem]
         /\ DOMAIN held' \subseteq Plans!Refs
         /\ held'[s.ref] = v /\ \A q \in DOMAIN held : q # s.ref => held'[q] = held[q]
    BY <1>4, <2>1, <2>6, WithARef DEF PlanInvariant
  <2>11. IsPlan(run'.todo, Labels, run'.drafts, held', Plans!MissingOf(held)', run'.read)
    <3>1. IsPlan(run.todo, Labels, run.drafts, held, Plans!MissingOf(held), run.read)
      BY <1>1 DEF PlanInvariant
    <3>2. Plans!MissingOf(held) \ {s.ref} \subseteq Plans!MissingOf(held)'
      BY <1>1, <2>10 DEF Plans!MissingOf, Plans!There
    <3>3. run.todo[1].do = "create" /\ run.todo[1].ref = s.ref
      BY <1>4, <1>6
    <3>4. IsPlan(Tail(run.todo), Labels, run.drafts, held', Plans!MissingOf(held)', run.read)
      BY <1>2, <1>4, <2>10, <3>1, <3>2, <3>3, PlanGoesOn
    <3>5. QED
      BY <2>9, <3>4
  <2> HIDE DEF s
  <2>12. PlanTypes'
    <3>1. yaml' \in Yamls /\ items' \in [Ids -> Item]
      BY <1>1 DEF PlanInvariant, PlanTypes
    <3>2. QED
      BY <1>1, <2>4, <2>9, <2>10, <3>1 DEF PlanTypes, RunType, Item, HeldItem, PlanStep, Plans!Refs
  <2>13. NotedFits'
    BY <2>4 DEF NotedFits
  <2>14. StepFits'
    <3>1. \A k \in 2..Len(run.todo) : run.todo[k].into # None => run.todo[k].ref[2] = Doc
      BY <2>7 DEF PlanInvariant, StepFits, RunType
    <3>2. \A k \in 1..Len(run'.todo) : run'.todo[k].into # None => run'.todo[k].ref[2] = Doc
      BY <2>9, <3>1
    <3>3. QED
      BY <1>1, <2>4, <3>2 DEF StepFits
  <2>15. RetiringIsLast'
    <3>1. SUFFICES ASSUME NEW r \in DOMAIN held', held'[r].retiring, r[2] = Doc
                   PROVE  /\ \A q \in DOMAIN held' : q[1] = r[1] => q[2] = Doc
                          /\ \A k \in 1..Len(run'.todo) :
                               run'.todo[k].do = "create" => run'.todo[k].ref[1] # r[1]
      BY DEF RetiringIsLast
    <3>2. r \in DOMAIN held /\ held[r].retiring
      BY <2>6, <2>10, <3>1
    <3>3. /\ \A q \in DOMAIN held : q[1] = r[1] => q[2] = Doc
          /\ \A k \in 1..Len(run.todo) : run.todo[k].do = "create" => run.todo[k].ref[1] # r[1]
      BY <3>1, <3>2 DEF PlanInvariant, RetiringIsLast
    <3>4. s.ref[1] # r[1]
      BY <1>4, <1>6, <2>5, <3>3
    <3>5. \A k \in 1..Len(run'.todo) : \E j \in 1..Len(run.todo) : run'.todo[k] = run.todo[j]
      BY <2>9
    <3>6. QED
      BY <2>10, <3>3, <3>4, <3>5
  <2>16. HeldIsMade'
    BY <1>1, <2>2, <2>6, <2>10 DEF PlanInvariant, HeldIsMade
  <2>17. Plans!SectionsHaveADocument'
    <3>1. SUFFICES ASSUME NEW r \in DOMAIN held' PROVE <<r[1], Doc>> \in DOMAIN held'
      BY DEF Plans!SectionsHaveADocument, Plans!HeldRefs
    <3>2. CASE r \in DOMAIN held
      BY <2>10, <3>2 DEF PlanInvariant, Plans!SectionsHaveADocument, Plans!HeldRefs
    <3>3. CASE r = s.ref
      <4>1. r = <<r[1], r[2]>>
        BY <1>4, <3>3 DEF Plans!Refs
      <4>2. QED
        BY <2>5, <2>10, <3>3, <4>1 DEF DocOf
    <3>4. QED
      BY <2>10, <3>2, <3>3
  <2>18. Plans!NothingLost'
    <3>1. SUFFICES ASSUME NEW i \in Ids, Plans!There(i), items[i].of # None
                   PROVE  \E r \in DOMAIN held' : held'[r].id = i
      BY <1>1 DEF Plans!NothingLost, Plans!There, Plans!HeldRefs
    <3>2. CASE \E r \in DOMAIN held : held[r].id = i
      <4>1. PICK r \in DOMAIN held : held[r].id = i
        BY <3>2
      <4>2. r # s.ref
        BY <2>5, <3>1, <4>1
      <4>3. QED
        BY <2>10, <4>1, <4>2
    <3>3. CASE ~\E r \in DOMAIN held : held[r].id = i
      <4>1. \E p \in pending : p.ref = items[i].of
        BY <3>1, <3>3 DEF PlanInvariant, Plans!NothingLost, Plans!HeldRefs
      <4>2. i \in Unheld(s.ref)
        BY <2>3, <3>1, <3>3, <4>1 DEF Unheld
      <4>3. i = s.into
        BY <2>2, <4>2
      <4>4. QED
        BY <2>6, <2>10, <4>3
    <3>4. QED
      BY <3>2, <3>3
  <2>19. QED
    BY <2>11, <2>12, <2>13, <2>14, <2>15, <2>16, <2>17, <2>18 DEF PlanInvariant
<1>7. QED
  BY <1>4, <1>5, <1>6

\* Links are noted and written, and nothing else is.
LEMMA LinksKeep ==
  ASSUME Plans!PlanAssumption, PlanInvariant, pc = "note", pc' \in {"note", "idle"}, run.todo = <<>>,
         UNCHANGED <<yaml, pending, run>>,
         NEW r \in DOMAIN held, NEW links \in SUBSET Ids, NEW asked \in SUBSET Ids,
         held' = [held EXCEPT ![r].links = links],
         items' = items \/ items' = [items EXCEPT ![held[r].id].links = asked]
  PROVE  PlanInvariant'
<1> DEFINE v == [held[r] EXCEPT !.links = links]
<1>1. held[r] \in HeldItem /\ held[r].id \in Ids /\ HeldAreItems
  BY HeldItems DEF PlanInvariant, HeldAreItems, HeldItem
<1>2. v \in HeldItem /\ v.id = held[r].id /\ v.retiring = held[r].retiring
  BY <1>1 DEF HeldItem
<1>3. held' = [held EXCEPT ![r] = v]
  OBVIOUS
<1> HIDE DEF v
<1>4. /\ DOMAIN held' = DOMAIN held /\ held' \in [DOMAIN held' -> HeldItem]
      /\ held'[r] = v /\ \A q \in DOMAIN held : q # r => held'[q] = held[q]
      /\ \A q \in DOMAIN held : held'[q].id = held[q].id
  BY <1>2, <1>3, WrittenOver DEF PlanInvariant
<1>5. items' \in [Ids -> Item]
      /\ \A i \in Ids : items'[i].life = items[i].life /\ items'[i].of = items[i].of
  <2>1. items \in [Ids -> Item]
    BY DEF PlanInvariant, PlanTypes
  <2> DEFINE w == [items[held[r].id] EXCEPT !.links = asked]
  <2>2. items[held[r].id] \in Item
    BY <1>1, <2>1
  <2>3. w \in Item /\ w.life = items[held[r].id].life /\ w.of = items[held[r].id].of
    BY <2>2 DEF Item
  <2>4. items' = items \/ items' = [items EXCEPT ![held[r].id] = w]
    BY <1>1, <2>1
  <2> HIDE DEF w
  <2>5. QED
    BY <1>1, <2>1, <2>3, <2>4
<1>6. run'.todo = <<>> /\ pending = {} /\ pending' = {}
  BY DEF PlanInvariant, StepFits
<1>7. Plans!MissingOf(held)' = Plans!MissingOf(held)
  BY <1>1, <1>4, <1>5 DEF Plans!MissingOf, Plans!There, HeldAreItems, HeldItem
<1>8. PlanTypes'
  <2>1. /\ yaml' \in Yamls /\ DOMAIN held' \subseteq Plans!Refs
        /\ run' \in [drafts : Yamls \cup {<<>>}, read : SUBSET Plans!Refs, todo : Seq(PlanStep)]
    BY <1>4 DEF PlanInvariant, PlanTypes
  <2>2. pc' \in {"idle", "note", "send", "record"} /\ pending' \subseteq [ref : Plans!Refs, into : Ids \cup {None}]
    BY <1>6
  <2>3. Item' = Item /\ HeldItem' = HeldItem /\ PlanStep' = PlanStep /\ Plans!Refs' = Plans!Refs
    BY DEF Item, HeldItem, PlanStep, Plans!Refs
  <2>4. QED
    BY <1>4, <1>5, <2>1, <2>2, <2>3 DEF PlanTypes
<1>9. NotedFits'
  BY <1>6 DEF NotedFits
<1>10. StepFits'
  <2>1. \A k \in 1..Len(run'.todo) : FALSE
    BY <1>6
  <2>2. QED
    BY <1>6, <2>1 DEF StepFits
<1>11. RetiringIsLast'
  <2>1. \A q \in DOMAIN held : held'[q].retiring = held[q].retiring
    BY <1>2, <1>4
  <2>2. QED
    BY <1>4, <2>1 DEF PlanInvariant, RetiringIsLast
<1>12. HeldIsMade' /\ Plans!SectionsHaveADocument'
  BY <1>1, <1>4, <1>5 DEF PlanInvariant, HeldIsMade, Plans!SectionsHaveADocument, Plans!HeldRefs,
                         HeldAreItems, HeldItem
<1>13. Plans!NothingLost'
  BY <1>4, <1>5, <1>6 DEF PlanInvariant, Plans!NothingLost, Plans!There, Plans!HeldRefs
<1>14. IsPlan(run'.todo, Labels, run'.drafts, held', Plans!MissingOf(held)', run'.read)
  <2>1. IsPlan(run.todo, Labels, run.drafts, held, Plans!MissingOf(held), run.read)
    BY DEF PlanInvariant
  <2>2. run.todo \in Seq(PlanStep)
    BY DEF PlanInvariant, PlanTypes
  <2>3. Plans!MissingOf(held) \subseteq Plans!MissingOf(held)' /\ DOMAIN held' = DOMAIN held
    BY <1>4, <1>7
  <2>4. IsPlan(run.todo, Labels, run.drafts, held', Plans!MissingOf(held)', run.read)
    BY ONLY <2>1, <2>2, <2>3, PlanStays
  <2>5. QED
    BY <2>4
<1>15. QED
  BY <1>8, <1>9, <1>10, <1>11, <1>12, <1>13, <1>14 DEF PlanInvariant

LEMMA WantedAreIds ==
  ASSUME PlanInvariant, NEW r PROVE Plans!Wanted(r) \in SUBSET Ids
BY HeldItems DEF PlanInvariant, Plans!Wanted, Plans!HeldRefs, HeldAreItems, HeldItem

LEMMA LinkKeeps ==
  ASSUME Plans!PlanAssumption, PlanInvariant, Plans!Link
  PROVE  PlanInvariant'
<1>1. PICK r \in Plans!ToLink :
        /\ held' = [held EXCEPT ![r].links = Plans!Wanted(r)]
        /\ items' = [items EXCEPT ![held[r].id].links = Plans!Wanted(r)]
  BY DEF Plans!Link
<1>2. r \in DOMAIN held /\ Plans!Wanted(r) \in SUBSET Ids
  BY WantedAreIds DEF Plans!ToLink, Plans!HeldRefs
<1>3. pc = "note" /\ pc' = "note" /\ run.todo = <<>> /\ UNCHANGED <<yaml, pending, run>>
  BY DEF Plans!Link
<1>4. QED
  BY <1>1, <1>2, <1>3, LinksKeep

LEMMA LinkRefusedKeeps ==
  ASSUME Plans!PlanAssumption, PlanInvariant, Plans!LinkRefused
  PROVE  PlanInvariant'
<1>1. PICK r \in Plans!ToLink : held' = [held EXCEPT ![r].links = @ \cup Plans!Wanted(r)]
  BY DEF Plans!LinkRefused
<1>2. r \in DOMAIN held /\ Plans!Wanted(r) \in SUBSET Ids /\ HeldAreItems
  BY WantedAreIds, HeldItems DEF Plans!ToLink, Plans!HeldRefs, PlanInvariant
<1>3. held[r].links \cup Plans!Wanted(r) \in SUBSET Ids
  BY <1>2 DEF HeldAreItems, HeldItem
<1>4. held' = [held EXCEPT ![r].links = held[r].links \cup Plans!Wanted(r)]
  BY <1>1
<1>5. pc = "note" /\ pc' = "idle" /\ run.todo = <<>> /\ UNCHANGED <<yaml, items, pending, run>>
  BY DEF Plans!LinkRefused
<1>6. QED
  BY <1>2, <1>3, <1>4, <1>5, LinksKeep

\* What the state file holds when the interrupted creates are settled.
SettledFits(S) ==
  /\ DOMAIN S \subseteq Plans!Refs /\ DOMAIN held \subseteq DOMAIN S
  /\ \A r \in DOMAIN S : S[r] \in HeldItem /\ items[S[r].id].life # "none"
  /\ \A r \in DOMAIN S : \/ r \in DOMAIN held /\ S[r] = held[r]
                         \/ /\ r[2] = Doc /\ ~S[r].retiring
                            /\ \E p \in pending : /\ p.ref = r /\ p.into = S[r].id /\ p.into # None
                                                 /\ Plans!There(p.into)
  /\ \A i \in Ids : Plans!There(i) /\ items[i].of # None => \E r \in DOMAIN S : S[r].id = i

LEMMA Settled ==
  ASSUME Plans!PlanAssumption, PlanInvariant, Plans!SettledPending = {}
  PROVE  SettledFits(Plans!SettledHeld)
<1> DEFINE taken == {p \in pending : p.into # None /\ items[p.into].of = p.ref /\ Plans!There(p.into)}
           S == Plans!SettledHeld
<1>1. HeldAreItems
  BY HeldItems DEF PlanInvariant
<1>2. S = [r \in DOMAIN held \cup {p.ref : p \in taken} |->
             IF \E p \in taken : p.ref = r
             THEN [id |-> (CHOOSE p \in taken : p.ref = r).into, retiring |-> FALSE, links |-> {}]
             ELSE held[r]]
  BY DEF Plans!SettledHeld, Plans!HeldRefs
<1>3. \A p \in pending : p.into # None
  BY DEF Plans!SettledPending
<1>4. \A p \in taken : /\ p.ref \in Plans!Refs /\ p.into \in Ids /\ p.ref[2] = Doc
                       /\ items[p.into].life = "there" /\ p \in pending
  BY DEF PlanInvariant, PlanTypes, NotedFits, Plans!There
<1>5. \A p, q \in pending : p = q
  BY DEF PlanInvariant, NotedFits
<1>6. ASSUME NEW p \in taken
      PROVE  p.ref \in DOMAIN S /\ S[p.ref] = [id |-> p.into, retiring |-> FALSE, links |-> {}]
  <2>1. (CHOOSE q \in taken : q.ref = p.ref) = p
    BY <1>5
  <2>2. p.ref \in {q.ref : q \in taken} /\ \E q \in taken : q.ref = p.ref
    OBVIOUS
  <2> HIDE DEF taken, S
  <2>3. QED
    BY <1>2, <2>1, <2>2
<1>7. ASSUME NEW r \in DOMAIN held, \A p \in taken : p.ref # r
      PROVE  r \in DOMAIN S /\ S[r] = held[r]
  <2> HIDE DEF taken, S
  <2>1. QED
    BY <1>2, <1>7
<1>8. DOMAIN S = DOMAIN held \cup {p.ref : p \in taken}
  BY <1>2
<1> HIDE DEF S
<1>9. \A r \in DOMAIN S : (r \in DOMAIN held /\ S[r] = held[r]) \/ \E p \in taken : p.ref = r
  <2> HIDE DEF taken
  <2>1. QED
    BY <1>7, <1>8
<1>10. DOMAIN S \subseteq Plans!Refs /\ DOMAIN held \subseteq DOMAIN S
  BY <1>1, <1>4, <1>8 DEF HeldAreItems
<1>11. ASSUME NEW r \in DOMAIN S
       PROVE  /\ S[r] \in HeldItem /\ items[S[r].id].life # "none"
              /\ \/ r \in DOMAIN held /\ S[r] = held[r]
                 \/ /\ r[2] = Doc /\ ~S[r].retiring
                    /\ \E p \in pending : /\ p.ref = r /\ p.into = S[r].id /\ p.into # None
                                         /\ Plans!There(p.into)
  <2>1. CASE r \in DOMAIN held /\ S[r] = held[r]
    BY <1>1, <2>1 DEF HeldAreItems, PlanInvariant, HeldIsMade
  <2>2. CASE \E p \in taken : p.ref = r
    <3>1. PICK p \in taken : p.ref = r
      BY <2>2
    <3>2. S[r] = [id |-> p.into, retiring |-> FALSE, links |-> {}]
      BY <1>6, <3>1
    <3>3. p.into \in Ids /\ r[2] = Doc /\ items[p.into].life = "there" /\ p \in pending /\ p.into # None
      BY <1>3, <1>4, <3>1
    <3> HIDE DEF taken
    <3>4. S[r] \in HeldItem /\ S[r].id = p.into /\ S[r].retiring = FALSE
      BY <3>2, <3>3 DEF HeldItem
    <3>5. QED
      BY <3>1, <3>3, <3>4 DEF Plans!There
  <2>3. QED
    BY <1>9, <2>1, <2>2
<1>12. ASSUME NEW i \in Ids, Plans!There(i), items[i].of # None
       PROVE  \E r \in DOMAIN S : S[r].id = i
  <2>1. CASE \E r \in DOMAIN held : held[r].id = i
    <3>1. PICK r \in DOMAIN held : held[r].id = i
      BY <2>1
    <3>2. \A p \in taken : p.ref # r
      <4>1. \A p \in pending : p.ref \in DOMAIN held => ~Plans!There(held[p.ref].id)
        BY DEF PlanInvariant, NotedFits, Plans!MissingOf
      <4>2. QED
        BY <1>12, <3>1, <4>1
    <3>3. QED
      BY <1>7, <3>1, <3>2
  <2>2. CASE ~\E r \in DOMAIN held : held[r].id = i
    <3>1. PICK p \in pending : p.ref = items[i].of
      BY <1>12, <2>2 DEF PlanInvariant, Plans!NothingLost, Plans!HeldRefs
    <3>2. i \in Unheld(p.ref)
      BY <1>12, <2>2, <3>1 DEF Unheld
    <3>3. p.into = i
      BY <1>3, <3>2 DEF PlanInvariant, NotedFits
    <3>4. p \in taken
      BY <1>3, <1>12, <3>1, <3>3
    <3>5. S[p.ref].id = i /\ p.ref \in DOMAIN S
      <4> HIDE DEF taken
      <4>1. p.ref \in DOMAIN S /\ S[p.ref] = [id |-> p.into, retiring |-> FALSE, links |-> {}]
        BY <1>6, <3>4
      <4>2. QED
        BY <3>3, <4>1
    <3>6. QED
      BY <3>5
  <2>3. QED
    BY <2>1, <2>2
<1> HIDE DEF taken
<1>13. QED
  BY <1>10, <1>11, <1>12 DEF SettledFits, S

\* And when what is published was read.
ReadFits(h, S, drafts) ==
  /\ DOMAIN h \subseteq DOMAIN S
  /\ \A r \in DOMAIN h : /\ h[r].id = S[r].id /\ h[r].links = S[r].links /\ h[r] \in HeldItem
                         /\ h[r].retiring => S[r].retiring /\ r \notin Plans!Drafted(drafts)
  /\ \A r \in DOMAIN S : Plans!There(S[r].id) \/ ~S[r].retiring => r \in DOMAIN h

LEMMA Reads ==
  ASSUME NEW S, NEW drafts, \A r \in DOMAIN S : S[r] \in HeldItem
  PROVE  ReadFits(Plans!ReadHeld(S, drafts), S, drafts)
<1> DEFINE again == [r \in DOMAIN S |-> [S[r] EXCEPT !.retiring = @ /\ r \notin Plans!Drafted(drafts)]]
           D == {q \in DOMAIN S : ~again[q].retiring \/ Plans!There(again[q].id)}
           h == Plans!ReadHeld(S, drafts)
<1>1. h = [r \in D |-> again[r]]
  BY DEF Plans!ReadHeld
<1>2. \A r \in DOMAIN S :
        /\ again[r] \in HeldItem /\ again[r].id = S[r].id /\ again[r].links = S[r].links
        /\ again[r].retiring = (S[r].retiring /\ r \notin Plans!Drafted(drafts))
  <2>1. TAKE r \in DOMAIN S
  <2>2. S[r] \in HeldItem
    OBVIOUS
  <2> DEFINE b == S[r].retiring /\ r \notin Plans!Drafted(drafts)
  <2>3. b \in BOOLEAN
    BY <2>2 DEF HeldItem
  <2>4. again[r] = [S[r] EXCEPT !.retiring = b]
    OBVIOUS
  <2> HIDE DEF b, again
  <2>5. /\ again[r] \in HeldItem /\ again[r].id = S[r].id /\ again[r].links = S[r].links
        /\ again[r].retiring = b
    BY <2>2, <2>3, <2>4 DEF HeldItem
  <2>6. QED
    BY <2>5 DEF b
<1> HIDE DEF again
<1>3. DOMAIN h = D /\ \A r \in D : h[r] = again[r]
  BY <1>1
<1> HIDE DEF h
<1>4. QED
  BY <1>2, <1>3 DEF ReadFits, h

LEMMA StartKeeps ==
  ASSUME Plans!PlanAssumption, PlanInvariant, NEW o \in BOOLEAN, Plans!Start(o)
  PROVE  PlanInvariant'
<1> DEFINE S == Plans!SettledHeld
           h == Plans!ReadHeld(S, yaml)
           missing == Plans!MissingOf(h)
           plan == Plans!Plan(yaml, h, missing)
           inHand == DOMAIN h \ missing
<1>1. /\ pc = "idle" /\ pc' = "note" /\ UNCHANGED <<yaml, items>>
      /\ held' = h /\ pending' = {} /\ Plans!SettledPending = {}
      /\ run' = [drafts |-> yaml, read |-> inHand, todo |-> plan]
  BY DEF Plans!Start
<1>2. SettledFits(S)
  BY <1>1, Settled
<1>3. ReadFits(h, S, yaml)
  BY <1>2, Reads DEF SettledFits
<1> HIDE DEF S, h
<1>4. DOMAIN h \subseteq Plans!Refs
  BY <1>2, <1>3 DEF SettledFits, ReadFits
<1>5. yaml \in Yamls /\ items \in [Ids -> Item]
  BY DEF PlanInvariant, PlanTypes
<1>6. DOMAIN h \subseteq missing \cup inHand /\ missing \subseteq DOMAIN h
  BY DEF Plans!MissingOf
<1>7. IsPlan(plan, Labels, yaml, h, missing, inHand) /\ IntoDocuments(plan)
  <2> HIDE DEF missing, inHand
  <2>1. QED
    BY <1>4, <1>5, <1>6, PlanOfARun
<1>8. WithDocuments(yaml)
  BY <1>5, DocumentsAreDrafted
<1> HIDE DEF plan, inHand
<1>9. run'.drafts = yaml /\ run'.read = inHand /\ run'.todo = plan
  BY <1>1
<1>10. plan \in Seq(PlanStep)
  BY <1>7 DEF IsPlan
<1>11. PlanTypes'
  <2>1. h \in [DOMAIN h -> HeldItem]
    <3>1. h = [r \in DOMAIN h |-> h[r]]
      BY DEF h, Plans!ReadHeld
    <3>2. QED
      BY <1>3, <3>1 DEF ReadFits
  <2>2. inHand \subseteq Plans!Refs
    BY <1>4, <1>6 DEF inHand
  <2>3. run' \in [drafts : Yamls \cup {<<>>}, read : SUBSET Plans!Refs, todo : Seq(PlanStep)]
    BY <1>1, <1>5, <1>10, <2>2
  <2>4. Item' = Item /\ HeldItem' = HeldItem /\ PlanStep' = PlanStep /\ Plans!Refs' = Plans!Refs
    BY DEF Item, HeldItem, PlanStep, Plans!Refs
  <2>5. DOMAIN held' \subseteq Plans!Refs /\ held' \in [DOMAIN held' -> HeldItem]
    BY <1>1, <1>4, <2>1
  <2>6. QED
    BY <1>1, <1>5, <2>3, <2>4, <2>5 DEF PlanTypes
<1>12. NotedFits'
  BY <1>1 DEF NotedFits
<1>13. StepFits'
  BY <1>1, <1>7, <1>9 DEF StepFits, IntoDocuments
<1>14. \A r \in DOMAIN h : h[r].retiring =>
          r \in DOMAIN held /\ held[r].retiring /\ r \notin Plans!Drafted(yaml)
  <2>1. TAKE r \in DOMAIN h
  <2>2. HAVE h[r].retiring
  <2>3. r \in DOMAIN S /\ S[r].retiring /\ r \notin Plans!Drafted(yaml)
    BY <1>3, <2>2 DEF ReadFits
  <2>4. QED
    BY <1>2, <2>3 DEF SettledFits
<1>15. \A r \in DOMAIN h : r[2] # Doc => r \in DOMAIN held
  BY <1>2, <1>3 DEF SettledFits, ReadFits
<1>16. RetiringIsLast'
  <2>1. SUFFICES ASSUME NEW r \in DOMAIN h, h[r].retiring, r[2] = Doc
                 PROVE  /\ \A q \in DOMAIN h : q[1] = r[1] => q[2] = Doc
                        /\ \A k \in 1..Len(plan) : plan[k].do = "create" => plan[k].ref[1] # r[1]
    BY <1>1, <1>9 DEF RetiringIsLast
  <2>2. r \in DOMAIN held /\ held[r].retiring /\ r \notin Plans!Drafted(yaml) /\ r \in Plans!Refs
    BY <1>4, <1>14, <2>1
  <2>3. \A q \in DOMAIN held : q[1] = r[1] => q[2] = Doc
    BY <2>1, <2>2 DEF PlanInvariant, RetiringIsLast
  <2>4. ASSUME NEW k \in 1..Len(plan), plan[k].do = "create", plan[k].ref[1] = r[1] PROVE FALSE
    <3>1. plan[k].ref \in Plans!Drafted(yaml)
      BY <1>7, <2>4 DEF IsPlan, CreatesFit
    <3>2. <<r[1], Doc>> \in Plans!Drafted(yaml)
      BY <1>8, <2>4, <3>1 DEF WithDocuments, DocOf
    <3>3. r = <<r[1], Doc>>
      BY <2>1, <2>2 DEF Plans!Refs
    <3>4. QED
      BY <2>2, <3>2, <3>3
  <2>5. QED
    BY <1>15, <2>3, <2>4
<1>17. HeldIsMade'
  <2>1. \A r \in DOMAIN h : items[h[r].id].life # "none"
    BY <1>2, <1>3 DEF SettledFits, ReadFits
  <2>2. QED
    BY <1>1, <2>1 DEF HeldIsMade
<1>18. Plans!SectionsHaveADocument'
  <2>1. SUFFICES ASSUME NEW r \in DOMAIN h PROVE <<r[1], Doc>> \in DOMAIN h
    BY <1>1 DEF Plans!SectionsHaveADocument, Plans!HeldRefs
  <2>2. CASE r[2] = Doc
    <3>1. r = <<r[1], Doc>>
      BY <1>4, <2>2 DEF Plans!Refs
    <3>2. QED
      BY <3>1
  <2>3. CASE r[2] # Doc
    <3> DEFINE d == <<r[1], Doc>>
    <3>1. r \in DOMAIN held
      BY <1>15, <2>3
    <3>2. d \in DOMAIN held
      BY <3>1 DEF PlanInvariant, Plans!SectionsHaveADocument, Plans!HeldRefs
    <3>3. ~held[d].retiring
      <4>1. d[1] = r[1] /\ d[2] = Doc
        OBVIOUS
      <4>2. QED
        BY <2>3, <3>1, <3>2, <4>1 DEF PlanInvariant, RetiringIsLast
    <3> HIDE DEF d
    <3>4. d \in DOMAIN S /\ ~S[d].retiring
      BY <1>2, <3>2, <3>3 DEF SettledFits
    <3>5. d \in DOMAIN h
      BY <1>3, <3>4 DEF ReadFits
    <3>6. QED
      BY <3>5 DEF d
  <2>4. QED
    BY <2>2, <2>3
<1>19. Plans!NothingLost'
  <2>1. SUFFICES ASSUME NEW i \in Ids, Plans!There(i), items[i].of # None
                 PROVE  \E r \in DOMAIN h : h[r].id = i
    BY <1>1 DEF Plans!NothingLost, Plans!There, Plans!HeldRefs
  <2>2. PICK r \in DOMAIN S : S[r].id = i
    BY <1>2, <2>1 DEF SettledFits
  <2>3. r \in DOMAIN h /\ h[r].id = i
    BY <1>3, <2>1, <2>2 DEF ReadFits
  <2>4. QED
    BY <2>3
<1>20. IsPlan(run'.todo, Labels, run'.drafts, held', Plans!MissingOf(held)', run'.read)
  <2>1. Plans!MissingOf(held)' = missing
    BY <1>1 DEF Plans!MissingOf, Plans!There
  <2>2. QED
    BY <1>1, <1>7, <1>9, <2>1
<1>21. QED
  BY <1>11, <1>12, <1>13, <1>16, <1>17, <1>18, <1>19, <1>20 DEF PlanInvariant

LEMMA PlanStarts ==
  ASSUME Plans!PlanAssumption, Plans!Init
  PROVE  PlanInvariant
<1>1. /\ yaml \in Yamls /\ held = <<>> /\ pending = {} /\ pc = "idle"
      /\ run = [drafts |-> <<>>, read |-> {}, todo |-> <<>>]
      /\ items = [i \in Ids |-> IF \E l \in Labels : Existing[l] = i
                                THEN [Plans!NoItem EXCEPT !.life = "there"] ELSE Plans!NoItem]
  BY DEF Plans!Init
<1>2. DOMAIN held = {}
  BY <1>1
<1>3. Plans!NoItem \in Item /\ [Plans!NoItem EXCEPT !.life = "there"] \in Item
      /\ Plans!NoItem.of = None /\ [Plans!NoItem EXCEPT !.life = "there"].of = None
  BY DEF Plans!NoItem, Item
<1>4. items \in [Ids -> Item] /\ \A i \in Ids : items[i].of = None
  BY <1>1, <1>3
<1>5. held \in [DOMAIN held -> HeldItem] /\ <<>> \in Seq(PlanStep)
  BY <1>1, <1>2
<1>6. run \in [drafts : Yamls \cup {<<>>}, read : SUBSET Plans!Refs, todo : Seq(PlanStep)] /\ run.todo = <<>>
  BY <1>1, <1>5
<1>7. PlanTypes
  BY <1>1, <1>2, <1>4, <1>5, <1>6 DEF PlanTypes
<1>8. NotedFits /\ RetiringIsLast /\ HeldIsMade /\ Plans!SectionsHaveADocument
  BY <1>1, <1>2 DEF NotedFits, RetiringIsLast, HeldIsMade, Plans!SectionsHaveADocument, Plans!HeldRefs
<1>9. StepFits
  BY <1>1, <1>6 DEF StepFits
<1>10. Plans!NothingLost
  BY <1>4 DEF Plans!NothingLost
<1>11. QED
  BY <1>1, <1>7, <1>8, <1>9, <1>10 DEF PlanInvariant

LEMMA NothingKeeps ==
  ASSUME PlanInvariant, UNCHANGED Plans!vars
  PROVE  PlanInvariant'
<1>1. UNCHANGED <<yaml, items, held, pending, pc, run>>
  BY DEF Plans!vars
<1>2. PlanTypes'
  <2>1. Item' = Item /\ HeldItem' = HeldItem /\ PlanStep' = PlanStep /\ Plans!Refs' = Plans!Refs
    BY DEF Item, HeldItem, PlanStep, Plans!Refs
  <2>2. QED
    BY <1>1, <2>1 DEF PlanTypes, PlanInvariant
<1>3. NotedFits' /\ StepFits' /\ RetiringIsLast' /\ HeldIsMade'
  BY <1>1 DEF PlanInvariant, NotedFits, StepFits, RetiringIsLast, HeldIsMade, Unheld, Plans!There,
       Plans!MissingOf, Plans!Step
<1>4. Plans!SectionsHaveADocument' /\ Plans!NothingLost'
  BY <1>1 DEF PlanInvariant, Plans!SectionsHaveADocument, Plans!NothingLost, Plans!There, Plans!HeldRefs
<1>5. ASSUME pc' # "idle"
      PROVE  IsPlan(run.todo', Labels, run.drafts', held', Plans!MissingOf(held)', run.read')
  <2>1. Plans!MissingOf(held)' = Plans!MissingOf(held)
    BY <1>1 DEF Plans!MissingOf, Plans!There
  <2>2. QED
    BY <1>1, <1>5, <2>1 DEF PlanInvariant
<1>6. QED
  BY <1>2, <1>3, <1>4, <1>5 DEF PlanInvariant

LEMMA PlanStepsKeep ==
  ASSUME Plans!PlanAssumption, PlanInvariant, [Plans!Next]_(Plans!vars)
  PROVE  PlanInvariant'
<1>1. CASE Plans!Revise
  BY <1>1, ReviseKeeps
<1>2. CASE Plans!Resolve
  BY <1>2, ResolveKeeps
<1>3. CASE \E i \in Ids : Plans!Delete(i)
  BY <1>3, DeleteKeeps
<1>4. CASE \E o \in BOOLEAN : Plans!Start(o)
  BY <1>4, StartKeeps
<1>5. CASE Plans!NoteCreate
  BY <1>5, NoteCreateKeeps
<1>6. CASE Plans!NoteRetire
  BY <1>6, NoteRetireKeeps
<1>7. CASE Plans!SendCreate
  BY <1>7, SendCreateKeeps
<1>8. CASE Plans!SendRetire
  BY <1>8, SendRetireKeeps
<1>9. CASE Plans!Record
  BY <1>9, RecordKeeps
<1>10. CASE Plans!Rejected
  BY <1>10, RejectedKeeps
<1>11. CASE Plans!ParentGone
  BY <1>11, ParentGoneKeeps
<1>12. CASE Plans!Link
  BY <1>12, LinkKeeps
<1>13. CASE Plans!LinkRefused
  BY <1>13, LinkRefusedKeeps
<1>14. CASE Plans!Stop
  BY <1>14, StopKeeps
<1>15. CASE Plans!Done
  BY <1>15, DoneKeeps
<1>16. CASE UNCHANGED Plans!vars
  BY <1>16, NothingKeeps
<1>17. QED
  BY <1>1, <1>2, <1>3, <1>4, <1>5, <1>6, <1>7, <1>8, <1>9, <1>10, <1>11, <1>12, <1>13, <1>14, <1>15, <1>16
     DEF Plans!Next

\* plan.py and applier.py: what is left of a run's plan is, wherever the run has
\* come to, what the publish block asks for and the state file does not hold, a
\* document's create before its sections' and its retirement after them; and one
\* create at most is noted, of an item that is held nowhere else.
THEOREM PlansAreCarriedOut ==
  ASSUME Plans!PlanAssumption
  PROVE  Plans!Spec => []PlanInvariant
<1>1. Plans!Init => PlanInvariant
  BY PlanStarts
<1>2. PlanInvariant /\ [Plans!Next]_(Plans!vars) => PlanInvariant'
  BY PlanStepsKeep
<1>3. QED
  BY <1>1, <1>2, PTL DEF Plans!Spec

\* The state file never holds a section without its document, and every item
\* skaldr made and did not archive is held or says in a pending create where it
\* is to be looked for: however often a run stops, whatever is deleted meanwhile.
THEOREM ItemsAreAccountedFor ==
  ASSUME Plans!PlanAssumption
  PROVE  Plans!Spec => [](Plans!SectionsHaveADocument /\ Plans!NothingLost)
<1>1. PlanInvariant => Plans!SectionsHaveADocument /\ Plans!NothingLost
  BY DEF PlanInvariant
<1>2. QED
  BY <1>1, PlansAreCarriedOut, PTL

\* A run that has done all it planned holds what is drafted, and nothing else.
LEMMA HeldIsDrafted ==
  ASSUME Plans!PlanAssumption, PlanInvariant, pc = "note", run.todo = <<>>
  PROVE  DOMAIN held = Plans!Drafted(run.drafts)
<1>1. LeavesDrafted(run.todo, Labels, run.drafts, held)
  BY DEF PlanInvariant, IsPlan
<1>2. \A k \in 1..Len(run.todo) : FALSE
  OBVIOUS
<1>3. run.drafts \in Yamls \cup {<<>>} /\ DOMAIN held \subseteq Plans!Refs
  BY DEF PlanInvariant, PlanTypes
<1>4. Plans!Drafted(run.drafts) \subseteq Plans!Refs
  BY <1>3, DocumentsAreDrafted
<1>5. \A r \in Plans!Refs : r[1] \in Labels
  BY DEF Plans!Refs
<1>6. QED
  BY <1>1, <1>2, <1>3, <1>4, <1>5 DEF LeavesDrafted

\* Only its own target's document is made of a page that is there.
OwnPage(r, i) == \A l \in Labels : Existing[l] # None /\ Existing[l] = i => r = <<l, Doc>>

PagesFit ==
  /\ \A l \in Labels : Existing[l] # None => items[Existing[l]].life # "none"
  /\ \A k \in 1..Len(run.todo) :
       run.todo[k].into # None /\ (pc = "record" => k # 1) => run.todo[k].into = Existing[run.todo[k].ref[1]]
  /\ \A p \in pending : p.into # None => p.into = Existing[p.ref[1]]

HeldApart ==
  /\ \A q, r \in DOMAIN held : held[q].id = held[r].id => q = r
  /\ \A r \in DOMAIN held : OwnPage(r, held[r].id)

LinksFit ==
  /\ \A r \in DOMAIN held : items[held[r].id].links \subseteq held[r].links
  /\ \A i \in Ids : Plans!There(i) /\ items[i].links # {} => \E r \in DOMAIN held : held[r].id = i

MadeFits ==
  /\ pc = "record" /\ Plans!Step.do = "create" =>
       /\ \A q \in DOMAIN held : held[q].id = Plans!Step.into => q = Plans!Step.ref
       /\ OwnPage(Plans!Step.ref, Plans!Step.into)
       /\ items[Plans!Step.into].links = {}
  /\ pc = "record" /\ Plans!Step.do = "retire" =>
       LET i == held[Plans!Step.ref].id IN ~Plans!There(i) \/ items[i].links = {}

LinkedInvariant == PagesFit /\ HeldApart /\ LinksFit /\ MadeFits

\* Items and links as they are noted, at a step that makes nothing.
ItemsAge ==
  \A i \in Ids : /\ items[i].life # "none" => items'[i].life # "none"
                 /\ Plans!There(i)' => Plans!There(i)
                 /\ items'[i].links \subseteq items[i].links
HeldStays ==
  /\ DOMAIN held' = DOMAIN held
  /\ \A r \in DOMAIN held : held'[r].id = held[r].id /\ held[r].links \subseteq held'[r].links
TodoStays ==
  \A k \in 1..Len(run'.todo) : run'.todo[k].into # None /\ (pc' = "record" => k # 1) =>
    run'.todo[k].into = Existing[run'.todo[k].ref[1]]
PendingStays == \A p \in pending' : p.into # None => p.into = Existing[p.ref[1]]

LEMMA LinksStay ==
  ASSUME Plans!PlanAssumption, PlanInvariant, LinkedInvariant,
         ItemsAge, HeldStays, TodoStays, PendingStays, MadeFits'
  PROVE  LinkedInvariant'
<1>1. HeldAreItems
  BY HeldItems DEF PlanInvariant
<1>2. PagesFit'
  <2>1. \A l \in Labels : Existing[l] # None => Existing[l] \in Ids
    BY DEF Plans!PlanAssumption
  <2>2. \A l \in Labels : Existing[l] # None => items'[Existing[l]].life # "none"
    BY <2>1 DEF LinkedInvariant, PagesFit, ItemsAge
  <2>3. QED
    BY <2>2 DEF PagesFit, TodoStays, PendingStays
<1>3. HeldApart'
  BY DEF LinkedInvariant, HeldApart, HeldStays, OwnPage
<1>4. LinksFit'
  <2>1. \A r \in DOMAIN held' : items'[held'[r].id].links \subseteq held'[r].links
    BY <1>1 DEF HeldAreItems, HeldItem, LinkedInvariant, LinksFit, HeldStays, ItemsAge
  <2>2. \A i \in Ids : Plans!There(i)' /\ items'[i].links # {} => \E r \in DOMAIN held' : held'[r].id = i
    BY DEF LinkedInvariant, LinksFit, HeldStays, ItemsAge
  <2>3. QED
    BY <2>1, <2>2 DEF LinksFit, Plans!There
<1>5. QED
  BY <1>2, <1>3, <1>4 DEF LinkedInvariant

LEMMA SameItems ==
  ASSUME UNCHANGED items PROVE ItemsAge
BY DEF ItemsAge, Plans!There

\* A run that stops.
LEMMA LinksWhenStopped ==
  ASSUME Plans!PlanAssumption, PlanInvariant, LinkedInvariant, ItemsAge, HeldStays,
         pending' \subseteq pending, pc' = "idle", run'.todo = <<>>
  PROVE  LinkedInvariant'
<1>1. TodoStays
  BY DEF TodoStays
<1>2. PendingStays
  BY DEF PendingStays, LinkedInvariant, PagesFit
<1>3. MadeFits'
  BY DEF MadeFits
<1>4. QED
  BY <1>1, <1>2, <1>3, LinksStay

LEMMA SameHeld ==
  ASSUME UNCHANGED held PROVE HeldStays
BY DEF HeldStays

LEMMA SameTodo ==
  ASSUME LinkedInvariant, UNCHANGED run, pc # "record" \/ pc' = "record" PROVE TodoStays
BY DEF TodoStays, LinkedInvariant, PagesFit

LEMMA FewerPending ==
  ASSUME LinkedInvariant, pending' \subseteq pending PROVE PendingStays
BY DEF PendingStays, LinkedInvariant, PagesFit

LEMMA ReviseLinks ==
  ASSUME Plans!PlanAssumption, PlanInvariant, LinkedInvariant,
         UNCHANGED <<items, held, pending, pc, run>>
  PROVE  LinkedInvariant'
<1>1. ItemsAge /\ HeldStays /\ TodoStays /\ PendingStays
  BY SameItems, SameHeld, SameTodo, FewerPending
<1>2. MadeFits'
  BY DEF LinkedInvariant, MadeFits, OwnPage, Plans!There, Plans!Step
<1>3. QED
  BY <1>1, <1>2, LinksStay

LEMMA GoneAges ==
  ASSUME PlanTypes, NEW i \in Ids, items' = Plans!Gone(i)
  PROVE  ItemsAge /\ (\A j \in Ids : items'[j].links = items[j].links) /\ ~Plans!There(i)'
<1>1. \A j \in Ids : items'[j] = IF (j = i \/ items[j].under = i) /\ items[j].life = "there"
                                 THEN [items[j] EXCEPT !.life = "gone"] ELSE items[j]
  BY DEF Plans!Gone, Plans!There
<1>2. \A j \in Ids : items[j] \in Item
  BY DEF PlanTypes
<1>3. \A j \in Ids : /\ items[j].life # "none" => items'[j].life # "none"
                     /\ items'[j].life = "there" => items[j].life = "there"
                     /\ items'[j].links = items[j].links
  BY <1>1, <1>2 DEF Item
<1>4. items'[i].life # "there"
  BY <1>1, <1>2 DEF Item
<1>5. QED
  BY <1>3, <1>4 DEF ItemsAge, Plans!There

LEMMA DeleteLinks ==
  ASSUME Plans!PlanAssumption, PlanInvariant, LinkedInvariant, NEW i \in Ids, Plans!Delete(i)
  PROVE  LinkedInvariant'
<1>1. items' = Plans!Gone(i) /\ UNCHANGED <<held, pending, pc, run>>
  BY DEF Plans!Delete
<1>2. ItemsAge /\ (\A j \in Ids : items'[j].links = items[j].links)
  BY <1>1, GoneAges DEF PlanInvariant
<1>3. HeldStays /\ TodoStays /\ PendingStays
  BY <1>1, SameHeld, SameTodo, FewerPending
<1>4. MadeFits'
  <2>1. Plans!Step' = Plans!Step
    BY <1>1 DEF Plans!Step
  <2>2. pc = "record" => StepIsPlanned /\ HeldAreItems
    BY TheStep, HeldItems DEF PlanInvariant, StepFits
  <2>3. ASSUME pc = "record", Plans!Step.do = "create"
        PROVE  /\ \A q \in DOMAIN held : held[q].id = Plans!Step.into => q = Plans!Step.ref
               /\ OwnPage(Plans!Step.ref, Plans!Step.into)
               /\ items'[Plans!Step.into].links = {}
    <3>1. Plans!Step.into \in Ids
      BY <2>3 DEF PlanInvariant, StepFits
    <3>2. QED
      BY <1>2, <2>3, <3>1 DEF LinkedInvariant, MadeFits
  <2>4. ASSUME pc = "record", Plans!Step.do = "retire"
        PROVE  ~Plans!There(held[Plans!Step.ref].id)' \/ items'[held[Plans!Step.ref].id].links = {}
    <3>1. held[Plans!Step.ref].id \in Ids
      BY <2>2, <2>4 DEF StepIsPlanned, HeldAreItems, HeldItem
    <3>2. ~Plans!There(held[Plans!Step.ref].id) \/ items[held[Plans!Step.ref].id].links = {}
      BY <2>4 DEF LinkedInvariant, MadeFits
    <3>3. Plans!There(held[Plans!Step.ref].id)' => Plans!There(held[Plans!Step.ref].id)
      <4>1. held'[Plans!Step'.ref].id = held[Plans!Step.ref].id
        BY <1>1, <2>1
      <4>2. QED
        BY <1>2, <3>1, <4>1 DEF ItemsAge, Plans!There
    <3>4. QED
      BY <1>2, <3>1, <3>2, <3>3
  <2>5. QED
    BY <1>1, <2>1, <2>3, <2>4 DEF MadeFits, OwnPage, Plans!There
<1>5. QED
  BY <1>2, <1>3, <1>4, LinksStay

LEMMA ResolveLinks ==
  ASSUME Plans!PlanAssumption, PlanInvariant, LinkedInvariant, Plans!Resolve
  PROVE  LinkedInvariant'
<1>1. PICK p \in pending :
        /\ pending' = pending \ {p}
        /\ items' = [i \in Ids |->
             IF /\ Plans!There(i) /\ items[i].of = p.ref
                /\ ~\E r \in Plans!HeldRefs : held[r].id = i
             THEN [items[i] EXCEPT !.life = "gone"] ELSE items[i]]
  BY DEF Plans!Resolve
<1>2. pc' = "idle" /\ UNCHANGED <<held, run>> /\ run.todo = <<>>
  BY DEF Plans!Resolve, PlanInvariant, StepFits
<1>3. \A i \in Ids : items'[i] \in {items[i], [items[i] EXCEPT !.life = "gone"]}
                     /\ (items[i].life # "there" => items'[i] = items[i])
  BY <1>1 DEF Plans!There
<1>4. \A i \in Ids : items[i] \in Item
  BY DEF PlanInvariant, PlanTypes
<1>5. ItemsAge
  BY <1>3, <1>4 DEF ItemsAge, Plans!There, Item
<1>6. QED
  BY <1>1, <1>2, <1>5, SameHeld, LinksWhenStopped

LEMMA NoteCreateLinks ==
  ASSUME Plans!PlanAssumption, PlanInvariant, LinkedInvariant, Plans!NoteCreate
  PROVE  LinkedInvariant'
<1>1. /\ pc = "note" /\ run.todo # <<>> /\ UNCHANGED <<items, held, run>>
      /\ pc' \in {"send", "lost"}
      /\ pending' \subseteq pending \cup {[ref |-> Plans!Step.ref, into |-> Plans!Step.into]}
  BY DEF Plans!NoteCreate
<1>2. StepIsPlanned
  BY <1>1, TheStep
<1>3. Plans!Step.into # None => Plans!Step.into = Existing[Plans!Step.ref[1]]
  BY <1>1, <1>2 DEF StepIsPlanned, LinkedInvariant, PagesFit
<1>4. PendingStays
  BY <1>1, <1>3 DEF PendingStays, LinkedInvariant, PagesFit
<1>5. MadeFits'
  BY <1>1 DEF MadeFits
<1>6. QED
  BY <1>1, <1>4, <1>5, SameItems, SameHeld, SameTodo, LinksStay

\* What is held stays what it is when it is marked.
LEMMA MarkedStays ==
  ASSUME PlanTypes, NEW r \in DOMAIN held, NEW b \in BOOLEAN,
         held' = [held EXCEPT ![r].retiring = b]
  PROVE  HeldStays
<1> DEFINE v == [held[r] EXCEPT !.retiring = b]
<1>1. held[r] \in HeldItem
  BY DEF PlanTypes
<1>2. v \in HeldItem /\ v.id = held[r].id /\ v.links = held[r].links
  BY <1>1 DEF HeldItem
<1>3. held' = [held EXCEPT ![r] = v]
  OBVIOUS
<1> HIDE DEF v
<1>4. /\ DOMAIN held' = DOMAIN held
      /\ held'[r] = v /\ \A q \in DOMAIN held : q # r => held'[q] = held[q]
  BY <1>2, <1>3, WrittenOver
<1>5. QED
  BY <1>2, <1>4 DEF HeldStays

LEMMA RejectedLinks ==
  ASSUME Plans!PlanAssumption, PlanInvariant, LinkedInvariant, Plans!Rejected
  PROVE  LinkedInvariant'
<1>1. /\ pc = "send" /\ pc' = "idle" /\ UNCHANGED items
      /\ run' = [run EXCEPT !.todo = <<>>] /\ pending' \subseteq pending
      /\ held' = held \/ (Plans!Step.do # "create" /\ held' = [held EXCEPT ![Plans!Step.ref].retiring = FALSE])
  BY DEF Plans!Rejected
<1>2. StepIsPlanned
  BY <1>1, TheStep DEF PlanInvariant, StepFits
<1>3. HeldStays
  <2>1. CASE held' = held
    BY <2>1, SameHeld
  <2>2. CASE Plans!Step.do # "create" /\ held' = [held EXCEPT ![Plans!Step.ref].retiring = FALSE]
    <3>1. Plans!Step.ref \in DOMAIN held
      BY <1>2, <2>2 DEF StepIsPlanned
    <3>2. QED
      BY <2>2, <3>1, MarkedStays DEF PlanInvariant
  <2>3. QED
    BY <1>1, <2>1, <2>2
<1>4. run'.todo = <<>>
  BY <1>1, StoppedRun DEF PlanInvariant
<1>5. QED
  BY <1>1, <1>3, <1>4, SameItems, LinksWhenStopped

LEMMA StopLinks ==
  ASSUME Plans!PlanAssumption, PlanInvariant, LinkedInvariant,
         Plans!Stop \/ Plans!Done \/ Plans!ParentGone
  PROVE  LinkedInvariant'
<1>1. /\ pc' = "idle" /\ UNCHANGED <<items, held>> /\ pending' \subseteq pending
      /\ run' = [run EXCEPT !.todo = <<>>] \/ (run' = run /\ run.todo = <<>>)
  BY DEF Plans!Stop, Plans!Done, Plans!ParentGone
<1>2. run'.todo = <<>>
  BY <1>1, StoppedRun DEF PlanInvariant
<1>3. QED
  BY <1>1, <1>2, SameItems, SameHeld, LinksWhenStopped

LEMMA SendRetireLinks ==
  ASSUME Plans!PlanAssumption, PlanInvariant, LinkedInvariant, Plans!SendRetire
  PROVE  LinkedInvariant'
<1> DEFINE s == Plans!Step
           i == held[s.ref].id
<1>1. /\ pc = "send" /\ s.do = "retire" /\ pc' = "record" /\ UNCHANGED <<held, pending, run>>
      /\ items' = IF s.ref[2] = Doc /\ Existing[s.ref[1]] = i
                  THEN [items EXCEPT ![i].of = None, ![i].links = {}] ELSE Plans!Gone(i)
  BY DEF Plans!SendRetire
<1>2. StepIsPlanned /\ HeldAreItems
  BY <1>1, TheStep, HeldItems DEF PlanInvariant, StepFits
<1>3. i \in Ids
  BY <1>1, <1>2 DEF StepIsPlanned, HeldAreItems, HeldItem
<1>4. Plans!Step' = s
  BY <1>1 DEF Plans!Step
<1> HIDE DEF s, i
<1>5. ItemsAge /\ (items'[i].life # "there" \/ items'[i].links = {})
  <2>1. CASE items' = Plans!Gone(i)
    <3>1. PICK j \in Ids : j = i
      BY <1>3
    <3>2. items' = Plans!Gone(j)
      BY <2>1, <3>1
    <3>3. ItemsAge /\ ~Plans!There(j)'
      BY <3>2, GoneAges DEF PlanInvariant
    <3>4. items'[j].life # "there"
      BY <3>3 DEF Plans!There
    <3>5. QED
      BY <3>1, <3>3, <3>4
  <2>2. CASE items' = [items EXCEPT ![i].of = None, ![i].links = {}]
    <3>1. items[i] \in Item /\ items \in [Ids -> Item]
      BY <1>3 DEF PlanInvariant, PlanTypes
    <3> DEFINE v == [items[i] EXCEPT !.of = None, !.links = {}]
    <3>2. items' = [items EXCEPT ![i] = v]
      BY <1>3, <2>2, <3>1
    <3>3. v.life = items[i].life /\ v.links = {}
      BY <3>1 DEF Item
    <3> HIDE DEF v
    <3>4. \A j \in Ids : items'[j] = IF j = i THEN v ELSE items[j]
      BY <3>1, <3>2
    <3>5. \A j \in Ids : items'[j].life = items[j].life /\ items'[j].links \subseteq items[j].links
      <4>1. TAKE j \in Ids
      <4>2. CASE j = i
        <5>1. items'[j] = v
          BY <3>4, <4>2
        <5>2. QED
          BY <3>3, <4>2, <5>1
      <4>3. CASE j # i
        <5>1. items'[j] = items[j]
          BY <3>4, <4>3
        <5>2. QED
          BY <5>1
      <4>4. QED
        BY <4>2, <4>3
    <3>6. items'[i].links = {}
      BY <1>3, <3>3, <3>4
    <3>7. QED
      BY <3>5, <3>6 DEF ItemsAge, Plans!There
  <2>3. QED
    BY <1>1, <2>1, <2>2
<1>6. MadeFits'
  BY <1>1, <1>4, <1>5 DEF MadeFits, Plans!There, i
<1>7. HeldStays /\ TodoStays /\ PendingStays
  BY <1>1, SameHeld, SameTodo, FewerPending
<1>8. QED
  BY <1>5, <1>6, <1>7, LinksStay

LEMMA SendCreateLinks ==
  ASSUME Plans!PlanAssumption, Plans!PagesAreApart, PlanInvariant, LinkedInvariant, Plans!SendCreate
  PROVE  LinkedInvariant'
<1> DEFINE s == Plans!Step
           i == Plans!NewId
           v == [life |-> "there", of |-> s.ref, under |-> Plans!ParentId(s.ref), links |-> {}]
<1>1. /\ pc = "send" /\ s.do = "create" /\ pc' = "record" /\ UNCHANGED <<held, pending>>
      /\ items' = [items EXCEPT ![i] = v]
      /\ run' = [run EXCEPT !.todo[1] = [@ EXCEPT !.into = i]]
  BY DEF Plans!SendCreate
<1>2. run.todo # <<>>
  BY <1>1 DEF PlanInvariant, StepFits
<1>3. StepIsPlanned /\ HeldAreItems
  BY <1>1, <1>2, TheStep, HeldItems DEF PlanInvariant
<1>4. /\ s.ref \in Plans!Refs /\ s = run.todo[1] /\ 1 \in 1..Len(run.todo)
      /\ s.into # None => s.ref[2] = Doc /\ s.into = Existing[s.ref[1]]
  <2>1. \A k \in 1..Len(run.todo) : run.todo[k].into # None =>
          run.todo[k].ref[2] = Doc /\ run.todo[k].into = Existing[run.todo[k].ref[1]]
    BY <1>1 DEF PlanInvariant, StepFits, LinkedInvariant, PagesFit
  <2>2. QED
    BY <1>3, <2>1 DEF StepIsPlanned
<1>5. /\ i \in Ids
      /\ s.into = None => items[i].life = "none"
      /\ s.into # None => i = s.into /\ items[i].life = "there"
  BY IdOfACreate
<1>6. v.life = "there" /\ v.links = {}
  OBVIOUS
<1>7. run \in RunType
  BY DEF PlanInvariant, PlanTypes, RunType
<1> HIDE DEF i
<1>8. GetsItsId(run, run', i)
  BY <1>1, <1>2, <1>5, <1>7, StepGetsItsId
<1>9. /\ Len(run'.todo) = Len(run.todo)
      /\ Head(run'.todo) = run'.todo[1] /\ run'.todo[1].into = i
      /\ \A k \in 1..Len(run.todo) :
           /\ run'.todo[k].do = run.todo[k].do /\ run'.todo[k].ref = run.todo[k].ref
           /\ k # 1 => run'.todo[k] = run.todo[k]
  BY <1>8 DEF GetsItsId
<1>10. Plans!Step'.do = "create" /\ Plans!Step'.ref = s.ref /\ Plans!Step'.into = i
  BY <1>1, <1>4, <1>9 DEF Plans!Step
<1> HIDE DEF s, v
<1>11. \A j \in Ids : items'[j] = IF j = i THEN v ELSE items[j]
  <2>1. items \in [Ids -> Item]
    BY DEF PlanInvariant, PlanTypes
  <2>2. QED
    BY <1>1, <1>5, <2>1
<1>12. \A r \in DOMAIN held : held[r].id \in Ids /\ items[held[r].id].life # "none"
  BY <1>3 DEF HeldAreItems, HeldItem, PlanInvariant, HeldIsMade
<1>13. \A l \in Labels : Existing[l] # None => Existing[l] \in Ids /\ items[Existing[l]].life # "none"
  BY DEF Plans!PlanAssumption, LinkedInvariant, PagesFit
<1>14. s.ref[1] \in Labels /\ (s.into # None => s.ref = <<s.ref[1], Doc>>)
  BY <1>4 DEF Plans!Refs
<1>15. \A q \in DOMAIN held : held[q].id = i => q = s.ref
  BY <1>4, <1>5, <1>12, <1>14 DEF LinkedInvariant, HeldApart, OwnPage
<1>16. OwnPage(s.ref, i)
  BY <1>4, <1>5, <1>13, <1>14 DEF Plans!PagesAreApart, OwnPage
<1>17. items'[i].links = {}
  BY <1>5, <1>6, <1>11
<1>18. MadeFits'
  BY <1>1, <1>10, <1>15, <1>16, <1>17 DEF MadeFits, OwnPage
<1>19. PagesFit'
  <2>1. \A l \in Labels : Existing[l] # None => items'[Existing[l]].life # "none"
    BY <1>6, <1>11, <1>13
  <2>2. \A k \in 1..Len(run'.todo) : run'.todo[k].into # None /\ k # 1 =>
          run'.todo[k].into = Existing[run'.todo[k].ref[1]]
    BY <1>1, <1>9 DEF LinkedInvariant, PagesFit
  <2>3. QED
    BY <1>1, <2>1, <2>2 DEF LinkedInvariant, PagesFit
<1>20. HeldApart'
  BY <1>1 DEF LinkedInvariant, HeldApart, OwnPage
<1>21. LinksFit'
  <2>1. \A r \in DOMAIN held : items'[held[r].id].links \subseteq held[r].links
    BY <1>6, <1>11, <1>12 DEF LinkedInvariant, LinksFit
  <2>2. \A j \in Ids : items'[j].life = "there" /\ items'[j].links # {} =>
          \E r \in DOMAIN held : held[r].id = j
    BY <1>6, <1>11 DEF LinkedInvariant, LinksFit, Plans!There
  <2>3. QED
    BY <1>1, <2>1, <2>2 DEF LinksFit, Plans!There
<1>22. QED
  BY <1>18, <1>19, <1>20, <1>21 DEF LinkedInvariant

\* A retired item is forgotten, and nothing links from it.
LEMMA ForgottenLinks ==
  ASSUME Plans!PlanAssumption, PlanInvariant, LinkedInvariant,
         NEW r \in DOMAIN held, ~Plans!There(held[r].id) \/ items[held[r].id].links = {},
         held' = Plans!Without(held, r), run.todo # <<>>, run' = [run EXCEPT !.todo = Tail(@)],
         pc' = "note", UNCHANGED <<items, pending>>
  PROVE  LinkedInvariant'
<1>1. /\ DOMAIN held' = DOMAIN held \ {r} /\ \A q \in DOMAIN held' : held'[q] = held[q]
  BY WithoutARef DEF PlanInvariant
<1>2. run \in RunType
  BY DEF PlanInvariant, PlanTypes, RunType
<1>3. \A k \in 1..Len(run'.todo) : \E j \in 2..Len(run.todo) : run'.todo[k] = run.todo[j]
  BY <1>2, StepIsDone DEF OneDone
<1>4. PagesFit'
  <2>1. \A j \in 2..Len(run.todo) : run.todo[j].into # None => run.todo[j].into = Existing[run.todo[j].ref[1]]
    BY <1>2 DEF LinkedInvariant, PagesFit, RunType
  <2>2. \A k \in 1..Len(run'.todo) :
          run'.todo[k].into # None => run'.todo[k].into = Existing[run'.todo[k].ref[1]]
    BY <1>3, <2>1
  <2>3. QED
    BY <2>2 DEF LinkedInvariant, PagesFit
<1>5. HeldApart'
  BY <1>1 DEF LinkedInvariant, HeldApart, OwnPage
<1>6. LinksFit'
  BY <1>1 DEF LinkedInvariant, LinksFit, Plans!There
<1>7. MadeFits'
  BY DEF MadeFits
<1>8. QED
  BY <1>4, <1>5, <1>6, <1>7 DEF LinkedInvariant

LEMMA NoteRetireLinks ==
  ASSUME Plans!PlanAssumption, PlanInvariant, LinkedInvariant, Plans!NoteRetire
  PROVE  LinkedInvariant'
<1> DEFINE s == Plans!Step
<1>1. /\ pc = "note" /\ run.todo # <<>> /\ s.do = "retire" /\ UNCHANGED <<items, pending>>
  BY DEF Plans!NoteRetire
<1>2. StepIsPlanned
  BY <1>1, TheStep
<1>3. s.ref \in DOMAIN held /\ s.ref \in Plans!MissingOf(held) \cup run.read
  BY <1>1, <1>2 DEF StepIsPlanned
<1>4. CASE s.ref \notin run.read
  <2>1. ~Plans!There(held[s.ref].id)
    BY <1>3, <1>4 DEF Plans!MissingOf
  <2>2. held' = Plans!Without(held, s.ref) /\ run' = [run EXCEPT !.todo = Tail(@)] /\ pc' = "note"
    BY <1>1, <1>4 DEF Plans!NoteRetire
  <2>3. QED
    BY <1>1, <1>3, <2>1, <2>2, ForgottenLinks
<1>5. CASE s.ref \in run.read
  <2>1. held' = [held EXCEPT ![s.ref].retiring = TRUE] /\ pc' = "send" /\ run' = run
    BY <1>1, <1>5 DEF Plans!NoteRetire
  <2>2. HeldStays
    BY <1>3, <2>1, MarkedStays DEF PlanInvariant
  <2>3. MadeFits'
    BY <2>1 DEF MadeFits
  <2>4. ItemsAge /\ TodoStays /\ PendingStays
    BY <1>1, <2>1, SameItems, SameTodo, FewerPending
  <2>5. QED
    BY <2>2, <2>3, <2>4, LinksStay
<1>6. QED
  BY <1>4, <1>5

LEMMA RecordLinks ==
  ASSUME Plans!PlanAssumption, PlanInvariant, LinkedInvariant, Plans!Record
  PROVE  LinkedInvariant'
<1> DEFINE s == Plans!Step
           v == [id |-> s.into, retiring |-> FALSE, links |-> {}]
<1>1. /\ pc = "record" /\ pc' = "note" /\ UNCHANGED items
      /\ run' = [run EXCEPT !.todo = Tail(@)]
  BY DEF Plans!Record
<1>2. run.todo # <<>>
  BY <1>1 DEF PlanInvariant, StepFits
<1>3. StepIsPlanned
  BY <1>1, <1>2, TheStep
<1>4. s.ref \in Plans!Refs /\ s.do \in {"create", "retire"}
  BY <1>3 DEF StepIsPlanned
<1>5. CASE s.do = "retire"
  <2>1. held' = Plans!Without(held, s.ref) /\ pending' = pending
    BY <1>5 DEF Plans!Record
  <2>2. s.ref \in DOMAIN held /\ (~Plans!There(held[s.ref].id) \/ items[held[s.ref].id].links = {})
    BY <1>1, <1>3, <1>5 DEF LinkedInvariant, MadeFits, StepIsPlanned
  <2>3. QED
    BY <1>1, <1>2, <2>1, <2>2, ForgottenLinks
<1>6. CASE s.do = "create"
  <2>1. held' = Plans!With(held, s.ref, v) /\ pending' = {p \in pending : p.ref # s.ref}
    BY <1>6 DEF Plans!Record
  <2>2. /\ s.into \in Ids /\ \A q \in DOMAIN held : held[q].id = s.into => q = s.ref
        /\ OwnPage(s.ref, s.into) /\ items[s.into].links = {}
    BY <1>1, <1>6 DEF PlanInvariant, StepFits, LinkedInvariant, MadeFits
  <2>3. s.ref \in DOMAIN held => ~Plans!There(held[s.ref].id)
    BY <1>3, <1>6 DEF StepIsPlanned, Plans!MissingOf
  <2>4. v \in HeldItem /\ v.id = s.into /\ v.links = {}
    BY <2>2 DEF HeldItem
  <2>5. run \in RunType
    BY DEF PlanInvariant, PlanTypes, RunType
  <2>6. \A k \in 1..Len(run'.todo) : \E j \in 2..Len(run.todo) : run'.todo[k] = run.todo[j]
    BY <1>1, <1>2, <2>5, StepIsDone DEF OneDone
  <2> HIDE DEF v, s
  <2>7. /\ DOMAIN held' = DOMAIN held \cup {s.ref}
        /\ held'[s.ref] = v /\ \A q \in DOMAIN held : q # s.ref => held'[q] = held[q]
    BY <1>4, <2>1, <2>4, WithARef DEF PlanInvariant
  <2>8. PagesFit'
    <3>1. \A j \in 2..Len(run.todo) : run.todo[j].into # None => run.todo[j].into = Existing[run.todo[j].ref[1]]
      BY <2>5 DEF LinkedInvariant, PagesFit, RunType
    <3>2. \A k \in 1..Len(run'.todo) :
            run'.todo[k].into # None => run'.todo[k].into = Existing[run'.todo[k].ref[1]]
      BY <2>6, <3>1
    <3>3. QED
      BY <1>1, <2>1, <3>2 DEF LinkedInvariant, PagesFit
  <2>9. HeldApart'
    <3>1. \A q \in DOMAIN held' : q = s.ref \/ (q \in DOMAIN held /\ held'[q] = held[q] /\ held[q].id # s.into)
      BY <2>2, <2>7
    <3>2. \A q, r \in DOMAIN held' : held'[q].id = held'[r].id => q = r
      BY <2>4, <2>7, <3>1 DEF LinkedInvariant, HeldApart
    <3>3. \A r \in DOMAIN held' : OwnPage(r, held'[r].id)
      BY <2>2, <2>4, <2>7, <3>1 DEF LinkedInvariant, HeldApart
    <3>4. QED
      BY <3>2, <3>3 DEF HeldApart, OwnPage
  <2>10. LinksFit'
    <3>1. \A r \in DOMAIN held' : items[held'[r].id].links \subseteq held'[r].links
      BY <2>2, <2>4, <2>7 DEF LinkedInvariant, LinksFit
    <3>2. \A i \in Ids : items[i].life = "there" /\ items[i].links # {} =>
            \E r \in DOMAIN held' : held'[r].id = i
      BY <2>3, <2>7 DEF LinkedInvariant, LinksFit, Plans!There
    <3>3. QED
      BY <1>1, <3>1, <3>2 DEF LinksFit, Plans!There
  <2>11. MadeFits'
    BY <1>1 DEF MadeFits
  <2>12. QED
    BY <2>8, <2>9, <2>10, <2>11 DEF LinkedInvariant
<1>7. QED
  BY <1>4, <1>5, <1>6

\* An item is linked, and nothing else is changed.
LEMMA LinkLinks ==
  ASSUME Plans!PlanAssumption, PlanInvariant, LinkedInvariant, Plans!Link
  PROVE  LinkedInvariant'
<1>1. PICK r \in Plans!ToLink :
        /\ held' = [held EXCEPT ![r].links = Plans!Wanted(r)]
        /\ items' = [items EXCEPT ![held[r].id].links = Plans!Wanted(r)]
  BY DEF Plans!Link
<1> DEFINE w == Plans!Wanted(r)
           v == [held[r] EXCEPT !.links = w]
           u == [items[held[r].id] EXCEPT !.links = w]
<1>2. r \in DOMAIN held /\ w \in SUBSET Ids /\ HeldAreItems
  BY WantedAreIds, HeldItems DEF Plans!ToLink, Plans!HeldRefs, PlanInvariant
<1>3. pc' = "note" /\ run.todo = <<>> /\ UNCHANGED <<pending, run>>
  BY DEF Plans!Link
<1>4. held[r] \in HeldItem /\ held[r].id \in Ids
  BY <1>2 DEF HeldAreItems, HeldItem
<1>5. items \in [Ids -> Item] /\ items[held[r].id] \in Item
  BY <1>4 DEF PlanInvariant, PlanTypes
<1>6. held' = [held EXCEPT ![r] = v] /\ items' = [items EXCEPT ![held[r].id] = u]
  BY <1>1, <1>2, <1>4, <1>5
<1> HIDE DEF w
<1>7. v \in HeldItem /\ v.id = held[r].id /\ v.links = w
  BY <1>2, <1>4 DEF HeldItem
<1>8. u.life = items[held[r].id].life /\ u.links = w
  BY <1>5 DEF Item
<1> HIDE DEF u, v
<1>9. /\ DOMAIN held' = DOMAIN held /\ held'[r] = v
      /\ \A q \in DOMAIN held : q # r => held'[q] = held[q]
      /\ \A q \in DOMAIN held : held'[q].id = held[q].id
  BY <1>2, <1>6, <1>7, WrittenOver DEF PlanInvariant
<1>10. items'[held[r].id] = u /\ \A j \in Ids : j # held[r].id => items'[j] = items[j]
  BY <1>4, <1>5, <1>6
<1>11. \A j \in Ids : items'[j].life = items[j].life
  BY <1>8, <1>10
<1>12. PagesFit'
  <2>1. \A l \in Labels : Existing[l] # None => Existing[l] \in Ids
    BY DEF Plans!PlanAssumption
  <2>2. \A l \in Labels : Existing[l] # None => items'[Existing[l]].life # "none"
    BY <1>11, <2>1 DEF LinkedInvariant, PagesFit
  <2>3. QED
    BY <1>3, <2>2 DEF LinkedInvariant, PagesFit
<1>13. HeldApart'
  BY <1>9 DEF LinkedInvariant, HeldApart, OwnPage
<1>14. LinksFit'
  <2>1. \A q \in DOMAIN held : items'[held[q].id].links \subseteq held'[q].links
    <3>1. TAKE q \in DOMAIN held
    <3>2. CASE q = r
      BY <1>7, <1>8, <1>9, <1>10, <3>2
    <3>3. CASE q # r
      <4>1. held[q].id # held[r].id /\ held[q].id \in Ids
        BY <1>2, <3>3 DEF LinkedInvariant, HeldApart, HeldAreItems, HeldItem
      <4>2. items'[held[q].id] = items[held[q].id] /\ held'[q] = held[q]
        BY <1>9, <1>10, <3>3, <4>1
      <4>3. QED
        BY <4>2 DEF LinkedInvariant, LinksFit
    <3>4. QED
      BY <3>2, <3>3
  <2>2. \A i \in Ids : items'[i].life = "there" /\ items'[i].links # {} => \E q \in DOMAIN held : held[q].id = i
    <3>1. TAKE i \in Ids
    <3>2. CASE i = held[r].id
      BY <1>2, <3>2
    <3>3. CASE i # held[r].id
      BY <1>10, <3>3 DEF LinkedInvariant, LinksFit, Plans!There
    <3>4. QED
      BY <3>2, <3>3
  <2>3. QED
    BY <1>9, <2>1, <2>2 DEF LinksFit, Plans!There
<1>15. MadeFits'
  BY <1>3 DEF MadeFits
<1>16. QED
  BY <1>12, <1>13, <1>14, <1>15 DEF LinkedInvariant

LEMMA LinkRefusedLinks ==
  ASSUME Plans!PlanAssumption, PlanInvariant, LinkedInvariant, Plans!LinkRefused
  PROVE  LinkedInvariant'
<1>1. PICK r \in Plans!ToLink : held' = [held EXCEPT ![r].links = @ \cup Plans!Wanted(r)]
  BY DEF Plans!LinkRefused
<1> DEFINE w == held[r].links \cup Plans!Wanted(r)
           v == [held[r] EXCEPT !.links = w]
<1>2. r \in DOMAIN held /\ Plans!Wanted(r) \in SUBSET Ids /\ HeldAreItems
  BY WantedAreIds, HeldItems DEF Plans!ToLink, Plans!HeldRefs, PlanInvariant
<1>3. pc' = "idle" /\ run.todo = <<>> /\ UNCHANGED <<items, pending, run>>
  BY DEF Plans!LinkRefused
<1>4. held[r] \in HeldItem
  BY <1>2 DEF HeldAreItems
<1>5. held' = [held EXCEPT ![r] = v]
  BY <1>1
<1>6. w \in SUBSET Ids /\ held[r].links \subseteq w
  BY <1>2, <1>4 DEF HeldItem
<1> HIDE DEF w
<1>7. v \in HeldItem /\ v.id = held[r].id /\ v.links = w
  BY <1>4, <1>6 DEF HeldItem
<1> HIDE DEF v
<1>8. /\ DOMAIN held' = DOMAIN held /\ held'[r] = v
      /\ \A q \in DOMAIN held : q # r => held'[q] = held[q]
      /\ \A q \in DOMAIN held : held'[q].id = held[q].id
  BY <1>2, <1>5, <1>7, WrittenOver DEF PlanInvariant
<1>9. HeldStays
  BY <1>6, <1>7, <1>8 DEF HeldStays
<1>10. QED
  BY <1>3, <1>9, SameItems, LinksWhenStopped

LEMMA StartLinks ==
  ASSUME Plans!PlanAssumption, Plans!PagesAreApart, PlanInvariant, LinkedInvariant,
         NEW o \in BOOLEAN, Plans!Start(o)
  PROVE  LinkedInvariant'
<1> DEFINE S == Plans!SettledHeld
           h == Plans!ReadHeld(S, yaml)
           missing == Plans!MissingOf(h)
           plan == Plans!Plan(yaml, h, missing)
           inHand == DOMAIN h \ missing
<1>1. /\ pc = "idle" /\ pc' = "note" /\ UNCHANGED <<yaml, items>>
      /\ held' = h /\ pending' = {} /\ Plans!SettledPending = {}
      /\ run' = [drafts |-> yaml, read |-> inHand, todo |-> plan]
  BY DEF Plans!Start
<1>2. SettledFits(S)
  BY <1>1, Settled
<1>3. ReadFits(h, S, yaml)
  BY <1>2, Reads DEF SettledFits
<1> HIDE DEF S, h
<1>4. DOMAIN h \subseteq Plans!Refs
  BY <1>2, <1>3 DEF SettledFits, ReadFits
<1>5. yaml \in Yamls
  BY DEF PlanInvariant, PlanTypes
<1>6. DOMAIN h \subseteq missing \cup inHand
  BY DEF Plans!MissingOf
<1>7. IntoDocuments(plan)
  <2> HIDE DEF missing, inHand
  <2>1. QED
    BY <1>4, <1>5, <1>6, PlanOfARun
<1> HIDE DEF plan, inHand
<1>8. run'.todo = plan
  BY <1>1
<1>9. PagesFit'
  BY <1>1, <1>7, <1>8 DEF LinkedInvariant, PagesFit, IntoDocuments
\* What is taken up is a target's own document, and not held yet.
<1>10. ASSUME NEW r \in DOMAIN S, ~(r \in DOMAIN held /\ S[r] = held[r])
       PROVE  /\ OwnPage(r, S[r].id) /\ items[S[r].id].links = {}
              /\ \E l \in Labels : Existing[l] # None /\ Existing[l] = S[r].id
              /\ r \in DOMAIN held => held[r].id # S[r].id
  <2>1. PICK p \in pending : /\ p.ref = r /\ p.into = S[r].id /\ p.into # None
                             /\ Plans!There(p.into)
    BY <1>2, <1>10 DEF SettledFits
  <2>2. r[2] = Doc /\ r \in Plans!Refs
    BY <1>2, <1>10 DEF SettledFits
  <2>3. r[1] \in Labels /\ r = <<r[1], Doc>>
    BY <2>2 DEF Plans!Refs
  <2>4. Existing[r[1]] = S[r].id /\ Existing[r[1]] # None
    BY <2>1 DEF LinkedInvariant, PagesFit
  <2>5. OwnPage(r, S[r].id)
    BY <2>3, <2>4 DEF Plans!PagesAreApart, OwnPage
  <2>6. r \in DOMAIN held => ~Plans!There(held[r].id)
    BY <2>1 DEF PlanInvariant, NotedFits, Plans!MissingOf
  <2>7. \A q \in DOMAIN held : held[q].id # S[r].id
    <3>1. SUFFICES ASSUME NEW q \in DOMAIN held, held[q].id = S[r].id PROVE FALSE
      OBVIOUS
    <3>2. q = r
      BY <2>3, <2>4, <3>1 DEF LinkedInvariant, HeldApart, OwnPage
    <3>3. QED
      BY <2>1, <2>6, <3>1, <3>2
  <2>8. S[r].id \in Ids
    BY <1>2, <1>10 DEF SettledFits, HeldItem
  <2>9. items[S[r].id].links = {}
    BY <2>1, <2>7, <2>8 DEF LinkedInvariant, LinksFit
  <2>10. QED
    BY <2>3, <2>4, <2>5, <2>7, <2>9
<1>11. \A r \in DOMAIN S : OwnPage(r, S[r].id) /\ items[S[r].id].links \subseteq S[r].links
  BY <1>10 DEF LinkedInvariant, HeldApart, LinksFit
<1>12. ASSUME NEW q \in DOMAIN S, NEW r \in DOMAIN S, S[q].id = S[r].id PROVE q = r
  <2>1. CASE (q \in DOMAIN held /\ S[q] = held[q]) /\ (r \in DOMAIN held /\ S[r] = held[r])
    BY <1>12, <2>1 DEF LinkedInvariant, HeldApart
  <2>2. CASE ~(q \in DOMAIN held /\ S[q] = held[q])
    BY <1>10, <1>11, <1>12, <2>2 DEF OwnPage
  <2>3. CASE ~(r \in DOMAIN held /\ S[r] = held[r])
    BY <1>10, <1>11, <1>12, <2>3 DEF OwnPage
  <2>4. QED
    BY <2>1, <2>2, <2>3
<1>13. \A r \in DOMAIN h : r \in DOMAIN S /\ h[r].id = S[r].id /\ h[r].links = S[r].links
  BY <1>3 DEF ReadFits
<1>14. HeldApart'
  <2>1. \A q, r \in DOMAIN h : h[q].id = h[r].id => q = r
    BY <1>12, <1>13
  <2>2. \A r \in DOMAIN h : OwnPage(r, h[r].id)
    BY <1>11, <1>13
  <2>3. QED
    BY <1>1, <2>1, <2>2 DEF HeldApart, OwnPage
<1>15. LinksFit'
  <2>1. \A r \in DOMAIN h : items[h[r].id].links \subseteq h[r].links
    BY <1>11, <1>13
  <2>2. ASSUME NEW i \in Ids, Plans!There(i), items[i].links # {}
        PROVE  \E r \in DOMAIN h : h[r].id = i
    <3>1. PICK r \in DOMAIN held : held[r].id = i
      BY <2>2 DEF LinkedInvariant, LinksFit
    <3>2. r \in DOMAIN S
      BY <1>2 DEF SettledFits
    <3>3. S[r] = held[r]
      <4>1. SUFFICES ASSUME S[r] # held[r] PROVE FALSE
        OBVIOUS
      <4>2. PICK p \in pending : p.ref = r
        BY <1>2, <3>2, <4>1 DEF SettledFits
      <4>3. ~Plans!There(held[r].id)
        BY <4>2 DEF PlanInvariant, NotedFits, Plans!MissingOf
      <4>4. QED
        BY <2>2, <3>1, <4>3
    <3>4. r \in DOMAIN h
      BY <1>3, <2>2, <3>1, <3>2, <3>3 DEF ReadFits
    <3>5. QED
      BY <1>13, <3>1, <3>3, <3>4
  <2>3. QED
    BY <1>1, <2>1, <2>2 DEF LinksFit, Plans!There
<1>16. MadeFits'
  BY <1>1 DEF MadeFits
<1>17. QED
  BY <1>9, <1>14, <1>15, <1>16 DEF LinkedInvariant

LEMMA LinksStart ==
  ASSUME Plans!PlanAssumption, Plans!Init
  PROVE  LinkedInvariant
<1>1. /\ held = <<>> /\ pending = {} /\ pc = "idle"
      /\ run = [drafts |-> <<>>, read |-> {}, todo |-> <<>>]
      /\ items = [i \in Ids |-> IF \E l \in Labels : Existing[l] = i
                                THEN [Plans!NoItem EXCEPT !.life = "there"] ELSE Plans!NoItem]
  BY DEF Plans!Init
<1>2. DOMAIN held = {}
  BY <1>1
<1>3. /\ Plans!NoItem.links = {} /\ [Plans!NoItem EXCEPT !.life = "there"].links = {}
      /\ [Plans!NoItem EXCEPT !.life = "there"].life = "there"
  BY DEF Plans!NoItem
<1>4. \A i \in Ids : items[i].links = {} /\ ((\E l \in Labels : Existing[l] = i) => items[i].life = "there")
  BY <1>1, <1>3
<1>5. \A l \in Labels : Existing[l] # None => Existing[l] \in Ids
  BY DEF Plans!PlanAssumption
<1>6. PagesFit
  <2>1. run.todo = <<>>
    BY <1>1
  <2>2. QED
    BY <1>1, <1>4, <1>5, <2>1 DEF PagesFit
<1>7. HeldApart /\ LinksFit
  BY <1>2, <1>4 DEF HeldApart, LinksFit
<1>8. MadeFits
  BY <1>1 DEF MadeFits
<1>9. QED
  BY <1>6, <1>7, <1>8 DEF LinkedInvariant

LEMMA LinksStepsKeep ==
  ASSUME Plans!PlanAssumption, Plans!PagesAreApart, PlanInvariant, LinkedInvariant, [Plans!Next]_(Plans!vars)
  PROVE  LinkedInvariant'
<1>1. CASE Plans!Revise \/ UNCHANGED Plans!vars
  <2>1. UNCHANGED <<items, held, pending, pc, run>>
    BY <1>1 DEF Plans!Revise, Plans!vars
  <2>2. QED
    BY <2>1, ReviseLinks
<1>2. CASE Plans!Resolve
  BY <1>2, ResolveLinks
<1>3. CASE \E i \in Ids : Plans!Delete(i)
  BY <1>3, DeleteLinks
<1>4. CASE \E o \in BOOLEAN : Plans!Start(o)
  BY <1>4, StartLinks
<1>5. CASE Plans!NoteCreate
  BY <1>5, NoteCreateLinks
<1>6. CASE Plans!NoteRetire
  BY <1>6, NoteRetireLinks
<1>7. CASE Plans!SendCreate
  BY <1>7, SendCreateLinks
<1>8. CASE Plans!SendRetire
  BY <1>8, SendRetireLinks
<1>9. CASE Plans!Record
  BY <1>9, RecordLinks
<1>10. CASE Plans!Rejected
  BY <1>10, RejectedLinks
<1>11. CASE Plans!Stop \/ Plans!Done \/ Plans!ParentGone
  BY <1>11, StopLinks
<1>12. CASE Plans!Link
  BY <1>12, LinkLinks
<1>13. CASE Plans!LinkRefused
  BY <1>13, LinkRefusedLinks
<1>14. QED
  BY <1>1, <1>2, <1>3, <1>4, <1>5, <1>6, <1>7, <1>8, <1>9, <1>10, <1>11, <1>12, <1>13 DEF Plans!Next

\* What an item links to is noted before it is written, no two refs share an
\* item, and a page that is there becomes its own target's document and no
\* other's, in every run and between them.
THEOREM LinksAreNotedFirst ==
  ASSUME Plans!PlanAssumption, Plans!PagesAreApart
  PROVE  Plans!Spec => []LinkedInvariant
<1>1. Plans!Init => LinkedInvariant
  BY LinksStart
<1>2. PlanInvariant /\ LinkedInvariant /\ [Plans!Next]_(Plans!vars) => LinkedInvariant'
  BY LinksStepsKeep
<1>3. Plans!Spec => []PlanInvariant
  BY PlansAreCarriedOut
<1>4. QED
  BY <1>1, <1>2, <1>3, PTL DEF Plans!Spec

\* A run that ends without being stopped leaves the state file with exactly the
\* items that the publish block it planned from asks for: what was deleted,
\* interrupted or refused before it changes nothing of that.
THEOREM DoneHoldsWhatIsDrafted ==
  ASSUME Plans!PlanAssumption
  PROVE  Plans!Spec => [][Plans!DoneIsDrafted]_(Plans!vars)
<1>1. PlanInvariant => Plans!DoneIsDrafted
  BY HeldIsDrafted DEF Plans!DoneIsDrafted, Plans!Done, Plans!HeldRefs
<1>2. QED
  BY <1>1, PlansAreCarriedOut, PTL

\* Where no item is left to link, each links to what it should.
LEMMA LinkedAsWanted ==
  ASSUME Plans!PlanAssumption, PlanInvariant, LinkedInvariant, pc = "note", run.todo = <<>>,
         Plans!ToLink = {}, NEW r \in DOMAIN held
  PROVE  items[held[r].id].links = Plans!Wanted(r)
<1>1. r \in Plans!Drafted(run.drafts) \cap Plans!HeldRefs
  BY HeldIsDrafted DEF Plans!HeldRefs
<1>2. CASE Plans!Partners(r, run.drafts) # {} \/ held[r].links # {}
  BY <1>1, <1>2 DEF Plans!ToLink
<1>3. CASE Plans!Partners(r, run.drafts) = {} /\ held[r].links = {}
  <2>1. Plans!Wanted(r) = {}
    BY <1>3 DEF Plans!Wanted
  <2>2. items[held[r].id].links \subseteq {}
    BY <1>3 DEF LinkedInvariant, LinksFit
  <2>3. QED
    BY <2>1, <2>2
<1>4. QED
  BY <1>2, <1>3

LEMMA LinkedBothWays ==
  ASSUME Plans!PlanAssumption, PlanInvariant, LinkedInvariant, Plans!Done
  PROVE  /\ \A i \in Ids : Plans!There(i) => items[i].links \subseteq {held[r].id : r \in Plans!HeldRefs}
         /\ \A q, r \in Plans!HeldRefs : q[2] = r[2] =>
              (held[q].id \in items[held[r].id].links <=> held[r].id \in items[held[q].id].links)
<1>1. pc = "note" /\ run.todo = <<>> /\ Plans!ToLink = {}
  BY DEF Plans!Done
<1>2. DOMAIN held = Plans!Drafted(run.drafts) /\ Plans!HeldRefs = DOMAIN held
  BY <1>1, HeldIsDrafted DEF Plans!HeldRefs
<1>3. \A r \in DOMAIN held :
        items[held[r].id].links = {held[q].id : q \in Plans!Partners(r, run.drafts) \cap DOMAIN held}
  BY <1>1, <1>2, LinkedAsWanted DEF Plans!Wanted
<1>4. \A i \in Ids : Plans!There(i) => items[i].links \subseteq {held[r].id : r \in DOMAIN held}
  <2>1. SUFFICES ASSUME NEW i \in Ids, Plans!There(i), items[i].links # {}
                 PROVE  items[i].links \subseteq {held[r].id : r \in DOMAIN held}
    OBVIOUS
  <2>2. PICK r \in DOMAIN held : held[r].id = i
    BY <2>1 DEF LinkedInvariant, LinksFit
  <2>3. items[i].links = {held[q].id : q \in Plans!Partners(r, run.drafts) \cap DOMAIN held}
    BY <1>3, <2>2
  <2>4. QED
    BY <2>3
<1>5. ASSUME NEW q \in DOMAIN held, NEW r \in DOMAIN held
      PROVE  held[q].id \in items[held[r].id].links <=> q \in Plans!Partners(r, run.drafts)
  <2>1. held[q].id \in items[held[r].id].links <=>
          \E p \in Plans!Partners(r, run.drafts) \cap DOMAIN held : held[p].id = held[q].id
    BY <1>3
  <2>2. \A p \in DOMAIN held : held[p].id = held[q].id => p = q
    BY DEF LinkedInvariant, HeldApart
  <2>3. QED
    BY <2>1, <2>2
<1>6. \A q, r \in DOMAIN held : q[2] = r[2] =>
        (q \in Plans!Partners(r, run.drafts) <=> r \in Plans!Partners(q, run.drafts))
  BY <1>2 DEF Plans!Partners
<1>7. QED
  BY <1>2, <1>4, <1>5, <1>6

\* And when it ends, the items of a section link to one another, each way, and
\* nothing that is there links to an item that was archived, released or made
\* anew: whatever links an earlier run noted, wrote or was refused.
THEOREM DoneIsLinkedBothWays ==
  ASSUME Plans!PlanAssumption, Plans!PagesAreApart
  PROVE  Plans!Spec => [][Plans!DoneIsLinked]_(Plans!vars)
<1>1. PlanInvariant /\ LinkedInvariant => Plans!DoneIsLinked
  BY LinkedBothWays DEF Plans!DoneIsLinked
<1>2. QED
  BY <1>1, PlansAreCarriedOut, LinksAreNotedFirst, PTL

==============================================================================
