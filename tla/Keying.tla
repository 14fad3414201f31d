------------------------------- MODULE Keying --------------------------------
(***************************************************************************)
(* Which section of a saved text each unit of a text read now belongs to:  *)
(* SectionLayout, which Notion's lines and a canvas's blocks are keyed by, *)
(* on difflib.SequenceMatcher as the code under src/ uses it (without      *)
(* junk). A layout is a sequence of [key, text].                           *)
(***************************************************************************)
EXTENDS Integers, Sequences, SequencesExt

\* A function that TLC evaluates once, where it would evaluate its body at
\* every use.
Evaluated(seq) == <<>> \o seq

Concat(seqs) == FlattenSeq(Evaluated(seqs))

\* How far a and b are alike from i and j on, within ahi and bhi.
RunLength(a, b, i, j, ahi, bhi) ==
  CHOOSE n \in 1..(ahi - i) :
    /\ j + n <= bhi
    /\ \A m \in 1..(n - 1) : a[i + m] = b[j + m]
    /\ i + n = ahi \/ j + n = bhi \/ a[i + n] # b[j + n]

\* find_longest_match in a[alo..ahi-1], b[blo..bhi-1]: the longest stretch, the
\* earliest in a of those, then the earliest in b; <<alo, blo, 0>> if none.
LongestMatch(a, b, alo, ahi, blo, bhi) ==
  LET runs == {<<p[1], p[2], RunLength(a, b, p[1], p[2], ahi, bhi)>> :
                 p \in {q \in (alo..(ahi - 1)) \X (blo..(bhi - 1)) : a[q[1]] = b[q[2]]}}
      better(r, s) == \/ r[3] > s[3]
                      \/ r[3] = s[3] /\ (r[1] < s[1] \/ (r[1] = s[1] /\ r[2] <= s[2]))
  IN IF runs = {} THEN <<alo, blo, 0>>
     ELSE CHOOSE r \in runs : \A s \in runs : better(r, s)

RECURSIVE BlocksIn(_, _, _, _, _, _)
BlocksIn(a, b, alo, ahi, blo, bhi) ==
  LET r == LongestMatch(a, b, alo, ahi, blo, bhi)
  IN IF r[3] = 0 THEN <<>>
     ELSE BlocksIn(a, b, alo, r[1], blo, r[2]) \o <<r>>
          \o BlocksIn(a, b, r[1] + r[3], ahi, r[2] + r[3], bhi)

\* get_matching_blocks: <<i, j, size>> in order.
MatchingBlocks(a, b) == BlocksIn(a, b, 1, Len(a) + 1, 1, Len(b) + 1)

\* Between two matching blocks lies what b replaced, inserted or left out.
OpcodesOf(m) ==
  LET afterA(n) == IF n = 1 THEN 1 ELSE m[n - 1][1] + m[n - 1][3]
      afterB(n) == IF n = 1 THEN 1 ELSE m[n - 1][2] + m[n - 1][3]
      gap(n) == <<IF afterA(n) = m[n][1] THEN "insert"
                  ELSE IF afterB(n) = m[n][2] THEN "delete" ELSE "replace",
                  afterA(n), m[n][1] - 1, afterB(n), m[n][2] - 1>>
  IN {gap(n) : n \in {k \in DOMAIN m : afterA(k) < m[k][1] \/ afterB(k) < m[k][2]}}
     \cup {<<"equal", r[1], r[1] + r[3] - 1, r[2], r[2] + r[3] - 1>> :
             r \in {m[n] : n \in 1..(Len(m) - 1)}}

\* get_opcodes: each is <<tag, a's first, a's last, b's first, b's last>>.
Opcodes(a, b) == OpcodesOf(MatchingBlocks(a, b) \o <<<<Len(a) + 1, Len(b) + 1, 0>>>>)

------------------------------------------------------------------------------
(* SectionLayout                                                            *)

\* UNKEYED_SECTION
Unkeyed == "unkeyed"

\* SectionLayout.of: each unit of each section's text, and whose it is.
LayoutOf(layout, UnitsOf(_)) ==
  [units |-> Concat([n \in DOMAIN layout |-> UnitsOf(layout[n].text)]),
   keys  |-> Concat([n \in DOMAIN layout |->
                           [u \in DOMAIN UnitsOf(layout[n].text) |-> layout[n].key]]),
   fallback |-> IF layout = <<>> THEN Unkeyed ELSE layout[1].key]

\* Mutant: what is inserted goes with what stands before it.
KeyBefore(shape, position) ==
  IF shape.keys = <<>> THEN shape.fallback
  ELSE shape.keys[IF position = 1 THEN 1 ELSE position - 1]

\* key_of_inserted: what opens a section goes with it, the rest with what
\* stands before.
KeyOfInserted(shape, position) ==
  IF shape.keys = <<>> THEN shape.fallback
  ELSE IF position <= Len(shape.keys)
          /\ (position = 1 \/ shape.keys[position] # shape.keys[position - 1])
       THEN shape.keys[position]
       ELSE shape.keys[position - 1]

\* The key of every unit read now, and whether it is as published, by the
\* opcodes that lead to it.
PlacedBy(changes, shape, actual) ==
  LET over(u) == CHOOSE c \in changes : c[4] <= u /\ u <= c[5]
      of(c, u) ==
        CASE c[1] = "equal"   -> <<shape.keys[c[2] + (u - c[4])], "published">>
          [] c[1] = "replace" -> <<shape.keys[c[2] + (((u - c[4]) * (c[3] - c[2] + 1))
                                                      \div (c[5] - c[4] + 1))], "added">>
          [] OTHER            -> <<KeyOfInserted(shape, c[2]), "added">>
  IN [u \in DOMAIN actual |-> of(over(u), u)]

\* placed
Placed(shape, actual) == PlacedBy(Opcodes(shape.units, actual), shape, actual)

\* _placed_lines, _Keying.content: the units that read as something, by where
\* they stand, and every other unit under the key of the one above it.
KeyedUnits(found, fallback, n) ==
  LET first == IF DOMAIN found = {} THEN fallback
               ELSE found[CHOOSE u \in DOMAIN found : \A v \in DOMAIN found : u <= v][1]
  IN FoldLeft(LAMBDA done, u :
                Append(done, IF u \in DOMAIN found THEN found[u]
                             ELSE <<IF done = <<>> THEN first ELSE done[Len(done)][1],
                                    "unaligned">>),
              <<>>, [u \in 1..n |-> u])

\* Where the units that align stand, and what each reads as there.
Found(shape, actual, aligned) ==
  LET Spread(placed) == [u \in {aligned[i] : i \in DOMAIN aligned} |->
                           placed[CHOOSE i \in DOMAIN aligned : aligned[i] = u]]
  IN Spread(Evaluated(Placed(shape, Evaluated([i \in DOMAIN aligned |-> actual[aligned[i]]]))))

==============================================================================
