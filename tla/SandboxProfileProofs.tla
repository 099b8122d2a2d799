------------------------ MODULE SandboxProfileProofs ------------------------
(***************************************************************************)
(* What holds of SandboxProfile for every set of command lines, operations *)
(* and network files: whatever is resolved is a profile, the two           *)
(* translations of a profile agree, the profiles form a ladder, a          *)
(* suggested profile helps, and flags on top of deny-all grant what they   *)
(* name.                                                                   *)
(***************************************************************************)
EXTENDS SandboxProfile, TLAPS, FiniteSetTheorems

-----------------------------------------------------------------------------
(* Matching.  A pattern is matched by a table that is filled from its last segment *)
(* to its first; for the pattern of a tree the table is known in closed form, and  *)
(* by induction on the distance from the end there is no other.                    *)

\* Induction over the naturals, for a set.  A counterexample m is ruled out by counting: from T, the numbers
\* up to m outside S, the predecessor function leads into a smaller set.
LEMMA SetInduction ==
  ASSUME NEW S, 0 \in S, \A n \in Nat : n \in S => n + 1 \in S
  PROVE  Nat \subseteq S
<1> SUFFICES ASSUME NEW m \in Nat, m \notin S PROVE FALSE
  OBVIOUS
<1> DEFINE I == 0 .. m
           T == I \ S
           U == T \ {m}
           g == [x \in T |-> x - 1]
<1>1. IsFiniteSet(T)
  <2>1. IsFiniteSet(I)
    BY FS_Interval
  <2>2. T \in SUBSET I
    OBVIOUS
  <2> HIDE DEF T, I
  <2> QED BY <2>1, <2>2, FS_Subset
<1>2. IsFiniteSet(U) /\ Cardinality(U) < Cardinality(T)
  <2>1. m \in T
    OBVIOUS
  <2>2. U \in SUBSET T /\ U # T
    BY <2>1
  <2>3. Cardinality(T) \in Nat
    BY <1>1, FS_CardinalityType
  <2> HIDE DEF T, U
  <2>4. IsFiniteSet(U) /\ Cardinality(U) <= Cardinality(T) /\ Cardinality(U) # Cardinality(T)
    BY <1>1, <2>2, FS_Subset
  <2>5. Cardinality(U) \in Nat
    BY <2>4, FS_CardinalityType
  <2> QED BY <2>3, <2>4, <2>5
<1>3. g \in [T -> U]
  <2> SUFFICES ASSUME NEW x \in T PROVE x - 1 \in U
    OBVIOUS
  <2>1. x # 0 /\ x - 1 \in Nat /\ x - 1 <= m /\ x - 1 # m /\ x \notin S
    OBVIOUS
  <2>2. x - 1 \notin S
    BY <2>1
  <2> QED BY <2>1, <2>2
<1>4. \E x, y \in T : x # y /\ g[x] = g[y]
  <2> HIDE DEF T, U, g
  <2> QED BY <1>1, <1>2, <1>3, FS_PigeonHole
<1> QED BY <1>4

\* What the value of the match at (i, j) is made of.
Step(f, pattern, path, i, j) ==
  IF i > Len(pattern) THEN j > Len(path)
  ELSE IF pattern[i] = "**"
       THEN i = Len(pattern) \/ \E k \in j .. Len(path) + 1 : f[i + 1][k]
       ELSE j <= Len(path) /\ SegmentMatches(pattern[i], path[j]) /\ f[i + 1][j + 1]

Fits(f, pattern, path) ==
  f = [i \in 1 .. Len(pattern) + 1 |-> [j \in 1 .. Len(path) + 1 |-> Step(f, pattern, path, i, j)]]

Match(pattern, path) == CHOOSE f : Fits(f, pattern, path)

LEMMA MatchIs ==
  ASSUME NEW pattern, NEW path
  PROVE MatchSegments(pattern, path) = Match(pattern, path)[1][1]
  BY DEF MatchSegments, Match, Fits, Step

LEMMA MatchFits ==
  ASSUME NEW pattern, NEW path, NEW f, Fits(f, pattern, path)
  PROVE Fits(Match(pattern, path), pattern, path)
<1>1. \E g : Fits(g, pattern, path)
  OBVIOUS
<1> QED BY <1>1, Zenon DEF Match

LEMMA FitsAt ==
  ASSUME NEW pattern, NEW path, NEW f, Fits(f, pattern, path),
         NEW i \in 1 .. Len(pattern) + 1, NEW j \in 1 .. Len(path) + 1
  PROVE  f[i][j] = Step(f, pattern, path, i, j)
<1> DEFINE row(k) == [l \in 1 .. Len(path) + 1 |-> Step(f, pattern, path, k, l)]
<1>1. f = [k \in 1 .. Len(pattern) + 1 |-> row(k)]
  BY DEF Fits
<1>2. f[i] = row(i)
  <2> HIDE DEF row
  <2> QED BY <1>1
<1>3. row(i)[j] = Step(f, pattern, path, i, j)
  OBVIOUS
<1> QED BY <1>2, <1>3

-----------------------------------------------------------------------------
(* A tree: a path without wildcards, and ** after it.                            *)

\* The rest of p from its i-th segment is what path has from its j-th.
Ahead(p, path, i, j) ==
  /\ j - i + Len(p) <= Len(path)
  /\ \A k \in i .. Len(p) : p[k] = path[k - i + j]

LEMMA TreePattern ==
  ASSUME NEW p, Plain(p)
  PROVE  /\ Len(p) \in Nat \ {0} /\ Len(p \o <<"**">>) = Len(p) + 1
         /\ DOMAIN (p \o <<"**">>) = 1 .. Len(p) + 1
         /\ \A i \in 1 .. Len(p) : /\ (p \o <<"**">>)[i] = p[i]
                                   /\ p[i] \notin {"*", "**"}
         /\ (p \o <<"**">>)[Len(p) + 1] = "**"
<1> DEFINE S == Segment \cup {"**"}
<1>1. p \in Seq(S) /\ <<"**">> \in Seq(S) /\ p # <<>> /\ Len(<<"**">>) = 1
  BY DEF Plain
<1> HIDE DEF S
<1> QED BY <1>1 DEF Plain

LEMMA AheadStep ==
  ASSUME NEW p, Plain(p), NEW path \in Seq(Segment), NEW i \in 1 .. Len(p), NEW j \in 1 .. Len(path) + 1
  PROVE  Ahead(p, path, i, j) <=> j <= Len(path) /\ p[i] = path[j] /\ Ahead(p, path, i + 1, j + 1)
<1> Len(p) \in Nat /\ Len(path) \in Nat
  BY DEF Plain
<1>1. ASSUME Ahead(p, path, i, j) PROVE j <= Len(path) /\ p[i] = path[j] /\ Ahead(p, path, i + 1, j + 1)
  <2>1. p[i] = path[i - i + j] /\ j <= Len(path)
    BY <1>1 DEF Ahead
  <2>2. ASSUME NEW k \in i + 1 .. Len(p) PROVE p[k] = path[k - (i + 1) + (j + 1)]
    <3>1. k \in i .. Len(p) /\ k - (i + 1) + (j + 1) = k - i + j
      OBVIOUS
    <3> QED BY <1>1, <3>1 DEF Ahead
  <2> QED BY <1>1, <2>1, <2>2 DEF Ahead
<1>2. ASSUME j <= Len(path), p[i] = path[j], Ahead(p, path, i + 1, j + 1) PROVE Ahead(p, path, i, j)
  <2>1. ASSUME NEW k \in i .. Len(p) PROVE p[k] = path[k - i + j]
    <3>1. CASE k = i
      BY <1>2, <3>1
    <3>2. CASE k # i
      <4>1. k \in i + 1 .. Len(p) /\ k - (i + 1) + (j + 1) = k - i + j
        BY <3>2
      <4> QED BY <1>2, <4>1 DEF Ahead
    <3> QED BY <3>1, <3>2
  <2> QED BY <1>2, <2>1 DEF Ahead
<1> QED BY <1>1, <1>2

\* A function that is what the match is made of: Ahead, as long as there is something ahead.
LEMMA TreeFits ==
  ASSUME NEW p, Plain(p), NEW path \in Seq(Segment)
  PROVE  \E f : Fits(f, p \o <<"**">>, path)
<1> DEFINE q == p \o <<"**">>
           value(i, j) == IF i > Len(p) + 1 THEN j > Len(path) ELSE i = Len(p) + 1 \/ Ahead(p, path, i, j)
           f == [i \in 1 .. Len(q) + 1 |-> [j \in 1 .. Len(path) + 1 |-> value(i, j)]]
<1>1. /\ Len(p) \in Nat \ {0} /\ Len(q) = Len(p) + 1 /\ Len(path) \in Nat /\ q[Len(p) + 1] = "**"
      /\ \A i \in 1 .. Len(p) : q[i] = p[i] /\ p[i] \notin {"*", "**"}
  BY TreePattern
<1>2. ASSUME NEW i \in 1 .. Len(q) + 1, NEW j \in 1 .. Len(path) + 1
      PROVE  f[i][j] = value(i, j)
  <2> HIDE DEF value
  <2> QED OBVIOUS
<1>3. ASSUME NEW i \in 1 .. Len(q) + 1, NEW j \in 1 .. Len(path) + 1
      PROVE  value(i, j) = Step(f, q, path, i, j)
  <2> HIDE DEF q, f
  <2>1. CASE i = Len(q) + 1
    BY <1>1, <2>1 DEF Step
  <2>2. CASE i = Len(q)
    BY <1>1, <2>2 DEF Step
  <2>3. CASE i < Len(q)
    <3>1. i \in 1 .. Len(p) /\ i \in Nat /\ i + 1 \in 1 .. Len(q) + 1 /\ i + 1 <= Len(p) + 1
      BY <1>1, <2>3
    <3>2. value(i, j) <=> Ahead(p, path, i, j)
      BY <1>1, <3>1
    <3>3. Step(f, q, path, i, j) <=> j <= Len(path) /\ p[i] = path[j] /\ f[i + 1][j + 1]
      BY <1>1, <3>1 DEF Step, SegmentMatches
    <3>4. ASSUME j <= Len(path) PROVE f[i + 1][j + 1] <=> Ahead(p, path, i + 1, j + 1)
      <4>1. j + 1 \in 1 .. Len(path) + 1
        BY <1>1, <3>4
      <4>2. f[i + 1][j + 1] <=> value(i + 1, j + 1)
        BY <1>2, <3>1, <4>1
      <4>3. CASE i + 1 = Len(p) + 1
        BY <1>1, <3>1, <3>4, <4>2, <4>3 DEF Ahead
      <4>4. CASE i + 1 # Len(p) + 1
        BY <1>1, <3>1, <4>2, <4>4
      <4> QED BY <4>3, <4>4
    <3>5. Step(f, q, path, i, j) \in BOOLEAN /\ value(i, j) \in BOOLEAN
      <4>1. ~(i > Len(q)) /\ q[i] # "**" /\ ~(i > Len(p) + 1)
        BY <1>1, <3>1
      <4>2. value(i, j) = (i = Len(p) + 1 \/ Ahead(p, path, i, j))
        BY <4>1
      <4>3. Step(f, q, path, i, j) = (j <= Len(path) /\ SegmentMatches(q[i], path[j]) /\ f[i + 1][j + 1])
        BY <4>1, Zenon DEF Step
      <4> HIDE DEF value
      <4> QED BY <4>2, <4>3, Zenon
    <3>6. Ahead(p, path, i, j) <=> j <= Len(path) /\ p[i] = path[j] /\ Ahead(p, path, i + 1, j + 1)
      BY <3>1, AheadStep
    <3> HIDE DEF value
    <3>7. value(i, j) <=> Step(f, q, path, i, j)
      BY <3>2, <3>3, <3>4, <3>6
    <3> QED BY <3>5, <3>7
  <2> QED BY <1>1, <2>1, <2>2, <2>3
<1>4. f = [i \in 1 .. Len(q) + 1 |-> [j \in 1 .. Len(path) + 1 |-> Step(f, q, path, i, j)]]
  BY <1>3
<1> QED BY <1>4 DEF Fits

\* Whatever function the match is, what it says of the start of a path.
LEMMA TreeAhead ==
  ASSUME NEW p, Plain(p), NEW path \in Seq(Segment), NEW f, Fits(f, p \o <<"**">>, path)
  PROVE  f[1][1] <=> Ahead(p, path, 1, 1)
<1> DEFINE q == p \o <<"**">>
           Good(i) == \A j \in 1 .. Len(path) + 1 : f[i][j] <=> (i = Len(p) + 1 \/ Ahead(p, path, i, j))
           S == {n \in Nat : \A i \in 1 .. Len(p) + 1 : i + n = Len(p) + 1 => Good(i)}
<1>1. /\ Len(p) \in Nat \ {0} /\ Len(q) = Len(p) + 1 /\ Len(path) \in Nat /\ q[Len(p) + 1] = "**"
      /\ \A i \in 1 .. Len(p) : q[i] = p[i] /\ p[i] \notin {"*", "**"}
  BY TreePattern
<1>0. \A i \in 1 .. Len(q) + 1, j \in 1 .. Len(path) + 1 : f[i][j] = Step(f, q, path, i, j)
  <2>1. Fits(f, q, path)
    OBVIOUS
  <2> HIDE DEF q
  <2> QED BY <2>1, FitsAt
<1>2. Good(Len(p) + 1)
  <2> SUFFICES ASSUME NEW j \in 1 .. Len(path) + 1 PROVE f[Len(p) + 1][j]
    OBVIOUS
  <2>1. f[Len(p) + 1][j] = Step(f, q, path, Len(p) + 1, j)
    <3>1. Len(p) + 1 \in 1 .. Len(q) + 1
      BY <1>1
    <3> HIDE DEF q
    <3> QED BY <1>0, <3>1
  <2> HIDE DEF q
  <2>2. Step(f, q, path, Len(p) + 1, j)
    BY <1>1 DEF Step
  <2> QED BY <2>1, <2>2
<1>3. ASSUME NEW i \in 1 .. Len(p), Good(i + 1) PROVE Good(i)
  <2> SUFFICES ASSUME NEW j \in 1 .. Len(path) + 1 PROVE f[i][j] <=> Ahead(p, path, i, j)
    BY <1>1
  <2>1. f[i][j] = Step(f, q, path, i, j)
    <3>1. i \in 1 .. Len(q) + 1
      BY <1>1
    <3> HIDE DEF q
    <3> QED BY <1>0, <3>1
  <2>2. ~(i > Len(q)) /\ q[i] # "**" /\ q[i] = p[i] /\ i \in Nat
    BY <1>1
  <2> HIDE DEF q
  <2>3. Step(f, q, path, i, j) <=> j <= Len(path) /\ p[i] = path[j] /\ f[i + 1][j + 1]
    BY <1>1, <2>2 DEF Step, SegmentMatches
  <2>4. ASSUME j <= Len(path) PROVE f[i + 1][j + 1] <=> Ahead(p, path, i + 1, j + 1)
    <3>1. j + 1 \in 1 .. Len(path) + 1
      BY <1>1, <2>4
    <3>2. f[i + 1][j + 1] <=> (i + 1 = Len(p) + 1 \/ Ahead(p, path, i + 1, j + 1))
      BY <1>3, <3>1
    <3>3. i + 1 = Len(p) + 1 => Ahead(p, path, i + 1, j + 1)
      BY <1>1, <2>4 DEF Ahead
    <3> QED BY <3>2, <3>3
  <2>5. Ahead(p, path, i, j) <=> j <= Len(path) /\ p[i] = path[j] /\ Ahead(p, path, i + 1, j + 1)
    BY AheadStep
  <2> QED BY <2>1, <2>3, <2>4, <2>5
<1>4. 0 \in S
  <2> HIDE DEF Good
  <2> QED BY <1>1, <1>2
<1>5. ASSUME NEW n \in Nat, n \in S PROVE n + 1 \in S
  <2> HIDE DEF Good
  <2> SUFFICES ASSUME NEW i \in 1 .. Len(p) + 1, i + (n + 1) = Len(p) + 1 PROVE Good(i)
    OBVIOUS
  <2>1. i \in 1 .. Len(p) /\ i + 1 \in 1 .. Len(p) + 1 /\ (i + 1) + n = Len(p) + 1
    BY <1>1
  <2> QED BY <1>3, <1>5, <2>1
<1>6. Len(p) \in S
  <2> HIDE DEF S
  <2>1. Nat \subseteq S
    BY <1>4, <1>5, SetInduction
  <2> QED BY <1>1, <2>1
<1>7. Good(1)
  <2> HIDE DEF Good
  <2>1. 1 \in 1 .. Len(p) + 1 /\ 1 + Len(p) = Len(p) + 1
    BY <1>1
  <2> QED BY <1>6, <2>1
<1>8. 1 \in 1 .. Len(path) + 1 /\ 1 # Len(p) + 1
  BY <1>1
<1> QED BY <1>7, <1>8

LEMMA PrefixAhead ==
  ASSUME NEW p, Plain(p), NEW path \in Seq(Segment)
  PROVE  Ahead(p, path, 1, 1) <=> IsPrefix(p, path)
<1>1. Len(p) \in Nat /\ Len(path) \in Nat /\ p \in Seq(Segment)
  BY DEF Plain
<1>2. Ahead(p, path, 1, 1) <=> Len(p) <= Len(path) /\ \A k \in 1 .. Len(p) : p[k] = path[k]
  BY <1>1 DEF Ahead
<1>3. ASSUME Len(p) <= Len(path)
      PROVE  SubSeq(p, 1, Len(p)) = SubSeq(path, 1, Len(p)) <=> \A k \in 1 .. Len(p) : p[k] = path[k]
  <2> DEFINE u == SubSeq(p, 1, Len(p))
             v == SubSeq(path, 1, Len(p))
  <2>1. /\ u \in Seq(Segment) /\ v \in Seq(Segment) /\ Len(u) = Len(p) /\ Len(v) = Len(p)
        /\ \A k \in 1 .. Len(p) : u[k] = p[k] /\ v[k] = path[k]
    BY <1>1, <1>3
  <2> HIDE DEF u, v
  <2>2. u = v <=> \A k \in 1 .. Len(p) : u[k] = v[k]
    BY <1>1, <2>1
  <2> QED BY <2>1, <2>2 DEF u, v
<1> QED BY <1>1, <1>2, <1>3 DEF IsPrefix

\* A pattern that is a tree matches the paths that begin with its path.
LEMMA TreeMatches ==
  ASSUME NEW p, Plain(p), NEW path \in Seq(Segment)
  PROVE  MatchSegments(p \o <<"**">>, path) <=> IsPrefix(p, path)
<1> DEFINE f == Match(p \o <<"**">>, path)
<1>1. Fits(f, p \o <<"**">>, path)
  BY TreeFits, MatchFits
<1> HIDE DEF f
<1>2. f[1][1] <=> Ahead(p, path, 1, 1)
  BY <1>1, TreeAhead
<1> QED BY <1>2, MatchIs, PrefixAhead DEF f

LEMMA PlainFacts ==
  ASSUME NEW p, Plain(p)
  PROVE  /\ p \in Seq(Segment) /\ p # <<>> /\ Len(p) \in Nat \ {0} /\ DOMAIN p = 1 .. Len(p)
         /\ Head(p) = p[1] /\ \A i \in 1 .. Len(p) : p[i] \notin {"*", "**"}
  BY DEF Plain

LEMMA EmptyFacts == Empty \notin {"*", "**", "."}
  BY Zenon DEF Empty

LEMMA CwdFacts == Plain(Cwd) /\ Cwd[1] = Empty /\ Empty \in Segment
<1>1. Plain(Cwd) /\ Head(Cwd) = Empty
  BY CwdAssumption DEF Absolute
<1> QED BY <1>1, PlainFacts

-----------------------------------------------------------------------------
(* What the rules of paths grant.                                                *)

FileOp(op) ==
  /\ op.module = "fs" /\ op.category \in {"read", "write", "delete"} /\ op.scheme = Empty
  /\ op.segs \in Seq(Segment) /\ op.segs # <<>> /\ Head(op.segs) = Empty

LEMMA ExpandPlain ==
  ASSUME NEW p, Plain(p) PROVE Plain(Expand(p))
<1>1. CASE Head(p) = "."
  <2> DEFINE t == Tail(p)
             e == Cwd \o t
  <2>1. /\ t \in Seq(Segment) /\ Len(t) \in Nat /\ Len(p) = Len(t) + 1
        /\ \A i \in 1 .. Len(t) : t[i] = p[i + 1]
    BY DEF Plain
  <2>2. Cwd \in Seq(Segment) /\ Len(Cwd) \in Nat \ {0} /\ \A i \in 1 .. Len(Cwd) : Cwd[i] \notin {"*", "**"}
    BY CwdFacts, PlainFacts
  <2>3. \A i \in 1 .. Len(t) : t[i] \notin {"*", "**"}
    BY <2>1 DEF Plain
  <2> HIDE DEF t
  <2>4. /\ e \in Seq(Segment) /\ Len(e) = Len(Cwd) + Len(t)
        /\ \A i \in 1 .. Len(e) : e[i] = IF i <= Len(Cwd) THEN Cwd[i] ELSE t[i - Len(Cwd)]
    BY <2>1, <2>2
  <2> HIDE DEF e
  <2>5. ASSUME NEW i \in 1 .. Len(e) PROVE e[i] \notin {"*", "**"}
    <3>1. CASE i <= Len(Cwd)
      BY <2>2, <2>4, <3>1
    <3>2. CASE i > Len(Cwd)
      <4>1. i - Len(Cwd) \in 1 .. Len(t)
        BY <2>1, <2>2, <2>4, <3>2
      <4> QED BY <2>2, <2>3, <2>4, <3>2, <4>1
    <3> QED BY <2>2, <3>1, <3>2
  <2>6. Plain(e)
    BY <2>1, <2>2, <2>4, <2>5 DEF Plain
  <2> QED BY <1>1, <2>6 DEF Expand, e, t
<1>2. CASE Head(p) # "."
  BY <1>2 DEF Expand
<1> QED BY <1>1, <1>2

\* What is expanded is not expanded again.
LEMMA ExpandHead ==
  ASSUME NEW p, Plain(p) PROVE Head(Expand(p)) # "."
<1>1. CASE Head(p) = "."
  <2>1. Cwd \in Seq(Segment) /\ Len(Cwd) \in Nat \ {0} /\ Cwd[1] = Empty
    BY CwdFacts, PlainFacts
  <2>2. Tail(p) \in Seq(Segment)
    BY PlainFacts
  <2> HIDE DEF Expand
  <2>3. /\ (Cwd \o Tail(p))[1] = Empty /\ Cwd \o Tail(p) # <<>> /\ Cwd \o Tail(p) \in Seq(Segment)
    BY <2>1, <2>2
  <2>4. Head(Cwd \o Tail(p)) = Empty
    BY <2>3
  <2> QED BY <1>1, <2>4, EmptyFacts DEF Expand
<1> QED BY <1>1 DEF Expand

\* Where a mount is shown: a path that is not expanded again.
Place(p) == Plain(p) /\ Head(p) # "."

LEMMA AbsoluteIsPlace == ASSUME NEW p, Absolute(p) PROVE Place(p)
  BY EmptyFacts DEF Absolute, Place

LEMMA ExpandIsPlace == ASSUME NEW p, Plain(p) PROVE Place(Expand(p))
  BY ExpandPlain, ExpandHead DEF Place

LEMMA PlaceExpand == ASSUME NEW p, Place(p) PROVE Plain(p) /\ Expand(p) = p
  BY DEF Place, Expand

\* An operation on a path of the local machine.
PathOp(op) ==
  /\ op.module # "os" /\ op.scheme = Empty
  /\ op.segs \in Seq(Segment) /\ op.segs # <<>> /\ Head(op.segs) = Empty

LEMMA FileOpIsPathOp == ASSUME NEW op, FileOp(op) PROVE PathOp(op)
  BY DEF FileOp, PathOp

LEMMA TreePatternMatches ==
  ASSUME NEW e, Plain(e), NEW op, PathOp(op)
  PROVE  ResourceMatches(Tree(e), op) <=> Under(op.segs, e)
<1> DEFINE q == Tree(e)
           root == e = Root
<1>1. op.segs \in Seq(Segment) /\ Len(op.segs) \in Nat \ {0} /\ op.segs[1] = Empty
  BY DEF PathOp
<1>2. Plain(<<Empty>>)
  <2>1. <<Empty>> \in Seq(Segment) /\ <<Empty>> # <<>> /\ DOMAIN <<Empty>> = {1} /\ <<Empty>>[1] = Empty
    BY CwdFacts
  <2> QED BY <2>1, EmptyFacts DEF Plain
<1>3. PICK base : Plain(base) /\ q = base \o <<"**">> /\ (IF root THEN base = <<Empty>> ELSE base = e)
  <2>1. CASE root
    <3>1. q = <<Empty>> \o <<"**">>
      BY <2>1 DEF Tree
    <3> QED BY <1>2, <2>1, <3>1
  <2>2. CASE ~root
    BY <2>2 DEF Tree
  <2> QED BY <2>1, <2>2
<1>4. /\ Len(base) \in Nat \ {0} /\ Len(q) = Len(base) + 1 /\ q[Len(base) + 1] = "**"
      /\ \A i \in 1 .. Len(base) : q[i] = base[i] /\ base[i] \notin {"*", "**"}
      /\ DOMAIN q = 1 .. Len(q)
  BY <1>3, TreePattern
<1>5. IsPrefix(base, op.segs) <=> Under(op.segs, e)
  <2>1. CASE root
    <3>1. base = <<Empty>> /\ Len(base) = 1 /\ base[1] = Empty /\ Under(op.segs, e)
      BY <1>3, <2>1 DEF Under
    <3>2. Ahead(base, op.segs, 1, 1)
      BY <1>1, <3>1 DEF Ahead
    <3> QED BY <1>1, <1>3, <3>1, <3>2, PrefixAhead
  <2>2. CASE ~root
    BY <1>3, <2>2 DEF Under
  <2> QED BY <2>1, <2>2
<1>6. MatchSegments(q, op.segs) <=> IsPrefix(base, op.segs)
  BY <1>1, <1>3, TreeMatches
<1>7. "**" \in ToSet(q)
  BY <1>4 DEF ToSet
<1>8. ASSUME Len(q) = Len(op.segs), \A i \in DOMAIN q : SegmentMatches(q[i], op.segs[i])
      PROVE  IsPrefix(base, op.segs)
  <2>1. \A i \in 1 .. Len(base) : base[i] = op.segs[i]
    BY <1>4, <1>8 DEF SegmentMatches
  <2>2. Ahead(base, op.segs, 1, 1)
    BY <1>1, <1>4, <1>8, <2>1 DEF Ahead
  <2> QED BY <1>1, <1>3, <2>2, PrefixAhead
<1>9. q \notin {<<"*">>, <<"**">>}
  BY <1>4
<1>10. ~IsBinaryOf(q, op) /\ op.scheme = Empty
  BY DEF IsBinaryOf, PathOp
<1> HIDE DEF q
<1>11. ResourceMatches(q, op) <=> IsPrefix(base, op.segs)
  BY <1>6, <1>7, <1>8, <1>9, <1>10 DEF ResourceMatches
<1> QED BY <1>5, <1>11 DEF q

\* The path itself, which for every path but the root is a rule of its own.
LEMMA PathPatternMatches ==
  ASSUME NEW e, Plain(e), NEW op, FileOp(op), ResourceMatches(e, op)
  PROVE  Under(op.segs, e)
<1>1. /\ op.segs \in Seq(Segment) /\ Len(op.segs) \in Nat
      /\ e \in Seq(Segment) /\ Len(e) \in Nat \ {0} /\ \A i \in 1 .. Len(e) : e[i] \notin {"*", "**"}
  BY PlainFacts DEF FileOp
<1>2. e \notin {<<"*">>, <<"**">>} /\ "**" \notin ToSet(e)
  BY <1>1 DEF ToSet
<1>3. ~IsBinaryOf(e, op)
  BY DEF IsBinaryOf, FileOp
<1>4. Len(e) = Len(op.segs) /\ \A i \in DOMAIN e : SegmentMatches(e[i], op.segs[i])
  BY <1>2, <1>3 DEF ResourceMatches
<1>5. \A i \in 1 .. Len(e) : e[i] = op.segs[i]
  BY <1>1, <1>4 DEF SegmentMatches
<1>6. Ahead(e, op.segs, 1, 1)
  BY <1>1, <1>4, <1>5 DEF Ahead
<1> QED BY <1>1, <1>6, PrefixAhead DEF Under

LEMMA TreeRulesGrant ==
  ASSUME NEW e, Plain(e), NEW op, FileOp(op), NEW category \in {"read", "write", "delete"}
  PROVE  MatchesOneOf(TreeRules(category, e), op) <=> op.category = category /\ Under(op.segs, e)
<1> DEFINE tree == ParseRule("fs", category, Empty, Tree(e))
           exact == ParseRule("fs", category, Empty, e)
<1>1. op.module = "fs" /\ op.segs # <<>> /\ e # <<>>
  BY DEF FileOp, Plain
<1>2. Tree(e) # <<>>
  <2>1. e \in Seq(Segment) /\ Len(e \o <<"**">>) = Len(e) + 1 /\ Len(e) \in Nat
    BY DEF Plain
  <2> QED BY <2>1 DEF Tree
<1>3. Matches(tree, op) <=> op.category = category /\ Under(op.segs, e)
  <2>1. Matches(tree, op) <=> op.category = category /\ ResourceMatches(Tree(e), op)
    BY <1>1, <1>2 DEF Matches, ParseRule, Rule
  <2> QED BY <2>1, FileOpIsPathOp, TreePatternMatches
<1>4. Matches(exact, op) => op.category = category /\ Under(op.segs, e)
  <2>1. Matches(exact, op) <=> op.category = category /\ ResourceMatches(e, op)
    BY <1>1 DEF Matches, ParseRule, Rule
  <2> QED BY <2>1, PathPatternMatches
<1>5. tree \in TreeRules(category, e) /\ \A r \in TreeRules(category, e) : r = tree \/ r = exact
  BY DEF TreeRules
<1> HIDE DEF tree, exact
<1> QED BY <1>3, <1>4, <1>5 DEF MatchesOneOf

LEMMA OneOfTwo ==
  ASSUME NEW R, NEW T, NEW op
  PROVE  MatchesOneOf(R \cup T, op) <=> MatchesOneOf(R, op) \/ MatchesOneOf(T, op)
  BY DEF MatchesOneOf

\* Rules about something else than files decide no file operation.
LEMMA Elsewhere ==
  ASSUME NEW R, NEW op, FileOp(op), \A r \in R : r.module \notin {"fs", "*"}
  PROVE  ~MatchesOneOf(R, op)
  BY DEF MatchesOneOf, Matches, FileOp

LEMMA ReadRulesGrant ==
  ASSUME NEW P, \A p \in P : Plain(p), NEW op, FileOp(op)
  PROVE  MatchesOneOf(PathReadRules(P), op) <=> op.category = "read" /\ UnderOneOf(op.segs, P)
<1> DEFINE sql(p) == ParseRule("sql", "open", "sqlite", Tree(Expand(p)))
           rules(p) == TreeRules("read", Expand(p)) \cup {sql(p)}
<1>1. ASSUME NEW p \in P
      PROVE  MatchesOneOf(rules(p), op) <=> op.category = "read" /\ Under(op.segs, Expand(p))
  <2>1. ~MatchesOneOf({sql(p)}, op)
    BY Elsewhere DEF ParseRule, Rule
  <2>2. MatchesOneOf(TreeRules("read", Expand(p)), op) <=> op.category = "read" /\ Under(op.segs, Expand(p))
    BY ExpandPlain, TreeRulesGrant
  <2> HIDE DEF sql
  <2> QED BY <2>1, <2>2, OneOfTwo
<1>2. PathReadRules(P) = UNION {rules(p) : p \in P}
  BY DEF PathReadRules
<1> HIDE DEF rules
<1>3. MatchesOneOf(PathReadRules(P), op) <=> \E p \in P : MatchesOneOf(rules(p), op)
  BY <1>2 DEF MatchesOneOf
<1> QED BY <1>1, <1>3 DEF UnderOneOf

LEMMA WriteRulesGrant ==
  ASSUME NEW P, \A p \in P : Plain(p), NEW op, FileOp(op)
  PROVE  MatchesOneOf(PathWriteRules(P), op) <=> UnderOneOf(op.segs, P)
<1> DEFINE sql == ParseRule("sql", "open", "sqlite", Memory)
           trees(p) == TreeRules("write", Expand(p)) \cup TreeRules("delete", Expand(p))
           rules(p) == trees(p) \cup {sql}
           more == UNION {rules(p) : p \in P}
<1>1. ASSUME NEW p \in P
      PROVE  MatchesOneOf(rules(p), op) <=> op.category \in {"write", "delete"} /\ Under(op.segs, Expand(p))
  <2>1. ~MatchesOneOf({sql}, op)
    BY Elsewhere DEF ParseRule, Rule
  <2>2. /\ MatchesOneOf(TreeRules("write", Expand(p)), op) <=> op.category = "write" /\ Under(op.segs, Expand(p))
        /\ MatchesOneOf(TreeRules("delete", Expand(p)), op) <=> op.category = "delete" /\ Under(op.segs, Expand(p))
    BY ExpandPlain, TreeRulesGrant
  <2>3. MatchesOneOf(trees(p), op) <=> op.category \in {"write", "delete"} /\ Under(op.segs, Expand(p))
    BY <2>2, OneOfTwo
  <2> HIDE DEF sql, trees
  <2> QED BY <2>1, <2>3, OneOfTwo
<1>2. PathWriteRules(P) = PathReadRules(P) \cup more
  BY DEF PathWriteRules
<1> HIDE DEF rules
<1>3. MatchesOneOf(more, op) <=> \E p \in P : MatchesOneOf(rules(p), op)
  BY DEF MatchesOneOf
<1> HIDE DEF more
<1>4. MatchesOneOf(PathWriteRules(P), op) <=> MatchesOneOf(PathReadRules(P), op) \/ MatchesOneOf(more, op)
  BY <1>2, OneOfTwo
<1>5. op.category \in {"read", "write", "delete"}
  BY DEF FileOp
<1> QED BY <1>1, <1>3, <1>4, <1>5, ReadRulesGrant DEF UnderOneOf

\* What a mount shows at its destination d, and at its source.
ShownBy(path, d, m) == Under(path, d) \/ (m.type = "bind" /\ d # Tmp /\ Under(path, m.source))

LEMMA MountRulesGrant ==
  ASSUME NEW d, NEW m, Place(d), m.type = "bind" => Place(m.source), NEW op, FileOp(op)
  PROVE  MatchesOneOf(MountRules(d, m), op)
           <=> (m.mode = "rw" \/ op.category = "read") /\ ShownBy(op.segs, d, m)
<1> DEFINE paths == {d} \cup (IF m.type = "bind" /\ d # Tmp THEN {m.source} ELSE {})
<1>1. \A p \in paths : Plain(p) /\ Expand(p) = p
  BY PlaceExpand
<1>2. UnderOneOf(op.segs, paths) <=> ShownBy(op.segs, d, m)
  <2>1. UnderOneOf(op.segs, paths) <=> \E p \in paths : Under(op.segs, p)
    BY <1>1 DEF UnderOneOf
  <2> QED BY <2>1 DEF ShownBy
<1>3. MountRules(d, m) = IF m.mode = "rw" THEN PathWriteRules(paths) ELSE PathReadRules(paths)
  BY DEF MountRules
<1> HIDE DEF paths
<1>4. CASE m.mode = "rw"
  <2>1. MatchesOneOf(PathWriteRules(paths), op) <=> UnderOneOf(op.segs, paths)
    BY <1>1, WriteRulesGrant
  <2> QED BY <1>2, <1>3, <1>4, <2>1
<1>5. CASE m.mode # "rw"
  <2>1. MatchesOneOf(PathReadRules(paths), op) <=> op.category = "read" /\ UnderOneOf(op.segs, paths)
    BY <1>1, ReadRulesGrant
  <2> QED BY <1>2, <1>3, <1>5, <2>1
<1> QED BY <1>4, <1>5

-----------------------------------------------------------------------------
(* The rules that are not about files.                                           *)

LEMMA ExecElsewhere == \A bins : \A r \in ExecRules(bins) : r.module = "os"
  BY DEF ExecRules, Whole, ParseRule, Rule

LEMMA NetElsewhere ==
  ASSUME NEW endpoints PROVE \A r \in SynthesizeNetworkRules(endpoints) : r.module \notin {"fs", "*"}
<1>1. \A r \in SandboxNetRules : r.module \notin {"fs", "*"}
  BY DEF SandboxNetRules, Whole, ParseRule, Rule
<1>2. ASSUME NEW e PROVE \A r \in HttpRules(e) : r.module = "http"
  <2>1. CASE e.port = Empty
    BY <2>1 DEF HttpRules, ParseRule, Rule
  <2>2. CASE e.port = "443" /\ e.port # Empty
    BY <2>2 DEF HttpRules, ParseRule, Rule
  <2>3. CASE e.port = "80" /\ e.port # Empty
    BY <2>3 DEF HttpRules, ParseRule, Rule
  <2>4. CASE e.port \notin {Empty, "443", "80"}
    <3>1. e.port # Empty /\ e.port # "443" /\ e.port # "80"
      BY <2>4
    <3> DEFINE url == <<Empty, Empty, e.host \o ":" \o e.port, "*">>
    <3>2. HttpRules(e) = {ParseRule("http", "client", t, url) : t \in {"http", "https"}}
      BY <3>1, Zenon DEF HttpRules
    <3> HIDE DEF url
    <3> QED BY <3>2 DEF ParseRule, Rule
  <2> QED BY <2>1, <2>2, <2>3, <2>4
<1>3. ASSUME NEW e PROVE \A r \in LoginRules(e) : r.module \in {"ssh", "sql"}
  <2>1. \A r \in LoginRules(e) : \E d, t, l : r = ParseRule("ssh", "connect", d, l) \/ r = ParseRule("sql", "open", t, l)
    BY DEF LoginRules
  <2> QED BY <2>1 DEF ParseRule, Rule
<1> QED BY <1>1, <1>2, <1>3 DEF SynthesizeNetworkRules

LEMMA NetworkElsewhere ==
  ASSUME NEW p PROVE \A r \in NetworkRules(p) : r.module \notin {"fs", "*"}
<1>1. \A r \in SandboxNetRules : r.module \notin {"fs", "*"}
  BY DEF SandboxNetRules, Whole, ParseRule, Rule
<1>2. \A r \in LoopbackRules : r.module \notin {"fs", "*"}
  BY DEF LoopbackRules, Whole, ParseRule, Rule
<1>3. \A mode, endpoints : \A r \in NetworkAllowRules(mode, endpoints) : r.module \notin {"fs", "*"}
  BY <1>1, <1>2, NetElsewhere DEF NetworkAllowRules
<1> QED BY <1>3 DEF NetworkRules

LEMMA AmbientElsewhere ==
  ASSUME NEW p PROVE \A r \in AmbientRules(p) : r.module \notin {"fs", "*"}
  BY DEF AmbientRules, Whole, Rule

-----------------------------------------------------------------------------
(* Profiles.  Their mounts are at places, and every path they grant is mounted.   *)

Fields == {"enabled", "network", "netAllow", "netDeny", "mounts", "read", "write", "execAllow", "execDeny",
           "callAllow", "callDeny", "noExec", "execPaths"}

PlacesTyped(mounts) ==
  \A d \in DOMAIN mounts :
    /\ Place(d) /\ mounts[d].mode \in {"ro", "rw"}
    /\ mounts[d].type = "bind" => Place(mounts[d].source)

ProfileTyped(p) ==
  /\ DOMAIN p = Fields /\ p.enabled \in BOOLEAN /\ p.network \in Modes \ {Empty}
  /\ PathsTyped(p) /\ PlacesTyped(p.mounts)
  /\ \A q \in p.read \cup p.write : Expand(q) \in DOMAIN p.mounts

LEMMA ModeFacts == "none" \in Modes \ {Empty} /\ "host" \in Modes \ {Empty}
<1>1. "none" # Empty /\ "host" # Empty
  BY Zenon DEF Empty
<1> QED BY <1>1 DEF Modes

LEMMA MountsArePlaces ==
  ASSUME NEW mounts, MountsTyped(mounts) PROVE PlacesTyped(mounts)
  BY AbsoluteIsPlace DEF MountsTyped, PlacesTyped

LEMMA OverlayDomain ==
  ASSUME NEW f, NEW g
  PROVE  /\ DOMAIN (f ++ g) = DOMAIN f \cup DOMAIN g
         /\ \A x \in DOMAIN f : (f ++ g)[x] = f[x]
         /\ \A x \in DOMAIN g \ DOMAIN f : (f ++ g)[x] = g[x]
  BY DEF ++

LEMMA OverlayKeeps ==
  ASSUME NEW f, NEW g PROVE DOMAIN f \subseteq DOMAIN (f ++ g) /\ DOMAIN g \subseteq DOMAIN (f ++ g)
<1>1. DOMAIN (f ++ g) = DOMAIN f \cup DOMAIN g
  BY OverlayDomain
<1> QED BY <1>1

LEMMA Overlay ==
  ASSUME NEW f, NEW g, PlacesTyped(f), PlacesTyped(g) PROVE PlacesTyped(f ++ g)
<1> DEFINE h == f ++ g
<1>1. /\ DOMAIN h = DOMAIN f \cup DOMAIN g
      /\ \A x \in DOMAIN f : h[x] = f[x]
      /\ \A x \in DOMAIN g \ DOMAIN f : h[x] = g[x]
  BY OverlayDomain
<1> HIDE DEF h
<1>2. ASSUME NEW x \in DOMAIN h
      PROVE  Place(x) /\ h[x].mode \in {"ro", "rw"} /\ (h[x].type = "bind" => Place(h[x].source))
  BY <1>1 DEF PlacesTyped
<1> QED BY <1>2 DEF PlacesTyped, h

LEMMA TmpPlace == PlacesTyped(MountAt(Tmp, Tmpfs("rw"))) /\ Place(Tmp)
<1>1. Place(Tmp)
  BY AssetsAssumption, AbsoluteIsPlace
<1> QED BY <1>1 DEF PlacesTyped, Tmpfs, MountAt

LEMMA CwdPlace == Place(Cwd) /\ Expand(Cwd) = Cwd /\ PlacesTyped(MountAt(Cwd, Bind(Cwd, "rw")))
<1>1. Place(Cwd)
  BY CwdAssumption, AbsoluteIsPlace
<1> QED BY <1>1, PlaceExpand DEF PlacesTyped, Bind, MountAt

LEMMA CompiledPaths ==
  ASSUME NEW read, NEW write, NEW explicit, NEW base, \A q \in read \cup write : Plain(q),
         PlacesTyped(explicit), PlacesTyped(base)
  PROVE  /\ PlacesTyped(CompilePaths(read, write, explicit, base))
         /\ Tmp \in DOMAIN CompilePaths(read, write, explicit, base)
         /\ \A q \in read \cup write : Expand(q) \in DOMAIN CompilePaths(read, write, explicit, base)
<1> DEFINE writes == {Expand(p) : p \in write}
           reads  == {Expand(p) : p \in read}
           paths  == [p \in writes \cup reads |-> Bind(p, IF p \in writes THEN "rw" ELSE "ro")]
           tmp    == MountAt(Tmp, Tmpfs("rw"))
<1>1. CompilePaths(read, write, explicit, base) = explicit ++ (paths ++ (base ++ tmp))
  BY DEF CompilePaths
<1>2. PlacesTyped(paths)
  <2> SUFFICES ASSUME NEW p \in writes \cup reads
               PROVE  Place(p) /\ paths[p].mode \in {"ro", "rw"} /\ (paths[p].type = "bind" => Place(paths[p].source))
    BY DEF PlacesTyped
  <2>1. Place(p)
    BY ExpandIsPlace
  <2> QED BY <2>1 DEF Bind
<1>3. DOMAIN paths = writes \cup reads /\ Tmp \in DOMAIN tmp
  BY DEF MountAt
<1>4. \A q \in read \cup write : Expand(q) \in DOMAIN paths
  BY <1>3
<1> HIDE DEF paths, tmp
<1>5. PlacesTyped(tmp)
  BY TmpPlace DEF tmp
<1>6. PlacesTyped(base ++ tmp) /\ DOMAIN (base ++ tmp) = DOMAIN base \cup DOMAIN tmp
  BY <1>5, Overlay, OverlayDomain
<1>7. PlacesTyped(paths ++ (base ++ tmp)) /\ DOMAIN (paths ++ (base ++ tmp)) = DOMAIN paths \cup DOMAIN (base ++ tmp)
  BY <1>2, <1>6, Overlay, OverlayDomain
<1>8. /\ PlacesTyped(explicit ++ (paths ++ (base ++ tmp)))
      /\ DOMAIN (explicit ++ (paths ++ (base ++ tmp))) = DOMAIN explicit \cup DOMAIN (paths ++ (base ++ tmp))
  BY <1>7, Overlay, OverlayDomain
<1> QED BY <1>1, <1>3, <1>4, <1>6, <1>7, <1>8

LEMMA AssetMounts ==
  ASSUME NEW mounts, PlacesTyped(mounts)
  PROVE  /\ PlacesTyped(ResolveNetworkAssetMounts(mounts))
         /\ DOMAIN ResolveNetworkAssetMounts(mounts) = DOMAIN mounts \cup NetworkAssets
<1> DEFINE assets == [p \in NetworkAssets |-> Bind(p, "ro")]
<1>1. PlacesTyped(assets) /\ DOMAIN assets = NetworkAssets
  BY AssetsAssumption, AbsoluteIsPlace DEF PlacesTyped, Bind
<1> HIDE DEF assets
<1> QED BY <1>1, Overlay, OverlayDomain DEF ResolveNetworkAssetMounts, assets

\* The profiles that the built-in ones are made from.
LEMMA ZeroFields ==
  /\ DOMAIN ZeroProfile = Fields /\ ZeroProfile.enabled = FALSE
  /\ ZeroProfile.read = {} /\ ZeroProfile.write = {} /\ DOMAIN ZeroProfile.mounts = {}
  /\ ZeroProfile.netAllow = {} /\ ZeroProfile.netDeny = {} /\ ZeroProfile.callAllow = {} /\ ZeroProfile.callDeny = {}
  /\ ZeroProfile.execAllow = {} /\ ZeroProfile.execDeny = {} /\ ZeroProfile.execPaths = {} /\ ZeroProfile.noExec = FALSE
  BY DEF ZeroProfile, Fields

LEMMA InCwdFields ==
  /\ DOMAIN InCwd = Fields /\ InCwd.enabled = TRUE /\ InCwd.network = "none"
  /\ InCwd.read = {Cwd} /\ InCwd.write = {Cwd}
  /\ InCwd.mounts = MountAt(Cwd, Bind(Cwd, "rw")) ++ MountAt(Tmp, Tmpfs("rw"))
  /\ InCwd.netAllow = {} /\ InCwd.netDeny = {} /\ InCwd.callAllow = {} /\ InCwd.callDeny = {}
  /\ InCwd.execAllow = {} /\ InCwd.execDeny = {} /\ InCwd.execPaths = {} /\ InCwd.noExec = FALSE
  BY ZeroFields DEF InCwd, Fields

LEMMA InCwdMounts ==
  /\ PlacesTyped(InCwd.mounts) /\ DOMAIN InCwd.mounts = {Cwd, Tmp}
  /\ InCwd.mounts[Cwd] = Bind(Cwd, "rw") /\ (Tmp # Cwd => InCwd.mounts[Tmp] = Tmpfs("rw"))
<1> DEFINE f == MountAt(Cwd, Bind(Cwd, "rw"))
           g == MountAt(Tmp, Tmpfs("rw"))
<1>1. PlacesTyped(f) /\ DOMAIN f = {Cwd} /\ f[Cwd] = Bind(Cwd, "rw")
  BY CwdPlace DEF MountAt
<1>2. PlacesTyped(g) /\ DOMAIN g = {Tmp} /\ g[Tmp] = Tmpfs("rw")
  BY TmpPlace DEF MountAt
<1>3. InCwd.mounts = f ++ g
  BY InCwdFields
<1> HIDE DEF f, g
<1>4. /\ DOMAIN (f ++ g) = DOMAIN f \cup DOMAIN g
      /\ \A x \in DOMAIN f : (f ++ g)[x] = f[x]
      /\ \A x \in DOMAIN g \ DOMAIN f : (f ++ g)[x] = g[x]
  BY OverlayDomain
<1>5. PlacesTyped(f ++ g)
  BY <1>1, <1>2, Overlay
<1> QED BY <1>1, <1>2, <1>3, <1>4, <1>5

LEMMA BuiltinTyped ==
  ASSUME NEW name, IsBuiltin(name)
  PROVE  /\ ProfileTyped(LoadBuiltin(name))
         /\ name # "unconfined" => Tmp \in DOMAIN LoadBuiltin(name).mounts
<1> DEFINE p == LoadBuiltin(name)
<1>1. name \in {"deny-all", "sandbox-path", "sandbox-exec", "sandbox-net", "unconfined"}
  BY DEF IsBuiltin, Rungs, ToSet
<1>2. CASE name = "deny-all"
  <2>1. /\ DOMAIN p = Fields /\ p.enabled = TRUE /\ p.network = "none" /\ p.read = {} /\ p.write = {}
        /\ p.mounts = MountAt(Tmp, Tmpfs("rw"))
    BY <1>2, ZeroFields DEF LoadBuiltin, Fields
  <2>2. Tmp \in DOMAIN p.mounts
    BY <2>1 DEF MountAt
  <2> HIDE DEF p
  <2> QED BY <1>2, <2>1, <2>2, TmpPlace, ModeFacts DEF ProfileTyped, PathsTyped, p
<1>3. CASE name = "sandbox-path"
  <2>1. /\ DOMAIN p = Fields /\ p.enabled = TRUE /\ p.network = "none" /\ p.read = {Cwd} /\ p.write = {Cwd}
        /\ p.mounts = InCwd.mounts
    BY <1>3, InCwdFields DEF LoadBuiltin, Fields
  <2> HIDE DEF p
  <2> QED BY <1>3, <2>1, InCwdMounts, CwdPlace, ModeFacts DEF ProfileTyped, PathsTyped, Place, p
<1>4. CASE name = "sandbox-exec"
  <2>1. /\ DOMAIN p = Fields /\ p.enabled = TRUE /\ p.network = "none" /\ p.read = {Cwd} /\ p.write = {Cwd}
        /\ p.mounts = InCwd.mounts
    BY <1>4, InCwdFields DEF LoadBuiltin, Fields
  <2> HIDE DEF p
  <2> QED BY <1>4, <2>1, InCwdMounts, CwdPlace, ModeFacts DEF ProfileTyped, PathsTyped, Place, p
<1>5. CASE name = "sandbox-net"
  <2>1. /\ DOMAIN p = Fields /\ p.enabled = TRUE /\ p.network = "host" /\ p.read = {Cwd} /\ p.write = {Cwd}
        /\ p.mounts = ResolveNetworkAssetMounts(InCwd.mounts)
    BY <1>5, InCwdFields DEF LoadBuiltin, Fields
  <2>2. PlacesTyped(p.mounts) /\ Cwd \in DOMAIN p.mounts /\ Tmp \in DOMAIN p.mounts
    BY <2>1, InCwdMounts, AssetMounts
  <2> HIDE DEF p
  <2> QED BY <1>5, <2>1, <2>2, CwdPlace, ModeFacts DEF ProfileTyped, PathsTyped, Place, p
<1>6. CASE name = "unconfined"
  <2>1. /\ DOMAIN p = Fields /\ p.enabled = FALSE /\ p.network = "host" /\ p.read = {} /\ p.write = {}
        /\ DOMAIN p.mounts = {}
    BY <1>6, ZeroFields DEF LoadBuiltin, Fields
  <2> HIDE DEF p
  <2> QED BY <1>6, <2>1, ModeFacts DEF ProfileTyped, PathsTyped, PlacesTyped, p
<1> QED BY <1>1, <1>2, <1>3, <1>4, <1>5, <1>6

LEMMA BodyTyped ==
  ASSUME NEW body, SpecTyped(body), ~BodyRefused(body)
  PROVE  ProfileTyped(ProfileFromBody(body)) /\ Tmp \in DOMAIN ProfileFromBody(body).mounts
<1> DEFINE base == IF body.base = Empty THEN [ZeroProfile EXCEPT !.enabled = TRUE] ELSE LoadBuiltin(body.base)
           read == base.read \cup body.read
           write == base.write \cup body.write
           mounts == CompilePaths(read, write, body.mounts, base.mounts)
           p == ProfileFromBody(body)
<1>1. /\ base.enabled \in BOOLEAN /\ base.network \in Modes /\ \A q \in base.read \cup base.write : Plain(q)
      /\ PlacesTyped(base.mounts)
  <2>1. CASE body.base = Empty
    <3>1. /\ base.enabled = TRUE /\ base.network = Empty /\ base.read = {} /\ base.write = {}
          /\ DOMAIN base.mounts = {}
      BY <2>1 DEF ZeroProfile
    <3> HIDE DEF base
    <3> QED BY <3>1 DEF PlacesTyped, Modes
  <2>2. CASE body.base # Empty
    <3>1. IsBuiltin(body.base) /\ base = LoadBuiltin(body.base)
      BY <2>2 DEF BodyRefused
    <3> QED BY <3>1, BuiltinTyped DEF ProfileTyped, PathsTyped
  <2> QED BY <2>1, <2>2
<1>2. /\ body.enabled \in {"unset", "true", "false"} /\ body.network \in Modes
      /\ \A q \in body.read \cup body.write : Plain(q)
      /\ PlacesTyped(body.mounts)
  BY MountsArePlaces DEF SpecTyped, PathsTyped
<1> HIDE DEF base
<1>3. \A q \in read \cup write : Plain(q)
  BY <1>1, <1>2
<1>4. /\ DOMAIN p = Fields /\ p.read = read /\ p.write = write
      /\ p.enabled = IF body.enabled = "unset" THEN base.enabled ELSE body.enabled = "true"
      /\ p.mounts = mounts \/ p.mounts = ResolveNetworkAssetMounts(mounts)
  BY DEF ProfileFromBody, base, Fields
<1>5. p.network \in Modes \ {Empty}
  <2> DEFINE mode == IF body.network = Empty /\ body.netAllow # {} THEN "host" ELSE body.network
  <2>1. p.network = IF mode # Empty THEN mode
                    ELSE IF AnyEndpoint \in body.netDeny \/ base.network = Empty THEN "none" ELSE base.network
    BY DEF ProfileFromBody, base
  <2>2. mode \in Modes
    BY <1>2, ModeFacts
  <2> HIDE DEF mode, p
  <2> QED BY <1>1, <2>1, <2>2, ModeFacts
<1>6. p.enabled \in BOOLEAN
  BY <1>1, <1>4
<1>7. /\ PlacesTyped(mounts) /\ Tmp \in DOMAIN mounts
      /\ \A q \in read \cup write : Expand(q) \in DOMAIN mounts
  <2> HIDE DEF read, write
  <2> QED BY <1>1, <1>2, <1>3, CompiledPaths
<1> HIDE DEF mounts, p
<1>8. PlacesTyped(p.mounts) /\ DOMAIN mounts \subseteq DOMAIN p.mounts
  BY <1>4, <1>7, AssetMounts
<1>9. ProfileTyped(p)
  BY <1>3, <1>4, <1>5, <1>6, <1>7, <1>8 DEF ProfileTyped, PathsTyped
<1> QED BY <1>7, <1>8, <1>9 DEF p

\* A profile that only differs in what no path or mount depends on.
LEMMA SameGrants ==
  ASSUME NEW p, ProfileTyped(p), NEW q, DOMAIN q = Fields, q.enabled \in BOOLEAN, q.network \in Modes \ {Empty},
         q.read = p.read, q.write = p.write, PlacesTyped(q.mounts), DOMAIN p.mounts \subseteq DOMAIN q.mounts
  PROVE  ProfileTyped(q)
  BY DEF ProfileTyped, PathsTyped

Keeps(p, q) == ProfileTyped(q) /\ DOMAIN p.mounts \subseteq DOMAIN q.mounts

LEMMA EnabledTyped ==
  ASSUME NEW p, ProfileTyped(p), NEW flags, SpecTyped(flags) PROVE Keeps(p, WithEnabled(p, flags))
<1> DEFINE q == WithEnabled(p, flags)
<1>1. /\ DOMAIN p = Fields /\ p.enabled \in BOOLEAN /\ p.network \in Modes \ {Empty} /\ PlacesTyped(p.mounts)
  BY DEF ProfileTyped
<1>2. flags.enabled \in {"unset", "true", "false"}
  BY DEF SpecTyped
<1>3. /\ DOMAIN q = Fields /\ q.enabled \in BOOLEAN /\ q.network = p.network
      /\ q.read = p.read /\ q.write = p.write /\ q.mounts = p.mounts
  <2>1. CASE flags.enabled = "unset"
    BY <1>1, <2>1 DEF WithEnabled
  <2>2. CASE flags.enabled = "true"
    BY <1>1, <2>2 DEF WithEnabled, Fields
  <2>3. CASE flags.enabled = "false"
    BY <1>1, <2>3 DEF WithEnabled, Fields
  <2> QED BY <1>2, <2>1, <2>2, <2>3
<1> HIDE DEF q
<1>4. ProfileTyped(q)
  BY <1>1, <1>3, SameGrants
<1> QED BY <1>3, <1>4 DEF Keeps, q

LEMMA PathsKept ==
  ASSUME NEW p, ProfileTyped(p), NEW flags, SpecTyped(flags) PROVE Keeps(p, WithPaths(p, flags))
<1> DEFINE read == p.read \cup flags.read
           write == p.write \cup flags.write
           mounts == CompilePaths(read, write, <<>>, p.mounts)
           q == [p EXCEPT !.read = read, !.write = write, !.mounts = mounts]
<1>1. /\ DOMAIN p = Fields /\ p.enabled \in BOOLEAN /\ p.network \in Modes \ {Empty} /\ PlacesTyped(p.mounts)
      /\ \A x \in read \cup write : Plain(x)
  BY DEF ProfileTyped, SpecTyped, PathsTyped
<1>2. PlacesTyped(<<>>)
  BY DEF PlacesTyped
<1>3. /\ PlacesTyped(mounts) /\ \A x \in read \cup write : Expand(x) \in DOMAIN mounts
      /\ DOMAIN p.mounts \subseteq DOMAIN mounts
  <2> HIDE DEF read, write
  <2>1. PlacesTyped(mounts) /\ \A x \in read \cup write : Expand(x) \in DOMAIN mounts
    BY <1>1, <1>2, CompiledPaths
  <2>2. DOMAIN p.mounts \subseteq DOMAIN mounts
    <3> DEFINE paths == [x \in {Expand(y) : y \in write} \cup {Expand(y) : y \in read} |->
                            Bind(x, IF x \in {Expand(y) : y \in write} THEN "rw" ELSE "ro")]
               below == p.mounts ++ MountAt(Tmp, Tmpfs("rw"))
    <3>1. mounts = <<>> ++ (paths ++ below)
      BY DEF CompilePaths
    <3> HIDE DEF paths
    <3>2. DOMAIN p.mounts \subseteq DOMAIN below
      BY OverlayKeeps
    <3> HIDE DEF below
    <3>3. DOMAIN below \subseteq DOMAIN (paths ++ below)
      BY OverlayKeeps
    <3>4. DOMAIN (paths ++ below) \subseteq DOMAIN (<<>> ++ (paths ++ below))
      BY OverlayKeeps
    <3> QED BY <3>1, <3>2, <3>3, <3>4
  <2> QED BY <2>1, <2>2
<1> HIDE DEF mounts
<1>4. /\ DOMAIN q = Fields /\ q.enabled = p.enabled /\ q.network = p.network
      /\ q.read = read /\ q.write = write /\ q.mounts = mounts
  <2> HIDE DEF read, write
  <2> QED BY <1>1 DEF Fields
<1> HIDE DEF q, read, write
<1>5. Keeps(p, q)
  BY <1>1, <1>3, <1>4 DEF Keeps, ProfileTyped, PathsTyped
<1>6. WithPaths(p, flags) = IF flags.read \cup flags.write = {} THEN p ELSE q
  BY DEF WithPaths, q, mounts, read, write
<1> QED BY <1>5, <1>6 DEF Keeps

LEMMA MountsKept ==
  ASSUME NEW p, ProfileTyped(p), NEW flags, SpecTyped(flags) PROVE Keeps(p, WithMounts(p, flags))
<1> DEFINE q == WithMounts(p, flags)
           mounts == flags.mounts ++ p.mounts
<1>1. /\ DOMAIN p = Fields /\ p.enabled \in BOOLEAN /\ p.network \in Modes \ {Empty} /\ PlacesTyped(p.mounts)
  BY DEF ProfileTyped
<1>2. PlacesTyped(mounts) /\ DOMAIN p.mounts \subseteq DOMAIN mounts
  <2>1. PlacesTyped(flags.mounts)
    BY MountsArePlaces DEF SpecTyped
  <2> QED BY <1>1, <2>1, Overlay, OverlayKeeps
<1> HIDE DEF mounts
<1>3. /\ DOMAIN q = Fields /\ q.enabled = p.enabled /\ q.network = p.network
      /\ q.read = p.read /\ q.write = p.write /\ q.mounts = mounts
  BY <1>1 DEF WithMounts, Fields, mounts
<1> HIDE DEF q
<1> QED BY <1>1, <1>2, <1>3, SameGrants DEF Keeps, q

LEMMA AssetsKept ==
  ASSUME NEW p, ProfileTyped(p) PROVE Keeps(p, WithNetAssets(p))
<1> DEFINE mounts == ResolveNetworkAssetMounts(p.mounts)
           q == [p EXCEPT !.mounts = mounts]
<1>1. /\ DOMAIN p = Fields /\ p.enabled \in BOOLEAN /\ p.network \in Modes \ {Empty} /\ PlacesTyped(p.mounts)
  BY DEF ProfileTyped
<1>2. PlacesTyped(mounts) /\ DOMAIN p.mounts \subseteq DOMAIN mounts
  BY <1>1, AssetMounts
<1> HIDE DEF mounts
<1>3. /\ DOMAIN q = Fields /\ q.enabled = p.enabled /\ q.network = p.network
      /\ q.read = p.read /\ q.write = p.write /\ q.mounts = mounts
  BY <1>1 DEF Fields
<1>4. WithNetAssets(p) = p \/ WithNetAssets(p) = q
  BY DEF WithNetAssets, mounts
<1> HIDE DEF q
<1>5. Keeps(p, q)
  BY <1>1, <1>2, <1>3, SameGrants DEF Keeps
<1> QED BY <1>4, <1>5 DEF Keeps

\* An override of the network or of binaries and calls leaves paths and mounts alone.
Beside(p, q) ==
  /\ DOMAIN q = Fields /\ q.enabled = p.enabled /\ q.network \in Modes \ {Empty}
  /\ q.read = p.read /\ q.write = p.write /\ q.mounts = p.mounts

LEMMA BesideKeeps ==
  ASSUME NEW p, ProfileTyped(p), NEW q, Beside(p, q) PROVE Keeps(p, q)
<1>1. p.enabled \in BOOLEAN /\ PlacesTyped(p.mounts)
  BY DEF ProfileTyped
<1> QED BY <1>1, SameGrants DEF Beside, Keeps

LEMMA NetworkKept ==
  ASSUME NEW p, ProfileTyped(p), NEW flags, SpecTyped(flags)
  PROVE  /\ Keeps(p, WithNetMode(p, flags)) /\ Keeps(p, WithNetAllow(p, flags)) /\ Keeps(p, WithNetDeny(p, flags))
<1>1. DOMAIN p = Fields /\ p.network \in Modes \ {Empty} /\ flags.network \in Modes
  BY DEF ProfileTyped, SpecTyped
<1>2. Beside(p, WithNetMode(p, flags))
  BY <1>1 DEF WithNetMode, Beside, Fields
<1>3. Beside(p, WithNetAllow(p, flags))
  BY <1>1, ModeFacts DEF WithNetAllow, Beside, Fields
<1>4. Beside(p, WithNetDeny(p, flags))
  BY <1>1, ModeFacts DEF WithNetDeny, Beside, Fields
<1> QED BY <1>2, <1>3, <1>4, BesideKeeps

LEMMA RulesKept ==
  ASSUME NEW p, ProfileTyped(p), NEW flags
  PROVE  /\ Keeps(p, WithExecAllow(p, flags)) /\ Keeps(p, WithExecDeny(p, flags)) /\ Keeps(p, WithCalls(p, flags))
<1>1. DOMAIN p = Fields /\ p.network \in Modes \ {Empty}
  BY DEF ProfileTyped
<1>2. Beside(p, WithExecAllow(p, flags))
  BY <1>1 DEF WithExecAllow, Beside, Fields
<1>3. Beside(p, WithExecDeny(p, flags))
  BY <1>1 DEF WithExecDeny, Beside, Fields
<1>4. Beside(p, WithCalls(p, flags))
  BY <1>1 DEF WithCalls, Beside, Fields
<1> QED BY <1>2, <1>3, <1>4, BesideKeeps

LEMMA KeepsBoth ==
  ASSUME NEW p, NEW q, NEW r, Keeps(p, q), Keeps(q, r) PROVE Keeps(p, r)
  BY DEF Keeps

LEMMA OverridesKeep ==
  ASSUME NEW p, ProfileTyped(p), NEW flags, SpecTyped(flags) PROVE Keeps(p, ApplyCLIOverrides(p, flags))
<1> DEFINE a == WithEnabled(p, flags)
           b == WithPaths(a, flags)
           c == WithMounts(b, flags)
           d == WithNetMode(c, flags)
           e == WithNetAllow(d, flags)
           f == WithNetDeny(e, flags)
           g == WithNetAssets(f)
           h == WithExecAllow(g, flags)
           i == WithExecDeny(h, flags)
           j == WithCalls(i, flags)
<1>1. ApplyCLIOverrides(p, flags) = j
  BY DEF ApplyCLIOverrides
<1>2. Keeps(p, a)
  BY EnabledTyped
<1> HIDE DEF a
<1>3. Keeps(a, b)
  BY <1>2, PathsKept DEF Keeps
<1> HIDE DEF b
<1>4. Keeps(b, c)
  BY <1>3, MountsKept DEF Keeps
<1> HIDE DEF c
<1>5. Keeps(c, d)
  BY <1>4, NetworkKept DEF Keeps
<1> HIDE DEF d
<1>6. Keeps(d, e)
  BY <1>5, NetworkKept DEF Keeps
<1> HIDE DEF e
<1>7. Keeps(e, f)
  BY <1>6, NetworkKept DEF Keeps
<1> HIDE DEF f
<1>8. Keeps(f, g)
  BY <1>7, AssetsKept DEF Keeps
<1> HIDE DEF g
<1>9. Keeps(g, h)
  BY <1>8, RulesKept DEF Keeps
<1> HIDE DEF h
<1>10. Keeps(h, i)
  BY <1>9, RulesKept DEF Keeps
<1> HIDE DEF i
<1>11. Keeps(i, j)
  BY <1>10, RulesKept DEF Keeps
<1> HIDE DEF j
<1> QED BY <1>1, <1>2, <1>3, <1>4, <1>5, <1>6, <1>7, <1>8, <1>9, <1>10, <1>11, KeepsBoth

LEMMA ResolvedTyped ==
  ASSUME NEW c \in Commands, ~Refused(c)
  PROVE  /\ ProfileTyped(ResolveProfile(c))
         /\ ActiveName(c) # "unconfined" => Tmp \in DOMAIN ResolveProfile(c).mounts
<1> DEFINE name == ActiveName(c)
           written == name \in DOMAIN c.file.profiles
           p == IF IsBuiltin(name) THEN LoadBuiltin(name)
                ELSE IF written THEN ProfileFromBody(c.file.profiles[name])
                ELSE LoadBuiltin("deny-all")
<1>1. ProfileTyped(p) /\ (name # "unconfined" => Tmp \in DOMAIN p.mounts)
  <2>1. CASE IsBuiltin(name)
    BY <2>1, BuiltinTyped
  <2>2. CASE ~IsBuiltin(name) /\ written
    <3>1. SpecTyped(c.file.profiles[name]) /\ ~BodyRefused(c.file.profiles[name])
      BY <2>2, CommandsAssumption DEF Refused
    <3> QED BY <2>2, <3>1, BodyTyped
  <2>3. CASE ~IsBuiltin(name) /\ ~written
    <3>1. IsBuiltin("deny-all")
      BY DEF IsBuiltin, Rungs, ToSet
    <3> QED BY <2>3, <3>1, BuiltinTyped
  <2> QED BY <2>1, <2>2, <2>3
<1>2. ResolveProfile(c) = p \/ ResolveProfile(c) = [p EXCEPT !.enabled = FALSE]
  BY DEF ResolveProfile
<1> HIDE DEF p
<1>3. /\ ProfileTyped([p EXCEPT !.enabled = FALSE])
      /\ [p EXCEPT !.enabled = FALSE].mounts = p.mounts
  <2> DEFINE q == [p EXCEPT !.enabled = FALSE]
  <2>1. DOMAIN p = Fields /\ p.network \in Modes \ {Empty} /\ PlacesTyped(p.mounts)
    BY <1>1 DEF ProfileTyped
  <2>2. /\ DOMAIN q = Fields /\ q.enabled = FALSE /\ q.network = p.network
        /\ q.read = p.read /\ q.write = p.write /\ q.mounts = p.mounts
    BY <2>1 DEF Fields
  <2> HIDE DEF q
  <2> QED BY <1>1, <2>1, <2>2, SameGrants DEF q
<1> QED BY <1>1, <1>2, <1>3

-----------------------------------------------------------------------------
(* The suggestion in a denial.                                                   *)

LEMMA Least ==
  ASSUME NEW I, I \subseteq 1 .. 4, I # {}
  PROVE  Min(I) \in I
<1> DEFINE least(x) == x \in I /\ \A y \in I : x <= y
<1>1. \E x : least(x)
  <2>1. CASE 1 \in I
    BY <2>1
  <2>2. CASE 1 \notin I /\ 2 \in I
    BY <2>2
  <2>3. CASE 1 \notin I /\ 2 \notin I /\ 3 \in I
    BY <2>3
  <2>4. CASE 1 \notin I /\ 2 \notin I /\ 3 \notin I
    BY <2>4
  <2> QED BY <2>1, <2>2, <2>3, <2>4
<1>2. Min(I) = CHOOSE x \in I : \A y \in I : x <= y
  BY DEF Min
<1> QED BY <1>1, <1>2

LEMMA Suggested ==
  ASSUME NEW op
  PROVE  \E i \in 1 .. 4 : /\ SuggestProfile(op) = SuggestLadder[i].name
                           /\ Allows(SuggestLadder[i].config, op)
<1> DEFINE I == {i \in 1 .. Len(SuggestLadder) : Allows(SuggestLadder[i].config, op)}
<1>1. Len(SuggestLadder) = 4
  BY DEF SuggestLadder
<1>2. 4 \in I
  BY <1>1 DEF SuggestLadder, AllowAllPermissions, Config, Allows, MatchesOneOf
<1>3. SuggestProfile(op) = SuggestLadder[IF I # {} THEN Min(I) ELSE 0].name
  BY DEF SuggestProfile, SelectInSeq
<1> QED BY <1>1, <1>2, <1>3, Least

LEMMA SuggestionNamesOne == ASSUME NEW op PROVE SuggestProfile(op) # "none"
<1>1. \A i \in 1 .. 4 : SuggestLadder[i].name # "none"
  BY DEF SuggestLadder
<1> QED BY <1>1, Suggested

-----------------------------------------------------------------------------
(* The command.                                                                  *)

\* What became of the command line so far.
Story ==
  /\ stage \in {"resolved", "running"} =>
        ~Refused(command) /\ profile = ApplyCLIOverrides(ResolveProfile(command), command.flags)
  /\ stage = "running" => config = CompilePermissions(profile)
  /\ answer.suggestion # "none" => stage = "running" /\ answer.suggestion = SuggestProfile(answer.op)

SPInv == TypeOK /\ Story

LEMMA ProfileInUse ==
  ASSUME NEW c \in Commands, ~Refused(c)
  PROVE  /\ ProfileTyped(ApplyCLIOverrides(ResolveProfile(c), c.flags))
         /\ \/ DOMAIN ApplyCLIOverrides(ResolveProfile(c), c.flags).mounts # {}
            \/ ActiveName(c) = "unconfined"
<1>1. SpecTyped(c.flags)
  BY CommandsAssumption
<1>2. Keeps(ResolveProfile(c), ApplyCLIOverrides(ResolveProfile(c), c.flags))
  BY <1>1, ResolvedTyped, OverridesKeep
<1> QED BY <1>2, ResolvedTyped DEF Keeps

LEMMA SPInit == ASSUME Init PROVE SPInv
  BY DEF Init, SPInv, TypeOK, Story, Config

LEMMA SPNext == ASSUME SPInv, [Next]_vars PROVE SPInv'
<1> TypeOK /\ Story
  BY DEF SPInv
<1>1. CASE ResolveActiveProfile
  <2>1. CASE Refused(command)
    <3>1. stage' = "refused" /\ UNCHANGED <<command, profile, config, answer>>
      BY <1>1, <2>1 DEF ResolveActiveProfile
    <3>2. stage = "started"
      BY <1>1 DEF ResolveActiveProfile
    <3> QED BY <3>1, <3>2 DEF SPInv, TypeOK, Story
  <2>2. CASE ~Refused(command)
    <3>1. /\ stage = "started" /\ stage' = "resolved" /\ UNCHANGED <<command, config, answer>>
          /\ profile' = ApplyCLIOverrides(ResolveProfile(command), command.flags)
      BY <1>1, <2>2 DEF ResolveActiveProfile
    <3> DEFINE p == ApplyCLIOverrides(ResolveProfile(command), command.flags)
    <3>2. ProfileTyped(p) /\ (DOMAIN p.mounts # {} \/ ActiveName(command) = "unconfined")
      BY <2>2, ProfileInUse DEF TypeOK
    <3>3. p.network \in Modes \ {Empty}
      BY <3>2 DEF ProfileTyped
    <3>4. Story'
      BY <2>2, <3>1 DEF Story, Refused, ActiveName, ResolveProfile
    <3> HIDE DEF p
    <3>5. profile' = p
      BY <3>1 DEF p
    <3>6. ActiveName(command)' = ActiveName(command)
      BY <3>1 DEF ActiveName
    <3>7. TypeOK'
      BY <3>1, <3>2, <3>3, <3>5, <3>6 DEF TypeOK
    <3> QED BY <3>4, <3>7 DEF SPInv
  <2> QED BY <2>1, <2>2
<1>2. CASE NewChecker
  <2>1. /\ stage = "resolved" /\ stage' = "running" /\ config' = CompilePermissions(profile)
        /\ UNCHANGED <<command, profile, answer>>
    BY <1>2 DEF NewChecker
  <2>2. ActiveName(command)' = ActiveName(command)
    BY <2>1 DEF ActiveName
  <2>3. TypeOK'
    BY <2>1, <2>2 DEF TypeOK
  <2>4. CompilePermissions(profile)' = CompilePermissions(profile)
    BY <2>1
  <2>5. Story'
    BY <2>1 DEF Story
  <2> QED BY <2>3, <2>5 DEF SPInv
<1>3. ASSUME NEW op \in Ops, Check(op) PROVE SPInv'
  <2>1. /\ stage = "running" /\ UNCHANGED <<command, stage, profile, config>>
        /\ answer'.verdict \in {"allowed", "denied", "no rule"} /\ answer'.op = op
        /\ answer'.suggestion = IF answer'.verdict = "no rule" THEN SuggestProfile(op) ELSE "none"
    BY <1>3 DEF Check, Fresh
  <2>2. SuggestProfile(op) # "none"
    BY SuggestionNamesOne
  <2>3. ActiveName(command)' = ActiveName(command)
    BY <2>1 DEF ActiveName
  <2>4. TypeOK'
    BY <2>1, <2>2, <2>3 DEF TypeOK
  <2>5. Story'
    BY <2>1 DEF Story
  <2> QED BY <2>4, <2>5 DEF SPInv
<1>4. CASE UNCHANGED vars
  <2>1. UNCHANGED <<command, stage, profile, config, answer>>
    BY <1>4 DEF vars
  <2>2. TypeOK' /\ Story'
    BY <2>1 DEF TypeOK, Story
  <2> QED BY <2>2 DEF SPInv
<1> QED BY <1>1, <1>2, <1>3, <1>4 DEF Next, Ended

\* What resolving, overriding and compiling a profile leaves in the state: the strengthened invariant.
THEOREM SPInvariant == Spec => []SPInv
  BY SPInit, SPNext, PTL DEF Spec

\* A profile in use has a network mode and, unless it began unconfined, mounts (ResolveActiveProfile), and a
\* denial without a deny rule always suggests one (suggestProfile).
THEOREM TypeCorrect == Spec => []TypeOK
<1>1. SPInv => TypeOK
  BY DEF SPInv
<1> QED BY <1>1, SPInvariant, PTL

-----------------------------------------------------------------------------
(* The two translations of a profile.                                            *)

Stated(p) ==
  /\ \A w \in p.write : p.mounts[Expand(w)].mode = "rw"
  /\ \A r \in p.callAllow \cup p.callDeny : r.module \notin {"fs", "*"}

LEMMA FileRules ==
  ASSUME NEW p, p.enabled, \A r \in p.callAllow \cup p.callDeny : r.module \notin {"fs", "*"},
         NEW op, FileOp(op)
  PROVE  Allows(CompilePermissions(p), op)
           <=> \/ MatchesOneOf(PathReadRules(p.read), op) \/ MatchesOneOf(PathWriteRules(p.write), op)
               \/ \E d \in DOMAIN p.mounts : MatchesOneOf(MountRules(d, p.mounts[d]), op)
<1> DEFINE mounted == UNION {MountRules(d, p.mounts[d]) : d \in DOMAIN p.mounts}
           files == PathReadRules(p.read) \cup PathWriteRules(p.write) \cup mounted
           bins == IF ~p.noExec /\ p.execAllow = {} THEN ExecRules(p.execPaths) ELSE {}
           others == AmbientRules(p) \cup ExecRules(p.execAllow) \cup bins \cup NetworkRules(p) \cup p.callAllow
           denied == ExecRules(p.execDeny) \cup SynthesizeNetworkRules(p.netDeny) \cup p.callDeny
           conf == CompilePermissions(p)
<1>1. \A r \in bins : r.module = "os"
  BY ExecElsewhere
<1>2. \A r \in others : r.module \notin {"fs", "*"}
  <2> HIDE DEF bins
  <2> QED BY <1>1, ExecElsewhere, NetworkElsewhere, AmbientElsewhere
<1>3. \A r \in denied : r.module \notin {"fs", "*"}
  BY ExecElsewhere, NetElsewhere
<1>4. conf.deny = denied /\ conf.default = "deny"
  BY DEF CompilePermissions, Config
<1>5. conf.allow = files \cup others
  <2> DEFINE given == PathReadRules(p.read) \cup PathWriteRules(p.write) \cup mounted
                       \cup AmbientRules(p) \cup ExecRules(p.execAllow) \cup bins \cup NetworkRules(p) \cup p.callAllow
  <2>1. conf = Config(given, denied, "deny")
    BY Zenon DEF CompilePermissions
  <2>2. conf.allow = given
    <3> HIDE DEF given, denied, conf
    <3> QED BY <2>1 DEF Config
  <2> HIDE DEF mounted, bins, conf
  <2> QED BY <2>2
<1> HIDE DEF others, denied, conf
<1>6. ~MatchesOneOf(denied, op) /\ ~MatchesOneOf(others, op)
  BY <1>2, <1>3, Elsewhere
<1>7. Allows(conf, op) <=> MatchesOneOf(files, op)
  <2> HIDE DEF files
  <2> QED BY <1>4, <1>5, <1>6, OneOfTwo DEF Allows
<1>8. MatchesOneOf(mounted, op) <=> \E d \in DOMAIN p.mounts : MatchesOneOf(MountRules(d, p.mounts[d]), op)
  BY DEF MatchesOneOf
<1> HIDE DEF mounted
<1>9. MatchesOneOf(files, op) <=> \/ MatchesOneOf(PathReadRules(p.read), op)
                                 \/ MatchesOneOf(PathWriteRules(p.write), op)
                                 \/ MatchesOneOf(mounted, op)
  <2>1. MatchesOneOf(files, op)
          <=> MatchesOneOf(PathReadRules(p.read) \cup PathWriteRules(p.write), op) \/ MatchesOneOf(mounted, op)
    BY OneOfTwo
  <2> QED BY <2>1, OneOfTwo
<1> HIDE DEF files
<1> QED BY <1>7, <1>8, <1>9 DEF conf

LEMMA GatesMatch ==
  ASSUME SPInv, Fresh, profile.enabled, Stated(profile), NEW op \in Ops, op.module = "fs"
  PROVE  Allows(config, op) <=> Mounted(op.segs, IF op.category = "read" THEN {"ro", "rw"} ELSE {"rw"})
<1> DEFINE modes == IF op.category = "read" THEN {"ro", "rw"} ELSE {"rw"}
           Shows(d) == /\ profile.mounts[d].mode = "rw" \/ op.category = "read"
                       /\ ShownBy(op.segs, d, profile.mounts[d])
<1>1. FileOp(op)
  BY OpsAssumption DEF FileOp
<1>2. ProfileTyped(profile) /\ config = CompilePermissions(profile)
  BY ProfileInUse DEF SPInv, Story, Fresh, TypeOK
<1>3. /\ PlacesTyped(profile.mounts) /\ \A q \in profile.read \cup profile.write : Plain(q)
      /\ \A q \in profile.read \cup profile.write : Expand(q) \in DOMAIN profile.mounts
  BY <1>2 DEF ProfileTyped, PathsTyped
<1>4. ASSUME NEW d \in DOMAIN profile.mounts
      PROVE  MatchesOneOf(MountRules(d, profile.mounts[d]), op) <=> Shows(d)
  BY <1>1, <1>3, MountRulesGrant DEF PlacesTyped
<1>5. Mounted(op.segs, modes) <=> \E d \in DOMAIN profile.mounts : Shows(d)
  <2>1. ASSUME NEW d \in DOMAIN profile.mounts
        PROVE  profile.mounts[d].mode \in modes <=> (profile.mounts[d].mode = "rw" \/ op.category = "read")
    BY <1>3 DEF PlacesTyped
  <2> HIDE DEF modes
  <2> QED BY <2>1 DEF Mounted, ShownBy
<1>6. ASSUME MatchesOneOf(PathReadRules(profile.read), op)
      PROVE  \E d \in DOMAIN profile.mounts : Shows(d)
  <2>1. op.category = "read" /\ UnderOneOf(op.segs, profile.read)
    BY <1>1, <1>3, <1>6, ReadRulesGrant
  <2>2. PICK q \in profile.read : Under(op.segs, Expand(q))
    BY <2>1 DEF UnderOneOf
  <2> QED BY <1>3, <2>1, <2>2 DEF ShownBy
<1>7. ASSUME MatchesOneOf(PathWriteRules(profile.write), op)
      PROVE  \E d \in DOMAIN profile.mounts : Shows(d)
  <2>1. UnderOneOf(op.segs, profile.write)
    BY <1>1, <1>3, <1>7, WriteRulesGrant
  <2>2. PICK q \in profile.write : Under(op.segs, Expand(q))
    BY <2>1 DEF UnderOneOf
  <2> QED BY <1>3, <2>2 DEF ShownBy, Stated
<1>8. Allows(config, op)
        <=> \/ MatchesOneOf(PathReadRules(profile.read), op) \/ MatchesOneOf(PathWriteRules(profile.write), op)
            \/ \E d \in DOMAIN profile.mounts : MatchesOneOf(MountRules(d, profile.mounts[d]), op)
  BY <1>1, <1>2, FileRules DEF Stated
<1> HIDE DEF Shows
<1> QED BY <1>4, <1>5, <1>6, <1>7, <1>8

\* The rules let a script read and write what is mounted, and nothing else (compilePaths, CompilePermissions),
\* for all paths, mounts and command lines.
THEOREM GatesMatchMountsCorrect == Spec => []GatesMatchMounts
<1>1. SPInv => GatesMatchMounts
  BY GatesMatch DEF GatesMatchMounts, Stated
<1> QED BY <1>1, SPInvariant, PTL

-----------------------------------------------------------------------------
(* The ladder.  Everything a rung has, the next one has too, and every override   *)
(* of the flags keeps it that way.                                               *)

LEMMA BuiltinFacts ==
  ASSUME NEW name, IsBuiltin(name)
  PROVE  /\ name \in {"deny-all", "sandbox-path", "sandbox-exec", "sandbox-net", "unconfined"}
         /\ name # Empty /\ name # "default"
<1>1. name \in {"deny-all", "sandbox-path", "sandbox-exec", "sandbox-net", "unconfined"}
  BY DEF IsBuiltin, Rungs, ToSet
<1>2. Empty \notin {"deny-all", "sandbox-path", "sandbox-exec", "sandbox-net", "unconfined"}
  BY Zenon DEF Empty
<1> QED BY <1>1, <1>2

LEMMA ResolvedBuiltin ==
  ASSUME NEW c, IsBuiltin(c.profile)
  PROVE  ResolveProfile(c) = LoadBuiltin(c.profile)
<1>1. ActiveName(c) = c.profile
  BY BuiltinFacts DEF ActiveName
<1>2. ActiveName(c) # "default"
  BY <1>1, BuiltinFacts
<1> QED BY <1>1, <1>2 DEF ResolveProfile

\* The mounts n show what the mounts m show, and what they add are places shown as themselves.
MountsBelow(m, n) ==
  /\ \A d \in DOMAIN m :
       /\ d \in DOMAIN n
       /\ m[d].mode = "rw" => n[d].mode = "rw"
       /\ m[d].type = "bind" /\ d # Tmp => n[d].type = "bind" /\ n[d].source = m[d].source
  /\ \A d \in DOMAIN n \ DOMAIN m : n[d].type = "bind" /\ n[d].source = d

Below(p, q) ==
  /\ p.enabled = q.enabled /\ p.read \subseteq q.read /\ p.write \subseteq q.write
  /\ MountsBelow(p.mounts, q.mounts)
  /\ p.netAllow = q.netAllow /\ p.netDeny = q.netDeny
  /\ p.network = q.network \/ (p.network = "none" /\ q.network = "host")
  /\ p.execAllow \subseteq q.execAllow /\ q.execDeny \subseteq p.execDeny
  /\ p.callAllow = q.callAllow /\ p.callDeny = q.callDeny
  /\ p.execAllow = {} => p.execPaths = {}

\* What CompilePaths needs besides.
PathsBelow(p, q) ==
  /\ q.read \subseteq p.read \cup q.write /\ Tmp \in DOMAIN p.mounts
  /\ \A d \in DOMAIN p.mounts : p.mounts[d].type = "bind" /\ d # Tmp => p.mounts[d].source = d

BelowTyped(p, q) == DOMAIN p = Fields /\ DOMAIN q = Fields /\ Below(p, q)

LEMMA RungBelow ==
  ASSUME NEW i \in 1 .. 3
  PROVE  /\ BelowTyped(LoadBuiltin(Rungs[i]), LoadBuiltin(Rungs[i + 1]))
         /\ PathsBelow(LoadBuiltin(Rungs[i]), LoadBuiltin(Rungs[i + 1]))
<1> DEFINE tmpMount == MountAt(Tmp, Tmpfs("rw"))
           m == InCwd.mounts
<1>2. /\ DOMAIN tmpMount = {Tmp} /\ tmpMount[Tmp].mode = "rw" /\ tmpMount[Tmp].type = "tmpfs"
  BY DEF MountAt, Tmpfs
<1>5. /\ DOMAIN m = {Cwd, Tmp} /\ m[Cwd].mode = "rw" /\ m[Cwd].type = "bind" /\ m[Cwd].source = Cwd
      /\ m[Tmp].mode = "rw" /\ (Tmp # Cwd => m[Tmp].type = "tmpfs")
  BY InCwdMounts DEF Bind, Tmpfs
<1> HIDE DEF tmpMount, m
<1>6. MountsBelow(tmpMount, m)
  BY <1>2, <1>5 DEF MountsBelow
<1>7. MountsBelow(m, m)
  BY DEF MountsBelow
<1> DEFINE assets == ResolveNetworkAssetMounts(m)
           own == [p \in NetworkAssets |-> Bind(p, "ro")]
<1>8. MountsBelow(m, assets)
  <2>1. assets = m ++ own /\ DOMAIN own = NetworkAssets
    BY DEF ResolveNetworkAssetMounts
  <2>2. \A d \in NetworkAssets : own[d].type = "bind" /\ own[d].source = d
    BY DEF Bind
  <2> HIDE DEF assets, own
  <2>3. /\ DOMAIN assets = DOMAIN m \cup DOMAIN own /\ \A d \in DOMAIN m : assets[d] = m[d]
        /\ \A d \in DOMAIN own \ DOMAIN m : assets[d] = own[d]
    <3>1. /\ DOMAIN (m ++ own) = DOMAIN m \cup DOMAIN own
          /\ \A d \in DOMAIN m : (m ++ own)[d] = m[d]
          /\ \A d \in DOMAIN own \ DOMAIN m : (m ++ own)[d] = own[d]
      BY OverlayDomain
    <3> QED BY <2>1, <3>1
  <2> QED BY <2>1, <2>2, <2>3 DEF MountsBelow
<1> DEFINE p1 == LoadBuiltin("deny-all")
           p2 == LoadBuiltin("sandbox-path")
           p3 == LoadBuiltin("sandbox-exec")
           p4 == LoadBuiltin("sandbox-net")
<1>9. p1 = [ZeroProfile EXCEPT !.enabled = TRUE, !.network = "none", !.execDeny = {Star}, !.noExec = TRUE,
                               !.mounts = tmpMount]
  BY Zenon DEF LoadBuiltin, tmpMount
<1>10. p2 = [InCwd EXCEPT !.execDeny = {Star}, !.noExec = TRUE]
  BY DEF LoadBuiltin
<1>11. p3 = [InCwd EXCEPT !.execAllow = {Star}]
  BY DEF LoadBuiltin
<1>12. p4 = [InCwd EXCEPT !.execAllow = {Star}, !.network = "host", !.mounts = assets]
  BY DEF LoadBuiltin, m
<1> HIDE DEF p1, p2, p3, p4, assets
<1>13. BelowTyped(p1, p2) /\ PathsBelow(p1, p2)
  <2>1. BelowTyped(p1, p2)
    BY ZeroFields, InCwdFields, <1>6, <1>9, <1>10 DEF BelowTyped, Below, Fields, m
  <2>2. PathsBelow(p1, p2)
    BY ZeroFields, InCwdFields, <1>2, <1>9, <1>10 DEF PathsBelow, Fields
  <2> QED BY <2>1, <2>2
<1>14. BelowTyped(p2, p3) /\ PathsBelow(p2, p3)
  BY InCwdFields, <1>5, <1>7, <1>10, <1>11 DEF BelowTyped, Below, PathsBelow, Fields, m
<1>15. BelowTyped(p3, p4) /\ PathsBelow(p3, p4)
  BY InCwdFields, <1>5, <1>8, <1>11, <1>12 DEF BelowTyped, Below, PathsBelow, Fields, m
<1>16. /\ Rungs[1] = "deny-all" /\ Rungs[2] = "sandbox-path" /\ Rungs[3] = "sandbox-exec"
       /\ Rungs[4] = "sandbox-net"
  BY DEF Rungs
<1> QED BY <1>13, <1>14, <1>15, <1>16 DEF p1, p2, p3, p4

LEMMA EnabledBelow ==
  ASSUME NEW p, NEW q, BelowTyped(p, q), PathsBelow(p, q), NEW flags, SpecTyped(flags)
  PROVE  /\ BelowTyped(WithEnabled(p, flags), WithEnabled(q, flags))
         /\ PathsBelow(WithEnabled(p, flags), WithEnabled(q, flags))
<1> DEFINE a == WithEnabled(p, flags)
           b == WithEnabled(q, flags)
<1>1. DOMAIN p = Fields /\ DOMAIN q = Fields /\ Below(p, q)
  BY DEF BelowTyped
<1>2. "none" # Empty /\ "host" # Empty
  BY ModeFacts
<1>3. CASE flags.enabled = "true"
  BY <1>1, <1>3 DEF WithEnabled, BelowTyped, Below, PathsBelow, Fields
<1>4. CASE flags.enabled = "false"
  <2>1. /\ a = [p EXCEPT !.enabled = FALSE, !.noExec = FALSE, !.network = IF p.network = Empty THEN "host" ELSE p.network]
        /\ b = [q EXCEPT !.enabled = FALSE, !.noExec = FALSE, !.network = IF q.network = Empty THEN "host" ELSE q.network]
    BY <1>4 DEF WithEnabled
  <2> HIDE DEF a, b
  <2>2. BelowTyped(a, b)
    BY <1>1, <1>2, <2>1 DEF BelowTyped, Below, Fields
  <2>3. PathsBelow(a, b)
    BY <1>1, <2>1 DEF PathsBelow, Fields
  <2> QED BY <2>2, <2>3 DEF a, b
<1>5. CASE flags.enabled = "unset"
  BY <1>5 DEF WithEnabled
<1> QED BY <1>3, <1>4, <1>5 DEF SpecTyped

\* What compiled paths are made of: the paths, then the base, then /tmp.
Layers(mounts, writes, reads, base) ==
  /\ DOMAIN mounts = writes \cup reads \cup DOMAIN base \cup {Tmp}
  /\ \A d \in writes : mounts[d] = Bind(d, "rw")
  /\ \A d \in reads \ writes : mounts[d] = Bind(d, "ro")
  /\ \A d \in DOMAIN base \ (writes \cup reads) : mounts[d] = base[d]

LEMMA CompiledAt ==
  ASSUME NEW read, NEW write, NEW base
  PROVE  Layers(CompilePaths(read, write, <<>>, base), {Expand(x) : x \in write}, {Expand(x) : x \in read}, base)
<1> DEFINE mounts == CompilePaths(read, write, <<>>, base)
           writes == {Expand(x) : x \in write}
           reads == {Expand(x) : x \in read}
           paths == [x \in writes \cup reads |-> Bind(x, IF x \in writes THEN "rw" ELSE "ro")]
           below == base ++ MountAt(Tmp, Tmpfs("rw"))
           both == paths ++ below
<1>1. mounts = <<>> ++ both
  BY DEF CompilePaths
<1>2. /\ DOMAIN paths = writes \cup reads
      /\ \A d \in writes : paths[d] = Bind(d, "rw")
      /\ \A d \in reads \ writes : paths[d] = Bind(d, "ro")
  OBVIOUS
<1>3. DOMAIN MountAt(Tmp, Tmpfs("rw")) = {Tmp}
  BY DEF MountAt
<1>4. DOMAIN below = DOMAIN base \cup {Tmp} /\ \A d \in DOMAIN base : below[d] = base[d]
  BY <1>3, OverlayDomain
<1> HIDE DEF paths, below, writes, reads
<1>5. /\ DOMAIN both = DOMAIN paths \cup DOMAIN below
      /\ \A d \in DOMAIN paths : both[d] = paths[d]
      /\ \A d \in DOMAIN below \ DOMAIN paths : both[d] = below[d]
  BY OverlayDomain
<1> HIDE DEF both
<1>6. DOMAIN <<>> = {}
  OBVIOUS
<1>7. /\ DOMAIN (<<>> ++ both) = DOMAIN <<>> \cup DOMAIN both
      /\ \A d \in DOMAIN both \ DOMAIN <<>> : (<<>> ++ both)[d] = both[d]
  BY OverlayDomain
<1> HIDE DEF mounts
<1>8. DOMAIN mounts = DOMAIN both /\ \A d \in DOMAIN both : mounts[d] = both[d]
  BY <1>1, <1>6, <1>7
<1>9. DOMAIN mounts = writes \cup reads \cup DOMAIN base \cup {Tmp}
  BY <1>2, <1>4, <1>5, <1>8
<1>10. ASSUME NEW d \in writes \cup reads PROVE mounts[d] = paths[d]
  BY <1>2, <1>5, <1>8
<1>11. ASSUME NEW d \in DOMAIN base \ (writes \cup reads) PROVE mounts[d] = base[d]
  BY <1>2, <1>4, <1>5, <1>8
<1>12. Layers(mounts, writes, reads, base)
  BY <1>2, <1>9, <1>10, <1>11 DEF Layers
<1> QED BY <1>12 DEF mounts, writes, reads

LEMMA CompiledBelow ==
  ASSUME NEW p, NEW q, BelowTyped(p, q), PathsBelow(p, q), NEW reads, NEW writes
  PROVE  MountsBelow(CompilePaths(p.read \cup reads, p.write \cup writes, <<>>, p.mounts),
                     CompilePaths(q.read \cup reads, q.write \cup writes, <<>>, q.mounts))
<1> DEFINE preads == p.read \cup reads
           pwrites == p.write \cup writes
           qreads == q.read \cup reads
           qwrites == q.write \cup writes
           m == CompilePaths(preads, pwrites, <<>>, p.mounts)
           n == CompilePaths(qreads, qwrites, <<>>, q.mounts)
           pw == {Expand(x) : x \in pwrites}
           pr == {Expand(x) : x \in preads}
           qw == {Expand(x) : x \in qwrites}
           qr == {Expand(x) : x \in qreads}
<1>1. p.read \subseteq q.read /\ p.write \subseteq q.write /\ MountsBelow(p.mounts, q.mounts)
  BY DEF BelowTyped, Below
<1>2. /\ q.read \subseteq p.read \cup q.write /\ Tmp \in DOMAIN p.mounts
      /\ \A d \in DOMAIN p.mounts : p.mounts[d].type = "bind" /\ d # Tmp => p.mounts[d].source = d
  BY DEF PathsBelow
<1>3. pw \subseteq qw /\ pr \subseteq qr /\ qr \subseteq pr \cup qw
  BY <1>1, <1>2
<1> HIDE DEF preads, pwrites, qreads, qwrites
<1>40. Layers(m, pw, pr, p.mounts)
  BY CompiledAt
<1>4. /\ DOMAIN m = pw \cup pr \cup DOMAIN p.mounts \cup {Tmp}
      /\ \A d \in pw : m[d] = Bind(d, "rw")
      /\ \A d \in pr \ pw : m[d] = Bind(d, "ro")
      /\ \A d \in DOMAIN p.mounts \ (pw \cup pr) : m[d] = p.mounts[d]
  <2> HIDE DEF m, n, pw, pr, qw, qr
  <2> QED BY <1>40 DEF Layers
<1>50. Layers(n, qw, qr, q.mounts)
  BY CompiledAt
<1>5. /\ DOMAIN n = qw \cup qr \cup DOMAIN q.mounts \cup {Tmp}
      /\ \A d \in qw : n[d] = Bind(d, "rw")
      /\ \A d \in qr \ qw : n[d] = Bind(d, "ro")
      /\ \A d \in DOMAIN q.mounts \ (qw \cup qr) : n[d] = q.mounts[d]
  <2> HIDE DEF m, n, pw, pr, qw, qr
  <2> QED BY <1>50 DEF Layers
<1>6. ASSUME NEW d, NEW mode
      PROVE  Bind(d, mode).mode = mode /\ Bind(d, mode).type = "bind" /\ Bind(d, mode).source = d
  BY DEF Bind
<1> HIDE DEF m, n, pw, pr, qw, qr
<1>7. ASSUME NEW d \in DOMAIN m
      PROVE  /\ d \in DOMAIN n
             /\ m[d].mode = "rw" => n[d].mode = "rw"
             /\ m[d].type = "bind" /\ d # Tmp => n[d].type = "bind" /\ n[d].source = m[d].source
  <2>1. CASE d \in pw
    BY <1>3, <1>4, <1>5, <1>6, <2>1
  <2>2. CASE d \in pr \ pw
    <3>1. m[d].mode = "ro" /\ m[d].source = d
      BY <1>4, <1>6, <2>2
    <3>2. d \in DOMAIN n /\ n[d].type = "bind" /\ n[d].source = d
      BY <1>3, <1>5, <1>6, <2>2
    <3> QED BY <3>1, <3>2
  <2>3. CASE d \in DOMAIN p.mounts \ (pw \cup pr)
    <3>1. d \in DOMAIN q.mounts /\ m[d] = p.mounts[d] /\ d \in DOMAIN n
      BY <1>1, <1>4, <1>5, <2>3 DEF MountsBelow
    <3>2. CASE d \in qw
      <4>1. n[d].mode = "rw" /\ n[d].type = "bind" /\ n[d].source = d
        BY <1>5, <1>6, <3>2
      <4> QED BY <1>2, <2>3, <3>1, <4>1
    <3>3. CASE d \notin qw
      <4>1. n[d] = q.mounts[d]
        BY <1>3, <1>5, <2>3, <3>1, <3>3
      <4> QED BY <1>1, <2>3, <3>1, <4>1 DEF MountsBelow
    <3> QED BY <3>2, <3>3
  <2> QED BY <1>2, <1>4, <2>1, <2>2, <2>3
<1>8. ASSUME NEW d \in DOMAIN n \ DOMAIN m PROVE n[d].type = "bind" /\ n[d].source = d
  <2>1. CASE d \in qw \cup qr
    BY <1>5, <1>6, <2>1
  <2>2. CASE d \notin qw \cup qr
    <3>1. d \in DOMAIN q.mounts \ DOMAIN p.mounts /\ n[d] = q.mounts[d]
      BY <1>2, <1>4, <1>5, <1>8, <2>2
    <3> QED BY <1>1, <3>1 DEF MountsBelow
  <2> QED BY <2>1, <2>2
<1>9. MountsBelow(m, n)
  BY <1>7, <1>8 DEF MountsBelow
<1> QED BY <1>9 DEF m, n, preads, pwrites, qreads, qwrites

LEMMA WithPathsBelow ==
  ASSUME NEW p, NEW q, BelowTyped(p, q), PathsBelow(p, q), NEW flags
  PROVE  BelowTyped(WithPaths(p, flags), WithPaths(q, flags))
<1> DEFINE m == CompilePaths(p.read \cup flags.read, p.write \cup flags.write, <<>>, p.mounts)
           n == CompilePaths(q.read \cup flags.read, q.write \cup flags.write, <<>>, q.mounts)
           a == [p EXCEPT !.read = p.read \cup flags.read, !.write = p.write \cup flags.write, !.mounts = m]
           b == [q EXCEPT !.read = q.read \cup flags.read, !.write = q.write \cup flags.write, !.mounts = n]
<1>1. DOMAIN p = Fields /\ DOMAIN q = Fields /\ Below(p, q)
  BY DEF BelowTyped
<1>2. MountsBelow(m, n)
  BY CompiledBelow
<1> HIDE DEF m, n
<1>3. BelowTyped(a, b)
  BY <1>1, <1>2 DEF BelowTyped, Below, Fields
<1> HIDE DEF a, b
<1>4. /\ WithPaths(p, flags) = IF flags.read \cup flags.write = {} THEN p ELSE a
      /\ WithPaths(q, flags) = IF flags.read \cup flags.write = {} THEN q ELSE b
  BY DEF WithPaths, a, b, m, n
<1> QED BY <1>3, <1>4

LEMMA WithMountsBelow ==
  ASSUME NEW p, NEW q, BelowTyped(p, q), NEW flags
  PROVE  BelowTyped(WithMounts(p, flags), WithMounts(q, flags))
<1> DEFINE m == flags.mounts ++ p.mounts
           n == flags.mounts ++ q.mounts
<1>1. DOMAIN p = Fields /\ DOMAIN q = Fields /\ Below(p, q)
  BY DEF BelowTyped
<1>2. MountsBelow(m, n)
  <2>1. /\ DOMAIN m = DOMAIN flags.mounts \cup DOMAIN p.mounts
        /\ \A d \in DOMAIN flags.mounts : m[d] = flags.mounts[d]
        /\ \A d \in DOMAIN p.mounts \ DOMAIN flags.mounts : m[d] = p.mounts[d]
    BY OverlayDomain
  <2>2. /\ DOMAIN n = DOMAIN flags.mounts \cup DOMAIN q.mounts
        /\ \A d \in DOMAIN flags.mounts : n[d] = flags.mounts[d]
        /\ \A d \in DOMAIN q.mounts \ DOMAIN flags.mounts : n[d] = q.mounts[d]
    BY OverlayDomain
  <2>3. MountsBelow(p.mounts, q.mounts)
    BY <1>1 DEF Below
  <2> HIDE DEF m, n
  <2>4. ASSUME NEW d \in DOMAIN m
        PROVE  /\ d \in DOMAIN n
               /\ m[d].mode = "rw" => n[d].mode = "rw"
               /\ m[d].type = "bind" /\ d # Tmp => n[d].type = "bind" /\ n[d].source = m[d].source
    <3>1. CASE d \in DOMAIN flags.mounts
      BY <2>1, <2>2, <3>1
    <3>2. CASE d \notin DOMAIN flags.mounts
      <4>1. d \in DOMAIN p.mounts /\ d \in DOMAIN q.mounts /\ m[d] = p.mounts[d] /\ n[d] = q.mounts[d] /\ d \in DOMAIN n
        BY <2>1, <2>2, <2>3, <3>2 DEF MountsBelow
      <4> QED BY <2>3, <4>1 DEF MountsBelow
    <3> QED BY <3>1, <3>2
  <2>5. ASSUME NEW d \in DOMAIN n \ DOMAIN m PROVE n[d].type = "bind" /\ n[d].source = d
    <3>1. d \in DOMAIN q.mounts \ DOMAIN p.mounts /\ n[d] = q.mounts[d]
      BY <2>1, <2>2, <2>5
    <3> QED BY <2>3, <3>1 DEF MountsBelow
  <2> QED BY <2>4, <2>5 DEF MountsBelow
<1> HIDE DEF m, n
<1>3. WithMounts(p, flags) = [p EXCEPT !.mounts = m] /\ WithMounts(q, flags) = [q EXCEPT !.mounts = n]
  BY DEF WithMounts, m, n
<1> QED BY <1>1, <1>2, <1>3 DEF BelowTyped, Below, Fields

LEMMA NetBelow ==
  ASSUME NEW p, NEW q, BelowTyped(p, q), NEW flags
  PROVE  /\ BelowTyped(WithNetMode(p, flags), WithNetMode(q, flags))
         /\ BelowTyped(WithNetAllow(p, flags), WithNetAllow(q, flags))
         /\ BelowTyped(WithNetDeny(p, flags), WithNetDeny(q, flags))
<1>1. DOMAIN p = Fields /\ DOMAIN q = Fields /\ Below(p, q)
  BY DEF BelowTyped
<1>2. BelowTyped(WithNetMode(p, flags), WithNetMode(q, flags))
  BY <1>1 DEF WithNetMode, BelowTyped, Below, Fields
<1>3. BelowTyped(WithNetAllow(p, flags), WithNetAllow(q, flags))
  <2>1. CASE flags.netAllow = {}
    BY <2>1 DEF WithNetAllow
  <2>2. CASE AnyEndpoint \in flags.netAllow
    <3>1. /\ WithNetAllow(p, flags)
              = [p EXCEPT !.network = "host", !.netAllow = {AnyEndpoint}, !.netDeny = p.netDeny \ {AnyEndpoint}]
          /\ WithNetAllow(q, flags)
              = [q EXCEPT !.network = "host", !.netAllow = {AnyEndpoint}, !.netDeny = q.netDeny \ {AnyEndpoint}]
      BY <2>2 DEF WithNetAllow
    <3> QED BY <1>1, <3>1 DEF BelowTyped, Below, Fields
  <2>3. CASE flags.netAllow # {} /\ AnyEndpoint \notin flags.netAllow
    <3>1. /\ WithNetAllow(p, flags)
              = [p EXCEPT !.network = IF p.network \in {Empty, "none"} THEN "host" ELSE p.network,
                          !.netAllow = p.netAllow \cup flags.netAllow]
          /\ WithNetAllow(q, flags)
              = [q EXCEPT !.network = IF q.network \in {Empty, "none"} THEN "host" ELSE q.network,
                          !.netAllow = q.netAllow \cup flags.netAllow]
      BY <2>3 DEF WithNetAllow
    <3> QED BY <1>1, <3>1 DEF BelowTyped, Below, Fields
  <2> QED BY <2>1, <2>2, <2>3
<1>4. BelowTyped(WithNetDeny(p, flags), WithNetDeny(q, flags))
  BY <1>1 DEF WithNetDeny, BelowTyped, Below, Fields
<1> QED BY <1>2, <1>3, <1>4

LEMMA AssetsBelow ==
  ASSUME NEW p, NEW q, BelowTyped(p, q)
  PROVE  BelowTyped(WithNetAssets(p), WithNetAssets(q))
<1> DEFINE own == [x \in NetworkAssets |-> Bind(x, "ro")]
           m == p.mounts ++ own
           n == q.mounts ++ own
           a == [p EXCEPT !.mounts = m]
           b == [q EXCEPT !.mounts = n]
           pOn == p.network = "host" \/ p.netAllow # {}
           qOn == q.network = "host" \/ q.netAllow # {}
<1>1. DOMAIN p = Fields /\ DOMAIN q = Fields /\ Below(p, q)
  BY DEF BelowTyped
<1>2. MountsBelow(p.mounts, q.mounts) /\ (pOn => qOn)
  BY <1>1 DEF Below
<1>3. DOMAIN own = NetworkAssets /\ \A d \in NetworkAssets : own[d].mode = "ro" /\ own[d].type = "bind" /\ own[d].source = d
  BY DEF Bind
<1> HIDE DEF own
<1>4. /\ DOMAIN m = DOMAIN p.mounts \cup DOMAIN own
      /\ \A d \in DOMAIN p.mounts : m[d] = p.mounts[d]
      /\ \A d \in DOMAIN own \ DOMAIN p.mounts : m[d] = own[d]
  BY OverlayDomain
<1>5. /\ DOMAIN n = DOMAIN q.mounts \cup DOMAIN own
      /\ \A d \in DOMAIN q.mounts : n[d] = q.mounts[d]
      /\ \A d \in DOMAIN own \ DOMAIN q.mounts : n[d] = own[d]
  BY OverlayDomain
<1> HIDE DEF m, n
<1>6. MountsBelow(p.mounts, n)
  <2>1. ASSUME NEW d \in DOMAIN p.mounts PROVE d \in DOMAIN q.mounts /\ n[d] = q.mounts[d] /\ d \in DOMAIN n
    BY <1>2, <1>5 DEF MountsBelow
  <2>2. ASSUME NEW d \in DOMAIN n \ DOMAIN p.mounts PROVE n[d].type = "bind" /\ n[d].source = d
    <3>1. CASE d \in DOMAIN q.mounts
      BY <1>2, <1>5, <2>2, <3>1 DEF MountsBelow
    <3>2. CASE d \notin DOMAIN q.mounts
      BY <1>3, <1>5, <2>2, <3>2
    <3> QED BY <3>1, <3>2
  <2> QED BY <1>2, <2>1, <2>2 DEF MountsBelow
<1>7. MountsBelow(m, n)
  <2>1. ASSUME NEW d \in DOMAIN m
        PROVE  /\ d \in DOMAIN n
               /\ m[d].mode = "rw" => n[d].mode = "rw"
               /\ m[d].type = "bind" /\ d # Tmp => n[d].type = "bind" /\ n[d].source = m[d].source
    <3>1. CASE d \in DOMAIN p.mounts
      BY <1>4, <1>6, <3>1 DEF MountsBelow
    <3>2. CASE d \notin DOMAIN p.mounts
      <4>1. d \in NetworkAssets /\ m[d] = own[d] /\ d \in DOMAIN n
        BY <1>3, <1>4, <1>5, <3>2
      <4>2. n[d].type = "bind" /\ n[d].source = d
        BY <1>6, <3>2, <4>1 DEF MountsBelow
      <4> QED BY <1>3, <4>1, <4>2
    <3> QED BY <3>1, <3>2
  <2>2. ASSUME NEW d \in DOMAIN n \ DOMAIN m PROVE n[d].type = "bind" /\ n[d].source = d
    BY <1>4, <1>6, <2>2 DEF MountsBelow
  <2> QED BY <2>1, <2>2 DEF MountsBelow
<1>8. BelowTyped(p, b) /\ BelowTyped(a, b)
  BY <1>1, <1>6, <1>7 DEF BelowTyped, Below, Fields
<1> HIDE DEF a, b
<1>9. WithNetAssets(p) = (IF pOn THEN a ELSE p) /\ WithNetAssets(q) = (IF qOn THEN b ELSE q)
  BY DEF WithNetAssets, ResolveNetworkAssetMounts, a, b, m, n, own
<1> QED BY <1>2, <1>8, <1>9

LEMMA RulesBelow ==
  ASSUME NEW p, NEW q, BelowTyped(p, q), NEW flags
  PROVE  /\ BelowTyped(WithExecAllow(p, flags), WithExecAllow(q, flags))
         /\ BelowTyped(WithExecDeny(p, flags), WithExecDeny(q, flags))
         /\ BelowTyped(WithCalls(p, flags), WithCalls(q, flags))
<1>1. DOMAIN p = Fields /\ DOMAIN q = Fields /\ Below(p, q)
  BY DEF BelowTyped
<1>2. BelowTyped(WithExecAllow(p, flags), WithExecAllow(q, flags))
  <2>1. CASE flags.execAllow = {}
    BY <2>1 DEF WithExecAllow
  <2>2. CASE flags.execAllow # {}
    BY <1>1, <2>2 DEF WithExecAllow, BelowTyped, Below, Fields
  <2> QED BY <2>1, <2>2
<1>3. BelowTyped(WithExecDeny(p, flags), WithExecDeny(q, flags))
  BY <1>1 DEF WithExecDeny, BelowTyped, Below, Fields
<1>4. BelowTyped(WithCalls(p, flags), WithCalls(q, flags))
  BY <1>1 DEF WithCalls, BelowTyped, Below, Fields
<1> QED BY <1>2, <1>3, <1>4

LEMMA OverridesBelow ==
  ASSUME NEW p, NEW q, BelowTyped(p, q), PathsBelow(p, q), NEW flags, SpecTyped(flags)
  PROVE  BelowTyped(ApplyCLIOverrides(p, flags), ApplyCLIOverrides(q, flags))
<1> DEFINE a(x) == WithEnabled(x, flags)
           b(x) == WithPaths(a(x), flags)
           c(x) == WithMounts(b(x), flags)
           d(x) == WithNetMode(c(x), flags)
           e(x) == WithNetAllow(d(x), flags)
           f(x) == WithNetDeny(e(x), flags)
           g(x) == WithNetAssets(f(x))
           h(x) == WithExecAllow(g(x), flags)
           i(x) == WithExecDeny(h(x), flags)
           j(x) == WithCalls(i(x), flags)
<1>1. \A x : ApplyCLIOverrides(x, flags) = j(x)
  BY DEF ApplyCLIOverrides
<1>2. BelowTyped(a(p), a(q)) /\ PathsBelow(a(p), a(q))
  BY EnabledBelow
<1> HIDE DEF a
<1>3. BelowTyped(b(p), b(q))
  BY <1>2, WithPathsBelow
<1> HIDE DEF b
<1>4. BelowTyped(c(p), c(q))
  BY <1>3, WithMountsBelow
<1> HIDE DEF c
<1>5. BelowTyped(d(p), d(q))
  BY <1>4, NetBelow
<1> HIDE DEF d
<1>6. BelowTyped(e(p), e(q))
  BY <1>5, NetBelow
<1> HIDE DEF e
<1>7. BelowTyped(f(p), f(q))
  BY <1>6, NetBelow
<1> HIDE DEF f
<1>8. BelowTyped(g(p), g(q))
  BY <1>7, AssetsBelow
<1> HIDE DEF g
<1>9. BelowTyped(h(p), h(q))
  BY <1>8, RulesBelow
<1> HIDE DEF h
<1>10. BelowTyped(i(p), i(q))
  BY <1>9, RulesBelow
<1> HIDE DEF i
<1>11. BelowTyped(j(p), j(q))
  BY <1>10, RulesBelow
<1> HIDE DEF j
<1> QED BY <1>1, <1>11

-----------------------------------------------------------------------------
(* What grows with a profile grows in the rules it compiles to.                  *)

LEMMA RulesGrow ==
  ASSUME NEW P, NEW Q, P \subseteq Q
  PROVE  /\ PathReadRules(P) \subseteq PathReadRules(Q) /\ PathWriteRules(P) \subseteq PathWriteRules(Q)
         /\ PathReadRules(P) \subseteq PathWriteRules(Q) /\ ExecRules(P) \subseteq ExecRules(Q)
<1>1. PathReadRules(P) \subseteq PathReadRules(Q)
  BY DEF PathReadRules
<1>2. PathWriteRules(P) \subseteq PathWriteRules(Q)
  <2> DEFINE more(S) == UNION {TreeRules("write", Expand(p)) \cup TreeRules("delete", Expand(p))
                                 \cup {ParseRule("sql", "open", "sqlite", Memory)} : p \in S}
  <2>1. more(P) \subseteq more(Q)
    OBVIOUS
  <2>2. PathWriteRules(P) = PathReadRules(P) \cup more(P) /\ PathWriteRules(Q) = PathReadRules(Q) \cup more(Q)
    BY DEF PathWriteRules
  <2> HIDE DEF more
  <2> QED BY <1>1, <2>1, <2>2
<1>3. PathReadRules(Q) \subseteq PathWriteRules(Q)
  BY Zenon DEF PathWriteRules
<1>4. ExecRules(P) \subseteq ExecRules(Q)
  BY DEF ExecRules
<1> QED BY <1>1, <1>2, <1>3, <1>4

LEMMA MoreMatch ==
  ASSUME NEW P, NEW Q, P \subseteq Q, NEW op PROVE MatchesOneOf(P, op) => MatchesOneOf(Q, op)
  BY DEF MatchesOneOf

MountedRules(p) == UNION {MountRules(d, p.mounts[d]) : d \in DOMAIN p.mounts}
BinaryRules(p) == ExecRules(p.execAllow) \cup (IF ~p.noExec /\ p.execAllow = {} THEN ExecRules(p.execPaths) ELSE {})
Granting(p) ==
  PathReadRules(p.read) \cup PathWriteRules(p.write) \cup MountedRules(p)
    \cup AmbientRules(p) \cup BinaryRules(p) \cup NetworkRules(p) \cup p.callAllow
Denying(p) == ExecRules(p.execDeny) \cup SynthesizeNetworkRules(p.netDeny) \cup p.callDeny

LEMMA Switched ==
  ASSUME NEW p, NEW op
  PROVE  /\ p.enabled => (Allows(CompilePermissions(p), op)
                            <=> ~MatchesOneOf(Denying(p), op) /\ MatchesOneOf(Granting(p), op))
         /\ ~p.enabled => (Allows(CompilePermissions(p), op)
                            <=> ~MatchesOneOf(p.callDeny, op) /\ ~MatchesOneOf(ExecRules(p.execDeny), op))
<1>1. ASSUME p.enabled
      PROVE  Allows(CompilePermissions(p), op) <=> ~MatchesOneOf(Denying(p), op) /\ MatchesOneOf(Granting(p), op)
  <2> DEFINE bins == IF ~p.noExec /\ p.execAllow = {} THEN ExecRules(p.execPaths) ELSE {}
             given == PathReadRules(p.read) \cup PathWriteRules(p.write) \cup MountedRules(p)
                         \cup AmbientRules(p) \cup ExecRules(p.execAllow) \cup bins \cup NetworkRules(p) \cup p.callAllow
             conf == CompilePermissions(p)
  <2>1. conf = Config(given, Denying(p), "deny")
    BY <1>1, Zenon DEF CompilePermissions, Denying, MountedRules
  <2>2. conf.allow = given /\ conf.deny = Denying(p) /\ conf.default = "deny"
    <3> HIDE DEF given, conf
    <3> QED BY <2>1 DEF Config
  <2>3. given = Granting(p)
    <3>1. BinaryRules(p) = ExecRules(p.execAllow) \cup bins
      BY DEF BinaryRules
    <3> HIDE DEF bins
    <3> QED BY <3>1 DEF Granting
  <2> HIDE DEF given, conf
  <2>4. Allows(conf, op) <=> ~MatchesOneOf(Denying(p), op) /\ MatchesOneOf(Granting(p), op)
    BY <2>2, <2>3 DEF Allows
  <2> QED BY <2>4 DEF conf
<1>2. ASSUME ~p.enabled
      PROVE  Allows(CompilePermissions(p), op) <=> ~MatchesOneOf(p.callDeny, op) /\ ~MatchesOneOf(ExecRules(p.execDeny), op)
  <2> DEFINE conf == CompilePermissions(p)
  <2>1. conf = Config({Whole("*", "*")}, p.callDeny \cup ExecRules(p.execDeny), "allow")
    BY <1>2, Zenon DEF CompilePermissions
  <2> HIDE DEF conf
  <2>2. conf.deny = p.callDeny \cup ExecRules(p.execDeny) /\ conf.default = "allow"
    BY <2>1 DEF Config
  <2>3. Allows(conf, op) <=> ~MatchesOneOf(p.callDeny \cup ExecRules(p.execDeny), op)
    BY <2>2 DEF Allows
  <2> QED BY <2>3, OneOfTwo DEF conf
<1> QED BY <1>1, <1>2

LEMMA MountGrows ==
  ASSUME NEW m, NEW n, MountsBelow(m, n), NEW d \in DOMAIN m, \A x \in DOMAIN m : m[x].mode \in {"ro", "rw"}
  PROVE  MountRules(d, m[d]) \subseteq MountRules(d, n[d])
<1> DEFINE P == {d} \cup (IF m[d].type = "bind" /\ d # Tmp THEN {m[d].source} ELSE {})
           Q == {d} \cup (IF n[d].type = "bind" /\ d # Tmp THEN {n[d].source} ELSE {})
<1>1. /\ m[d].mode = "rw" => n[d].mode = "rw"
      /\ m[d].type = "bind" /\ d # Tmp => n[d].type = "bind" /\ n[d].source = m[d].source
  BY DEF MountsBelow
<1>2. P \subseteq Q
  BY <1>1
<1>3. /\ MountRules(d, m[d]) = IF m[d].mode = "rw" THEN PathWriteRules(P) ELSE PathReadRules(P)
      /\ MountRules(d, n[d]) = IF n[d].mode = "rw" THEN PathWriteRules(Q) ELSE PathReadRules(Q)
  BY DEF MountRules
<1> HIDE DEF P, Q
<1> QED BY <1>1, <1>2, <1>3, RulesGrow

LEMMA GrantingGrows ==
  ASSUME NEW p, NEW q, Below(p, q), \A d \in DOMAIN p.mounts : p.mounts[d].mode \in {"ro", "rw"}
  PROVE  Granting(p) \subseteq Granting(q)
<1>1. PathReadRules(p.read) \subseteq PathReadRules(q.read) /\ PathWriteRules(p.write) \subseteq PathWriteRules(q.write)
  BY RulesGrow DEF Below
<1>2. MountsBelow(p.mounts, q.mounts)
  BY DEF Below
<1>3. MountedRules(p) \subseteq MountedRules(q)
  <2>1. ASSUME NEW d \in DOMAIN p.mounts
        PROVE  d \in DOMAIN q.mounts /\ MountRules(d, p.mounts[d]) \subseteq MountRules(d, q.mounts[d])
    <3>1. d \in DOMAIN q.mounts
      BY <1>2 DEF MountsBelow
    <3> QED BY <1>2, <3>1, MountGrows
  <2> QED BY <2>1 DEF MountedRules
<1>4. AmbientRules(p) \subseteq AmbientRules(q)
  <2> DEFINE P == p.read \cup p.write \cup (DOMAIN p.mounts \ {Tmp})
             Q == q.read \cup q.write \cup (DOMAIN q.mounts \ {Tmp})
             ambient == {Whole("os", "env"), Whole("io", "prompt")}
  <2>1. P \subseteq Q /\ p.callDeny = q.callDeny
    BY <1>2 DEF Below, MountsBelow
  <2>2. /\ AmbientRules(p) = IF P = {} THEN {} ELSE ambient \ p.callDeny
        /\ AmbientRules(q) = IF Q = {} THEN {} ELSE ambient \ q.callDeny
    BY DEF AmbientRules
  <2> HIDE DEF P, Q, ambient
  <2> QED BY <2>1, <2>2
<1>5. BinaryRules(p) \subseteq BinaryRules(q)
  <2>1. ExecRules(p.execAllow) \subseteq ExecRules(q.execAllow)
    BY RulesGrow DEF Below
  <2>2. ExecRules({}) = {}
    BY DEF ExecRules
  <2>3. p.execAllow = {} => p.execPaths = {}
    BY DEF Below
  <2> QED BY <2>1, <2>2, <2>3 DEF BinaryRules
<1>6. NetworkRules(p) \subseteq NetworkRules(q)
  <2>1. p.netAllow = q.netAllow /\ (p.network = q.network \/ (p.network = "none" /\ q.network = "host"))
    BY DEF Below
  <2>2. CASE p.network = q.network
    BY <2>1, <2>2 DEF NetworkRules
  <2>3. CASE p.network = "none" /\ q.network = "host"
    <3>1. "host" # Empty
      BY ModeFacts
    <3>2. CASE p.netAllow = {}
      BY <2>3, <3>2 DEF NetworkRules
    <3>3. CASE p.netAllow # {}
      BY <2>1, <2>3, <3>1, <3>3 DEF NetworkRules, NetworkAllowRules
    <3> QED BY <3>2, <3>3
  <2> QED BY <2>1, <2>2, <2>3
<1>7. p.callAllow = q.callAllow
  BY DEF Below
<1> QED BY <1>1, <1>3, <1>4, <1>5, <1>6, <1>7 DEF Granting

LEMMA CompileBelow ==
  ASSUME NEW p, NEW q, Below(p, q), \A d \in DOMAIN p.mounts : p.mounts[d].mode \in {"ro", "rw"},
         p.enabled \in BOOLEAN, NEW op, Allows(CompilePermissions(p), op)
  PROVE  Allows(CompilePermissions(q), op)
<1>1. /\ ExecRules(q.execDeny) \subseteq ExecRules(p.execDeny) /\ p.callDeny = q.callDeny /\ p.netDeny = q.netDeny
      /\ p.enabled = q.enabled
  BY RulesGrow DEF Below
<1>2. CASE p.enabled
  <2>1. ~MatchesOneOf(Denying(p), op) /\ MatchesOneOf(Granting(p), op)
    BY <1>2, Switched
  <2>2. Denying(q) \subseteq Denying(p)
    BY <1>1 DEF Denying
  <2>3. ~MatchesOneOf(Denying(q), op) /\ MatchesOneOf(Granting(q), op)
    BY <2>1, <2>2, GrantingGrows, MoreMatch
  <2> QED BY <1>1, <1>2, <2>3, Switched
<1>3. CASE ~p.enabled
  <2>1. ~MatchesOneOf(p.callDeny, op) /\ ~MatchesOneOf(ExecRules(p.execDeny), op)
    BY <1>3, Switched
  <2>2. ~MatchesOneOf(q.callDeny, op) /\ ~MatchesOneOf(ExecRules(q.execDeny), op)
    BY <1>1, <2>1, MoreMatch
  <2> QED BY <1>1, <1>3, <2>2, Switched
<1> QED BY <1>2, <1>3

\* The top of the ladder: no rule but the denied calls and binaries, which are denied below as well.
Looser(p, q) ==
  DOMAIN p = Fields /\ DOMAIN q = Fields /\ ~q.enabled /\ q.execDeny \subseteq p.execDeny /\ p.callDeny = q.callDeny

LEMMA OverridesLooser ==
  ASSUME NEW p, NEW q, Looser(p, q), NEW flags, flags.enabled \in {"unset", "false"}
  PROVE  Looser(ApplyCLIOverrides(p, flags), ApplyCLIOverrides(q, flags))
<1> DEFINE a(x) == WithEnabled(x, flags)
           b(x) == WithPaths(a(x), flags)
           c(x) == WithMounts(b(x), flags)
           d(x) == WithNetMode(c(x), flags)
           e(x) == WithNetAllow(d(x), flags)
           f(x) == WithNetDeny(e(x), flags)
           g(x) == WithNetAssets(f(x))
           h(x) == WithExecAllow(g(x), flags)
           i(x) == WithExecDeny(h(x), flags)
           j(x) == WithCalls(i(x), flags)
<1>1. \A x : ApplyCLIOverrides(x, flags) = j(x)
  BY DEF ApplyCLIOverrides
<1>2. Looser(a(p), a(q))
  BY DEF WithEnabled, Looser, Fields
<1> HIDE DEF a
<1>3. Looser(b(p), b(q))
  BY <1>2 DEF WithPaths, Looser, Fields
<1> HIDE DEF b
<1>4. Looser(c(p), c(q))
  BY <1>3 DEF WithMounts, Looser, Fields
<1> HIDE DEF c
<1>5. Looser(d(p), d(q))
  BY <1>4 DEF WithNetMode, Looser, Fields
<1> HIDE DEF d
<1>6. Looser(e(p), e(q))
  BY <1>5 DEF WithNetAllow, Looser, Fields
<1> HIDE DEF e
<1>7. Looser(f(p), f(q))
  BY <1>6 DEF WithNetDeny, Looser, Fields
<1> HIDE DEF f
<1>8. Looser(g(p), g(q))
  BY <1>7 DEF WithNetAssets, Looser, Fields
<1> HIDE DEF g
<1>9. Looser(h(p), h(q))
  BY <1>8 DEF WithExecAllow, Looser, Fields
<1> HIDE DEF h
<1>10. Looser(i(p), i(q))
  BY <1>9 DEF WithExecDeny, Looser, Fields
<1> HIDE DEF i
<1>11. Looser(j(p), j(q))
  BY <1>10 DEF WithCalls, Looser, Fields
<1> HIDE DEF j
<1> QED BY <1>1, <1>11

LEMMA LooserGrants ==
  ASSUME NEW p, NEW q, Looser(p, q), p.enabled \in BOOLEAN, NEW op, Allows(CompilePermissions(p), op)
  PROVE  Allows(CompilePermissions(q), op)
<1>1. ExecRules(q.execDeny) \subseteq ExecRules(p.execDeny) /\ p.callDeny = q.callDeny /\ ~q.enabled
  BY RulesGrow DEF Looser
<1>2. ~MatchesOneOf(p.callDeny, op) /\ ~MatchesOneOf(ExecRules(p.execDeny), op)
  <2>1. CASE p.enabled
    <3>1. ~MatchesOneOf(Denying(p), op)
      BY <2>1, Switched
    <3>2. p.callDeny \subseteq Denying(p) /\ ExecRules(p.execDeny) \subseteq Denying(p)
      BY DEF Denying
    <3> QED BY <3>1, <3>2, MoreMatch
  <2>2. CASE ~p.enabled
    BY <2>2, Switched
  <2> QED BY <2>1, <2>2
<1>3. ~MatchesOneOf(q.callDeny, op) /\ ~MatchesOneOf(ExecRules(q.execDeny), op)
  BY <1>1, <1>2, MoreMatch
<1> QED BY <1>1, <1>3, Switched

-----------------------------------------------------------------------------
(* A profile without flags.                                                      *)

\* Every mount stays as it is, and what is added is read only.
MountsLeft(m, n) ==
  /\ \A d \in DOMAIN m : d \in DOMAIN n /\ n[d] = m[d]
  /\ \A d \in DOMAIN n \ DOMAIN m : Place(d) /\ n[d] = Bind(d, "ro")

Left(p, q) ==
  /\ DOMAIN p = Fields /\ DOMAIN q = Fields
  /\ q.enabled = p.enabled /\ q.network = p.network /\ q.netAllow = p.netAllow /\ q.netDeny = p.netDeny
  /\ q.read = p.read /\ q.write = p.write /\ q.execAllow = p.execAllow /\ q.execDeny = p.execDeny
  /\ q.callAllow = p.callAllow /\ q.callDeny = p.callDeny /\ (q.noExec <=> p.noExec) /\ q.execPaths = p.execPaths
  /\ MountsLeft(p.mounts, q.mounts)
  /\ p.network # "host" /\ p.netAllow = {} => DOMAIN q.mounts = DOMAIN p.mounts

LEMMA WithoutFlags ==
  ASSUME NEW p, DOMAIN p = Fields PROVE Left(p, ApplyCLIOverrides(p, NoFlags))
<1> DEFINE flags == NoFlags
           m == flags.mounts ++ p.mounts
           own == [x \in NetworkAssets |-> Bind(x, "ro")]
           n == m ++ own
           c == [p EXCEPT !.mounts = m]
           g == WithNetAssets(c)
           i == WithExecDeny(g, flags)
           j == WithCalls(i, flags)
<1>1. /\ flags.enabled = "unset" /\ flags.network = Empty /\ flags.read = {} /\ flags.write = {} /\ flags.netAllow = {}
      /\ flags.netDeny = {} /\ flags.execAllow = {} /\ flags.execDeny = {} /\ flags.callAllow = {} /\ flags.callDeny = {}
      /\ DOMAIN flags.mounts = {}
  BY DEF NoFlags
<1>2. DOMAIN own = NetworkAssets /\ \A d \in NetworkAssets : own[d] = Bind(d, "ro")
  OBVIOUS
<1>3. ASSUME NEW d \in NetworkAssets PROVE Place(d)
  BY AssetsAssumption, AbsoluteIsPlace
<1> HIDE DEF flags, own
<1>4. /\ WithEnabled(p, flags) = p /\ WithPaths(p, flags) = p /\ WithMounts(p, flags) = c
  BY <1>1 DEF WithEnabled, WithPaths, WithMounts
<1> HIDE DEF m
<1>5. /\ WithNetMode(c, flags) = c /\ WithNetAllow(c, flags) = c /\ WithNetDeny(c, flags) = c
  <2> HIDE DEF c
  <2> QED BY <1>1 DEF WithNetMode, WithNetAllow, WithNetDeny
<1>6. WithExecAllow(g, flags) = g
  <2> HIDE DEF g
  <2> QED BY <1>1 DEF WithExecAllow
<1>7. ApplyCLIOverrides(p, flags) = j
  <2> HIDE DEF c
  <2>1. WithNetAssets(WithNetDeny(WithNetAllow(WithNetMode(WithMounts(WithPaths(WithEnabled(p, flags), flags), flags), flags),
                                               flags), flags)) = g
    BY <1>4, <1>5
  <2> HIDE DEF g
  <2> QED BY <1>6, <2>1 DEF ApplyCLIOverrides
<1>8. DOMAIN m = DOMAIN p.mounts /\ \A d \in DOMAIN p.mounts : m[d] = p.mounts[d]
  <2>1. /\ DOMAIN (flags.mounts ++ p.mounts) = DOMAIN flags.mounts \cup DOMAIN p.mounts
        /\ \A d \in DOMAIN p.mounts \ DOMAIN flags.mounts : (flags.mounts ++ p.mounts)[d] = p.mounts[d]
    BY OverlayDomain
  <2> QED BY <1>1, <2>1 DEF m
<1>9. /\ DOMAIN n = DOMAIN m \cup DOMAIN own /\ \A d \in DOMAIN m : n[d] = m[d]
      /\ \A d \in DOMAIN own \ DOMAIN m : n[d] = own[d]
  BY OverlayDomain
<1> HIDE DEF n
<1>10. MountsLeft(p.mounts, m) /\ MountsLeft(p.mounts, n)
  BY <1>2, <1>3, <1>8, <1>9 DEF MountsLeft
<1>11. g = IF p.network = "host" \/ p.netAllow # {} THEN [c EXCEPT !.mounts = n] ELSE c
  <2>1. c.network = p.network /\ c.netAllow = p.netAllow /\ c.mounts = m
    BY DEF Fields
  <2> HIDE DEF c
  <2> QED BY <2>1 DEF WithNetAssets, ResolveNetworkAssetMounts, n, own
<1>12. Left(p, g)
  <2>1. Left(p, c)
    BY <1>8, <1>10 DEF Left, Fields
  <2>2. Left(p, [c EXCEPT !.mounts = n]) \/ (p.network # "host" /\ p.netAllow = {})
    BY <1>10 DEF Left, Fields
  <2> HIDE DEF c, g
  <2> QED BY <1>11, <2>1, <2>2
<1> HIDE DEF g
<1>13. Left(p, i)
  <2>1. i = [g EXCEPT !.execDeny = g.execDeny \cup {}, !.noExec = g.noExec \/ (Star \in {} /\ g.execAllow = {})]
    BY <1>1 DEF WithExecDeny
  <2> HIDE DEF i
  <2> QED BY <1>12, <2>1 DEF Left, Fields
<1> HIDE DEF i
<1>14. Left(p, j)
  <2>1. j = [i EXCEPT !.callAllow = i.callAllow \cup {}, !.callDeny = i.callDeny \cup {}]
    BY <1>1 DEF WithCalls
  <2> HIDE DEF j
  <2> QED BY <1>13, <2>1 DEF Left, Fields
<1> QED BY <1>7, <1>14 DEF flags

\* What the built-in profiles have in common, and what tells them apart.
Bare(p) ==
  /\ DOMAIN p = Fields /\ p.netAllow = {} /\ p.netDeny = {} /\ p.callAllow = {} /\ p.callDeny = {}
  /\ p.execPaths = {}

InCwdBare(p) == Bare(p) /\ p.enabled /\ p.read = {Cwd} /\ p.write = {Cwd}

LEMMA BuiltinBare ==
  /\ LET p == LoadBuiltin("deny-all")
     IN /\ Bare(p) /\ p.enabled /\ p.network = "none" /\ p.read = {} /\ p.write = {}
        /\ p.execAllow = {} /\ p.execDeny = {Star} /\ p.noExec /\ p.mounts = MountAt(Tmp, Tmpfs("rw"))
  /\ LET p == LoadBuiltin("sandbox-path")
     IN InCwdBare(p) /\ p.network = "none" /\ p.execAllow = {} /\ p.execDeny = {Star} /\ p.mounts = InCwd.mounts
  /\ LET p == LoadBuiltin("sandbox-exec")
     IN InCwdBare(p) /\ p.network = "none" /\ p.execAllow = {Star} /\ p.execDeny = {} /\ p.mounts = InCwd.mounts
  /\ LET p == LoadBuiltin("sandbox-net")
     IN /\ InCwdBare(p) /\ p.network = "host" /\ p.execAllow = {Star} /\ p.execDeny = {}
        /\ p.mounts = ResolveNetworkAssetMounts(InCwd.mounts)
  /\ LET p == LoadBuiltin("unconfined")
     IN Bare(p) /\ ~p.enabled /\ p.execDeny = {}
<1> DEFINE tmp == MountAt(Tmp, Tmpfs("rw"))
           m == InCwd.mounts
           n == ResolveNetworkAssetMounts(m)
<1>2. LoadBuiltin("deny-all")
        = [ZeroProfile EXCEPT !.enabled = TRUE, !.network = "none", !.execDeny = {Star}, !.noExec = TRUE, !.mounts = tmp]
  BY Zenon DEF LoadBuiltin
<1>3. LoadBuiltin("sandbox-path") = [InCwd EXCEPT !.execDeny = {Star}, !.noExec = TRUE]
  BY DEF LoadBuiltin
<1>4. LoadBuiltin("sandbox-exec") = [InCwd EXCEPT !.execAllow = {Star}]
  BY DEF LoadBuiltin
<1>5. LoadBuiltin("sandbox-net") = [InCwd EXCEPT !.execAllow = {Star}, !.network = "host", !.mounts = n]
  BY DEF LoadBuiltin
<1>6. LoadBuiltin("unconfined") = [ZeroProfile EXCEPT !.network = "host"]
  BY DEF LoadBuiltin
<1> HIDE DEF tmp, n
<1>7. LET p == LoadBuiltin("deny-all")
     IN /\ Bare(p) /\ p.enabled /\ p.network = "none" /\ p.read = {} /\ p.write = {}
        /\ p.execAllow = {} /\ p.execDeny = {Star} /\ p.noExec /\ p.mounts = tmp
  BY ZeroFields, <1>2 DEF Bare, Fields
<1>8. LET p == LoadBuiltin("sandbox-path")
     IN InCwdBare(p) /\ p.network = "none" /\ p.execAllow = {} /\ p.execDeny = {Star} /\ p.mounts = m
  BY InCwdFields, <1>3 DEF InCwdBare, Bare, Fields
<1>9. LET p == LoadBuiltin("sandbox-exec")
     IN InCwdBare(p) /\ p.network = "none" /\ p.execAllow = {Star} /\ p.execDeny = {} /\ p.mounts = m
  BY InCwdFields, <1>4 DEF InCwdBare, Bare, Fields
<1>10. LET p == LoadBuiltin("sandbox-net")
     IN InCwdBare(p) /\ p.network = "host" /\ p.execAllow = {Star} /\ p.execDeny = {} /\ p.mounts = n
  BY InCwdFields, <1>5 DEF InCwdBare, Bare, Fields
<1>11. LET p == LoadBuiltin("unconfined") IN Bare(p) /\ ~p.enabled /\ p.execDeny = {}
  BY ZeroFields, <1>6 DEF Bare, Fields
<1> QED BY <1>7, <1>8, <1>9, <1>10, <1>11 DEF tmp, n

\* What a profile compiles to is all that is granted, if nothing is denied.
LEMMA NothingDenied ==
  ASSUME NEW p, Bare(p), p.execDeny = {}, NEW op
  PROVE  /\ p.enabled => (Allows(CompilePermissions(p), op) <=> MatchesOneOf(Granting(p), op))
         /\ ~p.enabled => Allows(CompilePermissions(p), op)
<1>1. ExecRules({}) = {} /\ SynthesizeNetworkRules({}) = {}
  BY DEF ExecRules, SynthesizeNetworkRules
<1>2. Denying(p) = {} /\ p.callDeny = {} /\ ExecRules(p.execDeny) = {}
  BY <1>1 DEF Denying, Bare
<1>3. ~MatchesOneOf({}, op)
  BY DEF MatchesOneOf
<1> QED BY <1>2, <1>3, Switched

\* deny-all and sandbox-path deny what is executed.
LEMMA BinariesDenied ==
  ASSUME NEW p, Bare(p), p.enabled, p.execDeny = {Star}, NEW op
  PROVE  Allows(CompilePermissions(p), op)
           <=> /\ ~(op.module = "os" /\ op.category \in {"exec", "shell"})
               /\ MatchesOneOf(Granting(p), op)
<1>1. SynthesizeNetworkRules({}) = {}
  BY DEF SynthesizeNetworkRules
<1>2. ExecRules({Star}) = {Whole("os", "exec"), Whole("os", "shell")}
  BY DEF ExecRules
<1>3. Denying(p) = {Whole("os", "exec"), Whole("os", "shell")}
  BY <1>1, <1>2 DEF Denying, Bare
<1>4. MatchesOneOf(Denying(p), op) <=> op.module = "os" /\ op.category \in {"exec", "shell"}
  BY <1>3 DEF MatchesOneOf, Matches, Whole, Rule
<1> QED BY <1>4, Switched

LEMMA LeftBare ==
  ASSUME NEW p, NEW q, Left(p, q)
  PROVE  (Bare(p) => Bare(q)) /\ (InCwdBare(p) => InCwdBare(q))
  BY DEF Left, Bare, InCwdBare

LEMMA StarRules == ExecRules({Star}) = {Whole("os", "exec"), Whole("os", "shell")}
  BY DEF ExecRules

\* The rules of sandbox-path are what every profile with the working directory grants.
LEMMA PathRulesGranted ==
  ASSUME NEW p, InCwdBare(p) PROVE SandboxPathRules \subseteq Granting(p)
<1>1. Expand(Cwd) = Cwd /\ p.read = {Cwd} /\ p.write = {Cwd} /\ p.callDeny = {}
  BY CwdPlace DEF InCwdBare, Bare
<1>2. /\ ParseRule("fs", "read", Empty, Tree(Cwd)) \in PathReadRules({Cwd})
      /\ ParseRule("sql", "open", "sqlite", Tree(Cwd)) \in PathReadRules({Cwd})
  BY <1>1 DEF PathReadRules, TreeRules
<1>3. /\ ParseRule("fs", "write", Empty, Tree(Cwd)) \in PathWriteRules({Cwd})
      /\ ParseRule("fs", "delete", Empty, Tree(Cwd)) \in PathWriteRules({Cwd})
      /\ ParseRule("sql", "open", "sqlite", Memory) \in PathWriteRules({Cwd})
  <2> DEFINE rules(x) == TreeRules("write", Expand(x)) \cup TreeRules("delete", Expand(x))
                           \cup {ParseRule("sql", "open", "sqlite", Memory)}
  <2>1. PathWriteRules({Cwd}) = PathReadRules({Cwd}) \cup UNION {rules(x) : x \in {Cwd}}
    BY DEF PathWriteRules
  <2>2. /\ ParseRule("fs", "write", Empty, Tree(Cwd)) \in rules(Cwd)
        /\ ParseRule("fs", "delete", Empty, Tree(Cwd)) \in rules(Cwd)
        /\ ParseRule("sql", "open", "sqlite", Memory) \in rules(Cwd)
    BY <1>1 DEF TreeRules
  <2> HIDE DEF rules
  <2> QED BY <2>1, <2>2
<1>4. Whole("os", "env") \in AmbientRules(p) /\ Whole("io", "prompt") \in AmbientRules(p)
  BY <1>1 DEF AmbientRules
<1>5. ASSUME NEW r \in SandboxPathRules
      PROVE  r \in PathReadRules(p.read) \cup PathWriteRules(p.write) \cup AmbientRules(p)
  BY <1>1, <1>2, <1>3, <1>4 DEF SandboxPathRules
<1> QED BY <1>5 DEF Granting

LEMMA NetRulesGranted ==
  ASSUME NEW p, InCwdBare(p), p.network = "host" PROVE SandboxNetRules \subseteq Granting(p)
<1>1. "host" # Empty
  BY ModeFacts
<1>2. NetworkRules(p) = SandboxNetRules
  BY <1>1 DEF NetworkRules, NetworkAllowRules, InCwdBare, Bare
<1> QED BY <1>2 DEF Granting

\* The suggestion is one of the four profiles above deny-all; used without flags, it grants the operation.
LEMMA RungGrants ==
  ASSUME NEW op, NEW i \in 1 .. 4, Allows(SuggestLadder[i].config, op)
  PROVE  Allows(CompilePermissions(ApplyCLIOverrides(LoadBuiltin(SuggestLadder[i].name), NoFlags)), op)
<1> DEFINE p == LoadBuiltin(SuggestLadder[i].name)
           q == ApplyCLIOverrides(p, NoFlags)
<1>1. ASSUME NEW rules, Allows(Config(rules, {}, "deny"), op) PROVE MatchesOneOf(rules, op)
  BY <1>1 DEF Allows, Config
<1>2. DOMAIN p = Fields => Left(p, q)
  BY WithoutFlags
<1>3. CASE i = 1
  <2>1. p = LoadBuiltin("sandbox-path") /\ MatchesOneOf(SandboxPathRules, op)
    BY <1>1, <1>3 DEF SuggestLadder
  <2>2. InCwdBare(p) /\ p.execDeny = {Star} /\ DOMAIN p = Fields
    BY <2>1, BuiltinBare DEF InCwdBare, Bare
  <2> HIDE DEF p, q
  <2>3. InCwdBare(q) /\ q.execDeny = {Star}
    BY <1>2, <2>2, LeftBare DEF Left
  <2>4. MatchesOneOf(Granting(q), op)
    BY <2>1, <2>3, PathRulesGranted, MoreMatch
  <2>5. ~(op.module = "os" /\ op.category \in {"exec", "shell"})
    BY <2>1 DEF MatchesOneOf, Matches, SandboxPathRules, Whole, ParseRule, Rule
  <2>6. Bare(q) /\ q.enabled
    BY <2>3 DEF InCwdBare
  <2> QED BY <2>3, <2>4, <2>5, <2>6, BinariesDenied DEF p, q
<1>4. CASE i = 2
  <2>1. p = LoadBuiltin("sandbox-exec") /\ MatchesOneOf(SandboxPathRules \cup SandboxExecRules, op)
    BY <1>1, <1>4 DEF SuggestLadder
  <2>2. InCwdBare(p) /\ p.execAllow = {Star} /\ p.execDeny = {} /\ DOMAIN p = Fields
    BY <2>1, BuiltinBare DEF InCwdBare, Bare
  <2> HIDE DEF p, q
  <2>3. InCwdBare(q) /\ q.execAllow = {Star} /\ q.execDeny = {}
    BY <1>2, <2>2, LeftBare DEF Left
  <2>4. SandboxExecRules \subseteq Granting(q)
    BY <2>3, StarRules DEF SandboxExecRules, Granting, BinaryRules
  <2>5. MatchesOneOf(Granting(q), op)
    <3>1. SandboxPathRules \cup SandboxExecRules \subseteq Granting(q)
      BY <2>3, <2>4, PathRulesGranted
    <3> QED BY <2>1, <3>1, MoreMatch
  <2>6. Bare(q) /\ q.enabled
    BY <2>3 DEF InCwdBare
  <2> QED BY <2>3, <2>5, <2>6, NothingDenied DEF p, q
<1>5. CASE i = 3
  <2>1. p = LoadBuiltin("sandbox-net") /\ MatchesOneOf(SandboxPathRules \cup SandboxExecRules \cup SandboxNetRules, op)
    BY <1>1, <1>5 DEF SuggestLadder
  <2>2. InCwdBare(p) /\ p.execAllow = {Star} /\ p.execDeny = {} /\ p.network = "host" /\ DOMAIN p = Fields
    BY <2>1, BuiltinBare DEF InCwdBare, Bare
  <2> HIDE DEF p, q
  <2>3. InCwdBare(q) /\ q.execAllow = {Star} /\ q.execDeny = {} /\ q.network = "host"
    BY <1>2, <2>2, LeftBare DEF Left
  <2>4. SandboxExecRules \subseteq Granting(q)
    BY <2>3, StarRules DEF SandboxExecRules, Granting, BinaryRules
  <2>5. MatchesOneOf(Granting(q), op)
    <3>1. SandboxPathRules \cup SandboxExecRules \cup SandboxNetRules \subseteq Granting(q)
      BY <2>3, <2>4, PathRulesGranted, NetRulesGranted
    <3> QED BY <2>1, <3>1, MoreMatch
  <2>6. Bare(q) /\ q.enabled
    BY <2>3 DEF InCwdBare
  <2> QED BY <2>3, <2>5, <2>6, NothingDenied DEF p, q
<1>6. CASE i = 4
  <2>1. p = LoadBuiltin("unconfined")
    BY <1>6 DEF SuggestLadder
  <2>2. Bare(p) /\ ~p.enabled /\ p.execDeny = {} /\ DOMAIN p = Fields
    BY <2>1, BuiltinBare DEF Bare
  <2> HIDE DEF p, q
  <2>3. Bare(q) /\ ~q.enabled /\ q.execDeny = {}
    BY <1>2, <2>2, LeftBare DEF Left
  <2> QED BY <2>3, NothingDenied DEF p, q
<1> QED BY <1>3, <1>4, <1>5, <1>6

LEMMA SuggestionNames ==
  ASSUME NEW i \in 1 .. 4 PROVE IsBuiltin(SuggestLadder[i].name)
  BY DEF SuggestLadder, IsBuiltin, Rungs, ToSet

\* The profile that a denial suggests (suggestProfile), used without flags, grants the denied operation
\* (loadProfileResolved, CompilePermissions), for every operation.
THEOREM SuggestionHelpsCorrect == Spec => []SuggestionHelps
<1>1. ASSUME SPInv PROVE SuggestionHelps
  <2> SUFFICES ASSUME answer.suggestion # "none"
               PROVE  Allows(ConfigOf([command EXCEPT !.profile = answer.suggestion, !.flags = NoFlags]), answer.op)
    BY DEF SuggestionHelps
  <2> DEFINE c == [command EXCEPT !.profile = answer.suggestion, !.flags = NoFlags]
  <2>1. command \in Commands /\ answer.suggestion = SuggestProfile(answer.op)
    BY <1>1 DEF SPInv, TypeOK, Story
  <2>2. PICK i \in 1 .. 4 : answer.suggestion = SuggestLadder[i].name /\ Allows(SuggestLadder[i].config, answer.op)
    BY <2>1, Suggested
  <2>3. DOMAIN command = {"profile", "flags", "file"}
    BY <2>1, CommandsAssumption
  <2>4. c.profile = SuggestLadder[i].name /\ c.flags = NoFlags
    BY <2>2, <2>3
  <2> HIDE DEF c
  <2>5. ResolveProfile(c) = LoadBuiltin(SuggestLadder[i].name)
    BY <2>4, SuggestionNames, ResolvedBuiltin
  <2>6. ConfigOf(c) = CompilePermissions(ApplyCLIOverrides(LoadBuiltin(SuggestLadder[i].name), NoFlags))
    BY <2>4, <2>5 DEF ConfigOf
  <2> QED BY <2>2, <2>6, RungGrants DEF c
<1> QED BY <1>1, SPInvariant, PTL

\* With the same flags a rung never loses what the rung below grants.
LEMMA NeverLoses ==
  ASSUME NEW flags, SpecTyped(flags), NEW i \in 1 .. 4, ~(Rungs[i + 1] = "unconfined" /\ flags.enabled = "true"),
         NEW op, Allows(CompilePermissions(ApplyCLIOverrides(LoadBuiltin(Rungs[i]), flags)), op)
  PROVE  Allows(CompilePermissions(ApplyCLIOverrides(LoadBuiltin(Rungs[i + 1]), flags)), op)
<1> DEFINE p == LoadBuiltin(Rungs[i])
           q == LoadBuiltin(Rungs[i + 1])
           a == ApplyCLIOverrides(p, flags)
           b == ApplyCLIOverrides(q, flags)
<1>1. /\ Rungs[1] = "deny-all" /\ Rungs[2] = "sandbox-path" /\ Rungs[3] = "sandbox-exec"
      /\ Rungs[4] = "sandbox-net" /\ Rungs[5] = "unconfined"
  BY DEF Rungs
<1>2. IsBuiltin(Rungs[i])
  BY <1>1 DEF IsBuiltin, Rungs, ToSet
<1>3. ProfileTyped(a)
  <2>1. ProfileTyped(p)
    BY <1>2, BuiltinTyped
  <2> QED BY <2>1, OverridesKeep DEF Keeps
<1>4. /\ a.enabled \in BOOLEAN /\ \A d \in DOMAIN a.mounts : a.mounts[d].mode \in {"ro", "rw"}
  BY <1>3 DEF ProfileTyped, PlacesTyped
<1>5. CASE i \in 1 .. 3
  <2>1. BelowTyped(p, q) /\ PathsBelow(p, q)
    BY <1>5, RungBelow
  <2>2. Below(a, b)
    BY <2>1, OverridesBelow DEF BelowTyped
  <2> HIDE DEF a, b
  <2> QED BY <1>4, <2>2, CompileBelow DEF a, b
<1>6. CASE i = 4
  <2>1. /\ p = LoadBuiltin("sandbox-net") /\ q = LoadBuiltin("unconfined")
        /\ flags.enabled \in {"unset", "false"}
    BY <1>1, <1>6 DEF SpecTyped
  <2>2. Bare(p) /\ p.execDeny = {} /\ Bare(q) /\ ~q.enabled /\ q.execDeny = {}
    BY <2>1, BuiltinBare DEF InCwdBare
  <2> HIDE DEF p, q
  <2>3. Looser(p, q)
    BY <2>2 DEF Looser, Bare
  <2>4. Looser(a, b)
    BY <2>1, <2>3, OverridesLooser
  <2> HIDE DEF a, b
  <2> QED BY <1>4, <2>4, LooserGrants DEF a, b, p, q
<1> QED BY <1>5, <1>6

-----------------------------------------------------------------------------
(* Without flags each rung grants something that the one below does not.         *)

LEMMA PathModules ==
  ASSUME NEW P PROVE \A r \in PathReadRules(P) \cup PathWriteRules(P) : r.module \in {"fs", "sql"}
<1>1. \A c, e : \A r \in TreeRules(c, e) : r.module = "fs"
  BY DEF TreeRules, ParseRule, Rule
<1>2. \A e : ParseRule("sql", "open", "sqlite", e).module = "sql"
  BY DEF ParseRule, Rule
<1> QED BY <1>1, <1>2 DEF PathReadRules, PathWriteRules

LEMMA GrantingModules ==
  ASSUME NEW p, Bare(p), NetworkRules(p) = {}, NEW r \in Granting(p)
  PROVE  \/ r.module \in {"fs", "sql"}
         \/ r \in AmbientRules(p)
         \/ r.module = "os" /\ r \in BinaryRules(p)
<1>1. \A d \in DOMAIN p.mounts : \A x \in MountRules(d, p.mounts[d]) : x.module \in {"fs", "sql"}
  BY PathModules DEF MountRules
<1>2. \A x \in MountedRules(p) : x.module \in {"fs", "sql"}
  BY <1>1 DEF MountedRules
<1>3. \A x \in BinaryRules(p) : x.module = "os"
  BY ExecElsewhere DEF BinaryRules
<1>4. p.callAllow = {}
  BY DEF Bare
<1> QED BY <1>2, <1>3, <1>4, PathModules DEF Granting

LEMMA NoNetwork ==
  ASSUME NEW p, Bare(p), p.network = "none" PROVE NetworkRules(p) = {}
  BY DEF NetworkRules, Bare

\* sandbox-path grants the environment.
LEMMA SecondRung ==
  ASSUME NEW p, NEW q, NEW op, op.module = "os", op.category = "env",
         Bare(p), p.enabled, p.network = "none", p.read = {}, p.write = {}, DOMAIN p.mounts \subseteq {Tmp},
         p.execAllow = {}, p.execDeny = {Star},
         InCwdBare(q), q.execDeny = {Star}
  PROVE  ~Allows(CompilePermissions(p), op) /\ Allows(CompilePermissions(q), op)
<1>1. AmbientRules(p) = {}
  BY DEF AmbientRules
<1>2. BinaryRules(p) = {}
  BY DEF BinaryRules, Bare, ExecRules
<1>3. ASSUME NEW r \in Granting(p) PROVE ~Matches(r, op)
  BY <1>1, <1>2, GrantingModules, NoNetwork DEF Matches
<1>4. ~MatchesOneOf(Granting(p), op)
  BY <1>3 DEF MatchesOneOf
<1>5. Whole("os", "env") \in Granting(q)
  BY PathRulesGranted DEF SandboxPathRules
<1>6. Matches(Whole("os", "env"), op)
  BY DEF Matches, Whole, Rule
<1>7. MatchesOneOf(Granting(q), op)
  BY <1>5, <1>6 DEF MatchesOneOf
<1>8. Bare(q) /\ q.enabled
  BY DEF InCwdBare
<1> QED BY <1>4, <1>7, <1>8, BinariesDenied

\* sandbox-exec grants the shell.
LEMMA ThirdRung ==
  ASSUME NEW p, NEW q, NEW op, op.module = "os", op.category = "shell",
         InCwdBare(p), p.execDeny = {Star}, InCwdBare(q), q.execAllow = {Star}, q.execDeny = {}
  PROVE  ~Allows(CompilePermissions(p), op) /\ Allows(CompilePermissions(q), op)
<1>1. Whole("os", "shell") \in Granting(q)
  BY StarRules DEF Granting, BinaryRules
<1>2. Matches(Whole("os", "shell"), op)
  BY DEF Matches, Whole, Rule
<1>3. MatchesOneOf(Granting(q), op)
  BY <1>1, <1>2 DEF MatchesOneOf
<1>4. Bare(p) /\ p.enabled /\ Bare(q) /\ q.enabled
  BY DEF InCwdBare
<1> QED BY <1>3, <1>4, BinariesDenied, NothingDenied

\* sandbox-net grants a server.
LEMMA FourthRung ==
  ASSUME NEW p, NEW q, NEW op, op.module = "http", op.category = "server",
         InCwdBare(p), p.network = "none", p.execDeny = {}, InCwdBare(q), q.network = "host", q.execDeny = {}
  PROVE  ~Allows(CompilePermissions(p), op) /\ Allows(CompilePermissions(q), op)
<1>1. Bare(p) /\ p.enabled /\ Bare(q) /\ q.enabled
  BY DEF InCwdBare
<1>2. \A r \in AmbientRules(p) : r.module \in {"os", "io"}
  BY DEF AmbientRules, Whole, Rule
<1>3. ASSUME NEW r \in Granting(p) PROVE ~Matches(r, op)
  BY <1>1, <1>2, GrantingModules, NoNetwork DEF Matches
<1>4. ~MatchesOneOf(Granting(p), op)
  BY <1>3 DEF MatchesOneOf
<1>5. Whole("http", "server") \in Granting(q)
  BY NetRulesGranted DEF SandboxNetRules
<1>6. Matches(Whole("http", "server"), op)
  BY DEF Matches, Whole, Rule
<1>7. MatchesOneOf(Granting(q), op)
  BY <1>5, <1>6 DEF MatchesOneOf
<1> QED BY <1>1, <1>4, <1>7, NothingDenied

\* unconfined grants a file that is neither under the working directory nor under /tmp.
LEMMA FifthRung ==
  ASSUME NEW p, NEW q, NEW op, FileOp(op), op.category = "write", ~Under(op.segs, Cwd), ~Under(op.segs, Tmp),
         InCwdBare(p), p.execDeny = {}, MountsLeft(InCwd.mounts, p.mounts),
         Bare(q), ~q.enabled, q.execDeny = {}
  PROVE  ~Allows(CompilePermissions(p), op) /\ Allows(CompilePermissions(q), op)
<1>1. p.enabled /\ p.read = {Cwd} /\ p.write = {Cwd} /\ p.callAllow = {} /\ p.callDeny = {} /\ Plain(Cwd)
  BY CwdFacts DEF InCwdBare, Bare
<1>2. ~MatchesOneOf(PathReadRules({Cwd}), op)
  BY <1>1, ReadRulesGrant
<1>3. ~MatchesOneOf(PathWriteRules({Cwd}), op)
  <2>1. ~UnderOneOf(op.segs, {Cwd})
    BY CwdPlace DEF UnderOneOf
  <2> QED BY <1>1, <2>1, WriteRulesGrant
<1> DEFINE m == InCwd.mounts
<1>4. DOMAIN m = {Cwd, Tmp} /\ PlacesTyped(m)
  BY InCwdMounts
<1>5. \A d \in DOMAIN m : m[d].type = "bind" => m[d].source = Cwd
  BY InCwdMounts DEF Bind, Tmpfs
<1> HIDE DEF m
<1>6. ASSUME NEW d \in DOMAIN p.mounts PROVE ~MatchesOneOf(MountRules(d, p.mounts[d]), op)
  <2> DEFINE mount == p.mounts[d]
  <2>1. CASE d \in DOMAIN m
    <3>1. mount = m[d]
      BY <2>1 DEF MountsLeft, m
    <3>2. Place(d) /\ (mount.type = "bind" => Place(mount.source) /\ mount.source = Cwd)
      BY <1>4, <1>5, <2>1, <3>1 DEF PlacesTyped
    <3>3. ~ShownBy(op.segs, d, mount)
      BY <1>4, <2>1, <3>2 DEF ShownBy
    <3> HIDE DEF mount
    <3> QED BY <3>2, <3>3, MountRulesGrant DEF mount
  <2>2. CASE d \notin DOMAIN m
    <3>1. Place(d) /\ mount = Bind(d, "ro")
      BY <2>2 DEF MountsLeft, m
    <3>2. mount.mode = "ro" /\ mount.source = d
      BY <3>1 DEF Bind
    <3> HIDE DEF mount
    <3> QED BY <3>1, <3>2, MountRulesGrant DEF mount
  <2> QED BY <2>1, <2>2
<1>7. ~Allows(CompilePermissions(p), op)
  BY <1>1, <1>2, <1>3, <1>6, FileRules
<1> QED BY <1>7, NothingDenied

LEMMA GrantsMore ==
  ASSUME NEW i \in 1 .. 4
  PROVE  \E op \in Ops :
           /\ ~Allows(CompilePermissions(ApplyCLIOverrides(LoadBuiltin(Rungs[i]), NoFlags)), op)
           /\ Allows(CompilePermissions(ApplyCLIOverrides(LoadBuiltin(Rungs[i + 1]), NoFlags)), op)
<1> DEFINE p == LoadBuiltin(Rungs[i])
           q == LoadBuiltin(Rungs[i + 1])
           a == ApplyCLIOverrides(p, NoFlags)
           b == ApplyCLIOverrides(q, NoFlags)
<1>1. /\ Rungs[1] = "deny-all" /\ Rungs[2] = "sandbox-path" /\ Rungs[3] = "sandbox-exec"
      /\ Rungs[4] = "sandbox-net" /\ Rungs[5] = "unconfined"
  BY DEF Rungs
<1>2. /\ DOMAIN p = Fields => Left(p, a)
      /\ DOMAIN q = Fields => Left(q, b)
  BY WithoutFlags
<1>3. CASE i = 1
  <2>1. p = LoadBuiltin("deny-all") /\ q = LoadBuiltin("sandbox-path")
    BY <1>1, <1>3
  <2>2. /\ Bare(p) /\ p.enabled /\ p.network = "none" /\ p.read = {} /\ p.write = {}
        /\ p.execAllow = {} /\ p.execDeny = {Star} /\ p.mounts = MountAt(Tmp, Tmpfs("rw"))
        /\ InCwdBare(q) /\ q.execDeny = {Star}
    BY <2>1, BuiltinBare
  <2>3. DOMAIN p.mounts = {Tmp} /\ DOMAIN p = Fields /\ DOMAIN q = Fields /\ p.netAllow = {}
    BY <2>2 DEF MountAt, Bare, InCwdBare
  <2> HIDE DEF p, q, a, b
  <2>4. Left(p, a) /\ Left(q, b)
    BY <1>2, <2>3
  <2>5. /\ Bare(a) /\ a.enabled /\ a.network = "none" /\ a.read = {} /\ a.write = {}
        /\ a.execAllow = {} /\ a.execDeny = {Star} /\ DOMAIN a.mounts \subseteq {Tmp}
        /\ InCwdBare(b) /\ b.execDeny = {Star}
    BY <2>2, <2>3, <2>4, LeftBare DEF Left
  <2>6. PICK op \in Ops : op.module = "os" /\ op.category = "env"
    BY RungsAssumption
  <2> QED BY <2>5, <2>6, SecondRung DEF a, b, p, q
<1>4. CASE i = 2
  <2>1. p = LoadBuiltin("sandbox-path") /\ q = LoadBuiltin("sandbox-exec")
    BY <1>1, <1>4
  <2>2. InCwdBare(p) /\ p.execDeny = {Star} /\ InCwdBare(q) /\ q.execAllow = {Star} /\ q.execDeny = {}
    BY <2>1, BuiltinBare
  <2> HIDE DEF p, q, a, b
  <2>3. Left(p, a) /\ Left(q, b)
    BY <1>2, <2>2 DEF InCwdBare, Bare
  <2>4. InCwdBare(a) /\ a.execDeny = {Star} /\ InCwdBare(b) /\ b.execAllow = {Star} /\ b.execDeny = {}
    BY <2>2, <2>3, LeftBare DEF Left
  <2>5. PICK op \in Ops : op.module = "os" /\ op.category = "shell"
    BY RungsAssumption
  <2> QED BY <2>4, <2>5, ThirdRung DEF a, b, p, q
<1>5. CASE i = 3
  <2>1. p = LoadBuiltin("sandbox-exec") /\ q = LoadBuiltin("sandbox-net")
    BY <1>1, <1>5
  <2>2. /\ InCwdBare(p) /\ p.network = "none" /\ p.execDeny = {}
        /\ InCwdBare(q) /\ q.network = "host" /\ q.execDeny = {}
    BY <2>1, BuiltinBare
  <2> HIDE DEF p, q, a, b
  <2>3. Left(p, a) /\ Left(q, b)
    BY <1>2, <2>2 DEF InCwdBare, Bare
  <2>4. /\ InCwdBare(a) /\ a.network = "none" /\ a.execDeny = {}
        /\ InCwdBare(b) /\ b.network = "host" /\ b.execDeny = {}
    BY <2>2, <2>3, LeftBare DEF Left
  <2>5. PICK op \in Ops : op.module = "http" /\ op.category = "server"
    BY RungsAssumption
  <2> QED BY <2>4, <2>5, FourthRung DEF a, b, p, q
<1>6. CASE i = 4
  <2>1. p = LoadBuiltin("sandbox-net") /\ q = LoadBuiltin("unconfined")
    BY <1>1, <1>6
  <2>2. /\ InCwdBare(p) /\ p.execDeny = {} /\ p.mounts = ResolveNetworkAssetMounts(InCwd.mounts)
        /\ Bare(q) /\ ~q.enabled /\ q.execDeny = {}
    BY <2>1, BuiltinBare
  <2> HIDE DEF p, q, a, b
  <2>3. Left(p, a) /\ Left(q, b)
    BY <1>2, <2>2 DEF InCwdBare, Bare
  <2>4. InCwdBare(a) /\ a.execDeny = {} /\ Bare(b) /\ ~b.enabled /\ b.execDeny = {} /\ MountsLeft(p.mounts, a.mounts)
    BY <2>2, <2>3, LeftBare DEF Left
  <2>5. MountsLeft(InCwd.mounts, a.mounts)
    <3> DEFINE m == InCwd.mounts
               own == [x \in NetworkAssets |-> Bind(x, "ro")]
    <3>1. p.mounts = m ++ own /\ DOMAIN own = NetworkAssets /\ \A d \in NetworkAssets : own[d] = Bind(d, "ro")
      BY <2>2 DEF ResolveNetworkAssetMounts
    <3>2. ASSUME NEW d \in NetworkAssets PROVE Place(d)
      BY AssetsAssumption, AbsoluteIsPlace
    <3> HIDE DEF m, own
    <3>3. /\ DOMAIN (m ++ own) = DOMAIN m \cup DOMAIN own /\ \A d \in DOMAIN m : (m ++ own)[d] = m[d]
          /\ \A d \in DOMAIN own \ DOMAIN m : (m ++ own)[d] = own[d]
      BY OverlayDomain
    <3>4. MountsLeft(m, p.mounts)
      BY <3>1, <3>2, <3>3 DEF MountsLeft
    <3>5. MountsLeft(m, a.mounts)
      <4> DEFINE x == p.mounts
                 y == a.mounts
      <4>1. MountsLeft(m, x) /\ MountsLeft(x, y)
        BY <2>4, <3>4
      <4> HIDE DEF x, y
      <4>2. \A d \in DOMAIN m : d \in DOMAIN y /\ y[d] = m[d]
        BY <4>1 DEF MountsLeft
      <4>3. ASSUME NEW d \in DOMAIN y \ DOMAIN m PROVE Place(d) /\ y[d] = Bind(d, "ro")
        BY <4>1 DEF MountsLeft
      <4>4. MountsLeft(m, y)
        BY <4>2, <4>3 DEF MountsLeft
      <4> QED BY <4>4 DEF x, y
    <3> QED BY <3>5 DEF m
  <2>6. PICK op \in Ops : /\ op.module = "fs" /\ op.category = "write"
                          /\ ~Under(op.segs, Cwd) /\ ~Under(op.segs, Tmp)
    BY RungsAssumption
  <2>7. FileOp(op)
    BY <2>6, OpsAssumption DEF FileOp
  <2> QED BY <2>4, <2>5, <2>6, <2>7, FifthRung DEF a, b, p, q
<1> QED BY <1>3, <1>4, <1>5, <1>6

\* With the same flags no rung of the built-in profiles loses what the one below grants, and without flags each
\* grants something more (loadProfileResolved, ApplyCLIOverrides, CompilePermissions).
THEOREM LadderKeptCorrect == Spec => []LadderKept
<1>1. ASSUME SPInv PROVE LadderKept
  <2>1. Len(Rungs) - 1 = 4
    BY DEF Rungs
  <2> SUFFICES ASSUME NEW i \in 1 .. 4, Fresh, command.profile = Rungs[i],
                      ~(Rungs[i + 1] = "unconfined" /\ command.flags.enabled = "true")
               PROVE  LET above == Granted(ConfigOf([command EXCEPT !.profile = Rungs[i + 1]]))
                      IN /\ Granted(config) \subseteq above
                         /\ command.flags = NoFlags => Granted(config) # above
    BY <2>1 DEF LadderKept
  <2> DEFINE c == [command EXCEPT !.profile = Rungs[i + 1]]
             low == CompilePermissions(ApplyCLIOverrides(LoadBuiltin(Rungs[i]), command.flags))
             high == CompilePermissions(ApplyCLIOverrides(LoadBuiltin(Rungs[i + 1]), command.flags))
  <2>2. command \in Commands /\ config = CompilePermissions(ApplyCLIOverrides(ResolveProfile(command), command.flags))
    BY <1>1 DEF SPInv, TypeOK, Story, Fresh
  <2>3. DOMAIN command = {"profile", "flags", "file"} /\ SpecTyped(command.flags)
    BY <2>2, CommandsAssumption
  <2>4. IsBuiltin(Rungs[i]) /\ IsBuiltin(Rungs[i + 1])
    BY DEF IsBuiltin, Rungs, ToSet
  <2>5. config = low
    BY <2>2, <2>4, ResolvedBuiltin
  <2>6. c.profile = Rungs[i + 1] /\ c.flags = command.flags
    BY <2>3
  <2> HIDE DEF c
  <2>7. ConfigOf(c) = high
    <3>1. ResolveProfile(c) = LoadBuiltin(Rungs[i + 1])
      BY <2>4, <2>6, ResolvedBuiltin
    <3> QED BY <2>6, <3>1 DEF ConfigOf
  <2>8. ASSUME NEW op \in Ops, Allows(low, op) PROVE Allows(high, op)
    BY <2>3, <2>8, NeverLoses
  <2>9. command.flags = NoFlags => \E op \in Ops : ~Allows(low, op) /\ Allows(high, op)
    BY GrantsMore
  <2> HIDE DEF low, high
  <2>10. /\ Granted(low) \subseteq Granted(high)
         /\ command.flags = NoFlags => Granted(low) # Granted(high)
    BY <2>8, <2>9 DEF Granted
  <2> QED BY <2>5, <2>7, <2>10 DEF c
<1> QED BY <1>1, SPInvariant, PTL

-----------------------------------------------------------------------------
(* What the flags name.  First a binary's name, below any directory.             *)

\* The table for /**/x, row by row: only the last segment matters, and that there is one before it.
LEMMA AnywhereMatches ==
  ASSUME NEW x \in Segment, x \notin {"*", "**"}, NEW path \in Seq(Segment), path # <<>>,
         MatchSegments(<<Empty, "**", x>>, path)
  PROVE  path[Len(path)] = x
<1> DEFINE q == <<Empty, "**", x>>
           n == Len(path)
           value(i, j) == \/ i = 1 /\ j + 1 <= n /\ path[j] = Empty /\ path[n] = x
                          \/ i = 2 /\ j <= n /\ path[n] = x
                          \/ i = 3 /\ j = n /\ path[n] = x
                          \/ i = 4 /\ j > n
           g == [i \in 1 .. Len(q) + 1 |-> [j \in 1 .. n + 1 |-> value(i, j)]]
<1>1. n \in Nat \ {0} /\ Len(q) = 3 /\ q[1] = Empty /\ q[2] = "**" /\ q[3] = x
  OBVIOUS
<1>2. Empty \notin {"*", "**"}
  BY EmptyFacts
<1> HIDE DEF q, n
<1>3. ASSUME NEW i \in 1 .. 4, NEW j \in 1 .. n + 1 PROVE g[i][j] = value(i, j)
  <2> HIDE DEF value
  <2> QED BY <1>1
<1> HIDE DEF g
<1>4. ASSUME NEW i \in 1 .. 4, NEW j \in 1 .. n + 1 PROVE value(i, j) = Step(g, q, path, i, j)
  <2>1. CASE i = 4
    <3>1. Step(g, q, path, 4, j) = (j > Len(path))
      BY <1>1 DEF Step
    <3>2. (j > Len(path)) <=> value(4, j)
      BY DEF n
    <3>3. (j > Len(path)) \in BOOLEAN /\ value(4, j) \in BOOLEAN
      OBVIOUS
    <3> HIDE DEF value
    <3> QED BY <2>1, <3>1, <3>2, <3>3, Zenon
  <2>2. CASE i = 2
    <3>1. Step(g, q, path, 2, j) = (2 = Len(q) \/ \E k \in j .. Len(path) + 1 : g[3][k])
      <4>1. ~(2 > Len(q)) /\ 2 + 1 = 3
        BY <1>1
      <4> QED BY <1>1, <4>1, Zenon DEF Step
    <3>2. \A k \in j .. Len(path) + 1 : g[3][k] <=> value(3, k)
      <4> HIDE DEF value
      <4> QED BY <1>1, <1>3 DEF n
    <3>3. (2 = Len(q) \/ \E k \in j .. Len(path) + 1 : g[3][k]) <=> value(2, j)
      BY <1>1, <3>2 DEF n
    <3>4. value(2, j) \in BOOLEAN
      OBVIOUS
    <3> HIDE DEF value
    <3> QED BY <2>2, <3>1, <3>3, <3>4, Zenon
  <2>3. ASSUME i \in {1, 3} PROVE value(i, j) = Step(g, q, path, i, j)
    <3>1. Step(g, q, path, i, j) = (j <= Len(path) /\ SegmentMatches(q[i], path[j]) /\ g[i + 1][j + 1])
      <4>1. ~(i > Len(q)) /\ q[i] # "**"
        BY <1>1, <1>2, <2>3
      <4> QED BY <4>1, Zenon DEF Step
    <3>2. j <= n => (g[i + 1][j + 1] <=> value(i + 1, j + 1))
      <4> HIDE DEF value
      <4>1. i + 1 \in 1 .. 4
        BY <2>3
      <4>2. j <= n => j + 1 \in 1 .. n + 1
        BY <1>1
      <4> QED BY <1>3, <4>1, <4>2
    <3>3. SegmentMatches(q[i], path[j]) <=> q[i] = path[j]
      BY <1>1, <1>2, <2>3 DEF SegmentMatches
    <3>4. (j <= Len(path) /\ SegmentMatches(q[i], path[j]) /\ g[i + 1][j + 1]) <=> value(i, j)
      BY <1>1, <2>3, <3>2, <3>3 DEF n
    <3> DEFINE s == j <= Len(path) /\ SegmentMatches(q[i], path[j]) /\ g[i + 1][j + 1]
    <3>5. value(i, j) \in BOOLEAN /\ s \in BOOLEAN
      OBVIOUS
    <3>6. Step(g, q, path, i, j) = s /\ (s <=> value(i, j))
      BY <3>1, <3>4
    <3> HIDE DEF value, s
    <3>7. (value(i, j) = TRUE \/ value(i, j) = FALSE) /\ (s = TRUE \/ s = FALSE)
      BY <3>5
    <3>8. (s <=> value(i, j)) /\ Step(g, q, path, i, j) = s
      BY <3>6
    <3>9. CASE s = TRUE
      BY <3>7, <3>8, <3>9, Zenon
    <3>10. CASE s = FALSE
      BY <3>7, <3>8, <3>10, Zenon
    <3> QED BY <3>7, <3>9, <3>10
  <2> HIDE DEF value
  <2> QED BY <2>1, <2>2, <2>3
<1>5. \E h : Fits(h, q, path)
  <2>1. g = [i \in 1 .. Len(q) + 1 |-> [j \in 1 .. Len(path) + 1 |-> Step(g, q, path, i, j)]]
    <3> DEFINE h == g
    <3>1. g = [i \in 1 .. Len(q) + 1 |-> [j \in 1 .. n + 1 |-> value(i, j)]]
      BY DEF g
    <3>2. \A i \in 1 .. Len(q) + 1, j \in 1 .. n + 1 : value(i, j) = Step(h, q, path, i, j)
      <4> HIDE DEF value
      <4> QED BY <1>1, <1>4
    <3> HIDE DEF value, h
    <3>3. [i \in 1 .. Len(q) + 1 |-> [j \in 1 .. n + 1 |-> value(i, j)]]
            = [i \in 1 .. Len(q) + 1 |-> [j \in 1 .. n + 1 |-> Step(h, q, path, i, j)]]
      BY <3>2
    <3> QED BY <3>1, <3>3 DEF h, n
  <2> QED BY <2>1 DEF Fits
<1> DEFINE f == Match(q, path)
<1>6. Fits(f, q, path)
  BY <1>5, MatchFits
<1> HIDE DEF f
<1>7. ASSUME NEW i \in 1 .. 4, NEW j \in 1 .. n + 1 PROVE f[i][j] = Step(f, q, path, i, j)
  BY <1>1, <1>6, <1>7, FitsAt DEF n
<1>8. f[1][1]
  BY MatchIs DEF f, q
<1>9. f[2][2] /\ 2 \in 1 .. n + 1
  <2>1. 1 \in 1 .. 4 /\ 1 \in 1 .. n + 1
    BY <1>1
  <2>2. Step(f, q, path, 1, 1)
    BY <1>7, <1>8, <2>1
  <2> QED BY <1>1, <1>2, <2>2 DEF Step, n
<1>10. \E k \in 2 .. n + 1 : f[3][k]
  <2>1. Step(f, q, path, 2, 2)
    BY <1>7, <1>9
  <2> QED BY <1>1, <2>1 DEF Step, n
<1>11. PICK k \in 2 .. n + 1 : f[3][k]
  BY <1>10
<1>12. k <= n /\ SegmentMatches(x, path[k]) /\ f[4][k + 1]
  <2>1. k \in 1 .. n + 1
    BY <1>1
  <2>2. Step(f, q, path, 3, k)
    BY <1>7, <1>11, <2>1
  <2> QED BY <1>1, <2>2 DEF Step, n
<1>13. k + 1 > n
  <2>1. k + 1 \in 1 .. n + 1
    BY <1>1, <1>12
  <2>2. Step(f, q, path, 4, k + 1)
    BY <1>7, <1>12, <2>1
  <2> QED BY <1>1, <2>2 DEF Step, n
<1>14. path[k] = x /\ k = n
  BY <1>1, <1>12, <1>13 DEF SegmentMatches
<1> QED BY <1>14 DEF n

\* The name of a binary: bare, absolute, or relative to the working directory.
Binary(b) == b = Star \/ (Plain(b) /\ (Len(b) = 1 \/ Head(b) \in {Empty, "."}))

ExecOp(op) ==
  op.module = "os" /\ op.category = "exec" /\ op.segs \in Seq(Segment) /\ op.segs # <<>> /\ op.scheme = Empty

Runs(op, b) == b = Star \/ b = op.segs \/ (Len(b) = 1 /\ ExecName(Last(op.segs)) = ExecName(b[1]))

BinRules(b) ==
  IF b = Star THEN {Whole("os", "exec"), Whole("os", "shell")}
  ELSE {ParseRule("os", "exec", Empty, b)}
         \cup (IF Head(b) \in {Empty, ".", "$"} THEN {} ELSE {ParseRule("os", "exec", Empty, <<Empty, "**">> \o b)})

LEMMA BinRulesAre == \A bins : ExecRules(bins) = UNION {BinRules(b) : b \in bins}
  BY DEF ExecRules, BinRules

LEMMA BinaryGrants ==
  ASSUME NEW op, ExecOp(op), NEW b, Binary(b) PROVE MatchesOneOf(BinRules(b), op) <=> Runs(op, b)
<1>1. CASE b = Star
  <2>1. Matches(Whole("os", "exec"), op)
    BY DEF Matches, Whole, Rule, ExecOp
  <2>2. Whole("os", "exec") \in BinRules(b)
    BY <1>1 DEF BinRules
  <2> QED BY <1>1, <2>1, <2>2 DEF MatchesOneOf, Runs
<1>2. CASE b # Star
  <2>1. /\ b \in Seq(Segment) /\ b # <<>> /\ Len(b) \in Nat \ {0} /\ DOMAIN b = 1 .. Len(b) /\ Head(b) = b[1]
        /\ \A i \in 1 .. Len(b) : b[i] \notin {"*", "**"}
        /\ Len(b) = 1 \/ Head(b) \in {Empty, "."}
    BY <1>2, PlainFacts DEF Binary
  <2>2. op.segs \in Seq(Segment) /\ op.segs # <<>> /\ Len(op.segs) \in Nat \ {0} /\ op.scheme = Empty
    BY DEF ExecOp
  <2>3. Last(op.segs) = op.segs[Len(op.segs)]
    BY DEF Last
  <2> DEFINE own == ParseRule("os", "exec", Empty, b)
             wide == <<Empty, "**">> \o b
             anywhere == ParseRule("os", "exec", Empty, wide)
  <2>4. Matches(own, op) <=> Runs(op, b)
    <3>1. Matches(own, op) <=> ResourceMatches(b, op)
      BY <2>1, <2>2 DEF Matches, ParseRule, Rule, ExecOp
    <3>2. b \notin {<<"*">>, <<"**">>} /\ "**" \notin ToSet(b)
      BY <2>1 DEF ToSet
    <3>3. ResourceMatches(b, op)
            <=> \/ Len(b) = 1 /\ ExecName(b[1]) = ExecName(Last(op.segs))
                \/ Len(b) = Len(op.segs) /\ \A i \in DOMAIN b : SegmentMatches(b[i], op.segs[i])
      BY <2>1, <2>2, <3>2 DEF ResourceMatches, IsBinaryOf, ExecOp
    <3>4. (Len(b) = Len(op.segs) /\ \A i \in DOMAIN b : SegmentMatches(b[i], op.segs[i])) <=> b = op.segs
      <4>1. ASSUME Len(b) = Len(op.segs), \A i \in DOMAIN b : SegmentMatches(b[i], op.segs[i]) PROVE b = op.segs
        <5>1. \A i \in 1 .. Len(b) : b[i] = op.segs[i]
          BY <2>1, <4>1 DEF SegmentMatches
        <5> QED BY <2>1, <2>2, <4>1, <5>1
      <4>2. ASSUME b = op.segs PROVE Len(b) = Len(op.segs) /\ \A i \in DOMAIN b : SegmentMatches(b[i], op.segs[i])
        BY <4>2 DEF SegmentMatches
      <4> QED BY <4>1, <4>2
    <3> QED BY <1>2, <3>1, <3>3, <3>4 DEF Runs
  <2>5. ASSUME Head(b) \notin {Empty, ".", "$"}, Matches(anywhere, op) PROVE Runs(op, b)
    <3> DEFINE x == b[1]
    <3>1. Len(b) = 1 /\ x \in Segment /\ x \notin {"*", "**"}
      BY <2>1, <2>5
    <3>2. wide = <<Empty, "**", x>>
      <4>1. b = <<x>>
        BY <2>1, <3>1
      <4>2. wide = <<Empty, "**">> \o <<x>>
        BY <4>1
      <4> HIDE DEF x, wide
      <4>3. <<Empty, "**">> \o <<x>> = <<Empty, "**", x>>
        <5> DEFINE A == {Empty, "**", x}
                   u == <<Empty, "**">> \o <<x>>
        <5>1. <<Empty, "**">> \in Seq(A) /\ <<x>> \in Seq(A)
          OBVIOUS
        <5>2. u \in Seq(A) /\ Len(u) = 3 /\ u[1] = Empty /\ u[2] = "**" /\ u[3] = x
          BY <5>1
        <5> HIDE DEF u, A
        <5>3. u = <<Empty, "**", x>>
          BY <5>2
        <5> QED BY <5>3 DEF u
      <4> QED BY <4>2, <4>3
    <3> DEFINE r == <<Empty, "**", x>>
    <3>3. Len(r) = 3 /\ r[3] = x /\ r \notin {<<"*">>, <<"**">>} /\ DOMAIN r = 1 .. 3 /\ r # <<>>
      OBVIOUS
    <3> HIDE DEF r
    <3>4. ResourceMatches(r, op)
      BY <2>5, <3>2, <3>3 DEF Matches, ParseRule, Rule, r
    <3>5. \/ Len(op.segs) = 3 /\ SegmentMatches(x, op.segs[3])
          \/ MatchSegments(r, op.segs)
      BY <3>3, <3>4 DEF ResourceMatches, IsBinaryOf
    <3>6. op.segs[Len(op.segs)] = x
      <4>1. CASE Len(op.segs) = 3 /\ SegmentMatches(x, op.segs[3])
        BY <3>1, <4>1 DEF SegmentMatches
      <4>2. CASE MatchSegments(r, op.segs)
        BY <2>2, <3>1, <4>2, AnywhereMatches DEF r
      <4> QED BY <3>5, <4>1, <4>2
    <3> QED BY <2>3, <3>1, <3>6 DEF Runs
  <2>6. /\ own \in BinRules(b)
        /\ \A r \in BinRules(b) : r = own \/ (Head(b) \notin {Empty, ".", "$"} /\ r = anywhere)
    BY <1>2 DEF BinRules
  <2> HIDE DEF own, anywhere
  <2> QED BY <2>4, <2>5, <2>6 DEF MatchesOneOf
<1> QED BY <1>1, <1>2

LEMMA BinariesGrant ==
  ASSUME NEW op, ExecOp(op), NEW bins, \A b \in bins : Binary(b)
  PROVE  MatchesOneOf(ExecRules(bins), op) <=> \E b \in bins : Runs(op, b)
<1>1. MatchesOneOf(ExecRules(bins), op) <=> \E b \in bins : MatchesOneOf(BinRules(b), op)
  BY BinRulesAre DEF MatchesOneOf
<1> QED BY <1>1, BinaryGrants

LEMMA ShellGrants ==
  ASSUME NEW op, op.module = "os", op.category = "shell", NEW bins
  PROVE  MatchesOneOf(ExecRules(bins), op) <=> Star \in bins
<1>1. MatchesOneOf(ExecRules(bins), op) <=> \E b \in bins : MatchesOneOf(BinRules(b), op)
  BY BinRulesAre DEF MatchesOneOf
<1>2. Matches(Whole("os", "shell"), op)
  BY DEF Matches, Whole, Rule
<1>3. ASSUME NEW b PROVE MatchesOneOf(BinRules(b), op) <=> b = Star
  <2>1. ASSUME b = Star PROVE MatchesOneOf(BinRules(b), op)
    BY <1>2, <2>1 DEF BinRules, MatchesOneOf
  <2>2. ASSUME b # Star PROVE ~MatchesOneOf(BinRules(b), op)
    <3>1. \A r \in BinRules(b) : r.category = "exec"
      BY <2>2 DEF BinRules, ParseRule, Rule
    <3> QED BY <3>1 DEF MatchesOneOf, Matches
  <2> QED BY <2>1, <2>2
<1> QED BY <1>1, <1>3

\* A local database: a file, or the one in memory.
DbOp(op) ==
  /\ op.module = "sql" /\ op.category = "open" /\ op.function = "sqlite" /\ op.scheme = Empty
  /\ op.segs \in Seq(Segment) /\ op.segs # <<>> /\ (op.segs = Memory \/ Head(op.segs) = Empty)

Database(e) == ParseRule("sql", "open", "sqlite", e)

LEMMA MemoryFacts == Memory # <<>> /\ Len(Memory) = 1 /\ Memory[1] = ":memory:" /\ ":memory:" \notin {Empty, "*", "**"}
<1>1. ":memory:" # Empty
  BY Zenon DEF Empty
<1> QED BY <1>1 DEF Memory

LEMMA TreeIs ==
  ASSUME NEW e, Absolute(e)
  PROVE  \E base : Plain(base) /\ base[1] = Empty /\ Tree(e) = base \o <<"**">>
<1>1. CASE e = Root
  <2>1. <<Empty>> \in Seq(Segment) /\ <<Empty>> # <<>> /\ DOMAIN <<Empty>> = {1} /\ <<Empty>>[1] = Empty
    BY CwdFacts
  <2>2. Plain(<<Empty>>)
    BY <2>1, EmptyFacts DEF Plain
  <2>3. Tree(e) = <<Empty>> \o <<"**">>
    BY <1>1 DEF Tree
  <2> QED BY <2>1, <2>2, <2>3
<1>2. CASE e # Root
  BY <1>2, PlainFacts DEF Tree, Absolute
<1> QED BY <1>1, <1>2

\* No tree has the database in memory below it.
LEMMA MemoryElsewhere ==
  ASSUME NEW e, Absolute(e), NEW op, DbOp(op), op.segs = Memory PROVE ~ResourceMatches(Tree(e), op)
<1>1. PICK base : Plain(base) /\ base[1] = Empty /\ Tree(e) = base \o <<"**">>
  BY TreeIs
<1> DEFINE q == base \o <<"**">>
<1>2. Len(base) \in Nat \ {0} /\ Len(q) = Len(base) + 1 /\ q[1] = Empty
  <2>1. 1 \in 1 .. Len(base)
    BY <1>1, TreePattern
  <2> QED BY <1>1, <2>1, TreePattern
<1>3. ~MatchSegments(q, op.segs)
  <2>1. Ahead(base, op.segs, 1, 1) => base[1] = op.segs[1]
    BY <1>2 DEF Ahead
  <2>2. ~Ahead(base, op.segs, 1, 1)
    BY <1>1, <2>1, MemoryFacts
  <2>3. op.segs \in Seq(Segment)
    BY DEF DbOp
  <2> QED BY <1>1, <2>2, <2>3, PrefixAhead, TreeMatches
<1>4. q \notin {<<"*">>, <<"**">>} /\ Len(q) # Len(op.segs)
  BY <1>2, MemoryFacts
<1>5. ~IsBinaryOf(q, op)
  BY DEF IsBinaryOf, DbOp
<1> HIDE DEF q
<1> QED BY <1>1, <1>3, <1>4, <1>5 DEF ResourceMatches, q

LEMMA DatabaseTree ==
  ASSUME NEW e, Absolute(e), NEW op, DbOp(op)
  PROVE  Matches(Database(Tree(e)), op) <=> op.segs # Memory /\ Under(op.segs, e)
<1>1. Tree(e) # <<>>
  <2>1. PICK base : Plain(base) /\ Tree(e) = base \o <<"**">>
    BY TreeIs
  <2>2. Len(base \o <<"**">>) = Len(base) + 1 /\ Len(base) \in Nat
    BY <2>1, TreePattern
  <2> QED BY <2>1, <2>2
<1>2. Matches(Database(Tree(e)), op) <=> ResourceMatches(Tree(e), op)
  BY <1>1 DEF Matches, Database, ParseRule, Rule, DbOp
<1>3. op.segs # Memory => PathOp(op)
  BY DEF DbOp, PathOp
<1>4. Plain(e)
  BY DEF Absolute
<1> QED BY <1>2, <1>3, <1>4, MemoryElsewhere, TreePatternMatches

LEMMA DatabaseInMemory ==
  ASSUME NEW op, DbOp(op) PROVE Matches(Database(Memory), op) <=> op.segs = Memory
<1>1. Matches(Database(Memory), op) <=> ResourceMatches(Memory, op)
  BY MemoryFacts DEF Matches, Database, ParseRule, Rule, DbOp
<1>2. ASSUME op.segs = Memory PROVE ResourceMatches(Memory, op)
  <2>1. Len(Memory) = Len(op.segs) /\ \A i \in DOMAIN Memory : SegmentMatches(Memory[i], op.segs[i])
    BY <1>2 DEF SegmentMatches
  <2> QED BY <2>1 DEF ResourceMatches, DbOp
<1>3. ASSUME op.segs # Memory PROVE ~ResourceMatches(Memory, op)
  <2>1. op.segs[1] = Empty
    BY <1>3 DEF DbOp
  <2>2. ~SegmentMatches(Memory[1], op.segs[1]) /\ 1 \in DOMAIN Memory
    BY <2>1, MemoryFacts DEF SegmentMatches, Memory
  <2>3. Memory \notin {<<"*">>, <<"**">>} /\ "**" \notin ToSet(Memory)
    BY MemoryFacts DEF ToSet, Memory
  <2>4. ~IsBinaryOf(Memory, op)
    BY DEF IsBinaryOf, DbOp
  <2> QED BY <2>2, <2>3, <2>4 DEF ResourceMatches
<1> QED BY <1>1, <1>2, <1>3

\* The rules of files are about no database.
LEMMA TreesElsewhere ==
  ASSUME NEW category, NEW e, NEW op, op.module = "sql" PROVE ~MatchesOneOf(TreeRules(category, e), op)
<1>1. \A r \in TreeRules(category, e) : r.module = "fs"
  BY DEF TreeRules, ParseRule, Rule
<1> QED BY <1>1 DEF MatchesOneOf, Matches

LEMMA DatabaseReads ==
  ASSUME NEW P, \A p \in P : Absolute(Expand(p)), NEW op, DbOp(op)
  PROVE  MatchesOneOf(PathReadRules(P), op) <=> op.segs # Memory /\ UnderOneOf(op.segs, P)
<1> DEFINE rules(p) == TreeRules("read", Expand(p)) \cup {Database(Tree(Expand(p)))}
<1>1. ASSUME NEW p \in P
      PROVE  MatchesOneOf(rules(p), op) <=> op.segs # Memory /\ Under(op.segs, Expand(p))
  <2>1. MatchesOneOf({Database(Tree(Expand(p)))}, op) <=> op.segs # Memory /\ Under(op.segs, Expand(p))
    BY DatabaseTree DEF MatchesOneOf
  <2>2. ~MatchesOneOf(TreeRules("read", Expand(p)), op)
    BY TreesElsewhere DEF DbOp
  <2> QED BY <2>1, <2>2, OneOfTwo
<1>2. PathReadRules(P) = UNION {rules(p) : p \in P}
  BY DEF PathReadRules, Database
<1> HIDE DEF rules
<1>3. MatchesOneOf(PathReadRules(P), op) <=> \E p \in P : MatchesOneOf(rules(p), op)
  BY <1>2 DEF MatchesOneOf
<1> QED BY <1>1, <1>3 DEF UnderOneOf

LEMMA DatabaseWrites ==
  ASSUME NEW P, \A p \in P : Absolute(Expand(p)), NEW op, DbOp(op)
  PROVE  MatchesOneOf(PathWriteRules(P), op) <=> IF op.segs = Memory THEN P # {} ELSE UnderOneOf(op.segs, P)
<1> DEFINE trees(p) == TreeRules("write", Expand(p)) \cup TreeRules("delete", Expand(p))
           rules(p) == trees(p) \cup {Database(Memory)}
           more == UNION {rules(p) : p \in P}
<1>1. ASSUME NEW p \in P PROVE MatchesOneOf(rules(p), op) <=> op.segs = Memory
  <2>1. ~MatchesOneOf(trees(p), op)
    BY TreesElsewhere, OneOfTwo DEF DbOp
  <2>2. MatchesOneOf({Database(Memory)}, op) <=> op.segs = Memory
    BY DatabaseInMemory DEF MatchesOneOf
  <2> HIDE DEF trees
  <2> QED BY <2>1, <2>2, OneOfTwo
<1>2. PathWriteRules(P) = PathReadRules(P) \cup more
  BY DEF PathWriteRules, Database
<1> HIDE DEF rules
<1>3. MatchesOneOf(more, op) <=> \E p \in P : MatchesOneOf(rules(p), op)
  BY DEF MatchesOneOf
<1> HIDE DEF more
<1>4. MatchesOneOf(PathWriteRules(P), op) <=> MatchesOneOf(PathReadRules(P), op) \/ MatchesOneOf(more, op)
  BY <1>2, OneOfTwo
<1>5. MatchesOneOf(PathReadRules(P), op) <=> op.segs # Memory /\ UnderOneOf(op.segs, P)
  BY DatabaseReads
<1> QED BY <1>1, <1>3, <1>4, <1>5

LEMMA DatabaseMounts ==
  ASSUME NEW d, Absolute(d), NEW m, m.type = "bind" => m.source = d, NEW op, DbOp(op)
  PROVE  MatchesOneOf(MountRules(d, m), op) <=> IF op.segs = Memory THEN m.mode = "rw" ELSE Under(op.segs, d)
<1> DEFINE paths == {d} \cup (IF m.type = "bind" /\ d # Tmp THEN {m.source} ELSE {})
<1>1. paths = {d}
  OBVIOUS
<1>2. MountRules(d, m) = IF m.mode = "rw" THEN PathWriteRules({d}) ELSE PathReadRules({d})
  BY <1>1 DEF MountRules
<1>3. Expand(d) = d
  BY AbsoluteIsPlace, PlaceExpand
<1>4. UnderOneOf(op.segs, {d}) <=> Under(op.segs, d)
  BY <1>3 DEF UnderOneOf
<1>5. /\ MatchesOneOf(PathReadRules({d}), op) <=> op.segs # Memory /\ UnderOneOf(op.segs, {d})
      /\ MatchesOneOf(PathWriteRules({d}), op) <=> (IF op.segs = Memory THEN {d} # {} ELSE UnderOneOf(op.segs, {d}))
  BY <1>3, DatabaseReads, DatabaseWrites
<1> QED BY <1>2, <1>4, <1>5

-----------------------------------------------------------------------------
(* What the other rules grant, rule by rule.                                     *)

LEMMA WholeMatches ==
  ASSUME NEW m, NEW c, NEW op, m # "*"
  PROVE  Matches(Whole(m, c), op) <=> op.module = m /\ c \in {"*", op.category}
  BY DEF Matches, Whole, Rule

LEMMA ServerMatches ==
  ASSUME NEW driver, driver # Empty, NEW op
  PROVE  Matches(ParseRule("sql", "open", driver, <<"**">>), op)
           <=> op.module = "sql" /\ op.category = "open" /\ op.function = driver /\ op.segs # <<>>
<1>1. <<"**">> # <<>>
  OBVIOUS
<1>2. ResourceMatches(<<"**">>, op)
  BY DEF ResourceMatches
<1> QED BY <1>1, <1>2 DEF Matches, ParseRule, Rule

LEMMA NetworkMatches ==
  ASSUME NEW op PROVE MatchesOneOf(SandboxNetRules, op) <=> NetworkOp(op)
<1> DEFINE kinds == {<<"http", "client">>, <<"http", "server">>, <<"ssh", "connect">>, <<"ssh", "transfer">>,
                     <<"k8s", "read">>, <<"k8s", "write">>, <<"k8s", "config">>, <<"mcp", "client">>,
                     <<"mcp", "server">>, <<"containers", "*">>}
           wholes == {Whole(k[1], k[2]) : k \in kinds}
           servers == {ParseRule("sql", "open", d, <<"**">>) : d \in {"postgres", "mysql"}}
<1>1. SandboxNetRules = wholes \cup servers
  BY DEF SandboxNetRules
<1>2. MatchesOneOf(servers, op)
        <=> op.module = "sql" /\ op.category = "open" /\ op.function \in {"postgres", "mysql"} /\ op.segs # <<>>
  <2>1. \A d \in {"postgres", "mysql"} : d # Empty
    BY Zenon DEF Empty
  <2>2. MatchesOneOf(servers, op) <=> \E d \in {"postgres", "mysql"} : Matches(ParseRule("sql", "open", d, <<"**">>), op)
    BY DEF MatchesOneOf
  <2> HIDE DEF servers
  <2> QED BY <2>1, <2>2, ServerMatches
<1>3. MatchesOneOf(wholes, op) <=> \E k \in kinds : op.module = k[1] /\ k[2] \in {"*", op.category}
  <2>1. \A k \in kinds : k[1] # "*"
    OBVIOUS
  <2>2. MatchesOneOf(wholes, op) <=> \E k \in kinds : Matches(Whole(k[1], k[2]), op)
    BY DEF MatchesOneOf
  <2> HIDE DEF kinds, wholes
  <2> QED BY <2>1, <2>2, WholeMatches
<1>4. MatchesOneOf(SandboxNetRules, op) <=> MatchesOneOf(wholes, op) \/ MatchesOneOf(servers, op)
  BY <1>1, OneOfTwo
<1> HIDE DEF wholes, servers
<1>5. (\E k \in kinds : op.module = k[1] /\ k[2] \in {"*", op.category})
        <=> \/ op.module = "http" /\ op.category \in {"client", "server"}
            \/ op.module = "ssh" /\ op.category \in {"connect", "transfer"}
            \/ op.module = "k8s" /\ op.category \in {"read", "write", "config"}
            \/ op.module = "mcp" /\ op.category \in {"client", "server"}
            \/ op.module = "containers"
  OBVIOUS
<1> HIDE DEF kinds
<1> QED BY <1>2, <1>3, <1>4, <1>5 DEF NetworkOp

\* What a rule of paths is about.
PathRule(r) == r.module = "fs" \/ (r.module = "sql" /\ r.category = "open" /\ r.functions = {"sqlite"})

LEMMA PathRulesAre ==
  ASSUME NEW P PROVE \A r \in PathReadRules(P) \cup PathWriteRules(P) : PathRule(r)
<1>1. \A c, e : \A r \in TreeRules(c, e) : r.module = "fs"
  BY DEF TreeRules, ParseRule, Rule
<1>2. "sqlite" # Empty
  BY Zenon DEF Empty
<1>3. \A e : PathRule(ParseRule("sql", "open", "sqlite", e))
  BY <1>2 DEF ParseRule, Rule, PathRule
<1>4. \A c, e : \A r \in TreeRules(c, e) : PathRule(r)
  BY <1>1 DEF PathRule
<1> QED BY <1>3, <1>4 DEF PathReadRules, PathWriteRules

PathRules(p) == PathReadRules(p.read) \cup PathWriteRules(p.write) \cup MountedRules(p)

LEMMA PathsElsewhere ==
  ASSUME NEW p, NEW op, op.module # "fs", ~(op.module = "sql" /\ op.category = "open" /\ op.function = "sqlite")
  PROVE  ~MatchesOneOf(PathRules(p), op)
<1>1. \A d \in DOMAIN p.mounts : \A r \in MountRules(d, p.mounts[d]) : PathRule(r)
  BY PathRulesAre DEF MountRules
<1>2. \A r \in PathRules(p) : PathRule(r)
  BY <1>1, PathRulesAre DEF PathRules, MountedRules
<1>3. \A r : PathRule(r) => ~Matches(r, op)
  BY DEF PathRule, Matches
<1> QED BY <1>2, <1>3 DEF MatchesOneOf

LEMMA BinariesElsewhere ==
  ASSUME NEW bins, NEW op, ~(op.module = "os" /\ op.category \in {"exec", "shell"})
  PROVE  ~MatchesOneOf(ExecRules(bins), op)
<1>1. \A b : \A r \in BinRules(b) : r.module = "os" /\ r.category \in {"exec", "shell"}
  BY DEF BinRules, Whole, ParseRule, Rule
<1>2. \A r \in ExecRules(bins) : r.module = "os" /\ r.category \in {"exec", "shell"}
  BY <1>1, BinRulesAre
<1> QED BY <1>2 DEF MatchesOneOf, Matches

LEMMA AmbientMatches ==
  ASSUME NEW p, p.callDeny = {}, NEW op
  PROVE  MatchesOneOf(AmbientRules(p), op)
           <=> /\ p.read \cup p.write \cup (DOMAIN p.mounts \ {Tmp}) # {}
               /\ (op.module = "os" /\ op.category = "env") \/ (op.module = "io" /\ op.category = "prompt")
<1>1. CASE p.read \cup p.write \cup (DOMAIN p.mounts \ {Tmp}) = {}
  BY <1>1 DEF AmbientRules, MatchesOneOf
<1>2. CASE p.read \cup p.write \cup (DOMAIN p.mounts \ {Tmp}) # {}
  <2>1. AmbientRules(p) = {Whole("os", "env"), Whole("io", "prompt")}
    BY <1>2 DEF AmbientRules
  <2>2. /\ Matches(Whole("os", "env"), op) <=> op.module = "os" /\ op.category = "env"
        /\ Matches(Whole("io", "prompt"), op) <=> op.module = "io" /\ op.category = "prompt"
    BY WholeMatches
  <2> QED BY <1>2, <2>1, <2>2 DEF MatchesOneOf
<1> QED BY <1>1, <1>2

-----------------------------------------------------------------------------
(* deny-all with flags that only grant.                                          *)

Expanded(paths) == {Expand(x) : x \in paths}

Assets(flags) == IF OpenNetwork(flags) THEN NetworkAssets ELSE {}

\* The mounts: writable paths, readable ones, the scratch directory, the files that name resolution needs.
MountsNamed(mounts, flags) ==
  LET writes == Expanded(flags.write)
      reads == Expanded(flags.read)
  IN /\ DOMAIN mounts = writes \cup reads \cup {Tmp} \cup Assets(flags)
     /\ \A d \in writes : mounts[d] = Bind(d, "rw")
     /\ \A d \in reads \ writes : mounts[d] = Bind(d, "ro")
     /\ Tmp \notin writes \cup reads => mounts[Tmp] = Tmpfs("rw")
     /\ \A d \in Assets(flags) \ (writes \cup reads \cup {Tmp}) : mounts[d] = Bind(d, "ro")

NothingElse(p) == p.enabled /\ p.netDeny = {} /\ p.callAllow = {} /\ p.callDeny = {} /\ DOMAIN p = Fields

Grants(p, flags) ==
  /\ NothingElse(p) /\ p.read = flags.read /\ p.write = flags.write
  /\ p.execAllow = flags.execAllow /\ p.execDeny = (IF flags.execAllow = {} THEN {Star} ELSE {})
  /\ flags.execAllow = {} => p.noExec
  /\ p.netAllow \subseteq {AnyEndpoint} /\ p.network \in {"none", "host"}
  /\ OpenNetwork(flags) <=> p.network = "host" \/ p.netAllow # {}
  /\ MountsNamed(p.mounts, flags)

LEMMA GrantProfile ==
  ASSUME NEW flags, SpecTyped(flags), OnlyGrants(flags)
  PROVE  Grants(ApplyCLIOverrides(LoadBuiltin("deny-all"), flags), flags)
<1> DEFINE p == LoadBuiltin("deny-all")
           base == MountAt(Tmp, Tmpfs("rw"))
           writes == Expanded(flags.write)
           reads == Expanded(flags.read)
           a == WithPaths(p, flags)
           b == WithMounts(a, flags)
           c == WithNetMode(b, flags)
           d == WithNetAllow(c, flags)
           e == WithNetAssets(d)
           f == WithExecAllow(e, flags)
           g == WithExecDeny(f, flags)
           h == WithCalls(g, flags)
           \* What is there before the binaries.
           Unchanged(q) == /\ NothingElse(q) /\ q.execAllow = {} /\ q.execDeny = {Star} /\ q.noExec
                           /\ q.read = flags.read /\ q.write = flags.write
           Opened(q) == /\ q.netAllow \subseteq {AnyEndpoint} /\ q.network \in {"none", "host"}
                        /\ OpenNetwork(flags) <=> q.network = "host" \/ q.netAllow # {}
<1>1. /\ flags.enabled = "unset" /\ flags.mounts = <<>> /\ flags.netDeny = {} /\ flags.execDeny = {}
      /\ flags.callAllow = {} /\ flags.callDeny = {} /\ flags.netAllow \subseteq {AnyEndpoint}
      /\ flags.network \in {Empty, "none", "host"}
  BY DEF OnlyGrants, SpecTyped, Modes
<1>2. /\ DOMAIN p = Fields /\ p.enabled /\ p.network = "none" /\ p.read = {} /\ p.write = {} /\ p.netAllow = {}
      /\ p.netDeny = {} /\ p.callAllow = {} /\ p.callDeny = {} /\ p.execPaths = {}
      /\ p.execAllow = {} /\ p.execDeny = {Star} /\ p.noExec /\ p.mounts = base
  BY BuiltinBare DEF Bare
<1>3. DOMAIN base = {Tmp} /\ base[Tmp] = Tmpfs("rw") /\ "none" # Empty /\ "host" # Empty
  BY ModeFacts DEF MountAt
<1> HIDE DEF p, base
<1>4. WithEnabled(p, flags) = p
  BY <1>1 DEF WithEnabled
<1>5. Unchanged(a) /\ a.network = "none" /\ a.netAllow = {} /\ Layers(a.mounts, writes, reads, base)
  <2>1. CASE flags.read \cup flags.write = {}
    <3>1. a = p /\ flags.read = {} /\ flags.write = {}
      BY <2>1 DEF WithPaths
    <3>2. writes = {} /\ reads = {}
      BY <3>1 DEF Expanded
    <3>3. Layers(base, {}, {}, base)
      BY <1>3 DEF Layers
    <3> HIDE DEF a, writes, reads
    <3> QED BY <1>2, <3>1, <3>2, <3>3 DEF NothingElse
  <2>2. CASE flags.read \cup flags.write # {}
    <3> DEFINE m == CompilePaths(p.read \cup flags.read, p.write \cup flags.write, <<>>, p.mounts)
    <3>1. a = [p EXCEPT !.read = p.read \cup flags.read, !.write = p.write \cup flags.write, !.mounts = m]
      BY <2>2, Zenon DEF WithPaths
    <3>2. p.read \cup flags.read = flags.read /\ p.write \cup flags.write = flags.write
      BY <1>2
    <3>3. m = CompilePaths(flags.read, flags.write, <<>>, base)
      BY <1>2, <3>2
    <3>4. Layers(CompilePaths(flags.read, flags.write, <<>>, base), writes, reads, base)
      BY CompiledAt DEF Expanded
    <3> HIDE DEF m, a, writes, reads
    <3>5. a.mounts = m /\ a.read = flags.read /\ a.write = flags.write
      BY <1>2, <3>1, <3>2 DEF Fields
    <3>6. Unchanged(a) /\ a.network = "none" /\ a.netAllow = {}
      BY <1>2, <3>1, <3>5 DEF NothingElse, Fields
    <3> QED BY <3>3, <3>4, <3>5, <3>6
  <2> QED BY <2>1, <2>2
<1> HIDE DEF a
<1>6. Unchanged(b) /\ b.network = "none" /\ b.netAllow = {} /\ Layers(b.mounts, writes, reads, base)
  <2> DEFINE m == <<>> ++ a.mounts
  <2>1. b = [a EXCEPT !.mounts = m]
    BY <1>1 DEF WithMounts
  <2>2. DOMAIN m = DOMAIN a.mounts /\ \A x \in DOMAIN a.mounts : m[x] = a.mounts[x]
    <3>1. DOMAIN <<>> = {}
      OBVIOUS
    <3>2. /\ DOMAIN m = DOMAIN <<>> \cup DOMAIN a.mounts
          /\ \A x \in DOMAIN a.mounts \ DOMAIN <<>> : m[x] = a.mounts[x]
      BY OverlayDomain
    <3> QED BY <3>1, <3>2
  <2> HIDE DEF m, b, writes, reads, Unchanged
  <2>3. Layers(m, writes, reads, base)
    BY <1>5, <2>2 DEF Layers
  <2>4. DOMAIN a = Fields
    BY <1>5 DEF Unchanged, NothingElse
  <2>5. b.mounts = m /\ b.network = a.network /\ b.netAllow = a.netAllow
    BY <2>1, <2>4 DEF Fields
  <2>6. Unchanged(b)
    BY <1>5, <2>1, <2>4 DEF Unchanged, NothingElse, Fields
  <2> QED BY <1>5, <2>3, <2>5, <2>6
<1> HIDE DEF b
<1>7. Unchanged(c) /\ c.mounts = b.mounts /\ c.netAllow = {} /\ c.network = (IF flags.network = Empty THEN "none" ELSE flags.network)
  BY <1>6 DEF WithNetMode, NothingElse, Fields
<1> HIDE DEF c
<1>8. Unchanged(d) /\ d.mounts = c.mounts /\ Opened(d)
  <2>1. CASE flags.netAllow = {}
    <3>1. d = c
      BY <2>1 DEF WithNetAllow
    <3> HIDE DEF d, Unchanged
    <3> QED BY <1>1, <1>3, <1>7, <2>1, <3>1 DEF OpenNetwork
  <2>2. CASE flags.netAllow # {}
    <3>1. AnyEndpoint \in flags.netAllow
      BY <1>1, <2>2
    <3>2. d = [c EXCEPT !.network = "host", !.netAllow = {AnyEndpoint}, !.netDeny = c.netDeny \ {AnyEndpoint}]
      BY <2>2, <3>1, Zenon DEF WithNetAllow
    <3> HIDE DEF d
    <3>3. d.network = "host" /\ d.netAllow = {AnyEndpoint} /\ d.mounts = c.mounts
      BY <1>7, <3>2 DEF NothingElse, Fields
    <3>4. Unchanged(d)
      BY <1>7, <3>2 DEF NothingElse, Fields
    <3> QED BY <3>1, <3>3, <3>4 DEF OpenNetwork
  <2> QED BY <2>1, <2>2
<1> HIDE DEF d
<1>9. WithNetDeny(d, flags) = d
  BY <1>1 DEF WithNetDeny
<1>10. Unchanged(e) /\ Opened(e) /\ MountsNamed(e.mounts, flags)
  <2>0. Layers(d.mounts, writes, reads, base)
    BY <1>6, <1>7, <1>8
  <2>1. d.mounts[Tmp] = base[Tmp] \/ Tmp \in writes \cup reads
    BY <1>3, <2>0 DEF Layers
  <2>2. CASE ~OpenNetwork(flags)
    <3>1. e = d
      BY <1>8, <2>2 DEF WithNetAssets
    <3>2. Assets(flags) = {}
      BY <2>2 DEF Assets
    <3>3. MountsNamed(d.mounts, flags)
      BY <1>3, <2>0, <2>1, <3>2 DEF MountsNamed, Layers
    <3> HIDE DEF e, Unchanged, Opened
    <3> QED BY <1>8, <3>1, <3>3
  <2>3. CASE OpenNetwork(flags)
    <3> DEFINE own == [x \in NetworkAssets |-> Bind(x, "ro")]
               m == d.mounts ++ own
    <3>1. e = [d EXCEPT !.mounts = m]
      BY <1>8, <2>3 DEF WithNetAssets, ResolveNetworkAssetMounts
    <3>2. Assets(flags) = NetworkAssets
      BY <2>3 DEF Assets
    <3>3. DOMAIN own = NetworkAssets /\ \A x \in NetworkAssets : own[x] = Bind(x, "ro")
      OBVIOUS
    <3> HIDE DEF own
    <3>4. /\ DOMAIN m = DOMAIN d.mounts \cup DOMAIN own
          /\ \A x \in DOMAIN d.mounts : m[x] = d.mounts[x]
          /\ \A x \in DOMAIN own \ DOMAIN d.mounts : m[x] = own[x]
      BY OverlayDomain
    <3> HIDE DEF m, e, writes, reads
    <3>5. DOMAIN m = writes \cup reads \cup {Tmp} \cup Assets(flags)
      BY <1>3, <2>0, <3>2, <3>3, <3>4 DEF Layers
    <3>6. /\ \A x \in writes : m[x] = Bind(x, "rw")
          /\ \A x \in reads \ writes : m[x] = Bind(x, "ro")
          /\ Tmp \notin writes \cup reads => m[Tmp] = Tmpfs("rw")
      BY <1>3, <2>0, <2>1, <3>4 DEF Layers
    <3>7. \A x \in Assets(flags) \ (writes \cup reads \cup {Tmp}) : m[x] = Bind(x, "ro")
      BY <1>3, <2>0, <3>2, <3>3, <3>4 DEF Layers
    <3>8. MountsNamed(m, flags)
      BY <3>5, <3>6, <3>7 DEF MountsNamed, writes, reads
    <3>9. e.mounts = m /\ e.network = d.network /\ e.netAllow = d.netAllow
      BY <1>8, <3>1 DEF NothingElse, Fields
    <3>10. Unchanged(e)
      BY <1>8, <3>1 DEF NothingElse, Fields
    <3> HIDE DEF Unchanged
    <3> QED BY <1>8, <3>8, <3>9, <3>10
  <2> QED BY <2>2, <2>3
<1> HIDE DEF e
<1>11. Grants(f, flags)
  <2>1. CASE flags.execAllow = {}
    <3>1. f = e
      BY <2>1 DEF WithExecAllow
    <3> HIDE DEF f
    <3> QED BY <1>10, <2>1, <3>1 DEF Grants
  <2>2. CASE flags.execAllow # {}
    <3> DEFINE paths == IF Star \in e.execAllow \cup flags.execAllow THEN {}
                        ELSE e.execPaths \cup ResolveExecutablePaths(flags.execAllow)
    <3>1. f = [e EXCEPT !.execAllow = e.execAllow \cup flags.execAllow, !.execDeny = e.execDeny \ {Star},
                        !.noExec = FALSE, !.execPaths = paths]
      BY <2>2, Zenon DEF WithExecAllow
    <3> HIDE DEF f, paths
    <3>2. /\ NothingElse(f) /\ f.read = flags.read /\ f.write = flags.write /\ f.mounts = e.mounts
          /\ f.execAllow = flags.execAllow /\ f.execDeny = {}
          /\ f.network = e.network /\ f.netAllow = e.netAllow
      BY <1>10, <3>1 DEF NothingElse, Fields
    <3> QED BY <1>10, <2>2, <3>2 DEF Grants
  <2> QED BY <2>1, <2>2
<1> HIDE DEF f
<1>12. Grants(g, flags)
  <2>1. g = [f EXCEPT !.execDeny = f.execDeny \cup {}, !.noExec = f.noExec \/ (Star \in {} /\ f.execAllow = {})]
    BY <1>1 DEF WithExecDeny
  <2> HIDE DEF g
  <2>2. /\ NothingElse(g) /\ g.read = f.read /\ g.write = f.write /\ g.mounts = f.mounts
        /\ g.execAllow = f.execAllow /\ g.execDeny = f.execDeny /\ (g.noExec <=> f.noExec)
        /\ g.network = f.network /\ g.netAllow = f.netAllow
    BY <1>11, <2>1 DEF Grants, NothingElse, Fields
  <2> QED BY <1>11, <2>2 DEF Grants
<1> HIDE DEF g
<1>13. Grants(h, flags)
  <2>1. h = [g EXCEPT !.callAllow = g.callAllow \cup {}, !.callDeny = g.callDeny \cup {}]
    BY <1>1 DEF WithCalls
  <2> HIDE DEF h
  <2>2. /\ NothingElse(h) /\ h.read = g.read /\ h.write = g.write /\ h.mounts = g.mounts
        /\ h.execAllow = g.execAllow /\ h.execDeny = g.execDeny /\ h.noExec = g.noExec
        /\ h.network = g.network /\ h.netAllow = g.netAllow
    BY <1>12, <2>1 DEF Grants, NothingElse, Fields
  <2> QED BY <1>12, <2>2 DEF Grants
<1>14. ApplyCLIOverrides(p, flags) = h
  <2> HIDE DEF h
  <2>1. WithNetAssets(WithNetDeny(WithNetAllow(WithNetMode(WithMounts(WithPaths(WithEnabled(p, flags), flags), flags), flags),
                                               flags), flags)) = e
    BY <1>4, <1>9 DEF a, b, c, d, e
  <2> QED BY <2>1 DEF ApplyCLIOverrides, f, g, h
<1> HIDE DEF h
<1> QED BY <1>13, <1>14 DEF p

\* Whatever is about network or binaries is granted or not as a whole.
LEMMA Decided ==
  ASSUME NEW p, NEW flags, Grants(p, flags), NEW op
  PROVE  Allows(CompilePermissions(p), op)
           <=> /\ ~(flags.execAllow = {} /\ op.module = "os" /\ op.category \in {"exec", "shell"})
               /\ \/ MatchesOneOf(PathRules(p), op)
                  \/ MatchesOneOf(AmbientRules(p), op)
                  \/ MatchesOneOf(ExecRules(flags.execAllow), op)
                  \/ NetworkOp(op) /\ OpenNetwork(flags)
<1>1. /\ p.enabled /\ p.netDeny = {} /\ p.callDeny = {} /\ p.callAllow = {}
      /\ p.execDeny = (IF flags.execAllow = {} THEN {Star} ELSE {}) /\ p.execAllow = flags.execAllow
  BY DEF Grants, NothingElse
<1>2. MatchesOneOf(Denying(p), op) <=> flags.execAllow = {} /\ op.module = "os" /\ op.category \in {"exec", "shell"}
  <2>1. Denying(p) = ExecRules(p.execDeny)
    BY <1>1 DEF Denying, SynthesizeNetworkRules
  <2>2. ExecRules({}) = {}
    BY DEF ExecRules
  <2>3. ExecRules(p.execDeny) = IF flags.execAllow = {} THEN {Whole("os", "exec"), Whole("os", "shell")} ELSE {}
    BY <1>1, <2>2, StarRules
  <2>4. /\ Matches(Whole("os", "exec"), op) <=> op.module = "os" /\ op.category = "exec"
        /\ Matches(Whole("os", "shell"), op) <=> op.module = "os" /\ op.category = "shell"
    BY WholeMatches
  <2> QED BY <2>1, <2>3, <2>4 DEF MatchesOneOf
<1>3. BinaryRules(p) = ExecRules(flags.execAllow)
  BY <1>1 DEF BinaryRules, Grants
<1>4. MatchesOneOf(NetworkRules(p), op) <=> NetworkOp(op) /\ OpenNetwork(flags)
  <2>1. CASE OpenNetwork(flags)
    <3>1. NetworkRules(p) = SandboxNetRules
      <4>1. p.network = "host" \/ p.netAllow = {AnyEndpoint}
        BY <2>1 DEF Grants
      <4>2. p.netAllow = {} \/ p.netAllow = {AnyEndpoint}
        BY DEF Grants
      <4>3. "host" # Empty
        BY ModeFacts
      <4> QED BY <4>1, <4>2, <4>3 DEF NetworkRules, NetworkAllowRules, SynthesizeNetworkRules
    <3> QED BY <2>1, <3>1, NetworkMatches
  <2>2. CASE ~OpenNetwork(flags)
    <3>1. p.network = "none" /\ p.netAllow = {}
      BY <2>2 DEF Grants
    <3>2. NetworkRules(p) = {}
      BY <3>1 DEF NetworkRules
    <3> QED BY <2>2, <3>2 DEF MatchesOneOf
  <2> QED BY <2>1, <2>2
<1>5. Granting(p) = PathRules(p) \cup AmbientRules(p) \cup ExecRules(flags.execAllow) \cup NetworkRules(p)
  <2>1. p.callAllow = {}
    BY <1>1
  <2> QED BY <1>3, <2>1 DEF Granting, PathRules
<1>6. MatchesOneOf(Granting(p), op)
        <=> \/ MatchesOneOf(PathRules(p), op) \/ MatchesOneOf(AmbientRules(p), op)
            \/ MatchesOneOf(ExecRules(flags.execAllow), op) \/ MatchesOneOf(NetworkRules(p), op)
  BY <1>5 DEF MatchesOneOf
<1> QED BY <1>1, <1>2, <1>4, <1>6, Switched

LEMMA PathRulesMatch ==
  ASSUME NEW p, NEW op
  PROVE  MatchesOneOf(PathRules(p), op)
           <=> \/ MatchesOneOf(PathReadRules(p.read), op) \/ MatchesOneOf(PathWriteRules(p.write), op)
               \/ \E d \in DOMAIN p.mounts : MatchesOneOf(MountRules(d, p.mounts[d]), op)
<1>1. MatchesOneOf(MountedRules(p), op) <=> \E d \in DOMAIN p.mounts : MatchesOneOf(MountRules(d, p.mounts[d]), op)
  BY DEF MountedRules, MatchesOneOf
<1>2. MatchesOneOf(PathRules(p), op) <=> \/ MatchesOneOf(PathReadRules(p.read), op)
                                         \/ MatchesOneOf(PathWriteRules(p.write), op)
                                         \/ MatchesOneOf(MountedRules(p), op)
  BY DEF PathRules, MatchesOneOf
<1> QED BY <1>1, <1>2

\* What the mounts are, one by one: each at an absolute path and shown as itself, the scratch directory
\* writable unless it was named for reading.
Writable(flags) == flags.write \cup (IF \E p \in flags.read : Expand(p) = Tmp THEN {} ELSE {Tmp})
Readable(flags) == flags.read \cup Writable(flags) \cup Assets(flags)

LEMMA NamedPaths ==
  ASSUME NEW flags, OnlyGrants(flags), NEW mounts, MountsNamed(mounts, flags)
  PROVE  /\ \A p \in Readable(flags) : Absolute(Expand(p))
         /\ \A d \in DOMAIN mounts : Absolute(d) /\ (mounts[d].type = "bind" => mounts[d].source = d)
         /\ DOMAIN mounts = Expanded(Readable(flags))
         /\ \A d \in DOMAIN mounts : mounts[d].mode = "rw" <=> d \in Expanded(Writable(flags))
<1> DEFINE writes == Expanded(flags.write)
           reads == Expanded(flags.read)
<1>1. /\ DOMAIN mounts = writes \cup reads \cup {Tmp} \cup Assets(flags)
      /\ \A d \in writes : mounts[d] = Bind(d, "rw")
      /\ \A d \in reads \ writes : mounts[d] = Bind(d, "ro")
      /\ Tmp \notin writes \cup reads => mounts[Tmp] = Tmpfs("rw")
      /\ \A d \in Assets(flags) \ (writes \cup reads \cup {Tmp}) : mounts[d] = Bind(d, "ro")
  BY DEF MountsNamed
<1>2. /\ Assets(flags) \subseteq NetworkAssets /\ Tmp \notin Assets(flags)
      /\ \A x \in Assets(flags) \cup {Tmp} : Absolute(x) /\ Expand(x) = x
  <2>1. Assets(flags) \subseteq NetworkAssets
    BY DEF Assets
  <2>2. \A x \in NetworkAssets \cup {Tmp} : Absolute(x) /\ Expand(x) = x
    BY AssetsAssumption, AbsoluteIsPlace, PlaceExpand
  <2> QED BY <2>1, <2>2, AssetsAssumption
<1>3. \A x \in flags.read \cup flags.write : Absolute(Expand(x))
  BY DEF OnlyGrants
<1>4. \A p \in Readable(flags) : Absolute(Expand(p))
  BY <1>2, <1>3 DEF Readable, Writable
<1>5. \A x \in writes \cup reads : Absolute(x)
  BY <1>3 DEF Expanded
<1>6. (\E p \in flags.read : Expand(p) = Tmp) <=> Tmp \in reads
  BY DEF Expanded
<1>7. Expanded(Writable(flags)) = writes \cup (IF Tmp \in reads THEN {} ELSE {Tmp})
  BY <1>2, <1>6 DEF Expanded, Writable
<1>8. Expanded(Readable(flags)) = reads \cup Expanded(Writable(flags)) \cup Assets(flags)
  BY <1>2 DEF Expanded, Readable
<1> HIDE DEF writes, reads
<1>9. DOMAIN mounts = Expanded(Readable(flags))
  BY <1>1, <1>7, <1>8
<1>10. /\ \A d : Bind(d, "rw").mode = "rw" /\ Bind(d, "ro").mode = "ro" /\ Bind(d, "rw").source = d /\ Bind(d, "ro").source = d
       /\ Tmpfs("rw").mode = "rw" /\ Tmpfs("rw").type = "tmpfs"
  BY DEF Bind, Tmpfs
<1>11. ASSUME NEW d \in DOMAIN mounts
       PROVE  /\ Absolute(d) /\ (mounts[d].type = "bind" => mounts[d].source = d)
              /\ mounts[d].mode = "rw" <=> d \in Expanded(Writable(flags))
  <2>1. CASE d \in writes
    BY <1>1, <1>5, <1>7, <1>10, <2>1
  <2>2. CASE d \in reads \ writes
    BY <1>1, <1>5, <1>7, <1>10, <2>2
  <2>3. CASE d = Tmp /\ Tmp \notin writes \cup reads
    BY <1>1, <1>2, <1>7, <1>10, <2>3
  <2>4. CASE d \in Assets(flags) \ (writes \cup reads \cup {Tmp})
    BY <1>1, <1>2, <1>7, <1>10, <2>4
  <2> QED BY <1>1, <2>1, <2>2, <2>3, <2>4
<1> QED BY <1>4, <1>9, <1>11

LEMMA UnderExpanded ==
  ASSUME NEW path, NEW P PROVE UnderOneOf(path, P) <=> \E d \in Expanded(P) : Under(path, d)
  BY DEF UnderOneOf, Expanded

LEMMA FilesNamed ==
  ASSUME NEW p, NEW flags, SpecTyped(flags), OnlyGrants(flags), Grants(p, flags), NEW op, FileOp(op)
  PROVE  MatchesOneOf(PathRules(p), op)
           <=> UnderOneOf(op.segs, IF op.category = "read" THEN Readable(flags) ELSE Writable(flags))
<1> DEFINE m == p.mounts
<1>1. p.read = flags.read /\ p.write = flags.write /\ MountsNamed(m, flags)
  BY DEF Grants
<1>2. /\ \A x \in Readable(flags) : Absolute(Expand(x))
      /\ \A d \in DOMAIN m : Absolute(d) /\ (m[d].type = "bind" => m[d].source = d)
      /\ DOMAIN m = Expanded(Readable(flags))
      /\ \A d \in DOMAIN m : m[d].mode = "rw" <=> d \in Expanded(Writable(flags))
  BY <1>1, NamedPaths
<1> HIDE DEF m
<1>3. ASSUME NEW d \in DOMAIN m
      PROVE  MatchesOneOf(MountRules(d, m[d]), op)
               <=> (d \in Expanded(Writable(flags)) \/ op.category = "read") /\ Under(op.segs, d)
  <2>1. Place(d) /\ (m[d].type = "bind" => Place(m[d].source) /\ m[d].source = d)
    BY <1>2, AbsoluteIsPlace
  <2>2. ShownBy(op.segs, d, m[d]) <=> Under(op.segs, d)
    BY <2>1 DEF ShownBy
  <2> QED BY <1>2, <2>1, <2>2, MountRulesGrant
<1>4. \A x \in flags.read \cup flags.write : Plain(x)
  BY DEF SpecTyped, PathsTyped
<1>5. /\ MatchesOneOf(PathReadRules(flags.read), op) <=> op.category = "read" /\ UnderOneOf(op.segs, flags.read)
      /\ MatchesOneOf(PathWriteRules(flags.write), op) <=> UnderOneOf(op.segs, flags.write)
  BY <1>4, ReadRulesGrant, WriteRulesGrant
<1>6. /\ Expanded(flags.read) \subseteq Expanded(Readable(flags)) /\ Expanded(flags.write) \subseteq Expanded(Writable(flags))
      /\ Expanded(Writable(flags)) \subseteq Expanded(Readable(flags))
  BY DEF Expanded, Readable, Writable
<1>7. /\ UnderOneOf(op.segs, flags.read) => UnderOneOf(op.segs, Readable(flags))
      /\ UnderOneOf(op.segs, flags.write) => UnderOneOf(op.segs, Writable(flags))
      /\ UnderOneOf(op.segs, Writable(flags)) => UnderOneOf(op.segs, Readable(flags))
  BY <1>6, UnderExpanded
<1>8. (\E d \in DOMAIN m : MatchesOneOf(MountRules(d, m[d]), op))
        <=> UnderOneOf(op.segs, IF op.category = "read" THEN Readable(flags) ELSE Writable(flags))
  <2>1. CASE op.category = "read"
    BY <1>2, <1>3, <2>1, UnderExpanded
  <2>2. CASE op.category # "read"
    BY <1>2, <1>3, <1>6, <2>2, UnderExpanded
  <2> QED BY <2>1, <2>2
<1> QED BY <1>1, <1>5, <1>7, <1>8, PathRulesMatch DEF m

LEMMA DatabasesNamed ==
  ASSUME NEW p, NEW flags, SpecTyped(flags), OnlyGrants(flags), Grants(p, flags), NEW op, DbOp(op)
  PROVE  MatchesOneOf(PathRules(p), op)
           <=> IF op.segs = Memory THEN Writable(flags) # {} ELSE UnderOneOf(op.segs, Readable(flags))
<1> DEFINE m == p.mounts
<1>1. p.read = flags.read /\ p.write = flags.write /\ MountsNamed(m, flags)
  BY DEF Grants
<1>2. /\ \A x \in Readable(flags) : Absolute(Expand(x))
      /\ \A d \in DOMAIN m : Absolute(d) /\ (m[d].type = "bind" => m[d].source = d)
      /\ DOMAIN m = Expanded(Readable(flags))
      /\ \A d \in DOMAIN m : m[d].mode = "rw" <=> d \in Expanded(Writable(flags))
  BY <1>1, NamedPaths
<1> HIDE DEF m
<1>3. ASSUME NEW d \in DOMAIN m
      PROVE  MatchesOneOf(MountRules(d, m[d]), op)
               <=> IF op.segs = Memory THEN d \in Expanded(Writable(flags)) ELSE Under(op.segs, d)
  BY <1>2, DatabaseMounts
<1>4. \A x \in flags.read \cup flags.write : Absolute(Expand(x))
  BY DEF OnlyGrants
<1>5. /\ MatchesOneOf(PathReadRules(flags.read), op) <=> op.segs # Memory /\ UnderOneOf(op.segs, flags.read)
      /\ MatchesOneOf(PathWriteRules(flags.write), op)
           <=> (IF op.segs = Memory THEN flags.write # {} ELSE UnderOneOf(op.segs, flags.write))
  BY <1>4, DatabaseReads, DatabaseWrites
<1>6. /\ Expanded(flags.read) \subseteq Expanded(Readable(flags)) /\ Expanded(flags.write) \subseteq Expanded(Readable(flags))
      /\ Expanded(Writable(flags)) \subseteq Expanded(Readable(flags))
      /\ flags.write \subseteq Writable(flags)
      /\ Expanded(Writable(flags)) = {} <=> Writable(flags) = {}
  BY DEF Expanded, Readable, Writable
<1>7. /\ UnderOneOf(op.segs, flags.read) => UnderOneOf(op.segs, Readable(flags))
      /\ UnderOneOf(op.segs, flags.write) => UnderOneOf(op.segs, Readable(flags))
  BY <1>6, UnderExpanded
<1>8. (\E d \in DOMAIN m : MatchesOneOf(MountRules(d, m[d]), op))
        <=> IF op.segs = Memory THEN Writable(flags) # {} ELSE UnderOneOf(op.segs, Readable(flags))
  BY <1>2, <1>3, <1>6, UnderExpanded
<1>9. MatchesOneOf(PathRules(p), op)
        <=> \/ MatchesOneOf(PathReadRules(flags.read), op) \/ MatchesOneOf(PathWriteRules(flags.write), op)
            \/ \E d \in DOMAIN m : MatchesOneOf(MountRules(d, m[d]), op)
  BY <1>1, PathRulesMatch DEF m
<1> QED BY <1>5, <1>6, <1>7, <1>8, <1>9

LEMMA AmbientNamed ==
  ASSUME NEW p, NEW flags, OnlyGrants(flags), Grants(p, flags)
  PROVE  p.read \cup p.write \cup (DOMAIN p.mounts \ {Tmp}) # {} <=> flags.read \cup flags.write \cup Assets(flags) # {}
<1>1. /\ p.read = flags.read /\ p.write = flags.write
      /\ DOMAIN p.mounts = Expanded(flags.write) \cup Expanded(flags.read) \cup {Tmp} \cup Assets(flags)
  BY DEF Grants, MountsNamed
<1>2. Tmp \notin Assets(flags)
  BY AssetsAssumption DEF Assets
<1>3. flags.read \cup flags.write = {} => Expanded(flags.write) \cup Expanded(flags.read) = {}
  BY DEF Expanded
<1> QED BY <1>1, <1>2, <1>3

LEMMA GrantsNamed ==
  ASSUME NEW flags, SpecTyped(flags), OnlyGrants(flags), NEW op \in Ops
  PROVE  Allows(CompilePermissions(ApplyCLIOverrides(LoadBuiltin("deny-all"), flags)), op) <=> Named(op, flags)
<1> DEFINE p == ApplyCLIOverrides(LoadBuiltin("deny-all"), flags)
           sqlite == op.module = "sql" /\ op.category = "open" /\ op.function = "sqlite"
           ambient == (op.module = "os" /\ op.category = "env") \/ (op.module = "io" /\ op.category = "prompt")
           exec == op.module = "os" /\ op.category = "exec"
           shell == op.module = "os" /\ op.category = "shell"
<1>1. Grants(p, flags)
  BY GrantProfile
<1> HIDE DEF p
<1>2. Allows(CompilePermissions(p), op)
        <=> /\ ~(flags.execAllow = {} /\ op.module = "os" /\ op.category \in {"exec", "shell"})
            /\ \/ MatchesOneOf(PathRules(p), op)
               \/ MatchesOneOf(AmbientRules(p), op)
               \/ MatchesOneOf(ExecRules(flags.execAllow), op)
               \/ NetworkOp(op) /\ OpenNetwork(flags)
  BY <1>1, Decided
<1>3. MatchesOneOf(AmbientRules(p), op) <=> flags.read \cup flags.write \cup Assets(flags) # {} /\ ambient
  <2>1. p.callDeny = {}
    BY <1>1 DEF Grants, NothingElse
  <2> QED BY <1>1, <2>1, AmbientMatches, AmbientNamed
<1>4. ~exec /\ ~shell => ~MatchesOneOf(ExecRules(flags.execAllow), op)
  BY BinariesElsewhere
<1>5. op.module # "fs" /\ ~sqlite => ~MatchesOneOf(PathRules(p), op)
  BY PathsElsewhere
<1>6. op.module \in {"fs", "os", "io"} \/ sqlite => ~NetworkOp(op)
  BY DEF NetworkOp
<1>7. Named(op, flags)
        <=> IF op.module = "fs" THEN UnderOneOf(op.segs, IF op.category = "read" THEN Readable(flags) ELSE Writable(flags))
            ELSE IF sqlite THEN (IF op.segs = Memory THEN Writable(flags) # {} ELSE UnderOneOf(op.segs, Readable(flags)))
            ELSE IF ambient THEN flags.read \cup flags.write \cup Assets(flags) # {}
            ELSE IF exec THEN \E b \in flags.execAllow : Runs(op, b)
            ELSE IF shell THEN Star \in flags.execAllow
            ELSE NetworkOp(op) /\ OpenNetwork(flags)
  <2>1. <<op.module, op.category>> \in {<<"os", "env">>, <<"io", "prompt">>} <=> ambient
    OBVIOUS
  <2> QED BY <2>1 DEF Named, Assets, Writable, Readable, Runs
<1>8. CASE op.module = "fs"
  <2>1. FileOp(op)
    BY <1>8, OpsAssumption DEF FileOp
  <2>2. MatchesOneOf(PathRules(p), op)
          <=> UnderOneOf(op.segs, IF op.category = "read" THEN Readable(flags) ELSE Writable(flags))
    BY <1>1, <2>1, FilesNamed
  <2> QED BY <1>2, <1>3, <1>4, <1>6, <1>7, <1>8, <2>2 DEF p
<1>9. CASE sqlite
  <2>1. DbOp(op)
    BY <1>9, OpsAssumption DEF DbOp
  <2>2. MatchesOneOf(PathRules(p), op)
          <=> IF op.segs = Memory THEN Writable(flags) # {} ELSE UnderOneOf(op.segs, Readable(flags))
    BY <1>1, <2>1, DatabasesNamed
  <2> QED BY <1>2, <1>3, <1>4, <1>6, <1>7, <1>9, <2>2 DEF p
<1>10. CASE ambient
  BY <1>2, <1>3, <1>4, <1>5, <1>6, <1>7, <1>10 DEF p
<1>11. CASE exec
  <2>1. ExecOp(op)
    BY <1>11, OpsAssumption DEF ExecOp
  <2>2. MatchesOneOf(ExecRules(flags.execAllow), op) <=> \E b \in flags.execAllow : Runs(op, b)
    <3>1. \A b \in flags.execAllow : Binary(b)
      BY DEF OnlyGrants, Binary
    <3> QED BY <2>1, <3>1, BinariesGrant
  <2> QED BY <1>2, <1>3, <1>5, <1>6, <1>7, <1>11, <2>2 DEF p
<1>12. CASE shell
  <2>1. MatchesOneOf(ExecRules(flags.execAllow), op) <=> Star \in flags.execAllow
    BY <1>12, ShellGrants
  <2> QED BY <1>2, <1>3, <1>5, <1>6, <1>7, <1>12, <2>1 DEF p
<1>13. CASE op.module # "fs" /\ ~sqlite /\ ~ambient /\ ~exec /\ ~shell
  BY <1>2, <1>3, <1>4, <1>5, <1>7, <1>13 DEF p
<1> QED BY <1>8, <1>9, <1>10, <1>11, <1>12, <1>13

\* On top of deny-all, flags that only grant grant what they name and nothing else (ApplyCLIOverrides, PathReadRules,
\* PathWriteRules, ExecAllowRules, NetworkAllowRules), for all paths, binaries and operations.
THEOREM FlagsGrantWhatTheyNameCorrect == Spec => []FlagsGrantWhatTheyName
<1>1. ASSUME SPInv PROVE FlagsGrantWhatTheyName
  <2> SUFFICES ASSUME Fresh, command.profile = "deny-all", OnlyGrants(command.flags), NEW op \in Ops
               PROVE  Allows(config, op) <=> Named(op, command.flags)
    BY DEF FlagsGrantWhatTheyName
  <2>1. IsBuiltin(command.profile)
    BY DEF IsBuiltin, Rungs, ToSet
  <2>2. profile = ApplyCLIOverrides(LoadBuiltin("deny-all"), command.flags) /\ config = CompilePermissions(profile)
    BY <1>1, <2>1, ResolvedBuiltin DEF SPInv, Story, Fresh
  <2>3. SpecTyped(command.flags)
    BY <1>1, CommandsAssumption DEF SPInv, TypeOK
  <2> QED BY <2>2, <2>3, GrantsNamed
<1> QED BY <1>1, SPInvariant, PTL

=============================================================================
