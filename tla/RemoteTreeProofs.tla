-------------------------- MODULE RemoteTreeProofs --------------------------
(***************************************************************************)
(* What the commands of RemoteTree keep of the server's tree (every entry  *)
(* stays in a directory, every link keeps a target that is a path), which  *)
(* entries they lose, make or replace, and what one that succeeds has done *)
(* and changed.                                                            *)
(***************************************************************************)
EXTENDS RemoteTree, SequenceTheorems, Iteration

-----------------------------------------------------------------------------
(* Paths.                                                                  *)

\* A path is a sequence of names no longer than the server accepts.
LEMMA PathsAreShort ==
  ASSUME NEW p \in Paths
  PROVE  p \in Seq(Names) /\ Len(p) \in Nat /\ Len(p) <= MaxDepth
<1>1. PICK n \in 0..MaxDepth : p \in [1..n -> Names]
  BY DEF Paths
<1> QED
  BY <1>1, RemoteTreeAssumption

\* And the other way round.
LEMMA ShortIsPath ==
  ASSUME NEW p \in Seq(Names), Len(p) <= MaxDepth
  PROVE  p \in Paths
<1>1. p \in [1..Len(p) -> Names] /\ Len(p) \in 0..MaxDepth
  BY RemoteTreeAssumption
<1> QED
  BY <1>1 DEF Paths

\* The root is a path.
LEMMA RootIsPath == Root \in Paths /\ Root \in Seq(Names) /\ Len(Root) = 0
<1>1. Root \in Seq(Names) /\ Len(Root) = 0
  BY EmptySeq DEF Root
<1>2. Len(Root) <= MaxDepth
  BY <1>1, RemoteTreeAssumption
<1> QED
  BY <1>1, <1>2, ShortIsPath

\* A path other than the root is its front and its last name.
LEMMA FrontAndLast ==
  ASSUME NEW p \in Seq(Names), p # Root
  PROVE  /\ Front(p) \in Seq(Names) /\ Last(p) \in Names
         /\ Len(p) \in Nat \ {0} /\ Len(Front(p)) = Len(p) - 1
         /\ p = Append(Front(p), Last(p))
         /\ p \in Paths => Front(p) \in Paths
<1>1. Len(p) \in Nat \ {0}
  BY DEF Root
<1>2. Front(p) \in Seq(Names) /\ Len(Front(p)) = Len(p) - 1
      /\ \A i \in 1..Len(p) - 1 : Front(p)[i] = p[i]
  BY <1>1, SMTT(60) DEF Front
<1>3. Last(p) \in Names
  BY <1>1 DEF Last
<1>4. p = Append(Front(p), Last(p))
  <2>1. Append(Front(p), Last(p)) \in Seq(Names)
        /\ Len(Append(Front(p), Last(p))) = Len(p)
        /\ \A i \in 1..Len(p) : Append(Front(p), Last(p))[i] = p[i]
    BY <1>1, <1>2, <1>3, AppendProperties DEF Last
  <2> QED
    BY <2>1, SeqEqual
<1>5. ASSUME p \in Paths PROVE Front(p) \in Paths
  <2>1. Len(p) <= MaxDepth
    BY <1>5, PathsAreShort
  <2>2. Len(Front(p)) <= MaxDepth
    BY <1>1, <1>2, <2>1, RemoteTreeAssumption
  <2> QED
    BY <1>2, <2>2, ShortIsPath
<1> QED
  BY <1>1, <1>2, <1>3, <1>4, <1>5

\* An entry's place: the directory it is in, and its name.
LEMMA AppendedName ==
  ASSUME NEW e \in Seq(Names), NEW n \in Names
  PROVE  /\ Append(e, n) \in Seq(Names) /\ Append(e, n) # Root
         /\ Len(Append(e, n)) = Len(e) + 1
         /\ Front(Append(e, n)) = e /\ Last(Append(e, n)) = n
         /\ Append(e, n) \in Paths => e \in Paths
<1>1. /\ Append(e, n) \in Seq(Names) /\ Append(e, n) # Root
      /\ Len(Append(e, n)) = Len(e) + 1
      /\ \A i \in 1..Len(e) : Append(e, n)[i] = e[i]
      /\ Append(e, n)[Len(e) + 1] = n
  BY AppendProperties DEF Root
<1>2. Append(e, n) = Append(Front(Append(e, n)), Last(Append(e, n)))
      /\ Front(Append(e, n)) \in Seq(Names) /\ Last(Append(e, n)) \in Names
  BY <1>1, FrontAndLast
<1>3. Front(Append(e, n)) = e /\ Last(Append(e, n)) = n
  BY <1>2, AppendInjective
<1>4. ASSUME Append(e, n) \in Paths PROVE e \in Paths
  BY <1>2, <1>3, <1>1, <1>4, FrontAndLast
<1> QED
  BY <1>1, <1>3, <1>4

\* A path and one name more.
LEMMA OneMore ==
  ASSUME NEW r \in Seq(Names), Len(r) = 1
  PROVE  /\ r # Root /\ r[1] \in Names
         /\ \A e \in Seq(Names) : e \o r = Append(e, r[1])
<1>1. r # Root /\ r[1] \in Names
  BY RootIsPath
<1>2. ASSUME NEW e \in Seq(Names) PROVE e \o r = Append(e, r[1])
  <2>1. Len(e) \in Nat
    OBVIOUS
  <2>2. /\ e \o r \in Seq(Names) /\ Len(e \o r) = Len(e) + 1
        /\ \A i \in 1..Len(e) : (e \o r)[i] = e[i]
        /\ (e \o r)[Len(e) + 1] = r[1]
    <3>1. /\ e \o r \in Seq(Names) /\ Len(e \o r) = Len(e) + Len(r)
          /\ \A i \in 1..Len(e) + Len(r) :
                (e \o r)[i] = IF i <= Len(e) THEN e[i] ELSE r[i - Len(e)]
      BY ConcatProperties
    <3> QED
      BY <2>1, <3>1
  <2>3. /\ Append(e, r[1]) \in Seq(Names) /\ Len(Append(e, r[1])) = Len(e) + 1
        /\ \A i \in 1..Len(e) : Append(e, r[1])[i] = e[i]
        /\ Append(e, r[1])[Len(e) + 1] = r[1]
    BY <1>1, AppendProperties
  <2>4. ASSUME NEW i \in 1..Len(e) + 1 PROVE (e \o r)[i] = Append(e, r[1])[i]
    <3>1. i \in 1..Len(e) \/ i = Len(e) + 1
      BY <2>1
    <3> QED
      BY <2>2, <2>3, <3>1
  <2> QED
    BY <2>2, <2>3, <2>4, SeqEqual
<1> QED
  BY <1>1, <1>2

\* A prefix, name by name.
LEMMA PrefixByNames ==
  ASSUME NEW e \in Seq(Names), NEW q \in Seq(Names)
  PROVE  IsPrefix(e, q) <=> (Len(e) <= Len(q) /\ \A i \in 1..Len(e) : e[i] = q[i])
<1>1. Len(e) \in Nat /\ Len(q) \in Nat
  OBVIOUS
<1>2. /\ SubSeq(e, 1, Len(e)) \in Seq(Names) /\ Len(SubSeq(e, 1, Len(e))) = Len(e)
      /\ \A i \in 1..Len(e) : SubSeq(e, 1, Len(e))[i] = e[i]
  BY <1>1
<1>3. Len(e) <= Len(q) =>
        /\ SubSeq(q, 1, Len(e)) \in Seq(Names) /\ Len(SubSeq(q, 1, Len(e))) = Len(e)
        /\ \A i \in 1..Len(e) : SubSeq(q, 1, Len(e))[i] = q[i]
  BY <1>1
<1>4. ASSUME IsPrefix(e, q) PROVE Len(e) <= Len(q) /\ \A i \in 1..Len(e) : e[i] = q[i]
  BY <1>2, <1>3, <1>4 DEF IsPrefix
<1>5. ASSUME Len(e) <= Len(q), \A i \in 1..Len(e) : e[i] = q[i] PROVE IsPrefix(e, q)
  <2>1. SubSeq(e, 1, Len(e)) = SubSeq(q, 1, Len(e))
    BY <1>2, <1>3, <1>5, SeqEqual
  <2> QED
    BY <1>5, <2>1 DEF IsPrefix
<1> QED
  BY <1>4, <1>5

\* A front, name by name.
LEMMA FrontByNames ==
  ASSUME NEW q \in Seq(Names), q # Root
  PROVE  /\ Front(q) \in Seq(Names) /\ Len(Front(q)) = Len(q) - 1
         /\ Len(q) >= 1
         /\ \A i \in 1..Len(q) - 1 : Front(q)[i] = q[i]
<1>1. /\ Front(q) \in Seq(Names) /\ Len(Front(q)) = Len(q) - 1 /\ Len(q) \in Nat \ {0}
      /\ q = Append(Front(q), Last(q)) /\ Last(q) \in Names
  BY FrontAndLast
<1>2. \A i \in 1..Len(q) - 1 : Front(q)[i] = q[i]
  BY <1>1, AppendProperties
<1> QED
  BY <1>1, <1>2

\* Prefixes are ordered.
LEMMA PrefixOrder ==
  ASSUME NEW e \in Seq(Names), NEW q \in Seq(Names)
  PROVE  /\ IsPrefix(e, e)
         /\ \A r \in Seq(Names) : IsPrefix(e, q) /\ IsPrefix(q, r) => IsPrefix(e, r)
         /\ IsPrefix(e, q) /\ e # q =>
               Len(e) < Len(q) /\ q # Root /\ IsPrefix(e, Front(q))
         /\ q # Root /\ IsPrefix(e, Front(q)) => IsPrefix(e, q) /\ e # q
<1>1. Len(e) \in Nat /\ Len(q) \in Nat
  OBVIOUS
<1>2. IsPrefix(e, e)
  BY <1>1, PrefixByNames
<1>3. ASSUME NEW r \in Seq(Names), IsPrefix(e, q), IsPrefix(q, r) PROVE IsPrefix(e, r)
  <2>1. Len(r) \in Nat /\ Len(e) <= Len(q) /\ Len(q) <= Len(r)
    BY <1>3, PrefixByNames
  <2>2. \A i \in 1..Len(e) : e[i] = r[i]
    BY <1>1, <1>3, <2>1, PrefixByNames
  <2> QED
    BY <1>1, <2>1, <2>2, PrefixByNames
<1>4. q # Root => /\ Front(q) \in Seq(Names) /\ Len(Front(q)) = Len(q) - 1
                  /\ Len(q) >= 1
                  /\ \A i \in 1..Len(q) - 1 : Front(q)[i] = q[i]
  BY FrontByNames
<1>5. ASSUME IsPrefix(e, q), e # q
      PROVE  Len(e) < Len(q) /\ q # Root /\ IsPrefix(e, Front(q))
  <2>1. Len(e) <= Len(q) /\ \A i \in 1..Len(e) : e[i] = q[i]
    BY <1>5, PrefixByNames
  <2>2. Len(e) # Len(q)
    BY <1>5, <2>1, SeqEqual
  <2>3. Len(e) < Len(q) /\ q # Root
    BY <1>1, <2>1, <2>2, RootIsPath
  <2>4. Len(e) <= Len(Front(q)) /\ \A i \in 1..Len(e) : e[i] = Front(q)[i]
    BY <1>1, <1>4, <2>1, <2>3
  <2> QED
    BY <1>4, <2>3, <2>4, PrefixByNames
<1>6. ASSUME q # Root, IsPrefix(e, Front(q)) PROVE IsPrefix(e, q) /\ e # q
  <2>1. Len(e) <= Len(q) - 1 /\ \A i \in 1..Len(e) : e[i] = Front(q)[i]
    BY <1>4, <1>6, PrefixByNames
  <2>2. Len(e) <= Len(q) /\ \A i \in 1..Len(e) : e[i] = q[i]
    BY <1>1, <1>4, <1>6, <2>1
  <2> QED
    BY <1>1, <2>1, <2>2, PrefixByNames
<1> QED
  BY <1>2, <1>3, <1>5, <1>6

\* Two prefixes of one path: one of them is a prefix of the other.
LEMMA PrefixesCompare ==
  ASSUME NEW a \in Seq(Names), NEW b \in Seq(Names), NEW q \in Seq(Names),
         IsPrefix(a, q), IsPrefix(b, q)
  PROVE  IsPrefix(a, b) \/ IsPrefix(b, a)
<1>1. Len(a) \in Nat /\ Len(b) \in Nat /\ Len(q) \in Nat
  OBVIOUS
<1>2. /\ \A i \in 1..Len(a) : a[i] = q[i]
      /\ \A i \in 1..Len(b) : b[i] = q[i]
  BY PrefixByNames
<1>3. CASE Len(a) <= Len(b)
  BY <1>1, <1>2, <1>3, PrefixByNames
<1>4. CASE Len(b) <= Len(a)
  BY <1>1, <1>2, <1>4, PrefixByNames
<1> QED
  BY <1>1, <1>3, <1>4

\* The place under goal that corresponds to one under e, name by name.
LEMMA ImageByNames ==
  ASSUME NEW e \in Seq(Names), NEW goal \in Seq(Names), NEW r \in Seq(Names),
         IsPrefix(e, r)
  PROVE  /\ Image(e, goal, r) \in Seq(Names)
         /\ Len(Image(e, goal, r)) = Len(goal) + (Len(r) - Len(e))
         /\ \A i \in 1..Len(goal) : Image(e, goal, r)[i] = goal[i]
         /\ \A i \in 1..Len(r) - Len(e) : Image(e, goal, r)[Len(goal) + i] = r[Len(e) + i]
<1> DEFINE n == Len(r) - Len(e)
           s == SubSeq(r, Len(e) + 1, Len(r))
<1>1. Len(e) \in Nat /\ Len(r) \in Nat /\ Len(goal) \in Nat /\ n \in Nat
  BY PrefixByNames
<1>2. \A i \in Len(e) + 1..Len(r) : r[i] \in Names
  BY <1>1
<1>3. /\ s \in Seq(Names) /\ Len(s) = n
      /\ \A i \in 1..n : s[i] = r[Len(e) + i]
  <2>1. /\ s \in Seq(Names)
        /\ Len(s) = IF Len(e) + 1 <= Len(r) THEN Len(r) - (Len(e) + 1) + 1 ELSE 0
        /\ \A i \in 1..Len(r) - (Len(e) + 1) + 1 : s[i] = r[(Len(e) + 1) + i - 1]
    BY <1>1, <1>2, SubSeqProperties
  <2>2. Len(s) = n
    BY <1>1, <2>1
  <2>3. ASSUME NEW i \in 1..n PROVE s[i] = r[Len(e) + i]
    <3>1. i \in 1..Len(r) - (Len(e) + 1) + 1 /\ (Len(e) + 1) + i - 1 = Len(e) + i
      BY <1>1
    <3> QED
      BY <2>1, <3>1
  <2> QED
    BY <2>1, <2>2, <2>3
<1> HIDE DEF s
<1>4. /\ goal \o s \in Seq(Names) /\ Len(goal \o s) = Len(goal) + Len(s)
      /\ \A i \in 1..Len(goal) + Len(s) :
            (goal \o s)[i] = IF i <= Len(goal) THEN goal[i] ELSE s[i - Len(goal)]
  BY <1>3, ConcatProperties
<1>5. \A i \in 1..Len(goal) : (goal \o s)[i] = goal[i]
  BY <1>1, <1>3, <1>4
<1>6. ASSUME NEW i \in 1..n PROVE (goal \o s)[Len(goal) + i] = r[Len(e) + i]
  <2>1. /\ Len(goal) + i \in 1..Len(goal) + Len(s) /\ ~(Len(goal) + i <= Len(goal))
        /\ (Len(goal) + i) - Len(goal) = i
    BY <1>1, <1>3
  <2>2. (goal \o s)[Len(goal) + i] = s[i]
    BY <1>4, <2>1
  <2> QED
    BY <1>3, <2>2
<1>7. Image(e, goal, r) = goal \o s
  BY DEF Image, s
<1> QED
  BY <1>3, <1>4, <1>5, <1>6, <1>7

\* What e is, and its parts, become goal and its parts, each once.
LEMMA ImageOfParts ==
  ASSUME NEW e \in Seq(Names), NEW goal \in Seq(Names), NEW r \in Seq(Names),
         IsPrefix(e, r)
  PROVE  /\ IsPrefix(goal, Image(e, goal, r))
         /\ Image(e, goal, e) = goal
         /\ \A s \in Seq(Names) :
               IsPrefix(e, s) /\ Image(e, goal, s) = Image(e, goal, r) => s = r
         /\ r # e => /\ Front(Image(e, goal, r)) = Image(e, goal, Front(r))
                     /\ Image(e, goal, r) # Root
                     /\ Image(e, goal, r) # goal
<1>1. Len(e) \in Nat /\ Len(r) \in Nat /\ Len(goal) \in Nat /\ Len(e) <= Len(r)
  BY PrefixByNames
<1> DEFINE m == Image(e, goal, r)
<1>2. /\ m \in Seq(Names) /\ Len(m) = Len(goal) + (Len(r) - Len(e))
      /\ \A i \in 1..Len(goal) : m[i] = goal[i]
      /\ \A i \in 1..Len(r) - Len(e) : m[Len(goal) + i] = r[Len(e) + i]
  BY ImageByNames, ZenonT(60)
<1>3. IsPrefix(goal, m)
  <2> HIDE DEF m
  <2> QED
    BY <1>1, <1>2, PrefixByNames
<1>4. Image(e, goal, e) = goal
  <2>1. IsPrefix(e, e)
    BY PrefixOrder
  <2> DEFINE f == Image(e, goal, e)
             n == Len(e) - Len(e)
  <2>2. f \in Seq(Names) /\ Len(f) = Len(goal) + n /\ \A i \in 1..Len(goal) : f[i] = goal[i]
    BY <2>1, ImageByNames
  <2>3. n = 0
    BY <1>1
  <2> HIDE DEF f, n
  <2>4. f = goal
    BY <1>1, <2>2, <2>3, SeqEqual
  <2> QED
    BY <2>4 DEF f
<1>5. ASSUME NEW s \in Seq(Names), IsPrefix(e, s), Image(e, goal, s) = m PROVE s = r
  <2>1. Len(s) \in Nat /\ Len(e) <= Len(s) /\ \A i \in 1..Len(e) : e[i] = s[i]
    BY <1>5, PrefixByNames
  <2>2. /\ Len(m) = Len(goal) + (Len(s) - Len(e))
        /\ \A i \in 1..Len(s) - Len(e) : m[Len(goal) + i] = s[Len(e) + i]
    <3> DEFINE f == Image(e, goal, s)
    <3>1. /\ Len(f) = Len(goal) + (Len(s) - Len(e))
          /\ \A i \in 1..Len(s) - Len(e) : f[Len(goal) + i] = s[Len(e) + i]
      BY <1>5, ImageByNames, ZenonT(60)
    <3>2. f = m
      BY <1>5
    <3> HIDE DEF f, m
    <3> QED
      BY <3>1, <3>2
  <2>3. \A i \in 1..Len(e) : e[i] = r[i]
    BY PrefixByNames
  <2> HIDE DEF m
  <2>4. Len(s) = Len(r)
    BY <1>1, <1>2, <2>1, <2>2
  <2>5. ASSUME NEW i \in 1..Len(s) PROVE s[i] = r[i]
    <3>1. CASE i <= Len(e)
      BY <1>1, <2>1, <2>3, <3>1
    <3>2. CASE i > Len(e)
      <4>1. i - Len(e) \in 1..Len(s) - Len(e) /\ Len(e) + (i - Len(e)) = i
        BY <1>1, <2>1, <3>2
      <4>2. m[Len(goal) + (i - Len(e))] = s[i]
        BY <2>2, <4>1
      <4>3. m[Len(goal) + (i - Len(e))] = r[i]
        BY <1>2, <2>4, <4>1
      <4> QED
        BY <4>2, <4>3
    <3> QED
      BY <1>1, <3>1, <3>2
  <2> QED
    BY <2>4, <2>5, SeqEqual
<1>6. ASSUME r # e PROVE Front(m) = Image(e, goal, Front(r)) /\ m # Root /\ m # goal
  <2>1. /\ Len(e) < Len(r) /\ r # Root /\ IsPrefix(e, Front(r))
        /\ Front(r) \in Seq(Names) /\ Len(Front(r)) = Len(r) - 1
    BY <1>6, PrefixOrder, FrontAndLast
  <2> DEFINE f == Image(e, goal, Front(r))
  <2>2. /\ f \in Seq(Names) /\ Len(f) = Len(goal) + (Len(r) - 1 - Len(e))
        /\ \A i \in 1..Len(goal) : f[i] = goal[i]
        /\ \A i \in 1..Len(r) - 1 - Len(e) : f[Len(goal) + i] = Front(r)[Len(e) + i]
    <3>1. /\ f \in Seq(Names) /\ Len(f) = Len(goal) + (Len(Front(r)) - Len(e))
          /\ \A i \in 1..Len(goal) : f[i] = goal[i]
          /\ \A i \in 1..Len(Front(r)) - Len(e) : f[Len(goal) + i] = Front(r)[Len(e) + i]
      BY <2>1, ImageByNames, ZenonT(60)
    <3> HIDE DEF f
    <3> QED
      BY <2>1, <3>1
  <2>3. m # Root /\ m # goal
    <3> HIDE DEF m
    <3>1. Len(m) > Len(goal)
      BY <1>1, <1>2, <2>1
    <3> QED
      BY <1>1, <3>1, RootIsPath
  <2> HIDE DEF m, f
  <2>4. /\ Front(m) \in Seq(Names) /\ Len(Front(m)) = Len(m) - 1
        /\ \A i \in 1..Len(m) - 1 : Front(m)[i] = m[i]
    BY <1>2, <2>3, FrontByNames
  <2>5. \A i \in 1..Len(r) - 1 : Front(r)[i] = r[i]
    BY <2>1, FrontByNames
  <2>6. Len(Front(m)) = Len(f)
    BY <1>1, <1>2, <2>2, <2>4
  <2>7. ASSUME NEW i \in 1..Len(f) PROVE Front(m)[i] = f[i]
    <3>1. i \in 1..Len(m) - 1
      BY <2>4, <2>6
    <3>2. Front(m)[i] = m[i]
      BY <2>4, <3>1
    <3>3. CASE i <= Len(goal)
      BY <1>1, <1>2, <2>2, <3>2, <3>3
    <3>4. CASE i > Len(goal)
      <4>1. /\ i - Len(goal) \in 1..Len(r) - 1 - Len(e)
            /\ i - Len(goal) \in 1..Len(r) - Len(e)
            /\ Len(goal) + (i - Len(goal)) = i
            /\ Len(e) + (i - Len(goal)) \in 1..Len(r) - 1
        BY <1>1, <2>2, <3>4
      <4>2. m[i] = r[Len(e) + (i - Len(goal))]
        BY <1>2, <4>1
      <4>3. f[i] = r[Len(e) + (i - Len(goal))]
        BY <2>2, <2>5, <4>1
      <4> QED
        BY <3>2, <4>2, <4>3
    <3> QED
      BY <1>1, <2>2, <3>3, <3>4
  <2>8. Front(m) = f
    BY <2>2, <2>4, <2>6, <2>7, SeqEqual
  <2> QED
    BY <2>3, <2>8 DEF f
<1> QED
  BY <1>3, <1>4, <1>5, <1>6

-----------------------------------------------------------------------------
(* Path resolution.                                                        *)

\* What a walk through the tree t keeps: where it is exists, and is a directory
\* while there is more to visit.
OnTheWay(t) ==
    {w \in Walks : /\ t[w.at].kind \in {"dir", "file"}
                   /\ w.rest # << >> => t[w.at] = Dir}

\* What an entry of a tree is.
LEMMA Entries ==
  ASSUME NEW t, TreeOK(t), NEW p \in Paths
  PROVE  /\ t[p].kind \in {"none", "dir", "file", "link"}
         /\ t[p].kind = "none" <=> t[p] = None
         /\ t[p].kind = "dir" <=> t[p] = Dir
         /\ t[p].kind = "link" => t[p].to \in Arg
         /\ p # Root /\ t[p] # None => t[Front(p)] = Dir
         /\ t[Root] = Dir
BY DEF TreeOK, None, Dir

\* What a walk meets next.
Here(w) == Append(w.at, Head(w.rest))
Met(t, w) == IF Here(w) \in Paths THEN t[Here(w)] ELSE None

\* A walk that follows the link it meets, goes on to what it meets, is stuck.
Through(t, w) == [at |-> IF Met(t, w).to.abs THEN Root ELSE w.at,
                  rest |-> Met(t, w).to.names \o Tail(w.rest),
                  ok |-> TRUE, links |-> w.links - 1]
Onto(w) == [at |-> Here(w), rest |-> Tail(w.rest), ok |-> TRUE, links |-> w.links]
Stuck(w) == [at |-> w.at, rest |-> w.rest, ok |-> FALSE, links |-> w.links]

\* A walk, field by field.
LEMMA WalkParts ==
  ASSUME NEW w \in Walks
  PROVE  /\ w.at \in Paths /\ w.at \in Seq(Names) /\ w.rest \in Seq(Names)
         /\ w.ok \in BOOLEAN /\ w.links \in 0..MaxLinks /\ w.links \in Nat
         /\ w = [at |-> w.at, rest |-> w.rest, ok |-> w.ok, links |-> w.links]
<1>1. w.at \in Paths
  BY DEF Walks
<1> QED
  BY <1>1, PathsAreShort, RemoteTreeAssumption DEF Walks

\* A walk that is stuck or done.
LEMMA VisitRests ==
  ASSUME NEW t, NEW w \in Walks, ~w.ok \/ w.rest = << >>
  PROVE  Visit(t)[w] = w
BY DEF Visit

\* What a visit may make of a walk.
LEMMA VisitForms ==
  ASSUME NEW t, NEW w \in Walks, w.ok, w.rest # << >>
  PROVE  \/ /\ Met(t, w).kind = "link" /\ w.links > 0
            /\ Visit(t)[w] = Through(t, w)
         \/ /\ Met(t, w) = Dir \/ (Met(t, w).kind = "file" /\ Tail(w.rest) = << >>)
            /\ Visit(t)[w] = Onto(w)
         \/ /\ Met(t, w).kind = "link" => ~(w.links > 0)
            /\ Met(t, w) # Dir /\ ~(Met(t, w).kind = "file" /\ Tail(w.rest) = << >>)
            /\ Visit(t)[w] = Stuck(w)
<1> DEFINE goes == w.ok /\ w.rest # << >>
           more == Tail(w.rest)
           node == Met(t, w)
           may == w.links > 0
           link == [w EXCEPT !.at = IF node.to.abs THEN Root ELSE @,
                             !.rest = node.to.names \o more,
                             !.links = @ - 1]
           onto == [w EXCEPT !.at = Here(w), !.rest = more]
           stuck == [w EXCEPT !.ok = FALSE]
<1>1. Visit(t)[w] =
        CASE ~goes -> w
          [] goes /\ node.kind = "link" /\ may -> link
          [] goes /\ (node = Dir \/ (node.kind = "file" /\ more = << >>)) -> onto
          [] OTHER -> stuck
  BY DEF Visit, Met, Here
<1>2. goes /\ w.ok = TRUE /\ (node = Dir => node.kind # "link")
  BY WalkParts DEF Dir
<1>6. PICK a, r, l : w = [at |-> a, rest |-> r, ok |-> TRUE, links |-> l]
  BY <1>2, WalkParts
<1>3. stuck = Stuck(w)
  <2> HIDE DEF stuck
  <2>1. stuck = [w EXCEPT !.ok = FALSE]
    BY DEF stuck
  <2> QED
    BY <1>6, <2>1 DEF Stuck
<1>7. onto = Onto(w)
  <2> DEFINE x == Here(w)
             v1 == [w EXCEPT !.at = x]
             v2 == [v1 EXCEPT !.rest = more]
  <2>1. onto = v2
    OBVIOUS
  <2>2. v1 = [w EXCEPT !.at = x]
    OBVIOUS
  <2>3. v2 = [v1 EXCEPT !.rest = more]
    OBVIOUS
  <2>4. Onto(w) = [at |-> x, rest |-> more, ok |-> TRUE, links |-> l]
    BY <1>6 DEF Onto
  <2> HIDE DEF x, more, onto, v1, v2
  <2>5. v1 = [at |-> x, rest |-> r, ok |-> TRUE, links |-> l]
    BY <1>6, <2>2
  <2>6. v2 = [at |-> x, rest |-> more, ok |-> TRUE, links |-> l]
    BY <2>3, <2>5
  <2> QED
    BY <2>1, <2>4, <2>6
<1>4. link = Through(t, w)
  <2> DEFINE x == IF node.to.abs THEN Root ELSE w.at
             y == node.to.names \o more
             z == w.links - 1
             v1 == [w EXCEPT !.at = x]
             v2 == [v1 EXCEPT !.rest = y]
             v3 == [v2 EXCEPT !.links = z]
  <2>1. link = v3
    OBVIOUS
  <2>2. v1 = [w EXCEPT !.at = x]
    OBVIOUS
  <2>3. v2 = [v1 EXCEPT !.rest = y]
    OBVIOUS
  <2>4. v3 = [v2 EXCEPT !.links = z]
    OBVIOUS
  <2>5. Through(t, w) = [at |-> x, rest |-> y, ok |-> TRUE, links |-> z]
    BY DEF Through
  <2> HIDE DEF x, y, z, link, v1, v2, v3
  <2>6. v1 = [at |-> x, rest |-> r, ok |-> TRUE, links |-> l]
    BY <1>6, <2>2
  <2>7. v2 = [at |-> x, rest |-> y, ok |-> TRUE, links |-> l]
    BY <2>3, <2>6
  <2>8. v3 = [at |-> x, rest |-> y, ok |-> TRUE, links |-> z]
    BY <2>4, <2>7
  <2> QED
    BY <2>1, <2>5, <2>8
<1> HIDE DEF goes, more, node, may, link, onto, stuck
<1>5. \/ node.kind = "link" /\ may /\ Visit(t)[w] = link
      \/ (node = Dir \/ (node.kind = "file" /\ more = << >>)) /\ Visit(t)[w] = onto
      \/ /\ node.kind = "link" => ~may
         /\ node # Dir /\ ~(node.kind = "file" /\ more = << >>)
         /\ Visit(t)[w] = stuck
  BY <1>1, <1>2
<1> QED
  BY <1>3, <1>4, <1>5, <1>7 DEF more, node, may

\* One component keeps a walk on its way.
LEMMA VisitStaysOnTheWay ==
  ASSUME NEW t, TreeOK(t), NEW w \in OnTheWay(t)
  PROVE  Visit(t)[w] \in OnTheWay(t)
<1>1. w \in Walks
  BY DEF OnTheWay
<1>2. CASE ~w.ok \/ w.rest = << >>
  BY <1>1, <1>2, VisitRests
<1>3. CASE w.ok /\ w.rest # << >>
  <2> DEFINE here == Here(w)
             more == Tail(w.rest)
             node == Met(t, w)
  <2>1. more \in Seq(Names) /\ w.at \in Paths /\ w.rest \in Seq(Names)
        /\ w.links \in 0..MaxLinks
    BY <1>1, <1>3, WalkParts
  <2>0. t[w.at] = Dir /\ t[Root] = Dir
    BY <1>3, Entries, RootIsPath DEF OnTheWay
  <2>2. CASE Visit(t)[w] = Through(t, w) /\ node.kind = "link" /\ w.links > 0
    <3> DEFINE to == node.to
    <3>1. to \in Arg
      BY <2>2, Entries DEF None, Met
    <3>2. to.abs \in BOOLEAN /\ to.names \in Seq(Names)
      BY <3>1, PathsAreShort DEF Arg
    <3>3. to.names \o more \in Seq(Names)
      BY <2>1, <3>2
    <3>4. w.links - 1 \in 0..MaxLinks
      BY <2>1, <2>2, RemoteTreeAssumption
    <3>5. Visit(t)[w] = [at |-> IF to.abs THEN Root ELSE w.at,
                         rest |-> to.names \o more, ok |-> TRUE, links |-> w.links - 1]
      BY <2>2 DEF Through
    <3> HIDE DEF to, more, node
    <3> QED
      BY <2>1, <2>0, <3>3, <3>4, <3>5, RootIsPath DEF OnTheWay, Walks, Dir
  <2>3. CASE /\ Visit(t)[w] = Onto(w)
             /\ node = Dir \/ (node.kind = "file" /\ more = << >>)
    <3>1. here \in Paths /\ node = t[here]
      BY <2>3 DEF None, Dir, Met
    <3>2. Visit(t)[w] = [at |-> here, rest |-> more, ok |-> TRUE, links |-> w.links]
      BY <2>3 DEF Onto
    <3>3. t[here].kind \in {"dir", "file"} /\ (more # << >> => t[here] = Dir)
      BY <2>3, <3>1 DEF Dir
    <3> HIDE DEF here, more, node
    <3> QED
      BY <2>1, <3>1, <3>2, <3>3 DEF OnTheWay, Walks
  <2>4. CASE Visit(t)[w] = Stuck(w)
    <3>1. Stuck(w) \in Walks /\ Stuck(w).at = w.at /\ Stuck(w).rest = w.rest
      BY <2>1 DEF Stuck, Walks
    <3> QED
      BY <2>4, <3>1 DEF OnTheWay
  <2> QED
    BY <1>1, <1>3, <2>2, <2>3, <2>4, VisitForms
<1> QED
  BY <1>2, <1>3

\* How a walk starts.
Start(p) == [at |-> Root, rest |-> p, ok |-> TRUE, links |-> MaxLinks]

LEMMA LimitIsNat ==
  ASSUME NEW p \in Seq(Names)
  PROVE  Limit(p) \in Nat /\ Limit(p) = Len(p) + MaxLinks * MaxDepth
BY RemoteTreeAssumption DEF Limit

\* What a walk along p through t is, step by step.
Stepped(g, t, p) ==
    /\ g[0] = Start(p)
    /\ \A n \in 0..Limit(p) : g[n] \in OnTheWay(t)
    /\ \A n \in 1..Limit(p) : g[n] = Visit(t)[g[n - 1]]
    /\ Walk(t, p) = g[Limit(p)]

\* A walk from the root: the definition of Walk has a function it describes, and
\* stays on its way.
LEMMA WalkSteps ==
  ASSUME NEW t, TreeOK(t), NEW p \in Seq(Names)
  PROVE  \E g : Stepped(g, t, p)
<1> DEFINE S == OnTheWay(t)
           c == Start(p)
           D == [x \in S \X Nat |-> Visit(t)[x[1]]]
           Walked(f) == f = [n \in 0..Limit(p) |-> IF n = 0 THEN c ELSE Visit(t)[f[n - 1]]]
<1>1. c \in S
  BY RootIsPath, Entries, RemoteTreeAssumption DEF OnTheWay, Walks, Dir, Start
<1>2. D \in [S \X Nat -> S]
  BY VisitStaysOnTheWay
<1>3. PICK f : Iterated(f, S, c, D, Limit(p))
  <2> HIDE DEF S, c, D
  <2> QED
    BY <1>1, <1>2, Iterates, LimitIsNat
<1>4. \A i \in 1..Limit(p) : f[i] = Visit(t)[f[i - 1]]
  <2> TAKE i \in 1..Limit(p)
  <2>1. i - 1 \in 0..Limit(p) /\ i \in Nat
    BY LimitIsNat
  <2>2. f[i - 1] \in S /\ f[i] = D[<<f[i - 1], i>>]
    <3> HIDE DEF S, c, D
    <3> QED
      BY <1>3, <2>1 DEF Iterated
  <2> QED
    BY <2>1, <2>2
<1>5. Walked(f)
  <2> HIDE DEF S, c, D
  <2>1. f \in [0..Limit(p) -> S] /\ f[0] = c
    BY <1>3 DEF Iterated
  <2> QED
    BY <1>4, <2>1, LimitIsNat
<1> DEFINE g == CHOOSE h : Walked(h)
<1>6. Walked(g)
  BY <1>5
<1>7. Walk(t, p) = g[Limit(p)]
  BY DEF Walk, Start
<1> HIDE DEF g
<1> DEFINE T == {n \in Nat : n <= Limit(p) => g[n] \in S}
<1>8. 0 \in T
  <2>1. g[0] = c
    BY <1>6, LimitIsNat
  <2> QED
    BY <1>1, <2>1
<1>9. \A n \in Nat : n \in T => n + 1 \in T
  <2> SUFFICES ASSUME NEW n \in Nat, n \in T, n + 1 <= Limit(p) PROVE g[n + 1] \in S
    OBVIOUS
  <2>1. g[n] \in S /\ n + 1 \in 0..Limit(p) /\ n + 1 # 0 /\ (n + 1) - 1 = n
    BY LimitIsNat
  <2>2. g[n + 1] = Visit(t)[g[n]]
    BY <1>6, <2>1
  <2> QED
    BY <2>1, <2>2, VisitStaysOnTheWay
<1>10. Nat \subseteq T
  <2> HIDE DEF T
  <2> QED
    BY <1>8, <1>9, SetInduction
<1>11. \A n \in 0..Limit(p) : g[n] \in OnTheWay(t)
  <2> TAKE n \in 0..Limit(p)
  <2>1. n \in Nat /\ n <= Limit(p)
    BY LimitIsNat
  <2> QED
    BY <1>10, <2>1
<1>12. g[0] = c /\ \A n \in 1..Limit(p) : g[n] = Visit(t)[g[n - 1]]
  <2>1. g[0] = c
    BY <1>6, LimitIsNat
  <2>2. ASSUME NEW n \in 1..Limit(p) PROVE g[n] = Visit(t)[g[n - 1]]
    <3>1. n \in 0..Limit(p) /\ n # 0
      BY LimitIsNat
    <3> QED
      BY <1>6, <3>1
  <2> QED
    BY <2>1, <2>2
<1>13. Stepped(g, t, p)
  BY <1>7, <1>11, <1>12 DEF Stepped
<1> QED
  BY <1>13

\* So it stays on its way.
LEMMA WalkOnTheWay ==
  ASSUME NEW t, TreeOK(t), NEW p \in Seq(Names)
  PROVE  Walk(t, p) \in OnTheWay(t)
<1>1. PICK g : Stepped(g, t, p)
  BY WalkSteps
<1>2. Limit(p) \in 0..Limit(p)
  BY LimitIsNat
<1> QED
  BY <1>1, <1>2 DEF Stepped

\* Where a path leads to.
LEMMA WhereItLeads ==
  ASSUME NEW t, TreeOK(t), NEW p \in Seq(Names)
  PROVE  /\ Real(t, p) \in Paths /\ Real(t, p) \in Seq(Names)
         /\ t[Real(t, p)].kind \in {"dir", "file"}
         /\ Walk(t, p).rest \in Seq(Names)
         /\ Walk(t, p).rest # << >> => t[Real(t, p)] = Dir
         /\ TestD(t, p) => t[Real(t, p)] = Dir
<1>1. Walk(t, p) \in OnTheWay(t)
  BY WalkOnTheWay
<1>2. /\ Real(t, p) \in Paths
      /\ t[Real(t, p)].kind \in {"dir", "file"}
      /\ Walk(t, p).rest \in Seq(Names)
      /\ Walk(t, p).rest # << >> => t[Real(t, p)] = Dir
  BY <1>1 DEF OnTheWay, Walks, Real
<1> QED
  BY <1>2, PathsAreShort DEF TestD

\* e can be an entry of the tree: a place in a directory.
Slot(t, e) == e \in Paths \ {Root} /\ t[Front(e)] = Dir

\* The place a path names is one.
LEMMA PlaceIsSlot ==
  ASSUME NEW t, TreeOK(t), NEW p \in Seq(Names), HasPlace(t, p)
  PROVE  Slot(t, Place(t, p)) /\ Place(t, p) \in Seq(Names)
<1>1. Front(p) \in Seq(Names) /\ Last(p) \in Names
  BY FrontAndLast DEF HasPlace
<1>2. Real(t, Front(p)) \in Seq(Names) /\ t[Real(t, Front(p))] = Dir
  BY <1>1, WhereItLeads DEF HasPlace
<1>3. /\ Place(t, p) \in Paths
      /\ Place(t, p) = Append(Real(t, Front(p)), Last(p))
  BY DEF HasPlace, Place
<1>4. Place(t, p) # Root /\ Front(Place(t, p)) = Real(t, Front(p))
  BY <1>1, <1>2, <1>3, AppendedName
<1> QED
  BY <1>2, <1>3, <1>4, PathsAreShort DEF Slot

\* And so is a name in the directory a path leads to.
LEMMA InsideIsSlot ==
  ASSUME NEW t, TreeOK(t), NEW p \in Seq(Names), TestD(t, p), NEW n \in Names,
         Append(Real(t, p), n) \in Paths
  PROVE  Slot(t, Append(Real(t, p), n)) /\ Append(Real(t, p), n) \in Seq(Names)
<1>1. Real(t, p) \in Seq(Names) /\ t[Real(t, p)] = Dir
  BY WhereItLeads
<1>2. Append(Real(t, p), n) # Root /\ Front(Append(Real(t, p), n)) = Real(t, p)
  BY <1>1, AppendedName
<1> QED
  BY <1>1, <1>2, PathsAreShort DEF Slot

\* And where a new file lands.
LEMMA LandingIsSlot ==
  ASSUME NEW t, TreeOK(t), NEW p \in Seq(Names), Landing(t, p) \in Paths \ {Root}
  PROVE  Slot(t, Landing(t, p))
<1> DEFINE w == Walk(t, p)
<1>1. w \in OnTheWay(t)
  BY WalkOnTheWay
<1>2. ~w.ok /\ Len(w.rest) = 1 /\ Landing(t, p) = w.at \o w.rest
  BY DEF Landing
<1>3. w.at \in Seq(Names) /\ w.rest \in Seq(Names) /\ w.rest # << >> /\ t[w.at] = Dir
  <2>1. w.at \in Paths /\ w.rest \in Seq(Names)
    BY <1>1 DEF OnTheWay, Walks
  <2>2. w.rest # << >>
    BY <1>2, <2>1, OneMore DEF Root
  <2> QED
    BY <1>1, <2>1, <2>2, PathsAreShort DEF OnTheWay
<1>4. w.rest[1] \in Names /\ w.at \o w.rest = Append(w.at, w.rest[1])
  BY <1>2, <1>3, OneMore
<1>5. Front(Landing(t, p)) = w.at
  BY <1>2, <1>3, <1>4, AppendedName
<1> QED
  BY <1>3, <1>5 DEF Slot

-----------------------------------------------------------------------------
(* One entry changes.                                                      *)

\* What an entry may be.
Node(n) == n \in {None, Dir} \/ n.kind = "file" \/ (n.kind = "link" /\ n.to \in Arg)

\* Nothing is in e.
Leaf(t, e) == \A q \in Paths \ {Root} : t[q] # None => Front(q) # e

\* What is no directory holds nothing.
LEMMA OnlyDirectoriesHold ==
  ASSUME NEW t, TreeOK(t), NEW e, t[e] # Dir
  PROVE  Leaf(t, e)
BY Entries DEF Leaf

\* An entry with nothing in it may become anything.
LEMMA PutKeepsTree ==
  ASSUME NEW t, TreeOK(t), NEW e, Slot(t, e), NEW n, Node(n), Leaf(t, e)
  PROVE  TreeOK([t EXCEPT ![e] = n])
<1> DEFINE u == [t EXCEPT ![e] = n]
<1>1. DOMAIN t = Paths /\ e \in Paths /\ e # Root
  BY DEF TreeOK, Slot
<1>0. u = [q \in Paths |-> u[q]]
  BY <1>1
<1>2. u[e] = n /\ \A q \in Paths : q # e => u[q] = t[q]
  BY <1>1
<1> HIDE DEF u
<1>3. u[Root] = Dir
  BY <1>1, <1>2, RootIsPath, Entries
<1>4. ASSUME NEW p \in Paths \ {Root}
      PROVE  Node(u[p]) /\ (u[p] # None => u[Front(p)] = Dir)
  <2>1. Front(p) \in Paths
    BY PathsAreShort, FrontAndLast
  <2>2. CASE p = e
    <3>1. Front(e) # e
      <4>1. e \in Seq(Names)
        BY <1>1, PathsAreShort
      <4> QED
        BY <1>1, <4>1, FrontAndLast
    <3>2. u[Front(e)] = Dir
      BY <1>2, <2>1, <2>2, <3>1 DEF Slot
    <3> QED
      BY <1>2, <2>2, <3>2
  <2>3. CASE p # e
    <3>1. Node(t[p])
      BY DEF TreeOK, Node
    <3>2. t[p] # None => t[Front(p)] = Dir /\ Front(p) # e
      BY Entries DEF Leaf
    <3> QED
      BY <1>2, <2>1, <2>3, <3>1, <3>2
  <2> QED
    BY <2>2, <2>3
<1>5. TreeOK(u)
  BY <1>0, <1>3, <1>4 DEF TreeOK, Node
<1> QED
  BY <1>5 DEF u

\* The names in a directory, one by one.
LEMMA NamesOfEntries ==
  ASSUME NEW t, NEW e \in Seq(Names)
  PROVE  NamesIn(t, e) = {n \in Names : Append(e, n) \in Paths /\ t[Append(e, n)] # None}
<1>1. ASSUME NEW n \in NamesIn(t, e)
      PROVE  n \in Names /\ Append(e, n) \in Paths /\ t[Append(e, n)] # None
  <2>1. PICK q \in Paths : /\ IsPrefix(e, q) /\ t[q] # None
                           /\ Len(q) = Len(e) + 1 /\ n = Last(q)
    BY DEF NamesIn, Below
  <2>2. q \in Seq(Names) /\ Len(e) \in Nat
    BY PathsAreShort, LenProperties
  <2>3. n = q[Len(e) + 1] /\ n \in Names
    BY <2>1, <2>2 DEF Last
  <2>4. \A i \in 1..Len(e) : q[i] = e[i]
    BY <2>1, <2>2, PrefixByNames
  <2>5. q = Append(e, n)
    <3>1. /\ Append(e, n) \in Seq(Names) /\ Len(Append(e, n)) = Len(q)
          /\ \A i \in 1..Len(e) : Append(e, n)[i] = e[i]
          /\ Append(e, n)[Len(e) + 1] = n
      BY <2>1, <2>3, AppendProperties
    <3>2. \A i \in 1..Len(q) : q[i] = Append(e, n)[i]
      BY <2>1, <2>2, <2>3, <2>4, <3>1
    <3> QED
      BY <2>2, <3>1, <3>2, SeqEqual
  <2> QED
    BY <2>1, <2>3, <2>5
<1>2. ASSUME NEW n \in Names, Append(e, n) \in Paths, t[Append(e, n)] # None
      PROVE  n \in NamesIn(t, e)
  <2> DEFINE q == Append(e, n)
  <2>1. q \in Seq(Names) /\ q # Root /\ Front(q) = e /\ Len(q) = Len(e) + 1 /\ Last(q) = n
    BY AppendedName
  <2>2. IsPrefix(e, e)
    BY PrefixOrder
  <2> HIDE DEF q
  <2>3. IsPrefix(e, q)
    BY <2>1, <2>2, PrefixOrder
  <2>4. q \in Below(t, e)
    BY <1>2, <2>3 DEF Below, q
  <2> QED
    BY <2>1, <2>4 DEF NamesIn
<1> QED
  BY <1>1, <1>2

\* A directory without names in it holds nothing.
LEMMA EmptyHoldsNothing ==
  ASSUME NEW t, TreeOK(t), NEW e \in Seq(Names), NamesIn(t, e) = {}
  PROVE  Leaf(t, e)
<1> SUFFICES ASSUME NEW q \in Paths \ {Root}, t[q] # None, Front(q) = e PROVE FALSE
  BY DEF Leaf
<1>1. q = Append(e, Last(q)) /\ Last(q) \in Names
  BY PathsAreShort, FrontAndLast
<1>2. Append(e, Last(q)) \in Paths /\ t[Append(e, Last(q))] # None
  BY <1>1
<1>3. Last(q) \in NamesIn(t, e)
  BY <1>1, <1>2, NamesOfEntries
<1> QED
  BY <1>3

\* What leads to an entry is made of directories.
LEMMA Ancestors ==
  ASSUME NEW t, TreeOK(t), NEW p \in Seq(Names)
  PROVE  \A q \in Paths : t[q] # None /\ IsPrefix(p, q) /\ p # q => t[p] = Dir
<1> DEFINE T == {n \in Nat : \A q \in Paths :
                   t[q] # None /\ IsPrefix(p, q) /\ p # q /\ Len(q) = n => t[p] = Dir}
<1>1. 0 \in T
  <2> SUFFICES ASSUME NEW q \in Paths, IsPrefix(p, q), p # q, Len(q) = 0 PROVE FALSE
    OBVIOUS
  <2> QED
    BY PathsAreShort, PrefixOrder
<1>2. \A n \in Nat : n \in T => n + 1 \in T
  <2> SUFFICES ASSUME NEW n \in Nat, n \in T, NEW q \in Paths, t[q] # None,
                      IsPrefix(p, q), p # q, Len(q) = n + 1
               PROVE  t[p] = Dir
    OBVIOUS
  <2>1. /\ q \in Seq(Names) /\ q # Root /\ IsPrefix(p, Front(q))
        /\ Front(q) \in Paths /\ Len(Front(q)) = n
    BY PathsAreShort, PrefixOrder, FrontAndLast
  <2>2. t[Front(q)] = Dir
    BY <2>1, Entries
  <2>3. t[Front(q)] # None
    BY <2>2 DEF None, Dir
  <2> QED
    BY <2>1, <2>2, <2>3
<1>3. Nat \subseteq T
  <2> HIDE DEF T
  <2> QED
    BY <1>1, <1>2, SetInduction
<1> QED
  BY <1>3, PathsAreShort

\* A part of what is under e has its front there too.
LEMMA FrontBelow ==
  ASSUME NEW t, TreeOK(t), NEW e \in Paths, NEW r \in Below(t, e), r # e
  PROVE  /\ Front(r) \in Below(t, e) /\ t[Front(r)] = Dir /\ IsPrefix(Front(r), r)
         /\ r # Root
<1>1. r \in Paths /\ r \in Seq(Names) /\ e \in Seq(Names) /\ IsPrefix(e, r) /\ t[r] # None
  BY PathsAreShort DEF Below
<1>2. r # Root /\ IsPrefix(e, Front(r))
  BY <1>1, PrefixOrder
<1>3. Front(r) \in Paths /\ Front(r) \in Seq(Names)
  BY <1>1, <1>2, FrontAndLast
<1>4. t[Front(r)] = Dir
  BY <1>1, <1>2, Entries
<1>5. t[Front(r)] # None
  BY <1>4 DEF None, Dir
<1>6. IsPrefix(Front(r), r)
  BY <1>1, <1>2, <1>3, PrefixOrder
<1> QED
  BY <1>2, <1>3, <1>4, <1>5, <1>6 DEF Below

\* What Overlay puts where.
LEMMA OverlayAt ==
  ASSUME NEW t, NEW e \in Paths, NEW goal \in Paths, NEW P, P \subseteq Below(t, e)
  PROVE  /\ DOMAIN Overlay(t, e, goal, P) = Paths
         /\ \A r \in P : Image(e, goal, r) \in Paths =>
               Overlay(t, e, goal, P)[Image(e, goal, r)] = t[r]
         /\ \A q \in Paths : (\A r \in P : Image(e, goal, r) # q) =>
               Overlay(t, e, goal, P)[q] = t[q]
<1> DEFINE u == Overlay(t, e, goal, P)
<1>1. /\ DOMAIN u = Paths
      /\ \A q \in Paths : (\E r \in P : Image(e, goal, r) = q) =>
            u[q] = t[CHOOSE r \in P : Image(e, goal, r) = q]
      /\ \A q \in Paths : (\A r \in P : Image(e, goal, r) # q) => u[q] = t[q]
  BY DEF Overlay
<1> HIDE DEF u
<1>2. ASSUME NEW r \in P, Image(e, goal, r) \in Paths
      PROVE  u[Image(e, goal, r)] = t[r]
  <2> DEFINE c == CHOOSE s \in P : Image(e, goal, s) = Image(e, goal, r)
  <2>1. c \in P /\ Image(e, goal, c) = Image(e, goal, r)
    OBVIOUS
  <2>2. u[Image(e, goal, r)] = t[c]
    BY <1>1, <1>2
  <2> HIDE DEF c
  <2>3. /\ r \in Seq(Names) /\ IsPrefix(e, r) /\ c \in Seq(Names) /\ IsPrefix(e, c)
        /\ e \in Seq(Names) /\ goal \in Seq(Names)
    BY <2>1, PathsAreShort DEF Below
  <2>4. c = r
    BY <2>1, <2>3, ImageOfParts
  <2> QED
    BY <2>2, <2>4
<1> QED
  BY <1>1, <1>2 DEF u

\* A copy, or the part of one that goes down from its root, keeps the tree.
LEMMA OverlayKeepsTree ==
  ASSUME NEW t, TreeOK(t), NEW e \in Paths, NEW goal \in Paths,
         goal = Root \/ Slot(t, goal), Fits(t, e, goal),
         NEW P, P \subseteq Below(t, e),
         \A q \in P, r \in Below(t, e) : IsPrefix(r, q) => r \in P
  PROVE  TreeOK(Overlay(t, e, goal, P))
<1> DEFINE u == Overlay(t, e, goal, P)
           at(r) == Image(e, goal, r)
<1>1. \A r \in P : /\ r \in Paths /\ r \in Seq(Names) /\ IsPrefix(e, r)
                   /\ t[r] # None /\ r \in Below(t, e)
  BY PathsAreShort DEF Below
<1>2. e \in Seq(Names) /\ goal \in Seq(Names)
  BY PathsAreShort
<1>3. \A r \in P : at(r) \in Paths /\ (t[at(r)] = None \/ t[at(r)].kind = t[r].kind)
  BY <1>1 DEF Fits
<1>0. u = [q \in Paths |-> u[q]]
  BY DEF Overlay
<1>4. /\ \A r \in P : u[at(r)] = t[r]
      /\ \A q \in Paths : (\A r \in P : at(r) # q) => u[q] = t[q]
  BY <1>3, OverlayAt
<1>5. \A r \in P : IsPrefix(goal, at(r))
  BY <1>1, <1>2, ImageOfParts
<1>6. at(e) = goal
  <2>1. IsPrefix(e, e)
    BY <1>2, PrefixOrder
  <2> QED
    BY <1>2, <2>1, ImageOfParts
<1>7. \A r \in P : r # e => Front(at(r)) = at(Front(r))
  BY <1>1, <1>2, ImageOfParts
<1> HIDE DEF u, at
\* what lies on a directory is one
<1>8. ASSUME NEW q \in Paths, t[q] = Dir PROVE u[q] = Dir
  <2>1. CASE \E r \in P : at(r) = q
    <3>1. PICK r \in P : at(r) = q
      BY <2>1
    <3>2. t[r].kind = "dir"
      BY <1>3, <1>8, <3>1 DEF None, Dir
    <3>3. t[r] = Dir
      BY <1>1, <3>2, Entries
    <3> QED
      BY <1>4, <3>1, <3>3
  <2>2. CASE ~ \E r \in P : at(r) = q
    BY <1>4, <1>8, <2>2
  <2> QED
    BY <2>1, <2>2
<1>9. u[Root] = Dir
  BY <1>8, RootIsPath, Entries
<1>10. ASSUME NEW p \in Paths \ {Root}
       PROVE  Node(u[p]) /\ (u[p] # None => u[Front(p)] = Dir)
  <2>1. p \in Seq(Names) /\ Front(p) \in Paths
    BY PathsAreShort, FrontAndLast
  <2>2. CASE \E r \in P : at(r) = p
    <3>1. PICK r \in P : at(r) = p
      BY <2>2
    <3>2. Node(u[p])
      BY <1>1, <1>4, <3>1, Entries DEF Node, TreeOK
    <3>3. CASE r = e
      <4>1. p = goal /\ t[Front(p)] = Dir
        BY <1>6, <3>1, <3>3 DEF Slot
      <4> QED
        BY <1>8, <2>1, <3>2, <4>1
    <3>4. CASE r # e
      <4>1. Front(r) \in P /\ t[Front(r)] = Dir
        BY <1>1, <3>4, FrontBelow
      <4>2. Front(p) = at(Front(r))
        BY <1>7, <3>1, <3>4
      <4> QED
        BY <1>4, <3>2, <4>1, <4>2
    <3> QED
      BY <3>3, <3>4
  <2>3. CASE ~ \E r \in P : at(r) = p
    <3>1. u[p] = t[p] /\ Node(t[p])
      BY <1>4, <2>3 DEF Node, TreeOK
    <3>2. t[p] # None => t[Front(p)] = Dir
      BY Entries
    <3> QED
      BY <1>8, <2>1, <3>1, <3>2
  <2> QED
    BY <2>2, <2>3
<1>11. TreeOK(u)
  BY <1>0, <1>9, <1>10 DEF TreeOK, Node
<1> QED
  BY <1>11 DEF u

\* The entries that a move leaves.
Moved(t, e, goal) ==
    [q \in Paths |-> IF q \in Below(t, e) THEN None
                     ELSE Overlay(t, e, goal, Below(t, e))[q]]

\* A move keeps the tree: nothing it leaves was in what it moves.
LEMMA MoveKeepsTree ==
  ASSUME NEW t, TreeOK(t), NEW e, Slot(t, e), t[e] # None, NEW goal, Slot(t, goal),
         ~IsPrefix(e, goal),
         \A r \in Below(t, e) : Image(e, goal, r) \in Paths,
         \/ t[goal] = None
         \/ t[e] # Dir /\ t[goal] # Dir
         \/ t[e] = Dir /\ t[goal] = Dir /\ Below(t, goal) = {goal}
  PROVE  TreeOK(Moved(t, e, goal))
<1> DEFINE all == Below(t, e)
           u == Overlay(t, e, goal, all)
           v == Moved(t, e, goal)
           at(r) == Image(e, goal, r)
<1>1. /\ e \in Paths \ {Root} /\ goal \in Paths \ {Root} /\ t[Front(goal)] = Dir
      /\ e \in Seq(Names) /\ goal \in Seq(Names) /\ e # goal /\ IsPrefix(e, e)
  BY PathsAreShort, PrefixOrder DEF Slot
<1>2. \A r \in all : /\ r \in Paths /\ r \in Seq(Names) /\ IsPrefix(e, r)
                     /\ t[r] # None
  BY PathsAreShort DEF Below
<1>3. /\ \A r \in all : u[at(r)] = t[r]
      /\ \A q \in Paths : (\A r \in all : at(r) # q) => u[q] = t[q]
  BY <1>1, OverlayAt
<1>4. \A r \in all : IsPrefix(goal, at(r)) /\ at(r) \in Seq(Names)
  BY <1>1, <1>2, ImageOfParts, ImageByNames
<1>5. at(e) = goal /\ e \in all
  BY <1>1, ImageOfParts DEF Below
<1>6. \A r \in all : r # e => Front(at(r)) = at(Front(r))
  BY <1>1, <1>2, ImageOfParts
<1>0. v = [q \in Paths |-> v[q]]
  BY DEF Moved
<1>7. /\ \A q \in Paths : v[q] = IF q \in all THEN None ELSE u[q]
  BY DEF Moved
<1>8. \A q \in Paths : IsPrefix(e, q) /\ t[q] # None => q \in all
  BY DEF Below
\* nothing is in the goal
<1>9. ASSUME NEW q \in Paths, t[q] # None, IsPrefix(goal, q) PROVE q = goal
  <2>1. CASE t[goal] # Dir
    BY <1>1, <1>9, <2>1, Ancestors
  <2>2. CASE Below(t, goal) = {goal}
    BY <1>9, <2>2 DEF Below
  <2> QED
    BY <2>1, <2>2 DEF None, Dir
\* and nothing is moved into what it moves
<1>10. ASSUME NEW r \in all PROVE at(r) \notin all
  <2> SUFFICES ASSUME at(r) \in all PROVE FALSE
    OBVIOUS
  <2>1. IsPrefix(e, at(r)) /\ IsPrefix(goal, at(r)) /\ at(r) \in Seq(Names)
    BY <1>2, <1>4
  <2>2. IsPrefix(goal, e)
    BY <1>1, <2>1, PrefixesCompare
  <2> QED
    BY <1>1, <1>9, <2>2
<1> HIDE DEF all, u, v, at
<1>11. ASSUME NEW p \in Paths \ {Root}
       PROVE  /\ p \in Seq(Names) /\ Front(p) \in Paths
              /\ IsPrefix(e, Front(p)) => IsPrefix(e, p)
              /\ IsPrefix(goal, Front(p)) => IsPrefix(goal, p) /\ p # goal
  <2>1. p \in Seq(Names) /\ Front(p) \in Paths
    BY PathsAreShort, FrontAndLast
  <2> QED
    BY <1>1, <2>1, PrefixOrder
<1>12. v[Root] = Dir
  <2>1. Root \notin all
    BY <1>1, <1>2, PrefixOrder, RootIsPath
  <2>2. \A r \in all : at(r) # Root
    BY <1>1, <1>4, PrefixOrder, RootIsPath
  <2> QED
    BY <1>3, <1>7, <2>1, <2>2, RootIsPath, Entries
<1>13. ASSUME NEW p \in Paths \ {Root}
       PROVE  Node(v[p]) /\ (v[p] # None => v[Front(p)] = Dir)
  <2>1. CASE p \in all
    BY <1>7, <2>1 DEF Node
  <2>2. CASE p \notin all /\ \E r \in all : at(r) = p
    <3>1. PICK r \in all : at(r) = p
      BY <2>2
    <3>2. v[p] = t[r] /\ Node(t[r])
      BY <1>2, <1>3, <1>7, <2>2, <3>1, Entries DEF Node, TreeOK
    <3>3. CASE r = e
      <4>1. p = goal /\ Front(p) \notin all
        BY <1>1, <1>2, <1>5, <1>11, <3>1, <3>3
      <4>2. \A s \in all : at(s) # Front(p)
        BY <1>4, <1>11, <4>1
      <4> QED
        BY <1>1, <1>3, <1>7, <1>11, <3>2, <4>1, <4>2
    <3>4. CASE r # e
      <4>1. Front(r) \in all /\ t[Front(r)] = Dir
        BY <1>1, <3>4, FrontBelow DEF all
      <4>2. Front(p) = at(Front(r))
        BY <1>6, <3>1, <3>4
      <4>3. Front(p) \notin all
        BY <1>10, <4>1, <4>2
      <4> QED
        BY <1>3, <1>7, <1>11, <3>2, <4>1, <4>2, <4>3
    <3> QED
      BY <3>3, <3>4
  <2>3. CASE p \notin all /\ ~ \E r \in all : at(r) = p
    <3>1. v[p] = t[p] /\ Node(t[p])
      BY <1>3, <1>7, <2>3 DEF Node, TreeOK
    <3>2. ASSUME t[p] # None PROVE v[Front(p)] = Dir
      <4>1. t[Front(p)] = Dir
        BY <3>2, Entries
      <4>2. Front(p) \notin all
        BY <1>2, <1>8, <1>11, <2>3, <3>2
      <4>3. \A s \in all : at(s) # Front(p)
        BY <1>4, <1>9, <1>11, <3>2
      <4> QED
        BY <1>3, <1>7, <1>11, <4>1, <4>2, <4>3
    <3> QED
      BY <3>1, <3>2
  <2> QED
    BY <2>1, <2>2, <2>3
<1>14. TreeOK(v)
  BY <1>0, <1>12, <1>13 DEF TreeOK, Node
<1> QED
  BY <1>14 DEF v

\* A removal from the bottom up keeps the tree, wherever it stops.
LEMMA RemovalKeepsTree ==
  ASSUME NEW t, TreeOK(t), NEW e, Slot(t, e), NEW S, S \subseteq Below(t, e),
         \A q \in S, r \in Below(t, e) : IsPrefix(q, r) => r \in S
  PROVE  TreeOK(Without(t, S))
<1> DEFINE u == Without(t, S)
<1>1. e \in Paths \ {Root} /\ e \in Seq(Names)
  BY PathsAreShort DEF Slot
<1>2. \A q \in S : q \in Paths /\ q \in Seq(Names) /\ IsPrefix(e, q)
  BY PathsAreShort DEF Below
<1>0. u = [q \in Paths |-> u[q]]
  BY DEF Without
<1>3. \A q \in Paths : u[q] = IF q \in S THEN None ELSE t[q]
  BY DEF Without
<1> HIDE DEF u
<1>4. u[Root] = Dir
  <2>1. Root \notin S
    BY <1>1, <1>2, PrefixOrder, RootIsPath
  <2> QED
    BY <1>3, <2>1, RootIsPath, Entries
<1>5. ASSUME NEW p \in Paths \ {Root}
      PROVE  Node(u[p]) /\ (u[p] # None => u[Front(p)] = Dir)
  <2>1. p \in Seq(Names) /\ Front(p) \in Paths /\ Front(p) \in Seq(Names)
    BY PathsAreShort, FrontAndLast
  <2>2. Node(u[p])
    BY <1>3 DEF Node, TreeOK
  <2>3. ASSUME u[p] # None PROVE u[Front(p)] = Dir
    <3>1. p \notin S /\ t[p] # None
      BY <1>3, <2>3
    <3>2. t[Front(p)] = Dir
      BY <3>1, Entries
    <3>3. Front(p) \notin S
      <4> SUFFICES ASSUME Front(p) \in S PROVE FALSE
        OBVIOUS
      <4>1. IsPrefix(Front(p), p) /\ IsPrefix(e, p)
        BY <1>1, <1>2, <2>1, PrefixOrder
      <4>2. p \in Below(t, e)
        BY <3>1, <4>1 DEF Below
      <4> QED
        BY <3>1, <4>1, <4>2
    <3> QED
      BY <1>3, <2>1, <3>2, <3>3
  <2> QED
    BY <2>2, <2>3
<1>6. TreeOK(u)
  BY <1>0, <1>4, <1>5 DEF TreeOK, Node
<1> QED
  BY <1>6 DEF u

-----------------------------------------------------------------------------
(* The commands.                                                           *)

\* What every command keeps, and what a refusal of most of them says.
Kept(o) == o.rc \in {"0", "1"} /\ TreeOK(o.tree)
Clean(t, o) == o.rc = "1" => o.tree = t

\* A command that is done or refused.
LEMMA DoneOrRefused ==
  ASSUME NEW t, TreeOK(t), NEW possible, NEW after, possible => TreeOK(after),
         NEW o \in MayDo(t, possible, after)
  PROVE  Kept(o) /\ Clean(t, o)
BY DEF MayDo, Done, Refused, Kept, Clean

\* One that leaves the tree alone.
LEMMA Looking ==
  ASSUME NEW t, TreeOK(t), NEW yes, NEW o \in MayDo(t, yes, t)
  PROVE  Kept(o) /\ Clean(t, o) /\ o.tree = t /\ (o.rc = "0" => yes)
BY DEF MayDo, Done, Refused, Kept, Clean

\* Where an entry is.
LEMMA EntryAtPlace ==
  ASSUME NEW t, TreeOK(t), NEW p \in Seq(Names)
  PROVE  /\ Entry(t, p) # None /\ p # Root => HasPlace(t, p)
         /\ HasPlace(t, p) => /\ Entry(t, p) = t[Place(t, p)]
                              /\ Slot(t, Place(t, p)) /\ p # Root
                              /\ Place(t, p) \in Seq(Names)
         /\ Entry(t, Root) = Dir
         /\ Entry(t, p) = None => p # Root
BY PlaceIsSlot DEF Entry, HasPlace, None, Dir

\* An entry that is there or not and is no directory may become any other.
LEMMA PutAtPlace ==
  ASSUME NEW t, TreeOK(t), NEW e, Slot(t, e), t[e] # Dir, NEW n, Node(n)
  PROVE  TreeOK([t EXCEPT ![e] = n])
BY OnlyDirectoriesHold, PutKeepsTree

\* What the commands put.
LEMMA NodeKinds ==
  /\ Node(None) /\ Node(Dir)
  /\ \A data : Node(File(data))
  /\ \A to \in Arg : Node(Link(to))
  /\ None # Dir
BY DEF Node, None, Dir, File, Link

\* mkdir
LEMMA MkDirKeeps ==
  ASSUME NEW t, TreeOK(t), NEW p \in Seq(Names), NEW o \in MkDir(t, p)
  PROVE  Kept(o) /\ Clean(t, o)
<1>1. HasPlace(t, p) /\ Entry(t, p) = None => TreeOK([t EXCEPT ![Place(t, p)] = Dir])
  BY EntryAtPlace, PutAtPlace, NodeKinds
<1> QED
  BY <1>1, DoneOrRefused DEF MkDir

\* rmdir
LEMMA RmDirKeeps ==
  ASSUME NEW t, TreeOK(t), NEW p \in Seq(Names), NEW o \in RmDir(t, p)
  PROVE  Kept(o) /\ Clean(t, o)
<1>1. ASSUME HasPlace(t, p), NamesIn(t, Place(t, p)) = {}
      PROVE  TreeOK([t EXCEPT ![Place(t, p)] = None])
  BY <1>1, EntryAtPlace, EmptyHoldsNothing, PutKeepsTree, NodeKinds
<1> QED
  BY <1>1, DoneOrRefused DEF RmDir

\* rm -f
LEMMA RmFKeeps ==
  ASSUME NEW t, TreeOK(t), NEW p \in Seq(Names), NEW o \in RmF(t, p)
  PROVE  Kept(o) /\ Clean(t, o)
<1>1. CASE Entry(t, p) = None
  BY <1>1 DEF RmF, Done, Kept, Clean
<1>2. CASE Entry(t, p) # None
  <2>1. Entry(t, p) # Dir => TreeOK([t EXCEPT ![Place(t, p)] = None])
    BY <1>2, EntryAtPlace, PutAtPlace, NodeKinds
  <2> QED
    BY <1>2, <2>1, DoneOrRefused DEF RmF
<1> QED
  BY <1>1, <1>2

\* SSH_FXP_REMOVE
LEMMA UnlinkKeeps ==
  ASSUME NEW t, TreeOK(t), NEW p \in Seq(Names), NEW o \in Unlink(t, p)
  PROVE  Kept(o) /\ Clean(t, o)
<1>1. Entry(t, p) \notin {None, Dir} => TreeOK([t EXCEPT ![Place(t, p)] = None])
  BY EntryAtPlace, PutAtPlace, NodeKinds
<1> QED
  BY <1>1, DoneOrRefused DEF Unlink

\* rm -rf
LEMMA RmRFKeeps ==
  ASSUME NEW t, TreeOK(t), NEW p \in Seq(Names), NEW o \in RmRF(t, p)
  PROVE  Kept(o)
<1>1. CASE Entry(t, p) = None \/ p = Root
  BY <1>1 DEF RmRF, Done, Refused, Kept
<1>2. CASE Entry(t, p) # None /\ p # Root
  <2> DEFINE all == Below(t, Place(t, p))
  <2>1. Slot(t, Place(t, p))
    BY <1>2, EntryAtPlace
  <2>2. PICK S : /\ S \subseteq all
                 /\ \A q \in S, r \in all : IsPrefix(q, r) => r \in S
                 /\ o.rc \in {"0", "1"} /\ o.tree = Without(t, S)
    BY <1>2 DEF RmRF, Done
  <2> QED
    BY <2>1, <2>2, RemovalKeepsTree DEF Kept
<1> QED
  BY <1>1, <1>2

\* ln -s
LEMMA LnSKeeps ==
  ASSUME NEW t, TreeOK(t), NEW p \in Seq(Names), NEW to \in Arg, NEW o \in LnS(t, to, p)
  PROVE  Kept(o) /\ Clean(t, o)
<1>1. CASE TestD(t, p)
  <2> DEFINE e == Append(Real(t, p), Last(to.names))
  <2>1. ASSUME to.names # Root, e \in Paths, t[e] = None
        PROVE  TreeOK([t EXCEPT ![e] = Link(to)])
    <3>1. Last(to.names) \in Names
      BY <2>1, PathsAreShort, FrontAndLast DEF Arg
    <3>2. Slot(t, e)
      BY <1>1, <2>1, <3>1, InsideIsSlot
    <3> HIDE DEF e
    <3> QED
      BY <2>1, <3>2, PutAtPlace, NodeKinds
  <2> QED
    BY <1>1, <2>1, DoneOrRefused DEF LnS
<1>2. CASE ~TestD(t, p)
  <2>1. HasPlace(t, p) /\ Entry(t, p) = None =>
          TreeOK([t EXCEPT ![Place(t, p)] = Link(to)])
    BY EntryAtPlace, PutAtPlace, NodeKinds
  <2> QED
    BY <1>2, <2>1, DoneOrRefused DEF LnS
<1> QED
  BY <1>1, <1>2

\* SSH_FXP_SYMLINK
LEMMA SymlinkAtKeeps ==
  ASSUME NEW t, TreeOK(t), NEW p \in Seq(Names), NEW to \in Arg,
         NEW o \in SymlinkAt(t, to, p)
  PROVE  Kept(o) /\ Clean(t, o)
<1>1. HasPlace(t, p) /\ Entry(t, p) = None =>
        TreeOK([t EXCEPT ![Place(t, p)] = Link(to)])
  BY EntryAtPlace, PutAtPlace, NodeKinds
<1> QED
  BY <1>1, DoneOrRefused DEF SymlinkAt

\* Where cp and mv go.
LEMMA GoalIsSlot ==
  ASSUME NEW t, TreeOK(t), NEW d \in Seq(Names), NEW n \in Names, HasGoal(t, d, n)
  PROVE  Slot(t, Goal(t, d, n)) /\ Goal(t, d, n) \in Seq(Names)
<1>1. CASE TestD(t, d)
  BY <1>1, InsideIsSlot DEF HasGoal, Goal
<1>2. CASE ~TestD(t, d)
  BY <1>2, PlaceIsSlot DEF HasGoal, Goal
<1> QED
  BY <1>1, <1>2

\* cp -rf
LEMMA CpRFKeeps ==
  ASSUME NEW t, TreeOK(t), NEW s \in Seq(Names), NEW d \in Seq(Names),
         NEW o \in CpRF(t, s, d)
  PROVE  Kept(o)
<1> DEFINE none == s = Root \/ Entry(t, s) = None \/ ~HasGoal(t, d, Last(s))
           e == Place(t, s)
           direct == Goal(t, d, Last(s))
           goal == IF t[direct].kind = "link" /\ TestE(t, direct)
                     THEN Real(t, direct) ELSE direct
           all == Below(t, e)
<1>1. CASE none \/ ~Fits(t, e, goal)
  BY <1>1 DEF CpRF, Refused, Kept
<1>2. CASE ~none /\ Fits(t, e, goal)
  <2>1. e \in Paths /\ Last(s) \in Names
    BY <1>2, EntryAtPlace, FrontAndLast DEF Slot
  <2>2. Slot(t, direct) /\ direct \in Seq(Names)
    BY <1>2, <2>1, GoalIsSlot
  <2>3. goal \in Paths /\ (goal = Root \/ Slot(t, goal))
    <3>1. CASE t[direct].kind = "link" /\ TestE(t, direct)
      <4>1. Real(t, direct) \in Paths /\ t[Real(t, direct)].kind \in {"dir", "file"}
        BY <2>2, WhereItLeads
      <4>2. t[Real(t, direct)] # None
        BY <4>1 DEF None
      <4> QED
        BY <3>1, <4>1, <4>2, Entries DEF Slot
    <3>2. CASE ~(t[direct].kind = "link" /\ TestE(t, direct))
      BY <2>2, <3>2 DEF Slot
    <3> QED
      BY <3>1, <3>2
  <2>4. PICK P : /\ P \subseteq all
                 /\ \A q \in P, r \in all : IsPrefix(r, q) => r \in P
                 /\ o.rc \in {"0", "1"} /\ o.tree = Overlay(t, e, goal, P)
    <3>1. o \in {Done(Overlay(t, e, goal, all))} \cup
                  {[rc |-> "1", tree |-> Overlay(t, e, goal, P)] :
                     P \in {R \in SUBSET all :
                              R # all /\ \A q \in R, r \in all : IsPrefix(r, q) => r \in R}}
      BY <1>2 DEF CpRF
    <3> HIDE DEF all, e, goal
    <3> QED
      BY <3>1 DEF Done
  <2> HIDE DEF e, goal
  <2> QED
    BY <1>2, <2>1, <2>3, <2>4, OverlayKeepsTree DEF Kept
<1> QED
  BY <1>1, <1>2

\* rename(2)
LEMMA ReplaceKeeps ==
  ASSUME NEW t, TreeOK(t), NEW e, Slot(t, e), t[e] # None, NEW goal, Slot(t, goal),
         NEW o \in Replace(t, e, goal)
  PROVE  Kept(o) /\ Clean(t, o)
<1> DEFINE possible ==
             /\ ~IsPrefix(e, goal)
             /\ \A r \in Below(t, e) : Image(e, goal, r) \in Paths
             /\ \/ t[goal] = None
                \/ t[e] # Dir /\ t[goal] # Dir
                \/ t[e] = Dir /\ t[goal] = Dir /\ Below(t, goal) = {goal}
<1>1. o \in MayDo(t, possible, Moved(t, e, goal))
  BY DEF Replace, Moved
<1>2. possible => TreeOK(Moved(t, e, goal))
  BY MoveKeepsTree
<1> HIDE DEF possible
<1> QED
  BY <1>1, <1>2, DoneOrRefused

\* mv -f
LEMMA MvFKeeps ==
  ASSUME NEW t, TreeOK(t), NEW s \in Seq(Names), NEW d \in Seq(Names),
         NEW o \in MvF(t, s, d)
  PROVE  Kept(o) /\ Clean(t, o)
<1>1. CASE s = Root \/ Entry(t, s) = None \/ ~HasGoal(t, d, Last(s))
  BY <1>1 DEF MvF, Refused, Kept, Clean
<1>2. CASE ~(s = Root \/ Entry(t, s) = None \/ ~HasGoal(t, d, Last(s)))
  <2>1. Slot(t, Place(t, s)) /\ t[Place(t, s)] # None /\ Last(s) \in Names
    BY <1>2, EntryAtPlace, FrontAndLast
  <2>2. Slot(t, Goal(t, d, Last(s)))
    BY <1>2, <2>1, GoalIsSlot
  <2>3. o \in Replace(t, Place(t, s), Goal(t, d, Last(s)))
    BY <1>2 DEF MvF
  <2> QED
    BY <2>1, <2>2, <2>3, ReplaceKeeps
<1> QED
  BY <1>1, <1>2

\* SSH_FXP_RENAME
LEMMA RenameKeeps ==
  ASSUME NEW t, TreeOK(t), NEW s \in Seq(Names), NEW d \in Seq(Names),
         NEW o \in Rename(t, s, d)
  PROVE  Kept(o) /\ Clean(t, o)
<1>1. CASE s = Root \/ Entry(t, s) = None \/ ~HasPlace(t, d)
  <2>1. o = Refused(t)
    BY <1>1 DEF Rename
  <2> QED
    BY <2>1 DEF Refused, Kept, Clean
<1>2. CASE ~(s = Root \/ Entry(t, s) = None \/ ~HasPlace(t, d))
  <2>1. Slot(t, Place(t, s)) /\ t[Place(t, s)] # None /\ Slot(t, Place(t, d))
    BY <1>2, EntryAtPlace
  <2>2. CASE Place(t, s) = Place(t, d)
    BY <1>2, <2>2 DEF Rename, MayDo, Done, Refused, Kept, Clean
  <2>3. CASE Place(t, s) # Place(t, d)
    <3>1. o \in Replace(t, Place(t, s), Place(t, d))
      BY <1>2, <2>3 DEF Rename
    <3> QED
      BY <2>1, <3>1, ReplaceKeeps
  <2> QED
    BY <2>2, <2>3
<1> QED
  BY <1>1, <1>2

\* open with O_CREAT
LEMMA OpenCreatKeeps ==
  ASSUME NEW t, TreeOK(t), NEW p \in Seq(Names), NEW data, NEW truncate \in BOOLEAN,
         NEW o \in OpenCreat(t, p, data, truncate)
  PROVE  Kept(o) /\ Clean(t, o)
<1>1. CASE TestE(t, p)
  <2> DEFINE u == IF truncate THEN [t EXCEPT ![Real(t, p)] = File(data)] ELSE t
  <2>1. ASSUME ~TestD(t, p) PROVE TreeOK(u)
    <3>1. /\ Real(t, p) \in Paths /\ t[Real(t, p)].kind \in {"dir", "file"}
          /\ t[Real(t, p)] # Dir
      BY <1>1, <2>1, WhereItLeads DEF TestD
    <3>2. Real(t, p) # Root /\ t[Real(t, p)] # None
      BY <3>1, Entries DEF None
    <3>3. Slot(t, Real(t, p))
      BY <3>1, <3>2, Entries DEF Slot
    <3> QED
      BY <3>1, <3>3, PutAtPlace, NodeKinds
  <2> HIDE DEF u
  <2>2. o \in MayDo(t, ~TestD(t, p), u)
    BY <1>1 DEF OpenCreat, u
  <2> QED
    BY <2>1, <2>2, DoneOrRefused
<1>2. CASE ~TestE(t, p)
  <2> DEFINE e == Landing(t, p)
  <2>1. e \in Paths \ {Root} /\ t[e] = None => TreeOK([t EXCEPT ![e] = File(data)])
    BY LandingIsSlot, PutAtPlace, NodeKinds
  <2>2. o \in MayDo(t, e \in Paths \ {Root} /\ t[e] = None, [t EXCEPT ![e] = File(data)])
    BY <1>2 DEF OpenCreat
  <2> HIDE DEF e
  <2> QED
    BY <2>1, <2>2, DoneOrRefused
<1> QED
  BY <1>1, <1>2

\* What scp -t opens: p, or in p.
Opened(t, p) == IF TestD(t, p) THEN Append(p, Last(p)) ELSE p

LEMMA OpenedPath ==
  ASSUME NEW t, NEW p \in Seq(Names), p # Root
  PROVE  Opened(t, p) \in Seq(Names)
BY FrontAndLast DEF Opened

\* scp -t
LEMMA ScpTKeeps ==
  ASSUME NEW t, TreeOK(t), NEW p \in Seq(Names), NEW data, NEW o \in ScpT(t, p, data)
  PROVE  Kept(o) /\ Clean(t, o)
<1>1. CASE p = Root
  BY <1>1 DEF ScpT, Refused, Kept, Clean
<1>2. CASE p # Root
  <2>1. o \in OpenCreat(t, Opened(t, p), data, FALSE)
    BY <1>2 DEF ScpT, Opened
  <2> QED
    BY <1>2, <2>1, OpenedPath, OpenCreatKeeps
<1> QED
  BY <1>1, <1>2

-----------------------------------------------------------------------------
(* What the commands lose and make.                                        *)

\* The entries of t that are gone or another thing in u, and those that are new.
Gone(t, u) == {q \in Paths : t[q] # None /\ u[q] # t[q]}
Fresh(t, u) == {q \in Paths : t[q] = None /\ u[q] # None}

\* One entry becomes something else.
Put(t, e, n) == [t EXCEPT ![e] = n]

\* What that loses and makes.
LEMMA PutEffect ==
  ASSUME NEW t, TreeOK(t), NEW e \in Paths, NEW n, n # t[e]
  PROVE  /\ Put(t, e, n)[e] = n
         /\ t[e] # None => Gone(t, Put(t, e, n)) = {e} /\ Fresh(t, Put(t, e, n)) = {}
         /\ t[e] = None => Gone(t, Put(t, e, n)) = {} /\ Fresh(t, Put(t, e, n)) = {e}
<1> DEFINE u == Put(t, e, n)
<1>1. DOMAIN t = Paths
  BY DEF TreeOK
<1>2. DOMAIN u = Paths /\ u[e] = n /\ \A q \in Paths : q # e => u[q] = t[q]
  BY <1>1 DEF Put
<1> QED
  BY <1>2 DEF Gone, Fresh

\* mkdir makes one directory, where it is told.
LEMMA MkDirMakes ==
  ASSUME NEW t, TreeOK(t), NEW p \in Seq(Names), NEW o \in MkDir(t, p), o.tree # t
  PROVE  Gone(t, o.tree) = {} /\ Fresh(t, o.tree) = {Place(t, p)}
<1>1. HasPlace(t, p) /\ Entry(t, p) = None /\ o.tree = Put(t, Place(t, p), Dir)
  BY DEF MkDir, MayDo, Done, Refused, Put
<1>2. Place(t, p) \in Paths /\ t[Place(t, p)] = None /\ Dir # None
  BY <1>1, EntryAtPlace, NodeKinds DEF Slot
<1> QED
  BY <1>1, <1>2, PutEffect

\* rmdir takes one directory.
LEMMA RmDirTakes ==
  ASSUME NEW t, TreeOK(t), NEW p \in Seq(Names), NEW o \in RmDir(t, p), o.tree # t
  PROVE  Gone(t, o.tree) = {Place(t, p)} /\ Entry(t, p) = Dir /\ Fresh(t, o.tree) = {}
<1>1. HasPlace(t, p) /\ Entry(t, p) = Dir /\ o.tree = Put(t, Place(t, p), None)
  BY DEF RmDir, MayDo, Done, Refused, Put
<1>2. Place(t, p) \in Paths /\ t[Place(t, p)] # None
  BY <1>1, EntryAtPlace, NodeKinds DEF Slot
<1> QED
  BY <1>1, <1>2, PutEffect

\* rm -f and SSH_FXP_REMOVE take one entry, which is no directory.
LEMMA RemoveTakes ==
  ASSUME NEW t, TreeOK(t), NEW p \in Seq(Names), NEW o \in RmF(t, p) \cup Unlink(t, p),
         o.tree # t
  PROVE  Gone(t, o.tree) = {Place(t, p)} /\ Entry(t, p) # Dir /\ Fresh(t, o.tree) = {}
<1>1. Entry(t, p) \notin {None, Dir} /\ o.tree = Put(t, Place(t, p), None)
  <2>1. CASE o \in RmF(t, p)
    <3>1. Entry(t, p) # None
      BY <2>1 DEF RmF, Done
    <3>2. o \in MayDo(t, Entry(t, p) # Dir, [t EXCEPT ![Place(t, p)] = None])
      BY <2>1, <3>1 DEF RmF
    <3> QED
      BY <3>1, <3>2 DEF MayDo, Done, Refused, Put
  <2>2. CASE o \in Unlink(t, p)
    BY <2>2 DEF Unlink, MayDo, Done, Refused, Put
  <2> QED
    BY <2>1, <2>2
<1>2. Place(t, p) \in Paths /\ t[Place(t, p)] # None
  BY <1>1, EntryAtPlace DEF Slot
<1> QED
  BY <1>1, <1>2, PutEffect

\* rm -rf takes of what is at and under one entry.
LEMMA RmRFTakes ==
  ASSUME NEW t, TreeOK(t), NEW p \in Seq(Names), NEW o \in RmRF(t, p), o.tree # t
  PROVE  Gone(t, o.tree) \subseteq Below(t, Place(t, p)) /\ Fresh(t, o.tree) = {}
<1> DEFINE all == Below(t, Place(t, p))
<1>1. PICK S \in SUBSET all : o.tree = Without(t, S)
  BY DEF RmRF, Done, Refused
<1> HIDE DEF all
<1>2. \A q \in Paths : o.tree[q] = IF q \in S THEN None ELSE t[q]
  BY <1>1 DEF Without
<1> QED
  BY <1>1, <1>2 DEF Gone, Fresh, all

\* u is t with one link more, at e.
NewLink(t, u, e, to) ==
    Gone(t, u) = {} /\ Fresh(t, u) = {e} /\ \A q \in Fresh(t, u) : u[q] = Link(to)

\* Where a link goes: ln -s puts it in a directory the path leads to, SSH_FXP_SYMLINK
\* at the path itself.  It is one entry, made where there was none.
LEMMA LinkIsPut ==
  ASSUME NEW t, TreeOK(t), NEW p \in Seq(Names), NEW to \in Arg, NEW e, NEW o,
         \/ o \in LnS(t, to, p) /\ e = Goal(t, p, Last(to.names))
         \/ o \in SymlinkAt(t, to, p) /\ e = Place(t, p),
         o.tree # t \/ o.rc = "0"
  PROVE  e \in Paths /\ t[e] = None /\ o.tree = Put(t, e, Link(to))
<1>1. CASE o \in LnS(t, to, p) /\ e = Goal(t, p, Last(to.names)) /\ TestD(t, p)
  <2>1. e = Append(Real(t, p), Last(to.names))
    BY <1>1 DEF Goal
  <2>2. o \in MayDo(t, to.names # Root /\ e \in Paths /\ t[e] = None,
                    Put(t, e, Link(to)))
    BY <1>1, <2>1 DEF LnS, Put
  <2> QED
    BY <2>2 DEF MayDo, Done, Refused
<1>2. CASE ~(o \in LnS(t, to, p) /\ e = Goal(t, p, Last(to.names)) /\ TestD(t, p))
  <2>1. e = Place(t, p)
    BY <1>2 DEF Goal
  <2>2. o \in MayDo(t, HasPlace(t, p) /\ Entry(t, p) = None,
                    [t EXCEPT ![Place(t, p)] = Link(to)])
    BY <1>2 DEF LnS, SymlinkAt
  <2>3. /\ HasPlace(t, p) /\ Entry(t, p) = None
        /\ o.tree = Put(t, Place(t, p), Link(to))
    BY <2>2 DEF MayDo, Done, Refused, Put
  <2>4. Place(t, p) \in Paths /\ t[Place(t, p)] = None
    BY <2>3, EntryAtPlace DEF Slot
  <2> QED
    BY <2>1, <2>3, <2>4
<1> QED
  BY <1>1, <1>2

\* ln -s and SSH_FXP_SYMLINK make one link, there.
LEMMA LinkMakes ==
  ASSUME NEW t, TreeOK(t), NEW p \in Seq(Names), NEW to \in Arg, NEW e, NEW o,
         \/ o \in LnS(t, to, p) /\ e = Goal(t, p, Last(to.names))
         \/ o \in SymlinkAt(t, to, p) /\ e = Place(t, p),
         o.tree # t
  PROVE  NewLink(t, o.tree, e, to)
<1>1. e \in Paths /\ t[e] = None /\ o.tree = Put(t, e, Link(to))
  BY LinkIsPut
<1>2. Link(to) # None
  BY DEF Link, None
<1>3. Gone(t, o.tree) = {} /\ Fresh(t, o.tree) = {e} /\ o.tree[e] = Link(to)
  BY <1>1, <1>2, PutEffect
<1> QED
  BY <1>3 DEF NewLink

\* A copy loses nothing but the contents of files, and makes what it copies.
LEMMA CpRFMakes ==
  ASSUME NEW t, TreeOK(t), NEW s \in Seq(Names), NEW d \in Seq(Names),
         NEW o \in CpRF(t, s, d), o.tree # t
  PROVE  /\ \A q \in Gone(t, o.tree) : t[q].kind = "file" /\ o.tree[q].kind = "file"
         /\ \A q \in Gone(t, o.tree) \cup Fresh(t, o.tree) :
               \E r \in Below(t, Place(t, s)) : o.tree[q] = t[r]
<1> DEFINE none == s = Root \/ Entry(t, s) = None \/ ~HasGoal(t, d, Last(s))
           e == Place(t, s)
           direct == Goal(t, d, Last(s))
           goal == IF t[direct].kind = "link" /\ TestE(t, direct)
                     THEN Real(t, direct) ELSE direct
           all == Below(t, e)
           u == o.tree
<1>1. ~none /\ Fits(t, e, goal)
  BY DEF CpRF, Refused
<1>2. e \in Paths /\ Last(s) \in Names
  BY <1>1, EntryAtPlace, FrontAndLast DEF Slot
<1>3. Slot(t, direct) /\ direct \in Seq(Names)
  BY <1>1, <1>2, GoalIsSlot
<1>4. goal \in Paths
  BY <1>3, WhereItLeads DEF Slot
<1>5. PICK P \in SUBSET all : u = Overlay(t, e, goal, P)
  <2>1. o \in {Done(Overlay(t, e, goal, all))} \cup
                {[rc |-> "1", tree |-> Overlay(t, e, goal, P)] :
                   P \in {R \in SUBSET all :
                            R # all /\ \A q \in R, r \in all : IsPrefix(r, q) => r \in R}}
    BY <1>1 DEF CpRF
  <2> HIDE DEF all, e, goal
  <2> QED
    BY <2>1 DEF Done
<1> HIDE DEF none, e, direct, goal, u
<1>6. \A r \in P : /\ r \in Paths /\ t[r] # None /\ Image(e, goal, r) \in Paths
                   /\ \/ t[Image(e, goal, r)] = None
                      \/ /\ t[Image(e, goal, r)].kind = t[r].kind
                         /\ t[Image(e, goal, r)].kind \in {"dir", "file"}
  BY <1>1, <1>5 DEF Fits, Below
<1>7. /\ \A r \in P : u[Image(e, goal, r)] = t[r]
      /\ \A q \in Paths : (\A r \in P : Image(e, goal, r) # q) => u[q] = t[q]
  <2>1. P \subseteq Below(t, e) /\ u = Overlay(t, e, goal, P)
    BY <1>5
  <2> HIDE DEF all
  <2>2. ASSUME NEW q \in Paths, \A r \in P : Image(e, goal, r) # q PROVE u[q] = t[q]
    BY <2>1, <2>2 DEF Overlay
  <2>3. ASSUME NEW r \in P PROVE u[Image(e, goal, r)] = t[r]
    BY <1>2, <1>4, <1>6, <2>1, OverlayAt
  <2> QED
    BY <2>2, <2>3
<1>8. ASSUME NEW q \in Paths, u[q] # t[q]
      PROVE  /\ \E r \in all : u[q] = t[r]
             /\ t[q] # None => t[q].kind = "file" /\ u[q].kind = "file"
  <2>1. PICK r \in P : Image(e, goal, r) = q
    BY <1>7, <1>8
  <2>2. u[q] = t[r] /\ r \in Paths
    BY <1>6, <1>7, <2>1
  <2>3. t[q] # None => t[q].kind = t[r].kind /\ t[q].kind \in {"dir", "file"}
    BY <1>6, <2>1
  <2>4. t[q].kind = "dir" /\ t[r].kind = "dir" => u[q] = t[q]
    BY <2>2, Entries
  <2> QED
    BY <1>5, <1>8, <2>2, <2>3, <2>4
<1>9. \A q \in Gone(t, u) \cup Fresh(t, u) : q \in Paths /\ u[q] # t[q]
  BY DEF Gone, Fresh
<1>10. \A q \in Gone(t, u) : t[q] # None
  BY DEF Gone
<1> QED
  BY <1>8, <1>9, <1>10 DEF u, e

\* A move loses what it moves and, it may be, what it replaces; everything is at
\* its destination then.
LEMMA ReplaceMoves ==
  ASSUME NEW t, TreeOK(t), NEW e, Slot(t, e), t[e] # None, NEW goal, Slot(t, goal),
         NEW o \in Replace(t, e, goal), o.tree # t
  PROVE  /\ Gone(t, o.tree) \subseteq Below(t, e) \cup {goal}
         /\ \A r \in Below(t, e) : o.tree[Image(e, goal, r)] = t[r]
<1> DEFINE possible ==
             /\ ~IsPrefix(e, goal)
             /\ \A r \in Below(t, e) : Image(e, goal, r) \in Paths
             /\ \/ t[goal] = None
                \/ t[e] # Dir /\ t[goal] # Dir
                \/ t[e] = Dir /\ t[goal] = Dir /\ Below(t, goal) = {goal}
           all == Below(t, e)
           u == Overlay(t, e, goal, all)
           v == o.tree
           at(r) == Image(e, goal, r)
<1>1. possible /\ v = Moved(t, e, goal)
  <2>1. o \in MayDo(t, possible, Moved(t, e, goal))
    BY DEF Replace, Moved
  <2> HIDE DEF possible
  <2> QED
    BY <2>1 DEF MayDo, Done, Refused, Put
<1>2. /\ e \in Paths \ {Root} /\ goal \in Paths \ {Root}
      /\ e \in Seq(Names) /\ goal \in Seq(Names) /\ IsPrefix(e, e)
  BY PathsAreShort, PrefixOrder DEF Slot
<1>3. \A r \in all : /\ r \in Paths /\ r \in Seq(Names) /\ IsPrefix(e, r)
                     /\ t[r] # None
  BY PathsAreShort DEF Below
<1>4. /\ \A r \in all : u[at(r)] = t[r]
      /\ \A q \in Paths : (\A r \in all : at(r) # q) => u[q] = t[q]
  BY <1>1, <1>2, OverlayAt
<1>5. \A r \in all : IsPrefix(goal, at(r)) /\ at(r) \in Seq(Names)
  BY <1>2, <1>3, ImageOfParts, ImageByNames
<1>6. \A q \in Paths : v[q] = IF q \in all THEN None ELSE u[q]
  BY <1>1 DEF Moved
<1>7. ASSUME NEW q \in Paths, t[q] # None, IsPrefix(goal, q) PROVE q = goal
  <2>1. CASE t[goal] # Dir
    BY <1>2, <1>7, <2>1, Ancestors
  <2>2. CASE Below(t, goal) = {goal}
    BY <1>7, <2>2 DEF Below
  <2> QED
    BY <1>1, <2>1, <2>2 DEF None, Dir
<1>8. ASSUME NEW r \in all PROVE at(r) \notin all /\ at(r) \in Paths
  <2>1. at(r) \in Paths
    BY <1>1
  <2>2. ASSUME at(r) \in all PROVE FALSE
    <3>1. IsPrefix(e, at(r)) /\ IsPrefix(goal, at(r)) /\ at(r) \in Seq(Names)
      BY <1>3, <1>5, <2>2
    <3>2. IsPrefix(goal, e)
      BY <1>1, <1>2, <3>1, PrefixesCompare
    <3> QED
      BY <1>1, <1>2, <1>7, <3>2
  <2> QED
    BY <2>1, <2>2
<1> HIDE DEF possible, all, u, v, at
<1>9. \A r \in all : v[at(r)] = t[r]
  BY <1>4, <1>6, <1>8
<1>10. ASSUME NEW q \in Paths, t[q] # None, v[q] # t[q], q \notin all PROVE q = goal
  <2>1. PICK r \in all : at(r) = q
    BY <1>4, <1>6, <1>10
  <2> QED
    BY <1>5, <1>7, <1>10, <2>1
<1>11. Gone(t, v) \subseteq all \cup {goal}
  BY <1>10 DEF Gone
<1> QED
  BY <1>9, <1>11 DEF v, all, at

-----------------------------------------------------------------------------
(* What an opened file is.                                                 *)

\* It ends at a file, and is stuck where there is nothing.
LEMMA VisitEnds ==
  ASSUME NEW t, NEW w \in Walks, w.ok, w.rest # << >>,
         Met(t, w).kind # "link", Met(t, w) # Dir
  PROVE  Visit(t)[w] = IF Met(t, w).kind = "file" /\ Tail(w.rest) = << >>
                         THEN Onto(w) ELSE Stuck(w)
BY VisitForms

\* One that comes to nothing is stuck.
LEMMA VisitNothing ==
  ASSUME NEW t, NEW w \in Walks, w.ok, w.rest # << >>, Met(t, w) = None
  PROVE  Visit(t)[w] = Stuck(w)
<1>1. Met(t, w).kind \notin {"link", "file"} /\ Met(t, w) # Dir
  BY DEF Dir, None
<1> QED
  BY <1>1, VisitEnds

\* A walk that cannot go on is where it was.
LEMMA VisitSticks ==
  ASSUME NEW t, NEW w \in Walks, w.ok, ~Visit(t)[w].ok
  PROVE  Visit(t)[w] = Stuck(w)
<1>1. w.rest # << >>
  BY VisitRests
<1>2. Onto(w).ok = TRUE /\ Through(t, w).ok = TRUE
  BY DEF Onto, Through
<1> QED
  BY <1>1, <1>2, VisitForms

\* A walk does the same in trees that only differ in what a file holds.
LEMMA VisitsAlike ==
  ASSUME NEW t, NEW u, NEW w \in Walks,
         \/ Met(u, w) = Met(t, w)
         \/ Met(u, w).kind = "file" /\ Met(t, w).kind = "file"
  PROVE  Visit(u)[w] = Visit(t)[w]
<1>1. CASE Met(u, w) = Met(t, w)
  BY <1>1 DEF Visit, Met, Here
<1>2. CASE Met(u, w).kind = "file" /\ Met(t, w).kind = "file"
  <2>1. Met(u, w) # Dir /\ Met(t, w) # Dir
    BY <1>2 DEF Dir
  <2>2. CASE ~w.ok \/ w.rest = << >>
    BY <2>2, VisitRests
  <2>3. CASE w.ok /\ w.rest # << >>
    BY <1>2, <2>1, <2>3, VisitEnds
  <2> QED
    BY <2>2, <2>3
<1> QED
  BY <1>1, <1>2

\* How much a walk has left to do at most.
Left(w) == Len(w.rest) + w.links * MaxDepth

\* A visit makes it less.
LEMMA VisitCosts ==
  ASSUME NEW t, TreeOK(t), NEW w \in Walks, w.ok, w.rest # << >>, Visit(t)[w].ok
  PROVE  Left(Visit(t)[w]) + 1 <= Left(w) /\ Left(w) \in Nat /\ Left(Visit(t)[w]) \in Nat
<1> DEFINE more == Tail(w.rest)
           v == Visit(t)[w]
<1>1. /\ w.rest \in Seq(Names) /\ w.links \in Nat /\ MaxDepth \in Nat
      /\ more \in Seq(Names) /\ Len(more) = Len(w.rest) - 1
      /\ Len(w.rest) \in Nat /\ Len(more) \in Nat
  BY WalkParts, RemoteTreeAssumption
<1>2. w.links * MaxDepth \in Nat
  BY <1>1
<1> SUFFICES Left(v) + 1 <= Left(w) /\ Left(w) \in Nat /\ Left(v) \in Nat
  OBVIOUS
<1> HIDE DEF v
<1>3. CASE v = Onto(w)
  <2>1. v.rest = more /\ v.links = w.links
    BY <1>3 DEF Onto
  <2> HIDE DEF more
  <2>2. Left(v) = Len(more) + w.links * MaxDepth
    BY <2>1 DEF Left
  <2> QED
    <3> DEFINE k == w.links * MaxDepth
               x == Left(v)
               y == Left(w)
    <3>1. y = Len(w.rest) + k /\ x = Len(more) + k /\ k \in Nat
      BY <1>2, <2>2 DEF Left
    <3> HIDE DEF k, x, y
    <3> QED
      BY <1>1, <3>1 DEF x, y
<1>4. CASE v = Through(t, w) /\ Met(t, w).kind = "link" /\ w.links > 0
  <2> DEFINE names == Met(t, w).to.names
  <2>1. Met(t, w).to \in Arg
    BY <1>4, Entries DEF Met, None
  <2>2. names \in Seq(Names) /\ Len(names) \in 0..MaxDepth
    BY <2>1, PathsAreShort DEF Arg
  <2>3. v.rest = names \o more /\ v.links = w.links - 1
    BY <1>4 DEF Through
  <2> HIDE DEF names, more
  <2>7. more \in Seq(Names)
    BY <1>1
  <2>4. Len(names \o more) = Len(names) + Len(more) /\ Len(names) \in Nat
    BY <2>2, <2>7, ConcatProperties
  <2>5. (w.links - 1) * MaxDepth = w.links * MaxDepth - MaxDepth
        /\ (w.links - 1) * MaxDepth \in Nat
    <3>1. w.links - 1 \in Nat /\ MaxDepth \in Nat
      BY <1>1, <1>4
    <3>2. (w.links - 1) * MaxDepth \in Nat
      BY <3>1
    <3>3. (w.links - 1) * MaxDepth = w.links * MaxDepth - MaxDepth
      BY <1>1
    <3> QED
      BY <3>2, <3>3
  <2>6. Left(v) = Len(names) + Len(more) + (w.links - 1) * MaxDepth
    BY <2>3, <2>4 DEF Left
  <2> QED
    <3> DEFINE k == w.links * MaxDepth
               j == (w.links - 1) * MaxDepth
               x == Left(v)
               y == Left(w)
    <3>1. /\ y = Len(w.rest) + k /\ x = Len(names) + Len(more) + j
          /\ k \in Nat /\ j \in Nat /\ j = k - MaxDepth
      BY <1>2, <2>5, <2>6 DEF Left
    <3> HIDE DEF k, j, x, y
    <3>2. Len(names) <= MaxDepth /\ Len(names) \in Nat
      BY <2>2, <2>4
    <3>3. x + 1 <= y /\ x \in Nat /\ y \in Nat
      <4> DEFINE a == Len(w.rest)
                 b == Len(more)
                 d == Len(names)
      <4>1. /\ a \in Nat /\ b \in Nat /\ d \in Nat /\ MaxDepth \in Nat
            /\ b = a - 1 /\ d <= MaxDepth
            /\ y = a + k /\ x = d + b + j /\ j = k - MaxDepth /\ j \in Nat /\ k \in Nat
        BY <1>1, <3>1, <3>2
      <4> HIDE DEF a, b, d
      <4> QED
        BY <4>1
    <3> QED
      BY <3>3 DEF x, y
<1>5. v # Stuck(w)
  BY DEF Stuck, v
<1> QED
  BY <1>3, <1>4, <1>5, VisitForms DEF v

\* A walk that is stuck or done stays so.
LEMMA SettledForGood ==
  ASSUME NEW t, NEW p \in Seq(Names), NEW g, Stepped(g, t, p), NEW n \in 0..Limit(p),
         ~g[n].ok \/ g[n].rest = << >>
  PROVE  Walk(t, p) = g[n]
<1> DEFINE L == Limit(p)
           T == {m \in Nat : n + m <= L => g[n + m] = g[n]}
<1>0. n \in Nat /\ L \in Nat /\ n <= L
  BY LimitIsNat
<1>1. 0 \in T
  BY <1>0
<1>2. \A m \in Nat : m \in T => m + 1 \in T
  <2> SUFFICES ASSUME NEW m \in Nat, m \in T, n + (m + 1) <= L
               PROVE  g[n + (m + 1)] = g[n]
    OBVIOUS
  <2>1. /\ n + m \in 0..L /\ n + (m + 1) \in 1..L /\ (n + (m + 1)) - 1 = n + m
        /\ g[n + m] = g[n]
    BY <1>0
  <2>2. g[n + m] \in Walks
    BY <2>1 DEF Stepped, OnTheWay
  <2>3. g[n + (m + 1)] = Visit(t)[g[n + m]]
    BY <2>1 DEF Stepped
  <2>4. Visit(t)[g[n + m]] = g[n + m]
    BY <2>1, <2>2, VisitRests
  <2> QED
    BY <2>1, <2>3, <2>4
<1>3. Nat \subseteq T
  <2> HIDE DEF T
  <2> QED
    BY <1>1, <1>2, SetInduction
<1>4. L - n \in Nat /\ n + (L - n) = L
  <2> HIDE DEF L
  <2> QED
    BY <1>0
<1>5. n + (L - n) <= L => g[n + (L - n)] = g[n]
  <2>1. L - n \in T
    BY <1>3, <1>4
  <2> QED
    BY <2>1
<1>6. g[L] = g[n]
  <2> HIDE DEF L
  <2> QED
    BY <1>0, <1>4, <1>5
<1> QED
  BY <1>6 DEF Stepped

\* The limit is no limit: a walk ends where the path leads, or is stuck.
LEMMA WalkSettles ==
  ASSUME NEW t, TreeOK(t), NEW p \in Seq(Names)
  PROVE  ~Walk(t, p).ok \/ Walk(t, p).rest = << >>
<1>1. PICK g : Stepped(g, t, p)
  BY WalkSteps
<1> DEFINE L == Limit(p)
           Settled(w) == ~w.ok \/ w.rest = << >>
           T == {n \in Nat : n <= L => Settled(g[n]) \/ Left(g[n]) + n <= L}
<1>2. L \in Nat /\ L = Len(p) + MaxLinks * MaxDepth
  BY LimitIsNat
<1>3. 0 \in T
  <2>1. g[0].rest = p /\ g[0].links = MaxLinks
    BY <1>1 DEF Stepped, Start
  <2>2. Left(g[0]) = L
    BY <1>2, <2>1 DEF Left
  <2> QED
    BY <1>2, <2>2
<1>4. \A n \in Nat : n \in T => n + 1 \in T
  <2> SUFFICES ASSUME NEW n \in Nat, n \in T, n + 1 <= L
               PROVE  Settled(g[n + 1]) \/ Left(g[n + 1]) + (n + 1) <= L
    OBVIOUS
  <2>1. n \in 0..L /\ n + 1 \in 0..L /\ n + 1 \in 1..L /\ (n + 1) - 1 = n
    BY <1>2
  <2>2. g[n] \in Walks /\ g[n + 1] = Visit(t)[g[n]] /\ g[n + 1] \in Walks
    BY <1>1, <2>1 DEF Stepped, OnTheWay
  <2>3. CASE Settled(g[n])
    BY <2>2, <2>3, VisitRests
  <2>4. CASE ~Settled(g[n]) /\ g[n + 1].ok
    <3>1. /\ Left(g[n + 1]) + 1 <= Left(g[n])
          /\ Left(g[n]) \in Nat /\ Left(g[n + 1]) \in Nat
      BY <2>2, <2>4, VisitCosts
    <3>2. Left(g[n]) + n <= L
      BY <1>2, <2>1, <2>4
    <3> HIDE DEF L
    <3> QED
      BY <1>2, <3>1, <3>2
  <2> QED
    BY <2>3, <2>4
<1>5. Nat \subseteq T
  <2> HIDE DEF T
  <2> QED
    BY <1>3, <1>4, SetInduction
<1>6. Settled(g[L]) \/ Left(g[L]) + L <= L
  BY <1>2, <1>5
<1>7. g[L] \in Walks /\ g[L] = Walk(t, p)
  BY <1>1, <1>2 DEF Stepped, OnTheWay
<1>8. ASSUME Left(g[L]) + L <= L PROVE g[L].rest = << >>
  <2> DEFINE w == g[L]
  <2>1. w.rest \in Seq(Names) /\ w.links \in Nat /\ MaxDepth \in Nat
    BY <1>7, WalkParts, RemoteTreeAssumption
  <2>2. Left(w) + L <= L
    BY <1>8
  <2> HIDE DEF w, L
  <2>3. w.links * MaxDepth \in Nat /\ Len(w.rest) \in Nat
    BY <2>1
  <2>4. Len(w.rest) = 0
    BY <1>2, <2>2, <2>3 DEF Left
  <2>5. w.rest = << >>
    BY <2>1, <2>4
  <2> QED
    BY <2>5 DEF w
<1> QED
  BY <1>6, <1>7, <1>8

\* u has all that t has, but perhaps other data in its files.
Extends(t, u) ==
    \A q \in Paths : \/ t[q] = None \/ u[q] = t[q]
                     \/ t[q].kind = "file" /\ u[q].kind = "file"

\* Where a path leads in t, it leads in u.
LEMMA WalksAgree ==
  ASSUME NEW t, TreeOK(t), NEW u, TreeOK(u), Extends(t, u),
         NEW p \in Seq(Names), Walk(t, p).ok
  PROVE  Walk(u, p) = Walk(t, p)
<1>1. PICK g : Stepped(g, t, p)
  BY WalkSteps
<1>2. PICK h : Stepped(h, u, p)
  BY WalkSteps
<1> DEFINE L == Limit(p)
           T == {n \in Nat : n <= L => ~g[n].ok \/ h[n] = g[n]}
<1>3. L \in Nat
  BY LimitIsNat
<1>4. 0 \in T
  BY <1>1, <1>2 DEF Stepped
<1>5. \A n \in Nat : n \in T => n + 1 \in T
  <2> SUFFICES ASSUME NEW n \in Nat, n \in T, n + 1 <= L
               PROVE  ~g[n + 1].ok \/ h[n + 1] = g[n + 1]
    OBVIOUS
  <2>1. n \in 0..L /\ n + 1 \in 1..L /\ (n + 1) - 1 = n /\ (~g[n].ok \/ h[n] = g[n])
    BY <1>3
  <2>2. g[n] \in Walks /\ g[n + 1] = Visit(t)[g[n]] /\ h[n + 1] = Visit(u)[h[n]]
    BY <1>1, <1>2, <2>1 DEF Stepped, OnTheWay
  <2>3. CASE ~g[n].ok
    BY <2>2, <2>3, VisitRests
  <2>4. CASE h[n] = g[n] /\ g[n].rest = << >>
    BY <2>2, <2>4, VisitRests
  <2>5. CASE g[n].ok /\ h[n] = g[n] /\ g[n].rest # << >> /\ Met(t, g[n]) = None
    <3>1. g[n + 1] = Stuck(g[n])
      BY <2>2, <2>5, VisitNothing
    <3> QED
      BY <3>1 DEF Stuck
  <2>6. CASE h[n] = g[n] /\ Met(t, g[n]) # None
    <3>1. \/ Met(u, g[n]) = Met(t, g[n])
          \/ Met(u, g[n]).kind = "file" /\ Met(t, g[n]).kind = "file"
      BY <2>6 DEF Met, Extends
    <3> QED
      BY <2>2, <2>6, <3>1, VisitsAlike
  <2> QED
    BY <2>1, <2>3, <2>4, <2>5, <2>6
<1>6. Nat \subseteq T
  <2> HIDE DEF T
  <2> QED
    BY <1>4, <1>5, SetInduction
<1>7. ~g[L].ok \/ h[L] = g[L]
  BY <1>3, <1>6
<1> QED
  BY <1>1, <1>2, <1>7 DEF Stepped

\* An old file, emptied for data, is where its path leads.
LEMMA EmptiedIsThere ==
  ASSUME NEW t, TreeOK(t), NEW p \in Seq(Names), TestE(t, p),
         NEW e \in Paths, t[e].kind = "file",
         NEW data, NEW u, TreeOK(u), u = Put(t, e, File(data))
  PROVE  Real(u, p) = Real(t, p) /\ TestE(u, p)
<1>1. DOMAIN t = Paths
  BY DEF TreeOK
<1>2. u[e] = File(data) /\ \A q \in Paths : q # e => u[q] = t[q]
  BY <1>1 DEF Put
<1>3. Extends(t, u)
  BY <1>2 DEF Extends, File
<1>4. Walk(u, p) = Walk(t, p)
  BY <1>3, WalksAgree DEF TestE
<1> QED
  BY <1>4 DEF Real, TestE

\* A new file is where its path leads, once it is there.
LEMMA CreatedIsThere ==
  ASSUME NEW t, TreeOK(t), NEW p \in Seq(Names), NEW e \in Paths \ {Root},
         e = Landing(t, p), t[e] = None,
         NEW data, NEW u, TreeOK(u), u = Put(t, e, File(data))
  PROVE  Real(u, p) = e /\ TestE(u, p)
<1> DEFINE W == Walk(t, p)
           there == [at |-> e, rest |-> << >>, ok |-> TRUE, links |-> W.links]
           L == Limit(p)
<1>0. L \in Nat
  BY LimitIsNat
<1>1. DOMAIN t = Paths
  BY DEF TreeOK
<1>2. u[e] = File(data) /\ \A q \in Paths : q # e => u[q] = t[q]
  BY <1>1 DEF Put
<1>3. u[e].kind = "file" /\ u[e] # Dir
  BY <1>2 DEF File, Dir
<1>4. ~W.ok /\ Len(W.rest) = 1 /\ e = W.at \o W.rest
  BY DEF Landing
<1>5. PICK g : Stepped(g, t, p)
  BY WalkSteps
<1>6. PICK h : Stepped(h, u, p)
  BY WalkSteps
<1> HIDE DEF W
<1>7. W = Walk(t, p)
  BY DEF W
<1>12. ASSUME NEW w \in Walks, w.at = W.at, w.rest = W.rest
       PROVE  Here(w) = e /\ Tail(w.rest) = << >>
  <2>1. w.at \in Seq(Names) /\ w.rest \in Seq(Names) /\ Len(w.rest) = 1
    BY <1>4, <1>12, PathsAreShort DEF Walks
  <2>2. Head(w.rest) = w.rest[1] /\ Tail(w.rest) = << >>
    <3>0. w.rest # << >>
      BY <2>1, OneMore DEF Root
    <3>1. Tail(w.rest) \in Seq(Names) /\ Len(Tail(w.rest)) = Len(w.rest) - 1
      BY <2>1, <3>0, HeadTailProperties
    <3>2. Len(Tail(w.rest)) = 0
      BY <2>1, <3>1
    <3>3. Head(w.rest) = w.rest[1]
      BY <2>1, <3>0
    <3> QED
      BY <3>1, <3>2, <3>3, EmptySeq, RootIsPath DEF Root
  <2>3. w.at \o w.rest = Append(w.at, w.rest[1])
    BY <2>1, OneMore
  <2> QED
    BY <1>4, <1>12, <2>2, <2>3 DEF Here
<1> DEFINE T == {n \in Nat : n <= L => h[n] = IF g[n].ok THEN g[n] ELSE there}
<1>8. 0 \in T
  BY <1>5, <1>6 DEF Stepped, Start
<1>9. ASSUME NEW n \in Nat, n \in T, n + 1 <= L
      PROVE  h[n + 1] = IF g[n + 1].ok THEN g[n + 1] ELSE there
  <2>1. /\ n \in 0..L /\ n + 1 \in 0..L /\ n + 1 \in 1..L /\ (n + 1) - 1 = n
        /\ h[n] = IF g[n].ok THEN g[n] ELSE there
    <3> HIDE DEF L, there
    <3> QED
      BY <1>0, <1>9
  <2>2. g[n] \in Walks /\ g[n + 1] \in Walks /\ h[n] \in Walks
    BY <1>5, <1>6, <2>1 DEF Stepped, OnTheWay
  <2>3. g[n + 1] = Visit(t)[g[n]] /\ h[n + 1] = Visit(u)[h[n]]
    BY <1>5, <1>6, <2>1 DEF Stepped
  <2>4. CASE ~g[n].ok
    <3>1. h[n] = there /\ g[n + 1] = g[n]
      BY <2>1, <2>2, <2>3, <2>4, VisitRests
    <3>2. h[n].rest = << >>
      BY <3>1
    <3>3. h[n + 1] = h[n]
      BY <2>2, <2>3, <3>2, VisitRests
    <3> QED
      BY <2>4, <3>1, <3>3
  <2>5. CASE g[n].ok /\ g[n].rest = << >>
    <3>1. h[n] = g[n] /\ g[n + 1] = g[n] /\ h[n + 1] = h[n]
      BY <2>1, <2>2, <2>3, <2>5, VisitRests
    <3> QED
      BY <2>5, <3>1
  <2>6. CASE g[n].ok /\ g[n].rest # << >> /\ Here(g[n]) # e
    <3>1. h[n] = g[n] /\ Met(u, g[n]) = Met(t, g[n])
      BY <1>2, <2>1, <2>6 DEF Met
    <3>2. h[n + 1] = g[n + 1]
      BY <2>2, <2>3, <3>1, VisitsAlike
    <3>3. ASSUME ~g[n + 1].ok PROVE FALSE
      <4>1. W = g[n + 1]
        BY <1>5, <1>7, <2>1, <3>3, SettledForGood
      <4>2. g[n + 1] = Stuck(g[n])
        BY <2>2, <2>3, <2>6, <3>3, VisitSticks
      <4>3. g[n].at = W.at /\ g[n].rest = W.rest
        BY <4>1, <4>2 DEF Stuck
      <4> QED
        BY <2>2, <2>6, <4>3, <1>12
    <3> QED
      BY <3>2, <3>3
  <2>7. CASE g[n].ok /\ g[n].rest # << >> /\ Here(g[n]) = e
    <3>1. h[n] = g[n] /\ Met(t, g[n]) = None /\ Met(u, g[n]) = u[e]
      BY <2>1, <2>7 DEF Met
    <3>2. Met(u, g[n]).kind = "file"
      BY <1>3, <3>1
    <3>3. g[n + 1] = Stuck(g[n])
      BY <2>2, <2>3, <2>7, <3>1, VisitNothing
    <3>4. ~g[n + 1].ok /\ g[n].at = g[n + 1].at /\ g[n].rest = g[n + 1].rest
          /\ g[n].links = g[n + 1].links
      BY <3>3 DEF Stuck
    <3>5. W = g[n + 1]
      BY <1>5, <1>7, <2>1, <3>4, SettledForGood
    <3>6. Tail(g[n].rest) = << >>
      BY <1>12, <2>2, <3>4, <3>5
    <3>7. Met(u, g[n]).kind # "link" /\ Met(u, g[n]) # Dir
      BY <1>3, <3>1
    <3>8. h[n + 1] = Onto(g[n])
      BY <2>2, <2>3, <2>7, <3>1, <3>2, <3>6, <3>7, VisitEnds
    <3>9. h[n + 1] = there
      BY <2>7, <3>4, <3>5, <3>6, <3>8 DEF Onto
    <3> QED
      BY <3>4, <3>9
  <2> QED
    BY <2>4, <2>5, <2>6, <2>7
<1>10. Nat \subseteq T
  <2>1. ASSUME NEW n \in Nat, n \in T PROVE n + 1 \in T
    <3>1. n + 1 <= L => h[n + 1] = IF g[n + 1].ok THEN g[n + 1] ELSE there
      BY <1>9, <2>1
    <3> HIDE DEF there
    <3> QED
      BY <3>1
  <2> HIDE DEF T
  <2> QED
    BY <1>8, <2>1, SetInduction
<1>11. Walk(u, p) = there
  <2>1. L \in T /\ g[L] = W /\ Walk(u, p) = h[L]
    BY <1>5, <1>6, <1>7, <1>10, LimitIsNat DEF Stepped
  <2> QED
    BY <1>4, <2>1, LimitIsNat
<1> QED
  BY <1>11 DEF Real, TestE

\* What puts the same thing in a place changes nothing.
LEMMA PutChanges ==
  ASSUME NEW t, TreeOK(t), NEW e \in Paths, NEW n, Put(t, e, n) # t
  PROVE  n # t[e]
<1> SUFFICES ASSUME n = t[e] PROVE Put(t, e, n) = t
  OBVIOUS
<1>1. t = [q \in Paths |-> t[q]]
  BY DEF TreeOK
<1>2. Put(t, e, n) = [q \in Paths |-> t[q]]
  BY <1>1 DEF Put
<1> QED
  BY <1>1, <1>2

\* u is t with one more file, or one file emptied, at the place p leads to.
OneFile(t, u, p, truncate) ==
    \E e \in Paths :
       /\ u[e].kind = "file" /\ Real(u, p) = e
       /\ \/ Gone(t, u) = {} /\ Fresh(t, u) = {e}
          \/ /\ truncate = TRUE /\ t[e].kind = "file"
             /\ Gone(t, u) = {e} /\ Fresh(t, u) = {}

\* Opening a path for writing makes one file, where nothing was, and empties none
\* unless it is asked to; then it makes or empties the one file the path leads to.
LEMMA OpenCreatMakes ==
  ASSUME NEW t, TreeOK(t), NEW p \in Seq(Names), NEW data, NEW truncate \in BOOLEAN,
         NEW o \in OpenCreat(t, p, data, truncate), o.tree # t
  PROVE  OneFile(t, o.tree, p, truncate)
<1>0. TreeOK(o.tree)
  BY OpenCreatKeeps DEF Kept
<1>1. CASE TestE(t, p)
  <2> DEFINE e == Real(t, p)
  <2>1. ~TestD(t, p) /\ truncate = TRUE /\ o.tree = Put(t, e, File(data))
    BY <1>1 DEF OpenCreat, MayDo, Done, Refused, Put
  <2>2. e \in Paths /\ t[e].kind = "file" /\ t[e] # None
    <3>1. e \in Paths /\ t[e].kind \in {"dir", "file"} /\ t[e] # Dir
      BY <1>1, <2>1, WhereItLeads DEF TestD
    <3> QED
      BY <3>1, Entries DEF None
  <2>3. Real(o.tree, p) = e
    <3> HIDE DEF e
    <3>1. Real(o.tree, p) = Real(t, p)
      BY <1>0, <1>1, <2>1, <2>2, EmptiedIsThere
    <3> QED
      BY <3>1 DEF e
  <2> HIDE DEF e
  <2>4. File(data) # t[e]
    BY <2>1, <2>2, PutChanges
  <2>5. o.tree[e] = File(data) /\ Gone(t, o.tree) = {e} /\ Fresh(t, o.tree) = {}
    BY <2>1, <2>2, <2>4, PutEffect
  <2> QED
    BY <2>1, <2>2, <2>3, <2>5 DEF File, OneFile
<1>2. CASE ~TestE(t, p)
  <2> DEFINE e == Landing(t, p)
  <2>1. e \in Paths \ {Root} /\ t[e] = None /\ o.tree = Put(t, e, File(data))
    <3>1. o \in MayDo(t, e \in Paths \ {Root} /\ t[e] = None, Put(t, e, File(data)))
      BY <1>2 DEF OpenCreat, Put
    <3> HIDE DEF e
    <3> QED
      BY <3>1 DEF MayDo, Done, Refused
  <2> HIDE DEF e
  <2>2. Real(o.tree, p) = e
    BY <1>0, <2>1, CreatedIsThere DEF e
  <2>3. File(data) # t[e]
    BY <2>1 DEF File, None
  <2>4. o.tree[e] = File(data) /\ Gone(t, o.tree) = {} /\ Fresh(t, o.tree) = {e}
    BY <2>1, <2>3, PutEffect
  <2> QED
    BY <2>1, <2>2, <2>4 DEF File, OneFile
<1> QED
  BY <1>1, <1>2

\* u is t with one more file.
NewFile(t, u) ==
    /\ Gone(t, u) = {}
    /\ \E e \in Paths : Fresh(t, u) = {e} /\ u[e].kind = "file"

\* scp -t makes one file, and empties none.
LEMMA ScpTMakes ==
  ASSUME NEW t, TreeOK(t), NEW p \in Seq(Names), NEW data, NEW o \in ScpT(t, p, data),
         o.tree # t
  PROVE  NewFile(t, o.tree)
<1>1. p # Root
  <2>1. Refused(t).tree = t
    BY DEF Refused
  <2>2. p = Root => o = Refused(t)
    BY DEF ScpT
  <2> QED
    BY <2>1, <2>2
<1>2. PICK truncate \in BOOLEAN :
         truncate = FALSE /\ o \in OpenCreat(t, Opened(t, p), data, truncate)
  BY <1>1 DEF ScpT, Opened
<1>3. OneFile(t, o.tree, Opened(t, p), truncate)
  BY <1>1, <1>2, OpenedPath, OpenCreatMakes
<1> QED
  BY <1>2, <1>3 DEF OneFile, NewFile

\* mv -f loses nothing but what it moves and what it replaces.
LEMMA MvFMoves ==
  ASSUME NEW t, TreeOK(t), NEW s \in Seq(Names), NEW d \in Seq(Names),
         NEW o \in MvF(t, s, d), o.tree # t
  PROVE  LET goal == Goal(t, d, Last(s))
         IN  /\ Gone(t, o.tree) \subseteq Below(t, Place(t, s)) \cup {goal}
             /\ \A r \in Below(t, Place(t, s)) : o.tree[Image(Place(t, s), goal, r)] = t[r]
<1>1. ~(s = Root \/ Entry(t, s) = None \/ ~HasGoal(t, d, Last(s)))
  BY DEF MvF, Refused
<1>2. Slot(t, Place(t, s)) /\ t[Place(t, s)] # None /\ Last(s) \in Names
  BY <1>1, EntryAtPlace, FrontAndLast
<1>3. Slot(t, Goal(t, d, Last(s)))
  BY <1>1, <1>2, GoalIsSlot
<1>4. o \in Replace(t, Place(t, s), Goal(t, d, Last(s)))
  BY <1>1 DEF MvF
<1> QED
  BY <1>2, <1>3, <1>4, ReplaceMoves

\* SSH_FXP_RENAME moves to the path itself.
LEMMA RenameMoves ==
  ASSUME NEW t, TreeOK(t), NEW s \in Seq(Names), NEW d \in Seq(Names),
         NEW o \in Rename(t, s, d), o.tree # t
  PROVE  LET goal == Place(t, d)
         IN  /\ Gone(t, o.tree) \subseteq Below(t, Place(t, s)) \cup {goal}
             /\ \A r \in Below(t, Place(t, s)) : o.tree[Image(Place(t, s), goal, r)] = t[r]
<1>1. ~(s = Root \/ Entry(t, s) = None \/ ~HasPlace(t, d))
  <2>1. Refused(t).tree = t
    BY DEF Refused
  <2>2. s = Root \/ Entry(t, s) = None \/ ~HasPlace(t, d) => o = Refused(t)
    BY DEF Rename
  <2> QED
    BY <2>1, <2>2
<1>2. Slot(t, Place(t, s)) /\ t[Place(t, s)] # None /\ Slot(t, Place(t, d))
  BY <1>1, EntryAtPlace
<1>3. Place(t, s) # Place(t, d)
  BY <1>1 DEF Rename, MayDo, Done, Refused
<1>4. o \in Replace(t, Place(t, s), Place(t, d))
  BY <1>1, <1>3 DEF Rename
<1> QED
  BY <1>2, <1>4, ReplaceMoves

-----------------------------------------------------------------------------
(* What a command that succeeds has done.                                  *)

\* A walk with one name more to visit.
Longer(w, l) == [at |-> w.at, rest |-> Append(w.rest, l), ok |-> w.ok, links |-> w.links]

\* Names before one name, as the visit of a link needs them.
LEMMA LongerRest ==
  ASSUME NEW r \in Seq(Names), NEW l \in Names
  PROVE  /\ Append(r, l) \in Seq(Names) /\ Append(r, l) # << >>
         /\ r # << >> => /\ Head(Append(r, l)) = Head(r)
                         /\ Tail(Append(r, l)) = Append(Tail(r), l)
                         /\ Tail(Append(r, l)) # << >>
         /\ \A s \in Seq(Names) : s \o Append(r, l) = Append(s \o r, l)
<1>1. Append(r, l) \in Seq(Names) /\ Append(r, l) # << >>
  BY AppendProperties
<1>2. ASSUME r # << >>
      PROVE  /\ Head(Append(r, l)) = Head(r)
             /\ Tail(Append(r, l)) = Append(Tail(r), l) /\ Tail(Append(r, l)) # << >>
  <2> DEFINE a == Tail(Append(r, l))
             b == Append(Tail(r), l)
  <2>1. Len(r) \in Nat \ {0} /\ Tail(r) \in Seq(Names) /\ Len(Tail(r)) = Len(r) - 1
    BY <1>2
  <2>2. Head(Append(r, l)) = Head(r)
    BY <1>2, <2>1
  <2>3. /\ a \in Seq(Names) /\ Len(a) = Len(r)
        /\ \A i \in 1..Len(r) : a[i] = Append(r, l)[i + 1]
    BY <1>1, <2>1
  <2>4. /\ b \in Seq(Names) /\ Len(b) = Len(r)
        /\ \A i \in 1..Len(r) : b[i] = IF i < Len(r) THEN r[i + 1] ELSE l
    <3>1. /\ b \in Seq(Names) /\ Len(b) = Len(Tail(r)) + 1
          /\ \A i \in 1..Len(Tail(r)) : b[i] = Tail(r)[i]
          /\ b[Len(Tail(r)) + 1] = l
      BY <2>1, AppendProperties
    <3>2. \A i \in 1..Len(Tail(r)) : Tail(r)[i] = r[i + 1]
      BY <1>2, HeadTailProperties
    <3> HIDE DEF b
    <3> QED
      BY <2>1, <3>1, <3>2
  <2>5. \A i \in 1..Len(r) : Append(r, l)[i + 1] = IF i < Len(r) THEN r[i + 1] ELSE l
    BY <2>1
  <2> HIDE DEF a, b
  <2>6. a = b
    BY <2>3, <2>4, <2>5, SeqEqual
  <2>7. a # << >>
    BY <2>1, <2>3
  <2> QED
    BY <2>2, <2>6, <2>7 DEF a, b
<1>3. ASSUME NEW s \in Seq(Names) PROVE s \o Append(r, l) = Append(s \o r, l)
  BY <1>1, AppendIsConcat, ConcatAssociative
<1> QED
  BY <1>1, <1>2, <1>3

\* A walk along a path is a walk along its front, with one name more, as long as
\* that one does not end; where it ends at a file, the longer one is stuck.
Ahead(t, g, h, l, n) ==
    \/ h[n] = Longer(g[n], l)
    \/ ~h[n].ok /\ g[n].ok /\ g[n].rest = << >> /\ t[g[n].at] # Dir
    \/ /\ g[n].ok /\ g[n].rest = << >>
       /\ \E m \in 0..n : h[m] = Longer(g[n], l)

LEMMA VisitLonger ==
  ASSUME NEW t, TreeOK(t), NEW w \in OnTheWay(t), NEW l \in Names,
         w.ok, w.rest # << >>, Longer(w, l) \in OnTheWay(t)
  PROVE  \/ Visit(t)[Longer(w, l)] = Longer(Visit(t)[w], l)
         \/ /\ ~Visit(t)[Longer(w, l)].ok /\ Visit(t)[w].ok
            /\ Visit(t)[w].rest = << >> /\ t[Visit(t)[w].at] # Dir
<1> DEFINE v == Longer(w, l)
<1>1. w \in Walks /\ v \in Walks /\ w.rest \in Seq(Names) /\ w.ok = TRUE
  BY WalkParts DEF OnTheWay
<1>2. v.at = w.at /\ v.ok = TRUE /\ v.links = w.links /\ v.rest = Append(w.rest, l)
  BY <1>1 DEF Longer
<1>3. /\ v.rest # << >> /\ Head(v.rest) = Head(w.rest)
      /\ Tail(v.rest) = Append(Tail(w.rest), l) /\ Tail(v.rest) # << >>
      /\ Tail(w.rest) \in Seq(Names)
  BY <1>1, <1>2, LongerRest
<1> HIDE DEF v
<1>4. Here(v) = Here(w) /\ Met(t, v) = Met(t, w)
  BY <1>2, <1>3 DEF Here, Met
<1>5. CASE Met(t, w).kind = "link" /\ w.links > 0
  <2>1. Met(t, w) # Dir /\ Met(t, w).kind # "file"
    BY <1>5 DEF Dir
  <2>2. Visit(t)[w] = Through(t, w) /\ Visit(t)[v] = Through(t, v)
    BY <1>1, <1>2, <1>3, <1>4, <1>5, <2>1, VisitForms
  <2>3. Met(t, w).to.names \in Seq(Names)
    BY <1>5, Entries, PathsAreShort DEF Met, None, Arg
  <2>4. Met(t, w).to.names \o Append(Tail(w.rest), l)
          = Append(Met(t, w).to.names \o Tail(w.rest), l)
    BY <1>3, <2>3, LongerRest
  <2>5. Through(t, v) = Longer(Through(t, w), l)
    BY <1>2, <1>3, <1>4, <2>4 DEF Through, Longer
  <2> QED
    BY <2>2, <2>5 DEF v
<1>6. CASE Met(t, w) = Dir
  <2>1. Met(t, w).kind # "link"
    BY <1>6 DEF Dir
  <2>2. Visit(t)[w] = Onto(w) /\ Visit(t)[v] = Onto(v)
    BY <1>1, <1>2, <1>3, <1>4, <1>6, <2>1, VisitForms
  <2>3. Onto(v) = Longer(Onto(w), l)
    BY <1>2, <1>3, <1>4 DEF Onto, Longer
  <2> QED
    BY <2>2, <2>3 DEF v
<1>7. CASE Met(t, w).kind = "file" /\ Tail(w.rest) = << >>
  <2>1. Met(t, w) # Dir /\ Met(t, w).kind # "link"
    BY <1>7 DEF Dir
  <2>2. Visit(t)[w] = Onto(w) /\ Visit(t)[v] = Stuck(v)
    BY <1>1, <1>2, <1>3, <1>4, <1>7, <2>1, VisitEnds
  <2>3. Here(w) \in Paths /\ t[Here(w)] # Dir
    BY <1>7, <2>1 DEF Met, None
  <2> QED
    BY <1>7, <2>2, <2>3 DEF v, Onto, Stuck
<1>8. CASE /\ ~(Met(t, w).kind = "link" /\ w.links > 0)
           /\ Met(t, w) # Dir /\ ~(Met(t, w).kind = "file" /\ Tail(w.rest) = << >>)
  <2>1. Visit(t)[w] = Stuck(w) /\ Visit(t)[v] = Stuck(v)
    BY <1>1, <1>2, <1>3, <1>4, <1>8, VisitForms
  <2>2. Stuck(v) = Longer(Stuck(w), l)
    BY <1>2 DEF Stuck, Longer
  <2> QED
    BY <2>1, <2>2 DEF v
<1> QED
  BY <1>5, <1>6, <1>7, <1>8

LEMMA WalkAhead ==
  ASSUME NEW t, TreeOK(t), NEW p \in Seq(Names), p # Root,
         NEW g, Stepped(g, t, Front(p)), NEW h, Stepped(h, t, p)
  PROVE  \A n \in 0..Limit(Front(p)) : Ahead(t, g, h, Last(p), n)
<1> DEFINE F == Front(p)
           l == Last(p)
           L == Limit(F)
           T == {n \in Nat : n <= L => Ahead(t, g, h, l, n)}
<1>1. /\ F \in Seq(Names) /\ l \in Names /\ p = Append(F, l)
      /\ L \in Nat /\ Limit(p) \in Nat /\ L + 1 = Limit(p)
  <2>1. F \in Seq(Names) /\ l \in Names /\ p = Append(F, l)
        /\ Len(p) \in Nat /\ Len(F) = Len(p) - 1
    BY FrontAndLast
  <2>2. /\ L \in Nat /\ L = Len(F) + MaxLinks * MaxDepth
        /\ Limit(p) \in Nat /\ Limit(p) = Len(p) + MaxLinks * MaxDepth
    BY <2>1, LimitIsNat
  <2> DEFINE k == MaxLinks * MaxDepth
  <2>3. k \in Nat
    BY RemoteTreeAssumption
  <2> HIDE DEF k, L, F
  <2> QED
    BY <2>1, <2>2, <2>3 DEF k
<1>2. ASSUME NEW n \in Nat, n <= L
      PROVE  /\ n \in 0..L /\ n \in 0..Limit(p)
             /\ g[n] \in OnTheWay(t) /\ h[n] \in OnTheWay(t)
             /\ g[n] \in Walks /\ h[n] \in Walks
  <2>1. n \in 0..L /\ n \in 0..Limit(p)
    <3> HIDE DEF L
    <3> QED
      BY <1>1, <1>2
  <2>2. g[n] \in OnTheWay(t) /\ h[n] \in OnTheWay(t)
    BY <2>1 DEF Stepped
  <2> QED
    BY <2>1, <2>2 DEF OnTheWay
<1>3. 0 \in T
  <2>1. g[0] = Start(F) /\ h[0] = Start(p)
    BY DEF Stepped
  <2>2. Start(p) = Longer(Start(F), l)
    BY <1>1 DEF Start, Longer
  <2> QED
    BY <2>1, <2>2 DEF Ahead
<1>4. ASSUME NEW n \in Nat, n \in T, n + 1 <= L
      PROVE  Ahead(t, g, h, l, n + 1)
  <2>1. n <= L /\ n + 1 \in 1..L /\ n + 1 \in 1..Limit(p) /\ (n + 1) - 1 = n /\ n + 1 \in Nat
    <3> HIDE DEF L
    <3> QED
      BY <1>1, <1>4
  <2>2. Ahead(t, g, h, l, n)
    BY <1>4, <2>1
  <2>3. g[n + 1] = Visit(t)[g[n]] /\ h[n + 1] = Visit(t)[h[n]]
    BY <2>1 DEF Stepped
  <2>4. /\ g[n] \in OnTheWay(t) /\ h[n] \in OnTheWay(t)
        /\ g[n] \in Walks /\ h[n] \in Walks /\ g[n].rest \in Seq(Names)
    BY <1>2, <2>1, WalkParts
  <2>5. CASE g[n].ok /\ g[n].rest = << >>
    <3>1. g[n + 1] = g[n]
      BY <2>3, <2>4, <2>5, VisitRests
    <3>2. CASE h[n] = Longer(g[n], l)
      <4>1. n \in 0..n + 1
        OBVIOUS
      <4> QED
        BY <2>5, <3>1, <3>2, <4>1 DEF Ahead
    <3>3. CASE ~h[n].ok /\ t[g[n].at] # Dir
      <4>1. h[n + 1] = h[n]
        BY <2>3, <2>4, <3>3, VisitRests
      <4> QED
        BY <2>5, <3>1, <3>3, <4>1 DEF Ahead
    <3>4. CASE \E m \in 0..n : h[m] = Longer(g[n], l)
      <4>1. PICK m \in 0..n : h[m] = Longer(g[n], l)
        BY <3>4
      <4>2. m \in 0..n + 1
        OBVIOUS
      <4> QED
        BY <2>5, <3>1, <4>1, <4>2 DEF Ahead
    <3> QED
      BY <2>2, <3>2, <3>3, <3>4 DEF Ahead
  <2>6. CASE ~g[n].ok
    <3>1. h[n] = Longer(g[n], l)
      BY <2>2, <2>6 DEF Ahead
    <3>2. ~h[n].ok
      BY <2>6, <3>1 DEF Longer
    <3> QED
      BY <2>3, <2>4, <2>6, <3>1, <3>2, VisitRests DEF Ahead
  <2>7. CASE g[n].ok /\ g[n].rest # << >>
    <3>1. h[n] = Longer(g[n], l)
      BY <2>2, <2>7 DEF Ahead
    <3>2. Longer(g[n], l) \in OnTheWay(t)
      BY <2>4, <3>1
    <3>3. \/ Visit(t)[Longer(g[n], l)] = Longer(Visit(t)[g[n]], l)
          \/ /\ ~Visit(t)[Longer(g[n], l)].ok /\ Visit(t)[g[n]].ok
             /\ Visit(t)[g[n]].rest = << >> /\ t[Visit(t)[g[n]].at] # Dir
      BY <1>1, <2>4, <2>7, <3>2, VisitLonger
    <3> QED
      BY <2>3, <3>1, <3>3 DEF Ahead
  <2> QED
    BY <2>5, <2>6, <2>7
<1>5. \A n \in Nat : n \in T => n + 1 \in T
  BY <1>4
<1>6. Nat \subseteq T
  <2> HIDE DEF T
  <2> QED
    BY <1>3, <1>5, SetInduction
<1>7. ASSUME NEW n \in 0..L PROVE Ahead(t, g, h, l, n)
  <2>1. n \in Nat /\ n <= L
    <3> HIDE DEF L
    <3> QED
      BY <1>1
  <2> QED
    BY <1>6, <2>1
<1> QED
  BY <1>7

\* What exists is an entry, and an entry that is a directory or a file is where its
\* path leads.
LEMMA LastName ==
  ASSUME NEW t, TreeOK(t), NEW p \in Seq(Names), p # Root
  PROVE  /\ Walk(t, p).ok => HasPlace(t, p) /\ t[Place(t, p)] # None
         /\ HasPlace(t, p) /\ (t[Place(t, p)] = Dir \/ t[Place(t, p)].kind = "file")
              => TestE(t, p) /\ Real(t, p) = Place(t, p)
<1> DEFINE F == Front(p)
           l == Last(p)
           L == Limit(F)
<1>1. F \in Seq(Names) /\ l \in Names /\ L \in Nat /\ Limit(p) = L + 1 /\ Limit(p) \in Nat
  <2>1. F \in Seq(Names) /\ l \in Names /\ Len(p) \in Nat /\ Len(F) = Len(p) - 1
    BY FrontAndLast
  <2>2. /\ L \in Nat /\ L = Len(F) + MaxLinks * MaxDepth
        /\ Limit(p) \in Nat /\ Limit(p) = Len(p) + MaxLinks * MaxDepth
    BY <2>1, LimitIsNat
  <2> DEFINE k == MaxLinks * MaxDepth
  <2>3. k \in Nat
    BY RemoteTreeAssumption
  <2> HIDE DEF k, L, F
  <2> QED
    BY <2>1, <2>2, <2>3 DEF k
<1>2. PICK g : Stepped(g, t, F)
  BY <1>1, WalkSteps
<1>3. PICK h : Stepped(h, t, p)
  BY WalkSteps
<1> HIDE DEF L
<1>4. L \in 0..L /\ L \in 0..Limit(p)
  BY <1>1
<1>5. Ahead(t, g, h, l, L)
  BY <1>2, <1>3, <1>4, WalkAhead DEF L
<1>6. g[L] = Walk(t, F) /\ g[L] \in Walks /\ h[L] \in Walks /\ h[L] \in OnTheWay(t)
  BY <1>2, <1>3, <1>4 DEF Stepped, OnTheWay, L
<1>7. ~g[L].ok \/ g[L].rest = << >>
  BY <1>1, <1>6, WalkSettles
<1>8. ASSUME ~TestD(t, F) PROVE ~Walk(t, p).ok
  <2>1. ~(g[L].ok /\ g[L].rest = << >> /\ t[g[L].at] = Dir)
    BY <1>6, <1>8 DEF TestD, TestE, Real
  <2>2. ASSUME NEW m \in 0..L, h[m] = Longer(g[L], l), g[L].ok PROVE FALSE
    <3>1. m \in 0..Limit(p)
      BY <1>1
    <3>2. h[m] \in OnTheWay(t) /\ h[m].rest # << >> /\ h[m].at = g[L].at
      BY <1>3, <1>6, <1>7, <2>2, <3>1, LongerRest, <1>1, SMTT(60) DEF Stepped, Longer
    <3> QED
      BY <1>7, <2>1, <2>2, <3>2 DEF OnTheWay
  <2>3. ~h[L].ok
    <3>1. Longer(g[L], l).ok = g[L].ok
      BY DEF Longer
    <3> QED
      BY <1>4, <1>5, <2>2, <3>1 DEF Ahead
  <2> QED
    BY <1>3, <1>4, <2>3, SettledForGood
<1>9. ASSUME TestD(t, F)
      PROVE  \E m \in 0..L : h[m] = [at |-> Real(t, F), rest |-> <<l>>, ok |-> TRUE,
                                     links |-> g[L].links]
  <2>1. g[L].ok = TRUE /\ g[L].rest = << >> /\ t[g[L].at] = Dir /\ g[L].at = Real(t, F)
    BY <1>6, <1>9, WalkParts DEF TestD, TestE, Real
  <2>2. Append(<< >>, l) = <<l>>
    OBVIOUS
  <2>3. Longer(g[L], l) = [at |-> Real(t, F), rest |-> <<l>>, ok |-> TRUE,
                           links |-> g[L].links]
    BY <2>1, <2>2 DEF Longer
  <2> QED
    BY <1>4, <1>5, <2>1, <2>3 DEF Ahead
<1>10. ASSUME TestD(t, F)
       PROVE  /\ Walk(t, p).ok => HasPlace(t, p) /\ t[Place(t, p)] # None
              /\ HasPlace(t, p) /\ (t[Place(t, p)] = Dir \/ t[Place(t, p)].kind = "file")
                   => TestE(t, p) /\ Real(t, p) = Place(t, p)
  <2>1. PICK m \in 0..L : h[m] = [at |-> Real(t, F), rest |-> <<l>>, ok |-> TRUE,
                                  links |-> g[L].links]
    BY <1>9, <1>10
  <2> DEFINE w == h[m]
             v == h[m + 1]
  <2>2. m \in 0..Limit(p) /\ m + 1 \in 0..Limit(p) /\ m + 1 \in 1..Limit(p) /\ (m + 1) - 1 = m
    BY <1>1
  <2>3. w \in Walks /\ v \in Walks /\ v = Visit(t)[w]
    BY <1>3, <2>2 DEF Stepped, OnTheWay
  <2>4. w.ok /\ w.rest # << >> /\ Head(w.rest) = l /\ Tail(w.rest) = << >>
        /\ w.at = Real(t, F)
    BY <2>1
  <2>5. Here(w) = Place(t, p)
    BY <2>4 DEF Here, Place
  <2> HIDE DEF w
  <2>6. ASSUME ~(HasPlace(t, p) /\ t[Place(t, p)] # None) PROVE ~Walk(t, p).ok
    <3>1. Met(t, w) = None
      BY <1>10, <2>5, <2>6 DEF Met, HasPlace, Place
    <3>2. v = Stuck(w)
      BY <2>3, <2>4, <3>1, VisitNothing
    <3>3. ~v.ok
      BY <3>2 DEF Stuck
    <3> QED
      BY <1>3, <2>2, <3>3, SettledForGood
  <2>7. ASSUME HasPlace(t, p), t[Place(t, p)] = Dir \/ t[Place(t, p)].kind = "file"
        PROVE  TestE(t, p) /\ Real(t, p) = Place(t, p)
    <3>1. Met(t, w) = t[Place(t, p)]
      BY <2>5, <2>7 DEF Met, HasPlace, Place
    <3>2. Met(t, w).kind # "link"
      BY <2>7, <3>1 DEF Dir
    <3>3. v = Onto(w)
      BY <2>3, <2>4, <2>7, <3>1, <3>2, VisitForms
    <3>4. v.ok /\ v.rest = << >> /\ v.at = Place(t, p)
      BY <2>4, <2>5, <3>3 DEF Onto
    <3>5. Walk(t, p) = v
      BY <1>3, <2>2, <3>4, SettledForGood
    <3> QED
      BY <3>4, <3>5 DEF TestE, Real
  <2> QED
    BY <2>6, <2>7
<1> QED
  BY <1>8, <1>10 DEF HasPlace

\* Where a path leads, its entry is in the end.
LEMMA PathExists ==
  ASSUME NEW t, TreeOK(t), NEW p \in Seq(Names), TestE(t, p)
  PROVE  Entry(t, p) # None
<1>1. CASE p = Root
  BY <1>1 DEF Entry, None, Dir
<1>2. CASE p # Root
  BY <1>2, LastName DEF TestE, Entry
<1> QED
  BY <1>1, <1>2

\* A place a path names in t it names in u, which has all that t has.
LEMMA PlaceStays ==
  ASSUME NEW t, TreeOK(t), NEW u, TreeOK(u), Extends(t, u),
         NEW p \in Seq(Names), HasPlace(t, p)
  PROVE  HasPlace(u, p) /\ Place(u, p) = Place(t, p) /\ Entry(u, p) = u[Place(t, p)]
<1>1. Front(p) \in Seq(Names) /\ p # Root
  BY FrontAndLast DEF HasPlace
<1>2. Walk(u, Front(p)) = Walk(t, Front(p))
  BY <1>1, WalksAgree DEF HasPlace, TestD, TestE
<1>3. TestE(u, Front(p)) /\ Real(u, Front(p)) = Real(t, Front(p))
  BY <1>2 DEF HasPlace, TestD, TestE, Real
<1>4. u[Real(t, Front(p))] = Dir
  <2>1. Real(t, Front(p)) \in Paths /\ t[Real(t, Front(p))] = Dir
    BY <1>1, WhereItLeads DEF HasPlace, TestD
  <2> QED
    BY <2>1 DEF Extends, None, Dir
<1> QED
  BY <1>1, <1>3, <1>4 DEF HasPlace, TestD, Place, Entry

\* A directory stays one too.
LEMMA DirectoryStays ==
  ASSUME NEW t, TreeOK(t), NEW u, TreeOK(u), Extends(t, u),
         NEW p \in Seq(Names), TestD(t, p)
  PROVE  TestD(u, p)
<1>1. Walk(u, p) = Walk(t, p)
  BY WalksAgree DEF TestD, TestE
<1>2. Real(t, p) \in Paths /\ t[Real(t, p)] = Dir
  BY WhereItLeads DEF TestD
<1>3. u[Real(t, p)] = Dir
  BY <1>2 DEF Extends, None, Dir
<1> QED
  BY <1>1, <1>3 DEF TestD, TestE, Real

\* What becomes of one entry when it is made or taken.
LEMMA PutExtends ==
  ASSUME NEW t, TreeOK(t), NEW e \in Paths, NEW n
  PROVE  /\ t[e] = None => Extends(t, Put(t, e, n))
         /\ Put(t, e, None)[e] = None /\ Extends(Put(t, e, None), t)
         /\ Put(t, e, n)[e] = n
<1>1. DOMAIN t = Paths
  BY DEF TreeOK
<1>2. ASSUME NEW m PROVE Put(t, e, m)[e] = m /\ \A q \in Paths : q # e => Put(t, e, m)[q] = t[q]
  BY <1>1 DEF Put
<1> QED
  BY <1>2 DEF Extends

\* u has lost the entry p names in t: then p names none in u.
LEMMA EntryFades ==
  ASSUME NEW t, TreeOK(t), NEW u, TreeOK(u), Extends(u, t), NEW p \in Seq(Names),
         HasPlace(t, p), u[Place(t, p)] = None
  PROVE  Entry(u, p) = None
<1> SUFFICES ASSUME HasPlace(u, p) PROVE u[Place(u, p)] = None
  BY EntryAtPlace DEF HasPlace
<1>1. Place(t, p) = Place(u, p)
  BY PlaceStays
<1> QED
  BY <1>1

\* mkdir that succeeds leaves a directory.
LEMMA MkDirDone ==
  ASSUME NEW t, TreeOK(t), NEW p \in Seq(Names), NEW o \in MkDir(t, p), o.rc = "0"
  PROVE  TestD(o.tree, p)
<1> DEFINE e == Place(t, p)
           u == Put(t, e, Dir)
<1>1. HasPlace(t, p) /\ Entry(t, p) = None /\ o.tree = u
  BY DEF MkDir, MayDo, Done, Refused, Put
<1>2. e \in Paths /\ t[e] = None /\ p # Root
  BY <1>1, EntryAtPlace DEF Slot
<1>3. TreeOK(u)
  BY <1>1, MkDirKeeps DEF Kept
<1>4. Extends(t, u) /\ u[e] = Dir
  BY <1>2, PutExtends
<1> HIDE DEF u, e
<1>5. HasPlace(u, p) /\ Place(u, p) = e
  BY <1>1, <1>3, <1>4, PlaceStays DEF e
<1>6. TestE(u, p) /\ Real(u, p) = e
  BY <1>2, <1>3, <1>4, <1>5, LastName
<1> QED
  BY <1>1, <1>4, <1>6 DEF TestD

\* SSH_FXP_SYMLINK that succeeds leaves the link.
LEMMA SymlinkAtDone ==
  ASSUME NEW t, TreeOK(t), NEW to \in Arg, NEW p \in Seq(Names),
         NEW o \in SymlinkAt(t, to, p), o.rc = "0"
  PROVE  Entry(o.tree, p) = Link(to)
<1> DEFINE e == Place(t, p)
           u == Put(t, e, Link(to))
<1>1. HasPlace(t, p) /\ Entry(t, p) = None /\ o.tree = u
  BY DEF SymlinkAt, MayDo, Done, Refused, Put
<1>2. e \in Paths /\ t[e] = None /\ p # Root
  BY <1>1, EntryAtPlace DEF Slot
<1>3. TreeOK(u)
  BY <1>1, SymlinkAtKeeps DEF Kept
<1>4. Extends(t, u) /\ u[e] = Link(to)
  BY <1>2, PutExtends
<1> QED
  BY <1>1, <1>3, <1>4, PlaceStays

\* rm -f, rmdir and SSH_FXP_REMOVE that succeed leave no entry.
LEMMA RemoveDone ==
  ASSUME NEW t, TreeOK(t), NEW p \in Seq(Names),
         NEW o \in RmF(t, p) \cup RmDir(t, p) \cup Unlink(t, p), o.rc = "0"
  PROVE  Entry(o.tree, p) = None
<1>1. \/ o.tree = t /\ Entry(t, p) = None
      \/ HasPlace(t, p) /\ o.tree = Put(t, Place(t, p), None)
  <2>1. CASE o \in RmF(t, p)
    <3>1. CASE Entry(t, p) = None
      BY <2>1, <3>1 DEF RmF, Done
    <3>2. CASE Entry(t, p) # None
      <4>1. o \in MayDo(t, Entry(t, p) # Dir, Put(t, Place(t, p), None))
        BY <2>1, <3>2 DEF RmF, Put
      <4>2. Entry(t, p) # Dir /\ o.tree = Put(t, Place(t, p), None)
        BY <4>1 DEF MayDo, Done, Refused
      <4> QED
        BY <3>2, <4>2, EntryAtPlace
    <3> QED
      BY <3>1, <3>2
  <2>2. CASE o \in RmDir(t, p)
    BY <2>2 DEF RmDir, MayDo, Done, Refused, Put
  <2>3. CASE o \in Unlink(t, p)
    <3>1. Entry(t, p) \notin {None, Dir} /\ o.tree = Put(t, Place(t, p), None)
      BY <2>3 DEF Unlink, MayDo, Done, Refused, Put
    <3> QED
      BY <3>1, EntryAtPlace
  <2> QED
    BY <2>1, <2>2, <2>3
<1>2. TreeOK(o.tree)
  BY RmFKeeps, RmDirKeeps, UnlinkKeeps DEF Kept
<1>3. CASE HasPlace(t, p) /\ o.tree = Put(t, Place(t, p), None)
  <2> DEFINE e == Place(t, p)
             u == Put(t, e, None)
  <2>1. e \in Paths
    BY <1>3, EntryAtPlace DEF Slot
  <2>2. Extends(u, t) /\ u[e] = None
    BY <2>1, PutExtends
  <2> HIDE DEF u
  <2>3. o.tree = u
    BY <1>3 DEF u
  <2> QED
    BY <1>2, <1>3, <2>2, <2>3, EntryFades
<1> QED
  BY <1>1, <1>3

\* rm -rf too.
LEMMA RmRFDone ==
  ASSUME NEW t, TreeOK(t), NEW p \in Seq(Names), NEW o \in RmRF(t, p), o.rc = "0"
  PROVE  Entry(o.tree, p) = None
<1>1. CASE Entry(t, p) = None
  BY <1>1 DEF RmRF, Done
<1>2. CASE Entry(t, p) # None
  <2> DEFINE e == Place(t, p)
             u == Without(t, Below(t, e))
  <2>1. p # Root /\ o.tree = u
    BY <1>2 DEF RmRF, Done, Refused
  <2>2. HasPlace(t, p) /\ e \in Paths /\ e \in Seq(Names) /\ t[e] # None
    BY <1>2, <2>1, EntryAtPlace DEF Slot
  <2>3. e \in Below(t, e)
    BY <2>2, PrefixOrder DEF Below
  <2>4. Extends(u, t) /\ u[e] = None
    BY <2>2, <2>3 DEF Extends, Without
  <2> HIDE DEF u
  <2>5. TreeOK(u)
    BY <2>1, RmRFKeeps DEF Kept
  <2> QED
    BY <2>1, <2>2, <2>4, <2>5, EntryFades
<1> QED
  BY <1>1, <1>2

\* A file opened for writing is where its path leads.
LEMMA OpenCreatDone ==
  ASSUME NEW t, TreeOK(t), NEW p \in Seq(Names), NEW data, NEW truncate \in BOOLEAN,
         NEW o \in OpenCreat(t, p, data, truncate), o.rc = "0"
  PROVE  TestE(o.tree, p) /\ (truncate = FALSE => Extends(t, o.tree))
<1>0. TreeOK(o.tree)
  BY OpenCreatKeeps DEF Kept
<1>1. CASE TestE(t, p) /\ truncate = FALSE
  BY <1>1 DEF OpenCreat, MayDo, Done, Refused, Extends
<1>2. CASE TestE(t, p) /\ truncate = TRUE
  <2> DEFINE e == Real(t, p)
  <2>1. ~TestD(t, p) /\ o.tree = Put(t, e, File(data))
    BY <1>2 DEF OpenCreat, MayDo, Done, Refused, Put
  <2>2. e \in Paths /\ t[e].kind = "file"
    <3>1. e \in Paths /\ t[e].kind \in {"dir", "file"} /\ t[e] # Dir
      BY <1>2, <2>1, WhereItLeads DEF TestD
    <3> QED
      BY <3>1, Entries
  <2> HIDE DEF e
  <2> QED
    BY <1>0, <1>2, <2>1, <2>2, EmptiedIsThere
<1>3. CASE ~TestE(t, p)
  <2> DEFINE e == Landing(t, p)
  <2>1. e \in Paths \ {Root} /\ t[e] = None /\ o.tree = Put(t, e, File(data))
    <3>1. o \in MayDo(t, e \in Paths \ {Root} /\ t[e] = None, Put(t, e, File(data)))
      BY <1>3 DEF OpenCreat, Put
    <3> HIDE DEF e
    <3> QED
      BY <3>1 DEF MayDo, Done, Refused
  <2> HIDE DEF e
  <2>2. TestE(o.tree, p)
    BY <1>0, <2>1, CreatedIsThere DEF e
  <2>3. Extends(t, o.tree)
    BY <2>1, PutExtends
  <2> QED
    BY <2>2, <2>3
<1> QED
  BY <1>1, <1>2, <1>3

\* scp -t that succeeds leaves a file, or the directory that has it.
LEMMA ScpTDone ==
  ASSUME NEW t, TreeOK(t), NEW p \in Seq(Names), NEW data, NEW o \in ScpT(t, p, data),
         o.rc = "0"
  PROVE  TestE(o.tree, p)
<1>1. p # Root
  <2>1. Refused(t).rc # "0"
    BY DEF Refused
  <2>2. p = Root => o = Refused(t)
    BY DEF ScpT
  <2> QED
    BY <2>1, <2>2
<1>2. PICK truncate \in BOOLEAN :
         truncate = FALSE /\ o \in OpenCreat(t, Opened(t, p), data, truncate)
  BY <1>1 DEF ScpT, Opened
<1>3. Opened(t, p) \in Seq(Names)
  BY <1>1, OpenedPath
<1>4. TestE(o.tree, Opened(t, p)) /\ Extends(t, o.tree)
  BY <1>2, <1>3, OpenCreatDone
<1>5. TreeOK(o.tree)
  BY ScpTKeeps DEF Kept
<1>6. CASE TestD(t, p)
  BY <1>4, <1>5, <1>6, DirectoryStays DEF TestD
<1>7. CASE ~TestD(t, p)
  BY <1>4, <1>7 DEF Opened
<1> QED
  BY <1>6, <1>7

\* cp -rf that succeeds leaves an entry where it is told.
LEMMA CpRFDone ==
  ASSUME NEW t, TreeOK(t), NEW s \in Seq(Names), NEW d \in Seq(Names),
         NEW o \in CpRF(t, s, d), o.rc = "0"
  PROVE  Entry(o.tree, d) # None
<1> DEFINE none == s = Root \/ Entry(t, s) = None \/ ~HasGoal(t, d, Last(s))
           e == Place(t, s)
           direct == Goal(t, d, Last(s))
           goal == IF t[direct].kind = "link" /\ TestE(t, direct)
                     THEN Real(t, direct) ELSE direct
           all == Below(t, e)
           u == o.tree
<1>0. TreeOK(u)
  BY CpRFKeeps DEF Kept
<1>1. ~none /\ Fits(t, e, goal)
  BY DEF CpRF, Refused
<1>2. e \in Paths /\ e \in Seq(Names) /\ t[e] # None /\ Last(s) \in Names
  BY <1>1, EntryAtPlace, FrontAndLast DEF Slot
<1>3. Slot(t, direct) /\ direct \in Seq(Names)
  BY <1>1, <1>2, GoalIsSlot
<1>4. Extends(t, u)
  <2>1. CASE u = t
    BY <2>1 DEF Extends
  <2>2. CASE u # t
    <3>1. \A q \in Gone(t, u) : t[q].kind = "file" /\ u[q].kind = "file"
      BY <2>2, CpRFMakes
    <3> HIDE DEF u
    <3> QED
      BY <3>1 DEF Gone, Extends
  <2> QED
    BY <2>1, <2>2
<1>5. CASE TestD(t, d)
  <2>1. TestD(u, d)
    BY <1>0, <1>4, <1>5, DirectoryStays
  <2> QED
    BY <1>0, <2>1, PathExists DEF TestD
<1>6. CASE ~TestD(t, d)
  <2>1. HasPlace(t, d) /\ direct = Place(t, d)
    BY <1>1, <1>6 DEF HasGoal, Goal
  <2>2. Entry(u, d) = u[direct]
    BY <1>0, <1>4, <2>1, PlaceStays
  <2>3. CASE t[direct].kind = "link"
    <3>1. direct \in Paths /\ t[direct] # None
      BY <1>3, <2>3 DEF Slot, None
    <3>2. u[direct] = t[direct]
      BY <1>4, <2>3, <3>1 DEF Extends
    <3> QED
      BY <2>2, <3>1, <3>2
  <2>4. CASE t[direct].kind # "link"
    <3>1. goal = direct
      BY <2>4
    <3>2. u = Overlay(t, e, direct, all)
      <4>1. o = Done(Overlay(t, e, goal, all)) \/ o.rc = "1"
        BY <1>1 DEF CpRF, Done
      <4>2. o = Done(Overlay(t, e, goal, all))
        BY <4>1
      <4>3. u = Overlay(t, e, goal, all)
        BY <4>2 DEF Done
      <4> QED
        BY <3>1, <4>3
    <3>3. e \in all /\ IsPrefix(e, e)
      BY <1>2, PrefixOrder DEF Below
    <3>4. Image(e, direct, e) = direct /\ direct \in Paths
      BY <1>2, <1>3, <3>3, ImageOfParts DEF Slot
    <3>5. u[direct] = t[e]
      BY <1>2, <1>3, <3>2, <3>3, <3>4, OverlayAt
    <3> QED
      BY <1>2, <2>2, <3>5
  <2> QED
    BY <2>3, <2>4
<1> QED
  BY <1>5, <1>6

\* A renamed entry is at its new place and no more at the old one.
LEMMA ReplaceDone ==
  ASSUME NEW t, TreeOK(t), NEW e, Slot(t, e), t[e] # None, NEW goal, Slot(t, goal),
         NEW o \in Replace(t, e, goal), o.rc = "0"
  PROVE  o.tree[goal] = t[e] /\ o.tree[e] = None
<1> DEFINE possible ==
             /\ ~IsPrefix(e, goal)
             /\ \A r \in Below(t, e) : Image(e, goal, r) \in Paths
             /\ \/ t[goal] = None
                \/ t[e] # Dir /\ t[goal] # Dir
                \/ t[e] = Dir /\ t[goal] = Dir /\ Below(t, goal) = {goal}
           v == o.tree
<1>1. possible /\ v = Moved(t, e, goal)
  <2>1. o \in MayDo(t, possible, Moved(t, e, goal))
    BY DEF Replace, Moved
  <2> HIDE DEF possible
  <2> QED
    BY <2>1 DEF MayDo, Done, Refused
<1>2. /\ e \in Paths /\ goal \in Paths
      /\ e \in Seq(Names) /\ goal \in Seq(Names) /\ IsPrefix(e, e)
  BY PathsAreShort, PrefixOrder DEF Slot
<1>3. e \in Below(t, e) /\ goal \notin Below(t, e)
  BY <1>1, <1>2 DEF Below
<1>4. v[e] = None
  BY <1>1, <1>2, <1>3 DEF Moved
<1>5. Image(e, goal, e) = goal
  BY <1>2, ImageOfParts
<1>6. v # t
  BY <1>4
<1>7. \A r \in Below(t, e) : v[Image(e, goal, r)] = t[r]
  BY <1>6, ReplaceMoves
<1> QED
  BY <1>3, <1>4, <1>5, <1>7

\* mv -f that succeeds has moved the entry.
LEMMA MvFDone ==
  ASSUME NEW t, TreeOK(t), NEW s \in Seq(Names), NEW d \in Seq(Names),
         NEW o \in MvF(t, s, d), o.rc = "0"
  PROVE  /\ s # Root /\ Entry(t, s) # None /\ HasGoal(t, d, Last(s))
         /\ o.tree[Goal(t, d, Last(s))] = t[Place(t, s)]
         /\ o.tree[Place(t, s)] = None
<1>1. ~(s = Root \/ Entry(t, s) = None \/ ~HasGoal(t, d, Last(s)))
  <2>1. Refused(t).rc # "0"
    BY DEF Refused
  <2> QED
    BY <2>1 DEF MvF
<1>2. Slot(t, Place(t, s)) /\ t[Place(t, s)] # None /\ Last(s) \in Names
  BY <1>1, EntryAtPlace, FrontAndLast
<1>3. Slot(t, Goal(t, d, Last(s)))
  BY <1>1, <1>2, GoalIsSlot
<1>4. o \in Replace(t, Place(t, s), Goal(t, d, Last(s)))
  BY <1>1 DEF MvF
<1> QED
  BY <1>1, <1>2, <1>3, <1>4, ReplaceDone

\* And SSH_FXP_RENAME, unless the two are one place.
LEMMA RenameDone ==
  ASSUME NEW t, TreeOK(t), NEW s \in Seq(Names), NEW d \in Seq(Names),
         NEW o \in Rename(t, s, d), o.rc = "0"
  PROVE  /\ s # Root /\ Entry(t, s) # None /\ HasPlace(t, d)
         /\ o.tree[Place(t, d)] = t[Place(t, s)]
         /\ o.tree[Place(t, s)] = None \/ Place(t, s) = Place(t, d)
<1>1. ~(s = Root \/ Entry(t, s) = None \/ ~HasPlace(t, d))
  <2>1. Refused(t).rc # "0"
    BY DEF Refused
  <2>2. s = Root \/ Entry(t, s) = None \/ ~HasPlace(t, d) => o = Refused(t)
    BY DEF Rename
  <2> QED
    BY <2>1, <2>2
<1>2. Slot(t, Place(t, s)) /\ t[Place(t, s)] # None /\ Slot(t, Place(t, d))
  BY <1>1, EntryAtPlace
<1>3. CASE Place(t, s) = Place(t, d)
  <2>1. o \in MayDo(t, TRUE, t)
    BY <1>1, <1>3 DEF Rename
  <2> QED
    BY <1>1, <1>3, <2>1 DEF MayDo, Done, Refused
<1>4. CASE Place(t, s) # Place(t, d)
  <2>1. o \in Replace(t, Place(t, s), Place(t, d))
    BY <1>1, <1>4 DEF Rename
  <2> QED
    BY <1>1, <1>2, <2>1, ReplaceDone
<1> QED
  BY <1>3, <1>4

-----------------------------------------------------------------------------
(* What a command that succeeds has changed.                               *)

\* Something else in one place makes another tree.
LEMMA PutDiffers ==
  ASSUME NEW t, TreeOK(t), NEW e \in Paths, NEW n, t[e] # n
  PROVE  Put(t, e, n) # t
<1>1. Put(t, e, n)[e] = n
  BY PutEffect
<1> QED
  BY <1>1

\* The directory that mkdir makes was not there.
LEMMA MkDirActs ==
  ASSUME NEW t, TreeOK(t), NEW p \in Seq(Names), NEW o \in MkDir(t, p), o.rc = "0"
  PROVE  o.tree # t
<1>1. HasPlace(t, p) /\ Entry(t, p) = None /\ o.tree = Put(t, Place(t, p), Dir)
  BY DEF MkDir, MayDo, Done, Refused, Put
<1>2. Place(t, p) \in Paths /\ t[Place(t, p)] = None
  BY <1>1, EntryAtPlace DEF Slot
<1>3. None # Dir
  BY DEF None, Dir
<1> QED
  BY <1>1, <1>2, <1>3, PutDiffers

\* What rmdir and SSH_FXP_REMOVE take was there.
LEMMA RemoveActs ==
  ASSUME NEW t, TreeOK(t), NEW p \in Seq(Names), NEW o \in RmDir(t, p) \cup Unlink(t, p),
         o.rc = "0"
  PROVE  o.tree # t
<1>1. Entry(t, p) # None /\ HasPlace(t, p) /\ o.tree = Put(t, Place(t, p), None)
  <2>1. CASE o \in RmDir(t, p)
    BY <2>1 DEF RmDir, MayDo, Done, Refused, Put, None, Dir
  <2>2. CASE o \in Unlink(t, p)
    <3>1. Entry(t, p) \notin {None, Dir} /\ o.tree = Put(t, Place(t, p), None)
      BY <2>2 DEF Unlink, MayDo, Done, Refused, Put
    <3> QED
      BY <3>1, EntryAtPlace
  <2> QED
    BY <2>1, <2>2
<1>2. Place(t, p) \in Paths /\ t[Place(t, p)] # None
  BY <1>1, EntryAtPlace DEF Slot
<1> QED
  BY <1>1, <1>2, PutDiffers

\* The link that ln -s or SSH_FXP_SYMLINK makes was not there.
LEMMA LinkActs ==
  ASSUME NEW t, TreeOK(t), NEW p \in Seq(Names), NEW to \in Arg,
         NEW o \in LnS(t, to, p) \cup SymlinkAt(t, to, p), o.rc = "0"
  PROVE  o.tree # t
<1>1. PICK e : \/ o \in LnS(t, to, p) /\ e = Goal(t, p, Last(to.names))
               \/ o \in SymlinkAt(t, to, p) /\ e = Place(t, p)
  OBVIOUS
<1>2. e \in Paths /\ t[e] = None /\ o.tree = Put(t, e, Link(to))
  BY <1>1, LinkIsPut
<1>3. Link(to) # None
  BY DEF Link, None
<1> QED
  BY <1>2, <1>3, PutDiffers

\* What mv -f moves has left its place.
LEMMA MvFActs ==
  ASSUME NEW t, TreeOK(t), NEW s \in Seq(Names), NEW d \in Seq(Names),
         NEW o \in MvF(t, s, d), o.rc = "0"
  PROVE  o.tree # t
<1>1. s # Root /\ Entry(t, s) # None /\ o.tree[Place(t, s)] = None
  BY MvFDone
<1>2. t[Place(t, s)] # None
  BY <1>1, EntryAtPlace
<1> QED
  BY <1>1, <1>2

=============================================================================
