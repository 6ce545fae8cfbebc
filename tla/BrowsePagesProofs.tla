--------------------------- MODULE BrowsePagesProofs ---------------------------
(***************************************************************************)
(* Theorems about BrowsePages, for any namespace, server and bounds: what  *)
(* the pages of a session list, and where they leave the server's cursor.  *)
(***************************************************************************)
EXTENDS BrowsePages, FiniteSetTheorems, SequenceTheorems, TLAPS

USE DEF sessionVars, tokenVars, workVars, serverVars, historyVars

-----------------------------------------------------------------------------
(* Sequences. *)

IsSeq(s) == s \in Seq(ToSet(s))

LEMMA SeqIsSeq == ASSUME NEW S, NEW s \in Seq(S) PROVE IsSeq(s)
<1>1. s \in [1 .. Len(s) -> S] /\ Len(s) \in Nat
  BY LenProperties
<1>2. s \in [1 .. Len(s) -> ToSet(s)]
  BY <1>1 DEF ToSet
<1>3. QED
  BY <1>1, <1>2 DEF IsSeq

LEMMA AppendSeq ==
  ASSUME NEW s, IsSeq(s), NEW e
  PROVE  /\ IsSeq(Append(s, e)) /\ Append(s, e) # <<>>
         /\ Len(s) \in Nat /\ Len(Append(s, e)) = Len(s) + 1
         /\ \A i \in 1 .. Len(s) : Append(s, e)[i] = s[i]
         /\ Append(s, e)[Len(s) + 1] = e
<1> DEFINE S == ToSet(s) \cup {e}
<1>1. s \in Seq(S) /\ e \in S
  BY SeqMonotonic DEF IsSeq
<1>2. Append(s, e) \in Seq(S)
  BY <1>1, AppendProperties
<1>3. Len(s) \in Nat
  BY <1>1, LenProperties
<1>4. /\ Append(s, e) # <<>> /\ Len(Append(s, e)) = Len(s) + 1
      /\ \A i \in 1 .. Len(s) : Append(s, e)[i] = s[i]
      /\ Append(s, e)[Len(s) + 1] = e
  <2> HIDE DEF S
  <2> QED
    BY <1>1, AppendProperties
<1>5. IsSeq(Append(s, e))
  BY <1>2, SeqIsSeq
<1>6. QED
  BY <1>3, <1>4, <1>5

LEMMA NoSeq == IsSeq(<<>>) /\ Len(<<>>) = 0
BY EmptySeq DEF IsSeq

LEMMA SeqElements == ASSUME NEW s, IsSeq(s) PROVE DOMAIN s = 1 .. Len(s) /\ Len(s) \in Nat
BY LenProperties DEF IsSeq

LEMMA SameSeq ==
  ASSUME NEW s, NEW t, IsSeq(s), IsSeq(t), Len(s) = Len(t), \A i \in 1 .. Len(s) : s[i] = t[i]
  PROVE  s = t
<1> DEFINE S == ToSet(s) \cup ToSet(t)
<1>1. s \in Seq(S) /\ t \in Seq(S)
  BY SeqMonotonic DEF IsSeq
<1> HIDE DEF S
<1>2. QED
  BY <1>1, SeqEqual

LEMMA RestSplit ==
  ASSUME NEW names, NEW s \in Seq(names), s # <<>>
  PROVE  /\ Head(s) \in names /\ Head(s) \in ToSet(s) /\ Tail(s) \in Seq(names)
         /\ ToSet(s) = ToSet(Tail(s)) \cup {Head(s)}
         /\ IsInjective(s) => IsInjective(Tail(s)) /\ Head(s) \notin ToSet(Tail(s))
<1>1. /\ Len(s) \in Nat \ {0} /\ Head(s) = s[1] /\ Tail(s) \in Seq(names)
      /\ Len(Tail(s)) = Len(s) - 1
      /\ \A i \in 1 .. Len(Tail(s)) : Tail(s)[i] = s[i + 1]
  BY EmptySeq, HeadTailProperties
<1>2. DOMAIN s = 1 .. Len(s) /\ DOMAIN Tail(s) = 1 .. Len(s) - 1
  BY <1>1, LenProperties
<1>3. \A i \in 1 .. Len(s) : i = 1 \/ (i - 1 \in 1 .. Len(s) - 1 /\ s[i] = Tail(s)[i - 1])
  <2>1. ASSUME NEW i \in 1 .. Len(s), i # 1
        PROVE  i - 1 \in 1 .. Len(s) - 1 /\ s[i] = Tail(s)[i - 1]
    <3>1. i - 1 \in 1 .. Len(s) - 1 /\ (i - 1) + 1 = i
      BY <1>1, <2>1
    <3>2. Tail(s)[i - 1] = s[(i - 1) + 1]
      BY <1>1, <3>1
    <3>3. QED
      BY <3>1, <3>2
  <2>2. QED
    BY <2>1
<1>4. Head(s) \in names /\ Head(s) \in ToSet(s)
  BY <1>1, <1>2 DEF ToSet
<1>5. ToSet(s) = ToSet(Tail(s)) \cup {Head(s)}
  <2>1. ToSet(Tail(s)) \subseteq ToSet(s)
    BY <1>1, <1>2 DEF ToSet
  <2>2. ASSUME NEW i \in 1 .. Len(s) PROVE s[i] \in ToSet(Tail(s)) \cup {Head(s)}
    BY <1>1, <1>2, <1>3 DEF ToSet
  <2>3. ToSet(s) \subseteq ToSet(Tail(s)) \cup {Head(s)}
    BY <1>2, <2>2 DEF ToSet
  <2>4. QED
    BY <1>4, <2>1, <2>3
<1>6. ASSUME IsInjective(s) PROVE IsInjective(Tail(s)) /\ Head(s) \notin ToSet(Tail(s))
  <2>1. \A i, j \in 1 .. Len(s) : s[i] = s[j] => i = j
    BY <1>2, <1>6 DEF IsInjective
  <2>2. \A i, j \in 1 .. Len(s) - 1 : Tail(s)[i] = Tail(s)[j] => i = j
    <3>1. ASSUME NEW i \in 1 .. Len(s) - 1, NEW j \in 1 .. Len(s) - 1, Tail(s)[i] = Tail(s)[j]
          PROVE  i = j
      <4>1. i + 1 \in 1 .. Len(s) /\ j + 1 \in 1 .. Len(s) /\ s[i + 1] = s[j + 1]
        BY <1>1, <3>1
      <4>2. i + 1 = j + 1
        BY <2>1, <4>1
      <4>3. QED
        BY <4>2
    <3>2. QED
      BY <3>1
  <2>3. \A i \in 1 .. Len(s) - 1 : Tail(s)[i] # s[1]
    <3>1. ASSUME NEW i \in 1 .. Len(s) - 1, Tail(s)[i] = s[1] PROVE FALSE
      <4>1. i + 1 \in 1 .. Len(s) /\ 1 \in 1 .. Len(s) /\ s[i + 1] = s[1] /\ i + 1 # 1
        BY <1>1, <3>1
      <4>2. QED
        BY <2>1, <4>1
    <3>2. QED
      BY <3>1
  <2>4. QED
    BY <1>1, <1>2, <2>2, <2>3 DEF IsInjective, ToSet
<1>7. QED
  BY <1>1, <1>4, <1>5, <1>6

LEMMA SameAppend ==
  ASSUME NEW s, NEW t, IsSeq(s), IsSeq(t), NEW d, NEW e, Append(s, d) = Append(t, e)
  PROVE  s = t /\ d = e
<1>1. /\ Len(s) \in Nat /\ Len(Append(s, d)) = Len(s) + 1
      /\ \A i \in 1 .. Len(s) : Append(s, d)[i] = s[i]
      /\ Append(s, d)[Len(s) + 1] = d
  BY AppendSeq
<1>2. /\ Len(t) \in Nat /\ Len(Append(t, e)) = Len(t) + 1
      /\ \A i \in 1 .. Len(t) : Append(t, e)[i] = t[i]
      /\ Append(t, e)[Len(t) + 1] = e
  BY AppendSeq
<1>3. Len(s) = Len(t)
  BY <1>1, <1>2
<1>4. \A i \in 1 .. Len(s) : s[i] = t[i]
  BY <1>1, <1>2, <1>3
<1>5. QED
  BY <1>1, <1>2, <1>3, <1>4, SameSeq

LEMMA ConcatSeq ==
  ASSUME NEW s, NEW t, IsSeq(s), IsSeq(t)
  PROVE  /\ IsSeq(s \o t) /\ Len(s \o t) = Len(s) + Len(t)
         /\ \A i \in 1 .. Len(s) : (s \o t)[i] = s[i]
         /\ \A i \in 1 .. Len(t) : (s \o t)[Len(s) + i] = t[i]
<1> DEFINE S == ToSet(s) \cup ToSet(t)
<1>1. s \in Seq(S) /\ t \in Seq(S)
  BY SeqMonotonic DEF IsSeq
<1>2. s \o t \in Seq(S)
  BY <1>1, ConcatProperties
<1>3. Len(s) \in Nat /\ Len(t) \in Nat
  BY SeqElements
<1>4. /\ Len(s \o t) = Len(s) + Len(t)
      /\ \A i \in 1 .. Len(s) + Len(t) :
           (s \o t)[i] = IF i <= Len(s) THEN s[i] ELSE t[i - Len(s)]
  <2> HIDE DEF S
  <2> QED
    BY <1>1, ConcatProperties
<1>5. IsSeq(s \o t)
  BY <1>2, SeqIsSeq
<1>6. \A i \in 1 .. Len(s) : (s \o t)[i] = s[i]
  BY <1>3, <1>4
<1>7. ASSUME NEW i \in 1 .. Len(t) PROVE (s \o t)[Len(s) + i] = t[i]
  <2>1. Len(s) + i \in 1 .. Len(s) + Len(t) /\ ~(Len(s) + i <= Len(s)) /\ (Len(s) + i) - Len(s) = i
    BY <1>3
  <2>2. QED
    BY <1>4, <2>1
<1>8. QED
  BY <1>4, <1>5, <1>6, <1>7

LEMMA PrefixSeq ==
  ASSUME NEW s, IsSeq(s), NEW l \in 0 .. Len(s)
  PROVE  /\ IsSeq(SubSeq(s, 1, l)) /\ Len(SubSeq(s, 1, l)) = l
         /\ \A i \in 1 .. l : SubSeq(s, 1, l)[i] = s[i]
<1> DEFINE S == ToSet(s)
<1>1. s \in Seq(S) /\ Len(s) \in Nat /\ l \in Nat
  BY SeqElements DEF IsSeq
<1> HIDE DEF S
<1>2. \A i \in 1 .. l : s[i] \in S
  BY <1>1, ElementOfSeq
<1>3. /\ SubSeq(s, 1, l) \in Seq(S) /\ Len(SubSeq(s, 1, l)) = IF 1 <= l THEN l - 1 + 1 ELSE 0
      /\ \A i \in 1 .. l - 1 + 1 : SubSeq(s, 1, l)[i] = s[1 + i - 1]
  BY <1>1, <1>2, SubSeqProperties
<1>4. Len(SubSeq(s, 1, l)) = l /\ \A i \in 1 .. l : SubSeq(s, 1, l)[i] = s[i]
  BY <1>1, <1>3
<1>5. QED
  BY <1>3, <1>4, SeqIsSeq

LEMMA ListOfSet ==
  ASSUME NEW S, IsFiniteSet(S)
  PROVE  /\ SetToSeq(S) \in Seq(S) /\ ToSet(SetToSeq(S)) = S
         /\ IsInjective(SetToSeq(S))
<1> DEFINE n == Cardinality(S)
           f == SetToSeq(S)
<1>1. n \in Nat /\ ExistsBijection(1 .. n, S)
  BY FS_CardinalityType
<1>2. \E g \in [1 .. n -> S] : IsInjective(g)
  BY <1>1 DEF ExistsBijection, Bijection, Injection
<1>3. f \in [1 .. n -> S] /\ IsInjective(f)
  BY <1>2 DEF SetToSeq
<1>4. f \in Surjection(1 .. n, S)
  <2>1. f \in Injection(1 .. n, S)
    BY <1>3 DEF Injection
  <2>2. Cardinality(1 .. n) = n
    <3> HIDE DEF n
    <3>1. n \in Int /\ 1 \in Int
      BY <1>1
    <3>2. Cardinality(1 .. n) = IF 1 > n THEN 0 ELSE n - 1 + 1
      BY <3>1, FS_Interval, Zenon
    <3>3. QED
      BY <1>1, <3>2
  <2>3. Cardinality(1 .. n) = Cardinality(S)
    BY <2>2
  <2> HIDE DEF f, n
  <2>4. QED
    BY <2>1, <2>3, FS_Injection
<1> HIDE DEF f
<1>5. ToSet(f) = S
  BY <1>3, <1>4 DEF ToSet, Surjection
<1>6. f \in Seq(S)
  BY <1>1, <1>3
<1>7. QED
  BY <1>3, <1>5, <1>6 DEF f

LEMMA FiniteImage ==
  ASSUME NEW A, IsFiniteSet(A), NEW f
  PROVE  IsFiniteSet({f[x] : x \in A})
<1> DEFINE g == [x \in A |-> f[x]]
           B == {f[x] : x \in A}
<1>1. g \in Surjection(A, B)
  BY DEF Surjection
<1> HIDE DEF g, B
<1>2. IsFiniteSet(B)
  BY <1>1, FS_Surjection
<1>3. QED
  BY <1>2 DEF B

LEMMA LessWF == IsWellFoundedOn({ss \in Nat \X Nat : ss[1] < ss[2]}, Nat)
BY NatLessThanWellFounded DEF OpToRel

LEMMA LeastNat ==
  ASSUME NEW T, T \subseteq Nat, T # {}
  PROVE  \E x \in T : \A y \in T : x <= y
<1> DEFINE R == {ss \in Nat \X Nat : ss[1] < ss[2]}
<1>1. IsWellFoundedOn(R, Nat)
  BY LessWF
<1>2. \A x, y \in Nat : x < y => <<x, y>> \in R
  OBVIOUS
<1> HIDE DEF R
<1>3. PICK x \in T : \A y \in T : ~(<<y, x>> \in R)
  BY <1>1, WFMin
<1>4. ASSUME NEW y \in T PROVE x <= y
  <2>1. x \in Nat /\ y \in Nat
    OBVIOUS
  <2>2. ~(y < x)
    BY <1>2, <1>3, <2>1
  <2>3. QED
    BY <2>1, <2>2
<1>5. QED
  BY <1>4

-----------------------------------------------------------------------------
(* What two paths share. *)

LEMMA PrefixNames ==
  ASSUME NEW s, IsSeq(s), NEW c, IsSeq(c), IsPrefix(c, s)
  PROVE  Len(c) \in 0 .. Len(s) /\ \A i \in 1 .. Len(c) : c[i] = s[i]
<1>1. Len(c) \in Nat /\ Len(s) \in Nat /\ Len(c) <= Len(s)
      /\ SubSeq(c, 1, Len(c)) = SubSeq(s, 1, Len(c))
  BY SeqElements DEF IsPrefix
<1>2. Len(c) \in 0 .. Len(s) /\ Len(c) \in 0 .. Len(c)
  BY <1>1
<1>3. QED
  BY <1>1, <1>2, PrefixSeq

LEMMA SharedNames ==
  ASSUME NEW s, IsSeq(s), NEW t, IsSeq(t)
  PROVE  LET k == Len(LongestCommonPrefix({s, t}))
         IN /\ k \in Nat /\ k <= Len(s) /\ k <= Len(t)
            /\ \A i \in 1 .. k : s[i] = t[i]
            /\ s = t => k = Len(s)
<1> DEFINE C == CommonPrefixes({s, t})
           L == {n \in Nat : \E c \in C : Len(c) = Len(s) - n}
<1>1. Len(s) \in Nat /\ Len(t) \in Nat
  BY SeqElements
<1>2. ASSUME NEW c \in C
      PROVE  /\ IsSeq(c) /\ Len(c) \in 0 .. Len(s) /\ Len(c) <= Len(t)
             /\ \A i \in 1 .. Len(c) : c[i] = s[i] /\ c[i] = t[i]
  <2>1. PICK x \in {s, t} : c \in Prefixes(x)
    BY DEF CommonPrefixes
  <2>2. IsSeq(c)
    BY <2>1, PrefixSeq DEF Prefixes
  <2>3. IsPrefix(c, s) /\ IsPrefix(c, t)
    BY DEF CommonPrefixes
  <2>4. QED
    BY <2>2, <2>3, PrefixNames
<1>3. ASSUME NEW l \in 0 .. Len(s), l <= Len(t), \A i \in 1 .. l : s[i] = t[i]
      PROVE  SubSeq(s, 1, l) \in C /\ Len(SubSeq(s, 1, l)) = l
  <2> DEFINE c == SubSeq(s, 1, l)
  <2>1. l \in 0 .. Len(t) /\ l \in 0 .. l
    BY <1>1, <1>3
  <2>2. /\ IsSeq(c) /\ Len(c) = l /\ \A i \in 1 .. l : c[i] = s[i]
        /\ IsSeq(SubSeq(t, 1, l)) /\ Len(SubSeq(t, 1, l)) = l
        /\ \A i \in 1 .. l : SubSeq(t, 1, l)[i] = t[i]
    BY <2>1, PrefixSeq
  <2>3. c = SubSeq(t, 1, l)
    BY <1>3, <2>2, SameSeq
  <2> HIDE DEF c
  <2>4. IsSeq(SubSeq(c, 1, l)) /\ Len(SubSeq(c, 1, l)) = l /\ \A i \in 1 .. l : SubSeq(c, 1, l)[i] = c[i]
    BY <2>1, <2>2, PrefixSeq
  <2>5. SubSeq(c, 1, l) = c
    BY <2>2, <2>4, SameSeq
  <2>6. IsPrefix(c, s) /\ IsPrefix(c, t)
    BY <1>1, <1>3, <2>2, <2>3, <2>5 DEF IsPrefix, c
  <2>7. c \in Prefixes(s)
    BY DEF Prefixes, c
  <2>8. QED
    BY <2>2, <2>6, <2>7 DEF CommonPrefixes, c
<1>4. \E c \in C : \A o \in C : Len(o) <= Len(c)
  <2>1. 0 \in 0 .. Len(s) /\ 0 <= Len(t) /\ \A i \in 1 .. 0 : s[i] = t[i]
    BY <1>1
  <2>2. SubSeq(s, 1, 0) \in C /\ Len(SubSeq(s, 1, 0)) = 0
    BY <1>3, <2>1
  <2> HIDE DEF C
  <2>3. L # {}
    <3>1. Len(SubSeq(s, 1, 0)) = Len(s) - Len(s)
      BY <1>1, <2>2
    <3>2. QED
      BY <1>1, <2>2, <3>1
  <2>4. L \subseteq Nat
    OBVIOUS
  <2>5. \A o \in C : Len(s) - Len(o) \in L
    BY <1>1, <1>2
  <2>6. PICK n \in L : \A m \in L : n <= m
    <3> HIDE DEF L
    <3> QED
      BY <2>3, <2>4, LeastNat
  <2>7. PICK c \in C : Len(c) = Len(s) - n
    OBVIOUS
  <2>8. \A o \in C : Len(o) <= Len(c)
    <3>1. ASSUME NEW o \in C PROVE Len(o) <= Len(c)
      <4>1. n <= Len(s) - Len(o)
        BY <2>5, <2>6
      <4>2. QED
        BY <1>1, <1>2, <2>4, <2>7, <4>1
    <3>2. QED
      BY <3>1
  <2>9. QED
    BY <2>8
<1> DEFINE c == LongestCommonPrefix({s, t})
<1>5. c \in C /\ \A o \in C : Len(o) <= Len(c)
  BY <1>4 DEF LongestCommonPrefix
<1>6. ASSUME s = t PROVE Len(c) = Len(s)
  <2>1. Len(s) \in 0 .. Len(s) /\ Len(s) <= Len(t) /\ \A i \in 1 .. Len(s) : s[i] = t[i]
    BY <1>1, <1>6
  <2>2. SubSeq(s, 1, Len(s)) \in C /\ Len(SubSeq(s, 1, Len(s))) = Len(s)
    BY <1>3, <2>1
  <2> HIDE DEF C, c
  <2>3. Len(c) \in 0 .. Len(s) /\ Len(s) <= Len(c)
    <3> DEFINE p == SubSeq(s, 1, Len(s))
    <3>1. p \in C /\ Len(p) = Len(s)
      BY <2>2
    <3> HIDE DEF p
    <3>2. QED
      BY <1>2, <1>5, <3>1
  <2>4. QED
    BY <1>1, <2>3
<1> HIDE DEF C, c
<1>7. /\ Len(c) \in Nat /\ Len(c) <= Len(s) /\ Len(c) <= Len(t)
      /\ \A i \in 1 .. Len(c) : s[i] = t[i]
  BY <1>1, <1>2, <1>5
<1>8. QED
  BY <1>6, <1>7 DEF c

-----------------------------------------------------------------------------
(***************************************************************************)
(* The namespace. Induction over the depth of a node is by the least       *)
(* number for which a statement fails.                                     *)
(***************************************************************************)

LEMMA TrailType == ASSUME NEW n \in Nodes PROVE IsSeq(TrailTo[n]) /\ Len(TrailTo[n]) \in Nat
<1>1. TrailTo[n] \in Seq({Name[m] : m \in Nodes})
  BY TreeAssumption
<1>2. IsSeq(TrailTo[n])
  BY <1>1, SeqIsSeq
<1>3. QED
  BY <1>2, SeqElements

LEMMA RootTrail == Root \in Nodes /\ TrailTo[Root] = <<>> /\ Above[Root] = {}
BY NamespaceAssumption, TreeAssumption

LEMMA ParentFacts ==
  ASSUME NEW n \in Nodes, n # Root
  PROVE  /\ Parent(n) \in Nodes /\ n \in KidsOf(Parent(n)) /\ Parent(n) \in Branches
         /\ TrailTo[n] = Append(TrailTo[Parent(n)], Name[n])
         /\ Len(TrailTo[n]) = Len(TrailTo[Parent(n)]) + 1
         /\ Above[n] = Above[Parent(n)] \cup {Parent(n)}
<1>1. \E p \in Nodes : n \in KidsOf(p)
  BY TreeAssumption
<1>2. Parent(n) \in Nodes /\ n \in KidsOf(Parent(n))
  BY <1>1 DEF Parent
<1>3. Parent(n) \in Branches
  BY <1>2, NamespaceAssumption
<1>4. TrailTo[n] = Append(TrailTo[Parent(n)], Name[n])
  BY TreeAssumption
<1>5. Above[n] = Above[Parent(n)] \cup {Parent(n)}
  BY TreeAssumption
<1>6. Len(TrailTo[n]) = Len(TrailTo[Parent(n)]) + 1
  BY <1>2, <1>4, TrailType, AppendSeq
<1>7. QED
  BY <1>2, <1>3, <1>4, <1>5, <1>6

LEMMA KidFacts ==
  ASSUME NEW n \in Nodes, NEW k \in KidsOf(n)
  PROVE  /\ k \in Nodes /\ k # Root /\ Parent(k) = n
         /\ TrailTo[k] = Append(TrailTo[n], Name[k])
         /\ Above[k] = Above[n] \cup {n}
<1>1. Kids[n] \in Seq(Nodes)
  BY NamespaceAssumption
<1>2. \A i \in DOMAIN Kids[n] : Kids[n][i] \in Nodes
  BY <1>1, ElementOfSeq, LenProperties
<1>3. k \in Nodes
  BY <1>2 DEF KidsOf, ToSet
<1>4. k # Root
  BY NamespaceAssumption
<1>5. \A p \in Nodes : k \in KidsOf(p) => p = n
  BY NamespaceAssumption
<1>6. Parent(k) = n
  BY <1>5 DEF Parent
<1>7. QED
  BY <1>3, <1>4, <1>6, ParentFacts

\* No two nodes have the same browse names on the way to them.
LEMMA TrailInjective ==
  ASSUME NEW m \in Nodes, NEW n \in Nodes, TrailTo[m] = TrailTo[n]
  PROVE  m = n
<1> DEFINE Twins(a, b) == a # b /\ TrailTo[a] = TrailTo[b]
           T == {l \in Nat : \E a, b \in Nodes : Twins(a, b) /\ Len(TrailTo[a]) = l}
<1>1. SUFFICES T = {}
  BY TrailType
<1>2. SUFFICES ASSUME T # {} PROVE FALSE
  OBVIOUS
<1>3. PICK l \in T : \A y \in T : l <= y
  <2>1. T \subseteq Nat
    OBVIOUS
  <2> HIDE DEF T
  <2>2. QED
    BY <1>2, <2>1, LeastNat
<1>4. PICK a \in Nodes, b \in Nodes : Twins(a, b) /\ Len(TrailTo[a]) = l
  BY <1>3
<1>5. a # Root /\ b # Root
  <2>1. ASSUME NEW c \in Nodes, TrailTo[c] = <<>> PROVE c = Root
    <3>1. c # Root => Len(TrailTo[c]) # 0
      BY ParentFacts, TrailType
    <3>2. QED
      BY <2>1, <3>1, NoSeq
  <2>2. QED
    BY <1>4, <2>1, RootTrail
<1>6. Append(TrailTo[Parent(a)], Name[a]) = Append(TrailTo[Parent(b)], Name[b])
  BY <1>4, <1>5, ParentFacts
<1>7. TrailTo[Parent(a)] = TrailTo[Parent(b)] /\ Name[a] = Name[b]
  <2>1. IsSeq(TrailTo[Parent(a)]) /\ IsSeq(TrailTo[Parent(b)])
    BY <1>5, ParentFacts, TrailType
  <2>2. QED
    BY <1>6, <2>1, SameAppend
<1>8. Parent(a) # Parent(b)
  <2> SUFFICES ASSUME Parent(a) = Parent(b) PROVE FALSE
    OBVIOUS
  <2>1. a \in KidsOf(Parent(a)) /\ b \in KidsOf(Parent(a)) /\ Parent(a) \in Nodes
    BY <1>5, ParentFacts
  <2>2. QED
    BY <1>4, <1>7, <2>1, NamespaceAssumption
<1>9. Len(TrailTo[Parent(a)]) \in T
  BY <1>5, <1>7, <1>8, ParentFacts, TrailType
<1>10. Len(TrailTo[a]) = Len(TrailTo[Parent(a)]) + 1 /\ Len(TrailTo[Parent(a)]) \in Nat
  BY <1>5, ParentFacts, TrailType
<1>11. QED
  BY <1>3, <1>4, <1>9, <1>10

\* The names a new enumerator is to list.
LEMMA NamesListed ==
  ASSUME NEW n \in Nodes, NEW S
  PROVE  /\ NamesOf(n, S) \in Seq({Name[k] : k \in KidsOf(n) \cap S})
         /\ ToSet(NamesOf(n, S)) = {Name[k] : k \in KidsOf(n) \cap S}
         /\ IsInjective(NamesOf(n, S))
<1>1. KidsOf(n) \cap S \subseteq Nodes
  BY KidFacts
<1>2. IsFiniteSet(KidsOf(n) \cap S)
  BY <1>1, NamespaceAssumption, FS_Subset
<1>3. IsFiniteSet({Name[k] : k \in KidsOf(n) \cap S})
  BY <1>2, FiniteImage
<1>4. QED
  BY <1>3, ListOfSet DEF NamesOf

LEMMA IdsListed ==
  ASSUME NEW n \in Nodes
  PROVE  /\ SetToSeq({Id[i] : i \in ItemsBelow(n)}) \in Seq({Id[i] : i \in ItemsBelow(n)})
         /\ ToSet(SetToSeq({Id[i] : i \in ItemsBelow(n)})) = {Id[i] : i \in ItemsBelow(n)}
         /\ IsInjective(SetToSeq({Id[i] : i \in ItemsBelow(n)}))
<1>1. ItemsBelow(n) \subseteq Nodes
  BY NamespaceAssumption DEF ItemsBelow
<1>2. IsFiniteSet(ItemsBelow(n))
  BY <1>1, NamespaceAssumption, FS_Subset
<1>3. IsFiniteSet({Id[i] : i \in ItemsBelow(n)})
  BY <1>2, FiniteImage
<1>4. QED
  BY <1>3, ListOfSet

-----------------------------------------------------------------------------
(***************************************************************************)
(* The enumerators of a page: what they have still to give, and one that   *)
(* gave each name once so far and failed at nothing.                       *)
(***************************************************************************)

Open(it) == IF it = Nil THEN {} ELSE ToSet(it.rest) \cup {r.name : r \in ToSet(it.pending)}

Sound(it) ==
  it # Nil =>
    /\ IsInjective(it.rest) /\ it.last \notin ToSet(it.rest)
    /\ it.pending # <<>> => it.pending = <<Result("name", it.last)>>

Outcomes ==
  {Result("name", n) : n \in Words}
    \cup {Result("end", Nil), Result("stuck", Nil), Result("broken", Nil)}

LEMMA OutcomeFacts ==
  ASSUME NEW r \in Outcomes
  PROVE  /\ r.kind \in {"name", "end", "stuck", "broken"}
         /\ r.kind = "name" => r.name \in Words /\ r = Result("name", r.name)
         /\ r.kind = "end" => r = Result("end", Nil)
BY DEF Outcomes, Result

LEMMA OpenFacts ==
  ASSUME NEW it \in Iterators(Words)
  PROVE  /\ it # Nil /\ it.rest \in Seq(Words) /\ it.last \in Words \cup {Nil}
         /\ it.pending = <<>> => Open(it) = ToSet(it.rest)
         /\ \A n : it.pending = <<Result("name", n)>> => Open(it) = ToSet(it.rest) \cup {n}
         /\ it.pending # <<>> => Head(it.pending) \in Outcomes /\ it.pending = <<Head(it.pending)>>
<1>1. it # Nil /\ it.rest \in Seq(Words) /\ it.last \in Words \cup {Nil}
  BY NoneAssumption DEF Iterators
<1>2. ASSUME it.pending = <<>> PROVE Open(it) = ToSet(it.rest)
  <2>1. ToSet(it.pending) = {}
    BY <1>2 DEF ToSet
  <2>2. QED
    BY <1>1, <2>1 DEF Open
<1>3. ASSUME NEW n, it.pending = <<Result("name", n)>> PROVE Open(it) = ToSet(it.rest) \cup {n}
  <2>1. ToSet(it.pending) = {Result("name", n)}
    <3>1. \A r : ToSet(<<r>>) = {r}
      BY DEF ToSet
    <3>2. QED
      BY <1>3, <3>1
  <2>2. Result("name", n).name = n
    BY DEF Result
  <2>3. QED
    BY <1>1, <2>1, <2>2 DEF Open
<1>4. ASSUME it.pending # <<>>
      PROVE  Head(it.pending) \in Outcomes /\ it.pending = <<Head(it.pending)>>
  <2>1. PICK r \in {Result("name", n) : n \in Words}
                     \cup {Result("stuck", Nil), Result("broken", Nil)} : it.pending = <<r>>
    BY <1>4 DEF Iterators
  <2>2. r \in Outcomes
    BY DEF Outcomes
  <2>3. QED
    BY <2>1, <2>2
<1>5. QED
  BY <1>1, <1>2, <1>3, <1>4

\* The guard passes a name on, or gives up.
LEMMA GuardedFacts ==
  ASSUME NEW names, NEW it \in Iterators(names), NEW name \in names
  PROVE  LET g == Guarded(it, name)
         IN /\ g.it \in Iterators(names)
            /\ g.res \in {Result("name", name), Result("stuck", Nil)}
            /\ g.res.kind = "name" => g.it.rest = it.rest /\ g.it.pending = it.pending /\ g.it.last = name
            /\ g.res.kind = "stuck" => g.it = Iterator(<<>>)
            /\ name # it.last => g.res.kind = "name"
<1> DEFINE same == IF name = it.last THEN it.same + 1 ELSE 1
<1>1. same \in Nat /\ (name # it.last => ~(same >= MaxSame))
  BY MaxSameAssumption DEF Iterators
<1>2. CASE same >= MaxSame
  <2>1. Guarded(it, name) = [res |-> Result("stuck", Nil), it |-> Iterator(<<>>)]
    BY <1>2 DEF Guarded
  <2>2. Iterator(<<>>) \in Iterators(names)
    BY DEF Iterator, Iterators
  <2>3. QED
    BY <1>1, <1>2, <2>1, <2>2 DEF Result
<1>3. CASE ~(same >= MaxSame)
  <2> DEFINE h == [it EXCEPT !.last = name, !.same = same]
  <2>1. Guarded(it, name) = [res |-> Result("name", name), it |-> h]
    BY <1>3 DEF Guarded
  <2>2. /\ h \in Iterators(names)
        /\ h.rest = it.rest /\ h.pending = it.pending /\ h.last = name
    BY <1>1 DEF Iterators
  <2>3. Result("name", name).kind = "name"
    BY DEF Result
  <2> HIDE DEF same, h
  <2>4. QED
    BY <2>1, <2>2, <2>3
<1>4. QED
  BY <1>2, <1>3

LEMMA NewIterator ==
  ASSUME NEW s \in Seq(Words), IsInjective(s)
  PROVE  /\ Iterator(s) \in Iterators(Words) /\ Sound(Iterator(s)) /\ Open(Iterator(s)) = ToSet(s)
<1>1. Iterator(s) \in Iterators(Words)
  BY DEF Iterator, Iterators
<1>2. /\ Iterator(s).rest = s /\ Iterator(s).last = Nil /\ Iterator(s).pending = <<>>
  BY DEF Iterator
<1>3. Nil \notin ToSet(s)
  BY NoneAssumption DEF ToSet
<1> HIDE DEF Iterator
<1>4. QED
  BY <1>1, <1>2, <1>3, OpenFacts DEF Sound

\* What a fetch gives, and without a fault: the next name, or the end.
LEMMA FetchFacts ==
  ASSUME NEW it \in Iterators(Words), it.pending = <<>>, NEW x \in Fetches(it)
  PROVE  /\ x.cost \in {0, 1} /\ x.f.it \in Iterators(Words) /\ x.f.it.pending = <<>>
         /\ x.f.res \in Outcomes
         /\ Sound(it) /\ x.cost = 0 =>
              /\ Sound(x.f.it)
              /\ \/ x.f.res.kind = "end" /\ Open(it) = {} /\ x.f.it = it
                 \/ /\ x.f.res.kind = "name" /\ x.f.it.last = x.f.res.name
                    /\ x.f.res.name \notin Open(x.f.it)
                    /\ Open(it) = Open(x.f.it) \cup {x.f.res.name}
<1>1. /\ it.rest \in Seq(Words) /\ it.last \in Words \cup {Nil} /\ Open(it) = ToSet(it.rest)
  BY OpenFacts
<1>2. /\ Result("end", Nil) \in Outcomes /\ Result("stuck", Nil) \in Outcomes
      /\ Result("broken", Nil) \in Outcomes
      /\ Result("end", Nil).kind = "end" /\ Result("stuck", Nil).kind = "stuck"
      /\ \A n \in Words : Result("name", n) \in Outcomes
      /\ \A n : Result("name", n).kind = "name" /\ Result("name", n).name = n
  BY DEF Result, Outcomes
<1>3. CASE x = [f |-> [res |-> Result("end", Nil), it |-> it], cost |-> 0] /\ it.rest = <<>>
  <2>1. ToSet(it.rest) = {}
    BY <1>3 DEF ToSet
  <2>2. x.f.res = Result("end", Nil) /\ x.f.it = it /\ x.cost = 0
    BY <1>3
  <2>3. QED
    BY <1>1, <1>2, <2>1, <2>2
<1>4. CASE /\ it.rest # <<>>
           /\ x = [f |-> Guarded([it EXCEPT !.rest = Tail(it.rest)], Head(it.rest)), cost |-> 0]
  <2> DEFINE h == [it EXCEPT !.rest = Tail(it.rest)]
             name == Head(it.rest)
  <2>1. /\ name \in Words /\ name \in ToSet(it.rest) /\ Tail(it.rest) \in Seq(Words)
        /\ ToSet(it.rest) = ToSet(Tail(it.rest)) \cup {name}
        /\ IsInjective(it.rest) => IsInjective(Tail(it.rest)) /\ name \notin ToSet(Tail(it.rest))
    BY <1>1, <1>4, RestSplit
  <2>2. /\ h \in Iterators(Words) /\ h.rest = Tail(it.rest) /\ h.pending = <<>>
        /\ h.last = it.last
    BY <2>1 DEF Iterators
  <2>3. x.f = Guarded(h, name) /\ x.cost = 0
    BY <1>4
  <2> HIDE DEF h, name
  <2>4. /\ x.f.it \in Iterators(Words)
        /\ x.f.res \in {Result("name", name), Result("stuck", Nil)}
        /\ x.f.res.kind = "name" =>
             x.f.it.rest = h.rest /\ x.f.it.pending = h.pending /\ x.f.it.last = name
        /\ x.f.res.kind = "stuck" => x.f.it = Iterator(<<>>)
        /\ name # h.last => x.f.res.kind = "name"
    BY <2>1, <2>2, <2>3, GuardedFacts
  <2>5. Iterator(<<>>).pending = <<>>
    BY DEF Iterator
  <2>6. x.f.it.pending = <<>> /\ Open(x.f.it) = ToSet(x.f.it.rest)
    BY <1>2, <2>2, <2>4, <2>5, OpenFacts
  <2>7. ASSUME Sound(it)
        PROVE  /\ Sound(x.f.it) /\ x.f.res.kind = "name" /\ x.f.it.last = x.f.res.name
               /\ x.f.res.name \notin Open(x.f.it)
               /\ Open(it) = Open(x.f.it) \cup {x.f.res.name}
    <3>1. IsInjective(it.rest) /\ it.last \notin ToSet(it.rest)
      BY <2>7, OpenFacts DEF Sound
    <3>2. x.f.res.kind = "name" /\ x.f.res.name = name
      BY <1>2, <2>1, <2>2, <2>4, <3>1
    <3>3. /\ x.f.it.rest = Tail(it.rest) /\ x.f.it.last = name
          /\ IsInjective(Tail(it.rest)) /\ name \notin ToSet(Tail(it.rest))
      BY <2>1, <2>2, <2>4, <3>1, <3>2
    <3>4. QED
      BY <1>1, <2>1, <2>6, <3>2, <3>3 DEF Sound
  <2>8. x.f.res \in Outcomes
    BY <1>2, <2>1, <2>4
  <2>9. QED
    BY <2>3, <2>4, <2>6, <2>7, <2>8
<1>5. CASE it.last # Nil /\ x = [f |-> Guarded(it, it.last), cost |-> 1]
  <2>1. x.f = Guarded(it, it.last) /\ x.cost = 1 /\ it.last \in Words
    BY <1>1, <1>5
  <2>2. /\ x.f.it \in Iterators(Words)
        /\ x.f.res \in {Result("name", it.last), Result("stuck", Nil)}
        /\ x.f.res.kind = "name" => x.f.it.rest = it.rest /\ x.f.it.pending = it.pending
        /\ x.f.res.kind = "stuck" => x.f.it = Iterator(<<>>)
    BY <2>1, GuardedFacts
  <2>3. Iterator(<<>>).pending = <<>>
    BY DEF Iterator
  <2>4. x.f.it.pending = <<>> /\ x.f.res \in Outcomes
    BY <1>2, <2>1, <2>2, <2>3
  <2>5. QED
    BY <2>1, <2>2, <2>4
<1>6. CASE x = [f |-> [res |-> Result("broken", Nil), it |-> it], cost |-> 1]
  <2>1. x.f.res = Result("broken", Nil) /\ x.f.it = it /\ x.cost = 1
    BY <1>6
  <2>2. QED
    BY <1>2, <2>1
<1>7. QED
  BY <1>3, <1>4, <1>5, <1>6 DEF Fetches

\* What a page reads from an enumerator.
LEMMA NextFacts ==
  ASSUME NEW it \in Iterators(Words), NEW x \in NextOf(it)
  PROVE  /\ x.cost \in {0, 1} /\ x.f.it \in Iterators(Words) /\ x.f.res \in Outcomes
         /\ Sound(it) /\ x.cost = 0 =>
              /\ Sound(x.f.it)
              /\ \/ x.f.res.kind = "end" /\ Open(it) = {} /\ Open(x.f.it) = {}
                 \/ /\ x.f.res.kind = "name" /\ x.f.res.name \in Open(it)
                    /\ Open(x.f.it) = Open(it) \ {x.f.res.name}
<1>1. CASE it.pending = <<>>
  <2>1. x \in Fetches(it)
    BY <1>1 DEF NextOf
  <2>2. QED
    BY <1>1, <2>1, FetchFacts
<1>2. CASE it.pending # <<>>
  <2> DEFINE r == Head(it.pending)
             h == [it EXCEPT !.pending = <<>>]
  <2>1. x.f.res = r /\ x.f.it = h /\ x.cost = 0
    BY <1>2 DEF NextOf
  <2>2. h \in Iterators(Words) /\ h.rest = it.rest /\ h.last = it.last /\ h.pending = <<>>
    BY DEF Iterators
  <2>3. r \in Outcomes /\ it.pending = <<r>>
    BY <1>2, OpenFacts
  <2> HIDE DEF r, h
  <2>4. Open(h) = ToSet(it.rest) /\ it # Nil /\ h # Nil
    BY <2>2, OpenFacts
  <2>5. ASSUME Sound(it)
        PROVE  /\ Sound(h) /\ r.kind = "name" /\ r.name \in Open(it) /\ Open(h) = Open(it) \ {r.name}
    <3>1. /\ IsInjective(it.rest) /\ it.last \notin ToSet(it.rest)
          /\ it.pending = <<Result("name", it.last)>>
      BY <1>2, <2>4, <2>5 DEF Sound
    <3>2. r = Result("name", it.last)
      BY <2>3, <3>1
    <3>3. r.kind = "name" /\ r.name = it.last
      BY <3>2 DEF Result
    <3>4. Open(it) = ToSet(it.rest) \cup {it.last}
      BY <3>1, OpenFacts
    <3>5. Sound(h)
      BY <2>2, <3>1 DEF Sound
    <3>6. QED
      BY <2>4, <3>1, <3>3, <3>4, <3>5
  <2>6. QED
    BY <2>1, <2>2, <2>3, <2>5
<1>3. QED
  BY <1>1, <1>2

\* What it knows of an enumerator before it replies.
LEMMA PeekFacts ==
  ASSUME NEW it \in {Nil} \cup Iterators(Words), NEW x \in Peeks(it)
  PROVE  /\ x.cost \in {0, 1} /\ x.f.it \in {Nil} \cup Iterators(Words) /\ x.f.res \in Outcomes
         /\ x.f.it = Nil <=> it = Nil
         /\ it = Nil => x.f.res.kind = "end"
         /\ Sound(it) /\ x.cost = 0 =>
              /\ Sound(x.f.it) /\ Open(x.f.it) = Open(it)
              /\ x.f.res.kind \in {"end", "name"} /\ (x.f.res.kind = "end" => Open(it) = {})
<1>1. CASE it = Nil
  <2>1. x.f.res = Result("end", Nil) /\ x.f.it = Nil /\ x.cost = 0
    BY <1>1 DEF Peeks
  <2>2. Open(Nil) = {} /\ Sound(Nil) /\ Result("end", Nil).kind = "end" /\ Result("end", Nil) \in Outcomes
    BY DEF Open, Sound, Result, Outcomes
  <2>3. QED
    BY <1>1, <2>1, <2>2
<1>2. CASE it # Nil /\ it.pending # <<>>
  <2> DEFINE r == Head(it.pending)
  <2>1. x.f.res = r /\ x.f.it = it /\ x.cost = 0
    BY <1>2 DEF Peeks, PeekOf
  <2>2. r \in Outcomes /\ it.pending = <<r>>
    BY <1>2, OpenFacts
  <2> HIDE DEF r
  <2>3. Sound(it) => r = Result("name", it.last)
    BY <1>2, <2>2 DEF Sound
  <2>4. \A n : Result("name", n).kind = "name"
    BY DEF Result
  <2>5. QED
    BY <1>2, <2>1, <2>2, <2>3, <2>4
<1>3. CASE it # Nil /\ it.pending = <<>>
  <2>1. it \in Iterators(Words)
    BY <1>3
  <2>2. PICK y \in Fetches(it) :
          x = [f |-> [res |-> y.f.res,
                      it |-> [y.f.it EXCEPT
                               !.pending = IF y.f.res.kind = "end" THEN <<>> ELSE <<y.f.res>>]],
               cost |-> y.cost]
    BY <1>3 DEF Peeks, PeekOf
  <2> DEFINE r == y.f.res
             g == y.f.it
             h == [g EXCEPT !.pending = IF r.kind = "end" THEN <<>> ELSE <<r>>]
  <2>3. x.f.res = r /\ x.f.it = h /\ x.cost = y.cost
    BY <2>2
  <2>4. /\ y.cost \in {0, 1} /\ g \in Iterators(Words) /\ g.pending = <<>> /\ r \in Outcomes
        /\ Sound(it) /\ y.cost = 0 =>
             /\ Sound(g)
             /\ \/ r.kind = "end" /\ Open(it) = {} /\ g = it
                \/ /\ r.kind = "name" /\ g.last = r.name /\ r.name \notin Open(g)
                   /\ Open(it) = Open(g) \cup {r.name}
    BY <1>3, <2>1, FetchFacts
  <2>5. /\ h \in Iterators(Words) /\ h.rest = g.rest /\ h.last = g.last
        /\ h.pending = IF r.kind = "end" THEN <<>> ELSE <<r>>
    <3>1. r.kind # "end" => r \in {Result("name", n) : n \in Words}
                                   \cup {Result("stuck", Nil), Result("broken", Nil)}
      BY <2>4 DEF Result, Outcomes
    <3> HIDE DEF r, g
    <3>2. QED
      BY <2>4, <3>1 DEF Iterators
  <2> HIDE DEF r, g, h
  <2>6. h # Nil /\ Open(g) = ToSet(g.rest)
    BY <2>4, <2>5, OpenFacts
  <2>7. CASE r.kind = "end"
    <3>1. Open(h) = ToSet(g.rest)
      BY <2>5, <2>7, OpenFacts
    <3>2. Sound(g) => Sound(h)
      BY <2>4, <2>5, <2>7, OpenFacts DEF Sound
    <3>3. QED
      BY <1>3, <2>3, <2>4, <2>5, <2>6, <2>7, <3>1, <3>2
  <2>8. CASE r.kind # "end"
    <3>1. ASSUME Sound(it), y.cost = 0
          PROVE  Sound(h) /\ Open(h) = Open(it) /\ r.kind = "name"
      <4>1. /\ Sound(g) /\ r.kind = "name" /\ g.last = r.name
            /\ Open(it) = Open(g) \cup {r.name}
        BY <2>4, <2>8, <3>1
      <4>2. h.pending = <<Result("name", h.last)>>
        BY <2>4, <2>5, <4>1, OutcomeFacts
      <4>3. Open(h) = ToSet(h.rest) \cup {h.last}
        BY <2>5, <4>2, OpenFacts
      <4>4. Sound(h)
        BY <2>4, <2>5, <4>1, <4>2, OpenFacts DEF Sound
      <4>5. QED
        BY <2>5, <2>6, <4>1, <4>3, <4>4
    <3>2. QED
      BY <1>3, <2>3, <2>4, <2>5, <2>6, <2>8, <3>1
  <2>9. QED
    BY <2>7, <2>8
<1>4. QED
  BY <1>1, <1>2, <1>3

-----------------------------------------------------------------------------
(***************************************************************************)
(* What the state is made of. Parameters stand for the variables:          *)
(* ns nodes, cs chains, ct conts, be backend, w req or a continuation.     *)
(***************************************************************************)

Filters == {"all", "branches", "items"}

\* A node of a DA 3 session is known by the item ID of a branch.
Entries ==
  {e \in [kind : {"both", "branch", "item", "none"}, name : Words, id : Words \cup {Nil},
          loc : [api : {"da3", "da2", "item"}, trail : Seq(Words)]] :
     e.loc.api = "da3" => \E k \in Branches \ {Root} : e.loc.trail = <<Id[k]>>}

\* The chains, requests and continuations there can be when tokens are given.
Chains(tokens) == [parent : {Nil} \cup tokens, filter : Filters, told : Seq(tokens),
                   whole : BOOLEAN, since : Nat]

Requested(tokens) == [parent : {Nil} \cup tokens, filter : Filters, size : Nat, chain : Nat,
                      from : {Nil} \cup Seq(Nodes)]

Continued(tokens) == [parent : {Nil} \cup tokens, filter : Filters, chain : Nat,
                      from : {Nil} \cup Seq(Nodes), page : {Nil} \cup Pages]

\* The node whose children are listed: known by its ID, or by the way to it.
At(ns, parent) ==
  IF parent = Nil THEN {Root}
  ELSE IF ns[parent].loc.api = "da3" THEN {BranchWithId(ns[parent].loc.trail[1])}
       ELSE Walk(Root, ns[parent].loc.trail)

Trail(ns, parent) == IF parent = Nil THEN <<>> ELSE ns[parent].loc.trail

\* A page belongs to its chain, and to the interface of the session.
WorkOK(ns, cs, be, w, from, state) ==
  /\ w.chain \in DOMAIN cs
  /\ cs[w.chain].parent = w.parent /\ cs[w.chain].filter = w.filter
  /\ \/ /\ be = "da3" /\ state = Nil
        /\ w.parent # Nil => ns[w.parent].loc.api = "da3"
        /\ from # Nil => \A n \in At(ns, w.parent) :
                           ToSet(from) \subseteq ToSet(Elements(n, w.filter))
     \/ /\ be = "da2" /\ state \in Pages /\ from = Nil
        /\ state.trail = Trail(ns, w.parent)
        /\ w.parent # Nil => ns[w.parent].loc.api = "da2"

NodesOK(ns) == ns \in Seq(Entries) /\ Len(ns) <= MaxNodeTokens

ChainsOK(ns, cs, f) ==
  cs \in Seq(Chains(DOMAIN ns)) /\ f \in Nat /\ \A c \in DOMAIN cs : cs[c].since <= f

ContsOK(ns, cs, be, ct, n) ==
  /\ n \in Nat /\ DOMAIN ct \subseteq 1 .. n
  /\ \A t \in DOMAIN ct : /\ ct[t] \in Continued(DOMAIN ns)
                          /\ WorkOK(ns, cs, be, ct[t], ct[t].from, ct[t].page)

PageOK(ns, cs, be, ct, n, p, w, state, s) ==
  /\ s \in Seq(DOMAIN ns)
  /\ p = "idle" => state = Nil
  /\ p # "idle" => /\ w \in Requested(DOMAIN ns) /\ n # 0 /\ n \notin DOMAIN ct
                   /\ WorkOK(ns, cs, be, w, w.from, state)
  /\ p = "da3" => be = "da3"
  /\ p \in {"move", "names"} => be = "da2"
  /\ p # "names" => s = <<>>
  /\ p = "names" => state.begun

Scalars ==
  /\ profile \in Profile /\ adrift \in BOOLEAN /\ rootDone \in BOOLEAN
  /\ pc \in {"idle", "da3", "move", "names"} /\ backend \in {"da3", "da2"}
  /\ ups \in Nat /\ cursor \in Nodes /\ path \in Seq(Words)

\* The type invariant.
TypeInv ==
  /\ Scalars
  /\ NodesOK(nodes)
  /\ ChainsOK(nodes, chains, faults)
  /\ ContsOK(nodes, chains, backend, conts, calls)
  /\ PageOK(nodes, chains, backend, conts, calls, pc, req, page, out)

\* Before the first root page came out the client has nothing of the session.
Fresh(be, done, cs, ct, p, w) ==
  be = "da3" /\ ~done =>
    /\ DOMAIN ct = {}
    /\ \A c \in DOMAIN cs : cs[c].told = <<>> /\ ~cs[c].whole /\ cs[c].parent = Nil
    /\ p = "da3" => w.parent = Nil /\ w.from = Nil

FreshInv == Fresh(backend, rootDone, chains, conts, pc, req)

-----------------------------------------------------------------------------
(* Tokens stay what they are when nodes are added, and chains keep theirs. *)

Grown(ns, ms) == DOMAIN ns \subseteq DOMAIN ms /\ \A t \in DOMAIN ns : ms[t] = ns[t]

Kept(cs, ds) ==
  /\ DOMAIN cs \subseteq DOMAIN ds
  /\ \A c \in DOMAIN cs : /\ ds[c].parent = cs[c].parent /\ ds[c].filter = cs[c].filter
                          /\ ds[c].since = cs[c].since

LEMMA GrownSelf == \A ns : Grown(ns, ns) /\ Kept(ns, ns)
BY DEF Grown, Kept

LEMMA Inserted ==
  ASSUME NodesOK(nodes), NEW s \in Seq(Entries), Insert(s)
  PROVE  /\ Grown(nodes, nodes') /\ NodesOK(nodes')
         /\ Fits(s) => /\ DOMAIN nodes' = 1 .. Len(nodes) + Len(s) /\ Len(nodes) \in Nat
                       /\ \A i \in 1 .. Len(s) : nodes'[Len(nodes) + i] = s[i]
<1> DEFINE room == MaxNodeTokens - Len(nodes)
           l == IF Len(s) < room THEN Len(s) ELSE room
           new == SubSeq(s, 1, l)
<1>1. IsSeq(nodes) /\ IsSeq(s) /\ nodes \in Seq(Entries) /\ Len(nodes) \in Nat /\ Len(s) \in Nat
  BY SeqIsSeq, LenProperties DEF NodesOK
<1>2. room \in Nat /\ l \in 0 .. Len(s) /\ l <= room /\ (Fits(s) => l = Len(s))
  BY <1>1, SessionAssumption DEF NodesOK, Fits
<1>3. nodes' = nodes \o new
  BY DEF Insert
<1>4. Len(nodes) + l <= MaxNodeTokens
  BY <1>1, <1>2, SessionAssumption
<1> HIDE DEF l
<1>5. IsSeq(new) /\ Len(new) = l /\ \A i \in 1 .. l : new[i] = s[i]
  BY <1>1, <1>2, PrefixSeq
<1>6. new \in Seq(Entries)
  <2>1. \A i \in 1 .. l : new[i] \in Entries
    BY <1>1, <1>2, <1>5, LenProperties
  <2>2. new = [i \in 1 .. l |-> new[i]]
    BY <1>5, SeqElements DEF IsSeq
  <2> HIDE DEF new
  <2>3. QED
    BY <1>2, <2>1, <2>2
<1> HIDE DEF new, room
<1>7. /\ IsSeq(nodes') /\ Len(nodes') = Len(nodes) + l
      /\ \A i \in 1 .. Len(nodes) : nodes'[i] = nodes[i]
      /\ \A i \in 1 .. l : nodes'[Len(nodes) + i] = new[i]
  <2>1. /\ IsSeq(nodes \o new) /\ Len(nodes \o new) = Len(nodes) + Len(new)
        /\ \A i \in 1 .. Len(nodes) : (nodes \o new)[i] = nodes[i]
        /\ \A i \in 1 .. Len(new) : (nodes \o new)[Len(nodes) + i] = new[i]
    BY <1>1, <1>5, ConcatSeq
  <2>2. QED
    BY <1>3, <1>5, <2>1
<1>8. DOMAIN nodes' = 1 .. Len(nodes) + l /\ DOMAIN nodes = 1 .. Len(nodes)
  BY <1>1, <1>7, SeqElements
<1>9. Grown(nodes, nodes')
  BY <1>1, <1>2, <1>7, <1>8 DEF Grown
<1>10. nodes' \in Seq(Entries)
  BY <1>1, <1>3, <1>6
<1>11. NodesOK(nodes')
  BY <1>4, <1>7, <1>10 DEF NodesOK
<1>12. QED
  BY <1>1, <1>2, <1>5, <1>7, <1>8, <1>9, <1>11

LEMMA AtKept ==
  ASSUME NEW ns, NEW ms, Grown(ns, ms), NEW parent \in {Nil} \cup DOMAIN ns
  PROVE  At(ms, parent) = At(ns, parent) /\ Trail(ms, parent) = Trail(ns, parent)
BY DEF Grown, At, Trail

LEMMA WorkKept ==
  ASSUME NEW ns, NEW ms, Grown(ns, ms), NEW cs, NEW ds, Kept(cs, ds), NEW be,
         NEW w, NEW from, NEW state, w.parent \in {Nil} \cup DOMAIN ns,
         WorkOK(ns, cs, be, w, from, state)
  PROVE  WorkOK(ms, ds, be, w, from, state)
<1>1. At(ms, w.parent) = At(ns, w.parent) /\ Trail(ms, w.parent) = Trail(ns, w.parent)
  BY AtKept
<1>2. w.parent # Nil => ms[w.parent] = ns[w.parent]
  BY DEF Grown
<1>3. /\ w.chain \in DOMAIN ds
      /\ ds[w.chain].parent = w.parent /\ ds[w.chain].filter = w.filter
  BY DEF Kept, WorkOK
<1>4. QED
  BY <1>1, <1>2, <1>3 DEF WorkOK

LEMMA ContsKept ==
  ASSUME NEW ns, NEW ms, Grown(ns, ms), NEW cs, NEW ds, Kept(cs, ds), NEW be,
         NEW ct, NEW n, ContsOK(ns, cs, be, ct, n)
  PROVE  ContsOK(ms, ds, be, ct, n)
<1>1. ASSUME NEW t \in DOMAIN ct
      PROVE  /\ ct[t] \in Continued(DOMAIN ms)
             /\ WorkOK(ms, ds, be, ct[t], ct[t].from, ct[t].page)
  <2>1. ct[t] \in Continued(DOMAIN ns) /\ WorkOK(ns, cs, be, ct[t], ct[t].from, ct[t].page)
    BY DEF ContsOK
  <2>2. ct[t].parent \in {Nil} \cup DOMAIN ns
    BY <2>1 DEF Continued
  <2>3. ct[t] \in Continued(DOMAIN ms)
    BY <2>1 DEF Continued, Grown
  <2>4. QED
    BY <2>1, <2>2, <2>3, WorkKept
<1>2. QED
  BY <1>1 DEF ContsOK

LEMMA ChainsKept ==
  ASSUME NEW ns, NEW ms, Grown(ns, ms), NEW cs, NEW f, ChainsOK(ns, cs, f), NEW g \in Nat, f <= g
  PROVE  ChainsOK(ms, cs, g)
<1>1. \A S, T : S \subseteq T => Chains(S) \subseteq Chains(T)
  <2> SUFFICES ASSUME NEW S, NEW T, S \subseteq T, NEW c \in Chains(S) PROVE c \in Chains(T)
    OBVIOUS
  <2>1. c.told \in Seq(T)
    BY SeqMonotonic DEF Chains
  <2>2. QED
    BY <2>1 DEF Chains
<1>2. Chains(DOMAIN ns) \subseteq Chains(DOMAIN ms)
  BY <1>1 DEF Grown
<1>3. cs \in Seq(Chains(DOMAIN ms))
  BY <1>2, SeqMonotonic DEF ChainsOK
<1>4. \A c \in DOMAIN cs : cs[c].since \in Nat
  <2>1. cs \in Seq(Chains(DOMAIN ns))
    BY DEF ChainsOK
  <2>2. \A c \in DOMAIN cs : cs[c] \in Chains(DOMAIN ns)
    BY <2>1
  <2>3. QED
    BY <2>2 DEF Chains
<1>5. QED
  BY <1>3, <1>4 DEF ChainsOK

LEMMA RequestKept ==
  ASSUME NEW ns, NEW ms, Grown(ns, ms), NEW w \in Requested(DOMAIN ns)
  PROVE  w \in Requested(DOMAIN ms) /\ w.parent \in {Nil} \cup DOMAIN ns
BY DEF Requested, Grown
-----------------------------------------------------------------------------
(* What a page lists. *)

LEMMA ElementsFacts ==
  ASSUME NEW n \in Nodes, NEW filter
  PROVE  /\ Elements(n, filter) \in Seq(Nodes) /\ IsInjective(Elements(n, filter))
         /\ ToSet(Elements(n, filter)) = {k \in KidsOf(n) : Passes(KindOf(k), filter)}
<1> DEFINE S == {k \in KidsOf(n) : Passes(KindOf(k), filter)}
<1>1. S \subseteq Nodes /\ IsFiniteSet(S)
  <2>1. S \subseteq Nodes
    BY KidFacts
  <2>2. QED
    BY <2>1, FS_Subset, NamespaceAssumption
<1>2. Elements(n, filter) = SetToSeq(S)
  BY DEF Elements
<1> HIDE DEF S
<1>3. SetToSeq(S) \in Seq(S) /\ ToSet(SetToSeq(S)) = S /\ IsInjective(SetToSeq(S))
  BY <1>1, ListOfSet
<1>4. SetToSeq(S) \in Seq(Nodes)
  BY <1>1, <1>3, SeqMonotonic
<1>5. QED
  BY <1>2, <1>3, <1>4 DEF S

LEMMA OwnId == ASSUME NEW k \in Branches \ {Root} PROVE BranchWithId(Id[k]) = k
<1>1. \A n \in Branches : Id[n] = Id[k] => n = k
  BY NamespaceAssumption
<1>2. QED
  BY <1>1 DEF BranchWithId

LEMMA AtNodes ==
  ASSUME NEW ns \in Seq(Entries), NEW parent \in {Nil} \cup DOMAIN ns
  PROVE  /\ At(ns, parent) \subseteq Nodes /\ Trail(ns, parent) \in Seq(Words)
         /\ parent # Nil /\ ns[parent].loc.api = "da3" =>
              At(ns, parent) = {BranchWithId(ns[parent].loc.trail[1])}
<1>1. CASE parent = Nil
  BY <1>1, RootTrail DEF At, Trail
<1>2. CASE parent # Nil
  <2>1. ns[parent] \in Entries
    BY <1>2
  <2>2. /\ ns[parent].loc.trail \in Seq(Words)
        /\ ns[parent].loc.api = "da3" => \E k \in Branches \ {Root} : ns[parent].loc.trail = <<Id[k]>>
    BY <2>1 DEF Entries
  <2>3. CASE ns[parent].loc.api = "da3"
    <3>1. PICK k \in Branches \ {Root} : ns[parent].loc.trail = <<Id[k]>>
      BY <2>2, <2>3
    <3>2. ns[parent].loc.trail[1] = Id[k]
      BY <3>1
    <3>3. k \in Nodes
      BY NamespaceAssumption
    <3>4. At(ns, parent) = {k}
      BY <1>2, <2>3, <3>2, OwnId DEF At
    <3>5. QED
      BY <1>2, <2>2, <2>3, <3>3, <3>4 DEF At, Trail
  <2>4. CASE ns[parent].loc.api # "da3"
    BY <1>2, <2>2, <2>4 DEF At, Trail, Walk
  <2>5. QED
    BY <2>3, <2>4
<1>3. QED
  BY <1>1, <1>2

LEMMA EntryOK ==
  ASSUME NEW kind \in {"both", "branch", "item", "none"}, NEW name \in Words,
         NEW id \in Words \cup {Nil}, NEW trail \in Seq(Words)
  PROVE  /\ Entry(kind, name, id, NowhereBelow) \in Entries
         /\ Entry(kind, name, id, Location("da2", trail)) \in Entries
         /\ (\E k \in Branches \ {Root} : trail = <<Id[k]>>) =>
              Entry(kind, name, id, Location("da3", trail)) \in Entries
<1>1. /\ NowhereBelow \in [api : {"da3", "da2", "item"}, trail : Seq(Words)]
      /\ NowhereBelow.api = "item"
  <2>1. <<>> \in Seq(Words)
    OBVIOUS
  <2>2. QED
    BY <2>1 DEF NowhereBelow, Location
<1>2. \A api \in {"da3", "da2"} :
        /\ Location(api, trail) \in [api : {"da3", "da2", "item"}, trail : Seq(Words)]
        /\ Location(api, trail).api = api /\ Location(api, trail).trail = trail
  BY DEF Location
<1>3. ASSUME NEW loc \in [api : {"da3", "da2", "item"}, trail : Seq(Words)],
             loc.api = "da3" => \E k \in Branches \ {Root} : loc.trail = <<Id[k]>>
      PROVE  Entry(kind, name, id, loc) \in Entries
  BY <1>3 DEF Entry, Entries
<1> HIDE DEF NowhereBelow, Location
<1>4. Entry(kind, name, id, NowhereBelow) \in Entries
  BY <1>1, <1>3
<1>5. Entry(kind, name, id, Location("da2", trail)) \in Entries
  BY <1>2, <1>3
<1>6. ASSUME \E k \in Branches \ {Root} : trail = <<Id[k]>>
      PROVE  Entry(kind, name, id, Location("da3", trail)) \in Entries
  BY <1>2, <1>3, <1>6
<1>7. QED
  BY <1>4, <1>5, <1>6

LEMMA NodeWords == ASSUME NEW n \in Nodes PROVE Name[n] \in Words /\ Id[n] \in Words
BY DEF Words

LEMMA KindFacts ==
  ASSUME NEW n
  PROVE  /\ KindOf(n) \in {"both", "branch", "item", "none"}
         /\ HasChildren(KindOf(n)) <=> n \in Enterable
         /\ IsItem(KindOf(n)) <=> n \in Items
BY DEF KindOf, HasChildren, IsItem

LEMMA Da3EntryOK ==
  ASSUME NEW n \in Nodes, NEW k \in KidsOf(n)
  PROVE  /\ Da3Entry(k) \in Entries
         /\ Da3Entry(k).kind = KindOf(k) /\ Da3Entry(k).name = Name[k]
         /\ Da3Entry(k).id = IF IsItem(KindOf(k)) THEN Id[k] ELSE Nil
<1>1. k \in Nodes /\ k # Root /\ Name[k] \in Words /\ Id[k] \in Words
  BY KidFacts, NodeWords
<1>2. <<Id[k]>> \in Seq(Words) /\ <<>> \in Seq(Words)
  BY <1>1
<1> DEFINE id == IF IsItem(KindOf(k)) THEN Id[k] ELSE Nil
<1>3. id \in Words \cup {Nil}
  BY <1>1
<1>4. KindOf(k) \in {"both", "branch", "item", "none"}
  BY KindFacts
<1>5. Da3Entry(k) = Entry(KindOf(k), Name[k], id,
        IF HasChildren(KindOf(k)) THEN Location("da3", <<Id[k]>>) ELSE NowhereBelow)
  BY DEF Da3Entry
<1>6. HasChildren(KindOf(k)) => k \in Branches \ {Root}
  BY <1>1, KindFacts DEF Enterable
<1> HIDE DEF id
<1>7. Da3Entry(k) \in Entries
  <2>1. CASE HasChildren(KindOf(k))
    BY <1>1, <1>2, <1>3, <1>4, <1>5, <1>6, <2>1, EntryOK
  <2>2. CASE ~HasChildren(KindOf(k))
    BY <1>1, <1>2, <1>3, <1>4, <1>5, <2>2, EntryOK
  <2>3. QED
    BY <2>1, <2>2
<1>8. QED
  BY <1>5, <1>7 DEF Entry, id

\* What a DA 3 page has left to list.
LEMMA RemainingOK ==
  ASSUME TypeInv, pc = "da3"
  PROVE  /\ ParentNode \in Nodes /\ At(nodes, req.parent) = {ParentNode}
         /\ backend = "da3" /\ page = Nil /\ req \in Requested(DOMAIN nodes)
         /\ Remaining \in Seq(Nodes)
         /\ ToSet(Remaining) \subseteq {k \in KidsOf(ParentNode) : Passes(KindOf(k), req.filter)}
<1>1. /\ req \in Requested(DOMAIN nodes) /\ backend = "da3" /\ nodes \in Seq(Entries)
      /\ WorkOK(nodes, chains, backend, req, req.from, page)
  BY DEF TypeInv, PageOK, NodesOK
<1>2. /\ page = Nil
      /\ req.parent # Nil => nodes[req.parent].loc.api = "da3"
      /\ req.from # Nil => \A n \in At(nodes, req.parent) :
                             ToSet(req.from) \subseteq ToSet(Elements(n, req.filter))
  BY <1>1 DEF WorkOK
<1>3. req.parent \in {Nil} \cup DOMAIN nodes /\ req.from \in {Nil} \cup Seq(Nodes)
  BY <1>1 DEF Requested
<1>4. At(nodes, req.parent) = {ParentNode}
  BY <1>2 DEF At, ParentNode
<1>5. ParentNode \in Nodes
  BY <1>1, <1>3, <1>4, AtNodes
<1> HIDE DEF ParentNode
<1>6. /\ Elements(ParentNode, req.filter) \in Seq(Nodes)
      /\ ToSet(Elements(ParentNode, req.filter)) =
           {k \in KidsOf(ParentNode) : Passes(KindOf(k), req.filter)}
  BY <1>5, ElementsFacts
<1> HIDE DEF Elements
<1>7. Remaining \in Seq(Nodes) /\ ToSet(Remaining) \subseteq ToSet(Elements(ParentNode, req.filter))
  BY <1>2, <1>3, <1>4, <1>6 DEF Remaining
<1>8. QED
  BY <1>1, <1>2, <1>4, <1>5, <1>6, <1>7

LEMMA EntriesOK ==
  ASSUME TypeInv, pc = "da3", NEW n \in Nat, n <= Len(Remaining)
  PROVE  /\ [i \in 1 .. n |-> Da3Entry(Remaining[i])] \in Seq(Entries)
         /\ Len([i \in 1 .. n |-> Da3Entry(Remaining[i])]) = n
         /\ \A i \in 1 .. n : Remaining[i] \in KidsOf(ParentNode)
         /\ \A i \in 1 .. Len(Remaining) : Remaining[i] \in ToSet(Remaining)
<1>1. /\ ParentNode \in Nodes /\ Remaining \in Seq(Nodes)
      /\ ToSet(Remaining) \subseteq KidsOf(ParentNode)
  BY RemainingOK
<1> HIDE DEF Remaining, ParentNode
<1>2. DOMAIN Remaining = 1 .. Len(Remaining) /\ Len(Remaining) \in Nat
  BY <1>1, LenProperties
<1>3. \A i \in 1 .. Len(Remaining) : Remaining[i] \in ToSet(Remaining)
  BY <1>2 DEF ToSet
<1>4. \A i \in 1 .. n : Remaining[i] \in KidsOf(ParentNode)
  BY <1>1, <1>2, <1>3
<1>5. \A i \in 1 .. n : Da3Entry(Remaining[i]) \in Entries
  BY <1>1, <1>4, Da3EntryOK
<1> HIDE DEF Da3Entry
<1>6. [i \in 1 .. n |-> Da3Entry(Remaining[i])] \in [1 .. n -> Entries]
  BY <1>5
<1>7. QED
  BY <1>3, <1>4, <1>6
-----------------------------------------------------------------------------
(* What a reply changes. *)

LEMMA ChainIs ==
  ASSUME NEW p, NEW f, NEW s, NEW b, NEW n,
         NEW e \in [parent : {p}, filter : {f}, told : {s}, whole : {b}, since : {n}]
  PROVE  e = [parent |-> p, filter |-> f, told |-> s, whole |-> b, since |-> n]
OBVIOUS

\* Refused for lack of room, or the chain got these tokens and may go on.
Refused(more) ==
  more /\ Cardinality(DOMAIN conts) >= MaxPageTokens /\ UNCHANGED <<chains, conts>>

Granted(tokens, more, from, state) ==
  /\ ~more \/ ~(Cardinality(DOMAIN conts) >= MaxPageTokens)
  /\ DOMAIN chains' = DOMAIN chains /\ Len(chains') = Len(chains)
  /\ chains'[req.chain] =
       [parent |-> chains[req.chain].parent, filter |-> chains[req.chain].filter,
        told |-> chains[req.chain].told \o tokens, whole |-> ~more,
        since |-> chains[req.chain].since]
  /\ \A c \in DOMAIN chains : c # req.chain => chains'[c] = chains[c]
  /\ more => /\ DOMAIN conts' = DOMAIN conts \cup {calls}
             /\ conts'[calls] = [parent |-> req.parent, filter |-> req.filter,
                                 chain |-> req.chain, from |-> from, page |-> state]
             /\ \A t \in DOMAIN conts : t # calls => conts'[t] = conts[t]
  /\ ~more => conts' = conts

LEMMA ReplyFacts ==
  ASSUME NEW tokens, NEW more \in BOOLEAN, NEW from, NEW state, Reply(tokens, more, from, state),
         ChainsOK(nodes, chains, faults), req.chain \in DOMAIN chains
  PROVE  /\ GiveUp
         /\ Refused(more) \/ Granted(tokens, more, from, state)
<1> DEFINE c == req.chain
           e == [chains[c] EXCEPT !.told = chains[c].told \o tokens, !.whole = ~more]
           entry == [parent |-> req.parent, filter |-> req.filter,
                     chain |-> req.chain, from |-> from, page |-> state]
<1>1. GiveUp
  BY DEF Reply
<1>2. CASE more /\ Cardinality(DOMAIN conts) >= MaxPageTokens
  BY <1>1, <1>2 DEF Reply, Refused
<1>3. CASE ~more \/ ~(Cardinality(DOMAIN conts) >= MaxPageTokens)
  <2>1. /\ chains' = [chains EXCEPT ![c].told = @ \o tokens, ![c].whole = ~more]
        /\ conts' = IF more THEN With(conts, calls, entry) ELSE conts
    BY <1>3 DEF Reply
  <2>2. /\ chains \in Seq(Chains(DOMAIN nodes)) /\ c \in DOMAIN chains
        /\ DOMAIN chains = 1 .. Len(chains) /\ Len(chains) \in Nat
    BY LenProperties DEF ChainsOK
  <2>3. chains[c] \in Chains(DOMAIN nodes)
    BY <2>2
  <2>4. chains' = [chains EXCEPT ![c] = e]
    BY <2>1, <2>2, <2>3 DEF Chains
  <2>5. e = [parent |-> chains[c].parent, filter |-> chains[c].filter,
             told |-> chains[c].told \o tokens, whole |-> ~more, since |-> chains[c].since]
    <3> DEFINE told == chains[c].told \o tokens
               whole == ~more
    <3>1. /\ e = [chains[c] EXCEPT !.told = told, !.whole = whole]
          /\ chains[c] \in Chains(DOMAIN nodes)
      BY <2>3
    <3> HIDE DEF told, whole, c, e
    <3>2. e \in [parent : {chains[c].parent}, filter : {chains[c].filter}, told : {told},
                 whole : {whole}, since : {chains[c].since}]
      BY <3>1 DEF Chains
    <3>3. QED
      BY <3>2, ChainIs DEF told, whole
  <2> HIDE DEF e, c, entry
  <2>6. DOMAIN chains' = 1 .. Len(chains)
    BY <2>2, <2>4
  <2>7. Len(chains') = Len(chains)
    <3>1. chains \in Seq(Chains(DOMAIN nodes) \cup {e})
      BY <2>2, SeqMonotonic
    <3>2. QED
      BY <2>2, <2>4, <3>1, ExceptSeq
  <2>8. chains'[c] = e /\ \A d \in DOMAIN chains : d # c => chains'[d] = chains[d]
    BY <2>2, <2>4
  <2>9. more => /\ DOMAIN conts' = DOMAIN conts \cup {calls} /\ conts'[calls] = entry
                /\ \A t \in DOMAIN conts : t # calls => conts'[t] = conts[t]
    <3> DEFINE new == With(conts, calls, entry)
    <3>1. /\ DOMAIN new = DOMAIN conts \cup {calls} /\ new[calls] = entry
          /\ \A t \in DOMAIN conts : t # calls => new[t] = conts[t]
      BY DEF With, new
    <3>2. more => conts' = new
      BY <2>1
    <3> HIDE DEF new
    <3>3. QED
      BY <3>1, <3>2
  <2>10. QED
    BY <1>1, <1>3, <2>1, <2>2, <2>5, <2>6, <2>7, <2>8, <2>9 DEF c, entry, Granted
<1>4. QED
  BY <1>2, <1>3
-----------------------------------------------------------------------------
(* The type invariant: the values an action can reach. *)

LEMMA PageTypes ==
  ASSUME TypeInv, pc \in {"move", "names"}
  PROVE  /\ backend = "da2" /\ page \in Pages /\ page.trail = Trail(nodes, req.parent)
         /\ page.trail \in Seq(Words) /\ page.begun \in BOOLEAN /\ page.merged \subseteq Words
         /\ page.branches \in {Nil} \cup Iterators(Words)
         /\ page.items \in {Nil} \cup Iterators(Words)
         /\ req \in Requested(DOMAIN nodes) /\ req.from = Nil
         /\ req.filter \in Filters /\ req.parent \in {Nil} \cup DOMAIN nodes /\ req.size \in Nat
<1>1. /\ backend = "da2" /\ req \in Requested(DOMAIN nodes)
      /\ WorkOK(nodes, chains, backend, req, req.from, page)
  BY DEF TypeInv, PageOK
<1>2. page \in Pages /\ page.trail = Trail(nodes, req.parent) /\ req.from = Nil
  BY <1>1 DEF WorkOK
<1>3. QED
  BY <1>1, <1>2 DEF Pages, Requested

LEMMA MoveFacts ==
  ASSUME TypeInv, pc = "move"
  PROVE  /\ IsSeq(path) /\ IsSeq(page.trail) /\ path \in Seq(Words) /\ page.trail \in Seq(Words)
         /\ Len(path) \in Nat /\ Len(page.trail) \in Nat
         /\ Shared \in Nat /\ Shared <= Len(path) /\ Shared <= Len(page.trail)
         /\ \A i \in 1 .. Shared : path[i] = page.trail[i]
         /\ path = page.trail => Shared = Len(path)
         /\ Len(path) = Shared /\ path # page.trail => Len(path) < Len(page.trail) /\ DownName \in Words
<1>1. path \in Seq(Words) /\ page.trail \in Seq(Words)
  BY PageTypes DEF TypeInv, Scalars
<1>2. IsSeq(path) /\ IsSeq(page.trail)
  BY <1>1, SeqIsSeq
<1>3. Len(path) \in Nat /\ Len(page.trail) \in Nat
  BY <1>1
<1>4. /\ Shared \in Nat /\ Shared <= Len(path) /\ Shared <= Len(page.trail)
      /\ \A i \in 1 .. Shared : path[i] = page.trail[i]
      /\ path = page.trail => Shared = Len(path)
  BY <1>2, SharedNames DEF Shared
<1> HIDE DEF Shared
<1>5. ASSUME Len(path) = Shared, path # page.trail
      PROVE  Len(path) < Len(page.trail) /\ DownName \in Words
  <2>1. Len(path) # Len(page.trail)
    BY <1>2, <1>4, <1>5, SameSeq
  <2>2. Len(path) < Len(page.trail)
    BY <1>3, <1>4, <1>5, <2>1
  <2>3. Len(path) + 1 \in 1 .. Len(page.trail)
    BY <1>3, <2>2
  <2>4. QED
    BY <1>1, <2>2, <2>3 DEF DownName
<1>6. QED
  BY <1>1, <1>2, <1>3, <1>4, <1>5

LEMMA BelowFacts ==
  ASSUME NEW name, cursor \in Nodes, NEW n \in Below(name)
  PROVE  n \in KidsOf(cursor) /\ n \in Nodes /\ Name[n] = name /\ n \in Enterable
<1>1. n \in KidsOf(cursor) /\ Name[n] = name /\ n \in Enterable
  BY DEF Below, ChildNamed
<1>2. QED
  BY <1>1, KidFacts

LEMMA AfterUpType == ASSUME TypeInv, pc = "move" PROVE AfterUp \in Seq(Words)
<1>1. path \in Seq(Words) /\ Shared \in Nat /\ Shared <= Len(path)
  BY MoveFacts
<1> HIDE DEF Shared
<1>2. Len(path) \in Nat
  BY <1>1
<1>3. SubSeq(path, 1, Shared) \in Seq(Words)
  <2>1. \A i \in 1 .. Shared : path[i] \in Words
    BY <1>1, <1>2
  <2>2. SubSeq(path, 1, Shared) = [i \in 1 .. Shared |-> path[i]]
    <3>1. IsSeq(path) /\ Shared \in 0 .. Len(path)
      BY <1>1, <1>2, SeqIsSeq
    <3>2. /\ IsSeq(SubSeq(path, 1, Shared)) /\ Len(SubSeq(path, 1, Shared)) = Shared
          /\ \A i \in 1 .. Shared : SubSeq(path, 1, Shared)[i] = path[i]
      BY <3>1, PrefixSeq
    <3> DEFINE s == SubSeq(path, 1, Shared)
    <3>3. DOMAIN s = 1 .. Shared /\ s = [i \in DOMAIN s |-> s[i]]
      BY <3>2, SeqElements DEF IsSeq
    <3> HIDE DEF s
    <3>4. s = [i \in 1 .. Shared |-> path[i]]
      BY <3>2, <3>3 DEF s
    <3>5. QED
      BY <3>4 DEF s
  <2>3. QED
    BY <1>1, <2>1, <2>2
<1>4. QED
  BY <1>1, <1>3 DEF AfterUp

LEMMA AnswerFacts ==
  ASSUME NEW name \in Words, cursor \in Nodes
  PROVE  /\ \A r \in Resolved(name) : r.id \in Words \cup {Nil} /\ r.cost \in {0, 1}
         /\ \A v \in Navigable(name) : v.in \in BOOLEAN /\ v.cost \in {0, 1}
<1>1. \A k \in ChildNamed(cursor, name) : Id[k] \in Words
  BY KidFacts, NodeWords DEF ChildNamed
<1>2. ASSUME NEW r \in Resolved(name) PROVE r.id \in Words \cup {Nil} /\ r.cost \in {0, 1}
  BY <1>1, <1>2 DEF Resolved
<1>3. ASSUME NEW v \in Navigable(name) PROVE v.in \in BOOLEAN /\ v.cost \in {0, 1}
  <2>1. \/ v = [in |-> TRUE, cost |-> 0] \/ v = [in |-> FALSE, cost |-> 0]
        \/ v = [in |-> FALSE, cost |-> 1]
    <3>1. CASE Below(name) # {}
      <4>1. (Below(name) # {}) = TRUE
        BY <3>1
      <4>2. QED
        BY <1>3, <4>1 DEF Navigable
    <3>2. CASE Below(name) = {}
      <4>1. (Below(name) # {}) = FALSE
        BY <3>2
      <4>2. QED
        BY <1>3, <4>1 DEF Navigable
    <3>3. QED
      BY <3>1, <3>2
  <2>2. v.in = TRUE \/ v.in = FALSE
    BY <2>1
  <2>3. v.cost \in {0, 1}
    BY <2>1
  <2>4. QED
    BY <2>2, <2>3
<1>4. QED
  BY <1>2, <1>3

\* What a name read from an enumerator of this page comes with.
LEMMA ReadFacts ==
  ASSUME TypeInv, pc = "names", NEW it \in {page.branches, page.items}, it # Nil,
         NEW x \in NextOf(it)
  PROVE  /\ x.cost \in {0, 1} /\ x.f.it \in Iterators(Words) /\ x.f.res \in Outcomes
         /\ x.f.res.kind \in {"name", "end", "stuck", "broken"}
         /\ x.f.res.kind = "name" =>
              /\ x.f.res.name \in Words
              /\ \A r \in Resolved(x.f.res.name) : r.id \in Words \cup {Nil} /\ r.cost \in {0, 1}
              /\ \A v \in Navigable(x.f.res.name) : v.in \in BOOLEAN /\ v.cost \in {0, 1}
<1>1. it \in Iterators(Words) /\ cursor \in Nodes
  BY PageTypes DEF TypeInv, Scalars
<1>2. x.cost \in {0, 1} /\ x.f.it \in Iterators(Words) /\ x.f.res \in Outcomes
  BY <1>1, NextFacts
<1>3. /\ x.f.res.kind \in {"name", "end", "stuck", "broken"}
      /\ x.f.res.kind = "name" => x.f.res.name \in Words
  BY <1>2, OutcomeFacts
<1>4. QED
  BY <1>1, <1>2, <1>3, AnswerFacts
LEMMA Spent ==
  ASSUME faults \in Nat, NEW n \in Nat, Spend(n)
  PROVE  faults' \in Nat /\ faults <= faults' /\ (faults' = faults => n = 0)
BY DEF Spend

Steady == faults' \in Nat /\ faults <= faults' /\ profile' = profile

LEMMA ReadCost ==
  ASSUME TypeInv, pc = "names", NEW it \in {page.branches, page.items}, it # Nil,
         NEW x \in NextOf(it)
  PROVE  x.cost \in Nat /\ x.cost + 1 \in Nat
BY ReadFacts

LEMMA EndPageCost ==
  ASSUME TypeInv, EndPage
  PROVE  Steady /\ pc' = "idle" /\ ups' = 0
<1>1. /\ page.branches \in {Nil} \cup Iterators(Words) /\ page.items \in {Nil} \cup Iterators(Words)
      /\ faults \in Nat
  BY PageTypes DEF EndPage, PageFull, TypeInv, ChainsOK
<1>2. \A b \in Peeks(page.branches) : b.cost \in {0, 1}
  BY <1>1, PeekFacts
<1>3. \A i \in Peeks(page.items) : i.cost \in {0, 1}
  BY <1>1, PeekFacts
<1>4. profile' = profile
  BY DEF EndPage
<1>5. PICK b \in Peeks(page.branches) :
       IF b.f.res.kind \in {"name", "broken"}
       THEN /\ Spend(b.cost)
            /\ Reply(out, TRUE, Nil, [page EXCEPT !.branches = b.f.it])
       ELSE \E i \in Peeks(page.items) :
            /\ Spend(b.cost + i.cost)
            /\ Reply(out, i.f.res.kind # "end", Nil,
                     [page EXCEPT !.branches = IF b.f.res.kind = "stuck" THEN Nil ELSE b.f.it,
                                  !.items = i.f.it])
  BY DEF EndPage
<1>6. CASE b.f.res.kind \in {"name", "broken"}
  <2>1. Spend(b.cost) /\ b.cost \in Nat /\ pc' = "idle" /\ ups' = 0
    BY <1>2, <1>5, <1>6 DEF Reply, GiveUp
  <2>2. QED
    BY <1>1, <1>4, <2>1, Spent DEF Steady
<1>7. CASE b.f.res.kind \notin {"name", "broken"}
  <2>1. PICK i \in Peeks(page.items) :
            /\ Spend(b.cost + i.cost)
            /\ Reply(out, i.f.res.kind # "end", Nil,
                     [page EXCEPT !.branches = IF b.f.res.kind = "stuck" THEN Nil ELSE b.f.it,
                                  !.items = i.f.it])
    BY <1>5, <1>7
  <2>2. b.cost + i.cost \in Nat /\ pc' = "idle" /\ ups' = 0
    BY <1>2, <1>3, <2>1 DEF Reply, GiveUp
  <2>3. QED
    BY <1>1, <1>4, <2>1, <2>2, Spent DEF Steady
<1>8. QED
  BY <1>6, <1>7

LEMMA SmallSteps ==
  ASSUME TypeInv, Next
  PROVE  Scalars' /\ Steady
<1>1. /\ Scalars /\ faults \in Nat /\ cursor \in Nodes /\ path \in Seq(Words)
  BY DEF TypeInv, Scalars, ChainsOK
<1> DEFINE Same == UNCHANGED <<profile, rootDone, backend, cursor, path, adrift>>
<1>2. ASSUME Same, ups' \in {0, ups}, pc' \in {"idle", "da3", "move", "names"} PROVE Scalars'
  BY <1>1, <1>2 DEF Scalars
<1>3. CASE Call
  <2> DEFINE Fine == /\ Same /\ ups' \in {0, ups} /\ faults' = faults
                     /\ pc' \in {"idle", "da3", "move", "names"}
  <2>1. ASSUME NEW parent, NEW filter, NEW size, FirstPage(parent, filter, size) PROVE Fine
    BY <1>1, <2>1 DEF FirstPage, Serve, Scalars
  <2>2. ASSUME NEW token, NEW parent, NEW filter, NEW size, NextPage(token, parent, filter, size)
        PROVE Fine
    BY <1>1, <2>2 DEF NextPage, Serve, Scalars
  <2>3. Fine
    BY <1>3, <2>1, <2>2 DEF Call
  <2>4. QED
    BY <1>1, <1>2, <2>3 DEF Steady
<1>4. CASE Da3Page
  <2>1. /\ UNCHANGED <<profile, backend, cursor, path, adrift>> /\ faults' = faults
        /\ rootDone' \in BOOLEAN /\ pc' = "idle" /\ ups' = 0
    BY <1>1, <1>4 DEF Da3Page, Reply, GiveUp, Scalars
  <2>2. QED
    BY <1>1, <2>1 DEF Scalars, Steady
<1>5. CASE Da3Fails
  <2>1. Same /\ pc' = "idle" /\ ups' = 0 /\ Spend(1)
    BY <1>5 DEF Da3Fails, GiveUp
  <2>2. QED
    BY <1>1, <1>2, <2>1, Spent DEF Steady
<1>6. CASE Incompatible
  <2>1. /\ UNCHANGED <<profile, rootDone, cursor, adrift>> /\ ups' \in {0, ups}
        /\ pc' \in {"idle", "move"} /\ backend' \in {backend, "da2"}
        /\ path' = path \/ path' = <<>>
    BY <1>6 DEF Incompatible, GiveUp
  <2> DEFINE cost == IF profile.stub THEN 0 ELSE 1
  <2>2. cost \in Nat /\ Spend(cost)
    BY <1>6 DEF Incompatible
  <2> HIDE DEF cost
  <2>3. Steady
    <3>1. faults' \in Nat /\ faults <= faults'
      BY <1>1, <2>2, Spent
    <3>2. profile' = profile
      BY <2>1
    <3>3. QED
      BY <3>1, <3>2 DEF Steady
  <2>4. path' \in Seq(Words) /\ ups' \in Nat
    <3>1. <<>> \in Seq(Words)
      OBVIOUS
    <3>2. ups \in Nat
      BY <1>1 DEF Scalars
    <3>3. ups' \in Nat
      BY <2>1, <3>2
    <3>4. path' \in Seq(Words)
      <4>1. CASE path' = path
        BY <1>1, <4>1
      <4>2. CASE path' = <<>>
        BY <3>1, <4>2
      <4>3. QED
        BY <2>1, <4>1, <4>2
    <3>5. QED
      BY <3>3, <3>4
  <2>5. /\ pc' \in {"idle", "da3", "move", "names"} /\ backend' \in {"da3", "da2"}
        /\ profile' \in Profile /\ adrift' \in BOOLEAN /\ rootDone' \in BOOLEAN /\ cursor' \in Nodes
    BY <1>1, <2>1 DEF Scalars
  <2>6. QED
    BY <2>3, <2>4, <2>5 DEF Scalars
<1>7. CASE MoveUp
  <2>1. /\ UNCHANGED <<profile, rootDone, backend, adrift, pc>> /\ faults' = faults
        /\ cursor # Root /\ cursor' = Parent(cursor) /\ path' = AfterUp /\ ups' \in {ups + 1, 0}
        /\ pc = "move"
    BY <1>7 DEF MoveUp, UpWorks
  <2>2. Parent(cursor) \in Nodes /\ AfterUp \in Seq(Words)
    BY <1>1, <2>1, ParentFacts, AfterUpType
  <2>3. QED
    BY <1>1, <2>1, <2>2 DEF Scalars, Steady
<1>8. CASE MoveUpRefused
  <2>1. /\ UNCHANGED <<profile, rootDone, backend, cursor, path>> /\ adrift' = TRUE /\ pc' = "idle" /\ ups' = 0
    BY <1>8 DEF MoveUpRefused, GiveUp
  <2>2. (IF UpWorks THEN 1 ELSE 0) \in Nat
    OBVIOUS
  <2>3. Steady
    BY <1>1, <1>8, <2>1, <2>2, Spent DEF MoveUpRefused, Steady
  <2>4. QED
    BY <1>1, <2>1, <2>3 DEF Scalars
<1>9. CASE MoveDown
  <2>1. /\ UNCHANGED <<profile, rootDone, backend, adrift, pc, ups>> /\ faults' = faults
        /\ cursor' \in Below(DownName) /\ path' = Append(path, DownName)
        /\ pc = "move" /\ Len(path) = Shared /\ path # page.trail
    BY <1>9 DEF MoveDown, AtShared
  <2>2. DownName \in Words /\ cursor' \in Nodes
    BY <1>1, <2>1, MoveFacts, BelowFacts
  <2> HIDE DEF DownName
  <2>3. Append(path, DownName) \in Seq(Words)
    BY <1>1, <2>2
  <2>4. QED
    BY <1>1, <2>1, <2>2, <2>3 DEF Scalars, Steady
<1>10. CASE MoveDownRefused
  <2>1. Same /\ pc' = "idle" /\ ups' = 0
    BY <1>10 DEF MoveDownRefused, GiveUp
  <2>2. (IF Below(DownName) = {} THEN 0 ELSE 1) \in Nat
    OBVIOUS
  <2>3. Steady
    BY <1>1, <1>10, <2>1, <2>2, Spent DEF MoveDownRefused, Steady
  <2>4. QED
    BY <1>2, <2>1, <2>3
<1>11. CASE Begin \/ Arrive
  BY <1>1, <1>2, <1>11 DEF Begin, Arrive, Steady
<1>12. CASE NextBranch
  <2>1. Same /\ ups' \in {0, ups} /\ pc' \in {"idle", pc}
    BY <1>12 DEF NextBranch, List, Skip, GiveUp
  <2>2. pc = "names" /\ page.branches # Nil
    BY <1>12 DEF NextBranch, InBranches, Listing
  <2>3. PICK x \in NextOf(page.branches) :
          /\ x.f.res.kind = "name"
          /\ \E r \in Resolved(x.f.res.name), v \in Navigable(x.f.res.name) :
               Spend(x.cost + r.cost + v.cost)
    BY <1>12 DEF NextBranch
  <2>4. PICK r \in Resolved(x.f.res.name) :
          \E v \in Navigable(x.f.res.name) : Spend(x.cost + r.cost + v.cost)
    BY <2>3
  <2>5. PICK v \in Navigable(x.f.res.name) : Spend(x.cost + r.cost + v.cost)
    BY <2>4
  <2>6. x.cost + r.cost + v.cost \in Nat
    BY <2>2, <2>3, ReadFacts
  <2>7. Steady
    BY <1>1, <2>1, <2>5, <2>6, Spent DEF Steady
  <2>8. QED
    BY <1>1, <1>2, <2>1, <2>7 DEF Scalars
<1>13. CASE EndBranches \/ EndItems
  <2>1. Same /\ ups' = ups /\ pc' = pc
    BY <1>13 DEF EndBranches, EndItems
  <2>2. PICK it \in {page.branches, page.items} :
          pc = "names" /\ it # Nil /\ \E x \in NextOf(it) : Spend(x.cost)
    BY <1>13 DEF EndBranches, EndItems, InBranches, InItems, Listing
  <2>3. PICK x \in NextOf(it) : Spend(x.cost)
    BY <2>2
  <2>4. x.cost \in Nat
    BY <2>2, ReadCost
  <2>5. Steady
    BY <1>1, <2>1, <2>3, <2>4, Spent DEF Steady
  <2>6. QED
    BY <1>1, <1>2, <2>1, <2>5 DEF Scalars
<1>14. CASE NextItem
  <2>1. Same /\ ups' \in {0, ups} /\ pc' \in {"idle", pc}
    BY <1>14 DEF NextItem, List, Skip, GiveUp
  <2>2. pc = "names" /\ page.items # Nil
    BY <1>14 DEF NextItem, InItems, Listing
  <2>3. PICK x \in NextOf(page.items) :
          /\ x.f.res.kind = "name"
          /\ \/ Spend(x.cost)
             \/ \E v \in Navigable(x.f.res.name) : Spend(x.cost + v.cost)
    BY <1>14 DEF NextItem
  <2>4. x.cost \in Nat /\ \A v \in Navigable(x.f.res.name) : x.cost + v.cost \in Nat
    BY <2>2, <2>3, ReadFacts
  <2>5. Steady
    BY <1>1, <2>1, <2>3, <2>4, Spent DEF Steady
  <2>6. QED
    BY <1>1, <1>2, <2>1, <2>5 DEF Scalars
<1>15. CASE NamesFail
  <2>1. Same /\ ups' = 0 /\ pc' = "idle"
    BY <1>15 DEF NamesFail, GiveUp
  <2>2. PICK it \in {page.branches, page.items} :
          pc = "names" /\ it # Nil /\ \E x \in NextOf(it) : Spend(x.cost)
    BY <1>15 DEF NamesFail, InBranches, InItems, Listing
  <2>3. PICK x \in NextOf(it) : Spend(x.cost)
    BY <2>2
  <2>4. x.cost \in Nat
    BY <2>2, ReadCost
  <2>5. Steady
    BY <1>1, <2>1, <2>3, <2>4, Spent DEF Steady
  <2>6. QED
    BY <1>2, <2>1, <2>5
<1>16. CASE CallFails
  <2>1. Same /\ ups' = 0 /\ pc' = "idle" /\ Spend(1)
    BY <1>16 DEF CallFails, GiveUp
  <2>2. QED
    BY <1>1, <1>2, <2>1, Spent DEF Steady
<1>17. CASE ProbeStrands
  <2>1. /\ UNCHANGED <<profile, rootDone, backend, path>> /\ adrift' = TRUE /\ pc' = "idle" /\ ups' = 0
    BY <1>17 DEF ProbeStrands, GiveUp
  <2>2. PICK it \in {page.branches, page.items} :
          /\ pc = "names" /\ it # Nil
          /\ \E x \in NextOf(it) : Spend(x.cost + 1) /\ cursor' \in Below(x.f.res.name)
    BY <1>17 DEF ProbeStrands, InBranches, InItems, Listing
  <2>3. PICK x \in NextOf(it) : Spend(x.cost + 1) /\ cursor' \in Below(x.f.res.name)
    BY <2>2
  <2>4. x.cost + 1 \in Nat
    BY <2>2, ReadCost
  <2>5. Steady /\ cursor' \in Nodes
    BY <1>1, <2>1, <2>3, <2>4, Spent, BelowFacts DEF Steady
  <2>6. QED
    BY <1>1, <2>1, <2>5 DEF Scalars
<1>18. CASE EndPage
  <2>1. Same /\ Steady /\ pc' = "idle" /\ ups' = 0
    BY <1>18, EndPageCost DEF EndPage
  <2>2. QED
    BY <1>2, <2>1
<1>19. QED
  BY <1>3, <1>4, <1>5, <1>6, <1>7, <1>8, <1>9, <1>10, <1>11, <1>12, <1>13, <1>14, <1>15, <1>16,
     <1>17, <1>18 DEF Next, Da3, Move, Read
-----------------------------------------------------------------------------
(* The type invariant: steps of a kind. *)

\* A page that is given up, and one that goes on, keep the tokens.
LEMMA TypeQuit ==
  ASSUME TypeInv, Scalars', Steady, NodesOK(nodes'), Grown(nodes, nodes'), GiveUp,
         UNCHANGED <<backend, conts, chains, calls>>
  PROVE  TypeInv'
<1>1. ChainsOK(nodes', chains', faults') /\ ContsOK(nodes', chains', backend', conts', calls')
  BY ChainsKept, ContsKept, GrownSelf DEF TypeInv, Steady
<1>2. PageOK(nodes', chains', backend', conts', calls', pc', req', page', out')
  <2>1. pc' = "idle" /\ page' = Nil /\ out' = <<>>
    BY DEF GiveUp
  <2>2. <<>> \in Seq(DOMAIN nodes')
    OBVIOUS
  <2>3. QED
    BY <2>1, <2>2 DEF PageOK
<1>3. QED
  BY <1>1, <1>2 DEF TypeInv

LEMMA TypeWork ==
  ASSUME TypeInv, Scalars', Steady, NodesOK(nodes'), Grown(nodes, nodes'),
         pc \in {"move", "names"}, pc' \in {"move", "names"},
         UNCHANGED <<backend, conts, chains, calls, req>>,
         page' \in Pages, page'.trail = page.trail, out' \in Seq(DOMAIN nodes'),
         pc' = "move" => out' = <<>>, pc' = "names" => page'.begun
  PROVE  TypeInv'
<1>1. ChainsOK(nodes', chains', faults') /\ ContsOK(nodes', chains', backend', conts', calls')
  BY ChainsKept, ContsKept, GrownSelf DEF TypeInv, Steady
<1>2. /\ req \in Requested(DOMAIN nodes) /\ calls # 0 /\ calls \notin DOMAIN conts
      /\ backend = "da2" /\ WorkOK(nodes, chains, backend, req, req.from, page)
  BY DEF TypeInv, PageOK
<1>3. req' \in Requested(DOMAIN nodes') /\ req.parent \in {Nil} \cup DOMAIN nodes
  BY <1>2, RequestKept
<1>4. WorkOK(nodes, chains, backend, req, req.from, page')
  BY <1>2 DEF WorkOK
<1>5. WorkOK(nodes', chains, backend, req, req.from, page')
  BY <1>3, <1>4, WorkKept, GrownSelf
<1>6. PageOK(nodes', chains', backend', conts', calls', pc', req', page', out')
  BY <1>2, <1>3, <1>5 DEF PageOK
<1>7. QED
  BY <1>1, <1>6 DEF TypeInv

LEMMA RequestType ==
  ASSUME NEW tokens, NEW parent \in {Nil} \cup tokens, NEW filter \in Filters, NEW size \in Nat,
         NEW chain \in Nat, NEW from \in {Nil} \cup Seq(Nodes)
  PROVE  LET w == [parent |-> parent, filter |-> filter, size |-> size,
                   chain |-> chain, from |-> from]
         IN /\ w \in Requested(tokens) /\ w.parent = parent /\ w.filter = filter
            /\ w.chain = chain /\ w.from = from /\ w.size = size
BY DEF Requested

LEMMA TypeServe ==
  ASSUME TypeInv, Scalars', Steady, pc = "idle", UNCHANGED <<nodes, backend>>,
         NEW parent \in {Nil} \cup DOMAIN nodes, NEW filter \in Filters, NEW size \in Nat,
         NEW chain \in Nat, NEW from \in {Nil} \cup Seq(Nodes), NEW state,
         Serve(parent, filter, size, chain, from, state),
         ChainsOK(nodes, chains', faults'), ContsOK(nodes, chains', backend, conts', calls),
         NEW w, w.parent = parent, w.filter = filter, w.chain = chain,
         WorkOK(nodes, chains', backend, w, from, state)
  PROVE  TypeInv'
<1>1. /\ calls' = calls + 1 /\ page' = state /\ ups' = 0 /\ out' = <<>>
      /\ req' = [parent |-> parent, filter |-> filter, size |-> size, chain |-> chain, from |-> from]
      /\ pc' = IF state = Nil THEN "da3" ELSE IF Flat /\ state.begun THEN "names" ELSE "move"
  BY DEF Serve
<1>2. /\ req' \in Requested(DOMAIN nodes) /\ req'.parent = parent /\ req'.filter = filter
      /\ req'.chain = chain /\ req'.from = from
  BY <1>1, RequestType
<1>3. WorkOK(nodes, chains', backend, req', req'.from, page')
  <2>1. \A n \in At(nodes, req'.parent) : Elements(n, w.filter) = Elements(n, req'.filter)
    BY <1>2
  <2>2. At(nodes, req'.parent) = At(nodes, w.parent) /\ Trail(nodes, req'.parent) = Trail(nodes, w.parent)
    BY <1>2
  <2>3. QED
    BY <1>1, <1>2, <2>1, <2>2 DEF WorkOK
<1>4. /\ ContsOK(nodes, chains', backend, conts', calls')
      /\ calls' # 0 /\ calls' \notin DOMAIN conts'
  BY <1>1 DEF ContsOK
<1>5. /\ pc' = "da3" => backend = "da3"
      /\ pc' \in {"move", "names"} => backend = "da2"
      /\ pc' = "names" => page'.begun
  <2>1. \/ backend = "da3" /\ state = Nil
        \/ backend = "da2" /\ state # Nil
    BY NoneAssumption DEF WorkOK
  <2>2. QED
    BY <1>1, <2>1
<1>6. <<>> \in Seq(DOMAIN nodes)
  OBVIOUS
<1>7. pc' # "idle"
  BY <1>1
<1>8. PageOK(nodes, chains', backend, conts', calls', pc', req', page', out')
  BY <1>1, <1>2, <1>3, <1>4, <1>5, <1>6, <1>7 DEF PageOK
<1>9. QED
  BY <1>4, <1>8 DEF TypeInv

LEMMA TypeReply ==
  ASSUME TypeInv, Scalars', Steady, NodesOK(nodes'), Grown(nodes, nodes'), pc # "idle",
         UNCHANGED <<backend, calls>>,
         NEW tokens \in Seq(DOMAIN nodes'), NEW more \in BOOLEAN, NEW from, NEW state,
         Reply(tokens, more, from, state),
         more => /\ from \in {Nil} \cup Seq(Nodes) /\ state \in {Nil} \cup Pages
                 /\ WorkOK(nodes, chains, backend, req, from, state)
  PROVE  TypeInv'
<1>1. /\ req \in Requested(DOMAIN nodes) /\ calls # 0 /\ calls \notin DOMAIN conts
      /\ WorkOK(nodes, chains, backend, req, req.from, page) /\ calls \in Nat
  BY DEF TypeInv, PageOK, ContsOK
<1>2. req.chain \in DOMAIN chains /\ ChainsOK(nodes, chains, faults)
      /\ ContsOK(nodes, chains, backend, conts, calls)
  BY <1>1 DEF WorkOK, TypeInv
<1>3. GiveUp /\ (Refused(more) \/ Granted(tokens, more, from, state))
  BY <1>2, ReplyFacts
<1>4. <<>> \in Seq(DOMAIN nodes')
  OBVIOUS
<1>5. PageOK(nodes', chains', backend', conts', calls', pc', req', page', out')
  BY <1>3, <1>4 DEF PageOK, GiveUp
<1>6. CASE Refused(more)
  <2>1. ChainsOK(nodes', chains', faults') /\ ContsOK(nodes', chains', backend', conts', calls')
    BY <1>2, <1>6, ChainsKept, ContsKept, GrownSelf DEF Steady, Refused
  <2>2. QED
    BY <1>5, <2>1 DEF TypeInv
<1>7. CASE Granted(tokens, more, from, state)
  <2> DEFINE c == req.chain
             told == chains[c].told \o tokens
             entry == [parent |-> req.parent, filter |-> req.filter,
                       chain |-> req.chain, from |-> from, page |-> state]
  <2>1. /\ DOMAIN chains' = DOMAIN chains /\ Len(chains') = Len(chains)
        /\ chains'[c] = [parent |-> chains[c].parent, filter |-> chains[c].filter,
                         told |-> told, whole |-> ~more, since |-> chains[c].since]
        /\ \A d \in DOMAIN chains : d # c => chains'[d] = chains[d]
    BY <1>7 DEF Granted
  <2>2. ChainsOK(nodes', chains, faults')
    BY <1>2, ChainsKept DEF Steady
  <2>3. /\ chains \in Seq(Chains(DOMAIN nodes')) /\ c \in DOMAIN chains
        /\ DOMAIN chains = 1 .. Len(chains) /\ Len(chains) \in Nat
    BY <1>2, <2>2, LenProperties DEF ChainsOK
  <2>4. chains[c] \in Chains(DOMAIN nodes')
    BY <2>3
  <2>5. told \in Seq(DOMAIN nodes') /\ (~more) \in BOOLEAN
    BY <2>4 DEF Chains
  <2> HIDE DEF told
  <2>6. chains'[c] \in Chains(DOMAIN nodes')
    BY <2>1, <2>4, <2>5 DEF Chains
  <2>7. \A d \in DOMAIN chains : chains'[d] \in Chains(DOMAIN nodes') /\ chains'[d].since = chains[d].since
    BY <2>1, <2>3, <2>6
  <2>8. chains' \in Seq(Chains(DOMAIN nodes'))
    <3>1. chains' = [d \in DOMAIN chains' |-> chains'[d]]
      <4>1. \/ chains' = [chains EXCEPT ![req.chain].told = @ \o tokens,
                                        ![req.chain].whole = ~more]
            \/ chains' = chains
        BY DEF Reply
      <4>2. chains = [d \in DOMAIN chains |-> chains[d]]
        BY <2>3
      <4>3. QED
        BY <4>1, <4>2
    <3>2. QED
      BY <2>1, <2>3, <2>7, <3>1
  <2>9. ChainsOK(nodes', chains', faults')
    BY <2>1, <2>2, <2>7, <2>8 DEF ChainsOK
  <2>10. Kept(chains, chains')
    <3>1. /\ chains'[c].parent = chains[c].parent /\ chains'[c].filter = chains[c].filter
          /\ chains'[c].since = chains[c].since
      BY <2>1
    <3>2. QED
      BY <2>1, <3>1 DEF Kept
  <2>11. ContsOK(nodes', chains', backend, conts, calls)
    BY <1>2, <2>10, ContsKept
  <2>12. CASE ~more
    <3>1. conts' = conts
      BY <1>7, <2>12 DEF Granted
    <3>2. QED
      BY <1>5, <2>9, <2>11, <3>1 DEF TypeInv
  <2>13. CASE more
    <3>1. /\ DOMAIN conts' = DOMAIN conts \cup {calls} /\ conts'[calls] = entry
          /\ \A t \in DOMAIN conts : t # calls => conts'[t] = conts[t]
      BY <1>7, <2>13 DEF Granted
    <3>2. /\ from \in {Nil} \cup Seq(Nodes) /\ state \in {Nil} \cup Pages
          /\ WorkOK(nodes, chains, backend, req, from, state)
      BY <2>13
    <3>3. req \in Requested(DOMAIN nodes') /\ req.parent \in {Nil} \cup DOMAIN nodes
      BY <1>1, RequestKept
    <3>4. WorkOK(nodes', chains', backend, req, from, state)
      BY <2>10, <3>2, <3>3, WorkKept
    <3>5. /\ entry \in Continued(DOMAIN nodes') /\ entry.from = from /\ entry.page = state
          /\ entry.parent = req.parent /\ entry.filter = req.filter /\ entry.chain = req.chain
      BY <3>2, <3>3 DEF Continued, Requested
    <3>6. WorkOK(nodes', chains', backend, entry, entry.from, entry.page)
      <4> HIDE DEF entry
      <4>1. QED
        BY <3>4, <3>5 DEF WorkOK
    <3> HIDE DEF entry
    <3>7. ContsOK(nodes', chains', backend, conts', calls)
      BY <1>1, <2>11, <3>1, <3>5, <3>6 DEF ContsOK
    <3>8. QED
      BY <1>5, <2>9, <3>7 DEF TypeInv
  <2>14. QED
    BY <2>12, <2>13
<1>8. QED
  BY <1>3, <1>6, <1>7
-----------------------------------------------------------------------------
(* The type invariant: what a DA 2 page reads. *)

Shape(p, trail, begun, b, i, m) ==
  /\ p \in Pages /\ p.trail = trail /\ (p.begun <=> begun)
  /\ p.branches = b /\ p.items = i /\ p.merged = m

LEMMA PageFields ==
  ASSUME NEW p \in Pages, NEW b \in {Nil} \cup Iterators(Words),
         NEW i \in {Nil} \cup Iterators(Words), NEW m \in SUBSET Words
  PROVE  /\ Shape([p EXCEPT !.begun = TRUE, !.branches = b, !.items = i], p.trail, TRUE, b, i, p.merged)
         /\ Shape([p EXCEPT !.branches = b, !.merged = m], p.trail, p.begun, b, p.items, m)
         /\ Shape([p EXCEPT !.branches = b], p.trail, p.begun, b, p.items, p.merged)
         /\ Shape([p EXCEPT !.items = i], p.trail, p.begun, p.branches, i, p.merged)
         /\ Shape([p EXCEPT !.branches = b, !.items = i], p.trail, p.begun, b, i, p.merged)
<1>1. Shape([p EXCEPT !.begun = TRUE, !.branches = b, !.items = i], p.trail, TRUE, b, i, p.merged)
  BY DEF Shape, Pages
<1>2. Shape([p EXCEPT !.branches = b, !.merged = m], p.trail, p.begun, b, p.items, m)
  BY DEF Shape, Pages
<1>3. Shape([p EXCEPT !.branches = b], p.trail, p.begun, b, p.items, p.merged)
  BY DEF Shape, Pages
<1>4. Shape([p EXCEPT !.items = i], p.trail, p.begun, p.branches, i, p.merged)
  BY DEF Shape, Pages
<1>5. Shape([p EXCEPT !.branches = b, !.items = i], p.trail, p.begun, b, i, p.merged)
  BY DEF Shape, Pages
<1>6. QED
  BY <1>1, <1>2, <1>3, <1>4, <1>5

\* A name became a node of the page.
Added(kind, name, id, state) ==
  /\ Len(nodes) \in Nat /\ DOMAIN nodes' = 1 .. Len(nodes) + 1 /\ out' = Append(out, Len(nodes) + 1)
  /\ nodes'[Len(nodes) + 1].kind = kind
  /\ nodes'[Len(nodes) + 1].name = name /\ nodes'[Len(nodes) + 1].id = id
  /\ page' = state
  /\ UNCHANGED <<pc, req, ups>>

ShownKind(in, id) ==
  CASE in /\ id # Nil -> "both" [] in /\ id = Nil -> "branch" [] OTHER -> "item"

LEMMA ListFacts ==
  ASSUME TypeInv, page.trail \in Seq(Words), NEW name \in Words, NEW id \in Words \cup {Nil},
         NEW in \in BOOLEAN, NEW state, List(name, id, in, state)
  PROVE  /\ NodesOK(nodes') /\ Grown(nodes, nodes')
         /\ GiveUp \/ Added(ShownKind(in, id), name, id, state)
<1> DEFINE kind == ShownKind(in, id)
           entry == Entry(kind, name, id,
                     IF in THEN Location("da2", Append(page.trail, name)) ELSE NowhereBelow)
<1>1. /\ Insert(<<entry>>)
      /\ IF Fits(<<entry>>)
         THEN /\ out' = Append(out, Len(nodes) + 1)
              /\ page' = state
              /\ UNCHANGED <<pc, req, ups>>
         ELSE GiveUp
  BY DEF List, ShownKind
<1>2. kind \in {"both", "branch", "item", "none"}
  BY DEF ShownKind
<1>3. entry \in Entries
  <2>1. Append(page.trail, name) \in Seq(Words) /\ <<>> \in Seq(Words)
    OBVIOUS
  <2> HIDE DEF kind
  <2>2. QED
    BY <1>2, <2>1, EntryOK
<1>4. entry.kind = kind /\ entry.name = name /\ entry.id = id
  BY DEF Entry
<1> HIDE DEF kind, entry
<1>5. <<entry>> \in Seq(Entries) /\ Len(<<entry>>) = 1 /\ <<entry>>[1] = entry
  BY <1>3
<1> DEFINE s == <<entry>>
<1> HIDE DEF s
<1>6. s \in Seq(Entries) /\ Len(s) = 1 /\ s[1] = entry /\ Insert(s)
  BY <1>1, <1>5 DEF s
<1>7. NodesOK(nodes)
  BY DEF TypeInv
<1>8. /\ Grown(nodes, nodes') /\ NodesOK(nodes')
      /\ Fits(s) => /\ DOMAIN nodes' = 1 .. Len(nodes) + Len(s) /\ Len(nodes) \in Nat
                    /\ \A i \in 1 .. Len(s) : nodes'[Len(nodes) + i] = s[i]
  BY <1>6, <1>7, Inserted
<1>9. CASE Fits(s)
  <2>1. out' = Append(out, Len(nodes) + 1) /\ page' = state /\ UNCHANGED <<pc, req, ups>>
    BY <1>1, <1>9 DEF s
  <2>2. 1 \in 1 .. Len(s)
    BY <1>6
  <2>3. nodes'[Len(nodes) + 1] = entry /\ DOMAIN nodes' = 1 .. Len(nodes) + 1 /\ Len(nodes) \in Nat
    BY <1>6, <1>8, <1>9, <2>2
  <2>4. QED
    BY <1>4, <1>8, <2>1, <2>3 DEF Added, kind
<1>10. CASE ~Fits(s)
  <2>1. GiveUp
    BY <1>1, <1>10 DEF s
  <2>2. QED
    BY <1>8, <2>1
<1>11. QED
  BY <1>9, <1>10

LEMMA TypeList ==
  ASSUME TypeInv, Scalars', Steady, pc = "names", UNCHANGED <<backend, conts, chains, calls>>,
         NEW name \in Words, NEW id \in Words \cup {Nil}, NEW in \in BOOLEAN,
         NEW state \in Pages, state.trail = page.trail, state.begun, List(name, id, in, state)
  PROVE  TypeInv'
<1>1. page.trail \in Seq(Words)
  BY PageTypes
<1>2. /\ NodesOK(nodes') /\ Grown(nodes, nodes')
      /\ GiveUp \/ Added(ShownKind(in, id), name, id, state)
  BY <1>1, ListFacts
<1>3. CASE GiveUp
  BY <1>2, <1>3, TypeQuit
<1>4. CASE Added(ShownKind(in, id), name, id, state)
  <2>1. /\ page' = state /\ pc' = pc /\ req' = req /\ out' = Append(out, Len(nodes) + 1)
        /\ Len(nodes) \in Nat /\ DOMAIN nodes' = 1 .. Len(nodes) + 1
    BY <1>4 DEF Added
  <2>2. out \in Seq(DOMAIN nodes) /\ DOMAIN nodes \subseteq DOMAIN nodes'
    BY <1>2 DEF TypeInv, PageOK, Grown
  <2>3. out \in Seq(DOMAIN nodes') /\ Len(nodes) + 1 \in DOMAIN nodes'
    BY <2>1, <2>2, SeqMonotonic
  <2>4. out' \in Seq(DOMAIN nodes')
    BY <2>1, <2>3
  <2>5. QED
    BY <1>2, <2>1, <2>4, TypeWork
<1>5. QED
  BY <1>2, <1>3, <1>4

LEMMA TypeStay ==
  ASSUME TypeInv, Scalars', Steady, pc \in {"move", "names"}, pc' \in {"move", "names"},
         UNCHANGED <<backend, conts, chains, calls, nodes, req>>,
         page' \in Pages, page'.trail = page.trail, out' = out,
         pc' = "move" => pc = "move", pc' = "names" => page'.begun
  PROVE  TypeInv'
<1>1. NodesOK(nodes') /\ Grown(nodes, nodes') /\ out \in Seq(DOMAIN nodes')
  BY GrownSelf DEF TypeInv, PageOK
<1>2. pc' = "move" => out' = <<>>
  BY DEF TypeInv, PageOK
<1>3. QED
  BY <1>1, <1>2, TypeWork

\* What NextBranch reads: a name, its item ID, and whether it can be entered.
BranchRead(x, r, v) ==
  /\ x \in NextOf(page.branches) /\ x.f.res.kind = "name"
  /\ r \in Resolved(x.f.res.name) /\ v \in Navigable(x.f.res.name)
  /\ Spend(x.cost + r.cost + v.cost)

BranchState(x, r, v) ==
  [page EXCEPT !.branches = x.f.it, !.merged = Merged(page.merged, x.f.res.name, r.id, v.in)]

LEMMA NextBranchForm ==
  ASSUME NextBranch, page \in Pages
  PROVE  \E x, r, v :
           /\ BranchRead(x, r, v)
           /\ IF v.in \/ (r.id # Nil /\ req.filter # "branches")
              THEN List(x.f.res.name, r.id, v.in, BranchState(x, r, v))
              ELSE Skip(BranchState(x, r, v))
<1>1. PICK x \in NextOf(page.branches) :
       /\ x.f.res.kind = "name"
       /\ LET name == x.f.res.name
          IN \E r \in Resolved(name), v \in Navigable(name) :
               /\ Spend(x.cost + r.cost + v.cost)
               /\ LET state == [page EXCEPT !.branches = x.f.it,
                                            !.merged = Merged(@, name, r.id, v.in)]
                  IN IF v.in \/ (r.id # Nil /\ req.filter # "branches")
                     THEN List(name, r.id, v.in, state)
                     ELSE Skip(state)
  BY DEF NextBranch
<1> DEFINE name == x.f.res.name
<1>2. PICK r \in Resolved(name), v \in Navigable(name) :
        /\ Spend(x.cost + r.cost + v.cost)
        /\ LET state == [page EXCEPT !.branches = x.f.it,
                                     !.merged = Merged(@, name, r.id, v.in)]
           IN IF v.in \/ (r.id # Nil /\ req.filter # "branches")
              THEN List(name, r.id, v.in, state)
              ELSE Skip(state)
  BY <1>1
<1>3. [page EXCEPT !.branches = x.f.it, !.merged = Merged(@, name, r.id, v.in)]
        = BranchState(x, r, v)
  BY DEF BranchState, Pages
<1>4. BranchRead(x, r, v)
  BY <1>1, <1>2 DEF BranchRead
<1>5. QED
  BY <1>2, <1>3, <1>4

LEMMA BranchShape ==
  ASSUME TypeInv, pc = "names", page.branches # Nil, NEW x, NEW r, NEW v, BranchRead(x, r, v)
  PROVE  /\ x.f.res.name \in Words /\ r.id \in Words \cup {Nil} /\ v.in \in BOOLEAN
         /\ Shape(BranchState(x, r, v), page.trail, page.begun, x.f.it, page.items,
                  Merged(page.merged, x.f.res.name, r.id, v.in))
<1>1. /\ x.f.it \in Iterators(Words) /\ x.f.res.name \in Words
      /\ r.id \in Words \cup {Nil} /\ v.in \in BOOLEAN
  BY ReadFacts DEF BranchRead
<1>2. page \in Pages /\ page.merged \subseteq Words
  BY PageTypes
<1>3. Merged(page.merged, x.f.res.name, r.id, v.in) \in SUBSET Words
  BY <1>1, <1>2 DEF Merged
<1>4. QED
  BY <1>1, <1>2, <1>3, PageFields DEF BranchState

\* What NextItem lists: the item ID in a flat namespace is the name.
ItemState(x) == [page EXCEPT !.items = x.f.it]

LEMMA ItemShape ==
  ASSUME TypeInv, pc = "names", page.items # Nil, NEW x \in NextOf(page.items)
  PROVE  Shape(ItemState(x), page.trail, page.begun, page.branches, x.f.it, page.merged)
<1>1. x.f.it \in Iterators(Words) /\ page \in Pages
  BY ReadFacts, PageTypes
<1>2. QED
  BY <1>1, PageFields DEF ItemState
-----------------------------------------------------------------------------
(* The type invariant is inductive. *)

LEMMA ChainType ==
  ASSUME TypeInv, NEW parent \in {Nil} \cup DOMAIN nodes, NEW filter \in Filters
  PROVE  /\ Chain(parent, filter) \in Chains(DOMAIN nodes)
         /\ Chain(parent, filter).parent = parent /\ Chain(parent, filter).filter = filter
         /\ Chain(parent, filter).told = <<>> /\ ~Chain(parent, filter).whole
         /\ Chain(parent, filter).since = faults
<1>1. faults \in Nat /\ <<>> \in Seq(DOMAIN nodes)
  BY DEF TypeInv, ChainsOK
<1>2. QED
  BY <1>1 DEF Chain, Chains

\* Every token the client was given is a node.
LEMMA GivenNodes ==
  ASSUME TypeInv, NEW t \in Given
  PROVE  t \in DOMAIN nodes
<1>1. PICK c \in DOMAIN chains : t \in ToSet(chains[c].told)
  BY DEF Given
<1>2. chains[c] \in Chains(DOMAIN nodes)
  BY <1>1 DEF TypeInv, ChainsOK
<1>3. chains[c].told \in Seq(DOMAIN nodes)
  BY <1>2 DEF Chains
<1>4. QED
  BY <1>1, <1>3 DEF ToSet

LEMMA NewPage ==
  ASSUME NEW trail \in Seq(Words)
  PROVE  Da2Page(trail) \in Pages /\ Da2Page(trail).trail = trail /\ ~Da2Page(trail).begun
BY DEF Da2Page, Pages

\* The chains after one more first page.
LEMMA FirstChain ==
  ASSUME TypeInv, NEW parent \in {Nil} \cup DOMAIN nodes, NEW filter \in Filters,
         chains' = Append(chains, Chain(parent, filter))
  PROVE  /\ Len(chains) \in Nat /\ DOMAIN chains = 1 .. Len(chains)
         /\ DOMAIN chains' = 1 .. Len(chains) + 1 /\ Kept(chains, chains')
         /\ \A c \in DOMAIN chains : chains'[c] = chains[c]
         /\ chains'[Len(chains) + 1] = Chain(parent, filter)
         /\ ChainsOK(nodes, chains', faults)
<1>1. /\ chains \in Seq(Chains(DOMAIN nodes)) /\ faults \in Nat
      /\ \A c \in DOMAIN chains : chains[c].since <= faults
  BY DEF TypeInv, ChainsOK
<1>2. Chain(parent, filter) \in Chains(DOMAIN nodes) /\ Chain(parent, filter).since = faults
  BY ChainType
<1> HIDE DEF Chain
<1>3. /\ Len(chains) \in Nat /\ DOMAIN chains = 1 .. Len(chains)
      /\ DOMAIN chains' = 1 .. Len(chains) + 1 /\ chains' \in Seq(Chains(DOMAIN nodes))
      /\ \A c \in DOMAIN chains : chains'[c] = chains[c]
      /\ chains'[Len(chains) + 1] = Chain(parent, filter)
  BY <1>1, <1>2, AppendProperties
<1>4. \A c \in DOMAIN chains' : chains'[c].since <= faults
  BY <1>1, <1>2, <1>3
<1>5. QED
  BY <1>1, <1>3, <1>4 DEF Kept, ChainsOK

LEMMA TypeFirst ==
  ASSUME TypeInv, Scalars', Steady, NEW parent \in {Nil} \cup Given, NEW filter \in Filters,
         NEW size \in Nat, FirstPage(parent, filter, size)
  PROVE  TypeInv'
<1>1. parent \in {Nil} \cup DOMAIN nodes
  BY GivenNodes
<1>2. pc = "idle" /\ UNCHANGED <<nodes, backend, conts, faults>>
  BY DEF FirstPage
<1> DEFINE state == IF backend = "da3" THEN Nil ELSE Da2Page(ParentTrail(parent))
           w == [parent |-> parent, filter |-> filter, size |-> size,
                 chain |-> Len(chains) + 1, from |-> Nil]
<1>3. CASE Admitted(parent, size) /\ ParentFits(parent)
  <2>1. /\ chains' = Append(chains, Chain(parent, filter))
        /\ Serve(parent, filter, size, Len(chains) + 1, Nil, state)
    BY <1>3 DEF FirstPage
  <2>2. /\ Len(chains) \in Nat /\ DOMAIN chains' = 1 .. Len(chains) + 1 /\ Kept(chains, chains')
        /\ chains'[Len(chains) + 1] = Chain(parent, filter) /\ ChainsOK(nodes, chains', faults)
    BY <1>1, <2>1, FirstChain
  <2>3. chains'[Len(chains) + 1].parent = parent /\ chains'[Len(chains) + 1].filter = filter
    BY <1>1, <2>2, ChainType
  <2>4. /\ w \in Requested(DOMAIN nodes) /\ w.parent = parent /\ w.filter = filter
        /\ w.chain = Len(chains) + 1 /\ w.from = Nil
    BY <1>1, <2>2 DEF Requested
  <2> HIDE DEF w
  <2>5. /\ backend \in {"da3", "da2"} /\ nodes \in Seq(Entries)
        /\ parent # Nil => nodes[parent].loc.api = backend
    BY <1>3 DEF TypeInv, Scalars, NodesOK, ParentFits
  <2>6. ParentTrail(parent) = Trail(nodes, parent) /\ Trail(nodes, parent) \in Seq(Words)
    BY <1>1, <2>5, AtNodes DEF ParentTrail, Trail
  <2>7. Len(chains) + 1 \in DOMAIN chains'
    BY <2>2
  <2>8. WorkOK(nodes, chains', backend, w, Nil, state)
    <3>1. CASE backend = "da3"
      <4>1. state = Nil
        BY <3>1
      <4>2. QED
        BY <2>3, <2>4, <2>5, <2>7, <3>1, <4>1 DEF WorkOK
    <3>2. CASE backend = "da2"
      <4>1. state \in Pages /\ state.trail = Trail(nodes, parent)
        BY <2>6, <3>2, NewPage
      <4> HIDE DEF state
      <4>2. QED
        BY <2>3, <2>4, <2>5, <2>7, <3>2, <4>1 DEF WorkOK
    <3>3. QED
      BY <2>5, <3>1, <3>2
  <2>9. ContsOK(nodes, chains', backend, conts', calls) /\ ChainsOK(nodes, chains', faults')
    BY <1>2, <2>2, ContsKept, GrownSelf DEF TypeInv
  <2> HIDE DEF state
  <2>10. Len(chains) + 1 \in Nat /\ Nil \in {Nil} \cup Seq(Nodes)
    BY <2>2
  <2>11. QED
    BY <1>1, <1>2, <2>1, <2>4, <2>8, <2>9, <2>10, TypeServe
<1>4. CASE ~(Admitted(parent, size) /\ ParentFits(parent))
  <2>1. UNCHANGED <<pc, workVars, calls, chains>>
    BY <1>4 DEF FirstPage
  <2>2. QED
    BY <1>2, <2>1 DEF TypeInv
<1>5. QED
  BY <1>3, <1>4

LEMMA TypeContinue ==
  ASSUME TypeInv, Scalars', Steady, NEW token, NEW parent \in {Nil} \cup Given,
         NEW filter \in Filters, NEW size \in Nat, NextPage(token, parent, filter, size)
  PROVE  TypeInv'
<1>1. parent \in {Nil} \cup DOMAIN nodes
  BY GivenNodes
<1>2. pc = "idle" /\ UNCHANGED <<nodes, backend, chains, faults>>
  BY DEF NextPage
<1> DEFINE good == /\ Admitted(parent, size)
                   /\ token \in DOMAIN conts
                   /\ conts[token].parent = parent /\ conts[token].filter = filter
           e == conts[token]
<1>3. CASE good
  <2>1. /\ conts' = Without(conts, token) /\ token \in DOMAIN conts
        /\ e.parent = parent /\ e.filter = filter
        /\ Serve(parent, filter, size, e.chain, e.from, e.page)
    BY <1>3 DEF NextPage
  <2>2. /\ ContsOK(nodes, chains, backend, conts, calls) /\ ChainsOK(nodes, chains, faults)
    BY DEF TypeInv
  <2>3. e \in Continued(DOMAIN nodes) /\ WorkOK(nodes, chains, backend, e, e.from, e.page)
    BY <2>1, <2>2 DEF ContsOK
  <2>4. e.chain \in Nat /\ e.from \in {Nil} \cup Seq(Nodes)
    BY <2>3 DEF Continued
  <2>5. ContsOK(nodes, chains, backend, conts', calls)
    <3>1. /\ DOMAIN conts' = DOMAIN conts \ {token}
          /\ \A u \in DOMAIN conts \ {token} : conts'[u] = conts[u]
      BY <2>1 DEF Without
    <3> HIDE DEF e
    <3>2. QED
      BY <2>2, <3>1 DEF ContsOK
  <2> HIDE DEF e
  <2>6. QED
    BY <1>1, <1>2, <2>1, <2>2, <2>3, <2>4, <2>5, TypeServe
<1>4. CASE ~good
  <2>1. UNCHANGED <<pc, workVars, conts, calls>>
    BY <1>4 DEF NextPage
  <2>2. QED
    BY <1>2, <2>1 DEF TypeInv
<1>5. QED
  BY <1>3, <1>4

LEMMA CallArguments ==
  ASSUME TypeInv, Call
  PROVE  \E parent \in {Nil} \cup Given, filter \in Filters, size \in Nat :
           \/ FirstPage(parent, filter, size)
           \/ \E token \in 1 .. calls : NextPage(token, parent, filter, size)
<1>1. profile.filters \subseteq Filters
  BY DEF TypeInv, Scalars, Profile, Filters
<1>2. Sizes \subseteq Nat
  BY SessionAssumption
<1>3. QED
  BY <1>1, <1>2 DEF Call

LEMMA TypeCall == ASSUME TypeInv, Scalars', Steady, Call PROVE TypeInv'
<1>1. PICK parent \in {Nil} \cup Given, filter \in Filters, size \in Nat :
        \/ FirstPage(parent, filter, size)
        \/ \E token \in 1 .. calls : NextPage(token, parent, filter, size)
  BY CallArguments
<1>2. QED
  BY <1>1, TypeFirst, TypeContinue

\* What a DA 3 page inserts, answers and leaves.
LEMMA Da3Form ==
  ASSUME TypeInv, Da3Page
  PROVE  \E n \in Nat :
           /\ n <= Len(Remaining)
           /\ LET entries == [i \in 1 .. n |-> Da3Entry(Remaining[i])]
                  left == SubSeq(Remaining, n + 1, Len(Remaining))
                  room == n < Len(Remaining) => Cardinality(DOMAIN conts) < MaxPageTokens
              IN /\ Insert(entries)
                 /\ IF Fits(entries)
                    THEN Reply([i \in 1 .. n |-> Len(nodes) + i], n < Len(Remaining), left, Nil)
                    ELSE GiveUp /\ UNCHANGED <<conts, chains>>
                 /\ rootDone' = (rootDone \/ (/\ Fits(entries) /\ room
                                              /\ req.parent = Nil /\ req.from = Nil))
<1>1. req.size \in Nat
  BY RemainingOK DEF Da3Page, Requested
<1>2. 0 .. req.size \subseteq Nat
  BY <1>1
<1>3. QED
  BY <1>2 DEF Da3Page

LEMMA LeftOver ==
  ASSUME NEW s \in Seq(Nodes), NEW n \in Nat, n <= Len(s)
  PROVE  /\ SubSeq(s, n + 1, Len(s)) \in Seq(Nodes)
         /\ ToSet(SubSeq(s, n + 1, Len(s))) = {s[i] : i \in n + 1 .. Len(s)}
         /\ ToSet(SubSeq(s, n + 1, Len(s))) \subseteq ToSet(s)
         /\ IsInjective(s) => IsInjective(SubSeq(s, n + 1, Len(s)))
<1> DEFINE l == Len(s)
           r == SubSeq(s, n + 1, Len(s))
           k == l - n
<1>1. l \in Nat /\ DOMAIN s = 1 .. l /\ k \in Nat /\ k + n = l /\ n <= l
  BY LenProperties
<1>2. r = [i \in 1 .. k |-> s[n + i]]
  <2>1. r \in Seq(Nodes) /\ Len(r) = k /\ \A i \in 1 .. k : r[i] = s[n + i]
    <3>1. \A i \in n + 1 .. l : s[i] \in Nodes
      BY <1>1
    <3>2. CASE n + 1 <= l
      <4>1. /\ r \in Seq(Nodes) /\ Len(r) = l - (n + 1) + 1
            /\ \A i \in 1 .. l - (n + 1) + 1 : r[i] = s[(n + 1) + i - 1]
        BY <1>1, <3>1, <3>2, SubSeqProperties
      <4>2. l - (n + 1) + 1 = k /\ \A i \in 1 .. k : (n + 1) + i - 1 = n + i
        BY <1>1
      <4> HIDE DEF r, k, l
      <4>3. QED
        BY <4>1, <4>2
    <3>3. CASE ~(n + 1 <= l)
      <4>1. n = l /\ k = 0
        <5> HIDE DEF r, k, l
        <5>1. QED
          BY <1>1, <3>3
      <4>2. r = <<>>
        <5>1. 1 .. k = {} /\ l - (n + 1) + 1 = k
          BY <1>1, <4>1
        <5>2. QED
          BY <4>1, <5>1
      <4>3. QED
        BY <4>1, <4>2
    <3>4. QED
      BY <3>2, <3>3
  <2> HIDE DEF r
  <2>2. DOMAIN r = 1 .. k /\ r = [i \in DOMAIN r |-> r[i]]
    BY <2>1
  <2>3. QED
    BY <2>1, <2>2
<1> HIDE DEF r, k, l
<1>3. r \in Seq(Nodes)
  <2>1. \A i \in 1 .. k : n + i \in 1 .. l
    BY <1>1
  <2>2. \A i \in 1 .. k : s[n + i] \in Nodes
    BY <1>1, <2>1
  <2>3. QED
    BY <1>1, <1>2, <2>2
<1>4. DOMAIN r = 1 .. k
  BY <1>2
<1>5. ToSet(r) = {s[i] : i \in n + 1 .. l}
  <2>1. \A i \in 1 .. k : n + i \in n + 1 .. l
    BY <1>1
  <2>2. \A i \in n + 1 .. l : i - n \in 1 .. k /\ n + (i - n) = i
    BY <1>1
  <2>3. \A i \in 1 .. k : r[i] = s[n + i]
    BY <1>2
  <2>4. \A i \in n + 1 .. l : s[i] = r[i - n]
    BY <2>2, <2>3
  <2>5. ASSUME NEW x \in ToSet(r) PROVE x \in {s[i] : i \in n + 1 .. l}
    BY <1>4, <2>1, <2>3, <2>5 DEF ToSet
  <2>6. ASSUME NEW i \in n + 1 .. l PROVE s[i] \in ToSet(r)
    BY <1>4, <2>2, <2>4, <2>6 DEF ToSet
  <2>7. QED
    BY <2>5, <2>6
<1>6. ToSet(r) \subseteq ToSet(s)
  <2>1. n + 1 .. l \subseteq DOMAIN s
    BY <1>1
  <2>2. QED
    BY <1>5, <2>1 DEF ToSet
<1>7. ASSUME IsInjective(s) PROVE IsInjective(r)
  <2>1. \A i, j \in 1 .. l : s[i] = s[j] => i = j
    BY <1>1, <1>7 DEF IsInjective
  <2>2. ASSUME NEW i \in 1 .. k, NEW j \in 1 .. k, r[i] = r[j] PROVE i = j
    <3>1. n + i \in 1 .. l /\ n + j \in 1 .. l /\ s[n + i] = s[n + j]
      BY <1>1, <1>2, <2>2
    <3>2. n + i = n + j
      BY <2>1, <3>1
    <3>3. QED
      BY <3>2
  <2>3. QED
    BY <1>4, <2>2 DEF IsInjective
<1>8. QED
  BY <1>3, <1>5, <1>6, <1>7 DEF r, l
LEMMA TypeDa3Page ==
  ASSUME TypeInv, Scalars', Steady, Da3Page
  PROVE  TypeInv'
<1>1. pc = "da3" /\ UNCHANGED <<backend, calls>>
  BY DEF Da3Page
<1>2. PICK n \in Nat :
        /\ n <= Len(Remaining)
        /\ LET entries == [i \in 1 .. n |-> Da3Entry(Remaining[i])]
               left == SubSeq(Remaining, n + 1, Len(Remaining))
           IN /\ Insert(entries)
              /\ IF Fits(entries)
                 THEN Reply([i \in 1 .. n |-> Len(nodes) + i], n < Len(Remaining), left, Nil)
                 ELSE GiveUp /\ UNCHANGED <<conts, chains>>
  BY Da3Form
<1> DEFINE entries == [i \in 1 .. n |-> Da3Entry(Remaining[i])]
           left == SubSeq(Remaining, n + 1, Len(Remaining))
           tokens == [i \in 1 .. n |-> Len(nodes) + i]
           more == n < Len(Remaining)
<1>3. entries \in Seq(Entries) /\ Len(entries) = n
  BY <1>1, <1>2, EntriesOK
<1>4. NodesOK(nodes) /\ Insert(entries)
  BY <1>2 DEF TypeInv
<1>5. /\ ParentNode \in Nodes /\ At(nodes, req.parent) = {ParentNode}
      /\ page = Nil /\ Remaining \in Seq(Nodes)
      /\ ToSet(Remaining) \subseteq ToSet(Elements(ParentNode, req.filter))
  BY <1>1, RemainingOK, ElementsFacts
<1>6. left \in Seq(Nodes) /\ ToSet(left) \subseteq ToSet(Remaining)
  <2> HIDE DEF Remaining
  <2>1. QED
    BY <1>2, <1>5, LeftOver
<1> HIDE DEF entries
<1>7. /\ Grown(nodes, nodes') /\ NodesOK(nodes')
      /\ Fits(entries) => DOMAIN nodes' = 1 .. Len(nodes) + n /\ Len(nodes) \in Nat
  BY <1>3, <1>4, Inserted
<1>8. CASE Fits(entries)
  <2>1. Reply(tokens, more, left, Nil)
    BY <1>2, <1>8 DEF entries
  <2>2. DOMAIN nodes' = 1 .. Len(nodes) + n /\ Len(nodes) \in Nat
    BY <1>7, <1>8
  <2>3. \A i \in 1 .. n : Len(nodes) + i \in DOMAIN nodes'
    BY <2>2
  <2>4. tokens \in Seq(DOMAIN nodes')
    BY <2>3
  <2>5. more \in BOOLEAN
    OBVIOUS
  <2>6. WorkOK(nodes, chains, backend, req, left, Nil)
    <3>1. WorkOK(nodes, chains, backend, req, req.from, page) /\ backend = "da3"
      BY <1>1 DEF TypeInv, PageOK
    <3>2. \A m \in At(nodes, req.parent) : ToSet(left) \subseteq ToSet(Elements(m, req.filter))
      BY <1>5, <1>6
    <3> HIDE DEF left
    <3>3. QED
      BY <1>5, <3>1, <3>2 DEF WorkOK
  <2> HIDE DEF tokens, more, left
  <2>7. QED
    BY <1>1, <1>6, <1>7, <2>1, <2>4, <2>5, <2>6, TypeReply
<1>9. CASE ~Fits(entries)
  <2>1. GiveUp /\ UNCHANGED <<conts, chains>>
    BY <1>2, <1>9 DEF entries
  <2>2. QED
    BY <1>1, <1>7, <2>1, TypeQuit
<1>10. QED
  BY <1>8, <1>9

LEMMA TypeDa3Fails ==
  ASSUME TypeInv, Scalars', Steady, Da3Fails
  PROVE  TypeInv'
<1>1. /\ pc = "da3" /\ GiveUp /\ UNCHANGED <<backend, conts, chains, calls>>
      /\ NodesOK(nodes) /\ req.size \in Nat
  BY RemainingOK DEF Da3Fails, TypeInv, Requested
<1>2. PICK n \in 0 .. req.size :
        n <= Len(Remaining) /\ Insert([i \in 1 .. n |-> Da3Entry(Remaining[i])])
  BY DEF Da3Fails
<1> DEFINE entries == [i \in 1 .. n |-> Da3Entry(Remaining[i])]
<1>3. n \in Nat
  BY <1>1
<1>4. entries \in Seq(Entries)
  BY <1>1, <1>2, <1>3, EntriesOK
<1>5. Insert(entries)
  BY <1>2
<1> HIDE DEF entries
<1>6. Grown(nodes, nodes') /\ NodesOK(nodes')
  BY <1>1, <1>4, <1>5, Inserted
<1>7. QED
  BY <1>1, <1>6, TypeQuit

LEMMA TypeIncompatible ==
  ASSUME TypeInv, FreshInv, Scalars', Steady, Incompatible
  PROVE  TypeInv'
<1>1. /\ pc = "da3" /\ backend = "da3" /\ UNCHANGED <<nodes, conts, chains, calls, rootDone>>
      /\ NodesOK(nodes') /\ Grown(nodes, nodes')
  BY RemainingOK, GrownSelf DEF Incompatible, TypeInv
<1>2. CASE CanFallBack /\ profile.da2
  <2>1. /\ backend' = "da2" /\ page' = Da2Page(<<>>) /\ pc' = "move" /\ req' = req /\ out' = out
        /\ req.parent = Nil /\ req.from = Nil /\ ~rootDone
    BY <1>2 DEF Incompatible, CanFallBack
  <2>2. DOMAIN conts = {}
    BY <1>1, <2>1 DEF FreshInv, Fresh
  <2>3. /\ req \in Requested(DOMAIN nodes) /\ calls # 0 /\ calls \notin DOMAIN conts
        /\ WorkOK(nodes, chains, backend, req, req.from, page) /\ out = <<>>
    BY <1>1 DEF TypeInv, PageOK
  <2>4. /\ page' \in Pages /\ page'.trail = <<>> /\ Trail(nodes, req.parent) = <<>>
    <3>1. <<>> \in Seq(Words)
      OBVIOUS
    <3>2. QED
      BY <2>1, <3>1, NewPage DEF Trail
  <2>5. WorkOK(nodes, chains, "da2", req, Nil, page')
    BY <2>1, <2>3, <2>4 DEF WorkOK
  <2>6. ContsOK(nodes', chains', backend', conts', calls') /\ ChainsOK(nodes', chains', faults')
    <3>1. ContsOK(nodes, chains, "da2", conts, calls)
      BY <2>2 DEF TypeInv, ContsOK
    <3>2. ChainsOK(nodes', chains, faults')
      BY <1>1, ChainsKept DEF TypeInv, Steady
    <3>3. QED
      BY <1>1, <2>1, <3>1, <3>2
  <2>7. <<>> \in Seq(DOMAIN nodes')
    OBVIOUS
  <2>8. PageOK(nodes', chains', backend', conts', calls', pc', req', page', out')
    BY <1>1, <2>1, <2>3, <2>5, <2>7 DEF PageOK
  <2>9. QED
    BY <1>1, <2>6, <2>8 DEF TypeInv
<1>3. CASE ~(CanFallBack /\ profile.da2)
  <2>1. GiveUp /\ UNCHANGED backend
    BY <1>3 DEF Incompatible
  <2>2. QED
    BY <1>1, <2>1, TypeQuit
<1>4. QED
  BY <1>2, <1>3

\* The enumerators of a page and what they start with.
FirstBranches == IF Flat \/ req.filter = "items" THEN Nil ELSE Iterator(NamesOf(cursor, Branches))

FirstItems ==
  IF req.filter = "branches" THEN Nil
  ELSE Iterator(IF Flat THEN SetToSeq({Id[i] : i \in ItemsBelow(Root)}) ELSE NamesOf(cursor, Items))

LEMMA FirstNames ==
  ASSUME cursor \in Nodes
  PROVE  /\ FirstBranches \in {Nil} \cup Iterators(Words) /\ FirstItems \in {Nil} \cup Iterators(Words)
         /\ Sound(FirstBranches) /\ Sound(FirstItems)
         /\ Open(FirstBranches) = IF Flat \/ req.filter = "items" THEN {}
                                  ELSE {Name[k] : k \in KidsOf(cursor) \cap Branches}
         /\ Open(FirstItems) = IF req.filter = "branches" THEN {}
                               ELSE IF Flat THEN {Id[i] : i \in ItemsBelow(Root)}
                               ELSE {Name[k] : k \in KidsOf(cursor) \cap Items}
<1>1. \A S : /\ NamesOf(cursor, S) \in Seq(Words) /\ IsInjective(NamesOf(cursor, S))
             /\ ToSet(NamesOf(cursor, S)) = {Name[k] : k \in KidsOf(cursor) \cap S}
  <2>1. SUFFICES ASSUME NEW S
                 PROVE  /\ NamesOf(cursor, S) \in Seq(Words) /\ IsInjective(NamesOf(cursor, S))
                        /\ ToSet(NamesOf(cursor, S)) = {Name[k] : k \in KidsOf(cursor) \cap S}
    OBVIOUS
  <2>2. {Name[k] : k \in KidsOf(cursor) \cap S} \subseteq Words
    BY KidFacts, NodeWords
  <2>3. QED
    BY <2>2, NamesListed, SeqMonotonic
<1> DEFINE ids == SetToSeq({Id[i] : i \in ItemsBelow(Root)})
<1>2. ids \in Seq(Words) /\ IsInjective(ids) /\ ToSet(ids) = {Id[i] : i \in ItemsBelow(Root)}
  <2>1. {Id[i] : i \in ItemsBelow(Root)} \subseteq Words
    BY NodeWords, NamespaceAssumption DEF ItemsBelow
  <2>2. QED
    BY <2>1, RootTrail, IdsListed, SeqMonotonic
<1>3. Open(Nil) = {} /\ Sound(Nil)
  BY DEF Open, Sound
<1> HIDE DEF ids
<1>4. /\ FirstBranches \in {Nil} \cup Iterators(Words) /\ Sound(FirstBranches)
      /\ Open(FirstBranches) = IF Flat \/ req.filter = "items" THEN {}
                               ELSE {Name[k] : k \in KidsOf(cursor) \cap Branches}
  <2> HIDE DEF Flat
  <2>1. CASE Flat \/ req.filter = "items"
    BY <1>3, <2>1 DEF FirstBranches
  <2>2. CASE ~(Flat \/ req.filter = "items")
    <3>1. FirstBranches = Iterator(NamesOf(cursor, Branches))
      BY <2>2 DEF FirstBranches
    <3>2. QED
      BY <1>1, <2>2, <3>1, NewIterator
  <2>3. QED
    BY <2>1, <2>2
<1>5. /\ FirstItems \in {Nil} \cup Iterators(Words) /\ Sound(FirstItems)
      /\ Open(FirstItems) = IF req.filter = "branches" THEN {}
                            ELSE IF Flat THEN {Id[i] : i \in ItemsBelow(Root)}
                            ELSE {Name[k] : k \in KidsOf(cursor) \cap Items}
  <2> HIDE DEF Flat
  <2>1. CASE req.filter = "branches"
    BY <1>3, <2>1 DEF FirstItems
  <2>2. CASE req.filter # "branches" /\ Flat
    <3>1. FirstItems = Iterator(ids)
      BY <2>2 DEF FirstItems, ids
    <3>2. QED
      BY <1>2, <2>2, <3>1, NewIterator
  <2>3. CASE req.filter # "branches" /\ ~Flat
    <3>1. FirstItems = Iterator(NamesOf(cursor, Items))
      BY <2>3 DEF FirstItems
    <3>2. QED
      BY <1>1, <2>3, <3>1, NewIterator
  <2>4. QED
    BY <2>1, <2>2, <2>3
<1>6. QED
  BY <1>4, <1>5

LEMMA BeginShape ==
  ASSUME TypeInv, Begin
  PROVE  Shape(page', page.trail, TRUE, FirstBranches, FirstItems, page.merged)
<1>1. page \in Pages /\ cursor \in Nodes
  BY PageTypes DEF Begin, Arrived, TypeInv, Scalars
<1>2. page' = [page EXCEPT !.begun = TRUE, !.branches = FirstBranches, !.items = FirstItems]
  BY DEF Begin, FirstBranches, FirstItems
<1>3. FirstBranches \in {Nil} \cup Iterators(Words) /\ FirstItems \in {Nil} \cup Iterators(Words)
  BY <1>1, FirstNames
<1>4. Shape([page EXCEPT !.begun = TRUE, !.branches = FirstBranches, !.items = FirstItems],
            page.trail, TRUE, FirstBranches, FirstItems, page.merged)
  <2> HIDE DEF FirstBranches, FirstItems
  <2>1. QED
    BY <1>1, <1>3, PageFields
<1>5. QED
  BY <1>2, <1>4

LEMMA TypeMove ==
  ASSUME TypeInv, Scalars', Steady, Move
  PROVE  TypeInv'
<1>1. NodesOK(nodes) /\ Grown(nodes, nodes)
  BY GrownSelf DEF TypeInv
<1>2. CASE MoveUpRefused \/ MoveDownRefused
  BY <1>1, <1>2, TypeQuit DEF MoveUpRefused, MoveDownRefused
<1>3. CASE MoveUp \/ MoveDown
  <2>1. /\ UNCHANGED <<pc, backend, conts, chains, calls, nodes, req, page, out>> /\ pc = "move"
    BY <1>3 DEF MoveUp, MoveDown, AtShared
  <2>2. page \in Pages
    BY <2>1, PageTypes
  <2>3. QED
    BY <2>1, <2>2, TypeStay
<1>4. CASE Begin
  <2>1. Shape(page', page.trail, TRUE, FirstBranches, FirstItems, page.merged)
    BY <1>4, BeginShape
  <2>2. /\ UNCHANGED <<backend, conts, chains, calls, nodes, req, out>> /\ pc = "move" /\ pc' = "names"
    BY <1>4 DEF Begin, Arrived
  <2>3. page' \in Pages /\ page'.trail = page.trail /\ page'.begun
    BY <2>1 DEF Shape
  <2>4. QED
    BY <2>2, <2>3, TypeStay
<1>5. CASE Arrive
  <2>1. /\ UNCHANGED <<backend, conts, chains, calls, nodes, req, out, page>>
        /\ pc = "move" /\ pc' = "names" /\ page.begun
    BY <1>5 DEF Arrive
  <2>2. page \in Pages
    BY <2>1, PageTypes
  <2>3. QED
    BY <2>1, <2>2, TypeStay
<1>6. QED
  BY <1>2, <1>3, <1>4, <1>5 DEF Move

LEMMA TypeNames ==
  ASSUME TypeInv, Scalars', Steady, NextBranch \/ NextItem
  PROVE  TypeInv'
<1>1. /\ pc = "names" /\ UNCHANGED <<backend, conts, chains, calls>> /\ page.begun /\ page \in Pages
      /\ cursor \in Nodes
  BY PageTypes DEF NextBranch, NextItem, InBranches, InItems, Listing, TypeInv, PageOK, Scalars
<1>2. CASE NextBranch
  <2>1. page.branches # Nil
    BY <1>2 DEF NextBranch, InBranches
  <2>2. PICK x, r, v :
           /\ BranchRead(x, r, v)
           /\ IF v.in \/ (r.id # Nil /\ req.filter # "branches")
              THEN List(x.f.res.name, r.id, v.in, BranchState(x, r, v))
              ELSE Skip(BranchState(x, r, v))
    BY <1>1, <1>2, NextBranchForm
  <2>3. /\ x.f.res.name \in Words /\ r.id \in Words \cup {Nil} /\ v.in \in BOOLEAN
        /\ Shape(BranchState(x, r, v), page.trail, page.begun, x.f.it, page.items,
                 Merged(page.merged, x.f.res.name, r.id, v.in))
    BY <1>1, <2>1, <2>2, BranchShape
  <2> DEFINE state == BranchState(x, r, v)
  <2>4. state \in Pages /\ state.trail = page.trail /\ state.begun
    BY <1>1, <2>3 DEF Shape
  <2>5. List(x.f.res.name, r.id, v.in, state) \/ Skip(state)
    BY <2>2
  <2> HIDE DEF state
  <2>6. CASE List(x.f.res.name, r.id, v.in, state)
    BY <1>1, <2>3, <2>4, <2>6, TypeList
  <2>7. CASE Skip(state)
    <3>1. page' = state /\ UNCHANGED <<pc, nodes, req, ups, out>>
      BY <2>7 DEF Skip
    <3>2. QED
      BY <1>1, <2>4, <3>1, TypeStay
  <2>8. QED
    BY <2>5, <2>6, <2>7
<1>3. CASE NextItem
  <2>1. page.items # Nil
    BY <1>3 DEF NextItem, InItems
  <2>2. PICK x \in NextOf(page.items) :
          /\ x.f.res.kind = "name"
          /\ \/ Skip(ItemState(x))
             \/ List(x.f.res.name, x.f.res.name, FALSE, ItemState(x))
             \/ \E r \in Resolved(x.f.res.name), v \in Navigable(x.f.res.name) :
                  List(x.f.res.name, r.id, v.in, ItemState(x))
    BY <1>3 DEF NextItem, ItemState
  <2>3. /\ x.f.res.name \in Words
        /\ \A r \in Resolved(x.f.res.name) : r.id \in Words \cup {Nil}
        /\ \A v \in Navigable(x.f.res.name) : v.in \in BOOLEAN
    BY <1>1, <2>1, <2>2, ReadFacts
  <2>4. ItemState(x) \in Pages /\ ItemState(x).trail = page.trail /\ ItemState(x).begun
    BY <1>1, <2>1, ItemShape DEF Shape
  <2>5. CASE Skip(ItemState(x))
    <3>1. page' = ItemState(x) /\ UNCHANGED <<pc, nodes, req, ups, out>>
      BY <2>5 DEF Skip
    <3>2. QED
      BY <1>1, <2>4, <3>1, TypeStay
  <2>6. CASE List(x.f.res.name, x.f.res.name, FALSE, ItemState(x))
    BY <1>1, <2>3, <2>4, <2>6, TypeList
  <2>7. CASE \E r \in Resolved(x.f.res.name), v \in Navigable(x.f.res.name) :
                  List(x.f.res.name, r.id, v.in, ItemState(x))
    <3>1. PICK r \in Resolved(x.f.res.name), v \in Navigable(x.f.res.name) :
                  List(x.f.res.name, r.id, v.in, ItemState(x))
      BY <2>7
    <3>2. QED
      BY <1>1, <2>3, <2>4, <3>1, TypeList
  <2>8. QED
    BY <2>2, <2>5, <2>6, <2>7
<1>4. QED
  BY <1>2, <1>3

\* What the last look at the enumerators leaves in the continuation.
PeekState(b) == [page EXCEPT !.branches = b.f.it]

PeekBoth(b, i) ==
  [page EXCEPT !.branches = IF b.f.res.kind = "stuck" THEN Nil ELSE b.f.it, !.items = i.f.it]

EndForm(b) ==
  /\ b \in Peeks(page.branches)
  /\ \/ /\ b.f.res.kind \in {"name", "broken"} /\ Spend(b.cost)
        /\ Reply(out, TRUE, Nil, PeekState(b))
     \/ /\ b.f.res.kind \notin {"name", "broken"}
        /\ \E i \in Peeks(page.items) :
             Spend(b.cost + i.cost) /\ Reply(out, i.f.res.kind # "end", Nil, PeekBoth(b, i))

LEMMA EndPageForm == EndPage => \E b : EndForm(b)
<1> SUFFICES ASSUME EndPage PROVE \E b : EndForm(b)
  OBVIOUS
<1>1. PICK b \in Peeks(page.branches) :
       IF b.f.res.kind \in {"name", "broken"}
       THEN /\ Spend(b.cost)
            /\ Reply(out, TRUE, Nil, [page EXCEPT !.branches = b.f.it])
       ELSE \E i \in Peeks(page.items) :
            /\ Spend(b.cost + i.cost)
            /\ Reply(out, i.f.res.kind # "end", Nil,
                     [page EXCEPT !.branches = IF b.f.res.kind = "stuck" THEN Nil ELSE b.f.it,
                                  !.items = i.f.it])
  BY DEF EndPage
<1>2. EndForm(b)
  BY <1>1 DEF EndForm, PeekState, PeekBoth
<1>3. QED
  BY <1>2

LEMMA PageBothFields ==
  ASSUME NEW p \in Pages, NEW b \in {Nil} \cup Iterators(Words), NEW i \in {Nil} \cup Iterators(Words)
  PROVE  Shape([p EXCEPT !.branches = b, !.items = i], p.trail, p.begun, b, i, p.merged)
BY DEF Shape, Pages

LEMMA PeekShape ==
  ASSUME TypeInv, pc = "names", NEW b \in Peeks(page.branches)
  PROVE  /\ b.cost \in {0, 1}
         /\ Shape(PeekState(b), page.trail, page.begun, b.f.it, page.items, page.merged)
         /\ \A i \in Peeks(page.items) :
              /\ i.cost \in {0, 1}
              /\ Shape(PeekBoth(b, i), page.trail, page.begun,
                       IF b.f.res.kind = "stuck" THEN Nil ELSE b.f.it, i.f.it, page.merged)
<1>1. /\ page \in Pages /\ page.branches \in {Nil} \cup Iterators(Words)
      /\ page.items \in {Nil} \cup Iterators(Words)
  BY PageTypes
<1>2. b.cost \in {0, 1} /\ b.f.it \in {Nil} \cup Iterators(Words)
  BY <1>1, PeekFacts
<1>3. Shape(PeekState(b), page.trail, page.begun, b.f.it, page.items, page.merged)
  BY <1>1, <1>2, PageFields DEF PeekState
<1>4. ASSUME NEW i \in Peeks(page.items)
      PROVE  /\ i.cost \in {0, 1}
             /\ Shape(PeekBoth(b, i), page.trail, page.begun,
                      IF b.f.res.kind = "stuck" THEN Nil ELSE b.f.it, i.f.it, page.merged)
  <2>1. i.cost \in {0, 1} /\ i.f.it \in {Nil} \cup Iterators(Words)
    BY <1>1, PeekFacts
  <2> DEFINE left == IF b.f.res.kind = "stuck" THEN Nil ELSE b.f.it
  <2>2. left \in {Nil} \cup Iterators(Words)
    BY <1>2
  <2>3. PeekBoth(b, i) = [page EXCEPT !.branches = left, !.items = i.f.it]
    BY DEF PeekBoth
  <2> HIDE DEF left
  <2>4. Shape(PeekBoth(b, i), page.trail, page.begun, left, i.f.it, page.merged)
    BY <1>1, <2>1, <2>2, <2>3, PageBothFields
  <2>5. QED
    BY <2>1, <2>4 DEF left
<1>5. QED
  BY <1>2, <1>3, <1>4

LEMMA TypeEndPage ==
  ASSUME TypeInv, Scalars', Steady, EndPage
  PROVE  TypeInv'
<1>1. /\ pc = "names" /\ UNCHANGED <<backend, calls, nodes>> /\ page.begun /\ page \in Pages
      /\ req.from = Nil /\ WorkOK(nodes, chains, backend, req, req.from, page) /\ backend = "da2"
  BY PageTypes DEF EndPage, PageFull, TypeInv, PageOK
<1>2. /\ NodesOK(nodes') /\ Grown(nodes, nodes') /\ out \in Seq(DOMAIN nodes')
  BY <1>1, GrownSelf DEF TypeInv, PageOK
<1>3. ASSUME NEW more \in BOOLEAN, NEW state \in Pages, state.trail = page.trail,
             Reply(out, more, Nil, state)
      PROVE  TypeInv'
  <2>1. WorkOK(nodes, chains, backend, req, Nil, state)
    BY <1>1, <1>3 DEF WorkOK
  <2>2. QED
    BY <1>1, <1>2, <1>3, <2>1, TypeReply
<1>4. PICK b : EndForm(b)
  BY EndPageForm
<1>5. b \in Peeks(page.branches)
  BY <1>4 DEF EndForm
<1>6. CASE Reply(out, TRUE, Nil, PeekState(b))
  <2>1. PeekState(b) \in Pages /\ PeekState(b).trail = page.trail /\ TRUE \in BOOLEAN
    BY <1>1, <1>5, PeekShape DEF Shape
  <2>2. QED
    BY <1>3, <1>6, <2>1
<1>7. CASE \E i \in Peeks(page.items) : Reply(out, i.f.res.kind # "end", Nil, PeekBoth(b, i))
  <2>1. PICK i \in Peeks(page.items) : Reply(out, i.f.res.kind # "end", Nil, PeekBoth(b, i))
    BY <1>7
  <2> DEFINE more == i.f.res.kind # "end"
  <2>2. PeekBoth(b, i) \in Pages /\ PeekBoth(b, i).trail = page.trail /\ more \in BOOLEAN
    BY <1>1, <1>5, PeekShape DEF Shape
  <2>3. Reply(out, more, Nil, PeekBoth(b, i))
    BY <2>1
  <2> HIDE DEF more
  <2>4. QED
    BY <1>3, <2>2, <2>3
<1>8. QED
  BY <1>4, <1>6, <1>7 DEF EndForm

LEMMA TypeRead ==
  ASSUME TypeInv, Scalars', Steady, Read
  PROVE  TypeInv'
<1>1. NodesOK(nodes) /\ Grown(nodes, nodes)
  BY GrownSelf DEF TypeInv
<1>2. CASE NextBranch \/ NextItem
  BY <1>2, TypeNames
<1>3. CASE EndBranches \/ EndItems
  <2>1. /\ UNCHANGED <<pc, backend, conts, chains, calls, nodes, req, out>> /\ pc = "names"
        /\ page' = [page EXCEPT !.branches = Nil] \/ page' = [page EXCEPT !.items = Nil]
    BY <1>3 DEF EndBranches, EndItems, InBranches, InItems, Listing
  <2>2. page \in Pages /\ page.begun
    BY <2>1, PageTypes DEF TypeInv, PageOK
  <2>3. page' \in Pages /\ page'.trail = page.trail /\ (page'.begun <=> page.begun)
    <3>1. Nil \in {Nil} \cup Iterators(Words) /\ page.merged \in SUBSET Words
      BY <2>1, PageTypes
    <3>2. /\ Shape([page EXCEPT !.branches = Nil], page.trail, page.begun, Nil, page.items, page.merged)
          /\ Shape([page EXCEPT !.items = Nil], page.trail, page.begun, page.branches, Nil, page.merged)
      BY <2>2, <3>1, PageFields
    <3>3. QED
      BY <2>1, <3>2 DEF Shape
  <2>4. QED
    BY <2>1, <2>2, <2>3, TypeStay
<1>4. CASE NamesFail \/ CallFails \/ ProbeStrands
  BY <1>1, <1>4, TypeQuit DEF NamesFail, CallFails, ProbeStrands
<1>5. CASE EndPage
  BY <1>5, TypeEndPage
<1>6. QED
  BY <1>2, <1>3, <1>4, <1>5 DEF Read

\* A DA 2 page, and nothing else, is moved and read.
LEMMA Da2Steps == TypeInv /\ (Move \/ Read) => backend = "da2" /\ backend' = backend
BY DEF TypeInv, PageOK, Move, Read, MoveUp, MoveUpRefused, MoveDown, MoveDownRefused, Begin, Arrive,
       AtShared, Arrived, NextBranch, EndBranches, NextItem, EndItems, NamesFail, CallFails,
       ProbeStrands, EndPage, InBranches, InItems, Listing, PageFull

LEMMA FreshNext ==
  ASSUME TypeInv, FreshInv, Next
  PROVE  FreshInv'
<1> SUFFICES ASSUME backend' = "da3", ~rootDone'
             PROVE  /\ DOMAIN conts' = {}
                    /\ \A c \in DOMAIN chains' :
                         chains'[c].told = <<>> /\ ~chains'[c].whole /\ chains'[c].parent = Nil
                    /\ pc' = "da3" => req'.parent = Nil /\ req'.from = Nil
  BY DEF FreshInv, Fresh
<1>1. CASE Call
  <2>1. PICK parent \in {Nil} \cup Given, filter \in Filters, size \in Nat :
          \/ FirstPage(parent, filter, size)
          \/ \E token \in 1 .. calls : NextPage(token, parent, filter, size)
    BY <1>1, CallArguments
  <2>2. backend = "da3" /\ ~rootDone /\ pc = "idle"
    BY <2>1 DEF FirstPage, NextPage
  <2>3. /\ DOMAIN conts = {}
        /\ \A c \in DOMAIN chains : chains[c].told = <<>> /\ ~chains[c].whole /\ chains[c].parent = Nil
    BY <2>2 DEF FreshInv, Fresh
  <2>4. parent = Nil
    <3>1. ToSet(<<>>) = {}
      BY DEF ToSet
    <3>2. Given = {}
      BY <2>3, <3>1 DEF Given
    <3>3. QED
      BY <3>2
  <2>5. CASE FirstPage(parent, filter, size)
    <3>1. conts' = conts
      BY <2>5 DEF FirstPage
    <3>2. CASE chains' = chains /\ pc' = pc /\ req' = req
      BY <2>2, <2>3, <3>1, <3>2
    <3>3. CASE ~(chains' = chains /\ pc' = pc /\ req' = req)
      <4>1. /\ chains' = Append(chains, Chain(parent, filter))
            /\ req' = [parent |-> parent, filter |-> filter, size |-> size,
                       chain |-> Len(chains) + 1, from |-> Nil]
        BY <2>5, <3>3 DEF FirstPage, Serve
      <4>2. /\ Len(chains) \in Nat /\ DOMAIN chains = 1 .. Len(chains)
            /\ DOMAIN chains' = 1 .. Len(chains) + 1
            /\ \A c \in DOMAIN chains : chains'[c] = chains[c]
            /\ chains'[Len(chains) + 1] = Chain(parent, filter)
        BY <2>4, <4>1, FirstChain
      <4>3. /\ Chain(parent, filter).parent = Nil /\ Chain(parent, filter).told = <<>>
            /\ ~Chain(parent, filter).whole
        BY <2>4, ChainType
      <4>4. req'.parent = Nil /\ req'.from = Nil
        BY <2>4, <4>1
      <4> HIDE DEF Chain
      <4>5. QED
        BY <2>3, <3>1, <4>2, <4>3, <4>4
    <3>4. QED
      BY <3>2, <3>3
  <2>6. CASE \E token \in 1 .. calls : NextPage(token, parent, filter, size)
    <3>1. UNCHANGED <<pc, conts, chains>>
      BY <2>3, <2>6 DEF NextPage
    <3>2. QED
      BY <2>2, <2>3, <3>1
  <2>7. QED
    BY <2>1, <2>5, <2>6
<1>2. CASE Da3Page
  <2>1. backend = "da3" /\ pc = "da3" /\ pc' = "idle"
    BY <1>2 DEF Da3Page, Reply, GiveUp
  <2>2. PICK n \in Nat :
           /\ n <= Len(Remaining)
           /\ LET entries == [i \in 1 .. n |-> Da3Entry(Remaining[i])]
                  left == SubSeq(Remaining, n + 1, Len(Remaining))
                  room == n < Len(Remaining) => Cardinality(DOMAIN conts) < MaxPageTokens
              IN /\ Insert(entries)
                 /\ IF Fits(entries)
                    THEN Reply([i \in 1 .. n |-> Len(nodes) + i], n < Len(Remaining), left, Nil)
                    ELSE GiveUp /\ UNCHANGED <<conts, chains>>
                 /\ rootDone' = (rootDone \/ (/\ Fits(entries) /\ room
                                              /\ req.parent = Nil /\ req.from = Nil))
    BY <1>2, Da3Form
  <2> DEFINE entries == [i \in 1 .. n |-> Da3Entry(Remaining[i])]
             left == SubSeq(Remaining, n + 1, Len(Remaining))
             tokens == [i \in 1 .. n |-> Len(nodes) + i]
             more == n < Len(Remaining)
             fits == Fits(entries)
  <2>3. /\ fits => Reply(tokens, more, left, Nil)
        /\ ~fits => UNCHANGED <<conts, chains>>
        /\ ~rootDone
        /\ ~(/\ fits /\ (more => Cardinality(DOMAIN conts) < MaxPageTokens)
             /\ req.parent = Nil /\ req.from = Nil)
    BY <2>2
  <2>4. more \in BOOLEAN
    OBVIOUS
  <2> HIDE DEF entries, left, tokens, more, fits
  <2>5. /\ DOMAIN conts = {} /\ req.parent = Nil /\ req.from = Nil
        /\ \A c \in DOMAIN chains : chains[c].told = <<>> /\ ~chains[c].whole /\ chains[c].parent = Nil
    BY <2>1, <2>3 DEF FreshInv, Fresh
  <2>6. Cardinality(DOMAIN conts) \in Nat /\ MaxPageTokens \in Nat
    BY <2>5, FS_EmptySet, SessionAssumption
  <2>7. req.chain \in DOMAIN chains /\ ChainsOK(nodes, chains, faults)
    BY <2>1 DEF TypeInv, PageOK, WorkOK
  <2>8. UNCHANGED <<conts, chains>>
    <3>1. CASE fits
      <4>1. Refused(more) \/ Granted(tokens, more, left, Nil)
        BY <2>3, <2>4, <2>7, <3>1, ReplyFacts
      <4>2. ~Granted(tokens, more, left, Nil)
        BY <2>3, <2>5, <2>6, <3>1 DEF Granted
      <4>3. QED
        BY <4>1, <4>2 DEF Refused
    <3>2. CASE ~fits
      BY <2>3, <3>2
    <3>3. QED
      BY <3>1, <3>2
  <2>9. QED
    BY <2>1, <2>5, <2>8
<1>3. CASE Da3Fails
  <2>1. UNCHANGED <<backend, rootDone, conts, chains>> /\ pc' = "idle"
    BY <1>3 DEF Da3Fails, GiveUp
  <2>2. QED
    BY <2>1 DEF FreshInv, Fresh
<1>4. CASE Incompatible
  <2>1. UNCHANGED <<backend, rootDone, conts, chains>> /\ pc' = "idle"
    BY <1>4 DEF Incompatible, GiveUp
  <2>2. QED
    BY <2>1 DEF FreshInv, Fresh
<1>5. CASE Move \/ Read
  BY <1>5, Da2Steps
<1>6. QED
  BY <1>1, <1>2, <1>3, <1>4, <1>5 DEF Next, Da3

LEMMA TypeNext == TypeInv /\ FreshInv /\ [Next]_vars => TypeInv'
<1> SUFFICES ASSUME TypeInv, FreshInv, [Next]_vars PROVE TypeInv'
  OBVIOUS
<1>1. CASE Next
  <2>1. Scalars' /\ Steady
    BY <1>1, SmallSteps
  <2>2. QED
    BY <1>1, <2>1, TypeCall, TypeDa3Page, TypeDa3Fails, TypeIncompatible, TypeMove, TypeRead
       DEF Next, Da3
<1>2. CASE UNCHANGED vars
  BY <1>2 DEF vars, TypeInv, Scalars
<1>3. QED
  BY <1>1, <1>2

LEMMA FreshStep == TypeInv /\ FreshInv /\ [Next]_vars => FreshInv'
<1>1. UNCHANGED vars /\ FreshInv => FreshInv'
  BY DEF vars, FreshInv
<1>2. QED
  BY <1>1, FreshNext

LEMMA TypeInit == Init => TypeInv /\ FreshInv
<1> SUFFICES ASSUME Init PROVE TypeInv /\ FreshInv
  OBVIOUS
<1>1. /\ pc = "idle" /\ nodes = <<>> /\ conts = <<>> /\ page = Nil /\ out = <<>> /\ chains = <<>>
      /\ calls = 0 /\ faults = 0
  BY DEF Init
<1>2. /\ <<>> \in Seq(Words) /\ <<>> \in Seq(Entries) /\ Len(<<>>) = 0 /\ DOMAIN <<>> = {}
      /\ \A S : <<>> \in Seq(S)
  OBVIOUS
<1>3. Scalars
  BY <1>2, RootTrail, SessionAssumption DEF Init, Scalars
<1>4. NodesOK(nodes) /\ ChainsOK(nodes, chains, faults)
  BY <1>1, <1>2, SessionAssumption DEF NodesOK, ChainsOK
<1>5. DOMAIN conts = {} /\ DOMAIN chains = {} /\ out \in Seq(DOMAIN nodes)
  BY <1>1, <1>2
<1>6. /\ ContsOK(nodes, chains, backend, conts, calls)
      /\ PageOK(nodes, chains, backend, conts, calls, pc, req, page, out)
  BY <1>1, <1>5 DEF ContsOK, PageOK
<1>7. FreshInv
  BY <1>1, <1>5 DEF FreshInv, Fresh
<1>8. QED
  BY <1>3, <1>4, <1>6, <1>7 DEF TypeInv

LEMMA TypeAlways == Spec => [](TypeInv /\ FreshInv)
BY TypeInit, TypeNext, FreshStep, PTL DEF Spec

\* A session changes from DA 3 to DA 2 only before its client holds any token
\* of it (browse_da3 and the fallback of native_browse): the root lock is set
\* with the first page the client is given.
THEOREM FallsBackFirst == Spec => FallBackFirst
<1>1. TypeInv /\ FreshInv /\ [Next]_vars => [backend' # backend => Given = {} /\ DOMAIN conts = {}]_vars
  <2> SUFFICES ASSUME TypeInv, FreshInv, Next, backend' # backend
               PROVE  Given = {} /\ DOMAIN conts = {}
    OBVIOUS
  <2>1. Incompatible
    <3>1. ~(Move \/ Read)
      BY Da2Steps
    <3>2. ~Call
      BY DEF Call, FirstPage, NextPage
    <3>3. ~Da3Page /\ ~Da3Fails
      BY DEF Da3Page, Da3Fails
    <3>4. QED
      BY <3>1, <3>2, <3>3 DEF Next, Da3
  <2>2. pc = "da3" /\ CanFallBack
    BY <2>1 DEF Incompatible
  <2>3. backend = "da3" /\ ~rootDone
    BY <2>2 DEF CanFallBack, TypeInv, PageOK
  <2>4. DOMAIN conts = {} /\ \A c \in DOMAIN chains : chains[c].told = <<>>
    BY <2>3 DEF FreshInv, Fresh
  <2>5. ToSet(<<>>) = {}
    BY DEF ToSet
  <2>6. QED
    BY <2>4, <2>5 DEF Given
<1>2. QED
  BY <1>1, TypeAlways, PTL DEF FallBackFirst, Spec
-----------------------------------------------------------------------------
(***************************************************************************)
(* Where the cursor is. A move goes up a level at a time and truncates the *)
(* path only at the last: in between the cursor is ups levels above it.    *)
(***************************************************************************)

Tracked(c, p, u) ==
  /\ Len(TrailTo[c]) = Len(p) - u
  /\ \A i \in 1 .. Len(p) - u : TrailTo[c][i] = p[i]

HomeInv ==
  /\ Flat => ups = 0 /\ path = <<>> /\ ~adrift
  /\ Flat /\ pc # "idle" => req.parent = Nil
  /\ ~adrift => /\ Tracked(cursor, path, ups)
                /\ ups # 0 => pc = "move" /\ ups < Len(path) - Shared
  /\ backend = "da3" => path = <<>>
  /\ pc = "names" => path = page.trail

LEMMA TrackedHere ==
  ASSUME NEW c \in Nodes, NEW p, IsSeq(p), Tracked(c, p, 0)
  PROVE  TrailTo[c] = p /\ Walk(Root, p) = {c}
<1>1. IsSeq(TrailTo[c]) /\ Len(p) \in Nat
  BY TrailType, SeqElements
<1>2. TrailTo[c] = p
  BY <1>1, SameSeq DEF Tracked
<1>3. <<>> \o p = p
  BY DEF IsSeq
<1>4. Walk(Root, p) = {m \in Nodes : TrailTo[m] = TrailTo[c]}
  BY <1>2, <1>3, RootTrail DEF Walk
<1>5. QED
  BY <1>2, <1>4, TrailInjective

\* Away from a move up, the cursor is where the path says.
LEMMA AtHome ==
  ASSUME TypeInv, HomeInv, ~adrift,
         pc # "move" \/ Len(path) = Shared \/ Arrived
  PROVE  ups = 0
<1>1. CASE pc # "move"
  BY <1>1 DEF HomeInv
<1>2. CASE pc = "move" /\ Len(path) = Shared
  <2>1. Len(path) \in Nat
    BY <1>2, MoveFacts
  <2>2. ups # 0 => ups < Len(path) - Shared
    BY DEF HomeInv
  <2>3. QED
    BY <1>2, <2>1, <2>2 DEF TypeInv, Scalars
<1>3. CASE pc = "move" /\ Arrived
  <2>1. CASE Flat
    BY <2>1 DEF HomeInv
  <2>2. CASE ~Flat
    <3>1. path = page.trail
      BY <1>3, <2>2 DEF Arrived
    <3>2. Len(path) = Shared
      BY <1>3, <3>1, MoveFacts
    <3>3. QED
      BY <1>2, <1>3, <3>2
  <2>3. QED
    BY <2>1, <2>2
<1>4. QED
  BY <1>1, <1>2, <1>3 DEF Arrived

LEMMA FlatKept == ASSUME Steady PROVE Flat' = Flat
BY DEF Steady, Flat

\* A page that ends, or goes on where the cursor is.
LEMMA HomeStay ==
  ASSUME TypeInv, HomeInv, Steady, UNCHANGED <<cursor, path, backend, adrift>>,
         ups' = 0, ~adrift => ups = 0,
         pc' = "names" => path = page'.trail,
         Flat /\ pc' # "idle" => req'.parent = Nil
  PROVE  HomeInv'
<1>1. Flat' = Flat
  BY FlatKept
<1>2. Flat' => ups' = 0 /\ path' = <<>> /\ ~adrift'
  BY <1>1 DEF HomeInv
<1>3. ~adrift' => Tracked(cursor', path', ups')
  BY DEF HomeInv
<1>4. backend' = "da3" => path' = <<>>
  BY DEF HomeInv
<1>5. pc' = "names" => path' = page'.trail
  OBVIOUS
<1>6. QED
  BY <1>1, <1>2, <1>3, <1>4, <1>5 DEF HomeInv

\* Nothing is claimed of the cursor once a BROWSE_UP was refused.
LEMMA HomeAdrift ==
  ASSUME TypeInv, HomeInv, Steady, UNCHANGED <<path, backend>>, adrift', ~Flat, GiveUp
  PROVE  HomeInv'
<1>1. Flat' = Flat
  BY FlatKept
<1>2. pc' = "idle" /\ ups' = 0
  BY DEF GiveUp
<1>3. QED
  BY <1>1, <1>2 DEF HomeInv

LEMMA HomeCall == ASSUME TypeInv, HomeInv, Steady, Call PROVE HomeInv'
<1>1. PICK parent \in {Nil} \cup Given, filter \in Filters, size \in Nat :
        \/ FirstPage(parent, filter, size)
        \/ \E token \in 1 .. calls : NextPage(token, parent, filter, size)
  BY CallArguments
<1>2. pc = "idle" /\ UNCHANGED <<cursor, path, backend, adrift>>
  BY <1>1 DEF FirstPage, NextPage
<1>3. ~adrift => ups = 0
  BY <1>2, AtHome
<1>4. CASE UNCHANGED <<pc, workVars>>
  <2>1. Flat' = Flat /\ ups' = ups /\ pc' = "idle"
    BY <1>2, <1>4, FlatKept
  <2>2. QED
    BY <1>2, <1>3, <2>1 DEF HomeInv
<1>5. ASSUME NEW chain, NEW from, NEW state, Admitted(parent, size),
             Serve(parent, filter, size, chain, from, state),
             Flat /\ state # Nil => state.trail = <<>>
      PROVE  HomeInv'
  <2>1. /\ ups' = 0 /\ page' = state /\ req'.parent = parent
        /\ pc' = IF state = Nil THEN "da3" ELSE IF Flat /\ state.begun THEN "names" ELSE "move"
    BY <1>5 DEF Serve
  <2>2. Flat => parent = Nil
    BY <1>5 DEF Admitted
  <2>3. Flat => path = <<>>
    BY DEF HomeInv
  <2>4. pc' = "names" => path = page'.trail
    BY <1>5, <2>1, <2>3
  <2> HIDE DEF Flat
  <2>5. QED
    BY <1>2, <1>3, <2>1, <2>2, <2>4, HomeStay
<1>6. CASE FirstPage(parent, filter, size)
  <2>1. CASE Admitted(parent, size) /\ ParentFits(parent)
    <3> DEFINE state == IF backend = "da3" THEN Nil ELSE Da2Page(ParentTrail(parent))
    <3>1. Serve(parent, filter, size, Len(chains) + 1, Nil, state)
      BY <1>6, <2>1 DEF FirstPage
    <3>2. Flat /\ state # Nil => state.trail = <<>>
      <4>1. Flat => ParentTrail(parent) = <<>>
        BY <2>1 DEF Admitted, ParentTrail
      <4>2. Da2Page(ParentTrail(parent)).trail = ParentTrail(parent)
        BY DEF Da2Page
      <4>3. QED
        BY <4>1, <4>2
    <3> HIDE DEF state
    <3>3. QED
      BY <1>5, <2>1, <3>1, <3>2
  <2>2. CASE ~(Admitted(parent, size) /\ ParentFits(parent))
    BY <1>4, <1>6, <2>2 DEF FirstPage
  <2>3. QED
    BY <2>1, <2>2
<1>7. ASSUME NEW token, NextPage(token, parent, filter, size) PROVE HomeInv'
  <2> DEFINE good == /\ Admitted(parent, size) /\ token \in DOMAIN conts
                     /\ conts[token].parent = parent /\ conts[token].filter = filter
             e == conts[token]
  <2>1. CASE good
    <3>1. Serve(parent, filter, size, e.chain, e.from, e.page)
      BY <1>7, <2>1 DEF NextPage
    <3>2. WorkOK(nodes, chains, backend, e, e.from, e.page) /\ e.parent = parent
      BY <2>1 DEF TypeInv, ContsOK
    <3>3. Flat => parent = Nil
      BY <2>1 DEF Admitted
    <3> HIDE DEF e
    <3>4. Flat /\ e.page # Nil => e.page.trail = <<>>
      BY <3>2, <3>3 DEF WorkOK, Trail
    <3>5. QED
      BY <1>5, <2>1, <3>1, <3>4
  <2>2. CASE ~good
    BY <1>4, <1>7, <2>2 DEF NextPage
  <2>3. QED
    BY <2>1, <2>2
<1>8. QED
  BY <1>1, <1>6, <1>7

LEMMA HomeUp == ASSUME TypeInv, HomeInv, Steady, MoveUp PROVE HomeInv'
<1>1. /\ pc = "move" /\ ~Flat /\ Len(path) > Shared /\ cursor # Root /\ cursor \in Nodes
      /\ cursor' = Parent(cursor) /\ path' = AfterUp
      /\ ups' = IF path' = path THEN ups + 1 ELSE 0
      /\ UNCHANGED <<pc, backend, page, adrift, req>>
  BY DEF MoveUp, UpWorks, TypeInv, Scalars
<1>2. /\ IsSeq(path) /\ Len(path) \in Nat /\ Shared \in Nat /\ ups \in Nat
  BY <1>1, MoveFacts DEF TypeInv, Scalars
<1> DEFINE k == Shared
           up == SubSeq(path, 1, k)
<1>3. IsSeq(up) /\ Len(up) = k /\ \A i \in 1 .. k : up[i] = path[i]
  <2> HIDE DEF k
  <2>1. k \in 0 .. Len(path)
    BY <1>1, <1>2 DEF k
  <2>2. QED
    BY <1>2, <2>1, PrefixSeq
<1>4. Flat' = Flat
  BY FlatKept
<1>5. backend = "da2"
  BY <1>1, PageTypes
<1>6. /\ Parent(cursor) \in Nodes /\ IsSeq(TrailTo[Parent(cursor)])
      /\ TrailTo[cursor] = Append(TrailTo[Parent(cursor)], Name[cursor])
      /\ Len(TrailTo[cursor]) = Len(TrailTo[Parent(cursor)]) + 1
      /\ Len(TrailTo[Parent(cursor)]) \in Nat
  BY <1>1, ParentFacts, TrailType
<1>7. \A i \in 1 .. Len(TrailTo[Parent(cursor)]) : TrailTo[cursor][i] = TrailTo[Parent(cursor)][i]
  <2> DEFINE s == TrailTo[Parent(cursor)]
  <2>1. IsSeq(s) /\ TrailTo[cursor] = Append(s, Name[cursor])
    BY <1>6
  <2> HIDE DEF s
  <2>2. \A i \in 1 .. Len(s) : Append(s, Name[cursor])[i] = s[i]
    BY <2>1, AppendSeq
  <2>3. QED
    BY <2>1, <2>2 DEF s
<1>8. ASSUME ~adrift
      PROVE  /\ Tracked(cursor', path', ups')
             /\ ups' # 0 => ups' < Len(path') - Shared'
  <2>1. Tracked(cursor, path, ups) /\ ups < Len(path) - k
    BY <1>1, <1>2, <1>8 DEF HomeInv
  <2>2. /\ Len(TrailTo[Parent(cursor)]) = Len(path) - (ups + 1)
        /\ \A i \in 1 .. Len(path) - (ups + 1) : TrailTo[Parent(cursor)][i] = path[i]
    <3> DEFINE a == Len(TrailTo[Parent(cursor)])
               l == Len(path)
    <3>1. a = l - (ups + 1)
      BY <1>2, <1>6, <2>1 DEF Tracked
    <3>2. \A i \in 1 .. a : i \in 1 .. l - ups
      <4>1. a \in Nat /\ l \in Nat
        BY <1>2, <1>6
      <4> HIDE DEF a, l
      <4>2. QED
        BY <1>2, <3>1, <4>1
    <3>3. \A i \in 1 .. a : TrailTo[Parent(cursor)][i] = path[i]
      BY <1>7, <2>1, <3>2 DEF Tracked
    <3>4. QED
      BY <3>1, <3>3
  <2>3. CASE ups + 1 = Len(path) - k
    <3>1. path' = up
      BY <1>1, <2>3 DEF AfterUp
    <3>2. path' # path /\ ups' = 0
      <4>1. Len(path') = k
        BY <1>3, <3>1
      <4>2. k # Len(path)
        BY <1>1, <1>2
      <4>3. QED
        BY <1>1, <4>1, <4>2
    <3>3. Len(path) - (ups + 1) = k
      BY <1>2, <2>3
    <3>4. Tracked(cursor', path', 0)
      <4> HIDE DEF k, up
      <4>1. k \in Nat
        BY <1>2 DEF k
      <4>2. QED
        BY <1>1, <1>3, <2>2, <3>1, <3>3, <4>1 DEF Tracked
    <3>5. QED
      BY <3>2, <3>4
  <2>4. CASE ups + 1 # Len(path) - k
    <3>1. path' = path /\ ups' = ups + 1
      BY <1>1, <2>4 DEF AfterUp
    <3>2. Shared' = Shared
      BY <1>1, <3>1 DEF Shared
    <3>3. ups + 1 < Len(path) - k
      BY <1>2, <2>1, <2>4
    <3>4. Tracked(cursor', path', ups')
      BY <1>1, <2>2, <3>1 DEF Tracked
    <3>5. QED
      BY <3>1, <3>2, <3>3, <3>4
  <2>5. QED
    BY <2>3, <2>4
<1>9. QED
  BY <1>1, <1>4, <1>5, <1>8 DEF HomeInv

LEMMA HomeDown == ASSUME TypeInv, HomeInv, Steady, MoveDown PROVE HomeInv'
<1>1. /\ pc = "move" /\ ~Flat /\ Len(path) = Shared /\ path # page.trail /\ cursor \in Nodes
      /\ cursor' \in Below(DownName) /\ path' = Append(path, DownName)
      /\ UNCHANGED <<pc, backend, page, ups, adrift, req>>
  BY DEF MoveDown, AtShared, TypeInv, Scalars
<1>2. IsSeq(path) /\ Len(path) \in Nat
  BY <1>1, MoveFacts
<1>3. cursor' \in KidsOf(cursor) /\ Name[cursor'] = DownName
  BY <1>1, BelowFacts
<1> DEFINE n == cursor'
<1>4. TrailTo[n] = Append(TrailTo[cursor], DownName)
  BY <1>1, <1>3, KidFacts
<1>5. Flat' = Flat /\ backend = "da2"
  BY <1>1, FlatKept, PageTypes
<1>6. ASSUME ~adrift PROVE ups = 0 /\ Tracked(cursor', path', 0)
  <2>1. ups = 0
    BY <1>1, <1>6, AtHome
  <2>2. TrailTo[cursor] = path
    <3>1. Tracked(cursor, path, 0)
      BY <1>6, <2>1 DEF HomeInv
    <3>2. QED
      BY <1>1, <1>2, <3>1, TrackedHere
  <2>3. TrailTo[cursor'] = path'
    BY <1>1, <1>4, <2>2
  <2>4. IsSeq(path') /\ Len(path') \in Nat
    <3> HIDE DEF DownName
    <3>1. IsSeq(Append(path, DownName)) /\ Len(Append(path, DownName)) = Len(path) + 1
      BY <1>2, AppendSeq
    <3>2. QED
      BY <1>1, <1>2, <3>1
  <2>5. QED
    BY <2>1, <2>3, <2>4 DEF Tracked
<1>7. QED
  BY <1>1, <1>5, <1>6 DEF HomeInv

LEMMA HomeQuit ==
  ASSUME TypeInv, HomeInv, Steady, GiveUp, UNCHANGED <<cursor, path, backend, adrift>>,
         pc # "move" \/ Len(path) = Shared \/ Arrived
  PROVE  HomeInv'
<1>1. ~adrift => ups = 0
  BY AtHome
<1>2. pc' = "idle" /\ ups' = 0
  BY DEF GiveUp
<1>3. QED
  BY <1>1, <1>2, HomeStay

LEMMA HomeRead ==
  ASSUME TypeInv, HomeInv, Steady, UNCHANGED <<cursor, path, backend, adrift>>, pc = "names",
         GiveUp \/ (page'.trail = page.trail /\ UNCHANGED <<pc, req, ups>>)
  PROVE  HomeInv'
<1>1. CASE GiveUp
  BY <1>1, HomeQuit
<1>2. CASE page'.trail = page.trail /\ UNCHANGED <<pc, req, ups>>
  <2>1. Flat' = Flat /\ path = page.trail /\ ups = ups'
    BY <1>2, FlatKept DEF HomeInv
  <2>2. ~adrift => ups = 0
    BY AtHome
  <2>3. QED
    BY <1>2, <2>1, <2>2 DEF HomeInv
<1>3. QED
  BY <1>1, <1>2

LEMMA HomeNext ==
  ASSUME TypeInv, FreshInv, HomeInv, Next
  PROVE  HomeInv'
<1>1. Steady /\ Scalars /\ nodes \in Seq(Entries)
  BY SmallSteps DEF TypeInv, NodesOK
<1>2. CASE Call
  BY <1>1, <1>2, HomeCall
<1>3. CASE Da3Page \/ Da3Fails
  <2>1. GiveUp /\ UNCHANGED <<cursor, path, backend, adrift>> /\ pc = "da3"
    BY <1>3 DEF Da3Page, Da3Fails, Reply
  <2>2. QED
    BY <1>1, <2>1, HomeQuit
<1>4. CASE Incompatible
  <2>1. CASE CanFallBack /\ profile.da2
    <3>1. /\ UNCHANGED <<cursor, adrift, req, ups>> /\ path' = <<>> /\ backend' = "da2" /\ pc' = "move"
          /\ pc = "da3" /\ backend = "da3"
      BY <1>4, <2>1, RemainingOK DEF Incompatible
    <3>2. path = path' /\ Flat' = Flat /\ (~adrift => ups = 0)
      BY <1>1, <3>1, FlatKept, AtHome DEF HomeInv
    <3>3. Flat => ups' = 0 /\ path' = <<>> /\ ~adrift'
      BY <3>1, <3>2 DEF HomeInv
    <3>4. Flat => req'.parent = Nil
      BY <3>1 DEF HomeInv
    <3>5. ~adrift' => Tracked(cursor', path', ups') /\ ups' = 0
      BY <3>1, <3>2 DEF HomeInv
    <3>6. backend' # "da3" /\ pc' # "names"
      BY <3>1
    <3>7. QED
      BY <3>2, <3>3, <3>4, <3>5, <3>6 DEF HomeInv
  <2>2. CASE ~(CanFallBack /\ profile.da2)
    <3>1. GiveUp /\ UNCHANGED <<cursor, path, backend, adrift>> /\ pc = "da3"
      BY <1>4, <2>2 DEF Incompatible
    <3>2. QED
      BY <1>1, <3>1, HomeQuit
  <2>3. QED
    BY <2>1, <2>2
<1>5. CASE MoveUp
  BY <1>1, <1>5, HomeUp
<1>6. CASE MoveDown
  BY <1>1, <1>6, HomeDown
<1>7. CASE MoveUpRefused \/ ProbeStrands
  BY <1>1, <1>7, HomeAdrift DEF MoveUpRefused, ProbeStrands
<1>8. CASE MoveDownRefused
  BY <1>1, <1>8, HomeQuit DEF MoveDownRefused, AtShared
<1>9. CASE Begin
  <2>1. Arrived /\ UNCHANGED <<cursor, path, backend, adrift, req, ups>> /\ pc' = "names" /\ pc = "move"
    BY <1>9 DEF Begin, Arrived
  <2>2. page'.trail = page.trail
    BY <1>9, BeginShape DEF Shape
  <2>3. path = page.trail
    <3>1. CASE Flat
      <4>1. path = <<>> /\ req.parent = Nil
        BY <2>1, <3>1 DEF HomeInv
      <4>2. page.trail = Trail(nodes, req.parent)
        BY <2>1, PageTypes
      <4>3. QED
        BY <4>1, <4>2 DEF Trail
    <3>2. CASE ~Flat
      BY <2>1, <3>2 DEF Arrived
    <3>3. QED
      BY <3>1, <3>2
  <2>4. ~adrift => ups = 0
    BY <2>1, AtHome
  <2>5. Flat => ups' = 0 /\ path' = <<>> /\ ~adrift' /\ req'.parent = Nil
    BY <2>1 DEF HomeInv
  <2>6. ~adrift' => Tracked(cursor', path', ups') /\ ups' = 0
    BY <2>1, <2>4 DEF HomeInv
  <2>7. Flat' = Flat /\ (backend' = "da3" => path' = <<>>)
    BY <1>1, <2>1, FlatKept DEF HomeInv
  <2>8. path' = page'.trail
    BY <2>1, <2>2, <2>3
  <2>9. QED
    BY <2>5, <2>6, <2>7, <2>8 DEF HomeInv
<1>10. CASE Arrive
  <2>1. /\ UNCHANGED <<cursor, path, backend, adrift, req, ups, page>> /\ pc' = "names" /\ pc = "move"
        /\ path = page.trail
    BY <1>10 DEF Arrive
  <2>2. ~adrift => ups = 0
    BY <2>1, AtHome, MoveFacts
  <2>3. Flat => ups' = 0 /\ path' = <<>> /\ ~adrift' /\ req'.parent = Nil
    BY <2>1 DEF HomeInv
  <2>4. ~adrift' => Tracked(cursor', path', ups') /\ ups' = 0
    BY <2>1, <2>2 DEF HomeInv
  <2>5. Flat' = Flat /\ (backend' = "da3" => path' = <<>>) /\ path' = page'.trail
    BY <1>1, <2>1, FlatKept DEF HomeInv
  <2>6. QED
    BY <2>3, <2>4, <2>5 DEF HomeInv
<1>11. CASE NextBranch
  <2>1. pc = "names" /\ page.branches # Nil /\ UNCHANGED <<cursor, path, backend, adrift>>
    BY <1>11 DEF NextBranch, InBranches, Listing
  <2>2. page \in Pages
    BY <2>1, PageTypes
  <2>3. PICK x, r, v :
           /\ BranchRead(x, r, v)
           /\ IF v.in \/ (r.id # Nil /\ req.filter # "branches")
              THEN List(x.f.res.name, r.id, v.in, BranchState(x, r, v))
              ELSE Skip(BranchState(x, r, v))
    BY <1>11, <2>2, NextBranchForm
  <2>4. BranchState(x, r, v).trail = page.trail
    BY <2>1, <2>3, BranchShape DEF Shape
  <2>5. GiveUp \/ (page' = BranchState(x, r, v) /\ UNCHANGED <<pc, req, ups>>)
    BY <2>3 DEF List, Skip
  <2>6. QED
    BY <1>1, <2>1, <2>4, <2>5, HomeRead
<1>12. CASE NextItem
  <2>1. pc = "names" /\ page.items # Nil /\ UNCHANGED <<cursor, path, backend, adrift>>
    BY <1>12 DEF NextItem, InItems, Listing
  <2>2. PICK x \in NextOf(page.items) : GiveUp \/ (page' = ItemState(x) /\ UNCHANGED <<pc, req, ups>>)
    BY <1>12 DEF NextItem, List, Skip, ItemState
  <2>3. ItemState(x).trail = page.trail
    BY <2>1, ItemShape DEF Shape
  <2>4. QED
    BY <1>1, <2>1, <2>2, <2>3, HomeRead
<1>13. CASE EndBranches \/ EndItems
  <2>1. /\ pc = "names" /\ UNCHANGED <<cursor, path, backend, adrift, pc, req, ups>>
        /\ page' = [page EXCEPT !.branches = Nil] \/ page' = [page EXCEPT !.items = Nil]
    BY <1>13 DEF EndBranches, EndItems, InBranches, InItems, Listing
  <2>2. page'.trail = page.trail
    <3>1. page \in Pages
      BY <2>1, PageTypes
    <3>2. QED
      BY <2>1, <3>1 DEF Pages
  <2>3. QED
    BY <1>1, <2>1, <2>2, HomeRead
<1>14. CASE NamesFail \/ CallFails \/ EndPage
  <2>1. GiveUp /\ UNCHANGED <<cursor, path, backend, adrift>> /\ (pc # "move" \/ Arrived)
    BY <1>14 DEF NamesFail, CallFails, EndPage, EndForm, Reply, InBranches, InItems, Listing, PageFull
  <2>2. QED
    BY <1>1, <2>1, HomeQuit
<1>15. QED
  BY <1>2, <1>3, <1>4, <1>5, <1>6, <1>7, <1>8, <1>9, <1>10, <1>11, <1>12, <1>13, <1>14
     DEF Next, Da3, Move, Read

LEMMA HomeStep == TypeInv /\ FreshInv /\ HomeInv /\ [Next]_vars => HomeInv'
<1>1. UNCHANGED vars /\ HomeInv => HomeInv'
  BY DEF vars, HomeInv, Flat, Shared
<1>2. QED
  BY <1>1, HomeNext

LEMMA HomeInit == Init => HomeInv
<1> SUFFICES ASSUME Init PROVE HomeInv
  OBVIOUS
<1>1. pc = "idle" /\ path = <<>> /\ ups = 0 /\ cursor = Root /\ adrift = FALSE
  BY DEF Init
<1>2. Tracked(Root, <<>>, 0)
  BY RootTrail DEF Tracked
<1>3. QED
  BY <1>1, <1>2 DEF HomeInv

LEMMA HomeAlways == Spec => [](TypeInv /\ FreshInv /\ HomeInv)
BY TypeInit, HomeInit, TypeNext, FreshStep, HomeStep, PTL DEF Spec

\* Whatever fails in a move or a probe, current_path names the node the
\* server's cursor is at when the page is over, unless a BROWSE_UP was refused.
THEOREM CursorIsTracked == Spec => []CursorTracked
<1>1. TypeInv /\ HomeInv => CursorTracked
  <2> SUFFICES ASSUME TypeInv, HomeInv, ~adrift, pc = "idle" PROVE Walk(Root, path) = {cursor}
    BY DEF CursorTracked
  <2>1. ups = 0
    BY AtHome
  <2>2. cursor \in Nodes /\ IsSeq(path) /\ Tracked(cursor, path, 0)
    BY <2>1, SeqIsSeq DEF TypeInv, Scalars, HomeInv
  <2>3. QED
    BY <2>2, TrackedHere
<1>2. QED
  BY <1>1, HomeAlways, PTL
-----------------------------------------------------------------------------
(***************************************************************************)
(* What a page shows belongs to the node it was asked for.                 *)
(***************************************************************************)

Placed(ns, S, t) == \E n \in S : \E k \in ChildNamed(n, ns[t].name) : ns[t].id \in {Nil, Id[k]}

PlaceInv ==
  ~adrift /\ ~(Flat /\ backend = "da2") =>
    /\ \A c \in DOMAIN chains : \A i \in DOMAIN chains[c].told :
         Placed(nodes, At(nodes, chains[c].parent), chains[c].told[i])
    /\ \A i \in DOMAIN out : Placed(nodes, At(nodes, req.parent), out[i])

\* A DA 2 page reads names where it was asked to.
LEMMA ReadsThere ==
  ASSUME TypeInv, HomeInv, ~adrift, pc = "names" \/ (Arrived /\ ~Flat)
  PROVE  At(nodes, req.parent) = {cursor} /\ cursor \in Nodes
<1>1. ups = 0 /\ path = page.trail
  BY AtHome DEF Arrived, HomeInv
<1>2. cursor \in Nodes /\ IsSeq(path) /\ Tracked(cursor, path, 0) /\ path = page.trail
  BY <1>1, SeqIsSeq DEF TypeInv, Scalars, HomeInv
<1>3. Walk(Root, path) = {cursor}
  BY <1>2, TrackedHere
<1>4. page.trail = Trail(nodes, req.parent) /\ (req.parent # Nil => nodes[req.parent].loc.api = "da2")
  BY NoneAssumption DEF TypeInv, PageOK, WorkOK, Arrived
<1>5. CASE req.parent # Nil
  BY <1>2, <1>3, <1>4, <1>5 DEF At, Trail
<1>6. CASE req.parent = Nil
  <2>1. path = <<>>
    BY <1>2, <1>4, <1>6 DEF Trail
  <2>2. <<>> \o <<>> = <<>>
    OBVIOUS
  <2>3. Root \in Walk(Root, path)
    BY <2>1, <2>2, RootTrail DEF Walk
  <2>4. cursor = Root
    BY <1>3, <2>3
  <2>5. QED
    BY <1>2, <1>6, <2>4 DEF At
<1>7. QED
  BY <1>5, <1>6

\* A name that could be entered, or has an item ID, is a child there.
LEMMA NameFound ==
  ASSUME NEW name, NEW r \in Resolved(name), NEW v \in Navigable(name), v.in \/ r.id # Nil
  PROVE  \E k \in ChildNamed(cursor, name) : r.id \in {Nil, Id[k]}
<1>1. CASE r.id # Nil
  <2>1. \E k \in ChildNamed(cursor, name) \cap Items : r.id = Id[k]
    BY <1>1 DEF Resolved
  <2>2. QED
    BY <2>1
<1>2. CASE r.id = Nil
  <2>1. v.in
    BY <1>2
  <2>2. Below(name) # {}
    <3>1. SUFFICES ASSUME Below(name) = {} PROVE FALSE
      OBVIOUS
    <3>2. (Below(name) # {}) = FALSE
      BY <3>1
    <3>3. v = [in |-> FALSE, cost |-> 0]
      BY <3>1, <3>2 DEF Navigable
    <3>4. v.in = FALSE
      BY <3>3
    <3>5. QED
      BY <2>1, <3>4
  <2>3. QED
    BY <1>2, <2>2 DEF Below
<1>3. QED
  BY <1>1, <1>2

\* Tokens given keep their place.
LEMMA PlacedKept ==
  ASSUME NEW ns, NEW ms, Grown(ns, ms), NEW parent \in {Nil} \cup DOMAIN ns, NEW t \in DOMAIN ns,
         Placed(ns, At(ns, parent), t)
  PROVE  Placed(ms, At(ms, parent), t)
<1>1. At(ms, parent) = At(ns, parent) /\ ms[t] = ns[t]
  BY AtKept DEF Grown
<1>2. QED
  BY <1>1 DEF Placed

ToldPlaced(ns, cs) ==
  \A c \in DOMAIN cs : \A i \in DOMAIN cs[c].told : Placed(ns, At(ns, cs[c].parent), cs[c].told[i])

LEMMA ChainTypes ==
  ASSUME TypeInv, NEW c \in DOMAIN chains
  PROVE  /\ chains[c].parent \in {Nil} \cup DOMAIN nodes /\ chains[c].told \in Seq(DOMAIN nodes)
         /\ chains[c].filter \in Filters /\ chains[c].since \in Nat /\ chains[c].since <= faults
         /\ faults \in Nat /\ chains[c].whole \in BOOLEAN
<1>1. chains[c] \in Chains(DOMAIN nodes) /\ chains[c].since <= faults /\ faults \in Nat
  BY DEF TypeInv, ChainsOK
<1>2. QED
  BY <1>1 DEF Chains

LEMMA ToldKept ==
  ASSUME TypeInv, Grown(nodes, nodes'), ToldPlaced(nodes, chains)
  PROVE  ToldPlaced(nodes', chains)
<1> SUFFICES ASSUME NEW c \in DOMAIN chains, NEW i \in DOMAIN chains[c].told
             PROVE  Placed(nodes', At(nodes', chains[c].parent), chains[c].told[i])
  BY DEF ToldPlaced
<1>1. chains[c].parent \in {Nil} \cup DOMAIN nodes /\ chains[c].told[i] \in DOMAIN nodes
  BY ChainTypes
<1>2. Placed(nodes, At(nodes, chains[c].parent), chains[c].told[i])
  BY DEF ToldPlaced
<1>3. QED
  BY <1>1, <1>2, PlacedKept

\* A reply adds tokens that are in place to its chain.
LEMMA ToldReply ==
  ASSUME TypeInv, pc # "idle", ToldPlaced(nodes', chains),
         NEW tokens, IsSeq(tokens), NEW more \in BOOLEAN, NEW from, NEW state,
         Reply(tokens, more, from, state),
         \A i \in DOMAIN tokens : Placed(nodes', At(nodes', req.parent), tokens[i])
  PROVE  ToldPlaced(nodes', chains')
<1>1. /\ req.chain \in DOMAIN chains /\ chains[req.chain].parent = req.parent
      /\ ChainsOK(nodes, chains, faults)
  BY DEF TypeInv, PageOK, WorkOK
<1>2. Refused(more) \/ Granted(tokens, more, from, state)
  BY <1>1, ReplyFacts
<1>3. CASE Refused(more)
  BY <1>3 DEF Refused
<1>4. CASE Granted(tokens, more, from, state)
  <2> DEFINE d == req.chain
             told == chains[d].told
  <2>1. /\ DOMAIN chains' = DOMAIN chains
        /\ chains'[d].parent = chains[d].parent /\ chains'[d].told = told \o tokens
        /\ \A c \in DOMAIN chains : c # d => chains'[c] = chains[c]
    BY <1>4 DEF Granted
  <2>2. IsSeq(told)
    BY <1>1, ChainTypes, SeqIsSeq
  <2>3. ASSUME NEW i \in DOMAIN (told \o tokens)
        PROVE  Placed(nodes', At(nodes', req.parent), (told \o tokens)[i])
    <3> HIDE DEF told, d
    <3>1. /\ IsSeq(told \o tokens) /\ Len(told \o tokens) = Len(told) + Len(tokens)
          /\ \A j \in 1 .. Len(told) : (told \o tokens)[j] = told[j]
          /\ \A j \in 1 .. Len(tokens) : (told \o tokens)[Len(told) + j] = tokens[j]
      BY <2>2, ConcatSeq
    <3>2. /\ DOMAIN (told \o tokens) = 1 .. Len(told) + Len(tokens)
          /\ DOMAIN told = 1 .. Len(told) /\ DOMAIN tokens = 1 .. Len(tokens)
          /\ Len(told) \in Nat /\ Len(tokens) \in Nat
      BY <2>2, <3>1, SeqElements
    <3>3. CASE i \in 1 .. Len(told)
      <4>1. i \in DOMAIN told /\ (told \o tokens)[i] = told[i]
        BY <3>1, <3>2, <3>3
      <4>2. Placed(nodes', At(nodes', chains[d].parent), told[i])
        BY <1>1, <4>1 DEF ToldPlaced, told, d
      <4>3. QED
        BY <1>1, <4>1, <4>2 DEF d
    <3>4. CASE i \notin 1 .. Len(told)
      <4> DEFINE j == i - Len(told)
      <4>1. j \in 1 .. Len(tokens) /\ i = Len(told) + j
        BY <3>2, <3>4
      <4> HIDE DEF j
      <4>2. (told \o tokens)[i] = tokens[j] /\ j \in DOMAIN tokens
        BY <3>1, <3>2, <4>1
      <4>3. QED
        BY <4>2
    <3>5. QED
      BY <3>3, <3>4
  <2>4. \A i \in DOMAIN chains'[d].told : Placed(nodes', At(nodes', chains'[d].parent), chains'[d].told[i])
    BY <1>1, <2>1, <2>3
  <2> HIDE DEF told, d
  <2>5. \A c \in DOMAIN chains : c # d =>
          \A i \in DOMAIN chains'[c].told : Placed(nodes', At(nodes', chains'[c].parent), chains'[c].told[i])
    BY <2>1 DEF ToldPlaced
  <2>6. QED
    BY <2>1, <2>4, <2>5 DEF ToldPlaced
<1>5. QED
  BY <1>2, <1>3, <1>4

Hierarchic == ~adrift /\ ~(Flat /\ backend = "da2")

LEMMA PlaceForm ==
  PlaceInv <=> (Hierarchic => /\ ToldPlaced(nodes, chains)
                              /\ \A i \in DOMAIN out : Placed(nodes, At(nodes, req.parent), out[i]))
BY DEF PlaceInv, Hierarchic, ToldPlaced

LEMMA StaysAdrift == ASSUME Next PROVE adrift => adrift'
BY DEF Next, Call, FirstPage, NextPage, Da3, Da3Page, Da3Fails, Incompatible, Move, MoveUp,
     MoveUpRefused, MoveDown, MoveDownRefused, Begin, Arrive, Read, NextBranch, EndBranches, NextItem,
     EndItems, NamesFail, CallFails, ProbeStrands, EndPage

LEMMA HierarchicBack == ASSUME TypeInv, Next, Hierarchic' PROVE Hierarchic
<1>1. Flat' = Flat /\ Scalars /\ Scalars'
  BY SmallSteps, FlatKept DEF TypeInv
<1>2. adrift => adrift'
  BY StaysAdrift
<1>3. backend = "da2" => backend' = "da2"
  <2>1. CASE Move \/ Read
    BY <2>1, Da2Steps
  <2>2. CASE Call
    BY <2>2 DEF Call, FirstPage, NextPage
  <2>3. CASE Da3
    BY <2>3 DEF Da3, Da3Page, Da3Fails, Incompatible
  <2>4. QED
    BY <2>1, <2>2, <2>3 DEF Next
<1>4. QED
  BY <1>1, <1>2, <1>3 DEF Hierarchic

\* A page that is given up shows nothing.
LEMMA PlaceQuit ==
  ASSUME TypeInv, ToldPlaced(nodes, chains), Grown(nodes, nodes'), out' = <<>>, UNCHANGED chains
  PROVE  PlaceInv'
<1>1. ToldPlaced(nodes', chains')
  BY ToldKept
<1>2. DOMAIN <<>> = {}
  OBVIOUS
<1>3. QED
  BY <1>1, <1>2 DEF PlaceInv, ToldPlaced

\* A name that is a child where the cursor is, in a page of the names there.
LEMMA PlaceAdd ==
  ASSUME TypeInv, ToldPlaced(nodes, chains), pc = "names", Grown(nodes, nodes'), UNCHANGED chains,
         \A i \in DOMAIN out : Placed(nodes, At(nodes, req.parent), out[i]),
         At(nodes, req.parent) = {cursor},
         NEW kind, NEW name, NEW id, NEW state, Added(kind, name, id, state),
         \E k \in ChildNamed(cursor, name) : id \in {Nil, Id[k]}
  PROVE  PlaceInv'
<1>1. ToldPlaced(nodes', chains')
  BY ToldKept
<1>2. /\ out \in Seq(DOMAIN nodes) /\ req.parent \in {Nil} \cup DOMAIN nodes
  BY PageTypes DEF TypeInv, PageOK
<1> DEFINE t == Len(nodes) + 1
<1>3. /\ out' = Append(out, t) /\ req' = req /\ nodes'[t].name = name /\ nodes'[t].id = id
  BY DEF Added
<1>4. At(nodes', req'.parent) = {cursor}
  BY <1>2, <1>3, AtKept
<1>5. Placed(nodes', At(nodes', req'.parent), t)
  BY <1>3, <1>4 DEF Placed
<1> HIDE DEF t
<1>6. /\ IsSeq(out) /\ IsSeq(Append(out, t)) /\ Len(Append(out, t)) = Len(out) + 1
      /\ \A i \in 1 .. Len(out) : Append(out, t)[i] = out[i]
      /\ Append(out, t)[Len(out) + 1] = t
  <2>1. IsSeq(out)
    BY <1>2, SeqIsSeq
  <2>2. QED
    BY <2>1, AppendSeq
<1>7. DOMAIN out' = 1 .. Len(out) + 1 /\ DOMAIN out = 1 .. Len(out) /\ Len(out) \in Nat
  BY <1>3, <1>6, SeqElements
<1>8. ASSUME NEW i \in DOMAIN out' PROVE Placed(nodes', At(nodes', req'.parent), out'[i])
  <2>1. CASE i = Len(out) + 1
    BY <1>3, <1>5, <1>6, <2>1
  <2>2. CASE i # Len(out) + 1
    <3>1. i \in DOMAIN out
      BY <1>7, <2>2
    <3>2. out'[i] = out[i]
      BY <1>3, <1>6, <1>7, <3>1
    <3>3. out[i] \in DOMAIN nodes
      BY <1>2, <3>1
    <3>4. Placed(nodes, At(nodes, req.parent), out[i])
      BY <3>1
    <3>5. Placed(nodes', At(nodes', req.parent), out[i])
      BY <1>2, <3>3, <3>4, PlacedKept
    <3>6. QED
      BY <1>3, <3>2, <3>5
  <2>3. QED
    BY <2>1, <2>2
<1>9. QED
  BY <1>1, <1>8 DEF PlaceInv, ToldPlaced

LEMMA PlaceCall ==
  ASSUME TypeInv, ToldPlaced(nodes, chains), Call,
         \A i \in DOMAIN out : Placed(nodes, At(nodes, req.parent), out[i])
  PROVE  PlaceInv'
<1>1. PICK parent \in {Nil} \cup Given, filter \in Filters, size \in Nat :
        \/ FirstPage(parent, filter, size)
        \/ \E token \in 1 .. calls : NextPage(token, parent, filter, size)
  BY CallArguments
<1>2. nodes' = nodes /\ pc = "idle"
  BY <1>1 DEF FirstPage, NextPage
<1>3. Grown(nodes, nodes') /\ out = <<>>
  BY <1>2, GrownSelf DEF TypeInv, PageOK
<1>4. out' = <<>>
  BY <1>1, <1>3 DEF FirstPage, NextPage, Serve
<1>5. CASE chains' = chains
  BY <1>3, <1>4, <1>5, PlaceQuit
<1>6. CASE chains' # chains
  <2>1. chains' = Append(chains, Chain(parent, filter))
    BY <1>1, <1>6 DEF FirstPage, NextPage
  <2>2. parent \in {Nil} \cup DOMAIN nodes
    BY GivenNodes
  <2>3. /\ DOMAIN chains = 1 .. Len(chains) /\ DOMAIN chains' = 1 .. Len(chains) + 1 /\ Len(chains) \in Nat
        /\ \A c \in DOMAIN chains : chains'[c] = chains[c]
        /\ chains'[Len(chains) + 1] = Chain(parent, filter) /\ Chain(parent, filter).told = <<>>
    BY <2>1, <2>2, FirstChain, ChainType
  <2>4. DOMAIN <<>> = {}
    OBVIOUS
  <2> HIDE DEF Chain
  <2>5. ToldPlaced(nodes', chains')
    <3> SUFFICES ASSUME NEW c \in DOMAIN chains', NEW i \in DOMAIN chains'[c].told
                 PROVE  Placed(nodes, At(nodes, chains'[c].parent), chains'[c].told[i])
      BY <1>2 DEF ToldPlaced
    <3>1. c # Len(chains) + 1
      BY <2>3, <2>4
    <3>2. c \in DOMAIN chains /\ chains'[c] = chains[c]
      BY <2>3, <3>1
    <3>3. QED
      BY <3>2 DEF ToldPlaced
  <2>6. QED
    BY <1>4, <2>4, <2>5 DEF PlaceInv, ToldPlaced
<1>7. QED
  BY <1>5, <1>6

LEMMA PlaceDa3Page ==
  ASSUME TypeInv, ToldPlaced(nodes, chains), Da3Page
  PROVE  PlaceInv'
<1>1. pc = "da3"
  BY DEF Da3Page
<1>2. PICK n \in Nat :
        /\ n <= Len(Remaining)
        /\ LET entries == [i \in 1 .. n |-> Da3Entry(Remaining[i])]
               left == SubSeq(Remaining, n + 1, Len(Remaining))
           IN /\ Insert(entries)
              /\ IF Fits(entries)
                 THEN Reply([i \in 1 .. n |-> Len(nodes) + i], n < Len(Remaining), left, Nil)
                 ELSE GiveUp /\ UNCHANGED <<conts, chains>>
  BY Da3Form
<1> DEFINE entries == [i \in 1 .. n |-> Da3Entry(Remaining[i])]
           left == SubSeq(Remaining, n + 1, Len(Remaining))
           tokens == [i \in 1 .. n |-> Len(nodes) + i]
           more == n < Len(Remaining)
<1>3. /\ entries \in Seq(Entries) /\ Len(entries) = n
      /\ \A i \in 1 .. n : Remaining[i] \in KidsOf(ParentNode)
  BY <1>1, <1>2, EntriesOK
<1>4. NodesOK(nodes) /\ Insert(entries)
  BY <1>2 DEF TypeInv
<1>5. /\ ParentNode \in Nodes /\ At(nodes, req.parent) = {ParentNode}
      /\ req.parent \in {Nil} \cup DOMAIN nodes
  BY <1>1, RemainingOK DEF Requested
<1>6. \A i \in 1 .. n : entries[i] = Da3Entry(Remaining[i])
  OBVIOUS
<1> HIDE DEF entries
<1>7. /\ Grown(nodes, nodes') /\ NodesOK(nodes')
      /\ Fits(entries) => /\ DOMAIN nodes' = 1 .. Len(nodes) + n /\ Len(nodes) \in Nat
                          /\ \A i \in 1 .. n : nodes'[Len(nodes) + i] = entries[i]
  BY <1>3, <1>4, Inserted
<1>8. CASE Fits(entries)
  <2>1. Reply(tokens, more, left, Nil)
    BY <1>2, <1>8 DEF entries
  <2>2. ASSUME NEW i \in 1 .. n PROVE Placed(nodes', At(nodes', req.parent), tokens[i])
    <3> DEFINE k == Remaining[i]
    <3>1. tokens[i] = Len(nodes) + i /\ nodes'[Len(nodes) + i] = Da3Entry(k)
      BY <1>6, <1>7, <1>8
    <3>2. k \in KidsOf(ParentNode)
      BY <1>3
    <3> HIDE DEF k, tokens
    <3>3. /\ Da3Entry(k).name = Name[k]
          /\ Da3Entry(k).id = IF IsItem(KindOf(k)) THEN Id[k] ELSE Nil
      BY <1>5, <3>2, Da3EntryOK
    <3>4. k \in ChildNamed(ParentNode, Da3Entry(k).name) /\ Da3Entry(k).id \in {Nil, Id[k]}
      BY <3>2, <3>3 DEF ChildNamed
    <3>5. At(nodes', req.parent) = {ParentNode}
      BY <1>5, <1>7, AtKept
    <3>6. QED
      BY <3>1, <3>4, <3>5 DEF Placed
  <2>3. DOMAIN tokens = 1 .. n /\ tokens \in Seq(Nat) /\ more \in BOOLEAN
    <3>1. \A i \in 1 .. n : Len(nodes) + i \in Nat
      BY <1>7, <1>8
    <3>2. QED
      BY <3>1
  <2>4. IsSeq(tokens)
    BY <2>3, SeqIsSeq
  <2> HIDE DEF tokens, more, left
  <2>5. ToldPlaced(nodes', chains)
    BY <1>7, ToldKept
  <2>6. ToldPlaced(nodes', chains')
    BY <1>1, <2>1, <2>2, <2>3, <2>4, <2>5, ToldReply
  <2>7. out' = <<>> /\ DOMAIN <<>> = {}
    BY <2>1 DEF Reply, GiveUp
  <2>8. QED
    BY <2>6, <2>7 DEF PlaceInv, ToldPlaced
<1>9. CASE ~Fits(entries)
  <2>1. out' = <<>> /\ UNCHANGED chains
    BY <1>2, <1>9 DEF entries, GiveUp
  <2>2. QED
    BY <1>7, <2>1, PlaceQuit
<1>10. QED
  BY <1>8, <1>9

LEMMA PlaceNames ==
  ASSUME TypeInv, HomeInv, ToldPlaced(nodes, chains), Hierarchic, NextBranch \/ NextItem,
         \A i \in DOMAIN out : Placed(nodes, At(nodes, req.parent), out[i])
  PROVE  PlaceInv'
<1>1. pc = "names" /\ UNCHANGED chains
  BY DEF NextBranch, NextItem, InBranches, InItems, Listing
<1>2. At(nodes, req.parent) = {cursor} /\ page \in Pages /\ page.trail \in Seq(Words) /\ ~Flat
  BY <1>1, ReadsThere, PageTypes DEF Hierarchic
<1>3. ASSUME NEW name \in Words, NEW id \in Words \cup {Nil}, NEW in \in BOOLEAN, NEW state,
             List(name, id, in, state), \E k \in ChildNamed(cursor, name) : id \in {Nil, Id[k]}
      PROVE  PlaceInv'
  <2>1. Grown(nodes, nodes') /\ (GiveUp \/ Added(ShownKind(in, id), name, id, state))
    BY <1>2, <1>3, ListFacts
  <2>2. CASE GiveUp
    <3>1. out' = <<>>
      BY <2>2 DEF GiveUp
    <3>2. QED
      BY <1>1, <2>1, <3>1, PlaceQuit
  <2>3. CASE Added(ShownKind(in, id), name, id, state)
    <3> DEFINE kind == ShownKind(in, id)
    <3>1. Added(kind, name, id, state)
      BY <2>3
    <3> HIDE DEF kind
    <3>2. QED
      BY <1>1, <1>2, <1>3, <2>1, <3>1, PlaceAdd
  <2>4. QED
    BY <2>1, <2>2, <2>3
<1>4. ASSUME NEW state, Skip(state) PROVE PlaceInv'
  BY <1>1, <1>4 DEF Skip, PlaceInv, ToldPlaced
<1>5. CASE NextBranch
  <2>1. page.branches # Nil
    BY <1>5 DEF NextBranch, InBranches
  <2>2. PICK x, r, v :
           /\ BranchRead(x, r, v)
           /\ IF v.in \/ (r.id # Nil /\ req.filter # "branches")
              THEN List(x.f.res.name, r.id, v.in, BranchState(x, r, v))
              ELSE Skip(BranchState(x, r, v))
    BY <1>2, <1>5, NextBranchForm
  <2>3. x.f.res.name \in Words /\ r.id \in Words \cup {Nil} /\ v.in \in BOOLEAN
    BY <1>1, <2>1, <2>2, BranchShape
  <2>4. CASE v.in \/ (r.id # Nil /\ req.filter # "branches")
    <3>1. List(x.f.res.name, r.id, v.in, BranchState(x, r, v))
      BY <2>2, <2>4
    <3>2. \E k \in ChildNamed(cursor, x.f.res.name) : r.id \in {Nil, Id[k]}
      BY <2>2, <2>4, NameFound DEF BranchRead
    <3>3. QED
      BY <1>3, <2>3, <3>1, <3>2
  <2>5. CASE ~(v.in \/ (r.id # Nil /\ req.filter # "branches"))
    BY <1>4, <2>2, <2>5
  <2>6. QED
    BY <2>4, <2>5
<1>6. CASE NextItem
  <2>1. page.items # Nil
    BY <1>6 DEF NextItem, InItems
  <2>2. PICK x \in NextOf(page.items) :
          /\ x.f.res.kind = "name"
          /\ \/ Skip(ItemState(x))
             \/ \E r \in Resolved(x.f.res.name), v \in Navigable(x.f.res.name) :
                  r.id # Nil /\ List(x.f.res.name, r.id, v.in, ItemState(x))
    BY <1>2, <1>6 DEF NextItem, ItemState
  <2>3. CASE Skip(ItemState(x))
    BY <1>4, <2>3
  <2>4. CASE \E r \in Resolved(x.f.res.name), v \in Navigable(x.f.res.name) :
               r.id # Nil /\ List(x.f.res.name, r.id, v.in, ItemState(x))
    <3>1. PICK r \in Resolved(x.f.res.name), v \in Navigable(x.f.res.name) :
               r.id # Nil /\ List(x.f.res.name, r.id, v.in, ItemState(x))
      BY <2>4
    <3>2. x.f.res.name \in Words /\ r.id \in Words \cup {Nil} /\ v.in \in BOOLEAN
      BY <1>1, <2>1, <2>2, ReadFacts
    <3>3. \E k \in ChildNamed(cursor, x.f.res.name) : r.id \in {Nil, Id[k]}
      BY <3>1, NameFound
    <3>4. QED
      BY <1>3, <3>1, <3>2, <3>3
  <2>5. QED
    BY <2>2, <2>3, <2>4
<1>7. QED
  BY <1>5, <1>6

LEMMA PlaceEndPage ==
  ASSUME TypeInv, ToldPlaced(nodes, chains), EndPage,
         \A i \in DOMAIN out : Placed(nodes, At(nodes, req.parent), out[i])
  PROVE  PlaceInv'
<1>1. pc = "names" /\ nodes' = nodes /\ page \in Pages
  BY PageTypes DEF EndPage, PageFull
<1>2. IsSeq(out)
  BY SeqIsSeq DEF TypeInv, PageOK
<1>3. PICK b : EndForm(b)
  BY EndPageForm
<1>4. \E more \in BOOLEAN : \E state : Reply(out, more, Nil, state)
  <2>1. CASE Reply(out, TRUE, Nil, PeekState(b))
    BY <2>1
  <2>2. CASE \E i \in Peeks(page.items) : Reply(out, i.f.res.kind # "end", Nil, PeekBoth(b, i))
    <3>1. PICK i \in Peeks(page.items) : Reply(out, i.f.res.kind # "end", Nil, PeekBoth(b, i))
      BY <2>2
    <3>2. (i.f.res.kind # "end") \in BOOLEAN
      OBVIOUS
    <3>3. QED
      BY <3>1, <3>2
  <2>3. QED
    BY <1>3, <2>1, <2>2 DEF EndForm
<1>5. PICK more \in BOOLEAN : \E state : Reply(out, more, Nil, state)
  BY <1>4
<1>6. PICK state : Reply(out, more, Nil, state)
  BY <1>5
<1>7. ToldPlaced(nodes', chains')
  BY <1>1, <1>2, <1>6, ToldReply
<1>8. out' = <<>> /\ DOMAIN <<>> = {}
  BY <1>6 DEF Reply, GiveUp
<1>9. QED
  BY <1>7, <1>8 DEF PlaceInv, ToldPlaced

LEMMA PlaceNext ==
  ASSUME TypeInv, HomeInv, PlaceInv, Next
  PROVE  PlaceInv'
<1>1. CASE ~Hierarchic'
  BY <1>1 DEF PlaceInv, Hierarchic
<1>2. CASE Hierarchic'
  <2>1. /\ Hierarchic /\ ToldPlaced(nodes, chains)
        /\ \A i \in DOMAIN out : Placed(nodes, At(nodes, req.parent), out[i])
    BY <1>2, HierarchicBack, PlaceForm
  <2>2. CASE Call
    BY <2>1, <2>2, PlaceCall
  <2>3. CASE Da3Page
    BY <2>1, <2>3, PlaceDa3Page
  <2>4. CASE NextBranch \/ NextItem
    BY <2>1, <2>4, PlaceNames
  <2>5. CASE EndPage
    BY <2>1, <2>5, PlaceEndPage
  <2>6. CASE Da3Fails
    <3>1. out' = <<>> /\ UNCHANGED chains /\ pc = "da3" /\ NodesOK(nodes)
      BY <2>6 DEF Da3Fails, GiveUp, TypeInv
    <3>2. PICK n \in 0 .. req.size :
            n <= Len(Remaining) /\ Insert([i \in 1 .. n |-> Da3Entry(Remaining[i])])
      BY <2>6 DEF Da3Fails
    <3>3. n \in Nat
      BY <3>1, <3>2, RemainingOK DEF Requested
    <3> DEFINE entries == [i \in 1 .. n |-> Da3Entry(Remaining[i])]
    <3>4. entries \in Seq(Entries) /\ Insert(entries)
      BY <3>1, <3>2, <3>3, EntriesOK
    <3> HIDE DEF entries
    <3>5. Grown(nodes, nodes')
      BY <3>1, <3>4, Inserted
    <3>6. QED
      BY <2>1, <3>1, <3>5, PlaceQuit
  <2>7. CASE UNCHANGED <<nodes, chains>> /\ (out' = <<>> \/ UNCHANGED <<out, req>>)
    <3>1. CASE out' = <<>>
      BY <2>1, <2>7, <3>1, GrownSelf, PlaceQuit
    <3>2. CASE UNCHANGED <<out, req>>
      BY <2>1, <2>7, <3>2 DEF PlaceInv, ToldPlaced
    <3>3. QED
      BY <2>7, <3>1, <3>2
  <2>8. CASE Incompatible \/ Move \/ EndBranches \/ EndItems \/ NamesFail \/ CallFails \/ ProbeStrands
    <3>1. UNCHANGED <<nodes, chains>> /\ (out' = <<>> \/ UNCHANGED <<out, req>>)
      BY <2>8 DEF Incompatible, Move, MoveUp, MoveUpRefused, MoveDown, MoveDownRefused, Begin, Arrive,
           EndBranches, EndItems, NamesFail, CallFails, ProbeStrands, GiveUp
    <3>2. QED
      BY <2>7, <3>1
  <2>9. QED
    BY <2>2, <2>3, <2>4, <2>5, <2>6, <2>8 DEF Next, Da3, Read
<1>3. QED
  BY <1>1, <1>2

LEMMA PlaceAlways == Spec => [](TypeInv /\ FreshInv /\ HomeInv /\ PlaceInv)
<1>1. Init => PlaceInv
  <2>1. DOMAIN <<>> = {}
    OBVIOUS
  <2>2. QED
    BY <2>1 DEF Init, PlaceInv
<1>2. TypeInv /\ HomeInv /\ PlaceInv /\ [Next]_vars => PlaceInv'
  <2>1. UNCHANGED vars /\ PlaceInv => PlaceInv'
    BY DEF vars, PlaceInv, Flat
  <2>2. QED
    BY <2>1, PlaceNext
<1>3. QED
  BY <1>1, <1>2, HomeAlways, PTL DEF Spec

\* Whatever else fails, a page shows only names and item IDs of the node it
\* was asked for (start_da2_page moves there first, and the cursor is where
\* current_path says), unless a BROWSE_UP was refused.
THEOREM ShownInPlace == Spec => []EntriesInPlace
<1>1. TypeInv /\ PlaceInv => EntriesInPlace
  <2> SUFFICES ASSUME TypeInv, PlaceInv, ~adrift, ~(Flat /\ backend = "da2"),
                      NEW c \in DOMAIN chains, NEW i \in DOMAIN chains[c].told
               PROVE  LET e == nodes[chains[c].told[i]]
                      IN \E n \in Listed(c) : \E k \in ChildNamed(n, e.name) : e.id \in {Nil, Id[k]}
    BY DEF EntriesInPlace
  <2>1. Listed(c) = At(nodes, chains[c].parent)
    BY DEF Listed, At
  <2>2. Placed(nodes, At(nodes, chains[c].parent), chains[c].told[i])
    BY DEF PlaceInv
  <2>3. QED
    BY <2>1, <2>2 DEF Placed
<1>2. QED
  BY <1>1, PlaceAlways, PTL
-----------------------------------------------------------------------------
(***************************************************************************)
(* A chain of pages lists every child once. K is the set of children to    *)
(* list; b, i and m are the enumerators of a page and the names merged;    *)
(* org says whether names ("tree") or item IDs ("flat") are read.          *)
(***************************************************************************)

Org == IF Flat /\ backend = "da2" THEN "flat" ELSE "tree"

Children(S) == UNION {KidsOf(n) : n \in S}
NamesIn(K, S) == {Name[k] : k \in K \cap S}
LeafIds == {Id[i] : i \in ItemsBelow(Root)}

\* What the client is to see of a child, of an item ID, and sees of a token.
Ref(k) == Reference(KindOf(k), Name[k], IF IsItem(KindOf(k)) THEN Id[k] ELSE Nil)
LeafRef(x) == Reference("item", x, x)
Row(ns, t) == Reference(ns[t].kind, ns[t].name, ns[t].id)

Refs(S) == {Ref(k) : k \in S}
Rows(ns, s) == {Row(ns, s[i]) : i \in DOMAIN s}

\* The tokens of s show R, each name once.
Apart(ns, s) == \A i, j \in DOMAIN s : ns[s[i]].name = ns[s[j]].name => i = j
Covers(ns, s, R) == Apart(ns, s) /\ Rows(ns, s) = R

Kin(K, filter) == {k \in K : Passes(KindOf(k), filter)}

Wanted(org, K, filter) ==
  IF org = "flat" THEN IF filter = "branches" THEN {} ELSE {LeafRef(x) : x \in LeafIds}
  ELSE Refs(Kin(K, filter))

\* The enumerator a child comes from, and the children that came already.
Source(k, filter, b, i) == IF filter # "items" /\ k \in Branches THEN Open(b) ELSE Open(i)
Done(K, filter, b, i) == {k \in Kin(K, filter) : Name[k] \notin Source(k, filter, b, i)}

TreeOK(K, filter, b, i, m) ==
  /\ Sound(b) /\ Sound(i)
  /\ filter = "items" => b = Nil
  /\ filter = "branches" => i = Nil
  /\ Open(b) \subseteq NamesIn(K, Branches) /\ Open(i) \subseteq NamesIn(K, Items)
  /\ Open(b) # {} /\ filter # "branches" => Open(i) = NamesIn(K, Items)
  /\ m = IF filter = "items" THEN {} ELSE NamesIn(K, Branches \cap Items) \ Open(b)

FlatOK(filter, b, i, m) ==
  /\ Sound(i) /\ b = Nil /\ m = {}
  /\ filter = "branches" => i = Nil
  /\ Open(i) \subseteq LeafIds

ReadOK(org, K, filter, b, i, m) ==
  IF org = "flat" THEN FlatOK(filter, b, i, m) ELSE TreeOK(K, filter, b, i, m)

Got(org, K, filter, b, i) ==
  IF org = "flat" THEN IF filter = "branches" THEN {} ELSE {LeafRef(x) : x \in LeafIds \ Open(i)}
  ELSE Refs(Done(K, filter, b, i))

\* s is what the pages of one chain show so far.
Reads(ns, org, K, filter, b, i, m, s) ==
  ReadOK(org, K, filter, b, i, m) /\ Covers(ns, s, Got(org, K, filter, b, i))

Left(n, filter, from) == IF from # Nil THEN from ELSE Elements(n, filter)

Tally(ns, org, w, from, state, s) ==
  /\ state = Nil =>
       \A n \in At(ns, w.parent) :
         LET left == Left(n, w.filter, from)
         IN IsInjective(left) /\ Covers(ns, s, Refs(Kin(KidsOf(n), w.filter) \ ToSet(left)))
  /\ state # Nil /\ ~state.begun => s = <<>> /\ state.merged = {}
  /\ state # Nil /\ state.begun =>
       Reads(ns, org, Children(At(ns, w.parent)), w.filter, state.branches, state.items, state.merged, s)

\* A chain shows what the client wanted, in the end all of it.
Fine(ns, org, ch) ==
  LET wanted == Wanted(org, Children(At(ns, ch.parent)), ch.filter)
  IN /\ Apart(ns, ch.told) /\ Rows(ns, ch.told) \subseteq wanted
     /\ ch.whole => Rows(ns, ch.told) = wanted

Quiet(c) == ~adrift /\ faults = chains[c].since

\* A chain goes on in one place only: a continuation, or the page being made.
CarrierInv ==
  /\ \A t, u \in DOMAIN conts : conts[t].chain = conts[u].chain => t = u
  /\ pc # "idle" => \A t \in DOMAIN conts : conts[t].chain # req.chain

Once(c) ==
  /\ Fine(nodes, Org, chains[c])
  /\ \A t \in DOMAIN conts : conts[t].chain = c =>
       Tally(nodes, Org, conts[t], conts[t].from, conts[t].page, chains[c].told)
  /\ pc # "idle" /\ req.chain = c => Tally(nodes, Org, req, req.from, page, chains[c].told \o out)

OnceInv == \A c \in DOMAIN chains : Quiet(c) => Once(c)

-----------------------------------------------------------------------------
(* What tokens show. *)

\* Tokens show the same of nodes that stay.
LEMMA RowsKept ==
  ASSUME NEW ns, NEW ms, Grown(ns, ms), NEW s \in Seq(DOMAIN ns)
  PROVE  (Apart(ns, s) => Apart(ms, s)) /\ Rows(ms, s) = Rows(ns, s)
<1>1. \A i \in DOMAIN s : s[i] \in DOMAIN ns
  BY LenProperties
<1>2. \A i \in DOMAIN s : ms[s[i]] = ns[s[i]]
  BY <1>1 DEF Grown
<1>3. \A i \in DOMAIN s : Row(ms, s[i]) = Row(ns, s[i])
  BY <1>2 DEF Row
<1>4. Apart(ns, s) => Apart(ms, s)
  BY <1>2 DEF Apart
<1>5. Rows(ms, s) = Rows(ns, s)
  BY <1>3 DEF Rows
<1>6. QED
  BY <1>4, <1>5

LEMMA NothingShown == ASSUME NEW ns PROVE Apart(ns, <<>>) /\ Rows(ns, <<>>) = {}
<1>1. DOMAIN <<>> = {}
  OBVIOUS
<1>2. QED
  BY <1>1 DEF Apart, Rows

\* More tokens, of names that were not shown.
LEMMA RowsMore ==
  ASSUME NEW ns, NEW s, IsSeq(s), NEW t, IsSeq(t), Apart(ns, s), Apart(ns, t),
         \A j \in DOMAIN t : \A r \in Rows(ns, s) : r.name # ns[t[j]].name
  PROVE  Apart(ns, s \o t) /\ Rows(ns, s \o t) = Rows(ns, s) \cup Rows(ns, t)
<1> DEFINE m == Len(s)
           n == Len(t)
           u == s \o t
<1>1. /\ IsSeq(u) /\ Len(u) = m + n
      /\ \A i \in 1 .. m : u[i] = s[i]
      /\ \A i \in 1 .. n : u[m + i] = t[i]
  BY ConcatSeq
<1>2. DOMAIN s = 1 .. m /\ DOMAIN t = 1 .. n /\ DOMAIN u = 1 .. m + n /\ m \in Nat /\ n \in Nat
  BY <1>1, SeqElements
<1> HIDE DEF m, n, u
<1>3. \A i \in DOMAIN s : i \in DOMAIN u /\ u[i] = s[i]
  BY <1>1, <1>2
<1>4. \A j \in DOMAIN t : m + j \in DOMAIN u /\ u[m + j] = t[j]
  BY <1>1, <1>2
<1>5. ASSUME NEW i \in DOMAIN u
      PROVE  i \in DOMAIN s \/ \E j \in DOMAIN t : i = m + j
  <2>1. CASE i <= m
    BY <1>2, <2>1
  <2>2. CASE ~(i <= m)
    <3> DEFINE j == i - m
    <3>1. j \in 1 .. n /\ i = m + j
      BY <1>2, <2>2
    <3> HIDE DEF j
    <3>2. QED
      BY <1>2, <3>1
  <2>3. QED
    BY <2>1, <2>2
<1>6. \A i \in DOMAIN s : \A j \in DOMAIN t : ns[s[i]].name # ns[t[j]].name
  <2>1. \A i \in DOMAIN s : Row(ns, s[i]) \in Rows(ns, s) /\ Row(ns, s[i]).name = ns[s[i]].name
    BY DEF Rows, Row, Reference
  <2>2. QED
    BY <2>1
<1>7. Apart(ns, u)
  <2> SUFFICES ASSUME NEW i \in DOMAIN u, NEW j \in DOMAIN u, ns[u[i]].name = ns[u[j]].name
               PROVE  i = j
    BY DEF Apart
  <2>1. CASE i \in DOMAIN s /\ j \in DOMAIN s
    BY <1>3, <2>1 DEF Apart
  <2>2. CASE i \in DOMAIN s /\ \E k \in DOMAIN t : j = m + k
    BY <1>3, <1>4, <1>6, <2>2
  <2>3. CASE j \in DOMAIN s /\ \E k \in DOMAIN t : i = m + k
    BY <1>3, <1>4, <1>6, <2>3
  <2>4. CASE (\E k \in DOMAIN t : i = m + k) /\ (\E k \in DOMAIN t : j = m + k)
    BY <1>4, <2>4 DEF Apart
  <2>5. QED
    BY <1>5, <2>1, <2>2, <2>3, <2>4
<1>8. Rows(ns, u) = Rows(ns, s) \cup Rows(ns, t)
  <2>1. ASSUME NEW r \in Rows(ns, u) PROVE r \in Rows(ns, s) \cup Rows(ns, t)
    <3>1. PICK i \in DOMAIN u : r = Row(ns, u[i])
      BY DEF Rows
    <3>2. CASE i \in DOMAIN s
      BY <1>3, <3>1, <3>2 DEF Rows
    <3>3. CASE \E j \in DOMAIN t : i = m + j
      BY <1>4, <3>1, <3>3 DEF Rows
    <3>4. QED
      BY <1>5, <3>2, <3>3
  <2>2. ASSUME NEW r \in Rows(ns, s) PROVE r \in Rows(ns, u)
    BY <1>3 DEF Rows
  <2>3. ASSUME NEW r \in Rows(ns, t) PROVE r \in Rows(ns, u)
    <3>1. PICK j \in DOMAIN t : r = Row(ns, t[j])
      BY DEF Rows
    <3>2. QED
      BY <1>4, <3>1 DEF Rows
  <2>4. QED
    BY <2>1, <2>2, <2>3
<1>9. QED
  BY <1>7, <1>8 DEF u

\* One more token.
LEMMA CoversOne ==
  ASSUME NEW ns, NEW s, IsSeq(s), NEW R, Covers(ns, s, R), NEW t,
         \A r \in R : r.name # ns[t].name
  PROVE  Covers(ns, s \o <<t>>, R \cup {Row(ns, t)})
<1> DEFINE one == <<t>>
<1>1. DOMAIN one = {1} /\ one[1] = t /\ one \in Seq({t})
  OBVIOUS
<1>2. IsSeq(one)
  BY <1>1, SeqIsSeq
<1> HIDE DEF one
<1>3. Apart(ns, one) /\ Rows(ns, one) = {Row(ns, t)}
  BY <1>1 DEF Apart, Rows
<1>4. \A j \in DOMAIN one : \A r \in Rows(ns, s) : r.name # ns[one[j]].name
  BY <1>1 DEF Covers
<1>5. Apart(ns, s \o one) /\ Rows(ns, s \o one) = Rows(ns, s) \cup Rows(ns, one)
  BY <1>2, <1>3, <1>4, RowsMore DEF Covers
<1>6. QED
  BY <1>3, <1>5 DEF Covers, one

LEMMA AppendOne ==
  ASSUME NEW S, NEW s \in Seq(S), NEW u \in Seq(S), NEW t
  PROVE  s \o Append(u, t) = (s \o u) \o <<t>>
<1> DEFINE T == S \cup {t}
<1>1. s \in Seq(T) /\ u \in Seq(T) /\ t \in T
  BY SeqMonotonic
<1> HIDE DEF T
<1>2. QED
  BY <1>1

-----------------------------------------------------------------------------
(* What is wanted, and what came already. *)

LEMMA FineKept ==
  ASSUME NEW ns, NEW ms, Grown(ns, ms), NEW org, NEW ch, ch.parent \in {Nil} \cup DOMAIN ns,
         ch.told \in Seq(DOMAIN ns), Fine(ns, org, ch)
  PROVE  Fine(ms, org, ch)
<1>1. At(ms, ch.parent) = At(ns, ch.parent)
  BY AtKept
<1>2. (Apart(ns, ch.told) => Apart(ms, ch.told)) /\ Rows(ms, ch.told) = Rows(ns, ch.told)
  BY RowsKept
<1>3. QED
  BY <1>1, <1>2 DEF Fine

LEMMA TallyKept ==
  ASSUME NEW ns, NEW ms, Grown(ns, ms), NEW org, NEW w, w.parent \in {Nil} \cup DOMAIN ns,
         NEW from, NEW state, NEW s \in Seq(DOMAIN ns), Tally(ns, org, w, from, state, s)
  PROVE  Tally(ms, org, w, from, state, s)
<1>1. At(ms, w.parent) = At(ns, w.parent)
  BY AtKept
<1>2. \A R : Covers(ns, s, R) => Covers(ms, s, R)
  BY RowsKept DEF Covers
<1>3. QED
  BY <1>1, <1>2 DEF Tally, Reads

LEMMA RefFacts ==
  ASSUME NEW k
  PROVE  /\ Ref(k).kind = KindOf(k) /\ Ref(k).name = Name[k]
         /\ Ref(k).id = IF IsItem(KindOf(k)) THEN Id[k] ELSE Nil
BY DEF Ref, Reference

LEMMA PassFacts ==
  ASSUME NEW k
  PROVE  /\ Passes(KindOf(k), "branches") <=> k \in Enterable
         /\ Passes(KindOf(k), "items") <=> k \in Items
         /\ Passes(KindOf(k), "all") <=> k \in Enterable \cup Items
<1>1. KindOf(k) # "none" <=> k \in Enterable \cup Items
  BY DEF KindOf
<1>2. QED
  BY <1>1, KindFacts DEF Passes

\* What came is wanted; it is all that is wanted when the enumerators are empty.
LEMMA GotWanted ==
  ASSUME NEW org, NEW K, NEW filter, NEW b, NEW i
  PROVE  /\ Got(org, K, filter, b, i) \subseteq Wanted(org, K, filter)
         /\ Open(b) = {} /\ Open(i) = {} => Got(org, K, filter, b, i) = Wanted(org, K, filter)
<1>1. Done(K, filter, b, i) \subseteq Kin(K, filter)
  BY DEF Done
<1>2. Open(b) = {} /\ Open(i) = {} => Done(K, filter, b, i) = Kin(K, filter)
  BY DEF Done, Source
<1>3. QED
  BY <1>1, <1>2 DEF Got, Wanted, Refs

\* Tokens that show what came make a chain fine.
LEMMA FineReads ==
  ASSUME NEW ns, NEW org, NEW ch, NEW b, NEW i, NEW m,
         Reads(ns, org, Children(At(ns, ch.parent)), ch.filter, b, i, m, ch.told),
         ch.whole => Open(b) = {} /\ Open(i) = {}
  PROVE  Fine(ns, org, ch)
<1> DEFINE K == Children(At(ns, ch.parent))
<1> HIDE DEF K
<1>1. Apart(ns, ch.told) /\ Rows(ns, ch.told) = Got(org, K, ch.filter, b, i)
  BY DEF Reads, Covers, K
<1>2. /\ Rows(ns, ch.told) \subseteq Wanted(org, K, ch.filter)
      /\ ch.whole => Rows(ns, ch.told) = Wanted(org, K, ch.filter)
  BY <1>1, GotWanted
<1>3. QED
  BY <1>1, <1>2 DEF Fine, K

\* The enumerators look ahead, or are dropped with nothing to give.
LEMMA ReadsSame ==
  ASSUME NEW ns, NEW org, NEW K, NEW filter, NEW b, NEW i, NEW m, NEW s,
         Reads(ns, org, K, filter, b, i, m, s), NEW b2, NEW i2,
         Sound(b2), Open(b2) = Open(b), b = Nil => b2 = Nil,
         Sound(i2), Open(i2) = Open(i), i = Nil => i2 = Nil
  PROVE  Reads(ns, org, K, filter, b2, i2, m, s)
<1>1. ReadOK(org, K, filter, b2, i2, m)
  BY DEF Reads, ReadOK, TreeOK, FlatOK
<1>2. Got(org, K, filter, b2, i2) = Got(org, K, filter, b, i)
  BY DEF Got, Done, Source
<1>3. QED
  BY <1>1, <1>2 DEF Reads

NamesDiffer(K) == \A k, l \in K : Name[k] = Name[l] => k = l

\* A page begins with all its names still to come.
LEMMA TreeStart ==
  ASSUME NEW K, NEW filter \in Filters, NEW b, NEW i, NEW m, Sound(b), Sound(i), m = {},
         filter = "items" => b = Nil, filter = "branches" => i = Nil,
         Open(b) = IF filter = "items" THEN {} ELSE NamesIn(K, Branches),
         Open(i) = IF filter = "branches" THEN {} ELSE NamesIn(K, Items)
  PROVE  TreeOK(K, filter, b, i, m) /\ Done(K, filter, b, i) = {}
<1>1. NamesIn(K, Branches \cap Items) \subseteq NamesIn(K, Branches)
  BY DEF NamesIn
<1>2. TreeOK(K, filter, b, i, m)
  BY <1>1 DEF TreeOK
<1>3. ASSUME NEW k \in Kin(K, filter) PROVE Name[k] \in Source(k, filter, b, i)
  <2>1. k \in K /\ Passes(KindOf(k), filter)
    BY DEF Kin
  <2>2. CASE filter = "items"
    BY <2>1, <2>2, PassFacts DEF NamesIn, Source
  <2>3. CASE filter = "branches"
    BY <2>1, <2>3, PassFacts DEF NamesIn, Source, Enterable
  <2>4. CASE filter = "all"
    BY <2>1, <2>4, PassFacts DEF NamesIn, Source, Enterable
  <2>5. QED
    BY <2>2, <2>3, <2>4 DEF Filters
<1>4. QED
  BY <1>2, <1>3 DEF Done

-----------------------------------------------------------------------------
(* One name more of a page. *)

LEMMA NameIn ==
  ASSUME NEW K, NamesDiffer(K), NEW k \in K, NEW S
  PROVE  Name[k] \in NamesIn(K, S) <=> k \in S
BY DEF NamesIn, NamesDiffer

LEMMA SameKids == ASSUME NEW n \in Nodes PROVE NamesDiffer(KidsOf(n)) /\ KidsOf(n) \subseteq Nodes
BY KidFacts, NamespaceAssumption DEF NamesDiffer

\* A child is done when its enumerator has given its name.
LEMMA DoneMore ==
  ASSUME NEW K, NamesDiffer(K), NEW filter, NEW b, NEW i, NEW b2, NEW i2, NEW k \in K,
         \A l \in K : Source(l, filter, b2, i2) \ {Name[k]} = Source(l, filter, b, i) \ {Name[k]},
         Name[k] \in Source(k, filter, b, i), Name[k] \notin Source(k, filter, b2, i2)
  PROVE  /\ k \notin Done(K, filter, b, i)
         /\ Done(K, filter, b2, i2) = IF k \in Kin(K, filter) THEN Done(K, filter, b, i) \cup {k}
                                      ELSE Done(K, filter, b, i)
<1>1. ASSUME NEW l \in K, l # k
      PROVE  Name[l] \in Source(l, filter, b2, i2) <=> Name[l] \in Source(l, filter, b, i)
  BY <1>1 DEF NamesDiffer
<1>2. Kin(K, filter) \subseteq K
  BY DEF Kin
<1>3. QED
  BY <1>1, <1>2 DEF Done

\* The name n is taken from what b has open, and child k is done by that.
Taken(b, b2, n) == Sound(b2) /\ Open(b2) = Open(b) \ {n}
ItemIdOf(k) == IF k \in Items THEN Id[k] ELSE Nil
DoneBy(K, filter, b, i, b2, k) ==
  /\ k \notin Done(K, filter, b, i)
  /\ Done(K, filter, b2, i) = IF k \in Kin(K, filter) THEN Done(K, filter, b, i) \cup {k}
                              ELSE Done(K, filter, b, i)

LEMMA TreeBranch ==
  ASSUME NEW K, NamesDiffer(K), K \subseteq Nodes, NEW filter \in Filters, NEW b, NEW i, NEW m,
         TreeOK(K, filter, b, i, m), b # Nil, NEW k \in K \cap Branches, Name[k] \in Open(b),
         NEW b2, Taken(b, b2, Name[k]), NEW in
  PROVE  TreeOK(K, filter, b2, i, Merged(m, Name[k], ItemIdOf(k), in)) /\ DoneBy(K, filter, b, i, b2, k)
<1>0. Sound(b2) /\ Open(b2) = Open(b) \ {Name[k]}
  BY DEF Taken
<1>1. filter # "items"
  BY DEF TreeOK
<1>2. Merged(m, Name[k], ItemIdOf(k), in) = IF k \in Items THEN m \cup {Name[k]} ELSE m
  BY NodeWords, NoneAssumption DEF Merged, ItemIdOf
<1>3. Name[k] \in NamesIn(K, Branches \cap Items) <=> k \in Items
  BY NameIn
<1>4. (IF k \in Items THEN m \cup {Name[k]} ELSE m) = NamesIn(K, Branches \cap Items) \ Open(b2)
  BY <1>0, <1>1, <1>3 DEF TreeOK
<1>5. TreeOK(K, filter, b2, i, IF k \in Items THEN m \cup {Name[k]} ELSE m)
  BY <1>0, <1>1, <1>4 DEF TreeOK
<1>6. \A l \in K : Source(l, filter, b2, i) \ {Name[k]} = Source(l, filter, b, i) \ {Name[k]}
  BY <1>0 DEF Source
<1>7. Name[k] \in Source(k, filter, b, i) /\ Name[k] \notin Source(k, filter, b2, i)
  BY <1>0, <1>1 DEF Source
<1>8. QED
  BY <1>2, <1>5, <1>6, <1>7, DoneMore DEF DoneBy

LEMMA TreeItem ==
  ASSUME NEW K, NamesDiffer(K), NEW filter \in Filters, NEW i, NEW m,
         TreeOK(K, filter, Nil, i, m), i # Nil, NEW k \in K \cap Items, Name[k] \in Open(i),
         NEW i2, Sound(i2), Open(i2) = Open(i) \ {Name[k]}
  PROVE  /\ TreeOK(K, filter, Nil, i2, m)
         /\ Name[k] \in m => Done(K, filter, Nil, i2) = Done(K, filter, Nil, i)
         /\ Name[k] \notin m => /\ k \in Kin(K, filter) /\ k \notin Done(K, filter, Nil, i)
                                /\ Done(K, filter, Nil, i2) = Done(K, filter, Nil, i) \cup {k}
<1>1. filter # "branches" /\ Open(Nil) = {}
  BY DEF TreeOK, Open
<1>2. TreeOK(K, filter, Nil, i2, m)
  BY <1>1 DEF TreeOK
<1>3. Name[k] \in NamesIn(K, Branches \cap Items) <=> k \in Branches
  BY NameIn
<1>4. Name[k] \in m <=> filter # "items" /\ k \in Branches
  BY <1>1, <1>3 DEF TreeOK
<1>5. \A l \in K : Source(l, filter, Nil, i2) \ {Name[k]} = Source(l, filter, Nil, i) \ {Name[k]}
  BY DEF Source
<1>6. CASE Name[k] \in m
  <2>1. \A l \in K : Name[l] \in Source(l, filter, Nil, i2) <=> Name[l] \in Source(l, filter, Nil, i)
    BY <1>1, <1>4, <1>5, <1>6 DEF Source, NamesDiffer
  <2>2. QED
    BY <1>2, <1>6, <2>1 DEF Done, Kin
<1>7. CASE Name[k] \notin m
  <2>1. Name[k] \in Source(k, filter, Nil, i) /\ Name[k] \notin Source(k, filter, Nil, i2)
    BY <1>4, <1>7 DEF Source
  <2>2. k \in Kin(K, filter)
    BY <1>1, PassFacts DEF Kin, Filters
  <2>3. QED
    BY <1>2, <1>5, <1>7, <2>1, <2>2, DoneMore
<1>8. QED
  BY <1>6, <1>7

\* What the server answers about a child when it does not fail.
LEMMA Answers ==
  ASSUME cursor \in Nodes, NEW k \in KidsOf(cursor)
  PROVE  /\ \A r \in Resolved(Name[k]) :
              r.cost = 0 \/ r.id # Nil => r.id = IF k \in Items THEN Id[k] ELSE Nil
         /\ \A v \in Navigable(Name[k]) : v.cost = 0 => (v.in <=> k \in Enterable)
<1>1. ChildNamed(cursor, Name[k]) = {k}
  BY SameKids DEF NamesDiffer, ChildNamed
<1>2. Id[k] # Nil
  BY KidFacts, NodeWords, NoneAssumption
<1>3. ASSUME NEW r \in Resolved(Name[k]), r.cost = 0 \/ r.id # Nil
      PROVE  r.id = IF k \in Items THEN Id[k] ELSE Nil
  <2>1. CASE k \in Items
    <3>1. {Id[l] : l \in ChildNamed(cursor, Name[k]) \cap Items} = {Id[k]}
      BY <1>1, <2>1
    <3>2. r = [id |-> Id[k], cost |-> 0] \/ r = [id |-> Nil, cost |-> 1]
      BY <3>1 DEF Resolved
    <3>3. QED
      BY <1>3, <2>1, <3>2
  <2>2. CASE k \notin Items
    <3>1. {Id[l] : l \in ChildNamed(cursor, Name[k]) \cap Items} = {}
      BY <1>1, <2>2
    <3>2. r = [id |-> Nil, cost |-> 0]
      BY <3>1 DEF Resolved
    <3>3. QED
      BY <2>2, <3>2
  <2>3. QED
    BY <2>1, <2>2
<1>4. ASSUME NEW v \in Navigable(Name[k]), v.cost = 0
      PROVE  v.in <=> k \in Enterable
  <2>1. Below(Name[k]) # {} <=> k \in Enterable
    BY <1>1 DEF Below
  <2>2. CASE k \in Enterable
    <3>1. (Below(Name[k]) # {}) = TRUE
      BY <2>1, <2>2
    <3>2. v = [in |-> TRUE, cost |-> 0] \/ v = [in |-> FALSE, cost |-> 1]
      BY <3>1 DEF Navigable
    <3>3. v.in = TRUE
      BY <1>4, <3>2
    <3>4. QED
      BY <2>2, <3>3
  <2>3. CASE k \notin Enterable
    <3>1. (Below(Name[k]) # {}) = FALSE
      BY <2>1, <2>3
    <3>2. v = [in |-> FALSE, cost |-> 0]
      BY <3>1 DEF Navigable
    <3>3. v.in = FALSE
      BY <3>2
    <3>4. QED
      BY <2>3, <3>3
  <2>4. QED
    BY <2>2, <2>3
<1>5. QED
  BY <1>3, <1>4

\* The node a child becomes is what the client is to see of it.
LEMMA ShownRef ==
  ASSUME NEW k, NEW K, NEW filter \in Filters, k \in Kin(K, filter), NEW in, in <=> k \in Enterable,
         NEW id, id = IF k \in Items THEN Id[k] ELSE Nil, k \in Nodes
  PROVE  Reference(ShownKind(in, id), Name[k], id) = Ref(k)
<1>1. k \in Enterable \/ k \in Items
  BY PassFacts DEF Kin, Filters
<1>2. Id[k] # Nil
  BY NodeWords, NoneAssumption
<1>3. id = IF IsItem(KindOf(k)) THEN Id[k] ELSE Nil
  BY KindFacts
<1>4. ShownKind(in, id) = KindOf(k)
  <2>1. /\ k \in Enterable /\ k \in Items => KindOf(k) = "both"
        /\ k \in Enterable /\ k \notin Items => KindOf(k) = "branch"
        /\ k \notin Enterable /\ k \in Items => KindOf(k) = "item"
    BY DEF KindOf
  <2>2. CASE in
    <3>1. ShownKind(in, id) = IF id # Nil THEN "both" ELSE "branch"
      BY <2>2 DEF ShownKind
    <3>2. QED
      BY <1>2, <2>1, <2>2, <3>1
  <2>3. CASE ~in
    <3>1. ShownKind(in, id) = "item"
      BY <2>3 DEF ShownKind
    <3>2. QED
      BY <1>1, <2>1, <2>3, <3>1
  <2>4. QED
    BY <2>2, <2>3
<1>5. QED
  BY <1>3, <1>4 DEF Ref

-----------------------------------------------------------------------------
(* Each step: the chains it leaves alone, and a reply. *)

LEMMA QuietBack ==
  ASSUME TypeInv, Next, NEW c \in DOMAIN chains, chains'[c].since = chains[c].since, Quiet(c)'
  PROVE  Quiet(c) /\ faults' = faults /\ ~adrift
<1>1. chains[c].since <= faults /\ chains[c].since \in Nat /\ faults \in Nat
  BY ChainTypes
<1>2. faults <= faults' /\ faults' \in Nat /\ adrift \in BOOLEAN
  BY SmallSteps DEF Steady, TypeInv, Scalars
<1>3. ~adrift
  BY StaysAdrift DEF Quiet
<1>4. faults' = chains[c].since
  BY DEF Quiet
<1>5. QED
  BY <1>1, <1>2, <1>3, <1>4 DEF Quiet

LEMMA OrgKept == ASSUME Steady, UNCHANGED backend PROVE Org' = Org
BY FlatKept DEF Org

LEMMA ContTypes == ASSUME TypeInv, NEW t \in DOMAIN conts
               PROVE  /\ conts[t].parent \in {Nil} \cup DOMAIN nodes /\ conts[t].filter \in Filters
                      /\ conts[t].chain \in DOMAIN chains
                      /\ chains[conts[t].chain].parent = conts[t].parent
                      /\ chains[conts[t].chain].filter = conts[t].filter
<1>1. conts[t] \in Continued(DOMAIN nodes) /\ WorkOK(nodes, chains, backend, conts[t], conts[t].from, conts[t].page)
  BY DEF TypeInv, ContsOK
<1>2. QED
  BY <1>1 DEF Continued, WorkOK

\* What a chain shows, and may go on with, stays when nodes are added.
LEMMA OnceStill ==
  ASSUME TypeInv, Grown(nodes, nodes'), Org' = Org,
         NEW c \in DOMAIN chains, Once(c), chains'[c] = chains[c],
         \A t \in DOMAIN conts' : t \in DOMAIN conts /\ conts'[t] = conts[t],
         pc' # "idle" /\ req'.chain = c =>
           Tally(nodes', Org, req', req'.from, page', chains[c].told \o out')
  PROVE  Once(c)'
<1>1. chains[c].parent \in {Nil} \cup DOMAIN nodes /\ chains[c].told \in Seq(DOMAIN nodes)
  BY ChainTypes
<1>2. Fine(nodes', Org, chains[c])
  BY <1>1, FineKept DEF Once
<1>3. ASSUME NEW t \in DOMAIN conts, conts[t].chain = c
      PROVE  Tally(nodes', Org, conts[t], conts[t].from, conts[t].page, chains[c].told)
  <2>1. conts[t].parent \in {Nil} \cup DOMAIN nodes
    BY ContTypes
  <2>2. Tally(nodes, Org, conts[t], conts[t].from, conts[t].page, chains[c].told)
    BY <1>3 DEF Once
  <2>3. QED
    BY <1>1, <2>1, <2>2, TallyKept
<1>4. \A t \in DOMAIN conts' : conts'[t].chain = c =>
        Tally(nodes', Org, conts'[t], conts'[t].from, conts'[t].page, chains[c].told)
  BY <1>3
<1>5. QED
  BY <1>2, <1>4 DEF Once

LEMMA ReplyChains ==
  ASSUME TypeInv, pc # "idle",
         NEW tokens, NEW more \in BOOLEAN, NEW from, NEW state, Reply(tokens, more, from, state)
  PROVE  /\ DOMAIN chains' = DOMAIN chains
         /\ \A d \in DOMAIN chains : chains'[d].since = chains[d].since
<1>1. req.chain \in DOMAIN chains /\ ChainsOK(nodes, chains, faults)
  BY DEF TypeInv, PageOK, WorkOK
<1>2. Refused(more) \/ Granted(tokens, more, from, state)
  BY <1>1, ReplyFacts
<1>3. QED
  BY <1>2 DEF Refused, Granted

\* The chain of the page that is answered goes on with the continuation only.
LEMMA OnceReply ==
  ASSUME TypeInv, CarrierInv, Grown(nodes, nodes'), Org' = Org, pc # "idle",
         NEW c \in DOMAIN chains, Once(c),
         NEW tokens, NEW more \in BOOLEAN, NEW from, NEW state, Reply(tokens, more, from, state),
         req.chain = c =>
           \A ch : /\ ch.parent = req.parent /\ ch.filter = req.filter
                   /\ ch.told = chains[c].told \o tokens
                   => /\ (ch.whole <=> ~more) => Fine(nodes', Org, ch)
                      /\ more => Tally(nodes', Org, ch, from, state, ch.told)
  PROVE  Once(c)'
<1>1. /\ req.chain \in DOMAIN chains /\ ChainsOK(nodes, chains, faults)
      /\ chains[req.chain].parent = req.parent /\ chains[req.chain].filter = req.filter
      /\ calls \notin DOMAIN conts
  BY DEF TypeInv, PageOK, WorkOK
<1>2. GiveUp /\ (Refused(more) \/ Granted(tokens, more, from, state))
  BY <1>1, ReplyFacts
<1>3. pc' = "idle"
  BY <1>2 DEF GiveUp
<1>4. CASE Refused(more)
  BY <1>3, <1>4, OnceStill DEF Refused
<1>5. CASE Granted(tokens, more, from, state) /\ req.chain # c
  <2>1. chains'[c] = chains[c] /\ Fine(nodes', Org, chains[c])
    BY <1>5, FineKept, ChainTypes DEF Granted, Once
  <2>2. ASSUME NEW t \in DOMAIN conts', conts'[t].chain = c
        PROVE  Tally(nodes', Org, conts'[t], conts'[t].from, conts'[t].page, chains[c].told)
    <3>1. ~(more /\ t = calls)
      BY <1>5, <2>2 DEF Granted
    <3>2. t \in DOMAIN conts /\ conts'[t] = conts[t]
      BY <1>1, <1>5, <3>1 DEF Granted
    <3>3. Tally(nodes, Org, conts[t], conts[t].from, conts[t].page, chains[c].told)
      BY <2>2, <3>2 DEF Once
    <3>4. QED
      BY <3>2, <3>3, ContTypes, ChainTypes, TallyKept
  <2>3. QED
    BY <1>3, <2>1, <2>2 DEF Once
<1>6. CASE Granted(tokens, more, from, state) /\ req.chain = c
  <2> DEFINE told == chains[c].told \o tokens
  <2>1. /\ chains'[c].parent = req.parent /\ chains'[c].filter = req.filter
        /\ chains'[c].told = told /\ (chains'[c].whole <=> ~more)
    <3> DEFINE whole == ~more
    <3>1. chains'[c] = [parent |-> req.parent, filter |-> req.filter, told |-> told,
                        whole |-> whole, since |-> chains[c].since]
      BY <1>1, <1>6 DEF Granted
    <3> HIDE DEF whole, told
    <3>2. /\ chains'[c].parent = req.parent /\ chains'[c].filter = req.filter
          /\ chains'[c].told = told /\ chains'[c].whole = whole
      BY <3>1
    <3>3. QED
      BY <3>2 DEF whole
  <2> HIDE DEF told
  <2>2. Fine(nodes', Org, chains'[c])
    BY <1>6, <2>1 DEF told
  <2>3. ASSUME NEW t \in DOMAIN conts', conts'[t].chain = c
        PROVE  Tally(nodes', Org, conts'[t], conts'[t].from, conts'[t].page, told)
    <3>1. t \notin DOMAIN conts \/ (more /\ t = calls)
      <4>1. SUFFICES ASSUME t \in DOMAIN conts, ~(more /\ t = calls) PROVE FALSE
        OBVIOUS
      <4>2. conts'[t] = conts[t]
        BY <1>1, <1>6, <4>1 DEF Granted
      <4>3. QED
        BY <1>6, <2>3, <4>1, <4>2 DEF CarrierInv
    <3>2. more /\ t = calls
      BY <1>6, <3>1 DEF Granted
    <3>3. conts'[t] = [parent |-> req.parent, filter |-> req.filter,
                       chain |-> req.chain, from |-> from, page |-> state]
      BY <1>6, <3>2 DEF Granted
    <3>4. /\ conts'[t].parent = req.parent /\ conts'[t].filter = req.filter
          /\ conts'[t].from = from /\ conts'[t].page = state
      BY <3>3
    <3>5. Tally(nodes', Org, chains'[c], from, state, told)
      BY <1>6, <2>1, <3>2 DEF told
    <3>6. QED
      BY <2>1, <3>4, <3>5 DEF Tally
  <2>4. QED
    BY <1>3, <2>1, <2>2, <2>3 DEF Once
<1>7. QED
  BY <1>2, <1>4, <1>5, <1>6

-----------------------------------------------------------------------------
(* Each step: a page is asked for. *)

LEMMA CarrierCall ==
  ASSUME TypeInv, CarrierInv, Call
  PROVE  CarrierInv'
<1>1. PICK parent \in {Nil} \cup Given, filter \in Filters, size \in Nat :
        \/ FirstPage(parent, filter, size)
        \/ \E token \in 1 .. calls : NextPage(token, parent, filter, size)
  BY CallArguments
<1>2. pc = "idle"
  BY <1>1 DEF FirstPage, NextPage
<1>3. CASE FirstPage(parent, filter, size)
  <2>1. conts' = conts
    BY <1>3 DEF FirstPage
  <2>2. CASE pc' = "idle"
    BY <2>1, <2>2 DEF CarrierInv
  <2>3. CASE pc' # "idle"
    <3>1. /\ chains' = Append(chains, Chain(parent, filter))
          /\ req' = [parent |-> parent, filter |-> filter, size |-> size,
                     chain |-> Len(chains) + 1, from |-> Nil]
      BY <1>2, <1>3, <2>3 DEF FirstPage, Serve
    <3>2. req'.chain = Len(chains) + 1
      BY <3>1
    <3>3. Len(chains) \in Nat /\ DOMAIN chains = 1 .. Len(chains)
      BY <3>1, GivenNodes, FirstChain
    <3>4. \A t \in DOMAIN conts : conts[t].chain # req'.chain
      BY <3>2, <3>3, ContTypes
    <3>5. QED
      BY <2>1, <3>4 DEF CarrierInv
  <2>4. QED
    BY <2>2, <2>3
<1>4. CASE \E token \in 1 .. calls : NextPage(token, parent, filter, size)
  <2>1. PICK token \in 1 .. calls : NextPage(token, parent, filter, size)
    BY <1>4
  <2>2. CASE pc' = "idle"
    <3>1. conts' = conts \/ conts' = Without(conts, token)
      BY <2>1 DEF NextPage
    <3>2. \A t \in DOMAIN conts' : t \in DOMAIN conts /\ conts'[t] = conts[t]
      BY <3>1 DEF Without
    <3>3. QED
      BY <2>2, <3>2 DEF CarrierInv
  <2>3. CASE pc' # "idle"
    <3>1. /\ token \in DOMAIN conts /\ conts' = Without(conts, token)
          /\ req' = [parent |-> parent, filter |-> filter, size |-> size,
                     chain |-> conts[token].chain, from |-> conts[token].from]
      BY <1>2, <2>1, <2>3 DEF NextPage, Serve
    <3>2. req'.chain = conts[token].chain
      BY <3>1
    <3>3. \A t \in DOMAIN conts' : t \in DOMAIN conts /\ conts'[t] = conts[t] /\ t # token
      BY <3>1 DEF Without
    <3>4. QED
      BY <3>1, <3>2, <3>3 DEF CarrierInv
  <2>4. QED
    BY <2>2, <2>3
<1>5. QED
  BY <1>1, <1>3, <1>4

\* A continuation takes the place of the page.
LEMMA CarrierReply ==
  ASSUME TypeInv, CarrierInv, pc # "idle",
         NEW tokens, NEW more \in BOOLEAN, NEW from, NEW state, Reply(tokens, more, from, state)
  PROVE  CarrierInv'
<1>1. /\ req.chain \in DOMAIN chains /\ ChainsOK(nodes, chains, faults)
      /\ calls \notin DOMAIN conts
  BY DEF TypeInv, PageOK, WorkOK
<1>2. GiveUp /\ (Refused(more) \/ Granted(tokens, more, from, state))
  BY <1>1, ReplyFacts
<1>3. pc' = "idle"
  BY <1>2 DEF GiveUp
<1>4. CASE conts' = conts
  BY <1>3, <1>4 DEF CarrierInv
<1>5. CASE conts' # conts
  <2>1. /\ DOMAIN conts' = DOMAIN conts \cup {calls}
        /\ conts'[calls] = [parent |-> req.parent, filter |-> req.filter,
                            chain |-> req.chain, from |-> from, page |-> state]
        /\ \A t \in DOMAIN conts : t # calls => conts'[t] = conts[t]
    BY <1>2, <1>5 DEF Refused, Granted
  <2>2. conts'[calls].chain = req.chain
    BY <2>1
  <2>3. \A t \in DOMAIN conts : conts'[t] = conts[t] /\ conts[t].chain # req.chain
    BY <1>1, <2>1 DEF CarrierInv
  <2>4. QED
    BY <1>3, <2>1, <2>2, <2>3 DEF CarrierInv
<1>6. QED
  BY <1>4, <1>5

LEMMA CarrierNext == TypeInv /\ CarrierInv /\ [Next]_vars => CarrierInv'
<1> SUFFICES ASSUME TypeInv, CarrierInv, [Next]_vars PROVE CarrierInv'
  OBVIOUS
<1>1. CASE conts' = conts /\ (pc' = "idle" \/ (pc # "idle" /\ req' = req))
  BY <1>1 DEF CarrierInv
<1>2. CASE Call
  BY <1>2, CarrierCall
<1>3. CASE Da3Page
  <2>1. PICK n \in Nat :
          /\ n <= Len(Remaining)
          /\ LET entries == [i \in 1 .. n |-> Da3Entry(Remaining[i])]
                 left == SubSeq(Remaining, n + 1, Len(Remaining))
             IN IF Fits(entries)
                THEN Reply([i \in 1 .. n |-> Len(nodes) + i], n < Len(Remaining), left, Nil)
                ELSE GiveUp /\ UNCHANGED <<conts, chains>>
    BY <1>3, Da3Form
  <2>2. CASE GiveUp /\ UNCHANGED <<conts, chains>>
    BY <1>1, <2>2 DEF GiveUp
  <2>3. CASE Reply([i \in 1 .. n |-> Len(nodes) + i], n < Len(Remaining),
                   SubSeq(Remaining, n + 1, Len(Remaining)), Nil)
    <3> DEFINE more == n < Len(Remaining)
    <3>1. pc # "idle" /\ more \in BOOLEAN
      BY <1>3 DEF Da3Page
    <3>2. Reply([i \in 1 .. n |-> Len(nodes) + i], more,
                SubSeq(Remaining, n + 1, Len(Remaining)), Nil)
      BY <2>3
    <3> HIDE DEF more
    <3>3. QED
      BY <3>1, <3>2, CarrierReply
  <2>4. QED
    BY <2>1, <2>2, <2>3
<1>4. CASE EndPage
  <2>1. pc # "idle"
    BY <1>4 DEF EndPage, PageFull
  <2>2. PICK b : EndForm(b)
    BY <1>4, EndPageForm
  <2>3. CASE Reply(out, TRUE, Nil, PeekState(b))
    <3>1. TRUE \in BOOLEAN
      OBVIOUS
    <3>2. QED
      BY <2>1, <2>3, <3>1, CarrierReply
  <2>4. CASE \E i \in Peeks(page.items) : Reply(out, i.f.res.kind # "end", Nil, PeekBoth(b, i))
    <3>1. PICK i \in Peeks(page.items) : Reply(out, i.f.res.kind # "end", Nil, PeekBoth(b, i))
      BY <2>4
    <3> DEFINE more == i.f.res.kind # "end"
    <3>2. more \in BOOLEAN /\ Reply(out, more, Nil, PeekBoth(b, i))
      BY <3>1
    <3> HIDE DEF more
    <3>3. QED
      BY <2>1, <3>2, CarrierReply
  <2>5. QED
    BY <2>2, <2>3, <2>4 DEF EndForm
<1>5. CASE NextBranch \/ NextItem
  <2>1. conts' = conts /\ pc # "idle" /\ page \in Pages
    BY <1>5, PageTypes DEF NextBranch, NextItem, InBranches, InItems, Listing
  <2>2. pc' = "idle" \/ req' = req
    <3>1. CASE NextBranch
      <4>1. PICK x, r, v :
              IF v.in \/ (r.id # Nil /\ req.filter # "branches")
              THEN List(x.f.res.name, r.id, v.in, BranchState(x, r, v))
              ELSE Skip(BranchState(x, r, v))
        BY <2>1, <3>1, NextBranchForm
      <4>2. QED
        BY <4>1 DEF List, Skip, GiveUp
    <3>2. CASE NextItem
      BY <3>2 DEF NextItem, List, Skip, GiveUp
    <3>3. QED
      BY <1>5, <3>1, <3>2
  <2>3. QED
    BY <1>1, <2>1, <2>2
<1>6. CASE Da3Fails \/ NamesFail \/ CallFails \/ ProbeStrands
  BY <1>1, <1>6 DEF Da3Fails, NamesFail, CallFails, ProbeStrands, GiveUp
<1>7. CASE Incompatible \/ Move \/ EndBranches \/ EndItems
  BY <1>1, <1>7 DEF Incompatible, Move, MoveUp, MoveUpRefused, MoveDown, MoveDownRefused, Begin,
    Arrived, AtShared, Arrive, EndBranches, EndItems, InBranches, InItems, Listing, GiveUp
<1>8. CASE UNCHANGED vars
  BY <1>8 DEF vars, CarrierInv
<1>9. QED
  BY <1>2, <1>3, <1>4, <1>5, <1>6, <1>7, <1>8 DEF Next, Da3, Read

LEMMA TallyFresh ==
  ASSUME NEW ns \in Seq(Entries), NEW org, NEW w, w.parent \in {Nil} \cup DOMAIN ns, NEW state,
         state = Nil \/ (~state.begun /\ state.merged = {})
  PROVE  Tally(ns, org, w, Nil, state, <<>>)
<1>1. ASSUME NEW n \in At(ns, w.parent)
      PROVE  LET left == Left(n, w.filter, Nil)
             IN IsInjective(left) /\ Covers(ns, <<>>, Refs(Kin(KidsOf(n), w.filter) \ ToSet(left)))
  <2>1. n \in Nodes
    BY AtNodes
  <2>2. /\ Left(n, w.filter, Nil) = Elements(n, w.filter) /\ IsInjective(Elements(n, w.filter))
        /\ ToSet(Elements(n, w.filter)) = Kin(KidsOf(n), w.filter)
    BY <2>1, ElementsFacts DEF Left, Kin
  <2>3. Refs(Kin(KidsOf(n), w.filter) \ ToSet(Elements(n, w.filter))) = {}
    BY <2>2 DEF Refs
  <2>4. QED
    BY <2>2, <2>3, NothingShown DEF Covers
<1>2. QED
  BY <1>1 DEF Tally

LEMMA OnceCall ==
  ASSUME TypeInv, CarrierInv, OnceInv, Next, Call, NEW c \in DOMAIN chains', Quiet(c)'
  PROVE  Once(c)'
<1>1. PICK parent \in {Nil} \cup Given, filter \in Filters, size \in Nat :
        \/ FirstPage(parent, filter, size)
        \/ \E token \in 1 .. calls : NextPage(token, parent, filter, size)
  BY CallArguments
<1>2. pc = "idle" /\ nodes' = nodes /\ UNCHANGED backend
  BY <1>1 DEF FirstPage, NextPage
<1>3. Grown(nodes, nodes') /\ Org' = Org /\ nodes \in Seq(Entries)
  BY <1>2, GrownSelf, OrgKept, SmallSteps DEF TypeInv, NodesOK
<1>4. out = <<>> /\ <<>> \o <<>> = <<>>
  BY <1>2 DEF TypeInv, PageOK
<1>5. CASE FirstPage(parent, filter, size) /\ pc' # "idle"
  <2>1. /\ chains' = Append(chains, Chain(parent, filter)) /\ conts' = conts
        /\ req' = [parent |-> parent, filter |-> filter, size |-> size,
                   chain |-> Len(chains) + 1, from |-> Nil]
        /\ page' = IF backend = "da3" THEN Nil ELSE Da2Page(ParentTrail(parent))
        /\ out' = <<>>
    BY <1>2, <1>5 DEF FirstPage, Serve
  <2>2. parent \in {Nil} \cup DOMAIN nodes
    BY GivenNodes
  <2>3. /\ DOMAIN chains = 1 .. Len(chains) /\ DOMAIN chains' = 1 .. Len(chains) + 1 /\ Len(chains) \in Nat
        /\ \A d \in DOMAIN chains : chains'[d] = chains[d]
        /\ chains'[Len(chains) + 1] = Chain(parent, filter)
    BY <2>1, <2>2, FirstChain
  <2>4. req'.chain = Len(chains) + 1 /\ req'.parent = parent /\ req'.from = Nil
    BY <2>1
  <2>5. CASE c # Len(chains) + 1
    <3>1. c \in DOMAIN chains /\ chains'[c] = chains[c]
      BY <2>3, <2>5
    <3>2. Quiet(c)
      BY <3>1, QuietBack
    <3>3. Once(c)
      BY <3>1, <3>2 DEF OnceInv
    <3>4. QED
      BY <1>3, <2>1, <2>4, <2>5, <3>1, <3>3, OnceStill
  <2>6. CASE c = Len(chains) + 1
    <3> DEFINE ch == Chain(parent, filter)
    <3>1. ch.told = <<>> /\ ~ch.whole /\ chains'[c] = ch
      BY <2>2, <2>3, <2>6, ChainType
    <3> HIDE DEF ch
    <3>2. Fine(nodes', Org, ch)
      BY <3>1, NothingShown DEF Fine
    <3>3. \A t \in DOMAIN conts' : conts'[t].chain # c
      BY <2>1, <2>3, <2>6, ContTypes
    <3>4. page' = Nil \/ (~page'.begun /\ page'.merged = {})
      BY <2>1 DEF Da2Page
    <3>5. Tally(nodes, Org, req', Nil, page', <<>>)
      BY <1>3, <2>2, <2>4, <3>4, TallyFresh
    <3>6. chains'[c].told \o out' = <<>>
      BY <1>4, <2>1, <3>1
    <3>7. QED
      BY <1>2, <1>3, <2>4, <3>1, <3>2, <3>3, <3>5, <3>6 DEF Once
  <2>7. QED
    BY <2>5, <2>6
<1>6. CASE pc' = "idle"
  <2>1. chains' = chains \/ FirstPage(parent, filter, size)
    BY <1>1 DEF NextPage
  <2>2. chains' = chains
    <3>1. CASE FirstPage(parent, filter, size) /\ Admitted(parent, size) /\ ParentFits(parent)
      <4>1. pc' = IF (IF backend = "da3" THEN Nil ELSE Da2Page(ParentTrail(parent))) = Nil THEN "da3"
                  ELSE IF Flat /\ (IF backend = "da3" THEN Nil ELSE Da2Page(ParentTrail(parent))).begun
                  THEN "names" ELSE "move"
        BY <3>1 DEF FirstPage, Serve
      <4>2. QED
        BY <1>6, <4>1
    <3>2. QED
      BY <2>1, <3>1 DEF FirstPage
  <2>3. \A t \in DOMAIN conts' : t \in DOMAIN conts /\ conts'[t] = conts[t]
    BY <1>1 DEF FirstPage, NextPage, Without
  <2>4. Once(c)
    BY <2>2, QuietBack DEF OnceInv
  <2>5. QED
    BY <1>3, <1>6, <2>2, <2>3, <2>4, OnceStill
<1>7. CASE pc' # "idle" /\ \E token \in 1 .. calls : NextPage(token, parent, filter, size)
  <2>1. PICK token \in 1 .. calls : NextPage(token, parent, filter, size)
    BY <1>7
  <2>2. /\ token \in DOMAIN conts /\ conts[token].parent = parent /\ conts[token].filter = filter
        /\ conts' = Without(conts, token) /\ chains' = chains
        /\ req' = [parent |-> parent, filter |-> filter, size |-> size,
                   chain |-> conts[token].chain, from |-> conts[token].from]
        /\ page' = conts[token].page /\ out' = <<>>
    BY <1>2, <1>7, <2>1 DEF NextPage, Serve
  <2>3. /\ req'.chain = conts[token].chain /\ req'.parent = conts[token].parent
        /\ req'.filter = conts[token].filter /\ req'.from = conts[token].from
    BY <2>2
  <2>4. \A t \in DOMAIN conts' : t \in DOMAIN conts /\ conts'[t] = conts[t]
    BY <2>2 DEF Without
  <2>5. Once(c)
    BY <2>2, QuietBack DEF OnceInv
  <2>6. ASSUME req'.chain = c
        PROVE  Tally(nodes', Org, req', req'.from, page', chains[c].told \o out')
    <3>1. Tally(nodes, Org, conts[token], conts[token].from, conts[token].page, chains[c].told)
      BY <2>2, <2>3, <2>5, <2>6 DEF Once
    <3>2. chains[c].told \in Seq(DOMAIN nodes)
      BY <2>2, ChainTypes
    <3>3. chains[c].told \o <<>> = chains[c].told
      BY <3>2
    <3>4. Tally(nodes, Org, req', conts[token].from, conts[token].page, chains[c].told)
      BY <2>3, <3>1 DEF Tally
    <3>5. QED
      BY <1>2, <2>2, <2>3, <3>3, <3>4
  <2>7. QED
    BY <1>3, <2>2, <2>4, <2>5, <2>6, OnceStill
<1>8. QED
  BY <1>1, <1>5, <1>6, <1>7

LEMMA OnceIncompatible ==
  ASSUME TypeInv, FreshInv, OnceInv, Next, Incompatible, NEW c \in DOMAIN chains', Quiet(c)'
  PROVE  Once(c)'
<1>1. /\ pc = "da3" /\ backend = "da3" /\ UNCHANGED <<nodes, conts, chains>>
      /\ req \in Requested(DOMAIN nodes)
  BY RemainingOK DEF Incompatible
<1>2. Quiet(c) /\ Once(c) /\ Steady /\ out = <<>>
  BY <1>1, QuietBack, SmallSteps DEF OnceInv, TypeInv, PageOK
<1>3. CASE CanFallBack /\ profile.da2
  <2>1. /\ page' = Da2Page(<<>>) /\ pc' = "move" /\ req' = req /\ out' = out
        /\ req.parent = Nil /\ req.from = Nil /\ ~rootDone
    BY <1>3 DEF Incompatible, CanFallBack
  <2>2. DOMAIN conts = {} /\ chains[c].told = <<>> /\ ~chains[c].whole
    BY <1>1, <2>1 DEF FreshInv, Fresh
  <2>3. \A org : Fine(nodes, org, chains[c])
    BY <2>2, NothingShown DEF Fine
  <2>4. nodes \in Seq(Entries) /\ ~page'.begun /\ page'.merged = {}
    BY <2>1 DEF TypeInv, NodesOK, Da2Page
  <2>5. \A org : Tally(nodes, org, req, Nil, page', <<>>)
    BY <2>1, <2>4, TallyFresh
  <2>6. chains[c].told \o out' = <<>>
    BY <1>2, <2>1, <2>2
  <2>7. QED
    BY <1>1, <2>1, <2>2, <2>3, <2>5, <2>6 DEF Once
<1>4. CASE ~(CanFallBack /\ profile.da2)
  <2>1. pc' = "idle" /\ UNCHANGED backend
    BY <1>4 DEF Incompatible, GiveUp
  <2>2. Org' = Org
    BY <1>2, <2>1, OrgKept
  <2>3. QED
    BY <1>1, <1>2, <2>1, <2>2, GrownSelf, OnceStill
<1>5. QED
  BY <1>3, <1>4

-----------------------------------------------------------------------------
(* Each step: a page begins, and its enumerators end. *)

LEMMA ReadsSound ==
  ASSUME NEW ns, NEW org, NEW K, NEW filter, NEW b, NEW i, NEW m, NEW s,
         Reads(ns, org, K, filter, b, i, m, s)
  PROVE  Sound(b) /\ Sound(i)
BY DEF Reads, ReadOK, TreeOK, FlatOK, Sound

\* What the page that is being read shows so far, and after a step.
LEMMA ReadsNow ==
  ASSUME TypeInv, pc = "names", Once(req.chain)
  PROVE  Reads(nodes, Org, Children(At(nodes, req.parent)), req.filter, page.branches, page.items,
               page.merged, chains[req.chain].told \o out)
<1>1. page # Nil /\ page.begun
  BY PageTypes, NoneAssumption DEF TypeInv, PageOK
<1>2. QED
  BY <1>1 DEF Once, Tally

LEMMA ReadsThen ==
  ASSUME NEW ns, NEW org, NEW w, NEW from, NEW state, NEW trail, NEW b, NEW i, NEW m, NEW s,
         Shape(state, trail, TRUE, b, i, m),
         Reads(ns, org, Children(At(ns, w.parent)), w.filter, b, i, m, s)
  PROVE  Tally(ns, org, w, from, state, s)
<1>1. state # Nil /\ state.begun /\ state.branches = b /\ state.items = i /\ state.merged = m
  BY NoneAssumption DEF Shape
<1>2. QED
  BY <1>1 DEF Tally

LEMMA OneKids == ASSUME NEW n PROVE Children({n}) = KidsOf(n)
BY DEF Children

LEMMA OnceBegin ==
  ASSUME TypeInv, HomeInv, OnceInv, Next, Begin, NEW c \in DOMAIN chains', Quiet(c)'
  PROVE  Once(c)'
<1>1. /\ UNCHANGED <<nodes, conts, chains, backend, req, out>> /\ pc = "move" /\ ~page.begun
      /\ Arrived /\ cursor \in Nodes
  BY DEF Begin, Arrived, TypeInv, Scalars
<1>2. Quiet(c) /\ Once(c) /\ Org' = Org /\ ~adrift
  BY <1>1, QuietBack, SmallSteps, OrgKept DEF OnceInv
<1>3. page \in Pages /\ page # Nil /\ backend = "da2" /\ req.filter \in Filters
  BY <1>1, PageTypes, NoneAssumption
<1>4. ASSUME req.chain = c
      PROVE  Tally(nodes, Org, req, req.from, page', chains[c].told \o out)
  <2> DEFINE s == chains[c].told \o out
             b == FirstBranches
             i == FirstItems
  <2>1. s = <<>> /\ page.merged = {}
    BY <1>1, <1>2, <1>3, <1>4 DEF Once, Tally
  <2>2. Shape(page', page.trail, TRUE, b, i, page.merged)
    BY <1>1, BeginShape
  <2>3. /\ Sound(b) /\ Sound(i)
        /\ Open(b) = IF Flat \/ req.filter = "items" THEN {}
                     ELSE {Name[k] : k \in KidsOf(cursor) \cap Branches}
        /\ Open(i) = IF req.filter = "branches" THEN {}
                     ELSE IF Flat THEN {Id[j] : j \in ItemsBelow(Root)}
                     ELSE {Name[k] : k \in KidsOf(cursor) \cap Items}
    BY <1>1, FirstNames
  <2>4. /\ Flat \/ req.filter = "items" => b = Nil
        /\ req.filter = "branches" => i = Nil
    BY DEF FirstBranches, FirstItems
  <2> HIDE DEF s, b, i
  <2>5. Reads(nodes, Org, Children(At(nodes, req.parent)), req.filter, b, i, page.merged, s)
    <3>1. CASE Flat
      <4>1. Org = "flat"
        BY <1>3, <3>1 DEF Org
      <4>2. FlatOK(req.filter, b, i, page.merged)
        BY <2>1, <2>3, <2>4, <3>1 DEF FlatOK, LeafIds
      <4>3. req.filter = "branches" \/ LeafIds \ Open(i) = {}
        BY <2>3, <3>1 DEF LeafIds
      <4>4. Got("flat", Children(At(nodes, req.parent)), req.filter, b, i) = {}
        BY <4>3 DEF Got
      <4>5. QED
        BY <2>1, <4>1, <4>2, <4>4, NothingShown DEF Reads, ReadOK, Covers
    <3>2. CASE ~Flat
      <4> DEFINE K == Children(At(nodes, req.parent))
      <4>1. Org = "tree"
        BY <3>2 DEF Org
      <4>2. K = KidsOf(cursor)
        BY <1>1, <1>2, <3>2, ReadsThere, OneKids
      <4> HIDE DEF K
      <4>3. TreeOK(K, req.filter, b, i, page.merged) /\ Done(K, req.filter, b, i) = {}
        <5>1. Open(b) = IF req.filter = "items" THEN {} ELSE NamesIn(K, Branches)
          BY <2>3, <3>2, <4>2 DEF NamesIn
        <5>2. Open(i) = IF req.filter = "branches" THEN {} ELSE NamesIn(K, Items)
          BY <2>3, <3>2, <4>2 DEF NamesIn
        <5>3. QED
          BY <1>3, <2>1, <2>3, <2>4, <5>1, <5>2, TreeStart
      <4>4. Got("tree", K, req.filter, b, i) = {}
        BY <4>3 DEF Got, Refs
      <4>5. Reads(nodes, "tree", K, req.filter, b, i, page.merged, s)
        BY <2>1, <4>3, <4>4, NothingShown DEF Reads, ReadOK, Covers
      <4>6. QED
        BY <4>1, <4>5 DEF K
    <3>3. QED
      BY <3>1, <3>2
  <2>6. Tally(nodes, Org, req, req.from, page', s)
    BY <2>2, <2>5, ReadsThen
  <2>7. QED
    BY <2>6 DEF s
<1>5. QED
  BY <1>1, <1>2, <1>4, GrownSelf, OnceStill

LEMMA OnceEnds ==
  ASSUME TypeInv, OnceInv, Next, EndBranches \/ EndItems, NEW c \in DOMAIN chains', Quiet(c)'
  PROVE  Once(c)'
<1>1. UNCHANGED <<nodes, conts, chains, backend, req, out>> /\ pc = "names"
  BY DEF EndBranches, EndItems, InBranches, InItems, Listing
<1>2. Quiet(c) /\ Once(c) /\ Org' = Org /\ faults' = faults /\ faults \in Nat
  BY <1>1, QuietBack, SmallSteps, OrgKept, ChainTypes DEF OnceInv
<1>3. /\ page \in Pages /\ page.begun /\ page.merged \in SUBSET Words
      /\ page.branches \in {Nil} \cup Iterators(Words) /\ page.items \in {Nil} \cup Iterators(Words)
  BY <1>1, PageTypes DEF TypeInv, PageOK
<1>4. ASSUME req.chain = c
      PROVE  Tally(nodes, Org, req, req.from, page', chains[c].told \o out)
  <2> DEFINE s == chains[c].told \o out
             K == Children(At(nodes, req.parent))
  <2>1. Reads(nodes, Org, K, req.filter, page.branches, page.items, page.merged, s)
    BY <1>1, <1>2, <1>4, ReadsNow
  <2> HIDE DEF s, K
  <2>2. Sound(page.branches) /\ Sound(page.items) /\ Sound(Nil) /\ Open(Nil) = {}
    BY <2>1, ReadsSound DEF Sound, Open
  <2>3. \A it \in {page.branches, page.items} : it # Nil =>
          \A x \in NextOf(it) : x.f.res.kind \in {"end", "stuck"} /\ Spend(x.cost) => Open(it) = {}
    <3> SUFFICES ASSUME NEW it \in {page.branches, page.items}, it # Nil, NEW x \in NextOf(it),
                        x.f.res.kind \in {"end", "stuck"}, Spend(x.cost)
                 PROVE  Open(it) = {}
      OBVIOUS
    <3>1. it \in Iterators(Words) /\ Sound(it)
      BY <1>3, <2>2
    <3>2. x.cost \in {0, 1}
      BY <3>1, NextFacts
    <3>3. x.cost = 0
      BY <1>2, <3>2, Spent
    <3>4. QED
      BY <3>1, <3>3, NextFacts
  <2>4. CASE EndBranches
    <3>1. page' = [page EXCEPT !.branches = Nil] /\ page.branches # Nil
      BY <2>4 DEF EndBranches, InBranches
    <3>2. Open(page.branches) = {}
      BY <2>3, <2>4, <3>1 DEF EndBranches
    <3>3. Shape(page', page.trail, page.begun, Nil, page.items, page.merged)
      BY <1>3, <3>1, PageFields
    <3>4. Shape(page', page.trail, TRUE, Nil, page.items, page.merged)
      BY <1>3, <3>3 DEF Shape
    <3>5. Reads(nodes, Org, K, req.filter, Nil, page.items, page.merged, s)
      BY <2>1, <2>2, <3>2, ReadsSame
    <3>6. QED
      BY <3>4, <3>5, ReadsThen DEF K, s
  <2>5. CASE EndItems
    <3>1. page' = [page EXCEPT !.items = Nil] /\ page.items # Nil
      BY <2>5 DEF EndItems, InItems
    <3>2. Open(page.items) = {}
      BY <2>3, <2>5, <3>1 DEF EndItems
    <3>3. Shape(page', page.trail, page.begun, page.branches, Nil, page.merged)
      BY <1>3, <3>1, PageFields
    <3>4. Shape(page', page.trail, TRUE, page.branches, Nil, page.merged)
      BY <1>3, <3>3 DEF Shape
    <3>5. Reads(nodes, Org, K, req.filter, page.branches, Nil, page.merged, s)
      BY <2>1, <2>2, <3>2, ReadsSame
    <3>6. QED
      BY <3>4, <3>5, ReadsThen DEF K, s
  <2>6. QED
    BY <2>4, <2>5
<1>5. QED
  BY <1>1, <1>2, <1>4, GrownSelf, OnceStill

-----------------------------------------------------------------------------
(* Each step: a page is answered. *)

\* The continuation holds what the page had still to read.
LEMMA OnceAnswer ==
  ASSUME TypeInv, CarrierInv, pc = "names", nodes' = nodes, Org' = Org, NEW c \in DOMAIN chains, Once(c),
         NEW more \in BOOLEAN, NEW state, Reply(out, more, Nil, state),
         NEW b, NEW i, Shape(state, page.trail, page.begun, b, i, page.merged),
         req.chain = c =>
           /\ Sound(b) /\ Open(b) = Open(page.branches) /\ (page.branches = Nil => b = Nil)
           /\ Sound(i) /\ Open(i) = Open(page.items) /\ (page.items = Nil => i = Nil)
           /\ ~more => Open(b) = {} /\ Open(i) = {}
  PROVE  Once(c)'
<1>1. Grown(nodes, nodes') /\ pc # "idle"
  BY GrownSelf
<1>2. Shape(state, page.trail, TRUE, b, i, page.merged)
  BY DEF TypeInv, PageOK, Shape
<1>3. ASSUME req.chain = c, NEW ch, ch.parent = req.parent, ch.filter = req.filter,
             ch.told = chains[c].told \o out
      PROVE  /\ (ch.whole <=> ~more) => Fine(nodes, Org, ch)
             /\ more => Tally(nodes, Org, ch, Nil, state, ch.told)
  <2>1. Reads(nodes, Org, Children(At(nodes, req.parent)), req.filter, page.branches, page.items,
              page.merged, chains[c].told \o out)
    BY <1>3, ReadsNow
  <2>2. Reads(nodes, Org, Children(At(nodes, ch.parent)), ch.filter, page.branches, page.items,
              page.merged, ch.told)
    BY <1>3, <2>1
  <2>3. Reads(nodes, Org, Children(At(nodes, ch.parent)), ch.filter, b, i, page.merged, ch.told)
    BY <1>3, <2>2, ReadsSame
  <2>4. (ch.whole <=> ~more) => Fine(nodes, Org, ch)
    BY <1>3, <2>3, FineReads
  <2>5. Tally(nodes, Org, ch, Nil, state, ch.told)
    BY <1>2, <2>3, ReadsThen
  <2>6. QED
    BY <2>4, <2>5
<1>4. QED
  BY <1>1, <1>3, OnceReply

LEMMA OnceEndPage ==
  ASSUME TypeInv, CarrierInv, OnceInv, Next, EndPage, NEW c \in DOMAIN chains', Quiet(c)'
  PROVE  Once(c)'
<1>1. pc = "names" /\ nodes' = nodes /\ UNCHANGED backend /\ page \in Pages /\ page.begun
  BY PageTypes DEF EndPage, PageFull, TypeInv, PageOK
<1>2. PICK b : EndForm(b)
  BY EndPageForm
<1>3. c \in DOMAIN chains /\ chains'[c].since = chains[c].since
  <2>1. \A tokens, from, state : \A more \in BOOLEAN :
          Reply(tokens, more, from, state) =>
            DOMAIN chains' = DOMAIN chains /\ \A d \in DOMAIN chains : chains'[d].since = chains[d].since
    BY <1>1, ReplyChains
  <2>2. TRUE \in BOOLEAN /\ \A i : (i.f.res.kind # "end") \in BOOLEAN
    OBVIOUS
  <2>3. QED
    BY <1>2, <2>1, <2>2 DEF EndForm
<1>4. Quiet(c) /\ Once(c) /\ Org' = Org /\ faults' = faults /\ faults \in Nat
  BY <1>1, <1>3, QuietBack, SmallSteps, OrgKept, ChainTypes DEF OnceInv
<1>5. page.branches \in {Nil} \cup Iterators(Words) /\ page.items \in {Nil} \cup Iterators(Words)
  BY <1>1, PageTypes
<1>6. req.chain = c => Sound(page.branches) /\ Sound(page.items)
  BY <1>1, <1>4, ReadsNow, ReadsSound
<1>7. b \in Peeks(page.branches) /\ b.cost \in {0, 1}
  BY <1>2, <1>5, PeekFacts DEF EndForm
<1>8. CASE Spend(b.cost) /\ Reply(out, TRUE, Nil, PeekState(b))
  <2>1. TRUE \in BOOLEAN
    OBVIOUS
  <2>2. b.cost = 0
    BY <1>4, <1>7, <1>8, Spent
  <2>3. Shape(PeekState(b), page.trail, page.begun, b.f.it, page.items, page.merged)
    BY <1>1, <1>7, PeekShape
  <2>4. req.chain = c =>
          Sound(b.f.it) /\ Open(b.f.it) = Open(page.branches) /\ (page.branches = Nil => b.f.it = Nil)
    BY <1>5, <1>6, <1>7, <2>2, PeekFacts
  <2>5. QED
    BY <1>1, <1>3, <1>4, <1>6, <1>8, <2>1, <2>3, <2>4, OnceAnswer
<1>9. CASE /\ b.f.res.kind \notin {"name", "broken"}
           /\ \E i \in Peeks(page.items) :
                Spend(b.cost + i.cost) /\ Reply(out, i.f.res.kind # "end", Nil, PeekBoth(b, i))
  <2>1. PICK i \in Peeks(page.items) :
                Spend(b.cost + i.cost) /\ Reply(out, i.f.res.kind # "end", Nil, PeekBoth(b, i))
    BY <1>9
  <2> DEFINE more == i.f.res.kind # "end"
             left == IF b.f.res.kind = "stuck" THEN Nil ELSE b.f.it
  <2>2. more \in BOOLEAN /\ Reply(out, more, Nil, PeekBoth(b, i))
    BY <2>1
  <2>3. Shape(PeekBoth(b, i), page.trail, page.begun, left, i.f.it, page.merged) /\ i.cost \in {0, 1}
    BY <1>1, <1>7, PeekShape
  <2>4. b.cost = 0 /\ i.cost = 0
    <3>1. b.cost + i.cost \in Nat
      BY <1>7, <2>3
    <3>2. b.cost + i.cost = 0
      BY <1>4, <2>1, <3>1, Spent
    <3>3. QED
      BY <1>7, <2>3, <3>2
  <2>5. ASSUME req.chain = c
        PROVE  /\ Sound(left) /\ Open(left) = Open(page.branches) /\ (page.branches = Nil => left = Nil)
               /\ Sound(i.f.it) /\ Open(i.f.it) = Open(page.items) /\ (page.items = Nil => i.f.it = Nil)
               /\ ~more => Open(left) = {} /\ Open(i.f.it) = {}
    <3>1. /\ Sound(b.f.it) /\ Open(b.f.it) = Open(page.branches) /\ (page.branches = Nil => b.f.it = Nil)
          /\ b.f.res.kind \in {"end", "name"} /\ (b.f.res.kind = "end" => Open(page.branches) = {})
      BY <1>5, <1>6, <1>7, <2>4, <2>5, PeekFacts
    <3>2. /\ Sound(i.f.it) /\ Open(i.f.it) = Open(page.items) /\ (page.items = Nil => i.f.it = Nil)
          /\ i.f.res.kind = "end" => Open(page.items) = {}
      BY <1>5, <1>6, <2>1, <2>4, <2>5, PeekFacts
    <3>3. b.f.res.kind = "end" /\ left = b.f.it
      BY <1>9, <3>1
    <3>4. QED
      BY <3>1, <3>2, <3>3
  <2> HIDE DEF more, left
  <2>6. QED
    BY <1>1, <1>3, <1>4, <2>2, <2>3, <2>5, OnceAnswer
<1>10. QED
  BY <1>2, <1>8, <1>9 DEF EndForm

\* The next elements of a DA 3 listing.
LEMMA CoversNext ==
  ASSUME NEW ns, NEW s, IsSeq(s), NEW K, NamesDiffer(K), NEW W, W \subseteq K,
         NEW rest \in Seq(Nodes), IsInjective(rest), ToSet(rest) \subseteq W,
         Covers(ns, s, Refs(W \ ToSet(rest))), NEW n \in Nat, n <= Len(rest),
         NEW tokens, IsSeq(tokens), DOMAIN tokens = 1 .. n,
         \A i \in 1 .. n : Row(ns, tokens[i]) = Ref(rest[i])
  PROVE  Covers(ns, s \o tokens, Refs(W \ ToSet(SubSeq(rest, n + 1, Len(rest)))))
<1> DEFINE new == {rest[i] : i \in 1 .. n}
           left == SubSeq(rest, n + 1, Len(rest))
<1>1. DOMAIN rest = 1 .. Len(rest) /\ Len(rest) \in Nat /\ \A i \in 1 .. Len(rest) : rest[i] \in ToSet(rest)
  BY LenProperties DEF ToSet
<1>2. ToSet(left) = {rest[i] : i \in n + 1 .. Len(rest)}
  BY LeftOver
<1>3. ToSet(rest) = {rest[i] : i \in 1 .. Len(rest)}
  BY <1>1 DEF ToSet
<1>4. W \ ToSet(left) = (W \ ToSet(rest)) \cup new
  <2> DEFINE l == Len(rest)
  <2>1. \A i \in 1 .. n : i \in 1 .. l /\ i \notin n + 1 .. l
    BY <1>1
  <2>2. \A i \in 1 .. l : i \in 1 .. n \/ i \in n + 1 .. l
    BY <1>1
  <2>3. \A i \in n + 1 .. l : i \in 1 .. l
    BY <1>1
  <2> HIDE DEF l
  <2>4. \A i, j \in 1 .. l : rest[i] = rest[j] => i = j
    BY <1>1 DEF IsInjective, l
  <2>5. new \cap ToSet(left) = {}
    BY <1>2, <2>1, <2>3, <2>4 DEF l
  <2>6. ToSet(rest) = new \cup ToSet(left)
    BY <1>2, <1>3, <2>1, <2>2, <2>3 DEF l
  <2>7. QED
    BY <2>5, <2>6
<1>5. \A i \in 1 .. n : rest[i] \in K /\ rest[i] \in ToSet(rest)
  BY <1>1
<1>6. \A i \in 1 .. n : ns[tokens[i]].name = Name[rest[i]]
  <2> TAKE i \in 1 .. n
  <2>1. Row(ns, tokens[i]).name = Ref(rest[i]).name
    OBVIOUS
  <2>2. QED
    BY <2>1, RefFacts DEF Row, Reference
<1>7. Apart(ns, tokens)
  <2> SUFFICES ASSUME NEW i \in 1 .. n, NEW j \in 1 .. n, ns[tokens[i]].name = ns[tokens[j]].name
               PROVE  i = j
    BY DEF Apart
  <2>1. rest[i] = rest[j]
    BY <1>5, <1>6 DEF NamesDiffer
  <2>2. i \in DOMAIN rest /\ j \in DOMAIN rest
    BY <1>1
  <2>3. QED
    BY <2>1, <2>2 DEF IsInjective
<1>8. Rows(ns, tokens) = Refs(new)
  BY DEF Rows, Refs
<1>9. ASSUME NEW j \in DOMAIN tokens, NEW r \in Rows(ns, s) PROVE r.name # ns[tokens[j]].name
  <2>1. PICK k \in W \ ToSet(rest) : r = Ref(k)
    BY DEF Covers, Refs
  <2>2. r.name = Name[k] /\ k \in K
    BY <2>1, RefFacts
  <2>3. k # rest[j] /\ ns[tokens[j]].name = Name[rest[j]] /\ rest[j] \in K
    BY <1>5, <1>6, <2>1
  <2>4. QED
    BY <2>2, <2>3 DEF NamesDiffer
<1>10. Apart(ns, s \o tokens) /\ Rows(ns, s \o tokens) = Rows(ns, s) \cup Rows(ns, tokens)
  BY <1>7, <1>9, RowsMore DEF Covers
<1>11. Rows(ns, s \o tokens) = Refs(W \ ToSet(rest)) \cup Refs(new)
  BY <1>8, <1>10 DEF Covers
<1>12. Refs(W \ ToSet(rest)) \cup Refs(new) = Refs((W \ ToSet(rest)) \cup new)
  BY DEF Refs
<1> HIDE DEF new, left
<1>13. QED
  BY <1>4, <1>10, <1>11, <1>12 DEF Covers, left

LEMMA OnceDa3Page ==
  ASSUME TypeInv, CarrierInv, OnceInv, Next, Da3Page, NEW c \in DOMAIN chains', Quiet(c)'
  PROVE  Once(c)'
<1>1. pc = "da3" /\ UNCHANGED backend
  BY DEF Da3Page
<1>2. PICK n \in Nat :
        /\ n <= Len(Remaining)
        /\ LET entries == [i \in 1 .. n |-> Da3Entry(Remaining[i])]
               left == SubSeq(Remaining, n + 1, Len(Remaining))
           IN /\ Insert(entries)
              /\ IF Fits(entries)
                 THEN Reply([i \in 1 .. n |-> Len(nodes) + i], n < Len(Remaining), left, Nil)
                 ELSE GiveUp /\ UNCHANGED <<conts, chains>>
  BY Da3Form
<1> DEFINE entries == [i \in 1 .. n |-> Da3Entry(Remaining[i])]
           left == SubSeq(Remaining, n + 1, Len(Remaining))
           tokens == [i \in 1 .. n |-> Len(nodes) + i]
           more == n < Len(Remaining)
           P == ParentNode
           W == Kin(KidsOf(P), req.filter)
<1>3. /\ entries \in Seq(Entries) /\ Len(entries) = n
      /\ \A i \in 1 .. n : Remaining[i] \in KidsOf(P)
  BY <1>1, <1>2, EntriesOK
<1>4. NodesOK(nodes) /\ Insert(entries)
  BY <1>2 DEF TypeInv
<1>5. /\ P \in Nodes /\ At(nodes, req.parent) = {P} /\ backend = "da3" /\ page = Nil
      /\ req.parent \in {Nil} \cup DOMAIN nodes
      /\ Remaining \in Seq(Nodes) /\ ToSet(Remaining) \subseteq W
  BY <1>1, RemainingOK DEF Requested, Kin
<1>6. \A i \in 1 .. n : entries[i] = Da3Entry(Remaining[i])
  OBVIOUS
<1> HIDE DEF entries
<1>7. /\ Grown(nodes, nodes')
      /\ Fits(entries) => /\ DOMAIN nodes' = 1 .. Len(nodes) + n /\ Len(nodes) \in Nat
                          /\ \A i \in 1 .. n : nodes'[Len(nodes) + i] = entries[i]
  BY <1>3, <1>4, Inserted
<1>8. CASE ~Fits(entries)
  <2>1. pc' = "idle" /\ UNCHANGED <<conts, chains>>
    BY <1>2, <1>8 DEF entries, GiveUp
  <2>2. Once(c) /\ Org' = Org
    BY <1>1, <2>1, QuietBack, SmallSteps, OrgKept DEF OnceInv
  <2>3. QED
    BY <1>7, <2>1, <2>2, OnceStill
<1>9. CASE Fits(entries)
  <2>1. Reply(tokens, more, left, Nil) /\ more \in BOOLEAN
    BY <1>2, <1>9 DEF entries
  <2>2. DOMAIN tokens = 1 .. n /\ IsSeq(tokens)
    <3>1. \A i \in 1 .. n : Len(nodes) + i \in Nat
      BY <1>7, <1>9
    <3>2. tokens \in Seq(Nat)
      BY <3>1
    <3> HIDE DEF tokens
    <3>3. IsSeq(tokens)
      BY <3>2, SeqIsSeq
    <3>4. QED
      BY <3>3 DEF tokens
  <2>3. \A i \in 1 .. n : Row(nodes', tokens[i]) = Ref(Remaining[i])
    <3> TAKE i \in 1 .. n
    <3> DEFINE k == Remaining[i]
    <3>1. nodes'[tokens[i]] = Da3Entry(k)
      BY <1>6, <1>7, <1>9
    <3>2. k \in KidsOf(P)
      BY <1>3
    <3> HIDE DEF k, tokens, P
    <3>3. /\ Da3Entry(k).kind = KindOf(k) /\ Da3Entry(k).name = Name[k]
          /\ Da3Entry(k).id = IF IsItem(KindOf(k)) THEN Id[k] ELSE Nil
      BY <1>5, <3>2, Da3EntryOK
    <3>4. QED
      BY <3>1, <3>3 DEF Row, Ref, k
  <2>4. left \in Seq(Nodes) /\ (~more => ToSet(left) = {}) /\ left # Nil
    <3>1. left \in Seq(Nodes) /\ ToSet(left) = {Remaining[i] : i \in n + 1 .. Len(Remaining)}
      BY <1>2, <1>5, LeftOver
    <3>2. Len(Remaining) \in Nat
      BY <1>5, LenProperties
    <3>3. ~more => n + 1 .. Len(Remaining) = {}
      BY <1>2, <3>2
    <3>4. QED
      BY <3>1, <3>3, NoneAssumption
  <2>5. IsInjective(Remaining) => IsInjective(left)
    BY <1>2, <1>5, LeftOver
  <2> HIDE DEF tokens, more, P, W
  <2>6. c \in DOMAIN chains /\ chains'[c].since = chains[c].since
    BY <1>1, <2>1, ReplyChains
  <2>7. Once(c) /\ Org' = Org
    BY <1>1, <2>6, QuietBack, SmallSteps, OrgKept DEF OnceInv
  <2>8. Org = "tree" /\ out = <<>>
    BY <1>1, <1>5 DEF Org, TypeInv, PageOK
  <2>9. ASSUME req.chain = c, NEW ch, ch.parent = req.parent, ch.filter = req.filter,
               ch.told = chains[c].told \o tokens
        PROVE  /\ (ch.whole <=> ~more) => Fine(nodes', Org, ch)
               /\ more => Tally(nodes', Org, ch, left, Nil, ch.told)
    <3> DEFINE told == chains[c].told
    <3>1. told \in Seq(DOMAIN nodes) /\ IsSeq(told) /\ told \o out = told
      <4>1. told \in Seq(DOMAIN nodes)
        BY <2>6, ChainTypes
      <4>2. QED
        BY <2>8, <4>1, SeqIsSeq
    <3>2. IsInjective(Remaining) /\ Covers(nodes, told, Refs(W \ ToSet(Remaining)))
      <4>1. Tally(nodes, Org, req, req.from, page, told)
        BY <1>1, <2>7, <2>9, <3>1 DEF Once
      <4>2. Left(P, req.filter, req.from) = Remaining
        BY DEF Left, Remaining, P
      <4>3. QED
        BY <1>5, <4>1, <4>2 DEF Tally, W
    <3>3. Covers(nodes', told, Refs(W \ ToSet(Remaining)))
      BY <1>7, <3>1, <3>2, RowsKept DEF Covers
    <3>4. NamesDiffer(KidsOf(P)) /\ W \subseteq KidsOf(P)
      BY <1>5, SameKids DEF W, Kin
    <3> HIDE DEF told
    <3>5. Covers(nodes', told \o tokens, Refs(W \ ToSet(left)))
      BY <1>2, <1>5, <2>2, <2>3, <3>1, <3>2, <3>3, <3>4, CoversNext
    <3>6. ch.told = told \o tokens
      BY <2>9 DEF told
    <3>7. At(nodes', ch.parent) = {P} /\ Children({P}) = KidsOf(P)
      BY <1>5, <1>7, <2>9, AtKept, OneKids
    <3>8. Fine(nodes', Org, ch) \/ ~(ch.whole <=> ~more)
      <4>1. Wanted(Org, KidsOf(P), ch.filter) = Refs(W)
        BY <2>8, <2>9 DEF Wanted, W
      <4>2. Refs(W \ ToSet(left)) \subseteq Refs(W)
        BY DEF Refs
      <4>3. ~more => W \ ToSet(left) = W
        BY <2>4
      <4>4. QED
        BY <3>5, <3>6, <3>7, <4>1, <4>2, <4>3 DEF Fine, Covers
    <3>9. Tally(nodes', Org, ch, left, Nil, ch.told)
      <4>1. \A m : Left(m, ch.filter, left) = left
        BY <2>4 DEF Left
      <4>2. IsInjective(left) /\ W = Kin(KidsOf(P), ch.filter)
        BY <2>5, <2>9, <3>2 DEF W
      <4> HIDE DEF left
      <4>3. QED
        BY <3>5, <3>6, <3>7, <4>1, <4>2 DEF Tally
    <3>10. QED
      BY <3>8, <3>9
  <2>10. pc # "idle"
    BY <1>1
  <2> HIDE DEF left
  <2>11. QED
    BY <1>7, <2>1, <2>6, <2>7, <2>9, <2>10, OnceReply
<1>10. QED
  BY <1>8, <1>9

-----------------------------------------------------------------------------
(* Each step: a name is read. *)

\* The enumerators b and i and the names m come after what the page shows: it
\* gets ref, or stays what it is.
Shows(b, i, m, ref) ==
  LET K == Children(At(nodes, req.parent))
      got == Got(Org, K, req.filter, page.branches, page.items)
  IN /\ ReadOK(Org, K, req.filter, b, i, m)
     /\ Got(Org, K, req.filter, b, i) = got \cup {ref}
     /\ \A r \in got : r.name # ref.name

Stays(b, i, m) ==
  LET K == Children(At(nodes, req.parent))
  IN /\ ReadOK(Org, K, req.filter, b, i, m)
     /\ Got(Org, K, req.filter, b, i) = Got(Org, K, req.filter, page.branches, page.items)

\* The name became a node, which shows what the page had not shown so far.
LEMMA OnceList ==
  ASSUME TypeInv, pc = "names", Org' = Org, UNCHANGED <<conts, chains>>,
         NEW c \in DOMAIN chains, Once(c),
         NEW name \in Words, NEW id \in Words \cup {Nil}, NEW in \in BOOLEAN, NEW state,
         List(name, id, in, state),
         NEW b, NEW i, NEW m, Shape(state, page.trail, page.begun, b, i, m),
         req.chain = c => Shows(b, i, m, Reference(ShownKind(in, id), name, id))
  PROVE  Once(c)'
<1>1. page.trail \in Seq(Words) /\ page.begun
  BY PageTypes DEF TypeInv, PageOK
<1>2. Grown(nodes, nodes') /\ (GiveUp \/ Added(ShownKind(in, id), name, id, state))
  BY <1>1, ListFacts
<1>3. CASE GiveUp
  <2>1. pc' = "idle"
    BY <1>3 DEF GiveUp
  <2>2. QED
    BY <1>2, <2>1, OnceStill
<1>4. CASE Added(ShownKind(in, id), name, id, state) /\ req.chain # c
  <2>1. req' = req
    BY <1>4 DEF Added
  <2>2. QED
    BY <1>2, <1>4, <2>1, OnceStill
<1>5. CASE Added(ShownKind(in, id), name, id, state) /\ req.chain = c
  <2> DEFINE kind == ShownKind(in, id)
             t == Len(nodes) + 1
             s == chains[c].told \o out
             ref == Reference(kind, name, id)
             K == Children(At(nodes, req.parent))
             got == Got(Org, K, req.filter, page.branches, page.items)
  <2>1. /\ req' = req /\ page' = state /\ out' = Append(out, t)
        /\ nodes'[t].kind = kind /\ nodes'[t].name = name /\ nodes'[t].id = id
    BY <1>5 DEF Added
  <2>0. /\ ReadOK(Org, K, req.filter, b, i, m) /\ Got(Org, K, req.filter, b, i) = got \cup {ref}
        /\ \A r \in got : r.name # name
    BY <1>5 DEF Shows, Reference
  <2>2. chains[c].told \in Seq(DOMAIN nodes) /\ out \in Seq(DOMAIN nodes)
    BY ChainTypes DEF TypeInv, PageOK
  <2>3. s \in Seq(DOMAIN nodes) /\ IsSeq(s)
    <3>1. s \in Seq(DOMAIN nodes)
      BY <2>2
    <3> HIDE DEF s
    <3>2. QED
      BY <3>1, SeqIsSeq
  <2> HIDE DEF kind, t
  <2>4. chains[c].told \o out' = s \o <<t>>
    <3> DEFINE told == chains[c].told
               D == DOMAIN nodes
    <3>1. told \in Seq(D) /\ out \in Seq(D)
      BY <2>2
    <3> HIDE DEF told, D
    <3>2. told \o Append(out, t) = (told \o out) \o <<t>>
      BY <3>1, AppendOne
    <3>3. QED
      BY <2>1, <3>2 DEF told
  <2> HIDE DEF s
  <2>5. Row(nodes', t) = ref
    BY <2>1 DEF Row
  <2>6. Covers(nodes, s, got)
    BY <1>5, ReadsNow DEF Reads, s
  <2>7. Covers(nodes', s, got)
    BY <1>2, <2>3, <2>6, RowsKept DEF Covers
  <2>8. \A r \in got : r.name # nodes'[t].name
    BY <2>0, <2>1
  <2> HIDE DEF got, ref
  <2>9. Covers(nodes', s \o <<t>>, got \cup {ref})
    BY <2>3, <2>5, <2>7, <2>8, CoversOne
  <2>10. At(nodes', req.parent) = At(nodes, req.parent)
    BY <1>2, AtKept, PageTypes
  <2>11. Reads(nodes', Org, Children(At(nodes', req.parent)), req.filter, b, i, m, s \o <<t>>)
    BY <2>0, <2>9, <2>10 DEF Reads
  <2>12. Shape(state, page.trail, TRUE, b, i, m)
    BY <1>1 DEF Shape
  <2>13. Tally(nodes', Org, req, req.from, state, s \o <<t>>)
    BY <2>11, <2>12, ReadsThen
  <2>14. QED
    BY <1>2, <2>1, <2>4, <2>13, OnceStill
<1>6. QED
  BY <1>2, <1>3, <1>4, <1>5

\* The name is not shown, because it is not wanted or was shown already.
LEMMA OnceSkip ==
  ASSUME TypeInv, pc = "names", Org' = Org, UNCHANGED <<conts, chains>>,
         NEW c \in DOMAIN chains, Once(c), NEW state, Skip(state),
         NEW b, NEW i, NEW m, Shape(state, page.trail, page.begun, b, i, m),
         req.chain = c => Stays(b, i, m)
  PROVE  Once(c)'
<1>1. page' = state /\ UNCHANGED <<pc, nodes, req, out>> /\ Grown(nodes, nodes') /\ page.begun
  BY GrownSelf DEF Skip, TypeInv, PageOK
<1>2. CASE req.chain = c
  <2>1. Reads(nodes, Org, Children(At(nodes, req.parent)), req.filter, b, i, m, chains[c].told \o out)
    BY <1>2, ReadsNow DEF Reads, Stays
  <2>2. Shape(state, page.trail, TRUE, b, i, m)
    BY <1>1 DEF Shape
  <2>3. Tally(nodes, Org, req, req.from, state, chains[c].told \o out)
    BY <2>1, <2>2, ReadsThen
  <2>4. QED
    BY <1>1, <2>3, OnceStill
<1>3. CASE req.chain # c
  BY <1>1, <1>3, OnceStill
<1>4. QED
  BY <1>2, <1>3

\* What a child adds was not shown.
LEMMA NewRef ==
  ASSUME NEW K, NamesDiffer(K), NEW filter, NEW b, NEW i, NEW k \in K, k \notin Done(K, filter, b, i)
  PROVE  /\ \A r \in Refs(Done(K, filter, b, i)) : r.name # Name[k]
         /\ Refs(Done(K, filter, b, i) \cup {k}) = Refs(Done(K, filter, b, i)) \cup {Ref(k)}
<1>1. Done(K, filter, b, i) \subseteq K
  BY DEF Done, Kin
<1>2. ASSUME NEW r \in Refs(Done(K, filter, b, i)) PROVE r.name # Name[k]
  <2>1. PICK l \in Done(K, filter, b, i) : r = Ref(l)
    BY DEF Refs
  <2>2. r.name = Name[l] /\ l \in K /\ l # k
    BY <1>1, <2>1, RefFacts
  <2>3. QED
    BY <2>2 DEF NamesDiffer
<1>3. QED
  BY <1>2 DEF Refs

LEMMA OrgForm == ASSUME TypeInv, pc = "names" PROVE Org = IF Flat THEN "flat" ELSE "tree"
BY PageTypes DEF Org

LEMMA OnceNextBranch ==
  ASSUME TypeInv, HomeInv, OnceInv, Next, NextBranch, NEW c \in DOMAIN chains', Quiet(c)'
  PROVE  Once(c)'
<1>1. /\ UNCHANGED <<conts, chains, backend>> /\ pc = "names" /\ page.branches # Nil
      /\ page \in Pages /\ page.branches \in {Nil} \cup Iterators(Words) /\ req.filter \in Filters
  BY PageTypes DEF NextBranch, InBranches, Listing
<1>2. /\ Quiet(c) /\ Once(c) /\ Org' = Org /\ faults' = faults /\ faults \in Nat /\ ~adrift
      /\ c \in DOMAIN chains
  BY <1>1, QuietBack, SmallSteps, OrgKept, ChainTypes DEF OnceInv
<1>3. PICK x, r, v :
         /\ BranchRead(x, r, v)
         /\ IF v.in \/ (r.id # Nil /\ req.filter # "branches")
            THEN List(x.f.res.name, r.id, v.in, BranchState(x, r, v))
            ELSE Skip(BranchState(x, r, v))
  BY <1>1, NextBranchForm
<1> DEFINE name == x.f.res.name
           state == BranchState(x, r, v)
           m == Merged(page.merged, name, r.id, v.in)
           K == KidsOf(cursor)
<1>4. /\ name \in Words /\ r.id \in Words \cup {Nil} /\ v.in \in BOOLEAN
      /\ Shape(state, page.trail, page.begun, x.f.it, page.items, m)
  BY <1>1, <1>3, BranchShape
<1>5. /\ x \in NextOf(page.branches) /\ x.f.res.kind = "name"
      /\ r \in Resolved(name) /\ v \in Navigable(name) /\ Spend(x.cost + r.cost + v.cost)
  BY <1>3 DEF BranchRead
<1>6. x.cost = 0 /\ r.cost = 0 /\ v.cost = 0
  <2>1. x.cost \in {0, 1} /\ r.cost \in {0, 1} /\ v.cost \in {0, 1}
    BY <1>1, <1>5, ReadFacts
  <2>2. x.cost + r.cost + v.cost \in Nat
    BY <2>1
  <2>3. x.cost + r.cost + v.cost = 0
    BY <1>2, <1>5, <2>2, Spent
  <2>4. QED
    BY <2>1, <2>3
<1>7. At(nodes, req.parent) = {cursor} /\ cursor \in Nodes
  BY <1>1, <1>2, ReadsThere
<1>8. NamesDiffer(K) /\ K \subseteq Nodes /\ K = Children(At(nodes, req.parent))
  BY <1>7, SameKids, OneKids
<1> HIDE DEF name, state, m, K
<1>9. ASSUME req.chain = c
      PROVE  \E k \in K :
               /\ Name[k] = name /\ Org = "tree" /\ k \in Nodes
               /\ r.id = (IF k \in Items THEN Id[k] ELSE Nil) /\ (v.in <=> k \in Enterable)
               /\ TreeOK(K, req.filter, x.f.it, page.items, m) /\ req.filter # "items"
               /\ k \notin Done(K, req.filter, page.branches, page.items)
               /\ Done(K, req.filter, x.f.it, page.items) =
                    IF k \in Kin(K, req.filter) THEN Done(K, req.filter, page.branches, page.items) \cup {k}
                    ELSE Done(K, req.filter, page.branches, page.items)
  <2>1. ReadOK(Org, K, req.filter, page.branches, page.items, page.merged)
    BY <1>1, <1>2, <1>8, <1>9, ReadsNow DEF Reads
  <2>2. Org = "tree"
    <3>1. Org # "flat"
      BY <1>1, <2>1 DEF ReadOK, FlatOK
    <3>2. QED
      BY <1>1, <3>1, OrgForm
  <2>3. TreeOK(K, req.filter, page.branches, page.items, page.merged)
    BY <2>1, <2>2 DEF ReadOK
  <2>4. /\ Sound(x.f.it) /\ name \in Open(page.branches)
        /\ Open(x.f.it) = Open(page.branches) \ {name}
    <3>1. page.branches \in Iterators(Words) /\ Sound(page.branches)
      BY <1>1, <2>3 DEF TreeOK
    <3>2. QED
      BY <1>5, <1>6, <3>1, NextFacts DEF name
  <2>5. PICK k \in K \cap Branches : Name[k] = name
    BY <2>3, <2>4 DEF TreeOK, NamesIn
  <2>6. r.id = (IF k \in Items THEN Id[k] ELSE Nil) /\ (v.in <=> k \in Enterable)
    BY <1>5, <1>6, <1>7, <2>5, Answers DEF K
  <2>7. m = Merged(page.merged, Name[k], IF k \in Items THEN Id[k] ELSE Nil, v.in)
    BY <2>5, <2>6 DEF m
  <2>8. /\ TreeOK(K, req.filter, x.f.it, page.items, m)
        /\ k \notin Done(K, req.filter, page.branches, page.items)
        /\ Done(K, req.filter, x.f.it, page.items) =
             IF k \in Kin(K, req.filter) THEN Done(K, req.filter, page.branches, page.items) \cup {k}
             ELSE Done(K, req.filter, page.branches, page.items)
    <3> DEFINE b == page.branches
               i == page.items
               filter == req.filter
               b2 == x.f.it
               in == v.in
               names == page.merged
    <3>1. /\ TreeOK(K, filter, b, i, names) /\ b # Nil /\ Name[k] \in Open(b) /\ filter \in Filters
          /\ Taken(b, b2, Name[k]) /\ NamesDiffer(K) /\ K \subseteq Nodes
      BY <1>1, <1>8, <2>3, <2>4, <2>5 DEF Taken
    <3> HIDE DEF b, i, filter, b2, in, names
    <3>2. TreeOK(K, filter, b2, i, Merged(names, Name[k], ItemIdOf(k), in)) /\ DoneBy(K, filter, b, i, b2, k)
      BY <3>1, TreeBranch
    <3>3. QED
      BY <2>7, <3>2 DEF b, i, filter, b2, in, names, ItemIdOf, DoneBy
  <2>9. req.filter # "items"
    BY <1>1, <2>3 DEF TreeOK
  <2>10. QED
    BY <1>8, <2>2, <2>5, <2>6, <2>8, <2>9
<1>10. CASE v.in \/ (r.id # Nil /\ req.filter # "branches")
  <2>1. List(name, r.id, v.in, state)
    BY <1>3, <1>10 DEF name, state
  <2> DEFINE ref == Reference(ShownKind(v.in, r.id), name, r.id)
  <2>2. ASSUME req.chain = c
        PROVE  Shows(x.f.it, page.items, m, ref)
    <3>1. PICK k \in K :
               /\ Name[k] = name /\ Org = "tree" /\ k \in Nodes
               /\ r.id = (IF k \in Items THEN Id[k] ELSE Nil) /\ (v.in <=> k \in Enterable)
               /\ TreeOK(K, req.filter, x.f.it, page.items, m) /\ req.filter # "items"
               /\ k \notin Done(K, req.filter, page.branches, page.items)
               /\ Done(K, req.filter, x.f.it, page.items) =
                    IF k \in Kin(K, req.filter) THEN Done(K, req.filter, page.branches, page.items) \cup {k}
                    ELSE Done(K, req.filter, page.branches, page.items)
      BY <1>9, <2>2
    <3>2. k \in Kin(K, req.filter)
      <4>1. CASE req.filter = "branches"
        BY <1>10, <3>1, <4>1, PassFacts DEF Kin
      <4>2. CASE req.filter = "all"
        BY <1>10, <3>1, <4>2, PassFacts DEF Kin
      <4>3. QED
        BY <1>1, <3>1, <4>1, <4>2 DEF Filters
    <3>3. ref = Ref(k)
      <4> DEFINE in == v.in
                 id == r.id
                 filter == req.filter
      <4>1. (in <=> k \in Enterable) /\ id = (IF k \in Items THEN Id[k] ELSE Nil) /\ k \in Nodes
            /\ k \in Kin(K, filter) /\ filter \in Filters
        BY <1>1, <3>1, <3>2
      <4> HIDE DEF in, id, filter
      <4>2. Reference(ShownKind(in, id), Name[k], id) = Ref(k)
        BY <4>1, ShownRef
      <4>3. QED
        BY <3>1, <4>2 DEF in, id
    <3> HIDE DEF ref
    <3>4. /\ \A q \in Refs(Done(K, req.filter, page.branches, page.items)) : q.name # name
          /\ Refs(Done(K, req.filter, x.f.it, page.items))
               = Refs(Done(K, req.filter, page.branches, page.items)) \cup {ref}
      BY <1>8, <3>1, <3>2, <3>3, NewRef
    <3>5. ref.name = name
      BY <3>1, <3>3, RefFacts
    <3>6. QED
      BY <1>8, <3>1, <3>4, <3>5 DEF ReadOK, Got, Shows
  <2> HIDE DEF ref
  <2> DEFINE in == v.in
             id == r.id
             b == x.f.it
             i == page.items
  <2>3. /\ List(name, id, in, state) /\ id \in Words \cup {Nil} /\ in \in BOOLEAN /\ name \in Words
        /\ Shape(state, page.trail, page.begun, b, i, m)
        /\ req.chain = c => Shows(b, i, m, Reference(ShownKind(in, id), name, id))
    BY <1>4, <2>1, <2>2 DEF ref
  <2> HIDE DEF in, id, b, i
  <2>4. QED
    BY <1>1, <1>2, <2>3, OnceList
<1>11. CASE ~(v.in \/ (r.id # Nil /\ req.filter # "branches"))
  <2>1. Skip(state)
    BY <1>3, <1>11 DEF state
  <2>2. ASSUME req.chain = c
        PROVE  Stays(x.f.it, page.items, m)
    <3>1. PICK k \in K :
               /\ Name[k] = name /\ Org = "tree" /\ k \in Nodes
               /\ r.id = (IF k \in Items THEN Id[k] ELSE Nil) /\ (v.in <=> k \in Enterable)
               /\ TreeOK(K, req.filter, x.f.it, page.items, m) /\ req.filter # "items"
               /\ k \notin Done(K, req.filter, page.branches, page.items)
               /\ Done(K, req.filter, x.f.it, page.items) =
                    IF k \in Kin(K, req.filter) THEN Done(K, req.filter, page.branches, page.items) \cup {k}
                    ELSE Done(K, req.filter, page.branches, page.items)
      BY <1>9, <2>2
    <3>2. k \notin Kin(K, req.filter)
      <4>1. CASE req.filter = "branches"
        BY <1>11, <3>1, <4>1, PassFacts DEF Kin
      <4>2. CASE req.filter = "all"
        <5>1. k \notin Enterable /\ k \notin Items
          BY <1>11, <3>1, <4>2, NodeWords, NoneAssumption
        <5>2. QED
          BY <4>2, <5>1, PassFacts DEF Kin
      <4>3. QED
        BY <1>1, <3>1, <4>1, <4>2 DEF Filters
    <3>3. QED
      BY <1>8, <3>1, <3>2 DEF ReadOK, Got, Stays
  <2>3. QED
    BY <1>1, <1>2, <1>4, <2>1, <2>2, OnceSkip
<1>12. QED
  BY <1>10, <1>11


\* What NextItem does with the name read.
LEMMA NextItemForm ==
  ASSUME NextItem
  PROVE  \E x \in NextOf(page.items) :
           /\ x.f.res.kind = "name"
           /\ \/ /\ x.f.res.name \in page.merged /\ Spend(x.cost) /\ Skip(ItemState(x))
              \/ /\ x.f.res.name \notin page.merged /\ Flat /\ Spend(x.cost)
                 /\ \E in \in BOOLEAN : ~in /\ List(x.f.res.name, x.f.res.name, in, ItemState(x))
              \/ /\ x.f.res.name \notin page.merged /\ ~Flat
                 /\ \E r \in Resolved(x.f.res.name), v \in Navigable(x.f.res.name) :
                      /\ r.id # Nil /\ Spend(x.cost + v.cost)
                      /\ List(x.f.res.name, r.id, v.in, ItemState(x))
BY DEF NextItem, ItemState

LEMMA OnceNextItem ==
  ASSUME TypeInv, HomeInv, OnceInv, Next, NextItem, NEW c \in DOMAIN chains', Quiet(c)'
  PROVE  Once(c)'
<1>1. /\ UNCHANGED <<conts, chains, backend>> /\ pc = "names" /\ page.branches = Nil /\ page.items # Nil
      /\ page \in Pages /\ page.items \in {Nil} \cup Iterators(Words) /\ req.filter \in Filters
  BY PageTypes DEF NextItem, InItems, Listing
<1>2. /\ Quiet(c) /\ Once(c) /\ Org' = Org /\ faults' = faults /\ faults \in Nat /\ ~adrift
      /\ c \in DOMAIN chains
  BY <1>1, QuietBack, SmallSteps, OrgKept, ChainTypes DEF OnceInv
<1>3. PICK x \in NextOf(page.items) :
           /\ x.f.res.kind = "name"
           /\ \/ /\ x.f.res.name \in page.merged /\ Spend(x.cost) /\ Skip(ItemState(x))
              \/ /\ x.f.res.name \notin page.merged /\ Flat /\ Spend(x.cost)
                 /\ \E in \in BOOLEAN : ~in /\ List(x.f.res.name, x.f.res.name, in, ItemState(x))
              \/ /\ x.f.res.name \notin page.merged /\ ~Flat
                 /\ \E r \in Resolved(x.f.res.name), v \in Navigable(x.f.res.name) :
                      /\ r.id # Nil /\ Spend(x.cost + v.cost)
                      /\ List(x.f.res.name, r.id, v.in, ItemState(x))
  BY NextItemForm
<1> DEFINE name == x.f.res.name
           state == ItemState(x)
           b == page.branches
           i == x.f.it
           m == page.merged
           K == KidsOf(cursor)
<1>4. /\ name \in Words /\ name # Nil /\ x.cost \in {0, 1} /\ Shape(state, page.trail, page.begun, b, i, m)
      /\ \A r \in Resolved(name) : r.id \in Words \cup {Nil} /\ r.cost \in {0, 1}
      /\ \A v \in Navigable(name) : v.in \in BOOLEAN /\ v.cost \in {0, 1}
  BY <1>1, <1>3, ReadFacts, ItemShape, NoneAssumption
<1>5. ASSUME x.cost = 0, Sound(page.items)
      PROVE  Sound(i) /\ name \in Open(page.items) /\ Open(i) = Open(page.items) \ {name}
  BY <1>1, <1>3, <1>5, NextFacts
<1>6. ASSUME req.chain = c
      PROVE  ReadOK(Org, Children(At(nodes, req.parent)), req.filter, b, page.items, m)
  BY <1>1, <1>2, <1>6, ReadsNow DEF Reads
<1>7. At(nodes, req.parent) = {cursor} /\ cursor \in Nodes
  BY <1>1, <1>2, ReadsThere
<1>8. NamesDiffer(K) /\ K \subseteq Nodes /\ K = Children(At(nodes, req.parent))
  BY <1>7, SameKids, OneKids
<1>9. Org = IF Flat THEN "flat" ELSE "tree"
  BY <1>1, OrgForm
<1> HIDE DEF name, state, i, m, K
<1>10. ASSUME req.chain = c, ~Flat, x.cost = 0
       PROVE  \E k \in K \cap Items :
                /\ Name[k] = name /\ TreeOK(K, req.filter, Nil, i, m)
                /\ name \in m => Done(K, req.filter, Nil, i) = Done(K, req.filter, Nil, page.items)
                /\ name \notin m =>
                     /\ k \in Kin(K, req.filter) /\ k \notin Done(K, req.filter, Nil, page.items)
                     /\ Done(K, req.filter, Nil, i) = Done(K, req.filter, Nil, page.items) \cup {k}
  <2> DEFINE it == page.items
             filter == req.filter
  <2>1. TreeOK(K, filter, Nil, it, m)
    BY <1>1, <1>6, <1>8, <1>9, <1>10 DEF ReadOK
  <2>2. Sound(i) /\ name \in Open(it) /\ Open(i) = Open(it) \ {name}
    BY <1>5, <1>10, <2>1 DEF TreeOK
  <2>3. PICK k \in K \cap Items : Name[k] = name
    BY <2>1, <2>2 DEF TreeOK, NamesIn
  <2>4. it # Nil /\ filter \in Filters
    BY <1>1
  <2> HIDE DEF it, filter
  <2>5. /\ TreeOK(K, filter, Nil, i, m)
        /\ Name[k] \in m => Done(K, filter, Nil, i) = Done(K, filter, Nil, it)
        /\ Name[k] \notin m => /\ k \in Kin(K, filter) /\ k \notin Done(K, filter, Nil, it)
                               /\ Done(K, filter, Nil, i) = Done(K, filter, Nil, it) \cup {k}
    BY <1>8, <2>1, <2>2, <2>3, <2>4, TreeItem
  <2>6. QED
    BY <2>3, <2>5 DEF it, filter
<1>11. CASE name \in m /\ Spend(x.cost) /\ Skip(state)
  <2>1. x.cost = 0
    BY <1>2, <1>4, <1>11, Spent
  <2>2. ASSUME req.chain = c PROVE Stays(b, i, m)
    <3>1. ~Flat
      BY <1>6, <1>9, <1>11, <2>2 DEF ReadOK, FlatOK
    <3>2. /\ TreeOK(K, req.filter, Nil, i, m)
          /\ Done(K, req.filter, Nil, i) = Done(K, req.filter, Nil, page.items)
      BY <1>10, <1>11, <2>1, <2>2, <3>1
    <3>3. QED
      BY <1>1, <1>8, <1>9, <3>1, <3>2 DEF ReadOK, Got, Stays
  <2> HIDE DEF b
  <2>3. QED
    BY <1>1, <1>2, <1>4, <1>11, <2>2, OnceSkip
<1>12. CASE /\ name \notin m /\ Flat /\ Spend(x.cost)
            /\ \E in \in BOOLEAN : ~in /\ List(name, name, in, state)
  <2>1. x.cost = 0
    BY <1>2, <1>4, <1>12, Spent
  <2>2. PICK in \in BOOLEAN : ~in /\ List(name, name, in, state)
    BY <1>12
  <2>3. ShownKind(in, name) = "item"
    BY <2>2 DEF ShownKind
  <2>4. ASSUME req.chain = c PROVE Shows(b, i, m, Reference(ShownKind(in, name), name, name))
    <3>1. FlatOK(req.filter, b, page.items, m)
      BY <1>6, <1>9, <1>12, <2>4 DEF ReadOK
    <3>2. Sound(i) /\ name \in Open(page.items) /\ Open(i) = Open(page.items) \ {name}
      BY <1>5, <2>1, <3>1 DEF FlatOK
    <3>3. FlatOK(req.filter, b, i, m) /\ req.filter # "branches" /\ name \in LeafIds
      BY <1>1, <3>1, <3>2 DEF FlatOK
    <3>4. LeafIds \ Open(i) = (LeafIds \ Open(page.items)) \cup {name} /\ name \notin LeafIds \ Open(page.items)
      BY <3>2, <3>3
    <3>5. /\ {LeafRef(y) : y \in LeafIds \ Open(i)} = {LeafRef(y) : y \in LeafIds \ Open(page.items)} \cup {LeafRef(name)}
          /\ \A r \in {LeafRef(y) : y \in LeafIds \ Open(page.items)} : r.name # name
      BY <3>4 DEF LeafRef, Reference
    <3>6. LeafRef(name) = Reference(ShownKind(in, name), name, name) /\ LeafRef(name).name = name
      BY <2>3 DEF LeafRef, Reference
    <3>7. QED
      BY <1>9, <1>12, <3>3, <3>5, <3>6 DEF ReadOK, Got, Shows
  <2> HIDE DEF b
  <2>5. QED
    BY <1>1, <1>2, <1>4, <2>2, <2>4, OnceList
<1>13. CASE /\ name \notin m /\ ~Flat
            /\ \E r \in Resolved(name), v \in Navigable(name) :
                 r.id # Nil /\ Spend(x.cost + v.cost) /\ List(name, r.id, v.in, state)
  <2>1. PICK r \in Resolved(name), v \in Navigable(name) :
               r.id # Nil /\ Spend(x.cost + v.cost) /\ List(name, r.id, v.in, state)
    BY <1>13
  <2> DEFINE id == r.id
             in == v.in
  <2>2. x.cost = 0 /\ v.cost = 0
    <3>1. v.cost \in {0, 1} /\ x.cost + v.cost \in Nat
      BY <1>4
    <3>2. x.cost + v.cost = 0
      BY <1>2, <2>1, <3>1, Spent
    <3>3. QED
      BY <1>4, <3>1, <3>2
  <2>3. id \in Words \cup {Nil} /\ in \in BOOLEAN /\ List(name, id, in, state)
    BY <1>4, <2>1
  <2>4. ASSUME req.chain = c PROVE Shows(b, i, m, Reference(ShownKind(in, id), name, id))
    <3>1. PICK k \in K \cap Items :
                /\ Name[k] = name /\ TreeOK(K, req.filter, Nil, i, m)
                /\ k \in Kin(K, req.filter) /\ k \notin Done(K, req.filter, Nil, page.items)
                /\ Done(K, req.filter, Nil, i) = Done(K, req.filter, Nil, page.items) \cup {k}
      BY <1>10, <1>13, <2>2, <2>4
    <3>2. k \in KidsOf(cursor) /\ k \in Nodes
      BY <1>8 DEF K
    <3>3. id = (IF k \in Items THEN Id[k] ELSE Nil) /\ (in <=> k \in Enterable)
      BY <1>7, <2>1, <2>2, <3>1, <3>2, Answers
    <3> DEFINE filter == req.filter
    <3>4. k \in Kin(K, filter) /\ filter \in Filters
      BY <1>1, <3>1
    <3> HIDE DEF id, in, filter
    <3>5. Reference(ShownKind(in, id), Name[k], id) = Ref(k)
      BY <3>2, <3>3, <3>4, ShownRef
    <3> DEFINE ref == Reference(ShownKind(in, id), name, id)
    <3>6. ref = Ref(k) /\ ref.name = name
      BY <3>1, <3>5 DEF Reference
    <3> HIDE DEF ref
    <3>7. /\ \A q \in Refs(Done(K, req.filter, Nil, page.items)) : q.name # ref.name
          /\ Refs(Done(K, req.filter, Nil, i)) = Refs(Done(K, req.filter, Nil, page.items)) \cup {ref}
      BY <1>8, <3>1, <3>6, NewRef
    <3>8. Shows(b, i, m, ref)
      BY <1>1, <1>8, <1>9, <1>13, <3>1, <3>7 DEF ReadOK, Got, Shows
    <3>9. QED
      BY <3>8 DEF ref
  <2> HIDE DEF b, id, in
  <2>5. QED
    BY <1>1, <1>2, <1>4, <2>3, <2>4, OnceList
<1>14. QED
  BY <1>3, <1>11, <1>12, <1>13 DEF name, m, state
-----------------------------------------------------------------------------
(* A chain of pages lists every child once: the theorem. *)

\* A page that ends without a reply, or moves on, leaves every chain alone.
LEMMA OnceQuit ==
  ASSUME TypeInv, OnceInv, Next, NEW c \in DOMAIN chains', Quiet(c)', UNCHANGED <<conts, chains, backend>>,
         Grown(nodes, nodes'), pc' = "idle" \/ (pc # "idle" /\ UNCHANGED <<nodes, req, page, out>>)
  PROVE  Once(c)'
<1>1. c \in DOMAIN chains /\ Quiet(c) /\ Once(c) /\ Org' = Org
  BY QuietBack, SmallSteps, OrgKept DEF OnceInv
<1>2. CASE pc' = "idle"
  BY <1>1, <1>2, OnceStill
<1>3. CASE pc # "idle" /\ UNCHANGED <<nodes, req, page, out>>
  <2>1. ASSUME req.chain = c PROVE Tally(nodes', Org, req', req'.from, page', chains[c].told \o out')
    BY <1>1, <1>3, <2>1 DEF Once
  <2>2. QED
    BY <1>1, <1>3, <2>1, OnceStill
<1>4. QED
  BY <1>2, <1>3

LEMMA OnceNext ==
  ASSUME TypeInv, FreshInv, HomeInv, CarrierInv, OnceInv, Next
  PROVE  OnceInv'
<1> SUFFICES ASSUME NEW c \in DOMAIN chains', Quiet(c)' PROVE Once(c)'
  BY DEF OnceInv
<1>1. CASE Call
  BY <1>1, OnceCall
<1>2. CASE Da3Page
  BY <1>2, OnceDa3Page
<1>3. CASE Incompatible
  BY <1>3, OnceIncompatible
<1>4. CASE Begin
  BY <1>4, OnceBegin
<1>5. CASE EndBranches \/ EndItems
  BY <1>5, OnceEnds
<1>6. CASE NextBranch
  BY <1>6, OnceNextBranch
<1>7. CASE NextItem
  BY <1>7, OnceNextItem
<1>8. CASE EndPage
  BY <1>8, OnceEndPage
<1>9. CASE Da3Fails
  <2>1. pc' = "idle" /\ UNCHANGED <<conts, chains, backend>> /\ pc = "da3" /\ NodesOK(nodes)
    BY <1>9 DEF Da3Fails, GiveUp, TypeInv
  <2>2. PICK n \in 0 .. req.size :
          n <= Len(Remaining) /\ Insert([i \in 1 .. n |-> Da3Entry(Remaining[i])])
    BY <1>9 DEF Da3Fails
  <2>3. n \in Nat
    BY <2>1, <2>2, RemainingOK DEF Requested
  <2> DEFINE entries == [i \in 1 .. n |-> Da3Entry(Remaining[i])]
  <2>4. entries \in Seq(Entries) /\ Insert(entries)
    BY <2>1, <2>2, <2>3, EntriesOK
  <2> HIDE DEF entries
  <2>5. Grown(nodes, nodes')
    BY <2>1, <2>4, Inserted
  <2>6. QED
    BY <2>1, <2>5, OnceQuit
<1>10. CASE MoveUpRefused \/ MoveDownRefused \/ NamesFail \/ CallFails \/ ProbeStrands
  <2>1. UNCHANGED <<nodes, conts, chains, backend>> /\ pc' = "idle"
    BY <1>10 DEF MoveUpRefused, MoveDownRefused, NamesFail, CallFails, ProbeStrands, GiveUp
  <2>2. QED
    BY <2>1, GrownSelf, OnceQuit
<1>11. CASE MoveUp \/ MoveDown \/ Arrive
  <2>1. UNCHANGED <<nodes, conts, chains, backend, req, page, out>> /\ pc # "idle"
    BY <1>11 DEF MoveUp, MoveDown, AtShared, Arrive
  <2>2. QED
    BY <2>1, GrownSelf, OnceQuit
<1>12. QED
  BY <1>1, <1>2, <1>3, <1>4, <1>5, <1>6, <1>7, <1>8, <1>9, <1>10, <1>11 DEF Next, Da3, Move, Read

LEMMA OnceAlways == Spec => [](TypeInv /\ FreshInv /\ HomeInv /\ CarrierInv /\ OnceInv)
<1>1. Init => CarrierInv /\ OnceInv
  <2>1. DOMAIN <<>> = {}
    OBVIOUS
  <2>2. QED
    BY <2>1 DEF Init, CarrierInv, OnceInv
<1>2. TypeInv /\ FreshInv /\ HomeInv /\ CarrierInv /\ OnceInv /\ [Next]_vars => OnceInv'
  <2>1. UNCHANGED vars /\ OnceInv => OnceInv'
    BY DEF vars, sessionVars, tokenVars, workVars, serverVars, historyVars, OnceInv, Quiet, Once, Org, Flat
  <2>2. QED
    BY <2>1, OnceNext
<1>3. QED
  BY <1>1, <1>2, CarrierNext, HomeAlways, PTL DEF Spec

\* The pages a client gets by following continuations (browse_da3,
\* browse_da2_page, take_continuation) list every child of the parent that the
\* filter lets through exactly once, with the kind and item ID it has, as long
\* as the server did not misbehave in between.
THEOREM ListsChildrenOnce == Spec => []ChildrenOnce
<1>1. OnceInv => ChildrenOnce
  <2> SUFFICES ASSUME OnceInv, NEW c \in DOMAIN chains, ~adrift, faults = chains[c].since
               PROVE  LET told == chains[c].told
                      IN /\ \A i, j \in DOMAIN told : nodes[told[i]].name = nodes[told[j]].name => i = j
                         /\ {Shown(told[i]) : i \in DOMAIN told} \subseteq Expected(c)
                         /\ chains[c].whole => {Shown(told[i]) : i \in DOMAIN told} = Expected(c)
    BY DEF ChildrenOnce
  <2> DEFINE told == chains[c].told
  <2>1. Fine(nodes, Org, chains[c])
    BY DEF OnceInv, Quiet, Once
  <2>2. Listed(c) = At(nodes, chains[c].parent)
    BY DEF Listed, At
  <2>3. {Shown(told[i]) : i \in DOMAIN told} = Rows(nodes, told)
    BY DEF Shown, Row, Rows
  <2>4. Expected(c) = Wanted(Org, Children(At(nodes, chains[c].parent)), chains[c].filter)
    <3>1. CASE Flat /\ backend = "da2"
      BY <3>1 DEF Expected, Wanted, Org, LeafRef, LeafIds
    <3>2. CASE ~(Flat /\ backend = "da2")
      BY <2>2, <3>2 DEF Expected, Wanted, Org, Refs, Ref, Kin, Children
    <3>3. QED
      BY <3>1, <3>2
  <2>5. QED
    BY <2>1, <2>3, <2>4 DEF Fine, Apart
<1>2. QED
  BY <1>1, OnceAlways, PTL
=============================================================================
