-------------------------- MODULE CommandLineProofs --------------------------
(***************************************************************************)
(* Proofs about SourceScan, CommandLine and AppConfig, for every set of    *)
(* paths, every tree, any number of changes under a scan and every list of *)
(* arguments: what nobody touches is announced as what it is, nothing      *)
(* announced stands in the way of anything else that is, settings and      *)
(* paths are what the arguments say, and no beginning of the file that     *)
(* config init writes is taken for other settings.                         *)
(***************************************************************************)
EXTENDS CommandLine, FiniteSetTheorems, SequenceTheorems, WellFoundedInduction, TLAPS

-----------------------------------------------------------------------------
(* Paths. *)

\* A prefix agrees in every place it has.
LEMMA PrefixIs ==
  ASSUME NEW S, NEW s \in Seq(S), NEW t \in Seq(S)
  PROVE  IsPrefix(s, t) <=> Len(s) <= Len(t) /\ \A i \in 1..Len(s) : s[i] = t[i]
<1>1. ASSUME Len(s) <= Len(t)
      PROVE  SubSeq(s, 1, Len(s)) = SubSeq(t, 1, Len(s)) <=> \A i \in 1..Len(s) : s[i] = t[i]
  <2>1. /\ SubSeq(s, 1, Len(s)) \in Seq(S) /\ Len(SubSeq(s, 1, Len(s))) = Len(s)
        /\ \A i \in 1..Len(s) : SubSeq(s, 1, Len(s))[i] = s[i]
    OBVIOUS
  <2>2. /\ SubSeq(t, 1, Len(s)) \in Seq(S) /\ Len(SubSeq(t, 1, Len(s))) = Len(s)
        /\ \A i \in 1..Len(s) : SubSeq(t, 1, Len(s))[i] = t[i]
    BY <1>1
  <2> QED
    BY <2>1, <2>2, SeqEqual
<1> QED
  BY <1>1 DEF IsPrefix

\* Sequences ordered by what lies inside what.
LEMMA PrefixOrder ==
  ASSUME NEW S, NEW s \in Seq(S), NEW t \in Seq(S), NEW u \in Seq(S)
  PROVE  /\ IsPrefix(s, s)
         /\ IsPrefix(s, t) /\ IsPrefix(t, u) => IsPrefix(s, u)
         /\ IsPrefix(s, t) /\ IsPrefix(t, s) => s = t
         /\ IsPrefix(s, u) /\ IsPrefix(t, u) => IsPrefix(s, t) \/ IsPrefix(t, s)
<1>1. /\ IsPrefix(s, s) <=> Len(s) <= Len(s) /\ \A i \in 1..Len(s) : s[i] = s[i]
      /\ IsPrefix(s, t) <=> Len(s) <= Len(t) /\ \A i \in 1..Len(s) : s[i] = t[i]
      /\ IsPrefix(t, s) <=> Len(t) <= Len(s) /\ \A i \in 1..Len(t) : t[i] = s[i]
      /\ IsPrefix(t, u) <=> Len(t) <= Len(u) /\ \A i \in 1..Len(t) : t[i] = u[i]
      /\ IsPrefix(s, u) <=> Len(s) <= Len(u) /\ \A i \in 1..Len(s) : s[i] = u[i]
  BY PrefixIs
<1>2. Len(s) \in Nat /\ Len(t) \in Nat /\ Len(u) \in Nat
  OBVIOUS
<1>3. IsPrefix(s, t) /\ IsPrefix(t, s) => s = t
  BY <1>1, <1>2, SeqEqual
<1> QED
  BY <1>1, <1>2, <1>3

\* The input path of a path, and its directory.
LEMMA PathIs ==
  ASSUME NEW p \in Path
  PROVE  /\ p \in Seq(Word) /\ Len(p) \in Nat \ {0} /\ p[1] \in Word
         /\ <<p[1]>> \in Path /\ IsPrefix(<<p[1]>>, p) /\ Root(<<p[1]>>)
         /\ Root(p) <=> p = <<p[1]>>
<1>1. p \in Seq(Word) /\ Len(p) \in Nat \ {0} /\ p[1] \in Word
  BY ScanAssumption, EmptySeq
<1>r. PICK r : r = <<p[1]>>
  OBVIOUS
<1>t. r \in Seq(Word) /\ Len(r) = 1 /\ r[1] = p[1]
  BY <1>1, <1>r
<1>2. SubSeq(p, 1, 1) = r
  <2>1. PICK u : u = SubSeq(p, 1, 1)
    OBVIOUS
  <2>2. u \in Seq(Word) /\ Len(u) = 1 /\ u[1] = p[1]
    BY <1>1, <2>1
  <2>3. \A i \in 1..Len(u) : u[i] = r[i]
    BY <1>t, <2>2
  <2>4. u = r
    BY <1>t, <2>2, <2>3, SeqEqual
  <2> QED
    BY <2>1, <2>4
<1>3. <<p[1]>> \in Path
  <2>1. 1 \in 1..Len(p)
    BY <1>1
  <2> QED
    BY <1>r, <1>2, <2>1, ScanAssumption
<1>4. IsPrefix(<<p[1]>>, p)
  <2>1. Len(r) <= Len(p) /\ \A i \in 1..Len(r) : r[i] = p[i]
    BY <1>1, <1>t
  <2>2. IsPrefix(r, p)
    BY <1>1, <1>t, <2>1, PrefixIs
  <2> QED
    BY <1>r, <2>2
<1>5. Root(p) => p = <<p[1]>>
  BY <1>1, SeqEqual DEF Root
<1>6. Root(<<p[1]>>)
  BY DEF Root
<1> QED
  BY <1>1, <1>3, <1>4, <1>5, <1>6

\* Paths ordered by what lies inside what.
LEMMA PathOrder ==
  /\ \A p \in Path : IsPrefix(p, p)
  /\ \A p, q, r \in Path : IsPrefix(p, q) /\ IsPrefix(q, r) => IsPrefix(p, r)
  /\ \A p, q \in Path : IsPrefix(p, q) /\ IsPrefix(q, p) => p = q
  /\ \A p, q, r \in Path : IsPrefix(p, r) /\ IsPrefix(q, r) => IsPrefix(p, q) \/ IsPrefix(q, p)
  /\ \A p, q \in Path : IsPrefix(p, q) => p[1] = q[1]
  /\ \A p, q \in Path : IsPrefix(p, q) /\ Root(q) => p = q
<1>1. Path \subseteq Seq(Word)
  BY ScanAssumption
<1>2. ASSUME NEW p \in Path, NEW q \in Path, IsPrefix(p, q)
      PROVE  p[1] = q[1] /\ (Root(q) => p = q)
  <2>1. Len(p) \in Nat \ {0} /\ Len(q) \in Nat \ {0}
    BY PathIs
  <2>2. Len(p) <= Len(q) /\ \A i \in 1..Len(p) : p[i] = q[i]
    BY <1>1, <1>2, PrefixIs
  <2> QED
    BY <1>1, <2>1, <2>2, SeqEqual DEF Root
<1> QED
  BY <1>1, <1>2, PrefixOrder

\* The directory of a path is what lies next above it.
LEMMA FrontIs ==
  ASSUME NEW p \in Path, ~Root(p)
  PROVE  /\ Front(p) \in Path /\ IsStrictPrefix(Front(p), p)
         /\ \A q \in Path : IsStrictPrefix(q, p) => IsPrefix(q, Front(p))
<1>1. p \in Seq(Word) /\ Len(p) \in Nat /\ Len(p) > 1
  <2>1. p \in Seq(Word) /\ Len(p) \in Nat \ {0}
    BY PathIs
  <2> QED
    BY <2>1 DEF Root
<1>2. PICK n : n = Len(p)
  OBVIOUS
<1>3. n - 1 \in 1..n
  BY <1>1, <1>2
<1>4. /\ Front(p) \in Seq(Word) /\ Len(Front(p)) = n - 1
      /\ \A i \in 1..(n - 1) : Front(p)[i] = p[i]
  BY <1>1, <1>2, <1>3 DEF Front
<1>5. Front(p) \in Path
  BY <1>2, <1>3, ScanAssumption DEF Front
<1>6. IsStrictPrefix(Front(p), p)
  BY <1>1, <1>2, <1>3, <1>4, PrefixIs DEF IsStrictPrefix
<1>7. ASSUME NEW q \in Path, IsStrictPrefix(q, p) PROVE IsPrefix(q, Front(p))
  <2>1. q \in Seq(Word) /\ Len(q) \in Nat
    BY PathIs
  <2>2. Len(q) <= n /\ \A i \in 1..Len(q) : q[i] = p[i]
    BY <1>1, <1>2, <1>7, <2>1, PrefixIs DEF IsStrictPrefix
  <2>3. Len(q) # n
    BY <1>1, <1>2, <1>7, <2>1, <2>2, SeqEqual DEF IsStrictPrefix
  <2>4. Len(q) <= n - 1 /\ \A i \in 1..Len(q) : q[i] = Front(p)[i]
    BY <1>1, <1>2, <1>4, <2>1, <2>2, <2>3
  <2> QED
    BY <1>4, <2>1, <2>4, PrefixIs
<1> QED
  BY <1>5, <1>6, <1>7

\* On the way from a path to one inside it there is an entry of the first.
LEMMA EntryTowards ==
  ASSUME NEW p \in Path, NEW q \in Path, IsStrictPrefix(p, q)
  PROVE  \E c \in Path : ~Root(c) /\ Front(c) = p /\ IsPrefix(c, q)
<1>1. /\ p \in Seq(Word) /\ q \in Seq(Word)
      /\ Len(p) \in Nat \ {0} /\ Len(q) \in Nat \ {0}
  BY PathIs
<1>2. PICK m, n : m = Len(p) /\ n = Len(q)
  OBVIOUS
<1>3. m <= n /\ \A i \in 1..m : p[i] = q[i]
  BY <1>1, <1>2, PrefixIs DEF IsStrictPrefix
<1>4. m # n
  BY <1>1, <1>2, <1>3, SeqEqual DEF IsStrictPrefix
<1>5. m + 1 \in 1..n /\ m \in Nat \ {0} /\ n \in Nat
  BY <1>1, <1>2, <1>3, <1>4
<1>6. PICK c : c = SubSeq(q, 1, m + 1)
  OBVIOUS
<1>7. c \in Path
  BY <1>2, <1>5, <1>6, ScanAssumption
<1>8. c \in Seq(Word) /\ Len(c) = m + 1 /\ \A i \in 1..(m + 1) : c[i] = q[i]
  BY <1>1, <1>2, <1>5, <1>6
<1>9. ~Root(c)
  BY <1>5, <1>8 DEF Root
<1>10. IsPrefix(c, q)
  BY <1>1, <1>2, <1>5, <1>8, PrefixIs
<1>11. Front(c) = p
  <2>1. (m + 1) - 1 = m
    BY <1>5
  <2>2. Front(c) = SubSeq(c, 1, m)
    BY <1>8, <2>1 DEF Front
  <2>3. SubSeq(c, 1, m) \in Seq(Word) /\ Len(SubSeq(c, 1, m)) = m
        /\ \A i \in 1..m : SubSeq(c, 1, m)[i] = c[i]
    BY <1>5, <1>8
  <2>4. \A i \in 1..m : c[i] = p[i]
    BY <1>3, <1>5, <1>8
  <2> QED
    BY <1>1, <1>2, <2>2, <2>3, <2>4, SeqEqual
<1> QED
  BY <1>7, <1>9, <1>10, <1>11

-----------------------------------------------------------------------------
(* Announced names. *)

Texts   == Word \cup {BaseName[w] : w \in Word}
Place(p) == Rank[Target(p)]

\* A path is announced under as many names as it has, all but the first its own.
LEMMA TargetIs ==
  ASSUME NEW p \in Path
  PROVE  /\ Target(p) \in Seq(Texts) /\ Len(Target(p)) = Len(p)
         /\ Target(p)[1] = BaseName[p[1]]
         /\ \A i \in 2..Len(p) : Target(p)[i] = p[i]
<1>1. p \in Seq(Word) /\ Len(p) \in Nat \ {0} /\ p[1] \in Word
  BY PathIs
<1>2. p \in [1..Len(p) -> Word] /\ 1 \in 1..Len(p)
  BY <1>1
<1>3. Target(p) = [i \in 1..Len(p) |-> IF i = 1 THEN BaseName[p[1]] ELSE p[i]]
  BY <1>2 DEF Target
<1>4. \A i \in 1..Len(p) : (IF i = 1 THEN BaseName[p[1]] ELSE p[i]) \in Texts
  BY <1>1, <1>2 DEF Texts
<1>5. PICK n, f : n = Len(p) /\ f = [i \in 1..n |-> IF i = 1 THEN BaseName[p[1]] ELSE p[i]]
  OBVIOUS
<1>6. f \in Seq(Texts) /\ Len(f) = n
  <2>1. f \in [1..n -> Texts] /\ n \in Nat
    BY <1>1, <1>4, <1>5
  <2> QED
    BY <2>1
<1>7. f[1] = BaseName[p[1]] /\ \A i \in 2..n : f[i] = p[i]
  BY <1>1, <1>5
<1> QED
  BY <1>3, <1>5, <1>6, <1>7

\* What lies inside a name is announced inside it, and within one input path the
\* other way round.
LEMMA TargetOrder ==
  ASSUME NEW p \in Path, NEW q \in Path
  PROVE  /\ p[1] = q[1] => (IsPrefix(p, q) <=> IsPrefix(Target(p), Target(q)))
         /\ p[1] = q[1] /\ Target(p) = Target(q) => p = q
         /\ IsPrefix(Target(p), Target(q)) => /\ Target(<<p[1]>>) = Target(<<q[1]>>)
                                              /\ Root(q) => Target(p) = Target(q)
<1>1. /\ p \in Seq(Word) /\ Len(p) \in Nat \ {0} /\ q \in Seq(Word) /\ Len(q) \in Nat \ {0}
      /\ <<p[1]>> \in Path /\ <<q[1]>> \in Path
  BY PathIs
<1>2. /\ Target(p) \in Seq(Texts) /\ Len(Target(p)) = Len(p) /\ Target(p)[1] = BaseName[p[1]]
      /\ \A i \in 2..Len(p) : Target(p)[i] = p[i]
  BY TargetIs
<1>3. /\ Target(q) \in Seq(Texts) /\ Len(Target(q)) = Len(q) /\ Target(q)[1] = BaseName[q[1]]
      /\ \A i \in 2..Len(q) : Target(q)[i] = q[i]
  BY TargetIs
<1>4. IsPrefix(Target(p), Target(q)) <=>
        Len(p) <= Len(q) /\ \A i \in 1..Len(p) : Target(p)[i] = Target(q)[i]
  BY <1>2, <1>3, PrefixIs
<1>5. IsPrefix(p, q) <=> Len(p) <= Len(q) /\ \A i \in 1..Len(p) : p[i] = q[i]
  BY <1>1, PrefixIs
<1>6. ASSUME p[1] = q[1], Len(p) <= Len(q), NEW i \in 1..Len(p)
      PROVE  p[i] = q[i] <=> Target(p)[i] = Target(q)[i]
  <2>1. CASE i = 1
    BY <1>2, <1>3, <1>6, <2>1
  <2>2. CASE i # 1
    <3>1. i \in 2..Len(p) /\ i \in 2..Len(q)
      BY <1>1, <1>6, <2>2
    <3> QED
      BY <1>2, <1>3, <3>1
  <2> QED
    BY <2>1, <2>2
<1>7. ASSUME p[1] = q[1], Target(p) = Target(q) PROVE p = q
  <2>1. Len(p) = Len(q)
    BY <1>2, <1>3, <1>7
  <2>2. Len(p) <= Len(q)
    BY <1>1, <2>1
  <2>3. \A i \in 1..Len(p) : p[i] = q[i]
    BY <1>6, <1>7, <2>2
  <2> QED
    BY <1>1, <2>1, <2>3, SeqEqual
<1>8. ASSUME IsPrefix(Target(p), Target(q)) PROVE Target(<<p[1]>>) = Target(<<q[1]>>)
  <2>1. 1 \in 1..Len(p)
    BY <1>1
  <2>2. BaseName[p[1]] = BaseName[q[1]]
    BY <1>2, <1>3, <1>4, <1>8, <2>1
  <2>3. ASSUME NEW r \in Path, r = <<r[1]>>
        PROVE  Target(r) \in Seq(Texts) /\ Len(Target(r)) = 1 /\ Target(r)[1] = BaseName[r[1]]
    <3>1. Len(r) = 1
      BY <2>3
    <3> QED
      BY <3>1, TargetIs
  <2>4. PICK a, b : a = <<p[1]>> /\ b = <<q[1]>>
    OBVIOUS
  <2>5. /\ Target(a) \in Seq(Texts) /\ Len(Target(a)) = 1 /\ Target(a)[1] = BaseName[p[1]]
        /\ Target(b) \in Seq(Texts) /\ Len(Target(b)) = 1 /\ Target(b)[1] = BaseName[q[1]]
    <3>1. a \in Path /\ a = <<a[1]>> /\ a[1] = p[1] /\ b \in Path /\ b = <<b[1]>> /\ b[1] = q[1]
      BY <1>1, <2>4
    <3> QED
      BY <2>3, <3>1
  <2>6. \A i \in 1..Len(Target(a)) : Target(a)[i] = Target(b)[i]
    BY <2>2, <2>5
  <2>7. Target(a) = Target(b)
    BY <2>5, <2>6, SeqEqual
  <2> QED
    BY <2>4, <2>7
<1>9. ASSUME IsPrefix(Target(p), Target(q)), Root(q) PROVE Target(p) = Target(q)
  <2>1. Len(p) = 1 /\ Len(q) = 1
    BY <1>1, <1>4, <1>9 DEF Root
  <2>2. \A i \in 1..Len(Target(p)) : Target(p)[i] = Target(q)[i]
    BY <1>2, <1>4, <1>9
  <2> QED
    BY <1>2, <1>3, <2>1, <2>2, SeqEqual
<1> QED
  BY <1>4, <1>5, <1>6, <1>7, <1>8, <1>9

\* The places of the paths within one input path differ.
LEMMA PlacesDiffer ==
  ASSUME NEW p \in Path, NEW q \in Path, p[1] = q[1], p # q
  PROVE  /\ Place(p) \in Nat /\ Place(q) \in Nat
         /\ Place(p) < Place(q) \/ Place(q) < Place(p)
         /\ IsPrefix(p, q) => Place(p) < Place(q)
<1>1. Place(p) \in Nat /\ Place(q) \in Nat /\ Place(p) # Place(q)
  BY TargetOrder, ScanAssumption DEF Place
<1>2. IsPrefix(p, q) => Place(p) <= Place(q)
  BY TargetOrder, ScanAssumption DEF Place
<1> QED
  BY <1>1, <1>2

\* The sorted list of what lies in one input path has each path once, in the
\* order of the names.
LEMMA SortedIs ==
  ASSUME NEW S, S \subseteq Path, \A p, q \in S : p[1] = q[1]
  PROVE  /\ Sorted(S) \in Seq(Path) /\ Range(Sorted(S)) = S
         /\ \A i, j \in DOMAIN Sorted(S) : i < j => Place(Sorted(S)[i]) < Place(Sorted(S)[j])
<1> DEFINE UpTo(p) == {q \in S : Place(q) <= Place(p)}
           pos == [p \in S |-> Cardinality(UpTo(p))]
<1>1. IsFiniteSet(S)
  BY ScanAssumption, FS_Subset
<1>2. PICK n \in Nat : n = Cardinality(S)
  BY <1>1, FS_CardinalityType
<1>3. \A p \in S : Place(p) \in Nat
  BY ScanAssumption DEF Place
<1>4. IsFiniteSet(1..n) /\ Cardinality(1..n) = n
  BY FS_Interval
<1>5. ASSUME NEW p \in S
      PROVE  IsFiniteSet(UpTo(p)) /\ Cardinality(UpTo(p)) \in 1..n
  <2>1. UpTo(p) \in SUBSET S /\ p \in UpTo(p)
    BY <1>3
  <2>2. IsFiniteSet(UpTo(p)) /\ Cardinality(UpTo(p)) <= n
    BY <1>1, <1>2, <2>1, FS_Subset
  <2>3. Cardinality(UpTo(p)) \in Nat /\ Cardinality(UpTo(p)) # 0
    BY <2>1, <2>2, FS_CardinalityType, FS_EmptySet
  <2> QED
    BY <2>2, <2>3
<1>6. pos \in [S -> 1..n] /\ \A p \in S : pos[p] = Cardinality(UpTo(p))
  BY <1>5
<1>7. ASSUME NEW p \in S, NEW q \in S, Place(p) < Place(q) PROVE pos[p] < pos[q]
  <2>1. UpTo(p) \in SUBSET UpTo(q)
    BY <1>3, <1>7
  <2>2. q \in UpTo(q) /\ q \notin UpTo(p)
    BY <1>3, <1>7
  <2>3. /\ Cardinality(UpTo(p)) <= Cardinality(UpTo(q))
        /\ Cardinality(UpTo(p)) # Cardinality(UpTo(q))
    <3>1. IsFiniteSet(UpTo(q))
      BY <1>5
    <3> HIDE DEF UpTo
    <3> QED
      BY <2>1, <2>2, <3>1, FS_Subset
  <2> QED
    BY <1>5, <1>6, <2>3
<1>8. ASSUME NEW p \in S, NEW q \in S, p # q PROVE pos[p] # pos[q]
  <2>1. pos[p] \in 1..n /\ pos[q] \in 1..n
    BY <1>6
  <2>2. Place(p) < Place(q) \/ Place(q) < Place(p)
    BY <1>8, PlacesDiffer
  <2> HIDE DEF pos
  <2>3. pos[p] < pos[q] \/ pos[q] < pos[p]
    BY <1>7, <2>2
  <2> QED
    BY <2>1, <2>3
<1>9. \A i \in 1..n : \E p \in S : pos[p] = i
  <2> HIDE DEF pos
  <2>1. pos \in Injection(S, 1..n)
    BY <1>6, <1>8 DEF Injection, IsInjective
  <2>2. pos \in Surjection(S, 1..n)
    BY <1>2, <1>4, <2>1, FS_Injection
  <2> QED
    BY <2>2 DEF Surjection
<1>10. \E list \in [1..n -> S] :
         \A i, j \in DOMAIN list : i < j => Place(list[i]) < Place(list[j])
  <2> DEFINE list == [i \in 1..n |-> CHOOSE p \in S : pos[p] = i]
  <2> HIDE DEF pos
  <2>1. \A i \in 1..n : list[i] \in S /\ pos[list[i]] = i
    BY <1>9
  <2>2. list \in [1..n -> S]
    BY <2>1
  <2>3. ASSUME NEW i \in 1..n, NEW j \in 1..n, i < j PROVE Place(list[i]) < Place(list[j])
    <3> HIDE DEF list
    <3>1. list[i] \in S /\ list[j] \in S /\ pos[list[i]] = i /\ pos[list[j]] = j
      BY <2>1
    <3>2. list[i] # list[j]
      BY <2>3, <3>1
    <3>3. ~ (Place(list[j]) < Place(list[i]))
      <4> SUFFICES ASSUME Place(list[j]) < Place(list[i]) PROVE FALSE
        OBVIOUS
      <4>1. j < i
        BY <1>7, <3>1
      <4> QED
        BY <2>3, <4>1
    <3> QED
      BY <3>1, <3>2, <3>3, PlacesDiffer
  <2> QED
    BY <2>2, <2>3
<1>11. /\ Sorted(S) \in [1..n -> S]
       /\ \A i, j \in 1..n : i < j => Place(Sorted(S)[i]) < Place(Sorted(S)[j])
  BY <1>2, <1>10 DEF Sorted, Place
<1>12. \A i, j \in 1..n : Sorted(S)[i] = Sorted(S)[j] => i = j
  <2> SUFFICES ASSUME NEW i \in 1..n, NEW j \in 1..n, Sorted(S)[i] = Sorted(S)[j], i # j
               PROVE  FALSE
    OBVIOUS
  <2>1. i < j \/ j < i
    OBVIOUS
  <2>2. Place(Sorted(S)[i]) \in Nat
    BY <1>3, <1>11
  <2> QED
    BY <1>11, <2>1, <2>2
<1>13. Range(Sorted(S)) = S
  <2>1. Sorted(S) \in Injection(1..n, S)
    BY <1>11, <1>12 DEF Injection, IsInjective
  <2>2. Sorted(S) \in Surjection(1..n, S)
    BY <1>1, <1>2, <1>4, <2>1, FS_Injection
  <2> QED
    BY <1>11, <2>2 DEF Surjection, Range
<1>14. Sorted(S) \in Seq(Path) /\ DOMAIN Sorted(S) = 1..n
  <2>1. Sorted(S) \in [1..n -> Path]
    BY <1>11
  <2> QED
    BY <2>1
<1> QED
  BY <1>11, <1>13, <1>14

\* Two lists joined hold what they held; nothing twice only if neither does and
\* they share nothing.
LEMMA JoinedRange ==
  ASSUME NEW S, NEW s \in Seq(S), NEW t \in Seq(S)
  PROVE  /\ s \o t \in Seq(S) /\ Range(s \o t) = Range(s) \cup Range(t)
         /\ IsInjective(s \o t) => IsInjective(s) /\ Range(s) \cap Range(t) = {}
<1>1. PICK j, m, n : j = s \o t /\ m = Len(s) /\ n = Len(t)
  OBVIOUS
<1>2. m \in Nat /\ n \in Nat /\ DOMAIN s = 1..m /\ DOMAIN t = 1..n
  BY <1>1
<1>3. /\ j \in Seq(S) /\ DOMAIN j = 1..(m + n)
      /\ \A i \in 1..m : j[i] = s[i]
      /\ \A i \in 1..n : j[m + i] = t[i]
  <2>1. j \in Seq(S) /\ Len(j) = m + n
    BY <1>1
  <2>2. \A i \in 1..(m + n) : j[i] = IF i <= m THEN s[i] ELSE t[i - m]
    BY <1>1
  <2>3. ASSUME NEW i \in 1..n PROVE j[m + i] = t[i]
    <3>1. m + i \in 1..(m + n) /\ ~(m + i <= m) /\ (m + i) - m = i
      BY <1>2
    <3> QED
      BY <2>2, <3>1
  <2>4. ASSUME NEW i \in 1..m PROVE j[i] = s[i]
    BY <1>2, <2>2
  <2> QED
    BY <2>1, <2>3, <2>4
<1>4. Range(j) = Range(s) \cup Range(t)
  <2>1. ASSUME NEW i \in 1..(m + n) PROVE j[i] \in Range(s) \cup Range(t)
    <3>1. CASE i <= m
      <4>1. i \in 1..m
        BY <1>2, <3>1
      <4> QED
        BY <1>2, <1>3, <4>1 DEF Range
    <3>2. CASE i > m
      <4>1. i - m \in 1..n /\ m + (i - m) = i
        BY <1>2, <3>2
      <4> QED
        BY <1>2, <1>3, <4>1 DEF Range
    <3> QED
      BY <1>2, <3>1, <3>2
  <2>2. ASSUME NEW i \in 1..m PROVE s[i] \in Range(j)
    <3>1. i \in 1..(m + n)
      BY <1>2
    <3> QED
      BY <1>3, <3>1 DEF Range
  <2>3. ASSUME NEW i \in 1..n PROVE t[i] \in Range(j)
    <3>1. m + i \in 1..(m + n)
      BY <1>2
    <3> QED
      BY <1>3, <3>1 DEF Range
  <2> QED
    BY <1>2, <1>3, <2>1, <2>2, <2>3 DEF Range
<1>5. ASSUME IsInjective(j) PROVE IsInjective(s) /\ Range(s) \cap Range(t) = {}
  <2>1. ASSUME NEW a \in 1..m, NEW b \in 1..m, s[a] = s[b] PROVE a = b
    <3>1. a \in 1..(m + n) /\ b \in 1..(m + n) /\ j[a] = j[b]
      BY <1>2, <1>3, <2>1
    <3> QED
      BY <1>3, <1>5, <3>1 DEF IsInjective
  <2>2. ASSUME NEW a \in 1..m, NEW b \in 1..n, s[a] = t[b] PROVE FALSE
    <3>1. a \in 1..(m + n) /\ m + b \in 1..(m + n) /\ a # m + b
      BY <1>2
    <3>2. j[a] = j[m + b]
      BY <1>3, <2>2
    <3> QED
      BY <1>3, <1>5, <3>1, <3>2 DEF IsInjective
  <2> QED
    BY <1>2, <2>1, <2>2 DEF IsInjective, Range
<1> QED
  BY <1>1, <1>3, <1>4, <1>5

-----------------------------------------------------------------------------
(* The scan. *)

\* What the current walk looks for, and which inputs the two walks are through.
Wanted == IF walk = "files" THEN "file" ELSE "directory"
FilesDone(i)       == i < index \/ (i = index /\ walk = "directories")
DirectoriesDone(i) == i < index

\* The tree is one; what was changed includes what is inside.
TreeInv ==
  /\ tree \in Trees /\ changes \subseteq Path
  /\ \A p \in changes : Inside(p) \subseteq changes

\* Where the scan is.
PlaceInv ==
  /\ inputs \in Seq(Word) /\ index \in Nat \ {0} /\ opened \in BOOLEAN
  /\ walk \in {"idle", "files", "directories", "accepted", "failed"}
  /\ files \in Seq(Path) /\ directories \in Seq(Path)
  /\ opened => Scanning /\ Current \in Path
  /\ ~opened => todo = {} /\ found = {}
  /\ walk = "directories" => index <= Len(inputs)
  /\ walk = "accepted" => index > Len(inputs)
  /\ walk = "idle" => changes = {} /\ files = <<>> /\ directories = <<>> /\ index = 1
  /\ walk = "failed" => files = <<>> /\ directories = <<>>

\* What a walk has still to visit lies inside the input path, has the kind it was
\* listed with unless it was changed, and none of it lies inside the rest of it.
TodoInv ==
  \A e \in todo :
    /\ e \in Path \X (Kinds \ {"none"})
    /\ ~Root(e[1]) /\ e[1] \in Inside(Current)
    /\ e[1] \notin changes => tree[e[1]] = e[2]
    /\ \A d \in todo : IsPrefix(d[1], e[1]) => d = e

\* What a walk has found has the kind it looks for, unless it was changed.
FoundInv ==
  \A p \in found :
    /\ p \in Inside(Current)
    /\ p \notin changes => tree[p] = Wanted

\* What nobody touched lies where the walk has still to go, or it is no link and
\* was found if it is of the kind looked for.
CoverInv ==
  opened =>
    \A p \in Inside(Current) \ changes :
      \/ tree[p] = "none"
      \/ \E e \in todo : IsPrefix(e[1], p)
      \/ tree[p] # "link" /\ (tree[p] = Wanted => p \in found)

\* The walk for files finds none above another one or above what it visits.
FilesWalkInv ==
  walk = "files" =>
    \A p \in found :
      /\ \A q \in found : IsPrefix(p, q) => p = q
      /\ \A e \in todo : ~IsPrefix(p, e[1]) /\ ~IsPrefix(e[1], p)

\* The walk for directories finds all above what it has found or visits.
DirectoriesWalkInv ==
  walk = "directories" =>
    \A p \in found \cup {e[1] : e \in todo} : \A q \in Inside(Current) :
      IsStrictPrefix(q, p) => q \in found

\* What has been announced of the inputs the walks are through.
FilesInv ==
  walk # "failed" =>
    /\ \A i \in DOMAIN inputs : FilesDone(i) =>
         \A p \in Inside(<<inputs[i]>>) \ changes :
           tree[p] # "link" /\ (tree[p] = "file" => p \in Range(files))
    /\ \A p \in Range(files) \ changes : tree[p] = "file"
DirectoriesInv ==
  walk # "failed" =>
    /\ \A i \in DOMAIN inputs : DirectoriesDone(i) =>
         \A p \in Inside(<<inputs[i]>>) \ changes :
           tree[p] = "directory" => p \in Range(directories)
    /\ \A p \in Range(directories) \ changes : tree[p] = "directory"

\* Every directory is announced with those above it, and after them unless the
\* same one is announced twice.
ClosedInv ==
  /\ \A p \in Range(directories) :
       /\ <<p[1]>> \in Range(directories)
       /\ \A q \in Path : IsPrefix(q, p) => q \in Range(directories)
  /\ \A i, j \in DOMAIN directories :
       i < j /\ IsPrefix(directories[j], directories[i]) => ~IsInjective(directories)

\* An input path whose second walk is going on.
HalfDone(p) == walk = "directories" /\ Current = <<p[1]>> /\ tree[Current] = "directory"

\* A file inside an input path is announced with it, and none lies inside another
\* unless their input path is announced twice.
OwnedInv ==
  /\ \A p \in Range(files) : Root(p) \/ <<p[1]>> \in Range(directories) \/ HalfDone(p)
  /\ \A p, q \in Range(files) :
       IsStrictPrefix(q, p) =>
         \/ ~IsInjective(directories)
         \/ HalfDone(p) /\ Current \in Range(directories)

\* While the input paths themselves are left alone, a walk that finds or visits
\* anything below one walks a directory, and the walk for directories finds it.
OpenedInv ==
  /\ todo # {} => tree[Current] = "directory"
  /\ \A p \in found : Root(p) \/ tree[Current] = "directory"
  /\ walk = "directories" /\ opened /\ tree[Current] = "directory" => Current \in found

KeptInv == RootsKept => OpenedInv /\ OwnedInv

ScanInv ==
  /\ TreeInv /\ PlaceInv /\ TodoInv /\ FoundInv /\ CoverInv /\ FilesWalkInv
  /\ DirectoriesWalkInv /\ FilesInv /\ DirectoriesInv /\ ClosedInv /\ KeptInv

-----------------------------------------------------------------------------
(* Its steps. *)

\* The trees.
LEMMA TreeIs ==
  ASSUME NEW t \in Trees
  PROVE  /\ t \in [Path -> Kinds]
         /\ \A p, q \in Path : t[p] # "none" /\ IsPrefix(q, p) /\ q # p => t[q] = "directory"
BY DEF Trees, IsStrictPrefix

\* The entries of a directory lie next below it.
LEMMA ListedIs ==
  ASSUME TreeInv, NEW p \in Path, NEW e \in Listed(p)
  PROVE  /\ e \in Path \X (Kinds \ {"none"}) /\ e[2] = tree[e[1]]
         /\ ~Root(e[1]) /\ IsPrefix(p, e[1]) /\ e[1] # p
         /\ \A q \in Path : IsPrefix(q, e[1]) => q = e[1] \/ IsPrefix(q, p)
<1>1. PICK c \in Path : e = <<c, tree[c]>> /\ ~Root(c) /\ Front(c) = p /\ tree[c] # "none"
  BY DEF Listed
<1>2. tree[c] \in Kinds
  BY TreeIs DEF TreeInv
<1>3. IsStrictPrefix(p, c) /\ \A q \in Path : IsStrictPrefix(q, c) => IsPrefix(q, p)
  BY <1>1, FrontIs
<1> QED
  BY <1>1, <1>2, <1>3 DEF IsStrictPrefix

\* What lies inside an entry that is looked at: it is listed, or there is nothing,
\* or it is the entry itself.
LEMMA Covered ==
  ASSUME TreeInv, NEW p \in Path, NEW q \in Path \ changes, IsPrefix(p, q), p # q,
         tree[q] # "none", tree[p] = "directory"
  PROVE  \E e \in Listed(p) : IsPrefix(e[1], q)
<1>1. PICK c \in Path : ~Root(c) /\ Front(c) = p /\ IsPrefix(c, q)
  BY EntryTowards DEF IsStrictPrefix
<1>2. tree[c] # "none"
  <2>1. tree \in Trees
    BY DEF TreeInv
  <2> QED
    BY <1>1, <2>1, TreeIs
<1>3. <<c, tree[c]>> \in Listed(p)
  BY <1>1, <1>2 DEF Listed
<1> QED
  BY <1>1, <1>3

\* The walk takes an entry: its input path, or one it had listed.
Taking(p, kind) ==
  /\ Scanning /\ p \in Path /\ kind \in {"file", "directory"}
  /\ \/ opened /\ <<p, kind>> \in todo
     \/ ~opened /\ p = Current
  /\ kind = "directory" => tree[p] = "directory"
  /\ p \notin changes => tree[p] = kind
  /\ Takes(p, kind, IF kind = "directory" THEN Listed(p) ELSE {})

\* While it is scanned, the input path is one of those.
LEMMA CurrentKept ==
  ASSUME ScanInv, Scanning, RootsKept
  PROVE  Current \notin changes
<1>1. inputs \in Seq(Word) /\ index \in Nat \ {0} /\ index <= Len(inputs)
  BY DEF ScanInv, PlaceInv, Scanning
<1>2. index \in DOMAIN inputs
  BY <1>1
<1> QED
  BY <1>2 DEF RootsKept, Current

\* Where an entry that is taken lies.
LEMMA TakenLies ==
  ASSUME ScanInv, NEW p, NEW kind, Taking(p, kind)
  PROVE  /\ p \in Inside(Current) /\ Current \in Path /\ Root(Current)
         /\ RootsKept => /\ Root(p) \/ tree[Current] = "directory"
                         /\ p = Current => tree[Current] = kind
         /\ \A e \in todo : e # <<p, kind>> => ~IsPrefix(p, e[1]) /\ ~IsPrefix(e[1], p)
<1>1. CASE opened /\ <<p, kind>> \in todo
  <2>1. ~Root(p) /\ p \in Inside(Current) /\ Current \in Path
    BY <1>1 DEF ScanInv, TodoInv, PlaceInv
  <2>4. RootsKept => tree[Current] = "directory"
    BY <1>1 DEF ScanInv, KeptInv, OpenedInv
  <2>2. Root(Current)
    BY DEF Current, Root
  <2>3. \A e \in todo : (IsPrefix(e[1], p) => e = <<p, kind>>) /\ (IsPrefix(p, e[1]) => <<p, kind>> = e)
    BY <1>1 DEF ScanInv, TodoInv
  <2>5. p # Current
    BY <2>1, <2>2
  <2> QED
    BY <2>1, <2>2, <2>3, <2>4, <2>5
<1>2. CASE ~opened /\ p = Current
  <2>1. todo = {} /\ Root(Current) /\ Current \in Path
    BY <1>2 DEF ScanInv, PlaceInv, Current, Root, Taking
  <2>2. RootsKept => p \notin changes
    BY <1>2, CurrentKept DEF Taking
  <2>3. RootsKept => tree[p] = kind
    BY <2>2 DEF Taking
  <2> QED
    BY <1>2, <2>1, <2>3, PathOrder DEF Inside
<1> QED
  BY <1>1, <1>2 DEF Taking

\* What changes when an entry is taken.
LEMMA TakenIs ==
  ASSUME NEW p, NEW kind, Taking(p, kind)
  PROVE  /\ found' = IF Wanted = kind THEN found \cup {p} ELSE found
         /\ todo' = (todo \ {<<p, kind>>}) \cup (IF kind = "directory" THEN Listed(p) ELSE {})
         /\ opened' = TRUE /\ Current' = Current /\ Wanted' = Wanted
         /\ tree' = tree /\ changes' = changes /\ inputs' = inputs /\ index' = index
         /\ walk' = walk /\ files' = files /\ directories' = directories
<1>1. walk \in {"files", "directories"} /\ kind \in {"file", "directory"}
  BY DEF Taking, Scanning
<1>2. Wanted = kind <=> ((walk = "files") = (kind = "file"))
  BY <1>1 DEF Wanted
<1> QED
  BY <1>2 DEF Taking, Takes, Current, Wanted

LEMMA TakenTodo ==
  ASSUME ScanInv, NEW p, NEW kind, Taking(p, kind)
  PROVE  TodoInv'
<1> DEFINE new == IF kind = "directory" THEN Listed(p) ELSE {}
<1>1. p \in Path /\ p \in Inside(Current)
      /\ Current \in Path /\ TreeInv /\ IsPrefix(Current, p)
  BY TakenLies DEF Taking, ScanInv, Inside
<1>2. ASSUME NEW e \in new
      PROVE  /\ e \in Path \X (Kinds \ {"none"}) /\ e[2] = tree[e[1]]
             /\ ~Root(e[1]) /\ IsPrefix(p, e[1]) /\ e[1] # p
             /\ \A q \in Path : IsPrefix(q, e[1]) => q = e[1] \/ IsPrefix(q, p)
  <2>1. e \in Listed(p)
    OBVIOUS
  <2> HIDE DEF new
  <2> QED
    BY <1>1, <2>1, ListedIs
<1> HIDE DEF new
<1>3. ASSUME NEW e \in new
      PROVE  e[1] \in Inside(Current) /\ (e[1] \notin changes => tree[e[1]] = e[2])
  <2>1. e[1] \in Path /\ IsPrefix(p, e[1]) /\ e[2] = tree[e[1]]
    BY <1>2
  <2> QED
    BY <1>1, <2>1, PathOrder DEF Inside
<1>4. ASSUME NEW e \in todo, e # <<p, kind>>
      PROVE  e \in Path \X (Kinds \ {"none"}) /\ ~IsPrefix(p, e[1]) /\ ~IsPrefix(e[1], p)
  BY <1>4, TakenLies DEF ScanInv, TodoInv
<1>5. ASSUME NEW e \in new, NEW d \in new, IsPrefix(d[1], e[1]) PROVE d = e
  <2>1. d[1] \in Path /\ e[1] \in Path
    BY <1>2
  <2>2. d[1] = e[1] \/ IsPrefix(d[1], p)
    BY <1>2, <1>5, <2>1
  <2>3. ~IsPrefix(d[1], p)
    BY <1>1, <1>2, <2>1, PathOrder
  <2>4. d = <<d[1], d[2]>> /\ e = <<e[1], e[2]>> /\ d[2] = tree[d[1]] /\ e[2] = tree[e[1]]
    BY <1>2
  <2> QED
    BY <2>2, <2>3, <2>4
<1>6. ASSUME NEW e \in new, NEW d \in todo, d # <<p, kind>>
      PROVE  ~IsPrefix(d[1], e[1]) /\ ~IsPrefix(e[1], d[1])
  <2>1. d[1] \in Path /\ e[1] \in Path /\ ~IsPrefix(p, d[1]) /\ ~IsPrefix(d[1], p)
    BY <1>2, <1>4, <1>6
  <2>2. IsPrefix(p, e[1])
    BY <1>2
  <2>3. ~IsPrefix(e[1], d[1])
    BY <1>1, <2>1, <2>2, PathOrder
  <2>4. IsPrefix(d[1], e[1]) => d[1] = e[1]
    BY <1>2, <2>1
  <2> QED
    BY <2>1, <2>2, <2>3, <2>4
<1>7. /\ todo' = (todo \ {<<p, kind>>}) \cup new
      /\ Current' = Current /\ tree' = tree /\ changes' = changes
  BY TakenIs DEF new
<1>8. ASSUME NEW e \in todo'
      PROVE  /\ e \in Path \X (Kinds \ {"none"})
             /\ ~Root(e[1]) /\ e[1] \in Inside(Current)
             /\ e[1] \notin changes => tree[e[1]] = e[2]
  <2>1. CASE e \in new
    BY <1>2, <1>3, <2>1
  <2>2. CASE e \in todo
    BY <2>2 DEF ScanInv, TodoInv
  <2> QED
    BY <1>7, <2>1, <2>2
<1>9. ASSUME NEW e \in todo', NEW d \in todo', IsPrefix(d[1], e[1]) PROVE d = e
  <2>1. CASE e \in todo /\ d \in todo
    BY <1>9, <2>1 DEF ScanInv, TodoInv
  <2>2. CASE e \in new /\ d \in new
    BY <1>5, <1>9, <2>2
  <2>3. CASE e \in new /\ d \notin new
    BY <1>6, <1>7, <1>9, <2>3
  <2>4. CASE e \notin new /\ d \in new
    BY <1>6, <1>7, <1>9, <2>4
  <2> QED
    BY <1>7, <2>1, <2>2, <2>3, <2>4
<1> QED
  BY <1>7, <1>8, <1>9 DEF TodoInv

LEMMA TakenFound ==
  ASSUME ScanInv, NEW p, NEW kind, Taking(p, kind)
  PROVE  FoundInv'
<1>1. /\ found' \subseteq found \cup {p} /\ (p \in found' => p \in found \/ Wanted = kind)
      /\ Current' = Current /\ Wanted' = Wanted /\ tree' = tree /\ changes' = changes
  <2>1. found' = IF Wanted = kind THEN found \cup {p} ELSE found
    BY TakenIs
  <2>2. Current' = Current /\ Wanted' = Wanted /\ tree' = tree /\ changes' = changes
    BY TakenIs
  <2> QED
    BY <2>1, <2>2
<1>2. ASSUME NEW q \in found'
      PROVE  /\ q \in Inside(Current)
             /\ q \notin changes => tree[q] = Wanted
  <2>1. CASE q \in found
    BY <2>1 DEF ScanInv, FoundInv
  <2>2. CASE q = p /\ q \notin found
    BY <1>1, <2>2, TakenLies DEF Taking
  <2> QED
    BY <1>1, <2>1, <2>2
<1> QED
  BY <1>1, <1>2 DEF FoundInv

LEMMA TakenCover ==
  ASSUME ScanInv, NEW p, NEW kind, Taking(p, kind)
  PROVE  CoverInv'
<1> DEFINE new == IF kind = "directory" THEN Listed(p) ELSE {}
           Seen(q) == \/ tree[q] = "none"
                      \/ \E e \in new : IsPrefix(e[1], q)
                      \/ tree[q] # "link" /\ (tree[q] = Wanted => q \in found')
<1>1. p \in Path /\ p \in Inside(Current) /\ Current \in Path /\ TreeInv /\ tree \in Trees
      /\ kind \in {"file", "directory"} /\ (kind = "directory" => tree[p] = "directory")
      /\ (p \notin changes => tree[p] = kind)
  BY TakenLies DEF Taking, ScanInv, TreeInv
<1>2. /\ found \subseteq found' /\ (Wanted = kind => p \in found')
      /\ todo' = (todo \ {<<p, kind>>}) \cup new
      /\ Current' = Current /\ Wanted' = Wanted /\ tree' = tree /\ changes' = changes
  <2>1. found' = IF Wanted = kind THEN found \cup {p} ELSE found
    BY TakenIs
  <2>2. /\ todo' = (todo \ {<<p, kind>>}) \cup new
        /\ Current' = Current /\ Wanted' = Wanted /\ tree' = tree /\ changes' = changes
    BY TakenIs DEF new
  <2> HIDE DEF new
  <2> QED
    BY <2>1, <2>2
<1>3. ASSUME NEW q \in Inside(p) \ changes PROVE Seen(q)
  <2>1. q \in Path \ changes /\ IsPrefix(p, q)
    BY DEF Inside
  <2>2. p \notin changes
    BY <1>1, <2>1 DEF TreeInv, Inside
  <2>3. CASE q = p
    BY <1>1, <1>2, <2>2, <2>3
  <2>4. CASE q # p /\ tree[q] # "none"
    <3>1. tree[p] = "directory"
      BY <1>1, <2>1, <2>4, TreeIs
    <3>2. \E e \in Listed(p) : IsPrefix(e[1], q)
      BY <1>1, <2>1, <2>4, <3>1, Covered
    <3>3. kind = "directory"
      BY <1>1, <2>2, <3>1
    <3> QED
      BY <3>2, <3>3
  <2> QED
    BY <2>3, <2>4
<1>4. ASSUME NEW q \in Inside(Current) \ changes
      PROVE  \/ tree[q] = "none"
             \/ \E e \in todo' : IsPrefix(e[1], q)
             \/ tree[q] # "link" /\ (tree[q] = Wanted => q \in found')
  <2>1. CASE q \in Inside(p)
    BY <1>2, <1>3, <2>1
  <2>2. CASE q \notin Inside(p)
    <3>1. opened
      BY <2>2 DEF Taking
    <3>2. \/ tree[q] = "none"
          \/ \E e \in todo : IsPrefix(e[1], q)
          \/ tree[q] # "link" /\ (tree[q] = Wanted => q \in found)
      BY <3>1 DEF ScanInv, CoverInv
    <3>3. ASSUME NEW e \in todo, IsPrefix(e[1], q) PROVE e \in todo'
      <4>1. e # <<p, kind>>
        BY <1>1, <2>2, <3>3 DEF Inside
      <4> QED
        BY <1>2, <4>1
    <3> QED
      BY <1>2, <3>2, <3>3
  <2> QED
    BY <2>1, <2>2
<1> HIDE DEF new
<1> QED
  BY <1>2, <1>4 DEF CoverInv

LEMMA TakenFiles ==
  ASSUME ScanInv, NEW p, NEW kind, Taking(p, kind)
  PROVE  FilesWalkInv'
<1> SUFFICES ASSUME walk = "files"
             PROVE  \A f \in found' :
                      /\ \A g \in found' : IsPrefix(f, g) => f = g
                      /\ \A e \in todo' : ~IsPrefix(f, e[1]) /\ ~IsPrefix(e[1], f)
  BY TakenIs DEF FilesWalkInv
<1>1. /\ \A f, g \in found : IsPrefix(f, g) => f = g
      /\ \A f \in found : \A e \in todo : ~IsPrefix(f, e[1]) /\ ~IsPrefix(e[1], f)
  BY DEF ScanInv, FilesWalkInv
<1>2. p \in Path /\ found \subseteq Path /\ kind \in {"file", "directory"} /\ Wanted = "file" /\ TreeInv
  BY DEF Taking, ScanInv, FoundInv, Inside, Wanted
<1>3. \A f \in found : ~IsPrefix(f, p) /\ ~IsPrefix(p, f)
  <2>1. CASE opened /\ <<p, kind>> \in todo
    <3>1. <<p, kind>>[1] = p
      OBVIOUS
    <3> QED
      BY <1>1, <2>1, <3>1
  <2>2. CASE ~opened
    BY <2>2 DEF ScanInv, PlaceInv
  <2> QED
    BY <2>1, <2>2 DEF Taking
<1>4. CASE kind = "file"
  <2>1. found' = found \cup {p} /\ todo' = todo \ {<<p, kind>>}
    BY <1>2, <1>4, TakenIs
  <2>2. \A e \in todo' : ~IsPrefix(p, e[1]) /\ ~IsPrefix(e[1], p)
    BY <2>1, TakenLies
  <2> QED
    BY <1>1, <1>3, <2>1, <2>2
<1>5. CASE kind = "directory"
  <2>1. found' = found /\ todo' = (todo \ {<<p, kind>>}) \cup Listed(p)
    BY <1>2, <1>5, TakenIs
  <2>2. ASSUME NEW f \in found, NEW e \in Listed(p)
        PROVE  ~IsPrefix(f, e[1]) /\ ~IsPrefix(e[1], f)
    <3>1. f \in Path /\ e[1] \in Path /\ IsPrefix(p, e[1])
          /\ (IsPrefix(f, e[1]) => f = e[1] \/ IsPrefix(f, p))
      BY <1>2, ListedIs
    <3> QED
      BY <1>2, <1>3, <3>1, PathOrder
  <2> QED
    BY <1>1, <2>1, <2>2
<1> QED
  BY <1>2, <1>4, <1>5

LEMMA TakenDirectories ==
  ASSUME ScanInv, NEW p, NEW kind, Taking(p, kind)
  PROVE  DirectoriesWalkInv'
<1> SUFFICES ASSUME walk = "directories"
             PROVE  \A r \in found' \cup {e[1] : e \in todo'} : \A q \in Inside(Current) :
                      IsStrictPrefix(q, r) => q \in found'
  BY TakenIs DEF DirectoriesWalkInv
<1>1. /\ p \in Path /\ p \in Inside(Current) /\ Current \in Path /\ TreeInv /\ Wanted = "directory"
  BY TakenLies DEF Taking, ScanInv, Wanted
<1>2. /\ found \subseteq found' /\ (kind = "directory" => p \in found') /\ found' \subseteq found \cup {p}
      /\ todo' = (todo \ {<<p, kind>>}) \cup (IF kind = "directory" THEN Listed(p) ELSE {})
  <2>1. found' = IF Wanted = kind THEN found \cup {p} ELSE found
    BY TakenIs
  <2>2. todo' = (todo \ {<<p, kind>>}) \cup (IF kind = "directory" THEN Listed(p) ELSE {})
    BY TakenIs
  <2>3. /\ found \subseteq found' /\ (kind = "directory" => p \in found')
        /\ found' \subseteq found \cup {p}
    BY <1>1, <2>1
  <2> QED
    BY <2>2, <2>3
<1>4. ASSUME NEW q \in Inside(Current), IsStrictPrefix(q, p) PROVE q \in found'
  <2>1. CASE opened /\ <<p, kind>> \in todo
    <3>1. p \in {e[1] : e \in todo}
      <4>1. <<p, kind>>[1] = p
        OBVIOUS
      <4> QED
        BY <2>1, <4>1
    <3> QED
      BY <1>2, <1>4, <3>1 DEF ScanInv, DirectoriesWalkInv
  <2>2. CASE p = Current
    BY <1>1, <1>4, <2>2, PathOrder DEF Inside, IsStrictPrefix
  <2> QED
    BY <2>1, <2>2 DEF Taking
<1>5. ASSUME NEW r \in found' \cup {e[1] : e \in todo'}, NEW q \in Inside(Current), IsStrictPrefix(q, r)
      PROVE  q \in found'
  <2>1. CASE r \in found \cup {e[1] : e \in todo}
    BY <1>2, <1>5, <2>1 DEF ScanInv, DirectoriesWalkInv
  <2>2. CASE r = p
    BY <1>4, <1>5, <2>2
  <2>3. CASE kind = "directory" /\ \E e \in Listed(p) : r = e[1]
    <3>1. PICK e \in Listed(p) : r = e[1]
      BY <2>3
    <3>2. q \in Path /\ q # r /\ IsPrefix(q, r)
      BY <1>5 DEF Inside, IsStrictPrefix
    <3>3. IsPrefix(q, p)
      BY <1>1, <3>1, <3>2, ListedIs
    <3> QED
      BY <1>2, <1>4, <2>3, <3>3 DEF IsStrictPrefix
  <2> QED
    BY <1>2, <2>1, <2>2, <2>3
<1> QED
  BY <1>5

LEMMA TakenKept ==
  ASSUME ScanInv, NEW p, NEW kind, Taking(p, kind)
  PROVE  KeptInv'
<1>1. /\ found' = IF Wanted = kind THEN found \cup {p} ELSE found
      /\ todo' = (todo \ {<<p, kind>>}) \cup (IF kind = "directory" THEN Listed(p) ELSE {})
      /\ Current' = Current /\ tree' = tree /\ changes' = changes /\ inputs' = inputs
      /\ walk' = walk /\ files' = files /\ directories' = directories
  BY TakenIs
<1> SUFFICES ASSUME RootsKept PROVE OpenedInv' /\ OwnedInv'
  BY <1>1 DEF KeptInv, RootsKept
<1>2. OpenedInv /\ OwnedInv
  BY DEF ScanInv, KeptInv
<1>3. /\ p \in Path /\ Current \in Path /\ IsPrefix(Current, p)
      /\ Root(p) \/ tree[Current] = "directory"
      /\ p = Current => tree[Current] = kind
  BY TakenLies DEF Inside
<1>4. Root(p) => p = Current
  BY <1>3, PathOrder
<1>5. todo' # {} => tree[Current] = "directory"
  BY <1>1, <1>2, <1>3, <1>4 DEF OpenedInv
<1>6. \A q \in found' : Root(q) \/ tree[Current] = "directory"
  BY <1>1, <1>2, <1>3 DEF OpenedInv
<1>7. walk = "directories" /\ tree[Current] = "directory" => Current \in found'
  BY <1>1, <1>2, <1>3 DEF OpenedInv, Taking, Wanted
<1> QED
  BY <1>1, <1>2, <1>5, <1>6, <1>7 DEF OpenedInv, OwnedInv, HalfDone

\* Taking an entry keeps the invariant.
LEMMA TakenKeeps ==
  ASSUME ScanInv, NEW p, NEW kind, Taking(p, kind)
  PROVE  ScanInv'
<1>1. /\ opened' = TRUE /\ Current' = Current /\ inputs' = inputs /\ index' = index
      /\ tree' = tree /\ changes' = changes /\ walk' = walk
      /\ files' = files /\ directories' = directories
  BY TakenIs
<1>2. TreeInv' /\ FilesInv' /\ DirectoriesInv' /\ ClosedInv'
  BY <1>1 DEF ScanInv, TreeInv, FilesInv, DirectoriesInv, ClosedInv, FilesDone,
              DirectoriesDone
<1>3. PlaceInv'
  <2>1. Scanning /\ Current \in Path /\ Scanning' = Scanning
    BY <1>1, TakenLies DEF Taking, Scanning
  <2> QED
    BY <1>1, <2>1 DEF ScanInv, PlaceInv
<1> QED
  BY <1>2, <1>3, TakenTodo, TakenFound, TakenCover, TakenFiles, TakenDirectories,
     TakenKept DEF ScanInv

\* A walk that is over has found all there is to be announced.
LEMMA WalkIsOver ==
  ASSUME ScanInv, Scanning, opened, todo = {}
  PROVE  /\ Sorted(found) \in Seq(Path) /\ Range(Sorted(found)) = found
         /\ \A i, j \in DOMAIN Sorted(found) :
              i < j => Place(Sorted(found)[i]) < Place(Sorted(found)[j])
         /\ found \subseteq Inside(Current) /\ Current \in Path /\ Root(Current)
         /\ \A p \in Inside(Current) : <<p[1]>> = Current
         /\ \A p \in Inside(Current) \ changes :
              tree[p] # "link" /\ (tree[p] = Wanted => p \in found)
         /\ \A p \in found : p \notin changes => tree[p] = Wanted
<1>1. Current \in Path /\ Root(Current)
  BY DEF ScanInv, PlaceInv, Current, Root
<1>2. \A p \in Inside(Current) : <<p[1]>> = Current
  BY <1>1, PathIs, PathOrder DEF Inside
<1>3. found \subseteq Inside(Current) /\ found \subseteq Path
  BY DEF ScanInv, FoundInv, Inside
<1>4. \A p, q \in found : p[1] = q[1]
  <2>1. \A p \in found : p[1] = Current[1]
    BY <1>1, <1>3, PathOrder DEF Inside
  <2> QED
    BY <2>1
<1>6. \A p \in Inside(Current) \ changes : tree[p] # "link" /\ (tree[p] = Wanted => p \in found)
  BY DEF ScanInv, CoverInv, Wanted
<1>7. \A p \in found : p \notin changes => tree[p] = Wanted
  BY DEF ScanInv, FoundInv
<1> QED
  BY <1>1, <1>2, <1>3, <1>4, <1>6, <1>7, SortedIs

\* What is behind the walks when one is over.
EndFiles ==
  /\ walk = "files" /\ walk' = "directories" /\ files' = files \o Sorted(found)
  /\ UNCHANGED <<directories, index>>
EndDirectories ==
  /\ walk = "directories" /\ walk' = "files"
  /\ directories' = directories \o Sorted(found) /\ index' = index + 1
  /\ UNCHANGED files
WalkEnds ==
  /\ Scanning /\ opened /\ todo = {} /\ opened' = FALSE /\ found' = {}
  /\ UNCHANGED <<tree, changes, inputs, todo>>

LEMMA EndWalkIs == EndWalk <=> WalkEnds /\ (EndFiles \/ EndDirectories)
BY DEF EndWalk, WalkEnds, EndFiles, EndDirectories

LEMMA FilesWalkEnds ==
  ASSUME ScanInv, WalkEnds, EndFiles
  PROVE  ScanInv'
<1> DEFINE sorted == Sorted(found)
<1>1. Scanning /\ opened /\ todo = {} /\ Wanted = "file"
  BY DEF WalkEnds, EndFiles, Wanted
<1>2. /\ sorted \in Seq(Path) /\ Range(sorted) = found
      /\ found \subseteq Inside(Current) /\ Current \in Path /\ Root(Current)
      /\ \A p \in Inside(Current) : <<p[1]>> = Current
      /\ \A p \in Inside(Current) \ changes :
           tree[p] # "link" /\ (tree[p] = "file" => p \in found)
      /\ \A p \in found : p \notin changes => tree[p] = "file"
  BY <1>1, WalkIsOver
<1>3. /\ opened' = FALSE /\ found' = {} /\ todo' = {} /\ walk' = "directories" /\ walk = "files"
      /\ tree' = tree /\ changes' = changes /\ inputs' = inputs /\ index' = index
      /\ directories' = directories /\ Current' = Current /\ files' = files \o sorted
  BY <1>1 DEF WalkEnds, EndFiles, Current
<1> HIDE DEF sorted
<1>4. files \in Seq(Path) /\ index <= Len(inputs) /\ index \in Nat \ {0} /\ inputs \in Seq(Word)
  BY <1>1 DEF ScanInv, PlaceInv, Scanning
<1>5. files' \in Seq(Path) /\ Range(files') = Range(files) \cup found
  BY <1>2, <1>3, <1>4, JoinedRange
<1>6. TreeInv' /\ ClosedInv'
  BY <1>3 DEF ScanInv, TreeInv, ClosedInv
<1>7. PlaceInv'
  BY <1>3, <1>4, <1>5 DEF ScanInv, PlaceInv
<1>8. TodoInv' /\ FoundInv' /\ CoverInv' /\ FilesWalkInv' /\ DirectoriesWalkInv'
  BY <1>3 DEF TodoInv, FoundInv, CoverInv, FilesWalkInv, DirectoriesWalkInv
<1>9. FilesInv'
  <2>1. ASSUME NEW i \in DOMAIN inputs, i < index \/ i = index,
               NEW p \in Inside(<<inputs[i]>>) \ changes
        PROVE  tree[p] # "link" /\ (tree[p] = "file" => p \in Range(files'))
    <3>1. CASE i < index
      BY <1>3, <1>5, <2>1, <3>1 DEF ScanInv, FilesInv, FilesDone
    <3>2. CASE i = index
      BY <1>2, <1>5, <2>1, <3>2 DEF Current
    <3> QED
      BY <2>1, <3>1, <3>2
  <2>2. \A p \in Range(files') \ changes : tree[p] = "file"
    BY <1>2, <1>3, <1>5 DEF ScanInv, FilesInv
  <2>3. \A i : FilesDone(i)' => i < index \/ i = index
    BY <1>3 DEF FilesDone
  <2> QED
    BY <1>3, <2>1, <2>2, <2>3 DEF FilesInv
<1>10. DirectoriesInv'
  BY <1>3 DEF ScanInv, DirectoriesInv, DirectoriesDone
<1>11. ASSUME RootsKept PROVE OwnedInv'
  <2>k. /\ OwnedInv /\ Current \notin changes
        /\ \A p \in found : Root(p) \/ tree[Current] = "directory"
    BY <1>1, <1>11, CurrentKept DEF ScanInv, KeptInv, OpenedInv
  <2>1. /\ \A p \in Range(files) : Root(p) \/ <<p[1]>> \in Range(directories)
        /\ \A p, q \in Range(files) : IsStrictPrefix(q, p) => ~IsInjective(directories)
    BY <1>3, <2>k DEF OwnedInv, HalfDone
  <2>2. \A p : HalfDone(p)' <=> Current = <<p[1]>> /\ tree[Current] = "directory"
    BY <1>3 DEF HalfDone
  <2>3. \A p \in found : Root(p) \/ HalfDone(p)'
    BY <1>2, <2>2, <2>k
  <2>4. found \subseteq Path /\ Range(files) \subseteq Path
    BY <1>2, <1>4, RangeOfSeq DEF Inside
  <2>5. \A p, q \in found : ~IsStrictPrefix(q, p)
    BY <1>3 DEF ScanInv, FilesWalkInv, IsStrictPrefix
  <2>6. ASSUME NEW p \in found, NEW q \in Range(files), p[1] = q[1], ~Root(p) \/ ~Root(q)
        PROVE  HalfDone(p)' /\ HalfDone(q)' /\ Current \in Range(directories)
    <3>1. Current = <<p[1]>> /\ Current = <<q[1]>>
      BY <1>2, <2>6
    <3>2. CASE Root(q)
      <4>1. q = Current
        BY <2>4, <3>1, <3>2, PathIs
      <4>2. tree[Current] = "file"
        BY <1>2, <1>3, <2>k, <4>1 DEF ScanInv, FilesInv
      <4> QED
        BY <1>2, <2>6, <2>k, <3>2, <4>2
    <3>3. CASE ~Root(q)
      <4>1. Current \in Range(directories)
        BY <2>1, <3>1, <3>3
      <4>2. tree[Current] = "directory"
        BY <1>2, <1>3, <2>k, <4>1 DEF ScanInv, DirectoriesInv
      <4> QED
        BY <2>2, <3>1, <4>1, <4>2
    <3> QED
      BY <3>2, <3>3
  <2>7. ASSUME NEW p \in Range(files'), NEW q \in Range(files'), IsStrictPrefix(q, p)
        PROVE  ~IsInjective(directories) \/ (HalfDone(p)' /\ Current \in Range(directories))
    <3>1. p \in Path /\ q \in Path /\ p[1] = q[1] /\ ~Root(p)
      BY <1>5, <2>4, <2>7, PathOrder DEF IsStrictPrefix
    <3>2. CASE p \in Range(files) /\ q \in Range(files)
      BY <2>1, <2>7, <3>2
    <3>3. CASE p \in found /\ q \in found
      BY <2>5, <2>7, <3>3
    <3>4. CASE p \in found /\ q \in Range(files)
      BY <2>6, <3>1, <3>4
    <3>5. CASE p \in Range(files) /\ q \in found
      BY <2>6, <3>1, <3>5
    <3> QED
      BY <1>5, <3>2, <3>3, <3>4, <3>5
  <2>8. \A p \in Range(files') : Root(p) \/ <<p[1]>> \in Range(directories) \/ HalfDone(p)'
    BY <1>5, <2>1, <2>3
  <2> QED
    BY <1>3, <2>7, <2>8 DEF OwnedInv
<1>12. KeptInv'
  BY <1>3, <1>11 DEF KeptInv, RootsKept, OpenedInv
<1> QED
  BY <1>6, <1>7, <1>8, <1>9, <1>10, <1>12 DEF ScanInv

LEMMA DirectoriesWalkEnds ==
  ASSUME ScanInv, WalkEnds, EndDirectories
  PROVE  ScanInv'
<1> DEFINE sorted == Sorted(found)
<1>1. Scanning /\ opened /\ todo = {} /\ Wanted = "directory"
  BY DEF WalkEnds, EndDirectories, Wanted
<1>2. /\ sorted \in Seq(Path) /\ Range(sorted) = found
      /\ \A i, j \in DOMAIN sorted : i < j => Place(sorted[i]) < Place(sorted[j])
      /\ found \subseteq Inside(Current) /\ Current \in Path /\ Root(Current)
      /\ \A p \in Inside(Current) : <<p[1]>> = Current
      /\ \A p \in Inside(Current) \ changes :
           tree[p] # "link" /\ (tree[p] = "directory" => p \in found)
      /\ \A p \in found : p \notin changes => tree[p] = "directory"
  BY <1>1, WalkIsOver
<1>3. /\ opened' = FALSE /\ found' = {} /\ todo' = {} /\ walk' = "files" /\ walk = "directories"
      /\ tree' = tree /\ changes' = changes /\ inputs' = inputs /\ index' = index + 1
      /\ files' = files /\ directories' = directories \o sorted
  BY <1>1 DEF WalkEnds, EndDirectories, Current
<1> HIDE DEF sorted
<1>4. directories \in Seq(Path) /\ index <= Len(inputs) /\ index \in Nat \ {0} /\ inputs \in Seq(Word)
  BY <1>1 DEF ScanInv, PlaceInv, Scanning
<1>5. /\ directories' \in Seq(Path) /\ Range(directories') = Range(directories) \cup found
      /\ IsInjective(directories') => IsInjective(directories) /\ Range(directories) \cap found = {}
  BY <1>2, <1>3, <1>4, JoinedRange
<1>6. TreeInv'
  BY <1>3 DEF ScanInv, TreeInv
<1>7. PlaceInv'
  <2>1. index + 1 \in Nat \ {0}
    BY <1>4
  <2>2. index' \in Nat \ {0} /\ inputs' \in Seq(Word) /\ files' \in Seq(Path)
    BY <1>3, <1>4, <2>1 DEF ScanInv, PlaceInv
  <2> QED
    BY <1>3, <1>5, <2>2 DEF PlaceInv
<1>8. TodoInv' /\ FoundInv' /\ CoverInv' /\ FilesWalkInv' /\ DirectoriesWalkInv'
  BY <1>3 DEF TodoInv, FoundInv, CoverInv, FilesWalkInv, DirectoriesWalkInv
<1>9. FilesInv'
  <2>1. \A i \in DOMAIN inputs : FilesDone(i)' => FilesDone(i)
    <3>1. DOMAIN inputs \subseteq Nat
      BY <1>4
    <3> QED
      BY <1>3, <1>4, <3>1 DEF FilesDone
  <2> QED
    BY <1>3, <2>1 DEF ScanInv, FilesInv
<1>10. DirectoriesInv'
  <2>1. ASSUME NEW i \in DOMAIN inputs, i < index \/ i = index,
               NEW p \in Inside(<<inputs[i]>>) \ changes, tree[p] = "directory"
        PROVE  p \in Range(directories')
    <3>1. CASE i < index
      BY <1>3, <1>5, <2>1, <3>1 DEF ScanInv, DirectoriesInv, DirectoriesDone
    <3>2. CASE i = index
      BY <1>2, <1>5, <2>1, <3>2 DEF Current
    <3> QED
      BY <2>1, <3>1, <3>2
  <2>2. \A p \in Range(directories') \ changes : tree[p] = "directory"
    BY <1>2, <1>3, <1>5 DEF ScanInv, DirectoriesInv
  <2>3. \A i \in DOMAIN inputs : DirectoriesDone(i)' => i < index \/ i = index
    <3>1. DOMAIN inputs \subseteq Nat
      BY <1>4
    <3> QED
      BY <1>3, <1>4, <3>1 DEF DirectoriesDone
  <2> QED
    BY <1>3, <2>1, <2>2, <2>3 DEF DirectoriesInv
<1>11. found # {} => Current \in found
  <2>1. ASSUME NEW p \in found, p # Current PROVE Current \in found
    <3>1. p \in Path /\ IsPrefix(Current, p) /\ Current \in Inside(Current)
      BY <1>2, PathOrder DEF Inside
    <3> QED
      BY <1>3, <2>1, <3>1 DEF ScanInv, DirectoriesWalkInv, IsStrictPrefix
  <2> QED
    BY <2>1
<1>12. found \subseteq Path /\ Range(directories) \subseteq Path
  BY <1>2, <1>4, RangeOfSeq DEF Inside
<1>13. ASSUME NEW p \in found
       PROVE  /\ <<p[1]>> \in found
              /\ \A q \in Path : IsPrefix(q, p) => q \in found
  <2>1. <<p[1]>> = Current /\ p \in Path /\ IsPrefix(Current, p)
    BY <1>2 DEF Inside
  <2>2. <<p[1]>> \in found
    BY <1>11, <2>1
  <2>3. ASSUME NEW q \in Path, IsPrefix(q, p), q # p PROVE q \in found
    <3>1. q \in Inside(Current)
      BY <1>2, <2>1, <2>3, PathOrder DEF Inside
    <3> QED
      BY <1>3, <2>3, <3>1 DEF ScanInv, DirectoriesWalkInv, IsStrictPrefix
  <2> QED
    BY <2>2, <2>3
<1>14. ASSUME NEW p \in Range(directories)
       PROVE  /\ <<p[1]>> \in Range(directories)
              /\ \A q \in Path : IsPrefix(q, p) => q \in Range(directories)
  BY DEF ScanInv, ClosedInv
<1>15. ASSUME NEW i \in DOMAIN directories', NEW j \in DOMAIN directories', i < j,
              IsPrefix(directories'[j], directories'[i]), IsInjective(directories')
       PROVE  FALSE
  <2>1. PICK m, n : m = Len(directories) /\ n = Len(sorted)
    OBVIOUS
  <2>2. m \in Nat /\ n \in Nat /\ DOMAIN directories = 1..m /\ DOMAIN sorted = 1..n
    BY <1>2, <1>4, <2>1
  <2>3. /\ DOMAIN directories' = 1..(m + n)
        /\ \A k \in 1..(m + n) : directories'[k] = IF k <= m THEN directories[k] ELSE sorted[k - m]
    <3>1. directories \o sorted \in Seq(Path) /\ Len(directories \o sorted) = m + n
          /\ \A k \in 1..(m + n) : (directories \o sorted)[k] = IF k <= m THEN directories[k] ELSE sorted[k - m]
      BY <1>2, <1>4, <2>1, <2>2
    <3> QED
      BY <1>3, <2>2, <3>1
  <2>4. i \in 1..(m + n) /\ j \in 1..(m + n)
    BY <2>3
  <2>5. PICK p, q : p = directories'[i] /\ q = directories'[j]
    OBVIOUS
  <2>6. CASE j <= m
    <3>1. i \in 1..m /\ j \in 1..m
      BY <1>15, <2>2, <2>4, <2>6
    <3>2. p = directories[i] /\ q = directories[j]
      BY <2>2, <2>3, <2>4, <2>5, <3>1
    <3> QED
      BY <1>5, <1>15, <2>2, <2>5, <3>1, <3>2 DEF ScanInv, ClosedInv
  <2>7. CASE i > m
    <3>1. i - m \in 1..n /\ j - m \in 1..n /\ i - m < j - m /\ ~(i <= m) /\ ~(j <= m)
      BY <1>15, <2>2, <2>4, <2>7
    <3>2. p = sorted[i - m] /\ q = sorted[j - m]
      BY <2>3, <2>4, <2>5, <3>1
    <3>3. Place(p) < Place(q) /\ p \in found /\ q \in found
      BY <1>2, <2>2, <3>1, <3>2 DEF Range
    <3>4. p \in Path /\ q \in Path /\ p[1] = q[1]
      BY <1>12, <1>15, <2>5, <3>3, PathOrder
    <3>5. Place(p) \in Nat /\ Place(q) \in Nat
      BY <3>4, ScanAssumption DEF Place
    <3>6. p # q
      BY <3>3, <3>5
    <3>7. Place(q) < Place(p)
      BY <1>15, <2>5, <3>4, <3>6, PlacesDiffer
    <3> QED
      BY <3>3, <3>5, <3>7
  <2>8. CASE i <= m /\ ~(j <= m)
    <3>1. i \in 1..m /\ j - m \in 1..n
      BY <2>2, <2>4, <2>8
    <3>2. p = directories[i] /\ q = sorted[j - m]
      BY <2>3, <2>4, <2>5, <2>8
    <3>3. p \in Range(directories) /\ q \in found
      BY <1>2, <2>2, <3>1, <3>2 DEF Range
    <3>4. p \in Path /\ q \in Path /\ p[1] = q[1]
      BY <1>12, <1>15, <2>5, <3>3, PathOrder
    <3>5. <<q[1]>> \in found /\ <<p[1]>> \in Range(directories)
      BY <1>13, <1>14, <3>3
    <3> QED
      BY <1>5, <1>15, <3>4, <3>5
  <2> QED
    BY <1>15, <2>2, <2>4, <2>6, <2>7, <2>8
<1>16. ClosedInv'
  BY <1>5, <1>13, <1>14, <1>15 DEF ClosedInv
<1>17. ASSUME RootsKept PROVE OwnedInv'
  <2>k. OwnedInv /\ OpenedInv
    BY <1>17 DEF ScanInv, KeptInv
  <2>1. ASSUME NEW p, HalfDone(p) PROVE <<p[1]>> = Current /\ Current \in found
    BY <1>1, <1>3, <2>1, <2>k DEF HalfDone, OpenedInv
  <2>2. \A p \in Range(files) : Root(p) \/ <<p[1]>> \in Range(directories')
    BY <1>5, <2>1, <2>k DEF OwnedInv
  <2>3. ASSUME NEW p \in Range(files), NEW q \in Range(files), IsStrictPrefix(q, p)
        PROVE  ~IsInjective(directories')
    BY <1>5, <2>1, <2>3, <2>k DEF OwnedInv
  <2> QED
    BY <1>3, <2>2, <2>3 DEF OwnedInv
<1>18. KeptInv'
  BY <1>3, <1>8, <1>17 DEF KeptInv, RootsKept, OpenedInv, WalkEnds
<1> QED
  BY <1>6, <1>7, <1>8, <1>9, <1>10, <1>16, <1>18 DEF ScanInv

\* Another program changes the tree.
LEMMA ChangeKeeps ==
  ASSUME ScanInv, ChangeTree
  PROVE  ScanInv'
<1>1. PICK p \in Path, kind \in Kinds :
        /\ Root(p) => p[1] \in Range(inputs)
        /\ ~Root(p) /\ kind # "none" => tree[Front(p)] = "directory"
        /\ tree' = [q \in Path |-> IF q = p THEN kind
                                   ELSE IF q \in Inside(p) THEN "none" ELSE tree[q]]
        /\ changes' = changes \cup Inside(p)
  BY DEF ChangeTree
<1>2. /\ inputs' = inputs /\ index' = index /\ walk' = walk /\ opened' = opened /\ todo' = todo
      /\ found' = found /\ files' = files /\ directories' = directories
      /\ Current' = Current /\ Wanted' = Wanted /\ walk \in {"files", "directories"}
  BY DEF ChangeTree, Scanning, Current, Wanted
<1>3. tree \in Trees /\ changes \subseteq Path /\ p \in Inside(p)
  BY PathOrder DEF ScanInv, TreeInv, Inside
<1>4. \A q \in Path \ changes' : q \in Path \ changes /\ tree'[q] = tree[q]
  BY <1>1, <1>3
<1>5. ASSUME RootsKept'
      PROVE  RootsKept /\ \A q \in Path : Root(q) => tree'[q] = tree[q]
  <2>1. RootsKept
    BY <1>1, <1>2, <1>5 DEF RootsKept
  <2>2. ~Root(p)
    <3> SUFFICES ASSUME Root(p) PROVE FALSE
      OBVIOUS
    <3>1. PICK i \in DOMAIN inputs : p[1] = inputs[i]
      BY <1>1 DEF Range
    <3>2. p = <<inputs[i]>>
      BY <3>1, PathIs
    <3> QED
      BY <1>1, <1>2, <1>3, <1>5, <3>2 DEF RootsKept
  <2>3. ASSUME NEW q \in Path, Root(q) PROVE q \notin Inside(p)
    BY <2>2, <2>3, PathOrder DEF Inside
  <2> QED
    BY <1>1, <1>3, <2>1, <2>3
<1>6. tree' \in Trees
  <2>1. tree' \in [Path -> Kinds]
    <3>1. tree \in [Path -> Kinds] /\ "none" \in Kinds
      BY <1>3, TreeIs DEF Kinds
    <3> QED
      BY <1>1, <3>1
  <2>2. ASSUME NEW q \in Path, tree'[q] # "none", NEW r \in Path, IsStrictPrefix(r, q)
        PROVE  tree'[r] = "directory"
    <3>1. IsPrefix(r, q) /\ r # q
      BY <2>2 DEF IsStrictPrefix
    <3>2. CASE q = p
      <4>1. kind # "none" /\ ~Root(p)
        BY <1>1, <2>2, <3>1, <3>2, PathOrder
      <4>2. IsPrefix(r, Front(p)) /\ Front(p) \in Path
        BY <2>2, <3>2, <4>1, FrontIs
      <4>3. tree[r] = "directory"
        BY <1>1, <1>3, <4>1, <4>2, TreeIs
      <4>4. r \notin Inside(p)
        BY <3>1, <3>2, PathOrder DEF Inside
      <4> QED
        BY <1>1, <3>1, <3>2, <4>3, <4>4
    <3>3. CASE q # p
      <4>1. q \notin Inside(p) /\ tree[q] # "none"
        BY <1>1, <2>2, <3>3
      <4>2. tree[r] = "directory"
        BY <1>3, <3>1, <4>1, TreeIs
      <4>3. r \notin Inside(p)
        BY <3>1, <4>1, PathOrder DEF Inside
      <4> QED
        BY <1>1, <1>3, <4>2, <4>3
    <3> QED
      BY <3>2, <3>3
  <2> QED
    BY <2>1, <2>2 DEF Trees
<1>7. TreeInv'
  <2>1. ASSUME NEW q \in Inside(p) PROVE Inside(q) \subseteq Inside(p)
    BY <1>1, PathOrder DEF Inside
  <2>2. changes' \subseteq Path
    BY <1>1, <1>3 DEF Inside
  <2> QED
    BY <1>1, <1>6, <2>1, <2>2 DEF ScanInv, TreeInv
<1>8. Root(Current) /\ (opened => Current \in Path) /\ (~opened => todo = {} /\ found = {})
  BY DEF ScanInv, PlaceInv, Current, Root
<1>9. PlaceInv'
  BY <1>2 DEF ScanInv, PlaceInv, Scanning
<1>10. TodoInv'
  <2> SUFFICES ASSUME NEW e \in todo
               PROVE  /\ e \in Path \X (Kinds \ {"none"})
                      /\ ~Root(e[1]) /\ e[1] \in Inside(Current)
                      /\ e[1] \notin changes' => tree'[e[1]] = e[2]
                      /\ \A d \in todo : IsPrefix(d[1], e[1]) => d = e
    BY <1>2 DEF TodoInv
  <2>1. /\ e \in Path \X (Kinds \ {"none"})
        /\ ~Root(e[1]) /\ e[1] \in Inside(Current)
        /\ e[1] \notin changes => tree[e[1]] = e[2]
        /\ \A d \in todo : IsPrefix(d[1], e[1]) => d = e
    BY DEF ScanInv, TodoInv
  <2> QED
    BY <1>4, <2>1
<1>11. FoundInv'
  <2> SUFFICES ASSUME NEW q \in found
               PROVE  /\ q \in Inside(Current)
                      /\ q \notin changes' => tree'[q] = Wanted
    BY <1>2 DEF FoundInv
  <2> QED
    BY <1>4 DEF ScanInv, FoundInv, Inside
<1>12. CoverInv'
  <2>1. \A q \in Inside(Current) \ changes' : q \in Inside(Current) \ changes /\ tree'[q] = tree[q]
    BY <1>4 DEF Inside
  <2> QED
    BY <1>2, <2>1 DEF ScanInv, CoverInv
<1>13. FilesWalkInv' /\ DirectoriesWalkInv'
  BY <1>2 DEF ScanInv, FilesWalkInv, DirectoriesWalkInv
<1>14. Range(files) \subseteq Path /\ Range(directories) \subseteq Path
  BY RangeOfSeq DEF ScanInv, PlaceInv
<1>15. FilesInv'
  <2>1. \A q \in Path : q \notin changes' => q \notin changes /\ tree'[q] = tree[q]
    BY <1>4
  <2>2. \A i : FilesDone(i)' <=> FilesDone(i)
    BY <1>2 DEF FilesDone
  <2> QED
    BY <1>2, <1>14, <2>1, <2>2 DEF ScanInv, FilesInv, Inside
<1>16. DirectoriesInv'
  <2>1. \A q \in Path : q \notin changes' => q \notin changes /\ tree'[q] = tree[q]
    BY <1>4
  <2>2. \A i : DirectoriesDone(i)' <=> DirectoriesDone(i)
    BY <1>2 DEF DirectoriesDone
  <2> QED
    BY <1>2, <1>14, <2>1, <2>2 DEF ScanInv, DirectoriesInv, Inside
<1>17. ClosedInv'
  BY <1>2 DEF ScanInv, ClosedInv
<1>18. KeptInv'
  <2> SUFFICES ASSUME RootsKept' PROVE OpenedInv' /\ OwnedInv'
    BY DEF KeptInv
  <2>1. OpenedInv /\ OwnedInv /\ \A q \in Path : Root(q) => tree'[q] = tree[q]
    BY <1>5 DEF ScanInv, KeptInv
  <2>2. OpenedInv'
    <3>1. opened => tree'[Current] = tree[Current]
      BY <1>8, <2>1
    <3> QED
      BY <1>2, <1>8, <2>1, <3>1 DEF OpenedInv
  <2>3. ASSUME NEW q \in Range(files) PROVE HalfDone(q)' <=> HalfDone(q)
    <3>1. <<q[1]>> \in Path
      BY <1>14, PathIs
    <3> QED
      BY <1>2, <1>8, <2>1, <3>1 DEF HalfDone
  <2> QED
    BY <1>2, <2>1, <2>2, <2>3 DEF OwnedInv
<1> QED
  BY <1>7, <1>9, <1>10, <1>11, <1>12, <1>13, <1>15, <1>16, <1>17, <1>18 DEF ScanInv

\* An error ends the scan and leaves nothing announced.
LEMMA ThrowsKeeps ==
  ASSUME ScanInv, Throws
  PROVE  ScanInv'
<1>1. /\ walk' = "failed" /\ opened' = FALSE /\ todo' = {} /\ found' = {}
      /\ files' = <<>> /\ directories' = <<>>
      /\ tree' = tree /\ changes' = changes /\ inputs' = inputs /\ index' = index
  BY DEF Throws
<1>2. Range(<<>>) = {} /\ DOMAIN <<>> = {} /\ <<>> \in Seq(Path)
  BY DEF Range
<1>3. TreeInv' /\ PlaceInv' /\ TodoInv' /\ FoundInv' /\ CoverInv' /\ FilesWalkInv'
  BY <1>1, <1>2 DEF ScanInv, TreeInv, PlaceInv, TodoInv, FoundInv, CoverInv, FilesWalkInv
<1>4. DirectoriesWalkInv' /\ FilesInv' /\ DirectoriesInv' /\ ClosedInv' /\ KeptInv'
  BY <1>1, <1>2 DEF DirectoriesWalkInv, FilesInv, DirectoriesInv, ClosedInv, KeptInv,
                    OpenedInv, OwnedInv
<1> QED
  BY <1>3, <1>4 DEF ScanInv

\* SendService accepts what the scans found.
LEMMA AcceptKeeps ==
  ASSUME ScanInv, walk = "files", index > Len(inputs), walk' = "accepted",
         UNCHANGED <<tree, changes, inputs, index, opened, todo, found, files, directories>>
  PROVE  ScanInv'
<1>1. ~opened /\ todo = {} /\ found = {}
  <2>1. Len(inputs) \in Nat /\ index \in Nat
    BY DEF ScanInv, PlaceInv
  <2>2. ~(index <= Len(inputs))
    BY <2>1
  <2> QED
    BY <2>2 DEF ScanInv, PlaceInv, Scanning
<1>2. /\ tree' = tree /\ changes' = changes /\ inputs' = inputs /\ index' = index
      /\ opened' = opened /\ todo' = todo /\ found' = found
      /\ files' = files /\ directories' = directories
  OBVIOUS
<1>3. TreeInv' /\ PlaceInv' /\ TodoInv' /\ FoundInv' /\ CoverInv'
  BY <1>1, <1>2 DEF ScanInv, TreeInv, PlaceInv, TodoInv, FoundInv, CoverInv
<1>4. FilesWalkInv' /\ DirectoriesWalkInv' /\ ClosedInv'
  BY <1>2 DEF ScanInv, FilesWalkInv, DirectoriesWalkInv, ClosedInv
<1>5. (\A i : FilesDone(i)' <=> FilesDone(i)) /\ (\A i : DirectoriesDone(i)' <=> DirectoriesDone(i))
  BY <1>2 DEF FilesDone, DirectoriesDone
<1>6. FilesInv' /\ DirectoriesInv'
  BY <1>2, <1>5 DEF ScanInv, FilesInv, DirectoriesInv
<1>7. KeptInv'
  <2>1. \A p : ~HalfDone(p)
    BY DEF HalfDone
  <2>2. OpenedInv' /\ (OwnedInv => OwnedInv')
    BY <1>1, <1>2, <2>1 DEF OpenedInv, OwnedInv
  <2>3. RootsKept' <=> RootsKept
    BY <1>2 DEF RootsKept
  <2> QED
    BY <2>2, <2>3 DEF ScanInv, KeptInv
<1> QED
  BY <1>3, <1>4, <1>6, <1>7 DEF ScanInv

\* The scan begins with any tree.
LEMMA BeginKeeps ==
  ASSUME ScanInv, NEW list \in Seq(Word), BeginScan(list)
  PROVE  ScanInv'
<1>1. /\ walk = "idle" /\ walk' = "files" /\ inputs' = list /\ tree' \in Trees
      /\ changes' = changes /\ index' = index /\ opened' = opened /\ todo' = todo
      /\ found' = found /\ files' = files /\ directories' = directories
  BY DEF BeginScan
<1>2. changes = {} /\ files = <<>> /\ directories = <<>> /\ index = 1 /\ opened = FALSE
      /\ todo = {} /\ found = {}
  BY <1>1 DEF ScanInv, PlaceInv, Scanning
<1>3. Range(<<>>) = {} /\ DOMAIN <<>> = {} /\ <<>> \in Seq(Path)
  BY DEF Range
<1>4. TreeInv' /\ TodoInv' /\ FoundInv' /\ CoverInv' /\ FilesWalkInv'
  BY <1>1, <1>2, <1>3 DEF TreeInv, TodoInv, FoundInv, CoverInv, FilesWalkInv
<1>p. PlaceInv'
  <2>1. /\ inputs' \in Seq(Word) /\ files' \in Seq(Path) /\ directories' \in Seq(Path)
        /\ index' = 1 /\ opened' = FALSE /\ todo' = {} /\ found' = {} /\ walk' = "files"
    BY <1>1, <1>2, <1>3
  <2>2. index' \in Nat \ {0}
    BY <2>1
  <2>4. opened' \in BOOLEAN
    BY <2>1
  <2>3. /\ walk' \in {"idle", "files", "directories", "accepted", "failed"}
        /\ walk' # "idle" /\ walk' # "directories" /\ walk' # "accepted" /\ walk' # "failed"
    BY <2>1
  <2> QED
    BY <2>1, <2>2, <2>3, <2>4 DEF PlaceInv
<1>5. \A i \in DOMAIN list : ~FilesDone(i)' /\ ~DirectoriesDone(i)'
  <2>1. DOMAIN list \subseteq Nat \ {0}
    OBVIOUS
  <2>2. \A i \in DOMAIN list : ~(i < 1)
    BY <2>1
  <2> QED
    BY <1>1, <1>2, <2>2 DEF FilesDone, DirectoriesDone
<1>6. DirectoriesWalkInv' /\ FilesInv' /\ DirectoriesInv' /\ ClosedInv' /\ KeptInv'
  BY <1>1, <1>2, <1>3, <1>5 DEF DirectoriesWalkInv, FilesInv, DirectoriesInv, ClosedInv, KeptInv,
                    OpenedInv, OwnedInv
<1> QED
  BY <1>4, <1>p, <1>6 DEF ScanInv

LEMMA ScanBegins ==
  ASSUME ScanInit
  PROVE  ScanInv
<1>1. /\ tree = [p \in Path |-> "none"] /\ changes = {} /\ inputs = <<>> /\ index = 1
      /\ walk = "idle" /\ opened = FALSE /\ todo = {} /\ found = {}
      /\ files = <<>> /\ directories = <<>>
  BY DEF ScanInit
<1>2. /\ Range(<<>>) = {} /\ DOMAIN <<>> = {} /\ <<>> \in Seq(Path) /\ <<>> \in Seq(Word)
  BY DEF Range
<1>3. tree \in Trees
  <2>1. tree \in [Path -> Kinds] /\ \A p \in Path : tree[p] = "none"
    BY <1>1 DEF Kinds
  <2> QED
    BY <2>1 DEF Trees
<1>4. TreeInv /\ TodoInv /\ FoundInv /\ CoverInv /\ FilesWalkInv
  BY <1>1, <1>2, <1>3 DEF TreeInv, TodoInv, FoundInv, CoverInv, FilesWalkInv
<1>p. PlaceInv
  <2>1. inputs \in Seq(Word) /\ files \in Seq(Path) /\ directories \in Seq(Path)
    BY <1>1, <1>2
  <2>2. index \in Nat \ {0}
    BY <1>1
  <2>4. opened \in BOOLEAN
    BY <1>1
  <2>3. /\ walk \in {"idle", "files", "directories", "accepted", "failed"}
        /\ walk # "directories" /\ walk # "accepted" /\ walk # "failed"
    BY <1>1
  <2> QED
    BY <1>1, <2>1, <2>2, <2>3, <2>4 DEF PlaceInv
<1>5. DirectoriesWalkInv /\ FilesInv /\ DirectoriesInv /\ ClosedInv /\ KeptInv
  BY <1>1, <1>2 DEF DirectoriesWalkInv, FilesInv, DirectoriesInv, ClosedInv, KeptInv,
                    OpenedInv, OwnedInv
<1> QED
  BY <1>4, <1>p, <1>5 DEF ScanInv

\* Every step of the scan keeps the invariant.
LEMMA ScanKeeps ==
  ASSUME ScanInv, ScanStep \/ ChangeTree \/ UNCHANGED scanVars
  PROVE  ScanInv'
<1>1. CASE OpenInput
  <2>1. CASE Throws
    BY <2>1, ThrowsKeeps
  <2>2. ASSUME NEW kind \in {"file", "directory"}, KindOf(Current) = kind,
               Takes(Current, kind, IF kind = "directory" THEN Listed(Current) ELSE {})
        PROVE  ScanInv'
    <3>1. Current \in Path /\ tree[Current] = kind
      BY <2>2 DEF KindOf
    <3>2. Taking(Current, kind)
      BY <1>1, <2>2, <3>1 DEF OpenInput, Taking
    <3> QED
      BY <3>2, TakenKeeps
  <2>3. CASE KindOf(Current) = "file" /\ Takes(Current, "file", {})
    BY <2>2, <2>3
  <2>4. CASE KindOf(Current) = "directory" /\ Takes(Current, "directory", Listed(Current))
    BY <2>2, <2>4
  <2> QED
    BY <1>1, <2>1, <2>3, <2>4 DEF OpenInput
<1>2. CASE VisitNext
  <2>1. PICK e \in todo : Visit(e[1], e[2])
    BY <1>2 DEF VisitNext
  <2>2. PICK p, kind : p = e[1] /\ kind = e[2]
    OBVIOUS
  <2>3. /\ <<p, kind>> \in todo /\ p \in Path /\ (p \notin changes => tree[p] = kind)
        /\ Scanning /\ opened /\ Visit(p, kind)
    <3>1. e \in Path \X (Kinds \ {"none"}) /\ (e[1] \notin changes => tree[e[1]] = e[2])
      BY DEF ScanInv, TodoInv
    <3> QED
      BY <1>2, <2>1, <2>2, <3>1 DEF VisitNext
  <2>4. CASE Throws
    BY <2>4, ThrowsKeeps
  <2>5. CASE kind = "file" /\ Takes(p, kind, {})
    <3>1. Taking(p, kind)
      BY <2>3, <2>5 DEF Taking
    <3> QED
      BY <3>1, TakenKeeps
  <2>6. CASE kind = "directory" /\ tree[p] = "directory" /\ Takes(p, kind, Listed(p))
    <3>1. Taking(p, kind)
      BY <2>3, <2>6 DEF Taking
    <3> QED
      BY <3>1, TakenKeeps
  <2> QED
    BY <2>3, <2>4, <2>5, <2>6 DEF Visit
<1>3. CASE EndWalk
  BY <1>3, EndWalkIs, FilesWalkEnds, DirectoriesWalkEnds
<1>4. CASE Validate
  BY <1>4, AcceptKeeps, ThrowsKeeps DEF Validate
<1>5. CASE UNCHANGED scanVars
  <2>1. /\ tree' = tree /\ changes' = changes /\ inputs' = inputs /\ index' = index
        /\ walk' = walk /\ opened' = opened /\ todo' = todo /\ found' = found
        /\ files' = files /\ directories' = directories
    BY <1>5 DEF scanVars
  <2> QED
    BY <2>1 DEF ScanInv, TreeInv, PlaceInv, TodoInv, FoundInv, CoverInv, FilesWalkInv,
                DirectoriesWalkInv, FilesInv, DirectoriesInv, ClosedInv, KeptInv, RootsKept,
                OpenedInv, OwnedInv, Scanning, Current, Wanted, FilesDone, DirectoriesDone, HalfDone
<1> QED
  BY <1>1, <1>2, <1>3, <1>4, <1>5, ChangeKeeps DEF ScanStep

-----------------------------------------------------------------------------
(* What is announced. *)

\* Nothing is accepted with the same name announced twice.
AcceptedInv == walk = "accepted" => UniqueTargets

LEMMA UniqueKeeps ==
  ASSUME AcceptedInv, ScanStep \/ ChangeTree \/ UNCHANGED scanVars
  PROVE  AcceptedInv'
<1>1. CASE Validate
  <2> SUFFICES ASSUME walk' = "accepted" PROVE UniqueTargets'
    BY DEF AcceptedInv
  <2>1. UniqueTargets /\ files' = files /\ directories' = directories
    BY <1>1 DEF Validate, Throws
  <2> QED
    BY <2>1 DEF UniqueTargets, Announced, Names, Target
<1>2. CASE UNCHANGED scanVars
  BY <1>2 DEF AcceptedInv, UniqueTargets, Announced, Names, Target, scanVars
<1>3. CASE OpenInput \/ VisitNext \/ EndWalk \/ ChangeTree
  <2>1. walk' # "accepted"
    BY <1>3 DEF OpenInput, VisitNext, Visit, Takes, Throws, EndWalk, ChangeTree, Scanning
  <2> QED
    BY <2>1 DEF AcceptedInv
<1> QED
  BY <1>1, <1>2, <1>3 DEF ScanStep

LEMMA AnnouncedAsItIs ==
  ASSUME ScanInv
  PROVE  UntouchedIsAnnounced
<1> SUFFICES ASSUME walk = "accepted", NEW i \in DOMAIN inputs,
                    NEW p \in Inside(<<inputs[i]>>) \ changes
             PROVE  /\ tree[p] # "link"
                    /\ tree[p] = "file" <=> p \in Range(files)
                    /\ tree[p] = "directory" <=> p \in Range(directories)
  BY DEF UntouchedIsAnnounced
<1>1. i < index
  <2>1. inputs \in Seq(Word) /\ index \in Nat /\ index > Len(inputs)
    BY DEF ScanInv, PlaceInv
  <2> QED
    BY <2>1
<1>2. tree[p] # "link" /\ (tree[p] = "file" => p \in Range(files))
  BY <1>1 DEF ScanInv, FilesInv, FilesDone
<1>3. tree[p] = "directory" => p \in Range(directories)
  BY <1>1 DEF ScanInv, DirectoriesInv, DirectoriesDone
<1>4. /\ p \in Range(files) => tree[p] = "file"
      /\ p \in Range(directories) => tree[p] = "directory"
  BY DEF ScanInv, FilesInv, DirectoriesInv
<1> QED
  BY <1>2, <1>3, <1>4

LEMMA AnnouncedCanBeMade ==
  ASSUME ScanInv, AcceptedInv
  PROVE  AnnouncementIsCreatable
<1> SUFFICES ASSUME walk = "accepted", RootsKept
             PROVE  \A i, j \in DOMAIN Announced :
                      /\ i < j => ~IsPrefix(Target(Announced[j]), Target(Announced[i]))
                      /\ i # j /\ i > Len(directories) =>
                           ~IsPrefix(Target(Announced[i]), Target(Announced[j]))
  BY DEF AnnouncementIsCreatable
<1>1. PICK a, m, n : a = Announced /\ m = Len(directories) /\ n = Len(files)
  OBVIOUS
<1>2. /\ directories \in Seq(Path) /\ files \in Seq(Path) /\ m \in Nat /\ n \in Nat
      /\ DOMAIN directories = 1..m /\ DOMAIN files = 1..n
  BY <1>1 DEF ScanInv, PlaceInv
<1>3. /\ a \in Seq(Path) /\ DOMAIN a = 1..(m + n)
      /\ \A i \in 1..(m + n) : a[i] = IF i <= m THEN directories[i] ELSE files[i - m]
  <2>1. /\ directories \o files \in Seq(Path) /\ Len(directories \o files) = m + n
        /\ \A i \in 1..(m + n) :
             (directories \o files)[i] = IF i <= m THEN directories[i] ELSE files[i - m]
    BY <1>1, <1>2
  <2> QED
    BY <1>1, <1>2, <2>1 DEF Announced
<1>4. \A i, j \in 1..(m + n) : Target(a[i]) = Target(a[j]) => i = j
  <2>1. IsInjective(Names(a))
    BY <1>1 DEF AcceptedInv, UniqueTargets
  <2>2. Names(a) = [i \in 1..(m + n) |-> Target(a[i])]
    BY <1>3 DEF Names
  <2> QED
    BY <2>1, <2>2 DEF IsInjective
<1>5. ASSUME NEW p \in Range(a), NEW q \in Range(a), Target(p) = Target(q) PROVE p = q
  BY <1>3, <1>4, <1>5 DEF Range
<1>6. /\ Range(a) = Range(directories) \cup Range(files) /\ Range(a) \subseteq Path
      /\ IsInjective(directories) /\ Range(directories) \cap Range(files) = {}
  <2>1. IsInjective(a)
    BY <1>3, <1>4 DEF IsInjective
  <2>2. /\ Range(directories \o files) = Range(directories) \cup Range(files)
        /\ IsInjective(directories \o files) =>
             IsInjective(directories) /\ Range(directories) \cap Range(files) = {}
    BY <1>2, JoinedRange
  <2>3. a = directories \o files
    BY <1>1 DEF Announced
  <2> QED
    BY <1>3, <2>1, <2>2, <2>3, RangeOfSeq
<1>7. /\ \A p \in Range(directories) : <<p[1]>> \in Range(directories)
      /\ \A p \in Range(directories) : \A q \in Path : IsPrefix(q, p) => q \in Range(directories)
      /\ \A p \in Range(files) : Root(p) \/ <<p[1]>> \in Range(directories)
      /\ \A p, q \in Range(files) : ~IsStrictPrefix(q, p)
      /\ \A i, j \in 1..m : i < j => ~IsPrefix(directories[j], directories[i])
  <2>1. \A p : ~HalfDone(p)
    BY DEF HalfDone
  <2> QED
    BY <1>2, <1>6, <2>1 DEF ScanInv, ClosedInv, KeptInv, OwnedInv
<1>8. ASSUME NEW p \in Range(a), NEW q \in Range(a), Target(q) # Target(p),
             IsPrefix(Target(q), Target(p))
      PROVE  IsStrictPrefix(q, p)
  <2>1. p \in Path /\ q \in Path
    BY <1>6
  <2>2. ~Root(p) /\ Target(<<q[1]>>) = Target(<<p[1]>>)
    BY <1>8, <2>1, TargetOrder
  <2>3. <<p[1]>> \in Range(directories)
    BY <1>6, <1>7, <2>2
  <2>4. <<q[1]>> \in Range(directories)
    <3>1. CASE q \in Range(files) /\ Root(q)
      <4>1. q = <<q[1]>>
        BY <2>1, <3>1, PathIs
      <4>2. q = <<p[1]>>
        BY <1>5, <1>6, <2>2, <2>3, <4>1
      <4> QED
        BY <1>6, <2>3, <3>1, <4>2
    <3> QED
      BY <1>6, <1>7, <3>1
  <2>5. <<q[1]>> = <<p[1]>>
    BY <1>5, <1>6, <2>2, <2>3, <2>4
  <2>6. q[1] = p[1]
    BY <2>5
  <2> QED
    BY <1>8, <2>1, <2>6, TargetOrder DEF IsStrictPrefix
<1>9. ASSUME NEW p \in Range(a), NEW q \in Range(files) PROVE ~IsStrictPrefix(q, p)
  BY <1>6, <1>7 DEF IsStrictPrefix
<1>10. ASSUME NEW i \in 1..(m + n) PROVE a[i] \in Range(a) /\ (i > m => a[i] \in Range(files))
  <2>1. ASSUME i > m PROVE a[i] \in Range(files)
    <3>1. i - m \in 1..n /\ ~(i <= m)
      BY <1>2, <2>1
    <3> QED
      BY <1>2, <1>3, <3>1 DEF Range
  <2> QED
    BY <1>3, <2>1 DEF Range
<1>11. ASSUME NEW i \in 1..(m + n), NEW j \in 1..(m + n), i < j,
              IsPrefix(Target(a[j]), Target(a[i]))
       PROVE  FALSE
  <2>1. Target(a[j]) # Target(a[i])
    BY <1>4, <1>11
  <2>2. IsStrictPrefix(a[j], a[i])
    BY <1>8, <1>10, <1>11, <2>1
  <2>3. CASE j > m
    BY <1>9, <1>10, <2>2, <2>3
  <2>4. CASE ~(j > m)
    <3>1. i \in 1..m /\ j \in 1..m /\ i <= m /\ j <= m
      BY <1>2, <1>11, <2>4
    <3>2. a[i] = directories[i] /\ a[j] = directories[j]
      BY <1>3, <3>1
    <3> QED
      BY <1>7, <1>11, <2>2, <3>1, <3>2 DEF IsStrictPrefix
  <2> QED
    BY <2>3, <2>4
<1>12. ASSUME NEW i \in 1..(m + n), NEW j \in 1..(m + n), i # j, i > m,
              IsPrefix(Target(a[i]), Target(a[j]))
       PROVE  FALSE
  <2>1. Target(a[i]) # Target(a[j])
    BY <1>4, <1>12
  <2>2. IsStrictPrefix(a[i], a[j])
    BY <1>8, <1>10, <1>12, <2>1
  <2> QED
    BY <1>9, <1>10, <1>12, <2>2
<1> QED
  BY <1>1, <1>3, <1>11, <1>12

-----------------------------------------------------------------------------
(* The process. *)

\* The arguments and the paths taken from them are words.
WordsInv == argv \in Seq(Word) /\ paths \in Seq(Word) /\ at \in Nat \ {0}

LEMMA WordsKeep ==
  ASSUME WordsInv, [CommandNext]_commandVars
  PROVE  WordsInv'
<1>1. argv \in Seq(Word) /\ paths \in Seq(Word) /\ at \in Nat \ {0} /\ <<>> \in Seq(Word)
  BY DEF WordsInv
<1>2. \A n : Exit(n) => WordsInv'
  BY <1>1 DEF Exit, WordsInv
<1>3. CASE Start
  <2>1. CASE argv' = argv /\ paths' = paths /\ at' = (IF Command = "config" THEN 3 ELSE 2)
    BY <1>1, <2>1 DEF WordsInv
  <2> QED
    BY <1>2, <1>3, <2>1 DEF Start
<1>4. CASE ParseArgument
  <2>1. /\ argv' = argv /\ at <= Len(argv)
        /\ \/ at' = at + 2 /\ paths' = paths
           \/ at' = at + 1 /\ paths' = Append(paths, argv[at])
    BY <1>4 DEF ParseArgument
  <2>2. argv[at] \in Word /\ at + 1 \in Nat \ {0} /\ at + 2 \in Nat \ {0}
    BY <1>1, <2>1
  <2>3. Append(paths, argv[at]) \in Seq(Word)
    BY <1>1, <2>2
  <2> QED
    BY <1>1, <2>1, <2>2, <2>3 DEF WordsInv
<1>5. CASE RefuseArguments \/ ServeEnds \/ SendEnds
  BY <1>2, <1>5 DEF RefuseArguments, ServeEnds, SendEnds
<1>6. CASE ConfigInit \/ ConfigShow
  BY <1>2, <1>6 DEF ConfigInit, ConfigShow
<1>7. CASE Log
  BY <1>1, <1>2, <1>7 DEF Log, WordsInv
<1>8. CASE Send
  BY <1>1, <1>8 DEF Send, WordsInv
<1>9. CASE EndParse \/ ServeStart \/ ServeBinds \/ Scan \/ WorkerFails \/ UNCHANGED commandVars
  BY <1>1, <1>9 DEF EndParse, ServeStart, ServeBinds, Scan, WorkerFails, mainVars, commandVars,
                    WordsInv
<1> QED
  BY <1>3, <1>4, <1>5, <1>6, <1>7, <1>8, <1>9 DEF CommandNext, MainStep, ArgumentStep, Idle

\* What the process does to the scan.
LEMMA ScanOfCommand ==
  ASSUME [CommandNext]_commandVars
  PROVE  BeginScan(paths) \/ ScanStep \/ ChangeTree \/ UNCHANGED scanVars
<1>1. CASE ArgumentStep \/ Log \/ ConfigInit \/ ConfigShow
  BY <1>1 DEF ArgumentStep, Start, ParseArgument, RefuseArguments, EndParse, Goes, Running, Log,
              ConfigInit, ConfigShow
<1>2. CASE ServeStart \/ ServeBinds \/ ServeEnds \/ WorkerFails \/ SendEnds
  BY <1>2 DEF ServeStart, ServeBinds, ServeEnds, Destroyed, WorkerFails, SendEnds
<1>3. CASE Send \/ Scan \/ UNCHANGED commandVars
  BY <1>3 DEF Send, Scan, commandVars
<1> QED
  BY <1>1, <1>2, <1>3 DEF CommandNext, MainStep, Idle

LEMMA CommandInvariant == CommandSpec => [](WordsInv /\ ScanInv /\ AcceptedInv)
<1>1. ASSUME CommandInit PROVE WordsInv /\ ScanInv /\ AcceptedInv
  <2>1. WordsInv
    BY <1>1, CommandAssumption DEF CommandInit, WordsInv
  <2>2. ScanInit
    BY <1>1 DEF CommandInit
  <2>3. AcceptedInv
    BY <2>2 DEF ScanInit, AcceptedInv
  <2> QED
    BY <2>1, <2>2, <2>3, ScanBegins
<1>2. ASSUME WordsInv, ScanInv, AcceptedInv, [CommandNext]_commandVars
      PROVE  WordsInv' /\ ScanInv' /\ AcceptedInv'
  <2>1. WordsInv'
    BY <1>2, WordsKeep
  <2>2. CASE BeginScan(paths)
    <3>1. ScanInv'
      BY <1>2, <2>2, BeginKeeps DEF WordsInv
    <3>2. AcceptedInv'
      BY <2>2 DEF BeginScan, AcceptedInv
    <3> QED
      BY <2>1, <3>1, <3>2
  <2>3. CASE ScanStep \/ ChangeTree \/ UNCHANGED scanVars
    BY <1>2, <2>1, <2>3, ScanKeeps, UniqueKeeps
  <2> QED
    BY <1>2, <2>2, <2>3, ScanOfCommand
<1> QED
  BY <1>1, <1>2, PTL DEF CommandSpec

\* However other programs change a tree while it is scanned, and however often:
\* what they leave alone is announced as what it is, and nothing that is not
\* there (FileScanner.cpp 22-103).
THEOREM ScanMissesNothing == CommandSpec => []UntouchedIsAnnounced
<1>1. CommandSpec => []ScanInv
  BY CommandInvariant, PTL
<1> QED
  BY <1>1, AnnouncedAsItIs, PTL

\* Whatever is scanned, from inputs that overlap, share a name or are given twice,
\* while the tree changes below them: what is accepted can be made in an empty directory in
\* the order it is announced (SendService.cpp 30-47, FileScanner.cpp 14-18).
THEOREM AnnouncedIsCreatable == CommandSpec => []AnnouncementIsCreatable
<1>1. CommandSpec => [](ScanInv /\ AcceptedInv)
  BY CommandInvariant, PTL
<1> QED
  BY <1>1, AnnouncedCanBeMade, PTL

-----------------------------------------------------------------------------
(* The arguments. *)

\* What S, the options among the arguments read so far, says of them.
NamesOption(arg) == arg = "--config" \/ arg \in DOMAIN OptionsOf[Command]
PathsAmong(S)    == {i \in 2..(at - 1) : i \notin S /\ i - 1 \notin S}
Setters(S, field) == {i \in S : Sets(i, field)}
ReadPaths(S) ==
  \E list \in [DOMAIN paths -> PathsAmong(S)] :
    /\ Range(list) = PathsAmong(S) /\ \A m, n \in DOMAIN paths : m < n => list[m] < list[n]
    /\ \A n \in DOMAIN paths : paths[n] = argv[list[n]]
ReadSettings(S) ==
  \A field \in DOMAIN options :
    \/ Setters(S, field) = {} /\ options[field] = Defaults(Command)[field]
    \/ \E last \in Setters(S, field) : /\ \A i \in Setters(S, field) : i <= last
                                       /\ options[field] \in ValuesAt(last, field)
ReadOptions(S) ==
  /\ S \subseteq 2..(at - 1) /\ at - 1 \notin S
  /\ \A i \in 2..(at - 1) :
       i \in S <=> i < Len(argv) /\ i - 1 \notin S /\ NamesOption(argv[i])

\* The parsers of serve and send have read the arguments before the next one.
ParsedInv ==
  /\ phase = "start" => paths = <<>>
  /\ phase = "parse" => Command \in {"serve", "send", "config"}
  /\ phase \in {"log", "serve", "send"} => at = Len(argv) + 1 /\ Command \in {"serve", "send"}
  /\ phase \in {"parse", "log", "serve", "send"} /\ Command \in {"serve", "send"} =>
       /\ at >= 2 /\ at <= Len(argv) + 1
       /\ options = [field \in DOMAIN options |-> options[field]]
       /\ \E S : ReadOptions(S) /\ ReadPaths(S) /\ ReadSettings(S)

LEMMA ParsedBegins ==
  ASSUME WordsInv, ParsedInv, Start
  PROVE  ParsedInv'
<1> paths = <<>>
  BY DEF ParsedInv, Start
<1>1. CASE phase' = "end"
  BY <1>1 DEF ParsedInv
<1>2. CASE phase' = "parse" /\ argv # <<>> /\ Command \in DOMAIN OptionsOf /\ argv' = argv /\ paths' = paths
           /\ at' = (IF Command = "config" THEN 3 ELSE 2) /\ options' = Defaults(Command)
  <2> SUFFICES ASSUME Command \in {"serve", "send"}
               PROVE  /\ at' >= 2 /\ at' <= Len(argv) + 1
                      /\ options' = [field \in DOMAIN options' |-> options'[field]]
                      /\ (ReadOptions({}) /\ ReadPaths({}) /\ ReadSettings({}))'
    BY <1>2 DEF ParsedInv, Command, OptionsOf
  <2>1. at' = 2 /\ Command' = Command /\ at' - 1 = 1
    BY <1>2 DEF Command
  <2>2. Len(argv) \in Nat \ {0}
    BY <1>2, EmptySeq DEF WordsInv
  <2>3. 2..(at' - 1) = {}
    BY <2>1
  <2>4. ReadOptions({})'
    BY <1>2, <2>1, <2>3 DEF ReadOptions
  <2>5. ReadPaths({})'
    <3>1. PathsAmong({})' = {}
      BY <2>3 DEF PathsAmong
    <3>2. DOMAIN paths' = {}
      BY <1>2
    <3>3. PICK none : none = [n \in {} |-> 0]
      OBVIOUS
    <3>4. none \in [{} -> {}] /\ Range(none) = {}
      BY <3>3 DEF Range
    <3> QED
      BY <3>1, <3>2, <3>4 DEF ReadPaths
  <2>6. ReadSettings({})'
    <3>1. \A field : Setters({}, field)' = {}
      BY DEF Setters
    <3> QED
      BY <1>2, <2>1, <3>1 DEF ReadSettings, Defaults
  <2>7. options' = [field \in DOMAIN options' |-> options'[field]]
    BY <1>2 DEF Defaults
  <2> QED
    BY <2>1, <2>2, <2>4, <2>5, <2>6, <2>7
<1> QED
  BY <1>1, <1>2 DEF Start, Exit, Goes

\* An option and its value are read.
LEMMA OptionIsRead ==
  ASSUME WordsInv, phase = "parse", Command \in {"serve", "send"}, at >= 2, at < Len(argv),
         NEW S, ReadOptions(S), ReadPaths(S), ReadSettings(S), NamesOption(argv[at]),
         options = [field \in DOMAIN options |-> options[field]],
         IF argv[at] = "--config" /\ Command # "config" THEN TakeConfig(argv[at + 1])
                                  ELSE TakeOption(argv[at], argv[at + 1]),
         at' = at + 2, paths' = paths, argv' = argv, configFiles' = configFiles
  PROVE  /\ options' = [field \in DOMAIN options' |-> options'[field]]
         /\ \E T : (ReadOptions(T) /\ ReadPaths(T) /\ ReadSettings(T))'
<1>1. PICK T : T = S \cup {at}
  OBVIOUS
<1>2. at \in Nat /\ at + 1 \in Nat /\ at + 2 \in Nat /\ at - 1 \in Nat /\ (at + 2) - 1 = at + 1
      /\ Len(argv) \in Nat /\ Command' = Command /\ S \subseteq 2..(at - 1) /\ at \notin S
  BY DEF WordsInv, ReadOptions, Command
<1>3. \A i \in 2..(at + 1) : i \in 2..(at - 1) \/ i = at \/ i = at + 1
  BY <1>2
<1>4. ReadOptions(T)'
  <2>1. T \subseteq 2..(at + 1) /\ at + 1 \notin T
    BY <1>1, <1>2
  <2>2. ASSUME NEW i \in 2..(at + 1)
        PROVE  i \in T <=> i < Len(argv) /\ i - 1 \notin T /\ NamesOption(argv[i])
    <3>1. CASE i \in 2..(at - 1)
      <4>1. i # at /\ i - 1 # at
        BY <1>2, <3>1
      <4> QED
        BY <1>1, <3>1, <4>1 DEF ReadOptions
    <3>2. CASE i = at
      BY <1>1, <1>2, <3>2 DEF ReadOptions
    <3>3. CASE i = at + 1
      <4>1. i - 1 = at
        BY <1>2, <3>3
      <4> QED
        BY <1>1, <2>1, <3>3, <4>1
    <3> QED
      BY <1>3, <3>1, <3>2, <3>3
  <2>3. \A arg : NamesOption(arg)' <=> NamesOption(arg)
    BY <1>2 DEF NamesOption
  <2> QED
    BY <1>2, <2>1, <2>2, <2>3 DEF ReadOptions
<1>5. ReadPaths(T)'
  <2>1. PathsAmong(T)' = {i \in 2..(at + 1) : i \notin T /\ i - 1 \notin T}
    BY <1>2 DEF PathsAmong
  <2>2. PathsAmong(T)' = PathsAmong(S)
    <3>1. ASSUME NEW i \in 2..(at - 1) PROVE i # at /\ i - 1 # at /\ i \in 2..(at + 1)
      BY <1>2
    <3>2. (at + 1) - 1 = at /\ at \in T /\ at - 1 \in Int
      BY <1>1, <1>2
    <3>3. ASSUME NEW i \in PathsAmong(T)' PROVE i \in PathsAmong(S)
      <4>1. i \in 2..(at + 1) /\ i \notin T /\ i - 1 \notin T
        BY <2>1
      <4>2. i \in 2..(at - 1)
        BY <1>3, <3>2, <4>1
      <4> QED
        BY <1>1, <4>1, <4>2 DEF PathsAmong
    <3>4. ASSUME NEW i \in PathsAmong(S) PROVE i \in PathsAmong(T)'
      BY <1>1, <2>1, <3>1 DEF PathsAmong
    <3> QED
      BY <3>3, <3>4
  <2> QED
    BY <2>2 DEF ReadPaths
<1>6. CASE argv[at] = "--config"
  <2>1. PICK config \in Configs(argv[at + 1]) :
          options' = [f \in DOMAIN options |->
                        IF f \in FromConfig[Command] THEN config[f] ELSE options[f]]
    BY <1>6 DEF TakeConfig
  <2>2. ASSUME NEW f \in DOMAIN options
        PROVE  \/ Setters(T, f) = {} /\ options'[f] = Defaults(Command)[f]
               \/ \E last \in Setters(T, f) : /\ \A i \in Setters(T, f) : i <= last
                                              /\ options'[f] \in ValuesAt(last, f)
    <3>1. CASE f \in FromConfig[Command]
      <4>1. at \in Setters(T, f) /\ \A i \in Setters(T, f) : i <= at
        BY <1>1, <1>2, <1>6, <3>1 DEF Setters, Sets
      <4>2. options'[f] \in ValuesAt(at, f)
        BY <1>6, <2>1, <3>1 DEF ValuesAt
      <4> QED
        BY <4>1, <4>2
    <3>2. CASE f \notin FromConfig[Command]
      <4>1. Setters(T, f) = Setters(S, f)
        BY <1>1, <1>6, <3>2 DEF Setters, Sets
      <4>2. options'[f] = options[f]
        BY <2>1, <3>2
      <4> QED
        BY <4>1, <4>2 DEF ReadSettings
    <3> QED
      BY <3>1, <3>2
  <2>3. /\ DOMAIN options' = DOMAIN options
        /\ \A f : Setters(T, f)' = Setters(T, f)
        /\ \A i, f : ValuesAt(i, f)' = ValuesAt(i, f)
        /\ Defaults(Command)' = Defaults(Command)
    BY <1>2, <2>1 DEF Setters, Sets, ValuesAt, Configs, Defaults
  <2>4. ReadSettings(T)'
    BY <2>2, <2>3 DEF ReadSettings
  <2>5. options' = [f \in DOMAIN options' |-> options'[f]]
    BY <2>1
  <2> QED
    BY <1>4, <1>5, <2>4, <2>5
<1>7. CASE argv[at] # "--config"
  <2>1. PICK set : set = OptionsOf[Command][argv[at]]
    OBVIOUS
  <2>2. options' = [options EXCEPT ![set] = argv[at + 1]]
    BY <1>7, <2>1 DEF TakeOption
  <2>3. /\ DOMAIN options' = DOMAIN options
        /\ \A f \in DOMAIN options : options'[f] = IF f = set THEN argv[at + 1] ELSE options[f]
        /\ options' = [f \in DOMAIN options' |-> options'[f]]
    BY <2>2
  <2>4. ASSUME NEW f \in DOMAIN options
        PROVE  \/ Setters(T, f) = {} /\ options'[f] = Defaults(Command)[f]
               \/ \E last \in Setters(T, f) : /\ \A i \in Setters(T, f) : i <= last
                                              /\ options'[f] \in ValuesAt(last, f)
    <3>1. CASE f = set
      <4>1. at \in Setters(T, f) /\ \A i \in Setters(T, f) : i <= at
        BY <1>1, <1>2, <1>7, <2>1, <3>1 DEF Setters, Sets
      <4>2. options'[f] \in ValuesAt(at, f)
        BY <1>7, <2>3, <3>1 DEF ValuesAt
      <4> QED
        BY <4>1, <4>2
    <3>2. CASE f # set
      <4>1. Setters(T, f) = Setters(S, f)
        BY <1>1, <1>7, <2>1, <3>2 DEF Setters, Sets
      <4>2. options'[f] = options[f]
        BY <2>3, <3>2
      <4> QED
        BY <4>1, <4>2 DEF ReadSettings
    <3> QED
      BY <3>1, <3>2
  <2>5. /\ \A f : Setters(T, f)' = Setters(T, f)
        /\ \A i, f : ValuesAt(i, f)' = ValuesAt(i, f)
        /\ Defaults(Command)' = Defaults(Command)
    BY <1>2 DEF Setters, Sets, ValuesAt, Configs, Defaults
  <2>6. ReadSettings(T)'
    BY <2>3, <2>4, <2>5 DEF ReadSettings
  <2> QED
    BY <1>4, <1>5, <2>3, <2>6
<1> QED
  BY <1>6, <1>7

\* A path is read.
LEMMA PathIsRead ==
  ASSUME WordsInv, phase = "parse", Command = "send", at >= 2, at <= Len(argv),
         NEW S, ReadOptions(S), ReadPaths(S), ReadSettings(S), argv[at] \notin Dashed,
         at' = at + 1, paths' = Append(paths, argv[at]), argv' = argv, options' = options,
         configFiles' = configFiles
  PROVE  (ReadOptions(S) /\ ReadPaths(S) /\ ReadSettings(S))'
<1>1. at \in Nat /\ at + 1 \in Nat /\ at - 1 \in Nat /\ (at + 1) - 1 = at
      /\ Len(argv) \in Nat /\ Command' = Command /\ S \subseteq 2..(at - 1) /\ at \notin S
      /\ at - 1 \notin S
  BY DEF WordsInv, ReadOptions, Command
<1>2. \A i \in 2..at : i \in 2..(at - 1) \/ i = at
  BY <1>1
<1>3. ~NamesOption(argv[at])
  BY CommandAssumption DEF NamesOption
<1>4. ReadOptions(S)'
  <2>1. S \subseteq 2..at
    BY <1>1
  <2>2. \A arg : NamesOption(arg)' <=> NamesOption(arg)
    BY <1>1 DEF NamesOption
  <2>3. \A i \in 2..at : i \in S <=> i < Len(argv) /\ i - 1 \notin S /\ NamesOption(argv[i])
    BY <1>1, <1>2, <1>3 DEF ReadOptions
  <2> QED
    BY <1>1, <2>1, <2>2, <2>3 DEF ReadOptions
<1>5. ReadPaths(S)'
  <2>1. PICK list \in [DOMAIN paths -> PathsAmong(S)] :
          /\ Range(list) = PathsAmong(S) /\ \A m, n \in DOMAIN paths : m < n => list[m] < list[n]
          /\ \A n \in DOMAIN paths : paths[n] = argv[list[n]]
    BY DEF ReadPaths
  <2>2. PICK k, more : k = Len(paths) /\ more = Append(paths, argv[at])
    OBVIOUS
  <2>3. k \in Nat /\ DOMAIN paths = 1..k /\ DOMAIN more = 1..(k + 1) /\ more[k + 1] = argv[at]
        /\ \A n \in 1..k : more[n] = paths[n]
    <3>1. paths \in Seq(Word) /\ argv[at] \in Word
      BY <1>1 DEF WordsInv
    <3> QED
      BY <2>2, <3>1
  <2>4. PathsAmong(S)' = PathsAmong(S) \cup {at} /\ \A i \in PathsAmong(S) : i \in Nat /\ i < at
    <3>1. PathsAmong(S)' = {i \in 2..at : i \notin S /\ i - 1 \notin S}
      BY <1>1 DEF PathsAmong
    <3>2. \A i \in 2..(at - 1) : i \in 2..at /\ i \in Nat /\ i < at
      BY <1>1
    <3>3. at \in 2..at
      BY <1>1
    <3> QED
      BY <1>1, <1>2, <3>1, <3>2, <3>3 DEF PathsAmong
  <2>5. PICK new : new = [n \in 1..(k + 1) |-> IF n = k + 1 THEN at ELSE list[n]]
    OBVIOUS
  <2>6. \A n \in 1..(k + 1) : n = k + 1 \/ n \in 1..k
    BY <2>3
  <2>7. new[k + 1] = at /\ \A n \in 1..k : new[n] = list[n] /\ list[n] \in PathsAmong(S)
    <3>1. k + 1 \in 1..(k + 1) /\ \A n \in 1..k : n \in 1..(k + 1) /\ n # k + 1
      BY <2>3
    <3> QED
      BY <2>1, <2>3, <2>5, <3>1
  <2>8. new \in [1..(k + 1) -> PathsAmong(S)']
    BY <2>4, <2>5, <2>6, <2>7
  <2>9. Range(new) = PathsAmong(S)'
    <3>1. ASSUME NEW i \in PathsAmong(S) PROVE \E n \in 1..(k + 1) : new[n] = i
      <4>1. PICK n \in 1..k : list[n] = i
        BY <2>1, <2>3 DEF Range
      <4>2. n \in 1..(k + 1)
        BY <2>3
      <4> QED
        BY <2>7, <4>1, <4>2
    <3>2. \E n \in 1..(k + 1) : new[n] = at
      <4>1. k + 1 \in 1..(k + 1)
        BY <2>3
      <4> QED
        BY <2>7, <4>1
    <3>3. Range(new) = {new[n] : n \in 1..(k + 1)}
      BY <2>5 DEF Range
    <3> QED
      BY <2>4, <2>8, <3>1, <3>2, <3>3
  <2>10. ASSUME NEW m \in 1..(k + 1), NEW n \in 1..(k + 1), m < n PROVE new[m] < new[n]
    <3>1. m \in 1..k
      BY <2>3, <2>10
    <3>2. CASE n = k + 1
      BY <2>4, <2>7, <3>1, <3>2
    <3>3. CASE n \in 1..k
      BY <2>1, <2>3, <2>7, <2>10, <3>1, <3>3
    <3> QED
      BY <2>6, <3>2, <3>3
  <2>11. \A n \in 1..(k + 1) : more[n] = argv[new[n]]
    BY <2>1, <2>3, <2>6, <2>7
  <2>12. paths' = more /\ argv' = argv
    BY <2>2
  <2>13. DOMAIN paths' = 1..(k + 1) /\ \A n \in 1..(k + 1) : paths'[n] = argv'[new[n]]
    BY ONLY <2>3, <2>11, <2>12
  <2>14. PICK P : P = PathsAmong(S)'
    OBVIOUS
  <2>15. /\ new \in [DOMAIN paths' -> P] /\ Range(new) = P
         /\ \A m, n \in DOMAIN paths' : m < n => new[m] < new[n]
         /\ \A n \in DOMAIN paths' : paths'[n] = argv'[new[n]]
    BY ONLY <2>8, <2>9, <2>10, <2>13, <2>14
  <2> QED
    BY ONLY <2>14, <2>15 DEF ReadPaths
<1>6. ReadSettings(S)'
  <2>1. /\ \A f : Setters(S, f)' = Setters(S, f)
        /\ \A i, f : ValuesAt(i, f)' = ValuesAt(i, f)
        /\ Defaults(Command)' = Defaults(Command) /\ options' = options
    BY <1>1 DEF Setters, Sets, ValuesAt, Configs, Defaults
  <2> QED
    BY <2>1 DEF ReadSettings
<1> QED
  BY <1>4, <1>5, <1>6

\* Every step leaves what has been read, or reads one argument more.
LEMMA ParsedKeeps ==
  ASSUME WordsInv, ParsedInv, [CommandNext]_commandVars
  PROVE  ParsedInv'
<1>1. \A n : Exit(n) => ParsedInv'
  BY DEF Exit, ParsedInv
<1>2. ASSUME argv' = argv, at' = at, options' = options, paths' = paths,
             configFiles' = configFiles,
             \/ phase' = phase
             \/ phase' \notin {"start", "parse", "log", "serve", "send"}
             \/ phase = "parse" /\ phase' = "log" /\ at = Len(argv) + 1 /\ Command # "config"
             \/ phase = "log" /\ phase' = Command
      PROVE  ParsedInv'
  <2>1. /\ \A S : ReadOptions(S)' = ReadOptions(S)
        /\ \A S : ReadPaths(S)' = ReadPaths(S)
        /\ \A S : ReadSettings(S)' = ReadSettings(S)
        /\ Command' = Command
    BY <1>2 DEF ReadOptions, ReadPaths, ReadSettings, NamesOption, PathsAmong, Setters, Sets,
                ValuesAt, Configs, Defaults, Command
  <2>2. Len(argv') = Len(argv)
    BY <1>2
  <2> QED
    BY <1>2, <2>1, <2>2 DEF ParsedInv
<1>3. CASE Start
  BY <1>3, ParsedBegins
<1>4. CASE ParseArgument
  <2>1. /\ phase = "parse" /\ phase' = "parse" /\ at <= Len(argv) /\ Command' = Command
        /\ argv' = argv /\ configFiles' = configFiles /\ at \in Nat /\ Len(argv) \in Nat
        /\ Command \in {"serve", "send", "config"}
    BY <1>4 DEF ParseArgument, Goes, WordsInv, ParsedInv, Command
  <2>2. CASE Command = "config"
    BY <2>1, <2>2 DEF ParsedInv
  <2>3. CASE Command \in {"serve", "send"}
    <3>1. PICK S : ReadOptions(S) /\ ReadPaths(S) /\ ReadSettings(S)
      BY <2>1, <2>3 DEF ParsedInv
    <3>2. at >= 2 /\ options = [field \in DOMAIN options |-> options[field]]
      BY <2>1, <2>3 DEF ParsedInv
    <3>3. CASE /\ Known(argv[at])
               /\ IF argv[at] = "--config" /\ Command # "config" THEN TakeConfig(argv[at + 1])
                                           ELSE TakeOption(argv[at], argv[at + 1])
               /\ at' = at + 2 /\ UNCHANGED paths
      <4>1. at < Len(argv) /\ NamesOption(argv[at])
        BY <3>3 DEF Known, NamesOption
      <4>2. /\ options' = [field \in DOMAIN options' |-> options'[field]]
            /\ \E T : (ReadOptions(T) /\ ReadPaths(T) /\ ReadSettings(T))'
        BY <2>1, <2>3, <3>1, <3>2, <3>3, <4>1, OptionIsRead
      <4>3. at' >= 2 /\ at' <= Len(argv') + 1
        BY <2>1, <3>2, <3>3, <4>1
      <4> QED
        BY <2>1, <4>2, <4>3 DEF ParsedInv
    <3>4. CASE /\ Command = "send" /\ argv[at] \notin Dashed
               /\ paths' = Append(paths, argv[at])
               /\ at' = at + 1 /\ UNCHANGED options
      <4>1. (ReadOptions(S) /\ ReadPaths(S) /\ ReadSettings(S))'
        BY <2>1, <3>1, <3>2, <3>4, PathIsRead
      <4>2. at' >= 2 /\ at' <= Len(argv') + 1
        BY <2>1, <3>2, <3>4
      <4>3. options' = [field \in DOMAIN options' |-> options'[field]]
        BY <3>2, <3>4
      <4> QED
        BY <2>1, <4>1, <4>2, <4>3 DEF ParsedInv
    <3> QED
      BY <1>4, <3>3, <3>4 DEF ParseArgument
  <2> QED
    BY <2>1, <2>2, <2>3
<1>5. CASE RefuseArguments \/ ServeEnds \/ SendEnds
  BY <1>1, <1>5 DEF RefuseArguments, ServeEnds, SendEnds
<1>6. CASE ConfigInit \/ ConfigShow
  BY <1>1, <1>6 DEF ConfigInit, ConfigShow
<1>7. CASE EndParse
  <2>1. CASE Command = "config"
    <3>1. argv[2] \in {"init", "show"}
      BY <1>7, <2>1 DEF EndParse, Incomplete
    <3> QED
      BY <1>2, <1>7, <2>1, <3>1 DEF EndParse, Goes
  <2>2. CASE Command # "config"
    <3>1. Command \in {"serve", "send"} /\ at > Len(argv) /\ at <= Len(argv) + 1
      BY <1>7, <2>2 DEF EndParse, ParsedInv
    <3>2. at = Len(argv) + 1
      BY <3>1 DEF WordsInv
    <3> QED
      BY <1>2, <1>7, <2>2, <3>2 DEF EndParse, Goes
  <2> QED
    BY <2>1, <2>2
<1>8. CASE Log
  BY <1>1, <1>2, <1>8 DEF Log, Goes
<1>9. CASE ServeBinds
  <2>1. phase' \in {"poll", "serve"} /\ phase = "serve"
    BY <1>9 DEF ServeBinds
  <2> QED
    BY <1>2, <1>9, <2>1 DEF ServeBinds
<1>10. CASE Send
  BY <1>10 DEF Send, ParsedInv
<1>11. CASE ServeStart \/ Scan \/ WorkerFails \/ UNCHANGED commandVars
  BY <1>2, <1>11 DEF ServeStart, Scan, WorkerFails, mainVars, commandVars
<1> QED
  BY <1>3, <1>4, <1>5, <1>6, <1>7, <1>8, <1>9, <1>10, <1>11
     DEF CommandNext, MainStep, ArgumentStep, Idle

\* When all the arguments have been read, they are done.
LEMMA ReadIsUsed == WordsInv /\ ParsedInv => ArgumentsAreObeyed
<1> SUFFICES ASSUME WordsInv, ParsedInv, phase \in {"serve", "send"} PROVE ArgumentsAreObeyed
  BY DEF ArgumentsAreObeyed
<1>1. at = Len(argv) + 1 /\ Len(argv) \in Nat /\ Command \in {"serve", "send"}
  BY DEF ParsedInv, WordsInv
<1>2. PICK S : ReadOptions(S) /\ ReadPaths(S) /\ ReadSettings(S)
  BY <1>1 DEF ParsedInv
<1>3. at - 1 = Len(argv)
  BY <1>1
<1>4. S \in SUBSET (2..Len(argv)) /\ AreOptions(S)
  BY <1>2, <1>3 DEF ReadOptions, AreOptions, NamesOption
<1>5. PathsAmong(S) = {i \in 2..Len(argv) : i \notin S /\ i - 1 \notin S}
  BY <1>3 DEF PathsAmong
<1>6. PathsAreTheOthers(S)
  BY <1>2, <1>5 DEF ReadPaths, PathsAreTheOthers
<1>7. ASSUME NEW field \in DOMAIN options
      PROVE  LET setters == {i \in S : Sets(i, field)}
             IN  \/ setters = {} /\ options[field] = Defaults(Command)[field]
                 \/ \E i \in setters :
                      /\ options[field] \in ValuesAt(i, field)
                      /\ \A j \in setters :
                           j > i => argv[i] # "--config" /\ argv[j] = "--config"
  <2>1. Setters(S, field) = {i \in S : Sets(i, field)}
    BY DEF Setters
  <2>2. CASE Setters(S, field) = {} /\ options[field] = Defaults(Command)[field]
    BY <2>1, <2>2
  <2>3. ASSUME NEW last \in Setters(S, field), \A i \in Setters(S, field) : i <= last,
               options[field] \in ValuesAt(last, field)
        PROVE  /\ options[field] \in ValuesAt(last, field)
               /\ \A j \in Setters(S, field) :
                    j > last => argv[last] # "--config" /\ argv[j] = "--config"
    <3>1. \A i \in Setters(S, field) : i \in Int
      BY <1>1, <1>4 DEF Setters
    <3> QED
      BY <2>3, <3>1
  <2> QED
    BY <1>2, <2>1, <2>2, <2>3 DEF ReadSettings
<1> QED
  BY <1>4, <1>6, <1>7 DEF ArgumentsAreObeyed

\* Whatever the arguments are, serve and send are given for each setting the value
\* of an argument that no later one undoes, and send the paths in their order
\* (main.cpp 90-164).
THEOREM ArgumentsAreRead == CommandSpec => []ArgumentsAreObeyed
<1>1. CommandInit => ParsedInv
  BY DEF CommandInit, ParsedInv
<1>2. CommandSpec => []WordsInv
  BY CommandInvariant, PTL
<1>3. CommandSpec => []ParsedInv
  BY <1>1, <1>2, ParsedKeeps, PTL DEF CommandSpec
<1> QED
  BY <1>2, <1>3, ReadIsUsed, PTL

-----------------------------------------------------------------------------
(* The configuration file. *)

LEMMA LeastOfFew ==
  ASSUME NEW S \in SUBSET (1..4), S # {}
  PROVE  Least(S) \in S
<1>1. \E n \in S : \A m \in S : n <= m
  <2>1. CASE 1 \in S
    BY <2>1
  <2>2. CASE 1 \notin S /\ 2 \in S
    BY <2>2
  <2>3. CASE 1 \notin S /\ 2 \notin S /\ 3 \in S
    BY <2>3
  <2>4. CASE 1 \notin S /\ 2 \notin S /\ 3 \notin S
    <3>1. S \subseteq {1, 2, 3, 4}
      OBVIOUS
    <3>2. S = {4}
      BY <2>4, <3>1
    <3> QED
      BY <3>2
  <2> QED
    BY <2>1, <2>2, <2>3, <2>4
<1> QED
  BY <1>1 DEF Least

\* The objects and their fields.
LEMMA ObjectsAre ==
  /\ DOMAIN Objects = {"server", "transfer", "log"}
  /\ Objects["server"] = <<"host", "port", "save_dir">>
  /\ Objects["transfer"] = <<"chunk_size", "enable_resume", "verify_sha256", "state_file">>
  /\ Objects["log"] = <<"level", "file">>
  /\ Order[1] = "server" /\ Order[2] = "transfer" /\ Order[3] = "log"
BY DEF Objects, Order

LEMMA SettingsAre ==
  /\ Settings = DOMAIN DefaultConfig
  /\ \A i \in 1..3 : /\ DOMAIN Objects[Order[i]] \in {1..3, 1..4, 1..2}
                     /\ \A n \in DOMAIN Objects[Order[i]] : Objects[Order[i]][n] \in Settings
<1>1. \A i \in 1..3 : i = 1 \/ i = 2 \/ i = 3
  OBVIOUS
<1>2. /\ DOMAIN Objects["server"] = 1..3
      /\ Objects["server"][1] = "host" /\ Objects["server"][2] = "port"
      /\ Objects["server"][3] = "save_dir"
  BY ObjectsAre
<1>3. /\ DOMAIN Objects["transfer"] = 1..4
      /\ Objects["transfer"][1] = "chunk_size" /\ Objects["transfer"][2] = "enable_resume"
      /\ Objects["transfer"][3] = "verify_sha256" /\ Objects["transfer"][4] = "state_file"
  BY ObjectsAre
<1>4. /\ DOMAIN Objects["log"] = 1..2
      /\ Objects["log"][1] = "level" /\ Objects["log"][2] = "file"
  BY ObjectsAre
<1>5. Settings = {Objects["server"][i] : i \in 1..3} \cup {Objects["transfer"][i] : i \in 1..4}
                 \cup {Objects["log"][i] : i \in 1..2}
  BY <1>2, <1>3, <1>4, ObjectsAre DEF Settings
<1>6. Settings = {"host", "port", "save_dir", "chunk_size", "enable_resume", "verify_sha256",
                  "state_file", "level", "file"}
  <2>1. {Objects["server"][i] : i \in 1..3} = {"host", "port", "save_dir"}
    BY <1>2
  <2>2. {Objects["transfer"][i] : i \in 1..4}
          = {"chunk_size", "enable_resume", "verify_sha256", "state_file"}
    BY <1>3
  <2>3. {Objects["log"][i] : i \in 1..2} = {"level", "file"}
    BY <1>4
  <2> QED
    BY <1>5, <2>1, <2>2, <2>3
<1>7. Settings = DOMAIN DefaultConfig
  BY <1>6 DEF DefaultConfig
<1>8. \A i \in 1..3 : DOMAIN Objects[Order[i]] \in {1..3, 1..4, 1..2}
  BY <1>1, <1>2, <1>3, <1>4, ObjectsAre
<1>9. \A i \in 1..3 : \A n \in DOMAIN Objects[Order[i]] : Objects[Order[i]][n] \in Settings
  BY <1>1, ObjectsAre DEF Settings
<1> QED
  BY <1>7, <1>8, <1>9

\* A text is the default text as far as it goes.
DefaultText == FormatConfig(DefaultConfig)
Begun(text) ==
  \A i \in DOMAIN text :
    /\ i \in 1..3 /\ text[i].name = Order[i]
    /\ text[i].closed => DOMAIN text[i].fields = DOMAIN DefaultText[i].fields
    /\ \A n \in DOMAIN text[i].fields : /\ n \in DOMAIN DefaultText[i].fields
                                        /\ text[i].fields[n] = DefaultText[i].fields[n]

LEMMA DefaultTextIs ==
  /\ DefaultText = [i \in 1..3 |-> DefaultText[i]]
  /\ \A i \in 1..3 :
       /\ DefaultText[i].name = Order[i] /\ DefaultText[i].closed
       /\ DOMAIN DefaultText[i] = {"name", "closed", "fields"}
       /\ DOMAIN DefaultText[i].fields = DOMAIN Objects[Order[i]]
       /\ DefaultText[i].fields = [n \in DOMAIN Objects[Order[i]] |-> DefaultText[i].fields[n]]
       /\ \A n \in DOMAIN Objects[Order[i]] :
            DefaultText[i].fields[n]
              = <<Objects[Order[i]][n], DefaultConfig[Objects[Order[i]][n]]>>
BY DEF DefaultText, FormatConfig

LEMMA BeginningsAreBegun ==
  ASSUME NEW text \in Beginnings(DefaultText)
  PROVE  Begun(text)
<1>1. PICK F : F = DefaultText
  OBVIOUS
<1>2. PICK E : E = {F[i] : i \in 1..3}
  OBVIOUS
<1>3. F \in Seq(E) /\ Len(F) = 3
  BY <1>1, <1>2, DefaultTextIs
<1>4. CASE text \in {SubSeq(F, 1, i) : i \in 0..Len(F)}
  <2>1. PICK k \in 0..3 : text = SubSeq(F, 1, k)
    BY <1>3, <1>4
  <2>2. DOMAIN text = 1..k /\ \A i \in 1..k : i \in 1..3 /\ text[i] = F[i]
    BY <1>3, <2>1
  <2> QED
    BY <1>1, <2>2, DefaultTextIs DEF Begun
<1>5. ASSUME NEW k \in 1..3, NEW m \in 0..Len(F[k].fields),
             text = Append(SubSeq(F, 1, k - 1),
                           [name |-> F[k].name, closed |-> FALSE, fields |-> SubSeq(F[k].fields, 1, m)])
      PROVE  Begun(text)
  <2>1. PICK torn : torn = [name |-> F[k].name, closed |-> FALSE, fields |-> SubSeq(F[k].fields, 1, m)]
    OBVIOUS
  <2>2. torn.name = Order[k] /\ torn.closed = FALSE /\ torn.fields = SubSeq(F[k].fields, 1, m)
    BY <1>1, <2>1, DefaultTextIs
  <2>3. PICK G : G = {F[k].fields[n] : n \in DOMAIN F[k].fields}
    OBVIOUS
  <2>4. F[k].fields \in Seq(G) /\ DOMAIN F[k].fields = 1..Len(F[k].fields)
    <3>1. PICK l \in {2, 3, 4} : DOMAIN F[k].fields = 1..l
      BY <1>1, SettingsAre, DefaultTextIs
    <3>2. F[k].fields = [n \in 1..l |-> F[k].fields[n]]
      BY <1>1, <3>1, DefaultTextIs
    <3>3. F[k].fields \in [1..l -> G]
      BY <2>3, <3>1, <3>2
    <3> QED
      BY <3>3
  <2>5. /\ DOMAIN torn.fields = 1..m
        /\ \A n \in 1..m : n \in DOMAIN F[k].fields /\ torn.fields[n] = F[k].fields[n]
    BY <2>2, <2>4
  <2>6. PICK front : front = SubSeq(F, 1, k - 1)
    OBVIOUS
  <2>7. front \in Seq(E) /\ Len(front) = k - 1 /\ \A i \in 1..(k - 1) : front[i] = F[i]
    BY <1>3, <2>6
  <2>8. /\ DOMAIN text = 1..k /\ text[k] = torn
        /\ \A i \in 1..(k - 1) : text[i] = F[i]
    BY <1>5, <2>1, <2>6, <2>7
  <2>9. \A i \in 1..k : i \in 1..3 /\ (i = k \/ i \in 1..(k - 1))
    OBVIOUS
  <2> QED
    BY <1>1, <2>2, <2>5, <2>8, <2>9, DefaultTextIs DEF Begun
<1>6. CASE \E k \in DOMAIN F : text \in {Append(SubSeq(F, 1, k - 1),
                     [name |-> F[k].name, closed |-> FALSE, fields |-> SubSeq(F[k].fields, 1, n)]) :
                       n \in 0..Len(F[k].fields)}
  <2>1. PICK k \in 1..3 : text \in {Append(SubSeq(F, 1, k - 1),
                     [name |-> F[k].name, closed |-> FALSE, fields |-> SubSeq(F[k].fields, 1, n)]) :
                       n \in 0..Len(F[k].fields)}
    BY <1>1, <1>6, DefaultTextIs
  <2> QED
    BY <1>5, <2>1
<1>7. Beginnings(F) = {SubSeq(F, 1, i) : i \in 0..Len(F)} \cup
        UNION {{Append(SubSeq(F, 1, k - 1),
                  [name |-> F[k].name, closed |-> FALSE, fields |-> SubSeq(F[k].fields, 1, n)]) :
                  n \in 0..Len(F[k].fields)} : k \in DOMAIN F}
  BY DEF Beginnings
<1>8. text \in Beginnings(F)
  BY <1>1
<1>9. CASE text \notin {SubSeq(F, 1, i) : i \in 0..Len(F)}
  <2>1. PICK some \in {{Append(SubSeq(F, 1, k - 1),
                  [name |-> F[k].name, closed |-> FALSE, fields |-> SubSeq(F[k].fields, 1, n)]) :
                  n \in 0..Len(F[k].fields)} : k \in DOMAIN F} : text \in some
    BY ONLY <1>7, <1>8, <1>9
  <2> QED
    BY ONLY <1>6, <2>1
<1> QED
  BY <1>4, <1>9

LEMMA NoDefaultIsBraced == \A f \in Settings : DefaultConfig[f] \notin Braced
BY SMT, ConfigAssumption

\* Every setting is found as the default has it, or not found.
LEMMA BegunIsDefault ==
  ASSUME NEW text, Begun(text), NEW setting \in Settings
  PROVE  Loaded(text, setting) = DefaultConfig[setting]
<1>1. ASSUME NEW i \in DOMAIN text, NEW n \in DOMAIN text[i].fields
      PROVE  /\ n \in DOMAIN Objects[Order[i]]
             /\ text[i].fields[n] = <<Objects[Order[i]][n], DefaultConfig[Objects[Order[i]][n]]>>
             /\ text[i].fields[n][2] \notin Braced
  <2>1. i \in 1..3 /\ n \in DOMAIN DefaultText[i].fields
        /\ text[i].fields[n] = DefaultText[i].fields[n]
    BY DEF Begun
  <2>2. n \in DOMAIN Objects[Order[i]]
    BY <2>1, DefaultTextIs
  <2>3. text[i].fields[n] = <<Objects[Order[i]][n], DefaultConfig[Objects[Order[i]][n]]>>
    BY <2>1, <2>2, DefaultTextIs
  <2>4. DefaultConfig[Objects[Order[i]][n]] \notin Braced
    BY <2>1, <2>2, SettingsAre, NoDefaultIsBraced
  <2> QED
    BY <2>2, <2>3, <2>4
<1>2. PICK name : name = ObjectOf(setting)
  OBVIOUS
<1>3. PICK closed : closed = {i \in DOMAIN text : text[i].name = name /\
                   (text[i].closed \/ \E n \in DOMAIN text[i].fields : text[i].fields[n][2] \in Braced)}
  OBVIOUS
<1>4. PICK object : object = ObjectText(text, name)
  OBVIOUS
<1>5. PICK hits : hits = {n \in DOMAIN object : object[n][1] = setting /\ Matches(setting, object[n][2])}
  OBVIOUS
<1>6. Loaded(text, setting) = IF hits = {} THEN DefaultConfig[setting] ELSE object[Least(hits)][2]
  BY <1>2, <1>4, <1>5 DEF Loaded
<1>7. CASE closed = {}
  <2>1. object = <<>>
    BY <1>3, <1>4, <1>7 DEF ObjectText
  <2>2. hits = {}
    BY <1>5, <2>1
  <2> QED
    BY <1>6, <2>2
<1>8. CASE closed # {}
  <2>1. closed \in SUBSET (1..4)
    BY <1>3 DEF Begun
  <2>2. PICK i : i = Least(closed)
    OBVIOUS
  <2>3. i \in DOMAIN text
    BY <1>3, <1>8, <2>1, <2>2, LeastOfFew
  <2>4. {n \in DOMAIN text[i].fields : text[i].fields[n][2] \in Braced} = {}
    BY <1>1, <2>3
  <2>5. object = text[i].fields
    BY <1>3, <1>4, <1>8, <2>2, <2>4 DEF ObjectText
  <2>6. ASSUME NEW n \in hits PROVE object[n][2] = DefaultConfig[setting]
    <3>1. object[n] = <<Objects[Order[i]][n], DefaultConfig[Objects[Order[i]][n]]>>
      BY <1>1, <1>5, <2>3, <2>5
    <3>2. Objects[Order[i]][n] = setting
      BY <1>5, <3>1
    <3> QED
      BY <3>1, <3>2
  <2>7. hits \in SUBSET (1..4)
    <3>1. \A n \in hits : n \in DOMAIN Objects[Order[i]]
      BY <1>1, <1>5, <2>3, <2>5
    <3>2. i \in 1..3
      BY <2>3 DEF Begun
    <3> QED
      BY <3>1, <3>2, SettingsAre
  <2>8. CASE hits = {}
    BY <1>6, <2>8
  <2>9. CASE hits # {}
    BY <1>6, <2>6, <2>7, <2>9, LeastOfFew
  <2> QED
    BY <2>8, <2>9
<1> QED
  BY <1>7, <1>8

LEMMA BegunConfigures ==
  ASSUME NEW text, Begun(text)
  PROVE  LoadConfig(text) = {DefaultConfig}
<1>1. PICK config : config = [setting \in Settings |-> Loaded(text, setting)]
  OBVIOUS
<1>2. config = [setting \in Settings |-> DefaultConfig[setting]]
  BY <1>1, BegunIsDefault
<1>3. DefaultConfig = [setting \in DOMAIN DefaultConfig |-> DefaultConfig[setting]]
  BY DEF DefaultConfig
<1>4. config = DefaultConfig
  BY <1>2, <1>3, SettingsAre
<1>5. DefaultConfig.port = "9090" /\ DefaultConfig.chunk_size = "1048576"
  BY DEF DefaultConfig
<1>6. NumberOf[config.port] = 9090 /\ NumberOf[config.chunk_size] = 1048576
  BY SMT, <1>4, <1>5, ConfigAssumption
<1>7. ~(NumberOf[config.port] > 65535 \/ NumberOf[config.chunk_size] = 0)
  BY SMT, <1>6
<1> QED
  BY SMT, <1>1, <1>4, <1>7 DEF LoadConfig

LEMMA FilesKeep ==
  ASSUME InitLeavesDefaults, [CommandNext]_commandVars
  PROVE  InitLeavesDefaults'
<1>1. CASE configFiles' = configFiles
  BY <1>1 DEF InitLeavesDefaults, Configs
<1>2. ASSUME NEW file, NEW text, Begun(text), configFiles' = Written(file, text)
      PROVE  InitLeavesDefaults'
  <2>1. /\ DOMAIN configFiles' = {file} \cup DOMAIN configFiles
        /\ configFiles'[file] = text
        /\ \A f \in DOMAIN configFiles : f # file => configFiles'[f] = configFiles[f]
    BY <1>2 DEF Written
  <2>2. LoadConfig(text) = {DefaultConfig}
    BY <1>2, BegunConfigures
  <2>3. Configs(file)' = {DefaultConfig}
    BY <2>1, <2>2 DEF Configs
  <2>4. \A f \in DOMAIN configFiles : f # file => Configs(f)' = Configs(f)
    BY <2>1 DEF Configs
  <2> QED
    BY <2>1, <2>3, <2>4 DEF InitLeavesDefaults
<1>3. CASE ConfigInit
  <2>1. Begun(DefaultText)
    BY DefaultTextIs DEF Begun
  <2>2. \A text \in Beginnings(FormatConfig(DefaultConfig)) : Begun(text)
    BY BeginningsAreBegun DEF DefaultText
  <2> QED
    BY <1>1, <1>2, <1>3, <2>1, <2>2 DEF ConfigInit, DefaultText
<1>4. CASE ~ConfigInit
  BY <1>1, <1>4
     DEF CommandNext, MainStep, ArgumentStep, Idle, Start, ParseArgument, RefuseArguments, EndParse,
         Log, ConfigShow, ServeStart, ServeBinds, ServeEnds, Destroyed, Send, SendEnds, Scan,
         WorkerFails, mainVars, commandVars
<1> QED
  BY <1>3, <1>4

\* However config init ends, and over whatever file it writes: what it leaves
\* configures the defaults, to its last byte or to any before it (AppConfig.cpp
\* 22-149).
THEOREM InterruptedInitIsHarmless == CommandSpec => []InitLeavesDefaults
<1>1. CommandInit => InitLeavesDefaults
  BY DEF CommandInit, InitLeavesDefaults
<1> QED
  BY <1>1, FilesKeep, PTL DEF CommandSpec

=============================================================================
