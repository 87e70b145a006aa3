---- MODULE RestoreProofs ----
(***************************************************************************)
(* Proofs about Restore: what a restore writes, and what it tells the user *)
(* of it, for every archive, every target that holds no symbolic link      *)
(* where the archive has a file or a directory (RestoreAssumption), and    *)
(* every subset of the archive, with a failure or a kill anywhere.         *)
(*                                                                         *)
(* The module goes from data to behaviour: flattened sequences and paths,  *)
(* a tree and what MkdirAll does to it, archives and the counting of their *)
(* items, what the decoder has consumed of one; then the invariant, one    *)
(* step of it per action, and the theorems.                                *)
(***************************************************************************)
EXTENDS Restore, SequenceTheorems, FiniteSetTheorems, WellFoundedInduction, TLAPS

-----------------------------------------------------------------------------
(* Least elements, and the beginnings of a flattened sequence of sequences. *)

LEMMA LeastExists ==
  ASSUME NEW S \in SUBSET Nat, S # {}
  PROVE  \E i \in S : \A j \in S : i <= j
<1>1. \E i \in S : \A j \in S : ~(<<j, i>> \in OpToRel(<, Nat))
  BY NatLessThanWellFounded, WFMin, Zenon
<1>2. PICK i \in S : \A j \in S : ~(<<j, i>> \in OpToRel(<, Nat))
  BY <1>1
<1>3. ASSUME NEW j \in S PROVE i <= j
  <2>1. <<j, i>> \in OpToRel(<, Nat) <=> j < i
    BY DEF OpToRel
  <2>2. ~(j < i)
    BY <1>2, <2>1, Zenon
  <2> QED
    BY <2>2
<1> QED
  BY <1>3

(* The function that FlattenSeq computes, for the first k of the sequences. *)
Body(ss, k, g) == [i \in 1 .. k |-> IF i = 1 THEN ss[i] ELSE g[i - 1] \o ss[i]]
Unrolled(ss, k, g) == g = Body(ss, k, g)
LEMMA Unroll ==
  ASSUME NEW ss, NEW k \in Nat, NEW g, Unrolled(ss, k, g)
  PROVE  \A i \in 1 .. k : g[i] = IF i = 1 THEN ss[i] ELSE g[i - 1] \o ss[i]
<1>1. ASSUME NEW i \in 1 .. k PROVE Body(ss, k, g)[i] = IF i = 1 THEN ss[i] ELSE g[i - 1] \o ss[i]
  BY DEF Body
<1> QED
  BY <1>1 DEF Unrolled

LEMMA Unrollable ==
  ASSUME NEW ss, NEW n \in Nat
  PROVE  \E g : Unrolled(ss, n, g)
<1> DEFINE Bad == {k \in Nat : ~\E g : Unrolled(ss, k, g)}
<1>1. SUFFICES ASSUME Bad # {} PROVE FALSE
  OBVIOUS
<1>2. PICK k \in Bad : \A j \in Bad : k <= j
  BY <1>1, LeastExists
<1>3. k # 0
  <2> DEFINE g == [i \in {} |-> {}]
  <2>1. [i \in 1 .. 0 |-> IF i = 1 THEN ss[i] ELSE g[i - 1] \o ss[i]] = g
    OBVIOUS
  <2>2. Unrolled(ss, 0, g)
    BY <2>1 DEF Unrolled, Body
  <2> QED
    BY <1>2, <2>2
<1>4. k - 1 \in Nat /\ ~(k <= k - 1)
  BY <1>2, <1>3
<1>5. PICK g : Unrolled(ss, k - 1, g)
  BY <1>2, <1>4
<1> DEFINE f == [i \in 1 .. k |-> IF i = 1 THEN ss[i] ELSE g[i - 1] \o ss[i]]
<1>6. \A i \in 1 .. k - 1 : f[i] = g[i]
  <2>1. \A i \in 1 .. k - 1 : g[i] = IF i = 1 THEN ss[i] ELSE g[i - 1] \o ss[i]
    BY <1>4, <1>5 DEF Unrolled, Body
  <2>2. \A i \in 1 .. k - 1 : i \in 1 .. k
    BY <1>4
  <2> QED
    BY <2>1, <2>2
<1>7. f = [i \in 1 .. k |-> IF i = 1 THEN ss[i] ELSE f[i - 1] \o ss[i]]
  <2>1. \A i \in 1 .. k : i # 1 => i - 1 \in 1 .. k - 1
    BY <1>4
  <2> HIDE DEF f
  <2>2. \A i \in 1 .. k : i # 1 => f[i - 1] = g[i - 1]
    BY <1>6, <2>1
  <2> QED
    BY <2>2 DEF f
<1>8. Unrolled(ss, k, f)
  BY <1>7 DEF Unrolled, Body
<1> QED
  BY <1>2, <1>8

(* Sequences that begin alike are unrolled alike. *)
LEMMA UnrolledSame ==
  ASSUME NEW ss, NEW tt, NEW k \in Nat, NEW m \in Nat, k <= m, NEW g, NEW h,
         Unrolled(ss, k, g), Unrolled(tt, m, h), \A i \in 1 .. k : ss[i] = tt[i]
  PROVE  \A i \in 1 .. k : g[i] = h[i]
<1> DEFINE Bad == {i \in 1 .. k : g[i] # h[i]}
<1>1. SUFFICES ASSUME Bad # {} PROVE FALSE
  OBVIOUS
<1>2. Bad \in SUBSET Nat
  OBVIOUS
<1>3. PICK i \in Bad : \A j \in Bad : i <= j
  <2> HIDE DEF Bad
  <2> QED
    BY <1>1, <1>2, LeastExists
<1>4. i \in 1 .. k /\ i \in 1 .. m /\ g[i] # h[i]
  BY <1>3
<1>5. /\ g[i] = IF i = 1 THEN ss[i] ELSE g[i - 1] \o ss[i]
      /\ h[i] = IF i = 1 THEN tt[i] ELSE h[i - 1] \o tt[i]
  <2>1. \A e \in 1 .. k : g[e] = IF e = 1 THEN ss[e] ELSE g[e - 1] \o ss[e]
    BY Unroll
  <2>2. \A e \in 1 .. m : h[e] = IF e = 1 THEN tt[e] ELSE h[e - 1] \o tt[e]
    BY Unroll
  <2> QED
    BY <1>4, <2>1, <2>2
<1>6. i # 1
  BY <1>4, <1>5
<1>7. i - 1 \in 1 .. k /\ ~(i <= i - 1)
  BY <1>4, <1>6
<1>8. g[i - 1] = h[i - 1]
  BY <1>3, <1>7
<1> QED
  BY <1>4, <1>5, <1>6, <1>8

LEMMA SameBeginning ==
  ASSUME NEW ss, NEW tt, NEW k \in Nat, NEW m \in Nat, k <= m, NEW g, NEW h,
         Unrolled(ss, k, g), Unrolled(tt, m, h), \A i \in 1 .. k : tt[i] = ss[i], k # 0
  PROVE  g[k] = h[k]
<1>1. \A i \in 1 .. k : ss[i] = tt[i]
  OBVIOUS
<1>2. \A i \in 1 .. k : g[i] = h[i]
  BY <1>1, UnrolledSame
<1> QED
  BY <1>2

LEMMA FlattenIs ==
  ASSUME NEW S, NEW ss \in Seq(S), ss # <<>>, NEW g, Unrolled(ss, Len(ss), g)
  PROVE  FlattenSeq(ss) = g[Len(ss)]
<1>1. Len(ss) \in Nat \ {0}
  BY EmptySeq
<1> DEFINE f == CHOOSE f : f = [i \in 1 .. Len(ss) |-> IF i = 1 THEN ss[i] ELSE f[i - 1] \o ss[i]]
<1>2. f = [i \in 1 .. Len(ss) |-> IF i = 1 THEN ss[i] ELSE f[i - 1] \o ss[i]]
  BY DEF Unrolled, Body
<1>3. FlattenSeq(ss) = f[Len(ss)]
  BY <1>1 DEF FlattenSeq
<1> HIDE DEF f
<1>4. Unrolled(ss, Len(ss), f)
  BY <1>2 DEF Unrolled, Body
<1>5. \A i \in 1 .. Len(ss) : f[i] = g[i]
  BY <1>1, <1>4, UnrolledSame
<1> QED
  BY <1>1, <1>3, <1>5

LEMMA FlattenNothing == FlattenSeq(<<>>) = <<>>
BY EmptySeq DEF FlattenSeq

LEMMA FlattenStep ==
  ASSUME NEW S, NEW ss \in Seq(Seq(S)), NEW c \in Seq(S)
  PROVE  FlattenSeq(Append(ss, c)) = FlattenSeq(ss) \o c
<1> DEFINE tt == Append(ss, c)
           n == Len(ss)
           m == n + 1
<1>1. /\ tt \in Seq(Seq(S)) /\ Len(tt) = m /\ n \in Nat /\ tt # <<>> /\ tt[m] = c
      /\ \A i \in 1 .. n : tt[i] = ss[i]
  BY AppendProperties, LenProperties
<1>2. m \in Nat /\ m > 0 /\ n <= m /\ m - 1 = n /\ m \in 1 .. m
  BY <1>1
<1> HIDE DEF tt, n, m
<1>3. PICK g : Unrolled(tt, m, g)
  BY <1>2, Unrollable
<1>4. FlattenSeq(tt) = g[m]
  BY <1>1, <1>3, FlattenIs
<1>5. CASE n = 0
  <2>1. ss = <<>> /\ m = 1
    BY <1>5, EmptySeq DEF n, m
  <2>2. g[1] = c
    <3>1. \A i \in 1 .. m : g[i] = IF i = 1 THEN tt[i] ELSE g[i - 1] \o tt[i]
      BY <1>2, <1>3, Unroll
    <3> QED
      BY <1>1, <1>2, <2>1, <3>1
  <2>3. FlattenSeq(ss) \o c = c
    BY <2>1, FlattenNothing, ConcatEmptySeq
  <2> QED
    BY <1>4, <2>1, <2>2, <2>3 DEF tt
<1>6. CASE n # 0
  <2>1. ss # <<>> /\ n \in 1 .. n /\ m \in 2 .. m
    <3>1. n \in Nat \ {0} /\ m = n + 1
      BY <1>1, <1>6 DEF m
    <3>2. ss # <<>>
      BY <1>6, EmptySeq DEF n
    <3> QED
      BY <3>1, <3>2
  <2>2. g[m] = g[n] \o c
    <3>1. \A i \in 1 .. m : g[i] = IF i = 1 THEN tt[i] ELSE g[i - 1] \o tt[i]
      BY <1>2, <1>3, Unroll
    <3>2. m # 1
      BY <2>1
    <3> QED
      BY <1>1, <1>2, <2>1, <3>1, <3>2
  <2>3. PICK h : Unrolled(ss, n, h)
    BY <1>1, Unrollable
  <2>4. FlattenSeq(ss) = h[n]
    BY <2>1, <2>3, FlattenIs DEF n
  <2>5. h[n] = g[n]
    BY <1>1, <1>2, <1>3, <1>6, <2>3, SameBeginning
  <2> QED
    BY <1>4, <2>2, <2>4, <2>5 DEF tt
<1> QED
  BY <1>5, <1>6

(* The first k of the sequences. *)
First(ss, k) == FlattenSeq(SubSeq(ss, 1, k))

LEMMA FirstStep ==
  ASSUME NEW S, NEW ss \in Seq(Seq(S)), NEW k \in Nat, k < Len(ss)
  PROVE  First(ss, k + 1) = First(ss, k) \o ss[k + 1] /\ ss[k + 1] \in Seq(S)
<1>1. Len(ss) \in Nat /\ k + 1 \in 1 .. Len(ss) /\ 1 \in 1 .. Len(ss) /\ k + 1 \in 1 .. Len(ss) /\ (k + 1) - 1 = k
  BY LenProperties
<1>2. ss[k + 1] \in Seq(S)
  BY <1>1, ElementOfSeq
<1>3. SubSeq(ss, 1, k) \in Seq(Seq(S))
  <2>1. \A i \in 1 .. k : ss[i] \in Seq(S)
    BY <1>1, ElementOfSeq
  <2> QED
    BY <2>1, SubSeqProperties
<1>4. SubSeq(ss, 1, k + 1) = SubSeq(ss, 1, k) \o <<ss[k + 1]>>
  BY <1>1, SubSeqRecursiveSecond
<1>5. SubSeq(ss, 1, k + 1) = Append(SubSeq(ss, 1, k), ss[k + 1])
  BY <1>2, <1>3, <1>4, AppendIsConcat
<1> QED
  BY <1>2, <1>3, <1>5, FlattenStep DEF First

LEMMA FirstType ==
  ASSUME NEW S, NEW ss \in Seq(Seq(S)), NEW n \in 0 .. Len(ss)
  PROVE  First(ss, n) \in Seq(S)
<1> DEFINE Bad == {k \in 0 .. Len(ss) : First(ss, k) \notin Seq(S)}
<1>1. SUFFICES ASSUME Bad # {} PROVE FALSE
  OBVIOUS
<1>2. Bad \in SUBSET Nat /\ Len(ss) \in Nat
  BY LenProperties
<1>3. PICK k \in Bad : \A j \in Bad : k <= j
  <2> HIDE DEF Bad
  <2> QED
    BY <1>1, <1>2, LeastExists
<1>4. k # 0
  <2>1. SubSeq(ss, 1, 0) = <<>>
    BY SubSeqEmpty
  <2>2. First(ss, 0) \in Seq(S)
    BY <2>1, FlattenNothing, EmptySeq DEF First
  <2> QED
    BY <1>3, <2>2
<1> DEFINE j == k - 1
<1>5. j \in Nat /\ j < Len(ss) /\ j + 1 = k /\ j \in 0 .. Len(ss) /\ ~(k <= j)
  BY <1>2, <1>3, <1>4
<1>6. First(ss, j) \in Seq(S)
  BY <1>3, <1>5
<1> HIDE DEF j
<1>7. First(ss, k) = First(ss, j) \o ss[k] /\ ss[k] \in Seq(S)
  BY <1>5, FirstStep
<1>8. First(ss, k) \in Seq(S)
  BY <1>6, <1>7, ConcatProperties
<1> QED
  BY <1>3, <1>8

(* They are the beginning of them all. *)
LEMMA FirstIsBeginning ==
  ASSUME NEW S, NEW ss \in Seq(Seq(S)), NEW n \in 0 .. Len(ss)
  PROVE  /\ Len(First(ss, n)) <= Len(FlattenSeq(ss))
         /\ \A i \in 1 .. Len(First(ss, n)) : First(ss, n)[i] = FlattenSeq(ss)[i]
<1> DEFINE Begins(k) == /\ Len(First(ss, k)) <= Len(FlattenSeq(ss))
                        /\ \A i \in 1 .. Len(First(ss, k)) : First(ss, k)[i] = FlattenSeq(ss)[i]
           last == Len(ss)
           Bad == {d \in 0 .. last : ~Begins(last - d)}
<1>1. last \in Nat /\ n \in 0 .. last
  BY LenProperties
<1>2. Begins(last)
  <2>1. First(ss, last) = FlattenSeq(ss)
    BY SubSeqFull DEF First
  <2>2. Len(FlattenSeq(ss)) \in Nat
    BY <1>1, <2>1, FirstType, LenProperties
  <2> QED
    BY <2>1, <2>2
<1>3. ASSUME NEW k \in Nat, k < last, Begins(k + 1) PROVE Begins(k)
  <2> DEFINE p == First(ss, k)
             q == First(ss, k + 1)
             a == FlattenSeq(ss)
  <2>1. k \in 0 .. Len(ss) /\ k + 1 \in 0 .. Len(ss) /\ last = Len(ss) /\ last \in 0 .. Len(ss)
    BY <1>1, <1>3
  <2>2. p \in Seq(S) /\ ss[k + 1] \in Seq(S) /\ q = p \o ss[k + 1]
    BY <1>3, <2>1, FirstType, FirstStep
  <2>3. a \in Seq(S)
    <3>1. First(ss, last) = FlattenSeq(ss)
      BY SubSeqFull DEF First
    <3> QED
      BY <2>1, <3>1, FirstType
  <2>4. Len(q) <= Len(a) /\ \A i \in 1 .. Len(q) : q[i] = a[i]
    BY <1>3
  <2> HIDE DEF p, q, a
  <2>5. /\ Len(q) = Len(p) + Len(ss[k + 1]) /\ Len(p) \in Nat /\ Len(ss[k + 1]) \in Nat /\ Len(a) \in Nat
        /\ \A i \in 1 .. Len(p) : q[i] = p[i]
    <3>1. Len(p) \in Nat /\ Len(ss[k + 1]) \in Nat /\ Len(a) \in Nat
      BY <2>2, <2>3, LenProperties
    <3>2. /\ Len(q) = Len(p) + Len(ss[k + 1])
          /\ \A i \in 1 .. Len(p) + Len(ss[k + 1]) :
               q[i] = IF i <= Len(p) THEN p[i] ELSE ss[k + 1][i - Len(p)]
      BY <2>2, ConcatProperties
    <3>3. \A i \in 1 .. Len(p) : i \in 1 .. Len(p) + Len(ss[k + 1]) /\ i <= Len(p)
      BY <3>1
    <3> QED
      BY <3>1, <3>2, <3>3
  <2>6. Len(p) <= Len(a) /\ \A i \in 1 .. Len(p) : i \in 1 .. Len(q)
    BY <2>4, <2>5
  <2>7. \A i \in 1 .. Len(p) : p[i] = a[i]
    BY <2>4, <2>5, <2>6
  <2> QED
    BY <2>6, <2>7 DEF p, a
<1> HIDE DEF Begins
<1>4. Bad = {}
  <2> SUFFICES ASSUME Bad # {} PROVE FALSE
    OBVIOUS
  <2>1. Bad \in SUBSET Nat
    BY <1>1
  <2>2. PICK d \in Bad : \A e \in Bad : d <= e
    <3> HIDE DEF Bad
    <3> QED
      BY <2>1, LeastExists
  <2>3. d \in 0 .. last /\ ~Begins(last - d)
    BY <2>2
  <2>4. d # 0
    <3>1. last - 0 = last
      BY <1>1
    <3> QED
      BY <1>2, <2>3, <3>1
  <2>5. d - 1 \in 0 .. last /\ ~(d <= d - 1) /\ last - d \in Nat /\ last - d < last
        /\ last - (d - 1) = (last - d) + 1
    BY <1>1, <2>3, <2>4
  <2>6. Begins(last - (d - 1))
    BY <2>2, <2>5
  <2> QED
    BY <1>3, <2>3, <2>5, <2>6
<1>5. last - n \in 0 .. last /\ last - (last - n) = n
  BY <1>1
<1>6. Begins(n)
  BY <1>4, <1>5
<1> QED
  BY <1>6 DEF Begins

-----------------------------------------------------------------------------
(* Paths, and trees of files.                                               *)

Names == UNION {Range(p) : p \in Paths}

LEMMA PathType ==
  ASSUME NEW p \in Paths
  PROVE  p \in Seq(Names) /\ Len(p) \in Nat /\ (p # <<>> <=> Len(p) # 0)
<1>1. p \in Seq(Names)
  BY RestoreAssumption DEF Names
<1> QED
  BY <1>1, LenProperties, EmptySeq

LEMMA PrefixIs ==
  ASSUME NEW q \in Paths, NEW p \in Paths
  PROVE  q \in Above(p) <=> Len(q) <= Len(p) /\ \A i \in 1 .. Len(q) : q[i] = p[i]
<1>1. q \in Seq(Names) /\ p \in Seq(Names) /\ Len(q) \in Nat /\ Len(p) \in Nat
  BY PathType
<1>2. SubSeq(q, 1, Len(q)) = q
  BY <1>1, SubSeqFull
<1> DEFINE b == SubSeq(p, 1, Len(q))
<1>3. ASSUME Len(q) <= Len(p)
      PROVE  b \in Seq(Names) /\ Len(b) = Len(q) /\ \A i \in 1 .. Len(q) : b[i] = p[i]
  <2>1. \A i \in 1 .. Len(q) : p[i] \in Names
    BY <1>1, <1>3, ElementOfSeq
  <2>2. /\ b \in Seq(Names) /\ Len(b) = IF 1 <= Len(q) THEN Len(q) - 1 + 1 ELSE 0
        /\ \A i \in 1 .. Len(q) - 1 + 1 : b[i] = p[1 + i - 1]
    BY <1>1, <2>1, SubSeqProperties
  <2>3. Len(q) - 1 + 1 = Len(q) /\ \A i \in 1 .. Len(q) : 1 + i - 1 = i
    BY <1>1
  <2>4. Len(b) = Len(q)
    BY <1>1, <2>2
  <2> QED
    BY <2>2, <2>3, <2>4
<1>4. IsPrefix(q, p) <=> Len(q) <= Len(p) /\ q = b
  BY <1>2 DEF IsPrefix
<1> HIDE DEF b
<1>5. Len(q) <= Len(p) => (q = b <=> \A i \in 1 .. Len(q) : q[i] = p[i])
  <2>1. ASSUME Len(q) <= Len(p), \A i \in 1 .. Len(q) : q[i] = p[i] PROVE q = b
    <3>1. b \in Seq(Names) /\ Len(b) = Len(q) /\ \A i \in 1 .. Len(q) : b[i] = p[i]
      BY <1>3, <2>1
    <3>2. \A i \in 1 .. Len(q) : q[i] = b[i]
      BY <2>1, <3>1
    <3> QED
      BY <1>1, <3>1, <3>2, SeqEqual
  <2> QED
    BY <1>3, <2>1
<1> QED
  BY <1>4, <1>5 DEF Above

LEMMA FrontIs ==
  ASSUME NEW p \in Paths, p # <<>>
  PROVE  /\ Front(p) \in Paths /\ Len(Front(p)) = Len(p) - 1 /\ Len(p) >= 1
         /\ \A i \in 1 .. Len(p) - 1 : Front(p)[i] = p[i]
<1>1. p \in Seq(Names) /\ Len(p) \in Nat /\ Len(p) # 0 /\ Front(p) \in Paths
  BY PathType, RestoreAssumption
<1> DEFINE n == Len(p) - 1
<1>2. n \in Nat /\ n < Len(p) /\ Len(p) >= 1
  BY <1>1
<1>3. \A i \in 1 .. n : p[i] \in Names
  BY <1>1, <1>2, ElementOfSeq
<1> HIDE DEF n
<1>4. /\ Len(SubSeq(p, 1, n)) = IF 1 <= n THEN n - 1 + 1 ELSE 0
      /\ \A i \in 1 .. n - 1 + 1 : SubSeq(p, 1, n)[i] = p[1 + i - 1]
  BY <1>2, <1>3, SubSeqProperties
<1>5. n - 1 + 1 = n /\ \A i \in 1 .. n : 1 + i - 1 = i
  BY <1>2
<1>6. Len(SubSeq(p, 1, n)) = n
  BY <1>2, <1>4
<1>7. Front(p) = SubSeq(p, 1, n)
  BY DEF Front, n
<1> QED
  BY <1>1, <1>2, <1>4, <1>5, <1>6, <1>7 DEF n

LEMMA AboveOrder ==
  ASSUME NEW p \in Paths
  PROVE  /\ p \in Above(p) /\ Above(p) \subseteq Paths
         /\ \A q \in Above(p) : Above(q) \subseteq Above(p)
         /\ \A q, r \in Above(p) : q \in Above(r) \/ r \in Above(q)
         /\ \A q \in Above(p) : p \in Above(q) => p = q
<1>1. Above(p) \subseteq Paths
  BY DEF Above
<1>2. \A q \in Paths : Len(q) \in Nat
  BY PathType
<1>3. p \in Above(p)
  BY <1>2, PrefixIs
<1>4. ASSUME NEW q \in Above(p), NEW r \in Above(q) PROVE r \in Above(p)
  <2>1. q \in Paths /\ r \in Paths
    BY <1>4 DEF Above
  <2>2. /\ Len(q) <= Len(p) /\ \A i \in 1 .. Len(q) : q[i] = p[i]
        /\ Len(r) <= Len(q) /\ \A i \in 1 .. Len(r) : r[i] = q[i]
    BY <1>4, <2>1, PrefixIs
  <2>3. Len(r) \in Nat /\ Len(q) \in Nat /\ Len(p) \in Nat
    BY <1>2, <2>1
  <2>4. Len(r) <= Len(p) /\ \A i \in 1 .. Len(r) : r[i] = p[i]
    BY <2>2, <2>3
  <2> QED
    BY <2>1, <2>4, PrefixIs
<1>5. ASSUME NEW q \in Above(p), NEW r \in Above(p) PROVE q \in Above(r) \/ r \in Above(q)
  <2>1. q \in Paths /\ r \in Paths
    BY <1>5 DEF Above
  <2>2. /\ Len(q) <= Len(p) /\ \A i \in 1 .. Len(q) : q[i] = p[i]
        /\ Len(r) <= Len(p) /\ \A i \in 1 .. Len(r) : r[i] = p[i]
    BY <1>5, <2>1, PrefixIs
  <2>3. Len(r) \in Nat /\ Len(q) \in Nat
    BY <1>2, <2>1
  <2>4. Len(q) <= Len(r) => q \in Above(r)
    <3>1. Len(q) <= Len(r) => \A i \in 1 .. Len(q) : i \in 1 .. Len(r)
      BY <2>3
    <3> QED
      BY <2>1, <2>2, <3>1, PrefixIs
  <2>5. Len(r) <= Len(q) => r \in Above(q)
    <3>1. Len(r) <= Len(q) => \A i \in 1 .. Len(r) : i \in 1 .. Len(q)
      BY <2>3
    <3> QED
      BY <2>1, <2>2, <3>1, PrefixIs
  <2> QED
    BY <2>3, <2>4, <2>5
<1>6. ASSUME NEW q \in Above(p), p \in Above(q) PROVE p = q
  <2>1. q \in Paths
    BY <1>6 DEF Above
  <2>2. Len(q) <= Len(p) /\ Len(p) <= Len(q) /\ \A i \in 1 .. Len(p) : p[i] = q[i]
    BY <1>6, <2>1, PrefixIs
  <2>3. Len(p) = Len(q) /\ p \in Seq(Names) /\ q \in Seq(Names)
    BY <2>1, <2>2, PathType
  <2> QED
    BY <2>2, <2>3, SeqEqual
<1> QED
  BY <1>1, <1>3, <1>4, <1>5, <1>6

LEMMA AboveFront ==
  ASSUME NEW p \in Paths, p # <<>>
  PROVE  /\ Front(p) \in Above(p) /\ Front(p) \in Paths /\ Front(p) # p
         /\ p \notin Above(Front(p))
         /\ Above(Front(p)) = Above(p) \ {p}
<1>1. /\ Front(p) \in Paths /\ Len(Front(p)) = Len(p) - 1 /\ Len(p) >= 1 /\ Len(p) \in Nat
      /\ \A i \in 1 .. Len(p) - 1 : Front(p)[i] = p[i]
  BY FrontIs, PathType
<1>2. Front(p) \in Above(p)
  <2>1. Len(Front(p)) <= Len(p) /\ \A i \in 1 .. Len(Front(p)) : Front(p)[i] = p[i]
    BY <1>1
  <2> QED
    BY <1>1, <2>1, PrefixIs
<1>3. p \notin Above(Front(p)) /\ Front(p) # p
  <2>1. ~(Len(p) <= Len(Front(p)))
    BY <1>1
  <2> QED
    BY <1>1, <2>1, PrefixIs, AboveOrder
<1>4. ASSUME NEW q \in Above(p), q # p PROVE q \in Above(Front(p))
  <2>1. q \in Paths /\ p \notin Above(q)
    BY <1>4, AboveOrder
  <2>2. Len(q) <= Len(p) /\ (\A i \in 1 .. Len(q) : q[i] = p[i]) /\ Len(q) \in Nat
    BY <1>4, <2>1, PrefixIs, PathType
  <2>3. Len(q) # Len(p)
    <3>1. Len(q) = Len(p) => \A i \in 1 .. Len(p) : p[i] = q[i]
      BY <2>2
    <3>2. Len(q) = Len(p) => Len(p) <= Len(q)
      BY <1>1
    <3> QED
      BY <2>1, <3>1, <3>2, PrefixIs
  <2>4. Len(q) <= Len(Front(p)) /\ \A i \in 1 .. Len(q) : q[i] = Front(p)[i]
    BY <1>1, <2>2, <2>3
  <2> QED
    BY <1>1, <2>1, <2>4, PrefixIs
<1> QED
  BY <1>1, <1>2, <1>3, <1>4, AboveOrder
-----------------------------------------------------------------------------
LEMMA NodeType ==
  /\ Absent \notin Node
  /\ \A v \in Node : v.kind \in {"dir", "file", "link"} /\ v.data \in Data
  /\ \A v \in Node, time \in {"archive", "system"} :
       [v EXCEPT !.time = time] \in Node /\ [v EXCEPT !.time = time].kind = v.kind
         /\ [v EXCEPT !.time = time].data = v.data
         /\ [v EXCEPT !.time = time].time = time
  /\ \A kind \in {"dir", "file", "link"}, data \in Data, time \in {"archive", "system"} :
       Entry(kind, data, time) \in Node /\ Entry(kind, data, time).kind = kind
         /\ Entry(kind, data, time).data = data
  /\ <<>> \in Data
<1>1. Absent \notin Node
  <2>1. Absent.kind = "absent"
    BY DEF Absent
  <2>2. \A v \in Node : v.kind \in {"dir", "file", "link"}
    BY DEF Node
  <2>3. "absent" \notin {"dir", "file", "link"}
    OBVIOUS
  <2> QED
    BY <2>1, <2>2, <2>3, Zenon
<1>2. \A v \in Node : v.kind \in {"dir", "file", "link"} /\ v.data \in Data
  BY DEF Node
<1>3. \A v \in Node, time \in {"archive", "system"} :
       [v EXCEPT !.time = time] \in Node /\ [v EXCEPT !.time = time].kind = v.kind
         /\ [v EXCEPT !.time = time].data = v.data
         /\ [v EXCEPT !.time = time].time = time
  BY DEF Node
<1>4. \A kind \in {"dir", "file", "link"}, data \in Data, time \in {"archive", "system"} :
       Entry(kind, data, time) \in Node /\ Entry(kind, data, time).kind = kind
         /\ Entry(kind, data, time).data = data
  BY DEF Node, Entry
<1>5. <<>> \in Data
  BY EmptySeq DEF Data
<1> QED
  BY <1>1, <1>2, <1>3, <1>4, <1>5

LEMMA NewTime ==
  ASSUME NEW v \in Node
  PROVE  [v EXCEPT !.time = "system"] \in Node /\ [v EXCEPT !.time = "system"].kind = v.kind
BY DEF Node

(* A directory that is there.                                              *)
DirAt(t, q) == t[q] \in Node /\ t[q].kind = "dir"

(* Nothing but p changes, and directories above it, which are made or get  *)
(* another time.                                                           *)
Kept(t, u, p) ==
  \A q \in Paths \ {p} : u[q] = t[q] \/ (q \in Above(p) /\ DirAt(u, q) /\ (t[q] # Absent => DirAt(t, q)))

LEMMA KeptTwice ==
  ASSUME NEW t, NEW u, NEW v, NEW p, Kept(t, u, p), Kept(u, v, p)
  PROVE  Kept(t, v, p)
<1>1. \A q : DirAt(u, q) => u[q] # Absent
  BY NodeType DEF DirAt
<1> SUFFICES ASSUME NEW q \in Paths \ {p}
             PROVE  v[q] = t[q] \/ (q \in Above(p) /\ DirAt(v, q) /\ (t[q] # Absent => DirAt(t, q)))
  BY DEF Kept
<1>2. u[q] = t[q] \/ (q \in Above(p) /\ DirAt(u, q) /\ (t[q] # Absent => DirAt(t, q)))
  BY DEF Kept
<1>3. v[q] = u[q] \/ (q \in Above(p) /\ DirAt(v, q) /\ (u[q] # Absent => DirAt(u, q)))
  BY DEF Kept
<1> QED
  BY <1>1, <1>2, <1>3 DEF DirAt

LEMMA TargetAt ==
  ASSUME NEW t \in Target, NEW q \in Paths
  PROVE  t[q] # Absent <=> t[q] \in Node
BY NodeType DEF Target

LEMMA MkdirAllMakes ==
  ASSUME NEW t \in Target, IsTree(t), NEW p \in Paths, ~Blocked(t, p)
  PROVE  LET u == MkdirAll(t, p)
         IN /\ u \in Target /\ IsTree(u)
            /\ \A q \in Above(p) : DirAt(u, q) /\ (t[q] # Absent => DirAt(t, q))
            /\ \A q \in Paths \ Above(p) : u[q] = t[q]
<1> DEFINE u == MkdirAll(t, p)
<1>1. \A q \in Above(p) : q \in Paths /\ (t[q] # Absent => DirAt(t, q))
  <2>1. \A q \in Above(p) : q \in Paths /\ (t[q] # Absent => t[q].kind = "dir")
    BY DEF Blocked, Exists, IsDir, Above
  <2> QED
    BY <2>1, TargetAt DEF DirAt
<1>2. \A q \in Paths :
        u[q] = IF q \in Above(p) /\ t[q] = Absent THEN Entry("dir", <<>>, "system")
               ELSE IF q \in Above(p) /\ \E r \in Above(p) : r # <<>> /\ Front(r) = q /\ t[r] = Absent
                 THEN [t[q] EXCEPT !.time = "system"]
               ELSE t[q]
  BY DEF MkdirAll, Exists
<1>3. ASSUME NEW q \in Above(p) PROVE DirAt(u, q)
  <2>1. q \in Paths
    BY AboveOrder
  <2>2. u[q] \in {Entry("dir", <<>>, "system"), [t[q] EXCEPT !.time = "system"], t[q]}
        /\ (t[q] = Absent => u[q] = Entry("dir", <<>>, "system"))
    BY <1>2, <2>1
  <2>3. Entry("dir", <<>>, "system") \in Node /\ Entry("dir", <<>>, "system").kind = "dir"
    BY NodeType
  <2>4. t[q] # Absent =>
          t[q] \in Node /\ t[q].kind = "dir" /\ [t[q] EXCEPT !.time = "system"] \in Node
            /\ [t[q] EXCEPT !.time = "system"].kind = "dir"
    BY <1>1, NewTime DEF DirAt
  <2> HIDE DEF u
  <2> QED
    BY <2>2, <2>3, <2>4 DEF DirAt
<1>4. \A q \in Paths \ Above(p) : u[q] = t[q]
  BY <1>2
<1>5. u \in Target
  <2>1. u = [q \in Paths |-> u[q]]
    BY DEF MkdirAll
  <2>2. \A q \in Paths : u[q] \in Node \union {Absent}
    BY <1>3, <1>4 DEF DirAt, Target
  <2> HIDE DEF u
  <2> QED
    BY <2>1, <2>2 DEF Target
<1>6. IsTree(u)
  <2> SUFFICES ASSUME NEW q \in Paths, q # <<>>, u[q] # Absent PROVE DirAt(u, Front(q))
    BY NodeType DEF IsTree, DirAt
  <2>1. Front(q) \in Paths /\ Front(q) \in Above(q)
    BY AboveFront
  <2>2. CASE q \in Above(p)
    BY <1>3, <2>1, <2>2, AboveOrder
  <2>3. CASE q \notin Above(p)
    <3>1. t[q] # Absent
      BY <1>4, <2>3
    <3>2. t[Front(q)] # Absent /\ t[Front(q)].kind = "dir"
      BY <3>1 DEF IsTree
    <3>3. DirAt(t, Front(q))
      BY <2>1, <3>2, TargetAt DEF DirAt
    <3> QED
      BY <1>3, <1>4, <2>1, <3>3 DEF DirAt
  <2> QED
    BY <2>2, <2>3
<1> QED
  BY <1>1, <1>3, <1>4, <1>5, <1>6

LEMMA MkdirAllKeeps ==
  ASSUME NEW t \in Target, IsTree(t), NEW p \in Paths, NEW d \in Above(p), ~Blocked(t, d)
  PROVE  Kept(t, MkdirAll(t, d), p)
<1>1. d \in Paths /\ Above(d) \subseteq Above(p)
  BY AboveOrder
<1>2. /\ \A q \in Above(d) : DirAt(MkdirAll(t, d), q) /\ (t[q] # Absent => DirAt(t, q))
      /\ \A q \in Paths \ Above(d) : MkdirAll(t, d)[q] = t[q]
  BY <1>1, MkdirAllMakes
<1> QED
  BY <1>1, <1>2 DEF Kept

LEMMA OsRemoveRemoves ==
  ASSUME NEW t \in Target, IsTree(t), NEW p \in Paths, p # <<>>
  PROVE  LET u == OsRemove(t, p)
         IN /\ u \in Target /\ IsTree(u) /\ Kept(t, u, p)
            /\ DirAt(t, Front(p)) => DirAt(u, Front(p))
<1> DEFINE u == OsRemove(t, p)
           f == Front(p)
<1>1. f \in Paths /\ f \in Above(p) /\ f # p
  BY AboveFront
<1>2. CASE t[p] # Absent /\ ((t[p].kind = "dir") => Empty(t, p))
  <2>1. u = [t EXCEPT ![p] = Absent, ![f].time = "system"]
    BY <1>2 DEF OsRemove, Exists, IsDir
  <2>2. DirAt(t, f)
    BY <1>1, <1>2, TargetAt DEF IsTree, DirAt
  <2>3. DOMAIN t = Paths /\ \A q \in Paths : t[q] \in Node \union {Absent}
    BY DEF Target
  <2>4. /\ u[p] = Absent /\ u[f] = [t[f] EXCEPT !.time = "system"]
        /\ \A q \in Paths \ {p, f} : u[q] = t[q]
        /\ u = [q \in Paths |-> u[q]]
    BY <1>1, <2>1, <2>3
  <2>5. DirAt(u, f)
    BY <2>2, <2>4, NewTime DEF DirAt
  <2> HIDE DEF u, f
  <2>6. u \in Target
    <3>1. \A q \in Paths : u[q] \in Node \union {Absent}
      BY <2>3, <2>4, <2>5 DEF DirAt
    <3> QED
      BY <2>4, <3>1 DEF Target
  <2>7. Kept(t, u, p)
    BY <1>1, <2>2, <2>4, <2>5 DEF Kept
  <2>8. IsTree(u)
    <3> SUFFICES ASSUME NEW q \in Paths, q # <<>>, u[q] # Absent PROVE DirAt(u, Front(q))
      BY NodeType DEF IsTree, DirAt
    <3>1. q # p /\ t[q] # Absent
      BY <2>2, <2>4, NodeType DEF DirAt
    <3>2. DirAt(t, Front(q)) /\ Front(q) \in Paths
      BY <3>1, TargetAt, AboveFront DEF IsTree, DirAt
    <3>3. Front(q) # p
      <4>1. Front(q) = p => t[p].kind = "dir" /\ ~Empty(t, p)
        BY <3>1, <3>2 DEF DirAt, Empty, Exists
      <4> QED
        BY <1>2, <4>1
    <3> QED
      BY <2>4, <2>5, <3>2, <3>3 DEF DirAt
  <2> QED
    BY <2>5, <2>6, <2>7, <2>8 DEF u, f
<1>3. CASE ~(t[p] # Absent /\ ((t[p].kind = "dir") => Empty(t, p)))
  <2>1. u = t
    BY <1>3 DEF OsRemove, Exists, IsDir
  <2> QED
    BY <2>1 DEF Kept
<1> QED
  BY <1>2, <1>3

LEMMA PutPuts ==
  ASSUME NEW t \in Target, IsTree(t), NEW p \in Paths, p # <<>>, NEW node \in Node,
         DirAt(t, Front(p)), ~DirAt(t, p)
  PROVE  LET u == Put(t, p, node)
         IN u \in Target /\ IsTree(u) /\ Kept(t, u, p) /\ u[p] = node
<1> DEFINE u == Put(t, p, node)
           f == Front(p)
<1>1. f \in Paths /\ f \in Above(p) /\ f # p
  BY AboveFront
<1>2. \A q \in Paths : t[q] \in Node \union {Absent}
  BY DEF Target
<1>3. /\ u[p] = node /\ u[f] \in {t[f], [t[f] EXCEPT !.time = "system"]}
      /\ \A q \in Paths \ {p, f} : u[q] = t[q]
      /\ u = [q \in Paths |-> u[q]]
  BY <1>1 DEF Put
<1>4. DirAt(u, f) /\ DirAt(t, f)
  <2>1. t[f] \in Node /\ t[f].kind = "dir"
    BY DEF DirAt
  <2> HIDE DEF u, f
  <2> QED
    BY <1>3, <2>1, NewTime DEF DirAt
<1> HIDE DEF u, f
<1>5. u \in Target
  <2>1. \A q \in Paths : u[q] \in Node \union {Absent}
    BY <1>2, <1>3, <1>4 DEF DirAt
  <2> QED
    BY <1>3, <2>1 DEF Target
<1>6. Kept(t, u, p)
  BY <1>1, <1>3, <1>4 DEF Kept
<1>7. IsTree(u)
  <2> SUFFICES ASSUME NEW q \in Paths, q # <<>>, u[q] # Absent PROVE DirAt(u, Front(q))
    BY NodeType DEF IsTree, DirAt
  <2>1. CASE q = p
    BY <1>4, <2>1 DEF f
  <2>2. CASE q # p
    <3>1. t[q] # Absent
      BY <1>3, <1>4, <2>2, NodeType DEF DirAt
    <3>2. DirAt(t, Front(q)) /\ Front(q) \in Paths
      BY <3>1, TargetAt, AboveFront DEF IsTree, DirAt
    <3>3. Front(q) # p
      BY <3>2
    <3> QED
      BY <1>3, <1>4, <3>2, <3>3 DEF DirAt
  <2> QED
    BY <2>1, <2>2
<1> QED
  BY <1>3, <1>5, <1>6, <1>7 DEF u

-----------------------------------------------------------------------------
(* Archives, and the counting of their items.                               *)

(* The archives of the snapshots.                                          *)
Archives == {FlattenSeq(s) : s \in Snapshots}

LEMMA UnitType ==
  ASSUME NEW u \in Unit
  PROVE  /\ u.item \in {"version", "dir", "link", "file", "goodbye", "data"}
         /\ u.item # "data" => u.path \in Paths /\ u.size \in Nat
         /\ IsEntry(u) <=> u.item \in {"dir", "link", "file"}
BY DEF Unit, IsEntry

LEMMA ArchiveType ==
  ASSUME NEW a \in Archives
  PROVE  /\ a \in Seq(Unit) /\ Len(a) \in Nat /\ DOMAIN a = 1 .. Len(a)
         /\ \A i \in 1 .. Len(a) : a[i] \in Unit
         /\ WellFormed(a)
<1>1. PICK s \in Snapshots : a = FlattenSeq(s)
  BY DEF Archives
<1>2. s \in Seq(Seq(Unit)) /\ WellFormed(a)
  BY <1>1, RestoreAssumption
<1>3. Len(s) \in 0 .. Len(s) /\ SubSeq(s, 1, Len(s)) = s
  BY <1>2, LenProperties, SubSeqFull
<1>4. a \in Seq(Unit)
  BY <1>1, <1>2, <1>3, FirstType DEF First
<1>5. Len(a) \in Nat /\ DOMAIN a = 1 .. Len(a) /\ \A i \in 1 .. Len(a) : a[i] \in Unit
  BY <1>4, LenProperties, ElementOfSeq
<1> QED
  BY <1>2, <1>4, <1>5

(* What the data of a payload is, and what it is not.                      *)
LEMMA PayloadIs ==
  ASSUME NEW a \in Archives, NEW i \in 1 .. Len(a), a[i].item = "file"
  PROVE  /\ a[i].size \in Nat /\ i + a[i].size <= Len(a)
         /\ \A k \in i + 1 .. i + a[i].size : k \in 1 .. Len(a) /\ a[k].item = "data"
         /\ \A j \in 1 .. Len(a) : j # i => Payload(a, i) \cap Payload(a, j) = {}
<1>1. \A j \in 1 .. Len(a) : a[j].item = "file" => a[j].size \in Nat
  BY ArchiveType, UnitType
<1>2. {j \in 1 .. Len(a) : a[j].item = "data"} = UNION {Payload(a, j) : j \in 1 .. Len(a)}
  <2>1. {j \in DOMAIN a : a[j].item = "data"} = UNION {Payload(a, j) : j \in DOMAIN a}
    BY ArchiveType, Zenon DEF WellFormed
  <2>2. DOMAIN a = 1 .. Len(a)
    BY ArchiveType
  <2> QED
    BY <2>1, <2>2, Zenon
<1>3. \A j \in 1 .. Len(a) : \A k \in Payload(a, j) : k \in 1 .. Len(a) /\ a[k].item = "data"
  BY <1>2
<1>4. \A j \in 1 .. Len(a) :
        \A k : k \in Payload(a, j) <=> a[j].item = "file" /\ k \in j + 1 .. j + a[j].size
  BY DEF Payload
<1>5. i + a[i].size <= Len(a)
  <2>1. CASE a[i].size = 0
    BY <2>1
  <2>2. CASE a[i].size # 0
    <3>1. i + a[i].size \in Payload(a, i)
      BY <1>1, <1>4, <2>2
    <3> QED
      BY <1>3, <3>1
  <2> QED
    BY <2>1, <2>2
<1>6. ASSUME NEW j \in 1 .. Len(a), NEW k \in Payload(a, i) \cap Payload(a, j), j # i
      PROVE  FALSE
  <2>1. a[j].item = "file" /\ k \in i + 1 .. i + a[i].size /\ k \in j + 1 .. j + a[j].size
    BY <1>4, <1>6
  <2>2. i < j \/ j < i
    BY <1>6
  <2>3. CASE i < j
    <3>1. j \in i + 1 .. i + a[i].size
      BY <1>1, <2>1, <2>3
    <3>2. j \in Payload(a, i)
      BY <1>4, <3>1
    <3> QED
      BY <1>3, <2>1, <3>2
  <2>4. CASE j < i
    <3>1. i \in j + 1 .. j + a[j].size
      BY <1>1, <2>1, <2>4
    <3>2. i \in Payload(a, j)
      BY <1>4, <2>1, <3>1
    <3> QED
      BY <1>3, <3>2
  <2> QED
    BY <2>2, <2>3, <2>4
<1>7. \A k \in i + 1 .. i + a[i].size : k \in 1 .. Len(a) /\ a[k].item = "data"
  BY <1>3, <1>4
<1> QED
  BY <1>1, <1>5, <1>6, <1>7

(* The directories above an entry are entries before it.                   *)
LEMMA DirsBefore ==
  ASSUME NEW a \in Archives, NEW i \in 1 .. Len(a), IsEntry(a[i])
  PROVE  \A q \in Above(a[i].path) : q # a[i].path =>
           \E j \in 1 .. Len(a) : j < i /\ a[j].item = "dir" /\ a[j].path = q
<1>1. \A q \in Above(a[i].path) \ {a[i].path} : \E j \in 1 .. i - 1 : a[j].item = "dir" /\ a[j].path = q
  <2>1. i \in DOMAIN a /\ WellFormed(a)
    BY ArchiveType
  <2> QED
    BY <2>1, Zenon DEF WellFormed
<1>2. \A j \in 1 .. i - 1 : j \in 1 .. Len(a) /\ j < i
  BY ArchiveType
<1> QED
  BY <1>1, <1>2, Zenon

LEMMA EntryIs ==
  ASSUME NEW a \in Archives, NEW i \in 1 .. Len(a), IsEntry(a[i])
  PROVE  /\ a[i].item \in {"dir", "link", "file"} /\ a[i].path \in Paths /\ a[i].size \in Nat
         /\ a[i].item # "file" => a[i].size = 0
         /\ a[i].item # "dir" => a[i].path # <<>>
         /\ \A q \in Above(a[i].path) : q # a[i].path =>
              \E j \in 1 .. Len(a) : j < i /\ a[j].item = "dir" /\ a[j].path = q
         /\ \A j \in 1 .. Len(a) : IsEntry(a[j]) /\ j # i => a[j].path # a[i].path
<1>1. a[i].item \in {"dir", "link", "file"} /\ a[i].path \in Paths /\ a[i].size \in Nat
  BY ArchiveType, UnitType
<1>2. DOMAIN a = 1 .. Len(a) /\ Len(a) \in Nat /\ WellFormed(a)
  BY ArchiveType
<1>3. (a[i].item # "file" => a[i].size = 0) /\ (a[i].item # "dir" => a[i].path # <<>>)
  BY <1>2, Zenon DEF WellFormed
<1>4. ASSUME NEW j \in 1 .. Len(a), IsEntry(a[j]), j # i PROVE a[j].path # a[i].path
  <2>1. \A k \in 1 .. Len(a) : IsEntry(a[k]) =>
          \A l \in 1 .. k - 1 : IsEntry(a[l]) => a[l].path # a[k].path
    BY <1>2, Zenon DEF WellFormed
  <2>2. j \in 1 .. i - 1 \/ i \in 1 .. j - 1
    BY <1>4
  <2> QED
    BY <1>4, <2>1, <2>2, Zenon
<1> QED
  BY <1>1, <1>3, <1>4, DirsBefore

LEMMA GoodbyeIs ==
  ASSUME NEW a \in Archives, NEW i \in 1 .. Len(a), a[i].item = "goodbye"
  PROVE  Depth(a, i) >= 0 /\ (Depth(a, i) = 0 <=> i = Len(a))
BY ArchiveType DEF WellFormed
-----------------------------------------------------------------------------
(* Counting what is in the beginning of an archive.                        *)

LEMMA OneMore ==
  ASSUME NEW c \in Nat, NEW S \in SUBSET (1 .. c), NEW T
  PROVE  /\ Cardinality(S) \in Nat /\ IsFiniteSet(S) /\ Cardinality(S) <= c
         /\ T = S \union {c + 1} => Cardinality(T) = Cardinality(S) + 1
<1>1. IsFiniteSet(1 .. c) /\ Cardinality(1 .. c) = c
  <2>1. IsFiniteSet(1 .. c) /\ Cardinality(1 .. c) = IF 1 > c THEN 0 ELSE c - 1 + 1
    BY FS_Interval
  <2> QED
    BY <2>1
<1>2. IsFiniteSet(S) /\ Cardinality(S) <= c
  BY <1>1, FS_Subset
<1>3. Cardinality(S) \in Nat
  BY <1>2, FS_CardinalityType
<1>4. c + 1 \notin S
  OBVIOUS
<1>5. T = S \union {c + 1} => Cardinality(T) = Cardinality(S) + 1
  BY <1>2, <1>4, FS_AddElement
<1> QED
  BY <1>2, <1>3, <1>5

LEMMA DepthStep ==
  ASSUME NEW a, NEW c \in Nat, NEW d, d = c + 1
  PROVE  /\ Depth(a, c) \in Int
         /\ a[d].item = "dir" => Depth(a, d) = Depth(a, c) + 1
         /\ a[d].item = "goodbye" => Depth(a, d) = Depth(a, c) - 1
         /\ a[d].item \notin {"dir", "goodbye"} => Depth(a, d) = Depth(a, c)
<1> DEFINE D(i) == {j \in 1 .. i : a[j].item = "dir"}
           B(i) == {j \in 1 .. i : a[j].item = "goodbye"}
<1>1. \A i : Depth(a, i) = Cardinality(D(i)) - Cardinality(B(i))
  BY DEF Depth
<1>2. 1 .. d = (1 .. c) \union {d}
  OBVIOUS
<1>3. D(c) \in SUBSET (1 .. c) /\ B(c) \in SUBSET (1 .. c)
  OBVIOUS
<1>4. /\ D(d) = IF a[d].item = "dir" THEN D(c) \union {d} ELSE D(c)
      /\ B(d) = IF a[d].item = "goodbye" THEN B(c) \union {d} ELSE B(c)
  BY <1>2
<1> HIDE DEF D, B
<1>5. /\ Cardinality(D(c)) \in Nat /\ Cardinality(B(c)) \in Nat
      /\ a[d].item = "dir" => Cardinality(D(d)) = Cardinality(D(c)) + 1
      /\ a[d].item = "goodbye" => Cardinality(B(d)) = Cardinality(B(c)) + 1
  BY <1>3, <1>4, OneMore
<1>6. /\ a[d].item # "dir" => Cardinality(D(d)) = Cardinality(D(c))
      /\ a[d].item # "goodbye" => Cardinality(B(d)) = Cardinality(B(c))
  BY <1>4
<1> QED
  BY <1>1, <1>5, <1>6

(* How many of a set's numbers are up to c.                                *)
Count(D, c) == Cardinality(D \cap (1 .. c))

LEMMA CountStep ==
  ASSUME NEW D, NEW c \in Nat, NEW d, d = c + 1
  PROVE  /\ Count(D, c) \in Nat
         /\ d \in D => Count(D, d) = Count(D, c) + 1
         /\ d \notin D => Count(D, d) = Count(D, c)
<1>1. 1 .. d = (1 .. c) \union {d}
  OBVIOUS
<1> DEFINE S == D \cap (1 .. c)
           T == D \cap (1 .. d)
<1>2. S \in SUBSET (1 .. c) /\ (d \in D => T = S \union {d}) /\ (d \notin D => T = S)
  BY <1>1
<1> HIDE DEF S, T
<1>3. Cardinality(S) \in Nat /\ (d \in D => Cardinality(T) = Cardinality(S) + 1)
  BY <1>2, OneMore
<1>4. Count(D, c) = Cardinality(S) /\ Count(D, d) = Cardinality(T)
  BY DEF Count, S, T
<1> QED
  BY <1>2, <1>3, <1>4

(* A payload is counted at once.                                           *)
LEMMA CountRun ==
  ASSUME NEW D, NEW c \in Nat, NEW e \in Nat, c <= e
  PROVE  /\ (\A i \in c + 1 .. e : i \in D) => Count(D, e) = Count(D, c) + (e - c)
         /\ (\A i \in c + 1 .. e : i \notin D) => Count(D, e) = Count(D, c)
<1> DEFINE S == D \cap (1 .. c)
           T == D \cap (1 .. e)
           R == c + 1 .. e
           n == e - c
<1>1. (1 .. e) = (1 .. c) \union R /\ (1 .. c) \cap R = {} /\ c + 1 \in Int /\ e \in Int
  OBVIOUS
<1>2. IsFiniteSet(R) /\ Cardinality(R) = n
  <2> DEFINE m == c + 1
  <2>1. m \in Int /\ e \in Int
    OBVIOUS
  <2> HIDE DEF m
  <2>2. IsFiniteSet(m .. e) /\ Cardinality(m .. e) = IF m > e THEN 0 ELSE e - m + 1
    BY <2>1, FS_Interval
  <2> QED
    BY <2>2 DEF m
<1>3. IsFiniteSet(S) /\ Cardinality(S) \in Nat
  <2>1. S \in SUBSET (1 .. c)
    OBVIOUS
  <2> HIDE DEF S
  <2> QED
    BY <2>1, OneMore
<1>4. (\A i \in R : i \in D) => T = S \union R
  BY <1>1
<1>5. (\A i \in R : i \notin D) => T = S
  BY <1>1
<1>6. S \cap R = {}
  BY <1>1
<1> HIDE DEF S, T, R
<1>7. Cardinality(S \union R) = Cardinality(S) + n
  <2>1. Cardinality(S \union R) = Cardinality(S) + Cardinality(R) - Cardinality(S \cap R)
    BY <1>2, <1>3, FS_Union
  <2>2. Cardinality(S \cap R) = 0
    BY <1>6, FS_EmptySet, Zenon
  <2> QED
    BY <1>2, <1>3, <2>1, <2>2
<1>8. Count(D, c) = Cardinality(S) /\ Count(D, e) = Cardinality(T)
  BY DEF Count, S, T
<1>9. (\A i \in R : i \in D) => Count(D, e) = Count(D, c) + n
  BY <1>4, <1>7, <1>8
<1>10. (\A i \in R : i \notin D) => Count(D, e) = Count(D, c)
  BY <1>5, <1>8
<1> QED
  BY <1>9, <1>10 DEF R

-----------------------------------------------------------------------------
(* What the properties speak of, as operators of an archive and a target.   *)

(* The properties' definitions, of an archive and of what was asked.       *)
WantIn(o, p) == o # NoPath => IsPrefix(p, o) \/ IsPrefix(o, p)
AskedIn(a, o) == {j \in DOMAIN a : IsEntry(a[j]) /\ WantIn(o, a[j].path)}
FilesIn(a, o) == {j \in AskedIn(a, o) : a[j].item = "file"}
DataIn(a, o) == UNION {Payload(a, j) : j \in FilesIn(a, o)}
PlaceIn(a, j) == Cardinality({i \in 1 .. j : IsEntry(a[i])})
OnDiskIn(a, t, j) ==
  LET node == t[a[j].path]
  IN /\ node # Absent /\ node.kind = a[j].item
     /\ node.kind = "file" =>
          node.data = SubSeq(a, j + 1, j + a[j].size) /\ node.time = "archive"
Confined(a, o, t, b) ==
  \A p \in Paths : (\E j \in AskedIn(a, o) : a[j].path = p) \/ t[p] = b[p]

LEMMA AskedIs ==
  ASSUME NEW a \in Archives, NEW o
  PROVE  /\ \A j : j \in AskedIn(a, o) <=> j \in 1 .. Len(a) /\ IsEntry(a[j]) /\ WantIn(o, a[j].path)
         /\ \A j : j \in FilesIn(a, o) <=> j \in AskedIn(a, o) /\ a[j].item = "file"
         /\ \A k : k \in DataIn(a, o) <=> \E j \in FilesIn(a, o) : k \in Payload(a, j)
<1>1. DOMAIN a = 1 .. Len(a)
  BY ArchiveType
<1> QED
  BY <1>1 DEF AskedIn, FilesIn, DataIn

LEMMA AboveAsked ==
  ASSUME NEW a \in Archives, NEW o \in Paths \union {NoPath}, NEW i \in AskedIn(a, o),
         NEW q \in Above(a[i].path)
  PROVE  \E j \in AskedIn(a, o) : a[j].path = q
<1>1. i \in 1 .. Len(a) /\ IsEntry(a[i]) /\ WantIn(o, a[i].path) /\ a[i].path \in Paths
  BY AskedIs, EntryIs
<1>2. CASE q = a[i].path
  BY <1>2
<1>3. CASE q # a[i].path
  <2>1. PICK j \in 1 .. Len(a) : j < i /\ a[j].item = "dir" /\ a[j].path = q
    <3>1. \A p \in Above(a[i].path) : p # a[i].path =>
            \E j \in 1 .. Len(a) : j < i /\ a[j].item = "dir" /\ a[j].path = p
      BY <1>1, DirsBefore
    <3> QED
      BY <1>3, <3>1
  <2>2. q \in Paths
    BY <1>1, AboveOrder
  <2>3. WantIn(o, q)
    <3> SUFFICES ASSUME o \in Paths PROVE q \in Above(o) \/ o \in Above(q)
      BY DEF WantIn, Above
    <3>1. a[i].path \in Above(o) \/ o \in Above(a[i].path)
      BY <1>1, RestoreAssumption DEF WantIn, Above
    <3> QED
      BY <1>1, <3>1, AboveOrder
  <2>4. j \in AskedIn(a, o)
    BY <2>1, <2>3, AskedIs DEF IsEntry
  <2> QED
    BY <2>1, <2>4
<1> QED
  BY <1>2, <1>3

LEMMA DiskKept ==
  ASSUME NEW a \in Archives, NEW t, NEW u, NEW p \in Paths, Kept(t, u, p),
         NEW j \in 1 .. Len(a), IsEntry(a[j]), a[j].path # p, OnDiskIn(a, t, j)
  PROVE  OnDiskIn(a, u, j)
<1> DEFINE q == a[j].path
<1>1. q \in Paths \ {p} /\ t[q] # Absent /\ t[q].kind = a[j].item
  BY EntryIs DEF OnDiskIn
<1>2. u[q] = t[q] \/ (q \in Above(p) /\ DirAt(u, q) /\ (t[q] # Absent => DirAt(t, q)))
  BY <1>1 DEF Kept
<1>3. CASE u[q] = t[q]
  BY <1>3 DEF OnDiskIn
<1>4. CASE DirAt(u, q) /\ DirAt(t, q)
  <2>1. u[q] # Absent /\ u[q].kind = "dir" /\ a[j].item = "dir"
    BY <1>1, <1>4, NodeType DEF DirAt
  <2> QED
    BY <2>1 DEF OnDiskIn
<1> QED
  BY <1>1, <1>2, <1>3, <1>4

LEMMA ConfinedKept ==
  ASSUME NEW a \in Archives, NEW o \in Paths \union {NoPath}, NEW i \in AskedIn(a, o),
         NEW t, NEW u, NEW b, Kept(t, u, a[i].path), Confined(a, o, t, b)
  PROVE  Confined(a, o, u, b)
<1> SUFFICES ASSUME NEW q \in Paths, u[q] # b[q]
             PROVE  \E j \in AskedIn(a, o) : a[j].path = q
  BY DEF Confined
<1>1. CASE q = a[i].path
  BY <1>1
<1>2. CASE q # a[i].path
  <2>1. u[q] = t[q] \/ q \in Above(a[i].path)
    BY <1>2 DEF Kept
  <2>2. CASE u[q] = t[q]
    BY <2>2 DEF Confined
  <2>3. CASE q \in Above(a[i].path)
    BY <2>3, AboveAsked
  <2> QED
    BY <2>1, <2>2, <2>3
<1> QED
  BY <1>1, <1>2
-----------------------------------------------------------------------------
LEMMA DataIs ==
  ASSUME NEW a \in Archives, NEW o, NEW i \in 1 .. Len(a), a[i].item = "file"
  PROVE  /\ i \in AskedIn(a, o) => \A k \in i + 1 .. i + a[i].size : k \in DataIn(a, o)
         /\ i \notin AskedIn(a, o) => \A k \in i + 1 .. i + a[i].size : k \notin DataIn(a, o)
<1>1. \A k : k \in Payload(a, i) <=> k \in i + 1 .. i + a[i].size
  BY DEF Payload
<1>2. i \in AskedIn(a, o) => \A k \in i + 1 .. i + a[i].size : k \in DataIn(a, o)
  BY <1>1, AskedIs
<1>3. ASSUME NEW k \in DataIn(a, o), k \in i + 1 .. i + a[i].size PROVE i \in AskedIn(a, o)
  <2>1. PICK j \in FilesIn(a, o) : k \in Payload(a, j)
    BY <1>3, AskedIs
  <2>2. j \in 1 .. Len(a) /\ j \in AskedIn(a, o)
    BY AskedIs
  <2>3. k \in Payload(a, i)
    BY <1>1, <1>3
  <2>4. j = i
    BY <2>1, <2>2, <2>3, PayloadIs
  <2> QED
    BY <2>2, <2>4
<1> QED
  BY <1>2, <1>3

LEMMA DataOnly ==
  ASSUME NEW a \in Archives, NEW o, NEW k \in DataIn(a, o)
  PROVE  k \in 1 .. Len(a) /\ a[k].item = "data"
<1>1. PICK j \in FilesIn(a, o) : k \in Payload(a, j)
  BY AskedIs
<1>2. j \in 1 .. Len(a) /\ a[j].item = "file"
  BY AskedIs
<1>3. k \in j + 1 .. j + a[j].size
  BY <1>1, <1>2 DEF Payload
<1> QED
  BY <1>2, <1>3, PayloadIs

(* An item that is no payload counts for no file.                          *)
LEMMA ItemCounts ==
  ASSUME NEW a \in Archives, NEW o, NEW c \in Nat, NEW d \in 1 .. Len(a), d = c + 1,
         a[d].item \notin {"file", "data"}
  PROVE  /\ Count(FilesIn(a, o), d) = Count(FilesIn(a, o), c)
         /\ Count(DataIn(a, o), d) = Count(DataIn(a, o), c)
<1>1. d \notin FilesIn(a, o) /\ d \notin DataIn(a, o)
  BY AskedIs, DataOnly
<1> QED
  BY <1>1, CountStep

LEMMA FileCounts ==
  ASSUME NEW a \in Archives, NEW o, NEW i \in 1 .. Len(a), a[i].item = "file",
         NEW c \in Nat, i = c + 1, NEW e \in Nat, e = i + a[i].size
  PROVE  /\ i \in AskedIn(a, o) =>
              /\ Count(FilesIn(a, o), e) = Count(FilesIn(a, o), c) + 1
              /\ Count(DataIn(a, o), e) = Count(DataIn(a, o), c) + a[i].size
         /\ i \notin AskedIn(a, o) =>
              /\ Count(FilesIn(a, o), e) = Count(FilesIn(a, o), c)
              /\ Count(DataIn(a, o), e) = Count(DataIn(a, o), c)
<1> DEFINE n == a[i].size
           F == FilesIn(a, o)
           D == DataIn(a, o)
<1>1. n \in Nat /\ i \in Nat /\ i <= e /\ e - i = n
  BY PayloadIs
<1>2. \A k \in i + 1 .. e : a[k].item = "data" /\ k \in 1 .. Len(a)
  BY PayloadIs
<1>3. \A k \in i + 1 .. e : k \notin F
  <2>1. \A k : k \in F => a[k].item = "file"
    BY AskedIs
  <2> HIDE DEF F
  <2> QED
    BY <1>2, <2>1
<1>4. i \notin D /\ (i \in F <=> i \in AskedIn(a, o))
  BY DataOnly, AskedIs
<1>5. /\ i \in AskedIn(a, o) => \A k \in i + 1 .. e : k \in D
      /\ i \notin AskedIn(a, o) => \A k \in i + 1 .. e : k \notin D
  BY DataIs
<1> HIDE DEF F, D, n
<1>6. /\ i \in F => Count(F, i) = Count(F, c) + 1
      /\ i \notin F => Count(F, i) = Count(F, c)
      /\ Count(D, i) = Count(D, c)
  BY <1>4, CountStep
<1>7. Count(F, e) = Count(F, i)
  BY <1>1, <1>3, CountRun
<1>8. /\ (\A k \in i + 1 .. e : k \in D) => Count(D, e) = Count(D, i) + (e - i)
      /\ (\A k \in i + 1 .. e : k \notin D) => Count(D, e) = Count(D, i)
  BY <1>1, CountRun
<1> QED
  BY <1>1, <1>4, <1>5, <1>6, <1>7, <1>8 DEF F, D, n
-----------------------------------------------------------------------------
LEMMA PlaceStep ==
  ASSUME NEW a, NEW c \in Nat, NEW d, d = c + 1
  PROVE  /\ PlaceIn(a, c) \in Nat
         /\ IsEntry(a[d]) => PlaceIn(a, d) = PlaceIn(a, c) + 1
         /\ ~IsEntry(a[d]) => PlaceIn(a, d) = PlaceIn(a, c)
<1> DEFINE S == {i \in 1 .. c : IsEntry(a[i])}
           T == {i \in 1 .. d : IsEntry(a[i])}
<1>1. 1 .. d = (1 .. c) \union {d}
  OBVIOUS
<1>2. S \in SUBSET (1 .. c) /\ (IsEntry(a[d]) => T = S \union {d}) /\ (~IsEntry(a[d]) => T = S)
  BY <1>1
<1>3. PlaceIn(a, c) = Cardinality(S) /\ PlaceIn(a, d) = Cardinality(T)
  BY DEF PlaceIn
<1> HIDE DEF S, T
<1>4. Cardinality(S) \in Nat /\ (IsEntry(a[d]) => Cardinality(T) = Cardinality(S) + 1)
  BY <1>2, OneMore
<1> QED
  BY <1>2, <1>3, <1>4

(* A payload has one place in the listing.                                 *)
LEMMA PlaceRun ==
  ASSUME NEW a, NEW c \in Nat, NEW e \in Nat, c <= e,
         \A k \in c + 1 .. e : ~IsEntry(a[k])
  PROVE  PlaceIn(a, e) = PlaceIn(a, c)
<1>1. 1 .. e = (1 .. c) \union (c + 1 .. e)
  OBVIOUS
<1>2. {i \in 1 .. e : IsEntry(a[i])} = {i \in 1 .. c : IsEntry(a[i])}
  BY <1>1
<1> QED
  BY <1>2 DEF PlaceIn

LEMMA PlaceOrder ==
  ASSUME NEW a, NEW c \in Nat, NEW j \in 1 .. c
  PROVE  /\ PlaceIn(a, j) \in Nat /\ PlaceIn(a, c) \in Nat /\ PlaceIn(a, j) <= PlaceIn(a, c)
         /\ IsEntry(a[j]) => PlaceIn(a, j) >= 1
<1> DEFINE S == {i \in 1 .. j : IsEntry(a[i])}
           T == {i \in 1 .. c : IsEntry(a[i])}
<1>1. S \in SUBSET (1 .. j) /\ T \in SUBSET (1 .. c) /\ S \subseteq T /\ (IsEntry(a[j]) => j \in S)
  OBVIOUS
<1>2. PlaceIn(a, j) = Cardinality(S) /\ PlaceIn(a, c) = Cardinality(T)
  BY DEF PlaceIn
<1> HIDE DEF S, T
<1>3. IsFiniteSet(S) /\ IsFiniteSet(T) /\ Cardinality(S) \in Nat /\ Cardinality(T) \in Nat
  BY <1>1, OneMore
<1>4. Cardinality(S) <= Cardinality(T)
  BY <1>1, <1>3, FS_Subset
<1>5. j \in S => Cardinality(S) # 0
  BY <1>3, FS_EmptySet
<1> QED
  BY <1>1, <1>2, <1>3, <1>4, <1>5

-----------------------------------------------------------------------------
(* The inductive invariant.                                                 *)

(* Where the decoder is: in a file's payload, the item of that file, the   *)
(* last item done with, and what the stream has handed over so far.        *)
InPayload == pc \in {"copy", "skip"}
Current == Consumed - (file.size - file.left)
Upto == IF InPayload THEN Current - 1 ELSE Consumed
Got == First(entries, fetched)

(* What is buffered is the archive, from the item after the consumed ones. *)
StreamInv ==
  /\ chunks \in Snapshots /\ before \in Targets
  /\ only \in Paths \union {NoPath}
  /\ Len(entries) <= Len(chunks) /\ \A i \in 1 .. Len(entries) : entries[i] = chunks[i]
  /\ Consumed \in Nat /\ Consumed + Len(buf) = Len(Got)
  /\ \A i \in 1 .. Len(buf) : buf[i] = Got[Consumed + i]
  /\ pc = "index" => entries = <<>> /\ fetched = 0 /\ buf = <<>>

(* The depth is that of the archive there, so that the GOODBYE at depth 0, *)
(* which ends the run well, is the archive's last item.                    *)
DepthInv ==
  /\ pc \in {"index", "walk", "copy", "skip"} => depth = Depth(archive, Consumed)
  /\ pc = "ok" => Consumed = Len(archive)

(* In a payload, the file is the one whose header was consumed; an asked   *)
(* one is on disk with the data that came so far.                          *)
FileInv ==
  /\ file \in [path : Paths, size : Nat, left : Nat] /\ file.left <= file.size
  /\ InPayload =>
       /\ Current >= 1 /\ archive[Current].item = "file"
       /\ archive[Current].path = file.path /\ archive[Current].size = file.size
       /\ pc = "skip" => mode = "extract" /\ ~WantIn(only, file.path)
       /\ mode = "extract" /\ pc = "copy" =>
            /\ WantIn(only, file.path)
            /\ target[file.path] # Absent /\ target[file.path].kind = "file"
            /\ target[file.path].data = SubSeq(archive, Current + 1, Consumed)

(* The item is done with; an error or a kill may have stopped the run in   *)
(* the last one, before its times were set.                                *)
Finished(j) ==
  /\ j <= Upto
  /\ pc \in {"failed", "killed"} => j + archive[j].size < Consumed

(* The target is a tree, the same as before outside of what was asked for, *)
(* and holds every asked entry that is done with.                          *)
TargetInv ==
  /\ target \in Target /\ IsTree(target)
  /\ IF mode = "extract" THEN Confined(archive, only, target, before) ELSE target = before
  /\ mode = "extract" =>
       \A j \in AskedIn(archive, only) : Finished(j) => OnDiskIn(archive, target, j)

(* What the visitor counts, or lists, is what is before the decoder.       *)
CountsAre(a, o, f, b, c) == f = Count(FilesIn(a, o), c) /\ b = Count(DataIn(a, o), c)
Line(a, j) == [path |-> a[j].path, kind |-> a[j].item, size |-> a[j].size]
ListIs(a, l, c) ==
  /\ Len(l) = PlaceIn(a, c)
  /\ \A j \in 1 .. c : IsEntry(a[j]) => l[PlaceIn(a, j)] = Line(a, j)
CountInv ==
  pc \notin {"failed", "killed"} =>
    IF mode = "extract" THEN CountsAre(archive, only, files, bytes, Upto)
    ELSE ListIs(archive, listing, Upto)

IInv == TypeOK /\ StreamInv /\ DepthInv /\ FileInv /\ TargetInv /\ CountInv

LEMMA StreamIs ==
  ASSUME TypeOK, StreamInv
  PROVE  /\ archive \in Archives /\ Len(archive) \in Nat /\ Consumed \in Nat /\ Len(buf) \in Nat
         /\ Consumed + Len(buf) <= Len(archive)
         /\ \A i \in 1 .. Len(buf) : buf[i] = archive[Consumed + i]
         /\ Got \in Seq(Unit) /\ Len(Got) \in Nat
         /\ \A i \in 1 .. Len(Got) : Got[i] = archive[i]
<1>1. archive \in Archives
  BY DEF StreamInv, Archives, archive
<1>2. chunks \in Seq(Seq(Unit)) /\ entries \in Seq(Seq(Unit)) /\ fetched \in 0 .. Len(entries)
      /\ buf \in Seq(Unit)
  BY DEF TypeOK
<1>3. Len(chunks) \in Nat /\ Len(entries) \in Nat /\ Len(buf) \in Nat /\ fetched \in 0 .. Len(chunks)
      /\ Len(entries) <= Len(chunks)
  BY <1>2, LenProperties DEF StreamInv
<1>4. Got = First(chunks, fetched)
  <2>1. SubSeq(entries, 1, fetched) = SubSeq(chunks, 1, fetched)
    BY <1>2, <1>3 DEF StreamInv
  <2> QED
    BY <2>1 DEF Got, First
<1>5. /\ Len(Got) <= Len(archive)
      /\ \A i \in 1 .. Len(Got) : Got[i] = archive[i]
  BY <1>2, <1>3, <1>4, FirstIsBeginning DEF archive
<1>6. Got \in Seq(Unit)
  BY <1>2, FirstType DEF Got
<1>7. Len(Got) \in Nat /\ Len(archive) \in Nat
  BY <1>1, <1>6, LenProperties, ArchiveType
<1>8. Consumed \in Nat /\ Consumed + Len(buf) = Len(Got)
      /\ \A i \in 1 .. Len(buf) : buf[i] = Got[Consumed + i]
  BY DEF StreamInv
<1>9. \A i \in 1 .. Len(buf) : Consumed + i \in 1 .. Len(Got)
  BY <1>3, <1>8
<1> QED
  BY <1>1, <1>3, <1>5, <1>6, <1>7, <1>8, <1>9

LEMMA SameInput ==
  ASSUME UNCHANGED input
  PROVE  /\ archive' = archive /\ chunks' = chunks /\ mode' = mode /\ only' = only /\ before' = before
         /\ \A p : Want(p)' <=> Want(p)
BY DEF input, archive, Want

LEMMA SameStream ==
  ASSUME UNCHANGED <<entries, fetched, buf>>
  PROVE  Consumed' = Consumed /\ Got' = Got
BY DEF Consumed, Got, First

(* The decoder consumes an item of the archive.                            *)
LEMMA Consumes ==
  ASSUME TypeOK, StreamInv, buf # <<>>, buf' = Tail(buf), UNCHANGED <<entries, fetched>>
  PROVE  /\ Consumed' = Consumed + 1 /\ Consumed' \in 1 .. Len(archive)
         /\ Head(buf) = archive[Consumed'] /\ Head(buf) \in Unit
         /\ Got' = Got /\ buf' \in Seq(Unit) /\ Consumed' + Len(buf') = Len(Got)
         /\ \A i \in 1 .. Len(buf') : buf'[i] = Got[Consumed' + i]
<1>1. buf \in Seq(Unit) /\ Len(buf) \in Nat /\ Consumed \in Nat /\ Len(Got) \in Nat
  BY StreamIs DEF TypeOK
<1>2. Got' = Got
  BY DEF Got, First
<1>3. /\ Head(buf) \in Unit /\ buf' \in Seq(Unit) /\ Head(buf) = buf[1] /\ Len(buf') = Len(buf) - 1
      /\ \A i \in 1 .. Len(buf') : buf'[i] = buf[i + 1]
      /\ Len(buf) >= 1
  <2>1. Len(buf) >= 1
    BY <1>1, EmptySeq
  <2> QED
    BY <1>1, <2>1, HeadTailProperties, ElementOfSeq
<1>4. Consumed = Len(Got) - Len(buf) /\ Consumed' = Len(Got) - Len(buf')
  <2>1. Len(Got') = Len(Got)
    BY <1>2
  <2> QED
    BY <2>1 DEF Consumed, Got, First
<1>5. Consumed' = Consumed + 1
  BY <1>1, <1>3, <1>4
<1>6. /\ Consumed + Len(buf) <= Len(archive) /\ Len(archive) \in Nat
      /\ \A i \in 1 .. Len(buf) : buf[i] = archive[Consumed + i]
  BY StreamIs
<1>7. Consumed' \in 1 .. Len(archive)
  BY <1>1, <1>3, <1>5, <1>6
<1>8. Head(buf) = archive[Consumed']
  BY <1>1, <1>3, <1>5, <1>6
<1>9. \A i \in 1 .. Len(buf') : buf'[i] = Got[Consumed' + i]
  <2>1. \A i \in 1 .. Len(buf) : buf[i] = Got[Consumed + i]
    BY DEF StreamInv
  <2>2. \A i \in 1 .. Len(buf') : i + 1 \in 1 .. Len(buf) /\ Consumed + (i + 1) = Consumed' + i
    BY <1>1, <1>3, <1>5
  <2> QED
    BY <1>3, <2>1, <2>2
<1> QED
  BY <1>1, <1>2, <1>3, <1>4, <1>5, <1>7, <1>8, <1>9

-----------------------------------------------------------------------------
(* What making a directory, an entry or a file does to the target.          *)

LEMMA DirMade ==
  ASSUME NEW t \in Target, IsTree(t), NEW p \in Paths, ~Blocked(t, p)
  PROVE  LET u == [MkdirAll(t, p) EXCEPT ![p].time = "archive"]
         IN u \in Target /\ IsTree(u) /\ Kept(t, u, p) /\ DirAt(u, p)
<1> DEFINE m == MkdirAll(t, p)
           u == [m EXCEPT ![p].time = "archive"]
<1>1. m \in Target /\ IsTree(m) /\ DirAt(m, p) /\ Kept(t, m, p)
  BY MkdirAllMakes, MkdirAllKeeps, AboveOrder
<1> HIDE DEF m
<1>2. DOMAIN m = Paths /\ \A q \in Paths : m[q] \in Node \union {Absent}
  BY <1>1 DEF Target
<1>3. /\ u[p] = [m[p] EXCEPT !.time = "archive"] /\ \A q \in Paths \ {p} : u[q] = m[q]
      /\ u = [q \in Paths |-> u[q]]
  BY <1>2
<1>4. DirAt(u, p)
  <2>1. m[p] \in Node /\ m[p].kind = "dir"
    BY <1>1 DEF DirAt
  <2>2. [m[p] EXCEPT !.time = "archive"] \in Node /\ [m[p] EXCEPT !.time = "archive"].kind = "dir"
    BY <2>1 DEF Node
  <2> HIDE DEF u
  <2> QED
    BY <1>3, <2>2 DEF DirAt
<1> HIDE DEF u
<1>5. u \in Target
  <2>1. \A q \in Paths : u[q] \in Node \union {Absent}
    BY <1>2, <1>3, <1>4 DEF DirAt
  <2> QED
    BY <1>3, <2>1 DEF Target
<1>6. \A q \in Paths : (u[q] # Absent <=> m[q] # Absent) /\ u[q].kind = m[q].kind
  <2>1. (u[p] # Absent /\ m[p] # Absent) /\ u[p].kind = m[p].kind
    BY <1>1, <1>4, NodeType DEF DirAt
  <2> QED
    BY <1>3, <2>1
<1>7. IsTree(u)
  BY <1>1, <1>6, AboveFront DEF IsTree
<1>8. Kept(m, u, p)
  BY <1>3 DEF Kept
<1>9. Kept(t, u, p)
  BY <1>1, <1>8, KeptTwice
<1> QED
  BY <1>4, <1>5, <1>7, <1>9 DEF u, m

(* What TakeLink and TakeFile make.                                        *)
LEMMA EntryMade ==
  ASSUME NEW t \in Target, IsTree(t), NEW p \in Paths, p # <<>>, ~Blocked(t, Front(p)),
         NEW node \in Node
  PROVE  LET m == MkdirAll(t, Front(p))
         IN /\ ~IsDir(t, p) =>
                 LET u == Put(m, p, node)
                 IN u \in Target /\ IsTree(u) /\ Kept(t, u, p) /\ u[p] = node
            /\ ~Exists(OsRemove(m, p), p) =>
                 LET u == Put(OsRemove(m, p), p, node)
                 IN u \in Target /\ IsTree(u) /\ Kept(t, u, p) /\ u[p] = node
<1> DEFINE m == MkdirAll(t, Front(p))
           r == OsRemove(m, p)
<1>1. Front(p) \in Paths /\ Front(p) \in Above(p) /\ p \notin Above(Front(p))
  BY AboveFront
<1>2. /\ m \in Target /\ IsTree(m) /\ DirAt(m, Front(p)) /\ Kept(t, m, p)
      /\ m[p] = t[p]
  BY <1>1, MkdirAllMakes, MkdirAllKeeps, AboveOrder
<1> HIDE DEF m
<1>3. ASSUME ~IsDir(t, p)
      PROVE  LET u == Put(m, p, node)
             IN u \in Target /\ IsTree(u) /\ Kept(t, u, p) /\ u[p] = node
  <2>1. ~DirAt(m, p)
    BY <1>2, <1>3, NodeType DEF IsDir, Exists, DirAt
  <2> DEFINE u == Put(m, p, node)
  <2>2. u \in Target /\ IsTree(u) /\ Kept(m, u, p) /\ u[p] = node
    BY <1>2, <2>1, PutPuts
  <2> HIDE DEF u
  <2>3. Kept(t, u, p)
    BY <1>2, <2>2, KeptTwice
  <2> QED
    BY <2>2, <2>3 DEF u
<1>4. ASSUME ~Exists(r, p)
      PROVE  LET u == Put(r, p, node)
             IN u \in Target /\ IsTree(u) /\ Kept(t, u, p) /\ u[p] = node
  <2>1. r \in Target /\ IsTree(r) /\ Kept(m, r, p) /\ DirAt(r, Front(p))
    BY <1>2, OsRemoveRemoves
  <2> HIDE DEF r
  <2>2. ~DirAt(r, p)
    BY <1>4, NodeType DEF Exists, DirAt
  <2> DEFINE u == Put(r, p, node)
  <2>3. u \in Target /\ IsTree(u) /\ Kept(r, u, p) /\ u[p] = node
    BY <2>1, <2>2, PutPuts
  <2> HIDE DEF u
  <2>4. Kept(t, u, p)
    BY <1>2, <2>1, <2>3, KeptTwice
  <2> QED
    BY <2>3, <2>4 DEF u
<1> QED
  BY <1>3, <1>4 DEF m, r

(* A file that is written to.                                              *)
LEMMA FileWritten ==
  ASSUME NEW t \in Target, IsTree(t), NEW p \in Paths, t[p] # Absent, t[p].kind = "file",
         NEW node \in Node, node.kind = "file"
  PROVE  LET u == [t EXCEPT ![p] = node]
         IN u \in Target /\ IsTree(u) /\ Kept(t, u, p) /\ u[p] = node
<1> DEFINE u == [t EXCEPT ![p] = node]
<1>1. DOMAIN t = Paths /\ \A q \in Paths : t[q] \in Node \union {Absent}
  BY DEF Target
<1>2. u[p] = node /\ (\A q \in Paths \ {p} : u[q] = t[q]) /\ u \in Target
  BY <1>1 DEF Target
<1> HIDE DEF u
<1>3. \A q \in Paths : (u[q] # Absent <=> t[q] # Absent) /\ u[q].kind = t[q].kind
  BY <1>2, NodeType
<1>4. IsTree(u)
  BY <1>3, AboveFront DEF IsTree
<1>5. Kept(t, u, p)
  BY <1>2 DEF Kept
<1> QED
  BY <1>2, <1>4, <1>5 DEF u
-----------------------------------------------------------------------------
LEMMA Grown ==
  ASSUME NEW a \in Archives, NEW m \in Nat, NEW c \in Nat, m >= 1, m <= c + 1, c + 1 <= Len(a)
  PROVE  /\ SubSeq(a, m, m - 1) = <<>>
         /\ SubSeq(a, m, c) \in Seq(Unit)
         /\ Append(SubSeq(a, m, c), a[c + 1]) = SubSeq(a, m, c + 1)
<1>1. a \in Seq(Unit) /\ Len(a) \in Nat /\ \A i \in 1 .. Len(a) : a[i] \in Unit
  BY ArchiveType
<1>2. \A i \in m .. c : a[i] \in Unit
  BY <1>1
<1>3. SubSeq(a, m, c) \in Seq(Unit)
  BY <1>1, <1>2, SubSeqProperties
<1>4. SubSeq(a, m, m - 1) = <<>>
  BY SubSeqEmpty
<1>5. a[c + 1] \in Unit /\ m \in 1 .. Len(a) /\ c + 1 \in 1 .. Len(a) /\ c + 1 - 1 = c
  BY <1>1
<1>6. SubSeq(a, m, c + 1) = SubSeq(a, m, c) \o <<a[c + 1]>>
  <2> DEFINE d == c + 1
  <2>1. m \in 1 .. Len(a) /\ d \in m .. Len(a) /\ d - 1 = c
    BY <1>1
  <2> HIDE DEF d
  <2>2. SubSeq(a, m, d) = SubSeq(a, m, d - 1) \o <<a[d]>>
    BY <1>1, <2>1, SubSeqRecursiveSecond
  <2> QED
    BY <2>1, <2>2 DEF d
<1>7. Append(SubSeq(a, m, c), a[c + 1]) = SubSeq(a, m, c) \o <<a[c + 1]>>
  BY <1>3, <1>5, AppendIsConcat
<1> QED
  BY <1>3, <1>4, <1>6, <1>7

LEMMA ListStays ==
  ASSUME NEW a, NEW l, NEW c \in Nat, NEW d \in Nat, d = c + 1, ~IsEntry(a[d]), ListIs(a, l, c)
  PROVE  ListIs(a, l, d)
<1>1. PlaceIn(a, d) = PlaceIn(a, c)
  BY PlaceStep
<1>2. \A j \in 1 .. d : j \in 1 .. c \/ j = d
  OBVIOUS
<1> QED
  BY <1>1, <1>2 DEF ListIs

LEMMA ListGrows ==
  ASSUME NEW a, NEW S, NEW l \in Seq(S), NEW c \in Nat, NEW i \in Nat, i = c + 1,
         NEW e \in Nat, i <= e, IsEntry(a[i]), \A k \in i + 1 .. e : ~IsEntry(a[k]),
         Line(a, i) \in S, ListIs(a, l, c)
  PROVE  ListIs(a, Append(l, Line(a, i)), e)
<1> DEFINE g == Append(l, Line(a, i))
           n == PlaceIn(a, c)
<1>1. n \in Nat /\ PlaceIn(a, i) = n + 1 /\ PlaceIn(a, e) = n + 1
  BY PlaceStep, PlaceRun
<1>2. Len(l) = n
  BY DEF ListIs
<1>3. Len(g) = n + 1 /\ g[n + 1] = Line(a, i) /\ \A k \in 1 .. n : g[k] = l[k]
  BY <1>2, AppendProperties
<1> HIDE DEF g, n
<1>4. ASSUME NEW j \in 1 .. e, IsEntry(a[j]) PROVE g[PlaceIn(a, j)] = Line(a, j)
  <2>1. j \in 1 .. c \/ j = i \/ j \in i + 1 .. e
    OBVIOUS
  <2>2. CASE j \in 1 .. c
    <3>1. PlaceIn(a, j) \in 1 .. n
      BY <1>1, <1>4, <2>2, PlaceOrder DEF n
    <3>2. l[PlaceIn(a, j)] = Line(a, j)
      BY <1>4, <2>2 DEF ListIs
    <3> QED
      BY <1>3, <3>1, <3>2
  <2>3. CASE j = i
    BY <1>1, <1>3, <2>3
  <2> QED
    BY <1>4, <2>1, <2>2, <2>3
<1> QED
  BY <1>1, <1>3, <1>4 DEF ListIs, g

-----------------------------------------------------------------------------
(* The parts of the invariant that a step leaves alone; the VERSION entry.  *)

LEMMA StreamStays ==
  ASSUME StreamInv, UNCHANGED <<input, entries, fetched, buf>>, pc' = "index" => pc = "index"
  PROVE  StreamInv' /\ Consumed' = Consumed /\ archive' = archive
<1>1. Consumed' = Consumed /\ Got' = Got /\ archive' = archive
  BY SameStream, SameInput
<1>2. chunks' = chunks /\ before' = before /\ only' = only
  BY SameInput
<1> QED
  BY <1>1, <1>2 DEF StreamInv

LEMMA StreamTaken ==
  ASSUME TypeOK, StreamInv, buf # <<>>, buf' = Tail(buf), UNCHANGED <<input, entries, fetched>>,
         pc' # "index"
  PROVE  StreamInv'
<1>1. /\ Consumed' = Consumed + 1 /\ Consumed' \in 1 .. Len(archive) /\ Got' = Got
      /\ Consumed' + Len(buf') = Len(Got) /\ \A i \in 1 .. Len(buf') : buf'[i] = Got[Consumed' + i]
  BY Consumes
<1>2. chunks' = chunks /\ before' = before /\ only' = only
  BY SameInput
<1> QED
  BY <1>1, <1>2, StreamIs DEF StreamInv

LEMMA TargetStays ==
  ASSUME StreamInv, TargetInv, UNCHANGED <<input, target>>,
         mode = "extract" => \A j \in AskedIn(archive, only) : Finished(j)' => Finished(j)
  PROVE  TargetInv'
<1>1. archive' = archive /\ mode' = mode /\ only' = only /\ before' = before /\ target' = target
  BY SameInput
<1>2. mode = "extract" =>
        \A j \in AskedIn(archive, only) : Finished(j)' => OnDiskIn(archive, target, j)
  BY DEF TargetInv
<1> QED
  BY <1>1, <1>2 DEF TargetInv

(* The visitor writes the entry at d.                                      *)
LEMMA TargetMoves ==
  ASSUME TypeOK, StreamInv, TargetInv, UNCHANGED input, mode = "extract",
         NEW d \in AskedIn(archive, only),
         target' \in Target, IsTree(target'), Kept(target, target', archive[d].path),
         \A j \in AskedIn(archive, only) : Finished(j)' /\ j # d => Finished(j),
         Finished(d)' => OnDiskIn(archive, target', d)
  PROVE  TargetInv'
<1>1. archive' = archive /\ mode' = mode /\ only' = only /\ before' = before
  BY SameInput
<1>2. archive \in Archives /\ only \in Paths \union {NoPath}
  BY StreamIs DEF StreamInv
<1>3. d \in 1 .. Len(archive) /\ IsEntry(archive[d]) /\ archive[d].path \in Paths
  BY <1>2, AskedIs, EntryIs
<1>4. Confined(archive, only, target', before)
  BY <1>2, ConfinedKept DEF TargetInv
<1>5. ASSUME NEW j \in AskedIn(archive, only), Finished(j)'
      PROVE  OnDiskIn(archive, target', j)
  <2>1. CASE j = d
    BY <1>5, <2>1
  <2>2. CASE j # d
    <3>1. OnDiskIn(archive, target, j)
      BY <1>5, <2>2 DEF TargetInv
    <3>2. j \in 1 .. Len(archive) /\ IsEntry(archive[j]) /\ archive[j].path # archive[d].path
      BY <1>2, <1>3, <2>2, AskedIs, EntryIs
    <3> QED
      BY <1>2, <1>3, <3>1, <3>2, DiskKept
  <2> QED
    BY <2>1, <2>2
<1>6. TargetInv' <=>
        /\ target' \in Target /\ IsTree(target')
        /\ IF mode' = "extract" THEN Confined(archive', only', target', before') ELSE target' = before'
        /\ mode' = "extract" =>
             \A j \in AskedIn(archive', only') : Finished(j)' => OnDiskIn(archive', target', j)
  BY DEF TargetInv
<1> QED
  BY <1>1, <1>4, <1>5, <1>6

(* An item that is taken between two payloads.                             *)
LEMMA Taken ==
  ASSUME IInv, NEW kind, Take(kind), UNCHANGED <<input, entries, fetched>>, pc' # "index"
  PROVE  /\ Consumed' = Consumed + 1 /\ Consumed' \in 1 .. Len(archive) /\ Consumed \in Nat
         /\ Item = archive[Consumed'] /\ archive[Consumed'].item = kind /\ Item \in Unit
         /\ archive \in Archives /\ archive' = archive /\ only \in Paths \union {NoPath}
         /\ mode' = mode /\ only' = only /\ Upto = Consumed
         /\ mode \in {"extract", "list"}
         /\ StreamInv' /\ buf' \in Seq(Unit)
<1>1. TypeOK /\ StreamInv /\ pc = "walk" /\ buf # <<>> /\ Head(buf).item = kind /\ buf' = Tail(buf)
      /\ UNCHANGED <<entries, fetched>> /\ UNCHANGED input
  BY DEF IInv, Take
<1>2. StreamInv'
  BY <1>1, StreamTaken
<1>3. /\ Consumed' = Consumed + 1 /\ Consumed' \in 1 .. Len(archive) /\ Consumed \in Nat
      /\ Item = archive[Consumed'] /\ Item \in Unit /\ buf' \in Seq(Unit) /\ archive \in Archives
  BY <1>1, Consumes, StreamIs DEF Item
<1>4. archive' = archive /\ mode' = mode /\ only' = only
  BY <1>1, SameInput
<1>5. Upto = Consumed /\ only \in Paths \union {NoPath} /\ mode \in {"extract", "list"}
  BY <1>1 DEF Upto, InPayload, StreamInv, TypeOK
<1> QED
  BY <1>1, <1>2, <1>3, <1>4, <1>5 DEF Item

LEMMA TakeVersionStep == ASSUME IInv, TakeVersion PROVE IInv'
<1>0. PICK d : d = Consumed'
  OBVIOUS
<1>1. /\ Take("version") /\ pc = "walk" /\ pc' = "walk"
      /\ UNCHANGED <<input, entries, fetched, cache, depth, file, target, files, bytes, listing>>
  BY DEF TakeVersion, Take, visitor
<1>2. /\ d = Consumed + 1 /\ d \in 1 .. Len(archive) /\ Consumed \in Nat
      /\ archive[d].item = "version"
      /\ archive \in Archives /\ archive' = archive /\ only \in Paths \union {NoPath}
      /\ mode' = mode /\ only' = only /\ Upto = Consumed /\ StreamInv' /\ buf' \in Seq(Unit)
  BY <1>0, <1>1, Taken
<1>3. Upto' = d
  BY <1>0, <1>1 DEF Upto, InPayload
<1>4. TypeOK'
  BY <1>1, <1>2 DEF IInv, TypeOK, input
<1>5. DepthInv'
  <2>1. Depth(archive, d) = Depth(archive, Consumed)
    BY <1>2, DepthStep
  <2> QED
    BY <1>0, <1>1, <1>2, <2>1 DEF IInv, DepthInv
<1>6. FileInv'
  BY <1>1 DEF IInv, FileInv, InPayload
<1>7. TargetInv'
  <2>1. ASSUME NEW j \in AskedIn(archive, only), Finished(j)' PROVE Finished(j)
    <3>1. j \in 1 .. Len(archive) /\ j # d /\ j <= d
      BY <1>2, <1>3, <2>1, AskedIs DEF IsEntry, Finished
    <3> QED
      BY <1>1, <1>2, <3>1 DEF Finished
  <2> QED
    BY <1>1, <2>1, TargetStays DEF IInv
<1>8. CountInv'
  <2>1. ~IsEntry(archive[d])
    BY <1>2 DEF IsEntry
  <2>2. ListIs(archive, listing, Consumed) => ListIs(archive, listing, d)
    BY <1>2, <2>1, ListStays
  <2>3. CountsAre(archive, only, files, bytes, Consumed) => CountsAre(archive, only, files, bytes, d)
    BY <1>2, ItemCounts DEF CountsAre
  <2> QED
    BY <1>1, <1>2, <1>3, <2>2, <2>3 DEF IInv, CountInv
<1> QED
  BY <1>2, <1>4, <1>5, <1>6, <1>7, <1>8 DEF IInv

-----------------------------------------------------------------------------
(* Directories, links and the ends of directories.                          *)

(* The lines of a listing.                                                 *)
Lines == [path : Paths, kind : {"dir", "link", "file"}, size : Nat]

LEMMA TakeDirStep == ASSUME IInv, TakeDir PROVE IInv'
<1> DEFINE p == Item.path
<1>0. PICK d : d = Consumed'
  OBVIOUS
<1>1. /\ Take("dir") /\ pc = "walk" /\ pc' = "walk" /\ depth' = depth + 1
      /\ UNCHANGED <<input, entries, fetched, cache, file, files, bytes>>
  BY DEF TakeDir, Take
<1>2. /\ d = Consumed + 1 /\ d \in 1 .. Len(archive) /\ Consumed \in Nat
      /\ Item = archive[d] /\ archive[d].item = "dir" /\ Item \in Unit
      /\ archive \in Archives /\ archive' = archive /\ only \in Paths \union {NoPath}
      /\ mode' = mode /\ only' = only /\ Upto = Consumed /\ StreamInv' /\ buf' \in Seq(Unit)
      /\ mode \in {"extract", "list"}
  BY <1>0, <1>1, Taken
<1>3. Upto' = d
  BY <1>0, <1>1 DEF Upto, InPayload
<1>4. /\ IsEntry(archive[d]) /\ archive[d].path = p /\ p \in Paths /\ archive[d].size = 0
  <2>1. IsEntry(archive[d])
    BY <1>2 DEF IsEntry
  <2> QED
    BY <1>2, <2>1, EntryIs
<1>5. \/ mode = "list" /\ listing' = Append(listing, Line(archive, d)) /\ target' = target
      \/ mode = "extract" /\ ~WantIn(only, p) /\ target' = target /\ listing' = listing
      \/ /\ mode = "extract" /\ WantIn(only, p) /\ ~Blocked(target, p)
         /\ target' = [MkdirAll(target, p) EXCEPT ![p].time = "archive"]
         /\ listing' = listing
  <2>1. Line(archive, d) = [path |-> p, kind |-> "dir", size |-> 0]
    BY <1>2, <1>4 DEF Line
  <2>2. Want(p) <=> WantIn(only, p)
    BY DEF Want, WantIn
  <2> QED
    BY <2>1, <2>2 DEF TakeDir, Ignores, Extracts, Listed
<1> HIDE DEF p
<1>6. d \in AskedIn(archive, only) <=> WantIn(only, p)
  BY <1>2, <1>4, AskedIs
<1>7. DepthInv'
  <2>1. Depth(archive, d) = Depth(archive, Consumed) + 1
    BY <1>2, DepthStep
  <2> QED
    BY <1>0, <1>1, <1>2, <2>1 DEF IInv, DepthInv
<1>8. FileInv'
  BY <1>1 DEF IInv, FileInv, InPayload
<1>9. \A j \in AskedIn(archive, only) : Finished(j)' /\ j # d => Finished(j)
  <2> SUFFICES ASSUME NEW j \in AskedIn(archive, only), Finished(j)', j # d PROVE Finished(j)
    OBVIOUS
  <2>1. j \in 1 .. Len(archive) /\ j <= d
    BY <1>2, <1>3, AskedIs DEF Finished
  <2> QED
    BY <1>1, <1>2, <2>1 DEF Finished
<1>10. TargetInv' /\ target' \in Target
  <2>1. target \in Target /\ IsTree(target)
    BY DEF IInv, TargetInv
  <2>2. CASE target' = target /\ (mode = "extract" => ~WantIn(only, p))
    <3>1. mode = "extract" => \A j \in AskedIn(archive, only) : Finished(j)' => Finished(j)
      BY <1>6, <1>9, <2>2
    <3> QED
      BY <1>1, <2>1, <2>2, <3>1, TargetStays DEF IInv
  <2>3. CASE /\ mode = "extract" /\ WantIn(only, p) /\ ~Blocked(target, p)
             /\ target' = [MkdirAll(target, p) EXCEPT ![p].time = "archive"]
    <3>1. target' \in Target /\ IsTree(target') /\ Kept(target, target', p) /\ DirAt(target', p)
      BY <1>4, <2>1, <2>3, DirMade
    <3>2. target'[p] # Absent /\ target'[p].kind = "dir"
      BY <3>1, NodeType DEF DirAt
    <3>3. OnDiskIn(archive, target', d)
      BY <1>2, <1>4, <3>2 DEF OnDiskIn
    <3> QED
      BY <1>1, <1>4, <1>6, <1>9, <2>3, <3>1, <3>3, TargetMoves DEF IInv
  <2> QED
    BY <1>5, <2>2, <2>3
<1>11. Line(archive, d) \in Lines
  BY <1>2, <1>4 DEF Line, Lines
<1>12. TypeOK'
  <2>1. listing' \in Seq(Lines)
    <3>1. listing \in Seq(Lines)
      BY DEF IInv, TypeOK, Lines
    <3>2. Append(listing, Line(archive, d)) \in Seq(Lines)
      BY <1>11, <3>1, AppendProperties
    <3> QED
      BY <1>5, <3>1, <3>2
  <2>2. depth' \in Nat
    BY <1>1 DEF IInv, TypeOK
  <2> QED
    BY <1>1, <1>2, <1>10, <2>1, <2>2 DEF IInv, TypeOK, input, Lines
<1>13. CountInv'
  <2>1. ASSUME mode = "list" PROVE ListIs(archive, listing', d)
    <3>1. ListIs(archive, listing, Consumed)
      BY <1>1, <1>2, <2>1 DEF IInv, CountInv
    <3>2. d \in Nat /\ \A k \in d + 1 .. d : ~IsEntry(archive[k])
      BY <1>2
    <3>3. listing \in Seq(Lines)
      BY DEF IInv, TypeOK, Lines
    <3>4. listing' = Append(listing, Line(archive, d))
      BY <1>5, <2>1
    <3>5. ListIs(archive, Append(listing, Line(archive, d)), d)
      BY <1>2, <1>4, <1>11, <3>1, <3>2, <3>3, ListGrows
    <3> QED
      BY <3>4, <3>5
  <2>2. CountsAre(archive, only, files, bytes, Consumed) => CountsAre(archive, only, files, bytes, d)
    BY <1>2, ItemCounts DEF CountsAre
  <2> QED
    BY <1>1, <1>2, <1>3, <2>1, <2>2 DEF IInv, CountInv
<1> QED
  BY <1>2, <1>7, <1>8, <1>10, <1>12, <1>13 DEF IInv

LEMMA TakeLinkStep == ASSUME IInv, TakeLink PROVE IInv'
<1> DEFINE p == Item.path
           link == Entry("link", <<>>, "system")
           there == OsRemove(MkdirAll(target, Front(p)), p)
<1>0. PICK d : d = Consumed'
  OBVIOUS
<1>1. /\ Take("link") /\ pc = "walk" /\ pc' = "walk"
      /\ UNCHANGED <<input, entries, fetched, cache, depth, file, files, bytes>>
  BY DEF TakeLink, Take
<1>2. /\ d = Consumed + 1 /\ d \in 1 .. Len(archive) /\ Consumed \in Nat
      /\ Item = archive[d] /\ archive[d].item = "link" /\ Item \in Unit
      /\ archive \in Archives /\ archive' = archive /\ only \in Paths \union {NoPath}
      /\ mode' = mode /\ only' = only /\ Upto = Consumed /\ StreamInv' /\ buf' \in Seq(Unit)
      /\ mode \in {"extract", "list"}
  BY <1>0, <1>1, Taken
<1>3. Upto' = d
  BY <1>0, <1>1 DEF Upto, InPayload
<1>4. /\ IsEntry(archive[d]) /\ archive[d].path = p /\ p \in Paths /\ archive[d].size = 0
      /\ p # <<>>
  <2>1. IsEntry(archive[d])
    BY <1>2 DEF IsEntry
  <2> QED
    BY <1>2, <2>1, EntryIs
<1>5. \/ mode = "list" /\ listing' = Append(listing, Line(archive, d)) /\ target' = target
      \/ mode = "extract" /\ ~WantIn(only, p) /\ target' = target /\ listing' = listing
      \/ /\ mode = "extract" /\ WantIn(only, p) /\ ~Blocked(target, Front(p))
         /\ ~Exists(there, p) /\ target' = Put(there, p, link)
         /\ listing' = listing
  <2>1. Line(archive, d) = [path |-> p, kind |-> "link", size |-> 0]
    BY <1>2, <1>4 DEF Line
  <2>2. Want(p) <=> WantIn(only, p)
    BY DEF Want, WantIn
  <2> QED
    BY <2>1, <2>2 DEF TakeLink, Ignores, Extracts, Listed
<1> HIDE DEF p
<1>6. d \in AskedIn(archive, only) <=> WantIn(only, p)
  BY <1>2, <1>4, AskedIs
<1>7. DepthInv'
  <2>1. Depth(archive, d) = Depth(archive, Consumed)
    BY <1>2, DepthStep
  <2> QED
    BY <1>0, <1>1, <1>2, <2>1 DEF IInv, DepthInv
<1>8. FileInv'
  BY <1>1 DEF IInv, FileInv, InPayload
<1>9. \A j \in AskedIn(archive, only) : Finished(j)' /\ j # d => Finished(j)
  <2> SUFFICES ASSUME NEW j \in AskedIn(archive, only), Finished(j)', j # d PROVE Finished(j)
    OBVIOUS
  <2>1. j \in 1 .. Len(archive) /\ j <= d
    BY <1>2, <1>3, AskedIs DEF Finished
  <2> QED
    BY <1>1, <1>2, <2>1 DEF Finished
<1>10. TargetInv' /\ target' \in Target
  <2>1. target \in Target /\ IsTree(target)
    BY DEF IInv, TargetInv
  <2>2. CASE target' = target /\ (mode = "extract" => ~WantIn(only, p))
    <3>1. mode = "extract" => \A j \in AskedIn(archive, only) : Finished(j)' => Finished(j)
      BY <1>6, <1>9, <2>2
    <3> QED
      BY <1>1, <2>1, <2>2, <3>1, TargetStays DEF IInv
  <2>3. CASE /\ mode = "extract" /\ WantIn(only, p) /\ ~Blocked(target, Front(p))
             /\ ~Exists(there, p) /\ target' = Put(there, p, link)
    <3>1. link \in Node /\ link.kind = "link"
      BY NodeType
    <3> HIDE DEF link
    <3>2. /\ target' \in Target /\ IsTree(target') /\ Kept(target, target', p)
          /\ target'[p] = link
      BY <1>4, <2>1, <2>3, <3>1, EntryMade
    <3>3. OnDiskIn(archive, target', d)
      BY <1>2, <1>4, <3>1, <3>2, NodeType DEF OnDiskIn
    <3> QED
      BY <1>1, <1>4, <1>6, <1>9, <2>3, <3>2, <3>3, TargetMoves DEF IInv
  <2> QED
    BY <1>5, <2>2, <2>3
<1>11. Line(archive, d) \in Lines
  BY <1>2, <1>4 DEF Line, Lines
<1>12. TypeOK'
  <2>1. listing' \in Seq(Lines)
    <3>1. listing \in Seq(Lines)
      BY DEF IInv, TypeOK, Lines
    <3>2. Append(listing, Line(archive, d)) \in Seq(Lines)
      BY <1>11, <3>1, AppendProperties
    <3> QED
      BY <1>5, <3>1, <3>2
  <2> QED
    BY <1>1, <1>2, <1>10, <2>1 DEF IInv, TypeOK, input, Lines
<1>13. CountInv'
  <2>1. ASSUME mode = "list" PROVE ListIs(archive, listing', d)
    <3>1. ListIs(archive, listing, Consumed)
      BY <1>1, <1>2, <2>1 DEF IInv, CountInv
    <3>2. d \in Nat /\ \A k \in d + 1 .. d : ~IsEntry(archive[k])
      BY <1>2
    <3>3. listing \in Seq(Lines)
      BY DEF IInv, TypeOK, Lines
    <3>4. listing' = Append(listing, Line(archive, d))
      BY <1>5, <2>1
    <3>5. ListIs(archive, Append(listing, Line(archive, d)), d)
      BY <1>2, <1>4, <1>11, <3>1, <3>2, <3>3, ListGrows
    <3> QED
      BY <3>4, <3>5
  <2>2. CountsAre(archive, only, files, bytes, Consumed) => CountsAre(archive, only, files, bytes, d)
    BY <1>2, ItemCounts DEF CountsAre
  <2> QED
    BY <1>1, <1>2, <1>3, <2>1, <2>2 DEF IInv, CountInv
<1> QED
  BY <1>2, <1>7, <1>8, <1>10, <1>12, <1>13 DEF IInv

LEMMA TakeGoodbyeStep == ASSUME IInv, TakeGoodbye PROVE IInv'
<1>0. PICK d : d = Consumed'
  OBVIOUS
<1>1. /\ Take("goodbye") /\ pc = "walk" /\ depth' = depth - 1
      /\ pc' = IF depth' = 0 THEN "ok" ELSE "walk"
      /\ UNCHANGED <<input, entries, fetched, cache, file, target, files, bytes, listing>>
  BY DEF TakeGoodbye, Take, visitor
<1>2. pc' \in {"ok", "walk"} /\ pc' # "index"
  BY <1>1
<1>3. /\ d = Consumed + 1 /\ d \in 1 .. Len(archive) /\ Consumed \in Nat
      /\ archive[d].item = "goodbye"
      /\ archive \in Archives /\ archive' = archive /\ only \in Paths \union {NoPath}
      /\ mode' = mode /\ only' = only /\ Upto = Consumed /\ StreamInv' /\ buf' \in Seq(Unit)
  BY <1>0, <1>1, <1>2, Taken
<1>4. Upto' = d
  BY <1>0, <1>2 DEF Upto, InPayload
<1>5. /\ depth' = Depth(archive, d) /\ depth' >= 0 /\ depth' \in Int
      /\ (depth' = 0 <=> d = Len(archive))
  <2>1. depth = Depth(archive, Consumed)
    BY <1>1 DEF IInv, DepthInv
  <2>2. Depth(archive, d) = Depth(archive, Consumed) - 1 /\ Depth(archive, Consumed) \in Int
    BY <1>3, DepthStep
  <2>3. Depth(archive, d) >= 0 /\ (Depth(archive, d) = 0 <=> d = Len(archive))
    BY <1>3, GoodbyeIs
  <2> QED
    BY <1>1, <2>1, <2>2, <2>3
<1>6. TypeOK'
  BY <1>1, <1>2, <1>3, <1>5 DEF IInv, TypeOK, input, Ended
<1>7. DepthInv'
  BY <1>0, <1>1, <1>2, <1>3, <1>5 DEF DepthInv
<1>8. FileInv'
  BY <1>1, <1>2 DEF IInv, FileInv, InPayload
<1>9. TargetInv'
  <2>1. ASSUME NEW j \in AskedIn(archive, only), Finished(j)' PROVE Finished(j)
    <3>1. j \in 1 .. Len(archive) /\ j # d /\ j <= d
      BY <1>3, <1>4, <2>1, AskedIs DEF IsEntry, Finished
    <3> QED
      BY <1>1, <1>3, <3>1 DEF Finished
  <2> QED
    BY <1>1, <2>1, TargetStays DEF IInv
<1>10. CountInv'
  <2>1. ~IsEntry(archive[d])
    BY <1>3 DEF IsEntry
  <2>2. ListIs(archive, listing, Consumed) => ListIs(archive, listing, d)
    BY <1>3, <2>1, ListStays
  <2>3. CountsAre(archive, only, files, bytes, Consumed) => CountsAre(archive, only, files, bytes, d)
    BY <1>3, ItemCounts DEF CountsAre
  <2> QED
    BY <1>1, <1>3, <1>4, <2>2, <2>3 DEF IInv, CountInv
<1> QED
  BY <1>3, <1>6, <1>7, <1>8, <1>9, <1>10 DEF IInv

-----------------------------------------------------------------------------
(* Files and their payloads.                                                *)

(* Where the decoder is in a payload.                                      *)
LEMMA PayloadNow ==
  ASSUME IInv, InPayload
  PROVE  /\ Current \in 1 .. Len(archive) /\ Current <= Consumed
         /\ IsEntry(archive[Current]) /\ archive[Current].item = "file"
         /\ archive[Current].path = file.path /\ archive[Current].size = file.size
         /\ file.path \in Paths /\ file.size \in Nat /\ file.left \in 0 .. file.size
         /\ file.path # <<>>
         /\ Current + file.size = Consumed + file.left
         /\ Current + file.size <= Len(archive)
         /\ \A k \in Current + 1 .. Current + file.size : k \in 1 .. Len(archive) /\ archive[k].item = "data"
         /\ Current \in AskedIn(archive, only) <=> WantIn(only, file.path)
         /\ Upto = Current - 1
         /\ archive \in Archives /\ Consumed \in Nat
         /\ \A j \in AskedIn(archive, only) : j <= Consumed /\ j # Current => j <= Upto
<1>1. /\ archive \in Archives /\ Consumed \in Nat /\ Len(archive) \in Nat
      /\ Consumed <= Len(archive)
  BY StreamIs DEF IInv
<1>2. /\ file.path \in Paths /\ file.size \in Nat /\ file.left \in 0 .. file.size
      /\ Current >= 1 /\ archive[Current].item = "file"
      /\ archive[Current].path = file.path /\ archive[Current].size = file.size
  BY DEF IInv, FileInv
<1>3. Current = Consumed - (file.size - file.left)
  BY DEF Current
<1>4. Upto = Current - 1
  BY DEF Upto
<1> DEFINE i == Current
<1> HIDE DEF i
<1>5. i \in 1 .. Len(archive) /\ i <= Consumed /\ i + file.size = Consumed + file.left
  BY <1>1, <1>2, <1>3 DEF i
<1>6. IsEntry(archive[i]) /\ archive[i].item = "file" /\ archive[i].size = file.size
      /\ archive[i].path = file.path
  BY <1>2 DEF IsEntry, i
<1>7. file.path # <<>>
  BY <1>1, <1>5, <1>6, EntryIs
<1>8. /\ i + file.size <= Len(archive)
      /\ \A k \in i + 1 .. i + file.size : k \in 1 .. Len(archive) /\ archive[k].item = "data"
  BY <1>1, <1>5, <1>6, PayloadIs
<1>9. i \in AskedIn(archive, only) <=> WantIn(only, file.path)
  BY <1>1, <1>5, <1>6, AskedIs
<1>10. ASSUME NEW j \in AskedIn(archive, only), j <= Consumed, j # i PROVE j <= i - 1
  <2>1. j \in 1 .. Len(archive) /\ IsEntry(archive[j])
    BY <1>1, AskedIs
  <2>2. j \notin i + 1 .. i + file.size
    BY <1>8, <2>1 DEF IsEntry
  <2> QED
    BY <1>1, <1>2, <1>5, <1>10, <2>1, <2>2
<1> QED
  BY <1>1, <1>2, <1>4, <1>5, <1>6, <1>7, <1>8, <1>9, <1>10 DEF i

LEMMA TakeFileStep == ASSUME IInv, TakeFile PROVE IInv'
<1> DEFINE p == Item.path
           empty == Entry("file", <<>>, "system")
<1>0. PICK d : d = Consumed'
  OBVIOUS
<1>1. /\ Take("file") /\ pc = "walk" /\ pc' \in {"copy", "skip"}
      /\ file' = [path |-> p, size |-> Item.size, left |-> Item.size]
      /\ UNCHANGED <<input, entries, fetched, cache, depth, files, bytes, listing>>
  BY DEF TakeFile, Take
<1>2. /\ d = Consumed + 1 /\ d \in 1 .. Len(archive) /\ Consumed \in Nat
      /\ Item = archive[d] /\ archive[d].item = "file" /\ Item \in Unit
      /\ archive \in Archives /\ archive' = archive /\ only \in Paths \union {NoPath}
      /\ mode' = mode /\ only' = only /\ Upto = Consumed /\ StreamInv' /\ buf' \in Seq(Unit)
      /\ mode \in {"extract", "list"}
  BY <1>0, <1>1, Taken
<1>3. /\ IsEntry(archive[d]) /\ archive[d].path = p /\ p \in Paths /\ p # <<>>
      /\ archive[d].size = Item.size /\ Item.size \in Nat
  <2>1. IsEntry(archive[d])
    BY <1>2 DEF IsEntry
  <2> QED
    BY <1>2, <2>1, EntryIs
<1>4. \/ mode = "list" /\ pc' = "copy" /\ target' = target
      \/ mode = "extract" /\ ~WantIn(only, p) /\ pc' = "skip" /\ target' = target
      \/ /\ mode = "extract" /\ WantIn(only, p)
         /\ ~Blocked(target, Front(p)) /\ ~IsDir(target, p)
         /\ pc' = "copy" /\ target' = Put(MkdirAll(target, Front(p)), p, empty)
  <2>1. Want(p) <=> WantIn(only, p)
    BY DEF Want, WantIn
  <2> QED
    BY <2>1 DEF TakeFile, Ignores, Extracts, OldData
<1> HIDE DEF p
<1>5. /\ file' \in [path : Paths, size : Nat, left : Nat]
      /\ file'.path = p /\ file'.size = Item.size /\ file'.left = Item.size
  BY <1>1, <1>3
<1>6. Current' = d /\ Upto' = Consumed
  <2>1. Current' = d - (file'.size - file'.left)
    BY <1>0 DEF Current
  <2>2. Current' = d
    BY <1>2, <1>3, <1>5, <2>1
  <2>3. Upto' = Current' - 1
    BY <1>1 DEF Upto, InPayload
  <2> QED
    BY <1>2, <2>2, <2>3
<1>7. d \in AskedIn(archive, only) <=> WantIn(only, p)
  BY <1>2, <1>3, AskedIs
<1>8. DepthInv'
  <2>1. Depth(archive, d) = Depth(archive, Consumed)
    BY <1>2, DepthStep
  <2> QED
    BY <1>0, <1>1, <1>2, <2>1 DEF IInv, DepthInv
<1>9. \A j \in AskedIn(archive, only) : Finished(j)' => Finished(j) /\ j # d
  <2> SUFFICES ASSUME NEW j \in AskedIn(archive, only), Finished(j)' PROVE Finished(j) /\ j # d
    OBVIOUS
  <2>1. j \in 1 .. Len(archive) /\ j <= Consumed
    BY <1>2, <1>6, AskedIs DEF Finished
  <2> QED
    BY <1>1, <1>2, <2>1 DEF Finished
<1>10. /\ TargetInv' /\ target' \in Target
       /\ mode = "extract" /\ pc' = "copy" =>
            WantIn(only, p) /\ target'[p] # Absent /\ target'[p].kind = "file" /\ target'[p].data = <<>>
  <2>1. target \in Target /\ IsTree(target)
    BY DEF IInv, TargetInv
  <2>2. CASE target' = target /\ (mode = "extract" => ~WantIn(only, p) /\ pc' = "skip")
    <3>1. mode = "extract" => \A j \in AskedIn(archive, only) : Finished(j)' => Finished(j)
      BY <1>9
    <3> QED
      BY <1>1, <2>1, <2>2, <3>1, TargetStays DEF IInv
  <2>3. CASE /\ mode = "extract" /\ WantIn(only, p) /\ ~Blocked(target, Front(p))
             /\ ~IsDir(target, p) /\ target' = Put(MkdirAll(target, Front(p)), p, empty)
    <3>1. empty \in Node /\ empty.kind = "file" /\ empty.data = <<>>
      BY NodeType
    <3> HIDE DEF empty
    <3>2. /\ target' \in Target /\ IsTree(target') /\ Kept(target, target', p)
          /\ target'[p] = empty
      BY <1>3, <2>1, <2>3, <3>1, EntryMade
    <3>3. d \in AskedIn(archive, only) /\ ~Finished(d)'
      BY <1>7, <1>9, <2>3
    <3>4. TargetInv'
      BY <1>1, <1>3, <1>9, <2>3, <3>2, <3>3, TargetMoves DEF IInv
    <3> QED
      BY <2>3, <3>1, <3>2, <3>4, NodeType
  <2> QED
    BY <1>4, <2>2, <2>3
<1>11. FileInv'
  <2>1. SubSeq(archive, d + 1, d) = <<>>
    BY <1>2, SubSeqEmpty
  <2>2. Current' >= 1 /\ archive'[Current'].item = "file" /\ archive'[Current'].path = file'.path
        /\ archive'[Current'].size = file'.size
    BY <1>2, <1>3, <1>5, <1>6
  <2>3. SubSeq(archive', Current' + 1, Consumed') = <<>>
    BY <1>0, <1>2, <1>6, <2>1
  <2>4. pc' = "skip" => mode' = "extract" /\ ~WantIn(only', file'.path)
    BY <1>2, <1>4, <1>5
  <2>5. file'.left <= file'.size
    BY <1>3, <1>5
  <2>6. mode' = "extract" /\ pc' = "copy" =>
          /\ WantIn(only', file'.path)
          /\ target'[file'.path] # Absent /\ target'[file'.path].kind = "file"
          /\ target'[file'.path].data = SubSeq(archive', Current' + 1, Consumed')
    BY <1>2, <1>5, <1>10, <2>3
  <2> QED
    BY <1>5, <2>2, <2>4, <2>5, <2>6 DEF FileInv
<1>12. TypeOK'
  <2>1. file'.path \in Paths /\ file'.left \in 0 .. file'.size
    BY <1>3, <1>5
  <2> QED
    BY <1>1, <1>2, <1>10, <2>1 DEF IInv, TypeOK, input
<1>13. CountInv'
  BY <1>1, <1>2, <1>6 DEF IInv, CountInv
<1> QED
  BY <1>2, <1>8, <1>10, <1>11, <1>12, <1>13 DEF IInv

LEMMA CopyDataStep == ASSUME IInv, CopyData PROVE IInv'
<1> DEFINE p == file.path
<1>0. PICK d, i : d = Consumed' /\ i = Current
  OBVIOUS
<1>1. /\ pc \in {"copy", "skip"} /\ pc' = pc /\ file.left > 0
      /\ buf # <<>> /\ buf' = Tail(buf) /\ file' = [file EXCEPT !.left = @ - 1]
      /\ UNCHANGED <<input, entries, fetched, cache, depth, files, bytes, listing>>
  BY DEF CopyData, Limited
<1>2. /\ i \in 1 .. Len(archive) /\ i <= Consumed /\ i + file.size = Consumed + file.left
      /\ IsEntry(archive[i]) /\ archive[i].item = "file" /\ archive[i].path = p
      /\ archive[i].size = file.size /\ p \in Paths /\ file.size \in Nat /\ file.left \in 0 .. file.size
      /\ \A k \in i + 1 .. i + file.size : k \in 1 .. Len(archive) /\ archive[k].item = "data"
      /\ i \in AskedIn(archive, only) <=> WantIn(only, p)
      /\ Upto = i - 1 /\ archive \in Archives /\ Consumed \in Nat
  BY <1>0, <1>1, PayloadNow DEF InPayload
<1>3. /\ d = Consumed + 1 /\ d \in 1 .. Len(archive) /\ Item = archive[d] /\ Item \in Unit
      /\ buf' \in Seq(Unit) /\ StreamInv'
      /\ archive' = archive /\ mode' = mode /\ only' = only
  <2>1. StreamInv'
    BY <1>1, StreamTaken DEF IInv
  <2> QED
    BY <1>0, <1>1, <2>1, Consumes, SameInput DEF IInv, Item
<1>4. /\ file' \in [path : Paths, size : Nat, left : Nat]
      /\ file'.path = p /\ file'.size = file.size /\ file'.left = file.left - 1
  <2>1. file \in [path : Paths, size : Nat, left : Nat]
    BY DEF IInv, FileInv
  <2> QED
    BY <1>1, <1>2, <2>1
<1>5. Current' = i /\ Upto' = Upto
  <2>1. Current' = d - (file'.size - file'.left)
    BY <1>0 DEF Current
  <2>2. i = Consumed - (file.size - file.left)
    BY <1>0 DEF Current
  <2>3. Current' = i
    <3> DEFINE done == file.size - file.left
    <3>1. file'.size - file'.left = done + 1 /\ done \in Int
      BY <1>2, <1>4
    <3>2. i = Consumed - done /\ Current' = d - (done + 1)
      BY <2>1, <2>2, <3>1
    <3> HIDE DEF done
    <3> QED
      BY <1>2, <1>3, <3>1, <3>2
  <2>4. Upto' = Current' - 1
    BY <1>1 DEF Upto, InPayload
  <2> QED
    BY <1>2, <2>3, <2>4
<1> HIDE DEF p
<1>6. archive[d].item = "data"
  <2> DEFINE top == i + file.size
  <2>1. d > i /\ d <= top /\ i \in Int /\ top \in Int /\ d \in Int
    BY <1>1, <1>2, <1>3
  <2>2. \A k \in i + 1 .. top : archive[k].item = "data"
    BY <1>2
  <2> HIDE DEF top
  <2> QED
    BY <2>1, <2>2
<1>7. DepthInv'
  <2>1. Depth(archive, d) = Depth(archive, Consumed)
    BY <1>2, <1>3, <1>6, DepthStep
  <2> QED
    BY <1>0, <1>1, <1>3, <2>1 DEF IInv, DepthInv
<1>8. \A j \in AskedIn(archive, only) : Finished(j)' => Finished(j) /\ j # i
  <2> SUFFICES ASSUME NEW j \in AskedIn(archive, only), Finished(j)' PROVE Finished(j) /\ j # i
    OBVIOUS
  <2>1. j \in 1 .. Len(archive) /\ j <= Upto
    BY <1>2, <1>5, AskedIs DEF Finished
  <2> QED
    BY <1>1, <1>2, <2>1 DEF Finished
<1>9. /\ TargetInv' /\ target' \in Target
      /\ mode = "extract" /\ pc = "copy" =>
           target'[p] # Absent /\ target'[p].kind = "file" /\ target'[p].data = SubSeq(archive, i + 1, d)
  <2>1. target \in Target /\ IsTree(target)
    BY DEF IInv, TargetInv
  <2>2. CASE ~(mode = "extract" /\ pc = "copy")
    <3>1. target' = target
      BY <2>2 DEF CopyData
    <3>2. mode = "extract" => \A j \in AskedIn(archive, only) : Finished(j)' => Finished(j)
      BY <1>8
    <3> QED
      BY <1>1, <2>1, <2>2, <3>1, <3>2, TargetStays DEF IInv
  <2>3. CASE mode = "extract" /\ pc = "copy"
    <3> DEFINE node == [target[p] EXCEPT !.data = Append(target[p].data, Item)]
    <3>1. /\ WantIn(only, p) /\ target[p] # Absent /\ target[p].kind = "file"
          /\ target[p].data = SubSeq(archive, i + 1, Consumed)
      BY <1>0, <1>1, <2>3 DEF IInv, FileInv, InPayload, p
    <3>2. target' = [target EXCEPT ![p] = node]
      BY <2>3 DEF CopyData, p
    <3>3. /\ SubSeq(archive, i + 1, Consumed) \in Seq(Unit)
          /\ Append(SubSeq(archive, i + 1, Consumed), archive[d]) = SubSeq(archive, i + 1, d)
      <4> DEFINE m == i + 1
      <4>1. m \in Nat /\ m >= 1 /\ m <= Consumed + 1 /\ Consumed + 1 <= Len(archive)
        BY <1>2, <1>3
      <4> HIDE DEF m
      <4>2. /\ SubSeq(archive, m, Consumed) \in Seq(Unit)
            /\ Append(SubSeq(archive, m, Consumed), archive[Consumed + 1]) = SubSeq(archive, m, Consumed + 1)
        BY <1>2, <4>1, Grown
      <4> QED
        BY <1>3, <4>2 DEF m
    <3>4. SubSeq(archive, i + 1, d) \in Seq(Unit)
      BY <1>3, <3>3, AppendProperties
    <3>5. node \in Node /\ node.kind = "file" /\ node.data = SubSeq(archive, i + 1, d)
      <4>1. target[p] \in Node
        BY <1>2, <2>1, <3>1, TargetAt
      <4>2. Append(target[p].data, Item) \in Data
        BY <1>3, <3>1, <3>3, <3>4 DEF Data
      <4> QED
        BY <1>3, <3>1, <3>3, <4>1, <4>2 DEF Node
    <3> HIDE DEF node
    <3>6. target' \in Target /\ IsTree(target') /\ Kept(target, target', p) /\ target'[p] = node
      BY <1>2, <2>1, <3>1, <3>2, <3>5, FileWritten, ZenonT(30)
    <3>7. i \in AskedIn(archive, only) /\ ~Finished(i)'
      BY <1>2, <1>8, <3>1
    <3>8. TargetInv'
      BY <1>1, <1>2, <1>8, <2>3, <3>6, <3>7, TargetMoves DEF IInv
    <3> QED
      BY <3>5, <3>6, <3>8, NodeType
  <2> QED
    BY <2>2, <2>3
<1>10. FileInv'
  <2>1. Current' >= 1 /\ archive'[Current'].item = "file" /\ archive'[Current'].path = file'.path
        /\ archive'[Current'].size = file'.size
    BY <1>2, <1>3, <1>4, <1>5
  <2>2. pc' = "skip" => mode' = "extract" /\ ~WantIn(only', file'.path)
    BY <1>1, <1>3, <1>4 DEF IInv, FileInv, InPayload, p
  <2>3. file'.left <= file'.size
    BY <1>2, <1>4
  <2>4. mode = "extract" /\ pc = "copy" => WantIn(only, p)
    BY <1>1 DEF IInv, FileInv, InPayload, p
  <2>5. mode' = "extract" /\ pc' = "copy" =>
          /\ WantIn(only', file'.path)
          /\ target'[file'.path] # Absent /\ target'[file'.path].kind = "file"
          /\ target'[file'.path].data = SubSeq(archive', Current' + 1, Consumed')
    BY <1>0, <1>1, <1>3, <1>4, <1>5, <1>9, <2>4
  <2> QED
    BY <1>4, <2>1, <2>2, <2>3, <2>5 DEF FileInv
<1>11. TypeOK'
  <2>1. file'.path \in Paths /\ file'.left \in 0 .. file'.size
    BY <1>1, <1>2, <1>4
  <2> QED
    BY <1>1, <1>3, <1>9, <2>1 DEF IInv, TypeOK, input
<1>12. CountInv'
  BY <1>1, <1>3, <1>5 DEF IInv, CountInv
<1> QED
  BY <1>3, <1>7, <1>9, <1>10, <1>11, <1>12 DEF IInv

-----------------------------------------------------------------------------
(* The end of a file, and the ways a restore stops.                         *)

(* A file gets the archive's times.                                        *)
LEMMA FileDoneWrites ==
  ASSUME IInv, pc = "copy", mode = "extract", FileDone
  PROVE  LET p == file.path
         IN /\ files' = files + 1 /\ bytes' = bytes + Copied /\ listing' = listing
            /\ target' \in Target /\ IsTree(target') /\ Kept(target, target', p)
            /\ target'[p] # Absent /\ target'[p].kind = "file" /\ target'[p].time = "archive"
            /\ target'[p].data = SubSeq(archive, Current + 1, Consumed)
            /\ WantIn(only, p)
<1> DEFINE p == file.path
           node == [target[p] EXCEPT !.time = "archive"]
<1>1. /\ files' = files + 1 /\ bytes' = bytes + Copied /\ listing' = listing
      /\ target' = [target EXCEPT ![p] = node]
  BY DEF FileDone
<1>2. /\ p \in Paths /\ target \in Target /\ IsTree(target) /\ WantIn(only, p)
      /\ target[p] # Absent /\ target[p].kind = "file"
      /\ target[p].data = SubSeq(archive, Current + 1, Consumed)
  BY DEF IInv, FileInv, TargetInv, InPayload
<1>3. target[p] \in Node
  BY <1>2, TargetAt
<1>4. node \in Node /\ node.kind = "file" /\ node.time = "archive" /\ node.data = target[p].data
  BY <1>2, <1>3 DEF Node
<1> HIDE DEF node, p
<1>5. target' \in Target /\ IsTree(target') /\ Kept(target, target', p) /\ target'[p] = node
  BY <1>1, <1>2, <1>4, FileWritten
<1>6. target'[p] # Absent
  BY <1>4, <1>5, NodeType
<1> QED
  BY <1>1, <1>2, <1>4, <1>5, <1>6 DEF p

LEMMA FileDoneLists ==
  ASSUME IInv, pc = "copy", mode = "list", FileDone
  PROVE  /\ UNCHANGED <<target, files, bytes>>
         /\ listing' = Append(listing, [path |-> file.path, kind |-> "file", size |-> Copied])
BY DEF FileDone, Listed

LEMMA VisitorType ==
  ASSUME IInv, InPayload, IF pc = "copy" THEN FileDone ELSE UNCHANGED visitor
  PROVE  /\ target' \in Target /\ files' \in Nat /\ bytes' \in Nat /\ listing' \in Seq(Lines)
<1>1. /\ file.path \in Paths /\ file.size \in Nat /\ file.left \in 0 .. file.size
  BY PayloadNow
<1>2. target \in Target /\ files \in Nat /\ bytes \in Nat /\ listing \in Seq(Lines) /\ Copied \in Nat
      /\ mode \in {"extract", "list"}
  BY <1>1 DEF IInv, TypeOK, Lines, Copied
<1>3. CASE pc = "copy" /\ mode = "extract"
  BY <1>2, <1>3, FileDoneWrites
<1>4. CASE pc = "copy" /\ mode = "list"
  <2> DEFINE line == [path |-> file.path, kind |-> "file", size |-> Copied]
  <2>1. line \in Lines
    BY <1>1, <1>2 DEF Lines
  <2>2. listing' = Append(listing, line) /\ UNCHANGED <<target, files, bytes>>
    BY <1>4, FileDoneLists
  <2> HIDE DEF line
  <2>3. Append(listing, line) \in Seq(Lines)
    BY <1>2, <2>1, AppendProperties
  <2> QED
    BY <1>2, <2>2, <2>3
<1>5. CASE pc # "copy"
  BY <1>2, <1>5 DEF visitor
<1> QED
  BY <1>2, <1>3, <1>4, <1>5

LEMMA EndFileStep == ASSUME IInv, EndFile PROVE IInv'
<1> DEFINE p == file.path
<1>0. PICK i : i = Current
  OBVIOUS
<1>1. /\ pc \in {"copy", "skip"} /\ file.left = 0 /\ pc' = "walk" /\ file' = NoFile
      /\ IF pc = "copy" THEN FileDone ELSE UNCHANGED visitor
      /\ UNCHANGED <<input, entries, fetched, cache, buf, depth>>
  BY DEF EndFile, stream
<1>2. /\ i \in 1 .. Len(archive) /\ i <= Consumed /\ i + file.size = Consumed + file.left
      /\ IsEntry(archive[i]) /\ archive[i].item = "file" /\ archive[i].path = p
      /\ archive[i].size = file.size /\ p \in Paths /\ file.size \in Nat
      /\ \A k \in i + 1 .. i + file.size : k \in 1 .. Len(archive) /\ archive[k].item = "data"
      /\ i \in AskedIn(archive, only) <=> WantIn(only, p)
      /\ Upto = i - 1 /\ archive \in Archives /\ Consumed \in Nat
      /\ \A j \in AskedIn(archive, only) : j <= Consumed /\ j # i => j <= Upto
  BY <1>0, <1>1, PayloadNow DEF InPayload
<1>3. /\ StreamInv' /\ Consumed' = Consumed /\ archive' = archive /\ mode' = mode /\ only' = only
      /\ mode \in {"extract", "list"}
  BY <1>1, StreamStays, SameInput DEF IInv, TypeOK
<1>4. Consumed = i + file.size
  BY <1>1, <1>2
<1>5. Upto' = Consumed
  BY <1>1, <1>3 DEF Upto, InPayload
<1>6. /\ target' \in Target /\ files' \in Nat /\ bytes' \in Nat /\ listing' \in Seq(Lines)
  BY <1>1, VisitorType DEF InPayload
<1>7. <<>> \in Paths
  BY RestoreAssumption
<1>8. TypeOK'
  BY <1>1, <1>3, <1>6, <1>7 DEF IInv, TypeOK, input, Lines, NoFile
<1>9. DepthInv'
  BY <1>1, <1>3 DEF IInv, DepthInv
<1>10. FileInv'
  BY <1>1, <1>7 DEF FileInv, InPayload, NoFile
<1> HIDE DEF p
<1>11. \A j \in AskedIn(archive, only) : Finished(j)' /\ j # i => Finished(j)
  BY <1>1, <1>2, <1>5 DEF Finished
<1>12. TargetInv'
  <2>1. CASE pc = "copy" /\ mode = "extract"
    <3>1. /\ target' \in Target /\ IsTree(target') /\ Kept(target, target', p)
          /\ target'[p] # Absent /\ target'[p].kind = "file" /\ target'[p].time = "archive"
          /\ target'[p].data = SubSeq(archive, i + 1, Consumed)
          /\ WantIn(only, p)
      BY <1>0, <1>1, <2>1, FileDoneWrites DEF p
    <3>2. OnDiskIn(archive, target', i)
      BY <1>2, <1>4, <3>1 DEF OnDiskIn
    <3> QED
      BY <1>1, <1>2, <1>11, <2>1, <3>1, <3>2, TargetMoves DEF IInv
  <2>2. CASE ~(pc = "copy" /\ mode = "extract")
    <3>1. target' = target
      BY <1>1, <1>3, <2>2, FileDoneLists DEF visitor
    <3>2. mode = "extract" => ~WantIn(only, p)
      BY <1>1, <2>2 DEF IInv, FileInv, InPayload, p
    <3>3. mode = "extract" => \A j \in AskedIn(archive, only) : Finished(j)' => Finished(j)
      BY <1>2, <1>11, <3>2
    <3> QED
      BY <1>1, <3>1, <3>3, TargetStays DEF IInv
  <2> QED
    BY <2>1, <2>2
<1>13. CountInv'
  <2>0. PICK c : c = i - 1
    OBVIOUS
  <2>1. c \in Nat /\ i = c + 1 /\ Upto = c /\ i \in Nat
    BY <1>2, <2>0
  <2>2. /\ i \in AskedIn(archive, only) =>
             /\ Count(FilesIn(archive, only), Consumed) = Count(FilesIn(archive, only), c) + 1
             /\ Count(DataIn(archive, only), Consumed) = Count(DataIn(archive, only), c) + file.size
        /\ i \notin AskedIn(archive, only) =>
              /\ Count(FilesIn(archive, only), Consumed) = Count(FilesIn(archive, only), c)
              /\ Count(DataIn(archive, only), Consumed) = Count(DataIn(archive, only), c)
    BY <1>2, <1>4, <2>1, FileCounts
  <2>3. Copied = file.size
    BY <1>1, <1>2 DEF Copied
  <2>4. CASE mode = "extract" /\ pc = "copy"
    <3>1. files' = files + 1 /\ bytes' = bytes + file.size /\ WantIn(only, p)
      BY <1>1, <2>3, <2>4, FileDoneWrites DEF p
    <3>2. CountsAre(archive, only, files, bytes, c)
      BY <2>1, <2>4 DEF IInv, CountInv
    <3>3. i \in AskedIn(archive, only)
      BY <1>2, <3>1
    <3>4. CountsAre(archive, only, files', bytes', Consumed)
      BY <2>2, <3>1, <3>2, <3>3 DEF CountsAre
    <3> QED
      BY <1>3, <1>5, <2>4, <3>4 DEF CountInv
  <2>5. CASE mode = "extract" /\ pc = "skip"
    <3>1. files' = files /\ bytes' = bytes
      BY <1>1, <2>5 DEF visitor
    <3>2. CountsAre(archive, only, files, bytes, c)
      BY <2>1, <2>5 DEF IInv, CountInv
    <3>3. i \notin AskedIn(archive, only)
      BY <1>2, <2>5 DEF IInv, FileInv, InPayload, p
    <3>4. CountsAre(archive, only, files', bytes', Consumed)
      BY <2>2, <3>1, <3>2, <3>3 DEF CountsAre
    <3> QED
      BY <1>3, <1>5, <2>5, <3>4 DEF CountInv
  <2>6. CASE mode = "list"
    <3>1. pc = "copy"
      BY <1>1, <2>6 DEF IInv, FileInv, InPayload
    <3>2. Line(archive, i) = [path |-> file.path, kind |-> "file", size |-> Copied]
      BY <1>2, <2>3 DEF Line, p
    <3>3. listing' = Append(listing, Line(archive, i))
      BY <1>1, <2>6, <3>1, <3>2, FileDoneLists
    <3>4. Line(archive, i) \in Lines /\ listing \in Seq(Lines)
      BY <1>2 DEF Line, Lines, IInv, TypeOK
    <3>5. ListIs(archive, listing, c)
      BY <2>1, <2>6, <3>1 DEF IInv, CountInv
    <3>6. \A k \in i + 1 .. Consumed : ~IsEntry(archive[k])
      BY <1>2, <1>4 DEF IsEntry
    <3>7. ListIs(archive, Append(listing, Line(archive, i)), Consumed)
      BY <1>2, <2>1, <3>4, <3>5, <3>6, ListGrows
    <3> QED
      BY <1>3, <1>5, <2>6, <3>3, <3>7 DEF CountInv
  <2> QED
    BY <1>1, <1>3, <2>4, <2>5, <2>6
<1> QED
  BY <1>3, <1>8, <1>9, <1>10, <1>12, <1>13 DEF IInv
-----------------------------------------------------------------------------
(* A restore that ends: what is finished is what was before.               *)
LEMMA Stops ==
  ASSUME IInv, pc \notin Ended, pc' \in {"failed", "killed"},
         UNCHANGED <<input, entries, fetched, buf>>, NEW j \in AskedIn(archive, only), Finished(j)'
  PROVE  Finished(j) /\ (InPayload => j # Current) /\ j <= Consumed
<1>1. Consumed' = Consumed /\ archive' = archive /\ archive \in Archives /\ Consumed \in Nat
  <2>1. StreamInv' /\ Consumed' = Consumed /\ archive' = archive
    BY StreamStays DEF IInv
  <2> QED
    BY <2>1, StreamIs DEF IInv
<1>2. j \in 1 .. Len(archive) /\ archive[j].size \in Nat
  BY <1>1, AskedIs, EntryIs
<1>3. j + archive[j].size < Consumed
  BY <1>1 DEF Finished
<1>4. j <= Consumed
  BY <1>1, <1>2, <1>3
<1>5. CASE InPayload
  <2>1. /\ Current + file.size = Consumed + file.left /\ archive[Current].size = file.size
        /\ file.left \in Nat
        /\ (j <= Consumed /\ j # Current => j <= Upto)
    BY <1>5, PayloadNow
  <2>2. j # Current
    BY <1>1, <1>2, <1>3, <2>1
  <2> QED
    BY <1>4, <2>1, <2>2 DEF Finished, Ended
<1>6. CASE ~InPayload
  BY <1>4, <1>6 DEF Finished, Upto, Ended
<1> QED
  BY <1>5, <1>6

LEMMA StopsRest ==
  ASSUME IInv, pc \notin Ended, pc' \in {"failed", "killed"},
         UNCHANGED <<input, entries, fetched, cache, buf, depth, file>>,
         target' \in Target, files' \in Nat, bytes' \in Nat, listing' \in Seq(Lines), TargetInv'
  PROVE  IInv'
<1>1. StreamInv'
  BY StreamStays DEF IInv
<1>2. TypeOK'
  BY DEF IInv, TypeOK, input, Ended, Lines
<1>3. DepthInv' /\ FileInv' /\ CountInv'
  BY DEF IInv, DepthInv, FileInv, CountInv, InPayload
<1> QED
  BY <1>1, <1>2, <1>3 DEF IInv

LEMMA VisitorIs ==
  ASSUME IInv
  PROVE  target \in Target /\ files \in Nat /\ bytes \in Nat /\ listing \in Seq(Lines)
BY DEF IInv, TypeOK, Lines

LEMMA StreamEndsStep == ASSUME IInv, StreamEnds PROVE IInv'
<1> DEFINE p == file.path
<1>0. PICK i : i = Current
  OBVIOUS
<1>1. /\ pc \in {"walk", "copy", "skip"} /\ pc' = "failed"
      /\ IF pc = "copy" THEN FileDone ELSE UNCHANGED visitor
      /\ UNCHANGED <<input, entries, fetched, cache, buf, depth, file>>
  BY DEF StreamEnds, Starved, EndsEarly, Fail, stream
<1>2. pc \notin Ended /\ pc' \in {"failed", "killed"} /\ UNCHANGED <<input, entries, fetched, buf>>
      /\ mode \in {"extract", "list"}
  BY <1>1 DEF Ended, IInv, TypeOK
<1>3. \A j \in AskedIn(archive, only) : Finished(j)' => Finished(j) /\ (InPayload => j # i)
  BY <1>0, <1>2, Stops
<1>4. CASE pc = "copy" /\ mode = "extract"
  <2>1. /\ target' \in Target /\ IsTree(target') /\ Kept(target, target', p) /\ WantIn(only, p)
    BY <1>1, <1>4, FileDoneWrites
  <2>2. archive[i].path = p /\ i \in AskedIn(archive, only) /\ ~Finished(i)'
    BY <1>0, <1>3, <1>4, <2>1, PayloadNow DEF InPayload
  <2>3. TargetInv'
    BY <1>2, <1>3, <1>4, <2>1, <2>2, TargetMoves DEF IInv
  <2>4. /\ target' \in Target /\ files' \in Nat /\ bytes' \in Nat /\ listing' \in Seq(Lines)
    BY <1>1, <1>4, VisitorType DEF InPayload
  <2> QED
    BY <1>1, <1>2, <2>3, <2>4, StopsRest
<1>5. CASE ~(pc = "copy" /\ mode = "extract")
  <2>1. target' = target
    BY <1>1, <1>2, <1>5, FileDoneLists DEF visitor
  <2>2. TargetInv'
    BY <1>2, <1>3, <2>1, TargetStays DEF IInv
  <2>3. /\ target' \in Target /\ files' \in Nat /\ bytes' \in Nat /\ listing' \in Seq(Lines)
    BY <1>1, <1>5, VisitorIs, VisitorType DEF InPayload, visitor
  <2> QED
    BY <1>1, <1>2, <2>2, <2>3, StopsRest
<1> QED
  BY <1>4, <1>5

LEMMA SystemErrorStep == ASSUME IInv, SystemError PROVE IInv'
<1>1. /\ mode = "extract" /\ pc \in {"walk", "copy"} /\ pc' = "failed"
      /\ UNCHANGED <<input, entries, fetched, cache, buf, depth, file, files, bytes, listing>>
      /\ \/ target' = target
         \/ /\ pc = "walk" /\ buf # <<>> /\ IsEntry(Item) /\ Want(Item.path)
            /\ Item.item = "link" /\ target' = OsRemove(target, Item.path)
  BY DEF SystemError, Fail, stream
<1>2. pc \notin Ended /\ pc' \in {"failed", "killed"} /\ UNCHANGED <<input, entries, fetched, buf>>
  BY <1>1 DEF Ended
<1>3. \A j \in AskedIn(archive, only) : Finished(j)' => Finished(j) /\ j <= Consumed
  BY <1>2, Stops
<1>4. TargetInv' /\ target' \in Target
  <2>1. CASE target' = target
    BY <1>1, <1>2, <1>3, <2>1, VisitorIs, TargetStays DEF IInv
  <2>2. CASE /\ pc = "walk" /\ buf # <<>> /\ IsEntry(Item) /\ Want(Item.path)
             /\ Item.item = "link" /\ target' = OsRemove(target, Item.path)
    <3>0. PICK d : d = Consumed + 1
      OBVIOUS
    <3>1. /\ archive \in Archives /\ Consumed \in Nat /\ Len(buf) \in Nat /\ Len(archive) \in Nat
          /\ Consumed + Len(buf) <= Len(archive)
          /\ \A k \in 1 .. Len(buf) : buf[k] = archive[Consumed + k]
      BY StreamIs DEF IInv
    <3>2. Len(buf) >= 1 /\ Item = buf[1]
      <4>1. buf \in Seq(Unit)
        BY DEF IInv, TypeOK
      <4>2. Len(buf) # 0
        BY <2>2, <4>1, EmptySeq
      <4> QED
        BY <2>2, <3>1, <4>1, <4>2, HeadTailProperties DEF Item
    <3>3. d \in 1 .. Len(archive) /\ archive[d] = Item
      BY <3>0, <3>1, <3>2
    <3>4. IsEntry(archive[d]) /\ WantIn(only, archive[d].path) /\ archive[d].item = "link"
      BY <2>2, <3>3 DEF Want, WantIn
    <3>5. archive[d].path \in Paths /\ archive[d].path # <<>> /\ d \in AskedIn(archive, only)
      BY <3>1, <3>3, <3>4, EntryIs, AskedIs
    <3>6. target \in Target /\ IsTree(target)
      BY DEF IInv, TargetInv
    <3>7. target' \in Target /\ IsTree(target') /\ Kept(target, target', archive[d].path)
      BY <2>2, <3>3, <3>5, <3>6, OsRemoveRemoves
    <3>8. ~Finished(d)'
      BY <1>3, <3>0, <3>1, <3>5
    <3>9. TargetInv'
      BY <1>1, <1>3, <3>5, <3>7, <3>8, TargetMoves DEF IInv
    <3> QED
      BY <3>7, <3>9
  <2> QED
    BY <1>1, <2>1, <2>2
<1>5. files' \in Nat /\ bytes' \in Nat /\ listing' \in Seq(Lines)
  BY <1>1, VisitorIs
<1> QED
  BY <1>1, <1>2, <1>4, <1>5, StopsRest

LEMMA KillStep == ASSUME IInv, Kill PROVE IInv'
<1>1. /\ pc \notin Ended /\ pc' = "killed"
      /\ UNCHANGED <<input, entries, fetched, cache, buf, depth, file, target, files, bytes, listing>>
  BY DEF Kill, stream, visitor
<1>2. \A j \in AskedIn(archive, only) : Finished(j)' => Finished(j)
  BY <1>1, Stops
<1>3. TargetInv'
  BY <1>1, <1>2, TargetStays DEF IInv
<1>4. target' \in Target /\ files' \in Nat /\ bytes' \in Nat /\ listing' \in Seq(Lines)
  BY <1>1, VisitorIs
<1> QED
  BY <1>1, <1>3, <1>4, StopsRest

-----------------------------------------------------------------------------
(* The stream, and the theorems.                                            *)

LEMMA Nothing ==
  ASSUME NEW ss
  PROVE  First(ss, 0) = <<>> /\ Len(First(ss, 0)) = 0
<1>1. SubSeq(ss, 1, 0) = <<>>
  BY SubSeqEmpty
<1> QED
  BY <1>1, FlattenNothing, EmptySeq DEF First

LEMMA CountsNothing ==
  ASSUME NEW a, NEW o
  PROVE  Depth(a, 0) = 0 /\ Count(FilesIn(a, o), 0) = 0 /\ Count(DataIn(a, o), 0) = 0
         /\ PlaceIn(a, 0) = 0
<1>1. 1 .. 0 = {}
  OBVIOUS
<1>2. Cardinality({}) = 0
  BY FS_EmptySet
<1>3. \A D : Count(D, 0) = 0
  <2>1. \A D : D \cap (1 .. 0) = {}
    BY <1>1
  <2> QED
    BY <1>2, <2>1 DEF Count
<1>4. PlaceIn(a, 0) = 0
  <2>1. {i \in 1 .. 0 : IsEntry(a[i])} = {}
    BY <1>1
  <2> QED
    BY <1>2, <2>1 DEF PlaceIn
<1>5. Depth(a, 0) = 0
  <2>1. {j \in 1 .. 0 : a[j].item = "dir"} = {} /\ {j \in 1 .. 0 : a[j].item = "goodbye"} = {}
    BY <1>1
  <2> QED
    BY <1>2, <2>1 DEF Depth
<1> QED
  BY <1>3, <1>4, <1>5

LEMMA DownloadIndexStep == ASSUME IInv, DownloadIndex PROVE IInv'
<1>1. /\ pc = "index" /\ pc' \in {"walk", "failed"}
      /\ UNCHANGED <<input, fetched, cache, buf, depth, file, target, files, bytes, listing>>
      /\ \/ \E n \in 0 .. Len(chunks) : entries' = SubSeq(chunks, 1, n)
         \/ entries' = entries
  BY DEF DownloadIndex, Fail, visitor
<1>2. /\ entries = <<>> /\ fetched = 0 /\ buf = <<>> /\ chunks \in Seq(Seq(Unit))
      /\ Len(chunks) \in Nat /\ cache = {}
  <2>1. entries = <<>> /\ fetched = 0 /\ buf = <<>> /\ chunks \in Seq(Seq(Unit)) /\ cache \subseteq Range(entries)
    BY <1>1 DEF IInv, StreamInv, TypeOK
  <2>2. Range(<<>>) = {}
    BY DEF Range
  <2> QED
    BY <2>1, <2>2, LenProperties
<1>3. /\ entries' \in Seq(Seq(Unit)) /\ Len(entries') \in Nat /\ Len(entries') <= Len(chunks)
      /\ \A k \in 1 .. Len(entries') : entries'[k] = chunks[k]
  <2>1. CASE entries' = entries
    BY <1>2, <2>1, EmptySeq
  <2>2. CASE \E n \in 0 .. Len(chunks) : entries' = SubSeq(chunks, 1, n)
    <3>1. PICK n \in 0 .. Len(chunks) : entries' = SubSeq(chunks, 1, n)
      BY <2>2
    <3>2. \A k \in 1 .. n : chunks[k] \in Seq(Unit)
      BY <1>2, <3>1, ElementOfSeq
    <3>3. /\ SubSeq(chunks, 1, n) \in Seq(Seq(Unit))
          /\ Len(SubSeq(chunks, 1, n)) = IF 1 <= n THEN n - 1 + 1 ELSE 0
          /\ \A k \in 1 .. n - 1 + 1 : SubSeq(chunks, 1, n)[k] = chunks[1 + k - 1]
      BY <1>2, <3>2, SubSeqProperties
    <3>4. n - 1 + 1 = n /\ \A k \in 1 .. n : 1 + k - 1 = k
      BY <1>2
    <3>5. Len(SubSeq(chunks, 1, n)) = n
      BY <1>2, <3>3
    <3> QED
      BY <1>2, <3>1, <3>3, <3>4, <3>5
  <2> QED
    BY <1>1, <2>1, <2>2
<1>4. Got = <<>> /\ Got' = <<>> /\ Consumed = 0 /\ Consumed' = 0 /\ Len(Got') = 0
  <2>1. First(entries, 0) = <<>> /\ Len(First(entries, 0)) = 0
    BY Nothing
  <2>2. \A ss : First(ss, 0) = <<>> /\ Len(First(ss, 0)) = 0
    BY Nothing
  <2>3. fetched' = 0 /\ buf' = <<>> /\ Len(<<>>) = 0
    BY <1>1, <1>2, EmptySeq
  <2>4. Got' = First(entries', 0) /\ Consumed' = Len(First(entries', 0)) - 0
    BY <2>3 DEF Got, Consumed, First
  <2>5. Got = First(entries, 0) /\ Consumed = Len(First(entries, 0)) - 0
    BY <1>2, <2>3 DEF Got, Consumed, First
  <2> QED
    BY <2>1, <2>2, <2>4, <2>5
<1>5. archive' = archive /\ mode' = mode /\ only' = only /\ before' = before /\ chunks' = chunks
  BY <1>1, SameInput
<1>6. StreamInv'
  <2>1. Len(buf') = 0
    BY <1>1, <1>2, EmptySeq
  <2> QED
    BY <1>1, <1>3, <1>4, <1>5, <2>1 DEF IInv, StreamInv
<1>7. TypeOK'
  <2>1. fetched' \in 0 .. Len(entries') /\ cache' \subseteq Range(entries')
    BY <1>1, <1>2, <1>3
  <2> QED
    BY <1>1, <1>3, <1>5, <2>1 DEF IInv, TypeOK, Ended
<1>8. DepthInv'
  BY <1>1, <1>4, <1>5 DEF IInv, DepthInv
<1>9. FileInv'
  BY <1>1 DEF IInv, FileInv, InPayload
<1>10. Upto = 0 /\ Upto' = 0
  BY <1>1, <1>4 DEF Upto, InPayload
<1>11. TargetInv'
  <2>1. \A j \in AskedIn(archive, only) : Finished(j)' => Finished(j)
    BY <1>1, <1>10 DEF Finished
  <2> QED
    BY <1>1, <2>1, TargetStays DEF IInv
<1>12. CountInv'
  BY <1>1, <1>5, <1>10 DEF IInv, CountInv
<1> QED
  BY <1>6, <1>7, <1>8, <1>9, <1>11, <1>12 DEF IInv

LEMMA ReadChunkStep == ASSUME IInv, ReadChunk PROVE IInv'
<1> DEFINE next == entries[fetched + 1]
<1>1. /\ pc \in {"walk", "copy", "skip"} /\ buf = <<>> /\ fetched < Len(entries)
      /\ UNCHANGED <<input, entries, depth, file, target, files, bytes, listing>>
      /\ \/ /\ buf' = next /\ fetched' = fetched + 1 /\ cache' = cache \union {next} /\ pc' = pc
         \/ pc' = "failed" /\ UNCHANGED <<buf, fetched, cache>>
  BY DEF ReadChunk, Starved, Fail, visitor
<1>2. CASE pc' = "failed" /\ UNCHANGED <<buf, fetched, cache>>
  <2>1. pc \notin Ended /\ pc' \in {"failed", "killed"}
    BY <1>1, <1>2 DEF Ended
  <2>2. \A j \in AskedIn(archive, only) : Finished(j)' => Finished(j)
    BY <1>1, <1>2, <2>1, Stops
  <2>3. TargetInv'
    BY <1>1, <2>2, TargetStays DEF IInv
  <2>4. target' \in Target /\ files' \in Nat /\ bytes' \in Nat /\ listing' \in Seq(Lines)
    BY <1>1, VisitorIs
  <2> QED
    BY <1>1, <1>2, <2>1, <2>3, <2>4, StopsRest
<1>3. CASE buf' = next /\ fetched' = fetched + 1 /\ cache' = cache \union {next} /\ pc' = pc
  <2>1. entries \in Seq(Seq(Unit)) /\ Len(entries) \in Nat /\ fetched \in Nat
    BY LenProperties DEF IInv, TypeOK
  <2>2. First(entries, fetched + 1) = Got \o next /\ next \in Seq(Unit)
    BY <1>1, <2>1, FirstStep DEF Got
  <2>3. Got' = Got \o next
    BY <1>1, <1>3, <2>2 DEF Got, First
  <2> HIDE DEF next
  <2>4. /\ Got \in Seq(Unit) /\ Len(Got) \in Nat /\ Len(next) \in Nat /\ Consumed \in Nat
        /\ Consumed = Len(Got)
    <3>1. Len(buf) = 0
      BY <1>1, EmptySeq
    <3>2. Got \in Seq(Unit) /\ Consumed \in Nat /\ Len(Got) \in Nat
      BY StreamIs DEF IInv
    <3>3. Consumed + Len(buf) = Len(Got)
      BY DEF IInv, StreamInv
    <3> QED
      BY <2>2, <3>1, <3>2, <3>3, LenProperties
  <2>5. /\ Len(Got') = Len(Got) + Len(next)
        /\ \A k \in 1 .. Len(next) : Got'[Len(Got) + k] = next[k]
    <3>1. /\ Len(Got \o next) = Len(Got) + Len(next)
          /\ \A k \in 1 .. Len(Got) + Len(next) :
               (Got \o next)[k] = IF k <= Len(Got) THEN Got[k] ELSE next[k - Len(Got)]
      BY <2>2, <2>4, ConcatProperties
    <3>2. \A k \in 1 .. Len(next) :
            /\ Len(Got) + k \in 1 .. Len(Got) + Len(next) /\ ~(Len(Got) + k <= Len(Got))
            /\ Len(Got) + k - Len(Got) = k
      BY <2>4
    <3> QED
      BY <2>3, <3>1, <3>2
  <2>6. Consumed' = Consumed
    <3>1. Consumed' = Len(Got') - Len(buf')
      BY DEF Consumed, Got, First
    <3> QED
      BY <1>3, <2>4, <2>5, <3>1
  <2>7. archive' = archive /\ mode' = mode /\ only' = only /\ before' = before /\ chunks' = chunks
    BY <1>1, SameInput
  <2>8. StreamInv'
    <3>1. Consumed' + Len(buf') = Len(Got') /\ \A k \in 1 .. Len(buf') : buf'[k] = Got'[Consumed' + k]
      BY <1>3, <2>4, <2>5, <2>6
    <3>2. pc' # "index"
      BY <1>1, <1>3
    <3> QED
      BY <1>1, <2>4, <2>6, <2>7, <3>1, <3>2 DEF IInv, StreamInv
  <2>9. TypeOK'
    <3>1. next \in Range(entries)
      <4>1. fetched + 1 \in DOMAIN entries
        BY <1>1, <2>1, LenProperties
      <4> QED
        BY <4>1 DEF Range, next
    <3>2. fetched' \in 0 .. Len(entries')
      BY <1>1, <1>3, <2>1
    <3> QED
      BY <1>1, <1>3, <2>2, <2>7, <3>1, <3>2 DEF IInv, TypeOK
  <2>10. DepthInv'
    BY <1>1, <1>3, <2>6, <2>7 DEF IInv, DepthInv
  <2>11. Current' = Current /\ Upto' = Upto
    BY <1>1, <1>3, <2>6 DEF Current, Upto, InPayload
  <2>12. FileInv'
    BY <1>1, <1>3, <2>6, <2>7, <2>11 DEF IInv, FileInv, InPayload
  <2>13. TargetInv'
    <3>1. \A j \in AskedIn(archive, only) : Finished(j)' => Finished(j)
      BY <1>3, <2>6, <2>7, <2>11 DEF Finished
    <3> QED
      BY <1>1, <3>1, TargetStays DEF IInv
  <2>14. CountInv'
    BY <1>1, <1>3, <2>7, <2>11 DEF IInv, CountInv
  <2> QED
    BY <2>8, <2>9, <2>10, <2>12, <2>13, <2>14 DEF IInv
<1> QED
  BY <1>1, <1>2, <1>3
-----------------------------------------------------------------------------
LEMMA InitIInv == Init => IInv
<1> SUFFICES ASSUME Init PROVE IInv
  OBVIOUS
<1>1. /\ chunks \in Snapshots /\ mode \in {"extract", "list"} /\ before \in Targets
      /\ only \in Paths \union {NoPath} /\ pc = "index"
      /\ entries = <<>> /\ fetched = 0 /\ cache = {} /\ buf = <<>> /\ depth = 0 /\ file = NoFile
      /\ target = before /\ files = 0 /\ bytes = 0 /\ listing = <<>>
  BY DEF Init
<1>2. /\ chunks \in Seq(Seq(Unit)) /\ before \in Target /\ IsTree(before) /\ <<>> \in Paths
      /\ Len(chunks) \in Nat /\ archive \in Archives
  <2>1. chunks \in Seq(Seq(Unit)) /\ before \in Target /\ IsTree(before) /\ <<>> \in Paths
    BY <1>1, RestoreAssumption
  <2> QED
    BY <1>1, <2>1, LenProperties DEF Archives, archive
<1>3. Got = <<>> /\ Consumed = 0 /\ Len(Got) = 0 /\ Len(<<>>) = 0
  <2>1. First(entries, 0) = <<>> /\ Len(First(entries, 0)) = 0 /\ Len(<<>>) = 0
    BY Nothing, EmptySeq
  <2> QED
    BY <1>1, <2>1 DEF Got, Consumed, First
<1>4. TypeOK
  BY <1>1, <1>2, EmptySeq DEF TypeOK, NoFile
<1>5. StreamInv
  BY <1>1, <1>2, <1>3 DEF StreamInv
<1>6. DepthInv
  BY <1>1, <1>3, CountsNothing DEF DepthInv
<1>7. FileInv
  BY <1>1, <1>2 DEF FileInv, InPayload, NoFile
<1>8. Upto = 0
  BY <1>1, <1>3 DEF Upto, InPayload
<1>9. TargetInv
  <2>1. \A j \in AskedIn(archive, only) : ~(j <= 0)
    BY <1>2, AskedIs
  <2> QED
    BY <1>1, <1>2, <1>8, <2>1 DEF TargetInv, Confined, Finished
<1>10. CountInv
  BY <1>1, <1>3, <1>8, CountsNothing DEF CountInv, CountsAre, ListIs
<1> QED
  BY <1>4, <1>5, <1>6, <1>7, <1>9, <1>10 DEF IInv

LEMMA NextIInv == IInv /\ [Next]_vars => IInv'
<1> SUFFICES ASSUME IInv, [Next]_vars PROVE IInv'
  OBVIOUS
<1>1. CASE UNCHANGED vars
  <2>1. UNCHANGED <<input, entries, fetched, buf>> /\ pc' = pc
        /\ UNCHANGED <<cache, depth, file, target, files, bytes, listing>>
    BY <1>1 DEF vars, stream, visitor
  <2>2. StreamInv' /\ Consumed' = Consumed /\ archive' = archive /\ mode' = mode /\ only' = only
        /\ before' = before /\ chunks' = chunks
    BY <2>1, StreamStays, SameInput DEF IInv
  <2>3. Current' = Current /\ Upto' = Upto
    BY <2>1, <2>2 DEF Current, Upto, InPayload
  <2>4. TypeOK'
    BY <2>1, <2>2 DEF IInv, TypeOK
  <2>5. DepthInv' /\ FileInv' /\ CountInv'
    BY <2>1, <2>2, <2>3 DEF IInv, DepthInv, FileInv, CountInv, InPayload
  <2>6. TargetInv'
    <3>1. \A j \in AskedIn(archive, only) : Finished(j)' => Finished(j)
      BY <2>1, <2>2, <2>3 DEF Finished
    <3> QED
      BY <2>1, <3>1, TargetStays DEF IInv
  <2> QED
    BY <2>2, <2>4, <2>5, <2>6 DEF IInv
<1>2. CASE DownloadIndex
  BY <1>2, DownloadIndexStep
<1>3. CASE ReadChunk
  BY <1>3, ReadChunkStep
<1>4. CASE TakeVersion
  BY <1>4, TakeVersionStep
<1>5. CASE TakeDir
  BY <1>5, TakeDirStep
<1>6. CASE TakeLink
  BY <1>6, TakeLinkStep
<1>7. CASE TakeFile
  BY <1>7, TakeFileStep
<1>8. CASE CopyData
  BY <1>8, CopyDataStep
<1>9. CASE EndFile
  BY <1>9, EndFileStep
<1>10. CASE TakeGoodbye
  BY <1>10, TakeGoodbyeStep
<1>11. CASE StreamEnds
  BY <1>11, StreamEndsStep
<1>12. CASE SystemError
  BY <1>12, SystemErrorStep
<1>13. CASE Kill
  BY <1>13, KillStep
<1> QED
  BY <1>1, <1>2, <1>3, <1>4, <1>5, <1>6, <1>7, <1>8, <1>9, <1>10, <1>11, <1>12, <1>13
     DEF Next, Step, Over

LEMMA Invariant == Spec => []IInv
BY InitIInv, NextIInv, PTL DEF Spec

(* Every variable of a restore has its type: the data of a file on disk is *)
(* data of an archive, and no more of a payload is left than its size.     *)
THEOREM TypeCorrect == Spec => []TypeOK
<1>1. IInv => TypeOK
  BY DEF IInv
<1> QED
  BY <1>1, Invariant, PTL

(* What the properties speak of, of the archive and the target.            *)
LEMMA PropertiesAre ==
  /\ Asked = AskedIn(archive, only) /\ \A j : OnDisk(j) <=> OnDiskIn(archive, target, j)
  /\ AskedFiles = FilesIn(archive, only) /\ AskedData = DataIn(archive, only)
  /\ \A j : Place(j) = PlaceIn(archive, j)
<1>1. Asked = AskedIn(archive, only)
  BY DEF Asked, AskedIn, WantIn
<1>2. AskedFiles = FilesIn(archive, only)
  BY <1>1 DEF AskedFiles, FilesIn
<1>3. AskedData = DataIn(archive, only)
  BY <1>2 DEF AskedData, DataIn
<1>4. \A j : OnDisk(j) <=> OnDiskIn(archive, target, j)
  BY DEF OnDisk, OnDiskIn
<1>5. \A j : Place(j) = PlaceIn(archive, j)
  BY DEF Place, PlaceIn
<1> QED
  BY <1>1, <1>2, <1>3, <1>4, <1>5

(* A restore that reports success has written every entry that was asked   *)
(* for, each file with all of its data and the archive's times: no end of  *)
(* the stream short of the last GOODBYE passes for success.  The target    *)
(* leads nowhere else by a link (RestoreAssumption).                       *)
THEOREM SuccessIsWhole == Spec => []SuccessMeansRestored
<1>1. ASSUME IInv PROVE SuccessMeansRestored
  <2> SUFFICES ASSUME pc = "ok", mode = "extract", NEW j \in AskedIn(archive, only)
               PROVE  OnDiskIn(archive, target, j)
    BY PropertiesAre DEF SuccessMeansRestored
  <2>1. archive \in Archives /\ Consumed = Len(archive)
    BY <1>1, StreamIs DEF IInv, DepthInv
  <2>2. Upto = Len(archive)
    BY <2>1 DEF Upto, InPayload
  <2>3. Finished(j)
    BY <2>1, <2>2, AskedIs DEF Finished
  <2> QED
    BY <1>1, <2>3 DEF IInv, TargetInv
<1> QED
  BY <1>1, Invariant, PTL

(* Whatever is not asked for, nor a directory above what is, stays as it   *)
(* was in the target, at every step, the failing and the killed ones too;  *)
(* a listing writes nothing.  That the target leads nowhere else by a link *)
(* is assumed (RestoreAssumption): the Extractor would write there.        *)
THEOREM TouchesNothingElse == Spec => []NothingElse
<1>1. ASSUME IInv PROVE NothingElse
  BY <1>1, PropertiesAre DEF IInv, TargetInv, NothingElse, Confined
<1> QED
  BY <1>1, Invariant, PTL

(* Whatever comes later, an error or a kill too, the asked entries that    *)
(* the decoder is past are on disk, whole: nothing done is undone.  The    *)
(* target leads nowhere else by a link (RestoreAssumption).                *)
THEOREM EarlierStaysWhole == Spec => []EarlierAreWhole
<1>1. ASSUME IInv PROVE EarlierAreWhole
  <2> SUFFICES ASSUME mode = "extract", NEW j \in AskedIn(archive, only),
                      j + archive[j].size < Consumed
               PROVE  OnDiskIn(archive, target, j)
    BY PropertiesAre DEF EarlierAreWhole
  <2>1. archive \in Archives /\ Consumed \in Nat
    BY <1>1, StreamIs DEF IInv
  <2>2. j \in 1 .. Len(archive) /\ archive[j].size \in Nat /\ j <= Consumed
    <3>1. j \in 1 .. Len(archive) /\ archive[j].size \in Nat
      BY <2>1, AskedIs, EntryIs
    <3> QED
      BY <2>1, <3>1
  <2>3. Finished(j)
    <3>1. CASE InPayload
      <4>1. /\ Current + file.size = Consumed + file.left /\ archive[Current].size = file.size
            /\ file.left \in Nat
            /\ (j <= Consumed /\ j # Current => j <= Upto)
        BY <1>1, <3>1, PayloadNow
      <4>2. j # Current
        BY <2>1, <2>2, <4>1
      <4> QED
        BY <2>2, <4>1, <4>2 DEF Finished
    <3>2. CASE ~InPayload
      BY <2>2, <3>2 DEF Finished, Upto
    <3> QED
      BY <3>1, <3>2
  <2> QED
    BY <1>1, <2>3 DEF IInv, TargetInv
<1> QED
  BY <1>1, Invariant, PTL

(* What a successful run tells the user is true: the numbers of files and  *)
(* of bytes are those asked for, and a listing has a line for every entry, *)
(* at its place and with its size.                                         *)
THEOREM SummaryCorrect == Spec => []SummaryIsTrue
<1>1. ASSUME IInv PROVE SummaryIsTrue
  <2> SUFFICES ASSUME pc = "ok" PROVE SummaryIsTrue
    BY DEF SummaryIsTrue
  <2>1. archive \in Archives /\ Consumed = Len(archive) /\ DOMAIN archive = 1 .. Len(archive)
    BY <1>1, StreamIs, ArchiveType DEF IInv, DepthInv
  <2>2. Upto = Len(archive)
    BY <2>1 DEF Upto, InPayload
  <2>3. CASE mode = "extract"
    <3>1. CountsAre(archive, only, files, bytes, Len(archive))
      BY <1>1, <2>2, <2>3 DEF IInv, CountInv
    <3>2. /\ FilesIn(archive, only) \cap (1 .. Len(archive)) = FilesIn(archive, only)
          /\ DataIn(archive, only) \cap (1 .. Len(archive)) = DataIn(archive, only)
      BY <2>1, AskedIs, DataOnly
    <3> QED
      BY <2>3, <3>1, <3>2, PropertiesAre DEF CountsAre, Count, SummaryIsTrue
  <2>4. CASE mode # "extract"
    <3>1. ListIs(archive, listing, Len(archive))
      BY <1>1, <2>2, <2>4 DEF IInv, CountInv
    <3> QED
      BY <2>1, <2>4, <3>1, PropertiesAre DEF ListIs, Line, SummaryIsTrue
  <2> QED
    BY <2>3, <2>4
<1> QED
  BY <1>1, Invariant, PTL
====
