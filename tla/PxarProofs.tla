----------------------------- MODULE PxarProofs -----------------------------
(***************************************************************************)
(* Proofs about Pxar, for every tree, every list of lines and any number   *)
(* of "**" in them.                                                        *)
(*                                                                         *)
(* The patterns.  What Excluded computes, with a recursion in a loop, is   *)
(* compared with how lines are to be read: matchSegs finds a cut of the    *)
(* path into pieces exactly if there is one, and the loop ends with what   *)
(* the last line that applies says.                                        *)
(*                                                                         *)
(* The archive.  Every item gets a label: the path it was written for, and *)
(* which item of that path it is.  The labels obey a grammar, which the    *)
(* encoder produces and the decoder consumes.  While the encoder runs, the *)
(* paths it has written come before those it still has to do, and what is  *)
(* to be backed up is written or below one of them; so when its stack is   *)
(* empty the labels name all of it, once, in order.  Where the decoder is, *)
(* what it knows of an entry and what it has called the visitor for are    *)
(* functions of the label of the last item it has consumed.                *)
(*                                                                         *)
(* The tables.  The items of a directory of the stack are cut, from its    *)
(* ENTRY on, into attributes and one piece for each row it has; the next   *)
(* child begins where the last piece ends: at the end of the archive, or   *)
(* where the directory did that is above it on the stack.  A GOODBYE has   *)
(* these rows, and what it leads to does not move when more is written.    *)
(***************************************************************************)
EXTENDS Pxar, SequenceTheorems, FiniteSetTheorems, WellFoundedInduction, TLAPS
-----------------------------------------------------------------------------
(* Least elements; cuts of the names of a path into the pieces of a pattern.*)

(* A set of numbers that is not empty has a least one.                     *)
LEMMA LeastExists ==
  ASSUME NEW S \in SUBSET Nat, S # {}
  PROVE  \E i \in S : \A j \in S : i <= j
<1>1. \E i \in S : \A j \in S : ~(<<j, i>> \in OpToRel(<, Nat))
  BY NatLessThanWellFounded, WFMin, Zenon
<1>2. PICK i \in S : \A j \in S : ~(<<j, i>> \in OpToRel(<, Nat))
  BY <1>1
<1>3. ASSUME NEW j \in S PROVE i <= j
  <2>1. <<j, i>> \in OpToRel(<, Nat) <=> j < i
    BY DEF OpToRel
  <2>2. ~(j < i)
    BY <1>2, <2>1, Zenon
  <2> QED
    BY <2>2
<1> QED
  BY <1>3

(* A cut of the names from the j-th on into pieces for the segments from   *)
(* the i-th on.                                                            *)
Piece(pat, segs, cut, e) ==
  IF pat[e] = AnyDepth THEN cut[e - 1] <= cut[e]
  ELSE cut[e] = cut[e - 1] + 1 /\ segs[cut[e]] \in pat[e]
CutFrom(pat, segs, i, j, cut) ==
  /\ cut \in [i - 1 .. Len(pat) -> 0 .. Len(segs)]
  /\ cut[i - 1] = j - 1 /\ cut[Len(pat)] = Len(segs)
  /\ \A e \in i .. Len(pat) : Piece(pat, segs, cut, e)
CoversFrom(pat, segs, i, j) == \E cut : CutFrom(pat, segs, i, j, cut)

(* What is left for no piece at all is nothing.                            *)
LEMMA CoversNothing ==
  ASSUME NEW pat, NEW segs, Len(pat) \in Nat, Len(segs) \in Nat, NEW j \in 1 .. Len(segs) + 1
  PROVE  CoversFrom(pat, segs, Len(pat) + 1, j) <=> j > Len(segs)
<1> DEFINE L == Len(pat)
<1>1. ASSUME NEW cut, CutFrom(pat, segs, L + 1, j, cut) PROVE j > Len(segs)
  BY <1>1 DEF CutFrom
<1>2. ASSUME j > Len(segs) PROVE CoversFrom(pat, segs, L + 1, j)
  <2> DEFINE cut == [e \in L .. L |-> j - 1]
  <2>1. cut[L] = j - 1 /\ j - 1 = Len(segs) /\ L + 1 - 1 = L
    BY <1>2
  <2>2. cut \in [L + 1 - 1 .. L -> 0 .. Len(segs)]
    BY <2>1
  <2>3. \A e \in L + 1 .. L : Piece(pat, segs, cut, e)
    OBVIOUS
  <2>4. CutFrom(pat, segs, L + 1, j, cut)
    BY <2>1, <2>2, <2>3 DEF CutFrom
  <2> QED
    BY <2>4 DEF CoversFrom
<1> QED
  BY <1>1, <1>2 DEF CoversFrom

(* A cut loses its first piece, and gets another.                          *)
LEMMA CutLess ==
  ASSUME NEW pat, NEW segs, Len(pat) \in Nat, Len(segs) \in Nat,
         NEW i \in 1 .. Len(pat), NEW j \in 1 .. Len(segs) + 1, NEW cut,
         CutFrom(pat, segs, i, j, cut)
  PROVE  /\ cut[i] \in 0 .. Len(segs) /\ Piece(pat, segs, cut, i) /\ cut[i - 1] = j - 1
         /\ CoversFrom(pat, segs, i + 1, cut[i] + 1)
<1> DEFINE L == Len(pat)
           less == [e \in i .. L |-> cut[e]]
<1>1. /\ cut \in [i - 1 .. L -> 0 .. Len(segs)] /\ cut[i - 1] = j - 1 /\ cut[L] = Len(segs)
      /\ \A e \in i .. L : Piece(pat, segs, cut, e)
  BY DEF CutFrom
<1>2. \A e \in i .. L : e \in i - 1 .. L /\ less[e] = cut[e]
  OBVIOUS
<1>3. less \in [i .. L -> 0 .. Len(segs)]
  BY <1>1, <1>2
<1>4. \A e \in i + 1 .. L : Piece(pat, segs, less, e)
  <2> SUFFICES ASSUME NEW e \in i + 1 .. L PROVE Piece(pat, segs, less, e)
    OBVIOUS
  <2>1. less[e] = cut[e] /\ less[e - 1] = cut[e - 1] /\ Piece(pat, segs, cut, e)
    BY <1>1
  <2> HIDE DEF less
  <2> QED
    BY <2>1 DEF Piece
<1>5. /\ i + 1 - 1 = i /\ less[i] = cut[i] + 1 - 1 /\ less[L] = Len(segs)
  BY <1>1, <1>2
<1>6. CutFrom(pat, segs, i + 1, cut[i] + 1, less)
  <2> HIDE DEF less
  <2> QED
    BY <1>3, <1>4, <1>5 DEF CutFrom
<1> QED
  BY <1>1, <1>6 DEF CoversFrom

(* A piece in front of a cut gives a cut.                                  *)
LEMMA CutMore ==
  ASSUME NEW pat, NEW segs, Len(pat) \in Nat, Len(segs) \in Nat,
         NEW i \in 1 .. Len(pat), NEW j \in 1 .. Len(segs) + 1, NEW k \in 1 .. Len(segs) + 1,
         CoversFrom(pat, segs, i + 1, k),
         IF pat[i] = AnyDepth THEN j <= k ELSE k = j + 1 /\ segs[j] \in pat[i]
  PROVE  CoversFrom(pat, segs, i, j)
<1> DEFINE L == Len(pat)
<1>1. PICK cut : CutFrom(pat, segs, i + 1, k, cut)
  BY DEF CoversFrom
<1> DEFINE more == [e \in i - 1 .. L |-> IF e = i - 1 THEN j - 1 ELSE cut[e]]
<1>2. /\ cut \in [i .. L -> 0 .. Len(segs)] /\ cut[i] = k - 1 /\ cut[L] = Len(segs)
      /\ \A e \in i + 1 .. L : Piece(pat, segs, cut, e)
  BY <1>1 DEF CutFrom
<1>3. /\ more[i - 1] = j - 1 /\ more[i] = k - 1 /\ \A e \in i .. L : more[e] = cut[e]
      /\ more[L] = Len(segs)
  BY <1>2
<1>4. more \in [i - 1 .. L -> 0 .. Len(segs)]
  <2>1. \A e \in i - 1 .. L : (IF e = i - 1 THEN j - 1 ELSE cut[e]) \in 0 .. Len(segs)
    BY <1>2
  <2> QED
    BY <2>1
<1> HIDE DEF more
<1>5. Piece(pat, segs, more, i)
  BY <1>3 DEF Piece
<1>6. \A e \in i .. L : Piece(pat, segs, more, e)
  <2> SUFFICES ASSUME NEW e \in i .. L, e # i PROVE Piece(pat, segs, more, e)
    BY <1>5
  <2>1. e \in i + 1 .. L /\ e - 1 \in i .. L
    OBVIOUS
  <2>2. more[e] = cut[e] /\ more[e - 1] = cut[e - 1]
    BY <1>3, <2>1
  <2> QED
    BY <1>2, <2>1, <2>2 DEF Piece
<1>7. CutFrom(pat, segs, i, j, more)
  BY <1>3, <1>4, <1>6 DEF CutFrom
<1> QED
  BY <1>7 DEF CoversFrom

(* The two cases of matchSegs: "**" takes any number of names, a glob      *)
(* one.                                                                    *)
LEMMA CoversAny ==
  ASSUME NEW pat, NEW segs, Len(pat) \in Nat, Len(segs) \in Nat,
         NEW i \in 1 .. Len(pat), NEW j \in 1 .. Len(segs) + 1, pat[i] = AnyDepth
  PROVE  CoversFrom(pat, segs, i, j) <=>
           \E k \in j .. Len(segs) + 1 : CoversFrom(pat, segs, i + 1, k)
<1>1. ASSUME CoversFrom(pat, segs, i, j)
      PROVE  \E k \in j .. Len(segs) + 1 : CoversFrom(pat, segs, i + 1, k)
  <2>1. PICK cut : CutFrom(pat, segs, i, j, cut)
    BY <1>1 DEF CoversFrom
  <2>2. /\ cut[i] \in 0 .. Len(segs) /\ Piece(pat, segs, cut, i) /\ cut[i - 1] = j - 1
        /\ CoversFrom(pat, segs, i + 1, cut[i] + 1)
    BY <2>1, CutLess
  <2>3. cut[i] + 1 \in j .. Len(segs) + 1
    BY <2>2 DEF Piece
  <2> QED
    BY <2>2, <2>3
<1>2. ASSUME NEW k \in j .. Len(segs) + 1, CoversFrom(pat, segs, i + 1, k)
      PROVE  CoversFrom(pat, segs, i, j)
  <2>1. k \in 1 .. Len(segs) + 1 /\ j <= k
    OBVIOUS
  <2> QED
    BY <1>2, <2>1, CutMore
<1> QED
  BY <1>1, <1>2

(* And a glob takes the name at its place.                                 *)
LEMMA CoversName ==
  ASSUME NEW pat, NEW segs, Len(pat) \in Nat, Len(segs) \in Nat,
         NEW i \in 1 .. Len(pat), NEW j \in 1 .. Len(segs) + 1, pat[i] # AnyDepth
  PROVE  CoversFrom(pat, segs, i, j) <=>
           j <= Len(segs) /\ GlobMatches(pat[i], segs[j]) /\ CoversFrom(pat, segs, i + 1, j + 1)
<1>1. ASSUME CoversFrom(pat, segs, i, j)
      PROVE  j <= Len(segs) /\ segs[j] \in pat[i] /\ CoversFrom(pat, segs, i + 1, j + 1)
  <2>1. PICK cut : CutFrom(pat, segs, i, j, cut)
    BY <1>1 DEF CoversFrom
  <2>2. /\ cut[i] \in 0 .. Len(segs) /\ Piece(pat, segs, cut, i) /\ cut[i - 1] = j - 1
        /\ CoversFrom(pat, segs, i + 1, cut[i] + 1)
    BY <2>1, CutLess
  <2>3. cut[i] = j
    BY <2>2 DEF Piece
  <2> QED
    BY <2>2, <2>3 DEF Piece
<1>2. ASSUME j <= Len(segs), segs[j] \in pat[i], CoversFrom(pat, segs, i + 1, j + 1)
      PROVE  CoversFrom(pat, segs, i, j)
  <2>1. j + 1 \in 1 .. Len(segs) + 1
    BY <1>2
  <2> QED
    BY <1>2, <2>1, CutMore
<1> QED
  BY <1>1, <1>2 DEF GlobMatches

(* What one call of matchSegs says, from those with one segment less.      *)
Call(pat, segs, i, next, j) ==
  IF i > Len(pat) THEN j > Len(segs)
  ELSE IF pat[i] = AnyDepth THEN \E k \in j .. Len(segs) + 1 : next[k]
  ELSE j <= Len(segs) /\ GlobMatches(pat[i], segs[j]) /\ next[j + 1]
(* The values of the recursion, all of them.                               *)
Calls(pat, segs, m) ==
  m = [i \in 1 .. Len(pat) + 1 |-> [j \in 1 .. Len(segs) + 1 |-> Call(pat, segs, i, m[i + 1], j)]]

(* One call finds a cut if the calls it makes do.                          *)
LEMMA CallIs ==
  ASSUME NEW pat, NEW segs, Len(pat) \in Nat, Len(segs) \in Nat,
         NEW i \in 1 .. Len(pat) + 1, NEW next, NEW j \in 1 .. Len(segs) + 1,
         i <= Len(pat) => \A k \in 1 .. Len(segs) + 1 : next[k] <=> CoversFrom(pat, segs, i + 1, k)
  PROVE  Call(pat, segs, i, next, j) <=> CoversFrom(pat, segs, i, j)
<1>1. CASE i > Len(pat)
  <2>1. i = Len(pat) + 1
    BY <1>1
  <2> QED
    BY <1>1, <2>1, CoversNothing DEF Call
<1>2. CASE i <= Len(pat)
  <2>0. i \in 1 .. Len(pat) /\ ~(i > Len(pat))
    BY <1>2
  <2>1. CASE pat[i] = AnyDepth
    <3>1. \A k \in j .. Len(segs) + 1 : next[k] <=> CoversFrom(pat, segs, i + 1, k)
      BY <1>2
    <3>2. Call(pat, segs, i, next, j) <=> \E k \in j .. Len(segs) + 1 : next[k]
      BY <2>0, <2>1 DEF Call
    <3>3. CoversFrom(pat, segs, i, j) <=>
            \E k \in j .. Len(segs) + 1 : CoversFrom(pat, segs, i + 1, k)
      BY <2>0, <2>1, CoversAny
    <3> QED
      BY <3>1, <3>2, <3>3
  <2>2. CASE pat[i] # AnyDepth
    <3>1. Call(pat, segs, i, next, j) <=>
            j <= Len(segs) /\ GlobMatches(pat[i], segs[j]) /\ next[j + 1]
      BY <2>0, <2>2 DEF Call
    <3>2. CoversFrom(pat, segs, i, j) <=>
            j <= Len(segs) /\ GlobMatches(pat[i], segs[j]) /\ CoversFrom(pat, segs, i + 1, j + 1)
      BY <2>0, <2>2, CoversName
    <3>3. j <= Len(segs) => (next[j + 1] <=> CoversFrom(pat, segs, i + 1, j + 1))
      BY <1>2
    <3> QED
      BY <3>1, <3>2, <3>3
  <2> QED
    BY <2>1, <2>2
<1> QED
  BY <1>1, <1>2

-----------------------------------------------------------------------------
(* The calls of matchSegs, and the cuts they find.                         *)

(* Equal truth values, for provers that tell the two apart.                *)
LEMMA SameBoolean ==
  ASSUME NEW a \in BOOLEAN, NEW b \in BOOLEAN, a <=> b
  PROVE  a = b
OBVIOUS

(* What a call returns is a truth value.                                   *)
LEMMA CallIsBoolean ==
  ASSUME NEW pat, NEW segs, NEW i, NEW next, NEW j
  PROVE  Call(pat, segs, i, next, j) \in BOOLEAN
<1>1. CASE i > Len(pat)
  <2>1. Call(pat, segs, i, next, j) = (j > Len(segs))
    BY <1>1, Zenon DEF Call
  <2> QED
    BY <2>1
<1>2. CASE ~(i > Len(pat)) /\ pat[i] = AnyDepth
  <2>1. Call(pat, segs, i, next, j) = (\E k \in j .. Len(segs) + 1 : next[k])
    BY <1>2, Zenon DEF Call
  <2> QED
    BY <2>1
<1>3. CASE ~(i > Len(pat)) /\ pat[i] # AnyDepth
  <2>1. Call(pat, segs, i, next, j) =
          (j <= Len(segs) /\ GlobMatches(pat[i], segs[j]) /\ next[j + 1])
    BY <1>3, Zenon DEF Call
  <2> QED
    BY <2>1
<1> QED
  BY <1>1, <1>2, <1>3

(* There are such values: that the cuts exist solves the equations, so     *)
(* that the CHOOSE of the recursion is of something.                       *)
LEMMA CallsExist ==
  ASSUME NEW pat, NEW segs, Len(pat) \in Nat, Len(segs) \in Nat
  PROVE  \E m : Calls(pat, segs, m)
<1> DEFINE I == 1 .. Len(pat) + 1
           J == 1 .. Len(segs) + 1
           m == [i \in I |-> [j \in J |-> CoversFrom(pat, segs, i, j)]]
<1>1. ASSUME NEW i \in I, NEW j \in J
      PROVE  CoversFrom(pat, segs, i, j) <=> Call(pat, segs, i, m[i + 1], j)
  <2>1. i <= Len(pat) => i + 1 \in I
    OBVIOUS
  <2>2. i <= Len(pat) => \A k \in J : m[i + 1][k] <=> CoversFrom(pat, segs, i + 1, k)
    BY <2>1
  <2> HIDE DEF m
  <2> QED
    BY <2>2, CallIs
<1>2. ASSUME NEW i \in I
      PROVE  [j \in J |-> CoversFrom(pat, segs, i, j)] = [j \in J |-> Call(pat, segs, i, m[i + 1], j)]
  <2>1. ASSUME NEW j \in J PROVE CoversFrom(pat, segs, i, j) = Call(pat, segs, i, m[i + 1], j)
    <3>1. CoversFrom(pat, segs, i, j) <=> Call(pat, segs, i, m[i + 1], j)
      BY <1>1
    <3>2. CoversFrom(pat, segs, i, j) \in BOOLEAN
      BY DEF CoversFrom
    <3>3. Call(pat, segs, i, m[i + 1], j) \in BOOLEAN
      BY CallIsBoolean, Zenon
    <3> HIDE DEF m
    <3> QED
      BY <3>1, <3>2, <3>3, SameBoolean, Zenon
  <2> HIDE DEF m, J
  <2> QED
    BY <2>1
<1>3. m = [i \in I |-> [j \in J |-> Call(pat, segs, i, m[i + 1], j)]]
  <2> HIDE DEF J
  <2> QED
    BY <1>2
<1>4. Calls(pat, segs, m)
  <2> HIDE DEF m
  <2> QED
    BY <1>3 DEF Calls
<1> QED
  BY <1>4

(* And no others: the least call that differs would be one whose own       *)
(* calls do not.                                                           *)
LEMMA CallsAre ==
  ASSUME NEW pat, NEW segs, Len(pat) \in Nat, Len(segs) \in Nat, NEW m, Calls(pat, segs, m)
  PROVE  \A i \in 1 .. Len(pat) + 1, j \in 1 .. Len(segs) + 1 :
           m[i][j] <=> CoversFrom(pat, segs, i, j)
<1> DEFINE L == Len(pat)
           J == 1 .. Len(segs) + 1
           Bad == {d \in 0 .. L : \E j \in J : ~(m[L + 1 - d][j] <=> CoversFrom(pat, segs, L + 1 - d, j))}
<1>1. Bad = {}
  <2> SUFFICES ASSUME Bad # {} PROVE FALSE
    OBVIOUS
  <2>1. Bad \in SUBSET Nat
    OBVIOUS
  <2>2. PICK d \in Bad : \A e \in Bad : d <= e
    <3> HIDE DEF Bad
    <3> QED
      BY <2>1, LeastExists
  <2>3. d \in 0 .. L
    OBVIOUS
  <2>4. PICK i \in 1 .. L + 1 : i = L + 1 - d
    BY <2>3
  <2>5. PICK j \in J : ~(m[i][j] <=> CoversFrom(pat, segs, i, j))
    BY <2>4
  <2>6. m[i][j] = Call(pat, segs, i, m[i + 1], j)
    <3>1. m = [e \in 1 .. L + 1 |-> [k \in J |-> Call(pat, segs, e, m[e + 1], k)]]
      BY DEF Calls
    <3>2. m[i] = [k \in J |-> Call(pat, segs, i, m[i + 1], k)]
      BY <3>1
    <3> QED
      BY <3>2
  <2>7. i <= L => \A k \in J : m[i + 1][k] <=> CoversFrom(pat, segs, i + 1, k)
    <3> SUFFICES ASSUME i <= L PROVE \A k \in J : m[i + 1][k] <=> CoversFrom(pat, segs, i + 1, k)
      OBVIOUS
    <3>1. d - 1 \in 0 .. L /\ L + 1 - (d - 1) = i + 1 /\ ~(d <= d - 1)
      BY <2>3, <2>4
    <3>2. d - 1 \notin Bad
      BY <2>2, <3>1
    <3> QED
      BY <3>1, <3>2
  <2>8. Call(pat, segs, i, m[i + 1], j) <=> CoversFrom(pat, segs, i, j)
    BY <2>7, CallIs
  <2> QED
    BY <2>5, <2>6, <2>8
<1>2. ASSUME NEW i \in 1 .. L + 1, NEW j \in J PROVE m[i][j] <=> CoversFrom(pat, segs, i, j)
  <2>1. L + 1 - i \in 0 .. L /\ L + 1 - (L + 1 - i) = i
    OBVIOUS
  <2>2. L + 1 - i \notin Bad
    BY <1>1
  <2> QED
    BY <2>1, <2>2
<1> QED
  BY <1>2

(* matchSegs, which recurs, finds a cut exactly if there is one.           *)
LEMMA MatchSegsCuts ==
  ASSUME NEW pat, NEW segs, Len(pat) \in Nat, Len(segs) \in Nat
  PROVE  MatchSegs(pat, segs) <=> Covers(pat, segs)
<1> DEFINE m == CHOOSE m : Calls(pat, segs, m)
<1>1. Calls(pat, segs, m)
  BY CallsExist, Zenon
<1>2. MatchSegs(pat, segs) = m[1][1]
  BY Zenon DEF MatchSegs, Calls, Call
<1> HIDE DEF m
<1>4. m[1][1] <=> CoversFrom(pat, segs, 1, 1)
  <2>1. 1 \in 1 .. Len(pat) + 1 /\ 1 \in 1 .. Len(segs) + 1
    OBVIOUS
  <2> QED
    BY <1>1, <2>1, CallsAre
<1>5. CoversFrom(pat, segs, 1, 1) <=> Covers(pat, segs)
  <2>1. \A cut : CutFrom(pat, segs, 1, 1, cut) <=>
          /\ cut \in [0 .. Len(pat) -> 0 .. Len(segs)] /\ cut[0] = 0 /\ cut[Len(pat)] = Len(segs)
          /\ \A e \in 1 .. Len(pat) : Piece(pat, segs, cut, e)
    BY DEF CutFrom
  <2> QED
    BY <2>1 DEF CoversFrom, Covers, Piece
<1>6. MatchSegs(pat, segs) <=> m[1][1]
  BY <1>2
<1> QED
  BY <1>4, <1>5, <1>6

-----------------------------------------------------------------------------
(* A line, its pattern, and the loop of Excluded.                          *)

(* Sequences as the provers need them: not empty, of one element, the      *)
(* last.                                                                   *)
LEMMA Filled ==
  ASSUME NEW S, NEW s \in Seq(S)
  PROVE  Len(s) \in Nat /\ (s = <<>> <=> Len(s) = 0)
<1>1. Len(<<>>) = 0
  OBVIOUS
<1> QED
  BY <1>1, EmptySeq, LenProperties

(* A sequence of one element.                                              *)
LEMMA One ==
  ASSUME NEW S, NEW e \in S
  PROVE  <<e>> \in Seq(S) /\ Len(<<e>>) = 1 /\ <<e>>[1] = e
OBVIOUS

(* The parts of a line.                                                    *)
LEMMA LineIs ==
  ASSUME NEW l \in Line
  PROVE  /\ l.negated \in BOOLEAN /\ l.leading \in BOOLEAN /\ l.trailing \in BOOLEAN
         /\ l.globs \in Seq(Glob) /\ Len(l.globs) \in Nat
         /\ l.globs = <<>> <=> Len(l.globs) = 0
         /\ Head(l.globs) = l.globs[1]
<1>1. /\ l.negated \in BOOLEAN /\ l.leading \in BOOLEAN /\ l.trailing \in BOOLEAN
      /\ l.globs \in Seq(Glob)
  BY DEF Line
<1>2. Head(l.globs) = l.globs[1]
  OBVIOUS
<1> QED
  BY <1>1, <1>2, Filled

(* The last element.                                                       *)
LEMMA LastIs ==
  ASSUME NEW S, NEW s \in Seq(S), s # <<>>
  PROVE  /\ Last(s) = s[Len(s)] /\ Last(s) \in S /\ Len(s) \in Nat \ {0}
         /\ Front(s) \in Seq(S) /\ Len(Front(s)) = Len(s) - 1
         /\ \A i \in 1 .. Len(s) - 1 : Front(s)[i] = s[i]
<1>1. Len(s) \in Nat \ {0} /\ Len(s) - 1 \in Nat /\ Len(s) \in 1 .. Len(s)
  BY EmptySeq, LenProperties
<1>2. s[Len(s)] \in S /\ \A i \in 1 .. Len(s) - 1 : s[i] \in S
  BY <1>1, ElementOfSeq
<1>3. /\ Front(s) \in Seq(S) /\ Len(Front(s)) = Len(s) - 1
      /\ \A i \in 1 .. Len(s) - 1 : Front(s)[i] = s[i]
  <2> DEFINE m == Len(s) - 1
  <2>1. m \in Nat /\ \A i \in 1 .. m : s[i] \in S
    BY <1>1, <1>2
  <2> HIDE DEF m
  <2>2. /\ SubSeq(s, 1, m) \in Seq(S) /\ Len(SubSeq(s, 1, m)) = IF 1 <= m THEN m - 1 + 1 ELSE 0
        /\ \A i \in 1 .. m - 1 + 1 : SubSeq(s, 1, m)[i] = s[1 + i - 1]
    BY <2>1, SubSeqProperties
  <2>3. m - 1 + 1 = m /\ \A i \in 1 .. m : 1 + i - 1 = i
    BY <2>1
  <2>4. Len(SubSeq(s, 1, m)) = m
    BY <2>1, <2>2
  <2>5. Front(s) = SubSeq(s, 1, m)
    BY DEF Front, m
  <2> QED
    BY <2>2, <2>3, <2>4, <2>5 DEF m
<1> QED
  BY <1>1, <1>2, <1>3 DEF Last

(* A bare name matches at any depth.                                       *)
LEMMA FloatingMatches ==
  ASSUME NEW G, AnyDepth \in G, NEW globs \in Seq(G), NEW p \in Seq(Names), p # <<>>, Len(globs) = 1
  PROVE  GlobMatches(Head(globs), Last(p)) <=> Covers(<<AnyDepth>> \o globs, p)
<1> DEFINE g == globs[1]
           s == <<AnyDepth>> \o globs
<1>1. /\ Len(s) = 2 /\ s[1] = AnyDepth /\ s[2] = g /\ Head(globs) = g
      /\ globs \in Seq(G) /\ globs # <<>>
  <2>1. globs \in Seq(G) /\ globs # <<>> /\ Head(globs) = g
    <3>1. globs # <<>>
      <4>1. globs = <<>> <=> Len(globs) = 0
        BY Filled
      <4> QED
        BY <4>1
    <3> QED
      BY <3>1
  <2>3. <<AnyDepth>> \in Seq(G) /\ Len(<<AnyDepth>>) = 1 /\ <<AnyDepth>>[1] = AnyDepth
    BY One
  <2>4. /\ Len(s) = 1 + 1
        /\ \A i \in 1 .. 1 + 1 : s[i] = IF i <= 1 THEN <<AnyDepth>>[i] ELSE globs[i - 1]
    <3> HIDE DEF g
    <3>1. PICK t \in Seq(G) : t = <<AnyDepth>>
      BY <2>3
    <3>2. Len(t) = 1 /\ Len(globs) = 1
      BY <2>3, <3>1
    <3>3. /\ Len(t \o globs) = Len(t) + Len(globs)
          /\ \A i \in 1 .. Len(t) + Len(globs) :
               (t \o globs)[i] = IF i <= Len(t) THEN t[i] ELSE globs[i - Len(t)]
      BY ConcatProperties
    <3> QED
      BY <3>1, <3>2, <3>3
  <2>5. 1 \in 1 .. 1 + 1 /\ 2 \in 1 .. 1 + 1 /\ ~(2 <= 1) /\ 2 - 1 = 1
    OBVIOUS
  <2> HIDE DEF s
  <2> QED
    BY <2>1, <2>3, <2>4, <2>5
<1>2. Last(p) = p[Len(p)] /\ Last(p) \in Names /\ Len(p) \in Nat \ {0}
  BY LastIs
<1> HIDE DEF s, g
<1>3. ASSUME GlobMatches(g, Last(p)) PROVE Covers(s, p)
  <2>1. CASE g = AnyDepth
    <3> DEFINE cut == [e \in 0 .. 2 |-> IF e = 2 THEN Len(p) ELSE 0]
    <3>1. cut \in [0 .. Len(s) -> 0 .. Len(p)]
      BY <1>1, <1>2
    <3>2. cut[0] = 0 /\ cut[1] = 0 /\ cut[2] = Len(p)
      OBVIOUS
    <3> HIDE DEF cut
    <3>3. \A i \in 1 .. Len(s) : s[i] = AnyDepth /\ cut[i - 1] <= cut[i]
      <4>1. cut[0] <= cut[1] /\ cut[1] <= cut[2] /\ \A i \in 1 .. 2 : i = 1 \/ i = 2
        BY <1>2, <3>2
      <4>2. 1 - 1 = 0 /\ 2 - 1 = 1
        OBVIOUS
      <4> QED
        BY <1>1, <2>1, <4>1, <4>2
    <3> QED
      BY <1>1, <3>1, <3>2, <3>3 DEF Covers
  <2>2. CASE g # AnyDepth
    <3> DEFINE cut == [e \in 0 .. 2 |-> IF e = 2 THEN Len(p) ELSE IF e = 1 THEN Len(p) - 1 ELSE 0]
    <3>1. cut \in [0 .. Len(s) -> 0 .. Len(p)]
      BY <1>1, <1>2
    <3>2. cut[0] = 0 /\ cut[1] = Len(p) - 1 /\ cut[2] = Len(p)
      OBVIOUS
    <3> HIDE DEF cut
    <3>3. p[Len(p)] \in g
      BY <1>2, <1>3, <2>2 DEF GlobMatches
    <3>4. \A i \in 1 .. Len(s) :
            IF s[i] = AnyDepth THEN cut[i - 1] <= cut[i]
            ELSE cut[i] = cut[i - 1] + 1 /\ p[cut[i]] \in s[i]
      <4>1. cut[0] <= cut[1] /\ cut[2] = cut[1] + 1 /\ \A i \in 1 .. 2 : i = 1 \/ i = 2
        BY <1>2, <3>2
      <4>2. 1 - 1 = 0 /\ 2 - 1 = 1
        OBVIOUS
      <4> QED
        BY <1>1, <2>2, <3>2, <3>3, <4>1, <4>2
    <3> QED
      BY <1>1, <3>1, <3>2, <3>4 DEF Covers
  <2> QED
    BY <2>1, <2>2
<1>4. ASSUME Covers(s, p), g # AnyDepth PROVE Last(p) \in g
  <2>1. PICK cut \in [0 .. Len(s) -> 0 .. Len(p)] :
          /\ cut[0] = 0 /\ cut[Len(s)] = Len(p)
          /\ \A i \in 1 .. Len(s) :
               IF s[i] = AnyDepth THEN cut[i - 1] <= cut[i]
               ELSE cut[i] = cut[i - 1] + 1 /\ p[cut[i]] \in s[i]
    BY <1>4 DEF Covers
  <2>2. 2 \in 1 .. Len(s) /\ s[2] # AnyDepth
    BY <1>1, <1>4
  <2>3. p[cut[2]] \in s[2] /\ cut[2] = Len(p)
    BY <1>1, <2>1, <2>2
  <2> QED
    BY <1>1, <1>2, <2>3
<1> QED
  BY <1>1, <1>3, <1>4 DEF GlobMatches, s

(* A line's pattern matches exactly what the line applies to.              *)
Applies(l, p, isDir) ==
  LET pat == Pattern(l)
  IN pat.segs # <<>> /\ (pat.dirOnly => isDir) /\ Match(pat, p)

(* A pattern that has a slash is matched from the root, one that has none  *)
(* by its only glob; both are what Hits says.                              *)
LEMMA AppliesIsHits ==
  ASSUME NEW l \in Line, NEW p \in Seq(Names), p # <<>>
  PROVE  Applies(l, p, tree[p].kind = "dir") <=> Hits(l, p)
<1>0. PICK globs : globs = l.globs
  OBVIOUS
<1>1. /\ Pattern(l).segs = globs /\ Pattern(l).dirOnly = l.trailing
      /\ Pattern(l).anchored = (l.leading \/ Len(globs) > 1)
  BY <1>0 DEF Pattern
<1>2. Len(globs) \in Nat /\ Len(p) \in Nat /\ (globs # <<>> => Len(globs) # 0)
  BY <1>0, LineIs, LenProperties
<1>3. CASE globs = <<>>
  BY <1>0, <1>1, <1>3 DEF Applies, Hits
<1>4. CASE globs # <<>> /\ (l.leading \/ Len(globs) > 1)
  <2>1. Match(Pattern(l), p) <=> MatchSegs(globs, p)
    BY <1>1, <1>4, Zenon DEF Match
  <2>2. MatchSegs(globs, p) <=> Covers(globs, p)
    BY <1>2, MatchSegsCuts
  <2> QED
    BY <1>0, <1>1, <1>4, <2>1, <2>2, Zenon DEF Applies, Hits
<1>5. CASE globs # <<>> /\ ~(l.leading \/ Len(globs) > 1)
  <2>1. Len(globs) = 1
    <3>1. ~(Len(globs) > 1) /\ globs # <<>>
      BY <1>5, Zenon
    <3>2. PICK k \in Nat : k = Len(globs) /\ k # 0
      BY <1>2, <3>1
    <3>3. ~(k > 1)
      BY <3>1, <3>2
    <3>4. k = 1
      BY <3>2, <3>3
    <3> QED
      BY <3>2, <3>4
  <2>2. Match(Pattern(l), p) <=> GlobMatches(Head(globs), Last(p))
    BY <1>1, <1>5 DEF Match
  <2>3. GlobMatches(Head(globs), Last(p)) <=> Covers(<<AnyDepth>> \o globs, p)
    <3>1. globs \in Seq(Glob) /\ AnyDepth \in Glob
      BY <1>0, LineIs DEF Glob
    <3> QED
      BY <2>1, <3>1, FloatingMatches
  <2> QED
    BY <1>0, <1>1, <1>5, <2>2, <2>3, Zenon DEF Applies, Hits
<1> QED
  BY <1>3, <1>4, <1>5

(* The loop of Excluded, after the first k of the lines.                   *)
Out(ls, p, isDir, k) ==
  \E i \in 1 .. k : /\ ~ls[i].negated /\ Applies(ls[i], p, isDir)
                    /\ \A j \in i + 1 .. k : ~Applies(ls[j], p, isDir)
Pass(ls, p, isDir, k, out) ==
  IF k = 0 THEN FALSE
  ELSE IF Applies(ls[k], p, isDir) THEN ~ls[k].negated ELSE out
Loop(ls, p, isDir, x) == x = [k \in 0 .. Len(ls) |-> Pass(ls, p, isDir, k, x[k - 1])]

(* A pass of the loop, and that there are values for all of them, one      *)
(* only.                                                                   *)
LEMMA PassIs ==
  ASSUME NEW ls, Len(ls) \in Nat, NEW p, NEW isDir, NEW k \in 0 .. Len(ls), NEW out,
         k # 0 => (out <=> Out(ls, p, isDir, k - 1))
  PROVE  Pass(ls, p, isDir, k, out) <=> Out(ls, p, isDir, k)
<1>1. CASE k = 0
  BY <1>1 DEF Pass, Out
<1>2. CASE k # 0 /\ Applies(ls[k], p, isDir)
  <2>1. Out(ls, p, isDir, k) => ~ls[k].negated
    <3>1. ASSUME NEW i \in 1 .. k, ~ls[i].negated,
                 \A j \in i + 1 .. k : ~Applies(ls[j], p, isDir)
          PROVE  ~ls[k].negated
      <4>1. ~(k \in i + 1 .. k)
        BY <1>2, <3>1
      <4>2. i = k
        BY <4>1
      <4> QED
        BY <3>1, <4>2
    <3> QED
      BY <3>1 DEF Out
  <2>2. ~ls[k].negated => Out(ls, p, isDir, k)
    <3>1. k \in 1 .. k /\ ~\E j : j \in k + 1 .. k
      BY <1>2
    <3> QED
      BY <1>2, <3>1 DEF Out
  <2> QED
    BY <1>2, <2>1, <2>2 DEF Pass
<1>3. CASE k # 0 /\ ~Applies(ls[k], p, isDir)
  <2>1. Out(ls, p, isDir, k) => Out(ls, p, isDir, k - 1)
    <3>1. ASSUME NEW i \in 1 .. k, ~ls[i].negated, Applies(ls[i], p, isDir),
                 \A j \in i + 1 .. k : ~Applies(ls[j], p, isDir)
          PROVE  Out(ls, p, isDir, k - 1)
      <4>1. i # k
        BY <1>3, <3>1
      <4>2. i \in 1 .. k - 1 /\ \A j \in i + 1 .. k - 1 : j \in i + 1 .. k
        BY <4>1
      <4> QED
        BY <3>1, <4>2 DEF Out
    <3> QED
      BY <3>1 DEF Out
  <2>2. Out(ls, p, isDir, k - 1) => Out(ls, p, isDir, k)
    <3>1. ASSUME NEW i \in 1 .. k - 1, ~ls[i].negated, Applies(ls[i], p, isDir),
                 \A j \in i + 1 .. k - 1 : ~Applies(ls[j], p, isDir)
          PROVE  Out(ls, p, isDir, k)
      <4>1. i \in 1 .. k /\ \A j \in i + 1 .. k : j = k \/ j \in i + 1 .. k - 1
        OBVIOUS
      <4> QED
        BY <1>3, <3>1, <4>1 DEF Out
    <3> QED
      BY <3>1 DEF Out
  <2> QED
    BY <1>3, <2>1, <2>2 DEF Pass
<1> QED
  BY <1>1, <1>2, <1>3

-----------------------------------------------------------------------------
(* What the loop ends with.                                                *)

(* There are values for all the passes.                                    *)
LEMMA LoopExists ==
  ASSUME NEW ls, Len(ls) \in Nat, NEW p, NEW isDir
  PROVE  \E x : Loop(ls, p, isDir, x)
<1> DEFINE K == 0 .. Len(ls)
           x == [k \in K |-> Out(ls, p, isDir, k)]
<1>1. ASSUME NEW k \in K PROVE Out(ls, p, isDir, k) = Pass(ls, p, isDir, k, x[k - 1])
  <2>1. k # 0 => (x[k - 1] <=> Out(ls, p, isDir, k - 1))
    <3>1. k # 0 => k - 1 \in K
      OBVIOUS
    <3> QED
      BY <3>1
  <2>2. Pass(ls, p, isDir, k, x[k - 1]) <=> Out(ls, p, isDir, k)
    <3> HIDE DEF x
    <3> QED
      BY <2>1, PassIs
  <2>3. Out(ls, p, isDir, k) \in BOOLEAN
    BY DEF Out
  <2>4. Pass(ls, p, isDir, k, x[k - 1]) \in BOOLEAN
    <3>1. CASE k = 0
      <4>1. Pass(ls, p, isDir, k, x[k - 1]) = FALSE
        BY <3>1, Zenon DEF Pass
      <4> QED
        BY <4>1
    <3>2. CASE k # 0 /\ Applies(ls[k], p, isDir)
      <4>1. Pass(ls, p, isDir, k, x[k - 1]) = (~ls[k].negated)
        BY <3>2, Zenon DEF Pass
      <4> QED
        BY <4>1
    <3>3. CASE k # 0 /\ ~Applies(ls[k], p, isDir)
      <4>1. Pass(ls, p, isDir, k, x[k - 1]) = x[k - 1]
        BY <3>3, Zenon DEF Pass
      <4>2. k - 1 \in K /\ x[k - 1] = Out(ls, p, isDir, k - 1)
        BY <3>3
      <4>3. Out(ls, p, isDir, k - 1) \in BOOLEAN
        BY DEF Out
      <4> QED
        BY <4>1, <4>2, <4>3, Zenon
    <3> QED
      BY <3>1, <3>2, <3>3
  <2> HIDE DEF x
  <2> QED
    BY <2>2, <2>3, <2>4, SameBoolean, Zenon
<1>2. x = [k \in K |-> Pass(ls, p, isDir, k, x[k - 1])]
  <2> HIDE DEF K
  <2> QED
    BY <1>1
<1>3. Loop(ls, p, isDir, x)
  <2> HIDE DEF x
  <2> QED
    BY <1>2 DEF Loop
<1> QED
  BY <1>3

(* And they end with what the last line that applies says.                 *)
LEMMA LoopIs ==
  ASSUME NEW ls, Len(ls) \in Nat, NEW p, NEW isDir, NEW x, Loop(ls, p, isDir, x)
  PROVE  x[Len(ls)] <=> Out(ls, p, isDir, Len(ls))
<1> DEFINE Bad == {k \in 0 .. Len(ls) : ~(x[k] <=> Out(ls, p, isDir, k))}
<1>1. SUFFICES ASSUME Bad # {} PROVE FALSE
  OBVIOUS
<1>2. Bad \in SUBSET Nat
  OBVIOUS
<1>3. PICK k \in Bad : \A j \in Bad : k <= j
  <2> HIDE DEF Bad
  <2> QED
    BY <1>1, <1>2, LeastExists
<1>4. k \in 0 .. Len(ls) /\ ~(x[k] <=> Out(ls, p, isDir, k))
  OBVIOUS
<1>5. k # 0 => (x[k - 1] <=> Out(ls, p, isDir, k - 1))
  <2>1. k # 0 => k - 1 \in 0 .. Len(ls) /\ ~(k <= k - 1)
    BY <1>4
  <2> QED
    BY <1>3, <2>1
<1>6. x[k] = Pass(ls, p, isDir, k, x[k - 1])
  <2>1. x = [j \in 0 .. Len(ls) |-> Pass(ls, p, isDir, j, x[j - 1])]
    BY DEF Loop
  <2> QED
    BY <1>4, <2>1
<1>7. Pass(ls, p, isDir, k, x[k - 1]) <=> Out(ls, p, isDir, k)
  BY <1>4, <1>5, PassIs
<1> QED
  BY <1>4, <1>6, <1>7

(* What Excluded returns.                                                  *)
LEMMA ExcludedIsOut ==
  ASSUME NEW p, NEW isDir, Len(lines) \in Nat
  PROVE  Excluded(p, isDir) <=> Out(lines, p, isDir, Len(lines))
<1> DEFINE x == CHOOSE x : Loop(lines, p, isDir, x)
<1>1. Loop(lines, p, isDir, x)
  BY LoopExists, Zenon
<1>2. Excluded(p, isDir) = x[Len(lines)]
  <2>1. \A k : Pattern(lines[k]).negate = lines[k].negated
    BY DEF Pattern
  <2>2. \A y : Loop(lines, p, isDir, y) <=>
          y = [i \in 0 .. Len(lines) |->
                 IF i = 0 THEN FALSE
                 ELSE LET pat == Pattern(lines[i])
                      IN IF pat.segs # <<>> /\ (pat.dirOnly => isDir) /\ Match(pat, p)
                         THEN ~pat.negate ELSE y[i - 1]]
    BY <2>1 DEF Loop, Pass, Applies
  <2> QED
    BY <2>2 DEF Excluded
<1> HIDE DEF x
<1> QED
  BY <1>1, <1>2, LoopIs

-----------------------------------------------------------------------------
(* The tree and the lines stay; the theorem about the patterns.            *)

(* What a run starts from, and never changes.                              *)
Input == tree \in Trees /\ lines \in Excludes

(* The lines of a run.                                                     *)
LEMMA InputIs ==
  ASSUME Input
  PROVE  /\ lines \in Seq(Line) /\ Len(lines) \in Nat /\ DOMAIN lines = 1 .. Len(lines)
         /\ DOMAIN tree \subseteq Seq(Names) /\ <<>> \in DOMAIN tree /\ tree[<<>>].kind = "dir"
         /\ \A p \in DOMAIN tree : tree[p] \in Node
         /\ \A p \in DOMAIN tree \ {<<>>} : Front(p) \in DOMAIN tree /\ tree[Front(p)].kind = "dir"
<1>1. lines \in Seq(Line)
  BY PxarAssumption DEF Input
<1>2. Len(lines) \in Nat /\ DOMAIN lines = 1 .. Len(lines)
  BY <1>1, LenProperties
<1>3. /\ DOMAIN tree \subseteq Seq(Names) /\ <<>> \in DOMAIN tree /\ tree[<<>>].kind = "dir"
      /\ \A p \in DOMAIN tree : tree[p] \in Node
      /\ \A p \in DOMAIN tree \ {<<>>} : Front(p) \in DOMAIN tree /\ tree[Front(p)].kind = "dir"
  BY PxarAssumption DEF Input
<1> QED
  BY <1>1, <1>2, <1>3

(* For a path of the tree this is LeftOut.                                 *)
LEMMA ExcludedIsLeftOut ==
  ASSUME Input, NEW p \in DOMAIN tree, p # <<>>
  PROVE  Excluded(p, tree[p].kind = "dir") <=> LeftOut(p)
<1> DEFINE isDir == tree[p].kind = "dir"
<1>1. lines \in Seq(Line) /\ Len(lines) \in Nat /\ DOMAIN lines = 1 .. Len(lines) /\ p \in Seq(Names)
  BY InputIs
<1>2. \A i \in 1 .. Len(lines) : Applies(lines[i], p, isDir) <=> Hits(lines[i], p)
  <2> SUFFICES ASSUME NEW i \in 1 .. Len(lines)
               PROVE  Applies(lines[i], p, isDir) <=> Hits(lines[i], p)
    OBVIOUS
  <2>1. lines[i] \in Line
    BY <1>1, ElementOfSeq
  <2> QED
    BY <1>1, <2>1, AppliesIsHits
<1> HIDE DEF isDir
<1>3. Out(lines, p, isDir, Len(lines)) <=> LeftOut(p)
  <2>1. \A i \in 1 .. Len(lines) : \A j \in i + 1 .. Len(lines) : j \in 1 .. Len(lines)
    BY <1>1
  <2>2. ASSUME NEW i \in 1 .. Len(lines)
        PROVE  (\A j \in i + 1 .. Len(lines) : ~Applies(lines[j], p, isDir)) <=>
               (\A j \in i + 1 .. Len(lines) : ~Hits(lines[j], p))
    BY <1>2, <2>1
  <2> QED
    BY <1>1, <1>2, <2>2 DEF Out, LeftOut
<1>4. Excluded(p, isDir) <=> Out(lines, p, isDir, Len(lines))
  BY <1>1, ExcludedIsOut
<1>5. Excluded(p, isDir) <=> Excluded(p, tree[p].kind = "dir")
  BY DEF isDir
<1> QED
  BY <1>3, <1>4, <1>5

(* No step changes the tree or the lines.                                  *)
LEMMA InputStays ==
  ASSUME Input, [Next]_vars
  PROVE  Input' /\ tree' = tree /\ lines' = lines
<1>1. tree' = tree /\ lines' = lines
  BY DEF Next, vars, input, SkipChild, EncodeLeaf, EncodeDir, EncodeGoodbye, DecodeVersion,
         DecodeEntry, DecodeXattr, DecodeDir, DecodeLeaf, DecodeName, DecodeGoodbye, Over
<1> QED
  BY <1>1 DEF Input

(* What Excluded says of a path, the last line that applies to it says:    *)
(* for every tree, every list of lines, with any number of "**" in them.   *)
THEOREM PatternsAreRead == Spec => []LastLineDecides
<1>1. Init => Input
  BY DEF Init, Input
<1>2. Input /\ [Next]_vars => Input'
  BY InputStays
<1>3. Input => LastLineDecides
  BY ExcludedIsLeftOut DEF LastLineDecides
<1> QED
  BY <1>1, <1>2, <1>3, PTL DEF Spec

-----------------------------------------------------------------------------
(* Numbers in order.                                                       *)

(* A finite set of numbers can be put in order.                            *)
Sorted(S, s) ==
  s \in [1 .. Cardinality(S) -> S] /\ \A i, j \in DOMAIN s : i < j => s[i] < s[j]

(* There is such an order: the least, then the others in order.            *)
LEMMA SortedExists ==
  ASSUME NEW S \in SUBSET Nat, IsFiniteSet(S)
  PROVE  \E s : Sorted(S, s)
<1> DEFINE Bad == {c \in Nat : \E T \in SUBSET Nat : IsFiniteSet(T) /\ Cardinality(T) = c
                                                      /\ ~\E s : Sorted(T, s)}
<1>1. ASSUME Bad # {} PROVE FALSE
  <2>1. PICK c \in Bad : \A d \in Bad : c <= d
    <3>1. Bad \in SUBSET Nat
      OBVIOUS
    <3> HIDE DEF Bad
    <3> QED
      BY <1>1, <3>1, LeastExists
  <2>2. PICK T \in SUBSET Nat : IsFiniteSet(T) /\ Cardinality(T) = c /\ ~\E s : Sorted(T, s)
    BY <2>1
  <2>3. T # {}
    <3>1. ASSUME T = {} PROVE FALSE
      <4>1. Cardinality(T) = 0
        BY <3>1, FS_EmptySet
      <4>2. Sorted(T, [i \in 1 .. 0 |-> i])
        BY <3>1, <4>1 DEF Sorted
      <4> QED
        BY <2>2, <4>2
    <3> QED
      BY <3>1
  <2>4. PICK m \in T : \A x \in T : m <= x
    BY <2>3, LeastExists
  <2> DEFINE U == T \ {m}
  <2>5. IsFiniteSet(U) /\ Cardinality(U) = c - 1 /\ c - 1 \in Nat
    <3>1. IsFiniteSet(U) /\ Cardinality(U) = c - 1
      BY <2>2, <2>4, FS_RemoveElement
    <3>2. Cardinality(U) \in Nat
      BY <3>1, FS_CardinalityType
    <3> QED
      BY <3>1, <3>2
  <2>6. PICK t : Sorted(U, t)
    <3>1. c - 1 \notin Bad
      <4>1. c \in Nat
        BY <2>1
      <4> HIDE DEF Bad
      <4> QED
        BY <2>1, <2>5, <4>1
    <3>2. c - 1 \in Nat /\ c - 1 \notin Bad => ~\E V \in SUBSET Nat : IsFiniteSet(V) /\ Cardinality(V) = c - 1
                                                      /\ ~\E s : Sorted(V, s)
      OBVIOUS
    <3> HIDE DEF Bad
    <3>3. U \in SUBSET Nat
      OBVIOUS
    <3> HIDE DEF U
    <3> QED
      BY <2>5, <3>1, <3>2, <3>3
  <2>7. \A x \in U : x \in T /\ m < x /\ x \in Nat
    BY <2>4
  <2>8. Sorted(T, [i \in 1 .. c |-> IF i = 1 THEN m ELSE t[i - 1]])
    <3> DEFINE s == [i \in 1 .. c |-> IF i = 1 THEN m ELSE t[i - 1]]
    <3>0. c \in Nat
      OBVIOUS
    <3> HIDE DEF U, Bad
    <3>1. t \in [1 .. c - 1 -> U] /\ \A i, j \in 1 .. c - 1 : i < j => t[i] < t[j]
      <4>1. t \in [1 .. Cardinality(U) -> U] /\ \A i, j \in DOMAIN t : i < j => t[i] < t[j]
        BY <2>6 DEF Sorted
      <4> QED
        BY <2>5, <4>1
    <3>2. \A i \in 2 .. c : i - 1 \in 1 .. c - 1 /\ t[i - 1] \in T /\ m < t[i - 1]
      BY <2>5, <2>7, <3>0, <3>1
    <3>3. s \in [1 .. c -> T]
      BY <2>4, <3>0, <3>2
    <3>4. ASSUME NEW i \in 1 .. c, NEW j \in 1 .. c, i < j PROVE s[i] < s[j]
      BY <3>0, <3>1, <3>2, <3>4
    <3> QED
      BY <2>2, <3>0, <3>3, <3>4 DEF Sorted
  <2> QED
    BY <2>2, <2>8
<1>2. Cardinality(S) \in Nat
  BY FS_CardinalityType
<1> QED
  BY <1>1, <1>2

(* What InOrder returns: the set, in order.                                *)
LEMMA InOrderIs ==
  ASSUME NEW S \in SUBSET Nat, IsFiniteSet(S)
  PROVE  /\ InOrder(S) \in Seq(S) /\ Len(InOrder(S)) = Cardinality(S) /\ Cardinality(S) \in Nat
         /\ \A i, j \in 1 .. Cardinality(S) : i < j => InOrder(S)[i] < InOrder(S)[j]
         /\ \A x \in S : \E i \in 1 .. Cardinality(S) : InOrder(S)[i] = x
<1> DEFINE s == InOrder(S)
<1>1. Cardinality(S) \in Nat
  BY FS_CardinalityType
<1>2. PICK c \in Nat : c = Cardinality(S)
  BY <1>1
<1>3. Sorted(S, s)
  BY SortedExists DEF Sorted, InOrder
<1>4. s \in [1 .. c -> S] /\ \A i, j \in 1 .. c : i < j => s[i] < s[j]
  BY <1>2, <1>3 DEF Sorted
<1> HIDE DEF s
<1>5. s \in Seq(S) /\ Len(s) = c
  BY <1>4
<1>6. \A x \in S : \E i \in 1 .. c : s[i] = x
  <2>1. s \in Injection(1 .. c, S)
    <3>1. \A i, j \in 1 .. c : s[i] = s[j] => i = j
      <4> SUFFICES ASSUME NEW i \in 1 .. c, NEW j \in 1 .. c, s[i] = s[j], i # j PROVE FALSE
        OBVIOUS
      <4>1. s[i] \in Nat /\ s[j] \in Nat
        BY <1>4
      <4>2. i < j \/ j < i
        OBVIOUS
      <4> QED
        BY <1>4, <4>1, <4>2
    <3> QED
      BY <1>4, <3>1 DEF Injection, IsInjective
  <2>2. IsFiniteSet(1 .. c) /\ Cardinality(1 .. c) = c
    BY FS_Interval
  <2>3. s \in Surjection(1 .. c, S)
    BY <1>2, <2>1, <2>2, FS_Injection
  <2> QED
    BY <2>3 DEF Surjection
<1>7. /\ s \in Seq(S) /\ Len(s) = Cardinality(S) /\ Cardinality(S) \in Nat
      /\ \A i, j \in 1 .. Cardinality(S) : i < j => s[i] < s[j]
      /\ \A x \in S : \E i \in 1 .. Cardinality(S) : s[i] = x
  BY <1>2, <1>4, <1>5, <1>6
<1> QED
  BY <1>7 DEF s

-----------------------------------------------------------------------------
(* Rows in the order of their hashes.                                      *)

TableRow == [hash : Nat, offset : Int, size : Int]

(* Rows can be put in the order of their hashes.                           *)
Hashed(rows, s) ==
  /\ s \in [DOMAIN rows -> Range(rows)] /\ Range(s) = Range(rows)
  /\ \A i, j \in DOMAIN s : i < j => s[i].hash <= s[j].hash

(* There is such an order: a row of the least hash, then the others.       *)
LEMMA HashedExists ==
  ASSUME NEW rows \in Seq(TableRow)
  PROVE  \E s : Hashed(rows, s)
<1> DEFINE Bad == {c \in Nat : \E r \in [1 .. c -> TableRow] : ~\E s : Hashed(r, s)}
<1>1. ASSUME Bad # {} PROVE FALSE
  <2>1. PICK c \in Bad : \A d \in Bad : c <= d
    <3>1. Bad \in SUBSET Nat
      OBVIOUS
    <3> HIDE DEF Bad
    <3> QED
      BY <1>1, <3>1, LeastExists
  <2>2. PICK r \in [1 .. c -> TableRow] : ~\E s : Hashed(r, s)
    BY <2>1
  <2>3. c \in Nat /\ c # 0
    <3>1. c \in Nat
      BY <2>1
    <3>2. ASSUME c = 0 PROVE FALSE
      <4>1. Hashed(r, r)
        BY <3>2 DEF Hashed, Range
      <4> QED
        BY <2>2, <4>1
    <3> QED
      BY <3>1, <3>2
  <2>4. PICK m \in 1 .. c : \A i \in 1 .. c : r[m].hash <= r[i].hash
    <3> DEFINE H == {r[i].hash : i \in 1 .. c}
    <3>1. H \in SUBSET Nat /\ H # {}
      <4>1. \A i \in 1 .. c : r[i].hash \in Nat
        BY DEF TableRow
      <4>2. 1 \in 1 .. c
        BY <2>3
      <4> QED
        BY <4>1, <4>2
    <3>2. PICK h \in H : \A k \in H : h <= k
      <4> HIDE DEF H
      <4> QED
        BY <3>1, LeastExists
    <3> QED
      BY <3>2
  <2> DEFINE q == [i \in 1 .. c - 1 |-> IF i < m THEN r[i] ELSE r[i + 1]]
  <2>5. q \in [1 .. c - 1 -> TableRow] /\ c - 1 \in Nat
    BY <2>3
  <2>6. Range(r) = Range(q) \union {r[m]}
    <3>1. ASSUME NEW i \in 1 .. c PROVE r[i] \in Range(q) \union {r[m]}
      <4>1. CASE i < m
        <5>1. i \in 1 .. c - 1 /\ q[i] = r[i]
          BY <2>3, <4>1
        <5> QED
          BY <2>5, <5>1 DEF Range
      <4>2. CASE i > m
        <5>1. i - 1 \in 1 .. c - 1 /\ q[i - 1] = r[i]
          BY <2>3, <4>2
        <5> QED
          BY <2>5, <5>1 DEF Range
      <4>3. CASE i = m
        BY <4>3
      <4> QED
        BY <2>3, <4>1, <4>2, <4>3
    <3>2. ASSUME NEW i \in 1 .. c - 1 PROVE q[i] \in Range(r)
      <4>1. i \in 1 .. c /\ i + 1 \in 1 .. c
        BY <2>3
      <4> QED
        BY <4>1 DEF Range
    <3> QED
      BY <3>1, <3>2 DEF Range
  <2> HIDE DEF q
  <2>7. PICK t : Hashed(q, t)
    <3>1. c - 1 \notin Bad
      <4> HIDE DEF Bad
      <4> QED
        BY <2>1, <2>3
    <3> QED
      BY <2>5, <3>1
  <2> HIDE DEF Bad
  <2>8. t \in [1 .. c - 1 -> Range(q)] /\ Range(t) = Range(q)
    BY <2>5, <2>7 DEF Hashed
  <2> DEFINE s == [i \in 1 .. c |-> IF i = 1 THEN r[m] ELSE t[i - 1]]
  <2>9. \A i \in 2 .. c : i - 1 \in 1 .. c - 1 /\ t[i - 1] \in Range(q)
    BY <2>3, <2>8
  <2>10. s \in [1 .. c -> Range(r)]
    BY <2>3, <2>6, <2>9
  <2>11. Range(s) = Range(r)
    <3>1. ASSUME NEW x \in Range(r) PROVE x \in Range(s)
      <4>1. CASE x = r[m]
        <5>1. 1 \in 1 .. c /\ s[1] = x
          BY <2>3, <4>1
        <5> QED
          BY <5>1 DEF Range
      <4>2. CASE x # r[m]
        <5>1. x \in Range(t)
          BY <2>6, <2>8, <4>2
        <5>2. PICK i \in 1 .. c - 1 : t[i] = x
          BY <2>8, <5>1 DEF Range
        <5>3. i + 1 \in 1 .. c /\ i + 1 # 1 /\ (i + 1) - 1 = i
          BY <2>3
        <5>4. s[i + 1] = x
          BY <5>2, <5>3
        <5> QED
          BY <5>3, <5>4 DEF Range
      <4> QED
        BY <4>1, <4>2
    <3>2. Range(s) \subseteq Range(r)
      BY <2>10 DEF Range
    <3> QED
      BY <3>1, <3>2
  <2>12. ASSUME NEW i \in 1 .. c, NEW j \in 1 .. c, i < j PROVE s[i].hash <= s[j].hash
    <3>1. j \in 2 .. c /\ j # 1
      BY <2>3, <2>12
    <3>2. CASE i = 1
      <4>1. t[j - 1] \in Range(r)
        BY <2>6, <2>9, <3>1
      <4>2. r[m].hash <= t[j - 1].hash
        BY <2>4, <4>1 DEF Range
      <4> QED
        BY <3>1, <3>2, <4>2
    <3>3. CASE i # 1
      <4>1. i - 1 \in 1 .. c - 1 /\ j - 1 \in 1 .. c - 1 /\ i - 1 < j - 1
        BY <2>3, <2>12, <3>3
      <4>2. t[i - 1].hash <= t[j - 1].hash
        BY <2>7, <2>8, <4>1 DEF Hashed
      <4> QED
        BY <3>1, <3>3, <4>2
    <3> QED
      BY <3>2, <3>3
  <2>13. Hashed(r, s)
    <3> HIDE DEF s
    <3>1. DOMAIN r = 1 .. c /\ DOMAIN s = 1 .. c
      BY <2>10
    <3> QED
      BY <2>10, <2>11, <2>12, <3>1 DEF Hashed
  <2> QED
    BY <2>2, <2>13
<1>2. rows \in [1 .. Len(rows) -> TableRow] /\ Len(rows) \in Nat
  BY LenProperties
<1> QED
  BY <1>1, <1>2

(* What ByHash returns.                                                    *)
LEMMA ByHashIs ==
  ASSUME NEW rows \in Seq(TableRow)
  PROVE  /\ ByHash(rows) \in Seq(TableRow) /\ Len(ByHash(rows)) = Len(rows)
         /\ Range(ByHash(rows)) = Range(rows)
         /\ \A i, j \in 1 .. Len(rows) : i < j => ByHash(rows)[i].hash <= ByHash(rows)[j].hash
<1> DEFINE s == ByHash(rows)
<1>1. Hashed(rows, s)
  BY HashedExists DEF Hashed, ByHash
<1> HIDE DEF s
<1>2. DOMAIN rows = 1 .. Len(rows) /\ Len(rows) \in Nat /\ Range(rows) \subseteq TableRow
  BY LenProperties, ElementOfSeq DEF Range
<1>3. PICK c \in Nat : c = Len(rows)
  BY <1>2
<1>4. s \in [1 .. c -> TableRow] /\ Range(s) = Range(rows) /\ DOMAIN s = 1 .. c
  BY <1>1, <1>2, <1>3 DEF Hashed
<1>5. s \in Seq(TableRow) /\ Len(s) = c
  BY <1>4
<1>6. \A i, j \in 1 .. c : i < j => s[i].hash <= s[j].hash
  BY <1>1, <1>4 DEF Hashed
<1>7. /\ s \in Seq(TableRow) /\ Len(s) = Len(rows) /\ Range(s) = Range(rows)
      /\ \A i, j \in 1 .. Len(rows) : i < j => s[i].hash <= s[j].hash
  BY <1>3, <1>4, <1>5, <1>6
<1> QED
  BY <1>7 DEF s

-----------------------------------------------------------------------------
(* The items, their sizes, and the sum countingWriter counts.              *)

Item ==
  [item : {"version"}] \union [item : {"entry"}, kind : Kinds]
    \union [item : {"filename"}, name : Names] \union [item : {"xattr"}, attr : Attrs]
    \union [item : {"payload", "symlink"}, size : Nat]
    \union [item : {"goodbye"}, rows : Seq(TableRow), tail : [offset : Int, size : Int]]

(* No item is empty: its header alone has 16 bytes.                        *)
LEMMA SizeIs ==
  ASSUME NEW i \in Item
  PROVE  Size(i) \in Nat \ {0}
<1>1. \A name \in Names : NameLen[name] \in Nat
  BY PxarAssumption
<1>2. Attrs \subseteq Nat
  BY PxarAssumption
<1>3. CASE i \in [item : {"goodbye"}, rows : Seq(TableRow), tail : [offset : Int, size : Int]]
  <2>1. i.item = "goodbye" /\ i.rows \in Seq(TableRow)
    BY <1>3
  <2>2. Len(i.rows) \in Nat
    BY <2>1, LenProperties
  <2>3. Size(i) = HeaderSize + (Len(i.rows) + 1) * RowSize
    BY <2>1 DEF Size
  <2> QED
    BY <2>2, <2>3 DEF HeaderSize, RowSize
<1>4. CASE i \in [item : {"filename"}, name : Names]
  BY <1>1, <1>4 DEF Size, HeaderSize
<1>5. CASE i \in [item : {"xattr"}, attr : Attrs]
  BY <1>2, <1>5 DEF Size, HeaderSize
<1>6. CASE i \in [item : {"payload", "symlink"}, size : Nat]
  BY <1>6 DEF Size, HeaderSize
<1>7. CASE i \in [item : {"version"}] \union [item : {"entry"}, kind : Kinds]
  BY <1>7 DEF Size, HeaderSize
<1> QED
  BY <1>3, <1>4, <1>5, <1>6, <1>7 DEF Item

(* The bytes before each item: f[i] are those of the first i of them.      *)
Sums(items, k, f) ==
  /\ f \in [0 .. k -> Nat] /\ f[0] = 0
  /\ \A i \in 1 .. k : f[i] = f[i - 1] + Size(items[i])

(* The recursion of Sizes has values.                                      *)
LEMMA SumsExist ==
  ASSUME NEW items \in Seq(Item)
  PROVE  \E f : Sums(items, Len(items), f)
<1>1. Len(items) \in Nat /\ \A i \in 1 .. Len(items) : Size(items[i]) \in Nat
  BY LenProperties, ElementOfSeq, SizeIs
<1> DEFINE Bad == {k \in 0 .. Len(items) : ~\E f : Sums(items, k, f)}
<1>2. ASSUME Bad # {} PROVE FALSE
  <2>1. PICK k \in Bad : \A l \in Bad : k <= l
    <3>1. Bad \in SUBSET Nat
      BY <1>1
    <3> HIDE DEF Bad
    <3> QED
      BY <1>2, <3>1, LeastExists
  <2>2. k \in 0 .. Len(items) /\ ~\E f : Sums(items, k, f)
    BY <2>1
  <2>3. k # 0
    <3>1. ASSUME k = 0 PROVE FALSE
      <4>1. Sums(items, 0, [i \in 0 .. 0 |-> 0])
        BY DEF Sums
      <4> QED
        BY <2>2, <3>1, <4>1
    <3> QED
      BY <3>1
  <2>4. PICK f : Sums(items, k - 1, f)
    <3>1. k - 1 \in 0 .. Len(items)
      BY <1>1, <2>2, <2>3
    <3>2. k - 1 \notin Bad
      <4> HIDE DEF Bad
      <4> QED
        BY <1>1, <2>1, <2>2
    <3> QED
      BY <3>1, <3>2
  <2> HIDE DEF Bad
  <2>5. k \in 1 .. Len(items) /\ k - 1 \in Nat
    BY <1>1, <2>2, <2>3
  <2>6. f \in [0 .. k - 1 -> Nat] /\ f[0] = 0 /\ \A i \in 1 .. k - 1 : f[i] = f[i - 1] + Size(items[i])
    BY <2>4 DEF Sums
  <2> DEFINE g == [i \in 0 .. k |-> IF i = k THEN f[k - 1] + Size(items[k]) ELSE f[i]]
  <2>7. g \in [0 .. k -> Nat] /\ g[0] = 0
    BY <1>1, <2>5, <2>6
  <2>8. \A i \in 1 .. k : g[i] = g[i - 1] + Size(items[i])
    BY <1>1, <2>5, <2>6
  <2>9. Sums(items, k, g)
    BY <2>7, <2>8 DEF Sums
  <2> QED
    BY <2>2, <2>9
<1> QED
  BY <1>1, <1>2

(* It has no others.                                                       *)
LEMMA SumsAgree ==
  ASSUME NEW items, NEW k \in Nat, NEW f, NEW g,
         f[0] = g[0],
         \A i \in 1 .. k : f[i] = f[i - 1] + Size(items[i]),
         \A i \in 1 .. k : g[i] = g[i - 1] + Size(items[i])
  PROVE  f[k] = g[k]
<1> DEFINE Bad == {i \in 0 .. k : f[i] # g[i]}
<1>1. ASSUME Bad # {} PROVE FALSE
  <2>1. PICK i \in Bad : \A j \in Bad : i <= j
    <3>1. Bad \in SUBSET Nat
      OBVIOUS
    <3> HIDE DEF Bad
    <3> QED
      BY <1>1, <3>1, LeastExists
  <2>2. i \in 0 .. k /\ f[i] # g[i] /\ i # 0
    BY <2>1
  <2>3. i - 1 \in 0 .. k /\ i \in 1 .. k
    BY <2>2
  <2>4. f[i - 1] = g[i - 1]
    <3>1. i - 1 \notin Bad
      <4>1. ~(i <= i - 1)
        BY <2>3
      <4> HIDE DEF Bad
      <4> QED
        BY <2>1, <4>1
    <3> QED
      BY <2>3, <3>1
  <2> QED
    BY <2>2, <2>3, <2>4
<1> QED
  BY <1>1

(* The count of countingWriter is the sum.                                 *)
LEMMA SizesAre ==
  ASSUME NEW items \in Seq(Item), NEW f, Sums(items, Len(items), f)
  PROVE  Sizes(items) = f[Len(items)] /\ Sizes(items) \in Nat
<1> DEFINE L == Len(items)
           Rec(g) == g = [i \in 0 .. L |-> IF i = 0 THEN 0 ELSE g[i - 1] + Size(items[i])]
           sum == CHOOSE g : Rec(g)
<1>1. L \in Nat
  BY LenProperties
<1>2. f \in [0 .. L -> Nat] /\ f[0] = 0 /\ \A i \in 1 .. L : f[i] = f[i - 1] + Size(items[i])
  BY DEF Sums
<1> HIDE DEF L
<1>3. Rec(f)
  <2> DEFINE h == [i \in 0 .. L |-> IF i = 0 THEN 0 ELSE f[i - 1] + Size(items[i])]
  <2>1. \A i \in 0 .. L : f[i] = h[i]
    BY <1>1, <1>2
  <2>2. DOMAIN h = 0 .. L /\ h = [i \in 0 .. L |-> h[i]]
    OBVIOUS
  <2>3. f = [i \in 0 .. L |-> f[i]]
    BY <1>2
  <2> HIDE DEF h
  <2>4. f = h
    BY <2>1, <2>2, <2>3
  <2> QED
    BY <2>4 DEF h
<1>4. Rec(sum)
  <2>1. \E g : Rec(g)
    BY <1>3
  <2> HIDE DEF Rec
  <2> QED
    BY <2>1
<1>5. Sizes(items) = sum[L]
  BY DEF Sizes, L
<1> HIDE DEF sum
<1>6. sum[0] = 0 /\ \A i \in 1 .. L : sum[i] = sum[i - 1] + Size(items[i])
  <2>1. PICK s : s = sum
    OBVIOUS
  <2>2. s = [i \in 0 .. L |-> IF i = 0 THEN 0 ELSE s[i - 1] + Size(items[i])]
    BY <1>4, <2>1
  <2>3. \A i \in 0 .. L : s[i] = IF i = 0 THEN 0 ELSE s[i - 1] + Size(items[i])
    BY <2>2
  <2>4. 0 \in 0 .. L /\ \A i \in 1 .. L : i \in 0 .. L /\ i # 0
    BY <1>1
  <2> QED
    BY <2>1, <2>3, <2>4
<1> HIDE DEF Rec
<1>7. sum[L] = f[L]
  <2>1. f[0] = sum[0]
    BY <1>2, <1>6
  <2>2. PICK s : s = sum
    OBVIOUS
  <2>3. s[0] = f[0] /\ \A i \in 1 .. L : s[i] = s[i - 1] + Size(items[i])
    BY <1>6, <2>1, <2>2
  <2>4. \A i \in 1 .. L : f[i] = f[i - 1] + Size(items[i])
    BY <1>2
  <2>5. s[L] = f[L]
    BY ONLY <1>1, <2>3, <2>4, SumsAgree
  <2> QED
    BY <2>2, <2>5
<1>8. f[L] \in Nat
  BY <1>1, <1>2
<1> QED
  BY <1>5, <1>7, <1>8 DEF L

-----------------------------------------------------------------------------
(* Sums of what is appended; the parts of a path.                          *)

(* What is written next is counted on top.                                 *)
LEMMA SizesConcat ==
  ASSUME NEW s \in Seq(Item), NEW t \in Seq(Item)
  PROVE  Sizes(s \o t) = Sizes(s) + Sizes(t) /\ s \o t \in Seq(Item)
         /\ Sizes(s) \in Nat /\ Sizes(t) \in Nat
<1>1. PICK f : Sums(s, Len(s), f)
  BY SumsExist
<1>2. PICK h : Sums(t, Len(t), h)
  BY SumsExist
<1>3. PICK k \in Nat, l \in Nat : k = Len(s) /\ l = Len(t)
  BY LenProperties
<1>4. f \in [0 .. k -> Nat] /\ f[0] = 0 /\ \A i \in 1 .. k : f[i] = f[i - 1] + Size(s[i])
  BY <1>1, <1>3 DEF Sums
<1>5. h \in [0 .. l -> Nat] /\ h[0] = 0 /\ \A i \in 1 .. l : h[i] = h[i - 1] + Size(t[i])
  BY <1>2, <1>3 DEF Sums
<1>6. /\ s \o t \in Seq(Item) /\ Len(s \o t) = k + l
      /\ \A i \in 1 .. k + l : (s \o t)[i] = IF i <= k THEN s[i] ELSE t[i - k]
  BY <1>3, ConcatProperties
<1> DEFINE g == [i \in 0 .. k + l |-> IF i <= k THEN f[i] ELSE f[k] + h[i - k]]
<1>7. g \in [0 .. k + l -> Nat] /\ g[0] = 0
  <2>1. \A i \in 0 .. k + l : i <= k => f[i] \in Nat
    BY <1>4
  <2>2. \A i \in 0 .. k + l : i > k => f[k] + h[i - k] \in Nat
    BY <1>4, <1>5
  <2>3. \A i \in 0 .. k + l : (IF i <= k THEN f[i] ELSE f[k] + h[i - k]) \in Nat
    BY <2>1, <2>2
  <2>4. g[0] = f[0]
    OBVIOUS
  <2> QED
    BY <1>4, <2>3, <2>4
<1>8. ASSUME NEW i \in 1 .. k + l PROVE g[i] = g[i - 1] + Size((s \o t)[i])
  <2>1. CASE i <= k
    <3>1. i \in 0 .. k + l /\ i - 1 \in 0 .. k + l /\ i \in 1 .. k /\ i - 1 <= k
      BY <2>1
    <3>2. g[i] = f[i] /\ g[i - 1] = f[i - 1] /\ (s \o t)[i] = s[i]
      BY <1>6, <2>1, <3>1
    <3> QED
      BY <1>4, <3>1, <3>2
  <2>2. CASE i = k + 1
    <3>0. /\ i - k = 1 /\ i - 1 = k /\ 1 \in 1 .. l /\ ~(i <= k) /\ i - 1 <= k
          /\ i \in 0 .. k + l /\ i - 1 \in 0 .. k + l
      BY <2>2
    <3>1. g[i] = f[k] + h[1] /\ g[i - 1] = f[k] /\ (s \o t)[i] = t[1] /\ 1 \in 1 .. l
      <4>1. g[i] = f[k] + h[i - k] /\ g[i - 1] = f[i - 1]
        BY <3>0
      <4>2. (s \o t)[i] = t[i - k]
        BY <1>6, <3>0
      <4> QED
        BY <3>0, <4>1, <4>2
    <3>2. h[1] = h[0] + Size(t[1]) /\ h[1] \in Nat /\ f[k] \in Nat
      BY <1>4, <1>5, <3>1
    <3>3. Size(t[1]) \in Nat
      BY <1>3, <3>1, ElementOfSeq, SizeIs
    <3> QED
      BY <1>5, <3>1, <3>2, <3>3
  <2>3. CASE i > k + 1
    <3>1. PICK j \in 1 .. l : j = i - k /\ j - 1 \in 0 .. l /\ j - 1 = i - 1 - k
      BY <2>3
    <3>2. g[i] = f[k] + h[j] /\ g[i - 1] = f[k] + h[j - 1] /\ (s \o t)[i] = t[j]
      BY <1>6, <2>3, <3>1
    <3>3. h[j] = h[j - 1] + Size(t[j]) /\ h[j - 1] \in Nat /\ f[k] \in Nat
      BY <1>4, <1>5, <3>1
    <3>4. Size(t[j]) \in Nat
      BY <1>3, <3>1, ElementOfSeq, SizeIs
    <3> QED
      BY <3>2, <3>3, <3>4
  <2>4. i <= k \/ i = k + 1 \/ i > k + 1
    OBVIOUS
  <2> QED
    BY <2>1, <2>2, <2>3, <2>4, Zenon
<1>9. g[k + l] = f[k] + h[l]
  BY <1>4, <1>5
<1> HIDE DEF g
<1>10. Sums(s \o t, Len(s \o t), g)
  BY <1>6, <1>7, <1>8 DEF Sums
<1>11. Sizes(s \o t) = g[k + l]
  BY <1>6, <1>10, SizesAre
<1>12. Sizes(s) = f[k] /\ Sizes(t) = h[l] /\ Sizes(s) \in Nat /\ Sizes(t) \in Nat
  BY <1>1, <1>2, <1>3, SizesAre
<1> QED
  BY <1>6, <1>9, <1>11, <1>12

(* The same for one more item.                                             *)
LEMMA SizesAppend ==
  ASSUME NEW s \in Seq(Item), NEW e \in Item
  PROVE  Sizes(Append(s, e)) = Sizes(s) + Size(e) /\ Append(s, e) \in Seq(Item) /\ Sizes(s) \in Nat
<1>1. PICK k \in Nat : k = Len(s)
  BY LenProperties
<1>2. PICK f : Sums(s, Len(s), f)
  BY SumsExist
<1>3. f \in [0 .. k -> Nat] /\ f[0] = 0 /\ \A i \in 1 .. k : f[i] = f[i - 1] + Size(s[i])
  BY <1>1, <1>2 DEF Sums
<1>4. /\ Append(s, e) \in Seq(Item) /\ Len(Append(s, e)) = k + 1
      /\ \A i \in 1 .. k : Append(s, e)[i] = s[i]
      /\ Append(s, e)[k + 1] = e
  BY <1>1, AppendProperties
<1>5. Size(e) \in Nat
  BY SizeIs
<1> DEFINE g == [i \in 0 .. k + 1 |-> IF i <= k THEN f[i] ELSE f[k] + Size(e)]
<1>6. g \in [0 .. k + 1 -> Nat] /\ g[0] = 0 /\ g[k + 1] = f[k] + Size(e)
  BY <1>3, <1>5
<1>7. \A i \in 1 .. k + 1 : g[i] = g[i - 1] + Size(Append(s, e)[i])
  BY <1>3, <1>4
<1> HIDE DEF g
<1>8. Sums(Append(s, e), Len(Append(s, e)), g)
  BY <1>4, <1>6, <1>7 DEF Sums
<1>9. Sizes(Append(s, e)) = g[k + 1]
  BY <1>4, <1>8, SizesAre
<1>10. Sizes(s) = f[k] /\ Sizes(s) \in Nat
  BY <1>1, <1>2, SizesAre
<1> QED
  BY <1>4, <1>6, <1>9, <1>10

(* Paths.                                                                  *)
LEMMA PathParts ==
  ASSUME NEW p \in Seq(Names), p # <<>>
  PROVE  /\ Front(p) \in Seq(Names) /\ Last(p) \in Names /\ Append(Front(p), Last(p)) = p
         /\ Len(p) \in Nat \ {0} /\ Len(Front(p)) = Len(p) - 1
         /\ \A i \in 1 .. Len(p) - 1 : Front(p)[i] = p[i]
<1>1. PICK q \in Seq(Names), c \in Names : p = Append(q, c)
  BY SequenceEmptyOrAppend
<1>2. PICK k \in Nat : k = Len(q)
  BY LenProperties
<1>3. Len(p) = k + 1 /\ p[k + 1] = c /\ \A i \in 1 .. k : p[i] = q[i]
  BY <1>1, <1>2, AppendProperties
<1>4. SubSeq(p, 1, k) \in Seq(Names) /\ Len(SubSeq(p, 1, k)) = k
      /\ \A i \in 1 .. k : SubSeq(p, 1, k)[i] = p[i]
  <2>1. \A i \in 1 .. k : p[i] \in Names
    BY <1>2, <1>3, ElementOfSeq
  <2> QED
    BY <2>1, SubSeqProperties
<1>5. Front(p) = SubSeq(p, 1, k)
  BY <1>3 DEF Front
<1>6. Front(p) = q
  BY <1>2, <1>3, <1>4, <1>5, SeqEqual
<1>7. Last(p) = c
  BY <1>3 DEF Last
<1> QED
  BY <1>1, <1>2, <1>3, <1>6, <1>7

(* A child of a path, its directory and its name.                          *)
LEMMA ChildParts ==
  ASSUME NEW p \in Seq(Names), NEW c \in Names
  PROVE  /\ Append(p, c) \in Seq(Names) /\ Append(p, c) # <<>>
         /\ Front(Append(p, c)) = p /\ Last(Append(p, c)) = c
         /\ Len(p) \in Nat /\ Len(Append(p, c)) = Len(p) + 1 /\ Append(p, c)[Len(p) + 1] = c
         /\ \A i \in 1 .. Len(p) : Append(p, c)[i] = p[i]
<1>1. /\ Append(p, c) \in Seq(Names) /\ Append(p, c) # <<>> /\ Len(Append(p, c)) = Len(p) + 1
      /\ Append(p, c)[Len(p) + 1] = c /\ \A i \in 1 .. Len(p) : Append(p, c)[i] = p[i]
      /\ Len(p) \in Nat
  BY AppendProperties, LenProperties
<1>2. /\ Front(Append(p, c)) \in Seq(Names) /\ Last(Append(p, c)) \in Names
      /\ Append(Front(Append(p, c)), Last(Append(p, c))) = Append(p, c)
  BY <1>1, PathParts
<1>3. Front(Append(p, c)) = p /\ Last(Append(p, c)) = c
  BY <1>2, AppendInjective
<1> QED
  BY <1>1, <1>3

(* The root.                                                               *)
LEMMA NoPath == Front(<<>>) = <<>> /\ <<>> \in Seq(Names) /\ Len(<<>>) = 0
<1>1. Front(<<>>) = SubSeq(<<>>, 1, 0 - 1)
  BY EmptySeq DEF Front
<1>2. SubSeq(<<>>, 1, 0 - 1) = <<>>
  BY SubSeqEmpty
<1> QED
  BY <1>1, <1>2, EmptySeq

-----------------------------------------------------------------------------
(* Paths: beginnings, their order, and the tree.                           *)

(* Beginnings of a path.                                                   *)
LEMMA CutIs ==
  ASSUME NEW q \in Seq(Names), NEW k \in 0 .. Len(q)
  PROVE  /\ SubSeq(q, 1, k) \in Seq(Names) /\ Len(SubSeq(q, 1, k)) = k
         /\ \A i \in 1 .. k : SubSeq(q, 1, k)[i] = q[i]
<1>1. \A i \in 1 .. k : q[i] \in Names
  BY LenProperties, ElementOfSeq
<1>2. k \in Nat
  BY LenProperties
<1> QED
  BY <1>1, <1>2, SubSeqProperties

(* Two paths that begin with the same names.                               *)
LEMMA SameBeginning ==
  ASSUME NEW p \in Seq(Names), NEW q \in Seq(Names), NEW k \in Nat, k <= Len(p), k <= Len(q)
  PROVE  SubSeq(p, 1, k) = SubSeq(q, 1, k) <=> \A i \in 1 .. k : p[i] = q[i]
<1>1. k \in 0 .. Len(p) /\ k \in 0 .. Len(q)
  BY LenProperties
<1>2. /\ SubSeq(p, 1, k) \in Seq(Names) /\ Len(SubSeq(p, 1, k)) = k
      /\ \A i \in 1 .. k : SubSeq(p, 1, k)[i] = p[i]
  BY <1>1, CutIs
<1>3. /\ SubSeq(q, 1, k) \in Seq(Names) /\ Len(SubSeq(q, 1, k)) = k
      /\ \A i \in 1 .. k : SubSeq(q, 1, k)[i] = q[i]
  BY <1>1, CutIs
<1>4. ASSUME \A i \in 1 .. k : p[i] = q[i] PROVE SubSeq(p, 1, k) = SubSeq(q, 1, k)
  BY <1>2, <1>3, <1>4, SeqEqual
<1>5. ASSUME SubSeq(p, 1, k) = SubSeq(q, 1, k), NEW i \in 1 .. k PROVE p[i] = q[i]
  BY <1>2, <1>3, <1>5
<1> QED
  BY <1>4, <1>5

(* A path is below another if it begins with its names.                    *)
LEMMA PrefixIs ==
  ASSUME NEW p \in Seq(Names), NEW q \in Seq(Names)
  PROVE  /\ IsPrefix(p, q) <=> Len(p) <= Len(q) /\ \A i \in 1 .. Len(p) : p[i] = q[i]
         /\ IsPrefix(p, q) => SubSeq(q, 1, Len(p)) = p
         /\ IsPrefix(p, q) /\ Len(p) = Len(q) => p = q
<1>1. PICK k \in Nat : k = Len(p)
  BY LenProperties
<1>2. SubSeq(p, 1, k) = p
  BY <1>1, SubSeqFull
<1>3. IsPrefix(p, q) <=> k <= Len(q) /\ SubSeq(p, 1, k) = SubSeq(q, 1, k)
  BY <1>1 DEF IsPrefix
<1>4. k <= Len(q) => (SubSeq(p, 1, k) = SubSeq(q, 1, k) <=> \A i \in 1 .. k : p[i] = q[i])
  BY <1>1, SameBeginning
<1>5. IsPrefix(p, q) /\ k = Len(q) => p = q
  BY <1>2, <1>3, SubSeqFull
<1> QED
  BY <1>1, <1>2, <1>3, <1>4, <1>5

(* A directory comes before its children, and so does what comes before    *)
(* it.                                                                     *)
LEMMA BeforeChild ==
  ASSUME NEW q \in Seq(Names), NEW x \in Seq(Names), NEW c \in Names, q = x \/ Before(q, x)
  PROVE  Before(q, Append(x, c))
<1>1. /\ Append(x, c) \in Seq(Names) /\ Len(Append(x, c)) = Len(x) + 1
      /\ \A i \in 1 .. Len(x) : Append(x, c)[i] = x[i]
  BY ChildParts
<1>2. PICK k \in Nat, l \in Nat : k = Len(q) /\ l = Len(x)
  BY LenProperties
<1>3. CASE q = x \/ IsPrefix(q, x)
  <2>1. k <= l /\ \A i \in 1 .. k : q[i] = x[i]
    BY <1>2, <1>3, PrefixIs
  <2>2. IsPrefix(q, Append(x, c))
    <3>1. Len(q) <= Len(Append(x, c)) /\ \A i \in 1 .. Len(q) : q[i] = Append(x, c)[i]
      BY <1>1, <1>2, <2>1
    <3> QED
      BY <1>1, <3>1, PrefixIs
  <2>3. q # Append(x, c)
    BY <1>1, <1>2, <2>1
  <2> QED
    BY <2>2, <2>3 DEF Before, IsStrictPrefix
<1>4. CASE \E i \in DOMAIN q \intersect DOMAIN x :
             q[i] < x[i] /\ SubSeq(q, 1, i - 1) = SubSeq(x, 1, i - 1)
  <2>1. PICK i \in 1 .. k : i \in 1 .. l /\ q[i] < x[i] /\ SubSeq(q, 1, i - 1) = SubSeq(x, 1, i - 1)
    BY <1>2, <1>4, LenProperties
  <2>2. i - 1 \in Nat /\ i - 1 <= k /\ i - 1 <= l
    BY <2>1
  <2>3. \A j \in 1 .. i - 1 : q[j] = x[j]
    BY <1>2, <2>1, <2>2, SameBeginning
  <2>4. \A j \in 1 .. i - 1 : q[j] = Append(x, c)[j]
    BY <1>1, <1>2, <2>1, <2>3
  <2>5. SubSeq(q, 1, i - 1) = SubSeq(Append(x, c), 1, i - 1)
    BY <1>1, <1>2, <2>2, <2>4, SameBeginning
  <2>6. i \in DOMAIN q \intersect DOMAIN Append(x, c) /\ q[i] < Append(x, c)[i]
    BY <1>1, <1>2, <2>1, LenProperties
  <2> QED
    BY <2>5, <2>6 DEF Before
<1> QED
  BY <1>3, <1>4 DEF Before, IsStrictPrefix

(* What is below a child comes before the children with greater names.     *)
LEMMA BeforeSibling ==
  ASSUME NEW p \in Seq(Names), NEW c \in Names, NEW d \in Names, c < d,
         NEW x \in Seq(Names), IsPrefix(Append(p, c), x)
  PROVE  Before(x, Append(p, d))
<1>1. /\ Append(p, c) \in Seq(Names) /\ Len(Append(p, c)) = Len(p) + 1
      /\ \A i \in 1 .. Len(p) : Append(p, c)[i] = p[i]
      /\ Append(p, c)[Len(p) + 1] = c
  BY ChildParts
<1>2. /\ Append(p, d) \in Seq(Names) /\ Len(Append(p, d)) = Len(p) + 1
      /\ \A i \in 1 .. Len(p) : Append(p, d)[i] = p[i]
      /\ Append(p, d)[Len(p) + 1] = d
  BY ChildParts
<1>3. PICK k \in Nat, l \in Nat : k = Len(p) /\ l = Len(x)
  BY LenProperties
<1>4. k + 1 <= l /\ \A i \in 1 .. k + 1 : x[i] = Append(p, c)[i]
  <2>1. Len(Append(p, c)) <= Len(x) /\ \A i \in 1 .. Len(Append(p, c)) : Append(p, c)[i] = x[i]
    BY <1>1, PrefixIs
  <2> QED
    BY <1>1, <1>3, <2>1
<1>5. k + 1 \in DOMAIN x \intersect DOMAIN Append(p, d) /\ x[k + 1] < Append(p, d)[k + 1]
  BY <1>1, <1>2, <1>3, <1>4, LenProperties
<1>6. \A i \in 1 .. k : x[i] = Append(p, d)[i]
  BY <1>1, <1>2, <1>3, <1>4
<1>7. SubSeq(x, 1, k) = SubSeq(Append(p, d), 1, k)
  BY <1>2, <1>3, <1>4, <1>6, SameBeginning
<1>8. (k + 1) - 1 = k
  OBVIOUS
<1> QED
  BY <1>5, <1>7, <1>8 DEF Before

(* What is above a path of the tree is a directory of the tree.            *)
LEMMA Above ==
  ASSUME Input, NEW q \in DOMAIN tree, NEW p \in Seq(Names), IsPrefix(p, q)
  PROVE  p \in DOMAIN tree /\ (p # q => tree[p].kind = "dir")
<1>1. q \in Seq(Names)
  BY InputIs
<1>2. PICK k \in Nat, l \in Nat : k = Len(p) /\ l = Len(q)
  BY <1>1, LenProperties
<1>3. k <= l /\ SubSeq(q, 1, k) = p /\ (k = l => p = q)
  BY <1>1, <1>2, PrefixIs
<1>4. ASSUME NEW j \in 1 .. l, SubSeq(q, 1, j) \in DOMAIN tree
      PROVE  SubSeq(q, 1, j - 1) \in DOMAIN tree /\ tree[SubSeq(q, 1, j - 1)].kind = "dir"
  <2> DEFINE s == SubSeq(q, 1, j)
  <2>1. j \in 0 .. Len(q) /\ j - 1 \in 0 .. Len(q)
    BY <1>2
  <2>2. /\ s \in Seq(Names) /\ Len(s) = j /\ \A i \in 1 .. j : s[i] = q[i]
        /\ SubSeq(q, 1, j - 1) \in Seq(Names) /\ Len(SubSeq(q, 1, j - 1)) = j - 1
        /\ \A i \in 1 .. j - 1 : SubSeq(q, 1, j - 1)[i] = q[i]
    BY <1>1, <2>1, CutIs
  <2> HIDE DEF s
  <2>3. s # <<>>
    BY <2>2, EmptySeq
  <2>4. Front(s) \in Seq(Names) /\ Len(Front(s)) = j - 1 /\ \A i \in 1 .. j - 1 : Front(s)[i] = s[i]
    BY <2>2, <2>3, PathParts
  <2>5. \A i \in 1 .. j - 1 : Front(s)[i] = SubSeq(q, 1, j - 1)[i]
    BY <2>2, <2>4
  <2>6. Front(s) = SubSeq(q, 1, j - 1)
    BY <2>2, <2>4, <2>5, SeqEqual
  <2>7. s \in DOMAIN tree \ {<<>>}
    BY <1>4, <2>3 DEF s
  <2>8. Front(s) \in DOMAIN tree /\ tree[Front(s)].kind = "dir"
    BY <2>7, InputIs
  <2> QED
    BY <2>6, <2>8
<1> DEFINE Bad == {d \in Nat : d <= l /\ SubSeq(q, 1, l - d) \notin DOMAIN tree}
<1>5. ASSUME Bad # {} PROVE FALSE
  <2>1. PICK d \in Bad : \A e \in Bad : d <= e
    <3>1. Bad \in SUBSET Nat
      OBVIOUS
    <3> HIDE DEF Bad
    <3> QED
      BY <1>5, <3>1, LeastExists
  <2>2. d \in Nat /\ d <= l /\ SubSeq(q, 1, l - d) \notin DOMAIN tree
    BY <2>1
  <2>3. d # 0
    <3>1. SubSeq(q, 1, l - 0) = q
      BY <1>1, <1>2, SubSeqFull
    <3> QED
      BY <2>2, <3>1
  <2>4. d - 1 \in Nat /\ d - 1 <= l /\ ~(d <= d - 1)
    BY <2>2, <2>3
  <2>5. SubSeq(q, 1, l - (d - 1)) \in DOMAIN tree
    BY <2>1, <2>4
  <2> HIDE DEF Bad
  <2>6. PICK j \in 1 .. l : j = l - (d - 1) /\ j - 1 = l - d
    BY <2>2, <2>3
  <2> QED
    BY <1>4, <2>2, <2>5, <2>6
<1>6. \A j \in 0 .. l : SubSeq(q, 1, j) \in DOMAIN tree
  <2> SUFFICES ASSUME NEW j \in 0 .. l PROVE SubSeq(q, 1, j) \in DOMAIN tree
    OBVIOUS
  <2>1. l - j \in Nat /\ l - j <= l /\ l - (l - j) = j
    OBVIOUS
  <2> QED
    BY <1>5, <2>1
<1>7. p \in DOMAIN tree
  <2>1. k \in 0 .. l
    BY <1>3
  <2> QED
    BY <1>3, <1>6, <2>1
<1>8. ASSUME p # q PROVE tree[p].kind = "dir"
  <2>1. k + 1 \in 1 .. l /\ (k + 1) - 1 = k /\ k + 1 \in 0 .. l
    BY <1>3, <1>8
  <2> QED
    BY <1>3, <1>4, <1>6, <2>1
<1> QED
  BY <1>7, <1>8

(* What Children returns.                                                  *)
LEMMA ChildrenAre ==
  ASSUME Input, NEW p \in Seq(Names)
  PROVE  /\ Children(p) \subseteq Names
         /\ \A c \in Names : c \in Children(p) <=> Append(p, c) \in DOMAIN tree
         /\ Children(p) \in SUBSET Nat /\ IsFiniteSet(Children(p))
<1>1. ASSUME NEW q \in DOMAIN tree, q # <<>>, Front(q) = p
      PROVE  Last(q) \in Names /\ Append(p, Last(q)) = q
  BY <1>1, InputIs, PathParts
<1>2. Children(p) \subseteq Names
  BY <1>1 DEF Children
<1>3. ASSUME NEW c \in Names, Append(p, c) \in DOMAIN tree PROVE c \in Children(p)
  <2>1. PICK q \in DOMAIN tree : q = Append(p, c)
    BY <1>3
  <2>2. Append(p, c) # <<>> /\ Front(Append(p, c)) = p /\ Last(Append(p, c)) = c
    BY ChildParts
  <2>3. q # <<>> /\ Front(q) = p /\ Last(q) = c
    BY <2>1, <2>2
  <2> QED
    BY <2>3 DEF Children
<1>4. ASSUME NEW c \in Children(p) PROVE Append(p, c) \in DOMAIN tree
  BY <1>1 DEF Children
<1>5. Names \subseteq Nat /\ IsFiniteSet(Names)
  BY PxarAssumption
<1>6. IsFiniteSet(Children(p))
  BY <1>2, <1>5, FS_Subset
<1> QED
  BY <1>2, <1>3, <1>4, <1>5, <1>6

-----------------------------------------------------------------------------
(* What is written for a path of the tree.                                 *)

(* What the encoder writes for an entry, the root's VERSION taken as such. *)
Opening(p) == IF p = <<>> THEN Version ELSE Filename(Last(p))
Contents(node) ==
  IF node.kind = "dir" THEN <<>>
  ELSE <<IF node.kind = "link" THEN Symlink(node.size) ELSE Payload(node.size)>>
Block(p) == <<Opening(p), Entry(tree[p])>> \o Xattrs(tree[p]) \o Contents(tree[p])
(* Its items before the content.                                           *)
Meta(p) == 2 + Cardinality(tree[p].xattrs)

(* What the tree has for a path.                                           *)
LEMMA NodeIs ==
  ASSUME Input, NEW p \in DOMAIN tree
  PROVE  /\ p \in Seq(Names) /\ tree[p].kind \in Kinds /\ tree[p].size \in Nat
         /\ tree[p].xattrs \in SUBSET Attrs /\ tree[p].xattrs \in SUBSET Nat
         /\ IsFiniteSet(tree[p].xattrs)
<1>1. p \in Seq(Names) /\ tree[p] \in Node
  BY InputIs
<1>2. tree[p].kind \in Kinds /\ tree[p].size \in Nat /\ tree[p].xattrs \in SUBSET Attrs
  BY <1>1 DEF Node
<1>3. Attrs \subseteq Nat /\ IsFiniteSet(Attrs)
  BY PxarAssumption
<1>4. IsFiniteSet(tree[p].xattrs)
  BY <1>2, <1>3, FS_Subset
<1> QED
  BY <1>1, <1>2, <1>3, <1>4

(* The items of its extended attributes.                                   *)
LEMMA XattrsAre ==
  ASSUME Input, NEW p \in DOMAIN tree
  PROVE  /\ Xattrs(tree[p]) \in Seq(Item) /\ Len(Xattrs(tree[p])) = Cardinality(tree[p].xattrs)
         /\ Cardinality(tree[p].xattrs) \in Nat
         /\ \A j \in 1 .. Cardinality(tree[p].xattrs) :
              Xattrs(tree[p])[j] = Xattr(InOrder(tree[p].xattrs)[j])
<1>1. PICK X : X = tree[p].xattrs
  OBVIOUS
<1>2. PICK s : s = InOrder(X)
  OBVIOUS
<1>3. s \in Seq(X) /\ Len(s) = Cardinality(X) /\ Cardinality(X) \in Nat /\ X \in SUBSET Attrs
  BY <1>1, <1>2, NodeIs, InOrderIs
<1>4. PICK c \in Nat : c = Cardinality(X)
  BY <1>3
<1>5. Xattrs(tree[p]) = [i \in 1 .. c |-> Xattr(s[i])]
  BY <1>1, <1>2, <1>4 DEF Xattrs
<1>6. \A i \in 1 .. c : Xattr(s[i]) \in Item
  <2> SUFFICES ASSUME NEW i \in 1 .. c PROVE Xattr(s[i]) \in Item
    OBVIOUS
  <2>1. s[i] \in Attrs
    BY <1>3, <1>4, ElementOfSeq
  <2> QED
    BY <2>1 DEF Xattr, Item
<1>7. [i \in 1 .. c |-> Xattr(s[i])] \in Seq(Item) /\ Len([i \in 1 .. c |-> Xattr(s[i])]) = c
  BY <1>6
<1> QED
  BY <1>1, <1>2, <1>4, <1>5, <1>7

(* The first two of its items.                                             *)
LEMMA OpeningIs ==
  ASSUME Input, NEW p \in DOMAIN tree
  PROVE  /\ <<Opening(p), Entry(tree[p])>> \in Seq(Item)
         /\ Len(<<Opening(p), Entry(tree[p])>>) = 2
         /\ <<Opening(p), Entry(tree[p])>>[1] = Opening(p)
         /\ <<Opening(p), Entry(tree[p])>>[2] = Entry(tree[p])
<1>1. Entry(tree[p]) \in Item
  <2>1. tree[p].kind \in Kinds
    BY NodeIs
  <2> QED
    BY <2>1 DEF Entry, Item
<1>2. Opening(p) \in Item
  <2>1. p # <<>> => Last(p) \in Names
    BY NodeIs, PathParts
  <2> QED
    BY <2>1 DEF Opening, Version, Filename, Item
<1> QED
  BY <1>1, <1>2

(* The item of its content.                                                *)
LEMMA ContentsAre ==
  ASSUME Input, NEW p \in DOMAIN tree
  PROVE  /\ Contents(tree[p]) \in Seq(Item)
         /\ Len(Contents(tree[p])) = IF tree[p].kind = "dir" THEN 0 ELSE 1
         /\ tree[p].kind # "dir" =>
              Contents(tree[p])[1] = IF tree[p].kind = "link" THEN Symlink(tree[p].size)
                                                           ELSE Payload(tree[p].size)
<1> DEFINE c == IF tree[p].kind = "link" THEN Symlink(tree[p].size) ELSE Payload(tree[p].size)
<1>1. c \in Item
  <2>1. tree[p].size \in Nat
    BY NodeIs
  <2> QED
    BY <2>1 DEF Symlink, Payload, Item
<1> HIDE DEF c
<1>2. Contents(tree[p]) = IF tree[p].kind = "dir" THEN <<>> ELSE <<c>>
  BY DEF Contents, c
<1>3. <<c>> \in Seq(Item) /\ Len(<<c>>) = 1 /\ <<c>>[1] = c
  BY <1>1, One
<1>4. <<>> \in Seq(Item) /\ Len(<<>>) = 0
  BY EmptySeq
<1>5. /\ Contents(tree[p]) \in Seq(Item)
      /\ Len(Contents(tree[p])) = IF tree[p].kind = "dir" THEN 0 ELSE 1
      /\ tree[p].kind # "dir" => Contents(tree[p])[1] = c
  BY <1>2, <1>3, <1>4
<1> QED
  BY <1>5 DEF c

(* All of its items.                                                       *)
LEMMA BlockIs ==
  ASSUME Input, NEW p \in DOMAIN tree
  PROVE  /\ Block(p) \in Seq(Item) /\ Meta(p) \in Nat /\ Meta(p) >= 2
         /\ Len(Block(p)) = IF tree[p].kind = "dir" THEN Meta(p) ELSE Meta(p) + 1
         /\ Block(p)[1] = Opening(p) /\ Block(p)[2] = Entry(tree[p])
         /\ \A j \in 3 .. Meta(p) : Block(p)[j] = Xattr(InOrder(tree[p].xattrs)[j - 2])
         /\ tree[p].kind # "dir" =>
              Block(p)[Meta(p) + 1] =
                IF tree[p].kind = "link" THEN Symlink(tree[p].size) ELSE Payload(tree[p].size)
<1>1. PICK o : o = <<Opening(p), Entry(tree[p])>>
  OBVIOUS
<1>2. PICK x : x = Xattrs(tree[p])
  OBVIOUS
<1>3. PICK y : y = Contents(tree[p])
  OBVIOUS
<1>4. PICK c : c = Cardinality(tree[p].xattrs)
  OBVIOUS
<1>5. /\ o \in Seq(Item) /\ Len(o) = 2 /\ o[1] = Opening(p) /\ o[2] = Entry(tree[p])
      /\ x \in Seq(Item) /\ Len(x) = c /\ c \in Nat
      /\ \A j \in 1 .. c : x[j] = Xattr(InOrder(tree[p].xattrs)[j])
      /\ y \in Seq(Item) /\ Len(y) = IF tree[p].kind = "dir" THEN 0 ELSE 1
      /\ tree[p].kind # "dir" =>
           y[1] = IF tree[p].kind = "link" THEN Symlink(tree[p].size) ELSE Payload(tree[p].size)
  BY <1>1, <1>2, <1>3, <1>4, OpeningIs, XattrsAre, ContentsAre
<1>6. Block(p) = (o \o x) \o y
  BY <1>1, <1>2, <1>3 DEF Block
<1>7. /\ o \o x \in Seq(Item) /\ Len(o \o x) = 2 + c
      /\ \A i \in 1 .. 2 + c : (o \o x)[i] = IF i <= 2 THEN o[i] ELSE x[i - 2]
  <2>1. /\ o \o x \in Seq(Item) /\ Len(o \o x) = Len(o) + Len(x)
        /\ \A i \in 1 .. Len(o) + Len(x) : (o \o x)[i] = IF i <= Len(o) THEN o[i] ELSE x[i - Len(o)]
    BY <1>5, ConcatProperties
  <2> QED
    BY <1>5, <2>1
<1>8. /\ Block(p) \in Seq(Item) /\ Len(Block(p)) = 2 + c + Len(y)
      /\ \A i \in 1 .. 2 + c + Len(y) : Block(p)[i] = IF i <= 2 + c THEN (o \o x)[i] ELSE y[i - (2 + c)]
  <2>1. PICK s : s = o \o x
    OBVIOUS
  <2>2. s \in Seq(Item) /\ Len(s) = 2 + c /\ y \in Seq(Item) /\ Block(p) = s \o y
    BY <1>5, <1>6, <1>7, <2>1
  <2>3. /\ s \o y \in Seq(Item) /\ Len(s \o y) = Len(s) + Len(y)
        /\ \A i \in 1 .. Len(s) + Len(y) : (s \o y)[i] = IF i <= Len(s) THEN s[i] ELSE y[i - Len(s)]
    BY <2>2, ConcatProperties
  <2> QED
    BY <2>1, <2>2, <2>3
<1>9. Meta(p) = 2 + c
  BY <1>4 DEF Meta
<1>10. Block(p)[1] = Opening(p) /\ Block(p)[2] = Entry(tree[p])
  BY <1>5, <1>7, <1>8
<1>11. ASSUME NEW j \in 3 .. Meta(p) PROVE Block(p)[j] = Xattr(InOrder(tree[p].xattrs)[j - 2])
  <2>1. j - 2 \in 1 .. c /\ j \in 1 .. 2 + c /\ ~(j <= 2)
    BY <1>5, <1>9
  <2>2. Block(p)[j] = (o \o x)[j]
    <3>1. j \in 1 .. 2 + c + Len(y) /\ j <= 2 + c
      BY <1>5, <2>1
    <3> QED
      BY <1>8, <3>1
  <2>3. (o \o x)[j] = x[j - 2]
    BY <1>7, <2>1
  <2> QED
    BY <1>5, <2>1, <2>2, <2>3
<1>12. ASSUME tree[p].kind # "dir" PROVE Block(p)[Meta(p) + 1] = y[1]
  BY <1>5, <1>8, <1>9, <1>12
<1> QED
  BY <1>5, <1>8, <1>9, <1>10, <1>11, <1>12

-----------------------------------------------------------------------------
(* The labels of the items.                                                *)

(* Each item of an archive has a label: it is the k-th item of what was    *)
(* written for a path, or, if k is 0, the GOODBYE of the path.             *)
Label == [path : Seq(Names), k : Nat]
Close == [path |-> <<>>, k |-> 0]
(* An entry or a directory ends here, and the decoder is in this one.      *)
Ends(l) == l.k = 0 \/ l.k = Len(Block(l.path))
After(l) == IF l.k # 0 /\ tree[l.path].kind = "dir" THEN l.path ELSE Front(l.path)
Follows(l, m) ==
  IF Ends(l)
  THEN /\ l # Close
       /\ \/ m.k = 0 /\ m.path = After(l)
          \/ m.k = 1 /\ m.path # <<>> /\ Front(m.path) = After(l)
  ELSE m.path = l.path /\ m.k = l.k + 1
LabelOK(l, i) ==
  /\ l \in Label /\ l.path \in ToBackUp /\ l.k <= Len(Block(l.path))
  /\ l.k = 0 => i.item = "goodbye" /\ tree[l.path].kind = "dir"
  /\ l.k # 0 => i = Block(l.path)[l.k]
Labelled(a, at) ==
  /\ Len(a) >= 1 /\ at \in [1 .. Len(a) -> Label]
  /\ \A i \in 1 .. Len(a) : LabelOK(at[i], a[i])
  /\ at[1].path = <<>> /\ at[1].k = 1
  /\ \A i \in 1 .. Len(a) - 1 : Follows(at[i], at[i + 1])

WithBlock(a, at, p) ==
  [i \in 1 .. Len(a) + Len(Block(p)) |->
     IF i <= Len(a) THEN at[i] ELSE [path |-> p, k |-> i - Len(a)]]
WithGoodbye(a, at, p) ==
  [i \in 1 .. Len(a) + 1 |-> IF i <= Len(a) THEN at[i] ELSE [path |-> p, k |-> 0]]

(* What is known of a path that is to be backed up.                        *)
LEMMA ToBackUpIs ==
  ASSUME Input, NEW p \in ToBackUp
  PROVE  /\ p \in DOMAIN tree /\ p \in Seq(Names) /\ tree[p].kind \in Kinds \ {"special"}
         /\ Block(p) \in Seq(Item) /\ Len(Block(p)) \in Nat /\ Len(Block(p)) >= 2
<1>1. p \in DOMAIN tree /\ tree[p].kind # "special"
  BY DEF ToBackUp
<1>2. p \in Seq(Names) /\ tree[p].kind \in Kinds
  BY <1>1, NodeIs
<1>3. Block(p) \in Seq(Item) /\ Len(Block(p)) \in Nat /\ Len(Block(p)) >= 2
  BY <1>1, BlockIs
<1> QED
  BY <1>1, <1>2, <1>3

(* The items of a path can follow an entry that ends in its directory.     *)
LEMMA BlockLabelled ==
  ASSUME Input, NEW a \in Seq(Item), NEW at, Labelled(a, at),
         Ends(at[Len(a)]), at[Len(a)] # Close,
         NEW p \in ToBackUp, p # <<>>, Front(p) = After(at[Len(a)])
  PROVE  /\ Labelled(a \o Block(p), WithBlock(a, at, p)) /\ a \o Block(p) \in Seq(Item)
         /\ Len(a \o Block(p)) = Len(a) + Len(Block(p))
         /\ WithBlock(a, at, p)[Len(a) + Len(Block(p))] = [path |-> p, k |-> Len(Block(p))]
<1>1. PICK L \in Nat : L = Len(a)
  BY LenProperties
<1>2. PICK b : b = Block(p)
  OBVIOUS
<1>3. PICK m \in Nat : m = Len(b) /\ m >= 2 /\ b \in Seq(Item)
  BY <1>2, ToBackUpIs
<1>4. /\ a \o b \in Seq(Item) /\ Len(a \o b) = L + m
      /\ \A i \in 1 .. L + m : (a \o b)[i] = IF i <= L THEN a[i] ELSE b[i - L]
  <2>1. /\ a \o b \in Seq(Item) /\ Len(a \o b) = Len(a) + Len(b)
        /\ \A i \in 1 .. Len(a) + Len(b) : (a \o b)[i] = IF i <= Len(a) THEN a[i] ELSE b[i - Len(a)]
    BY <1>3, ConcatProperties
  <2> QED
    BY <1>1, <1>3, <2>1
<1>5. PICK bt : bt = WithBlock(a, at, p)
  OBVIOUS
<1>6. bt = [i \in 1 .. L + m |-> IF i <= L THEN at[i] ELSE [path |-> p, k |-> i - L]]
  BY <1>1, <1>2, <1>3, <1>5 DEF WithBlock
<1>7. /\ L >= 1 /\ at \in [1 .. L -> Label] /\ \A i \in 1 .. L : LabelOK(at[i], a[i])
      /\ at[1].path = <<>> /\ at[1].k = 1 /\ \A i \in 1 .. L - 1 : Follows(at[i], at[i + 1])
  BY <1>1 DEF Labelled
<1>8. \A i \in 1 .. L : bt[i] = at[i]
  BY <1>6
<1>9. \A i \in L + 1 .. L + m : bt[i] = [path |-> p, k |-> i - L]
  BY <1>6
<1>10. p \in Seq(Names)
  BY ToBackUpIs
<1>11. bt \in [1 .. L + m -> Label]
  <2>1. ASSUME NEW i \in 1 .. L + m PROVE bt[i] \in Label
    <3>1. CASE i <= L
      <4>1. i \in 1 .. L
        BY <3>1
      <4> QED
        BY <1>7, <1>8, <4>1
    <3>2. CASE i > L
      <4>1. i \in L + 1 .. L + m /\ i - L \in Nat
        BY <3>2
      <4>2. bt[i] = [path |-> p, k |-> i - L]
        BY <1>9, <4>1
      <4> QED
        BY <1>10, <4>1, <4>2 DEF Label
    <3> QED
      BY <3>1, <3>2
  <2> QED
    BY <1>6, <2>1
<1>17. ASSUME NEW i \in L + 1 .. L + m
       PROVE  bt[i].path = p /\ bt[i].k = i - L /\ i \in 1 .. L + m /\ bt[i] \in Label
  <2>1. bt[i] = [path |-> p, k |-> i - L]
    BY <1>9
  <2>2. i \in 1 .. L + m
    OBVIOUS
  <2> QED
    BY <1>11, <2>1, <2>2
<1>12. ASSUME NEW i \in 1 .. L + m PROVE LabelOK(bt[i], (a \o b)[i])
  <2>1. CASE i <= L
    <3>1. i \in 1 .. L /\ (a \o b)[i] = a[i]
      BY <1>4, <2>1
    <3> QED
      BY <1>7, <1>8, <3>1
  <2>2. CASE i > L
    <3>1. i \in L + 1 .. L + m /\ i - L \in 1 .. m /\ (a \o b)[i] = b[i - L]
      BY <1>4, <2>2
    <3>2. bt[i].path = p /\ bt[i].k = i - L /\ bt[i] \in Label
      BY <1>17, <3>1
    <3> QED
      BY <1>2, <1>3, <3>1, <3>2 DEF LabelOK
  <2>3. i <= L \/ i > L
    OBVIOUS
  <2> QED
    BY <2>1, <2>2, <2>3, Zenon
<1>13. ASSUME NEW i \in 1 .. L + m - 1 PROVE Follows(bt[i], bt[i + 1])
  <2>1. CASE i < L
    <3>1. i \in 1 .. L - 1 /\ i \in 1 .. L /\ i + 1 \in 1 .. L
      BY <2>1
    <3> QED
      BY <1>7, <1>8, <3>1
  <2>2. CASE i = L
    <3>1. bt[i] = at[L] /\ bt[i + 1].path = p /\ bt[i + 1].k = 1
      <4>1. L \in 1 .. L /\ L + 1 \in L + 1 .. L + m /\ (L + 1) - L = 1
        BY <1>3, <1>7
      <4> QED
        BY <1>8, <1>17, <2>2, <4>1
    <3> QED
      BY <1>1, <3>1 DEF Follows
  <2>3. CASE i > L
    <3>1. /\ i \in L + 1 .. L + m /\ i + 1 \in L + 1 .. L + m
          /\ i - L \in 1 .. m - 1 /\ (i + 1) - L = (i - L) + 1
      BY <1>3, <2>3
    <3>2. bt[i].path = p /\ bt[i].k = i - L /\ bt[i + 1].path = p /\ bt[i + 1].k = (i - L) + 1
      BY <1>17, <3>1
    <3>3. ~Ends(bt[i])
      BY <1>2, <1>3, <3>1, <3>2 DEF Ends
    <3> QED
      BY <3>2, <3>3 DEF Follows
  <2>4. i < L \/ i = L \/ i > L
    OBVIOUS
  <2> QED
    BY <2>1, <2>2, <2>3, <2>4, Zenon
<1>14. bt[1].path = <<>> /\ bt[1].k = 1
  <2>1. 1 \in 1 .. L
    BY <1>7
  <2> QED
    BY <1>7, <1>8, <2>1
<1>15. Labelled(a \o b, bt)
  <2>1. L + m >= 1
    BY <1>3
  <2> QED
    BY <1>4, <1>11, <1>12, <1>13, <1>14, <2>1 DEF Labelled
<1>16. bt[L + m] = [path |-> p, k |-> m]
  <2>1. L + m \in L + 1 .. L + m /\ (L + m) - L = m
    BY <1>3
  <2> QED
    BY <1>9, <2>1
<1> QED
  BY <1>1, <1>2, <1>3, <1>4, <1>5, <1>15, <1>16

(* So can the GOODBYE of the directory.                                    *)
LEMMA GoodbyeLabelled ==
  ASSUME Input, NEW a \in Seq(Item), NEW at, Labelled(a, at),
         Ends(at[Len(a)]), at[Len(a)] # Close,
         NEW p \in ToBackUp, p = After(at[Len(a)]), tree[p].kind = "dir",
         NEW g \in Item, g.item = "goodbye"
  PROVE  /\ Labelled(Append(a, g), WithGoodbye(a, at, p)) /\ Append(a, g) \in Seq(Item)
         /\ Len(Append(a, g)) = Len(a) + 1
         /\ WithGoodbye(a, at, p)[Len(a) + 1] = [path |-> p, k |-> 0]
<1>1. PICK L \in Nat : L = Len(a)
  BY LenProperties
<1>2. /\ Append(a, g) \in Seq(Item) /\ Len(Append(a, g)) = L + 1
      /\ \A i \in 1 .. L : Append(a, g)[i] = a[i]
      /\ Append(a, g)[L + 1] = g
  BY <1>1, AppendProperties
<1>3. PICK bt : bt = WithGoodbye(a, at, p)
  OBVIOUS
<1>4. bt = [i \in 1 .. L + 1 |-> IF i <= L THEN at[i] ELSE [path |-> p, k |-> 0]]
  BY <1>1, <1>3 DEF WithGoodbye
<1>5. /\ L >= 1 /\ at \in [1 .. L -> Label] /\ \A i \in 1 .. L : LabelOK(at[i], a[i])
      /\ at[1].path = <<>> /\ at[1].k = 1 /\ \A i \in 1 .. L - 1 : Follows(at[i], at[i + 1])
  BY <1>1 DEF Labelled
<1>6. \A i \in 1 .. L : bt[i] = at[i]
  BY <1>4
<1>7. bt[L + 1] = [path |-> p, k |-> 0]
  BY <1>4
<1>8. p \in Seq(Names) /\ Len(Block(p)) \in Nat
  BY ToBackUpIs
<1>9. bt \in [1 .. L + 1 -> Label]
  <2>1. \A i \in 1 .. L + 1 : bt[i] \in Label
    <3>1. [path |-> p, k |-> 0] \in Label
      BY <1>8 DEF Label
    <3>2. \A i \in 1 .. L + 1 : i \in 1 .. L \/ i = L + 1
      OBVIOUS
    <3> QED
      BY <1>5, <1>6, <1>7, <3>1, <3>2
  <2> QED
    BY <1>4, <2>1
<1>10. ASSUME NEW i \in 1 .. L + 1 PROVE LabelOK(bt[i], Append(a, g)[i])
  <2>1. CASE i \in 1 .. L
    BY <1>2, <1>5, <1>6, <2>1
  <2>2. CASE i = L + 1
    <3>1. bt[i].path = p /\ bt[i].k = 0 /\ Append(a, g)[i] = g /\ bt[i] \in Label
      BY <1>2, <1>7, <1>9, <2>2
    <3> QED
      BY <1>8, <3>1 DEF LabelOK
  <2>3. i \in 1 .. L \/ i = L + 1
    OBVIOUS
  <2> QED
    BY <2>1, <2>2, <2>3, Zenon
<1>11. ASSUME NEW i \in 1 .. L PROVE Follows(bt[i], bt[i + 1])
  <2>1. CASE i \in 1 .. L - 1
    <3>1. i \in 1 .. L /\ i + 1 \in 1 .. L
      BY <2>1
    <3> QED
      BY <1>5, <1>6, <2>1, <3>1
  <2>2. CASE i = L
    BY <1>1, <1>6, <1>7, <2>2 DEF Follows
  <2> QED
    BY <2>1, <2>2
<1>12. bt[1].path = <<>> /\ bt[1].k = 1
  <2>1. 1 \in 1 .. L
    BY <1>5
  <2> QED
    BY <1>5, <1>6, <2>1
<1>13. Labelled(Append(a, g), bt)
  BY <1>2, <1>9, <1>10, <1>11, <1>12 DEF Labelled
<1> QED
  BY <1>1, <1>2, <1>3, <1>7, <1>13

(* The items of the root are a beginning.                                  *)
LEMMA FirstLabelled ==
  ASSUME Input, <<>> \in ToBackUp
  PROVE  Labelled(Block(<<>>), [i \in 1 .. Len(Block(<<>>)) |-> [path |-> <<>>, k |-> i]])
<1>1. PICK b : b = Block(<<>>)
  OBVIOUS
<1>2. PICK m \in Nat : m = Len(b) /\ m >= 2 /\ b \in Seq(Item)
  BY <1>1, ToBackUpIs
<1>3. PICK bt : bt = [i \in 1 .. m |-> [path |-> <<>>, k |-> i]]
  OBVIOUS
<1>4. \A i \in 1 .. m : bt[i].path = <<>> /\ bt[i].k = i
  BY <1>3
<1>5. bt \in [1 .. m -> Label]
  BY <1>3, NoPath DEF Label
<1>6. ASSUME NEW i \in 1 .. m PROVE LabelOK(bt[i], b[i])
  BY <1>1, <1>2, <1>4, <1>5 DEF LabelOK
<1>7. ASSUME NEW i \in 1 .. m - 1 PROVE Follows(bt[i], bt[i + 1])
  BY <1>1, <1>2, <1>4 DEF Follows, Ends
<1>8. Labelled(b, bt)
  BY <1>2, <1>4, <1>5, <1>6, <1>7 DEF Labelled
<1> QED
  BY <1>1, <1>2, <1>3, <1>8

-----------------------------------------------------------------------------
(* The stack of the encoder, and what is left to do.                       *)

(* The directories the encoder is in: each is the one the directory above  *)
(* it is at, and what is left to do of it are names of its children.       *)
FrameType == [path : Seq(Names), names : Seq(Names), start : Int, rows : Seq(TableRow)]
Current(f) == Append(f.path, Head(f.names))
FrameOK(f) ==
  /\ f \in FrameType /\ f.path \in ToBackUp /\ tree[f.path].kind = "dir"
  /\ \A i \in 1 .. Len(f.names) : Append(f.path, f.names[i]) \in DOMAIN tree
  /\ \A i, j \in 1 .. Len(f.names) : i < j => f.names[i] < f.names[j]
StackOK(st) ==
  /\ st \in Seq(FrameType) /\ Len(st) >= 1 /\ st[1].path = <<>>
  /\ \A j \in 1 .. Len(st) : FrameOK(st[j])
  /\ \A j \in 1 .. Len(st) - 1 : st[j].names # <<>> /\ st[j + 1].path = Current(st[j])
  /\ \A j, k \in 1 .. Len(st) : j < k => IsPrefix(Current(st[j]), st[k].path)

(* What is left to do, with the child the encoder looks at next or not.    *)
Left(st, j, least) == {Append(st[j].path, st[j].names[i]) : i \in least .. Len(st[j].names)}
Later(st) == UNION {Left(st, j, 2) : j \in 1 .. Len(st)}
Waiting(st) == Later(st) \union Left(st, Len(st), 1)

(* Names that are left: the first, and those behind it.                    *)
LEMMA NamesLeft ==
  ASSUME NEW s \in Seq(Names)
  PROVE  /\ Len(s) \in Nat /\ \A i \in 1 .. Len(s) : s[i] \in Names
         /\ s # <<>> => /\ Len(s) >= 1 /\ Head(s) = s[1] /\ Head(s) \in Names /\ Tail(s) \in Seq(Names)
                        /\ Len(Tail(s)) = Len(s) - 1
                        /\ \A i \in 1 .. Len(s) - 1 : Tail(s)[i] = s[i + 1]
         /\ s = <<>> <=> Len(s) = 0
<1>1. Len(s) \in Nat /\ \A i \in 1 .. Len(s) : s[i] \in Names
  BY LenProperties, ElementOfSeq
<1>2. s = <<>> <=> Len(s) = 0
  BY Filled
<1>3. ASSUME s # <<>>
      PROVE  /\ Len(s) >= 1 /\ Head(s) = s[1] /\ Head(s) \in Names /\ Tail(s) \in Seq(Names)
             /\ Len(Tail(s)) = Len(s) - 1
             /\ \A i \in 1 .. Len(s) - 1 : Tail(s)[i] = s[i + 1]
  <2>1. /\ Head(s) \in Names /\ Tail(s) \in Seq(Names) /\ Len(Tail(s)) = Len(s) - 1
        /\ \A i \in 1 .. Len(s) - 1 : Tail(s)[i] = s[i + 1]
    BY <1>3, HeadTailProperties
  <2>2. Len(s) >= 1
    BY <1>1, <1>2, <1>3
  <2>3. Head(s) = s[1]
    BY <1>3
  <2> QED
    BY <2>1, <2>2, <2>3
<1> QED
  BY <1>1, <1>2, <1>3

(* The parts of a frame.                                                   *)
LEMMA FrameIs ==
  ASSUME Input, NEW f, FrameOK(f)
  PROVE  /\ f.path \in Seq(Names) /\ f.names \in Seq(Names) /\ f.path \in DOMAIN tree
         /\ f.rows \in Seq(TableRow) /\ f.start \in Int
<1>1. f \in FrameType /\ f.path \in ToBackUp
  BY DEF FrameOK
<1> QED
  BY <1>1, ToBackUpIs DEF FrameType

(* A frame without its first name.                                         *)
LEMMA NextFrame ==
  ASSUME Input, NEW f, FrameOK(f), f.names # <<>>,
         NEW g \in FrameType, g.path = f.path, g.names = Tail(f.names)
  PROVE  FrameOK(g) /\ \A i \in 1 .. Len(g.names) : g.names[i] = f.names[i + 1]
<1>1. PICK s \in Seq(Names) : s = f.names
  BY FrameIs
<1>2. PICK t \in Seq(Names) : t = g.names
  BY DEF FrameType
<1>3. PICK p \in Seq(Names) : p = f.path /\ p = g.path
  BY FrameIs
<1>4. PICK c \in Nat : c = Len(s)
  BY NamesLeft
<1>5. t = Tail(s) /\ s # <<>>
  BY <1>1, <1>2
<1>6. c >= 1 /\ Len(t) = c - 1 /\ \A i \in 1 .. c - 1 : t[i] = s[i + 1]
  BY <1>4, <1>5, NamesLeft
<1>7. /\ p \in ToBackUp /\ tree[p].kind = "dir"
      /\ \A i \in 1 .. c : Append(p, s[i]) \in DOMAIN tree
      /\ \A i, j \in 1 .. c : i < j => s[i] < s[j]
  BY <1>1, <1>3, <1>4 DEF FrameOK
<1>8. \A i \in 1 .. c - 1 : i + 1 \in 1 .. c
  OBVIOUS
<1>9. \A i \in 1 .. c - 1 : Append(p, t[i]) \in DOMAIN tree
  BY <1>6, <1>7, <1>8
<1>10. \A i, j \in 1 .. c - 1 : i < j => t[i] < t[j]
  BY <1>6, <1>7, <1>8
<1> QED
  BY <1>1, <1>2, <1>3, <1>6, <1>7, <1>9, <1>10 DEF FrameOK

(* The child the encoder is at comes before what is left behind it.        *)
LEMMA ChildFirst ==
  ASSUME Input, NEW st, StackOK(st), st[Len(st)].names # <<>>
  PROVE  \A x \in Later(st) : Before(Current(st[Len(st)]), x)
<1>1. PICK L \in Nat : L = Len(st) /\ L >= 1
  BY LenProperties DEF StackOK
<1>3. PICK here : here = Current(st[L])
  OBVIOUS
<1>2. ASSUME NEW j \in 1 .. L, NEW i \in 2 .. Len(st[j].names)
      PROVE  Before(here, Append(st[j].path, st[j].names[i]))
  <2>1. FrameOK(st[j]) /\ FrameOK(st[L])
    BY <1>1 DEF StackOK
  <2>2. PICK s \in Seq(Names), p \in Seq(Names) : s = st[j].names /\ p = st[j].path
    BY <2>1, FrameIs
  <2>3. PICK t \in Seq(Names), q \in Seq(Names) : t = st[L].names /\ q = st[L].path
    BY <2>1, FrameIs
  <2>4. PICK c \in Nat : c = Len(s) /\ i \in 2 .. c
    BY <2>2, NamesLeft
  <2>5. s # <<>> /\ Head(s) = s[1] /\ Head(s) \in Names /\ s[i] \in Names
    BY <2>4, NamesLeft
  <2>6. \A k, l \in 1 .. c : k < l => s[k] < s[l]
    BY <2>1, <2>2, <2>4 DEF FrameOK
  <2>7. Head(s) < s[i]
    BY <2>4, <2>5, <2>6
  <2>8. t # <<>> /\ Head(t) \in Names
    BY <1>1, <2>3, NamesLeft
  <2>9. here = Append(q, Head(t)) /\ here \in Seq(Names)
    BY <1>3, <2>3, <2>8, ChildParts DEF Current
  <2>10. IsPrefix(Append(p, Head(s)), here)
    <3>1. CASE j = L
      <4>1. here = Append(p, Head(s))
        BY <2>2, <2>3, <2>9, <3>1
      <4>2. here \in Seq(Names)
        BY <2>9
      <4>3. Len(here) <= Len(here) /\ \A k \in 1 .. Len(here) : here[k] = here[k]
        BY <4>2, LenProperties
      <4>4. IsPrefix(here, here)
        BY <4>2, <4>3, PrefixIs
      <4> QED
        BY <4>1, <4>4
    <3>2. CASE j # L
      <4>1. IsPrefix(Current(st[j]), st[L].path)
        <5>1. L \in 1 .. L /\ j < L
          BY <1>1, <3>2
        <5> QED
          BY <1>1, <5>1 DEF StackOK
      <4>2. IsPrefix(Append(p, Head(s)), q) /\ Append(p, Head(s)) \in Seq(Names)
        BY <2>2, <2>3, <2>5, <4>1, ChildParts DEF Current
      <4>3. PICK y \in Seq(Names) : y = Append(p, Head(s))
        BY <4>2
      <4>4. /\ Len(y) \in Nat /\ Len(q) \in Nat /\ Len(here) = Len(q) + 1
            /\ \A k \in 1 .. Len(q) : here[k] = q[k]
        BY <2>8, <2>9, <4>3, ChildParts, LenProperties
      <4>5. Len(y) <= Len(q) /\ \A k \in 1 .. Len(y) : y[k] = q[k]
        BY <4>2, <4>3, PrefixIs
      <4>6. Len(y) <= Len(here) /\ \A k \in 1 .. Len(y) : y[k] = here[k]
        BY <4>4, <4>5
      <4>7. here \in Seq(Names)
        BY <2>9
      <4>8. IsPrefix(y, here)
        BY <4>3, <4>6, <4>7, PrefixIs
      <4> QED
        BY <4>3, <4>8
    <3> QED
      BY <3>1, <3>2
  <2>11. Before(here, Append(p, s[i]))
    BY <2>5, <2>7, <2>9, <2>10, BeforeSibling
  <2> QED
    BY <2>2, <2>11
<1> QED
  BY <1>1, <1>2, <1>3 DEF Later, Left

-----------------------------------------------------------------------------
(* What is left to do after a step of the encoder.                         *)

(* The m-th directory goes on to its next child, and is the last one then. *)
LEMMA NextStack ==
  ASSUME Input, NEW st, StackOK(st), NEW m \in 1 .. Len(st), st[m].names # <<>>,
         NEW g \in FrameType, g.path = st[m].path, g.names = Tail(st[m].names),
         NEW new \in Seq(FrameType), Len(new) = m, \A j \in 1 .. m - 1 : new[j] = st[j], new[m] = g
  PROVE  StackOK(new) /\ Waiting(new) = UNION {Left(st, j, 2) : j \in 1 .. m}
<1>1. PICK L \in Nat : L = Len(st) /\ m \in 1 .. L /\ m \in Nat
  BY LenProperties DEF StackOK
<1>2. \A j \in 1 .. L : FrameOK(st[j])
  BY <1>1 DEF StackOK
<1>3. FrameOK(g) /\ \A i \in 1 .. Len(g.names) : g.names[i] = st[m].names[i + 1]
  BY <1>1, <1>2, NextFrame
<1>4. \A j \in 1 .. m : new[j].path = st[j].path /\ FrameOK(new[j])
  <2>1. \A j \in 1 .. m : j \in 1 .. m - 1 \/ j = m
    OBVIOUS
  <2> QED
    BY <1>1, <1>2, <1>3, <2>1
<1>5. \A j \in 1 .. m - 1 : j \in 1 .. m /\ j \in 1 .. L /\ j + 1 \in 1 .. m /\ j \in 1 .. L - 1
  BY <1>1
<1>6. \A j \in 1 .. m - 1 : new[j].names # <<>> /\ new[j + 1].path = Current(new[j])
  <2>1. \A j \in 1 .. L - 1 : st[j].names # <<>> /\ st[j + 1].path = Current(st[j])
    BY <1>1 DEF StackOK
  <2> QED
    BY <1>4, <1>5, <2>1
<1>7. \A j, k \in 1 .. m : j < k => IsPrefix(Current(new[j]), new[k].path)
  <2>1. \A j, k \in 1 .. L : j < k => IsPrefix(Current(st[j]), st[k].path)
    BY <1>1 DEF StackOK
  <2>2. \A j, k \in 1 .. m : j < k => j \in 1 .. m - 1 /\ k \in 1 .. L
    BY <1>1
  <2> QED
    BY <1>4, <1>5, <2>1, <2>2
<1>8. new[1].path = <<>>
  <2>1. 1 \in 1 .. m /\ st[1].path = <<>>
    BY <1>1 DEF StackOK
  <2> QED
    BY <1>4, <2>1
<1>9. StackOK(new)
  BY <1>1, <1>4, <1>6, <1>7, <1>8 DEF StackOK
<1>10. PICK c \in Nat : c = Len(st[m].names) /\ Len(g.names) = c - 1 /\ c >= 1
  <2>1. PICK s \in Seq(Names) : s = st[m].names
    BY <1>1, <1>2, FrameIs
  <2> QED
    BY <2>1, NamesLeft
<1>11. Left(new, m, 1) = Left(st, m, 2)
  <2>1. ASSUME NEW i \in 1 .. c - 1
        PROVE  i + 1 \in 2 .. c /\ Append(g.path, g.names[i]) = Append(st[m].path, st[m].names[i + 1])
    BY <1>3, <1>10
  <2>2. ASSUME NEW i \in 2 .. c
        PROVE  i - 1 \in 1 .. c - 1 /\ Append(st[m].path, st[m].names[i]) = Append(g.path, g.names[i - 1])
    <3>1. i - 1 \in 1 .. c - 1 /\ (i - 1) + 1 = i
      BY <1>10
    <3>2. g.names[i - 1] = st[m].names[(i - 1) + 1]
      BY <1>3, <1>10, <3>1
    <3> QED
      BY <3>1, <3>2
  <2>3. Left(new, m, 1) = {Append(g.path, g.names[i]) : i \in 1 .. c - 1}
    BY <1>10 DEF Left
  <2>4. Left(st, m, 2) = {Append(st[m].path, st[m].names[i]) : i \in 2 .. c}
    BY <1>10 DEF Left
  <2>5. ASSUME NEW x \in Left(new, m, 1) PROVE x \in Left(st, m, 2)
    <3>1. PICK i \in 1 .. c - 1 : x = Append(g.path, g.names[i])
      BY <2>3
    <3> QED
      BY <2>1, <2>4, <3>1
  <2>6. ASSUME NEW x \in Left(st, m, 2) PROVE x \in Left(new, m, 1)
    <3>1. PICK i \in 2 .. c : x = Append(st[m].path, st[m].names[i])
      BY <2>4
    <3> QED
      BY <2>2, <2>3, <3>1
  <2> QED
    BY <2>5, <2>6
<1>12. Left(new, m, 2) \subseteq Left(new, m, 1)
  BY DEF Left
<1>13. \A j \in 1 .. m - 1 : Left(new, j, 2) = Left(st, j, 2)
  BY DEF Left
<1>14. \A x : x \in Later(new) <=> \E j \in 1 .. m : x \in Left(new, j, 2)
  BY DEF Later
<1>15. \A x : x \in Waiting(new) <=> x \in Left(new, m, 1) \/ \E j \in 1 .. m : x \in Left(new, j, 2)
  <2>1. \A x : x \in Waiting(new) <=> x \in Later(new) \/ x \in Left(new, m, 1)
    BY DEF Waiting
  <2> QED
    BY <1>14, <2>1
<1>16. ASSUME NEW x PROVE x \in Waiting(new) <=> \E j \in 1 .. m : x \in Left(st, j, 2)
  <2>1. m \in 1 .. m /\ \A j \in 1 .. m : j \in 1 .. m - 1 \/ j = m
    BY <1>1
  <2>2. ASSUME NEW j \in 1 .. m, x \in Left(new, j, 2) PROVE \E k \in 1 .. m : x \in Left(st, k, 2)
    BY <1>11, <1>12, <1>13, <2>1, <2>2
  <2>3. ASSUME NEW j \in 1 .. m, x \in Left(st, j, 2) PROVE x \in Waiting(new)
    <3>1. CASE j = m
      BY <1>11, <1>15, <2>3, <3>1
    <3>2. CASE j \in 1 .. m - 1
      BY <1>13, <1>15, <2>3, <3>2
    <3> QED
      BY <2>1, <3>1, <3>2
  <2>4. x \in Left(new, m, 1) => \E k \in 1 .. m : x \in Left(st, k, 2)
    BY <1>11, <2>1
  <2> QED
    BY <1>15, <2>2, <2>3, <2>4
<1>17. \A x : x \in UNION {Left(st, j, 2) : j \in 1 .. m} <=> \E j \in 1 .. m : x \in Left(st, j, 2)
  OBVIOUS
<1>18. Waiting(new) = UNION {Left(st, j, 2) : j \in 1 .. m}
  <2>1. \A x : x \in Waiting(new) <=> x \in UNION {Left(st, j, 2) : j \in 1 .. m}
    BY <1>16, <1>17
  <2> QED
    BY <2>1
<1> QED
  BY <1>9, <1>18

(* The child the encoder looks at next is a path of the tree.              *)
LEMMA NowAndLater ==
  ASSUME Input, NEW st, StackOK(st), st[Len(st)].names # <<>>
  PROVE  /\ Waiting(st) = Later(st) \union {Current(st[Len(st)])}
         /\ Current(st[Len(st)]) \in DOMAIN tree /\ Current(st[Len(st)]) # <<>>
         /\ Front(Current(st[Len(st)])) = st[Len(st)].path
         /\ Last(Current(st[Len(st)])) = Head(st[Len(st)].names)
<1>1. PICK L \in Nat : L = Len(st) /\ L >= 1 /\ L \in 1 .. L
  BY LenProperties DEF StackOK
<1>2. FrameOK(st[L])
  BY <1>1 DEF StackOK
<1>3. PICK s \in Seq(Names), p \in Seq(Names) : s = st[L].names /\ p = st[L].path
  BY <1>2, FrameIs
<1>4. PICK c \in Nat : c = Len(s)
  BY NamesLeft
<1>5. s # <<>> /\ c >= 1 /\ Head(s) = s[1] /\ Head(s) \in Names
  BY <1>1, <1>3, <1>4, NamesLeft
<1>6. Current(st[L]) = Append(p, s[1])
  BY <1>3, <1>5 DEF Current
<1>7. Append(p, s[1]) \in DOMAIN tree
  <2>1. 1 \in 1 .. c
    BY <1>5
  <2> QED
    BY <1>2, <1>3, <1>4, <2>1 DEF FrameOK
<1>8. Append(p, s[1]) # <<>> /\ Front(Append(p, s[1])) = p /\ Last(Append(p, s[1])) = s[1]
  BY <1>5, ChildParts
<1>9. Left(st, L, 1) = Left(st, L, 2) \union {Append(p, s[1])}
  <2>1. 1 .. c = {1} \union 2 .. c
    BY <1>5
  <2>2. Left(st, L, 1) = {Append(p, s[i]) : i \in 1 .. c} /\ Left(st, L, 2) = {Append(p, s[i]) : i \in 2 .. c}
    BY <1>3, <1>4 DEF Left
  <2> QED
    BY <2>1, <2>2
<1>10. Left(st, L, 2) \subseteq Later(st)
  BY <1>1 DEF Later
<1>11. Waiting(st) = Later(st) \union {Append(p, s[1])}
  BY <1>1, <1>9, <1>10 DEF Waiting
<1> QED
  BY <1>1, <1>3, <1>5, <1>6, <1>7, <1>8, <1>11

(* After a child that is not entered.                                      *)
LEMMA AdvanceStack ==
  ASSUME Input, NEW st, StackOK(st), st[Len(st)].names # <<>>,
         NEW g \in FrameType, g.path = st[Len(st)].path, g.names = Tail(st[Len(st)].names)
  PROVE  LET new == ReplaceAt(st, Len(st), g)
         IN StackOK(new) /\ Waiting(new) = Later(st) /\ Len(new) = Len(st) /\ new[Len(st)] = g
<1>1. PICK L \in Nat : L = Len(st) /\ L >= 1 /\ L \in 1 .. L
  BY LenProperties DEF StackOK
<1>2. PICK new : new = ReplaceAt(st, L, g)
  OBVIOUS
<1>3. st \in Seq(FrameType)
  BY DEF StackOK
<1>4. /\ new \in Seq(FrameType) /\ Len(new) = L
      /\ \A j \in 1 .. L : new[j] = IF j = L THEN g ELSE st[j]
  BY <1>1, <1>2, <1>3, ExceptSeq DEF ReplaceAt
<1>5. \A j \in 1 .. L - 1 : new[j] = st[j]
  BY <1>4
<1>6. StackOK(new) /\ Waiting(new) = UNION {Left(st, j, 2) : j \in 1 .. L}
  BY <1>1, <1>4, <1>5, NextStack
<1> QED
  BY <1>1, <1>2, <1>4, <1>6 DEF Later

(* After the end of a directory.                                           *)
LEMMA PopStack ==
  ASSUME Input, NEW st, StackOK(st), Len(st) # 1, st[Len(st)].names = <<>>,
         NEW g \in FrameType, g.path = st[Len(st) - 1].path, g.names = Tail(st[Len(st) - 1].names)
  PROVE  LET new == Append(SubSeq(st, 1, Len(st) - 2), g)
         IN /\ StackOK(new) /\ Waiting(new) = Waiting(st)
            /\ Len(new) = Len(st) - 1 /\ new[Len(st) - 1] = g
<1>0. PICK L \in Nat : L = Len(st) /\ L >= 1
  BY LenProperties DEF StackOK
<1>1. L = Len(st) /\ L >= 2 /\ L - 1 \in 1 .. L /\ L - 1 \in 1 .. L - 1
  BY <1>0
<1>2. PICK s : s = SubSeq(st, 1, L - 2)
  OBVIOUS
<1>3. st \in Seq(FrameType)
  BY DEF StackOK
<1>4. \A i \in 1 .. L - 2 : st[i] \in FrameType
  BY <1>1, <1>3, ElementOfSeq
<1>5. s \in Seq(FrameType) /\ Len(s) = L - 2 /\ \A i \in 1 .. L - 2 : s[i] = st[i]
  BY <1>1, <1>2, <1>4, SubSeqProperties
<1>6. PICK new : new = Append(s, g)
  OBVIOUS
<1>7. /\ new \in Seq(FrameType) /\ Len(new) = L - 1 /\ new[L - 1] = g
      /\ \A i \in 1 .. (L - 1) - 1 : new[i] = st[i]
  <2>1. /\ new \in Seq(FrameType) /\ Len(new) = Len(s) + 1 /\ new[Len(s) + 1] = g
        /\ \A i \in 1 .. Len(s) : new[i] = s[i]
    BY <1>5, <1>6, AppendProperties
  <2> QED
    BY <1>1, <1>5, <2>1
<1>8. st[L - 1].names # <<>>
  BY <1>1 DEF StackOK
<1>9. StackOK(new) /\ Waiting(new) = UNION {Left(st, j, 2) : j \in 1 .. L - 1}
  <2>1. PICK m \in 1 .. Len(st) : m = L - 1
    BY <1>1
  <2>2. /\ st[m].names # <<>> /\ g.path = st[m].path /\ g.names = Tail(st[m].names)
        /\ Len(new) = m /\ new[m] = g /\ \A j \in 1 .. m - 1 : new[j] = st[j]
    BY <1>1, <1>7, <1>8, <2>1
  <2>3. StackOK(new) /\ Waiting(new) = UNION {Left(st, j, 2) : j \in 1 .. m}
    BY <1>7, <2>2, NextStack
  <2> QED
    BY <2>1, <2>3
<1>10. Left(st, L, 1) = {} /\ Left(st, L, 2) = {}
  <2>1. Len(st[L].names) = 0
    BY <1>1, EmptySeq
  <2> QED
    BY <2>1 DEF Left
<1>11. Waiting(st) = UNION {Left(st, j, 2) : j \in 1 .. L}
  BY <1>1, <1>10 DEF Waiting, Later
<1>12. 1 .. L = (1 .. L - 1) \union {L}
  BY <1>1
<1>13. UNION {Left(st, j, 2) : j \in 1 .. L} = UNION {Left(st, j, 2) : j \in 1 .. L - 1}
  BY <1>10, <1>12
<1> QED
  BY <1>1, <1>2, <1>6, <1>7, <1>9, <1>11, <1>13

(* After a directory is entered.                                           *)
LEMMA PushStack ==
  ASSUME Input, NEW st, StackOK(st), st[Len(st)].names # <<>>,
         NEW p \in ToBackUp, p = Current(st[Len(st)]), tree[p].kind = "dir",
         NEW g \in FrameType, g.path = p, g.names = InOrder(Children(p))
  PROVE  LET new == Append(st, g)
         IN /\ StackOK(new) /\ Len(new) = Len(st) + 1 /\ new[Len(st) + 1] = g
            /\ Waiting(new) = Later(st) \union {Append(p, c) : c \in Children(p)}
<1>1. PICK L \in Nat : L = Len(st) /\ L >= 1
  BY LenProperties DEF StackOK
<1>2. PICK new : new = Append(st, g)
  OBVIOUS
<1>3. /\ new \in Seq(FrameType) /\ Len(new) = L + 1 /\ new[L + 1] = g
      /\ \A j \in 1 .. L : new[j] = st[j]
  <2>1. st \in Seq(FrameType)
    BY DEF StackOK
  <2> QED
    BY <1>1, <1>2, <2>1, AppendProperties
<1>4. p \in Seq(Names) /\ p \in DOMAIN tree
  BY ToBackUpIs
<1>5. PICK C \in SUBSET Nat : C = Children(p) /\ IsFiniteSet(C)
  BY <1>4, ChildrenAre
<1>6. PICK s \in Seq(C) : s = InOrder(C)
  BY <1>5, InOrderIs
<1>7. PICK c \in Nat : c = Len(s)
  BY LenProperties
<1>8. /\ \A i, j \in 1 .. c : i < j => s[i] < s[j]
      /\ \A x \in C : \E i \in 1 .. c : s[i] = x
      /\ \A i \in 1 .. c : s[i] \in C
  BY <1>5, <1>6, <1>7, InOrderIs, ElementOfSeq
<1>9. g.names = s /\ g.path = p
  BY <1>5, <1>6
<1>10. \A x \in C : Append(p, x) \in DOMAIN tree
  BY <1>4, <1>5, ChildrenAre
<1>11. FrameOK(g)
  BY <1>7, <1>8, <1>9, <1>10 DEF FrameOK
<1>12. Left(new, L + 1, 1) = {Append(p, x) : x \in C}
  <2>1. Left(new, L + 1, 1) = {Append(p, s[i]) : i \in 1 .. c}
    BY <1>3, <1>7, <1>9 DEF Left
  <2>2. \A y : y \in {Append(p, s[i]) : i \in 1 .. c} <=> y \in {Append(p, x) : x \in C}
    BY <1>8
  <2> QED
    BY <2>1, <2>2
<1>13. Left(new, L + 1, 2) \subseteq Left(new, L + 1, 1)
  BY DEF Left
<1>14. \A j \in 1 .. L : Left(new, j, 2) = Left(st, j, 2)
  BY <1>3 DEF Left
<1>15. 1 .. L + 1 = (1 .. L) \union {L + 1}
  OBVIOUS
<1>16. Later(new) = Later(st) \union Left(new, L + 1, 2)
  <2>1. Later(new) = UNION {Left(new, j, 2) : j \in 1 .. L + 1}
    BY <1>3 DEF Later
  <2>2. Later(st) = UNION {Left(st, j, 2) : j \in 1 .. L}
    BY <1>1 DEF Later
  <2> QED
    BY <1>14, <1>15, <2>1, <2>2
<1>17. Waiting(new) = Later(st) \union {Append(p, x) : x \in C}
  BY <1>3, <1>12, <1>13, <1>16 DEF Waiting
<1>18. \A j \in 1 .. L + 1 : FrameOK(new[j])
  <2>1. \A j \in 1 .. L : FrameOK(st[j])
    BY <1>1 DEF StackOK
  <2> QED
    BY <1>3, <1>11, <1>15, <2>1
<1>19. \A j \in 1 .. L : new[j].names # <<>> /\ new[j + 1].path = Current(new[j])
  <2>1. \A j \in 1 .. L - 1 : st[j].names # <<>> /\ st[j + 1].path = Current(st[j])
    BY <1>1 DEF StackOK
  <2>2. \A j \in 1 .. L - 1 : j \in 1 .. L /\ j + 1 \in 1 .. L
    OBVIOUS
  <2>3. \A j \in 1 .. L : j \in 1 .. L - 1 \/ j = L
    OBVIOUS
  <2> QED
    BY <1>1, <1>3, <1>9, <2>1, <2>2, <2>3
<1>20. \A j, k \in 1 .. L + 1 : j < k => IsPrefix(Current(new[j]), new[k].path)
  <2> SUFFICES ASSUME NEW j \in 1 .. L + 1, NEW k \in 1 .. L + 1, j < k
               PROVE  IsPrefix(Current(new[j]), new[k].path)
    OBVIOUS
  <2>1. \A i, l \in 1 .. L : i < l => IsPrefix(Current(st[i]), st[l].path)
    BY <1>1 DEF StackOK
  <2>2. j \in 1 .. L
    OBVIOUS
  <2>3. CASE k \in 1 .. L
    BY <1>3, <2>1, <2>2, <2>3
  <2>4. CASE k = L + 1
    <3>1. new[k].path = p /\ new[j] = st[j]
      BY <1>3, <1>9, <2>2, <2>4
    <3>2. /\ p = Append(Front(p), Last(p))
          /\ Front(p) = st[L].path /\ Front(p) \in Seq(Names) /\ Last(p) \in Names
      <4>1. p # <<>> /\ Front(p) = st[L].path
        BY <1>1, NowAndLater
      <4> QED
        BY <1>4, <4>1, PathParts
    <3>3. PICK y \in Seq(Names) : y = Current(st[j])
      <4>1. FrameOK(st[j])
        BY <1>1, <2>2 DEF StackOK
      <4>2. st[j].names # <<>>
        BY <1>3, <1>19, <2>2
      <4>3. PICK t \in Seq(Names), q \in Seq(Names) : t = st[j].names /\ q = st[j].path
        BY <4>1, FrameIs
      <4>4. Head(t) \in Names
        BY <4>2, <4>3, NamesLeft
      <4> QED
        BY <4>3, <4>4, ChildParts DEF Current
    <3>4. CASE j = L
      <4>1. y = p
        BY <1>1, <3>3, <3>4
      <4>2. Len(p) <= Len(p) /\ \A i \in 1 .. Len(p) : p[i] = p[i]
        BY <1>4, LenProperties
      <4>3. IsPrefix(p, p)
        BY <1>4, <4>2, PrefixIs
      <4> QED
        BY <3>1, <3>3, <4>1, <4>3
    <3>5. CASE j # L
      <4>1. j \in 1 .. L /\ L \in 1 .. L /\ j < L
        BY <2>2, <3>5
      <4>2. IsPrefix(y, Front(p))
        BY <2>1, <3>2, <3>3, <4>1
      <4>3. PICK f \in Seq(Names), e \in Names : f = Front(p) /\ e = Last(p) /\ p = Append(f, e)
        BY <3>2
      <4>4. Len(f) \in Nat /\ Len(p) = Len(f) + 1 /\ \A i \in 1 .. Len(f) : p[i] = f[i]
        <5>1. /\ Len(f) \in Nat /\ Len(Append(f, e)) = Len(f) + 1
              /\ \A i \in 1 .. Len(f) : Append(f, e)[i] = f[i]
          BY ChildParts
        <5> QED
          BY <4>3, <5>1
      <4>5. Len(y) \in Nat /\ Len(y) <= Len(f) /\ \A i \in 1 .. Len(y) : y[i] = f[i]
        BY <4>2, <4>3, PrefixIs, LenProperties
      <4>6. Len(y) <= Len(p) /\ \A i \in 1 .. Len(y) : y[i] = p[i]
        BY <4>4, <4>5
      <4>7. IsPrefix(y, p)
        BY <1>4, <4>6, PrefixIs
      <4> QED
        BY <3>1, <3>3, <4>7
    <3> QED
      BY <3>4, <3>5
  <2> QED
    BY <2>3, <2>4
<1>21. new[1].path = <<>>
  <2>1. 1 \in 1 .. L /\ st[1].path = <<>>
    BY <1>1 DEF StackOK
  <2> QED
    BY <1>3, <2>1
<1>22. StackOK(new)
  BY <1>3, <1>18, <1>19, <1>20, <1>21 DEF StackOK
<1> QED
  BY <1>1, <1>2, <1>3, <1>5, <1>17, <1>22

-----------------------------------------------------------------------------
(* What has been written.                                                  *)

(* What the encoder has written and what it has left to do make up what is *)
(* to be backed up, in order.                                              *)
Written(a, at) == {at[i].path : i \in {i \in 1 .. Len(a) : at[i].k = 1}}
Ordered(a, at) ==
  \A i, j \in 1 .. Len(a) : i < j /\ at[i].k = 1 /\ at[j].k = 1 => Before(at[i].path, at[j].path)
Encoded(a, at, st) ==
  /\ Labelled(a, at) /\ Ordered(a, at) /\ StackOK(st)
  /\ Ends(at[Len(a)]) /\ at[Len(a)] # Close /\ After(at[Len(a)]) = st[Len(st)].path
  /\ \A q \in Written(a, at) : \A x \in Waiting(st) : Before(q, x)
  /\ \A q \in ToBackUp : q \in Written(a, at) \/ \E x \in Waiting(st) : IsPrefix(x, q)
Whole(a, at) ==
  /\ Labelled(a, at) /\ Ordered(a, at) /\ at[Len(a)] = Close
  /\ ToBackUp \subseteq Written(a, at)

(* The root is always backed up.                                           *)
LEMMA RootBackedUp ==
  ASSUME Input
  PROVE  <<>> \in ToBackUp
<1>1. <<>> \in DOMAIN tree /\ tree[<<>>].kind = "dir"
  BY InputIs
<1>2. ASSUME NEW q \in DOMAIN tree, IsPrefix(q, <<>>) PROVE q = <<>>
  <2>1. q \in Seq(Names) /\ <<>> \in Seq(Names) /\ Len(<<>>) = 0
    BY InputIs, EmptySeq
  <2>2. Len(q) <= 0
    BY <1>2, <2>1, PrefixIs
  <2>3. Len(q) = 0
    BY <2>1, <2>2, LenProperties
  <2> QED
    BY <2>1, <2>3, EmptySeq
<1> QED
  BY <1>1, <1>2 DEF ToBackUp

(* A child that is not skipped is to be backed up.                         *)
LEMMA ChildBackedUp ==
  ASSUME Input, NEW p \in DOMAIN tree, p # <<>>, Front(p) \in ToBackUp, ~Skips(p)
  PROVE  p \in ToBackUp
<1>1. tree[p].kind # "special" /\ ~LeftOut(p)
  BY ExcludedIsLeftOut DEF Skips
<1>2. ASSUME NEW q \in DOMAIN tree, IsPrefix(q, p), q # <<>> PROVE ~LeftOut(q)
  <2>1. CASE q = p
    BY <1>1, <2>1
  <2>2. CASE q # p
    <3>1. PICK f \in Seq(Names) : f = Front(p) /\ Len(f) = Len(p) - 1 /\ Len(p) \in Nat
                                  /\ \A i \in 1 .. Len(p) - 1 : f[i] = p[i]
      BY InputIs, PathParts
    <3>2. q \in Seq(Names) /\ p \in Seq(Names) /\ Len(q) \in Nat
      BY InputIs, LenProperties
    <3>3. Len(q) <= Len(p) /\ (\A i \in 1 .. Len(q) : q[i] = p[i]) /\ Len(q) # Len(p)
      BY <1>2, <2>2, <3>2, PrefixIs
    <3>4. Len(q) <= Len(f) /\ \A i \in 1 .. Len(q) : q[i] = f[i]
      BY <3>1, <3>2, <3>3
    <3>5. IsPrefix(q, f)
      BY <3>1, <3>2, <3>4, PrefixIs
    <3> QED
      BY <1>2, <3>1, <3>5 DEF ToBackUp
  <2> QED
    BY <2>1, <2>2
<1> QED
  BY <1>1, <1>2 DEF ToBackUp

(* Nothing below a child that is skipped is.                               *)
LEMMA ChildSkipped ==
  ASSUME Input, NEW p \in DOMAIN tree, p # <<>>, Skips(p), NEW q \in ToBackUp
  PROVE  ~IsPrefix(p, q)
<1> SUFFICES ASSUME IsPrefix(p, q) PROVE FALSE
  OBVIOUS
<1>1. q \in DOMAIN tree /\ tree[q].kind # "special" /\ ~LeftOut(p)
  BY DEF ToBackUp
<1>2. tree[p].kind = "special"
  BY <1>1, ExcludedIsLeftOut DEF Skips
<1>3. p \in Seq(Names)
  BY InputIs
<1>4. p = q \/ tree[p].kind = "dir"
  BY <1>1, <1>3, Above
<1> QED
  BY <1>1, <1>2, <1>4

(* What is below a directory is one of its children or below one.          *)
LEMMA ThroughChild ==
  ASSUME Input, NEW p \in Seq(Names), NEW q \in DOMAIN tree, IsPrefix(p, q), p # q
  PROVE  \E c \in Children(p) : IsPrefix(Append(p, c), q)
<1>1. PICK k \in Nat : k = Len(p)
  BY LenProperties
<1>2. q \in Seq(Names) /\ Len(q) \in Nat
  BY InputIs, LenProperties
<1>3. k < Len(q) /\ \A i \in 1 .. k : p[i] = q[i]
  BY <1>1, <1>2, PrefixIs
<1>4. PICK c \in Names : c = q[k + 1]
  <2>1. k + 1 \in 1 .. Len(q)
    BY <1>2, <1>3
  <2> QED
    BY <1>2, <2>1, ElementOfSeq
<1>5. PICK x \in Seq(Names) : x = Append(p, c)
  BY ChildParts
<1>6. Len(x) = k + 1 /\ x[k + 1] = c /\ \A i \in 1 .. k : x[i] = p[i]
  BY <1>1, <1>5, ChildParts
<1>7. Len(x) <= Len(q) /\ \A i \in 1 .. Len(x) : x[i] = q[i]
  BY <1>2, <1>3, <1>4, <1>6
<1>8. IsPrefix(x, q)
  BY <1>2, <1>7, PrefixIs
<1>9. x \in DOMAIN tree
  BY <1>8, Above
<1>10. c \in Children(p)
  BY <1>5, <1>9, ChildrenAre
<1> QED
  BY <1>5, <1>8, <1>10

(* A block adds its path to what is written, a GOODBYE adds nothing.       *)
LEMMA BlockWritten ==
  ASSUME Input, NEW a \in Seq(Item), NEW at, Labelled(a, at), Ordered(a, at), NEW p \in ToBackUp,
         \A q \in Written(a, at) : Before(q, p)
  PROVE  /\ Written(a \o Block(p), WithBlock(a, at, p)) = Written(a, at) \union {p}
         /\ Ordered(a \o Block(p), WithBlock(a, at, p))
<1>1. PICK L \in Nat : L = Len(a)
  BY LenProperties
<1>2. PICK m \in Nat : m = Len(Block(p)) /\ m >= 2
  BY ToBackUpIs
<1>3. Len(a \o Block(p)) = L + m
  BY <1>1, <1>2, ToBackUpIs, ConcatProperties
<1>4. PICK bt : bt = WithBlock(a, at, p)
  OBVIOUS
<1>5. bt = [i \in 1 .. L + m |-> IF i <= L THEN at[i] ELSE [path |-> p, k |-> i - L]]
  BY <1>1, <1>2, <1>4 DEF WithBlock
<1>6. \A i \in 1 .. L : bt[i] = at[i] /\ i \in 1 .. L + m
  BY <1>5
<1>7. \A i \in L + 1 .. L + m : bt[i].path = p /\ bt[i].k = i - L
  BY <1>5
<1>8. \A i \in 1 .. L + m : bt[i].k = 1 => i \in 1 .. L \/ (i = L + 1 /\ bt[i].path = p)
  BY <1>7
<1>9. L + 1 \in 1 .. L + m /\ bt[L + 1].k = 1 /\ bt[L + 1].path = p
  <2>1. L + 1 \in L + 1 .. L + m /\ (L + 1) - L = 1
    BY <1>2
  <2> QED
    BY <1>7, <2>1
<1>10. \A q : q \in Written(a, at) <=> \E i \in 1 .. L : at[i].k = 1 /\ q = at[i].path
  BY <1>1 DEF Written
<1>11. PICK W : W = Written(a \o Block(p), WithBlock(a, at, p))
  OBVIOUS
<1>12. \A q : q \in W <=> \E i \in 1 .. L + m : bt[i].k = 1 /\ q = bt[i].path
  BY <1>3, <1>4, <1>11 DEF Written
<1>13. W = Written(a, at) \union {p}
  <2>1. ASSUME NEW q \in W PROVE q \in Written(a, at) \union {p}
    <3>1. PICK i \in 1 .. L + m : bt[i].k = 1 /\ q = bt[i].path
      BY <1>12
    <3> QED
      BY <1>6, <1>8, <1>10, <3>1
  <2>2. ASSUME NEW q \in Written(a, at) PROVE q \in W
    <3>1. PICK i \in 1 .. L : at[i].k = 1 /\ q = at[i].path
      BY <1>10
    <3> QED
      BY <1>6, <1>12, <3>1
  <2>3. p \in W
    BY <1>9, <1>12
  <2> QED
    BY <2>1, <2>2, <2>3
<1>14. ASSUME NEW i \in 1 .. L + m, NEW j \in 1 .. L + m, i < j, bt[i].k = 1, bt[j].k = 1
       PROVE  Before(bt[i].path, bt[j].path)
  <2>1. i \in 1 .. L
    BY <1>8, <1>14
  <2>2. bt[i].path \in Written(a, at) /\ bt[i] = at[i]
    BY <1>6, <1>10, <1>14, <2>1
  <2>3. CASE j \in 1 .. L
    BY <1>1, <1>6, <1>14, <2>1, <2>3 DEF Ordered
  <2>4. CASE j = L + 1 /\ bt[j].path = p
    BY <2>2, <2>4
  <2> QED
    BY <1>8, <1>14, <2>3, <2>4
<1>15. Ordered(a \o Block(p), bt)
  BY <1>3, <1>14 DEF Ordered
<1> QED
  BY <1>4, <1>11, <1>13, <1>15

(* A GOODBYE adds no path.                                                 *)
LEMMA GoodbyeWritten ==
  ASSUME NEW a \in Seq(Item), NEW at, Labelled(a, at), Ordered(a, at), NEW p, NEW g \in Item
  PROVE  /\ Written(Append(a, g), WithGoodbye(a, at, p)) = Written(a, at)
         /\ Ordered(Append(a, g), WithGoodbye(a, at, p))
<1>1. PICK L \in Nat : L = Len(a) /\ Len(Append(a, g)) = L + 1
  BY LenProperties, AppendProperties
<1>2. PICK bt : bt = WithGoodbye(a, at, p)
  OBVIOUS
<1>3. bt = [i \in 1 .. L + 1 |-> IF i <= L THEN at[i] ELSE [path |-> p, k |-> 0]]
  BY <1>1, <1>2 DEF WithGoodbye
<1>4. \A i \in 1 .. L : bt[i] = at[i] /\ i \in 1 .. L + 1
  BY <1>3
<1>5. \A i \in 1 .. L + 1 : bt[i].k = 1 => i \in 1 .. L
  BY <1>3
<1>6. \A q : q \in Written(a, at) <=> \E i \in 1 .. L : at[i].k = 1 /\ q = at[i].path
  BY <1>1 DEF Written
<1>7. PICK W : W = Written(Append(a, g), WithGoodbye(a, at, p))
  OBVIOUS
<1>8. \A q : q \in W <=> \E i \in 1 .. L + 1 : bt[i].k = 1 /\ q = bt[i].path
  BY <1>1, <1>2, <1>7 DEF Written
<1>9. \A q : q \in W <=> q \in Written(a, at)
  BY <1>4, <1>5, <1>6, <1>8
<1>10. W = Written(a, at)
  BY <1>9
<1>11. \A i, j \in 1 .. L : i < j /\ at[i].k = 1 /\ at[j].k = 1 => Before(at[i].path, at[j].path)
  BY <1>1 DEF Ordered
<1>12. \A i, j \in 1 .. L + 1 : i < j /\ bt[i].k = 1 /\ bt[j].k = 1 => Before(bt[i].path, bt[j].path)
  BY <1>4, <1>5, <1>11
<1>13. Ordered(Append(a, g), bt)
  BY <1>1, <1>12 DEF Ordered
<1> QED
  BY <1>2, <1>7, <1>10, <1>13

-----------------------------------------------------------------------------
(* The steps of the encoder.                                               *)

(* What is at hand for the next child.                                     *)
LEMMA NextChild ==
  ASSUME Input, NEW a \in Seq(Item), NEW at, NEW st, Encoded(a, at, st), st[Len(st)].names # <<>>,
         NEW p, p = Current(st[Len(st)])
  PROVE  /\ p \in DOMAIN tree /\ p # <<>> /\ p \in Seq(Names)
         /\ Front(p) = After(at[Len(a)]) /\ Front(p) = st[Len(st)].path /\ Front(p) \in ToBackUp
         /\ Last(p) = Head(st[Len(st)].names)
         /\ \A q \in Written(a, at) : Before(q, p) /\ \A x \in Later(st) : Before(q, x)
         /\ \A x \in Later(st) : Before(p, x)
         /\ Waiting(st) = Later(st) \union {p}
<1>1. StackOK(st) /\ After(at[Len(a)]) = st[Len(st)].path
      /\ \A q \in Written(a, at) : \A x \in Waiting(st) : Before(q, x)
  BY DEF Encoded
<1>2. /\ p \in DOMAIN tree /\ p # <<>> /\ Front(p) = st[Len(st)].path
      /\ Last(p) = Head(st[Len(st)].names) /\ Waiting(st) = Later(st) \union {p}
  BY <1>1, NowAndLater
<1>3. \A x \in Later(st) : Before(p, x)
  BY <1>1, ChildFirst
<1>4. st[Len(st)].path \in ToBackUp
  <2>1. Len(st) \in 1 .. Len(st)
    BY <1>1, LenProperties DEF StackOK
  <2> QED
    BY <1>1, <2>1 DEF StackOK, FrameOK
<1>5. p \in Seq(Names)
  BY <1>2, InputIs
<1> QED
  BY <1>1, <1>2, <1>3, <1>4, <1>5

(* SkipChild.                                                              *)
LEMMA SkipEncoded ==
  ASSUME Input, NEW a \in Seq(Item), NEW at, NEW st, Encoded(a, at, st), st[Len(st)].names # <<>>,
         NEW p, p = Current(st[Len(st)]), Skips(p),
         NEW g \in FrameType, g.path = st[Len(st)].path, g.names = Tail(st[Len(st)].names)
  PROVE  Encoded(a, at, ReplaceAt(st, Len(st), g))
<1>1. PICK new : new = ReplaceAt(st, Len(st), g)
  OBVIOUS
<1>2. StackOK(st)
  BY DEF Encoded
<1>3. StackOK(new) /\ Waiting(new) = Later(st) /\ Len(new) = Len(st) /\ new[Len(st)] = g
  BY <1>1, <1>2, AdvanceStack
<1>4. /\ p \in DOMAIN tree /\ p # <<>> /\ Waiting(st) = Later(st) \union {p}
      /\ \A q \in Written(a, at) : \A x \in Later(st) : Before(q, x)
  BY NextChild
<1>5. ASSUME NEW q \in ToBackUp, q \notin Written(a, at) PROVE \E x \in Later(st) : IsPrefix(x, q)
  <2>1. PICK x \in Waiting(st) : IsPrefix(x, q)
    BY <1>5 DEF Encoded
  <2>2. x # p
    BY <1>4, <2>1, ChildSkipped
  <2> QED
    BY <1>4, <2>1, <2>2
<1>6. Encoded(a, at, new)
  BY <1>3, <1>4, <1>5 DEF Encoded
<1> QED
  BY <1>1, <1>6

(* The items of a child, with what is left to do behind it and in it.      *)
LEMMA BlockEncoded ==
  ASSUME Input, NEW a \in Seq(Item), NEW at, NEW st, Encoded(a, at, st), st[Len(st)].names # <<>>,
         NEW p, p = Current(st[Len(st)]), ~Skips(p),
         NEW new, StackOK(new),
         new[Len(new)].path = IF tree[p].kind = "dir" THEN p ELSE Front(p),
         Waiting(new) = Later(st) \union
                          (IF tree[p].kind = "dir" THEN {Append(p, c) : c \in Children(p)} ELSE {})
  PROVE  /\ a \o Block(p) \in Seq(Item) /\ Encoded(a \o Block(p), WithBlock(a, at, p), new)
         /\ p \in ToBackUp
<1>1. /\ p \in DOMAIN tree /\ p # <<>> /\ p \in Seq(Names)
      /\ Front(p) = After(at[Len(a)]) /\ Front(p) \in ToBackUp
      /\ \A q \in Written(a, at) : Before(q, p) /\ \A x \in Later(st) : Before(q, x)
      /\ \A x \in Later(st) : Before(p, x)
      /\ Waiting(st) = Later(st) \union {p}
  BY NextChild
<1>2. p \in ToBackUp
  BY <1>1, ChildBackedUp
<1>3. PICK b : b = a \o Block(p)
  OBVIOUS
<1>4. PICK bt : bt = WithBlock(a, at, p)
  OBVIOUS
<1>5. Labelled(a, at) /\ Ordered(a, at) /\ Ends(at[Len(a)]) /\ at[Len(a)] # Close
  BY DEF Encoded
<1>6. /\ Labelled(b, bt) /\ b \in Seq(Item) /\ Len(b) = Len(a) + Len(Block(p))
      /\ bt[Len(a) + Len(Block(p))] = [path |-> p, k |-> Len(Block(p))]
  <2>1. /\ Labelled(a \o Block(p), WithBlock(a, at, p)) /\ a \o Block(p) \in Seq(Item)
        /\ Len(a \o Block(p)) = Len(a) + Len(Block(p))
        /\ WithBlock(a, at, p)[Len(a) + Len(Block(p))] = [path |-> p, k |-> Len(Block(p))]
    BY ONLY Input, a \in Seq(Item), <1>1, <1>2, <1>5, BlockLabelled
  <2> QED
    BY <1>3, <1>4, <2>1
<1>7. Written(b, bt) = Written(a, at) \union {p} /\ Ordered(b, bt)
  BY <1>1, <1>2, <1>3, <1>4, <1>5, BlockWritten
<1>8. bt[Len(b)].path = p /\ bt[Len(b)].k = Len(Block(p)) /\ Len(Block(p)) # 0
  <2>1. Len(Block(p)) # 0
    BY <1>2, ToBackUpIs
  <2> QED
    BY <1>6, <2>1
<1>9. Ends(bt[Len(b)]) /\ bt[Len(b)] # Close /\ After(bt[Len(b)]) = new[Len(new)].path
  BY <1>1, <1>8 DEF Ends, Close, After
<1>10. ASSUME NEW q \in Written(b, bt), NEW x \in Waiting(new) PROVE Before(q, x)
  <2>1. CASE x \in Later(st)
    BY <1>1, <1>7, <2>1
  <2>2. CASE x \notin Later(st)
    <3>1. PICK c \in Children(p) : x = Append(p, c)
      BY <2>2
    <3>2. c \in Names
      BY <1>1, ChildrenAre
    <3>3. q \in Seq(Names) /\ (q = p \/ Before(q, p))
      <4>1. \A i \in 1 .. Len(b) : bt[i].path \in Seq(Names)
        BY <1>6 DEF Labelled, Label
      <4>2. q \in Seq(Names)
        BY <4>1 DEF Written
      <4> QED
        BY <1>1, <1>7, <4>2
    <3> QED
      BY <1>1, <3>1, <3>2, <3>3, BeforeChild
  <2> QED
    BY <2>1, <2>2
<1>11. ASSUME NEW q \in ToBackUp, q \notin Written(b, bt) PROVE \E x \in Waiting(new) : IsPrefix(x, q)
  <2>1. q \notin Written(a, at) /\ q # p
    BY <1>7, <1>11
  <2>2. PICK x \in Waiting(st) : IsPrefix(x, q)
    BY <2>1 DEF Encoded
  <2>3. CASE x \in Later(st)
    BY <2>2, <2>3
  <2>4. CASE x = p
    <3>1. q \in DOMAIN tree /\ IsPrefix(p, q) /\ p # q
      BY <2>1, <2>2, <2>4, ToBackUpIs
    <3>2. tree[p].kind = "dir"
      BY <1>1, <3>1, Above
    <3>3. PICK c \in Children(p) : IsPrefix(Append(p, c), q)
      BY <1>1, <3>1, ThroughChild
    <3>4. Append(p, c) \in Waiting(new)
      BY <3>2
    <3> QED
      BY <3>3, <3>4
  <2> QED
    BY <1>1, <2>2, <2>3, <2>4
<1>12. Encoded(b, bt, new)
  BY <1>6, <1>7, <1>9, <1>10, <1>11 DEF Encoded
<1> QED
  BY <1>2, <1>3, <1>4, <1>6, <1>12

(* EncodeLeaf.                                                             *)
LEMMA LeafEncoded ==
  ASSUME Input, NEW a \in Seq(Item), NEW at, NEW st, Encoded(a, at, st), st[Len(st)].names # <<>>,
         NEW p, p = Current(st[Len(st)]), ~Skips(p), tree[p].kind # "dir",
         NEW g \in FrameType, g.path = st[Len(st)].path, g.names = Tail(st[Len(st)].names)
  PROVE  /\ a \o Block(p) \in Seq(Item) /\ p \in ToBackUp
         /\ Encoded(a \o Block(p), WithBlock(a, at, p), ReplaceAt(st, Len(st), g))
<1>1. PICK new : new = ReplaceAt(st, Len(st), g)
  OBVIOUS
<1>2. StackOK(st)
  BY DEF Encoded
<1>3. StackOK(new) /\ Waiting(new) = Later(st) /\ Len(new) = Len(st) /\ new[Len(st)] = g
  BY <1>1, <1>2, AdvanceStack
<1>4. Front(p) = st[Len(st)].path
  BY NextChild
<1>5. new[Len(new)].path = Front(p)
  BY <1>3, <1>4
<1>6. /\ a \o Block(p) \in Seq(Item) /\ p \in ToBackUp
      /\ Encoded(a \o Block(p), WithBlock(a, at, p), new)
  BY <1>3, <1>5, BlockEncoded
<1> QED
  BY <1>1, <1>6

(* EncodeDir.                                                              *)
LEMMA DirEncoded ==
  ASSUME Input, NEW a \in Seq(Item), NEW at, NEW st, Encoded(a, at, st), st[Len(st)].names # <<>>,
         NEW p, p = Current(st[Len(st)]), ~Skips(p), tree[p].kind = "dir",
         NEW g \in FrameType, g.path = p, g.names = InOrder(Children(p))
  PROVE  /\ a \o Block(p) \in Seq(Item) /\ p \in ToBackUp
         /\ Encoded(a \o Block(p), WithBlock(a, at, p), Append(st, g))
<1>1. PICK new : new = Append(st, g)
  OBVIOUS
<1>2. StackOK(st)
  BY DEF Encoded
<1>3. p \in ToBackUp
  BY NextChild, ChildBackedUp
<1>4. /\ StackOK(new) /\ Len(new) = Len(st) + 1 /\ new[Len(st) + 1] = g
      /\ Waiting(new) = Later(st) \union {Append(p, c) : c \in Children(p)}
  <2>1. /\ StackOK(Append(st, g)) /\ Len(Append(st, g)) = Len(st) + 1 /\ Append(st, g)[Len(st) + 1] = g
        /\ Waiting(Append(st, g)) = Later(st) \union {Append(p, c) : c \in Children(p)}
    BY <1>2, <1>3, PushStack
  <2> QED
    BY <1>1, <2>1
<1>5. new[Len(new)].path = p
  BY <1>4
<1>6. /\ a \o Block(p) \in Seq(Item) /\ p \in ToBackUp
      /\ Encoded(a \o Block(p), WithBlock(a, at, p), new)
  BY <1>4, <1>5, BlockEncoded
<1> QED
  BY <1>1, <1>6

(* The end of a directory, and that of the root.                           *)
LEMMA GoodbyeEncoded ==
  ASSUME Input, NEW a \in Seq(Item), NEW at, NEW st, Encoded(a, at, st), st[Len(st)].names = <<>>,
         NEW g \in Item, g.item = "goodbye",
         NEW p, st[Len(st)].path = p
  PROVE  /\ Labelled(Append(a, g), WithGoodbye(a, at, p)) /\ Ordered(Append(a, g), WithGoodbye(a, at, p))
         /\ Append(a, g) \in Seq(Item) /\ Written(Append(a, g), WithGoodbye(a, at, p)) = Written(a, at)
         /\ WithGoodbye(a, at, p)[Len(Append(a, g))] = [path |-> p, k |-> 0]
<1>1. PICK b : b = Append(a, g)
  OBVIOUS
<1>2. PICK bt : bt = WithGoodbye(a, at, p)
  OBVIOUS
<1>3. p \in ToBackUp /\ tree[p].kind = "dir"
  <2>1. StackOK(st)
    BY DEF Encoded
  <2>2. Len(st) \in 1 .. Len(st)
    BY <2>1, LenProperties DEF StackOK
  <2> QED
    BY <2>1, <2>2 DEF StackOK, FrameOK
<1>4. Labelled(a, at) /\ Ordered(a, at) /\ Ends(at[Len(a)]) /\ at[Len(a)] # Close /\ p = After(at[Len(a)])
  BY DEF Encoded
<1>5. Labelled(b, bt) /\ b \in Seq(Item) /\ Len(b) = Len(a) + 1 /\ bt[Len(a) + 1] = [path |-> p, k |-> 0]
  BY <1>3, <1>4, <1>1, <1>2, GoodbyeLabelled
<1>6. Written(b, bt) = Written(a, at) /\ Ordered(b, bt)
  BY <1>4, <1>1, <1>2, GoodbyeWritten
<1>7. bt[Len(b)] = [path |-> p, k |-> 0]
  BY <1>5
<1> QED
  BY <1>1, <1>2, <1>5, <1>6, <1>7

(* EncodeGoodbye of a directory that is not the root.                      *)
LEMMA PopEncoded ==
  ASSUME Input, NEW a \in Seq(Item), NEW at, NEW st, Encoded(a, at, st), st[Len(st)].names = <<>>,
         Len(st) # 1, NEW e \in Item, e.item = "goodbye",
         NEW g \in FrameType, g.path = st[Len(st) - 1].path, g.names = Tail(st[Len(st) - 1].names)
  PROVE  /\ Append(a, e) \in Seq(Item)
         /\ Encoded(Append(a, e), WithGoodbye(a, at, st[Len(st)].path),
                    Append(SubSeq(st, 1, Len(st) - 2), g))
<1>1. PICK new : new = Append(SubSeq(st, 1, Len(st) - 2), g)
  OBVIOUS
<1>2. StackOK(st)
  BY DEF Encoded
<1>3. StackOK(new) /\ Waiting(new) = Waiting(st) /\ Len(new) = Len(st) - 1 /\ new[Len(st) - 1] = g
  BY <1>1, <1>2, PopStack
<1>4. PICK p : p = st[Len(st)].path
  OBVIOUS
<1>5. PICK b : b = Append(a, e)
  OBVIOUS
<1>6. PICK bt : bt = WithGoodbye(a, at, p)
  OBVIOUS
<1>7. /\ Labelled(b, bt) /\ Ordered(b, bt) /\ b \in Seq(Item) /\ Written(b, bt) = Written(a, at)
      /\ bt[Len(b)] = [path |-> p, k |-> 0]
  <2>1. st[Len(st)].path = p
    BY <1>4
  <2>2. /\ Labelled(Append(a, e), WithGoodbye(a, at, p)) /\ Ordered(Append(a, e), WithGoodbye(a, at, p))
        /\ Append(a, e) \in Seq(Item) /\ Written(Append(a, e), WithGoodbye(a, at, p)) = Written(a, at)
        /\ WithGoodbye(a, at, p)[Len(Append(a, e))] = [path |-> p, k |-> 0]
    BY <2>1, GoodbyeEncoded
  <2> QED
    BY <1>5, <1>6, <2>2
<1>8. PICK L \in Nat : L = Len(st) /\ L >= 2
  <2>1. PICK L \in Nat : L = Len(st) /\ L >= 1
    BY <1>2, LenProperties DEF StackOK
  <2> QED
    BY <2>1
<1>9. p # <<>> /\ Front(p) = g.path
  <2>1. L - 1 \in 1 .. L - 1 /\ (L - 1) + 1 = L /\ L - 1 \in 1 .. L
    BY <1>8
  <2>2. st[L - 1].names # <<>> /\ p = Current(st[L - 1]) /\ FrameOK(st[L - 1])
    BY <1>2, <1>4, <1>8, <2>1 DEF StackOK
  <2>3. PICK s \in Seq(Names), q \in Seq(Names) : s = st[L - 1].names /\ q = st[L - 1].path
    BY <2>2, FrameIs
  <2>4. Head(s) \in Names
    BY <2>2, <2>3, NamesLeft
  <2>5. Append(q, Head(s)) # <<>> /\ Front(Append(q, Head(s))) = q
    BY <2>4, ChildParts
  <2>6. p = Append(q, Head(s)) /\ g.path = q
    BY <1>8, <2>2, <2>3 DEF Current
  <2> QED
    BY <2>5, <2>6
<1>10. bt[Len(b)].path = p /\ bt[Len(b)].k = 0
  BY <1>7
<1>11. Ends(bt[Len(b)]) /\ bt[Len(b)] # Close /\ After(bt[Len(b)]) = new[Len(new)].path
  BY <1>3, <1>9, <1>10 DEF Ends, Close, After
<1>12. Encoded(b, bt, new)
  BY <1>3, <1>7, <1>11 DEF Encoded
<1> QED
  BY <1>1, <1>4, <1>5, <1>6, <1>7, <1>12

(* EncodeGoodbye of the root.                                              *)
LEMMA LastEncoded ==
  ASSUME Input, NEW a \in Seq(Item), NEW at, NEW st, Encoded(a, at, st), st[Len(st)].names = <<>>,
         Len(st) = 1, NEW e \in Item, e.item = "goodbye"
  PROVE  /\ Append(a, e) \in Seq(Item)
         /\ Whole(Append(a, e), WithGoodbye(a, at, <<>>))
<1>1. StackOK(st)
  BY DEF Encoded
<1>2. st[1].path = <<>> /\ FrameOK(st[1])
  <2>1. 1 \in 1 .. Len(st)
    OBVIOUS
  <2> QED
    BY <1>1, <2>1 DEF StackOK
<1>3. PICK b : b = Append(a, e)
  OBVIOUS
<1>4. PICK bt : bt = WithGoodbye(a, at, <<>>)
  OBVIOUS
<1>5. /\ Labelled(b, bt) /\ Ordered(b, bt) /\ b \in Seq(Item) /\ Written(b, bt) = Written(a, at)
      /\ bt[Len(b)] = Close
  <2>1. st[Len(st)].path = <<>>
    BY <1>2
  <2>2. /\ Labelled(Append(a, e), WithGoodbye(a, at, <<>>)) /\ Ordered(Append(a, e), WithGoodbye(a, at, <<>>))
        /\ Append(a, e) \in Seq(Item) /\ Written(Append(a, e), WithGoodbye(a, at, <<>>)) = Written(a, at)
        /\ WithGoodbye(a, at, <<>>)[Len(Append(a, e))] = [path |-> <<>>, k |-> 0]
    BY <2>1, GoodbyeEncoded
  <2> QED
    BY <1>3, <1>4, <2>2 DEF Close
<1>6. Waiting(st) = {}
  <2>1. Len(st[1].names) = 0
    BY EmptySeq
  <2>2. \A j \in 1 .. Len(st) : j = 1
    OBVIOUS
  <2>3. Left(st, 1, 1) = {} /\ Left(st, 1, 2) = {}
    BY <2>1 DEF Left
  <2> QED
    BY <2>2, <2>3 DEF Waiting, Later
<1>7. ToBackUp \subseteq Written(b, bt)
  BY <1>5, <1>6 DEF Encoded
<1>8. Whole(b, bt)
  BY <1>5, <1>7 DEF Whole
<1> QED
  BY <1>3, <1>4, <1>5, <1>8

-----------------------------------------------------------------------------
(* A step leaves alone what depends on the tree and the lines only.        *)

(* What is to be backed up, and with it all of the above, stays.           *)
LEMMA ToBackUpStays ==
  ASSUME tree' = tree, lines' = lines
  PROVE  ToBackUp' = ToBackUp /\ \A p : Block(p)' = Block(p)
<1>1. ASSUME NEW p PROVE LeftOut(p)' <=> LeftOut(p)
  <2>1. \A line : Hits(line, p)' <=> Hits(line, p)
    BY DEF Hits
  <2> QED
    BY <2>1 DEF LeftOut
<1>2. ASSUME NEW p PROVE p \in ToBackUp' <=> p \in ToBackUp
  BY <1>1 DEF ToBackUp
<1>3. ToBackUp' = ToBackUp
  BY <1>2
<1>4. \A p : Block(p)' = Block(p)
  BY DEF Block, Opening
<1> QED
  BY <1>3, <1>4

(* The labels stay right.                                                  *)
LEMMA LabelsStay ==
  ASSUME tree' = tree, lines' = lines
  PROVE  /\ \A l : Ends(l)' <=> Ends(l)
         /\ \A l : After(l)' = After(l)
         /\ \A a, at : Labelled(a, at)' <=> Labelled(a, at)
<1>1. ToBackUp' = ToBackUp /\ \A p : Block(p)' = Block(p)
  BY ToBackUpStays
<1>2. \A l : Ends(l)' <=> Ends(l)
  BY <1>1 DEF Ends
<1>3. \A l : After(l)' = After(l)
  BY DEF After
<1>4. \A l, m : Follows(l, m)' <=> Follows(l, m)
  BY <1>2, <1>3 DEF Follows
<1>5. \A l, i : LabelOK(l, i)' <=> LabelOK(l, i)
  BY <1>1 DEF LabelOK
<1>6. \A a, at : Labelled(a, at)' <=> Labelled(a, at)
  BY <1>4, <1>5 DEF Labelled
<1> QED
  BY <1>2, <1>3, <1>6

(* What was encoded stays so.                                              *)
LEMMA EncodedStays ==
  ASSUME tree' = tree, lines' = lines, NEW a, NEW at, NEW st
  PROVE  /\ Encoded(a, at, st)' <=> Encoded(a, at, st)
         /\ Whole(a, at)' <=> Whole(a, at)
<1>1. /\ ToBackUp' = ToBackUp /\ (\A l : Ends(l)' <=> Ends(l))
      /\ (\A l : After(l)' = After(l)) /\ (\A b, bt : Labelled(b, bt)' <=> Labelled(b, bt))
  BY ToBackUpStays, LabelsStay
<1>2. StackOK(st)' <=> StackOK(st)
  <2>1. \A f : FrameOK(f)' <=> FrameOK(f)
    BY <1>1 DEF FrameOK
  <2> QED
    BY <2>1 DEF StackOK
<1>3. Whole(a, at)' <=> Whole(a, at)
  BY <1>1 DEF Whole
<1>4. Encoded(a, at, st)' <=> Encoded(a, at, st)
  BY <1>1, <1>2 DEF Encoded
<1> QED
  BY <1>3, <1>4

-----------------------------------------------------------------------------
(* Where the decoder is, and what it has called the visitor for.           *)

(* The item under a label, and the label of the item the decoder is at.    *)
LEMMA ItemUnderLabel ==
  ASSUME Input, NEW a, NEW at, Labelled(a, at), NEW i \in 1 .. Len(a),
         NEW p, at[i].path = p, NEW k, at[i].k = k
  PROVE  /\ at[i] \in Label /\ p \in ToBackUp /\ p \in DOMAIN tree /\ p \in Seq(Names)
         /\ k \in Nat /\ k <= Len(Block(p)) /\ Meta(p) \in Nat /\ Meta(p) >= 2
         /\ Len(Block(p)) = IF tree[p].kind = "dir" THEN Meta(p) ELSE Meta(p) + 1
         /\ k = 0 => a[i].item = "goodbye" /\ tree[p].kind = "dir"
         /\ k = 1 => IF p = <<>> THEN a[i].item = "version"
                     ELSE a[i].item = "filename" /\ a[i].name = Last(p)
         /\ k = 2 => a[i].item = "entry" /\ a[i].kind = tree[p].kind
         /\ k > 2 /\ k <= Meta(p) => a[i].item = "xattr" /\ a[i].attr = InOrder(tree[p].xattrs)[k - 2]
         /\ k > Meta(p) => /\ k = Meta(p) + 1 /\ tree[p].kind # "dir" /\ a[i].size = tree[p].size
                           /\ a[i].item = IF tree[p].kind = "link" THEN "symlink" ELSE "payload"
<1>1. LabelOK(at[i], a[i])
  BY DEF Labelled
<1>2. at[i] \in Label /\ p \in ToBackUp /\ k \in Nat /\ k <= Len(Block(p))
  BY <1>1 DEF LabelOK, Label
<1>3. p \in DOMAIN tree /\ p \in Seq(Names)
  BY <1>2, ToBackUpIs
<1>4. /\ Meta(p) \in Nat /\ Meta(p) >= 2
      /\ Len(Block(p)) = IF tree[p].kind = "dir" THEN Meta(p) ELSE Meta(p) + 1
      /\ Block(p)[1] = Opening(p) /\ Block(p)[2] = Entry(tree[p])
      /\ \A j \in 3 .. Meta(p) : Block(p)[j] = Xattr(InOrder(tree[p].xattrs)[j - 2])
      /\ tree[p].kind # "dir" =>
           Block(p)[Meta(p) + 1] =
             IF tree[p].kind = "link" THEN Symlink(tree[p].size) ELSE Payload(tree[p].size)
  BY <1>3, BlockIs
<1>5. k # 0 => a[i] = Block(p)[k]
  BY <1>1 DEF LabelOK
<1>6. k = 0 => a[i].item = "goodbye" /\ tree[p].kind = "dir"
  BY <1>1 DEF LabelOK
<1>7. k = 1 => IF p = <<>> THEN a[i].item = "version"
               ELSE a[i].item = "filename" /\ a[i].name = Last(p)
  BY <1>4, <1>5 DEF Opening, Version, Filename
<1>8. k = 2 => a[i].item = "entry" /\ a[i].kind = tree[p].kind
  BY <1>4, <1>5 DEF Entry
<1>9. ASSUME k > 2, k <= Meta(p) PROVE a[i].item = "xattr" /\ a[i].attr = InOrder(tree[p].xattrs)[k - 2]
  <2>1. k \in 3 .. Meta(p) /\ k # 0
    BY <1>2, <1>4, <1>9
  <2>2. PICK x : x = InOrder(tree[p].xattrs)[k - 2]
    OBVIOUS
  <2>3. a[i] = Xattr(x)
    BY <1>4, <1>5, <2>1, <2>2
  <2> QED
    BY <2>2, <2>3 DEF Xattr
<1>10. ASSUME k > Meta(p)
       PROVE  /\ k = Meta(p) + 1 /\ tree[p].kind # "dir" /\ a[i].size = tree[p].size
              /\ a[i].item = IF tree[p].kind = "link" THEN "symlink" ELSE "payload"
  <2>1. k = Meta(p) + 1 /\ tree[p].kind # "dir" /\ k # 0
    BY <1>2, <1>4, <1>10
  <2> QED
    BY <1>4, <1>5, <2>1 DEF Symlink, Payload
<1> QED
  BY <1>2, <1>3, <1>4, <1>6, <1>7, <1>8, <1>9, <1>10

(* There is an item behind each but the GOODBYE of the root.               *)
LEMMA NextLabel ==
  ASSUME Input, NEW a \in Seq(Item), NEW at, Whole(a, at), NEW i \in 1 .. Len(a), at[i] # Close
  PROVE  /\ i + 1 \in 1 .. Len(a)
         /\ at[i] \in Label /\ at[i + 1] \in Label
         /\ ~Ends(at[i]) => at[i + 1].path = at[i].path /\ at[i + 1].k = at[i].k + 1
         /\ Ends(at[i]) => \/ at[i + 1].k = 0 /\ at[i + 1].path = After(at[i])
                           \/ at[i + 1].k = 1 /\ at[i + 1].path # <<>> /\ Front(at[i + 1].path) = After(at[i])
<1>1. PICK L \in Nat : L = Len(a)
  BY LenProperties
<1>2. Labelled(a, at) /\ at[L] = Close
  BY <1>1 DEF Whole
<1>3. i # L
  BY <1>2
<1>4. i \in 1 .. L - 1 /\ i + 1 \in 1 .. L
  BY <1>1, <1>3
<1>5. Follows(at[i], at[i + 1]) /\ at \in [1 .. L -> Label]
  BY <1>1, <1>2, <1>4 DEF Labelled
<1> QED
  BY <1>1, <1>4, <1>5 DEF Follows

(* A GOODBYE of the root is the last item.                                 *)
LEMMA CloseIsLast ==
  ASSUME NEW a \in Seq(Item), NEW at, Labelled(a, at), NEW i \in 1 .. Len(a), at[i] = Close
  PROVE  i = Len(a)
<1>1. PICK L \in Nat : L = Len(a)
  BY LenProperties
<1>2. ASSUME i # L PROVE FALSE
  <2>1. i \in 1 .. L - 1
    BY <1>1, <1>2
  <2>2. Follows(at[i], at[i + 1])
    BY <1>1, <2>1 DEF Labelled
  <2>3. Ends(at[i])
    BY DEF Ends, Close
  <2> QED
    BY <2>2, <2>3 DEF Follows
<1> QED
  BY <1>1, <1>2

(* Where the decoder is, in each of its states.                            *)
EntryType == [path : Seq(Names), kind : Kinds \union {"none"}, xattrs : SUBSET Nat]
Decoding(a, at, c, i, d, e) ==
  /\ c \in {"version", "root", "child", "content", "dir", "done"}
  /\ i \in 0 .. Len(a) /\ e \in EntryType /\ e.path \in DOMAIN tree
  /\ d \in DOMAIN tree /\ tree[d].kind = "dir"
  /\ c = "version" => i = 0 /\ d = <<>> /\ e.path = <<>>
  /\ c = "root" => i = 1 /\ d = <<>> /\ e.path = <<>>
  /\ c = "child" => i # 0 /\ at[i].k = 1 /\ at[i].path # <<>> /\ e.path = at[i].path /\ d = Front(e.path)
  /\ c = "content" =>
       /\ i # 0 /\ at[i].path = e.path /\ at[i].k \in 2 .. Meta(e.path) /\ d = Front(e.path)
       /\ e.kind = tree[e.path].kind
       /\ e.xattrs = {InOrder(tree[e.path].xattrs)[j] : j \in 1 .. at[i].k - 2}
       /\ at[i].k <= i
       /\ \A j \in i - at[i].k + 1 .. i : at[j].path = e.path /\ at[j].k = j - (i - at[i].k)
  /\ c = "dir" => i # 0 /\ Ends(at[i]) /\ at[i] # Close /\ d = After(at[i])
  /\ c = "done" => i = Len(a)
(* The items of the entries it has called the visitor for.                 *)
Behind(at, c, i) ==
  IF c \in {"root", "child"} THEN i - 1 ELSE IF c = "content" THEN i - at[i].k ELSE i
Visits(at, m, v) ==
  /\ v \in Seq([path : Seq(Names), kind : Kinds, xattrs : SUBSET Nat, size : Nat])
  /\ \A x \in 1 .. Len(v) : /\ \E i \in 1 .. m : at[i].k = 1 /\ at[i].path = v[x].path
                            /\ v[x].kind = tree[v[x].path].kind
                            /\ v[x].xattrs = tree[v[x].path].xattrs
                            /\ v[x].kind # "dir" => v[x].size = tree[v[x].path].size
  /\ \A i \in 1 .. m : at[i].k = 1 => \E x \in 1 .. Len(v) : v[x].path = at[i].path
  /\ \A x, y \in 1 .. Len(v) : x < y => Before(v[x].path, v[y].path)

(* Where the decoder is, and what was visited.                             *)
LEMMA DecodingStays ==
  ASSUME tree' = tree, lines' = lines
  PROVE  /\ \A a, at, c, i, d, e : Decoding(a, at, c, i, d, e)' <=> Decoding(a, at, c, i, d, e)
         /\ \A at, m, v : Visits(at, m, v)' <=> Visits(at, m, v)
<1>1. /\ \A l : Ends(l)' <=> Ends(l)
      /\ \A l : After(l)' = After(l)
  BY LabelsStay
<1>2. \A p : Meta(p)' = Meta(p)
  BY DEF Meta
<1>3. \A at, m, v : Visits(at, m, v)' <=> Visits(at, m, v)
  BY DEF Visits
<1>4. \A a, at, c, i, d, e : Decoding(a, at, c, i, d, e)' <=> Decoding(a, at, c, i, d, e)
  BY <1>1, <1>2 DEF Decoding
<1> QED
  BY <1>3, <1>4

-----------------------------------------------------------------------------
(* The decoder: the VERSION and an ENTRY.                                  *)

VisitType == [path : Seq(Names), kind : Kinds, xattrs : SUBSET Nat, size : Nat]

(* One visit more: the paths are written in order, so they are visited in  *)
(* order.                                                                  *)
LEMMA VisitOne ==
  ASSUME Input, NEW a \in Seq(Item), NEW at, Labelled(a, at), Ordered(a, at),
         NEW m \in Nat, NEW M \in 1 .. Len(a), m < M, NEW v, Visits(at, m, v),
         NEW p, at[m + 1].k = 1, at[m + 1].path = p, \A j \in m + 2 .. M : at[j].k # 1,
         NEW w, w.path = p, w.kind = tree[p].kind, w.xattrs = tree[p].xattrs, w \in VisitType,
         w.kind # "dir" => w.size = tree[p].size
  PROVE  Visits(at, M, Append(v, w))
<1>1. PICK L \in Nat : L = Len(v) /\ v \in Seq(VisitType)
  BY LenProperties DEF Visits, VisitType
<1>2. PICK u : u = Append(v, w)
  OBVIOUS
<1>3. /\ u \in Seq(VisitType) /\ Len(u) = L + 1 /\ u[L + 1] = w
      /\ \A x \in 1 .. L : u[x] = v[x]
  BY <1>1, <1>2, AppendProperties
<1>4. /\ \A x \in 1 .. L : /\ \E i \in 1 .. m : at[i].k = 1 /\ at[i].path = v[x].path
                           /\ v[x].kind = tree[v[x].path].kind
                           /\ v[x].xattrs = tree[v[x].path].xattrs
                           /\ v[x].kind # "dir" => v[x].size = tree[v[x].path].size
      /\ \A i \in 1 .. m : at[i].k = 1 => \E x \in 1 .. L : v[x].path = at[i].path
      /\ \A x, y \in 1 .. L : x < y => Before(v[x].path, v[y].path)
  BY <1>1 DEF Visits
<1>5. /\ m + 1 \in 1 .. M /\ (\A i \in 1 .. m : i \in 1 .. M)
      /\ \A i \in 1 .. M : i \in 1 .. m \/ i = m + 1 \/ i \in m + 2 .. M
  OBVIOUS
<1>6. \A x \in 1 .. L + 1 : x \in 1 .. L \/ x = L + 1
  OBVIOUS
<1>7. ASSUME NEW x \in 1 .. L + 1
      PROVE  /\ \E i \in 1 .. M : at[i].k = 1 /\ at[i].path = u[x].path
             /\ u[x].kind = tree[u[x].path].kind
             /\ u[x].xattrs = tree[u[x].path].xattrs
             /\ u[x].kind # "dir" => u[x].size = tree[u[x].path].size
  <2>1. CASE x \in 1 .. L
    <3>1. u[x] = v[x]
      BY <1>3, <2>1
    <3>2. PICK i \in 1 .. m : at[i].k = 1 /\ at[i].path = v[x].path
      BY <1>4, <2>1
    <3>3. \E j \in 1 .. M : at[j].k = 1 /\ at[j].path = v[x].path
      BY <1>5, <3>2
    <3> QED
      BY <1>4, <2>1, <3>1, <3>3
  <2>2. CASE x = L + 1
    BY <1>3, <1>5, <2>2
  <2> QED
    BY <1>6, <2>1, <2>2
<1>8. ASSUME NEW i \in 1 .. M, at[i].k = 1 PROVE \E x \in 1 .. L + 1 : u[x].path = at[i].path
  <2>1. CASE i \in 1 .. m
    <3>1. PICK x \in 1 .. L : v[x].path = at[i].path
      BY <1>4, <1>8, <2>1
    <3> QED
      BY <1>3, <3>1
  <2>2. CASE i = m + 1
    <3>1. L + 1 \in 1 .. L + 1
      OBVIOUS
    <3> QED
      BY <1>3, <2>2, <3>1
  <2> QED
    BY <1>5, <1>8, <2>1, <2>2
<1>9. ASSUME NEW x \in 1 .. L + 1, NEW y \in 1 .. L + 1, x < y PROVE Before(u[x].path, u[y].path)
  <2>1. x \in 1 .. L
    BY <1>9
  <2>2. CASE y \in 1 .. L
    BY <1>3, <1>4, <1>9, <2>1, <2>2
  <2>3. CASE y = L + 1
    <3>1. PICK i \in 1 .. m : at[i].k = 1 /\ at[i].path = v[x].path
      BY <1>4, <2>1
    <3>2. i \in 1 .. Len(a) /\ m + 1 \in 1 .. Len(a) /\ i < m + 1
      BY LenProperties
    <3>3. Before(at[i].path, at[m + 1].path)
      BY <3>1, <3>2 DEF Ordered
    <3> QED
      BY <1>3, <2>1, <2>3, <3>1, <3>3
  <2> QED
    BY <1>6, <2>2, <2>3
<1>10. Visits(at, M, u)
  BY <1>3, <1>7, <1>8, <1>9 DEF Visits, VisitType
<1> QED
  BY <1>2, <1>10

(* No visit for an item that is not the first of its path.                 *)
LEMMA VisitNone ==
  ASSUME NEW at, NEW m \in Nat, NEW v, Visits(at, m, v), at[m + 1].k # 1
  PROVE  Visits(at, m + 1, v)
<1>1. (\A i \in 1 .. m : i \in 1 .. m + 1) /\ \A i \in 1 .. m + 1 : i \in 1 .. m \/ i = m + 1
  OBVIOUS
<1> QED
  BY <1>1 DEF Visits

(* DecodeVersion.                                                          *)
LEMMA VersionDecoded ==
  ASSUME Input, NEW a \in Seq(Item), NEW at, Whole(a, at),
         NEW i, NEW d, NEW e, NEW v,
         Decoding(a, at, "version", i, d, e), Visits(at, Behind(at, "version", i), v)
  PROVE  Decoding(a, at, "root", i + 1, d, e) /\ Visits(at, Behind(at, "root", i + 1), v)
<1>1. Len(a) \in Nat /\ Len(a) >= 1
  BY LenProperties DEF Whole, Labelled
<1>2. i = 0
  BY DEF Decoding
<1>3. Behind(at, "version", i) = Behind(at, "root", i + 1)
  BY <1>2 DEF Behind
<1> QED
  BY <1>1, <1>2, <1>3 DEF Decoding

(* DecodeEntry.                                                            *)
LEMMA EntryDecoded ==
  ASSUME Input, NEW a \in Seq(Item), NEW at, Whole(a, at), NEW c \in {"root", "child"},
         NEW i, NEW d, NEW e, NEW v, Decoding(a, at, c, i, d, e), Visits(at, Behind(at, c, i), v)
  PROVE  /\ Decoding(a, at, "content", i + 1, d, [path |-> e.path, kind |-> a[i + 1].kind, xattrs |-> {}])
         /\ Visits(at, Behind(at, "content", i + 1), v)
<1>1. PICK L \in Nat : L = Len(a) /\ L >= 1
  BY LenProperties DEF Whole, Labelled
<1>2. PICK p : p = e.path
  OBVIOUS
<1>3. Labelled(a, at)
  BY DEF Whole
<1>4. i \in 1 .. L /\ at[i].k = 1 /\ at[i].path = p /\ d = Front(p)
  <2>1. CASE c = "root"
    BY <1>1, <1>2, <1>3, <2>1, NoPath DEF Decoding, Labelled
  <2>2. CASE c = "child"
    BY <1>1, <1>2, <2>2 DEF Decoding
  <2> QED
    BY <2>1, <2>2
<1>5. at[i] # Close
  BY <1>4 DEF Close
<1>6. /\ p \in DOMAIN tree /\ p \in Seq(Names) /\ Meta(p) \in Nat /\ Meta(p) >= 2
      /\ Len(Block(p)) = IF tree[p].kind = "dir" THEN Meta(p) ELSE Meta(p) + 1
  BY <1>1, <1>3, <1>4, ItemUnderLabel
<1>7. ~Ends(at[i])
  BY <1>4, <1>6 DEF Ends
<1>8. i + 1 \in 1 .. L /\ at[i + 1].path = p /\ at[i + 1].k = 2
  <2>1. i + 1 \in 1 .. Len(a) /\ at[i + 1].path = at[i].path /\ at[i + 1].k = at[i].k + 1
    BY <1>1, <1>4, <1>5, <1>7, NextLabel
  <2> QED
    BY <1>1, <1>4, <2>1
<1>9. a[i + 1].kind = tree[p].kind
  BY <1>1, <1>3, <1>8, ItemUnderLabel
<1>10. PICK f : f = [path |-> p, kind |-> a[i + 1].kind, xattrs |-> {}]
  OBVIOUS
<1>11. f \in EntryType /\ f.path = p /\ f.kind = tree[p].kind /\ f.xattrs = {}
  BY <1>6, <1>9, <1>10, NodeIs DEF EntryType
<1>12. f.xattrs = {InOrder(tree[p].xattrs)[j] : j \in 1 .. 2 - 2}
  BY <1>11
<1>13. \A j \in (i + 1) - 2 + 1 .. i + 1 : at[j].path = p /\ at[j].k = j - ((i + 1) - 2)
  <2>1. \A j \in (i + 1) - 2 + 1 .. i + 1 : j = i \/ j = i + 1
    BY <1>4
  <2> QED
    BY <1>4, <1>8, <2>1
<1>14. d \in DOMAIN tree /\ tree[d].kind = "dir"
  BY DEF Decoding
<1>15. Decoding(a, at, "content", i + 1, d, f)
  <2>1. i + 1 \in 0 .. Len(a) /\ i + 1 # 0 /\ 2 <= i + 1 /\ 2 \in 2 .. Meta(p)
    BY <1>1, <1>4, <1>6, <1>8
  <2> QED
    BY <1>4, <1>6, <1>8, <1>11, <1>12, <1>13, <1>14, <2>1 DEF Decoding
<1>16. Behind(at, c, i) = Behind(at, "content", i + 1)
  <2>1. Behind(at, c, i) = i - 1
    BY DEF Behind
  <2>2. Behind(at, "content", i + 1) = (i + 1) - at[i + 1].k
    BY DEF Behind
  <2> QED
    BY <1>4, <1>8, <2>1, <2>2
<1> QED
  BY <1>2, <1>10, <1>15, <1>16

-----------------------------------------------------------------------------
(* The decoder: extended attributes.                                       *)

(* In the content of an entry: what comes next, and what has come.         *)
LEMMA InContent ==
  ASSUME Input, NEW a \in Seq(Item), NEW at, Whole(a, at),
         NEW i, NEW d, NEW e, Decoding(a, at, "content", i, d, e),
         NEW p, e.path = p, NEW k, at[i].k = k
  PROVE  /\ i \in 1 .. Len(a) /\ i + 1 \in 1 .. Len(a) /\ at[i].path = p
         /\ k \in Nat /\ k >= 2 /\ k <= Meta(p) /\ k <= i /\ Meta(p) \in Nat
         /\ p \in DOMAIN tree /\ p \in Seq(Names) /\ d = Front(p) /\ e.kind = tree[p].kind
         /\ Len(Block(p)) = IF tree[p].kind = "dir" THEN Meta(p) ELSE Meta(p) + 1
         /\ \/ /\ k < Meta(p) /\ at[i + 1].path = p /\ at[i + 1].k = k + 1
               /\ a[i + 1].item = "xattr" /\ a[i + 1].attr = InOrder(tree[p].xattrs)[k - 1]
            \/ /\ k = Meta(p) /\ tree[p].kind = "dir" /\ a[i + 1].item # "xattr"
            \/ /\ k = Meta(p) /\ tree[p].kind # "dir" /\ at[i + 1].path = p /\ at[i + 1].k = k + 1
               /\ a[i + 1].item = (IF tree[p].kind = "link" THEN "symlink" ELSE "payload")
               /\ a[i + 1].size = tree[p].size
<1>1. PICK L \in Nat : L = Len(a)
  BY LenProperties
<1>2. Labelled(a, at)
  BY DEF Whole
<1>3. i \in 1 .. L /\ at[i].path = p /\ k \in 2 .. Meta(p) /\ k <= i /\ d = Front(p) /\ e.kind = tree[p].kind
  BY <1>1 DEF Decoding
<1>4. /\ p \in DOMAIN tree /\ p \in Seq(Names) /\ k \in Nat /\ Meta(p) \in Nat
      /\ Len(Block(p)) = IF tree[p].kind = "dir" THEN Meta(p) ELSE Meta(p) + 1
  BY <1>1, <1>2, <1>3, ItemUnderLabel
<1>5. at[i] # Close
  BY <1>3 DEF Close
<1>6. /\ i + 1 \in 1 .. L
      /\ ~Ends(at[i]) => at[i + 1].path = p /\ at[i + 1].k = k + 1
      /\ Ends(at[i]) => \/ at[i + 1].k = 0
                        \/ at[i + 1].k = 1 /\ at[i + 1].path # <<>>
  <2>1. /\ i + 1 \in 1 .. Len(a)
        /\ ~Ends(at[i]) => at[i + 1].path = at[i].path /\ at[i + 1].k = at[i].k + 1
        /\ Ends(at[i]) => \/ at[i + 1].k = 0 /\ at[i + 1].path = After(at[i])
                          \/ at[i + 1].k = 1 /\ at[i + 1].path # <<>> /\ Front(at[i + 1].path) = After(at[i])
    BY <1>1, <1>3, <1>5, NextLabel
  <2> QED
    BY <1>1, <1>3, <2>1
<1>7. Ends(at[i]) <=> k = Meta(p) /\ tree[p].kind = "dir"
  BY <1>3, <1>4 DEF Ends
<1>8. CASE Ends(at[i])
  <2>1. a[i + 1].item # "xattr"
    <3>1. CASE at[i + 1].k = 0
      <4>1. a[i + 1].item = "goodbye"
        BY <1>1, <1>2, <1>6, <3>1, ItemUnderLabel
      <4> QED
        BY <4>1
    <3>2. CASE at[i + 1].k = 1 /\ at[i + 1].path # <<>>
      <4>1. a[i + 1].item = "filename"
        BY <1>1, <1>2, <1>6, <3>2, ItemUnderLabel
      <4> QED
        BY <4>1
    <3> QED
      BY <1>6, <1>8, <3>1, <3>2
  <2> QED
    BY <1>1, <1>3, <1>4, <1>6, <1>7, <1>8, <2>1
<1>9. CASE ~Ends(at[i])
  <2>1. at[i + 1].path = p /\ at[i + 1].k = k + 1
    BY <1>6, <1>9
  <2>2. /\ k + 1 > 2 /\ k + 1 <= Meta(p) =>
             a[i + 1].item = "xattr" /\ a[i + 1].attr = InOrder(tree[p].xattrs)[(k + 1) - 2]
        /\ k + 1 > Meta(p) =>
             /\ k + 1 = Meta(p) + 1 /\ tree[p].kind # "dir" /\ a[i + 1].size = tree[p].size
             /\ a[i + 1].item = IF tree[p].kind = "link" THEN "symlink" ELSE "payload"
    <3>1. PICK j \in 1 .. Len(a), m \in Nat : j = i + 1 /\ m = k + 1 /\ at[j].path = p /\ at[j].k = m
      BY <1>1, <1>4, <1>6, <2>1
    <3>2. /\ m > 2 /\ m <= Meta(p) => a[j].item = "xattr" /\ a[j].attr = InOrder(tree[p].xattrs)[m - 2]
          /\ m > Meta(p) => /\ m = Meta(p) + 1 /\ tree[p].kind # "dir" /\ a[j].size = tree[p].size
                            /\ a[j].item = IF tree[p].kind = "link" THEN "symlink" ELSE "payload"
      BY ONLY Input, a \in Seq(Item), <1>2, <3>1, ItemUnderLabel
    <3> QED
      BY <3>1, <3>2
  <2>3. CASE k < Meta(p)
    <3>1. k + 1 > 2 /\ k + 1 <= Meta(p) /\ (k + 1) - 2 = k - 1
      BY <1>3, <1>4, <2>3
    <3> QED
      BY <1>1, <1>3, <1>4, <1>6, <2>1, <2>2, <2>3, <3>1
  <2>4. CASE k = Meta(p)
    <3>1. k + 1 > Meta(p)
      BY <1>3, <1>4, <2>4
    <3> QED
      BY <1>1, <1>3, <1>4, <1>6, <2>1, <2>2, <2>4, <3>1
  <2>5. k < Meta(p) \/ k = Meta(p)
    BY <1>3, <1>4
  <2> QED
    BY <2>3, <2>4, <2>5, Zenon
<1> QED
  BY <1>8, <1>9

(* DecodeXattr.                                                            *)
LEMMA XattrDecoded ==
  ASSUME Input, NEW a \in Seq(Item), NEW at, Whole(a, at),
         NEW i, NEW d, NEW e, NEW v, Decoding(a, at, "content", i, d, e),
         Visits(at, Behind(at, "content", i), v), a[i + 1].item = "xattr"
  PROVE  /\ Decoding(a, at, "content", i + 1, d, [e EXCEPT !.xattrs = @ \union {a[i + 1].attr}])
         /\ Visits(at, Behind(at, "content", i + 1), v)
<1>1. PICK L \in Nat : L = Len(a)
  BY LenProperties
<1>2. PICK p, k : p = e.path /\ k = at[i].k
  OBVIOUS
<1>3. /\ i \in 1 .. L /\ i + 1 \in 1 .. L /\ at[i].path = p
      /\ k \in Nat /\ k >= 2 /\ k <= Meta(p) /\ k <= i /\ Meta(p) \in Nat
      /\ p \in DOMAIN tree /\ d = Front(p) /\ e.kind = tree[p].kind
  BY <1>1, <1>2, InContent
<1>4. /\ k < Meta(p) /\ at[i + 1].path = p /\ at[i + 1].k = k + 1
      /\ a[i + 1].attr = InOrder(tree[p].xattrs)[k - 1]
  <2>1. \/ /\ k < Meta(p) /\ at[i + 1].path = p /\ at[i + 1].k = k + 1
           /\ a[i + 1].item = "xattr" /\ a[i + 1].attr = InOrder(tree[p].xattrs)[k - 1]
        \/ /\ k = Meta(p) /\ tree[p].kind = "dir" /\ a[i + 1].item # "xattr"
        \/ /\ k = Meta(p) /\ tree[p].kind # "dir" /\ at[i + 1].path = p /\ at[i + 1].k = k + 1
           /\ a[i + 1].item = (IF tree[p].kind = "link" THEN "symlink" ELSE "payload")
           /\ a[i + 1].size = tree[p].size
    BY <1>2, InContent
  <2> QED
    BY <2>1
<1>5. PICK X, s : X = tree[p].xattrs /\ s = InOrder(X)
  OBVIOUS
<1>6. a[i + 1].attr \in Nat
  <2>1. X \in SUBSET Nat /\ IsFiniteSet(X)
    BY <1>3, <1>5, NodeIs
  <2>2. s \in Seq(X) /\ Len(s) = Cardinality(X) /\ Cardinality(X) \in Nat
    BY <1>5, <2>1, InOrderIs
  <2>3. k - 1 \in 1 .. Cardinality(X)
    BY <1>3, <1>4, <1>5, <2>2 DEF Meta
  <2>4. s[k - 1] \in X
    BY <2>2, <2>3, ElementOfSeq
  <2> QED
    BY <1>4, <1>5, <2>1, <2>4
<1>7. PICK f : f = [e EXCEPT !.xattrs = @ \union {a[i + 1].attr}]
  OBVIOUS
<1>8. e \in EntryType /\ e.xattrs = {s[j] : j \in 1 .. k - 2}
      /\ (\A j \in i - k + 1 .. i : at[j].path = p /\ at[j].k = j - (i - k))
      /\ d \in DOMAIN tree /\ tree[d].kind = "dir"
  BY <1>2, <1>5 DEF Decoding
<1>9. f \in EntryType /\ f.path = p /\ f.kind = tree[p].kind /\ f.xattrs = e.xattrs \union {s[k - 1]}
  BY <1>2, <1>3, <1>4, <1>5, <1>6, <1>7, <1>8 DEF EntryType
<1>10. f.xattrs = {s[j] : j \in 1 .. (k + 1) - 2}
  <2>1. 1 .. (k + 1) - 2 = 1 .. k - 2 \union {k - 1}
    BY <1>3
  <2> QED
    BY <1>8, <1>9, <2>1
<1>11. \A j \in (i + 1) - (k + 1) + 1 .. i + 1 : at[j].path = p /\ at[j].k = j - ((i + 1) - (k + 1))
  <2> SUFFICES ASSUME NEW j \in (i + 1) - (k + 1) + 1 .. i + 1
               PROVE  at[j].path = p /\ at[j].k = j - ((i + 1) - (k + 1))
    OBVIOUS
  <2>1. (i + 1) - (k + 1) = i - k /\ (j \in i - k + 1 .. i \/ j = i + 1) /\ (i + 1) - (i - k) = k + 1
    BY <1>3
  <2> QED
    BY <1>4, <1>8, <2>1
<1>12. Decoding(a, at, "content", i + 1, d, f)
  <2>1. i + 1 \in 0 .. Len(a) /\ i + 1 # 0 /\ k + 1 <= i + 1 /\ k + 1 \in 2 .. Meta(p)
    BY <1>1, <1>3, <1>4
  <2> QED
    BY <1>3, <1>4, <1>5, <1>8, <1>9, <1>10, <1>11, <2>1 DEF Decoding
<1>13. Behind(at, "content", i) = Behind(at, "content", i + 1)
  <2>1. (i + 1) - (k + 1) = i - k
    BY <1>3
  <2> QED
    BY <1>2, <1>4, <2>1 DEF Behind
<1> QED
  BY <1>7, <1>12, <1>13

(* All attributes of an entry are read when its content is.                *)
LEMMA MetaRead ==
  ASSUME Input, NEW a \in Seq(Item), NEW at, Whole(a, at),
         NEW i, NEW d, NEW e, Decoding(a, at, "content", i, d, e),
         at[i].k = Meta(e.path)
  PROVE  e.xattrs = tree[e.path].xattrs
<1>1. PICK p : p = e.path
  OBVIOUS
<1>2. PICK X, s : X = tree[p].xattrs /\ s = InOrder(X)
  OBVIOUS
<1>3. X \in SUBSET Nat /\ IsFiniteSet(X)
  BY <1>1, <1>2, NodeIs DEF Decoding
<1>4. s \in Seq(X) /\ Len(s) = Cardinality(X) /\ Cardinality(X) \in Nat
      /\ \A x \in X : \E j \in 1 .. Len(s) : s[j] = x
  BY <1>2, <1>3, InOrderIs
<1>5. Meta(p) - 2 = Len(s)
  BY <1>2, <1>4 DEF Meta
<1>6. e.xattrs = {s[j] : j \in 1 .. Len(s)}
  BY <1>1, <1>2, <1>5 DEF Decoding
<1>7. \A j \in 1 .. Len(s) : s[j] \in X
  BY <1>4, ElementOfSeq
<1>8. e.xattrs = X
  BY <1>4, <1>6, <1>7
<1> QED
  BY <1>1, <1>2, <1>8

-----------------------------------------------------------------------------
(* The decoder: OnDir, OnFile and OnSymlink, a FILENAME, a GOODBYE.        *)

(* The visitor is called for what has been read.                           *)
LEMMA ContentVisited ==
  ASSUME Input, NEW a \in Seq(Item), NEW at, Whole(a, at),
         NEW i, NEW d, NEW e, NEW v, Decoding(a, at, "content", i, d, e),
         Visits(at, Behind(at, "content", i), v), at[i].k = Meta(e.path),
         NEW M \in {i, i + 1}, M \in 1 .. Len(a), M = i + 1 => at[M].k # 1,
         NEW size \in Nat, e.kind # "dir" => size = tree[e.path].size
  PROVE  Visits(at, M, Append(v, [path |-> e.path, kind |-> e.kind, xattrs |-> e.xattrs, size |-> size]))
<1>1. PICK L \in Nat : L = Len(a)
  BY LenProperties
<1>2. PICK p, k : p = e.path /\ k = at[i].k
  OBVIOUS
<1>3. /\ i \in 1 .. L /\ k \in Nat /\ k >= 2 /\ k <= i
      /\ p \in DOMAIN tree /\ p \in Seq(Names) /\ e.kind = tree[p].kind
  BY <1>1, <1>2, InContent
<1>4. e.xattrs = tree[p].xattrs
  BY <1>2, MetaRead
<1>5. PICK w : w = [path |-> p, kind |-> e.kind, xattrs |-> e.xattrs, size |-> size]
  OBVIOUS
<1>6. /\ w.path = p /\ w.kind = tree[p].kind
      /\ w.xattrs = tree[p].xattrs /\ (w.kind # "dir" => w.size = tree[p].size)
  BY <1>2, <1>3, <1>4, <1>5
<1>7. w \in VisitType
  <2>1. e.kind \in Kinds /\ e.xattrs \in SUBSET Nat
    BY <1>3, <1>4, NodeIs
  <2> QED
    BY <1>3, <1>5, <2>1 DEF VisitType
<1>8. PICK m \in Nat : m = i - k
  BY <1>3
<1>9. Visits(at, m, v)
  BY <1>2, <1>8 DEF Behind
<1>10. \A j \in m + 1 .. i : at[j].path = p /\ at[j].k = j - m
  BY <1>2, <1>8 DEF Decoding
<1>11. at[m + 1].k = 1 /\ at[m + 1].path = p
  <2>1. m + 1 \in m + 1 .. i /\ (m + 1) - m = 1
    BY <1>3, <1>8
  <2> QED
    BY <1>10, <2>1
<1>12. \A j \in m + 2 .. M : at[j].k # 1
  <2> SUFFICES ASSUME NEW j \in m + 2 .. M PROVE at[j].k # 1
    OBVIOUS
  <2>1. j \in m + 1 .. i \/ (M = i + 1 /\ j = M)
    BY <1>3, <1>8
  <2>2. j - m # 1
    BY <1>8
  <2> QED
    BY <1>10, <2>1, <2>2
<1>13. m < M /\ Labelled(a, at) /\ Ordered(a, at)
  BY <1>3, <1>8 DEF Whole
<1>14. Visits(at, M, Append(v, w))
  BY <1>6, <1>7, <1>9, <1>11, <1>12, <1>13, VisitOne
<1> QED
  BY <1>2, <1>5, <1>14

(* DecodeDir.                                                              *)
LEMMA DirDecoded ==
  ASSUME Input, NEW a \in Seq(Item), NEW at, Whole(a, at),
         NEW i, NEW d, NEW e, NEW v, Decoding(a, at, "content", i, d, e),
         Visits(at, Behind(at, "content", i), v), e.kind = "dir", a[i + 1].item # "xattr"
  PROVE  /\ Decoding(a, at, "dir", i, e.path, e)
         /\ Visits(at, Behind(at, "dir", i),
                   Append(v, [path |-> e.path, kind |-> e.kind, xattrs |-> e.xattrs, size |-> 0]))
<1>1. PICK L \in Nat : L = Len(a)
  BY LenProperties
<1>2. PICK p, k : p = e.path /\ k = at[i].k
  OBVIOUS
<1>3. /\ i \in 1 .. L /\ at[i].path = p /\ k \in Nat /\ k >= 2
      /\ p \in DOMAIN tree /\ tree[p].kind = "dir" /\ Len(Block(p)) = Meta(p) /\ k = Meta(p)
  <2>1. /\ i \in 1 .. Len(a) /\ at[i].path = p /\ k \in Nat /\ k >= 2
        /\ p \in DOMAIN tree /\ e.kind = tree[p].kind
        /\ Len(Block(p)) = IF tree[p].kind = "dir" THEN Meta(p) ELSE Meta(p) + 1
    BY <1>2, InContent
  <2>2. \/ /\ k < Meta(p) /\ at[i + 1].path = p /\ at[i + 1].k = k + 1
           /\ a[i + 1].item = "xattr" /\ a[i + 1].attr = InOrder(tree[p].xattrs)[k - 1]
        \/ /\ k = Meta(p) /\ tree[p].kind = "dir" /\ a[i + 1].item # "xattr"
        \/ /\ k = Meta(p) /\ tree[p].kind # "dir" /\ at[i + 1].path = p /\ at[i + 1].k = k + 1
           /\ a[i + 1].item = (IF tree[p].kind = "link" THEN "symlink" ELSE "payload")
           /\ a[i + 1].size = tree[p].size
    BY <1>2, InContent
  <2> QED
    BY <1>1, <2>1, <2>2
<1>4. Ends(at[i]) /\ at[i] # Close /\ After(at[i]) = p
  <2>1. at[i].k = Len(Block(at[i].path)) /\ at[i].k # 0 /\ tree[at[i].path].kind = "dir"
    BY <1>2, <1>3
  <2>2. at[i] # Close
    BY <2>1 DEF Close
  <2> QED
    BY <1>3, <2>1, <2>2 DEF Ends, After
<1>5. Decoding(a, at, "dir", i, p, e)
  <2>1. e \in EntryType /\ e.path \in DOMAIN tree
    BY DEF Decoding
  <2> QED
    BY <1>1, <1>3, <1>4, <2>1 DEF Decoding
<1>6. Visits(at, i, Append(v, [path |-> e.path, kind |-> e.kind, xattrs |-> e.xattrs, size |-> 0]))
  <2>1. at[i].k = Meta(e.path) /\ i \in {i, i + 1} /\ i \in 1 .. Len(a) /\ i # i + 1
    BY <1>1, <1>2, <1>3
  <2> QED
    BY <2>1, ContentVisited
<1>7. Behind(at, "dir", i) = i
  BY DEF Behind
<1> QED
  BY <1>2, <1>5, <1>6, <1>7

(* DecodeLeaf.                                                             *)
LEMMA LeafDecoded ==
  ASSUME Input, NEW a \in Seq(Item), NEW at, Whole(a, at),
         NEW i, NEW d, NEW e, NEW v, Decoding(a, at, "content", i, d, e),
         Visits(at, Behind(at, "content", i), v),
         \/ e.kind = "link" /\ a[i + 1].item = "symlink"
         \/ e.kind = "file" /\ a[i + 1].item = "payload"
  PROVE  /\ Decoding(a, at, "dir", i + 1, d, e)
         /\ Visits(at, Behind(at, "dir", i + 1),
                   Append(v, [path |-> e.path, kind |-> e.kind, xattrs |-> e.xattrs, size |-> a[i + 1].size]))
<1>1. PICK L \in Nat : L = Len(a)
  BY LenProperties
<1>2. PICK p, k : p = e.path /\ k = at[i].k
  OBVIOUS
<1>3. /\ i \in 1 .. L /\ i + 1 \in 1 .. L /\ k \in Nat /\ k >= 2 /\ d = Front(p)
      /\ p \in DOMAIN tree /\ tree[p].kind # "dir" /\ Len(Block(p)) = Meta(p) + 1 /\ k = Meta(p)
      /\ at[i + 1].path = p /\ at[i + 1].k = k + 1 /\ a[i + 1].size = tree[p].size
  <2>1. /\ i \in 1 .. Len(a) /\ i + 1 \in 1 .. Len(a) /\ k \in Nat /\ k >= 2 /\ d = Front(p)
        /\ p \in DOMAIN tree /\ e.kind = tree[p].kind
        /\ Len(Block(p)) = IF tree[p].kind = "dir" THEN Meta(p) ELSE Meta(p) + 1
    BY <1>2, InContent
  <2>2. \/ /\ k < Meta(p) /\ at[i + 1].path = p /\ at[i + 1].k = k + 1
           /\ a[i + 1].item = "xattr" /\ a[i + 1].attr = InOrder(tree[p].xattrs)[k - 1]
        \/ /\ k = Meta(p) /\ tree[p].kind = "dir" /\ a[i + 1].item # "xattr"
        \/ /\ k = Meta(p) /\ tree[p].kind # "dir" /\ at[i + 1].path = p /\ at[i + 1].k = k + 1
           /\ a[i + 1].item = (IF tree[p].kind = "link" THEN "symlink" ELSE "payload")
           /\ a[i + 1].size = tree[p].size
    BY <1>2, InContent
  <2> QED
    BY <1>1, <2>1, <2>2
<1>4. Ends(at[i + 1]) /\ at[i + 1] # Close /\ After(at[i + 1]) = d
  BY <1>3 DEF Ends, Close, After
<1>5. Decoding(a, at, "dir", i + 1, d, e)
  <2>1. e \in EntryType /\ e.path \in DOMAIN tree /\ d \in DOMAIN tree /\ tree[d].kind = "dir"
    BY DEF Decoding
  <2>2. i + 1 \in 0 .. Len(a) /\ i + 1 # 0
    BY <1>1, <1>3
  <2> QED
    BY <1>4, <2>1, <2>2 DEF Decoding
<1>6. Visits(at, i + 1, Append(v, [path |-> e.path, kind |-> e.kind, xattrs |-> e.xattrs,
                                  size |-> a[i + 1].size]))
  <2>1. at[i].k = Meta(e.path) /\ i + 1 \in {i, i + 1} /\ i + 1 \in 1 .. Len(a) /\ at[i + 1].k # 1
    BY <1>1, <1>2, <1>3
  <2>2. a[i + 1].size \in Nat /\ a[i + 1].size = tree[e.path].size
    BY <1>2, <1>3, NodeIs
  <2> QED
    BY <2>1, <2>2, ContentVisited
<1>7. Behind(at, "dir", i + 1) = i + 1
  BY DEF Behind
<1> QED
  BY <1>5, <1>6, <1>7

(* In a directory: what comes next.                                        *)
LEMMA InDirectory ==
  ASSUME Input, NEW a \in Seq(Item), NEW at, Whole(a, at),
         NEW i, NEW d, NEW e, Decoding(a, at, "dir", i, d, e)
  PROVE  /\ i \in 1 .. Len(a) /\ i + 1 \in 1 .. Len(a) /\ Labelled(a, at)
         /\ at[i + 1].path \in DOMAIN tree /\ at[i + 1].path \in Seq(Names)
         /\ \/ at[i + 1].k = 0 /\ at[i + 1].path = d /\ a[i + 1].item = "goodbye"
            \/ /\ at[i + 1].k = 1 /\ at[i + 1].path # <<>> /\ Front(at[i + 1].path) = d
               /\ a[i + 1].item = "filename" /\ a[i + 1].name = Last(at[i + 1].path)
<1>1. i \in 1 .. Len(a) /\ Ends(at[i]) /\ at[i] # Close /\ d = After(at[i])
  BY LenProperties DEF Decoding
<1>2. Labelled(a, at)
  BY DEF Whole
<1>3. /\ i + 1 \in 1 .. Len(a)
      /\ \/ at[i + 1].k = 0 /\ at[i + 1].path = d
         \/ at[i + 1].k = 1 /\ at[i + 1].path # <<>> /\ Front(at[i + 1].path) = d
  BY <1>1, NextLabel
<1>4. /\ at[i + 1].path \in DOMAIN tree /\ at[i + 1].path \in Seq(Names)
      /\ at[i + 1].k = 0 => a[i + 1].item = "goodbye"
      /\ at[i + 1].k = 1 /\ at[i + 1].path # <<>> =>
           a[i + 1].item = "filename" /\ a[i + 1].name = Last(at[i + 1].path)
  BY <1>2, <1>3, ItemUnderLabel
<1> QED
  BY <1>1, <1>2, <1>3, <1>4

(* DecodeName.                                                             *)
LEMMA NameDecoded ==
  ASSUME Input, NEW a \in Seq(Item), NEW at, Whole(a, at),
         NEW i, NEW d, NEW e, NEW v, Decoding(a, at, "dir", i, d, e),
         Visits(at, Behind(at, "dir", i), v), a[i + 1].item = "filename"
  PROVE  /\ Decoding(a, at, "child", i + 1, d, [e EXCEPT !.path = Append(d, a[i + 1].name)])
         /\ Visits(at, Behind(at, "child", i + 1), v)
<1>1. PICK p : p = at[i + 1].path
  OBVIOUS
<1>2. /\ i \in 1 .. Len(a) /\ i + 1 \in 1 .. Len(a) /\ p \in DOMAIN tree /\ p \in Seq(Names)
      /\ at[i + 1].k = 1 /\ p # <<>> /\ Front(p) = d /\ a[i + 1].name = Last(p)
  BY <1>1, InDirectory
<1>3. Append(d, a[i + 1].name) = p
  BY <1>2, PathParts
<1>4. PICK f : f = [e EXCEPT !.path = Append(d, a[i + 1].name)]
  OBVIOUS
<1>5. e \in EntryType /\ d \in DOMAIN tree /\ tree[d].kind = "dir"
  BY DEF Decoding
<1>6. f \in EntryType /\ f.path = p
  BY <1>2, <1>3, <1>4, <1>5 DEF EntryType
<1>7. Decoding(a, at, "child", i + 1, d, f)
  <2>1. i + 1 \in 0 .. Len(a) /\ i + 1 # 0
    BY <1>2
  <2> QED
    BY <1>1, <1>2, <1>5, <1>6, <2>1 DEF Decoding
<1>8. Behind(at, "dir", i) = Behind(at, "child", i + 1)
  BY <1>2 DEF Behind
<1> QED
  BY <1>4, <1>7, <1>8

(* DecodeGoodbye.                                                          *)
LEMMA GoodbyeDecoded ==
  ASSUME Input, NEW a \in Seq(Item), NEW at, Whole(a, at),
         NEW i, NEW d, NEW e, NEW v, Decoding(a, at, "dir", i, d, e),
         Visits(at, Behind(at, "dir", i), v), a[i + 1].item = "goodbye"
  PROVE  /\ d = <<>> => /\ Decoding(a, at, "done", i + 1, d, e)
                        /\ Visits(at, Behind(at, "done", i + 1), v)
         /\ d # <<>> => /\ Decoding(a, at, "dir", i + 1, Front(d), e)
                        /\ Visits(at, Behind(at, "dir", i + 1), v)
<1>1. /\ i \in 1 .. Len(a) /\ i + 1 \in 1 .. Len(a) /\ Labelled(a, at)
      /\ at[i + 1].k = 0 /\ at[i + 1].path = d
  BY InDirectory
<1>2. e \in EntryType /\ e.path \in DOMAIN tree /\ d \in DOMAIN tree /\ tree[d].kind = "dir"
  BY DEF Decoding
<1>3. Visits(at, i + 1, v)
  <2>1. Visits(at, i, v) /\ i \in Nat
    BY <1>1 DEF Behind
  <2> QED
    BY <1>1, <2>1, VisitNone
<1>4. i + 1 \in 0 .. Len(a) /\ i + 1 # 0
  BY <1>1
<1>5. CASE d = <<>>
  <2>1. at[i + 1] = Close
    <3>1. at[i + 1] \in Label
      BY <1>1 DEF Labelled
    <3> QED
      BY <1>1, <1>5, <3>1 DEF Label, Close
  <2>2. i + 1 = Len(a)
    BY <1>1, <2>1, CloseIsLast
  <2>3. Decoding(a, at, "done", i + 1, d, e)
    BY <1>2, <1>4, <2>2 DEF Decoding
  <2> QED
    BY <1>3, <1>5, <2>3 DEF Behind
<1>6. CASE d # <<>>
  <2>1. Ends(at[i + 1]) /\ at[i + 1] # Close /\ After(at[i + 1]) = Front(d)
    BY <1>1, <1>6 DEF Ends, Close, After
  <2>2. Front(d) \in DOMAIN tree /\ tree[Front(d)].kind = "dir"
    BY <1>2, <1>6, InputIs
  <2>3. Decoding(a, at, "dir", i + 1, Front(d), e)
    BY <1>2, <1>4, <2>1, <2>2 DEF Decoding
  <2> QED
    BY <1>3, <1>6, <2>3 DEF Behind
<1> QED
  BY <1>5, <1>6

-----------------------------------------------------------------------------
(* Frames, tables and items as the actions make them.                      *)

(* The frames and the tables the encoder makes.                            *)
LEMMA NextMade ==
  ASSUME NEW f \in FrameType, f.names # <<>>
  PROVE  NextName(f) \in FrameType /\ NextName(f).path = f.path /\ NextName(f).names = Tail(f.names)
<1>1. f.path \in Seq(Names) /\ f.names \in Seq(Names) /\ f.start \in Int /\ f.rows \in Seq(TableRow)
  BY DEF FrameType
<1>2. Tail(f.names) \in Seq(Names)
  BY <1>1, NamesLeft
<1> QED
  BY <1>1, <1>2 DEF NextName, FrameType

(* A frame with one row more.                                              *)
LEMMA RowMade ==
  ASSUME NEW f \in FrameType, f.names # <<>>, NEW name \in Names, NEW s \in Int, NEW e \in Int
  PROVE  /\ WithRow(NextName(f), name, s, e) \in FrameType
         /\ WithRow(NextName(f), name, s, e).path = f.path
         /\ WithRow(NextName(f), name, s, e).names = Tail(f.names)
<1>1. PICK g : g = NextName(f)
  OBVIOUS
<1>2. g \in FrameType /\ g.path = f.path /\ g.names = Tail(f.names)
  BY <1>1, NextMade
<1>3. Row(name, s, e) \in TableRow
  <2>1. Hash[name] \in Nat
    BY PxarAssumption
  <2> QED
    BY <2>1 DEF Row, TableRow
<1>4. g.rows \in Seq(TableRow)
  BY <1>2 DEF FrameType
<1>5. Append(g.rows, Row(name, s, e)) \in Seq(TableRow)
  BY <1>3, <1>4, AppendProperties
<1>6. /\ WithRow(g, name, s, e) \in FrameType /\ WithRow(g, name, s, e).path = g.path
      /\ WithRow(g, name, s, e).names = g.names
  BY <1>2, <1>5 DEF WithRow, FrameType
<1> QED
  BY <1>1, <1>2, <1>6

(* The frame of a directory that is entered.                               *)
LEMMA FrameMade ==
  ASSUME Input, NEW p \in Seq(Names), NEW s \in Int
  PROVE  /\ Frame(p, s) \in FrameType /\ Frame(p, s).path = p /\ Frame(p, s).names = InOrder(Children(p))
<1>1. PICK C \in SUBSET Nat : C = Children(p) /\ IsFiniteSet(C) /\ C \subseteq Names
  BY ChildrenAre
<1>2. PICK names \in Seq(C) : names = InOrder(C)
  BY <1>1, InOrderIs
<1>3. names \in Seq(Names)
  BY <1>1
<1>4. <<>> \in Seq(TableRow)
  BY EmptySeq
<1>5. Frame(p, s) = [path |-> p, names |-> names, start |-> s, rows |-> <<>>]
  BY <1>1, <1>2 DEF Frame
<1> QED
  BY <1>1, <1>2, <1>3, <1>4, <1>5 DEF FrameType

(* The table of a frame.                                                   *)
LEMMA TableMade ==
  ASSUME NEW f \in FrameType, n \in Int
  PROVE  Table(f) \in Item /\ Table(f).item = "goodbye"
<1>1. PICK r \in Seq(TableRow) : r = f.rows /\ f.start \in Int
  BY DEF FrameType
<1>2. PICK c \in Nat : c = Len(r) /\ DOMAIN r = 1 .. c
  BY <1>1, LenProperties
<1>3. PICK back : back = [i \in DOMAIN r |-> [r[i] EXCEPT !.offset = n - @]]
  OBVIOUS
<1>4. \A i \in 1 .. c : [r[i] EXCEPT !.offset = n - @] \in TableRow
  <2> SUFFICES ASSUME NEW i \in 1 .. c PROVE [r[i] EXCEPT !.offset = n - @] \in TableRow
    OBVIOUS
  <2>1. PICK d \in TableRow : d = r[i]
    BY <1>2, ElementOfSeq
  <2>2. d.offset \in Int /\ n - d.offset \in Int
    BY DEF TableRow
  <2>3. [d EXCEPT !.offset = n - @] \in TableRow
    BY <2>2 DEF TableRow
  <2> QED
    BY <2>1, <2>3
<1>5. back \in Seq(TableRow)
  BY <1>2, <1>3, <1>4
<1>6. ByHash(back) \in Seq(TableRow)
  BY <1>5, ByHashIs
<1>7. PICK tail : tail = [offset |-> n - f.start, size |-> HeaderSize + (Len(f.rows) + 1) * RowSize]
  OBVIOUS
<1>8. tail \in [offset : Int, size : Int]
  BY <1>1, <1>2, <1>7 DEF HeaderSize, RowSize
<1>9. Table(f) = Goodbye(ByHash(back), tail)
  BY <1>1, <1>3, <1>7 DEF Table
<1> QED
  BY <1>6, <1>8, <1>9 DEF Goodbye, Item

(* The items that are written for an entry are its block.                  *)
LEMMA BlockWrittenFor ==
  ASSUME Input, NEW p \in DOMAIN tree
  PROVE  /\ tree[p].kind = "dir" => Block(p) = <<Opening(p), Entry(tree[p])>> \o Xattrs(tree[p])
         /\ tree[p].kind # "dir" =>
              Block(p) = <<Opening(p), Entry(tree[p])>> \o Xattrs(tree[p]) \o
                         <<IF tree[p].kind = "link" THEN Symlink(tree[p].size) ELSE Payload(tree[p].size)>>
<1>1. PICK s \in Seq(Item) : s = <<Opening(p), Entry(tree[p])>> \o Xattrs(tree[p])
  BY OpeningIs, XattrsAre, ConcatProperties
<1>2. Block(p) = s \o Contents(tree[p])
  BY <1>1 DEF Block
<1>3. s \o <<>> = s
  BY ConcatEmptySeq
<1> QED
  BY <1>1, <1>2, <1>3 DEF Contents

-----------------------------------------------------------------------------
(* How the encoder starts.                                                 *)

(* The encoder starts with the items of the root.                          *)
LEMMA FirstEncoded ==
  ASSUME Input, NEW f \in FrameType, f.path = <<>>, f.names = InOrder(Children(<<>>))
  PROVE  /\ Block(<<>>) \in Seq(Item)
         /\ Encoded(Block(<<>>), [i \in 1 .. Len(Block(<<>>)) |-> [path |-> <<>>, k |-> i]], <<f>>)
<1>1. /\ <<>> \in ToBackUp /\ <<>> \in DOMAIN tree /\ tree[<<>>].kind = "dir" /\ <<>> \in Seq(Names)
  BY RootBackedUp, InputIs, NoPath
<1>2. PICK b : b = Block(<<>>)
  OBVIOUS
<1>3. PICK m \in Nat : m = Len(b) /\ m >= 2 /\ b \in Seq(Item)
  BY <1>1, <1>2, ToBackUpIs
<1>4. PICK bt : bt = [i \in 1 .. m |-> [path |-> <<>>, k |-> i]]
  OBVIOUS
<1>5. \A i \in 1 .. m : bt[i].path = <<>> /\ bt[i].k = i
  BY <1>4
<1>6. Labelled(b, bt)
  BY <1>1, <1>2, <1>3, <1>4, FirstLabelled
<1>7. Ordered(b, bt)
  BY <1>3, <1>5 DEF Ordered
<1>8. Ends(bt[m]) /\ bt[m] # Close /\ After(bt[m]) = <<>>
  <2>1. bt[m].path = <<>> /\ bt[m].k = m /\ m # 0
    BY <1>3, <1>5
  <2>2. Ends(bt[m])
    BY <1>2, <1>3, <2>1 DEF Ends
  <2> QED
    BY <1>1, <2>1, <2>2 DEF Close, After
<1>9. Written(b, bt) = {<<>>}
  <2>1. 1 \in 1 .. m /\ bt[1].k = 1
    BY <1>3, <1>5
  <2>2. \A q : q \in Written(b, bt) <=> \E i \in 1 .. m : bt[i].k = 1 /\ q = bt[i].path
    BY <1>3 DEF Written
  <2>3. \A q : q \in Written(b, bt) <=> q = <<>>
    BY <1>5, <2>1, <2>2
  <2> QED
    BY <2>3
<1>10. PICK C \in SUBSET Nat : C = Children(<<>>) /\ IsFiniteSet(C) /\ C \subseteq Names
  BY <1>1, ChildrenAre
<1>11. PICK s \in Seq(C) : s = InOrder(C)
  BY <1>10, InOrderIs
<1>12. PICK c \in Nat : c = Len(s)
  BY LenProperties
<1>13. /\ \A i, j \in 1 .. c : i < j => s[i] < s[j]
       /\ \A x \in C : \E i \in 1 .. c : s[i] = x
       /\ \A i \in 1 .. c : s[i] \in C
  BY <1>10, <1>11, <1>12, InOrderIs, ElementOfSeq
<1>14. \A x \in C : Append(<<>>, x) \in DOMAIN tree
  BY <1>1, <1>10, ChildrenAre
<1>15. FrameOK(f)
  BY <1>1, <1>10, <1>11, <1>12, <1>13, <1>14 DEF FrameOK
<1>16. PICK st : st = <<f>>
  OBVIOUS
<1>17. st \in Seq(FrameType) /\ Len(st) = 1 /\ st[1] = f
  BY <1>16, One
<1>18. StackOK(st)
  <2>1. /\ \A j \in 1 .. 1 : j = 1
        /\ \A j \in 1 .. 1 - 1 : FALSE
        /\ \A j, k \in 1 .. 1 : ~(j < k)
    OBVIOUS
  <2> QED
    BY <1>15, <1>17, <2>1 DEF StackOK
<1>19. Waiting(st) = {Append(<<>>, x) : x \in C}
  <2>1. Left(st, 1, 1) = {Append(<<>>, s[i]) : i \in 1 .. c}
    BY <1>10, <1>11, <1>12, <1>17 DEF Left
  <2>2. Left(st, 1, 2) \subseteq Left(st, 1, 1)
    BY DEF Left
  <2>3. Later(st) = Left(st, 1, 2)
    <3>1. \A x : x \in Later(st) <=> \E j \in 1 .. 1 : x \in Left(st, j, 2)
      BY <1>17 DEF Later
    <3>2. \A j \in 1 .. 1 : j = 1
      OBVIOUS
    <3>3. 1 \in 1 .. 1
      OBVIOUS
    <3>4. \A x : x \in Later(st) <=> x \in Left(st, 1, 2)
      BY <3>1, <3>2, <3>3
    <3> QED
      BY <3>4
  <2>4. Waiting(st) = Left(st, 1, 1)
    BY <1>17, <2>2, <2>3 DEF Waiting
  <2>5. \A y : y \in {Append(<<>>, s[i]) : i \in 1 .. c} <=> y \in {Append(<<>>, x) : x \in C}
    BY <1>13
  <2> QED
    BY <2>1, <2>4, <2>5
<1>20. \A q \in Written(b, bt) : \A x \in Waiting(st) : Before(q, x)
  <2> SUFFICES ASSUME NEW x \in C PROVE Before(<<>>, Append(<<>>, x))
    BY <1>9, <1>19
  <2> QED
    BY <1>1, <1>10, BeforeChild
<1>21. ASSUME NEW q \in ToBackUp, q \notin Written(b, bt) PROVE \E x \in Waiting(st) : IsPrefix(x, q)
  <2>1. q \in DOMAIN tree /\ q \in Seq(Names) /\ q # <<>>
    BY <1>9, <1>21, ToBackUpIs
  <2>2. IsPrefix(<<>>, q)
    <3>1. PICK e \in Seq(Names) : e = <<>> /\ Len(e) = 0
      BY NoPath
    <3>2. Len(e) <= Len(q) /\ \A i \in 1 .. Len(e) : e[i] = q[i]
      BY <2>1, <3>1, LenProperties
    <3>3. IsPrefix(e, q)
      BY <2>1, <3>2, PrefixIs
    <3> QED
      BY <3>1, <3>3
  <2>3. PICK x \in C : IsPrefix(Append(<<>>, x), q)
    BY <1>1, <1>10, <2>1, <2>2, ThroughChild
  <2> QED
    BY <1>19, <2>3
<1>22. Encoded(b, bt, st)
  BY <1>3, <1>6, <1>7, <1>8, <1>17, <1>18, <1>20, <1>21 DEF Encoded
<1> QED
  BY <1>2, <1>3, <1>4, <1>16, <1>22

(* What the encoder has at hand.                                           *)
LEMMA AtHand ==
  ASSUME Input, NEW st, StackOK(st)
  PROVE  /\ Len(st) \in Nat /\ Len(st) >= 1 /\ Last(st) = st[Len(st)]
         /\ st[Len(st)] \in FrameType /\ st[Len(st)].path \in Seq(Names)
         /\ st[Len(st)].names # <<>> => Head(st[Len(st)].names) \in Names
<1>1. Len(st) \in Nat /\ Len(st) >= 1 /\ st \in Seq(FrameType)
  BY LenProperties DEF StackOK
<1>2. Len(st) \in 1 .. Len(st)
  BY <1>1
<1>3. st[Len(st)] \in FrameType
  BY <1>1, <1>2, ElementOfSeq
<1>4. Last(st) = st[Len(st)]
  BY DEF Last
<1>5. st[Len(st)].names \in Seq(Names) /\ st[Len(st)].path \in Seq(Names)
  BY <1>3 DEF FrameType
<1>6. st[Len(st)].names # <<>> => Head(st[Len(st)].names) \in Names
  BY <1>5, NamesLeft
<1> QED
  BY <1>1, <1>3, <1>4, <1>5, <1>6

-----------------------------------------------------------------------------
(* The invariant, and that runs start with it.                             *)

(* The inductive invariant: while the encoder runs, what it has written    *)
(* and what is on its stack are as above and the decoder has not begun;    *)
(* then the archive is whole, and the decoder is somewhere in it.          *)
Encoding ==
  /\ pos = 0 /\ dirPath = <<>> /\ visited = <<>> /\ entry \in EntryType /\ entry.path = <<>>
  /\ \E at : Encoded(archive, at, stack)
DecodingWhole ==
  /\ stack = <<>>
  /\ \E at : /\ Whole(archive, at) /\ Decoding(archive, at, pc, pos, dirPath, entry)
             /\ Visits(at, Behind(at, pc, pos), visited)
PxarInv ==
  /\ Input /\ archive \in Seq(Item) /\ n = Sizes(archive)
  /\ IF pc = "encode" THEN Encoding ELSE DecodingWhole

(* Init.                                                                   *)
LEMMA StartsOK ==
  ASSUME Init
  PROVE  PxarInv
<1>1. Input
  BY DEF Init, Input
<1>2. <<>> \in DOMAIN tree /\ tree[<<>>].kind = "dir" /\ <<>> \in Seq(Names)
  BY <1>1, InputIs, NoPath
<1>3. Block(<<>>) = <<Version, Entry(tree[<<>>])>> \o Xattrs(tree[<<>>])
  BY <1>1, <1>2, BlockWrittenFor DEF Opening
<1>4. archive = Block(<<>>) /\ n = Sizes(archive)
  BY <1>3 DEF Init
<1>5. PICK f : f = Frame(<<>>, Size(Version))
  OBVIOUS
<1>6. f \in FrameType /\ f.path = <<>> /\ f.names = InOrder(Children(<<>>))
  <2>1. Size(Version) \in Int
    <3>1. Version \in Item
      BY DEF Version, Item
    <3> QED
      BY <3>1, SizeIs
  <2> QED
    BY <1>1, <1>2, <1>5, <2>1, FrameMade
<1>7. stack = <<f>>
  BY <1>5 DEF Init
<1>8. archive \in Seq(Item) /\ \E at : Encoded(archive, at, stack)
  <2>1. /\ Block(<<>>) \in Seq(Item)
        /\ Encoded(Block(<<>>), [i \in 1 .. Len(Block(<<>>)) |-> [path |-> <<>>, k |-> i]], <<f>>)
    BY <1>1, <1>6, FirstEncoded
  <2> QED
    BY <1>4, <1>7, <2>1
<1>9. entry \in EntryType /\ entry.path = <<>>
  BY <1>2 DEF Init, EntryType
<1>10. pc = "encode" /\ pos = 0 /\ dirPath = <<>> /\ visited = <<>>
  BY DEF Init
<1> QED
  BY <1>1, <1>4, <1>8, <1>9, <1>10 DEF PxarInv, Encoding

(* What a step of the encoder leaves to be shown.                          *)
LEMMA EncodingOn ==
  ASSUME PxarInv, pc = "encode", pc' = "encode", tree' = tree, lines' = lines, UNCHANGED decoder,
         NEW a \in Seq(Item), archive' = a, NEW s, stack' = s, NEW at, Encoded(a, at, s),
         n' = Sizes(a)
  PROVE  PxarInv'
<1>1. Encoded(a, at, s)'
  BY EncodedStays
<1>2. (\E bt : Encoded(archive, bt, stack))'
  BY <1>1
<1>3. Encoding'
  BY <1>2 DEF PxarInv, Encoding, decoder
<1>4. Input' /\ archive' \in Seq(Item) /\ n' = Sizes(archive')
  BY DEF PxarInv, Input
<1>5. (n = Sizes(archive))'
  BY <1>4 DEF Sizes, Size
<1> QED
  BY <1>3, <1>4, <1>5 DEF PxarInv

(* The child the encoder is at.                                            *)
LEMMA ChildIs ==
  ASSUME Input, StackOK(stack)
  PROVE  /\ Top = stack[Len(stack)] /\ Child = Current(stack[Len(stack)])
         /\ Top \in FrameType
         /\ Top.names # <<>> => /\ Last(Child) = Head(Top.names) /\ Last(Child) \in Names
                                /\ Child \in DOMAIN tree /\ Child # <<>> /\ Child \in Seq(Names)
                                /\ Front(Child) = Top.path
<1>1. /\ Top = stack[Len(stack)] /\ Top \in FrameType /\ Top.path \in Seq(Names)
      /\ Top.names # <<>> => Head(Top.names) \in Names
  BY AtHand DEF Top
<1>2. Child = Current(stack[Len(stack)])
  BY <1>1 DEF Child, Current
<1>3. ASSUME Top.names # <<>>
      PROVE  /\ Last(Child) = Head(Top.names) /\ Last(Child) \in Names
             /\ Child \in DOMAIN tree /\ Child # <<>> /\ Child \in Seq(Names)
             /\ Front(Child) = Top.path
  <2>1. /\ Current(stack[Len(stack)]) \in DOMAIN tree /\ Current(stack[Len(stack)]) # <<>>
        /\ Front(Current(stack[Len(stack)])) = stack[Len(stack)].path
        /\ Last(Current(stack[Len(stack)])) = Head(stack[Len(stack)].names)
    BY <1>1, <1>3, NowAndLater
  <2> QED
    BY <1>1, <1>2, <1>3, <2>1, InputIs
<1> QED
  BY <1>1, <1>2, <1>3

-----------------------------------------------------------------------------
(* The encoder keeps it.                                                   *)

(* A child that is skipped changes the stack only.                         *)
LEMMA SkipChildOK ==
  ASSUME PxarInv, SkipChild
  PROVE  PxarInv'
<1>1. PICK at : Encoded(archive, at, stack)
  BY DEF PxarInv, Encoding, SkipChild
<1>2. Input /\ archive \in Seq(Item) /\ n = Sizes(archive)
  BY DEF PxarInv
<1>3. StackOK(stack)
  BY <1>1 DEF Encoded
<1>4. PICK p, g : p = Child /\ g = NextName(Top)
  OBVIOUS
<1>5. /\ Top = stack[Len(stack)] /\ p = Current(stack[Len(stack)]) /\ stack[Len(stack)].names # <<>>
      /\ Skips(p) /\ Top \in FrameType /\ Last(p) \in Names
  BY <1>2, <1>3, <1>4, ChildIs DEF SkipChild
<1>6. g \in FrameType /\ g.path = stack[Len(stack)].path /\ g.names = Tail(stack[Len(stack)].names)
  <2>1. NextName(Top) \in FrameType /\ NextName(Top).path = Top.path /\ NextName(Top).names = Tail(Top.names)
    BY <1>5, NextMade
  <2> QED
    BY <1>4, <1>5, <2>1
<1>7. PICK s : s = ReplaceAt(stack, Len(stack), g)
  OBVIOUS
<1>8. Encoded(archive, at, s)
  BY <1>1, <1>2, <1>5, <1>6, <1>7, SkipEncoded
<1>9. PICK a \in Seq(Item) : a = archive
  BY <1>2
<1>10. /\ pc = "encode" /\ pc' = "encode" /\ tree' = tree /\ lines' = lines /\ UNCHANGED decoder
       /\ archive' = a /\ stack' = s /\ n' = Sizes(a)
  BY <1>2, <1>4, <1>7, <1>9 DEF SkipChild, input
<1>11. Encoded(a, at, s)
  BY <1>8, <1>9
<1> QED
  BY <1>10, <1>11, EncodingOn

(* A file or a link.                                                       *)
LEMMA EncodeLeafOK ==
  ASSUME PxarInv, EncodeLeaf
  PROVE  PxarInv'
<1>1. PICK at : Encoded(archive, at, stack)
  BY DEF PxarInv, Encoding, EncodeLeaf
<1>2. Input /\ archive \in Seq(Item) /\ n = Sizes(archive) /\ n \in Nat
  <2>1. Input /\ archive \in Seq(Item) /\ n = Sizes(archive)
    BY DEF PxarInv
  <2>2. Sizes(archive) \in Nat
    BY <2>1, SumsExist, SizesAre
  <2> QED
    BY <2>1, <2>2
<1>3. StackOK(stack)
  BY <1>1 DEF Encoded
<1>4. PICK p : p = Child
  OBVIOUS
<1>5. /\ Top = stack[Len(stack)] /\ p = Current(stack[Len(stack)]) /\ stack[Len(stack)].names # <<>>
      /\ ~Skips(p) /\ tree[p].kind # "dir" /\ Top \in FrameType /\ Last(p) \in Names
      /\ p \in DOMAIN tree /\ p # <<>>
  BY <1>2, <1>3, <1>4, ChildIs DEF EncodeLeaf
<1>6. PICK b \in Seq(Item) : b = Block(p)
  BY <1>2, <1>5, BlockIs
<1>7. b = <<Filename(Last(p)), Entry(tree[p])>> \o Xattrs(tree[p]) \o
           <<IF tree[p].kind = "link" THEN Symlink(tree[p].size) ELSE Payload(tree[p].size)>>
  BY <1>2, <1>5, <1>6, BlockWrittenFor DEF Opening
<1>8. PICK g : g = WithRow(NextName(Top), Last(p), n, n + Sizes(b))
  OBVIOUS
<1>9. /\ archive' = archive \o b /\ n' = n + Sizes(b)
      /\ stack' = ReplaceAt(stack, Len(stack), g)
  BY <1>4, <1>7, <1>8 DEF EncodeLeaf
<1>10. Sizes(archive \o b) = n + Sizes(b) /\ archive \o b \in Seq(Item) /\ Sizes(b) \in Nat
  BY <1>2, <1>6, SizesConcat
<1>11. g \in FrameType /\ g.path = stack[Len(stack)].path /\ g.names = Tail(stack[Len(stack)].names)
  <2>1. n \in Int /\ n + Sizes(b) \in Int
    BY <1>2, <1>10
  <2>2. PICK e \in Int : e = n + Sizes(b)
    BY <2>1
  <2>3. /\ WithRow(NextName(Top), Last(p), n, e) \in FrameType
        /\ WithRow(NextName(Top), Last(p), n, e).path = Top.path
        /\ WithRow(NextName(Top), Last(p), n, e).names = Tail(Top.names)
    BY <1>2, <1>5, <2>1, <2>2, RowMade
  <2> QED
    BY <1>5, <1>8, <2>2, <2>3
<1>12. PICK s : s = ReplaceAt(stack, Len(stack), g)
  OBVIOUS
<1>13. PICK a \in Seq(Item) : a = archive \o b
  BY <1>10
<1>14. PICK bt : bt = WithBlock(archive, at, p)
  OBVIOUS
<1>15. Encoded(a, bt, s)
  <2>1. Encoded(archive \o Block(p), WithBlock(archive, at, p), ReplaceAt(stack, Len(stack), g))
    BY <1>1, <1>2, <1>5, <1>11, LeafEncoded
  <2> QED
    BY <1>6, <1>12, <1>13, <1>14, <2>1
<1>16. /\ pc = "encode" /\ pc' = "encode" /\ tree' = tree /\ lines' = lines /\ UNCHANGED decoder
       /\ archive' = a /\ stack' = s /\ n' = Sizes(a)
  BY <1>9, <1>10, <1>12, <1>13 DEF EncodeLeaf, input
<1> QED
  BY <1>15, <1>16, EncodingOn

(* The beginning of a directory.                                           *)
LEMMA EncodeDirOK ==
  ASSUME PxarInv, EncodeDir
  PROVE  PxarInv'
<1>1. PICK at : Encoded(archive, at, stack)
  BY DEF PxarInv, Encoding, EncodeDir
<1>2. Input /\ archive \in Seq(Item) /\ n = Sizes(archive) /\ n \in Nat
  <2>1. Input /\ archive \in Seq(Item) /\ n = Sizes(archive)
    BY DEF PxarInv
  <2>2. Sizes(archive) \in Nat
    BY <2>1, SumsExist, SizesAre
  <2> QED
    BY <2>1, <2>2
<1>3. StackOK(stack)
  BY <1>1 DEF Encoded
<1>4. PICK p : p = Child
  OBVIOUS
<1>5. /\ p = Current(stack[Len(stack)]) /\ stack[Len(stack)].names # <<>>
      /\ ~Skips(p) /\ tree[p].kind = "dir" /\ Last(p) \in Names
      /\ p \in DOMAIN tree /\ p # <<>> /\ p \in Seq(Names)
  BY <1>2, <1>3, <1>4, ChildIs DEF EncodeDir
<1>6. PICK b \in Seq(Item) : b = Block(p)
  BY <1>2, <1>5, BlockIs
<1>7. b = <<Filename(Last(p)), Entry(tree[p])>> \o Xattrs(tree[p])
  BY <1>2, <1>5, <1>6, BlockWrittenFor DEF Opening
<1>8. PICK g : g = Frame(p, n + Size(Filename(Last(p))))
  OBVIOUS
<1>9. /\ archive' = archive \o b /\ n' = n + Sizes(b)
      /\ stack' = Append(stack, g)
  BY <1>4, <1>7, <1>8 DEF EncodeDir
<1>10. Sizes(archive \o b) = n + Sizes(b) /\ archive \o b \in Seq(Item)
  BY <1>2, <1>6, SizesConcat
<1>11. g \in FrameType /\ g.path = p /\ g.names = InOrder(Children(p))
  <2>1. Filename(Last(p)) \in Item
    BY <1>5 DEF Filename, Item
  <2>2. Size(Filename(Last(p))) \in Nat
    BY <2>1, SizeIs
  <2>3. PICK o \in Int : o = n + Size(Filename(Last(p)))
    BY <1>2, <2>2
  <2> QED
    BY <1>2, <1>5, <1>8, <2>3, FrameMade
<1>12. PICK s : s = Append(stack, g)
  OBVIOUS
<1>13. PICK a \in Seq(Item) : a = archive \o b
  BY <1>10
<1>14. PICK bt : bt = WithBlock(archive, at, p)
  OBVIOUS
<1>15. Encoded(a, bt, s)
  <2>1. Encoded(archive \o Block(p), WithBlock(archive, at, p), Append(stack, g))
    BY <1>1, <1>2, <1>5, <1>11, DirEncoded
  <2> QED
    BY <1>6, <1>12, <1>13, <1>14, <2>1
<1>16. /\ pc = "encode" /\ pc' = "encode" /\ tree' = tree /\ lines' = lines /\ UNCHANGED decoder
       /\ archive' = a /\ stack' = s /\ n' = Sizes(a)
  BY <1>9, <1>10, <1>12, <1>13 DEF EncodeDir, input
<1> QED
  BY <1>15, <1>16, EncodingOn

(* The end of a directory; that of the root starts the decoder.            *)
LEMMA EncodeGoodbyeOK ==
  ASSUME PxarInv, EncodeGoodbye
  PROVE  PxarInv'
<1>1. PICK at : Encoded(archive, at, stack)
  BY DEF PxarInv, Encoding, EncodeGoodbye
<1>2. Input /\ archive \in Seq(Item) /\ n = Sizes(archive) /\ n \in Nat
  <2>1. Input /\ archive \in Seq(Item) /\ n = Sizes(archive)
    BY DEF PxarInv
  <2>2. Sizes(archive) \in Nat
    BY <2>1, SumsExist, SizesAre
  <2> QED
    BY <2>1, <2>2
<1>3. StackOK(stack) /\ Len(stack) \in Nat /\ Len(stack) >= 1
  BY <1>1, <1>2, AtHand DEF Encoded
<1>4. Top = stack[Len(stack)] /\ Top \in FrameType /\ stack[Len(stack)].names = <<>>
  BY <1>2, <1>3, ChildIs DEF EncodeGoodbye
<1>5. PICK e \in Item : e = Table(Top) /\ e.item = "goodbye"
  BY <1>2, <1>4, TableMade
<1>6. archive' = Append(archive, e) /\ n' = n + Size(e)
  BY <1>5 DEF EncodeGoodbye
<1>7. PICK a \in Seq(Item) : a = Append(archive, e) /\ Sizes(a) = n + Size(e)
  BY <1>2, SizesAppend
<1>8. Input' /\ archive' \in Seq(Item) /\ (n = Sizes(archive))'
  <2>1. archive' \in Seq(Item) /\ n' = Sizes(archive')
    BY <1>6, <1>7
  <2>2. Input'
    BY <1>2 DEF EncodeGoodbye, input, Input
  <2>3. (n = Sizes(archive))'
    BY <2>1 DEF Sizes, Size
  <2> QED
    BY <2>1, <2>2, <2>3
<1>9. CASE Len(stack) = 1
  <2>1. PICK bt : bt = WithGoodbye(archive, at, <<>>)
    OBVIOUS
  <2>2. Whole(a, bt)
    <3>1. Whole(Append(archive, e), WithGoodbye(archive, at, <<>>))
      BY <1>1, <1>2, <1>4, <1>5, <1>9, LastEncoded
    <3> QED
      BY <1>7, <2>1, <3>1
  <2>3. /\ tree' = tree /\ lines' = lines
        /\ pc' = "version" /\ stack' = <<>> /\ archive' = a /\ UNCHANGED decoder
    BY <1>6, <1>7, <1>9 DEF EncodeGoodbye, input
  <2>4. /\ pos = 0 /\ dirPath = <<>> /\ visited = <<>> /\ entry \in EntryType /\ entry.path = <<>>
    BY DEF PxarInv, Encoding, EncodeGoodbye
  <2>5. PICK i, d, f, v : i = pos /\ d = dirPath /\ f = entry /\ v = visited
    OBVIOUS
  <2>6. Decoding(a, bt, "version", i, d, f)
    <3>1. <<>> \in DOMAIN tree /\ tree[<<>>].kind = "dir" /\ Len(a) \in Nat
      BY <1>2, InputIs, LenProperties
    <3> QED
      BY <2>4, <2>5, <3>1 DEF Decoding
  <2>7. Visits(bt, 0, v)
    <3>1. v = <<>> /\ Len(<<>>) = 0 /\ v \in Seq(VisitType)
      BY <2>4, <2>5, EmptySeq
    <3> QED
      BY <3>1 DEF Visits, VisitType
  <2>8. Whole(a, bt)' /\ Decoding(a, bt, "version", i, d, f)' /\ Visits(bt, 0, v)'
    BY <2>2, <2>3, <2>6, <2>7, EncodedStays, DecodingStays
  <2>9. pos' = i /\ dirPath' = d /\ entry' = f /\ visited' = v /\ Behind(bt, "version", i) = 0
    BY <2>3, <2>4, <2>5 DEF decoder, Behind
  <2>10. DecodingWhole'
    BY <2>3, <2>8, <2>9 DEF DecodingWhole
  <2> QED
    BY <1>8, <2>3, <2>10 DEF PxarInv
<1>10. CASE Len(stack) # 1
  <2>1. PICK parent, name : parent = stack[Len(stack) - 1] /\ name = Last(Top.path)
    OBVIOUS
  <2>2. PICK o, m : o = Top.start - Size(Filename(name)) /\ m = n + Size(e)
    OBVIOUS
  <2>3. PICK g : g = WithRow(NextName(parent), name, o, m)
    OBVIOUS
  <2>4. stack' = Append(SubSeq(stack, 1, Len(stack) - 2), g) /\ pc' = pc
    BY <1>6, <1>10, <2>1, <2>2, <2>3 DEF EncodeGoodbye
  <2>5. /\ Len(stack) - 1 \in 1 .. Len(stack) /\ Len(stack) - 1 \in 1 .. Len(stack) - 1
        /\ (Len(stack) - 1) + 1 = Len(stack)
    <3>1. PICK L \in Nat : L = Len(stack) /\ L >= 1
      BY <1>3
    <3>2. L # 1
      BY <1>10, <3>1
    <3>3. L - 1 \in 1 .. L /\ L - 1 \in 1 .. L - 1 /\ (L - 1) + 1 = L
      BY <3>1, <3>2
    <3> QED
      BY <3>1, <3>3
  <2>6. FrameOK(parent) /\ parent.names # <<>> /\ Top.path = Current(parent)
    BY <1>3, <1>4, <2>1, <2>5 DEF StackOK
  <2>7. parent \in FrameType /\ name \in Names
    <3>1. PICK q \in Seq(Names), s \in Seq(Names) : q = parent.path /\ s = parent.names
      BY <1>2, <2>6, FrameIs
    <3>2. Head(s) \in Names
      BY <2>6, <3>1, NamesLeft
    <3>3. Last(Append(q, Head(s))) = Head(s)
      BY <3>1, <3>2, ChildParts
    <3> QED
      BY <2>1, <2>6, <3>1, <3>2, <3>3 DEF Current, FrameOK
  <2>8. o \in Int /\ m \in Int
    <3>1. Filename(name) \in Item
      BY <2>7 DEF Filename, Item
    <3>2. Size(Filename(name)) \in Nat /\ Size(e) \in Nat
      BY <3>1, SizeIs
    <3>3. Top.start \in Int
      BY <1>4 DEF FrameType
    <3> QED
      BY <1>2, <2>2, <3>2, <3>3
  <2>9. g \in FrameType /\ g.path = parent.path /\ g.names = Tail(parent.names)
    BY <1>2, <2>3, <2>6, <2>7, <2>8, RowMade
  <2>10. PICK s : s = Append(SubSeq(stack, 1, Len(stack) - 2), g)
    OBVIOUS
  <2>11. PICK bt : bt = WithGoodbye(archive, at, stack[Len(stack)].path)
    OBVIOUS
  <2>12. Encoded(a, bt, s)
    <3>1. g.path = stack[Len(stack) - 1].path /\ g.names = Tail(stack[Len(stack) - 1].names)
      BY <2>1, <2>9
    <3>2. Encoded(Append(archive, e), WithGoodbye(archive, at, stack[Len(stack)].path),
                  Append(SubSeq(stack, 1, Len(stack) - 2), g))
      BY <1>1, <1>2, <1>4, <1>5, <1>10, <2>9, <3>1, PopEncoded
    <3> QED
      BY <1>7, <2>10, <2>11, <3>2
  <2>13. /\ pc = "encode" /\ pc' = "encode" /\ tree' = tree /\ lines' = lines /\ UNCHANGED decoder
         /\ archive' = a /\ stack' = s /\ n' = Sizes(a)
    BY <1>6, <1>7, <2>4, <2>10 DEF EncodeGoodbye, input
  <2> QED
    BY <2>12, <2>13, EncodingOn
<1> QED
  BY <1>9, <1>10

-----------------------------------------------------------------------------
(* The decoder keeps it; the theorems.                                     *)

(* What a step of the decoder leaves to be shown.                          *)
LEMMA DecodingOn ==
  ASSUME PxarInv, pc # "encode", tree' = tree, lines' = lines, UNCHANGED encoder,
         NEW at, Whole(archive, at),
         NEW c, pc' = c, NEW i, pos' = i, NEW d, dirPath' = d, NEW e, entry' = e, NEW v, visited' = v,
         Decoding(archive, at, c, i, d, e), Visits(at, Behind(at, c, i), v)
  PROVE  PxarInv'
<1>1. PICK a \in Seq(Item) : a = archive
  BY DEF PxarInv
<1>2. Whole(a, at)' /\ Decoding(a, at, c, i, d, e)' /\ Visits(at, Behind(at, c, i), v)'
  <2>1. PICK m : m = Behind(at, c, i)
    OBVIOUS
  <2>2. Whole(a, at) /\ Decoding(a, at, c, i, d, e) /\ Visits(at, m, v)
    BY <1>1, <2>1
  <2>3. Whole(a, at)' /\ Decoding(a, at, c, i, d, e)' /\ Visits(at, m, v)'
    BY <2>2, EncodedStays, DecodingStays
  <2> QED
    BY <2>1, <2>3
<1>3. archive' = a /\ stack' = <<>> /\ n' = n
  BY <1>1 DEF PxarInv, DecodingWhole, encoder
<1>4. DecodingWhole'
  BY <1>2, <1>3 DEF DecodingWhole
<1>5. Input' /\ archive' \in Seq(Item)
  BY <1>3 DEF PxarInv, Input
<1>6. (n = Sizes(archive))'
  <2>1. n = Sizes(archive) /\ archive' = archive /\ n' = n
    BY <1>1, <1>3 DEF PxarInv
  <2> QED
    BY <2>1 DEF Sizes, Size
<1>7. pc' # "encode"
  BY DEF Decoding
<1> QED
  BY <1>4, <1>5, <1>6, <1>7 DEF PxarInv

(* Each step of the decoder.                                               *)
LEMMA DecodersOK ==
  ASSUME PxarInv,
         \/ DecodeVersion \/ DecodeEntry \/ DecodeXattr \/ DecodeDir
         \/ DecodeLeaf \/ DecodeName \/ DecodeGoodbye
  PROVE  PxarInv'
<1>1. pc # "encode" /\ tree' = tree /\ lines' = lines /\ UNCHANGED encoder
  BY DEF DecodeVersion, DecodeEntry, DecodeXattr, DecodeDir, DecodeLeaf, DecodeName, DecodeGoodbye, input
<1>2. Input /\ archive \in Seq(Item)
  BY DEF PxarInv
<1>3. PICK at : /\ Whole(archive, at) /\ Decoding(archive, at, pc, pos, dirPath, entry)
                /\ Visits(at, Behind(at, pc, pos), visited)
  BY <1>1 DEF PxarInv, DecodingWhole
<1>4. PICK a, i, d, e, v : /\ a \in Seq(Item) /\ a = archive
                           /\ i = pos /\ d = dirPath /\ e = entry /\ v = visited
  BY <1>2
<1> a \in Seq(Item)
  BY <1>4
<1>5. Whole(a, at) /\ Decoding(a, at, pc, i, d, e) /\ Visits(at, Behind(at, pc, i), v)
  BY <1>3, <1>4
<1> SUFFICES \E c, j, b, f, u : /\ pc' = c /\ pos' = j /\ dirPath' = b /\ entry' = f /\ visited' = u
                                /\ Decoding(a, at, c, j, b, f) /\ Visits(at, Behind(at, c, j), u)
  <2>1. ASSUME NEW c, NEW j, NEW b, NEW f, NEW u,
               pc' = c, pos' = j, dirPath' = b, entry' = f, visited' = u,
               Decoding(a, at, c, j, b, f), Visits(at, Behind(at, c, j), u)
        PROVE  PxarInv'
    BY <1>1, <1>3, <1>4, <2>1, DecodingOn
  <2> QED
    BY <2>1
<1>6. CASE DecodeVersion
  <2>1. pc' = "root" /\ pos' = i + 1 /\ dirPath' = d /\ entry' = e /\ visited' = v
    BY <1>4, <1>6 DEF DecodeVersion, Take
  <2>2. Decoding(a, at, "root", i + 1, d, e) /\ Visits(at, Behind(at, "root", i + 1), v)
    <3>1. pc = "version"
      BY <1>6 DEF DecodeVersion
    <3>2. Decoding(a, at, "version", i, d, e) /\ Visits(at, Behind(at, "version", i), v)
      BY <1>5, <3>1
    <3> QED
      BY <1>2, <1>5, <3>2, VersionDecoded
  <2> QED
    BY <2>1, <2>2
<1>7. CASE DecodeEntry
  <2>1. PICK f : f = [path |-> e.path, kind |-> a[i + 1].kind, xattrs |-> {}]
    OBVIOUS
  <2>2. pc' = "content" /\ pos' = i + 1 /\ dirPath' = d /\ entry' = f /\ visited' = v
    BY <1>4, <1>7, <2>1 DEF DecodeEntry, Take, NewEntry, NextItem
  <2>3. pc \in {"root", "child"}
    BY <1>7 DEF DecodeEntry
  <2>4. Decoding(a, at, "content", i + 1, d, f) /\ Visits(at, Behind(at, "content", i + 1), v)
    BY <1>2, <1>5, <2>1, <2>3, EntryDecoded
  <2> QED
    BY <2>2, <2>4
<1>8. CASE DecodeXattr
  <2>1. PICK f : f = [e EXCEPT !.xattrs = @ \union {a[i + 1].attr}]
    OBVIOUS
  <2>2. /\ pc' = "content" /\ pos' = i + 1 /\ dirPath' = d /\ entry' = f /\ visited' = v
        /\ a[i + 1].item = "xattr" /\ pc = "content"
    BY <1>4, <1>8, <2>1 DEF DecodeXattr, Take, NextItem
  <2>3. Decoding(a, at, "content", i, d, e) /\ Visits(at, Behind(at, "content", i), v)
    BY <1>5, <2>2
  <2>4. Decoding(a, at, "content", i + 1, d, f) /\ Visits(at, Behind(at, "content", i + 1), v)
    BY <1>2, <1>5, <2>1, <2>2, <2>3, XattrDecoded
  <2> QED
    BY <2>2, <2>4
<1>9. CASE DecodeDir
  <2>1. PICK u : u = Append(v, [path |-> e.path, kind |-> e.kind, xattrs |-> e.xattrs, size |-> 0])
    OBVIOUS
  <2>2. /\ pc' = "dir" /\ pos' = i /\ dirPath' = e.path /\ entry' = e /\ visited' = u
        /\ a[i + 1].item # "xattr" /\ pc = "content" /\ e.kind = "dir"
    BY <1>4, <1>9, <2>1 DEF DecodeDir, Visit, NextItem
  <2>3. Decoding(a, at, "content", i, d, e) /\ Visits(at, Behind(at, "content", i), v)
    BY <1>5, <2>2
  <2>4. Decoding(a, at, "dir", i, e.path, e) /\ Visits(at, Behind(at, "dir", i), u)
    BY <1>2, <1>5, <2>1, <2>2, <2>3, DirDecoded
  <2> QED
    BY <2>2, <2>4
<1>10. CASE DecodeLeaf
  <2>1. PICK u : u = Append(v, [path |-> e.path, kind |-> e.kind, xattrs |-> e.xattrs,
                                size |-> a[i + 1].size])
    OBVIOUS
  <2>2. /\ pc' = "dir" /\ pos' = i + 1 /\ dirPath' = d /\ entry' = e /\ visited' = u /\ pc = "content"
        /\ \/ e.kind = "link" /\ a[i + 1].item = "symlink"
           \/ e.kind = "file" /\ a[i + 1].item = "payload"
    BY <1>4, <1>10, <2>1 DEF DecodeLeaf, Visit, Take, NextItem
  <2>3. Decoding(a, at, "content", i, d, e) /\ Visits(at, Behind(at, "content", i), v)
    BY <1>5, <2>2
  <2>4. Decoding(a, at, "dir", i + 1, d, e) /\ Visits(at, Behind(at, "dir", i + 1), u)
    BY <1>2, <1>5, <2>1, <2>2, <2>3, LeafDecoded
  <2> QED
    BY <2>2, <2>4
<1>11. CASE DecodeName
  <2>1. PICK f : f = [e EXCEPT !.path = Append(d, a[i + 1].name)]
    OBVIOUS
  <2>2. /\ pc' = "child" /\ pos' = i + 1 /\ dirPath' = d /\ entry' = f /\ visited' = v
        /\ a[i + 1].item = "filename" /\ pc = "dir"
    BY <1>4, <1>11, <2>1 DEF DecodeName, Take, NextItem
  <2>3. Decoding(a, at, "dir", i, d, e) /\ Visits(at, Behind(at, "dir", i), v)
    BY <1>5, <2>2
  <2>4. Decoding(a, at, "child", i + 1, d, f) /\ Visits(at, Behind(at, "child", i + 1), v)
    BY <1>2, <1>5, <2>1, <2>2, <2>3, NameDecoded
  <2> QED
    BY <2>2, <2>4
<1>12. CASE DecodeGoodbye
  <2>1. /\ pos' = i + 1 /\ entry' = e /\ visited' = v /\ a[i + 1].item = "goodbye" /\ pc = "dir"
        /\ IF d = <<>> THEN pc' = "done" /\ dirPath' = d ELSE pc' = "dir" /\ dirPath' = Front(d)
    BY <1>4, <1>12 DEF DecodeGoodbye, Take, NextItem, ParentOf
  <2>2. Decoding(a, at, "dir", i, d, e) /\ Visits(at, Behind(at, "dir", i), v)
    BY <1>5, <2>1
  <2>3. /\ d = <<>> => /\ Decoding(a, at, "done", i + 1, d, e)
                       /\ Visits(at, Behind(at, "done", i + 1), v)
        /\ d # <<>> => /\ Decoding(a, at, "dir", i + 1, Front(d), e)
                       /\ Visits(at, Behind(at, "dir", i + 1), v)
    BY <1>2, <1>5, <2>1, <2>2, GoodbyeDecoded
  <2>4. CASE d = <<>>
    BY <2>1, <2>3, <2>4
  <2>5. CASE d # <<>>
    BY <2>1, <2>3, <2>5
  <2> QED
    BY <2>4, <2>5
<1> QED
  BY <1>6, <1>7, <1>8, <1>9, <1>10, <1>11, <1>12

(* No step.                                                                *)
LEMMA StutterOK ==
  ASSUME PxarInv, UNCHANGED vars
  PROVE  PxarInv'
<1>1. /\ tree' = tree /\ lines' = lines /\ pc' = pc /\ UNCHANGED encoder /\ UNCHANGED decoder
      /\ stack' = stack /\ archive' = archive /\ n' = n
      /\ pos' = pos /\ dirPath' = dirPath /\ entry' = entry /\ visited' = visited
  BY DEF vars, input, encoder, decoder
<1>2. CASE pc = "encode"
  <2>1. PICK at : Encoded(archive, at, stack)
    BY <1>2 DEF PxarInv, Encoding
  <2>2. archive \in Seq(Item) /\ n = Sizes(archive)
    BY DEF PxarInv
  <2>3. PICK a, s : a \in Seq(Item) /\ a = archive /\ s = stack
    BY <2>2
  <2> a \in Seq(Item)
    BY <2>3
  <2>4. Encoded(a, at, s) /\ archive' = a /\ stack' = s /\ n' = Sizes(a)
    BY <1>1, <2>1, <2>2, <2>3
  <2> QED
    BY <1>1, <1>2, <2>4, EncodingOn
<1>3. CASE pc # "encode"
  <2>1. PICK at : /\ Whole(archive, at) /\ Decoding(archive, at, pc, pos, dirPath, entry)
                  /\ Visits(at, Behind(at, pc, pos), visited)
    BY <1>3 DEF PxarInv, DecodingWhole
  <2>2. PICK c, i, d, e, v : c = pc /\ i = pos /\ d = dirPath /\ e = entry /\ v = visited
    OBVIOUS
  <2>3. /\ Decoding(archive, at, c, i, d, e) /\ Visits(at, Behind(at, c, i), v)
        /\ pc' = c /\ pos' = i /\ dirPath' = d /\ entry' = e /\ visited' = v
    BY <1>1, <2>1, <2>2
  <2> QED
    BY <1>1, <1>3, <2>1, <2>3, DecodingOn
<1> QED
  BY <1>2, <1>3

(* Every step keeps the invariant.                                         *)
LEMMA PxarInvInductive ==
  ASSUME PxarInv, [Next]_vars
  PROVE  PxarInv'
<1>1. CASE SkipChild
  BY <1>1, SkipChildOK
<1>2. CASE EncodeLeaf
  BY <1>2, EncodeLeafOK
<1>3. CASE EncodeDir
  BY <1>3, EncodeDirOK
<1>4. CASE EncodeGoodbye
  BY <1>4, EncodeGoodbyeOK
<1>5. CASE \/ DecodeVersion \/ DecodeEntry \/ DecodeXattr \/ DecodeDir
           \/ DecodeLeaf \/ DecodeName \/ DecodeGoodbye
  BY <1>5, DecodersOK
<1>6. CASE Over \/ UNCHANGED vars
  BY <1>6, StutterOK DEF Over
<1> QED
  BY <1>1, <1>2, <1>3, <1>4, <1>5, <1>6 DEF Next

(* What was visited for is in the archive.                                 *)
LEMMA BehindIn ==
  ASSUME Input, NEW a \in Seq(Item), NEW at, Whole(a, at), NEW c, NEW i, NEW d, NEW e,
         Decoding(a, at, c, i, d, e), NEW j \in 1 .. Behind(at, c, i)
  PROVE  j \in 1 .. Len(a)
<1>1. i \in 0 .. Len(a) /\ Len(a) \in Nat
  BY LenProperties DEF Decoding
<1>2. CASE c = "content"
  <2>1. at[i].k \in Nat
    BY <1>2, InContent
  <2> QED
    BY <1>1, <1>2, <2>1 DEF Behind
<1>3. CASE c # "content"
  BY <1>1, <1>3 DEF Behind
<1> QED
  BY <1>2, <1>3

(* The types follow from the invariant.                                    *)
LEMMA TypesFollow ==
  ASSUME PxarInv
  PROVE  TypeOK
<1>1. Input /\ archive \in Seq(Item) /\ n = Sizes(archive)
  BY DEF PxarInv
<1>2. tree \in Trees /\ lines \in Excludes
  BY <1>1 DEF Input
<1>3. <<>> \in DOMAIN tree /\ tree[<<>>].kind = "dir" /\ Len(archive) \in Nat
  BY <1>1, InputIs, LenProperties
<1>4. CASE pc = "encode"
  <2>1. Encoding
    BY <1>4 DEF PxarInv
  <2>2. PICK at : Encoded(archive, at, stack)
    BY <2>1 DEF Encoding
  <2>3. StackOK(stack) /\ Len(archive) >= 1
    BY <2>2 DEF Encoded, Labelled
  <2>4. \A i \in DOMAIN stack : stack[i].path \in DOMAIN tree
    <3> SUFFICES ASSUME NEW i \in DOMAIN stack PROVE stack[i].path \in DOMAIN tree
      OBVIOUS
    <3>1. i \in 1 .. Len(stack)
      BY <2>3, LenProperties DEF StackOK
    <3>2. FrameOK(stack[i])
      BY <2>3, <3>1 DEF StackOK
    <3> QED
      BY <1>1, <3>2, FrameIs
  <2>5. DOMAIN visited = {}
    <3>1. visited = <<>>
      BY <2>1 DEF Encoding
    <3> QED
      BY <3>1
  <2> QED
    BY <1>1, <1>2, <1>3, <1>4, <2>1, <2>3, <2>4, <2>5 DEF TypeOK, Encoding
<1>5. CASE pc # "encode"
  <2>1. stack = <<>>
    BY <1>5 DEF PxarInv, DecodingWhole
  <2>2. PICK at : /\ Whole(archive, at) /\ Decoding(archive, at, pc, pos, dirPath, entry)
                  /\ Visits(at, Behind(at, pc, pos), visited)
    BY <1>5 DEF PxarInv, DecodingWhole
  <2>3. /\ pc \in {"version", "root", "child", "content", "dir", "done"}
        /\ pos \in 0 .. Len(archive) /\ entry.path \in DOMAIN tree
        /\ dirPath \in DOMAIN tree /\ tree[dirPath].kind = "dir"
    BY <2>2 DEF Decoding
  <2>4. ASSUME pos = Len(archive) PROVE pc = "done"
    <3>1. Labelled(archive, at) /\ at[Len(archive)] = Close
      BY <2>2 DEF Whole
    <3>2. Len(archive) >= 1 /\ at[1].k = 1
      BY <3>1 DEF Labelled
    <3>3. at[pos].k = 0 /\ at[pos] = Close /\ pos # 0
      BY <1>3, <2>4, <3>1, <3>2 DEF Close
    <3>4. pc # "version" /\ pc # "root" /\ pc # "child" /\ pc # "dir"
      BY <2>2, <3>2, <3>3 DEF Decoding
    <3>5. pc # "content"
      BY <2>2, <3>3 DEF Decoding
    <3> QED
      BY <2>3, <3>4, <3>5
  <2>5. \A i \in DOMAIN visited : visited[i].path \in DOMAIN tree
    <3> SUFFICES ASSUME NEW x \in DOMAIN visited PROVE visited[x].path \in DOMAIN tree
      OBVIOUS
    <3>1. x \in 1 .. Len(visited)
      BY <2>2, LenProperties DEF Visits
    <3>2. PICK i \in 1 .. Behind(at, pc, pos) : at[i].path = visited[x].path
      BY <2>2, <3>1 DEF Visits
    <3>3. i \in 1 .. Len(archive)
      BY <1>1, <2>2, <3>2, BehindIn
    <3>4. Labelled(archive, at)
      BY <2>2 DEF Whole
    <3> QED
      BY <1>1, <3>2, <3>3, <3>4, ItemUnderLabel
  <2>6. \A i \in DOMAIN stack : stack[i].path \in DOMAIN tree
    BY <2>1
  <2> QED
    BY <1>1, <1>2, <1>5, <2>3, <2>4, <2>5, <2>6 DEF TypeOK
<1> QED
  BY <1>4, <1>5

(* For every tree and every list of lines, the encoder and the decoder     *)
(* are always at a path of the tree, the bytes that are counted are those  *)
(* of the items, and the decoder does not run off the end of the archive.  *)
THEOREM TypeCorrect == Spec => []TypeOK
<1>1. Init => PxarInv
  BY StartsOK
<1>2. PxarInv /\ [Next]_vars => PxarInv'
  BY PxarInvInductive
<1>3. PxarInv => TypeOK
  BY TypesFollow
<1> QED
  BY <1>1, <1>2, <1>3, PTL DEF Spec

(* When the decoder is done, all items are behind it.                      *)
LEMMA DecodedFollows ==
  ASSUME PxarInv
  PROVE  DecodesWhatWasThere
<1> SUFFICES ASSUME pc = "done" PROVE DecodesWhatWasThere
  BY DEF DecodesWhatWasThere
<1>1. Input /\ archive \in Seq(Item)
  BY DEF PxarInv
<1>2. PICK at : /\ Whole(archive, at) /\ Decoding(archive, at, pc, pos, dirPath, entry)
                /\ Visits(at, Behind(at, pc, pos), visited)
  BY DEF PxarInv, DecodingWhole
<1>3. PICK L \in Nat : L = Len(archive)
  BY <1>1, LenProperties
<1>4. Visits(at, L, visited)
  <2>1. pos = L
    BY <1>2, <1>3 DEF Decoding
  <2> QED
    BY <1>2, <2>1 DEF Behind
<1>5. /\ Labelled(archive, at) /\ ToBackUp \subseteq Written(archive, at)
  BY <1>2 DEF Whole
<1>6. \A i \in 1 .. L : at[i].path \in ToBackUp
  BY <1>1, <1>3, <1>5, ItemUnderLabel
<1>7. \A q : q \in Written(archive, at) <=> \E i \in 1 .. L : at[i].k = 1 /\ q = at[i].path
  BY <1>3 DEF Written
<1>8. DOMAIN visited = 1 .. Len(visited)
  BY <1>4, LenProperties DEF Visits
<1>9. {visited[x].path : x \in DOMAIN visited} = ToBackUp
  <2>1. ASSUME NEW x \in DOMAIN visited PROVE visited[x].path \in ToBackUp
    <3>1. PICK i \in 1 .. L : at[i].path = visited[x].path
      BY <1>4, <1>8 DEF Visits
    <3> QED
      BY <1>6, <3>1
  <2>2. ASSUME NEW q \in ToBackUp PROVE \E x \in DOMAIN visited : visited[x].path = q
    <3>1. PICK i \in 1 .. L : at[i].k = 1 /\ q = at[i].path
      BY <1>5, <1>7
    <3> QED
      BY <1>4, <1>8, <3>1 DEF Visits
  <2> QED
    BY <2>1, <2>2
<1>10. \A x \in DOMAIN visited :
         LET v == visited[x]
         IN /\ v.kind = tree[v.path].kind /\ v.xattrs = tree[v.path].xattrs
            /\ v.kind # "dir" => v.size = tree[v.path].size
  BY <1>4, <1>8 DEF Visits
<1>11. \A x, y \in DOMAIN visited : x < y => Before(visited[x].path, visited[y].path)
  BY <1>4, <1>8 DEF Visits
<1> QED
  BY <1>9, <1>10, <1>11 DEF DecodesWhatWasThere

(* Decoder.Walk gives back what Encoder.Encode was to take: each path      *)
(* that no line leaves out, once, a directory before what is in it, with   *)
(* its kind, its size and its extended attributes.                         *)
THEOREM RestoresWhatWasThere == Spec => []DecodesWhatWasThere
<1>1. Init => PxarInv
  BY StartsOK
<1>2. PxarInv /\ [Next]_vars => PxarInv'
  BY PxarInvInductive
<1>3. PxarInv => DecodesWhatWasThere
  BY DecodedFollows
<1> QED
  BY <1>1, <1>2, <1>3, PTL DEF Spec

-----------------------------------------------------------------------------
(* Sums of the first items, and where an item is.                          *)

(* The bytes of the first i items: where the item behind them begins.      *)
Offset(a, i) == Sizes(SubSeq(a, 1, i))

(* The first items.                                                        *)
LEMMA ItemsCut ==
  ASSUME NEW a \in Seq(Item), NEW k \in 0 .. Len(a)
  PROVE  /\ SubSeq(a, 1, k) \in Seq(Item) /\ Len(SubSeq(a, 1, k)) = k
         /\ \A i \in 1 .. k : SubSeq(a, 1, k)[i] = a[i]
<1>1. \A i \in 1 .. k : a[i] \in Item
  BY LenProperties, ElementOfSeq
<1>2. k \in Nat
  BY LenProperties
<1> QED
  BY <1>1, <1>2, SubSeqProperties

(* With one more of them.                                                  *)
LEMMA FirstItems ==
  ASSUME NEW a \in Seq(Item), NEW i \in 1 .. Len(a)
  PROVE  /\ SubSeq(a, 1, i - 1) \in Seq(Item) /\ SubSeq(a, 1, i) = Append(SubSeq(a, 1, i - 1), a[i])
         /\ a[i] \in Item
<1>1. PICK L \in Nat : L = Len(a)
  OBVIOUS
<1>2. i \in 1 .. L /\ i - 1 \in Nat /\ i \in Nat
  BY <1>1
<1>3. a[i] \in Item
  BY <1>1, <1>2
<1>4. i - 1 \in 0 .. Len(a) /\ i \in 0 .. Len(a)
  BY <1>1, <1>2
<1>5. PICK s \in Seq(Item) : /\ s = SubSeq(a, 1, i - 1) /\ Len(s) = i - 1
                            /\ \A j \in 1 .. i - 1 : s[j] = a[j]
  BY <1>4, ItemsCut
<1>6. PICK t \in Seq(Item) : /\ t = SubSeq(a, 1, i) /\ Len(t) = i
                            /\ \A j \in 1 .. i : t[j] = a[j]
  BY <1>4, ItemsCut
<1>7. /\ Append(s, a[i]) \in Seq(Item) /\ Len(Append(s, a[i])) = Len(s) + 1
      /\ Append(s, a[i])[Len(s) + 1] = a[i]
      /\ \A j \in 1 .. Len(s) : Append(s, a[i])[j] = s[j]
  BY <1>3, AppendProperties
<1>8. Len(Append(s, a[i])) = i /\ Append(s, a[i])[i] = a[i]
  BY <1>2, <1>5, <1>7
<1>9. ASSUME NEW j \in 1 .. i PROVE t[j] = Append(s, a[i])[j]
  <2>1. CASE j = i
    BY <1>2, <1>6, <1>8, <2>1
  <2>2. CASE j \in 1 .. i - 1
    BY <1>2, <1>5, <1>6, <1>7, <2>2
  <2>3. j = i \/ j \in 1 .. i - 1
    BY <1>2
  <2> QED
    BY <2>1, <2>2, <2>3, Zenon
<1>10. t = Append(s, a[i])
  BY <1>2, <1>6, <1>7, <1>8, <1>9, SeqEqual
<1> QED
  BY <1>3, <1>5, <1>6, <1>10

(* Offsets begin at nothing, and end at the size of the archive.           *)
LEMMA OffsetIs ==
  ASSUME NEW a \in Seq(Item)
  PROVE  /\ Offset(a, 0) = 0 /\ Offset(a, Len(a)) = Sizes(a)
         /\ \A i \in 0 .. Len(a) : Offset(a, i) \in Nat
         /\ \A i \in 1 .. Len(a) : Offset(a, i) = Offset(a, i - 1) + Size(a[i])
<1>1. PICK L \in Nat : L = Len(a)
  OBVIOUS
<1>2. SubSeq(a, 1, L) = a
  BY <1>1
<1>3. SubSeq(a, 1, 0) = <<>> /\ <<>> \in Seq(Item)
  BY <1>1
<1>4. Sizes(<<>>) = 0
  <2>1. Len(<<>>) = 0
    OBVIOUS
  <2>2. PICK f : Sums(<<>>, Len(<<>>), f)
    BY <1>3, SumsExist
  <2>3. Sizes(<<>>) = f[Len(<<>>)]
    BY <1>3, <2>2, SizesAre
  <2> QED
    BY <2>1, <2>2, <2>3 DEF Sums
<1>5. ASSUME NEW i \in 1 .. Len(a)
      PROVE  Offset(a, i) = Offset(a, i - 1) + Size(a[i])
  BY FirstItems, SizesAppend DEF Offset
<1>6. ASSUME NEW i \in 0 .. Len(a)
      PROVE  Offset(a, i) \in Nat
  <2>1. SubSeq(a, 1, i) \in Seq(Item)
    BY <1>1
  <2> QED
    BY <2>1, SizesConcat DEF Offset
<1> QED
  BY <1>1, <1>2, <1>3, <1>4, <1>5, <1>6 DEF Offset

(* They grow: no item is empty.                                            *)
LEMMA OffsetLess ==
  ASSUME NEW a \in Seq(Item), NEW i \in 0 .. Len(a), NEW j \in 0 .. Len(a), i < j
  PROVE  Offset(a, i) < Offset(a, j)
<1>1. PICK L \in Nat : L = Len(a)
  OBVIOUS
<1>2. \A k \in 0 .. L : Offset(a, k) \in Nat
  BY <1>1, OffsetIs
<1>3. ASSUME NEW k \in 1 .. L PROVE Offset(a, k - 1) < Offset(a, k)
  <2>1. a[k] \in Item /\ k \in 1 .. Len(a) /\ k - 1 \in 0 .. L /\ k \in 0 .. L
    BY <1>1
  <2>2. Size(a[k]) \in Nat \ {0}
    BY <2>1, SizeIs
  <2>3. Offset(a, k) = Offset(a, k - 1) + Size(a[k])
    BY <2>1, OffsetIs
  <2>4. Offset(a, k) \in Nat /\ Offset(a, k - 1) \in Nat
    BY <1>2, <2>1
  <2> QED
    BY <2>2, <2>3, <2>4
<1>4. SUFFICES ASSUME ~(Offset(a, i) < Offset(a, j)) PROVE FALSE
  OBVIOUS
<1> DEFINE S == {k \in i + 1 .. L : ~(Offset(a, i) < Offset(a, k))}
<1>5. i \in Nat /\ j \in Nat /\ j \in S /\ S \in SUBSET Nat
  BY <1>1, <1>4
<1>6. PICK k \in S : \A x \in S : k <= x
  <2> HIDE DEF S
  <2> QED
    BY <1>5, LeastExists
<1>7. k \in 1 .. L /\ k - 1 \in 0 .. L /\ i \in 0 .. L /\ k \in Nat
  BY <1>1, <1>5, <1>6
<1>8. /\ Offset(a, k - 1) < Offset(a, k)
      /\ Offset(a, k) \in Nat /\ Offset(a, k - 1) \in Nat /\ Offset(a, i) \in Nat
  BY <1>2, <1>3, <1>7
<1>9. k - 1 = i \/ k - 1 \in i + 1 .. L
  BY <1>1, <1>5, <1>6
<1>10. k - 1 # i
  BY <1>6, <1>8
<1>11. k - 1 \in S
  BY <1>5, <1>6, <1>8, <1>9, <1>10
<1>12. k <= k - 1
  BY <1>6, <1>11
<1> QED
  BY <1>7, <1>12

(* So no two are the same.                                                 *)
LEMMA OffsetOnce ==
  ASSUME NEW a \in Seq(Item), NEW i \in 0 .. Len(a), NEW j \in 0 .. Len(a),
         Offset(a, i) = Offset(a, j)
  PROVE  i = j
<1>1. i \in Nat /\ j \in Nat /\ Offset(a, i) \in Nat /\ Offset(a, j) \in Nat
  BY OffsetIs
<1>2. ~(i < j)
  <2>1. SUFFICES ASSUME i < j PROVE FALSE
    OBVIOUS
  <2>2. Offset(a, i) < Offset(a, j)
    BY <2>1, OffsetLess
  <2> QED
    BY <1>1, <2>2
<1>3. ~(j < i)
  <2>1. SUFFICES ASSUME j < i PROVE FALSE
    OBVIOUS
  <2>2. Offset(a, j) < Offset(a, i)
    BY <2>1, OffsetLess
  <2> QED
    BY <1>1, <2>2
<1> QED
  BY <1>1, <1>2, <1>3

(* An archive that has been written on.                                    *)
Continues(a, b) == Len(a) <= Len(b) /\ \A i \in 1 .. Len(a) : b[i] = a[i]

(* Both ways to write on.                                                  *)
LEMMA WrittenOn ==
  ASSUME NEW a \in Seq(Item), NEW s \in Seq(Item), NEW e \in Item
  PROVE  Continues(a, a \o s) /\ Continues(a, Append(a, e))
<1>1. Len(a) \in Nat /\ Len(s) \in Nat
  BY LenProperties
<1>2. Len(a \o s) = Len(a) + Len(s) /\ \A i \in 1 .. Len(a) : (a \o s)[i] = a[i]
  <2>1. Len(a \o s) = Len(a) + Len(s)
    BY ConcatProperties
  <2>2. ASSUME NEW i \in 1 .. Len(a) PROVE (a \o s)[i] = a[i]
    <3>1. i \in 1 .. Len(a) + Len(s) /\ i <= Len(a)
      BY <1>1
    <3> QED
      BY <3>1, ConcatProperties
  <2> QED
    BY <2>1, <2>2
<1>3. Len(Append(a, e)) = Len(a) + 1 /\ \A i \in 1 .. Len(a) : Append(a, e)[i] = a[i]
  BY AppendProperties
<1> QED
  BY <1>1, <1>2, <1>3 DEF Continues

(* What was written stays where it is.                                     *)
LEMMA OffsetStays ==
  ASSUME NEW a \in Seq(Item), NEW b \in Seq(Item), Continues(a, b), NEW i \in 0 .. Len(a)
  PROVE  Offset(b, i) = Offset(a, i)
<1>1. i \in 0 .. Len(b) /\ Len(a) \in Nat /\ i \in Nat
  BY LenProperties DEF Continues
<1>2. PICK s \in Seq(Item) : s = SubSeq(a, 1, i) /\ Len(s) = i /\ \A j \in 1 .. i : s[j] = a[j]
  BY ItemsCut
<1>3. PICK t \in Seq(Item) : t = SubSeq(b, 1, i) /\ Len(t) = i /\ \A j \in 1 .. i : t[j] = b[j]
  BY <1>1, ItemsCut
<1>4. ASSUME NEW j \in 1 .. i PROVE s[j] = t[j]
  BY <1>1, <1>2, <1>3 DEF Continues
<1>5. s = t
  BY <1>2, <1>3, <1>4, SeqEqual
<1> QED
  BY <1>2, <1>3, <1>5 DEF Offset

(* An item is found by its offset.                                         *)
LEMMA StartIs ==
  ASSUME archive \in Seq(Item), NEW i \in 1 .. Len(archive)
  PROVE  Start(i) = Offset(archive, i - 1) /\ ItemAt(Start(i)) = i
<1>1. DOMAIN archive = 1 .. Len(archive) /\ Len(archive) \in Nat
  BY LenProperties
<1>2. \A j : Start(j) = Offset(archive, j - 1)
  BY DEF Start, Offset
<1>3. ASSUME NEW j \in DOMAIN archive, Start(j) = Start(i) PROVE j = i
  <2>1. j - 1 \in 0 .. Len(archive) /\ i - 1 \in 0 .. Len(archive) /\ j \in Nat /\ i \in Nat
    BY <1>1
  <2>2. Offset(archive, j - 1) = Offset(archive, i - 1)
    BY <1>2, <1>3
  <2>3. j - 1 = i - 1
    BY <2>1, <2>2, OffsetOnce
  <2> QED
    BY <2>1, <2>3
<1>4. i \in DOMAIN archive /\ Start(i) = Start(i)
  BY <1>1
<1> QED
  BY <1>2, <1>3, <1>4 DEF ItemAt

-----------------------------------------------------------------------------
(* The children of a directory, one behind the other.                      *)

(* Numbers each of which is less than the next.                            *)
LEMMA StepsUp ==
  ASSUME NEW m \in Nat, NEW q, \A i \in 1 .. m + 1 : q[i] \in Nat,
         \A i \in 1 .. m : q[i] < q[i + 1],
         NEW i \in 1 .. m + 1, NEW j \in 1 .. m + 1, i < j
  PROVE  q[i] < q[j]
<1>1. SUFFICES ASSUME ~(q[i] < q[j]) PROVE FALSE
  OBVIOUS
<1> DEFINE S == {k \in i + 1 .. m + 1 : ~(q[i] < q[k])}
<1>2. j \in S /\ S \in SUBSET Nat
  BY <1>1
<1>3. PICK k \in S : \A x \in S : k <= x
  <2> HIDE DEF S
  <2> QED
    BY <1>2, LeastExists
<1>4. k - 1 \in 1 .. m /\ k \in 1 .. m + 1 /\ (k - 1) + 1 = k /\ k - 1 \in 1 .. m + 1
  BY <1>2, <1>3
<1>5. q[k - 1] < q[(k - 1) + 1]
  BY <1>4
<1>6. q[k - 1] < q[k] /\ q[k] \in Nat /\ q[k - 1] \in Nat /\ q[i] \in Nat
  BY <1>4, <1>5
<1>7. k - 1 = i \/ k - 1 \in i + 1 .. m + 1
  BY <1>3
<1>8. k - 1 # i
  BY <1>3, <1>6
<1>9. k - 1 \in S
  BY <1>3, <1>6, <1>7, <1>8
<1> QED
  BY <1>3, <1>4, <1>9

(* The items of a directory, from its ENTRY, the h-th item of all, to the  *)
(* e-th, which is not one of them: attributes, then the children, of which *)
(* the i-th begins with a FILENAME at q[i].                                *)
Cuts(a, h, q, m, e) ==
  /\ h \in 1 .. Len(a) /\ a[h].item = "entry" /\ a[h].kind = "dir"
  /\ m \in Nat /\ q \in [1 .. m + 1 -> h + 1 .. Len(a) + 1] /\ q[m + 1] = e
  /\ \A i \in 1 .. m : q[i] < q[i + 1] /\ a[q[i]].item = "filename"
  /\ \A i \in h + 1 .. q[1] - 1 : a[i].item = "xattr"
RowOf(a, q, i) == Row(a[q[i]].name, Offset(a, q[i] - 1), Offset(a, q[i + 1] - 1))

(* The items such a cut is at.                                             *)
LEMMA CutsAre ==
  ASSUME NEW a \in Seq(Item), NEW h, NEW q, NEW m, NEW e, Cuts(a, h, q, m, e)
  PROVE  /\ h \in Nat /\ h \in 1 .. Len(a) /\ h - 1 \in 0 .. Len(a)
         /\ m \in Nat /\ \A i \in 1 .. m + 1 : /\ q[i] \in h + 1 .. Len(a) + 1 /\ q[i] \in Nat
                                               /\ q[i] - 1 \in 0 .. Len(a)
         /\ \A i \in 1 .. m : q[i] \in 1 .. Len(a) /\ i + 1 \in 1 .. m + 1 /\ i \in 1 .. m + 1
         /\ \A i, j \in 1 .. m + 1 : i < j => q[i] < q[j]
         /\ e \in h + 1 .. Len(a) + 1 /\ e \in Nat /\ e - 1 \in 0 .. Len(a)
<1>1. Len(a) \in Nat
  BY LenProperties
<1>2. h \in 1 .. Len(a) /\ m \in Nat /\ \A i \in 1 .. m + 1 : q[i] \in h + 1 .. Len(a) + 1
  BY DEF Cuts
<1>3. h \in Nat /\ h - 1 \in 0 .. Len(a)
  BY <1>1, <1>2
<1>4. ASSUME NEW i \in 1 .. m + 1
      PROVE  q[i] \in h + 1 .. Len(a) + 1 /\ q[i] \in Nat /\ q[i] - 1 \in 0 .. Len(a)
  <2>1. q[i] \in h + 1 .. Len(a) + 1
    BY <1>2
  <2> QED
    BY <1>1, <1>3, <2>1
<1>5. ASSUME NEW i \in 1 .. m
      PROVE  q[i] \in 1 .. Len(a) /\ i + 1 \in 1 .. m + 1 /\ i \in 1 .. m + 1
  <2>1. i + 1 \in 1 .. m + 1 /\ i \in 1 .. m + 1
    BY <1>2
  <2>2. q[i] < q[i + 1]
    BY DEF Cuts
  <2>3. q[i] \in h + 1 .. Len(a) + 1 /\ q[i + 1] \in h + 1 .. Len(a) + 1
    BY <1>4, <2>1
  <2> QED
    BY <1>1, <1>3, <2>1, <2>2, <2>3
<1>6. ASSUME NEW i \in 1 .. m + 1, NEW j \in 1 .. m + 1, i < j PROVE q[i] < q[j]
  <2>1. (\A k \in 1 .. m + 1 : q[k] \in Nat) /\ \A k \in 1 .. m : q[k] < q[k + 1]
    BY <1>4 DEF Cuts
  <2> QED
    BY <1>2, <1>6, <2>1, StepsUp
<1>7. m + 1 \in 1 .. m + 1 /\ q[m + 1] = e
  BY <1>2 DEF Cuts
<1> QED
  BY <1>2, <1>3, <1>4, <1>5, <1>6, <1>7

(* It stays one.                                                           *)
LEMMA CutsStay ==
  ASSUME NEW a \in Seq(Item), NEW h, NEW q, NEW m, NEW e, Cuts(a, h, q, m, e),
         NEW b \in Seq(Item), Continues(a, b)
  PROVE  /\ Cuts(b, h, q, m, e)
         /\ \A i \in 1 .. m : RowOf(b, q, i) = RowOf(a, q, i)
         /\ Offset(b, h - 1) = Offset(a, h - 1) /\ Offset(b, e - 1) = Offset(a, e - 1)
<1>1. Len(a) \in Nat /\ Len(b) \in Nat /\ Len(a) <= Len(b) /\ \A i \in 1 .. Len(a) : b[i] = a[i]
  BY LenProperties DEF Continues
<1>2. /\ h \in Nat /\ h \in 1 .. Len(a) /\ h - 1 \in 0 .. Len(a)
      /\ m \in Nat /\ e - 1 \in 0 .. Len(a)
  BY CutsAre
<1>3. \A i \in 1 .. m + 1 : /\ q[i] \in h + 1 .. Len(a) + 1 /\ q[i] \in Nat /\ q[i] - 1 \in 0 .. Len(a)
                            /\ Offset(b, q[i] - 1) = Offset(a, q[i] - 1)
  BY CutsAre, OffsetStays
<1>4. \A i \in 1 .. m : q[i] \in 1 .. Len(a) /\ i + 1 \in 1 .. m + 1 /\ i \in 1 .. m + 1
  BY CutsAre
<1>5. Offset(b, h - 1) = Offset(a, h - 1) /\ Offset(b, e - 1) = Offset(a, e - 1)
  BY <1>2, OffsetStays
<1>6. ASSUME NEW i \in 1 .. m PROVE RowOf(b, q, i) = RowOf(a, q, i)
  BY <1>1, <1>3, <1>4 DEF RowOf
<1>7. Cuts(b, h, q, m, e)
  <2>1. h \in 1 .. Len(b) /\ b[h].item = "entry" /\ b[h].kind = "dir"
    BY <1>1, <1>2 DEF Cuts
  <2>2. q \in [1 .. m + 1 -> h + 1 .. Len(b) + 1] /\ q[m + 1] = e
    <3>1. h + 1 .. Len(a) + 1 \subseteq h + 1 .. Len(b) + 1
      BY <1>1, <1>2
    <3>2. q \in [1 .. m + 1 -> h + 1 .. Len(a) + 1] /\ q[m + 1] = e
      BY DEF Cuts
    <3> QED
      BY <3>1, <3>2
  <2>3. ASSUME NEW i \in 1 .. m PROVE q[i] < q[i + 1] /\ b[q[i]].item = "filename"
    BY <1>1, <1>4 DEF Cuts
  <2>4. ASSUME NEW i \in h + 1 .. q[1] - 1 PROVE b[i].item = "xattr"
    <3>1. 1 \in 1 .. m + 1
      BY <1>2
    <3>2. i \in 1 .. Len(a)
      BY <1>1, <1>2, <1>3, <3>1
    <3>3. a[i].item = "xattr"
      BY DEF Cuts
    <3> QED
      BY <1>1, <3>2, <3>3
  <2> QED
    BY <1>2, <2>1, <2>2, <2>3, <2>4 DEF Cuts
<1> QED
  BY <1>5, <1>6, <1>7

(* Each byte of the children is one of a child.                            *)
LEMMA SpanOf ==
  ASSUME NEW a \in Seq(Item), NEW h, NEW q, NEW m, NEW e, Cuts(a, h, q, m, e),
         NEW x \in Nat, Offset(a, q[1] - 1) <= x, x < Offset(a, e - 1)
  PROVE  \E k \in 1 .. m : Offset(a, q[k] - 1) <= x /\ x < Offset(a, q[k + 1] - 1)
<1> DEFINE S == {k \in 1 .. m + 1 : x < Offset(a, q[k] - 1)}
<1>1. m \in Nat /\ \A i \in 1 .. m + 1 : Offset(a, q[i] - 1) \in Nat
  BY CutsAre, OffsetIs
<1>2. q[m + 1] = e
  BY DEF Cuts
<1>3. m + 1 \in S /\ S \in SUBSET Nat
  BY <1>1, <1>2
<1>4. PICK k \in S : \A y \in S : k <= y
  <2> HIDE DEF S
  <2> QED
    BY <1>3, LeastExists
<1>5. k \in 1 .. m + 1 /\ x < Offset(a, q[k] - 1) /\ k \in Nat
  BY <1>1, <1>4
<1>6. k # 1
  <2>1. SUFFICES ASSUME k = 1 PROVE FALSE
    OBVIOUS
  <2>2. 1 \in 1 .. m + 1
    BY <1>1
  <2> QED
    BY <1>1, <1>5, <2>1, <2>2
<1>7. k - 1 \in 1 .. m /\ k - 1 \in 1 .. m + 1 /\ (k - 1) + 1 = k /\ k - 1 \notin S
  BY <1>1, <1>4, <1>5, <1>6
<1>8. ~(x < Offset(a, q[k - 1] - 1)) /\ Offset(a, q[k - 1] - 1) \in Nat
  BY <1>1, <1>7
<1>9. PICK j \in 1 .. m : j = k - 1 /\ j + 1 = k
  BY <1>7
<1>10. Offset(a, q[j] - 1) <= x /\ x < Offset(a, q[j + 1] - 1)
  BY <1>5, <1>8, <1>9
<1> QED
  BY <1>10

(* And of one only.                                                        *)
LEMMA SpansApart ==
  ASSUME NEW a \in Seq(Item), NEW h, NEW q, NEW m, NEW e, Cuts(a, h, q, m, e),
         NEW i \in 1 .. m + 1, NEW j \in 1 .. m + 1, i < j
  PROVE  /\ Offset(a, q[i] - 1) < Offset(a, q[j] - 1)
         /\ Offset(a, q[i] - 1) \in Nat /\ Offset(a, q[j] - 1) \in Nat
         /\ i + 1 \in 1 .. m + 1 /\ Offset(a, q[i + 1] - 1) <= Offset(a, q[j] - 1)
<1>1. m \in Nat /\ \A k \in 1 .. m + 1 : q[k] \in Nat /\ q[k] - 1 \in 0 .. Len(a)
  BY CutsAre
<1>2. \A k \in 1 .. m + 1 : Offset(a, q[k] - 1) \in Nat
  BY <1>1, OffsetIs
<1>3. ASSUME NEW k \in 1 .. m + 1, NEW l \in 1 .. m + 1, k < l
      PROVE  Offset(a, q[k] - 1) < Offset(a, q[l] - 1)
  <2>1. q[k] < q[l]
    BY <1>3, CutsAre
  <2>2. q[k] - 1 < q[l] - 1 /\ q[k] - 1 \in 0 .. Len(a) /\ q[l] - 1 \in 0 .. Len(a)
    BY <1>1, <2>1
  <2> QED
    BY <2>2, OffsetLess
<1>4. i + 1 \in 1 .. m + 1 /\ (i + 1 = j \/ i + 1 < j)
  BY <1>1
<1>5. i + 1 < j => Offset(a, q[i + 1] - 1) < Offset(a, q[j] - 1)
  BY <1>3, <1>4
<1>6. Offset(a, q[i + 1] - 1) \in Nat /\ Offset(a, q[j] - 1) \in Nat /\ Offset(a, q[i] - 1) \in Nat
  BY <1>2, <1>4
<1>7. Offset(a, q[i + 1] - 1) <= Offset(a, q[j] - 1)
  BY <1>4, <1>5, <1>6
<1>8. Offset(a, q[i] - 1) < Offset(a, q[j] - 1)
  BY <1>3
<1> QED
  BY <1>4, <1>6, <1>7, <1>8

-----------------------------------------------------------------------------
(* The rows of a directory that is being written.                          *)

(* The rows of a directory that is being written: those of the children    *)
(* up to the one that begins, or will begin, at the offset stop.           *)
TabledBy(a, f, stop, h, q, e) ==
  /\ Cuts(a, h, q, Len(f.rows), e)
  /\ Offset(a, h - 1) = f.start /\ Offset(a, e - 1) = stop
  /\ \A i \in 1 .. Len(f.rows) : f.rows[i] = RowOf(a, q, i)
  /\ f.path # <<>> => h - 1 \in 1 .. Len(a) /\ a[h - 1] = Filename(Last(f.path))
Tabled(a, f, stop) == \E h, q, e : TabledBy(a, f, stop, h, q, e)

(* When more is written.                                                   *)
LEMMA TabledStays ==
  ASSUME NEW a \in Seq(Item), NEW f, NEW stop, Tabled(a, f, stop),
         NEW b \in Seq(Item), Continues(a, b)
  PROVE  Tabled(b, f, stop)
<1>1. PICK h, q, e : TabledBy(a, f, stop, h, q, e)
  BY DEF Tabled
<1>2. PICK m : m = Len(f.rows)
  OBVIOUS
<1>3. Cuts(a, h, q, m, e)
  BY <1>1, <1>2 DEF TabledBy
<1>4. /\ Cuts(b, h, q, m, e)
      /\ \A i \in 1 .. m : RowOf(b, q, i) = RowOf(a, q, i)
      /\ Offset(b, h - 1) = Offset(a, h - 1) /\ Offset(b, e - 1) = Offset(a, e - 1)
  BY <1>3, CutsStay
<1>5. h - 1 \in 1 .. Len(a) => h - 1 \in 1 .. Len(b) /\ b[h - 1] = a[h - 1]
  BY LenProperties DEF Continues
<1>6. TabledBy(b, f, stop, h, q, e)
  BY <1>1, <1>2, <1>4, <1>5 DEF TabledBy
<1> QED
  BY <1>6 DEF Tabled

(* When only the names that are left change.                               *)
LEMMA TabledAlike ==
  ASSUME NEW a, NEW f, NEW stop, Tabled(a, f, stop),
         NEW g, g.path = f.path, g.start = f.start, g.rows = f.rows
  PROVE  Tabled(a, g, stop)
<1>1. PICK h, q, e : TabledBy(a, f, stop, h, q, e)
  BY DEF Tabled
<1>2. TabledBy(a, g, stop, h, q, e)
  BY <1>1 DEF TabledBy
<1> QED
  BY <1>2 DEF Tabled

(* A child has been written: from its FILENAME, at stop, to the end.       *)
LEMMA RowAdded ==
  ASSUME NEW a \in Seq(Item), NEW f \in FrameType, NEW stop, Tabled(a, f, stop),
         NEW e \in 1 .. Len(a), Offset(a, e - 1) = stop, NEW name \in Names, a[e] = Filename(name),
         NEW g \in FrameType, g.path = f.path, g.start = f.start,
         g.rows = Append(f.rows, Row(name, stop, Sizes(a)))
  PROVE  Tabled(a, g, Sizes(a))
<1>1. PICK h, q, d : TabledBy(a, f, stop, h, q, d)
  BY DEF Tabled
<1>2. PICK m : m = Len(f.rows)
  OBVIOUS
<1>3. Cuts(a, h, q, m, d)
  BY <1>1, <1>2 DEF TabledBy
<1>4. /\ h \in Nat /\ h \in 1 .. Len(a) /\ h - 1 \in 0 .. Len(a)
      /\ m \in Nat /\ d \in h + 1 .. Len(a) + 1 /\ d \in Nat /\ d - 1 \in 0 .. Len(a)
  BY <1>3, CutsAre
<1>5. PICK L \in Nat : L = Len(a)
  BY LenProperties
<1>6. d = e
  <2>1. e - 1 \in 0 .. Len(a) /\ e \in Nat
    BY <1>5
  <2>2. Offset(a, d - 1) = Offset(a, e - 1)
    BY <1>1 DEF TabledBy
  <2>3. d - 1 = e - 1
    BY <1>4, <2>1, <2>2, OffsetOnce
  <2> QED
    BY <1>4, <2>1, <2>3
<1>7. PICK r : r = [i \in 1 .. m + 2 |-> IF i <= m + 1 THEN q[i] ELSE L + 1]
  OBVIOUS
<1>8. r[m + 2] = L + 1 /\ \A i \in 1 .. m + 1 : r[i] = q[i] /\ r[i] \in h + 1 .. L + 1 /\ r[i] \in Nat
  <2>1. m + 2 \in 1 .. m + 2 /\ ~(m + 2 <= m + 1)
    BY <1>4
  <2>2. ASSUME NEW i \in 1 .. m + 1 PROVE r[i] = q[i] /\ r[i] \in h + 1 .. L + 1 /\ r[i] \in Nat
    <3>1. i \in 1 .. m + 2 /\ i <= m + 1
      BY <1>4
    <3>2. q[i] \in h + 1 .. L + 1 /\ q[i] \in Nat
      BY <1>3, <1>5, CutsAre
    <3> QED
      BY <1>7, <3>1, <3>2
  <2> QED
    BY <1>7, <2>1, <2>2
<1>9. r[m + 1] = e /\ q[m + 1] = e
  <2>1. m + 1 \in 1 .. m + 1
    BY <1>4
  <2> QED
    BY <1>3, <1>6, <1>8, <2>1 DEF Cuts
<1>10. f.rows \in Seq(TableRow) /\ g.rows \in Seq(TableRow)
  BY DEF FrameType
<1>11. /\ Len(g.rows) = m + 1 /\ g.rows[m + 1] = Row(name, stop, Sizes(a))
       /\ \A i \in 1 .. m : g.rows[i] = f.rows[i]
  BY <1>2, <1>10
<1>12. Cuts(a, h, r, m + 1, L + 1)
  <2>1. h \in 1 .. Len(a) /\ a[h].item = "entry" /\ a[h].kind = "dir" /\ m + 1 \in Nat
    BY <1>3, <1>4 DEF Cuts
  <2>2. r \in [1 .. (m + 1) + 1 -> h + 1 .. Len(a) + 1]
    <3>1. (m + 1) + 1 = m + 2 /\ L + 1 \in h + 1 .. L + 1
      BY <1>4, <1>5
    <3>2. \A i \in 1 .. m + 2 : (IF i <= m + 1 THEN q[i] ELSE L + 1) \in h + 1 .. L + 1
      <4>1. ASSUME NEW i \in 1 .. m + 2 PROVE (IF i <= m + 1 THEN q[i] ELSE L + 1) \in h + 1 .. L + 1
        <5>1. i <= m + 1 => i \in 1 .. m + 1
          BY <1>4
        <5> QED
          BY <1>8, <3>1, <5>1
      <4> QED
        BY <4>1
    <3> QED
      BY <1>5, <1>7, <3>1, <3>2
  <2>3. r[(m + 1) + 1] = L + 1
    BY <1>4, <1>8
  <2>4. ASSUME NEW i \in 1 .. m + 1 PROVE r[i] < r[i + 1] /\ a[r[i]].item = "filename"
    <3>1. CASE i = m + 1
      BY <1>4, <1>5, <1>8, <1>9, <3>1 DEF Filename
    <3>2. CASE i \in 1 .. m
      <4>1. i \in 1 .. m + 1 /\ i + 1 \in 1 .. m + 1
        BY <1>4, <3>2
      <4>2. q[i] < q[i + 1] /\ a[q[i]].item = "filename"
        BY <1>3, <3>2 DEF Cuts
      <4> QED
        BY <1>8, <4>1, <4>2
    <3>3. i = m + 1 \/ i \in 1 .. m
      BY <1>4
    <3> QED
      BY <3>1, <3>2, <3>3, Zenon
  <2>5. ASSUME NEW i \in h + 1 .. r[1] - 1 PROVE a[i].item = "xattr"
    <3>1. 1 \in 1 .. m + 1
      BY <1>4
    <3>2. r[1] = q[1]
      BY <1>8, <3>1
    <3> QED
      BY <1>3, <3>2 DEF Cuts
  <2> QED
    BY <2>1, <2>2, <2>3, <2>4, <2>5 DEF Cuts
<1>13. ASSUME NEW i \in 1 .. m + 1 PROVE g.rows[i] = RowOf(a, r, i)
  <2>1. CASE i = m + 1
    <3>1. r[i] = e /\ r[i + 1] = L + 1 /\ (L + 1) - 1 = L
      BY <1>4, <1>5, <1>8, <1>9, <2>1
    <3>2. Offset(a, L) = Sizes(a)
      BY <1>5, OffsetIs
    <3>3. a[e].name = name
      BY DEF Filename
    <3>4. RowOf(a, r, i) = Row(name, stop, Sizes(a))
      BY <3>1, <3>2, <3>3 DEF RowOf
    <3> QED
      BY <1>11, <2>1, <3>4
  <2>2. CASE i \in 1 .. m
    <3>1. i \in 1 .. m + 1 /\ i + 1 \in 1 .. m + 1
      BY <1>4, <2>2
    <3>2. f.rows[i] = RowOf(a, q, i)
      BY <1>1, <1>2, <2>2 DEF TabledBy
    <3>3. r[i] = q[i] /\ r[i + 1] = q[i + 1]
      BY <1>8, <3>1
    <3> QED
      BY <1>11, <2>2, <3>2, <3>3 DEF RowOf
  <2>3. i = m + 1 \/ i \in 1 .. m
    BY <1>4
  <2> QED
    BY <2>1, <2>2, <2>3, Zenon
<1>14. Offset(a, (L + 1) - 1) = Sizes(a)
  BY <1>5, OffsetIs
<1>15. TabledBy(a, g, Sizes(a), h, r, L + 1)
  BY <1>1, <1>11, <1>12, <1>13, <1>14 DEF TabledBy
<1> QED
  BY <1>15 DEF Tabled

-----------------------------------------------------------------------------
(* How a directory begins.                                                 *)

(* A directory has its ENTRY and its attributes, and no rows.              *)
LEMMA TabledBegins ==
  ASSUME Input, NEW a \in Seq(Item), NEW p \in DOMAIN tree, tree[p].kind = "dir",
         NEW b, b = a \o Block(p),
         NEW f \in FrameType, f.path = p, f.rows = <<>>, f.start = Sizes(a) + Size(Opening(p))
  PROVE  b \in Seq(Item) /\ Tabled(b, f, Sizes(b))
<1>1. PICK s \in Seq(Item) : s = Block(p)
  BY BlockIs
<1>2. PICK M \in Nat : M = Meta(p) /\ M >= 2
  BY BlockIs
<1>3. /\ Len(s) = M /\ s[1] = Opening(p) /\ s[2] = Entry(tree[p])
      /\ \A j \in 3 .. M : s[j] = Xattr(InOrder(tree[p].xattrs)[j - 2])
  BY <1>1, <1>2, BlockIs
<1>4. PICK L \in Nat : L = Len(a)
  BY LenProperties
<1>5. b \in Seq(Item) /\ Len(b) = L + M /\ \A j \in 1 .. M : b[L + j] = s[j]
  <2>1. b \in Seq(Item) /\ Len(b) = L + M
    BY <1>1, <1>3, <1>4, ConcatProperties
  <2>2. ASSUME NEW j \in 1 .. M PROVE b[L + j] = s[j]
    <3>1. L + j \in 1 .. Len(a) + Len(s) /\ ~(L + j <= Len(a)) /\ (L + j) - Len(a) = j
      BY <1>3, <1>4
    <3>2. (a \o s)[L + j] = s[(L + j) - Len(a)]
      BY <3>1, ConcatProperties
    <3> QED
      BY <1>1, <3>1, <3>2
  <2> QED
    BY <2>1, <2>2
<1>6. Continues(a, b) /\ L \in 0 .. Len(a) /\ L \in 0 .. Len(b)
  <2>1. \A e \in Item : Continues(a, a \o s) /\ Continues(a, Append(a, e))
    BY WrittenOn
  <2>2. s[1] \in Item
    BY <1>2, <1>3, ElementOfSeq
  <2> QED
    BY <1>1, <1>4, <1>5, <2>1, <2>2
<1>7. b[L + 1] = Opening(p) /\ b[L + 2] = Entry(tree[p])
  BY <1>2, <1>3, <1>5
<1>8. Offset(b, L) = Sizes(a)
  <2>1. Offset(a, L) = Sizes(a)
    BY <1>4, OffsetIs
  <2> QED
    BY <1>5, <1>6, <2>1, OffsetStays
<1>9. Offset(b, L + 1) = f.start
  <2>1. L + 1 \in 1 .. Len(b) /\ (L + 1) - 1 = L
    BY <1>2, <1>5
  <2>2. Offset(b, L + 1) = Offset(b, (L + 1) - 1) + Size(b[L + 1])
    BY <1>5, <2>1, OffsetIs
  <2> QED
    BY <1>7, <1>8, <2>1, <2>2
<1>10. PICK h \in Nat : h = L + 2 /\ h - 1 = L + 1
  BY <1>4
<1>11. PICK e \in Nat : e = L + M + 1 /\ e - 1 = Len(b)
  BY <1>5
<1>12. PICK q : q = [i \in 1 .. 1 |-> e]
  OBVIOUS
<1>13. Len(f.rows) = 0 /\ q[1] = e
  BY <1>12
<1>14. Cuts(b, h, q, 0, e)
  <2>1. h \in 1 .. Len(b) /\ b[h].item = "entry" /\ b[h].kind = "dir"
    BY <1>2, <1>5, <1>7, <1>10 DEF Entry
  <2>2. q \in [1 .. 0 + 1 -> h + 1 .. Len(b) + 1] /\ q[0 + 1] = e
    <3>1. e \in h + 1 .. Len(b) + 1 /\ 0 + 1 = 1
      BY <1>2, <1>5, <1>10, <1>11
    <3> QED
      BY <1>12, <3>1
  <2>3. ASSUME NEW i \in h + 1 .. q[1] - 1 PROVE b[i].item = "xattr"
    <3>1. i - L \in 3 .. M /\ i - L \in 1 .. M /\ L + (i - L) = i
      <4>1. i \in (L + 2) + 1 .. (L + M + 1) - 1
        BY <1>10, <1>11, <1>13
      <4> QED
        BY ONLY L \in Nat, M \in Nat, <4>1
    <3>2. b[i] = s[i - L]
      BY <1>5, <3>1
    <3>3. PICK j \in 3 .. M : j = i - L
      BY <3>1
    <3>4. PICK x : s[j] = Xattr(x)
      BY <1>3
    <3> QED
      BY <3>2, <3>3, <3>4 DEF Xattr
  <2> QED
    BY <2>1, <2>2, <2>3 DEF Cuts
<1>15. Offset(b, h - 1) = f.start /\ Offset(b, e - 1) = Sizes(b)
  BY <1>5, <1>9, <1>10, <1>11, OffsetIs
<1>16. f.path # <<>> => h - 1 \in 1 .. Len(b) /\ b[h - 1] = Filename(Last(f.path))
  BY <1>2, <1>5, <1>7, <1>10 DEF Opening
<1>17. TabledBy(b, f, Sizes(b), h, q, e)
  BY <1>13, <1>14, <1>15, <1>16 DEF TabledBy
<1> QED
  BY <1>5, <1>17 DEF Tabled

-----------------------------------------------------------------------------
(* What a GOODBYE has, and keeps.                                          *)

(* No row gets lost or doubled when they are sorted: the rows are as many  *)
(* as before.                                                              *)
LEMMA HashedOnce ==
  ASSUME NEW rows \in Seq(TableRow), NEW m \in Nat, m = Len(rows),
         \A i, j \in 1 .. m : i < j => rows[i] # rows[j]
  PROVE  \A i, j \in 1 .. m : i < j => ByHash(rows)[i] # ByHash(rows)[j]
<1>1. PICK s \in Seq(TableRow) : s = ByHash(rows) /\ Len(s) = m /\ Range(s) = Range(rows)
  BY ByHashIs
<1>2. PICK T : T = Range(rows)
  OBVIOUS
<1>3. DOMAIN rows = 1 .. m /\ DOMAIN s = 1 .. m /\ rows \in [1 .. m -> TableRow] /\ s \in [1 .. m -> TableRow]
  BY <1>1
<1>4. (\A t \in T : \E i \in 1 .. m : rows[i] = t) /\ (\A i \in 1 .. m : rows[i] \in T)
  BY <1>2, <1>3 DEF Range
<1>5. (\A t \in T : \E i \in 1 .. m : s[i] = t) /\ (\A i \in 1 .. m : s[i] \in T)
  BY <1>1, <1>2, <1>3 DEF Range
<1>6. rows \in [1 .. m -> T] /\ s \in [1 .. m -> T]
  BY <1>3, <1>4, <1>5
<1>7. IsFiniteSet(1 .. m)
  BY FS_Interval
<1>8. rows \in Surjection(1 .. m, T) /\ s \in Surjection(1 .. m, T)
  BY <1>4, <1>5, <1>6 DEF Surjection
<1>9. ASSUME NEW i \in 1 .. m, NEW j \in 1 .. m, rows[i] = rows[j] PROVE i = j
  <2>1. i < j \/ j < i \/ i = j
    OBVIOUS
  <2> QED
    BY <1>9, <2>1
<1>10. rows \in Injection(1 .. m, T)
  BY <1>3, <1>6, <1>9 DEF Injection, IsInjective
<1>11. Cardinality(T) = Cardinality(1 .. m)
  BY <1>7, <1>8, <1>10, FS_Surjection
<1>12. s \in Injection(1 .. m, T)
  BY <1>7, <1>8, <1>11, FS_Surjection
<1>13. \A i, j \in 1 .. m : s[i] = s[j] => i = j
  BY <1>3, <1>12 DEF Injection, IsInjective
<1>14. ASSUME NEW i \in 1 .. m, NEW j \in 1 .. m, i < j PROVE s[i] # s[j]
  BY <1>13, <1>14
<1> QED
  BY <1>1, <1>14

(* The row of a child.                                                     *)
LEMMA RowOfIs ==
  ASSUME NEW a, NEW q, NEW i
  PROVE  /\ RowOf(a, q, i).offset = Offset(a, q[i] - 1)
         /\ RowOf(a, q, i).hash = Hash[a[q[i]].name]
         /\ RowOf(a, q, i).size = Offset(a, q[i + 1] - 1) - Offset(a, q[i] - 1)
BY DEF RowOf, Row

(* A GOODBYE as it is read: its rows are those of the children of the      *)
(* directory, each once, counted back from here.                           *)
Back(row, here) == [row EXCEPT !.offset = here - @]

(* A row, counted back.                                                    *)
LEMMA BackIs ==
  ASSUME NEW r \in TableRow, NEW here \in Int
  PROVE  /\ Back(r, here) \in TableRow /\ Back(r, here) = [r EXCEPT !.offset = here - @]
         /\ Back(r, here).offset = here - r.offset
         /\ Back(r, here).hash = r.hash /\ Back(r, here).size = r.size
BY DEF TableRow, Back

LeadsBy(a, g, h, q, m) ==
  /\ m = Len(a[g].rows) /\ Cuts(a, h, q, m, g)
  /\ Offset(a, h - 1) = Offset(a, g - 1) - a[g].tail.offset /\ a[g].tail.size = Size(a[g])
  /\ \A i \in 1 .. m : \E k \in 1 .. m : a[g].rows[i] = Back(RowOf(a, q, k), Offset(a, g - 1))
  /\ \A k \in 1 .. m : \E i \in 1 .. m : a[g].rows[i] = Back(RowOf(a, q, k), Offset(a, g - 1))
  /\ \A i, j \in 1 .. m : i < j => /\ a[g].rows[i] # a[g].rows[j]
                                   /\ a[g].rows[i].hash <= a[g].rows[j].hash
Leads(a, g) == \E h, q, m : LeadsBy(a, g, h, q, m)

(* When more is written.                                                   *)
LEMMA LeadsStay ==
  ASSUME NEW a \in Seq(Item), NEW g \in 1 .. Len(a), Leads(a, g),
         NEW b \in Seq(Item), Continues(a, b)
  PROVE  Leads(b, g)
<1>1. PICK h, q, m : LeadsBy(a, g, h, q, m)
  BY DEF Leads
<1>2. Cuts(a, h, q, m, g)
  BY <1>1 DEF LeadsBy
<1>3. b[g] = a[g]
  BY DEF Continues
<1>4. /\ Cuts(b, h, q, m, g)
      /\ \A i \in 1 .. m : RowOf(b, q, i) = RowOf(a, q, i)
      /\ Offset(b, h - 1) = Offset(a, h - 1) /\ Offset(b, g - 1) = Offset(a, g - 1)
  BY <1>2, CutsStay
<1>5. LeadsBy(b, g, h, q, m)
  BY <1>1, <1>3, <1>4 DEF LeadsBy
<1> QED
  BY <1>5 DEF Leads

(* The table of a frame leads to what the frame was written for.           *)
LEMMA TableLeads ==
  ASSUME NEW a \in Seq(Item), n = Sizes(a), NEW f \in FrameType, Tabled(a, f, Sizes(a)),
         NEW b \in Seq(Item), Continues(a, b), NEW g \in Nat, g - 1 = Len(a), b[g] = Table(f)
  PROVE  Leads(b, g)
<1>1. PICK L \in Nat : L = Len(a) /\ g = L + 1 /\ g - 1 = L
  BY LenProperties
<1>2. PICK N \in Nat : N = n /\ N = Sizes(a)
  BY OffsetIs, <1>1
<1>3. b \in Seq(Item)
  OBVIOUS
<1>4. Continues(a, b)
  OBVIOUS
<1>5. PICK h, q, e : TabledBy(a, f, N, h, q, e)
  BY <1>2 DEF Tabled
<1>6. PICK m \in Nat : m = Len(f.rows) /\ f.rows \in Seq(TableRow) /\ f.start \in Int
  BY LenProperties DEF FrameType
<1>7. Cuts(a, h, q, m, e) /\ Offset(a, h - 1) = f.start /\ Offset(a, e - 1) = N
      /\ \A i \in 1 .. m : f.rows[i] = RowOf(a, q, i)
  BY <1>5, <1>6 DEF TabledBy
<1>8. e = g
  <2>1. e - 1 \in 0 .. Len(a) /\ e \in Nat /\ L \in 0 .. Len(a)
    BY <1>1, <1>7, CutsAre
  <2>2. Offset(a, e - 1) = Offset(a, L)
    <3>1. Offset(a, Len(a)) = Sizes(a)
      BY OffsetIs
    <3> QED
      BY <1>1, <1>2, <1>7, <3>1
  <2>3. e - 1 = L
    BY <2>1, <2>2, OffsetOnce
  <2> QED
    BY <1>1, <2>1, <2>3
<1>9. /\ Cuts(b, h, q, m, g)
      /\ \A i \in 1 .. m : RowOf(b, q, i) = RowOf(a, q, i)
      /\ Offset(b, h - 1) = f.start /\ Offset(b, g - 1) = N
  <2>1. /\ Cuts(b, h, q, m, e)
        /\ \A i \in 1 .. m : RowOf(b, q, i) = RowOf(a, q, i)
        /\ Offset(b, h - 1) = Offset(a, h - 1) /\ Offset(b, e - 1) = Offset(a, e - 1)
    BY <1>7, <1>4, CutsStay
  <2>2. Cuts(b, h, q, m, g)
    BY <1>8, <2>1, Zenon
  <2>3. Offset(b, h - 1) = f.start
    BY <1>7, <2>1, Zenon
  <2>4. Offset(b, e - 1) = N
    BY <1>7, <2>1, Zenon
  <2>5. Offset(b, g - 1) = N
    BY <1>8, <2>4, Zenon
  <2> QED
    BY <2>1, <2>2, <2>3, <2>5
<1>10. PICK back : back = [i \in DOMAIN f.rows |-> [f.rows[i] EXCEPT !.offset = N - @]]
  OBVIOUS
<1>11. DOMAIN f.rows = 1 .. m /\ \A i \in 1 .. m : f.rows[i] \in TableRow
  BY <1>6
<1>12. ASSUME NEW i \in 1 .. m
       PROVE  back[i] = Back(f.rows[i], N) /\ back[i] \in TableRow
              /\ back[i].offset = N - f.rows[i].offset
  <2>1. PICK r \in TableRow : r = f.rows[i]
    BY <1>11
  <2>2. back[i] = [r EXCEPT !.offset = N - @]
    BY <1>10, <1>11, <2>1
  <2>3. N \in Int
    OBVIOUS
  <2>4. /\ Back(r, N) \in TableRow /\ Back(r, N) = [r EXCEPT !.offset = N - @]
        /\ Back(r, N).offset = N - r.offset
    BY ONLY r \in TableRow, <2>3, BackIs
  <2> QED
    BY <2>1, <2>2, <2>4, Zenon
<1>13. back \in Seq(TableRow) /\ Len(back) = m /\ DOMAIN back = 1 .. m
  <2>1. back \in [1 .. m -> TableRow]
    BY <1>10, <1>11, <1>12
  <2> QED
    BY <2>1
<1>14. ASSUME NEW i \in 1 .. m, NEW j \in 1 .. m, i < j PROVE back[i] # back[j]
  <2>1. i \in 1 .. m + 1 /\ j \in 1 .. m + 1
    OBVIOUS
  <2>2. /\ Offset(a, q[i] - 1) < Offset(a, q[j] - 1)
        /\ Offset(a, q[i] - 1) \in Nat /\ Offset(a, q[j] - 1) \in Nat
    BY <1>7, <1>14, <2>1, SpansApart
  <2>3. f.rows[i].offset = Offset(a, q[i] - 1) /\ f.rows[j].offset = Offset(a, q[j] - 1)
    BY <1>7, RowOfIs
  <2>4. back[i].offset = N - Offset(a, q[i] - 1) /\ back[j].offset = N - Offset(a, q[j] - 1)
    BY <1>12, <2>3
  <2>5. back[i].offset # back[j].offset
    BY <2>2, <2>4
  <2> QED
    BY <2>5
<1>15. PICK s \in Seq(TableRow) : /\ s = ByHash(back) /\ Len(s) = m /\ Range(s) = Range(back)
                                  /\ \A i, j \in 1 .. m : i < j => s[i].hash <= s[j].hash
  BY <1>13, ByHashIs
<1>16. \A i, j \in 1 .. m : i < j => s[i] # s[j]
  BY <1>13, <1>14, <1>15, HashedOnce
<1>17. DOMAIN s = 1 .. m
  BY <1>15
<1>18. b[g].rows = s /\ b[g].tail = [offset |-> N - f.start, size |-> HeaderSize + (m + 1) * RowSize]
       /\ b[g].item = "goodbye"
  BY <1>2, <1>6, <1>10, <1>15 DEF Table, Goodbye
<1>19. b[g].tail.offset = N - f.start /\ b[g].tail.size = HeaderSize + (m + 1) * RowSize
  BY <1>18
<1>20. Size(b[g]) = HeaderSize + (m + 1) * RowSize
  BY <1>15, <1>18 DEF Size
<1>21. Offset(b, h - 1) = Offset(b, g - 1) - b[g].tail.offset
  BY <1>6, <1>9, <1>19
<1>22. \A k \in 1 .. m : back[k] = Back(RowOf(b, q, k), Offset(b, g - 1))
  BY <1>7, <1>9, <1>12
<1>23. ASSUME NEW i \in 1 .. m PROVE \E k \in 1 .. m : s[i] = Back(RowOf(b, q, k), Offset(b, g - 1))
  <2>1. s[i] \in Range(back)
    BY <1>15, <1>17 DEF Range
  <2>2. PICK k \in 1 .. m : s[i] = back[k]
    BY <1>13, <2>1 DEF Range
  <2> QED
    BY <1>22, <2>2
<1>24. ASSUME NEW k \in 1 .. m PROVE \E i \in 1 .. m : s[i] = Back(RowOf(b, q, k), Offset(b, g - 1))
  <2>1. back[k] \in Range(s)
    BY <1>13, <1>15 DEF Range
  <2>2. PICK i \in 1 .. m : s[i] = back[k]
    BY <1>17, <2>1 DEF Range
  <2> QED
    BY <1>22, <2>2
<1>25. LeadsBy(b, g, h, q, m)
  <2>1. m = Len(b[g].rows) /\ b[g].tail.size = Size(b[g])
    BY <1>15, <1>18, <1>19, <1>20
  <2>2. \A i \in 1 .. m : \E k \in 1 .. m : b[g].rows[i] = Back(RowOf(b, q, k), Offset(b, g - 1))
    BY <1>18, <1>23
  <2>3. \A k \in 1 .. m : \E i \in 1 .. m : b[g].rows[i] = Back(RowOf(b, q, k), Offset(b, g - 1))
    BY <1>18, <1>24
  <2>4. \A i, j \in 1 .. m : i < j => /\ b[g].rows[i] # b[g].rows[j]
                                     /\ b[g].rows[i].hash <= b[g].rows[j].hash
    BY <1>15, <1>16, <1>18
  <2> QED
    BY <1>9, <1>21, <2>1, <2>2, <2>3, <2>4 DEF LeadsBy
<1> QED
  BY <1>25 DEF Leads

-----------------------------------------------------------------------------
(* The rows of the directories of the stack.                               *)

(* The next child of a directory begins at the end, or where the directory *)
(* did that is above it on the stack.                                      *)
Stop(a, st, j) ==
  IF j = Len(st) THEN Sizes(a) ELSE st[j + 1].start - Size(Filename(Last(st[j + 1].path)))
Tables(a, st) == \A j \in 1 .. Len(st) : Tabled(a, st[j], Stop(a, st, j))
Goodbyes(a) == \A g \in 1 .. Len(a) : a[g].item = "goodbye" => Leads(a, g)

(* A step that changes, or leaves, what is on top of the stack.            *)
LEMMA TablesBelow ==
  ASSUME NEW a \in Seq(Item), NEW b \in Seq(Item), Continues(a, b),
         NEW st \in Seq(FrameType), Tables(a, st), NEW M \in 1 .. Len(st),
         NEW new \in Seq(FrameType), Len(new) = M, \A j \in 1 .. M - 1 : new[j] = st[j],
         new[M].path = st[M].path, new[M].start = st[M].start, Tabled(b, new[M], Sizes(b))
  PROVE  Tables(b, new)
<1>1. PICK L \in Nat : L = Len(st) /\ M \in Nat /\ M >= 1 /\ M <= L
  BY LenProperties
<1>2. SUFFICES ASSUME NEW j \in 1 .. M PROVE Tabled(b, new[j], Stop(b, new, j))
  BY DEF Tables
<1>3. CASE j = M
  BY <1>3 DEF Stop
<1>4. CASE j \in 1 .. M - 1
  <2>1. j \in 1 .. L /\ j # L /\ j # M /\ j + 1 \in 1 .. M /\ new[j] = st[j]
    BY <1>1, <1>4
  <2>2. new[j + 1].path = st[j + 1].path /\ new[j + 1].start = st[j + 1].start
    <3>1. CASE j + 1 = M
      BY <3>1
    <3>2. CASE j + 1 \in 1 .. M - 1
      BY <3>2
    <3>3. j + 1 = M \/ j + 1 \in 1 .. M - 1
      BY <1>1, <2>1
    <3> QED
      BY <3>1, <3>2, <3>3, Zenon
  <2>3. Stop(b, new, j) = Stop(a, st, j)
    BY <1>1, <2>1, <2>2 DEF Stop
  <2>4. Tabled(a, st[j], Stop(a, st, j))
    BY <1>1, <2>1 DEF Tables
  <2>5. Tabled(b, st[j], Stop(a, st, j))
    BY <2>4, TabledStays
  <2> QED
    BY <2>1, <2>3, <2>5
<1>5. j = M \/ j \in 1 .. M - 1
  BY <1>1
<1> QED
  BY <1>3, <1>4, <1>5, Zenon

(* A step that puts a directory on top of it.                              *)
LEMMA TablesAbove ==
  ASSUME NEW a \in Seq(Item), NEW b \in Seq(Item), Continues(a, b),
         NEW st \in Seq(FrameType), Tables(a, st),
         NEW f \in FrameType, f.start - Size(Filename(Last(f.path))) = Sizes(a), Tabled(b, f, Sizes(b))
  PROVE  Tables(b, Append(st, f))
<1>1. PICK L \in Nat : L = Len(st)
  BY LenProperties
<1>2. PICK new \in Seq(FrameType) : /\ new = Append(st, f) /\ Len(new) = L + 1 /\ new[L + 1] = f
                                    /\ \A j \in 1 .. L : new[j] = st[j]
  <2>1. /\ Append(st, f) \in Seq(FrameType) /\ Len(Append(st, f)) = Len(st) + 1
        /\ Append(st, f)[Len(st) + 1] = f
        /\ \A j \in 1 .. Len(st) : Append(st, f)[j] = st[j]
    BY AppendProperties
  <2> QED
    BY <1>1, <2>1
<1>3. SUFFICES ASSUME NEW j \in 1 .. L + 1 PROVE Tabled(b, new[j], Stop(b, new, j))
  BY <1>2 DEF Tables
<1>4. CASE j = L + 1
  BY <1>2, <1>4 DEF Stop
<1>5. CASE j \in 1 .. L
  <2>1. j # L + 1 /\ j \in 1 .. Len(st) /\ new[j] = st[j]
    BY <1>1, <1>2, <1>5
  <2>2. Stop(b, new, j) = Stop(a, st, j)
    <3>1. CASE j = L
      <4>1. Stop(a, st, j) = Sizes(a)
        BY <1>1, <3>1 DEF Stop
      <4>2. Stop(b, new, j) = f.start - Size(Filename(Last(f.path)))
        BY <1>2, <2>1, <3>1 DEF Stop
      <4> QED
        BY <4>1, <4>2
    <3>2. CASE j # L
      <4>1. j + 1 \in 1 .. L
        BY <1>5, <3>2
      <4>2. new[j + 1] = st[j + 1]
        BY <1>2, <4>1
      <4> QED
        BY <1>1, <1>2, <2>1, <3>2, <4>2 DEF Stop
    <3> QED
      BY <3>1, <3>2
  <2>3. Tabled(a, st[j], Stop(a, st, j))
    BY <2>1 DEF Tables
  <2>4. Tabled(b, st[j], Stop(a, st, j))
    BY <2>3, TabledStays
  <2> QED
    BY <2>1, <2>2, <2>4
<1>6. j = L + 1 \/ j \in 1 .. L
  BY <1>1
<1> QED
  BY <1>4, <1>5, <1>6, Zenon

(* The items of a path have no GOODBYE.                                    *)
LEMMA NoGoodbye ==
  ASSUME Input, NEW p \in DOMAIN tree, NEW j \in 1 .. Len(Block(p))
  PROVE  Block(p)[j].item # "goodbye"
<1>1. PICK s \in Seq(Item) : s = Block(p)
  BY BlockIs
<1>2. PICK M \in Nat : M = Meta(p) /\ M >= 2 /\ Len(s) = IF tree[p].kind = "dir" THEN M ELSE M + 1
  BY <1>1, BlockIs
<1>3. /\ s[1] = Opening(p) /\ s[2] = Entry(tree[p])
      /\ \A i \in 3 .. M : s[i] = Xattr(InOrder(tree[p].xattrs)[i - 2])
      /\ tree[p].kind # "dir" =>
           s[M + 1] = IF tree[p].kind = "link" THEN Symlink(tree[p].size) ELSE Payload(tree[p].size)
  BY <1>1, <1>2, BlockIs
<1>4. s[1].item # "goodbye" /\ s[2].item # "goodbye"
  BY <1>3 DEF Opening, Version, Filename, Entry
<1>5. ASSUME NEW i \in 3 .. M PROVE s[i].item # "goodbye"
  <2>1. PICK x : s[i] = Xattr(x)
    BY <1>3
  <2> QED
    BY <2>1 DEF Xattr
<1>6. tree[p].kind # "dir" => s[M + 1].item # "goodbye"
  BY <1>3 DEF Symlink, Payload
<1>7. j = 1 \/ j = 2 \/ j \in 3 .. M \/ (j = M + 1 /\ tree[p].kind # "dir")
  BY <1>1, <1>2
<1>8. s[j].item # "goodbye"
  BY <1>4, <1>5, <1>6, <1>7
<1> QED
  BY <1>1, <1>8

(* So those there are stay right.                                          *)
LEMMA BlockGoodbyes ==
  ASSUME Input, NEW a \in Seq(Item), Goodbyes(a), NEW p \in DOMAIN tree,
         NEW b \in Seq(Item), b = a \o Block(p)
  PROVE  Goodbyes(b) /\ Continues(a, b)
<1>1. PICK s \in Seq(Item) : s = Block(p) /\ b = a \o s
  BY BlockIs
<1>2. PICK L \in Nat, M \in Nat : L = Len(a) /\ M = Len(s)
  BY LenProperties
<1>3. Continues(a, b)
  <2>1. Version \in Item
    BY DEF Version, Item
  <2>2. \A e \in Item : Continues(a, a \o s)
    BY WrittenOn
  <2> QED
    BY <1>1, <2>1, <2>2
<1>4. Len(b) = L + M
  BY <1>1, <1>2, ConcatProperties
<1>5. SUFFICES ASSUME NEW g \in 1 .. L + M, b[g].item = "goodbye" PROVE Leads(b, g)
  BY <1>3, <1>4 DEF Goodbyes
<1>6. CASE g \in 1 .. L
  <2>1. a[g] = b[g] /\ g \in 1 .. Len(a)
    BY <1>2, <1>3, <1>6 DEF Continues
  <2>2. Leads(a, g)
    BY <1>5, <2>1 DEF Goodbyes
  <2> QED
    BY <1>3, <2>1, <2>2, LeadsStay
<1>7. CASE g \notin 1 .. L
  <2>1. g \in 1 .. Len(a) + Len(s) /\ ~(g <= Len(a)) /\ g - Len(a) \in 1 .. Len(s)
    BY <1>2, <1>7
  <2>2. (a \o s)[g] = s[g - Len(a)]
    BY <2>1, ConcatProperties
  <2>3. s[g - Len(a)].item # "goodbye"
    BY <1>1, <2>1, NoGoodbye
  <2> QED
    BY <1>1, <1>5, <2>2, <2>3
<1> QED
  BY <1>6, <1>7

(* And so is the one a directory ends with.                                *)
LEMMA TableGoodbyes ==
  ASSUME NEW a \in Seq(Item), n = Sizes(a), Goodbyes(a), NEW f \in FrameType, Tabled(a, f, Sizes(a)),
         NEW b \in Seq(Item), b = Append(a, Table(f))
  PROVE  Goodbyes(b) /\ Continues(a, b)
<1>1. PICK L \in Nat : L = Len(a)
  BY LenProperties
<1>2. n \in Int
  BY <1>1, OffsetIs
<1>3. PICK t \in Item : t = Table(f)
  BY <1>2, TableMade
<1>4. b = Append(a, t) /\ Len(b) = L + 1 /\ b[L + 1] = t
  <2>1. Len(Append(a, t)) = Len(a) + 1 /\ Append(a, t)[Len(a) + 1] = t
    BY AppendProperties
  <2> QED
    BY <1>1, <1>3, <2>1
<1>5. Continues(a, b)
  <2>1. \A s \in Seq(Item) : Continues(a, Append(a, t))
    BY WrittenOn
  <2> QED
    BY <1>4, <2>1
<1>6. PICK c \in Seq(Item) : c = b
  OBVIOUS
<1>7. Continues(a, c) /\ Len(c) = L + 1 /\ c[L + 1] = Table(f)
  BY <1>3, <1>4, <1>5, <1>6
<1>8. SUFFICES ASSUME NEW g \in 1 .. L + 1, c[g].item = "goodbye" PROVE Leads(c, g)
  BY <1>5, <1>6, <1>7 DEF Goodbyes
<1>9. CASE g = L + 1
  <2>1. PICK h \in Nat : h = L + 1 /\ h - 1 = Len(a)
    BY <1>1
  <2>2. c[h] = Table(f)
    BY <1>7, <2>1
  <2>3. Leads(c, h)
    BY <1>7, <2>1, <2>2, TableLeads
  <2> QED
    BY <1>9, <2>1, <2>3
<1>10. CASE g \in 1 .. L
  <2>1. a[g] = c[g] /\ g \in 1 .. Len(a)
    BY <1>1, <1>7, <1>10 DEF Continues
  <2>2. Leads(a, g)
    BY <1>8, <2>1 DEF Goodbyes
  <2> QED
    BY <1>7, <2>1, <2>2, LeadsStay
<1>11. g = L + 1 \/ g \in 1 .. L
  BY <1>1
<1> QED
  BY <1>9, <1>10, <1>11, Zenon

-----------------------------------------------------------------------------
(* What a step does to these rows.                                         *)

(* Where the items of an entry begin that are written next.                *)
LEMMA NameWritten ==
  ASSUME Input, NEW a \in Seq(Item), NEW p \in DOMAIN tree, p # <<>>,
         NEW b \in Seq(Item), b = a \o Block(p)
  PROVE  Len(a) + 1 \in 1 .. Len(b) /\ b[Len(a) + 1] = Filename(Last(p))
<1>1. PICK e \in Nat : e = Len(a) + 1 /\ e - 1 = Len(a)
  BY LenProperties
<1>2. e \in 1 .. Len(b) /\ b[e] = Filename(Last(p))
  <2>1. PICK s \in Seq(Item) : s = Block(p) /\ b = a \o s
    BY BlockIs
  <2>2. Len(s) >= 1 /\ Len(s) \in Nat /\ s[1] = Filename(Last(p))
    <3>1. Meta(p) \in Nat /\ Meta(p) >= 2 /\ Block(p)[1] = Opening(p)
          /\ Len(Block(p)) = IF tree[p].kind = "dir" THEN Meta(p) ELSE Meta(p) + 1
      BY BlockIs
    <3> QED
      BY <2>1, <3>1 DEF Opening
  <2>3. Len(b) = Len(a) + Len(s) /\ Len(a) \in Nat
    BY <2>1, ConcatProperties, LenProperties
  <2>4. e \in 1 .. Len(a) + Len(s) /\ ~(e <= Len(a)) /\ e - Len(a) = 1
    BY <1>1, <2>2, <2>3
  <2>5. (a \o s)[e] = s[e - Len(a)]
    BY <2>4, ConcatProperties
  <2> QED
    BY <2>1, <2>2, <2>3, <2>4, <2>5
<1> QED
  BY <1>1, <1>2

(* A file or a link.                                                       *)
LEMMA LeafTables ==
  ASSUME NEW a \in Seq(Item), NEW st \in Seq(FrameType), Len(st) >= 1, Tables(a, st),
         NEW name \in Names, NEW b \in Seq(Item), Continues(a, b),
         Len(a) + 1 \in 1 .. Len(b), b[Len(a) + 1] = Filename(name),
         NEW g \in FrameType, g.path = st[Len(st)].path, g.start = st[Len(st)].start,
         g.rows = Append(st[Len(st)].rows, Row(name, Sizes(a), Sizes(b)))
  PROVE  Tables(b, ReplaceAt(st, Len(st), g))
<1>1. PICK L \in Nat : L = Len(st) /\ L >= 1 /\ L \in 1 .. L
  BY LenProperties
<1>2. PICK new : new = ReplaceAt(st, L, g)
  OBVIOUS
<1>3. /\ new \in Seq(FrameType) /\ Len(new) = L
      /\ \A j \in 1 .. L : new[j] = IF j = L THEN g ELSE st[j]
  BY <1>1, <1>2, ExceptSeq DEF ReplaceAt
<1>4. new[L] = g /\ \A j \in 1 .. L - 1 : new[j] = st[j]
  <2>1. \A j \in 1 .. L - 1 : j \in 1 .. L /\ j # L
    BY <1>1
  <2> QED
    BY ONLY <1>1, <1>3, <2>1
<1>5. PICK f \in FrameType : f = st[L]
  BY <1>1, ElementOfSeq
<1>6. PICK N : N = Sizes(a)
  OBVIOUS
<1>7. Tabled(a, f, N)
  <2>1. Stop(a, st, L) = Sizes(a)
    BY <1>1 DEF Stop
  <2> QED
    BY <1>1, <1>5, <1>6, <2>1 DEF Tables
<1>8. Tabled(b, f, N)
  BY <1>7, TabledStays
<1>9. PICK e \in Nat : e = Len(a) + 1 /\ e - 1 = Len(a)
  BY LenProperties
<1>10. e \in 1 .. Len(b) /\ b[e] = Filename(name)
  BY <1>9
<1>11. Offset(b, e - 1) = N
  <2>1. e - 1 \in 0 .. Len(a) /\ Offset(a, e - 1) = Sizes(a)
    BY <1>9, OffsetIs
  <2>2. Offset(b, e - 1) = Offset(a, e - 1)
    BY <2>1, OffsetStays
  <2> QED
    BY <1>6, <2>1, <2>2
<1>12. Tabled(b, g, Sizes(b))
  <2>1. g.path = f.path /\ g.start = f.start /\ g.rows = Append(f.rows, Row(name, N, Sizes(b)))
    BY <1>1, <1>5, <1>6
  <2> QED
    BY <1>8, <1>10, <1>11, <2>1, RowAdded
<1>13. new[L].path = st[L].path /\ new[L].start = st[L].start
  BY <1>1, <1>4, Zenon
<1>14. Tables(b, new)
  BY <1>1, <1>3, <1>4, <1>12, <1>13, TablesBelow
<1> QED
  BY <1>1, <1>2, <1>14

(* A child that is skipped.                                                *)
LEMMA SkipTables ==
  ASSUME NEW a \in Seq(Item), NEW st \in Seq(FrameType), Len(st) >= 1, Tables(a, st),
         NEW g \in FrameType, g.path = st[Len(st)].path, g.start = st[Len(st)].start,
         g.rows = st[Len(st)].rows
  PROVE  Tables(a, ReplaceAt(st, Len(st), g))
<1>1. PICK L \in Nat : L = Len(st) /\ L >= 1 /\ L \in 1 .. L
  BY LenProperties
<1>2. PICK new : new = ReplaceAt(st, L, g)
  OBVIOUS
<1>3. /\ new \in Seq(FrameType) /\ Len(new) = L
      /\ \A j \in 1 .. L : new[j] = IF j = L THEN g ELSE st[j]
  BY <1>1, <1>2, ExceptSeq DEF ReplaceAt
<1>4. new[L] = g /\ \A j \in 1 .. L - 1 : new[j] = st[j]
  BY <1>1, <1>3
<1>5. Tabled(a, st[L], Sizes(a))
  <2>1. Stop(a, st, L) = Sizes(a)
    BY <1>1 DEF Stop
  <2> QED
    BY <1>1, <2>1 DEF Tables
<1>6. Tabled(a, g, Sizes(a))
  BY <1>1, <1>5, TabledAlike
<1>7. new[L].path = st[L].path /\ new[L].start = st[L].start
  BY <1>1, <1>4
<1>8. Continues(a, a)
  BY LenProperties DEF Continues
<1>9. Tables(a, new)
  BY <1>1, <1>3, <1>4, <1>6, <1>7, <1>8, TablesBelow
<1> QED
  BY <1>1, <1>2, <1>9

(* A directory that is entered.                                            *)
LEMMA DirTables ==
  ASSUME Input, NEW a \in Seq(Item), NEW st \in Seq(FrameType), Tables(a, st),
         NEW p \in DOMAIN tree, p # <<>>, tree[p].kind = "dir", Filename(Last(p)) \in Item,
         NEW b \in Seq(Item), b = a \o Block(p), Continues(a, b),
         NEW g \in FrameType, g.path = p, g.start = Sizes(a) + Size(Filename(Last(p))), g.rows = <<>>
  PROVE  Tables(b, Append(st, g))
<1>1. Opening(p) = Filename(Last(p))
  BY DEF Opening
<1>2. PICK N \in Nat, z \in Nat : N = Sizes(a) /\ z = Size(Filename(Last(p)))
  BY OffsetIs, LenProperties, SizeIs
<1>3. g.start = Sizes(a) + Size(Opening(p))
  BY <1>1
<1>4. Tabled(b, g, Sizes(b))
  BY <1>3, TabledBegins
<1>5. g.start = N + z /\ (N + z) - z = N
  BY <1>2
<1>6. g.start - Size(Filename(Last(g.path))) = Sizes(a)
  BY <1>2, <1>5
<1> QED
  BY <1>4, <1>6, TablesAbove

(* A directory that ends.                                                  *)
LEMMA PopTables ==
  ASSUME NEW a \in Seq(Item), NEW st \in Seq(FrameType), Len(st) >= 2, Tables(a, st),
         NEW f \in FrameType, f = st[Len(st)], f.path # <<>>,
         NEW name \in Names, name = Last(f.path),
         NEW b \in Seq(Item), Continues(a, b),
         NEW g \in FrameType, g.path = st[Len(st) - 1].path, g.start = st[Len(st) - 1].start,
         g.rows = Append(st[Len(st) - 1].rows, Row(name, f.start - Size(Filename(name)), Sizes(b)))
  PROVE  Tables(b, Append(SubSeq(st, 1, Len(st) - 2), g))
<1>1. PICK L \in Nat : L = Len(st) /\ L >= 2
  BY LenProperties
<1>2. L - 1 \in 1 .. L /\ L \in 1 .. L /\ L - 1 # L /\ (L - 1) + 1 = L /\ L - 1 \in Nat
  BY <1>1
<1>3. PICK s : s = SubSeq(st, 1, L - 2)
  OBVIOUS
<1>4. \A i \in 1 .. L - 2 : st[i] \in FrameType
  BY <1>1, ElementOfSeq
<1>5. s \in Seq(FrameType) /\ Len(s) = L - 2 /\ \A i \in 1 .. L - 2 : s[i] = st[i]
  BY <1>1, <1>3, <1>4, SubSeqProperties
<1>6. PICK new : new = Append(s, g)
  OBVIOUS
<1>7. /\ new \in Seq(FrameType) /\ Len(new) = L - 1 /\ new[L - 1] = g
      /\ \A i \in 1 .. (L - 1) - 1 : new[i] = st[i]
  <2>1. /\ new \in Seq(FrameType) /\ Len(new) = Len(s) + 1 /\ new[Len(s) + 1] = g
        /\ \A i \in 1 .. Len(s) : new[i] = s[i]
    BY <1>5, <1>6, AppendProperties
  <2> QED
    BY <1>1, <1>5, <2>1
<1>8. PICK stop : stop = f.start - Size(Filename(name))
  OBVIOUS
<1>9. Tabled(a, f, Sizes(a))
  <2>1. Stop(a, st, L) = Sizes(a)
    BY <1>1 DEF Stop
  <2> QED
    BY <1>1, <1>2, <2>1 DEF Tables
<1>10. PICK d \in FrameType : d = st[L - 1]
  BY <1>1, <1>2, ElementOfSeq
<1>11. Tabled(a, d, stop)
  <2>1. Stop(a, st, L - 1) = stop
    BY <1>1, <1>2, <1>8 DEF Stop
  <2> QED
    BY <1>1, <1>2, <1>10, <2>1 DEF Tables
<1>12. Tabled(b, d, stop)
  BY <1>11, TabledStays
<1>13. PICK e \in 1 .. Len(a) : a[e] = Filename(name) /\ Offset(a, e) = f.start
  <2>1. PICK h, q, x : TabledBy(a, f, Sizes(a), h, q, x)
    BY <1>9 DEF Tabled
  <2> QED
    BY <2>1 DEF TabledBy
<1>14. Filename(name) \in Item
  BY DEF Filename, Item
<1>15. Offset(a, e - 1) = stop
  <2>1. Offset(a, e) = Offset(a, e - 1) + Size(a[e])
    BY OffsetIs
  <2>2. e - 1 \in 0 .. Len(a) /\ Size(Filename(name)) \in Nat
    BY <1>14, LenProperties, SizeIs
  <2>3. PICK x \in Nat, z \in Nat : x = Offset(a, e - 1) /\ z = Size(Filename(name))
    BY <2>2, OffsetIs
  <2>4. f.start = x + z
    BY <1>13, <2>1, <2>3
  <2>5. stop = (x + z) - z
    BY <1>8, <2>3, <2>4
  <2> QED
    BY <2>3, <2>5
<1>16. Offset(b, e - 1) = stop /\ e \in 1 .. Len(b) /\ b[e] = Filename(name)
  <2>1. e - 1 \in 0 .. Len(a)
    BY LenProperties
  <2>2. Offset(b, e - 1) = Offset(a, e - 1)
    BY <2>1, OffsetStays
  <2>3. b[e] = a[e] /\ e \in 1 .. Len(b)
    BY LenProperties DEF Continues
  <2> QED
    BY <1>13, <1>15, <2>2, <2>3
<1>17. Tabled(b, g, Sizes(b))
  <2>1. g.path = d.path /\ g.start = d.start /\ g.rows = Append(d.rows, Row(name, stop, Sizes(b)))
    BY <1>1, <1>8, <1>10
  <2> QED
    BY <1>12, <1>16, <2>1, RowAdded
<1>18. PICK M \in 1 .. Len(st) : M = L - 1
  BY <1>1, <1>2
<1>19. /\ Len(new) = M /\ \A i \in 1 .. M - 1 : new[i] = st[i]
       /\ new[M].path = st[M].path /\ new[M].start = st[M].start /\ Tabled(b, new[M], Sizes(b))
  BY <1>1, <1>7, <1>17, <1>18
<1>20. Tables(b, new)
  BY <1>7, <1>19, TablesBelow
<1> QED
  BY <1>1, <1>3, <1>6, <1>20

-----------------------------------------------------------------------------
(* The invariant of the tables, and that runs start with it.               *)

(* All this is about the items only.                                       *)
LEMMA TablesSame ==
  ASSUME NEW a, NEW st
  PROVE  (Goodbyes(a)' <=> Goodbyes(a)) /\ (Tables(a, st)' <=> Tables(a, st))
<1>1. \A x : Size(x)' = Size(x)
  BY DEF Size
<1>2. \A x : Sizes(x)' = Sizes(x)
  BY <1>1 DEF Sizes
<1>3. \A x, i : Offset(x, i)' = Offset(x, i)
  BY <1>2 DEF Offset
<1>4. \A x, q, i : RowOf(x, q, i)' = RowOf(x, q, i)
  BY <1>3 DEF RowOf, Row
<1>5. \A x, h, q, m, e : Cuts(x, h, q, m, e)' <=> Cuts(x, h, q, m, e)
  BY DEF Cuts
<1>6. \A g, h, q, m : LeadsBy(a, g, h, q, m)' <=> LeadsBy(a, g, h, q, m)
  BY <1>1, <1>3, <1>4, <1>5 DEF LeadsBy, Back
<1>7. \A g : Leads(a, g)' <=> Leads(a, g)
  BY <1>6 DEF Leads
<1>8. \A f, stop, h, q, e : TabledBy(a, f, stop, h, q, e)' <=> TabledBy(a, f, stop, h, q, e)
  BY <1>3, <1>4, <1>5 DEF TabledBy, Filename
<1>9. \A f, stop : Tabled(a, f, stop)' <=> Tabled(a, f, stop)
  BY <1>8 DEF Tabled
<1>10. \A j : Stop(a, st, j)' = Stop(a, st, j)
  BY <1>1, <1>2 DEF Stop, Filename
<1> QED
  BY <1>7, <1>9, <1>10 DEF Goodbyes, Tables

(* The invariant of the tables, beside PxarInv.                            *)
TablesInv == Goodbyes(archive) /\ (pc = "encode" => Tables(archive, stack))

(* What a step has to show.                                                *)
LEMMA TablesOn ==
  ASSUME NEW a, archive' = a, NEW s, stack' = s, Goodbyes(a), pc' = "encode" => Tables(a, s)
  PROVE  TablesInv'
<1>1. Goodbyes(a)' /\ (pc' = "encode" => Tables(a, s)')
  BY TablesSame
<1> QED
  BY <1>1 DEF TablesInv

(* What PxarInv says of the encoder at work.                               *)
LEMMA AtWork ==
  ASSUME PxarInv, pc = "encode"
  PROVE  /\ Input /\ archive \in Seq(Item) /\ n = Sizes(archive) /\ n \in Nat
         /\ StackOK(stack) /\ stack \in Seq(FrameType) /\ Len(stack) \in Nat /\ Len(stack) >= 1
         /\ Top = stack[Len(stack)] /\ Top \in FrameType
<1>1. PICK at : Encoded(archive, at, stack)
  BY DEF PxarInv, Encoding
<1>2. Input /\ archive \in Seq(Item) /\ n = Sizes(archive)
  BY DEF PxarInv
<1>3. Sizes(archive) \in Nat
  BY <1>2, SumsExist, SizesAre
<1>4. StackOK(stack)
  BY <1>1 DEF Encoded
<1>5. stack \in Seq(FrameType) /\ Len(stack) \in Nat /\ Len(stack) >= 1
  BY <1>4, LenProperties DEF StackOK
<1>6. Top = stack[Len(stack)] /\ Top \in FrameType
  BY <1>2, <1>4, ChildIs
<1> QED
  BY <1>2, <1>3, <1>4, <1>5, <1>6

(* What a frame has behind a child.                                        *)
LEMMA RowsKept ==
  ASSUME NEW f \in FrameType, NEW name, NEW s, NEW e
  PROVE  /\ NextName(f).start = f.start /\ NextName(f).rows = f.rows
         /\ WithRow(NextName(f), name, s, e).start = f.start
         /\ WithRow(NextName(f), name, s, e).rows = Append(f.rows, Row(name, s, e))
<1>1. NextName(f).start = f.start /\ NextName(f).rows = f.rows
  BY DEF NextName, FrameType
<1>2. PICK g : g = NextName(f)
  OBVIOUS
<1>3. g = [path |-> f.path, names |-> Tail(f.names), start |-> f.start, rows |-> f.rows]
  BY <1>2 DEF NextName, FrameType
<1>4. PICK r : r = Row(name, s, e)
  OBVIOUS
<1>5. WithRow(g, name, s, e).start = g.start /\ WithRow(g, name, s, e).rows = Append(g.rows, r)
  BY <1>3, <1>4 DEF WithRow
<1> QED
  BY <1>1, <1>2, <1>4, <1>5

(* Init.                                                                   *)
LEMMA TablesStart ==
  ASSUME Init
  PROVE  TablesInv
<1>1. PxarInv /\ pc = "encode"
  BY StartsOK DEF Init
<1>2. Input /\ archive \in Seq(Item)
  BY <1>1, AtWork
<1>3. <<>> \in DOMAIN tree /\ tree[<<>>].kind = "dir" /\ <<>> \in Seq(Names)
  BY <1>2, InputIs, NoPath
<1>4. PICK r : r = <<>> /\ r \in DOMAIN tree /\ tree[r].kind = "dir" /\ r \in Seq(Names)
  BY <1>3
<1>5. PICK f : f = Frame(r, Size(Version))
  OBVIOUS
<1>6. Version \in Item
  BY DEF Version, Item
<1>7. PICK z \in Nat : z = Size(Version)
  BY <1>6, SizeIs
<1>8. f \in FrameType /\ f.path = r /\ f.rows = <<>> /\ f.start = z
  <2>1. z \in Int
    OBVIOUS
  <2>2. Frame(r, z) \in FrameType /\ Frame(r, z).path = r
    BY <1>2, <1>4, <2>1, FrameMade
  <2>3. f.rows = <<>> /\ f.start = z
    BY <1>5, <1>7 DEF Frame
  <2> QED
    BY <1>5, <1>7, <2>2, <2>3
<1>9. PICK b \in Seq(Item) : b = Block(r)
  BY <1>2, <1>4, BlockIs
<1>10. PICK e \in Seq(Item) : e = <<>> /\ Len(e) = 0 /\ b = e \o b /\ Sizes(e) = 0
  <2>1. <<>> \in Seq(Item) /\ Len(<<>>) = 0
    BY EmptySeq
  <2>2. PICK e \in Seq(Item) : e = <<>>
    BY <2>1
  <2>3. <<>> \o b = b
    BY <1>9, ConcatEmptySeq
  <2>4. Offset(e, 0) = 0 /\ Offset(e, Len(e)) = Sizes(e)
    BY OffsetIs
  <2>5. Len(e) = 0 /\ e \o b = b
    BY <2>1, <2>2, <2>3, Zenon
  <2> QED
    BY <2>2, <2>4, <2>5
<1>11. b = e \o Block(r) /\ f.start = Sizes(e) + Size(Opening(r))
  BY <1>4, <1>7, <1>8, <1>9, <1>10 DEF Opening
<1>12. Tabled(b, f, Sizes(b))
  BY <1>2, <1>4, <1>8, <1>11, TabledBegins
<1>13. Goodbyes(b)
  <2>1. Goodbyes(e)
    BY <1>10 DEF Goodbyes
  <2> QED
    BY <1>2, <1>4, <1>11, <2>1, BlockGoodbyes
<1>14. archive = b /\ stack = <<f>>
  <2>1. Block(r) = <<Opening(r), Entry(tree[r])>> \o Xattrs(tree[r])
    BY <1>2, <1>4, BlockWrittenFor
  <2> QED
    BY <1>4, <1>5, <1>9, <2>1 DEF Init, Opening
<1>15. PICK s : s = <<f>>
  OBVIOUS
<1>16. Tables(b, s)
  <2>1. Len(s) = 1 /\ s[1] = f
    BY <1>15
  <2>2. Stop(b, s, 1) = Sizes(b)
    BY <2>1 DEF Stop
  <2>3. \A j \in 1 .. Len(s) : j = 1
    BY <2>1
  <2> QED
    BY <1>12, <2>1, <2>2, <2>3 DEF Tables
<1> QED
  BY <1>13, <1>14, <1>15, <1>16 DEF TablesInv

-----------------------------------------------------------------------------
(* A child that is skipped, written or entered keeps it.                   *)

(* SkipChild.                                                              *)
LEMMA SkipChildTables ==
  ASSUME PxarInv, TablesInv, SkipChild
  PROVE  TablesInv'
<1>1. pc = "encode" /\ Goodbyes(archive) /\ Tables(archive, stack)
  BY DEF SkipChild, TablesInv
<1>2. /\ Input /\ archive \in Seq(Item) /\ stack \in Seq(FrameType) /\ Len(stack) >= 1
      /\ StackOK(stack) /\ Top = stack[Len(stack)] /\ Top \in FrameType
  BY <1>1, AtWork
<1>3. PICK g : g = NextName(Top)
  OBVIOUS
<1>4. g \in FrameType /\ g.path = Top.path /\ g.start = Top.start /\ g.rows = Top.rows
  <2>1. Top.names # <<>>
    BY DEF SkipChild
  <2>2. NextName(Top) \in FrameType /\ NextName(Top).path = Top.path
    BY <1>2, <2>1, NextMade
  <2>3. NextName(Top).start = Top.start /\ NextName(Top).rows = Top.rows
    BY <1>2, RowsKept
  <2> QED
    BY <1>3, <2>2, <2>3
<1>5. PICK a \in Seq(Item), st \in Seq(FrameType) : a = archive /\ st = stack
  BY <1>2
<1>6. PICK s : s = ReplaceAt(st, Len(st), g)
  OBVIOUS
<1>7. Tables(a, s)
  <2>1. Len(st) >= 1 /\ Tables(a, st) /\ g.path = st[Len(st)].path /\ g.start = st[Len(st)].start
        /\ g.rows = st[Len(st)].rows
    BY <1>1, <1>2, <1>4, <1>5
  <2>2. Tables(a, ReplaceAt(st, Len(st), g))
    BY <1>4, <2>1, SkipTables
  <2> QED
    BY <1>6, <2>2
<1>8. archive' = a /\ stack' = s /\ Goodbyes(a)
  BY <1>1, <1>3, <1>5, <1>6 DEF SkipChild
<1> QED
  BY <1>7, <1>8, TablesOn

(* EncodeLeaf.                                                             *)
LEMMA EncodeLeafTables ==
  ASSUME PxarInv, TablesInv, EncodeLeaf
  PROVE  TablesInv'
<1>1. pc = "encode" /\ Goodbyes(archive) /\ Tables(archive, stack)
  BY DEF EncodeLeaf, TablesInv
<1>2. /\ Input /\ archive \in Seq(Item) /\ n = Sizes(archive) /\ n \in Nat
      /\ stack \in Seq(FrameType) /\ Len(stack) >= 1
      /\ StackOK(stack) /\ Top = stack[Len(stack)] /\ Top \in FrameType
  BY <1>1, AtWork
<1>3. PICK p : p = Child
  OBVIOUS
<1>4. /\ Top.names # <<>> /\ tree[p].kind # "dir" /\ p \in DOMAIN tree /\ p # <<>>
      /\ Last(p) \in Names
  BY <1>2, <1>3, ChildIs DEF EncodeLeaf
<1>5. PICK b \in Seq(Item) : b = Block(p)
  BY <1>2, <1>4, BlockIs
<1>6. b = <<Filename(Last(p)), Entry(tree[p])>> \o Xattrs(tree[p]) \o
           <<IF tree[p].kind = "link" THEN Symlink(tree[p].size) ELSE Payload(tree[p].size)>>
  BY <1>2, <1>4, <1>5, BlockWrittenFor DEF Opening
<1>7. PICK a \in Seq(Item), st \in Seq(FrameType), name \in Names :
        a = archive /\ st = stack /\ name = Last(p)
  BY <1>2, <1>4
<1>8. PICK c : c = a \o b
  OBVIOUS
<1>9. c \in Seq(Item) /\ Sizes(c) = n + Sizes(b) /\ Sizes(b) \in Nat
  BY <1>2, <1>5, <1>7, <1>8, SizesConcat
<1>10. PICK e \in Int : e = n + Sizes(b) /\ e = Sizes(c)
  BY <1>2, <1>9
<1>11. PICK g : g = WithRow(NextName(Top), name, n, e)
  OBVIOUS
<1>12. /\ g \in FrameType /\ g.path = Top.path /\ g.start = Top.start
       /\ g.rows = Append(Top.rows, Row(name, n, e))
  <2>1. n \in Int
    BY <1>2
  <2>2. WithRow(NextName(Top), name, n, e) \in FrameType /\ WithRow(NextName(Top), name, n, e).path = Top.path
    BY <1>2, <1>4, <2>1, RowMade
  <2>3. /\ WithRow(NextName(Top), name, n, e).start = Top.start
        /\ WithRow(NextName(Top), name, n, e).rows = Append(Top.rows, Row(name, n, e))
    BY <1>2, RowsKept
  <2> QED
    BY <1>11, <2>2, <2>3
<1>13. Goodbyes(c) /\ Continues(a, c)
  <2>1. Goodbyes(a) /\ c = a \o Block(p)
    BY <1>1, <1>5, <1>7, <1>8
  <2> QED
    BY <1>2, <1>4, <1>9, <2>1, BlockGoodbyes
<1>14. Len(a) + 1 \in 1 .. Len(c) /\ c[Len(a) + 1] = Filename(name)
  <2>1. c = a \o Block(p)
    BY <1>5, <1>8
  <2>2. Len(a) + 1 \in 1 .. Len(c) /\ c[Len(a) + 1] = Filename(Last(p))
    BY <1>2, <1>4, <1>9, <2>1, NameWritten
  <2> QED
    BY <1>7, <2>2
<1>15. PICK s : s = ReplaceAt(st, Len(st), g)
  OBVIOUS
<1>16. Tables(c, s)
  <2>1. Len(st) >= 1 /\ Tables(a, st) /\ g.path = st[Len(st)].path /\ g.start = st[Len(st)].start
    BY <1>1, <1>2, <1>7, <1>12
  <2>2. g.rows = Append(st[Len(st)].rows, Row(name, Sizes(a), Sizes(c)))
    BY <1>2, <1>7, <1>10, <1>12
  <2>3. Tables(c, ReplaceAt(st, Len(st), g))
    BY <1>9, <1>12, <1>13, <1>14, <2>1, <2>2, LeafTables
  <2> QED
    BY <1>15, <2>3
<1>17. archive' = c /\ stack' = s
  BY <1>3, <1>6, <1>7, <1>8, <1>10, <1>11, <1>15 DEF EncodeLeaf
<1> QED
  BY <1>13, <1>16, <1>17, TablesOn

(* EncodeDir.                                                              *)
LEMMA EncodeDirTables ==
  ASSUME PxarInv, TablesInv, EncodeDir
  PROVE  TablesInv'
<1>1. pc = "encode" /\ Goodbyes(archive) /\ Tables(archive, stack)
  BY DEF EncodeDir, TablesInv
<1>2. /\ Input /\ archive \in Seq(Item) /\ n = Sizes(archive) /\ n \in Nat
      /\ stack \in Seq(FrameType) /\ StackOK(stack)
  BY <1>1, AtWork
<1>3. PICK p : p = Child
  OBVIOUS
<1>4. /\ tree[p].kind = "dir" /\ p \in DOMAIN tree /\ p # <<>> /\ p \in Seq(Names)
      /\ Last(p) \in Names
  BY <1>2, <1>3, ChildIs DEF EncodeDir
<1>5. PICK b \in Seq(Item) : b = Block(p)
  BY <1>2, <1>4, BlockIs
<1>6. b = <<Filename(Last(p)), Entry(tree[p])>> \o Xattrs(tree[p])
  BY <1>2, <1>4, <1>5, BlockWrittenFor DEF Opening
<1>7. PICK a \in Seq(Item), st \in Seq(FrameType) : a = archive /\ st = stack
  BY <1>2
<1>8. PICK c : c = a \o b
  OBVIOUS
<1>9. c \in Seq(Item)
  BY <1>5, <1>8, SizesConcat
<1>10. Filename(Last(p)) \in Item
  BY <1>4 DEF Filename, Item
<1>11. PICK o \in Int : o = n + Size(Filename(Last(p)))
  BY <1>2, <1>10, SizeIs
<1>12. PICK g : g = Frame(p, o)
  OBVIOUS
<1>13. g \in FrameType /\ g.path = p /\ g.start = o /\ g.rows = <<>>
  <2>1. Frame(p, o) \in FrameType /\ Frame(p, o).path = p
    BY <1>2, <1>4, FrameMade
  <2>2. g.start = o /\ g.rows = <<>>
    BY <1>12 DEF Frame
  <2> QED
    BY <1>12, <2>1, <2>2
<1>14. Goodbyes(c) /\ Continues(a, c)
  <2>1. Goodbyes(a) /\ c = a \o Block(p)
    BY <1>1, <1>5, <1>7, <1>8
  <2> QED
    BY <1>2, <1>4, <1>9, <2>1, BlockGoodbyes
<1>15. PICK s : s = Append(st, g)
  OBVIOUS
<1>16. Tables(c, s)
  <2>1. c = a \o Block(p) /\ Tables(a, st)
    BY <1>1, <1>5, <1>7, <1>8
  <2>2. g.start = Sizes(a) + Size(Filename(Last(p)))
    BY <1>2, <1>7, <1>11, <1>13
  <2>3. Tables(c, Append(st, g))
    BY <1>2, <1>4, <1>9, <1>10, <1>13, <1>14, <2>1, <2>2, DirTables
  <2> QED
    BY <1>15, <2>3
<1>17. archive' = c /\ stack' = s
  BY <1>3, <1>6, <1>7, <1>8, <1>11, <1>12, <1>15 DEF EncodeDir
<1> QED
  BY <1>14, <1>16, <1>17, TablesOn

-----------------------------------------------------------------------------
(* The end of a directory keeps it, and so does the decoder.               *)

(* EncodeGoodbye; that of the root leaves no directory on the stack.       *)
LEMMA EncodeGoodbyeTables ==
  ASSUME PxarInv, TablesInv, EncodeGoodbye
  PROVE  TablesInv'
<1>1. pc = "encode" /\ Goodbyes(archive) /\ Tables(archive, stack)
  BY DEF EncodeGoodbye, TablesInv
<1>2. /\ Input /\ archive \in Seq(Item) /\ n = Sizes(archive) /\ n \in Nat
      /\ stack \in Seq(FrameType) /\ Len(stack) \in Nat /\ Len(stack) >= 1
      /\ StackOK(stack) /\ Top = stack[Len(stack)] /\ Top \in FrameType /\ Top.names = <<>>
  BY <1>1, AtWork DEF EncodeGoodbye
<1>3. PICK a \in Seq(Item), st \in Seq(FrameType), f \in FrameType, L \in Nat :
        a = archive /\ st = stack /\ f = Top /\ L = Len(st) /\ L >= 1
  BY <1>2
<1>4. Tabled(a, f, Sizes(a))
  <2>1. Tables(a, st) /\ L \in 1 .. Len(st) /\ st[L] = f
    BY <1>1, <1>2, <1>3
  <2>2. Stop(a, st, L) = Sizes(a)
    BY <1>3 DEF Stop
  <2> QED
    BY <2>1, <2>2 DEF Tables
<1>5. PICK e \in Item : e = Table(f)
  BY <1>2, <1>3, TableMade
<1>6. PICK c : c = Append(a, e)
  OBVIOUS
<1>7. c \in Seq(Item) /\ Sizes(c) = n + Size(e)
  BY <1>2, <1>3, <1>6, SizesAppend
<1>8. Goodbyes(c) /\ Continues(a, c)
  <2>1. n = Sizes(a) /\ Goodbyes(a) /\ c = Append(a, Table(f))
    BY <1>1, <1>2, <1>3, <1>5, <1>6
  <2> QED
    BY <1>4, <1>7, <2>1, TableGoodbyes
<1>9. archive' = c /\ n' = Sizes(c)
  BY <1>3, <1>5, <1>6, <1>7 DEF EncodeGoodbye
<1>10. CASE L = 1
  <2>1. PICK s : s = stack'
    OBVIOUS
  <2>2. pc' = "version"
    BY <1>3, <1>10 DEF EncodeGoodbye
  <2>3. pc' = "encode" => Tables(c, s)
    BY <2>2
  <2> QED
    BY <1>8, <1>9, <2>1, <2>3, TablesOn
<1>11. CASE L # 1
  <2>1. L - 1 \in 1 .. L /\ L - 1 \in 1 .. L - 1 /\ (L - 1) + 1 = L /\ L >= 2
    BY <1>3, <1>11
  <2>2. PICK parent \in FrameType : parent = st[L - 1]
    BY <1>3, <2>1, ElementOfSeq
  <2>3. FrameOK(parent) /\ parent.names # <<>> /\ f.path = Current(parent)
    BY <1>2, <1>3, <2>1, <2>2 DEF StackOK
  <2>4. f.path # <<>> /\ Last(f.path) \in Names
    <3>1. PICK q \in Seq(Names), s \in Seq(Names) : q = parent.path /\ s = parent.names
      BY <1>2, <2>3, FrameIs
    <3>2. Head(s) \in Names
      BY <2>3, <3>1, NamesLeft
    <3>3. Last(Append(q, Head(s))) = Head(s) /\ Append(q, Head(s)) # <<>>
      BY <3>1, <3>2, ChildParts
    <3>4. f.path = Append(q, Head(s))
      BY <2>3, <3>1 DEF Current
    <3> QED
      BY <3>2, <3>3, <3>4
  <2>5. PICK name \in Names : name = Last(f.path)
    BY <2>4
  <2>6. PICK o \in Int : o = f.start - Size(Filename(name))
    <3>1. Filename(name) \in Item
      BY DEF Filename, Item
    <3>2. Size(Filename(name)) \in Nat
      BY <3>1, SizeIs
    <3>3. f.start \in Int
      BY DEF FrameType
    <3> QED
      BY <3>2, <3>3
  <2>7. PICK m \in Int : m = Sizes(c) /\ m = n'
    <3>1. Size(e) \in Nat
      BY SizeIs
    <3> QED
      BY <1>2, <1>7, <1>9, <3>1
  <2>8. PICK g : g = WithRow(NextName(parent), name, o, m)
    OBVIOUS
  <2>9. /\ g \in FrameType /\ g.path = parent.path /\ g.start = parent.start
        /\ g.rows = Append(parent.rows, Row(name, o, m))
    <3>1. WithRow(NextName(parent), name, o, m) \in FrameType
          /\ WithRow(NextName(parent), name, o, m).path = parent.path
      BY <2>3, RowMade
    <3>2. /\ WithRow(NextName(parent), name, o, m).start = parent.start
          /\ WithRow(NextName(parent), name, o, m).rows = Append(parent.rows, Row(name, o, m))
      BY RowsKept
    <3> QED
      BY <2>8, <3>1, <3>2
  <2>10. PICK s : s = Append(SubSeq(st, 1, Len(st) - 2), g)
    OBVIOUS
  <2>11. Tables(c, s)
    <3>1. Len(st) >= 2 /\ Tables(a, st) /\ f = st[Len(st)]
      BY <1>1, <1>2, <1>3, <2>1
    <3>2. g.path = st[Len(st) - 1].path /\ g.start = st[Len(st) - 1].start
      BY <1>3, <2>2, <2>9
    <3>3. g.rows = Append(st[Len(st) - 1].rows, Row(name, f.start - Size(Filename(name)), Sizes(c)))
      BY <1>3, <2>2, <2>6, <2>7, <2>9
    <3>4. Tables(c, Append(SubSeq(st, 1, Len(st) - 2), g))
      BY <1>7, <1>8, <2>4, <2>5, <2>9, <3>1, <3>2, <3>3, PopTables
    <3> QED
      BY <2>10, <3>4
  <2>12. stack' = s
    BY <1>3, <1>11, <2>2, <2>5, <2>6, <2>7, <2>8, <2>10 DEF EncodeGoodbye
  <2> QED
    BY <1>8, <1>9, <2>11, <2>12, TablesOn
<1> QED
  BY <1>10, <1>11

(* Every step; the decoder writes nothing.                                 *)
LEMMA TablesStep ==
  ASSUME PxarInv, TablesInv, [Next]_vars
  PROVE  TablesInv'
<1>1. CASE SkipChild
  BY <1>1, SkipChildTables
<1>2. CASE EncodeLeaf
  BY <1>2, EncodeLeafTables
<1>3. CASE EncodeDir
  BY <1>3, EncodeDirTables
<1>4. CASE EncodeGoodbye
  BY <1>4, EncodeGoodbyeTables
<1>5. CASE UNCHANGED <<archive, stack>> /\ (pc' = "encode" => pc = "encode")
  <2>1. PICK a, s : a = archive /\ s = stack
    OBVIOUS
  <2>2. Goodbyes(a) /\ (pc = "encode" => Tables(a, s))
    BY <2>1 DEF TablesInv
  <2>3. archive' = a /\ stack' = s /\ (pc' = "encode" => Tables(a, s))
    BY <1>5, <2>1, <2>2
  <2> QED
    BY <2>2, <2>3, TablesOn
<1>6. CASE UNCHANGED vars \/ Over
  <2>1. UNCHANGED <<archive, stack>> /\ pc' = pc
    BY <1>6 DEF Over, vars, encoder
  <2> QED
    BY <1>5, <2>1
<1>7. CASE DecodeVersion \/ DecodeEntry \/ DecodeXattr
  <2>1. UNCHANGED <<archive, stack>> /\ pc' # "encode"
    BY <1>7 DEF DecodeVersion, DecodeEntry, DecodeXattr, encoder
  <2> QED
    BY <1>5, <2>1
<1>8. CASE DecodeDir \/ DecodeLeaf \/ DecodeName
  <2>1. UNCHANGED <<archive, stack>> /\ pc' # "encode"
    BY <1>8 DEF DecodeDir, DecodeLeaf, DecodeName, encoder
  <2> QED
    BY <1>5, <2>1
<1>9. CASE DecodeGoodbye
  <2>1. UNCHANGED <<archive, stack>> /\ pc' # "encode"
    BY <1>9 DEF DecodeGoodbye, encoder
  <2> QED
    BY <1>5, <2>1
<1>10. Next \/ UNCHANGED vars
  OBVIOUS
<1> QED
  BY <1>1, <1>2, <1>3, <1>4, <1>6, <1>7, <1>8, <1>9, <1>10, Zenon DEF Next

-----------------------------------------------------------------------------
(* What a reader finds; the theorem about the tables.                      *)

(* The row of the k-th child leads to its FILENAME, and has its bytes.     *)
LEMMA RowLeads ==
  ASSUME archive \in Seq(Item), NEW g \in 1 .. Len(archive), NEW h, NEW q, NEW m,
         LeadsBy(archive, g, h, q, m),
         NEW row, NEW k \in 1 .. m, row = Back(RowOf(archive, q, k), Offset(archive, g - 1))
  PROVE  /\ ItemAt(Start(g) - row.offset) = q[k] /\ archive[q[k]].item = "filename"
         /\ Hash[archive[q[k]].name] = row.hash
         /\ \A x : x \in Start(g) - row.offset .. Start(g) - row.offset + row.size - 1 <=>
                     x \in Offset(archive, q[k] - 1) .. Offset(archive, q[k + 1] - 1) - 1
<1>1. Cuts(archive, h, q, m, g)
  BY DEF LeadsBy
<1>2. /\ q[k] \in 1 .. Len(archive) /\ q[k] - 1 \in 0 .. Len(archive)
      /\ q[k + 1] - 1 \in 0 .. Len(archive) /\ g - 1 \in 0 .. Len(archive)
  BY <1>1, CutsAre
<1>3. PICK N \in Nat, b \in Nat, e \in Nat :
        N = Offset(archive, g - 1) /\ b = Offset(archive, q[k] - 1) /\ e = Offset(archive, q[k + 1] - 1)
  BY <1>2, OffsetIs
<1>4. PICK r : r = row
  OBVIOUS
<1>5. r = [[hash |-> Hash[archive[q[k]].name], offset |-> b, size |-> e - b] EXCEPT !.offset = N - @]
  BY <1>3, <1>4 DEF Back, RowOf, Row
<1>6. r.offset = N - b /\ r.size = e - b /\ r.hash = Hash[archive[q[k]].name]
  BY <1>5
<1>7. Start(g) = N
  BY <1>3, StartIs
<1>8. Start(g) - r.offset = b
  BY <1>3, <1>6, <1>7
<1>9. ItemAt(b) = q[k]
  <2>1. Start(q[k]) = b
    BY <1>2, <1>3, StartIs
  <2>2. ItemAt(Start(q[k])) = q[k]
    BY <1>2, StartIs
  <2> QED
    BY <2>1, <2>2
<1>10. archive[q[k]].item = "filename"
  BY <1>1 DEF Cuts
<1>11. b + r.size - 1 = e - 1
  BY <1>3, <1>6
<1>12. /\ ItemAt(Start(g) - r.offset) = q[k] /\ Hash[archive[q[k]].name] = r.hash
       /\ Start(g) - r.offset .. Start(g) - r.offset + r.size - 1 = b .. e - 1
  BY <1>6, <1>8, <1>9, <1>11
<1> QED
  BY <1>3, <1>4, <1>10, <1>12

(* The first item behind the attributes of a directory is its first        *)
(* child, or its GOODBYE if there is none.                                 *)
LEMMA FirstChild ==
  ASSUME archive \in Seq(Item), NEW g \in 1 .. Len(archive), archive[g].item = "goodbye",
         NEW h, NEW q, NEW m, Cuts(archive, h, q, m, g)
  PROVE  q[1] = CHOOSE i \in h + 1 .. g : /\ archive[i].item # "xattr"
                                          /\ \A j \in h + 1 .. i - 1 : archive[j].item = "xattr"
<1>1. /\ h \in Nat /\ m \in Nat /\ g \in Nat
      /\ \A i \in 1 .. m + 1 : q[i] \in h + 1 .. Len(archive) + 1 /\ q[i] \in Nat
      /\ \A i, j \in 1 .. m + 1 : i < j => q[i] < q[j]
  BY CutsAre
<1>2. q[m + 1] = g /\ (m # 0 => archive[q[1]].item = "filename")
  BY <1>1 DEF Cuts
<1>3. PICK f \in Nat : f = q[1] /\ f \in h + 1 .. g
  <2>1. 1 \in 1 .. m + 1 /\ m + 1 \in 1 .. m + 1 /\ (m = 0 \/ 1 < m + 1)
    BY <1>1
  <2>2. q[1] \in Nat /\ q[1] >= h + 1 /\ q[1] <= g
    BY <1>1, <1>2, <2>1
  <2> QED
    BY <1>1, <2>2
<1>4. archive[f].item # "xattr"
  BY <1>2, <1>3
<1>5. \A j \in h + 1 .. f - 1 : archive[j].item = "xattr"
  BY <1>3 DEF Cuts
<1>6. ASSUME NEW i \in h + 1 .. g, archive[i].item # "xattr",
             \A j \in h + 1 .. i - 1 : archive[j].item = "xattr"
      PROVE  i = f
  <2>1. ~(i < f)
    BY <1>1, <1>3, <1>5, <1>6
  <2>2. ~(f < i)
    BY <1>1, <1>3, <1>4, <1>6
  <2> QED
    BY <1>1, <1>3, <2>1, <2>2
<1> QED
  BY <1>3, <1>4, <1>5, <1>6

(* What TablesLead says, from the invariant.                               *)
LEMMA TablesFollow ==
  ASSUME PxarInv, TablesInv
  PROVE  TablesLead
<1>1. archive \in Seq(Item) /\ DOMAIN archive = 1 .. Len(archive) /\ Goodbyes(archive)
  BY LenProperties DEF PxarInv, TablesInv
<1> DEFINE here(g) == ItemAt(Start(g) - archive[g].tail.offset)
           first(g) == CHOOSE i \in here(g) + 1 .. g :
                         /\ archive[i].item # "xattr"
                         /\ \A j \in here(g) + 1 .. i - 1 : archive[j].item = "xattr"
           From(g, row) == Start(g) - row.offset
           Spans(g, row) == From(g, row) .. From(g, row) + row.size - 1
<1>2. SUFFICES ASSUME NEW g \in DOMAIN archive, archive[g].item = "goodbye"
      PROVE  /\ archive[here(g)].item = "entry" /\ archive[here(g)].kind = "dir"
             /\ archive[g].tail.size = Size(archive[g])
             /\ \A i \in DOMAIN archive[g].rows :
                  /\ archive[ItemAt(From(g, archive[g].rows[i]))].item = "filename"
                  /\ Hash[archive[ItemAt(From(g, archive[g].rows[i]))].name] = archive[g].rows[i].hash
             /\ \A i, j \in DOMAIN archive[g].rows :
                  i < j => /\ archive[g].rows[i].hash <= archive[g].rows[j].hash
                           /\ Spans(g, archive[g].rows[i]) \intersect Spans(g, archive[g].rows[j]) = {}
             /\ UNION {Spans(g, archive[g].rows[i]) : i \in DOMAIN archive[g].rows}
                  = Start(first(g)) .. Start(g) - 1
  BY DEF TablesLead
<1>3. g \in 1 .. Len(archive) /\ archive[g] \in Item
  BY <1>1, ElementOfSeq
<1>4. PICK rows \in Seq(TableRow) : rows = archive[g].rows /\ DOMAIN rows = 1 .. Len(rows)
  BY <1>2, <1>3 DEF Item
<1>5. PICK h, q, m : LeadsBy(archive, g, h, q, m)
  BY <1>1, <1>2, <1>3 DEF Goodbyes, Leads
<1>6. /\ Cuts(archive, h, q, m, g) /\ m = Len(rows) /\ archive[g].tail.size = Size(archive[g])
      /\ Offset(archive, h - 1) = Offset(archive, g - 1) - archive[g].tail.offset
      /\ \A i \in 1 .. m : \E k \in 1 .. m : rows[i] = Back(RowOf(archive, q, k), Offset(archive, g - 1))
      /\ \A k \in 1 .. m : \E i \in 1 .. m : rows[i] = Back(RowOf(archive, q, k), Offset(archive, g - 1))
      /\ \A i, j \in 1 .. m : i < j => rows[i] # rows[j] /\ rows[i].hash <= rows[j].hash
  BY <1>4, <1>5 DEF LeadsBy
<1>7. /\ h \in 1 .. Len(archive) /\ m \in Nat /\ 1 \in 1 .. m + 1 /\ m + 1 \in 1 .. m + 1
      /\ \A k \in 1 .. m + 1 : q[k] \in Nat /\ q[k] - 1 \in 0 .. Len(archive)
  BY <1>1, <1>6, CutsAre
<1>8. here(g) = h
  <2>1. Start(g) - archive[g].tail.offset = Start(h)
    BY <1>1, <1>3, <1>6, <1>7, StartIs
  <2> QED
    BY <1>1, <1>7, <2>1, StartIs
<1>9. archive[here(g)].item = "entry" /\ archive[here(g)].kind = "dir"
  BY <1>6, <1>8 DEF Cuts
<1>10. first(g) = q[1]
  BY <1>1, <1>2, <1>3, <1>6, <1>8, FirstChild
<1>11. Start(first(g)) = Offset(archive, q[1] - 1) /\ Start(g) = Offset(archive, q[m + 1] - 1)
  <2>1. q[m + 1] = g /\ \A i : Start(i) = Offset(archive, i - 1)
    BY <1>6 DEF Cuts, Start, Offset
  <2> QED
    BY <1>10, <2>1
<1> HIDE DEF here, first
<1>12. ASSUME NEW i \in 1 .. m
       PROVE  \E k \in 1 .. m :
                /\ rows[i] = Back(RowOf(archive, q, k), Offset(archive, g - 1))
                /\ archive[ItemAt(From(g, rows[i]))].item = "filename"
                /\ Hash[archive[ItemAt(From(g, rows[i]))].name] = rows[i].hash
                /\ \A x : x \in Spans(g, rows[i]) <=>
                            x \in Offset(archive, q[k] - 1) .. Offset(archive, q[k + 1] - 1) - 1
  <2>1. PICK k \in 1 .. m : rows[i] = Back(RowOf(archive, q, k), Offset(archive, g - 1))
    BY <1>6
  <2>2. /\ ItemAt(Start(g) - rows[i].offset) = q[k] /\ archive[q[k]].item = "filename"
        /\ Hash[archive[q[k]].name] = rows[i].hash
        /\ \A x : x \in Start(g) - rows[i].offset .. Start(g) - rows[i].offset + rows[i].size - 1 <=>
                    x \in Offset(archive, q[k] - 1) .. Offset(archive, q[k + 1] - 1) - 1
    BY <1>1, <1>3, <1>5, <2>1, RowLeads
  <2> QED
    BY <2>1, <2>2
<1> HIDE DEF From, Spans
<1>13. ASSUME NEW i \in 1 .. m, NEW j \in 1 .. m, i < j
       PROVE  rows[i].hash <= rows[j].hash /\ Spans(g, rows[i]) \intersect Spans(g, rows[j]) = {}
  <2>1. rows[i] # rows[j] /\ rows[i].hash <= rows[j].hash
    BY <1>6, <1>13
  <2>2. PICK k \in 1 .. m :
          /\ rows[i] = Back(RowOf(archive, q, k), Offset(archive, g - 1))
          /\ \A x : x \in Spans(g, rows[i]) <=>
                      x \in Offset(archive, q[k] - 1) .. Offset(archive, q[k + 1] - 1) - 1
    BY <1>12
  <2>3. PICK l \in 1 .. m :
          /\ rows[j] = Back(RowOf(archive, q, l), Offset(archive, g - 1))
          /\ \A x : x \in Spans(g, rows[j]) <=>
                      x \in Offset(archive, q[l] - 1) .. Offset(archive, q[l + 1] - 1) - 1
    BY <1>12
  <2>4. k # l
    BY <2>1, <2>2, <2>3
  <2>5. /\ k \in 1 .. m + 1 /\ l \in 1 .. m + 1 /\ k + 1 \in 1 .. m + 1 /\ l + 1 \in 1 .. m + 1
        /\ k < l \/ l < k
    BY <1>7, <2>4
  <2>6. k < l => Offset(archive, q[k + 1] - 1) <= Offset(archive, q[l] - 1)
    BY <1>1, <1>6, <2>5, SpansApart
  <2>7. l < k => Offset(archive, q[l + 1] - 1) <= Offset(archive, q[k] - 1)
    BY <1>1, <1>6, <2>5, SpansApart
  <2>8. /\ Offset(archive, q[k] - 1) \in Nat /\ Offset(archive, q[k + 1] - 1) \in Nat
        /\ Offset(archive, q[l] - 1) \in Nat /\ Offset(archive, q[l + 1] - 1) \in Nat
    BY <1>1, <1>7, <2>5, OffsetIs
  <2>9. ASSUME NEW x, x \in Spans(g, rows[i]), x \in Spans(g, rows[j]) PROVE FALSE
    <3>1. /\ x \in Offset(archive, q[k] - 1) .. Offset(archive, q[k + 1] - 1) - 1
          /\ x \in Offset(archive, q[l] - 1) .. Offset(archive, q[l + 1] - 1) - 1
      BY <2>2, <2>3, <2>9
    <3> QED
      BY <2>5, <2>6, <2>7, <2>8, <3>1
  <2> QED
    BY <2>1, <2>9
<1>14. ASSUME NEW x
       PROVE  (\E i \in 1 .. m : x \in Spans(g, rows[i])) <=>
                x \in Offset(archive, q[1] - 1) .. Offset(archive, q[m + 1] - 1) - 1
  <2>1. \A k \in 1 .. m + 1 : Offset(archive, q[k] - 1) \in Nat
    BY <1>1, <1>7, OffsetIs
  <2>2. PICK lo \in Nat, hi \in Nat : lo = Offset(archive, q[1] - 1) /\ hi = Offset(archive, q[m + 1] - 1)
    BY <1>7, <2>1
  <2>3. ASSUME NEW i \in 1 .. m, x \in Spans(g, rows[i])
        PROVE  x \in Offset(archive, q[1] - 1) .. Offset(archive, q[m + 1] - 1) - 1
    <3>1. PICK k \in 1 .. m : x \in Offset(archive, q[k] - 1) .. Offset(archive, q[k + 1] - 1) - 1
      BY <1>12, <2>3
    <3>2. /\ k \in 1 .. m + 1 /\ k + 1 \in 1 .. m + 1 /\ (k = 1 \/ 1 < k)
          /\ (k = m \/ k + 1 < m + 1)
      BY <1>7
    <3>3. Offset(archive, q[1] - 1) <= Offset(archive, q[k] - 1)
      <4>1. 1 < k => Offset(archive, q[1] - 1) < Offset(archive, q[k] - 1)
        BY <1>1, <1>6, <1>7, <3>2, SpansApart
      <4> QED
        BY <1>7, <2>1, <3>2, <4>1
    <3>4. Offset(archive, q[k + 1] - 1) <= Offset(archive, q[m + 1] - 1)
      <4>1. k + 1 < m + 1 => Offset(archive, q[k + 1] - 1) < Offset(archive, q[m + 1] - 1)
        BY <1>1, <1>6, <1>7, <3>2, SpansApart
      <4> QED
        BY <1>7, <2>1, <3>2, <4>1
    <3>5. PICK u \in Nat, v \in Nat : u = Offset(archive, q[k] - 1) /\ v = Offset(archive, q[k + 1] - 1)
      BY <2>1, <3>2
    <3>6. x \in u .. v - 1 /\ lo <= u /\ v <= hi
      BY <2>2, <3>1, <3>3, <3>4, <3>5
    <3>7. x \in lo .. hi - 1
      BY ONLY lo \in Nat, hi \in Nat, u \in Nat, v \in Nat, <3>6
    <3> QED
      BY <2>2, <3>7
  <2>4. ASSUME x \in Offset(archive, q[1] - 1) .. Offset(archive, q[m + 1] - 1) - 1
        PROVE  \E i \in 1 .. m : x \in Spans(g, rows[i])
    <3>1. x \in Nat /\ Offset(archive, q[1] - 1) <= x /\ x < Offset(archive, q[m + 1] - 1) /\ q[m + 1] = g
      <4>1. x \in lo .. hi - 1
        BY <2>4, <2>2
      <4>2. x \in Nat /\ lo <= x /\ x < hi
        BY ONLY lo \in Nat, hi \in Nat, <4>1
      <4>3. q[m + 1] = g
        BY <1>6 DEF Cuts
      <4> QED
        BY <2>2, <4>2, <4>3
    <3>2. PICK k \in 1 .. m : Offset(archive, q[k] - 1) <= x /\ x < Offset(archive, q[k + 1] - 1)
      BY <1>1, <1>6, <3>1, SpanOf
    <3>3. PICK i \in 1 .. m : rows[i] = Back(RowOf(archive, q, k), Offset(archive, g - 1))
      BY <1>6
    <3>4. \A y : y \in Start(g) - rows[i].offset .. Start(g) - rows[i].offset + rows[i].size - 1 <=>
                   y \in Offset(archive, q[k] - 1) .. Offset(archive, q[k + 1] - 1) - 1
      BY <1>1, <1>3, <1>5, <3>3, RowLeads
    <3>5. k \in 1 .. m + 1 /\ k + 1 \in 1 .. m + 1
      BY <1>7
    <3>6. x \in Offset(archive, q[k] - 1) .. Offset(archive, q[k + 1] - 1) - 1
      BY <2>1, <3>1, <3>2, <3>5
    <3> QED
      BY <3>4, <3>6 DEF Spans, From
  <2> QED
    BY <2>3, <2>4
<1>15. UNION {Spans(g, rows[i]) : i \in 1 .. m} = Start(first(g)) .. Start(g) - 1
  BY <1>11, <1>14
<1>16. DOMAIN archive[g].rows = 1 .. m /\ archive[g].tail.size = Size(archive[g])
  BY <1>4, <1>6
<1>17. /\ \A i \in DOMAIN archive[g].rows :
            /\ archive[ItemAt(From(g, archive[g].rows[i]))].item = "filename"
            /\ Hash[archive[ItemAt(From(g, archive[g].rows[i]))].name] = archive[g].rows[i].hash
       /\ \A i, j \in DOMAIN archive[g].rows :
            i < j => /\ archive[g].rows[i].hash <= archive[g].rows[j].hash
                     /\ Spans(g, archive[g].rows[i]) \intersect Spans(g, archive[g].rows[j]) = {}
  <2>1. \A i \in DOMAIN archive[g].rows :
          /\ archive[ItemAt(From(g, archive[g].rows[i]))].item = "filename"
          /\ Hash[archive[ItemAt(From(g, archive[g].rows[i]))].name] = archive[g].rows[i].hash
    BY <1>4, <1>12, <1>16
  <2>2. \A i, j \in DOMAIN archive[g].rows :
          i < j => /\ archive[g].rows[i].hash <= archive[g].rows[j].hash
                   /\ Spans(g, archive[g].rows[i]) \intersect Spans(g, archive[g].rows[j]) = {}
    BY <1>4, <1>13, <1>16
  <2> QED
    BY <2>1, <2>2
<1>18. UNION {Spans(g, archive[g].rows[i]) : i \in DOMAIN archive[g].rows} = Start(first(g)) .. Start(g) - 1
  BY <1>4, <1>15, <1>16
<1> QED
  BY <1>9, <1>16, <1>17, <1>18

(* The tables of every archive lead a reader that does not walk it to the  *)
(* children and the ENTRY of each directory (writeGoodbye).                *)
THEOREM TablesAreRight == Spec => []TablesLead
<1>1. Init => PxarInv /\ TablesInv
  BY StartsOK, TablesStart
<1>2. PxarInv /\ TablesInv /\ [Next]_vars => (PxarInv /\ TablesInv)'
  BY PxarInvInductive, TablesStep
<1>3. PxarInv /\ TablesInv => TablesLead
  BY TablesFollow
<1> QED
  BY <1>1, <1>2, <1>3, PTL DEF Spec
=============================================================================
