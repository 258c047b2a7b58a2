------------------------------ MODULE FoldProofs ------------------------------
(***************************************************************************)
(* What MapThenFoldSet of the community modules computes, for any operator *)
(* and any choice of elements: the lemmas that the proofs about sums and   *)
(* about sequences of events and frames rest on.                           *)
(*                                                                         *)
(* The fold is defined by recursion over the subsets of a set. Induction   *)
(* over them is stated for a set of subsets, not for a predicate, and      *)
(* follows from strict inclusion being well-founded. The operator is a     *)
(* constant of the module, which each use replaces by its own.             *)
(***************************************************************************)
EXTENDS Integers, Sequences, SequencesExt, FiniteSetTheorems, SequenceTheorems,
        NaturalsInduction, WellFoundedInduction, TLAPS

CONSTANTS Op(_, _), Pick(_)

Fold(f, base, S) == MapThenFoldSet(Op, base, LAMBDA x : f[x], Pick, S)

PicksFrom(S) == IsFiniteSet(S) /\ \A s \in SUBSET S : s # {} => Pick(s) \in s

-----------------------------------------------------------------------------
(* The fold exists and is unique *)

\* What holds of a set as soon as it holds of its smaller subsets holds of all.
LEMMA SubsetInduction ==
    ASSUME NEW S, IsFiniteSet(S), NEW W,
           \A T \in SUBSET S : (\A U \in SUBSET T : U # T => U \in W) => T \in W
    PROVE  \A T \in SUBSET S : T \in W
<1> SUFFICES ASSUME (SUBSET S) \ W # {} PROVE FALSE
  OBVIOUS
<1>1. FiniteSubsetsOf(S) = SUBSET S
  BY FS_FiniteSubsetsOfFinite
<1>2. IsWellFoundedOn(StrictSubsetOrdering(S), FiniteSubsetsOf(S))
  BY FS_StrictSubsetOrderingWellFounded
<1>3. IsWellFoundedOn(StrictSubsetOrdering(S), SUBSET S)
  BY <1>1, <1>2
<1> DEFINE V == (SUBSET S) \ W
<1>4. V \subseteq SUBSET S /\ V # {}
  OBVIOUS
<1>5. \E T \in V : \A U \in V : <<U, T>> \notin StrictSubsetOrdering(S)
  <2> HIDE DEF V
  <2> QED BY <1>3, <1>4, WFMin
<1>6. PICK T \in V : \A U \in V : <<U, T>> \notin StrictSubsetOrdering(S)
  BY <1>5
<1>7. \A U \in SUBSET T : U # T => <<U, T>> \in StrictSubsetOrdering(S) /\ U \in SUBSET S
  BY DEF StrictSubsetOrdering
<1>8. ASSUME NEW U \in SUBSET T, U # T PROVE U \in W
  <2>1. U \notin V
    <3> HIDE DEF V
    <3> QED BY <1>6, <1>7, <1>8
  <2> QED BY <1>7, <1>8, <2>1
<1> QED BY <1>8

\* g holds the folds over the subsets of S.
FoldsOn(g, f, base, S) ==
    g = [s \in SUBSET S |-> IF s = {} THEN base ELSE Op(f[Pick(s)], g[s \ {Pick(s)}])]

\* The function by which the fold over S is defined.
Chosen(f, base, S) == CHOOSE g : FoldsOn(g, f, base, S)

\* The definitions of the community modules, expanded.
LEMMA FoldIsChosen ==
    ASSUME NEW f, NEW base, NEW S
    PROVE  Fold(f, base, S) = Chosen(f, base, S)[S]
BY Zenon DEF Fold, MapThenFoldSet, Chosen, FoldsOn

\* What is left when an element is taken is smaller.
LEMMA PickLeaves ==
    ASSUME NEW S, PicksFrom(S)
    PROVE  /\ \A s \in SUBSET S : PicksFrom(s)
           /\ \A s \in SUBSET S : s # {} =>
                 Pick(s) \in s /\ s \ {Pick(s)} \in SUBSET s /\ s \ {Pick(s)} # s
<1>1. ASSUME NEW s \in SUBSET S PROVE PicksFrom(s)
  <2>1. IsFiniteSet(s)
    BY FS_Subset DEF PicksFrom
  <2> QED BY <2>1 DEF PicksFrom
<1> QED BY <1>1 DEF PicksFrom

\* Folds over the subsets of S and of a subset T agree.
LEMMA FoldsUnique ==
    ASSUME NEW S, PicksFrom(S), NEW f, NEW base, NEW g, NEW h, FoldsOn(g, f, base, S),
           NEW T \in SUBSET S, FoldsOn(h, f, base, T)
    PROVE  \A s \in SUBSET T : g[s] = h[s]
<1> DEFINE W == {s \in SUBSET T : g[s] = h[s]}
<1>1. IsFiniteSet(T) /\ PicksFrom(T)
  BY PickLeaves DEF PicksFrom
<1>2. ASSUME NEW s \in SUBSET T, \A u \in SUBSET s : u # s => u \in W
      PROVE  s \in W
  <2>1. CASE s = {}
    BY <2>1 DEF FoldsOn
  <2>2. CASE s # {}
    <3>1. s \ {Pick(s)} \in W
      BY <1>1, <1>2, <2>2, PickLeaves
    <3>2. g[s] = Op(f[Pick(s)], g[s \ {Pick(s)}])
      BY <2>2, Zenon DEF FoldsOn
    <3>3. h[s] = Op(f[Pick(s)], h[s \ {Pick(s)}])
      BY <2>2, Zenon DEF FoldsOn
    <3>4. g[s \ {Pick(s)}] = h[s \ {Pick(s)}]
      BY <3>1
    <3> QED BY <3>2, <3>3, <3>4
  <2> QED BY <2>1, <2>2
<1>3. \A s \in SUBSET T : s \in W
  <2> HIDE DEF W
  <2> QED BY <1>1, <1>2, SubsetInduction
<1> QED BY <1>3

\* The recursion defines something, for every subset.
LEMMA FoldsExist ==
    ASSUME NEW S, PicksFrom(S), NEW f, NEW base
    PROVE  \A T \in SUBSET S : FoldsOn(Chosen(f, base, T), f, base, T)
<1> DEFINE W == {T \in SUBSET S : FoldsOn(Chosen(f, base, T), f, base, T)}
<1>1. ASSUME NEW T \in SUBSET S, \A U \in SUBSET T : U # T => U \in W
      PROVE  T \in W
  <2> DEFINE top == IF T = {} THEN base
                    ELSE Op(f[Pick(T)], Chosen(f, base, T \ {Pick(T)})[T \ {Pick(T)}])
             g == [s \in SUBSET T |-> IF s = T THEN top ELSE Chosen(f, base, s)[s]]
  <2>1. ASSUME NEW s \in SUBSET T
        PROVE  g[s] = IF s = {} THEN base ELSE Op(f[Pick(s)], g[s \ {Pick(s)}])
    <3>0. s \in SUBSET S
      OBVIOUS
    <3>1. CASE s = T
      <4>1. g[s] = top
        BY <3>1
      <4>2. CASE T # {}
        <5>1. T \ {Pick(T)} \in SUBSET T /\ T \ {Pick(T)} # T
          BY <4>2, PickLeaves
        <5>2. g[T \ {Pick(T)}] = Chosen(f, base, T \ {Pick(T)})[T \ {Pick(T)}]
          BY <5>1
        <5> QED BY <3>1, <4>1, <4>2, <5>2
      <4> QED BY <3>1, <4>1, <4>2
    <3>2. CASE s # T /\ s = {}
      <4>1. FoldsOn(Chosen(f, base, s), f, base, s)
        BY <1>1, <3>2
      <4>2. Chosen(f, base, s)[s] = base
        BY <3>2, <4>1, Zenon DEF FoldsOn
      <4> QED BY <3>2, <4>2
    <3>3. CASE s # T /\ s # {}
      <4> DEFINE r == s \ {Pick(s)}
      <4>1. r \in SUBSET s /\ r \in SUBSET T /\ r # T /\ r # s /\ PicksFrom(s)
        BY <3>0, <3>3, PickLeaves
      <4>2. FoldsOn(Chosen(f, base, s), f, base, s) /\ FoldsOn(Chosen(f, base, r), f, base, r)
        BY <1>1, <3>3, <4>1
      <4>4. Chosen(f, base, s)[r] = Chosen(f, base, r)[r]
        <5> HIDE DEF r
        <5>1. r \in SUBSET r
          OBVIOUS
        <5> QED BY <4>1, <4>2, <5>1, FoldsUnique
      <4>5. Chosen(f, base, s)[s] = Op(f[Pick(s)], Chosen(f, base, s)[r])
        BY <3>3, <4>2, Zenon DEF FoldsOn
      <4>6. g[s] = Chosen(f, base, s)[s] /\ g[r] = Chosen(f, base, r)[r]
        BY <3>3, <4>1
      <4> QED BY <3>3, <4>4, <4>5, <4>6
    <3> QED BY <3>1, <3>2, <3>3
  <2>2. g = [s \in SUBSET T |-> IF s = {} THEN base ELSE Op(f[Pick(s)], g[s \ {Pick(s)}])]
    <3>1. g = [s \in SUBSET T |-> g[s]]
      OBVIOUS
    <3> HIDE DEF g
    <3> QED BY <2>1, <3>1
  <2>3. \E h : FoldsOn(h, f, base, T)
    <3> HIDE DEF g
    <3> QED BY <2>2, Zenon DEF FoldsOn
  <2>4. FoldsOn(Chosen(f, base, T), f, base, T)
    BY <2>3, Zenon DEF Chosen
  <2> QED BY <2>4
<1>2. \A T \in SUBSET S : T \in W
  <2> HIDE DEF W
  <2> QED BY <1>1, SubsetInduction DEF PicksFrom
<1> QED BY <1>2

\* The recursion, seen from outside.
LEMMA FoldRest ==
    ASSUME NEW S, PicksFrom(S), NEW f, NEW base
    PROVE  Fold(f, base, S) =
              IF S = {} THEN base ELSE Op(f[Pick(S)], Fold(f, base, S \ {Pick(S)}))
<1>1. FoldsOn(Chosen(f, base, S), f, base, S)
  BY FoldsExist
<1>2. CASE S = {}
  <2>1. Chosen(f, base, S)[S] = base
    BY <1>1, <1>2, Zenon DEF FoldsOn
  <2> QED BY <1>2, <2>1, FoldIsChosen
<1>3. CASE S # {}
  <2> DEFINE r == S \ {Pick(S)}
  <2>1. r \in SUBSET S /\ r \in SUBSET r
    OBVIOUS
  <2>2. FoldsOn(Chosen(f, base, r), f, base, r)
    BY <2>1, FoldsExist
  <2>3. Chosen(f, base, S)[S] = Op(f[Pick(S)], Chosen(f, base, S)[r])
    BY <1>1, <1>3, Zenon DEF FoldsOn
  <2>4. Chosen(f, base, S)[r] = Chosen(f, base, r)[r]
    <3> HIDE DEF r
    <3> QED BY <1>1, <2>1, <2>2, FoldsUnique
  <2> QED BY <1>3, <2>3, <2>4, FoldIsChosen
<1> QED BY <1>2, <1>3

\* A fold depends on the values in the set only.
LEMMA FoldSame ==
    ASSUME NEW S, PicksFrom(S), NEW f, NEW g, NEW base, \A x \in S : f[x] = g[x]
    PROVE  Fold(f, base, S) = Fold(g, base, S)
<1> DEFINE W == {T \in SUBSET S : Fold(f, base, T) = Fold(g, base, T)}
<1>1. ASSUME NEW T \in SUBSET S, \A U \in SUBSET T : U # T => U \in W
      PROVE  T \in W
  <2>1. PicksFrom(T)
    BY PickLeaves
  <2>2. CASE T = {}
    <3>1. Fold(f, base, T) = base /\ Fold(g, base, T) = base
      BY <2>1, <2>2, FoldRest
    <3> QED BY <3>1
  <2>3. CASE T # {}
    <3>1. T \ {Pick(T)} \in W /\ f[Pick(T)] = g[Pick(T)]
      BY <1>1, <2>3, PickLeaves
    <3>2. Fold(f, base, T \ {Pick(T)}) = Fold(g, base, T \ {Pick(T)})
      BY <3>1
    <3>3. /\ Fold(f, base, T) = Op(f[Pick(T)], Fold(f, base, T \ {Pick(T)}))
          /\ Fold(g, base, T) = Op(g[Pick(T)], Fold(g, base, T \ {Pick(T)}))
      BY <2>1, <2>3, FoldRest
    <3> QED BY <3>1, <3>2, <3>3
  <2> QED BY <2>2, <2>3
<1>2. \A T \in SUBSET S : T \in W
  <2> HIDE DEF W
  <2> QED BY <1>1, SubsetInduction DEF PicksFrom
<1> QED BY <1>2

\* A fold stays where its steps stay.
LEMMA FoldStays ==
    ASSUME NEW S, PicksFrom(S), NEW f, NEW base, NEW A, base \in A,
           \A x \in S : \A a \in A : Op(f[x], a) \in A
    PROVE  Fold(f, base, S) \in A
<1> DEFINE W == {T \in SUBSET S : Fold(f, base, T) \in A}
<1>1. ASSUME NEW T \in SUBSET S, \A U \in SUBSET T : U # T => U \in W
      PROVE  T \in W
  <2>1. PicksFrom(T)
    BY PickLeaves
  <2>2. CASE T = {}
    BY <2>1, <2>2, FoldRest
  <2>3. CASE T # {}
    <3>1. T \ {Pick(T)} \in W /\ Pick(T) \in S
      BY <1>1, <2>3, PickLeaves
    <3>2. Fold(f, base, T \ {Pick(T)}) \in A
      BY <3>1
    <3>3. Fold(f, base, T) = Op(f[Pick(T)], Fold(f, base, T \ {Pick(T)}))
      BY <2>1, <2>3, FoldRest
    <3> QED BY <3>1, <3>2, <3>3
  <2> QED BY <2>2, <2>3
<1>2. \A T \in SUBSET S : T \in W
  <2> HIDE DEF W
  <2> QED BY <1>1, SubsetInduction DEF PicksFrom
<1> QED BY <1>2

-----------------------------------------------------------------------------
(* Sequences, from the left: the last element is picked first *)

LEMMA LeastNumber ==
    ASSUME NEW S \in SUBSET Nat, S # {} PROVE \E m \in S : \A n \in S : m <= n
<1>1. PICK m \in S : \A n \in S : <<n, m>> \notin OpToRel(<, Nat)
  BY NatLessThanWellFounded, WFMin
<1>2. ASSUME NEW n \in S PROVE m <= n
  <2>1. ~(n < m)
    BY <1>1 DEF OpToRel
  <2> QED BY <2>1
<1> QED BY <1>2

\* A set of numbers up to n has a largest one, which of 1..n is n.
LEMMA MaxPicks ==
    ASSUME NEW n \in Nat
    PROVE  /\ \A s \in SUBSET (1..n) : s # {} => Max(s) \in s
           /\ n > 0 => Max(1..n) = n
<1>1. ASSUME NEW s \in SUBSET (1..n), s # {} PROVE Max(s) \in s
  <2> DEFINE down == {n - x : x \in s}
  <2>0. \A x \in s : x \in Int /\ n - x \in Nat
    OBVIOUS
  <2>1. down \in SUBSET Nat /\ down # {}
    BY <1>1, <2>0
  <2>2. PICK m \in down : \A d \in down : m <= d
    <3> HIDE DEF down
    <3> QED BY <2>1, LeastNumber
  <2>3. PICK x \in s : m = n - x
    BY <2>2
  <2>4. \A y \in s : n - y \in down
    OBVIOUS
  <2>5. \A y \in s : x >= y
    <3> SUFFICES ASSUME NEW y \in s PROVE x >= y
      OBVIOUS
    <3>1. n - x <= n - y
      <4> HIDE DEF down
      <4> QED BY <2>2, <2>3, <2>4
    <3> QED BY <2>0, <3>1
  <2> QED BY <2>5 DEF Max
<1>2. ASSUME n > 0 PROVE Max(1..n) = n
  <2>1. n \in 1..n /\ Max(1..n) \in 1..n
    BY <1>1, <1>2
  <2>2. \E x \in 1..n : \A y \in 1..n : x >= y
    BY <1>2
  <2>3. \A y \in 1..n : Max(1..n) >= y
    BY <2>2 DEF Max
  <2> QED BY <2>1, <2>3
<1> QED BY <1>1, <1>2

\* Pick is Max.
PicksLast ==
    /\ \A n \in Nat : \A s \in SUBSET (1..n) : s # {} => Pick(s) \in s
    /\ \A n \in Nat : n > 0 => Pick(1..n) = n

LEMMA FoldNothing ==
    ASSUME PicksLast, NEW base
    PROVE  Fold(<<>>, base, DOMAIN <<>>) = base
<1>1. DOMAIN <<>> = {} /\ IsFiniteSet({})
  BY FS_EmptySet
<1>2. PicksFrom({})
  BY <1>1 DEF PicksFrom
<1> QED BY <1>1, <1>2, FoldRest

LEMMA FoldOneMore ==
    ASSUME PicksLast, NEW T, NEW seq \in Seq(T), NEW x \in T, NEW base
    PROVE  Fold(Append(seq, x), base, DOMAIN Append(seq, x)) =
              Op(x, Fold(seq, base, DOMAIN seq))
<1> DEFINE n == Len(seq)
           longer == Append(seq, x)
<1>1. /\ n \in Nat /\ DOMAIN seq = 1..n /\ DOMAIN longer = 1..(n + 1)
      /\ longer[n + 1] = x /\ \A i \in 1..n : longer[i] = seq[i]
  BY AppendProperties, LenProperties
<1>2. /\ \A s \in SUBSET (1..(n + 1)) : s # {} => Pick(s) \in s
      /\ \A s \in SUBSET (1..n) : s # {} => Pick(s) \in s
      /\ Pick(1..(n + 1)) = n + 1
  <2>1. n + 1 \in Nat /\ n + 1 > 0
    BY <1>1
  <2> HIDE DEF n
  <2> QED BY <1>1, <2>1 DEF PicksLast
<1>3. IsFiniteSet(1..n) /\ IsFiniteSet(1..(n + 1))
  BY <1>1, FS_Interval
<1>4. PicksFrom(1..n) /\ PicksFrom(1..(n + 1))
  BY <1>2, <1>3 DEF PicksFrom
<1>5. 1..(n + 1) # {} /\ (1..(n + 1)) \ {n + 1} = 1..n
  BY <1>1
<1> HIDE DEF longer, n
<1>6. Fold(longer, base, 1..(n + 1)) = Op(longer[n + 1], Fold(longer, base, 1..n))
  BY <1>2, <1>4, <1>5, FoldRest
<1>7. Fold(longer, base, 1..n) = Fold(seq, base, 1..n)
  BY <1>1, <1>4, FoldSame
<1> QED BY <1>1, <1>6, <1>7 DEF longer

LEMMA FoldOfOne ==
    ASSUME PicksLast, NEW x, NEW base
    PROVE  Fold(<<x>>, base, DOMAIN <<x>>) = Op(x, base)
<1>1. <<>> \in Seq({x}) /\ Append(<<>>, x) = <<x>>
  OBVIOUS
<1>2. Fold(Append(<<>>, x), base, DOMAIN Append(<<>>, x)) = Op(x, Fold(<<>>, base, DOMAIN <<>>))
  BY <1>1, FoldOneMore
<1> QED BY <1>1, <1>2, FoldNothing

LEMMA FoldOfTwo ==
    ASSUME PicksLast, NEW x, NEW y, NEW base
    PROVE  Fold(<<x, y>>, base, DOMAIN <<x, y>>) = Op(y, Op(x, base))
<1> DEFINE longer == Append(<<x>>, y)
<1>0. <<x>> \in Seq({x, y})
  OBVIOUS
<1>1. longer = <<x, y>>
  <2>1. /\ longer \in Seq({x, y}) /\ Len(longer) = 2
        /\ longer[1] = x /\ longer[2] = y
    BY <1>0, AppendProperties
  <2> HIDE DEF longer
  <2> QED BY <2>1
<1>2. Fold(longer, base, DOMAIN longer) = Op(y, Fold(<<x>>, base, DOMAIN <<x>>))
  BY <1>0, FoldOneMore
<1> HIDE DEF longer
<1> QED BY <1>1, <1>2, FoldOfOne
=============================================================================
