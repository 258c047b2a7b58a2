---------------------------- MODULE MessageProofs ----------------------------
(***************************************************************************)
(* Proofs about the requests and the answers of Conduit, for any turns,    *)
(* parts, options and answers, on any channels one after another: what a   *)
(* body that is not refused says is what its client said, in its order,    *)
(* with the options it set; and an answer comes back whole.                *)
(*                                                                         *)
(* Every converter makes a sequence out of each element of a sequence and  *)
(* joins them: Join(g, s). So a body is followed turn by turn, part by     *)
(* part.                                                                   *)
(*   - What is said of a sequence of parts is Join(Tell(...), parts): the  *)
(*     parts of some kinds, changed by some function, by someone.          *)
(*   - OpenAICanon, AnthropicCanon: the canonical form, turn by turn. The  *)
(*     system's turns come first, the others in their order.               *)
(*   - OpenAIHeard, AnthropicHeard, GeminiHeard: what is heard in a body   *)
(*     encoded from the canonical form.                                    *)
(*   - TurnTold: for one turn, those are the parts meant, as they are      *)
(*     expected, in their order. KeptIn says it of the conversation.       *)
(*   - UnsetKept: of the options, what is set is kept, and an encoder      *)
(*     fills in or leaves out the others only.                             *)
(* MeaningInv says what body is tried and where an answer comes from.      *)
(*                                                                         *)
(* At the end, what a request is charged. Prices in credits cover those in *)
(* dollars, and a sum rounded up once covers what it is the sum of         *)
(* (ListedCovers, SumCovers); of the rules of a peak the highest applies   *)
(* (PeakIsHighest). BillInv: a bill is made of a usage, a listing and a    *)
(* moment, whatever they are.                                              *)
(***************************************************************************)
EXTENDS Conduit, SequenceTheorems, FiniteSetTheorems, TLAPS

\* The protocols of a request.
Protocols == up \in {"openai", "anthropic", "gemini"} /\ down \in {"openai", "anthropic"}

\* Stop reasons, in Anthropic's words.
CanonStops == {"end_turn", "max_tokens", "tool_use", "stop_sequence"}

-----------------------------------------------------------------------------
(* Sequences made of the sequences that a function gives for each element *)

Joins == INSTANCE FoldProofs WITH Op <- LAMBDA x, y : y \o x, Pick <- LAMBDA S : Max(S)

Flat(ss) == Joins!Fold(ss, <<>>, DOMAIN ss)
Each(g, s) == [i \in DOMAIN s |-> g[s[i]]]
Join(g, s) == Flat(Each(g, s))

\* g gives sequences over T.
Gives(g, X, T) == g \in [X -> Seq(T)]

\* What holds of the empty sequence and of one with one more element, holds of all.
LEMMA SequenceInduction ==
    ASSUME NEW T, NEW W, <<>> \in W,
           \A s \in Seq(T) : \A x \in T : s \in W => Append(s, x) \in W
    PROVE  \A s \in Seq(T) : s \in W
<1> SUFFICES ASSUME NEW s \in Seq(T), s \notin W PROVE FALSE
  OBVIOUS
<1> DEFINE lengths == {Len(u) : u \in {v \in Seq(T) : v \notin W}}
<1>1. lengths \in SUBSET Nat /\ lengths # {}
  BY LenProperties
<1>2. PICK m \in lengths : \A n \in lengths : m <= n
  <2> HIDE DEF lengths
  <2> QED BY <1>1, Joins!LeastNumber
<1>3. PICK u \in Seq(T) : u \notin W /\ Len(u) = m
  OBVIOUS
<1>4. PICK v \in Seq(T), x \in T : u = Append(v, x)
  BY <1>3, SequenceEmptyOrAppend
<1>5. Len(v) \in Nat /\ Len(u) = Len(v) + 1
  BY <1>4, LenProperties, AppendProperties
<1>6. v \in W
  BY <1>2, <1>3, <1>5
<1> QED BY <1>3, <1>4, <1>6

\* The sequences are joined in their order.
LEMMA FlatSteps ==
    /\ Flat(<<>>) = <<>>
    /\ \A U : \A ss \in Seq(U) : \A s \in U : Flat(Append(ss, s)) = Flat(ss) \o s
<1>1. Joins!PicksLast
  BY Joins!MaxPicks DEF Joins!PicksLast, Max, Joins!Max
<1> QED BY <1>1, Joins!FoldNothing, Joins!FoldOneMore DEF Flat

\* One element more brings the sequence that is made of it.
LEMMA JoinSteps ==
    ASSUME NEW X, NEW g
    PROVE  /\ Join(g, <<>>) = <<>>
           /\ \A s \in Seq(X) : \A x \in X : Join(g, Append(s, x)) = Join(g, s) \o g[x]
<1>1. Join(g, <<>>) = <<>>
  <2>1. Each(g, <<>>) = <<>>
    BY DEF Each
  <2> QED BY <2>1, FlatSteps DEF Join
<1>2. ASSUME NEW s \in Seq(X), NEW x \in X
      PROVE  Join(g, Append(s, x)) = Join(g, s) \o g[x]
  <2> DEFINE U == {g[y] : y \in X}
             longer == Append(s, x)
  <2>1. /\ Len(s) \in Nat /\ DOMAIN s = 1..Len(s) /\ \A i \in 1..Len(s) : s[i] \in X
        /\ longer \in Seq(X) /\ Len(longer) = Len(s) + 1 /\ longer[Len(s) + 1] = x
        /\ DOMAIN longer = 1..Len(s) + 1 /\ \A i \in 1..Len(s) : longer[i] = s[i]
    BY LenProperties, ElementOfSeq, AppendProperties
  <2>2. Each(g, s) \in Seq(U) /\ g[x] \in U /\ Len(Each(g, s)) = Len(s)
    BY <2>1 DEF Each
  <2>3. Each(g, longer) = Append(Each(g, s), g[x])
    <3>1. Each(g, longer) \in Seq(U) /\ Len(Each(g, longer)) = Len(s) + 1
      BY <2>1 DEF Each
    <3>2. /\ Append(Each(g, s), g[x]) \in Seq(U) /\ Len(Append(Each(g, s), g[x])) = Len(s) + 1
          /\ \A i \in 1..Len(s) : Append(Each(g, s), g[x])[i] = g[s[i]]
          /\ Append(Each(g, s), g[x])[Len(s) + 1] = g[x]
      <4>1. \A i \in 1..Len(s) : Each(g, s)[i] = g[s[i]]
        BY <2>1 DEF Each
      <4> QED BY <2>2, <4>1, AppendProperties
    <3>3. \A i \in 1..Len(s) + 1 : Each(g, longer)[i] = g[longer[i]]
      BY <2>1 DEF Each
    <3> QED BY <2>1, <3>1, <3>2, <3>3, SeqEqual
  <2> HIDE DEF U
  <2> QED BY <2>2, <2>3, FlatSteps DEF Join
<1> QED BY <1>1, <1>2

\* Of sequences over T a sequence over T is made.
LEMMA JoinIn ==
    ASSUME NEW X, NEW T, NEW g, Gives(g, X, T)
    PROVE  \A s \in Seq(X) : Join(g, s) \in Seq(T)
<1> DEFINE W == {s \in Seq(X) : Join(g, s) \in Seq(T)}
<1>1. <<>> \in W
  BY JoinSteps, EmptySeq
<1>2. \A s \in Seq(X) : \A x \in X : s \in W => Append(s, x) \in W
  <2> SUFFICES ASSUME NEW s \in Seq(X), NEW x \in X, Join(g, s) \in Seq(T)
               PROVE  Append(s, x) \in Seq(X) /\ Join(g, Append(s, x)) \in Seq(T)
    OBVIOUS
  <2>1. g[x] \in Seq(T)
    BY DEF Gives
  <2>2. Join(g, s) \o g[x] \in Seq(T)
    BY <2>1, ConcatProperties
  <2>3. Join(g, Append(s, x)) = Join(g, s) \o g[x]
    BY JoinSteps
  <2> QED BY <2>2, <2>3, AppendProperties
<1>3. \A s \in Seq(X) : s \in W
  <2> HIDE DEF W
  <2> QED BY <1>1, <1>2, SequenceInduction
<1> QED BY <1>3

\* An append to the second of two sequences.
LEMMA ConcatAppend ==
    ASSUME NEW X, NEW a \in Seq(X), NEW b \in Seq(X), NEW x \in X
    PROVE  a \o Append(b, x) = Append(a \o b, x) /\ a \o b \in Seq(X)
<1>1. a \o b \in Seq(X) /\ <<x>> \in Seq(X)
  BY ConcatProperties
<1>2. Append(b, x) = b \o <<x>> /\ Append(a \o b, x) = (a \o b) \o <<x>>
  BY <1>1, AppendIsConcat
<1> QED BY <1>1, <1>2, ConcatAssociative

\* What is made of two sequences together is what is made of each.
LEMMA JoinConcat ==
    ASSUME NEW X, NEW T, NEW g, Gives(g, X, T), NEW a \in Seq(X)
    PROVE  \A b \in Seq(X) : Join(g, a \o b) = Join(g, a) \o Join(g, b)
<1> DEFINE W == {b \in Seq(X) : Join(g, a \o b) = Join(g, a) \o Join(g, b)}
<1>0. Join(g, a) \in Seq(T)
  BY JoinIn
<1>1. <<>> \in W
  <2>1. a \o <<>> = a /\ Join(g, a) \o <<>> = Join(g, a) /\ <<>> \in Seq(X)
    BY <1>0, ConcatEmptySeq
  <2> QED BY <2>1, JoinSteps
<1>2. \A b \in Seq(X) : \A x \in X : b \in W => Append(b, x) \in W
  <2> SUFFICES ASSUME NEW b \in Seq(X), NEW x \in X, Join(g, a \o b) = Join(g, a) \o Join(g, b)
               PROVE  /\ Append(b, x) \in Seq(X)
                      /\ Join(g, a \o Append(b, x)) = Join(g, a) \o Join(g, Append(b, x))
    OBVIOUS
  <2>1. Join(g, b) \in Seq(T) /\ g[x] \in Seq(T)
    BY JoinIn DEF Gives
  <2>2. Join(g, Append(b, x)) = Join(g, b) \o g[x]
    BY JoinSteps
  <2>3. a \o Append(b, x) = Append(a \o b, x) /\ a \o b \in Seq(X)
    BY ConcatAppend
  <2>4. Join(g, Append(a \o b, x)) = Join(g, a \o b) \o g[x]
    BY <2>3, JoinSteps
  <2>5. (Join(g, a) \o Join(g, b)) \o g[x] = Join(g, a) \o (Join(g, b) \o g[x])
    <3>1. PICK p, q, r : p = Join(g, a) /\ q = Join(g, b) /\ r = g[x]
      OBVIOUS
    <3>2. p \in Seq(T) /\ q \in Seq(T) /\ r \in Seq(T)
      BY <1>0, <2>1, <3>1
    <3>3. (p \o q) \o r = p \o (q \o r)
      BY ONLY <3>2, ConcatAssociative
    <3> QED BY <3>1, <3>3
  <2> QED BY <2>2, <2>3, <2>4, <2>5, AppendProperties
<1>3. \A b \in Seq(X) : b \in W
  <2> HIDE DEF W
  <2> QED BY <1>1, <1>2, SequenceInduction
<1> QED BY <1>3

\* One after the other, two functions are one.
LEMMA JoinJoin ==
    ASSUME NEW X, NEW Y, NEW Z, NEW g, Gives(g, X, Y), NEW h, Gives(h, Y, Z)
    PROVE  \A s \in Seq(X) : Join(h, Join(g, s)) = Join([x \in X |-> Join(h, g[x])], s)
<1> DEFINE k == [x \in X |-> Join(h, g[x])]
           W == {s \in Seq(X) : Join(h, Join(g, s)) = Join(k, s)}
<1>1. <<>> \in W
  BY JoinSteps
<1>2. \A s \in Seq(X) : \A x \in X : s \in W => Append(s, x) \in W
  <2> SUFFICES ASSUME NEW s \in Seq(X), NEW x \in X, Join(h, Join(g, s)) = Join(k, s)
               PROVE  /\ Append(s, x) \in Seq(X)
                      /\ Join(h, Join(g, Append(s, x))) = Join(k, Append(s, x))
    OBVIOUS
  <2>1. Join(g, s) \in Seq(Y) /\ g[x] \in Seq(Y)
    BY JoinIn DEF Gives
  <2>2. Join(g, Append(s, x)) = Join(g, s) \o g[x]
    BY JoinSteps
  <2>3. Join(h, Join(g, s) \o g[x]) = Join(h, Join(g, s)) \o Join(h, g[x])
    <3>1. PICK p, q : p = Join(g, s) /\ q = g[x]
      OBVIOUS
    <3>2. p \in Seq(Y) /\ q \in Seq(Y)
      BY <2>1, <3>1
    <3>3. Join(h, p \o q) = Join(h, p) \o Join(h, q)
      BY <3>2, JoinConcat
    <3> QED BY <3>1, <3>3
  <2>4. Join(k, Append(s, x)) = Join(k, s) \o k[x]
    <3> HIDE DEF k
    <3> QED BY JoinSteps
  <2> QED BY <2>2, <2>3, <2>4, AppendProperties
<1>3. \A s \in Seq(X) : s \in W
  <2> HIDE DEF W
  <2> QED BY <1>1, <1>2, SequenceInduction
<1> QED BY <1>3

\* Functions that agree on the elements.
LEMMA JoinSame ==
    ASSUME NEW g, NEW h, NEW s, \A i \in DOMAIN s : g[s[i]] = h[s[i]]
    PROVE  Join(g, s) = Join(h, s)
<1>1. Each(g, s) = Each(h, s)
  BY DEF Each
<1> QED BY <1>1 DEF Join

\* The elements of a sequence, and of one with one more.
LEMMA SetSteps ==
    /\ ToSet(<<>>) = {} /\ \A x : ToSet(<<x>>) = {x}
    /\ \A X : \A s \in Seq(X) : ToSet(s) \subseteq X
    /\ \A X : \A a, b \in Seq(X) : ToSet(a \o b) = ToSet(a) \cup ToSet(b)
<1>1. ToSet(<<>>) = {} /\ \A x : ToSet(<<x>>) = {x}
  BY DEF ToSet
<1>2. ASSUME NEW X, NEW s \in Seq(X) PROVE ToSet(s) \subseteq X
  BY LenProperties, ElementOfSeq DEF ToSet
<1>3. ASSUME NEW X, NEW a \in Seq(X), NEW b \in Seq(X)
      PROVE  ToSet(a \o b) = ToSet(a) \cup ToSet(b)
  <2> DEFINE c == a \o b
  <2>1. /\ Len(a) \in Nat /\ Len(b) \in Nat /\ DOMAIN a = 1..Len(a) /\ DOMAIN b = 1..Len(b)
        /\ DOMAIN c = 1..Len(a) + Len(b)
        /\ \A i \in 1..Len(a) + Len(b) : c[i] = IF i <= Len(a) THEN a[i] ELSE b[i - Len(a)]
    BY LenProperties, ConcatProperties
  <2>2. \A i \in 1..Len(a) : i \in DOMAIN c /\ c[i] = a[i]
    BY <2>1
  <2>3. \A i \in 1..Len(b) : i + Len(a) \in DOMAIN c /\ c[i + Len(a)] = b[i]
    BY <2>1
  <2>4. \A i \in DOMAIN c : c[i] \in ToSet(a) \cup ToSet(b)
    <3> SUFFICES ASSUME NEW i \in DOMAIN c PROVE c[i] \in ToSet(a) \cup ToSet(b)
      OBVIOUS
    <3>1. CASE i <= Len(a)
      BY <2>1, <3>1 DEF ToSet
    <3>2. CASE i > Len(a)
      <4>1. i - Len(a) \in 1..Len(b) /\ c[i] = b[i - Len(a)]
        BY <2>1, <3>2
      <4> QED BY <2>1, <4>1 DEF ToSet
    <3> QED BY <2>1, <3>1, <3>2
  <2> HIDE DEF c
  <2>5. ToSet(a) \subseteq ToSet(c) /\ ToSet(b) \subseteq ToSet(c)
    <3>1. \A i \in DOMAIN a : \E k \in DOMAIN c : c[k] = a[i]
      BY <2>1, <2>2
    <3>2. \A i \in DOMAIN b : \E k \in DOMAIN c : c[k] = b[i]
      BY <2>1, <2>3
    <3> QED BY <3>1, <3>2 DEF ToSet
  <2>6. ToSet(c) \subseteq ToSet(a) \cup ToSet(b)
    BY <2>4 DEF ToSet
  <2> QED BY <2>5, <2>6 DEF c
<1> QED BY <1>1, <1>2, <1>3

LEMMA SetAppend ==
    ASSUME NEW X, NEW s \in Seq(X), NEW x \in X
    PROVE  ToSet(Append(s, x)) = ToSet(s) \cup {x}
<1>1. PICK b : b = <<x>>
  OBVIOUS
<1>2. b \in Seq(X) /\ Append(s, x) = s \o b /\ ToSet(b) = {x}
  BY <1>1, AppendIsConcat, SetSteps
<1>3. ToSet(s \o b) = ToSet(s) \cup ToSet(b)
  BY <1>2, SetSteps
<1> QED BY <1>2, <1>3

\* What is made of a sequence has the elements of what is made of its elements.
LEMMA JoinSet ==
    ASSUME NEW X, NEW T, NEW g, Gives(g, X, T)
    PROVE  \A s \in Seq(X) : ToSet(Join(g, s)) = UNION {ToSet(g[x]) : x \in ToSet(s)}
<1> DEFINE W == {s \in Seq(X) : ToSet(Join(g, s)) = UNION {ToSet(g[x]) : x \in ToSet(s)}}
<1>1. <<>> \in W
  BY JoinSteps, SetSteps, EmptySeq
<1>2. \A s \in Seq(X) : \A x \in X : s \in W => Append(s, x) \in W
  <2> SUFFICES ASSUME NEW s \in Seq(X), NEW x \in X,
                      ToSet(Join(g, s)) = UNION {ToSet(g[y]) : y \in ToSet(s)}
               PROVE  /\ Append(s, x) \in Seq(X)
                      /\ ToSet(Join(g, Append(s, x))) =
                            UNION {ToSet(g[y]) : y \in ToSet(Append(s, x))}
    OBVIOUS
  <2>1. Join(g, Append(s, x)) = Join(g, s) \o g[x]
    BY JoinSteps
  <2>2. Join(g, s) \in Seq(T) /\ g[x] \in Seq(T)
    BY JoinIn DEF Gives
  <2>3. ToSet(Join(g, s) \o g[x]) = ToSet(Join(g, s)) \cup ToSet(g[x])
    <3>1. PICK p, q : p = Join(g, s) /\ q = g[x]
      OBVIOUS
    <3>2. ToSet(p \o q) = ToSet(p) \cup ToSet(q)
      BY <2>2, <3>1, SetSteps
    <3> QED BY <3>1, <3>2
  <2>4. ToSet(Append(s, x)) = ToSet(s) \cup {x}
    BY SetAppend
  <2> QED BY <2>1, <2>3, <2>4, AppendProperties
<1>3. \A s \in Seq(X) : s \in W
  <2> HIDE DEF W
  <2> QED BY <1>1, <1>2, SequenceInduction
<1> QED BY <1>3

\* Every element is in the relation R to those that follow.
Ordered(R, s) == \A i, j \in DOMAIN s : i < j => <<s[i], s[j]>> \in R

\* Two sequences in order, the first before the second, are in order together.
LEMMA OrderedConcat ==
    ASSUME NEW R, NEW X, NEW a \in Seq(X), NEW b \in Seq(X), Ordered(R, a), Ordered(R, b),
           \A x \in ToSet(a), y \in ToSet(b) : <<x, y>> \in R
    PROVE  Ordered(R, a \o b)
<1> DEFINE c == a \o b
<1>1. /\ Len(a) \in Nat /\ Len(b) \in Nat /\ DOMAIN a = 1..Len(a) /\ DOMAIN b = 1..Len(b)
      /\ DOMAIN c = 1..Len(a) + Len(b)
      /\ \A i \in 1..Len(a) + Len(b) : c[i] = IF i <= Len(a) THEN a[i] ELSE b[i - Len(a)]
  BY LenProperties, ConcatProperties
<1> SUFFICES ASSUME NEW i \in DOMAIN c, NEW j \in DOMAIN c, i < j PROVE <<c[i], c[j]>> \in R
  BY DEF Ordered
<1>2. CASE j <= Len(a)
  <2>1. c[i] = a[i] /\ c[j] = a[j] /\ i \in DOMAIN a /\ j \in DOMAIN a
    BY <1>1, <1>2
  <2> QED BY <2>1 DEF Ordered
<1>3. CASE i > Len(a)
  <2>1. /\ c[i] = b[i - Len(a)] /\ c[j] = b[j - Len(a)]
        /\ i - Len(a) \in DOMAIN b /\ j - Len(a) \in DOMAIN b /\ i - Len(a) < j - Len(a)
    BY <1>1, <1>3
  <2> HIDE DEF c
  <2> QED BY <2>1 DEF Ordered
<1>4. CASE i <= Len(a) /\ j > Len(a)
  <2>1. c[i] = a[i] /\ i \in DOMAIN a /\ c[j] = b[j - Len(a)] /\ j - Len(a) \in DOMAIN b
    BY <1>1, <1>4
  <2>2. c[i] \in ToSet(a) /\ c[j] \in ToSet(b)
    BY <2>1 DEF ToSet
  <2> HIDE DEF c
  <2> QED BY <2>2
<1>5. j <= Len(a) \/ i > Len(a) \/ (i <= Len(a) /\ j > Len(a))
  BY <1>1
<1> QED BY <1>2, <1>3, <1>4, <1>5

\* Where an element comes before another, what is made of it does.
LEMMA JoinOrdered ==
    ASSUME NEW R, NEW X, NEW T, NEW g, Gives(g, X, T)
    PROVE  \A s \in Seq(X) :
              /\ \A i \in DOMAIN s : Ordered(R, g[s[i]])
              /\ \A i, j \in DOMAIN s : i < j =>
                    \A x \in ToSet(g[s[i]]), y \in ToSet(g[s[j]]) : <<x, y>> \in R
              => Ordered(R, Join(g, s))
<1> DEFINE Fine(s) == /\ \A i \in DOMAIN s : Ordered(R, g[s[i]])
                      /\ \A i, j \in DOMAIN s : i < j =>
                            \A x \in ToSet(g[s[i]]), y \in ToSet(g[s[j]]) : <<x, y>> \in R
           W == {s \in Seq(X) : Fine(s) => Ordered(R, Join(g, s))}
<1>1. <<>> \in W
  <2>1. <<>> \in Seq(X) /\ Ordered(R, <<>>)
    BY EmptySeq DEF Ordered
  <2> HIDE DEF Fine
  <2> QED BY <2>1, JoinSteps
<1>2. \A s \in Seq(X) : \A x \in X : s \in W => Append(s, x) \in W
  <2> SUFFICES ASSUME NEW s \in Seq(X), NEW x \in X, Fine(s) => Ordered(R, Join(g, s)),
                      Fine(Append(s, x))
               PROVE  Append(s, x) \in Seq(X) /\ Ordered(R, Join(g, Append(s, x)))
    <3> HIDE DEF Fine
    <3> QED OBVIOUS
  <2> DEFINE n == Len(s)
             longer == Append(s, x)
  <2>1. /\ n \in Nat /\ DOMAIN s = 1..n /\ DOMAIN longer = 1..n + 1 /\ longer \in Seq(X)
        /\ longer[n + 1] = x /\ \A i \in 1..n : longer[i] = s[i]
    BY LenProperties, AppendProperties
  <2>2. Fine(s) /\ Ordered(R, g[x])
    <3>1. n + 1 \in DOMAIN longer /\ \A i \in DOMAIN s : i \in DOMAIN longer /\ longer[i] = s[i]
      BY <2>1
    <3> HIDE DEF longer, n
    <3>2. Ordered(R, g[x])
      BY <2>1, <3>1 DEF longer
    <3>3. \A i \in DOMAIN s : Ordered(R, g[s[i]])
      BY <3>1 DEF longer
    <3>4. \A i, j \in DOMAIN s : i < j =>
             \A y \in ToSet(g[s[i]]), z \in ToSet(g[s[j]]) : <<y, z>> \in R
      BY <3>1 DEF longer
    <3> QED BY <3>2, <3>3, <3>4
  <2>3. Join(g, s) \in Seq(T) /\ g[x] \in Seq(T) /\ Join(g, longer) = Join(g, s) \o g[x]
    BY JoinIn, JoinSteps DEF Gives
  <2>4. \A y \in ToSet(Join(g, s)), z \in ToSet(g[x]) : <<y, z>> \in R
    <3> SUFFICES ASSUME NEW y \in ToSet(Join(g, s)), NEW z \in ToSet(g[x]) PROVE <<y, z>> \in R
      OBVIOUS
    <3>1. PICK w \in ToSet(s) : y \in ToSet(g[w])
      <4>1. ToSet(Join(g, s)) = UNION {ToSet(g[v]) : v \in ToSet(s)}
        BY JoinSet
      <4> QED BY <4>1
    <3>2. PICK i \in DOMAIN s : w = s[i]
      BY DEF ToSet
    <3>3. i \in DOMAIN longer /\ n + 1 \in DOMAIN longer /\ i < n + 1
          /\ longer[i] = w /\ longer[n + 1] = x
      BY <2>1, <3>2
    <3> HIDE DEF longer, n
    <3> QED BY <3>1, <3>3 DEF longer
  <2>5. Ordered(R, Join(g, s) \o g[x])
    <3>1. PICK p, q : p = Join(g, s) /\ q = g[x]
      OBVIOUS
    <3>2. p \in Seq(T) /\ q \in Seq(T) /\ Ordered(R, p) /\ Ordered(R, q)
      BY <2>2, <2>3, <3>1
    <3>3. \A y \in ToSet(p), z \in ToSet(q) : <<y, z>> \in R
      BY <2>4, <3>1
    <3>4. Ordered(R, p \o q)
      BY <3>2, <3>3, OrderedConcat
    <3> QED BY <3>1, <3>4
  <2> QED BY <2>1, <2>3, <2>5
<1>3. \A s \in Seq(X) : s \in W
  <2> HIDE DEF W
  <2> QED BY <1>1, <1>2, SequenceInduction
<1> QED BY <1>3

-----------------------------------------------------------------------------
(* What is made of messages, as sequences made of their parts *)

AnyParts == [kind : {"text", "image", "link", "call", "result", "thinking", "blank"},
             n : Nat \X Nat, of : Nat \X Nat, err : BOOLEAN]
Entries == [who : {"system", "user", "assistant"}, part : AnyParts]
AllTurns == [who : Sides, parts : Seq(AnyParts)]
ChatMessages == [role : {"system", "user", "assistant", "tool"}, content : Seq(AnyParts),
                 calls : Seq(AnyParts)]
CanonMessages == [role : {"user", "assistant", "tool"}, parts : Seq(AnyParts)]
BlockMessages == [role : {"user", "assistant", "model"}, content : Seq(AnyParts)]

SaidKinds == {"text", "image", "link"}
PartKinds == {"text", "image", "call", "result"}

Who(role) == CASE role = "tool" -> "user" [] role = "model" -> "assistant" [] OTHER -> role

\* The parts of some kinds, as they are and as messages, and who says them.
Sieve(K) == [p \in AnyParts |-> IF p.kind \in K THEN <<p>> ELSE <<>>]
ToolMessage(p) == OpenAIMessage("tool", <<[p EXCEPT !.err = FALSE]>>, <<>>)
Tools == [p \in AnyParts |-> IF p.kind = "result" THEN <<ToolMessage(p)>> ELSE <<>>]
One(f) == [p \in AnyParts |-> <<f[p]>>]
Tell(w, f, K) == [p \in AnyParts |-> IF p.kind \in K THEN <<[who |-> w, part |-> f[p]]>> ELSE <<>>]

\* A sequence of at most one element.
LEMMA FewIn ==
    /\ \A T : <<>> \in Seq(T) /\ \A x \in T : <<x>> \in Seq(T)
OBVIOUS

LEMMA JoinOfOne ==
    ASSUME NEW X, NEW T, NEW g, Gives(g, X, T), NEW x \in X PROVE Join(g, <<x>>) = g[x]
<1>1. <<>> \in Seq(X) /\ Append(<<>>, x) = <<x>>
  OBVIOUS
<1>2. Join(g, Append(<<>>, x)) = Join(g, <<>>) \o g[x] /\ Join(g, <<>>) = <<>>
  BY <1>1, JoinSteps
<1>3. g[x] \in Seq(T)
  BY DEF Gives
<1>4. <<>> \o g[x] = g[x]
  BY <1>3, ConcatEmptySeq
<1> QED BY <1>1, <1>2, <1>4

\* What the converters make of a part.
LEMMA PartGives ==
    /\ \A K : Gives(Sieve(K), AnyParts, AnyParts)
    /\ Gives(Tools, AnyParts, ChatMessages)
    /\ \A f \in [AnyParts -> AnyParts] : Gives(One(f), AnyParts, AnyParts)
    /\ \A w \in {"system", "user", "assistant"} :
          \A f \in [AnyParts -> AnyParts] : \A K : Gives(Tell(w, f, K), AnyParts, Entries)
<1>1. \A K : Gives(Sieve(K), AnyParts, AnyParts)
  BY FewIn DEF Sieve, Gives
<1>2. Gives(Tools, AnyParts, ChatMessages)
  <2>1. ASSUME NEW p \in AnyParts PROVE ToolMessage(p) \in ChatMessages
    <3>1. [p EXCEPT !.err = FALSE] \in AnyParts
      BY DEF AnyParts
    <3>2. <<[p EXCEPT !.err = FALSE]>> \in Seq(AnyParts) /\ <<>> \in Seq(AnyParts)
      BY <3>1
    <3> QED BY <3>2 DEF ToolMessage, OpenAIMessage, ChatMessages
  <2> QED BY <2>1, FewIn DEF Tools, Gives
<1>3. \A f \in [AnyParts -> AnyParts] : Gives(One(f), AnyParts, AnyParts)
  BY FewIn DEF One, Gives
<1>5. ASSUME NEW w \in {"system", "user", "assistant"}, NEW f \in [AnyParts -> AnyParts], NEW K
      PROVE  Gives(Tell(w, f, K), AnyParts, Entries)
  <2>1. \A p \in AnyParts : [who |-> w, part |-> f[p]] \in Entries
    BY DEF Entries
  <2> QED BY <2>1, FewIn DEF Tell, Gives
<1> QED BY <1>1, <1>2, <1>3, <1>5

\* The parts of some kinds are a sequence of this form,
LEMMA OfKindsJoins ==
    ASSUME NEW ps \in Seq(AnyParts), NEW K
    PROVE  OfKinds(ps, K) = Join(Sieve(K), ps) /\ OfKinds(ps, K) \in Seq(AnyParts)
<1>1. OfKinds(ps, K) = Flat([i \in DOMAIN ps |-> IF ps[i].kind \in K THEN <<ps[i]>> ELSE <<>>])
  BY Zenon DEF OfKinds, Concat, FoldLeft, MapThenFoldSet, Flat, Joins!Fold, Joins!MapThenFoldSet
<1>2. \A i \in DOMAIN ps : ps[i] \in AnyParts
  BY LenProperties, ElementOfSeq
<1>3. Each(Sieve(K), ps) = [i \in DOMAIN ps |-> IF ps[i].kind \in K THEN <<ps[i]>> ELSE <<>>]
  BY <1>2 DEF Each, Sieve
<1>4. OfKinds(ps, K) = Join(Sieve(K), ps)
  BY <1>1, <1>3, Zenon DEF Join
<1> QED BY <1>4, PartGives, JoinIn

\* the messages of results,
LEMMA ResultsJoin ==
    ASSUME NEW ps \in Seq(AnyParts)
    PROVE  ResultMessages(ps) = Join(Tools, ps)
<1> DEFINE rs == OfKinds(ps, {"result"})
           g == [p \in AnyParts |-> <<ToolMessage(p)>>]
<1>1. rs = Join(Sieve({"result"}), ps) /\ rs \in Seq(AnyParts)
  BY OfKindsJoins
<1>2. ResultMessages(ps) = Flat([i \in DOMAIN rs |-> <<ToolMessage(rs[i])>>])
  BY Zenon DEF ResultMessages, Concat, FoldLeft, MapThenFoldSet, Flat, Joins!Fold,
               Joins!MapThenFoldSet, ToolMessage
<1>3. \A i \in DOMAIN rs : rs[i] \in AnyParts
  BY <1>1, LenProperties, ElementOfSeq
<1> HIDE DEF rs
<1>4. Each(g, rs) = [i \in DOMAIN rs |-> <<ToolMessage(rs[i])>>]
  BY <1>3 DEF Each
<1>5. Gives(g, AnyParts, ChatMessages)
  <2>1. ASSUME NEW p \in AnyParts PROVE ToolMessage(p) \in ChatMessages
    <3>1. [p EXCEPT !.err = FALSE] \in AnyParts
      BY DEF AnyParts
    <3>2. <<[p EXCEPT !.err = FALSE]>> \in Seq(AnyParts) /\ <<>> \in Seq(AnyParts)
      BY <3>1
    <3> QED BY <3>2 DEF ToolMessage, OpenAIMessage, ChatMessages
  <2> QED BY <2>1, FewIn DEF Gives
<1>6. ResultMessages(ps) = Join(g, Join(Sieve({"result"}), ps))
  BY <1>1, <1>2, <1>4, Zenon DEF Join
<1> DEFINE k == [p \in AnyParts |-> Join(g, Sieve({"result"})[p])]
<1>7. Join(g, Join(Sieve({"result"}), ps)) = Join(k, ps)
  <2> HIDE DEF g
  <2> QED BY <1>5, PartGives, JoinJoin
<1>8. k = Tools
  <2>1. ASSUME NEW p \in AnyParts PROVE k[p] = Tools[p]
    <3>1. CASE p.kind = "result"
      <4>1. Sieve({"result"})[p] = <<p>>
        BY <3>1 DEF Sieve
      <4>2. Join(g, <<p>>) = g[p]
        <5> HIDE DEF g
        <5> QED BY <1>5, JoinOfOne
      <4> QED BY <3>1, <4>1, <4>2 DEF Tools
    <3>2. CASE p.kind # "result"
      <4>1. Sieve({"result"})[p] = <<>>
        BY <3>2 DEF Sieve
      <4>2. Join(g, <<>>) = <<>>
        BY JoinSteps
      <4> QED BY <3>2, <4>1, <4>2 DEF Tools
    <3> QED BY <3>1, <3>2
  <2> HIDE DEF g
  <2> QED BY <2>1 DEF Tools
<1> QED BY <1>6, <1>7, <1>8

Kinds == {"text", "image", "link", "call", "result", "thinking", "blank"}
Same == [p \in AnyParts |-> p]
Cleared == [p \in AnyParts |-> [p EXCEPT !.err = FALSE]]
Says(role, ps) ==
    ResultMessages(ps)
      \o (IF OfKinds(ps, SaidKinds) \o OfKinds(ps, {"call"}) = <<>> THEN <<>>
          ELSE <<OpenAIMessage(role, OfKinds(ps, SaidKinds), OfKinds(ps, {"call"}))>>)

LEMMA SameTypes == Same \in [AnyParts -> AnyParts] /\ Cleared \in [AnyParts -> AnyParts]
<1>1. \A p \in AnyParts : [p EXCEPT !.err = FALSE] \in AnyParts
  BY DEF AnyParts
<1> QED BY <1>1 DEF Same, Cleared

\* A sequence with one element for each.
LEMMA JoinSingles ==
    ASSUME NEW X, NEW T, NEW f, NEW g, Gives(g, X, T), \A x \in X : g[x] = <<f[x]>>
    PROVE  \A s \in Seq(X) : Join(g, s) = [i \in DOMAIN s |-> f[s[i]]]
<1> DEFINE map(s) == [i \in DOMAIN s |-> f[s[i]]]
           W == {s \in Seq(X) : Join(g, s) = map(s)}
<1>0. \A s \in Seq(X) : \A x \in X : Join(g, Append(s, x)) = Join(g, s) \o g[x]
  BY ONLY JoinSteps
<1>a. \A x \in X : f[x] \in T /\ g[x] = <<f[x]>>
  <2> SUFFICES ASSUME NEW x \in X PROVE f[x] \in T
    OBVIOUS
  <2>1. g[x] \in Seq(T) /\ g[x] = <<f[x]>>
    BY DEF Gives
  <2>2. <<f[x]>> \in Seq(T) /\ Len(<<f[x]>>) = 1 /\ <<f[x]>>[1] = f[x]
    BY <2>1
  <2> QED BY <2>2, ElementOfSeq
<1>1. <<>> \in W
  <2>1. map(<<>>) = <<>> /\ <<>> \in Seq(X)
    OBVIOUS
  <2>2. Join(g, <<>>) = <<>>
    BY ONLY JoinSteps
  <2> HIDE DEF map
  <2> QED BY <2>1, <2>2
<1>2. \A s \in Seq(X) : \A x \in X : s \in W => Append(s, x) \in W
  <2> SUFFICES ASSUME NEW s \in Seq(X), NEW x \in X, Join(g, s) = map(s)
               PROVE  Append(s, x) \in Seq(X) /\ Join(g, Append(s, x)) = map(Append(s, x))
    BY Zenon
  <2> DEFINE longer == Append(s, x)
  <2>1. /\ Len(s) \in Nat /\ DOMAIN s = 1..Len(s) /\ \A i \in 1..Len(s) : s[i] \in X
        /\ longer \in Seq(X) /\ Len(longer) = Len(s) + 1 /\ longer[Len(s) + 1] = x
        /\ DOMAIN longer = 1..Len(s) + 1 /\ \A i \in 1..Len(s) : longer[i] = s[i]
    BY LenProperties, ElementOfSeq, AppendProperties
  <2>2. map(s) \in Seq(T) /\ Len(map(s)) = Len(s) /\ map(longer) \in Seq(T)
        /\ Len(map(longer)) = Len(s) + 1
    BY <2>1, <1>a
  <2>3. map(longer) = Append(map(s), f[x])
    <3>1. /\ Append(map(s), f[x]) \in Seq(T) /\ Len(Append(map(s), f[x])) = Len(s) + 1
          /\ \A i \in 1..Len(s) : Append(map(s), f[x])[i] = f[s[i]]
          /\ Append(map(s), f[x])[Len(s) + 1] = f[x]
      <4>1. \A i \in 1..Len(s) : map(s)[i] = f[s[i]]
        BY <2>1
      <4> QED BY <1>a, <2>2, <4>1, AppendProperties
    <3>2. \A i \in 1..Len(s) + 1 : map(longer)[i] = f[longer[i]]
      BY <2>1
    <3> QED BY <2>1, <2>2, <3>1, <3>2, SeqEqual
  <2>4. Join(g, longer) = Join(g, s) \o g[x]
    BY <1>0
  <2>5. map(s) \o <<f[x]>> = Append(map(s), f[x])
    <3> HIDE DEF map
    <3>1. PICK m : m = map(s)
      OBVIOUS
    <3>2. Append(m, f[x]) = m \o <<f[x]>>
      BY <1>a, <2>2, <3>1, AppendIsConcat
    <3> QED BY <3>1, <3>2
  <2> HIDE DEF map
  <2> QED BY <1>a, <2>1, <2>3, <2>4, <2>5
<1>3. \A s \in Seq(X) : s \in W
  <2> HIDE DEF W
  <2> QED BY <1>1, <1>2, SequenceInduction
<1> QED BY <1>3

\* Nothing comes of elements that nothing is made of.
LEMMA JoinNothing ==
    ASSUME NEW X, NEW g, \A x \in X : g[x] = <<>>
    PROVE  \A s \in Seq(X) : Join(g, s) = <<>>
<1> DEFINE W == {s \in Seq(X) : Join(g, s) = <<>>}
<1>1. <<>> \in W
  BY JoinSteps, EmptySeq
<1>2. \A s \in Seq(X) : \A x \in X : s \in W => Append(s, x) \in W
  <2> SUFFICES ASSUME NEW s \in Seq(X), NEW x \in X, Join(g, s) = <<>>
               PROVE  Append(s, x) \in Seq(X) /\ Join(g, Append(s, x)) = <<>>
    OBVIOUS
  <2>1. Join(g, Append(s, x)) = Join(g, s) \o g[x] /\ g[x] = <<>>
    BY JoinSteps
  <2>2. <<>> \o <<>> = <<>>
    OBVIOUS
  <2> QED BY <2>1, <2>2, AppendProperties
<1>3. \A s \in Seq(X) : s \in W
  <2> HIDE DEF W
  <2> QED BY <1>1, <1>2, SequenceInduction
<1> QED BY <1>3

\* Both are empty if there is nothing in one after the other.
LEMMA BothEmpty ==
    ASSUME NEW T, NEW a \in Seq(T), NEW b \in Seq(T), a \o b = <<>>
    PROVE  a = <<>> /\ b = <<>>
<1>1. Len(a) \in Nat /\ Len(b) \in Nat /\ Len(a) + Len(b) = 0
  BY LenProperties, ConcatProperties
<1> QED BY <1>1, EmptySeq

\* What is told of the parts of some kinds.
LEMMA TellKinds ==
    ASSUME NEW ps \in Seq(AnyParts), NEW w \in {"system", "user", "assistant"},
           NEW f \in [AnyParts -> AnyParts], NEW K
    PROVE  Join(Tell(w, f, Kinds), OfKinds(ps, K)) = Join(Tell(w, f, K), ps)
<1> DEFINE k == [p \in AnyParts |-> Join(Tell(w, f, Kinds), Sieve(K)[p])]
<1>0. Gives(Tell(w, f, Kinds), AnyParts, Entries) /\ Gives(Sieve(K), AnyParts, AnyParts)
  BY PartGives
<1>1. Join(Tell(w, f, Kinds), Join(Sieve(K), ps)) = Join(k, ps)
  BY <1>0, JoinJoin
<1>2. k = Tell(w, f, K)
  <2>1. ASSUME NEW p \in AnyParts PROVE k[p] = Tell(w, f, K)[p]
    <3>0. p.kind \in Kinds
      BY DEF AnyParts, Kinds
    <3>1. CASE p.kind \in K
      <4>1. Sieve(K)[p] = <<p>>
        BY <3>1 DEF Sieve
      <4>2. Join(Tell(w, f, Kinds), <<p>>) = Tell(w, f, Kinds)[p]
        BY <1>0, JoinOfOne
      <4> QED BY <3>0, <3>1, <4>1, <4>2 DEF Tell
    <3>2. CASE p.kind \notin K
      <4>1. Sieve(K)[p] = <<>>
        BY <3>2 DEF Sieve
      <4>2. Join(Tell(w, f, Kinds), <<>>) = <<>>
        BY JoinSteps
      <4> QED BY <3>2, <4>1, <4>2 DEF Tell
    <3> QED BY <3>1, <3>2
  <2> QED BY <2>1 DEF Tell
<1>3. OfKinds(ps, K) = Join(Sieve(K), ps)
  BY OfKindsJoins
<1> QED BY <1>1, <1>2, <1>3

\* Parts that were changed on their way.
LEMMA TellChanged ==
    ASSUME NEW ps \in Seq(AnyParts), NEW w \in {"system", "user", "assistant"},
           NEW f \in [AnyParts -> AnyParts]
    PROVE  Join(Tell(w, Same, Kinds), Join(One(f), ps)) = Join(Tell(w, f, Kinds), ps)
<1> DEFINE k == [p \in AnyParts |-> Join(Tell(w, Same, Kinds), One(f)[p])]
<1>0. Gives(Tell(w, Same, Kinds), AnyParts, Entries) /\ Gives(One(f), AnyParts, AnyParts)
  BY PartGives, SameTypes
<1>1. Join(Tell(w, Same, Kinds), Join(One(f), ps)) = Join(k, ps)
  BY <1>0, JoinJoin
<1>2. k = Tell(w, f, Kinds)
  <2>1. ASSUME NEW p \in AnyParts PROVE k[p] = Tell(w, f, Kinds)[p]
    <3>0. p.kind \in Kinds /\ f[p] \in AnyParts /\ f[p].kind \in Kinds
      BY DEF AnyParts, Kinds
    <3>1. One(f)[p] = <<f[p]>>
      BY DEF One
    <3>2. Join(Tell(w, Same, Kinds), <<f[p]>>) = Tell(w, Same, Kinds)[f[p]]
      BY <1>0, <3>0, JoinOfOne
    <3> QED BY <3>0, <3>1, <3>2 DEF Tell, Same
  <2> QED BY <2>1 DEF Tell
<1> QED BY <1>1, <1>2

-----------------------------------------------------------------------------
(* What a message of OpenAI's makes of a turn *)

Roles == {"system", "user", "assistant", "tool"}

\* The message an encoder to OpenAI makes of a result.
LEMMA ToolMessages ==
    ASSUME NEW p \in AnyParts
    PROVE  /\ ToolMessage(p) \in ChatMessages /\ ToolMessage(p).role = "tool" /\ ToolMessage(p).calls = <<>>
           /\ ToolMessage(p).content = <<Cleared[p]>>
<1>1. Cleared[p] \in AnyParts /\ Cleared[p] = [p EXCEPT !.err = FALSE]
  BY SameTypes DEF Cleared
<1>2. <<Cleared[p]>> \in Seq(AnyParts) /\ <<>> \in Seq(AnyParts)
  BY <1>1
<1>3. ToolMessage(p) = [role |-> "tool", content |-> <<Cleared[p]>>, calls |-> <<>>]
  BY <1>1 DEF ToolMessage, OpenAIMessage
<1> QED BY <1>2, <1>3 DEF ChatMessages

\* What is made of the messages that say a turn.
LEMMA SaysThrough ==
    ASSUME NEW role \in Roles, NEW ps \in Seq(AnyParts), NEW T, NEW h,
           Gives(h, ChatMessages, T), h[OpenAIMessage(role, <<>>, <<>>)] = <<>>,
           NEW k, k = [p \in AnyParts |-> IF p.kind = "result" THEN h[ToolMessage(p)] ELSE <<>>]
    PROVE  /\ Says(role, ps) \in Seq(ChatMessages)
           /\ Join(h, Says(role, ps)) =
                Join(k, ps) \o h[OpenAIMessage(role, OfKinds(ps, SaidKinds), OfKinds(ps, {"call"}))]
           /\ Join(k, ps) \in Seq(T)
           /\ h[OpenAIMessage(role, OfKinds(ps, SaidKinds), OfKinds(ps, {"call"}))] \in Seq(T)
<1> DEFINE a == OfKinds(ps, SaidKinds)
           b == OfKinds(ps, {"call"})
           m == OpenAIMessage(role, a, b)
           last == IF a \o b = <<>> THEN <<>> ELSE <<m>>
           all == [p \in AnyParts |-> Join(h, Tools[p])]
<1>1. a \in Seq(AnyParts) /\ b \in Seq(AnyParts)
  BY OfKindsJoins
<1>2. m \in ChatMessages /\ last \in Seq(ChatMessages)
  <2>1. m \in ChatMessages
    BY <1>1 DEF OpenAIMessage, ChatMessages, Roles
  <2> QED BY <2>1, FewIn
<1>3. h[m] \in Seq(T)
  BY <1>2 DEF Gives
<1>4. Join(h, last) = h[m]
  <2>1. CASE a \o b = <<>>
    <3>1. a = <<>> /\ b = <<>>
      <4> HIDE DEF a, b
      <4> QED BY <1>1, <2>1, BothEmpty
    <3>2. h[m] = <<>>
      BY <3>1
    <3>3. Join(h, <<>>) = <<>>
      BY JoinSteps
    <3> QED BY <2>1, <3>2, <3>3
  <2>2. CASE a \o b # <<>>
    <3>1. Join(h, <<m>>) = h[m]
      <4> HIDE DEF m
      <4> QED BY <1>2, JoinOfOne
    <3> QED BY <2>2, <3>1
  <2> QED BY <2>1, <2>2
<1>5. ResultMessages(ps) = Join(Tools, ps) /\ Join(Tools, ps) \in Seq(ChatMessages)
  BY ResultsJoin, PartGives, JoinIn
<1>6. Join(h, Join(Tools, ps)) = Join(all, ps)
  BY PartGives, JoinJoin
<1>7. all = k
  <2>1. ASSUME NEW p \in AnyParts PROVE all[p] = k[p]
    <3>1. CASE p.kind = "result"
      <4>1. Join(h, <<ToolMessage(p)>>) = h[ToolMessage(p)]
        BY ToolMessages, JoinOfOne
      <4> QED BY <3>1, <4>1 DEF Tools
    <3>2. CASE p.kind # "result"
      <4>1. Join(h, <<>>) = <<>>
        BY JoinSteps
      <4> QED BY <3>2, <4>1 DEF Tools
    <3> QED BY <3>1, <3>2
  <2> QED BY <2>1
<1>8. Join(h, Join(Tools, ps)) \in Seq(T)
  BY <1>5, JoinIn
<1>9. Says(role, ps) = Join(Tools, ps) \o last
  BY <1>5, Zenon DEF Says
<1> HIDE DEF last, all, m
<1>10. Join(Tools, ps) \o last \in Seq(ChatMessages)
  <2>1. PICK q : q = Join(Tools, ps)
    OBVIOUS
  <2> QED BY <1>2, <1>5, <2>1, ConcatProperties
<1>11. Join(h, Join(Tools, ps) \o last) = Join(h, Join(Tools, ps)) \o Join(h, last)
  <2>1. PICK q : q = Join(Tools, ps)
    OBVIOUS
  <2>2. Join(h, q \o last) = Join(h, q) \o Join(h, last)
    BY <1>2, <1>5, <2>1, JoinConcat
  <2> QED BY <2>1, <2>2
<1> QED BY <1>3, <1>4, <1>6, <1>7, <1>8, <1>9, <1>10, <1>11, Zenon DEF m

-----------------------------------------------------------------------------
(* What is heard in a body *)

HearChat == [m \in ChatMessages |-> Join(Tell(Who(m.role), Same, Kinds), m.content \o m.calls)]
HearBlocks == [m \in BlockMessages |-> Join(Tell(Who(m.role), Same, Kinds), m.content)]
Hear(f) == [m \in CanonMessages |-> Join(Tell(Who(m.role), f, Kinds), m.parts)]

\* A tool answers for the user, a model is the assistant.
LEMMA WhoSpeaks ==
    \A role \in {"system", "user", "assistant", "tool", "model"} :
        /\ Who(role) \in {"system", "user", "assistant"}
        /\ role \in {"system", "user", "assistant"} => Who(role) = role
        /\ role = "tool" => Who(role) = "user"
        /\ role = "model" => Who(role) = "assistant"
BY DEF Who

\* A sequence of parts, each with its side.
LEMMA TellAll ==
    ASSUME NEW w \in {"system", "user", "assistant"}, NEW ps \in Seq(AnyParts)
    PROVE  /\ Join(Tell(w, Same, Kinds), ps) = [i \in DOMAIN ps |-> [who |-> w, part |-> ps[i]]]
           /\ Join(Tell(w, Same, Kinds), ps) \in Seq(Entries)
<1> DEFINE f == [p \in AnyParts |-> [who |-> w, part |-> p]]
           g == [p \in AnyParts |-> <<f[p]>>]
<1>1. f \in [AnyParts -> Entries]
  BY DEF Entries
<1>2. Tell(w, Same, Kinds) = g
  <2>1. \A p \in AnyParts : p.kind \in Kinds
    BY DEF AnyParts, Kinds
  <2> QED BY <2>1 DEF Tell, Same
<1>3. Join(g, ps) = [i \in DOMAIN ps |-> f[ps[i]]]
  <2>1. Gives(g, AnyParts, Entries) /\ \A p \in AnyParts : g[p] = <<f[p]>>
    BY <1>1, FewIn DEF Gives
  <2> HIDE DEF f, g
  <2> QED BY <2>1, JoinSingles
<1>4. \A i \in DOMAIN ps : ps[i] \in AnyParts
  BY LenProperties, ElementOfSeq
<1>5. [i \in DOMAIN ps |-> f[ps[i]]] = [i \in DOMAIN ps |-> [who |-> w, part |-> ps[i]]]
  BY <1>4
<1>6. Join(Tell(w, Same, Kinds), ps) \in Seq(Entries)
  BY PartGives, SameTypes, JoinIn
<1> QED BY <1>2, <1>3, <1>5, <1>6

\* What is heard of a message is entries.
LEMMA HearGives ==
    /\ Gives(HearChat, ChatMessages, Entries) /\ Gives(HearBlocks, BlockMessages, Entries)
    /\ \A f \in [AnyParts -> AnyParts] : Gives(Hear(f), CanonMessages, Entries)
<1>1. ASSUME NEW m \in ChatMessages
      PROVE  Join(Tell(Who(m.role), Same, Kinds), m.content \o m.calls) \in Seq(Entries)
  <2>1. m.content \in Seq(AnyParts) /\ m.calls \in Seq(AnyParts)
        /\ Who(m.role) \in {"system", "user", "assistant"}
    BY WhoSpeaks DEF ChatMessages
  <2>2. m.content \o m.calls \in Seq(AnyParts)
    <3>1. PICK a, b : a = m.content /\ b = m.calls
      OBVIOUS
    <3> QED BY <2>1, <3>1, ConcatProperties
  <2> QED BY <2>1, <2>2, TellAll
<1>2. ASSUME NEW m \in BlockMessages
      PROVE  Join(Tell(Who(m.role), Same, Kinds), m.content) \in Seq(Entries)
  <2>1. m.content \in Seq(AnyParts) /\ Who(m.role) \in {"system", "user", "assistant"}
    BY WhoSpeaks DEF BlockMessages
  <2> QED BY <2>1, TellAll
<1>3. ASSUME NEW f \in [AnyParts -> AnyParts], NEW m \in CanonMessages
      PROVE  Join(Tell(Who(m.role), f, Kinds), m.parts) \in Seq(Entries)
  <2>1. m.parts \in Seq(AnyParts) /\ Who(m.role) \in {"system", "user", "assistant"}
    BY WhoSpeaks DEF CanonMessages
  <2> QED BY <2>1, PartGives, JoinIn
<1>4. Gives(HearChat, ChatMessages, Entries)
  BY <1>1 DEF HearChat, Gives
<1>5. Gives(HearBlocks, BlockMessages, Entries)
  BY <1>2 DEF HearBlocks, Gives
<1> QED BY <1>3, <1>4, <1>5 DEF Hear, Gives

\* What an upstream reads in a body.
LEMMA FlowJoins ==
    /\ \A built : built.messages \in Seq(ChatMessages) =>
          Flow("openai", built) = Join(HearChat, built.messages)
    /\ \A built, protocol :
          /\ protocol # "openai" /\ built.system \in Seq(AnyParts)
          /\ built.messages \in Seq(BlockMessages)
          => Flow(protocol, built) =
                Join(Tell("system", Same, Kinds), built.system) \o Join(HearBlocks, built.messages)
<1> DEFINE by(role, parts) == [i \in DOMAIN parts |-> [who |-> Who(role), part |-> parts[i]]]
<1>1. ASSUME NEW built, built.messages \in Seq(ChatMessages)
      PROVE  Flow("openai", built) = Join(HearChat, built.messages)
  <2> DEFINE ms == built.messages
  <2>1. Flow("openai", built) = Flat([i \in DOMAIN ms |-> by(ms[i].role, ms[i].content \o ms[i].calls)])
    BY Zenon DEF Flow, Concat, FoldLeft, MapThenFoldSet, Flat, Joins!Fold, Joins!MapThenFoldSet, Who
  <2>2. \A i \in DOMAIN ms : ms[i] \in ChatMessages
    BY <1>1, LenProperties, ElementOfSeq
  <2>3. ASSUME NEW m \in ChatMessages PROVE HearChat[m] = by(m.role, m.content \o m.calls)
    <3>1. m.content \in Seq(AnyParts) /\ m.calls \in Seq(AnyParts)
          /\ Who(m.role) \in {"system", "user", "assistant"}
      BY WhoSpeaks DEF ChatMessages
    <3>2. m.content \o m.calls \in Seq(AnyParts)
      <4>1. PICK a, b : a = m.content /\ b = m.calls
        OBVIOUS
      <4> QED BY <3>1, <4>1, ConcatProperties
    <3> QED BY <3>1, <3>2, TellAll DEF HearChat
  <2> HIDE DEF by
  <2>4. Each(HearChat, ms) = [i \in DOMAIN ms |-> by(ms[i].role, ms[i].content \o ms[i].calls)]
    BY <2>2, <2>3 DEF Each
  <2> QED BY <2>1, <2>4, Zenon DEF Join
<1>2. ASSUME NEW built, NEW protocol, protocol # "openai", built.system \in Seq(AnyParts),
             built.messages \in Seq(BlockMessages)
      PROVE  Flow(protocol, built) =
                Join(Tell("system", Same, Kinds), built.system) \o Join(HearBlocks, built.messages)
  <2> DEFINE ms == built.messages
  <2>1. Flow(protocol, built) =
            by("system", built.system) \o Flat([i \in DOMAIN ms |-> by(ms[i].role, ms[i].content)])
    BY <1>2, Zenon DEF Flow, Concat, FoldLeft, MapThenFoldSet, Flat, Joins!Fold,
                       Joins!MapThenFoldSet, Who
  <2>2. \A i \in DOMAIN ms : ms[i] \in BlockMessages
    BY <1>2, LenProperties, ElementOfSeq
  <2>3. ASSUME NEW m \in BlockMessages PROVE HearBlocks[m] = by(m.role, m.content)
    <3>1. m.content \in Seq(AnyParts) /\ Who(m.role) \in {"system", "user", "assistant"}
      BY WhoSpeaks DEF BlockMessages
    <3> QED BY <3>1, TellAll DEF HearBlocks
  <2>4. by("system", built.system) = Join(Tell("system", Same, Kinds), built.system)
    BY <1>2, TellAll, WhoSpeaks
  <2> HIDE DEF by
  <2>5. Each(HearBlocks, ms) = [i \in DOMAIN ms |-> by(ms[i].role, ms[i].content)]
    BY <2>2, <2>3 DEF Each
  <2> QED BY <2>1, <2>4, <2>5, Zenon DEF Join
<1> QED BY <1>1, <1>2

Inline == [p \in AnyParts |-> InlineImage(p)]
Nameless == [p \in AnyParts |-> IF p.kind = "result" THEN [p EXCEPT !.of = NoPart, !.err = FALSE]
                                ELSE InlineImage(p)]

LEMMA InlineTypes == Inline \in [AnyParts -> AnyParts] /\ Nameless \in [AnyParts -> AnyParts]
<1>1. ASSUME NEW p \in AnyParts
      PROVE  InlineImage(p) \in AnyParts /\ [p EXCEPT !.of = NoPart, !.err = FALSE] \in AnyParts
  <2>1. NoPart \in Nat \X Nat
    BY DEF NoPart
  <2> QED BY <2>1 DEF InlineImage, AnyParts
<1> QED BY <1>1 DEF Inline, Nameless

\* Messages of changed parts, from the canonical form.
LEMMA BlocksHeard ==
    ASSUME NEW f \in [AnyParts -> AnyParts], NEW writes, Gives(writes, CanonMessages, BlockMessages),
           \A m \in CanonMessages :
              \/ writes[m] = <<>> /\ m.parts = <<>>
              \/ \E role \in {"user", "assistant", "model"} :
                    /\ writes[m] = <<AnthropicMessage(role, Join(One(f), m.parts))>>
                    /\ Who(role) = Who(m.role)
    PROVE  \A ms \in Seq(CanonMessages) : Join(HearBlocks, Join(writes, ms)) = Join(Hear(f), ms)
<1> DEFINE k == [m \in CanonMessages |-> Join(HearBlocks, writes[m])]
<1>1. \A ms \in Seq(CanonMessages) : Join(HearBlocks, Join(writes, ms)) = Join(k, ms)
  BY HearGives, JoinJoin
<1>2. k = Hear(f)
  <2>1. ASSUME NEW m \in CanonMessages PROVE k[m] = Hear(f)[m]
    <3>0. m.parts \in Seq(AnyParts) /\ Who(m.role) \in {"system", "user", "assistant"}
      BY WhoSpeaks DEF CanonMessages
    <3>1. CASE writes[m] = <<>> /\ m.parts = <<>>
      <4>1. Join(HearBlocks, <<>>) = <<>> /\ Join(Tell(Who(m.role), f, Kinds), <<>>) = <<>>
        BY JoinSteps
      <4> QED BY <3>1, <4>1 DEF Hear
    <3>2. ASSUME NEW role \in {"user", "assistant", "model"},
                 writes[m] = <<AnthropicMessage(role, Join(One(f), m.parts))>>, Who(role) = Who(m.role)
          PROVE  k[m] = Hear(f)[m]
      <4> DEFINE b == AnthropicMessage(role, Join(One(f), m.parts))
      <4>1. Join(One(f), m.parts) \in Seq(AnyParts)
        BY <3>0, PartGives, JoinIn
      <4>2. b \in BlockMessages /\ b.role = role /\ b.content = Join(One(f), m.parts)
        BY <4>1 DEF AnthropicMessage, BlockMessages
      <4>3. Join(HearBlocks, <<b>>) = HearBlocks[b]
        <5> HIDE DEF b
        <5> QED BY <4>2, HearGives, JoinOfOne
      <4>4. HearBlocks[b] = Join(Tell(Who(role), Same, Kinds), Join(One(f), m.parts))
        <5> HIDE DEF b
        <5> QED BY <4>2 DEF HearBlocks
      <4>5. Join(Tell(Who(m.role), Same, Kinds), Join(One(f), m.parts))
              = Join(Tell(Who(m.role), f, Kinds), m.parts)
        BY <3>0, TellChanged
      <4> HIDE DEF b
      <4>6. k[m] = Join(HearBlocks, <<b>>)
        BY <3>2 DEF b
      <4>7. Hear(f)[m] = Join(Tell(Who(m.role), f, Kinds), m.parts)
        BY DEF Hear
      <4> QED BY <3>2, <4>3, <4>4, <4>5, <4>6, <4>7
    <3> QED BY <3>1, <3>2
  <2> QED BY <2>1 DEF Hear
<1> QED BY <1>1, <1>2

\* What is heard in a body of Anthropic's, from the canonical form.
LEMMA AnthropicHeard ==
    ASSUME NEW canon, canon.system \in Seq(AnyParts), canon.messages \in Seq(CanonMessages),
           NEW built, built.system = canon.system,
           built.messages = EncodeAnthropicRequest(canon).messages
    PROVE  Flow("anthropic", built) =
             Join(Tell("system", Same, Kinds), canon.system) \o Join(Hear(Inline), canon.messages)
<1> DEFINE ms == canon.messages
           role(m) == IF m.role = "tool" THEN "user" ELSE m.role
           blocks(m) == Flat([i \in DOMAIN m.parts |-> <<InlineImage(m.parts[i])>>])
           writes == [m \in CanonMessages |-> <<AnthropicMessage(role(m), Join(One(Inline), m.parts))>>]
<1>1. built.messages = Flat([i \in DOMAIN ms |-> <<AnthropicMessage(role(ms[i]), blocks(ms[i]))>>])
  BY Zenon DEF EncodeAnthropicRequest, Concat, FoldLeft, MapThenFoldSet, Flat, Joins!Fold,
               Joins!MapThenFoldSet
<1>2. \A i \in DOMAIN ms : ms[i] \in CanonMessages
  BY LenProperties, ElementOfSeq
<1>3. ASSUME NEW m \in CanonMessages PROVE blocks(m) = Join(One(Inline), m.parts)
  <2>1. \A i \in DOMAIN m.parts : m.parts[i] \in AnyParts
    BY LenProperties, ElementOfSeq DEF CanonMessages
  <2>2. Each(One(Inline), m.parts) = [i \in DOMAIN m.parts |-> <<InlineImage(m.parts[i])>>]
    BY <2>1 DEF Each, One, Inline
  <2> QED BY <2>2, Zenon DEF Join
<1>4. Each(writes, ms) = [i \in DOMAIN ms |-> <<AnthropicMessage(role(ms[i]), blocks(ms[i]))>>]
  <2> HIDE DEF blocks
  <2> QED BY <1>2, <1>3 DEF Each
<1>5. built.messages = Join(writes, ms)
  BY <1>1, <1>4, Zenon DEF Join
<1>6. ASSUME NEW m \in CanonMessages
      PROVE  /\ role(m) \in {"user", "assistant", "model"} /\ Who(role(m)) = Who(m.role)
             /\ writes[m] = <<AnthropicMessage(role(m), Join(One(Inline), m.parts))>>
             /\ writes[m] \in Seq(BlockMessages)
  <2>1. m.role \in {"user", "assistant", "tool"} /\ m.parts \in Seq(AnyParts)
    BY DEF CanonMessages
  <2>2. role(m) \in {"user", "assistant", "model"} /\ Who(role(m)) = Who(m.role)
    BY <2>1 DEF Who
  <2>3. Join(One(Inline), m.parts) \in Seq(AnyParts)
    BY <2>1, InlineTypes, PartGives, JoinIn
  <2>4. AnthropicMessage(role(m), Join(One(Inline), m.parts)) \in BlockMessages
    BY <2>2, <2>3 DEF AnthropicMessage, BlockMessages
  <2>5. writes[m] = <<AnthropicMessage(role(m), Join(One(Inline), m.parts))>>
    OBVIOUS
  <2> HIDE DEF writes, role
  <2> QED BY <2>2, <2>4, <2>5, FewIn
<1>7. Gives(writes, CanonMessages, BlockMessages)
  <2>1. writes = [m \in CanonMessages |-> writes[m]]
    OBVIOUS
  <2> HIDE DEF writes
  <2> QED BY <1>6, <2>1 DEF Gives
<1> HIDE DEF writes, role
<1>8. Join(HearBlocks, Join(writes, ms)) = Join(Hear(Inline), ms)
  BY <1>6, <1>7, InlineTypes, BlocksHeard
<1>9. Join(writes, ms) \in Seq(BlockMessages)
  BY <1>7, JoinIn
<1> QED BY <1>5, <1>8, <1>9, FlowJoins

\* What is heard in a body of Gemini's, from the canonical form.
LEMMA GeminiHeard ==
    ASSUME NEW canon, canon.system \in Seq(AnyParts), canon.messages \in Seq(CanonMessages),
           NEW built, built.system = canon.system,
           built.messages = EncodeGeminiRequest(canon).messages
    PROVE  Flow("gemini", built) =
             Join(Tell("system", Same, Kinds), canon.system) \o Join(Hear(Nameless), canon.messages)
<1> DEFINE ms == canon.messages
           role(m) == IF m.role = "assistant" THEN "model" ELSE "user"
           changed(p) == IF p.kind = "result" THEN [p EXCEPT !.of = NoPart, !.err = FALSE]
                         ELSE InlineImage(p)
           blocks(m) == Flat([i \in DOMAIN m.parts |-> <<changed(m.parts[i])>>])
           said1(m, bs) == IF m.parts = <<>> THEN <<>> ELSE <<AnthropicMessage(role(m), bs)>>
           writes == [m \in CanonMessages |-> said1(m, Join(One(Nameless), m.parts))]
<1>1. built.messages = Flat([i \in DOMAIN ms |-> said1(ms[i], blocks(ms[i]))])
  BY Zenon DEF EncodeGeminiRequest, Concat, FoldLeft, MapThenFoldSet, Flat, Joins!Fold,
               Joins!MapThenFoldSet
<1>2. \A i \in DOMAIN ms : ms[i] \in CanonMessages
  BY LenProperties, ElementOfSeq
<1>3. ASSUME NEW m \in CanonMessages PROVE blocks(m) = Join(One(Nameless), m.parts)
  <2>1. \A i \in DOMAIN m.parts : m.parts[i] \in AnyParts
    BY LenProperties, ElementOfSeq DEF CanonMessages
  <2>2. Each(One(Nameless), m.parts) = [i \in DOMAIN m.parts |-> <<changed(m.parts[i])>>]
    BY <2>1 DEF Each, One, Nameless
  <2> QED BY <2>2, Zenon DEF Join
<1>4. Each(writes, ms) = [i \in DOMAIN ms |-> said1(ms[i], blocks(ms[i]))]
  <2> HIDE DEF blocks, said1
  <2> QED BY <1>2, <1>3 DEF Each
<1>5. built.messages = Join(writes, ms)
  BY <1>1, <1>4, Zenon DEF Join
<1>6. ASSUME NEW m \in CanonMessages
      PROVE  /\ role(m) \in {"user", "assistant", "model"} /\ Who(role(m)) = Who(m.role)
             /\ \/ writes[m] = <<>> /\ m.parts = <<>>
                \/ writes[m] = <<AnthropicMessage(role(m), Join(One(Nameless), m.parts))>>
             /\ writes[m] \in Seq(BlockMessages)
  <2>1. m.role \in {"user", "assistant", "tool"} /\ m.parts \in Seq(AnyParts)
    BY DEF CanonMessages
  <2>2. role(m) \in {"user", "assistant", "model"} /\ Who(role(m)) = Who(m.role)
    BY <2>1 DEF Who
  <2>3. Join(One(Nameless), m.parts) \in Seq(AnyParts)
    BY <2>1, InlineTypes, PartGives, JoinIn
  <2>4. AnthropicMessage(role(m), Join(One(Nameless), m.parts)) \in BlockMessages
    BY <2>2, <2>3 DEF AnthropicMessage, BlockMessages
  <2>5. \/ writes[m] = <<>> /\ m.parts = <<>>
        \/ writes[m] = <<AnthropicMessage(role(m), Join(One(Nameless), m.parts))>>
    OBVIOUS
  <2> HIDE DEF writes, role
  <2> QED BY <2>2, <2>4, <2>5, FewIn
<1>7. Gives(writes, CanonMessages, BlockMessages)
  <2>1. writes = [m \in CanonMessages |-> writes[m]]
    OBVIOUS
  <2> HIDE DEF writes
  <2> QED BY <1>6, <2>1 DEF Gives
<1> HIDE DEF writes, role
<1>8. Join(HearBlocks, Join(writes, ms)) = Join(Hear(Nameless), ms)
  BY <1>6, <1>7, InlineTypes, BlocksHeard
<1>9. Join(writes, ms) \in Seq(BlockMessages)
  BY <1>7, JoinIn
<1> QED BY <1>5, <1>8, <1>9, FlowJoins

Thrice(w, r, f, K, ps) ==
    Join(Tell("user", r, {"result"}), ps)
      \o (Join(Tell(w, f, K), ps) \o Join(Tell(w, f, {"call"}), ps))
SayTurn == [t \in AllTurns |-> Says(t.who, t.parts)]
HearThrice == [m \in CanonMessages |-> Thrice(Who(m.role), Cleared, Same, SaidKinds, m.parts)]

LEMMA ThriceIn ==
    ASSUME NEW w \in {"system", "user", "assistant"}, NEW r \in [AnyParts -> AnyParts],
           NEW f \in [AnyParts -> AnyParts], NEW ps \in Seq(AnyParts)
    PROVE  Thrice(w, r, f, SaidKinds, ps) \in Seq(Entries)
<1>1. PICK a, b, c : /\ a = Join(Tell("user", r, {"result"}), ps)
                     /\ b = Join(Tell(w, f, SaidKinds), ps) /\ c = Join(Tell(w, f, {"call"}), ps)
  OBVIOUS
<1>2. a \in Seq(Entries)
  BY <1>1, PartGives, JoinIn
<1>3. b \in Seq(Entries) /\ c \in Seq(Entries)
  BY <1>1, PartGives, JoinIn
<1>4. b \o c \in Seq(Entries)
  BY <1>3, ConcatProperties
<1>5. PICK d : d = b \o c
  OBVIOUS
<1>6. a \o d \in Seq(Entries)
  BY <1>2, <1>4, <1>5, ConcatProperties
<1> QED BY <1>1, <1>5, <1>6, Zenon DEF Thrice

\* What is heard of what was said before the calls, and of them.
LEMMA TellTwice ==
    ASSUME NEW w \in {"system", "user", "assistant"}, NEW f \in [AnyParts -> AnyParts],
           NEW ps \in Seq(AnyParts)
    PROVE  Join(Tell(w, f, Kinds), OfKinds(ps, SaidKinds) \o OfKinds(ps, {"call"})) =
             Join(Tell(w, f, SaidKinds), ps) \o Join(Tell(w, f, {"call"}), ps)
<1>1. PICK a, b : a = OfKinds(ps, SaidKinds) /\ b = OfKinds(ps, {"call"})
  OBVIOUS
<1>2. a \in Seq(AnyParts) /\ b \in Seq(AnyParts)
  BY <1>1, OfKindsJoins
<1>3. Join(Tell(w, f, Kinds), a \o b) = Join(Tell(w, f, Kinds), a) \o Join(Tell(w, f, Kinds), b)
  <2>1. Gives(Tell(w, f, Kinds), AnyParts, Entries)
    BY PartGives
  <2> QED BY <1>2, <2>1, JoinConcat
<1>4. /\ Join(Tell(w, f, Kinds), a) = Join(Tell(w, f, SaidKinds), ps)
      /\ Join(Tell(w, f, Kinds), b) = Join(Tell(w, f, {"call"}), ps)
  BY <1>1, TellKinds
<1> QED BY <1>1, <1>3, <1>4

\* The messages made of a turn for OpenAI: its results, what it says, its calls.
LEMMA SaysHeard ==
    ASSUME NEW role \in Roles, NEW ps \in Seq(AnyParts)
    PROVE  /\ Says(role, ps) \in Seq(ChatMessages)
           /\ Join(HearChat, Says(role, ps)) = Thrice(Who(role), Cleared, Same, SaidKinds, ps)
<1> DEFINE a == OfKinds(ps, SaidKinds)
           b == OfKinds(ps, {"call"})
           k == [p \in AnyParts |-> IF p.kind = "result" THEN HearChat[ToolMessage(p)] ELSE <<>>]
           w == Who(role)
<1>0. w \in {"system", "user", "assistant"}
  BY WhoSpeaks DEF Roles
<1>1. /\ a \in Seq(AnyParts) /\ b \in Seq(AnyParts) /\ <<>> \in Seq(AnyParts)
  BY OfKindsJoins
<1>2. /\ OpenAIMessage(role, a, b) \in ChatMessages
      /\ OpenAIMessage(role, <<>>, <<>>) \in ChatMessages
  BY <1>1 DEF OpenAIMessage, ChatMessages, Roles
<1>3. HearChat[OpenAIMessage(role, <<>>, <<>>)] = <<>>
  <2>1. <<>> \o <<>> = <<>>
    OBVIOUS
  <2>2. Join(Tell(w, Same, Kinds), <<>>) = <<>>
    BY JoinSteps
  <2> QED BY <1>2, <2>1, <2>2 DEF HearChat, OpenAIMessage
<1>4. HearChat[OpenAIMessage(role, a, b)] = Join(Tell(w, Same, Kinds), a \o b)
  BY <1>2 DEF HearChat, OpenAIMessage
<1>5. Join(Tell(w, Same, Kinds), a \o b) =
         Join(Tell(w, Same, SaidKinds), ps) \o Join(Tell(w, Same, {"call"}), ps)
  BY <1>0, SameTypes, TellTwice
<1>6. k = Tell("user", Cleared, {"result"})
  <2>1. ASSUME NEW p \in AnyParts PROVE k[p] = Tell("user", Cleared, {"result"})[p]
    <3>1. CASE p.kind = "result"
      <4> DEFINE q == <<Cleared[p]>>
      <4>1. q \o <<>> = q /\ q \in Seq(AnyParts) /\ Cleared[p] \in AnyParts
        BY SameTypes
      <4>2. HearChat[ToolMessage(p)] = Join(Tell("user", Same, Kinds), q)
        BY <4>1, ToolMessages, WhoSpeaks DEF HearChat
      <4>3. Join(Tell("user", Same, Kinds), q) = Tell("user", Same, Kinds)[Cleared[p]]
        BY <4>1, SameTypes, PartGives, JoinOfOne
      <4>4. Cleared[p].kind \in Kinds
        BY <4>1 DEF AnyParts, Kinds
      <4> QED BY <3>1, <4>1, <4>2, <4>3, <4>4 DEF Tell, Same
    <3>2. CASE p.kind # "result"
      BY <3>2 DEF Tell
    <3> QED BY <3>1, <3>2
  <2> QED BY <2>1 DEF Tell
<1> HIDE DEF k, w
<1>7. /\ Says(role, ps) \in Seq(ChatMessages)
      /\ Join(HearChat, Says(role, ps)) = Join(k, ps) \o HearChat[OpenAIMessage(role, a, b)]
  BY <1>3, HearGives, SaysThrough DEF k
<1> QED BY <1>4, <1>5, <1>6, <1>7 DEF Thrice, w

\* A client of OpenAI says its turns one after another.
LEMMA SaidOpenAI ==
    /\ Gives(SayTurn, AllTurns, ChatMessages)
    /\ \A conversation \in Seq(AllTurns) : SayOpenAI(conversation) = Join(SayTurn, conversation)
<1>1. Gives(SayTurn, AllTurns, ChatMessages)
  <2>1. ASSUME NEW t \in AllTurns PROVE Says(t.who, t.parts) \in Seq(ChatMessages)
    <3>1. t.who \in Roles /\ t.parts \in Seq(AnyParts)
      BY DEF AllTurns, Roles, Sides
    <3> QED BY <3>1, SaysHeard
  <2> QED BY <2>1 DEF SayTurn, Gives
<1>2. ASSUME NEW c \in Seq(AllTurns) PROVE SayOpenAI(c) = Join(SayTurn, c)
  <2>1. SayOpenAI(c) = Flat([i \in DOMAIN c |-> Says(c[i].who, c[i].parts)])
    BY Zenon DEF SayOpenAI, Says, SaidKinds, Concat, FoldLeft, MapThenFoldSet, Flat, Joins!Fold,
                 Joins!MapThenFoldSet
  <2>2. \A i \in DOMAIN c : c[i] \in AllTurns
    BY LenProperties, ElementOfSeq
  <2>3. Each(SayTurn, c) = [i \in DOMAIN c |-> Says(c[i].who, c[i].parts)]
    BY <2>2 DEF Each, SayTurn
  <2> QED BY <2>1, <2>3, Zenon DEF Join
<1> QED BY <1>1, <1>2

\* What is heard in a body of OpenAI's, from the canonical form.
LEMMA OpenAIHeard ==
    ASSUME NEW canon, canon.system \in Seq(AnyParts), canon.messages \in Seq(CanonMessages),
           NEW built, built.messages = EncodeOpenAIRequest(canon).messages
    PROVE  Flow("openai", built) =
             Join(Tell("system", Same, Kinds), canon.system) \o Join(HearThrice, canon.messages)
<1> DEFINE ms == canon.messages
           m0 == OpenAIMessage("system", canon.system, <<>>)
           first == IF canon.system = <<>> THEN <<>> ELSE <<m0>>
           say == [m \in CanonMessages |-> Says(m.role, m.parts)]
           rest == Join(say, ms)
<1>1. built.messages = first \o Flat([i \in DOMAIN ms |-> Says(ms[i].role, ms[i].parts)])
  BY Zenon DEF EncodeOpenAIRequest, Says, SaidKinds, Concat, FoldLeft, MapThenFoldSet, Flat,
               Joins!Fold, Joins!MapThenFoldSet
<1>2. \A i \in DOMAIN ms : ms[i] \in CanonMessages
  BY LenProperties, ElementOfSeq
<1>3. Each(say, ms) = [i \in DOMAIN ms |-> Says(ms[i].role, ms[i].parts)]
  BY <1>2 DEF Each
<1>4. built.messages = first \o rest
  BY <1>1, <1>3, Zenon DEF Join
<1>5. Gives(say, CanonMessages, ChatMessages)
  <2>1. ASSUME NEW m \in CanonMessages PROVE Says(m.role, m.parts) \in Seq(ChatMessages)
    <3>1. m.role \in Roles /\ m.parts \in Seq(AnyParts)
      BY DEF CanonMessages, Roles
    <3> QED BY <3>1, SaysHeard
  <2> QED BY <2>1 DEF Gives
<1>6. rest \in Seq(ChatMessages)
  <2> HIDE DEF say
  <2> QED BY <1>5, JoinIn
<1>7. Join(HearChat, rest) = Join(HearThrice, ms)
  <2> DEFINE k == [m \in CanonMessages |-> Join(HearChat, say[m])]
  <2>1. Join(HearChat, Join(say, ms)) = Join(k, ms)
    <3> HIDE DEF say
    <3> QED BY <1>5, HearGives, JoinJoin
  <2>2. ASSUME NEW m \in CanonMessages PROVE k[m] = HearThrice[m]
    <3>1. m.role \in Roles /\ m.parts \in Seq(AnyParts)
      BY DEF CanonMessages, Roles
    <3>2. Join(HearChat, Says(m.role, m.parts)) = Thrice(Who(m.role), Cleared, Same, SaidKinds, m.parts)
      BY <3>1, SaysHeard
    <3> QED BY <3>2 DEF HearThrice
  <2>3. k = HearThrice
    BY <2>2 DEF HearThrice
  <2> QED BY <2>1, <2>3
<1>8. first \in Seq(ChatMessages)
      /\ Join(HearChat, first) = Join(Tell("system", Same, Kinds), canon.system)
  <2>1. m0 \in ChatMessages /\ m0.role = "system" /\ m0.content = canon.system /\ m0.calls = <<>>
    BY DEF OpenAIMessage, ChatMessages
  <2>2. canon.system \o <<>> = canon.system
    BY ConcatEmptySeq
  <2> HIDE DEF m0
  <2>3. HearChat[m0] = Join(Tell("system", Same, Kinds), canon.system)
    BY <2>1, <2>2, WhoSpeaks DEF HearChat
  <2>4. Join(HearChat, <<m0>>) = HearChat[m0]
    BY <2>1, HearGives, JoinOfOne
  <2>5. Join(HearChat, <<>>) = <<>> /\ Join(Tell("system", Same, Kinds), <<>>) = <<>>
    BY JoinSteps
  <2> QED BY <2>1, <2>3, <2>4, <2>5, FewIn
<1> HIDE DEF first, rest
<1>9. built.messages \in Seq(ChatMessages)
  BY <1>4, <1>6, <1>8, ConcatProperties
<1>10. Join(HearChat, first \o rest) = Join(HearChat, first) \o Join(HearChat, rest)
  BY <1>6, <1>8, HearGives, JoinConcat
<1>11. Flow("openai", built) = Join(HearChat, built.messages)
  BY <1>9, FlowJoins
<1> QED BY <1>4, <1>7, <1>8, <1>10, <1>11

-----------------------------------------------------------------------------
(* What is heard of the canonical form *)

After(f) == [p \in AnyParts |-> f[Cleared[p]]]
SystemTold(K) ==
    [t \in AllTurns |-> IF t.who = "system" THEN Join(Tell("system", Same, K), t.parts) ELSE <<>>]
RestTold(f) ==
    [t \in AllTurns |-> IF t.who = "system" THEN Join(Tell("user", After(f), {"result"}), t.parts)
                        ELSE Thrice(t.who, After(f), f, SaidKinds, t.parts)]

LEMMA AfterTypes == \A f \in [AnyParts -> AnyParts] : After(f) \in [AnyParts -> AnyParts]
BY SameTypes DEF After

\* What an upstream hears of OpenAI's messages by way of the canonical form: the
\* system's parts,
LEMMA OpenAISystem ==
    ASSUME NEW role \in {"system", "user", "assistant"}, NEW ps \in Seq(AnyParts), NEW reads,
           reads = [m \in ChatMessages |-> IF m.role \in {"system", "developer"} THEN m.content
                                         ELSE <<>>]
    PROVE  /\ Gives(reads, ChatMessages, AnyParts)
           /\ Join(reads, Says(role, ps)) = IF role = "system" THEN OfKinds(ps, SaidKinds) ELSE <<>>
<1> DEFINE a == OfKinds(ps, SaidKinds)
           b == OfKinds(ps, {"call"})
           k == [p \in AnyParts |-> IF p.kind = "result" THEN reads[ToolMessage(p)] ELSE <<>>]
<1>1. /\ a \in Seq(AnyParts) /\ b \in Seq(AnyParts) /\ <<>> \in Seq(AnyParts)
  BY OfKindsJoins
<1>2. /\ OpenAIMessage(role, a, b) \in ChatMessages
      /\ OpenAIMessage(role, <<>>, <<>>) \in ChatMessages
  BY <1>1 DEF OpenAIMessage, ChatMessages
<1>3. Gives(reads, ChatMessages, AnyParts)
  <2>1. \A m \in ChatMessages : m.content \in Seq(AnyParts)
    BY DEF ChatMessages
  <2> QED BY <1>1, <2>1 DEF Gives
<1>4. /\ reads[OpenAIMessage(role, a, b)] = IF role = "system" THEN a ELSE <<>>
      /\ reads[OpenAIMessage(role, <<>>, <<>>)] = <<>>
  BY <1>2 DEF OpenAIMessage
<1>5. \A p \in AnyParts : k[p] = <<>>
  BY ToolMessages
<1>6. Join(k, ps) = <<>>
  <2> HIDE DEF k
  <2> QED BY <1>5, JoinNothing
<1> HIDE DEF k
<1>7. Join(reads, Says(role, ps)) = Join(k, ps) \o reads[OpenAIMessage(role, a, b)]
  <2>1. role \in Roles
    BY DEF Roles
  <2>2. reads[OpenAIMessage(role, <<>>, <<>>)] = <<>>
    BY <1>4
  <2>3. k = [p \in AnyParts |-> IF p.kind = "result" THEN reads[ToolMessage(p)] ELSE <<>>]
    BY DEF k
  <2> QED BY ONLY <1>3, <2>1, <2>2, <2>3, SaysThrough, ps \in Seq(AnyParts)
<1>8. <<>> \o a = a /\ <<>> \o <<>> = <<>>
  BY <1>1, ConcatEmptySeq
<1> QED BY <1>3, <1>4, <1>6, <1>7, <1>8

\* and the others.
LEMMA OpenAIRest ==
    ASSUME NEW role \in {"system", "user", "assistant"}, NEW ps \in Seq(AnyParts),
           NEW f \in [AnyParts -> AnyParts], NEW reads,
           reads = [m \in ChatMessages |-> DecodeOpenAIMessage(m)]
    PROVE  /\ Gives(reads, ChatMessages, CanonMessages)
           /\ Join(Hear(f), Join(reads, Says(role, ps))) =
                IF role = "system" THEN Join(Tell("user", After(f), {"result"}), ps)
                ELSE Thrice(role, After(f), f, SaidKinds, ps)
<1> DEFINE a == OfKinds(ps, SaidKinds)
           b == OfKinds(ps, {"call"})
           h == [m \in ChatMessages |-> Join(Hear(f), reads[m])]
           k == [p \in AnyParts |-> IF p.kind = "result" THEN h[ToolMessage(p)] ELSE <<>>]
<1>1. /\ a \in Seq(AnyParts) /\ b \in Seq(AnyParts) /\ <<>> \in Seq(AnyParts)
  BY OfKindsJoins
<1>2. /\ OpenAIMessage(role, a, b) \in ChatMessages
      /\ OpenAIMessage(role, <<>>, <<>>) \in ChatMessages
  BY <1>1 DEF OpenAIMessage, ChatMessages
<1>3. Gives(reads, ChatMessages, CanonMessages)
  <2>1. ASSUME NEW m \in ChatMessages PROVE DecodeOpenAIMessage(m) \in Seq(CanonMessages)
    <3>1. m.content \in Seq(AnyParts) /\ m.calls \in Seq(AnyParts)
          /\ m.role \in {"system", "user", "assistant", "tool"}
      BY DEF ChatMessages
    <3>2. m.content \o m.calls \in Seq(AnyParts)
      <4>1. PICK c, d : c = m.content /\ d = m.calls
        OBVIOUS
      <4> QED BY <3>1, <4>1, ConcatProperties
    <3>3. /\ [role |-> "tool", parts |-> m.content] \in CanonMessages
          /\ m.role \in {"user", "assistant"} =>
                [role |-> m.role, parts |-> m.content \o m.calls] \in CanonMessages
      BY <3>1, <3>2 DEF CanonMessages
    <3> QED BY <3>1, <3>3, FewIn DEF DecodeOpenAIMessage
  <2> QED BY <2>1 DEF Gives
<1>4. ASSUME NEW c \in Seq(AnyParts), NEW d \in Seq(AnyParts)
      PROVE  h[OpenAIMessage(role, c, d)] =
               IF role = "system" THEN <<>> ELSE Join(Tell(role, f, Kinds), c \o d)
  <2> DEFINE m == OpenAIMessage(role, c, d)
             n == [role |-> role, parts |-> c \o d]
  <2>1. m \in ChatMessages
    BY DEF OpenAIMessage, ChatMessages
  <2>2. reads[m] = IF role = "system" THEN <<>> ELSE <<n>>
    BY <2>1 DEF DecodeOpenAIMessage, OpenAIMessage
  <2>3. h[m] = Join(Hear(f), reads[m])
    <3> HIDE DEF m
    <3> QED BY <2>1
  <2>4. Join(Hear(f), <<>>) = <<>>
    BY JoinSteps
  <2>5. CASE role # "system"
    <3>1. c \o d \in Seq(AnyParts)
      BY ConcatProperties
    <3>2. n \in CanonMessages
      BY <2>5, <3>1 DEF CanonMessages
    <3>3. Join(Hear(f), <<n>>) = Hear(f)[n]
      <4> HIDE DEF n
      <4> QED BY <3>2, HearGives, JoinOfOne
    <3>4. Hear(f)[n] = Join(Tell(role, f, Kinds), c \o d)
      BY <3>2, WhoSpeaks DEF Hear
    <3> QED BY <2>2, <2>3, <2>5, <3>3, <3>4
  <2> QED BY <2>2, <2>3, <2>4, <2>5
<1>5. h[OpenAIMessage(role, <<>>, <<>>)] = <<>>
  <2>1. <<>> \o <<>> = <<>>
    OBVIOUS
  <2>2. Join(Tell(role, f, Kinds), <<>>) = <<>>
    BY JoinSteps
  <2> HIDE DEF h
  <2> QED BY <1>1, <1>4, <2>1, <2>2
<1>6. k = Tell("user", After(f), {"result"})
  <2>1. ASSUME NEW p \in AnyParts PROVE k[p] = Tell("user", After(f), {"result"})[p]
    <3>1. CASE p.kind = "result"
      <4> DEFINE q == <<Cleared[p]>>
                 n == [role |-> "tool", parts |-> q]
      <4>1. q \in Seq(AnyParts) /\ Cleared[p] \in AnyParts
        BY SameTypes
      <4>2. n \in CanonMessages
        BY <4>1 DEF CanonMessages
      <4>3. reads[ToolMessage(p)] = <<n>>
        BY ToolMessages DEF DecodeOpenAIMessage
      <4>4. Join(Hear(f), <<n>>) = Hear(f)[n]
        <5> HIDE DEF n
        <5> QED BY <4>2, HearGives, JoinOfOne
      <4>5. Hear(f)[n] = Join(Tell("user", f, Kinds), q)
        BY <4>2, WhoSpeaks DEF Hear
      <4>6. Join(Tell("user", f, Kinds), q) = Tell("user", f, Kinds)[Cleared[p]]
        BY <4>1, PartGives, JoinOfOne
      <4>7. Cleared[p].kind \in Kinds
        BY <4>1 DEF AnyParts, Kinds
      <4>8. Tell("user", f, Kinds)[Cleared[p]] = Tell("user", After(f), {"result"})[p]
        BY <3>1, <4>1, <4>7 DEF Tell, After
      <4>9. k[p] = Join(Hear(f), reads[ToolMessage(p)])
        BY <3>1, ToolMessages
      <4> HIDE DEF n, q, k, h
      <4> QED BY <4>3, <4>4, <4>5, <4>6, <4>8, <4>9
    <3>2. CASE p.kind # "result"
      BY <3>2 DEF Tell
    <3> QED BY <3>1, <3>2
  <2> QED BY <2>1 DEF Tell
<1>7. Gives(h, ChatMessages, Entries)
  <2>1. ASSUME NEW m \in ChatMessages PROVE Join(Hear(f), reads[m]) \in Seq(Entries)
    <3>1. reads[m] \in Seq(CanonMessages)
      BY <1>3 DEF Gives
    <3> QED BY <3>1, HearGives, JoinIn
  <2> QED BY <2>1 DEF Gives
<1>8. Says(role, ps) \in Seq(ChatMessages)
  BY SaysHeard DEF Roles
<1>9. Join(Hear(f), Join(reads, Says(role, ps))) = Join(h, Says(role, ps))
  BY <1>3, <1>8, HearGives, JoinJoin
<1>10. k = [p \in AnyParts |-> IF p.kind = "result" THEN h[ToolMessage(p)] ELSE <<>>]
  OBVIOUS
<1> HIDE DEF h, k
<1>11. /\ Join(h, Says(role, ps)) = Join(k, ps) \o h[OpenAIMessage(role, a, b)]
       /\ Join(k, ps) \in Seq(Entries)
  <2>1. role \in Roles
    BY DEF Roles
  <2> QED BY ONLY <1>5, <1>7, <1>10, <2>1, SaysThrough, ps \in Seq(AnyParts)
<1>12. Join(Tell(role, f, Kinds), a \o b) =
          Join(Tell(role, f, SaidKinds), ps) \o Join(Tell(role, f, {"call"}), ps)
  BY TellTwice
<1>13. Join(k, ps) \o <<>> = Join(k, ps)
  BY <1>11, ConcatEmptySeq
<1> QED BY <1>1, <1>3, <1>4, <1>6, <1>9, <1>11, <1>12, <1>13, Zenon DEF Thrice

\* A request of an OpenAI client in the canonical form, and what is heard of it.
LEMMA OpenAICanon ==
    ASSUME NEW conversation \in Seq(AllTurns), NEW sending,
           sending.messages = SayOpenAI(conversation)
    PROVE  LET canon == DecodeOpenAIRequest(sending)
           IN  /\ canon.system \in Seq(AnyParts) /\ canon.messages \in Seq(CanonMessages)
               /\ Join(Tell("system", Same, Kinds), canon.system) =
                    Join(SystemTold(SaidKinds), conversation)
               /\ \A f \in [AnyParts -> AnyParts] :
                     Join(Hear(f), canon.messages) = Join(RestTold(f), conversation)
<1> DEFINE ms == sending.messages
           canon == DecodeOpenAIRequest(sending)
           sys(m) == IF m.role \in {"system", "developer"} THEN m.content ELSE <<>>
           decS == [m \in ChatMessages |-> sys(m)]
           decM == [m \in ChatMessages |-> DecodeOpenAIMessage(m)]
           tell == Tell("system", Same, Kinds)
<1>1. ms = Join(SayTurn, conversation) /\ ms \in Seq(ChatMessages)
  BY SaidOpenAI, JoinIn
<1>2. \A i \in DOMAIN ms : ms[i] \in ChatMessages
  BY <1>1, LenProperties, ElementOfSeq
<1>3. /\ canon.system = Flat([i \in DOMAIN ms |-> sys(ms[i])])
      /\ canon.messages = Flat([i \in DOMAIN ms |-> DecodeOpenAIMessage(ms[i])])
  BY Zenon DEF DecodeOpenAIRequest, Concat, FoldLeft, MapThenFoldSet, Flat, Joins!Fold,
               Joins!MapThenFoldSet
<1>4. Each(decS, ms) = [i \in DOMAIN ms |-> sys(ms[i])]
  BY <1>2 DEF Each
<1>5. Each(decM, ms) = [i \in DOMAIN ms |-> DecodeOpenAIMessage(ms[i])]
  BY <1>2 DEF Each
<1>6. canon.system = Join(decS, ms) /\ canon.messages = Join(decM, ms)
  BY <1>3, <1>4, <1>5, Zenon DEF Join
<1>7. ASSUME NEW t \in AllTurns
      PROVE  t.who \in {"system", "user", "assistant"} /\ t.parts \in Seq(AnyParts)
             /\ SayTurn[t] = Says(t.who, t.parts)
  BY DEF AllTurns, Sides, SayTurn
<1>8. Gives(decS, ChatMessages, AnyParts) /\ Gives(decM, ChatMessages, CanonMessages)
  <2>1. "system" \in {"system", "user", "assistant"} /\ <<>> \in Seq(AnyParts)
        /\ Same \in [AnyParts -> AnyParts]
    BY SameTypes
  <2> QED BY <2>1, OpenAISystem, OpenAIRest
<1>9. canon.system \in Seq(AnyParts) /\ canon.messages \in Seq(CanonMessages)
  <2> HIDE DEF decS, decM, canon, ms
  <2> QED BY <1>1, <1>6, <1>8, JoinIn
<1>10. Join(tell, canon.system) = Join(SystemTold(SaidKinds), conversation)
  <2> DEFINE k == [t \in AllTurns |-> Join(decS, SayTurn[t])]
             l == [t \in AllTurns |-> Join(tell, k[t])]
  <2>0. Gives(SayTurn, AllTurns, ChatMessages) /\ Gives(tell, AnyParts, Entries)
    BY SaidOpenAI, PartGives, SameTypes
  <2>1. Join(decS, Join(SayTurn, conversation)) = Join(k, conversation)
    <3> HIDE DEF decS
    <3> QED BY <1>8, <2>0, JoinJoin
  <2>2. ASSUME NEW t \in AllTurns
        PROVE  k[t] = IF t.who = "system" THEN OfKinds(t.parts, SaidKinds) ELSE <<>>
    <3>1. k[t] = Join(decS, Says(t.who, t.parts))
      <4> HIDE DEF decS
      <4> QED BY <1>7
    <3> QED BY <1>7, <3>1, OpenAISystem
  <2>3. Gives(k, AllTurns, AnyParts)
    <3>1. \A t \in AllTurns : k[t] \in Seq(AnyParts)
      <4> HIDE DEF k
      <4> QED BY <1>7, <2>2, OfKindsJoins, FewIn
    <3>2. k = [t \in AllTurns |-> k[t]]
      OBVIOUS
    <3> HIDE DEF k
    <3> QED BY <3>1, <3>2 DEF Gives
  <2>4. Join(tell, Join(k, conversation)) = Join(l, conversation)
    <3> HIDE DEF k, tell
    <3> QED BY <2>0, <2>3, JoinJoin
  <2>5. l = SystemTold(SaidKinds)
    <3>1. ASSUME NEW t \in AllTurns PROVE l[t] = SystemTold(SaidKinds)[t]
      <4>1. l[t] = Join(tell, k[t])
        <5> HIDE DEF k, tell
        <5> QED OBVIOUS
      <4>2. Join(tell, <<>>) = <<>>
        BY JoinSteps
      <4>3. Join(tell, OfKinds(t.parts, SaidKinds)) = Join(Tell("system", Same, SaidKinds), t.parts)
        BY <1>7, SameTypes, TellKinds
      <4> HIDE DEF l, k, tell
      <4> QED BY <2>2, <4>1, <4>2, <4>3 DEF SystemTold
    <3> HIDE DEF k, tell
    <3> QED BY <3>1 DEF SystemTold
  <2> HIDE DEF k, l, tell, decS, canon
  <2> QED BY <1>1, <1>6, <2>1, <2>4, <2>5
<1>11. ASSUME NEW f \in [AnyParts -> AnyParts]
       PROVE  Join(Hear(f), canon.messages) = Join(RestTold(f), conversation)
  <2> DEFINE k == [t \in AllTurns |-> Join(decM, SayTurn[t])]
             l == [t \in AllTurns |-> Join(Hear(f), k[t])]
  <2>0. Gives(SayTurn, AllTurns, ChatMessages) /\ Gives(Hear(f), CanonMessages, Entries)
    BY SaidOpenAI, HearGives
  <2>1. Join(decM, Join(SayTurn, conversation)) = Join(k, conversation)
    <3> HIDE DEF decM
    <3> QED BY <1>8, <2>0, JoinJoin
  <2>2. ASSUME NEW t \in AllTurns PROVE k[t] = Join(decM, Says(t.who, t.parts))
    <3> HIDE DEF decM
    <3> QED BY <1>7
  <2>3. Gives(k, AllTurns, CanonMessages)
    <3>1. ASSUME NEW t \in AllTurns PROVE Join(decM, SayTurn[t]) \in Seq(CanonMessages)
      <4>1. SayTurn[t] \in Seq(ChatMessages)
        BY <2>0 DEF Gives
      <4> HIDE DEF decM
      <4> QED BY <1>8, <4>1, JoinIn
    <3> HIDE DEF decM
    <3> QED BY <3>1 DEF Gives
  <2>4. Join(Hear(f), Join(k, conversation)) = Join(l, conversation)
    <3> HIDE DEF k
    <3> QED BY <2>0, <2>3, JoinJoin
  <2>5. l = RestTold(f)
    <3>1. ASSUME NEW t \in AllTurns PROVE l[t] = RestTold(f)[t]
      <4>1. l[t] = Join(Hear(f), Join(decM, Says(t.who, t.parts)))
        <5> HIDE DEF k
        <5> QED BY <2>2
      <4>2. Join(Hear(f), Join(decM, Says(t.who, t.parts))) =
              IF t.who = "system" THEN Join(Tell("user", After(f), {"result"}), t.parts)
              ELSE Thrice(t.who, After(f), f, SaidKinds, t.parts)
        BY <1>7, OpenAIRest
      <4> HIDE DEF l, k, decM
      <4> QED BY <4>1, <4>2 DEF RestTold
    <3> HIDE DEF k
    <3> QED BY <3>1 DEF RestTold
  <2> HIDE DEF k, l, decM, canon
  <2> QED BY <1>1, <1>6, <2>1, <2>4, <2>5
<1> HIDE DEF canon
<1> QED BY <1>9, <1>10, <1>11 DEF canon

\* The system's parts, of an Anthropic client.
LEMMA AnthropicSystem ==
    ASSUME NEW conversation \in Seq(AllTurns)
    PROVE  /\ SystemOf(conversation) \in Seq(AnyParts)
           /\ Join(Tell("system", Same, Kinds), SystemOf(conversation)) =
                Join(SystemTold(Kinds), conversation)
<1> DEFINE g == [t \in AllTurns |-> IF t.who = "system" THEN t.parts ELSE <<>>]
           tell == Tell("system", Same, Kinds)
           k == [t \in AllTurns |-> Join(tell, g[t])]
<1>1. \A i \in DOMAIN conversation : conversation[i] \in AllTurns
  BY LenProperties, ElementOfSeq
<1>2. SystemOf(conversation) =
         Flat([i \in DOMAIN conversation |-> IF conversation[i].who = "system"
                                             THEN conversation[i].parts ELSE <<>>])
  BY Zenon DEF SystemOf, Concat, FoldLeft, MapThenFoldSet, Flat, Joins!Fold, Joins!MapThenFoldSet
<1>3. Each(g, conversation) =
         [i \in DOMAIN conversation |-> IF conversation[i].who = "system"
                                        THEN conversation[i].parts ELSE <<>>]
  BY <1>1 DEF Each
<1>4. SystemOf(conversation) = Join(g, conversation)
  BY <1>2, <1>3, Zenon DEF Join
<1>5. Gives(g, AllTurns, AnyParts) /\ Gives(tell, AnyParts, Entries)
  <2>1. \A t \in AllTurns : t.parts \in Seq(AnyParts)
    BY DEF AllTurns
  <2>2. Gives(tell, AnyParts, Entries)
    BY PartGives, SameTypes
  <2>3. Gives(g, AllTurns, AnyParts)
    BY <2>1, FewIn DEF Gives
  <2> QED BY <2>2, <2>3
<1>6. Join(tell, Join(g, conversation)) = Join(k, conversation)
  <2> HIDE DEF g, tell
  <2> QED BY <1>5, JoinJoin
<1>7. k = SystemTold(Kinds)
  <2>1. Join(tell, <<>>) = <<>>
    BY JoinSteps
  <2> QED BY <2>1 DEF SystemTold
<1> HIDE DEF g, tell
<1>8. Join(g, conversation) \in Seq(AnyParts)
  BY <1>5, JoinIn
<1> QED BY <1>4, <1>6, <1>7, <1>8 DEF tell

\* A turn of an Anthropic client in the canonical form, and what g makes of it.
Own(t) == [role |-> t.who, parts |-> OfKinds(t.parts, PartKinds)]
Owns(g) == [t \in AllTurns |-> IF t.who = "system" THEN <<>> ELSE g[Own(t)]]

\* The messages of an Anthropic client in the canonical form, and what is made of them.
LEMMA AnthropicCanon ==
    ASSUME NEW conversation \in Seq(AllTurns), NEW sending,
           sending.messages = SayAnthropic(conversation)
    PROVE  LET canon == DecodeAnthropicRequest(sending)
           IN  /\ canon.messages \in Seq(CanonMessages)
               /\ \A g : Gives(g, CanonMessages, Entries) =>
                    Join(g, canon.messages) = Join(Owns(g), conversation)
<1> DEFINE c == conversation
           ms == sending.messages
           canon == DecodeAnthropicRequest(sending)
           say == [t \in AllTurns |-> IF t.who = "system" THEN <<>>
                                      ELSE <<AnthropicMessage(t.who, t.parts)>>]
           plain(m) == [role |-> m.role, parts |-> OfKinds(m.content, PartKinds)]
           People == {m \in BlockMessages : m.role \in {"user", "assistant"}}
           reads == [m \in People |-> <<plain(m)>>]
           k == [t \in AllTurns |-> Join(reads, say[t])]
<1>1. ms = Join(say, c)
  <2>1. \A i \in DOMAIN c : c[i] \in AllTurns
    BY LenProperties, ElementOfSeq
  <2>2. ms = Flat([i \in DOMAIN c |-> IF c[i].who = "system" THEN <<>>
                                      ELSE <<AnthropicMessage(c[i].who, c[i].parts)>>])
    BY Zenon DEF SayAnthropic, Concat, FoldLeft, MapThenFoldSet, Flat, Joins!Fold,
                 Joins!MapThenFoldSet
  <2>3. Each(say, c) = [i \in DOMAIN c |-> IF c[i].who = "system" THEN <<>>
                                           ELSE <<AnthropicMessage(c[i].who, c[i].parts)>>]
    BY <2>1 DEF Each
  <2> QED BY <2>2, <2>3, Zenon DEF Join
<1>2. ASSUME NEW t \in AllTurns, t.who # "system"
      PROVE  /\ AnthropicMessage(t.who, t.parts) \in People /\ Own(t) \in CanonMessages
             /\ plain(AnthropicMessage(t.who, t.parts)) = Own(t)
  <2>1. t.who \in {"user", "assistant"} /\ t.parts \in Seq(AnyParts)
    BY <1>2 DEF AllTurns, Sides
  <2>2. OfKinds(t.parts, PartKinds) \in Seq(AnyParts)
    BY <2>1, OfKindsJoins
  <2> QED BY <2>1, <2>2 DEF AnthropicMessage, BlockMessages, CanonMessages, Own
<1>3. Gives(say, AllTurns, People)
  <2> HIDE DEF People
  <2> QED BY <1>2, FewIn DEF Gives
<1>4. Gives(reads, People, CanonMessages)
  <2>1. ASSUME NEW m \in People PROVE plain(m) \in CanonMessages
    <3>1. m.content \in Seq(AnyParts)
      BY DEF BlockMessages
    <3>2. OfKinds(m.content, PartKinds) \in Seq(AnyParts)
      BY <3>1, OfKindsJoins
    <3> QED BY <3>2 DEF CanonMessages
  <2> HIDE DEF People, plain
  <2> QED BY <2>1, FewIn DEF Gives
<1>5. ms \in Seq(People)
  <2> HIDE DEF say, People
  <2> QED BY <1>1, <1>3, JoinIn
<1>6. canon.messages = Join(reads, ms)
  <2>1. \A i \in DOMAIN ms : ms[i] \in People
    <3> HIDE DEF People
    <3> QED BY <1>5, LenProperties, ElementOfSeq
  <2>2. canon.messages = Flat([i \in DOMAIN ms |-> <<plain(ms[i])>>])
    BY Zenon DEF DecodeAnthropicRequest, PartKinds, Concat, FoldLeft, MapThenFoldSet, Flat,
                 Joins!Fold, Joins!MapThenFoldSet
  <2>3. Each(reads, ms) = [i \in DOMAIN ms |-> <<plain(ms[i])>>]
    BY <2>1 DEF Each
  <2> QED BY <2>2, <2>3, Zenon DEF Join
<1>7. Join(reads, Join(say, c)) = Join(k, c)
  <2> HIDE DEF reads, say, People
  <2> QED BY <1>3, <1>4, JoinJoin
<1>8. ASSUME NEW t \in AllTurns PROVE k[t] = IF t.who = "system" THEN <<>> ELSE <<Own(t)>>
  <2>1. k[t] = Join(reads, say[t])
    <3> HIDE DEF reads, say
    <3> QED OBVIOUS
  <2>2. CASE t.who = "system"
    <3>1. Join(reads, <<>>) = <<>>
      BY JoinSteps
    <3> HIDE DEF reads, k
    <3> QED BY <2>1, <2>2, <3>1
  <2>3. CASE t.who # "system"
    <3> DEFINE m == AnthropicMessage(t.who, t.parts)
    <3>1. m \in People /\ plain(m) = Own(t)
      BY <1>2, <2>3
    <3>2. Join(reads, <<m>>) = reads[m]
      <4> HIDE DEF reads, m, People
      <4> QED BY <1>4, <3>1, JoinOfOne
    <3>3. reads[m] = <<plain(m)>>
      <4> HIDE DEF m, People, plain
      <4> QED BY <3>1
    <3>4. say[t] = <<m>>
      BY <2>3
    <3> HIDE DEF reads, k, say, m, plain, People
    <3> QED BY <2>1, <2>3, <3>1, <3>2, <3>3, <3>4
  <2> QED BY <2>2, <2>3
<1>9. Gives(k, AllTurns, CanonMessages)
  <2>1. k = [t \in AllTurns |-> k[t]]
    OBVIOUS
  <2>2. \A t \in AllTurns : k[t] \in Seq(CanonMessages)
    <3> HIDE DEF k
    <3> QED BY <1>2, <1>8, FewIn
  <2> HIDE DEF k
  <2> QED BY <2>1, <2>2 DEF Gives
<1>10. canon.messages = Join(k, c)
  <2> HIDE DEF k, reads, say, canon, ms
  <2> QED BY <1>1, <1>6, <1>7
<1>11. canon.messages \in Seq(CanonMessages)
  <2> HIDE DEF k, canon
  <2> QED BY <1>9, <1>10, JoinIn
<1>12. ASSUME NEW g, Gives(g, CanonMessages, Entries)
       PROVE  Join(g, canon.messages) =
                Join(Owns(g), c)
  <2> DEFINE l == [t \in AllTurns |-> Join(g, k[t])]
             r == Owns(g)
  <2>1. Join(g, Join(k, c)) = Join(l, c)
    <3> HIDE DEF k
    <3> QED BY <1>9, <1>12, JoinJoin
  <2>0. \A t \in AllTurns : r[t] = IF t.who = "system" THEN <<>> ELSE g[Own(t)]
    BY DEF Owns
  <2>2. ASSUME NEW t \in AllTurns PROVE l[t] = r[t]
    <3>1. l[t] = Join(g, k[t])
      <4> HIDE DEF k
      <4> QED OBVIOUS
    <3>2. CASE t.who = "system"
      <4>1. Join(g, <<>>) = <<>>
        BY JoinSteps
      <4> HIDE DEF l, k
      <4> QED BY <1>8, <2>0, <3>1, <3>2, <4>1
    <3>3. CASE t.who # "system"
      <4> HIDE DEF k, l
      <4>1. Join(g, <<Own(t)>>) = g[Own(t)]
        BY <1>2, <1>12, <3>3, JoinOfOne
      <4> QED BY <1>8, <2>0, <3>1, <3>3, <4>1
    <3> QED BY <3>2, <3>3
  <2>3. l = r
    <3> HIDE DEF k
    <3> QED BY <2>2 DEF Owns
  <2> HIDE DEF k, l, canon
  <2> QED BY <1>10, <2>1, <2>3
<1> HIDE DEF canon
<1> QED BY <1>11, <1>12 DEF canon

-----------------------------------------------------------------------------
(* Parts and turns in their order *)

\* A change that keeps the number of a part, and its kind but for links.
Keeps(F) == /\ F \in [AnyParts -> AnyParts]
            /\ \A p \in AnyParts : /\ F[p].n = p.n
                                   /\ F[p].kind = p.kind \/ (p.kind = "link" /\ F[p].kind = "blank")
EntriesOf(F, w, K, ps) == {[who |-> w, part |-> F[p]] : p \in {q \in ToSet(ps) : q.kind \in K}}
Changes(f) == f \in [AnyParts -> AnyParts]
Agrees(f, F, K, ps) == \A p \in ToSet(ps) : p.kind \in K => f[p] = F[p]
Apart(K, L) == K \cap L = {} /\ "blank" \notin K \cup L
NumberedAs(n, ps) == \A i \in DOMAIN ps : ps[i].n = <<n, i>>
Precedes == {z \in Entries \X Entries : InOrder(z[1], z[2])}

LEMMA PrecedesMeans ==
    ASSUME NEW x \in Entries, NEW y \in Entries
    PROVE  /\ <<x, y>> \in Precedes <=> InOrder(x, y)
           /\ x.part.n \in Nat \X Nat /\ x.part.n[1] \in Nat /\ x.part.n[2] \in Nat
<1>1. x.part.n \in Nat \X Nat
  BY DEF Entries, AnyParts
<1> QED BY <1>1 DEF Precedes

\* Parts of some kinds are told as they should be, one after the other.
LEMMA TellTells ==
    ASSUME NEW w \in {"system", "user", "assistant"}, NEW ps \in Seq(AnyParts),
           NEW f, Changes(f), NEW F, Keeps(F), NEW K, Agrees(f, F, K, ps)
    PROVE  /\ Join(Tell(w, f, K), ps) \in Seq(Entries)
           /\ ToSet(Join(Tell(w, f, K), ps)) = EntriesOf(F, w, K, ps)
           /\ \A n \in Nat : NumberedAs(n, ps) => Ordered(Precedes, Join(Tell(w, f, K), ps))
<1> DEFINE g == Tell(w, f, K)
<1>0. Gives(g, AnyParts, Entries)
  BY PartGives DEF Changes
<1>1. ToSet(ps) \subseteq AnyParts
  BY SetSteps
<1>2. \A p \in ToSet(ps) : ToSet(g[p]) = IF p.kind \in K THEN {[who |-> w, part |-> F[p]]} ELSE {}
  BY <1>1, SetSteps DEF Tell, Agrees
<1>3. ToSet(Join(g, ps)) = UNION {ToSet(g[p]) : p \in ToSet(ps)}
  <2> HIDE DEF g
  <2> QED BY <1>0, JoinSet
<1>4. ToSet(Join(g, ps)) = EntriesOf(F, w, K, ps)
  <2> HIDE DEF g
  <2>1. EntriesOf(F, w, K, ps) \subseteq UNION {ToSet(g[p]) : p \in ToSet(ps)}
    BY <1>2 DEF EntriesOf
  <2>2. UNION {ToSet(g[p]) : p \in ToSet(ps)} \subseteq EntriesOf(F, w, K, ps)
    BY <1>2 DEF EntriesOf
  <2> QED BY <1>3, <2>1, <2>2
<1>5. ASSUME NEW n \in Nat, NumberedAs(n, ps) PROVE Ordered(Precedes, Join(g, ps))
  <2>1. \A i \in DOMAIN ps : i \in Nat /\ ps[i] \in ToSet(ps) /\ ps[i] \in AnyParts
    BY <1>1, LenProperties, ElementOfSeq DEF ToSet
  <2>2. ASSUME NEW i \in DOMAIN ps PROVE Ordered(Precedes, g[ps[i]])
    <3>1. g[ps[i]] = <<>> \/ g[ps[i]] = <<[who |-> w, part |-> f[ps[i]]]>>
      BY <2>1 DEF Tell
    <3>2. \A a, b \in DOMAIN g[ps[i]] : ~(a < b)
      <4> HIDE DEF g
      <4> QED BY <3>1
    <3> HIDE DEF g
    <3> QED BY <3>2 DEF Ordered
  <2>3. ASSUME NEW i \in DOMAIN ps, NEW j \in DOMAIN ps, i < j,
               NEW x \in ToSet(g[ps[i]]), NEW y \in ToSet(g[ps[j]])
        PROVE  <<x, y>> \in Precedes
    <3>1. x = [who |-> w, part |-> F[ps[i]]] /\ y = [who |-> w, part |-> F[ps[j]]]
      BY <1>2, <2>1
    <3>2. F[ps[i]] \in AnyParts /\ F[ps[j]] \in AnyParts
          /\ F[ps[i]].n = <<n, i>> /\ F[ps[j]].n = <<n, j>>
      BY <1>5, <2>1 DEF Keeps, NumberedAs
    <3>3. x \in Entries /\ y \in Entries
      BY <3>1, <3>2 DEF Entries
    <3>4. InOrder(x, y)
      BY <2>1, <2>3, <3>1, <3>2 DEF InOrder
    <3> QED BY <3>3, <3>4, PrecedesMeans
  <2> HIDE DEF g
  <2> QED BY <1>0, <2>2, <2>3, JoinOrdered
<1>6. Join(g, ps) \in Seq(Entries)
  <2> HIDE DEF g
  <2> QED BY <1>0, JoinIn
<1> QED BY <1>4, <1>5, <1>6

\* The entries of parts of one kind follow those of another kind.
LEMMA KindsPrecede ==
    ASSUME NEW ps \in Seq(AnyParts), NEW F, Keeps(F), NEW n \in Nat, NumberedAs(n, ps),
           NEW K, NEW L, Apart(K, L), NEW v \in {"user", "assistant"},
           NEW w \in {"user", "assistant"}
    PROVE  \A x \in EntriesOf(F, v, K, ps), y \in EntriesOf(F, w, L, ps) : <<x, y>> \in Precedes
<1> SUFFICES ASSUME NEW x \in EntriesOf(F, v, K, ps), NEW y \in EntriesOf(F, w, L, ps)
             PROVE  <<x, y>> \in Precedes
  OBVIOUS
<1>1. PICK p \in ToSet(ps) : p.kind \in K /\ x = [who |-> v, part |-> F[p]]
  BY DEF EntriesOf
<1>2. PICK q \in ToSet(ps) : q.kind \in L /\ y = [who |-> w, part |-> F[q]]
  BY DEF EntriesOf
<1>3. PICK i \in DOMAIN ps, j \in DOMAIN ps : p = ps[i] /\ q = ps[j]
  BY DEF ToSet
<1>4. p \in AnyParts /\ q \in AnyParts
  BY SetSteps
<1>5. /\ F[p] \in AnyParts /\ F[q] \in AnyParts /\ F[p].n = <<n, i>> /\ F[q].n = <<n, j>>
      /\ F[p].kind # F[q].kind
  BY <1>1, <1>2, <1>3, <1>4 DEF Keeps, NumberedAs, Apart
<1>6. x \in Entries /\ y \in Entries
  BY <1>1, <1>2, <1>5 DEF Entries
<1>7. InOrder(x, y)
  BY <1>1, <1>2, <1>5 DEF InOrder
<1> QED BY <1>6, <1>7, PrecedesMeans

\* Results, what was said, and calls.
LEMMA ThreeTold ==
    ASSUME NEW ps \in Seq(AnyParts), NEW w \in {"system", "user", "assistant"}, NEW F, Keeps(F),
           NEW r, Changes(r), Agrees(r, F, {"result"}, ps), NEW K, K \subseteq SaidKinds,
           NEW f, Changes(f), Agrees(f, F, K \cup {"call"}, ps),
           \A p \in ToSet(ps) : p.kind = "result" => w = "user",
           NEW s, s = Thrice(w, r, f, K, ps)
    PROVE  /\ s \in Seq(Entries)
           /\ ToSet(s) = EntriesOf(F, w, {"result", "call"} \cup K, ps)
           /\ w # "system" => \A n \in Nat : NumberedAs(n, ps) => Ordered(Precedes, s)
<1>1. PICK a, b, c : /\ a = Join(Tell("user", r, {"result"}), ps)
                     /\ b = Join(Tell(w, f, K), ps) /\ c = Join(Tell(w, f, {"call"}), ps)
  OBVIOUS
<1>0. Agrees(f, F, K, ps) /\ Agrees(f, F, {"call"}, ps) /\ "user" \in {"system", "user", "assistant"}
  BY DEF Agrees
<1>2. /\ a \in Seq(Entries) /\ ToSet(a) = EntriesOf(F, "user", {"result"}, ps)
      /\ \A n \in Nat : NumberedAs(n, ps) => Ordered(Precedes, a)
  BY <1>0, <1>1, TellTells
<1>3. /\ b \in Seq(Entries) /\ ToSet(b) = EntriesOf(F, w, K, ps)
      /\ \A n \in Nat : NumberedAs(n, ps) => Ordered(Precedes, b)
  BY <1>0, <1>1, TellTells
<1>4. /\ c \in Seq(Entries) /\ ToSet(c) = EntriesOf(F, w, {"call"}, ps)
      /\ \A n \in Nat : NumberedAs(n, ps) => Ordered(Precedes, c)
  BY <1>0, <1>1, TellTells
<1>5. PICK d : d = b \o c
  OBVIOUS
<1>6. s = a \o d
  BY <1>1, <1>5 DEF Thrice
<1>7. d \in Seq(Entries) /\ ToSet(d) = ToSet(b) \cup ToSet(c)
  BY <1>3, <1>4, <1>5, ConcatProperties, SetSteps
<1>8. s \in Seq(Entries) /\ ToSet(s) = ToSet(a) \cup ToSet(d)
  <2>1. a \o d \in Seq(Entries)
    BY ONLY <1>2, <1>7, ConcatProperties
  <2>2. ToSet(a \o d) = ToSet(a) \cup ToSet(d)
    BY ONLY <1>2, <1>7, SetSteps
  <2> QED BY <1>6, <2>1, <2>2
<1>9. EntriesOf(F, "user", {"result"}, ps) = EntriesOf(F, w, {"result"}, ps)
  BY DEF EntriesOf
<1>10. EntriesOf(F, w, {"result", "call"} \cup K, ps) =
          EntriesOf(F, w, {"result"}, ps) \cup (EntriesOf(F, w, K, ps) \cup EntriesOf(F, w, {"call"}, ps))
  BY DEF EntriesOf
<1>11. ASSUME w # "system", NEW n \in Nat, NumberedAs(n, ps) PROVE Ordered(Precedes, s)
  <2>1. w \in {"user", "assistant"}
    BY <1>11
  <2>2. PICK R, C : R = {"result"} /\ C = {"call"}
    OBVIOUS
  <2>a. Apart(K, C) /\ Apart(R, K) /\ Apart(R, C)
    BY <2>2 DEF SaidKinds, Apart
  <2>b. /\ ToSet(a) = EntriesOf(F, "user", R, ps) /\ ToSet(b) = EntriesOf(F, w, K, ps)
        /\ ToSet(c) = EntriesOf(F, w, C, ps) /\ "user" \in {"user", "assistant"}
    BY <1>2, <1>3, <1>4, <2>2
  <2>c. /\ \A x \in ToSet(b), y \in ToSet(c) : <<x, y>> \in Precedes
        /\ \A x \in ToSet(a), y \in ToSet(b) : <<x, y>> \in Precedes
    BY ONLY <1>11, <2>1, <2>a, <2>b, KindsPrecede, ps \in Seq(AnyParts), Keeps(F), n \in Nat
  <2>5. \A x \in ToSet(a), y \in ToSet(c) : <<x, y>> \in Precedes
    BY ONLY <1>11, <2>1, <2>a, <2>b, KindsPrecede, ps \in Seq(AnyParts), Keeps(F), n \in Nat
  <2>3. Ordered(Precedes, d)
    BY <1>3, <1>4, <1>5, <1>11, <2>c, OrderedConcat
  <2>6. \A x \in ToSet(a), y \in ToSet(d) : <<x, y>> \in Precedes
    BY <1>7, <2>c, <2>5
  <2> QED BY <1>2, <1>6, <1>7, <1>11, <2>3, <2>6, OrderedConcat
<1> QED BY <1>2, <1>3, <1>4, <1>7, <1>8, <1>9, <1>10, <1>11

\* A turn is told in the sequence a of the system's parts, or in b.
TurnTold(F, K, t, a, b) ==
    /\ ToSet(a) = IF t.who = "system" THEN EntriesOf(F, t.who, K, t.parts) ELSE {}
    /\ ToSet(b) = IF t.who = "system" THEN {} ELSE EntriesOf(F, t.who, K, t.parts)
    /\ \A n \in Nat : NumberedAs(n, t.parts) => Ordered(Precedes, a) /\ Ordered(Precedes, b)

EntriesOfAll(F, K, c) == UNION {EntriesOf(F, t.who, K, t.parts) : t \in ToSet(c)}
Told(F, K, c, S, R) ==
    \A i \in DOMAIN c : NumberedAs(i, c[i].parts) /\ TurnTold(F, K, c[i], S[c[i]], R[c[i]])

\* Where an entry came from.
LEMMA EntryOf ==
    ASSUME NEW F, Keeps(F), NEW ps \in Seq(AnyParts), NEW K, NEW w \in Sides,
           NEW x \in EntriesOf(F, w, K, ps), NEW n \in Nat, NumberedAs(n, ps)
    PROVE  x \in Entries /\ x.who = w /\ x.part.n[1] = n
<1>1. PICK p \in ToSet(ps) : x = [who |-> w, part |-> F[p]]
  BY DEF EntriesOf
<1>2. p \in AnyParts
  BY SetSteps
<1>3. PICK i \in DOMAIN ps : p = ps[i]
  BY DEF ToSet
<1>4. F[p] \in AnyParts /\ F[p].n = <<n, i>>
  BY <1>2, <1>3 DEF Keeps, NumberedAs
<1> QED BY <1>1, <1>4 DEF Entries, Sides

\* A conversation is told in turns, the system's parts first.
LEMMA TurnsTold ==
    ASSUME NEW c \in Seq(AllTurns), NEW S, Gives(S, AllTurns, Entries),
           NEW R, Gives(R, AllTurns, Entries), NEW F, Keeps(F), NEW K, Told(F, K, c, S, R)
    PROVE  LET s == Join(S, c) \o Join(R, c)
           IN  /\ s \in Seq(Entries) /\ Ordered(Precedes, s)
               /\ ToSet(s) = EntriesOfAll(F, K, c)
<1>0. \A i \in DOMAIN c : /\ i \in Nat /\ c[i] \in AllTurns /\ c[i] \in ToSet(c)
                          /\ c[i].who \in Sides /\ c[i].parts \in Seq(AnyParts)
  <2>1. \A i \in DOMAIN c : i \in Nat /\ c[i] \in AllTurns
    BY LenProperties, ElementOfSeq
  <2>2. \A i \in DOMAIN c : c[i] \in ToSet(c)
    BY DEF ToSet
  <2>3. \A t \in AllTurns : t.who \in Sides /\ t.parts \in Seq(AnyParts)
    BY DEF AllTurns
  <2> QED BY <2>1, <2>2, <2>3
<1>b. \A i \in DOMAIN c : NumberedAs(i, c[i].parts) /\ TurnTold(F, K, c[i], S[c[i]], R[c[i]])
  BY DEF Told
<1>a. \A t \in ToSet(c) : \E i \in DOMAIN c : t = c[i]
  BY DEF ToSet
<1>1. PICK a, b : a = Join(S, c) /\ b = Join(R, c)
  OBVIOUS
<1>2. a \in Seq(Entries) /\ b \in Seq(Entries)
  BY <1>1, JoinIn
<1>3. /\ ToSet(a) = UNION {ToSet(S[t]) : t \in ToSet(c)}
      /\ ToSet(b) = UNION {ToSet(R[t]) : t \in ToSet(c)}
  BY <1>1, JoinSet
<1>4. ASSUME NEW i \in DOMAIN c, NEW x \in ToSet(S[c[i]])
      PROVE  x \in Entries /\ x.who = "system" /\ x.part.n[1] = i
  <2>1. c[i].who = "system" /\ x \in EntriesOf(F, c[i].who, K, c[i].parts)
    BY <1>b DEF TurnTold
  <2> QED BY <1>0, <1>b, <2>1, EntryOf
<1>5. ASSUME NEW i \in DOMAIN c, NEW x \in ToSet(R[c[i]])
      PROVE  x \in Entries /\ x.who # "system" /\ x.part.n[1] = i
  <2>1. c[i].who # "system" /\ x \in EntriesOf(F, c[i].who, K, c[i].parts)
    BY <1>b DEF TurnTold
  <2> QED BY <1>0, <1>b, <2>1, EntryOf
<1>6. Ordered(Precedes, a)
  <2>1. \A i \in DOMAIN c : Ordered(Precedes, S[c[i]])
    BY <1>0, <1>b DEF TurnTold
  <2>2. ASSUME NEW i \in DOMAIN c, NEW j \in DOMAIN c, i < j,
               NEW x \in ToSet(S[c[i]]), NEW y \in ToSet(S[c[j]])
        PROVE  <<x, y>> \in Precedes
    <3>1. /\ x \in Entries /\ x.who = "system" /\ x.part.n[1] = i
          /\ y \in Entries /\ y.who = "system" /\ y.part.n[1] = j
      BY <1>4
    <3> QED BY <2>2, <3>1, PrecedesMeans DEF InOrder
  <2> QED BY <1>1, <2>1, <2>2, JoinOrdered
<1>7. Ordered(Precedes, b)
  <2>1. \A i \in DOMAIN c : Ordered(Precedes, R[c[i]])
    BY <1>0, <1>b DEF TurnTold
  <2>2. ASSUME NEW i \in DOMAIN c, NEW j \in DOMAIN c, i < j,
               NEW x \in ToSet(R[c[i]]), NEW y \in ToSet(R[c[j]])
        PROVE  <<x, y>> \in Precedes
    <3>1. /\ x \in Entries /\ x.who # "system" /\ x.part.n[1] = i
          /\ y \in Entries /\ y.who # "system" /\ y.part.n[1] = j
      BY <1>5
    <3> QED BY <2>2, <3>1, PrecedesMeans DEF InOrder
  <2> QED BY <1>1, <2>1, <2>2, JoinOrdered
<1>8. ASSUME NEW x \in ToSet(a), NEW y \in ToSet(b) PROVE <<x, y>> \in Precedes
  <2>1. PICK i \in DOMAIN c : x \in ToSet(S[c[i]])
    BY <1>a, <1>3
  <2>2. PICK j \in DOMAIN c : y \in ToSet(R[c[j]])
    BY <1>a, <1>3
  <2>3. x \in Entries /\ x.who = "system" /\ y \in Entries /\ y.who # "system"
    BY <1>4, <1>5, <2>1, <2>2
  <2> QED BY <2>3, PrecedesMeans DEF InOrder
<1>9. ToSet(a) \cup ToSet(b) = UNION {EntriesOf(F, t.who, K, t.parts) : t \in ToSet(c)}
  <2>1. \A t \in ToSet(c) : ToSet(S[t]) \cup ToSet(R[t]) = EntriesOf(F, t.who, K, t.parts)
    BY <1>a, <1>b DEF TurnTold
  <2>2. ToSet(a) \cup ToSet(b) = UNION {ToSet(S[t]) \cup ToSet(R[t]) : t \in ToSet(c)}
    BY ONLY <1>3
  <2> QED BY <2>1, <2>2
<1>10. /\ a \o b \in Seq(Entries) /\ Ordered(Precedes, a \o b)
       /\ ToSet(a \o b) = ToSet(a) \cup ToSet(b)
  <2>1. a \o b \in Seq(Entries)
    BY ONLY <1>2, ConcatProperties
  <2>2. ToSet(a \o b) = ToSet(a) \cup ToSet(b)
    BY ONLY <1>2, SetSteps
  <2>3. Ordered(Precedes, a \o b)
    BY ONLY <1>2, <1>6, <1>7, <1>8, OrderedConcat
  <2> QED BY <2>1, <2>2, <2>3
<1> QED BY <1>1, <1>9, <1>10 DEF EntriesOfAll

-----------------------------------------------------------------------------
(* What is expected of a part *)

Valid(p, who) == /\ p.kind \in Sayable(down, who)
                 /\ p.kind # "result" => p.of = NoPart /\ ~p.err
ValidTurn(t) == t \in AllTurns /\ \A p \in ToSet(t.parts) : Valid(p, t.who)
Fixed == [p \in AnyParts |-> Expected([who |-> "user", part |-> p]).part]

\* The kinds of parts a client can put in a turn.
LEMMA SayableKinds ==
    ASSUME Protocols, NEW who \in Sides
    PROVE  /\ Sayable(down, who) \subseteq Kinds \ {"blank"}
           /\ who = "system" => Sayable(down, who) = {"text"}
           /\ "result" \in Sayable(down, who) => who = "user"
           /\ down = "openai" => Sayable(down, who) \subseteq {"text", "image", "link", "call", "result"}
           /\ down = "anthropic" =>
                 Sayable(down, who) \subseteq {"text", "image", "call", "result", "thinking"}
BY DEF Protocols, Sides, Sayable, Kinds

\* Parts with other fields.
LEMMA Remade ==
    ASSUME NEW p \in AnyParts
    PROVE  /\ p = [kind |-> p.kind, n |-> p.n, of |-> p.of, err |-> p.err]
           /\ [p EXCEPT !.err = FALSE] = [kind |-> p.kind, n |-> p.n, of |-> p.of, err |-> FALSE]
           /\ \A k : [p EXCEPT !.kind = k] = [kind |-> k, n |-> p.n, of |-> p.of, err |-> p.err]
           /\ \A o : [p EXCEPT !.of = o, !.err = FALSE] =
                      [kind |-> p.kind, n |-> p.n, of |-> o, err |-> FALSE]
           /\ \A k, e, o : [p EXCEPT !.kind = k, !.err = e, !.of = o] =
                            [kind |-> k, n |-> p.n, of |-> o, err |-> e]
<1> DEFINE fields == {"kind", "n", "of", "err"}
<1>1. p = [kind |-> p.kind, n |-> p.n, of |-> p.of, err |-> p.err]
  BY DEF AnyParts
<1>2. ASSUME NEW k PROVE [p EXCEPT !.kind = k] = [kind |-> k, n |-> p.n, of |-> p.of, err |-> p.err]
  <2>1. [p EXCEPT !.kind = k] = [x \in fields |-> IF x = "kind" THEN k ELSE p[x]]
    BY DEF AnyParts
  <2>2. [x \in fields |-> IF x = "kind" THEN k ELSE p[x]] =
           [kind |-> k, n |-> p.n, of |-> p.of, err |-> p.err]
    BY DEF AnyParts
  <2> QED BY <2>1, <2>2
<1>3. ASSUME NEW e
      PROVE  [p EXCEPT !.err = e] = [kind |-> p.kind, n |-> p.n, of |-> p.of, err |-> e]
  <2>1. [p EXCEPT !.err = e] = [x \in fields |-> IF x = "err" THEN e ELSE p[x]]
    BY DEF AnyParts
  <2>2. [x \in fields |-> IF x = "err" THEN e ELSE p[x]] =
           [kind |-> p.kind, n |-> p.n, of |-> p.of, err |-> e]
    BY DEF AnyParts
  <2> QED BY <2>1, <2>2
<1>4. ASSUME NEW o, NEW e
      PROVE  [p EXCEPT !.of = o, !.err = e] = [kind |-> p.kind, n |-> p.n, of |-> o, err |-> e]
  <2> DEFINE f == [x \in fields |-> IF x = "of" THEN o ELSE IF x = "err" THEN e ELSE p[x]]
  <2>1. [p EXCEPT !.of = o, !.err = e] = f
    BY DEF AnyParts
  <2>2. PICK r : r = [kind |-> p.kind, n |-> p.n, of |-> o, err |-> e]
    OBVIOUS
  <2>3. r = [x \in fields |-> r[x]]
    BY <2>2
  <2>4. /\ r["kind"] = f["kind"] /\ r["n"] = f["n"] /\ r["of"] = f["of"] /\ r["err"] = f["err"]
    BY <2>2
  <2>5. f = [x \in fields |-> f[x]]
    OBVIOUS
  <2> HIDE DEF f
  <2> QED BY <2>1, <2>2, <2>3, <2>4, <2>5
<1>5. ASSUME NEW k, NEW e, NEW o
      PROVE  [p EXCEPT !.kind = k, !.err = e, !.of = o] = [kind |-> k, n |-> p.n, of |-> o, err |-> e]
  <2> DEFINE f == [x \in fields |-> IF x = "kind" THEN k ELSE IF x = "of" THEN o
                                     ELSE IF x = "err" THEN e ELSE p[x]]
  <2>1. [p EXCEPT !.kind = k, !.err = e, !.of = o] = f
    BY DEF AnyParts
  <2>2. PICK r : r = [kind |-> k, n |-> p.n, of |-> o, err |-> e]
    OBVIOUS
  <2>3. r = [x \in fields |-> r[x]]
    BY <2>2
  <2>4. /\ r["kind"] = f["kind"] /\ r["n"] = f["n"] /\ r["of"] = f["of"] /\ r["err"] = f["err"]
    BY <2>2
  <2>5. f = [x \in fields |-> f[x]]
    OBVIOUS
  <2> HIDE DEF f
  <2> QED BY <2>1, <2>2, <2>3, <2>4, <2>5
<1> QED BY <1>1, <1>2, <1>3, <1>4, <1>5

\* What is expected of a part, field by field.
LEMMA FixedIs ==
    ASSUME Protocols, NEW p \in AnyParts
    PROVE  /\ Fixed[p] =
                [kind |-> IF p.kind = "link" /\ up # "openai" THEN "blank" ELSE p.kind,
                 n |-> p.n, of |-> IF up = "gemini" THEN NoPart ELSE p.of,
                 err |-> IF up = "anthropic" /\ down = "anthropic" THEN p.err ELSE FALSE]
           /\ \A w : Expected([who |-> w, part |-> p]) = [who |-> w, part |-> Fixed[p]]
<1> DEFINE k == IF p.kind = "link" /\ up # "openai" THEN "blank" ELSE p.kind
           o == IF up = "gemini" THEN NoPart ELSE p.of
           e == p.err /\ {up, down} = {"anthropic"}
           r == [kind |-> k, n |-> p.n, of |-> o,
                 err |-> IF up = "anthropic" /\ down = "anthropic" THEN p.err ELSE FALSE]
<1>1. e = IF up = "anthropic" /\ down = "anthropic" THEN p.err ELSE FALSE
  <2>0. p.err \in BOOLEAN
    BY DEF AnyParts
  <2>1. {up, down} = {"anthropic"} <=> up = "anthropic" /\ down = "anthropic"
    OBVIOUS
  <2> QED BY <2>0, <2>1
<1>3. [p EXCEPT !.kind = k, !.err = e, !.of = o] = r
  <2>1. PICK kk, oo, ee : kk = k /\ oo = o /\ ee = e
    OBVIOUS
  <2> HIDE DEF k, o, e
  <2>2. \A kkk, eee, ooo : [p EXCEPT !.kind = kkk, !.err = eee, !.of = ooo] =
                            [kind |-> kkk, n |-> p.n, of |-> ooo, err |-> eee]
    BY Remade
  <2> QED BY <1>1, <2>1, <2>2
<1>4. \A w : Expected([who |-> w, part |-> p]) =
             [who |-> w, part |-> [p EXCEPT !.kind = k, !.err = e, !.of = o]]
  BY DEF Expected
<1>5. Fixed[p] = [p EXCEPT !.kind = k, !.err = e, !.of = o]
  BY DEF Fixed, Expected
<1> QED BY <1>3, <1>4, <1>5

\* No part is expected with another number.
LEMMA FixedKeeps == ASSUME Protocols PROVE Keeps(Fixed)
<1>1. NoPart \in Nat \X Nat
  BY DEF NoPart
<1>2. ASSUME NEW p \in AnyParts
      PROVE  /\ Fixed[p] \in AnyParts /\ Fixed[p].n = p.n
             /\ Fixed[p].kind = p.kind \/ (p.kind = "link" /\ Fixed[p].kind = "blank")
  <2> DEFINE k == IF p.kind = "link" /\ up # "openai" THEN "blank" ELSE p.kind
             o == IF up = "gemini" THEN NoPart ELSE p.of
             e == IF up = "anthropic" /\ down = "anthropic" THEN p.err ELSE FALSE
  <2>1. /\ k \in {"text", "image", "link", "call", "result", "thinking", "blank"}
        /\ p.n \in Nat \X Nat /\ o \in Nat \X Nat /\ e \in BOOLEAN
    BY <1>1 DEF AnyParts
  <2>2. Fixed[p] = [kind |-> k, n |-> p.n, of |-> o, err |-> e]
    BY FixedIs
  <2>3. PICK kk, oo, ee : kk = k /\ oo = o /\ ee = e
    OBVIOUS
  <2> HIDE DEF k, o, e
  <2>4. [kind |-> kk, n |-> p.n, of |-> oo, err |-> ee] \in AnyParts
    BY <2>1, <2>3 DEF AnyParts
  <2>5. Fixed[p] \in AnyParts /\ Fixed[p].n = p.n /\ Fixed[p].kind = k
    BY <2>2, <2>3, <2>4
  <2> QED BY <2>5 DEF k
<1>3. Fixed = [p \in AnyParts |-> Fixed[p]]
  BY DEF Fixed
<1> HIDE DEF Fixed
<1> QED BY <1>2, <1>3 DEF Keeps

\* What the conversions do to a part is what is expected.
LEMMA Accords ==
    ASSUME Protocols, NEW p \in AnyParts, NEW who \in Sides, Valid(p, who)
    PROVE  /\ down = "openai" /\ up = "anthropic" =>
                 Fixed[p] = IF p.kind = "result" THEN After(Inline)[p] ELSE Inline[p]
           /\ down = "openai" /\ up = "gemini" =>
                 Fixed[p] = IF p.kind = "result" THEN After(Nameless)[p] ELSE Nameless[p]
           /\ down = "anthropic" /\ up = "gemini" => Fixed[p] = Nameless[p]
           /\ up = "openai" => Fixed[p] = IF p.kind = "result" THEN Cleared[p] ELSE Same[p]
           /\ down = "anthropic" /\ up = "anthropic" => Fixed[p] = Same[p]
<1>0. p = [kind |-> p.kind, n |-> p.n, of |-> p.of, err |-> p.err] /\ p.err \in BOOLEAN
  BY Remade DEF AnyParts
<1>1. Cleared[p] \in AnyParts
      /\ Cleared[p] = [kind |-> p.kind, n |-> p.n, of |-> p.of, err |-> FALSE]
  BY Remade, SameTypes DEF Cleared
<1>2. ASSUME NEW q \in AnyParts
      PROVE  Inline[q] = [kind |-> IF q.kind = "link" THEN "blank" ELSE q.kind, n |-> q.n,
                          of |-> q.of, err |-> q.err]
  BY Remade DEF Inline, InlineImage
<1>3. ASSUME NEW q \in AnyParts
      PROVE  Nameless[q] = IF q.kind = "result"
                           THEN [kind |-> q.kind, n |-> q.n, of |-> NoPart, err |-> FALSE]
                           ELSE [kind |-> IF q.kind = "link" THEN "blank" ELSE q.kind, n |-> q.n,
                                 of |-> q.of, err |-> q.err]
  <2>1. NoPart \in Nat \X Nat
    BY DEF NoPart
  <2> QED BY <2>1, Remade DEF Nameless, InlineImage
<1>4. /\ After(Inline)[p] = Inline[Cleared[p]] /\ After(Nameless)[p] = Nameless[Cleared[p]]
      /\ Same[p] = p
  BY DEF After, Same
<1>5. p.kind # "result" => p.of = NoPart /\ p.err = FALSE
  BY <1>0 DEF Valid
<1>6. down = "anthropic" => p.kind # "link"
  BY SayableKinds DEF Valid
<1>7. Fixed[p] = [kind |-> IF p.kind = "link" /\ up # "openai" THEN "blank" ELSE p.kind,
                  n |-> p.n, of |-> IF up = "gemini" THEN NoPart ELSE p.of,
                  err |-> IF up = "anthropic" /\ down = "anthropic" THEN p.err ELSE FALSE]
  BY FixedIs
<1>8. CASE down = "openai" /\ up = "anthropic"
  <2>1. Fixed[p] = [kind |-> IF p.kind = "link" THEN "blank" ELSE p.kind, n |-> p.n, of |-> p.of,
                    err |-> FALSE]
    BY <1>7, <1>8
  <2>2. Inline[Cleared[p]] = [kind |-> IF p.kind = "link" THEN "blank" ELSE p.kind, n |-> p.n,
                              of |-> p.of, err |-> FALSE]
    <3>1. PICK q \in AnyParts : q = Cleared[p]
      BY <1>1
    <3>2. q.kind = p.kind /\ q.n = p.n /\ q.of = p.of /\ q.err = FALSE
      BY <1>1, <3>1
    <3> QED BY <1>2, <3>1, <3>2
  <2>3. p.kind # "result" => Inline[p] = Fixed[p]
    BY <1>2, <1>5, <2>1
  <2> QED BY <1>4, <1>8, <2>1, <2>2, <2>3
<1>9. CASE down = "openai" /\ up = "gemini"
  <2>1. Fixed[p] = [kind |-> IF p.kind = "link" THEN "blank" ELSE p.kind, n |-> p.n, of |-> NoPart,
                    err |-> FALSE]
    BY <1>7, <1>9
  <2>2. p.kind = "result" =>
           Nameless[Cleared[p]] = [kind |-> p.kind, n |-> p.n, of |-> NoPart, err |-> FALSE]
    <3>1. PICK q \in AnyParts : q = Cleared[p]
      BY <1>1
    <3>2. q.kind = p.kind /\ q.n = p.n
      BY <1>1, <3>1
    <3> QED BY <1>3, <3>1, <3>2
  <2>3. p.kind # "result" => Nameless[p] = Fixed[p]
    BY <1>3, <1>5, <2>1
  <2> QED BY <1>4, <1>9, <2>1, <2>2, <2>3
<1>10. CASE down = "anthropic" /\ up = "gemini"
  BY <1>0, <1>3, <1>5, <1>6, <1>7, <1>10
<1>11. CASE up = "openai"
  BY <1>0, <1>1, <1>4, <1>5, <1>7, <1>11
<1>12. CASE down = "anthropic" /\ up = "anthropic"
  BY <1>0, <1>4, <1>6, <1>7, <1>12
<1> QED BY <1>8, <1>9, <1>10, <1>11, <1>12

\* What of a conversation is meant for the upstream.
Meant == IF Passthrough THEN Kinds ELSE Kinds \ {"thinking"}

\* To leave out parts and then tell of some is to tell of those in both.
LEMMA TellSieve ==
    ASSUME NEW ps \in Seq(AnyParts), NEW w \in {"system", "user", "assistant"},
           NEW f, Changes(f), NEW K, NEW L
    PROVE  Join(Tell(w, f, K), OfKinds(ps, L)) = Join(Tell(w, f, K \cap L), ps)
<1> DEFINE k == [p \in AnyParts |-> Join(Tell(w, f, K), Sieve(L)[p])]
<1>0. Gives(Tell(w, f, K), AnyParts, Entries) /\ Gives(Sieve(L), AnyParts, AnyParts)
  BY PartGives DEF Changes
<1>1. Join(Tell(w, f, K), Join(Sieve(L), ps)) = Join(k, ps)
  BY <1>0, JoinJoin
<1>2. k = Tell(w, f, K \cap L)
  <2>1. ASSUME NEW p \in AnyParts PROVE k[p] = Tell(w, f, K \cap L)[p]
    <3>1. CASE p.kind \in L
      <4>1. Sieve(L)[p] = <<p>>
        BY <3>1 DEF Sieve
      <4>2. Join(Tell(w, f, K), <<p>>) = Tell(w, f, K)[p]
        BY <1>0, JoinOfOne
      <4> QED BY <3>1, <4>1, <4>2 DEF Tell
    <3>2. CASE p.kind \notin L
      <4>1. Sieve(L)[p] = <<>>
        BY <3>2 DEF Sieve
      <4>2. Join(Tell(w, f, K), <<>>) = <<>>
        BY JoinSteps
      <4> QED BY <3>2, <4>1, <4>2 DEF Tell
    <3> QED BY <3>1, <3>2
  <2> QED BY <2>1 DEF Tell
<1>3. OfKinds(ps, L) = Join(Sieve(L), ps)
  BY OfKindsJoins
<1> QED BY <1>1, <1>2, <1>3

\* Kinds that agree on the parts at hand select the same of them.
LEMMA EntriesSame ==
    ASSUME NEW ps, NEW K, NEW L, \A p \in ToSet(ps) : p.kind \in K <=> p.kind \in L
    PROVE  \A F, w : EntriesOf(F, w, K, ps) = EntriesOf(F, w, L, ps)
BY DEF EntriesOf

\* The changes a converter makes to parts keep their numbers.
LEMMA ChangesAre ==
    /\ Changes(Same) /\ Changes(Cleared) /\ Changes(Inline) /\ Changes(Nameless)
    /\ Changes(After(Inline)) /\ Changes(After(Nameless))
BY SameTypes, InlineTypes, AfterTypes DEF Changes

\* A valid turn, and its parts.
LEMMA Turns ==
    ASSUME Protocols, NEW t, ValidTurn(t)
    PROVE  /\ t \in AllTurns /\ t.who \in {"system", "user", "assistant"} /\ t.who \in Sides
           /\ t.parts \in Seq(AnyParts)
           /\ \A p \in ToSet(t.parts) :
                 /\ p \in AnyParts /\ Valid(p, t.who) /\ p.kind \in Kinds \ {"blank"}
                 /\ p.kind = "result" => t.who = "user"
                 /\ t.who = "system" => p.kind = "text" /\ Fixed[p] = Same[p]
                 /\ down = "openai" => p.kind \in {"text", "image", "link", "call", "result"}
                 /\ down = "anthropic" => p.kind # "link"
<1>1. /\ t \in AllTurns /\ t.who \in {"system", "user", "assistant"} /\ t.who \in Sides
      /\ t.parts \in Seq(AnyParts)
  BY DEF ValidTurn, AllTurns, Sides
<1>2. ASSUME NEW p \in ToSet(t.parts)
      PROVE  /\ p \in AnyParts /\ Valid(p, t.who) /\ p.kind \in Kinds \ {"blank"}
             /\ p.kind = "result" => t.who = "user"
             /\ t.who = "system" => p.kind = "text" /\ Fixed[p] = Same[p]
             /\ down = "openai" => p.kind \in {"text", "image", "link", "call", "result"}
             /\ down = "anthropic" => p.kind # "link"
  <2>1. p \in AnyParts /\ Valid(p, t.who) /\ p.kind \in Sayable(down, t.who)
    BY <1>1, SetSteps DEF ValidTurn, Valid
  <2>2. /\ p.kind \in Kinds \ {"blank"}
        /\ p.kind = "result" => t.who = "user"
        /\ t.who = "system" => p.kind = "text"
        /\ down = "openai" => p.kind \in {"text", "image", "link", "call", "result"}
        /\ down = "anthropic" => p.kind # "link"
    BY <1>1, <2>1, SayableKinds
  <2>3. ASSUME t.who = "system" PROVE Fixed[p] = Same[p]
    <3>1. p.kind = "text" /\ p.of = NoPart /\ p.err = FALSE
      BY <2>1, <2>2, <2>3 DEF Valid, AnyParts
    <3>2. Fixed[p] = [kind |-> p.kind, n |-> p.n, of |-> p.of, err |-> p.err]
      BY <2>1, <3>1, FixedIs
    <3>3. p = [kind |-> p.kind, n |-> p.n, of |-> p.of, err |-> p.err]
      BY <2>1, Remade
    <3> QED BY <2>1, <3>2, <3>3 DEF Same
  <2> QED BY <2>1, <2>2, <2>3
<1> QED BY <1>1, <1>2

\* The system's turns.
LEMMA SystemTurn ==
    ASSUME Protocols, NEW t, ValidTurn(t), NEW K \in {SaidKinds, Kinds}
    PROVE  /\ ToSet(SystemTold(K)[t]) =
                IF t.who = "system" THEN EntriesOf(Fixed, t.who, Meant, t.parts) ELSE {}
           /\ \A n \in Nat : NumberedAs(n, t.parts) => Ordered(Precedes, SystemTold(K)[t])
<1>1. CASE t.who = "system"
  <2>1. SystemTold(K)[t] = Join(Tell("system", Same, K), t.parts)
    BY <1>1, Turns DEF SystemTold
  <2>2. Agrees(Same, Fixed, K, t.parts)
    BY <1>1, Turns DEF Agrees
  <2>3. /\ ToSet(SystemTold(K)[t]) = EntriesOf(Fixed, "system", K, t.parts)
        /\ \A n \in Nat : NumberedAs(n, t.parts) => Ordered(Precedes, SystemTold(K)[t])
    BY <2>1, <2>2, Turns, FixedKeeps, ChangesAre, TellTells
  <2>4. \A p \in ToSet(t.parts) : p.kind \in K <=> p.kind \in Meant
    BY <1>1, Turns DEF Meant, SaidKinds, Kinds
  <2>5. EntriesOf(Fixed, "system", K, t.parts) = EntriesOf(Fixed, "system", Meant, t.parts)
    BY <2>4, EntriesSame
  <2> QED BY <1>1, <2>3, <2>5
<1>2. CASE t.who # "system"
  <2>1. SystemTold(K)[t] = <<>>
    BY <1>2, Turns DEF SystemTold
  <2> QED BY <1>2, <2>1, SetSteps DEF Ordered
<1> QED BY <1>1, <1>2

\* A turn of results, what was said, and calls.
LEMMA ThreeTurn ==
    ASSUME Protocols, NEW t, ValidTurn(t), NEW r, Changes(r), NEW f, Changes(f), NEW K,
           K = SaidKinds \/ (K = {"text", "image"} /\ down = "anthropic"),
           down = "anthropic" => up = "openai",
           \A p \in ToSet(t.parts) : Fixed[p] = IF p.kind = "result" THEN r[p] ELSE f[p],
           NEW s, s = Thrice(t.who, r, f, K, t.parts)
    PROVE  /\ ToSet(s) = EntriesOf(Fixed, t.who, Meant, t.parts)
           /\ t.who # "system" => \A n \in Nat : NumberedAs(n, t.parts) => Ordered(Precedes, s)
<1>1. Agrees(r, Fixed, {"result"}, t.parts)
  BY DEF Agrees
<1>2. Agrees(f, Fixed, K \cup {"call"}, t.parts)
  BY DEF Agrees, SaidKinds
<1>3. K \subseteq SaidKinds
  BY DEF SaidKinds
<1>4. \A p \in ToSet(t.parts) : p.kind = "result" => t.who = "user"
  BY Turns
<1>5. /\ ToSet(s) = EntriesOf(Fixed, t.who, {"result", "call"} \cup K, t.parts)
      /\ t.who # "system" => \A n \in Nat : NumberedAs(n, t.parts) => Ordered(Precedes, s)
  <2>1. t.parts \in Seq(AnyParts) /\ t.who \in {"system", "user", "assistant"} /\ Keeps(Fixed)
    BY Turns, FixedKeeps
  <2>2. PICK ps, w, F : ps = t.parts /\ w = t.who /\ F = Fixed
    OBVIOUS
  <2>3. /\ Agrees(r, F, {"result"}, ps) /\ Agrees(f, F, K \cup {"call"}, ps)
        /\ \A p \in ToSet(ps) : p.kind = "result" => w = "user"
        /\ s = Thrice(w, r, f, K, ps) /\ ps \in Seq(AnyParts)
        /\ w \in {"system", "user", "assistant"} /\ Keeps(F) /\ Changes(r) /\ Changes(f)
    BY <1>1, <1>2, <1>4, <2>1, <2>2
  <2>4. /\ ToSet(s) = EntriesOf(F, w, {"result", "call"} \cup K, ps)
        /\ w # "system" => \A n \in Nat : NumberedAs(n, ps) => Ordered(Precedes, s)
    BY ONLY <1>3, <2>3, ThreeTold
  <2> QED BY <2>2, <2>4
<1>6. \A p \in ToSet(t.parts) : p.kind \in {"result", "call"} \cup K <=> p.kind \in Meant
  <2>1. CASE down = "openai"
    BY <2>1, Turns DEF Meant, SaidKinds, Kinds
  <2>2. CASE down = "anthropic"
    BY <2>2, Turns DEF Meant, SaidKinds, Kinds, Passthrough
  <2> QED BY <2>1, <2>2 DEF Protocols
<1>7. EntriesOf(Fixed, t.who, {"result", "call"} \cup K, t.parts) = EntriesOf(Fixed, t.who, Meant, t.parts)
  <2> DEFINE L == {"result", "call"} \cup K
  <2> HIDE DEF L
  <2>1. \A p \in ToSet(t.parts) : p.kind \in L <=> p.kind \in Meant
    BY <1>6 DEF L
  <2>2. EntriesOf(Fixed, t.who, L, t.parts) = EntriesOf(Fixed, t.who, Meant, t.parts)
    BY <2>1, EntriesSame
  <2> QED BY <2>2 DEF L
<1> QED BY <1>5, <1>7

\* A turn of whose parts those of some kinds are told as they come.
LEMMA OneTurn ==
    ASSUME Protocols, NEW t, ValidTurn(t), NEW f, Changes(f), NEW K, down = "anthropic",
           K = IF Passthrough THEN Kinds ELSE PartKinds,
           \A p \in ToSet(t.parts) : Fixed[p] = f[p],
           NEW s, s = Join(Tell(t.who, f, K), t.parts)
    PROVE  /\ ToSet(s) = EntriesOf(Fixed, t.who, Meant, t.parts)
           /\ \A n \in Nat : NumberedAs(n, t.parts) => Ordered(Precedes, s)
<1>1. Agrees(f, Fixed, K, t.parts)
  BY DEF Agrees
<1>2. /\ ToSet(s) = EntriesOf(Fixed, t.who, K, t.parts)
      /\ \A n \in Nat : NumberedAs(n, t.parts) => Ordered(Precedes, s)
  BY <1>1, Turns, FixedKeeps, TellTells
<1>3. \A p \in ToSet(t.parts) : p.kind \in K <=> p.kind \in Meant
  BY Turns DEF Meant, PartKinds, Kinds
<1> QED BY <1>2, <1>3, EntriesSame

-----------------------------------------------------------------------------
(* A body says what its client said *)

\* The body before the channel's own parameters are set.
Unset(b) == IF up = down THEN b
            ELSE LET canon == IF down = "openai" THEN DecodeOpenAIRequest(b)
                              ELSE DecodeAnthropicRequest(b)
                 IN  CASE up = "openai" -> EncodeOpenAIRequest(canon)
                       [] up = "anthropic" -> EncodeAnthropicRequest(canon)
                       [] up = "gemini" -> EncodeGeminiRequest(canon)

WithOwn(b) == [x \in DOMAIN b.options \cup {"model", "override"} |->
                 IF x \in {"model", "override"} THEN up ELSE b.options[x]]

\* A body is the converted one, with what the upstream's own client would set.
LEMMA BodyBuilt ==
    ASSUME Protocols, NEW c, NEW options, NEW b, b = ClientBody(down, c, options),
           NEW built, built = BuildRequest(down, up, b), built # Refused
    PROVE  /\ built.messages = Unset(b).messages /\ built.system = Unset(b).system
           /\ built.options = IF up = "gemini" THEN Unset(b).options ELSE WithOwn(Unset(b))
<1> DEFINE canon == IF down = "openai" THEN DecodeOpenAIRequest(b) ELSE DecodeAnthropicRequest(b)
           own == {"model", "override"}
<1>1. \E S, M, O : b = [system |-> S, messages |-> M, options |-> O]
  BY DEF ClientBody
<1>2. \E S, M, O : Unset(b) = [options |-> O, system |-> S, messages |-> M]
  <2>1. CASE up = down
    <3>1. PICK S, M, O : b = [system |-> S, messages |-> M, options |-> O]
      BY <1>1
    <3>2. Unset(b) = [options |-> O, system |-> S, messages |-> M]
      BY <2>1, <3>1 DEF Unset
    <3> QED BY <3>2
  <2>2. CASE up # down /\ up = "openai"
    <3>1. Unset(b) = EncodeOpenAIRequest(canon)
      BY <2>2, Zenon DEF Unset
    <3> QED BY <3>1, Zenon DEF EncodeOpenAIRequest
  <2>3. CASE up # down /\ up = "anthropic"
    <3>1. Unset(b) = EncodeAnthropicRequest(canon)
      BY <2>3 DEF Unset
    <3> QED BY <3>1, Zenon DEF EncodeAnthropicRequest
  <2>4. CASE up # down /\ up = "gemini"
    <3>1. Unset(b) = EncodeGeminiRequest(canon)
      BY <2>4 DEF Unset
    <3> QED BY <3>1, Zenon DEF EncodeGeminiRequest
  <2> QED BY <2>1, <2>2, <2>3, <2>4 DEF Protocols
<1>3. built = BuildHTTPRequest(up, Unset(b))
  <2>1. CASE up = down
    BY <2>1 DEF BuildRequest, Unset
  <2>2. CASE up # down
    <3> HIDE DEF canon
    <3>1. built = BuildHTTPRequest(up, EncodeBody(up, canon))
      BY <2>2 DEF BuildRequest, canon
    <3>2. EncodeBody(up, canon) # Refused
      BY <3>1 DEF BuildHTTPRequest
    <3>3. EncodeBody(up, canon) = Unset(b)
      BY <2>2, <3>2 DEF EncodeBody, Unset, canon, Protocols
    <3> QED BY <3>1, <3>3
  <2> QED BY <2>1, <2>2
<1>4. PICK S, M, O : Unset(b) = [options |-> O, system |-> S, messages |-> M]
  BY <1>2
<1>5. Unset(b) # Refused
  BY <1>3 DEF BuildHTTPRequest
<1> HIDE DEF canon
<1>6. CASE up = "gemini"
  BY <1>3, <1>6 DEF BuildHTTPRequest
<1>7. CASE up # "gemini"
  <2>1. built = [Unset(b) EXCEPT !.options = [x \in DOMAIN Unset(b).options \cup own |->
                                                IF x \in own THEN up ELSE Unset(b).options[x]]]
    BY <1>3, <1>5, <1>7, Zenon DEF BuildHTTPRequest
  <2>2. built = [Unset(b) EXCEPT !.options = WithOwn(Unset(b))]
    BY <2>1, Zenon DEF WithOwn
  <2>3. PICK w : w = WithOwn(Unset(b))
    OBVIOUS
  <2>4. built = [[options |-> O, system |-> S, messages |-> M] EXCEPT !.options = w]
    BY <1>4, <2>2, <2>3
  <2>5. built.options = w /\ built.system = S /\ built.messages = M
    BY <2>4
  <2> QED BY <1>4, <1>7, <2>3, <2>5
<1> QED BY <1>6, <1>7

MeantOf(c) == EntriesOfAll(Fixed, Meant, c)
Conversed(c) == c \in Seq(AllTurns)
                /\ \A i \in DOMAIN c : NumberedAs(i, c[i].parts) /\ ValidTurn(c[i])
KeptIn(got, c) == ToSet(got) = MeantOf(c) /\ (~Passthrough => Ordered(Precedes, got))

\* From turns to a conversation.
LEMMA FromTurns ==
    ASSUME Protocols, NEW c, Conversed(c), NEW S, Gives(S, AllTurns, Entries),
           NEW R, Gives(R, AllTurns, Entries),
           \A t : ValidTurn(t) => TurnTold(Fixed, Meant, t, S[t], R[t])
    PROVE  KeptIn(Join(S, c) \o Join(R, c), c)
<1>1. c \in Seq(AllTurns)
  BY DEF Conversed
<1>2. \A i \in DOMAIN c : NumberedAs(i, c[i].parts) /\ TurnTold(Fixed, Meant, c[i], S[c[i]], R[c[i]])
  BY DEF Conversed
<1>3. PICK s, F, K : s = Join(S, c) \o Join(R, c) /\ F = Fixed /\ K = Meant
  OBVIOUS
<1>4. Keeps(F) /\ Told(F, K, c, S, R)
  BY <1>2, <1>3, FixedKeeps DEF Told
<1>5. /\ Ordered(Precedes, Join(S, c) \o Join(R, c))
      /\ ToSet(Join(S, c) \o Join(R, c)) = EntriesOfAll(F, K, c)
  BY ONLY <1>1, <1>4, TurnsTold, Gives(S, AllTurns, Entries), Gives(R, AllTurns, Entries)
<1> QED BY <1>3, <1>5 DEF KeptIn, MeantOf

LEMMA ToldGives ==
    /\ \A K : Gives(SystemTold(K), AllTurns, Entries)
    /\ \A f : Changes(f) /\ Changes(After(f)) => Gives(RestTold(f), AllTurns, Entries)
<1>0. ASSUME NEW t \in AllTurns
      PROVE  t.who \in {"system", "user", "assistant"} /\ t.parts \in Seq(AnyParts)
  BY DEF AllTurns, Sides
<1>1. ASSUME NEW K PROVE Gives(SystemTold(K), AllTurns, Entries)
  <2>1. \A t \in AllTurns : Join(Tell("system", Same, K), t.parts) \in Seq(Entries)
    <3>1. Gives(Tell("system", Same, K), AnyParts, Entries)
      BY PartGives, SameTypes
    <3> QED BY <1>0, <3>1, JoinIn
  <2> QED BY <2>1, FewIn DEF SystemTold, Gives
<1>2. ASSUME NEW f, Changes(f), Changes(After(f)) PROVE Gives(RestTold(f), AllTurns, Entries)
  <2>1. ASSUME NEW t \in AllTurns
        PROVE  /\ Join(Tell("user", After(f), {"result"}), t.parts) \in Seq(Entries)
               /\ Thrice(t.who, After(f), f, SaidKinds, t.parts) \in Seq(Entries)
    <3>1. Gives(Tell("user", After(f), {"result"}), AnyParts, Entries)
      BY <1>2, PartGives DEF Changes
    <3>2. Join(Tell("user", After(f), {"result"}), t.parts) \in Seq(Entries)
      BY <1>0, <3>1, JoinIn
    <3>3. Thrice(t.who, After(f), f, SaidKinds, t.parts) \in Seq(Entries)
      BY <1>0, <1>2, ThriceIn DEF Changes
    <3> QED BY <3>2, <3>3
  <2> QED BY <2>1 DEF RestTold, Gives
<1> QED BY <1>1, <1>2

\* An OpenAI client's turns for another protocol.
LEMMA OpenAITurn ==
    ASSUME Protocols, down = "openai", NEW f, Changes(f), Changes(After(f)),
           \/ up = "anthropic" /\ f = Inline
           \/ up = "gemini" /\ f = Nameless,
           NEW t, ValidTurn(t)
    PROVE  TurnTold(Fixed, Meant, t, SystemTold(SaidKinds)[t], RestTold(f)[t])
<1>1. \A p \in ToSet(t.parts) : Fixed[p] = IF p.kind = "result" THEN After(f)[p] ELSE f[p]
  BY Turns, Accords
<1>2. CASE t.who = "system"
  <2>1. RestTold(f)[t] = Join(Tell("user", After(f), {"result"}), t.parts)
    BY <1>2, Turns DEF RestTold
  <2>2. Agrees(After(f), Fixed, {"result"}, t.parts)
    BY <1>1 DEF Agrees
  <2>3. /\ ToSet(RestTold(f)[t]) = EntriesOf(Fixed, "user", {"result"}, t.parts)
        /\ \A n \in Nat : NumberedAs(n, t.parts) => Ordered(Precedes, RestTold(f)[t])
    BY <2>1, <2>2, Turns, FixedKeeps, TellTells
  <2>4. EntriesOf(Fixed, "user", {"result"}, t.parts) = {}
    BY <1>2, Turns DEF EntriesOf
  <2> QED BY <1>2, <2>3, <2>4, SystemTurn DEF TurnTold
<1>3. CASE t.who # "system"
  <2>1. RestTold(f)[t] = Thrice(t.who, After(f), f, SaidKinds, t.parts)
    BY <1>3, Turns DEF RestTold
  <2>2. /\ ToSet(RestTold(f)[t]) = EntriesOf(Fixed, t.who, Meant, t.parts)
        /\ \A n \in Nat : NumberedAs(n, t.parts) => Ordered(Precedes, RestTold(f)[t])
    BY <1>1, <1>3, <2>1, ThreeTurn
  <2> QED BY <1>3, <2>2, SystemTurn DEF TurnTold
<1> QED BY <1>2, <1>3

\* A conversation of a client of OpenAI, in a body for another protocol.
LEMMA OpenAIKept ==
    ASSUME Protocols, NEW c, Conversed(c), NEW options, NEW b, b = ClientBody(down, c, options),
           NEW built, built.messages = Unset(b).messages, built.system = Unset(b).system,
           down = "openai", up # "openai"
    PROVE  KeptIn(Flow(up, built), c)
<1> DEFINE canon == DecodeOpenAIRequest(b)
<1>0. c \in Seq(AllTurns) /\ b.messages = SayOpenAI(c)
  BY DEF Conversed, ClientBody
<1>1. /\ canon.system \in Seq(AnyParts) /\ canon.messages \in Seq(CanonMessages)
      /\ Join(Tell("system", Same, Kinds), canon.system) = Join(SystemTold(SaidKinds), c)
      /\ \A f \in [AnyParts -> AnyParts] : Join(Hear(f), canon.messages) = Join(RestTold(f), c)
  BY <1>0, OpenAICanon
<1> HIDE DEF canon
<1>2. CASE up = "anthropic"
  <2>1. built.messages = EncodeAnthropicRequest(canon).messages /\ built.system = canon.system
    BY <1>2 DEF Unset, canon, EncodeAnthropicRequest
  <2>2. Flow("anthropic", built) =
           Join(Tell("system", Same, Kinds), canon.system) \o Join(Hear(Inline), canon.messages)
    BY <1>1, <2>1, AnthropicHeard
  <2>3. Flow(up, built) = Join(SystemTold(SaidKinds), c) \o Join(RestTold(Inline), c)
    BY <1>1, <1>2, <2>2, InlineTypes
  <2>4. \A t : ValidTurn(t) =>
               TurnTold(Fixed, Meant, t, SystemTold(SaidKinds)[t], RestTold(Inline)[t])
    BY <1>2, OpenAITurn, ChangesAre
  <2>5. Gives(SystemTold(SaidKinds), AllTurns, Entries) /\ Gives(RestTold(Inline), AllTurns, Entries)
    BY ToldGives, ChangesAre
  <2> QED BY <2>3, <2>4, <2>5, FromTurns
<1>3. CASE up = "gemini"
  <2>1. built.messages = EncodeGeminiRequest(canon).messages /\ built.system = canon.system
    BY <1>3 DEF Unset, canon, EncodeGeminiRequest
  <2>2. Flow("gemini", built) =
           Join(Tell("system", Same, Kinds), canon.system) \o Join(Hear(Nameless), canon.messages)
    BY <1>1, <2>1, GeminiHeard
  <2>3. Flow(up, built) = Join(SystemTold(SaidKinds), c) \o Join(RestTold(Nameless), c)
    BY <1>1, <1>3, <2>2, InlineTypes
  <2>4. \A t : ValidTurn(t) =>
               TurnTold(Fixed, Meant, t, SystemTold(SaidKinds)[t], RestTold(Nameless)[t])
    BY <1>3, OpenAITurn, ChangesAre
  <2>5. Gives(SystemTold(SaidKinds), AllTurns, Entries) /\ Gives(RestTold(Nameless), AllTurns, Entries)
    BY ToldGives, ChangesAre
  <2> QED BY <2>3, <2>4, <2>5, FromTurns
<1> QED BY <1>2, <1>3 DEF Protocols

\* An OpenAI client's body as it is.
LEMMA OpenAIPassed ==
    ASSUME Protocols, NEW c, Conversed(c), NEW options, NEW b, b = ClientBody(down, c, options),
           NEW built, built.messages = Unset(b).messages, built.system = Unset(b).system,
           down = "openai", up = "openai"
    PROVE  KeptIn(Flow(up, built), c)
<1> DEFINE k == [t \in AllTurns |-> Join(HearChat, SayTurn[t])]
<1>0. c \in Seq(AllTurns) /\ built.messages = SayOpenAI(c)
  BY DEF Conversed, ClientBody, Unset
<1>1. SayOpenAI(c) = Join(SayTurn, c) /\ Gives(SayTurn, AllTurns, ChatMessages)
      /\ Join(SayTurn, c) \in Seq(ChatMessages)
  BY <1>0, SaidOpenAI, JoinIn
<1>2. Flow("openai", built) = Join(HearChat, Join(SayTurn, c))
  BY <1>0, <1>1, FlowJoins
<1>3. Join(HearChat, Join(SayTurn, c)) = Join(k, c)
  BY <1>0, <1>1, HearGives, JoinJoin
<1>4. ASSUME NEW t \in AllTurns
      PROVE  k[t] = Thrice(t.who, Cleared, Same, SaidKinds, t.parts) /\ k[t] \in Seq(Entries)
  <2>1. /\ t.who \in {"system", "user", "assistant"} /\ t.who \in Roles
        /\ t.parts \in Seq(AnyParts) /\ Who(t.who) = t.who
    BY WhoSpeaks DEF AllTurns, Sides, Roles
  <2>2. k[t] = Join(HearChat, Says(t.who, t.parts))
    BY DEF SayTurn
  <2> HIDE DEF k
  <2>3. Join(HearChat, Says(t.who, t.parts)) = Thrice(t.who, Cleared, Same, SaidKinds, t.parts)
    BY <2>1, SaysHeard
  <2>4. Thrice(t.who, Cleared, Same, SaidKinds, t.parts) \in Seq(Entries)
    BY <2>1, ThriceIn, SameTypes
  <2> QED BY <2>2, <2>3, <2>4
<1>5. Gives(k, AllTurns, Entries)
  <2>1. k = [t \in AllTurns |-> k[t]]
    OBVIOUS
  <2> HIDE DEF k
  <2> QED BY <1>4, <2>1 DEF Gives
<1> HIDE DEF k
<1>6. ToSet(Join(k, c)) = UNION {ToSet(k[t]) : t \in ToSet(c)}
  BY <1>0, <1>5, JoinSet
<1>7. ASSUME NEW t \in ToSet(c) PROVE ToSet(k[t]) = EntriesOf(Fixed, t.who, Meant, t.parts)
  <2>1. ValidTurn(t)
    BY DEF Conversed, ToSet
  <2>2. k[t] = Thrice(t.who, Cleared, Same, SaidKinds, t.parts)
    BY <1>4, <2>1, Turns
  <2>3. \A p \in ToSet(t.parts) : Fixed[p] = IF p.kind = "result" THEN Cleared[p] ELSE Same[p]
    BY <2>1, Turns, Accords
  <2> QED BY <2>1, <2>2, <2>3, ChangesAre, ThreeTurn
<1>8. ToSet(Join(k, c)) = MeantOf(c)
  BY <1>6, <1>7 DEF MeantOf, EntriesOfAll
<1> QED BY <1>2, <1>3, <1>8 DEF KeptIn, Passthrough

\* The turns that an Anthropic client does not leave to the system.
Others(g) == [t \in AllTurns |-> IF t.who = "system" THEN <<>> ELSE g[t]]

\* An Anthropic client's turns.
LEMMA AnthropicTurn ==
    ASSUME Protocols, down = "anthropic", NEW g, Gives(g, AllTurns, Entries),
           \A t : ValidTurn(t) /\ t.who # "system" =>
              \/ up = "openai" /\ g[t] = Thrice(t.who, Cleared, Same, {"text", "image"}, t.parts)
              \/ up = "gemini" /\ g[t] = Join(Tell(t.who, Nameless, PartKinds), t.parts)
              \/ up = "anthropic" /\ g[t] = Join(Tell(t.who, Same, Kinds), t.parts),
           NEW c, Conversed(c)
    PROVE  KeptIn(Join(SystemTold(Kinds), c) \o Join(Others(g), c), c)
<1>1. ASSUME NEW t, ValidTurn(t)
      PROVE  TurnTold(Fixed, Meant, t, SystemTold(Kinds)[t], Others(g)[t])
  <2>0. t \in AllTurns
    BY <1>1, Turns
  <2>1. CASE t.who = "system"
    <3>1. Others(g)[t] = <<>>
      BY <2>0, <2>1 DEF Others
    <3>2. Ordered(Precedes, <<>>) /\ ToSet(<<>>) = {}
      BY SetSteps DEF Ordered
    <3> QED BY <1>1, <2>1, <3>1, <3>2, SystemTurn DEF TurnTold
  <2>2. CASE t.who # "system"
    <3>0. Others(g)[t] = g[t]
      BY <2>0, <2>2 DEF Others
    <3>1. /\ ToSet(g[t]) = EntriesOf(Fixed, t.who, Meant, t.parts)
          /\ \A n \in Nat : NumberedAs(n, t.parts) => Ordered(Precedes, g[t])
      <4>1. CASE up = "openai"
        <5>1. g[t] = Thrice(t.who, Cleared, Same, {"text", "image"}, t.parts)
          BY <1>1, <2>2, <4>1
        <5>2. \A p \in ToSet(t.parts) : Fixed[p] = IF p.kind = "result" THEN Cleared[p] ELSE Same[p]
          BY <1>1, <4>1, Turns, Accords
        <5>3. PICK K : K = {"text", "image"}
          OBVIOUS
        <5> QED BY <1>1, <2>2, <4>1, <5>1, <5>2, <5>3, ChangesAre, ThreeTurn
      <4>2. CASE up = "gemini"
        <5>1. g[t] = Join(Tell(t.who, Nameless, PartKinds), t.parts)
          BY <1>1, <2>2, <4>2
        <5>2. \A p \in ToSet(t.parts) : Fixed[p] = Nameless[p]
          BY <1>1, <4>2, Turns, Accords
        <5>3. PartKinds = IF Passthrough THEN Kinds ELSE PartKinds
          BY <4>2 DEF Passthrough
        <5> QED BY <1>1, <5>1, <5>2, <5>3, ChangesAre, OneTurn
      <4>3. CASE up = "anthropic"
        <5>1. g[t] = Join(Tell(t.who, Same, Kinds), t.parts)
          BY <1>1, <2>2, <4>3
        <5>2. \A p \in ToSet(t.parts) : Fixed[p] = Same[p]
          BY <1>1, <4>3, Turns, Accords
        <5>3. Kinds = IF Passthrough THEN Kinds ELSE PartKinds
          BY <4>3 DEF Passthrough
        <5> QED BY <1>1, <5>1, <5>2, <5>3, ChangesAre, OneTurn
      <4> QED BY <4>1, <4>2, <4>3 DEF Protocols
    <3> QED BY <1>1, <2>2, <3>0, <3>1, SystemTurn DEF TurnTold
  <2> QED BY <2>1, <2>2
<1>2. Gives(SystemTold(Kinds), AllTurns, Entries)
  BY ToldGives
<1>3. Gives(Others(g), AllTurns, Entries)
  BY FewIn DEF Others, Gives
<1> QED BY <1>1, <1>2, <1>3, FromTurns

\* A conversation of a client of Anthropic, in a body for another protocol.
LEMMA AnthropicKept ==
    ASSUME Protocols, NEW c, Conversed(c), NEW options, NEW b, b = ClientBody(down, c, options),
           NEW built, built.messages = Unset(b).messages, built.system = Unset(b).system,
           down = "anthropic", up # "anthropic"
    PROVE  KeptIn(Flow(up, built), c)
<1> DEFINE canon == DecodeAnthropicRequest(b)
<1>0. c \in Seq(AllTurns) /\ b.messages = SayAnthropic(c) /\ b.system = SystemOf(c)
  BY DEF Conversed, ClientBody
<1>1. /\ canon.messages \in Seq(CanonMessages)
      /\ \A g : Gives(g, CanonMessages, Entries) =>
            Join(g, canon.messages) = Join(Owns(g), c)
  BY <1>0, AnthropicCanon
<1>2. canon.system = SystemOf(c)
  BY <1>0 DEF DecodeAnthropicRequest
<1>3. /\ canon.system \in Seq(AnyParts)
      /\ Join(Tell("system", Same, Kinds), canon.system) = Join(SystemTold(Kinds), c)
  BY <1>0, <1>2, AnthropicSystem
<1> HIDE DEF canon
<1>4. ASSUME NEW t \in AllTurns, t.who # "system"
      PROVE  Own(t) \in CanonMessages /\ Who(t.who) = t.who /\ t.parts \in Seq(AnyParts)
             /\ t.who \in {"system", "user", "assistant"}
  <2>1. t.who \in {"user", "assistant"} /\ t.parts \in Seq(AnyParts)
    BY <1>4 DEF AllTurns, Sides
  <2>2. OfKinds(t.parts, PartKinds) \in Seq(AnyParts)
    BY <2>1, OfKindsJoins
  <2> QED BY <2>1, <2>2, WhoSpeaks DEF CanonMessages, Own
<1>5. CASE up = "openai"
  <2> DEFINE g == [t \in AllTurns |-> IF t.who = "system" THEN <<>>
                                      ELSE Thrice(t.who, Cleared, Same, {"text", "image"}, t.parts)]
             k == Owns(HearThrice)
  <2>1. built.messages = EncodeOpenAIRequest(canon).messages
    BY <1>5, Zenon DEF Unset, canon
  <2>2. Flow("openai", built) =
           Join(Tell("system", Same, Kinds), canon.system) \o Join(HearThrice, canon.messages)
    BY <1>1, <1>3, <2>1, OpenAIHeard
  <2>3. Gives(HearThrice, CanonMessages, Entries)
    <3>1. ASSUME NEW m \in CanonMessages
          PROVE  Thrice(Who(m.role), Cleared, Same, SaidKinds, m.parts) \in Seq(Entries)
      <4>1. m.parts \in Seq(AnyParts) /\ Who(m.role) \in {"system", "user", "assistant"}
        BY WhoSpeaks DEF CanonMessages
      <4> QED BY <4>1, ThriceIn, SameTypes
    <3> QED BY <3>1 DEF HearThrice, Gives
  <2>4. Join(HearThrice, canon.messages) = Join(k, c)
    BY <1>1, <2>3
  <2>5. ASSUME NEW t \in AllTurns, t.who # "system"
        PROVE  HearThrice[Own(t)] = Thrice(t.who, Cleared, Same, {"text", "image"}, t.parts)
    <3>1. HearThrice[Own(t)] = Thrice(t.who, Cleared, Same, SaidKinds, OfKinds(t.parts, PartKinds))
      <4>1. Own(t) \in CanonMessages /\ Who(Own(t).role) = t.who
            /\ Own(t).parts = OfKinds(t.parts, PartKinds)
        BY <1>4, <2>5 DEF Own
      <4> QED BY <4>1 DEF HearThrice
    <3>2. /\ {"result"} \cap PartKinds = {"result"} /\ {"call"} \cap PartKinds = {"call"}
          /\ SaidKinds \cap PartKinds = {"text", "image"}
      BY DEF PartKinds, SaidKinds
    <3>0. /\ t.parts \in Seq(AnyParts) /\ t.who \in {"system", "user", "assistant"}
          /\ "user" \in {"system", "user", "assistant"}
      BY <1>4, <2>5
    <3>3. /\ Join(Tell("user", Cleared, {"result"}), OfKinds(t.parts, PartKinds)) =
               Join(Tell("user", Cleared, {"result"} \cap PartKinds), t.parts)
          /\ Join(Tell(t.who, Same, SaidKinds), OfKinds(t.parts, PartKinds)) =
               Join(Tell(t.who, Same, SaidKinds \cap PartKinds), t.parts)
          /\ Join(Tell(t.who, Same, {"call"}), OfKinds(t.parts, PartKinds)) =
               Join(Tell(t.who, Same, {"call"} \cap PartKinds), t.parts)
      <4>1. PICK R, C : R = {"result"} /\ C = {"call"}
        OBVIOUS
      <4>2. /\ Join(Tell("user", Cleared, R), OfKinds(t.parts, PartKinds)) =
                 Join(Tell("user", Cleared, R \cap PartKinds), t.parts)
            /\ Join(Tell(t.who, Same, C), OfKinds(t.parts, PartKinds)) =
                 Join(Tell(t.who, Same, C \cap PartKinds), t.parts)
        BY <3>0, ChangesAre, TellSieve
      <4>3. Join(Tell(t.who, Same, SaidKinds), OfKinds(t.parts, PartKinds)) =
               Join(Tell(t.who, Same, SaidKinds \cap PartKinds), t.parts)
        BY <3>0, ChangesAre, TellSieve
      <4> QED BY <4>1, <4>2, <4>3
    <3> QED BY <3>1, <3>2, <3>3 DEF Thrice
  <2>6. k = Others(g)
    <3> QED BY <2>5 DEF Others, Owns
  <2>7. Gives(g, AllTurns, Entries)
    <3>1. ASSUME NEW t \in AllTurns, t.who # "system"
          PROVE  Thrice(t.who, Cleared, Same, {"text", "image"}, t.parts) \in Seq(Entries)
      <4>1. HearThrice[Own(t)] \in Seq(Entries)
        <5> QED BY <1>4, <2>3, <3>1 DEF Gives
      <4> QED BY <2>5, <3>1, <4>1
    <3> QED BY <3>1, FewIn DEF Gives
  <2>8. ASSUME NEW t, ValidTurn(t), t.who # "system"
        PROVE  g[t] = Thrice(t.who, Cleared, Same, {"text", "image"}, t.parts)
    BY <2>8, Turns
  <2> HIDE DEF k
  <2>9. Flow(up, built) = Join(SystemTold(Kinds), c) \o Join(Others(g), c)
    <3> HIDE DEF g
    <3> QED BY <1>3, <1>5, <2>2, <2>4, <2>6
  <2> QED BY <1>5, <2>7, <2>8, <2>9, AnthropicTurn
<1>6. CASE up = "gemini"
  <2> DEFINE g == [t \in AllTurns |-> IF t.who = "system" THEN <<>>
                                      ELSE Join(Tell(t.who, Nameless, PartKinds), t.parts)]
             k == Owns(Hear(Nameless))
  <2>1. built.messages = EncodeGeminiRequest(canon).messages /\ built.system = canon.system
    BY <1>6 DEF Unset, canon, EncodeGeminiRequest
  <2>2. Flow("gemini", built) =
           Join(Tell("system", Same, Kinds), canon.system) \o Join(Hear(Nameless), canon.messages)
    BY <1>1, <1>3, <2>1, GeminiHeard
  <2>3. Gives(Hear(Nameless), CanonMessages, Entries)
    BY HearGives, InlineTypes
  <2>4. Join(Hear(Nameless), canon.messages) = Join(k, c)
    BY <1>1, <2>3
  <2>5. ASSUME NEW t \in AllTurns, t.who # "system"
        PROVE  Hear(Nameless)[Own(t)] = Join(Tell(t.who, Nameless, PartKinds), t.parts)
    <3>1. Hear(Nameless)[Own(t)] = Join(Tell(t.who, Nameless, Kinds), OfKinds(t.parts, PartKinds))
      <4>1. Own(t) \in CanonMessages /\ Who(Own(t).role) = t.who
            /\ Own(t).parts = OfKinds(t.parts, PartKinds)
        BY <1>4, <2>5 DEF Own
      <4> QED BY <4>1 DEF Hear
    <3> QED BY <1>4, <2>5, <3>1, InlineTypes, TellKinds
  <2>6. k = Others(g)
    <3> QED BY <2>5 DEF Others, Owns
  <2>7. Gives(g, AllTurns, Entries)
    <3>1. ASSUME NEW t \in AllTurns, t.who # "system"
          PROVE  Join(Tell(t.who, Nameless, PartKinds), t.parts) \in Seq(Entries)
      <4>1. Hear(Nameless)[Own(t)] \in Seq(Entries)
        <5> QED BY <1>4, <2>3, <3>1 DEF Gives
      <4> QED BY <2>5, <3>1, <4>1
    <3> QED BY <3>1, FewIn DEF Gives
  <2>8. ASSUME NEW t, ValidTurn(t), t.who # "system"
        PROVE  g[t] = Join(Tell(t.who, Nameless, PartKinds), t.parts)
    BY <2>8, Turns
  <2> HIDE DEF k
  <2>9. Flow(up, built) = Join(SystemTold(Kinds), c) \o Join(Others(g), c)
    <3> HIDE DEF g
    <3> QED BY <1>3, <1>6, <2>2, <2>4, <2>6
  <2> QED BY <1>6, <2>7, <2>8, <2>9, AnthropicTurn
<1> QED BY <1>5, <1>6 DEF Protocols

SayBlocks == [t \in AllTurns |-> IF t.who = "system" THEN <<>>
                                 ELSE <<AnthropicMessage(t.who, t.parts)>>]
TellTurn == [t \in AllTurns |-> Join(Tell(t.who, Same, Kinds), t.parts)]

\* A client of Anthropic says its turns one after another.
LEMMA SaidAnthropic ==
    /\ Gives(SayBlocks, AllTurns, BlockMessages)
    /\ \A c \in Seq(AllTurns) : SayAnthropic(c) = Join(SayBlocks, c)
<1>1. Gives(SayBlocks, AllTurns, BlockMessages)
  <2>1. ASSUME NEW t \in AllTurns, t.who # "system"
        PROVE  AnthropicMessage(t.who, t.parts) \in BlockMessages
    BY <2>1 DEF AllTurns, Sides, AnthropicMessage, BlockMessages
  <2> QED BY <2>1, FewIn DEF SayBlocks, Gives
<1>2. ASSUME NEW c \in Seq(AllTurns) PROVE SayAnthropic(c) = Join(SayBlocks, c)
  <2>1. \A i \in DOMAIN c : c[i] \in AllTurns
    BY LenProperties, ElementOfSeq
  <2>2. SayAnthropic(c) = Flat([i \in DOMAIN c |-> IF c[i].who = "system" THEN <<>>
                                      ELSE <<AnthropicMessage(c[i].who, c[i].parts)>>])
    BY Zenon DEF SayAnthropic, Concat, FoldLeft, MapThenFoldSet, Flat, Joins!Fold,
                 Joins!MapThenFoldSet
  <2>3. Each(SayBlocks, c) = [i \in DOMAIN c |-> IF c[i].who = "system" THEN <<>>
                                           ELSE <<AnthropicMessage(c[i].who, c[i].parts)>>]
    BY <2>1 DEF Each, SayBlocks
  <2> QED BY <2>2, <2>3, Zenon DEF Join
<1> QED BY <1>1, <1>2

LEMMA TellTurnGives == Gives(TellTurn, AllTurns, Entries)
<1>1. ASSUME NEW t \in AllTurns PROVE Join(Tell(t.who, Same, Kinds), t.parts) \in Seq(Entries)
  <2>1. t.who \in {"system", "user", "assistant"} /\ t.parts \in Seq(AnyParts)
    BY DEF AllTurns, Sides
  <2> QED BY <2>1, TellAll
<1> QED BY <1>1 DEF TellTurn, Gives

\* An Anthropic client's body as it is.
LEMMA AnthropicPassed ==
    ASSUME Protocols, NEW c, Conversed(c), NEW options, NEW b, b = ClientBody(down, c, options),
           NEW built, built.messages = Unset(b).messages, built.system = Unset(b).system,
           down = "anthropic", up = "anthropic"
    PROVE  KeptIn(Flow(up, built), c)
<1> DEFINE k == [t \in AllTurns |-> Join(HearBlocks, SayBlocks[t])]
<1>0. c \in Seq(AllTurns) /\ built.messages = SayAnthropic(c) /\ built.system = SystemOf(c)
  BY DEF Conversed, ClientBody, Unset
<1>1. /\ SayAnthropic(c) = Join(SayBlocks, c) /\ Gives(SayBlocks, AllTurns, BlockMessages)
      /\ Join(SayBlocks, c) \in Seq(BlockMessages)
  BY <1>0, SaidAnthropic, JoinIn
<1>2. /\ SystemOf(c) \in Seq(AnyParts)
      /\ Join(Tell("system", Same, Kinds), SystemOf(c)) = Join(SystemTold(Kinds), c)
  BY <1>0, AnthropicSystem
<1>3. Flow("anthropic", built) =
         Join(Tell("system", Same, Kinds), built.system) \o Join(HearBlocks, built.messages)
  BY <1>0, <1>1, <1>2, FlowJoins
<1>4. Join(HearBlocks, Join(SayBlocks, c)) = Join(k, c)
  BY <1>0, <1>1, HearGives, JoinJoin
<1>5. k = Others(TellTurn)
  <2>1. ASSUME NEW t \in AllTurns PROVE k[t] = Others(TellTurn)[t]
    <3>1. CASE t.who = "system"
      <4>1. k[t] = Join(HearBlocks, <<>>)
        BY <3>1 DEF SayBlocks
      <4> HIDE DEF k
      <4> QED BY <3>1, <4>1, JoinSteps DEF Others
    <3>2. CASE t.who # "system"
      <4> DEFINE m == AnthropicMessage(t.who, t.parts)
      <4>1. k[t] = Join(HearBlocks, <<m>>)
        BY <3>2 DEF SayBlocks
      <4>2. /\ m \in BlockMessages /\ m.role = t.who /\ m.content = t.parts
            /\ Who(t.who) = t.who
        BY <3>2, WhoSpeaks DEF AllTurns, Sides, AnthropicMessage, BlockMessages
      <4> HIDE DEF k, m
      <4>3. Join(HearBlocks, <<m>>) = HearBlocks[m]
        BY <4>2, HearGives, JoinOfOne
      <4>4. HearBlocks[m] = Join(Tell(t.who, Same, Kinds), t.parts)
        BY <4>2 DEF HearBlocks
      <4> QED BY <3>2, <4>1, <4>3, <4>4 DEF Others, TellTurn
    <3> QED BY <3>1, <3>2
  <2>2. k = [t \in AllTurns |-> k[t]]
    OBVIOUS
  <2> HIDE DEF k
  <2> QED BY <2>1, <2>2 DEF Others
<1> HIDE DEF k
<1>6. Flow(up, built) = Join(SystemTold(Kinds), c) \o Join(Others(TellTurn), c)
  BY <1>0, <1>1, <1>2, <1>3, <1>4, <1>5
<1>7. \A t : ValidTurn(t) => TellTurn[t] = Join(Tell(t.who, Same, Kinds), t.parts)
  BY Turns DEF TellTurn
<1> QED BY <1>6, <1>7, TellTurnGives, AnthropicTurn

\* Every body says what its client said.
LEMMA MessagesKept ==
    ASSUME Protocols, NEW c, Conversed(c), NEW options, NEW b, b = ClientBody(down, c, options),
           NEW built, built = BuildRequest(down, up, b), built # Refused
    PROVE  KeptIn(Flow(up, built), c)
<1>1. built.messages = Unset(b).messages /\ built.system = Unset(b).system
  BY BodyBuilt
<1> QED BY <1>1, OpenAIKept, OpenAIPassed, AnthropicKept, AnthropicPassed DEF Protocols

\* What was said, with what is expected of it.
LEMMA MeantIs ==
    ASSUME Protocols, NEW c, Conversed(c), said.conversation = c
    PROVE  {Expected(x) : x \in {y \in ToSet(Spoken) : Passthrough \/ y.part.kind # "thinking"}} =
             MeantOf(c)
<1>0. c \in Seq(AllTurns) /\ \A i \in DOMAIN c : c[i] \in AllTurns
  BY LenProperties, ElementOfSeq DEF Conversed
<1>1. Spoken = Join(TellTurn, c)
  <2>1. Spoken = Flat([j \in DOMAIN c |-> [i \in DOMAIN c[j].parts |->
                                              [who |-> c[j].who, part |-> c[j].parts[i]]]])
    <3> DEFINE w == said.conversation
    <3>1. Spoken = Flat([j \in DOMAIN w |-> [i \in DOMAIN w[j].parts |->
                                                [who |-> w[j].who, part |-> w[j].parts[i]]]])
      BY Zenon DEF Spoken, Concat, FoldLeft, MapThenFoldSet, Flat, Joins!Fold, Joins!MapThenFoldSet
    <3>2. w = c
      OBVIOUS
    <3> HIDE DEF w
    <3> QED BY <3>1, <3>2
  <2>2. ASSUME NEW t \in AllTurns
        PROVE  TellTurn[t] = [i \in DOMAIN t.parts |-> [who |-> t.who, part |-> t.parts[i]]]
    <3>1. t.who \in {"system", "user", "assistant"} /\ t.parts \in Seq(AnyParts)
      BY DEF AllTurns, Sides
    <3> QED BY <3>1, TellAll DEF TellTurn
  <2>3. Each(TellTurn, c) = [j \in DOMAIN c |-> [i \in DOMAIN c[j].parts |->
                                                   [who |-> c[j].who, part |-> c[j].parts[i]]]]
    BY <1>0, <2>2 DEF Each
  <2> QED BY <2>1, <2>3, Zenon DEF Join
<1>2. ToSet(Spoken) = UNION {ToSet(TellTurn[t]) : t \in ToSet(c)}
  BY <1>0, <1>1, TellTurnGives, JoinSet
<1>3. ASSUME NEW t \in ToSet(c)
      PROVE  /\ ValidTurn(t) /\ t \in AllTurns
             /\ ToSet(TellTurn[t]) = {[who |-> t.who, part |-> p] : p \in ToSet(t.parts)}
  <2>1. ValidTurn(t)
    BY DEF Conversed, ToSet
  <2>2. t \in AllTurns /\ t.who \in {"system", "user", "assistant"} /\ t.parts \in Seq(AnyParts)
    BY <2>1, Turns
  <2>3. TellTurn[t] = [i \in DOMAIN t.parts |-> [who |-> t.who, part |-> t.parts[i]]]
    BY <2>2, TellAll DEF TellTurn
  <2> QED BY <2>1, <2>2, <2>3 DEF ToSet
<1>4. ASSUME NEW t \in ToSet(c), NEW p \in ToSet(t.parts)
      PROVE  /\ p.kind \in Meant <=> Passthrough \/ p.kind # "thinking"
             /\ Expected([who |-> t.who, part |-> p]) = [who |-> t.who, part |-> Fixed[p]]
  <2>1. p \in AnyParts /\ p.kind \in Kinds
    BY <1>3, Turns
  <2> QED BY <2>1, FixedIs DEF Meant
<1> DEFINE heard == {y \in ToSet(Spoken) : Passthrough \/ y.part.kind # "thinking"}
<1>5. ASSUME NEW x \in heard PROVE Expected(x) \in MeantOf(c)
  <2>1. PICK t \in ToSet(c) : x \in ToSet(TellTurn[t])
    BY <1>2
  <2>2. PICK p \in ToSet(t.parts) : x = [who |-> t.who, part |-> p]
    BY <1>3, <2>1
  <2>3. p.kind \in Meant /\ Expected(x) = [who |-> t.who, part |-> Fixed[p]]
    BY <1>4, <2>2
  <2> QED BY <2>3 DEF MeantOf, EntriesOfAll, EntriesOf
<1>6. ASSUME NEW z \in MeantOf(c) PROVE \E x \in heard : z = Expected(x)
  <2>1. PICK t \in ToSet(c) : z \in EntriesOf(Fixed, t.who, Meant, t.parts)
    BY DEF MeantOf, EntriesOfAll
  <2>2. PICK p \in ToSet(t.parts) : p.kind \in Meant /\ z = [who |-> t.who, part |-> Fixed[p]]
    BY <2>1 DEF EntriesOf
  <2>3. PICK x : x = [who |-> t.who, part |-> p]
    OBVIOUS
  <2>4. x \in ToSet(Spoken) /\ x.part = p
    BY <1>2, <1>3, <2>3
  <2>5. z = Expected(x)
    BY <1>4, <2>2, <2>3
  <2>6. Passthrough \/ x.part.kind # "thinking"
    BY <1>4, <2>2, <2>4
  <2> QED BY <2>4, <2>5, <2>6
<1> HIDE DEF heard
<1>7. {Expected(x) : x \in heard} = MeantOf(c)
  BY <1>5, <1>6
<1> QED BY <1>7 DEF heard

-----------------------------------------------------------------------------
(* A body has the options its client set *)

LEMMA SeqWithin ==
    ASSUME NEW S, NEW T, S \subseteq T, NEW s \in Seq(S) PROVE s \in Seq(T)
<1>1. \A i \in 1..Len(s) : s[i] \in T
  BY ElementOfSeq
<1>2. s = [i \in 1..Len(s) |-> s[i]] /\ Len(s) \in Nat
  BY LenProperties
<1> QED BY <1>1, <1>2, IsASeq

\* A conversation that a client may have.
LEMMA Prompted ==
    ASSUME Protocols, NEW prompt \in Prompts(down)
    PROVE  Conversed(prompt.conversation)
<1> DEFINE c == prompt.conversation
           Turn == [who : Sides, parts : Seq(Parts)]
<1>1. c \in Seq(Turn) /\ Conversation(c, down)
  BY PromptsAssumption DEF Protocols
<1>2. \A t \in DOMAIN c : \A i \in DOMAIN c[t].parts :
         /\ c[t].parts[i].n = <<t, i>>
         /\ c[t].parts[i].kind \in Sayable(down, c[t].who)
         /\ c[t].parts[i].kind # "result" => c[t].parts[i].of = NoPart /\ ~c[t].parts[i].err
  BY <1>1 DEF Conversation
<1>3. Parts \subseteq AnyParts
  BY DEF Parts, AnyParts
<1>4. Turn \subseteq AllTurns
  <2> SUFFICES ASSUME NEW t \in Turn PROVE t \in AllTurns
    OBVIOUS
  <2>1. t.parts \in Seq(AnyParts)
    BY <1>3, SeqWithin
  <2> QED BY <2>1 DEF AllTurns
<1> HIDE DEF Turn, c
<1>5. c \in Seq(AllTurns)
  BY <1>1, <1>4, SeqWithin
<1>6. ASSUME NEW i \in DOMAIN c PROVE NumberedAs(i, c[i].parts) /\ ValidTurn(c[i])
  <2>1. c[i] \in AllTurns
    BY <1>5, LenProperties, ElementOfSeq
  <2>2. NumberedAs(i, c[i].parts)
    BY <1>2 DEF NumberedAs
  <2>3. \A p \in ToSet(c[i].parts) : Valid(p, c[i].who)
    BY <1>2 DEF ToSet, Valid
  <2> QED BY <2>1, <2>2, <2>3 DEF ValidTurn
<1>7. Conversed(c)
  BY <1>5, <1>6 DEF Conversed
<1> QED BY <1>7 DEF c

\* What a client may set.
Settable(o) ==
    /\ {"model", "override"} \cap DOMAIN o = {}
    /\ "thinking" \in DOMAIN o => down = "anthropic"
    /\ "effort" \in DOMAIN o => down = "openai" /\ o["effort"] \in {"low", "medium", "high"}

OptionsKept(o, got) ==
    /\ \A x \in DOMAIN o : SameOption(x, got) \/ (up = "gemini" /\ x \in {"user", "tool_choice"})
          \/ (up = "gemini" /\ x = "response_format" /\ o[x] = "text")
    /\ \A x \in {"model", "override"} \cap DOMAIN got : up # "gemini" /\ got[x] = up

\* An option that is neither of the two names, and a reasoning budget.
LEMMA SameOptions ==
    ASSUME NEW got
    PROVE  /\ \A x : x \notin {"effort", "thinking"} =>
                 (SameOption(x, got) <=> x \in DOMAIN got /\ got[x] = said.options[x])
           /\ \A x \in {"effort", "thinking"} :
                 SameOption(x, got) <=>
                    /\ {"effort", "thinking"} \cap DOMAIN got # {}
                    /\ (IF "effort" \in DOMAIN got THEN got["effort"]
                        ELSE BudgetToReasoningEffort(got["thinking"])) =
                       (IF "effort" \in DOMAIN said.options THEN said.options["effort"]
                        ELSE BudgetToReasoningEffort(said.options["thinking"]))
BY Zenon DEF SameOption

\* The budget of a level has that level.
LEMMA Levels ==
    \A e \in {"low", "medium", "high"} : BudgetToReasoningEffort(ReasoningEffortToBudget(e)) = e
BY DEF BudgetToReasoningEffort, ReasoningEffortToBudget

\* An option under another name.
LEMMA RenamedIs ==
    ASSUME NEW o, NEW old, NEW new, old # new, new \notin DOMAIN o, NEW v, NEW r,
           r = Renamed(o, old, new, v)
    PROVE  /\ \A x \in DOMAIN o : x # old => x \in DOMAIN r /\ r[x] = o[x]
           /\ old \in DOMAIN o => new \in DOMAIN r /\ r[new] = v
           /\ DOMAIN r \subseteq DOMAIN o \cup {new} /\ old \notin DOMAIN r
           /\ old \notin DOMAIN o => new \notin DOMAIN r
<1>1. CASE old \in DOMAIN o
  <2>1. r = [x \in (DOMAIN o \ {old}) \cup {new} |-> IF x = new THEN v ELSE o[x]]
    BY <1>1 DEF Renamed
  <2> QED BY <1>1, <2>1
<1>2. CASE old \notin DOMAIN o
  BY <1>2 DEF Renamed
<1> QED BY <1>1, <1>2

LevelOf(o) == IF "effort" \in DOMAIN o THEN o["effort"] ELSE BudgetToReasoningEffort(o["thinking"])
Levelled(o) == {"effort", "thinking"} \cap DOMAIN o # {}

\* r sets what o sets, and has the level of its reasoning.
SetAlike(o, r) ==
    /\ \A x \in DOMAIN o : x \notin {"effort", "thinking"} => x \in DOMAIN r /\ r[x] = o[x]
    /\ \A x \in DOMAIN r : x \notin {"effort", "thinking"} => x \in DOMAIN o
    /\ Levelled(o) => Levelled(r) /\ LevelOf(r) = LevelOf(o)

LEMMA SetAlikeSame == \A o : SetAlike(o, o)
BY DEF SetAlike

\* A level of effort and a budget of thinking stand for each other.
LEMMA SetAlikeRenamed ==
    ASSUME NEW o, Settable(o)
    PROVE  /\ down = "openai" => SetAlike(o, Renamed(o, "effort", "thinking",
                                                  ReasoningEffortToBudget(o["effort"])))
           /\ down = "anthropic" => SetAlike(o, Renamed(o, "thinking", "effort",
                                                     BudgetToReasoningEffort(o["thinking"])))
<1>1. ASSUME down = "openai",
             NEW r, r = Renamed(o, "effort", "thinking", ReasoningEffortToBudget(o["effort"]))
      PROVE  SetAlike(o, r)
  <2>1. "thinking" \notin DOMAIN o
    BY <1>1 DEF Settable
  <2>2. /\ \A x \in DOMAIN o : x # "effort" => x \in DOMAIN r /\ r[x] = o[x]
        /\ "effort" \in DOMAIN o =>
              "thinking" \in DOMAIN r /\ r["thinking"] = ReasoningEffortToBudget(o["effort"])
        /\ DOMAIN r \subseteq DOMAIN o \cup {"thinking"} /\ "effort" \notin DOMAIN r
    BY <1>1, <2>1, RenamedIs
  <2>3. "effort" \in DOMAIN o => BudgetToReasoningEffort(r["thinking"]) = o["effort"]
    BY <2>2, Levels DEF Settable
  <2> QED BY <2>1, <2>2, <2>3 DEF SetAlike, Levelled, LevelOf
<1>2. ASSUME down = "anthropic",
             NEW r, r = Renamed(o, "thinking", "effort", BudgetToReasoningEffort(o["thinking"]))
      PROVE  SetAlike(o, r)
  <2>1. "effort" \notin DOMAIN o
    BY <1>2 DEF Settable
  <2>2. /\ \A x \in DOMAIN o : x # "thinking" => x \in DOMAIN r /\ r[x] = o[x]
        /\ "thinking" \in DOMAIN o =>
              "effort" \in DOMAIN r /\ r["effort"] = BudgetToReasoningEffort(o["thinking"])
        /\ DOMAIN r \subseteq DOMAIN o \cup {"effort"}
    BY <1>2, <2>1, RenamedIs
  <2> QED BY <2>1, <2>2 DEF SetAlike, Levelled, LevelOf
<1> QED BY <1>1, <1>2

\* Options that may be set in a body before the channel's own.
UnsetKept(o, u) ==
    /\ \A x \in DOMAIN o : x \notin {"effort", "thinking"} =>
          \/ x \in DOMAIN u /\ u[x] = o[x]
          \/ up = "gemini" /\ x \in {"user", "tool_choice"}
          \/ up = "gemini" /\ x = "response_format" /\ o[x] = "text"
    /\ \A x \in DOMAIN u : x \notin {"model", "override"}
    /\ Levelled(o) => Levelled(u) /\ LevelOf(u) = LevelOf(o)

\* What an encoder fills in or leaves out is not what the client set.
LEMMA UnsetAlike ==
    ASSUME NEW o, Settable(o), NEW r, SetAlike(o, r)
    PROVE  /\ UnsetKept(o, r)
           /\ UnsetKept(o, [x \in DOMAIN r \cup {"max_tokens"} |->
                              IF x \in DOMAIN r THEN r[x] ELSE "default"])
           /\ \A away : /\ \A x \in away : x \in {"user", "tool_choice", "response_format"}
                        /\ "response_format" \in away /\ "response_format" \in DOMAIN o =>
                              o["response_format"] = "text"
                        /\ up = "gemini"
                        => UnsetKept(o, Without(r, away))
<1>0. \A x \in DOMAIN o : x \notin {"model", "override"}
  BY DEF Settable
<1>1. UnsetKept(o, r)
  BY <1>0 DEF SetAlike, UnsetKept
<1>2. ASSUME NEW u, u = [x \in DOMAIN r \cup {"max_tokens"} |->
                           IF x \in DOMAIN r THEN r[x] ELSE "default"]
      PROVE  UnsetKept(o, u)
  <2>1. /\ DOMAIN u = DOMAIN r \cup {"max_tokens"} /\ \A x \in DOMAIN r : u[x] = r[x]
    BY <1>2
  <2> QED BY <1>0, <2>1 DEF SetAlike, UnsetKept, Levelled, LevelOf
<1>3. ASSUME NEW away, \A x \in away : x \in {"user", "tool_choice", "response_format"},
             "response_format" \in away /\ "response_format" \in DOMAIN o =>
                o["response_format"] = "text",
             up = "gemini", NEW u, u = Without(r, away)
      PROVE  UnsetKept(o, u)
  <2>1. /\ DOMAIN u = DOMAIN r \ away /\ \A x \in DOMAIN u : u[x] = r[x]
    BY <1>3 DEF Without
  <2>2. "effort" \notin away /\ "thinking" \notin away
    BY <1>3
  <2>3. ASSUME NEW x \in DOMAIN o, x \notin {"effort", "thinking"}
        PROVE  \/ x \in DOMAIN u /\ u[x] = o[x]
               \/ up = "gemini" /\ x \in {"user", "tool_choice"}
               \/ up = "gemini" /\ x = "response_format" /\ o[x] = "text"
    BY <1>3, <2>1, <2>3 DEF SetAlike
  <2>4. \A x \in DOMAIN u : x \notin {"model", "override"}
    BY <1>0, <2>1 DEF SetAlike
  <2>5. Levelled(o) => Levelled(u) /\ LevelOf(u) = LevelOf(o)
    BY <2>1, <2>2 DEF SetAlike, Levelled, LevelOf
  <2> QED BY <2>3, <2>4, <2>5 DEF UnsetKept
<1> QED BY <1>1, <1>2, <1>3

\* The options of an encoded body.
OpenAIOptions(r) == Renamed(r, "thinking", "effort", BudgetToReasoningEffort(r["thinking"]))
AnthropicOptions(r) ==
    [x \in DOMAIN r \cup {"max_tokens"} |-> IF x \in DOMAIN r THEN r[x] ELSE "default"]
Placeless(r) ==
    {"user", "tool_choice"} \cup (IF "response_format" \in DOMAIN r /\ r["response_format"] = "text"
                                  THEN {"response_format"} ELSE {})

\* The options of a body, by protocol.
LEMMA EncodedOptions ==
    ASSUME NEW canon
    PROVE  /\ EncodeOpenAIRequest(canon).options = OpenAIOptions(canon.options)
           /\ EncodeAnthropicRequest(canon).options = AnthropicOptions(canon.options)
           /\ EncodeGeminiRequest(canon).options = Without(canon.options, Placeless(canon.options))
<1>1. EncodeOpenAIRequest(canon).options = OpenAIOptions(canon.options)
  BY Zenon DEF EncodeOpenAIRequest, OpenAIOptions
<1>2. EncodeAnthropicRequest(canon).options = AnthropicOptions(canon.options)
  BY DEF EncodeAnthropicRequest, AnthropicOptions
<1>3. EncodeGeminiRequest(canon).options = Without(canon.options, Placeless(canon.options))
  BY DEF EncodeGeminiRequest, Placeless
<1> QED BY <1>1, <1>2, <1>3

\* The canonical form has the options the client set.
LEMMA UnsetOptions ==
    ASSUME Protocols, NEW c, NEW o, Settable(o), NEW b, b = ClientBody(down, c, o)
    PROVE  UnsetKept(o, Unset(b).options)
<1>1. b.options = o
  BY DEF ClientBody
<1>2. CASE up = down
  BY <1>1, <1>2, SetAlikeSame, UnsetAlike DEF Unset
<1>3. CASE up = "anthropic" /\ down = "openai"
  <2>1. PICK r : r = Renamed(o, "effort", "thinking", ReasoningEffortToBudget(o["effort"]))
    OBVIOUS
  <2>2. DecodeOpenAIRequest(b).options = r
    BY <1>1, <2>1, Zenon DEF DecodeOpenAIRequest
  <2>3. Unset(b) = EncodeAnthropicRequest(DecodeOpenAIRequest(b))
    BY <1>3 DEF Unset
  <2>4. Unset(b).options = AnthropicOptions(r)
    BY <2>2, <2>3, EncodedOptions
  <2>5. SetAlike(o, r)
    BY <1>3, <2>1, SetAlikeRenamed
  <2> QED BY <2>4, <2>5, UnsetAlike DEF AnthropicOptions
<1>4. ASSUME up = "gemini", NEW canon, Unset(b) = EncodeGeminiRequest(canon),
             SetAlike(o, canon.options)
      PROVE  UnsetKept(o, Unset(b).options)
  <2> DEFINE r == canon.options
             away == Placeless(r)
  <2>1. Unset(b).options = Without(canon.options, away)
    BY <1>4, EncodedOptions
  <2>2. \A x \in away : x \in {"user", "tool_choice", "response_format"}
    BY DEF Placeless
  <2>3. "response_format" \in away /\ "response_format" \in DOMAIN o =>
           o["response_format"] = "text"
    BY <1>4 DEF SetAlike, Placeless
  <2> HIDE DEF away
  <2> QED BY <1>4, <2>1, <2>2, <2>3, UnsetAlike
<1>5. CASE up = "gemini" /\ down = "openai"
  <2>1. DecodeOpenAIRequest(b).options =
           Renamed(o, "effort", "thinking", ReasoningEffortToBudget(o["effort"]))
    BY <1>1, Zenon DEF DecodeOpenAIRequest
  <2>2. Unset(b) = EncodeGeminiRequest(DecodeOpenAIRequest(b))
    BY <1>5 DEF Unset
  <2>3. SetAlike(o, DecodeOpenAIRequest(b).options)
    BY <1>5, <2>1, SetAlikeRenamed
  <2> QED BY <1>4, <1>5, <2>2, <2>3
<1>6. CASE up = "gemini" /\ down = "anthropic"
  <2>1. DecodeAnthropicRequest(b).options = o
    BY <1>1 DEF DecodeAnthropicRequest
  <2>2. Unset(b) = EncodeGeminiRequest(DecodeAnthropicRequest(b))
    BY <1>6 DEF Unset
  <2>3. SetAlike(o, DecodeAnthropicRequest(b).options)
    BY <2>1, SetAlikeSame
  <2> QED BY <1>4, <1>6, <2>2, <2>3
<1>7. CASE up = "openai" /\ down = "anthropic"
  <2>1. DecodeAnthropicRequest(b).options = o
    BY <1>1 DEF DecodeAnthropicRequest
  <2>2. Unset(b) = EncodeOpenAIRequest(DecodeAnthropicRequest(b))
    BY <1>7, Zenon DEF Unset
  <2>3. Unset(b).options = OpenAIOptions(o)
    BY <2>1, <2>2, EncodedOptions
  <2> QED BY <1>7, <2>3, SetAlikeRenamed, UnsetAlike DEF OpenAIOptions
<1> QED BY <1>2, <1>3, <1>5, <1>6, <1>7 DEF Protocols

\* A body that is not refused has every option the client set.
LEMMA SettingsKept ==
    ASSUME Protocols, NEW c, NEW o, o = said.options, Settable(o),
           NEW b, b = ClientBody(down, c, o),
           NEW built, built = BuildRequest(down, up, b), built # Refused
    PROVE  OptionsKept(o, built.options)
<1>1. PICK u : u = Unset(b).options
  OBVIOUS
<1>2. UnsetKept(o, u)
  BY <1>1, UnsetOptions
<1>3. PICK got : got = built.options
  OBVIOUS
<1>4. /\ \A x \in DOMAIN u : x \in DOMAIN got /\ got[x] = u[x]
      /\ \A x \in {"effort", "thinking"} : x \in DOMAIN got => x \in DOMAIN u
      /\ \A x \in {"model", "override"} \cap DOMAIN got : up # "gemini" /\ got[x] = up
  <2>1. CASE up = "gemini"
    <3>1. got = u
      BY <1>1, <1>3, <2>1, BodyBuilt
    <3> QED BY <1>2, <3>1 DEF UnsetKept
  <2>2. CASE up # "gemini"
    <3>0. got = WithOwn(Unset(b))
      BY <1>3, <2>2, BodyBuilt
    <3>1. got = [x \in DOMAIN u \cup {"model", "override"} |->
                   IF x \in {"model", "override"} THEN up ELSE u[x]]
      BY ONLY <3>0, <1>1 DEF WithOwn
    <3> QED BY <1>2, <2>2, <3>1 DEF UnsetKept
  <2> QED BY <2>1, <2>2
<1>5. ASSUME NEW x \in DOMAIN o, x \notin {"effort", "thinking"}
      PROVE  \/ SameOption(x, got) \/ (up = "gemini" /\ x \in {"user", "tool_choice"})
             \/ (up = "gemini" /\ x = "response_format" /\ o[x] = "text")
  <2>1. SameOption(x, got) <=> x \in DOMAIN got /\ got[x] = said.options[x]
    BY <1>5, SameOptions
  <2> QED BY <1>2, <1>4, <1>5, <2>1 DEF UnsetKept
<1>6. ASSUME NEW x \in DOMAIN o, x \in {"effort", "thinking"} PROVE SameOption(x, got)
  <2>1. Levelled(u) /\ LevelOf(u) = LevelOf(o)
    BY <1>2, <1>6 DEF UnsetKept, Levelled
  <2>2. Levelled(got) /\ LevelOf(got) = LevelOf(u)
    BY <1>4, <2>1 DEF Levelled, LevelOf
  <2> QED BY <1>6, <2>1, <2>2, SameOptions DEF Levelled, LevelOf
<1> QED BY <1>3, <1>4, <1>5, <1>6 DEF OptionsKept

\* A body that is not refused says what its client said and sets what it set.
LEMMA RequestIsKept ==
    ASSUME Protocols, said \in Prompts(down),
           sent = BuildRequest(down, up, ClientBody(down, said.conversation, said.options)),
           sent # Refused
    PROVE  RequestKept
<1> DEFINE c == said.conversation
           got == Flow(up, sent)
<1>1. Conversed(c)
  BY Prompted
<1>2. Settable(said.options)
  <2>1. PICK prompt \in Prompts(down) : prompt = said
    OBVIOUS
  <2>2. /\ {"model", "override"} \cap DOMAIN prompt.options = {}
        /\ "thinking" \in DOMAIN prompt.options => down = "anthropic"
        /\ "effort" \in DOMAIN prompt.options =>
              down = "openai" /\ prompt.options["effort"] \in {"low", "medium", "high"}
    BY PromptsAssumption DEF Protocols
  <2> QED BY <2>1, <2>2 DEF Settable
<1>3. KeptIn(got, c)
  <2> HIDE DEF c
  <2>1. sent = BuildRequest(down, up, ClientBody(down, c, said.options))
    BY DEF c
  <2> QED BY <1>1, <2>1, MessagesKept
<1>4. OptionsKept(said.options, sent.options)
  <2> HIDE DEF c
  <2>1. sent = BuildRequest(down, up, ClientBody(down, c, said.options))
    BY DEF c
  <2> QED BY <1>2, <2>1, SettingsKept
<1> HIDE DEF got
<1>5. ToSet(got) = {Expected(x) : x \in {y \in ToSet(Spoken) : Passthrough \/ y.part.kind # "thinking"}}
  <2>1. PICK w : w = c
    OBVIOUS
  <2> HIDE DEF c
  <2>2. said.conversation = w
    BY <2>1 DEF c
  <2> QED BY <1>1, <1>3, <2>1, <2>2, MeantIs DEF KeptIn
<1>6. ASSUME ~Passthrough, NEW i \in DOMAIN got, NEW j \in DOMAIN got, i < j
      PROVE  InOrder(got[i], got[j])
  BY <1>3, <1>6 DEF KeptIn, Ordered, Precedes
<1>7. /\ \A x \in DOMAIN said.options :
            SameOption(x, sent.options) \/ (up = "gemini" /\ x \in {"user", "tool_choice"})
              \/ (up = "gemini" /\ x = "response_format" /\ said.options[x] = "text")
      /\ \A x \in {"model", "override"} \cap DOMAIN sent.options :
            up # "gemini" /\ sent.options[x] = up
  BY <1>4 DEF OptionsKept
<1> QED BY <1>5, <1>6, <1>7, Zenon DEF RequestKept, got

-----------------------------------------------------------------------------
(* An answer comes back whole *)

\* The numbers of parts of some kinds.
Num(K) == [p \in AnyParts |-> IF p.kind \in K THEN <<p.n>> ELSE <<>>]
NumbersOf(parts, K) == Concat(LAMBDA p : <<p.n>>, OfKinds(parts, K))

\* The numbers of the parts of some kinds, made part by part.
LEMMA NumbersJoin ==
    /\ \A K : Gives(Num(K), AnyParts, Nat \X Nat)
    /\ \A ps \in Seq(AnyParts) : \A K : NumbersOf(ps, K) = Join(Num(K), ps)
<1>1. ASSUME NEW K PROVE Gives(Num(K), AnyParts, Nat \X Nat)
  <2>1. \A p \in AnyParts : p.n \in Nat \X Nat
    BY DEF AnyParts
  <2> QED BY <2>1, FewIn DEF Num, Gives
<1>2. ASSUME NEW ps \in Seq(AnyParts), NEW K PROVE NumbersOf(ps, K) = Join(Num(K), ps)
  <2> DEFINE rs == OfKinds(ps, K)
             g == [p \in AnyParts |-> <<p.n>>]
             k == [p \in AnyParts |-> Join(g, Sieve(K)[p])]
  <2>1. rs = Join(Sieve(K), ps) /\ rs \in Seq(AnyParts)
    BY OfKindsJoins
  <2>2. NumbersOf(ps, K) = Flat([i \in DOMAIN rs |-> <<rs[i].n>>])
    BY Zenon DEF NumbersOf, Concat, FoldLeft, MapThenFoldSet, Flat, Joins!Fold,
                 Joins!MapThenFoldSet
  <2>3. \A i \in DOMAIN rs : rs[i] \in AnyParts
    BY <2>1, LenProperties, ElementOfSeq
  <2> HIDE DEF rs
  <2>4. Each(g, rs) = [i \in DOMAIN rs |-> <<rs[i].n>>]
    BY <2>3 DEF Each
  <2>5. NumbersOf(ps, K) = Join(g, rs)
    BY <2>2, <2>4, Zenon DEF Join
  <2>6. Gives(g, AnyParts, Nat \X Nat)
    <3>1. \A p \in AnyParts : p.n \in Nat \X Nat
      BY DEF AnyParts
    <3> QED BY <3>1, FewIn DEF Gives
  <2>7. Join(g, Join(Sieve(K), ps)) = Join(k, ps)
    <3> HIDE DEF g
    <3> QED BY <2>6, PartGives, JoinJoin
  <2>8. k = Num(K)
    <3>1. ASSUME NEW p \in AnyParts PROVE k[p] = Num(K)[p]
      <4>1. CASE p.kind \in K
        <5>1. Sieve(K)[p] = <<p>>
          BY <4>1 DEF Sieve
        <5>2. Join(g, <<p>>) = g[p]
          <6> HIDE DEF g
          <6> QED BY <2>6, JoinOfOne
        <5> QED BY <4>1, <5>1, <5>2 DEF Num
      <4>2. CASE p.kind \notin K
        <5>1. Sieve(K)[p] = <<>>
          BY <4>2 DEF Sieve
        <5>2. Join(g, <<>>) = <<>>
          BY JoinSteps
        <5> QED BY <4>2, <5>1, <5>2 DEF Num
      <4> QED BY <4>1, <4>2
    <3> HIDE DEF g
    <3> QED BY <3>1 DEF Num
  <2> HIDE DEF g, k
  <2> QED BY <2>1, <2>5, <2>7, <2>8
<1> QED BY <1>1, <1>2

\* The numbers of those of some kinds among those of others.
LEMMA NumbersAmong ==
    ASSUME NEW ps \in Seq(AnyParts), NEW K, NEW L
    PROVE  Join(Num(K), OfKinds(ps, L)) = Join(Num(K \cap L), ps)
<1> DEFINE k == [p \in AnyParts |-> Join(Num(K), Sieve(L)[p])]
<1>0. Gives(Num(K), AnyParts, Nat \X Nat) /\ Gives(Sieve(L), AnyParts, AnyParts)
  BY NumbersJoin, PartGives
<1>1. Join(Num(K), Join(Sieve(L), ps)) = Join(k, ps)
  BY <1>0, JoinJoin
<1>2. k = Num(K \cap L)
  <2>1. ASSUME NEW p \in AnyParts PROVE k[p] = Num(K \cap L)[p]
    <3>1. CASE p.kind \in L
      <4>1. Sieve(L)[p] = <<p>>
        BY <3>1 DEF Sieve
      <4>2. Join(Num(K), <<p>>) = Num(K)[p]
        BY <1>0, JoinOfOne
      <4> QED BY <3>1, <4>1, <4>2 DEF Num
    <3>2. CASE p.kind \notin L
      <4>1. Sieve(L)[p] = <<>>
        BY <3>2 DEF Sieve
      <4>2. Join(Num(K), <<>>) = <<>>
        BY JoinSteps
      <4> QED BY <3>2, <4>1, <4>2 DEF Num
    <3> QED BY <3>1, <3>2
  <2> QED BY <2>1 DEF Num
<1>3. OfKinds(ps, L) = Join(Sieve(L), ps)
  BY OfKindsJoins
<1> HIDE DEF k
<1> QED BY <1>1, <1>2, <1>3

\* An answer of Gemini in the canonical form.
Visible(K) == IF K = {"text"} THEN {"text", "thinking"} ELSE K
Thought == [p \in AnyParts |-> IF p.kind = "thinking" THEN <<[p EXCEPT !.kind = "text"], p>>
                               ELSE <<p>>]

\* An answer of Gemini's shows its thoughts as text.
LEMMA Thoughts ==
    ASSUME NEW answer, answer.parts \in Seq(AnyParts)
    PROVE  /\ DecodeGeminiResponse(answer).parts \in Seq(AnyParts)
           /\ \A K \in {{"text"}, {"call"}} :
                 Join(Num(K), DecodeGeminiResponse(answer).parts) =
                   Join(Num(Visible(K)), answer.parts)
<1> DEFINE ps == answer.parts
<1>1. DecodeGeminiResponse(answer).parts = Join(Thought, ps)
  <2>1. DecodeGeminiResponse(answer).parts =
           Flat([i \in DOMAIN ps |-> IF ps[i].kind = "thinking"
                                     THEN <<[ps[i] EXCEPT !.kind = "text"], ps[i]>>
                                     ELSE <<ps[i]>>])
    BY Zenon DEF DecodeGeminiResponse, Concat, FoldLeft, MapThenFoldSet, Flat, Joins!Fold,
                 Joins!MapThenFoldSet
  <2>2. \A i \in DOMAIN ps : ps[i] \in AnyParts
    BY LenProperties, ElementOfSeq
  <2>3. Each(Thought, ps) = [i \in DOMAIN ps |-> IF ps[i].kind = "thinking"
                                     THEN <<[ps[i] EXCEPT !.kind = "text"], ps[i]>>
                                     ELSE <<ps[i]>>]
    BY <2>2 DEF Each, Thought
  <2> QED BY <2>1, <2>3, Zenon DEF Join
<1>2. ASSUME NEW p \in AnyParts
      PROVE  /\ [p EXCEPT !.kind = "text"] \in AnyParts
             /\ [p EXCEPT !.kind = "text"].n = p.n /\ [p EXCEPT !.kind = "text"].kind = "text"
  BY DEF AnyParts
<1>3. Gives(Thought, AnyParts, AnyParts)
  <2>1. ASSUME NEW p \in AnyParts PROVE <<[p EXCEPT !.kind = "text"], p>> \in Seq(AnyParts)
    <3>1. PICK q \in AnyParts : q = [p EXCEPT !.kind = "text"]
      BY <1>2
    <3>2. <<q, p>> \in Seq(AnyParts)
      OBVIOUS
    <3> QED BY <3>1, <3>2
  <2> QED BY <2>1, FewIn DEF Thought, Gives
<1>4. ASSUME NEW K \in {{"text"}, {"call"}}
      PROVE  Join(Num(K), Join(Thought, ps)) = Join(Num(Visible(K)), ps)
  <2> DEFINE k == [p \in AnyParts |-> Join(Num(K), Thought[p])]
  <2>0. Gives(Num(K), AnyParts, Nat \X Nat)
    BY NumbersJoin
  <2>1. Join(Num(K), Join(Thought, ps)) = Join(k, ps)
    BY <1>3, <2>0, JoinJoin
  <2>2. ASSUME NEW p \in AnyParts PROVE k[p] = Num(Visible(K))[p]
    <3>1. CASE p.kind # "thinking"
      <4>1. Thought[p] = <<p>>
        BY <3>1 DEF Thought
      <4>2. Join(Num(K), <<p>>) = Num(K)[p]
        BY <2>0, JoinOfOne
      <4>3. p.kind \in K <=> p.kind \in Visible(K)
        BY <3>1 DEF Visible
      <4> QED BY <4>1, <4>2, <4>3 DEF Num
    <3>2. CASE p.kind = "thinking"
      <4>1. PICK q \in AnyParts : q = [p EXCEPT !.kind = "text"]
        BY <1>2
      <4>2. q.n = p.n /\ q.kind = "text"
        BY <1>2, <4>1
      <4>3. Thought[p] = <<q, p>> /\ <<q, p>> = Append(<<q>>, p) /\ <<q>> \in Seq(AnyParts)
        BY <3>2, <4>1 DEF Thought
      <4>4. Join(Num(K), Append(<<q>>, p)) = Join(Num(K), <<q>>) \o Num(K)[p]
        <5>1. PICK b \in Seq(AnyParts) : b = <<q>>
          BY <4>3
        <5>2. Join(Num(K), Append(b, p)) = Join(Num(K), b) \o Num(K)[p]
          BY JoinSteps
        <5> QED BY <5>1, <5>2
      <4>5. Join(Num(K), <<q>>) = Num(K)[q]
        BY <2>0, JoinOfOne
      <4>6. Num(K)[p] = <<>>
        BY <3>2 DEF Num
      <4>7. Num(K)[q] \o <<>> = Num(K)[q]
        <5>1. Num(K)[q] \in Seq(Nat \X Nat)
          BY <2>0 DEF Gives
        <5> QED BY <5>1, ConcatEmptySeq
      <4>8. Num(K)[q] = IF K = {"text"} THEN <<p.n>> ELSE <<>>
        BY <4>2 DEF Num
      <4>9. Num(Visible(K))[p] = IF K = {"text"} THEN <<p.n>> ELSE <<>>
        BY <3>2 DEF Num, Visible
      <4>10. k[p] = Join(Num(K), Append(<<q>>, p))
        BY <4>3
      <4> HIDE DEF k
      <4> QED BY <4>4, <4>5, <4>6, <4>7, <4>8, <4>9, <4>10
    <3> QED BY <3>1, <3>2
  <2>3. k = Num(Visible(K))
    <3>1. k = [p \in AnyParts |-> k[p]]
      OBVIOUS
    <3> HIDE DEF k
    <3> QED BY <2>2, <3>1 DEF Num
  <2> HIDE DEF k
  <2> QED BY <2>1, <2>3
<1>5. Join(Thought, ps) \in Seq(AnyParts)
  BY <1>3, JoinIn
<1> QED BY <1>1, <1>4, <1>5

\* What an upstream answers.
LEMMA ReplyIs ==
    ASSUME Protocols, NEW r \in Replies(up)
    PROVE  /\ r.answer.parts \in Seq(AnyParts) /\ r.answer.stop \in FinishReasons(up)
           /\ \E ps : r.answer = [parts |-> ps, stop |-> r.answer.stop]
           /\ r.usage \in Usage /\ CountedWithin(up, r.usage)
<1> DEFINE Answered == {part \in Parts : part.kind \in {"text", "call", "thinking"}}
<1>0. r.answer \in [parts : Seq(Answered), stop : FinishReasons(up)]
      /\ r.usage \in Usage /\ CountedWithin(up, r.usage)
  BY RepliesAssumption DEF Protocols
<1>1. /\ r.answer.parts \in Seq(Answered) /\ r.answer.stop \in FinishReasons(up)
      /\ r.answer = [parts |-> r.answer.parts, stop |-> r.answer.stop]
  <2> HIDE DEF Answered
  <2> QED BY <1>0
<1>2. Answered \subseteq AnyParts
  BY DEF Parts, AnyParts
<1> HIDE DEF Answered
<1> QED BY <1>0, <1>1, <1>2, SeqWithin

\* The client gets every piece of text and every call, in order.
LEMMA PartsKept ==
    ASSUME Protocols, NEW r \in Replies(up), NEW K \in {{"text"}, {"call"}}
    PROVE  NumbersOf(TransformResponse(down, up, r.answer).parts, K) =
             NumbersOf(r.answer.parts, IF up = "gemini" THEN Visible(K) ELSE K)
<1> DEFINE ps == r.answer.parts
           canon == DecodeResponse(up, r.answer)
           L == IF up = "gemini" THEN Visible(K) ELSE K
<1>1. ps \in Seq(AnyParts)
  BY ReplyIs
<1>2. canon.parts \in Seq(AnyParts) /\ Join(Num(K), canon.parts) = Join(Num(L), ps)
  <2>1. CASE up = "gemini"
    <3>1. canon = DecodeGeminiResponse(r.answer)
      BY <2>1 DEF DecodeResponse
    <3> HIDE DEF canon
    <3> QED BY <1>1, <2>1, <3>1, Thoughts
  <2>2. CASE up = "openai"
    <3>1. canon = DecodeOpenAIResponse(r.answer)
      BY <2>2 DEF DecodeResponse
    <3>2. canon.parts = ps
      BY <3>1 DEF DecodeOpenAIResponse
    <3> HIDE DEF canon
    <3> QED BY <1>1, <2>2, <3>2
  <2>3. CASE up = "anthropic"
    <3>1. canon = r.answer
      BY <2>3 DEF DecodeResponse, DecodeAnthropicResponse
    <3> HIDE DEF canon
    <3> QED BY <1>1, <2>3, <3>1
  <2> QED BY <2>1, <2>2, <2>3 DEF Protocols
<1> HIDE DEF canon, L
<1>3. NumbersOf(ps, L) = Join(Num(L), ps)
  BY <1>1, NumbersJoin
<1>4. CASE down = up
  <2>1. TransformResponse(down, up, r.answer) = r.answer
    BY <1>4 DEF TransformResponse
  <2>2. L = K
    BY <1>4 DEF L, Protocols
  <2> QED BY <2>1, <2>2 DEF L
<1>5. CASE down # up /\ down = "anthropic"
  <2>1. TransformResponse(down, up, r.answer).parts = canon.parts
    BY <1>5, Zenon DEF TransformResponse, EncodeAnthropicResponse, canon
  <2>2. NumbersOf(canon.parts, K) = Join(Num(K), canon.parts)
    BY <1>2, NumbersJoin
  <2> QED BY <1>2, <1>3, <2>1, <2>2 DEF L
<1>6. CASE down # up /\ down = "openai"
  <2>1. PICK a, b : a = OfKinds(canon.parts, {"text"}) /\ b = OfKinds(canon.parts, {"call"})
    OBVIOUS
  <2>2. a \in Seq(AnyParts) /\ b \in Seq(AnyParts)
    BY <1>2, <2>1, OfKindsJoins
  <2>3. TransformResponse(down, up, r.answer).parts = a \o b
    <3>1. TransformResponse(down, up, r.answer) = EncodeOpenAIResponse(canon)
      BY <1>6 DEF TransformResponse, canon
    <3>2. EncodeOpenAIResponse(canon).parts =
             OfKinds(canon.parts, {"text"}) \o OfKinds(canon.parts, {"call"})
      BY DEF EncodeOpenAIResponse
    <3> QED BY <2>1, <3>1, <3>2
  <2>4. a \o b \in Seq(AnyParts)
    BY <2>2, ConcatProperties
  <2>5. PICK T, C : T = {"text"} /\ C = {"call"}
    OBVIOUS
  <2>6. Join(Num(K), a) = Join(Num(K \cap T), canon.parts)
        /\ Join(Num(K), b) = Join(Num(K \cap C), canon.parts)
    BY <1>2, <2>1, <2>5, NumbersAmong
  <2>7. Join(Num(K), a \o b) = Join(Num(K), a) \o Join(Num(K), b)
    <3>1. Gives(Num(K), AnyParts, Nat \X Nat)
      BY NumbersJoin
    <3> QED BY <2>2, <3>1, JoinConcat
  <2>8. PICK n : n = Join(Num(K), canon.parts)
    OBVIOUS
  <2>9. n \in Seq(Nat \X Nat)
    BY <1>2, <2>8, NumbersJoin, JoinIn
  <2>10. Join(Num({}), canon.parts) = <<>>
    <3>1. \A p \in AnyParts : Num({})[p] = <<>>
      BY DEF Num
    <3> QED BY <1>2, <3>1, JoinNothing
  <2>11. Join(Num(K), a \o b) = n
    <3>1. CASE K = T
      <4>1. K \cap T = K /\ K \cap C = {}
        BY <2>5, <3>1
      <4>2. n \o <<>> = n
        BY ONLY <2>9, ConcatEmptySeq
      <4> QED BY <2>6, <2>7, <2>8, <2>10, <4>1, <4>2
    <3>2. CASE K = C
      <4>1. K \cap T = {} /\ K \cap C = K
        BY <2>5, <3>2
      <4>2. <<>> \o n = n
        BY ONLY <2>9, ConcatEmptySeq
      <4> QED BY <2>6, <2>7, <2>8, <2>10, <4>1, <4>2
    <3> QED BY <2>5, <3>1, <3>2
  <2>12. NumbersOf(a \o b, K) = Join(Num(K), a \o b)
    <3>1. PICK d : d = a \o b
      OBVIOUS
    <3> QED BY <2>4, <3>1, NumbersJoin
  <2> QED BY <1>2, <1>3, <2>3, <2>8, <2>11, <2>12 DEF L
<1> QED BY <1>4, <1>5, <1>6 DEF Protocols

\* and why the answer ended,
LEMMA StopKept ==
    ASSUME Protocols, NEW r \in Replies(up)
    PROVE  StopOf(down, TransformResponse(down, up, r.answer).stop) =
             IF down = "openai" /\ StopMeant(up, r.answer) = "stop_sequence" THEN "end_turn"
             ELSE StopMeant(up, r.answer)
<1> DEFINE s == r.answer.stop
           canon == DecodeResponse(up, r.answer)
           stop == StopMeant(up, r.answer)
<1>0. s \in FinishReasons(up)
  BY ReplyIs
<1>1. /\ StopOf("openai", "stop") = "end_turn" /\ StopOf("openai", "length") = "max_tokens"
      /\ StopOf("openai", "tool_calls") = "tool_use"
      /\ StopOf("gemini", "STOP") = "end_turn" /\ StopOf("gemini", "MAX_TOKENS") = "max_tokens"
  <2>1. /\ OpenAIFinishToCanon("length") = "max_tokens"
        /\ OpenAIFinishToCanon("tool_calls") = "tool_use"
        /\ OpenAIFinishToCanon("stop") = "end_turn"
    BY DEF OpenAIFinishToCanon
  <2>2. GeminiFinishToCanon("STOP") = "end_turn" /\ GeminiFinishToCanon("MAX_TOKENS") = "max_tokens"
    BY DEF GeminiFinishToCanon
  <2> QED BY <2>1, <2>2, Zenon DEF StopOf
<1>2. \A x \in CanonStops : x # "" /\ StopOf("anthropic", x) = x
  BY Zenon DEF StopOf, CanonStops
<1>3. /\ CanonStopToOpenAI("max_tokens") = "length" /\ CanonStopToOpenAI("tool_use") = "tool_calls"
      /\ CanonStopToOpenAI("end_turn") = "stop" /\ CanonStopToOpenAI("stop_sequence") = "stop"
  BY DEF CanonStopToOpenAI
<1>4. /\ up = "openai" => s \in {"stop", "length", "tool_calls"}
      /\ up = "anthropic" => s \in CanonStops
      /\ up = "gemini" => s \in {"STOP", "MAX_TOKENS"}
  BY <1>0 DEF FinishReasons, CanonStops
<1>5. up # "gemini" => stop = StopOf(up, s)
  BY Zenon DEF StopMeant
<1>6. canon.stop = stop /\ stop \in CanonStops
  <2>1. CASE up = "openai"
    <3>1. canon.stop = OpenAIFinishToCanon(s)
      <4>1. PICK ps : r.answer = [parts |-> ps, stop |-> s]
        BY ReplyIs
      <4>2. canon = [r.answer EXCEPT !.stop = OpenAIFinishToCanon(s)]
        BY <2>1 DEF DecodeResponse, DecodeOpenAIResponse
      <4> HIDE DEF s, canon
      <4> QED BY <4>1, <4>2
    <3>2. /\ s = "stop" => canon.stop = "end_turn"
          /\ s = "length" => canon.stop = "max_tokens"
          /\ s = "tool_calls" => canon.stop = "tool_use"
      BY <3>1 DEF OpenAIFinishToCanon
    <3> HIDE DEF canon, s, stop
    <3> QED BY <1>1, <1>4, <1>5, <2>1, <3>2 DEF CanonStops
  <2>2. CASE up = "anthropic"
    <3>1. canon.stop = s
      BY <2>2 DEF DecodeResponse, DecodeAnthropicResponse
    <3> HIDE DEF canon, s, stop
    <3> QED BY <1>2, <1>4, <1>5, <2>2, <3>1, Zenon
  <2>3. CASE up = "gemini"
    <3>1. canon.stop = IF OfKinds(r.answer.parts, {"call"}) # <<>> THEN "tool_use"
                       ELSE IF s = "MAX_TOKENS" THEN "max_tokens" ELSE "end_turn"
      <4>1. canon = DecodeGeminiResponse(r.answer)
        BY <2>3 DEF DecodeResponse
      <4>2. DecodeGeminiResponse(r.answer).stop =
               IF OfKinds(r.answer.parts, {"call"}) # <<>> THEN "tool_use"
               ELSE IF r.answer.stop = "MAX_TOKENS" THEN "max_tokens" ELSE "end_turn"
        BY Zenon DEF DecodeGeminiResponse
      <4> HIDE DEF canon
      <4> QED BY <4>1, <4>2
    <3>2. stop = IF OfKinds(r.answer.parts, {"call"}) # <<>> THEN "tool_use" ELSE StopOf("gemini", s)
      BY <2>3, Zenon DEF StopMeant
    <3>3. s = "STOP" \/ s = "MAX_TOKENS"
      BY <1>4, <2>3
    <3> HIDE DEF canon, s, stop
    <3> QED BY <1>1, <3>1, <3>2, <3>3 DEF CanonStops
  <2> QED BY <2>1, <2>2, <2>3 DEF Protocols
<1>7. CASE down = up
  <2>1. TransformResponse(down, up, r.answer).stop = s
    BY <1>7 DEF TransformResponse
  <2>2. stop = StopOf(down, s)
    BY <1>5, <1>7 DEF Protocols
  <2>3. down = "openai" => stop # "stop_sequence"
    BY <1>1, <1>4, <1>7, <2>2
  <2> HIDE DEF stop, s
  <2> QED BY <2>1, <2>2, <2>3 DEF stop
<1>8. CASE down # up /\ down = "anthropic"
  <2>1. canon.stop # ""
    <3> HIDE DEF canon, stop
    <3> QED BY <1>2, <1>6, Zenon
  <2>2. TransformResponse(down, up, r.answer).stop =
           IF canon.stop = "" THEN "end_turn" ELSE canon.stop
    BY <1>8, Zenon DEF TransformResponse, EncodeAnthropicResponse
  <2>3. TransformResponse(down, up, r.answer).stop = canon.stop
    <3> HIDE DEF canon
    <3> QED BY <2>1, <2>2, Zenon
  <2>4. StopOf("anthropic", stop) = stop
    <3> HIDE DEF stop
    <3> QED BY <1>2, <1>6, Zenon
  <2> HIDE DEF stop, canon
  <2> QED BY <1>6, <1>8, <2>3, <2>4 DEF stop
<1>9. CASE down # up /\ down = "openai"
  <2>1. TransformResponse(down, up, r.answer) = EncodeOpenAIResponse(canon)
    BY <1>9 DEF TransformResponse
  <2>2. EncodeOpenAIResponse(canon).stop = CanonStopToOpenAI(canon.stop)
    BY DEF EncodeOpenAIResponse
  <2> HIDE DEF stop, canon
  <2>3. StopOf("openai", CanonStopToOpenAI(stop)) =
           IF stop = "stop_sequence" THEN "end_turn" ELSE stop
    BY <1>1, <1>3, <1>6 DEF CanonStops
  <2> QED BY <1>6, <1>9, <2>1, <2>2, <2>3 DEF stop
<1> QED BY <1>7, <1>8, <1>9 DEF Protocols

\* and every token is settled.
LEMMA TokensSettled ==
    ASSUME Protocols, NEW r \in Replies(up), NEW w, w = r.usage, w.prompt + w.output > 0,
           NEW u, u = UsageOf(r.answer, w)
    PROVE  u.base + u.cached + u.written + u.output + u.audioIn + u.audioOut =
             w.prompt + w.output + (IF up = "anthropic" THEN w.cached + w.written ELSE 0)
<1>1. /\ w.prompt \in Nat /\ w.cached \in Nat /\ w.written \in Nat /\ w.output \in Nat
      /\ w.audioIn \in Nat /\ w.audioOut \in Nat
  <2>1. w \in Usage
    BY ReplyIs
  <2> QED BY <2>1 DEF Usage
<1>2. up # "anthropic" => w.cached + w.audioIn <= w.prompt /\ w.audioOut <= w.output
  BY ReplyIs DEF CountedWithin
<1>3. PICK v : v = NormalizeUsage(up, w)
  OBVIOUS
<1>4. v.base + v.cached + v.written + v.output + v.audioIn + v.audioOut =
         w.prompt + w.output + (IF up = "anthropic" THEN w.cached + w.written ELSE 0)
  <2>1. CASE up = "openai"
    <3>1. v = NormalizeOpenAIUsage(w)
      BY <1>3, <2>1 DEF NormalizeUsage
    <3>2. v.base = w.prompt - (w.cached + w.audioIn) /\ v.output = w.output - w.audioOut
          /\ v.cached = w.cached /\ v.written = 0 /\ v.audioIn = w.audioIn
          /\ v.audioOut = w.audioOut
      BY <1>1, <1>2, <2>1, <3>1 DEF NormalizeOpenAIUsage, Less
    <3> QED BY ONLY <1>1, <2>1, <3>2
  <2>2. CASE up = "anthropic"
    <3>1. v = NormalizeAnthropicUsage(w)
      BY <1>3, <2>2 DEF NormalizeUsage
    <3>2. v.base = w.prompt /\ v.output = w.output /\ v.cached = w.cached
          /\ v.written = w.written /\ v.audioIn = 0 /\ v.audioOut = 0
      BY <3>1 DEF NormalizeAnthropicUsage
    <3> QED BY ONLY <1>1, <2>2, <3>2
  <2>3. CASE up = "gemini"
    <3>1. v = NormalizeGeminiUsage(w)
      BY <1>3, <2>3 DEF NormalizeUsage
    <3>2. v.base = w.prompt - w.cached /\ v.output = w.output /\ v.cached = w.cached
          /\ v.written = 0 /\ v.audioIn = 0 /\ v.audioOut = 0
      BY <1>1, <1>2, <2>3, <3>1 DEF NormalizeGeminiUsage, Less
    <3> QED BY ONLY <1>1, <2>3, <3>2
  <2> QED BY <2>1, <2>2, <2>3 DEF Protocols
<1>5. v # NoTokens
  <2> SUFFICES ASSUME v = NoTokens PROVE FALSE
    OBVIOUS
  <2>1. /\ v.base = 0 /\ v.cached = 0 /\ v.written = 0 /\ v.output = 0 /\ v.audioIn = 0
        /\ v.audioOut = 0
    BY DEF NoTokens
  <2> QED BY ONLY <1>1, <1>4, <2>1, w.prompt + w.output > 0
<1>6. u = v
  BY <1>3, <1>5, Zenon DEF UsageOf
<1> QED BY <1>4, <1>6

-----------------------------------------------------------------------------
(* The meaning of requests and answers *)

\* An answer keeps its text, its calls and its reason, and is settled for every token.
LEMMA AnswerIsKept ==
    ASSUME Protocols, NEW r \in Replies(up),
           whole = [sent |-> r.answer, got |-> TransformResponse(down, up, r.answer),
                    reported |-> r.usage, settled |-> UsageOf(r.answer, r.usage)]
    PROVE  AnswerKept
<1> DEFINE visible == IF up = "gemini" THEN {"text", "thinking"} ELSE {"text"}
           stop == StopMeant(up, whole.sent)
           u == whole.reported
           s == whole.settled
<1>1. /\ whole.sent = r.answer /\ whole.got = TransformResponse(down, up, r.answer)
      /\ u = r.usage /\ s = UsageOf(r.answer, u)
  OBVIOUS
<1>2. NumbersOf(whole.got.parts, {"text"}) = NumbersOf(whole.sent.parts, visible)
  <2>1. Visible({"text"}) = {"text", "thinking"}
    BY DEF Visible
  <2>2. PICK K : K = {"text"}
    OBVIOUS
  <2>3. K \in {{"text"}, {"call"}}
    BY <2>2
  <2>4. NumbersOf(TransformResponse(down, up, r.answer).parts, K) =
           NumbersOf(r.answer.parts, IF up = "gemini" THEN Visible(K) ELSE K)
    BY <2>3, PartsKept
  <2> QED BY <1>1, <2>1, <2>2, <2>4
<1>3. NumbersOf(whole.got.parts, {"call"}) = NumbersOf(whole.sent.parts, {"call"})
  <2>1. Visible({"call"}) = {"call"}
    BY DEF Visible
  <2>2. PICK K : K = {"call"}
    OBVIOUS
  <2>3. K \in {{"text"}, {"call"}}
    BY <2>2
  <2>4. NumbersOf(TransformResponse(down, up, r.answer).parts, K) =
           NumbersOf(r.answer.parts, IF up = "gemini" THEN Visible(K) ELSE K)
    BY <2>3, PartsKept
  <2> QED BY <1>1, <2>1, <2>2, <2>4
<1>4. StopOf(down, whole.got.stop) =
         IF down = "openai" /\ stop = "stop_sequence" THEN "end_turn" ELSE stop
  BY <1>1, StopKept
<1>5. u.prompt + u.output > 0 =>
         s.base + s.cached + s.written + s.output + s.audioIn + s.audioOut =
           u.prompt + u.output + (IF up = "anthropic" THEN u.cached + u.written ELSE 0)
  <2> HIDE DEF u, s
  <2> QED BY <1>1, TokensSettled
<1> HIDE DEF stop, u, s, visible
<1> QED BY <1>2, <1>3, <1>4, <1>5, Zenon DEF AnswerKept, NumbersOf, stop, u, s, visible

\* While a body is tried it is the client's, and the one sent is built from it;
\* an answer is made of one of the upstream's.
MeaningInv ==
    /\ phase = "built" => /\ said \in Prompts(down) /\ sent # Refused
                          /\ body = ClientBody(down, said.conversation, said.options)
                          /\ sent = BuildRequest(down, up, body)
    /\ phase # "answered" => whole = NoAnswer
    /\ phase = "answered" /\ whole # NoAnswer =>
          \E r \in Replies(up) :
             whole = [sent |-> r.answer, got |-> TransformResponse(down, up, r.answer),
                      reported |-> r.usage, settled |-> UsageOf(r.answer, r.usage)]

\* There is no body and no answer at first.
LEMMA MeaningStarts == Init => MeaningInv
<1> SUFFICES ASSUME Init PROVE MeaningInv
  OBVIOUS
<1>1. phase = "new" /\ whole = NoAnswer
  BY Zenon DEF Init
<1>2. "new" # "built" /\ "new" # "answered"
  OBVIOUS
<1> QED BY <1>1, <1>2, Zenon DEF MeaningInv

\* Every step keeps MeaningInv.
LEMMA MeaningSteps == Protocols /\ MeaningInv /\ [Next]_vars => MeaningInv'
<1> SUFFICES ASSUME Protocols, MeaningInv, [Next]_vars PROVE MeaningInv'
  OBVIOUS
<1>0. /\ "built" # "answered" /\ "new" # "answered" /\ "refused" # "answered"
      /\ "forwarded" # "answered" /\ "streaming" # "answered"
      /\ "new" # "built" /\ "refused" # "built" /\ "forwarded" # "built" /\ "streaming" # "built"
  OBVIOUS
<1>1. CASE Ask
  <2>1. /\ phase = "new" /\ said' \in Prompts(down) /\ whole' = whole
        /\ BuildFor(ClientBody(down, said'.conversation, said'.options))
        /\ UNCHANGED streamVars
    BY <1>1, Zenon DEF Ask
  <2>2. up' = up /\ down' = down
    BY <2>1, Zenon DEF streamVars
  <2>3. PICK kept : kept = ClientBody(down, said'.conversation, said'.options)
    OBVIOUS
  <2>4. /\ sent' = BuildRequest(down, up', kept) /\ body' = kept
        /\ phase' = IF sent' = Refused THEN "refused" ELSE "built"
    BY <2>1, <2>3, Zenon DEF BuildFor, CopyBody
  <2>5. whole = NoAnswer
    BY <1>0, <2>1, Zenon DEF MeaningInv
  <2>6. phase' # "answered" /\ (phase' = "built" => sent' # Refused)
    BY <1>0, <2>4
  <2> QED BY <2>1, <2>2, <2>3, <2>4, <2>5, <2>6, Zenon DEF MeaningInv, NoAnswer
<1>2. ASSUME NEW p, NextChannel(p) PROVE MeaningInv'
  <2>1. /\ phase = "built" /\ said' = said /\ whole' = whole /\ down' = down
        /\ BuildFor(body)
    BY <1>2, Zenon DEF NextChannel
  <2>2. /\ sent' = BuildRequest(down, up', body) /\ body' = body
        /\ phase' = IF sent' = Refused THEN "refused" ELSE "built"
    BY <2>1, Zenon DEF BuildFor, CopyBody
  <2>3. /\ said \in Prompts(down) /\ body = ClientBody(down, said.conversation, said.options)
        /\ whole = NoAnswer
    BY <1>0, <2>1, Zenon DEF MeaningInv
  <2>4. phase' # "answered" /\ (phase' = "built" => sent' # Refused)
    BY <1>0, <2>2
  <2> QED BY <2>1, <2>2, <2>3, <2>4, Zenon DEF MeaningInv, NoAnswer
<1>3. CASE JsonResponse
  <2>1. PICK r \in Replies(up) :
           whole' = [sent |-> r.answer, got |-> TransformResponse(down, up, r.answer),
                     reported |-> r.usage, settled |-> UsageOf(r.answer, r.usage)]
    BY <1>3, Zenon DEF JsonResponse
  <2>2. phase' = "answered" /\ up' = up /\ down' = down
    BY <1>3, Zenon DEF JsonResponse, streamVars
  <2>3. UsageOf(r.answer, r.usage)' = UsageOf(r.answer, r.usage)
    BY <2>2, Zenon DEF UsageOf
  <2> QED BY <1>0, <2>1, <2>2, <2>3, Zenon DEF MeaningInv
<1>4. CASE SimpleRelay
  <2>1. phase = "new" /\ phase' = "answered" /\ whole' = whole
    BY <1>4, Zenon DEF SimpleRelay
  <2>2. whole = NoAnswer
    BY <1>0, <2>1, Zenon DEF MeaningInv
  <2> QED BY <1>0, <2>1, <2>2, Zenon DEF MeaningInv, NoAnswer
<1>5. ASSUME phase # "answered", phase' # "built", phase' # "answered", whole' = whole
      PROVE  MeaningInv'
  <2>1. whole = NoAnswer
    BY <1>5, Zenon DEF MeaningInv
  <2> QED BY <1>5, <2>1, Zenon DEF MeaningInv, NoAnswer
<1>6. CASE Forward \/ BeginStream
  <2>1. phase # "answered" /\ phase' \in {"forwarded", "streaming"} /\ whole' = whole
    BY <1>0, <1>6, Zenon DEF Forward, BeginStream
  <2> QED BY <1>0, <1>5, <2>1
<1>7. CASE phase = "streaming" /\ StreamNext /\ UNCHANGED <<phase, said, body, sent, whole, bill>>
  <2>1. phase = "streaming" /\ phase' = phase /\ whole' = whole
    BY <1>7, Zenon
  <2> QED BY <1>0, <1>5, <2>1
<1>8. CASE UNCHANGED vars
  <2>1. /\ phase' = phase /\ said' = said /\ body' = body /\ sent' = sent /\ whole' = whole
        /\ up' = up /\ down' = down
    BY <1>8, Zenon DEF vars, streamVars
  <2>2. \A a, w : UsageOf(a, w)' = UsageOf(a, w)
    BY <2>1, Zenon DEF UsageOf
  <2> QED BY <2>1, <2>2, Zenon DEF MeaningInv, NoAnswer
<1> QED BY <1>1, <1>2, <1>3, <1>4, <1>6, <1>7, <1>8, Zenon DEF Next

\* MeaningKept, from the client's body and the upstream's answer.
LEMMA MeaningFollows == Protocols /\ MeaningInv => MeaningKept
<1> SUFFICES ASSUME Protocols, MeaningInv PROVE MeaningKept
  OBVIOUS
<1>1. ASSUME phase = "built" PROVE RequestKept
  <2>1. /\ said \in Prompts(down) /\ sent # Refused
        /\ sent = BuildRequest(down, up, ClientBody(down, said.conversation, said.options))
    BY <1>1, Zenon DEF MeaningInv
  <2> QED BY <2>1, RequestIsKept
<1>2. ASSUME phase = "answered", whole # NoAnswer PROVE AnswerKept
  <2>1. PICK r \in Replies(up) :
           whole = [sent |-> r.answer, got |-> TransformResponse(down, up, r.answer),
                    reported |-> r.usage, settled |-> UsageOf(r.answer, r.usage)]
    BY <1>2, Zenon DEF MeaningInv
  <2> QED BY <2>1, AnswerIsKept
<1> QED BY <1>1, <1>2, Zenon DEF MeaningKept

\* No step changes a protocol but to another one.
LEMMA ProtocolsKept == Spec => []Protocols
<1>1. Init => Protocols
  BY Zenon DEF Init, StreamInit, Protocols
<1>2. Protocols /\ [Next]_vars => Protocols'
  <2> SUFFICES ASSUME Protocols, [Next]_vars PROVE Protocols'
    OBVIOUS
  <2>1. ASSUME UNCHANGED <<up, down>> PROVE Protocols'
    BY <2>1 DEF Protocols
  <2>2. CASE Ask \/ JsonResponse \/ SimpleRelay \/ Forward \/ BeginStream
    BY <2>1, <2>2, Zenon DEF Ask, JsonResponse, SimpleRelay, Forward, BeginStream, streamVars
  <2>3. ASSUME NEW p \in {"openai", "anthropic", "gemini"}, NextChannel(p) PROVE Protocols'
    <3>1. up' = p /\ down' = down
      BY <2>3, Zenon DEF NextChannel
    <3> QED BY <2>3, <3>1 DEF Protocols
  <2>4. CASE StreamNext
    <3>1. ASSUME NEW p, Payload(p) PROVE UNCHANGED <<up, down>>
      BY <3>1, Zenon DEF Payload
    <3>2. CASE OpenAIPayload
      <4>1. PICK text, args, more \in BOOLEAN, id \in BOOLEAN,
                 finish \in {"", "stop", "length", "tool_calls"}, usage \in BOOLEAN :
            LET n == IF text THEN NextPiece + 1 ELSE NextPiece
                k == source.tools - (IF id THEN 0 ELSE 1)
                call == Call(k, IF id THEN n ELSE 0, IF args THEN (IF id THEN n + 1 ELSE n) ELSE 0)
                calls == (IF id \/ args THEN <<call>> ELSE <<>>)
                           \o (IF more /\ id THEN <<Call(k + 1, n + 2, 0)>> ELSE <<>>)
            IN  /\ more => id /\ args
                /\ text \/ id \/ args \/ finish # "" \/ usage
                /\ usage => ~text /\ ~id /\ ~args /\ finish = "" /\ source.stop # ""
                /\ Payload([Chunk EXCEPT !.text = IF text THEN NextPiece ELSE 0, !.calls = calls,
                                         !.finish = finish, !.usage = usage])
        BY <3>2, Zenon DEF OpenAIPayload
      <4>2. PICK payload : Payload(payload)
        BY <4>1, Zenon
      <4> QED BY <2>1, <3>1, <4>2
    <3>3. CASE AnthropicPayload
      BY <2>1, <3>1, <3>3, Zenon DEF AnthropicPayload
    <3>4. CASE GeminiPayload
      BY <2>1, <3>1, <3>4, Zenon DEF GeminiPayload
    <3>5. CASE DoneMarker \/ EndOfStream \/ ClientLeaves
      BY <2>1, <3>5, Zenon DEF DoneMarker, EndOfStream, ClientLeaves
    <3> QED BY <2>4, <3>2, <3>3, <3>4, <3>5, Zenon DEF StreamNext
  <2>5. CASE UNCHANGED vars
    BY <2>1, <2>5, Zenon DEF vars, streamVars
  <2> QED BY <2>2, <2>3, <2>4, <2>5, Zenon DEF Next
<1> QED BY <1>1, <1>2, PTL DEF Spec

\* A body built for any channel, after any others, says what the client said and
\* sets what it set, or is refused; an answer comes back with its text, its calls
\* and its reason, settled for every token.
THEOREM MeaningIsKept == Spec => []MeaningKept
<1>1. Protocols /\ MeaningInv => MeaningKept
  BY MeaningFollows
<1>2. Protocols /\ MeaningInv /\ [Next]_vars => MeaningInv'
  BY MeaningSteps
<1> QED BY <1>1, <1>2, MeaningStarts, ProtocolsKept, PTL DEF Spec

-----------------------------------------------------------------------------
(* Rounding *)

\* Products of numbers that are compared.
LEMMA ProductsOrdered ==
    \A a, b, c \in Int : a <= b /\ c >= 0 => a * c <= b * c
OBVIOUS

LEMMA Distributes == \A a, b, c \in Int : (a + b) * c = a * c + b * c
OBVIOUS

\* What is larger a positive number of times over is larger.
LEMMA ProductsCancel ==
    \A a, b \in Int : \A c \in Nat \ {0} : a * c <= b * c => a <= b
<1> SUFFICES ASSUME NEW a \in Int, NEW b \in Int, NEW c \in Nat \ {0}, a > b
             PROVE  a * c > b * c
  OBVIOUS
<1>1. (b + 1) * c <= a * c
  BY ProductsOrdered
<1>2. (b + 1) * c = b * c + c
  OBVIOUS
<1>3. b * c \in Int /\ a * c \in Int
  OBVIOUS
<1> QED BY <1>1, <1>2, <1>3

\* A quotient and its remainder.
LEMMA Division ==
    ASSUME NEW n \in Nat, NEW d \in Nat \ {0}
    PROVE  /\ n \div d \in Nat /\ n % d \in 0 .. d - 1
           /\ n = d * (n \div d) + (n % d)
OBVIOUS

\* CeilBigDiv is the least number that covers its quotient, or the largest amount.
LEMMA CeilCovers ==
    ASSUME NEW n \in Int, NEW d \in Nat \ {0}
    PROVE  /\ CeilBigDiv(n, d) \in Nat /\ CeilBigDiv(n, d) <= MaxCredits
           /\ CeilBigDiv(n, d) = MaxCredits \/ n <= CeilBigDiv(n, d) * d
<1>1. MaxCredits \in Nat
  BY PricingAssumption
<1>2. CASE n <= 0
  BY <1>1, <1>2 DEF CeilBigDiv
<1>3. CASE n > 0
  <2> DEFINE q == n \div d
             r == n % d
             c == q + (IF r = 0 THEN 0 ELSE 1)
  <2>1. q \in Nat /\ r \in 0 .. d - 1 /\ n = d * q + r
    <3>1. n \in Nat
      BY <1>3
    <3> QED BY <3>1, Division, Zenon
  <2>2. CeilBigDiv(n, d) = IF c > MaxCredits THEN MaxCredits ELSE c
    BY <1>3 DEF CeilBigDiv
  <2> HIDE DEF q, r
  <2>3. c \in Nat /\ n <= c * d
    <3>1. CASE r = 0
      BY <2>1, <3>1
    <3>2. CASE r # 0
      <4>1. (q + 1) * d = d * q + d
        BY <2>1
      <4>2. d * q \in Int
        BY <2>1
      <4> QED BY <2>1, <3>2, <4>1, <4>2
    <3> QED BY <3>1, <3>2
  <2> HIDE DEF c
  <2> QED BY <1>1, <2>2, <2>3
<1> QED BY <1>2, <1>3

\* Rounding up goes no further than the first number that covers.
LEMMA CeilLeast ==
    ASSUME NEW n \in Int, NEW d \in Nat \ {0}, NEW k \in Nat, n <= k * d
    PROVE  CeilBigDiv(n, d) <= k
<1>1. MaxCredits \in Nat
  BY PricingAssumption
<1>2. CASE n <= 0
  BY <1>1, <1>2 DEF CeilBigDiv
<1>3. CASE n > 0
  <2> DEFINE q == n \div d
             r == n % d
             c == q + (IF r = 0 THEN 0 ELSE 1)
  <2>1. q \in Nat /\ r \in 0 .. d - 1 /\ n = d * q + r
    <3>1. n \in Nat
      BY <1>3
    <3> QED BY <3>1, Division, Zenon
  <2>2. CeilBigDiv(n, d) = IF c > MaxCredits THEN MaxCredits ELSE c
    BY <1>3 DEF CeilBigDiv
  <2> HIDE DEF q, r
  <2>3. c <= k
    <3>1. d * q = q * d /\ q * d \in Int /\ k * d \in Int
      BY <2>1
    <3>2. CASE r = 0
      <4>1. q * d <= k * d
        BY <2>1, <3>1, <3>2
      <4> QED BY <2>1, <3>2, <4>1, ProductsCancel
    <3>3. CASE r # 0
      <4>1. q < k
        <5> SUFFICES ASSUME k <= q PROVE FALSE
          BY <2>1
        <5>1. k * d <= q * d
          BY <2>1, ProductsOrdered
        <5> QED BY <2>1, <3>1, <3>3, <5>1
      <4> QED BY <2>1, <3>3, <4>1
    <3> QED BY <3>2, <3>3
  <2>4. c \in Nat
    BY <2>1
  <2> HIDE DEF c
  <2> QED BY <1>1, <2>2, <2>3, <2>4
<1> QED BY <1>2, <1>3


-----------------------------------------------------------------------------
(* The multiplier of a peak *)

\* What a rule asks for at a moment.
Rate(rules, day, minute) ==
    [i \in DOMAIN rules |->
        IF Applies(rules[i], day, minute) THEN rules[i].multiplier ELSE Percent]

Peaks == INSTANCE FoldProofs WITH Op <- LAMBDA x, y : IF x > y THEN x ELSE y,
                                  Pick <- LAMBDA S : Max(S)

\* The multiplier is one of those asked for, or none, and the highest.
LEMMA PeakIsHighest ==
    ASSUME NEW rules \in Seq(PeakRule), NEW day, NEW minute
    PROVE  LET m == EvaluatePeakMultiplier(rules, day, minute)
               rate == Rate(rules, day, minute)
           IN  /\ m = Percent \/ \E i \in DOMAIN rules : m = rate[i]
               /\ m >= Percent /\ \A i \in DOMAIN rules : m >= rate[i]
               /\ m \in Int
<1> DEFINE rate == Rate(rules, day, minute)
           n == Len(rules)
           F(T) == Peaks!Fold(rate, Percent, T)
           A == {Percent} \cup {rate[i] : i \in DOMAIN rules}
           W == {T \in SUBSET (1..n) : F(T) >= Percent /\ \A i \in T : F(T) >= rate[i]}
<1>1. n \in Nat /\ DOMAIN rules = 1..n /\ DOMAIN rate = 1..n /\ IsFiniteSet(1..n)
  BY LenProperties, FS_Interval DEF Rate
<1>2. Percent \in Int /\ \A i \in 1..n : rate[i] \in Int
  <2>1. \A i \in 1..n : rules[i] \in PeakRule
    BY <1>1
  <2> QED BY <1>1, <2>1, PricingAssumption DEF Rate, PeakRule
<1>3. EvaluatePeakMultiplier(rules, day, minute) = F(1..n)
  BY <1>1, Zenon DEF EvaluatePeakMultiplier, Rate, FoldLeft, MapThenFoldSet,
                     Peaks!Fold, Peaks!MapThenFoldSet
<1>4. Peaks!PicksFrom(1..n)
  <2>1. \A s \in SUBSET (1..n) : s # {} => Max(s) \in s
    BY <1>1, Peaks!MaxPicks DEF Max, Peaks!Max
  <2> QED BY <1>1, <2>1, Zenon DEF Peaks!PicksFrom, IsFiniteSet, Peaks!IsFiniteSet
<1> DEFINE Higher(x, y) == IF x > y THEN x ELSE y
<1>5. \A T \in SUBSET (1..n) : F(T) \in A
  <2> SUFFICES ASSUME NEW T \in SUBSET (1..n) PROVE F(T) \in A
    OBVIOUS
  <2>1. Peaks!PicksFrom(T)
    BY <1>4, Peaks!PickLeaves
  <2>2. Percent \in A /\ \A x \in T : rate[x] \in A
    BY <1>1
  <2> HIDE DEF A, rate, n
  <2>3. \A x \in T : \A a \in A : Higher(rate[x], a) \in A
    BY <2>2
  <2> QED BY <2>1, <2>2, <2>3, Peaks!FoldStays
<1>6. A \subseteq Int
  BY <1>1, <1>2
<1>7. \A T \in SUBSET (1..n) : (\A U \in SUBSET T : U # T => U \in W) => T \in W
  <2> SUFFICES ASSUME NEW T \in SUBSET (1..n), \A U \in SUBSET T : U # T => U \in W
               PROVE  F(T) >= Percent /\ \A i \in T : F(T) >= rate[i]
    OBVIOUS
  <2>1. Peaks!PicksFrom(T)
    BY <1>4, Peaks!PickLeaves
  <2>2. CASE T = {}
    <3>1. F(T) = Percent
      BY <2>1, <2>2, Peaks!FoldRest, Zenon
    <3> HIDE DEF F
    <3> QED BY <1>2, <2>2, <3>1
  <2>3. CASE T # {}
    <3> DEFINE top == Max(T)
               rest == T \ {top}
    <3>1. top \in T /\ rest \in SUBSET T /\ rest # T
      BY <2>1, <2>3, Peaks!PickLeaves
    <3>2. F(T) = Higher(rate[top], F(rest))
      BY <2>1, <2>3, Peaks!FoldRest
    <3>3. F(rest) >= Percent /\ \A i \in rest : F(rest) >= rate[i]
      BY <3>1
    <3>4. F(rest) \in Int /\ F(T) \in Int /\ \A i \in T : rate[i] \in Int
      BY <1>2, <1>5, <1>6, <3>1
    <3>5. T = rest \cup {top}
      BY <3>1
    <3> HIDE DEF F, rate, rest, top
    <3> QED BY <1>2, <3>1, <3>2, <3>3, <3>4, <3>5
  <2> QED BY <2>2, <2>3
<1>8. F(1..n) \in A /\ 1..n \in W
  <2>1. Peaks!IsFiniteSet(1..n)
    BY <1>1, Zenon DEF IsFiniteSet, Peaks!IsFiniteSet
  <2> HIDE DEF W, F
  <2>2. \A T \in SUBSET (1..n) : T \in W
    BY <1>7, <2>1, Peaks!SubsetInduction, Zenon
  <2> HIDE DEF n
  <2> QED BY <1>5, <2>2
<1> QED BY <1>1, <1>3, <1>6, <1>8

-----------------------------------------------------------------------------
(* Prices that cover *)

LEMMA AddMulProduct == \A a, b \in Nat : AddMul(a, b) = a * b /\ a * b \in Nat
<1> SUFFICES ASSUME NEW a \in Nat, NEW b \in Nat PROVE AddMul(a, b) = a * b /\ a * b \in Nat
  OBVIOUS
<1>1. 0 * b <= a * b
  BY ProductsOrdered
<1>2. a = 0 \/ b = 0 => a * b = 0
  OBVIOUS
<1> QED BY <1>1, <1>2 DEF AddMul

LEMMA ProductPositive == \A a, b \in Nat \ {0} : a * b \in Nat \ {0}
<1> SUFFICES ASSUME NEW a \in Nat \ {0}, NEW b \in Nat \ {0} PROVE a * b \in Nat \ {0}
  OBVIOUS
<1>1. 1 * b <= a * b
  BY ProductsOrdered
<1> QED BY <1>1

\* A price that is listed at the provider's or above covers what the provider takes.
LEMMA PriceCovers ==
    ASSUME NEW d \in Nat, NEW r \in Nat, NEW k \in Nat, k >= Percent,
           NEW p, p = ConvertUSDToCredits(d, r, k)
    PROVE  p \in Nat /\ (p # MaxCredits => d * r <= p * MicroDenom)
<1>1. Percent \in Nat \ {0} /\ MicroDenom \in Nat \ {0}
  BY PricingAssumption
<1> DEFINE n == d * r
           D == MicroDenom * Percent
<1>2. n \in Nat /\ n * k \in Nat /\ D \in Nat \ {0}
  BY <1>1, AddMulProduct, ProductPositive
<1>3. p = CeilBigDiv(n * k, D)
  BY <1>1, AddMulProduct DEF ConvertUSDToCredits
<1>4. p \in Nat /\ (p # MaxCredits => n * k <= p * D)
  <2> HIDE DEF n, D
  <2> QED BY <1>2, <1>3, CeilCovers
<1>5. ASSUME p # MaxCredits PROVE n <= p * MicroDenom
  <2>1. n * Percent <= n * k
    <3>1. Percent * n <= k * n
      BY <1>1, <1>2, ProductsOrdered
    <3> QED BY <1>1, <1>2, <3>1
  <2>2. n * k \in Int /\ n * k <= p * D /\ p * D \in Int
    BY <1>2, <1>4, <1>5
  <2>3. p * D = (p * MicroDenom) * Percent
    BY <1>1, <1>4
  <2>4. p * MicroDenom \in Int
    BY <1>1, <1>4
  <2> HIDE DEF n, D
  <2>5. n * Percent <= (p * MicroDenom) * Percent
    BY <1>1, <1>2, <2>1, <2>2, <2>3
  <2> QED BY <1>1, <1>2, <2>4, <2>5, ProductsCancel
<1> QED BY <1>4, <1>5

\* ... and for any number of tokens.
LEMMA TermCovers ==
    ASSUME NEW t \in Nat, NEW d \in Nat, NEW r \in Nat, NEW p \in Nat, d * r <= p * MicroDenom
    PROVE  AddMul(t, d) * r <= AddMul(t, p) * MicroDenom
<1>1. MicroDenom \in Nat
  BY PricingAssumption
<1>2. (d * r) * t <= (p * MicroDenom) * t
  BY <1>1, ProductsOrdered
<1>3. AddMul(t, d) = t * d /\ AddMul(t, p) = t * p
  BY AddMulProduct
<1>4. (t * d) * r = (d * r) * t /\ (t * p) * MicroDenom = (p * MicroDenom) * t
  BY <1>1
<1> QED BY <1>2, <1>3, <1>4

\* Counts priced one by one cover when each does.
LEMMA SumCovers ==
    ASSUME NEW r \in Nat, NEW D \in Nat, NEW e \in Nat,
           NEW a1 \in Nat, NEW a2 \in Nat, NEW a3 \in Nat, NEW a4 \in Nat,
           NEW b1 \in Nat, NEW b2 \in Nat, NEW b3 \in Nat, NEW b4 \in Nat,
           a1 * r <= b1 * D, a2 * r <= b2 * D, a3 * r <= b3 * D, a4 * r <= b4 * D
    PROVE  (a1 + a2 + a3 + a4) * r <= (b1 + b2 + b3 + b4 + e) * D
<1>1. (a1 + a2 + a3 + a4) * r = a1 * r + a2 * r + a3 * r + a4 * r
  OBVIOUS
<1>2. (b1 + b2 + b3 + b4 + e) * D = b1 * D + b2 * D + b3 * D + b4 * D + e * D
  OBVIOUS
<1>3. e * D \in Nat
  BY AddMulProduct
<1>4. /\ a1 * r \in Nat /\ a2 * r \in Nat /\ a3 * r \in Nat /\ a4 * r \in Nat
      /\ b1 * D \in Nat /\ b2 * D \in Nat /\ b3 * D \in Nat /\ b4 * D \in Nat
  BY AddMulProduct
<1> HIDE DEF AddMul
<1> QED BY <1>1, <1>2, <1>3, <1>4

\* Amounts of which one covers the other, each rounded up: the cost in credits
\* of the one is covered by the other and what a micro-dollar is worth.
LEMMA RoundedCovers ==
    ASSUME NEW N \in Nat, NEW N2 \in Nat, NEW r \in Nat, N * r <= N2 * MicroDenom,
           NEW S \in Nat \ {0}, NEW m \in Int, m >= Percent,
           NEW a, a = CeilBigDiv(N * Percent, Percent * S),
           NEW c, c = CeilBigDiv(N2 * m, Percent * S)
    PROVE  ConvertMicroUSDToCredits(a, r) <= c + ConvertMicroUSDToCredits(1, r)
<1> DEFINE D == MicroDenom
           P == Percent
           k == ConvertMicroUSDToCredits(1, r)
           cost == ConvertMicroUSDToCredits(a, r)
<1>1. P \in Nat \ {0} /\ D \in Nat \ {0} /\ MaxCredits \in Nat \ {0}
  BY PricingAssumption
<1>2. P * S \in Nat \ {0} /\ N * P \in Nat /\ N2 * m \in Nat
  BY <1>1, AddMulProduct, ProductPositive
<1>3. a \in Nat /\ c \in Nat
  <2>1. N * P \in Int /\ N2 * m \in Int
    BY <1>2
  <2> QED BY <1>2, <2>1, CeilCovers, Zenon
<1>4. AddMul(1, r) = r /\ AddMul(a, r) = a * r /\ a * r \in Nat
  <2>1. 1 \in Nat /\ 1 * r = r
    OBVIOUS
  <2>2. AddMul(1, r) = 1 * r /\ AddMul(a, r) = a * r /\ a * r \in Nat
    BY <1>3, <2>1, AddMulProduct, Zenon
  <2> QED BY <2>1, <2>2
<1>5. k = CeilBigDiv(r, D) /\ cost = CeilBigDiv(a * r, D)
  BY <1>4 DEF ConvertMicroUSDToCredits
<1>6. k \in Nat /\ cost \in Nat /\ cost <= MaxCredits
  BY <1>1, <1>4, <1>5, CeilCovers
<1>7. ASSUME c = MaxCredits \/ k = MaxCredits PROVE cost <= c + k
  <2> HIDE DEF k, cost
  <2> QED BY <1>3, <1>6, <1>7
<1>8. ASSUME c # MaxCredits, k # MaxCredits PROVE cost <= c + k
  <2>1. N2 * m <= c * (P * S) /\ r <= k * D
    <3> HIDE DEF k
    <3> QED BY <1>1, <1>2, <1>5, <1>8, CeilCovers
  <2>2. N2 <= c * S
    <3>1. P * N2 <= m * N2
      BY <1>1, ProductsOrdered
    <3>2. P * N2 = N2 * P /\ m * N2 = N2 * m /\ c * (P * S) = (c * S) * P
      BY <1>1, <1>3
    <3>3. N2 * P \in Int /\ c * S \in Int /\ (c * S) * P \in Int /\ N2 * m \in Int
      BY <1>1, <1>3
    <3>4. N2 * P <= (c * S) * P
      <4> HIDE DEF P
      <4> QED BY <2>1, <3>1, <3>2, <3>3
    <3> QED BY <1>1, <3>3, <3>4, ProductsCancel
  <2>3. a * r <= (c + k) * D
    <3>1. CASE a = 0
      BY <1>1, <1>3, <1>6, <3>1, AddMulProduct
    <3>2. CASE a # 0
      <4> DEFINE b == a - 1
      <4>1. b \in Nat /\ a = b + 1
        BY <1>3, <3>2
      <4> HIDE DEF b
      <4>2. ~(N * P <= b * (P * S))
        <5> SUFFICES ASSUME N * P <= b * (P * S) PROVE FALSE
          OBVIOUS
        <5>1. a <= b
          BY <1>2, <4>1, CeilLeast
        <5> QED BY <4>1, <5>1
      <4>3. b * S <= N
        <5>1. b * (P * S) = (b * S) * P /\ b * S \in Int /\ (b * S) * P \in Int /\ N * P \in Int
          BY <1>1, <4>1
        <5>2. (b * S) * P <= N * P
          BY <4>2, <5>1
        <5> QED BY <1>1, <5>1, <5>2, ProductsCancel
      <4>4. b * r <= c * D
        <5>1. (b * S) * r <= N * r
          BY <4>1, <4>3, ProductsOrdered
        <5>2. N2 * D <= (c * S) * D
          BY <1>1, <1>3, <2>2, ProductsOrdered
        <5>3. (b * S) * r = (b * r) * S /\ (c * S) * D = (c * D) * S
          BY <1>1, <1>3, <4>1
        <5>4. /\ b * r \in Int /\ c * D \in Int /\ (b * r) * S \in Int /\ (c * D) * S \in Int
              /\ N * r \in Int /\ N2 * D \in Int
          BY <1>1, <1>3, <4>1
        <5>5. (b * r) * S <= (c * D) * S
          BY <5>1, <5>2, <5>3, <5>4
        <5> QED BY <5>4, <5>5, ProductsCancel
      <4>5. a * r = b * r + r /\ (c + k) * D = c * D + k * D
        <5>1. b \in Int /\ c \in Int /\ k \in Int /\ D \in Int /\ r \in Int /\ 1 * r = r /\ 1 \in Int
          BY <1>1, <1>3, <1>6, <4>1
        <5> HIDE DEF k, D
        <5>2. (c + k) * D = c * D + k * D
          BY ONLY <5>1, Distributes
        <5>3. (b + 1) * r = b * r + 1 * r
          BY ONLY <5>1, Distributes
        <5> QED BY <4>1, <5>1, <5>2, <5>3
      <4>6. b * r \in Int /\ c * D \in Int /\ k * D \in Int
        <5> HIDE DEF k
        <5> QED BY <1>1, <1>3, <1>6, <4>1
      <4> HIDE DEF k
      <4> QED BY <2>1, <4>4, <4>5, <4>6
    <3> QED BY <3>1, <3>2
  <2>4. cost <= c + k
    <3>1. c + k \in Nat
      BY <1>3, <1>6
    <3> QED BY <1>1, <1>4, <1>5, <2>3, <3>1, CeilLeast
  <2> QED BY <2>4
<1> QED BY <1>7, <1>8

\* Tokens of an answer, as they are settled.
TokenCounts == [base : Nat, cached : Nat, written : Nat, output : Nat, audioIn : Nat, audioOut : Nat]

\* What a token count is worth at a price, before it is rounded.
Worth(u, p) ==
    AddMul(u.base, p.input) + AddMul(u.cached, p.cacheRead) + AddMul(u.written, p.cacheWrite)
      + AddMul(u.output, p.output)

\* Prices listed for a provider's, of which none is the largest amount.
Covers(p, l) ==
    /\ p \in [PriceNames -> Nat]
    /\ \A x \in PriceNames : l.dollars[x] * l.rate <= p[x] * MicroDenom

\* The prices in credits of a listing cover those in dollars, unless one is capped.
LEMMA ListedCovers ==
    ASSUME NEW l \in Listing, NEW p, p = ListedPrice(l.dollars, l.rate, l.markup)
    PROVE  /\ DOMAIN p = PriceNames /\ p \in [PriceNames -> Nat]
           /\ (\A x \in PriceNames : p[x] # MaxCredits) => Covers(p, l)
<1>1. /\ l.dollars \in [PriceNames -> Nat] /\ l.rate \in Nat
      /\ l.markup \in Nat /\ l.markup >= Percent
  BY DEF Listing
<1>2. p = [x \in PriceNames |-> ConvertUSDToCredits(l.dollars[x], l.rate, l.markup)]
  BY <1>1 DEF ListedPrice
<1>3. ASSUME NEW x \in PriceNames
      PROVE  /\ p[x] \in Nat
             /\ p[x] # MaxCredits => l.dollars[x] * l.rate <= p[x] * MicroDenom
  <2>1. p[x] = ConvertUSDToCredits(l.dollars[x], l.rate, l.markup)
    BY <1>2
  <2>2. l.dollars[x] \in Nat
    BY <1>1
  <2> QED BY <1>1, <2>1, <2>2, PriceCovers
<1> QED BY <1>2, <1>3 DEF Covers

\* Tokens cost the operator no more than the client is charged, rounded up.
LEMMA TokensCovered ==
    ASSUME NEW l \in Listing, NEW p, Covers(p, l), NEW u \in TokenCounts, NEW m \in Int
    PROVE  ConvertMicroUSDToCredits(
              CalcTokenCredits(u, [l.dollars EXCEPT !.audioIn = 0, !.audioOut = 0], Percent), l.rate)
             <= CalcTokenCredits(u, p, m) + ConvertMicroUSDToCredits(1, l.rate)
<1> DEFINE d == l.dollars
           q == [d EXCEPT !.audioIn = 0, !.audioOut = 0]
           e == AddMul(u.audioIn, p.audioIn) + AddMul(u.audioOut, p.audioOut)
           N == Worth(u, d)
           N2 == Worth(u, p) + e
           S == TokensPerUnit
           r == l.rate
           top == AtLeastBase(m)
<1>1. /\ d \in [PriceNames -> Nat] /\ r \in Nat /\ p \in [PriceNames -> Nat]
      /\ S \in Nat \ {0} /\ Percent \in Nat \ {0} /\ MicroDenom \in Nat \ {0}
  BY PricingAssumption DEF Listing, Covers
<1>2. /\ u.base \in Nat /\ u.cached \in Nat /\ u.written \in Nat /\ u.output \in Nat
      /\ u.audioIn \in Nat /\ u.audioOut \in Nat
  BY DEF TokenCounts
<1>3. \A x \in PriceNames : d[x] \in Nat /\ p[x] \in Nat /\ d[x] * r <= p[x] * MicroDenom
  BY <1>1 DEF Covers
<1>4. \A t \in Nat, x \in PriceNames :
         /\ AddMul(t, d[x]) \in Nat /\ AddMul(t, p[x]) \in Nat
         /\ AddMul(t, d[x]) * r <= AddMul(t, p[x]) * MicroDenom
  <2> SUFFICES ASSUME NEW t \in Nat, NEW x \in PriceNames
               PROVE  /\ AddMul(t, d[x]) \in Nat /\ AddMul(t, p[x]) \in Nat
                      /\ AddMul(t, d[x]) * r <= AddMul(t, p[x]) * MicroDenom
    OBVIOUS
  <2>1. d[x] \in Nat /\ p[x] \in Nat /\ d[x] * r <= p[x] * MicroDenom
    BY <1>3
  <2>2. AddMul(t, d[x]) * r <= AddMul(t, p[x]) * MicroDenom
    BY <1>1, <2>1, TermCovers, Zenon
  <2>3. AddMul(t, d[x]) \in Nat /\ AddMul(t, p[x]) \in Nat
    BY <2>1, AddMulProduct
  <2> QED BY <2>2, <2>3
<1>5. {"input", "cacheRead", "cacheWrite", "output", "audioIn", "audioOut"} \subseteq PriceNames
  BY DEF PriceNames
<1>6. N \in Nat /\ e \in Nat /\ N2 \in Nat /\ N * r <= N2 * MicroDenom
  <2> DEFINE a1 == AddMul(u.base, d.input)
             a2 == AddMul(u.cached, d.cacheRead)
             a3 == AddMul(u.written, d.cacheWrite)
             a4 == AddMul(u.output, d.output)
             b1 == AddMul(u.base, p.input)
             b2 == AddMul(u.cached, p.cacheRead)
             b3 == AddMul(u.written, p.cacheWrite)
             b4 == AddMul(u.output, p.output)
  <2>1. /\ a1 \in Nat /\ b1 \in Nat /\ a1 * r <= b1 * MicroDenom
        /\ a2 \in Nat /\ b2 \in Nat /\ a2 * r <= b2 * MicroDenom
        /\ a3 \in Nat /\ b3 \in Nat /\ a3 * r <= b3 * MicroDenom
        /\ a4 \in Nat /\ b4 \in Nat /\ a4 * r <= b4 * MicroDenom
    <3> HIDE DEF d, r
    <3> QED BY <1>2, <1>4, <1>5
  <2>2. e \in Nat
    <3>1. AddMul(u.audioIn, p.audioIn) \in Nat /\ AddMul(u.audioOut, p.audioOut) \in Nat
      BY <1>2, <1>4, <1>5
    <3> QED BY <3>1
  <2>3. N = a1 + a2 + a3 + a4 /\ N2 = b1 + b2 + b3 + b4 + e
    BY DEF Worth
  <2> HIDE DEF a1, a2, a3, a4, b1, b2, b3, b4, e, N, N2, r
  <2>4. MicroDenom \in Nat /\ r \in Nat
    BY <1>1
  <2>5. (a1 + a2 + a3 + a4) * r <= (b1 + b2 + b3 + b4 + e) * MicroDenom
    BY <2>1, <2>2, <2>4, SumCovers, Zenon
  <2>6. N \in Nat /\ N2 \in Nat
    BY ONLY <2>1, <2>2, <2>3
  <2> QED BY <2>2, <2>3, <2>5, <2>6, Zenon
<1>7. CalcTokenCredits(u, q, Percent) = CeilBigDiv(N * Percent, Percent * S)
  <2>1. /\ q.input = d.input /\ q.cacheRead = d.cacheRead /\ q.cacheWrite = d.cacheWrite
        /\ q.output = d.output /\ q.audioIn = 0 /\ q.audioOut = 0
    BY <1>1, <1>5
  <2>2. AddMul(u.audioIn, 0) = 0 /\ AddMul(u.audioOut, 0) = 0
    BY DEF AddMul
  <2>3. AtLeastBase(Percent) = Percent
    BY <1>1 DEF AtLeastBase
  <2> HIDE DEF q, d
  <2>4. CalcTokenCredits(u, q, Percent) =
           CeilBigDiv((Worth(u, d) + 0 + 0) * Percent, Percent * TokensPerUnit)
    BY <2>1, <2>2, <2>3, Zenon DEF CalcTokenCredits, Worth
  <2>5. Worth(u, d) + 0 + 0 = N
    BY <1>6
  <2> QED BY <2>4, <2>5, Zenon
<1>8. CalcTokenCredits(u, p, m) = CeilBigDiv(N2 * top, Percent * S)
  <2>1. AddMul(u.audioIn, p.audioIn) \in Nat /\ AddMul(u.audioOut, p.audioOut) \in Nat
    BY <1>2, <1>4, <1>5
  <2>2. CalcTokenCredits(u, p, m) =
           CeilBigDiv((Worth(u, p) + AddMul(u.audioIn, p.audioIn) + AddMul(u.audioOut, p.audioOut))
                        * top, Percent * S)
    BY Zenon DEF CalcTokenCredits, Worth
  <2>3. Worth(u, p) \in Nat
    <3>1. \A t \in Nat, x \in PriceNames : AddMul(t, p[x]) \in Nat
      BY <1>4
    <3>2. /\ AddMul(u.base, p.input) \in Nat /\ AddMul(u.cached, p.cacheRead) \in Nat
          /\ AddMul(u.written, p.cacheWrite) \in Nat /\ AddMul(u.output, p.output) \in Nat
      BY <1>2, <1>5, <3>1
    <3> QED BY <3>2 DEF Worth
  <2>4. Worth(u, p) + AddMul(u.audioIn, p.audioIn) + AddMul(u.audioOut, p.audioOut) = N2
    BY <2>1, <2>3
  <2> QED BY <2>2, <2>4, Zenon
<1>9. top \in Int /\ top >= Percent
  BY <1>1 DEF AtLeastBase
<1> HIDE DEF N, N2, top, r, d, S, q
<1> QED BY <1>1, <1>6, <1>7, <1>8, <1>9, RoundedCovers DEF q, d, r

\* The same for calls.
LEMMA CallsCovered ==
    ASSUME NEW l \in Listing, NEW p, Covers(p, l), NEW calls \in Nat, NEW m \in Int
    PROVE  ConvertMicroUSDToCredits(
              CalcPerCallCredits(calls, [l.dollars EXCEPT !.audioIn = 0, !.audioOut = 0], Percent),
              l.rate)
             <= CalcPerCallCredits(calls, p, m) + ConvertMicroUSDToCredits(1, l.rate)
<1> DEFINE d == l.dollars
           q == [d EXCEPT !.audioIn = 0, !.audioOut = 0]
           N == AddMul(calls, d.perCall)
           N2 == AddMul(calls, p.perCall)
           r == l.rate
           top == AtLeastBase(m)
<1>1. /\ d \in [PriceNames -> Nat] /\ r \in Nat /\ p \in [PriceNames -> Nat]
      /\ Percent \in Nat \ {0} /\ "perCall" \in PriceNames
  BY PricingAssumption DEF Listing, Covers, PriceNames
<1>2. d.perCall \in Nat /\ p.perCall \in Nat /\ d.perCall * r <= p.perCall * MicroDenom
  BY <1>1 DEF Covers
<1>3. N \in Nat /\ N2 \in Nat /\ N * r <= N2 * MicroDenom
  <2>1. N * r <= N2 * MicroDenom
    BY <1>1, <1>2, TermCovers, Zenon
  <2>2. N \in Nat /\ N2 \in Nat
    BY <1>2, AddMulProduct
  <2> QED BY <2>1, <2>2
<1>4. Percent = Percent * 1 /\ 1 \in Nat \ {0}
  BY <1>1
<1>5. q.perCall = d.perCall /\ AtLeastBase(Percent) = Percent
  BY <1>1 DEF AtLeastBase, PriceNames
<1>6. top \in Int /\ top >= Percent
  BY <1>1 DEF AtLeastBase
<1> HIDE DEF q
<1>7. CalcPerCallCredits(calls, q, Percent) = CeilBigDiv(N * Percent, Percent * 1)
  BY <1>4, <1>5, Zenon DEF CalcPerCallCredits
<1>8. CalcPerCallCredits(calls, p, m) = CeilBigDiv(N2 * top, Percent * 1)
  BY <1>4, Zenon DEF CalcPerCallCredits
<1> HIDE DEF N, N2, top, r, d
<1> QED BY <1>1, <1>3, <1>4, <1>6, <1>7, <1>8, RoundedCovers DEF q, d, r

-----------------------------------------------------------------------------
(* Bills *)

\* What is billed: calls, or tokens.
Billed(b, calls, u, l, m) ==
    /\ calls \in Nat /\ u \in TokenCounts /\ (u # NoTokens => calls = 0)
    /\ l \in Listing /\ m \in Nat \X Int
    /\ b = Bill(calls, u, l, m)

BillInv == bill = NoBill \/ \E calls, u, l, m : Billed(bill, calls, u, l, m)

LEMMA NoTokensCount == NoTokens \in TokenCounts
BY DEF NoTokens, TokenCounts

\* The cost of a bill is covered by its charge.
LEMMA BillCovered ==
    ASSUME NEW b, NEW calls, NEW u, NEW l, NEW m, Billed(b, calls, u, l, m)
    PROVE  /\ b.multiplier = EvaluatePeakMultiplier(PeakRules, m[1], m[2]) /\ b.moment = m
           /\ b.saturated \/ b.cost <= b.charge + ConvertMicroUSDToCredits(1, b.rate)
<1> DEFINE p == ListedPrice(l.dollars, l.rate, l.markup)
           top == EvaluatePeakMultiplier(PeakRules, m[1], m[2])
           q == [l.dollars EXCEPT !.audioIn = 0, !.audioOut = 0]
           k == ConvertMicroUSDToCredits(1, l.rate)
<1>1. /\ calls \in Nat /\ u \in TokenCounts /\ (u # NoTokens => calls = 0) /\ l \in Listing
      /\ b = Bill(calls, u, l, m)
  BY Zenon DEF Billed
<1>2. /\ b.charge = IF u = NoTokens THEN CalcPerCallCredits(calls, p, top)
                    ELSE CalcTokenCredits(u, p, top)
      /\ b.cost = ComputeCostCredits(calls, u, l.dollars, TRUE, l.rate)
      /\ b.multiplier = top /\ b.moment = m /\ b.rate = l.rate
      /\ b.saturated = \E x \in DOMAIN p : p[x] = MaxCredits
  <2> HIDE DEF p, top
  <2>1. b = [charge |-> IF u = NoTokens THEN CalcPerCallCredits(calls, p, top)
                        ELSE CalcTokenCredits(u, p, top),
             cost |-> ComputeCostCredits(calls, u, l.dollars, TRUE, l.rate),
             multiplier |-> top, moment |-> m, rate |-> l.rate,
             saturated |-> \E x \in DOMAIN p : p[x] = MaxCredits]
    BY <1>1, Zenon DEF Bill, p, top
  <2> QED BY ONLY <2>1
<1>3. top \in Int
  BY PricesAssumption, PeakIsHighest
<1>4. DOMAIN p = PriceNames /\ (~b.saturated => Covers(p, l))
  <2> HIDE DEF p
  <2>1. DOMAIN p = PriceNames /\ ((\A x \in PriceNames : p[x] # MaxCredits) => Covers(p, l))
    BY <1>1, ListedCovers, Zenon DEF p
  <2> QED BY <1>2, <2>1, Zenon
<1>5. ASSUME ~b.saturated PROVE b.cost <= b.charge + k
  <2>1. Covers(p, l)
    BY <1>4, <1>5
  <2>2. CASE calls > 0
    <3>1. u = NoTokens
      BY <1>1, <2>2
    <3>2. b.cost = ConvertMicroUSDToCredits(CalcPerCallCredits(calls, q, Percent), l.rate)
      BY <1>2, <2>2, Zenon DEF ComputeCostCredits
    <3>3. b.charge = CalcPerCallCredits(calls, p, top)
      BY <1>2, <3>1
    <3> HIDE DEF p, top, k
    <3> QED BY <1>1, <1>3, <2>1, <3>2, <3>3, CallsCovered, Zenon DEF k
  <2>3. CASE ~(calls > 0)
    <3>1. calls = 0
      BY <1>1, <2>3
    <3>2. b.cost = ConvertMicroUSDToCredits(CalcTokenCredits(u, q, Percent), l.rate)
      BY <1>2, <2>3, Zenon DEF ComputeCostCredits
    <3>3. b.cost <= CalcTokenCredits(u, p, top) + k
      <4> HIDE DEF p, top
      <4> QED BY <1>1, <1>3, <2>1, <3>2, TokensCovered, Zenon
    <3>4. CASE u # NoTokens
      BY <1>2, <3>3, <3>4
    <3>5. CASE u = NoTokens
      <4>1. AddMul(calls, p.perCall) = 0
        BY <3>1 DEF AddMul
      <4>2. b.charge = CeilBigDiv(0 * AtLeastBase(top), Percent)
        BY <1>2, <3>5, <4>1, Zenon DEF CalcPerCallCredits
      <4>3. 0 * AtLeastBase(top) = 0
        BY <1>3, PricingAssumption DEF AtLeastBase
      <4>4. b.charge = 0
        BY <4>2, <4>3 DEF CeilBigDiv
      <4>5. /\ AddMul(0, p.input) = 0 /\ AddMul(0, p.cacheRead) = 0 /\ AddMul(0, p.cacheWrite) = 0
            /\ AddMul(0, p.output) = 0 /\ AddMul(0, p.audioIn) = 0 /\ AddMul(0, p.audioOut) = 0
        BY DEF AddMul
      <4>6. /\ u.base = 0 /\ u.cached = 0 /\ u.written = 0 /\ u.output = 0
            /\ u.audioIn = 0 /\ u.audioOut = 0
        BY <3>5 DEF NoTokens
      <4>7. CalcTokenCredits(u, p, top) =
               CeilBigDiv((0 + 0 + 0 + 0 + 0 + 0) * AtLeastBase(top), Percent * TokensPerUnit)
        <5> HIDE DEF p, top
        <5> QED BY <4>5, <4>6, Zenon DEF CalcTokenCredits
      <4>8. CalcTokenCredits(u, p, top) = 0
        <5>1. (0 + 0 + 0 + 0 + 0 + 0) * AtLeastBase(top) = 0
          BY <4>3
        <5> QED BY <4>7, <5>1 DEF CeilBigDiv
      <4> HIDE DEF p, top, k
      <4> QED BY <3>3, <4>4, <4>8
    <3> QED BY <3>4, <3>5
  <2> QED BY <2>2, <2>3
<1> QED BY <1>2, <1>5

LEMMA LessNat == \A a, b \in Nat : Less(a, b) \in Nat
BY DEF Less

\* Whatever an upstream reports, what is settled are numbers of tokens.
LEMMA UsageCounts ==
    ASSUME Protocols, NEW r \in Replies(up)
    PROVE  UsageOf(r.answer, r.usage) \in TokenCounts
<1> DEFINE w == r.usage
           u == NormalizeUsage(up, w)
<1>1. /\ w.prompt \in Nat /\ w.cached \in Nat /\ w.written \in Nat /\ w.output \in Nat
      /\ w.audioIn \in Nat /\ w.audioOut \in Nat
  <2>1. w \in Usage
    BY RepliesAssumption DEF Protocols
  <2> QED BY <2>1 DEF Usage
<1>2. Len(r.answer.parts) \in Nat
  <2>1. \E T : r.answer.parts \in Seq(T)
    BY RepliesAssumption, Zenon DEF Protocols
  <2> QED BY <2>1, LenProperties
<1>3. u \in TokenCounts
  <2>1. w.cached + w.audioIn \in Nat
    BY <1>1
  <2>2. NormalizeOpenAIUsage(w) \in TokenCounts
    BY <1>1, <2>1, LessNat DEF NormalizeOpenAIUsage, TokenCounts
  <2>3. NormalizeAnthropicUsage(w) \in TokenCounts
    BY <1>1 DEF NormalizeAnthropicUsage, TokenCounts
  <2>4. NormalizeGeminiUsage(w) \in TokenCounts
    BY <1>1, LessNat DEF NormalizeGeminiUsage, TokenCounts
  <2> HIDE DEF w
  <2> QED BY <2>2, <2>3, <2>4, Zenon DEF NormalizeUsage, Protocols
<1>4. \A n \in Nat : EstimateTokensFromText(n) \in Nat
  <2> SUFFICES ASSUME NEW n \in Nat PROVE EstimateTokensFromText(n) \in Nat
    OBVIOUS
  <2>1. n \div 4 \in Nat
    BY Division
  <2> QED BY <2>1 DEF EstimateTokensFromText
<1>5. UsageOf(r.answer, w) = IF u # NoTokens THEN u
         ELSE [NoTokens EXCEPT !.base = EstimateTokensFromText(2),
                               !.output = EstimateTokensFromText(6 * Len(r.answer.parts))]
  BY Zenon DEF UsageOf
<1>6. /\ EstimateTokensFromText(2) \in Nat
      /\ EstimateTokensFromText(6 * Len(r.answer.parts)) \in Nat
  <2>1. 2 \in Nat /\ 6 * Len(r.answer.parts) \in Nat
    BY <1>2
  <2> QED BY <1>4, <2>1, Zenon
<1>7. [NoTokens EXCEPT !.base = EstimateTokensFromText(2),
                       !.output = EstimateTokensFromText(6 * Len(r.answer.parts))] \in TokenCounts
  BY <1>6, NoTokensCount DEF TokenCounts
<1> HIDE DEF u, w
<1> QED BY <1>3, <1>5, <1>7, Zenon DEF w

\* A bill is made in the step that writes it, and no step changes one.
LEMMA BillSteps == Protocols /\ BillInv /\ [Next]_vars => BillInv'
<1> SUFFICES ASSUME Protocols, BillInv, [Next]_vars PROVE BillInv'
  OBVIOUS
<1>1. CASE bill' = bill
  BY <1>1, Zenon DEF BillInv
<1>2. CASE JsonResponse
  <2>1. PICK r \in Replies(up) :
           /\ whole' = [sent |-> r.answer, got |-> TransformResponse(down, up, r.answer),
                        reported |-> r.usage, settled |-> UsageOf(r.answer, r.usage)]
           /\ bill' = Bill(0, whole'.settled, r.listing, r.moment)
    BY <1>2, Zenon DEF JsonResponse
  <2>2. whole'.settled = UsageOf(r.answer, r.usage)
    BY <2>1
  <2>3. r.listing \in Listing /\ r.moment \in Nat \X Int
    BY PricesAssumption, RepliesAssumption DEF Protocols
  <2>4. 0 \in Nat /\ UsageOf(r.answer, r.usage) \in TokenCounts
    BY UsageCounts
  <2>5. Billed(bill', 0, UsageOf(r.answer, r.usage), r.listing, r.moment)
    BY <2>1, <2>2, <2>3, <2>4, Zenon DEF Billed
  <2> QED BY <2>5, Zenon DEF BillInv
<1>3. CASE SimpleRelay
  <2>1. PICK asked \in CallCounts, returned \in CallCounts, l \in Listings, m \in Moments :
           bill' = Bill(BilledCalls(asked, returned), NoTokens, l, m)
    BY <1>3, Zenon DEF SimpleRelay
  <2>2. l \in Listing /\ m \in Nat \X Int /\ BilledCalls(asked, returned) \in Nat
    BY PricesAssumption DEF BilledCalls
  <2>3. Billed(bill', BilledCalls(asked, returned), NoTokens, l, m)
    BY <2>1, <2>2, NoTokensCount, Zenon DEF Billed
  <2> QED BY <2>3, Zenon DEF BillInv
<1>4. bill' = bill \/ JsonResponse \/ SimpleRelay
  <2>1. Ask \/ Forward \/ BeginStream => bill' = bill
    BY Zenon DEF Ask, Forward, BeginStream
  <2>2. \A p : NextChannel(p) => bill' = bill
    BY Zenon DEF NextChannel
  <2>3. UNCHANGED vars => bill' = bill
    BY Zenon DEF vars
  <2> QED BY <2>1, <2>2, <2>3, Zenon DEF Next
<1> QED BY <1>1, <1>2, <1>3, <1>4, Zenon

\* A bill of a request of any size, at any listing and any hour.
THEOREM PricesAreCovered == Spec => []PricesCover
<1>1. BillInv => PricesCover
  <2> SUFFICES ASSUME BillInv, bill # NoBill PROVE PricesCover
    BY Zenon DEF PricesCover
  <2>1. PICK calls, u, l, m : Billed(bill, calls, u, l, m)
    BY Zenon DEF BillInv
  <2>2. /\ bill.multiplier = EvaluatePeakMultiplier(PeakRules, bill.moment[1], bill.moment[2])
        /\ bill.saturated \/ bill.cost <= bill.charge + ConvertMicroUSDToCredits(1, bill.rate)
    BY <2>1, BillCovered
  <2> DEFINE day == bill.moment[1]
             minute == bill.moment[2]
             rate == Rate(PeakRules, day, minute)
             rules == {j \in DOMAIN PeakRules : /\ PeakRules[j].enabled /\ day \in PeakRules[j].days
                                                /\ minute \in PeakRules[j].start .. PeakRules[j].end - 1}
             all == {Percent} \cup {r.multiplier : r \in {PeakRules[i] : i \in rules}}
  <2>3. bill.moment = m /\ minute \in Int
    BY <2>1, BillCovered DEF Billed
  <2>4. \A i \in DOMAIN PeakRules :
           /\ i \in rules <=> Applies(PeakRules[i], day, minute)
           /\ rate[i] = IF i \in rules THEN PeakRules[i].multiplier ELSE Percent
    <3> SUFFICES ASSUME NEW i \in DOMAIN PeakRules
                 PROVE  i \in rules <=> Applies(PeakRules[i], day, minute)
      BY DEF Rate
    <3>1. PeakRules[i] \in PeakRule
      BY PricesAssumption
    <3> QED BY <2>3, <3>1 DEF Applies, PeakRule
  <2>5. /\ bill.multiplier = Percent \/ \E i \in DOMAIN PeakRules : bill.multiplier = rate[i]
        /\ bill.multiplier >= Percent /\ \A i \in DOMAIN PeakRules : bill.multiplier >= rate[i]
    BY <2>2, PricesAssumption, PeakIsHighest
  <2>6. bill.multiplier \in all
    <3> HIDE DEF rate
    <3> QED BY <2>4, <2>5
  <2>7. \A x \in all : x <= bill.multiplier
    <3> SUFFICES ASSUME NEW i \in rules PROVE PeakRules[i].multiplier <= bill.multiplier
      BY <2>5
    <3>1. rate[i] = PeakRules[i].multiplier /\ i \in DOMAIN PeakRules
      BY <2>4
    <3> QED BY <2>5, <3>1
  <2> HIDE DEF rate
  <2> QED BY <2>2, <2>6, <2>7, Zenon DEF PricesCover
<1>2. Init => BillInv
  BY Zenon DEF Init, BillInv
<1>3. Protocols /\ BillInv /\ [Next]_vars => BillInv'
  BY BillSteps
<1> QED BY <1>1, <1>2, <1>3, ProtocolsKept, PTL DEF Spec
=============================================================================
