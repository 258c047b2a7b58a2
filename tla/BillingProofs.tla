---------------------------- MODULE BillingProofs ----------------------------
(***************************************************************************)
(* Proofs about BillingSession for any users, keys, requests, amounts,     *)
(* limits, timeouts, failures and clocks.                                  *)
(*                                                                         *)
(* The sums of the ledger are folds; their laws come first. Then the types *)
(* and that the ledger only grows. Then that a hold ends once, as long as  *)
(* the timeout guard of serve holds for every cleaner and handlers keep to *)
(* their deadlines: the inductive invariant is TerminationInv, by which a  *)
(* cleaner has in hand only precharges too old for their handlers to be    *)
(* still in flight, and whoever is in flight finds its hold not yet ended. *)
(*                                                                         *)
(* Every step changes the tables by one transaction of applyTx or not at   *)
(* all (OneTransaction). What a transaction adds to a sum over the entries *)
(* of some kind is what it books, if its entry is of that kind             *)
(* (TotalAfter); the rest, up to the refinement of CreditHold, is          *)
(* arithmetic.                                                             *)
(***************************************************************************)
EXTENDS BillingSession, BillingProperties, BillingRefinement, Functions,
        FiniteSetTheorems, TLAPS

-----------------------------------------------------------------------------
(* Sums *)

\* The element that is taken first.
First(s) == CHOOSE x \in s : TRUE

\* SumFunctionOnSet as a fold.
Adds == INSTANCE FoldProofs WITH Op <- LAMBDA x, y : x + y, Pick <- First

\* What holds of a set as soon as it holds of its smaller subsets holds of all.
LEMMA SubsetInduction ==
    ASSUME NEW S, IsFiniteSet(S), NEW W,
           \A T \in SUBSET S : (\A U \in SUBSET T : U # T => U \in W) => T \in W
    PROVE  \A T \in SUBSET S : T \in W
BY Zenon, Adds!SubsetInduction DEF IsFiniteSet, Adds!IsFiniteSet

\* The definitions of the community modules, expanded.
LEMMA SumIsFold ==
    ASSUME NEW f, NEW S
    PROVE  SumFunctionOnSet(f, S) = Adds!Fold(f, 0, S)
BY Zenon DEF SumFunctionOnSet, FoldFunctionOnSet, MapThenFoldSet, First,
    Adds!Fold, Adds!MapThenFoldSet

LEMMA FirstIn ==
    ASSUME NEW s, s # {}
    PROVE  /\ First(s) \in s
           /\ s \ {First(s)} \in SUBSET s
           /\ s \ {First(s)} # s
BY DEF First

\* A sum is the first value and the sum of the others.
LEMMA SumRest ==
    ASSUME NEW S, IsFiniteSet(S), NEW f
    PROVE  SumFunctionOnSet(f, S) =
              IF S = {} THEN 0
              ELSE f[First(S)] + SumFunctionOnSet(f, S \ {First(S)})
<1>1. Adds!PicksFrom(S)
  BY Zenon, FirstIn DEF Adds!PicksFrom, IsFiniteSet, Adds!IsFiniteSet
<1>2. Adds!Fold(f, 0, S) =
         IF S = {} THEN 0 ELSE f[First(S)] + Adds!Fold(f, 0, S \ {First(S)})
  BY Zenon, <1>1, Adds!FoldRest
<1> QED BY <1>2, SumIsFold

-----------------------------------------------------------------------------
(* Laws of sums *)

\* Nothing adds up to 0.
LEMMA SumEmpty == \A f : SumFunctionOnSet(f, {}) = 0
BY SumRest, FS_EmptySet

\* A sum depends on the values in the set only.
LEMMA SumSame ==
    ASSUME NEW S, IsFiniteSet(S), NEW f, NEW g, \A x \in S : f[x] = g[x]
    PROVE  SumFunctionOnSet(f, S) = SumFunctionOnSet(g, S)
<1> DEFINE W == {T \in SUBSET S : SumFunctionOnSet(f, T) = SumFunctionOnSet(g, T)}
<1>1. ASSUME NEW T \in SUBSET S, \A U \in SUBSET T : U # T => U \in W
      PROVE  T \in W
  <2>1. IsFiniteSet(T)
    BY FS_Subset
  <2>2. CASE T = {}
    BY <2>2, SumEmpty
  <2>3. CASE T # {}
    <3>1. T \ {First(T)} \in W /\ f[First(T)] = g[First(T)]
      BY <1>1, <2>3, FirstIn
    <3>2. SumFunctionOnSet(f, T \ {First(T)}) = SumFunctionOnSet(g, T \ {First(T)})
      BY <3>1
    <3> QED BY <2>1, <2>3, <3>1, <3>2, SumRest
  <2> QED BY <2>2, <2>3
<1>2. \A T \in SUBSET S : T \in W
  <2> HIDE DEF W
  <2> QED BY <1>1, SubsetInduction
<1> QED BY <1>2

\* A sum stays in a set of numbers that is closed under addition.
LEMMA SumClosed ==
    ASSUME NEW A, 0 \in A, \A a, b \in A : a + b \in A,
           NEW S, IsFiniteSet(S), NEW f, \A x \in S : f[x] \in A
    PROVE  SumFunctionOnSet(f, S) \in A
<1> DEFINE W == {T \in SUBSET S : SumFunctionOnSet(f, T) \in A}
<1>1. ASSUME NEW T \in SUBSET S, \A U \in SUBSET T : U # T => U \in W
      PROVE  T \in W
  <2>1. IsFiniteSet(T)
    BY FS_Subset
  <2>2. CASE T = {}
    BY <2>2, SumEmpty
  <2>3. CASE T # {}
    <3>1. T \ {First(T)} \in W /\ f[First(T)] \in A
      BY <1>1, <2>3, FirstIn
    <3>2. SumFunctionOnSet(f, T \ {First(T)}) \in A
      BY <3>1
    <3>3. SumFunctionOnSet(f, T) = f[First(T)] + SumFunctionOnSet(f, T \ {First(T)})
      BY <2>1, <2>3, SumRest
    <3>4. SumFunctionOnSet(f, T) \in A
      BY <3>1, <3>2, <3>3
    <3> QED BY <3>4
  <2> QED BY <2>2, <2>3
<1>2. \A T \in SUBSET S : T \in W
  <2> HIDE DEF W
  <2> QED BY <1>1, SubsetInduction
<1> QED BY <1>2

LEMMA SumInt ==
    ASSUME NEW S, IsFiniteSet(S), NEW f, \A x \in S : f[x] \in Int
    PROVE  SumFunctionOnSet(f, S) \in Int
<1>1. 0 \in Int /\ \A a, b \in Int : a + b \in Int
  OBVIOUS
<1> QED BY <1>1, SumClosed

LEMMA SumNat ==
    ASSUME NEW S, IsFiniteSet(S), NEW f, \A x \in S : f[x] \in Nat
    PROVE  SumFunctionOnSet(f, S) \in Nat
<1>1. 0 \in Nat /\ \A a, b \in Nat : a + b \in Nat
  OBVIOUS
<1> QED BY <1>1, SumClosed

LEMMA SumZero ==
    ASSUME NEW S, IsFiniteSet(S), NEW f, \A x \in S : f[x] = 0
    PROVE  SumFunctionOnSet(f, S) = 0
<1>1. 0 \in {0} /\ (\A a, b \in {0} : a + b \in {0}) /\ \A x \in S : f[x] \in {0}
  OBVIOUS
<1>2. SumFunctionOnSet(f, S) \in {0}
  BY <1>1, SumClosed
<1> QED BY <1>2

\* Whichever element is taken first, the sum is the same.
LEMMA SumTake ==
    ASSUME NEW S, IsFiniteSet(S), NEW x \in S, NEW f, \A y \in S : f[y] \in Int
    PROVE  SumFunctionOnSet(f, S) = SumFunctionOnSet(f, S \ {x}) + f[x]
<1> DEFINE SumOf(T) == SumFunctionOnSet(f, T)
           W == {T \in SUBSET S : \A y \in T : SumOf(T) = SumOf(T \ {y}) + f[y]}
<1>0. \A T \in SUBSET S : IsFiniteSet(T) /\ SumOf(T) \in Int
  BY FS_Subset, SumInt
<1>1. ASSUME NEW T \in SUBSET S, \A U \in SUBSET T : U # T => U \in W
      PROVE  T \in W
  <2> SUFFICES ASSUME NEW y \in T PROVE SumOf(T) = SumOf(T \ {y}) + f[y]
    OBVIOUS
  <2> DEFINE z == First(T)
             both == T \ {y, z}
  <2>1. z \in T /\ SumOf(T) = f[z] + SumOf(T \ {z})
    BY <1>0, FirstIn, SumRest
  <2>2. CASE y = z
    BY <1>0, <2>1, <2>2
  <2>3. CASE y # z
    <3>1. T \ {z} \in W /\ T \ {y} \in W
      BY <1>1, <2>1
    <3>2. (T \ {z}) \ {y} = both /\ (T \ {y}) \ {z} = both /\ both \in SUBSET S
      BY <2>1
    <3>3. SumOf(T \ {z}) = SumOf(both) + f[y]
      BY <2>3, <3>1, <3>2
    <3>4. SumOf(T \ {y}) = SumOf(both) + f[z]
      BY <2>1, <2>3, <3>1, <3>2
    <3>5. SumOf(both) \in Int /\ f[y] \in Int /\ f[z] \in Int
      BY <1>0, <2>1, <3>2
    <3> HIDE DEF SumOf, both, z
    <3> QED BY <2>1, <3>3, <3>4, <3>5
  <2> QED BY <2>2, <2>3
<1>2. \A T \in SUBSET S : T \in W
  <2> HIDE DEF W
  <2> QED BY <1>1, SubsetInduction
<1> QED BY <1>2

\* One more element, in a function that may have grown.
LEMMA SumAdd ==
    ASSUME NEW S, IsFiniteSet(S), NEW x, x \notin S, NEW f, NEW g,
           \A y \in S : f[y] \in Int /\ g[y] = f[y], g[x] \in Int
    PROVE  /\ SumFunctionOnSet(g, S \cup {x}) = SumFunctionOnSet(f, S) + g[x]
           /\ IsFiniteSet(S \cup {x})
<1> DEFINE T == S \cup {x}
<1>1. IsFiniteSet(T) /\ x \in T /\ T \ {x} = S /\ \A y \in T : g[y] \in Int
  BY FS_AddElement
<1>2. SumFunctionOnSet(g, T) = SumFunctionOnSet(g, T \ {x}) + g[x]
  <2> HIDE DEF T
  <2> QED BY <1>1, SumTake
<1>3. SumFunctionOnSet(g, S) = SumFunctionOnSet(f, S)
  BY SumSame
<1> QED BY <1>1, <1>2, <1>3

\* One value changes.
LEMMA SumUpdate ==
    ASSUME NEW S, IsFiniteSet(S), NEW x \in S, NEW f, NEW g,
           \A y \in S : f[y] \in Int /\ (y # x => g[y] = f[y]), g[x] \in Int
    PROVE  SumFunctionOnSet(g, S) = SumFunctionOnSet(f, S) - f[x] + g[x]
<1> DEFINE T == S \ {x}
<1>1. IsFiniteSet(T) /\ \A y \in S : g[y] \in Int
  BY FS_RemoveElement
<1>2. SumFunctionOnSet(g, S) = SumFunctionOnSet(g, T) + g[x]
  BY <1>1, SumTake
<1>3. SumFunctionOnSet(f, S) = SumFunctionOnSet(f, T) + f[x]
  BY SumTake
<1>4. SumFunctionOnSet(g, T) = SumFunctionOnSet(f, T)
  BY <1>1, SumSame
<1>5. SumFunctionOnSet(f, T) \in Int /\ f[x] \in Int
  BY <1>1, SumInt
<1> HIDE DEF T
<1> QED BY <1>2, <1>3, <1>4, <1>5

\* A sum over two sets that share nothing is the sum of their sums.
LEMMA SumUnion ==
    ASSUME NEW S, IsFiniteSet(S), NEW T, IsFiniteSet(T), S \cap T = {}, NEW f,
           \A y \in S \cup T : f[y] \in Int
    PROVE  /\ SumFunctionOnSet(f, S \cup T) = SumFunctionOnSet(f, S) + SumFunctionOnSet(f, T)
           /\ IsFiniteSet(S \cup T)
<1> DEFINE SumOf(U) == SumFunctionOnSet(f, U)
           V == {U \in SUBSET T : SumOf(S \cup U) = SumOf(S) + SumOf(U)}
<1>0. \A U \in SUBSET T : IsFiniteSet(U) /\ IsFiniteSet(S \cup U) /\ SumOf(U) \in Int
  BY FS_Subset, FS_Union, SumInt
<1>1. SumOf(S) \in Int
  BY SumInt
<1>2. ASSUME NEW U \in SUBSET T, \A R \in SUBSET U : R # U => R \in V
      PROVE  U \in V
  <2>1. CASE U = {}
    <3>1. S \cup U = S /\ SumOf(U) = 0
      BY <2>1, SumEmpty
    <3>2. SumOf(S \cup U) = SumOf(S) + SumOf(U)
      <4> HIDE DEF SumOf
      <4>1. SumOf(S \cup U) = SumOf(S)
        BY Zenon, <3>1
      <4>2. SumOf(S) = SumOf(S) + SumOf(U)
        BY <1>1, <3>1
      <4> QED BY <4>1, <4>2
    <3> QED BY <3>2
  <2>2. CASE U # {}
    <3> DEFINE x == First(U)
               R == U \ {x}
    <3>1. x \in U /\ R \in V /\ f[x] \in Int
      BY <1>2, <2>2, FirstIn
    <3>2. SumOf(S \cup R) = SumOf(S) + SumOf(R)
      BY <3>1
    <3>3. (S \cup U) \ {x} = S \cup R
      BY <3>1
    <3>4. SumOf(S \cup U) = SumOf(S \cup R) + f[x]
      <4>1. IsFiniteSet(S \cup U) /\ x \in S \cup U /\ \A y \in S \cup U : f[y] \in Int
        BY <1>0, <3>1
      <4> QED BY <3>3, <4>1, SumTake
    <3>5. SumOf(U) = SumOf(R) + f[x]
      BY <1>0, <3>1, SumTake
    <3>6. SumOf(R) \in Int
      BY <1>0
    <3>7. SumOf(S \cup U) = SumOf(S) + SumOf(U)
      <4> HIDE DEF SumOf, x, R
      <4> QED BY <1>1, <3>1, <3>2, <3>4, <3>5, <3>6
    <3> QED BY <3>7
  <2> QED BY <2>1, <2>2
<1>3. \A U \in SUBSET T : U \in V
  <2> HIDE DEF V
  <2> QED BY <1>2, SubsetInduction
<1> QED BY <1>0, <1>3
-----------------------------------------------------------------------------
(* What one transaction does to the tables *)

LEMMA UsageAdjustmentType ==
    ASSUME NEW r \in Requests, NEW type \in UsageTypes, NEW amount \in Int
    PROVE  UsageAdjustment(type, r, amount) \in Adjustment
BY LedgerAssumption DEF UsageAdjustment, Adjustment, EntryTypes, UsageTypes

\* The clamp keeps balances non-negative, GREATEST keeps credit_used so.
LEMMA ApplyTxType ==
    ASSUME LedgerTypeOK, NEW adj \in Adjustment,
           adj.type = "consume" => adj.amount <= 0, ApplyTx(adj)
    PROVE  TablesTypeOK'
<1> DEFINE u == adj.user
           a == Effective(adj)
           e == [user |-> u, type |-> adj.type, amount |-> a,
                 balance_after |-> balance[u] + a,
                 ref |-> adj.ref, req |-> adj.req, at |-> now]
<1>1. /\ u \in Users /\ adj.amount \in Int /\ adj.type \in EntryTypes
      /\ adj.ref \in Keys \cup Codes \cup {None}
      /\ adj.req \in Requests \cup Grants \cup {None}
      /\ AffectsUsed(adj) => adj.ref \in Keys /\ adj.req \in Requests
  BY DEF Adjustment, AffectsUsed
<1>2. /\ balance \in [Users -> Nat] /\ used \in [Users -> Int]
      /\ keyUsed \in [Keys -> Nat]
      /\ spend \in [Users -> [Days -> Int]] /\ keySpend \in [Keys -> [Days -> Int]]
      /\ ledger \in Seq(Entry) /\ now \in Time /\ DayOf[now] \in Days
  BY LedgerAssumption DEF LedgerTypeOK, TablesTypeOK
<1>3. a \in Int /\ balance[u] + a \in Nat /\ (adj.type = "consume" => a <= 0)
  BY <1>1, <1>2 DEF Effective
<1>4. balance' \in [Users -> Nat]
  BY <1>1, <1>2, <1>3 DEF ApplyTx
<1>5. ledger' \in Seq(Entry)
  <2>1. e \in Entry
    BY <1>1, <1>2, <1>3 DEF Entry, AffectsUsed
  <2>2. ledger' = Append(ledger, e)
    BY DEF ApplyTx
  <2> QED BY <1>2, <2>1, <2>2
<1>6. keyStatus' \in [Keys -> {"enabled", "depleted"}]
  BY DEF ApplyTx, LedgerTypeOK, TablesTypeOK
<1>7. CASE AffectsUsed(adj)
  <2>1. KeyUsedAfter(adj) \in Nat
    BY <1>1, <1>2, <1>3, <1>7 DEF KeyUsedAfter
  <2>2. keyUsed' \in [Keys -> Nat]
    BY <1>1, <1>2, <1>7, <2>1 DEF ApplyTx
  <2>3. used' \in [Users -> Int]
    BY <1>1, <1>2, <1>3, <1>7 DEF ApplyTx
  <2>4. spend' \in [Users -> [Days -> Int]]
    <3>1. [spend[u] EXCEPT ![DayOf[now]] = @ - a] \in [Days -> Int]
      BY <1>1, <1>2, <1>3, <1>7
    <3>2. spend' = [spend EXCEPT ![u] = [spend[u] EXCEPT ![DayOf[now]] = @ - a]]
      BY <1>7 DEF ApplyTx
    <3> QED BY <1>1, <1>2, <1>7, <3>1, <3>2
  <2>5. keySpend' \in [Keys -> [Days -> Int]]
    <3>1. [keySpend[adj.ref] EXCEPT ![DayOf[now]] = @ - a] \in [Days -> Int]
      BY <1>1, <1>2, <1>3, <1>7
    <3>2. keySpend' = [keySpend EXCEPT ![adj.ref] = [keySpend[adj.ref] EXCEPT ![DayOf[now]] = @ - a]]
      BY <1>7 DEF ApplyTx
    <3> QED BY <1>1, <1>2, <1>7, <3>1, <3>2
  <2> QED BY <1>4, <1>5, <1>6, <2>2, <2>3, <2>4, <2>5 DEF TablesTypeOK
<1>8. CASE ~AffectsUsed(adj)
  BY <1>2, <1>4, <1>5, <1>6, <1>8 DEF ApplyTx, TablesTypeOK
<1> QED BY <1>7, <1>8

LEMMA ApplyOnceType ==
    ASSUME LedgerTypeOK, NEW adj \in Adjustment,
           adj.type = "consume" => adj.amount <= 0, ApplyOnce(adj)
    PROVE  TablesTypeOK'
BY ApplyTxType DEF ApplyOnce, tables, LedgerTypeOK, TablesTypeOK

LEMMA MarkDepletedType ==
    ASSUME LedgerTypeOK, NEW adj, MarkDepleted(adj)
    PROVE  TablesTypeOK'
BY DEF MarkDepleted, LedgerTypeOK, TablesTypeOK

LEMMA TablesUnchanged ==
    ASSUME LedgerTypeOK, UNCHANGED tables
    PROVE  TablesTypeOK'
BY DEF tables, LedgerTypeOK, TablesTypeOK

LEMMA LedgerUnchanged ==
    ASSUME LedgerTypeOK, UNCHANGED ledgerVars
    PROVE  LedgerTypeOK'
BY TablesUnchanged DEF ledgerVars, LedgerTypeOK

\* A write of Service.Apply, seen or unseen, done or not.
LEMMA WriteType ==
    ASSUME LedgerTypeOK, NEW adj \in Adjustment,
           adj.type = "consume" => adj.amount <= 0,
           Acknowledged(adj) \/ Failed(adj), UNCHANGED <<codes, now>>,
           faults \in 0..MaxFaults
    PROVE  LedgerTypeOK' /\ faults' \in 0..MaxFaults
BY ApplyOnceType, TablesUnchanged, SessionAssumption
   DEF Acknowledged, Failed, Fault, LedgerTypeOK

LEMMA FinishLogType ==
    ASSUME NEW r \in Requests, NEW status \in UsageStatus, NEW charged \in Nat,
           logQueue \in Seq([req : Requests, status : UsageStatus, charged : Nat]),
           FinishLog(r, status, charged)
    PROVE  logQueue' \in Seq([req : Requests, status : UsageStatus, charged : Nat])
<1> DEFINE record == [req |-> r, status |-> status, charged |-> charged]
           Record == [req : Requests, status : UsageStatus, charged : Nat]
<1>1. record \in Record /\ logQueue \in Seq(Record)
  OBVIOUS
<1>2. logQueue' = Append(logQueue, record) \/ logQueue' = logQueue
  BY DEF FinishLog
<1>3. logQueue' \in Seq(Record)
  <2> HIDE DEF record, Record
  <2> QED BY <1>1, <1>2
<1> QED BY <1>3

\* The ledger only grows.
Grows ==
    /\ DOMAIN ledger \subseteq DOMAIN ledger'
    /\ \A i \in DOMAIN ledger : ledger'[i] = ledger[i]

LEMMA ApplyTxGrows ==
    ASSUME ledger \in Seq(Entry), NEW adj, ApplyTx(adj)
    PROVE  Grows
BY DEF ApplyTx, Grows

LEMMA UnchangedGrows ==
    ASSUME UNCHANGED ledger
    PROVE  Grows
BY DEF Grows

LEMMA WriteGrows ==
    ASSUME ledger \in Seq(Entry), NEW adj, Acknowledged(adj) \/ Failed(adj)
    PROVE  Grows
BY ApplyTxGrows, UnchangedGrows DEF Acknowledged, Failed, ApplyOnce, tables

-----------------------------------------------------------------------------
(* Types *)

\* A cleaner works on precharges of the ledger, which is what makes the
\* adjustment it books well-formed.
BatchOfConsumes ==
    \A c \in Cleaners : \A i \in batch[c] :
        i \in DOMAIN ledger /\ ledger[i].type = "consume"

TypeInv == TypeOK /\ BatchOfConsumes

LEMMA BatchKept ==
    ASSUME BatchOfConsumes, UNCHANGED batch, Grows
    PROVE  BatchOfConsumes'
BY DEF BatchOfConsumes, Grows

LEMMA TypeInit == Init => TypeInv
<1> SUFFICES ASSUME Init PROVE TypeInv
  OBVIOUS
<1>1. LedgerTypeOK
  BY LedgerAssumption DEF Init, LedgerInit, LedgerTypeOK, TablesTypeOK, Time
<1>2. BatchOfConsumes
  BY DEF Init, BatchOfConsumes
<1> QED
  BY <1>1, <1>2, SessionAssumption
     DEF Init, TypeInv, TypeOK, Handler, SessionState

LEMMA SessionTypeStep ==
    ASSUME TypeInv, NEW r \in Requests, Session(r)
    PROVE  TypeOK'
<1> USE DEF TypeInv
<1>1. LedgerTypeOK /\ faults \in 0..MaxFaults
  BY DEF TypeOK
<1>2. CASE Authenticate(r)
  BY <1>1, <1>2, LedgerUnchanged DEF Authenticate, TypeOK, logVars, Handler
<1>3. ASSUME NEW amount \in PrechargeAmounts
      PROVE  /\ ConsumeAdjustment(r, amount) \in Adjustment
             /\ ConsumeAdjustment(r, amount).amount <= 0
             /\ amount \in Nat
  <2>1. amount \in Nat /\ -amount \in Int /\ -amount <= 0
    BY SessionAssumption
  <2> QED
    BY <2>1, UsageAdjustmentType DEF ConsumeAdjustment, UsageAdjustment, UsageTypes
<1>4. ASSUME NEW amount \in PrechargeAmounts, Precharge(r, amount)
      PROVE  TypeOK'
  <2>1. LedgerTypeOK' /\ faults' \in 0..MaxFaults
    BY <1>1, <1>3, <1>4, WriteType DEF Precharge
  <2>2. now + UpstreamTimeout \in Nat
    BY <1>1, SessionAssumption DEF LedgerTypeOK, Time
  <2> QED
    BY <1>3, <1>4, <2>1, <2>2 DEF Precharge, TypeOK, logVars, Handler, SessionState
<1>5. ASSUME NEW amount \in PrechargeAmounts, RejectPrecharge(r, amount)
      PROVE  TypeOK'
  <2> DEFINE adj == ConsumeAdjustment(r, amount)
  <2>1. LedgerTypeOK' /\ faults' \in 0..MaxFaults
    <3>1. CASE Refusal(adj) /\ UNCHANGED faults
      BY <1>1, <1>5, <3>1, MarkDepletedType, TablesUnchanged
         DEF RejectPrecharge, Refusal, LedgerTypeOK
    <3>2. CASE Failed(adj)
      BY <1>1, <1>3, <1>5, <3>2, WriteType DEF RejectPrecharge
    <3> QED BY <1>5, <3>1, <3>2 DEF RejectPrecharge
  <2>2. FinishLog(r, "failed", 0)
    BY <1>5 DEF RejectPrecharge
  <2> QED
    BY <1>5, <2>1, <2>2, FinishLogType DEF RejectPrecharge, TypeOK, UsageStatus, Handler
<1>6. CASE Resend(r)
  BY <1>1, <1>6, LedgerUnchanged DEF Resend, TypeOK, logVars, Handler, SessionState
<1>7. CASE Stall(r)
  BY <1>1, <1>7, LedgerUnchanged DEF Stall, TypeOK, logVars, Handler
<1>8. ASSUME NEW amount \in FinalAmounts, BeginSettle(r, amount)
      PROVE  TypeOK'
  <2>1. amount \in Nat /\ now + SettleWindow \in Nat
    BY <1>1, SessionAssumption DEF LedgerTypeOK, Time
  <2> QED
    BY <1>1, <1>8, <2>1, LedgerUnchanged DEF BeginSettle, TypeOK, logVars, Handler
<1>9. CASE Settle(r)
  <2>1. SettleAdjustment(r) \in Adjustment /\ SettleAdjustment(r).type # "consume"
    <3>1. precharged[r] - final[r] \in Int
      BY DEF TypeOK
    <3> QED BY <3>1, UsageAdjustmentType DEF SettleAdjustment, UsageAdjustment, UsageTypes
  <2>2. LedgerTypeOK' /\ faults' \in 0..MaxFaults
    BY <1>1, <1>9, <2>1, WriteType DEF Settle
  <2>3. \E status \in UsageStatus, charged \in Nat : FinishLog(r, status, charged)
    BY <1>9 DEF Settle, TypeOK, UsageStatus
  <2> QED
    BY <1>9, <2>2, <2>3, FinishLogType DEF Settle, TypeOK, Handler, SessionState
<1>10. ASSUME Refund(r), UNCHANGED <<codes, now>>
       PROVE  /\ LedgerTypeOK' /\ faults' \in 0..MaxFaults
              /\ state' \in [Requests -> SessionState]
  <2>1. RefundAdjustment(r) \in Adjustment /\ RefundAdjustment(r).type # "consume"
    <3>1. precharged[r] \in Int
      BY DEF TypeOK
    <3> QED BY <3>1, UsageAdjustmentType DEF RefundAdjustment, UsageAdjustment, UsageTypes
  <2>2. state' \in [Requests -> SessionState]
    BY <1>10 DEF Refund, TypeOK, SessionState
  <2>3. CASE UNCHANGED <<tables, faults>>
    BY <1>1, <1>10, <2>2, <2>3, TablesUnchanged DEF LedgerTypeOK
  <2>4. CASE Acknowledged(RefundAdjustment(r)) \/ Failed(RefundAdjustment(r))
    BY <1>1, <1>10, <2>1, <2>2, <2>4, WriteType
  <2> QED BY <1>10, <2>3, <2>4 DEF Refund
<1>11. CASE UpstreamFailed(r)
  <2>1. FinishLog(r, "refunded", 0)
    BY <1>11 DEF UpstreamFailed
  <2> QED
    BY <1>10, <1>11, <2>1, FinishLogType DEF UpstreamFailed, TypeOK, UsageStatus, Handler
<1>12. CASE HandlerPanic(r)
  BY <1>1, <1>12, LedgerUnchanged, SessionAssumption
     DEF HandlerPanic, TypeOK, Fault, logVars, Handler
<1>13. CASE EnsureFinal(r)
  BY <1>10, <1>13 DEF EnsureFinal, TypeOK, logVars, Handler
<1> QED
  BY <1>2, <1>4, <1>5, <1>6, <1>7, <1>8, <1>9, <1>11, <1>12, <1>13 DEF Session

LEMMA SessionGrows ==
    ASSUME ledger \in Seq(Entry), NEW r \in Requests, Session(r)
    PROVE  Grows /\ UNCHANGED batch
<1>1. ASSUME Refund(r) PROVE Grows
  BY <1>1, WriteGrows, UnchangedGrows DEF Refund, tables
<1>2. ASSUME NEW amount \in PrechargeAmounts, Precharge(r, amount)
      PROVE  Grows /\ UNCHANGED batch
  BY <1>2, WriteGrows DEF Precharge
<1>3. ASSUME NEW amount \in PrechargeAmounts, RejectPrecharge(r, amount)
      PROVE  Grows /\ UNCHANGED batch
  BY <1>3, WriteGrows, UnchangedGrows DEF RejectPrecharge, Refusal, MarkDepleted, tables
<1>4. CASE Settle(r)
  BY <1>4, WriteGrows DEF Settle
<1>5. CASE UpstreamFailed(r) \/ EnsureFinal(r)
  BY <1>1, <1>5 DEF UpstreamFailed, EnsureFinal
<1>6. CASE \/ Authenticate(r) \/ Resend(r) \/ Stall(r) \/ HandlerPanic(r)
           \/ \E amount \in FinalAmounts : BeginSettle(r, amount)
  BY <1>6, UnchangedGrows
     DEF Authenticate, Resend, Stall, HandlerPanic, BeginSettle, ledgerVars, tables
<1> QED BY <1>2, <1>3, <1>4, <1>5, <1>6 DEF Session

\* The adjustment refundOrphan builds from a precharge row.
LEMMA OrphanAdjustmentType ==
    ASSUME LedgerTypeOK, NEW i \in DOMAIN ledger, ledger[i].type = "consume"
    PROVE  /\ OrphanAdjustment(i) \in Adjustment
           /\ OrphanAdjustment(i).type = "refund"
           /\ OrphanAdjustment(i).req = ledger[i].req
<1>1. ledger[i] \in Entry
  BY DEF LedgerTypeOK, TablesTypeOK
<1> QED
  BY <1>1 DEF OrphanAdjustment, Adjustment, Entry, EntryTypes, UsageTypes

LEMMA RefundOrphanStep ==
    ASSUME TypeInv, NEW c \in Cleaners, RefundOrphan(c)
    PROVE  TypeOK' /\ Grows /\ \A d \in Cleaners : batch'[d] \subseteq batch[d]
<1> USE DEF TypeInv
<1>1. PICK i \in batch[c] :
        /\ \/ Acknowledged(OrphanAdjustment(i)) \/ Failed(OrphanAdjustment(i))
           \/ Fault /\ ApplyOnce(OrphanAdjustment(i))
        /\ \/ batch' = [batch EXCEPT ![c] = @ \ {i}]
           \/ batch' = [batch EXCEPT ![c] = {}]
        /\ logs' = logs \/ UpsertRefunded(OrphanAdjustment(i).req)
  BY DEF RefundOrphan, ApplyOnce
<1>2. i \in DOMAIN ledger /\ ledger[i].type = "consume"
  BY DEF BatchOfConsumes
<1>3. LedgerTypeOK /\ faults \in 0..MaxFaults /\ batch \in [Cleaners -> SUBSET Nat]
  BY DEF TypeOK
<1>4. Acknowledged(OrphanAdjustment(i)) \/ Failed(OrphanAdjustment(i))
  BY <1>1 DEF Failed
<1>5. LedgerTypeOK' /\ faults' \in 0..MaxFaults
  BY <1>2, <1>3, <1>4, OrphanAdjustmentType, WriteType DEF RefundOrphan
<1>6. Grows
  BY <1>3, <1>4, WriteGrows DEF LedgerTypeOK, TablesTypeOK
<1>7. /\ batch' \in [Cleaners -> SUBSET Nat]
      /\ \A d \in Cleaners : batch'[d] \subseteq batch[d]
  BY <1>1, <1>3
<1>8. logs' \in [Requests -> {None} \cup [status : UsageStatus, charged : Nat]]
  <2> DEFINE Row == [status : UsageStatus, charged : Nat]
             row == [status |-> "refunded", charged |-> 0]
             r == OrphanAdjustment(i).req
  <2>1. row \in Row /\ logs \in [Requests -> {None} \cup Row]
    BY DEF TypeOK, UsageStatus
  <2>2. logs' = logs \/ logs' = [logs EXCEPT ![r] = row]
    BY <1>1 DEF UpsertRefunded
  <2>3. logs' \in [Requests -> {None} \cup Row]
    <3> HIDE DEF row, Row, r
    <3> QED BY <2>1, <2>2
  <2> QED BY <2>3
<1> QED
  BY <1>5, <1>6, <1>7, <1>8 DEF RefundOrphan, sessionVars, TypeOK

LEMMA AccountStep ==
    ASSUME LedgerTypeOK, AccountOperation
    PROVE  LedgerTypeOK' /\ Grows
<1> USE DEF LedgerTypeOK
<1>1. ledger \in Seq(Entry)
  BY DEF TablesTypeOK
<1>2. ASSUME NEW u \in Users, NEW amount \in GrantAmounts, NEW g \in Grants,
             Grant(u, amount, g)
      PROVE  LedgerTypeOK' /\ Grows
  <2> DEFINE adj == [user |-> u, type |-> IF amount < 0 THEN "revoke" ELSE "grant",
                     amount |-> amount, ref |-> None, req |-> g]
  <2>1. adj \in Adjustment /\ adj.type # "consume"
    BY LedgerAssumption DEF Adjustment, EntryTypes, UsageTypes
  <2>2. ApplyTx(adj) /\ UNCHANGED <<codes, now>>
    BY <1>2 DEF Grant
  <2> HIDE DEF adj
  <2> QED BY <1>1, <2>1, <2>2, ApplyTxType, ApplyTxGrows
<1>3. ASSUME NEW u \in Users, NEW c \in Codes, Redeem(u, c)
      PROVE  LedgerTypeOK' /\ Grows
  <2> DEFINE adj == [user |-> u, type |-> "redeem", amount |-> CodeCredits[c],
                     ref |-> c, req |-> None]
  <2>1. adj \in Adjustment /\ adj.type # "consume"
    BY LedgerAssumption DEF Adjustment, EntryTypes, UsageTypes
  <2>2. ApplyTx(adj) /\ UNCHANGED now
        /\ codes' \in [Codes -> {"unused", "used", "disabled"}]
    BY <1>3 DEF Redeem
  <2> HIDE DEF adj
  <2> QED BY <1>1, <2>1, <2>2, ApplyTxType, ApplyTxGrows
<1>4. ASSUME NEW c \in Codes, NEW status \in {"unused", "disabled"}, SetStatus(c, status)
      PROVE  LedgerTypeOK' /\ Grows
  <2>1. UNCHANGED tables /\ UNCHANGED now
        /\ codes' \in [Codes -> {"unused", "used", "disabled"}]
    BY <1>4 DEF SetStatus
  <2> QED BY <2>1, TablesUnchanged, UnchangedGrows DEF tables
<1> QED BY <1>2, <1>3, <1>4 DEF AccountOperation

LEMMA TypeStep == TypeInv /\ [Next]_vars => TypeInv'
<1> SUFFICES ASSUME TypeInv, [Next]_vars PROVE TypeInv'
  OBVIOUS
<1> USE DEF TypeInv
<1>1. LedgerTypeOK /\ ledger \in Seq(Entry) /\ now \in 0..MaxTime
  BY DEF TypeOK, LedgerTypeOK, TablesTypeOK, Time
<1>2. CASE \E r \in Requests : Session(r)
  BY <1>1, <1>2, SessionTypeStep, SessionGrows, BatchKept
<1>3. ASSUME NEW c \in Cleaners, Scan(c) PROVE TypeInv'
  <2>1. LedgerTypeOK' /\ Grows
    BY <1>1, <1>3, LedgerUnchanged, UnchangedGrows DEF Scan, ledgerVars, tables
  <2>2. Orphans(ThresholdOf[c]) \in SUBSET Nat
    BY <1>1 DEF Orphans
  <2>3. BatchOfConsumes'
    BY <1>3, <2>1 DEF Scan, BatchOfConsumes, Orphans, Grows, TypeOK
  <2> QED
    BY <1>3, <2>1, <2>2, <2>3 DEF Scan, TypeOK, sessionVars, logVars
<1>4. ASSUME NEW c \in Cleaners, RefundOrphan(c) PROVE TypeInv'
  BY <1>4, RefundOrphanStep DEF BatchOfConsumes, Grows
<1>5. CASE PersistLog
  <2> DEFINE Record == [req : Requests, status : UsageStatus, charged : Nat]
  <2>1. LedgerTypeOK' /\ Grows
    BY <1>1, <1>5, LedgerUnchanged, UnchangedGrows DEF PersistLog, ledgerVars, tables
  <2>2. logQueue \in Seq(Record) /\ logQueue # <<>>
    BY <1>5 DEF PersistLog, TypeOK
  <2>3. Head(logQueue) \in Record /\ Tail(logQueue) \in Seq(Record)
    <3> HIDE DEF Record
    <3> QED BY <2>2
  <2>4. logs' \in [Requests -> {None} \cup [status : UsageStatus, charged : Nat]]
    BY <1>5, <2>3 DEF PersistLog, TypeOK
  <2> QED
    BY <1>5, <2>1, <2>3, <2>4, BatchKept DEF PersistLog, TypeOK, sessionVars
<1>6. CASE LoseLog
  <2> DEFINE Record == [req : Requests, status : UsageStatus, charged : Nat]
  <2>1. LedgerTypeOK' /\ Grows
    BY <1>1, <1>6, LedgerUnchanged, UnchangedGrows DEF LoseLog, ledgerVars, tables
  <2>2. logQueue \in Seq(Record) /\ logQueue # <<>>
    BY <1>6 DEF LoseLog, TypeOK
  <2>3. Tail(logQueue) \in Seq(Record)
    <3> HIDE DEF Record
    <3> QED BY <2>2
  <2> QED
    BY <1>6, <2>1, <2>3, BatchKept, SessionAssumption
       DEF LoseLog, Fault, TypeOK, sessionVars
<1>7. CASE Crash
  BY <1>1, <1>7, LedgerUnchanged, UnchangedGrows, BatchKept, SessionAssumption
     DEF Crash, Fault, TypeOK, Handler, SessionState, ledgerVars, tables
<1>8. CASE Tick
  <2>1. TablesTypeOK' /\ Grows
    BY <1>1, <1>8, TablesUnchanged, UnchangedGrows DEF Tick, tables
  <2>2. now' \in Time
    BY <1>1, <1>8, LedgerAssumption DEF Tick, Time
  <2> QED
    BY <1>8, <2>1, <2>2, BatchKept DEF Tick, TypeOK, LedgerTypeOK, sessionVars, logVars
<1>9. CASE Account
  BY <1>1, <1>9, AccountStep, BatchKept DEF Account, TypeOK, sessionVars, logVars
<1>10. CASE UNCHANGED vars
  BY <1>1, <1>10, LedgerUnchanged, UnchangedGrows, BatchKept
     DEF vars, TypeOK, sessionVars, logVars, ledgerVars, tables
<1> QED
  BY <1>2, <1>3, <1>4, <1>5, <1>6, <1>7, <1>8, <1>9, <1>10 DEF Next

\* Every reachable state is well-typed: in particular balances and keys'
\* credit_used never go negative (the CHECK constraint on users never fires),
\* whatever is supplemented, refunded or revoked.
THEOREM TypeCorrect == Spec => []TypeOK
<1>1. Init => TypeInv
  BY TypeInit
<1>2. TypeInv /\ [Next]_vars => TypeInv'
  BY TypeStep
<1>3. TypeInv => TypeOK
  BY DEF TypeInv
<1> QED BY <1>1, <1>2, <1>3, PTL DEF Spec

-----------------------------------------------------------------------------
(* What is booked after one transaction *)

LEMMA ApplyTxAppends ==
    ASSUME ledger \in Seq(Entry), NEW adj, ApplyTx(adj)
    PROVE  /\ Grows
           /\ Len(ledger) + 1 \notin DOMAIN ledger
           /\ DOMAIN ledger' = DOMAIN ledger \cup {Len(ledger) + 1}
           /\ ledger'[Len(ledger) + 1].req = adj.req
           /\ ledger'[Len(ledger) + 1].type = adj.type
           /\ ledger'[Len(ledger) + 1].at = now
<1>1. ledger' = Append(ledger, [user |-> adj.user, type |-> adj.type,
                                amount |-> Effective(adj),
                                balance_after |-> balance[adj.user] + Effective(adj),
                                ref |-> adj.ref, req |-> adj.req, at |-> now])
  BY DEF ApplyTx
<1> QED BY <1>1 DEF Grows

LEMMA ApplyTxBooks ==
    ASSUME ledger \in Seq(Entry), NEW adj, ApplyTx(adj), NEW req, NEW type
    PROVE  Booked(req, type)' <=>
              Booked(req, type) \/ (req = adj.req /\ type = adj.type)
BY ApplyTxAppends DEF Booked, Grows

\* A write, whatever its caller learns: afterwards nothing else is booked, and
\* if it was acknowledged its entry is there.
LEMMA WriteBooks ==
    ASSUME ledger \in Seq(Entry), NEW adj, adj.req # None,
           Acknowledged(adj) \/ Failed(adj), NEW req, NEW type
    PROVE  /\ Booked(req, type) => Booked(req, type)'
           /\ Booked(req, type)' =>
                 Booked(req, type) \/ (req = adj.req /\ type = adj.type)
           /\ Acknowledged(adj) => Booked(adj.req, adj.type)'
<1>1. CASE ApplyTx(adj)
  BY <1>1, ApplyTxBooks
<1>2. CASE UNCHANGED tables
  <2>1. \A q, t : Booked(q, t)' <=> Booked(q, t)
    BY <1>2 DEF tables, Booked
  <2>2. Acknowledged(adj) => ApplyTx(adj) \/ Duplicate(adj)
    BY DEF Acknowledged, ApplyOnce
  <2> QED BY <1>1, <2>1, <2>2 DEF Duplicate
<1> QED
  BY <1>1, <1>2 DEF Acknowledged, Failed, ApplyOnce

LEMMA ApplyTxTerminatedOnce ==
    ASSUME ledger \in Seq(Entry), TerminatedOnce, NEW adj, ApplyTx(adj),
           adj.req \in Requests /\ adj.type \in TerminalTypes => ~Terminated(adj.req)
    PROVE  TerminatedOnce'
<1> DEFINE n == Len(ledger) + 1
<1> SUFFICES ASSUME NEW i \in DOMAIN ledger', NEW j \in DOMAIN ledger',
                    ledger'[i].req = ledger'[j].req, ledger'[i].req \in Requests,
                    ledger'[i].type \in TerminalTypes, ledger'[j].type \in TerminalTypes
             PROVE  i = j
  BY DEF TerminatedOnce
<1>1. CASE i \in DOMAIN ledger /\ j \in DOMAIN ledger
  BY <1>1, ApplyTxAppends DEF TerminatedOnce, Grows
<1>2. ASSUME NEW k \in DOMAIN ledger, ledger[k].req = adj.req,
             ledger[k].type \in TerminalTypes
      PROVE  Terminated(adj.req)
  BY <1>2 DEF Terminated, Booked
<1>3. CASE i = n /\ j \in DOMAIN ledger
  BY <1>2, <1>3, ApplyTxAppends DEF Grows
<1>4. CASE j = n /\ i \in DOMAIN ledger
  BY <1>2, <1>4, ApplyTxAppends DEF Grows
<1> QED
  BY <1>1, <1>3, <1>4, ApplyTxAppends

LEMMA SameLedgerTerminatedOnce ==
    ASSUME TerminatedOnce, UNCHANGED ledger
    PROVE  TerminatedOnce'
BY DEF TerminatedOnce

\* The unique index leaves only the other terminal type to worry about.
LEMMA WriteTerminatedOnce ==
    ASSUME ledger \in Seq(Entry), TerminatedOnce, NEW adj,
           Acknowledged(adj) \/ Failed(adj),
           adj.req \in Requests /\ adj.type \in TerminalTypes =>
              \A t \in TerminalTypes : t # adj.type => ~Booked(adj.req, t)
    PROVE  TerminatedOnce'
<1>1. CASE UNCHANGED tables
  BY <1>1, SameLedgerTerminatedOnce DEF tables
<1>2. CASE ApplyTx(adj) /\ ~Duplicate(adj)
  <2>1. adj.req \in Requests => adj.req # None
    BY LedgerAssumption
  <2>2. adj.req \in Requests /\ adj.type \in TerminalTypes => ~Terminated(adj.req)
    BY <1>2, <2>1 DEF Duplicate, Terminated
  <2> QED BY <1>2, <2>2, ApplyTxTerminatedOnce
<1> QED
  BY <1>1, <1>2 DEF Acknowledged, Failed, ApplyOnce

\* Entries about other requests leave a request as it was.
LEMMA OtherRequest ==
    ASSUME ledger \in Seq(Entry), NEW q \in Requests, NEW adj, adj.req # q,
           ApplyTx(adj) \/ UNCHANGED ledger,
           pc'[q] = pc[q], state'[q] = state[q], deadline'[q] = deadline[q], now' = now,
           DeadlineOK(q), HoldOK(q)
    PROVE  DeadlineOK(q)' /\ HoldOK(q)'
<1>1. ASSUME NEW t PROVE Booked(q, t)' <=> Booked(q, t)
  <2>1. CASE ApplyTx(adj)
    BY <2>1, ApplyTxBooks
  <2>2. CASE UNCHANGED ledger
    BY <2>2 DEF Booked
  <2> QED BY <2>1, <2>2
<1>2. /\ ConsumesOf(q)' = ConsumesOf(q)
      /\ \A i \in ConsumesOf(q) : ledger'[i] = ledger[i]
  BY ApplyTxAppends DEF ConsumesOf, Grows
<1>3. HoldOK(q)'
  BY <1>1 DEF HoldOK, InFlight, Terminated
<1>4. DeadlineOK(q)'
  BY <1>2 DEF DeadlineOK, InFlight
<1> QED BY <1>3, <1>4

\* Only a settlement of its own request can spoil what a cleaner has in hand.
LEMMA BatchItemKept ==
    ASSUME TypeInv, NEW c \in Cleaners, NEW i \in batch[c], BatchOK(c, i),
           NEW adj, ApplyTx(adj) \/ UNCHANGED ledger,
           adj.type = "settle_adjust" => adj.req # ledger[i].req,
           now' \in Nat, now <= now'
    PROVE  BatchOK(c, i)'
<1>1. ledger \in Seq(Entry) /\ now \in Nat
  BY DEF TypeInv, TypeOK, LedgerTypeOK, TablesTypeOK, Time
<1>2. ledger[i] \in Entry /\ ledger[i].at \in Nat /\ ThresholdOf[c] \in Nat
  BY <1>1, SessionAssumption DEF BatchOK, Entry, Time
<1>3. i \in DOMAIN ledger' /\ ledger'[i] = ledger[i]
  BY <1>1, ApplyTxAppends DEF BatchOK, Grows
<1>4. \A q : q = ledger[i].req => ~Booked(q, "settle_adjust")'
  <2> SUFFICES ASSUME NEW q, q = ledger[i].req
               PROVE  ~Booked(q, "settle_adjust")'
    OBVIOUS
  <2>1. ~Booked(q, "settle_adjust")
    BY DEF BatchOK
  <2>2. CASE ApplyTx(adj)
    BY <1>1, <2>1, <2>2, ApplyTxBooks
  <2>3. CASE UNCHANGED ledger
    BY <2>1, <2>3 DEF Booked
  <2> QED BY <2>2, <2>3
<1> QED
  BY <1>1, <1>2, <1>3, <1>4 DEF BatchOK

\* Entries of other types leave the precharges of a request as they were.
LEMMA ConsumesKept ==
    ASSUME ledger \in Seq(Entry), NEW r, NEW adj, adj.type # "consume",
           ApplyTx(adj) \/ UNCHANGED ledger
    PROVE  /\ ConsumesOf(r)' = ConsumesOf(r)
           /\ \A i \in ConsumesOf(r) : ledger'[i] = ledger[i]
BY ApplyTxAppends DEF ConsumesOf, Grows

\* A write changes the ledger by its entry or not at all.
LEMMA WriteAppends ==
    ASSUME NEW adj, Acknowledged(adj) \/ Failed(adj)
    PROVE  ApplyTx(adj) \/ UNCHANGED ledger
BY DEF Acknowledged, Failed, ApplyOnce, tables

-----------------------------------------------------------------------------
(* A step that writes for one request *)

\* A precharge older than a cleaner's threshold is older than any deadline its
\* handler can be in flight with: this is what checkOrphanTimeoutGuard is for.
LEMMA OrphanNotInFlight ==
    ASSUME TimeoutGuard, TypeInv, NEW c \in Cleaners, NEW i \in batch[c], BatchOK(c, i),
           NEW r \in Requests, ledger[i].req = r, DeadlineOK(r)
    PROVE  ~InFlight(r)
<1>1. /\ ledger \in Seq(Entry) /\ now \in Nat /\ deadline[r] \in Nat
      /\ UpstreamTimeout \in Nat /\ SettleWindow \in Nat /\ ThresholdOf[c] \in Nat
  BY SessionAssumption DEF TypeInv, TypeOK, LedgerTypeOK, TablesTypeOK, Time
<1>2. ledger[i].at \in Nat
  BY <1>1 DEF BatchOK, Entry, Time
<1>3. i \in ConsumesOf(r)
  BY DEF BatchOK, ConsumesOf
<1>4. UpstreamTimeout + SettleWindow < ThresholdOf[c] /\ ledger[i].at + ThresholdOf[c] < now
  BY DEF TimeoutGuard, BatchOK
<1> QED
  BY <1>1, <1>2, <1>3, <1>4 DEF InFlight, DeadlineOK

\* What is left to show of a step that books at most one entry, for request r.
LEMMA OneWrite ==
    ASSUME TypeInv, TerminationInv, NEW r, NEW adj, adj.req = r,
           ApplyTx(adj) \/ UNCHANGED ledger, now' = now,
           \A c \in Cleaners : batch'[c] \subseteq batch[c],
           \A q \in Requests \ {r} :
              pc'[q] = pc[q] /\ state'[q] = state[q] /\ deadline'[q] = deadline[q],
           adj.type = "settle_adjust" =>
              \A c \in Cleaners : \A i \in batch[c] : ledger[i].req # r,
           r \in Requests => DeadlineOK(r)' /\ HoldOK(r)',
           TerminatedOnce'
    PROVE  TerminationInv'
<1>1. ledger \in Seq(Entry) /\ now \in Nat
  BY DEF TypeInv, TypeOK, LedgerTypeOK, TablesTypeOK, Time
<1>2. ASSUME NEW q \in Requests PROVE DeadlineOK(q)' /\ HoldOK(q)'
  <2>1. CASE q = r
    BY <2>1
  <2>2. CASE q # r
    BY <1>1, <2>2, OtherRequest DEF TerminationInv
  <2> QED BY <2>1, <2>2
<1>3. ASSUME NEW c \in Cleaners, NEW i \in batch'[c] PROVE BatchOK(c, i)'
  <2>1. i \in batch[c] /\ BatchOK(c, i) /\ now <= now' /\ now' \in Nat
    BY <1>1 DEF TerminationInv
  <2> QED BY <2>1, BatchItemKept
<1> QED BY <1>2, <1>3 DEF TerminationInv

\* Handlers that only move on in their own variables.
LEMMA QuietStep ==
    ASSUME TypeInv, TerminationInv, NEW r \in Requests, UNCHANGED <<ledgerVars, batch>>,
           \A q \in Requests \ {r} :
              pc'[q] = pc[q] /\ state'[q] = state[q] /\ deadline'[q] = deadline[q],
           DeadlineOK(r)', HoldOK(r)'
    PROVE  TerminationInv'
<1> DEFINE adj == RefundAdjustment(r)
<1>1. adj.req = r /\ adj.type # "settle_adjust"
  BY DEF RefundAdjustment, UsageAdjustment
<1>2. UNCHANGED ledger /\ UNCHANGED now
  BY DEF ledgerVars, tables
<1>3. TerminatedOnce'
  BY <1>2, SameLedgerTerminatedOnce DEF TerminationInv
<1> HIDE DEF adj
<1> QED BY <1>1, <1>2, <1>3, OneWrite

\* A handler that has left the upstream and its settlement behind, and wrote at
\* most an entry that keeps what HoldOK says of its session.
LEMMA LandedStep ==
    ASSUME TypeInv, TerminationInv, NEW r \in Requests, NEW adj, adj.req = r,
           ApplyTx(adj) \/ UNCHANGED ledger, UNCHANGED <<batch, now, deadline>>,
           \A q \in Requests \ {r} : pc'[q] = pc[q] /\ state'[q] = state[q],
           pc'[r] \in {"final", "ended"},
           adj.type = "settle_adjust" =>
              \A c \in Cleaners : \A i \in batch[c] : ledger[i].req # r,
           adj.type \in TerminalTypes => Booked(r, "consume"),
           state'[r] = "Precharged" => state[r] = "Precharged" /\ adj.type # "settle_adjust",
           TerminatedOnce'
    PROVE  TerminationInv'
<1>1. ledger \in Seq(Entry)
  BY DEF TypeInv, TypeOK, LedgerTypeOK, TablesTypeOK
<1>2. ASSUME NEW type
      PROVE  /\ Booked(r, type) => Booked(r, type)'
             /\ Booked(r, type)' => Booked(r, type) \/ type = adj.type
  <2>1. CASE ApplyTx(adj)
    BY <1>1, <2>1, ApplyTxBooks
  <2>2. CASE UNCHANGED ledger
    BY <2>2 DEF Booked
  <2> QED BY <2>1, <2>2
<1>3. HoldOK(r) /\ DeadlineOK(r)
  BY DEF TerminationInv
<1>4. ~InFlight(r)' /\ DeadlineOK(r)'
  BY DEF InFlight, DeadlineOK
<1>5. Terminated(r)' => Booked(r, "consume")
  <2> SUFFICES ASSUME NEW t \in TerminalTypes, Booked(r, t)' PROVE Booked(r, "consume")
    BY DEF Terminated
  <2>1. CASE Booked(r, t)
    BY <1>3, <2>1 DEF HoldOK, Terminated
  <2>2. CASE t = adj.type
    BY <2>2
  <2> QED BY <1>2, <2>1, <2>2
<1>6. state'[r] = "Precharged" => Booked(r, "consume") /\ ~Booked(r, "settle_adjust")'
  BY <1>2, <1>3 DEF HoldOK
<1>7. HoldOK(r)'
  BY <1>2, <1>4, <1>5, <1>6 DEF HoldOK
<1> QED BY <1>4, <1>7, OneWrite

LEMMA PrechargeTermination ==
    ASSUME TypeInv, TerminationInv, NEW r \in Requests,
           NEW amount \in PrechargeAmounts, Precharge(r, amount)
    PROVE  TerminationInv'
<1> DEFINE adj == ConsumeAdjustment(r, amount)
           n == Len(ledger) + 1
<1>1. adj.req = r /\ adj.type = "consume"
  BY DEF ConsumeAdjustment, UsageAdjustment
<1>2. /\ ledger \in Seq(Entry) /\ now \in Nat /\ UpstreamTimeout \in Nat
      /\ pc \in [Requests -> Handler] /\ state \in [Requests -> SessionState]
      /\ deadline \in [Requests -> Nat] /\ r # None
  BY LedgerAssumption, SessionAssumption
     DEF TypeInv, TypeOK, LedgerTypeOK, TablesTypeOK, Time
<1>3. HoldOK(r) /\ TerminatedOnce
  BY DEF TerminationInv
<1>4. /\ Admissible(adj) /\ Acknowledged(adj) /\ UNCHANGED <<now, batch>>
      /\ state' = [state EXCEPT ![r] = "Precharged"]
      /\ deadline' = [deadline EXCEPT ![r] = now + UpstreamTimeout]
      /\ pc' = [pc EXCEPT ![r] = "upstream"]
  BY DEF Precharge
<1> HIDE DEF adj
<1>5. ~Booked(r, "consume") /\ ApplyTx(adj)
  BY <1>1, <1>2, <1>4 DEF Admissible, Duplicate, Acknowledged, ApplyOnce
<1>6. ~Terminated(r)
  BY <1>3, <1>5 DEF HoldOK
<1>7. ASSUME NEW type
      PROVE  Booked(r, type)' <=> Booked(r, type) \/ type = "consume"
  BY <1>1, <1>2, <1>5, ApplyTxBooks
<1>8. ~Terminated(r)' /\ Booked(r, "consume")' /\ ~Booked(r, "settle_adjust")'
  BY <1>6, <1>7 DEF Terminated, TerminalTypes
<1>9. HoldOK(r)'
  BY <1>8 DEF HoldOK
<1>10. \A i \in ConsumesOf(r)' : ledger'[i].at = now
  <2>1. ConsumesOf(r) = {}
    BY <1>5 DEF ConsumesOf, Booked
  <2>2. ConsumesOf(r)' \subseteq {n}
    BY <1>2, <1>5, <2>1, ApplyTxAppends DEF ConsumesOf, Grows
  <2> QED BY <1>2, <1>5, <2>2, ApplyTxAppends
<1>11. DeadlineOK(r)'
  BY <1>2, <1>4, <1>10 DEF DeadlineOK, InFlight
<1>12. TerminatedOnce'
  BY <1>1, <1>2, <1>3, <1>5, ApplyTxTerminatedOnce DEF TerminalTypes
<1> QED
  BY <1>1, <1>2, <1>4, <1>5, <1>9, <1>11, <1>12, OneWrite

LEMMA RefundTermination ==
    ASSUME TypeInv, TerminationInv, NEW r \in Requests, Refund(r),
           UNCHANGED <<batch, now, deadline>>,
           \A q \in Requests \ {r} : pc'[q] = pc[q], pc'[r] \in {"final", "ended"}
    PROVE  TerminationInv'
<1> DEFINE adj == RefundAdjustment(r)
<1>1. adj.req = r /\ adj.type = "refund"
  BY DEF RefundAdjustment, UsageAdjustment
<1>2. ledger \in Seq(Entry) /\ state \in [Requests -> SessionState]
  BY DEF TypeInv, TypeOK, LedgerTypeOK, TablesTypeOK
<1>3. TerminatedOnce /\ HoldOK(r)
  BY DEF TerminationInv
<1>4. \A q \in Requests \ {r} : state'[q] = state[q]
  BY <1>2 DEF Refund
<1>5. CASE UNCHANGED tables /\ state[r] # "Precharged" /\ UNCHANGED state
  <2> DEFINE none == ConsumeAdjustment(r, 0)
  <2>1. none.req = r /\ none.type = "consume"
    BY DEF ConsumeAdjustment, UsageAdjustment
  <2>2. UNCHANGED ledger /\ TerminatedOnce'
    BY <1>3, <1>5, SameLedgerTerminatedOnce DEF tables
  <2> HIDE DEF none
  <2> QED BY <1>4, <1>5, <2>1, <2>2, LandedStep DEF TerminalTypes
<1>6. CASE state[r] = "Precharged"
  <2>1. Acknowledged(adj) \/ Failed(adj) \/ UNCHANGED ledger
    BY <1>6 DEF Refund, tables
  <2>2. Booked(r, "consume") /\ ~Booked(r, "settle_adjust")
    BY <1>3, <1>6 DEF HoldOK
  <2> HIDE DEF adj
  <2>3. TerminatedOnce'
    BY <1>1, <1>2, <1>3, <2>1, <2>2, WriteTerminatedOnce, SameLedgerTerminatedOnce
       DEF TerminalTypes
  <2>4. ApplyTx(adj) \/ UNCHANGED ledger
    BY <2>1, WriteAppends
  <2> QED BY <1>1, <1>4, <1>6, <2>2, <2>3, <2>4, LandedStep DEF TerminalTypes
<1> QED BY <1>5, <1>6 DEF Refund

LEMMA SettleTermination ==
    ASSUME TimeoutGuard, TypeInv, TerminationInv, NEW r \in Requests, Settle(r)
    PROVE  TerminationInv'
<1> DEFINE adj == SettleAdjustment(r)
<1>1. adj.req = r /\ adj.type = "settle_adjust"
  BY DEF SettleAdjustment, UsageAdjustment
<1>2. /\ ledger \in Seq(Entry) /\ state \in [Requests -> SessionState]
      /\ pc \in [Requests -> Handler]
  BY DEF TypeInv, TypeOK, LedgerTypeOK, TablesTypeOK
<1>3. /\ TerminatedOnce /\ HoldOK(r) /\ DeadlineOK(r)
      /\ \A c \in Cleaners : \A i \in batch[c] : BatchOK(c, i)
  BY DEF TerminationInv
<1>4. /\ pc[r] = "settling" /\ pc' = [pc EXCEPT ![r] = "final"]
      /\ Acknowledged(adj) \/ Failed(adj)
      /\ UNCHANGED <<now, deadline, batch>>
      /\ state'[r] # "Precharged" /\ \A q \in Requests \ {r} : state'[q] = state[q]
  BY <1>2 DEF Settle
<1>5. InFlight(r) /\ ~Terminated(r) /\ Booked(r, "consume")
  BY <1>3, <1>4 DEF InFlight, HoldOK
<1>6. \A c \in Cleaners : \A i \in batch[c] : ledger[i].req # r
  BY <1>3, <1>5, OrphanNotInFlight
<1> HIDE DEF adj
<1>7. TerminatedOnce'
  BY <1>1, <1>2, <1>3, <1>4, <1>5, WriteTerminatedOnce DEF Terminated
<1>8. ApplyTx(adj) \/ UNCHANGED ledger
  BY <1>4, WriteAppends
<1> QED BY <1>1, <1>2, <1>4, <1>5, <1>6, <1>7, <1>8, LandedStep

LEMMA SessionTermination ==
    ASSUME TimeoutGuard, SlowReaders = {}, TypeInv, TerminationInv,
           NEW r \in Requests, Session(r)
    PROVE  TerminationInv'
<1>1. /\ ledger \in Seq(Entry) /\ now \in Nat /\ SettleWindow \in Nat
      /\ UpstreamTimeout \in Nat
      /\ pc \in [Requests -> Handler] /\ state \in [Requests -> SessionState]
      /\ deadline \in [Requests -> Nat]
  BY SessionAssumption DEF TypeInv, TypeOK, LedgerTypeOK, TablesTypeOK, Time
<1>2. DeadlineOK(r) /\ HoldOK(r) /\ TerminatedOnce
  BY DEF TerminationInv
<1>3. CASE Authenticate(r)
  <2>1. UNCHANGED <<ledgerVars, batch>> /\ UNCHANGED ledger
    BY <1>3 DEF Authenticate, ledgerVars, tables
  <2>2. DeadlineOK(r)'
    BY <1>1, <1>3 DEF Authenticate, DeadlineOK, InFlight
  <2>3. HoldOK(r)'
    BY <1>1, <1>2, <1>3, <2>1
       DEF Authenticate, HoldOK, InFlight, Terminated, Booked
  <2> QED BY <1>1, <1>3, <2>1, <2>2, <2>3, QuietStep DEF Authenticate
<1>4. CASE \E amount \in PrechargeAmounts : Precharge(r, amount)
  BY <1>4, PrechargeTermination
<1>5. ASSUME NEW amount \in PrechargeAmounts, RejectPrecharge(r, amount)
      PROVE  TerminationInv'
  <2> DEFINE adj == ConsumeAdjustment(r, amount)
  <2>1. adj.req = r /\ adj.type = "consume"
    BY DEF ConsumeAdjustment, UsageAdjustment
  <2>2. Failed(adj) \/ UNCHANGED ledger
    BY <1>5 DEF RejectPrecharge, Refusal, MarkDepleted, tables
  <2> HIDE DEF adj
  <2>3. TerminatedOnce'
    BY <1>1, <1>2, <2>1, <2>2, WriteTerminatedOnce, SameLedgerTerminatedOnce
       DEF TerminalTypes
  <2>4. ApplyTx(adj) \/ UNCHANGED ledger
    BY <2>2, WriteAppends
  <2>5. /\ UNCHANGED <<batch, now, deadline>> /\ UNCHANGED state
        /\ pc' = [pc EXCEPT ![r] = "ended"]
    BY <1>5 DEF RejectPrecharge
  <2> QED BY <1>1, <2>1, <2>3, <2>4, <2>5, LandedStep DEF TerminalTypes
<1>6. CASE Resend(r)
  <2>1. UNCHANGED <<ledgerVars, batch>> /\ UNCHANGED ledger
    BY <1>6 DEF Resend, ledgerVars, tables
  <2>2. DeadlineOK(r)'
    BY <1>1, <1>6 DEF Resend, DeadlineOK, InFlight
  <2>3. HoldOK(r)'
    BY <1>1, <1>2, <1>6, <2>1 DEF Resend, HoldOK, InFlight, Terminated, Booked
  <2> QED BY <1>1, <1>6, <2>1, <2>2, <2>3, QuietStep DEF Resend
<1>7. CASE Stall(r)
  BY <1>7 DEF Stall
<1>8. ASSUME NEW amount \in FinalAmounts, BeginSettle(r, amount)
      PROVE  TerminationInv'
  <2>1. /\ UNCHANGED <<ledgerVars, batch>> /\ UNCHANGED ledger /\ UNCHANGED now
        /\ UNCHANGED state
        /\ pc' = [pc EXCEPT ![r] = "settling"]
        /\ deadline' = [deadline EXCEPT ![r] = now + SettleWindow]
    BY <1>8 DEF BeginSettle, ledgerVars, tables
  <2>2. pc[r] = "upstream"
    BY <1>2, <1>8 DEF BeginSettle, Answering, DeadlineOK
  <2>3. \A i \in ConsumesOf(r)' :
           deadline'[r] <= ledger'[i].at + UpstreamTimeout + SettleWindow
    <3> SUFFICES ASSUME NEW i \in ConsumesOf(r)
                 PROVE  now + SettleWindow <= ledger[i].at + UpstreamTimeout + SettleWindow
      BY <1>1, <2>1 DEF ConsumesOf
    <3>1. ledger[i].at \in Nat
      BY <1>1 DEF ConsumesOf, Entry, Time
    <3>2. now <= deadline[r] /\ deadline[r] <= ledger[i].at + UpstreamTimeout
      BY <1>2, <2>2 DEF DeadlineOK, InFlight
    <3> QED BY <1>1, <3>1, <3>2
  <2>4. DeadlineOK(r)'
    BY <1>1, <2>1, <2>3 DEF DeadlineOK
  <2>5. HoldOK(r)'
    BY <1>1, <1>2, <2>1, <2>2 DEF HoldOK, InFlight, Terminated, Booked
  <2> QED BY <1>1, <2>1, <2>4, <2>5, QuietStep
<1>9. CASE Settle(r)
  BY <1>9, SettleTermination
<1>10. CASE UpstreamFailed(r)
  BY <1>1, <1>10, RefundTermination DEF UpstreamFailed
<1>11. CASE HandlerPanic(r)
  <2>1. UNCHANGED <<ledgerVars, batch>> /\ UNCHANGED ledger
    BY <1>11 DEF HandlerPanic, ledgerVars, tables
  <2>2. DeadlineOK(r)'
    BY <1>1, <1>11 DEF HandlerPanic, DeadlineOK, InFlight
  <2>3. HoldOK(r)'
    BY <1>1, <1>2, <1>11, <2>1
       DEF HandlerPanic, HoldOK, InFlight, Terminated, Booked
  <2> QED BY <1>1, <1>11, <2>1, <2>2, <2>3, QuietStep DEF HandlerPanic
<1>12. CASE EnsureFinal(r)
  BY <1>1, <1>12, RefundTermination DEF EnsureFinal
<1> QED
  BY <1>3, <1>4, <1>5, <1>6, <1>7, <1>8, <1>9, <1>10, <1>11, <1>12 DEF Session

-----------------------------------------------------------------------------
(* The other steps *)

LEMMA ScanTermination ==
    ASSUME TypeInv, TerminationInv, NEW c \in Cleaners, Scan(c)
    PROVE  TerminationInv'
<1>1. /\ UNCHANGED ledger /\ UNCHANGED now /\ UNCHANGED <<pc, state, deadline>>
      /\ batch' = [batch EXCEPT ![c] = Orphans(ThresholdOf[c])]
      /\ batch \in [Cleaners -> SUBSET Nat]
  BY DEF Scan, ledgerVars, tables, sessionVars, TypeInv, TypeOK
<1>2. ASSUME NEW d \in Cleaners, NEW i \in batch'[d] PROVE BatchOK(d, i)'
  <2>1. CASE d = c
    BY <1>1, <2>1 DEF Orphans, BatchOK, Terminated, TerminalTypes, Booked
  <2>2. CASE d # c
    BY <1>1, <2>2 DEF TerminationInv, BatchOK, Booked
  <2> QED BY <2>1, <2>2
<1>3. \A q \in Requests : DeadlineOK(q)' /\ HoldOK(q)'
  BY <1>1 DEF TerminationInv, DeadlineOK, HoldOK, InFlight, ConsumesOf, Terminated, Booked
<1> QED BY <1>1, <1>2, <1>3, SameLedgerTerminatedOnce DEF TerminationInv

\* The hold refundOrphan ends has no handler in flight and no settlement.
LEMMA RefundOrphanTermination ==
    ASSUME TimeoutGuard, TypeInv, TerminationInv, NEW c \in Cleaners, RefundOrphan(c)
    PROVE  TerminationInv'
<1>1. PICK i \in batch[c] :
           Acknowledged(OrphanAdjustment(i)) \/ Failed(OrphanAdjustment(i))
  BY DEF RefundOrphan, Failed, ApplyOnce
<1>2. i \in DOMAIN ledger /\ ledger[i].type = "consume" /\ LedgerTypeOK
  BY DEF TypeInv, TypeOK, BatchOfConsumes
<1>3. PICK r \in Requests : r = ledger[i].req
  BY <1>2 DEF LedgerTypeOK, TablesTypeOK, Entry, UsageTypes
<1> DEFINE adj == OrphanAdjustment(i)
<1>4. adj.req = r /\ adj.type = "refund"
  BY <1>3, <1>2, OrphanAdjustmentType
<1>5. ledger \in Seq(Entry) /\ TerminatedOnce /\ BatchOK(c, i)
  BY <1>2 DEF TerminationInv, LedgerTypeOK, TablesTypeOK
<1>6. Booked(r, "consume") /\ ~Booked(r, "settle_adjust")
  BY <1>3, <1>5 DEF BatchOK, Booked
<1>7. UNCHANGED now /\ UNCHANGED <<pc, state, deadline>>
  BY DEF RefundOrphan, sessionVars
<1>8. \A d \in Cleaners : batch'[d] \subseteq batch[d]
  BY RefundOrphanStep
<1> HIDE DEF adj
<1>9. ApplyTx(adj) \/ UNCHANGED ledger
  BY <1>1, WriteAppends DEF adj
<1>10. TerminatedOnce'
  <2>1. Acknowledged(adj) \/ Failed(adj)
    BY <1>1 DEF adj
  <2> QED BY <1>4, <1>5, <1>6, <2>1, WriteTerminatedOnce DEF TerminalTypes
<1>11. DeadlineOK(r)' /\ HoldOK(r)'
  <2>1. DeadlineOK(r) /\ HoldOK(r)
    BY DEF TerminationInv
  <2>2. ~InFlight(r)
    BY <1>3, <1>5, <2>1, OrphanNotInFlight
  <2>3. ASSUME NEW type
        PROVE  /\ Booked(r, type) => Booked(r, type)'
               /\ Booked(r, type)' => Booked(r, type) \/ type = "refund"
    <3>1. CASE ApplyTx(adj)
      BY <1>4, <1>5, <3>1, ApplyTxBooks
    <3>2. CASE UNCHANGED ledger
      BY <3>2 DEF Booked
    <3> QED BY <1>9, <3>1, <3>2
  <2>4. HoldOK(r)'
    BY <1>6, <1>7, <2>2, <2>3 DEF HoldOK, InFlight
  <2>5. DeadlineOK(r)'
    BY <1>7, <2>1, <2>2 DEF DeadlineOK, InFlight
  <2> QED BY <2>4, <2>5
<1> QED
  BY <1>4, <1>7, <1>8, <1>9, <1>10, <1>11, OneWrite

LEMMA CrashTermination ==
    ASSUME TypeInv, TerminationInv, Crash
    PROVE  TerminationInv'
<1>1. /\ UNCHANGED ledger /\ UNCHANGED now /\ UNCHANGED batch
      /\ \A q \in Requests : pc'[q] \in {"idle", "ended"} /\ state'[q] = "Init"
  BY DEF Crash, ledgerVars, tables
<1>2. \A q \in Requests : DeadlineOK(q)' /\ HoldOK(q)'
  BY <1>1 DEF TerminationInv, DeadlineOK, HoldOK, InFlight, Terminated, Booked
<1>3. \A c \in Cleaners : \A i \in batch'[c] : BatchOK(c, i)'
  BY <1>1 DEF TerminationInv, BatchOK, Booked
<1> QED BY <1>1, <1>2, <1>3, SameLedgerTerminatedOnce DEF TerminationInv

\* Time passes no deadline of a handler in flight.
LEMMA TickTermination ==
    ASSUME TypeInv, TerminationInv, Tick
    PROVE  TerminationInv'
<1>1. /\ UNCHANGED ledger /\ now' = now + 1 /\ UNCHANGED <<pc, state, deadline, batch>>
      /\ \A q \in Requests : pc[q] \in {"upstream", "settling"} => now < deadline[q]
  BY DEF Tick, tables, sessionVars
<1>2. /\ ledger \in Seq(Entry) /\ now \in Nat /\ deadline \in [Requests -> Nat]
      /\ ThresholdOf \in [Cleaners -> Nat]
  BY SessionAssumption DEF TypeInv, TypeOK, LedgerTypeOK, TablesTypeOK, Time
<1>3. \A q \in Requests : DeadlineOK(q)' /\ HoldOK(q)'
  BY <1>1, <1>2 DEF TerminationInv, DeadlineOK, HoldOK, InFlight, ConsumesOf,
                    Terminated, Booked
<1>4. ASSUME NEW c \in Cleaners, NEW i \in batch'[c] PROVE BatchOK(c, i)'
  <2>1. BatchOK(c, i) /\ ledger[i].at \in Nat
    BY <1>1, <1>2 DEF TerminationInv, BatchOK, Entry, Time
  <2> QED BY <1>1, <1>2, <2>1 DEF BatchOK, Booked
<1> QED BY <1>1, <1>3, <1>4, SameLedgerTerminatedOnce DEF TerminationInv

\* Administrators and users book under no request's id.
LEMMA AccountTermination ==
    ASSUME TypeInv, TerminationInv, Account
    PROVE  TerminationInv'
<1>1. PICK adj : /\ ApplyTx(adj) \/ UNCHANGED ledger
                 /\ adj.req \notin Requests /\ adj.type # "settle_adjust"
                 /\ UNCHANGED now
  <2>1. ASSUME NEW u \in Users, NEW amount \in GrantAmounts, NEW g \in Grants,
               Grant(u, amount, g)
        PROVE  \E adj : /\ ApplyTx(adj) /\ UNCHANGED now
                        /\ adj.req \notin Requests /\ adj.type # "settle_adjust"
    <3> DEFINE adj == [user |-> u, type |-> IF amount < 0 THEN "revoke" ELSE "grant",
                       amount |-> amount, ref |-> None, req |-> g]
    <3>1. ApplyTx(adj) /\ UNCHANGED now
      BY <2>1 DEF Grant
    <3>2. adj.req \notin Requests /\ adj.type # "settle_adjust"
      BY LedgerAssumption
    <3> HIDE DEF adj
    <3> QED BY <3>1, <3>2
  <2>2. ASSUME NEW u \in Users, NEW c \in Codes, Redeem(u, c)
        PROVE  \E adj : /\ ApplyTx(adj) /\ UNCHANGED now
                        /\ adj.req \notin Requests /\ adj.type # "settle_adjust"
    <3> DEFINE adj == [user |-> u, type |-> "redeem", amount |-> CodeCredits[c],
                       ref |-> c, req |-> None]
    <3>1. ApplyTx(adj) /\ UNCHANGED now
      BY <2>2 DEF Redeem
    <3>2. adj.req \notin Requests /\ adj.type # "settle_adjust"
      BY LedgerAssumption
    <3> HIDE DEF adj
    <3> QED BY <3>1, <3>2
  <2>3. CASE \E c \in Codes, status \in {"unused", "disabled"} : SetStatus(c, status)
    <3> DEFINE adj == [req |-> None, type |-> "redeem"]
    <3>1. UNCHANGED ledger /\ UNCHANGED now
      BY <2>3 DEF SetStatus, tables
    <3>2. adj.req \notin Requests /\ adj.type # "settle_adjust"
      BY LedgerAssumption
    <3> HIDE DEF adj
    <3> QED BY <3>1, <3>2
  <2> QED BY <2>1, <2>2, <2>3 DEF Account, AccountOperation
<1>2. UNCHANGED <<pc, state, deadline, batch>>
  BY DEF Account, sessionVars
<1>3. TerminatedOnce'
  BY <1>1, ApplyTxTerminatedOnce, SameLedgerTerminatedOnce
     DEF TerminationInv, TypeInv, TypeOK, LedgerTypeOK, TablesTypeOK
<1> QED BY <1>1, <1>2, <1>3, OneWrite

LEMMA LedgerAndSessionsSame ==
    ASSUME TerminationInv, UNCHANGED ledger, UNCHANGED <<now, pc, state, deadline, batch>>
    PROVE  TerminationInv'
<1>1. \A q \in Requests : DeadlineOK(q)' /\ HoldOK(q)'
  BY DEF TerminationInv, DeadlineOK, HoldOK, InFlight, ConsumesOf, Terminated, Booked
<1>2. \A c \in Cleaners : \A i \in batch'[c] : BatchOK(c, i)'
  BY DEF TerminationInv, BatchOK, Booked
<1> QED BY <1>1, <1>2, SameLedgerTerminatedOnce DEF TerminationInv

LEMMA TerminationStep ==
    ASSUME TimeoutGuard, SlowReaders = {}, TypeInv, TerminationInv, [Next]_vars
    PROVE  TerminationInv'
<1>1. CASE PersistLog \/ LoseLog \/ UNCHANGED vars
  BY <1>1, LedgerAndSessionsSame
     DEF PersistLog, LoseLog, vars, sessionVars, ledgerVars, tables
<1> QED
  BY <1>1, SessionTermination, ScanTermination, RefundOrphanTermination,
     CrashTermination, TickTermination, AccountTermination DEF Next

LEMMA TerminationInit == Init => TerminationInv
<1> SUFFICES ASSUME Init PROVE TerminationInv
  OBVIOUS
<1>1. /\ ledger = <<>> /\ DOMAIN ledger = {}
      /\ \A c \in Cleaners : batch[c] = {}
      /\ \A r \in Requests : pc[r] = "idle" /\ state[r] = "Init"
  BY DEF Init, LedgerInit
<1>2. \A req, type : ~Booked(req, type)
  BY <1>1 DEF Booked
<1>3. \A r \in Requests : DeadlineOK(r) /\ HoldOK(r)
  BY <1>1, <1>2 DEF DeadlineOK, HoldOK, InFlight, Terminated
<1> QED BY <1>1, <1>3 DEF TerminationInv, TerminatedOnce

-----------------------------------------------------------------------------
(* Theorems *)

\* Under the guard serve checks at startup, and with handlers that keep to
\* their deadlines, what the invariant says of cleaners and sessions is always
\* so, for every ledger, batch and fault.
THEOREM TerminationCorrect ==
    ASSUME TimeoutGuard, SlowReaders = {}
    PROVE  Spec => []TerminationInv
<1>1. Init => TypeInv /\ TerminationInv
  BY TypeInit, TerminationInit
<1>2. TypeInv /\ TerminationInv /\ [Next]_vars => (TypeInv /\ TerminationInv)'
  BY TypeStep, TerminationStep
<1> QED BY <1>1, <1>2, PTL DEF Spec

\* No hold is both settled and refunded, nor either of them twice: session.go
\* promises this of one session, the threshold extends it to the cleanup.
THEOREM HoldsEndOnce ==
    ASSUME TimeoutGuard, SlowReaders = {}
    PROVE  Spec => []TerminatedOnce
<1>1. TerminationInv => TerminatedOnce
  BY DEF TerminationInv
<1> QED BY <1>1, TerminationCorrect, PTL

\* No cleaner ever holds in hand the precharge of a handler still at work.
THEOREM CleanerOwnsItsOrphans ==
    ASSUME TimeoutGuard, SlowReaders = {}
    PROVE  Spec => []OrphanOwnerGone
<1>1. TypeInv /\ TerminationInv => OrphanOwnerGone
  <2> SUFFICES ASSUME TypeInv, TerminationInv, NEW c \in Cleaners, NEW i \in batch[c]
               PROVE  ~Answering(ledger[i].req) /\ pc[ledger[i].req] # "settling"
    BY DEF OrphanOwnerGone
  <2>1. BatchOK(c, i)
    BY DEF TerminationInv
  <2>2. ledger[i].req \in Requests
    BY <2>1 DEF BatchOK, TypeInv, TypeOK, LedgerTypeOK, TablesTypeOK, Entry, UsageTypes
  <2>3. DeadlineOK(ledger[i].req)
    BY <2>2 DEF TerminationInv
  <2>4. ~InFlight(ledger[i].req)
    BY <2>1, <2>2, <2>3, OrphanNotInFlight
  <2> QED BY <2>3, <2>4 DEF DeadlineOK, InFlight, Answering
<1>2. Spec => [](TypeInv /\ TerminationInv)
  <2>1. Init => TypeInv /\ TerminationInv
    BY TypeInit, TerminationInit
  <2>2. TypeInv /\ TerminationInv /\ [Next]_vars => (TypeInv /\ TerminationInv)'
    BY TypeStep, TerminationStep
  <2> QED BY <2>1, <2>2, PTL DEF Spec
<1> QED BY <1>1, <1>2, PTL
-----------------------------------------------------------------------------
(* Entries of a kind *)

\* Positions of the entries that are in a set, and their sum.
Among(E) == {i \in DOMAIN ledger : ledger[i] \in E}
Total(E) == Sum(Among(E))

\* The entry a transaction appends.
NewEntry(adj) ==
    [user |-> adj.user, type |-> adj.type, amount |-> Effective(adj),
     balance_after |-> balance[adj.user] + Effective(adj),
     ref |-> adj.ref, req |-> adj.req, at |-> now]

LEMMA LedgerFinite ==
    ASSUME LedgerTypeOK
    PROVE  /\ DOMAIN ledger = 1..Len(ledger) /\ Len(ledger) \in Nat
           /\ \A i \in DOMAIN ledger : ledger[i] \in Entry /\ ledger[i].amount \in Int
           /\ Amounts \in [DOMAIN ledger -> Int]
           /\ \A P \in SUBSET DOMAIN ledger : IsFiniteSet(P) /\ Sum(P) \in Int
<1>1. DOMAIN ledger = 1..Len(ledger) /\ Len(ledger) \in Nat
  BY DEF LedgerTypeOK, TablesTypeOK
<1>2. \A i \in DOMAIN ledger : ledger[i] \in Entry /\ ledger[i].amount \in Int
  BY DEF LedgerTypeOK, TablesTypeOK, Entry
<1>3. Amounts \in [DOMAIN ledger -> Int]
  BY <1>2 DEF Amounts
<1>4. IsFiniteSet(DOMAIN ledger)
  BY <1>1, FS_Interval
<1>5. ASSUME NEW P \in SUBSET DOMAIN ledger PROVE IsFiniteSet(P) /\ Sum(P) \in Int
  <2>1. IsFiniteSet(P)
    BY <1>4, FS_Subset
  <2> QED BY <1>3, <2>1, SumInt DEF Sum
<1> QED BY <1>1, <1>2, <1>3, <1>5

LEMMA ApplyTxEntry ==
    ASSUME LedgerTypeOK, NEW adj \in Adjustment, ApplyTx(adj)
    PROVE  /\ Effective(adj) \in Int /\ balance[adj.user] + Effective(adj) \in Nat
           /\ adj.amount <= Effective(adj)
           /\ balance[adj.user] + adj.amount >= 0 => Effective(adj) = adj.amount
           /\ Effective(adj) # adj.amount => balance[adj.user] + Effective(adj) = 0
           /\ NewEntry(adj) \in Entry
           /\ Len(ledger) + 1 \notin DOMAIN ledger
           /\ DOMAIN ledger' = DOMAIN ledger \cup {Len(ledger) + 1}
           /\ \A i \in DOMAIN ledger : ledger'[i] = ledger[i]
           /\ ledger'[Len(ledger) + 1] = NewEntry(adj)
<1> DEFINE u == adj.user
           a == Effective(adj)
<1>1. /\ u \in Users /\ adj.amount \in Int /\ adj.type \in EntryTypes
      /\ adj.ref \in Keys \cup Codes \cup {None}
      /\ adj.req \in Requests \cup Grants \cup {None}
      /\ adj.type \in UsageTypes => adj.ref \in Keys /\ adj.req \in Requests
  BY DEF Adjustment
<1>2. balance[u] \in Nat /\ ledger \in Seq(Entry) /\ now \in Time
  BY <1>1 DEF LedgerTypeOK, TablesTypeOK
<1>3. /\ a \in Int /\ balance[u] + a \in Nat /\ adj.amount <= a
      /\ balance[u] + adj.amount >= 0 => a = adj.amount
      /\ a # adj.amount => balance[u] + a = 0
  BY <1>1, <1>2 DEF Effective
<1>4. NewEntry(adj) \in Entry
  BY <1>1, <1>2, <1>3 DEF Entry, NewEntry
<1>5. ledger' = Append(ledger, NewEntry(adj))
  BY DEF ApplyTx, NewEntry
<1>6. /\ Len(ledger) + 1 \notin DOMAIN ledger
      /\ DOMAIN ledger' = DOMAIN ledger \cup {Len(ledger) + 1}
      /\ \A i \in DOMAIN ledger : ledger'[i] = ledger[i]
      /\ ledger'[Len(ledger) + 1] = NewEntry(adj)
  <2> HIDE DEF a, u
  <2> QED BY <1>2, <1>4, <1>5
<1> QED BY <1>3, <1>4, <1>6

\* Sums after a transaction: of positions there were, and with the new one.
LEMMA SumAfter ==
    ASSUME LedgerTypeOK, NEW adj \in Adjustment, ApplyTx(adj),
           NEW P \in SUBSET DOMAIN ledger
    PROVE  /\ SumFunctionOnSet(Amounts', P) = SumFunctionOnSet(Amounts, P)
           /\ SumFunctionOnSet(Amounts', P \cup {Len(ledger) + 1})
                = SumFunctionOnSet(Amounts, P) + Effective(adj)
<1> DEFINE n == Len(ledger) + 1
<1>1. IsFiniteSet(P) /\ n \notin P
  BY LedgerFinite, ApplyTxEntry
<1>2. \A i \in P : Amounts[i] \in Int /\ Amounts'[i] = Amounts[i]
  BY LedgerFinite, ApplyTxEntry DEF Amounts
<1>3. Amounts'[n] = Effective(adj) /\ Effective(adj) \in Int
  <2>1. n \in DOMAIN ledger' /\ ledger'[n] = NewEntry(adj) /\ Effective(adj) \in Int
    BY ApplyTxEntry
  <2>2. ledger'[n].amount = Effective(adj)
    BY <2>1 DEF NewEntry
  <2>3. Amounts'[n] = ledger'[n].amount
    BY <2>1 DEF Amounts
  <2> QED BY <2>1, <2>2, <2>3
<1> HIDE DEF n
<1>4. SumFunctionOnSet(Amounts', P) = SumFunctionOnSet(Amounts, P)
  BY <1>1, <1>2, SumSame
<1>5. SumFunctionOnSet(Amounts', P \cup {n}) = SumFunctionOnSet(Amounts, P) + Amounts'[n]
  BY <1>1, <1>2, <1>3, SumAdd
<1> QED BY <1>3, <1>4, <1>5 DEF n

LEMMA AmongAfter ==
    ASSUME LedgerTypeOK, NEW adj \in Adjustment, ApplyTx(adj), NEW E
    PROVE  {i \in DOMAIN ledger' : ledger'[i] \in E} =
              IF NewEntry(adj) \in E THEN Among(E) \cup {Len(ledger) + 1} ELSE Among(E)
BY ApplyTxEntry DEF Among

LEMMA TotalAfter ==
    ASSUME LedgerTypeOK, NEW adj \in Adjustment, ApplyTx(adj), NEW E
    PROVE  SumFunctionOnSet(Amounts', {i \in DOMAIN ledger' : ledger'[i] \in E})
              = IF NewEntry(adj) \in E THEN Total(E) + Effective(adj) ELSE Total(E)
<1>1. Among(E) \in SUBSET DOMAIN ledger
  BY DEF Among
<1> QED BY <1>1, SumAfter, AmongAfter DEF Total, Sum

LEMMA TotalInt ==
    ASSUME LedgerTypeOK, NEW E
    PROVE  Total(E) \in Int
BY LedgerFinite DEF Total, Among

-----------------------------------------------------------------------------
(* One transaction a step *)

\* What kind of row can be there: precharges take, refunds give back, and what
\* belongs to a request is booked on its key and the owner of the key.
EntryOK(e) ==
    /\ e.type = "consume" => e.amount <= 0
    /\ e.type = "refund" => e.amount >= 0
    /\ e.req \in Requests <=> e.type \in UsageTypes
    /\ e.req \in Requests => e.ref = KeyOf[e.req] /\ e.user = OwnerOf[KeyOf[e.req]]
    /\ e.ref \in Codes <=> e.type = "redeem"

EntriesOK == \A i \in DOMAIN ledger : EntryOK(ledger[i])

\* What is so of every adjustment that is booked.
Transaction(adj) ==
    /\ ApplyTx(adj)
    /\ adj.req # None => ~Booked(adj.req, adj.type)
    /\ adj.type # "settle_adjust" => balance[adj.user] + adj.amount >= 0
    /\ adj.type = "consume" => Admissible(adj)
    /\ EntryOK(adj)

\* A code is redeemed with the entry that pays for it, and not otherwise.
CodesMove(adj) ==
    IF adj.ref \in Codes
    THEN /\ codes[adj.ref] = "unused" /\ codes' = [codes EXCEPT ![adj.ref] = "used"]
         /\ adj.amount = CodeCredits[adj.ref]
    ELSE codes' = codes

\* Where the amount of a usage entry comes from: the session's precharge (which
\* a session keeps only if it saw it succeed), its difference to what was used,
\* or the entry a cleaner has scanned.
Explained(adj) ==
    LET r == adj.req
    IN  /\ adj.type = "consume" =>
              \/ precharged'[r] = -adj.amount
              \/ pc'[r] = "ended" /\ state'[r] = state[r]
        /\ adj.type = "refund" =>
              \/ state[r] = "Precharged" /\ adj.amount = precharged[r]
              \/ \E i \in ConsumesOf(r) : adj.amount = -ledger[i].amount
        /\ adj.type = "settle_adjust" =>
              pc[r] = "settling" /\ adj.amount = precharged[r] - final[r]

NothingBooked ==
    /\ UNCHANGED <<balance, used, keyUsed, spend, keySpend, ledger>>
    /\ \/ codes' = codes
       \/ \E c \in Codes, status \in {"unused", "disabled"} :
             codes[c] # "used" /\ codes' = [codes EXCEPT ![c] = status]

Booking ==
    \E adj \in Adjustment :
        Transaction(adj) /\ CodesMove(adj) /\ Explained(adj) /\ now' = now

\* An adjustment on a request.
LEMMA UsageEntryOK ==
    ASSUME NEW r \in Requests, NEW type \in UsageTypes, NEW amount \in Int,
           type = "consume" => amount <= 0, type = "refund" => amount >= 0
    PROVE  LET adj == UsageAdjustment(type, r, amount)
           IN  adj \in Adjustment /\ EntryOK(adj) /\ adj.req # None /\ adj.ref \notin Codes
<1>1. UsageAdjustment(type, r, amount) \in Adjustment
  BY UsageAdjustmentType
<1>2. KeyOf[r] \in Keys /\ KeyOf[r] \notin Codes /\ r # None
  BY LedgerAssumption
<1> QED BY <1>1, <1>2 DEF UsageAdjustment, EntryOK, UsageTypes

\* A write of a usage adjustment is a transaction or leaves the tables alone.
LEMMA WriteBooking ==
    ASSUME LedgerTypeOK, NEW adj \in Adjustment, EntryOK(adj), Explained(adj),
           adj.ref \notin Codes,
           adj.req # None, UNCHANGED <<codes, now>>,
           adj.type = "consume" => Admissible(adj),
           adj.type # "consume" /\ adj.type # "settle_adjust" => adj.amount >= 0,
           Acknowledged(adj) \/ Failed(adj)
    PROVE  NothingBooked \/ Booking
<1>1. CASE UNCHANGED tables
  BY <1>1 DEF NothingBooked, tables
<1>2. CASE ApplyTx(adj) /\ ~Duplicate(adj)
  <2>1. adj.user \in Users /\ balance[adj.user] \in Nat /\ adj.amount \in Int
    BY DEF Adjustment, LedgerTypeOK, TablesTypeOK
  <2>2. adj.type # "settle_adjust" => balance[adj.user] + adj.amount >= 0
    BY <2>1 DEF Admissible, InsufficientCredits
  <2> QED BY <1>2, <2>2 DEF Booking, Transaction, CodesMove, Duplicate
<1> QED BY <1>1, <1>2 DEF Acknowledged, Failed, ApplyOnce

LEMMA SessionBooking ==
    ASSUME TypeInv, NEW r \in Requests, Session(r)
    PROVE  NothingBooked \/ Booking
<1> USE DEF TypeInv, TypeOK
<1>1. ASSUME Refund(r), UNCHANGED <<codes, now>> PROVE NothingBooked \/ Booking
  <2> DEFINE adj == RefundAdjustment(r)
  <2>1. CASE UNCHANGED tables
    BY <1>1, <2>1 DEF NothingBooked, tables
  <2>2. CASE state[r] = "Precharged" /\ (Acknowledged(adj) \/ Failed(adj))
    <3>1. precharged[r] \in Int /\ precharged[r] >= 0
      OBVIOUS
    <3>2. /\ adj \in Adjustment /\ EntryOK(adj) /\ adj.req # None /\ adj.ref \notin Codes
          /\ adj.type = "refund" /\ adj.amount >= 0
          /\ adj.req = r /\ adj.amount = precharged[r]
      BY <3>1, UsageEntryOK DEF RefundAdjustment, UsageAdjustment, UsageTypes
    <3> HIDE DEF adj
    <3>3. Explained(adj)
      BY <2>2, <3>2 DEF Explained
    <3> QED BY <1>1, <2>2, <3>2, <3>3, WriteBooking
  <2> QED BY <1>1, <2>1, <2>2 DEF Refund
<1>2. ASSUME NEW amount \in PrechargeAmounts,
             Precharge(r, amount) \/ RejectPrecharge(r, amount)
      PROVE  NothingBooked \/ Booking
  <2> DEFINE adj == ConsumeAdjustment(r, amount)
  <2>1. /\ adj \in Adjustment /\ EntryOK(adj) /\ adj.req # None /\ adj.ref \notin Codes
        /\ adj.type = "consume" /\ adj.req = r /\ adj.amount = -amount
    <3>1. -amount \in Int /\ -amount <= 0
      BY SessionAssumption
    <3> QED BY <3>1, UsageEntryOK DEF ConsumeAdjustment, UsageAdjustment, UsageTypes
  <2>2. CASE Refusal(adj) /\ UNCHANGED <<codes, now>>
    BY <2>2 DEF Refusal, MarkDepleted, NothingBooked, tables
  <2>3. CASE Admissible(adj) /\ (Acknowledged(adj) \/ Failed(adj)) /\ UNCHANGED <<codes, now>>
    <3>1. amount \in Nat
      BY SessionAssumption
    <3>2. precharged'[r] = -adj.amount \/ (pc'[r] = "ended" /\ state'[r] = state[r])
      BY <1>2, <2>1, <3>1 DEF Precharge, RejectPrecharge
    <3> HIDE DEF adj
    <3>3. Explained(adj)
      BY <2>1, <3>2 DEF Explained
    <3> QED BY <2>1, <2>3, <3>3, WriteBooking
  <2> QED BY <1>2, <2>2, <2>3 DEF Precharge, RejectPrecharge
<1>3. CASE Settle(r)
  <2> DEFINE adj == SettleAdjustment(r)
  <2>1. precharged[r] - final[r] \in Int
    OBVIOUS
  <2>2. /\ adj \in Adjustment /\ EntryOK(adj) /\ adj.req # None /\ adj.ref \notin Codes
        /\ adj.type = "settle_adjust" /\ adj.req = r /\ adj.amount = precharged[r] - final[r]
    BY <2>1, UsageEntryOK DEF SettleAdjustment, UsageAdjustment, UsageTypes
  <2>3. (Acknowledged(adj) \/ Failed(adj)) /\ UNCHANGED <<codes, now>> /\ pc[r] = "settling"
    BY <1>3 DEF Settle
  <2> HIDE DEF adj
  <2>4. Explained(adj)
    BY <2>2, <2>3 DEF Explained
  <2> QED BY <2>2, <2>3, <2>4, WriteBooking
<1>4. CASE UpstreamFailed(r) \/ EnsureFinal(r)
  BY <1>1, <1>4 DEF UpstreamFailed, EnsureFinal
<1>5. CASE \/ Authenticate(r) \/ Resend(r) \/ Stall(r) \/ HandlerPanic(r)
           \/ \E amount \in FinalAmounts : BeginSettle(r, amount)
  BY <1>5 DEF Authenticate, Resend, Stall, HandlerPanic, BeginSettle, NothingBooked,
              ledgerVars, tables
<1> QED BY <1>2, <1>3, <1>4, <1>5 DEF Session

LEMMA OrphanBooking ==
    ASSUME TypeInv, EntriesOK, NEW c \in Cleaners, RefundOrphan(c)
    PROVE  NothingBooked \/ Booking
<1> USE DEF TypeInv, TypeOK
<1>1. PICK i \in batch[c] :
        /\ \/ Acknowledged(OrphanAdjustment(i)) \/ Failed(OrphanAdjustment(i))
        /\ UNCHANGED <<codes, now>>
  BY DEF RefundOrphan, ApplyOnce, Failed
<1>2. i \in DOMAIN ledger /\ ledger[i].type = "consume"
  BY DEF BatchOfConsumes
<1>3. ledger[i] \in Entry /\ EntryOK(ledger[i])
  BY <1>2 DEF LedgerTypeOK, TablesTypeOK, EntriesOK
<1> DEFINE adj == OrphanAdjustment(i)
<1>4. adj \in Adjustment /\ adj.type = "refund"
  BY <1>2, OrphanAdjustmentType
<1>5. adj.req \in Requests /\ adj.req # None /\ adj.ref \in Keys /\ adj.ref \notin Codes
  BY <1>4, LedgerAssumption DEF Adjustment, UsageTypes
<1>6. adj.amount >= 0
  <2>1. ledger[i].amount \in Int /\ ledger[i].amount <= 0
    BY <1>2, <1>3 DEF Entry, EntryOK
  <2> QED BY <2>1 DEF OrphanAdjustment
<1>7. adj.ref = KeyOf[adj.req] /\ adj.user = OwnerOf[KeyOf[adj.req]]
  BY <1>3, <1>5 DEF EntryOK, OrphanAdjustment
<1>8. EntryOK(adj)
  BY <1>4, <1>5, <1>6, <1>7 DEF EntryOK, UsageTypes
<1>9. i \in ConsumesOf(adj.req) /\ adj.amount = -ledger[i].amount
  BY <1>2 DEF OrphanAdjustment, ConsumesOf
<1> HIDE DEF adj
<1>10. Explained(adj)
  BY <1>4, <1>9 DEF Explained
<1>11. Acknowledged(adj) \/ Failed(adj)
  BY <1>1 DEF adj
<1> QED BY <1>1, <1>4, <1>5, <1>6, <1>8, <1>10, <1>11, WriteBooking

LEMMA AccountBooking ==
    ASSUME LedgerTypeOK, AccountOperation
    PROVE  NothingBooked \/ Booking
<1>1. ASSUME NEW u \in Users, NEW amount \in GrantAmounts, NEW g \in Grants,
             Grant(u, amount, g)
      PROVE  Booking
  <2> DEFINE adj == [user |-> u, type |-> IF amount < 0 THEN "revoke" ELSE "grant",
                     amount |-> amount, ref |-> None, req |-> g]
  <2>1. adj \in Adjustment
    BY LedgerAssumption DEF Adjustment, EntryTypes, UsageTypes
  <2>2. /\ adj.type \notin UsageTypes /\ adj.type # "redeem" /\ adj.req \notin Requests
        /\ adj.ref \notin Codes
    BY LedgerAssumption DEF UsageTypes
  <2>3. EntryOK(adj)
    BY <2>2 DEF EntryOK, UsageTypes
  <2>4. ApplyTx(adj) /\ Admissible(adj) /\ UNCHANGED <<codes, now>>
    BY <1>1 DEF Grant
  <2>5. balance[u] \in Nat /\ amount \in Int
    BY LedgerAssumption DEF LedgerTypeOK, TablesTypeOK
  <2>6. balance[adj.user] + adj.amount >= 0
    BY <2>2, <2>4, <2>5 DEF Admissible, InsufficientCredits, UsageTypes
  <2>7. adj.req # None => ~Booked(adj.req, adj.type)
    BY <2>4 DEF Admissible, Duplicate
  <2>8. adj.type # "consume" /\ Explained(adj)
    BY <2>2 DEF UsageTypes, Explained
  <2> HIDE DEF adj
  <2> QED BY <2>1, <2>2, <2>3, <2>4, <2>6, <2>7, <2>8 DEF Booking, Transaction, CodesMove
<1>2. ASSUME NEW u \in Users, NEW c \in Codes, Redeem(u, c)
      PROVE  Booking
  <2> DEFINE adj == [user |-> u, type |-> "redeem", amount |-> CodeCredits[c],
                     ref |-> c, req |-> None]
  <2>1. adj \in Adjustment
    BY LedgerAssumption DEF Adjustment, EntryTypes, UsageTypes
  <2>2. /\ EntryOK(adj) /\ Explained(adj)
        /\ adj.type # "consume" /\ adj.req = None /\ adj.ref \in Codes
    BY LedgerAssumption DEF EntryOK, Explained, UsageTypes
  <2>3. ApplyTx(adj) /\ CodesMove(adj) /\ now' = now
    BY <1>2 DEF Redeem, CodesMove
  <2>4. balance[u] \in Nat /\ CodeCredits[c] \in Nat
    BY LedgerAssumption DEF LedgerTypeOK, TablesTypeOK
  <2>5. balance[adj.user] + adj.amount >= 0
    BY <2>4
  <2> HIDE DEF adj
  <2> QED BY <2>1, <2>2, <2>3, <2>5 DEF Booking, Transaction
<1>3. ASSUME NEW c \in Codes, NEW status \in {"unused", "disabled"}, SetStatus(c, status)
      PROVE  NothingBooked
  BY <1>3 DEF SetStatus, NothingBooked, tables
<1> QED BY <1>1, <1>2, <1>3 DEF AccountOperation

\* The tables change by one transaction a step.
LEMMA OneTransaction ==
    ASSUME TypeInv, EntriesOK, [Next]_vars
    PROVE  NothingBooked \/ Booking
<1>1. CASE Account
  BY <1>1, AccountBooking DEF Account, TypeInv, TypeOK
<1>2. CASE \/ \E c \in Cleaners : Scan(c)
           \/ PersistLog \/ LoseLog \/ Crash \/ Tick \/ UNCHANGED vars
  BY <1>2 DEF Scan, PersistLog, LoseLog, Crash, Tick, vars, ledgerVars, tables, NothingBooked
<1> QED BY <1>1, <1>2, SessionBooking, OrphanBooking DEF Next

-----------------------------------------------------------------------------
(* Rows stay in shape *)

LEMMA TransactionAmount ==
    ASSUME LedgerTypeOK, NEW adj \in Adjustment, Transaction(adj)
    PROVE  /\ adj.type # "settle_adjust" => Effective(adj) = adj.amount
           /\ EntryOK(NewEntry(adj))
<1>1. adj.type # "settle_adjust" => Effective(adj) = adj.amount
  BY ApplyTxEntry DEF Transaction
<1>2. EntryOK(adj)
  BY DEF Transaction
<1> QED BY <1>1, <1>2 DEF EntryOK, NewEntry

LEMMA EntriesStep ==
    ASSUME TypeInv, EntriesOK, [Next]_vars
    PROVE  EntriesOK'
<1>1. CASE NothingBooked
  BY <1>1 DEF NothingBooked, EntriesOK
<1>2. ASSUME NEW adj \in Adjustment, Transaction(adj)
      PROVE  EntriesOK'
  <2>1. LedgerTypeOK /\ ApplyTx(adj)
    BY <1>2 DEF TypeInv, TypeOK, Transaction
  <2>2. ASSUME NEW i \in DOMAIN ledger' PROVE EntryOK(ledger'[i])
    BY <1>2, <2>1, ApplyTxEntry, TransactionAmount DEF EntriesOK
  <2> QED BY <2>2 DEF EntriesOK, EntryOK
<1> QED BY <1>1, <1>2, OneTransaction DEF Booking

LEMMA EntriesInit == Init => EntriesOK
BY DEF Init, LedgerInit, EntriesOK

LedgerInv == TypeInv /\ EntriesOK

LEMMA LedgerInvAlways == Spec => []LedgerInv
<1>1. Init => LedgerInv
  BY TypeInit, EntriesInit DEF LedgerInv
<1>2. LedgerInv /\ [Next]_vars => LedgerInv'
  BY TypeStep, EntriesStep DEF LedgerInv
<1> QED BY <1>1, <1>2, PTL DEF Spec

-----------------------------------------------------------------------------
(* Balances *)

EntriesOfUser(u) == {e \in Entry : e.user = u}
UsageOfUser(u) == {e \in Entry : e.user = u /\ e.type \in UsageTypes}
UsageOnKey(k) == {e \in Entry : e.ref = k /\ e.type \in UsageTypes}

\* The daily counters after a transaction, summed over the days.
LEMMA DayBooked ==
    ASSUME NEW f, NEW g, NEW d \in Days, NEW a \in Int,
           \A y \in Days : f[y] \in Int /\ (y # d => g[y] = f[y]), g[d] = f[d] - a
    PROVE  SumFunctionOnSet(g, Days) = SumFunctionOnSet(f, Days) - a
<1>1. IsFiniteSet(Days)
  BY DaysAssumption
<1>2. f[d] \in Int /\ g[d] \in Int
  OBVIOUS
<1>3. SumFunctionOnSet(g, Days) = SumFunctionOnSet(f, Days) - f[d] + g[d]
  BY <1>1, <1>2, SumUpdate
<1>4. SumFunctionOnSet(f, Days) \in Int
  BY <1>1, SumInt
<1> QED BY <1>2, <1>3, <1>4

\* A user's balance and usage, and the entries up to one of them.
BalanceOf(u) ==
    /\ balance[u] = Total(EntriesOfUser(u))
    /\ used[u] = -Total(UsageOfUser(u))
    /\ used[u] = SumFunctionOnSet(spend[u], Days)

UpTo(u, i) == {j \in Among(EntriesOfUser(u)) : j <= i}
BalanceAfter(u, i) == ledger[i].balance_after = Sum(UpTo(u, i))

BalanceInv ==
    \A u \in Users : BalanceOf(u) /\ \A i \in Among(EntriesOfUser(u)) : BalanceAfter(u, i)

LEMMA BalanceBooked ==
    ASSUME LedgerInv, NEW adj \in Adjustment, Transaction(adj), NEW u \in Users, BalanceOf(u)
    PROVE  BalanceOf(u)'
<1>0. LedgerTypeOK
  BY DEF LedgerInv, TypeInv, TypeOK
<1> DEFINE a == Effective(adj)
<1>1. /\ ApplyTx(adj) /\ a \in Int /\ NewEntry(adj) \in Entry /\ adj.user \in Users
      /\ Total(EntriesOfUser(u)) \in Int /\ Total(UsageOfUser(u)) \in Int
      /\ balance \in [Users -> Int] /\ used \in [Users -> Int]
      /\ spend \in [Users -> [Days -> Int]] /\ DayOf[now] \in Days
  <2>1. ApplyTx(adj) /\ a \in Int /\ NewEntry(adj) \in Entry
    BY <1>0, ApplyTxEntry DEF Transaction
  <2>2. adj.user \in Users
    BY DEF Adjustment
  <2>3. Total(EntriesOfUser(u)) \in Int /\ Total(UsageOfUser(u)) \in Int
    BY <1>0, TotalInt
  <2>4. /\ balance \in [Users -> Int] /\ used \in [Users -> Int]
        /\ spend \in [Users -> [Days -> Int]] /\ DayOf[now] \in Days
    BY <1>0, LedgerAssumption DEF LedgerTypeOK, TablesTypeOK
  <2> QED BY <2>1, <2>2, <2>3, <2>4
<1>2. NewEntry(adj) \in EntriesOfUser(u) <=> adj.user = u
  BY <1>1 DEF EntriesOfUser, NewEntry
<1>3. NewEntry(adj) \in UsageOfUser(u) <=> adj.user = u /\ AffectsUsed(adj)
  BY <1>1 DEF UsageOfUser, NewEntry, AffectsUsed
<1>4. Total(EntriesOfUser(u))' = IF adj.user = u THEN Total(EntriesOfUser(u)) + a
                                 ELSE Total(EntriesOfUser(u))
  BY <1>0, <1>1, <1>2, TotalAfter DEF Total, Among, Sum, EntriesOfUser
<1>5. Total(UsageOfUser(u))' = IF adj.user = u /\ AffectsUsed(adj)
                               THEN Total(UsageOfUser(u)) + a ELSE Total(UsageOfUser(u))
  BY <1>0, <1>1, <1>3, TotalAfter DEF Total, Among, Sum, UsageOfUser
<1>6. balance'[u] = IF adj.user = u THEN balance[u] + a ELSE balance[u]
  BY <1>1 DEF ApplyTx
<1>7. used'[u] = IF adj.user = u /\ AffectsUsed(adj) THEN used[u] - a ELSE used[u]
  BY <1>1 DEF ApplyTx
<1>8. SumFunctionOnSet(spend'[u], Days) =
         IF adj.user = u /\ AffectsUsed(adj) THEN SumFunctionOnSet(spend[u], Days) - a
         ELSE SumFunctionOnSet(spend[u], Days)
  <2>1. CASE adj.user = u /\ AffectsUsed(adj)
    <3>1. spend'[u] = [spend[u] EXCEPT ![DayOf[now]] = @ - a]
      BY <1>1, <2>1 DEF ApplyTx
    <3> DEFINE f == spend[u]
               g == spend'[u]
               d == DayOf[now]
    <3>2. /\ \A y \in Days : f[y] \in Int /\ (y # d => g[y] = f[y])
          /\ g[d] = f[d] - a /\ d \in Days /\ a \in Int
      BY <1>1, <3>1
    <3>3. SumFunctionOnSet(g, Days) = SumFunctionOnSet(f, Days) - a
      <4> HIDE DEF a, f, g, d
      <4> QED BY <3>2, DayBooked
    <3> QED BY <2>1, <3>3
  <2>2. CASE ~(adj.user = u /\ AffectsUsed(adj))
    BY <1>1, <2>2 DEF ApplyTx
  <2> QED BY <2>1, <2>2
<1> HIDE DEF a
<1> QED BY <1>1, <1>4, <1>5, <1>6, <1>7, <1>8 DEF BalanceOf

LEMMA BalanceAfterBooked ==
    ASSUME LedgerInv, NEW adj \in Adjustment, Transaction(adj), NEW u \in Users, BalanceOf(u),
           \A i \in Among(EntriesOfUser(u)) : BalanceAfter(u, i),
           NEW i \in DOMAIN ledger', ledger'[i] \in EntriesOfUser(u)
    PROVE  ledger'[i].balance_after = 
             SumFunctionOnSet(Amounts', {j \in DOMAIN ledger' :
                                           ledger'[j] \in EntriesOfUser(u) /\ j <= i})
<1>0. LedgerTypeOK
  BY DEF LedgerInv, TypeInv, TypeOK
<1> DEFINE n == Len(ledger) + 1
           a == Effective(adj)
           E == EntriesOfUser(u)
           P == {j \in DOMAIN ledger' : ledger'[j] \in E /\ j <= i}
<1>1. /\ ApplyTx(adj) /\ DOMAIN ledger = 1..Len(ledger) /\ Len(ledger) \in Nat
      /\ n \notin DOMAIN ledger /\ DOMAIN ledger' = DOMAIN ledger \cup {n}
      /\ \A j \in DOMAIN ledger : ledger'[j] = ledger[j]
      /\ ledger'[n] = NewEntry(adj)
  BY <1>0, ApplyTxEntry, LedgerFinite DEF Transaction
<1>2. CASE i \in DOMAIN ledger
  <2>1. P = UpTo(u, i) /\ P \in SUBSET DOMAIN ledger /\ i \in Among(E)
    BY <1>1, <1>2 DEF UpTo, Among
  <2>2. SumFunctionOnSet(Amounts', P) = SumFunctionOnSet(Amounts, P)
    <3> HIDE DEF P
    <3> QED BY <1>0, <1>1, <2>1, SumAfter
  <2> QED BY <1>1, <1>2, <2>1, <2>2 DEF BalanceAfter, Sum
<1>3. CASE i = n
  <2>1. P = Among(E) \cup {n} /\ Among(E) \in SUBSET DOMAIN ledger
    BY <1>1, <1>3 DEF Among
  <2>2. SumFunctionOnSet(Amounts', P) = SumFunctionOnSet(Amounts, Among(E)) + a
    <3> HIDE DEF P, a, E
    <3> QED BY <1>0, <1>1, <2>1, SumAfter DEF a
  <2>3. adj.user = u /\ ledger'[i].balance_after = balance[u] + a
    BY <1>1, <1>3 DEF EntriesOfUser, NewEntry
  <2> QED BY <2>2, <2>3 DEF BalanceOf, Total, Sum
<1> QED BY <1>1, <1>2, <1>3

LEMMA BalanceStep ==
    ASSUME LedgerInv, BalanceInv, [Next]_vars
    PROVE  BalanceInv'
<1>1. CASE NothingBooked
  <2>1. \A E : Among(E)' = Among(E) /\ Total(E)' = Total(E)
    BY <1>1 DEF NothingBooked, Among, Total, Sum, Amounts
  <2> SUFFICES ASSUME NEW u \in Users
               PROVE  /\ BalanceOf(u)'
                      /\ \A i \in Among(EntriesOfUser(u))' : BalanceAfter(u, i)'
    BY DEF BalanceInv
  <2>2. BalanceOf(u)'
    BY <1>1, <2>1 DEF BalanceInv, BalanceOf, NothingBooked, EntriesOfUser, UsageOfUser
  <2>3. \A i \in Among(EntriesOfUser(u))' : BalanceAfter(u, i)'
    BY <1>1 DEF BalanceInv, BalanceAfter, NothingBooked, EntriesOfUser, UpTo, Among, Sum, Amounts
  <2> QED BY <2>2, <2>3
<1>2. ASSUME NEW adj \in Adjustment, Transaction(adj) PROVE BalanceInv'
  <2> SUFFICES ASSUME NEW u \in Users
               PROVE  /\ BalanceOf(u)'
                      /\ \A i \in Among(EntriesOfUser(u))' : BalanceAfter(u, i)'
    BY DEF BalanceInv
  <2>1. BalanceOf(u)'
    BY <1>2, BalanceBooked DEF BalanceInv
  <2>2. ASSUME NEW i \in DOMAIN ledger', ledger'[i] \in EntriesOfUser(u)
        PROVE  ledger'[i].balance_after =
                 SumFunctionOnSet(Amounts', {j \in DOMAIN ledger' :
                                               ledger'[j] \in EntriesOfUser(u) /\ j <= i})
    BY <1>2, <2>2, BalanceAfterBooked DEF BalanceInv
  <2>3. ASSUME NEW i \in Among(EntriesOfUser(u))' PROVE BalanceAfter(u, i)'
    <3>1. i \in DOMAIN ledger' /\ ledger'[i] \in EntriesOfUser(u)
      BY DEF Among, EntriesOfUser
    <3>2. UpTo(u, i)' = {j \in DOMAIN ledger' : ledger'[j] \in EntriesOfUser(u) /\ j <= i}
      BY DEF UpTo, Among, EntriesOfUser
    <3> QED BY <2>2, <3>1, <3>2 DEF BalanceAfter, Sum
  <2> QED BY <2>1, <2>3
<1> QED
  BY <1>1, <1>2, OneTransaction DEF Booking, LedgerInv

LEMMA BalanceInit == Init => BalanceInv
<1> SUFFICES ASSUME Init, NEW u \in Users
             PROVE  BalanceOf(u) /\ Among(EntriesOfUser(u)) = {}
  BY DEF BalanceInv
<1>1. \A E : Among(E) = {} /\ Total(E) = 0
  BY SumEmpty DEF Init, LedgerInit, Among, Total, Sum
<1>2. SumFunctionOnSet(spend[u], Days) = 0
  BY DaysAssumption, SumZero DEF Init, LedgerInit
<1>3. balance[u] = 0 /\ used[u] = 0
  BY DEF Init, LedgerInit
<1> QED BY <1>1, <1>2, <1>3 DEF BalanceOf

\* What tzl reconcile recomputes is what the tables hold, at every moment and
\* for every history of grants, redemptions, precharges, clamped settlements,
\* refunds, lost answers and crashes: balances, balance_after of each entry,
\* credit_used and the daily counters.
THEOREM BalancesReconcile == Spec => []BalanceReconciles
<1>1. Init => LedgerInv /\ BalanceInv
  BY TypeInit, EntriesInit, BalanceInit DEF LedgerInv
<1>2. LedgerInv /\ BalanceInv /\ [Next]_vars => (LedgerInv /\ BalanceInv)'
  BY TypeStep, EntriesStep, BalanceStep DEF LedgerInv
<1>3. LedgerInv /\ BalanceInv => BalanceReconciles
  <2> SUFFICES ASSUME LedgerInv, BalanceInv, NEW u \in Users
               PROVE  LET entries == {i \in DOMAIN ledger : ledger[i].user = u}
                      IN  /\ balance[u] = Sum(entries)
                          /\ \A i \in entries :
                                ledger[i].balance_after = Sum({j \in entries : j <= i})
                          /\ used[u] = -Sum(UsageOf(u))
                          /\ used[u] = SumFunctionOnSet(spend[u], Days)
    BY DEF BalanceReconciles
  <2>1. \A i \in DOMAIN ledger : ledger[i] \in Entry
    BY LedgerFinite DEF LedgerInv, TypeInv, TypeOK
  <2>2. {i \in DOMAIN ledger : ledger[i].user = u} = Among(EntriesOfUser(u))
    BY <2>1 DEF Among, EntriesOfUser
  <2>3. UsageOf(u) = Among(UsageOfUser(u))
    BY <2>1 DEF Among, UsageOfUser, UsageOf
  <2> QED BY <2>2, <2>3 DEF BalanceInv, BalanceOf, BalanceAfter, UpTo, Total
<1> QED BY <1>1, <1>2, <1>3, PTL DEF Spec

-----------------------------------------------------------------------------
(* Limits *)

\* Settlements that took more than the precharge.
Supplementing == {e \in Entry : e.type = "settle_adjust" /\ e.amount < 0}
UserSupplements(u, d) == {e \in Supplementing : e.user = u /\ DayOf[e.at] = d}
KeyDaySupplements(k, d) == {e \in Supplementing : e.ref = k /\ DayOf[e.at] = d}
KeySupplements(k) == {e \in Supplementing : e.ref = k}

\* A counter within its limit and what settlements of some kind added.
Within(x, limit, E) == x <= limit - Total(E) /\ Total(E) <= 0

\* A transaction leaves a counter so if it was checked against the limit, does
\* not raise it, or is such a settlement.
LEMMA WithinBooked ==
    ASSUME LedgerTypeOK, NEW adj \in Adjustment, Transaction(adj),
           NEW E \in SUBSET Supplementing, NEW limit \in Nat, NEW x \in Int, NEW y \in Int,
           Within(x, limit, E),
           y <= limit \/ y <= x \/ (y = x - Effective(adj) /\ NewEntry(adj) \in E)
    PROVE  LET total == SumFunctionOnSet(Amounts', {i \in DOMAIN ledger' : ledger'[i] \in E})
           IN  y <= limit - total /\ total <= 0
<1> DEFINE a == Effective(adj)
           t == Total(E)
           s == SumFunctionOnSet(Amounts', {i \in DOMAIN ledger' : ledger'[i] \in E})
<1>1. s = IF NewEntry(adj) \in E THEN t + a ELSE t
  BY TotalAfter DEF Transaction
<1>2. t \in Int /\ a \in Int
  BY TotalInt, ApplyTxEntry DEF Transaction
<1>3. NewEntry(adj) \in E => a < 0
  BY DEF Supplementing, NewEntry
<1>4. x <= limit - t /\ t <= 0
  BY DEF Within
<1> HIDE DEF a, t, s
<1>5. y <= limit \/ y <= x \/ (y = x - a /\ NewEntry(adj) \in E)
  BY DEF a
<1> QED BY <1>1, <1>2, <1>3, <1>4, <1>5 DEF s

LimitsInv ==
    /\ \A u \in Users, d \in Days : DailyLimit[u] > 0 =>
          Within(spend[u][d], DailyLimit[u], UserSupplements(u, d))
    /\ \A k \in Keys, d \in Days : KeyDailyLimit[k] > 0 =>
          Within(keySpend[k][d], KeyDailyLimit[k], KeyDaySupplements(k, d))
    /\ \A k \in Keys : CreditLimit[k] # None =>
          Within(keyUsed[k], CreditLimit[k], KeySupplements(k))

\* What the checks and the kinds of entries say of what is booked: more than
\* nothing is only taken by a precharge, which was checked, or a settlement.
LEMMA TakenHow ==
    ASSUME LedgerTypeOK, NEW adj \in Adjustment, Transaction(adj), AffectsUsed(adj)
    PROVE  /\ Effective(adj) \in Int /\ NewEntry(adj) \in Entry
           /\ adj.user \in Users /\ adj.ref \in Keys /\ DayOf[now] \in Days /\ now \in Time
           /\ adj.type = "consume" => /\ Effective(adj) = adj.amount
                                      /\ ~CreditLimitHit(adj)
                                      /\ Effective(adj) < 0 => ~OverDailyLimit(adj)
           /\ Effective(adj) < 0 =>
                 \/ adj.type = "consume"
                 \/ /\ NewEntry(adj) \in UserSupplements(adj.user, DayOf[now])
                    /\ NewEntry(adj) \in KeyDaySupplements(adj.ref, DayOf[now])
                    /\ NewEntry(adj) \in KeySupplements(adj.ref)
<1>1. Effective(adj) \in Int /\ NewEntry(adj) \in Entry
  BY ApplyTxEntry DEF Transaction
<1>2. adj.user \in Users /\ adj.ref \in Keys /\ adj.type \in UsageTypes
  BY DEF Adjustment, AffectsUsed
<1>3. now \in Time /\ DayOf[now] \in Days
  BY LedgerAssumption DEF LedgerTypeOK
<1>4. adj.type = "consume" => /\ Effective(adj) = adj.amount
                              /\ ~CreditLimitHit(adj)
                              /\ Effective(adj) < 0 => ~OverDailyLimit(adj)
  BY TransactionAmount DEF Transaction, Admissible, DailyLimitExceeded
<1>5. adj.type = "refund" => Effective(adj) >= 0
  BY TransactionAmount DEF EntryOK, NewEntry
<1>6. ASSUME Effective(adj) < 0, adj.type # "consume"
      PROVE  /\ NewEntry(adj) \in UserSupplements(adj.user, DayOf[now])
             /\ NewEntry(adj) \in KeyDaySupplements(adj.ref, DayOf[now])
             /\ NewEntry(adj) \in KeySupplements(adj.ref)
  <2>1. adj.type = "settle_adjust"
    BY <1>1, <1>2, <1>5, <1>6 DEF UsageTypes
  <2> QED BY <1>1, <1>6, <2>1
          DEF UserSupplements, KeyDaySupplements, KeySupplements, Supplementing, NewEntry
<1> QED BY <1>1, <1>2, <1>3, <1>4, <1>6

LEMMA LimitsBooked ==
    ASSUME LedgerTypeOK, LimitsInv, NEW adj \in Adjustment, Transaction(adj)
    PROVE  LimitsInv'
<1> DEFINE a == Effective(adj)
           today == DayOf[now]
<1>1. /\ spend \in [Users -> [Days -> Int]] /\ keySpend \in [Keys -> [Days -> Int]]
      /\ keyUsed \in [Keys -> Nat] /\ ApplyTx(adj)
  BY DEF LedgerTypeOK, TablesTypeOK, Transaction
<1>2. /\ DailyLimit \in [Users -> Nat] /\ KeyDailyLimit \in [Keys -> Nat]
      /\ \A k \in Keys : CreditLimit[k] # None => CreditLimit[k] \in Nat
  BY LedgerAssumption
<1>3. ASSUME NEW u \in Users, NEW d \in Days, DailyLimit[u] > 0
      PROVE  Within(spend[u][d], DailyLimit[u], UserSupplements(u, d))'
  <2> DEFINE x == spend[u][d]
             y == spend'[u][d]
             E == UserSupplements(u, d)
             limit == DailyLimit[u]
  <2>1. /\ x \in Int /\ limit \in Nat /\ E \in SUBSET Supplementing
        /\ Within(x, limit, E)
    BY <1>1, <1>2, <1>3 DEF LimitsInv, UserSupplements
  <2>2. y \in Int /\ (y <= limit \/ y <= x \/ (y = x - a /\ NewEntry(adj) \in E))
    <3>1. CASE ~(AffectsUsed(adj) /\ adj.user = u /\ today = d)
      <4>1. y = x
        BY <1>1, <3>1 DEF ApplyTx
      <4> QED BY <2>1, <4>1
    <3>2. CASE AffectsUsed(adj) /\ adj.user = u /\ today = d
      <4>1. y = x - a /\ a \in Int
        BY <1>1, <3>2, TakenHow DEF ApplyTx
      <4>2. CASE a < 0 /\ adj.type = "consume"
        <5>1. a = adj.amount /\ ~OverDailyLimit(adj)
          BY <3>2, <4>2, TakenHow
        <5>2. ~(x + (-a) > limit)
          BY <1>3, <3>2, <5>1 DEF OverDailyLimit, ProjectedDailySpendExceeds
        <5> HIDE DEF x, y, a, limit
        <5> QED BY <2>1, <4>1, <5>2
      <4>3. CASE a < 0 /\ adj.type # "consume"
        <5>1. NewEntry(adj) \in E
          BY <3>2, <4>3, TakenHow
        <5> HIDE DEF x, y, a, limit, E
        <5> QED BY <2>1, <4>1, <5>1
      <4>4. CASE a >= 0
        <5> HIDE DEF x, y, a, limit, E
        <5> QED BY <2>1, <4>1, <4>4
      <4> QED BY <4>1, <4>2, <4>3, <4>4
    <3> QED BY <3>1, <3>2
  <2>3. LET total == SumFunctionOnSet(Amounts', {i \in DOMAIN ledger' : ledger'[i] \in E})
        IN  y <= limit - total /\ total <= 0
    <3> HIDE DEF x, y, E, limit
    <3> QED BY <2>1, <2>2, WithinBooked
  <2> QED BY <2>3 DEF Within, Total, Among, Sum, UserSupplements
<1>4. ASSUME NEW k \in Keys, NEW d \in Days, KeyDailyLimit[k] > 0
      PROVE  Within(keySpend[k][d], KeyDailyLimit[k], KeyDaySupplements(k, d))'
  <2> DEFINE x == keySpend[k][d]
             y == keySpend'[k][d]
             E == KeyDaySupplements(k, d)
             limit == KeyDailyLimit[k]
  <2>1. /\ x \in Int /\ limit \in Nat /\ E \in SUBSET Supplementing
        /\ Within(x, limit, E)
    BY <1>1, <1>2, <1>4 DEF LimitsInv, KeyDaySupplements
  <2>2. y \in Int /\ (y <= limit \/ y <= x \/ (y = x - a /\ NewEntry(adj) \in E))
    <3>1. CASE ~(AffectsUsed(adj) /\ adj.ref = k /\ today = d)
      <4>1. y = x
        BY <1>1, <3>1 DEF ApplyTx
      <4> QED BY <2>1, <4>1
    <3>2. CASE AffectsUsed(adj) /\ adj.ref = k /\ today = d
      <4>1. y = x - a /\ a \in Int
        BY <1>1, <3>2, TakenHow DEF ApplyTx
      <4>2. CASE a < 0 /\ adj.type = "consume"
        <5>1. a = adj.amount /\ ~OverDailyLimit(adj)
          BY <3>2, <4>2, TakenHow
        <5>2. ~(x + (-a) > limit)
          BY <1>4, <3>2, <5>1 DEF OverDailyLimit, ProjectedDailySpendExceeds
        <5> HIDE DEF x, y, a, limit
        <5> QED BY <2>1, <4>1, <5>2
      <4>3. CASE a < 0 /\ adj.type # "consume"
        <5>1. NewEntry(adj) \in E
          BY <3>2, <4>3, TakenHow
        <5> HIDE DEF x, y, a, limit, E
        <5> QED BY <2>1, <4>1, <5>1
      <4>4. CASE a >= 0
        <5> HIDE DEF x, y, a, limit, E
        <5> QED BY <2>1, <4>1, <4>4
      <4> QED BY <4>1, <4>2, <4>3, <4>4
    <3> QED BY <3>1, <3>2
  <2>3. LET total == SumFunctionOnSet(Amounts', {i \in DOMAIN ledger' : ledger'[i] \in E})
        IN  y <= limit - total /\ total <= 0
    <3> HIDE DEF x, y, E, limit
    <3> QED BY <2>1, <2>2, WithinBooked
  <2> QED BY <2>3 DEF Within, Total, Among, Sum, KeyDaySupplements
<1>5. ASSUME NEW k \in Keys, CreditLimit[k] # None
      PROVE  Within(keyUsed[k], CreditLimit[k], KeySupplements(k))'
  <2> DEFINE x == keyUsed[k]
             y == keyUsed'[k]
             E == KeySupplements(k)
             limit == CreditLimit[k]
  <2>1. /\ x \in Int /\ limit \in Nat /\ E \in SUBSET Supplementing
        /\ Within(x, limit, E)
    <3>1. x \in Nat /\ limit \in Nat
      BY <1>1, <1>2, <1>5
    <3>2. E \in SUBSET Supplementing
      BY DEF KeySupplements
    <3>3. Within(x, limit, E)
      BY <1>5 DEF LimitsInv
    <3> HIDE DEF x, E, limit
    <3> QED BY <3>1, <3>2, <3>3
  <2>2. y \in Int /\ (y <= limit \/ y <= x \/ (y = x - a /\ NewEntry(adj) \in E))
    <3>1. CASE ~(AffectsUsed(adj) /\ adj.ref = k)
      <4>1. y = x
        BY <1>1, <3>1 DEF ApplyTx
      <4> QED BY <2>1, <4>1
    <3>2. CASE AffectsUsed(adj) /\ adj.ref = k
      <4>1. y = (IF adj.type # "consume" /\ x - a < 0 THEN 0 ELSE x - a) /\ a \in Int
        BY <1>1, <3>2, TakenHow DEF ApplyTx, KeyUsedAfter
      <4>2. CASE adj.type = "consume"
        <5>1. a = adj.amount /\ ~CreditLimitHit(adj)
          BY <3>2, <4>2, TakenHow
        <5>2. ~(x - a > limit)
          BY <1>5, <3>2, <4>2, <5>1 DEF CreditLimitHit
        <5> HIDE DEF x, y, a, limit
        <5> QED BY <2>1, <4>1, <4>2, <5>2
      <4>3. CASE adj.type # "consume" /\ a < 0
        <5>1. NewEntry(adj) \in E
          BY <3>2, <4>3, TakenHow
        <5> HIDE DEF x, y, a, limit, E
        <5> QED BY <2>1, <4>1, <5>1
      <4>4. CASE adj.type # "consume" /\ a >= 0
        <5> HIDE DEF x, y, a, limit, E
        <5> QED BY <2>1, <4>1, <4>4
      <4> QED BY <4>1, <4>2, <4>3, <4>4
    <3> QED BY <3>1, <3>2
  <2>3. LET total == SumFunctionOnSet(Amounts', {i \in DOMAIN ledger' : ledger'[i] \in E})
        IN  y <= limit - total /\ total <= 0
    <3> HIDE DEF x, y, E, limit
    <3> QED BY <2>1, <2>2, WithinBooked
  <2> QED BY <2>3 DEF Within, Total, Among, Sum, KeySupplements
<1> QED BY <1>3, <1>4, <1>5 DEF LimitsInv

LEMMA LimitsStep ==
    ASSUME LedgerInv, LimitsInv, [Next]_vars
    PROVE  LimitsInv'
<1>1. CASE NothingBooked
  <2>1. \A E : Total(E)' = Total(E)
    BY <1>1 DEF NothingBooked, Among, Total, Sum, Amounts
  <2> QED BY <1>1, <2>1 DEF NothingBooked, LimitsInv, Within
<1> QED BY <1>1, OneTransaction, LimitsBooked DEF Booking, LedgerInv, TypeInv, TypeOK

LEMMA LimitsInit == Init => LimitsInv
<1> SUFFICES ASSUME Init PROVE LimitsInv
  OBVIOUS
<1>1. \A E : Total(E) = 0
  BY SumEmpty DEF Init, LedgerInit, Among, Total, Sum
<1>2. /\ \A u \in Users, d \in Days : spend[u][d] = 0
      /\ \A k \in Keys, d \in Days : keySpend[k][d] = 0
      /\ \A k \in Keys : keyUsed[k] = 0
  BY DEF Init, LedgerInit
<1> QED BY <1>1, <1>2, LedgerAssumption DEF LimitsInv, Within

\* What Supplements takes out of the usage of a user or a key is Supplementing.
LEMMA SupplementsTotal ==
    ASSUME LedgerTypeOK
    PROVE  /\ \A u \in Users, d \in Days :
                 Supplements(BookedOn(d, UsageOf(u))) = -Total(UserSupplements(u, d))
           /\ \A k \in Keys, d \in Days :
                 Supplements(BookedOn(d, UsageOn(k))) = -Total(KeyDaySupplements(k, d))
           /\ \A k \in Keys : Supplements(UsageOn(k)) = -Total(KeySupplements(k))
<1>1. \A i \in DOMAIN ledger : ledger[i] \in Entry
  BY LedgerFinite
<1>2. ASSUME NEW u \in Users, NEW d \in Days
      PROVE  Supplements(BookedOn(d, UsageOf(u))) = -Total(UserSupplements(u, d))
  <2>1. {i \in BookedOn(d, UsageOf(u)) : ledger[i].type = "settle_adjust" /\ ledger[i].amount < 0}
          = Among(UserSupplements(u, d))
    BY <1>1 DEF BookedOn, UsageOf, UsageTypes, Among, UserSupplements, Supplementing
  <2> QED BY <2>1 DEF Supplements, Total
<1>3. ASSUME NEW k \in Keys, NEW d \in Days
      PROVE  Supplements(BookedOn(d, UsageOn(k))) = -Total(KeyDaySupplements(k, d))
  <2>1. {i \in BookedOn(d, UsageOn(k)) : ledger[i].type = "settle_adjust" /\ ledger[i].amount < 0}
          = Among(KeyDaySupplements(k, d))
    BY <1>1 DEF BookedOn, UsageOn, UsageTypes, Among, KeyDaySupplements, Supplementing
  <2> QED BY <2>1 DEF Supplements, Total
<1>4. ASSUME NEW k \in Keys
      PROVE  Supplements(UsageOn(k)) = -Total(KeySupplements(k))
  <2>1. {i \in UsageOn(k) : ledger[i].type = "settle_adjust" /\ ledger[i].amount < 0}
          = Among(KeySupplements(k))
    BY <1>1 DEF UsageOn, UsageTypes, Among, KeySupplements, Supplementing
  <2> QED BY <2>1 DEF Supplements, Total
<1> QED BY <1>2, <1>3, <1>4

\* However many precharges, settlements and refunds of however many sessions
\* and processes interleave: a daily counter exceeds its limit by no more than
\* what settlements of that day took beyond their precharges, and a key's
\* credit_used its credit_limit likewise.
THEOREM LimitsAreKept == Spec => []LimitsHold
<1>1. Init => LedgerInv /\ LimitsInv
  BY TypeInit, EntriesInit, LimitsInit DEF LedgerInv
<1>2. LedgerInv /\ LimitsInv /\ [Next]_vars => (LedgerInv /\ LimitsInv)'
  BY TypeStep, EntriesStep, LimitsStep DEF LedgerInv
<1>3. LedgerInv /\ LimitsInv => LimitsHold
  <2> SUFFICES ASSUME LedgerInv, LimitsInv PROVE LimitsHold
    OBVIOUS
  <2>1. LedgerTypeOK
    BY DEF LedgerInv, TypeInv, TypeOK
  <2>2. \A n, m \in Int : n + (-m) = n - m
    OBVIOUS
  <2>3. /\ \A E : Total(E) \in Int
        /\ DailyLimit \in [Users -> Nat] /\ KeyDailyLimit \in [Keys -> Nat]
        /\ \A k \in Keys : CreditLimit[k] # None => CreditLimit[k] \in Nat
    BY <2>1, TotalInt, LedgerAssumption
  <2> QED BY <2>1, <2>2, <2>3, SupplementsTotal DEF LimitsHold, LimitsInv, Within
<1> QED BY <1>1, <1>2, <1>3, PTL DEF Spec

-----------------------------------------------------------------------------
(* Redemption codes *)

PaidFor(c) == {e \in Entry : e.ref = c}

\* A code that is not used has no entry; a used one has paid its credits, to
\* one user.
CodeInv ==
    \A c \in Codes :
        /\ Total(PaidFor(c)) = IF codes[c] = "used" THEN CodeCredits[c] ELSE 0
        /\ codes[c] # "used" => Among(PaidFor(c)) = {}
        /\ \A i, j \in Among(PaidFor(c)) : ledger[i].user = ledger[j].user

LEMMA CodeBooked ==
    ASSUME LedgerTypeOK, CodeInv, NEW adj \in Adjustment, Transaction(adj), CodesMove(adj)
    PROVE  CodeInv'
<1> DEFINE n == Len(ledger) + 1
<1>1. /\ codes \in [Codes -> {"unused", "used", "disabled"}]
      /\ NewEntry(adj) \in Entry /\ Effective(adj) \in Int
      /\ n \notin DOMAIN ledger /\ \A i \in DOMAIN ledger : ledger'[i] = ledger[i]
      /\ ApplyTx(adj)
  BY ApplyTxEntry DEF LedgerTypeOK, Transaction
<1> SUFFICES ASSUME NEW c \in Codes
             PROVE  /\ Total(PaidFor(c))' = IF codes'[c] = "used" THEN CodeCredits[c] ELSE 0
                    /\ codes'[c] # "used" => Among(PaidFor(c))' = {}
                    /\ \A i, j \in Among(PaidFor(c))' : ledger'[i].user = ledger'[j].user
  BY DEF CodeInv
<1>2. NewEntry(adj) \in PaidFor(c) <=> adj.ref = c
  BY <1>1 DEF PaidFor, NewEntry
<1>3. Among(PaidFor(c))' = IF adj.ref = c THEN Among(PaidFor(c)) \cup {n} ELSE Among(PaidFor(c))
  BY <1>1, <1>2, AmongAfter DEF Among, PaidFor
<1>4. Total(PaidFor(c))' = IF adj.ref = c THEN Total(PaidFor(c)) + Effective(adj)
                           ELSE Total(PaidFor(c))
  BY <1>1, <1>2, TotalAfter DEF Total, Among, Sum, PaidFor
<1>5. CASE adj.ref = c
  <2>1. codes[c] = "unused" /\ codes'[c] = "used" /\ adj.amount = CodeCredits[c]
    BY <1>1, <1>5 DEF CodesMove
  <2>2. Among(PaidFor(c))' = {n} /\ Total(PaidFor(c)) = 0
    BY <1>3, <1>5, <2>1 DEF CodeInv
  <2>3. adj.type = "redeem"
    BY <1>5 DEF Transaction, EntryOK
  <2>4. Effective(adj) = CodeCredits[c]
    BY <2>1, <2>3, TransactionAmount
  <2> QED BY <1>1, <1>4, <1>5, <2>1, <2>2, <2>4
<1>6. CASE adj.ref # c
  <2>1. codes'[c] = codes[c]
    BY <1>1, <1>6 DEF CodesMove
  <2>2. \A i \in Among(PaidFor(c)) : ledger'[i] = ledger[i]
    BY <1>1 DEF Among
  <2> QED BY <1>3, <1>4, <1>6, <2>1, <2>2 DEF CodeInv
<1> QED BY <1>5, <1>6

LEMMA CodeStep ==
    ASSUME LedgerInv, CodeInv, [Next]_vars
    PROVE  CodeInv'
<1>1. LedgerTypeOK /\ codes \in [Codes -> {"unused", "used", "disabled"}]
  BY DEF LedgerInv, TypeInv, TypeOK, LedgerTypeOK
<1>2. CASE NothingBooked
  <2>1. \A E : Total(E)' = Total(E) /\ Among(E)' = Among(E)
    BY <1>2 DEF NothingBooked, Among, Total, Sum, Amounts
  <2>2. \A c \in Codes : codes'[c] = "used" <=> codes[c] = "used"
    BY <1>1, <1>2 DEF NothingBooked
  <2> QED BY <1>2, <2>1, <2>2 DEF NothingBooked, CodeInv, PaidFor
<1> QED BY <1>1, <1>2, OneTransaction, CodeBooked DEF Booking, LedgerInv

LEMMA CodeInit == Init => CodeInv
<1> SUFFICES ASSUME Init PROVE CodeInv
  OBVIOUS
<1>1. \A E : Among(E) = {} /\ Total(E) = 0
  BY SumEmpty DEF Init, LedgerInit, Among, Total, Sum
<1> QED BY <1>1 DEF Init, LedgerInit, CodeInv

\* A code pays its credits once, to one user, whoever redeems it, disables it
\* and puts it back in whatever order; one that is not used has paid nothing.
THEOREM CodesArePaidOnce == Spec => []CodesPayOnce
<1>1. Init => LedgerInv /\ CodeInv
  BY TypeInit, EntriesInit, CodeInit DEF LedgerInv
<1>2. LedgerInv /\ CodeInv /\ [Next]_vars => (LedgerInv /\ CodeInv)'
  BY TypeStep, EntriesStep, CodeStep DEF LedgerInv
<1>3. LedgerInv /\ CodeInv => CodesPayOnce
  <2> SUFFICES ASSUME LedgerInv, CodeInv, NEW c \in Codes
               PROVE  {i \in DOMAIN ledger : ledger[i].ref = c} = Among(PaidFor(c))
    BY DEF CodesPayOnce, CodeInv, Total
  <2> QED BY LedgerFinite DEF Among, PaidFor, LedgerInv, TypeInv, TypeOK
<1> QED BY <1>1, <1>2, <1>3, PTL DEF Spec

-----------------------------------------------------------------------------
(* Holds *)

\* The unique index: what is booked under an id is of a type of its own.
EntriesUnique ==
    \A i, j \in DOMAIN ledger :
        /\ ledger[i].req = ledger[j].req /\ ledger[i].req # None
        /\ ledger[i].type = ledger[j].type
        => i = j

\* What entry e did to a hold of p: gave it back, or took what was used, or
\* less and the rest of the balance.
ReleasesHold(e, p) == e.type = "refund" => e.amount = p
ChargesHold(e, p, charge) ==
    e.type = "settle_adjust" =>
        /\ 0 <= p - e.amount /\ p - e.amount <= charge
        /\ p - e.amount < charge => e.balance_after = 0

\* A session that can still end its hold knows what it holds; whoever has ended
\* it did so by what was held.
HoldAmounts(r) ==
    /\ InFlight(r) \/ state[r] = "Precharged" =>
          \A i \in ConsumesOf(r) : ledger[i].amount = -precharged[r]
    /\ \A i \in ConsumesOf(r), j \in MovementsOf(r) :
          /\ ReleasesHold(ledger[j], -ledger[i].amount)
          /\ ChargesHold(ledger[j], -ledger[i].amount, final[r])

HoldInv == EntriesUnique /\ \A r \in Requests : HoldAmounts(r)

\* What a row of the usage log, or a record on its way there, says of r.
SettledAt(r, charged) ==
    \E i \in MovementsOf(r) :
        /\ ledger[i].type = "settle_adjust"
        /\ precharged[r] - ledger[i].amount = charged \/ ledger[i].balance_after = 0
GivenUp(r) == Booked(r, "consume") /\ ~InFlight(r) /\ ~Booked(r, "settle_adjust")

RecordOK(r, l) ==
    /\ l.status = "settled" => SettledAt(r, l.charged)
    /\ l.status = "refunded" => l.charged = 0 /\ GivenUp(r)

LogInv ==
    /\ \A i \in DOMAIN logQueue : RecordOK(logQueue[i].req, logQueue[i])
    /\ \A r \in Requests : logs[r] # None => RecordOK(r, logs[r])

\* What a session knows of a hold stays as it is: no step returns to a request
\* once it is held and its handler has left the upstream.
SessionKept(r) ==
    /\ Booked(r, "consume") =>
          /\ precharged'[r] = precharged[r]
          /\ InFlight(r)' => InFlight(r)
          /\ state'[r] = "Precharged" => state[r] = "Precharged"
    /\ pc[r] # "upstream" => final'[r] = final[r]

LEMMA SessionKeeps ==
    ASSUME TypeInv, TerminationInv, NEW r \in Requests, [Next]_vars
    PROVE  SessionKept(r)
<1>1. /\ pc \in [Requests -> Handler] /\ state \in [Requests -> SessionState]
      /\ precharged \in [Requests -> Nat] /\ final \in [Requests -> Nat]
  BY DEF TypeInv, TypeOK
<1>2. ASSUME NEW q \in Requests, NEW amount \in PrechargeAmounts, Precharge(q, amount)
      PROVE  SessionKept(r)
  <2>1. q # None
    BY LedgerAssumption
  <2>2. ~Booked(q, "consume")
    BY <1>2, <2>1
       DEF Precharge, Admissible, Duplicate, ConsumeAdjustment, UsageAdjustment
  <2> QED BY <1>1, <1>2, <2>2 DEF Precharge, SessionKept, InFlight
<1>3. ASSUME NEW q \in Requests, NEW amount \in FinalAmounts, BeginSettle(q, amount)
      PROVE  SessionKept(r)
  <2>1. pc[q] = "upstream"
    BY <1>3 DEF BeginSettle, Answering, TerminationInv, DeadlineOK
  <2> QED BY <1>1, <1>3, <2>1 DEF BeginSettle, SessionKept, InFlight
<1>4. ASSUME NEW q \in Requests,
             \/ \E amount \in PrechargeAmounts : RejectPrecharge(q, amount)
             \/ Authenticate(q) \/ Resend(q) \/ Stall(q) \/ HandlerPanic(q)
             \/ Settle(q) \/ UpstreamFailed(q) \/ EnsureFinal(q)
      PROVE  SessionKept(r)
  <2>1. UNCHANGED precharged /\ UNCHANGED final
    BY <1>4 DEF RejectPrecharge, Authenticate, Resend, Stall, HandlerPanic, Settle,
                UpstreamFailed, EnsureFinal
  <2>2. InFlight(r)' => InFlight(r)
    BY <1>1, <1>4 DEF RejectPrecharge, Authenticate, Resend, Stall, HandlerPanic, Settle,
                      UpstreamFailed, EnsureFinal, InFlight
  <2>3. state'[r] = "Precharged" => state[r] = "Precharged"
    BY <1>1, <1>4 DEF RejectPrecharge, Authenticate, Resend, Stall, HandlerPanic, Settle,
                      UpstreamFailed, EnsureFinal, Refund
  <2> QED BY <2>1, <2>2, <2>3 DEF SessionKept
<1>5. CASE Crash
  BY <1>1, <1>5 DEF Crash, SessionKept, InFlight
<1>6. CASE \/ \E c \in Cleaners : Scan(c) \/ RefundOrphan(c)
           \/ PersistLog \/ LoseLog \/ Tick \/ Account \/ UNCHANGED vars
  BY <1>6 DEF Scan, RefundOrphan, PersistLog, LoseLog, Tick, Account, vars, sessionVars,
              SessionKept, InFlight
<1> QED BY <1>2, <1>3, <1>4, <1>5, <1>6 DEF Next, Session

\* The entries of a request before and after a transaction.
LEMMA EntriesAfter ==
    ASSUME LedgerTypeOK, NEW adj \in Adjustment, Transaction(adj)
    PROVE  LET n == Len(ledger) + 1
           IN  /\ n \notin DOMAIN ledger /\ ledger'[n] = NewEntry(adj)
               /\ \A r : /\ ConsumesOf(r)' = IF adj.req = r /\ adj.type = "consume"
                                             THEN ConsumesOf(r) \cup {n} ELSE ConsumesOf(r)
                         /\ MovementsOf(r)' = IF adj.req = r
                                              THEN MovementsOf(r) \cup {n} ELSE MovementsOf(r)
                         /\ \A i \in MovementsOf(r) : ledger'[i] = ledger[i]
               /\ \A r, type : Booked(r, type)' <=>
                                  Booked(r, type) \/ (r = adj.req /\ type = adj.type)
<1> DEFINE n == Len(ledger) + 1
<1>1. /\ n \notin DOMAIN ledger /\ DOMAIN ledger' = DOMAIN ledger \cup {n}
      /\ \A i \in DOMAIN ledger : ledger'[i] = ledger[i]
      /\ ledger'[n] = NewEntry(adj)
  BY ApplyTxEntry DEF Transaction
<1>2. ledger'[n].req = adj.req /\ ledger'[n].type = adj.type
  BY <1>1 DEF NewEntry
<1> HIDE DEF n
<1>3. ASSUME NEW r
      PROVE  /\ ConsumesOf(r)' = IF adj.req = r /\ adj.type = "consume"
                                 THEN ConsumesOf(r) \cup {n} ELSE ConsumesOf(r)
             /\ MovementsOf(r)' = IF adj.req = r
                                  THEN MovementsOf(r) \cup {n} ELSE MovementsOf(r)
             /\ \A i \in MovementsOf(r) : ledger'[i] = ledger[i]
  BY <1>1, <1>2 DEF ConsumesOf, MovementsOf
<1>4. ASSUME NEW r, NEW type
      PROVE  Booked(r, type)' <=> Booked(r, type) \/ (r = adj.req /\ type = adj.type)
  BY <1>1, <1>2 DEF Booked
<1> QED BY <1>1, <1>3, <1>4 DEF n

LEMMA UniqueStep ==
    ASSUME LedgerInv, EntriesUnique, [Next]_vars
    PROVE  EntriesUnique'
<1>1. CASE NothingBooked
  BY <1>1 DEF NothingBooked, EntriesUnique
<1>2. ASSUME NEW adj \in Adjustment, Transaction(adj) PROVE EntriesUnique'
  <2>1. /\ DOMAIN ledger' = DOMAIN ledger \cup {Len(ledger) + 1}
        /\ \A i \in DOMAIN ledger : ledger'[i] = ledger[i]
        /\ ledger'[Len(ledger) + 1] = NewEntry(adj)
    BY <1>2, ApplyTxEntry DEF LedgerInv, TypeInv, TypeOK, Transaction
  <2>2. NewEntry(adj).req = adj.req /\ NewEntry(adj).type = adj.type
    BY DEF NewEntry
  <2>3. adj.req # None => \A i \in DOMAIN ledger :
                             ~(ledger[i].req = adj.req /\ ledger[i].type = adj.type)
    BY <1>2 DEF Transaction, Booked
  <2> QED BY <2>1, <2>2, <2>3 DEF EntriesUnique
<1> QED BY <1>1, <1>2, OneTransaction DEF Booking, LedgerInv

\* The price of a settled request is not touched any more.
LEMMA FinalKept ==
    ASSUME TypeInv, TerminationInv, NEW r \in Requests, Booked(r, "settle_adjust"), [Next]_vars
    PROVE  final'[r] = final[r]
<1>1. Terminated(r)
  BY DEF Terminated, TerminalTypes
<1>2. ~InFlight(r)
  BY <1>1 DEF TerminationInv, HoldOK
<1> QED BY <1>2, SessionKeeps DEF SessionKept, InFlight

\* A transaction that ends the hold of i, and what it books for it.
LEMMA HoldEnded ==
    ASSUME LedgerInv, TerminationInv, HoldInv, [Next]_vars,
           NEW adj \in Adjustment, Transaction(adj), Explained(adj), adj.req \in Requests,
           NEW i \in ConsumesOf(adj.req)
    PROVE  /\ ReleasesHold(NewEntry(adj), -ledger[i].amount)
           /\ ChargesHold(NewEntry(adj), -ledger[i].amount, final'[adj.req])
<1> DEFINE r == adj.req
           a == Effective(adj)
           b == balance[adj.user]
<1>1. /\ LedgerTypeOK /\ a \in Int /\ b \in Nat /\ ledger[i].amount \in Int
      /\ precharged[r] \in Nat /\ final[r] \in Nat
      /\ adj.amount <= a /\ (a # adj.amount => b + a = 0) /\ adj.amount \in Int
  <2>1. LedgerTypeOK
    BY DEF LedgerInv, TypeInv, TypeOK
  <2>2. a \in Int /\ adj.amount <= a /\ (a # adj.amount => b + a = 0)
    BY <2>1, ApplyTxEntry DEF Transaction
  <2>3. b \in Nat /\ adj.amount \in Int
    BY <2>1 DEF LedgerTypeOK, TablesTypeOK, Adjustment
  <2>4. i \in DOMAIN ledger
    BY DEF ConsumesOf
  <2>5. ledger[i].amount \in Int
    BY <2>1, <2>4, LedgerFinite
  <2>6. precharged[r] \in Nat /\ final[r] \in Nat
    BY DEF LedgerInv, TypeInv, TypeOK
  <2> QED BY <2>1, <2>2, <2>3, <2>5, <2>6
<1>2. /\ NewEntry(adj).type = adj.type /\ NewEntry(adj).amount = a
      /\ NewEntry(adj).balance_after = b + a
  BY DEF NewEntry
<1>3. HoldAmounts(r)
  BY DEF HoldInv
<1>4. CASE adj.type = "refund"
  <2>1. a = adj.amount
    BY <1>1, <1>4, TransactionAmount
  <2>2. adj.amount = -ledger[i].amount
    <3>1. CASE state[r] = "Precharged" /\ adj.amount = precharged[r]
      <4>1. ledger[i].amount = -precharged[r]
        BY <1>3, <3>1 DEF HoldAmounts
      <4> HIDE DEF r
      <4> QED BY <1>1, <3>1, <4>1
    <3>2. ASSUME NEW k \in ConsumesOf(r), adj.amount = -ledger[k].amount
          PROVE  adj.amount = -ledger[i].amount
      <4>1. k = i
        BY LedgerAssumption DEF HoldInv, EntriesUnique, ConsumesOf
      <4> QED BY <3>2, <4>1
    <3> QED BY <1>4, <3>1, <3>2 DEF Explained
  <2> QED BY <1>2, <1>4, <2>1, <2>2 DEF ReleasesHold, ChargesHold
<1>5. CASE adj.type = "settle_adjust"
  <2>1. pc[r] = "settling" /\ adj.amount = precharged[r] - final[r]
    BY <1>5 DEF Explained
  <2>2. ledger[i].amount = -precharged[r]
    BY <1>3, <2>1 DEF HoldAmounts, InFlight
  <2>3. final'[r] = final[r]
    BY <2>1, SessionKeeps DEF SessionKept, LedgerInv
  <2> DEFINE p == precharged[r]
             f == final[r]
  <2>4. /\ 0 <= p - a /\ p - a <= f
        /\ p - a < f => b + a = 0
    <3>1. /\ p \in Nat /\ f \in Nat /\ a \in Int /\ b \in Nat /\ adj.amount \in Int
          /\ adj.amount = p - f /\ adj.amount <= a /\ (a # adj.amount => b + a = 0)
      BY <1>1, <2>1
    <3> HIDE DEF a, b, p, f, r
    <3> QED BY <3>1
  <2>5. -ledger[i].amount = p
    <3> HIDE DEF p
    <3> QED BY <1>1, <2>2 DEF p
  <2> HIDE DEF a, b, p
  <2> QED BY <1>2, <1>5, <2>3, <2>4, <2>5 DEF ReleasesHold, ChargesHold
<1>6. CASE adj.type \notin TerminalTypes
  BY <1>2, <1>6 DEF ReleasesHold, ChargesHold, TerminalTypes
<1> QED BY <1>4, <1>5, <1>6 DEF TerminalTypes

LEMMA HoldBooked ==
    ASSUME LedgerInv, TerminationInv, HoldInv, [Next]_vars,
           NEW adj \in Adjustment, Transaction(adj), Explained(adj), NEW r \in Requests
    PROVE  HoldAmounts(r)'
<1> DEFINE n == Len(ledger) + 1
<1>1. /\ ConsumesOf(r)' = IF adj.req = r /\ adj.type = "consume"
                          THEN ConsumesOf(r) \cup {n} ELSE ConsumesOf(r)
      /\ MovementsOf(r)' = IF adj.req = r THEN MovementsOf(r) \cup {n} ELSE MovementsOf(r)
      /\ \A i \in MovementsOf(r) : ledger'[i] = ledger[i]
      /\ ledger'[n] = NewEntry(adj)
  BY EntriesAfter DEF LedgerInv, TypeInv, TypeOK
<1>2. /\ ConsumesOf(r) \subseteq MovementsOf(r)
      /\ ConsumesOf(r) # {} <=> Booked(r, "consume")
      /\ adj.req = r /\ adj.type = "consume" => ~Booked(r, "consume")
  BY LedgerAssumption DEF ConsumesOf, MovementsOf, Booked, Transaction
<1>3. HoldAmounts(r) /\ HoldOK(r) /\ SessionKept(r)
  BY SessionKeeps DEF HoldInv, TerminationInv, LedgerInv
<1> HIDE DEF n
<1>4. ASSUME InFlight(r)' \/ state'[r] = "Precharged", NEW i \in ConsumesOf(r)'
      PROVE  ledger'[i].amount = -precharged'[r]
  <2>1. CASE Booked(r, "consume")
    <3>1. i \in ConsumesOf(r) /\ ledger'[i] = ledger[i]
      BY <1>1, <1>2, <2>1
    <3>2. precharged'[r] = precharged[r] /\ (InFlight(r) \/ state[r] = "Precharged")
      BY <1>3, <1>4, <2>1 DEF SessionKept
    <3> QED BY <1>3, <3>1, <3>2 DEF HoldAmounts
  <2>2. CASE ~Booked(r, "consume")
    <3>1. adj.req = r /\ adj.type = "consume" /\ i = n
      BY <1>1, <1>2, <2>2
    <3>2. state[r] # "Precharged"
      BY <1>3, <2>2 DEF HoldOK
    <3>3. precharged'[r] = -adj.amount
      BY <1>4, <3>1, <3>2 DEF Explained, InFlight
    <3>4. ledger'[i].amount = adj.amount
      BY <1>1, <3>1, TransactionAmount DEF NewEntry, LedgerInv, TypeInv, TypeOK
    <3>5. adj.amount \in Int
      BY DEF Adjustment
    <3> QED BY <3>3, <3>4, <3>5
  <2> QED BY <2>1, <2>2
<1>5. ASSUME NEW i \in ConsumesOf(r)', NEW j \in MovementsOf(r)'
      PROVE  /\ ReleasesHold(ledger'[j], -ledger'[i].amount)
             /\ ChargesHold(ledger'[j], -ledger'[i].amount, final'[r])
  <2>1. CASE i \in ConsumesOf(r) /\ j \in MovementsOf(r)
    <3>1. ledger'[i] = ledger[i] /\ ledger'[j] = ledger[j]
      BY <1>1, <1>2, <2>1
    <3>2. ledger[j].type = "settle_adjust" => final'[r] = final[r]
      BY <2>1, FinalKept DEF MovementsOf, Booked, LedgerInv
    <3> QED BY <1>3, <2>1, <3>1, <3>2 DEF HoldAmounts, ChargesHold
  <2>2. CASE i \in ConsumesOf(r) /\ j = n /\ adj.req = r
    <3>1. ledger'[i] = ledger[i] /\ ledger'[j] = NewEntry(adj)
      BY <1>1, <1>2, <2>2
    <3> QED BY <2>2, <3>1, HoldEnded
  <2>3. CASE i = n /\ adj.req = r /\ adj.type = "consume"
    <3>1. ~Terminated(r)
      BY <1>2, <1>3, <2>3 DEF HoldOK
    <3>2. ledger'[j].type \notin TerminalTypes
      <4>1. CASE j \in MovementsOf(r)
        BY <1>1, <3>1, <4>1 DEF Terminated, Booked, MovementsOf
      <4>2. CASE j = n
        BY <1>1, <2>3, <4>2 DEF NewEntry, TerminalTypes
      <4> QED BY <1>1, <4>1, <4>2
    <3> QED BY <3>2 DEF ReleasesHold, ChargesHold, TerminalTypes
  <2> QED BY <1>1, <2>1, <2>2, <2>3
<1> QED BY <1>4, <1>5 DEF HoldAmounts

LEMMA HoldStep ==
    ASSUME LedgerInv, TerminationInv, HoldInv, [Next]_vars
    PROVE  HoldInv'
<1>1. EntriesUnique'
  BY UniqueStep DEF HoldInv
<1>2. ASSUME NEW r \in Requests, NothingBooked PROVE HoldAmounts(r)'
  <2>1. ledger' = ledger /\ HoldAmounts(r) /\ HoldOK(r) /\ SessionKept(r)
    BY <1>2, SessionKeeps DEF NothingBooked, HoldInv, TerminationInv, LedgerInv
  <2>2. ASSUME InFlight(r)' \/ state'[r] = "Precharged", NEW i \in ConsumesOf(r)
        PROVE  ledger[i].amount = -precharged'[r]
    <3>1. Booked(r, "consume")
      BY DEF ConsumesOf, Booked
    <3> QED BY <2>1, <2>2, <3>1 DEF SessionKept, HoldAmounts
  <2>3. ASSUME NEW j \in MovementsOf(r), ledger[j].type = "settle_adjust"
        PROVE  final'[r] = final[r]
    BY <2>3, FinalKept DEF MovementsOf, Booked, LedgerInv
  <2>4. ConsumesOf(r)' = ConsumesOf(r) /\ MovementsOf(r)' = MovementsOf(r)
    BY <2>1 DEF ConsumesOf, MovementsOf
  <2> QED BY <2>1, <2>2, <2>3, <2>4 DEF HoldAmounts, ChargesHold, ReleasesHold
<1>3. \A r \in Requests : HoldAmounts(r)'
  BY <1>2, OneTransaction, HoldBooked DEF Booking, LedgerInv
<1> QED BY <1>1, <1>3 DEF HoldInv

LEMMA HoldInit == Init => HoldInv
BY DEF Init, LedgerInit, HoldInv, EntriesUnique, HoldAmounts, ConsumesOf, MovementsOf

-----------------------------------------------------------------------------
(* Charges *)

LEMMA SumOne ==
    ASSUME LedgerTypeOK, NEW i \in DOMAIN ledger
    PROVE  Sum({i}) = ledger[i].amount
<1> DEFINE S == {i}
<1>1. Amounts[i] = ledger[i].amount /\ Amounts[i] \in Int
  BY LedgerFinite DEF Amounts
<1>2. IsFiniteSet(S) /\ i \in S /\ S \ {i} = {} /\ \A y \in S : Amounts[y] \in Int
  BY <1>1, FS_Singleton
<1> HIDE DEF S
<1>3. SumFunctionOnSet(Amounts, S) = SumFunctionOnSet(Amounts, S \ {i}) + Amounts[i]
  BY <1>2, SumTake
<1>4. SumFunctionOnSet(Amounts, S) = 0 + Amounts[i]
  BY <1>2, <1>3, SumEmpty
<1> QED BY <1>1, <1>4 DEF Sum, S

LEMMA SumTwo ==
    ASSUME LedgerTypeOK, NEW i \in DOMAIN ledger, NEW j \in DOMAIN ledger, i # j
    PROVE  Sum({i, j}) = ledger[i].amount + ledger[j].amount
<1> DEFINE S == {i, j}
<1>1. /\ Amounts[j] = ledger[j].amount
      /\ \A y \in S : Amounts[y] \in Int
  BY LedgerFinite DEF Amounts
<1>2. IsFiniteSet(S) /\ j \in S /\ S \ {j} = {i}
  BY LedgerFinite
<1> HIDE DEF S
<1>3. SumFunctionOnSet(Amounts, S) = SumFunctionOnSet(Amounts, S \ {j}) + Amounts[j]
  BY <1>1, <1>2, SumTake
<1> QED BY <1>1, <1>2, <1>3, SumOne DEF Sum, S

\* Nothing, a hold, or a hold and its end.
LEMMA MovementsShape ==
    ASSUME LedgerInv, TerminationInv, HoldInv, NEW r \in Requests
    PROVE  \/ MovementsOf(r) = {}
           \/ \E i \in ConsumesOf(r) : MovementsOf(r) = {i}
           \/ \E i \in ConsumesOf(r), j \in MovementsOf(r) :
                 MovementsOf(r) = {i, j} /\ i # j /\ ledger[j].type \in TerminalTypes
<1>1. \A i \in MovementsOf(r) : /\ i \in DOMAIN ledger /\ ledger[i].req = r
                                /\ ledger[i].type \in {"consume"} \cup TerminalTypes
  BY DEF MovementsOf, LedgerInv, EntriesOK, EntryOK, UsageTypes, TerminalTypes
<1>2. \A i, j \in MovementsOf(r) :
         \/ ledger[i].type = "consume" /\ ledger[j].type = "consume"
         \/ ledger[i].type \in TerminalTypes /\ ledger[j].type \in TerminalTypes
         => i = j
  BY <1>1, LedgerAssumption DEF HoldInv, EntriesUnique, TerminationInv, TerminatedOnce
<1>3. CASE ConsumesOf(r) = {}
  <2>1. ~Terminated(r)
    BY <1>3 DEF TerminationInv, HoldOK, Booked, ConsumesOf
  <2> QED BY <1>1, <1>3, <2>1 DEF Terminated, Booked, ConsumesOf
<1>4. ASSUME NEW i \in ConsumesOf(r)
      PROVE  \/ MovementsOf(r) = {i}
             \/ \E j \in MovementsOf(r) :
                   MovementsOf(r) = {i, j} /\ i # j /\ ledger[j].type \in TerminalTypes
  <2>1. i \in MovementsOf(r) /\ ledger[i].type = "consume"
    BY DEF ConsumesOf, MovementsOf
  <2>2. \A j \in MovementsOf(r) : j # i => ledger[j].type \in TerminalTypes
    BY <1>1, <1>2, <2>1
  <2>3. ASSUME NEW j \in MovementsOf(r), j # i
        PROVE  MovementsOf(r) = {i, j}
    BY <1>2, <2>1, <2>2, <2>3
  <2> QED BY <2>1, <2>2, <2>3
<1> QED BY <1>3, <1>4

LEMMA ChargedWithin ==
    ASSUME LedgerInv, TerminationInv, HoldInv
    PROVE  ChargeBounded
<1>0. LedgerTypeOK /\ \A r \in Requests : final[r] \in Nat
  BY DEF LedgerInv, TypeInv, TypeOK
<1> SUFFICES ASSUME NEW r \in Requests
             PROVE  /\ Charged(r) >= 0
                    /\ Booked(r, "settle_adjust") =>
                          /\ Charged(r) <= final[r]
                          /\ Charged(r) < final[r] =>
                                \E i \in MovementsOf(r) :
                                    /\ ledger[i].type = "settle_adjust"
                                    /\ ledger[i].balance_after = 0
                    /\ Booked(r, "refund") => Charged(r) = 0
  BY DEF ChargeBounded
<1>1. \A i \in ConsumesOf(r) : /\ i \in DOMAIN ledger /\ ledger[i].type = "consume"
                               /\ ledger[i].amount \in Int /\ ledger[i].amount <= 0
  BY <1>0, LedgerFinite DEF ConsumesOf, LedgerInv, EntriesOK, EntryOK
<1>2. \A type : Booked(r, type) <=> \E i \in MovementsOf(r) : ledger[i].type = type
  BY DEF Booked, MovementsOf
<1>3. CASE MovementsOf(r) = {}
  <2>1. Charged(r) = -0
    BY <1>3, SumEmpty DEF Charged, Sum
  <2> QED BY <1>2, <1>3, <2>1
<1>4. ASSUME NEW i \in ConsumesOf(r), MovementsOf(r) = {i} PROVE Charged(r) >= 0
  <2>1. Charged(r) = -ledger[i].amount
    BY <1>0, <1>1, <1>4, SumOne DEF Charged
  <2> QED BY <1>1, <2>1
<1>5. ASSUME NEW i \in ConsumesOf(r), NEW j \in MovementsOf(r),
             MovementsOf(r) = {i, j}, i # j, ledger[j].type \in TerminalTypes
      PROVE  /\ Charged(r) >= 0
             /\ Booked(r, "settle_adjust") =>
                   /\ Charged(r) <= final[r]
                   /\ Charged(r) < final[r] => ledger[j].balance_after = 0
             /\ Booked(r, "refund") => Charged(r) = 0
             /\ Booked(r, "settle_adjust") => ledger[j].type = "settle_adjust"
  <2> DEFINE p == -ledger[i].amount
             s == ledger[j].amount
             c == Charged(r)
  <2>1. j \in DOMAIN ledger /\ s \in Int /\ p \in Nat
    <3>1. j \in DOMAIN ledger /\ s \in Int
      BY <1>0, LedgerFinite DEF MovementsOf
    <3> QED BY <1>1, <3>1
  <2>2. c = p - s
    <3>1. Sum(MovementsOf(r)) = ledger[i].amount + s
      BY <1>0, <1>1, <1>5, <2>1, SumTwo
    <3> QED BY <1>1, <2>1, <3>1 DEF Charged
  <2>3. ReleasesHold(ledger[j], p) /\ ChargesHold(ledger[j], p, final[r])
    BY <1>5 DEF HoldInv, HoldAmounts
  <2>4. /\ ledger[j].type = "refund" => s = p
        /\ ledger[j].type = "settle_adjust" =>
              0 <= p - s /\ p - s <= final[r] /\ (p - s < final[r] => ledger[j].balance_after = 0)
    BY <2>3 DEF ReleasesHold, ChargesHold
  <2>5. /\ Booked(r, "settle_adjust") <=> ledger[j].type = "settle_adjust"
        /\ Booked(r, "refund") <=> ledger[j].type = "refund"
    BY <1>1, <1>2, <1>5
  <2>6. ledger[j].type = "refund" \/ ledger[j].type = "settle_adjust"
    BY <1>5 DEF TerminalTypes
  <2> HIDE DEF p, s, c
  <2>7. c >= 0 /\ (ledger[j].type = "refund" => c = 0)
    BY <2>1, <2>2, <2>4, <2>6
  <2>8. ledger[j].type = "settle_adjust" =>
           c <= final[r] /\ (c < final[r] => ledger[j].balance_after = 0)
    BY <2>2, <2>4
  <2> QED BY <2>5, <2>7, <2>8 DEF c
<1>6. CASE \E i \in ConsumesOf(r) : MovementsOf(r) = {i}
  <2>1. ~Booked(r, "settle_adjust") /\ ~Booked(r, "refund")
    BY <1>1, <1>2, <1>6
  <2> QED BY <1>4, <1>6, <2>1
<1>7. CASE \E i \in ConsumesOf(r), j \in MovementsOf(r) :
              MovementsOf(r) = {i, j} /\ i # j /\ ledger[j].type \in TerminalTypes
  BY <1>5, <1>7
<1> QED BY <1>3, <1>6, <1>7, MovementsShape

HoldingInv == LedgerInv /\ TerminationInv /\ HoldInv

LEMMA HoldingAlways ==
    ASSUME TimeoutGuard, SlowReaders = {}
    PROVE  Spec => []HoldingInv
<1>1. Init => HoldingInv
  BY TypeInit, EntriesInit, TerminationInit, HoldInit DEF HoldingInv, LedgerInv
<1>2. HoldingInv /\ [Next]_vars => HoldingInv'
  BY TypeStep, EntriesStep, TerminationStep, HoldStep DEF HoldingInv, LedgerInv
<1> QED BY <1>1, <1>2, PTL DEF Spec

\* A settled request costs what was used, or less if that emptied the balance;
\* one that is given back costs nothing; none earns its user credits.
THEOREM ChargesAreBounded ==
    ASSUME TimeoutGuard, SlowReaders = {}
    PROVE  Spec => []ChargeBounded
<1>1. HoldingInv => ChargeBounded
  BY ChargedWithin DEF HoldingInv
<1> QED BY <1>1, HoldingAlways, PTL

-----------------------------------------------------------------------------
(* Keys *)

\* Requests together never give back more than they took from a key, so that
\* GREATEST(credit_used - ..., 0) has nothing to cut off.
KeysOwe == \A k \in Keys : Total(UsageOnKey(k)) <= 0

LEMMA KeysOweAll == HoldingInv => KeysOwe
<1> SUFFICES ASSUME HoldingInv, NEW k \in Keys PROVE Total(UsageOnKey(k)) <= 0
  BY DEF KeysOwe
<1>1. LedgerTypeOK /\ EntriesOK /\ ChargeBounded
  BY ChargedWithin DEF HoldingInv, LedgerInv, TypeInv, TypeOK
<1> DEFINE S == Among(UsageOnKey(k))
           Closed(P) == \A i \in P : MovementsOf(ledger[i].req) \subseteq P
           W == {P \in SUBSET S : Closed(P) => Sum(P) <= 0}
<1>2. S \in SUBSET DOMAIN ledger /\ IsFiniteSet(S)
  BY <1>1, LedgerFinite DEF Among
<1>3. \A P \in SUBSET S : /\ IsFiniteSet(P) /\ Sum(P) \in Int
                          /\ \A i \in P : Amounts[i] \in Int
  BY <1>1, <1>2, LedgerFinite DEF Amounts
<1>4. \A i \in S : ledger[i].req \in Requests
  BY <1>1 DEF Among, UsageOnKey, EntriesOK, EntryOK
<1>5. ASSUME NEW P \in SUBSET S, \A U \in SUBSET P : U # P => U \in W, Closed(P)
      PROVE  Sum(P) <= 0
  <2>1. CASE P = {}
    BY <2>1, SumEmpty DEF Sum
  <2>2. ASSUME NEW i \in P PROVE Sum(P) <= 0
    <3> DEFINE r == ledger[i].req
               M == MovementsOf(r)
               R == P \ M
    <3>1. /\ r \in Requests /\ i \in M /\ M \subseteq P
          /\ R \in SUBSET P /\ R # P /\ P = R \cup M /\ R \cap M = {}
      BY <1>2, <1>4, <1>5 DEF MovementsOf
    <3>2. ASSUME NEW j \in R PROVE MovementsOf(ledger[j].req) \subseteq R
      <4>1. j \in P /\ j \in DOMAIN ledger /\ j \notin M
        BY <1>2
      <4>2. ledger[j].req # r
        BY <4>1 DEF MovementsOf
      <4>3. MovementsOf(ledger[j].req) \cap M = {}
        BY <4>2 DEF MovementsOf
      <4>4. MovementsOf(ledger[j].req) \subseteq P
        BY <1>5, <4>1
      <4> QED BY <4>3, <4>4
    <3>3. Sum(R) <= 0
      BY <1>5, <3>1, <3>2
    <3>4. Sum(M) <= 0
      <4>1. Charged(r) >= 0 /\ Sum(M) \in Int
        BY <1>1, <1>3, <3>1 DEF ChargeBounded
      <4> QED BY <4>1 DEF Charged
    <3>5. /\ IsFiniteSet(R) /\ IsFiniteSet(M) /\ Sum(R) \in Int /\ Sum(M) \in Int
          /\ \A y \in R \cup M : Amounts[y] \in Int
      BY <1>3, <3>1
    <3>6. Sum(R \cup M) = Sum(R) + Sum(M)
      <4> HIDE DEF R, M
      <4> QED BY <3>1, <3>5, SumUnion DEF Sum
    <3> HIDE DEF R, M
    <3> QED BY <3>1, <3>3, <3>4, <3>5, <3>6
  <2> QED BY <2>1, <2>2
<1>6. \A P \in SUBSET S : (\A U \in SUBSET P : U # P => U \in W) => P \in W
  BY <1>5
<1>7. Closed(S)
  <2> SUFFICES ASSUME NEW i \in S, NEW j \in MovementsOf(ledger[i].req) PROVE j \in S
    OBVIOUS
  <2>1. /\ i \in DOMAIN ledger /\ ledger[i] \in UsageOnKey(k)
        /\ j \in DOMAIN ledger /\ ledger[j].req = ledger[i].req
    BY DEF Among, MovementsOf
  <2>2. ledger[j] \in Entry /\ EntryOK(ledger[i]) /\ EntryOK(ledger[j])
    BY <1>1, <2>1, LedgerFinite DEF EntriesOK
  <2>3. ledger[i].ref = k /\ ledger[i].req \in Requests
    BY <1>4, <2>1 DEF UsageOnKey
  <2>4. ledger[j] \in UsageOnKey(k)
    BY <2>1, <2>2, <2>3 DEF UsageOnKey, EntryOK
  <2> QED BY <2>1, <2>4 DEF Among
<1>8. S \in W
  <2> HIDE DEF W, S
  <2> QED BY <1>2, <1>6, SubsetInduction
<1> QED BY <1>7, <1>8 DEF Total

LEMMA KeysOweNext == HoldingInv' => KeysOwe'
BY KeysOweAll, PTL

KeyOfInv(k) ==
    /\ keyUsed[k] = -Total(UsageOnKey(k))
    /\ keyUsed[k] = SumFunctionOnSet(keySpend[k], Days)
KeyInv == \A k \in Keys : KeyOfInv(k)

LEMMA KeyBooked ==
    ASSUME LedgerInv, KeysOwe', NEW adj \in Adjustment, Transaction(adj),
           NEW k \in Keys, KeyOfInv(k)
    PROVE  KeyOfInv(k)'
<1>0. LedgerTypeOK
  BY DEF LedgerInv, TypeInv, TypeOK
<1> DEFINE a == Effective(adj)
           on == AffectsUsed(adj) /\ adj.ref = k
           t == Total(UsageOnKey(k))
<1>1. /\ ApplyTx(adj) /\ a \in Int /\ NewEntry(adj) \in Entry /\ t \in Int
      /\ keyUsed[k] \in Nat /\ DayOf[now] \in Days
      /\ keyUsed \in [Keys -> Nat] /\ keySpend \in [Keys -> [Days -> Int]]
  <2>1. ApplyTx(adj) /\ a \in Int /\ NewEntry(adj) \in Entry
    BY <1>0, ApplyTxEntry DEF Transaction
  <2>2. t \in Int
    BY <1>0, TotalInt
  <2>3. keyUsed \in [Keys -> Nat] /\ keySpend \in [Keys -> [Days -> Int]] /\ DayOf[now] \in Days
    BY <1>0, LedgerAssumption DEF LedgerTypeOK, TablesTypeOK
  <2> QED BY <2>1, <2>2, <2>3
<1>2. NewEntry(adj) \in UsageOnKey(k) <=> on
  BY <1>1 DEF UsageOnKey, NewEntry, AffectsUsed
<1>3. Total(UsageOnKey(k))' = IF on THEN t + a ELSE t
  BY <1>0, <1>1, <1>2, TotalAfter DEF Total, Among, Sum, UsageOnKey
<1>4. keyUsed'[k] = IF on THEN KeyUsedAfter(adj) ELSE keyUsed[k]
  BY <1>1 DEF ApplyTx
<1>5. on => KeyUsedAfter(adj) = keyUsed[k] - a
  <2> SUFFICES ASSUME on PROVE KeyUsedAfter(adj) = keyUsed[k] - a
    OBVIOUS
  <2>1. t + a <= 0
    BY <1>3 DEF KeysOwe
  <2>2. keyUsed[k] = -t
    BY DEF KeyOfInv
  <2>3. keyUsed[k] - a >= 0
    <3> HIDE DEF t, a
    <3> QED BY <1>1, <2>1, <2>2
  <2> QED BY <1>1, <2>3 DEF KeyUsedAfter
<1>6. SumFunctionOnSet(keySpend'[k], Days) =
         IF on THEN SumFunctionOnSet(keySpend[k], Days) - a
         ELSE SumFunctionOnSet(keySpend[k], Days)
  <2>1. CASE on
    <3>1. keySpend'[k] = [keySpend[k] EXCEPT ![DayOf[now]] = @ - a]
      BY <1>1, <2>1 DEF ApplyTx
    <3> DEFINE f == keySpend[k]
               g == keySpend'[k]
               d == DayOf[now]
    <3>2. /\ \A y \in Days : f[y] \in Int /\ (y # d => g[y] = f[y])
          /\ g[d] = f[d] - a /\ d \in Days /\ a \in Int
      BY <1>1, <3>1
    <3>3. SumFunctionOnSet(g, Days) = SumFunctionOnSet(f, Days) - a
      <4> HIDE DEF a, f, g, d
      <4> QED BY <3>2, DayBooked
    <3> QED BY <2>1, <3>3
  <2>2. CASE ~on
    BY <1>1, <2>2 DEF ApplyTx
  <2> QED BY <2>1, <2>2
<1> HIDE DEF a, on, t
<1>7. keyUsed[k] = -t
  BY DEF KeyOfInv, t
<1>8. keyUsed'[k] = IF on THEN keyUsed[k] - a ELSE keyUsed[k]
  BY <1>4, <1>5
<1>9. keyUsed'[k] = -(IF on THEN t + a ELSE t)
  BY <1>1, <1>7, <1>8
<1> QED BY <1>3, <1>6, <1>8, <1>9 DEF KeyOfInv

LEMMA KeyStep ==
    ASSUME LedgerInv, KeysOwe', KeyInv, [Next]_vars
    PROVE  KeyInv'
<1>1. CASE NothingBooked
  <2>1. \A E : Total(E)' = Total(E)
    BY <1>1 DEF NothingBooked, Among, Total, Sum, Amounts
  <2> QED BY <1>1, <2>1 DEF NothingBooked, KeyInv, KeyOfInv, UsageOnKey
<1> QED BY <1>1, OneTransaction, KeyBooked DEF Booking, KeyInv, LedgerInv

LEMMA KeyInit == Init => KeyInv
<1> SUFFICES ASSUME Init, NEW k \in Keys PROVE KeyOfInv(k)
  BY DEF KeyInv
<1>1. \A E : Total(E) = 0
  BY SumEmpty DEF Init, LedgerInit, Among, Total, Sum
<1>2. SumFunctionOnSet(keySpend[k], Days) = 0
  BY DaysAssumption, SumZero DEF Init, LedgerInit
<1>3. keyUsed[k] = 0
  BY DEF Init, LedgerInit
<1> QED BY <1>1, <1>2, <1>3 DEF KeyOfInv

\* What tzl reconcile recomputes for a key: GREATEST never cuts anything off,
\* because no request gives back more than it took.
THEOREM KeysReconcile ==
    ASSUME TimeoutGuard, SlowReaders = {}
    PROVE  Spec => []KeyReconciles
<1>1. Init => KeyInv
  BY KeyInit
<1>2. HoldingInv /\ HoldingInv' /\ KeyInv /\ [Next]_vars => KeyInv'
  BY KeyStep, KeysOweNext DEF HoldingInv
<1>3. HoldingInv /\ KeyInv => KeyReconciles
  <2> SUFFICES ASSUME HoldingInv, KeyInv, NEW k \in Keys
               PROVE  UsageOn(k) = Among(UsageOnKey(k))
    BY DEF KeyReconciles, KeyInv, KeyOfInv, Total
  <2> QED BY LedgerFinite DEF Among, UsageOn, UsageOnKey, HoldingInv, LedgerInv, TypeInv, TypeOK
<1> QED BY <1>1, <1>2, <1>3, HoldingAlways, PTL DEF Spec

-----------------------------------------------------------------------------
(* The usage log *)

LEMMA BookedKept ==
    ASSUME LedgerInv, [Next]_vars, NEW r, NEW type, Booked(r, type)
    PROVE  Booked(r, type)'
<1>1. CASE NothingBooked
  BY <1>1 DEF NothingBooked, Booked
<1> QED BY <1>1, OneTransaction, EntriesAfter DEF Booking, LedgerInv, TypeInv, TypeOK

\* Only a handler at its settlement books one.
LEMMA SettlementBooked ==
    ASSUME LedgerInv, [Next]_vars, NEW r, ~Booked(r, "settle_adjust"), pc[r] # "settling"
    PROVE  ~Booked(r, "settle_adjust")'
<1>1. CASE NothingBooked
  BY <1>1 DEF NothingBooked, Booked
<1>2. ASSUME NEW adj \in Adjustment, Transaction(adj), Explained(adj)
      PROVE  ~Booked(r, "settle_adjust")'
  BY <1>2, EntriesAfter DEF Explained, LedgerInv, TypeInv, TypeOK
<1> QED BY <1>1, <1>2, OneTransaction DEF Booking, LedgerInv

\* What a record says stays true.
LEMMA RecordKept ==
    ASSUME LedgerInv, TerminationInv, [Next]_vars, NEW r \in Requests, NEW l, RecordOK(r, l)
    PROVE  RecordOK(r, l)'
<1>1. SessionKept(r) /\ HoldOK(r)
  BY SessionKeeps DEF LedgerInv, TerminationInv
<1>2. ASSUME GivenUp(r) PROVE GivenUp(r)'
  BY <1>1, <1>2, BookedKept, SettlementBooked DEF GivenUp, SessionKept, InFlight
<1>3. ASSUME NEW c, SettledAt(r, c) PROVE SettledAt(r, c)'
  <2>1. PICK i \in MovementsOf(r) :
          /\ ledger[i].type = "settle_adjust"
          /\ precharged[r] - ledger[i].amount = c \/ ledger[i].balance_after = 0
    BY <1>3 DEF SettledAt
  <2>2. Terminated(r)
    BY <2>1 DEF Terminated, TerminalTypes, Booked, MovementsOf
  <2>3. precharged'[r] = precharged[r]
    BY <1>1, <2>2 DEF HoldOK, SessionKept
  <2>4. i \in MovementsOf(r)' /\ ledger'[i] = ledger[i]
    <3>1. CASE NothingBooked
      BY <2>1, <3>1 DEF NothingBooked, MovementsOf
    <3>2. ASSUME NEW adj \in Adjustment, Transaction(adj)
          PROVE  i \in MovementsOf(r)' /\ ledger'[i] = ledger[i]
      <4>1. LedgerTypeOK
        BY DEF LedgerInv, TypeInv, TypeOK
      <4> QED BY <2>1, <3>2, <4>1, EntriesAfter
    <3> QED BY <3>1, <3>2, OneTransaction DEF Booking, LedgerInv
  <2> QED BY <2>1, <2>3, <2>4 DEF SettledAt
<1> QED BY <1>2, <1>3 DEF RecordOK

\* A record written by a step is true after it.
LEMMA SettleRecord ==
    ASSUME LedgerInv, TerminationInv, NEW r \in Requests, pc[r] = "settling",
           Acknowledged(SettleAdjustment(r)), UNCHANGED <<precharged, final>>
    PROVE  SettledAt(r, final[r])'
<1> DEFINE adj == SettleAdjustment(r)
<1>0. LedgerTypeOK /\ precharged[r] \in Nat /\ final[r] \in Nat
  BY DEF LedgerInv, TypeInv, TypeOK
<1>1. /\ adj \in Adjustment /\ adj.req = r /\ adj.type = "settle_adjust"
      /\ adj.amount = precharged[r] - final[r]
  <2>1. precharged[r] - final[r] \in Int
    BY <1>0
  <2> QED BY <2>1, UsageAdjustmentType DEF SettleAdjustment, UsageAdjustment, UsageTypes
<1>2. ~Booked(r, "settle_adjust")
  BY DEF TerminationInv, HoldOK, InFlight, Terminated, TerminalTypes
<1> HIDE DEF adj
<1>3. ApplyTx(adj)
  BY <1>1, <1>2 DEF Acknowledged, ApplyOnce, Duplicate, adj
<1>4. /\ Effective(adj) \in Int
      /\ Effective(adj) # adj.amount => balance[adj.user] + Effective(adj) = 0
      /\ Len(ledger) + 1 \in DOMAIN ledger'
      /\ ledger'[Len(ledger) + 1] = NewEntry(adj)
  BY <1>0, <1>1, <1>3, ApplyTxEntry
<1>5. /\ NewEntry(adj).req = r /\ NewEntry(adj).type = "settle_adjust"
      /\ NewEntry(adj).amount = Effective(adj)
      /\ NewEntry(adj).balance_after = balance[adj.user] + Effective(adj)
  BY <1>1 DEF NewEntry
<1>6. precharged[r] - Effective(adj) = final[r] \/ NewEntry(adj).balance_after = 0
  BY <1>0, <1>1, <1>4, <1>5
<1> QED BY <1>4, <1>5, <1>6 DEF SettledAt, MovementsOf

\* The queue after FinishLog holds what it held, and perhaps the new record.
LEMMA FinishLogRecords ==
    ASSUME TypeOK, NEW r \in Requests, NEW status \in UsageStatus, NEW charged \in Nat,
           FinishLog(r, status, charged), NEW i \in DOMAIN logQueue'
    PROVE  \/ i \in DOMAIN logQueue /\ logQueue'[i] = logQueue[i]
           \/ logQueue'[i] = [req |-> r, status |-> status, charged |-> charged]
<1>1. logQueue \in Seq([req : Requests, status : UsageStatus, charged : Nat])
  BY DEF TypeOK
<1> DEFINE l == [req |-> r, status |-> status, charged |-> charged]
<1>2. l \in [req : Requests, status : UsageStatus, charged : Nat]
  OBVIOUS
<1>3. logQueue' = Append(logQueue, l) \/ logQueue' = logQueue
  BY DEF FinishLog
<1> HIDE DEF l
<1>4. CASE logQueue' = Append(logQueue, l)
  BY <1>1, <1>2, <1>4 DEF l
<1> QED BY <1>3, <1>4

\* Steps that queue a record, on logs that stay.
LEMMA QueuedStep ==
    ASSUME LedgerInv, TerminationInv, LogInv, [Next]_vars, UNCHANGED logs,
           NEW r \in Requests, NEW status \in UsageStatus, NEW charged \in Nat,
           FinishLog(r, status, charged),
           status = "settled" => SettledAt(r, charged)',
           status = "refunded" => charged = 0 /\ GivenUp(r)'
    PROVE  LogInv'
<1>1. TypeOK
  BY DEF LedgerInv, TypeInv
<1>2. ASSUME NEW i \in DOMAIN logQueue'
      PROVE  \E q \in Requests : \E l : /\ logQueue'[i] = l /\ l.req = q
                                        /\ RecordOK(q, l)'
  <2>1. CASE i \in DOMAIN logQueue /\ logQueue'[i] = logQueue[i]
    <3> DEFINE l == logQueue[i]
    <3>1. l.req \in Requests
      <4> DEFINE Record == [req : Requests, status : UsageStatus, charged : Nat]
      <4>1. logQueue \in Seq(Record) /\ \A m \in Record : m.req \in Requests
        BY <1>1 DEF TypeOK
      <4> HIDE DEF Record
      <4> QED BY <2>1, <4>1
    <3>2. RecordOK(l.req, l)
      BY <2>1 DEF LogInv
    <3> QED BY <2>1, <3>1, <3>2, RecordKept
  <2>2. CASE logQueue'[i] = [req |-> r, status |-> status, charged |-> charged]
    BY <2>2 DEF RecordOK
  <2> QED BY <1>1, <2>1, <2>2, FinishLogRecords
<1>3. ASSUME NEW q \in Requests, logs'[q] # None
      PROVE  RecordOK(q, logs[q])'
  BY <1>3, RecordKept DEF LogInv
<1> QED BY <1>2, <1>3 DEF LogInv

\* What is queued stays true as long as it is queued.
LEMMA QueueKept ==
    ASSUME LedgerInv, TerminationInv, LogInv, [Next]_vars, NEW i \in DOMAIN logQueue
    PROVE  /\ logQueue[i].req \in Requests
           /\ \A r \in Requests : \A l : r = logQueue[i].req /\ l = logQueue[i] => RecordOK(r, l)'
<1>1. logQueue[i].req \in Requests
  <2> DEFINE Record == [req : Requests, status : UsageStatus, charged : Nat]
  <2>1. logQueue \in Seq(Record) /\ \A m \in Record : m.req \in Requests
    BY DEF LedgerInv, TypeInv, TypeOK
  <2> HIDE DEF Record
  <2> QED BY <2>1
<1>2. RecordOK(logQueue[i].req, logQueue[i])
  BY DEF LogInv
<1> QED BY <1>1, <1>2, RecordKept

LEMMA RowKept ==
    ASSUME LedgerInv, TerminationInv, LogInv, [Next]_vars, NEW r \in Requests, logs[r] # None
    PROVE  \A l : l = logs[r] => RecordOK(r, l)'
BY RecordKept DEF LogInv

\* Steps that leave the log alone.
LEMMA SameLogs ==
    ASSUME LedgerInv, TerminationInv, LogInv, [Next]_vars, UNCHANGED logVars
    PROVE  LogInv'
<1>1. logQueue' = logQueue /\ logs' = logs
  BY DEF logVars
<1>2. ASSUME NEW i \in DOMAIN logQueue PROVE RecordOK(logQueue[i].req, logQueue[i])'
  BY <1>1, QueueKept
<1>3. ASSUME NEW r \in Requests, logs[r] # None PROVE RecordOK(r, logs[r])'
  BY <1>1, <1>3, RowKept
<1> QED BY <1>1, <1>2, <1>3 DEF LogInv

LEMMA SessionLog ==
    ASSUME LedgerInv, TerminationInv, LogInv, [Next]_vars, NEW r \in Requests, Session(r)
    PROVE  LogInv'
<1>1. /\ pc \in [Requests -> Handler] /\ precharged[r] \in Nat /\ final[r] \in Nat
      /\ HoldOK(r)
      /\ {"settled", "refunded", "failed"} \subseteq UsageStatus /\ 0 \in Nat
  BY DEF LedgerInv, TypeInv, TypeOK, TerminationInv, UsageStatus
<1>2. ASSUME NEW amount \in PrechargeAmounts, RejectPrecharge(r, amount) PROVE LogInv'
  <2>1. FinishLog(r, "failed", 0) /\ UNCHANGED logs
    BY <1>2 DEF RejectPrecharge
  <2> QED BY <1>1, <2>1, QueuedStep
<1>3. CASE Settle(r)
  <2>1. pc[r] = "settling" /\ UNCHANGED <<precharged, final>> /\ UNCHANGED logs
    BY <1>3 DEF Settle
  <2>2. CASE Acknowledged(SettleAdjustment(r)) /\ FinishLog(r, "settled", final[r])
    <3> DEFINE f == final[r]
    <3>1. SettledAt(r, final[r])'
      BY <2>1, <2>2, SettleRecord
    <3>2. SettledAt(r, f)'
      BY <2>1, <3>1 DEF SettledAt
    <3>3. FinishLog(r, "settled", f) /\ f \in Nat
      BY <1>1, <2>2
    <3>4. \E c \in Nat : FinishLog(r, "settled", c) /\ SettledAt(r, c)'
      BY <2>1, <3>2, <3>3 DEF SettledAt
    <3> QED BY <1>1, <2>1, <3>4, QueuedStep
  <2>3. CASE FinishLog(r, "failed", precharged[r])
    BY <1>1, <2>1, <2>3, QueuedStep
  <2> QED BY <1>3, <2>2, <2>3 DEF Settle
<1>4. CASE UpstreamFailed(r)
  <2>1. /\ pc[r] = "upstream" /\ pc'[r] = "final"
        /\ FinishLog(r, "refunded", 0) /\ UNCHANGED logs
    BY <1>1, <1>4 DEF UpstreamFailed
  <2>2. Booked(r, "consume") /\ ~Booked(r, "settle_adjust")
    BY <1>1, <2>1 DEF HoldOK, InFlight, Terminated, TerminalTypes
  <2>3. GivenUp(r)'
    BY <2>1, <2>2, BookedKept, SettlementBooked DEF GivenUp, InFlight
  <2> QED BY <1>1, <2>1, <2>3, QueuedStep
<1>5. CASE \/ Authenticate(r) \/ Resend(r) \/ Stall(r) \/ HandlerPanic(r) \/ EnsureFinal(r)
           \/ \E amount \in PrechargeAmounts : Precharge(r, amount)
           \/ \E amount \in FinalAmounts : BeginSettle(r, amount)
  <2>1. UNCHANGED logVars
    BY <1>5 DEF Authenticate, Resend, Stall, HandlerPanic, EnsureFinal, Precharge, BeginSettle
  <2> QED BY <2>1, SameLogs
<1> QED BY <1>2, <1>3, <1>4, <1>5 DEF Session

LEMMA OrphanLog ==
    ASSUME TimeoutGuard, LedgerInv, TerminationInv, LogInv, [Next]_vars,
           NEW c \in Cleaners, RefundOrphan(c)
    PROVE  LogInv'
<1>1. PICK i \in batch[c] :
        UNCHANGED logs \/ UpsertRefunded(OrphanAdjustment(i).req)
  BY DEF RefundOrphan
<1>2. UNCHANGED logQueue
  BY DEF RefundOrphan
<1> DEFINE q == ledger[i].req
<1>3. BatchOK(c, i)
  BY DEF TerminationInv
<1>4. q \in Requests /\ OrphanAdjustment(i).req = q
  BY <1>3 DEF BatchOK, LedgerInv, TypeInv, TypeOK, LedgerTypeOK, TablesTypeOK, Entry,
              UsageTypes, OrphanAdjustment
<1>5. ~InFlight(q)
  BY <1>3, <1>4, OrphanNotInFlight DEF TerminationInv, LedgerInv
<1>6. GivenUp(q)
  BY <1>3, <1>5 DEF GivenUp, BatchOK, Booked
<1> DEFINE l == [status |-> "refunded", charged |-> 0]
<1>7. RecordOK(q, l)
  BY <1>6 DEF RecordOK
<1>8. ASSUME NEW r \in Requests, logs'[r] # None PROVE RecordOK(r, logs[r])'
  <2>1. (logs'[r] = logs[r] /\ logs[r] # None) \/ (r = q /\ logs'[r] = l)
    <3>1. logs \in [Requests -> {None} \cup [status : UsageStatus, charged : Nat]]
      BY DEF LedgerInv, TypeInv, TypeOK
    <3> QED BY <1>1, <1>4, <1>8, <3>1 DEF UpsertRefunded
  <2>2. \E m : logs'[r] = m /\ RecordOK(r, m)
    BY <1>7, <2>1 DEF LogInv
  <2> QED BY <2>2, RecordKept
<1>9. ASSUME NEW j \in DOMAIN logQueue PROVE RecordOK(logQueue[j].req, logQueue[j])'
  BY <1>2, <1>9, QueueKept
<1> QED BY <1>2, <1>8, <1>9 DEF LogInv

\* The writer's steps and the crash take records off the queue.
LEMMA WriterLog ==
    ASSUME LedgerInv, TerminationInv, LogInv, [Next]_vars, PersistLog \/ LoseLog \/ Crash
    PROVE  LogInv'
<1> DEFINE Record == [req : Requests, status : UsageStatus, charged : Nat]
<1>1. /\ logQueue \in Seq(Record) /\ \A m \in Record : m.req \in Requests
      /\ logs \in [Requests -> {None} \cup [status : UsageStatus, charged : Nat]]
  BY DEF LedgerInv, TypeInv, TypeOK
<1>2. ASSUME NEW j \in DOMAIN logQueue'
      PROVE  \E i \in DOMAIN logQueue : logQueue'[j] = logQueue[i]
  <2>1. CASE PersistLog \/ LoseLog
    <3>1. logQueue # <<>> /\ logQueue' = Tail(logQueue)
      BY <2>1 DEF PersistLog, LoseLog
    <3> HIDE DEF Record
    <3>2. j + 1 \in DOMAIN logQueue /\ logQueue'[j] = logQueue[j + 1]
      BY <1>1, <3>1
    <3> QED BY <3>2
  <2>2. CASE Crash
    BY <2>2 DEF Crash
  <2> QED BY <2>1, <2>2
<1>3. ASSUME NEW j \in DOMAIN logQueue'
      PROVE  RecordOK(logQueue[j].req, logQueue[j])'
  BY <1>2, <1>3, QueueKept
<1>4. ASSUME NEW r \in Requests, logs'[r] # None
      PROVE  RecordOK(r, logs[r])'
  <2>1. CASE logs'[r] = logs[r]
    BY <1>4, <2>1, RowKept
  <2>2. CASE logs'[r] # logs[r]
    <3> DEFINE l == Head(logQueue)
    <3>1. PersistLog /\ l.req = r /\ logs'[r] = [status |-> l.status, charged |-> l.charged]
      BY <1>1, <2>2 DEF PersistLog, LoseLog, Crash
    <3>2. 1 \in DOMAIN logQueue /\ l = logQueue[1]
      <4>1. logQueue # <<>>
        BY <3>1 DEF PersistLog
      <4> HIDE DEF Record
      <4> QED BY <1>1, <4>1
    <3>3. RecordOK(r, l)
      BY <3>1, <3>2 DEF LogInv
    <3>4. \E m : logs'[r] = m /\ RecordOK(r, m)
      BY <3>1, <3>3 DEF RecordOK
    <3> QED BY <3>4, RecordKept
  <2> QED BY <2>1, <2>2
<1> QED BY <1>3, <1>4 DEF LogInv

LEMMA LogStep ==
    ASSUME TimeoutGuard, LedgerInv, TerminationInv, LogInv, [Next]_vars
    PROVE  LogInv'
<1>1. CASE (\E c \in Cleaners : Scan(c)) \/ Tick \/ Account \/ UNCHANGED vars
  <2>1. UNCHANGED logVars
    BY <1>1 DEF Scan, Tick, Account, vars
  <2> QED BY <2>1, SameLogs
<1> QED BY <1>1, SessionLog, OrphanLog, WriterLog DEF Next

LEMMA LogInit == Init => LogInv
BY DEF Init, LogInv

\* A row of the usage log never contradicts the ledger, however rows, writes,
\* cleanups, crashes and lost answers interleave.
THEOREM LogsMatchLedger ==
    ASSUME TimeoutGuard, SlowReaders = {}
    PROVE  Spec => []LogMatchesLedger
<1>1. Init => LogInv
  BY LogInit
<1>2. HoldingInv /\ LogInv /\ [Next]_vars => LogInv'
  BY LogStep DEF HoldingInv
<1>3. LogInv => LogMatchesLedger
  BY DEF LogInv, LogMatchesLedger, RecordOK, SettledAt, GivenUp, MovementsOf
<1> QED BY <1>1, <1>2, <1>3, HoldingAlways, PTL DEF Spec

-----------------------------------------------------------------------------
(* BillingSession implements CreditHold *)

\* A hold is of what its one precharge took.
HeldOnce ==
    \A r \in Requests : \A i \in ConsumesOf(r) : HeldAmount(r) = -ledger[i].amount

LEMMA HeldOnceAlways == HoldingInv => HeldOnce
<1> SUFFICES ASSUME HoldingInv, NEW r \in Requests, NEW i \in ConsumesOf(r)
             PROVE  HeldAmount(r) = -ledger[i].amount
  BY DEF HeldOnce
<1> DEFINE c == CHOOSE j \in DOMAIN ledger : ledger[j].req = r /\ ledger[j].type = "consume"
<1>1. i \in DOMAIN ledger /\ ledger[i].req = r /\ ledger[i].type = "consume"
  BY DEF ConsumesOf
<1>2. c \in DOMAIN ledger /\ ledger[c].req = r /\ ledger[c].type = "consume"
  BY <1>1
<1> HIDE DEF c
<1>3. c = i
  BY <1>1, <1>2, LedgerAssumption DEF HoldingInv, HoldInv, EntriesUnique
<1> QED BY <1>1, <1>3 DEF HeldAmount, Booked, c

LEMMA HeldOnceNext == HoldingInv' => HeldOnce'
BY HeldOnceAlways, PTL

\* A transaction on a request moves no other hold, and its own hold keeps its
\* amount.
LEMMA OtherHolds ==
    ASSUME HoldingInv, HoldingInv', NEW adj \in Adjustment, Transaction(adj),
           NEW r \in Requests
    PROVE  /\ adj.req # r => HoldStatus(r)' = HoldStatus(r) /\ HeldAmount(r)' = HeldAmount(r)
           /\ Booked(r, "consume") => HeldAmount(r)' = HeldAmount(r)
<1>1. LedgerTypeOK
  BY DEF HoldingInv, LedgerInv, TypeInv, TypeOK
<1>2. \A type : Booked(r, type)' <=> Booked(r, type) \/ (r = adj.req /\ type = adj.type)
  BY <1>1, EntriesAfter
<1>3. adj.req # r => HoldStatus(r)' = HoldStatus(r)
  BY <1>2 DEF HoldStatus
<1>4. ASSUME Booked(r, "consume") PROVE HeldAmount(r)' = HeldAmount(r)
  <2>1. PICK i \in ConsumesOf(r) : i \in MovementsOf(r)
    BY <1>4 DEF Booked, ConsumesOf, MovementsOf
  <2>2. i \in ConsumesOf(r)' /\ ledger'[i] = ledger[i]
    BY <1>1, <2>1, EntriesAfter
  <2>3. HeldAmount(r) = -ledger[i].amount /\ HeldAmount(r)' = -ledger'[i].amount
    BY <2>2, HeldOnceAlways, HeldOnceNext DEF HeldOnce
  <2> QED BY <2>2, <2>3
<1>5. ~Booked(r, "consume") /\ adj.req # r => HeldAmount(r)' = HeldAmount(r)
  BY <1>2 DEF HeldAmount
<1> QED BY <1>3, <1>4, <1>5

Statuses == [r \in Requests |-> HoldStatus(r)]
Holds == [r \in Requests |-> HeldAmount(r)]
Adjustments == {i \in DOMAIN ledger : ledger[i].type \notin UsageTypes}

\* What a usage transaction does to the abstract state.
LEMMA UsageMoves ==
    ASSUME HoldingInv, HoldingInv', NEW adj \in Adjustment, Transaction(adj),
           AffectsUsed(adj), NEW r, r = adj.req
    PROVE  /\ r \in Requests /\ OwnerOf[KeyOf[r]] = adj.user /\ adj.user \in Users
           /\ balance[adj.user] \in Nat /\ Effective(adj) \in Int
           /\ balance[adj.user] + Effective(adj) \in Nat
           /\ balance' = [balance EXCEPT ![adj.user] = balance[adj.user] + Effective(adj)]
           /\ Statuses' = [Statuses EXCEPT ![r] = HoldStatus(r)']
           /\ Holds' = [Holds EXCEPT ![r] = HeldAmount(r)']
           /\ Adjustments' = Adjustments
<1>1. LedgerTypeOK /\ ApplyTx(adj) /\ EntryOK(adj)
  BY DEF HoldingInv, LedgerInv, TypeInv, TypeOK, Transaction
<1>2. r \in Requests /\ OwnerOf[KeyOf[r]] = adj.user /\ adj.user \in Users
  BY <1>1 DEF EntryOK, AffectsUsed, Adjustment
<1>3. /\ balance \in [Users -> Nat] /\ Effective(adj) \in Int
      /\ balance[adj.user] + Effective(adj) \in Nat
  BY <1>1, ApplyTxEntry DEF LedgerTypeOK, TablesTypeOK
<1>4. balance' = [balance EXCEPT ![adj.user] = balance[adj.user] + Effective(adj)]
  BY <1>1 DEF ApplyTx
<1>5. Statuses' = [Statuses EXCEPT ![r] = HoldStatus(r)']
  BY <1>2, OtherHolds DEF Statuses
<1>6. Holds' = [Holds EXCEPT ![r] = HeldAmount(r)']
  BY <1>2, OtherHolds DEF Holds
<1>7. Adjustments' = Adjustments
  <2>1. NewEntry(adj).type \in UsageTypes
    BY DEF NewEntry, AffectsUsed
  <2> QED BY <1>1, <2>1, ApplyTxEntry DEF Adjustments
<1> QED BY <1>2, <1>3, <1>4, <1>5, <1>6, <1>7

LEMMA HoldImplemented ==
    ASSUME HoldingInv, HoldingInv', NEW adj \in Adjustment, Transaction(adj),
           adj.type = "consume", NEW r, r = adj.req
    PROVE  r \in Requests /\ Abstract!Hold(r)
<1> DEFINE a == Effective(adj)
           u == adj.user
<1>1. AffectsUsed(adj) /\ LedgerTypeOK
  BY DEF AffectsUsed, UsageTypes, HoldingInv, LedgerInv, TypeInv, TypeOK
<1>2. /\ r \in Requests /\ OwnerOf[KeyOf[r]] = u
      /\ balance[u] \in Nat /\ a \in Int /\ balance[u] + a \in Nat
      /\ balance' = [balance EXCEPT ![u] = balance[u] + a]
      /\ Statuses' = [Statuses EXCEPT ![r] = HoldStatus(r)']
      /\ Holds' = [Holds EXCEPT ![r] = HeldAmount(r)']
      /\ Adjustments' = Adjustments
  BY <1>1, UsageMoves
<1>3. ~Booked(r, "consume")
  BY <1>2, LedgerAssumption DEF Transaction
<1>4. ~Booked(r, "refund") /\ ~Booked(r, "settle_adjust")
  BY <1>2, <1>3 DEF HoldingInv, TerminationInv, HoldOK, Terminated, TerminalTypes
<1>5. \A type : Booked(r, type)' <=> Booked(r, type) \/ type = "consume"
  BY <1>1, EntriesAfter
<1>6. HoldStatus(r) = "none" /\ HoldStatus(r)' = "held"
  BY <1>3, <1>4, <1>5 DEF HoldStatus
<1>7. HeldAmount(r)' = -a /\ a <= 0
  <2>1. /\ Len(ledger) + 1 \in ConsumesOf(r)'
        /\ ledger'[Len(ledger) + 1] = NewEntry(adj)
    BY <1>1, EntriesAfter
  <2>2. HeldAmount(r)' = -ledger'[Len(ledger) + 1].amount
    BY <1>2, <2>1, HeldOnceNext DEF HeldOnce
  <2>3. NewEntry(adj).amount = a /\ a <= 0
    BY <1>1, TransactionAmount DEF NewEntry, EntryOK
  <2> QED BY <2>1, <2>2, <2>3
<1> DEFINE h == -a
<1>8. h \in 0..balance[u] /\ balance[u] - h = balance[u] + a
  <2> HIDE DEF a, u
  <2> QED BY <1>2, <1>7
<1>9. /\ h \in 0..balance[OwnerOf[KeyOf[r]]]
      /\ Holds' = [Holds EXCEPT ![r] = h]
      /\ balance' = [balance EXCEPT ![OwnerOf[KeyOf[r]]] = balance[OwnerOf[KeyOf[r]]] - h]
  BY <1>2, <1>7, <1>8
<1>10. Statuses[r] = "none" /\ Statuses' = [Statuses EXCEPT ![r] = "held"]
  BY <1>2, <1>6 DEF Statuses
<1> HIDE DEF a, u, h
<1> QED BY <1>2, <1>9, <1>10
        DEF Abstract!Hold, Abstract!Move, Abstract!Pay, Statuses, Holds, Adjustments

LEMMA EndImplemented ==
    ASSUME HoldingInv, HoldingInv', [Next]_vars, NEW adj \in Adjustment,
           Transaction(adj), Explained(adj), adj.type \in TerminalTypes, NEW r, r = adj.req
    PROVE  /\ r \in Requests
           /\ adj.type = "settle_adjust" => Abstract!Charge(r)
           /\ adj.type = "refund" => Abstract!Release(r)
<1> DEFINE a == Effective(adj)
           u == adj.user
           h == HeldAmount(r)
<1>1. AffectsUsed(adj) /\ LedgerTypeOK
  BY DEF AffectsUsed, UsageTypes, TerminalTypes, HoldingInv, LedgerInv, TypeInv, TypeOK
<1>2. /\ r \in Requests /\ OwnerOf[KeyOf[r]] = u
      /\ balance[u] \in Nat /\ a \in Int /\ balance[u] + a \in Nat
      /\ balance' = [balance EXCEPT ![u] = balance[u] + a]
      /\ Statuses' = [Statuses EXCEPT ![r] = HoldStatus(r)']
      /\ Holds' = [Holds EXCEPT ![r] = HeldAmount(r)']
      /\ Adjustments' = Adjustments
  BY <1>1, UsageMoves
<1>3. \A type : Booked(r, type)' <=> Booked(r, type) \/ type = adj.type
  BY <1>1, EntriesAfter
<1>4. Booked(r, "consume")
  <2>1. Terminated(r)' /\ HoldOK(r)'
    BY <1>2, <1>3 DEF Terminated, HoldingInv, TerminationInv
  <2>2. Booked(r, "consume")'
    BY <2>1 DEF HoldOK
  <2> QED BY <1>3, <2>2 DEF TerminalTypes
<1>5. ~Terminated(r)
  <2> SUFFICES ASSUME NEW i \in DOMAIN ledger, ledger[i].req = r,
                      ledger[i].type \in TerminalTypes
               PROVE  FALSE
    BY DEF Terminated, Booked
  <2>1. /\ i \in DOMAIN ledger' /\ ledger'[i] = ledger[i] /\ i # Len(ledger) + 1
        /\ Len(ledger) + 1 \in DOMAIN ledger' /\ ledger'[Len(ledger) + 1] = NewEntry(adj)
    BY <1>1, ApplyTxEntry DEF Transaction
  <2>2. NewEntry(adj).req = r /\ NewEntry(adj).type = adj.type
    BY DEF NewEntry
  <2>3. TerminatedOnce'
    BY DEF HoldingInv, TerminationInv
  <2> QED BY <1>2, <2>1, <2>2, <2>3 DEF TerminatedOnce
<1>6. /\ HoldStatus(r) = "held"
      /\ adj.type = "settle_adjust" => HoldStatus(r)' = "charged"
      /\ adj.type = "refund" => HoldStatus(r)' = "released"
  BY <1>3, <1>4, <1>5 DEF HoldStatus, Terminated, TerminalTypes
<1>7. HeldAmount(r)' = HeldAmount(r) /\ Holds' = Holds
  <2>1. HeldAmount(r)' = HeldAmount(r)
    BY <1>2, <1>4, OtherHolds
  <2> QED BY <1>2, <2>1 DEF Holds
<1>8. /\ h \in Int
      /\ adj.type = "refund" => a = h
      /\ adj.type = "settle_adjust" => 0 <= h - a
  <2>1. PICK i \in ConsumesOf(r) : i \in DOMAIN ledger
    BY <1>4 DEF Booked, ConsumesOf
  <2>2. h = -ledger[i].amount /\ ledger[i].amount \in Int
    BY <1>1, <1>2, <2>1, HeldOnceAlways, LedgerFinite DEF HeldOnce
  <2>3. ReleasesHold(NewEntry(adj), h) /\ ChargesHold(NewEntry(adj), h, final'[r])
    BY <1>2, <2>1, <2>2, HoldEnded DEF HoldingInv
  <2>4. NewEntry(adj).type = adj.type /\ NewEntry(adj).amount = a
    BY DEF NewEntry
  <2> HIDE DEF h, a
  <2> QED BY <2>2, <2>3, <2>4 DEF ReleasesHold, ChargesHold
<1>9. /\ Statuses[r] = "held" /\ Holds[r] = h
      /\ Statuses' = [Statuses EXCEPT ![r] = HoldStatus(r)']
  BY <1>2, <1>6 DEF Statuses, Holds
<1>10. ASSUME adj.type = "refund" PROVE Abstract!Release(r)
  <2>1. balance' = [balance EXCEPT ![OwnerOf[KeyOf[r]]] = balance[OwnerOf[KeyOf[r]]] + Holds[r]]
    BY <1>2, <1>8, <1>9, <1>10
  <2>2. Statuses' = [Statuses EXCEPT ![r] = "released"]
    BY <1>6, <1>9, <1>10
  <2> HIDE DEF a, u, h
  <2> QED BY <1>2, <1>7, <1>9, <2>1, <2>2
          DEF Abstract!Release, Abstract!Move, Abstract!Pay, Statuses, Holds, Adjustments
<1>11. ASSUME adj.type = "settle_adjust" PROVE Abstract!Charge(r)
  <2> DEFINE charge == h - a
             b == balance[u]
  <2>1. charge \in 0..(b + h) /\ b + h - charge = b + a
    <3>1. h \in Int /\ a \in Int /\ b \in Nat /\ b + a \in Nat /\ 0 <= h - a
      BY <1>2, <1>8, <1>11
    <3> HIDE DEF h, a, b, u
    <3> QED BY <3>1
  <2>2. /\ charge \in 0..(balance[OwnerOf[KeyOf[r]]] + Holds[r])
        /\ balance' = [balance EXCEPT ![OwnerOf[KeyOf[r]]] =
                          balance[OwnerOf[KeyOf[r]]] + Holds[r] - charge]
    BY <1>2, <1>9, <2>1
  <2>3. Statuses' = [Statuses EXCEPT ![r] = "charged"]
    BY <1>6, <1>9, <1>11
  <2> HIDE DEF a, u, h, charge, b
  <2> QED BY <1>2, <1>7, <1>9, <2>2, <2>3
          DEF Abstract!Charge, Abstract!Move, Abstract!Pay, Statuses, Holds, Adjustments
<1> QED BY <1>2, <1>10, <1>11

LEMMA AdjustImplemented ==
    ASSUME HoldingInv, HoldingInv', NEW adj \in Adjustment, Transaction(adj),
           ~AffectsUsed(adj)
    PROVE  \E u \in Users : Abstract!Adjust(u)
<1> DEFINE u == adj.user
           n == Len(ledger) + 1
<1>1. LedgerTypeOK /\ ApplyTx(adj) /\ EntryOK(adj)
  BY DEF HoldingInv, LedgerInv, TypeInv, TypeOK, Transaction
<1>2. u \in Users /\ balance \in [Users -> Nat] /\ balance[u] + Effective(adj) \in Nat
  BY <1>1, ApplyTxEntry DEF LedgerTypeOK, TablesTypeOK, Adjustment
<1>3. balance' = [balance EXCEPT ![u] = balance'[u]] /\ balance'[u] \in Nat
  BY <1>1, <1>2 DEF ApplyTx
<1>4. adj.req \notin Requests
  BY <1>1 DEF EntryOK, AffectsUsed
<1>5. Statuses' = Statuses /\ Holds' = Holds
  BY <1>4, OtherHolds DEF Statuses, Holds
<1>6. Adjustments' = Adjustments \cup {n} /\ n \in Adjustments' \ Adjustments
  <2>1. /\ n \notin DOMAIN ledger /\ DOMAIN ledger' = DOMAIN ledger \cup {n}
        /\ \A i \in DOMAIN ledger : ledger'[i] = ledger[i]
        /\ ledger'[n] = NewEntry(adj)
    BY <1>1, ApplyTxEntry
  <2>2. NewEntry(adj).type \notin UsageTypes
    BY DEF NewEntry, AffectsUsed
  <2> HIDE DEF n
  <2> QED BY <2>1, <2>2 DEF Adjustments
<1> HIDE DEF n, u
<1> QED BY <1>2, <1>3, <1>5, <1>6
        DEF Abstract!Adjust, Abstract!Pay, Statuses, Holds, Adjustments

LEMMA ImplementationStep ==
    ASSUME HoldingInv, HoldingInv', [Next]_vars
    PROVE  [Abstract!Next]_(Abstract!vars)
<1>1. CASE NothingBooked
  <2>1. balance' = balance /\ ledger' = ledger
    BY <1>1 DEF NothingBooked
  <2>2. Statuses' = Statuses /\ Holds' = Holds /\ Adjustments' = Adjustments
    BY <2>1 DEF Statuses, Holds, Adjustments, HoldStatus, HeldAmount, Booked
  <2> QED BY <2>1, <2>2 DEF Abstract!vars, Statuses, Holds, Adjustments
<1>2. ASSUME NEW adj \in Adjustment, Transaction(adj), Explained(adj)
      PROVE  Abstract!Next
  <2>1. CASE ~AffectsUsed(adj)
    BY <1>2, <2>1, AdjustImplemented DEF Abstract!Next
  <2>2. CASE adj.type = "consume"
    BY <1>2, <2>2, HoldImplemented DEF Abstract!Next
  <2>3. CASE adj.type \in TerminalTypes
    BY <1>2, <2>3, EndImplemented DEF Abstract!Next, TerminalTypes
  <2> QED BY <2>1, <2>2, <2>3 DEF AffectsUsed, UsageTypes, TerminalTypes
<1> QED BY <1>1, <1>2, OneTransaction DEF Booking, HoldingInv, LedgerInv

LEMMA ImplementationInit == Init => Abstract!Init
<1> SUFFICES ASSUME Init PROVE Abstract!Init
  OBVIOUS
<1>1. DOMAIN ledger = {} /\ balance = [u \in Users |-> 0]
  BY DEF Init, LedgerInit
<1>2. \A r \in Requests : HoldStatus(r) = "none" /\ HeldAmount(r) = 0
  BY <1>1 DEF HoldStatus, HeldAmount, Booked
<1> QED BY <1>1, <1>2 DEF Abstract!Init

\* Sessions, cleanups, logs and failures together are one thing: a hold that is
\* taken once, and charged or released once, within what is held and what the
\* user can pay; and no other step moves credits but an account's own.
THEOREM BillingImplementsHolds ==
    ASSUME TimeoutGuard, SlowReaders = {}
    PROVE  Spec => ImplementsCreditHold
<1>1. Init => Abstract!Init
  BY ImplementationInit
<1>2. HoldingInv /\ HoldingInv' /\ [Next]_vars => [Abstract!Next]_(Abstract!vars)
  BY ImplementationStep
<1> QED BY <1>1, <1>2, HoldingAlways, PTL DEF Spec, ImplementsCreditHold, Abstract!Spec
=============================================================================
