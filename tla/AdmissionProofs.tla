---------------------------- MODULE AdmissionProofs ----------------------------
(***************************************************************************)
(* The gate's counts are exact and its three layers hold, for any number   *)
(* of users and requests and any limits, whatever the limiter does; and    *)
(* the limiter keeps the rates of keys and users, for any windows, limits  *)
(* and ages of clock readings, whoever sweeps.                             *)
(***************************************************************************)
EXTENDS Admission, FiniteSetTheorems, SequenceTheorems, NaturalsInduction,
        WellFoundedInduction, TLAPS

GateTypeOK ==
    /\ count \in Nat /\ userCount \in [Users -> Nat] /\ largeCount \in Nat
    /\ stage \in [Callers -> Stage]

GateInv == GateTypeOK /\ GateCountsRequests

RequestsOf(u) == {r \in Requests : UserOf[r] = u}

LEMMA ServingFinite ==
    ASSUME NEW S, S \subseteq Requests
    PROVE  IsFiniteSet({r \in S : stage[r] = "serving"}) /\ Serving(S) \in Nat
  BY AdmissionAssumption, FS_Subset, FS_CardinalityType DEF Serving

LEMMA SameServing ==
    ASSUME NEW S, S \subseteq Requests,
           \A r \in S : (stage[r] = "serving") <=> (stage'[r] = "serving")
    PROVE  Serving(S)' = Serving(S)
<1>1. {r \in S : stage'[r] = "serving"} = {r \in S : stage[r] = "serving"}
  OBVIOUS
<1> QED BY <1>1 DEF Serving

LEMMA OneMoreServing ==
    ASSUME GateTypeOK, NEW q \in Requests, stage[q] # "serving",
           stage' = [stage EXCEPT ![q] = "serving"], NEW S, S \subseteq Requests
    PROVE  Serving(S)' = IF q \in S THEN Serving(S) + 1 ELSE Serving(S)
<1>1. CASE q \in S
  <2>1. {r \in S : stage'[r] = "serving"} = {r \in S : stage[r] = "serving"} \cup {q}
    BY <1>1 DEF GateTypeOK, Callers
  <2>2. q \notin {r \in S : stage[r] = "serving"}
    OBVIOUS
  <2> QED BY <1>1, <2>1, <2>2, ServingFinite, FS_AddElement DEF Serving
<1>2. CASE q \notin S
  BY <1>2, SameServing DEF GateTypeOK, Callers
<1> QED BY <1>1, <1>2

LEMMA OneLessServing ==
    ASSUME GateTypeOK, NEW q \in Requests, stage[q] = "serving",
           stage' = [stage EXCEPT ![q] = "done"], NEW S, S \subseteq Requests
    PROVE  /\ Serving(S)' = IF q \in S THEN Serving(S) - 1 ELSE Serving(S)
           /\ q \in S => Serving(S) > 0
<1>1. CASE q \in S
  <2>1. {r \in S : stage'[r] = "serving"} = {r \in S : stage[r] = "serving"} \ {q}
    BY <1>1 DEF GateTypeOK, Callers
  <2>2. q \in {r \in S : stage[r] = "serving"}
    BY <1>1
  <2>3. Serving(S)' = Serving(S) - 1
    BY <2>1, <2>2, ServingFinite, FS_RemoveElement DEF Serving
  <2>4. Serving(S) # 0
    BY <2>2, ServingFinite, FS_EmptySet DEF Serving
  <2>5. Serving(S) \in Nat
    BY ServingFinite
  <2> QED BY <1>1, <2>3, <2>4, <2>5
<1>2. CASE q \notin S
  BY <1>2, SameServing DEF GateTypeOK, Callers
<1> QED BY <1>1, <1>2

LEMMA GateInit == Init => GateInv
<1> SUFFICES ASSUME Init PROVE GateInv
  OBVIOUS
<1>1. \A S \in SUBSET Requests : Serving(S) = 0
  <2> SUFFICES ASSUME NEW S \in SUBSET Requests PROVE Serving(S) = 0
    OBVIOUS
  <2>1. {r \in S : stage[r] = "serving"} = {}
    BY DEF Init, Callers
  <2> QED BY <2>1, FS_EmptySet DEF Serving
<1>2. GateTypeOK
  BY DEF Init, GateTypeOK, Stage
<1> QED BY <1>1, <1>2, AdmissionAssumption DEF GateInv, GateCountsRequests, Init

LEMMA AcquireStep == ASSUME GateInv, NEW q \in Requests, Acquire(q) PROVE GateInv'
<1>1. UserOf[q] \in Users /\ LargeRequests \subseteq Requests
      /\ UserQuota \in Nat /\ GlobalLimit \in Nat /\ LargeQuota \in Nat
  BY AdmissionAssumption DEF Users
<1>2. CASE stage' = [stage EXCEPT ![q] = "done"] /\ UNCHANGED gateVars
  <2>1. \A r \in Requests : (stage[r] = "serving") <=> (stage'[r] = "serving")
    BY <1>2 DEF Acquire, GateInv, GateTypeOK, Callers
  <2>2. \A S \in SUBSET Requests : Serving(S)' = Serving(S)
    BY <2>1, SameServing
  <2>3. GateTypeOK'
    BY <1>2 DEF GateInv, GateTypeOK, gateVars, Stage
  <2> QED BY <1>1, <1>2, <2>2, <2>3 DEF GateInv, GateCountsRequests, gateVars
<1>3. CASE ~(stage' = [stage EXCEPT ![q] = "done"] /\ UNCHANGED gateVars)
  <2>1. /\ stage[q] # "serving" /\ stage' = [stage EXCEPT ![q] = "serving"]
        /\ count' = count + 1
        /\ userCount' = [userCount EXCEPT ![UserOf[q]] = @ + 1]
        /\ largeCount' = IF q \in LargeRequests THEN largeCount + 1 ELSE largeCount
        /\ ~Full(UserQuota, userCount[UserOf[q]]) /\ ~Full(GlobalLimit, count)
        /\ q \in LargeRequests => ~Full(LargeQuota, largeCount)
    BY <1>3 DEF Acquire
  <2>2. GateTypeOK'
    <3>1. userCount' \in [Users -> Nat]
      BY <1>1, <2>1 DEF GateInv, GateTypeOK
    <3>2. stage' \in [Callers -> Stage]
      BY <2>1 DEF GateInv, GateTypeOK, Stage
    <3>3. count' \in Nat /\ largeCount' \in Nat
      BY <2>1 DEF GateInv, GateTypeOK
    <3> QED BY <3>1, <3>2, <3>3 DEF GateTypeOK
  <2>3. \A S \in SUBSET Requests :
           Serving(S)' = IF q \in S THEN Serving(S) + 1 ELSE Serving(S)
    BY <2>1, OneMoreServing DEF GateInv
  <2>4. count' = Serving(Requests)' /\ largeCount' = Serving(LargeRequests)'
    BY <1>1, <2>1, <2>3 DEF GateInv, GateCountsRequests
  <2>5. ASSUME NEW u \in Users
        PROVE  /\ userCount'[u] = Serving({r \in Requests : UserOf[r] = u})'
               /\ UserQuota > 0 => userCount'[u] <= UserQuota
    <3>1. userCount[u] \in Nat /\ userCount[u] = Serving({r \in Requests : UserOf[r] = u})
          /\ (UserQuota > 0 => userCount[u] <= UserQuota)
      BY DEF GateInv, GateTypeOK, GateCountsRequests
    <3>2. userCount'[u] = IF u = UserOf[q] THEN userCount[u] + 1 ELSE userCount[u]
      BY <2>1, <1>1 DEF GateInv, GateTypeOK
    <3>3. Serving({r \in Requests : UserOf[r] = u})' =
             IF u = UserOf[q] THEN Serving({r \in Requests : UserOf[r] = u}) + 1
             ELSE Serving({r \in Requests : UserOf[r] = u})
      BY <2>3
    <3> QED BY <1>1, <2>1, <3>1, <3>2, <3>3 DEF Full
  <2>6. (GlobalLimit > 0 => count' <= GlobalLimit)
        /\ (LargeQuota > 0 => largeCount' <= LargeQuota)
    BY <1>1, <2>1 DEF GateInv, GateTypeOK, GateCountsRequests, Full
  <2> QED BY <2>2, <2>4, <2>5, <2>6 DEF GateInv, GateCountsRequests
<1> QED BY <1>2, <1>3

LEMMA ReleaseStep == ASSUME GateInv, NEW q \in Requests, Release(q) PROVE GateInv'
<1>1. UserOf[q] \in Users /\ LargeRequests \subseteq Requests
      /\ UserQuota \in Nat /\ GlobalLimit \in Nat /\ LargeQuota \in Nat
  BY AdmissionAssumption DEF Users
<1>2. stage[q] = "serving" /\ stage' = [stage EXCEPT ![q] = "done"]
  BY DEF Release
<1>3. \A S \in SUBSET Requests :
         /\ Serving(S)' = IF q \in S THEN Serving(S) - 1 ELSE Serving(S)
         /\ q \in S => Serving(S) > 0
  BY <1>2, OneLessServing DEF GateInv
<1>4. count' = count - 1 /\ count > 0
  BY <1>3 DEF Release, GateInv, GateTypeOK, GateCountsRequests
<1>5. ASSUME NEW u \in Users
      PROVE  /\ userCount'[u] = IF u = UserOf[q] THEN userCount[u] - 1 ELSE userCount[u]
             /\ userCount'[u] \in Nat
             /\ userCount'[u] = Serving({r \in Requests : UserOf[r] = u})'
  <2>1. userCount[u] \in Nat /\ userCount[u] = Serving({r \in Requests : UserOf[r] = u})
    BY DEF GateInv, GateTypeOK, GateCountsRequests
  <2>2. userCount' = [userCount EXCEPT ![UserOf[q]] = IF @ > 0 THEN @ - 1 ELSE 0]
    BY DEF Release
  <2>3. u = UserOf[q] => userCount[u] > 0
    BY <1>3, <2>1
  <2>4. Serving({r \in Requests : UserOf[r] = u})' =
           IF u = UserOf[q] THEN Serving({r \in Requests : UserOf[r] = u}) - 1
           ELSE Serving({r \in Requests : UserOf[r] = u})
    BY <1>3
  <2>5. userCount'[u] = IF u = UserOf[q] THEN userCount[u] - 1 ELSE userCount[u]
    BY <1>1, <2>2, <2>3 DEF GateInv, GateTypeOK
  <2> QED BY <2>1, <2>3, <2>4, <2>5
<1>6. largeCount' = (IF q \in LargeRequests THEN largeCount - 1 ELSE largeCount)
      /\ largeCount' \in Nat /\ largeCount' = Serving(LargeRequests)'
  BY <1>1, <1>3 DEF Release, GateInv, GateTypeOK, GateCountsRequests
<1>7. GateTypeOK'
  <2>1. userCount' \in [Users -> Nat]
    <3>1. DOMAIN userCount' = Users
      BY DEF Release, GateInv, GateTypeOK
    <3>2. userCount' = [u \in Users |-> userCount'[u]]
      BY DEF Release, GateInv, GateTypeOK
    <3> QED BY <1>5, <3>2
  <2>2. stage' \in [Callers -> Stage]
    BY <1>2 DEF GateInv, GateTypeOK, Stage
  <2>3. count' \in Nat
    BY <1>4 DEF GateInv, GateTypeOK
  <2> QED BY <1>6, <2>1, <2>2, <2>3 DEF GateTypeOK
<1>8. count' = Serving(Requests)'
  BY <1>3, <1>4 DEF GateInv, GateCountsRequests
<1>9. \A u \in Users : UserQuota > 0 => userCount'[u] <= UserQuota
  <2> SUFFICES ASSUME NEW u \in Users, UserQuota > 0 PROVE userCount'[u] <= UserQuota
    OBVIOUS
  <2>1. userCount[u] \in Nat /\ userCount[u] <= UserQuota
    BY DEF GateInv, GateTypeOK, GateCountsRequests
  <2>2. userCount'[u] = IF u = UserOf[q] THEN userCount[u] - 1 ELSE userCount[u]
    BY <1>5
  <2> QED BY <1>1, <2>1, <2>2
<1>10. (GlobalLimit > 0 => count' <= GlobalLimit) /\ (LargeQuota > 0 => largeCount' <= LargeQuota)
  BY <1>1, <1>4, <1>6 DEF GateInv, GateTypeOK, GateCountsRequests
<1> QED BY <1>5, <1>6, <1>7, <1>8, <1>9, <1>10 DEF GateInv, GateCountsRequests

\* The limiter, the clock and registrations leave the gate alone.
LEMMA OtherStep ==
    ASSUME GateInv,
           \/ \E c \in Callers : ReadClock(c)
           \/ \E r \in Requests : AllowKey(r) \/ AllowUser(r)
           \/ \E g \in Registrations : Register(g)
           \/ Tick \/ UNCHANGED vars
    PROVE  GateInv'
<1>1. UNCHANGED gateVars
  BY DEF ReadClock, AllowKey, AllowUser, Register, Tick, vars
<1>2. /\ stage' \in [Callers -> Stage]
      /\ \A r \in Requests : (stage[r] = "serving") <=> (stage'[r] = "serving")
  <2> USE AdmissionAssumption DEF GateInv, GateTypeOK, Callers, Stage
  <2>1. CASE \E c \in Callers : ReadClock(c)
    BY <2>1 DEF ReadClock
  <2>2. CASE \E r \in Requests : AllowKey(r)
    BY <2>2 DEF AllowKey
  <2>3. CASE \E r \in Requests : AllowUser(r)
    BY <2>3 DEF AllowUser
  <2>4. CASE \E g \in Registrations : Register(g)
    BY <2>4 DEF Register
  <2>5. CASE Tick \/ UNCHANGED vars
    BY <2>5 DEF Tick, vars
  <2> QED BY <2>1, <2>2, <2>3, <2>4, <2>5
<1>3. \A S \in SUBSET Requests : Serving(S)' = Serving(S)
  BY <1>2, SameServing
<1>4. LargeRequests \subseteq Requests
  BY AdmissionAssumption
<1> QED BY <1>1, <1>2, <1>3, <1>4 DEF GateInv, GateTypeOK, GateCountsRequests, gateVars

\* Acquire and Release keep the counts exact; Release's floors at zero are never
\* needed.
THEOREM GateCorrect == Spec => []GateCountsRequests
<1>1. GateInv /\ [Next]_vars => GateInv'
  BY AcquireStep, ReleaseStep, OtherStep DEF Next, GuardV1, Callers
<1>2. GateInv => GateCountsRequests
  BY DEF GateInv
<1> QED BY GateInit, <1>1, <1>2, PTL DEF Spec

-----------------------------------------------------------------------------
(* The limiter *)

\* Of the calls allowed for a bucket, the bucket holds the last ones, as their
\* callers had read the clock; the others have left the window.
Holds(times, calls) ==
    LET gone == Len(calls) - Len(times)
    IN  /\ Len(times) <= Len(calls)
        /\ \A i \in 1..Len(times) :
              times[i] <= calls[gone + i] /\ calls[gone + i] <= times[i] + MaxLag
        /\ \A i \in 1..gone : calls[i] + RequestWindow < now + MaxLag

Sorted(calls) ==
    /\ \A i, j \in 1..Len(calls) : i <= j => calls[i] <= calls[j]
    /\ \A i \in 1..Len(calls) : calls[i] <= now

\* A call and the one that is limit places after it are not of one window.
Apart(calls, limit) ==
    \A i \in 1..Len(calls) :
        i > limit => calls[i - limit] + RequestWindow < calls[i] + MaxLag

RateBuckets == {KeyBucket[r] : r \in Requests} \cup {UserBucket[r] : r \in Requests}

BucketOK(b) ==
    /\ LimitOf[b] > 0 => Holds(buckets[b], allowed[b]) /\ Apart(allowed[b], LimitOf[b])
    /\ Sorted(allowed[b])

LimiterTypes ==
    /\ now \in Nat /\ lastSweep \in Nat
    /\ buckets \in [Buckets -> Seq(Nat)] /\ allowed \in [Buckets -> Seq(Nat)]
    /\ stage \in [Callers -> Stage] /\ reading \in [Callers -> Nat]

Fresh(t) == t <= now /\ now <= t + MaxLag

LimiterInv ==
    /\ LimiterTypes
    /\ \A c \in Callers : stage[c] \in {"key", "user", "register"} => Fresh(reading[c])
    /\ \A b \in RateBuckets : BucketOK(b)

LEMMA LeastNumber ==
    ASSUME NEW S \in SUBSET Nat, S # {} PROVE \E m \in S : \A n \in S : m <= n
<1>1. PICK m \in S : \A n \in S : <<n, m>> \notin OpToRel(<, Nat)
  BY NatLessThanWellFounded, WFMin
<1>2. ASSUME NEW n \in S PROVE m <= n
  <2>1. ~(n < m)
    BY <1>1 DEF OpToRel
  <2> QED BY <2>1
<1> QED BY <1>2

\* Allow's loop drops entries from the front, each of them before the cutoff.
LEMMA RecentDrops ==
    ASSUME NEW times \in Seq(Nat), NEW cutoff \in Int
    PROVE  LET rest == Recent(times, cutoff)
               dropped == Len(times) - Len(rest)
           IN  /\ rest \in Seq(Nat) /\ dropped \in 0..Len(times) /\ Len(rest) \in Nat
               /\ \A i \in 1..Len(rest) : rest[i] = times[dropped + i]
               /\ \A i \in 1..dropped : times[i] < cutoff
<1> DEFINE n == Len(times)
           from == {i \in DOMAIN times :
                       times[i] >= cutoff /\ \A j \in 1..(i - 1) : times[j] < cutoff}
           late == {i \in 1..n : times[i] >= cutoff}
<1>1. n \in Nat /\ DOMAIN times = 1..n /\ \A i \in 1..n : times[i] \in Nat
  BY LenProperties, ElementOfSeq
<1>2. CASE from = {}
  <2>1. late = {}
    <3> SUFFICES ASSUME late # {} PROVE FALSE
      OBVIOUS
    <3>1. late \in SUBSET Nat
      BY <1>1
    <3>2. PICK m \in late : \A i \in late : m <= i
      <4> HIDE DEF late
      <4> QED BY <3>1, LeastNumber
    <3>3. \A j \in 1..(m - 1) : times[j] < cutoff
      <4> SUFFICES ASSUME NEW j \in 1..(m - 1), ~(times[j] < cutoff) PROVE FALSE
        OBVIOUS
      <4>1. j \in 1..n /\ ~(m <= j) /\ times[j] \in Nat
        BY <1>1, <3>2
      <4> QED BY <3>2, <4>1
    <3> QED BY <1>1, <1>2, <3>2, <3>3
  <2>2. \A i \in 1..n : times[i] < cutoff
    BY <1>1, <2>1
  <2>3. Recent(times, cutoff) = <<>>
    BY <1>2 DEF Recent
  <2> QED BY <1>1, <2>2, <2>3, EmptySeq
<1>3. CASE from # {}
  <2>1. PICK k \in from : Recent(times, cutoff) = SubSeq(times, k, n)
    BY <1>3 DEF Recent
  <2>2. k \in 1..n /\ \A j \in 1..(k - 1) : times[j] < cutoff
    BY <1>1, <2>1
  <2>3. /\ SubSeq(times, k, n) \in Seq(Nat) /\ Len(SubSeq(times, k, n)) = n - k + 1
        /\ \A i \in 1..n - k + 1 : SubSeq(times, k, n)[i] = times[k + i - 1]
    <3>1. k \in Int /\ n \in Int /\ k <= n /\ \A i \in k..n : times[i] \in Nat
      BY <1>1, <2>2
    <3> HIDE DEF n, from
    <3>2. /\ SubSeq(times, k, n) \in Seq(Nat)
          /\ Len(SubSeq(times, k, n)) = IF k <= n THEN n - k + 1 ELSE 0
          /\ \A i \in 1..n - k + 1 : SubSeq(times, k, n)[i] = times[k + i - 1]
      BY ONLY <3>1, SubSeqProperties
    <3> QED BY <3>1, <3>2
  <2> HIDE DEF n, from
  <2> QED BY <1>1, <2>1, <2>2, <2>3 DEF n
<1> QED BY <1>2, <1>3

LEMMA SortedIsLast ==
    ASSUME LimiterTypes, NEW times \in Seq(Nat), NEW calls \in Seq(Nat),
           Holds(times, calls), Sorted(calls), times # <<>>,
           times[Len(times)] + RequestWindow < now
    PROVE  Holds(<<>>, calls)
<1> DEFINE n == Len(times)
           m == Len(calls)
<1>1. n \in 1..m /\ m \in Nat
  BY LenProperties, EmptySeq DEF Holds
<1>2. calls[m] <= times[n] + MaxLag
  BY <1>1 DEF Holds
<1>3. \A i \in 1..m : calls[i] \in Nat /\ calls[i] <= calls[m]
  BY <1>1, ElementOfSeq DEF Sorted
<1>4. times[n] \in Nat /\ now \in Nat /\ MaxLag \in Nat /\ RequestWindow \in Nat
  BY <1>1, ElementOfSeq, AdmissionAssumption DEF LimiterTypes
<1>5. \A i \in 1..m : calls[i] + RequestWindow < now + MaxLag
  <2> HIDE DEF n, m
  <2> SUFFICES ASSUME NEW i \in 1..m PROVE calls[i] + RequestWindow < now + MaxLag
    OBVIOUS
  <2>1. calls[i] \in Nat /\ calls[m] \in Nat /\ calls[i] <= calls[m]
    BY <1>1, <1>3
  <2>2. times[n] + RequestWindow < now
    BY DEF n
  <2>3. \A c, d, t, w, l, e \in Nat : c <= d /\ d <= t + l /\ t + w < e => c + w < e + l
    OBVIOUS
  <2> QED BY ONLY <1>2, <1>4, <2>1, <2>2, <2>3
<1> QED BY <1>1, <1>5, EmptySeq DEF Holds

\* Whoever sweeps, with a minute or an hour: of an unused bucket the last call
\* has left the window of a minute long ago.
LEMMA SweepKeeps ==
    ASSUME LimiterTypes, NEW b \in Buckets, NEW window \in {RequestWindow, RegistrationWindow},
           NEW t \in Nat, Fresh(t), Sorted(allowed[b]), Holds(buckets[b], allowed[b])
    PROVE  Holds(Swept(window, t)[b], allowed[b]) /\ Swept(window, t)[b] \in Seq(Nat)
<1>1. buckets[b] \in Seq(Nat) /\ allowed[b] \in Seq(Nat) /\ <<>> \in Seq(Nat)
  BY EmptySeq DEF LimiterTypes
<1>2. CASE Swept(window, t)[b] = buckets[b]
  BY <1>1, <1>2
<1>3. CASE Swept(window, t)[b] # buckets[b]
  <2>1. Swept(window, t)[b] = <<>> /\ buckets[b] # <<>>
        /\ buckets[b][Len(buckets[b])] < t - 2 * window
    BY <1>3 DEF Swept
  <2>2. Len(buckets[b]) \in 1..Len(buckets[b])
    BY <1>1, <2>1, LenProperties, EmptySeq
  <2>3. buckets[b][Len(buckets[b])] \in Nat
    BY <1>1, <2>2, ElementOfSeq
  <2>4. window \in Nat /\ RequestWindow \in Nat /\ RequestWindow <= window /\ now \in Nat
    BY AdmissionAssumption DEF LimiterTypes
  <2>5. \A x, w, r \in Nat : x < t - 2 * w /\ r <= w /\ t <= now => x + r < now
    BY <2>4
  <2>6. buckets[b][Len(buckets[b])] + RequestWindow < now
    BY <2>1, <2>3, <2>4, <2>5 DEF Fresh
  <2> QED BY <1>1, <2>1, <2>6, SortedIsLast
<1> QED BY <1>2, <1>3

\* The loop drops what has left the window.
LEMMA RecentKeeps ==
    ASSUME LimiterTypes, NEW times \in Seq(Nat), NEW calls \in Seq(Nat),
           NEW t \in Nat, Fresh(t), Holds(times, calls)
    PROVE  LET rest == Recent(times, t - RequestWindow)
           IN  rest \in Seq(Nat) /\ Holds(rest, calls)
<1> DEFINE rest == Recent(times, t - RequestWindow)
           n == Len(times)
           m == Len(calls)
           k == n - Len(rest)
<1>1. n \in Nat /\ m \in Nat /\ n <= m
  BY LenProperties DEF Holds
<1>2. now \in Nat /\ MaxLag \in Nat /\ RequestWindow \in Nat /\ t - RequestWindow \in Int
  BY AdmissionAssumption DEF LimiterTypes
<1>3. /\ rest \in Seq(Nat) /\ k \in 0..n /\ Len(rest) \in Nat
      /\ \A i \in 1..Len(rest) : rest[i] = times[k + i]
      /\ \A i \in 1..k : times[i] < t - RequestWindow
  BY <1>2, RecentDrops
<1>4. /\ \A i \in 1..n : times[i] \in Nat /\ times[i] <= calls[(m - n) + i]
                         /\ calls[(m - n) + i] <= times[i] + MaxLag
      /\ \A i \in 1..(m - n) : calls[i] + RequestWindow < now + MaxLag
      /\ \A i \in 1..m : calls[i] \in Nat
  BY ElementOfSeq DEF Holds
<1>5. t <= now
  BY DEF Fresh
<1> HIDE DEF n, m, k, rest
<1>6. Len(rest) = n - k
  BY <1>1, <1>3 DEF k, n
<1>7. \A i \in 1..Len(rest) : /\ rest[i] <= calls[(m - Len(rest)) + i]
                              /\ calls[(m - Len(rest)) + i] <= rest[i] + MaxLag
  <2> SUFFICES ASSUME NEW i \in 1..Len(rest)
               PROVE  /\ rest[i] <= calls[(m - Len(rest)) + i]
                      /\ calls[(m - Len(rest)) + i] <= rest[i] + MaxLag
    OBVIOUS
  <2>1. k + i \in 1..n /\ (m - n) + (k + i) = (m - Len(rest)) + i
    BY <1>1, <1>3, <1>6
  <2> QED BY <1>3, <1>4, <2>1
<1>8. \A i \in 1..(m - Len(rest)) : calls[i] + RequestWindow < now + MaxLag
  <2> SUFFICES ASSUME NEW i \in 1..(m - Len(rest)), ~(i <= m - n)
               PROVE  calls[i] + RequestWindow < now + MaxLag
    BY <1>1, <1>4
  <2>1. PICK j \in 1..k : i = (m - n) + j
    <3>1. i - (m - n) \in 1..k /\ i = (m - n) + (i - (m - n))
      BY <1>1, <1>3, <1>6
    <3> QED BY <3>1
  <2>2. /\ times[j] \in Nat /\ calls[i] \in Nat /\ calls[i] <= times[j] + MaxLag
        /\ times[j] < t - RequestWindow
    BY <1>1, <1>3, <1>4, <2>1
  <2>3. \A x, y, w, l, e \in Nat : x <= y + l /\ y < t - w /\ t <= e => x + w < e + l
    OBVIOUS
  <2> QED BY ONLY <1>2, <1>5, <2>2, <2>3
<1>9. Len(rest) <= m
  BY <1>1, <1>3, <1>6
<1>10. Holds(rest, calls)
  BY <1>7, <1>8, <1>9 DEF Holds, m
<1> QED BY <1>3, <1>10 DEF rest

\* A call that is allowed.
LEMMA AppendKeeps ==
    ASSUME LimiterTypes, NEW times \in Seq(Nat), NEW calls \in Seq(Nat), NEW limit \in Nat,
           NEW t \in Nat, Fresh(t), Holds(times, calls), Sorted(calls), Apart(calls, limit),
           limit > 0, Len(times) < limit
    PROVE  /\ Holds(Append(times, t), Append(calls, now))
           /\ Sorted(Append(calls, now)) /\ Apart(Append(calls, now), limit)
<1> DEFINE n == Len(times)
           m == Len(calls)
           later == Append(times, t)
           more == Append(calls, now)
<1>1. n \in Nat /\ m \in Nat /\ n <= m /\ n < limit /\ now \in Nat
      /\ MaxLag \in Nat /\ RequestWindow \in Nat
  BY LenProperties, AdmissionAssumption DEF Holds, LimiterTypes
<1>2. /\ Len(later) = n + 1 /\ later[n + 1] = t /\ \A i \in 1..n : later[i] = times[i]
      /\ Len(more) = m + 1 /\ more[m + 1] = now /\ \A i \in 1..m : more[i] = calls[i]
  BY <1>1, AppendProperties
<1>3. /\ \A i \in 1..n : times[i] <= calls[(m - n) + i] /\ calls[(m - n) + i] <= times[i] + MaxLag
      /\ \A i \in 1..(m - n) : calls[i] + RequestWindow < now + MaxLag
      /\ \A i, j \in 1..m : i <= j => calls[i] <= calls[j]
      /\ \A i \in 1..m : calls[i] <= now
      /\ \A i \in 1..m : i > limit => calls[i - limit] + RequestWindow < calls[i] + MaxLag
  BY DEF Holds, Sorted, Apart
<1>4. t <= now /\ now <= t + MaxLag
  BY DEF Fresh
<1> HIDE DEF n, m, later, more
<1>5. /\ \A i \in 1..Len(later) : /\ later[i] <= more[(Len(more) - Len(later)) + i]
                                  /\ more[(Len(more) - Len(later)) + i] <= later[i] + MaxLag
      /\ \A i \in 1..(Len(more) - Len(later)) : more[i] + RequestWindow < now + MaxLag
      /\ Len(later) <= Len(more)
  <2>1. Len(more) - Len(later) = m - n /\ m - n \in 0..m
    BY <1>1, <1>2
  <2>2. \A i \in 1..(m - n) : i \in 1..m
    BY <1>1
  <2>3. ASSUME NEW i \in 1..Len(later)
        PROVE  later[i] <= more[(m - n) + i] /\ more[(m - n) + i] <= later[i] + MaxLag
    <3>1. CASE i = n + 1
      <4>1. (m - n) + i = m + 1
        BY <1>1, <3>1
      <4> QED BY <1>2, <1>4, <3>1, <4>1
    <3>2. CASE i # n + 1
      <4>1. i \in 1..n /\ (m - n) + i \in 1..m
        BY <1>1, <1>2, <2>3, <3>2
      <4> QED BY <1>2, <1>3, <4>1
    <3> QED BY <3>1, <3>2
  <2>4. \A i \in 1..(m - n) : more[i] + RequestWindow < now + MaxLag
    BY <1>2, <1>3, <2>2
  <2>5. Len(later) <= Len(more)
    BY <1>1, <1>2
  <2> QED BY <2>1, <2>3, <2>4, <2>5
<1>6. \A i \in 1..Len(more) : more[i] <= now
  <2> SUFFICES ASSUME NEW i \in 1..Len(more) PROVE more[i] <= now
    OBVIOUS
  <2>1. i \in 1..m \/ i = m + 1
    BY <1>1, <1>2
  <2>2. CASE i \in 1..m
    BY <1>2, <1>3, <2>2
  <2>3. CASE i = m + 1
    BY <1>1, <1>2, <2>3
  <2> QED BY <2>1, <2>2, <2>3
<1>7. \A i, j \in 1..Len(more) : i <= j => more[i] <= more[j]
  <2> SUFFICES ASSUME NEW i \in 1..Len(more), NEW j \in 1..Len(more), i <= j
               PROVE  more[i] <= more[j]
    OBVIOUS
  <2>1. CASE j = m + 1
    BY <1>2, <1>6, <2>1
  <2>2. CASE j # m + 1
    <3>1. i \in 1..m /\ j \in 1..m
      BY <1>1, <1>2, <2>2
    <3> QED BY <1>2, <1>3, <3>1
  <2> QED BY <2>1, <2>2
<1>8. ASSUME NEW i \in 1..Len(more), i > limit
      PROVE  more[i - limit] + RequestWindow < more[i] + MaxLag
  <2>1. CASE i = m + 1
    <3>1. i - limit \in 1..(m - n) /\ i - limit \in 1..m
      BY <1>1, <1>8, <2>1
    <3> QED BY <1>2, <1>3, <2>1, <3>1
  <2>2. CASE i # m + 1
    <3>1. i \in 1..m /\ i - limit \in 1..m
      BY <1>1, <1>2, <1>8, <2>2
    <3> QED BY <1>2, <1>3, <1>8, <3>1
  <2> QED BY <2>1, <2>2
<1> QED BY <1>5, <1>6, <1>7, <1>8 DEF Holds, Sorted, Apart, later, more

-----------------------------------------------------------------------------
(* The limiter's steps *)

\* A call of Allow, for a bucket of rates or for one of registrations.
LEMMA AllowStep ==
    ASSUME LimiterTypes, \A b \in RateBuckets : BucketOK(b), NEW c \in Buckets,
           NEW window \in {RequestWindow, RegistrationWindow},
           c \in RateBuckets => window = RequestWindow,
           NEW t \in Nat, Fresh(t), NEW ok \in BOOLEAN, Allow(c, window, t, ok), now' = now
    PROVE  /\ lastSweep' \in Nat
           /\ buckets' \in [Buckets -> Seq(Nat)] /\ allowed' \in [Buckets -> Seq(Nat)]
           /\ \A b \in RateBuckets : BucketOK(b)'
<1> USE DEF LimiterTypes
<1>1. CASE UNCHANGED limiterVars
  BY <1>1 DEF limiterVars, BucketOK, Holds, Sorted, Apart
<1>2. CASE ~UNCHANGED limiterVars
  <2> DEFINE sweeping == t - lastSweep > SweepInterval
             swept == IF sweeping THEN Swept(window, t) ELSE buckets
             times == Recent(swept[c], t - window)
  <2>1. /\ LimitOf[c] # 0 /\ ok = ~Full(LimitOf[c], Len(times))
        /\ lastSweep' = IF sweeping THEN t ELSE lastSweep
        /\ buckets' = [swept EXCEPT ![c] = IF ok THEN Append(times, t) ELSE times]
        /\ allowed' = IF ok THEN [allowed EXCEPT ![c] = Append(@, now)] ELSE allowed
    BY <1>2 DEF Allow
  <2>2. LimitOf[c] \in Nat /\ window \in Nat /\ t - window \in Int /\ now \in Nat
        /\ \A b \in Buckets : LimitOf[b] \in Nat
    BY AdmissionAssumption
  <2>3. swept \in [Buckets -> Seq(Nat)]
    BY EmptySeq DEF Swept
  <2>4. times \in Seq(Nat) /\ Append(times, t) \in Seq(Nat)
    <3>1. swept[c] \in Seq(Nat)
      BY <2>3
    <3>2. times \in Seq(Nat)
      <4> HIDE DEF swept
      <4> QED BY <2>2, <3>1, RecentDrops
    <3> HIDE DEF times
    <3> QED BY <3>2, AppendProperties
  <2>5. allowed[c] \in Seq(Nat) /\ Append(allowed[c], now) \in Seq(Nat)
    BY <2>2, AppendProperties
  <2> HIDE DEF swept, times
  <2>6. lastSweep' \in Nat /\ buckets' \in [Buckets -> Seq(Nat)] /\ allowed' \in [Buckets -> Seq(Nat)]
    BY <2>1, <2>3, <2>4, <2>5
  <2>7. ASSUME NEW b \in RateBuckets, LimitOf[b] > 0
        PROVE  Holds(swept[b], allowed[b]) /\ swept[b] \in Seq(Nat)
    <3>1. b \in Buckets /\ Sorted(allowed[b]) /\ Holds(buckets[b], allowed[b])
      BY <2>7, AdmissionAssumption DEF RateBuckets, BucketOK
    <3> QED BY <2>3, <3>1, SweepKeeps DEF swept
  <2>8. ASSUME NEW b \in RateBuckets PROVE BucketOK(b)'
    <3>1. b \in Buckets /\ BucketOK(b)
      BY AdmissionAssumption DEF RateBuckets
    <3>2. CASE b # c
      <4>1. buckets'[b] = swept[b] /\ allowed'[b] = allowed[b]
        BY <2>1, <2>3, <3>1, <3>2
      <4> QED BY <2>7, <3>1, <4>1 DEF BucketOK, Holds, Sorted, Apart
    <3>3. CASE b = c
      <4>1. window = RequestWindow /\ LimitOf[c] > 0
        BY <2>1, <2>2, <3>3
      <4>2. Holds(swept[c], allowed[c]) /\ swept[c] \in Seq(Nat)
        BY <2>7, <3>3, <4>1
      <4>3. Holds(times, allowed[c])
        BY <2>5, <4>1, <4>2, RecentKeeps DEF times
      <4>4. buckets'[c] = IF ok THEN Append(times, t) ELSE times
        BY <2>1, <2>3
      <4>5. Sorted(allowed[c]) /\ Apart(allowed[c], LimitOf[c])
        BY <3>1, <3>3, <4>1 DEF BucketOK
      <4>6. CASE ok
        <5>1. allowed'[c] = Append(allowed[c], now)
          BY <2>1, <4>6
        <5>2. Len(times) < LimitOf[c]
          <6>1. Len(times) \in Nat
            BY <2>4, LenProperties
          <6>2. ~Full(LimitOf[c], Len(times))
            BY <2>1, <4>6
          <6> QED BY <2>2, <3>3, <4>1, <6>1, <6>2 DEF Full
        <5>3. /\ Holds(Append(times, t), Append(allowed[c], now))
              /\ Sorted(Append(allowed[c], now)) /\ Apart(Append(allowed[c], now), LimitOf[c])
          BY <2>2, <2>4, <2>5, <4>1, <4>3, <4>5, <5>2, AppendKeeps
        <5> QED BY <3>3, <4>4, <4>6, <5>1, <5>3 DEF BucketOK, Holds, Sorted, Apart
      <4>7. CASE ~ok
        <5>1. allowed'[c] = allowed[c]
          BY <2>1, <4>7
        <5> QED BY <3>3, <4>3, <4>4, <4>5, <4>7, <5>1 DEF BucketOK, Holds, Sorted, Apart
      <4> QED BY <4>6, <4>7
    <3> QED BY <3>2, <3>3
  <2> QED BY <2>6, <2>8
<1> QED BY <1>1, <1>2

\* The clock moves on, and nothing else.
LEMMA TickKeeps ==
    ASSUME LimiterInv, Tick PROVE LimiterInv'
<1>1. now \in Nat /\ now' = now + 1 /\ UNCHANGED <<buckets, lastSweep, allowed, stage, reading>>
  BY DEF LimiterInv, LimiterTypes, Tick, limiterVars
<1>2. LimiterTypes'
  BY <1>1 DEF LimiterInv, LimiterTypes
<1>3. ASSUME NEW c \in Callers, stage[c] \in {"key", "user", "register"} PROVE Fresh(reading[c])'
  <2>1. Fresh(reading[c]) /\ now - reading[c] < MaxLag /\ reading[c] \in Nat /\ MaxLag \in Nat
    BY <1>3, AdmissionAssumption DEF LimiterInv, LimiterTypes, Tick
  <2> QED BY <1>1, <2>1 DEF Fresh
<1>4. ASSUME NEW b \in RateBuckets PROVE BucketOK(b)'
  <2>1. /\ BucketOK(b) /\ allowed[b] \in Seq(Nat) /\ buckets[b] \in Seq(Nat)
        /\ RequestWindow \in Nat /\ MaxLag \in Nat
    BY AdmissionAssumption DEF LimiterInv, LimiterTypes, RateBuckets
  <2>2. /\ Len(allowed[b]) \in Nat /\ Len(buckets[b]) \in Nat
        /\ \A i \in 1..Len(allowed[b]) : allowed[b][i] \in Nat
    BY <2>1, LenProperties, ElementOfSeq
  <2>3. Sorted(allowed[b])'
    <3>1. Sorted(allowed[b])
      BY <2>1 DEF BucketOK
    <3>2. \A i \in 1..Len(allowed[b]) : allowed[b][i] <= now'
      BY <1>1, <2>2, <3>1 DEF Sorted
    <3> QED BY <1>1, <3>1, <3>2 DEF Sorted
  <2>4. ASSUME LimitOf[b] > 0 PROVE Holds(buckets[b], allowed[b])' /\ Apart(allowed[b], LimitOf[b])'
    <3>1. Holds(buckets[b], allowed[b]) /\ Apart(allowed[b], LimitOf[b])
      BY <2>1, <2>4 DEF BucketOK
    <3>2. \A i \in 1..(Len(allowed[b]) - Len(buckets[b])) :
             allowed[b][i] + RequestWindow < now' + MaxLag
      <4> SUFFICES ASSUME NEW i \in 1..(Len(allowed[b]) - Len(buckets[b]))
                   PROVE  allowed[b][i] + RequestWindow < now' + MaxLag
        OBVIOUS
      <4>1. allowed[b][i] \in Nat /\ allowed[b][i] + RequestWindow < now + MaxLag
        BY <2>2, <3>1 DEF Holds
      <4> QED BY <1>1, <2>1, <4>1
    <3> QED BY <1>1, <3>1, <3>2 DEF Holds, Apart
  <2> QED BY <2>3, <2>4 DEF BucketOK
<1>5. \A c \in Callers : (stage[c] \in {"key", "user", "register"} => Fresh(reading[c]))'
  BY <1>1, <1>3
<1> QED BY <1>2, <1>4, <1>5 DEF LimiterInv

LEMMA LimiterBegins == Init => LimiterInv
<1> SUFFICES ASSUME Init PROVE LimiterInv
  OBVIOUS
<1>1. LimiterTypes
  BY EmptySeq DEF Init, LimiterTypes, Stage
<1>2. \A b \in RateBuckets : buckets[b] = <<>> /\ allowed[b] = <<>>
  BY AdmissionAssumption DEF Init, RateBuckets
<1>3. \A b \in RateBuckets : BucketOK(b)
  <2>1. Len(<<>>) = 0 /\ 1..0 = {} /\ 0 - 0 = 0 /\ 0 <= 0
    BY EmptySeq
  <2>2. Holds(<<>>, <<>>) /\ Sorted(<<>>) /\ \A limit : Apart(<<>>, limit)
    BY <2>1 DEF Holds, Sorted, Apart
  <2> QED BY <1>2, <2>2 DEF BucketOK
<1>4. \A c \in Callers : stage[c] = "idle"
  BY DEF Init
<1> QED BY <1>1, <1>3, <1>4 DEF LimiterInv

\* A caller with a clock reading calls Allow; what becomes of it afterwards.
LEMMA CallerStep ==
    ASSUME LimiterInv, NEW c \in Callers, NEW b \in Buckets, NEW ok \in BOOLEAN,
           NEW window \in {RequestWindow, RegistrationWindow},
           b \in RateBuckets => window = RequestWindow,
           stage[c] \in {"key", "user", "register"}, Allow(b, window, reading[c], ok),
           now' = now, NEW next \in {"user", "gate", "done"},
           stage' = [stage EXCEPT ![c] = next],
           reading' = [reading EXCEPT ![c] = now] \/ (reading' = reading /\ next # "user")
    PROVE  LimiterInv'
<1>1. Fresh(reading[c]) /\ reading[c] \in Nat /\ now \in Nat /\ MaxLag \in Nat
  BY AdmissionAssumption DEF LimiterInv, LimiterTypes
<1>2. /\ lastSweep' \in Nat
      /\ buckets' \in [Buckets -> Seq(Nat)] /\ allowed' \in [Buckets -> Seq(Nat)]
      /\ \A a \in RateBuckets : BucketOK(a)'
  BY <1>1, AllowStep DEF LimiterInv
<1>3. LimiterTypes'
  BY <1>1, <1>2 DEF LimiterInv, LimiterTypes, Stage
<1>4. ASSUME NEW d \in Callers, stage'[d] \in {"key", "user", "register"} PROVE Fresh(reading[d])'
  <2>1. CASE d # c
    BY <1>4, <2>1 DEF LimiterInv, LimiterTypes, Fresh
  <2>2. CASE d = c
    BY <1>1, <1>4, <2>2 DEF LimiterInv, LimiterTypes, Fresh
  <2> QED BY <2>1, <2>2
<1> QED BY <1>2, <1>3, <1>4 DEF LimiterInv

LEMMA ClockReading == ASSUME LimiterInv, NEW c \in Callers, ReadClock(c) PROVE LimiterInv'
<1>1. /\ now \in Nat /\ MaxLag \in Nat /\ UNCHANGED <<now, buckets, lastSweep, allowed>>
      /\ reading' = [reading EXCEPT ![c] = now]
      /\ \E s \in Stage : stage' = [stage EXCEPT ![c] = s]
  BY AdmissionAssumption DEF LimiterInv, LimiterTypes, ReadClock, limiterVars, Stage
<1>2. LimiterTypes'
  BY <1>1 DEF LimiterInv, LimiterTypes
<1>3. ASSUME NEW d \in Callers, stage'[d] \in {"key", "user", "register"} PROVE Fresh(reading[d])'
  BY <1>1, <1>3 DEF LimiterInv, LimiterTypes, Fresh
<1>4. \A b \in RateBuckets : BucketOK(b)'
  BY <1>1 DEF LimiterInv, BucketOK, Holds, Sorted, Apart
<1> QED BY <1>2, <1>3, <1>4 DEF LimiterInv

\* The gate leaves the limiter alone.
LEMMA GateKeeps ==
    ASSUME LimiterInv, (\E r \in Requests : Acquire(r) \/ Release(r)) \/ UNCHANGED vars
    PROVE  LimiterInv'
<1>1. UNCHANGED <<now, buckets, lastSweep, allowed, reading>>
  BY DEF Acquire, Release, limiterVars, vars
<1>2. /\ stage' \in [Callers -> Stage]
      /\ \A c \in Callers : stage'[c] \in {"key", "user", "register"} => stage'[c] = stage[c]
  BY DEF Acquire, Release, vars, LimiterInv, LimiterTypes, Stage, Callers
<1>3. LimiterTypes'
  BY <1>1, <1>2 DEF LimiterInv, LimiterTypes
<1> QED BY <1>1, <1>2, <1>3 DEF LimiterInv, Fresh, BucketOK, Holds, Sorted, Apart

LEMMA LimiterStep == LimiterInv /\ [Next]_vars => LimiterInv'
<1> SUFFICES ASSUME LimiterInv, [Next]_vars PROVE LimiterInv'
  OBVIOUS
<1>1. ASSUME NEW r \in Requests, AllowKey(r) PROVE LimiterInv'
  <2>1. PICK ok \in BOOLEAN : Allow(KeyBucket[r], RequestWindow, reading[r], ok)
    BY <1>1 DEF AllowKey
  <2>2. /\ KeyBucket[r] \in Buckets /\ r \in Callers /\ stage[r] = "key" /\ now' = now
        /\ stage' = [stage EXCEPT ![r] = "user"] /\ reading' = [reading EXCEPT ![r] = now]
    BY <1>1, AdmissionAssumption DEF AllowKey, Callers
  <2> QED BY <2>1, <2>2, CallerStep
<1>2. ASSUME NEW r \in Requests, AllowUser(r) PROVE LimiterInv'
  <2>1. PICK ok \in BOOLEAN :
           /\ Allow(UserBucket[r], RequestWindow, reading[r], ok)
           /\ stage' = [stage EXCEPT ![r] = IF keyOK[r] /\ ok THEN "gate" ELSE "done"]
    BY <1>2 DEF AllowUser
  <2>2. PICK next \in {"gate", "done"} : stage' = [stage EXCEPT ![r] = next]
    BY <2>1
  <2>3. UserBucket[r] \in Buckets /\ r \in Callers /\ stage[r] = "user" /\ UNCHANGED <<now, reading>>
    BY <1>2, AdmissionAssumption DEF AllowUser, Callers
  <2>4. next \in {"user", "gate", "done"} /\ next # "user"
    OBVIOUS
  <2>5. RequestWindow \in {RequestWindow, RegistrationWindow}
    OBVIOUS
  <2>6. Allow(UserBucket[r], RequestWindow, reading[r], ok)
    BY <2>1
  <2> QED BY ONLY LimiterInv, <2>2, <2>3, <2>4, <2>5, <2>6, CallerStep
<1>3. ASSUME NEW g \in Registrations, Register(g) PROVE LimiterInv'
  <2>1. PICK ok \in BOOLEAN : Allow(AddressBucket[g], RegistrationWindow, reading[g], ok)
    BY <1>3 DEF Register
  <2>2. /\ AddressBucket[g] \in Buckets \ RateBuckets /\ g \in Callers /\ stage[g] = "register"
        /\ UNCHANGED <<now, reading>> /\ stage' = [stage EXCEPT ![g] = "done"]
    BY <1>3, AdmissionAssumption DEF Register, Callers, RateBuckets
  <2> QED BY <2>1, <2>2, CallerStep
<1> QED BY <1>1, <1>2, <1>3, ClockReading, GateKeeps, TickKeeps DEF Next, GuardV1, Callers

\* Calls of one window are neighbours, so there are no more than limit of them.
LEMMA FewInAWindow ==
    ASSUME LimiterInv, NEW b \in RateBuckets PROVE KeepsLimit(b, RequestWindow)
<1> SUFFICES ASSUME LimitOf[b] > 0, NEW t \in Time
             PROVE  Cardinality({i \in DOMAIN allowed[b] :
                        allowed[b][i] \in t..(t + RequestWindow - MaxLag)}) <= LimitOf[b]
  BY DEF KeepsLimit
<1> DEFINE calls == allowed[b]
           limit == LimitOf[b]
           S == {i \in DOMAIN calls : calls[i] \in t..(t + RequestWindow - MaxLag)}
<1>1. /\ calls \in Seq(Nat) /\ limit \in Nat /\ Sorted(calls) /\ Apart(calls, limit)
      /\ RequestWindow \in Nat /\ MaxLag \in Nat /\ t \in Nat
  <2>1. b \in Buckets /\ BucketOK(b) /\ t \in Nat
    BY AdmissionAssumption DEF LimiterInv, RateBuckets, Time
  <2> QED BY <2>1, AdmissionAssumption DEF LimiterInv, LimiterTypes, BucketOK
<1>2. Len(calls) \in Nat /\ DOMAIN calls = 1..Len(calls) /\ \A i \in DOMAIN calls : calls[i] \in Nat
  BY <1>1, LenProperties, ElementOfSeq
<1>3. CASE S = {}
  <2>1. Cardinality(S) = 0
    BY <1>3, FS_EmptySet
  <2> QED BY <1>1, <2>1
<1>4. CASE S # {}
  <2>1. S \in SUBSET Nat
    BY <1>2
  <2>2. PICK m \in S : \A i \in S : m <= i
    <3> HIDE DEF S
    <3> QED BY <1>4, <2>1, LeastNumber
  <2>3. ASSUME NEW i \in S PROVE i < m + limit
    <3> SUFFICES ASSUME ~(i < m + limit) PROVE FALSE
      OBVIOUS
    <3>1. /\ m \in 1..Len(calls) /\ i \in 1..Len(calls) /\ i > limit
          /\ i - limit \in 1..Len(calls) /\ m <= i - limit
      <4>1. m \in 1..Len(calls) /\ i \in 1..Len(calls) /\ limit > 0
        BY <1>2
      <4> HIDE DEF S, calls, limit
      <4> QED BY <1>1, <1>2, <4>1
    <3>2. calls[m] <= calls[i - limit] /\ calls[i - limit] + RequestWindow < calls[i] + MaxLag
      BY <1>1, <3>1 DEF Sorted, Apart
    <3>3. t <= calls[m] /\ calls[i] <= t + RequestWindow - MaxLag
      <4>1. calls[m] \in t..(t + RequestWindow - MaxLag) /\ calls[i] \in t..(t + RequestWindow - MaxLag)
        OBVIOUS
      <4> HIDE DEF calls, limit, S
      <4> QED BY <1>1, <4>1
    <3>4. calls[m] \in Nat /\ calls[i] \in Nat /\ calls[i - limit] \in Nat
      BY <1>2, <3>1
    <3> HIDE DEF calls
    <3>5. \A x, y, z, w, l, s \in Nat :
             x <= y /\ y + w < z + l /\ s <= x /\ z <= s + w - l => FALSE
      OBVIOUS
    <3> QED BY ONLY <1>1, <3>2, <3>3, <3>4, <3>5
  <2>4. S \subseteq m..(m + limit - 1)
    BY <1>1, <2>1, <2>2, <2>3
  <2>5. m \in Nat
    BY <2>1
  <2>6. IsFiniteSet(m..(m + limit - 1)) /\ Cardinality(m..(m + limit - 1)) = limit
    <3>1. limit > 0 /\ limit \in Nat
      BY <1>1
    <3> HIDE DEF S, limit
    <3>2. m + limit - 1 \in Int /\ ~(m > m + limit - 1) /\ (m + limit - 1) - m + 1 = limit
      BY <2>5, <3>1
    <3> QED BY <2>5, <3>2, FS_Interval
  <2>7. Cardinality(S) <= Cardinality(m..(m + limit - 1))
    <3> HIDE DEF S, limit
    <3> QED BY <2>4, <2>6, FS_Subset
  <2> QED BY <2>6, <2>7
<1> QED BY <1>3, <1>4

\* The limits of keys and users hold for any order of calls and of clock
\* readings, whatever sweeps them: a sweep by a request or by a registration
\* removes only what has left the window (MemoryLimiter.Allow and sweep).
THEOREM RatesAreKept == Spec => []RequestLimitsKept
<1>1. LimiterInv => RequestLimitsKept
  BY FewInAWindow DEF RequestLimitsKept, RateBuckets
<1>2. Spec => []LimiterInv
  BY LimiterBegins, LimiterStep, PTL DEF Spec
<1> QED BY <1>1, <1>2, PTL
=============================================================================
