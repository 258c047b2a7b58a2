------------------------------- MODULE Admission -------------------------------
(***************************************************************************)
(* Who may start a request: the sliding windows of MemoryLimiter, shared   *)
(* by the relay endpoints and by registration, and the three layers of     *)
(* ConcurrencyGate, as guardV1 uses them.                                  *)
(*                                                                         *)
(* Allow reads the clock before it takes the limiter's lock; the step that *)
(* holds the lock uses a reading that is up to MaxLag old.                 *)
(***************************************************************************)
EXTENDS Integers, Sequences, FiniteSets

CONSTANTS
    Requests,               \* calls of guardV1
    KeyBucket, UserBucket,  \* the limiter's keys of a request
    Registrations,          \* calls of handleRegister
    AddressBucket,          \* the limiter's key of a registration
    Buckets,
    LimitOf,                \* of a bucket; 0 is unlimited
    RequestWindow,          \* time.Minute
    RegistrationWindow,     \* time.Hour
    SweepInterval,
    UserOf, LargeRequests,  \* whose request; those with a large body
    UserQuota, GlobalLimit, LargeQuota,     \* of the gate; 0 is unlimited
    MaxLag,                 \* bound on clock readings' age
    MaxTime                 \* bound on the clock

Callers == Requests \cup Registrations
Time == 0..MaxTime
Users == {UserOf[r] : r \in Requests}

ASSUME AdmissionAssumption ==
    /\ IsFiniteSet(Requests) /\ Requests \cap Registrations = {}
    /\ KeyBucket \in [Requests -> Buckets] /\ UserBucket \in [Requests -> Buckets]
    /\ AddressBucket \in [Registrations -> Buckets]
    /\ LimitOf \in [Buckets -> Nat]
    /\ \A r \in Requests, g \in Registrations :
           AddressBucket[g] # KeyBucket[r] /\ AddressBucket[g] # UserBucket[r]
    /\ RequestWindow \in Nat /\ RegistrationWindow \in Nat /\ SweepInterval \in Nat
    /\ RequestWindow <= RegistrationWindow
    /\ LargeRequests \subseteq Requests
    /\ UserQuota \in Nat /\ GlobalLimit \in Nat /\ LargeQuota \in Nat
    /\ MaxLag \in Nat /\ MaxTime \in Nat

VARIABLES
    now,
    buckets, lastSweep,     \* MemoryLimiter; <<>> for a bucket that is not there
    count, userCount, largeCount,   \* ConcurrencyGate
    stage,                  \* of a caller
    reading,                \* the clock as it read it
    keyOK,                  \* guardV1's keyOK, until userOK is known
    allowed                 \* history: when calls of Allow returned TRUE

limiterVars == <<buckets, lastSweep, allowed>>
gateVars == <<count, userCount, largeCount>>
vars == <<now, limiterVars, gateVars, stage, reading, keyOK>>

Stage == {"idle", "key", "user", "gate", "serving", "register", "done"}

-----------------------------------------------------------------------------
(* MemoryLimiter *)

Full(limit, n) == limit > 0 /\ n >= limit

\* Allow's loop: the first entries, up to one that is still in the window.
Recent(times, cutoff) ==
    LET from == {i \in DOMAIN times :
                    times[i] >= cutoff /\ \A j \in 1..(i - 1) : times[j] < cutoff}
    IN  IF from = {} THEN <<>> ELSE SubSeq(times, CHOOSE i \in from : TRUE, Len(times))

\* Mutant: every bucket that is not in use this instant is cold.
SweptUpToNow(window, t) ==
    [b \in Buckets |->
        IF buckets[b] # <<>> /\ buckets[b][Len(buckets[b])] < t THEN <<>> ELSE buckets[b]]

\* sweep, with the window of whoever calls it.
Swept(window, t) ==
    [b \in Buckets |->
        IF buckets[b] # <<>> /\ buckets[b][Len(buckets[b])] < t - 2 * window
        THEN <<>> ELSE buckets[b]]

\* Allow under the lock, at time t of the caller's reading.
Allow(b, window, t, ok) ==
    LET sweeping == t - lastSweep > SweepInterval
        swept == IF sweeping THEN Swept(window, t) ELSE buckets
        times == Recent(swept[b], t - window)
    IN  IF LimitOf[b] = 0
        THEN ok = TRUE /\ UNCHANGED limiterVars
        ELSE /\ ok = ~Full(LimitOf[b], Len(times))
             /\ lastSweep' = IF sweeping THEN t ELSE lastSweep
             /\ buckets' = [swept EXCEPT ![b] = IF ok THEN Append(times, t) ELSE times]
             /\ allowed' = IF ok THEN [allowed EXCEPT ![b] = Append(@, now)] ELSE allowed

-----------------------------------------------------------------------------
(* guardV1 *)

ReadClock(c) ==
    /\ stage[c] = "idle"
    /\ stage' = [stage EXCEPT ![c] = IF c \in Requests THEN "key" ELSE "register"]
    /\ reading' = [reading EXCEPT ![c] = now]
    /\ UNCHANGED <<now, limiterVars, gateVars, keyOK>>

AllowKey(r) ==
    /\ stage[r] = "key"
    /\ \E ok \in BOOLEAN :
          /\ Allow(KeyBucket[r], RequestWindow, reading[r], ok)
          /\ keyOK' = [keyOK EXCEPT ![r] = ok]
    /\ stage' = [stage EXCEPT ![r] = "user"]
    /\ reading' = [reading EXCEPT ![r] = now]
    /\ UNCHANGED <<now, gateVars>>

AllowUser(r) ==
    /\ stage[r] = "user"
    /\ \E ok \in BOOLEAN :
          /\ Allow(UserBucket[r], RequestWindow, reading[r], ok)
          /\ stage' = [stage EXCEPT ![r] = IF keyOK[r] /\ ok THEN "gate" ELSE "done"]
    /\ UNCHANGED <<now, gateVars, reading, keyOK>>

\* Acquire.
Acquire(r) ==
    LET u == UserOf[r]
        refused == \/ Full(UserQuota, userCount[u])
                   \/ Full(GlobalLimit, count)
                   \/ r \in LargeRequests /\ Full(LargeQuota, largeCount)
    IN  /\ stage[r] = "gate"
        /\ IF refused
           THEN /\ stage' = [stage EXCEPT ![r] = "done"]
                /\ UNCHANGED gateVars
           ELSE /\ stage' = [stage EXCEPT ![r] = "serving"]
                /\ count' = count + 1
                /\ userCount' = [userCount EXCEPT ![u] = @ + 1]
                /\ largeCount' = IF r \in LargeRequests THEN largeCount + 1 ELSE largeCount
        /\ UNCHANGED <<now, limiterVars, reading, keyOK>>

\* Mutant: the large slot is not given back.
ReleaseKeepsLarge(r) ==
    /\ stage[r] = "serving"
    /\ stage' = [stage EXCEPT ![r] = "done"]
    /\ count' = count - 1
    /\ userCount' = [userCount EXCEPT ![UserOf[r]] = @ - 1]
    /\ UNCHANGED <<now, limiterVars, largeCount, reading, keyOK>>

\* The deferred Release, after fn has returned or panicked; each count stops
\* at 0.
Release(r) ==
    LET Less(n) == IF n > 0 THEN n - 1 ELSE 0
    IN  /\ stage[r] = "serving"
        /\ stage' = [stage EXCEPT ![r] = "done"]
        /\ count' = Less(count)
        /\ userCount' = [userCount EXCEPT ![UserOf[r]] = Less(@)]
        /\ largeCount' = IF r \in LargeRequests THEN Less(largeCount) ELSE largeCount
        /\ UNCHANGED <<now, limiterVars, reading, keyOK>>

\* handleRegister's limit, per address and hour.
Register(g) ==
    /\ stage[g] = "register"
    /\ \E ok \in BOOLEAN : Allow(AddressBucket[g], RegistrationWindow, reading[g], ok)
    /\ stage' = [stage EXCEPT ![g] = "done"]
    /\ UNCHANGED <<now, gateVars, reading, keyOK>>

\* Nobody is held up for longer than MaxLag between clock and lock.
Tick ==
    /\ now < MaxTime
    /\ \A c \in Callers : stage[c] \in {"key", "user", "register"} => now - reading[c] < MaxLag
    /\ now' = now + 1
    /\ UNCHANGED <<limiterVars, gateVars, stage, reading, keyOK>>

-----------------------------------------------------------------------------
Init ==
    /\ now = 0
    /\ buckets = [b \in Buckets |-> <<>>] /\ lastSweep = 0
    /\ allowed = [b \in Buckets |-> <<>>]
    /\ count = 0 /\ userCount = [u \in Users |-> 0] /\ largeCount = 0
    /\ stage = [c \in Callers |-> "idle"]
    /\ reading = [c \in Callers |-> 0]
    /\ keyOK = [r \in Requests |-> FALSE]

GuardV1(r) == ReadClock(r) \/ AllowKey(r) \/ AllowUser(r) \/ Acquire(r) \/ Release(r)

Next ==
    \/ \E r \in Requests : GuardV1(r)
    \/ \E g \in Registrations : ReadClock(g) \/ Register(g)
    \/ Tick

Spec == Init /\ [][Next]_vars

TypeOK ==
    /\ now \in Time /\ lastSweep \in Time
    /\ buckets \in [Buckets -> Seq(Time)] /\ allowed \in [Buckets -> Seq(Time)]
    /\ count \in Nat /\ userCount \in [Users -> Nat] /\ largeCount \in Nat
    /\ stage \in [Callers -> Stage] /\ reading \in [Callers -> Time]
    /\ keyOK \in [Requests -> BOOLEAN]
    /\ \A b \in Buckets : Len(buckets[b]) <= LimitOf[b]

-----------------------------------------------------------------------------
(* Safety *)

\* In no interval of the length of a window, less the age of a clock reading,
\* are more calls allowed for a bucket than its limit.
KeepsLimit(b, window) ==
    LimitOf[b] > 0 =>
        \A t \in Time :
            Cardinality({i \in DOMAIN allowed[b] :
                            allowed[b][i] \in t..(t + window - MaxLag)}) <= LimitOf[b]

\* The requests per minute of a key and of a user.
RequestLimitsKept ==
    \A r \in Requests :
        KeepsLimit(KeyBucket[r], RequestWindow) /\ KeepsLimit(UserBucket[r], RequestWindow)

\* The registrations per hour of an address, on the same limiter.
RegistrationLimitKept ==
    \A g \in Registrations : KeepsLimit(AddressBucket[g], RegistrationWindow)

Serving(S) == Cardinality({r \in S : stage[r] = "serving"})

\* The gate's counts are those of the requests it let in, and each of its three
\* limits holds.
GateCountsRequests ==
    /\ count = Serving(Requests)
    /\ \A u \in Users : userCount[u] = Serving({r \in Requests : UserOf[r] = u})
    /\ largeCount = Serving(LargeRequests)
    /\ \A u \in Users : UserQuota > 0 => userCount[u] <= UserQuota
    /\ GlobalLimit > 0 => count <= GlobalLimit
    /\ LargeQuota > 0 => largeCount <= LargeQuota
=============================================================================
