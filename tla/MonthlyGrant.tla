----------------------------- MODULE MonthlyGrant -----------------------------
(***************************************************************************)
(* grantMonthlyCredits: a pass over the enabled users in batches by id,    *)
(* one grant each under a key of month and user. Balances, and who is      *)
(* enabled, change between the listing of a batch and its grants.          *)
(***************************************************************************)
EXTENDS Integers, Sequences, FiniteSets

CONSTANTS
    UserIds,        \* ids of the ordinary users, positive
    Months, NoMonth,
    GrantAmount,    \* monthly_grant_credits
    BatchSize,      \* grantBatchSize
    MaxBatches,     \* maxGrantBatches
    MaxBalance      \* at least what the months can add up to

ASSUME GrantAssumption ==
    /\ UserIds \subseteq Nat \ {0} /\ IsFiniteSet(UserIds)
    /\ BatchSize \in Nat \ {0} /\ MaxBatches \in Nat \ {0}

VARIABLES
    balance,        \* users.credit_balance
    enabled,        \* users with status enabled
    granted,        \* credit_ledger: entries of a month's key of a user
    pass,           \* where the pass is: "idle", "query", "batch", "done"
    month, mode,    \* as read when the pass began
    afterID, batches, batch,    \* batch: what is left of the targets of a query
    steady,         \* history: users enabled during all of the pass
    reached         \* history: what the pass did for a user, in order

ledgerVars == <<balance, enabled, granted>>
passVars == <<pass, month, mode, afterID, batches, batch>>
grantVars == <<ledgerVars, passVars, steady, reached>>

-----------------------------------------------------------------------------
(* Users *)

Spend(u) ==
    /\ balance[u] > 0
    /\ balance' = [balance EXCEPT ![u] = @ - 1]
    /\ UNCHANGED <<enabled, granted, passVars, steady, reached>>

SetUserStatus(u) ==
    /\ enabled' = IF u \in enabled THEN enabled \ {u} ELSE enabled \cup {u}
    /\ steady' = steady \ {u}
    /\ UNCHANGED <<balance, granted, passVars, reached>>

\* Mutant: pages by position among the users enabled at the moment.
ListByOffset(after) ==
    {u \in enabled : Cardinality({v \in enabled : v < u})
                         \in batches * BatchSize .. (batches + 1) * BatchSize - 1}

\* ListGrantTargets: the next ids after a given one.
ListGrantTargets(after) ==
    LET ids == {u \in enabled : u > after}
    IN  {u \in ids : Cardinality({v \in ids : v < u}) < BatchSize}

-----------------------------------------------------------------------------
(* The pass *)

\* monthly_grant_mode may have been changed since the last pass.
BeginGrant(m, how) ==
    /\ pass = "idle" /\ GrantAmount > 0
    /\ pass' = "query" /\ month' = m /\ mode' = how
    /\ afterID' = 0 /\ batches' = 0 /\ batch' = {}
    /\ steady' = enabled /\ reached' = <<>>
    /\ UNCHANGED ledgerVars

EndPass ==
    /\ pass' = "idle" /\ afterID' = 0 /\ batches' = 0 /\ batch' = {}
    /\ steady' = {} /\ reached' = <<>> /\ month' = NoMonth /\ mode' = "topup"

QueryBatch ==
    /\ pass = "query"
    /\ LET targets == ListGrantTargets(afterID)
       IN  /\ batch' = {[id |-> u, balance |-> balance[u]] : u \in targets}
           /\ batches' = batches + 1
           /\ pass' = IF targets = {} THEN "done" ELSE "batch"
    /\ UNCHANGED <<ledgerVars, month, mode, afterID, steady, reached>>

\* computeMonthlyGrantDelta: 0 when the user is skipped.
MonthlyGrantDelta(b) ==
    IF mode = "add" THEN GrantAmount
    ELSE IF b >= GrantAmount THEN 0 ELSE GrantAmount - b

\* After the last target of a batch: a batch below its size was the last one.
AfterTarget(rest) ==
    IF rest # {} THEN "batch"
    ELSE IF Len(reached) + 1 < batches * BatchSize \/ batches = MaxBatches THEN "done"
    ELSE "query"

\* Ordered by id.
Reach(target, how) ==
    /\ pass = "batch" /\ \A other \in batch : target.id <= other.id
    /\ afterID' = target.id /\ batch' = batch \ {target}
    /\ reached' = Append(reached, [id |-> target.id, how |-> how])
    /\ pass' = AfterTarget(batch \ {target})
    /\ UNCHANGED <<enabled, month, mode, batches, steady>>

SkipTarget ==
    /\ \E target \in batch : MonthlyGrantDelta(target.balance) = 0 /\ Reach(target, "skipped")
    /\ UNCHANGED <<balance, granted>>

Credit(u, delta) ==
    /\ balance' = [balance EXCEPT ![u] = @ + delta]
    /\ granted' = [granted EXCEPT ![month][u] = @ + 1]

\* Mutant: the entry carries no key, so nothing tells a second one apart.
GrantTargetWithoutKey ==
    \E target \in batch :
        LET delta == MonthlyGrantDelta(target.balance)
        IN  delta > 0 /\ Credit(target.id, delta) /\ Reach(target, "granted")

\* Billing.Grant under monthlyGrantKey: an entry with the key is a replay.
GrantTarget ==
    \E target \in batch :
        LET delta == MonthlyGrantDelta(target.balance)
        IN  /\ delta > 0 /\ Reach(target, "granted")
            /\ IF granted[month][target.id] > 0 THEN UNCHANGED <<balance, granted>>
               ELSE Credit(target.id, delta)

\* The transaction of one user fails: the others still get theirs.
GrantFails ==
    /\ \E target \in batch : MonthlyGrantDelta(target.balance) > 0 /\ Reach(target, "failed")
    /\ UNCHANGED <<balance, granted>>

-----------------------------------------------------------------------------
GrantInit ==
    /\ balance = [u \in UserIds |-> 0] /\ enabled = UserIds
    /\ granted = [m \in Months |-> [u \in UserIds |-> 0]]
    /\ pass = "idle" /\ month = NoMonth
    /\ mode = "topup"
    /\ afterID = 0 /\ batches = 0 /\ batch = {}
    /\ steady = {} /\ reached = <<>>

\* The variables of users and pass have their types.
GrantTypeOK ==
    /\ balance \in [UserIds -> 0..MaxBalance] /\ enabled \subseteq UserIds
    /\ granted \in [Months -> [UserIds -> Nat]]
    /\ pass \in {"idle", "query", "batch", "done"}
    /\ month \in Months \cup {NoMonth} /\ mode \in {"topup", "add"}
    /\ afterID \in UserIds \cup {0} /\ batches \in 0..MaxBatches
    /\ batch \subseteq [id : UserIds, balance : 0..MaxBalance]
    /\ steady \subseteq UserIds
    /\ \A i \in DOMAIN reached :
           reached[i] \in [id : UserIds, how : {"granted", "skipped", "failed"}]

\* The key of month and user makes the hourly repetition harmless: nobody has
\* two grants of a month, whatever round, batch or failure came between.
GrantedOncePerMonth == \A m \in Months, u \in UserIds : granted[m][u] <= 1

\* A pass over changing users misses nobody and meets nobody twice: when it is
\* done, every user enabled throughout was reached in it exactly once (unless
\* the bound on batches cut it off), and who was granted has the entry.
PassReachesEveryone ==
    pass = "done" =>
        /\ batches < MaxBatches =>
               \A u \in steady : \E i \in DOMAIN reached : reached[i].id = u
        /\ \A i, j \in DOMAIN reached : reached[i].id = reached[j].id => i = j
        /\ \A i \in DOMAIN reached :
               reached[i].how = "granted" => granted[month][reached[i].id] = 1
=============================================================================
