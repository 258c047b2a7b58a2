------------------------------- MODULE Ledger -------------------------------
(***************************************************************************)
(* The credit ledger of internal/billing: the tables that one call of      *)
(* Service.Apply changes in a single database transaction, and the         *)
(* operations of administrators and users on them (Grant, Redeem, the      *)
(* status switch of a redemption code).                                    *)
(*                                                                         *)
(* applyTx takes the api_keys row lock, then the users row lock, and       *)
(* commits everything or nothing, so one transaction is one step here.     *)
(* Nothing in this module decides WHEN a transaction runs or whether its   *)
(* caller learns the outcome: BillingSession composes it with the relay's  *)
(* sessions and with the orphan cleanup.                                   *)
(***************************************************************************)
EXTENDS Integers, Sequences

CONSTANTS
    Users, Keys, Requests,  \* rows of users and api_keys; X-Request-Id values
    OwnerOf,                \* the user of a key
    KeyOf,                  \* the key a request authenticates with
    Grants,                 \* idempotency keys of administrator adjustments
    GrantAmounts,           \* the amounts administrators enter
    Codes, CodeCredits,     \* redemption codes and what they are worth
    ExpiresAt,              \* the first tick at which a code has expired
    CreditLimit,            \* api_keys.credit_limit; None is SQL NULL
    DailyLimit,             \* users.daily_spend_limit; 0 is unlimited
    KeyDailyLimit,          \* api_keys.daily_spend_limit; 0 is unlimited
    Days, DayOf,            \* calendar days, and the local day of a tick
    MaxTime,                \* bound on the clock
    None                    \* SQL NULL, or the empty string of request_id

Time == 0..MaxTime

ASSUME LedgerAssumption ==
    /\ OwnerOf \in [Keys -> Users]
    /\ KeyOf \in [Requests -> Keys]
    /\ GrantAmounts \subseteq Int
    /\ CodeCredits \in [Codes -> Nat \ {0}]
    /\ ExpiresAt \in [Codes -> Nat]
    /\ \A k \in Keys : CreditLimit[k] # None => CreditLimit[k] \in Nat
    /\ DailyLimit \in [Users -> Nat]
    /\ KeyDailyLimit \in [Keys -> Nat]
    /\ MaxTime \in Nat
    /\ DayOf \in [Time -> Days]
    /\ None \notin Requests \cup Grants \cup Keys \cup Codes
    /\ Requests \cap Grants = {}    \* AdminRequestID prefixes with "admin:"
    /\ Keys \cap Codes = {}         \* ref_type tells api_key from redemption

VARIABLES
    balance,    \* users.credit_balance
    used,       \* users.credit_used
    keyUsed,    \* api_keys.credit_used
    keyStatus,  \* api_keys.status
    spend,      \* daily_spend, by user and day
    keySpend,   \* daily_spend_by_key, by key and day
    ledger,     \* credit_ledger in the order of its serial id
    codes,      \* redemptions.status
    now         \* the wall clock, one for processes and database

tables == <<balance, used, keyUsed, keyStatus, spend, keySpend, ledger>>
ledgerVars == <<tables, codes, now>>

-----------------------------------------------------------------------------
(* Entries and adjustments *)

UsageTypes == {"consume", "refund", "settle_adjust"}
EntryTypes == {"grant", "revoke", "redeem"} \cup UsageTypes

\* What applyTx is asked to book. AffectsUsed callers name a key.
Adjustment ==
    {a \in [user : Users, type : EntryTypes, amount : Int,
            ref : Keys \cup Codes \cup {None},
            req : Requests \cup Grants \cup {None}] :
        a.type \in UsageTypes => a.ref \in Keys /\ a.req \in Requests}

\* A row of credit_ledger.
Entry ==
    {e \in [user : Users, type : EntryTypes, amount : Int, balance_after : Nat,
            ref : Keys \cup Codes \cup {None},
            req : Requests \cup Grants \cup {None}, at : Time] :
        e.type \in UsageTypes => e.ref \in Keys /\ e.req \in Requests}

\* A movement on request r, booked on its key and on the owner of the key.
UsageAdjustment(type, r, amount) ==
    [user |-> OwnerOf[KeyOf[r]], type |-> type, amount |-> amount,
     ref |-> KeyOf[r], req |-> r]

\* Mutant: refunds and settlements forget the usage counters.
OnlyConsumeAffectsUsed(adj) == adj.type = "consume"

\* AffectsUsed, set by exactly these callers, which also set KeyID.
AffectsUsed(adj) == adj.type \in UsageTypes

Booked(req, type) ==
    \E i \in DOMAIN ledger : ledger[i].req = req /\ ledger[i].type = type

\* Mutant: an index that leaves out refunds.
DuplicateButRefund(adj) ==
    adj.req # None /\ adj.type # "refund" /\ Booked(adj.req, adj.type)

\* Mutant: an index that leaves out precharges.
DuplicateButConsume(adj) ==
    adj.req # None /\ adj.type # "consume" /\ Booked(adj.req, adj.type)

\* The partial unique index (request_id, entry_type) WHERE request_id <> ''.
Duplicate(adj) == adj.req # None /\ Booked(adj.req, adj.type)

-----------------------------------------------------------------------------
(* The checks of applyTx, in its order *)

CreditLimitHit(adj) ==
    /\ adj.type = "consume"
    /\ CreditLimit[adj.ref] # None
    /\ keyUsed[adj.ref] - adj.amount > CreditLimit[adj.ref]

InsufficientCredits(adj) ==
    /\ adj.type # "settle_adjust"       \* the only caller with ClampToBalance
    /\ balance[adj.user] + adj.amount < 0

\* Mutant: compares what was spent before this request.
SpendExceeds(spent, delta, limit) ==
    limit > 0 /\ spent > limit

ProjectedDailySpendExceeds(spent, delta, limit) ==
    limit > 0 /\ spent + delta > limit

OverDailyLimit(adj) ==
    \/ ProjectedDailySpendExceeds(spend[adj.user][DayOf[now]], -adj.amount,
                                  DailyLimit[adj.user])
    \/ ProjectedDailySpendExceeds(keySpend[adj.ref][DayOf[now]], -adj.amount,
                                  KeyDailyLimit[adj.ref])

\* A precharge of nothing is never over a limit, even one overrun already.
DailyLimitExceeded(adj) ==
    adj.type = "consume" /\ adj.amount < 0 /\ OverDailyLimit(adj)

Admissible(adj) ==
    ~ (\/ CreditLimitHit(adj)
       \/ InsufficientCredits(adj)
       \/ DailyLimitExceeded(adj)
       \/ Duplicate(adj))

-----------------------------------------------------------------------------
(* The writes of applyTx *)

\* The amount booked: a supplement beyond the balance is cut down to it.
Effective(adj) ==
    IF balance[adj.user] + adj.amount < 0 THEN -balance[adj.user] ELSE adj.amount

\* Mutant: the key is charged what the user could not pay.
KeyUsedAfterUnclamped(adj) == keyUsed[adj.ref] - adj.amount

\* api_keys.credit_used: exact on precharge, GREATEST(..., 0) otherwise.
KeyUsedAfter(adj) ==
    LET after == keyUsed[adj.ref] - Effective(adj)
    IN  IF adj.type # "consume" /\ after < 0 THEN 0 ELSE after

\* A committed applyTx.
ApplyTx(adj) ==
    LET a == Effective(adj)
        u == adj.user
    IN  /\ balance' = [balance EXCEPT ![u] = @ + a]
        /\ IF AffectsUsed(adj)
           THEN /\ used' = [used EXCEPT ![u] = @ - a]
                /\ spend' = [spend EXCEPT ![u][DayOf[now]] = @ - a]
                /\ keySpend' = [keySpend EXCEPT ![adj.ref][DayOf[now]] = @ - a]
                /\ keyUsed' = [keyUsed EXCEPT ![adj.ref] = KeyUsedAfter(adj)]
           ELSE UNCHANGED <<used, spend, keySpend, keyUsed>>
        /\ ledger' = Append(ledger,
               [user |-> u, type |-> adj.type, amount |-> a,
                balance_after |-> balance[u] + a,
                ref |-> adj.ref, req |-> adj.req, at |-> now])
        /\ UNCHANGED keyStatus

\* Hitting the key's credit limit commits the depleted mark and nothing else.
MarkDepleted(adj) ==
    /\ keyStatus' = [keyStatus EXCEPT
                        ![adj.ref] = IF @ = "enabled" THEN "depleted" ELSE @]
    /\ UNCHANGED <<balance, used, keyUsed, spend, keySpend, ledger>>

\* Apply for callers that take a duplicate entry as success: the unique index
\* rolls the whole transaction back.
ApplyOnce(adj) ==
    IF Duplicate(adj) THEN UNCHANGED tables ELSE ApplyTx(adj)

-----------------------------------------------------------------------------
(* Operations of administrators and users *)

\* Grant (amount > 0) or revoke (amount < 0) under an idempotency key. A
\* replay, or a revocation beyond the balance, changes nothing.
Grant(u, amount, g) ==
    LET adj == [user |-> u, type |-> IF amount < 0 THEN "revoke" ELSE "grant",
                amount |-> amount, ref |-> None, req |-> g]
    IN  /\ amount # 0
        /\ Admissible(adj)
        /\ ApplyTx(adj)
        /\ UNCHANGED <<codes, now>>

\* Mutant: the status of the code is not part of the update's condition.
RedeemUnchecked(u, c) ==
    /\ now < ExpiresAt[c]
    /\ codes' = [codes EXCEPT ![c] = "used"]
    /\ ApplyTx([user |-> u, type |-> "redeem", amount |-> CodeCredits[c],
                ref |-> c, req |-> None])
    /\ UNCHANGED now

\* Redeem flips the code and books the credits in one transaction; the entry
\* carries no request_id, so only the flip keeps it from being booked twice.
Redeem(u, c) ==
    /\ codes[c] = "unused"
    /\ now < ExpiresAt[c]
    /\ codes' = [codes EXCEPT ![c] = "used"]
    /\ ApplyTx([user |-> u, type |-> "redeem", amount |-> CodeCredits[c],
                ref |-> c, req |-> None])
    /\ UNCHANGED now

\* An administrator disables a code or puts it back; a used code stays used.
SetStatus(c, status) ==
    /\ codes[c] # "used"
    /\ codes' = [codes EXCEPT ![c] = status]
    /\ UNCHANGED <<tables, now>>

AccountOperation ==
    \/ \E u \in Users, amount \in GrantAmounts, g \in Grants : Grant(u, amount, g)
    \/ \E u \in Users, c \in Codes : Redeem(u, c)
    \/ \E c \in Codes, status \in {"unused", "disabled"} : SetStatus(c, status)

LedgerInit ==
    /\ balance = [u \in Users |-> 0]
    /\ used = [u \in Users |-> 0]
    /\ keyUsed = [k \in Keys |-> 0]
    /\ keyStatus = [k \in Keys |-> "enabled"]
    /\ spend = [u \in Users |-> [d \in Days |-> 0]]
    /\ keySpend = [k \in Keys |-> [d \in Days |-> 0]]
    /\ ledger = <<>>
    /\ codes = [c \in Codes |-> "unused"]
    /\ now = 0

TablesTypeOK ==
    /\ balance \in [Users -> Nat]       \* CHECK (credit_balance >= 0)
    /\ used \in [Users -> Int]
    /\ keyUsed \in [Keys -> Nat]
    /\ keyStatus \in [Keys -> {"enabled", "depleted"}]
    /\ spend \in [Users -> [Days -> Int]]
    /\ keySpend \in [Keys -> [Days -> Int]]
    /\ ledger \in Seq(Entry)

LedgerTypeOK ==
    /\ TablesTypeOK
    /\ codes \in [Codes -> {"unused", "used", "disabled"}]
    /\ now \in Time
=============================================================================
