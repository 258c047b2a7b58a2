-------------------------- MODULE BillingProperties --------------------------
(***************************************************************************)
(* Properties of the ledger that speak of sums over its entries: what      *)
(* `tzl reconcile` recomputes, what a request costs, what the limits leave *)
(* room for.                                                               *)
(***************************************************************************)
EXTENDS BillingSession, FiniteSets, Functions

\* A clock with a last tick meets finitely many days.
ASSUME DaysAssumption == IsFiniteSet(Days)

Amounts == [i \in DOMAIN ledger |-> ledger[i].amount]
Sum(positions) == SumFunctionOnSet(Amounts, positions)

UsageOf(user) ==
    {i \in DOMAIN ledger : ledger[i].user = user /\ ledger[i].type \in UsageTypes}
UsageOn(key) ==
    {i \in DOMAIN ledger : ledger[i].ref = key /\ ledger[i].type \in UsageTypes}
MovementsOf(req) == {i \in DOMAIN ledger : ledger[i].req = req}

\* Credits booked so far for a request.
Charged(req) == -Sum(MovementsOf(req))

\* Reconcile: the balance is the sum of the user's entries, at every entry
\* (balance_after) and now; credit_used and the daily counters are the same
\* usage seen from two sides.
BalanceReconciles ==
    \A u \in Users :
        LET entries == {i \in DOMAIN ledger : ledger[i].user = u}
        IN  /\ balance[u] = Sum(entries)
            /\ \A i \in entries :
                  ledger[i].balance_after = Sum({j \in entries : j <= i})
            /\ used[u] = -Sum(UsageOf(u))
            /\ used[u] = SumFunctionOnSet(spend[u], Days)

\* ReconcileAPIKeys: a key's credit_used is the usage booked on it. GREATEST
\* would break this silently if a key were ever given back more than it used.
KeyReconciles ==
    \A k \in Keys :
        /\ keyUsed[k] = -Sum(UsageOn(k))
        /\ keyUsed[k] = SumFunctionOnSet(keySpend[k], Days)

\* A settled request costs what was used, or less if that emptied the
\* balance; whatever happens to a request, it never earns its user credits.
ChargeBounded ==
    \A r \in Requests :
        /\ Charged(r) >= 0
        /\ Booked(r, "settle_adjust") =>
              /\ Charged(r) <= final[r]
              /\ Charged(r) < final[r] =>
                    \E i \in MovementsOf(r) :
                        ledger[i].type = "settle_adjust" /\ ledger[i].balance_after = 0
        /\ Booked(r, "refund") => Charged(r) = 0

\* What settlements of a set of entries took beyond the precharge.
Supplements(positions) ==
    -Sum({i \in positions : ledger[i].type = "settle_adjust" /\ ledger[i].amount < 0})

BookedOn(day, positions) == {i \in positions : DayOf[ledger[i].at] = day}

\* However many requests pass the pre-check of checkDailySpendLimit at once, a
\* daily counter runs over its limit only by what settlements of that day
\* added, and so does a key's credit_used over its credit_limit.
LimitsHold ==
    /\ \A u \in Users, d \in Days : DailyLimit[u] > 0 =>
          spend[u][d] <= DailyLimit[u] + Supplements(BookedOn(d, UsageOf(u)))
    /\ \A k \in Keys, d \in Days : KeyDailyLimit[k] > 0 =>
          keySpend[k][d] <= KeyDailyLimit[k] + Supplements(BookedOn(d, UsageOn(k)))
    /\ \A k \in Keys : CreditLimit[k] # None =>
          keyUsed[k] <= CreditLimit[k] + Supplements(UsageOn(k))

\* A code is worth its credits once, to one user, and a code that still reads
\* unused or disabled has paid nothing.
CodesPayOnce ==
    \A c \in Codes :
        LET paid == {i \in DOMAIN ledger : ledger[i].ref = c}
        IN  /\ Sum(paid) = IF codes[c] = "used" THEN CodeCredits[c] ELSE 0
            /\ \A i, j \in paid : ledger[i].user = ledger[j].user
=============================================================================
