------------------------------ MODULE Maintenance ------------------------------
(***************************************************************************)
(* The hourly maintenance round: nine tasks in a fixed order in one        *)
(* goroutine. A task that fails, panics or times out ends alone; a restart *)
(* ends the round. Everything else goes on meanwhile: usage is logged,     *)
(* reports run, balances change, days pass.                                *)
(***************************************************************************)
EXTENDS Faults, UsageRollup, MonthlyGrant

CONSTANTS
    MonthOf,        \* the month of a day
    RetentionOf,    \* of a kind of record, in days; 0 keeps it for good
    Budget,         \* MonthlyBudgetCredits of the department of all logs
    LowBalance,     \* low_balance_threshold_credits
    FailureRate, MinRequests,   \* alert_error_rate_percent, ..._min_requests
    Budgets         \* bounds on rounds, days and what happens around them

ASSUME MaintenanceAssumption ==
    /\ MonthOf \in [Days -> Months]
    /\ \A k \in DOMAIN RetentionOf : RetentionOf[k] \in Nat

VARIABLES
    task,           \* the task the round is at, 0 between rounds
    kept,           \* of a kind of record: the days it still has records of
    raised,         \* alerts the current task has raised
    budget          \* rounds, requests, changes of users that may still come;
                    \* whether monthly_grant_credits is set

roundVars == <<rollupVars, grantVars, task, kept, raised, budget>>

Tasks == <<"rollup_usage", "purge_audit_logs", "purge_usage_logs",
           "purge_spend_counters", "purge_recordings", "grant_monthly_credits",
           "check_department_budgets", "check_low_balances", "check_relay_health">>

At(name) == task > 0 /\ Tasks[task] = name

\* runTask returns and the loop goes on.
NextTask == task' = (task + 1) % (Len(Tasks) + 1)

-----------------------------------------------------------------------------
(* Tasks *)

\* Every hour; budget.rounds is None where their number need not be bounded.
RunOnce ==
    /\ task = 0 /\ budget.rounds # 0
    /\ task' = 1 /\ raised' = {}
    /\ budget' = [budget EXCEPT !.rounds = IF @ = None THEN @ ELSE @ - 1]
    /\ UNCHANGED <<rollupVars, grantVars, kept, faults>>

\* usage_rollup_enabled may be off, and is for days at a time.
RollupUsage ==
    /\ At("rollup_usage")
    /\ \/ BeginRollup /\ todo' # {} /\ UNCHANGED <<task, faults>>
       \/ (\E d \in Days : RollDay(d)) /\ UNCHANGED faults
          /\ IF todo' = {} THEN NextTask ELSE UNCHANGED task
       \/ todo = {} /\ NextTask /\ UNCHANGED <<rollupVars, faults>>
    /\ UNCHANGED <<grantVars, kept, raised, budget>>

PurgeUsageLogs ==
    /\ At("purge_usage_logs")
    /\ \/ CheckPurge /\ UNCHANGED task
       \/ cutoff = None /\ ~PurgeAllowed(today - Retention) /\ NextTask
          /\ UNCHANGED rollupVars
       \/ DeletePurged /\ NextTask
    /\ UNCHANGED <<grantVars, kept, raised, faults, budget>>

\* The purges of audit logs, spend counters and recordings.
Expired(k) == {d \in kept[k] : d < today - RetentionOf[k]}

Purge(k) ==
    kept' = IF RetentionOf[k] = 0 THEN kept ELSE [kept EXCEPT ![k] = @ \ Expired(k)]

\* A purge that deleted something leaves an audit record of itself.
PurgeAuditLogs ==
    /\ At("purge_audit_logs") /\ NextTask
    /\ Purge("audit_logs")
    /\ raised' = IF kept' = kept THEN {} ELSE {<<"audit.purge", today>>}
    /\ UNCHANGED <<rollupVars, grantVars, faults, budget>>

\* The two tables are purged independently: either delete may fail.
PurgeSpendCounters ==
    /\ At("purge_spend_counters") /\ NextTask
    /\ \E done \in SUBSET {"daily_spend", "daily_spend_by_key"} :
        /\ kept' = [k \in DOMAIN kept |-> IF k \in done THEN kept[k] \ Expired(k) ELSE kept[k]]
        /\ IF done = {"daily_spend", "daily_spend_by_key"} THEN UNCHANGED faults
           ELSE Fault
    /\ raised' = {}
    /\ UNCHANGED <<rollupVars, grantVars, budget>>

PurgeRecordings ==
    /\ At("purge_recordings") /\ NextTask
    /\ Purge("recordings")
    /\ UNCHANGED <<rollupVars, grantVars, raised, faults, budget>>

\* Nothing to do while monthly_grant_credits is 0. A batch that cannot be read
\* ends the pass; grants that failed are told in either case.
GrantMonthlyCredits ==
    /\ At("grant_monthly_credits")
    /\ \/ ~budget.grants /\ NextTask /\ raised' = {} /\ UNCHANGED <<grantVars, faults>>
       \/ budget.grants /\ (\E how \in {"topup", "add"} : BeginGrant(MonthOf[today], how))
          /\ UNCHANGED <<task, raised, faults>>
       \/ (QueryBatch \/ SkipTarget \/ GrantTarget) /\ UNCHANGED <<task, raised, faults>>
       \/ GrantFails /\ Fault /\ UNCHANGED <<task, raised>>
       \/ /\ (pass = "done" /\ UNCHANGED faults) \/ (pass = "query" /\ Fault)
          /\ EndPass /\ NextTask
          /\ raised' = IF \E i \in DOMAIN reached : reached[i].how = "failed"
                       THEN {<<"monthly_grant_failed", month>>} ELSE {}
          /\ UNCHANGED ledgerVars
    /\ UNCHANGED <<rollupVars, kept, budget>>

CheckDepartmentBudgets ==
    /\ At("check_department_budgets") /\ NextTask
    /\ LET days == {d \in Days : MonthOf[d] = MonthOf[today]}
           spent == Aggregate(RolledThrough, days)
       IN  raised' = IF Budget > 0 /\ spent > Budget
                     THEN {<<"department_over_budget", MonthOf[today]>>} ELSE {}
    /\ UNCHANGED <<rollupVars, grantVars, kept, faults, budget>>

\* Everyone low is told by mail, the administrators get one alert a day and
\* number of users.
CheckLowBalances ==
    /\ At("check_low_balances") /\ NextTask
    /\ LET low == {u \in enabled : balance[u] < LowBalance}
       IN  raised' = IF low = {} THEN {}
                     ELSE {<<"user_low_balance", today, Cardinality(low)>>}
                          \cup {<<"user_balance_notice", u>> : u \in low}
    /\ UNCHANGED <<rollupVars, grantVars, kept, faults, budget>>

\* evaluateRelayHealth over the last window; latency may be anything.
CheckRelayHealth ==
    /\ At("check_relay_health") /\ NextTask
    /\ LET window == {l \in Rows : log[l].day = today}
           failed == {l \in window : log[l].state = "failed"}
           rate == {<<"error_rate_high", today>>}
       IN  \E slow \in {{}, {<<"latency_degraded", today>>}} :
            raised' = IF Cardinality(window) < MinRequests THEN {}
                      ELSE slow \cup
                        (IF Cardinality(failed) * 100 > FailureRate * Cardinality(window)
                         THEN rate ELSE {})
    /\ UNCHANGED <<rollupVars, grantVars, kept, faults, budget>>

-----------------------------------------------------------------------------
(* Failures and environment *)

\* An error, a panic or the task's timeout: the next task runs.
TaskFails ==
    /\ task > 0 /\ Fault /\ NextTask
    /\ todo' = {} /\ cutoff' = None
    /\ EndPass /\ raised' = {}
    /\ UNCHANGED <<today, log, rollupTables, watermark, history, ledgerVars, kept, budget>>

\* The process stops: the next round begins anew.
StopRound ==
    /\ task' = 0
    /\ todo' = {} /\ cutoff' = None
    /\ EndPass /\ raised' = {}
    /\ UNCHANGED <<today, log, rollupTables, watermark, history, ledgerVars, kept, budget>>

\* Every day has traffic, so records of every kind.
NextDay ==
    /\ Midnight /\ today < budget.lastDay
    /\ kept' = [k \in DOMAIN kept |-> kept[k] \cup {today'}]
    /\ UNCHANGED <<grantVars, task, raised, faults, budget>>

\* A step that gives a request its row spends the budget. Reports on no logs
\* are left out.
Traffic ==
    /\ LogStep \/ (ReportStep /\ \E l \in Logs : log[l].state # "none")
    /\ budget' = [budget EXCEPT !.requests =
                    @ - Cardinality({l \in Logs : log[l].state = "none" /\ log'[l] # log[l]})]
    /\ budget'.requests >= 0
    /\ UNCHANGED <<grantVars, task, kept, raised, faults>>

UserStep ==
    /\ \E u \in UserIds : Spend(u) \/ SetUserStatus(u)
    /\ budget.changes > 0 /\ budget' = [budget EXCEPT !.changes = @ - 1]
    /\ UNCHANGED <<rollupVars, task, kept, raised, faults>>

-----------------------------------------------------------------------------
RoundInit ==
    /\ RollupInit /\ GrantInit
    /\ task = 0 /\ raised = {} /\ budget \in Budgets
    /\ kept = [k \in DOMAIN RetentionOf |-> {today}]

Round ==
    RunOnce \/ RollupUsage \/ PurgeAuditLogs \/ PurgeUsageLogs \/ PurgeSpendCounters
        \/ PurgeRecordings \/ GrantMonthlyCredits \/ CheckDepartmentBudgets
        \/ CheckLowBalances \/ CheckRelayHealth

-----------------------------------------------------------------------------
(* Properties *)

\* Every variable of the round and of the parts it runs has its type.
RoundTypeOK ==
    /\ RollupTypeOK /\ GrantTypeOK
    /\ task \in 0..Len(Tasks)
    /\ kept \in [DOMAIN RetentionOf -> SUBSET Days]

=============================================================================
