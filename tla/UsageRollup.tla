----------------------------- MODULE UsageRollup -----------------------------
(***************************************************************************)
(* Usage logs, their daily roll-up, the purge of raw logs and the reports  *)
(* that read both. A report takes days up to the watermark from the        *)
(* roll-up and later days from the raw logs, so a charge is reported once  *)
(* only if roll-up, purge and split agree on every day.                    *)
(*                                                                         *)
(* A row is stamped with created_at before its insert commits. The check   *)
(* of a purge and its delete are two statements, as are a report's reading *)
(* of the watermark and its query.                                         *)
(***************************************************************************)
EXTENDS Integers, FiniteSets

CONSTANTS
    Logs,           \* requests, each with one usage log
    MaxDay,         \* bound on the calendar
    MaxRollupDays,  \* maxRollupDaysPerRun
    Retention,      \* usage_log_retention_days
    None

ASSUME RollupAssumption ==
    /\ MaxDay \in Nat /\ MaxRollupDays \in Nat \ {0} /\ Retention \in Nat \ {0}
    /\ None \notin Int

Days == 0..MaxDay

VARIABLES
    today,
    log,            \* usage_logs: status and created_at of a request's row
    rollup,         \* usage_daily_rollup: how often a day's sums hold a log
    rolled,         \* usage_rollup_state
    todo,           \* days the running rollupUsage has still to do
    cutoff,         \* of a purge whose check has passed
    watermark,      \* RolledThrough as a report in progress has read it
    onTime,         \* history: settled logs committed above the watermark
    missing         \* history: logs purged under a report in progress

rollupTables == <<rollup, rolled>>
taskVars == <<todo, cutoff>>
history == <<onTime, missing>>
rollupVars == <<today, log, rollupTables, taskVars, watermark, history>>

LogState == {"none", "stamped", "settled", "failed", "refunded", "purged"}
Rows == {l \in Logs : log[l].state \in {"settled", "failed", "refunded"}}
Settled(d) == {l \in Logs : log[l] = [state |-> "settled", day |-> d]}
HasEarlierRow(d) == \E l \in Rows : log[l].day <= d

-----------------------------------------------------------------------------
(* Usage logs *)

Stamp(l) ==
    /\ log[l].state = "none"
    /\ log' = [log EXCEPT ![l] = [state |-> "stamped", day |-> today]]
    /\ UNCHANGED <<today, rollupTables, taskVars, watermark, history>>

\* RolledThrough: the last day rolled up.
RolledThrough == CHOOSE d \in Days \cup {-1} :
    /\ d \in rolled \/ (rolled = {} /\ d = -1)
    /\ \A e \in rolled : e <= d

Commit(l, s) ==
    /\ log[l].state = "stamped"
    /\ log' = [log EXCEPT ![l].state = s]
    /\ onTime' = IF s = "settled" /\ RolledThrough < log[l].day
                 THEN onTime \cup {l} ELSE onTime
    /\ UNCHANGED <<today, rollupTables, taskVars, watermark, missing>>

\* The trace row of refundOrphan carries the time of the precharge. A row of
\* the request, always a failed one, is changed in place.
OrphanTrace(l) ==
    /\ \/ /\ log[l].state = "none"
          /\ \E d \in 0..today : log' = [log EXCEPT ![l] = [state |-> "refunded", day |-> d]]
       \/ /\ log[l].state = "failed"
          /\ log' = [log EXCEPT ![l].state = "refunded"]
    /\ UNCHANGED <<today, rollupTables, taskVars, watermark, history>>

\* An insert spans at most one midnight.
Midnight ==
    /\ today < MaxDay
    /\ \A l \in Logs : log[l].state = "stamped" => log[l].day = today
    /\ today' = today + 1
    /\ UNCHANGED <<log, rollupTables, taskVars, watermark, history>>

-----------------------------------------------------------------------------
(* rollupUsage *)

\* PendingDays: the first days, at most limit, not yet rolled up, from the
\* earliest row on. The set has one element.
PendingDays(upTo, limit) ==
    LET pending == {d \in 0..upTo : HasEarlierRow(d) /\ d \notin rolled}
    IN  {first \in SUBSET pending :
            /\ \A d \in first, e \in pending : e < d => e \in first
            /\ Cardinality(first) <= limit
            /\ first = pending \/ Cardinality(first) = limit}

\* Mutant: today is rolled up as well.
BeginRollupToday ==
    /\ todo = {}
    /\ todo' \in PendingDays(today, MaxRollupDays)
    /\ UNCHANGED <<today, log, rollupTables, cutoff, watermark, history>>

BeginRollup ==
    /\ todo = {}
    /\ todo' \in PendingDays(today - 1, MaxRollupDays)
    /\ UNCHANGED <<today, log, rollupTables, cutoff, watermark, history>>

RollDay(d) ==
    /\ d \in todo /\ \A e \in todo : d <= e
    /\ rollup' = [rollup EXCEPT ![d] = [l \in Logs |-> IF l \in Settled(d) THEN 1 ELSE 0]]
    /\ rolled' = rolled \cup {d}
    /\ todo' = todo \ {d}
    /\ UNCHANGED <<today, log, cutoff, watermark, history>>

\* A failed transaction ends the task; the days left are found again.
RollupFails ==
    /\ todo # {}
    /\ todo' = {}
    /\ UNCHANGED <<today, log, rollupTables, cutoff, watermark, history>>

-----------------------------------------------------------------------------
(* purgeUsageLogs *)

\* Every day from the earliest row to the cutoff has been rolled up.
PurgeAllowed(c) == \A d \in 0..(c - 1) : HasEarlierRow(d) => d \in rolled

CheckPurge ==
    /\ cutoff = None
    /\ PurgeAllowed(today - Retention)
    /\ cutoff' = today - Retention
    /\ UNCHANGED <<today, log, rollupTables, todo, watermark, history>>

DeletePurged ==
    /\ cutoff # None
    /\ LET old == {l \in Rows : log[l].day < cutoff}
       IN  /\ log' = [l \in Logs |-> IF l \in old THEN [log[l] EXCEPT !.state = "purged"]
                                     ELSE log[l]]
           /\ missing' = IF watermark = None THEN missing
                         ELSE missing \cup {l \in old : log[l].day > watermark}
    /\ cutoff' = None
    /\ UNCHANGED <<today, rollupTables, todo, watermark, onTime>>

PurgeFails ==
    /\ cutoff # None
    /\ cutoff' = None
    /\ UNCHANGED <<today, log, rollupTables, todo, watermark, history>>

-----------------------------------------------------------------------------
(* Reports: Aggregate, OpsSummary *)

\* Mutant: the day of the watermark is read from the raw logs.
RollupSplitShort(w) == w

\* rollupSplit: the first day read from the raw logs.
RollupSplit(w) == w + 1

\* How often the query of a report counts a log.
Counted(l, w) ==
    IF log[l].day < RollupSplit(w) THEN rollup[log[l].day][l]
    ELSE IF log[l].state = "settled" THEN 1 ELSE 0

\* The sum a report over some days shows: every log charges one credit.
Aggregate(w, days) == Cardinality({l \in Logs : log[l].day \in days /\ Counted(l, w) > 0})

BeginReport ==
    /\ watermark = None
    /\ watermark' = RolledThrough
    /\ missing' = {}
    /\ UNCHANGED <<today, log, rollupTables, taskVars, onTime>>

EndReport ==
    /\ watermark # None
    /\ watermark' = None
    /\ missing' = {}
    /\ UNCHANGED <<today, log, rollupTables, taskVars, onTime>>

-----------------------------------------------------------------------------
RollupInit ==
    /\ today = 0 /\ rolled = {} /\ todo = {}
    /\ log = [l \in Logs |-> [state |-> "none", day |-> 0]]
    /\ rollup = [d \in Days |-> [l \in Logs |-> 0]]
    /\ cutoff = None /\ watermark = None
    /\ onTime = {} /\ missing = {}

LogStep ==
    \E l \in Logs : Stamp(l) \/ OrphanTrace(l)
        \/ \E s \in {"settled", "failed"} : Commit(l, s)

RollupTask == BeginRollup \/ RollupFails \/ \E d \in Days : RollDay(d)
PurgeTask == CheckPurge \/ DeletePurged \/ PurgeFails
ReportStep == BeginReport \/ EndReport

RollupNext == LogStep \/ Midnight \/ RollupTask \/ PurgeTask \/ ReportStep

RollupSpec == RollupInit /\ [][RollupNext]_rollupVars

-----------------------------------------------------------------------------
(* Properties *)

\* Every variable of the logs, the roll-up, its tasks and a report has its type.
RollupTypeOK ==
    /\ today \in Days
    /\ log \in [Logs -> [state : LogState, day : Days]]
    /\ rollup \in [Days -> [Logs -> {0, 1}]] /\ rolled \subseteq Days
    /\ todo \subseteq Days
    /\ cutoff \in Int \cup {None} /\ watermark \in Days \cup {-1, None}
    /\ onTime \subseteq Logs /\ missing \subseteq Logs

\* Reports are the same before and after a day is rolled up and after its raw
\* logs are purged: a report made at any moment counts every settled log once,
\* if it committed before its day was rolled up, and no log twice.
ReportsCountOnce ==
    \A l \in Logs :
        /\ l \in onTime => Counted(l, RolledThrough) = 1
        /\ Counted(l, RolledThrough) > 0 => log[l].state \in {"settled", "purged"}

\* A report that read the watermark before other steps still counts every such
\* log that was there when it began, unless the raw row was purged since:
\* rolling up under a report is harmless, purging is not.
ReportInProgress ==
    watermark # None =>
        \A l \in onTime : Counted(l, watermark) = 1 \/ l \in missing
=============================================================================
