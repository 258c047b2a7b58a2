--------------------------- MODULE BackgroundProofs ---------------------------
(***************************************************************************)
(* Proofs about what works in the background: about BackgroundWork for any *)
(* logs, calendar, retention, alerts, keys, windows and retries, whatever  *)
(* roll-ups, purges, restarts and midnights come between; and, at the end, *)
(* about the writer of usage logs, a specification of its own.             *)
(*                                                                         *)
(* Reports count every settled log once (ReportsCountOnce and              *)
(* ReportInProgress), by RollupInv. What alert_events says of an alert is  *)
(* true, and only a delivery suppresses one (OutcomeTruthful and           *)
(* SuppressedOnlyAfterDelivery), by AlertInv. A month's pass grants each   *)
(* user once and passes nobody over (GrantedOncePerMonth and               *)
(* PassReachesEveryone), by GrantInv. No record is lost unseen             *)
(* (RecordsAccounted, AcceptedAreFlushed and OrderlyStopLosesNothing for   *)
(* any number of records and any capacity), by WriterInv.                  *)
(***************************************************************************)
EXTENDS BackgroundWork, UsageLogWriter, FiniteSetTheorems, SequenceTheorems, TLAPS

-----------------------------------------------------------------------------
(* Roll-ups and reports *)

\* The last day rolled up exists.
IsLastOf(m, S) == (m \in S \/ (S = {} /\ m = -1)) /\ \A e \in S : e <= m
LastExists == \E m \in Days \cup {-1} : IsLastOf(m, rolled)

W == RolledThrough

\* Whole days are rolled up, in order, once they are over; an insert is late by
\* one midnight at most.
DaysOK ==
    /\ \A d \in rolled \cup todo : d < today
    /\ todo \cap rolled = {}
    /\ \A l \in Logs : log[l].state = "stamped" => log[l].day >= today - 1

\* Where the charge of a log is found.
PlacesOK ==
    /\ \A l \in onTime :
          /\ log[l].state \in {"settled", "purged"}
          /\ log[l].day <= W => log[l].day \in rolled /\ rollup[log[l].day][l] = 1
          /\ log[l].day > W => log[l].state = "settled"
    /\ \A d \in Days, l \in Logs : rollup[d][l] = 1 =>
          log[l].state \in {"settled", "purged"} /\ log[l].day = d

\* What a roll-up has still to do leaves no day with logs out; what a purge is
\* about to delete has been rolled up.
TasksOK ==
    /\ \A d \in todo, l \in onTime : W < log[l].day /\ log[l].day < d => log[l].day \in todo
    /\ cutoff # None =>
          /\ cutoff \in Int /\ cutoff <= today - 1
          /\ \A l \in onTime : log[l].day < cutoff => log[l].day <= W

ReportOK ==
    watermark # None =>
        /\ watermark <= W
        /\ \A l \in onTime : log[l].day > watermark /\ log[l].state = "purged" => l \in missing

RollupInv == RollupTypeOK /\ LastExists /\ DaysOK /\ PlacesOK /\ TasksOK /\ ReportOK

-----------------------------------------------------------------------------
(* RolledThrough *)

LastOf(S) == CHOOSE m \in Days \cup {-1} : IsLastOf(m, S)

LEMMA LastIsChosen ==
    ASSUME NEW S, NEW m \in Days \cup {-1}, IsLastOf(m, S)
    PROVE  LastOf(S) \in Days \cup {-1} /\ IsLastOf(LastOf(S), S)
  BY DEF LastOf

LEMMA OnlyOneLast ==
    ASSUME NEW S, NEW m \in Days \cup {-1}, IsLastOf(m, S)
    PROVE  LastOf(S) = m
<1>1. LastOf(S) \in Days \cup {-1} /\ IsLastOf(LastOf(S), S)
  BY LastIsChosen
<1> QED BY <1>1, RollupAssumption DEF IsLastOf, Days

LEMMA RolledThroughIsLast == W = LastOf(rolled) /\ W' = LastOf(rolled')
  BY DEF W, RolledThrough, LastOf, IsLastOf

LEMMA WatermarkIsLast ==
    ASSUME LastExists
    PROVE  W \in Days \cup {-1} /\ IsLastOf(W, rolled)
  BY LastIsChosen, RolledThroughIsLast DEF LastExists, IsLastOf

LEMMA SameRolled ==
    ASSUME RollupInv, rolled' = rolled PROVE LastExists' /\ W' = W
  BY RolledThroughIsLast DEF RollupInv, LastExists

\* Rolling up a day moves the watermark to it, unless it is an older one.
LEMMA RolledMore ==
    ASSUME RollupInv, NEW d \in Days, rolled' = rolled \cup {d}
    PROVE  LastExists' /\ W' = IF d > W THEN d ELSE W
<1>1. W \in Days \cup {-1} /\ IsLastOf(W, rolled)
  BY WatermarkIsLast DEF RollupInv
<1> DEFINE m == IF d > W THEN d ELSE W
<1>2. m \in Days \cup {-1}
  BY <1>1
<1>3. \A e \in rolled : e \in Int
  BY RollupAssumption DEF RollupInv, RollupTypeOK, Days
<1>4. IsLastOf(m, rolled')
  BY <1>1, <1>3, RollupAssumption DEF IsLastOf, Days
<1>5. LastExists'
  BY <1>2, <1>4 DEF LastExists, IsLastOf
<1>6. W' = m
  BY <1>2, <1>4, OnlyOneLast, RolledThroughIsLast
<1> QED BY <1>5, <1>6

-----------------------------------------------------------------------------
(* One lemma for each step *)

LEMMA RollupBegins == RollupInit => RollupInv
<1> SUFFICES ASSUME RollupInit PROVE RollupInv
  OBVIOUS
<1>1. RollupTypeOK
  BY RollupAssumption DEF RollupInit, RollupTypeOK, LogState, Days
<1>2. LastExists
  BY DEF RollupInit, LastExists, IsLastOf
<1>3. DaysOK /\ PlacesOK /\ TasksOK /\ ReportOK
  BY RollupAssumption DEF RollupInit, DaysOK, PlacesOK, TasksOK, ReportOK
<1> QED BY <1>1, <1>2, <1>3 DEF RollupInv

LEMMA StampStep ==
    ASSUME RollupInv, NEW l \in Logs, Stamp(l)
    PROVE  RollupInv'
<1>1. UNCHANGED <<today, rollup, rolled, todo, cutoff, watermark, onTime, missing>>
  BY DEF Stamp, rollupTables, taskVars, history
<1>2. LastExists' /\ W' = W
  BY <1>1, SameRolled
<1>3. log' = [log EXCEPT ![l] = [state |-> "stamped", day |-> today]] /\ log[l].state = "none"
      /\ today \in Days
  BY DEF Stamp, RollupInv, RollupTypeOK
<1>4. RollupTypeOK'
  BY <1>1, <1>3 DEF RollupInv, RollupTypeOK, LogState
<1>5. log'[l].state = "stamped" /\ log'[l].day = today /\ \A x \in Logs \ {l} : log'[x] = log[x]
  BY <1>3 DEF RollupInv, RollupTypeOK
<1>6. l \notin onTime /\ onTime \subseteq Logs
  BY <1>3 DEF RollupInv, PlacesOK, RollupTypeOK
<1>7. DaysOK'
  BY <1>1, <1>3, <1>5, RollupAssumption DEF RollupInv, DaysOK, Days
<1>8. PlacesOK'
  BY <1>1, <1>2, <1>3, <1>5, <1>6 DEF RollupInv, PlacesOK
<1>9. TasksOK' /\ ReportOK'
  BY <1>1, <1>2, <1>5, <1>6 DEF RollupInv, TasksOK, ReportOK
<1> QED BY <1>2, <1>4, <1>7, <1>8, <1>9 DEF RollupInv

LEMMA CommitStep ==
    ASSUME RollupInv, NEW l \in Logs, NEW s \in {"settled", "failed"}, Commit(l, s)
    PROVE  RollupInv'
<1>1. UNCHANGED <<today, rollup, rolled, todo, cutoff, watermark, missing>>
  BY DEF Commit, rollupTables, taskVars
<1>2. LastExists' /\ W' = W
  BY <1>1, SameRolled
<1>3. /\ log' = [log EXCEPT ![l].state = s] /\ log[l].state = "stamped"
      /\ onTime' = IF s = "settled" /\ W < log[l].day THEN onTime \cup {l} ELSE onTime
  BY DEF Commit, W
<1>4. RollupTypeOK'
  BY <1>1, <1>3 DEF RollupInv, RollupTypeOK, LogState
<1>5. /\ log'[l].state = s /\ log'[l].day = log[l].day
      /\ \A x \in Logs \ {l} : log'[x] = log[x]
  BY <1>3 DEF RollupInv, RollupTypeOK
<1>6. l \notin onTime /\ onTime \subseteq Logs /\ log[l].day >= today - 1
  BY <1>3 DEF RollupInv, PlacesOK, DaysOK, RollupTypeOK
<1>7. /\ log[l].day \in Int /\ today \in Int /\ W \in Int /\ \A d \in todo : d \in Int /\ d < today
      /\ watermark # None => watermark \in Int /\ watermark <= W
  BY WatermarkIsLast, RollupAssumption DEF RollupInv, RollupTypeOK, Days, DaysOK, ReportOK
<1>8. DaysOK'
  BY <1>1, <1>5, <1>3 DEF RollupInv, DaysOK
<1>9. PlacesOK'
  <2>1. \A d \in Days : rollup[d][l] # 1
    BY <1>3 DEF RollupInv, PlacesOK
  <2> QED BY <1>1, <1>2, <1>3, <1>5, <1>6, <1>7, <2>1 DEF RollupInv, PlacesOK
<1>10. TasksOK'
  <2>1. \A d \in todo : ~(log[l].day < d)
    BY <1>6, <1>7
  <2>2. cutoff # None => ~(log[l].day < cutoff)
    BY <1>6, <1>7 DEF RollupInv, TasksOK
  <2> QED BY <1>1, <1>2, <1>3, <1>5, <1>6, <2>1, <2>2 DEF RollupInv, TasksOK
<1>11. ReportOK'
  BY <1>1, <1>2, <1>3, <1>5, <1>6 DEF RollupInv, ReportOK
<1> QED BY <1>2, <1>4, <1>8, <1>9, <1>10, <1>11 DEF RollupInv

LEMMA OrphanStep ==
    ASSUME RollupInv, NEW l \in Logs, OrphanTrace(l)
    PROVE  RollupInv'
<1>1. UNCHANGED <<today, rollup, rolled, todo, cutoff, watermark, onTime, missing>>
  BY DEF OrphanTrace, rollupTables, taskVars, history
<1>2. LastExists' /\ W' = W
  BY <1>1, SameRolled
<1>3. /\ log[l].state \in {"none", "failed"} /\ log'[l].state = "refunded"
      /\ log'[l].day \in Days /\ \A x \in Logs \ {l} : log'[x] = log[x]
      /\ log' \in [Logs -> [state : LogState, day : Days]]
  <2>1. 0..today \subseteq Days
    BY RollupAssumption DEF RollupInv, RollupTypeOK, Days
  <2> QED BY <2>1 DEF OrphanTrace, RollupInv, RollupTypeOK, LogState
<1>4. RollupTypeOK'
  BY <1>1, <1>3 DEF RollupInv, RollupTypeOK
<1>5. l \notin onTime /\ onTime \subseteq Logs
  BY <1>3 DEF RollupInv, PlacesOK, RollupTypeOK
<1>6. DaysOK' /\ PlacesOK'
  BY <1>1, <1>2, <1>3, <1>5 DEF RollupInv, DaysOK, PlacesOK
<1>7. TasksOK' /\ ReportOK'
  BY <1>1, <1>2, <1>3, <1>5 DEF RollupInv, TasksOK, ReportOK
<1> QED BY <1>2, <1>4, <1>6, <1>7 DEF RollupInv

LEMMA MidnightStep ==
    ASSUME RollupInv, Midnight
    PROVE  RollupInv'
<1>1. UNCHANGED <<log, rollup, rolled, todo, cutoff, watermark, onTime, missing>>
      /\ today' = today + 1 /\ today < MaxDay
  BY DEF Midnight, rollupTables, taskVars, history
<1>2. LastExists' /\ W' = W
  BY <1>1, SameRolled
<1>3. RollupTypeOK' /\ today \in Int
  BY <1>1, RollupAssumption DEF RollupInv, RollupTypeOK, Days
<1>4. \A d \in rolled \cup todo : d \in Int /\ d < today
  BY RollupAssumption DEF RollupInv, RollupTypeOK, DaysOK, Days
<1>5. DaysOK'
  BY <1>1, <1>3, <1>4 DEF RollupInv, DaysOK, Midnight
<1>6. PlacesOK' /\ ReportOK'
  BY <1>1, <1>2 DEF RollupInv, PlacesOK, ReportOK
<1>7. TasksOK'
  BY <1>1, <1>2, <1>3 DEF RollupInv, TasksOK
<1> QED BY <1>2, <1>3, <1>5, <1>6, <1>7 DEF RollupInv

\* A task that ends early leaves nothing behind but what it has done.
LEMMA TaskEndsStep ==
    ASSUME RollupInv, todo' \in {todo, {}}, cutoff' \in {cutoff, None},
           UNCHANGED <<today, log, rollup, rolled, watermark, onTime, missing>>
    PROVE  RollupInv'
<1>1. LastExists' /\ W' = W
  BY SameRolled
<1>2. RollupTypeOK' /\ DaysOK'
  BY DEF RollupInv, RollupTypeOK, DaysOK
<1>3. PlacesOK' /\ ReportOK'
  BY <1>1 DEF RollupInv, PlacesOK, ReportOK
<1>4. TasksOK'
  BY <1>1 DEF RollupInv, TasksOK
<1> QED BY <1>1, <1>2, <1>3, <1>4 DEF RollupInv

LEMMA BeginRollupStep ==
    ASSUME RollupInv, BeginRollup
    PROVE  RollupInv'
<1>1. UNCHANGED <<today, log, rollup, rolled, cutoff, watermark, onTime, missing>>
  BY DEF BeginRollup, rollupTables, history
<1>2. LastExists' /\ W' = W
  BY <1>1, SameRolled
<1> DEFINE pending == {d \in 0..(today - 1) : HasEarlierRow(d) /\ d \notin rolled}
<1>3. todo' \subseteq pending /\ \A d \in todo', e \in pending : e < d => e \in todo'
  BY DEF BeginRollup, PendingDays
<1>4. today \in Days /\ pending \subseteq Days /\ \A d \in pending : d < today
  BY RollupAssumption DEF RollupInv, RollupTypeOK, Days
<1>5. RollupTypeOK' /\ DaysOK'
  BY <1>1, <1>3, <1>4 DEF RollupInv, RollupTypeOK, DaysOK
<1>6. PlacesOK' /\ ReportOK'
  BY <1>1, <1>2 DEF RollupInv, PlacesOK, ReportOK
<1>7. ASSUME NEW d \in todo', NEW l \in onTime, W < log[l].day, log[l].day < d
      PROVE  log[l].day \in todo'
  <2>1. l \in Logs /\ log[l].day \in Days /\ d \in Days /\ d < today
    BY <1>3, <1>4 DEF RollupInv, RollupTypeOK
  <2>2. l \in Rows
    BY <1>7, <2>1 DEF RollupInv, PlacesOK, Rows
  <2>3. HasEarlierRow(log[l].day)
    BY <2>1, <2>2, RollupAssumption DEF HasEarlierRow, Days
  <2>4. log[l].day \notin rolled
    <3>1. W \in Int /\ \A e \in rolled : e <= W
      BY WatermarkIsLast, RollupAssumption DEF RollupInv, IsLastOf, Days
    <3> QED BY <1>7, <2>1, <3>1, RollupAssumption DEF Days
  <2>5. log[l].day \in 0..(today - 1)
    BY <1>4, <1>7, <2>1, RollupAssumption DEF Days
  <2> QED BY <1>3, <1>7, <2>3, <2>4, <2>5
<1>8. TasksOK'
  BY <1>1, <1>2, <1>7 DEF RollupInv, TasksOK
<1> QED BY <1>2, <1>5, <1>6, <1>8 DEF RollupInv

LEMMA RollDayStep ==
    ASSUME RollupInv, NEW d \in Days, RollDay(d)
    PROVE  RollupInv'
<1>1. /\ UNCHANGED <<today, log, cutoff, watermark, onTime, missing>>
      /\ d \in todo /\ \A e \in todo : d <= e
      /\ rollup' = [rollup EXCEPT ![d] = [l \in Logs |-> IF l \in Settled(d) THEN 1 ELSE 0]]
      /\ rolled' = rolled \cup {d} /\ todo' = todo \ {d}
  BY DEF RollDay, history
<1>2. LastExists' /\ W' = IF d > W THEN d ELSE W
  BY <1>1, RolledMore
<1>3. W \in Int /\ d \in Int /\ \A l \in Logs : log[l].day \in Int
  BY WatermarkIsLast, RollupAssumption DEF RollupInv, RollupTypeOK, Days
<1>4. RollupTypeOK'
  BY <1>1 DEF RollupInv, RollupTypeOK
<1>5. DaysOK' /\ d \notin rolled
  BY <1>1 DEF RollupInv, DaysOK
<1>6. \A e \in Days, l \in Logs :
          rollup'[e][l] = IF e = d THEN IF l \in Settled(d) THEN 1 ELSE 0 ELSE rollup[e][l]
  BY <1>1 DEF RollupInv, RollupTypeOK
<1>7. \A l \in Logs : l \in Settled(d) <=> log[l].state = "settled" /\ log[l].day = d
  BY DEF Settled, RollupInv, RollupTypeOK
<1>8. \A l \in onTime : W < log[l].day => log[l].day >= d
  <2> SUFFICES ASSUME NEW l \in onTime, W < log[l].day, log[l].day < d PROVE FALSE
    BY <1>3 DEF RollupInv, RollupTypeOK
  <2>1. log[l].day \in todo
    BY <1>1 DEF RollupInv, TasksOK
  <2> QED BY <1>1, <1>3, <2>1 DEF RollupInv, RollupTypeOK
<1>9. PlacesOK'
  <2>1. ASSUME NEW l \in onTime PROVE
           /\ log[l].state \in {"settled", "purged"}
           /\ log[l].day <= W' => log[l].day \in rolled' /\ rollup'[log[l].day][l] = 1
           /\ log[l].day > W' => log[l].state = "settled"
    <3>1. l \in Logs /\ log[l].day \in Days /\ log[l].state \in {"settled", "purged"}
      BY DEF RollupInv, RollupTypeOK, PlacesOK
    <3>2. CASE log[l].day <= W
      <4>1. log[l].day \in rolled /\ rollup[log[l].day][l] = 1
        BY <3>2 DEF RollupInv, PlacesOK
      <4> QED BY <1>1, <1>2, <1>3, <1>5, <1>6, <3>1, <3>2, <4>1
    <3>3. CASE log[l].day > W
      <4>1. log[l].state = "settled" /\ log[l].day >= d
        BY <1>3, <1>8, <3>1, <3>3 DEF RollupInv, PlacesOK
      <4> QED BY <1>1, <1>2, <1>3, <1>6, <1>7, <3>1, <3>3, <4>1
    <3> QED BY <1>3, <3>1, <3>2, <3>3
  <2>2. ASSUME NEW e \in Days, NEW l \in Logs, rollup'[e][l] = 1
        PROVE  log[l].state \in {"settled", "purged"} /\ log[l].day = e
    BY <1>6, <1>7, <2>2 DEF RollupInv, PlacesOK
  <2> QED BY <1>1, <2>1, <2>2 DEF PlacesOK
<1>10. TasksOK'
  <2>1. ASSUME NEW e \in todo', NEW l \in onTime, W' < log[l].day, log[l].day < e
        PROVE  log[l].day \in todo'
    <3>1. l \in Logs /\ W < log[l].day /\ log[l].day # d
      BY <1>2, <1>3, <2>1 DEF RollupInv, RollupTypeOK
    <3>2. log[l].day \in todo
      BY <1>1, <2>1, <3>1 DEF RollupInv, TasksOK
    <3> QED BY <1>1, <3>1, <3>2
  <2>2. cutoff # None => \A l \in onTime : log[l].day < cutoff => log[l].day <= W'
    BY <1>2, <1>3 DEF RollupInv, TasksOK, RollupTypeOK
  <2> QED BY <1>1, <2>1, <2>2 DEF TasksOK, RollupInv
<1>11. ReportOK'
  <2>1. watermark # None => watermark \in Int
    BY RollupAssumption DEF RollupInv, RollupTypeOK, Days
  <2> QED BY <1>1, <1>2, <1>3, <2>1 DEF RollupInv, ReportOK
<1> QED BY <1>2, <1>4, <1>5, <1>9, <1>10, <1>11 DEF RollupInv

LEMMA CheckPurgeStep ==
    ASSUME RollupInv, CheckPurge
    PROVE  RollupInv'
<1>1. /\ UNCHANGED <<today, log, rollup, rolled, todo, watermark, onTime, missing>>
      /\ cutoff' = today - Retention /\ PurgeAllowed(cutoff')
  BY DEF CheckPurge, rollupTables, history
<1>2. LastExists' /\ W' = W
  BY <1>1, SameRolled
<1>3. today \in Days /\ cutoff' \in Int /\ cutoff' <= today - 1
  BY <1>1, RollupAssumption DEF RollupInv, RollupTypeOK, Days
<1>4. RollupTypeOK' /\ DaysOK'
  BY <1>1, <1>3 DEF RollupInv, RollupTypeOK, DaysOK
<1>5. PlacesOK' /\ ReportOK'
  BY <1>1, <1>2 DEF RollupInv, PlacesOK, ReportOK
<1>6. ASSUME NEW l \in onTime, log[l].day < cutoff' PROVE log[l].day <= W
  <2>1. l \in Logs /\ log[l].day \in Days /\ W \in Days \cup {-1} /\ \A e \in rolled : e <= W
    BY WatermarkIsLast DEF RollupInv, RollupTypeOK, IsLastOf
  <2> SUFFICES ASSUME log[l].day > W PROVE FALSE
    BY <2>1, RollupAssumption DEF Days
  <2>2. l \in Rows
    BY <2>1 DEF RollupInv, PlacesOK, Rows
  <2>3. HasEarlierRow(log[l].day)
    BY <2>1, <2>2, RollupAssumption DEF HasEarlierRow, Days
  <2>4. log[l].day \in 0..(cutoff' - 1)
    BY <1>3, <1>6, <2>1, RollupAssumption DEF Days
  <2>5. log[l].day \in rolled
    BY <1>1, <2>3, <2>4 DEF PurgeAllowed
  <2> QED BY <2>1, <2>5, RollupAssumption DEF Days
<1>7. TasksOK'
  BY <1>1, <1>2, <1>3, <1>6 DEF RollupInv, TasksOK
<1> QED BY <1>2, <1>4, <1>5, <1>7 DEF RollupInv

LEMMA DeletePurgedStep ==
    ASSUME RollupInv, DeletePurged
    PROVE  RollupInv'
<1> DEFINE old == {l \in Rows : log[l].day < cutoff}
<1>1. /\ UNCHANGED <<today, rollup, rolled, todo, watermark, onTime>>
      /\ cutoff # None /\ cutoff' = None
      /\ log' = [l \in Logs |-> IF l \in old THEN [log[l] EXCEPT !.state = "purged"] ELSE log[l]]
      /\ missing' = IF watermark = None THEN missing
                    ELSE missing \cup {l \in old : log[l].day > watermark}
  BY DEF DeletePurged, rollupTables
<1>2. LastExists' /\ W' = W
  BY <1>1, SameRolled
<1>3. old \subseteq Logs
  BY DEF Rows
<1>4. \A l \in Logs : /\ log'[l].day = log[l].day
                      /\ log'[l].state = IF l \in old THEN "purged" ELSE log[l].state
  BY <1>1 DEF RollupInv, RollupTypeOK
<1>5. log' \in [Logs -> [state : LogState, day : Days]]
  BY <1>1 DEF RollupInv, RollupTypeOK, LogState
<1>6. RollupTypeOK'
  BY <1>1, <1>3, <1>5 DEF RollupInv, RollupTypeOK
<1>7. DaysOK'
  BY <1>1, <1>4 DEF RollupInv, DaysOK
<1>8. PlacesOK'
  <2>1. \A l \in onTime : l \in old => ~(log[l].day > W)
    <3>1. W \in Int /\ \A l \in Logs : log[l].day \in Int
      BY WatermarkIsLast, RollupAssumption DEF RollupInv, RollupTypeOK, Days
    <3> QED BY <1>1, <3>1 DEF RollupInv, RollupTypeOK, TasksOK
  <2>2. \A d \in Days, l \in Logs : rollup[d][l] = 1 =>
            log'[l].state \in {"settled", "purged"} /\ log'[l].day = d
    BY <1>4 DEF RollupInv, PlacesOK
  <2>3. \A l \in onTime : l \in Logs
    BY DEF RollupInv, RollupTypeOK
  <2> QED BY <1>1, <1>2, <1>4, <2>1, <2>2, <2>3 DEF RollupInv, PlacesOK
<1>9. TasksOK'
  BY <1>1, <1>2, <1>4 DEF RollupInv, RollupTypeOK, TasksOK
<1>10. ReportOK'
  BY <1>1, <1>2, <1>4 DEF RollupInv, RollupTypeOK, ReportOK
<1> QED BY <1>2, <1>6, <1>7, <1>8, <1>9, <1>10 DEF RollupInv

LEMMA ReportStepKeeps ==
    ASSUME RollupInv, ReportStep
    PROVE  RollupInv'
<1>1. UNCHANGED <<today, log, rollup, rolled, todo, cutoff, onTime>> /\ missing' = {}
      /\ watermark' \in {W, None}
  BY DEF ReportStep, BeginReport, EndReport, rollupTables, taskVars, W
<1>2. LastExists' /\ W' = W
  BY <1>1, SameRolled
<1>3. W \in Days \cup {-1}
  BY WatermarkIsLast DEF RollupInv
<1>4. RollupTypeOK' /\ DaysOK'
  BY <1>1, <1>3 DEF RollupInv, RollupTypeOK, DaysOK
<1>5. PlacesOK' /\ TasksOK'
  BY <1>1, <1>2 DEF RollupInv, PlacesOK, TasksOK
<1>6. ReportOK'
  BY <1>1, <1>2, <1>3, RollupAssumption DEF RollupInv, PlacesOK, ReportOK, Days
<1> QED BY <1>2, <1>4, <1>5, <1>6 DEF RollupInv

LEMMA RollupUnchanged ==
    ASSUME RollupInv, UNCHANGED rollupVars PROVE RollupInv'
<1>1. todo' \in {todo, {}} /\ cutoff' \in {cutoff, None}
      /\ UNCHANGED <<today, log, rollup, rolled, watermark, onTime, missing>>
  BY DEF rollupVars, rollupTables, taskVars, history
<1> QED BY <1>1, TaskEndsStep

LEMMA LogStepKeeps ==
    ASSUME RollupInv, LogStep PROVE RollupInv'
  BY StampStep, OrphanStep, CommitStep DEF LogStep

-----------------------------------------------------------------------------
(* The round, traffic, restarts *)

LEMMA RoundKeeps ==
    ASSUME RollupInv, Round PROVE RollupInv'
<1>1. CASE RollupUsage
  BY <1>1, BeginRollupStep, RollDayStep, RollupUnchanged DEF RollupUsage
<1>2. CASE PurgeUsageLogs
  BY <1>2, CheckPurgeStep, DeletePurgedStep, RollupUnchanged DEF PurgeUsageLogs
<1>3. CASE RunOnce \/ PurgeAuditLogs \/ PurgeSpendCounters \/ PurgeRecordings
  BY <1>3, RollupUnchanged DEF RunOnce, PurgeAuditLogs, PurgeSpendCounters, PurgeRecordings
<1>4. CASE GrantMonthlyCredits
  BY <1>4, RollupUnchanged DEF GrantMonthlyCredits
<1>5. CASE CheckDepartmentBudgets \/ CheckLowBalances \/ CheckRelayHealth
  BY <1>5, RollupUnchanged DEF CheckDepartmentBudgets, CheckLowBalances, CheckRelayHealth
<1> QED BY <1>1, <1>2, <1>3, <1>4, <1>5 DEF Round

LEMMA EndsKeep ==
    ASSUME RollupInv, TaskFails \/ StopRound PROVE RollupInv'
<1>1. todo' = {} /\ cutoff' = None
      /\ UNCHANGED <<today, log, rollup, rolled, watermark, onTime, missing>>
  BY DEF TaskFails, StopRound, rollupTables, history
<1> QED BY <1>1, TaskEndsStep

LEMMA RollupStep == RollupInv /\ [Next]_vars => RollupInv'
<1> SUFFICES ASSUME RollupInv, [Next]_vars PROVE RollupInv'
  OBVIOUS
<1>1. CASE RoundStep
  BY <1>1, RoundKeeps, EndsKeep DEF RoundStep
<1>2. CASE Restart
  BY <1>2, EndsKeep DEF Restart
<1>3. CASE NextDay
  BY <1>3, MidnightStep DEF NextDay
<1>4. CASE Traffic
  BY <1>4, LogStepKeeps, ReportStepKeeps DEF Traffic
<1>5. CASE UserStep
  BY <1>5, RollupUnchanged DEF UserStep
<1>6. CASE UNCHANGED rollupVars
  BY <1>6, RollupUnchanged
<1>7. (\E a \in Alerts : Deliver(a) /\ UNCHANGED roundVars) => UNCHANGED rollupVars
  BY DEF roundVars
<1>8. (\E a \in Alerts, k \in Kind : RaiseElsewhere(a, k)) => UNCHANGED rollupVars
  BY DEF RaiseElsewhere
<1>9. UNCHANGED roundVars \/ UNCHANGED vars => UNCHANGED rollupVars
  BY DEF roundVars, vars
<1> QED BY <1>1, <1>2, <1>3, <1>4, <1>5, <1>6, <1>7, <1>8, <1>9 DEF Next

LEMMA RollupInvAlways == Spec => []RollupInv
<1>1. Init => RollupInv
  BY RollupBegins DEF Init, RoundInit
<1> QED BY <1>1, RollupStep, PTL DEF Spec

-----------------------------------------------------------------------------
\* A report made at any moment counts every settled log that committed before
\* its day was rolled up exactly once, and nothing else: rollupSplit, the
\* roll-up of whole days in order and PurgeAllowed agree on every day.
THEOREM ReportsCorrect == Spec => []ReportsCountOnce
<1>1. ASSUME RollupInv PROVE ReportsCountOnce
  <2> SUFFICES ASSUME NEW l \in Logs
               PROVE  /\ l \in onTime => Counted(l, W) = 1
                      /\ Counted(l, W) > 0 => log[l].state \in {"settled", "purged"}
    BY DEF ReportsCountOnce, W
  <2>1. W \in Int /\ log[l].day \in Days /\ log[l].day \in Int /\ rollup[log[l].day][l] \in {0, 1}
    BY <1>1, WatermarkIsLast, RollupAssumption DEF RollupInv, RollupTypeOK, Days
  <2>2. Counted(l, W) = IF log[l].day <= W THEN rollup[log[l].day][l]
                        ELSE IF log[l].state = "settled" THEN 1 ELSE 0
    BY <2>1 DEF Counted, RollupSplit
  <2> QED BY <1>1, <2>1, <2>2 DEF RollupInv, PlacesOK
<1> QED BY <1>1, RollupInvAlways, PTL

\* A report that read the watermark earlier misses such a log only if its raw
\* row was purged since.
THEOREM RollupUnderReport == Spec => []ReportInProgress
<1>1. ASSUME RollupInv PROVE ReportInProgress
  <2> SUFFICES ASSUME watermark # None, NEW l \in onTime
               PROVE  Counted(l, watermark) = 1 \/ l \in missing
    BY DEF ReportInProgress
  <2>1. l \in Logs /\ W \in Int /\ watermark \in Int /\ watermark <= W
        /\ log[l].day \in Days /\ log[l].day \in Int
    BY <1>1, WatermarkIsLast, RollupAssumption DEF RollupInv, RollupTypeOK, ReportOK, Days
  <2>2. Counted(l, watermark) = IF log[l].day <= watermark THEN rollup[log[l].day][l]
                                ELSE IF log[l].state = "settled" THEN 1 ELSE 0
    BY <2>1 DEF Counted, RollupSplit
  <2>3. CASE log[l].day <= watermark
    BY <1>1, <2>1, <2>2, <2>3 DEF RollupInv, PlacesOK
  <2>4. CASE log[l].day > watermark
    BY <1>1, <2>1, <2>2, <2>4 DEF RollupInv, PlacesOK, ReportOK
  <2> QED BY <2>1, <2>3, <2>4
<1> QED BY <1>1, RollupInvAlways, PTL

-----------------------------------------------------------------------------
(* Alerts *)

\* The counter of attempts at each place of the goroutine.
CounterOK(a) ==
    /\ pc[a] \in {"none", "check", "insert"} => attempt[a] = 0 /\ row[a].status = "none"
    /\ pc[a] = "attempt" => attempt[a] <= Retries
    /\ pc[a] = "backoff" => attempt[a] \in 1..Retries
    /\ pc[a] = "record" => attempt[a] \in 1..(Retries + 1)

\* A channel took an alert in its last attempt or never.
TookOK(a) ==
    /\ pc[a] \in Running \cup {"none"} => (took[a] # {} <=> pc[a] = "record" /\ result[a] = "sent")
    /\ pc[a] = "end" /\ took[a] # {} => row[a].status = "sent" \/ faults > 0
    /\ row[a].status = "sent" => took[a] # {}
    /\ row[a].status = "dead_letter" =>
          pc[a] = "end" /\ took[a] = {} /\ attempt[a] = Retries + 1

\* Another alert of the key was delivered inside the window that was looked at.
Delivered(a) ==
    \E b \in Alerts \ {a} : /\ KeyOf[b] = KeyOf[a] /\ took[b] # {}
                            /\ row[b].created >= checked[a] - WindowOf[a]

SilencedOK(a) ==
    /\ pc[a] = "insert" /\ recent[a] => Delivered(a)
    /\ row[a].status = "suppressed" => pc[a] = "end" /\ Delivered(a)

AlertInv ==
    /\ AlertTypeOK /\ faults \in Nat
    /\ \A a \in Alerts : CounterOK(a) /\ TookOK(a) /\ SilencedOK(a)

-----------------------------------------------------------------------------
LEMMA AlertBegins == AlertInit /\ faults = 0 => AlertInv
  BY AlertAssumption
  DEF AlertInit, AlertInv, AlertTypeOK, CounterOK, TookOK, SilencedOK, Settings, Kind, Status,
      Result, Running, Channels

\* What an alert is silenced by stays: only its own insert changes a row's time.
LEMMA DeliveredStays ==
    ASSUME AlertInv, NEW a \in Alerts, Delivered(a),
           checked'[a] = checked[a],
           \A b \in Alerts : took[b] # {} => took'[b] # {} /\ row'[b].created = row[b].created
    PROVE  Delivered(a)'
  BY DEF Delivered

\* A step of one alert leaves the others as they are.
LEMMA OthersStay ==
    ASSUME AlertInv, NEW a \in Alerts, NEW b \in Alerts \ {a},
           pc'[b] = pc[b], attempt'[b] = attempt[b], row'[b] = row[b], took'[b] = took[b],
           result'[b] = result[b], recent'[b] = recent[b], checked'[b] = checked[b],
           faults' \in {faults, faults + 1},
           \A c \in Alerts : took[c] # {} => took'[c] # {} /\ row'[c].created = row[c].created
    PROVE  (CounterOK(b) /\ TookOK(b) /\ SilencedOK(b))'
<1>1. Delivered(b) => Delivered(b)'
  BY DeliveredStays
<1>2. CounterOK(b) /\ TookOK(b) /\ SilencedOK(b) /\ faults \in Nat
  BY DEF AlertInv
<1> QED BY <1>1, <1>2 DEF CounterOK, TookOK, SilencedOK


\* So it is enough to look at the alert that takes the step.
LEMMA OneAlertSteps ==
    ASSUME AlertInv, NEW a \in Alerts, AlertTypeOK', faults' \in {faults, faults + 1},
           \A b \in Alerts \ {a} :
               /\ pc'[b] = pc[b] /\ attempt'[b] = attempt[b] /\ row'[b] = row[b]
               /\ took'[b] = took[b] /\ result'[b] = result[b] /\ recent'[b] = recent[b]
               /\ checked'[b] = checked[b],
           took[a] # {} => took'[a] # {} /\ row'[a].created = row[a].created,
           (CounterOK(a) /\ TookOK(a) /\ SilencedOK(a))'
    PROVE  AlertInv'
<1>1. \A c \in Alerts : took[c] # {} => took'[c] # {} /\ row'[c].created = row[c].created
  OBVIOUS
<1>2. \A b \in Alerts \ {a} : (CounterOK(b) /\ TookOK(b) /\ SilencedOK(b))'
  BY <1>1, OthersStay
<1>3. faults' \in Nat
  BY DEF AlertInv
<1> QED BY <1>2, <1>3 DEF AlertInv

-----------------------------------------------------------------------------
(* One lemma for each step *)

LEMMA RaiseStep ==
    ASSUME AlertInv, NEW a \in Alerts, NEW k \in Kind, Raise(a, k)
    PROVE  AlertInv'
<1>1. AlertTypeOK'
  BY DEF AlertInv, AlertTypeOK, Raise, Running
<1>2. (CounterOK(a) /\ TookOK(a) /\ SilencedOK(a))'
  BY DEF AlertInv, AlertTypeOK, Raise, CounterOK, TookOK, SilencedOK, Running
<1> QED BY <1>1, <1>2, OneAlertSteps DEF AlertInv, AlertTypeOK, Raise

LEMMA CheckStep ==
    ASSUME AlertInv, NEW a \in Alerts, CheckWindow(a)
    PROVE  AlertInv'
<1>1. AlertTypeOK'
  BY DEF AlertInv, AlertTypeOK, CheckWindow, Running
<1>2. faults' \in {faults, faults + 1}
  BY DEF CheckWindow, Fault
<1>3. recent'[a] => Delivered(a)'
  <2> SUFFICES ASSUME recent'[a] PROVE Delivered(a)'
    OBVIOUS
  <2>1. RecentlyDelivered(a, now - WindowOf[a])
    BY DEF CheckWindow, AlertInv, AlertTypeOK
  <2>2. PICK b \in Alerts : /\ KeyOf[b] = KeyOf[a] /\ row[b].status = "sent"
                            /\ row[b].created >= now - WindowOf[a]
    BY <2>1 DEF RecentlyDelivered
  <2>3. b # a /\ took[b] # {}
    BY <2>2 DEF AlertInv, CounterOK, TookOK, CheckWindow
  <2>4. checked'[a] = now /\ took' = took /\ row' = row
    BY DEF CheckWindow, AlertInv, AlertTypeOK
  <2> QED BY <2>2, <2>3, <2>4 DEF Delivered
<1>4. (CounterOK(a) /\ TookOK(a) /\ SilencedOK(a))'
  BY <1>3 DEF AlertInv, AlertTypeOK, CheckWindow, CounterOK, TookOK, SilencedOK, Running
<1> QED BY <1>1, <1>2, <1>4, OneAlertSteps DEF AlertInv, AlertTypeOK, CheckWindow

LEMMA InsertStep ==
    ASSUME AlertInv, NEW a \in Alerts, Insert(a)
    PROVE  AlertInv'
<1>1. AlertTypeOK'
  BY AlertAssumption DEF AlertInv, AlertTypeOK, Insert, Running, Status
<1>2. took[a] = {} /\ took' = took
  BY DEF AlertInv, AlertTypeOK, Insert, TookOK, Running
<1>3. recent[a] => Delivered(a)'
  <2>1. recent[a] => Delivered(a)
    BY DEF AlertInv, SilencedOK, Insert
  <2>2. \A b \in Alerts : took[b] # {} => took'[b] # {} /\ row'[b].created = row[b].created
    BY <1>2 DEF Insert, AlertInv, AlertTypeOK
  <2> QED BY <2>1, <2>2, DeliveredStays DEF Insert
<1>4. (CounterOK(a) /\ TookOK(a) /\ SilencedOK(a))'
  BY <1>2, <1>3, AlertAssumption
  DEF AlertInv, AlertTypeOK, Insert, CounterOK, TookOK, SilencedOK, Running
<1> QED BY <1>1, <1>2, <1>4, OneAlertSteps DEF AlertInv, AlertTypeOK, Insert

LEMMA InsertFailsStep ==
    ASSUME AlertInv, NEW a \in Alerts, InsertFails(a)
    PROVE  AlertInv'
<1>1. AlertTypeOK' /\ faults' = faults + 1
  BY DEF AlertInv, AlertTypeOK, InsertFails, Fault
<1>2. (CounterOK(a) /\ TookOK(a) /\ SilencedOK(a))'
  BY <1>1 DEF AlertInv, AlertTypeOK, InsertFails, CounterOK, TookOK, SilencedOK, Running
<1> QED BY <1>1, <1>2, OneAlertSteps DEF AlertInv, AlertTypeOK, InsertFails

LEMMA AttemptStep ==
    ASSUME AlertInv, NEW a \in Alerts, Attempt(a)
    PROVE  AlertInv'
<1>1. PICK ok \in SUBSET ConfiguredFor(a) :
          /\ took' = [took EXCEPT ![a] = @ \cup ok]
          /\ result' = [result EXCEPT ![a] =
                IF ok # {} THEN "sent"
                ELSE IF ConfiguredFor(a) = {} THEN "unconfigured" ELSE "failed"]
  BY DEF Attempt
<1>2. attempt[a] \in Nat /\ attempt[a] <= Retries /\ took[a] = {}
  BY DEF AlertInv, AlertTypeOK, Attempt, CounterOK, TookOK, Running
<1>3. ok \subseteq Channels
  BY DEF ConfiguredFor
<1>4. AlertTypeOK'
  BY <1>1, <1>2, <1>3, AlertAssumption DEF AlertInv, AlertTypeOK, Attempt, Running, Result
<1>5. CounterOK(a)' /\ TookOK(a)'
  BY <1>1, <1>2, AlertAssumption
  DEF AlertInv, AlertTypeOK, Attempt, CounterOK, TookOK, Running
<1>6. SilencedOK(a)'
  BY DEF AlertInv, AlertTypeOK, Attempt, SilencedOK
<1> QED BY <1>1, <1>2, <1>4, <1>5, <1>6, OneAlertSteps DEF AlertInv, AlertTypeOK, Attempt

\* What an outcome says, when an attempt has ended.
LEMMA OutcomeOfAttempt ==
    ASSUME AlertInv, NEW a \in Alerts, pc[a] = "record"
    PROVE  /\ Outcome(a) \in {"sent", "dead_letter", "failed"}
           /\ Outcome(a) = "sent" <=> took[a] # {}
           /\ Outcome(a) = "dead_letter" => attempt[a] = Retries + 1
           /\ Retried(a) => /\ took[a] = {} /\ attempt[a] \in 1..Retries
                            /\ Outcome(a) = "failed"
<1>1. attempt[a] \in 1..(Retries + 1) /\ (took[a] # {} <=> result[a] = "sent")
  BY DEF AlertInv, CounterOK, TookOK, Running
<1> QED BY <1>1, AlertAssumption DEF Outcome, Retried, NextRetry

LEMMA RecordStep ==
    ASSUME AlertInv, NEW a \in Alerts, Record(a)
    PROVE  AlertInv'
<1>1. pc[a] = "record" /\ row' = [row EXCEPT ![a].status = Outcome(a), ![a].attempts = attempt[a]]
  BY DEF Record, UpdateFields
<1>2. /\ Outcome(a) \in {"sent", "dead_letter", "failed"}
      /\ Outcome(a) = "sent" <=> took[a] # {}
      /\ Outcome(a) = "dead_letter" => attempt[a] = Retries + 1
      /\ Retried(a) => took[a] = {} /\ attempt[a] \in 1..Retries /\ Outcome(a) = "failed"
  BY <1>1, OutcomeOfAttempt
<1>3. attempt[a] \in 0..Retries + 1 /\ row[a] \in [status : Status, created : 0..MaxTime,
                                                   attempts : 0..Retries + 1]
  BY DEF AlertInv, AlertTypeOK
<1>4. row'[a] = [row[a] EXCEPT !.status = Outcome(a), !.attempts = attempt[a]]
      /\ \A b \in Alerts \ {a} : row'[b] = row[b]
  BY <1>1 DEF AlertInv, AlertTypeOK
<1>5. row' \in [Alerts -> [status : Status, created : 0..MaxTime, attempts : 0..Retries + 1]]
  BY <1>1, <1>2, <1>3 DEF AlertInv, AlertTypeOK, Status
<1>6. AlertTypeOK'
  BY <1>5 DEF AlertInv, AlertTypeOK, Record, Running
<1>7. pc'[a] = IF Retried(a) THEN "backoff" ELSE "end"
  BY DEF Record, AlertInv, AlertTypeOK
<1>8. row'[a].status = Outcome(a) /\ row'[a].created = row[a].created
  BY <1>3, <1>4
<1>9. took' = took /\ attempt' = attempt /\ recent' = recent /\ faults' = faults
      /\ checked' = checked /\ result' = result
  BY DEF Record
<1>10. CounterOK(a)' /\ TookOK(a)'
  BY <1>2, <1>7, <1>8, <1>9 DEF CounterOK, TookOK, Running
<1>11. SilencedOK(a)'
  BY <1>2, <1>7, <1>8, <1>9 DEF SilencedOK
<1>12. \A b \in Alerts \ {a} : pc'[b] = pc[b]
  BY DEF Record, AlertInv, AlertTypeOK
<1> QED BY <1>4, <1>6, <1>8, <1>9, <1>10, <1>11, <1>12, OneAlertSteps

LEMMA RecordFailsStep ==
    ASSUME AlertInv, NEW a \in Alerts, RecordFails(a)
    PROVE  AlertInv'
<1>1. AlertTypeOK' /\ faults' = faults + 1 /\ pc[a] = "record"
  BY DEF AlertInv, AlertTypeOK, RecordFails, Fault, Running
<1>2. Retried(a) => took[a] = {} /\ attempt[a] \in 1..Retries
  BY <1>1, OutcomeOfAttempt
<1>3. row[a].status # "suppressed" /\ row[a].status # "dead_letter"
  BY <1>1 DEF AlertInv, SilencedOK, TookOK
<1>4. (CounterOK(a) /\ TookOK(a) /\ SilencedOK(a))'
  BY <1>1, <1>2, <1>3
  DEF AlertInv, AlertTypeOK, RecordFails, CounterOK, TookOK, SilencedOK, Running
<1> QED BY <1>1, <1>4, OneAlertSteps DEF AlertInv, AlertTypeOK, RecordFails

LEMMA WakeStep ==
    ASSUME AlertInv, NEW a \in Alerts, Wake(a)
    PROVE  AlertInv'
<1>1. AlertTypeOK'
  BY DEF AlertInv, AlertTypeOK, Wake, Running
<1>2. (CounterOK(a) /\ TookOK(a) /\ SilencedOK(a))'
  BY AlertAssumption DEF AlertInv, AlertTypeOK, Wake, CounterOK, TookOK, SilencedOK, Running
<1> QED BY <1>1, <1>2, OneAlertSteps DEF AlertInv, AlertTypeOK, Wake

\* The clock, the configuration and failures elsewhere do not matter.
LEMMA AroundAlerts ==
    ASSUME AlertInv, UNCHANGED <<row, local, took>>, now' \in 0..MaxTime, config' \subseteq Settings,
           faults' \in {faults, faults + 1}
    PROVE  AlertInv'
<1>1. AlertTypeOK' /\ faults' \in Nat
  BY DEF AlertInv, AlertTypeOK, local
<1>2. ASSUME NEW a \in Alerts PROVE (CounterOK(a) /\ TookOK(a) /\ SilencedOK(a))'
  <2>1. CounterOK(a) /\ TookOK(a) /\ SilencedOK(a) /\ faults \in Nat
    BY DEF AlertInv
  <2>2. Delivered(a) => Delivered(a)'
    BY DEF Delivered, local
  <2> QED BY <2>1, <2>2 DEF CounterOK, TookOK, SilencedOK, local
<1> QED BY <1>1, <1>2 DEF AlertInv

LEMMA StopStep ==
    ASSUME AlertInv, StopDeliveries, Fault
    PROVE  AlertInv'
<1>1. AlertTypeOK' /\ faults' = faults + 1 /\ faults' \in Nat
  BY DEF AlertInv, AlertTypeOK, StopDeliveries, Fault
<1>2. ASSUME NEW a \in Alerts PROVE (CounterOK(a) /\ TookOK(a) /\ SilencedOK(a))'
  <2>1. CounterOK(a) /\ TookOK(a) /\ SilencedOK(a) /\ faults \in Nat
    BY DEF AlertInv
  <2>2. Delivered(a) => Delivered(a)'
    BY DEF Delivered, StopDeliveries
  <2>3. pc'[a] = IF pc[a] \in Running THEN "end" ELSE pc[a]
    BY DEF StopDeliveries
  <2> QED BY <1>1, <2>1, <2>2, <2>3
          DEF StopDeliveries, CounterOK, TookOK, SilencedOK, Running
<1> QED BY <1>1, <1>2 DEF AlertInv

LEMMA DeliverStep ==
    ASSUME AlertInv, NEW a \in Alerts, Deliver(a)
    PROVE  AlertInv'
  BY CheckStep, InsertStep, InsertFailsStep, AttemptStep, RecordStep, RecordFailsStep, WakeStep
  DEF Deliver

-----------------------------------------------------------------------------
(* The maintenance round and everything around the deliveries *)

\* A round fails at most once in a step.
LEMMA RoundFaults == Round \/ TaskFails => faults' \in {faults, faults + 1}
<1>1. RunOnce \/ RollupUsage \/ PurgeAuditLogs \/ PurgeUsageLogs => faults' = faults
  BY DEF RunOnce, RollupUsage, PurgeAuditLogs, PurgeUsageLogs
<1>2. PurgeSpendCounters => faults' \in {faults, faults + 1}
  BY DEF PurgeSpendCounters, Fault
<1>3. PurgeRecordings \/ CheckDepartmentBudgets \/ CheckLowBalances \/ CheckRelayHealth
      => faults' = faults
  BY DEF PurgeRecordings, CheckDepartmentBudgets, CheckLowBalances, CheckRelayHealth
<1>4. GrantMonthlyCredits => faults' \in {faults, faults + 1}
  BY DEF GrantMonthlyCredits, Fault
<1>5. TaskFails => faults' \in {faults, faults + 1}
  BY DEF TaskFails, Fault
<1> QED BY <1>1, <1>2, <1>3, <1>4, <1>5 DEF Round

LEMMA AlertStep == AlertInv /\ [Next]_vars => AlertInv'
<1> SUFFICES ASSUME AlertInv, [Next]_vars PROVE AlertInv'
  OBVIOUS
<1>1. ASSUME UNCHANGED alertVars, faults' \in {faults, faults + 1} PROVE AlertInv'
  BY <1>1, AroundAlerts DEF AlertInv, AlertTypeOK, alertVars
<1>2. CASE RoundStep
  <2>1. CASE UNCHANGED alertVars
    BY <1>1, <1>2, <2>1, RoundFaults DEF RoundStep
  <2>2. CASE \E a \in Followed, x \in raised' \ raised : x[1] = KeyOf[a] /\ Raise(a, KindOf(x))
    BY <2>2, RaiseStep DEF Followed, KindOf, Kind
  <2> QED BY <1>2, <2>1, <2>2 DEF RoundStep
<1>3. CASE Restart
  BY <1>3, StopStep DEF Restart
<1>4. CASE (NextDay \/ Traffic \/ UserStep) /\ UNCHANGED alertVars
  BY <1>1, <1>4 DEF NextDay, Traffic, UserStep
<1>5. CASE \E a \in Alerts : Deliver(a) /\ UNCHANGED roundVars
  BY <1>5, DeliverStep
<1>6. CASE \E a \in Alerts, k \in Kind : RaiseElsewhere(a, k)
  BY <1>6, RaiseStep DEF RaiseElsewhere
<1>7. CASE Tick \/ \E s \in Settings : Configure(s)
  <2>1. UNCHANGED <<row, local, took, faults>>
    BY <1>7 DEF Tick, Configure
  <2>2. now' \in 0..MaxTime /\ config' \subseteq Settings
    <3>1. now \in 0..MaxTime /\ config \subseteq Settings
      BY DEF AlertInv, AlertTypeOK
    <3>2. CASE Tick
      BY <3>1, <3>2, AlertAssumption DEF Tick
    <3>3. CASE \E s \in Settings : Configure(s)
      BY <3>1, <3>3 DEF Configure
    <3> QED BY <1>7, <3>2, <3>3
  <2> QED BY <2>1, <2>2, AroundAlerts
<1>8. CASE UNCHANGED vars
  BY <1>1, <1>8 DEF vars
<1> QED BY <1>2, <1>3, <1>4, <1>5, <1>6, <1>7, <1>8 DEF Next

LEMMA AlertInvAlways == Spec => []AlertInv
<1>1. Init => AlertInv
  BY AlertBegins DEF Init
<1> QED BY <1>1, AlertStep, PTL DEF Spec

\* What alert_events says of an alert is what happened to it: sent means that
\* a channel took it, dead_letter that every retry of deliverWithRetry was made
\* and none succeeded, and what a channel took is not sent again.
THEOREM OutcomesAreTruthful == Spec => []OutcomeTruthful
<1>1. AlertInv => OutcomeTruthful
  BY DEF AlertInv, AlertTypeOK, TookOK, OutcomeTruthful, Running
<1> QED BY <1>1, AlertInvAlways, PTL

\* An alert is suppressed only after another of its key reached a channel and
\* was created inside the window createEvent looked at.
THEOREM OnlyDeliveriesSuppress == Spec => []SuppressedOnlyAfterDelivery
<1>1. AlertInv => SuppressedOnlyAfterDelivery
  BY DEF AlertInv, SilencedOK, Delivered, SuppressedOnlyAfterDelivery
<1> QED BY <1>1, AlertInvAlways, PTL

-----------------------------------------------------------------------------
(* Batches of a monthly pass *)

LEMMA LeastNumber ==
    ASSUME NEW S \in SUBSET Nat, S # {} PROVE \E m \in S : \A n \in S : m <= n
<1>1. PICK m \in S : \A n \in S : <<n, m>> \notin OpToRel(<, Nat)
  BY NatLessThanWellFounded, WFMin
<1>2. ASSUME NEW n \in S PROVE m <= n
  <2>1. ~(n < m)
    BY <1>1 DEF OpToRel
  <2> QED BY <2>1
<1> QED BY <1>2

\* How many of ids come before u, and the first n of them.
Rank(ids, u) == Cardinality({v \in ids : v < u})
Page(ids, n) == {u \in ids : Rank(ids, u) < n}

LEMMA RankIsNumber ==
    ASSUME NEW ids \in SUBSET UserIds, NEW u
    PROVE  IsFiniteSet({v \in ids : v < u}) /\ Rank(ids, u) \in Nat
<1>1. {v \in ids : v < u} \subseteq UserIds /\ IsFiniteSet(UserIds)
  BY GrantAssumption
<1> QED BY <1>1, FS_Subset, FS_CardinalityType DEF Rank

LEMMA RankOrders ==
    ASSUME NEW ids \in SUBSET UserIds, NEW u \in ids, NEW v \in ids, u < v
    PROVE  Rank(ids, u) < Rank(ids, v)
<1> DEFINE A == {x \in ids : x < u}
           B == {x \in ids : x < v}
<1>1. ids \subseteq Nat
  BY GrantAssumption
<1>2. A \subseteq B /\ u \in B /\ u \notin A
  <2>1. u \in Nat /\ v \in Nat /\ u < v
    BY <1>1
  <2>2. ASSUME NEW x \in ids, x < u PROVE x < v
    BY <1>1, <2>1, <2>2
  <2>3. A \subseteq B
    BY <2>2
  <2>4. u \in B
    BY <2>1
  <2>5. u \notin A
    BY <2>1
  <2> QED BY <2>3, <2>4, <2>5
<1>3. IsFiniteSet(A) /\ IsFiniteSet(B)
  BY RankIsNumber
<1>4. Cardinality(A) <= Cardinality(B) /\ (Cardinality(A) = Cardinality(B) => A = B)
  BY <1>2, <1>3, FS_Subset
<1>5. Cardinality(A) \in Nat /\ Cardinality(B) \in Nat
  BY <1>3, FS_CardinalityType
<1>6. Cardinality(A) < Cardinality(B)
  <2> HIDE DEF A, B
  <2> QED BY <1>2, <1>4, <1>5
<1> QED BY <1>6 DEF Rank

\* A page comes before the rest.
LEMMA PageIsFirst ==
    ASSUME NEW ids \in SUBSET UserIds, NEW n \in Nat, NEW u \in Page(ids, n),
           NEW v \in ids \ Page(ids, n)
    PROVE  u < v
<1>1. u \in Nat /\ v \in Nat /\ u \in ids
  BY GrantAssumption DEF Page
<1>2. Rank(ids, u) < n /\ ~(Rank(ids, v) < n)
  BY DEF Page
<1>3. Rank(ids, u) \in Nat /\ Rank(ids, v) \in Nat
  BY RankIsNumber
<1>4. u # v /\ ~(v < u)
  BY <1>1, <1>2, <1>3, RankOrders
<1> QED BY <1>1, <1>4

\* A page has n ids, or all there are.
LEMMA PageIsFull ==
    ASSUME NEW ids \in SUBSET UserIds
    PROVE  \A n \in Nat : /\ IsFiniteSet(Page(ids, n)) /\ Cardinality(Page(ids, n)) <= n
                          /\ Cardinality(Page(ids, n)) = n \/ Page(ids, n) = ids
<1> DEFINE Good(n) == /\ Cardinality(Page(ids, n)) <= n
                      /\ Cardinality(Page(ids, n)) = n \/ Page(ids, n) = ids
           Bad == {n \in Nat : ~Good(n)}
<1>1. \A n : IsFiniteSet(Page(ids, n)) /\ Cardinality(Page(ids, n)) \in Nat
  <2>1. \A n : Page(ids, n) \subseteq UserIds
    BY DEF Page
  <2> QED BY <2>1, GrantAssumption, FS_Subset, FS_CardinalityType
<1>0. \A u \in ids : Rank(ids, u) \in Nat
  BY RankIsNumber
<1>2. Good(0)
  <2>1. Page(ids, 0) = {}
    BY <1>0 DEF Page
  <2> QED BY <2>1, FS_EmptySet
<1>3. ASSUME NEW n \in Nat, Good(n) PROVE Good(n + 1)
  <2>1. Page(ids, n) \subseteq Page(ids, n + 1) /\ Page(ids, n + 1) \subseteq ids
    BY <1>0 DEF Page
  <2>2. CASE Page(ids, n) = ids
    BY <1>1, <1>3, <2>1, <2>2
  <2>3. CASE Page(ids, n) # ids
    <3> DEFINE rest == ids \ Page(ids, n)
    <3>1. rest \in SUBSET Nat /\ rest # {}
      BY <2>1, <2>3, GrantAssumption
    <3>2. PICK u \in rest : \A v \in rest : u <= v
      <4> HIDE DEF rest
      <4> QED BY <3>1, LeastNumber
    <3>3. {v \in ids : v < u} = Page(ids, n)
      <4>1. ASSUME NEW v \in ids, v < u PROVE v \in Page(ids, n)
        BY <3>1, <3>2, <4>1
      <4>2. \A v \in Page(ids, n) : v \in ids /\ v < u
        BY <3>2, PageIsFirst DEF Page
      <4> QED BY <4>1, <4>2
    <3>4. Cardinality(Page(ids, n)) = n /\ Rank(ids, u) = n
      BY <1>3, <2>3, <3>3 DEF Rank
    <3>5. Page(ids, n + 1) = Page(ids, n) \cup {u}
      <4>1. u \in Page(ids, n + 1)
        BY <3>4 DEF Page
      <4>2. ASSUME NEW v \in ids, v \notin Page(ids, n), v # u PROVE v \notin Page(ids, n + 1)
        <5>1. u < v
          BY <3>1, <3>2, <4>2
        <5>2. n < Rank(ids, v) /\ Rank(ids, v) \in Nat
          BY <3>2, <3>4, <5>1, RankOrders, RankIsNumber
        <5> QED BY <5>2 DEF Page
      <4> QED BY <2>1, <4>1, <4>2
    <3>6. Cardinality(Page(ids, n + 1)) = n + 1
      BY <1>1, <3>2, <3>4, <3>5, FS_AddElement
    <3> QED BY <3>6
  <2> QED BY <2>2, <2>3
<1>4. Bad = {}
  <2> SUFFICES ASSUME Bad # {} PROVE FALSE
    OBVIOUS
  <2>1. PICK m \in Bad : \A n \in Bad : m <= n
    <3>1. Bad \in SUBSET Nat
      OBVIOUS
    <3> HIDE DEF Bad
    <3> QED BY <3>1, LeastNumber
  <2> HIDE DEF Good
  <2>2. m \in Nat /\ ~Good(m) /\ m # 0
    BY <1>2, <2>1
  <2>3. m - 1 \in Nat /\ ~(m - 1 \in Bad)
    BY <2>1, <2>2
  <2>4. Good(m - 1)
    BY <2>3
  <2> QED BY <1>3, <2>2, <2>3, <2>4
<1> QED BY <1>1, <1>4

-----------------------------------------------------------------------------
(* The monthly pass *)

\* Who is still to be granted in the batch, and who has been reached.
Due == {target.id : target \in batch}
Steps == 1..Len(reached)
Reached(u) == \E i \in Steps : reached[i].id = u

GrantTypes ==
    /\ granted \in [Months -> [UserIds -> {0, 1}]]
    /\ enabled \subseteq UserIds /\ steady \subseteq enabled /\ Due \subseteq UserIds
    /\ pass # "idle" => month \in Months
    /\ afterID \in Nat /\ batches \in Nat
    /\ reached \in Seq([id : UserIds, how : {"granted", "skipped", "failed"}])

\* Users are met in the order of their ids; who was granted has the entry.
MetInOrder ==
    /\ \A i, j \in Steps : i < j => reached[i].id < reached[j].id
    /\ \A i \in Steps : reached[i].id <= afterID
    /\ \A target, other \in batch : target.id = other.id => target = other
    /\ \A u \in Due : afterID < u
    /\ \A i \in Steps : reached[i].how = "granted" => granted[month][reached[i].id] = 1

\* Nobody is left behind, and who is neither reached nor due comes later. As
\* long as batches are full their size counts who was reached; one below its
\* size holds all who are left.
LastBatch == \A u \in steady : afterID < u => u \in Due
MoreToCome ==
    /\ Len(reached) + Cardinality(Due) = batches * BatchSize
    /\ \A u \in steady, v \in Due : afterID < u /\ u \notin Due => v < u

Covered ==
    /\ pass \in {"query", "batch"} => \A u \in steady : u <= afterID => Reached(u)
    /\ pass = "query" => Len(reached) = batches * BatchSize
    /\ pass = "batch" => /\ Len(reached) + Cardinality(Due) <= batches * BatchSize
                         /\ LastBatch \/ MoreToCome
    /\ pass = "done" /\ batches < MaxBatches => \A u \in steady : Reached(u)

GrantInv == GrantTypes /\ MetInOrder /\ Covered

LEMMA DueIsFinite ==
    ASSUME GrantTypes
    PROVE  IsFiniteSet(Due) /\ Cardinality(Due) \in Nat /\ batches * BatchSize \in Nat
<1>1. Due \subseteq UserIds /\ IsFiniteSet(UserIds) /\ BatchSize \in Nat /\ batches \in Nat
  BY GrantAssumption DEF GrantTypes
<1>2. batches * BatchSize \in Nat
  BY <1>1
<1> QED BY <1>1, <1>2, FS_Subset, FS_CardinalityType

\* One user of the batch is dealt with.
LEMMA ReachStep ==
    ASSUME GrantInv, NEW target \in batch, NEW how \in {"granted", "skipped", "failed"},
           Reach(target, how), granted' \in [Months -> [UserIds -> {0, 1}]],
           \A m \in Months, u \in UserIds : granted[m][u] = 1 => granted'[m][u] = 1,
           how = "granted" => granted'[month][target.id] = 1
    PROVE  GrantInv'
<1> DEFINE u == target.id
           n == Len(reached)
<1>1. /\ u \in Due /\ u \in UserIds /\ u \in Nat /\ afterID < u /\ pass = "batch"
      /\ month \in Months /\ n \in Nat
  <2>1. u \in Due /\ pass = "batch"
    BY DEF Due, Reach
  <2>2. Due \subseteq UserIds /\ (pass # "idle" => month \in Months) /\ \A v \in Due : afterID < v
    BY DEF GrantInv, GrantTypes, MetInOrder
  <2>3. n \in Nat
    BY LenProperties DEF GrantInv, GrantTypes
  <2> HIDE DEF u, n
  <2> QED BY <2>1, <2>2, <2>3, GrantAssumption
<1>2. \A v \in Due : u <= v
  BY DEF Due, Reach
<1>3. /\ reached' = Append(reached, [id |-> u, how |-> how]) /\ afterID' = u
      /\ batch' = batch \ {target}
      /\ UNCHANGED <<enabled, month, batches, steady>>
  BY DEF Reach
<1>4. Due' = Due \ {u}
  BY <1>3 DEF Due, GrantInv, MetInOrder
<1>5. /\ Len(reached') = n + 1 /\ reached'[n + 1] = [id |-> u, how |-> how]
      /\ \A i \in Steps : reached'[i] = reached[i]
      /\ reached' \in Seq([id : UserIds, how : {"granted", "skipped", "failed"}])
  BY <1>1, <1>3 DEF GrantInv, GrantTypes, Steps
<1>6. Steps' = Steps \cup {n + 1} /\ n + 1 \notin Steps /\ Steps = 1..n
  BY <1>1, <1>5 DEF Steps
<1>7. GrantTypes'
  BY <1>1, <1>3, <1>4, <1>5 DEF GrantInv, GrantTypes
<1>8. \A i \in Steps : /\ reached[i].id \in UserIds /\ reached[i].id \in Nat
                       /\ reached[i].id <= afterID /\ reached'[i].id = reached[i].id
  <2>1. \A i \in Steps : reached[i] \in [id : UserIds, how : {"granted", "skipped", "failed"}]
    BY ElementOfSeq DEF GrantInv, GrantTypes, Steps
  <2>2. \A i \in Steps : reached[i].id <= afterID
    BY DEF GrantInv, MetInOrder
  <2> QED BY <1>5, <2>1, <2>2, GrantAssumption
<1>9. MetInOrder'
  <2>1. \A i, j \in Steps' : i < j => reached'[i].id < reached'[j].id
    <3> SUFFICES ASSUME NEW i \in Steps', NEW j \in Steps', i < j
                 PROVE  reached'[i].id < reached'[j].id
      OBVIOUS
    <3>1. i \in Steps
      BY <1>1, <1>6
    <3>2. CASE j \in Steps
      <4>1. reached[i].id < reached[j].id
        BY <3>1, <3>2 DEF GrantInv, MetInOrder
      <4> QED BY <1>8, <3>1, <3>2, <4>1
    <3>3. CASE j = n + 1
      <4>1. reached'[j].id = u /\ reached'[i].id \in Nat /\ reached'[i].id <= afterID
        BY <1>5, <1>8, <3>1, <3>3
      <4>2. afterID \in Nat
        BY GrantAssumption DEF GrantInv, GrantTypes
      <4> HIDE DEF u
      <4> QED BY <1>1, <4>1, <4>2
    <3> QED BY <1>6, <3>2, <3>3
  <2>2. \A i \in Steps' : reached'[i].id <= afterID'
    BY <1>1, <1>3, <1>5, <1>6, <1>8 DEF GrantInv, GrantTypes
  <2>3. \A v \in Due' : afterID' < v
    BY <1>1, <1>2, <1>3, <1>4, GrantAssumption DEF GrantInv, GrantTypes
  <2>4. \A i \in Steps' : reached'[i].how = "granted" => granted'[month'][reached'[i].id] = 1
    BY <1>1, <1>3, <1>5, <1>6, <1>8 DEF GrantInv, MetInOrder
  <2>5. \A s, t \in batch' : s.id = t.id => s = t
    BY <1>3 DEF GrantInv, MetInOrder
  <2> QED BY <2>1, <2>2, <2>3, <2>4, <2>5 DEF MetInOrder
<1>10. Reached(u)' /\ \A v : Reached(v) => Reached(v)'
  BY <1>5, <1>6 DEF Reached
<1>11. /\ Cardinality(Due') = Cardinality(Due) - 1 /\ Cardinality(Due) \in Nat
       /\ batches * BatchSize \in Nat
  BY <1>1, <1>4, DueIsFinite, FS_RemoveElement DEF GrantInv
<1>12. steady \subseteq Nat
  BY GrantAssumption DEF GrantInv, GrantTypes
<1>13. \A v \in steady : v <= u => Reached(v)'
  <2>1. ASSUME NEW v \in steady, v <= u, ~(v <= afterID) PROVE v \in Due
    BY <1>1, <1>12, <2>1 DEF GrantInv, GrantTypes, Covered, LastBatch, MoreToCome
  <2>2. ASSUME NEW v \in steady, v <= u, ~(v <= afterID) PROVE v = u
    BY <1>1, <1>2, <1>12, <2>1, <2>2
  <2> QED BY <1>1, <1>10, <2>2 DEF GrantInv, Covered
<1>14. LastBatch => LastBatch'
  BY <1>1, <1>3, <1>4, <1>12 DEF LastBatch, GrantInv, GrantTypes
<1>15. MoreToCome => MoreToCome'
  BY <1>1, <1>3, <1>4, <1>5, <1>11, <1>12 DEF MoreToCome, GrantInv, GrantTypes
<1>16. Due' = {} <=> batch' = {}
  BY DEF Due
<1>17. pass' = IF batch' # {} THEN "batch"
               ELSE IF n + 1 < batches * BatchSize \/ batches = MaxBatches THEN "done"
               ELSE "query"
  BY <1>3 DEF Reach, AfterTarget
<1>18. n + 1 + Cardinality(Due') <= batches * BatchSize /\ (LastBatch' \/ MoreToCome')
  BY <1>1, <1>11, <1>14, <1>15 DEF GrantInv, Covered
<1>19. Due' = {} => Cardinality(Due') = 0
  BY FS_EmptySet
<1>20. Covered'
  <2>1. CASE batch' # {}
    BY <1>3, <1>5, <1>13, <1>17, <1>18, <2>1 DEF Covered
  <2>2. CASE batch' = {} /\ n + 1 < batches * BatchSize
    <3>1. LastBatch'
      BY <1>1, <1>3, <1>5, <1>16, <1>18, <1>19, <2>2 DEF MoreToCome
    <3>2. \A v \in steady : Reached(v)'
      <4>1. \A v \in steady : ~(u < v)
        BY <1>1, <1>3, <1>16, <2>2, <3>1 DEF LastBatch
      <4> HIDE DEF u
      <4>2. ASSUME NEW v \in steady PROVE v <= u
        <5>1. v \in Nat /\ u \in Nat
          BY <1>1, <1>12
        <5>2. ~(u < v)
          BY <4>1
        <5> QED BY <5>1, <5>2
      <4> QED BY <1>13, <4>2
    <3> QED BY <1>3, <1>17, <2>2, <3>2 DEF Covered
  <2>3. CASE batch' = {} /\ batches = MaxBatches
    BY <1>3, <1>17, <2>2, <2>3, GrantAssumption DEF Covered
  <2>4. CASE batch' = {} /\ ~(n + 1 < batches * BatchSize) /\ batches # MaxBatches
    <3>1. n + 1 = batches * BatchSize /\ pass' = "query"
      BY <1>1, <1>11, <1>16, <1>17, <1>18, <1>19, <2>4
    <3> QED BY <1>3, <1>5, <1>13, <3>1 DEF Covered
  <2> QED BY <2>1, <2>2, <2>3, <2>4
<1> QED BY <1>7, <1>9, <1>20 DEF GrantInv

LEMMA TargetSteps ==
    ASSUME GrantInv, SkipTarget \/ GrantTarget \/ GrantFails PROVE GrantInv'
<1>1. granted \in [Months -> [UserIds -> {0, 1}]]
  BY DEF GrantInv, GrantTypes
<1>2. CASE SkipTarget \/ GrantFails
  <2>1. UNCHANGED granted
    BY <1>2 DEF SkipTarget, GrantFails
  <2>2. PICK target \in batch, how \in {"skipped", "failed"} : Reach(target, how)
    BY <1>2 DEF SkipTarget, GrantFails
  <2> QED BY <1>1, <2>1, <2>2, ReachStep
<1>3. CASE GrantTarget
  <2>1. PICK target \in batch :
          /\ Reach(target, "granted")
          /\ IF granted[month][target.id] > 0 THEN UNCHANGED granted
             ELSE granted' = [granted EXCEPT ![month][target.id] = @ + 1]
    BY <1>3 DEF GrantTarget, Credit
  <2>2. target.id \in UserIds /\ month \in Months
    BY <2>1 DEF Reach, GrantInv, GrantTypes, Due
  <2>3. PICK u : u = target.id
    OBVIOUS
  <2>4. granted[month] \in [UserIds -> {0, 1}] /\ granted[month][u] \in {0, 1}
    BY <1>1, <2>2, <2>3
  <2>5. CASE granted[month][u] = 1
    BY <1>1, <2>1, <2>3, <2>5, ReachStep
  <2>6. CASE granted[month][u] = 0
    <3>1. granted' = [granted EXCEPT ![month] = [granted[month] EXCEPT ![u] = 1]]
      BY <1>1, <2>1, <2>2, <2>3, <2>6
    <3>2. granted' \in [Months -> [UserIds -> {0, 1}]] /\ granted'[month][u] = 1
      BY <1>1, <2>2, <2>3, <2>4, <3>1
    <3>3. \A m \in Months, v \in UserIds : granted[m][v] = 1 => granted'[m][v] = 1
      BY <1>1, <2>2, <2>3, <2>4, <3>1
    <3> QED BY <2>1, <2>3, <3>2, <3>3, ReachStep
  <2> QED BY <2>4, <2>5, <2>6
<1> QED BY <1>2, <1>3

\* The next batch, or the end.
LEMMA QueryStep ==
    ASSUME GrantInv, QueryBatch PROVE GrantInv'
<1> DEFINE ids == {u \in enabled : u > afterID}
           targets == ListGrantTargets(afterID)
<1>1. /\ pass = "query" /\ batch' = {[id |-> u, balance |-> balance[u]] : u \in targets}
      /\ batches' = batches + 1 /\ pass' = IF targets = {} THEN "done" ELSE "batch"
      /\ UNCHANGED <<enabled, granted, month, afterID, steady, reached>>
  BY DEF QueryBatch, ledgerVars
<1>2. targets = Page(ids, BatchSize)
  BY DEF ListGrantTargets, Page, Rank
<1>3. ids \in SUBSET UserIds /\ BatchSize \in Nat /\ BatchSize # 0
  BY GrantAssumption DEF GrantInv, GrantTypes
<1>4. /\ IsFiniteSet(targets) /\ Cardinality(targets) <= BatchSize
      /\ Cardinality(targets) = BatchSize \/ targets = ids
      /\ Cardinality(targets) \in Nat
  <2> HIDE DEF ids, targets
  <2> QED BY <1>2, <1>3, PageIsFull, FS_CardinalityType
<1>5. targets \subseteq ids
  BY <1>2 DEF Page
<1>6. \A v \in targets, u \in ids \ targets : v < u
  <2> HIDE DEF ids, targets
  <2> QED BY <1>2, <1>3, PageIsFirst
<1>7. \A u \in steady : afterID < u => u \in ids
  BY DEF GrantInv, GrantTypes
<1>8. Due' = targets
  <2>1. Due' = {t.id : t \in batch'} /\ batch' = {[id |-> u, balance |-> balance[u]] : u \in targets}
    BY <1>1 DEF Due
  <2> HIDE DEF targets
  <2>2. ASSUME NEW u \in targets PROVE u \in Due'
    <3>1. [id |-> u, balance |-> balance[u]] \in batch'
      BY <2>1
    <3> QED BY <2>1, <3>1
  <2>3. ASSUME NEW v \in Due' PROVE v \in targets
    <3>1. PICK t \in batch' : v = t.id
      BY <2>1
    <3>2. PICK u \in targets : t = [id |-> u, balance |-> balance[u]]
      BY <2>1
    <3> QED BY <3>1, <3>2
  <2> QED BY <2>2, <2>3
<1>9. steady \subseteq Nat /\ afterID \in Nat /\ batches \in Nat
  BY GrantAssumption DEF GrantInv, GrantTypes
<1>10. \A u \in ids : afterID < u
  BY <1>3, <1>9, GrantAssumption
<1>11. Len(reached) = batches * BatchSize /\ \A u \in steady : u <= afterID => Reached(u)
  BY <1>1 DEF GrantInv, Covered
<1>12. (batches + 1) * BatchSize = batches * BatchSize + BatchSize
  BY <1>3, <1>9
<1>13. batches * BatchSize \in Nat
  BY <1>3, <1>9
<1> HIDE DEF ids, targets
<1>14. \A u : Reached(u)' <=> Reached(u)
  BY <1>1 DEF Reached, Steps
<1>15. GrantTypes'
  BY <1>1, <1>3, <1>5, <1>8, <1>9 DEF GrantInv, GrantTypes
<1>16. MetInOrder'
  BY <1>1, <1>5, <1>8, <1>10 DEF GrantInv, MetInOrder, Steps
<1>17. CASE targets = {}
  <2>1. ids = {}
    BY <1>3, <1>4, <1>17, FS_EmptySet
  <2>2. \A u \in steady : Reached(u)
    BY <1>7, <1>9, <1>11, <2>1
  <2> QED BY <1>1, <1>14, <1>15, <1>16, <1>17, <2>2 DEF GrantInv, Covered
<1>18. CASE targets # {}
  <2>1. Len(reached') + Cardinality(Due') <= batches' * BatchSize
    BY <1>1, <1>3, <1>4, <1>8, <1>11, <1>12, <1>13
  <2>2. CASE targets = ids
    <3>1. LastBatch'
      BY <1>1, <1>7, <1>8, <2>2 DEF LastBatch
    <3> QED BY <1>1, <1>11, <1>14, <1>15, <1>16, <1>18, <2>1, <3>1 DEF GrantInv, Covered
  <2>3. CASE Cardinality(targets) = BatchSize
    <3>1. MoreToCome'
      BY <1>1, <1>3, <1>6, <1>7, <1>8, <1>11, <1>12, <2>3 DEF MoreToCome
    <3> QED BY <1>1, <1>11, <1>14, <1>15, <1>16, <1>18, <2>1, <3>1 DEF GrantInv, Covered
  <2> QED BY <1>4, <2>2, <2>3
<1> QED BY <1>17, <1>18

\* A pass begins anew, or is over.
LEMMA FreshStep ==
    ASSUME GrantInv, UNCHANGED <<enabled, granted>>, steady' \in {{}, enabled},
           batch' = {}, reached' = <<>>, afterID' = 0, batches' = 0,
           pass' = "idle" \/ (pass' = "query" /\ month' \in Months)
    PROVE  GrantInv'
<1>1. Due' = {} /\ Steps' = {} /\ Len(reached') = 0
  BY DEF Due, Steps
<1>2. GrantTypes'
  BY <1>1, EmptySeq DEF GrantInv, GrantTypes
<1>3. MetInOrder'
  BY <1>1 DEF MetInOrder
<1>4. \A u \in UserIds : ~(u <= 0)
  BY GrantAssumption
<1>5. Covered'
  <2>1. steady' \subseteq UserIds /\ pass' \in {"idle", "query"} /\ 0 * BatchSize = 0
    <3>1. enabled \subseteq UserIds
      BY DEF GrantInv, GrantTypes
    <3>2. 0 * BatchSize = 0
      BY GrantAssumption
    <3>3. pass' \in {"idle", "query"}
      OBVIOUS
    <3> QED BY <3>1, <3>2, <3>3
  <2>2. \A u \in steady' : ~(u <= afterID')
    BY <1>4, <2>1
  <2>3. Len(reached') = batches' * BatchSize
    BY <1>1, <2>1
  <2> QED BY <2>1, <2>2, <2>3 DEF Covered
<1> QED BY <1>2, <1>3, <1>5 DEF GrantInv

LEMMA UserSteps ==
    ASSUME GrantInv, NEW u \in UserIds, Spend(u) \/ SetUserStatus(u) PROVE GrantInv'
<1>1. /\ UNCHANGED <<granted, passVars, reached>>
      /\ enabled' \subseteq UserIds /\ steady' \subseteq enabled' /\ steady' \subseteq steady
  BY DEF Spend, SetUserStatus, GrantInv, GrantTypes
<1>2. Due' = Due /\ Steps' = Steps
  BY <1>1 DEF Due, Steps, passVars
<1>3. \A v : Reached(v)' <=> Reached(v)
  BY <1>1, <1>2 DEF Reached
<1>4. GrantTypes'
  BY <1>1, <1>2 DEF GrantInv, GrantTypes, passVars
<1>5. MetInOrder'
  BY <1>1, <1>2 DEF GrantInv, MetInOrder, passVars
<1>6. Covered'
  BY <1>1, <1>2, <1>3 DEF GrantInv, Covered, LastBatch, MoreToCome, passVars
<1> QED BY <1>4, <1>5, <1>6 DEF GrantInv

LEMMA GrantUnchanged ==
    ASSUME GrantInv, UNCHANGED grantVars PROVE GrantInv'
<1>1. UNCHANGED <<enabled, granted, pass, month, afterID, batches, batch, steady, reached>>
  BY DEF grantVars, ledgerVars, passVars
<1> QED
  BY <1>1 DEF GrantInv, GrantTypes, MetInOrder, Covered, LastBatch, MoreToCome, Due, Steps, Reached

LEMMA GrantStep == RollupInv /\ GrantInv /\ [Next]_vars => GrantInv'
<1> SUFFICES ASSUME RollupInv, GrantInv, [Next]_vars PROVE GrantInv'
  OBVIOUS
<1>1. ASSUME EndPass, UNCHANGED ledgerVars PROVE GrantInv'
  BY <1>1, FreshStep DEF EndPass, ledgerVars
<1>2. CASE TaskFails \/ Restart
  BY <1>1, <1>2 DEF TaskFails, Restart, StopRound
<1>3. CASE GrantMonthlyCredits
  <2>1. ASSUME NEW how, BeginGrant(MonthOf[today], how) PROVE GrantInv'
    <3>1. MonthOf[today] \in Months
      BY MaintenanceAssumption DEF RollupInv, RollupTypeOK
    <3> QED BY <2>1, <3>1, FreshStep DEF BeginGrant, ledgerVars
  <2> QED BY <1>1, <1>3, <2>1, TargetSteps, QueryStep, GrantUnchanged DEF GrantMonthlyCredits
<1>4. CASE RunOnce \/ RollupUsage \/ PurgeUsageLogs
  BY <1>4, GrantUnchanged DEF RunOnce, RollupUsage, PurgeUsageLogs
<1>5. CASE PurgeAuditLogs \/ PurgeSpendCounters \/ PurgeRecordings
  BY <1>5, GrantUnchanged DEF PurgeAuditLogs, PurgeSpendCounters, PurgeRecordings
<1>6. CASE CheckDepartmentBudgets \/ CheckLowBalances \/ CheckRelayHealth
  BY <1>6, GrantUnchanged DEF CheckDepartmentBudgets, CheckLowBalances, CheckRelayHealth
<1>7. CASE NextDay \/ Traffic
  BY <1>7, GrantUnchanged DEF NextDay, Traffic
<1>8. CASE UserStep
  BY <1>8, UserSteps DEF UserStep
<1>9. UNCHANGED roundVars \/ UNCHANGED vars => UNCHANGED grantVars
  BY DEF roundVars, vars
<1>10. (\E a \in Alerts, k \in Kind : RaiseElsewhere(a, k)) => UNCHANGED grantVars
  BY DEF RaiseElsewhere
<1> QED
  BY <1>2, <1>3, <1>4, <1>5, <1>6, <1>7, <1>8, <1>9, <1>10, GrantUnchanged
  DEF Next, RoundStep, Round

LEMMA GrantBegins == Init => GrantInv
<1> SUFFICES ASSUME Init PROVE GrantInv
  OBVIOUS
<1>1. /\ enabled = UserIds /\ granted = [m \in Months |-> [u \in UserIds |-> 0]]
      /\ pass = "idle" /\ afterID = 0 /\ batches = 0 /\ batch = {} /\ steady = {} /\ reached = <<>>
  BY DEF Init, RoundInit, GrantInit
<1>2. Due = {} /\ Steps = {}
  BY <1>1 DEF Due, Steps
<1>3. GrantTypes
  BY <1>1, <1>2, EmptySeq DEF GrantTypes
<1> QED BY <1>1, <1>2, <1>3 DEF GrantInv, MetInOrder, Covered

LEMMA GrantInvAlways == Spec => []GrantInv
  BY GrantBegins, GrantStep, RollupInvAlways, PTL DEF Spec

\* Nobody has two grants of a month, whatever rounds, batches, failures and
\* restarts came between: the key of month and user (Billing.Grant).
THEOREM GrantedOnce == Spec => []GrantedOncePerMonth
<1>1. GrantInv => GrantedOncePerMonth
  BY DEF GrantInv, GrantTypes, GrantedOncePerMonth
<1> QED BY <1>1, GrantInvAlways, PTL

\* A pass that is done has met every user enabled throughout exactly once,
\* whatever the batches' size, while others were enabled and disabled between
\* its queries (keyset paging, ListGrantTargets).
THEOREM PassesReachEveryone == Spec => []PassReachesEveryone
<1>1. GrantInv => PassReachesEveryone
  <2> SUFFICES ASSUME GrantInv, pass = "done"
               PROVE  /\ batches < MaxBatches =>
                             \A u \in steady : \E i \in DOMAIN reached : reached[i].id = u
                      /\ \A i, j \in DOMAIN reached : reached[i].id = reached[j].id => i = j
                      /\ \A i \in DOMAIN reached :
                             reached[i].how = "granted" => granted[month][reached[i].id] = 1
    BY DEF PassReachesEveryone
  <2>1. DOMAIN reached = Steps /\ Steps \subseteq Nat
    BY LenProperties DEF GrantInv, GrantTypes, Steps
  <2>2. \A i \in Steps : reached[i].id \in Nat
    <3>1. \A i \in Steps : reached[i] \in [id : UserIds, how : {"granted", "skipped", "failed"}]
      BY ElementOfSeq DEF GrantInv, GrantTypes, Steps
    <3> QED BY <3>1, GrantAssumption
  <2>3. \A i, j \in Steps : reached[i].id = reached[j].id => i = j
    <3>1. \A i, j \in Steps : i < j => reached[i].id < reached[j].id
      BY DEF GrantInv, MetInOrder
    <3> SUFFICES ASSUME NEW i \in Steps, NEW j \in Steps, reached[i].id = reached[j].id
                 PROVE  i = j
      OBVIOUS
    <3>2. ~(i < j) /\ ~(j < i)
      BY <2>2, <3>1
    <3> QED BY <2>1, <3>2
  <2> QED BY <2>1, <2>3 DEF GrantInv, MetInOrder, Covered, Reached
<1> QED BY <1>1, GrantInvAlways, PTL

-----------------------------------------------------------------------------
(* The writer of usage logs: where its records are *)

\* Records the worker has taken from the queue.
Taken == writing \cup written \cup unwritten

\* A record is in the queue at most once, and not once it was taken.
RecordPlacesOK ==
    /\ Taken \subseteq Ended /\ Queued \subseteq Ended
    /\ Queued \cap Taken = {}
    /\ \A i, j \in DOMAIN queue : queue[i] = queue[j] => i = j

\* The count, with the worker's hands empty when it ends.
CountOK == Cardinality(Ended) = Len(queue) + Cardinality(Taken) + dropped

\* Only records sent after close can be behind the worker; there are none when
\* shutdown has waited for every request.
FlushOK ==
    /\ worker = "done" => Queued \subseteq late
    /\ server = "flushed" => worker = "done"
    /\ late # {} => closed
    /\ server \in {"closing", "flushing", "flushed"} /\ patient
       => late = {} /\ \A r \in Records : handler[r] \in {"none", "ended"}

WriterInv == WriterTypeOK /\ RecordPlacesOK /\ CountOK /\ FlushOK

-----------------------------------------------------------------------------
(* The writer's types *)

LEMMA InitType == WriterInit => WriterTypeOK
<1> SUFFICES ASSUME WriterInit PROVE WriterTypeOK
  OBVIOUS
<1>1. queue \in Seq(Records) /\ Len(queue) = 0
  BY DEF WriterInit
<1>2. QueueOK
  BY <1>1, WriterAssumption DEF WriterInit, QueueOK
<1>3. WorkerOK /\ ServerOK
  BY DEF WriterInit, WorkerOK, ServerOK, WorkerState, ServerState
<1> QED BY <1>2, <1>3 DEF WriterInit, WriterTypeOK, Stage

LEMMA HandlerType == WriterTypeOK /\ (\E r \in Records : Arrive(r) \/ Handle(r)) => WriterTypeOK'
<1> SUFFICES ASSUME WriterTypeOK, NEW r \in Records, Arrive(r) \/ Handle(r) PROVE WriterTypeOK'
  OBVIOUS
<1> USE WriterAssumption
        DEF WriterTypeOK, QueueOK, WorkerOK, ServerOK, Stage, WorkerState, ServerState, Alive
<1>1. CASE Arrive(r)
  BY <1>1 DEF Arrive, queueVars, workerVars, closeVars
<1>2. CASE ReadClosed(r)
  BY <1>2 DEF ReadClosed, queueVars, workerVars, closeVars
<1>3. CASE Send(r)
  <2>1. CASE Len(queue) < Capacity
    <3>1. queue' = Append(queue, r) /\ queue \in Seq(Records)
      BY <1>3, <2>1 DEF Send
    <3>2. queue' \in Seq(Records) /\ Len(queue') = Len(queue) + 1
      BY <3>1
    <3> QED BY <1>3, <2>1, <3>2 DEF Send, workerVars, closeVars
  <2>2. CASE ~(Len(queue) < Capacity)
    BY <1>3, <2>2 DEF Send, queueVars, workerVars, closeVars
  <2> QED BY <2>1, <2>2
<1> QED BY <1>1, <1>2, <1>3 DEF Handle

LEMMA WorkerType == WriterTypeOK /\ Worker => WriterTypeOK'
<1> SUFFICES ASSUME WriterTypeOK, Worker PROVE WriterTypeOK'
  OBVIOUS
<1> USE DEF WriterTypeOK, QueueOK, WorkerOK, ServerOK, Stage, WorkerState, ServerState, Alive
<1>1. CASE Take
  <2>1. queue \in Seq(Records) /\ queue # <<>>
    BY <1>1 DEF Take
  <2>2. /\ Head(queue) \in Records /\ Tail(queue) \in Seq(Records)
        /\ Len(Tail(queue)) = Len(queue) - 1 /\ Len(queue) \in Nat
    BY <2>1
  <2> QED BY <1>1, <2>2, WriterAssumption DEF Take, closeVars
<1>2. CASE Write
  BY <1>2 DEF Write, queueVars, closeVars
<1>3. CASE SeeStop
  BY <1>3 DEF SeeStop, queueVars, closeVars
<1>4. CASE WorkerEnds
  BY <1>4 DEF WorkerEnds, queueVars, closeVars
<1> QED BY <1>1, <1>2, <1>3, <1>4 DEF Worker

LEMMA ServerType ==
    WriterTypeOK /\ (BeginShutdown \/ ListenFails \/ Stop \/ FlushTimesOut \/ WatchDrops)
    => WriterTypeOK'
<1> USE DEF WriterTypeOK, QueueOK, WorkerOK, ServerOK, Stage, WorkerState, ServerState, Alive,
            queueVars, workerVars, closeVars
<1>1. WriterTypeOK /\ (BeginShutdown \/ ListenFails) => WriterTypeOK'
  BY DEF BeginShutdown, ListenFails
<1>2. WriterTypeOK /\ ShutdownReturns => WriterTypeOK'
  BY DEF ShutdownReturns
<1>3. WriterTypeOK /\ (SetClosed \/ CloseStopCh) => WriterTypeOK'
  BY DEF SetClosed, CloseStopCh
<1>4. WriterTypeOK /\ (Flushed \/ FlushTimesOut \/ WatchDrops) => WriterTypeOK'
  BY DEF Flushed, FlushTimesOut, WatchDrops
<1> QED BY <1>1, <1>2, <1>3, <1>4 DEF Stop

LEMMA TypeStep == WriterTypeOK /\ [WriterNext]_writerVars => WriterTypeOK'
<1>1. WriterTypeOK /\ UNCHANGED writerVars => WriterTypeOK'
  BY DEF writerVars, queueVars, workerVars, closeVars, WriterTypeOK, QueueOK, WorkerOK, ServerOK
<1> QED BY <1>1, HandlerType, WorkerType, ServerType DEF WriterNext

-----------------------------------------------------------------------------
(* Where records are, and how many *)

\* A record is counted once, when its handler ends.
LEMMA EndedFinite == WriterTypeOK => IsFiniteSet(Ended) /\ IsFiniteSet(Taken)
  BY WriterAssumption, FS_Subset DEF WriterTypeOK, WorkerOK, Ended, Taken

LEMMA OneMoreEnded ==
    ASSUME WriterTypeOK, NEW r \in Records, handler[r] # "ended",
           handler' = [handler EXCEPT ![r] = "ended"]
    PROVE  Ended' = Ended \cup {r} /\ r \notin Ended
           /\ Cardinality(Ended') = Cardinality(Ended) + 1
<1>1. Ended' = Ended \cup {r} /\ r \notin Ended
  BY DEF WriterTypeOK, Ended
<1> QED BY <1>1, EndedFinite, FS_AddElement

LEMMA PlacesInit == WriterInit => RecordPlacesOK /\ CountOK /\ FlushOK
<1> SUFFICES ASSUME WriterInit PROVE RecordPlacesOK /\ CountOK /\ FlushOK
  OBVIOUS
<1>1. Ended = {} /\ Taken = {} /\ Queued = {} /\ DOMAIN queue = {} /\ Len(queue) = 0
  BY DEF WriterInit, Ended, Taken, Queued
<1>2. Cardinality({}) = 0
  BY FS_EmptySet
<1> QED BY <1>1, <1>2 DEF WriterInit, RecordPlacesOK, CountOK, FlushOK

LEMMA SendPlaces ==
    ASSUME WriterInv, NEW r \in Records, Send(r) PROVE RecordPlacesOK' /\ CountOK' /\ FlushOK'
<1>1. /\ Ended' = Ended \cup {r} /\ r \notin Ended
      /\ Cardinality(Ended') = Cardinality(Ended) + 1
  BY OneMoreEnded DEF WriterInv, Send
<1>2. Taken' = Taken
  BY DEF Send, workerVars, Taken
<1>3. Cardinality(Ended) \in Nat /\ Cardinality(Taken) \in Nat /\ dropped \in Nat
      /\ Len(queue) \in Nat /\ queue \in Seq(Records)
  BY EndedFinite, FS_CardinalityType DEF WriterInv, WriterTypeOK, QueueOK
<1>4. CASE Len(queue) < Capacity
  <2>1. /\ queue' = Append(queue, r) /\ dropped' = dropped
        /\ late' = IF closed THEN late \cup {r} ELSE late
    BY <1>4 DEF Send
  <2>2. /\ Len(queue') = Len(queue) + 1
        /\ DOMAIN queue = 1..Len(queue) /\ DOMAIN queue' = 1..(Len(queue) + 1)
        /\ \A i \in DOMAIN queue : queue'[i] = queue[i]
        /\ queue'[Len(queue) + 1] = r
    BY <1>3, <2>1
  <2>3. Queued' = Queued \cup {r}
    <3>1. Queued' \subseteq Queued \cup {r}
      BY <1>3, <2>2 DEF Queued
    <3>2. Queued \cup {r} \subseteq Queued'
      BY <1>3, <2>2 DEF Queued
    <3> QED BY <3>1, <3>2
  <2>4. RecordPlacesOK'
    <3>1. r \notin Queued /\ r \notin Taken
      BY <1>1 DEF WriterInv, RecordPlacesOK
    <3>2. \A i, j \in DOMAIN queue' : queue'[i] = queue'[j] => i = j
      BY <1>3, <2>2, <3>1 DEF WriterInv, RecordPlacesOK, Queued
    <3> QED BY <1>1, <1>2, <2>3, <3>1, <3>2 DEF WriterInv, RecordPlacesOK
  <2>5. CountOK'
    BY <1>1, <1>2, <1>3, <2>1, <2>2 DEF WriterInv, CountOK
  <2>6. FlushOK'
    BY <2>1, <2>3 DEF WriterInv, WriterTypeOK, ServerOK, WorkerOK, FlushOK, Send, workerVars,
                       closeVars, WorkerState, Alive
  <2> QED BY <2>4, <2>5, <2>6
<1>5. CASE ~(Len(queue) < Capacity)
  <2>1. dropped' = dropped + 1 /\ UNCHANGED queueVars
    BY <1>5 DEF Send
  <2>2. Queued' = Queued /\ queue' = queue
    BY <2>1 DEF queueVars, Queued
  <2>3. RecordPlacesOK' /\ CountOK'
    BY <1>1, <1>2, <1>3, <2>1, <2>2 DEF WriterInv, RecordPlacesOK, CountOK
  <2>4. FlushOK'
    BY <2>1, <2>2 DEF WriterInv, WriterTypeOK, FlushOK, Send, queueVars, workerVars, closeVars
  <2> QED BY <2>3, <2>4
<1> QED BY <1>4, <1>5

LEMMA HandlerPlaces ==
    ASSUME WriterInv, NEW r \in Records, Arrive(r) \/ ReadClosed(r)
    PROVE  RecordPlacesOK' /\ CountOK' /\ FlushOK'
<1>1. /\ Taken' = Taken /\ Queued' = Queued /\ queue' = queue /\ late' = late
      /\ worker' = worker /\ server' = server /\ closed' = closed /\ patient' = patient
  BY DEF Arrive, ReadClosed, queueVars, workerVars, closeVars, Taken, Queued
<1>2. Cardinality(Ended) \in Nat /\ Cardinality(Taken) \in Nat /\ dropped \in Nat
      /\ Len(queue) \in Nat
  BY EndedFinite, FS_CardinalityType DEF WriterInv, WriterTypeOK, QueueOK
<1>3. CASE handler' = [handler EXCEPT ![r] = "ended"] /\ handler[r] # "ended"
  <2>1. /\ Ended' = Ended \cup {r} /\ r \notin Ended
        /\ Cardinality(Ended') = Cardinality(Ended) + 1
    BY <1>3, OneMoreEnded DEF WriterInv
  <2>2. dropped' = dropped + 1
    BY <1>3 DEF Arrive, ReadClosed, WriterInv, WriterTypeOK, Stage
  <2> QED BY <1>1, <1>2, <1>3, <2>1, <2>2
         DEF WriterInv, RecordPlacesOK, CountOK, FlushOK, WriterTypeOK
<1>4. CASE ~(handler' = [handler EXCEPT ![r] = "ended"] /\ handler[r] # "ended")
  <2>1. /\ Ended' = Ended /\ dropped' = dropped
        /\ server = "serving" \/ handler[r] = "running"
    BY <1>4 DEF Arrive, ReadClosed, WriterInv, WriterTypeOK, Stage, Ended
  <2> QED BY <1>1, <1>2, <2>1 DEF WriterInv, RecordPlacesOK, CountOK, FlushOK, WriterTypeOK
<1> QED BY <1>3, <1>4

LEMMA TakePlaces == ASSUME WriterInv, Take PROVE RecordPlacesOK' /\ CountOK' /\ FlushOK'
<1>1. queue \in Seq(Records) /\ queue # <<>> /\ writing = {} /\ worker # "done"
  BY DEF WriterInv, WriterTypeOK, QueueOK, Take
<1>2. PICK r : r = Head(queue)
  OBVIOUS
<1>3. /\ Len(queue) \in Nat \ {0} /\ DOMAIN queue = 1..Len(queue) /\ r = queue[1]
      /\ queue' = Tail(queue) /\ Len(queue') = Len(queue) - 1
      /\ DOMAIN queue' = 1..(Len(queue) - 1)
      /\ \A i \in 1..(Len(queue) - 1) : queue'[i] = queue[i + 1]
  BY <1>1, <1>2 DEF Take
<1>4. r \in Queued /\ Queued' \subseteq Queued /\ r \notin Queued'
  <2>1. r \in Queued
    BY <1>3 DEF Queued
  <2>2. Queued' \subseteq Queued
    BY <1>3 DEF Queued
  <2>3. \A i \in 1..(Len(queue) - 1) : queue[i + 1] # queue[1]
    BY <1>3 DEF WriterInv, RecordPlacesOK
  <2> QED BY <1>3, <2>1, <2>2, <2>3 DEF Queued
<1>5. Taken' = Taken \cup {r} /\ Ended' = Ended /\ r \notin Taken
  BY <1>1, <1>2, <1>4 DEF Take, Taken, Ended, WriterInv, RecordPlacesOK
<1>6. Cardinality(Taken') = Cardinality(Taken) + 1
  BY <1>5, EndedFinite, FS_AddElement DEF WriterInv
<1>7. RecordPlacesOK'
  <2>1. \A i, j \in DOMAIN queue' : queue'[i] = queue'[j] => i = j
    BY <1>3 DEF WriterInv, RecordPlacesOK
  <2> QED BY <1>4, <1>5, <2>1 DEF WriterInv, RecordPlacesOK
<1>8. CountOK'
  <2>1. Cardinality(Taken) \in Nat /\ dropped \in Nat /\ dropped' = dropped
    BY EndedFinite, FS_CardinalityType DEF WriterInv, WriterTypeOK, Take
  <2> QED BY <1>3, <1>5, <1>6, <2>1 DEF WriterInv, CountOK
<1>9. FlushOK'
  BY <1>1 DEF Take, WriterInv, FlushOK, closeVars
<1> QED BY <1>7, <1>8, <1>9

\* The remaining steps move no record.
LEMMA OtherPlaces ==
    ASSUME WriterInv,
           \/ Write \/ SeeStop \/ WorkerEnds \/ BeginShutdown \/ ListenFails \/ Stop
           \/ FlushTimesOut \/ WatchDrops \/ UNCHANGED writerVars
    PROVE  RecordPlacesOK' /\ CountOK' /\ FlushOK'
<1>1. Taken' = Taken /\ queue' = queue /\ Ended' = Ended /\ dropped' = dropped
      /\ Queued' = Queued /\ late' = late /\ handler' = handler
  BY DEF Write, SeeStop, WorkerEnds, BeginShutdown, ListenFails, Stop, ShutdownReturns,
         SetClosed, CloseStopCh, Flushed, FlushTimesOut, WatchDrops, writerVars, queueVars,
         workerVars, closeVars, Taken, Ended, Queued
<1>2. RecordPlacesOK' /\ CountOK'
  BY <1>1 DEF WriterInv, RecordPlacesOK, CountOK
<1>3. FlushOK'
  <2> USE <1>1 DEF WriterInv, FlushOK, WriterTypeOK, ServerOK, Queued
  <2>1. CASE WorkerEnds
    BY <2>1 DEF WorkerEnds, closeVars
  <2>2. CASE Write \/ SeeStop \/ WatchDrops \/ UNCHANGED writerVars
    BY <2>2 DEF Write, SeeStop, WatchDrops, writerVars, workerVars, closeVars, queueVars
  <2>3. CASE ShutdownReturns
    BY <2>3 DEF ShutdownReturns, workerVars
  <2>4. CASE SetClosed \/ CloseStopCh \/ Flushed
    BY <2>4 DEF SetClosed, CloseStopCh, Flushed, workerVars
  <2>5. CASE BeginShutdown \/ ListenFails \/ FlushTimesOut
    BY <2>5 DEF BeginShutdown, ListenFails, FlushTimesOut, workerVars
  <2> QED BY <2>1, <2>2, <2>3, <2>4, <2>5 DEF Stop
<1> QED BY <1>2, <1>3

LEMMA InvStep == WriterInv /\ [WriterNext]_writerVars => WriterInv'
<1> SUFFICES ASSUME WriterInv, [WriterNext]_writerVars PROVE WriterInv'
  OBVIOUS
<1>1. WriterTypeOK'
  BY TypeStep DEF WriterInv
<1>2. ASSUME NEW r \in Records, Arrive(r) \/ Handle(r)
      PROVE  RecordPlacesOK' /\ CountOK' /\ FlushOK'
  BY <1>2, SendPlaces, HandlerPlaces DEF Handle
<1>3. CASE Take
  BY <1>3, TakePlaces, <1>1 DEF WriterInv
<1> QED BY <1>1, <1>2, <1>3, OtherPlaces DEF WriterInv, WriterNext, Worker

\* For every number of records, capacity and interleaving of handlers, worker
\* and shutdown.
THEOREM WriterCorrect == WriterSpec => []WriterInv
<1>1. WriterInit => WriterInv
  BY InitType, PlacesInit DEF WriterInv
<1> QED BY <1>1, InvStep, PTL DEF WriterSpec

\* finishLog's record is never lost without a trace while the process lives.
THEOREM RecordsAccountedFor == WriterSpec => []RecordsAccounted
<1>1. WriterInv => RecordsAccounted
  BY DEF WriterInv, CountOK, RecordsAccounted, Taken
<1> QED BY <1>1, WriterCorrect, PTL

\* close flushes what enqueue accepted before it.
THEOREM FlushKeepsAccepted == WriterSpec => []AcceptedAreFlushed
<1>1. WriterInv => AcceptedAreFlushed
  BY DEF WriterInv, FlushOK, AcceptedAreFlushed
<1> QED BY <1>1, WriterCorrect, PTL

\* serve's shutdown, when srv.Shutdown has waited and the flush has ended.
THEOREM OrderlyStopComplete == WriterSpec => []OrderlyStopLosesNothing
<1>1. WriterInv => OrderlyStopLosesNothing
  <2> SUFFICES ASSUME WriterInv, server = "flushed", patient
               PROVE  Cardinality(Ended) = Cardinality(written \cup unwritten) + dropped
    BY DEF OrderlyStopLosesNothing
  <2>1. worker = "done" /\ late = {} /\ Queued = {} /\ writing = {}
    BY DEF WriterInv, FlushOK, WriterTypeOK, WorkerOK
  <2>2. queue \in Seq(Records) /\ DOMAIN queue = {}
    BY <2>1 DEF WriterInv, WriterTypeOK, QueueOK, Queued
  <2>3. Len(queue) = 0
    BY <2>2
  <2>4. Taken = written \cup unwritten
    BY <2>1 DEF Taken
  <2>5. Cardinality(Taken) \in Nat /\ dropped \in Nat
    BY EndedFinite, FS_CardinalityType DEF WriterInv, WriterTypeOK
  <2> QED BY <2>3, <2>4, <2>5 DEF WriterInv, CountOK
<1> QED BY <1>1, WriterCorrect, PTL
=============================================================================
