---------------------------- MODULE AlertDelivery ----------------------------
(***************************************************************************)
(* Alerts from the call of Raise or RaiseSync to the end of their delivery.*)
(* An alert is checked against the suppression window, inserted, offered   *)
(* to every configured channel, and retried with backoff until a channel   *)
(* takes it or the retries are used up. Each Raise has a goroutine of its  *)
(* own; nothing orders two alerts of one key.                              *)
(*                                                                         *)
(* The window is read before the row is inserted, and a channel answers    *)
(* before the row says so: these are separate steps here.                  *)
(***************************************************************************)
EXTENDS Faults, FiniteSets

CONSTANTS
    Alerts,         \* calls of Raise and RaiseSync, numbered
    KeyOf,          \* DedupKey of an alert
    NoKey,          \* the empty DedupKey of a channel test
    WindowOf,       \* its window: SuppressFor, else alert_dedup_window_sec
    Retries,        \* len(retryBackoffs)
    Editable,       \* settings an administrator changes meanwhile
    MaxTime         \* bound on the clock

ASSUME AlertAssumption ==
    /\ Alerts \subseteq Nat
    /\ Retries \in Nat /\ MaxTime \in Nat
    /\ WindowOf \in [Alerts -> Nat]
    /\ Editable \subseteq {"webhook_url", "smtp_host", "email_to"}

VARIABLES
    now,
    config,         \* what is configured of the channels
    row,            \* alert_events: status, created_at and attempts
    kind,           \* how it was raised
    pc,             \* where the goroutine of an alert is
    checked,        \* when it looked for a recent delivery
    recent,         \* what it found
    attempt,        \* deliverWithRetry's counter
    result,         \* how the last attempt ended
    took            \* channels that reported success, over all attempts

local == <<kind, pc, checked, recent, attempt, result>>
alertVars == <<now, config, row, local, took>>

\* Raise to the administrators, Raise with EmailTo, RaiseSync.
Kind == {"raise", "directed", "sync"}
Settings == {"webhook_url", "smtp_host", "email_to"}
Channels == {"webhook", "email"}
Status == {"none", "pending", "sent", "failed", "dead_letter", "suppressed"}
Running == {"check", "insert", "attempt", "record", "backoff"}
Result == {"none", "sent", "unconfigured", "failed"}

-----------------------------------------------------------------------------
(* Configuration and store *)

\* Config's channels: a directed alert goes by mail to its own address only.
ConfiguredFor(a) ==
    {c \in Channels :
        CASE c = "webhook" -> kind[a] # "directed" /\ "webhook_url" \in config
          [] c = "email" -> /\ "smtp_host" \in config
                            /\ kind[a] = "directed" \/ "email_to" \in config}

\* Mutant: every event of the key counts, delivered or not.
RecentlyRaised(a, since) ==
    \E b \in Alerts : /\ KeyOf[b] = KeyOf[a]
                      /\ row[b].status # "none" /\ row[b].created >= since

RecentlyDelivered(a, since) ==
    \E b \in Alerts : /\ KeyOf[b] = KeyOf[a]
                      /\ row[b].status = "sent" /\ row[b].created >= since

\* UpdateFields on the row of an alert: nothing but the outcome may change.
UpdateFields(a, status, n) ==
    row' = [row EXCEPT ![a].status = status, ![a].attempts = n]

-----------------------------------------------------------------------------
(* createEvent *)

Raise(a, k) ==
    /\ pc[a] = "none"
    /\ kind' = [kind EXCEPT ![a] = k]
    /\ pc' = [pc EXCEPT ![a] = "check"]
    /\ UNCHANGED <<now, config, row, checked, recent, attempt, result, took, faults>>

\* A failed query does not suppress.
CheckWindow(a) ==
    /\ pc[a] = "check"
    /\ checked' = [checked EXCEPT ![a] = now]
    /\ \/ /\ recent' = [recent EXCEPT ![a] =
                /\ WindowOf[a] > 0 /\ KeyOf[a] # NoKey
                /\ RecentlyDelivered(a, now - WindowOf[a])]
          /\ UNCHANGED faults
       \/ /\ WindowOf[a] > 0 /\ KeyOf[a] # NoKey
          /\ recent' = [recent EXCEPT ![a] = FALSE] /\ Fault
    /\ pc' = [pc EXCEPT ![a] = "insert"]
    /\ UNCHANGED <<now, config, kind, row, attempt, result, took>>

Insert(a) ==
    /\ pc[a] = "insert"
    /\ row' = [row EXCEPT ![a] = [status |-> IF recent[a] THEN "suppressed" ELSE "pending",
                                  created |-> now, attempts |-> 0]]
    /\ pc' = [pc EXCEPT ![a] = IF recent[a] THEN "end" ELSE "attempt"]
    /\ UNCHANGED <<now, config, kind, checked, recent, attempt, result, took, faults>>

InsertFails(a) ==
    /\ pc[a] = "insert" /\ Fault
    /\ pc' = [pc EXCEPT ![a] = "end"]
    /\ UNCHANGED <<now, config, kind, row, checked, recent, attempt, result, took>>

-----------------------------------------------------------------------------
(* deliverWithRetry *)

\* sendWebhook succeeds on a 2xx answer without a platform error code,
\* sendEmail when the server accepts the message.
Attempt(a) ==
    /\ pc[a] = "attempt"
    /\ \E ok \in SUBSET ConfiguredFor(a) :
        /\ took' = [took EXCEPT ![a] = @ \cup ok]
        /\ result' = [result EXCEPT ![a] =
              IF ok # {} THEN "sent"
              ELSE IF ConfiguredFor(a) = {} THEN "unconfigured" ELSE "failed"]
    /\ attempt' = [attempt EXCEPT ![a] = @ + 1]
    /\ pc' = [pc EXCEPT ![a] = "record"]
    /\ UNCHANGED <<now, config, kind, row, checked, recent, faults>>

NextRetry(n) == n >= 1 /\ n <= Retries

Retried(a) == result[a] = "failed" /\ kind[a] # "sync" /\ NextRetry(attempt[a])

Outcome(a) ==
    CASE result[a] = "sent" -> "sent"
      [] result[a] = "failed" /\ kind[a] # "sync" /\ ~NextRetry(attempt[a]) -> "dead_letter"
      [] OTHER -> "failed"

\* Mutant: an attempt that reached no channel is recorded as sent.
RecordAttemptAsSent(a) ==
    /\ pc[a] = "record"
    /\ UpdateFields(a, IF result[a] = "unconfigured" THEN "sent" ELSE Outcome(a), attempt[a])
    /\ pc' = [pc EXCEPT ![a] = IF Retried(a) THEN "backoff" ELSE "end"]
    /\ UNCHANGED <<now, config, kind, checked, recent, attempt, result, took, faults>>

\* persistOutcome, or finishDelivery of a synchronous alert.
Record(a) ==
    /\ pc[a] = "record"
    /\ UpdateFields(a, Outcome(a), attempt[a])
    /\ pc' = [pc EXCEPT ![a] = IF Retried(a) THEN "backoff" ELSE "end"]
    /\ UNCHANGED <<now, config, kind, checked, recent, attempt, result, took, faults>>

\* The write of the outcome fails: it is logged, the delivery goes on.
RecordFails(a) ==
    /\ pc[a] = "record" /\ Fault
    /\ pc' = [pc EXCEPT ![a] = IF Retried(a) THEN "backoff" ELSE "end"]
    /\ UNCHANGED <<now, config, kind, row, checked, recent, attempt, result, took>>

\* Mutant: a timer that fires while nothing is configured is set again.
WakeWhenConfigured(a) ==
    /\ pc[a] = "backoff" /\ ConfiguredFor(a) # {}
    /\ pc' = [pc EXCEPT ![a] = "attempt"]
    /\ UNCHANGED <<now, config, kind, row, checked, recent, attempt, result, took, faults>>

Wake(a) ==
    /\ pc[a] = "backoff"
    /\ pc' = [pc EXCEPT ![a] = "attempt"]
    /\ UNCHANGED <<now, config, kind, row, checked, recent, attempt, result, took, faults>>

-----------------------------------------------------------------------------
(* Environment *)

\* The process ends; the new one does not read alert_events.
StopDeliveries ==
    /\ pc' = [a \in Alerts |-> IF pc[a] \in Running THEN "end" ELSE pc[a]]
    /\ UNCHANGED <<now, config, kind, row, checked, recent, attempt, result, took>>

\* An administrator changes a setting; every attempt loads it anew.
Configure(s) ==
    /\ s \in Editable
    /\ config' = IF s \in config THEN config \ {s} ELSE config \cup {s}
    /\ UNCHANGED <<now, row, local, took, faults>>

Tick ==
    /\ now < MaxTime
    /\ now' = now + 1
    /\ UNCHANGED <<config, row, local, took, faults>>

-----------------------------------------------------------------------------
AlertInit ==
    /\ now = 0
    /\ config \in {Editable, Settings}
    /\ row = [a \in Alerts |-> [status |-> "none", created |-> 0, attempts |-> 0]]
    /\ kind = [a \in Alerts |-> "raise"]
    /\ pc = [a \in Alerts |-> "none"]
    /\ checked = [a \in Alerts |-> 0] /\ recent = [a \in Alerts |-> FALSE]
    /\ attempt = [a \in Alerts |-> 0] /\ result = [a \in Alerts |-> "none"]
    /\ took = [a \in Alerts |-> {}]

\* The steps of an alert's own goroutine.
Deliver(a) ==
    CheckWindow(a) \/ Insert(a) \/ InsertFails(a) \/ Attempt(a) \/ Record(a)
        \/ RecordFails(a) \/ Wake(a)

AlertNext ==
    \/ \E a \in Alerts : Deliver(a) \/ \E k \in Kind : Raise(a, k)
    \/ Fault /\ StopDeliveries
    \/ Tick \/ \E s \in Settings : Configure(s)

AlertSpec == AlertInit /\ faults = 0 /\ [][AlertNext]_<<alertVars, faults>>

-----------------------------------------------------------------------------
(* Properties *)

\* Every variable has the type of the field or local it stands for.
AlertTypeOK ==
    /\ now \in 0..MaxTime /\ config \subseteq Settings
    /\ row \in [Alerts -> [status : Status, created : 0..MaxTime, attempts : 0..Retries + 1]]
    /\ kind \in [Alerts -> Kind]
    /\ pc \in [Alerts -> Running \cup {"none", "end"}]
    /\ checked \in [Alerts -> 0..MaxTime] /\ recent \in [Alerts -> BOOLEAN]
    /\ attempt \in [Alerts -> 0..Retries + 1] /\ result \in [Alerts -> Result]
    /\ took \in [Alerts -> SUBSET Channels]

\* Only a delivery silences (RecentlyDelivered): an alert is suppressed when
\* another of its key reached a channel and was created inside the window the
\* alert looked at. An outage, a lost write, a restart or another suppressed
\* alert never silences one.
SuppressedOnlyAfterDelivery ==
    \A a \in Alerts : row[a].status = "suppressed" =>
        \E b \in Alerts \ {a} : /\ KeyOf[b] = KeyOf[a] /\ took[b] # {}
                                /\ row[b].created >= checked[a] - WindowOf[a]

\* What alert_events says of an alert is what happened to it, whatever write
\* was lost: sent means a channel took it, dead_letter that every attempt was
\* made and none succeeded, and an alert a channel took is retried no more.
OutcomeTruthful ==
    \A a \in Alerts :
        /\ row[a].status = "sent" => took[a] # {}
        /\ row[a].status = "dead_letter" => took[a] = {} /\ attempt[a] = Retries + 1
        /\ pc[a] \in {"attempt", "backoff"} => took[a] = {}
        /\ pc[a] = "end" /\ took[a] # {} => row[a].status = "sent" \/ faults > 0

\* Every alert's delivery ends, whatever the channels answer and however the
\* configuration changes while it waits.
EveryDeliveryEnds == \A a \in Alerts : pc[a] = "check" ~> pc[a] = "end"
=============================================================================
