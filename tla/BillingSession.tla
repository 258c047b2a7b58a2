--------------------------- MODULE BillingSession ---------------------------
(***************************************************************************)
(* The life of a relayed request's credits: relay.BillingSession and the   *)
(* handlers that drive it, the orphan cleanup of internal/billing that     *)
(* gives back what a lost session left held, and the asynchronous usage    *)
(* log that reports to users what was charged.                             *)
(*                                                                         *)
(* Sessions, cleaners and the log writer share nothing but the database:   *)
(* a step is one transaction or one statement, and every step in between   *)
(* is another process's. A write may commit without its caller learning of *)
(* it, may not commit at all, and the process may die between two writes.  *)
(*                                                                         *)
(* Time is the wall clock in ticks. A tick cannot pass a deadline that     *)
(* a running handler is bound by (UPSTREAM_TIMEOUT, BackgroundWriteTimeout)*)
(* before that handler has acted on it.                                    *)
(***************************************************************************)
EXTENDS Ledger

CONSTANTS
    PrechargeAmounts,   \* estimates of handleChat; 0 for a free model
    FinalAmounts,       \* what the measured usage costs
    UpstreamTimeout,    \* TZL_UPSTREAM_TIMEOUT_SEC
    SettleWindow,       \* relay.BackgroundWriteTimeout
    Cleaners,           \* startup, scheduler and cleanup-precharge runs
    ThresholdOf,        \* the olderThan each of them is called with
    SlowReaders,        \* requests whose client stops reading the stream
    Retries,            \* requests whose client sends the same id again
    LogQueueSize,       \* usageLogQueueSize
    LastArrival,        \* bound: no precharge after this tick
    MaxFaults           \* bound on failed writes and crashes

ASSUME SessionAssumption ==
    /\ PrechargeAmounts \subseteq Nat /\ FinalAmounts \subseteq Nat
    /\ UpstreamTimeout \in Nat \ {0} /\ SettleWindow \in Nat
    /\ ThresholdOf \in [Cleaners -> Nat \ {0}]
    /\ SlowReaders \subseteq Requests /\ Retries \subseteq Requests
    /\ LogQueueSize \in Nat /\ LastArrival \in Nat /\ MaxFaults \in Nat

\* checkOrphanTimeoutGuard, which serve evaluates before it starts.
TimeoutGuard ==
    \A c \in Cleaners : UpstreamTimeout + SettleWindow < ThresholdOf[c]

VARIABLES
    pc,         \* where the handler of a request is
    state,      \* BillingSession.state
    precharged, \* BillingSession.precharged
    final,      \* the credits last handed to Settle
    deadline,   \* of upCtx while "upstream", of detachedWriteCtx while "settling"
    batch,      \* ledger positions a cleaner has scanned and not yet handled
    logQueue,   \* usageLogWriter.queue
    logs,       \* usage_logs by request_id
    faults      \* faults so far

sessionVars == <<pc, state, precharged, final, deadline>>
logVars == <<logQueue, logs>>
vars == <<ledgerVars, sessionVars, batch, logVars, faults>>

Handler == {"idle", "admitted", "upstream", "stalled", "settling", "final", "ended"}
SessionState == {"Init", "Precharged", "Settled", "Refunded", "SettleFailed"}
UsageStatus == {"settled", "refunded", "failed"}

\* Entry types that end a hold for the orphan scan.
TerminalTypes == {"refund", "settle_adjust"}
Terminated(req) == \E t \in TerminalTypes : Booked(req, t)

Fault == faults < MaxFaults /\ faults' = faults + 1

-----------------------------------------------------------------------------
(* Writes *)

\* A write of Service.Apply that its caller sees succeed.
Acknowledged(adj) == ApplyOnce(adj) /\ UNCHANGED faults

\* One that returns an error: the commit happened unseen, or did not happen.
Failed(adj) == Fault /\ (ApplyOnce(adj) \/ UNCHANGED tables)

\* finishLog: a non-blocking send that drops the record when the queue is full.
FinishLog(r, status, charged) ==
    logQueue' = IF Len(logQueue) < LogQueueSize
                THEN Append(logQueue, [req |-> r, status |-> status, charged |-> charged])
                ELSE logQueue

-----------------------------------------------------------------------------
(* Precharge *)

\* apiKeyIdentity reads the key row once; nothing re-reads its status.
Authenticate(r) ==
    /\ pc[r] = "idle"
    /\ keyStatus[KeyOf[r]] = "enabled"
    /\ pc' = [pc EXCEPT ![r] = "admitted"]
    /\ UNCHANGED <<ledgerVars, state, precharged, final, deadline, batch, logVars, faults>>

ConsumeAdjustment(r, amount) == UsageAdjustment("consume", r, -amount)

Precharge(r, amount) ==
    /\ pc[r] = "admitted"
    /\ now <= LastArrival
    /\ Admissible(ConsumeAdjustment(r, amount))
    /\ Acknowledged(ConsumeAdjustment(r, amount))
    /\ state' = [state EXCEPT ![r] = "Precharged"]
    /\ precharged' = [precharged EXCEPT ![r] = amount]
    /\ deadline' = [deadline EXCEPT ![r] = now + UpstreamTimeout]
    /\ pc' = [pc EXCEPT ![r] = "upstream"]
    /\ UNCHANGED <<codes, now, final, batch, logVars>>

\* What a refused precharge leaves behind: the depleted mark if the key's own
\* limit refused it, nothing otherwise. The daily pre-check of the handler
\* comes first, refuses without touching the key, and passes if it cannot read.
Refusal(adj) ==
    \/ /\ CreditLimitHit(adj)
       /\ MarkDepleted(adj)
    \/ /\ OverDailyLimit(adj) \/ (~CreditLimitHit(adj) /\ ~Admissible(adj))
       /\ UNCHANGED tables

\* rejectPrecharge: the client gets an error, the log says failed, charged 0.
RejectPrecharge(r, amount) ==
    LET adj == ConsumeAdjustment(r, amount)
    IN  /\ pc[r] = "admitted"
        /\ \/ Refusal(adj) /\ UNCHANGED faults
           \/ Admissible(adj) /\ now <= LastArrival /\ Failed(adj)
        /\ FinishLog(r, "failed", 0)
        /\ pc' = [pc EXCEPT ![r] = "ended"]
        /\ UNCHANGED <<codes, now, state, precharged, final, deadline, batch, logs>>

\* The client sends the same X-Request-Id again: a fresh session, which the
\* unique index refuses if the first one got as far as a precharge.
Resend(r) ==
    /\ r \in Retries
    /\ pc[r] = "ended"
    /\ pc' = [pc EXCEPT ![r] = "idle"]
    /\ state' = [state EXCEPT ![r] = "Init"]
    /\ UNCHANGED <<ledgerVars, precharged, final, deadline, batch, logVars, faults>>

-----------------------------------------------------------------------------
(* Upstream, settlement, refund *)

\* streamResponse writes frames to the client between reads of the upstream.
\* No write deadline bounds that call: a client that stops reading holds the
\* handler there, and upCtx, which only cancels reads, does not end it.
Stall(r) ==
    /\ r \in SlowReaders
    /\ pc[r] = "upstream"
    /\ pc' = [pc EXCEPT ![r] = "stalled"]
    /\ UNCHANGED <<ledgerVars, state, precharged, final, deadline, batch, logVars, faults>>

Answering(r) == pc[r] \in {"upstream", "stalled"}

\* The upstream answered, or its stream broke off after a 200: the usage read
\* so far is priced and Settle opens its detached write context.
BeginSettle(r, amount) ==
    /\ Answering(r)
    /\ pc' = [pc EXCEPT ![r] = "settling"]
    /\ final' = [final EXCEPT ![r] = amount]
    /\ deadline' = [deadline EXCEPT ![r] = now + SettleWindow]
    /\ UNCHANGED <<ledgerVars, state, precharged, batch, logVars, faults>>

\* Mutant: the difference the wrong way round.
ReversedSettleAdjustment(r) ==
    UsageAdjustment("settle_adjust", r, final[r] - precharged[r])

SettleAdjustment(r) == UsageAdjustment("settle_adjust", r, precharged[r] - final[r])

\* Mutant: an error leaves the session as it was, free to refund.
SettleThenRefund(r) ==
    /\ pc[r] = "settling"
    /\ \/ /\ Acknowledged(SettleAdjustment(r))
          /\ state' = [state EXCEPT ![r] = "Settled"]
          /\ FinishLog(r, "settled", final[r])
       \/ /\ Failed(SettleAdjustment(r))
          /\ UNCHANGED state
          /\ FinishLog(r, "failed", precharged[r])
    /\ pc' = [pc EXCEPT ![r] = "final"]
    /\ UNCHANGED <<codes, now, precharged, final, deadline, batch, logs>>

\* Mutant: the log does not look at the error.
SettleLoggedBlindly(r) ==
    /\ pc[r] = "settling"
    /\ \/ /\ Acknowledged(SettleAdjustment(r))
          /\ state' = [state EXCEPT ![r] = "Settled"]
       \/ /\ Failed(SettleAdjustment(r))
          /\ state' = [state EXCEPT ![r] = "SettleFailed"]
    /\ FinishLog(r, "settled", final[r])
    /\ pc' = [pc EXCEPT ![r] = "final"]
    /\ UNCHANGED <<codes, now, precharged, final, deadline, batch, logs>>

\* Settle and settleAndLog. An error blocks every later refund by the session.
Settle(r) ==
    /\ pc[r] = "settling"
    /\ \/ /\ Acknowledged(SettleAdjustment(r))
          /\ state' = [state EXCEPT ![r] = "Settled"]
          /\ FinishLog(r, "settled", final[r])
       \/ /\ Failed(SettleAdjustment(r))
          /\ state' = [state EXCEPT ![r] = "SettleFailed"]
          /\ FinishLog(r, "failed", precharged[r])
    /\ pc' = [pc EXCEPT ![r] = "final"]
    /\ UNCHANGED <<codes, now, precharged, final, deadline, batch, logs>>

RefundAdjustment(r) == UsageAdjustment("refund", r, precharged[r])

\* Refund: silent unless a precharge is held; an error keeps the session in
\* Precharged so that EnsureFinal tries once more.
Refund(r) ==
    \/ /\ state[r] # "Precharged"
       /\ UNCHANGED <<tables, state, faults>>
    \/ /\ state[r] = "Precharged"
       /\ IF precharged[r] > 0
          THEN Acknowledged(RefundAdjustment(r))
          ELSE UNCHANGED <<tables, faults>>
       /\ state' = [state EXCEPT ![r] = "Refunded"]
    \/ /\ state[r] = "Precharged" /\ precharged[r] > 0
       /\ Failed(RefundAdjustment(r))
       /\ UNCHANGED state

\* No channel is left, or the answer cannot be used: the handler refunds,
\* ignores the result and logs the request as refunded.
UpstreamFailed(r) ==
    /\ pc[r] = "upstream"
    /\ Refund(r)
    /\ FinishLog(r, "refunded", 0)
    /\ pc' = [pc EXCEPT ![r] = "final"]
    /\ UNCHANGED <<codes, now, precharged, final, deadline, batch, logs>>

\* A panic unwinds to the deferred EnsureFinal without a log.
HandlerPanic(r) ==
    /\ Answering(r)
    /\ Fault
    /\ pc' = [pc EXCEPT ![r] = "final"]
    /\ UNCHANGED <<ledgerVars, state, precharged, final, deadline, batch, logVars>>

EnsureFinal(r) ==
    /\ pc[r] = "final"
    /\ Refund(r)
    /\ pc' = [pc EXCEPT ![r] = "ended"]
    /\ UNCHANGED <<codes, now, precharged, final, deadline, batch, logVars>>

-----------------------------------------------------------------------------
(* Orphan cleanup *)

\* Mutant: no threshold.
OrphansOfAnyAge(threshold) ==
    {i \in DOMAIN ledger : ledger[i].type = "consume" /\ ~Terminated(ledger[i].req)}

\* Mutant: a row of the usage log counts as the end of a hold.
OrphansWithoutLog(threshold) ==
    {i \in DOMAIN ledger : /\ ledger[i].type = "consume"
                           /\ ledger[i].at + threshold < now
                           /\ ~Terminated(ledger[i].req)
                           /\ logs[ledger[i].req] = None}

\* ScanOrphanPrecharges: holds older than the threshold that nothing ended.
Orphans(threshold) ==
    {i \in DOMAIN ledger : /\ ledger[i].type = "consume"
                           /\ ledger[i].at + threshold < now
                           /\ ~Terminated(ledger[i].req)}

Scan(c) ==
    /\ batch[c] = {}
    /\ Orphans(ThresholdOf[c]) # {}
    /\ batch' = [batch EXCEPT ![c] = Orphans(ThresholdOf[c])]
    /\ UNCHANGED <<ledgerVars, sessionVars, logVars, faults>>

OrphanAdjustment(i) == [user |-> ledger[i].user, type |-> "refund",
                        amount |-> -ledger[i].amount,
                        ref |-> ledger[i].ref, req |-> ledger[i].req]

\* The trace row: inserted, or written over the row of a failed settlement.
UpsertRefunded(req) ==
    logs' = [logs EXCEPT ![req] = [status |-> "refunded", charged |-> 0]]

\* refundOrphan on the lowest id of the batch. A duplicate is skipped, any
\* other error ends the round; a failed trace row is only warned about.
RefundOrphan(c) ==
    /\ \E i \in batch[c] :
          LET adj == OrphanAdjustment(i)
          IN  /\ \A j \in batch[c] : i <= j
              /\ \/ /\ Acknowledged(adj)
                    /\ batch' = [batch EXCEPT ![c] = @ \ {i}]
                    /\ IF Duplicate(adj) THEN UNCHANGED logs ELSE UpsertRefunded(adj.req)
                 \/ /\ Fault /\ ~Duplicate(adj) /\ ApplyTx(adj)
                    /\ batch' = [batch EXCEPT ![c] = @ \ {i}]
                    /\ UNCHANGED logs
                 \/ /\ Failed(adj)
                    /\ batch' = [batch EXCEPT ![c] = {}]
                    /\ UNCHANGED logs
    /\ UNCHANGED <<codes, now, sessionVars, logQueue>>

-----------------------------------------------------------------------------
(* The usage log *)

\* The writer inserts; a request that already has a row keeps it.
PersistLog ==
    /\ logQueue # <<>>
    /\ LET l == Head(logQueue)
       IN  logs' = IF logs[l.req] = None
                   THEN [logs EXCEPT ![l.req] = [status |-> l.status, charged |-> l.charged]]
                   ELSE logs
    /\ logQueue' = Tail(logQueue)
    /\ UNCHANGED <<ledgerVars, sessionVars, batch, faults>>

\* The insert fails: the record is gone.
LoseLog ==
    /\ logQueue # <<>>
    /\ Fault
    /\ logQueue' = Tail(logQueue)
    /\ UNCHANGED <<ledgerVars, sessionVars, batch, logs>>

-----------------------------------------------------------------------------
(* The environment *)

\* The serving process dies. What it kept in memory is gone: the sessions and
\* the queue. Cleaners may run in other processes; losing one is a Failed step.
Crash ==
    /\ Fault
    /\ pc' = [r \in Requests |-> IF pc[r] = "idle" THEN "idle" ELSE "ended"]
    /\ state' = [r \in Requests |-> "Init"]
    /\ logQueue' = <<>>
    /\ UNCHANGED <<ledgerVars, precharged, final, deadline, batch, logs>>

\* Handlers bound by a deadline act on it before time passes it.
Tick ==
    /\ now < MaxTime
    /\ \A r \in Requests : pc[r] \in {"upstream", "settling"} => now < deadline[r]
    /\ now' = now + 1
    /\ UNCHANGED <<tables, codes, sessionVars, batch, logVars, faults>>

Account ==
    /\ AccountOperation
    /\ UNCHANGED <<sessionVars, batch, logVars, faults>>

-----------------------------------------------------------------------------
Init ==
    /\ LedgerInit
    /\ pc = [r \in Requests |-> "idle"]
    /\ state = [r \in Requests |-> "Init"]
    /\ precharged = [r \in Requests |-> 0]
    /\ final = [r \in Requests |-> 0]
    /\ deadline = [r \in Requests |-> 0]
    /\ batch = [c \in Cleaners |-> {}]
    /\ logQueue = <<>>
    /\ logs = [r \in Requests |-> None]
    /\ faults = 0

\* What the handler of a precharged request goes on to do by itself.
Proceed(r) ==
    \/ /\ pc[r] = "upstream"
       /\ \E amount \in FinalAmounts : BeginSettle(r, amount)
    \/ Settle(r)
    \/ UpstreamFailed(r)
    \/ EnsureFinal(r)

Session(r) ==
    \/ Authenticate(r)
    \/ \E amount \in PrechargeAmounts :
          Precharge(r, amount) \/ RejectPrecharge(r, amount)
    \/ Resend(r)
    \/ Stall(r)
    \/ \E amount \in FinalAmounts : BeginSettle(r, amount)
    \/ Settle(r)
    \/ UpstreamFailed(r)
    \/ HandlerPanic(r)
    \/ EnsureFinal(r)

Next ==
    \/ \E r \in Requests : Session(r)
    \/ \E c \in Cleaners : Scan(c) \/ RefundOrphan(c)
    \/ PersistLog
    \/ LoseLog
    \/ Crash
    \/ Tick
    \/ Account

Spec == Init /\ [][Next]_vars

\* Handlers run on, the cleanup is scheduled again and again, the writer's
\* goroutine drains its queue, and time passes. Nobody is obliged to send,
\* read or redeem anything.
Fairness ==
    /\ \A r \in Requests : WF_vars(Proceed(r))
    /\ \A c \in Cleaners : WF_vars(Scan(c)) /\ WF_vars(RefundOrphan(c))
    /\ WF_vars(PersistLog)
    /\ WF_vars(Tick)

FairSpec == Spec /\ Fairness

TypeOK ==
    /\ LedgerTypeOK
    /\ pc \in [Requests -> Handler]
    /\ state \in [Requests -> SessionState]
    /\ precharged \in [Requests -> Nat]
    /\ final \in [Requests -> Nat]
    /\ deadline \in [Requests -> Nat]
    /\ batch \in [Cleaners -> SUBSET Nat]
    /\ logQueue \in Seq([req : Requests, status : UsageStatus, charged : Nat])
    /\ logs \in [Requests -> {None} \cup [status : UsageStatus, charged : Nat]]
    /\ faults \in 0..MaxFaults

-----------------------------------------------------------------------------
(* Safety *)

\* A hold ends once: session and cleanup never book both a settlement and a
\* refund for a request, in whatever order their writes are acknowledged.
\* (The unique index only forbids two entries of one type; what keeps the two
\* types apart is the session's state and the orphan threshold.)
TerminatedOnce ==
    \A i, j \in DOMAIN ledger :
        /\ ledger[i].req = ledger[j].req /\ ledger[i].req \in Requests
        /\ {ledger[i].type, ledger[j].type} \subseteq TerminalTypes
        => i = j

\* The cleanup only ever picks up holds that no live handler will settle.
OrphanOwnerGone ==
    \A c \in Cleaners : \A i \in batch[c] :
        ~Answering(ledger[i].req) /\ pc[ledger[i].req] # "settling"

\* A row of the usage log never contradicts the ledger: what it calls settled
\* was settled at that price (or cut down to an empty balance), what it calls
\* refunded costs nothing and is not settled afterwards.
LogMatchesLedger ==
    \A r \in Requests : logs[r] # None =>
        /\ logs[r].status = "settled" =>
              \E i \in DOMAIN ledger :
                  /\ ledger[i].req = r /\ ledger[i].type = "settle_adjust"
                  /\ \/ precharged[r] - ledger[i].amount = logs[r].charged
                     \/ ledger[i].balance_after = 0
        /\ logs[r].status = "refunded" =>
              logs[r].charged = 0 /\ ~Booked(r, "settle_adjust")

(* Why TerminatedOnce holds *)

InFlight(r) == pc[r] \in {"upstream", "settling"}

ConsumesOf(r) ==
    {i \in DOMAIN ledger : ledger[i].req = r /\ ledger[i].type = "consume"}

\* What a cleaner has in hand is a precharge past its threshold, unsettled.
BatchOK(c, i) ==
    /\ i \in DOMAIN ledger
    /\ ledger[i].type = "consume"
    /\ ledger[i].at + ThresholdOf[c] < now
    /\ ~Booked(ledger[i].req, "settle_adjust")

\* A handler in flight is within a deadline that its own precharge bounds.
DeadlineOK(r) ==
    /\ pc[r] # "stalled"
    /\ InFlight(r) => now <= deadline[r]
    /\ pc[r] = "upstream" =>
          \A i \in ConsumesOf(r) : deadline[r] <= ledger[i].at + UpstreamTimeout
    /\ pc[r] = "settling" =>
          \A i \in ConsumesOf(r) :
              deadline[r] <= ledger[i].at + UpstreamTimeout + SettleWindow

\* Whoever may still end a hold finds it held.
HoldOK(r) ==
    /\ InFlight(r) => ~Terminated(r)
    /\ InFlight(r) \/ state[r] = "Precharged" \/ Terminated(r) => Booked(r, "consume")
    /\ state[r] = "Precharged" => ~Booked(r, "settle_adjust")

TerminationInv ==
    /\ \A c \in Cleaners : \A i \in batch[c] : BatchOK(c, i)
    /\ \A r \in Requests : DeadlineOK(r) /\ HoldOK(r)
    /\ TerminatedOnce

(* Liveness *)

\* No credits stay held: every precharge is eventually settled or given back,
\* through crashes, lost writes, full log queues and clients that never read.
EveryHoldEnds ==
    \A r \in Requests : Booked(r, "consume") ~> Terminated(r)
=============================================================================
