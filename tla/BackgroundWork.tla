--------------------------- MODULE BackgroundWork ---------------------------
(***************************************************************************)
(* The maintenance round and the deliveries of alerts in one process. The  *)
(* alerts a task raises have goroutines of their own and outlive the task; *)
(* of those a step raises one is followed, since alerts of different keys  *)
(* share nothing. A restart ends the round and every delivery.             *)
(***************************************************************************)
EXTENDS Maintenance, AlertDelivery

vars == <<roundVars, alertVars, faults>>

\* Alerts are numbered in the order they are raised.
NextAlert(a) == pc[a] = "none" /\ \A b \in Alerts : b < a => pc[b] # "none"

\* Raise of the relay, the pipeline, the orphan scheduler or a test. Alerts of
\* one key are all raised in the same way.
RaiseElsewhere(a, k) ==
    /\ NextAlert(a) /\ k = budget.kind
    /\ budget.alerts > 0 /\ budget' = [budget EXCEPT !.alerts = @ - 1]
    /\ Raise(a, k)
    /\ UNCHANGED <<rollupVars, grantVars, task, kept, raised, faults>>

\* A notice to a user is directed, every other alert goes to the administrators.
KindOf(x) == IF x[1] = "user_balance_notice" THEN "directed" ELSE "raise"

\* budget.follow bounds how many alerts of the rounds are followed.
Followed == {a \in Alerts : /\ NextAlert(a) /\ a <= budget.follow
                            /\ \E x \in raised' \ raised : x[1] = KeyOf[a]}

RoundStep ==
    /\ Round \/ TaskFails
    /\ IF Followed = {} THEN UNCHANGED alertVars
       ELSE \E a \in Followed, x \in raised' \ raised : x[1] = KeyOf[a] /\ Raise(a, KindOf(x))

Restart ==
    /\ Fault /\ (task > 0 \/ \E a \in Alerts : pc[a] \in Running)
    /\ StopRound /\ StopDeliveries

Init == RoundInit /\ AlertInit /\ faults = 0

Next ==
    \/ RoundStep \/ Restart
    \/ (NextDay \/ Traffic \/ UserStep) /\ UNCHANGED alertVars
    \/ \E a \in Alerts : Deliver(a) /\ UNCHANGED roundVars
    \/ \E a \in Alerts, k \in Kind : RaiseElsewhere(a, k)
    \/ (Tick \/ \E s \in Settings : Configure(s))
       /\ (\E a \in Alerts : pc[a] # "none") /\ UNCHANGED roundVars

Spec == Init /\ [][Next]_vars

\* Attempts are bounded by deliverTimeout and backoffs by a timer.
Fairness == \A a \in Alerts : WF_vars(Deliver(a) /\ UNCHANGED roundVars)

FairSpec == Spec /\ Fairness

\* Every variable of the round and of the deliveries has its type.
TypeOK == RoundTypeOK /\ AlertTypeOK /\ faults \in 0..MaxFaults
=============================================================================
