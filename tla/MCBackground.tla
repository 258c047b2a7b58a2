---------------------------- MODULE MCBackground ----------------------------
(***************************************************************************)
(* Three days over two months, two logs, two users in batches of one, two  *)
(* days rolled up per round; two alerts of one key, one setting that comes *)
(* and goes. The budgets choose what happens around the rounds: requests,  *)
(* changes of users, alerts of others, or one round on a failing relay.    *)
(***************************************************************************)
EXTENDS BackgroundWork

MCQuiet == [requests |-> 0, changes |-> 0, alerts |-> 0, follow |-> 0, rounds |-> None,
            lastDay |-> MaxDay, grants |-> FALSE, kind |-> "raise"]
MCBudgets == {[MCQuiet EXCEPT !.requests = 2],
              [MCQuiet EXCEPT !.changes = 2, !.lastDay = 1, !.grants = TRUE],
              [MCQuiet EXCEPT !.requests = 1, !.rounds = 1, !.lastDay = 0, !.follow = 1]}
             \cup {[MCQuiet EXCEPT !.alerts = 2, !.rounds = 0, !.lastDay = 0, !.kind = k] :
                     k \in Kind}
MCMonthOf == [d \in Days |-> IF d = 0 THEN 0 ELSE 1]
MCRetentionOf == [k \in {"audit_logs", "daily_spend", "daily_spend_by_key", "recordings"} |->
    IF k = "audit_logs" THEN 0 ELSE 1]
MCKeyOf == [a \in Alerts |-> "error_rate_high"]
MCWindowOf == [a \in Alerts |-> 1]
=============================================================================
