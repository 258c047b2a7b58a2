----------------------------- MODULE CreditHold -----------------------------
(***************************************************************************)
(* What billing promises for a request, without sessions, failures,        *)
(* cleaners, counters or time: its credits are put on hold once, and the   *)
(* hold ends once, charged at what the request used or released in full.   *)
(***************************************************************************)
EXTENDS Integers

CONSTANTS Users, Requests,
          Payer     \* the user a request is charged to

VARIABLES
    purse,      \* credits a user can spend
    status,     \* of the hold of a request
    held,       \* what was put on hold for it
    adjustments \* grants, revocations and redeemed codes, by their ids

vars == <<purse, status, held, adjustments>>

TypeOK ==
    /\ purse \in [Users -> Nat]
    /\ status \in [Requests -> {"none", "held", "charged", "released"}]
    /\ held \in [Requests -> Nat]
    /\ adjustments \subseteq Nat

Init ==
    /\ purse = [u \in Users |-> 0]
    /\ status = [r \in Requests |-> "none"]
    /\ held = [r \in Requests |-> 0]
    /\ adjustments = {}

Move(r, from, to) ==
    /\ status[r] = from
    /\ status' = [status EXCEPT ![r] = to]

Pay(u, left) == purse' = [purse EXCEPT ![u] = left]

Hold(r) ==
    /\ Move(r, "none", "held")
    /\ \E amount \in 0..purse[Payer[r]] :
          /\ held' = [held EXCEPT ![r] = amount]
          /\ Pay(Payer[r], purse[Payer[r]] - amount)
    /\ UNCHANGED adjustments

\* The charge is taken from the hold and, beyond it, from the purse.
Charge(r) ==
    /\ Move(r, "held", "charged")
    /\ \E charge \in 0..(purse[Payer[r]] + held[r]) :
          Pay(Payer[r], purse[Payer[r]] + held[r] - charge)
    /\ UNCHANGED <<held, adjustments>>

Release(r) ==
    /\ Move(r, "held", "released")
    /\ Pay(Payer[r], purse[Payer[r]] + held[r])
    /\ UNCHANGED <<held, adjustments>>

\* Only an adjustment of its own moves credits that no hold accounts for.
Adjust(u) ==
    /\ \E id \in adjustments' \ adjustments : adjustments' = adjustments \cup {id}
    /\ purse'[u] \in Nat
    /\ Pay(u, purse'[u])
    /\ UNCHANGED <<status, held>>

Next ==
    \/ \E r \in Requests : Hold(r) \/ Charge(r) \/ Release(r)
    \/ \E u \in Users : Adjust(u)

Spec == Init /\ [][Next]_vars
=============================================================================
