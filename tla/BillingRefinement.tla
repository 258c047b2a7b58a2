-------------------------- MODULE BillingRefinement --------------------------
(***************************************************************************)
(* BillingSession implements CreditHold: the ledger alone says what became *)
(* of a hold, whatever sessions, cleaners and logs believe.                *)
(***************************************************************************)
EXTENDS BillingSession

HoldStatus(r) ==
    IF Booked(r, "refund") THEN "released"
    ELSE IF Booked(r, "settle_adjust") THEN "charged"
    ELSE IF Booked(r, "consume") THEN "held"
    ELSE "none"

HeldAmount(r) ==
    IF Booked(r, "consume")
    THEN -ledger[CHOOSE i \in DOMAIN ledger :
                    ledger[i].req = r /\ ledger[i].type = "consume"].amount
    ELSE 0

Abstract == INSTANCE CreditHold WITH
    Payer  <- [r \in Requests |-> OwnerOf[KeyOf[r]]],
    purse  <- balance,
    status <- [r \in Requests |-> HoldStatus(r)],
    held   <- [r \in Requests |-> HeldAmount(r)],
    adjustments <- {i \in DOMAIN ledger : ledger[i].type \notin UsageTypes}

\* Every transaction is a step of one hold or of an account, or none: no
\* request is held twice, released twice, charged after a release or charged
\* more than hold and balance together, under any interleaving with failures.
ImplementsCreditHold == Abstract!Spec
=============================================================================
