----------------------------- MODULE MCAccounts -----------------------------
(***************************************************************************)
(* Two requests of one user on a key with limits of its own, over two      *)
(* days: precharges compete for what the limits leave, settlements overrun *)
(* them, refunds make room again. Meanwhile balances come and go by        *)
(* grants, revocations and a code that both users try and that expires;    *)
(* administrators repeat an adjustment under the same idempotency key.     *)
(***************************************************************************)
EXTENDS BillingProperties

CONSTANTS u1, u2, k1, c1, UserLimit, KeyLimit, KeyCredits

MCOwnerOf == [k \in Keys |-> u1]
MCKeyOf == [r \in Requests |-> k1]
MCGrantAmounts == {9, -1}
MCCodeCredits == [c \in Codes |-> 1]
MCExpiresAt == [c \in Codes |-> 1]
MCCreditLimit == [k \in Keys |-> KeyCredits]
MCDailyLimit == [u \in Users |-> UserLimit]
MCKeyDailyLimit == [k \in Keys |-> KeyLimit]
MCDayOf == [t \in 0..MaxTime |-> t \div 2]
MCThresholdOf == [c \in Cleaners |-> 3]
=============================================================================
