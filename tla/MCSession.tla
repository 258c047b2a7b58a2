----------------------------- MODULE MCSession -----------------------------
(***************************************************************************)
(* One user with one key and two requests: every interleaving of their     *)
(* sessions with cleanups, log writes, failures and the clock. Ticks are   *)
(* some minutes: the upstream may take one, a settlement write one more,   *)
(* and an orphan is a hold of more than three.                             *)
(***************************************************************************)
EXTENDS BillingProperties, BillingRefinement

CONSTANTS u1, k1, Threshold

MCOwnerOf == [k \in Keys |-> u1]
MCKeyOf == [r \in Requests |-> k1]
MCNone == [c \in Codes |-> 0]
MCNoCreditLimit == [k \in Keys |-> None]
MCUnlimitedUser == [u \in Users |-> 0]
MCUnlimitedKey == [k \in Keys |-> 0]
MCDayOf == [t \in 0..MaxTime |-> t \div 3]
MCThresholdOf == [c \in Cleaners |-> Threshold]
=============================================================================
