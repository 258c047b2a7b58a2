----------------------------- MODULE MCAdmission -----------------------------
(***************************************************************************)
(* Requests of one user, one of them large, two of them on one key; two    *)
(* registrations from one address.                                         *)
(***************************************************************************)
EXTENDS Admission

CONSTANTS q1, q2, q3, g1, g2, key1, key2, user1, address1, u1

MCKeyBucket == [r \in Requests |-> IF r = q3 THEN key2 ELSE key1]
MCUserBucket == [r \in Requests |-> user1]
MCAddressBucket == [g \in Registrations |-> address1]
MCLimitOf == [b \in Buckets |-> IF b = user1 THEN 2 ELSE 1]
MCUserOf == [r \in Requests |-> u1]
=============================================================================
