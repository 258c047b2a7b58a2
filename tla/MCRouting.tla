----------------------------- MODULE MCRouting -----------------------------
(***************************************************************************)
(* Channels c1 and c2 for one model, c1 preferred; requests of one         *)
(* conversation, so that a binding made by one is met by the other.        *)
(***************************************************************************)
EXTENDS ChannelRouting

CONSTANTS c1, c2, k1

MCPriority == [c \in Channels |-> IF c = c1 THEN 1 ELSE 0]
MCConversationOf == [r \in Requests |-> k1]
=============================================================================
