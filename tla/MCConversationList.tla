------------------------- MODULE MCConversationList -------------------------
(* A small instance of ConversationList: the admin ta and an agent a1 of    *)
(* tenant t1, among conversations of t1 and t2.                             *)
EXTENDS ConversationList, TLC

CONSTANTS ta, a1, t1

MCRoleOf   == [u \in User |-> IF u = ta THEN TenantAdmin ELSE Agent]
MCTenantOf == [u \in User |-> t1]
=============================================================================
