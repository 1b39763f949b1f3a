-------------------------- MODULE MCConversations --------------------------
(* Small instances of Conversations: the admin ta and the agents a1 and a2  *)
(* of tenant t1, a super admin sa without a tenant; t2 has no users.        *)
EXTENDS ConversationsInvariants, TLC

CONSTANTS a1, a2, ta, sa, t1, t2

MCRoleOf ==
  [u \in User |-> CASE u = sa -> SuperAdmin
                    [] u = ta -> TenantAdmin
                    [] OTHER  -> Agent]

MCTenantOf == [u \in User |-> IF u = sa THEN None ELSE t1]
=============================================================================
