-------------------------- MODULE MCAnalyticsCache --------------------------
(* A small instance of AnalyticsCache: the admin ta and an agent a1 of t1,  *)
(* whom the guard keeps out, and a super admin sa, who sees t2 as well.     *)
EXTENDS AnalyticsCache, TLC

CONSTANTS ta, a1, sa, t1, t2

MCRoleOf ==
  [u \in User |-> CASE u = sa -> SuperAdmin
                    [] u = a1 -> Agent
                    [] OTHER  -> TenantAdmin]

MCTenantOf == [u \in User |-> IF u = sa THEN None ELSE t1]
=============================================================================
