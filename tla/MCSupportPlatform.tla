------------------------- MODULE MCSupportPlatform -------------------------
(* Small instances of SupportPlatform: one tenant t1 with the agent a1 and  *)
(* the admin ta; w1 serves the request r1, w2 the others.                   *)
EXTENDS SupportPlatform, TLC

CONSTANTS a1, ta, t1, r1, w1, w2

MCRoleOf   == [u \in User |-> IF u = ta THEN TenantAdmin ELSE Agent]
MCTenantOf == [u \in User |-> t1]
MCServedBy == [p \in Req |-> IF p = r1 THEN w1 ELSE w2]
=============================================================================
