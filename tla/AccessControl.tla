--------------------------- MODULE AccessControl ---------------------------
(***************************************************************************)
(* Who may do what in the support API, decided before a handler runs: the  *)
(* roles of the accounts, the RolesGuard of the controllers and the tenant *)
(* filter that every query on conversations carries.                       *)
(***************************************************************************)

CONSTANTS User,     \* accounts that hold a valid access token
          Tenant,   \* tenants (companies)
          None,     \* SQL NULL: no tenant, no assigned agent, no lock holder
          RoleOf,   \* users.role
          TenantOf  \* users.tenant_id

(* The roles of enum UserRole. *)
SuperAdmin  == "SuperAdmin"
TenantAdmin == "TenantAdmin"
Agent       == "Agent"
UserRole    == {SuperAdmin, TenantAdmin, Agent}

ASSUME NoneAssumption == None \notin User \cup Tenant

ASSUME RoleAssumption == RoleOf \in [User -> UserRole]

(* signUp refuses a tenant admin or an agent without an active tenant; a   *)
(* super admin may be given one or not.                                    *)
ASSUME TenantAssumption ==
  /\ TenantOf \in [User -> Tenant \cup {None}]
  /\ \A u \in User : RoleOf[u] # SuperAdmin => TenantOf[u] \in Tenant

(* RolesGuard.canActivate: a super admin passes every role requirement but *)
(* those of the handlers marked @BlockSuperAdmin, anybody else needs one   *)
(* of the roles the handler lists.                                         *)
RolesGuardAllows(u, requiredRoles, blockSuperAdmin) ==
  \/ requiredRoles = {}
  \/ RoleOf[u] = SuperAdmin /\ ~blockSuperAdmin
  \/ RoleOf[u] # SuperAdmin /\ RoleOf[u] \in requiredRoles

(* The tenant filter of the queries: skipped for a user without a tenant,  *)
(* which the assumption above reserves to super admins.                    *)
InScope(u, t) == TenantOf[u] = None \/ TenantOf[u] = t
=============================================================================
