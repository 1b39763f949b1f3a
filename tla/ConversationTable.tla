-------------------------- MODULE ConversationTable --------------------------
(***************************************************************************)
(* The table conversations, and what the requests of the API may do to its *)
(* rows: each change is of one row, committed as a whole.  Conversations   *)
(* implements it; ConversationList is about a reader among such changes.   *)
(***************************************************************************)
EXTENDS AccessControl

CONSTANT Conv  \* conversation ids

VARIABLES
  status,          \* conversations.status, "absent" before the INSERT
  tenantId,        \* conversations.tenant_id
  assignedAgentId  \* conversations.assigned_agent_id

table == <<status, tenantId, assignedAgentId>>

ConversationStatus == {"open", "pending", "resolved", "closed"}

(* Rows as the seeder leaves them: an open conversation has no agent;      *)
(* another one has an agent of its tenant, or none when the seeder ran on  *)
(* a database that had users.                                              *)
SeededRow(c) ==
  \/ status[c] = "absent" /\ tenantId[c] = None /\ assignedAgentId[c] = None
  \/ /\ status[c] \in ConversationStatus
     /\ tenantId[c] \in Tenant
     /\ \/ assignedAgentId[c] = None
        \/ /\ status[c] # "open"
           /\ assignedAgentId[c] \in
                {u \in User : RoleOf[u] = Agent /\ TenantOf[u] = tenantId[c]}

TableInit ==
  /\ status \in [Conv -> ConversationStatus \cup {"absent"}]
  /\ tenantId \in [Conv -> Tenant \cup {None}]
  /\ assignedAgentId \in [Conv -> User \cup {None}]
  /\ \A c \in Conv : SeededRow(c)

(* Mutant of CreateRow: a super admin, who has no tenant, passes the guard. *)
CreateRowForNobody(c, t) ==
  /\ status[c] = "absent"
  /\ status' = [status EXCEPT ![c] = "open"]
  /\ UNCHANGED <<tenantId, assignedAgentId>>

(* created_at is the time an INSERT began, so rows need not appear in its  *)
(* order.                                                                  *)
CreateRow(c, t) ==
  /\ status[c] = "absent"
  /\ status' = [status EXCEPT ![c] = "open"]
  /\ tenantId' = [tenantId EXCEPT ![c] = t]
  /\ UNCHANGED assignedAgentId

ClaimRow(c, u) ==
  /\ RoleOf[u] # SuperAdmin /\ TenantOf[u] = tenantId[c]
  /\ status[c] \notin {"absent", "resolved"}
  /\ assignedAgentId[c] = None
  /\ status' = [status EXCEPT ![c] = "pending"]
  /\ assignedAgentId' = [assignedAgentId EXCEPT ![c] = u]
  /\ UNCHANGED tenantId

(* The save writes the assignment that its request read before.  By then   *)
(* it may be out of date: none, though the row has an agent meanwhile, or  *)
(* the agent that another resolve request has taken off the row since.     *)
Stale(c) ==
  {None} \cup {u \in User : /\ status[c] = "resolved"
                            /\ assignedAgentId[c] = None
                            /\ TenantOf[u] = tenantId[c]}

ResolveRow(c) ==
  /\ status[c] # "absent"
  /\ status' = [status EXCEPT ![c] = "resolved"]
  /\ \E a \in {assignedAgentId[c]} \cup Stale(c) :
       assignedAgentId' = [assignedAgentId EXCEPT ![c] = a]
  /\ UNCHANGED tenantId

TableNext ==
  \E c \in Conv : \/ \E t \in Tenant : CreateRow(c, t)
                  \/ \E u \in User : ClaimRow(c, u)
                  \/ ResolveRow(c)

TableSpec == TableInit /\ [][TableNext]_table
=============================================================================
