--------------------------- MODULE Conversations ---------------------------
(***************************************************************************)
(* ConversationsService: the requests that create, claim and resolve       *)
(* conversations, interleaved at every await.  An element of Req is one    *)
(* HTTP request, handled once; a client that tries again sends another.    *)
(*                                                                         *)
(* PostgreSQL (READ COMMITTED) is modelled by what the service relies on:  *)
(* a plain SELECT reads the last committed rows and never waits, SELECT    *)
(* FOR UPDATE and UPDATE wait for the row's lock, and a transaction takes  *)
(* effect as a whole when it commits or not at all.  TypeORM's save() of   *)
(* an existing entity is modelled by its steps: it reads the row again,    *)
(* computes what the entity in memory changes in it, then writes that.     *)
(***************************************************************************)
EXTENDS ConversationTable

CONSTANTS Req,       \* requests
          NotNullFk  \* messages.conversation_id is NOT NULL: TRUE for the
                     \* migrated schema, FALSE for the one TypeORM derives
                     \* from the entities (synchronize, in development)

ASSUME ReqAssumption == None \notin Req \cup Conv

ASSUME SchemaAssumption == NotNullFk \in BOOLEAN

VARIABLES
  notes,            \* system messages of a conversation: the requests that wrote them
  rowLock,          \* the claim transaction that holds the row FOR UPDATE
  jobs,             \* jobs added to the resolution queue: the requests that added them
  pc,               \* where a request is
  req,              \* what a request asks: its user, conversation and note
  entity,           \* the conversation a resolve request holds in memory
  diff              \* what its save() found to write besides the status

rows    == <<status, tenantId, assignedAgentId, notes>>
memory  == <<req, entity, diff>>
vars    == <<rows, rowLock, jobs, pc, memory>>

(* Where a request can be: not received yet, at an await, or answered.     *)
(* "claimed" and "resolved" mean that the handler did its last write; the  *)
(* answer itself may be lost on its way to the client.                     *)
Waiting  == {"locking", "claiming", "loading", "saving", "noting", "enqueueing"}
Answered == {"created", "claimed", "resolved", "refused", "failed"}
Phase    == {"new"} \cup Waiting \cup Answered

NoRequest == [user |-> None, conv |-> None, note |-> FALSE]
NoEntity  == [agent |-> None, notes |-> {}]
NoDiff    == [setAgent |-> FALSE, detach |-> {}]

Request(u, c, n) == [user |-> u, conv |-> c, note |-> n]

(***************************************************************************)
(* Reads and checks of the handlers                                        *)
(***************************************************************************)

(* Mutant of Found: the andWhere on the tenant is missing.                 *)
FoundAnywhere(u, c) == status[c] # "absent"

(* The WHERE clause on id and tenant shared by every single-row lookup.    *)
Found(u, c) == status[c] # "absent" /\ InScope(u, tenantId[c])

(* findOne: the lookup, then 403 for an agent when another one holds it.   *)
CanFindOne(u, c) ==
  /\ Found(u, c)
  /\ RoleOf[u] = Agent => assignedAgentId[c] \in {None, u}

(* Mutant of RowFree: the SELECT has no setLock.                           *)
RowAlwaysFree(c) == TRUE

(* Nobody holds the row FOR UPDATE: a lock request or an UPDATE proceeds.  *)
RowFree(c) == rowLock[c] = None

(* Mutant of MayClaim: the role check is missing.                          *)
MayClaimAnybody(u) == TRUE

(* The role check at the top of claimConversation.                         *)
MayClaim(u) == RoleOf[u] \in {Agent, TenantAdmin}

(* Mutants of ClaimRefused: one of the two checks is missing.              *)
ClaimRefusedByStatus(u, c) == status[c] = "resolved"
ClaimRefusedByAgent(u, c) == assignedAgentId[c] # None /\ assignedAgentId[c] # u

(* claimConversation, once the row is locked: 400 or 409.                  *)
ClaimRefused(u, c) ==
  \/ status[c] = "resolved"
  \/ assignedAgentId[c] # None /\ assignedAgentId[c] # u

(* resolveConversation, on the row findOne returned: 400 or 403.           *)
ResolveRefused(u, c) ==
  \/ status[c] = "resolved"
  \/ RoleOf[u] = Agent /\ assignedAgentId[c] # u

(* What save(conv) finds to write in the row as it is now.  An assigned    *)
(* agent that is null in memory is always written (as NULL), any other     *)
(* only when the row differs.  Messages of the row that the loaded list    *)
(* lacks are taken for removed from it: their conversation_id is cleared.  *)
SaveDiff(e, c) ==
  [setAgent |-> e.agent = None \/ e.agent # assignedAgentId[c],
   detach   |-> notes[c] \ e.notes]

(* Mutant of DetachFails: the constraint does not stop the save.           *)
DetachNeverFails(d) == FALSE

(* Clearing conversation_id breaks the migrated schema's constraint.       *)
DetachFails(d) == NotNullFk /\ d.detach # {}

(* The rows the seeder leaves, no request received yet.                    *)
Init ==
  /\ TableInit
  /\ notes = [c \in Conv |-> {}]
  /\ rowLock = [c \in Conv |-> None]
  /\ jobs = {}
  /\ pc = [p \in Req |-> "new"]
  /\ req = [p \in Req |-> NoRequest]
  /\ entity = [p \in Req |-> NoEntity]
  /\ diff = [p \in Req |-> NoDiff]

(***************************************************************************)
(* POST /conversations                                                     *)
(***************************************************************************)

(* Mutant of CreateIn: the user's id for its tenant's.                     *)
CreateInUser(u) == u

(* The tenant a new conversation is created in: the caller's.              *)
CreateIn(u) == TenantOf[u]

(* create: one INSERT.                                                     *)
Create(p, u, c) ==
  /\ pc[p] = "new"
  /\ RolesGuardAllows(u, {TenantAdmin, Agent}, TRUE)
  /\ status[c] = "absent"
  /\ status' = [status EXCEPT ![c] = "open"]
  /\ tenantId' = [tenantId EXCEPT ![c] = CreateIn(u)]
  /\ pc' = [pc EXCEPT ![p] = "created"]
  /\ req' = [req EXCEPT ![p] = Request(u, c, FALSE)]
  /\ UNCHANGED <<assignedAgentId, notes, rowLock, jobs, entity, diff>>

(***************************************************************************)
(* PATCH /conversations/:id/claim                                          *)
(***************************************************************************)

(* The guard lets a super admin through; the service refuses it before it  *)
(* opens a transaction.                                                    *)
StartClaim(p, u, c) ==
  /\ pc[p] = "new"
  /\ RolesGuardAllows(u, {TenantAdmin, Agent}, FALSE)
  /\ pc' = [pc EXCEPT ![p] = IF MayClaim(u) THEN "locking" ELSE "refused"]
  /\ req' = [req EXCEPT ![p] = Request(u, c, FALSE)]
  /\ UNCHANGED <<rows, rowLock, jobs, entity, diff>>

(* SELECT ... FOR UPDATE finds no row: there is nothing to wait for (404). *)
ClaimNotFound(p) ==
  /\ pc[p] = "locking"
  /\ ~Found(req[p].user, req[p].conv)
  /\ pc' = [pc EXCEPT ![p] = "refused"]
  /\ UNCHANGED <<rows, rowLock, jobs, memory>>

(* The lock is granted and the row is resolved or another agent's: the     *)
(* exception rolls the transaction back, which releases the lock.          *)
ClaimConflict(p) ==
  LET u == req[p].user  c == req[p].conv
  IN /\ pc[p] = "locking"
     /\ Found(u, c) /\ RowFree(c)
     /\ ClaimRefused(u, c)
     /\ pc' = [pc EXCEPT ![p] = "refused"]
     /\ UNCHANGED <<rows, rowLock, jobs, memory>>

(* The lock is granted and the row is already the caller's: it is returned *)
(* as it is.                                                               *)
ClaimAgain(p) ==
  LET u == req[p].user  c == req[p].conv
  IN /\ pc[p] = "locking"
     /\ Found(u, c) /\ RowFree(c)
     /\ ~ClaimRefused(u, c) /\ assignedAgentId[c] = u
     /\ pc' = [pc EXCEPT ![p] = "claimed"]
     /\ UNCHANGED <<rows, rowLock, jobs, memory>>

(* The lock is granted and the row is free to take; the save is awaited    *)
(* with the lock held.                                                     *)
ClaimLock(p) ==
  LET u == req[p].user  c == req[p].conv
  IN /\ pc[p] = "locking"
     /\ Found(u, c) /\ RowFree(c)
     /\ ~ClaimRefused(u, c) /\ assignedAgentId[c] # u
     /\ rowLock' = [rowLock EXCEPT ![c] = p]
     /\ pc' = [pc EXCEPT ![p] = "claiming"]
     /\ UNCHANGED <<rows, jobs, memory>>

(* save and COMMIT.                                                        *)
ClaimCommit(p) ==
  LET c == req[p].conv
  IN /\ pc[p] = "claiming"
     /\ status' = [status EXCEPT ![c] = "pending"]
     /\ assignedAgentId' = [assignedAgentId EXCEPT ![c] = req[p].user]
     /\ rowLock' = [rowLock EXCEPT ![c] = None]
     /\ pc' = [pc EXCEPT ![p] = "claimed"]
     /\ UNCHANGED <<tenantId, notes, jobs, memory>>

(***************************************************************************)
(* PATCH /conversations/:id/resolve                                        *)
(***************************************************************************)

(* findOne and the checks made on what it returned, without any lock.      *)
StartResolve(p, u, c, n) ==
  /\ pc[p] = "new"
  /\ RolesGuardAllows(u, {TenantAdmin, Agent}, FALSE)
  /\ req' = [req EXCEPT ![p] = Request(u, c, n)]
  /\ IF CanFindOne(u, c) /\ ~ResolveRefused(u, c)
       THEN /\ pc' = [pc EXCEPT ![p] = "loading"]
            /\ entity' = [entity EXCEPT ![p] = [agent |-> assignedAgentId[c],
                                                notes |-> notes[c]]]
       ELSE /\ pc' = [pc EXCEPT ![p] = "refused"]
            /\ UNCHANGED entity
  /\ UNCHANGED <<rows, rowLock, jobs, diff>>

(* Mutant of ResolveLoad: the entity is changed but not saved.             *)
ResolveUnsaved(p) ==
  /\ pc[p] = "loading"
  /\ pc' = [pc EXCEPT ![p] = "enqueueing"]
  /\ UNCHANGED <<rows, rowLock, jobs, memory>>

(* save, first half: a plain SELECT of the row, compared with the entity.  *)
ResolveLoad(p) ==
  /\ pc[p] = "loading"
  /\ diff' = [diff EXCEPT ![p] = SaveDiff(entity[p], req[p].conv)]
  /\ pc' = [pc EXCEPT ![p] = "saving"]
  /\ UNCHANGED <<rows, rowLock, jobs, req, entity>>

(* save, second half: BEGIN, UPDATE (which waits for the row), COMMIT.     *)
ResolveSave(p) ==
  LET c == req[p].conv
  IN /\ pc[p] = "saving"
     /\ RowFree(c)
     /\ ~DetachFails(diff[p])
     /\ status' = [status EXCEPT ![c] = "resolved"]
     /\ assignedAgentId' = [assignedAgentId EXCEPT ![c] =
                              IF diff[p].setAgent THEN entity[p].agent ELSE @]
     /\ notes' = [notes EXCEPT ![c] = @ \ diff[p].detach]
     /\ pc' = [pc EXCEPT ![p] = IF req[p].note THEN "noting" ELSE "enqueueing"]
     /\ UNCHANGED <<tenantId, rowLock, jobs, memory>>

(* The UPDATE of messages violates the constraint: ROLLBACK and 500.       *)
ResolveSaveRejected(p) ==
  /\ pc[p] = "saving"
  /\ RowFree(req[p].conv)
  /\ DetachFails(diff[p])
  /\ pc' = [pc EXCEPT ![p] = "failed"]
  /\ UNCHANGED <<rows, rowLock, jobs, memory>>

(* The INSERT of the resolution note, in a transaction of its own.         *)
ResolveNote(p) ==
  /\ pc[p] = "noting"
  /\ notes' = [notes EXCEPT ![req[p].conv] = @ \cup {p}]
  /\ pc' = [pc EXCEPT ![p] = "enqueueing"]
  /\ UNCHANGED <<status, tenantId, assignedAgentId, rowLock, jobs, memory>>

(* resolutionQueue.add, then the answer.                                   *)
ResolveEnqueue(p) ==
  /\ pc[p] = "enqueueing"
  /\ jobs' = jobs \cup {p}
  /\ pc' = [pc EXCEPT ![p] = "resolved"]
  /\ UNCHANGED <<rows, rowLock, memory>>

(* Mutant of Fail: the transactions are left open.                         *)
FailKeepingLocks(P) ==
  /\ P # {} /\ \A p \in P : pc[p] \in Waiting
  /\ pc' = [p \in Req |-> IF p \in P THEN "failed" ELSE pc[p]]
  /\ UNCHANGED <<rows, rowLock, jobs, memory>>

(***************************************************************************)
(* What every await may also do: reject (a lost connection, no connection  *)
(* left in the pool, Redis down) or never return because the process died, *)
(* which is the end of all requests it was serving.  Their open            *)
(* transactions are rolled back and their locks released.                  *)
(***************************************************************************)
Fail(P) ==
  /\ P # {} /\ \A p \in P : pc[p] \in Waiting
  /\ pc' = [p \in Req |-> IF p \in P THEN "failed" ELSE pc[p]]
  /\ rowLock' = [c \in Conv |-> IF rowLock[c] \in P THEN None ELSE rowLock[c]]
  /\ UNCHANGED <<rows, jobs, memory>>

Receive(p) ==
  \E u \in User, c \in Conv :
     \/ Create(p, u, c)
     \/ StartClaim(p, u, c)
     \/ \E n \in BOOLEAN : StartResolve(p, u, c, n)

(* The steps that only touch the database.                                 *)
ServeRows(p) ==
  \/ ClaimNotFound(p) \/ ClaimConflict(p) \/ ClaimAgain(p)
  \/ ClaimLock(p) \/ ClaimCommit(p)
  \/ ResolveLoad(p) \/ ResolveSave(p) \/ ResolveSaveRejected(p)
  \/ ResolveNote(p)

Serve(p) == ServeRows(p) \/ ResolveEnqueue(p)

(* Every request is answered: the service waits for the next one.          *)
Idle == (\A p \in Req : pc[p] \in Answered) /\ UNCHANGED vars

Next ==
  \/ \E p \in Req : Receive(p) \/ Serve(p)
  \/ \E P \in SUBSET Req : Fail(P)
  \/ Idle

Spec == Init /\ [][Next]_vars

(* The event loop runs the continuation of every settled await; the row    *)
(* lock is handed over in the order of the waiting transactions, and only  *)
(* finitely many requests compete for it here.  Nothing obliges a request  *)
(* to arrive or an await to reject.                                        *)
Fairness == \A p \in Req : WF_vars(Serve(p))

FairSpec == Spec /\ Fairness

(***************************************************************************)
(* Properties                                                              *)
(***************************************************************************)

(* Every variable has the shape its declaration says, and a request that   *)
(* was received has a user and names a conversation.                       *)
TypeOK ==
  /\ status \in [Conv -> ConversationStatus \cup {"absent"}]
  /\ tenantId \in [Conv -> Tenant \cup {None}]
  /\ assignedAgentId \in [Conv -> User \cup {None}]
  /\ notes \in [Conv -> SUBSET Req]
  /\ rowLock \in [Conv -> Req \cup {None}]
  /\ jobs \in SUBSET Req
  /\ pc \in [Req -> Phase]
  /\ req \in [Req -> [user : User \cup {None}, conv : Conv \cup {None},
                      note : BOOLEAN]]
  /\ entity \in [Req -> [agent : User \cup {None}, notes : SUBSET Req]]
  /\ diff \in [Req -> [setAgent : BOOLEAN, detach : SUBSET Req]]
  /\ \A p \in Req : pc[p] # "new" => req[p].user \in User /\ req[p].conv \in Conv

(* Two claims of one conversation are never both granted to different      *)
(* users, however their transactions interleave with each other, with      *)
(* resolve requests that write the row without having locked it, and with  *)
(* failures.                                                               *)
SingleGrant ==
  \A p, q \in Req :
    /\ pc[p] = "claimed" /\ pc[q] = "claimed"
    /\ req[p].conv = req[q].conv
    => req[p].user = req[q].user

(* A granted claim stands until the conversation is resolved: no later     *)
(* claim and no stale save takes an unresolved conversation away from the  *)
(* user whose claim was granted.                                           *)
GrantIsHonoured ==
  \A p \in Req :
    pc[p] = "claimed" =>
      \/ status[req[p].conv] = "resolved"
      \/ assignedAgentId[req[p].conv] = req[p].user

(* Between the checks of claimConversation and its COMMIT, what was        *)
(* checked stays true: the row is still unassigned and not resolved.       *)
ClaimDecisionStillValid ==
  \A p \in Req :
    pc[p] = "claiming" =>
      /\ assignedAgentId[req[p].conv] = None
      /\ status[req[p].conv] \in ConversationStatus \ {"resolved"}

(* No request reopens a resolved conversation: a claim that raced with the *)
(* resolution does not put it back to pending.                             *)
ResolvedIsFinal ==
  [][\A c \in Conv : status[c] = "resolved" => status'[c] = "resolved"]_vars

(* A resolution note or an e-mail job exists only for a conversation that  *)
(* is stored as resolved, whatever failed or rolled back in between.       *)
EffectsFollowResolution ==
  /\ \A p \in jobs : status[req[p].conv] = "resolved"
  /\ \A c \in Conv : notes[c] # {} => status[c] = "resolved"

(* No request gets past the lookup of its conversation, and so writes the  *)
(* row, a note or a job, unless the conversation is in its user's tenant   *)
(* (or the user is a super admin without one); the agent a conversation is *)
(* assigned to belongs to its tenant.                                      *)
TenantIsolation ==
  /\ \A p \in Req :
       pc[p] \in {"created", "claiming", "claimed", "loading", "saving",
                  "noting", "enqueueing", "resolved"}
         => InScope(req[p].user, tenantId[req[p].conv])
  /\ \A c \in Conv :
       assignedAgentId[c] # None => TenantOf[assignedAgentId[c]] = tenantId[c]

(* With the migrated schema no save loses a resolution note, though a save *)
(* computed from an older list of messages tries to detach it.             *)
NotesAreKept == [][\A c \in Conv : notes[c] \subseteq notes'[c]]_vars

(* Every received request is answered: no request waits for a row lock for *)
(* ever, also when the holder of the lock fails.                           *)
RequestsFinish == \A p \in Req : pc[p] # "new" ~> pc[p] \in Answered

(***************************************************************************)
(* What the repository says and the code does not keep (see README)        *)
(***************************************************************************)

(* "one silently overwrites the other" is the problem the row lock is said *)
(* to solve: an assignment, once stored, is not overwritten by another     *)
(* request.  A resolve request whose entity was read before the claim      *)
(* stores its own, older idea of the assigned agent.                       *)
AssignmentIsKept ==
  [][\A c \in Conv :
       assignedAgentId[c] # None => assignedAgentId'[c] = assignedAgentId[c]]_vars

(* "Conversation is already resolved": a conversation is resolved, and its *)
(* customer notified, once.  Two resolve requests that both read it before *)
(* either saves both succeed and queue a job each.                         *)
ResolvedOnce ==
  \A p, q \in jobs : req[p].conv = req[q].conv => p = q
=============================================================================
