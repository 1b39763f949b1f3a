------------------------ MODULE ConversationsProofs ------------------------
(***************************************************************************)
(* Proofs about Conversations for every set of users, tenants,             *)
(* conversations and requests.                                             *)
(***************************************************************************)
EXTENDS ConversationsInvariants, TLAPS

USE DEF Waiting, Answered

(***************************************************************************)
(* Type correctness                                                        *)
(***************************************************************************)

LEMMA InitTypeOK == Init => TypeOK
BY DEF Init, TableInit, TypeOK, Phase, NoRequest, NoEntity, NoDiff

LEMMA NextTypeOK == TypeOK /\ [Next]_vars => TypeOK'
<1> SUFFICES ASSUME TypeOK, [Next]_vars PROVE TypeOK'
  OBVIOUS
<1> USE NoneAssumption, TenantAssumption DEF TypeOK, Phase, ConversationStatus,
        Request, rows, memory
<1>1. ASSUME NEW p \in Req, NEW u \in User, NEW c \in Conv, Create(p, u, c)
      PROVE  TypeOK'
  BY <1>1 DEF Create, CreateIn
<1>2. ASSUME NEW p \in Req, NEW u \in User, NEW c \in Conv, StartClaim(p, u, c)
      PROVE  TypeOK'
  BY <1>2 DEF StartClaim
<1>3. ASSUME NEW p \in Req, NEW u \in User, NEW c \in Conv, NEW n \in BOOLEAN,
             StartResolve(p, u, c, n)
      PROVE  TypeOK'
  <2> DEFINE e == [agent |-> assignedAgentId[c], notes |-> notes[c]]
  <2>1. /\ req' = [req EXCEPT ![p] = Request(u, c, n)]
        /\ pc' \in {[pc EXCEPT ![p] = "loading"], [pc EXCEPT ![p] = "refused"]}
        /\ entity' = [entity EXCEPT ![p] = e] \/ entity' = entity
        /\ UNCHANGED <<status, tenantId, assignedAgentId, notes, rowLock, jobs, diff>>
    BY <1>3 DEF StartResolve
  <2>2. e \in [agent : User \cup {None}, notes : SUBSET Req]
    OBVIOUS
  <2> HIDE DEF e
  <2>3. entity' \in [Req -> [agent : User \cup {None}, notes : SUBSET Req]]
    <3> DEFINE E == [agent : User \cup {None}, notes : SUBSET Req]
    <3>1. entity \in [Req -> E] /\ e \in E
      BY <2>2
    <3> HIDE DEF E
    <3>2. entity' \in [Req -> E]
      BY <2>1, <3>1
    <3> QED
      BY <3>2 DEF E
  <2>4. pc' \in [Req -> Phase]
    BY <2>1
  <2>5. req' \in [Req -> [user : User \cup {None}, conv : Conv \cup {None},
                         note : BOOLEAN]]
    BY <2>1
  <2> QED
    BY <2>1, <2>3, <2>4, <2>5
<1>4. ASSUME NEW p \in Req, ClaimNotFound(p) \/ ClaimConflict(p) \/ ClaimAgain(p)
      PROVE  TypeOK'
  BY <1>4 DEF ClaimNotFound, ClaimConflict, ClaimAgain
<1>5. ASSUME NEW p \in Req, ClaimLock(p)
      PROVE  TypeOK'
  BY <1>5 DEF ClaimLock
<1>6. ASSUME NEW p \in Req, ClaimCommit(p)
      PROVE  TypeOK'
  BY <1>6 DEF ClaimCommit
<1>7. ASSUME NEW p \in Req, ResolveLoad(p)
      PROVE  TypeOK'
  <2>1. SaveDiff(entity[p], req[p].conv) \in [setAgent : BOOLEAN, detach : SUBSET Req]
    <3>1. SaveDiff(entity[p], req[p].conv).detach \subseteq Req
      BY <1>7 DEF ResolveLoad, SaveDiff
    <3> QED
      BY <3>1 DEF SaveDiff
  <2>2. diff' \in [Req -> [setAgent : BOOLEAN, detach : SUBSET Req]]
    BY <1>7, <2>1 DEF ResolveLoad
  <2> QED
    BY <1>7, <2>2 DEF ResolveLoad
<1>8. ASSUME NEW p \in Req, ResolveSave(p)
      PROVE  TypeOK'
  <2> DEFINE c == req[p].conv
             a == IF diff[p].setAgent THEN entity[p].agent ELSE assignedAgentId[c]
             s == notes[c] \ diff[p].detach
  <2>1. /\ pc[p] = "saving"
        /\ status' = [status EXCEPT ![c] = "resolved"]
        /\ assignedAgentId' = [assignedAgentId EXCEPT ![c] = a]
        /\ notes' = [notes EXCEPT ![c] = s]
        /\ pc' \in {[pc EXCEPT ![p] = "noting"], [pc EXCEPT ![p] = "enqueueing"]}
        /\ UNCHANGED <<tenantId, rowLock, jobs, req, entity, diff>>
    BY <1>8 DEF ResolveSave
  <2>2. c \in Conv => a \in User \cup {None} /\ s \subseteq Req
    OBVIOUS
  <2> HIDE DEF c, a, s
  <2>3. /\ status' \in [Conv -> ConversationStatus \cup {"absent"}]
        /\ assignedAgentId' \in [Conv -> User \cup {None}]
        /\ notes' \in [Conv -> SUBSET Req]
    BY <2>1, <2>2
  <2>4. pc' \in [Req -> Phase]
    BY <2>1
  <2> QED
    BY <2>1, <2>3, <2>4
<1>9. ASSUME NEW p \in Req, ResolveSaveRejected(p)
      PROVE  TypeOK'
  BY <1>9 DEF ResolveSaveRejected
<1>10. ASSUME NEW p \in Req, ResolveNote(p)
       PROVE  TypeOK'
  BY <1>10 DEF ResolveNote
<1>11. ASSUME NEW p \in Req, ResolveEnqueue(p)
       PROVE  TypeOK'
  BY <1>11 DEF ResolveEnqueue
<1>12. ASSUME NEW P \in SUBSET Req, Fail(P)
       PROVE  TypeOK'
  BY <1>12 DEF Fail
<1>13. CASE UNCHANGED vars
  BY <1>13 DEF vars
<1> QED
  BY <1>1, <1>2, <1>3, <1>4, <1>5, <1>6, <1>7, <1>8, <1>9, <1>10, <1>11, <1>12,
     <1>13 DEF Next, Receive, Serve, ServeRows, Idle

(* Every variable keeps the shape its declaration says.                    *)
THEOREM TypeCorrect == Spec => []TypeOK
BY InitTypeOK, NextTypeOK, PTL DEF Spec

(***************************************************************************)
(* Claims: the lock, the decision made under it and the grants             *)
(***************************************************************************)

LEMMA InitClaimInv == Init => ClaimInv
BY DEF Init, ClaimInv, LockHeld, ClaimDecisionStillValid, GrantIsHonoured, SingleGrant

LEMMA NextClaimInv == TypeOK /\ ClaimInv /\ [Next]_vars => ClaimInv'
<1> SUFFICES ASSUME TypeOK, ClaimInv, [Next]_vars PROVE ClaimInv'
  OBVIOUS
<1> USE NoneAssumption, ReqAssumption DEF TypeOK, ClaimInv, LockHeld,
        ClaimDecisionStillValid, GrantIsHonoured, SingleGrant,
        ConversationStatus, Request, rows, memory
<1>1. ASSUME NEW p \in Req, NEW u \in User, NEW c \in Conv, Create(p, u, c)
      PROVE  ClaimInv'
  BY <1>1 DEF Create, CreateIn
<1>2. ASSUME NEW p \in Req, NEW u \in User, NEW c \in Conv, StartClaim(p, u, c)
      PROVE  ClaimInv'
  BY <1>2 DEF StartClaim
<1>3. ASSUME NEW p \in Req, NEW u \in User, NEW c \in Conv, NEW n \in BOOLEAN,
             StartResolve(p, u, c, n)
      PROVE  ClaimInv'
  BY <1>3 DEF StartResolve
<1>4. ASSUME NEW p \in Req, ClaimNotFound(p) \/ ClaimConflict(p)
      PROVE  ClaimInv'
  <2>1. /\ pc' = [pc EXCEPT ![p] = "refused"]
        /\ UNCHANGED <<status, tenantId, assignedAgentId, rowLock, req>>
    BY <1>4 DEF ClaimNotFound, ClaimConflict
  <2> QED
    BY <2>1
<1>5. ASSUME NEW p \in Req, ClaimAgain(p)
      PROVE  ClaimInv'
  BY <1>5 DEF ClaimAgain, ClaimRefused
<1>6. ASSUME NEW p \in Req, ClaimLock(p)
      PROVE  ClaimInv'
  BY <1>6 DEF ClaimLock, ClaimRefused, RowFree, Found
<1>7. ASSUME NEW p \in Req, ClaimCommit(p)
      PROVE  ClaimInv'
  BY <1>7 DEF ClaimCommit
<1>8. ASSUME NEW p \in Req, ResolveLoad(p) \/ ResolveNote(p) \/ ResolveEnqueue(p)
                             \/ ResolveSaveRejected(p)
      PROVE  ClaimInv'
  <2>1. /\ \A q \in Req \ {p} : pc'[q] = pc[q]
        /\ pc'[p] \notin {"claiming", "claimed"}
        /\ UNCHANGED <<status, assignedAgentId, rowLock, req>>
    BY <1>8 DEF ResolveLoad, ResolveNote, ResolveEnqueue, ResolveSaveRejected
  <2> QED
    BY <2>1
<1>9. ASSUME NEW p \in Req, ResolveSave(p)
      PROVE  ClaimInv'
  BY <1>9 DEF ResolveSave, RowFree
<1>10. ASSUME NEW P \in SUBSET Req, Fail(P)
       PROVE  ClaimInv'
  BY <1>10 DEF Fail
<1>11. CASE UNCHANGED vars
  BY <1>11 DEF vars
<1> QED
  BY <1>1, <1>2, <1>3, <1>4, <1>5, <1>6, <1>7, <1>8, <1>9, <1>10, <1>11
     DEF Next, Receive, Serve, ServeRows, Idle

LEMMA ClaimInvariance == Spec => []ClaimInv
<1>1. TypeOK /\ ClaimInv /\ [Next]_vars => TypeOK' /\ ClaimInv'
  BY NextTypeOK, NextClaimInv
<1> QED
  BY InitTypeOK, InitClaimInv, <1>1, PTL DEF Spec

(* However many requests race for a conversation, claims of it are granted *)
(* to one user at most.                                                    *)
THEOREM SingleGrantHolds == Spec => []SingleGrant
<1>1. ClaimInv => SingleGrant
  BY DEF ClaimInv
<1> QED
  BY <1>1, ClaimInvariance, PTL

(* A granted claim stands until the conversation is resolved.              *)
THEOREM GrantIsHonouredHolds == Spec => []GrantIsHonoured
<1>1. ClaimInv => GrantIsHonoured
  BY DEF ClaimInv
<1> QED
  BY <1>1, ClaimInvariance, PTL

(* What a claim checked is still true when it commits.                     *)
THEOREM ClaimDecisionHolds == Spec => []ClaimDecisionStillValid
<1>1. ClaimInv => ClaimDecisionStillValid
  BY DEF ClaimInv
<1> QED
  BY <1>1, ClaimInvariance, PTL

(***************************************************************************)
(* Resolutions                                                             *)
(***************************************************************************)

(* The steps that write a row of the table.                                *)
LEMMA StoringSteps ==
  ASSUME [Next]_vars
  PROVE  \/ \E p \in Req : \/ \E u \in User, c \in Conv : Create(p, u, c)
                          \/ ClaimCommit(p)
                          \/ ResolveSave(p)
         \/ UNCHANGED table
<1>1. ASSUME NEW p \in Req, NEW u \in User, NEW c \in Conv,
             StartClaim(p, u, c) \/ \E n \in BOOLEAN : StartResolve(p, u, c, n)
      PROVE  UNCHANGED table
  BY <1>1 DEF StartClaim, StartResolve, rows, table
<1>2. ASSUME NEW p \in Req,
             ClaimNotFound(p) \/ ClaimConflict(p) \/ ClaimAgain(p) \/ ClaimLock(p)
      PROVE  UNCHANGED table
  BY <1>2 DEF ClaimNotFound, ClaimConflict, ClaimAgain, ClaimLock, rows, table
<1>3. ASSUME NEW p \in Req,
             \/ ResolveLoad(p) \/ ResolveSaveRejected(p) \/ ResolveNote(p)
             \/ ResolveEnqueue(p)
      PROVE  UNCHANGED table
  BY <1>3 DEF ResolveLoad, ResolveSaveRejected, ResolveNote, ResolveEnqueue, rows, table
<1>4. ASSUME NEW P \in SUBSET Req, Fail(P) PROVE UNCHANGED table
  BY <1>4 DEF Fail, rows, table
<1> QED
  BY <1>1, <1>2, <1>3, <1>4 DEF Next, Receive, Serve, ServeRows, Idle, vars, rows, table

(* Of the steps that store a status, only a claim could reopen a resolved  *)
(* conversation, and its decision was made on a row that is not resolved.  *)
LEMMA StepKeepsResolved ==
  ASSUME TypeOK, ClaimInv, [Next]_vars
  PROVE  \A c \in Conv : status[c] = "resolved" => status'[c] = "resolved"
<1> USE DEF TypeOK, rows, memory
<1>1. ASSUME NEW p \in Req, NEW u \in User, NEW c \in Conv, Create(p, u, c)
      PROVE  \A d \in Conv : status[d] = "resolved" => status'[d] = "resolved"
  BY <1>1 DEF Create, CreateIn
<1>2. ASSUME NEW p \in Req, ClaimCommit(p)
      PROVE  \A d \in Conv : status[d] = "resolved" => status'[d] = "resolved"
  BY <1>2 DEF ClaimCommit, ClaimInv, ClaimDecisionStillValid
<1>3. ASSUME NEW p \in Req, ResolveSave(p)
      PROVE  \A d \in Conv : status[d] = "resolved" => status'[d] = "resolved"
  BY <1>3 DEF ResolveSave
<1>4. CASE UNCHANGED status
  BY <1>4
<1> QED
  BY <1>1, <1>2, <1>3, <1>4, StoringSteps DEF table

(* A resolved conversation is never reopened.                              *)
THEOREM ResolvedIsFinalHolds == Spec => ResolvedIsFinal
<1>1. TypeOK /\ ClaimInv /\ [Next]_vars =>
        [\A c \in Conv : status[c] = "resolved" => status'[c] = "resolved"]_vars
  BY StepKeepsResolved
<1> QED
  BY <1>1, TypeCorrect, ClaimInvariance, PTL DEF Spec, ResolvedIsFinal

(* With the migrated schema no step removes a resolution note: the only     *)
(* one that could is a save, and it is rolled back.                        *)
THEOREM NotesAreKeptHolds == ASSUME NotNullFk PROVE Spec => NotesAreKept
<1>1. TypeOK /\ [Next]_vars => [\A c \in Conv : notes[c] \subseteq notes'[c]]_vars
  <2> SUFFICES ASSUME TypeOK, [Next]_vars, NEW c \in Conv
               PROVE  notes[c] \subseteq notes'[c]
    OBVIOUS
  <2>1. ASSUME NEW p \in Req, ResolveSave(p)
        PROVE  notes[c] \subseteq notes'[c]
    BY <2>1 DEF ResolveSave, DetachFails, TypeOK
  <2>2. ASSUME NEW p \in Req, ResolveNote(p)
        PROVE  notes[c] \subseteq notes'[c]
    BY <2>2 DEF ResolveNote, TypeOK
  <2>3. ASSUME NEW p \in Req,
               \/ Receive(p)
               \/ ClaimNotFound(p) \/ ClaimConflict(p) \/ ClaimAgain(p)
               \/ ClaimLock(p) \/ ClaimCommit(p) \/ ResolveLoad(p)
               \/ ResolveSaveRejected(p) \/ ResolveEnqueue(p)
        PROVE  notes' = notes
    BY <2>3 DEF Receive, Create, StartClaim, StartResolve, ClaimNotFound,
         ClaimConflict, ClaimAgain, ClaimLock, ClaimCommit, ResolveLoad,
         ResolveSaveRejected, ResolveEnqueue, rows
  <2>4. ASSUME NEW P \in SUBSET Req, Fail(P) PROVE notes' = notes
    BY <2>4 DEF Fail, rows
  <2> QED
    BY <2>1, <2>2, <2>3, <2>4 DEF Next, Serve, ServeRows, Idle, vars, rows
<1> QED
  BY <1>1, TypeCorrect, PTL DEF Spec, NotesAreKept

LEMMA InitEffectsInv == Init => EffectsInv
BY DEF Init, EffectsInv

LEMMA NextEffectsInv ==
  TypeOK /\ ClaimInv /\ EffectsInv /\ [Next]_vars => EffectsInv'
<1> SUFFICES ASSUME TypeOK, ClaimInv, EffectsInv, [Next]_vars PROVE EffectsInv'
  OBVIOUS
<1>0. \A c \in Conv : status[c] = "resolved" => status'[c] = "resolved"
  BY StepKeepsResolved
<1> USE <1>0, NoneAssumption, ReqAssumption DEF TypeOK, EffectsInv, Request, rows, memory
<1>1. ASSUME NEW p \in Req, NEW u \in User, NEW c \in Conv, Create(p, u, c)
      PROVE  EffectsInv'
  BY <1>1 DEF Create, CreateIn
<1>2. ASSUME NEW p \in Req, NEW u \in User, NEW c \in Conv, StartClaim(p, u, c)
      PROVE  EffectsInv'
  BY <1>2 DEF StartClaim
<1>3. ASSUME NEW p \in Req, NEW u \in User, NEW c \in Conv, NEW n \in BOOLEAN,
             StartResolve(p, u, c, n)
      PROVE  EffectsInv'
  BY <1>3 DEF StartResolve
<1>4. ASSUME NEW p \in Req,
             \/ ClaimNotFound(p) \/ ClaimConflict(p) \/ ClaimAgain(p)
             \/ ClaimLock(p) \/ ClaimCommit(p)
             \/ ResolveLoad(p) \/ ResolveSaveRejected(p)
      PROVE  EffectsInv'
  <2>1. /\ pc[p] # "resolved"
        /\ \A q \in Req \ {p} : pc'[q] = pc[q]
        /\ pc'[p] \notin {"noting", "enqueueing", "resolved"}
        /\ UNCHANGED <<notes, jobs, req>>
    BY <1>4 DEF ClaimNotFound, ClaimConflict, ClaimAgain, ClaimLock, ClaimCommit,
                ResolveLoad, ResolveSaveRejected
  <2> QED
    BY <2>1
<1>5. ASSUME NEW p \in Req, ResolveSave(p)
      PROVE  EffectsInv'
  BY <1>5 DEF ResolveSave
<1>6. ASSUME NEW p \in Req, ResolveNote(p)
      PROVE  EffectsInv'
  BY <1>6 DEF ResolveNote
<1>7. ASSUME NEW p \in Req, ResolveEnqueue(p)
      PROVE  EffectsInv'
  BY <1>7 DEF ResolveEnqueue
<1>8. ASSUME NEW P \in SUBSET Req, Fail(P)
      PROVE  EffectsInv'
  BY <1>8 DEF Fail
<1>9. CASE UNCHANGED vars
  BY <1>9 DEF vars
<1> QED
  BY <1>1, <1>2, <1>3, <1>4, <1>5, <1>6, <1>7, <1>8, <1>9
     DEF Next, Receive, Serve, ServeRows, Idle

(* Notes and jobs exist only for conversations stored as resolved.         *)
THEOREM EffectsFollowResolutionHolds == Spec => []EffectsFollowResolution
<1>1. TypeOK /\ ClaimInv /\ EffectsInv /\ [Next]_vars => EffectsInv'
  BY NextEffectsInv
<1>2. TypeOK /\ EffectsInv => EffectsFollowResolution
  BY DEF TypeOK, EffectsInv, EffectsFollowResolution
<1> QED
  BY <1>1, <1>2, InitEffectsInv, TypeCorrect, ClaimInvariance, PTL DEF Spec

(***************************************************************************)
(* Tenants                                                                 *)
(***************************************************************************)

(* A user who may claim has a tenant, so the filter of its queries is on.  *)
LEMMA ClaimerInTenant ==
  ASSUME NEW u \in User, MayClaim(u), NEW t, InScope(u, t)
  PROVE  TenantOf[u] = t
BY NoneAssumption, TenantAssumption
   DEF MayClaim, InScope, Agent, TenantAdmin, SuperAdmin

(* The tenant of a conversation that exists never changes.                 *)
LEMMA FoundStaysFound ==
  ASSUME TypeOK, ClaimInv, [Next]_vars, NEW u, NEW c \in Conv, Found(u, c)
  PROVE  Found(u, c)' /\ tenantId'[c] = tenantId[c]
<1>1. ASSUME NEW p \in Req, NEW v \in User, NEW d \in Conv, Create(p, v, d)
      PROVE  status'[c] # "absent" /\ tenantId'[c] = tenantId[c]
  BY <1>1 DEF Create, CreateIn, TypeOK, Found
<1>2. ASSUME NEW p \in Req, ClaimCommit(p) \/ ResolveSave(p)
      PROVE  status'[c] # "absent" /\ tenantId'[c] = tenantId[c]
  BY <1>2 DEF ClaimCommit, ResolveSave, TypeOK, Found
<1>3. status'[c] # "absent" /\ tenantId'[c] = tenantId[c]
  BY <1>1, <1>2, StoringSteps DEF Found, table
<1> QED
  BY <1>3 DEF Found, InScope

LEMMA InitTenantInv == Init => TenantInv
BY NoneAssumption DEF Init, TableInit, TenantInv, SeededRow, ConversationStatus

LEMMA NextTenantInv ==
  TypeOK /\ ClaimInv /\ TenantInv /\ [Next]_vars => TenantInv'
<1> SUFFICES ASSUME TypeOK, ClaimInv, TenantInv, [Next]_vars PROVE TenantInv'
  OBVIOUS
<1> DEFINE Working == {"created", "claiming", "claimed", "loading", "saving",
                       "noting", "enqueueing", "resolved"}
<1>0. \A u \in User, c \in Conv :
         Found(u, c) => Found(u, c)' /\ tenantId'[c] = tenantId[c]
  BY FoundStaysFound
<1> USE NoneAssumption, ReqAssumption, TenantAssumption DEF TypeOK, rows, memory
<1>1. ASSUME NEW p \in Req, NEW u \in User, NEW c \in Conv, Create(p, u, c)
      PROVE  TenantInv'
  <2>1. /\ pc' = [pc EXCEPT ![p] = "created"]
        /\ req' = [req EXCEPT ![p] = Request(u, c, FALSE)]
        /\ Found(u, c)'
        /\ UNCHANGED <<assignedAgentId, entity>>
        /\ status' = [status EXCEPT ![c] = "open"]
        /\ tenantId' = [tenantId EXCEPT ![c] = TenantOf[u]]
        /\ status[c] = "absent"
    BY <1>1 DEF Create, CreateIn, Found, InScope
  <2> QED
    BY <1>0, <2>1 DEF TenantInv, Request
<1>2. ASSUME NEW p \in Req, NEW u \in User, NEW c \in Conv, StartClaim(p, u, c)
      PROVE  TenantInv'
  <2>1. /\ \A q \in Req \ {p} : pc'[q] = pc[q] /\ req'[q] = req[q]
        /\ pc'[p] = "refused" \/ (pc'[p] = "locking" /\ MayClaim(u))
        /\ req'[p].user = u
        /\ UNCHANGED <<status, tenantId, assignedAgentId, entity>>
    BY <1>2 DEF StartClaim, Request
  <2>2. \A q \in Req : pc'[q] \in {"locking", "claiming"} => MayClaim(req'[q].user)
    BY <2>1 DEF TenantInv
  <2>3. \A q \in Req : pc'[q] \in Working => Found(req[q].user, req[q].conv)' /\ q # p
    BY <1>0, <2>1 DEF TenantInv, Found
  <2> QED
    BY <2>1, <2>2, <2>3 DEF TenantInv, MayClaim
<1>3. ASSUME NEW p \in Req, NEW u \in User, NEW c \in Conv, NEW n \in BOOLEAN,
             StartResolve(p, u, c, n)
      PROVE  TenantInv'
  <2>1. CASE CanFindOne(u, c) /\ ~ResolveRefused(u, c)
    <3>1. /\ pc' = [pc EXCEPT ![p] = "loading"]
          /\ req' = [req EXCEPT ![p] = Request(u, c, n)]
          /\ entity'[p].agent = assignedAgentId[c]
          /\ \A q \in Req \ {p} : entity'[q] = entity[q]
          /\ Found(u, c)
          /\ UNCHANGED <<status, tenantId, assignedAgentId>>
      BY <1>3, <2>1 DEF StartResolve, CanFindOne
    <3> QED
      BY <1>0, <3>1 DEF TenantInv, Request
  <2>2. CASE ~(CanFindOne(u, c) /\ ~ResolveRefused(u, c))
    <3>1. /\ pc' = [pc EXCEPT ![p] = "refused"]
          /\ req' = [req EXCEPT ![p] = Request(u, c, n)]
          /\ UNCHANGED <<status, tenantId, assignedAgentId, entity>>
      BY <1>3, <2>2 DEF StartResolve
    <3> QED
      BY <1>0, <3>1 DEF TenantInv, Request
  <2> QED
    BY <2>1, <2>2
<1>4. ASSUME NEW p \in Req,
             \/ ClaimNotFound(p) \/ ClaimConflict(p) \/ ClaimAgain(p)
             \/ ClaimLock(p) \/ ResolveLoad(p) \/ ResolveSaveRejected(p)
             \/ ResolveNote(p) \/ ResolveEnqueue(p)
      PROVE  TenantInv'
  <2>1. /\ \A q \in Req \ {p} : pc'[q] = pc[q]
        /\ pc'[p] \in Working => pc[p] \in Working \/ Found(req[p].user, req[p].conv)
        /\ pc'[p] \in {"locking", "claiming"} => pc[p] \in {"locking", "claiming"}
        /\ pc'[p] \in {"loading", "saving"} => pc[p] \in {"loading", "saving"}
        /\ pc[p] # "new"
        /\ UNCHANGED <<status, tenantId, assignedAgentId, req, entity>>
    BY <1>4 DEF ClaimNotFound, ClaimConflict, ClaimAgain, ClaimLock, ResolveLoad,
                ResolveSaveRejected, ResolveNote, ResolveEnqueue
  <2> QED
    BY <1>0, <2>1 DEF TenantInv
<1>5. ASSUME NEW p \in Req, ClaimCommit(p)
      PROVE  TenantInv'
  <2> DEFINE u == req[p].user
             c == req[p].conv
  <2>1. /\ u \in User /\ c \in Conv
        /\ Found(u, c) /\ MayClaim(u)
    BY <1>5 DEF ClaimCommit, TenantInv
  <2>2. TenantOf[u] = tenantId[c]
    BY <2>1, ClaimerInTenant DEF Found
  <2>3. /\ pc' = [pc EXCEPT ![p] = "claimed"]
        /\ status' = [status EXCEPT ![c] = "pending"]
        /\ assignedAgentId' = [assignedAgentId EXCEPT ![c] = u]
        /\ UNCHANGED <<tenantId, req, entity>>
        /\ pc[p] = "claiming"
    BY <1>5 DEF ClaimCommit
  <2> QED
    BY <1>0, <2>1, <2>2, <2>3 DEF TenantInv
<1>6. ASSUME NEW p \in Req, ResolveSave(p)
      PROVE  TenantInv'
  <2> DEFINE c == req[p].conv
  <2>1. /\ c \in Conv
        /\ Found(req[p].user, c)
        /\ pc[p] = "saving"
        /\ status' = [status EXCEPT ![c] = "resolved"]
        /\ \A d \in Conv \ {c} : assignedAgentId'[d] = assignedAgentId[d]
        /\ assignedAgentId'[c] \in {entity[p].agent, assignedAgentId[c]}
        /\ \A q \in Req \ {p} : pc'[q] = pc[q]
        /\ pc'[p] \in {"noting", "enqueueing"}
        /\ UNCHANGED <<tenantId, req, entity>>
    BY <1>6 DEF ResolveSave, TenantInv
  <2>2. assignedAgentId'[c] # None => TenantOf[assignedAgentId'[c]] = tenantId[c]
    BY <2>1 DEF TenantInv
  <2> QED
    BY <1>0, <2>1, <2>2 DEF TenantInv
<1>7. ASSUME NEW P \in SUBSET Req, Fail(P)
      PROVE  TenantInv'
  <2>1. /\ \A q \in Req : pc'[q] = "failed" \/ pc'[q] = pc[q]
        /\ UNCHANGED <<status, tenantId, assignedAgentId, req, entity>>
    BY <1>7 DEF Fail
  <2> QED
    BY <1>0, <2>1 DEF TenantInv
<1>8. CASE UNCHANGED vars
  BY <1>8 DEF vars, TenantInv, Found
<1> QED
  BY <1>1, <1>2, <1>3, <1>4, <1>5, <1>6, <1>7, <1>8
     DEF Next, Receive, Serve, ServeRows, Idle

(* No request works outside its tenant, and a conversation's agent is of   *)
(* its tenant.                                                             *)
THEOREM TenantIsolationHolds == Spec => []TenantIsolation
<1>1. TypeOK /\ ClaimInv /\ TenantInv /\ [Next]_vars => TenantInv'
  BY NextTenantInv
<1>2. TenantInv => TenantIsolation
  BY DEF TenantInv, TenantIsolation, Found
<1> QED
  BY <1>1, <1>2, InitTenantInv, TypeCorrect, ClaimInvariance, PTL DEF Spec

(***************************************************************************)
(* The holder of a conversation                                            *)
(***************************************************************************)

(* What the state says of a conversation's holder, given the claims'       *)
(* invariant: every granted claim names it, and the row does until the     *)
(* conversation is resolved.                                               *)
HolderMeaning ==
  \A c \in Conv :
    /\ \A p \in Granted(c) : Holder(c) = req[p].user
    /\ Granted(c) = {} => Holder(c) = assignedAgentId[c]
    /\ status[c] # "resolved" => Holder(c) = assignedAgentId[c]

LEMMA HolderFacts == TypeOK /\ ClaimInv => HolderMeaning
<1> SUFFICES ASSUME TypeOK, ClaimInv, NEW c \in Conv
             PROVE  /\ \A p \in Granted(c) : Holder(c) = req[p].user
                    /\ Granted(c) = {} => Holder(c) = assignedAgentId[c]
                    /\ status[c] # "resolved" => Holder(c) = assignedAgentId[c]
  BY DEF HolderMeaning
<1>1. ASSUME NEW p \in Granted(c)
      PROVE  Holder(c) = req[p].user
  <2> DEFINE q == CHOOSE x \in Granted(c) : TRUE
  <2>1. q \in Granted(c)
    BY <1>1
  <2>2. req[q].user = req[p].user
    BY <1>1, <2>1 DEF ClaimInv, SingleGrant, Granted
  <2>3. Holder(c) = req[q].user
    BY <1>1 DEF Holder
  <2> QED
    BY <2>2, <2>3
<1>2. Granted(c) = {} => Holder(c) = assignedAgentId[c]
  BY DEF Holder
<1>3. ASSUME NEW p \in Granted(c), status[c] # "resolved"
      PROVE  Holder(c) = assignedAgentId[c]
  BY <1>1, <1>3 DEF ClaimInv, GrantIsHonoured, Granted
<1> QED
  BY <1>1, <1>2, <1>3

(* A step of a request that neither was nor becomes a granted claim leaves *)
(* the grants as they are, and the holder too when the row keeps its agent.*)
LEMMA GrantsKept ==
  ASSUME NEW p \in Req,
         \A q \in Req \ {p} : pc'[q] = pc[q] /\ req'[q] = req[q],
         pc[p] # "claimed", pc'[p] # "claimed",
         NEW c \in Conv
  PROVE  /\ Granted(c)' = Granted(c)
         /\ assignedAgentId'[c] = assignedAgentId[c] => Holder(c)' = Holder(c)
         /\ Granted(c) # {} => Holder(c)' = Holder(c)
<1>1. Granted(c)' = Granted(c)
  BY DEF Granted
<1>2. ASSUME Granted(c) # {}
      PROVE  Holder(c)' = Holder(c)
  <2> DEFINE q == CHOOSE x \in Granted(c) : TRUE
  <2>1. q \in Req \ {p}
    BY <1>2 DEF Granted
  <2>2. Holder(c) = req[q].user
    BY <1>2 DEF Holder
  <2>3. Holder(c)' = req'[q].user
    BY <1>1, <1>2 DEF Holder
  <2> QED
    BY <2>1, <2>2, <2>3
<1>3. ASSUME Granted(c) = {}, assignedAgentId'[c] = assignedAgentId[c]
      PROVE  Holder(c)' = Holder(c)
  BY <1>1, <1>3 DEF Holder
<1> QED
  BY <1>1, <1>2, <1>3

(* The step that grants a conversation which nobody holds.                 *)
Grants(p, c) ==
  /\ ClaimCommit(p)
  /\ req[p].conv = c
  /\ status[c] \notin {"absent", "resolved"}
  /\ Holder(c) = None
  /\ Holder(c)' = req[p].user
  /\ Granted(c)' # {}

(* A claim that commits is a grant.                                        *)
LEMMA CommitGrants ==
  ASSUME TypeOK, ClaimInv, TypeOK', ClaimInv',
         NEW p \in Req, ClaimCommit(p), NEW c \in Conv, c = req[p].conv
  PROVE  Grants(p, c)
<1>1. HolderMeaning
  BY HolderFacts
<1>2. HolderMeaning'
  <2>1. TypeOK' /\ ClaimInv' => HolderMeaning'
    BY HolderFacts, PTL
  <2> QED
    BY <2>1
<1>3. /\ pc[p] = "claiming"
      /\ pc' = [pc EXCEPT ![p] = "claimed"]
      /\ UNCHANGED req
  BY DEF ClaimCommit, memory
<1>4. status[c] \notin {"absent", "resolved"} /\ assignedAgentId[c] = None
  BY <1>3 DEF ClaimInv, ClaimDecisionStillValid, ConversationStatus
<1>5. Holder(c) = None
  BY <1>1, <1>4 DEF HolderMeaning
<1>6. p \in Granted(c)'
  BY <1>3 DEF Granted, TypeOK
<1>7. Holder(c)' = req[p].user
  BY <1>2, <1>3, <1>6 DEF HolderMeaning
<1> QED
  BY <1>4, <1>5, <1>6, <1>7 DEF Grants

(* The holder of a conversation changes only when a claim of a free one is *)
(* granted; in particular a save that overwrites the row does not.         *)
LEMMA HolderStep ==
  ASSUME TypeOK, ClaimInv, HolderInv, TypeOK', ClaimInv', [Next]_vars,
         NEW c \in Conv
  PROVE  \/ Holder(c)' = Holder(c) /\ Granted(c) \subseteq Granted(c)'
         \/ \E p \in Req : Grants(p, c)
<1> DEFINE Kept == Holder(c)' = Holder(c) /\ Granted(c) \subseteq Granted(c)'
<1>1. HolderMeaning
  BY HolderFacts
<1>2. HolderMeaning'
  <2>1. TypeOK' /\ ClaimInv' => HolderMeaning'
    BY HolderFacts, PTL
  <2> QED
    BY <2>1
<1> USE DEF rows, memory
<1>3. ASSUME NEW p \in Req,
             \/ Receive(p)
             \/ ClaimNotFound(p) \/ ClaimConflict(p) \/ ClaimLock(p)
             \/ ResolveLoad(p) \/ ResolveSaveRejected(p) \/ ResolveNote(p)
             \/ ResolveEnqueue(p)
      PROVE  Kept
  <2> DEFINE Frame == /\ \A q \in Req \ {p} : pc'[q] = pc[q] /\ req'[q] = req[q]
                      /\ pc[p] # "claimed" /\ pc'[p] # "claimed"
                      /\ assignedAgentId' = assignedAgentId
  <2>1. ASSUME NEW u \in User, NEW d \in Conv,
               \/ Create(p, u, d) \/ StartClaim(p, u, d)
               \/ \E n \in BOOLEAN : StartResolve(p, u, d, n)
        PROVE  Frame
    <3>1. /\ pc[p] = "new"
          /\ pc'[p] # "claimed"
          /\ \A q \in Req \ {p} : pc'[q] = pc[q]
      BY <2>1 DEF TypeOK, Create, CreateIn, StartClaim, StartResolve
    <3>2. /\ \A q \in Req \ {p} : req'[q] = req[q]
          /\ assignedAgentId' = assignedAgentId
      BY <2>1 DEF TypeOK, Create, CreateIn, StartClaim, StartResolve
    <3> QED
      BY <3>1, <3>2
  <2>2. ~Receive(p) => Frame
    BY <1>3 DEF TypeOK, ClaimNotFound, ClaimConflict, ClaimLock, ResolveLoad,
         ResolveSaveRejected, ResolveNote, ResolveEnqueue
  <2> QED
    BY <2>1, <2>2, GrantsKept DEF Receive
<1>4. ASSUME NEW p \in Req, ClaimAgain(p)
      PROVE  Kept
  <2>1. /\ pc[p] = "locking" /\ req[p].conv \in Conv
        /\ pc' = [pc EXCEPT ![p] = "claimed"]
        /\ UNCHANGED <<status, assignedAgentId, req>>
        /\ status[req[p].conv] # "resolved"
    BY <1>4 DEF ClaimAgain, ClaimRefused, TypeOK
  <2>2. Granted(c) \subseteq Granted(c)'
    BY <2>1 DEF Granted, TypeOK
  <2>3. CASE c = req[p].conv
    BY <1>1, <1>2, <2>1, <2>2, <2>3 DEF HolderMeaning
  <2>4. CASE c # req[p].conv
    <3>1. Granted(c)' = Granted(c)
      BY <2>1, <2>4 DEF Granted, TypeOK
    <3> QED
      BY <2>1, <3>1 DEF Holder
  <2> QED
    BY <2>2, <2>3, <2>4
<1>5. ASSUME NEW p \in Req, ClaimCommit(p)
      PROVE  Kept \/ Grants(p, c)
  <2>1. /\ pc[p] = "claiming" /\ req[p].conv \in Conv
        /\ pc' = [pc EXCEPT ![p] = "claimed"]
        /\ assignedAgentId' = [assignedAgentId EXCEPT ![req[p].conv] = req[p].user]
        /\ UNCHANGED req
    BY <1>5 DEF ClaimCommit, TypeOK
  <2>2. CASE c = req[p].conv
    BY <1>5, <2>2, CommitGrants
  <2>3. CASE c # req[p].conv
    <3>1. Granted(c)' = Granted(c) /\ assignedAgentId'[c] = assignedAgentId[c]
      BY <2>1, <2>3 DEF Granted, TypeOK
    <3> QED
      BY <2>1, <3>1 DEF Holder
  <2> QED
    BY <2>2, <2>3
<1>6. ASSUME NEW p \in Req, ResolveSave(p)
      PROVE  Kept
  <2>1. /\ pc[p] = "saving" /\ req[p].conv \in Conv
        /\ pc'[p] # "claimed"
        /\ \A q \in Req \ {p} : pc'[q] = pc[q] /\ req'[q] = req[q]
        /\ assignedAgentId'[c] \in {assignedAgentId[c], entity[p].agent}
        /\ c # req[p].conv => assignedAgentId'[c] = assignedAgentId[c]
    BY <1>6 DEF ResolveSave, TypeOK
  <2>2. Granted(c)' = Granted(c) /\ (Granted(c) # {} => Holder(c)' = Holder(c))
    BY <2>1, GrantsKept
  <2>3. Granted(c) = {} => assignedAgentId'[c] = assignedAgentId[c]
    <3>1. ASSUME Granted(c) = {}, c = req[p].conv
          PROVE  entity[p].agent = assignedAgentId[c]
      BY <1>1, <2>1, <3>1 DEF HolderInv, EntityIsHolder, HolderMeaning
    <3> QED
      BY <2>1, <3>1
  <2> QED
    BY <2>1, <2>2, <2>3, GrantsKept
<1>7. ASSUME NEW P \in SUBSET Req, Fail(P)
      PROVE  Kept
  <2>1. /\ \A q \in Req : pc'[q] = "claimed" <=> pc[q] = "claimed"
        /\ UNCHANGED <<assignedAgentId, req>>
    BY <1>7 DEF Fail, TypeOK
  <2>2. Granted(c)' = Granted(c)
    BY <2>1 DEF Granted
  <2> QED
    BY <2>1, <2>2 DEF Holder
<1>8. CASE UNCHANGED vars
  BY <1>8 DEF vars, Holder, Granted
<1> QED
  BY <1>3, <1>4, <1>5, <1>6, <1>7, <1>8 DEF Next, Serve, ServeRows, Idle

LEMMA InitHolderInv == Init => HolderInv
BY DEF Init, HolderInv, AgentIsHolder, EntityIsHolder, Holder, Granted

LEMMA NextEntityIsHolder ==
  TypeOK /\ ClaimInv /\ HolderInv /\ TypeOK' /\ ClaimInv' /\ [Next]_vars
    => EntityIsHolder'
<1> SUFFICES ASSUME TypeOK, ClaimInv, HolderInv, TypeOK', ClaimInv', [Next]_vars,
                    NEW p \in Req, pc'[p] \in {"loading", "saving"},
                    NEW d \in Conv, req'[p].conv = d
             PROVE  IF entity'[p].agent = None
                      THEN Granted(d)' # {} \/ assignedAgentId'[d] = None
                      ELSE Holder(d)' = entity'[p].agent
  BY DEF EntityIsHolder
<1> DEFINE Same == pc[p] \in {"loading", "saving"} /\ UNCHANGED <<req[p], entity[p]>>
<1>1. HolderMeaning /\ HolderMeaning'
  <2>1. TypeOK' /\ ClaimInv' => HolderMeaning'
    BY HolderFacts, PTL
  <2> QED
    BY <2>1, HolderFacts
<1>2. CASE Same
  <2>1. CASE \E q \in Req : Grants(q, d)
    BY <1>1, <1>2, <2>1 DEF Grants, HolderInv, EntityIsHolder
  <2>2. CASE Holder(d)' = Holder(d) /\ Granted(d) \subseteq Granted(d)'
    BY <1>1, <1>2, <2>2 DEF HolderInv, EntityIsHolder, HolderMeaning
  <2> QED
    BY <2>1, <2>2, HolderStep
<1>3. ASSUME NEW u \in User, NEW c \in Conv, NEW n \in BOOLEAN,
             StartResolve(p, u, c, n)
      PROVE  /\ req'[p].conv = c
             /\ entity'[p].agent = Holder(c)'
             /\ entity'[p].agent = assignedAgentId'[c]
  <2>1. /\ req'[p].conv = c
        /\ entity'[p].agent = assignedAgentId[c]
        /\ assignedAgentId' = assignedAgentId
        /\ status'[c] # "resolved"
    BY <1>3 DEF StartResolve, ResolveRefused, Request, TypeOK, rows
  <2> QED
    BY <1>1, <2>1 DEF HolderMeaning
<1>4. ASSUME NEW q \in Req, NEW u \in User, NEW c \in Conv,
             \/ Create(q, u, c) \/ StartClaim(q, u, c)
             \/ \E n \in BOOLEAN : q # p /\ StartResolve(q, u, c, n)
      PROVE  Same
  <2>1. CASE Create(q, u, c)
    BY <2>1 DEF Create, TypeOK
  <2>2. CASE StartClaim(q, u, c)
    BY <2>2 DEF StartClaim, TypeOK
  <2>3. ASSUME NEW n \in BOOLEAN, q # p, StartResolve(q, u, c, n)
        PROVE  Same
    BY <2>3 DEF StartResolve, TypeOK
  <2> QED
    BY <1>4, <2>1, <2>2, <2>3
<1>5. ASSUME NEW q \in Req,
             \/ ClaimNotFound(q) \/ ClaimConflict(q) \/ ClaimAgain(q)
             \/ ClaimLock(q) \/ ClaimCommit(q)
      PROVE  Same
  BY <1>5 DEF ClaimNotFound, ClaimConflict, ClaimAgain, ClaimLock, ClaimCommit,
         memory, TypeOK
<1>6. ASSUME NEW q \in Req,
             \/ ResolveLoad(q) \/ ResolveSave(q) \/ ResolveSaveRejected(q)
             \/ ResolveNote(q) \/ ResolveEnqueue(q)
      PROVE  Same
  BY <1>6 DEF ResolveLoad, ResolveSave, ResolveSaveRejected, ResolveNote,
         ResolveEnqueue, memory, TypeOK
<1>7. ASSUME NEW P \in SUBSET Req, Fail(P)
      PROVE  Same
  BY <1>7 DEF Fail, memory, TypeOK
<1>8. Same \/ \E u \in User, c \in Conv, n \in BOOLEAN : StartResolve(p, u, c, n)
  <2> HIDE DEF Same
  <2>1. UNCHANGED vars => Same
    BY DEF vars, memory, Same
  <2> QED
    BY <1>4, <1>5, <1>6, <1>7, <2>1 DEF Next, Receive, Serve, ServeRows, Idle
<1> QED
  BY <1>2, <1>3, <1>8

(* A save writes nobody or the holder over the agent of the row.           *)
LEMMA NextAgentIsHolder ==
  ASSUME TypeOK, ClaimInv, HolderInv, TypeOK', ClaimInv', [Next]_vars
  PROVE  AgentIsHolder'
<1> SUFFICES ASSUME NEW c \in Conv PROVE assignedAgentId'[c] \in {None, Holder(c)'}
  BY DEF AgentIsHolder
<1>1. ASSUME NEW p \in Req, Grants(p, c) PROVE assignedAgentId'[c] = Holder(c)'
  BY <1>1 DEF Grants, ClaimCommit, TypeOK
<1>2. CASE Holder(c)' = Holder(c)
  <2>1. ASSUME NEW p \in Req, NEW u \in User, NEW d \in Conv, Create(p, u, d)
        PROVE  assignedAgentId'[c] = assignedAgentId[c]
    BY <2>1 DEF Create
  <2>2. ASSUME NEW p \in Req, ClaimCommit(p), ~Grants(p, c)
        PROVE  assignedAgentId'[c] = assignedAgentId[c]
    BY <2>2, CommitGrants DEF ClaimCommit, TypeOK
  <2>3. ASSUME NEW p \in Req, ResolveSave(p)
        PROVE  assignedAgentId'[c] \in {assignedAgentId[c], None, Holder(c)}
    BY <2>3 DEF ResolveSave, HolderInv, EntityIsHolder, TypeOK
  <2> QED
    BY <1>1, <1>2, <2>1, <2>2, <2>3, StoringSteps DEF HolderInv, AgentIsHolder, table
<1> QED
  BY <1>1, <1>2, HolderStep

LEMMA NextHolderInv ==
  TypeOK /\ ClaimInv /\ HolderInv /\ TypeOK' /\ ClaimInv' /\ [Next]_vars
    => HolderInv'
BY NextEntityIsHolder, NextAgentIsHolder DEF HolderInv

(* The inductive invariant holds in every reachable state.                 *)
THEOREM InductiveInvariant == Spec => []IInv
<1>1. Init => IInv
  BY InitTypeOK, InitClaimInv, InitEffectsInv, InitTenantInv, InitHolderInv DEF IInv
<1>2. IInv /\ [Next]_vars => IInv'
  BY NextTypeOK, NextClaimInv, NextEffectsInv, NextTenantInv, NextHolderInv DEF IInv
<1> QED
  BY <1>1, <1>2, PTL DEF Spec

(***************************************************************************)
(* Refinement                                                              *)
(***************************************************************************)

LEMMA InitRefinesLifecycle == Init => Lifecycle!Init
<1> SUFFICES ASSUME Init PROVE Lifecycle!Init
  OBVIOUS
<1>1. \A c \in Conv : Holder(c) = assignedAgentId[c]
  BY DEF Init, Holder, Granted
<1>2. status \in [Conv -> Lifecycle!Status]
  BY DEF Init, TableInit, ConversationStatus, Lifecycle!Status
<1>3. [c \in Conv |-> Holder(c)] \in [Conv -> User \cup {None}]
  <2>1. \A c \in Conv : Holder(c) \in User \cup {None}
    BY <1>1 DEF Init, TableInit
  <2> QED
    BY <2>1
<1>4. \A c \in Conv : status[c] \in {"absent", "open"} => Holder(c) = None
  BY <1>1 DEF Init, TableInit, SeededRow, ConversationStatus
<1> QED
  BY <1>2, <1>3, <1>4 DEF Lifecycle!Init

LEMMA StepRefinesLifecycle ==
  IInv /\ IInv' /\ [Next]_vars => [Lifecycle!Next]_(Lifecycle!vars)
<1> SUFFICES ASSUME IInv, IInv', [Next]_vars
             PROVE  Lifecycle!Next \/ UNCHANGED Lifecycle!vars
  OBVIOUS
<1> DEFINE holder == [c \in Conv |-> Holder(c)]
<1>1. ASSUME NEW c \in Conv
      PROVE  Holder(c)' = Holder(c) \/ \E p \in Req : Grants(p, c)
  BY HolderStep DEF IInv
<1>2. ASSUME NEW p \in Req, NEW c \in Conv, Grants(p, c)
      PROVE  Lifecycle!Next
  <2>1. /\ pc[p] = "claiming" /\ req[p].conv = c /\ req[p].user \in User
        /\ status' = [status EXCEPT ![c] = "pending"]
        /\ pc' = [pc EXCEPT ![p] = "claimed"]
        /\ status[c] \notin {"absent", "resolved"}
    BY <1>2 DEF Grants, ClaimCommit, IInv, TypeOK
  <2>2. \A d \in Conv \ {c} : Holder(d)' = Holder(d)
    <3>1. \A d \in Conv, q \in Req : Grants(q, d) => q = p /\ d = c
      BY <1>2, <2>1 DEF Grants, ClaimCommit, IInv, TypeOK
    <3> QED
      BY <1>1, <3>1
  <2>3. holder' = [holder EXCEPT ![c] = req[p].user]
    BY <1>2, <2>2 DEF Grants
  <2>4. Lifecycle!Claim(c, req[p].user)
    BY <1>2, <2>1, <2>3 DEF Lifecycle!Claim, Grants
  <2> QED
    BY <2>1, <2>4 DEF Lifecycle!Next
<1>3. ASSUME ~ \E p \in Req, c \in Conv : Grants(p, c)
      PROVE  holder' = holder
  BY <1>1, <1>3
<1>4. ASSUME NEW p \in Req, NEW u \in User, NEW c \in Conv, Create(p, u, c),
             holder' = holder
      PROVE  Lifecycle!Next
  <2>1. Lifecycle!Open(c)
    BY <1>4 DEF Create, Lifecycle!Open
  <2> QED
    BY <2>1 DEF Lifecycle!Next
<1>5. ASSUME NEW p \in Req, ResolveSave(p), holder' = holder
      PROVE  Lifecycle!Next
  <2> DEFINE c == req[p].conv
  <2>1. c \in Conv /\ status[c] # "absent"
    BY <1>5 DEF ResolveSave, IInv, TypeOK, TenantInv, Found
  <2>2. Lifecycle!Resolve(c)
    BY <1>5, <2>1 DEF ResolveSave, Lifecycle!Resolve
  <2> QED
    BY <2>1, <2>2 DEF Lifecycle!Next
<1>6. ASSUME NEW p \in Req, ClaimCommit(p)
      PROVE  \E c \in Conv : Grants(p, c)
  <2>1. PICK c \in Conv : c = req[p].conv
    BY <1>6 DEF ClaimCommit, IInv, TypeOK
  <2> QED
    BY <1>6, <2>1, CommitGrants DEF IInv
<1>7. CASE \E p \in Req, c \in Conv : Grants(p, c)
  BY <1>2, <1>7
<1>8. CASE ~ \E p \in Req, c \in Conv : Grants(p, c)
  <2>1. holder' = holder
    BY <1>3, <1>8
  <2> HIDE DEF holder
  <2>2. status' = status \/ Lifecycle!Next
    BY <1>4, <1>5, <1>6, <1>8, <2>1, StoringSteps DEF table
  <2> QED
    BY <2>1, <2>2 DEF Lifecycle!vars, holder
<1> QED
  BY <1>7, <1>8

(* Conversations implements ConversationLifecycle under the mapping of     *)
(* ConversationsRefinement.                                                *)
THEOREM LifecycleRefinement == Spec => ImplementsLifecycle
<1>1. Init => Lifecycle!Init
  BY InitRefinesLifecycle
<1>2. IInv /\ IInv' /\ [Next]_vars => [Lifecycle!Next]_(Lifecycle!vars)
  BY StepRefinesLifecycle
<1> QED
  BY <1>1, <1>2, InductiveInvariant, PTL DEF Spec, ImplementsLifecycle, Lifecycle!Spec

(* The steps that write a row write it as the table allows: a grant goes   *)
(* to a free row and to a user of its tenant, and what a save stores is    *)
(* the agent of the row, nobody, or the holder whom a save took off it.    *)
LEMMA StepRefinesTable ==
  ASSUME IInv, [Next]_vars
  PROVE  [TableNext]_table
<1> USE DEF IInv, TypeOK
<1>1. ASSUME NEW p \in Req, NEW u \in User, NEW c \in Conv, Create(p, u, c)
      PROVE  TableNext
  <2>1. TenantOf[u] \in Tenant
    BY <1>1, TenantAssumption, RoleAssumption
    DEF Create, RolesGuardAllows, SuperAdmin, TenantAdmin, Agent
  <2>2. CreateRow(c, TenantOf[u])
    BY <1>1 DEF Create, CreateIn, CreateRow
  <2> QED
    BY <2>1, <2>2 DEF TableNext
<1>2. ASSUME NEW p \in Req, ClaimCommit(p) PROVE TableNext
  <2> DEFINE u == req[p].user
             c == req[p].conv
  <2>1. /\ u \in User /\ c \in Conv /\ pc[p] = "claiming"
        /\ Found(u, c) /\ MayClaim(u)
        /\ assignedAgentId[c] = None /\ status[c] \in ConversationStatus \ {"resolved"}
    BY <1>2 DEF ClaimCommit, TenantInv, ClaimInv, ClaimDecisionStillValid
  <2>2. TenantOf[u] = tenantId[c] /\ RoleOf[u] # SuperAdmin
    BY <2>1, ClaimerInTenant DEF Found, MayClaim, SuperAdmin, TenantAdmin, Agent
  <2>3. ClaimRow(c, u)
    BY <1>2, <2>1, <2>2 DEF ClaimCommit, ClaimRow, ConversationStatus
  <2> QED
    BY <2>1, <2>3 DEF TableNext
<1>3. ASSUME NEW p \in Req, ResolveSave(p) PROVE TableNext
  <2> DEFINE c == req[p].conv
             a == IF diff[p].setAgent THEN entity[p].agent ELSE assignedAgentId[c]
  <2>1. /\ c \in Conv /\ pc[p] = "saving" /\ status[c] # "absent"
        /\ status' = [status EXCEPT ![c] = "resolved"]
        /\ assignedAgentId' = [assignedAgentId EXCEPT ![c] = a]
        /\ UNCHANGED tenantId
    BY <1>3 DEF ResolveSave, TenantInv, Found
  <2>2. a \in {assignedAgentId[c]} \cup Stale(c)
    <3> SUFFICES ASSUME a = entity[p].agent, a # None, a # assignedAgentId[c]
                 PROVE  a \in Stale(c)
      BY DEF Stale
    <3>1. a = Holder(c) /\ assignedAgentId[c] = None
      BY <2>1 DEF HolderInv, EntityIsHolder, AgentIsHolder
    <3>2. status[c] = "resolved"
      BY <2>1, <3>1, HolderFacts DEF HolderMeaning
    <3>3. a \in User /\ TenantOf[a] = tenantId[c]
      BY <2>1 DEF TenantInv
    <3> QED
      BY <3>1, <3>2, <3>3 DEF Stale
  <2> HIDE DEF a
  <2>3. ResolveRow(c)
    BY <2>1, <2>2 DEF ResolveRow
  <2> QED
    BY <2>1, <2>3 DEF TableNext
<1> QED
  BY <1>1, <1>2, <1>3, StoringSteps

(* Conversations changes the rows of the table only in the ways of         *)
(* ConversationTable, which ConversationList assumes of it.                *)
THEOREM TableRefinement == Spec => ImplementsTable
<1>1. Init => TableInit
  BY DEF Init
<1> QED
  BY <1>1, StepRefinesTable, InductiveInvariant, PTL DEF Spec, ImplementsTable, TableSpec
=============================================================================
