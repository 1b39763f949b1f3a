---------------------- MODULE ConversationsInvariants ----------------------
(***************************************************************************)
(* The inductive invariant of Conversations: what the safety properties    *)
(* need to hold before a step to hold after it.                            *)
(***************************************************************************)
EXTENDS ConversationsRefinement

(* A claim transaction that was granted the row lock keeps it until it     *)
(* ends; its checks and the grants made before it rest on that.            *)
LockHeld ==
  \A p \in Req : pc[p] = "claiming" => rowLock[req[p].conv] = p

ClaimInv ==
  /\ LockHeld
  /\ ClaimDecisionStillValid
  /\ GrantIsHonoured
  /\ SingleGrant

(* A resolve request past its save works on a resolved conversation, and   *)
(* the queue only has jobs of resolve requests that were answered.         *)
EffectsInv ==
  /\ \A p \in Req :
       pc[p] \in {"noting", "enqueueing", "resolved"} =>
         status[req[p].conv] = "resolved"
  /\ \A p \in jobs : pc[p] = "resolved"
  /\ \A c \in Conv : notes[c] # {} => status[c] = "resolved"

(* Past its lookup a request works on a conversation that exists and is in *)
(* its scope; claims come from tenant users; the agent in memory belongs   *)
(* to the conversation's tenant.                                           *)
TenantInv ==
  /\ \A p \in Req :
       pc[p] \in {"created", "claiming", "claimed", "loading", "saving",
                  "noting", "enqueueing", "resolved"} =>
         Found(req[p].user, req[p].conv)
  /\ \A p \in Req : pc[p] \in {"locking", "claiming"} => MayClaim(req[p].user)
  /\ \A p \in Req :
       /\ pc[p] \in {"loading", "saving"}
       /\ entity[p].agent # None
       => TenantOf[entity[p].agent] = tenantId[req[p].conv]
  /\ \A c \in Conv :
       assignedAgentId[c] # None =>
         status[c] # "absent" /\ TenantOf[assignedAgentId[c]] = tenantId[c]

(* A row names the holder or, once a stale save was through, nobody.       *)
AgentIsHolder == \A c \in Conv : assignedAgentId[c] \in {None, Holder(c)}

(* The agent a resolve request has in memory is the holder or nobody; when *)
(* it is nobody, the row has no agent either or a claim was granted since. *)
EntityIsHolder ==
  \A p \in Req, c \in Conv :
    pc[p] \in {"loading", "saving"} /\ req[p].conv = c =>
      IF entity[p].agent = None
        THEN Granted(c) # {} \/ assignedAgentId[c] = None
        ELSE Holder(c) = entity[p].agent

HolderInv == AgentIsHolder /\ EntityIsHolder

(* Everything the proofs use, in one formula.                              *)
IInv == TypeOK /\ ClaimInv /\ EffectsInv /\ TenantInv /\ HolderInv
=============================================================================
