---------------------- MODULE ConversationsRefinement ----------------------
(***************************************************************************)
(* Conversations implements ConversationLifecycle.  The column             *)
(* assigned_agent_id cannot be the abstract holder: a resolve request may  *)
(* store an older value over it (AssignmentIsKept fails).  What the code   *)
(* does promise is kept by the answers it gave: the holder is the user     *)
(* whose claim was granted, and the stored agent as long as there is none. *)
(***************************************************************************)
EXTENDS Conversations

Granted(c) == {p \in Req : pc[p] = "claimed" /\ req[p].conv = c}

Holder(c) ==
  IF Granted(c) # {} THEN req[CHOOSE p \in Granted(c) : TRUE].user
                     ELSE assignedAgentId[c]

Lifecycle == INSTANCE ConversationLifecycle
               WITH holder <- [c \in Conv |-> Holder(c)]

(* Every behaviour of the requests is one of the lifecycle: a conversation *)
(* has one holder for good, a resolved one stays resolved, and every row   *)
(* change is one indivisible lifecycle step, whatever the interleaving.    *)
ImplementsLifecycle == Lifecycle!Spec

(* To everybody else the requests are a series of changes of single rows   *)
(* that the table allows: what is shown of a reader among such changes is  *)
(* so among these requests.  A stale save is one of them, an assignment    *)
(* over another agent's is not.                                            *)
ImplementsTable == TableSpec
=============================================================================
