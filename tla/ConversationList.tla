-------------------------- MODULE ConversationList --------------------------
(***************************************************************************)
(* ConversationsService.findAll, and a client that walks through its pages *)
(* while other requests create, claim and resolve conversations.  The      *)
(* service counts and reads a page in two separate queries and finds a     *)
(* page by its offset, so everything it says is about a moving table.      *)
(***************************************************************************)
EXTENDS ConversationTable, Integers, FiniteSets

CONSTANT Limit  \* the page size the client asks for

(* Conversations are numbered in the order of created_at.                  *)
ASSUME ListAssumption ==
  /\ Conv \subseteq Nat /\ IsFiniteSet(Conv)
  /\ Limit \in Nat \ {0}

VARIABLES pc,      \* where the client's request is
          filter,  \* who asks, and the status and agentId asked for
          page,    \* the number of the page asked for
          total,   \* the count that goes with the page
          data,    \* the conversations of the page
          listed,  \* the conversations of this page and the ones before
          there    \* the conversations to be listed when the walk began

walk == <<filter, page, listed, there>>
vars == <<table, pc, walk, total, data>>

Filter == [user : User, status : ConversationStatus \cup {None}, agentId : User \cup {None}]

(***************************************************************************)
(* findAll                                                                 *)
(***************************************************************************)

(* Mutant of Where: the tenant filter is forgotten.                        *)
WhereAnyTenant(f, c) ==
  /\ status[c] # "absent"
  /\ RoleOf[f.user] = Agent => assignedAgentId[c] \in {f.user, None}
  /\ f.status # None => status[c] = f.status
  /\ f.agentId # None => assignedAgentId[c] = f.agentId

(* The WHERE clause that both queries share.                               *)
Where(f, c) ==
  /\ status[c] # "absent"
  /\ InScope(f.user, tenantId[c])
  /\ RoleOf[f.user] = Agent => assignedAgentId[c] \in {f.user, None}
  /\ f.status # None => status[c] = f.status
  /\ f.agentId # None => assignedAgentId[c] = f.agentId

Matching(f) == {c \in Conv : Where(f, c)}

(* Mutant of Offset: pages are taken to be numbered from zero.             *)
OffsetFromZero(n) == n * Limit

Offset(n) == (n - 1) * Limit

(* ORDER BY created_at DESC: the place of c in the list of S.              *)
Newer(S, c) == {d \in S : d > c}
Rank(S, c)  == Cardinality(Newer(S, c))

(* LIMIT ... OFFSET ...                                                    *)
Page(S, offset) == {c \in S : Rank(S, c) >= offset /\ Rank(S, c) < offset + Limit}

(* Mutant of Count: the count query has no WHERE clause.                   *)
CountAll ==
  /\ pc = "counting"
  /\ pc' = "reading"
  /\ total' = Cardinality({c \in Conv : status[c] # "absent"})
  /\ UNCHANGED <<table, walk, data>>

(* SELECT COUNT                                                            *)
Count ==
  /\ pc = "counting"
  /\ pc' = "reading"
  /\ total' = Cardinality(Matching(filter))
  /\ UNCHANGED <<table, walk, data>>

(* The data query, and the answer.                                         *)
Read ==
  /\ pc = "reading"
  /\ pc' = "answered"
  /\ data' = Page(Matching(filter), Offset(page))
  /\ listed' = listed \cup data'
  /\ UNCHANGED <<table, filter, page, there, total>>

(* A query rejects (500): the client asks for the page again.  A rejected  *)
(* count changes nothing.                                                  *)
Fail ==
  /\ pc = "reading"
  /\ pc' = "counting"
  /\ UNCHANGED <<table, walk, total, data>>

(***************************************************************************)
(* The client                                                              *)
(***************************************************************************)

(* GET /conversations, from the first page on.                             *)
Begin(f) ==
  /\ pc = "idle"
  /\ RolesGuardAllows(f.user, UserRole, FALSE)
  /\ pc' = "counting"
  /\ filter' = f
  /\ there' = Matching(f)
  /\ UNCHANGED <<table, page, listed, total, data>>

(* It goes on until a page is empty.                                       *)
Continue ==
  /\ pc = "answered"
  /\ data # {}
  /\ pc' = "counting"
  /\ page' = page + 1
  /\ UNCHANGED <<table, filter, listed, there, total, data>>

(***************************************************************************)

(* Another request commits a change.                                       *)
Change == TableNext /\ UNCHANGED <<pc, walk, total, data>>

Init ==
  /\ TableInit
  /\ pc = "idle"
  /\ filter = [user |-> None, status |-> None, agentId |-> None]
  /\ page = 1
  /\ total = 0
  /\ data = {}
  /\ listed = {}
  /\ there = {}

Done == pc = "answered" /\ data = {} /\ UNCHANGED vars

Next ==
  \/ \E f \in Filter : Begin(f)
  \/ Count \/ Read \/ Fail \/ Continue
  \/ Change
  \/ Done

Spec == Init /\ [][Next]_vars

(***************************************************************************)
(* Properties                                                              *)
(***************************************************************************)

(* Every variable has the shape its declaration says; a conversation has a *)
(* tenant from its creation on.                                            *)
TypeOK ==
  /\ status \in [Conv -> ConversationStatus \cup {"absent"}]
  /\ tenantId \in [Conv -> Tenant \cup {None}]
  /\ assignedAgentId \in [Conv -> User \cup {None}]
  /\ \A c \in Conv : status[c] = "absent" <=> tenantId[c] = None
  /\ pc \in {"idle", "counting", "reading", "answered"}
  /\ pc # "idle" => filter \in Filter
  /\ page \in Nat \ {0}
  /\ total \in Nat
  /\ data \in SUBSET Conv
  /\ listed \in SUBSET Conv
  /\ there \in SUBSET Conv

(* Lists that no claim and no resolution takes a conversation from: all    *)
(* conversations of an admin's scope, or its resolved ones.                *)
OnlyGrows(f) ==
  RoleOf[f.user] # Agent /\ f.agentId = None /\ f.status \in {None, "resolved"}

(* A client that goes through the pages of such a list to the first empty  *)
(* one has seen every conversation that was on the list when it began,     *)
(* however many are created, claimed and resolved meanwhile: they can only *)
(* push others to later pages.                                             *)
WalkMissesNothing ==
  pc = "answered" /\ data = {} /\ OnlyGrows(filter) => there \subseteq listed

(* A page of such a list is as long as the total counted before it says,   *)
(* although the two queries see different tables.                          *)
PageMatchesTotal ==
  pc = "answered" /\ OnlyGrows(filter) =>
    Cardinality(data) >= Limit \/ Cardinality(data) >= total - Offset(page)

(* Nothing a walk lists is of another tenant than that of the user: the    *)
(* filter is spelled out once more in findAll, for two queries.            *)
ListedInScope ==
  pc # "idle" => \A c \in listed : InScope(filter.user, tenantId[c])
=============================================================================
