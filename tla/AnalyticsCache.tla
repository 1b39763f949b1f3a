--------------------------- MODULE AnalyticsCache ---------------------------
(***************************************************************************)
(* AnalyticsService.getTopActiveConversations: the ranking of a tenant's   *)
(* conversations (of all of them for a user without a tenant), read        *)
(* through a Redis entry that lives for CACHE_TTL_SECONDS.  A ranking is   *)
(* reduced to what it was computed from: the number of messages of every   *)
(* tenant it covers.                                                       *)
(***************************************************************************)
EXTENDS AccessControl, Naturals

CONSTANTS Reader,      \* clients that ask for the ranking, again and again
          Ttl,         \* CACHE_TTL_SECONDS, in ticks
          Slow,        \* ticks from an aggregation to its SETEX, at most
          MaxMessages  \* bound on the messages of a tenant

ASSUME CacheAssumption ==
  /\ Ttl \in Nat \ {0}
  /\ Slow \in Nat
  /\ MaxMessages \in Nat

VARIABLES messages,  \* messages of the conversations of a tenant
          cache,     \* the entry of every scope
          pc,        \* where a reader's request is
          user,      \* the account that asks
          answer     \* the ranking it holds or was given

vars == <<messages, cache, pc, user, answer>>

(* Whose ranking: a tenant's, or that of all of them.                      *)
Scope == Tenant \cup {None}

(* A ranking covers the tenants in DOMAIN rows; age is the time since it   *)
(* was computed (TooOld: longer than it can legitimately be served).       *)
TooOld == Ttl + Slow + 1
Older(n) == IF n < TooOld THEN n + 1 ELSE n
NoRows == [rows |-> [t \in {} |-> 0], age |-> 0]

(* An entry holds a ranking and the time left to live; 0: no such key.     *)
NoEntry == [ranking |-> NoRows, left |-> 0]

(* Mutant of Key: the key without the tenant.                              *)
KeyShared(u) == None

(* cacheKey: the prefix and the user's tenant, or "null".                  *)
Key(u) == TenantOf[u]

(* The aggregation, with its WHERE clause on the user's tenant.            *)
Aggregation(u) ==
  [rows |-> [t \in {s \in Tenant : InScope(u, s)} |-> messages[t]], age |-> 0]

Init ==
  /\ messages = [t \in Tenant |-> 0]
  /\ cache = [s \in Scope |-> NoEntry]
  /\ pc = [r \in Reader |-> "idle"]
  /\ user \in [Reader -> {u \in User : RolesGuardAllows(u, {TenantAdmin}, FALSE)}]
  /\ answer = [r \in Reader |-> NoRows]

(* GET /analytics/top-conversations                                        *)
Ask(r) ==
  /\ pc[r] = "idle"
  /\ pc' = [pc EXCEPT ![r] = "reading"]
  /\ UNCHANGED <<messages, cache, user, answer>>

(* Mutant of Renewed: a hit renews the time to live.                       *)
RenewedOnHit(entry) == [entry EXCEPT !.left = Ttl]

(* What a hit leaves in Redis: the entry as it was.                        *)
Renewed(entry) == entry

(* GET finds the key: its ranking is the answer.                           *)
Hit(r) ==
  LET k == Key(user[r])
  IN /\ pc[r] = "reading"
     /\ cache[k].left > 0
     /\ answer' = [answer EXCEPT ![r] = cache[k].ranking]
     /\ cache' = [cache EXCEPT ![k] = Renewed(@)]
     /\ pc' = [pc EXCEPT ![r] = "answered"]
     /\ UNCHANGED <<messages, user>>

(* GET finds no key, or rejects: the error is logged and taken for a miss. *)
Miss(r) ==
  /\ pc[r] = "reading"
  /\ pc' = [pc EXCEPT ![r] = "querying"]
  /\ UNCHANGED <<messages, cache, user, answer>>

(* The query returns rows, or rejects (500).                               *)
Aggregate(r) ==
  /\ pc[r] = "querying"
  /\ answer' = [answer EXCEPT ![r] = Aggregation(user[r])]
  /\ pc' = [pc EXCEPT ![r] = "storing"]
  /\ UNCHANGED <<messages, cache, user>>

QueryFails(r) ==
  /\ pc[r] = "querying"
  /\ pc' = [pc EXCEPT ![r] = "idle"]
  /\ answer' = [answer EXCEPT ![r] = NoRows]
  /\ UNCHANGED <<messages, cache, user>>

(* Mutant of Stored: the minutes of the time to live counted as seconds    *)
(* twice.                                                                  *)
StoredSixtyfold(ranking) == [ranking |-> ranking, left |-> 60 * Ttl]

(* SETEX gives the entry a full time to live, whatever the ranking's age.  *)
Stored(ranking) == [ranking |-> ranking, left |-> Ttl]

(* SETEX replaces the entry, a newer one too.                              *)
Store(r) ==
  /\ pc[r] = "storing"
  /\ cache' = [cache EXCEPT ![Key(user[r])] = Stored(answer[r])]
  /\ pc' = [pc EXCEPT ![r] = "answered"]
  /\ UNCHANGED <<messages, user, answer>>

(* SETEX rejects: the error is logged, the answer is given all the same.   *)
StoreFails(r) ==
  /\ pc[r] = "storing"
  /\ pc' = [pc EXCEPT ![r] = "answered"]
  /\ UNCHANGED <<messages, cache, user, answer>>

(* The client has its answer; the process forgets the request.             *)
Return(r) ==
  /\ pc[r] = "answered"
  /\ pc' = [pc EXCEPT ![r] = "idle"]
  /\ answer' = [answer EXCEPT ![r] = NoRows]
  /\ UNCHANGED <<messages, cache, user>>

(* resolveConversation stores a system message; it does not delete the     *)
(* cached ranking: invalidateTenantCache has no caller.                    *)
Resolve(t) ==
  /\ messages[t] < MaxMessages
  /\ messages' = [messages EXCEPT ![t] = @ + 1]
  /\ UNCHANGED <<cache, pc, user, answer>>

(* Time passes for every entry and every ranking in a request; Redis drops *)
(* the keys whose time is over.                                            *)
Tick ==
  /\ \A r \in Reader : pc[r] = "storing" => answer[r].age < Slow
  /\ cache' = [s \in Scope |->
       IF cache[s].left <= 1 THEN NoEntry
       ELSE [ranking |-> [cache[s].ranking EXCEPT !.age = Older(@)],
             left |-> cache[s].left - 1]]
  /\ answer' = [r \in Reader |->
       IF pc[r] = "storing" THEN [answer[r] EXCEPT !.age = Older(@)] ELSE answer[r]]
  /\ UNCHANGED <<messages, pc, user>>

Continue(r) ==
  \/ Hit(r) \/ Miss(r) \/ Aggregate(r) \/ QueryFails(r) \/ Store(r) \/ StoreFails(r)

Next ==
  \/ \E r \in Reader : Ask(r) \/ Continue(r) \/ Return(r)
  \/ \E t \in Tenant : Resolve(t)
  \/ Tick

Spec == Init /\ [][Next]_vars

(* Awaits settle, time passes; nobody has to ask.                          *)
Fairness == WF_vars(Tick) /\ \A r \in Reader : WF_vars(Continue(r))

FairSpec == Spec /\ Fairness

(***************************************************************************)
(* Properties                                                              *)
(***************************************************************************)

Rankings ==
  [rows : UNION {[D -> 0..MaxMessages] : D \in SUBSET Tenant}, age : 0..TooOld]

(* Every variable has the shape its declaration says.                      *)
TypeOK ==
  /\ messages \in [Tenant -> 0..MaxMessages]
  /\ cache \in [Scope -> [ranking : Rankings, left : 0..Ttl]]
  /\ pc \in [Reader -> {"idle", "reading", "querying", "storing", "answered"}]
  /\ user \in [Reader -> User]
  /\ answer \in [Reader -> Rankings]

(* An answer, cached or computed, covers exactly the tenants its user may  *)
(* see, whoever asked before and whoever filled the cache.                 *)
ScopedAnswers ==
  \A r \in Reader :
    pc[r] = "answered" =>
      DOMAIN answer[r].rows = {t \in Tenant : InScope(user[r], t)}

(* An answer is at most the time to live old, and the time a slow request  *)
(* took from its query to its SETEX: it may store a ranking over a newer   *)
(* one, and gives it a full time to live.                                  *)
BoundedStaleness ==
  \A r \in Reader : pc[r] = "answered" => answer[r].age <= Ttl + Slow

Stale(s) ==
  /\ cache[s].left > 0
  /\ \E t \in DOMAIN cache[s].ranking.rows : cache[s].ranking.rows[t] # messages[t]

(* A ranking that new messages made wrong does not stay cached for ever,   *)
(* however often it is asked for.                                          *)
StaleIsDropped == \A s \in Scope : Stale(s) ~> ~Stale(s)
=============================================================================
