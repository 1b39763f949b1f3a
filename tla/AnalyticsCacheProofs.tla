------------------------ MODULE AnalyticsCacheProofs ------------------------
(***************************************************************************)
(* Proofs about AnalyticsCache for every set of users, tenants and readers *)
(* and every time to live.                                                 *)
(***************************************************************************)
EXTENDS AnalyticsCache, TLAPS

(* The tenants a ranking of a scope covers.                                *)
Covered(s) == {t \in Tenant : s = None \/ s = t}

(* What is cached is of the scope it is cached for, and its age and the    *)
(* time it has left together do not exceed what a slow SETEX made of them. *)
CacheInv ==
  \A s \in Scope : cache[s].left > 0 =>
    /\ DOMAIN cache[s].ranking.rows = Covered(s)
    /\ cache[s].ranking.age + cache[s].left <= Ttl + Slow

ReaderInv ==
  \A r \in Reader :
    /\ pc[r] \in {"storing", "answered"} => DOMAIN answer[r].rows = Covered(Key(user[r]))
    /\ pc[r] = "storing" => answer[r].age <= Slow

LEMMA KeyScope ==
  ASSUME NEW u \in User
  PROVE  /\ Key(u) \in Scope
         /\ Covered(Key(u)) = {t \in Tenant : InScope(u, t)}
BY TenantAssumption DEF Key, Scope, Covered, InScope

LEMMA AgedRanking ==
  ASSUME NEW k \in Rankings
  PROVE  /\ [k EXCEPT !.age = Older(k.age)] \in Rankings
         /\ [k EXCEPT !.age = Older(k.age)].rows = k.rows
         /\ [k EXCEPT !.age = Older(k.age)].age <= k.age + 1
BY CacheAssumption DEF Rankings, Older, TooOld

LEMMA NoEntryType == NoRows \in Rankings /\ NoEntry \in [ranking : Rankings, left : 0..Ttl]
<1>1. [t \in {} |-> 0] \in [{} -> 0..MaxMessages] /\ {} \in SUBSET Tenant
  OBVIOUS
<1>2. 0 \in 0..TooOld /\ 0 \in 0..Ttl
  BY CacheAssumption DEF TooOld
<1> QED
  BY <1>1, <1>2 DEF NoRows, NoEntry, Rankings

LEMMA AggregationType ==
  ASSUME TypeOK, NEW u \in User
  PROVE  /\ Aggregation(u) \in Rankings
         /\ DOMAIN Aggregation(u).rows = Covered(Key(u))
         /\ Aggregation(u).age = 0
<1> DEFINE D == {s \in Tenant : InScope(u, s)}
           f == [t \in D |-> messages[t]]
<1>1. f \in [D -> 0..MaxMessages] /\ D \in SUBSET Tenant
  BY DEF TypeOK
<1>2. 0 \in 0..TooOld
  BY CacheAssumption DEF TooOld
<1> QED
  BY <1>1, <1>2, KeyScope DEF Aggregation, Rankings

LEMMA InitCache == Init => TypeOK /\ CacheInv /\ ReaderInv /\ BoundedStaleness
<1> SUFFICES ASSUME Init PROVE TypeOK /\ CacheInv /\ ReaderInv /\ BoundedStaleness
  OBVIOUS
<1>1. TypeOK
  <2>1. messages \in [Tenant -> 0..MaxMessages]
    BY CacheAssumption DEF Init
  <2>2. user \in [Reader -> User]
    BY DEF Init
  <2>3. /\ cache \in [Scope -> [ranking : Rankings, left : 0..Ttl]]
        /\ answer \in [Reader -> Rankings]
    BY NoEntryType DEF Init
  <2> QED
    BY <2>1, <2>2, <2>3 DEF Init, TypeOK
<1>2. CacheInv
  BY DEF Init, CacheInv, NoEntry
<1>3. ReaderInv /\ BoundedStaleness
  BY DEF Init, ReaderInv, BoundedStaleness
<1> QED
  BY <1>1, <1>2, <1>3

LEMMA NextType == TypeOK /\ CacheInv /\ ReaderInv /\ [Next]_vars => TypeOK'
<1> SUFFICES ASSUME TypeOK, CacheInv, ReaderInv, [Next]_vars PROVE TypeOK'
  OBVIOUS
<1> DEFINE Entries == [ranking : Rankings, left : 0..Ttl]
<1>1. ASSUME NEW r \in Reader, Ask(r) \/ Miss(r) \/ StoreFails(r) PROVE TypeOK'
  BY <1>1 DEF Ask, Miss, StoreFails, TypeOK
<1>2. ASSUME NEW r \in Reader, Hit(r) PROVE TypeOK'
  <2>1. Key(user[r]) \in Scope
    BY KeyScope DEF TypeOK
  <2>2. cache[Key(user[r])].ranking \in Rankings
    BY <2>1 DEF TypeOK
  <2>3. cache' = cache
    BY <1>2, <2>1 DEF Hit, Renewed, TypeOK
  <2> QED
    BY <1>2, <2>2, <2>3 DEF Hit, TypeOK
<1>3. ASSUME NEW r \in Reader, Aggregate(r) PROVE TypeOK'
  <2>1. Aggregation(user[r]) \in Rankings
    BY AggregationType DEF TypeOK
  <2> QED
    BY <1>3, <2>1 DEF Aggregate, TypeOK
<1>4. ASSUME NEW r \in Reader, QueryFails(r) \/ Return(r) PROVE TypeOK'
  BY <1>4, NoEntryType DEF QueryFails, Return, TypeOK
<1>5. ASSUME NEW r \in Reader, Store(r) PROVE TypeOK'
  <2>1. Stored(answer[r]) \in Entries
    BY CacheAssumption DEF Stored, TypeOK
  <2>2. cache' \in [Scope -> Entries]
    BY <1>5, <2>1 DEF Store, TypeOK
  <2> QED
    BY <1>5, <2>2 DEF Store, TypeOK
<1>6. ASSUME NEW t \in Tenant, Resolve(t) PROVE TypeOK'
  BY <1>6, CacheAssumption DEF Resolve, TypeOK
<1>7. CASE Tick
  <2>1. ASSUME NEW s \in Scope, cache[s].left > 1
        PROVE  [ranking |-> [cache[s].ranking EXCEPT !.age = Older(cache[s].ranking.age)],
                left |-> cache[s].left - 1] \in Entries
    <3>1. cache[s].ranking \in Rankings /\ cache[s].left \in 0..Ttl
      BY DEF TypeOK
    <3>2. cache[s].left - 1 \in 0..Ttl
      BY <2>1, <3>1, CacheAssumption
    <3> QED
      BY <3>1, <3>2, AgedRanking
  <2>2. cache' \in [Scope -> Entries]
    <3>1. \A s \in Scope : cache[s].left \in 0..Ttl
      BY DEF TypeOK
    <3>2. \A s \in Scope : ~(cache[s].left <= 1) => cache[s].left > 1
      BY <3>1, CacheAssumption
    <3> HIDE DEF Entries
    <3> QED
      BY <1>7, <2>1, <3>2, NoEntryType DEF Tick, Entries
  <2>3. answer' \in [Reader -> Rankings]
    <3>1. \A r \in Reader : answer[r] \in Rankings
      BY DEF TypeOK
    <3>2. \A r \in Reader : [answer[r] EXCEPT !.age = Older(answer[r].age)] \in Rankings
      BY <3>1, AgedRanking
    <3> QED
      BY <1>7, <3>1, <3>2 DEF Tick
  <2> QED
    BY <1>7, <2>2, <2>3 DEF Tick, TypeOK
<1>8. CASE UNCHANGED vars
  BY <1>8 DEF vars, TypeOK
<1> QED
  BY <1>1, <1>2, <1>3, <1>4, <1>5, <1>6, <1>7, <1>8 DEF Next, Continue

LEMMA NextCache ==
  TypeOK /\ CacheInv /\ ReaderInv /\ BoundedStaleness /\ [Next]_vars
    => CacheInv' /\ ReaderInv' /\ BoundedStaleness'
<1> SUFFICES ASSUME TypeOK, CacheInv, ReaderInv, BoundedStaleness, [Next]_vars
             PROVE  CacheInv' /\ ReaderInv' /\ BoundedStaleness'
  OBVIOUS
<1>1. ASSUME NEW r \in Reader, Ask(r) \/ Miss(r) PROVE CacheInv' /\ ReaderInv' /\ BoundedStaleness'
  BY <1>1 DEF Ask, Miss, TypeOK, CacheInv, ReaderInv, BoundedStaleness
<1>2. ASSUME NEW r \in Reader, Hit(r) PROVE CacheInv' /\ ReaderInv' /\ BoundedStaleness'
  <2> DEFINE k == Key(user[r])
  <2>1. k \in Scope
    BY KeyScope DEF TypeOK
  <2>2. cache' = cache
    BY <1>2, <2>1 DEF Hit, Renewed, TypeOK
  <2>3. /\ DOMAIN cache[k].ranking.rows = Covered(k)
        /\ cache[k].ranking.age + cache[k].left <= Ttl + Slow
        /\ cache[k].left > 0
    BY <1>2, <2>1 DEF Hit, CacheInv
  <2>4. cache[k].ranking.age \in Nat /\ cache[k].left \in Nat
    BY <2>1, CacheAssumption DEF TypeOK, Rankings, TooOld
  <2>5. cache[k].ranking.age <= Ttl + Slow
    BY <2>3, <2>4, CacheAssumption
  <2>6. /\ answer' = [answer EXCEPT ![r] = cache[k].ranking]
        /\ pc' = [pc EXCEPT ![r] = "answered"]
        /\ user' = user
    BY <1>2 DEF Hit
  <2>7. CacheInv'
    BY <2>2 DEF CacheInv
  <2>8. ReaderInv'
    BY <2>3, <2>6 DEF ReaderInv, TypeOK, Key
  <2>9. BoundedStaleness'
    BY <2>5, <2>6 DEF BoundedStaleness, TypeOK
  <2> QED
    BY <2>7, <2>8, <2>9
<1>3. ASSUME NEW r \in Reader, Aggregate(r) PROVE CacheInv' /\ ReaderInv' /\ BoundedStaleness'
  <2>1. /\ DOMAIN Aggregation(user[r]).rows = Covered(Key(user[r]))
        /\ Aggregation(user[r]).age = 0
    BY AggregationType DEF TypeOK
  <2>2. /\ answer' = [answer EXCEPT ![r] = Aggregation(user[r])]
        /\ pc' = [pc EXCEPT ![r] = "storing"]
        /\ user' = user /\ cache' = cache
    BY <1>3 DEF Aggregate
  <2>3. ReaderInv'
    BY <2>1, <2>2, CacheAssumption DEF ReaderInv, TypeOK, Key
  <2>4. CacheInv' /\ BoundedStaleness'
    BY <2>2 DEF CacheInv, BoundedStaleness, TypeOK
  <2> QED
    BY <2>3, <2>4
<1>4. ASSUME NEW r \in Reader, QueryFails(r) \/ Return(r)
      PROVE  CacheInv' /\ ReaderInv' /\ BoundedStaleness'
  <2>1. /\ answer' = [answer EXCEPT ![r] = NoRows]
        /\ pc' = [pc EXCEPT ![r] = "idle"]
        /\ user' = user /\ cache' = cache
    BY <1>4 DEF QueryFails, Return
  <2> QED
    BY <2>1 DEF CacheInv, ReaderInv, BoundedStaleness, TypeOK, Key
<1>5. ASSUME NEW r \in Reader, Store(r) PROVE CacheInv' /\ ReaderInv' /\ BoundedStaleness'
  <2> DEFINE k == Key(user[r])
  <2>1. k \in Scope
    BY KeyScope DEF TypeOK
  <2>2. /\ pc[r] = "storing"
        /\ cache' = [cache EXCEPT ![k] = [ranking |-> answer[r], left |-> Ttl]]
        /\ pc' = [pc EXCEPT ![r] = "answered"]
        /\ user' = user /\ answer' = answer
    BY <1>5 DEF Store, Stored
  <2>3. DOMAIN answer[r].rows = Covered(k) /\ answer[r].age <= Slow /\ answer[r].age \in Nat
    BY <2>2, CacheAssumption DEF ReaderInv, TypeOK, Rankings, TooOld
  <2>4. answer[r].age + Ttl <= Ttl + Slow /\ answer[r].age <= Ttl + Slow
    BY <2>3, CacheAssumption
  <2>5. CacheInv'
    <3> SUFFICES ASSUME NEW s \in Scope, cache'[s].left > 0
                 PROVE  /\ DOMAIN cache'[s].ranking.rows = Covered(s)
                        /\ cache'[s].ranking.age + cache'[s].left <= Ttl + Slow
      BY DEF CacheInv
    <3>1. CASE s = k
      BY <3>1, <2>1, <2>2, <2>3, <2>4 DEF TypeOK
    <3>2. CASE s # k
      BY <3>2, <2>1, <2>2 DEF TypeOK, CacheInv
    <3> QED
      BY <3>1, <3>2
  <2>6. ReaderInv' /\ BoundedStaleness'
    BY <2>2, <2>3, <2>4 DEF ReaderInv, BoundedStaleness, TypeOK, Key
  <2> QED
    BY <2>5, <2>6
<1>6. ASSUME NEW r \in Reader, StoreFails(r) PROVE CacheInv' /\ ReaderInv' /\ BoundedStaleness'
  <2>1. /\ pc[r] = "storing" /\ pc' = [pc EXCEPT ![r] = "answered"]
        /\ user' = user /\ answer' = answer /\ cache' = cache
    BY <1>6 DEF StoreFails
  <2>2. answer[r].age <= Slow /\ answer[r].age \in Nat
    BY <2>1, CacheAssumption DEF ReaderInv, TypeOK, Rankings, TooOld
  <2>3. answer[r].age <= Ttl + Slow
    BY <2>2, CacheAssumption
  <2> QED
    BY <2>1, <2>3 DEF CacheInv, ReaderInv, BoundedStaleness, TypeOK, Key
<1>7. ASSUME NEW t \in Tenant, Resolve(t) PROVE CacheInv' /\ ReaderInv' /\ BoundedStaleness'
  BY <1>7 DEF Resolve, CacheInv, ReaderInv, BoundedStaleness, Key
<1>8. CASE Tick
  <2>1. CacheInv'
    <3> SUFFICES ASSUME NEW s \in Scope, cache'[s].left > 0
                 PROVE  /\ DOMAIN cache'[s].ranking.rows = Covered(s)
                        /\ cache'[s].ranking.age + cache'[s].left <= Ttl + Slow
      BY DEF CacheInv
    <3> DEFINE old == cache[s].ranking
    <3>1. old \in Rankings /\ old.age \in Nat /\ cache[s].left \in Nat
      BY CacheAssumption DEF TypeOK, Rankings, TooOld
    <3>2. ~(cache[s].left <= 1)
      BY <1>8 DEF Tick, NoEntry
    <3>3. cache'[s] = [ranking |-> [old EXCEPT !.age = Older(old.age)], left |-> cache[s].left - 1]
      BY <1>8, <3>2 DEF Tick
    <3>4. DOMAIN old.rows = Covered(s) /\ old.age + cache[s].left <= Ttl + Slow
      BY <3>1, <3>2 DEF CacheInv
    <3>5. Older(old.age) <= old.age + 1 /\ Older(old.age) \in Nat
      BY <3>1, CacheAssumption DEF Older, TooOld
    <3>6. /\ cache'[s].ranking.rows = old.rows
          /\ cache'[s].ranking.age = Older(old.age)
          /\ cache'[s].left = cache[s].left - 1
      BY <3>1, <3>3 DEF Rankings
    <3>7. Older(old.age) + (cache[s].left - 1) <= Ttl + Slow
      BY <3>1, <3>4, <3>5, CacheAssumption
    <3> QED
      BY <3>4, <3>6, <3>7
  <2>2. ASSUME NEW r \in Reader, pc[r] = "storing"
        PROVE  answer'[r].rows = answer[r].rows /\ answer'[r].age <= Slow
    <3>1. answer[r] \in Rankings /\ answer[r].age \in Nat
      BY CacheAssumption DEF TypeOK, Rankings, TooOld
    <3>2. answer'[r] = [answer[r] EXCEPT !.age = Older(answer[r].age)]
      BY <1>8, <2>2 DEF Tick
    <3>3. answer[r].age < Slow
      BY <1>8, <2>2 DEF Tick
    <3>4. Older(answer[r].age) <= Slow
      BY <3>1, <3>3, CacheAssumption DEF Older, TooOld
    <3>5. answer'[r].rows = answer[r].rows /\ answer'[r].age = Older(answer[r].age)
      BY <3>1, <3>2 DEF Rankings
    <3> QED
      BY <3>4, <3>5
  <2>3. ASSUME NEW r \in Reader, pc[r] # "storing" PROVE answer'[r] = answer[r]
    BY <1>8, <2>3 DEF Tick
  <2>4. pc' = pc /\ user' = user
    BY <1>8 DEF Tick
  <2>5. ReaderInv'
    BY <2>2, <2>3, <2>4 DEF ReaderInv, Key
  <2>6. BoundedStaleness'
    BY <2>3, <2>4 DEF BoundedStaleness
  <2> QED
    BY <2>1, <2>5, <2>6
<1>9. CASE UNCHANGED vars
  BY <1>9 DEF vars, CacheInv, ReaderInv, BoundedStaleness, Key
<1> QED
  BY <1>1, <1>2, <1>3, <1>4, <1>5, <1>6, <1>7, <1>8, <1>9 DEF Next, Continue

LEMMA CacheInvariant == Spec => [](TypeOK /\ CacheInv /\ ReaderInv /\ BoundedStaleness)
<1> DEFINE Inv == TypeOK /\ CacheInv /\ ReaderInv /\ BoundedStaleness
<1>1. Init => Inv
  BY InitCache
<1>2. Inv /\ [Next]_vars => Inv'
  BY NextType, NextCache
<1> QED
  BY <1>1, <1>2, PTL DEF Spec

(* Every reachable state of the cache and its readers is well-typed.       *)
THEOREM TypeCorrect == Spec => []TypeOK
BY CacheInvariant, PTL

(* However the readers interleave, fail and store late, an answer covers   *)
(* exactly the tenants its user may see.                                   *)
THEOREM ScopedAnswersHold == Spec => []ScopedAnswers
<1>1. TypeOK /\ ReaderInv => ScopedAnswers
  BY KeyScope DEF TypeOK, ReaderInv, ScopedAnswers
<1> QED
  BY <1>1, CacheInvariant, PTL

(* For every time to live and every bound on a request's delay, no answer  *)
(* is older than the two together.                                         *)
THEOREM BoundedStalenessHolds == Spec => []BoundedStaleness
BY CacheInvariant, PTL
=============================================================================
