----------------------- MODULE ConversationListProofs -----------------------
(***************************************************************************)
(* Proofs about ConversationList for every number of conversations, every  *)
(* page size and every set of users and tenants.                           *)
(***************************************************************************)
EXTENDS ConversationList, FiniteSetTheorems, FunctionTheorems, TLAPS

(***************************************************************************)
(* Lists and their pages                                                   *)
(***************************************************************************)

(* The places of the n conversations of a list are 0 .. n - 1, each taken  *)
(* by exactly one.                                                         *)
LEMMA RankIsBijection ==
  ASSUME NEW S \in SUBSET Conv
  PROVE  /\ IsFiniteSet(S)
         /\ Cardinality(S) \in Nat
         /\ \A c \in S : Rank(S, c) \in 0 .. Cardinality(S) - 1
         /\ \A c, d \in S : Rank(S, c) = Rank(S, d) => c = d
         /\ \A n \in 0 .. Cardinality(S) - 1 : \E c \in S : Rank(S, c) = n
<1>1. IsFiniteSet(S) /\ Cardinality(S) \in Nat
  BY ListAssumption, FS_Subset, FS_CardinalityType
<1>2. ASSUME NEW c \in S PROVE Rank(S, c) \in 0 .. Cardinality(S) - 1
  <2>1. Newer(S, c) \in SUBSET S /\ Newer(S, c) # S
    BY ListAssumption DEF Newer
  <2>2. /\ IsFiniteSet(Newer(S, c))
        /\ Cardinality(Newer(S, c)) <= Cardinality(S)
        /\ Cardinality(Newer(S, c)) # Cardinality(S)
    BY <1>1, <2>1, FS_Subset
  <2>3. Cardinality(Newer(S, c)) \in Nat
    BY <2>2, FS_CardinalityType
  <2> QED
    BY <1>1, <2>2, <2>3 DEF Rank
<1>3. ASSUME NEW c \in S, NEW d \in S, d > c PROVE Rank(S, d) < Rank(S, c)
  <2>0. \A e \in S : e \in Nat
    BY ListAssumption
  <2>1. /\ Newer(S, d) \in SUBSET Newer(S, c)
        /\ d \in Newer(S, c) /\ d \notin Newer(S, d)
    <3>1. ASSUME NEW e \in S, e > d PROVE e > c
      BY <2>0, <3>1, <1>3
    <3>2. ~(d > d)
      BY <2>0
    <3> QED
      BY <3>1, <3>2, <1>3 DEF Newer
  <2>2. IsFiniteSet(Newer(S, c))
    <3>1. Newer(S, c) \in SUBSET S
      BY DEF Newer
    <3> QED
      BY <1>1, <3>1, FS_Subset
  <2>3. /\ Cardinality(Newer(S, d)) <= Cardinality(Newer(S, c))
        /\ Cardinality(Newer(S, d)) # Cardinality(Newer(S, c))
    BY <2>1, <2>2, FS_Subset
  <2> QED
    BY <1>2, <2>3 DEF Rank
<1>4. \A c, d \in S : Rank(S, c) = Rank(S, d) => c = d
  <2> SUFFICES ASSUME NEW c \in S, NEW d \in S, c # d PROVE Rank(S, c) # Rank(S, d)
    OBVIOUS
  <2>1. c > d \/ d > c
    BY ListAssumption
  <2> QED
    BY <1>2, <1>3, <2>1
<1>5. ASSUME NEW n \in 0 .. Cardinality(S) - 1 PROVE \E c \in S : Rank(S, c) = n
  <2> DEFINE T == 0 .. Cardinality(S) - 1
             f == [c \in S |-> Rank(S, c)]
  <2>1. IsFiniteSet(T) /\ Cardinality(T) = Cardinality(S)
    BY <1>1, FS_Interval
  <2>2. f \in [S -> T]
    BY <1>2
  <2>3. f \in Injection(S, T)
    BY <1>4, <2>2 DEF Injection, IsInjective
  <2>4. f \in Surjection(S, T)
    BY <2>1, <2>3, FS_Injection
  <2> QED
    BY <2>4 DEF Surjection
<1> QED
  BY <1>1, <1>2, <1>4, <1>5

(* When a page is empty, every conversation of the list is on a page       *)
(* before it: the places have no gaps.                                     *)
LEMMA EmptyPage ==
  ASSUME NEW S \in SUBSET Conv, NEW offset \in Nat, Page(S, offset) = {}, NEW c \in S
  PROVE  Rank(S, c) < offset
<1>0. Rank(S, c) \in 0 .. Cardinality(S) - 1 /\ Cardinality(S) \in Nat
  BY RankIsBijection
<1> SUFFICES ASSUME Rank(S, c) >= offset PROVE FALSE
  BY <1>0
<1>1. offset \in 0 .. Cardinality(S) - 1
  BY <1>0
<1>2. PICK d \in S : Rank(S, d) = offset
  BY <1>1, RankIsBijection
<1>3. d \in Page(S, offset)
  BY <1>2, ListAssumption DEF Page
<1> QED
  BY <1>3

(* A page has Limit conversations or all that are left.                    *)
LEMMA PageSize ==
  ASSUME NEW S \in SUBSET Conv, NEW offset \in Nat
  PROVE  /\ Cardinality(Page(S, offset)) \in Nat
         /\ \/ Cardinality(Page(S, offset)) >= Limit
            \/ Cardinality(Page(S, offset)) >= Cardinality(S) - offset
<1> DEFINE n == Cardinality(S)
           m == IF offset + Limit <= n THEN offset + Limit ELSE n
           P == Page(S, offset)
           T == offset .. m - 1
           g == [i \in T |-> CHOOSE c \in S : Rank(S, c) = i]
<1>1. n \in Nat /\ m \in Nat /\ m <= n /\ m <= offset + Limit
  BY RankIsBijection, ListAssumption
<1>2. IsFiniteSet(P) /\ Cardinality(P) \in Nat
  <2>1. P \in SUBSET S
    BY DEF Page
  <2> QED
    BY <2>1, RankIsBijection, FS_Subset, FS_CardinalityType
<1>3. ASSUME NEW i \in T PROVE g[i] \in S /\ Rank(S, g[i]) = i /\ g[i] \in P
  <2>1. i \in 0 .. n - 1 /\ i >= offset /\ i < offset + Limit
    BY <1>1, ListAssumption
  <2>2. \E c \in S : Rank(S, c) = i
    BY <2>1, RankIsBijection
  <2> QED
    BY <2>1, <2>2 DEF Page
<1>4. g \in Injection(T, P)
  <2>1. g \in [T -> P]
    BY <1>3
  <2>2. \A i, j \in T : g[i] = g[j] => i = j
    BY <1>3
  <2> QED
    BY <2>1, <2>2 DEF Injection, IsInjective
<1>5. Cardinality(T) <= Cardinality(P)
  BY <1>2, <1>4, FS_Injection
<1>6. Cardinality(T) = IF offset > m - 1 THEN 0 ELSE m - 1 - offset + 1
  <2>1. m - 1 \in Int
    BY <1>1
  <2> HIDE DEF m
  <2> QED
    BY <2>1, FS_Interval
<1>7. Cardinality(P) >= m - offset
  <2>1. ASSUME NEW p \in Nat, NEW t, NEW k \in Nat, t <= p,
               t = IF offset > k - 1 THEN 0 ELSE k - 1 - offset + 1
        PROVE  p >= k - offset
    BY <2>1
  <2> HIDE DEF P, T, g, m
  <2> QED
    BY <1>1, <1>2, <1>5, <1>6, <2>1
<1>8. m - offset = Limit \/ m - offset = n - offset
  BY <1>1, ListAssumption
<1> HIDE DEF P, m, T, g
<1> QED
  BY <1>2, <1>7, <1>8 DEF P

(* A list that grew has nobody on an earlier place, and is no shorter.     *)
LEMMA GrowingList ==
  ASSUME NEW S \in SUBSET Conv, NEW T \in SUBSET Conv, S \subseteq T
  PROVE  /\ \A c \in S : Rank(S, c) <= Rank(T, c)
         /\ Cardinality(S) <= Cardinality(T)
<1>1. IsFiniteSet(T)
  BY RankIsBijection
<1>2. ASSUME NEW c \in S PROVE Rank(S, c) <= Rank(T, c)
  <2>1. Newer(S, c) \in SUBSET Newer(T, c) /\ Newer(T, c) \in SUBSET T
    BY DEF Newer
  <2> QED
    BY <1>1, <2>1, FS_Subset DEF Rank
<1> QED
  BY <1>1, <1>2, FS_Subset
(***************************************************************************)
(* The inductive invariant                                                 *)
(***************************************************************************)

(* The end of the pages a walk has read.                                   *)
ReadUpTo == IF pc = "answered" THEN Offset(page) + Limit ELSE Offset(page)

(* On a list that only grows, a conversation keeps its place or moves      *)
(* back, so those the walk is past were listed when it passed them.        *)
WalkInv ==
  pc # "idle" /\ OnlyGrows(filter) =>
    /\ there \subseteq Matching(filter)
    /\ \A c \in there : Rank(Matching(filter), c) < ReadUpTo => c \in listed
    /\ pc = "reading" => total <= Cardinality(Matching(filter))

NotBegun == pc = "idle" => page = 1 /\ listed = {}

ListInv == NotBegun /\ WalkInv /\ WalkMissesNothing /\ PageMatchesTotal /\ ListedInScope

LEMMA InitTypeOK == Init => TypeOK
BY NoneAssumption DEF Init, TableInit, SeededRow, ConversationStatus, TypeOK

(* A change of the table keeps its columns' types.                         *)
LEMMA TableType ==
  ASSUME TypeOK, TableNext
  PROVE  /\ status' \in [Conv -> ConversationStatus \cup {"absent"}]
         /\ tenantId' \in [Conv -> Tenant \cup {None}]
         /\ assignedAgentId' \in [Conv -> User \cup {None}]
         /\ \A c \in Conv : status'[c] = "absent" <=> tenantId'[c] = None
<1> DEFINE goal == /\ status' \in [Conv -> ConversationStatus \cup {"absent"}]
                   /\ tenantId' \in [Conv -> Tenant \cup {None}]
                   /\ assignedAgentId' \in [Conv -> User \cup {None}]
                   /\ \A c \in Conv : status'[c] = "absent" <=> tenantId'[c] = None
<1> USE NoneAssumption DEF TypeOK, ConversationStatus
<1>1. ASSUME NEW c \in Conv, NEW t \in Tenant, CreateRow(c, t) PROVE goal
  BY <1>1 DEF CreateRow
<1>2. ASSUME NEW c \in Conv, NEW u \in User, ClaimRow(c, u) PROVE goal
  BY <1>2 DEF ClaimRow
<1>3. ASSUME NEW c \in Conv, ResolveRow(c) PROVE goal
  BY <1>3 DEF ResolveRow, Stale
<1> QED
  BY <1>1, <1>2, <1>3 DEF TableNext

LEMMA NextTypeOK == TypeOK /\ [Next]_vars => TypeOK'
<1> SUFFICES ASSUME TypeOK, [Next]_vars PROVE TypeOK'
  OBVIOUS
<1> USE NoneAssumption DEF TypeOK, ConversationStatus, table, walk
<1>1. ASSUME NEW f \in Filter, Begin(f) PROVE TypeOK'
  BY <1>1 DEF Begin, Matching
<1>2. CASE Count
  <2>1. Cardinality(Matching(filter)) \in Nat
    BY RankIsBijection DEF Matching
  <2> QED
    BY <1>2, <2>1 DEF Count
<1>3. CASE Read
  <2>1. data' \in SUBSET Conv
    BY <1>3 DEF Read, Page, Matching
  <2> QED
    BY <1>3, <2>1 DEF Read
<1>4. CASE Fail \/ Continue
  BY <1>4 DEF Fail, Continue
<1>5. CASE Change
  <2>1. /\ status' \in [Conv -> ConversationStatus \cup {"absent"}]
        /\ tenantId' \in [Conv -> Tenant \cup {None}]
        /\ assignedAgentId' \in [Conv -> User \cup {None}]
        /\ \A c \in Conv : status'[c] = "absent" <=> tenantId'[c] = None
    BY <1>5, TableType DEF Change
  <2> QED
    BY <1>5, <2>1 DEF Change
<1>6. CASE UNCHANGED vars
  BY <1>6 DEF vars
<1> QED
  BY <1>1, <1>2, <1>3, <1>4, <1>5, <1>6 DEF Next, Done

(* Every variable keeps the shape its declaration says.                    *)
THEOREM TypeCorrect == Spec => []TypeOK
BY InitTypeOK, NextTypeOK, PTL DEF Spec

(* Whatever another request commits, it takes nothing from a list that     *)
(* only grows: nobody unresolves a conversation or moves it to another     *)
(* tenant.                                                                 *)
LEMMA ChangeGrows ==
  ASSUME TypeOK, Change, pc # "idle", OnlyGrows(filter)
  PROVE  Matching(filter) \subseteq Matching(filter)'
<1> DEFINE grows == Matching(filter) \subseteq Matching(filter)'
<1>0. UNCHANGED filter
  BY DEF Change, walk
<1> USE <1>0, NoneAssumption DEF TypeOK, Matching, Where, OnlyGrows
<1>1. ASSUME NEW c \in Conv, NEW t \in Tenant, CreateRow(c, t) PROVE grows
  BY <1>1 DEF CreateRow
<1>2. ASSUME NEW c \in Conv, NEW u \in User, ClaimRow(c, u) PROVE grows
  BY <1>2 DEF ClaimRow
<1>3. ASSUME NEW c \in Conv, ResolveRow(c) PROVE grows
  BY <1>3 DEF ResolveRow
<1> QED
  BY <1>1, <1>2, <1>3 DEF Change, TableNext

(* What the walk remembers is not touched by other requests.               *)
LEMMA ChangeFrame ==
  ASSUME TypeOK, Change
  PROVE  /\ UNCHANGED <<pc, walk, total, data>>
         /\ \A d \in Conv : tenantId'[d] = tenantId[d] \/ tenantId[d] = None
BY DEF Change, TableNext, CreateRow, ClaimRow, ResolveRow, TypeOK

(***************************************************************************)
(* The invariant is inductive                                              *)
(***************************************************************************)

LEMMA InitListInv == Init => ListInv
BY DEF Init, ListInv, NotBegun, WalkInv, WalkMissesNothing, PageMatchesTotal, ListedInScope

LEMMA BeginListInv ==
  ASSUME TypeOK, ListInv, NEW f \in Filter, Begin(f)
  PROVE  ListInv'
<1> USE DEF TypeOK, Begin
<1>1. page = 1 /\ listed = {}
  BY DEF ListInv, NotBegun
<1>2. WalkInv'
  <2>1. /\ there' = Matching(filter)'
        /\ \A c \in there' : Rank(Matching(filter), c)' \in Nat
    BY RankIsBijection DEF Matching, Where, Rank, Newer, table
  <2> QED
    BY <1>1, <2>1, ListAssumption DEF WalkInv, ReadUpTo, Offset
<1> QED
  BY <1>1, <1>2 DEF ListInv, NotBegun, WalkMissesNothing, PageMatchesTotal, ListedInScope

LEMMA CountListInv ==
  ASSUME TypeOK, ListInv, Count
  PROVE  ListInv'
<1> USE DEF Count, table, walk
<1>1. Matching(filter)' = Matching(filter)
  BY DEF Matching, Where
<1>2. Cardinality(Matching(filter)) \in Nat
  BY RankIsBijection DEF Matching
<1>3. /\ UNCHANGED <<filter, there, listed, page>>
      /\ pc = "counting" /\ pc' = "reading"
      /\ total' = Cardinality(Matching(filter))
  OBVIOUS
<1>4. WalkInv'
  <2> SUFFICES ASSUME OnlyGrows(filter)
               PROVE  WalkInv'
    BY <1>3 DEF WalkInv, OnlyGrows
  <2>1. /\ there \subseteq Matching(filter)
        /\ \A c \in there : Rank(Matching(filter), c) < Offset(page) => c \in listed
    BY <1>3 DEF ListInv, WalkInv, ReadUpTo
  <2>2. ReadUpTo' = Offset(page)
    BY <1>3 DEF ReadUpTo, Offset
  <2>3. total' <= Cardinality(Matching(filter)')
    BY <1>1, <1>2, <1>3
  <2>4. \A c \in there' : Rank(Matching(filter), c)' = Rank(Matching(filter), c)
    BY <1>1 DEF Rank, Newer
  <2> QED
    BY <1>1, <1>3, <2>1, <2>2, <2>3, <2>4 DEF WalkInv
<1> QED
  BY <1>3, <1>4 DEF ListInv, NotBegun, WalkMissesNothing, PageMatchesTotal, ListedInScope

(* The step that lists a page: what is on the page joins what was listed,  *)
(* and an empty page means that the walk is past the whole list.           *)
LEMMA ReadListInv ==
  ASSUME TypeOK, ListInv, Read
  PROVE  ListInv'
<1> DEFINE M == Matching(filter)
           o == Offset(page)
<1>1. /\ pc = "reading" /\ pc' = "answered"
      /\ data' = Page(M, o)
      /\ listed' = listed \cup Page(M, o)
      /\ UNCHANGED <<status, tenantId, assignedAgentId, filter, page, there, total>>
  BY DEF Read, table
<1>2. M' = M /\ M \in SUBSET Conv
  BY <1>1 DEF Matching, Where
<1>3. o \in Nat /\ o' = o /\ ReadUpTo' = o + Limit
  BY <1>1, ListAssumption DEF TypeOK, Offset, ReadUpTo
<1>4. \A c \in M : Rank(M, c) \in Nat
  BY <1>2, RankIsBijection
<1>5. OnlyGrows(filter) =>
        /\ there \subseteq M
        /\ \A c \in there : Rank(M, c) < o => c \in listed
        /\ total <= Cardinality(M)
  BY <1>1 DEF ListInv, WalkInv, ReadUpTo
<1> HIDE DEF M, o
<1>6. OnlyGrows(filter) => \A c \in there : Rank(M, c) < o + Limit => c \in listed'
  <2> SUFFICES ASSUME OnlyGrows(filter), NEW c \in there, Rank(M, c) < o + Limit, c \notin listed
               PROVE  c \in Page(M, o)
    BY <1>1
  <2>1. c \in M /\ ~(Rank(M, c) < o)
    BY <1>5
  <2> QED
    BY <2>1, <1>3, <1>4 DEF Page
<1>7. WalkInv'
  <2>1. \A c \in there' : Rank(M, c)' = Rank(M, c)
    BY <1>2 DEF Rank, Newer
  <2> QED
    BY <1>1, <1>2, <1>3, <1>5, <1>6, <2>1 DEF WalkInv, M, OnlyGrows
<1>8. WalkMissesNothing'
  <2> SUFFICES ASSUME OnlyGrows(filter), Page(M, o) = {}, NEW c \in there
               PROVE  c \in listed
    BY <1>1 DEF WalkMissesNothing, OnlyGrows
  <2>1. c \in M
    BY <1>5
  <2>2. Rank(M, c) < o
    BY <1>2, <1>3, <2>1, EmptyPage
  <2> QED
    BY <1>5, <2>2
<1>9. PageMatchesTotal'
  <2> SUFFICES ASSUME OnlyGrows(filter)
               PROVE  \/ Cardinality(Page(M, o)) >= Limit
                      \/ Cardinality(Page(M, o)) >= total - o
    BY <1>1, <1>3 DEF PageMatchesTotal, OnlyGrows, o
  <2>1. /\ Cardinality(M) \in Nat /\ total \in Nat
        /\ total <= Cardinality(M)
    BY <1>2, <1>5, RankIsBijection DEF TypeOK
  <2>2. /\ Cardinality(Page(M, o)) \in Nat
        /\ \/ Cardinality(Page(M, o)) >= Limit
           \/ Cardinality(Page(M, o)) >= Cardinality(M) - o
    BY <1>2, <1>3, PageSize
  <2> QED
    BY <2>1, <2>2, <1>3
<1>10. ListedInScope'
  BY <1>1 DEF ListInv, ListedInScope, Page, M, Matching, Where
<1> QED
  BY <1>1, <1>7, <1>8, <1>9, <1>10 DEF ListInv, NotBegun

LEMMA ClientListInv ==
  ASSUME TypeOK, ListInv, Fail \/ Continue
  PROVE  ListInv'
<1>1. /\ UNCHANGED <<status, tenantId, assignedAgentId, filter, listed, there, data>>
      /\ pc # "idle" /\ pc' = "counting"
      /\ ReadUpTo' = ReadUpTo
  BY ListAssumption DEF Fail, Continue, table, walk, ReadUpTo, Offset, TypeOK
<1>2. Matching(filter)' = Matching(filter)
  BY <1>1 DEF Matching, Where
<1>3. \A c \in there' : Rank(Matching(filter), c)' = Rank(Matching(filter), c)
  BY <1>2 DEF Rank, Newer
<1>4. WalkInv'
  BY <1>1, <1>2, <1>3 DEF ListInv, WalkInv, OnlyGrows
<1> QED
  BY <1>1, <1>4 DEF ListInv, NotBegun, WalkMissesNothing, PageMatchesTotal, ListedInScope

LEMMA ChangeListInv ==
  ASSUME TypeOK, ListInv, Change
  PROVE  ListInv'
<1>1. /\ UNCHANGED <<pc, filter, page, listed, there, total, data>>
      /\ \A d \in Conv : tenantId'[d] = tenantId[d] \/ tenantId[d] = None
  BY ChangeFrame DEF walk
<1>2. WalkInv'
  <2> SUFFICES ASSUME pc # "idle", OnlyGrows(filter)
               PROVE  WalkInv'
    BY <1>1 DEF WalkInv, OnlyGrows
  <2> DEFINE M == Matching(filter)
             N == Matching(filter)'
  <2>1. M \subseteq N /\ M \in SUBSET Conv /\ N \in SUBSET Conv
    BY ChangeGrows DEF Matching
  <2>2. /\ there \subseteq M
        /\ \A d \in there : Rank(M, d) < ReadUpTo => d \in listed
        /\ pc = "reading" => total <= Cardinality(M)
    BY DEF ListInv, WalkInv
  <2>3. ReadUpTo' = ReadUpTo /\ ReadUpTo \in Nat
    BY <1>1, ListAssumption DEF ReadUpTo, Offset, TypeOK
  <2>4. \A d \in there : Rank(M, d) \in Nat /\ Rank(N, d) \in Nat /\ Rank(M, d) <= Rank(N, d)
    <3>1. ASSUME NEW d \in there PROVE d \in M /\ d \in N
      BY <2>1, <2>2
    <3> HIDE DEF M, N
    <3>2. ASSUME NEW d \in there PROVE Rank(M, d) \in Nat /\ Rank(N, d) \in Nat
      <4>1. /\ Rank(M, d) \in 0 .. Cardinality(M) - 1
            /\ Rank(N, d) \in 0 .. Cardinality(N) - 1
        BY <3>1, <2>1, RankIsBijection
      <4> QED
        BY <4>1
    <3>3. \A d \in M : Rank(M, d) <= Rank(N, d)
      BY <2>1, GrowingList
    <3> QED
      BY <3>1, <3>2, <3>3
  <2>5. total \in Nat /\ Cardinality(M) \in Nat /\ Cardinality(N) \in Nat
        /\ Cardinality(M) <= Cardinality(N)
    <3> HIDE DEF M, N
    <3> QED
      BY <2>1, GrowingList, RankIsBijection DEF TypeOK
  <2>6. \A d \in there' : Rank(Matching(filter), d)' = Rank(N, d)
    BY DEF Rank, Newer
  <2> HIDE DEF M
  <2>7. pc = "reading" => total <= Cardinality(N)
    <3> HIDE DEF N
    <3> QED
      BY <2>2, <2>5
  <2>8. there \subseteq N
    BY <2>1, <2>2
  <2>9. \A d \in there : Rank(N, d) < ReadUpTo => d \in listed
    <3> HIDE DEF N
    <3> QED
      BY <2>2, <2>3, <2>4
  <2> QED
    BY <1>1, <2>3, <2>6, <2>7, <2>8, <2>9 DEF WalkInv
<1>3. ListedInScope'
  BY <1>1 DEF ListInv, ListedInScope, InScope, TypeOK
<1> QED
  BY <1>1, <1>2, <1>3
  DEF ListInv, NotBegun, WalkMissesNothing, PageMatchesTotal, OnlyGrows, Offset

LEMMA NextListInv == TypeOK /\ ListInv /\ [Next]_vars => ListInv'
<1> SUFFICES ASSUME TypeOK, ListInv, [Next]_vars PROVE ListInv'
  OBVIOUS
<1>1. CASE UNCHANGED vars
  <2>1. /\ UNCHANGED <<status, tenantId, assignedAgentId, pc, filter, page, listed, there,
                       total, data>>
    BY <1>1 DEF vars, table, walk
  <2>2. Matching(filter)' = Matching(filter)
    BY <2>1 DEF Matching, Where
  <2>3. \A c \in there' : Rank(Matching(filter), c)' = Rank(Matching(filter), c)
    BY <2>2 DEF Rank, Newer
  <2>4. WalkInv'
    BY <2>1, <2>2, <2>3 DEF ListInv, WalkInv, ReadUpTo, Offset, OnlyGrows
  <2> QED
    BY <2>1, <2>4
    DEF ListInv, NotBegun, WalkMissesNothing, PageMatchesTotal, ListedInScope, OnlyGrows, Offset
<1> QED
  BY <1>1, BeginListInv, CountListInv, ReadListInv, ClientListInv, ChangeListInv DEF Next, Done

LEMMA ListInvariant == Spec => [](TypeOK /\ ListInv)
BY InitTypeOK, NextTypeOK, InitListInv, NextListInv, PTL DEF Spec

(* A client that walks a growing list to its first empty page misses no    *)
(* conversation that was on it when the walk began.                        *)
THEOREM WalkIsComplete == Spec => []WalkMissesNothing
<1>1. ListInv => WalkMissesNothing
  BY DEF ListInv
<1> QED
  BY <1>1, ListInvariant, PTL

(* The page of such a list bears out the total that comes with it.         *)
THEOREM TotalIsHonest == Spec => []PageMatchesTotal
<1>1. ListInv => PageMatchesTotal
  BY DEF ListInv
<1> QED
  BY <1>1, ListInvariant, PTL

(* A walk lists conversations of the user's tenant and no other.           *)
THEOREM ListsStayInScope == Spec => []ListedInScope
<1>1. ListInv => ListedInScope
  BY DEF ListInv
<1> QED
  BY <1>1, ListInvariant, PTL
=============================================================================
