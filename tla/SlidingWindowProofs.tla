------------------------- MODULE SlidingWindowProofs -------------------------
(***************************************************************************)
(* Proofs about SlidingWindow for every limit, window and latency and any  *)
(* number of API instances.                                                *)
(***************************************************************************)
EXTENDS SlidingWindow, SequenceTheorems, FiniteSetTheorems, WellFoundedInduction, TLAPS

(***************************************************************************)
(* Types, and requests in flight                                           *)
(***************************************************************************)

Added    == {"expire", "reply", "oldest"} \cup Answered
AfterEvict == {"count", "add", "expire", "reply", "oldest"}

(* A member is the record of a request that has passed ZADD.               *)
Entry(q) == [at |-> at[q], by |-> q]
EntriesRecord ==
  \A e \in entries : e.by \in Req /\ pc[e.by] \in Added /\ e = Entry(e.by)

(* Requests are in flight for Latency at most.                             *)
InFlight ==
  \A r \in Req : at[r] <= now /\ (pc[r] \in Waiting => now <= at[r] + Latency)

(* What a request finds after its eviction is of its window, also what     *)
(* other instances add meanwhile: no pipeline is late by a window.         *)
Evicted ==
  \A r \in Req : pc[r] \in AfterEvict /\ ~Failed(r, "evict") =>
    \A e \in entries : e.at > at[r] - Window

FlightInv == TypeOK /\ EntriesRecord /\ InFlight /\ Evicted

LEMMA EntriesFinite ==
  ASSUME FlightInv
  PROVE  IsFiniteSet(entries) /\ Cardinality(entries) \in 0..Cardinality(Req)
<1> DEFINE f == [e \in entries |-> e.by]
<1>1. f \in Injection(entries, Req)
  <2>1. f \in [entries -> Req]
    BY DEF FlightInv, EntriesRecord
  <2>2. ASSUME NEW d \in entries, NEW e \in entries, f[d] = f[e] PROVE d = e
    BY <2>2 DEF FlightInv, EntriesRecord
  <2> QED
    BY <2>1, <2>2 DEF Injection, IsInjective
<1>2. IsFiniteSet(Req)
  BY WindowAssumption
<1>3. IsFiniteSet(entries) /\ Cardinality(entries) <= Cardinality(Req)
  BY <1>1, <1>2, FS_Injection
<1> QED
  BY <1>2, <1>3, FS_CardinalityType

(* A set of times has an earliest one: what ZRANGE 0 0 returns.            *)
LEMMA FirstEntry ==
  ASSUME TypeOK, entries # {}
  PROVE  (CHOOSE e \in entries : \A g \in entries : e.at <= g.at) \in entries
<1> DEFINE Times == {e.at : e \in entries}
<1>1. Times \subseteq Nat /\ Times # {}
  BY WindowAssumption DEF TypeOK
<1>2. PICK x \in Times : \A y \in Times : ~(<<y, x>> \in OpToRel(<, Nat))
  BY <1>1, WFMin, NatLessThanWellFounded
<1>3. \A y \in Times : x <= y
  <2>1. OpToRel(<, Nat) = {ss \in Nat \X Nat : ss[1] < ss[2]}
    BY Zenon DEF OpToRel
  <2>2. ASSUME NEW y \in Times, y < x PROVE <<y, x>> \in {ss \in Nat \X Nat : ss[1] < ss[2]}
    BY <1>1, <2>2
  <2>3. \A y \in Times : ~(y < x)
    BY <1>2, <2>1, <2>2
  <2>4. \A y \in Times : x \in Nat /\ y \in Nat
    BY <1>1
  <2> HIDE DEF Times
  <2> QED
    BY <2>3, <2>4
<1>4. PICK d \in entries : d.at = x
  OBVIOUS
<1>5. \A g \in entries : d.at <= g.at
  BY <1>3, <1>4
<1> DEFINE First(e) == \A g \in entries : e.at <= g.at
<1>6. \E e \in entries : First(e)
  BY <1>5
<1> HIDE DEF First
<1>7. (CHOOSE e \in entries : First(e)) \in entries
  BY <1>6, Zenon
<1> QED
  BY <1>7, Zenon DEF First

LEMMA InitFlight == Init => FlightInv
<1> SUFFICES ASSUME Init PROVE FlightInv
  OBVIOUS
<1>1. IsFiniteSet(Req) /\ Cardinality(Req) \in Nat
  BY WindowAssumption, FS_CardinalityType
<1>2. \A i \in Instance : sent[i] = << >> /\ << >> \in Seq(Req)
  BY DEF Init
<1>3. TypeOK
  BY <1>1, <1>2, WindowAssumption DEF Init, TypeOK, Failed
<1> QED
  BY <1>3 DEF Init, FlightInv, EntriesRecord, InFlight, Evicted, Waiting, Command, AfterEvict

LEMMA ReceiveFlight ==
  ASSUME FlightInv, NEW r \in Req, NEW i \in Instance, Receive(r, i)
  PROVE  FlightInv'
<1> USE WindowAssumption DEF FlightInv, Failed
<1>1. sent' \in [Instance -> Seq(Req)]
  BY AppendProperties DEF Receive, TypeOK
<1>2. TypeOK'
  BY <1>1 DEF Receive, TypeOK, Waiting, Command
<1>3. EntriesRecord'
  BY DEF Receive, TypeOK, EntriesRecord, Entry, Added, Answered
<1>4. InFlight'
  BY DEF Receive, TypeOK, InFlight
<1>5. Evicted'
  BY DEF Receive, TypeOK, Evicted, AfterEvict
<1> QED
  BY <1>2, <1>3, <1>4, <1>5

LEMMA EvictFlight ==
  ASSUME FlightInv, NEW r \in Req, Evict(r)
  PROVE  FlightInv'
<1> USE WindowAssumption DEF FlightInv, Failed
<1>1. TypeOK'
  BY DEF Evict, TypeOK, Waiting, Command
<1>2. EntriesRecord'
  BY DEF Evict, IsNext, TypeOK, EntriesRecord, Entry, Added, Answered
<1>3. InFlight'
  BY DEF Evict, IsNext, TypeOK, InFlight, Waiting, Command
<1>4. Evicted'
  <2> SUFFICES ASSUME NEW q \in Req, pc'[q] \in AfterEvict, ~Failed(q, "evict"),
                      NEW e \in entries'
               PROVE  e.at > at[q] - Window
    BY DEF Evict, Evicted
  <2>1. e \in entries /\ ~(e.at <= at[r] - Window) /\ e.at \in Nat /\ at[q] \in Nat
    BY DEF Evict, Expired, TypeOK
  <2>2. CASE q = r
    BY <2>1, <2>2
  <2>3. CASE q # r
    BY <2>1, <2>3 DEF Evict, TypeOK, Evicted
  <2> QED
    BY <2>2, <2>3
<1> QED
  BY <1>1, <1>2, <1>3, <1>4

LEMMA CountFlight ==
  ASSUME FlightInv, NEW r \in Req, Count(r)
  PROVE  FlightInv'
<1> USE WindowAssumption DEF FlightInv, Failed
<1>1. TypeOK'
  BY EntriesFinite DEF Count, IsNext, TypeOK, Waiting, Command
<1>2. EntriesRecord'
  BY DEF Count, IsNext, TypeOK, EntriesRecord, Entry, Added, Answered
<1>3. InFlight'
  BY DEF Count, IsNext, TypeOK, InFlight, Waiting, Command
<1>4. Evicted'
  BY DEF Count, IsNext, TypeOK, Evicted, AfterEvict
<1> QED
  BY <1>1, <1>2, <1>3, <1>4

LEMMA AddFlight ==
  ASSUME FlightInv, NEW r \in Req, Add(r)
  PROVE  FlightInv'
<1> USE WindowAssumption DEF FlightInv, Failed
<1>1. TypeOK'
  BY DEF Add, TypeOK, Waiting, Command
<1>2. EntriesRecord'
  BY DEF Add, IsNext, TypeOK, EntriesRecord, Entry, Added, Answered
<1>3. InFlight'
  BY DEF Add, IsNext, TypeOK, InFlight, Waiting, Command
<1>4. \A q \in Req : at[r] > at[q] - Window
  BY DEF Add, IsNext, TypeOK, InFlight, Waiting, Command
<1>5. Evicted'
  <2> SUFFICES ASSUME NEW q \in Req, pc'[q] \in AfterEvict, ~Failed(q, "evict"),
                      NEW e \in entries'
               PROVE  e.at > at[q] - Window
    BY DEF Add, Evicted
  <2>1. e \in entries \/ e.at = at[r]
    BY DEF Add
  <2>2. pc[q] \in AfterEvict
    BY DEF Add, IsNext, TypeOK, AfterEvict
  <2> QED
    BY <1>4, <2>1, <2>2 DEF Evicted
<1> QED
  BY <1>1, <1>2, <1>3, <1>5

LEMMA ExpireFlight ==
  ASSUME FlightInv, NEW r \in Req, Expire(r)
  PROVE  FlightInv'
<1> USE WindowAssumption DEF FlightInv, Failed
<1>1. sent' \in [Instance -> Seq(Req)]
  BY HeadTailProperties DEF Expire, SentWithout, TypeOK
<1>2. TypeOK'
  BY <1>1 DEF Expire, TypeOK, Waiting, Command
<1>3. EntriesRecord'
  BY DEF Expire, IsNext, TypeOK, EntriesRecord, Entry, Added, Answered
<1>4. InFlight'
  BY DEF Expire, IsNext, TypeOK, InFlight, Waiting, Command
<1>5. Evicted'
  BY DEF Expire, IsNext, TypeOK, Evicted, AfterEvict
<1> QED
  BY <1>2, <1>3, <1>4, <1>5

LEMMA FailFlight ==
  ASSUME FlightInv, NEW r \in Req, CommandFails(r)
  PROVE  FlightInv'
<1> USE WindowAssumption DEF FlightInv, Failed
<1>1. PICK command \in Command, next \in Waiting :
        /\ Fail(r, command, next) /\ (next \in Added => command \in {"add", "expire"})
        /\ (next \in AfterEvict => pc[r] \in AfterEvict \/ command = "evict")
        /\ command \in Added => next \in Added
        /\ sent' = sent \/ sent' = SentWithout(r)
        /\ count' = count \/ count' = [count EXCEPT ![r] = 0]
  BY DEF CommandFails, Fail, IsNext, Command, Waiting, Added, AfterEvict, Answered
<1>2. sent' \in [Instance -> Seq(Req)]
  <2>1. SentWithout(r) \in [Instance -> Seq(Req)]
    BY HeadTailProperties DEF SentWithout, TypeOK
  <2> QED
    BY <1>1, <2>1 DEF TypeOK
<1>3. /\ pc[r] = command /\ pc' = [pc EXCEPT ![r] = next]
      /\ failed' = failed \cup {<<r, command>>}
      /\ UNCHANGED <<now, entries, expiry, at, retryAfter>>
  BY <1>1 DEF Fail, IsNext
<1>4. TypeOK'
  <2>1. count' \in [Req -> 0..Cardinality(Req)]
    <3>1. 0 \in 0..Cardinality(Req)
      BY FS_CardinalityType, WindowAssumption
    <3> QED
      BY <1>1, <3>1 DEF TypeOK
  <2>2. failed' \subseteq Req \X Command
    BY <1>3 DEF TypeOK
  <2>3. \A q \in Req : Failed(q, "evict")' \/ retryAfter'[q] >= 0
    BY <1>3 DEF TypeOK
  <2> QED
    BY <1>2, <1>3, <2>1, <2>2, <2>3 DEF TypeOK
<1>5. EntriesRecord'
  BY <1>1, <1>3 DEF TypeOK, EntriesRecord, Entry
<1>6. InFlight'
  BY <1>1, <1>3 DEF TypeOK, InFlight, Waiting
<1>7. Evicted'
  BY <1>1, <1>3 DEF TypeOK, Evicted
<1> QED
  BY <1>4, <1>5, <1>6, <1>7

LEMMA AnswerFlight ==
  ASSUME FlightInv, NEW r \in Req, Reply(r) \/ Reject(r) \/ RejectFails(r)
  PROVE  FlightInv'
<1> USE WindowAssumption DEF FlightInv, Failed
<1>1. CASE Reply(r)
  <2>1. TypeOK'
    BY <1>1 DEF Reply, TypeOK, Waiting, Command, Answered
  <2> QED
    BY <1>1, <2>1
    DEF Reply, TypeOK, EntriesRecord, Entry, Added, Answered, InFlight, Waiting, Command, Evicted, AfterEvict
<1>2. CASE Reject(r)
  <2> DEFINE first == CHOOSE e \in entries : \A f \in entries : e.at <= f.at
             told == IF entries = {} THEN 0 ELSE SecondsLeft(first.at, at[r])
  <2>1. told \in -MaxTime..Window + Latency /\ (Failed(r, "evict") \/ told >= 0)
    <3>1. CASE entries = {}
      BY <3>1
    <3>2. CASE entries # {}
      <4>1. first \in entries
        BY <3>2, FirstEntry
      <4> HIDE DEF first
      <4>2. /\ first.at \in Nat /\ (Failed(r, "evict") \/ first.at > at[r] - Window)
            /\ first.at <= now /\ now <= at[r] + Latency /\ at[r] \in 0..MaxTime /\ now \in Nat
        BY <1>2, <4>1
        DEF Reject, TypeOK, EntriesRecord, Entry, InFlight, Waiting, Command, Evicted, AfterEvict
      <4>3. /\ SecondsLeft(first.at, at[r]) \in -MaxTime..Window + Latency
            /\ Failed(r, "evict") \/ SecondsLeft(first.at, at[r]) >= 0
        BY <4>2 DEF SecondsLeft
      <4> QED
        BY <3>2, <4>3
    <3> QED
      BY <3>1, <3>2
  <2>2. retryAfter' = [retryAfter EXCEPT ![r] = told]
    BY <1>2 DEF Reject
  <2> HIDE DEF told
  <2>3. TypeOK'
    BY <1>2, <2>1, <2>2 DEF Reject, TypeOK, Answered
  <2> QED
    BY <1>2, <2>3
    DEF Reject, TypeOK, EntriesRecord, Entry, Added, Answered, InFlight, Waiting, Command, Evicted, AfterEvict
<1>3. CASE RejectFails(r)
  <2>1. TypeOK'
    BY <1>3 DEF RejectFails, TypeOK, Answered
  <2> QED
    BY <1>3, <2>1
    DEF RejectFails, TypeOK, EntriesRecord, Entry, Added, Answered, InFlight, Waiting, Command,
        Evicted, AfterEvict
<1> QED
  BY <1>1, <1>2, <1>3

LEMMA NextFlight == FlightInv /\ [Next]_vars => FlightInv'
<1> SUFFICES ASSUME FlightInv, [Next]_vars PROVE FlightInv'
  OBVIOUS
<1>1. CASE Tick
  <2> USE <1>1, WindowAssumption DEF FlightInv, Failed, Tick
  <2>1. TypeOK'
    BY DEF TypeOK
  <2>2. EntriesRecord'
    BY DEF EntriesRecord, Entry, Added
  <2>3. InFlight'
    BY DEF TypeOK, InFlight
  <2>4. Evicted'
    BY DEF Evicted
  <2> QED
    BY <2>1, <2>2, <2>3, <2>4
<1>2. CASE UNCHANGED vars
  BY <1>2 DEF vars, FlightInv, Failed, TypeOK, EntriesRecord, Entry, Added, InFlight, Evicted
<1> QED
  BY <1>1, <1>2, ReceiveFlight, EvictFlight, CountFlight, AddFlight, ExpireFlight, FailFlight,
     AnswerFlight
  DEF Next, Handle, Done

LEMMA FlightInvariant == Spec => []FlightInv
BY InitFlight, NextFlight, PTL DEF Spec

(* With any number of instances and of failures the state is well-typed;   *)
(* in particular no request is told to wait for longer than a window and   *)
(* the time its pipeline was late, nor, unless its eviction failed, for a  *)
(* negative time.                                                          *)
THEOREM TypeCorrect == Spec => []TypeOK
<1>1. FlightInv => TypeOK
  BY DEF FlightInv
<1> QED
  BY <1>1, FlightInvariant, PTL


(***************************************************************************)
(* Connections: pipelines wait in line, and only the first one has begun   *)
(***************************************************************************)

BeforeAdd  == {"evict", "count"}
Counted    == {"add"} \cup Added

Begun ==
  \A i \in Instance : \A k \in 1..Len(sent[i]) :
    pc[sent[i][k]] \in Command /\ (k > 1 => pc[sent[i][k]] = "evict")
SentOnce ==
  \A i, j \in Instance : \A k \in 1..Len(sent[i]) : \A l \in 1..Len(sent[j]) :
    sent[i][k] = sent[j][l] => i = j /\ k = l
Lined ==
  \A r \in Req : pc[r] \in Command =>
    \E i \in Instance : \E k \in 1..Len(sent[i]) : sent[i][k] = r
Fifo == Begun /\ SentOnce /\ Lined

(***************************************************************************)
(* Counts                                                                  *)
(***************************************************************************)

(* A recorded request is still in the set, or too old to count for anybody *)
(* who is not counted yet: the key lives for a window from the last        *)
(* PEXPIRE.                                                                *)
Over(q) ==
  /\ now >= at[q] + Window - Latency
  /\ \A r \in Req : pc[r] \in BeforeAdd => at[r] >= at[q] + Window - Latency
NoneLost ==
  \A q \in Req : pc[q] \in Added /\ Recorded(q) => Entry(q) \in entries \/ Over(q)
KeyLives ==
  \A q \in Req :
    pc[q] \in Added \ {"expire"} /\ Recorded(q) /\ Entry(q) \in entries =>
      expiry >= at[q] + Window

Decided ==
  \A r \in Req : /\ pc[r] \in {"oldest", "rejected"} => count[r] >= Limit
                 /\ pc[r] = "allowed" => count[r] < Limit

(* Whoever r may have counted after its eviction.                          *)
Near(r) ==
  {q \in Req \ {r} : /\ pc[q] # "new"
                     /\ at[q] > at[r] - Window
                     /\ at[q] <= at[r] + Latency}
Justified ==
  \A r \in Req :
    pc[r] \in Counted /\ ~Failed(r, "evict") => count[r] <= Cardinality(Near(r))

(* The requests of a window that are or will be let through by their       *)
(* count, none of their commands having failed so far.  Each was counted   *)
(* before at most one request of every other instance was added.           *)
Passed(t) ==
  {q \in Req : /\ pc[q] \in Counted /\ count[q] < Limit /\ Recorded(q)
               /\ at[q] <= t /\ at[q] > t - (Window - Latency)}
Bounded ==
  \A t \in Nat : Cardinality(Passed(t)) <= Limit + Cardinality(Instance) - 1

LimitInv ==
  /\ FlightInv /\ Fifo /\ NoneLost /\ KeyLives /\ Decided /\ Justified /\ Bounded

LEMMA NearFinite ==
  ASSUME NEW r
  PROVE  IsFiniteSet(Near(r)) /\ Cardinality(Near(r)) \in Nat
<1>1. IsFiniteSet(Near(r))
  BY WindowAssumption, FS_Subset DEF Near
<1> QED
  BY <1>1, FS_CardinalityType

LEMMA PassedFinite == ASSUME NEW t PROVE IsFiniteSet(Passed(t))
BY WindowAssumption, FS_Subset DEF Passed

LEMMA Numbers ==
  ASSUME LimitInv
  PROVE  /\ \A q \in Req : at[q] \in Nat /\ count[q] \in Nat
         /\ now \in Nat /\ expiry \in Nat
         /\ Limit \in Nat \ {0} /\ Window \in Nat \ {0} /\ Latency \in Nat /\ Latency < Window
         /\ Cardinality(Instance) \in Nat
<1>1. Cardinality(Req) \in Nat /\ Cardinality(Instance) \in Nat
  BY WindowAssumption, FS_CardinalityType
<1> QED
  BY <1>1, WindowAssumption DEF LimitInv, FlightInv, TypeOK

(* A step that counts nobody leaves the counted as they are; what failed   *)
(* stays failed.                                                           *)
Steady ==
  /\ failed \subseteq failed'
  /\ \A q \in Req :
       /\ pc'[q] \in Counted <=> pc[q] \in Counted
       /\ pc[q] \in Counted => count'[q] = count[q]
       /\ pc[q] # "new" => at'[q] = at[q] /\ pc'[q] # "new"

LEMMA NearGrows ==
  ASSUME NEW r \in Req, pc[r] # "new",
         \A q \in Req : pc[q] # "new" => at'[q] = at[q] /\ pc'[q] # "new"
  PROVE  Cardinality(Near(r)) <= Cardinality(Near(r)') /\ Cardinality(Near(r)') \in Nat
<1>1. Near(r) \subseteq Near(r)'
  BY DEF Near
<1>2. IsFiniteSet(Near(r)')
  BY WindowAssumption, FS_Subset DEF Near
<1> QED
  BY <1>1, <1>2, FS_Subset, FS_CardinalityType

LEMMA SteadyKeepsCounts ==
  ASSUME LimitInv, Steady
  PROVE  Justified' /\ Bounded'
<1>1. ASSUME NEW t \in Nat PROVE Passed(t)' \subseteq Passed(t)
  BY DEF Steady, Passed, Recorded, Failed, Counted, Added, Answered
<1>2. Bounded'
  <2>1. ASSUME NEW t \in Nat
        PROVE  Cardinality(Passed(t)') <= Limit + Cardinality(Instance) - 1
    <3>1. Cardinality(Passed(t)') <= Cardinality(Passed(t))
      BY <1>1, PassedFinite, FS_Subset
    <3>2. Cardinality(Passed(t)') \in Nat /\ Cardinality(Passed(t)) \in Nat
      BY <1>1, PassedFinite, FS_Subset, FS_CardinalityType
    <3> QED
      BY <3>1, <3>2, Numbers DEF LimitInv, Bounded
  <2> QED
    BY <2>1 DEF Bounded
<1>3. ASSUME NEW r \in Req, pc'[r] \in Counted, ~Failed(r, "evict")'
      PROVE  count'[r] <= Cardinality(Near(r)')
  <2>1. /\ pc[r] \in Counted /\ count'[r] = count[r] /\ pc[r] # "new"
        /\ ~Failed(r, "evict")
    BY <1>3 DEF Steady, Failed, Counted, Added, Answered
  <2>2. count[r] <= Cardinality(Near(r)) /\ count[r] \in Nat
    BY <2>1, Numbers DEF LimitInv, Justified
  <2>3. Cardinality(Near(r)) <= Cardinality(Near(r)') /\ Cardinality(Near(r)') \in Nat
    BY <2>1, NearGrows DEF Steady
  <2>4. Cardinality(Near(r)) \in Nat
    BY NearFinite
  <2> QED
    BY <2>1, <2>2, <2>3, <2>4
<1> QED
  BY <1>2, <1>3 DEF Justified

(* Whoever runs a command is the first in line of one connection.          *)
FirstOf(i, r) ==
  /\ sent[i] \in Seq(Req) /\ sent[i] # << >> /\ Head(sent[i]) = r
  /\ \A j \in Instance : \A k \in 1..Len(sent[j]) :
       sent[j][k] \in Req /\ (sent[j][k] = r <=> j = i /\ k = 1)

LEMMA HeadOfLine ==
  ASSUME LimitInv, NEW r \in Req, NEW command, IsNext(r, command)
  PROVE  \E i \in Instance : FirstOf(i, r)
<1>1. PICK i \in Instance : sent[i] # << >> /\ Head(sent[i]) = r
  BY DEF IsNext
<1>2. \A j \in Instance : sent[j] \in Seq(Req)
  BY DEF LimitInv, FlightInv, TypeOK
<1>3. 1 \in 1..Len(sent[i]) /\ sent[i][1] = r
  BY <1>1, <1>2
<1>4. \A j \in Instance : \A k \in 1..Len(sent[j]) :
        sent[j][k] \in Req /\ (sent[j][k] = r <=> j = i /\ k = 1)
  BY <1>2, <1>3, ElementOfSeq DEF LimitInv, Fifo, SentOnce
<1> QED
  BY <1>1, <1>2, <1>4 DEF FirstOf

LEMMA ReceiveFifo ==
  ASSUME LimitInv, NEW r \in Req, NEW i \in Instance, Receive(r, i)
  PROVE  Fifo'
<1>1. /\ pc[r] = "new" /\ pc'[r] = "evict" /\ \A q \in Req : q # r => pc'[q] = pc[q]
      /\ \A j \in Instance : sent[j] \in Seq(Req) /\ (j # i => sent'[j] = sent[j])
      /\ sent'[i] = Append(sent[i], r) /\ Len(sent[i]) \in Nat
  BY DEF Receive, LimitInv, FlightInv, TypeOK
<1>2. /\ Len(sent'[i]) = Len(sent[i]) + 1
      /\ \A k \in 1..Len(sent[i]) : sent'[i][k] = sent[i][k]
      /\ sent'[i][Len(sent[i]) + 1] = r
  BY <1>1, AppendProperties
<1>3. ASSUME NEW j \in Instance, NEW k \in 1..Len(sent[j])
      PROVE  sent[j][k] # r /\ pc'[sent[j][k]] = pc[sent[j][k]]
  <2>1. sent[j][k] \in Req /\ pc[sent[j][k]] \in Command
    BY <1>1, ElementOfSeq DEF LimitInv, Fifo, Begun
  <2> QED
    BY <1>1, <2>1 DEF Command
<1>4. ASSUME NEW j \in Instance, NEW k \in 1..Len(sent'[j])
      PROVE  \/ k \in 1..Len(sent[j]) /\ sent'[j][k] = sent[j][k]
             \/ j = i /\ k = Len(sent[i]) + 1 /\ sent'[j][k] = r
  BY <1>1, <1>2
<1>5. Begun'
  BY <1>1, <1>3, <1>4 DEF LimitInv, Fifo, Begun, Command
<1>6. SentOnce'
  <2> SUFFICES ASSUME NEW j \in Instance, NEW m \in Instance,
                      NEW k \in 1..Len(sent'[j]), NEW l \in 1..Len(sent'[m]),
                      sent'[j][k] = sent'[m][l]
               PROVE  j = m /\ k = l
    BY DEF SentOnce
  <2>1. CASE k \in 1..Len(sent[j]) /\ sent'[j][k] = sent[j][k]
    <3>1. sent'[j][k] # r
      BY <1>3, <2>1
    <3>2. l \in 1..Len(sent[m]) /\ sent'[m][l] = sent[m][l]
      BY <1>4, <3>1
    <3>3. sent[j][k] = sent[m][l]
      BY <2>1, <3>2
    <3> QED
      BY <2>1, <3>2, <3>3 DEF LimitInv, Fifo, SentOnce
  <2>2. CASE j = i /\ k = Len(sent[i]) + 1 /\ sent'[j][k] = r
    <3>1. ~(l \in 1..Len(sent[m]) /\ sent'[m][l] = sent[m][l])
      BY <1>3, <2>2
    <3>2. m = i /\ l = Len(sent[i]) + 1
      BY <1>4, <3>1
    <3> QED
      BY <2>2, <3>2
  <2> QED
    BY <1>4, <2>1, <2>2
<1>7. Lined'
  <2> SUFFICES ASSUME NEW q \in Req, pc'[q] \in Command
               PROVE  \E j \in Instance : \E k \in 1..Len(sent'[j]) : sent'[j][k] = q
    BY DEF Lined
  <2>1. CASE q = r
    BY <1>1, <1>2, <2>1
  <2>2. CASE q # r
    <3>1. PICK j \in Instance : \E k \in 1..Len(sent[j]) : sent[j][k] = q
      BY <1>1, <2>2 DEF LimitInv, Fifo, Lined
    <3>2. PICK k \in 1..Len(sent[j]) : sent[j][k] = q
      BY <3>1
    <3>3. k \in 1..Len(sent'[j]) /\ sent'[j][k] = q
      BY <1>1, <1>2, <3>2
    <3> QED
      BY <3>3
  <2> QED
    BY <2>1, <2>2
<1> QED
  BY <1>5, <1>6, <1>7 DEF Fifo

(* The first in line runs a command that is not its last.                  *)
LEMMA CommandFifo ==
  ASSUME LimitInv, NEW r \in Req, NEW command \in Command, IsNext(r, command),
         NEW next \in Command, pc' = [pc EXCEPT ![r] = next], UNCHANGED sent
  PROVE  Fifo'
<1>1. PICK i \in Instance : FirstOf(i, r)
  BY HeadOfLine
<1>2. pc[r] = command /\ pc'[r] = next /\ \A q \in Req : q # r => pc'[q] = pc[q]
  BY DEF IsNext, LimitInv, FlightInv, TypeOK
<1>3. Begun'
  BY <1>1, <1>2 DEF LimitInv, Fifo, Begun, FirstOf
<1>4. SentOnce'
  BY DEF LimitInv, Fifo, SentOnce
<1>5. Lined'
  BY <1>2 DEF LimitInv, Fifo, Lined
<1> QED
  BY <1>3, <1>4, <1>5 DEF Fifo

(* The end of a pipeline lets the next in line begin.                      *)
LEMMA LastFifo ==
  ASSUME LimitInv, NEW r \in Req, IsNext(r, "expire"),
         pc' = [pc EXCEPT ![r] = "reply"], sent' = SentWithout(r)
  PROVE  Fifo'
<1>1. PICK i \in Instance : FirstOf(i, r)
  BY HeadOfLine
<1>2. /\ pc'[r] = "reply" /\ \A q \in Req : q # r => pc'[q] = pc[q]
      /\ \A j \in Instance : sent[j] \in Seq(Req) /\ Len(sent[j]) \in Nat
      /\ sent'[i] = Tail(sent[i])
  BY <1>1 DEF SentWithout, LimitInv, FlightInv, TypeOK, FirstOf
<1>3. ASSUME NEW j \in Instance, j # i PROVE sent'[j] = sent[j]
  <2>1. sent[j] # << >> => Head(sent[j]) # r
    <3> SUFFICES ASSUME sent[j] # << >> PROVE Head(sent[j]) # r
      OBVIOUS
    <3>1. 1 \in 1..Len(sent[j]) /\ Head(sent[j]) = sent[j][1]
      BY <1>2
    <3> QED
      BY <1>1, <1>3, <3>1 DEF FirstOf
  <2> QED
    BY <2>1 DEF SentWithout
<1>4. /\ Len(sent'[i]) = Len(sent[i]) - 1
      /\ \A k \in 1..Len(sent'[i]) : sent'[i][k] = sent[i][k + 1]
  BY <1>1, <1>2, HeadTailProperties DEF FirstOf
<1> DEFINE from(j, k) == IF j = i THEN k + 1 ELSE k
<1>5. ASSUME NEW j \in Instance, NEW k \in 1..Len(sent'[j])
      PROVE  /\ from(j, k) \in 1..Len(sent[j]) /\ sent'[j][k] = sent[j][from(j, k)]
             /\ sent'[j][k] \in Req /\ sent'[j][k] # r
             /\ pc[sent'[j][k]] \in Command
             /\ j = i \/ k > 1 => pc[sent'[j][k]] = "evict"
  <2>1. CASE j = i
    <3>1. k \in 1..Len(sent'[i])
      BY <2>1
    <3>2. k + 1 \in 1..Len(sent[i]) /\ k + 1 > 1 /\ sent'[i][k] = sent[i][k + 1]
      BY <1>2, <1>4, <3>1
    <3> QED
      BY <1>1, <2>1, <3>2 DEF FirstOf, LimitInv, Fifo, Begun
  <2>2. CASE j # i
    BY <1>1, <1>3, <2>2 DEF FirstOf, LimitInv, Fifo, Begun
  <2> QED
    BY <2>1, <2>2
<1>6. Begun'
  BY <1>2, <1>5 DEF Begun
<1>7. SentOnce'
  <2> SUFFICES ASSUME NEW j \in Instance, NEW m \in Instance,
                      NEW k \in 1..Len(sent'[j]), NEW l \in 1..Len(sent'[m]),
                      sent'[j][k] = sent'[m][l]
               PROVE  j = m /\ k = l
    BY DEF SentOnce
  <2> DEFINE a == from(j, k)
             b == from(m, l)
  <2>1. /\ a \in 1..Len(sent[j]) /\ sent'[j][k] = sent[j][a]
        /\ b \in 1..Len(sent[m]) /\ sent'[m][l] = sent[m][b]
    BY <1>5
  <2>2. j = m => (a = b => k = l)
    BY <1>2, <1>4
  <2> HIDE DEF a, b
  <2>3. sent[j][a] = sent[m][b]
    BY <2>1
  <2>4. j = m /\ a = b
    BY <2>1, <2>3 DEF LimitInv, Fifo, SentOnce
  <2> QED
    BY <2>2, <2>4
<1>8. Lined'
  <2> SUFFICES ASSUME NEW q \in Req, pc'[q] \in Command
               PROVE  \E j \in Instance : \E k \in 1..Len(sent'[j]) : sent'[j][k] = q
    BY DEF Lined
  <2>1. q # r /\ pc[q] \in Command
    BY <1>2 DEF Command
  <2>2. PICK j \in Instance : \E k \in 1..Len(sent[j]) : sent[j][k] = q
    BY <2>1 DEF LimitInv, Fifo, Lined
  <2>3. PICK k \in 1..Len(sent[j]) : sent[j][k] = q
    BY <2>2
  <2>4. CASE j # i
    BY <1>3, <2>3, <2>4
  <2>5. CASE j = i
    <3>1. k # 1
      BY <1>1, <2>1, <2>3, <2>5 DEF FirstOf
    <3>2. k - 1 \in 1..Len(sent'[i]) /\ (k - 1) + 1 = k
      BY <1>2, <1>4, <2>5, <3>1
    <3>3. sent'[i][k - 1] = q
      BY <1>4, <2>3, <2>5, <3>2
    <3> QED
      BY <3>2, <3>3
  <2> QED
    BY <2>4, <2>5
<1> QED
  BY <1>6, <1>7, <1>8 DEF Fifo

(* A step that leaves the lines and the requests in them alone.            *)
LEMMA OtherFifo ==
  ASSUME LimitInv, UNCHANGED sent,
         \A q \in Req : pc'[q] = pc[q] \/ (pc[q] \notin Command /\ pc'[q] \notin Command)
  PROVE  Fifo'
<1>1. \A i \in Instance : \A k \in 1..Len(sent[i]) : sent[i][k] \in Req
  BY ElementOfSeq DEF LimitInv, FlightInv, TypeOK
<1>2. Begun'
  BY <1>1 DEF LimitInv, Fifo, Begun
<1>3. SentOnce' /\ Lined'
  BY DEF LimitInv, Fifo, SentOnce, Lined
<1> QED
  BY <1>2, <1>3 DEF Fifo

LEMMA ReceiveLimit ==
  ASSUME LimitInv, NEW r \in Req, NEW i \in Instance, Receive(r, i)
  PROVE  LimitInv'
<1> USE DEF BeforeAdd, Counted, Added, Answered, Recorded, Failed
<1>1. /\ pc[r] = "new" /\ pc' = [pc EXCEPT ![r] = "evict"] /\ at' = [at EXCEPT ![r] = now]
      /\ UNCHANGED <<now, entries, expiry, count, failed>>
  BY DEF Receive
<1>2. TypeOK
  BY DEF LimitInv, FlightInv
<1>3. FlightInv'
  BY ReceiveFlight DEF LimitInv
<1>4. Steady
  BY <1>1, <1>2 DEF Steady, TypeOK
<1>5. NoneLost'
  BY <1>1, <1>2 DEF LimitInv, NoneLost, Over, Entry, TypeOK
<1>6. KeyLives' /\ Decided'
  BY <1>1, <1>2 DEF LimitInv, KeyLives, Decided, TypeOK, Entry
<1> QED
  BY <1>3, <1>4, <1>5, <1>6, ReceiveFifo, SteadyKeepsCounts DEF LimitInv

LEMMA EvictLimit ==
  ASSUME LimitInv, NEW r \in Req, Evict(r)
  PROVE  LimitInv'
<1> USE DEF BeforeAdd, Counted, Added, Answered, Recorded, Failed
<1>1. /\ pc[r] = "evict" /\ IsNext(r, "evict")
      /\ pc' = [pc EXCEPT ![r] = "count"]
      /\ entries' = {e \in entries : ~(e.at <= at[r] - Window)}
      /\ expiry' = IF entries' = {} THEN 0 ELSE expiry
      /\ UNCHANGED <<now, sent, at, count, failed>>
  BY DEF Evict, IsNext, Expired
<1>2. TypeOK /\ InFlight
  BY DEF LimitInv, FlightInv
<1>3. FlightInv'
  BY EvictFlight DEF LimitInv
<1>4. Fifo'
  BY <1>1, CommandFifo DEF Command
<1>5. Steady
  BY <1>1, <1>2 DEF Steady, TypeOK
<1>6. KeyLives' /\ Decided'
  BY <1>1, <1>2 DEF LimitInv, KeyLives, Decided, TypeOK, Entry
<1>7. NoneLost'
  <2> SUFFICES ASSUME NEW q \in Req, pc'[q] \in Added, Recorded(q), Entry(q)' \notin entries'
               PROVE  Over(q)'
    BY <1>1 DEF NoneLost
  <2>1. pc[q] \in Added /\ Entry(q)' = Entry(q)
    BY <1>1, <1>2 DEF TypeOK, Entry
  <2>2. \A p \in Req : pc'[p] \in BeforeAdd => pc[p] \in BeforeAdd
    BY <1>1, <1>2 DEF TypeOK
  <2>3. CASE Entry(q) \in entries
    <3>1. at[q] <= at[r] - Window
      BY <1>1, <2>1, <2>3 DEF Entry
    <3>2. now >= at[r]
      BY <1>2 DEF InFlight
    <3>3. \A p \in Req : pc[p] \in BeforeAdd => now <= at[p] + Latency
      BY <1>2 DEF InFlight, Waiting, Command
    <3> QED
      BY <1>1, <2>2, <3>1, <3>2, <3>3, Numbers DEF Over
  <2>4. CASE Entry(q) \notin entries
    <3>1. Over(q)
      BY <2>1, <2>4 DEF LimitInv, NoneLost
    <3> QED
      BY <1>1, <2>2, <3>1 DEF Over
  <2> QED
    BY <2>3, <2>4
<1> QED
  BY <1>3, <1>4, <1>5, <1>6, <1>7, SteadyKeepsCounts DEF LimitInv

LEMMA AddLimit ==
  ASSUME LimitInv, NEW r \in Req, Add(r)
  PROVE  LimitInv'
<1> USE DEF BeforeAdd, Counted, Added, Answered, Recorded, Failed
<1>1. /\ pc[r] = "add" /\ IsNext(r, "add")
      /\ pc' = [pc EXCEPT ![r] = "expire"]
      /\ entries' = entries \cup {Entry(r)}
      /\ UNCHANGED <<now, expiry, sent, at, count, failed>>
  BY DEF Add, IsNext, Entry
<1>2. TypeOK
  BY DEF LimitInv, FlightInv
<1>3. FlightInv'
  BY AddFlight DEF LimitInv
<1>4. Fifo'
  BY <1>1, CommandFifo DEF Command
<1>5. Steady
  BY <1>1, <1>2 DEF Steady, TypeOK
<1>6. KeyLives' /\ Decided'
  BY <1>1, <1>2 DEF LimitInv, KeyLives, Decided, TypeOK, Entry
<1>7. NoneLost'
  BY <1>1, <1>2 DEF LimitInv, NoneLost, Over, Entry, TypeOK
<1> QED
  BY <1>3, <1>4, <1>5, <1>6, <1>7, SteadyKeepsCounts DEF LimitInv

LEMMA ExpireLimit ==
  ASSUME LimitInv, NEW r \in Req, Expire(r)
  PROVE  LimitInv'
<1> USE DEF BeforeAdd, Counted, Added, Answered, Recorded, Failed
<1>1. /\ pc[r] = "expire" /\ pc' = [pc EXCEPT ![r] = "reply"]
      /\ expiry' = IF entries = {} THEN expiry ELSE now + Window
      /\ UNCHANGED <<now, entries, at, count, failed>>
  BY DEF Expire, IsNext
<1>2. TypeOK /\ InFlight
  BY DEF LimitInv, FlightInv
<1>3. FlightInv'
  BY ExpireFlight DEF LimitInv
<1>4. Steady
  BY <1>1, <1>2 DEF Steady, TypeOK
<1>5. Decided'
  BY <1>1, <1>2 DEF LimitInv, Decided, TypeOK
<1>6. KeyLives'
  BY <1>1, <1>2, Numbers DEF KeyLives, InFlight, Entry
<1>7. NoneLost'
  BY <1>1, <1>2 DEF LimitInv, NoneLost, Over, Entry, TypeOK
<1>8. Fifo'
  BY <1>1, LastFifo DEF Expire
<1> QED
  BY <1>3, <1>4, <1>5, <1>6, <1>7, <1>8, SteadyKeepsCounts DEF LimitInv

(* A command that fails takes its request out of those that pass, but for  *)
(* the eviction, and that lets fewer requests through.                     *)
LEMMA FailLimit ==
  ASSUME LimitInv, NEW r \in Req, CommandFails(r)
  PROVE  LimitInv'
<1> USE DEF BeforeAdd, Counted, Added, Answered, Recorded, Failed
<1>1. TypeOK
  BY DEF LimitInv, FlightInv
<1>2. FlightInv'
  BY FailFlight DEF LimitInv
<1>3. PICK command \in Command, next \in {"count", "add", "expire", "reply"} :
        /\ IsNext(r, command) /\ pc[r] = command /\ pc' = [pc EXCEPT ![r] = next]
        /\ failed' = failed \cup {<<r, command>>}
        /\ UNCHANGED <<now, entries, expiry, at>>
        /\ \/ command = "evict" /\ next = "count" /\ UNCHANGED sent
           \/ command = "count" /\ next = "add" /\ UNCHANGED sent
           \/ command = "add" /\ next = "expire" /\ UNCHANGED sent
           \/ command = "expire" /\ next = "reply" /\ sent' = SentWithout(r)
        /\ count' = IF command = "count" THEN [count EXCEPT ![r] = 0] ELSE count
  BY DEF CommandFails, Fail, IsNext, Command
<1>4. /\ pc'[r] = next
      /\ \A q \in Req : q # r => pc'[q] = pc[q] /\ count'[q] = count[q]
      /\ count'[r] = IF command = "count" THEN 0 ELSE count[r]
  BY <1>1, <1>3 DEF TypeOK
<1>5. Fifo'
  BY <1>3, CommandFifo, LastFifo DEF Command
<1>6. NoneLost' /\ KeyLives' /\ Decided'
  <2>1. ASSUME NEW q \in Req, pc'[q] \in Added, Recorded(q)'
        PROVE  pc[q] \in Added /\ pc'[q] = pc[q] /\ Recorded(q)
    BY <1>3, <1>4, <2>1
  <2>2. ASSUME NEW q \in Req, Over(q) PROVE Over(q)'
    BY <1>3, <1>4, <2>2 DEF Over
  <2>3. NoneLost'
    BY <1>3, <2>1, <2>2 DEF LimitInv, NoneLost, Entry
  <2>4. KeyLives'
    BY <1>3, <2>1 DEF LimitInv, KeyLives, Entry
  <2>5. Decided'
    BY <1>4 DEF LimitInv, Decided
  <2> QED
    BY <2>3, <2>4, <2>5
<1>7. CASE command # "count"
  <2>1. Steady
    BY <1>3, <1>4, <1>7 DEF Steady
  <2> QED
    BY <1>2, <1>5, <1>6, <2>1, SteadyKeepsCounts DEF LimitInv
<1>8. CASE command = "count"
  <2>1. ASSUME NEW t \in Nat PROVE Passed(t)' = Passed(t)
    BY <1>3, <1>4, <1>8 DEF Passed
  <2>2. ASSUME NEW q \in Req PROVE Near(q)' = Near(q)
    BY <1>3, <1>4 DEF Near
  <2>3. \A q \in Req : pc'[q] \in Counted /\ q # r => pc[q] \in Counted
    BY <1>4
  <2>4. Justified'
    BY <1>3, <1>4, <1>8, <2>2, <2>3, NearFinite DEF LimitInv, Justified
  <2>5. Bounded'
    BY <2>1 DEF LimitInv, Bounded
  <2> QED
    BY <1>2, <1>5, <1>6, <2>4, <2>5 DEF LimitInv
<1> QED
  BY <1>7, <1>8

LEMMA AnswerLimit ==
  ASSUME LimitInv, NEW r \in Req, Reply(r) \/ Reject(r) \/ RejectFails(r)
  PROVE  LimitInv'
<1> USE DEF BeforeAdd, Counted, Added, Answered, Recorded, Failed
<1>1. /\ \/ pc[r] = "reply"
            /\ pc' = [pc EXCEPT ![r] = IF count[r] < Limit THEN "allowed" ELSE "oldest"]
         \/ pc[r] = "oldest" /\ pc' = [pc EXCEPT ![r] = "rejected"]
         \/ pc[r] = "oldest" /\ pc' = [pc EXCEPT ![r] = "failed"]
      /\ UNCHANGED <<now, entries, expiry, sent, at, count, failed>>
  BY DEF Reply, Reject, RejectFails, WithinLimit
<1>2. TypeOK
  BY DEF LimitInv, FlightInv
<1>3. FlightInv'
  BY AnswerFlight DEF LimitInv
<1>4. Steady
  BY <1>1, <1>2 DEF Steady, TypeOK
<1>5. Fifo'
  BY <1>1, <1>2, OtherFifo DEF TypeOK, Command
<1>6. KeyLives'
  BY <1>1, <1>2 DEF LimitInv, KeyLives, TypeOK, Entry
<1>7. Decided'
  <2>1. /\ pc'[r] = "allowed" => count[r] < Limit
        /\ pc'[r] \in {"oldest", "rejected"} => count[r] >= Limit
    BY <1>1, <1>2, Numbers DEF LimitInv, Decided, TypeOK
  <2>2. \A q \in Req : q # r => pc'[q] = pc[q]
    BY <1>1, <1>2 DEF TypeOK
  <2> QED
    BY <1>1, <2>1, <2>2 DEF LimitInv, Decided
<1>8. NoneLost'
  BY <1>1, <1>2 DEF LimitInv, NoneLost, Over, Entry, TypeOK
<1> QED
  BY <1>3, <1>4, <1>5, <1>6, <1>7, <1>8, SteadyKeepsCounts DEF LimitInv

LEMMA TickLimit ==
  ASSUME LimitInv, Tick
  PROVE  LimitInv'
<1>1. /\ now' = now + 1 /\ entries' = IF expiry = now + 1 THEN {} ELSE entries
      /\ expiry' = IF expiry = now + 1 THEN 0 ELSE expiry
      /\ UNCHANGED <<sent, pc, at, count, failed>>
      /\ \A q \in Req : pc[q] # "expire"
      /\ \A q \in Req : pc[q] \in Waiting => now < at[q] + Latency
  BY DEF Tick
<1>2. FlightInv'
  <2>1. [Next]_vars
    BY DEF Next
  <2> QED
    BY <2>1, NextFlight DEF LimitInv
<1>3. Steady
  BY <1>1 DEF Steady
<1>4. Fifo'
  BY <1>1, OtherFifo
<1>5. KeyLives' /\ Decided'
  BY <1>1 DEF LimitInv, KeyLives, Decided, Entry, Recorded, Failed
<1>6. NoneLost'
  <2> SUFFICES ASSUME NEW q \in Req, pc[q] \in Added, Recorded(q), Entry(q) \notin entries'
               PROVE  Over(q)'
    BY <1>1 DEF NoneLost, Entry, Recorded, Failed
  <2>1. CASE Entry(q) \in entries
    <3>1. expiry = now + 1 /\ expiry >= at[q] + Window
      BY <1>1, <2>1 DEF LimitInv, KeyLives
    <3>2. \A p \in Req : pc[p] \in BeforeAdd => now + 1 <= at[p] + Latency
      BY <1>1, Numbers DEF Waiting, Command, BeforeAdd
    <3> QED
      BY <1>1, <3>1, <3>2, Numbers DEF Over
  <2>2. CASE Entry(q) \notin entries
    <3>1. Over(q)
      BY <2>2 DEF LimitInv, NoneLost
    <3> QED
      BY <1>1, <3>1, Numbers DEF Over
  <2> QED
    BY <2>1, <2>2
<1> QED
  BY <1>2, <1>3, <1>4, <1>5, <1>6, SteadyKeepsCounts DEF LimitInv

(* What ZCARD counts is near: other requests that came in less than a      *)
(* window before r, or overtook it.                                        *)
LEMMA CountedAreNear ==
  ASSUME LimitInv, NEW r \in Req, pc[r] = "count", ~Failed(r, "evict")
  PROVE  Cardinality(entries) <= Cardinality(Near(r))
<1> DEFINE f == [e \in entries |-> e.by]
<1>1. ASSUME NEW e \in entries PROVE e.by \in Near(r)
  <2>1. e.by \in Req /\ pc[e.by] \in Added /\ e.at = at[e.by]
    BY DEF LimitInv, FlightInv, EntriesRecord, Entry
  <2>2. e.by # r /\ pc[e.by] # "new"
    BY <2>1 DEF Added, Answered
  <2>3. at[e.by] > at[r] - Window
    BY <2>1 DEF LimitInv, FlightInv, Evicted, AfterEvict
  <2>4. at[e.by] <= now /\ now <= at[r] + Latency
    BY <2>1 DEF LimitInv, FlightInv, InFlight, Waiting, Command
  <2> QED
    BY <2>1, <2>2, <2>3, <2>4, Numbers DEF Near
<1>2. f \in [entries -> Near(r)]
  BY <1>1
<1>3. ASSUME NEW d \in entries, NEW e \in entries, f[d] = f[e] PROVE d = e
  BY <1>3 DEF LimitInv, FlightInv, EntriesRecord
<1>4. f \in Injection(entries, Near(r))
  BY <1>2, <1>3 DEF Injection, IsInjective
<1> QED
  BY <1>4, NearFinite, FS_Injection

(* The requests about to be added are each the first in line of a          *)
(* connection, and none of them is in line where r is.                     *)
Adding == {q \in Req : pc[q] = "add"}

LEMMA OneAddingEach ==
  ASSUME LimitInv, NEW r \in Req, IsNext(r, "count")
  PROVE  IsFiniteSet(Adding) /\ Cardinality(Adding) <= Cardinality(Instance) - 1
<1>1. PICK i \in Instance : FirstOf(i, r)
  BY HeadOfLine
<1>2. pc[r] = "count"
  BY DEF IsNext
<1> DEFINE Others == Instance \ {i}
           f == [q \in Adding |-> CHOOSE j \in Others : sent[j] # << >> /\ Head(sent[j]) = q]
<1>3. ASSUME NEW q \in Adding
      PROVE  \E j \in Others : sent[j] # << >> /\ Head(sent[j]) = q
  <2>1. q \in Req /\ pc[q] = "add"
    BY DEF Adding
  <2>2. PICK j \in Instance : \E k \in 1..Len(sent[j]) : sent[j][k] = q
    BY <2>1 DEF LimitInv, Fifo, Lined, Command
  <2>3. PICK k \in 1..Len(sent[j]) : sent[j][k] = q
    BY <2>2
  <2>4. sent[j] \in Seq(Req) /\ Len(sent[j]) \in Nat
    BY DEF LimitInv, FlightInv, TypeOK
  <2>5. k = 1
    BY <2>1, <2>3, <2>4 DEF LimitInv, Fifo, Begun
  <2>6. j # i
    BY <1>1, <1>2, <2>1, <2>3, <2>5 DEF FirstOf
  <2>7. sent[j] # << >> /\ Head(sent[j]) = q
    BY <2>3, <2>4, <2>5
  <2> QED
    BY <2>6, <2>7
<1>4. ASSUME NEW q \in Adding
      PROVE  f[q] \in Others /\ Head(sent[f[q]]) = q
  BY <1>3
<1>5. f \in Injection(Adding, Others)
  <2>1. f \in [Adding -> Others]
    BY <1>4
  <2>2. ASSUME NEW p \in Adding, NEW q \in Adding, f[p] = f[q] PROVE p = q
    BY <1>4, <2>2
  <2> QED
    BY <2>1, <2>2 DEF Injection, IsInjective
<1>6. IsFiniteSet(Others) /\ Cardinality(Others) = Cardinality(Instance) - 1
  BY WindowAssumption, FS_RemoveElement
<1> HIDE DEF Others, f
<1> QED
  BY <1>5, <1>6, FS_Injection

(* With r counted and let through, its window has the members ZCARD        *)
(* counted, who is about to be added, and r.                               *)
LEMMA CountBounded ==
  ASSUME LimitInv, NEW r \in Req, IsNext(r, "count"), NEW t \in Nat,
         at[r] <= t, at[r] > t - (Window - Latency), Cardinality(entries) < Limit
  PROVE  Cardinality(Passed(t) \cup {r}) <= Limit + Cardinality(Instance) - 1
<1> DEFINE Held == Passed(t) \ Adding
<1>1. pc[r] = "count" /\ IsFiniteSet(entries) /\ Cardinality(entries) \in Nat
  BY EntriesFinite, FS_CardinalityType DEF IsNext, LimitInv
<1>2. ASSUME NEW q \in Held PROVE Entry(q) \in entries
  <2>1. q \in Req /\ pc[q] \in Added /\ Recorded(q) /\ at[q] > t - (Window - Latency)
    BY DEF Passed, Adding, Counted
  <2>2. ~(at[r] >= at[q] + Window - Latency)
    BY <2>1, Numbers
  <2> QED
    BY <1>1, <2>1, <2>2 DEF LimitInv, NoneLost, Over, BeforeAdd
<1> DEFINE f == [q \in Held |-> Entry(q)]
<1>3. f \in Injection(Held, entries)
  <2>1. f \in [Held -> entries]
    BY <1>2
  <2>2. ASSUME NEW p \in Held, NEW q \in Held, f[p] = f[q] PROVE p = q
    BY <2>2 DEF Entry
  <2> QED
    BY <2>1, <2>2 DEF Injection, IsInjective
<1> HIDE DEF Held, f
<1>4. IsFiniteSet(Held) /\ Cardinality(Held) <= Cardinality(entries)
  BY <1>1, <1>3, FS_Injection
<1>5. IsFiniteSet(Adding) /\ Cardinality(Adding) <= Cardinality(Instance) - 1
  BY OneAddingEach
<1>6. /\ IsFiniteSet(Held \cup Adding)
      /\ Cardinality(Held \cup Adding) <= Cardinality(Held) + Cardinality(Adding)
  <2>1. /\ IsFiniteSet(Held \cup Adding)
        /\ Cardinality(Held \cup Adding) =
             Cardinality(Held) + Cardinality(Adding) - Cardinality(Held \cap Adding)
    BY <1>4, <1>5, FS_Union
  <2>2. Cardinality(Held \cap Adding) \in Nat
    BY <1>4, FS_Intersection, FS_CardinalityType
  <2>3. Cardinality(Held) \in Nat /\ Cardinality(Adding) \in Nat
    BY <1>4, <1>5, FS_CardinalityType
  <2> QED
    BY <2>1, <2>2, <2>3
<1>7. Passed(t) \cup {r} \subseteq (Held \cup Adding) \cup {r}
  BY DEF Held
<1>8. /\ IsFiniteSet((Held \cup Adding) \cup {r})
      /\ Cardinality((Held \cup Adding) \cup {r}) <= Cardinality(Held \cup Adding) + 1
  <2>1. Cardinality(Held \cup Adding) \in Nat
    BY <1>6, FS_CardinalityType
  <2>2. \/ Cardinality((Held \cup Adding) \cup {r}) = Cardinality(Held \cup Adding)
        \/ Cardinality((Held \cup Adding) \cup {r}) = Cardinality(Held \cup Adding) + 1
    BY <1>6, FS_AddElement
  <2>3. IsFiniteSet((Held \cup Adding) \cup {r})
    BY <1>6, FS_AddElement
  <2> QED
    BY <2>1, <2>2, <2>3
<1>9. Cardinality(Passed(t) \cup {r}) <= Cardinality((Held \cup Adding) \cup {r})
  BY <1>7, <1>8, FS_Subset
<1>10. /\ Cardinality(Passed(t) \cup {r}) \in Nat
       /\ Cardinality((Held \cup Adding) \cup {r}) \in Nat
       /\ Cardinality(Held \cup Adding) \in Nat
       /\ Cardinality(Held) \in Nat /\ Cardinality(Adding) \in Nat
  <2>1. IsFiniteSet(Passed(t) \cup {r})
    BY <1>7, <1>8, FS_Subset
  <2> QED
    BY <2>1, <1>4, <1>5, <1>6, <1>8, FS_CardinalityType
<1> QED
  BY <1>1, <1>4, <1>5, <1>6, <1>8, <1>9, <1>10, Numbers

LEMMA CountLimit ==
  ASSUME LimitInv, NEW r \in Req, Count(r)
  PROVE  LimitInv'
<1>1. /\ pc[r] = "count" /\ IsNext(r, "count")
      /\ pc' = [pc EXCEPT ![r] = "add"]
      /\ count' = [count EXCEPT ![r] = Cardinality(entries)]
      /\ UNCHANGED <<now, entries, expiry, sent, at, failed>>
  BY DEF Count, IsNext
<1>2. TypeOK
  BY DEF LimitInv, FlightInv
<1>3. FlightInv'
  BY CountFlight DEF LimitInv
<1>4. Fifo'
  BY <1>1, CommandFifo DEF Command
<1>5. NoneLost' /\ KeyLives'
  BY <1>1, <1>2
  DEF LimitInv, NoneLost, Over, Entry, KeyLives, TypeOK, BeforeAdd, Added, Answered, Recorded, Failed
<1>6. Decided'
  BY <1>1, <1>2 DEF LimitInv, Decided, TypeOK
<1>7. /\ pc'[r] = "add" /\ count'[r] = Cardinality(entries)
      /\ \A q \in Req : q # r => pc'[q] = pc[q] /\ count'[q] = count[q]
  BY <1>1, <1>2 DEF TypeOK
<1>8. Justified'
  <2> SUFFICES ASSUME NEW q \in Req, pc'[q] \in Counted, ~Failed(q, "evict")
               PROVE  count'[q] <= Cardinality(Near(q))
    <3>1. \A q \in Req : (pc'[q] # "new") = (pc[q] # "new")
      BY <1>1, <1>7
    <3>2. \A q \in Req : Near(q)' = Near(q)
      BY <1>1, <3>1 DEF Near
    <3> QED
      BY <1>1, <3>2 DEF Justified, Failed
  <2>1. CASE q = r
    BY <1>1, <1>7, <2>1, CountedAreNear
  <2>2. CASE q # r
    BY <1>7, <2>2 DEF LimitInv, Justified
  <2> QED
    BY <2>1, <2>2
<1>9. Bounded'
  <2> SUFFICES ASSUME NEW t \in Nat
               PROVE  Cardinality(Passed(t)') <= Limit + Cardinality(Instance) - 1
    BY DEF Bounded
  <2>1. r \notin Passed(t)
    BY <1>1 DEF Passed, Counted, Added, Answered
  <2>2. \A q \in Req : q # r => (q \in Passed(t)' <=> q \in Passed(t))
    BY <1>1, <1>7 DEF Passed, Recorded, Failed
  <2>3. Passed(t)' \subseteq Req /\ Passed(t) \subseteq Req
    BY DEF Passed
  <2>4. CASE r \in Passed(t)'
    <3>1. Cardinality(entries) < Limit /\ at[r] <= t /\ at[r] > t - (Window - Latency)
      BY <1>1, <1>7, <2>4 DEF Passed
    <3>2. Passed(t)' = Passed(t) \cup {r}
      BY <2>2, <2>3, <2>4
    <3> QED
      BY <1>1, <3>1, <3>2, CountBounded
  <2>5. CASE r \notin Passed(t)'
    <3>1. Passed(t)' = Passed(t)
      BY <2>1, <2>2, <2>3, <2>5
    <3> QED
      BY <3>1 DEF LimitInv, Bounded
  <2> QED
    BY <2>4, <2>5
<1> QED
  BY <1>3, <1>4, <1>5, <1>6, <1>8, <1>9 DEF LimitInv

LEMMA InitLimit == Init => LimitInv
<1> SUFFICES ASSUME Init PROVE LimitInv
  OBVIOUS
<1>1. FlightInv
  BY InitFlight
<1>2. \A q \in Req : pc[q] = "new"
  BY DEF Init
<1>3. \A i \in Instance : Len(sent[i]) = 0
  BY DEF Init
<1>4. Fifo
  BY <1>2, <1>3 DEF Fifo, Begun, SentOnce, Lined, Command
<1>5. NoneLost /\ KeyLives /\ Decided /\ Justified
  BY <1>2 DEF NoneLost, KeyLives, Decided, Justified, Counted, Added, Answered
<1>6. Bounded
  <2>1. \A t \in Nat : Passed(t) = {}
    BY <1>2 DEF Passed, Counted, Added, Answered
  <2>2. Cardinality(Instance) \in Nat /\ Limit \in Nat \ {0}
    BY WindowAssumption, FS_CardinalityType
  <2> QED
    BY <2>1, <2>2, FS_EmptySet DEF Bounded
<1> QED
  BY <1>1, <1>4, <1>5, <1>6 DEF LimitInv

LEMMA NextLimit == LimitInv /\ [Next]_vars => LimitInv'
<1> SUFFICES ASSUME LimitInv, [Next]_vars PROVE LimitInv'
  OBVIOUS
<1>1. CASE UNCHANGED vars
  <2>1. FlightInv'
    BY NextFlight DEF LimitInv
  <2>2. Steady
    BY <1>1 DEF vars, Steady
  <2>3. Fifo' /\ NoneLost' /\ KeyLives' /\ Decided'
    BY <1>1
      DEF vars, LimitInv, Fifo, Begun, SentOnce, Lined, NoneLost, Over, Entry, KeyLives, Decided,
        Recorded, Failed
  <2> QED
    BY <2>1, <2>2, <2>3, SteadyKeepsCounts DEF LimitInv
<1> QED
  BY <1>1, ReceiveLimit, EvictLimit, CountLimit, AddLimit, ExpireLimit, FailLimit,
     AnswerLimit, TickLimit
  DEF Next, Handle, Done

LEMMA LimitInvariant == Spec => []LimitInv
BY InitLimit, NextLimit, PTL DEF Spec

(* Who was let through in a window is among those the invariant bounds.    *)
LEMMA LetThroughPassed ==
  ASSUME LimitInv, NEW r \in Req
  PROVE  /\ Cardinality(LetThrough(r)) <= Limit + Cardinality(Instance) - 1
         /\ Cardinality(LetThrough(r)) \in Nat
<1>1. at[r] \in Nat /\ LetThrough(r) \subseteq Passed(at[r])
  BY Numbers DEF LimitInv, Decided, LetThrough, Within, Passed, Counted, Added, Answered
<1>2. /\ Cardinality(Passed(at[r])) <= Limit + Cardinality(Instance) - 1
      /\ IsFiniteSet(Passed(at[r]))
  BY <1>1, PassedFinite DEF LimitInv, Bounded
<1>3. /\ Cardinality(LetThrough(r)) <= Cardinality(Passed(at[r]))
      /\ Cardinality(LetThrough(r)) \in Nat /\ Cardinality(Passed(at[r])) \in Nat
  BY <1>1, <1>2, FS_Subset, FS_CardinalityType
<1> QED
  BY <1>2, <1>3, Numbers

(* With any number of instances and of failures, whatever the limit, the   *)
(* window and the latency: of the requests of a window whose own commands  *)
(* did not fail, at most Limit are let through and one more for every      *)
(* further instance, though pipelines run late, the key expires and the    *)
(* commands of others fail.                                                *)
THEOREM OvershootBoundHolds == Spec => []OvershootBound
<1>1. LimitInv => OvershootBound
  BY LetThroughPassed DEF OvershootBound
<1> QED
  BY <1>1, LimitInvariant, PTL

OneInstance == \A i, j \in Instance : i = j

(* With one instance that is the limit itself, as the comment says, for    *)
(* requests whose own commands did not fail.                               *)
THEOREM WindowBoundHolds == ASSUME OneInstance PROVE Spec => []WindowBound
<1>1. Cardinality(Instance) <= 1
  <2>1. CASE Instance = {}
    BY <2>1, FS_EmptySet
  <2>2. ASSUME NEW i \in Instance PROVE Cardinality(Instance) = 1
    <3>1. Instance = {i}
      BY DEF OneInstance
    <3> QED
      BY <3>1, FS_Singleton
  <2> QED
    BY <2>1, <2>2
<1>2. ASSUME LimitInv, NEW r \in Req PROVE Cardinality(LetThrough(r)) <= Limit
  BY <1>1, <1>2, LetThroughPassed, Numbers
<1>3. LimitInv => WindowBound
  BY <1>2 DEF WindowBound
<1> QED
  BY <1>3, LimitInvariant, PTL

(* With any number of instances and of failures nobody whose eviction did  *)
(* not fail is rejected without Limit other requests near it.              *)
THEOREM RejectionsJustifiedHold == Spec => []RejectionsJustified
<1>1. ASSUME LimitInv, NEW r \in Req, pc[r] = "rejected",
             ~Failed(r, "evict")
      PROVE  Cardinality(Near(r)) >= Limit
  <2>1. count[r] >= Limit /\ count[r] <= Cardinality(Near(r))
    BY <1>1 DEF LimitInv, Decided, Justified, Counted, Added, Answered
  <2> QED
    BY <1>1, <2>1, NearFinite, Numbers
<1>2. LimitInv => RejectionsJustified
  BY <1>1 DEF RejectionsJustified, Near
<1> QED
  BY <1>2, LimitInvariant, PTL
=============================================================================
