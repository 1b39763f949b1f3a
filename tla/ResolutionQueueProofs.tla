----------------------- MODULE ResolutionQueueProofs -----------------------
(***************************************************************************)
(* Proofs about ResolutionQueue for every set of jobs, every finite set of *)
(* workers and every number of attempts and stalls.                        *)
(***************************************************************************)
EXTENDS ResolutionQueueRefinement, FiniteSetTheorems, TLAPS

(***************************************************************************)
(* Type correctness                                                        *)
(***************************************************************************)

(* A worker at a job has it for its task.                                  *)
LEMMA Busy ==
  ASSUME QueueTypeOK, NEW w \in Worker, step[w] # "idle"
  PROVE  task[w] \in Job
BY DEF QueueTypeOK

LEMMA InitType == QueueInit => QueueTypeOK
BY QueueAssumption DEF QueueInit, QueueTypeOK, JobState, Settled

(* The bounds of the counters are what the invariant below adds.           *)
LEMMA NextType ==
  ASSUME QueueTypeOK, QueueInv, [QueueNext]_queueVars
  PROVE  QueueTypeOK'
<1> USE QueueAssumption DEF QueueTypeOK, JobState, Settled
<1>1. ASSUME NEW j \in Job, Add(j) PROVE QueueTypeOK'
  BY <1>1 DEF Add
<1>2. ASSUME NEW w \in Worker, NEW j \in Job, Take(w, j) PROVE QueueTypeOK'
  BY <1>2 DEF Take
<1>3. ASSUME NEW w \in Worker, Transmit(w) PROVE QueueTypeOK'
  <2>1. task[w] \in Job
    BY <1>3, Busy DEF Transmit
  <2>2. emails[task[w]] + 1 \in 0..MaxStalled + 2
    <3>1. /\ emails[task[w]] \in Nat /\ stalls[task[w]] \in 0..MaxStalled + 1
          /\ w \in Trying(task[w])
      BY <1>3, <2>1 DEF Transmit, Trying
    <3>2. IsFiniteSet(Trying(task[w])) /\ Cardinality(Trying(task[w])) \in Nat
      BY WorkerAssumption, FS_Subset, FS_CardinalityType DEF Trying
    <3>3. Cardinality(Trying(task[w])) # 0
      BY <3>1, <3>2, FS_EmptySet
    <3>4. emails[task[w]] + Cardinality(Trying(task[w]))
            + (IF Queued(task[w]) THEN 1 ELSE 0) <= stalls[task[w]] + 1
      BY <2>1 DEF QueueInv, CopiesArePaid
    <3> QED
      BY <3>1, <3>2, <3>3, <3>4
  <2> QED
    BY <1>3, <2>1, <2>2 DEF Transmit
<1>4. ASSUME NEW w \in Worker, TransmitFails(w) PROVE QueueTypeOK'
  BY <1>4 DEF TransmitFails
<1>5. ASSUME NEW w \in Worker, Complete(w) PROVE QueueTypeOK'
  BY <1>5, Busy DEF Complete, Unlocked, WorkerFreed
<1>6. ASSUME NEW w \in Worker, MoveToFailed(w) PROVE QueueTypeOK'
  <2>1. task[w] \in Job
    BY <1>6, Busy DEF MoveToFailed
  <2>2. attemptsMade[task[w]] + 1 \in 0..Attempts
    <3>1. jobState[task[w]] = "active"
      BY <1>6, <2>1 DEF MoveToFailed, HasLock, QueueInv, LockMeansActive
    <3> QED
      BY <2>1, <3>1 DEF QueueInv, BudgetLeft
  <2> QED
    BY <1>6, <2>1, <2>2 DEF MoveToFailed, Unlocked, WorkerFreed, StateAfterThrow
<1>7. ASSUME NEW w \in Worker, LockMissing(w) \/ WorkerCrash(w) PROVE QueueTypeOK'
  BY <1>7 DEF LockMissing, WorkerCrash, WorkerFreed
<1>8. ASSUME NEW j \in Job, Promote(j) \/ LockExpires(j) PROVE QueueTypeOK'
  BY <1>8 DEF Promote, LockExpires
<1>9. ASSUME NEW j \in Job, Stalled(j) PROVE QueueTypeOK'
  <2>1. stalls[j] + 1 \in 0..MaxStalled + 1
    BY <1>9 DEF Stalled, QueueInv, BudgetLeft
  <2> QED
    BY <1>9, <2>1 DEF Stalled, StateAfterStall
<1>10. CASE UNCHANGED queueVars
  BY <1>10 DEF queueVars
<1> QED
  BY <1>1, <1>2, <1>3, <1>4, <1>5, <1>6, <1>7, <1>8, <1>9, <1>10
  DEF QueueNext, QueueStep, QueueIdle, Handle
(***************************************************************************)
(* Copies of an e-mail and the stalls that account for them                *)
(***************************************************************************)

(* What a job's copies, workers and place in the queue amount to.          *)
Claimed(j) == emails[j] + Cardinality(Trying(j)) + (IF Queued(j) THEN 1 ELSE 0)

LEMMA TryingFinite ==
  ASSUME NEW j \in Job
  PROVE  IsFiniteSet(Trying(j)) /\ Cardinality(Trying(j)) \in Nat
BY WorkerAssumption, FS_Subset, FS_CardinalityType DEF Trying

(* A worker that is freed stops trying, and no other worker begins to.     *)
LEMMA FreedStopsTrying ==
  ASSUME QueueTypeOK, NEW w \in Worker, WorkerFreed(w), NEW j \in Job
  PROVE  Cardinality(Trying(j))' =
           IF w \in Trying(j) THEN Cardinality(Trying(j)) - 1 ELSE Cardinality(Trying(j))
<1>1. Trying(j)' = Trying(j) \ {w}
  BY QueueAssumption DEF QueueTypeOK, WorkerFreed, Trying
<1> QED
  BY <1>1, TryingFinite, FS_RemoveElement

LEMMA NextCopies ==
  ASSUME QueueTypeOK, QueueInv, [QueueNext]_queueVars
  PROVE  CopiesArePaid'
<1> SUFFICES ASSUME NEW j \in Job
             PROVE  /\ Claimed(j)' \in Nat
                    /\ Claimed(j)' <= stalls'[j] + 1
  BY DEF CopiesArePaid, Claimed
<1> USE QueueAssumption DEF QueueTypeOK
<1>0. /\ emails[j] \in Nat /\ stalls[j] \in Nat
      /\ IsFiniteSet(Trying(j)) /\ Cardinality(Trying(j)) \in Nat
      /\ Claimed(j) <= stalls[j] + 1
  BY TryingFinite DEF QueueInv, CopiesArePaid, Claimed
<1>1. ASSUME NEW k \in Job, Add(k) \/ Promote(k) \/ LockExpires(k) \/ Stalled(k)
      PROVE  Claimed(j)' \in Nat /\ Claimed(j)' <= stalls'[j] + 1
  <2>1. UNCHANGED <<task, step, emails>>
    BY <1>1 DEF Add, Promote, LockExpires, Stalled
  <2>2. Cardinality(Trying(j))' = Cardinality(Trying(j))
    BY <2>1 DEF Trying
  <2>3. \/ stalls'[j] = stalls[j] /\ (Queued(j)' => Queued(j))
        \/ stalls'[j] = stalls[j] + 1 /\ ~Queued(j)
    BY <1>1 DEF Add, Promote, LockExpires, Stalled, Queued
  <2> QED
    BY <1>0, <2>1, <2>2, <2>3 DEF Claimed
<1>2. ASSUME NEW w \in Worker, NEW k \in Job, Take(w, k)
      PROVE  Claimed(j)' \in Nat /\ Claimed(j)' <= stalls'[j] + 1
  <2>1. CASE j = k
    <3>1. Trying(j)' = Trying(j) \cup {w} /\ w \notin Trying(j)
      BY <1>2, <2>1 DEF Take, Trying
    <3>2. Cardinality(Trying(j))' = Cardinality(Trying(j)) + 1
      BY <1>0, <3>1, FS_AddElement
    <3>3. UNCHANGED <<emails, stalls>> /\ Queued(j) /\ ~Queued(j)'
      BY <1>2, <2>1 DEF Take, Queued
    <3> QED
      BY <1>0, <3>2, <3>3 DEF Claimed
  <2>2. CASE j # k
    <3>1. Trying(j)' = Trying(j)
      BY <1>2, <2>2 DEF Take, Trying
    <3>2. UNCHANGED <<emails, stalls>> /\ (Queued(j)' <=> Queued(j))
      BY <1>2, <2>2 DEF Take, Queued
    <3> QED
      BY <1>0, <3>1, <3>2 DEF Claimed
  <2> QED
    BY <2>1, <2>2
<1>3. ASSUME NEW w \in Worker, Transmit(w)
      PROVE  Claimed(j)' \in Nat /\ Claimed(j)' <= stalls'[j] + 1
  <2>1. UNCHANGED stalls /\ (Queued(j)' <=> Queued(j))
    BY <1>3 DEF Transmit, Queued
  <2>2. CASE j = task[w]
    <3>1. Trying(j)' = Trying(j) \ {w} /\ w \in Trying(j) /\ emails'[j] = emails[j] + 1
      BY <1>3, <2>2 DEF Transmit, Trying
    <3>2. Cardinality(Trying(j))' = Cardinality(Trying(j)) - 1
      BY <1>0, <3>1, FS_RemoveElement
    <3>3. Cardinality(Trying(j)) > 0
      BY <1>0, <3>1, FS_EmptySet
    <3> QED
      BY <1>0, <2>1, <3>1, <3>2, <3>3 DEF Claimed
  <2>3. CASE j # task[w]
    <3>1. Trying(j)' = Trying(j) /\ emails'[j] = emails[j]
      BY <1>3, <2>3 DEF Transmit, Trying
    <3> QED
      BY <1>0, <2>1, <3>1 DEF Claimed
  <2> QED
    BY <2>2, <2>3
<1>4. ASSUME NEW w \in Worker, TransmitFails(w)
      PROVE  Claimed(j)' \in Nat /\ Claimed(j)' <= stalls'[j] + 1
  <2>1. Trying(j)' = Trying(j)
    BY <1>4 DEF TransmitFails, Trying
  <2>2. UNCHANGED <<emails, stalls>> /\ (Queued(j)' <=> Queued(j))
    BY <1>4 DEF TransmitFails, Queued
  <2> QED
    BY <1>0, <2>1, <2>2 DEF Claimed
<1>5. ASSUME NEW w \in Worker,
             Complete(w) \/ MoveToFailed(w) \/ LockMissing(w) \/ WorkerCrash(w)
      PROVE  Claimed(j)' \in Nat /\ Claimed(j)' <= stalls'[j] + 1
  <2>1. UNCHANGED <<emails, stalls>> /\ WorkerFreed(w)
    BY <1>5 DEF Complete, MoveToFailed, LockMissing, WorkerCrash
  <2>2. Cardinality(Trying(j))' =
          IF w \in Trying(j) THEN Cardinality(Trying(j)) - 1 ELSE Cardinality(Trying(j))
    BY <2>1, FreedStopsTrying
  <2>3. w \in Trying(j) => Cardinality(Trying(j)) > 0
    BY <1>0, FS_EmptySet
  <2>4. Queued(j)' => Queued(j) \/ w \in Trying(j)
    BY <1>5 DEF Complete, MoveToFailed, LockMissing, WorkerCrash, Queued, Trying
  <2> QED
    BY <1>0, <2>1, <2>2, <2>3, <2>4 DEF Claimed
<1>6. CASE UNCHANGED queueVars
  <2>1. UNCHANGED <<emails, stalls, jobState>> /\ Trying(j)' = Trying(j)
    BY <1>6 DEF queueVars, Trying
  <2> QED
    BY <1>0, <2>1 DEF Claimed, Queued
<1> QED
  BY <1>1, <1>2, <1>3, <1>4, <1>5, <1>6 DEF QueueNext, QueueStep, QueueIdle, Handle
(***************************************************************************)
(* Locks, workers and what is left of the attempts                         *)
(***************************************************************************)

LEMMA NextLocks ==
  ASSUME QueueTypeOK, QueueInv, [QueueNext]_queueVars
  PROVE  LockMeansActive' /\ BudgetLeft'
<1> USE QueueAssumption DEF QueueTypeOK, QueueInv, LockMeansActive, BudgetLeft
<1>1. ASSUME NEW k \in Job, Add(k) \/ Promote(k) \/ LockExpires(k)
      PROVE  LockMeansActive' /\ BudgetLeft'
  BY <1>1 DEF Add, Promote, LockExpires
<1>2. ASSUME NEW k \in Job, Stalled(k) PROVE LockMeansActive' /\ BudgetLeft'
  BY <1>2 DEF Stalled, StateAfterStall
<1>3. ASSUME NEW w \in Worker, NEW k \in Job, Take(w, k)
      PROVE  LockMeansActive' /\ BudgetLeft'
  BY <1>3 DEF Take
<1>4. ASSUME NEW w \in Worker, Transmit(w) \/ TransmitFails(w)
      PROVE  LockMeansActive' /\ BudgetLeft'
  BY <1>4 DEF Transmit, TransmitFails
<1>5. ASSUME NEW w \in Worker, Complete(w) PROVE LockMeansActive' /\ BudgetLeft'
  BY <1>5, Busy DEF Complete, Unlocked, HasLock
<1>6. ASSUME NEW w \in Worker, MoveToFailed(w) PROVE LockMeansActive' /\ BudgetLeft'
  BY <1>6, Busy DEF MoveToFailed, Unlocked, HasLock, StateAfterThrow
<1>7. ASSUME NEW w \in Worker, LockMissing(w) \/ WorkerCrash(w)
      PROVE  LockMeansActive' /\ BudgetLeft'
  BY <1>7 DEF LockMissing, WorkerCrash
<1>8. CASE UNCHANGED queueVars
  BY <1>8 DEF queueVars
<1> QED
  BY <1>1, <1>2, <1>3, <1>4, <1>5, <1>6, <1>7, <1>8 DEF QueueNext, QueueStep, QueueIdle, Handle

LEMMA NextWorkers ==
  ASSUME QueueTypeOK, QueueInv, [QueueNext]_queueVars
  PROVE  OneWorker' /\ SentIsSent'
<1> USE QueueAssumption DEF QueueTypeOK, QueueInv, OneWorker, SentIsSent, Queued
<1>1. ASSUME NEW k \in Job, Add(k) \/ Promote(k) \/ LockExpires(k)
      PROVE  OneWorker' /\ SentIsSent'
  BY <1>1 DEF Add, Promote, LockExpires
<1>2. ASSUME NEW k \in Job, Stalled(k) PROVE OneWorker' /\ SentIsSent'
  BY <1>2 DEF Stalled, StateAfterStall
<1>3. ASSUME NEW w \in Worker, NEW k \in Job, Take(w, k)
      PROVE  OneWorker' /\ SentIsSent'
  BY <1>3 DEF Take
<1>4. ASSUME NEW w \in Worker, Transmit(w) \/ TransmitFails(w)
      PROVE  OneWorker' /\ SentIsSent'
  BY <1>4, Busy DEF Transmit, TransmitFails
<1>5. ASSUME NEW w \in Worker, Complete(w) PROVE OneWorker' /\ SentIsSent'
  BY <1>5, Busy DEF Complete, Unlocked, WorkerFreed
<1>6. ASSUME NEW w \in Worker, MoveToFailed(w) PROVE OneWorker' /\ SentIsSent'
  BY <1>6, Busy DEF MoveToFailed, Unlocked, WorkerFreed, StateAfterThrow
<1>7. ASSUME NEW w \in Worker, LockMissing(w) \/ WorkerCrash(w)
      PROVE  OneWorker' /\ SentIsSent'
  BY <1>7 DEF LockMissing, WorkerCrash, WorkerFreed
<1>8. CASE UNCHANGED queueVars
  BY <1>8 DEF queueVars
<1> QED
  BY <1>1, <1>2, <1>3, <1>4, <1>5, <1>6, <1>7, <1>8 DEF QueueNext, QueueStep, QueueIdle, Handle

LEMMA NextSettled ==
  ASSUME QueueTypeOK, QueueInv, [QueueNext]_queueVars
  PROVE  SettledForAReason'
<1> USE QueueAssumption DEF QueueTypeOK, QueueInv, SettledForAReason
<1>1. ASSUME NEW k \in Job, Add(k) \/ Promote(k) \/ LockExpires(k)
      PROVE  SettledForAReason'
  BY <1>1 DEF Add, Promote, LockExpires
<1>2. ASSUME NEW k \in Job, Stalled(k) PROVE SettledForAReason'
  BY <1>2 DEF Stalled, StateAfterStall
<1>3. ASSUME NEW w \in Worker, NEW k \in Job, Take(w, k) PROVE SettledForAReason'
  BY <1>3 DEF Take
<1>4. ASSUME NEW w \in Worker, Transmit(w) \/ TransmitFails(w) PROVE SettledForAReason'
  BY <1>4, Busy DEF Transmit, TransmitFails
<1>5. ASSUME NEW w \in Worker, Complete(w) PROVE SettledForAReason'
  BY <1>5, Busy DEF Complete, SentIsSent
<1>6. ASSUME NEW w \in Worker, MoveToFailed(w) PROVE SettledForAReason'
  <2>1. task[w] \in Job /\ attemptsMade[task[w]] < Attempts
    BY <1>6, Busy DEF MoveToFailed, HasLock, LockMeansActive, BudgetLeft
  <2> QED
    BY <1>6, <2>1 DEF MoveToFailed, HasLock, LockMeansActive, StateAfterThrow
<1>7. ASSUME NEW w \in Worker, LockMissing(w) \/ WorkerCrash(w) PROVE SettledForAReason'
  BY <1>7 DEF LockMissing, WorkerCrash
<1>8. CASE UNCHANGED queueVars
  BY <1>8 DEF queueVars
<1> QED
  BY <1>1, <1>2, <1>3, <1>4, <1>5, <1>6, <1>7, <1>8 DEF QueueNext, QueueStep, QueueIdle, Handle

(* Duplicates and overlaps follow from the counts.                         *)
LEMMA CountsSuffice ==
  QueueTypeOK /\ CopiesArePaid /\ OneWorker => DuplicatesNeedStalls /\ OverlapNeedsStall
<1> SUFFICES ASSUME QueueTypeOK, CopiesArePaid, OneWorker
             PROVE  DuplicatesNeedStalls /\ OverlapNeedsStall
  OBVIOUS
<1>1. ASSUME NEW j \in Job PROVE emails[j] <= stalls[j] + 1
  <2>1. /\ Cardinality(Trying(j)) \in Nat /\ emails[j] \in Nat /\ stalls[j] \in Nat
        /\ emails[j] + Cardinality(Trying(j)) + (IF Queued(j) THEN 1 ELSE 0) <= stalls[j] + 1
    BY QueueAssumption, TryingFinite DEF QueueTypeOK, CopiesArePaid
  <2> QED
    BY <2>1
<1>2. OverlapNeedsStall
  BY QueueAssumption DEF QueueTypeOK, OneWorker, OverlapNeedsStall
<1> QED
  BY <1>1, <1>2 DEF DuplicatesNeedStalls

LEMMA InitQueueInv == QueueInit => QueueInv
<1> SUFFICES ASSUME QueueInit PROVE QueueInv
  OBVIOUS
<1>1. \A j \in Job : Trying(j) = {}
  BY QueueAssumption DEF QueueInit, Trying
<1>2. CopiesArePaid
  <2> SUFFICES ASSUME NEW j \in Job
               PROVE  emails[j] + Cardinality(Trying(j)) + (IF Queued(j) THEN 1 ELSE 0)
                        <= stalls[j] + 1
    BY DEF CopiesArePaid
  <2>1. emails[j] = 0 /\ stalls[j] = 0 /\ Queued(j)
    BY DEF QueueInit, Queued
  <2>2. Cardinality(Trying(j)) = 0
    BY <1>1, FS_EmptySet
  <2> QED
    BY <2>1, <2>2
<1>3. OneWorker
  BY QueueAssumption DEF QueueInit, OneWorker
<1>4. LockMeansActive /\ BudgetLeft /\ SentIsSent /\ SettledForAReason
  BY QueueAssumption DEF QueueInit, LockMeansActive, BudgetLeft, SentIsSent, SettledForAReason
<1> QED
  BY <1>2, <1>3, <1>4, CountsSuffice, InitType DEF QueueInv

LEMMA NextQueueInv ==
  QueueTypeOK /\ QueueInv /\ [QueueNext]_queueVars => QueueTypeOK' /\ QueueInv'
<1> SUFFICES ASSUME QueueTypeOK, QueueInv, [QueueNext]_queueVars
             PROVE  QueueTypeOK' /\ QueueInv'
  OBVIOUS
<1>1. QueueTypeOK'
  BY NextType
<1>2. CopiesArePaid' /\ OneWorker' /\ SentIsSent'
  BY NextCopies, NextWorkers
<1>3. DuplicatesNeedStalls' /\ OverlapNeedsStall'
  BY <1>1, <1>2, CountsSuffice, PTL
<1> QED
  BY <1>1, <1>2, <1>3, NextLocks, NextSettled DEF QueueInv

LEMMA QueueInvariant == QueueSpec => [](QueueTypeOK /\ QueueInv)
BY InitType, InitQueueInv, NextQueueInv, PTL DEF QueueSpec

(* Every variable keeps the shape its declaration says, the counters their *)
(* bounds.                                                                 *)
THEOREM QueueTypeCorrect == QueueSpec => []QueueTypeOK
BY QueueInvariant, PTL

(* The inductive invariant holds in every reachable state.                 *)
THEOREM QueueInvHolds == QueueSpec => []QueueInv
BY QueueInvariant, PTL

(* However attempts, crashes and lost locks interleave, a customer gets no *)
(* more than one e-mail and one for each stall.                            *)
THEOREM DuplicatesNeedStallsHolds == QueueSpec => []DuplicatesNeedStalls
<1>1. QueueInv => DuplicatesNeedStalls
  BY DEF QueueInv
<1> QED
  BY <1>1, QueueInvariant, PTL

(* A job is completed with its e-mail out, or failed with its attempts or  *)
(* its stalls used up.                                                     *)
THEOREM SettledForAReasonHolds == QueueSpec => []SettledForAReason
<1>1. QueueInv => SettledForAReason
  BY DEF QueueInv
<1> QED
  BY <1>1, QueueInvariant, PTL

(* Two workers run one job only after a stall was counted.                 *)
THEOREM OverlapNeedsStallHolds == QueueSpec => []OverlapNeedsStall
<1>1. QueueInv => OverlapNeedsStall
  BY DEF QueueInv
<1> QED
  BY <1>1, QueueInvariant, PTL

(***************************************************************************)
(* Refinement                                                              *)
(***************************************************************************)

LEMMA StepRefinesPromise ==
  ASSUME QueueTypeOK, QueueInv, [QueueNext]_queueVars
  PROVE  [Promise!Next]_(Promise!notificationVars)
<1> DEFINE goal == [Promise!Next]_(Promise!notificationVars)
           outcome == [j \in Job |-> Outcome(j)]
<1> USE QueueAssumption DEF QueueTypeOK, JobState, Settled
<1>1. ASSUME NEW k \in Job, Add(k) PROVE goal
  <2>1. /\ outcome[k] = "none"
        /\ outcome' = [outcome EXCEPT ![k] = "pending"]
        /\ UNCHANGED <<emails, stalls>>
    BY <1>1 DEF Add, Outcome
  <2>2. Promise!Submit(k)
    BY <2>1 DEF Promise!Submit
  <2> QED
    BY <2>2 DEF Promise!Next
<1>2. ASSUME NEW w \in Worker, Transmit(w) PROVE goal
  <2>1. task[w] \in Job
    BY <1>2, Busy DEF Transmit
  <2>2. outcome' = outcome
    BY <1>2 DEF Transmit, Outcome
  <2>3. outcome[task[w]] # "none"
    BY <2>1 DEF Outcome, QueueInv, SentIsSent
  <2>4. emails[task[w]] <= stalls[task[w]]
    <3>1. w \in Trying(task[w])
      BY <1>2, <2>1 DEF Transmit, Trying
    <3>2. /\ IsFiniteSet(Trying(task[w]))
          /\ Cardinality(Trying(task[w])) \in Nat /\ Cardinality(Trying(task[w])) # 0
      BY <2>1, <3>1, TryingFinite, FS_EmptySet
    <3>3. /\ emails[task[w]] \in Nat /\ stalls[task[w]] \in Nat
          /\ emails[task[w]] + Cardinality(Trying(task[w]))
               + (IF Queued(task[w]) THEN 1 ELSE 0) <= stalls[task[w]] + 1
      BY <2>1 DEF QueueInv, CopiesArePaid
    <3> QED
      BY <3>2, <3>3
  <2>5. /\ emails' = [emails EXCEPT ![task[w]] = @ + 1]
        /\ stalls' = stalls
    BY <1>2 DEF Transmit
  <2>6. Promise!Send(task[w])
    BY <2>2, <2>3, <2>4, <2>5 DEF Promise!Send
  <2> QED
    BY <2>1, <2>6 DEF Promise!Next
<1>3. ASSUME NEW w \in Worker, Complete(w) PROVE goal
  <2>1. task[w] \in Job
    BY <1>3, Busy DEF Complete
  <2>2. jobState[task[w]] = "active" /\ emails[task[w]] > 0
    BY <1>3, <2>1 DEF Complete, HasLock, QueueInv, LockMeansActive, SentIsSent
  <2>3. /\ outcome[task[w]] = "pending"
        /\ outcome' = [outcome EXCEPT ![task[w]] = "delivered"]
        /\ UNCHANGED <<emails, stalls>>
    BY <1>3, <2>1, <2>2 DEF Complete, Outcome
  <2>4. Promise!Deliver(task[w])
    BY <2>2, <2>3 DEF Promise!Deliver
  <2> QED
    BY <2>1, <2>4 DEF Promise!Next
<1>4. ASSUME NEW w \in Worker, MoveToFailed(w) PROVE goal
  <2>1. task[w] \in Job
    BY <1>4, Busy DEF MoveToFailed
  <2>2. jobState[task[w]] = "active"
    BY <1>4, <2>1 DEF MoveToFailed, HasLock, QueueInv, LockMeansActive
  <2>3. UNCHANGED <<emails, stalls>>
    BY <1>4 DEF MoveToFailed
  <2>4. CASE StateAfterThrow(task[w]) = "delayed"
    <3>1. outcome' = outcome
      BY <1>4, <2>1, <2>2, <2>4 DEF MoveToFailed, Outcome
    <3> QED
      BY <2>3, <3>1 DEF Promise!notificationVars
  <2>5. CASE StateAfterThrow(task[w]) = "failed"
    <3>1. /\ outcome[task[w]] = "pending"
          /\ outcome' = [outcome EXCEPT ![task[w]] = "givenUp"]
      BY <1>4, <2>1, <2>2, <2>5 DEF MoveToFailed, Outcome
    <3>2. Promise!GiveUp(task[w])
      BY <2>3, <3>1 DEF Promise!GiveUp
    <3> QED
      BY <2>1, <3>2 DEF Promise!Next
  <2> QED
    BY <2>4, <2>5 DEF StateAfterThrow
<1>5. ASSUME NEW k \in Job, Stalled(k) PROVE goal
  <2>1. /\ outcome[k] = "pending" /\ emails' = emails
        /\ stalls' = [stalls EXCEPT ![k] = @ + 1]
    BY <1>5 DEF Stalled, Outcome
  <2>2. stalls[k] \in Nat /\ stalls[k] <= MaxStalled
    BY <1>5 DEF Stalled, QueueInv, BudgetLeft
  <2>3. outcome' = IF stalls[k] + 1 = MaxStalled + 1
                     THEN [outcome EXCEPT ![k] = "givenUp"] ELSE outcome
    <3>1. CASE stalls[k] + 1 = MaxStalled + 1
      <4>1. StateAfterStall(k) = "failed"
        BY <2>2, <3>1 DEF StateAfterStall
      <4> QED
        BY <1>5, <3>1, <4>1 DEF Stalled, Outcome
    <3>2. CASE stalls[k] + 1 # MaxStalled + 1
      <4>1. StateAfterStall(k) = "waiting"
        BY <2>2, <3>2 DEF StateAfterStall
      <4> QED
        BY <1>5, <3>2, <4>1 DEF Stalled, Outcome
    <3> QED
      BY <3>1, <3>2
  <2>4. Promise!Lose(k)
    BY <2>1, <2>3 DEF Promise!Lose
  <2> QED
    BY <2>4 DEF Promise!Next
<1>6. ASSUME NEW w \in Worker, NEW k \in Job, Take(w, k) PROVE goal
  <2>1. outcome' = outcome /\ UNCHANGED <<emails, stalls>>
    BY <1>6 DEF Take, Outcome
  <2> QED
    BY <2>1 DEF Promise!notificationVars
<1>7. CASE UNCHANGED queueVars
  <2>1. outcome' = outcome /\ UNCHANGED <<emails, stalls>>
    BY <1>7 DEF queueVars, Outcome
  <2> QED
    BY <2>1 DEF Promise!notificationVars
<1>8. ASSUME NEW k \in Job, Promote(k) \/ LockExpires(k) PROVE goal
  <2>1. outcome' = outcome /\ UNCHANGED <<emails, stalls>>
    BY <1>8 DEF Promote, LockExpires, Outcome
  <2> QED
    BY <2>1 DEF Promise!notificationVars
<1>9. ASSUME NEW w \in Worker, TransmitFails(w) \/ LockMissing(w) \/ WorkerCrash(w) PROVE goal
  <2>1. outcome' = outcome /\ UNCHANGED <<emails, stalls>>
    BY <1>9 DEF TransmitFails, LockMissing, WorkerCrash, Outcome
  <2> QED
    BY <2>1 DEF Promise!notificationVars
<1>10. goal
  <2>1. \/ \E k \in Job : Add(k) \/ Promote(k) \/ LockExpires(k) \/ Stalled(k)
        \/ \E w \in Worker : \/ \E k \in Job : Take(w, k)
                            \/ Transmit(w) \/ TransmitFails(w) \/ Complete(w)
                            \/ MoveToFailed(w) \/ LockMissing(w) \/ WorkerCrash(w)
        \/ UNCHANGED queueVars
    BY DEF QueueNext, QueueStep, QueueIdle, Handle
  <2>2. ASSUME NEW k \in Job, Add(k) \/ Promote(k) \/ LockExpires(k) \/ Stalled(k)
        PROVE  goal
    BY <2>2, <1>1, <1>5, <1>8
  <2>3. ASSUME NEW w \in Worker,
               \/ \E k \in Job : Take(w, k)
               \/ Transmit(w) \/ TransmitFails(w) \/ Complete(w)
               \/ MoveToFailed(w) \/ LockMissing(w) \/ WorkerCrash(w)
        PROVE  goal
    BY <2>3, <1>2, <1>3, <1>4, <1>6, <1>9
  <2> QED
    BY <2>1, <2>2, <2>3, <1>7
<1> QED
  BY <1>10

(* The queue, with its retries, lost locks and crashing workers, keeps the *)
(* promise of Notification, for any number of workers.                     *)
THEOREM QueueRefinement == QueueSpec => ImplementsNotification
<1>1. QueueInit => Promise!Init
  BY DEF QueueInit, Promise!Init, Outcome
<1>2. QueueTypeOK /\ QueueInv /\ [QueueNext]_queueVars
        => [Promise!Next]_(Promise!notificationVars)
  BY StepRefinesPromise
<1> QED
  BY <1>1, <1>2, QueueInvariant, PTL DEF QueueSpec, ImplementsNotification, Promise!Spec
=============================================================================
