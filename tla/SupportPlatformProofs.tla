----------------------- MODULE SupportPlatformProofs -----------------------
(***************************************************************************)
(* Proofs about SupportPlatform, for every number of requests and of API   *)
(* processes: what is proved of the requests and of the queue, each on its *)
(* own, holds of both in processes that may die at any moment.             *)
(***************************************************************************)
EXTENDS SupportPlatform, ConversationsProofs, ResolutionQueueProofs

(***************************************************************************)
(* The parts                                                               *)
(***************************************************************************)

(* A crash is to the requests a failure of those in flight.                *)
LEMMA StepOfRequests == [PlatformNext]_platformVars => [Next]_vars
<1> SUFFICES ASSUME [PlatformNext]_platformVars PROVE [Next]_vars
  OBVIOUS
<1>1. ASSUME NEW p \in Req, HandleRequest(p) \/ EnqueueJob(p) PROVE Next
  BY <1>1 DEF HandleRequest, EnqueueJob, Next, Serve
<1>2. ASSUME NEW w \in Worker, ProcessCrash(w) PROVE Next
  BY <1>2 DEF ProcessCrash, InFlight, Next
<1>3. CASE RunQueue \/ PlatformIdle \/ UNCHANGED platformVars
  BY <1>3 DEF RunQueue, PlatformIdle, Idle, platformVars
<1> QED
  BY <1>1, <1>2, <1>3 DEF PlatformNext

(* The requests of the platform are those of Conversations.                *)
THEOREM PlatformImplementsConversations == PlatformSpec => ImplementsConversations
<1>1. PlatformInit => Init
  BY DEF PlatformInit
<1> QED
  BY <1>1, StepOfRequests, PTL DEF PlatformSpec, ImplementsConversations, Spec

(* A crash is to the queue the loss of a worker, or nothing.               *)
LEMMA StepOfQueue ==
  ASSUME QueueTypeOK, [PlatformNext]_platformVars
  PROVE  [QueueNext]_queueVars
<1>1. ASSUME NEW p \in Req, EnqueueJob(p) PROVE QueueNext
  BY <1>1, JobAssumption DEF EnqueueJob, QueueNext
<1>2. ASSUME NEW w \in Worker, ProcessCrash(w) PROVE [QueueNext]_queueVars
  <2>1. CASE task[w] # Nobody
    BY <1>2, <2>1 DEF ProcessCrash, WorkerCrash, QueueStep, QueueNext
  <2>2. CASE task[w] = Nobody
    BY <1>2, <2>2 DEF ProcessCrash, WorkerFreed, queueVars, QueueTypeOK
  <2> QED
    BY <2>1, <2>2
<1>3. CASE RunQueue
  BY <1>3 DEF RunQueue, QueueNext
<1>4. CASE UNCHANGED queueVars
  BY <1>4
<1> QED
  BY <1>1, <1>2, <1>3, <1>4 DEF PlatformNext, HandleRequest, PlatformIdle, platformVars

(* The platform drives the queue as its own specification allows.          *)
THEOREM PlatformImplementsQueue == PlatformSpec => ImplementsQueue
<1> DEFINE QInv == QueueTypeOK /\ QueueInv
<1>1. PlatformInit => QueueInit /\ QInv
  BY InitType, InitQueueInv DEF PlatformInit
<1>2. QInv /\ [PlatformNext]_platformVars => QInv' /\ [QueueNext]_queueVars
  BY StepOfQueue, NextQueueInv
<1> HIDE DEF QInv
<1> QED
  BY <1>1, <1>2, PTL DEF PlatformSpec, ImplementsQueue, QueueSpec

(***************************************************************************)
(* What follows of the whole from its parts                                *)
(***************************************************************************)

(* Among API processes that crash, conversations still go through their    *)
(* lifecycle.                                                              *)
THEOREM PlatformLifecycle == PlatformSpec => ImplementsLifecycle
BY PlatformImplementsConversations, LifecycleRefinement DEF ImplementsConversations

(* A reader next to the processes sees the changes ConversationTable       *)
(* allows, so a walk through a list is as complete as ConversationList     *)
(* says, whatever crashes meanwhile.                                       *)
THEOREM PlatformTable == PlatformSpec => ImplementsTable
BY PlatformImplementsConversations, TableRefinement DEF ImplementsConversations

(* The e-mail of a resolution keeps the promise of Notification, also when *)
(* the process that sends it dies.                                         *)
THEOREM PlatformNotification == PlatformSpec => ImplementsNotification
BY PlatformImplementsQueue, QueueRefinement DEF ImplementsQueue

(* The invariants of both parts hold of the whole.                         *)
THEOREM PlatformInvariants == PlatformSpec => [](IInv /\ QueueTypeOK /\ QueueInv)
BY PlatformImplementsConversations, PlatformImplementsQueue, InductiveInvariant,
   QueueInvariant, PTL DEF ImplementsConversations, ImplementsQueue

(***************************************************************************)
(* What relates the parts                                                  *)
(***************************************************************************)

(* The jobs in Redis are those the service added, one for each resolve     *)
(* request that was answered; a worker runs and mails for no other.        *)
JobsAreAnswers ==
  /\ \A p \in Req : pc[p] = "resolved" => p \in jobs
  /\ \A p \in Req : jobState[p] # "none" <=> p \in jobs
  /\ \A p \in Req : emails[p] > 0 => p \in jobs
  /\ \A w \in Worker : task[w] # Nobody => task[w] \in jobs

LEMMA InitJobsAreAnswers == PlatformInit => JobsAreAnswers
BY JobAssumption DEF PlatformInit, QueueInit, Init, JobsAreAnswers

(* The workers and the timers of the queue, which add no job.              *)
LEMMA QueueStepJobs ==
  ASSUME QueueTypeOK, JobsAreAnswers, RunQueue
  PROVE  JobsAreAnswers'
<1> USE JobAssumption, QueueAssumption DEF QueueTypeOK, JobsAreAnswers, JobState, Settled
<1>0. UNCHANGED <<jobs, pc>>
  BY DEF RunQueue, vars
<1>1. ASSUME NEW p \in Req, Promote(p) \/ LockExpires(p) \/ Stalled(p) PROVE JobsAreAnswers'
  BY <1>0, <1>1 DEF Promote, LockExpires, Stalled, StateAfterStall
<1>2. ASSUME NEW w \in Worker, NEW p \in Req, Take(w, p) PROVE JobsAreAnswers'
  BY <1>0, <1>2 DEF Take
<1>3. ASSUME NEW w \in Worker, Transmit(w) \/ TransmitFails(w) PROVE JobsAreAnswers'
  BY <1>0, <1>3, Busy DEF Transmit, TransmitFails
<1>4. ASSUME NEW w \in Worker, Complete(w) \/ MoveToFailed(w) PROVE JobsAreAnswers'
  BY <1>0, <1>4, Busy DEF Complete, MoveToFailed, StateAfterThrow, WorkerFreed
<1>5. ASSUME NEW w \in Worker, LockMissing(w) \/ WorkerCrash(w) PROVE JobsAreAnswers'
  BY <1>0, <1>5 DEF LockMissing, WorkerCrash, WorkerFreed
<1> QED
  BY <1>1, <1>2, <1>3, <1>4, <1>5 DEF RunQueue, QueueStep, Handle

LEMMA NextJobsAreAnswers ==
  ASSUME TypeOK, QueueTypeOK, JobsAreAnswers, [PlatformNext]_platformVars
  PROVE  JobsAreAnswers'
<1>1. ASSUME NEW p \in Req, HandleRequest(p) PROVE JobsAreAnswers'
  <2>1. jobs' = jobs /\ \E s \in Phase \ {"resolved"} : pc' = [pc EXCEPT ![p] = s]
    <3>1. CASE Fail({p})
      <4>1. pc' = [pc EXCEPT ![p] = "failed"]
        BY <3>1 DEF Fail, TypeOK
      <4> QED
        BY <3>1, <4>1 DEF Fail, Phase, Answered
    <3>2. CASE Receive(p) \/ ServeRows(p)
      BY <3>2 DEF Receive, ServeRows, Create, StartClaim, StartResolve,
         ClaimNotFound, ClaimConflict, ClaimAgain, ClaimLock, ClaimCommit, ResolveLoad,
         ResolveSave, ResolveSaveRejected, ResolveNote, Phase, Waiting, Answered
    <3> QED
      BY <1>1, <3>1, <3>2 DEF HandleRequest
  <2> QED
    BY <1>1, <2>1 DEF HandleRequest, queueVars, JobsAreAnswers, TypeOK
<1>2. ASSUME NEW p \in Req, EnqueueJob(p) PROVE JobsAreAnswers'
  BY <1>2, JobAssumption DEF EnqueueJob, ResolveEnqueue, Add, JobsAreAnswers, TypeOK, QueueTypeOK
<1>3. CASE RunQueue
  BY <1>3, QueueStepJobs
<1>4. ASSUME NEW w \in Worker, ProcessCrash(w) PROVE JobsAreAnswers'
  <2>1. jobs' = jobs /\ \A p \in Req : pc'[p] = "resolved" => pc[p] = "resolved"
    BY <1>4 DEF ProcessCrash, Fail
  <2> QED
    BY <1>4, <2>1, QueueAssumption DEF ProcessCrash, WorkerFreed, JobsAreAnswers, QueueTypeOK
<1>5. CASE UNCHANGED platformVars \/ PlatformIdle
  BY <1>5 DEF platformVars, vars, queueVars, PlatformIdle, Idle, JobsAreAnswers
<1> QED
  BY <1>1, <1>2, <1>3, <1>4, <1>5 DEF PlatformNext

(* What callers and customers were told is stored, wherever a process      *)
(* died.                                                                   *)
THEOREM AnswersAreDurableHolds == PlatformSpec => []AnswersAreDurable
<1>1. IInv /\ QueueTypeOK /\ JobsAreAnswers /\ [PlatformNext]_platformVars => JobsAreAnswers'
  BY NextJobsAreAnswers DEF IInv
<1>2. IInv /\ JobsAreAnswers => AnswersAreDurable
  BY DEF IInv, TypeOK, EffectsInv, JobsAreAnswers, AnswersAreDurable
<1> QED
  BY <1>1, <1>2, InitJobsAreAnswers, PlatformInvariants, PTL DEF PlatformSpec
=============================================================================
