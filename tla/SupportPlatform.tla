-------------------------- MODULE SupportPlatform --------------------------
(***************************************************************************)
(* The API as a whole: processes that serve ConversationsService and, in   *)
(* the same process, run a worker of the resolution queue.  PostgreSQL and *)
(* Redis are outside them and survive their crashes.                       *)
(***************************************************************************)
EXTENDS ConversationsRefinement, ResolutionQueueRefinement

CONSTANT ServedBy  \* the API process that a request is sent to

ASSUME ServedByAssumption == ServedBy \in [Req -> Worker]

(* A job is named by the resolve request that adds it.                     *)
ASSUME JobAssumption == Job = Req

platformVars == <<vars, queueVars>>

PlatformInit == Init /\ QueueInit

(* The handlers' database steps leave the queue alone.                     *)
HandleRequest(p) ==
  /\ Receive(p) \/ ServeRows(p) \/ Fail({p})
  /\ UNCHANGED queueVars

(* Mutant of EnqueueJob: add is not awaited and its failure is not seen.   *)
EnqueueUnawaited(p) == ResolveEnqueue(p) /\ UNCHANGED queueVars

(* resolutionQueue.add puts the job in Redis.                              *)
EnqueueJob(p) == ResolveEnqueue(p) /\ Add(p)

RunQueue == QueueStep /\ UNCHANGED vars

InFlight(w) == {p \in Req : ServedBy[p] = w /\ pc[p] \in Waiting}

(* Mutants of ProcessCrash: the job goes with the process that ran it; the *)
(* row locks outlive the connections of their transactions.                *)
ProcessCrashLosesJob(w) ==
  /\ task[w] # Nobody
  /\ jobState' = [jobState EXCEPT ![task[w]] = "none"]
  /\ WorkerFreed(w)
  /\ UNCHANGED <<vars, attemptsMade, stalls, lock, emails>>
ProcessCrashKeepsLocks(w) ==
  /\ FailKeepingLocks(InFlight(w))
  /\ WorkerFreed(w)
  /\ UNCHANGED <<jobState, attemptsMade, stalls, lock, emails>>

(* A process dies: every request it was serving, every transaction it had  *)
(* open and the e-mail it was sending are gone at once.                    *)
ProcessCrash(w) ==
  /\ Fail(InFlight(w))
  /\ WorkerFreed(w)
  /\ UNCHANGED <<jobState, attemptsMade, stalls, lock, emails>>

(* All requests are answered and all their jobs settled.                   *)
PlatformIdle ==
  /\ Idle
  /\ \A p \in jobs : jobState[p] \in Settled
  /\ UNCHANGED queueVars

PlatformNext ==
  \/ \E p \in Req : HandleRequest(p) \/ EnqueueJob(p)
  \/ RunQueue
  \/ \E w \in Worker : ProcessCrash(w)
  \/ PlatformIdle

PlatformSpec == PlatformInit /\ [][PlatformNext]_platformVars

(* The fairness of the parts: requests are served, the workers and the     *)
(* timers of the queue run.                                                *)
PlatformFairness ==
  /\ \A p \in Req : WF_platformVars(\/ ServeRows(p) /\ UNCHANGED queueVars
                                    \/ EnqueueJob(p))
  /\ \A w \in Worker : WF_platformVars(Handle(w) /\ UNCHANGED vars)
  /\ WF_platformVars((\E w \in Worker, p \in Req : Take(w, p)) /\ UNCHANGED vars)
  /\ \A p \in Req :
       /\ WF_platformVars(Promote(p) /\ UNCHANGED vars)
       /\ WF_platformVars(Stalled(p) /\ UNCHANGED vars)
       /\ WF_platformVars(AbandonedLockExpires(p) /\ UNCHANGED vars)

FairPlatformSpec == PlatformSpec /\ PlatformFairness

(***************************************************************************)
(* Properties                                                              *)
(***************************************************************************)

(* What the customer and the caller are told is stored: an e-mail goes out *)
(* only for a conversation that is resolved, and a resolve request is      *)
(* answered with success only when the resolution is stored and its job is *)
(* in Redis, wherever a process died.                                      *)
AnswersAreDurable ==
  /\ \A p \in Req : emails[p] > 0 => status[req[p].conv] = "resolved"
  /\ \A p \in Req : pc[p] = "resolved" =>
       status[req[p].conv] = "resolved" /\ jobState[p] # "none"

(* With the queue next to them and processes that take all their requests  *)
(* with them, the requests do what they do on their own: what is proved of *)
(* Conversations, its lifecycle and its table among it, holds here.        *)
ImplementsConversations == Spec

(* The service uses the queue only as the queue's own specification        *)
(* allows, and no crash of a process does more to it than the loss of a    *)
(* worker: what is proved of the queue holds here.                         *)
ImplementsQueue == QueueSpec

(* A resolution that was answered with success is announced, or its job    *)
(* ends up failed for someone to look at: no crash of a process leaves     *)
(* the job lost or undecided.                                              *)
AnsweredIsNotified ==
  \A p \in Req :
    pc[p] = "resolved" ~> (emails[p] > 0 \/ jobState[p] = "failed")

(* "Mark a conversation as resolved and queue email notification": once    *)
(* nothing is in flight, a conversation opened and resolved through the    *)
(* API has a job.  A failure after the resolution is stored leaves it      *)
(* resolved without one, and resolving it again is refused.                *)
ResolvedIsNotified ==
  \A p \in Req :
    /\ pc[p] = "created"
    /\ status[req[p].conv] = "resolved"
    /\ \A q \in Req : pc[q] \notin Waiting
    => \E q \in jobs : req[q].conv = req[p].conv
=============================================================================
