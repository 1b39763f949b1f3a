-------------------------- MODULE ResolutionQueue --------------------------
(***************************************************************************)
(* The Bull queue of resolution e-mails and ResolutionWorker, which runs   *)
(* in every API process.  Bull is modelled by what the worker relies on:   *)
(* a job is taken under a lock that its worker renews, a handler that      *)
(* throws is retried after a delay until the attempts are used up, and a   *)
(* job whose lock ran out while it was active is put back (stalled), at    *)
(* most MaxStalled times.                                                  *)
(***************************************************************************)
EXTENDS Naturals

CONSTANTS Job,        \* jobs, named by the requests that add them
          Worker,     \* API processes, each with one worker
          Nobody,     \* no worker, no job
          Attempts,   \* the job option attempts (3)
          MaxStalled  \* Bull's maxStalledCount (1 by default)

ASSUME QueueAssumption ==
  /\ Nobody \notin Job \cup Worker
  /\ Attempts \in Nat \ {0}
  /\ MaxStalled \in Nat

VARIABLES
  jobState,      \* where the job is in Redis
  attemptsMade,  \* attempts that ended with a throw
  stalls,        \* times the job was found stalled
  lock,          \* the worker whose lock on the job has not run out
  task,          \* the job a worker runs
  step,          \* how far its handler got
  emails         \* e-mails transmitted for a job

queueVars == <<jobState, attemptsMade, stalls, lock, task, step, emails>>

Settled  == {"completed", "failed"}
JobState == {"none", "waiting", "active", "delayed"} \cup Settled

QueueInit ==
  /\ jobState = [j \in Job |-> "none"]
  /\ attemptsMade = [j \in Job |-> 0]
  /\ stalls = [j \in Job |-> 0]
  /\ lock = [j \in Job |-> Nobody]
  /\ task = [w \in Worker |-> Nobody]
  /\ step = [w \in Worker |-> "idle"]
  /\ emails = [j \in Job |-> 0]

(* resolutionQueue.add                                                     *)
Add(j) ==
  /\ jobState[j] = "none"
  /\ jobState' = [jobState EXCEPT ![j] = "waiting"]
  /\ UNCHANGED <<attemptsMade, stalls, lock, task, step, emails>>

(* An idle worker locks a waiting job and its handler starts.              *)
Take(w, j) ==
  /\ task[w] = Nobody
  /\ jobState[j] = "waiting"
  /\ jobState' = [jobState EXCEPT ![j] = "active"]
  /\ lock' = [lock EXCEPT ![j] = w]
  /\ task' = [task EXCEPT ![w] = j]
  /\ step' = [step EXCEPT ![w] = "sending"]
  /\ UNCHANGED <<attemptsMade, stalls, emails>>

(* Mutant of Transmit: something after the transmission may throw.         *)
TransmitThenThrow(w) ==
  /\ step[w] = "sending"
  /\ \E s \in {"sent", "thrown"} : step' = [step EXCEPT ![w] = s]
  /\ emails' = [emails EXCEPT ![task[w]] = @ + 1]
  /\ UNCHANGED <<jobState, attemptsMade, stalls, lock, task>>

(* handleResolutionEmail: the envelope is built from the job's data and    *)
(* passes its validation, which it was built to meet; then it is sent.     *)
Transmit(w) ==
  /\ step[w] = "sending"
  /\ step' = [step EXCEPT ![w] = "sent"]
  /\ emails' = [emails EXCEPT ![task[w]] = @ + 1]
  /\ UNCHANGED <<jobState, attemptsMade, stalls, lock, task>>

(* The transport rejects (the repository's stand-in for it never does):    *)
(* the handler logs and throws again.                                      *)
TransmitFails(w) ==
  /\ step[w] = "sending"
  /\ step' = [step EXCEPT ![w] = "thrown"]
  /\ UNCHANGED <<jobState, attemptsMade, stalls, lock, task, emails>>

WorkerFreed(w) ==
  /\ task' = [task EXCEPT ![w] = Nobody]
  /\ step' = [step EXCEPT ![w] = "idle"]

(* Mutant of HasLock: any worker that ran the job may settle it.           *)
HasLockUnchecked(w) == TRUE

(* Bull settles a job only for the worker that still has its lock.         *)
HasLock(w) == lock[task[w]] = w

Unlocked(w) == lock' = [lock EXCEPT ![task[w]] = Nobody]

(* The handler returned: the job is completed and removed.                 *)
Complete(w) ==
  /\ step[w] = "sent"
  /\ HasLock(w)
  /\ jobState' = [jobState EXCEPT ![task[w]] = "completed"]
  /\ Unlocked(w)
  /\ WorkerFreed(w)
  /\ UNCHANGED <<attemptsMade, stalls, emails>>

(* Mutants of StateAfterThrow: one attempt too many; no retry at all.      *)
StateAfterThrowOffByOne(j) ==
  IF attemptsMade[j] < Attempts THEN "delayed" ELSE "failed"
StateAfterThrowNoRetry(j) == "failed"

(* After a throw the job is tried again after a delay or, with its         *)
(* attempts used up, kept as failed.                                       *)
StateAfterThrow(j) ==
  IF attemptsMade[j] + 1 < Attempts THEN "delayed" ELSE "failed"

MoveToFailed(w) ==
  /\ step[w] = "thrown"
  /\ HasLock(w)
  /\ jobState' = [jobState EXCEPT ![task[w]] = StateAfterThrow(task[w])]
  /\ attemptsMade' = [attemptsMade EXCEPT ![task[w]] = @ + 1]
  /\ Unlocked(w)
  /\ WorkerFreed(w)
  /\ UNCHANGED <<stalls, emails>>

(* The lock ran out while the handler ran: its outcome is not recorded.    *)
LockMissing(w) ==
  /\ step[w] \in {"sent", "thrown"}
  /\ ~HasLock(w)
  /\ WorkerFreed(w)
  /\ UNCHANGED <<jobState, attemptsMade, stalls, lock, emails>>

(* The delay of a retry has passed.                                        *)
Promote(j) ==
  /\ jobState[j] = "delayed"
  /\ jobState' = [jobState EXCEPT ![j] = "waiting"]
  /\ UNCHANGED <<attemptsMade, stalls, lock, task, step, emails>>

(* A lock is not renewed in time: its worker died, or lives but its event  *)
(* loop or its connection to Redis was blocked for too long.               *)
LockExpires(j) ==
  /\ lock[j] # Nobody
  /\ lock' = [lock EXCEPT ![j] = Nobody]
  /\ UNCHANGED <<jobState, attemptsMade, stalls, task, step, emails>>

(* A job that stalled too often is given up, else it is put back.          *)
StateAfterStall(j) ==
  IF stalls[j] + 1 > MaxStalled THEN "failed" ELSE "waiting"

(* Mutants of Stalled: the check does not count; it never runs.            *)
StalledUncounted(j) ==
  /\ jobState[j] = "active"
  /\ lock[j] = Nobody
  /\ jobState' = [jobState EXCEPT ![j] = "waiting"]
  /\ UNCHANGED <<attemptsMade, stalls, lock, task, step, emails>>
StalledUnchecked(j) == FALSE

(* The stalled-job check finds an active job without a lock.               *)
Stalled(j) ==
  /\ jobState[j] = "active"
  /\ lock[j] = Nobody
  /\ stalls' = [stalls EXCEPT ![j] = @ + 1]
  /\ jobState' = [jobState EXCEPT ![j] = StateAfterStall(j)]
  /\ UNCHANGED <<attemptsMade, lock, task, step, emails>>

(* The process dies in the middle of a job and is restarted.               *)
WorkerCrash(w) ==
  /\ task[w] # Nobody
  /\ WorkerFreed(w)
  /\ UNCHANGED <<jobState, attemptsMade, stalls, lock, emails>>

Handle(w) ==
  \/ Transmit(w) \/ TransmitFails(w)
  \/ Complete(w) \/ MoveToFailed(w) \/ LockMissing(w)

QueueStep ==
  \/ \E w \in Worker : Handle(w) \/ WorkerCrash(w) \/ (\E j \in Job : Take(w, j))
  \/ \E j \in Job : Promote(j) \/ LockExpires(j) \/ Stalled(j)

(* Every job was added and settled, every worker is idle.                  *)
QueueIdle ==
  /\ \A j \in Job : jobState[j] \in Settled
  /\ \A w \in Worker : task[w] = Nobody
  /\ UNCHANGED queueVars

QueueNext == (\E j \in Job : Add(j)) \/ QueueStep \/ QueueIdle

QueueSpec == QueueInit /\ [][QueueNext]_queueVars

(* Workers run, timers and Bull's periodic stalled check fire, and the     *)
(* lock of a worker that no longer runs the job is not renewed.  A live    *)
(* worker need not lose its lock, a worker need not crash, no transport    *)
(* has to work.                                                            *)
AbandonedLockExpires(j) ==
  lock[j] # Nobody /\ task[lock[j]] # j /\ LockExpires(j)

QueueFairness ==
  /\ \A w \in Worker : WF_queueVars(Handle(w))
  /\ WF_queueVars(\E w \in Worker, j \in Job : Take(w, j))
  /\ \A j \in Job : /\ WF_queueVars(Promote(j))
                    /\ WF_queueVars(Stalled(j))
                    /\ WF_queueVars(AbandonedLockExpires(j))

FairQueueSpec == QueueSpec /\ QueueFairness

(***************************************************************************)
(* Properties                                                              *)
(***************************************************************************)

(* Every variable has the shape its declaration says, and a worker has a   *)
(* job exactly while its handler runs.                                     *)
QueueTypeOK ==
  /\ jobState \in [Job -> JobState]
  /\ attemptsMade \in [Job -> 0..Attempts]
  /\ stalls \in [Job -> 0..MaxStalled + 1]
  /\ lock \in [Job -> Worker \cup {Nobody}]
  /\ task \in [Worker -> Job \cup {Nobody}]
  /\ step \in [Worker -> {"idle", "sending", "sent", "thrown"}]
  /\ emails \in [Job -> 0..MaxStalled + 2]
  /\ \A w \in Worker : task[w] = Nobody <=> step[w] = "idle"

(* A customer gets a second e-mail only when the job stalled: retries      *)
(* after a throw never repeat a transmission, also when a worker that lost *)
(* its lock runs on next to the one that took the job over.                *)
DuplicatesNeedStalls == \A j \in Job : emails[j] <= stalls[j] + 1

(* A job counts as completed only after its e-mail was transmitted, and is *)
(* given up only with its attempts used up or after too many stalls.       *)
SettledForAReason ==
  \A j \in Job :
    /\ jobState[j] = "completed" => emails[j] > 0
    /\ jobState[j] = "failed" =>
         attemptsMade[j] = Attempts \/ stalls[j] > MaxStalled

(* Two workers run one job at a time only after a counted stall: the       *)
(* first one's lock ran out and the stalled check put the job back while   *)
(* its handler was still running.                                          *)
OverlapNeedsStall ==
  \A j \in Job : \A w, v \in Worker :
    w # v /\ task[w] = j /\ task[v] = j => stalls[j] > 0

(* Every job that was added is completed or, at last, failed: a crash of   *)
(* its worker or a lost lock never leaves it active or waiting for ever.   *)
EveryJobSettles ==
  \A j \in Job : jobState[j] # "none" ~> jobState[j] \in Settled
=============================================================================
