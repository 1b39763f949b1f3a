--------------------- MODULE ResolutionQueueRefinement ---------------------
(***************************************************************************)
(* The refinement of Notification by ResolutionQueue, and the inductive    *)
(* invariant that it and the properties of the queue rest on.              *)
(***************************************************************************)
EXTENDS ResolutionQueue, FiniteSets

ASSUME WorkerAssumption == IsFiniteSet(Worker)

(* What became of a job, whoever runs it and how often it was tried.       *)
Outcome(j) ==
  CASE jobState[j] = "none"      -> "none"
    [] jobState[j] = "completed" -> "delivered"
    [] jobState[j] = "failed"    -> "givenUp"
    [] OTHER                     -> "pending"

Promise == INSTANCE Notification
             WITH outcome <- [j \in Job |-> Outcome(j)], copies <- emails,
                  losses <- stalls, MaxLosses <- MaxStalled + 1

(* Through all retries, crashes and lost locks the queue does what         *)
(* Notification promises: a job is decided once, is not completed before   *)
(* its e-mail went out, and sends no copy that no stall accounts for.      *)
ImplementsNotification == Promise!Spec

(***************************************************************************)
(* The inductive invariant                                                 *)
(***************************************************************************)

(* In Redis and in nobody's hands.                                         *)
Queued(j) == jobState[j] \in {"none", "waiting", "delayed"}

(* The workers that may yet send the e-mail or have just failed to.        *)
Trying(j) == {w \in Worker : task[w] = j /\ step[w] \in {"sending", "thrown"}}

(* Every copy sent, every worker at it and a job in the queue need a stall *)
(* each, but for the first.                                                *)
CopiesArePaid ==
  \A j \in Job :
    emails[j] + Cardinality(Trying(j)) + (IF Queued(j) THEN 1 ELSE 0) <= stalls[j] + 1

LockMeansActive == \A j \in Job : lock[j] # Nobody => jobState[j] = "active"

(* Before its first stall a job is in the queue or has one worker.         *)
OneWorker ==
  \A j \in Job : stalls[j] = 0 =>
    /\ Queued(j) => \A w \in Worker : task[w] # j
    /\ \A w, v \in Worker : task[w] = j /\ task[v] = j => w = v

BudgetLeft ==
  \A j \in Job : jobState[j] # "failed" => attemptsMade[j] < Attempts /\ stalls[j] <= MaxStalled

SentIsSent ==
  \A w \in Worker : task[w] # Nobody =>
    /\ step[w] = "sent" => emails[task[w]] > 0
    /\ jobState[task[w]] # "none"

QueueInv ==
  /\ CopiesArePaid /\ LockMeansActive /\ OneWorker /\ BudgetLeft /\ SentIsSent
  /\ DuplicatesNeedStalls /\ SettledForAReason /\ OverlapNeedsStall
=============================================================================
