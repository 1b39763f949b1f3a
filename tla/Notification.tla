---------------------------- MODULE Notification ----------------------------
(***************************************************************************)
(* What the resolution queue promises about the e-mail of a job, whatever  *)
(* workers, locks and retries do: it is decided once, it is not counted as *)
(* delivered before it went out, and every copy but the first is owed to a *)
(* worker that was lost in the middle of the job.                          *)
(***************************************************************************)
EXTENDS Naturals

CONSTANTS Job,
          MaxLosses  \* the losses that make the queue give a job up

VARIABLES outcome,  \* what became of the job
          copies,   \* e-mails that went out for it
          losses    \* workers lost in the middle of it

notificationVars == <<outcome, copies, losses>>

Init ==
  /\ outcome = [j \in Job |-> "none"]
  /\ copies = [j \in Job |-> 0]
  /\ losses = [j \in Job |-> 0]

Submit(j) ==
  /\ outcome[j] = "none"
  /\ outcome' = [outcome EXCEPT ![j] = "pending"]
  /\ UNCHANGED <<copies, losses>>

(* A lost worker may live and send its copy late, after the job is decided. *)
Send(j) ==
  /\ outcome[j] # "none"
  /\ copies[j] <= losses[j]
  /\ copies' = [copies EXCEPT ![j] = @ + 1]
  /\ UNCHANGED <<outcome, losses>>

Deliver(j) ==
  /\ outcome[j] = "pending"
  /\ copies[j] > 0
  /\ outcome' = [outcome EXCEPT ![j] = "delivered"]
  /\ UNCHANGED <<copies, losses>>

(* Every attempt failed.                                                   *)
GiveUp(j) ==
  /\ outcome[j] = "pending"
  /\ outcome' = [outcome EXCEPT ![j] = "givenUp"]
  /\ UNCHANGED <<copies, losses>>

(* The last loss gives the job up as well.                                 *)
Lose(j) ==
  /\ outcome[j] = "pending"
  /\ losses' = [losses EXCEPT ![j] = @ + 1]
  /\ outcome' = IF losses[j] + 1 = MaxLosses THEN [outcome EXCEPT ![j] = "givenUp"] ELSE outcome
  /\ UNCHANGED copies

Next == \E j \in Job : Submit(j) \/ Send(j) \/ Deliver(j) \/ GiveUp(j) \/ Lose(j)

Spec == Init /\ [][Next]_notificationVars
=============================================================================
