----------------------- MODULE ConversationLifecycle -----------------------
(***************************************************************************)
(* What the conversations API promises, without requests, locks, saves or  *)
(* failures: a conversation is opened, claimed by at most one user for     *)
(* good, and resolved for good, each in one indivisible step.              *)
(***************************************************************************)
CONSTANTS Conv, User, None

VARIABLES status,  \* as stored
          holder   \* the user the conversation belongs to: the seeded agent
                   \* or the user whose claim was granted

vars == <<status, holder>>

Status == {"absent", "open", "pending", "resolved", "closed"}

Init ==
  /\ status \in [Conv -> Status]
  /\ holder \in [Conv -> User \cup {None}]
  /\ \A c \in Conv : status[c] \in {"absent", "open"} => holder[c] = None

Open(c) ==
  /\ status[c] = "absent"
  /\ status' = [status EXCEPT ![c] = "open"]
  /\ UNCHANGED holder

Claim(c, u) ==
  /\ status[c] \notin {"absent", "resolved"}
  /\ holder[c] = None
  /\ status' = [status EXCEPT ![c] = "pending"]
  /\ holder' = [holder EXCEPT ![c] = u]

Resolve(c) ==
  /\ status[c] # "absent"
  /\ status' = [status EXCEPT ![c] = "resolved"]
  /\ UNCHANGED holder

Next ==
  \E c \in Conv : Open(c) \/ (\E u \in User : Claim(c, u)) \/ Resolve(c)

Spec == Init /\ [][Next]_vars
=============================================================================
