--------------------------- MODULE SlidingWindow ---------------------------
(***************************************************************************)
(* SlidingWindowRateLimiterMiddleware.checkLimit: a sorted set in Redis    *)
(* that holds the times of one identifier's requests, read and written by  *)
(* a pipeline of four commands.  Commands of one connection run in the     *)
(* order they were sent; nothing keeps the commands of another API         *)
(* instance from running between them.  A command may fail: exec() then    *)
(* resolves all the same, with an error in its place.  Left out: ioredis   *)
(* sends a pipeline again whose connection is lost before its first reply. *)
(***************************************************************************)
EXTENDS Integers, FiniteSets, Sequences

CONSTANTS Req,       \* requests with the same identifier
          Instance,  \* API instances, each with one Redis connection
          Limit, Window,  \* config.limit, config.windowMs in ticks
          Latency,   \* ticks a pipeline may take to be executed
          MaxTime,   \* bound on the clock
          MaxFailures \* bound on the commands that fail

ASSUME WindowAssumption ==
  /\ IsFiniteSet(Req) /\ IsFiniteSet(Instance)
  /\ Limit \in Nat \ {0}
  /\ Window \in Nat \ {0}
  /\ Latency \in 0..(Window - 1)
  /\ MaxTime \in Nat
  /\ MaxFailures \in Nat

VARIABLES now,       \* the clock
          entries,   \* the sorted set: a member per request, scored by its time
          expiry,    \* when Redis drops the key; 0 if it is not to
          sent,      \* per connection, the requests whose commands are not done
          pc,        \* the next command of a request
          at,        \* Date.now() when the request came in
          count,     \* what ZCARD returned to it
          failed,    \* <<r, command>>: what has an error in the results of r
          retryAfter \* what a rejected request is told

vars == <<now, entries, expiry, sent, pc, at, count, failed, retryAfter>>

Command  == {"evict", "count", "add", "expire"}
Waiting  == Command \cup {"reply", "oldest"}
Answered == {"allowed", "rejected", "failed"}

Init ==
  /\ now = 0
  /\ entries = {}
  /\ expiry = 0
  /\ sent = [i \in Instance |-> <<>>]
  /\ pc = [r \in Req |-> "new"]
  /\ at = [r \in Req |-> 0]
  /\ count = [r \in Req |-> 0]
  /\ failed = {}
  /\ retryAfter = [r \in Req |-> 0]

(* The request comes in at one of the instances, which sends its pipeline. *)
Receive(r, i) ==
  /\ pc[r] = "new"
  /\ pc' = [pc EXCEPT ![r] = "evict"]
  /\ at' = [at EXCEPT ![r] = now]
  /\ sent' = [sent EXCEPT ![i] = Append(@, r)]
  /\ UNCHANGED <<now, entries, expiry, count, failed, retryAfter>>

(* The next command of r is the next one of its connection.                *)
IsNext(r, command) ==
  /\ pc[r] = command
  /\ \E i \in Instance : sent[i] # <<>> /\ Head(sent[i]) = r

(* Mutant of Expired: nothing is ever evicted.                             *)
ExpiredNever(e, t) == FALSE

(* Members with a score up to now - windowMs have left the window.         *)
Expired(e, t) == e.at <= t - Window

(* ZREMRANGEBYSCORE; a key without members is gone, and its time to live.  *)
Evict(r) ==
  /\ IsNext(r, "evict")
  /\ entries' = {e \in entries : ~Expired(e, at[r])}
  /\ expiry' = IF entries' = {} THEN 0 ELSE expiry
  /\ pc' = [pc EXCEPT ![r] = "count"]
  /\ UNCHANGED <<now, sent, at, count, failed, retryAfter>>

(* ZCARD                                                                   *)
Count(r) ==
  /\ IsNext(r, "count")
  /\ count' = [count EXCEPT ![r] = Cardinality(entries)]
  /\ pc' = [pc EXCEPT ![r] = "add"]
  /\ UNCHANGED <<now, entries, expiry, sent, at, failed, retryAfter>>

(* ZADD, whatever the count was; the member is unique.  A key that this    *)
(* creates has no time to live yet.                                        *)
Add(r) ==
  /\ IsNext(r, "add")
  /\ entries' = entries \cup {[at |-> at[r], by |-> r]}
  /\ pc' = [pc EXCEPT ![r] = "expire"]
  /\ UNCHANGED <<now, expiry, sent, at, count, failed, retryAfter>>

(* The lines of the connections once the pipeline of r is done.            *)
SentWithout(r) ==
  [i \in Instance |->
     IF sent[i] # <<>> /\ Head(sent[i]) = r THEN Tail(sent[i]) ELSE sent[i]]

(* PEXPIRE, the last command of the pipeline; it does nothing to a key     *)
(* that is not there.                                                      *)
Expire(r) ==
  /\ IsNext(r, "expire")
  /\ expiry' = IF entries = {} THEN expiry ELSE now + Window
  /\ sent' = SentWithout(r)
  /\ pc' = [pc EXCEPT ![r] = "reply"]
  /\ UNCHANGED <<now, entries, at, count, failed, retryAfter>>

(* The results of r have an error for the command, which was not executed; *)
(* of one that was, only the reply to ZCARD is missed.                     *)
Fail(r, command, next) ==
  /\ IsNext(r, command)
  /\ Cardinality(failed) < MaxFailures
  /\ failed' = failed \cup {<<r, command>>}
  /\ pc' = [pc EXCEPT ![r] = next]
  /\ UNCHANGED <<now, entries, expiry, at, retryAfter>>

(* A count that is missing is 0 ("results[1]?.[1] ?? 0").                  *)
CommandFails(r) ==
  \/ /\ Fail(r, "evict", "count") \/ Fail(r, "add", "expire")
     /\ UNCHANGED <<sent, count>>
  \/ /\ Fail(r, "count", "add")
     /\ count' = [count EXCEPT ![r] = 0]
     /\ UNCHANGED sent
  \/ /\ Fail(r, "expire", "reply")
     /\ sent' = SentWithout(r)
     /\ UNCHANGED count

(* Mutant of WithinLimit: the comparison includes the limit.               *)
WithinLimitInclusive(n) == n <= Limit

WithinLimit(n) == n < Limit

(* The results of the pipeline are back: next() or one more command.       *)
Reply(r) ==
  /\ pc[r] = "reply"
  /\ pc' = [pc EXCEPT ![r] = IF WithinLimit(count[r]) THEN "allowed" ELSE "oldest"]
  /\ UNCHANGED <<now, entries, expiry, sent, at, count, failed, retryAfter>>

(* Mutant of SecondsLeft: the request's own time is not subtracted.        *)
SecondsLeftFromZero(oldest, t) == oldest + Window

(* Until the oldest member leaves the window.                              *)
SecondsLeft(oldest, t) == oldest + Window - t

(* ZRANGE key 0 0, then 429 with Retry-After.                              *)
Reject(r) ==
  /\ pc[r] = "oldest"
  /\ retryAfter' = [retryAfter EXCEPT ![r] =
       IF entries = {} THEN 0
       ELSE LET first == CHOOSE e \in entries : \A f \in entries : e.at <= f.at
            IN SecondsLeft(first.at, at[r])]
  /\ pc' = [pc EXCEPT ![r] = "rejected"]
  /\ UNCHANGED <<now, entries, expiry, sent, at, count, failed>>

(* The ZRANGE rejects: 500 in place of the 429.                            *)
RejectFails(r) ==
  /\ pc[r] = "oldest"
  /\ pc' = [pc EXCEPT ![r] = "failed"]
  /\ UNCHANGED <<now, entries, expiry, sent, at, count, failed, retryAfter>>

(* Time passes: a request is in flight for Latency ticks at most, and a    *)
(* pipeline that Redis has begun ends within the tick.  Redis drops the    *)
(* key when its time to live, once set, is over.                           *)
Tick ==
  /\ now < MaxTime
  /\ \A r \in Req :
       /\ pc[r] \in Waiting => now < at[r] + Latency
       /\ pc[r] \notin {"count", "add", "expire"}
  /\ now' = now + 1
  /\ entries' = IF expiry = now + 1 THEN {} ELSE entries
  /\ expiry' = IF expiry = now + 1 THEN 0 ELSE expiry
  /\ UNCHANGED <<sent, pc, at, count, failed, retryAfter>>

Handle(r) ==
  \/ Evict(r) \/ Count(r) \/ Add(r) \/ Expire(r) \/ CommandFails(r)
  \/ Reply(r) \/ Reject(r) \/ RejectFails(r)

Done ==
  /\ now = MaxTime
  /\ \A r \in Req : pc[r] \in Answered
  /\ UNCHANGED vars

Next ==
  \/ \E r \in Req : Handle(r) \/ (\E i \in Instance : Receive(r, i))
  \/ Tick
  \/ Done

Spec == Init /\ [][Next]_vars

(***************************************************************************)
(* Properties                                                              *)
(***************************************************************************)

Failed(r, command) == <<r, command>> \in failed

(* Every variable has the shape its declaration says; a rejected request   *)
(* is told to wait for a window at most, and for as much longer as a late  *)
(* pipeline can find an entry that is younger than the request itself.  It *)
(* is told a negative time only if its eviction failed.                    *)
TypeOK ==
  /\ now \in 0..MaxTime
  /\ entries \subseteq [at : 0..MaxTime, by : Req]
  /\ expiry \in 0..MaxTime + Window
  /\ sent \in [Instance -> Seq(Req)]
  /\ pc \in [Req -> {"new"} \cup Waiting \cup Answered]
  /\ at \in [Req -> 0..MaxTime]
  /\ count \in [Req -> 0..Cardinality(Req)]
  /\ failed \subseteq Req \X Command
  /\ retryAfter \in [Req -> -MaxTime..Window + Latency]
  /\ \A r \in Req : Failed(r, "evict") \/ retryAfter[r] >= 0

(* Requests of the window that ends when r came in, r included.            *)
Within(r, length) ==
  {q \in Req : pc[q] # "new" /\ at[q] <= at[r] /\ at[q] > at[r] - length}

(* A request that was counted and recorded, and the key with it.           *)
Recorded(q) == ~Failed(q, "count") /\ ~Failed(q, "add") /\ ~Failed(q, "expire")

(* Requests of that window that were let through by their count.  A        *)
(* pipeline that is late by up to Latency can find the key gone, so what   *)
(* is guaranteed is about a window that is shorter by as much.             *)
LetThrough(r) ==
  {q \in Within(r, Window - Latency) : pc[q] = "allowed" /\ Recorded(q)}

(* The requests of a window that are let through and whose own commands    *)
(* did not fail are Limit at most and, by racing, one more for every       *)
(* further instance: rejected requests are recorded too, and neither late  *)
(* pipelines, nor the key's time to live, nor the failures of others lose  *)
(* any that still counts.  A request whose ZCARD fails is let through      *)
(* whatever the window holds, and one whose ZADD or PEXPIRE fails may be   *)
(* missing in the counts of others: those come on top.                     *)
OvershootBound ==
  \A r \in Req : Cardinality(LetThrough(r)) <= Limit + Cardinality(Instance) - 1

(* Nobody is rejected without reason: a rejected request had at least      *)
(* Limit others in its window, some of which may have overtaken it on      *)
(* their way to Redis.  Only if its own eviction failed it may count those *)
(* that have left the window.                                              *)
RejectionsJustified ==
  \A r \in Req :
    pc[r] = "rejected" /\ ~Failed(r, "evict") =>
      Cardinality({q \in Req \ {r} : /\ pc[q] # "new"
                                     /\ at[q] > at[r] - Window
                                     /\ at[q] <= at[r] + Latency}) >= Limit

(***************************************************************************)
(* What the repository says and the code does not keep (see README)        *)
(***************************************************************************)

(* "Per-request flow (atomic via pipeline)": no window lets more than      *)
(* Limit requests through by their counts.  While no command fails it      *)
(* holds for one API instance; the commands of two may interleave, and     *)
(* both count before either is recorded.                                   *)
WindowBound == \A r \in Req : Cardinality(LetThrough(r)) <= Limit
=============================================================================
