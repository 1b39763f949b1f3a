# Support Platform API: TLA+ models and proofs

TLA+ modules for the support API in `src/` (NestJS, PostgreSQL through TypeORM, Redis, Bull): what its
requests do to shared state when they interleave, fail and crash, what that guarantees, and where the
code does something else than its documentation says. TLC checks small instances; TLAPS proves every
safety property and every refinement of the passing runs for all instances. Liveness stays with TLC.

Paths below are relative to the repository root `src/`; the TypeScript sources are in `src/src/`.

## The system

| Component | State it keeps | Operations | What is hard |
|---|---|---|---|
| Conversations (`conversations/`) | rows of `conversations` (status, tenant, assigned agent) and `messages` | create, list, get, claim, resolve | claims race under a row lock, resolutions write without one, every await may fail; lists are counted and paged in separate queries |
| Resolution queue and worker (`workers/`) | jobs in Redis: state, attempts, lock | add, take, complete, fail, retry, stalled check | crashes and lost locks while an e-mail is sent, retries, duplicates |
| API process (`app.module.ts`) | none of its own | runs service and worker | one crash ends requests, transactions and the job being run at once |
| Authentication (`auth/`) | `users.refresh_token` (a bcrypt hash) | sign-up, sign-in, refresh, sign-out, two JWT strategies | check-then-insert, validation long before the token is stored |
| Users, tenants (`users/`, `tenants/`) | `users.is_active`; `tenants.name`, `slug`, `is_active` | deactivate, create tenant, listings | requests in flight during a deactivation, two creations of one name or slug |
| Roles guard, tenant filter (`auth/guards/`, every query) | none | decide | the filter is repeated by hand in each query |
| Analytics cache (`analytics/`) | a Redis key per tenant, 30 minutes | read through | stale rankings, slow readers, Redis failures |
| Sliding-window limiter (`common/middleware/`) | a Redis sorted set per identifier | checkLimit | four commands that are not a transaction, clocks, key expiry |
| Throttler, validation, filters, interceptors, seeder, migration | configuration, one-off scripts | | |

Components meet in three ways. Requests share PostgreSQL rows: `claimConversation` runs in a
transaction with `SELECT ... FOR UPDATE`, `resolveConversation` reads without a lock and calls
`save()`. The service hands work to the worker through the Bull queue in Redis; the worker runs in
the same Node process (`WorkersModule` is imported by `AppModule`, although the repository's
README:293 speaks of a separate process context). Guards and strategies read `users` at the
start of a request and the handler relies on what they read until its end.

## Modules

| Module | Models | Notes |
|---|---|---|
| `AccessControl` | roles, `RolesGuard`, tenant filter | constants and operators, extended by the others |
| `ConversationTable` | the table `conversations`: its seeded rows and what a commit may do to one | shared by the core and the list |
| `Conversations` | `ConversationsService`: create, claim, resolve | the core; one action per await |
| `ConversationLifecycle` | what a conversation's life promises | abstract: atomic steps, no requests |
| `ConversationsRefinement` | refinement mapping of the core to the lifecycle; the core as a `ConversationTable` | `Holder` explains the mapping |
| `ConversationsInvariants` | the inductive invariant `IInv` | model-checked as an invariant and proved |
| `ConversationsProofs` | theorems and proofs (TLAPS) | |
| `ConversationList`, `ConversationListProofs` | `ConversationsService.findAll` and a client that pages through it | over a `ConversationTable` |
| `Notification` | what the queue promises about a job's e-mail | abstract: no workers, locks or retries |
| `ResolutionQueue` | Bull queue and `ResolutionWorker` | Bull by what the worker relies on |
| `ResolutionQueueRefinement` | refinement mapping of the queue to `Notification`, inductive invariant `QueueInv` | model-checked and proved |
| `ResolutionQueueProofs` | theorems and proofs | |
| `SupportPlatform` | any number of API processes, each with service and worker, and their crashes | composes the core and the queue |
| `SupportPlatformProofs` | theorems and proofs | extends those of the core and of the queue |
| `Accounts` | `AuthService`, JWT strategies, `UsersService`, `TenantsService` | |
| `Directory` | what accounts and tenants promise | abstract: rows and sessions, no requests |
| `AccountsRefinement`, `AccountsProofs` | refinement mapping of the accounts to `Directory`; theorems and proofs | |
| `AnalyticsCache`, `AnalyticsCacheProofs` | `getTopActiveConversations` | |
| `SlidingWindow`, `SlidingWindowProofs` | `checkLimit` | |
| `MC*` | constants and symmetry for TLC | one per checked module |

Operators named "Mutant of X" state a plausible bug of X: with X replaced by it, the property it is
listed with in `PROJECT.json` fails. No specification uses them.

### Conversations

State: the columns `status`, `tenantId`, `assignedAgentId`; `notes`, the resolution notes whose
`conversation_id` is the conversation; `rowLock`, the claim transaction that holds the row;
`jobs`, what `resolutionQueue.add` was given; and per request `pc`, what it asks (`req`), the entity a
resolve request has in memory (`entity`) and what its `save()` found to write (`diff`). An element of
`Req` is one HTTP request, handled once.

| Code | Actions |
|---|---|
| `create` | `Create` |
| `claimConversation` | `StartClaim`, then one of `ClaimNotFound`, `ClaimConflict`, `ClaimAgain`, or `ClaimLock` and `ClaimCommit` |
| `findOne` and the checks of `resolveConversation` | `StartResolve` |
| `convRepo.save(conv)` | `ResolveLoad` (its SELECT), `ResolveSave` or `ResolveSaveRejected` (its UPDATEs and COMMIT) |
| the note's `save`, `resolutionQueue.add` | `ResolveNote`, `ResolveEnqueue` |
| a rejected await, a dead process | `Fail(P)`, of one request or of all that a process serves |

TypeORM's `save()` of a loaded entity reads the row again and writes what differs. Two details of it
matter and are modelled (`SaveDiff`): an assigned agent that is `null` in the entity is always
written, and messages the row has but the loaded list lacks are detached from the conversation. Hence
`ResolveSave` can overwrite an assignment made after the resolve request read the row, and can clear a
note's `conversation_id`, which the migrated schema rejects (`NotNullFk`).

PostgreSQL is READ COMMITTED: a plain SELECT does not wait, `SELECT ... FOR UPDATE` and `UPDATE` wait
for the row. A lock request that waited sees the row as it is then, which is why the checks of
a claim are part of the step that gets the lock.

Initial states are what the seeder leaves: conversations of any status, with an agent of their tenant
or none, or not created yet.

### ConversationList

`findAll` is two queries, `Count` and `Read`, that share `Where`: the tenant filter, an agent's scope, and the
status and agent asked for. `Begin` and `Continue` are an API client that asks for page after page until one is
empty; `Fail` is a rejected query, after which it asks again. Between any two of these steps `CreateRow`,
`ClaimRow` and `ResolveRow` of `ConversationTable` change rows, each by what a whole request commits.
That these are all the changes the core makes is `ImplementsTable`, checked in the run `Conversations` and proved for it and
for the platform. It is what makes `Stale` part of `ResolveRow`: a resolution's save may
write an assignment that is out of date, not only clear one. A conversation is a number, its place in the order of `created_at`,
which the list is sorted by; `created_at` is when the INSERT began, so a row may appear after later ones.
Equal times of creation, among which `ORDER BY created_at` may choose differently in each query, are left out:
with them a walk may miss a conversation on a table nobody changes.

### Queue and platform

`ResolutionQueue` has the state of a job in Redis, its attempts and stalls, the lock, and the task of
each worker. `Transmit` is the moment the e-mail leaves; the envelope and its validation are
functions of the job's data that cannot fail for an envelope the worker built itself.
The repository's stand-in for SMTP never rejects; `TransmitFails` is the transport it stands for, and
what the code's catch and re-throw is written for. `LockExpires` may happen to a live worker (a blocked
event loop) as well as after a crash. Job delays are not timed.

`SupportPlatform` has any number of API processes on one PostgreSQL and one Redis. A process is named by its worker;
`ServedBy` says which process a request is sent to, and a job is named by the resolve request that adds
it. `ProcessCrash(w)` ends all requests that `w` serves (`InFlight`), their transactions and row locks, and the job `w` runs in one
step, while other processes go on. Since a crash is a `Fail` of a set of requests for the core and the loss of a worker
for the queue, every behaviour of the platform is one of each part (`ImplementsConversations`, `ImplementsQueue`).

`Notification` is what the service relies on, without workers, locks, attempts or timers: a
job is decided once, it is delivered only after a copy of its e-mail went out, and it sends one copy more than
workers were lost in the middle of it. `Outcome` maps the states of a job to it, the job's stalls are the losses.

### Accounts

Rows of `users` and of `tenants`, and requests with the awaits of `AuthService`, `UsersService` and
`TenantsService`: sign-up, sign-in, refresh, sign-out, deactivation of a user or a tenant, creation of a tenant.
The tables start as the seeder leaves them, or empty. A token bears the
name of the request that was answered with it. `before[q]` records which requests had been answered
when `q` came in: "after" in the properties means after the answer. `Matches` is bcrypt's comparison
of a stored hash with a refresh token. bcrypt (bcryptjs 2.4) reads 72 bytes; the first 72 of
a refresh token are the JWT header, `{"sub":"` and 18 characters of the user's id, the same in
every token of the user, so the comparison holds for all of them. Password comparison is
nondeterministic. Expiry of tokens is left out: it only makes fewer requests succeed.

`Directory` is the same without requests: an account has an e-mail address, tenant and role for good, a tenant a name and a slug, each
unique; accounts and tenants are disabled and closed for good; an account has at most one token stored, replaced by handing out
another one, which happens once for each. It speaks of the token that is stored, not of those that are accepted, and does
not say that a sign-out or a deactivation removes it for good, which the code does not keep (`SignOutUndone`).
`SignOutEndsSessions` is about the tokens that are accepted: after the answer to a sign-out no refresh is, until a
request that was not answered when the sign-out came in has been answered with tokens. From then on all tokens of the
account are accepted again, those the sign-out was to end among them, because `Matches` cannot tell them apart; that is as much
as the code keeps of README:201. That tenants stay apart (`TenantsAreDistinct`)
is part of it, so the run leaves that to `ImplementsDirectory`.

### AnalyticsCache

An answer is reduced to the number of messages it counted per tenant and its age. Readers ask again
and again; GET may hit, miss or fail, SETEX may fail, the query may fail. `Slow` bounds the ticks between
a query and its SETEX: without it no bound on the age of an answer exists. The 30-day window and LIMIT 10
are left out.

### SlidingWindow

One identifier's sorted set, read and written by any number of API instances. The commands of one connection run in order, those of different
instances interleave. A request is in flight for at most `Latency` ticks, which is less than a window (`windowMs`
is what the route configures, and a window shorter than a round trip limits nothing); a pipeline that Redis has begun ends
within the tick (a tick is far longer than four commands).

`pipeline.exec()` resolves with an error for each command that failed, and the middleware looks at no result but ZCARD's
(`results[1]?.[1] ?? 0`): a request whose ZCARD failed has the count 0 and is let through, and one whose ZADD failed
is never seen by others. `CommandFails` is such a command and the ghost `failed` says which it was; a failed PEXPIRE leaves the key
the time to live it had, or none. When all four fail (`results` is null, the connection is gone) that is four of them. The ZRANGE
before the 429 is awaited by itself and rejects (`RejectFails`, a 500). `OvershootBound` therefore counts the requests that were
let through by their count, with their ZCARD, ZADD and PEXPIRE executed, while those of others may fail at will; requests
let through because Redis failed have no bound, in the model or in the code. A failed command is one that was not executed; ioredis sends a
pipeline again whose connection was lost before its first reply, so that commands may be executed twice: that is left out. No route applies the middleware; it is
modelled as the component it is written to be.

## Runs

| Run | Checks | Bounds | Result |
|---|---|---|---|
| `Conversations` | `TypeOK`, `IInv`, `SingleGrant`, `GrantIsHonoured`, `ClaimDecisionStillValid`, `EffectsFollowResolution`, `TenantIsolation`, `ResolvedIsFinal`, `NotesAreKept`, `ImplementsLifecycle`, `ImplementsTable`, `RequestsFinish` | 3 requests; an agent, a tenant admin, a super admin; 2 tenants; 1 conversation | holds |
| `List` | `TypeOK`, `WalkMissesNothing`, `PageMatchesTotal`, `ListedInScope` | 3 conversations, 2 per page; an agent, a tenant admin; 2 tenants | holds |
| `Queue` | `QueueTypeOK`, `QueueInv`, `DuplicatesNeedStalls`, `SettledForAReason`, `OverlapNeedsStall`, `ImplementsNotification`, `EveryJobSettles` | 2 jobs, 2 workers, 3 attempts, 1 stall | holds |
| `Platform` | `AnswersAreDurable`, `ImplementsConversations`, `ImplementsQueue`, `AnsweredIsNotified` | 2 processes with a request each; a tenant admin; 2 attempts, 1 stall | holds |
| `Accounts` | `TypeOK`, `OneAccountPerEmail`, `DeactivationIsFinal`, `ClosedTenantAdmitsNobody`, `SignOutEndsSessions`, `ImplementsDirectory` | 3 requests, 2 accounts, 1 e-mail address, 2 tenants, 2 names, 2 slugs | holds |
| `Cache` | `TypeOK`, `ScopedAnswers`, `BoundedStaleness`, `StaleIsDropped` | 2 readers, 3 users, 2 tenants, Ttl 2, Slow 1, 1 new message per tenant | holds |
| `Window` | `TypeOK`, `OvershootBound`, `RejectionsJustified` | 4 requests, 2 instances, limit 2, window 3, latency 1, 6 ticks, 1 failing command | holds |
| `ClaimOverwritten` | `AssignmentIsKept` | 2 requests | violated |
| `ResolvedTwice` | `ResolvedOnce` | 2 requests | violated |
| `ResolvedNotNotified` | `ResolvedIsNotified` | 2 processes with a request each | violated |
| `SignOutUndone` | `SignOutSticks` | 3 requests, 1 account | violated |
| `WindowTwoInstances` | `WindowBound` | 2 requests, 2 instances, no failing command | violated |

Why the bounds suffice. In the core, three requests on one conversation give every pair of interfering
requests and a third one between their steps (claim, stale resolve, claim). Every property of the
core is about one conversation at a time and no request touches two, so a second conversation adds
nothing; with two tenants, the conversation may be of the requesting user's tenant or of the other
one. The proofs below remove the bounds. Three conversations with two on a page are a full page, one that is not, and an
empty one, with a conversation that appears in front of those already listed; with two tenants each may be of either,
and users of one tenant are enough to list them. Two jobs let a worker whose lock ran out go on while the other
worker takes the same job or another one. Each account property relates two requests and needs one
more that hands out the token they use, hence three; two accounts let one deactivate the other; two
tenants, names and slugs let two creations clash in the name, in the slug, in both or not at all. In
the cache, one reader stores late while another one stores or reads, and two ticks to live distinguish
an entry that ages from one that is renewed. Limit 2 with four requests fills a window, overshoots it, rejects, and
slides on; six ticks are two windows, and one
failing command meets requests whose own commands did not fail before and after it. In the platform, one process may die in any step of the other one's request or job.
`Attempts`, `MaxStalled`, `MaxMessages`, `MaxTime`, `MaxFailures`, `Ttl`, `Slow`, `Limit`, `Window` and `Latency` (`Limit` also as the
page size of the list) are the only numeric bounds; all but `MaxMessages`, `MaxTime` and `MaxFailures` are quantities of the code, which the
configurations make small.

### Where code and documentation disagree

- A resolve request overwrites a claim with the assignment it read before (`ClaimOverwritten`):
  the lost update the README's concurrency section says is prevented. What the code does keep is
  weaker and proved: a granted claim stands until the conversation is resolved.
- Two resolve requests both succeed and queue two e-mails (`ResolvedTwice`).
- A conversation can be resolved without its customer being notified (`ResolvedNotNotified`).
- A refresh in flight undoes a sign-out (`SignOutUndone`).
- The limiter is not atomic across instances (`WindowTwoInstances`). How far this goes is `OvershootBound`: of the
  requests whose own commands did not fail, one more in a window for each instance but the first, not one per request that races.

Also seen, without a run:

- With the schema TypeORM synchronizes from the entities (`NotNullFk = FALSE`, development only) a save
  computed from an older message list takes a resolution note from its conversation; with the migrated schema, which
  the runs and the proof of `NotesAreKept` assume, the second resolve request fails instead.
- Resolving does not invalidate the cached ranking, as README:334 and the comments at analytics.service.ts:46 and
  :122 say it does: `invalidateTenantCache` (:123) has no caller. What remains is `BoundedStaleness` and `StaleIsDropped`.
- A refresh token that was exchanged is still accepted: README:200 says it is invalidated, but `Matches` cannot
  tell it from the one that replaced it (jwt-refresh.strategy.ts:42). For the same reason a token from before a sign-out, which
  README:201 calls permanently invalid, is accepted again once the account has signed in again; it takes no race.
  `SignOutEndsSessions` says what is left of the claim.
- The limiter fails open: a request whose ZCARD failed is let through whatever the window holds
  (sliding-window-rate-limiter.middleware.ts:53), and one whose ZADD failed is never counted. Where ZREMRANGEBYSCORE failed, ZRANGE can find an
  entry that left the window long ago, and Retry-After is negative.
- Of two super admins who create a tenant of one name at once, the loser is answered 500, not the 409
  of the check (`InsertTenantRejected`).
- `WalkMissesNothing` and `PageMatchesTotal` are stated for lists that nothing leaves (`OnlyGrows`). On a list of the
  open or pending conversations, or of an agent, a claim or a resolution takes a conversation away, those
  behind it move up, and a client that turns the page misses one.
- A client that stops at the page the total promises to be the last, rather than at an empty one, can miss a conversation
  that was created meanwhile and pushed another over the end.
- Accounts without a tenant can share an e-mail address: the unique index does not compare NULLs, which
  is why `OneAccountPerEmail` is stated within a tenant.
- A client that waits for the limiter's Retry-After can be rejected again, because its rejected request
  was recorded.
- Bull 4's exponential backoff from 2 s waits 2 s and 6 s, not the 2, 4, 8 s of README:308, and three
  attempts have two waits.

## Fairness

Weak fairness on the steps of a request once it was received: Node runs the continuation of a settled
await. It is enough for row locks because PostgreSQL queues the waiters and each finite set of requests
competes only finitely often. In the queue: weak fairness on the worker's handler, on taking a job,
on the retry timer, on the periodic stalled check, and on the expiry of a lock whose holder no longer
runs the job (nobody renews it). In the cache: on the clock and on each reader's awaits. Nothing obliges a request to arrive, an await to
fail, a live worker to lose its lock, a process to crash or a transport to work.

## Proofs

Every invariant, action property and refinement of the passing runs is proved, for any value of
the constants the assumptions allow.

| Module | Theorems | From |
|---|---|---|
| `ConversationsProofs` | `TypeCorrect`, `SingleGrantHolds`, `GrantIsHonouredHolds`, `ClaimDecisionHolds`, `ResolvedIsFinalHolds`, `NotesAreKeptHolds` (assumes `NotNullFk`), `EffectsFollowResolutionHolds`, `TenantIsolationHolds`, `InductiveInvariant`, `LifecycleRefinement`, `TableRefinement` | `NoneAssumption`, `RoleAssumption`, `TenantAssumption`, `ReqAssumption`, `SchemaAssumption` |
| `ConversationListProofs` | `TypeCorrect`, `WalkIsComplete`, `TotalIsHonest`, `ListsStayInScope` | the first three above, `ListAssumption` |
| `ResolutionQueueProofs` | `QueueTypeCorrect`, `QueueInvHolds`, `DuplicatesNeedStallsHolds`, `SettledForAReasonHolds`, `OverlapNeedsStallHolds`, `QueueRefinement` | `QueueAssumption`, `WorkerAssumption` |
| `SupportPlatformProofs` | `PlatformImplementsConversations`, `PlatformImplementsQueue`, `PlatformLifecycle`, `PlatformTable`, `PlatformNotification`, `PlatformInvariants`, `AnswersAreDurableHolds` | those of the core and of the queue, `ServedByAssumption`, `JobAssumption` |
| `AccountsProofs` | `TypeCorrect`, `OneAccountPerEmailHolds`, `TenantsAreDistinctHolds`, `DeactivationIsFinalHolds`, `ClosedTenantAdmitsNobodyHolds`, `SignOutEndsSessionsHolds`, `DirectoryRefinement` | `NoneIsNothing` |
| `AnalyticsCacheProofs` | `TypeCorrect`, `ScopedAnswersHold`, `BoundedStalenessHolds` | the first three above, `CacheAssumption` |
| `SlidingWindowProofs` | `TypeCorrect`, `OvershootBoundHolds`, `RejectionsJustifiedHold`, `WindowBoundHolds` (assumes `OneInstance`) | `WindowAssumption` |

The assumptions say that constants are sets and numbers of the kind the code uses (`None` is no id, limits are positive,
sets of requests, workers or instances are finite, a request reaches Redis in less than a window) and, in `TenantAssumption`, that everybody but a super admin has a tenant: sign-up
refuses anyone else without one, and no handler writes the columns role and tenant again. TLC evaluates each of
them in the runs.

The core. `SingleGrant` alone is not inductive: a claim about to commit may find that another was
granted meanwhile. `ClaimInv` adds that a claiming request holds the row lock (`LockHeld`) and that its decision
is still valid: only claims and saves write the row, both wait for the lock, so nothing changes between the
check and the commit. `GrantIsHonoured` is what makes two grants collide: after a grant the row is
either resolved or the claimer's, and both make a later claim of another user fail. `EffectsInv` orders a
resolution's save before its note and job. `TenantInv` carries the lookup's result along the request,
and the tenant of the agent an entity holds in memory, which a stale save may write back. `HolderInv` is needed for the
refinements only: a row's agent is the abstract holder unless a resolution took it off (`AgentIsHolder`), the one in a resolve request's
memory is the holder or nobody (`EntityIsHolder`), so a stale save never replaces a holder by another user. The mapping takes as holder the user whose claim was granted, not the
column, which the stale save may clear. Each part is preserved one action at a time; `InductiveInvariant`,
`LifecycleRefinement` and `TableRefinement` combine them.

The list. A conversation's rank is the number of newer ones on the list; ranks are a bijection with `0..n-1`
(`RankIsBijection`), so an empty page has everything before it. The invariant says that what was there at the start
and is not listed yet has a rank behind the pages read: on a list that only grows, ranks only grow. It says
as well that the list is at least as long as the total counted. The list assumes of its environment what `TableRefinement`
proves of the core and `PlatformTable` of the platform.

The queue. `QueueInv` counts: the copies sent, the workers that may yet send one and the job's place in the
queue together are at most one more than its stalls (`CopiesArePaid`). A worker that takes a job turns its place into a
try, a transmission turns a try into a copy, only a stall makes a new place. A job that never stalled has one worker (`OneWorker`), which
is why its lock is enough to settle it. `QueueRefinement` maps each step to one of `Notification` or to a stutter.

The platform. A step of the composition is a step of each part or leaves it alone, the crash included, which is a `Fail` of
all requests of a process for the core and the loss of its worker for the queue. `PlatformImplementsQueue` carries
the queue's types along, for the crash of an idle worker to be a stutter. With these two, what is proved of the
parts holds of the whole: the lifecycle, the table, the notification and the invariants are one line each.
`AnswersAreDurable` is about both parts at once; `JobsAreAnswers` ties the jobs in Redis to the resolve requests that
were answered.

The accounts. `AccountsInv` has what a request's phase says of its account and of the tables (`Fits`), that the
requests it came after were answered (`Past`), that a request which came after a deactivation got nowhere (`Late`), that a stored token
was handed out (`Tokens`), and that the token stored after a sign-out, if any, is of a
request that had not been answered when the sign-out came in (`SessionsEnded`): a step stores no token but its own. A refresh that comes
in later is accepted only where a token is stored (`Renews`), which is why `SignOutEndsSessions` holds. The two uniqueness properties rest on the indexes alone,
not on the checks before them. `DirectoryRefinement` maps a step that writes a row or answers a request to one of `Directory`
and every other one to a stutter, one handler at a time; that a token is handed out once is that a request is answered once.

The cache. An entry's age and the time it has left sum to at most `Ttl + Slow` from the moment it is stored, and no
step but the clock changes either (`CacheInv`); what is cached under a key covers the tenants of that key.

The limiter. The lines of the connections share no request, and only the first of each has begun (`Fifo`). A request whose own
commands did not fail stays recorded until it is too old to count (`NoneLost`): the key lives for a window from its PEXPIRE
at least, since a later one only prolongs that and a failed one does nothing (`KeyLives`). A late pipeline may find the key
gone earlier relative to its own time, by up to `Latency`, which a late pipeline may find shorter by `Latency`, hence the shorter window of `LetThrough`. What ZCARD counts is less than a window older than the request,
also what another instance added in between (`Evicted`), so a count is no larger than the requests near it (`Justified`);
both are said of requests whose own eviction did not fail.
A count that did not fail misses only those that were counted and are not added yet (`Adding`), and these are each the first in line of another connection
(`OneAddingEach`): who passes by its count finds at most `Limit - 1` recorded and one fewer than the instances on their way, which bounds
those let through (`Bounded`). A command of another request that fails adds, counts or prolongs nothing and takes nothing away. With one instance nobody is on the way and the bound is the limit (`WindowBoundHolds`); with two
it is reached, and `WindowBound` fails (`WindowTwoInstances`).

Left to TLC: the liveness properties `RequestsFinish`, `EveryJobSettles`, `AnsweredIsNotified` and `StaleIsDropped`, which
need fairness and ENABLED.

## Not modelled

- The throttler: its counters are in the library, the repository only configures it.
- `TenantIsolationGuard`: applied to no controller.
- `checkSlidingWindowRateLimit` and `invalidateTenantCache` in the analytics service: no caller. The former is the
  limiter's algorithm over again.
- `getTenantStats`, `findBySlug` and the listings of users and tenants: single reads that nothing is done with but to answer.
- Validation pipes, filters, interceptors, logging, Swagger, headers, start-up (`main.ts`): no state.
- E-mail texts, message bodies, priorities, domains, SQL plans, and indexes other than the unique ones.
- The loss of Redis data: Redis and PostgreSQL survive the crashes of API processes and keep what they acknowledged.
- A `queue.add` that fails for its caller although Redis got the job: `Fail` is before it or after it as a whole.
- What Bull writes for a worker that lost its lock, such as the job's number of attempts: the library's own affair.
- A pipeline that ioredis sends twice (see `SlidingWindow`).
- The expiry of tokens (fewer requests succeed), and the connection pool (its exhaustion is a failing await).
- When a client gets through the limiter again: its rejected requests are recorded, so that depends on the client.
- The bulk inserts of the seeder: a script that runs alone. What it leaves are initial states.
