# TLA+ models of lynk

lynk is a Go backend in two services. The **gateway** (`services/gateway`)
terminates HTTP, limits rates, authenticates and translates to gRPC. The
**core** (`services/core`) is a modular monolith (identity, authorization, audit
and an example module) that runs as an API server and as a worker. The processes
share PostgreSQL, Redis and a NATS JetStream bus, and there may be several
replicas of each. Little of the code is long; what is hard about it is what
happens *between* its statements, when replicas, requests, messages, clocks and
failures interleave. That is what these modules model.

## Inventory

| Part | State | Operations | Hard because |
|---|---|---|---|
| Identity use cases (`modules/identity/application`) | users, refresh_tokens, otps, outbox rows; lockout counters and token blacklist in Redis | Register, Login, Refresh, Logout, ChangePassword, SetUserRole, the four one-time-code flows, the seeder | they read outside the transaction they later write in; READ COMMITTED; row locks; statements that ignore how many rows they touched |
| API keys (`api_key.go`, `adapters.go`) | api_keys row, positive cache and its index in Redis | Create, Validate, Revoke | a cache filled from a read that may be old |
| Outbox and relays (`outbox.go`, `outbox_publisher.go`, `outbox_relay.go`) | outbox rows, one transaction per relay | Publish, relayBatch | crash between publish, mark and commit; concurrent claims |
| Audit consumer (`audit/consumer.go`) | ledger rows, messages in hand | record | redelivery, lost acks, poison messages |
| Jobs and leases (`platform/jobs`, `platform/lock`, `platform/safe`) | lease key, run marker, ticker goroutines | Acquire, Release, runOnce, MarkOnce | leases that lapse under their holder, lost answers, panics |
| Circuit breaker (`platform/breaker`) | state, failure and probe counters, time of opening | Do, State | results that arrive in a later state |
| Read-through cache (`platform/cache`) | L1 per instance, L2 in Redis, flights | GetOrLoad, Invalidate | loads that overlap writes and invalidations |
| Policy cache (`modules/authz`) | policies, load time and refresh flag per instance | Decide, Refresh, UpsertPolicy | overlapping loads, background reload |
| Notes (`modules/example`) | notes and outbox rows | CreateNote, UpdateNote | optimistic locking together with the outbox |
| Rate limits (`edge/ratelimit.go`) | two atomics per gateway; counters in Redis | Global; allow (PerIP, PerEndpoint) | three atomic operations that are not one; clocks of several gateways |
| Token revocation (`edge/bloom.go`, `edge/auth.go`, `adapters.go`) | blacklist keys, pub/sub, a Bloom filter per gateway | Revoke, Subscribe, IsRevoked | messages lost while disconnected, restart with an empty filter |
| Login throttle (`adapters.go`, `login.go`) | a failure counter with an expiry in Redis | Allowed, RecordFailure, Reset | checked and counted in different steps of racing attempts |
| Middleware chain (`edge/middleware.go`, `auth.go`, `gzip.go`) | the request's headers and buffered response, a pool of gzip writers | one middleware after the other | `http.TimeoutHandler` runs the chain in a goroutine that may outlive the answer |
| Proxy (`edge/proxy.go`, `edge/forward.go`) | two pumps, two channels, the upstream call | route, forward frames both ways, report the outcome | four ends that come in any order |
| gRPC server and handlers (`platform/grpcserver`, `platform/auth`, `*/adapter`, `authz/handler.go`, `audit/handler.go`, `authz/checker.go`) | principal, request id and status of a call | dispatch, interceptors, guards, decision, error mapping | failure after the commit; callers that are gone |
| Process lifecycle (`bootstrap`, `platform/shutdown`) | open resources, registered hooks, work in flight | start-up, drain, exit | partial start-up, one budget for all hooks, work that outlives its resources |

How they interact: use cases write outbox rows in their transaction; relays
carry them to the stream; the audit consumer writes the ledger. Logout puts an
access token on the blacklist that the gateways consult. Jobs, relays and the
consumer are the runners of a worker process, requests are the work of an API
server, and the lifecycle opens and closes what all of them stand on. A request
comes in at the gateway's chain, crosses to the core service through the proxy
and runs one of the use cases there; the identity it runs under and the status
it ends with are the only things the two services exchange.

The circuit breaker and the read-through cache are library packages nothing else in the
repository uses yet; they are modelled because their concurrency is the hardest
of the platform packages and their documentation promises the most.

## Modules

| Module | Models | Extended or used by |
|---|---|---|
| `IdentityDB` | one account's rows, requests, transactions at READ COMMITTED, lockout and blacklist | `IdentitySessions`, `IdentityOTP` |
| `IdentitySessions`, `IdentityOTP` | the use cases, one action per SQL statement or Redis call | `Identity` |
| `Identity` | all of them interleaved; properties | `MCIdentity`, `IdentityProofs` |
| `JetStream` | the stream and its durable consumer (external, from how the code uses it) | `OutboxRelay`, `AuditConsumer` |
| `OutboxRelay`, `AuditConsumer` | relay transactions; the consumer callback | `EventPipeline` |
| `EventDelivery` | abstract: every committed event is recorded at least once | refined by `EventPipeline` (`WorkerProofs`) |
| `EventPipeline` | relays and consumers of all replicas around one stream | `MCWorker`, `WorkerProofs` |
| `NoteStore` | abstract: compare-and-set registers with an event log | refined by `Notes` |
| `Notes` | the transactions of CreateNote and UpdateNote | `MCStorage`, `StorageProofs` |
| `JobLease` | one job on all replicas | `MCWorker`, `WorkerProofs` |
| `Breaker` | the circuit breaker | `MCPlatform`, `BreakerProofs` |
| `ReadThroughCache` | `cache.Cache` for one key | `MCStorage`, `StorageProofs` |
| `PolicyCache` | the policy cache on every instance | `MCPlatform` |
| `ApiKeys` | one key, its owner and its cache entry | `MCRevocation`, `RevocationProofs` |
| `GlobalLimit`, `SlidingWindow` | the two kinds of rate limit | `MCRateLimits`, `RateLimitProofs` |
| `TokenRevocation` | blacklist, channel, filters, authentication | `MCRevocation`, `RevocationProofs` |
| `LoginThrottle` | attempts that race for one login counter, in time | `MCRateLimits`, `RateLimitProofs` |
| `Requests` | what both services know of a request | `Edge`, `CoreRPC` |
| `Edge` | the gateway's chain of middlewares, both goroutines of the timeout handler, routing and the outcome of a call | `RequestPath` |
| `CoreRPC` | dispatch, interceptors, guards, policy decision and error mapping of a unary call | `RequestPath` |
| `RpcContract` | abstract: what a client may conclude from an answer | refined by `RequestPath` |
| `RequestPath` | gateway and core service around one another | `MCRequestPath`, `RequestPathProofs` |
| `Forward` | the pumps and the select loop of one proxied call, frame by frame | `MCRequestPath`, `ProcessProofs` |
| `Lifecycle` | the life of gateway, API server and worker | `MCRequestPath`, `ProcessProofs` |

Conventions. An action is one statement, atomic operation or external call,
with everything it does; `pc` fields say which comes next. Failure is an
explicit action (`Fail`, `Crash`, `...Fails`), bounded by `MaxFaults` where it
could happen forever. A variable marked *history* is written and never read by
the actions, and exists to state a property. An operator commented *Mutant* is
a plausible mistake in the definition after it; it is used by no specification,
and shows that the property would notice.

Abstractions worth knowing. Requests of different accounts share no row, so
`Identity` keeps one account. Passwords are numbers: a new hash is the next one.
A policy set and a cached row are version numbers. Time is counted in ticks, or
is a step that may happen (expiry of a session, a code, a lease). Rows locked by
a transaction stay locked until it ends; a statement that needs one waits.

On the request path a request is what the chain reads of it (`RequestShapes`),
an identity is one value for the user, role and token type of a token, a policy
condition is the set of principals it holds for, and what a use case does is one
step, `Commit`: the modules of the services say what happens in it. `Edge` sees a
proxied call only by its outcome; `Forward` shows where that outcome comes from. The
rate limits and the blacklist may refuse any request they apply to; the modules
named after them say when they do.

## What the runs check

Passing runs:

| Run | Instance | Shows |
|---|---|---|
| `identity_core` | 3 requests, every operation, 4 sessions, 5 codes | `PasswordTrail`, `ParentRevoked`, `ResetCodeSingleUse`, `RoleWritesAnnounced`, `EarlierSessionsDie` |
| `identity_faults` | 2 requests, with expiry and Redis outages, fair | `RequestsFinish`: no lock is waited for forever |
| `request_path` | one call of 21 shapes, or two calls with compressed answers; a handler timeout below the write timeout; one proxied call of 2 frames each way; every process with 3 pieces of work; fair | `ActsAsTokenOwner`, `DenyOverrides`, `WritersUnshared`; `KeepsContract`: refinement of `RpcContract`; `EveryCallEnds`; `ProxiedOutcomeTrue`, `ProxiedPumpsEnd`; `LifeNeverCut`, `LifeAllReleased`, `LifeExits` |
| `platform` | 4 callers, threshold 3, 2 probes, every outcome; 2 instances and 2 goroutines around the policies; fair | `OpensOnRun`, `FullTimeout`, `BreakerRecovers`; `PolicyCatchesUp` |
| `worker` | 3 replicas, 2 faults, both failure modes, leases that cover the run and not; 2 relays, 2 workers, 2 events, a poison message, 1 fault; fair | `OneAtATime`, `LeaseHonoured`, `WorkOncePerPeriod`, `JobKeepsFiring`; `NothingLost`, `DuplicatesCostFaults`; `AtLeastOnce`: refinement of `EventDelivery` with its liveness |
| `storage` | 3 requests, 1 note, 2 faults; 2 instances and 2 callers of the cache, both tiers | `EventsInOrder`, `ImplementsStore`: refinement of `NoteStore`; `CacheStaleBounded` |
| `rate_limits` | ceiling 2 with 3 requests; limit 2, window 5, more than two windows, exact clocks; 2 racing logins, 3 failures, a lockout of 3 ticks, 1 fault; fair | `CeilingHolds`, `ResetsAccounted`, `GlobalKeepsAdmitting`; `SlidingBurstBounded`; `LoginGuessesBounded`, `LoginLockEnds` |
| `revocation` | 2 tokens that share a bit, 2 gateways, 1 fault; 2 clients of one API key, 2 owner changes, any faults, fair | `OnlyRevokedRejected`, `ToldMeansRejected`; `KeyOnlyLateStoresSurvive`, `KeyCacheConverges` |

`MCRequestPath`, `MCPlatform`, `MCWorker`, `MCStorage`, `MCRateLimits` and
`MCRevocation` put components into one run that share no state there, so that
interleaving them would only multiply states: a variable fixed in the initial
state (`part`) says which of them the behaviour exercises, the others stay as
they began, and the properties of a component that is instantiated are restated
under a prefix (`Proxied...`, `Life...`, `Key...` and so on).

Each instance is the smallest in which the interleaving in question can happen,
with one actor more where that is affordable: three requests allow one to be
overtaken by two others; a second relay, replica, gateway or instance is what
makes a claim, a lease, a message or a cache shared; where two faults are
allowed, one may strike during the recovery from another. `MaxCodes` and
`Sessions` are as large as the requests can use up, so they never disable an
action. The clock of `SlidingWindow` ends at `MaxTime`, after two window
boundaries; `MCRateLimits` lets it stutter there. In `MCRequestPath` requests
end and the process exits, so its runs do not check for deadlock; all others do.
Calls meet only in the pool of gzip writers, so that is the only thing two calls
are followed together for; `ManyShapes` has one request for every branch of the
chain, the guards and the interceptors. Two frames each way are the fewest in
which the first reply, which carries the headers, differs from a later one.

Four runs end in a violation. Each checks a sentence of the code's own comments
and shows an execution that contradicts it:

| Run | Sentence | What happens instead |
|---|---|---|
| `identity_rotation` | `refresh.go`: whoever uses the token second is thrown out (`SecondUserThrownOut`) | two refreshes that read before either commits both succeed |
| `revocation_bloom` | `bloom.go`: false negatives are impossible (`NoFalseNegatives`) | restart or a lost subscription |
| `edge_overrun` | `middleware.go`: a 503 on overrun (`OverrunAnswered`) | handler and write timeout both default to 30 s and the write deadline starts first: it has passed when the 503 is flushed, and the client sees the connection close |
| `edge_correlation` | `request_id.go`: every layer logs the same correlation id (`OneCorrelationId`) | the id the gateway mints is not put into the headers it forwards, so the core service mints another |

Other sentences the modules contradict. Those with a formula can be added to a
configuration to see the execution; no run is kept for them:

| Sentence | Formula | What happens instead |
|---|---|---|
| `change_password.go`: revokes every session | `PasswordChangeEndsSessions` | a login that verified the old password inserts its session afterwards |
| `domain/otp.go`: single-use code | `CodeSingleUse` | two verifications redeem one e-mail code |
| `identity.sql`: a new code supersedes older ones | `NewerSupersedes` | consuming the newer one makes the older one valid |
| `02-architecture.md`: event in the same transaction | `ResetRequestsAnnounced` | a reset request that fails half way leaves a code without its event |
| `adapters.go`, `06-security.md`: the lockout window starts on the first failure | | every failure renews it (`Renewed`), and must: with the window of the comment `GuessesBounded` fails, which is its mutant |
| `breaker.go`: HalfOpenMax caps concurrent probes | `ProbesCapped` | a reopening forgets the probe that is still running |
| `breaker.go`: probes periodically | `ProbesPeriodically` | probes that panic keep their slots (the exception in `Recovers`) |
| `breaker.go`: closes once a probe succeeds | | a cancelled probe closes it too (`recordSuccess`) |
| `07-operations.md`: relay each event once | `RelayedOnce` | publish, then crash before commit, then publish again |
| `jobs.go`: fire once cluster-wide | `FiresOnce` | two replicas run one after the other in one period |
| `api_key.go`: revocation takes effect immediately | | a late store revives the entry (the exception in `OnlyLateStoresSurvive`) |
| `authz/handler.go`: refreshes the local cache immediately | | an older load may be installed over it (`RefreshInstall`) |
| `checker.go`: reaches the others within the window | | the decision that notices staleness still uses the old set (`Decide`) |
| `ratelimit.go`: exactly one goroutine wins | `OneWinnerPerSecond` | a stale clock reading moves the window back (the same comment accepts a "brief reset race") |
| `ratelimit.go`: no 2x burst at the boundary | `NoDoubleBurst`, on `SlidingWindow` itself with `Lag` 1 | gateways with different clocks count into different windows |
| `cache.go`: L2TTL bounds staleness | `StaleWithinL2TTL` | an old L2 entry gets a full L1 lifetime |
| `cache.go`: one miss loads once | | L1 is not looked at again inside singleflight (`Do`) |
| `07-operations.md`: drains in flight work | `RunnersDrain` | the worker does not wait for its runners |
| `shutdown.go`: cannot hang forever | `NeverHangs` | pool Close waits without limit for runners nobody cancelled (the exception in `Exits`) |
| `nats.go`: queued publishes and acks finish | `BusDrainedFirst` | Drain is asynchronous |

## Fairness

Every `FairSpec` asks only for what the Go scheduler, PostgreSQL, Redis and the
broker give: a goroutine that began is scheduled again, a free row lock is
granted, keys with a TTL expire, clocks advance, unacknowledged messages are
redelivered. Nothing obliges a request to begin or a fault to happen. Three
specifications need the environment's cooperation and say so: the breaker and
the global limiter assume that callers keep calling, and the policy cache that
every instance keeps being asked for decisions (strong fairness, because a
decision meets the cache in a stale state again and again rather than
continuously). On the request path time passes, the goroutine that waits takes
what is ready, and middlewares return; the timer of the timeout handler is not
late and writing a small response takes no time. The core service owes nothing while the
context of its handler lives, since a handler may hang on a lock or a query, and
returns once the context has ended. In `Forward` goroutines that can run do,
while client and upstream owe nothing. In `LoginThrottle` time passes and an
attempt that began ends. `Lifecycle` does not assume that work finishes: only that work
whose context is cancelled notices.

## Proofs

TLAPS proves the following for every value of the constants that satisfies the
assumptions of the modules: `IdentityAssumption`, `InitAssumption`,
`BreakerAssumption`, `JobAssumption`, `LimitAssumption`, `RevocationAssumption`,
`NotesAssumption`, `RequestAssumption`, `EdgeAssumption`, `CoreAssumption`, and for
the components that an MC module instantiates `PipelineAssumption`,
`CacheAssumption`, `SlidingAssumption`, `ThrottleAssumption`, `KeyAssumption` and
`LifeAssumption` there. They say that bounds are natural numbers (a batch, a
window, a lockout and the number of failures positive), that the special values
are not members of the sets, and that there are finitely many workers and login
attempts where they are counted. The bounds of the runs are constants like the
others, so a theorem holds for any of them. A theorem about a component that an MC
module instantiates is about the component's own specification
(`Pipeline!Spec`, `Cache!Spec`, `Sliding!Spec`, `Throttle!Spec`, `ApiKey!Spec`,
`Proxied!Spec`, `Life!Spec`).

* `IdentityProofs`: `TypeOK`, `ParentRevoked`, `ResetCodeSingleUse`,
  `PasswordTrail`, `RoleWritesAnnounced`, `EarlierSessionsDie`. None is inductive.
  `IInv` adds, for
  each request, where it can be and what it has loaded and buffered there
  (`ControlOf`, `LoadedOf`, `BufferedOf`); that the session it rotates is
  revoked, or will be by its transaction (`RotationOf`); that an aggregate whose
  version is current has the current password and role, and a buffered row is one
  version ahead (`OptimisticOf`); that a reset whose code somebody else consumed
  holds an outdated version (`RedeemingOf`, the reason why `Consume` may ignore
  its row count); and that no two transactions hold the users row (`Locks`).
  `LocalStep`, `TxStep`, `SessionsStep` and `CodesStep` show once what a step of
  one request leaves alone in the others; each action cites one of them.
  `EarlierSessionsDie` needs `Swept` on top: the sessions a password operation
  remembers from its beginning are, while its `RevokeAll` waits for row locks,
  among the rows it scanned or revoked by somebody else, and after it among the
  rows it will revoke or revoked. It rests on `Remembered`: an issued session
  stays issued, and a revoked one stays revoked. Every step is either one of the
  few that `Moves` describes, which leaves the sweep alone, or `RevokeAll`.
* `BreakerProofs`: `OpensOnRun` and `FullTimeout`, from
  `failures = run` while closed and the relation of the stamp to the time waited.
* `WorkerProofs`, jobs: `LeaseHonoured`, `OneAtATime` and `WorkOncePerPeriod`, from
  ownership of the key by every lease that has not lapsed.
* `WorkerProofs`, events: `NothingLost`, `DuplicatesCostFaults`, and that the
  pipeline implements `EventDelivery!Safety`, for any relays, workers, events,
  poison messages and faults. `FlowInv` says that a claimed row is pending and in
  one relay's hands (`Locked`); that a row published, committed or not, has a copy on
  the stream and a copy only comes from a row that was written (`Stored`); that
  what a worker acknowledges, and what is settled, is in the ledger (`Handled`,
  `Recorded`). The last part, `Budget`, counts the entries an event has together
  with those still to come without a further fault: one for a row nobody has
  published, one for each copy that will be handed out, one for each worker about
  to record. Their sum never exceeds one more than the faults so far. Without
  faults a step only moves an entry from one place to the next; each fault may
  create one. The refinement has two kinds of steps that are not stutters, the
  commit of a row and the insert into the ledger.
* `RateLimitProofs`: `CeilingHolds` and `ResetsAccounted`, strengthened by
  "while the window is not the current second every fresh reset is paid for by
  a late one". `SlidingBurstBounded`, for `Lag = 0` (gateways whose clocks agree;
  with `Lag` 1 it is false), strengthened by what the counters of this
  window and the last one say about the requests that passed since any tick
  (`ThisWindow`, `LastWindow`) and by keys outliving the next window (`Alive`);
  the rest is arithmetic with quotients, in lemmas of its own.
  `LoginGuessesBounded`, from two counts for every age: wrong guesses are counted,
  about to be counted, or met a fault (`Counted`, where those younger than the last
  count need no room in the counter, so that the key may expire); and together with
  the attempts that have passed the check they respect the bound (`Allowance`).
* `RevocationProofs`: `OnlyRevokedRejected` and `ToldMeansRejected`, from
  "the Redis key outlives the token" and "what was heard is in the filter".
  `KeyOnlyLateStoresSurvive`, from "the two keys of an entry are set and deleted
  together" (`Indexed`), and that a call is never rejected while its key is valid
  (`KeyValidAccepted`).
* `RequestPathProofs`: `TypeOK`, `ActsAsTokenOwner`, `WritersUnshared`,
  `DenyOverrides` and
  `Spec => KeepsContract`, the refinement of `RpcContract`, for any requests,
  principals, rule sets and timeouts. `IInv` says how far the two goroutines of
  the gateway and the core service can be from one another: the core service
  knows of a call only once the proxy has it (`Progress`); that the effect
  happens with the commit, and that a result which is OK or a refusal is true of
  it (`Effects`); that the same holds of the buffered, the picked and the sent
  response, where a refusal also means that the effect can no longer come
  (`Told`); and that from the authenticator on a call carries the identity of its
  token (`Identified`). The refinement then has two kinds of steps that are not
  stutters, the commit and the end of an answer. `DenyOverrides` rests on
  `DecideMeans`, what the decision loop returns for any list of rules: by the
  least rule after which the loop has another result than claimed.
* `ProcessProofs`, the proxy: `OutcomeTrue`, for any number of frames. Strengthened by the
  order in which the pump to the client takes and gives frames and headers
  (`Frame`), the reason a pump had for its error (`Reasons`), that a channel holds
  its own pump's error, once (`Channels`), that a reported end stays true
  (`Reported`), and that the loop goes round again only after the half-close
  (`Turns`): the last one is why it never falls through.
* `ProcessProofs`, the lifecycle: `LifeNeverCut` and `LifeAllReleased`, for any
  number of requests. The hooks are those of a first stretch of the boot, and what
  is open has one (`InHooks`, `Hooked`), so that running them all leaves nothing
  open. Within the budget, while a request is under way, the hook of the listener
  has not returned, and what requests stand on comes before it in the boot
  (`Unhurt`).
* `StorageProofs`: `Spec => ImplementsStore`, the refinement of `NoteStore`: only
  `Commit` changes the abstract state, and at that moment the lock holder's read
  is still the row's version. `EventsInOrder` needs the same fact and no more.
  `CacheStaleBounded`, from the time a value has been outdated and the lifetime its
  entry has left, which together never grow in an entry (`L2Fresh`, `L1Fresh`),
  and from the age of the flight that carries it (`FlightFresh`).

Every invariant was checked by TLC before it was proved. With these theorems every
safety property of the passing runs, invariant, action property or refinement, is
proved, and the run shows it on an instance. What stays with TLC is liveness, because
TLAPS reasons neither about fairness nor `ENABLED`: `RequestsFinish`,
`EveryCallEnds`, `ProxiedPumpsEnd`, `LifeExits`, `BreakerRecovers`,
`PolicyCatchesUp`, `JobKeepsFiring`, `GlobalKeepsAdmitting`, `LoginLockEnds`,
`KeyCacheConverges`, and the half of `AtLeastOnce` that says that a committed event is
recorded in the end.

Some definitions have the form they have so that they can be reasoned about. The
histories `since` (`SlidingWindow`) and `recent` (`LoginThrottle`) hold running
sums instead of single counts to be added up; `EventsInOrder` speaks of positions in
the outbox instead of a filtered sequence; the loop of `Decide` is a recursive
function of the number of rules it has seen, with the early return on a denial as a
value that stays.

## Not modelled

On the request path: response headers and cookies (`SecurityHeaders`, the CSRF
cookie), CORS headers beyond the preflight, body limits beyond "the body breaks
off", TLS, a panic inside the goroutine grpc starts for a bridged call
(`Recovery` does not see it), and native gRPC clients of either service. No
service of the repository streams, so the stream interceptors never run.

Health probes, configuration, logging and telemetry have no state that outlives
a call. Signatures and password hashing are computations; the models use only
that different inputs give different results. PostgreSQL, Redis and NATS are
modelled as the code uses them, and connecting to them not at all. Of the
generated code the SQL statements and the service descriptors are modelled, the
protobuf messages are not, nor are the frontend and the load tests. CEL
evaluation is replaced by its result.

## Plan

1. Done: identity, event pipeline, jobs, breaker, notes, caches, limits,
   revocation and lifecycle; then the request path through both services, the
   proxy, the policy decision and the login throttle.
2. Done: proofs of the safety properties of all passing runs, and of the safety
   half of the three refinements.
3. Left: safety facts that the liveness runs rest on, such as the order of row
   locks behind `RequestsFinish`, as invariants of their own; a safety statement about
   which version `PolicyCache` may decide with.
