# base-api in TLA+

Specifications of the parts of base-api whose correctness depends on the order in which things
happen: the asynchronous audit writer, the rate limiter, the notes service and its cursor
pagination, the weather client and the instrumented transport under it, the middleware chains of
both servers, readiness, the life of the process with all of these inside it, and the start
against a database that other replicas migrate. TLC checks every module on small instances. Every
invariant, action property and refinement that the passing runs check also has a proof, for every value of
the constants, that TLAPS checks; liveness is left to TLC.

Run a model with `tlc -config AsyncAudit.cfg AsyncAudit.tla`, a proof with
`tlapm AsyncAuditProofs.tla`. `PROJECT.json` names, for each run, its module and properties, and
for each definition the source lines it stands for.

## 1. Inventory

base-api is one Go process with two HTTP servers (public and infra), a PostgreSQL database and
an optional Valkey. Several replicas share the database and Valkey.

| component | state it keeps | operations | what is hard about it |
|---|---|---|---|
| Asynchronous audit (`internal/asyncaudit`, used by `requestaudit` and `outboundaudit`) | a bounded channel, a read-write mutex with `closed`, the stop channel, a depth gauge, a counter per result | `Store`, `runWorker`, `Close` | senders, worker and closer race; a send on a closed channel panics; records must be accounted for at shutdown |
| Rate limiter (`internal/ratelimit`, `middleware/rate_limit.go`) | one hash with an expiry per bucket, in Valkey | `Allow`, the Lua script, the middleware | several clocks, a timeout that races the answer, rounding, expiry |
| Notes (`internal/notes`) | the `notes` table | create, update, delete, list | read-modify-write without a transaction around a slow lookup; pages of a table that changes |
| Weather client (`internal/clients/weather`) | nothing between calls | `GetCurrent`: two exchanges under one deadline, each of which may be redirected | what a deadline or a broken body becomes at each point |
| Instrumented HTTP client (`internal/httpclient`) | in-flight gauge, audit records | `RoundTrip`, the audited body | end, failure and close of a body in any order, one record per round trip, several round trips when redirects are followed |
| Request pipeline (`internal/publicapi`, `internal/infraapi/handler.go`, `internal/middleware`, `internal/httpcapture`) | metrics, audit records and log lines; the observed status | the layers from `Recovery` to the application | early answers and panics cross every layer |
| Process lifecycle (`internal/server`) | the cleanup stack, listeners, the results channel | `Run`, `ShutdownServers`, `CleanupStack.Run` | failures and signals at every point, handlers that outlast the shutdown |
| Database startup (`internal/postgres`) | the pool, goose's version table and session lock | `SetupRuntime`, `Migrate` | replicas race, crash and lose answers in the middle of a migration; backoff |
| Readiness and infra API (`internal/infraapi`) | none | `readyz`, `healthz`, metrics | checks in sequence under one timeout, of dependencies that come and go, or are being released |
| Client IP resolver (`internal/clientip/resolver.go`) | a result per request, so as not to compute it twice | resolve | nothing: a pure function of the request |
| Configuration, Valkey client, API errors, telemetry, logging, docs UI, generated code, scripts | set-up or none | | sequential, or third-party |

Interactions. A request passes the pipeline, where the rate limiter may refuse it, reaches the
notes service, which calls the weather client, whose exchanges go through the instrumented
transport. Request audit (in the pipeline) and outbound audit (in the transport) each hand a
record to an asynchronous audit repository of their own; its worker writes to the database.
`server.Run` builds all of these on its way up (the database through the startup module) and
takes them down in the opposite order: servers, rate limiter, audit repositories, database,
tracing. The probes of the infra server ping the same pool and the same Valkey client, which may
be on their way down.

The properties that make each component correct are listed under the modules below. The hazards
they are aimed at are in `PROJECT.json`, each at its line; a hazard that no property covers says
there why.

## 2. Modules

| module | models | composes or implements |
|---|---|---|
| `AsyncAudit` | `asyncaudit.Repository` | implements `AuditQueue` |
| `AuditQueue` | what the repository promises | |
| `RateLimit` | middleware, `ValkeyStore.Allow`, Lua script, replicas' clocks | implements `TokenBucket` |
| `TokenBucket` | the ideal bucket | |
| `Notes` | create, update, delete | the lookup is one step here; `WeatherLookup` details it |
| `NotesPagination` | `ListNotes` and the page query | |
| `WeatherLookup` | `GetCurrent` together with the instrumented transport | |
| `RequestPipeline` | the layers of `publicapi.NewHandler` and of the infra server's handler | the limiter's verdict is a choice here; `RateLimit` details it |
| `ServerLifecycle` | `server.Run` | database and audit shutdown are one step each; `DatabaseStartup` and `AsyncAudit` detail them |
| `Readiness` | `GetReadyz` and its checkers | |
| `Process` | the whole process | composes `ServerLifecycle`, two instances of `AuditQueue` and `Readiness`; implements `ServerLifecycle` |
| `DatabaseStartup` | `SetupRuntime`, `Migrate` in several replicas | |
| `MC...` | instances: symmetry, sets of keys, replicas | |
| `...Proofs` | theorems about the module they are named for (section 5) | `ProcessProofs` holds those of `ServerLifecycle`, too, and builds on them |

An operator called a mutant in its comment is a plausible bug: putting it in place of the
definition that follows it must make a property fail, which shows that the property depends on
that definition. Mutants are part of no specification.

### AsyncAudit

Every record is stored by a goroutine of its own (`pc`), one worker writes (`worker`, `job`), one
goroutine closes (`closer`). An action is one operation on the lock, the channel, a counter or
the gauge, so that every interleaving Go permits at that grain is a behaviour. `writer` and the
set `Readers` are the two sides of the `sync.RWMutex`, and a waiting writer holds off new readers
as Go's does. The gauge is set in two steps, because the code reads `len(queue)` and sets it in
two. `WorkerWrite` stands for `params.Store` under its write timeout: it ends in success or
failure. `accepted` and `lateWrites` are history.

`NoSendOnClosedQueue`, `AtMostOneFate`, `NoRecordLost` (which includes that nothing moves any more when
Close has returned), `OneLateWrite` and `DepthZeroAfterShutdown` are the safety of storing and shutting down;
`CloseReturns`, `AcceptedIsSettled` and `StoreReturns` the liveness. The depth gauge may be stale while the
repository is open: its length is read in one step and published in another. After Close it is 0, except that a Store
which found the queue full publishes its reading without the lock and may come last; the property names that case.

`ImplementsAuditQueue` says that a client sees `AuditQueue`: records get exactly one outcome, in order of acceptance,
and none is given up before the close. The mapping takes the accepted records without those still in the channel
or in the worker's hand as those with an outcome.

### RateLimit

Time is discrete; the clock of replica `p` is `time + Skew[p]`, Valkey's own is `time`. `Allow` stamps
the request and sends it, `Execute` runs the script atomically at some later time (at most
`MaxDelay` ticks later), `Lose` loses it, `Answer` and `Fail` end the middleware's call; `Execute` may come
after `Fail`. The script's fractions become integers by counting tokens in units of
`1/Cost`; rounding up (`CeilDiv`) stays where the script has it. `MinTTL`, the cap and the retry-after
are modelled because the properties tell them apart. `WithinQuota` is the quota of the RateLimit-Policy header, asked of
every stretch of time up to the present and not only of the one since the start: a burst, then the refill.

### Notes and NotesPagination

In `Notes` a handler reads the row, may look up the weather and writes the whole row in three
separate steps, as the service does without a transaction. A statement that fails has no effect;
one whose answer is lost has one and is reported as 500. A note's weather is represented by the
location it was looked up for, so that `WeatherMatchesLocation` relates two columns written by
requests that overlap. `NotesPagination` is one client's walk over pages while notes appear, also with a
`created_at` older than the cursor (`NOW()` is the start of the transaction), and disappear. Keys are
pairs `[created, id]`, compared as the query's row comparison does.

### WeatherLookup

`pc` follows one lookup through the round trips, decoding, draining and closing of two exchanges. An exchange is
one `Do` of net/http's client. That client has no redirect policy of its own (`httpclient/client.go:75`), so it follows redirects: each of
its `requests` makes a round trip through the instrumented transport, with an audit record and a place in the gauge of its
own. Of a redirect's body `Do` reads some (`slurp`, at most `SlurpLimit` chunks and ignoring errors), closes it and sends the next
request (`FollowRedirect`), unless this was the last of `MaxRequests` or the Location cannot be used. Status 302 stands for a redirect with a
Location, 500 for everything else that is not 200.

A response has a status, a length in chunks and whether the length was announced; each chunk is a
step, so a deadline or failure may come between any two. `once` is the body's `sync.Once`. `Tick` lets a
pending lookup whose deadline has passed take its next step first: Go's timers are prompt on this
time scale. An audit record keeps the exchange it is part of, the status and the kind of error; a cancelled caller is
one of the transport errors.

The record keeps at most `CaptureLimit` chunks of the response body and whether they are marked as
truncated (`CaptureTruncated`). `TruncationIsMarked` says that an unmarked capture is the whole body; a
body of unannounced length that breaks before its first byte is the named exception, since nothing tells
the transport that there was more. `FinalizedOnce` says that the records of a lookup are those of its requests, one each and in order, and `AuditAgreesWithOutcome` relates them to the
result `GetCurrent` returns: the last one tells why, the geocoding before a forecast ended well, and every other is a redirect.

### RequestPipeline

`FullChain` lists the layers in the order of `NewHandler`; `Present` is the set of those that the server and its
configuration have. All sixteen configurations of the public server and the two of the infra server,
whose chain is a part of the same list (`InfraChain`), are initial states. A request moves in, out or, after a panic, unwinds; `LeaveLayer` is the code after
`next.ServeHTTP`, `Unwind` the deferred code only. `observed` is the observing writer's status, `sent` that of
net/http.
`CountRequest`, `AuditRequest` and `LogRequest` are what the three recording layers do on the way out; a panic skips
them. How a record is built and redacted is abstracted to the status it holds; `RecordsAgree` is about the record handed to `StoreRequestAudit`. What
becomes of it there is the subject of `AsyncAudit`: the middleware only logs an error (`request_audit.go:98`).

### ServerLifecycle

`Run` is a sequence of actions from set-up to exit with each failure branch; `CleanUp` runs one
function of the stack per step, and the deferred second run finds `once` used. Servers serve in
goroutines and send their result to the channel; handlers run, query the database, end or do not
end. The infra and public listeners, the select between a signal and a failing server, and the
shutdown timeout are all choices.

A goroutine that serves is `starting` until it has called `Serve`. `Shutdown` closes only listeners it knows of, those of servers that
have called it; a server that comes late finds itself shut down and closes its own. After a signal `Run` waits for
every result, so that these listeners are closed too; when a server fails, or the shutdown times out, `Run` does not wait, and
`ReleasedOnce` names the listener that the exit of the process closes instead.

### Readiness and Process

`Readiness` is a probe: the checks it runs in turn, each against what is reachable at that step, and its answer, which may also be
the timeout at any check. `seen` is history: which required dependencies were reachable at some time since the probe
began. `ReadyIsEarned` claims no more than that, since an early success may be stale when the last check ends.

`Process` puts the parts together. Its state is that of `ServerLifecycle`, two audit queues as `AuditQueue` promises
them (`AsyncAuditProofs` shows that the repository keeps the promise) and the probes.

* The cleanup function of a repository is its `Close`: it begins in one step, the worker resolves the records it holds in others, and the
  stack goes on when the close has ended.
* A public handler may call the provider, which stores a record in the outbound queue, and stores one in the request queue as it ends
  (`CallProvider`, `EndRequest`), also when it has outlasted the shutdown and the queue is closed. A panicking handler leaves no
  record; that is `RequestPipeline`'s subject.
* A probe is a handler, too, so that the servers wait for it. What it can reach is what is up and not yet released; a
  pool that is being closed gives no connection. Which backends are up is chosen as a probe begins and may change while one runs
  (`Fluctuate`); it is forgotten with the answer because nobody looks in between.
* `required` is fixed during set-up: the database, and the limiter's backend unless the limiter is off or fails open.

`WritesFindThePool` (when the pool is being closed every record in either queue has been settled), `InTimeIsAudited` (a request that ends
while the servers wait is not refused by a closed queue) and `ReadyIsEarned` are properties of the composition that none of its parts
can state.

### DatabaseStartup

Each replica loops over attempts: open (and ping), look for missing migrations (`HasPending`: goose does so before it takes
the lock, and is done when there are none), lock, one migration per step, unlock, finalize;
every step may fail with an error that can be retried or not, and a commit may succeed while its
answer is lost. `pending` is the set of migrations that were missing when the replica looked, under the lock. A crash releases the session lock and the pools of the replica. Delays are computed in
wrapping arithmetic of `2 * DurationRange` values, so that the overflow the code guards against exists.

## 3. Runs

| run | config | instance | shows |
|---|---|---|---|
| `audit` | `AsyncAudit.cfg` | 3 records, capacity 1 | safety and liveness of storing, writing and closing in every interleaving: the queue fills, overflows and drains; `AuditQueue` is implemented |
| `rate_limit` | `RateLimit.cfg` | 5 requests, one of them exempt, one replica, burst 2, refill 2 and cost 3 (so both roundings matter), 7 ticks, one clock | the quota in every stretch of time, the retry-after delay, service on consent only, `TokenBucket` is implemented |
| `rate_limit_skewed_clocks` | `RateLimitSkewedClocks.cfg` | 5 requests over two replicas, skew 2 | finding 1 |
| `notes` | `Notes.cfg` | 3 clients, 2 ids, 2 locations | weather and location agree, deletes are final |
| `notes_lost_update` | `NotesLostUpdate.cfg` | 2 clients, 1 note | finding 2 |
| `pages` | `NotesPagination.cfg` | 5 keys with two ties, pages of 2 | sorted, no repeat, nothing skipped |
| `lookup` | `WeatherLookup.cfg` | 1 lookup, timeout 2, 2 requests per exchange, bodies of up to 3 chunks, read limit 2, capture and slurp limit 1 | one record per round trip, exact gauge, records that agree with the outcome and mark what they lack, every lookup ends |
| `lookup_timeout_status` | `WeatherLookupTimeoutStatus.cfg` | 1 lookup, 1 chunk | finding 3 |
| `pipeline` | `RequestPipeline.cfg` | 2 requests, all configurations of both servers, limiter fails closed | the gauge is exact, the records agree with the client; rejections are final and counted |
| `pipeline_panics` | `RequestPipelinePanics.cfg` | 1 request | findings 4, 5 and 6 |
| `lifecycle` | `Process.cfg` | 1 public handler, 1 probe | order and uniqueness of release, empty queues before the pool goes, requests in time audited, reported failures, earned readiness, exit after a signal |
| `startup` | `DatabaseStartup.cfg` | 2 replicas of two releases, 5 attempts, 1 crash | migrations once and in order, pools, locks, delays, startup ends |

Why these bounds are enough to meet the cases. `AsyncAudit`: the worker holds one record, the channel one, and a third
finds the channel full, while Close runs at any point. `RateLimit`: in 7 ticks the bucket empties, refills in part, refills
wholly and its key expires; calls and answers may be lost, and a script may run after the middleware has given up
on it in the same tick (`MaxDelay` is 0: with a longer delay an older stamp reaches the bucket after a newer one, which has the effect of skewed
clocks, finding 1, so that `WithinQuota` fails with one clock too). `NotesPagination`:
five keys and pages of two give three pages, the last one short, with a tie inside and across
pages. `WeatherLookup`: three chunks exceed each of the limits, two requests make a redirect that is followed and one that is
one too many, in either exchange, and two ticks of time are enough for the deadline to pass before, between and inside the bodies. Lookups share
nothing but the gauge, an atomic counter, so that the run has one; the theorems hold for any number of them. `RequestPipeline`: the layers keep no state across requests but the counters, for which two
suffice. `Process`: one public handler may hold a connection, wait for the provider or outlast the timeout, and has a record in each
queue; one probe may run at any point of it and serves again and again. A handler stores one outbound record at most, and whether a
write of a record succeeds is `AsyncAudit`'s subject: the queues resolve a record as written or dropped. More handlers only add to the
number of records, and the proofs hold for any number of handlers and probes.
`DatabaseStartup`: with an initial delay of 3, a maximum of 13 and a range of 14 the delays of five attempts, the code's default, are
3, 6, 12 and 13. The last is capped by the guard (`runtime.go:198`), without which doubling 12 wraps to a negative delay (`RetryDelayUnguarded`); the older release has one migration, the newer two, and both migrate. A replica with
`DB_MIGRATE_ON_STARTUP` off can be written (`Migrating`) but is in no run.

Bounds of the models: `MaxTime` and `MaxDelay` (RateLimit), `MaxLength` (WeatherLookup; `MaxRequests` and `SlurpLimit` are net/http's limits made small), `MaxCrashes`
(DatabaseStartup), and the finite sets of records, requests, keys, clients and ids. Deadlock checking is
off only in `NotesPagination`, where a table whose keys are all used may legitimately come to rest.
Symmetry is used only in `rate_limit`, among the requests that are not exempt, and there is no
liveness in that run.

## 4. Fairness

Each liveness property is checked under fairness its module states, weak everywhere.

* `AsyncAudit!FairSpec`: goroutines that have begun `Store` or `Close` are scheduled. Nobody has to call either. The worker is
  given no fairness there, so that `StoreReturns` holds with a database that never answers; `CloseReturns` and
  `AcceptedIsSettled` take `WorkerFairness` as a premise: the goroutine is scheduled and its write ends, because
  `params.Store` gets a context with the write timeout.
* `WeatherLookup!FairSpec`: time passes; an operation pending at the deadline fails; the client's own steps are taken. The provider
  owes nothing.
* `Process!ProcessFairSpec`: the goroutines of `Run`, of the servers and of the audit workers (whose writes have a timeout) are not all
  held up for ever (`Progress`, one fairness condition on their union, is enough because each of them takes finitely many steps:
  `ProgressIsBounded` of section 5), and a
  database query ends, because closing the pool waits for the connections in use. A handler need not end: `ShutdownServers` has its
  timeout; a probe need not end either. Without the composition the same is `ServerLifecycle!FairSpec`.
* `DatabaseStartup!FairSpec`: each operation of an attempt runs under a timeout and therefore ends, in success or failure: the migrations and
  the wait for the lock under `DB_MIGRATE_TIMEOUT`, which must be positive, the ping under `DB_CONNECT_TIMEOUT`. The default of the latter is five seconds; 0 is
  accepted, too (`config/load.go:417`), and leaves the ping without a timeout of its own (`postgres/pool.go:30`), a setting that `StartupEnds` does not cover. The
  lock need never be free. A crashed replica need not restart.

`RateLimit`, `Notes`, `NotesPagination` and `RequestPipeline` have no liveness property and no fairness.

## 5. Proofs

Each theorem holds for every value of the constants that satisfies the `ASSUME`s of its module, which TLC evaluates on the runs. Every
invariant, action property and refinement that the passing runs check is proved; what the theorems assume beyond that is named below. The type
invariants of `AsyncAudit`, `Notes`, `ServerLifecycle` and `Process` are proved and are in no run. None of the target properties is inductive alone;
what had to be added is the content of the proofs.

The `...IsBounded` theorems are what the prover can say of termination: a natural number that every step of the goroutine in question makes
smaller, and what may make it larger. They hold for any instance and say that nobody goes round for ever; that nobody waits for ever either is what TLC
adds, on its instances and under fairness. Three waits are settled for any instance, too: whoever is waited for has yet to act (`WaitsEnd`,
`ResultsArrive`, `ClosesOnce`).

**`AsyncAuditProofs`** (any finite set of records, any positive capacity). The inductive invariant is

    TypeOK /\ LockInv /\ StopInv /\ CountInv /\ QueueInv

`LockInv` ties the phases of Close to the two sides of the mutex (while the writer holds it nobody reads, and a reader that has
seen `closed` unset proves that the channel is open); `StopInv` ties the stop signal to the phases of Close and allows one late
write only to a worker that has not looked at the signal since; `CountInv` gives, for each place a record can be (its
goroutine's pc, the channel, the worker's hand), exactly the results counted so far; `QueueInv` says where an
accepted record can be, that none is twice in the channel, and that a worker that is done leaves it empty. `NoRecordLost`, for
one, speaks only of the state after Close and follows from what `CountInv` says at every step before it.
`DepthIsZeroAfterShutdown` needs, besides, where the gauge can get an old value from after the worker has left: only a Store
that found the queue full still sets it without the lock, and its result is counted by then (`LateSetterCounted`).

`AsyncAuditImplementsAuditQueue` maps the accepted records without those in the channel or the worker's hand to those with an
outcome. `SeenInv` says that each of these has exactly one result counted that is an outcome, so that the outcomes can be read off the counters;
`GaveUpInv` that after giving up one record the worker only gives up others. Then each step of the worker resolves the next record or is not seen, and
`BeginClose` and `EndClose` are the closing of the stop channel and the return of `Close`.

`ShutdownIsBounded` counts what the worker and Close have still to do (`WorkLeft`: six steps for each record in the channel, and the rest of
the round): each of their steps takes from it, and only a Store whose record the channel takes adds to it, which none does once the channel is closed (`NeverSendsOnClosedQueue`). `WaitsEnd` says that
whoever waits for the worker finds it with a record to take or a closed channel to leave by.

**`NotesProofs`** (any clients, ids and values). The inductive invariant adds to the properties what a handler holds between its read
and its write: `HandlersReady` says that a draft about to be written has the weather of its location and that its id was generated
before. It and `WeatherMatchesLocation` need each other: a draft that skips the lookup takes its weather from the row it read, and
that row was once a draft. `DeletedIsGone` says that a note counted as deleted is generated and not in the table, from which
both the uniqueness of deletes and the finality follow.

**`NotesPaginationProofs`** (any set of keys, infinite ones included, and any page size). The pages are what the query promises only if `Ordered`, which stands for
`ORDER BY`, sorts: `OrderedSorts` shows that every finite set of notes has exactly one note at each place. No note shares its number of newer notes with
another, and as many numbers as notes are available, so that none is left over (`EveryPlaceIsTaken`). Then a page is the first rows after the cursor (`RowsAreFirst`).
The inductive invariant adds to the properties that the cursor is the last note shown (`CursorInv`) and that a note which was there all along has been shown or comes
after the cursor (`StayedInv`); with the last page nothing comes after it.

**`ProcessProofs`**, first part: `ServerLifecycle` (any handlers). `StackInv` says that the stack is a part of `Setup` in its order; `OnceInv` ties the sync.Once to the phases of `Run`; `OpenInv` says that what is open is what the entries still to run will release, and that the others ran once; `HandlerInv` that nobody is active
after a shutdown that did not time out; `ResultInv` that as long as `Run` would report success the error of a failed server is in the channel and
`Run` has yet to look for it, from which follow that a failure is reported and that no listener is left after a clean exit.

`RunIsBounded`: from start to exit `Run` and the goroutines that serve have 24 steps at most (`LifeLeft`), whatever handlers and the signal do. `ResultsAreSent`: while `Run` may still collect,
the results in the channel and those collected are together those of the servers that have returned (`AwaitInv`), so that it waits only for one that has not.

**`ProcessProofs`**, second part: `Process` (any handlers and probes). `ProcessImplementsLifecycle`: every step of the process is a step of `ServerLifecycle` or leaves its
variables alone; the theorems above are thereby theorems of the process. `QueueInv` says that a closed queue has a fate for every record and that a queue closes only when the stack runs, `ServingInv` that requests
are served only when everything is set up. `ProbeInv` says that a probe has seen what is required and reachable now, and the database when it is past that check.

`ProgressIsBounded` adds to `LifeLeft` the records that the queues have still to resolve and their closes: each step of `Progress` takes from the sum, and only a handler that
stores a record adds to it, one. `EachCloseIsFirst`: a closed repository is no longer among what is open (`ClosedInv`), so that the stack never waits for one that a second close would not end.

**`DatabaseStartupProofs`** (any replicas, releases, attempts and crashes). `PoolsAndLockReturned` says in which phases a replica holds a pool and the lock; `MigratingInv` says that the replica with the lock, and no other, has in `pending` exactly what the
table lacks of its release, because nobody else can apply anything meanwhile; `MigratedInv` that one past its migration finds its release
applied.

`FailuresLeaveNothing` and `TypeCorrect` need what a loop computes: that the delay before attempt `n + 1` is the initial delay doubled `n - 1` times, up to the maximum, and that the
doubling never leaves the range of a `time.Duration`, because it stops at the maximum before. `Doubled` and the loop of `startupRetryDelay` are recursive functions; `SetInduction`, which speaks of a set
of numbers where the library's induction speaks of a predicate, shows that they are defined (`DoubledIsDefined`) and agree (`RetryDelayDoubles`). `AttemptInv` ties the delay a sleeping replica waits to its
number of attempts.

`StartupIsBounded`: the attempts left, each of fewer steps than the release has migrations and eight more, and what is left of this one (`StepsLeft`). Another replica that migrates meanwhile
only takes from it; a crash ends it, and a restart begins anew.

**`RequestPipelineProofs`** (any finite set of requests, any configuration and both servers). A request is in one of five stages, `Fresh`, `Inward`, `Outbound`,
`Unwinding` or `Finished`, and each stage says, for the layer reached, what is already observed, sent, counted, audited and logged. The counters
are cardinalities of sets of requests in certain stages.

**`WeatherLookupProofs`** (any finite set of lookups and any limits). `RecordsInv` says that a lookup has a record for each request it has sent but an open one, in
order, and that every record that is not the last of its exchange is a redirect's; `RequestsInv` says how many requests each exchange has made, `StageInv` which responses are finalized where, `OutcomeInv` what the latest record says of the response and of the outcome, and `TruncationInv` relates the mark on the latest record to what has been read: reading stops when a round trip is finalized. The gauge is
the cardinality of the lookups with an open round trip.

`LookupsAreBounded`: two exchanges of at most `MaxRequests` round trips, each as long as its body at most (`LookupLeft`); neither time nor another lookup takes a step back.

**`RateLimitProofs`** (any requests, replicas and policy). `TypeCorrect` and `ServesOnConsentOnly` hold for any clocks and delays.

`QuotaKeptUpToSkew` is what remains of the quota when clocks differ and calls are delayed. If of two scripts that run at the same moment none is stamped more than `D` ticks past the other
(`ClocksWithin(D)`), then in every stretch of time the requests allowed cost at most a full bucket, the refill meanwhile, and `D` ticks of refill for every script that ran in it. `ClockInv` bounds how far the
bucket's stamp may be from the time its script ran; `PaidInv` says, for every start at once, that what was spent since and what is left in the bucket is covered. Finding 1 is a stretch in which the last
term is needed. `QuotaKept` is the case `D = 0`.

`QuotaKept`, `RetryAfterSuffices` and
`BucketIsIdeal` assume `OneClock`: no skew, and scripts that run in the tick they were stamped in; without it they are false (finding 1).
`StampInv` says that a script that has yet to run is stamped with the present; `BucketInv` that the bucket's stamp is not ahead of the time and that a
key that expires would be a full bucket by then, so that losing it grants nothing; `RetryInv` that since a refusal the credit has grown towards the cost, unless another request took it.

Checked by TLC only: the liveness properties `CloseReturns`, `AcceptedIsSettled`, `StoreReturns`, `LookupEnds`, `ExitsOnSignal` and `StartupEnds`. They need ENABLED and a
fairness argument, which the prover does not do; the `...IsBounded` theorems are their safety part.

## 6. Where code and documentation disagree

Each has a run whose counterexample shows it; `PROJECT.json` quotes the line that says otherwise.

1. The timestamps of the shared bucket come from the replicas' clocks (`ratelimit/valkey.go:112`): replicas whose clocks differ grant more than the quota.
2. An update writes back every column it read (`notes/service.go:134`): of two overlapping partial updates one undoes the other.
3. A deadline that passes while the body is read is a decoding error and answered 502, not 504 (`notes/service.go:222`).
4. Recovered panics are not counted (`middleware/recovery.go:24`): Recovery is outside the layer that supplies the metrics.
5. A request that panics is not in `requests_total` (`middleware/request_metrics.go:218`).
6. A request that panics leaves no audit record (`middleware/request_audit.go:77`).

`PanicsLeaveATrace` asks for one of the three last, so that its violation shows that all of them fail at once.

Finding 1 does not need two clocks: the same happens when a call reaches Valkey after one that was stamped later.

Smaller observations are the exceptions that properties name: the depth gauge of the audit queue may keep an old length
(`DepthZeroAfterShutdown`; `asyncaudit/async.go:131`), a body of unannounced length that breaks before its first byte is not marked as
truncated (`TruncationIsMarked`; `httpclient/client.go:657`), and a listener may still be open when `Run` returns an error (`ReleasedOnce`;
`server/lifecycle.go:109`).

## 7. Not modelled

* Wording of responses, header values, encoding of cursors, redaction, tracing: data no property is about.
* Request bodies in the instrumented client: its only caller, the weather client, sends none.
* The database clock (`updated_at` against `created_at`), and the body that a recovered panic appends to a partial response.
* The client IP resolver: a pure function of the request. What it keeps per request saves work and changes no answer, whichever
  layer asks first.
* Which bucket a request has in the rate limiter (route overrides, hashed keys), and the choice between several: buckets share no state.
* Configuration, error mapping, set-up of telemetry and of third-party clients, generated code: sequential and tested directly.
* The scripts under `scripts/`: the release and deployment, no part of the running program.

## 8. Plan

Done, in this order: `AsyncAudit` with `AuditQueue`, `RateLimit` with `TokenBucket`, `Notes`, `NotesPagination`, `WeatherLookup`,
`RequestPipeline`, `ServerLifecycle`, `DatabaseStartup`, `Readiness` and, composing them, `Process`; then the proofs of section 5.

Left:

1. Request bodies in the instrumented client, once a client of this code sends one.
2. `updated_at`, with a database clock that may step back.
3. `ImplementsTokenBucket` with delayed calls needs the code to change first (finding 1): the script could read Valkey's clock.
4. Proofs that the parts which `Process` takes as one step each (`RequestPipeline`'s recording layers, `DatabaseStartup`) implement that step.

The runs stay few: a new question is put to an existing run where the model allows it, and a shallow
property gives way to a deeper one.
