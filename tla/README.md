# modo: specifications, model checking and proofs

modo is a Rust web framework: one crate, `src/src/`, whose modules share one
SQLite database (libsql), run on tokio and are assembled by the application.
This directory holds TLA+ specifications of the parts of it that keep state
across threads, requests, processes or restarts; TLC configurations that check
them on small instances; and TLAPS proofs of all the invariants and action properties
that TLC finds to hold, for every value of their constants.

To check a specification: `tlc -config MCJobProcesses.cfg MCJobQueue` (each run
in `PROJECT.json` names its module and configuration). To check the proofs:
`tlapm JobQueueProofs.tla`, and likewise for the other `*Proofs.tla`.

Contents: 1 inventory, 2 modules and code, 3 runs, 4 fairness, 5 proofs,
6 where the code and its documentation disagree, 7 abstractions,
8 plan, 9 not modelled.

## 1. Inventory

### Parts with state and concurrency

**job** (`src/src/job/`). State: the `jobs` table; per process a `Worker` with a
poll loop, a reaper loop, a cleanup loop, one semaphore per queue and the
handler tasks that were spawned. Operations: `enqueue*`, `enqueue_unique*`,
`cancel`; a tick of the poll loop (read the free permits of a queue, claim rows
with one `UPDATE ... RETURNING`, spawn a task per row); the end of a handler
(success, error, timeout, panic) and the write of its result; `reap`, `cleanup`;
`Worker::shutdown`. Interactions: processes meet only in the table; tasks and
poll loop meet in the semaphores. Hard: a stale row is handed out again by a
clock, not by knowing that its task is gone; the result is written
`WHERE id = ?` with neither status nor attempt compared; permits are read,
then the database is awaited, then permits are taken; processes crash between
any two statements. Correct if: no job is executed twice at a time, no result
hits another attempt, a queue's concurrency holds, every claimed job gets a
task, due and orphaned jobs do not wait for ever, a shutdown drains.

**sse** (`src/src/sse/broadcaster.rs`). State: a map from keys to broadcast
senders under an `RwLock`; receivers inside streams. Operations: `subscribe`,
`send`, `remove`, `on_lag`, polling and dropping a stream. Hard: `send` and the
drop of a stream remove a deserted channel in a second critical section, while
others subscribe; a slow stream is overrun. Correct if: only `remove` cuts off a
stream, nothing is lost silently, a removed channel's streams end, a deserted
channel leaves the map.

**cron** (`src/src/cron/`). State: per entry a loop with its next tick, an
`AtomicBool`, a `JoinSet` of handlers; a shutdown token. Operations: tick, skip,
end of a handler, shutdown. Hard: handlers slower than the schedule, handlers
that panic, cancellation at any moment. Correct if: runs of an entry never
overlap, a tick is skipped only while a run is under way, shutdown drains the
handlers and comes to its end.

**auth/session** (`src/src/auth/session/`). State: `authenticated_sessions`,
written by two transports, cookies and JWT; per request a copy of the row it
read, a dirty flag, an action for the response's cookie; the browser's cookie;
the tokens of the JWT clients. Operations: the cookie middleware before and
after the handler; `set`, `authenticate`, `rotate`, `logout*`, `revoke` in the
handler; `authenticate`, `rotate`, `logout` of the JWT service; `revoke*`,
`cleanup_expired`. Hard: each operation is several statements without a
transaction, the write-back uses what was read at the start, responses are lost
or arrive late. Correct if: a token that was ended never opens a session again,
a login, logout or rotation ends the token its request came with, data that was
set is stored, a refresh token works once.

**runtime** (`src/src/runtime/`): `run!` waits for a signal and shuts its tasks
down one after the other. It is the caller of the two shutdowns above.

**auth/apikey**: the `api_keys` table. Operations: `create`, `verify`, `refresh`,
`revoke`; `verify` spawns a task that records the use. Hard: each reads and
writes in separate statements. Correct if: a revocation is final.

**middleware**: token buckets in sharded maps with a sweeper (`rate_limit`); a
signed double-submit cookie (`csrf`); the layers that change responses
(`error_handler`, `catch_panic`, `security_headers`, `request_id`). Hard: look-up,
count and insertion are separate critical sections; tabs load at the same time;
the application chooses the order of the layers. Correct if: no key gets more
than its burst plus the refill, the map's limit is exceeded by no more than the
requests under way, an open tab's token stays valid, errors are rendered once
and headers survive.

**flash**: messages in a cookie, read by the next request. Hard: two requests at
a time, read and write in one request. Correct if: a message shows once and
leaves unread only for a cause.

**auth/guard, auth/role, tier, tenant (strategies), ip, geolocation, i18n,
template**: layers that look at a request, put what they found into its
extensions, or refuse it. Hard: each depends on others outside it. Correct if:
a guard lets nobody through whom it should not, wherever it stands; the host
router and the tenant strategies agree on who is a tenant; texts come in the
visitor's language.

**tenant (domains), dns**: domain claims of tenants with a verification token, an
expiry and a DNS lookup. Hard: verification awaits an external answer, and the
claim may change or go meanwhile. Correct if: what a domain is routed to was
proved by its owner, and a removed claim stays removed.

**db**: migrations by several processes, the shard pool's map of connections;
filters, pages and cursors. Hard: two processes migrate at once; check and
insert in the map are two critical sections; every page is a statement of its
own. Correct if: a migration takes effect once, in order and with its record; a
cursor walk repeats and skips nothing that was there throughout.

**storage**: uploads, deletion of keys and of prefixes page by page, over HTTP.
Hard: a request whose answer is lost may have arrived, or arrive later. Correct
if: what was acknowledged is stored, what was reported as deleted is gone.

**email, cache**: templates through a shared LRU cache, rendering, SMTP. Hard: the
file is read outside the cache's lock, and may be edited; codes are replaced in
text but not in code. Correct if: the cache is the most recently used templates,
the message is what the template says.

**auth/oauth**: sign-in through GitHub or Google with one state cookie for all
tabs. Hard: callbacks come late, twice, and in other browsers. Correct if: a
profile goes only to the browser that began its flow.

**webhook**: signed deliveries, verification with several secrets and a
tolerance. Hard: both sides change secrets at different times. Correct if: what
is accepted is exactly what was sent, signed with a shared secret, and recent.

### Parts that are functions of their input

`encoding`, `cron/schedule`, `auth/totp`, `auth/otp`, `auth/backup`, `auth/password`,
`sanitize`, `validate`, `client`, `config`, `id`, `qrcode`: they read one value
and decide at once. `error` and `extractor` are of this kind too, and are
operators of `Errors` that the layers use.

`PROJECT.json` lists every part under "components", and under "hazards" what
can go wrong in them, at the line where it would, with the properties that
would catch it.

## 2. Modules and code

| Module | Code | What it is |
|---|---|---|
| `JobLifecycle` | the status diagram the job module implements | abstract specification: statuses and who is executing |
| `JobQueue` | `job/worker.rs`, `enqueuer.rs`, `reaper.rs`, `cleanup.rs` | the queue, with processes, crashes and a clock |
| `Broadcaster` | `sse/broadcaster.rs` | the map, the channels, the streams |
| `Scheduler` | `cron/scheduler.rs`, `cron/schedule.rs` | loops, flags, handlers, shutdown |
| `Sessions` | `auth/session/store.rs`, `cookie/`, `jwt/` | the table, the cookie requests, the JWT calls |
| `TokenBuckets` | what `rate_limit` promises | abstract specification: a bucket per key that is never forgotten |
| `RateLimit` | `middleware/rate_limit.rs` | shards, locks, sweeper |
| `BrowserCookies` | `middleware/csrf.rs`, `flash/` | the two cookies of a browser, its tabs and requests |
| `Errors` | `error/`, `extractor/`, `health/router.rs` | operators: errors, rejections, statuses |
| `Catalog` | `i18n/store.rs`, `factory.rs` | operators: the files, flattened, and the text of a key |
| `Hosts` | `server/host_router.rs`, `tenant/strategy.rs`, `ip/extract.rs`, `i18n/locale.rs` | operators: what host, path and headers name |
| `Layers` | `auth/guard.rs` and the layers of `auth`, `tenant`, `tier`, `ip`, `geolocation`, `i18n`, `template`, `middleware` | a request through a stack of layers and back |
| `Domains` | `tenant/domain.rs`, `dns/` | domain claims, calls under way, DNS |
| `ApiKeys` | `auth/apikey/` | the keys, calls under way, late touches |
| `Databases` | `db/connect.rs`, `migrate.rs`, `pool.rs` | opening and migrating by several processes |
| `Queries` | `db/filter.rs`, `page.rs`, `select.rs`, `conn.rs`, `from_row.rs`, `error.rs` | a client that reads page by page |
| `Storage` | `storage/` | uploads and deletions over a connection that breaks |
| `Mailer` | `email/`, `cache/lru.rs` | templates, cache, rendering, sending |
| `Login` | `auth/oauth/` | flows, the state cookie, callbacks |
| `Webhooks` | `webhook/` | signing, delivery, verification |
| `RequestState` | | composition: `BrowserCookies`, `Domains`, `ApiKeys`, `Layers` and their properties; extended by `MCRequests` and `RequestsProofs` |
| `Services` | | composition: `Databases`, `Queries`, `Storage`, `Mailer`, `Login`, `Webhooks` and their properties; extended by `MCServices`, `ServicesProofs` and `QueriesProofs` |
| `MC*` | | instances for TLC: constants and symmetry |
| `JobQueueProofs` | | theorems about `JobQueue`, and that it implements `JobLifecycle` |
| `BroadcasterProofs`, `SchedulerProofs`, `SessionsProofs` | | theorems about the module of that name |
| `RateLimitProofs` | | theorems about `RateLimit`, and that it implements `TokenBuckets` |
| `RequestsProofs` | | theorems about `BrowserCookies`, `Domains`, `ApiKeys`, and `Layers` with `Errors`, `Hosts`, `Catalog` |
| `ServicesProofs` | | theorems about `Databases`, `Storage`, `Mailer`, `Login`, `Webhooks` |
| `QueriesProofs` | | the theorem about `Queries` |

**JobQueue.** `jobs` is the table, `tasks` the spawned tasks of all processes,
`permits` the semaphores, `poller` the poll loop's place in a tick with the
`now_str` of the tick (`stamp`), `proc` whether a process is up, shutting down or
down. `ReadSlots` and `Claim` are separate because the loop awaits the database
between them. `Claim` takes the rows and spawns: the rows come back in one
`await`, and between it and the spawns the loop does not yield. A claim that
finds fewer permits than rows is modelled (`ClaimBatch` with `D # S`); that it
never happens is what `ClaimedIsDispatched` says. `WriteResult` is the unguarded
update, with the retry's backoff and the refusal of the unique index included;
`WriteFails` the database error that is dropped. `Crash` and `Exit` take a
process's tasks with them.

**JobLifecycle** is shown to be implemented by `JobQueue`: statuses are the
table's, `executing` is the set of jobs with a live task.

**Broadcaster.** Each critical section of the lock is one step. `Send` that finds
no receiver leaves the caller in `failed` until `SendCleansUp`; `DropStream` runs
the clean-up closure while the receiver still counts, `DropReceiver` lets it go.
The broadcast channel of tokio is external: a ring of `Capacity` events, a
receiver that lags jumps to the oldest one, a closed channel is drained first.

**Scheduler.** An entry has a period or the set of times its cron expression
matches. The JoinSet is the set of live handlers. `HandlerPanics` leaves the flag
as it is.

**Sessions.** Every SQL statement is a step: `ReadSession`, the handler's
operations (`Authenticate`, `CreateRow`, `TrimSessions`; `RotateToken`,
`TouchRotated`; ...), the write-back of `Respond`, and `Deliver`, which also
loses responses. Statements may fail where the code goes on with the error
(`StatementFails`, `JwtFails`, the write-back). `used` and `pairs` are history:
the tokens that were generated and the pairs JWT clients were given.

**RateLimit.** `Look`, `CheckExisting`, `CountShard` (one step per shard) and
`Insert` are the critical sections of one request; `SweepShard` takes one lock
at a time. Tokens are counted in fractions, so that a refill can be part of a
token. It implements `TokenBuckets` with a bucket that is not in the map mapped
to a full one: dropping an idle bucket must not give a key anything.

**BrowserCookies.** The server keeps nothing, so the state is the browser's: its
jar, the token in each tab's page, the requests under way with the cookies they
were sent with. `Deliver` applies a response's cookies in any order, `Lose` drops
it. `overlap` records that two first visits overlapped.

**Layers**, with **Errors**, **Hosts** and **Catalog**. `stack` is the application's
choice of layers, outermost first; `at` and `dir` say where the request or the
response is. Each layer is an action on the way in, and those that act on
responses are one on the way out; what a request carries is chosen when a layer
first looks at it and stays (`parts`). `saved` is what each error handler cloned.
`Catalog` flattens the YAML files of `Directory` into entries as `load` does;
`Written` and `Says` read the files directly and are the reference that
`AnswersAreRendered` compares with. `PassPlainly` and `CorsLayer` are tower-http's.

**Domains**, **ApiKeys.** One action per statement: `Verify` reads the claim,
`VerifyDns` gets the answer, `VerifyConfirm` writes it; `Remove`, `Disable` and
`Unpublish` fall between. `served` is history: what owners published. In `ApiKeys`
a `Touch` is the detached task.

**Databases.** `Conn` looks a shard up, `CreateTable`, `Select`, `Batch`, `Record`,
`Commit` are the statements of `migrate` for each file, `Insert` puts the handle
into the map; `Fails` is any of their errors, `Stop` the end of a process, and
`Deploy` an edited migration. A database in memory belongs to its connection.

**Queries.** A query string becomes a filter (`from_query_params`, `validate`), the
filter a statement with positional placeholders (`build_where`, `cursor_sql`,
`page_sql`), and `Execute` (SQLite, external) runs it on the table; `Write` changes
the table between pages. `Wanted` reads the query string directly.

**Storage.** A call is a chain of requests. `Serve` and `Refuse` are the server,
`Breaks` loses the answer, and a request that was not seen yet may stay in `late`
until it `Arrives`. `list` is the page the server may answer with, and where the
next one begins; keys in it are XML text, which `extract_xml_values` does not
unescape. `DeleteNext` takes the listed keys in any order: the remote backend
deletes them as listed, the memory backend in the order of a hash map.

**Mailer.** `Send` looks into the cache, `Load` reads the file, `Store` puts it into
the cache, `Deliver` renders and sends; `Edit` changes a file between them.
`ScanToken` is the scanner of codes, folded over the tokens of the text, and
`Rendered` says of each block by itself what it should become.

**Login.** A flow's number stands for its nonce, verifier and code. The callback
of a flow may be opened in any tab of any browser; `post_form` and `get_json` are
the calls to the provider, which may fail after they took effect.

**Webhooks.** Signed requests are in `network` until they are lost; `Change` alters
one on the way. A request remembers the delivery it was sent as, which the
receiver cannot see and the property compares with. Whether the receiver accepts
a request now is a state function, so the property speaks about every moment at
which it could arrive.

Operators whose comment starts with "Fault" or "Faulty" are wrong variants of the
one that follows them. No specification uses them; putting one in place of its
original must break a property, which is how we know that the property depends
on that line of the code.

## 3. Runs

| Run | Instance | Result |
|---|---|---|
| `jobs_processes` | 1 job, 2 processes, 1 crash or shutdown, 2 attempts, clock to 5, threshold 3 = lag 1 + timeout 1 + write 1 | `TypeOK`, `NoOverlappingExecution`, `TasksOwnTheirRows`, `ImplementsLifecycle` hold |
| `jobs_queue` | 2 jobs, 1 permit, 1 process, fairness | `ConcurrencyRespected`, `ClaimedIsDispatched`, `DueIsClaimed`, `OrphanIsRecovered` hold |
| `jobs_drain` | 1 job, 1 process | `ShutdownDrains` fails, see 6 |
| `sse` | 1 key, 2 streams, 2 channels, 2 senders, ring of 1, 2 events | `TypeOK`, `NoSilentGap`, `OnlyRemoveDisconnects`, `DisconnectedStreamsEnd` hold |
| `sse_drop` | the same | `LastDropCleansUp` fails |
| `cron` | an interval and a calendar entry, handlers longer than both, clock to 5 | `TypeOK`, `NoOverlap`, `ShutdownDrains`, `ShutdownCompletes` hold |
| `cron_panic` | the same | `SkipsOnlyWhileRunning` fails |
| `sessions` | 2 cookie requests of 1 browser, 1 JWT call, 2 sessions, 3 tokens, 1 session per user | `TypeOK`, `OldTokenEnds`, `DeadTokensStayDead` hold |
| `session_data` | 1 request, 2 operations | `SetIsFlushed` fails |
| `session_refresh` | 2 JWT calls, 3 tokens | `RefreshTokenUsedOnce` fails |
| `requests` | see below | `KeysBounded`, `RetryAfterIsEnough`, `ImplementsTokenBuckets`; `TabsStayValid`, `ShownOnce`, `UnreadLeavesForACause`; `GuardsFailClosed`, `AnswersAreRendered`, `HeadersSurvive`, `RouterAndTenantAgree`; `RoutedWasProved`, `RemovedStaysRemoved`; `RevokedStaysRevoked` hold |
| `services` | see below | `MigratedOnce`; `WalkSeesEachOnce`; `AcknowledgedIsStored`, `PrefixIsGone`; `CacheIsLru`, `SentAsWritten`; `LoginIsBound`; `AcceptedIffGenuine` hold |

`requests` and `services` check several specifications that share no state: a
behaviour takes steps of one of them only, `part`, chosen at its start. Their
instances:

- `requests`, 1.18 million states. Limiter: 3 keys in 2 shards, 2 requests, a cap of 1
  key, burst 1, 2/3 of a token per unit, clock to 2. Browser: 2 tabs, 2 requests
  at a time, 2 tokens, 2 messages. Stacks: every one of 22 layers, every two of
  them in both orders, every three of 6 about sessions and panics, every four of
  5 that make or change errors. Catalogue: two locales with their own plural
  rules, a file that is no YAML, nested keys, a key nobody has. Claims: 2 claims,
  2 tenants, 2 calls under way. Keys: 1 key, 2 calls under way.
- `services`, about 970 thousand states. Databases: 2 migrations of 2 contents, 2
  callers in one or two processes. Queries: 4 rows with equal values, no value
  and values of other types, 6 query strings, every mode, 2 writes by others.
  Storage: 2 callers, 3 calls, pages of 1 key, 1 late request. Mail: a cache of
  2, 1 or no templates, 4 files, 2 edits, 2 threads. Login: 2 browsers of 2 tabs, 2 flows,
  one provider that checks PKCE and one that does not. Webhooks: 4 written
  secrets, 1 delivery, clocks 2 apart with a tolerance of 1.

Why the bounds are enough. In `jobs_processes` the threshold equals the sum it
has to cover, so a reaper one unit earlier, a handler or a write one unit later
would overlap (an off-by-one in `Stale` is found); one job is enough because
overlap is about one job, and two processes because a third can only do what the
second does; five units let a job be claimed, go stale, be reaped and be claimed
again. In `jobs_queue` two jobs compete for one permit. In `sse` a ring of one
lags at the second event, two channels let a key get a new one, and two senders
meet in the clean-up. In `cron` the handlers' timeout 2 exceeds the period 1,
and the calendar ends before the clock. In `sessions` two requests of one browser
hold the same token while a call or a revocation moves it; two ids and a limit of
one make a login evict; three tokens let a rotation follow a login. The theorems
of section 5 do not depend on these bounds; what is only model-checked does.

In `requests` two requests are one more than a cap of one key, so the bound of
`KeysBounded` is reached; a clock of 2 lets a bucket refill and be swept. Two
tabs and two requests overlap in every order that two cookies can be set in.
What a layer does depends on the extensions and on the layers outside it, hence
two layers for each dependency; errors are changed by up to four. A claim has
two statements that a second call can fall between; a key likewise. In
`services` two callers are what a check and an insert can be split by; two
processes share a file and not a map. A page of one row or key makes every walk
one of several pages. Two flows are one in the cookie and one replaced.

## 4. Fairness

- **jobs**: tokio polls its tasks and timers, so the poll loop, the tasks, the
  reaper and the shutdown are weakly fair; the clock is strongly fair because the
  tasks it waits for come and go; a claim is strongly fair because a claim may
  fail and a database that works now and then lets one through; a supervisor
  restarts a process that is down. A handler is not assumed to return: the
  clock cannot pass its deadline, where `tokio::time::timeout` ends it.
- **sse**: weak fairness of a stream's next poll, since the server polls the body
  of a response for as long as it keeps it; no fairness of senders or clients.
- **cron**: the clock, the loops and the shutdown are weakly fair, and so is the end
  of a handler, by `tokio::time::timeout`.
- **sessions**, **requests**, **services**: none; only safety is claimed.

## 5. Proofs

| Theorem | Statement | Argument |
|---|---|---|
| `JobQueueProofs!TypeCorrect` | `Spec => []TypeOK` | |
| `JobQueueProofs!NeverOverlapping` | `Spec => []NoOverlappingExecution` | `ExecutionInv` |
| `JobQueueProofs!ResultsNeverLate` | `Spec => []TasksOwnTheirRows` | `ExecutionInv` |
| `JobQueueProofs!ConcurrencyNeverExceeded` | `Spec => []ConcurrencyRespected` | `PermitInv` |
| `JobQueueProofs!QueueImplementsLifecycle` | `Spec => Lifecycle!Spec` | step simulation under `ExecutionInv`, `PermitInv` |
| `JobQueueProofs!ClaimedJobsRun` | `Spec => ClaimedIsDispatched` | `PermitInv` |
| `BroadcasterProofs!TypeCorrect` | `Spec => []TypeOK` | |
| `BroadcasterProofs!OnlyRemoveCutsOff` | `Spec => OnlyRemoveDisconnects` | `SubscribedInv` |
| `BroadcasterProofs!NothingLostSilently` | `Spec => []NoSilentGap` | `SeenInv`, cardinalities of intervals |
| `SchedulerProofs!TypeCorrect` | `Spec => []TypeOK` | with `Armed` |
| `SchedulerProofs!NeverOverlapping` | `Spec => []NoOverlap` | `FlagInv` |
| `SchedulerProofs!ShutdownLeavesNothing` | `Spec => ShutdownDrains` | `DoneInv` |
| `SessionsProofs!TypeCorrect` | `Spec => []TypeOK` | |
| `SessionsProofs!DeadTokensNeverReturn` | `Spec => DeadTokensStayDead` | every step is a `TokenStep` |
| `SessionsProofs!OldTokensEnd` | `Spec => []OldTokenEnds` | `SessionInv` |
| `RateLimitProofs!TypeCorrect` | `Spec => []TypeOK` | `TypeInv` |
| `RateLimitProofs!CapHolds` | `Spec => []KeysBounded` | `CapInv` |
| `RateLimitProofs!RetryAfterSuffices` | `Spec => []RetryAfterIsEnough` | `LimitedInv` |
| `RateLimitProofs!LimiterImplementsTokenBuckets` | `Spec => Ideal!Spec` | step simulation under `TypeInv` |
| `RequestsProofs!OpenTabsStayValid` | `Browser!Spec => []TabsStayValid` | `TokenInv` |
| `RequestsProofs!FlashShownOnce` | `Browser!Spec => []ShownOnce` | `FlashInv` |
| `RequestsProofs!UnreadFlashIsKept` | `Browser!Spec => UnreadLeavesForACause` | `FlashInv` |
| `RequestsProofs!RoutedDomainsWereProved` | `Claims!Spec => []RoutedWasProved` | `ClaimsInv` |
| `RequestsProofs!RemovedClaimsStayRemoved` | `Claims!Spec => RemovedStaysRemoved` | `ClaimsInv` |
| `RequestsProofs!RevokedKeysStayRevoked` | `Store!Spec => RevokedStaysRevoked` | `KeysInv` |
| `RequestsProofs!RouterAndTenantAgreeAlways` | `Stack!Spec => []RouterAndTenantAgree` | `PartsOK`, lemmas about the ends of names |
| `RequestsProofs!GuardsAlwaysFailClosed` | `Stack!Spec => []GuardsFailClosed` | `GuardsInv` |
| `RequestsProofs!HeadersAlwaysSurvive` | `Stack!Spec => []HeadersSurvive` | `ResponseInv`, `HeadersInv` |
| `RequestsProofs!AnswersAlwaysRendered` | `Stack!Spec => []AnswersAreRendered` | `AnswersInv`, lemmas about the catalogue |
| `ServicesProofs!MigrationsApplyOnce` | `Spec => []MigratedOnce` | `MigrationInv` |
| `ServicesProofs!LoginsAreBound` | `SignIn!Spec => []LoginIsBound` | `LoginInv` |
| `ServicesProofs!GenuineIsAccepted` | `Hooks!Spec => []AcceptedIffGenuine` | `HooksInv` |
| `ServicesProofs!TemplateCacheIsLru` | `Mail!Spec => []CacheIsLru` | `CacheInv` |
| `ServicesProofs!MailSaysWhatIsWritten` | `Mail!Spec => []SentAsWritten` | `MailInv`, the scan of a template block by block |
| `ServicesProofs!AcknowledgedUploadsStay` | `Objects!Spec => []AcknowledgedIsStored` | `ObjectsInv` |
| `ServicesProofs!DeletedStaysGone` | `Objects!Spec => []PrefixIsGone` | `ObjectsInv` |
| `QueriesProofs!WalksSeeEachOnce` | `Reads!Spec => []WalkSeesEachOnce` | `ReadsInv`, what a statement finds |

**Jobs.** The one assumption beyond types is `TimingAssumption`: for every
registered handler the stale threshold is at least claim lag + timeout + write
delay. The code does not check it; its defaults (600 s against a timeout of
300 s) leave 300 s for lag and write. `NoOverlappingExecution` is not inductive:
a reaped row with a live task would break it. `ExecutionInv` adds that a live
task's row is running under the task's attempt, that the task's deadline counts
from the row's `started_at`, that the clock has not passed it, and that the
stamp of a tick under way is not older than the lag. Then a row the reaper finds
stale has no live task. `PermitInv` says that free permits and live tasks add up
to the concurrency and that the slots a loop read are still free when its claim
returns, because only the loop itself takes permits.

**Sessions.** The invariant says that a token names at most one row and was
generated, that a request which read a session came with a generated token, and
that after `authenticate`, `rotate` or `logout` the token it came with names no
row. It rests on one fact about all steps: a row keeps its token or goes, and at
most one row gets a token, a fresh one. Hence a dead token stays dead.

**Rate limiter.** `TypeInv` adds to the types that nothing is stamped in the future.
A step implements a step of `TokenBuckets`: a bucket that is missing maps to a
full one, so inserting and sweeping have to leave what a key may take as it is;
the arithmetic of the refill is in lemmas. `RetryAfterIsEnough` needs `LimitedInv`:
a refused key's bucket is still there and was just checked, or is refilled. The
cap is the hard one. A request counts shard after shard while others insert, so
the count is of no one moment. `CapInv` says that some past explains it: for each
request the key it inserted last (none while it is about to insert), for each
count the keys it has not seen because others inserted them behind it, and an
order of the counts under way in which one that missed a key precedes the one
whose key it is. The keys that are nobody's last are fewer than the cap, which
leaves less than one key in excess per request.

**Cookies.** `TokenInv`: a response sets a token only for a first visit, and while
no cookie expired and no first visits overlapped there is at most one such, the
jar is empty then, and every token under way is the jar's. `FlashInv`: a message is
with the request that queued it, or in the jar and with the requests that were
sent since, or shown, never in two of these.

**Domains, API keys.** `ClaimsInv` follows a verification through its statements: the
claim it read has the domain it asked the DNS about, and between the answer and
the write that domain and claim are `served`, which never shrinks. `KeysInv`: a
call that is to write has a row, and a row that is not there is not revoked.

**Layers.** The run tries the stacks that its bounds list, the theorems hold for every
sequence of layers, repeated ones included. Every step is of one of three kinds: a
layer lets the request on and may insert one extension (`OnwardStep`), somebody
answers (`AnsweringStep`), or a layer passes the response out and may change it
(`OutwardStep`); a lemma per layer says which, and the invariants are shown to
survive the three kinds. `GuardsInv`: an extension is there because a layer outside
inserted it (`Provided`), and each guard that was passed still has what it required
(`Held`). That is not all of the state it saw: a layer that provides may stand
again between the guard and the handler and replace what the guard checked, a
different role for instance, which is why `Held` allows for the layers between.
`HeadersInv` says exactly which headers a response has on its way (those of the
layers it came through since it was made or last rendered). `AnswersInv` adds
that a translator is there exactly inside an `I18nLayer`, for the request and for
what each error handler saved; that a page's context is of the innermost
template layer; and that an error's status, details and message are as they were
made until the innermost error handler around it renders it, and then as the
files say.

**Catalogue.** What `lookup` finds in the flattened entries is what `Written` finds by
following the key through the files: the lemmas go along the depth of the nodes,
`Nodes` being a function of it, and show that a path has one node, that flattening
keeps paths apart, and that the entry found for a key, plural categories and the
default locale included, says what `Says` reads. The host lemmas say of a name's
last labels that router and strategies cut it at the same place.

**Migrations.** `MigrationInv` says of every database that what is committed are
migrations in the order of the files, each with its record (`Applied`); of a
caller, that those before the one it is at are recorded, that it has the lock
from its batch to its commit, and that at the commit the one it is at is not
recorded (`Running`); and that a database somebody holds is complete (`Holding`). The
unique key of the record is what makes a caller fail that looked before
another one committed. With the path `:memory:` a database belongs to the caller
that opened it and to its process's pool, which needs `Pooling`.

**Login.** `LoginInv`: a cookie names a flow of its browser, and a code's account is with
one call or one profile, because providers honour a code once.

**Webhooks.** `HooksInv`: a request's signatures are those of the content it was sent with,
whatever was changed. An earlier form of `AcceptedIffGenuine` looked for the
delivery by the request's id and was false for two deliveries: a change can turn
one into the other, signatures included. It now compares with the delivery the
request was sent as; the run has one delivery, the theorem any number.

**Template cache.** `CacheInv` relates the cache to the sequence of all keys in the
order of their last use: its order is the end of that sequence, as long as the
capacity allows. The lemmas say what moving a key to the back does to both.

**Mail text.** `MailInv`: files are templates, what is cached or with a call was once
the file that its name and locale lead to, and a mail that was sent is the
rendering of such a template. The work is in `CodesShown`: the scanner, folded over
all tokens, leaves exactly the codes that are written as text. The fold is
stated as a function of the position (`IsScan`), and the induction goes over blocks:
from the state at the start of a line, a block of any kind is scanned as
`Rendered` says and ends in that state again. `FlattenIs` and `Joined` say where a
block's tokens are in the whole text.

**Queries.** First what the statement finds. `SortedExists`: every finite set can be
put in order by an irreflexive, transitive relation, so that `SortedBy` lists each
element once. `MarksAre` and `WhereIs`: the placeholders of a clause, found by counting
those of the clauses before it, hold the values of its own condition, whatever the
filter, and so does the one that a cursor adds behind them; hence a row is
selected when the query string asks for it (`Wanted`) and, with a cursor, lies
ahead. `ExecuteIs`: the statement returns a stretch of that, as `LIMIT` and `OFFSET` say.
Then the walk. `ReadsInv` says of one under way that all it saw was asked for, and:
with a cursor (`CursorOK`), no row twice, none of them ahead of the cursor, and, if the column
is unique and always there, no row that was there throughout is behind the
cursor and unseen; with page numbers and a table that nobody changed (`PagesOK`), what
was seen is the beginning of what the query finds, as long as the pages so far,
and the count is its length. The end of the last page is then the end of the
list. Trying to prove it showed an overlap in a CASE of `Fetch`, which is gone.

**Induction over data.** The library's induction theorems cannot be used (they take
an operator as a parameter). Where a proof needs induction (orders of finite
sets, the scan of a text, placeholders, depths of a tree), it takes the least
number for which the claim fails: `LeastNat` says that a set of naturals that is not empty
has a least element, from `WFMin` and `NatLessThanWellFounded`.

**Storage.** `ObjectsInv` has four parts beside the types. `IdsInv`: every key that is
stored, uploaded, late or remembered carries an id of its own, so that no upload
meets another's key. `RemovalInv`: what is being deleted is, up to the escapes of
XML, a key somebody asked to delete. `UploadInv`: an upload under way has a key
nobody was told of, and a late PUT or DELETE is not of an acknowledged one.
`DeletionInv`: a key that is still to be stored is not one that was deleted or
listed, and a key that was there when `delete_prefix` began is gone, or on a page
still to come, or in the list of those to delete.

**Assumptions.** The modules' own ASSUMEs, which TLC evaluates on every run; among
them `RequestStateAssumption` (times are naturals and `None` is not one; files of a
directory have different names, their trees have a depth, `MaxDepth` or less; host
patterns are names that are not empty, wildcards longer than one label) and
`ServicesAssumption` (capacities of the cache are naturals; templates are made of
blocks; ids differ from each other and from what else keys are made of, paths are
sequences of characters, and `None` is no reply of the storage; tables are finite,
their ids unique and their values positive, the parameters of a query string have
a value, and a client starts with the first page). `GenuineIsAccepted` has one hypothesis of its
own, that different naturals are written differently in decimal: it quantifies
over all naturals, so TLC cannot evaluate it.

**Only model-checked.** `DueIsClaimed`, `OrphanIsRecovered`,
`DisconnectedStreamsEnd` and `ShutdownCompletes`: they are liveness under fairness,
which the prover does not do (nor `ENABLED`). All other properties of the runs that
pass are stated by a theorem.

## 6. Where the code and its documentation disagree

- `jobs_drain`: `Worker::shutdown` returns while handlers run and before
  `drain_timeout_secs`, which is documented as the time to wait for them. It
  waits for its loops only, and handler tasks are detached.
- `sse_drop`: the last stream's drop does not clean up its channel, since the
  closure runs while the stream's own receiver is still counted. A later `send` or
  `remove` does.
- `cron_panic`: after a handler panicked its entry's flag stays up and every later
  tick is skipped. Runs still do not overlap, and shutdown still completes.
- `session_data`: data set after `authenticate` or `rotate` in the same handler is
  dropped: the branch of the middleware that sets the new cookie does not look at
  the dirty flag.
- `session_refresh`: two JWT `rotate` calls that both read before either writes
  both return a pair for the same refresh token; only the later pair works.

Smaller ones, met while modelling, that no run is about:

- `db/pool.rs:128-131` calls the race of two first accesses benign. The one that
  loses can get an error from SQLite, and with the base path `:memory:` the two
  get different databases, of which the map keeps the second.
- `tenant/domain.rs:297` says that a pending claim is returned again. `register`
  looks at one row (`LIMIT 1`), which may be an expired one, and inserts another
  then; so do two concurrent calls. The write of `failed` in `verify` has no condition
  and can replace a `verified` of another call.
- `id/ulid.rs` says that later ids are greater; within a millisecond they are not.
- `ip/extract.rs` says that the leftmost entry of X-Forwarded-For that parses is
  taken; only the first is tried.
- `JwtSession` takes an empty bearer token, which `BearerSource` does not.
- `storage/client.rs:254`: keys with characters that XML escapes come out of `list`
  escaped, so `delete_prefix` returns Ok and leaves them (`PrefixIsGone` excludes
  them). A truncated list without a token is asked for again without end.
- `db/page.rs:138`: the offset is computed in `i64` without a check. `COUNT` and page
  are two statements. A cursor over a column with equal or no values skips rows
  (`WalkSeesEachOnce` states what remains). `fetch_one` ignores `order_by`.
- `i18n/store.rs:308`: of `{}` in a text only the first brace is kept. A text that
  comes from the default locale takes its plural form by the rules of the
  locale that was asked for.
- `template/middleware.rs:134-137` says that without a locale `t()` cannot be used; it
  uses the default locale.
- `auth/oauth`: beginning a second flow in another tab ends the first, and the
  cookie is not cleared when a flow is over; the provider's codes are good once.
- `webhook/signature.rs`: a delivery is accepted as often as it comes within the
  tolerance; deduplication is the receiver's.

## 7. Abstractions

- Time is a counter. The clock of `JobQueue` and `Scheduler` waits for timers that
  are due; the one of `Sessions` waits for nothing.
- A payload's hash is the pair of name and payload: SHA-256 does not collide.
  Tokens and ids are fresh: 256 random bits and ULIDs do not repeat.
- `Backoff` is computed in unbounded integers; the overflow of the code's
  `5u64 * 2u64.pow(attempt - 1)` past 62 attempts is in the hazards and not
  modelled.
- Names, paths, keys and texts are sequences of a few symbols; signatures and
  hashes are injective; templates, queries and configurations are the ones the
  MC modules list. SQLite, the S3 server, the OAuth providers, DNS, MiniJinja,
  CommonMark and tower-http are external and do what the code relies on, or fail.
- Two layers that meet in a request are independent of what other requests do:
  the stack holds one request, the shared state of its layers (buckets, cookies,
  sessions, keys) is in the modules of their own.
- Reads that change nothing (`list`, `current_user`, `subscriber_count`, ...) are no
  actions.
- `authenticate_with` starts with empty data, and the two transports share one time to
  live and one limit per user.
- An event is its position in its channel. Text, formatting, logging, metadata of
  requests and the fingerprint's computation are left out; that a fingerprint
  differs is a nondeterministic choice.
- Bounds on counters: `MaxTime`, `MaxStops`, `MaxDelay`, `MaxSent`, `MaxOps`, `MaxUsage`,
  `MaxWrites`, `MaxCalls`, `MaxLate`, `MaxFlows`, `MaxSends`. The proofs hold for all values
  of those of the proved modules.

## 8. Plan

Written: job, sse, cron, auth/session, in the order of how much state they
share; then what requests meet (`RateLimit` to `ApiKeys`) and what handlers use
(`Databases` to `Webhooks`); then the proofs of section 5. What is left, in this order:

1. `Runtime`: `run!` with several tasks, composed with the shutdowns of the job
   worker, the scheduler and the HTTP server.
2. Pure operators against reference definitions over bounded inputs:
   base32/base64url/hex, `parse_duration`, TOTP's window, backoff with its width.
3. More of the sessions: what a revocation leaves behind.

Abstract specifications worth stating: the life of a session (anonymous, live,
ended) implemented by `Sessions`; an append-only log of versions implemented by
the migrations.

## 9. Not modelled

Pure I/O and rendering (`embed`, `qrcode`, `tracing`, static files, the database
of `geolocation`, `audit`'s one insert per call), cryptographic primitives and codes
(`auth/totp`, `otp`, `backup`, `password`, `encoding`), functions on text (`validate`,
`sanitize`, `client`), start-up code (`config`, `service`'s registry, `cookie`) and the
test helpers: they keep no state that two steps could disagree on. Parts of
modelled components that are left out: the formatting of events and the sender
of `Broadcaster::channel` in sse, keep-alive, the extraction of handler arguments,
the signing of cookies and JWTs, CORS preflights (answered by tower-http),
`db/maintenance.rs` (vacuum and statistics), presigned URLs of storage, and the
CSRF and flash layers as members of a stack (they are in `BrowserCookies`).
