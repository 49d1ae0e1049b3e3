# Verification of the RealWorld backend

TLA+ models of this repository's NestJS backend (`src/src/`) and of the files
its coding hooks share (`src/.codex/hooks/`), model-checked with TLC and proved
about with TLAPS.  The backend keeps almost no state in memory:
what it has to get right is how concurrent requests, background runs, failing
calls and dying processes share PostgreSQL, Redis and a directory of private
files.  The hooks are short processes that share files in the same way.  That
is what is modelled.

Paths below are relative to the repository's root (`src/` is the application).

## Inventory

| Component | State it keeps | Operations | Talks to | Hard behaviour | What makes it correct |
|---|---|---|---|---|---|
| Registration (`auth/auth.service.ts`) | rows of `users`, `welcome_mail_outbox` | `register` | PostgreSQL transaction | two requests pass the lookups, then meet in the unique indexes; a COMMIT without an answer | users unique; user and outbox row together or not at all; the 409 a client gets is true; nobody waits for ever |
| Outbox relay (`jobs/`) | status, lease and dispatch time of every outbox row; the run in progress (`relayPromise`); the timer | `claimReady`, `queue.add`, `markDispatched`, `release`, bootstrap, shutdown | outbox rows written by registration; BullMQ | stale lease holders, lost replies, crash between enqueue and mark, several instances, shutdown in the middle of a run | no mail lost, none sent twice, leases fenced, every row dispatched in the end |
| Avatar upload (`auth/user-avatar-handler.ts`) | `users.image`, rows of `attachments`, private files | `PUT /user/avatar` | PostgreSQL, file system | a file write inside a transaction that does not cover it; clean-up after commit; undo after error; marker rows | the current avatar can be read; no file without a row; debris is found again |
| Current-user update (`users/user.service.ts`) | `users` row | `PUT /user` | PostgreSQL | read, modify, save of an entity without a lock | only the fields in the request change |
| Private file read (`files/file-read-handler.ts`) | none | `GET /files/:id` | attachments, files | row and file are read at different times | whole file or 404 |
| Tokens and logout (`auth/token-*.ts`, guards) | deny-list keys with a time to live; one shared connection promise | issue, verify, deny | Redis, clock | outage, expiry at a second's boundary, reconnect | a logged-out token is never accepted again; fail closed; every request answered |
| Login rate limiter (`auth/auth-login-rate-limiter.ts`) | two counters with an expiry | `consume` | Redis script | concurrent attempts, retried commands, window edge | at most N attempts per window and key; a lockout ends |
| Articles, tags, favorites (`articles/article.service.ts`, `article-tag-persistence.ts`) | four tables | create, read, update, delete, favorite | PostgreSQL row locks | lock order, tag insert order, cascades | every request takes effect at one moment; a favorite is counted once; circular waits are known and broken |
| Article lists and feed (`articles/article-list-*.ts`) | none | list, feed | several SELECTs | no common snapshot | exact when nothing changes; else a page of one moment |
| Comments (`comments/comment.service.ts`) | `comments` | create, list, delete | row locks, a snapshot transaction | deletion of the article meanwhile | only the author deletes; no comment without article |
| Profiles (`profiles/profile.service.ts`) | `user_follows` | follow, unfollow, get | PostgreSQL | repeated requests | idempotent; nobody follows themselves |
| Tag list (`tags/`) | none | list | PostgreSQL | none | |
| Database reset (`database/`) | the whole test database | reset | PostgreSQL | spellings of a URL the driver reads otherwise; a step fails after the drop | never the application's database; success means migrated |
| Configuration, HTTP layer (`config/`, `common/`, `main.ts`) | none | validation, serializing, error mapping | | none | |
| Hook session file (`.codex/hooks/lib/tkm-config-utils.cjs` and callers) | one JSON file and its lock file | `updateSessionState` | hooks of one session | lock taken over, killed holder, rollback of an expired reservation | rules injected once; no update lost |
| Hook log (`lib/hook-logger.cjs`) | the log, its lock file | append, rotate | all hooks | rotation beside an append, a lock left behind, a write cut short | a rotation that ends its write loses only old lines |
| Git status cache (`lib/git-info-cache.cjs`) | one cache and one temporary file | get, write, invalidate | git, the hook after an edit | a fetch that outlives an invalidation; a shared temporary file | no status from before an edit |
| Session snapshot (`session-state.cjs`, `lib/session-state-manager.cjs`) | `latest.md`, archives | section, turn, archive | hooks of one session | read and replace without a lock | sections of subagents survive a turn |
| Throttle files of the hooks (reindex, nudge, guardrail, simplify, rating, notifications) | a time, a count or a map in a file | check, act, stamp | hooks of all sessions | check then act; torn file; lost update | held back for the window, and for nothing else |
| Memory queue (`memory-graph-queue.cjs`, `lib/memory-graph-queue-lib.cjs`) | one capture per session, the graph's time | capture, count | hooks, the extraction | two Stops at once; a capture linked while an extraction reads | the first capture stays, whole and pending |
| Telemetry buffer (`telemetry.cjs`, `lib/telemetry-client.cjs`) | one buffer per session | append, flush, sweep | an HTTP service | read, delete, post; sweep of other sessions | each event at most once; losses only where accepted |
| Usage cache (`usage-quota-cache-refresh.cjs`, `lib/usage-limits-cache.cjs`) | one cache | refresh | an HTTP service | answers out of order, time-outs | the stamp is true to within the time-out |

`PROJECT.json` lists each with its files and, under `hazards`, each hard
behaviour with the line where it bites and the property about it.  This
checkout's `hooks.json` wires the snapshot, the simplify reminder, the memory
queue and nudge and the graph reindex; the other modelled hooks come with the
same kit, some wired in an older `hooks.json.*.bak`, and are modelled as
written.

## Modules

| Module | Role |
|---|---|
| `WelcomeMailOutbox` | outbox table, relay runs and life cycle of any number of instances |
| `WelcomeMailDelivery` | what registration promises about the mail; implemented by the former |
| `Registration` | concurrent `POST /users` transactions |
| `UserAvatar` | uploads, `PUT /user` and file reads of one user |
| `LazyRedis` | the shared Redis connection, extended by the next two |
| `AuthSession` | tokens, guards, logout and the deny list |
| `LoginRateLimiter` | the two counters of `POST /users/login` |
| `ArticleStore` | articles, favorites, tags and comments, if every request were one step |
| `ArticleLocks` | the same statement by statement, with PostgreSQL's locks; implements `ArticleStore` |
| `ArticleReads` | detail, lists, feed and comments, composed with `ArticleStore`'s writes and with follows |
| `DatabaseReset` | the reset script and its check of the URLs |
| `HookSession`, `HookLog`, `GitInfoCache`, `SessionSnapshot`, `HookThrottle`, `MemoryQueue`, `Telemetry`, `UsageCache` | the files the hooks share |
| `...Proofs` | theorems about the module of that name |
| `AuthProofs` | theorems about `LazyRedis`, `AuthSession` and `LoginRateLimiter` |
| `ToolingProofs` | theorems about `UsageCache`, `GitInfoCache`, `SessionSnapshot`, `HookLog` and `DatabaseReset` |
| `HookProofs` | theorems about `MemoryQueue`, `HookSession`, `Telemetry` and `HookThrottle` |
| `MC...` | instances for TLC; the values are in the `.cfg` files |

A definition whose comment starts with `Mutant:` or `A version` is the next
definition with a plausible bug.  No specification uses it: each shows that a
property depends on the code it is about (`PROJECT.json`, `mutants`).

### WelcomeMailOutbox

`row` is the table.  A row's name is its rank in `created_at`; times are
reduced to what the WHERE clause of `claimReady` asks: is `available_at` past,
and is `lease_expires_at` null, past or to come.  `relay[r]` is the run that
`relayPromise` of instance `r` stands for: where it is, the rows of its batch
still to relay and its lease owner.  `app[r]` is the life cycle: timer running,
shutdown waiting, queue closed, down.  `job` and `mails` are the BullMQ queue
and what its consumer did; the consumer is not in the repository and is
modelled as completing any waiting job once.  `Register` is the outbox row that
the commit of `Registration` publishes.

A database or Redis call is one atomic step that either succeeds or fails.  A
failing call may have taken effect (the reply is lost).  The claim is a
transaction, hence two steps: `Claim` selects and locks, `CommitClaim` writes
and unlocks; UPDATEs by others wait for the lock, other claims skip it.  A lease
owner is a fresh UUID: the model takes any member of `Lease` nothing refers to,
so claims are unbounded and states finite; `LeaseAssumption` keeps one
free.  Not modelled: `attempt_count` (nothing reads it); a poll while a run is in
progress, which returns at once; the order of the other shutdown hooks, of
which closing the database under a run is covered by its calls failing.

### Registration

Each request looks up the username, then the email, inserts into the two
indexes in the order the migration creates them, inserts the outbox row and
commits.  A lookup sees committed rows only; an index entry waits for an open
transaction with the same key and is a duplicate once that has committed.  Any
step may fail and roll back; the COMMIT may take effect without an answer.
Hashing is the gap between the lookup and the insert.

### UserAvatar

One user, since every statement is restricted to the owner's rows.  An upload
names its storage key and its attachment (both fresh UUIDs).  `file` is absent,
partial or whole.  The transaction holds `lock` from `SELECT ... FOR UPDATE`
to its end and publishes row and image together.  `PUT /user` is
`findByUsername`, the SELECT that TypeORM's `save` does to find the changed
columns, and the UPDATE of those.  The set `Faults` says what may fail, so a run
can ask what holds when one thing never happens.  A crash ends one upload; a
process that dies with several is several crashes.  Not modelled: the user not
found (users are never deleted), the media types of a stored row.

### LazyRedis, AuthSession, LoginRateLimiter

`RedisTokenDenyListClient` and `AuthLoginRateLimiter` open their ioredis client
in the same way, with the first command, through a promise that all commands
share.  `ready` is that promise, `status` the state of the client, which
reconnects by itself, and `call[r]` what became of the command of request `r`.
A connection that breaks loses replies: a command may run twice
(`maxRetriesPerRequest: 1`).  Redis keeps its keys over an outage.

`AuthSession` counts time in ticks, `TicksPerSecond` to the second, because the
code floors: `left[t]` is `exp - floor(now / 1000)`, `denied[t]` the ticks until
Redis drops the deny-list key.  `req[r]` is what a guarded request does next:
GET, for a logout then SET with the time to live computed when the GET has
answered.  `answer` is what the last step answered, and `loggedOut` the tokens
whose logout got its 204.  `Login` and `UpdateUser` issue tokens; of the unused
ids it does not matter which.

Facts the model shows and the properties leave room for: a request whose GET is
delayed past the expiry of both token and key gets through, since the expiry is
checked first; a `PUT /user` in flight during a logout issues a new token, and
the token presented stays valid.

`LoginRateLimiter` increments `hits` of the e-mail address and of the IP address
in one script, before user and password are looked up.  A count above
`MaxAttempts + 1` is the same as that.  `passed` counts the attempts let through
since the counter of a key began.

### ArticleStore, ArticleLocks, ArticleReads

`ArticleStore` has one request per transaction and one step per request: it
succeeds, or is refused with a 404, 403 or 409 that is true at that moment, or
fails.  `ArticleLocks` has a step per statement.  `held[r]` are the locks:
`FOR UPDATE` where the code asks for `pessimistic_write`, `FOR KEY SHARE` where
an insert checks a foreign key, and the entries of the unique indexes of slugs
and tag names.  `draft[r]` is the row as the transaction will leave it, `todo[r]`
the tag names it has still to insert, `seen[r]` what `getBySlug` has read inside
it.  Writes show at the commit, whose reply may be lost.  Who waits in a cycle
may be chosen by the deadlock detector and then answers 500.  The title stands
for title, description and body; of `updated_at` only whether it moves is
modelled.

`ArticleReads` runs each `GET` statement by statement between the writes of
`ArticleStore` and follows and unfollows.  `got[r]` is what its statements have
returned; `could[r]`, which only the properties use, is what one snapshot would
have answered at each moment since it began.  With `skip`, `take` and a join
TypeORM asks for the ids of a page and then for its rows, which must still
match: a page may be short.  The detail without a transaction may say
`favorited` with a count of 0, or show an article that is just being deleted
without its tags; `plans/260910-0930-medium-clone-backend` chooses "no read
transaction" (phase 04c), so no property forbids it.  Lists count both in one
statement, and `FlagIsCounted` holds for them.

### DatabaseReset

`Url` is a record of what `sameDatabaseTarget` and the driver look at: spelling
of the host, port, the `host` and `port` parameters, which may be repeated or
have several values, and the database.  `Reached` is what the driver connects
to, which reads repeated parameters otherwise than the check.  `env` is what a
run works with after reading `.env`; then it connects, drops, reads the executed
migrations, runs the others and closes.  Every step may fail, every run be
killed, and runs may overlap.

### The hooks' files

`HookSession`: `updateSessionState` is an exclusive lock file, a read, an
updater, a replaced file and a release, `pc` and `step` of each hook.  A hook
that prompts reserves its scope (`reserveInjectionScope`), delivers the rules and
marks or clears the reservation.  `session-init` resets `activePlan`, which is
not modelled, and keeps the rest.  A file that cannot be read counts as `{}`
and is overwritten; a lock that looks stale is removed: after these the
variable `fault` excuses what follows.

`HookLog`: append and rotation under a lock file, and the append without it of
a hook that waited too long.  A rotation empties the log (`Truncate`) and then
fills it (`Fill`).  Between the two it can be killed, with its lock, or fail in its
write, silently and with the lock released: the log then has some of the lines it
should have, or none, although everything was appended under the lock.  Nothing in
the code prevents this loss, and `LogIsRecent` does not deny it: `all` is what was
appended since the last rotation that was cut short, after what that one left, and
the log is its newest part.  An append that fails half-way leaves an unfinished
line (`cut`), of which the next entry becomes a part.  `skipped` counts the
rotations in a row that failed before they wrote; the log can be that much
longer than `MAX_LINES`.

`GitInfoCache`: a query reads the cache or runs git and writes the one temporary
file of the directory, which another query may be writing too, and renames it;
the hook after an edit removes the cache.  A torn file may so be published; it
cannot be parsed and counts as none.

`SessionSnapshot`: the end of a subagent adds its section to `latest.md`, the
end of a turn writes it anew with the sections it read, copies it to the archive
and prunes that.

`HookThrottle`: six hooks in five kinds.  They differ in what the file holds (its
time, a time, a count with its start, a time for every key) and in whether they
stamp before or after they act; `kind` selects one.  Writing empties the
file (`Open`) and fills it (`Fill`) unless it is renamed; both can fail (`Fail`).

`MemoryQueue`: the Stop hook writes a temporary file and links it under the
session's name, which fails if the name is taken; the nudge counts captures
newer than the graph (files may have the same time, and `memory-graph-nudge.cjs:45`
asks for a later one, so the property excuses a tie).  The extraction is external.

`Telemetry`: an append opens the buffer and writes to what it opened, even if
that has been unlinked; the Stop hook reads, deletes and posts, in this order; a
session's start looks at the age of the others' buffers and unlinks them.  All of
these may fail without a word.  A read that fails gives no events, and the buffer
is deleted all the same: they are `lost`.  A deletion that fails leaves what was
read in the buffer (`left`), to be posted again.  An append that fails half-way
leaves an unfinished line (`cut`); the next event becomes part of it and is lost.

`UsageCache`: a refresh asks the service, or gives up after `Timeout`, and
replaces the cache with the time of its writing.

## Runs

Every bound is in the `.cfg` of the run, or in the MC module it names.

| Run | Instance | Distinct states | Shows |
|---|---|---|---|
| `outbox_safety` | 2 rows, 2 instances, 4 leases, batch of 2 | 157 442 | one mail at most, a shutdown drains, leases fenced, and `WelcomeMailDelivery` implemented |
| `outbox_live` | 2 rows, 1 instance, 3 leases, batch of 2 | 25 848 | every row is dispatched, whatever earlier failures left |
| `register` | 3 requests, 2 usernames, 2 emails | 45 536 | unique users, a mail for each, true answers, every request answered |
| `auth` | 2 guarded requests and a token of 2 ticks; a login, 1 email, 2 addresses, 1 attempt in a window of 2 | 53 976 | logout sticks, 401 and limit are true, requests and lockouts end |
| `avatar_uploads` | 3 uploads, 1 reader, every fault but a lost COMMIT reply | 45 056 | a readable avatar, failures without effect, retried clean-ups, honest reads |
| `avatar_all` | 2 uploads, a bio and an image update, 1 reader, every fault | 315 236 | no stranded file even then, uploads end |
| `article_locks` | 3 requests of 13, 2 users, 2 slugs, 3 tags | 124 356 | `ArticleStore` implemented, deadlocks known, stamp follows content, requests end |
| `article_reads` | 1 reader, 2 writes of 8, any follows of one user, 3 articles | 552 530 | exact and single-moment answers |
| `tooling` | the nine instances below, one per behaviour | 5 104 860 | the reset and the hooks' files |
| `put_lost_update` | 2 uploads, 1 bio update, no fault | | violated, finding 1 |
| `undo_after_commit` | 2 uploads, lost COMMIT replies | | violated, finding 2 |
| `auth_reconnect` | 2 guarded requests, 1 login | | violated, finding 3 |

Why the bounds suffice.  A stale lease needs a holder and a successor (two
instances); a row left behind in a batch needs a batch of two; four leases are
two for the rows and two for the runs, so a claim never lacks one.  Three
requests of registration are a winner, one that loses on the username and one
on the email, or a chain of waits over both indexes.  Three uploads are one
whose clean-up failed, one that retries it and one concurrent with either.

A token of one second and two ticks a second can be issued and logged out before
and after the second turns; two requests are a logout and another that began
before or after it.  Two addresses of one email and one attempt are enough for a
limited and a free key in one script.  The proofs remove these bounds.

Every cycle of `DeadlocksKnown`'s two kinds needs two transactions; a third
waits behind them or joins.  Both orders of tags, repeated tags, a tag that
exists and an update that changes nothing are among the 13 requests; the two
favorites of `u2` and `u1`, their comments and deletions meet on one article.
`article_reads` starts the writes when the request arrives and stops them when
it is answered, as what happens outside is another start.

`tooling` holds nine instances with no variable in common, so one behaviour is
one of them (`side`): three hooks on the session file, one killed at most; two
runs of the reset over eleven spellings of a URL; five log entries with three
lines kept; two git queries; two subagents and two turns; three throttled hooks
on one or two keys; two Stops of one session; two events, two Stops and a
sweep; two usage refreshes.  Each is two or three writers, which is what their
races need, plus one whose file the others leave behind.

Deadlock is not checked where the system really stops: every request is
answered, every hook has ended.

### Fairness

* Outbox: weak fairness of each instance's run (an awaited call returns, the
  interval fires), of finishing a shutdown and starting again (a supervisor),
  and of time passing for each row.  Failures are never fair.
  `EventuallyDispatched` is about behaviours where at some moment (`Calm`)
  failures, crashes and stops end; from then on a run that holds a lease is
  also assumed to finish within its 30 seconds (`LeaseExpires` waits for
  `Working`).  Before `Calm` a lease may expire at any moment, since the instance
  computes it from its own clock.  The consumer of the queue is not fair.
* Registration: weak fairness of an open transaction's next statement.  Nothing
  obliges a client to begin.
* Avatar: weak fairness of an upload's next call, strong fairness of getting the
  row lock (PostgreSQL queues the waiters; the lock is released and taken
  infinitely often otherwise).
* Redis: weak fairness of connection attempts and of the clock (the clock for
  the limiter only), strong fairness of running a command and of its reply,
  since ioredis sends again or fails what a break cut off.  Redis itself may stay
  away for ever.
* Articles: weak fairness of a transaction's next statement, and of the
  deadlock detector ending some cycle.
* Reads, the reset and the hooks: none; their properties are safety properties.

## Findings

1. **`PUT /user` undoes a concurrent avatar upload**
   (`src/users/user.service.ts:33`).  `save` writes every column in which the
   loaded entity differs from the row by then.  A request with only a bio, loaded
   before and compared after an upload commits, writes the old image back; its
   file is already removed.
2. **The undo of an upload whose COMMIT reply was lost removes the current
   avatar's file** (`src/auth/user-avatar-handler.ts:136`).  The user keeps an image
   that is answered 404.  The next upload repairs it.
3. **A request is answered that Redis is unavailable while it is there**
   (`src/auth/redis-token-deny-list-client.ts:48`).  After a first attempt failed the
   promise is forgotten, but ioredis reconnects by itself; the next request calls
   `connect()` on a client that is connecting or connected, which rejects.
   It stays so until the connection breaks again.

Further places where a comment or a document says more than the code does.  They
have no run: the model shows what the code does, and nothing else depends on it.

* `auth/user-avatar-handler.ts:151`: a marker row that cannot be saved is only
  logged; `docs/journals/260925-1531-phase-3f-avatar-review.md:30` asks to
  "preserve a retry row whenever cleanup fails".
* A favorite locks the user and then the article, a comment the article and then,
  by its foreign key, the user; phase 04i of `plans/260910-0930-medium-clone-backend`
  has "keep lock ordering viewer → article consistent with existing mutations".  The
  two can deadlock (`DeadlocksKnown`); one of them then answers 500.
* `lib/tkm-config-utils.cjs:267-269` looks at a stale lock and unlinks the path in
  two steps, so it may remove a fresh one; line 301 says "under an exclusive file
  lock".
* `post-edit-simplify-reminder.cjs:9,11`: "Counter resets when the simplifier runs",
  "5+ distinct file edits".  `simplifierRun` is never set and does not reset the
  count, edits of one file count, one file serves all sessions, and after
  two hours the last reminder is forgotten with the count.
* `guardrail-realtime.cjs:16` has a gap "in one session"; one file serves all.
* `graph-reindex-sync.cjs:31`: "while one is in flight"; the marker is touched at the
  start only, and an update of more than ten minutes can be overlapped.
* `lib/hook-logger.cjs:68`: "keeps the last TRUNCATE_TO lines".  A rotation that is
  killed or fails between emptying the log and filling it keeps fewer, or none;
  line 79 has "rotation failure is non-fatal".
* `telemetry.cjs:207`: "Delete buffer unconditionally".  A deletion that fails is
  ignored and the events are posted twice; a buffer that could not be read is
  deleted with them.
* `telemetry.cjs:11` names `~/.codex/sk-events`; line 38 uses `~/.claude`.

## Proofs

`WelcomeMailOutboxProofs` holds for any set of rows, instances and leases and
any batch size.  Assumptions: `OutboxAssumption` (rows are numbered) and
`NoLeaseAssumption` (NULL is no UUID).  `BatchSizeAssumption` and
`LeaseAssumption` are about the instances TLC runs; no proof needs them.

The safety properties are not inductive: that a row is marked dispatched only
with its job in the queue follows from where the run is, and that a lease has
one holder from how a claim gets it.  `IInv` adds to the properties

* `RunInv`: an idle instance has no batch and no lease, and no two runs share a lease;
* `ClaimInv`: rows under an open claim are as the WHERE clause found them, and
  two open claims share no row (the row locks);
* `DueInv`: a leased or dispatched row is due, so that time cannot touch it;
* `JobInv`: batches are of registered users, the row about to be marked has
  its job, and a mail was sent exactly for each completed job.

| Theorem | States |
|---|---|
| `Invariance` | `Spec => []IInv` |
| `TypeCorrect`, `NoLostMail`, `NoDuplicateMail`, `RowsConsistent`, `GracefulShutdown`, `LeaseHasOneHolder` | the invariants of `WelcomeMailOutbox` |
| `LeasesAreFenced`, `DispatchedForGood` | its action properties, by `RowSteps`: the ways a step can change a row |
| `Implements` | `Spec` implements `WelcomeMailDelivery`: each step is one of its steps or hidden |

`StepIInv` has one step per action.  The lemmas before it say what the helpers
return (`ClaimedRow`, `DispatchedRow`, ...) and what steps shared by several
actions do (`EndRun`, `CommittedClaim`, `UpdatedRow`, `AddedJob`, `TimedRow`).

`RegistrationProofs` holds for any requests, usernames and emails, and needs no
assumption.  `UniqueUsers` is not inductive: a commit keeps it because the
transaction's keys are nobody else's.  `RInv` adds `ProgressInv` (what a
transaction has inserted, by where it is) and `KeyInv` (an index entry is one
transaction's and no committed user has it).  `MovedOn`, `RolledBack` and
`Committed` are the three ways a request steps; the theorems are
`Invariance`, `TypeCorrect`, `NoDuplicateUsers`, `MailForEveryUser` and
`RepliesAreTrue`.

`AuthProofs` says first, once for the session and the limiter, that the
connection keeps its types (`RedisTypes`) and how a step of the caller
(`CallerSteps`) or of the network (`NetworkSteps`) can move a command.

Its part on the session holds for any requests, tokens, lifetime and ticks
(`TimeAssumption`, `NoneAssumption`).  `LogoutSticks` is not inductive: the logout's
time to live is computed when its GET has answered and stored when its SET runs,
a tick or a second later.  `SInv` says that the key of a logged-out token covers
what is left of it (`DeniedUntilExpiry`), that a SET under way will, and that a
request which began after the logout cannot have missed the key.  `NoKeyNoToken`
and `TickCovers` are the arithmetic.  Theorems: `Invariance`, `LogoutIsFinal`,
`KeyOutlivesToken`, `RefusalIsTrue`.

Its part on the limiter holds for any callers, keys, `MaxAttempts` and `Window`
(`LimiterAssumption`): `LInv` adds that `passed` is at most the count, and
`AtMostMaxAttempts` is `WindowBound`.

`UserAvatarProofs` holds for any uploads, updates and readers.  With every fault,
`AInv` (`TypeOK`; `StageInv`: what an upload owns, by where it is; `StaleInv`: what
it may delete; `ReadInv`: what a reader has seen) gives `TypeCorrect`,
`NoReaderFindsTornFile` and `NoFileIsStranded`.  `BInv` adds who holds the row lock
(`LockInv`), what an update has loaded (`PutInv`), that the image names a whole
file (`ImageOK`) and that the clean-up list is of others (`ListOK`).  It holds if
nothing of findings 1 and 2 happens (`Undisturbed`: no lost COMMIT reply, no
`PUT /user` without an image) and gives `AvatarStaysReadable` and
`ErrorsChangeNothing`; findings 1 and 2 are why the assumption is needed.

What clean-ups leave is about all uploads at once, in the order of their turns at
the row lock:

| Theorem | States | Needs | Adds |
|---|---|---|---|
| `SuccessIsClean` | `RetryCleans` | `NoLostCommit` | `LateInv`: what an upload lists has ended its transaction, so it can only go; before `records` each entry was removed or its removal failed |
| `ReadersGetTheTruth` | `HonestRead` | `Undisturbed` | `GoneInv`: what a reader looks for was committed; whoever finds nothing looks for what is no longer the image, and an image once replaced does not come back |
| `ExactlyOneIsLeft` | `OneAvatarLeft` | `NoPut`: `NoLostCommit` and no `PUT /user` | `ChainInv`: a stored avatar is the image or on the list of the upload that is the image |

A lost COMMIT reply makes an upload undo what is stored (finding 2), and a `PUT
/user` with another image leaves the avatar that was the image to the next
upload, which is why `ExactlyOneIsLeft` has none.

`ArticleLocksProofs` holds for any requests, users, articles and tags, and any
database at the start that keeps the constraints of the tables
(`StoreAssumption`); `AskAssumption` is what validation lets through, with the
one fact about the fold `Unique` that an induction would be needed for (names
without repetition are names), and `LockAssumption` says that `None` is no lock.
`IInv` says that clashing locks are never held together (`Exclusion`), that a
transaction past `LockArticle` or `InsertArticle` holds its article or its slug
(`Guarded`), and that what it has prepared and read is what the store would do
and show now (`Prepared`, `Answers`).  `CommitSpares` is the heart: nobody else's
article, favorites or comments move when a transaction commits.  A commit is then
`Succeed`, a refusal `Refuse`, and a failure or a deadlock's victim `GiveUp`:

| Theorem | States |
|---|---|
| `Implements` | `Spec => ImplementsStore`: every request takes effect at one moment and its answer is true of it |
| `StampIsTrue` | `StampFollowsContent`, from `Implements`'s step lemma and `UpdatedRow` |
| `OnlyKnownDeadlocks` | `DeadlocksKnown`, for any number of transactions |
| `LocksExclude`, `TypeCorrect`, `Invariance` | `Exclusion`, `TypeOK`, `IInv` |

For the deadlocks `HInv` says which kinds of lock a request can hold where it is.
By `WaitsForWhom`, who waits for a tag name waits for somebody at its tags, so the
requests at their tags are a cycle of their own; and if there are none, so are the
favorites that wait for their article and the comments that wait for their author.

`ArticleReadsProofs` holds for any readers, queries and writes (`StoreAssumption`:
finitely many favorites; `ReadsAssumption`: `Newest` lists each article once, nobody
is called `None`, offset and limit are numbers).  ORDER BY is `InOrder`: by `Ordered`
it lists each article of a set once, at its `Place`, and by `Sorted` there is no other
list in that order, so the rows of a page that still match come in the order of its ids.

| Theorem | States | Invariant |
|---|---|---|
| `CommentsAreOfOneMoment` | `CommentsOfOneMoment` | `SnapshotOK`: the snapshot of a comment list is of a moment `Observe` has seen |
| `FlagsAreCounted` | `FlagIsCounted` | `FlagOK`: count and flag, read by one statement, agree until they are answered |
| `PagesAreOfOneMoment` | `PageOfOneMoment` | `PageOK`: the total was that of a moment, and the rows matched together when they were read, in order |
| `AnswersAreTrue` | `AnswersAreExact` | `QuietOK`: as long as `Observe` has seen one answer only, all that has been read `Agrees` with it; and `TypeOK` |

`could[r]` always has the answer of this moment while `r` is under way (`SeenInv`),
so if it has one member, that one is `AtOnce` and nothing has moved (`OneMoment`).

The database reset and the hooks' files are proved about in the composition that
`tooling` checks, `MCSpec`: `OneSide` says that a step of it is a step of one
instance.  The assumptions are those of the modules (`ResetUrls`, `LogLengths`,
`GitNumbers`, `SnapshotFiles`, `ThrottleTimes`, `QueueFiles`, `TelemetryHooks`,
`UsageNumbers`, `HookAssumption`): bounds are numbers, `None` is no value, a URL
is a record of the parts `UrlOK` names, a rotation keeps less than it starts at.
Each property also says that the module keeps its types.

| Theorem | States | Invariant |
|---|---|---|
| `TheStampIsHonest` | `StampIsHonest` | `UsageInv`: an answer under way was the usage when it was asked for, or later, and was asked for at most `Timeout` ago |
| `NoAnswerFromBeforeTheEdit` | `FreshAfterEdit` | `GitInv`: all that a query holds, and the two files it may write or rename, are no older than the last edit that no fetch overlapped |
| `EverySectionIsKept` | `SectionsKept` | `SnapshotInv`: without overlap `latest.md` has what was recorded, and a turn that copies finds it |
| `OnlyOldEntriesAreLost` | `LogIsRecent` | `LogLockInv`: who owns the lock is alone; `LogInv`: the log, or while it is filled what is to be written, is the end of what was appended, and only a failed rotation or an unfinished line makes it long |
| `TheApplicationIsSafe` | `ApplicationSafe` | `ResetInv`: a run past its check works with what it has accepted; `ReachedIsCompared`: whatever the driver reaches, the check has compared |
| `SuccessMeansMigrated` | `SuccessIsMigrated` | `SchemaInv`: an empty schema is still to be migrated by one that dropped it, or that one failed |
| `EveryCaptureIsKept` | `CapturesKept` | `CaptureInv`, `QueueInv`: a name is linked once, to a whole file, which no extraction under way has missed |
| `RulesAreInjectedOnce`, `TheMilestoneStays` | `OneInjection`, `MilestoneStays` | `SessionInv`, below |
| `EveryEventIsKept` | `EventsKept` | `KeptInv`: what was written is in the buffer, being posted, received or lost; `OnceInv`: without overlap one Stop at most holds an event that could be deleted, and nobody what was received |
| `ThrottlesAreHonest` | `ThrottleIsHonest` | `ThrottleInv`, below |

`SessionInv` holds until a `fault`.  The hook at work owns the lock (`LockInv`).  The
session file `Covers` the history: a reservation or delivery that still counts is
in its entry, although an updater drops expired ones (`FileInv`, `EvictedCovers`).
That is true of the file as the hook at work has read it (`SectionInv`) and of the
one it is about to write (`WriteInv`), so a reservation it writes is permitted by
all that was claimed or marked, and not only by what it saw.

`ThrottleInv` has two halves.  Whatever is disturbed, what a file holds has been
stamped and is not of a time to come (`StampInv`, `PastInv`), so nobody is held
back for nothing.  Until something is disturbed, a marker has been touched since
whoever acted began (`MarkerInv`), or one hook at most is at work and the file, or
what that hook is about to write, `Recalls` the last act of every key: it has a
time not before it, or is a count begun since (`WorkInv`).  `Solo` is the step of
a hook that is alone.

Proved and in no run, as the proofs say more: the type invariants of the backend's
modules but `ArticleReads`, `DispatchedIsQueued`,
`RowConsistent`, `OneHolder`, `DispatchIsFinal`, `DeniedUntilExpiry`, `NoTornFile`.

Only model-checked: liveness of all components and what depends on `ENABLED`
(`EventuallyDispatched`, `EveryRequestAnswered`, `RequestsEnd`, `UploadsEnd`,
`LockoutEnds`), as the provers do not handle fairness.

## Not modelled

* The tag list, configuration, bootstrap and the HTTP layer (`tags/`, `config/`,
  `common/`, `main.ts`, `*.swagger.ts`, DTOs): a single statement, or no state and
  no interleaving.
* The rest of the kit under `.codex/hooks`, which with its tests, a vendored
  `ignore.cjs` and some twenty identical generated wrappers is two thirds of the
  repository's code: hooks that match strings, format output or guard a command
  and keep nothing.  Of those that keep something, the user-identity cache and the
  signature of the docs nudge are replaced in one write by whoever comes last; the
  eligibility cache and `loadUsageCache` of the context builder have no caller.
  The models cover the code with shared state, a smaller share of the lines; the
  rest would be a transcription with nothing to check.
* Deletion of users, which the API does not offer.
* In the modelled parts, what the sections above name: wording, the values of
  `updated_at`, media types, `attempt_count`.

## What is left

Every safety property of a passing run has a theorem.  The liveness properties are
checked on the runs' instances alone; what could still be proved for them are the
invariants that a step exists whenever somebody waits.
