# quart: specifications of the API's concurrent core

TLA+ specifications of quart, a multi-tenant civic-participation API (NestJS, PostgreSQL with
row-level security, Valkey, BullMQ), their model-checking configurations, and proofs checked by
TLAPS. Paths below are relative to `src/`; `api/` stands for `apps/api/src/`, `mig/` for
`infrastructure/postgres/migrations/`.

## 1. Inventory

| Component | State | Operations | What is hard |
|---|---|---|---|
| Audit log (`api/audit`, `mig/0006`, `0013`, `0040`) | `audit_log` rows, its id sequence, an advisory lock | `write`, `writeSystem`, the trigger `audit_log_chain_stamp`, `GET /admin/audit/verify` | every mutating transaction of the system appends to one chain; ids are drawn before the lock; rollbacks; deadlocks of bulk changes |
| Audit anchors (`api/queue/audit-anchor.worker.ts`) | `audit_anchors` rows, the range in the worker's memory | read, call to the time-stamping authority, insert | the three steps are in no transaction; the log grows in between |
| Sessions (`api/auth/jwt-auth.guard.ts`, `sign-out.service.ts`, `valkey.service.ts`) | `auth_sessions` rows, `sess:<jti>` cache lines with a TTL | the guard, sign-out, expiry | cache against database, best-effort cache writes, slow requests |
| MFA and RBAC (`api/auth/mfa*`, `api/rbac`) | claims of the token, `role_permissions` | two more guards; `enroll`, `verify`, `consumeBackupCode` | claims outlive what they claim; MFA signs tokens for sessions that do not exist |
| Password resets, magic links (`api/auth`) | `password_resets`, `magic_links`, the user's hash | issue, consume | single use under concurrency, failure after consumption |
| Deliveries (`api/notifications`, `api/queue`) | `notification_deliveries`, BullMQ jobs, `push_subscriptions`, the fan-out's list in memory | fan-out, workers, sweepers | crash between commit and add, retries and stalls, racing sweepers, a Valkey that restarts from a snapshot, batches that never drain |
| PII keys (`api/queue/pii-rotation.worker.ts`, `mig/0007`) | `pii_key_versions`, jobs on the queue `cleanup` | rotation, SQL encrypt and decrypt | one transaction per city, jobs run again, two kinds of worker on one queue |
| Polls, ideas, comments (`api/polls`, `api/ideas`, `api/comments`) | their tables, votes, reactions | create, update, moderate, vote, react; lists and pages | read-then-write at READ COMMITTED, unique keys, soft deletes, answers pieced together from several statements |
| Issues, accounts, roles, taxonomies, settings, bookmarks, inbox, photos (`api/issues`, `api/admin*`, `api/users`, `api/topics`, `api/saved`, `api/uploads`, ...) | their tables, the issue timeline, the object store | the citizen and admin endpoints, searches and lists | isolation of cities left to the policies, tenant contexts made of token or headers, replacement of role sets, timelines ordered by the start of a transaction |
| Throttler (`api/security`) | counters and blocks in Valkey | one Lua script per throttler | window edges, lost answers, fail-open, restarts from a snapshot |
| Migrations runner (`apps/migrate`) | `kysely_migration`, the schema and its seeds | passes over the pending migrations | partial failure, migrations outside a transaction, order, overlapping runners, rollbacks |
| Tenant settings (`api/db`, `api/common`'s tenant interceptor, `mig/0011`, `0015`, `0038`, `0039`) | the tenant context of a request, `SET LOCAL` settings, policies | context from token or headers, decisions of the policies | which of two contexts a handler uses, what a policy hides, what it refuses |
| The rest (health, logging, OpenAPI, configuration, packages, infrastructure) | none of their own | | |

How they interact: a request passes the throttlers (Valkey), the guard (Valkey, then PostgreSQL),
MFA and RBAC; then an interceptor may put a tenant context made of headers in the place of
the token's; then a service runs one `runInTenantTx` transaction that changes an entity and appends
an audit row; notifications are written in a transaction and handed to BullMQ after it; workers
and sweepers of every API replica take jobs from queues they share; two of those jobs (the anchor
and the key rotation) work on the tables the first ones wrote. The migrations run before any of
it, from a program of their own, perhaps more than one at a time.

`PROJECT.json` lists, under `hazards`, what in this code a test hardly reaches, at its line, with
the property that would catch it.

## 2. Modules

| Module | What it is |
|---|---|
| `AuditLog` | transactions, locks, the id sequence, the trigger, the verify walk |
| `AuditAnchor` | extends `AuditLog` with the anchor job; states the refinement |
| `AppendOnlyChain` | the abstract chain that `AuditAnchor` implements |
| `SessionCache` | guard, sign-out, cache and clock |
| `Access` | extends `SessionCache` with the guards behind it, and MFA with its tokens |
| `Credentials` | password resets and magic links, statement by statement |
| `SingleUse` | the abstract one-time token that `Credentials` implements |
| `Delivery` | fan-out, jobs, workers, provider, sweepers |
| `PiiRotation` | rotation jobs, rotation transactions, key versions, SQL helpers |
| `Participation` | what changes polls, ideas, comments, votes and reactions |
| `Viewing` | extends `Participation` with what a reader is shown meanwhile |
| `Administration` | what changes issues, accounts, roles, reference data, bookmarks, inbox and photos, under row-level security |
| `Reading` | extends `Administration` with what a reader is shown meanwhile |
| `Throttler` | the five rate limits in front of every route |
| `Migrate` | the migrations runner |
| `AuditLog_proofs` | theorems about `AuditLog` and `AuditAnchor` |
| `Access_proofs` | theorems about `SessionCache` and `Access` |
| `Credentials_proofs`, `PiiRotation_proofs`, `Migrate_proofs` | theorems about their components |
| `Participation_proofs` | theorems about `Participation` and `Viewing` |
| `Administration_proofs` | theorems about `Administration` and `Reading` |
| `Valkey_proofs` | theorems about `Throttler` and `Delivery`, whose state is in Valkey |
| `MC*` | the instances for TLC |

Definitions whose comment begins with *Variant* are plausible mistakes in the code. They are in
no specification: each is substituted for the definition it varies to see that a property notices.

### AuditLog

A transaction `t` runs `Plan[t]`, the entities it changes in order: one for the ordinary
endpoints, several for the bulk ones (`api/admin-issues`), for which the loop changes an entity
and appends its audit row before it goes on. `UpdateEntity` takes the row lock; `SkipEntity` is the
UPDATE that matches nothing (the loop's `continue`, `writeSystem`'s `skip`); `DrawId` is the
bigserial default; `audit_log_chain_stamp` is the trigger, one step because it runs under the
advisory lock; `Commit` and `Abort` end the transaction, `Abort` at any point. Visibility is READ
COMMITTED: the head query sees committed rows and the transaction's own (`Visible`); the function
is SECURITY DEFINER and so sees all cities. A hash is modelled by what it commits to, the sequence
of payloads from genesis; that makes equal what HMAC-SHA256 makes equal. The reads `buildRow`
makes before the INSERT are left out: the trigger overwrites everything computed from them.
Locks, the deadlock detector and visibility are PostgreSQL's and marked external.

The verify walk is `BrokenAt`: the first row, in id order, whose `prev_hash` is not its
predecessor's `row_hash`.

### AuditAnchor and AppendOnlyChain

`computeAnchorRange` reads the newest `Lookback` rows, `runAuditAnchor` stores the anchor unless one
with its hash exists, `AnchorFails` is any failure between. `AppendOnlyChain` says what the chain
promises without ids or locks: a transaction appends payloads of its plan, in order and at once (it may
have skipped some), and nothing leaves. `ImplementsChain` maps its `chain` to what the newest committed
row's hash commits to.

### SessionCache

A request passes through the places `cache`, `db`, `positive` or `negative`, and is `granted`,
`denied` (told that the session was revoked or has expired) or `refused` (an unreachable cache, a
fingerprint mismatch), one step per `await`. A granted request may be a sign-out (`signOut`
commits the revocation, `poisonCache` writes the cache) or any other endpoint. Either cache write
may fail. A jti of `Minted` has a signed token and no session row. `Tick` expires lines and is held
back while a request is `Pause` ticks old: the bound on how long a request takes.

### Access

`Enter`, `MfaGuard` and `RbacGuard` are what a granted request passes before its handler; `gate`
says which guard is next, with the permissions it will ask for and the time of the last one passed.
`JwtAuthGuard` is both the application's guard and on the controllers; it is modelled once. Role
snapshot and verification times are claims of the token, which no step changes. `enroll` is always
refused: its upsert names a column without a unique index of its own (`api/auth/mfa.service.ts:80`,
`mig/0026:36`). So no credential is ever stored, `consumeBackupCode` is always false, and `verify`,
given a right code for the secret in the token, signs a token with a jti of `Minted`. Tokens of
sessions are signed outside this repository (`SignIn`); the expiry claim is left out. RBAC waits
for a query of any length, MFA for nothing.

### Credentials and SingleUse

A request makes a token (`issue`, then `send` the mail) or brings one back (`Present`, `consume`,
for a reset `hashPassword` and `updatePassword`, `Commit`). The consuming UPDATE is judged on the
committed row and holds the row lock until the transaction ends, so an uncommitted consumption is
its lock (`rowLock`) and a second UPDATE waits, then looks again; the row of the user is locked in
the same way. `Abort` is any failure in the transaction, the second disjunct of `Commit` a commit
whose answer is lost: `reset` then says false, `consume` throws. A password that cannot be hashed
makes `writeSystem` skip its audit row and commit the consumption: the token is spent without a
reset. That contradicts the comment at `api/auth/password-reset.service.ts:176-178`, and is a
behaviour of the model. A lifetime is compared with the clock of the request (`asked`), not of the
database. `SingleUse` promises that a token is issued once, spent once, and has an effect for the
one who spent it or for nobody; `ImplementsSingleUse` maps its `effect` to the audit rows.

### Delivery

`fanout` commits the rows; `EnqueueNext` adds one job, and the add may throw having added it or
not; `ApiCrash` forgets the rest. The workers' steps are the outcomes of `PushService.send` and
of the email sender; `SendBegun` says what an attempt that did not complete may have done.
A sweep fetches a batch (`fetchStalePending`), and for each row adds the job (`requeue`), then
records it (`recordEnqueued`, `recordSkip`), with failures between (`RecordEnqueuedThrows`,
`SweepAborts`). The queues keep finished jobs, which is what makes a second add a no-op; but the
queues are in a Valkey that saves snapshots and no append-only file
(`infrastructure/docker-compose.yml:56`). `QueueSnapshot` saves every job in `stored`, and
`QueueRestart` brings every job back to it, among them those that were added, tried or finished since,
while a worker that had one in hand may still send; `forgotten[d]` counts the restarts that took
`d`'s job back.

The fan-out is modelled as its unit test runs it, with a database that accepts its statements. On the
migrated schema its transaction fails: the INSERT into `notifications`
(`api/notifications/fanout.service.ts:84`) leaves out `city_id`, NOT NULL without a default
(`mig/0008:10`), and `push_subscriptions` gets the `status` it is filtered by in `mig/0031` only, which
always fails. Until that is mended no row reaches the rest of this model in a
deployment, and what is shown here is about the code as it is meant to run.

The sweep's branch for a push row without a subscription is left
out: `push_subscription_id` references `push_subscriptions` with ON DELETE CASCADE (`mig/0008`).
How BullMQ 5 treats a custom job id with colons is the library's business; that every add throws
is among the model's behaviours.

### PiiRotation

A rotation worker takes a job (`StartRotation`), rotates the active cities in any order (the query
has no ORDER BY), one transaction each: `Retire` is the UPDATE, `Insert` or `InsertCollides` the
INSERT, then `Commit`. Uncommitted writes live in `step` and `target`; `Free` makes a statement wait
for the transaction that holds the row or the index entry it needs. `InsertCollides` is the early
return. `RotationThrows` and `WorkerCrash` may find the commit done or not. `IgnoreJob` is the
sweep's worker, on the same queue, completing a job of the other kind. `wrap` records that the seed
wraps a key with `pgp_sym_encrypt_bytea` and the rotation with AES-256-GCM, which `pii_dek` cannot
unwrap: after a rotation `EncryptForColumn` is disabled for that city. The worker names `kek_versions`
without its schema `quart_security`; whether the search path of its connection finds the table is not
modelled, and a rotation that throws there is one of the model's. `met` is a history variable
of `ShortfallExplained`.

### Participation and Viewing

A request is a read (`Select`) and a write with its audit row and commit; other requests commit in
between. The write is one step because its row locks, and the foreign-key locks of a vote, last to
the commit. `Throw` is every reason to roll back: a missing row, the wrong status, a caller who
may not, a lost connection. `voteIdea` on a vote that is there fails on the primary key; the error
is caught, and the COMMIT of a failed transaction rolls back. `unvote` always rolls back: it reads
`numDeletedRows` from the list that `execute()` returns (`api/ideas/ideas.service.ts:261-272`).
A poll is `draft`, `open` or `closed`. The admin's `patchPoll` and `closePoll` look at no status: a
close applies to a draft, and is written without a read before it. `votePoll` and `publish` read the
status and write later, so a vote may be counted after the close, and a publication may open a poll
that was closed meanwhile: `Late` names them, and `OneWay` makes them the only exception. Nothing
cancels a poll or hides a comment. A poll that the admin's endpoint creates has no options, so nobody
votes on it: its creation is in `Administration` only. The routes of `polls.controller.ts` with an id use
`@Param(pipe)` without a name, so that the pipe gets an object and answers 400; the service is
modelled as the controller's tests call it.

`Viewing` adds one reader, whose `query` is answered statement by statement from what is committed
at each: a poll, its options and its counts are three. Whether the hydration of an idea's answer is
a query Kysely accepts could not be settled from the repository: `Throw` and `ThrowView` allow that
it is refused. All rows are of one city: that cities are kept apart is stated in `Administration`
and `Reading`, and only there. A list of comments does not check that its parent exists.

### Administration and Reading

A request is `[does |-> method, on |-> row, by |-> user, city |-> city, ...]`. Its first statement
stamps now(); what a statement reads before the last write is a step; the writes, with their row
locks, audit row and commit, are one. A row has a home, a city or `Global`, and what the policies
allow are operators over it: `Matches` (an UPDATE or DELETE finds the row), `Insert` (the row is of the
caller's city, or the statement fails), `Readable`. Nearly every handler finds its row by id alone and
relies on them.

A tenant context is a city, a user and whether it is a super admin's. The guard makes one of the
token (`Token`), never a super admin's; `TenantContextInterceptor`, which runs after the guards, puts
one made of `X-City-Id`, `X-User-Id` and `X-Is-Super-Admin` in its place when the first is a valid id
(`buildTenant`; `api/common/tenant-context.interceptor.ts:54-94`, whose test asserts it).
Every request of the model carries such headers (`sent`), and `Context` says which context a handler
runs in: that of the request (`ByTenant`), the token's user in the city of the request
(`ByTenantCity`), or the token's. The isolation properties are relative to it: `Reach` is what the
token, and the headers where the handler uses them, let a request write, and `Moved` names the
accounts whose city a super-admin context changed. They do not say that a context belongs to its
caller, which the code leaves to whoever sets the headers.

The tables of no city (roles, settings, cities) are written by a super admin's context only, and their
handlers take at most the city from the headers; so they write an audit row and change nothing, or
throw. `patchSettings` throws at its INSERT, but a body without settings runs none and commits its
audit row (`api/admin/admin-settings.controller.ts:54-73`). The controllers under `api/admin`
take their tenant from a parameter without a decorator, and are modelled as their unit tests call
them. History variables keep what was written, by whom, and which request's commit came when.

Behaviours worth knowing: two role replacements that overlap leave the union; `suspend` changes a
status that no guard reads; `reinstate` and `patchUser` after `deleteMe` leave `deleted_at` set;
`markAllRead` answers a count of 0 always; `save` has no ON CONFLICT although its comment says so, and
fails on the unique key; a photo is stored before the transaction that may roll back, and `issue_photos`
rows are never inserted; `user_roles` has no unique key on user, role and city.

`Reading` adds one reader under the policies of the token's city, except for the bookmarks, the inbox
and the profile (read in the request's context, which headers may have replaced), the audit log (read in
its city), the officers' lists (which read one city as super admin), the dashboard (which binds the city it is asked for), and
the lists of cities and translations (read by the connection's own role). An issue's page is three
statements. A search may be refused by the query builder, so it may throw.

### Throttler

A request runs the throttlers that apply to its route in order, one Lua script each, and other
requests' scripts come between. `INCREMENT_LUA` is the script: count, first expiry, block at the limit,
what is left of the block. `FailOpen`: a throttler that cannot reach Valkey lets the request
pass; `AnswerLost`: the script ran and its answer was lost, and the request passes or the client
sends the script again. Valkey saves snapshots and no append-only file
(`infrastructure`), so `ValkeyRestart` brings back `saved`; `era` counts restarts. `seen` is the history of
what each key was told, with the count and the expiries that the script had in its hands. The
environment is one that parses, with a shared Valkey: the in-memory store of a process without one is
left out.

### Migrate

The schema and its seeds are a set of facts. A migration needs facts, adds facts and may copy, which
is what an `INSERT ... SELECT` over seeded rows does, without an error when it finds none. One whose
record was lost is applied again: with success, and with new copies, if its statements are `ON CONFLICT
DO NOTHING` or `IF NOT EXISTS` (`Repeatable`), and fails otherwise. A runner
lists what is not recorded (`ListPending`) and applies it in order of name, in a transaction with its
record (`ApplyInTransaction`), or, when the text has CONCURRENTLY, alone (`ApplyOutside`) with the record
after it (`Record`); it notes what fails (`Rejected`, `Interrupted`) and
makes another pass until one adds no record and
sheds no failure or `MAX_PASSES` is reached (`Judge`); at the end it rewrites the record from what it
read (`ReadFinal`, `Rewrite`). It may die at any point. `kysely_migration_lock` is created
and never taken, so runners overlap (`overlaps` remembers it). A release is a set of files; a start
may be of an older one.

What made this model: the check of `mig/0003:6` allows one dot, the codes seeded by `0021` have two;
`0024` widens the check, to letters only; `0028` has digits and always fails; `0031` has several
statements with CONCURRENTLY and always fails; `0035` grants to roles that `0021` has not yet
seeded, and loses its grants silently; `0038`'s slug `__system` violates `0001:13`. After a rollback
the runner meets recorded migrations without files and exits with 1.

## 3. What is checked

| Run | Instance | Shows |
|---|---|---|
| `audit` | one bulk transaction of two issues, two single ones of the second issue; two anchor runs of two rows | `TypeOK`; uncommitted rows belong to the lock holder (`AppendsSerialized`); the verify walk breaks at the first inversion and only there (`WalkReportsFirstInversion`); every deadlock involves a bulk transaction (`DeadlockNeedsBulk`); an anchor without an inversion in its range can be recomputed (`AnchorsReproducible`); transactions end (`TransactionsEnd`); the log implements the chain (`ImplementsChain`) |
| `audit_id_order` | the same, without the anchor | `ChainInIdOrder`, what the migration's comment says, is violated |
| `session` | two requests, one session of a citizen or of an officer expiring at 2, one token signed by MFA; TTL 2, Pause 1, Window 2, clock to 5 | a grant on an ended session was answered less than TTL + Pause after its end (`StaleGrantBounded`); denials are deserved (`DenialsDeserved`); a session shut stays shut (`ShutStaysShut`); an officer reaches a handler with the token of a session, less than TTL + 2 * Pause after its end and within the window of a verification (`OfficersAdmitted`) |
| `delivery` | a push and an email, two sweepers, two attempts, one stall, cap 2 | dead-letter status and count agree (`DeadLetterAtCap`) |
| `delivery_restart` | the push, two sweepers, two attempts, one stall, snapshots and one restart that forgets | re-adding jobs never lets the provider get more messages than one job may try, and a restart costs at most one job's tries more (`SweepNeverResends`); a pending row gets a job, again after the restart forgot it, or is dead-lettered (`QueuedOrDeadLettered`) |
| `delivery_liveness` | a push and an email, one sweeper, batch of two, one attempt, cap 2 | `QueuedOrDeadLettered` for rows that share a batch |
| `pii_rotation` | two cities, two jobs, two rotation workers, a sweep worker, one stall | `OneActiveKey`, `NeverKeyless`, `ValuesStayReadable`; a completed job that left a city out met one of three causes (`ShortfallExplained`) |
| `credentials` | four requests: two resets of one user, or three on one reset, or three on one link; clock to 2, links live 1, resets 2 | tokens are spent once (`ImplementsSingleUse`); the audit log and the tables agree (`AuditComplete`); a reset answered ok set the password (`OkAnswersKept`); requests that queue on rows are answered (`RequestsAnswered`) |
| `participation` | a request that creates a poll, an idea or a comment, and any three of those that use it, by two users; or operations and one reader | the audit log tells the state of every row (`AuditReplays`); ballots are one per user and of polls that are open or closed (`VotesCounted`); nothing is taken back by a write based on an older read but the close of a poll, by votes and publications under way over it (`OneWay`); an answer pieced together from several states is explained by the audit log (`AnswersExplained`) |
| `administration` | any three requests on issues, on accounts or on topics, any two of another kind, from two cities, with headers of another city, of a super admin, of neither; one read beside two | no write leaves the cities that its token, or the headers it uses, name (`TenantIsolation`), and no answer those of the context it was read in (`AnswersIsolated`); audit rows and changes explain each other (`AuditExplained`); a timeline ends in the issue's status and officer but for overlaps (`TimelineReplays`), and a page is never ahead of it (`IssueAnswersExplained`); roles outlive a replacement only when it overlapped the grant (`ReplacementsExplained`) |
| `throttler` | one user's calls of an API route (limit 2), or two clients asking codes for one phone (pinned limit 1, environment's 2); two in flight, Ttl 2, clock to 3, five script runs, one fault | fewer than twice the limit pass in any window (`BurstBounded`); a key is refused only for more requests than the limit in two windows, another among the last of them (`RefusalsDeserved`); a refused key is let in again only after the time it was told (`BlockOutlivesCounter`) |
| `migrate` | migrations 21, 24, 27, 35, and 50 for an index built CONCURRENTLY; a release of the first two and one of all; all but 27 can be applied twice; two runners, three starts, one fault, five passes | the record names what was applied, and exit 0 vouches for it (`RecordedWasApplied`); what is applied and not recorded is CONCURRENTLY or of overlapping runners (`UnrecordedExplained`); a runner that stops early has nothing left that could be applied (`StopsAtFixpoint`); a copy is lost only when a migration overtook an earlier one that seeds what it copies (`LostOnlyOutOfOrder`) |

`TypeOK` is a run's invariant for `AuditLog`; those of `Participation` and the sessions are proved; the other
modules' typing is what their proofs' invariants begin with, and a theorem where the proofs need all of it.

### Bounds

*Audit.* Four inserts by three transactions give an inversion, two, an inversion inside a bulk change
and rows that commit into an anchored range; a cycle of waits needs a bulk transaction and one that
changes its second entity. Each transaction runs once, so the run has no deadlock check. *Session.* Two
requests are a guard and a sign-out, in either order; either starts again any number of times. The clock
runs past the session's end by TTL + Pause, and past the verification's window. *Delivery.* One row per
channel is enough for every race on a row, since rows share only subscriptions and the batch; both caps
are reached. A restart works on each job by itself, so the run with restarts has one; one that forgets,
with snapshots taken at any point before it, meets a job in every pair of states, and a second would add
another job's tries to the bound, which the proof covers. In `delivery_liveness` the rows fit in a
batch: where more than `BATCH_CAP` rows are pending, the oldest may fill every batch (section 5). *PII.*
Two cities make "the cities after it" non-empty; two workers overlap in every statement of a rotation;
one stall redelivers a job. *Credentials.* Four requests make a token and bring it back three times, or
make and bring two tokens of one user; the clock passes the expiry of a token before, during and after
the wait for its row. *Participation.* A race is between a request's read and its write, with one commit
in between that matters; three requests after the creation give every pair of operations, and a third
that sees or disturbs the result, and a publication, a vote and a close in every order. They may also
run before the creation. Polls, ideas and comments share no row, so the cases are taken apart; a reader
is paired with the operations that change what it is shown. *Administration.* The same argument; issues,
accounts and topics are taken in threes because a timeline, a set of roles or a reference from an issue
needs a third. The headers sent are those of another city, of a super admin with and without a city, of
another user and of none, on each kind of handler that reads them. *Throttler.* A limit of 2 is passed,
met and exceeded in one window and across two; the pinned limit differs from the environment's.
*Migrate.* The five migrations are one that fails at first (21), one that makes it succeed (24), one
that copies from what it seeds (35), one that cannot be applied twice (27) and one outside a
transaction; three starts are a deployment, one that overlaps it and one after both; more passes than
five were not needed by any chain among five migrations. The index of 50 is hypothetical: the
repository's only migration with CONCURRENTLY cannot be applied.

### Fairness

*Audit*: weak fairness of each statement of an open transaction and of the deadlock detector (PostgreSQL
runs it after `deadlock_timeout`); none of `Begin` or of errors. *Delivery*: the cron fires for ever and
rows age (weak fairness of `fetchStalePending` and `GrowsStale`); a sweep that reaches a row again and
again is not interrupted there every time (strong fairness of the three steps on a row). Nothing is
assumed of the broker, whose adds may fail for ever, of the workers, of the fan-out, or of when Valkey
saves and restarts. The ticks share the queue `cleanup` with the key rotation, whose worker may complete
one without sweeping: weak fairness of the fetch says that it does not get every tick, for ever; a tick
lost now and then only delays the sweep. *Credentials*: weak fairness of the statements and the commit
of a transaction; none of mails, of errors, or of clients. The other runs check safety.

## 4. What is proved

For every value of the constants under the modules' named assumptions. Every theorem is an
invariant or action property of a module's specification, or a refinement. The argument is
an inductive invariant, whose parts are named here, and one lemma per part and group of actions.

Each safety property that a passing run checks is stated by a theorem. Only model-checked are the
three liveness properties `TransactionsEnd`, `QueuedOrDeadLettered` and `RequestsAnswered`: liveness under
fairness is beyond the prover.

### Audit log and anchors

`AuditLog_proofs` (`PlanAssumption`, `NoTxAssumption`): `TypeCorrect`, `Serialized`, `WalkExact`,
`DeadlockOnlyInBulk`. Ids are unique and below `lastId`, a drawn id is nobody else's (`IdInv`), and
every row was stamped from a row that is committed or its own transaction's (`ChainInv`); the lock
holder is the only one with uncommitted rows (`LockInv`). So when a row is stamped the head it saw is
the newest row there is, and rows with ids below an uninverted row's are linked exactly when none is
inverted; hashes are longer than those they extend, so no two rows share one unless they share a
predecessor, which the lock excludes. Deadlock (`SingleInv`): a transaction with one change that
waits holds nothing another waits for, unless it holds its row lock and waits for the chain lock,
whose holder, having one change, no longer waits.

`Reproducible` adds the anchors (`LookbackAssumption`). A row that has yet to commit was stamped
with a head that no committed row is above (`HeadInv`). If such a row commits later into a range that
was anchored, its id is below its head's, and it is inverted: the hash of a range is its anchor's until
an inverted row enters it (`AnchorInv`).

`ImplementsAppendOnly` is the refinement of `AppendOnlyChain`. What a running transaction has stamped
extends the log's hash by payloads of an increasing choice of the changes that it has made (`OwnInv`,
`Extends`), because nobody else commits while it holds the lock. Its commit is the chain's append;
every other step leaves the newest committed row where it is.

### Sessions and guards

`Access_proofs` (`ExpiresAssumption`, `TimeAssumption`, `DisjointAssumption`): `TypeCorrect`,
`StaleGrants`, `Denials`, `ShutForGood`. An `ok` line's expiry is at most TTL + Pause past the end of
its session (`OkInv`); a request between database and cache write was answered at a moment when the
session was valid and has waited at most Pause (`PositiveInv`); a `revoked` line or a poisoning request
names a session that has ended (`NegativeInv`).

`AccessImplementsSessions` shows that every step of the composition is a step of the session cache
or a stutter, so that the four theorems hold of it. `OfficersAreAdmitted` (`RoleAssumption`) adds that
no line lets a token without a session in (`MintedInv`) and that what a guard has checked of a request
was true at most a pause before the next one saw it (`SoundRequest`).

### Credentials

`Credentials_proofs` (all of the module's assumptions): `TypeCorrect`, `AuditTellsAll`, `OkIsKept`,
`SpentOnce`. The row of a token is locked by one request, whose transaction is open and whose UPDATE
matched it, so that it is not consumed (`LockInv`); a consumed token's request is done
(`ConsumerInv`). A commit is therefore the only step that consumes, and it consumes what nobody
had: that gives `SpentOnce`, the refinement of `SingleUse`. An audit row of a consumption names the
consumer (`EffectInv`). A password in a user's history was set by a reset of this user, once, and a reset
that was answered ok is in that history (`PasswordInv`), whichever waited for the row of the user.

### Participation and reading it

`Participation_proofs` (`UsesAssumption`, `NoRequestAssumption`, `DisjointAssumption`): `TypeCorrect`,
`VotesOnPublishedPolls`, `NothingTakenBack`. Every step has one of seven effects on the rows (`Effect`); under
them what was created stays created and a poll that was published is open or closed until it is gone for
good, so that what a request has read still bounds what it writes over (`SeenInv`, `OpenInv`). A vote or a
publication that read the poll before a close may still write after it: that is `Late`, and a closed poll
with nobody late changes by its deletion only.

`AuditTells`: for each poll, idea and comment the state and the log agree (`ReplayInv`). A request is
in the log only when it has committed, so each commit adds one request to one set of them. A row was
created by one request; a vote for an idea is in the log once; of a reaction the additions outnumber the
removals by at most the one that is there. Two toggles may both remove one reaction, and that is why
the last is an inequality.

`AnswersAreExplained`: what a reader has been shown so far is explained by the log (`ShownInv`), and stays
so, because the log and the votes for ideas only grow. A tally counts disjoint sets of votes, of users whose
requests are in the log (`CountsOf`); that the votes are finitely many (`CountedInv`) is part of the
invariant, as cardinalities mean nothing otherwise.

### Administration and reading it

`Administration_proofs` (`SeedAssumption`, `UsesAssumption`, `OwnedAssumption`, `NoneAssumption`). Every
handler begins, waits (reads or rolls back), stores a photo, or commits; `StepEffect` says what each of
these four may do, and the operations enter the proofs through it only.

`TypeCorrect`, `WritesStayInTheirCity`, `AuditIsExplained`: a commit writes rows that its context sees or the
caller's bookmarks, is audited if it writes, and has a reason if it is audited and does not
(`Accounted`). A reason stays a reason: a row that was not there when it was missed either still is not
there, or was created by a request that is in the history. Only a photo is written before its
transaction ends (`StoredInv`), and a DELETE of roles found those of one user in one city (`DoomedInv`).

`TimelinesReplay`: the entry that committed last has the issue's status, and its officer (`LatestInv`),
because the row lock makes the order of the commits that of the writes. The timeline is shown by
`created_at`, the beginning of a transaction; of the entries one began last (`ShownLast`, by the
well-foundedness of the naturals), and if it is another than the one that committed last, the two
overlapped. No two transactions ended at one time (`TimeInv`).

`ReplacementsAreExplained`: when a replacement is about to write, every grant of its user and city was
found by its DELETE or committed after it began (`PendingInv`). What is left when it writes is
therefore of the second kind, and what takes its own grants away is a later replacement.

`PagesAreExplained` and `AnswersStayIsolated` are about `ReadSpec` (`CatalogAssumption`,
`WatchedAssumption`). An entry that is committed between the statements of a page is later than the
moment its row was read, so that the entries up to that moment keep telling what the row says
(`PageInv`). Each list is of one city by its own condition or by the policies of the context it is read
in, or of rows of no city, or of the rows of that context's user, or of the reader's profile
(`AnswersIsolated` is inductive once the query is typed, `QueryInv`, since the audit log only grows).

### Valkey: deliveries and rate limits

`Valkey_proofs`, deliveries (`BoundsAssumption`): `NeverResent`, `DeadLettersAtCap`. A job that can still
run has failed less often than it may, and the provider took its message at most once per failure and
per stall (`Paced`); adding a job that is there changes nothing. A restart sets the job back to what
the snapshot has, whose failures and stalls were those of an earlier moment: of what a job may cost, at most
all is spent again, for each restart that changed it. A row's count never passes the cap
(`RowsInv`), whichever sweepers hold it.

Rate limits (`TtlAssumption`, `LimitAssumption`): `RefusedStayOut`. Every block that was announced since
the last restart is still covered by the key's marker, which a later block only prolongs
(`MarkerCovers`).

`BurstsAreBounded`: two runs of the script in one era are in one window, the later with the higher count,
or in windows that do not overlap (`WindowsInv`). A span as long as a window meets at most two of
them, and when it meets two, the run that opened the earlier one is too old for it. A request
passes only with a count up to the limit, so the counts map those that passed one-to-one into
1 .. 2 * limit - 1.

`RefusalsAreDeserved`: a counter, in the store or in the snapshot, says at most how often the script
ran since its window began, and a block was set by a run with more than the limit of them behind it
(`StoreFits`). A restart brings back older ones, of which the same holds.

### Key rotation

`PiiRotation_proofs` (`VersionAssumption`, `JobAssumption`, `CityAssumption`): `OneKey`,
`NeverWithoutKey`, `ValuesReadable`, `ShortfallIsExplained`. What an open transaction has found is still
there (`TxOk`), because the rows of a city are locked by one transaction at a time (`Exclusive`); keys
with values stay and were wrapped by the seed (`ValuesKept`). A job in hand has one worker
(`OneWorker`), and one that met nothing yet has rotated every city that it has done, and is alone
(`InHandOk`, `Alone`).

### Migrations

`Migrate_proofs` (all of the module's assumptions): `RecordsAreApplied`, `UnrecordedIsExplained`,
`LossIsOutOfOrder`, `PassesReachFixpoint`. What is recorded, was read for the rewrite or waits for its
record is applied (`AppliedInv`); of its release a runner has applied what it met in its first pass and
did not note as a failure (`LeftInv`); without overlaps what it read is what is there (`AloneInv`); what
was applied before a migration stays applied (`HistoryInv`). A body that adds what an earlier copy looked
for was not applied when the copy was made, or its facts would have been there. If it has an earlier name,
the copy was out of order; that it has one, or the copy's own, is `CopyAssumption`: migrations copy from
what earlier ones, or they themselves, seed. `ShallowAssumption` is that there is no copy of a copy in one
file. Both hold of every file in `mig/`. Nothing is assumed of which migrations can be applied twice: one that
copies and is applied again copies what is there by then, and what it still misses comes of one that has an
earlier name and was applied later.

The fixpoint: in a pass that nothing disturbed the number of records never falls, and while it has not
risen nothing was applied, so that what was tried and failed would fail again (`FixpointInv`,
`Undisturbed`). The runner stops before its last pass when a whole pass has left the number alone.

### Modelled so that it can be proved

`OwnedAssumption`: bookmarks, notifications and accounts are rows of tables of their own.
`CatalogAssumption`: `cities` and `app_settings` have no `city_id` (`mig/0001:11`, `mig/0009:43`).
`WatchedAssumption` only says that what is asked is a query. Payloads of a transaction's changes that
matched nothing are not in the chain, and the abstract chain says so. The throttlers'
history records count and expiries because the argument about windows is about them.

## 5. What the checks found

1. Concurrent audit inserts can be chained against id order, and the verify endpoint then reports
   an untampered log as broken (`audit_id_order`). The proof `WalkExact` says this is the only way.

Met on the way, and bounded or explained by a property that passes:

2. A sign-out can be undone in the cache by a slow guard, which writes `ok` after the poison:
   `StaleGrantBounded` says for how long.
3. A redelivered or colliding key rotation completes without the remaining cities;
   `ShortfallExplained` lists every cause, the shared queue among them.
4. One reaction can be logged as removed twice, by two toggles that read it: `AuditReplays` allows
   exactly that.
5. A copy of a migration that ran too early is lost without an error (`LostOnlyOutOfOrder`), and
   overlapping runners can erase records with a stale rewrite (`UnrecordedExplained`).
6. A timeline may end in a change that did not commit last (`TimelineReplays`), and overlapping
   replacements leave a union of roles (`ReplacementsExplained`).
7. A vote may be counted in a poll that was closed, and a publication may open it again: `OneWay` says
   when, and that it stays closed otherwise.
8. A restart of Valkey lets the sweeper add a job that was finished, and the provider gets the message
   again: `SweepNeverResends` says how often.

Met while reading, and not in need of a model checker: MFA enrollment is always rejected, and the tokens
that MFA signs name no session and are denied; the fan-out's transaction fails on the migrated schema;
no code sets a delivery to `delivered`, so that rows stay pending and are swept for ever, and where they
are more than `BATCH_CAP` the oldest fill the sweeper's batch
(`api/notifications/notification-deliveries.sweeper.ts:120`), later ones get no turn; votes for ideas
cannot be taken back; the migrations that always fail, and the routes of polls and of the admin
controllers, described above; the verify walk uses one key while the trigger uses the database's active
version. The debounce map of the slow-query log (`api/observability`) evicts its oldest insertion, and
setting an existing key keeps its place, so that the one evicted need not be the stalest; it lives in
one process without an await.

## 6. Not modelled

Not modelled because there is nothing concurrent or stateful in them: health, logging,
observability, OpenAPI, configuration, security headers, packages, deployment scripts. Delegated to
libraries: the Better Auth adapter, phone codes (Twilio), the signing and checking of JWTs.

Not modelled because no state can reach it: what `verifyTotp` and `consumeBackupCode` do with a
stored MFA credential; the event stream's messages (nothing publishes to `notif:`).

Left out of modelled parts: the throttler's in-memory store, the dead-letter view and queue depths,
the lists of users and roles, CSV, clustering, ranking, image processing and presigned URLs, the
connection pool and whether its settings leak (`SET LOCAL` ends with the transaction), the key
version of an audit row.

Worth doing next: the policies table by table instead of together; MFA credentials once an
enrollment can succeed; liveness, of which the prover reaches only the steps (that a waiting
transaction's blocker is one that can move).
