# Passkey server: TLA+ models and proofs

This directory specifies and verifies the passkey server of this repository: a
stateless HTTP service, written in Go, that runs WebAuthn registration and
authentication ceremonies for several applications. Any number of nodes share one
PostgreSQL database and nothing else.

Paths below are relative to the repository (`src/` in `PROJECT.json`).

## 1. The system

| Component | State it keeps | Operations |
|---|---|---|
| HTTP API, `app/api.go` | none; every request has a 15 s context | `POST /v1/{registrations,authentications}/{start,finish}`, `GET`/`DELETE /v1/credentials`, `/health`, `/ready` |
| Ceremony service, `passkeys/service.go`, `ceremony.go`, `application.go` | the table of applications loaded at startup | `Start`, `Finish`, `Credentials`, `Delete` |
| WebAuthn adapter, `passkeys/webauthn.go` | one library object per application | `Begin`, `Verify` |
| PostgreSQL repository, `passkeys/postgres.go` | tables `registration`, `authentication`, `credential`, `history`; one `pgxpool` per node | `Credentials`, `Start`, `Finish`, `Delete` |
| Schema and migrations, `assets/migrations`, `app/database.go` | table `migration`, a session advisory lock | `Migrate`, `CheckSchema` |
| Admin UI, `app/admin.go` | a token bucket of login attempts per node; sessions are signed cookies | login, logout, four read-only pages |
| Admin queries, `app/admin_queries.go` | none | filtered keyset pages of credentials and history |
| Server lifecycle, `app/server.go`, `cmd/web` | listener, pool | startup, graceful shutdown |
| Configuration, strict JSON, TLS, `app/config.go`, `json.go`, `tls.go` | none after startup | load and validate |
| Demo, `cmd/demo` | none | a proxy and a page that run the ceremonies in a browser |

How they interact. A handler calls the service; `Start` reads the subject's
credentials through the pool, lets the adapter build options and session, and
inserts the ceremony and its history row in one transaction. `Finish` passes the
repository two callbacks: the repository locks the ceremony row, calls
`authorize`, tests the state, locks the subject, reads the database clock, reads
the credentials, calls `verify`, writes the credential, the ceremony and the
history row, and commits. `Delete` locks the subject, deletes, records and
commits. Nodes influence each other through the database only: row locks, an
advisory lock per subject, the waits of the unique index, and what is committed.

What is hard here: two finishes of one ceremony; two ceremonies of one credential;
registrations in two applications that share a relying party and therefore a
unique key but no lock; a deletion in the middle of a finish; a ceremony that
expires while its finish waits for a lock; statements that fail half way and
connections that break during COMMIT; pools smaller than the number of requests;
nodes whose configurations differ during a rolling deployment. `PROJECT.json`
lists these hazards at their lines.

What makes each component correct:

- *Ceremony service and repository*: a ceremony is completed at most once, and
  only before it expires, by an authorized caller; the ceremony row, the
  credential and the history always tell the same story; a counter never moves
  back; an authenticator credential has one owner per relying party; an answer is
  true when it is given; no set of requests waits in a cycle and every call ends.
- *Migrations*: nodes that start together apply every migration once and in
  order, SQL and row together; a node that refuses to start has the reason it
  gives; a node serves only a schema it knows; every start ends.
- *Admin login*: the number of attempts in any window is bounded by the bucket,
  and refusals do not prolong the wait; a session ends at its expiry or with a
  change of the configured identity.
- *Admin queries*: paging meets every row that exists throughout, and turning
  round leads back.
- *Lifecycle*: only late requests are cut short by a shutdown; a clean exit means
  that all were answered; the process is gone in time.
- *WebAuthn sessions*: a ceremony lasts its five minutes, give or take the
  difference of the clocks that are compared.
- *Demo*: one ceremony at a time; a success is shown only when the server
  accepted the finish; whatever happened, one can try again.

## 2. The modules

| Module | What it is | Extends |
|---|---|---|
| `PasskeyData` | constants and their assumptions, rows of the four tables, the pure functions of package `passkeys`, the formulas that relate the tables | |
| `PasskeyStore` | what the interface `Repository` promises: each operation is one atomic step | `PasskeyData` |
| `PasskeyServer` | requests on several nodes, statement by statement, with locks, pools and failures | `PasskeyData`; instantiates `PasskeyStore` as `Store` |
| `PasskeyStoreProofs` | theorems about the store | `PasskeyStore` |
| `PasskeyServerProofs` | in three chapters: the inductive invariant of the server and deadlock freedom; lateness, authorization and answers; the server implements the store and inherits its theorems | `PasskeyServer`; instantiates `PasskeyStoreProofs` as `Kept` |
| `SchemaHistory` | what the table `migration` promises: an append-only sequence of versions | |
| `Migration` | `Migrate` on several nodes, statement by statement | instantiates `SchemaHistory` as `History` |
| `MigrationProofs` | invariant, reasons, known schema, refinement | `Migration` |
| `LoginBucket` | `allowLogin` on one node | |
| `AdminSession` | the signed cookie on several nodes | |
| `AdminLoginProofs` | the theorems of the two, which share no name | `LoginBucket`, `AdminSession` |
| `AdminPages`, `AdminPagesProofs` | keyset pages over a changing table and their theorems | |
| `ServerLifecycle`, `ServerLifecycleProofs` | `Run`: a process, its requests, its pool and its timers | |
| `CeremonyClock`, `CeremonyClockProofs` | one ceremony, nodes and database with clocks of their own | |
| `DemoPage`, `DemoPageProofs` | the demo's page and proxy | |
| `MC*` | configurations, lock keys, seeds, releases and symmetry for TLC | the module they check |

### 2.1 PasskeyData

Tokens stand for token hashes, `CredIds` for the UUIDs of credential rows,
`Authenticators` for the credential ids browsers send (`webauthn_id`). A *scope*
is the pair (application, subject) that `UserHandle` hashes; `LockKey` maps a
scope to the eight bytes of the handle that `lockSubject` uses, and may map two
scopes to one key. `Config` gives every node its own `PASSKEY_APPLICATIONS`, so a
rolling reconfiguration is one more constant. `Seed` is what is committed when
the nodes start; it has to satisfy the same agreement of the tables that the
properties demand of every later state.

`Authorize`, `AuthorizeFinish`, `Check`, `StateOf` and the three error functions
of `Kind` are the decisions of `application.go`, `service.go`, `ceremony.go` and
`postgres.go`. `Advances` is the library's clone rule as `Verify` applies it.
`Ceremony` keeps of the stored WebAuthn session only the set of credentials an
assertion may use. `Event` keeps the columns of `history` that say what happened.

`LogAgrees` is the main formula over the tables. A ceremony's history is its start
and, once it is completed, one finish that agrees with the row; a stored
credential was created by exactly one recorded registration of its scope and
relying party; a credential that was created and is gone has exactly one
deletion row and never comes back. The code has one table `history` ordered by
insertion; the models file its rows under the ceremony or the deleted credential
they are about, because nothing compares the order of unrelated rows.

### 2.2 PasskeyStore

Seven actions: `Start`, `Register`, `Authenticate`, `Reject`, `Expire`, `Delete`
and `Tick`. Each changes ceremony, credential and history together. There are no
callers here: authorization decides whether an operation happens, not what it does.

### 2.3 PasskeyServer

A request slot is one handler goroutine. `pc` names the statement it runs next:

| `pc` | code | waits for |
|---|---|---|
| `list` | `Service.Start`: `repository.Credentials`, then `Begin`, `NewToken` and the expiry | a connection |
| `begin` | `pool.Begin`; for a start also its two INSERTs | a connection |
| `select` | `SELECT ... FOR UPDATE`, the `authorize` callback, the test of the state | the ceremony's row |
| `lock` | `lockSubject` | the subject's advisory lock |
| `check` | `SELECT clock_timestamp()`, `Ceremony.Check` | |
| `verify` | `readCredentials` in the transaction, the `verify` callback | |
| `write` | `INSERT ... ON CONFLICT DO NOTHING` or `UPDATE` of the credential | writers of the row or of its unique key |
| `delete` | `DELETE FROM credential` | writers of the row |
| `commit` | UPDATE of the ceremony, the history INSERT, `COMMIT` | |
| `inDoubt` | the handler has answered, the database has yet to decide the COMMIT | |
| `rollback` | the handler has answered, the database has yet to roll back | |

A transaction's effects stay in `tx` until `Apply` puts them into the tables at
the commit: nobody else can see them in READ COMMITTED. That the UPDATE of the
ceremony and the INSERT of the history row are part of `commit` loses nothing,
since the row is locked by the request and the INSERT waits for nobody. `tx`
holds the row as read, the outcome, the credential row to write, and, for
properties only, the time at which the subject lock was granted. The price: that the
code has these statements in one transaction is read from it, not checked. What is
checked is what others see of it, and what becomes of it when a statement or the
COMMIT fails.

`Blockers(r)` is the set of requests one of which must end before `r`'s next
statement can return. It contains the holders of row and subject lock, the
transactions that wrote a row `r` wants to write or one with the same
(`rp_id`, `webauthn_id`), and, when the pool of the node is exhausted, every handler
that works on one of its connections. A transaction that its handler has given up
(`inDoubt`, `rollback`) keeps its locks but no place in the pool: a broken or cancelled
connection is closed and another is opened in its place, while the database may not
have noticed yet. So abandoned transactions meet the running ones at the row, the
subject and the unique index also in a small pool. (How long `pgx` takes to close a
connection, and that its slot is taken until then, is in `ServerLifecycle`.) `readCredentials` in `verify` uses the
transaction's own connection and so waits for nobody.

Failures. `Fail` ends any statement with an error: the 15 s deadline, a broken
connection, a corrupt record, the crash of the node (all its requests fail).
`Abort` answers first and leaves the locks to `Rollback`, an action of its own,
because after a broken connection the server notices later; the deferred
`rollback` of the code, which runs before the handler answers, is the case in
which it follows at once. `CommitUnknown` is the COMMIT whose reply is lost, and
`Resolve` what the database made of it.

Choices a reader should know. One clock serves nodes and database; it only moves
forward, up to `MaxTime`. `Verify` may reject anything (signatures, origins,
attestation and the library's own session checks are one nondeterministic
rejection) and accepts what the library and the code can accept: a credential the
session allowed and the reader returned, with a counter that advances. Identifiers
that a cryptographic generator draws are in use nowhere; a registration's is drawn
when the call arrives, so that nobody else may present it. A caller may present any
token that has been given out, or that does not exist.

### 2.4 SchemaHistory and Migration

`pc[n]` names the statement `Migrate` runs next on node `n`: `lock` (the session
lock on the connection taken from the pool), `create`, then per embedded file
`read`, `latest`, `apply`, `commit`, at last `check` and the deferred `unlock`.
`lock` is the session that has `pg_advisory_lock`. `rows` is the table, `objects`
the versions whose SQL is committed: two variables, because the code has to keep
them together. `Apply` knows what PostgreSQL does to two transactions that create
the same objects: the second waits and then fails.

`StatementFails` is an error on a connection that stays usable. `Die` is the death
of the node, a broken connection, or the 30 s of its startup (`pgx` closes the
connection): the session stays behind as `Orphan`, with the lock, perhaps with a
COMMIT in `doubt` that `OrphanCommits` may still apply before `OrphanEnds` lets
the lock go, or as an abandoned waiter to whom the lock may yet be granted. A
failed unlock closes the connection, which makes the session an orphan too. Each
node has its own `Bundle` of checksums and so its own `schemaVersion`: a rolling
upgrade, or an edited file, is a choice of constants.

### 2.5 LoginBucket, AdminSession, AdminPages

`LoginBucket` is one node's bucket. The mutex makes `allowLogin` one step. `time.Now`
carries a monotonic reading and `Sub` uses it, so `uptime` never steps
back. Tokens are counted in the seconds they take to come back, which makes the
code's fractions whole numbers; rounding of `float64` is abstracted. The bucket
belongs to a process: it is full again after a restart, and every node has its own.

`AdminSession` has wall clocks (`skew`), which may be set at any time, configured
identities, which change by `Restart`, and browsers that hold a cookie. `Submit`
and `Answer` are two steps because bcrypt lies between them. The signature binds
the cookie to the identity; that it cannot be forged is assumed. `Forget` is
logout, which only asks the browser to drop its cookie.

`AdminPages`: a row stands for its key, so that `<` is the order of the query;
`Matching` is the filter. `PageOf` is the query (`Past`, `Limit`, one row more than
a page) and `adminPage`. Rows are inserted and deleted between any two pages, also
with keys older than the page's, since identifiers are drawn and times are taken
before their transactions commit. A backward page always offers *next*, which may lead
to an empty page without links when the rows are gone by then; First is then
the way on.

### 2.6 ServerLifecycle

`stage` is where `Run` is: `starting`, `serving`, `draining` (Shutdown waits),
`closed` (Shutdown has returned; the deferred `pool.Close` waits), `failed` (the
listener failed; its connections live on), `exited`. A request is a connection
that sends its headers, then a handler that takes and gives back connections of the
pool, and perhaps a rollback on a context of its own. Time advances in steps of five
seconds, and a timer that is due (`Due`) fires before the next step: that is how the
timeouts bound each other.

How a connection leaves its handler decides how long `pool.Close` takes.
`GiveBack`: it is healthy and returns to the pool. `Break`: a statement failed, most
often because its context was over; `pgconn` has closed the connection, the deferred
rollback finds that and returns at once. `GiveUp`: the handler leaves between two
statements, and the rollback has a connection and five seconds; then it has
succeeded or failed (`RolledBack`). A connection that failed is destroyed by the
pool (`Discard`), whose destructor waits until `pgconn` has sent the cancel request
and hung up, at most 15 seconds (`CleanupLimit`). Until then the slot is `Taken`, and
`PoolEmpty`, what `pool.Close` waits for, is false. An idle connection closes
without a wait to speak of. With a database that does not answer, the exit may
therefore come 15 + 5 + 15 seconds after the signal, and no later: `ExitsInTime`.

The handler's return is not yet the client's answer: `WriteTimeout` (20 s from the
headers) may be over by then, which is the state `unheard`; 15 seconds of a handler
and 5 of a rollback reach it exactly. What else a write of the answer takes, and the
interval in which Shutdown polls, are abstracted; a body is read within
`ReadTimeout`, which the handler's time contains. The exit of a startup that fails is
not timed: nothing is bounded there but the migration's own 30 s.

### 2.7 CeremonyClock

The library's session ends by the clock of the node that begins it and is tested by
the clock of the node that verifies; the row's `expires_at` comes from a second
reading on the first node and is compared with the database's clock. `off` is how
far each clock is off, up to `Skew`. Time may pass between any two of the four
readings. Since the session is dated first, it may end a moment before `expires_at`
even when the clocks agree; a finish in that moment is answered as invalid, not as
expired.

A finish has a time of arrival and with it a deadline (`InTime`), decides by a clock
reading (`Decide`: `Check`, `Accept`, `Refuse`), and commits later: the credential
write may wait for the unique index, then come the ceremony, the event and the COMMIT.
The row stays locked until then. `Commit` is a COMMIT that is confirmed, so before
the deadline; `CommitUnknown` leaves one in doubt, and `Resolve` may complete it at
any later time. So a reading is bounded by the lifetime and the skew of two
clocks (`decided`), an answered success by the request's deadline more (`ended`, when
`told`), and a success nobody was told of not at all; `NoEarlyEnd` bounds the
reading from below.

### 2.8 DemoPage

`disabled`, `field`, `status` and `result` are the elements of the page; `run` holds
the ceremonies that clicks started and what each awaits: the start, the system
dialog or the finish. The server is whatever decides on a finish (`Decide`),
whether or not its answer arrives; `Forwarded` is what the proxy makes of it. The
proxy's `TimedOut` answers a call that nothing else answers. An invalid
registration shows every error as a refusal, the proxy's included.

## 3. The runs

All runs of `PasskeyServer` explore every interleaving of the statements above.

| Run | Instance | Properties | What it shows |
|---|---|---|---|
| `login_race` | two pending logins of one credential, expiring at 1 and 2, counters 0 and 1, clock 0..1, three slots, three connections | `IInv`, `NoLateSuccess`, `LogMatchesTables`, `TerminalIsFinal`, `CounterAdvances`, `ImplementsStore` | what a request relies on between two statements stays true; no late success; no completed ceremony changes; no counter update is lost; what happens at the tables is a behaviour of `PasskeyStore` |
| `rolling_config` | an empty database, two ceremonies and two credential ids, two nodes: the first serves two applications with one relying party and different subject locks, the second has another relying party, other clients and one application less; two slots | `OneOwnerPerAuthenticator`, `AuthorizationFirst`, `AnswersAreTrue` | only the unique index orders the registrations of two applications, and it does; nothing is disclosed or consumed before authorization; every answer is true when given |
| `every_call_ends` | a credential stored at the blog, one fresh token and one fresh credential id, two applications with one relying party and a subject lock each, a pool of two connections, three slots, fair | `NoWaitCycle`, `EveryCallEnds` | no cycle over pool, row, subject and unique index; every call ends, whatever fails |
| `commit_unknown` | one login, two slots | `InfraFailureDoesNotConsume` (violated) | section 6 |
| `migrations` | three nodes of three releases, one of them with an edited file, three versions; an empty table, the first release's, one with a gap, a foreign one; fair | `IInv`, `ServesKnownSchema`, `BlameIsTrue`, `SqlMatchesRows`, `ImplementsHistory`, `EveryStartEnds` | the table grows as its history says, SQL with its row; refusals are true; servers know their schema; no start waits for ever |
| `login_bucket` | a capacity of two tokens, three seconds each, thirteen seconds | `BucketIInv`, `AttemptsBounded`, `RefusalHasCause` | attempts per window; refusals do not prolong the wait |
| `admin_session` | two nodes, two identities, one browser, cookies of one second, skew of one | `IInv`, `SessionBounded` | no page without a recent login of the present identity |
| `admin_pages` | seven keys, six match, pages of two | `IInv`, `SurvivorsMet`, `RoundTrip` | no surviving row is missed; turning round leads back |
| `lifecycle` | two requests, a pool of one, handlers of 3 units, rollbacks of 1, the closing of a connection of 3, WriteTimeout of 4, Shutdown of 3, a unit being five seconds; fair | `IInv`, `CutOnlyLate`, `CleanExitAnswersAll`, `ExitsInTime`, `SignalEnds` | who is cut, what the exit says, when it comes, and that it comes |
| `clocks` | two nodes and a database one second off at most, a lifetime of three, a deadline of one, two finishes | `IInv`, `SuccessInTime`, `NoEarlyEnd` | the lifetime, skew apart, and the time a COMMIT may add |
| `demo_page` | three clicks, two subjects, fair | `IInv`, `SuccessIsTrue`, `OneRun`, `RetryPossible`, `RunEnds` | the page's promises |
| `demo_steps` | two clicks | `InvalidStaysAvailable` (violated) | section 6 |

The bounds of `PasskeyServer`'s runs and why they are enough. Every hazard is between two requests, or
between two that hold something and a third that waits: two or three slots. A
slot is reused after each call, so two slots also run sequences such as start,
finish, retry, delete. Two ceremonies of one credential, or two of one key, are
what the races are about. `login_race` has rows to lose from the start and no free
token; `rolling_config` begins with nothing and runs starts, registrations, logins
and deletions, so that between them every action occurs. That starts and
registrations are steps of the store too is `ServerImplementsStore`, a theorem. `MaxCount`
1 distinguishes a counter that moved from one that did not, and 0 from 0, which
the library lets pass. `TTL` 2 and a clock up to 1, with seeds that expire at 1
and 2, put the expiry before, at and after each step.

`every_call_ends` has to make calls wait in every way there is, and two connections
with three slots do: two finishes of one ceremony meet at its row; a finish and a
deletion of one subject at its advisory lock; the registration of an authenticator at
the shop, and the deletion of the row the blog has for it, at the unique index; two
deletions of one row, by its owner and by another, at the row; and the third call waits for a
connection of two that may themselves be waiting. Each holder may be a handler that goes on or a
transaction that was abandoned, in doubt or not. There is a fresh token, a fresh
identifier and a stored credential, so that starts, registrations and logins succeed
too. The clock stands still: nothing waits for it. Two things keep the instance
within TLC's reach for liveness, and neither takes a wait away. `VIEW WithoutAnswers`
identifies states that differ in the last answers, which no guard and no property of
this run reads. `ACTION_CONSTRAINTS InRole` lets the first slot serve finishes, the
second finishes and deletions, the third any call: slots differ in nothing, so this orders the
calls that are in progress at once, and of three at once leaves out only mixtures
without a finish.
The constraint is on arrivals, about which fairness says nothing, so every
behaviour of the run is a fair behaviour of the server.

What larger instances
would add is covered by the proofs, which assume none of these bounds.

The bounds of the other runs. Migrations: one node of each release gives pairs with
a shorter, a longer and a different bundle; the proofs cover any number of nodes
with equal ones. Three versions hold one that no release knows. Bucket: thirteen seconds are more than two
times the refill of the whole capacity. Sessions: the clock runs three lifetimes of a cookie.
Pages: six matching rows make three full pages, seen and left in both directions,
and one row the filter hides. Lifecycle: two requests fill the pool, wait for it
and come late; the timers keep the order and the sums the code gives them (a
handler may last as long as Shutdown, a rollback less, the closing of a connection as
long as a handler, WriteTimeout as long as handler and rollback together). The signal
comes up to 15 seconds after the start, so that a handler may have run for any part of its time, and the clock goes on
until the latest exit is past; the bound of `ExitsInTime` is reached, and a smaller
one fails. Clocks: the lifetime is longer than twice the skew, so that early and late are
different things; the run goes on until both limits, the deadline included, are past. Its
bounds are reached too, and a COMMIT in doubt exceeds the second.
Demo: two runs may meet and a third follows both.

Symmetry: request slots are interchangeable in the runs of the server that check
safety only, and in `rolling_config` also tokens and credential ids, which its empty
seed does not tell apart; so are nodes and identities of `admin_session`. Runs with
a liveness property use none.

The runs of the server check for deadlock: a slot can always take another call.
`lifecycle` does not, since a process exits.

Fairness. For `every_call_ends`: `SF(Proceed(r))`: PostgreSQL's lock queues
and `pgxpool` serve waiters in order, so a call whose next statement is possible
again and again is eventually served; weak fairness would not do, because another
request may hold the lock at every other moment. `WF(Rollback(r))` and
`WF(Resolve(r))`: the database rolls back a transaction whose client is gone and
decides every COMMIT. Nothing is assumed of failures, of arrivals or of the clock,
in particular not the request deadline, which would make the property easy.
For `migrations`: `SF(Lock(n))`, the same queue; `WF(Step(n))`, a connection
that answers; `WF(OrphanEnds)`, the database drops a session whose client is gone.
No startup timeout and no death is assumed. For `lifecycle`: runnable
goroutines run and time passes; no client need send anything. For `demo_page`: the
proxy's timeout of 10 s answers a call, the browser ends a dialog after the timeout
in its options; the server need never answer.

Each property of a passing run comes with a mutant in `PROJECT.json`: a plausible
mistake in one definition (a lock not taken, the expiry off by one, the state
inspected before the authorization, credentials read through the pool, the
session's advisory lock instead of the transaction's, history for successes only, SQL
outside its transaction, a bucket without a cap, an unsigned identity, a page cut
without the extra row, a leaked connection, a handler without a context of its own, a
subject that can be edited during a ceremony, a client without a timeout)
that makes TLC find a violation under the same configuration.

## 4. What is proved

TLAPS checks these theorems for any number of nodes, applications, subjects,
requests, connections, tokens and credentials, and any seed that satisfies
`SeedAssumption`; likewise for any releases, versions and seeds, any bucket, any
skew, any table and page size, any time limits and pool of a process, any lifetime
of a ceremony, any number of clicks. Every invariant and every action property that
a passing run checks is among them. The assumptions are the named `ASSUME`s of the modules: types of the constants, that `None` is not a value of another
kind, that tokens and credential ids are different things, that pools are not
empty. TLC evaluates them in every run.

| Theorem | Statement |
|---|---|
| `StoreTypeCorrect`, `StoreOneOwner`, `StoreLogMatches`, `StoreTerminalIsFinal`, `StoreCounterAdvances` | the promise keeps types, one owner per authenticator, agreement of the tables, terminal states, counters |
| `ServerInvariant`, `ServerTypes` | `Spec => []IInv`, `Spec => []TypeOK` |
| `ServerNoDeadlock` | `Spec => []NoWaitCycle` |
| `ServerImplementsStore` | `Spec => Store!Spec` |
| `ServerOneOwner`, `ServerLogMatches`, `ServerTerminalIsFinal`, `ServerCounterAdvances` | the store's theorems, of the server |
| `ServerNoLateSuccess`, `ServerAuthorizationFirst`, `ServerAnswersAreTrue` | lateness, authorization, answers |
| `MigrationInvariant`, `SqlAndRows`, `BlameIsAlwaysTrue`, `KnownSchemaServed` | `Spec => []IInv` of `Migration`, and the properties it contains or supports |
| `MigrateImplementsHistory` | `Spec => History!Spec` |
| `BucketInvariant`, `AttemptsAlwaysBounded`, `RefusalsHaveCause` | the login bucket |
| `SessionInvariant`, `SessionsBounded` | admin sessions |
| `PagesInvariant`, `SurvivorsAlwaysMet`, `TurningLeadsBack` | paging |
| `LifecycleInvariant`, `OnlyLateRequestsCut`, `CleanExitAlwaysAnswersAll`, `AlwaysExitsInTime` | shutdown |
| `ClockInvariant`, `SuccessAlwaysInTime`, `NeverEndedEarly` | the lifetime of a ceremony on clocks that differ |
| `PageInvariant`, `SuccessAlwaysTrue`, `AlwaysOneRun`, `RetryAlwaysPossible` | the demo page |

The argument. None of the server's properties is inductive: that a commit is one
atomic operation depends on what the request found out several statements
earlier. `IInv` says what a request may rely on in between. Its parts, for every
request `r`, are:

- `Shape`, `Undecided`: which statements each operation runs, with which
  arguments; a decision exists only at the end of a transaction;
- `LocksHeld`, `HoldsRow`, `HoldsSubject`: who holds a lock is past taking it; a
  finish past its SELECT holds the row, which is still as it read it and pending;
  a finish or deletion that decides holds its subject's advisory lock;
- `StartReady`, `RegistrationReady`, `AuthenticationReady`, `DeletionReady`,
  `RejectionReady`: what the transaction will write fits the committed tables: the
  token is free; the identifier is free and, once the INSERT succeeded, nobody has
  its key; the value to update continues the committed row; the row to delete
  exists; a rejection has a reason;
- `Apart`, for pairs: drawn tokens and identifiers are shared with nobody, and two
  successful INSERTs do not have the same key.

The hard case is `ApplyFrame`: another request's commit leaves all this true. For
ceremonies it is the row lock; for credentials of one scope it is the subject
lock (two deciding transactions with one credential would have the same scope,
hence the same key and the same holder); for new rows the unique index, which
`Apart` carries from the moment of the INSERT.

`NoWaitCycle` follows from `IInv` by a rank on `pc`: connection, row, subject,
written row. Whoever is waited for has a higher rank than the one who waits
(`WaitsClimb`), so in any set of requests the ones of highest rank wait for
nobody in it. `ServerImplementsStore` maps the commit to the store's action and
every other step to a stutter; `Kept` is the instance through which the store's
theorems are then cited. The last three theorems add `Entitled`, what a finish
carries from its authorization and from its test of the clock.

The arguments of the smaller proofs. *Migration*: `LockHeld` makes the node between
`lock` and `unlock` the only one that writes; `Progress` says what it has verified
or applied by then; `InDoubt` ties an undecided COMMIT to the session that still
has the lock, so that nobody reads the table before it is decided. A serving node's
rows are never rewritten, since `Commit` fills only an empty version
(`ServesKnownSchema` is proved from the step, not contained in `IInv`). *Bucket*:
`Accounted` is the balance: what was spent since an attempt is missing from the
bucket or came back since; the bound for two attempts is the balance at the second.
`LastAttempt` says the same of an emptied bucket, for the refusals. *Sessions*:
`CookiesEarned` carries the login a cookie came from.

*Pages*: `NewerMet` is the loop invariant of paging: what is newer than the end of
the page has been shown. `RoundTrip` needs `Current` (a page nothing has changed
since is what its query finds again) and `LedHere` (it was reached by a link of the
page in `left`). `TurnRound` then compares the page before with the page behind the
link back, whatever the direction: the middle page starts with the row next to the
link, so the query back asks for exactly the rows up to that link. If the page
before was reached in the same direction, it had a link onward only because the
row too many was found, so it is full, and `LimitIs` says that a full run of rows
the traversal meets first is what LIMIT returns. If it was reached in the other
direction it begins with that row, and both queries ask for the same set. Counting
is done by comparing subsets (`LimitSize`, `LimitTakesAll`), without induction.

*Lifecycle*: `Timers` bounds a handler by its start and a rollback by the end of its
handler; `SignalTimes` keeps Shutdown within its limit of the signal; `ResultTells`
and `RequestTells` say what each stage has decided. `ExitsInTime` is not inductive
without `Closing`: once Shutdown has given up and Close has cut the connections, the
handlers left stop before time passes, and the rollbacks that `pool.Close` waits for
had begun by then; so one rollback's time is all they can add before the last
connection is back or being closed, and one closing's time after that. `Closing` also
carries how late each of these requests had begun, which is `CutOnlyLate` when they
are cut.

*Clocks*: `RowExclusive` is the row lock, which a finish keeps until its transaction is
over, in doubt or not; `Verdicts` carries a decision from the reading to the COMMIT: it
was right by the clock, and it was read during the call; `Dated` and `SessionFirst` say that both
ends are written before anybody finishes, the session's first and no later than
the row's. What is compared with either end is at most one skew off at each of the
two readings.

*Demo*: `Controlled` says that a running ceremony keeps every control disabled;
that is why there is one run, why the field keeps its subject, and why a late
answer can only be about the run that is shown.

Only model-checked: `EveryCallEnds`, `EveryStartEnds`, `SignalEnds` and `RunEnds`,
since liveness under fairness is out of the prover's reach. The other way round, the
store's own specification has no run of its own: its invariants are theorems for
all constants, and `login_race` checks the same formulas and the refinement on the
server's states.

## 5. What is not modelled

- *Cryptography and the library's checks* in `Verify`, beyond what is accepted or
  rejected and the session's expiry.
- *Syntax*: JSON members, headers, body limits, the parsing of configuration,
  filters, cursors and forms. Each is a function of its input that either refuses or
  yields the value the models start from; the models take that value from a set.
  A cursor's text round-trips because `RFC3339Nano` keeps the database's
  microseconds; the models have the cursor itself.
- *Panics* of a handler: `recover` answers 500 after the deferred rollback, which is
  `Fail` of `PasskeyServer`.
- *`GET /v1/credentials`, `/health`, `/ready`*, the admin pages other than the two
  lists: they change nothing. The read of the credentials is part of
  `ListCredentials`; `/ready` is the check of `Migration` again.
- *The demo proxy's own process*: its checks of Host, Origin and bodies come before
  anything happens, its shutdown is `http.Server`'s.
- *Strict JSON*: one pure function of a request body, which it refuses or not, with
  tests at its nesting limit.
- *TLS loading, the test authenticator, templates and styles*: no state of their own.

## 6. Findings

`docs/api.md:158` says that infrastructure failures do not consume a ceremony and
roll back credential, ceremony and history together. When the connection breaks,
or the request's context ends, while COMMIT is on its way
(`passkeys/postgres.go:266`), the caller is answered `internal_error` and the
database may have committed. The run `commit_unknown` asks it of finishes alone and
shows one: the finish locks the pending ceremony and its subject and decides,
`CommitUnknown` answers `internal_error`, and `Resolve` applies the transaction, so
that the ceremony is completed and its history row stands. For a caller the remedy is
the one the page gives for a lost success answer: a retry may meet `conflict`.

`cmd/demo/index.html:141` enables three of the four controls that line 114 disabled.
After the first ceremony, successful or not, the button *Test invalid registration*
stays disabled until the page is loaded again, although step 5 of
`docs/local-development.md:106` clicks it after four steps with ceremonies. The run
`demo_steps` shows it in the shortest way, a click whose first call, start, fails: the
page shows the refusal, the ceremony is over, the button stays disabled. Other endings
run the same finally block. `RetryPossible` shows that the other two ceremonies remain
available.

## 7. What could follow

1. Reference definitions for `LoadConfig`'s validation of origins against relying
   parties, and for filters and date ranges of the admin queries.
2. The composition of `ServerLifecycle` with `PasskeyServer`: which of a node's
   transactions a shutdown leaves to `CommitUnknown`.
