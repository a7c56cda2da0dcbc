# overload-party-support in TLA+

This directory is the verification project of overload-party-support, a small
internal service that delivers announcements: a Go server (`cmd/server`,
`internal/`) in front of two PostgreSQL tables (`db/schema.sql`), its client
packages (`packages/`) and the workflows that publish and deploy them.

Run things from this directory: `tlc -config <cfg> <module>` for a run of the
table below, `tlapm <module>_proofs.tla` for the proofs. `PROJECT.json` maps
every definition to the lines it models and lists runs, mutants, hazards and
theorems.

## Inventory

| Part | State it keeps | Operations | Interacts with |
|---|---|---|---|
| Announcement tables (`db/schema.sql`) | announcements (id, publication period), translations (id, language, text); keys, cascading foreign key, `updated_at` triggers | edits, by operators in SQL; the service only reads | repository (SELECT snapshots) |
| Repository (`internal/repository/postgres`) | none of its own; the result set being read | `ListPublished`, `GetPublishedDetail` | pool, tables; errors upward, `port.ErrNotFound` the only one with an identity |
| Usecase, port, domain (`internal/usecase`, `port`, `domain`) | the clock | `List` (reads the time), `GetDetail`, `validateLang` | repository |
| Router, handlers, presenter (`internal/router`, `handler/rest`, `presenter`) | the request and its context | `/health`, list, detail; error to status | usecase, `net/http` |
| Connection pool (pgxpool) | slots, owners, a first-come-first-served queue, open or closed | acquire, release, close | repository, Cloud SQL dialer (`cmd/server/db.go`) |
| Process (`cmd/server`) | deferred calls, context, listener, errgroup, exit status | startup, serve, signal, shutdown, exit | all of the above |
| Configuration (`internal/config`) | none; the `Config` it returns | read five variables, refuse what is missing or malformed | process: logger, pool, listener |
| Inquiries table | rows with a status, `updated_at` trigger | edits by operators; no code of the service yet | operators' transactions |
| Go client (`packages/api-support`) | base URL, HTTP client and editors; a call in flight, its connection | make from options; build, edit, send, parse; status to sentinel error | service, over `net/http` |
| Fake server (`apisupportserverfake`) | callbacks, read under a mutex | answer by callback or default, close | consumers' tests, the Go client |
| Generated npm types | none | -- | -- |
| Publish workflow | git tags, npm registry, runs and their concurrency groups | dispatch, next tag, build, publish, tag and push | other runs, through tags and registry |
| Deploy, CI, test catalogue | in another repository | -- | -- |
| Test database (`postgrestest`) | a container, a pool, the rows of the tests | start, truncate, close | repository tests, Docker |

What is hard here, and what makes each part correct:

- **Reads among edits.** A request waits for a connection, runs one statement,
  and reads its rows, while operators commit edits and time passes. Its answer
  has to be true of one version of the tables (`ListAnswerExact`,
  `DetailAnswerExact`), failures must not pass for answers or for "not found"
  (same), and a 500 must have a cause outside the handlers
  (`FailureHasCause`). The tables have to keep the facts the queries rest on
  (`TablesWellFormed`).
- **The pool.** There is no limit on the wait for a connection, so a
  connection that is kept stops the service silently (`PoolAccounting`), nobody
  may drop out of the queue or wait for one who waits (`NobodyIsStranded`), and
  somebody who waits must get his turn (`EveryRequestAnswered`).
- **Stopping.** A signal may come at any moment; `Serve` may fail; `Shutdown`
  may run out of its ten seconds with handlers still waiting or querying, and
  the deferred calls then run under them. Resources must go in order
  (`QueryKeepsResources`, `ReleasedAtExit`), the exit status must tell the
  truth (`ExitZeroMeansDrained`), a handler whose client listens must not be
  refused for nothing (`RefusedOnlyAfterTimeout`), a `Serve` that is out must
  be noticed (`UpMeansServing`), and the process must end (`StopTerminates`).
- **Calls.** `net/http` sends a GET again when a kept connection breaks, while
  the handler of the first request still runs: the caller must neither hear
  the 500 of the handler it left (`InternalErrorIsAFault`), nor anything that
  was not so during the call (`CallsTellTheTruth`), nor wait for ever behind
  its own first request (`EveryCallReturns`).
- **Publishing.** Runs of two branches compute versions from tags both may
  push, and a run can break off between the registry and the tag. Tags must
  stay (`TagsNeverMove`), go up (`TagsGrowPerRef`), name what was published
  (`TagsNameContent`, `UntaggedOnlyIfBrokenOff`), and a run may fail only for
  a reason one can name (`FailsOnlyToRival`).
- **Stamps without a JSON form.** A `TIMESTAMPTZ` outside the years 0 to 9999
  is stored, selected and scanned, and then cannot be written: the answer is a
  200 without a body, and the client's error has no sentinel
  (`UnnamedErrorHasCause`; part of `ImplementsReads` and `CallsTellTheTruth`).
- **Editing.** Operators' transactions overlap; the foreign key and the
  triggers have to hold across them (`ReferencesHold`,
  `ChangesCarryTheirTime`).
- **Making requests.** A client is made from a base URL and options that pass
  through two layers, and its calls run at the same time: where requests go
  (`RequestsGoBelowTheBase`), through which editors (`SentRequestsAreEdited`)
  and by whom (`SentToTheLastDoer`).
- **Consumers' tests.** The fake runs their callbacks while they set others:
  answers must come from the right one (`AnswersFollowTheFn`), what the client
  reports must be what the test meant (`SuccessIsMeant`,
  `SentinelsAreMeant`), and callbacks that block must stop nobody but
  themselves and `Close` (`OneFnBlocksNobodyElse`, `CloseReturns`).
- **Repository tests.** Six steps of a start that can fail, tests that stop
  anywhere, and a container that must not stay (`NothingLeftBehind`,
  `StartFailsForAReason`, `TestsSeeTheirOwnRows`, `RunMainEnds`).
- **The environment.** Values that `config` lets pass and a later step refuses
  (`BlamesAFault`), and two ways to a database (`ServesWhatWasSet`).

## Modules

| Module | Models |
|---|---|
| `AnnouncementData` | the tables as sets of rows, the constraints, both SELECTs, the edits: pure operators |
| `AnnouncementService` | requests from router to answer over the pool and the tables, editors, clock |
| `MCAnnouncementService` | small tables for TLC |
| `AnnouncementReads` | what the service promises: a read looks at the tables once, then answers or fails |
| `AnnouncementRefinement` | the mapping from `AnnouncementService` to `AnnouncementReads` |
| `ClientResults` | what the Go client makes of a response: pure operators |
| `SupportClient` | calls of the Go client; composes `AnnouncementService` with `ClientResults` |
| `MCSupportClient` | tables for calls |
| `SupportService_proofs` | the service, its promise and its client: types, pool and tables, answers, the refinement, what a call returns |
| `ServerLifecycle` | the process of `cmd/server` from `main` to exit |
| `ServerLifecycle_proofs` | its safety theorems |
| `PublishWorkflow` | runs of `publish.yaml` and its scripts, over tags and registry |
| `MCPublishWorkflow` | the order of interchangeable runs, for TLC |
| `PublishWorkflow_proofs` | its safety theorems |
| `EditorSessions` | operators' transactions on all three tables: row locks, foreign key, triggers |
| `MCEditorSessions` | symmetry for TLC |
| `EditorSessions_proofs` | the foreign key and the times |
| `ClientRequests` | construction of a client and the requests of its calls |
| `MCClientRequests` | base URLs and symmetry for TLC |
| `ClientRequests_proofs` | its safety theorems |
| `FakeServer` | the fake and the test that uses it, as seen by `ClientResults` |
| `MCFakeServer` | callbacks of every kind, for TLC |
| `FakeServer_proofs` | its safety theorems |
| `TestDatabase` | `RunMain`: container, pool, tests |
| `MCTestDatabase` | the model TLC runs |
| `TestDatabase_proofs` | its safety theorems |
| `StartupConfig` | environment to `Config` to pool, logger and listener |
| `MCStartupConfig` | ports at the edges of the range |
| `StartupConfig_proofs` | its safety theorems |

### AnnouncementData and AnnouncementService

A row keeps the columns that a read can tell apart; `title` stands for the
text columns and `type`. A stamp is an instant of `0..MaxTime`, `-infinity`,
`infinity` or NULL, because the queries compare stamps that Go cannot
always scan: a `time.Time` takes an instant only, the detail's `*time.Time`
also NULL.

A handler is cut into steps where another actor can move in between:

| State (`pc[r]`) | Code | Actions that leave it |
|---|---|---|
| `idle` | before the router | `ServeHealth`, `RejectId`, `RejectLang`, `StartList`, `StartDetail` |
| `waiting` | `pool.Query` / `QueryRow` inside `Acquire` | `Acquire`, `DialFails`, `AcquireCancelled` |
| `querying` | connection owned, statement not yet executed | `ExecuteList`, `ExecuteDetail`, `QueryFails`, `QueryCancelled` |
| `rows` | the `rows.Next` loop | `ScanRow`, `ScanFails`, `EndOfRows`, `QueryFails`, `QueryCancelled` |
| `done` | answered with `status[r]`, `items[r]` | |

`Answer` is the one way to `done`: the JSON, the return, and with it
`rows.Close`. `RepositoryFails` takes an error up through the usecase
(`usecaseError`) to `errorStatus`; only the sentinels keep an identity on the
way. `ExecuteList` takes the whole result set at once, which is the snapshot
PostgreSQL gives one statement; the rows are delivered in the order of
`Before`. `StartList` reads the clock when the code does, before the wait.

`faulted` and `window` are history: which requests met a failing dial or
statement (one that ends because its client left, `AcquireCancelled` or
`QueryCancelled`, is not among them), and every version of the tables and clock
reading that held while a request was open. Only properties read them.

Left out: bodies and headers, the log, `gin.Recovery` (no path of the handlers
panics), pgx's statement preparation (part of the statement), and idle
connections that die in the pool (they show as a failing statement).
Requests the router does not know are answered by gin without touching
anything. Edits are single statements, each committed at once: a reader sees
committed rows only, so what transactions add (that some edits appear
together) only leaves out versions; how they meet each other is in
`EditorSessions`. One instance of the service is modelled: instances share
only the tables, and they read nothing of each other. The wall clock does not
go back.

`BeforeYear0` and `AfterYear9999` are stamps that Go scans and JSON cannot
write. `Body` is what `c.JSON` sends: gin has set the status when
`json.Marshal` fails, so one such row empties the whole answer (NULL), with
status 200.

### AnnouncementReads and AnnouncementRefinement

The abstract service has no pool, no faults and no rows that arrive one by one.
`Ask` accepts a list or detail, for a list with the time; `Look` copies what a
list selects, once, at any time since; `ReplyList` answers with all that was
seen, in order; a detail looks and answers in one step (`ReplyDetail`);
`ReplyFailure` answers 500, and `ReplyAtOnce` what needs no tables. A list or
detail it cannot write is a 200 with NULL rows. The mapping takes `waiting` and
`querying` to "asked" and `rows` to "looked", where what was seen are the rows
scanned together with the rest.

### SupportClient

`attempts[c]` are the requests of a call, the current one last; `outcome[c]`
what it returned. `Send` and `Retry` put a request before the router of
`AnnouncementService`; `Receive` turns its answer into a result or a sentinel.
`Break` takes the connection away in either direction, `GiveUp` and `Retry`
are the client's side of noticing, `Disconnected` is the service's, in any
order and at any distance. Whether the transport may retry (a connection used
before, no byte of the answer yet) is left open, so `Retry` is possible
whenever a connection broke; the number of requests bounds the retries. The
client sends `int64` ids, so `RejectId` has no part here. A 200 without a body
fails in the parser (`Result`): an error without a sentinel.

### PublishWorkflow

A run is dispatched on a branch, whose commit it keeps; `pc[r]` is its step,
`local[r]` the tags of the clone it made at its start, `tag[r]` the version it
computed. `Following` is the order of steps of each package's job: `go` builds
before it computes the version, `npm` after, and publishes before it tags.
`Dispatch`, `Complete`, `BreakOff` and the refusals move the concurrency group
of the branch: one run goes, one waits, a newer one takes the place of the one
that waits. `BreakOff` ends a run after any step: a failing step, a lost
runner, the timeout. `next-tag.sh` is `NextVersion` on the three numbers of a
version; `git tag --sort=-v:refname | head -n1` is `Latest`. A re-run from the
UI keeps its old commit; it is a dispatch on a branch that moved since.

External, modelled from how the workflow uses them: the group semantics of
GitHub Actions; origin, which refuses to move a tag without `--force` and takes
one that is there already on the same commit; and the npm registry, which
takes a version once. Tags are made by this workflow only, as its line 5
demands.

### ServerLifecycle

`phase` is the main goroutine in `run`; `deferred` the stack of its deferred
calls (`NewPool` pushes two, in the order of `main.go:48-49`); `server` and
`stopper` the two goroutines of `serve`; `groupErr` the errgroup's first
error, which also ends its context. `Poll` is one round of `Shutdown`: it
waits for `Serve` to be out, closes what `net/http` holds for idle and
returns when nothing is active. A request in `read` has sent its header but is
not yet marked active: `Shutdown` can close its connection (`cut`) while its
handler still starts. The handler is the query of `AnnouncementService` in
three steps, for only its hold on the pool matters here; a request that asks
nothing of the pool never gets in the way of a stop and is left out.
`pool.Close` is two steps, `ClosePool` (from here acquires fail) and
`PoolClosed` (when the last connection is back), because the code puts no
limit on what is in between. A signal is fatal before `NotifyContext` and
after `cancel` (`Caught`). SIGKILL, which a platform sends when it loses
patience, is not modelled: nothing in the code answers it, and nothing is
persisted that it could break.

### EditorSessions

The transactions of operators, under PostgreSQL's default READ COMMITTED.
`store` are the committed rows; a session that changes a row holds its lock
(`holder`) and has its version of it in `draft` until the end. A statement that
would wait for a lock is an action that is not enabled yet; it then goes by the
row that is committed when the lock is free, as PostgreSQL does. `share` is the
lock that the foreign key takes on the referenced row
(FOR KEY SHARE): it keeps `DeleteAnnouncement`, which also takes every
translation it sees, from going on while another session has inserted one. An
UPDATE of the announcement does not conflict with it, for no key column
changes. `touch_updated_at` stamps with `now()`, which is the start of the
transaction. A lock cycle ends in `Rollback`, as PostgreSQL ends it, and so
does any error. Key columns are not updated; savepoints and stricter isolation
levels are not modelled.

The external part is large here: the schema declares, PostgreSQL does. The
module says what the declarations give under overlap, and what they would not
(the mutants: no lock on the parent, no trigger).

### ClientRequests

A URL is its path by segments, a query or none, and whether it parses; a
fragment of a base URL does what a query does. `making` is the constructor at
work: `ApplyOption` is one turn of a loop over options, whose error ends the
construction. `New` ranges over its options to fill the `config` of
`apisupportclient`; `HandOver` turns that into options of the generated client
(`apiOpts`), over which its constructor ranges in turn, and `NewClient` is what
that does behind its loop: the slash, the fresh `http.Client`.
`NewClientWithResponses` is the generated package used directly, with
`WithBaseURL`. A call builds its URL by resolving a relative reference
(`Resolve`), runs the client's editors and then its own, each of which may
fail, and goes to the HTTP client. Calls share the client and run at the same
time; what becomes of a request is in `SupportClient`.

### FakeServer

`field` are the two Fn fields, which the test sets from its own goroutine at
any time, also while handlers run (`Install`); `mu` is the mutex, held by a
handler from `Lock` to `Read`. The fields are exported and the mutex is not, so
the setting is not ordered with the reading: a data race, whose outcomes for a
word that is a func value are the old callback or the new one. A callback is
known by what it returns: any int for a status, and a body that encodes, does
not, or is nil. `writeJSON` is what becomes of it: the error of Encode is
dropped; a status that `net/http` refuses panics and takes the connection away;
101, 204 and 304 are sent without the body; and any other of 100..199 only
informs, so that `net/http` follows it with a 200 nobody asked for, which the
body then goes with. `Close` is two steps, for it waits for every handler.
`held` is history: the values a request's own field has had since it was sent.
`Contract` is what `data/openapi.yaml` has for a request.

### TestDatabase

One process of `go test`: `pc` goes through `Start`, the tests one after the
other, and `Close`; each step may fail, with the way out that the code has for
it (`undo` terminates the container, `fatal` is `log.Fatalf`). `ready` counts
the lines of the image's log, `borrowed` the connections taken from the pool.
Outside faults are remembered in `faults`, so that a property can say which
failure is whose. A test may fail in `Truncate`, end, or panic, which ends the
process past the deferred `Close`.

### StartupConfig

`FromEnv` asks its five getters in order and returns the first error: `Read` is
that order, and `Refused` says what each makes of its variable. The steps after
it are those of `run` that look at what was configured: `setupLogger`, the
pool's target, `net.Listen`. Dialer, pool and listener may also fail with every
variable in order (`DialerFails`, `PoolFails`, `ListenerFails`: no credentials,
a port that is taken), and a malformed `CLOUDSQL_CONNECTION_NAME` fails nowhere
in the startup: nothing looks at it before the first dial. `ServerLifecycle`
has the same failures without their reasons, and what each has to give back.

## Runs

| Run | Configuration | What it asks |
|---|---|---|
| `reads` | 1 request, 3 ids, 2 clock readings, 2 edits, 2 titles, 3 languages asked for, 3 initial tables | the answers: `ListAnswerExact`, `DetailAnswerExact`, `FailureHasCause`, `TablesWellFormed`, and `ImplementsReads` |
| `pool` | 3 requests, 2 connections, tables at rest, fair | `PoolAccounting`, `NobodyIsStranded`, `EveryRequestAnswered` |
| `stale` | 1 request, 1 edit, 1 tick | `ListedWhilePublic` is violated, see below |
| `lifecycle` | 3 connections, pool of 2, 2 signals, fair | `QueryKeepsResources`, `RefusedOnlyAfterTimeout`, `ExitZeroMeansDrained`, `ReleasedAtExit`, `UpMeansServing`, `StopTerminates` |
| `calls` | 1 call, 2 requests, 1 connection, 1 edit, 1 tick, 2 initial tables, fair | `CallsTellTheTruth`, `InternalErrorIsAFault`, `UnnamedErrorHasCause`, `EveryCallReturns` |
| `publish` | 3 runs, 2 branches, 2 commits, both packages, patch and minor, fair | `TagsNameContent`, `UntaggedOnlyIfBrokenOff`, `FailsOnlyToRival`, `TagsNeverMove`, `TagsGrowPerRef`, `RunsEnd` |
| `sessions` | 2 sessions, 1 announcement, 2 languages, 1 inquiry, 1 tick | `ReferencesHold`, `ChangesCarryTheirTime` |
| `requests` | 5 base URLs, 2 options, 2 HTTP clients, 2 editors, 2 calls | `RequestsGoBelowTheBase`, `SentRequestsAreEdited`, `SentToTheLastDoer` |
| `fake` | 2 requests, 10 callbacks, fair | `AnswersFollowTheFn`, `SuccessIsMeant`, `SentinelsAreMeant`, `OneFnBlocksNobodyElse`, `CloseReturns` |
| `contract` | 2 requests, no callback | `ImplementsTheContract` is violated, see below |
| `test_database` | 3 tests, everything may fail, fair | `NothingLeftBehind`, `StartFailsForAReason`, `TestsSeeTheirOwnRows`, `RunMainEnds` |
| `environment` | every shape of the environment, 6 ports | `BlamesAFault`, `ServesWhatWasSet` |

The type invariants are all proved (below), so no run repeats them;
`StartupConfig`'s is part of the inductive invariant of its proofs.

Why the bounds are enough. Requests touch each other only through the pool (no
handler writes what another reads), so the answers need one request and the
pool needs more requests than connections: three on two is the least where one
waits while two different owners leave in either order. Two edits and one tick
put an edit before and after the statement, and let an announcement be inserted
and translated, moved out of its period, or deleted under the request. The
initial tables hold two announcements of the same stamp (the order's second
key), one that expires at the only tick, a `-infinity` row behind a good one,
so that a list fails after a row was scanned, and rows on both sides of the
years that JSON has. `ImplementsReads` is checked where edits and time move,
for one request, and proved for any number. In the life cycle the pool is
smaller than the number of connections, so that handlers queue while `Shutdown`
runs out of time; the second signal is the first one that does nothing. A call
needs two requests, so that the second meets what the first left behind, and
one connection, so that it has to wait for it; the facts about calls do not
relate two calls; their tables have a row to list beside one without a JSON
form, which the edit may take away, and one that cannot be scanned. Two
sessions over one announcement, its texts and an inquiry are every pair of
statements that can conflict; the tick puts transactions that began at
different times side by side. Two options are the least that can override each
other, two callbacks the least that can be exchanged, two requests the least
that can block each other. The ten callbacks of `fake` are a 200 with a body
that encodes, one that does not, and none; a status for each sentinel of the
client; and one each that informs, has no body and is no status. A test has one
of them in use at a time, or the first two (`FewAtATime`), for what a callback
returns matters only to the call that runs it. The ports are the edges of
0..65535, their neighbours, and one that 16 bits would turn into a valid one.
Editors of the announcement runs write NULL or the instant of the tick
(`SmallStamps`). Three runs are one that goes, one that waits and one that
displaces it, or two that race while a third comes after; they are dispatched
in the order of their numbers, the first on `main` at `c1` (`InOrder`, the
constraint that stands for their symmetry), and only the second may bump more
than the patch (`OneMinor`); major bumps differ from minor ones only in
`Bumped`, whose every case is proved. `MaxId`, `MaxTime`, `MaxEdits`,
`MaxSignals` and `MaxOptions` are bounds of the runs, not of the code. Deadlock
is not checked: a behaviour ends when every request has been answered and the
bounds are used up, or the process has exited; a deadlock of editing sessions
ends in a rollback.

Symmetry (interchangeable sessions and languages, calls and editors) is used in
`sessions` and `requests`, which have no liveness property. The constraints of
`publish` and `fake` cut off what the environment may do (dispatches, callbacks
that a test sets) and no step that is assumed fair.

Fairness. `pool`: each handler goroutine that can move does (the Go scheduler),
and PostgreSQL answers a statement. `lifecycle`: likewise for the goroutines of
`serve`, the ten seconds pass, and the statements in flight end. The assumption
about statements is not one the code enforces: there is no statement timeout,
no timeout on the wait for the pool, and `pool.Close` waits without a limit.
Without it neither liveness property holds. `calls` assumes the same of the
service, and that a client notices a broken connection (the keep-alive probes
of the default transport; the client itself sets no timeout). `publish`:
`timeout-minutes` ends every run that goes on, and nothing else is assumed.
`fake`: handlers run and `Close` goes on, but a callback need not return.
`test_database`: `RunMain` goes on from step to step, `Start` waits 60 seconds
at most (`postgres.go:44`), tests end, and `pool.Close` returns when every
connection is back. Failures, clients that leave, new requests, edits and
signals are never assumed to happen.

Every property of a passing run has a mutant (`PROJECT.json`): the action or
helper with the mistake that the property is there for, such as `rows.Err`
forgotten, a connection kept, the two defers swapped, `Shutdown`'s error
dropped, `g.Wait` replaced by the return of `Serve`. TLC finds each violated.

### The list is not of one instant

`usecase.List` evaluates `u.now()` as an argument, before `pool.Query` waits
for a connection, so the list combines an early time with a late version of the
tables. `ListAnswerExact` is what the code does give: one version and one time,
both of the request's lifetime. `data/openapi.yaml:25` promises the list of
the announcements *in publication*; run `stale` shows the corner where it is
not: the time is read, the announcement expires, its text in that language is
inserted, and the statement lists a text that was public at no instant. The
wait for the pool is what makes the gap as long as the load is.

### Other places where words and code differ

Those after the first follow from single lines or from the properties named,
and have no run of their own.

- `server.go:1` and `:15` say that the fake implements the HTTP contract of the
  service. Run `contract` shows what it answers unasked: 404 for `/health`,
  which `openapi.yaml:10-16` answers 200. Nor does its code have the 400 for a
  language that is not there (`openapi.yaml:35`, `:52`): `Default` does not
  look at the language.

- A list or detail with a stamp outside the years 0 to 9999 is answered 200
  without a body (`announcement_handler.go:34`, `:54`); `openapi.yaml:29-34`
  and `:46-51` have a body for every 200. `UnnamedErrorHasCause` shows what a
  caller sees of it.
- `schema.sql:11` calls `updated_at` the time of the last update. It is the
  start of the transaction that made it (`ChangesCarryTheirTime`), so of two
  transactions that update one row, the later to commit may store the earlier
  time. That is how PostgreSQL's `now()` is meant, and no property forbids it.
- `server.go:20`, `:23` say that a callback determines the response, and
  `server_test.go:137` that its status and body become the response as they
  are. Not so for the statuses and bodies named above under FakeServer
  (`SuccessIsMeant` has the one case where the client sees a success).
- `client.go:42` says that the default is `http.DefaultClient`. It is a new
  `http.Client` (`openapi_gen.go:147`, `FreshClient`): a timeout set on the
  former has no effect. `SentToTheLastDoer` says nothing of this case.
- A base URL with a query, or a fragment, loses the last segment of its path,
  because the slash that `NewClient` adds ends up in it
  (`openapi_gen.go:142-145`); `RequestsGoBelowTheBase` leaves these out.

## Proofs

All of them are for every value of the constants: any number of requests,
connections, calls, options, runs, signals, sessions, callbacks and tests, any
tables, any ports, any bounds. Assumed is what the modules state as `ASSUME`
and TLC evaluates in every run: `DataAssumption`, `ServiceAssumption`,
`LifecycleAssumption`, `PublishAssumption`, `SessionsAssumption` and
`FakeAssumption` (NULL is neither a number nor a connection; the initial tables
respect the schema; bounds are natural numbers; the pool has a connection;
bumps and packages are those of the workflow; keys of different tables are
different; a callback returns an int and a body or none); `ValuesAssumption` of
`StartupConfig` (what is missing is not what is malformed, and neither is a
value that parses), `URLsAssumption` and `BoundAssumption` of `ClientRequests`
(base URLs are records of their three parts; the bound is a natural number),
and the `NullAssumption` of the latter and of `TestDatabase` (NULL is no URL,
no test and no end of the process).

`SupportService_proofs`, on `AnnouncementService`:

- `TypeCorrect`: `TypeOK` is inductive by itself; the lemmas say what each
  operator on the tables returns.
- `PoolNeverLeaks`: `PoolAccounting` is inductive given `TypeOK`. Each way out
  of a request goes through `Answer`, which releases.
- `TurnsCome`: that nobody is stranded needs to know what the queue holds.
  `QueueInv` says: exactly the requests that wait, each once. Joining at the
  end (`Joins`), leaving at the front or from the middle (`Leaves`) keep it;
  `NobodyIsStranded` follows with `PoolAccounting`, for a connection without
  an owner lets the first in the queue go on.
- `TablesStayWellFormed`: needs that no id is reused, `a.announcement_id <
  nextId`; with it `TablesInv` is inductive.
- `ListsAreExact`, `DetailsAreExact`, `FailuresHaveCause`: about what a request
  in mid-flight will answer. `RequestInv(r)` says: an open request has the
  present version and time in its window; the time it read is in its window;
  and while it reads rows, there is one version of its window whose listing is
  the rows scanned plus the rest, the scanned ones in order and before every
  one of the rest (`Reading`). `EndOfRows` then gives the theorem. `Frame` says
  that a step that only lengthens windows keeps `RequestInv`, which settles
  edits, ticks and the steps of other requests; each step of the request
  itself is one case. That a detail has at most one row comes from the table
  keys (`DetailUnique`).

The same module, on `AnnouncementRefinement`: `ServiceImplementsReads`. Both
specifications read the same tables with the same queries (`SameData`,
`SameQueries`), and refuse the same requests (`Verdicts`). Beside `AnswersInv`
the mapping needs `MapInv`: a list's time is not in the future and whatever was
scanned could be. Then each action is one case: a step of the promise, or a
stutter (`Acquire`, `ScanRow`, `ClientGone`).

The same module, on `SupportClient`: every step of the client with the service
is a step of the service or none (`ServiceUnderClient`), so the invariants
about requests hold under retries. `ClientInv` adds that what a call returned
is the answer of its last request, which is done, stays as it is (`DoneStays`),
and whose client never left: a handler sees its client leave only over a broken
connection (`gone \subseteq broken`), and over a broken connection nothing is
received. `CallsAreTruthful`, `InternalErrorsAreFaults` and
`UnnamedErrorsHaveCause` follow from the properties of that request.
`CallsAreNotStuck` takes `TurnsCome` over to the client: what a call waits for
is answered, inside its query, or in that queue, behind its own first request
or not.

`ServerLifecycle_proofs`:

- `TypeCorrect` as above.
- `QueriesKeepResources`, `EverythingReleased`: `Holds` ties the resources to
  the stack of deferred calls, which has only four values; what is on the
  stack is open and what is open is on the stack (or, for the dialer, in the
  middle of `newDatabasePoolWithIAMAuth`).
- `RefusalsFollowTimeouts`, `ZeroMeansDrained`: `Groups` says that the deferred
  calls run only after both goroutines are out or before either began;
  `Handlers` that after a complete `Shutdown` only handlers of closed
  connections are left. With these `RefusedOnlyAfterTimeout` and
  `KilledOnlyIfCut` are inductive.
- `StaysUpServing`: `Told` adds what the property rests on: only a context that
  is done starts `Shutdown`, and no listener is closed before `serve` begins.
- `StopIsNotStuck`: in every state of a process that was told to stop, or that
  returns from `run`, one of its own steps can be taken (`ServeMoves`,
  `UnwindMoves`; the timeout of `Shutdown` is one) or a statement is in flight.
  With `Holds` no deferred call finds its resource gone. What is missing to
  `StopTerminates` is fairness.

`PublishWorkflow_proofs`: `IInv` says what a run knows at its step and leaves
behind (`RunInv`), that a branch has one run that goes and one that waits
(`GroupInv`), which run each tag is from (`OriginInv`) and who published each
version (`RegistryInv`). The heart of `TagsGrow` is that whatever an earlier
run of the branch pushed is in the clone of a later one, for the group never
lets two go at once; of `TagsAreContent` that a published version has one
content, which is the one its run tags. `FailuresHaveRival` has an invariant of
its own, `RivalInv`: the rival does not go away. `NobodyWaitsIdly`: whatever
ends in a group starts the run that waits in it, so a waiting run always has
one that goes before it.

`EditorSessions_proofs`: `ForeignKey` needs to know what the lock protects.
`IInv` says that a row's holder is in a transaction (`OpenHolders`), that what
it drafts carries its time (`Stamped`), that whoever inserts a translation
shares the announcement's key (`Sharing`), that a translation in draft has an
announcement its session sees and nobody is deleting (`Supported`), that
whoever deletes an announcement has all its translations, deleted too
(`Cascaded`), and that an identity not drawn has no row (`Numbered`). Then no
commit leaves an orphan: the deleter holds every committed child, and whoever
drafts a new one shares the parent, for which the deleter has to wait.
`Touched` follows from `Stamped`. `NumbersUsedOnce` is about two moments: a row
of an identity that was there and is gone leaves the number drawn and nobody
with a row of it in draft (`Spent`), and `Spent` stays (`StaysSpent`).

`FakeServer_proofs`: `WrittenAnswer` is what the client can tell of a
callback's status and body, for every int. `Handling(c)` says that what a
handler has read was in its own field since its request came, and `Answered(c,
a)` that an answer is made from such a value; `FollowsTheFn`, and with the
operators of `ClientResults` `SuccessMeant` and `SentinelsMeant`, follow.
`MutexHeldToRead`: the mutex is held by whoever is between `Lock` and `Unlock`
and by nobody else (`HeldToRead`), so no callback is waited for under it.

`StartupConfig_proofs`: `StartupInv` says of each step of the startup what it
rests on: which variables are known to be in order, what the `Config` holds
(`KnownAtEachStep`), and `BlamesAFault` itself. `BlameIsJust` and `ServesAsSet`
follow; ports outside 0..65535 are the case where a step behind `FromEnv` has
to find the fault, and the name of the instance the one that no step finds,
which is why a process may serve with that, and with nothing else, at fault.

`TestDatabase_proofs`: `DatabaseInv` says where in `RunMain` a container runs
and its server is the one that listens (`ContainerInv`), where the pool is
open and how many of its connections are out (`PoolInv`), that only the test
under way has written rows (`TestInv`), and how each end was come to
(`EndInv`). `EverythingTakenDown`, `FailuresHaveReason` and `OwnRowsOnly` are
parts of it; that `pool.Close` never waits for a connection of a test that
failed is part of `PoolInv`: one is out while `Truncate` reads rows and at no
other step.

`ClientRequests_proofs`: the options pass through two loops, so the inductive
invariant has to say in the middle of each what the fields filled so far stand
for. `MakingInv` says: the first `applied` of the options given (`Gathering`),
or, in the second loop of `New`, the first `applied` of those that its config
was turned into, the config standing for all that were given (`Refilling`);
and a client stands for all of its options (`ClientOf`). `CallsInv` says of a
call what its URL is and that the edits done and those still to do are the
client's, then its own (`UnderWay`). `GoesBelowTheBase`, `EditedInOrder` and
`GoesToTheLastDoer` follow.

Model-checked only are the liveness properties, `EveryRequestAnswered`,
`EveryCallReturns`, `StopTerminates`, `RunsEnd`, `OneFnBlocksNobodyElse`,
`CloseReturns` and `RunMainEnds`, for they need fairness, and with it
`ENABLED`, which is beyond the prover. Proved of the first five is what makes
them true but for fairness: `TurnsCome`, `CallsAreNotStuck`, `StopIsNotStuck`,
`NobodyWaitsIdly` and `MutexHeldToRead`. Runs `stale` and `contract` are about
properties that do not hold.


## Not modelled

- Generated types of the npm package: no state, no operation.
- Deployment, CI and the test catalogue: calls into workflows of another
  repository.
- The request log, `gin.Recovery`, and the text of errors and logs: no state
  that the API shows.
- `internal/port/mock_announcement.go`: a generated mock.
- Health checks and idle timeouts of the pool's connections: a lost connection
  shows as a failing statement.
- What the container's image, Docker and the registry do inside.

The parts that were planned are written. What is left to strengthen: a proof
that `EditorSessions` gives `AnnouncementService` the edits it assumes, every
committed transaction being a sequence of single edits. `NumbersUsedOnce` and
`ForeignKey` are two parts of it: the ids are fresh, and no commit leaves an
orphan.
