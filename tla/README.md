# A verification development for aaa-backend-stack

The stack is a set of npm packages for REST and GraphQL backends on hapi,
Sequelize (v3) and PostgreSQL, with a template project that uses them. All of it
runs in one node process on a single-threaded event loop: `Promise` is bluebird
everywhere, and what interleaves are the continuations between two `await`s, the
callbacks of timers and of `setImmediate`, the queries that several requests have
on the way, and processes that are started again over the same database.

The TLA+ modules here model the parts in which that matters. A step of a model is
what the code does between two awaits or, where the state is in PostgreSQL, one
query or one transaction. Paths below are relative to `src/packages/`.

## 1. Inventory

| Part | Source | State | Operations |
| --- | --- | --- | --- |
| Pool of test databases | `aaa-storage/src/PGTemplatePool.ts`, `SlaveDB.ts` | slaves with `_initialized`, `_dirty`, `_closed`, `_destroyed`; the current slave; timers | `getNextSlaveDBName`, `close`, `reopen`, `destroy`, deferred creations |
| Test strategy | `aaa-storage/src/TestStrategyClass.ts` | the pool, the storage's connection; the template and the intermediate database | `init`, `switchToNewSlaveDB`, `disconnectSlave`, `reconnectSlave`, `importFromSQLDump`, `mochaIsAllowedToSkipHardStorageReset` |
| Storage adapters | `aaa-storage/src/adapters` | `_sequelize`, `_umzug`, `_models` | `initialize`, `reinitialize`, `disconnect`, `migrateUp`, `dropAllTables`, `transaction`, fixture imports |
| Test set-up | `template/src/test/setup.ts` | `isDatabaseDirty` | mocha's global hooks |
| `synchronized` | `aaa-utils/src/synchronized.ts` | `mutexCache` | the synchronized function |
| Hook life cycle, API | `aaa-utils/src/HookLifeCycle.ts`, `aaa-rest/src/server/Api.ts` | `_hooksInitialized`, the hooks, the server | `initHooks`, `resetHooks`, `killHooks`, `startServer`, `shutdownServer` |
| Authentication | `template/src/services/auth`, `template/src/api/auth`, `template/src/models` | users, access, refresh and password reset tokens | login, refresh, guest, register, Facebook, Google, logout, initiate and complete a password reset, the bearer strategy |
| User settings | `template/src/api/user`, `template/src/hooks/05-push-notifications.ts` | profiles (`legalAcceptedAt`), push tokens | patch, register a device, expired and updated tokens |
| Push notifications | `aaa-pushes/src` | `currentTry`, `isSent`, hooks | `send`, retries, responses |
| Logger streams | `aaa-logger/src` | collected errors and a timeout; `slack.enabled` | `write` |
| Files and images | `aaa-file-storage*/src`, `aaa-image-service/src` | a directory or bucket, temporary files | write, read, delete one or several; process a multipart request, clean its images up |
| GraphQL | `aaa-graphql/src` | the schema's cache of types | resolvers of objects, lists, offset and relay pages |
| REST | `aaa-rest/src` | routes | decorators, swagger |
| Mailer, serverdate, polyfills, tools | `aaa-mailer`, `aaa-serverdate`, `aaa-polyfills`, `create-aaa-backend`, ... | a transporter, a cached offset | sending, formatting, scripts |

How they interact:

* `TestStrategy.init` prepares the template database and constructs the pool over
  it; before a test that needs a fresh database mocha calls
  `switchToNewSlaveDB`, which disconnects the storage, takes a slave from the pool
  and connects the storage to it, and then `resetHooks`.
* The pool works on its own: it creates databases (`CREATE DATABASE ... TEMPLATE`),
  replaces a slave that was taken, and drops used ones after a delay.
* Requests share nothing but the tables. hapi's bearer strategy reads the access
  token before a handler runs; handlers await one query after another and open
  transactions only where two writes belong together.
* The hooks connect everything to the API server: the storage hook is in the first
  group and is destroyed last.
* A promise that is rejected and that nobody handles ends the process
  (`attachGlobalUncaughtExceptionHandler`): for the pool that is a failure mode of
  its own.

What makes each part hard, and when it is correct:

* **Pool.** Creations end in any order or fail, several switches may race for the
  first ready database, and a timer drops a database that a test may have
  reopened. It is correct when no two switches get the same database, when the
  pool neither runs dry nor grows, when only used databases are closed or dropped,
  and when all of it together looks like one fresh database after another.
* **Preparation of the template database.** It is aborted anywhere, tried again,
  and its cache of migrations outlives the process. It is correct when the pool
  clones exactly the migrations that there are, with fixtures, and when the cache
  never claims migrations it does not hold.
* **`synchronized`.** Callers share a promise and each of them clears the cache. It
  is correct when one run is on at a time for a key, everybody gets the result of
  the run they joined, and nobody hangs.
* **Authentication.** Checks and writes are different queries, tokens are inserted
  concurrently, some work is not awaited, any query may fail. It is correct when
  accounts are unique, a logout is final and confined to its user, an answer
  carries the tokens that exist, and no stale copy of a user is written back.
* **Hook life cycle.** Start-up, a reset and several shutdowns go through the
  hooks at the same time, hooks fail, and in tests the storage comes and goes
  underneath them. It is correct when a hook is only up on top of those it builds
  on, when requests find a schema of the database that is connected, when a
  successful exit has closed everything, and when a signal ends the process.
* **Test set-up.** Tags and outcomes decide whether a database is used again. It is
  correct when no test sees what a failed or unrelated one wrote.
* **User settings.** A profile is read, compared and saved in three queries; so is a
  device's row, and hooks for what push services report run between them. It is
  correct when a device keeps one row with the user that registered it last, and
  when no request undoes a setting it was not asked to change.
* **Push notifications.** Answers are late or lost, errors are tried again, callers
  call again, and hooks for reported tokens run meanwhile. It is correct when the
  answer to each call says how often the message can have been sent on for it, when
  expired tokens leave, and when sending ends.
* **Logger streams.** Errors arrive while others are being mailed, the streams log
  warnings themselves, and an unhandled error ends the process a little later. It is
  correct when every error is reported once, and the fatal one before the end.
* **Files and images.** Checking, writing and deleting are separate operations, some
  not awaited, and the files of one request are processed side by side while one of
  them fails. It is correct when nothing is overwritten that may not be, when a file
  holds what callers were told, and when images and temporary files are complete and
  gone again when they should be.
* **GraphQL.** Nodes and total count are two queries that build the same condition in
  two ways, limits and offsets are defaulted and capped, and the table changes
  between two pages. It is correct when a client that follows the pages misses no row
  (and sees none twice, if the order of the list tells rows apart), and the count is
  that of the list it reads.

## 2. Modules

| Module | Models | Checked by | Proofs |
| --- | --- | --- | --- |
| `IsolatedDatabases` | what the test strategy promises, with three actions | as a property of `TemplatePool` | |
| `TemplatePool` | pool, slaves, the strategy's operations, the storage's connection | `MCTemplatePool`, two runs | `TemplatePoolProofs` |
| `MigrationCache` | `TestStrategy.init` up to the pool, over several processes | one run | `MigrationCacheProofs` |
| `Synchronized` | `synchronizedBy` over bluebird's queue | one run | `SynchronizedProofs` |
| `Sessions` | the authentication service over its tables | `MCSessions`, two runs | `SessionsProofs` |
| `LifeCycle` | `HookLifeCycle`, `Api`, signals, the end of the process | through `TestRun` | |
| `TestRun` | `LifeCycle` together with the test set-up and mocha | `MCTestRun`, one run | `TestRunProofs` |
| `UserSettings` | push tokens, legal settings, the hooks that change tokens | through `Deliveries` | `DeliveriesProofs` |
| `Deliveries` | `UserSettings` together with notifications to Android and Apple devices | `MCDeliveries`, one run | `DeliveriesProofs` |
| `LogStreams` | error mails, Slack, the exit after an unhandled error | one run | `ServerProofs` |
| `FileStorage` | local and S3 storage: calls and operations | through the two below | |
| `FileClients` | `FileStorage` with users that call anything | one run | `FileStorageProofs` |
| `ImageUploads` | the image service as the user of `FileStorage` | `MCImageUploads`, one run | `FileStorageProofs` |
| `Queries` | resolvers of lists and pages over a table that changes | `MCQueries`, one run | `ServerProofs` |

In each module, a group of *variants* stands before the helpers: a variant is a
helper with one plausible mistake in it (a reset that is missing, a check that is
dropped). They are not used by the specification. For every property of a passing
run `PROJECT.json` names a variant that, put in the place of its helper, makes TLC
report the property as violated: no property holds by the shape of the model.

### TemplatePool

A slave is its id. `count` is `constructedSlavesCount`, and `initialized`, `dirty`,
`closed`, `destroyed` are the sets of slaves with these flags. Each call of
`SlaveDB.initialize` makes a new Sequelize instance, `<<slave, n>>`; `open` are those
not closed, `attached` is the storage's. `batch` and `deferred` are the `setImmediate`
callbacks of `addSlavesDeferred` and `addSlaveDeferred`, `timers` the pending calls of
`destroy`. `awaited` are the slaves still being created that a `Promise.any` was ever
given: its handlers stay on their promises when another slave settles it, so that a
failed creation of one of them ends no process, while that of any other is an unhandled
rejection (`SlaveFailed`). The exit follows at once: the set-up of the tests attaches
the handler with a timeout of 0 (`template/src/test/setup.ts:22`). A *caller* is a chain
of awaits on the strategy.

| Action | Code |
| --- | --- |
| `SwitchToNewSlaveDB`, `TakeReady`, `GetManagedItems`, `Attach` | `switchToNewSlaveDB` and `getNextSlaveDBName` between their awaits |
| `SlaveReady`, `SlaveFailed` | the end of the queries in the constructor of `SlaveDB` |
| `AddPrebuffer`, `AddSlave` | the callbacks of `setImmediate` |
| `DestroyTimer` | the timer of `getNextSlaveDBName`, with the exception of `SlaveDB.destroy` that nobody catches |
| `DisconnectSlave`, `ReconnectSlave` | the operations of the same names |
| `ImportFromSQLDump`, `ImportFailed`, `ImportLoaded`, `MigrateImported` | `importFromSQLDump` around psql and the migrations |
| `AuthenticateFails` | the last retry of `initConnectionAdapter`, which exits the process |

`IOTurn` is the scheduling of node: continuations of settled promises and callbacks
of `setImmediate` that are queued run before a completion of I/O that comes later.
It is what keeps a pool of one database from running dry: with the variant `AnyTurn`
in its place a switch finds no database, and `SwitchConnects` is violated.

### MigrationCache

A migrations directory is a function from file names to versions, which stand for
contents as well as for their MD5 sums (two contents with one sum are not
considered). A database is what was migrated, whether the table
`test_strategy_intermediate` exists, the hashes in it, and whether the fixtures were
imported. `pc` follows `init` from query to query; queries that cannot be told apart
after a crash share a step, and a `DROP` and the `CREATE` after it do not.
`AttemptFails` is `bluebirdRetry`: the next attempt starts from the beginning, over
what the failed one left. `Exit` is every other end of the process. `mode` covers the
three configurations (`useMigrationIntermediateDBCache`, `fastDropAndCreate`), which
may differ from one start to the next. Migrations run in any order here: nothing
depends on it. The module ends when the pool is constructed.

### Synchronized

bluebird keeps the continuations of settled promises in one queue, first in, first
out, and drains it before node runs another callback. The queue is a sequence of
jobs; `Call` is a call from a callback of node, `QueuedCall` one from a
continuation, either of a caller that just returned (`AfterAwait`) or, with
`unrelatedJobs`, of any other promise (`QueueCall`). TypeScript compiles `await` to
a generator whose steps are such continuations.

### Sessions

A request is a process that is sent once; rows are named after the request that
inserted them. `Send` is the first query of each endpoint, `Continue` the others.
`floating` are insertions of tokens that go on after `Promise.all` was rejected,
`doomed` the deletions of expired refresh tokens that the code starts and does not
await. `delivered`, `mailed`, `loggedOut` and `exchanged` only record what happened.
Unique keys and `ON DELETE CASCADE` are those of the migrations. `save()` writes the
attributes that were changed in the copy that was read (`Saved`), which is what
Sequelize does. Scopes, hashing, delays against timing attacks, input validation
and profiles are left out. The accounts of Facebook and Google all have an email
address here: without one (`facebook.ts:78-82`) the code looks for, and stores, a
username that is `undefined`, and what Sequelize makes of that in a condition is not in
this repository.

### LifeCycle and TestRun

`LifeCycle` has no specification of its own: `TestRun` puts what happens in tests
beside it, and in production adds nothing. A *run* is one call that goes through the
groups of hooks on its own: `"boot"` is `initHooks`, `"reset"` is `resetHooks`, and
each signal has its `killHooks`. `op`, `todo` and `pending` say how far a run is.

| Action | Code |
| --- | --- |
| `StartGroup`, `HookReady`, `HookFails`, `GroupsReady` | `_initializeHooks`: `Promise.each` over the groups, `Promise.all` over the hooks of one |
| `DestroyGroup`, `GroupsDestroyed` | `_destroyHooks`, and `resetHooks` after it |
| `ServerStarts`, `ServerFails` | `startServer` after `initHooks` |
| `Kill`, `ShutdownServer`, `StopEnds`, `Exit` | a signal, before and after `startServer` has installed the handlers |
| `ExitRejected` | `attachGlobalUncaughtExceptionHandler` |
| `Prepare`, `AttachFirst`, `SetupDone`, `SetupFails` | `globalBefore`: `TestStrategy.init` and `Api.ready` side by side |
| `BeforeEach`, `SwitchDone`, `SwitchFails`, `ResetDone` | `globalBeforeEach`: `switchToNewSlaveDB`, then `resetHooks` |
| `NextSuite`, `Test`, `MochaEnds` | mocha, and `globalAfterEach` |

`storage` is the database the storage is connected to: the one that tests run on at
present is `"current"`, those of the preparation are `"template"`. `schema` is the
connection on whose models the GraphQL schema was built, `building` the one that was
there when its hook began; a schema of a connection that is gone is `"old"`.
`resolved` is the promise `isInitialized`, for which the storage hook waits in tests.
`TemplatePool` has the switch in detail; here it is two steps. `written` records
which tests wrote to the connected database.

What is assumed of code outside: what hapi answers to a second `stop` is left open
(`ShutdownServer`). A rejection is fatal ten seconds later in production and a
shutdown takes at most five; no clock is modelled, but `TimerElapsed` says that
after a rejection a shutdown that is going on ends first. `resetHooks` is called by the
set-up only.

Any test may write to the database, whatever its tags: "don't use this if your test
makes modifications to the database!" says the comment on `#noreset`
(`TestStrategyClass.ts:23`), but nothing enforces it, and two tests of
`legal.controller.test.ts` (lines 73 to 106) are tagged so and set `legalAcceptedAt`.
`written` tells writers apart by what excuses them: `"noreset"`; a `"bundle"`, that is a
passed test of the present suite with `#resetafter`; a `"kept bundle"`, whose suite has
ended but whose last test was `#noreset`, or which skips tests; and `"other"`, all the
rest. When a switch begins nothing is `written` any more. Skipped tests run no hooks
around them; that a suite has some is `suite.skips`, for they never get a state and
count as tests still to come (`Remaining`).

### UserSettings and Deliveries

`UserSettings` has no specification of its own: it is the tables of push tokens and
profiles with the handlers that change them, and `Deliveries` adds what is sent.
A push token stands for a device with its type. A row of `pushTokens` has a uid that
is never given twice; there may be several of one token, for the migrations make no
unique index on it. `copy` is the Sequelize instance a request has read, and `Changed`
is what `save()` then writes: the fields that differ from what was read.
`hooks` are calls of the application's hooks for expired and for updated tokens that
have not ended. `registered`, `contended` and `merged` only record what happened:
`contended` are tokens whose rows two handlers changed at a time, `merged` those that
replaced another token while they had a row.

| Action | Code |
| --- | --- |
| `FindOrInitialize`, `SaveToken` | `POST /user/pushtoken`: `findOrInitialize`, then `save` (an insertion, an update, or nothing) |
| `ReadProfile`, `SaveProfile` | `PATCH /user/legal`: read and check, then save |
| `ExpireToken`, `FindOldToken`, `UpdateToken` | the hooks in `05-push-notifications.ts` |
| `Notify` | `sendMessage`: the tokens of a user, and the first `send` to both services |
| `TrySendFails`, `TrySendSucceeds`, `Retry`, `SendAgain` | `AndroidPushNotification`: `trySendMessage`, the delay and the retry, another call of `send` |
| `AppleResponds`, `AppleEnds` | `ApplePushNotification.send` before and after it awaits the hooks |
| `HookFails` | a query of a hook fails: logged for Apple, an unhandled rejection for Android |

`android[n]` holds the fields of an `AndroidPushNotification`, which all its calls of
`send` share; `sends[n][k]` is where the k-th call is, or how it was answered, and
`accepted[n][k]` how often Google's service has really sent the message on for it: a
request whose answer is lost may have been served. Calls may overlap in any way,
because `send` refuses only once `isSent` is set, which is when the first answer comes
(`overlapped` are the notifications where one did).

Things a reader may not expect, all as the code has them: two registrations of one
device at once leave two rows; so does the hook for a replaced token when the new one is
registered already, with no two handlers at once; a notification can be sent again
before its first answer, and both calls are then answered with results; two calls share
one count of tries, so the second may be the last try of the first; the hooks after
Google's answer are started in an array that `await` does not wait for; any error Google
reports for a token, not only that it is not registered, counts as expired;
`Retry-After` is looked up as a property of a `Headers` object and so never used; and
two patches at once can move `legalAcceptedAt` back (`LegalDates` says exactly when).

### LogStreams

A fatal error is a number, in the order in which they were logged. Time passes in
ticks, and a timer holds the ticks that are left; a timer that is due runs before the
next tick. Writing a record is one step with all that the streams do in it, the
warnings they log themselves included. `collectedErrors` and `sendErrorMailTimeout`
are those of `BunyanErrorMailStream`; `posts` and `bodies` count requests to Slack and
their bodies that are on their way, `mails` the mails. `GetChildLogger` is a module
being loaded: before `configure` it gets the mock logger, for good. A request to Slack
that fails is a rejection nobody handles, so it is logged as a fatal error and ends
the process (`SlackFails`); that is the code, too.

### FileStorage, FileClients and ImageUploads

A *call* is a method of `IFileStorageService` that has not answered; an *operation* is
what it handed to the file system or to S3, which goes on when the call does not await
it. A local write truncates the file first (`LocalWriteBegins`), may be mixed with
another writer of the same file, and goes to an unlinked file when the path is
deleted meanwhile; S3 stores an object at once. Every operation may fail, on S3 also
after it was done. A read takes the content first and answers later: S3 hands out the object
(`ContentTaken`), and the local file is opened and read in parts, during which another
writer may change it, also when it has been unlinked since (`LocalReadsOn`; what is read
then is the new content or a mixture). `known` is what somebody who saw all answers may
conclude about a file, `expected` what was known of it when a read began, unless
somebody has been changing it since; `swallowed` are the files whose deletion failed
in a call that was answered with success; `saw` is the number of deletions when a call
found a file it may not overwrite, or when a read opened it.

| Action | Code |
| --- | --- |
| `WriteFile`, `LocalPrepareFails`, `FileFound`, `WriteIssued` | `writeFile` up to the write itself, with the check of `fileExists` |
| `LocalWriteBegins`, `LocalWriteEnds`, `LocalWriteFails`, `S3Upload`, `S3UploadFails` | the write |
| `DeleteFile`, `DeleteFiles`, `LocalUnlink`, `S3Delete`, `DeletionFails` | deletions, one or several; `Settle` is how they are answered |
| `ReadFile`, `ContentTaken`, `LocalReadsOn`, `ReadEnds` | `readFile`: called, the content read, answered |

As in the code: an error of `fileExists` counts as "no file", so a write may then
overwrite; checking and writing are two steps; the local `deleteFiles` answers
success whatever failed, that of S3 an error. `FileClients`
bounds the calls. `ReadsAsAnswered` is about reads that nobody disturbs, of files that
are not `swallowed`: one that overlaps a write or a deletion may answer the content from
before or after it, or, locally, a mixture, and no document promises more.

`ImageUploads` is a client whose callers are the files of a request. `at` is how far the
processing of a file is; `temps` is the temporary directory, `unlinks` are the calls of
`fs.unlink` that are not awaited, `left` the files that stay because an unlink, gm or
the storage failed. When one file fails the others go on (`Rejected`); the images
they store are not removed again, and no document says they are.

### Queries

A row is a number, its place in a unique order (that of the primary key, say). `list`
says which resolver it is (`resolvePaginatedOffsetListType`,
`resolvePaginatedRelayListType`, `resolveListType`, `resolveObjectType`), how it is
ordered, and whether the target's `before` handler restricts it; `args` are a client's
arguments. `NodesWhere`, `CountWhere` and `RelayWhere` are the conditions that the three
queries are made with, from `ParseBeforeHandler` and the mappers. A step is one query;
the client goes on with the next page from what was answered, as the types of the API
suggest.

The order is the application's (`mapGraphQLOrderByEnumToSequelizeOrder`), and nothing is
added to break ties. It is one of three: `"unique"`; `"key"`, a column (`Key`) in which
rows may be alike; and `"none"`, which tells no rows apart, as when no order is given or
when the one on included models has no effect (`TODO.md:65` calls that not
deterministic). graphql-sequelize adds the primary key to a relay list's order for its
cursors, so relay lists are `"unique"`. Of rows that are alike, each query may have any
in the places that they take together (`Pages`). Pages of a list with ties may therefore
repeat a row and leave out another; `PagesCover` says what is left: for every row that
was there throughout one that is alike has been seen, and with a unique order the row
itself, and none twice.

A limit or an offset of 0 is the default, a negative limit is refused by PostgreSQL, a
relay list's count does not see the `before` handler: `TotalIsOfTheList` leaves that case
out. Joins that are counted row by row (`countRootDistinct` and
`countAssociatedDistinct` set to false) and `before` handlers that replace the condition
instead of adding to it are not modelled. graphql-sequelize is modelled by what it does
with these arguments.

## 3. Runs

| Run | Distinct states | Shows |
| --- | --- | --- |
| `pool_sequential` | 2 751 | one user, pool of one, databases get created: `ProcessSurvives`, `StorageOnLiveSlave`, `SwitchConnects`, and the refinement `ImplementsIsolation` |
| `pool_concurrent` | 80 308 | two users, creations may fail: `NoDatabaseHandedOutTwice`, `PoolLevel`, `OnlyUsedDatabasesEnd`, `CallsEnd` |
| `migration_cache` | 77 272 | starts, crashes and retries in every order, files edited between starts: `CacheSound`, `TestsMigrated`, `CacheWithoutFixtures`, `NothingMissing` |
| `synchronized_calls` | 77 140 | callers from node, from continuations of their own and from unrelated ones: `SharedRuns`, `MutexReleased`, `CallersReturn` |
| `sessions` | 160 432 | two requests to every endpoint, failing queries: `UniqueAccounts`, `LogoutEnds`, `LogoutConfined`, `TokensDelivered`, `NoLostUpdates` |
| `sessions_refresh` | violation | two requests exchange one refresh token: `RefreshTokenExchangedOnce` |
| `test_run` | 300 173 | production and tests, failing hooks, two signals at any time, suites with any tags and skipped tests: `InOrder`, `ServesCurrent`, `CleanExit`, `OnlyBundlesShare`, `StartEnds`, `ShutdownEnds` |
| `deliveries` | 610 334 | registrations, patches and one notification to several devices, with calls of `send` that overlap, lost answers, retries and hooks in any order: `OneRowPerDevice`, `LegalDates`, `DeliveredAsAnswered`, `ExpiredLeave`, `SendsEnd` |
| `log_streams` | 338 376 | errors, mails, posts to Slack and unhandled errors at any time: `EveryErrorOnce`, `MailedBeforeExit`, `ErrorsHandedOver` |
| `file_clients` | 2 334 188 | two users of either storage, any operation may fail: `ExistingKept`, `ReadsAsAnswered` |
| `image_uploads` | 165 586 | two files of a request, any step may fail, and the clean-up: `ImagesAsAnswered`, `TemporaryFilesLeave` |
| `queries` | 1 985 449 | lists of every kind and order, read page by page from a table that changes: `PagesCover`, `TotalIsOfTheList` |

### Bounds

* `TemplatePool`: `MaxCalls` bounds the calls of the strategy that are explored,
  and with them slaves and timers. Five calls of one user contain every sequence of
  a switch, a disconnect, a reconnect or import and two more switches, which is as
  far as a destroy timer reaches; a pool of one is the one that runs dry first. Two
  users with two prebuffered databases and three calls contain the races for one
  ready slave, for one that is still being created, and for the last. The theorems
  of section 4 hold for every value of these constants.
* `MigrationCache`: two files with two versions give every way for two directories
  to differ (a file more, a file less, a changed file, or both). Two attempts
  contain a retry after every query. The number of starts is not bounded.
* `Synchronized`: `MaxRuns` bounds runs of the target, and `MayCall` keeps one for
  each queued call so that nobody is stuck at the bound. Three callers are the
  creator of a run, one that joins it and one that comes in between; two keys show
  that keys do not disturb each other.
* `Sessions`: two concurrent requests to any endpoint, besides what an earlier
  registration left, are the races between any two operations. Requests are
  interchangeable (`RequestSymmetry`; the runs that use it check no liveness).
* `Deliveries`: one notification goes to at most two Android devices and an iPhone, so a
  service may report several tokens, and one as replaced by another that has a row.
  `RetryCount` and `MaxSends` of 2 contain a retry, the last try, a second call of
  `send` before, during and after the back-off of the first, and one after the message
  was sent. `MaxCalls` of 2 leaves two more calls, of requests or of `send`: two
  requests race for a device or for a profile beside the notification, or one runs
  beside two calls of `send`. `Rows` bounds insertions (`InsertRow`) and has a uid for
  every one there can be here, `MCCallIds` names enough for all hooks; `Today` of 1
  leaves a date before, on and after it, and one too far in the future.
* `LogStreams`: a time window of two ticks and an exit after five, so that one error
  after another can put the mail off beyond the exit. With three fatal errors one
  waits while another is being mailed. Posts on their way are counted up to three;
  more make no difference to what the properties say.
* `FileClients`: three calls of two callers on two paths are a write that is checked
  while another writes or deletes, and a third call that reads what they left.
* `ImageUploads`: two uploads are one that fails and one that goes on.
* `Queries`: the rows are any subset of four, with and without the group filter, and
  one row that a join finds twice; limits are missing, negative, zero, below, at and
  above the maximum of three; two changes of the table fall between any two queries. In
  the column `Key` three of the four rows are alike, so that they are in different pages.
* `TestRun`: two signals are a shutdown and one that comes while it goes on, or
  after it. Two hooks share a group and the third is in a later one, so that there
  is an order within a group and one between groups. A suite of two tests has a last
  one and one that is not, and may have skipped ones besides; the number of suites is not
  bounded.

Deadlock is not checked where the system really stops: a process that exited, a
bound that is used up, callers or requests that are all served, a client that has
read its list to the end. `MigrationCache`
can always be started again, and is checked for deadlock.

### Fairness

* `TemplatePool` (`FairSpec`): queued callbacks run, PostgreSQL and psql answer
  (`SlaveReady` of each slave, `Continue` of each caller). That `SlaveReady` and
  `SlaveFailed` exclude each other means that a creation ends in one of two ways.
  No timer has to fire and nobody has to call.
* `Synchronized`: jobs in the queue run, and a target settles. A target that never
  settles blocks its key for good; nothing in the code claims otherwise.
* `TestRun` (`FairSpec`): jobs in node's queues run, hooks and hapi answer (a hook
  that fails has answered), the timer of a rejection fires, and `TestStrategy.init`
  ends. Nothing is assumed of signals, and of mocha only that it ends after its
  root hooks have failed.
* `Deliveries` (`FairSpec`): a request to Google has a timeout of 15 seconds and the
  delay before a retry ends, while the process lives (an unhandled rejection of a hook
  ends it: `failedHook`). What the service answers is left open, and nothing is assumed
  of requests and hooks.
* `LogStreams` (`FairSpec`): time passes and node's timers run. No answer of a mail
  server or of Slack is assumed.
* The other runs check safety properties only. `sessions` uses the symmetry of requests
  and so could check no liveness.

### Disagreements with the documentation

`sessions_refresh` shows that the code does not do what the documentation of an
endpoint and a test say (`findings` in `PROJECT.json`): reading the refresh token and
deleting it are two queries, and deleting a row that is gone succeeds. Two requests
with one token are both answered with new ones.

These are known from the models, too. No run is kept for them; the properties of the
runs leave just these cases out, and their comments say so:

* `synchronized`: every caller of a run deletes the key when it continues, so the last
  of them may delete a newer run's promise. It needs a call from the continuation of
  an unrelated promise, queued between two of them (`unrelatedJobs`, which `SharedRuns`
  excludes; `MutexReleased` and `CallersReturn` hold all the same).
* `TestStrategy.init`: the hashes are taken before the files are required. A file that
  is rebuilt in between is migrated in one version and recorded in the other; when it
  is changed back, the migrations are skipped (`EditsWhileStarting`).
* `#noreset` is said not to be for tests that make modifications
  (`TestStrategyClass.ts:23`); `legal.controller.test.ts:73-106` has two that do, and the
  test after each of them finds what it wrote (`"noreset"` in `OnlyBundlesShare`).
* With `#resetafter` "database will only be resetted after all tests" of the suite
  (`TestStrategyClass.ts:26`). The flag of the last test alone decides: when that one is
  tagged `#noreset`, which is looked at first (`:401`), or when the suite has skipped
  tests, which never get a state and count as tests to come (`:408-410`), the next suite
  gets what the bundle wrote (`"kept bundle"` in `OnlyBundlesShare`).
* A device's rows: "PushTokens are PER device" (`pushToken.controller.ts:24`), and the
  model declares a unique index (`models/PushToken.ts:61-65`), which no migration creates
  (`007-create-pushtoken.ts`). Two requests that both find no row both insert one
  (`contended` in `OneRowPerDevice`); and the hook for a replaced token does not look
  whether the new one has a row (`05-push-notifications.ts:32`), which leaves two without
  any two handlers at once (`merged`).
* "Cannot send the same AndroidPushNotification twice!"
  (`AndroidPushNotification.ts:62`): `isSent` is set with the first answer (`:108`), so a
  call before it passes the check at `:61`, and both may be answered with results
  (`overlapped` in `DeliveredAsAnswered`).
* The local `deleteFiles` catches the error of each deletion
  (`LocalFileStorageService.ts:242`), so it is answered with success although a file is
  still there, and the catch with "Rethrow only if we're awaiting operation" (`:253`) is
  never reached for it (`swallowed` in `ReadsAsAnswered`).

With the id at one user and the email address at another, a social login takes either
of them, and saving it violates a unique key: the request fails, `UniqueAccounts`
holds.

## 4. Proofs

All theorems hold for every value of the constants under the named assumptions of
the modules:

| Module | Assumptions |
| --- | --- |
| `TemplatePool` | `PrebufferAssumption` (at least one), `MaxCallsAssumption`, `FlagsAssumption`, `NoneAssumption` |
| `MigrationCache` | `MaxTriesAssumption` (at least one), `EditsAssumption`, `NoneAssumption` |
| `Synchronized` | `CallersAssumption` (finitely many), `MaxRunsAssumption`, `NoneAssumption` |
| `Sessions` | `FirstAssumption` (the row and the names left by an earlier registration), `FlagAssumption`, `NoneAssumption` |
| `LifeCycle`, `TestRun` | `HooksAssumption` (groups of two digits, the storage before what uses it), `MaxTestsAssumption` |
| `UserSettings` | `TodayAssumption`, `NoneAssumption`, `RowsAssumption` (finitely many rows, one for each token), `OwnersAssumption`, `PatchesAssumption` |
| `Deliveries` | `IosAssumption`, `CountsAssumption` (at least one call of `send`), `CallIdsAssumption` (a name for every call of a hook: a notification, the report it is for, and the place of the token) |
| `LogStreams` | `TicksAssumption`, `BoundsAssumption`, `NoneAssumption` |
| `FileStorage`, `FileClients` | `ContentsAssumption`, `MaxCallsAssumption` |
| `ImageUploads` | `PathsAssumption` (an image and a thumbnail path for each upload, named by a fresh uuid) |
| `Queries` | `RowsAssumption` (primary keys and the values of `Key` are numbers), `LimitsAssumption` (defaults and maximum above zero, lists read from their beginning), `NullAssumption`, `MaxChangesAssumption` |

Most of them say that a constant has its type or that a model value is not among
others. TLC evaluates each of them in a run. The type invariants are proved
(`TypeCorrect`, `UploadTypes` and `QueryTypes` state them) and so in no run's
properties. Each inductive invariant was first checked by TLC on the instances of
section 3.

`TemplatePoolProofs`:

* `OnlyUsedEnd`: `Spec => []OnlyUsedDatabasesEnd`.
* `Isolation`: `Spec => []NoDatabaseHandedOutTwice`.
* `Level`: `Spec => []PoolLevel`.
* `Implements`: with one caller, `Spec => ImplementsIsolation`, also when creations
  fail.
* `Survives`, `Live`: with one caller and creations that do not fail,
  `Spec => []ProcessSurvives` and `Spec => []StorageOnLiveSlave`.

The inductive invariant is `IInv`: the type invariant; `SlaveInv`, how the flags of
slaves depend on each other (only used slaves are closed or destroyed, only
initialized ones are used, and the current slave and those with a timer are used);
and `CallerInv`, what a caller holds at each point. Neither the type
invariant nor `OnlyUsedDatabasesEnd` is inductive alone: that `close` meets a used
slave needs to know of the current slave, and that a picked slave is initialized
needs the callers' part. `Isolation` adds `GrantInv`: what was handed out is dirty,
and `flagDirty` refuses what is dirty. `Level` adds `LevelInv`, the same sum in terms
of `count` and the cardinality of `dirty`, because a grant adds one to either side,
and derives `PoolLevel` with the library's theorems on finite sets. `Implements`
adds `SoloInv`: while the only caller waits for a database or holds one that the
storage is not connected to, the storage is disconnected, and what it will attach
belongs to the current slave. `Survives` and `Live` share `LiveInv`: timers are of
closed slaves and the current one has a timer only while the next is waited for
(`TimerInv`), what a caller waits for is still what it was when it began to wait
(`AwaitInv`), and nobody calls while the pool has yet to construct what it owes
(`SupplyInv`). The last of these, with `Level`, gives `NeverDry`: whenever the only
user calls there is a slave for it. None of this is true of two users, and no
theorem says so: the hypothesis `OneCaller` is how the set-up of the tests uses the
strategy.

`MigrationCacheProofs`:

* `Prepares`: `Spec => []NothingMissing`, also when files change at any time.
* `FixturesOnce`: `Spec => []CacheWithoutFixtures`, likewise.
* `Sound`: `~EditsWhileStarting => (Spec => []CacheSound)`.
* `Fresh`: `~EditsWhileStarting => (Spec => []TestsMigrated)`.

`ExistInv` says at every point which databases exist and to which one the storage is
connected, `RestInv` which of them have the table and which have fixtures, and
`ContentInv` what has been migrated: a database that is being filled holds, with
what is pending, the present files (`Half`); a cache that is being built has no
hashes yet; what is recorded or copied is what the hashes say. The
properties are about the end of the path, `ContentInv` about every point on it, and
only that survives a crash in the middle.

`SynchronizedProofs`, for any finite set of callers, any keys and number of runs:

* `Released`: `Spec => []MutexReleased`, whoever calls.
* `Shared`: `Spec => []SharedRuns`, whose claim is about callbacks of node and
  continuations of the callers themselves.

`IInv` relates the queue, the handlers of promises and the places of callers: a
queued job is the only one of its caller, which is where the job finds it (`JobInv`);
who awaits a pending promise is in its handlers once and not queued (`HandlerInv`);
runs are numbered within the bound and a promise is cached for one key (`RunInv`).
`Released` adds `MutexInv`: while a promise is cached, somebody with its key has yet
to clear the cache. `SharedRuns` is about the order of the queue, and so is
`OrderInv`: the callers of a run resume before anybody with their key calls, and who
calls after them calls before the next run has ended (`Ordered`); a settled promise
stays in the cache until its callers resume, and nobody with its key calls meanwhile
(`SettledInv`); who resumes finds the cache empty or with a settled promise
(`ResumeInv`). This is why deleting the key once per caller deletes no newer run, and
what a call from an unrelated continuation breaks.

`SessionsProofs`, for any number of requests, users and providers, and whether or
not queries fail:

* `Unique`: `Spec => []UniqueAccounts`.
* `Final`: `Spec => []LogoutEnds`.
* `Confined`: `Spec => LogoutConfined`, an action property, as are the next two.
* `Delivered`: `Spec => TokensDelivered`.
* `NoneLost`: `Spec => NoLostUpdates`.

`TableInv` says that a user is a member (with a name and credentials) or a guest, that
members stay, and that refresh and reset tokens, insertions that nobody waits for any
more included, are of members only. `Holds` is what a request knows between two
queries: whom it acts for, which of its tokens are inserted, that the tokens of a
logout are of the user it found. A row is named after the request that inserts it;
`Hidden` are those of which nobody can know a token yet, which is why no other request
can take their rows away. `LogoutInv` says that what was logged out had been handed
out and is gone: rows are only inserted by requests that have not answered, except
the insertions left over by `Promise.all`, whose request has failed and handed out
nothing. `HoldsKept` carries `Holds` over each step of another request, and `Respects`
is all it needs to know of such a step. The unique keys of the migrations are guards
of the writing steps, and `UniqueStep` has to show only that no other step changes a
name or an id.

`TestRunProofs`, for any set of hooks and groups of two digits (file names begin with
them, so that the order of the strings is that of the numbers), any number of
signals and suites of any length:

* `Ordered`: `Spec => []InOrder`.
* `Closed`: `Spec => []CleanExit`.
* `Shared`: `Spec => []OnlyBundlesShare`.
* `Current`: `Spec => []ServesCurrent`.

`RunInv` says which runs may be on at a time (no signal has a shutdown before the
server is on, no reset before the hooks are there), `BootInv` that the groups that
were begun are the lower ones and all done but the last, and `KillInv` that what a
shutdown has gone through is destroyed and does not come back. `InOrder` alone is
not inductive: that the next group may start needs to know that the pending hooks of
the former are done and active, and that a group may be destroyed needs to know that
the higher ones were. That each step takes the lowest or the highest group is drawn
from the library's theorem on well-founded relations. `Shared` has an invariant of
its own: a database that is not marked dirty, or has just taken the place of one that
was, holds nothing but what is tagged (`Tagged`), whatever a suite's earlier tests wrote
and its last one was. So has `Current`: `WaitInv`, when the
strategy and the storage hook wait for each other; `BuiltInv`, that before a shutdown
the schema is built on the connected storage once the hooks are initialized; and
`RebuiltInv`, that a reset is on its way to the same.

`DeliveriesProofs`, for any users, tokens, requests, notifications and bounds:

* `PerDevice`: `Spec => []OneRowPerDevice`.
* `Delivered`: `Spec => []DeliveredAsAnswered`.
* `Leave`: `Spec => []ExpiredLeave`.
* `Accepted`: `Spec => LegalDates`, an action property.

`IInv` adds to the types what a request has read (`RequestInv`: the row that it found,
or a patch that the profile it read allows) and `SendInv`, about the calls of `send` for
one notification. Its part `TriesOK` counts the tries that were made and one more for
each call that waits for its own, since all calls share `currentTry`: that bounds them.
`AnswersOK` says what each call's answer means for how often the service took its
message, and that two calls are under way or answered with results only if they
overlapped. `DeliveredAsAnswered` follows from it, and is not inductive without the
calls that are under way. `PerDevice` adds `TokenInv`: of a token whose rows one handler
changes at a time, and that did not replace another while it had a row, there is one
row, and the request that registers it has read that row as it is. `Leave` adds
`ExpiredInv`: a reported token has no row, or its hook has not ended.

`ServerProofs`, about `LogStreams`, for any time windows, bounds and modules:

* `Reported`: `Spec => []EveryErrorOnce`.
* `Mailed`: `Spec => []MailedBeforeExit`.
* `SlackStays`: `Spec => SlackStaysOff`: once an error of its API has turned Slack off,
  it gets nothing any more, the warning about that error included.

`EveryErrorOnce` is inductive with the types. `MailedBeforeExit` speaks of the end
only; `DelayInv` says at every tick how much of the exit's delay has gone and how many
time windows can have used it up, from the errors that came since.

`ServerProofs`, about `Queries`, for any rows, filters, limits and number of changes:

* `PagesRead`: `QuerySpec => []PagesCover`.
* `Total`: `QuerySpec => []TotalIsOfTheList`.

`Total` is about offset lists, with any `before` handler, and about relay lists without
one, whose count does not see it. `PagesCover` speaks of the end of the reading; `SeenInv`
says at every point up to where the client has come. Rows that are alike in the list's
order take their places together, so all is said of their first one (`Before`): unless a
row was deleted, the client has seen, for each row that was in the list throughout and
whose first place is before its offset, one that is alike (`Covers`); and, in a unique order
and unless one was inserted, nothing of the list that comes later (`Once`). An insertion
moves rows back and a deletion moves them forward (`RankGrows`), so the first survives
the one and the second the other. A page holds, of rows that are alike, as many as there
are of their places in it (`Places`); `PageIsDense` says, from the library's theorems on
finite sets, that a page has one of every kind whose first place is in it, and is the last
one when it is shorter than its limit, and has in a unique order only what its places say.
`BoundsInv` gives the limit that the next page was computed with; `CountInv` adds to
`TotalIsOfTheList` the time before the answer, and `SameWhere` shows that the
conditions of nodes and count are the same.

`FileStorageProofs`, for any number of callers, paths and contents:

* `Kept`: `Spec => []ExistingKept`: with either storage, a call that may not overwrite
  writes no file that was there when it was called, unless that was deleted since or
  the check itself failed.
* `Reads`: `Spec => ReadsAsAnswered`, an action property: a read that nobody disturbs
  answers what the last call on the file was answered to have done, unless a local
  `deleteFiles` has swallowed a failed deletion of it.

`IInv` adds to the types what a call knows while it checks (`CallOK`: a file that it
saw is there, or has been deleted since) and what an operation was begun with
(`OperationOK`). That a deletion is the only step that takes a file away carries
both over each step. `Reads` adds `KInv`: the operations of a call that waits are its
own (`WaitInv`), and what is known of a file is so, or is of one that an error was
swallowed for (`KnownInv`). A file whose content is
known is being changed by nobody; a file that one caller is known to change has no
operation but the one its call waits for, which is neither unlinked nor mixed, and it
is gone once a deletion of it has ended well (`Sole`). The last clause is for
`deleteFiles`, which is answered when the last of its files is done and then speaks of
all of them. `ReadInv` carries this over the time between taking a content and
answering with it: a read that expects a fact has seen nobody begin to change its file
since it was called, so what it has taken is what is known.

The same module has the theorems about `ImageUploads`, for any number of uploads:

* `Images`: `UploadSpec => []ImagesAsAnswered`.
* `TemporaryFiles`: `UploadSpec => []TemporaryFilesLeave`.

They rest on `IInv` and `KInv`, which hold of any client. `Effect` says what a step of
the storage does to calls; `AwaitedInv` that every call is awaited, is no `deleteFiles`,
and is about files of its own upload, so that nobody else changes them (`Undisturbed`)
and no error is swallowed. Then `ImageInv` says at each point of the processing and of
the clean-up what is known of the two files and what the call in progress is about, and
`RequestInv` which points uploads can be at when the request has been answered. Neither
is inductive alone: that a stored image stays needs that the uploads that go on after a
failure have other paths, and that a clean-up finds every upload done needs that a
request succeeds last. For the temporary files `TempInv` says that each one is about to
be unlinked, cannot be, or belongs to an upload that still uses it.

## 5. What is only model-checked, and what is not modelled

* Liveness (`CallsEnd`, `SwitchConnects`, `CallersReturn`, `StartEnds`, `ShutdownEnds`,
  `SendsEnd`, `ErrorsHandedOver`) is checked by TLC only: it rests on fairness and
  `ENABLED`, which the proof system does not reason about. The same would hold for
  what a recursive definition computes (induction theorems that take an operator),
  but no module here has one.
* The lifetime of connections during the preparation is not modelled: `sqlAsync`
  leaves its connection open when a query fails, and PostgreSQL then refuses to
  drop or copy the database. Every query may fail at any time in `MigrationCache`
  anyway.
* Requests in progress during a shutdown are not modelled: hapi drains them for up
  to five seconds while the hooks they use are being destroyed, and no document
  promises them more. `ServesCurrent` speaks of the time before.
* File storage: `fileInfo`, `listFiles` and `isAccessible` only read. (The local
  `listFiles` answers absolute paths, which the other methods would join to the
  directory again; no code of the stack passes them on.) Contents are whole values:
  that the local storage decodes what it reads as UTF-8 is not in the model.
* GraphQL: building the schema is done once, synchronously, before the first query:
  the caches of types, `loadRootSchemaByGlob` (whose check of mutations looks at the
  queries' configuration) and the argument types are left out. So is
  `getListConnectionIdentifier`, whose counter for equal names never exceeds 0.
* REST decorators and swagger map controllers to routes before the server starts and
  have no state. The mailer is a step that sends or does not; its templates are
  wording. Model processing and fixture trees are data handling: an import is one
  step.
* `serverdate` caches an offset for ten minutes; what is right there takes a calendar.
* The command line tools, the lint rules, the build scripts and the type packages are
  sequential scripts or declarations.

## 6. Plan

All modules of the plan are there: `IsolatedDatabases` and `TemplatePool`,
`Synchronized`, `Sessions`, `MigrationCache`, `LifeCycle`, `TestRun`, `UserSettings`,
`Deliveries`, `LogStreams`, `FileStorage` with `FileClients` and `ImageUploads`, and
`Queries`. Every safety property of the passing runs is a theorem, and so is the
refinement of `IsolatedDatabases`; liveness stays with TLC. What could be modelled next:

1. The connections of `sqlAsync` in `MigrationCache`: a query that failed leaves its
   connection open, and the next start may find a database that cannot be dropped.
2. Requests that are being served while the hooks are destroyed, in `LifeCycle`.
3. The reset token that stays when its mail was not sent, in `Sessions`.
