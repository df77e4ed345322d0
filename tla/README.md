# A verification of rn-ota-server-rust

TLA+ models of the update server, model-checked with TLC on small instances, and
theorems about them checked by TLAPS for every value of the constants. The server
is a Rust rewrite of the hot-updater backend: it keeps the catalog of over-the-air
bundles of several applications in MySQL, keeps the files in S3, lets operators
edit the catalog with an authenticated CLI API, and answers the update checks of
the devices.

Paths below are those of the repository, rooted at `src/`; `api.rs` and `check.rs`
are in `src/src/routes/`.

- [1. The system](#1-the-system)
- [2. The modules](#2-the-modules)
- [3. The runs](#3-the-runs)
- [4. Fairness](#4-fairness)
- [5. The proofs](#5-the-proofs)
- [6. Where the code and its documents disagree](#6-where-the-code-and-its-documents-disagree)
- [7. What is not modelled](#7-what-is-not-modelled)
- [8. The plan](#8-the-plan)

## 1. The system

One process, one tokio task per request, no state between requests but MySQL, S3
and a few process-wide cells. Nothing in memory is shared by two requests except
the connection pool, the S3 client cache, the rate limiter and the counters.

| component | state | operations | what makes it correct |
|---|---|---|---|
| bundle write API (`api.rs`, `create_bundles`, `update_bundle`, `delete_bundle`) | the tables `bundles` and `bundle_patches`, one transaction per POST and PATCH | POST a batch, PATCH one bundle, DELETE one | a batch is there whole or not at all; patch lists are replaced whole; patches refer to bundles that exist; an application's token reaches only its rows; what validation refuses is never committed; an answer is true of what happened |
| bundle read API (`list_bundles`, `get_bundle`, `list_channels`) | none | list by page or cursor, get, channels | an answer is exact when nothing moves; a cursor walk ends, repeats nothing and meets every row that stays; a bundle is shown with its own patches |
| request parameters and validation (`api.rs`) | none | `authorize`, parsing and validation of payloads and queries | what is refused is refused before anything is written |
| update check (`check.rs`) | none; two counters | app-version and fingerprint strategy, with and without a cohort | what a device is told to run it can download and assemble; the counters say what happened |
| update decision (`decide_update`) | none | a pure function of candidates and the device's bundle | devices settle, never oscillate, never fall below their native build |
| cohorts (`src/src/cohort.rs`) | none | shuffle of the 1000 cohorts, eligibility | a rollout of n reaches exactly n of 1000, and widening it excludes nobody |
| version matching (`src/src/semver.rs`) | none | `coerce_version`, `satisfies` | agrees with npm's semver |
| artifact paths (`check.rs`) | none | joining and encoding of storage URIs | an asset's URI names the object that was uploaded |
| S3 client (`src/src/storage.rs`) | client cache, timeout and presign cells | presign, read | bounded waits; one set of limits for the process; no other application's bucket or endpoint |
| schema (`src/migrations`, `src/src/db.rs`) | the schema version | five migrations at startup, each DDL statement committed by itself | usable rows survive; nothing is served without keys and constraints; a failed migration can be repaired |
| startup, configuration, shutdown (`src/src/main.rs`, `src/src/config.rs`) | environment | start, stop | configuration is read once, before the first request; a graceful stop ends |
| routing and rate limit (`src/src/routes/mod.rs`) | the limiter's table of clients | route, throttle | only update checks are throttled |
| metrics, tracing, CORS (`src/src/observability.rs`) | counters, known applications | count, expose | labels stay bounded |

**How they interact.** The operators' CLI calls the write API; it writes
transactions to MySQL. A device calls the update check, which reads the candidates
of its application from MySQL, filters them (version or fingerprint, cohort),
decides, presigns the bundle, reads two manifests from S3, reads the device's
bundle and the target's patches from MySQL, presigns what changed and answers. Each
of these is an await at which any other request may run, and each may fail.

**What is hard.** The write handlers interleave between any two statements, under
REPEATABLE READ, where a plain SELECT reads a snapshot and every other statement
reads current rows; they wait for each other's locks; they may be killed, or lose
the connection just after COMMIT. PATCH reads its row outside the transaction that
writes it. The update check reads a row and its patches at different moments and
handles some failures by denying the update and others by degrading it. Devices act
late on answers computed from a catalog that has changed since. The reading handlers
run up to four statements outside any transaction. A store may accept a connection and
say nothing. A migration may stop between two statements while the release before it
goes on writing. `PROJECT.json` lists 40 such hazards, each at its line, with the
property that is about it, what that property leaves out, or the reason why none is.

## 2. The modules

| module | models | kind |
|---|---|---|
| `BundleSchema` | the two tables as they end up: keys, rows, cascade, referential integrity; the check of a token | constants and operators |
| `BundleData` | payloads and the pure helpers of the write API, the schema's CHECK | constants and operators |
| `BundleCatalog` | what the write API promises: every request one atomic step | abstract specification |
| `CliApi` | the three writing handlers, statement by statement, over InnoDB | detailed specification |
| `CliApiProofs` | invariance, referential integrity, tenant isolation, the refinement, PATCHes left alone | theorems |
| `ReadApi` | the three reading handlers, statement by statement, and a client that pages | specification |
| `ReadApiProofs` | what a page, a walk and a quiet answer show | theorems |
| `Decision` | `decide_update` | operators |
| `Fleet` | devices that poll `Decision` while operators edit | specification |
| `FleetProofs` | what a decision names and what it is when asked again; no flapping, the native floor | theorems |
| `Cohort` | the shuffle and eligibility, and a bundle led through a rollout | operators, specification |
| `CohortProofs` | the loops of the shuffle, the exact share, the monotone rollout | theorems |
| `Semver` | `coerce_version`, `satisfies`, and npm's definition beside them | operators, specification |
| `SemverProofs` | each comparator, clause and range agrees with npm's | theorems |
| `UpdateCheck` | one update check, await by await, over a changing catalog | specification |
| `UpdateCheckProofs` | its invariant, and the properties of what is served and counted | theorems |
| `Storage` | the S3 client, its cells and timers, startup and graceful shutdown | specification |
| `StorageProofs` | its limits, the bucket its answers are about, the time a read takes | theorems |
| `Migrations` | the migrations, statement by statement, as the server runs them | specification |
| `MigrationsProofs` | what each prefix of the migrations has established | theorems |
| `MC*` | constants of the runs | model checking |

`BundleSchema` is extended by `BundleData` and `ReadApi`; `BundleData` by
`BundleCatalog` and `CliApi`; `CliApi` instantiates `BundleCatalog`. `Decision` is
extended by `Fleet` and `UpdateCheck`. What one module takes as given another one
establishes: `ReadApi` and `UpdateCheck` see the writers as the atomic commits
that `CliApi` is shown to implement; `Fleet` takes which devices a bundle is listed for
and open to, which `Semver` and `Cohort` compute; `UpdateCheck` lets a read end in any
way, which `Storage` shows it does; all of them take the schema that `Migrations`
arrives at.

### CliApi

State, and the code it stands for:

| variable | code |
|---|---|
| `bundles`, `patches` | the committed rows; the patches of each bundle |
| `pc` | the statement the handler will execute next |
| `req`, `item`, `next` | the request, the loop over the batch, the loop over its patches |
| `set` | the `BundleUpdate` with metadata merged (`api.rs` 2067) |
| `rows`, `cleared`, `lists` | the transaction's uncommitted writes, which are also its locks |
| `snapshot` | InnoDB's read view, fixed by the first plain SELECT of the transaction |
| `answer` | the response |

The actions are the statements: `Receive` (authorization and validation, no await
between them), `Fetch` (PATCH's read through the pool), `WriteRow` (the upsert or
the UPDATE), `ClearPatches`, `CheckBase` (`app_owns_bundle`), `InsertPatch`,
`Commit`, `DeleteBundle`; and what may go wrong: `StatementFails`, `WaitAborted`
(deadlock victim, lock wait timeout), `Unacknowledged` (the connection breaks after
the database has committed), `Crash`. A handler that returns early drops its sqlx
transaction, which is a rollback: `Finish`.

Of eighteen columns four are kept, one for each rule the handlers treat
differently: `target` and `fingerprint` (nullable, checked together), `metadata` (any JSON
value but null, merged), `file` (everything that is replaced). Of a metadata value the
model keeps whether it is an object and its top-level keys; a string that holds an object
has keys as well, since `parse_bundle_metadata` reads that layer, and an array, a number or
any other string has none. `MergeMetadata` has both arms of the merge: an object adds its
keys to the stored ones, everything else is stored as it came. InnoDB itself is
external: locks are on the rows written, the patch lists rewritten and the parents
of inserted patches, held to the end of the transaction. Gap locks that block more
than this are not modelled; they only remove interleavings, and `WaitAborted`
covers what they cost. A `Crash` finds each transaction committed or not: a COMMIT or
DELETE that a killed process had sent and the database executes later is not modelled. The
same effect on the tables, without an answer that says so, is `Unacknowledged`. What axum's
JSON extractor refuses before a handler runs changes no state and is left out.

### ReadApi

| variable | code |
|---|---|
| `bundles`, `patches` | the tables, as committed |
| `pc`, `req` | the statement the handler executes next, the query it serves |
| `total`, `page`, `start` | the locals `total`, `bundles`, `start_index` of `list_bundles` |
| `answer` | the response: data, cursors, pagination |
| `walk` | which cursor the client follows |
| `seen`, `stayed`, `late`, `touched` | observed, for the properties |

`Receive` and `Follow` start a request (authorization and the refusal of parameters, no
await between them); `ReadTotal`, `ReadPage`, `ReadStart`, `ReadPatches` are the four
statements of `list_bundles`, `ReadRow` and `ReadPatches` the two of `get_bundle`,
`ReadChannels` the one of `list_channels`; `Fail` is a statement's error. `Commit` is one
commit of the write API: a row with its patch list, or a deletion with its cascades. A
commit of a batch is several of them, which only gives the readers more to see. Ids are
naturals in the order of their column. Arithmetic on pages and offsets saturates at
`I64Max`, as in the code; the instance makes that 3, so that a page number beyond it
and a product that leaves it are ordinary requests. Platform, the booleans and the list
lengths are one `malformed` outcome.

### Semver

A version in a range is a sequence of segments, each a number, a wildcard or neither, and
what follows them; a comparator is an operator with such a version and whether a blank
stands between them; a clause is a sequence of comparators or a hyphen range; a range is a
sequence of clauses. Two readers are given that text, and they share nothing but it. The
code's is `parse_partial_version`, `ClauseParses`, `BoundsOf` and `parse_range_clause`,
with u64 addition that wraps. Npm's is `NpmReads`, the versions of node-semver's grammar,
`NpmVersion`, the parts a version names, and `NpmMatches`, in terms of versions that agree
in those parts and of the versions before and after all that agree; it never adds one to
anything. `PlainRange` says which texts both are known to read alike.

### Storage

| variable | code |
|---|---|
| `process` | a library user; or the server, starting, serving, draining, stopped |
| `TIMEOUTS`, `PRESIGN`, `CLIENTS` | the statics of `storage.rs` |
| `check` | what each update check is doing: the attempt, the timers, the answer |
| `asked` | observed: the environment the server was started with |

`StartServer` and `ConfigureLibrary` are `Config::from_env` in `main` and in a program
that uses the crate, which may read before it, call it twice, and go on after its error.
`Begin` and `ReadNext` are the two manifest reads of a check. `Connect`, `Headers`,
`Body`, `NoSuchKey`, `Refused`, `AttemptFails` are what the store may do, and `Expire` is
a timer: the attempt's (with its connect and read limits), the operation's, and the
body's. `Tick` is time; it does not pass a limit that is due. Retries, backoff and the
attempt timers are the SDK's and external. A URI is the bucket it names.

### Migrations

`schema` is the set of objects that exist; each migration is a sequence of statements,
each with what it drops (and needs), adds (and must not find), and asks of the rows.
`Execute` runs one: a failure ends the process, as `init_db_with_options` returns the
error and `main` exits. sqlx's bookkeeping is external: the first DDL statement of a
migration commits the record of the attempt as unfinished, `Finish` makes it done, and
`Start` is refused while one is unfinished. sqlx holds a lock while it migrates, so one
migrating process is enough. `RemoveOrphans` and `ClearFailed` are the repair
in the header of `20260722010000`. An instance of an earlier release may attach patches
(until `app_name` is NOT NULL) and delete bundles all along. A database to start from is
`Consistent`: migrations are recorded in order, one that is done has left what it adds,
and the constraints that exist hold of the rows, as MySQL and sqlx keep them. The same
operator is the core of the proof's invariant.

### BundleCatalog

A request accepted is later answered; in the step that answers it, it takes effect
as a whole (answer below 400, or 500) or not at all (4xx, or 500). The mapping is
the identity on `bundles`, `patches`, `req` and `answer`: all other variables of
`CliApi` are hidden. PATCH promises of `metadata` only that the keys of an object it
sends are there afterwards, because that is all the code keeps when two PATCHes meet
(section 6); any other value it sends is the row's (`MetadataPromised`).

### Decision and Fleet

Ids are byte-ordered strings, so they are numbers; nil is 0. Candidates and
eligibility are sets, since every scan of the code takes the greatest. `Fleet` has
the catalog as the sets of devices each bundle is listed for and open to; `Edit`
changes both of one bundle in any way, as POST, PATCH and DELETE may. `Check`
computes an answer, `Apply` acts on it later, `Lose` drops it. `timely` and `fresh`
are history variables that say whether an edit has come in between. The device is
external; a reset makes it run its native build, which reports its build id or,
in development, nil.

### Cohort

`%` keeps its sign, as in Rust; `gcd`, the extended Euclid loop and the search for a
coprime multiplier are recursive functions of the variables of their loops. A cohort is a
number, written plainly or not, or a name; `normalize` makes plain only the numbers from 1
to 1000, as the code does. The two hashes of a bundle's id are any
i32; their text is abstracted. Products stay below 2^31 in the i32 the code uses, so they need no
width.

### UpdateCheck

One check, since checks share nothing but tables which they only read; `Publish`
and `Delete` change the tables between any two awaits. S3 objects are
taken not to change (upstream's CLI writes them, before it publishes the row), so a
row stands for its manifest. Each await may
succeed, fail or find nothing, and the outcome is that of the code's match arm:
`Fail` (500), `Degrade` (a smaller answer), `Quiet`. `published` records which keys
were published to since the check began, for the properties that must exempt them:
the code promises nothing for a row that is replaced under its id while a check
runs, and upstream's CLI makes a new id for every deploy. For the same reason the device is
taken to hold the assets of its row as it stands when the check begins. So `PatchFits` and
`UpdateIsUsable` are about the scope of the queries and the failures between the awaits;
that a bundle published again with other assets is a wrong base (`check.rs` 628), or gets
the patches of its new upload (731), is left out. A patch with an empty hash or uri is not
`usable` and is passed over, as in `check.rs` 417.

## 3. The runs

| run | instance | what it shows |
|---|---|---|
| `CliApi_batches` | 2 applications with the same 2 ids, 2 handlers, 10 requests | `IInv`, `PatchEndpointsExist`, `ForeignKeyErrorsAreRaces`, `TenantIsolation`; refinement `ImplementsCatalog`; liveness `EveryRequestAnswered` |
| `CliApi_serial` | 1 handler, 22 payloads that validation and the merge tell apart; 1 174 states | `CommittedRowsPersistable`, `MetadataIsMerged` for one request at a time |
| `CliApi_clearedapart` | 2 handlers, 3 payloads | `CommittedRowsPersistable` fails: section 6 |
| `ReadApi_walk` | 2 applications, 3 ids, limits up to 3, 17 queries, writers without bound | `TypeOK`, `QuietAnswerIsExact`, `WalkMeetsStayingRows`, `ShownTogether`, `RowsAreListedOnce`; liveness `EveryWalkEnds` |
| `Fleet_polls` | 1 device of native build 2, bundles 1..4; 19 864 states | `FleetInv`, `NoFlapping`, `NeverBelowFloor`, `Converges` |
| `Cohort_rollout` | every residue of the multiplier's hash, negative and extreme ones; 9 pairs of hashes led through counts 0, 1, 2, 500, 999, 1000, 1001 and 3 target lists | `PositionsInvertShuffle`, `ExactShare`, `RolloutOnlyGrows` |
| `Semver_ranges` | parts 0..2, 35 texts, every partial version under the seven operators, pairs, alternatives, hyphen ranges, all of them plain | `AgreesWithNpm` |
| `Semver_blanks` | a blank after the operator | `AgreesWithNpm` fails: section 6 |
| `UpdateCheck_served` | 2 applications with 2 bundles of the same ids, 2 assets, 2 contents, one base that is no URI | `CheckInv`, `CountedIfServed`, `UpdateIsUsable`, `PatchFits`, `ErrorsExplainAnswer` |
| `Storage_reads` | 3 applications over 2 endpoints, 2 checks in flight, 2 attempts, limits of 1 and 2 ticks; 360 296 states | `OneSetOfLimits`, `AnswersAreOfOwnBucket`, `ReadsKeepTheirBudget`; liveness `ShutdownCompletes` |
| `Migrations_upgrade` | databases that have run 0 to 4 of the migrations, a damaged one and one with an invalid row, 2 crashes, 3 requests to an earlier release; 73 892 states | `ServedCatalogIsScoped`, `UsablePatchesSurvive`; liveness `RepairCompletes` |
| `Migrations_crossapp` | a patch with a base of another application | `CheckedDatabaseStarts` fails: section 6 |

### What the properties say

- **ImplementsCatalog.** No interleaving, failure or crash leaves half a batch, an
  old patch next to a new list, a success without an effect or a refusal with one.
- **PatchEndpointsExist.** Every committed patch has both its bundles, in its own
  application, although a base may be deleted while the patch is inserted.
- **ForeignKeyErrorsAreRaces.** The check before each INSERT leaves the foreign keys
  nothing to refuse except a row that was deleted by somebody else in the meantime.
- **TenantIsolation.** A row changes only in the commit or delete of a request that
  carries its application's token.
- **MetadataIsMerged.** A PATCH that sends an object as metadata leaves the keys that were
  stored until it commits and those it sent, and no others.
- **EveryRequestAnswered.** Crossed batches wait for each other; every request ends.
- **NoFlapping.** On an unchanged catalog, what a device was updated to it keeps,
  what it was rolled back from it is not updated to again, and a device that was
  reset is left alone.
- **Converges.** Once the operators stop, every device ends up on the greatest
  bundle open to it; if there is none, on a bundle no newer than its build.
- **NeverBelowFloor.** No answer moves a device below its native build, even late.
- **PositionsInvertShuffle, ExactShare, RolloutOnlyGrows.** The shuffle is a
  permutation, so the share is exact; raising the count shuts nobody out.
- **QuietAnswerIsExact.** If nothing of the application changed between a list
  request and its answer, its four statements agree: the page is the one asked for,
  counts are right, and there is a cursor on exactly the sides where rows remain.
- **WalkMeetsStayingRows.** Following `nextCursor` to its end shows every row that passed
  the filters all the way, unless a row came to pass them between the counts of one
  request (section 6); following `previousCursor` does without exception.
- **RowsAreListedOnce, EveryWalkEnds.** No walk is shown a bundle twice, and every walk
  ends, although bundles come and go all the time.
- **ShownTogether.** A bundle that is not republished meanwhile is shown with its own
  patches, never with those another application has for the same id.
- **AgreesWithNpm.** A bundle is for a device exactly when npm, reading the same text by its
  own grammar, says so.
- **OneSetOfLimits.** The limits inside cached clients, in the cell and in the server's
  environment are the same, whoever was first.
- **AnswersAreOfOwnBucket.** Applications that share a client still read their own bucket
  at their own endpoint; "not there" is said of that one too.
- **ReadsKeepTheirBudget, ShutdownCompletes.** A read takes at most two operation limits,
  whatever the store does; therefore a graceful shutdown ends.
- **ServedCatalogIsScoped.** A server that serves has both composite keys and the CHECK,
  and every patch has both its bundles in its own application.
- **UsablePatchesSurvive.** No statement of a migration takes a patch that could be used.
- **RepairCompletes.** Wherever `20260722010000` stopped, and whatever orphans were written
  since, the documented repair gets it done.
- **UpdateIsUsable.** A device told to run a bundle gets its url, and a diff that
  has, for every asset, a url, a patch, or content the device holds.
- **PatchFits.** The patch starts from what the device runs and makes what it is sent.
- **CountedIfServed, ErrorsExplainAnswer.** An update is counted exactly when it is
  served. Once a bundle is chosen, `failed` is counted exactly if the device is
  denied it, and an answer without any error counted lacks nothing.

### Why the bounds are enough

Two handlers exhibit every pairwise race. Locks are between pairs, and the third
handler of a lock cycle is covered by the theorems, which hold for any number. Two
bundles give a patch and its base in both orders, and a bundle patched from itself.
The requests of `OneTenant` were chosen so that every branch is taken: a base named
twice, a base that comes too late in its own batch, a PATCH of columns, of the patch
list, of both. Two applications with the same ids are the least that a missing predicate
can confuse. Readers change nothing, so one is enough in `ReadApi`; three rows and pages
of one to three give a first, a middle and a last page, one that is full and one that
is not. In `Semver` a part is compared with another or with zero, so three values show
every order; 3 is npm's greatest safe integer and 4 is u64::MAX, and TLC checks that every range
of `Semver_ranges` is a `PlainRange` (`TargetsArePlain`). In `Storage`
two checks share or do not share a client, a second attempt is the one that retries may
add, and a limit of two ticks can be half spent. In `Migrations` the second crash falls into the run after
the repair, and three requests of the earlier release attach a patch, delete its base
and do so once more after the orphan was removed. In `Fleet` devices share only the catalog, each property is about one
device, and four bundles around the floor give below, equal and two above. In
`Cohort` the multiplier depends on its hash mod 997 only, and all are taken. No run needs a
state constraint; `Migrations` counts crashes and foreign writes (`MaxCrashes`,
`MaxWrites`), and the clock of `Storage` saturates past the budget.

## 4. Fairness

- `CliApi`: `WF(Statement(w))` for each handler. Tokio runs a task that is ready,
  and InnoDB ends every lock wait, by the lock's release, by choosing a deadlock
  victim, or by `innodb_lock_wait_timeout`; then the handler's statement has an
  error and it answers 500 (`WaitAborted` is part of `Statement`). Nothing is
  assumed of the clients, of failures or of crashes.
- `Fleet`: `WF(Check(d))`, a device keeps polling, and `SF(Apply(d))`, not every
  answer is lost. Both are the device's part of the protocol, and the conclusion is
  stated for a catalog that stands still. Under weak fairness alone every answer
  might be lost, and no server could make a device converge.
- `ReadApi`: `WF(Read)`, a statement that can run does, and `WF(Follow)`, a client that
  has a cursor goes on. Writers and failures are owed nothing.
- `Storage`: time passes (`Tick`), due timers fire (`Expire`), a handler that has an
  answer goes on, and hyper's drain ends when no request is left (`Stop`). The store owes
  nothing: it may stay silent for ever.
- `Migrations`: the supervisor restarts the server, a migration goes on, and the operator
  follows the repair procedure while it applies. Crashes are bounded, and no fairness is
  given to the earlier release.
- `UpdateCheck`, `Cohort` and `Semver` state safety only.

`CliApi`, `ReadApi`, `Fleet`, `UpdateCheck`, `Cohort` and `Semver` never deadlock: there is
always a request to receive, a check to make or an edit. A stopped server, and one that
serves a migrated database, are where `Storage` and `Migrations` end.

## 5. The proofs

A theorem holds for every value of the constants that satisfies the assumptions of its
module, which TLC evaluates on every run:

- `ConstantsAssumption`, `HandlerAssumption`, `SentinelAssumption`: the sentinels are not
  values, and a metadata value is neither null nor absent.
- `RequestAssumption`: requests are typed; POST sends whole rows, as serde fills them.
- `LastIdAssumption`, `FleetAssumption`, `UpdateCheckAssumption`, `DeviceAssumption`: ids
  are positive and bounded (by the greatest string of 36 characters), builds natural, rows
  and devices typed.
- `ReadAssumption`: ids are finitely many, queries and edits typed, the limits positive.
  `CountAssumption`: a table has no more ids than i64 can count.
- `StorageAssumption`: limits are naturals, the defaults are valid, `Unset` is neither a
  limit nor a client.
- `MigrationsAssumption`, `DatabaseAssumption`: the databases upgraded from are
  `Consistent`.
- `SemverAssumption`, `TargetAssumption`, `AppVersionAssumption`: what the parsers tell apart
  is different, npm counts less far than u64, a hyphen range has two ends without
  operators, and an app version is a sequence of such parts.
- `CohortAssumption`: hashes and counts are numbers, and no target is the absent cohort.

An invariant that serves a proof only, and that no run lists, is in the proof module.

**CliApi.** The inductive invariant is

    IInv == TypeOK /\ ControlInv /\ LockInv /\ PatchEndpointsExist

`PatchEndpointsExist` alone is not inductive: COMMIT merges an overlay written
statements ago, so the proof must know that the two bundles of each patch in the
overlay still exist when it is merged. That is `LockInv`: rows and lists have one
writer at a time, and the parents of every inserted patch exist and are written by
nobody else until the transaction ends. It in turn needs `ControlInv`: a handler has
no overlay outside a transaction, writes only keys of its own application, and has
cleared the list it inserts into. Each conjunct is proved by one step per action;
the actions that only end a transaction share a lemma about `Finish`.

- `TypeCorrect`, `Invariance`: `Spec => []IInv`.
- `EndpointsExist`: `Spec => []PatchEndpointsExist`.
- `Isolation`: `Spec => TenantIsolation`, since only `Commit`, `DeleteBundle` and
  `Unacknowledged` touch the tables, and by `ControlInv` only within `req[w].app`.

What remains of `CliApi` needs to know what an open transaction has written, which is
`OverlayInv`: of a batch, the row of the last item with each id among those worked through
(`BatchRows`); of a PATCH, its row overwritten by `set`, once written (`PatchedRow`); the
lists of the items whose DELETE was executed, and of the list being inserted, the part
before `next` (`ListsSoFar`); and at an INSERT, that `app_owns_bundle` saw the base, in the
snapshot or among the transaction's own rows (`BaseSeen`).

- `OverlayInvariance`: `Spec => []OverlayInv`.
- `ForeignKeyErrors`: `Spec => []ForeignKeyErrorsAreRaces`. The list so far is a prefix of a
  list without repetitions, so the primary key has no objection; the bundle is written
  and locked, or it is that of a PATCH that sends a list alone. What is left is a row that
  the request has seen and that is gone.
- `Refinement`: `Spec => ImplementsCatalog`, by step simulation. `Commit` and
  `Unacknowledged` of a batch map to the catalog's step, because `OverlayInv` at the end of the
  payload is what the catalog computes from the whole payload: the last row for each id, and
  its list without repeated bases. `Receive` maps to the catalog's acceptance or refusal,
  `Finish` without a COMMIT to declining, a crash to forgetting, every other statement to a
  stutter.
- `UndisturbedRowsPersistable`: `Spec /\ []PatchesUndisturbed => []CommittedRowsPersistable`,
  and `UndisturbedMerge`: `Spec /\ []PatchesUndisturbed => MetadataIsMerged`.
  `PatchesUndisturbed` says that while a PATCH is open no other open request names its
  bundle. With one handler it always holds, so these two contain what `CliApi_serial` checks;
  with many it is what the CLI's users owe the server, and `CliApi_clearedapart` is
  what happens when they do not. What validation found out must survive until COMMIT
  (`ValidOf`): of a batch it speaks of the payload alone, of a PATCH it is about a row that
  somebody else could change.

**ReadApi.** Nothing is locked, so each invariant says what is still true of a row read some
statements ago although writers commit in between.

- `TypeCorrect`: `Spec => []TypeOK`, with `Served` (which statement belongs to which
  request). That offsets and page numbers stay in the range of i64 is a lemma about the
  saturating operators.
- `RowsAndPatchesAgree`: `Spec => []ShownTogether`. A row that nobody touched is, until
  its patches are read, the row that was read (`PageIsCurrent`).
- `NoRowTwice`: `Spec => RowsAreListedOnce`. What a walk has shown lies behind the cursor
  of the request in progress, what it has read ahead of it (`Onward`).
- `NoStayingRowMissed`: `Spec => []WalkMeetsStayingRows`. `Covered` follows a row that
  stays: it is ahead of the cursor, then on the page or beyond it, and if beyond, it is
  counted. A walk goes on unless the first and the last place of its page say that
  there is nothing more; unless `late`, the first count bounds what the later statements see,
  so a row beyond the page makes the index fall short of the total. This is counting: the
  lemmas relate the `LIMIT n` rows of an order to the cardinality of those in front of them.
- `AnswersAreExact`: `Spec => []QuietAnswerIsExact`. While nobody touches the application,
  each statement sees what the one before it saw (`Quiet`), and the arithmetic of the
  pagination is the specification's, where a product saturates as well.

**Migrations.** The invariant is

    MigrationsInv == TypeOK /\ Whole /\ Progress /\ Handed

`Whole` is `Consistent` of the present database. It is preserved by a statement only if one
knows how far the migration has come, as the composite keys are dropped and added
by different statements: `Progress` says so for the third migration and, by prefix, for the
fifth (`Scoping`). `Handed` is why serving means that all are done.

- `MigrationsInvariance`: `Spec => []MigrationsInv`, from any consistent database.
- `ServedIsScoped`: `Spec => []ServedCatalogIsScoped`.
- `PatchesSurvive`: `Spec => UsablePatchesSurvive`. The one DELETE takes patches without an
  owner; `Scoping` at that statement says their bundle is gone, or they were attached since
  the backfill.

**Semver.** `Parity`: `Spec => [](PlainTarget => AgreesWithNpm)`, where `PlainTarget` says
that the bundle's range, if it has one, is a `PlainRange`:

- parts below `SafeMax`, MAX_SAFE_INTEGER, the limit `semver.rs` documents as npm's;
- after a wildcard only wildcards, and one in front only when it is the whole version, has
  no `>` or `<` and is not the end of a hyphen range;
- a prerelease only after three segments, and one npm accepts;
- no blank after an operator, no operator by itself, no `~>`.

Section 6 says what goes wrong with the others. Within these any number of alternatives,
terms, segments and wildcards is allowed, and so is text that is no version. The lemmas go
up the grammar. A plain version is read by one side exactly if by the other, and then they
name the same parts (`SameVersion`, `SameGrammar`); a bare wildcard names none, and then
every operator but `>` and `<` holds of any version (`WildNamesNothing`, `BareIsBoundless`).
For the rest the bounds of each operator enclose just the versions npm means: at or above
the lowest that agrees, below the successor of the last part that counts (for `^`, the
first that is not zero). `TermsAgree`, `ClausesAgree` and `RangesAgree` put them together.

**Cohort.** Each of the three loops is a recursive function, and nothing is known of such a
function until it is shown to have a solution. `LoopFunction` shows it once, for any set of states,
next state and a natural variant that decreases, as the least relation closed under the
loop's equation; `LoopInduction` is induction along the loop. Both are about sets, not
operators, so they can be applied. Then: `gcd` satisfies its equation (`GcdIs`); the search
for a multiplier ends, at 999 at the latest, and finds one whose `gcd` with 1000 is 1
(`CoprimeIs`); each round of Euclid's loop keeps m * t congruent to r and m * new_t to new_r modulo
1000 and keeps their gcd, so what is left at its end is an inverse (`EuclidInverts`), and
the error that the caller replaces by 1 does not happen. Position and place are therefore
inverse to each other (`PositionOfCohort`, `CohortAtPosition`), and those below n are as many
as n (`ReachedCount`).

- `PositionsUndoShuffle`: `Spec => []PositionsInvertShuffle`.
- `ShareIsExact`: `Spec => []ExactShare`.
- `NobodyIsShutOut`: `Spec => RolloutOnlyGrows`. Positions are the id's; the count is clamped
  monotonely.

All three hold for any two integers as hashes, so for every id, whatever `hash_string` makes
of it.

**Fleet.** `FleetInv == TypeOK /\ Timely /\ AboveFloor /\ NoFlapping`. `NoFlapping`
speaks of the answer the device would get now; to keep it when an answer is applied
one must know that this answer is the decision on the present catalog (`Timely`) and
then that deciding again, from the bundle it names, gives no update, respectively
nothing at all. Those are lemmas about `decide_update` alone. `AboveFloor` holds
because candidates are no older than the build. The lemmas rest on a greatest
element existing in a nonempty set of ids; this is why ids are bounded by `LastId`,
the greatest string of 36 characters.

- `FleetInvariance`: `Spec => []FleetInv`.
- `NoDeviceFlaps`: `Spec => []NoFlapping`.
- `NoDeviceBelowFloor`: `Spec => NeverBelowFloor`.

**UpdateCheck.** `CheckInv` is `TypeOK` and six parts, one for each thing that has to
be remembered from one await to the next: `StageInv` (what is known at each await),
`CountInv` (the counters so far), `BaseInv` (the base of the diff is what the device
holds), `PatchInv` (the patch is one of the target's, from the device's bundle),
`DiffInv` (no changed asset is forgotten), `QuietInv` (nothing is left out without
being counted). None of the properties is inductive, since each speaks of the end of a
check only. There is one lemma per action; the ways a check ends or goes on that
several actions share (`Fail`, a bare answer, `Continue`) are lemmas of their own, as
is what a commit of the CLI API leaves alone.

- `CheckInvariance`: `Spec => []CheckInv`.
- `ServedIsUsable`, `ServedPatchFits`, `ServedIsCounted`, `ErrorsAreExplained`:
  `Spec => []P` for `UpdateIsUsable`, `PatchFits`, `CountedIfServed` and
  `ErrorsExplainAnswer`, each because `CheckInv => P`.

**Storage.** The inductive invariant is

    StorageInv == TypeInv /\ CellInv /\ \A r \in Request : Good(check[r])

`CellInv` says that nobody changes what a cell holds and that clients exist only when
`TIMEOUTS` is filled, with the limits in it; a process that is starting has touched
nothing, which is why its environment decides. `Good` is about one read: it uses the cached
client of its application (`UsesClient`), it has been told of its own bucket
(`TellsOfOwn`), and its time so far is made of complete reads and the present one, whose
two clocks are each within the one limit (`KeepsBudget`). The budget alone is not
inductive: time may pass only while no limit is due, so the clock that is compared with
the client's limits and the one compared with the cell's must be known to be compared with
the same. The steps of the reads share lemmas for a send that goes on and a read that is
answered.

- `StorageInvariance`: `Spec => []StorageInv`.
- `LimitsAreOne`, `OwnAnswers`, `BudgetKept`: `Spec => []P` for `OneSetOfLimits`,
  `AnswersAreOfOwnBucket` and `ReadsKeepTheirBudget`.

**Only model-checked.** `EveryRequestAnswered`, `Converges`, `EveryWalkEnds`,
`RepairCompletes` and `ShutdownCompletes`: liveness under fairness, and ENABLED, are out of
the prover's reach. Every invariant and action property of the runs is the subject of
a theorem, three of them under a hypothesis: `CommittedRowsPersistable` and
`MetadataIsMerged` under `PatchesUndisturbed`, `AgreesWithNpm` for plain ranges. None of
the three holds without.

## 6. Where the code and its documents disagree

Three are runs that TLC must find violated.

1. `CliApi_clearedapart`: `update_bundle` validates the merge with a row it read
   outside the transaction (`api.rs` 2046). Of two concurrent PATCHes one blanks the
   version, the other nulls the fingerprint; each is valid by itself and the
   committed row has neither. The CHECK constraint lets a blank string pass.
   `CliApi_serial` shows that this takes two requests at once.
2. `Semver_blanks`: a blank after an operator. `>= 1.0.0` is split at the blank into `>=`,
   which bounds nothing, and `1.0.0`, which is that version only (`semver.rs` 302), where
   `semver.rs` 308 claims parity with npm.
3. `Migrations_crossapp`: releases before 1.1.0 accepted a patch whose base is
   another application's (`CHANGELOG.md` 159). `20260811000000` gives it its bundle's
   application, and its last ADD CONSTRAINT refuses the row, after nine statements are
   committed; its plain DROP FOREIGN KEY keeps it from being run again. `README.md` 379
   lists two things to check before an upgrade, and neither finds this row.

The others follow from reading the same lines, and have no run of their own.

- `create_bundles` answers a patch with an unknown base with 400 and plain text
  (`api.rs` 1685); `api.rs` 274 says every error is a JSON object, and `update_bundle`
  sends one in the same case. `CliApi` keeps the form of each error in `answer`.
- The metadata merge uses the same stale row as (1) (`api.rs` 2067) and writes its whole
  result, so one of two keys added at once is lost, where `api.rs` 2060 says the value is
  merged "against the stored value, never replaced". `MetadataIsMerged` is violated with the
  constants of `CliApi_serial`, two handlers and `Request <- MetadataAdded`.
- One PATCH with `"metadata": []`, a number or a string replaces the stored object and
  removes all its keys, because the merge ends with `_ => patch.clone()` (`api.rs` 1900) and
  metadata is any JSON value; the column is then shown as no metadata at all (`api.rs` 183).
  `api.rs` 1860 and `docs/upstream-parity.md` 326 say that a key can never be removed. Such a
  PATCH is among those of `CliApi_serial`, and `MetadataIsMerged` is violated there by
  one request when its condition `Sent(w).object` is left out.
- `x.x`, `>=*.*.*`, `* - 1` and `1.0.0 - *` do not parse (`semver.rs` 131) and match nothing;
  npm reads the wildcard as any version. `AgreesWithNpm` is violated with the constants of
  `Semver_blanks` and `Target <- Wildcards`.
- A failing candidates query answers 500 and is counted nowhere (`check.rs` 1172, 1309);
  `README.md` 147 says every path is. A bundle whose asset base is no URI is served
  without its artifacts, with nothing counted (`check.rs` 764); `check.rs` 516 says every
  path that degrades is. `ErrorsExplainAnswer` names both exceptions.
- `README.md` 190 and `config.rs` 238 call the operation timeout a limit on the whole
  operation with its body; the code has one for the headers and a second for the body, so
  a read takes up to twice that (`ReadsKeepTheirBudget`).
- `Config::from_env` installs the storage limits before it has validated the presign
  lifetime (`config.rs` 144, 145). The server exits then; a library user whose call
  failed keeps those limits for the life of its process.
- `list_bundles` compares a page with a total counted one or two statements before. A row
  that comes to match in between makes the index of the page's last row reach the total,
  and `nextCursor` is left out although rows remain; hence `late` in
  `WalkMeetsStayingRows`.
- Other ranges that `semver.rs` reads differently from npm. `>*` and `<*` match everything
  (npm: nothing). `~>1.2` does not parse (npm: `~1.2`). What follows a wildcard is not looked
  at, so `1.x.foo` matches (npm: invalid), and neither is what follows a hyphen, so
  `1.2-beta`, `1.2.3-` and `1.2.3-01` do (npm: invalid). A part above MAX_SAFE_INTEGER is a
  number (npm: invalid), and the successor of u64::MAX wraps. `PlainRange` has none of these,
  and neither has `1.x.3`, which releases of npm read differently, nor a lone operator.
- In `20260811000000` a patch that an earlier release attaches between the backfill and
  the DELETE is deleted although it is usable (`fresh` in `UsablePatchesSurvive`); and a
  patch whose base alone is gone survives the DELETE and stops the last statement like (3).

## 7. What is not modelled

- **Text**: `hash_string`, artifact paths (`join_storage_uri`, `encode_uri_component`),
  platforms, booleans, string lists, id syntax and column widths. They are pure; their
  results enter as inputs (`Cohort`, `UpdateCheck`, `malformed`). Of ranges, the `v` and `V`
  prefixes, `==`, blanks inside a version and build metadata after a partial one are not
  represented in `Semver`.
- **Values inside metadata**: keys are the top-level ones. That nested objects recurse and
  arrays merge by index is a pure function the tests replay from upstream.
- **Region and path style of an S3 client**: two more parts of `ClientKey` (`storage.rs` 113),
  folded into the endpoint.
- **Startup**: pool, limiter and observability settings are read into values that no
  property here is about; a configuration error exits before anything is served.
- **Routing and rate limiting**: the limiter is a library's, the routes are the actions.
- **Metrics, tracing, CORS**: only the two counters of the update check.
- **The connection pool**: a wait that ends in an error is `StatementFails`, or `Fail`.
- **SQL modes and character sets**: `20260722010000` under a relaxed `sql_mode`, and ids
  that are not ASCII.
- **Patch ids**: `{bundle}:{base}`; the primary key is modelled as uniqueness of the
  base within a bundle's list.
- **The stalled-stream protection of the SDK**: a throughput floor; without it the model
  allows more, and the body's timeout bounds both.

## 8. The plan

Everything the first plan named is modelled: the write, read and check handlers, the
decision, cohorts, version ranges, storage and migrations; and every safety property is
proved. What is worth doing next:

1. A refinement for the reading side: `get_bundle` implements, for bundles left
   alone, a catalog that is read at one moment. `ShownTogether` is its core.
2. A limit per read as the abstract specification of `Storage`, with `KeepsBudget` as the
   mapping.
3. The variants behind the liveness properties, as action properties: each statement of a
   request brings it nearer to its answer, each page brings a walk nearer to its end.
   They are safety, and with fairness they are all there is to `EveryRequestAnswered` and
   `EveryWalkEnds`.
4. `UpdateCheck`: devices that still hold an earlier upload of their bundle, to state what a
   republish under the same id costs them.
