# datacore in TLA+

Specifications of the concurrent and stateful parts of datacore, model-checked with TLC and, where
marked, proved with TLAPS for every value of the constants. Paths are relative to the repository
root; the sources are in `src/src/`.

datacore is one Rust process. `portal.rs` serves HTTP with axum on a multi-threaded tokio runtime;
every request is a task that runs beside the others, and the future of a handler may be dropped at
any await when its client disconnects. All state is in memory, behind `tokio::sync::RwLock`s or one
`Mutex`. Nothing is persisted, so there is no crash recovery to model: a restart is `Init`. What
makes the system hard is what happens *between two awaits of different tasks*, and what a dropped
handler leaves behind.

A step of a model is therefore what a task does from one await at which it can be overtaken to the
next. Locks are part of the state only where a task keeps one across an await; elsewhere acquiring,
using and releasing a lock is one step.

## Inventory

| Component | State | Operations | What is hard | What makes it correct | Module |
|---|---|---|---|---|---|
| Iceberg catalog (`iceberg.rs`; commit, cleanup, compaction and table handlers in `portal.rs`) | tables, in-memory manifests; manifest lists, `v<n>.metadata.json` and data files in the VFS | commit, expire and clean orphans, compact, get table | each works on a clone of the table and publishes it after several awaits; requests are dropped half way | history, manifests, metadata and data agree; nothing acknowledged is lost; cleanup is precise | `IcebergCatalog`, `AtomicTable`, `CatalogMetrics` |
| WebHDFS virtual file system (`hdfs.rs`) with the Hadoop KMS (`kms.rs`) | file bytes, crypto headers, each behind a lock; key versions | write, read, delete, re-encrypt zone, roll key | bytes and header are stored under two locks; a sweep re-wraps headers while keys roll | a data key is never lost; bytes and header fit | `ZoneCrypto` |
| Vault database credentials (`vault_db.rs`) | leases, database users | issue, revoke, purge every 5 s | two locks in two orders, dropped requests, clock | lease and user come and go together; expired ones go | `VaultDb` |
| Task graph engine (`workflow.rs`) | tasks, dependencies; statuses local to a run | register, run | execution in hash-map order, failing nodes, cycles, missing tasks | order, exact verdict, termination | `DagEngine`, `GraphRun` |
| Kerberos (`kerberos.rs`, `security.rs`) | keytab secret, tickets, principal | start-up kinit, renewal, listing | start-up task races renewals; the expiry gauge is set outside the lock | keytab round trip; the gauge shows the cached ticket | `Keytab`, `TicketCache` |
| Py4J gateway (`py4j_bridge.rs`) | one line-oriented state machine per connection | call, reflection, memory, other | framing, disconnects in the middle of a command | one reply per command, in step; the task ends | `Py4jGateway` |
| Spark applications (`py4j_bridge.rs`) with admission (`policy.rs`) | table of applications; list of policies | bootstrap, complete, list; apply a policy | a session is inserted, charted and announced in three awaits; stored policies are never consulted | chart and annotations are true of the table | `SparkApps` |
| SQL engine (`sql_engine.rs`) | one DataFusion context behind a mutex | query | the mutex is kept from planning to the end of execution; a definition takes effect when it is planned | every query is counted once; nobody keeps the context | `SqlEngine` |
| Login: FreeIPA client (`ldap.rs`) and security kernel (`security.rs`) | configuration, built-in directory | authenticate, search users | groups and password come from two exchanges with a live directory; any failure falls back to the built-in one | whoever is let in had password and group | `Login` |
| Grafana series (`grafana.rs`) | series of at most 720 points, annotations without limit | record, annotate, query | handlers and the sampler record at the same time, at the limit | a series shows its newest points, in order | `GrafanaTsdb` |
| Prometheus metrics (`telemetry.rs`) | gauges and counters | set, increase, decrease, by handlers | adjusted after, and by other amounts than, the state they describe | a gauge equals what it describes | expiry in `TicketCache`, snapshots and files in `CatalogMetrics`, queries in `SqlEngine`, logins in `Login` |
| Portal (`portal.rs`) | | one handler per operation; sampler, purge task | a handler is dropped at any await | what is begun is answered or dropped | `PortalRequests`, `PortalServices`, and each component's module |
| Arrow data (`compute.rs`), `main.rs` | constant data | | | | not modelled |

Interactions: the catalog writes and deletes its files through the VFS, which asks the KMS; the
portal's handlers call one component each and then adjust metrics, series and annotations;
`security.rs` owns the ticket cache and the Vault engine; the portal starts the purge task and the
Py4J listener. `PROJECT.json` lists under `hazards` where these are hard to test, each with the
properties for it.

## Modules

**`IcebergCatalog`** has one table, since the catalog creates only one. `table` and `manifests` are
the two maps; `stored`, `avro` and `metadata` are its files in the VFS. Each request is a process
with a `pc` and the locals that survive an await (`clone`, `entries`, `small`, `todo`, `expired`,
`cutoff`). `StartCommit` to `PublishSnapshot` is `commit_iceberg_snapshot_handler` with
`commit_snapshot_to_hdfs`; `StartCleanup` to `PublishCleanup` is
`expire_snapshots_and_clean_orphans`; `StartCompaction`, `ReadSmallFile`, `SmallFileUnreadable`,
`WriteCompacted`, `DeleteSmallFile` and `PublishSnapshot` are `compact_table_partitions`; `GetTable`
and `GetManifestFiles` are `get_table_handler`; `WriteParquet` is the upload handler. `Abandon` drops
a request. Snapshot ids come from a nanosecond clock and are taken to be unique: a request's snapshot
and file bear its name. The catalog's warehouse lies inside the encryption zone of the VFS, so a
file that was re-encrypted cannot be read back; here that is the choice between `ReadSmallFile` and
`SmallFileUnreadable`, and `ZoneCrypto` shows why.

**`AtomicTable`** is what a table promises its readers: a history in which each change is one step
on the latest state. `IcebergCatalog` implements it when requests come one at a time.

**`CatalogMetrics`** puts the two Prometheus gauges of the catalog beside it. Each handler adjusts them
by what its report says, after the catalog call has returned and before it awaits anything else, hence
in the step that publishes: `AnswerCommit`, `AnswerCleanup`, `AnswerCompaction`. All other steps leave
them alone. `uploaded` is a history variable, the seed files ever written, which tells data that was
lost from data that never was.

**`ZoneCrypto`** keeps bytes (`vfs`) and headers (`xattrs`) in two maps with their locks. A writer
gets a wrapped key (`GenerateEdek`, or `NoZone`), stores bytes (`StoreBytes`, which keeps the VFS
lock) and then the header; a deleter removes them in the same order; a reader takes the bytes, then
the header (`Decrypt`); a sweep picks its target, locks the headers, re-wraps them one at a time and
unlocks. `Roll` may come between any two. AES-CTR is modelled by what it does: the plaintext comes
back under the key and IV that encrypted it, and `Garbage` under any other.

**`VaultDb`** names lease and user after the request that issues them. `CreateUser` and `CreateLease`
are `generate_credentials` from one lock to the next; `RemoveLease`/`DropUser` are `revoke_lease`;
`PurgeTick`, `PurgeLockLeases`, `Purge` are the purge task.

**`DagEngine`** registers tasks with any dependencies and runs. The portal holds one mutex over
registration and run, hence one run at a time. The portal itself only registers single nodes without
dependencies; the engine is specified for any graph, as its interface allows.

**`GraphRun`** is what a run promises, without rounds, batches or statuses: any node whose upstream is
done may be next, one at a time, and the verdict is "ok" when all are done and "deadlock" when none of
the rest can ever be. `DagEngine` implements it: the batch, collected before others of it ran, shows
nowhere.

**`Keytab`** is the codec on sequences of bytes: big-endian integers in two's complement, records
with their two fields for the key version, holes, truncation, and the hexadecimal form of the Vault
secret. `Parse` is the loop of `Keytab::parse`, `Turn` one turn of it. `KeytabKeyEntry` is what fits the
format: names and keys whose length is written `as u16`, numbers of 32 bits, `Unknown` only for a code
that has no name. Recursion is by recursive functions, so that modules with proofs may use it. The runs
read unsigned 32-bit fields below 2^31 only, TLC's integers being 32 bits wide; the proofs read all.

**`TicketCache`** extends it with `kinit_from_keytab` from await to await, called by the task that
`SecurityKernel::new` spawns (`Boot`) and by renewals, and the gauge: `StartMetrics` sets it to an
assumed ticket when the collector is created, `SetGauge` to the ticket just returned. `cachedBy` and
`gaugeBy` are history variables. The kernel's keytab has a single entry; the model takes any list.

**`Py4jGateway`** is a client that sends a command line by line and waits for its reply (external:
it is modelled from what the handler accepts) and `handle_py4j_connection` line by line. A line is
only what the handler tells apart. `Whole` are the commands that the handler reads up to their "e".
Connections share nothing, so there is one.

**`PortalRequests`** is what the handlers of the portal have in common: a request is a task with a place
(`pc`), and `dropped` holds those whose client went away, which stay where they were. Three modules are
built on it, and each has the steps of its own component only.

**`SqlEngine`** is `execute_sql`: the line for tokio's mutex in order of arrival, planning (where a
`CREATE` or `DROP` takes effect at once), execution, and the counters of the handler. Of SQL there is
only what a statement does to the registered table, and that any of them may fail.

**`SparkApps`** is the table of applications, `validate_spark_job` as a predicate on the job that the
bootstrap handler makes up for its client (`Job`), and the list of stored policies, which nothing reads.

**`Login`** is `ldap_login_handler`, `SecurityKernel::authenticate` and `FreeIpaClient::authenticate`:
search and bind as two exchanges with a live directory (external), the fallback to `mock_authenticate`
after any failure of either (`LiveFails` may always happen: no connection is certain), the group check
and the counters. The directory changes between any two steps (`ChangeDirectory`). `shown` is a history
variable: every entry that it has had for the user since the login began.

**`GrafanaTsdb`** is `record` and `add_annotation`; a point is who recorded it and when. Two series
are kept, that of storage being no different, and `log` has every point they were ever given.

**`PortalServices`** composes the four: a query records its latency, a bootstrap its executors and then
an annotation, each after a further await; the background task records a sample of both series in every
period, the first at once; `Drop` drops a handler at any of its awaits, with its place in the line for
the context.

The `MC*` modules and configurations are the instances; a definition marked `mutated form` is not
part of a specification: it is a plausible bug, used to show that a property can fail.

## Runs

| Run | Question | Bounds | Result |
|---|---|---|---|
| `iceberg_serial` | Do table, manifests, metadata, files and gauges agree when requests come one at a time but may be dropped anywhere? What data can be lost? Does it implement `AtomicTable`? | `CatalogMetrics`: 3 requests of any kind, 2 seed files, `retain_last_n` 0..2, ages 0, 1, clock 0..2; about 900,000 states | holds |
| `iceberg_concurrent` | What is left when three requests overlap, and what data can be lost then? | 3 requests in flight, clock 0..1; about 700,000 states | holds |
| `iceberg_lost_commit` | Does an acknowledged commit stay? | 2 requests | **violated** |
| `iceberg_orphan` | Does a cleanup delete orphans only? | 2 requests | **violated** |
| `vault` | Do leases and users stay together, and what can block? | 2 issuers, 1 revoker, the purge; TTLs below zero and above the maximum | holds |
| `vault_deadlock` | Is an expired credential always dropped? | the same, TTL 0 | **violated** |
| `zone` | Is a data key ever lost, can the locks block, when is a read garbled? | 2 writers, a reader, a deleter, a sweep, 2 key versions, a file inside the zone and one outside | holds |
| `zone_sweep` | Is a re-encrypted file still readable? | 1 writer, 1 sweep | **violated** |
| `dag` | Order, at most once, verdict and termination; does it implement `GraphRun`? | all graphs over 3 tasks and a missing one, any order, any failure | holds |
| `tickets` | Does the keytab read back, what can part gauge and ticket, who can shorten a ticket? | start-up kinit and 2 renewals that come again, lifetimes 2 and 3, clock 0..3, 4 keytabs | holds |
| `py4j` | Are replies in step, does every waiting client get one, does every task end? | 3 commands out of 6, closing anywhere | holds |
| `services` | What do counters, chart, annotations and application table say of each other, who is let in, does anybody wait for ever? | 2 requests of any kind beside the sampler, 4 or 33 executors, series of 2 points, one user with 3 passwords, one change of the directory; about 600,000 states | holds |

Why these are enough: the catalog's faults need two overlapping requests, and the third makes room
for one that restores what the second removed; with three snapshots and `retain_last_n` below three,
every prefix is expired. Two issuers, a revoker and the purge make every pair of lock orders meet. A
file, two writers and a sweep give every pairing of bytes and header, two key versions every
relation of a header to the target. Three tasks and a missing one give every self-loop, cycle,
diamond edge and dangling dependency. Two renewals and the start-up kinit give every overtaking; the
keytabs have 0, 255, 256 and 65537 as key version, an empty component, an unknown negative
encryption type and two entries in a row, so that a misread length shows. Six commands include ones
that the handler takes for several, one with a name that begins like a command and a line that is
not UTF-8. In `services` two queries contend for the context, one of them may wait, hold it or be
dropped; 33 executors are one too many for admission; two points are exceeded by three recorders;
the directory can change between search and bind both the password and the group, to values that the
built-in directory has and has not.

Deadlock is checked in `dag`. Elsewhere the requests of an instance are used up and the clock stops
at its bound, so that the system may really stop. Symmetry is used over interchangeable requests,
in runs without liveness.

**Fairness.** `VaultDb`: the runtime polls every task that can go on, and tokio's locks are handed
over in order of arrival, so a task that waits is served even if the lock is taken and released
meanwhile: strong fairness on acquisitions, weak on the timer. Clients owe nothing: no fairness on
issuing, revoking or disconnecting. `DagEngine`: weak fairness on the steps of `run`, on the
assumption that `execute()` of a node returns. `Py4jGateway`: weak fairness on the handler only; in
particular a broken connection is possible and never certain, so that the end of a handler does not
depend on it. `PortalServices`: weak fairness on each step that a query or a session still owes
(`Owed`), since the runtime polls every task that can go on and the mutex is handed over in order; that
DataFusion comes to an end is an assumption. None on clients, and none on logins: the exchanges with the
live directory have no time limit, so a login need not end.

## Findings

1. *Commits are not atomic* (`iceberg_lost_commit`). Of two overlapping commits, both acknowledged,
   the one that publishes last replaces the table by its older clone plus its own snapshot; both
   write the same metadata file.
2. *Cleanup deletes live data* (`iceberg_orphan`). It lists the files now and compares them with the
   manifests it cloned earlier. `OverlapLossExplained` shows that this is the only way in which overlapping
   requests lose what they have written for a snapshot that is listed and not expired: the cleanup had
   read the table when the snapshot was not in it.
3. *Issuing and purging deadlock* (`vault_deadlock`). They take the two locks in opposite orders.
   `OnlyThisCycleBlocks` shows that this is the only way to block, and `ExpiredPurgedUnlessCycle`
   that nothing else keeps an expired credential alive.
4. *Re-encryption makes files unreadable* (`zone_sweep`). It puts a fresh IV into the header, while
   the bytes were encrypted with the old one. No overlap is needed.

Known and allowed by the properties that hold: the start-up kinit may replace a longer renewed
ticket by its own, and then the gauge stays wrong (`GaugeExplained`, `ShortenedOnlyByStale`); an
issuer or revoker that is dropped half way leaves a database user that nothing removes
(`LeaselessUserExplained`); a Py4J memory or constructor command gets a reply per line. The snapshot
gauge is short by one for each compaction ever answered, and the file gauge counts files that a
cleanup has deleted (`GaugesExplained`); a compaction deletes data of older, still listed snapshots,
and one that is dropped half way also data of the current one (`LostDataExplained`); a dropped
session stays RUNNING without chart or annotation (`AppsExplained`); a dropped statement may have
changed the context uncounted (`QueriesExplained`); a login may combine the groups of one directory
entry with the password of the next, and a user who was removed from the live directory, or whose
password was changed there, can still log in with the built-in entry (`GrantExplained`).

## Proofs

TLAPS proves, in the `*_proofs` modules, every safety property that a passing run checks, for any number
of requests, files, tasks, clock values, keytabs and the like:

- `IcebergCatalog_proofs`, for any overlap of requests: `TypeOK`, `LinearHistory`, `TimeOrdered`,
  `MissingManifestWasExpired`, `ReadSeesItsSnapshot`, `OverlapLossExplained`. A table with one unbroken, ordered history keeps it
  under a push (`PushGood`) and under a selection that drops a prefix (`PruneGood`, from `SelectSuffix`:
  in an ordered list, "not among the last n and older than the cutoff" is a prefix). The inductive
  invariant `HistoryInv` says this of the published table *and of every clone in flight*, together with
  the clock being at least as late as every snapshot, since an old clone may be published at any time.
  `ManifestInv` relates the manifests to all that was ever published, by whoever, and to what cleanups
  have expired; with it a reader that takes table and manifest under two locks gets what it was shown.
  `LossInv` follows the data: each manifest names the seed's two files or the one of its own request
  (`ManifestsAlone`), so that a compaction only ever takes the seed's (`CompactsSeed`); the files of what
  a cleanup retains are active for it (`Spares`); so a written file that is gone was deleted by a cleanup
  that did not retain its snapshot (`Kept`), and that stays so whoever moves (`MovesKeep`). Both this and
  the gauges need `SeedAssumption`: the catalog starts with two data files.
- `CatalogMetrics_proofs`, for one request at a time (`MaxInFlight = 1`) that may be dropped at any
  await: `ManifestsExact`, `MetadataMatchesCatalog`, `ExpiresOnlyOld`, `CleanupLeavesNoOrphan`, the
  refinement of `AtomicTable`, `LostDataExplained`, `GaugesExplained`. One request at a time is needed:
  overlaps as in `iceberg_lost_commit` and `iceberg_orphan` break what they rest on. `SerialInv` says how far the
  one request in flight has come and what it has left in manifests and files by then (`TurnOf`: nobody
  else is in flight when it moves); `DataInv` follows each data file from the request that wrote it to
  the compaction that took it for input; `GaugeInv` counts snapshots and files, where `Distinct` (no
  snapshot is listed twice) makes lengths and cardinalities the same.
- `VaultDb_proofs`: `TypeOK`, `LeaseHasUser`, `LeaselessUserExplained`, `OnlyThisCycleBlocks`,
  `PurgesOnlyExpired`. The invariant ties each lock to the `pc` of its holder (`LocksInv`), leases and
  users to the progress of the tasks between their two locks, and the purge's reading to the clock.
- `ZoneCrypto_proofs`: `TypeOK`, `KeysRecoverable`, `LocksNeverBlock`, `SweepReachesTarget`,
  `DekMatchesBytes`, `GarbageReadExplained`. The invariant `Inv` says that every header, stored or still
  in a writer's hands, names the version that wrapped its key, and which call holds which lock. On it
  stand three more: `TargetInv` (what a sweep has visited is no older than its target, which is no newer
  than the newest version), `DekInv` (behind the VFS lock the bytes are the holder's; where nobody
  stands or was dropped between bytes and header, their keys agree) and `ReadInv` (while all that
  touches a file is one write, stores and readers have that write's bytes and header, `StoredAt`,
  `ReaderAt`). What disturbs a file does so for good (`QuietBefore`), so the last needs no history. It
  assumes finitely many writers, as the property counts them.
- `DagEngine_proofs`: `TypeOK`, `UpstreamFirst`, `VerdictExact`, `OneAtATime`, `ExecutesOnce`, and the
  refinement of `GraphRun`. `ExecutesOnce` says that a node begins only out of "Pending", to which it
  does not return before the run ends; the run itself does not look again at the status of what it has
  collected, so this rests on the batch staying pending. The invariant adds that no member of an unrunnable set has begun, which is
  what makes the verdict exact for every graph. In the refinement a node of the batch is runnable
  because a batch stays ready while it is worked off, and the engine's verdicts are those of the graph
  because between two nodes what is pending is all that is not done (`SamePending`).
- `TicketCache_proofs`: `KeytabReadsBack`, `TypeOK`, `GaugeExplained`, `ShortenedOnlyByStale`. The first
  is about data of any size. `Holds(raw, p, b)` says that the bytes `b` are in the buffer at position `p`;
  what is written as a concatenation holds each of its parts (`HoldsParts`), and each reader gives back
  what it finds held (`ReadU16`, `ReadPrefixed`, ...). `RecordLayout` puts these together for one record, and
  `ReadRecord` says that `ReadEntry` returns the entry and stops where the record ends. The loop then has
  read `n` records after `n` turns (`TurnReads`) and stands still after the last, and a keytab has at
  least as many bytes as records (`ParseSerialize`). The induction this takes is over sets of numbers
  (`SetInduction`, from the well-foundedness of `<` on `Nat`), because the library's rule takes an
  operator as its parameter; a recursive function is first shown to be the one its equations
  determine (`TurnsAre`). The cache is then a matter of order: one ticket is cached at a time and is
  that of the call that last inserted, while that call is under way.
- `Py4jGateway_proofs`: `TypeOK`, `InStep`, for any number of commands. `StepInv` says of the line under way where in the client's command the handler is, and what is still to come.
- `PortalServices_proofs`: `TypeOK`, `QueriesExplained`, `AppsExplained`, `GrantExplained`,
  `SeriesRecent`. The components share only the place of a request, so the invariant has one part for
  each, and a `...Kept` lemma says which steps leave that part alone.

The assumptions are the named `ASSUME`s of the specifications: disjoint kinds of requests, types of
the bounds, finitely many requests where they are counted, `SeedAssumption`,
`BootLifetime < RenewLifetime`, and `KeytabAssumption`: the entries of a keytab fit the format, and so
does the size of each record, which is written `as i32`. TLC evaluates them on each instance.

Only model-checked: liveness under fairness (`ExpiredPurgedUnlessCycle`, `RunReturns`, `Answered`,
`HandlerEnds`, `RequestEnds`), which is out of the provers' reach with `ENABLED`. Type invariants are
proved of every module with proofs; the runs check those that say more than types.

## Not modelled

- The gauge of storage bytes and the counters of rows, I/O operations and purged files, which add up
  what one report says; the values of points; wording of replies and reports.
- File owners, listings, Parquet, Avro and JSON contents; `WebHdfsClient`'s URLs, which are not used.
- `-size` of the smallest 32-bit integer in the keytab parser, and keytabs of other writers: the
  program parses only what it serialized. Holes are in `Parse`, but no run contains one.
- Principals whose components contain "@" or "/", at which `Keytab::serialize` splits: a keytab entry
  of the model has its components apart.
- Directory filters with metacharacters: `(uid={username})` (`ldap.rs:107`) is an exact lookup in `Login`.
- A Py4J client that closes in the middle of a line: it closes between lines, also within a command.
- `max_age_seconds * 1000` and the like on the values of a request, which wrap or panic before any
  state is touched; a unit test reaches them.
- The meaning of SQL, LDAP and HTTP, which are external libraries; the handlers and methods that only
  read (listings, queries of series, `search_users`, `fetch_vault_secret`); `validate_iceberg_schema`,
  which is constant; the Arrow sample data; the accept loops and `main`.
- A wall clock that is set back: every module takes it to be monotone.

## Plan

1. Warehouse: the catalog over `ZoneCrypto`'s store, so that `SmallFileUnreadable` follows from
   re-encryption instead of being a choice.
2. An abstract credential store, in which lease and user come and go in one step, implemented by
   `VaultDb` while no request is dropped.
3. The gauge of storage bytes, which uploads and cleanups adjust and compactions do not.
4. Proofs: an abstract file store in which a read returns what one write stored, implemented by
   `ZoneCrypto` while nothing else touches the file.
