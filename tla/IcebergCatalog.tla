--------------------------- MODULE IcebergCatalog ---------------------------
(***************************************************************************)
(* The embedded Iceberg catalog (src/src/iceberg.rs) and the three portal  *)
(* handlers that drive it (commit, cleanup, compaction).                   *)
(*                                                                         *)
(* The catalog is one process: `table' and `manifests' are the two         *)
(* RwLock-protected maps, the VFS of hdfs.rs holds the Parquet data files  *)
(* (`stored'), the manifest lists (`avro') and the v<n>.metadata.json      *)
(* files (`metadata').  Each HTTP request is a task; an action is what a   *)
(* task does between two awaits at which another task can get in.  No lock *)
(* is held from one action to the next, so a task works on its own `clone' *)
(* of the table from the moment it reads it to the moment it publishes it. *)
(***************************************************************************)
EXTENDS Integers, Sequences, FiniteSets

CONSTANTS
    Request,        \* the requests served; one creates at most one snapshot and one data file, named after it
    SeedSnapshot,   \* the snapshot that IcebergCatalog::new installs
    SeedFile,       \* the two data files its manifest names
    NoSnapshot,     \* None
    RetainChoice,   \* values of retain_last_n
    AgeChoice,      \* values of max_age_ms
    Threshold,      \* values of small_file_threshold_bytes
    FileSize,       \* file_size_in_bytes of every file
    MaxInFlight,    \* BOUND: requests served at the same time
    MaxClock        \* BOUND: last value of the clock

SnapshotId == Request \cup {SeedSnapshot}
File       == Request \cup SeedFile
Snapshot   == [id : SnapshotId, parent : SnapshotId \cup {NoSnapshot}, ts : Nat]
Table      == [snapshots : Seq(Snapshot), current : SnapshotId, version : Nat]

ASSUME CatalogAssumption ==
    /\ SeedSnapshot \notin Request
    /\ NoSnapshot \notin SnapshotId
    /\ SeedFile \cap Request = {}
    /\ RetainChoice \subseteq Nat
    /\ AgeChoice \subseteq Int
    /\ Threshold \subseteq Nat
    /\ FileSize \in [File -> Nat]
    /\ MaxInFlight \in Nat
    /\ MaxClock \in Nat

\* IcebergCatalog::new gives the seed's manifest two data files.
ASSUME SeedAssumption == IsFiniteSet(SeedFile) /\ Cardinality(SeedFile) = 2

VARIABLES
    table,      \* the catalog entry of analytics.cluster_events
    manifests,  \* snapshot id -> data files, the in-memory manifest lists
    stored,     \* data files present in the VFS
    avro,       \* snapshot ids whose manifest-list file is in the VFS
    metadata,   \* version -> table, the v<n>.metadata.json files in the VFS
    clock,      \* wall clock
    pc,         \* where each task is
    op,         \* which handler it runs
    clone,      \* its table_clone
    entries,    \* commit: new_files; compaction: retained_files; cleanup: active files
    small,      \* compaction: small_files
    todo,       \* what its current loop has still to visit
    expired,    \* cleanup: manifest lists to remove
    cutoff      \* cleanup: cutoff_time

local == <<pc, op, clone, entries, small, todo, expired, cutoff>>
vfs   == <<stored, avro, metadata>>
vars  == <<table, manifests, vfs, clock, local>>

Finished == {"done", "failed", "abandoned"}
Phase == {"idle", "clone", "manifest", "metadata", "publish",       \* shared
          "expire", "list", "purge",                                \* cleanup
          "scan", "unlink",                                         \* compaction
          "files"} \cup Finished                                    \* get

InFlight == {r \in Request : pc[r] \notin Finished \cup {"idle"}}

-----------------------------------------------------------------------------
(* Operators on tables *)

Ids(t) == {t.snapshots[i].id : i \in 1..Len(t.snapshots)}

NewestId(t) == IF t.snapshots = <<>> THEN NoSnapshot ELSE t.snapshots[Len(t.snapshots)].id

\* Mutated forms of Push, which only test the properties.
PushSameVersion(t, id, ts) ==
    [snapshots |-> Append(t.snapshots, [id |-> id, parent |-> t.current, ts |-> ts]),
     current   |-> id, version |-> t.version]
PushUnderSeed(t, id, ts) ==
    [snapshots |-> Append(t.snapshots, [id |-> id, parent |-> SeedSnapshot, ts |-> ts]),
     current   |-> id, version |-> t.version + 1]
PushFront(t, id, ts) ==
    [snapshots |-> <<[id |-> id, parent |-> t.current, ts |-> ts]>> \o t.snapshots,
     current   |-> id, version |-> t.version + 1]

\* A new snapshot becomes the last of the list and the current one.
Push(t, id, ts) ==
    [snapshots |-> Append(t.snapshots, [id |-> id, parent |-> t.current, ts |-> ts]),
     current   |-> id,
     version   |-> t.version + 1]

KeptAtAnyAge(s, n, cut) == {i \in 1..Len(s) : i > Len(s) - n}     \* mutated form

\* Positions the cleanup keeps: the last n, and those not older than the cutoff.
KeptAt(s, n, cut) == {i \in 1..Len(s) : i > Len(s) - n \/ s[i].ts >= cut}

\* The elements of s at the positions K, in order.
Select(s, K) ==
    [j \in 1..Cardinality(K) |-> s[CHOOSE i \in K : Cardinality({k \in K : k =< i}) = j]]

Prune(t, n, cut) ==
    [snapshots |-> Select(t.snapshots, KeptAt(t.snapshots, n, cut)),
     current   |-> t.current,
     version   |-> t.version + 1]

\* manifests.get(..).cloned().unwrap_or_default()
FilesOf(id) == IF id \in DOMAIN manifests THEN manifests[id] ELSE {}

Put(f, k, v) == [x \in DOMAIN f \cup {k} |-> IF x = k THEN v ELSE f[x]]
WithoutNothing(f, K) == f                                         \* mutated form
Without(f, K) == [x \in DOMAIN f \ K |-> f[x]]

\* The n of v<n>.metadata.json.
MetadataVersionBefore(t) == t.version - 1                          \* mutated form
MetadataVersion(t) == t.version

Goto(r, from, to) == pc[r] = from /\ pc' = [pc EXCEPT ![r] = to]

-----------------------------------------------------------------------------
SeedTable ==
    [snapshots |-> <<[id |-> SeedSnapshot, parent |-> NoSnapshot, ts |-> 0]>>,
     current |-> SeedSnapshot, version |-> 1]

\* IcebergCatalog::new.  The VFS starts with a stub of v1.metadata.json, which is no
\* table and which nothing reads; the seed's data and manifest list are not there.
Init ==
    /\ table = SeedTable
    /\ manifests = [id \in {SeedSnapshot} |-> SeedFile]
    /\ stored = {} /\ avro = {}
    /\ metadata = [v \in {} |-> SeedTable]
    /\ clock = 0
    /\ pc = [r \in Request |-> "idle"]
    /\ op = [r \in Request |-> "none"]
    /\ clone = [r \in Request |-> SeedTable]
    /\ entries = [r \in Request |-> {}]
    /\ small = [r \in Request |-> {}]
    /\ todo = [r \in Request |-> {}]
    /\ expired = [r \in Request |-> {}]
    /\ cutoff = [r \in Request |-> 0]

Accept(r, handler, to) ==
    /\ Cardinality(InFlight) < MaxInFlight
    /\ Goto(r, "idle", to)
    /\ op' = [op EXCEPT ![r] = handler]

\* The table the request names is not in the catalog.
RejectUnknownTable(r) ==
    /\ Goto(r, "clone", "failed")
    /\ UNCHANGED <<table, manifests, vfs, clock, op, clone, entries, small, todo, expired, cutoff>>

-----------------------------------------------------------------------------
(* commit_iceberg_snapshot_handler and commit_snapshot_to_hdfs *)

\* The handler writes the Parquet file before the catalog is looked at.
StartCommit(r) ==
    /\ Accept(r, "commit", "clone")
    /\ stored' = stored \cup {r}
    /\ entries' = [entries EXCEPT ![r] = {r}]
    /\ UNCHANGED <<table, manifests, avro, metadata, clock, clone, small, todo, expired, cutoff>>

CloneForCommit(r) ==
    /\ op[r] = "commit"
    /\ Goto(r, "clone", "manifest")
    /\ clone' = [clone EXCEPT ![r] = Push(table, r, clock)]
    /\ UNCHANGED <<table, manifests, vfs, clock, op, entries, small, todo, expired, cutoff>>

-----------------------------------------------------------------------------
(* iceberg_cleanup_handler and expire_snapshots_and_clean_orphans *)

\* now_ms is read before the catalog locks are taken.
StartCleanup(r) ==
    /\ Accept(r, "cleanup", "clone")
    /\ \E age \in AgeChoice : cutoff' = [cutoff EXCEPT ![r] = clock - age]
    /\ UNCHANGED <<table, manifests, vfs, clock, clone, entries, small, todo, expired>>

NothingToExpire(r) ==
    /\ op[r] = "cleanup"
    /\ \E n \in RetainChoice : Len(table.snapshots) =< n
    /\ Goto(r, "clone", "done")
    /\ UNCHANGED <<table, manifests, vfs, clock, op, clone, entries, small, todo, expired, cutoff>>

CloneForCleanup(r) ==
    /\ op[r] = "cleanup"
    /\ \E n \in RetainChoice :
         LET pruned == Prune(table, n, cutoff[r])
             gone   == Ids(table) \ Ids(pruned)
         IN  /\ Len(table.snapshots) > n
             /\ clone' = [clone EXCEPT ![r] = pruned]
             /\ entries' = [entries EXCEPT ![r] = UNION {FilesOf(id) : id \in Ids(pruned)}]
             /\ expired' = [expired EXCEPT ![r] = gone]
             /\ todo' = [todo EXCEPT ![r] = gone]
    /\ Goto(r, "clone", "expire")
    /\ UNCHANGED <<table, manifests, vfs, clock, op, small, cutoff>>

DeleteManifest(r) ==
    /\ pc[r] = "expire"
    /\ \E id \in todo[r] :
         /\ avro' = avro \ {id}
         /\ todo' = [todo EXCEPT ![r] = @ \ {id}]
    /\ UNCHANGED <<table, manifests, stored, metadata, clock, pc, op, clone, entries, small, expired, cutoff>>

\* Mutated forms of Orphans.
EverythingStored(r) == stored
OrphansOfExpired(r) == (stored \ entries[r]) \cap UNION {FilesOf(id) : id \in expired[r]}

\* list_prefix: the VFS as it is now, the active files as they were at the clone.
Orphans(r) == stored \ entries[r]

ListData(r) ==
    /\ todo[r] = {}
    /\ Goto(r, "expire", "purge")
    /\ todo' = [todo EXCEPT ![r] = Orphans(r)]
    /\ UNCHANGED <<table, manifests, vfs, clock, op, clone, entries, small, expired, cutoff>>

DeleteOrphan(r) ==
    /\ pc[r] = "purge"
    /\ \E f \in todo[r] :
         /\ stored' = stored \ {f}
         /\ todo' = [todo EXCEPT ![r] = @ \ {f}]
    /\ UNCHANGED <<table, manifests, avro, metadata, clock, pc, op, clone, entries, small, expired, cutoff>>

-----------------------------------------------------------------------------
(* iceberg_compaction_handler and compact_table_partitions *)

StartCompaction(r) ==
    /\ Accept(r, "compact", "clone")
    /\ UNCHANGED <<table, manifests, vfs, clock, clone, entries, small, todo, expired, cutoff>>

SmallFiles(bytes) == {f \in FilesOf(table.current) : FileSize[f] < bytes}

\* No snapshot has the current id, or fewer than two files are small enough.
NothingToCompact(r) ==
    /\ op[r] = "compact"
    /\ \/ table.current \notin Ids(table)
       \/ \E bytes \in Threshold : Cardinality(SmallFiles(bytes)) < 2
    /\ Goto(r, "clone", "failed")
    /\ UNCHANGED <<table, manifests, vfs, clock, op, clone, entries, small, todo, expired, cutoff>>

CloneForCompaction(r) ==
    /\ op[r] = "compact"
    /\ table.current \in Ids(table)
    /\ \E bytes \in Threshold :
         LET S == SmallFiles(bytes)
         IN  /\ Cardinality(S) >= 2
             /\ small' = [small EXCEPT ![r] = S]
             /\ todo' = [todo EXCEPT ![r] = S]
             /\ entries' = [entries EXCEPT ![r] = (FilesOf(table.current) \ S) \cup {r}]
    /\ clone' = [clone EXCEPT ![r] = table]
    /\ Goto(r, "clone", "scan")
    /\ UNCHANGED <<table, manifests, vfs, clock, op, expired, cutoff>>

ReadSmallFile(r) ==
    /\ pc[r] = "scan"
    /\ \E f \in todo[r] \cap stored : todo' = [todo EXCEPT ![r] = @ \ {f}]
    /\ UNCHANGED <<table, manifests, vfs, clock, pc, op, clone, entries, small, expired, cutoff>>

\* It is gone, or cannot be decrypted since the keys of its zone were re-encrypted
\* (ZoneCrypto): the request fails with what it has done so far left in place.
SmallFileUnreadable(r) ==
    /\ todo[r] # {}
    /\ Goto(r, "scan", "failed")
    /\ UNCHANGED <<table, manifests, vfs, clock, op, clone, entries, small, todo, expired, cutoff>>

WriteCompacted(r) ==
    /\ todo[r] = {}
    /\ Goto(r, "scan", "unlink")
    /\ stored' = stored \cup {r}
    /\ todo' = [todo EXCEPT ![r] = small[r]]
    /\ UNCHANGED <<table, manifests, avro, metadata, clock, op, clone, entries, small, expired, cutoff>>

\* The inputs go before the snapshot that replaces them is published.
DeleteSmallFile(r) ==
    /\ pc[r] = "unlink"
    /\ \E f \in todo[r] :
         /\ stored' = stored \ {f}
         /\ todo' = [todo EXCEPT ![r] = @ \ {f}]
    /\ UNCHANGED <<table, manifests, avro, metadata, clock, pc, op, clone, entries, small, expired, cutoff>>

\* new_snapshot_id and now_ms are taken after the deletions.
StampCompaction(r) ==
    /\ todo[r] = {}
    /\ Goto(r, "unlink", "manifest")
    /\ clone' = [clone EXCEPT ![r] = Push(@, r, clock)]
    /\ UNCHANGED <<table, manifests, vfs, clock, op, entries, small, todo, expired, cutoff>>

-----------------------------------------------------------------------------
(* The tail the three share: manifest list, metadata file, catalog maps *)

WriteManifest(r) ==
    /\ Goto(r, "manifest", "metadata")
    /\ avro' = avro \cup {r}
    /\ UNCHANGED <<table, manifests, stored, metadata, clock, op, clone, entries, small, todo, expired, cutoff>>

\* write_file ignores its overwrite argument: an existing v<n> is replaced.
WriteMetadata(r) ==
    /\ \/ Goto(r, "metadata", "publish")
       \/ todo[r] = {} /\ Goto(r, "purge", "publish")
    /\ metadata' = Put(metadata, MetadataVersion(clone[r]), clone[r])
    /\ UNCHANGED <<table, manifests, stored, avro, clock, op, clone, entries, small, todo, expired, cutoff>>

PublishWithoutManifest(r) ==                                       \* mutated form
    /\ op[r] \in {"commit", "compact"}
    /\ Goto(r, "publish", "done")
    /\ table' = clone[r]
    /\ UNCHANGED <<manifests, vfs, clock, op, clone, entries, small, todo, expired, cutoff>>

\* Both write locks are held; the clone replaces whatever the table is now.
PublishSnapshot(r) ==
    /\ op[r] \in {"commit", "compact"}
    /\ Goto(r, "publish", "done")
    /\ table' = clone[r]
    /\ manifests' = Put(manifests, r, entries[r])
    /\ UNCHANGED <<vfs, clock, op, clone, entries, small, todo, expired, cutoff>>

PublishCleanup(r) ==
    /\ op[r] = "cleanup"
    /\ Goto(r, "publish", "done")
    /\ table' = clone[r]
    /\ manifests' = Without(manifests, expired[r])
    /\ UNCHANGED <<vfs, clock, op, clone, entries, small, todo, expired, cutoff>>

-----------------------------------------------------------------------------
(* get_table_handler: the table under one lock, then its manifest under another *)

GetTable(r) ==
    /\ Accept(r, "get", "files")
    /\ clone' = [clone EXCEPT ![r] = table]
    /\ UNCHANGED <<table, manifests, vfs, clock, entries, small, todo, expired, cutoff>>

GetCurrentFiles(r) ==                                              \* mutated form
    /\ Goto(r, "files", "done")
    /\ entries' = [entries EXCEPT ![r] = FilesOf(NewestId(table))]
    /\ UNCHANGED <<table, manifests, vfs, clock, op, clone, small, todo, expired, cutoff>>

\* The manifest of the last snapshot listed; of none, no files.
GetManifestFiles(r) ==
    /\ Goto(r, "files", "done")
    /\ entries' = [entries EXCEPT ![r] = FilesOf(NewestId(clone[r]))]
    /\ UNCHANGED <<table, manifests, vfs, clock, op, clone, small, todo, expired, cutoff>>

-----------------------------------------------------------------------------
(* The environment *)

\* The client disconnects: the handler's future is dropped at an await.
Abandon(r) ==
    /\ r \in InFlight
    /\ pc' = [pc EXCEPT ![r] = "abandoned"]
    /\ UNCHANGED <<table, manifests, vfs, clock, op, clone, entries, small, todo, expired, cutoff>>

\* write_parquet_hdfs_handler on the path of a seed file.
WriteParquet(f) ==
    /\ f \notin stored
    /\ stored' = stored \cup {f}
    /\ UNCHANGED <<table, manifests, avro, metadata, clock, local>>

Tick ==
    /\ clock < MaxClock
    /\ clock' = clock + 1
    /\ UNCHANGED <<table, manifests, vfs, local>>

\* What ends in the catalog maps, and everything else.
Publish == \E r \in Request : PublishSnapshot(r) \/ PublishCleanup(r)

Work ==
    \/ \E r \in Request :
         \/ StartCommit(r) \/ StartCleanup(r) \/ StartCompaction(r)
         \/ RejectUnknownTable(r) \/ Abandon(r)
         \/ CloneForCommit(r)
         \/ NothingToExpire(r) \/ CloneForCleanup(r)
         \/ DeleteManifest(r) \/ ListData(r) \/ DeleteOrphan(r)
         \/ NothingToCompact(r) \/ CloneForCompaction(r)
         \/ ReadSmallFile(r) \/ SmallFileUnreadable(r) \/ WriteCompacted(r)
         \/ DeleteSmallFile(r) \/ StampCompaction(r)
         \/ WriteManifest(r) \/ WriteMetadata(r)
         \/ GetTable(r) \/ GetManifestFiles(r)
    \/ \E f \in SeedFile : WriteParquet(f)
    \/ Tick

Next == Publish \/ Work

Spec == Init /\ [][Next]_vars

-----------------------------------------------------------------------------
(* Properties *)

\* Every variable has the type of the Rust value it stands for.
TypeOK ==
    /\ table \in Table
    /\ DOMAIN manifests \subseteq SnapshotId
    /\ manifests \in [DOMAIN manifests -> SUBSET File]
    /\ stored \subseteq File
    /\ avro \subseteq SnapshotId
    /\ DOMAIN metadata \subseteq Nat
    /\ metadata \in [DOMAIN metadata -> Table]
    /\ clock \in Nat
    /\ pc \in [Request -> Phase]
    /\ op \in [Request -> {"none", "commit", "cleanup", "compact", "get"}]
    /\ clone \in [Request -> Table]
    /\ entries \in [Request -> SUBSET File]
    /\ small \in [Request -> SUBSET File]
    /\ todo \in [Request -> SUBSET (File \cup SnapshotId)]
    /\ expired \in [Request -> SUBSET SnapshotId]
    /\ cutoff \in [Request -> Int]

\* Each snapshot's parent is the one listed before it, and the current one is the newest.
Linear(t) ==
    /\ \A i \in 2..Len(t.snapshots) : t.snapshots[i].parent = t.snapshots[i-1].id
    /\ Len(t.snapshots) > 0 => t.current = t.snapshots[Len(t.snapshots)].id

Ordered(t) ==
    \A i, j \in 1..Len(t.snapshots) : i < j => t.snapshots[i].ts =< t.snapshots[j].ts

\* The retained snapshots form one unbroken line of descent that ends in the
\* current one (if any is left), whatever commits, compactions and cleanups overlap.
LinearHistory == Linear(table)

\* The list is ordered by age, which is what makes "all but the last n, if older
\* than the cutoff" drop a prefix and never a snapshot from the middle.
TimeOrdered == Ordered(table)

Published(kind) == {r \in Request : pc[r] = "done" /\ op[r] = kind}
EverExpired == UNION {expired[r] : r \in Request}

\* A listed snapshot has a manifest in memory, unless a finished cleanup has
\* expired it: then a task that read the table before the cleanup has put the
\* snapshot back without its manifest.
MissingManifestWasExpired ==
    Ids(table) \ DOMAIN manifests \subseteq UNION {expired[r] : r \in Published("cleanup")}

\* A reader that takes the table and its manifest under two locks gets the files
\* of the very snapshot it was shown, or none because a cleanup expired it.
ReadSeesItsSnapshot ==
    \A r \in Published("get") :
        LET id == NewestId(clone[r])
        IN  \/ entries[r] = FilesOf(id)
            \/ id \in UNION {expired[q] : q \in Published("cleanup")}

\* However requests overlap, the data of a listed snapshot that no cleanup has expired goes
\* missing in one way only: a cleanup deletes it that had read the table when the snapshot
\* was not in it.  No cleanup takes what it retains, and no compaction takes it either.
OverlapLossExplained ==
    \A id \in Ids(table) \ EverExpired : \A f \in FilesOf(id) \ (stored \cup SeedFile) :
        \E q \in Request : op[q] = "cleanup" /\ f \notin entries[q] /\ id \notin Ids(clone[q])

\* One request at a time: the in-memory manifests are exactly those of the listed
\* snapshots, so none leaks and none dangles.
ManifestsExact == DOMAIN manifests = Ids(table)

\* One request at a time: the metadata file of the catalog's version is the
\* catalog's table, whatever handlers were abandoned before.
MetadataMatchesCatalog ==
    table.version > 1 =>
        table.version \in DOMAIN metadata /\ metadata[table.version] = table

\* One request at a time: once a cleanup has published, every data file that a
\* request wrote belongs to a listed snapshot.
CleanupLeavesNoOrphan ==
    [][\A r \in Request : PublishCleanup(r) =>
          stored \ SeedFile \subseteq UNION {manifests'[id] : id \in DOMAIN manifests'}]_vars

\* One request at a time: a snapshot leaves the list only because a cleanup found
\* it older than its cutoff.
ExpiresOnlyOld ==
    [][\A i \in 1..Len(table.snapshots) :
          LET s == table.snapshots[i]
          IN  s.id \notin Ids(table)' => \E r \in Request : PublishCleanup(r) /\ s.ts < cutoff[r]]_vars

\* What "Direct WebHDFS Atomic Commits" says: a commit that was answered with
\* success stays in the table until a cleanup expires it.
AcknowledgedCommitKept ==
    Published("commit") \subseteq Ids(table) \cup EverExpired

\* What "orphan" says in the cleanup's name and report: the cleanup deletes no
\* data file of a listed snapshot that it does not expire.
DeletesOnlyOrphans ==
    [][\A r \in Request : DeleteOrphan(r) =>
          \A id \in Ids(table) \ EverExpired : FilesOf(id) \cap (stored \ stored') = {}]_vars

\* With one request at a time the catalog implements the atomic table.
Atomic == INSTANCE AtomicTable WITH
    Id <- Request,
    Seed <- SeedSnapshot,
    history <- [i \in 1..Len(table.snapshots) |-> table.snapshots[i].id],
    current <- table.current,
    version <- table.version
ImplementsAtomicTable == Atomic!Spec
=============================================================================
