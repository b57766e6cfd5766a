----------------------- MODULE CatalogMetrics_proofs -----------------------
(***************************************************************************)
(* Proofs about the catalog when it serves one request at a time: that it  *)
(* implements the atomic table, what cleanups remove, and how manifests,   *)
(* metadata files, data files and gauges relate to the table.  Requests    *)
(* may still be dropped at any await and leave what they did so far.       *)
(***************************************************************************)
EXTENDS CatalogMetrics, IcebergCatalog_proofs

Serial == MaxInFlight = 1

-----------------------------------------------------------------------------
(* Whose turn it is *)

Alone == \A q, r \in InFlight : q = r

Acts(r) ==
    \/ StartCommit(r) \/ StartCleanup(r) \/ StartCompaction(r)
    \/ RejectUnknownTable(r) \/ Abandon(r)
    \/ CloneForCommit(r)
    \/ NothingToExpire(r) \/ CloneForCleanup(r)
    \/ DeleteManifest(r) \/ ListData(r) \/ DeleteOrphan(r)
    \/ NothingToCompact(r) \/ CloneForCompaction(r)
    \/ ReadSmallFile(r) \/ SmallFileUnreadable(r) \/ WriteCompacted(r)
    \/ DeleteSmallFile(r) \/ StampCompaction(r)
    \/ WriteManifest(r) \/ WriteMetadata(r)
    \/ GetTable(r) \/ GetManifestFiles(r)
    \/ PublishSnapshot(r) \/ PublishCleanup(r)

Aside(q) ==
    /\ pc'[q] = pc[q] /\ op'[q] = op[q] /\ clone'[q] = clone[q] /\ entries'[q] = entries[q]
    /\ small'[q] = small[q] /\ todo'[q] = todo[q] /\ expired'[q] = expired[q] /\ cutoff'[q] = cutoff[q]

\* A step of a request leaves the others where they are.
LEMMA OthersAside ==
    ASSUME HistoryInv, RestTyped, NEW r \in Request, Acts(r)
    PROVE  \A q \in Request \ {r} : Aside(q)
<1> USE DEF HistoryInv, Typed, RestTyped, Aside
<1>1. CASE \/ StartCommit(r) \/ StartCleanup(r) \/ StartCompaction(r) \/ GetTable(r)
           \/ RejectUnknownTable(r) \/ Abandon(r) \/ CloneForCommit(r) \/ NothingToExpire(r)
  BY <1>1 DEF StartCommit, StartCleanup, StartCompaction, GetTable, RejectUnknownTable, Abandon,
              CloneForCommit, NothingToExpire, Accept, Goto
<1>2. CASE \/ CloneForCleanup(r) \/ DeleteManifest(r) \/ ListData(r) \/ DeleteOrphan(r)
           \/ NothingToCompact(r) \/ CloneForCompaction(r) \/ ReadSmallFile(r) \/ SmallFileUnreadable(r)
  BY <1>2 DEF CloneForCleanup, DeleteManifest, ListData, DeleteOrphan, NothingToCompact,
              CloneForCompaction, ReadSmallFile, SmallFileUnreadable, Goto
<1>3. CASE \/ WriteCompacted(r) \/ DeleteSmallFile(r) \/ StampCompaction(r) \/ WriteManifest(r)
           \/ WriteMetadata(r) \/ GetManifestFiles(r) \/ PublishSnapshot(r) \/ PublishCleanup(r)
  BY <1>3 DEF WriteCompacted, DeleteSmallFile, StampCompaction, WriteManifest, WriteMetadata,
              GetManifestFiles, PublishSnapshot, PublishCleanup, Goto
<1> QED
  BY <1>1, <1>2, <1>3 DEF Acts

\* Nobody else is in flight when a request makes a step.
LEMMA TurnOf ==
    ASSUME Serial, HistoryInv, RestTyped, Alone, NEW r \in Request, Acts(r)
    PROVE  /\ InFlight \subseteq {r} /\ InFlight' \subseteq {r}
           /\ pc[r] \notin Finished
<1> USE CatalogAssumption DEF HistoryInv, Typed
<1>1. CASE StartCommit(r) \/ StartCleanup(r) \/ StartCompaction(r) \/ GetTable(r)
  <2>1. pc[r] = "idle" /\ Cardinality(InFlight) < 1
    BY <1>1 DEF StartCommit, StartCleanup, StartCompaction, GetTable, Accept, Goto, Serial
  <2>2. InFlight = {}
    <3> SUFFICES ASSUME NEW q \in InFlight PROVE FALSE
      OBVIOUS
    <3>1. InFlight = {q}
      BY DEF Alone
    <3> HIDE DEF InFlight
    <3>2. Cardinality(InFlight) = 1
      BY <3>1, FS_Singleton
    <3> QED
      BY <2>1, <3>2
  <2> QED
    BY <1>1, <2>1, <2>2, OthersAside DEF InFlight, Finished, Acts, Aside
<1>2. CASE \/ RejectUnknownTable(r) \/ Abandon(r) \/ CloneForCommit(r) \/ NothingToExpire(r)
           \/ CloneForCleanup(r) \/ DeleteManifest(r) \/ ListData(r) \/ DeleteOrphan(r)
           \/ NothingToCompact(r) \/ CloneForCompaction(r) \/ ReadSmallFile(r) \/ SmallFileUnreadable(r)
           \/ WriteCompacted(r) \/ DeleteSmallFile(r) \/ StampCompaction(r) \/ WriteManifest(r)
           \/ WriteMetadata(r) \/ GetManifestFiles(r) \/ PublishSnapshot(r) \/ PublishCleanup(r)
  <2>1. r \in InFlight
    BY <1>2 DEF RejectUnknownTable, Abandon, CloneForCommit, NothingToExpire, CloneForCleanup,
       DeleteManifest, ListData, DeleteOrphan, NothingToCompact, CloneForCompaction, ReadSmallFile,
       SmallFileUnreadable, WriteCompacted, DeleteSmallFile, StampCompaction, WriteManifest,
       WriteMetadata, GetManifestFiles, PublishSnapshot, PublishCleanup, Goto, InFlight, Finished
  <2>2. InFlight \subseteq {r}
    BY <2>1 DEF Alone
  <2> QED
    BY <2>1, <2>2, OthersAside DEF InFlight, Aside
<1> QED
  BY <1>1, <1>2 DEF Acts

-----------------------------------------------------------------------------
(* What the request whose turn it is has prepared *)

\* Its clone is the table as it still is, with its own snapshot added ...
Adds(r) ==
    /\ op[r] \in {"commit", "compact"}
    /\ \E now \in Nat : clone[r] = Push(table, r, now)

\* ... or with its expired snapshots cut off.
Cuts(r) ==
    /\ op[r] = "cleanup"
    /\ \E n \in RetainChoice : clone[r] = Prune(table, n, cutoff[r])
    /\ expired[r] = Ids(table) \ Ids(clone[r])
    /\ entries[r] = UNION {FilesOf(id) : id \in Ids(clone[r])}

Written(t) == t.version \in DOMAIN metadata /\ metadata[t.version] = t

Progress(r) ==
    /\ pc[r] \in {"scan", "unlink"} => clone[r] = table
    /\ pc[r] \in {"manifest", "metadata"} => Adds(r)
    /\ pc[r] \in {"expire", "purge"} => Cuts(r)
    /\ pc[r] = "publish" => Written(clone[r]) /\ (Adds(r) \/ Cuts(r))
    /\ pc[r] = "purge" => stored \ SeedFile \subseteq entries[r] \cup todo[r]
    /\ pc[r] = "publish" /\ op[r] = "cleanup" => stored \ SeedFile \subseteq entries[r]

SerialInv ==
    /\ Alone
    /\ ManifestsExact
    /\ MetadataMatchesCatalog
    /\ \A r \in InFlight : Progress(r)

LEMMA SerialInit == Init => SerialInv
<1> SUFFICES ASSUME Init PROVE SerialInv
  OBVIOUS
<1>1. InFlight = {}
  BY DEF Init, InFlight
<1>2. Ids(SeedTable) = {SeedSnapshot} /\ SeedTable.version = 1
  <2>1. /\ Len(SeedTable.snapshots) = 1
        /\ SeedTable.snapshots[1].id = SeedSnapshot
        /\ SeedTable.version = 1
    BY DEF SeedTable
  <2> QED
    BY <2>1 DEF Ids
<1> QED
  BY <1>1, <1>2 DEF Init, SerialInv, Alone, ManifestsExact, MetadataMatchesCatalog

\* What publishing does to the list of ids.
LEMMA AddsIds ==
    ASSUME HistoryInv, NEW r \in Request, Adds(r)
    PROVE  /\ Ids(clone[r]) = Ids(table) \cup {r}
           /\ clone[r].version = table.version + 1
<1>1. PICK now \in Nat : clone[r] = Push(table, r, now)
  BY DEF Adds
<1>2. Ids(Push(table, r, now)) = Ids(table) \cup {r}
  BY PushIds DEF HistoryInv, Good
<1>3. Push(table, r, now).version = table.version + 1
  BY DEF Push
<1> QED
  BY <1>1, <1>2, <1>3

LEMMA CutsIds ==
    ASSUME HistoryInv, NEW r \in Request, Cuts(r)
    PROVE  /\ Ids(clone[r]) = Ids(table) \ expired[r]
           /\ clone[r].version = table.version + 1
<1> USE CatalogAssumption
<1>1. PICK n \in RetainChoice : clone[r] = Prune(table, n, cutoff[r])
  BY DEF Cuts
<1>2. Ids(Prune(table, n, cutoff[r])) \subseteq Ids(table)
  BY PruneIds DEF HistoryInv, Typed
<1>3. Prune(table, n, cutoff[r]).version = table.version + 1
  BY DEF Prune
<1> QED
  BY <1>1, <1>2, <1>3 DEF Cuts

LEMMA SerialStep ==
    ASSUME Serial, CatalogInv, SerialInv, [Next]_vars PROVE SerialInv'
<1> USE CatalogAssumption
<1>0. HistoryInv /\ RestTyped /\ ManifestInv /\ Typed
  BY DEF CatalogInv, HistoryInv
<1>1. ASSUME NEW r \in Request, Acts(r), UNCHANGED <<table, manifests, metadata>>,
             r \in InFlight' => Progress(r)'
      PROVE  SerialInv'
  <2>1. InFlight' \subseteq {r}
    BY <1>0, <1>1, TurnOf DEF SerialInv
  <2> QED
    BY <1>1, <2>1 DEF SerialInv, Alone, ManifestsExact, MetadataMatchesCatalog, Ids
<1>2. ASSUME NEW r \in Request,
             \/ StartCommit(r) \/ StartCleanup(r) \/ StartCompaction(r) \/ GetTable(r)
             \/ RejectUnknownTable(r) \/ Abandon(r) \/ NothingToExpire(r) \/ NothingToCompact(r)
             \/ SmallFileUnreadable(r) \/ GetManifestFiles(r)
      PROVE  SerialInv'
  <2>1. /\ UNCHANGED <<table, manifests, metadata>>
        /\ pc'[r] \in {"clone", "files"} \cup Finished
    BY <1>0, <1>2 DEF StartCommit, StartCleanup, StartCompaction, GetTable, RejectUnknownTable, Abandon,
       NothingToExpire, NothingToCompact, SmallFileUnreadable, GetManifestFiles, Accept, Goto, vfs,
       Typed, Finished
  <2>2. r \in InFlight' => Progress(r)'
    BY <2>1 DEF InFlight, Progress, Finished
  <2> QED
    BY <1>1, <1>2, <2>1, <2>2 DEF Acts
<1>3. ASSUME NEW r \in Request, CloneForCommit(r) \/ StampCompaction(r) PROVE SerialInv'
  <2>1. /\ UNCHANGED <<table, manifests, metadata>>
        /\ pc[r] \in {"clone", "unlink"} /\ pc'[r] = "manifest"
        /\ op'[r] \in {"commit", "compact"}
        /\ clone'[r] = Push(IF pc[r] = "clone" THEN table ELSE clone[r], r, clock)
    BY <1>0, <1>3 DEF CloneForCommit, StampCompaction, Goto, vfs, Typed, ManifestInv
  <2>2. pc[r] = "unlink" => clone[r] = table
    BY <1>0, <2>1 DEF SerialInv, Progress, InFlight, Finished
  <2>3. Adds(r)'
    BY <1>0, <2>1, <2>2 DEF Adds, Typed
  <2> QED
    BY <1>1, <1>3, <2>1, <2>3 DEF Acts, Progress
<1>4. ASSUME NEW r \in Request, CloneForCleanup(r) PROVE SerialInv'
  <2>1. PICK n \in RetainChoice :
          LET pruned == Prune(table, n, cutoff[r])
              gone   == Ids(table) \ Ids(pruned)
          IN  /\ clone' = [clone EXCEPT ![r] = pruned]
              /\ entries' = [entries EXCEPT ![r] = UNION {FilesOf(id) : id \in Ids(pruned)}]
              /\ expired' = [expired EXCEPT ![r] = gone]
    BY <1>4 DEF CloneForCleanup
  <2>2. /\ UNCHANGED <<table, manifests, metadata, op, cutoff>>
        /\ op[r] = "cleanup" /\ pc'[r] = "expire"
    BY <1>0, <1>4 DEF CloneForCleanup, Goto, vfs, Typed
  <2>3. /\ clone'[r] = Prune(table, n, cutoff[r])
        /\ entries'[r] = UNION {FilesOf(id) : id \in Ids(clone'[r])}
        /\ expired'[r] = Ids(table) \ Ids(clone'[r])
    BY <1>0, <2>1 DEF Typed, RestTyped
  <2>4. Cuts(r)'
    BY <2>2, <2>3 DEF Cuts, FilesOf, Ids
  <2> QED
    BY <1>1, <1>4, <2>2, <2>4 DEF Acts, Progress
<1>5. ASSUME NEW r \in Request, CloneForCompaction(r) \/ ReadSmallFile(r) \/ WriteCompacted(r)
                                \/ DeleteSmallFile(r)
      PROVE  SerialInv'
  <2>1. /\ UNCHANGED <<table, manifests, metadata>>
        /\ pc[r] \in {"clone", "scan", "unlink"} /\ pc'[r] \in {"scan", "unlink"}
        /\ clone'[r] = IF pc[r] = "clone" THEN table ELSE clone[r]
    BY <1>0, <1>5 DEF CloneForCompaction, ReadSmallFile, WriteCompacted, DeleteSmallFile, Goto, vfs, Typed
  <2>2. clone'[r] = table
    BY <1>0, <2>1 DEF SerialInv, Progress, InFlight, Finished
  <2> QED
    BY <1>1, <1>5, <2>1, <2>2 DEF Acts, Progress
<1>6. ASSUME NEW r \in Request, DeleteManifest(r) \/ ListData(r) \/ DeleteOrphan(r) PROVE SerialInv'
  <2>1. /\ UNCHANGED <<table, manifests, metadata, op, clone, entries, expired, cutoff>>
        /\ pc[r] \in {"expire", "purge"} /\ pc'[r] \in {"expire", "purge"}
        /\ pc'[r] = "purge" =>
             \/ pc[r] = "expire" /\ stored' = stored /\ todo'[r] = stored \ entries[r]
             \/ \E f \in todo[r] : stored' = stored \ {f} /\ todo'[r] = todo[r] \ {f} /\ pc[r] = "purge"
    BY <1>0, <1>6 DEF DeleteManifest, ListData, DeleteOrphan, Orphans, Goto, vfs, Typed, RestTyped
  <2>2. Progress(r)
    BY <1>0, <2>1 DEF SerialInv, InFlight, Finished
  <2>3. Cuts(r)'
    BY <2>1, <2>2 DEF Progress, Cuts, FilesOf, Ids
  <2>4. pc'[r] = "purge" => stored' \ SeedFile \subseteq entries'[r] \cup todo'[r]
    BY <2>1, <2>2 DEF Progress
  <2> QED
    BY <1>1, <1>6, <2>1, <2>3, <2>4 DEF Acts, Progress
<1>7. ASSUME NEW r \in Request, WriteManifest(r) PROVE SerialInv'
  <2>1. /\ UNCHANGED <<table, manifests, metadata, op, clone>>
        /\ pc[r] = "manifest" /\ pc'[r] = "metadata"
    BY <1>0, <1>7 DEF WriteManifest, Goto, Typed
  <2>2. Adds(r)'
    BY <1>0, <2>1 DEF SerialInv, Progress, InFlight, Finished, Adds
  <2> QED
    BY <1>1, <1>7, <2>1, <2>2 DEF Acts, Progress
<1>8. ASSUME NEW r \in Request, WriteMetadata(r) PROVE SerialInv'
  <2>1. /\ UNCHANGED <<table, manifests, stored, op, clone, entries, expired, cutoff>>
        /\ \/ pc[r] = "metadata"
           \/ pc[r] = "purge" /\ todo[r] = {}
        /\ pc'[r] = "publish"
        /\ metadata' = Put(metadata, clone[r].version, clone[r])
    BY <1>0, <1>8 DEF WriteMetadata, MetadataVersion, Goto, Typed
  <2>2. Progress(r)
    BY <1>0, <2>1 DEF SerialInv, InFlight, Finished
  <2>3. clone[r].version = table.version + 1 /\ table.version \in Nat
    BY <1>0, <2>1, <2>2, AddsIds, CutsIds DEF Progress, HistoryInv, Good, Table
  <2>4. /\ clone[r].version \in DOMAIN metadata'
        /\ metadata'[clone[r].version] = clone[r]
        /\ \A v \in DOMAIN metadata \ {clone[r].version} :
              v \in DOMAIN metadata' /\ metadata'[v] = metadata[v]
    BY <2>1 DEF Put
  <2>5. MetadataMatchesCatalog'
    BY <2>1, <2>3, <2>4 DEF SerialInv, MetadataMatchesCatalog
  <2>6. Progress(r)'
    BY <2>1, <2>2, <2>4 DEF Progress, Adds, Cuts, Written, FilesOf, Ids
  <2>7. InFlight' \subseteq {r}
    BY <1>0, <1>8, TurnOf DEF SerialInv, Acts
  <2> QED
    BY <2>1, <2>5, <2>6, <2>7 DEF SerialInv, Alone, ManifestsExact, Ids
<1>9. ASSUME NEW r \in Request, PublishSnapshot(r) \/ PublishCleanup(r) PROVE SerialInv'
  <2>1. /\ pc[r] = "publish" /\ pc'[r] = "done"
        /\ table' = clone[r] /\ UNCHANGED metadata
        /\ \/ op[r] # "cleanup" /\ DOMAIN manifests' = DOMAIN manifests \cup {r}
           \/ op[r] = "cleanup" /\ DOMAIN manifests' = DOMAIN manifests \ expired[r]
    BY <1>0, <1>9 DEF PublishSnapshot, PublishCleanup, Put, Without, Goto, vfs, Typed
  <2>2. Progress(r)
    BY <1>0, <2>1 DEF SerialInv, InFlight, Finished
  <2>3. ManifestsExact'
    BY <1>0, <2>1, <2>2, AddsIds, CutsIds DEF Progress, SerialInv, ManifestsExact, Adds, Cuts
  <2>4. MetadataMatchesCatalog'
    BY <2>1, <2>2 DEF Progress, Written, MetadataMatchesCatalog
  <2>5. InFlight' \subseteq {r} /\ r \notin InFlight'
    BY <1>0, <1>9, <2>1, TurnOf DEF SerialInv, Acts, InFlight, Finished
  <2> QED
    BY <2>3, <2>4, <2>5 DEF SerialInv, Alone
\* Time, or a seed file, goes on beside it.
<1>10. ASSUME UNCHANGED <<table, manifests, metadata, local>>, stored' \ SeedFile = stored \ SeedFile
       PROVE  SerialInv'
  <2>1. UNCHANGED <<pc, op, clone, entries, todo, expired, cutoff>>
    BY <1>10 DEF local
  <2>2. InFlight' = InFlight
    BY <2>1 DEF InFlight
  <2>3. ASSUME NEW r \in InFlight PROVE Progress(r)'
    <3>1. Adds(r) => Adds(r)'
      BY <1>10, <2>1 DEF Adds
    <3>2. Cuts(r) => Cuts(r)'
      <4>1. \A id : (FilesOf(id))' = FilesOf(id)
        BY <1>10 DEF FilesOf
      <4>2. Ids(clone[r])' = Ids(clone[r]) /\ Ids(table)' = Ids(table)
        BY <1>10, <2>1 DEF Ids
      <4> QED
        BY <1>10, <2>1, <4>1, <4>2 DEF Cuts
    <3>3. Written(clone[r]) => Written(clone[r])'
      BY <1>10, <2>1 DEF Written
    <3> QED
      BY <1>10, <2>1, <3>1, <3>2, <3>3 DEF SerialInv, Progress
  <2> QED
    BY <1>10, <2>2, <2>3 DEF SerialInv, Alone, ManifestsExact, MetadataMatchesCatalog, Ids
<1>11. ASSUME \/ \E f \in SeedFile : WriteParquet(f)
              \/ Tick \/ UNCHANGED vars
       PROVE  SerialInv'
  BY <1>10, <1>11 DEF WriteParquet, Tick, vars, vfs
<1> QED
  BY <1>2, <1>3, <1>4, <1>5, <1>6, <1>7, <1>8, <1>9, <1>10, <1>11 DEF Next, Publish, Work

LEMMA AlwaysSerialInv == ASSUME Serial PROVE Spec => [](CatalogInv /\ SerialInv)
<1>1. Init => SerialInv
  BY SerialInit
<1>2. CatalogInv /\ SerialInv /\ [Next]_vars => SerialInv'
  BY SerialStep
<1> QED
  BY <1>1, <1>2, AlwaysCatalogInv, PTL DEF Spec

\* One request at a time, whatever was dropped before: the manifests in memory are those
\* of the listed snapshots, none missing and none left over.
THEOREM ManifestsExactHolds == ASSUME Serial PROVE Spec => []ManifestsExact
<1>1. SerialInv => ManifestsExact
  BY DEF SerialInv
<1> QED
  BY <1>1, AlwaysSerialInv, PTL

\* One request at a time: v<n>.metadata.json of the catalog's version n is the table.
THEOREM MetadataMatchesCatalogHolds == ASSUME Serial PROVE Spec => []MetadataMatchesCatalog
<1>1. SerialInv => MetadataMatchesCatalog
  BY DEF SerialInv
<1> QED
  BY <1>1, AlwaysSerialInv, PTL

-----------------------------------------------------------------------------
(* What a step does to the table *)

\* The table is left alone, or gains the snapshot of the request, or loses its oldest ones,
\* all of them older than the cutoff of the cleanup that was answered.
Grows(r) ==
    /\ PublishSnapshot(r)
    /\ r \notin Ids(table)
    /\ \E now \in Nat : table' = Push(table, r, now)

Shrinks(r) ==
    /\ PublishCleanup(r)
    /\ Cuts(r)
    /\ \E d \in 0..Len(table.snapshots) :
         /\ table'.snapshots \in Seq(Snapshot)
         /\ Len(table'.snapshots) = Len(table.snapshots) - d
         /\ \A j \in 1..(Len(table.snapshots) - d) : table'.snapshots[j] = table.snapshots[d + j]
         /\ \A i \in 1..d : table.snapshots[i].ts < cutoff[r]
    /\ table'.current = table.current
    /\ table'.version = table.version + 1

LEMMA CleanupShrinks ==
    ASSUME CatalogInv, SerialInv, NEW r \in Request, PublishCleanup(r) PROVE Shrinks(r)
<1> USE CatalogAssumption
<1>1. /\ op[r] = "cleanup" /\ pc[r] = "publish"
      /\ table' = clone[r]
  BY DEF PublishCleanup, Goto
<1>2. Progress(r)
  BY <1>1 DEF SerialInv, InFlight, Finished
<1>3. Cuts(r)
  BY <1>1, <1>2 DEF Progress, Adds
<1>4. PICK n \in RetainChoice : table' = Prune(table, n, cutoff[r])
  BY <1>1, <1>3 DEF Cuts
<1>5. n \in Nat /\ cutoff[r] \in Int /\ clock \in Nat /\ Good(table, clock)
  BY DEF CatalogInv, Typed, HistoryInv
<1>6. LET s == table.snapshots
          u == Prune(table, n, cutoff[r]).snapshots
      IN  \E d \in 0..Len(s) :
            /\ u \in Seq(Snapshot)
            /\ Len(u) = Len(s) - d
            /\ \A j \in 1..(Len(s) - d) : u[j] = s[d + j]
            /\ \A i \in 1..d : s[i].ts < cutoff[r]
  BY <1>5, PruneCuts
<1>7. table'.current = table.current /\ table'.version = table.version + 1
  BY <1>4 DEF Prune
<1> QED
  BY <1>3, <1>4, <1>6, <1>7 DEF Shrinks

LEMMA TableStep ==
    ASSUME Serial, CatalogInv, SerialInv, [Next]_vars
    PROVE  \/ /\ UNCHANGED table
              /\ \A r \in Request : ~PublishCleanup(r) \/ Shrinks(r)
           \/ \E r \in Request : Grows(r) \/ Shrinks(r)
<1> USE CatalogAssumption
<1>0. HistoryInv /\ RestTyped /\ ManifestInv /\ Typed
  BY DEF CatalogInv, HistoryInv
<1>1. ASSUME NEW r \in Request, PublishSnapshot(r) PROVE Grows(r)
  <2>1. /\ op[r] \in {"commit", "compact"} /\ pc[r] = "publish"
        /\ table' = clone[r]
    BY <1>1 DEF PublishSnapshot, Goto
  <2>2. Progress(r)
    BY <2>1 DEF SerialInv, InFlight, Finished
  <2>3. Adds(r)
    BY <2>1, <2>2 DEF Progress, Cuts
  <2>4. r \notin Ids(table)
    BY <1>0, <2>1 DEF ManifestInv, SerialInv, ManifestsExact
  <2> QED
    BY <1>1, <2>1, <2>3, <2>4 DEF Grows, Adds
<1>2. ASSUME NEW r \in Request, PublishCleanup(r) PROVE Shrinks(r)
  BY <1>2, CleanupShrinks
<1>3. CASE Publish
  BY <1>1, <1>2, <1>3 DEF Publish
<1>4. CASE Work \/ UNCHANGED vars
  <2>1. UNCHANGED table
    BY <1>4 DEF Work, vars, StartCommit, StartCleanup, StartCompaction, GetTable, RejectUnknownTable,
       Abandon, CloneForCommit, NothingToExpire, CloneForCleanup, DeleteManifest, ListData, DeleteOrphan,
       NothingToCompact, CloneForCompaction, ReadSmallFile, SmallFileUnreadable, WriteCompacted,
       DeleteSmallFile, StampCompaction, WriteManifest, WriteMetadata, GetManifestFiles, WriteParquet, Tick
  <2> QED
    BY <2>1, <1>2
<1> QED
  BY <1>3, <1>4 DEF Next

\* One request at a time: a snapshot leaves the list only because a cleanup found it
\* older than its cutoff, never by being overwritten.
THEOREM ExpiresOnlyOldHolds == ASSUME Serial PROVE Spec => ExpiresOnlyOld
<1>1. ASSUME CatalogInv, SerialInv, [Next]_vars,
             NEW i \in 1..Len(table.snapshots), table.snapshots[i].id \notin Ids(table)'
      PROVE  \E r \in Request : PublishCleanup(r) /\ table.snapshots[i].ts < cutoff[r]
  <2> DEFINE s == table.snapshots
  <2>1. s[i].id \in Ids(table) /\ s \in Seq(Snapshot) /\ table \in Table
    BY <1>1 DEF Ids, CatalogInv, HistoryInv, Good, Table
  <2>2. PICK r \in Request : Grows(r) \/ Shrinks(r)
    BY <1>1, <2>1, TableStep DEF Ids
  <2>3. ~Grows(r)
    <3>1. \A now : Ids(Push(table, r, now)) = Ids(table) \cup {r}
      BY <2>1, PushIds
    <3> QED
      BY <1>1, <2>1, <3>1 DEF Grows
  <2>4. PICK d \in 0..Len(s) :
           /\ Len(table'.snapshots) = Len(s) - d
           /\ \A j \in 1..(Len(s) - d) : table'.snapshots[j] = s[d + j]
           /\ \A k \in 1..d : s[k].ts < cutoff[r]
    BY <2>2, <2>3 DEF Shrinks
  <2>5. ASSUME i > d PROVE FALSE
    <3>1. i - d \in 1..(Len(s) - d) /\ d + (i - d) = i
      BY <2>1, <2>5
    <3>2. table'.snapshots[i - d] = s[i]
      BY <3>1, <2>4
    <3> QED
      BY <1>1, <2>4, <3>1, <3>2 DEF Ids
  <2>6. i \in 1..d
    BY <2>1, <2>5
  <2> QED
    BY <2>2, <2>3, <2>4, <2>6 DEF Shrinks
<1>2. CatalogInv /\ SerialInv /\ [Next]_vars
      => [\A i \in 1..Len(table.snapshots) :
            LET s == table.snapshots[i]
            IN  s.id \notin Ids(table)' => \E r \in Request : PublishCleanup(r) /\ s.ts < cutoff[r]]_vars
  BY <1>1
<1> QED
  BY <1>2, AlwaysSerialInv, PTL DEF Spec, ExpiresOnlyOld

\* One request at a time: when a cleanup is answered, every data file that a request wrote
\* and that is still stored belongs to a listed snapshot, whatever was dropped before.
THEOREM CleanupLeavesNoOrphanHolds == ASSUME Serial PROVE Spec => CleanupLeavesNoOrphan
<1>1. ASSUME CatalogInv, SerialInv, NEW r \in Request, PublishCleanup(r)
      PROVE  stored \ SeedFile \subseteq UNION {manifests'[id] : id \in DOMAIN manifests'}
  <2>1. /\ op[r] = "cleanup" /\ pc[r] = "publish"
        /\ manifests' = [id \in DOMAIN manifests \ expired[r] |-> manifests[id]]
    BY <1>1 DEF PublishCleanup, Goto, Without
  <2>2. Progress(r)
    BY <1>1, <2>1 DEF SerialInv, InFlight, Finished
  <2>3. Cuts(r) /\ stored \ SeedFile \subseteq entries[r]
    BY <2>1, <2>2 DEF Progress, Adds
  <2>4. Ids(clone[r]) = DOMAIN manifests \ expired[r]
    BY <1>1, <2>3, CutsIds DEF CatalogInv, SerialInv, ManifestsExact
  <2>5. /\ entries[r] = UNION {FilesOf(id) : id \in DOMAIN manifests'}
        /\ \A id \in DOMAIN manifests' : FilesOf(id) = manifests'[id]
    BY <2>1, <2>3, <2>4 DEF Cuts, FilesOf
  <2> QED
    BY <2>3, <2>5
<1>2. CatalogInv /\ SerialInv /\ [Next]_vars
      => [\A r \in Request : PublishCleanup(r) =>
             stored \ SeedFile \subseteq UNION {manifests'[id] : id \in DOMAIN manifests'}]_vars
  BY <1>1
<1> QED
  BY <1>2, AlwaysSerialInv, PTL DEF Spec, CleanupLeavesNoOrphan

-----------------------------------------------------------------------------
(* The refinement *)

\* One request at a time, the catalog implements AtomicTable: each answered commit or
\* compaction adds its snapshot to the latest history, each answered cleanup forgets the
\* oldest ones, and nothing else, dropped requests included, changes what readers see.
THEOREM ImplementsAtomicTableHolds == ASSUME Serial PROVE Spec => ImplementsAtomicTable
<1> DEFINE H == [i \in 1..Len(table.snapshots) |-> table.snapshots[i].id]
<1>1. ASSUME Init PROVE Atomic!Init
  <2>1. /\ Len(SeedTable.snapshots) = 1 /\ SeedTable.snapshots[1].id = SeedSnapshot
        /\ SeedTable.current = SeedSnapshot /\ SeedTable.version = 1
    BY DEF SeedTable
  <2>2. H = <<SeedSnapshot>>
    BY <1>1, <2>1 DEF Init
  <2> QED
    BY <1>1, <2>1, <2>2 DEF Init, Atomic!Init
<1>2. ASSUME CatalogInv, SerialInv, [Next]_vars PROVE [Atomic!Next]_(Atomic!vars)
  <2> DEFINE s == table.snapshots
             u == table'.snapshots
  <2>0. /\ s \in Seq(Snapshot) /\ Len(s) \in Nat
        /\ H \in Seq(SnapshotId) /\ Len(H) = Len(s)
    <3>1. s \in Seq(Snapshot)
      BY <1>2 DEF CatalogInv, HistoryInv, Good, Table
    <3>2. \A i \in 1..Len(s) : s[i].id \in SnapshotId
      <4>1. \A i \in 1..Len(s) : s[i] \in Snapshot
        BY <3>1
      <4> QED
        BY <4>1 DEF Snapshot
    <3> QED
      BY <3>1, <3>2
  <2>1. CASE UNCHANGED table
    BY <2>1 DEF Atomic!vars
  <2>2. ASSUME NEW r \in Request, Grows(r) PROVE Atomic!Next
    <3>1. PICK now \in Nat : table' = Push(table, r, now)
      BY <2>2 DEF Grows
    <3> DEFINE e == [id |-> r, parent |-> table.current, ts |-> now]
    <3>2. /\ u = Append(s, e) /\ e.id = r
          /\ table'.current = r /\ table'.version = table.version + 1
      BY <3>1 DEF Push
    <3> HIDE DEF e
    <3>3. /\ Len(u) = Len(s) + 1
          /\ \A i \in 1..Len(s) : u[i] = s[i]
          /\ u[Len(s) + 1] = e
      BY <2>0, <3>2
    <3>4. H' = Append(H, r)
      BY <2>0, <3>2, <3>3
    <3>5. \A i \in 1..Len(H) : H[i] # r
      BY <2>0, <2>2 DEF Grows, Ids
    <3>6. Atomic!Add(r)
      BY <3>2, <3>4, <3>5 DEF Atomic!Add
    <3> QED
      BY <3>6 DEF Atomic!Next
  <2>3. ASSUME NEW r \in Request, Shrinks(r) PROVE Atomic!Next
    <3>1. PICK d \in 0..Len(s) :
             /\ Len(u) = Len(s) - d
             /\ \A j \in 1..(Len(s) - d) : u[j] = s[d + j]
      BY <2>3 DEF Shrinks
    <3>2. table'.current = table.current /\ table'.version = table.version + 1
      BY <2>3 DEF Shrinks
    <3>3. \A j \in 1..Len(u) : u[j].id = H[d + j]
      BY <2>0, <3>1
    <3>4. H' = SubSeq(H, d + 1, Len(H))
      <4> HIDE DEF H
      <4>1. SubSeq(H, d + 1, Len(H)) = [j \in 1..(Len(s) - d) |-> H[d + j]]
        BY <2>0, <3>1
      <4>2. H' = [j \in 1..Len(u) |-> u[j].id]
        BY DEF H
      <4> QED
        BY <3>1, <3>3, <4>1, <4>2
    <3>5. Atomic!Forget(d) /\ d \in 0..Len(H)
      BY <2>0, <3>2, <3>4 DEF Atomic!Forget
    <3> QED
      BY <3>5 DEF Atomic!Next
  <2> QED
    BY <1>2, <2>1, <2>2, <2>3, TableStep
<1> QED
  BY <1>1, <1>2, AlwaysSerialInv, PTL DEF Spec, ImplementsAtomicTable, Atomic!Spec

-----------------------------------------------------------------------------
(* Data files, manifest lists and the snapshots that refer to them.  The seed *)
(* snapshot has two files and every other snapshot just the one that bears    *)
(* its name, so that only the seed files are ever merged.                     *)

NothingEarly ==
    \A r \in Request :
        /\ small[r] \subseteq SeedFile
        /\ pc[r] \in {"idle", "clone"} => small[r] = {} /\ expired[r] = {}

\* What the request in flight has ready in the VFS, and what it will still delete.
Holding(r) ==
    /\ op[r] = "commit" => entries[r] = {r} /\ r \in stored
    /\ op[r] = "compact" /\ pc[r] # "clone" =>
         /\ entries[r] = {r} /\ small[r] = SeedFile /\ table.current = SeedSnapshot
         /\ pc[r] # "scan" => r \in stored
    /\ pc[r] \in {"metadata", "publish"} /\ op[r] \in {"commit", "compact"} => r \in avro
    /\ pc[r] = "expire" => todo[r] \subseteq expired[r]
    /\ pc[r] = "purge" => todo[r] \cap entries[r] = {}
    /\ pc[r] = "unlink" => todo[r] \subseteq small[r]
    /\ pc[r] = "files" => op[r] = "get"

SeedUncompacted == table.current = SeedSnapshot => Published("compact") = {}

OwnDataKept ==
    \A id \in (Ids(table) \ EverExpired) \ {SeedSnapshot} : id \in stored /\ id \in avro

SeedDataKept ==
    SeedSnapshot \in Ids(table) \ EverExpired =>
        \A f \in (SeedFile \cap uploaded) \ stored :
            \E r \in Request :
                MayHaveMerged(r, f) /\ (table.current = SeedSnapshot => pc[r] # "done")

DataInv ==
    /\ ManifestsAlone /\ NothingEarly
    /\ \A r \in InFlight : Holding(r)
    /\ SeedUncompacted /\ OwnDataKept /\ SeedDataKept

Always == CatalogInv /\ SerialInv

LEMMA DataInit == MetricsInit => DataInv
<1> SUFFICES ASSUME MetricsInit PROVE DataInv
  OBVIOUS
<1>1. /\ InFlight = {} /\ Published("compact") = {} /\ uploaded = {}
      /\ \A r \in Request : small[r] = {} /\ expired[r] = {}
      /\ ManifestsAlone
  BY DEF MetricsInit, Init, InFlight, Published, ManifestsAlone
<1>2. Ids(table) = {SeedSnapshot}
  <2>1. Init => SerialInv
    BY SerialInit
  <2> QED
    BY <2>1 DEF MetricsInit, Init, SerialInv, ManifestsExact
<1> QED
  BY <1>1, <1>2 DEF DataInv, NothingEarly, SeedUncompacted, OwnDataKept, SeedDataKept

\* A compaction finds two small files in the current snapshot only if that is the seed.
LEMMA OnlySeedCompacts ==
    ASSUME Always, DataInv, NEW r \in Request, CloneForCompaction(r)
    PROVE  /\ table.current = SeedSnapshot
           /\ small'[r] = SeedFile /\ todo'[r] = SeedFile /\ entries'[r] = {r}
<1> USE SeedAssumption
<1>1. PICK bytes \in Threshold :
         /\ Cardinality(SmallFiles(bytes)) >= 2
         /\ small' = [small EXCEPT ![r] = SmallFiles(bytes)]
         /\ todo' = [todo EXCEPT ![r] = SmallFiles(bytes)]
         /\ entries' = [entries EXCEPT ![r] = (FilesOf(table.current) \ SmallFiles(bytes)) \cup {r}]
  BY DEF CloneForCompaction
<1>2. /\ table.current \in DOMAIN manifests
      /\ SmallFiles(bytes) \subseteq FilesOf(table.current)
  BY DEF CloneForCompaction, Always, SerialInv, ManifestsExact, SmallFiles
<1>3. FilesOf(table.current) = IF table.current = SeedSnapshot THEN SeedFile ELSE {table.current}
  BY <1>2 DEF FilesOf, DataInv, ManifestsAlone
<1>4. table.current = SeedSnapshot
  <2> SUFFICES ASSUME table.current # SeedSnapshot PROVE FALSE
    OBVIOUS
  <2> DEFINE S == SmallFiles(bytes)
             T == {table.current}
  <2>1. S \subseteq T /\ Cardinality(S) >= 2
    BY <1>1, <1>2, <1>3
  <2> HIDE DEF S
  <2>2. IsFiniteSet(T) /\ Cardinality(T) = 1
    BY FS_Singleton
  <2> HIDE DEF T
  <2>3. IsFiniteSet(S) /\ Cardinality(S) =< Cardinality(T)
    BY <2>1, <2>2, FS_Subset
  <2>4. Cardinality(S) \in Nat
    BY <2>3, FS_CardinalityType
  <2> QED
    BY <2>1, <2>2, <2>3, <2>4
<1>5. SmallFiles(bytes) = SeedFile
  <2> DEFINE S == SmallFiles(bytes)
  <2>1. S \subseteq SeedFile /\ Cardinality(S) >= 2
    BY <1>1, <1>2, <1>3, <1>4
  <2> HIDE DEF S
  <2>2. /\ IsFiniteSet(S) /\ Cardinality(S) =< Cardinality(SeedFile)
        /\ Cardinality(SeedFile) = Cardinality(S) => SeedFile = S
    BY <2>1, FS_Subset
  <2>3. Cardinality(S) \in Nat
    BY <2>2, FS_CardinalityType
  <2>4. S = SeedFile
    BY <2>1, <2>2, <2>3
  <2> QED
    BY <2>4 DEF S
<1> QED
  BY <1>1, <1>3, <1>4, <1>5 DEF Always, CatalogInv, RestTyped

\* What a step takes from the VFS, and that nothing is unexpired.
LEMMA VfsStep ==
    ASSUME Always, DataInv, [Next]_vars
    PROVE  /\ \A f \in stored \ stored' : \E r \in Request :
                (DeleteOrphan(r) \/ DeleteSmallFile(r)) /\ f \in todo[r] /\ f \notin todo'[r]
           /\ \A id \in avro \ avro' : \E r \in Request : DeleteManifest(r) /\ id \in todo[r]
           /\ EverExpired \subseteq EverExpired'
<1>0. HistoryInv /\ RestTyped
  BY DEF Always, CatalogInv
<1>1. ASSUME NEW r \in Request, DeleteOrphan(r) \/ DeleteSmallFile(r)
      PROVE  /\ \A f \in stored \ stored' : f \in todo[r] /\ f \notin todo'[r]
             /\ UNCHANGED <<avro, expired>>
  BY <1>0, <1>1 DEF DeleteOrphan, DeleteSmallFile, RestTyped
<1>2. ASSUME NEW r \in Request, DeleteManifest(r)
      PROVE  /\ \A id \in avro \ avro' : id \in todo[r]
             /\ UNCHANGED <<stored, expired>>
  BY <1>2 DEF DeleteManifest
<1>3. ASSUME NEW r \in Request, CloneForCleanup(r)
      PROVE  UNCHANGED <<stored, avro>> /\ EverExpired \subseteq EverExpired'
  <2>1. UNCHANGED <<stored, avro>> /\ pc[r] = "clone"
    BY <1>3 DEF CloneForCleanup, vfs, Goto
  <2>2. \A q \in Request \ {r} : expired'[q] = expired[q]
    BY <1>0, <1>3, OthersAside DEF Acts, Aside
  <2>3. expired[r] = {}
    BY <2>1 DEF DataInv, NothingEarly
  <2> QED
    BY <2>1, <2>2, <2>3 DEF EverExpired
<1>4. ASSUME NEW r \in Request,
             \/ StartCommit(r) \/ StartCleanup(r) \/ StartCompaction(r) \/ RejectUnknownTable(r) \/ Abandon(r)
             \/ CloneForCommit(r) \/ NothingToExpire(r) \/ ListData(r) \/ NothingToCompact(r)
             \/ CloneForCompaction(r) \/ ReadSmallFile(r) \/ SmallFileUnreadable(r) \/ WriteCompacted(r)
             \/ StampCompaction(r) \/ WriteManifest(r) \/ WriteMetadata(r) \/ GetTable(r)
             \/ GetManifestFiles(r) \/ PublishSnapshot(r) \/ PublishCleanup(r)
      PROVE  stored \subseteq stored' /\ avro \subseteq avro' /\ UNCHANGED expired
  BY <1>4 DEF StartCommit, StartCleanup, StartCompaction, RejectUnknownTable, Abandon, CloneForCommit,
     NothingToExpire, ListData, NothingToCompact, CloneForCompaction, ReadSmallFile, SmallFileUnreadable,
     WriteCompacted, StampCompaction, WriteManifest, WriteMetadata, GetTable, GetManifestFiles,
     PublishSnapshot, PublishCleanup, vfs
<1>5. ASSUME \/ \E f \in SeedFile : WriteParquet(f)
             \/ Tick \/ UNCHANGED vars
      PROVE  stored \subseteq stored' /\ avro \subseteq avro' /\ UNCHANGED expired
  BY <1>5 DEF WriteParquet, Tick, vars, vfs, local
<1>6. CASE \E r \in Request : DeleteOrphan(r) \/ DeleteSmallFile(r)
  BY <1>1, <1>6 DEF EverExpired
<1>7. CASE \E r \in Request : DeleteManifest(r)
  BY <1>2, <1>7 DEF EverExpired
<1>8. CASE \E r \in Request : CloneForCleanup(r)
  BY <1>3, <1>8
<1>9. CASE \/ \E r \in Request :
                \/ StartCommit(r) \/ StartCleanup(r) \/ StartCompaction(r) \/ RejectUnknownTable(r) \/ Abandon(r)
                \/ CloneForCommit(r) \/ NothingToExpire(r) \/ ListData(r) \/ NothingToCompact(r)
                \/ CloneForCompaction(r) \/ ReadSmallFile(r) \/ SmallFileUnreadable(r) \/ WriteCompacted(r)
                \/ StampCompaction(r) \/ WriteManifest(r) \/ WriteMetadata(r) \/ GetTable(r)
                \/ GetManifestFiles(r) \/ PublishSnapshot(r) \/ PublishCleanup(r)
           \/ \E f \in SeedFile : WriteParquet(f)
           \/ Tick \/ UNCHANGED vars
  <2>1. stored \subseteq stored' /\ avro \subseteq avro' /\ UNCHANGED expired
    BY <1>4, <1>5, <1>9
  <2> QED
    BY <2>1 DEF EverExpired
<1> QED
  BY <1>6, <1>7, <1>8, <1>9 DEF Next, Publish, Work

LEMMA AlwaysParts == Always => HistoryInv /\ Typed /\ RestTyped /\ ManifestInv /\ SerialInv
  BY DEF Always, CatalogInv, HistoryInv

\* Whatever is not a publication leaves the catalog and the list of answered writers alone.
LEMMA WorkFrame ==
    ASSUME Always, DataInv, Work \/ UNCHANGED vars
    PROVE  /\ UNCHANGED <<table, manifests>>
           /\ Published("commit")' = Published("commit")
           /\ Published("compact")' = Published("compact")
           /\ Merged' = Merged
<1>0. HistoryInv /\ Typed /\ RestTyped /\ ManifestInv
  BY AlwaysParts
<1>1. ASSUME NEW r \in Request, Acts(r), UNCHANGED <<table, manifests>>, pc[r] # "done",
             pc'[r] = "done" => op'[r] \in {"cleanup", "get"}
      PROVE  /\ Published("commit")' = Published("commit")
             /\ Published("compact")' = Published("compact")
             /\ Merged' = Merged
  <2>1. \A q \in Request \ {r} : pc'[q] = pc[q] /\ op'[q] = op[q] /\ small'[q] = small[q]
    BY <1>0, <1>1, OthersAside DEF Aside
  <2>2. /\ Published("commit")' = Published("commit")
        /\ Published("compact")' = Published("compact")
        /\ r \notin Published("compact")
    BY <1>1, <2>1 DEF Published
  <2> QED
    BY <2>1, <2>2 DEF Merged, Published
<1>2. ASSUME NEW r \in Request,
             \/ StartCommit(r) \/ StartCleanup(r) \/ StartCompaction(r) \/ RejectUnknownTable(r)
             \/ Abandon(r) \/ CloneForCommit(r) \/ NothingToExpire(r) \/ CloneForCleanup(r)
             \/ DeleteManifest(r) \/ ListData(r) \/ DeleteOrphan(r) \/ NothingToCompact(r)
      PROVE  /\ UNCHANGED <<table, manifests>>
             /\ pc[r] # "done"
             /\ pc'[r] = "done" => op'[r] \in {"cleanup", "get"}
  BY <1>0, <1>2 DEF StartCommit, StartCleanup, StartCompaction, RejectUnknownTable, Abandon,
     CloneForCommit, NothingToExpire, CloneForCleanup, DeleteManifest, ListData, DeleteOrphan,
     NothingToCompact, Accept, Goto, Typed, InFlight, Finished
<1>3. ASSUME NEW r \in Request,
             \/ CloneForCompaction(r) \/ ReadSmallFile(r) \/ SmallFileUnreadable(r) \/ WriteCompacted(r)
             \/ DeleteSmallFile(r) \/ StampCompaction(r) \/ WriteManifest(r) \/ WriteMetadata(r)
             \/ GetTable(r)
      PROVE  /\ UNCHANGED <<table, manifests>>
             /\ pc[r] # "done"
             /\ pc'[r] = "done" => op'[r] \in {"cleanup", "get"}
  BY <1>0, <1>3 DEF CloneForCompaction, ReadSmallFile, SmallFileUnreadable, WriteCompacted,
     DeleteSmallFile, StampCompaction, WriteManifest, WriteMetadata, GetTable, Accept, Goto, Typed
<1>4. ASSUME NEW r \in Request, GetManifestFiles(r)
      PROVE  /\ UNCHANGED <<table, manifests>>
             /\ pc[r] # "done"
             /\ pc'[r] = "done" => op'[r] \in {"cleanup", "get"}
  <2>1. UNCHANGED <<table, manifests, op>> /\ pc[r] = "files"
    BY <1>4 DEF GetManifestFiles, Goto
  <2>2. Holding(r)
    BY <2>1 DEF DataInv, InFlight, Finished
  <2> QED
    BY <2>1, <2>2 DEF Holding
<1>5. CASE \/ \E f \in SeedFile : WriteParquet(f)
           \/ Tick \/ UNCHANGED vars
  <2>1. UNCHANGED <<table, manifests, pc, op, small>>
    BY <1>5 DEF WriteParquet, Tick, vars, local
  <2> QED
    BY <2>1 DEF Published, Merged
<1>6. CASE \E r \in Request :
             \/ StartCommit(r) \/ StartCleanup(r) \/ StartCompaction(r) \/ RejectUnknownTable(r)
             \/ Abandon(r) \/ CloneForCommit(r) \/ NothingToExpire(r) \/ CloneForCleanup(r)
             \/ DeleteManifest(r) \/ ListData(r) \/ DeleteOrphan(r) \/ NothingToCompact(r)
  BY <1>1, <1>2, <1>6 DEF Acts
<1>7. CASE \E r \in Request :
             \/ CloneForCompaction(r) \/ ReadSmallFile(r) \/ SmallFileUnreadable(r) \/ WriteCompacted(r)
             \/ DeleteSmallFile(r) \/ StampCompaction(r) \/ WriteManifest(r) \/ WriteMetadata(r)
             \/ GetTable(r)
  BY <1>1, <1>3, <1>7 DEF Acts
<1>8. CASE \E r \in Request : GetManifestFiles(r)
  BY <1>1, <1>4, <1>8 DEF Acts
<1> QED
  BY <1>5, <1>6, <1>7, <1>8 DEF Work

LEMMA PlainStep == ASSUME Always, DataInv, [Next]_vars PROVE ManifestsAlone'
<1> USE CatalogAssumption
<1>1. CASE Work \/ UNCHANGED vars
  BY <1>1, WorkFrame DEF DataInv, ManifestsAlone
<1>2. ASSUME NEW r \in Request, PublishSnapshot(r) PROVE ManifestsAlone'
  <2>1. /\ op[r] \in {"commit", "compact"} /\ pc[r] = "publish"
        /\ manifests' = Put(manifests, r, entries[r])
    BY <1>2 DEF PublishSnapshot, Goto
  <2>2. entries[r] = {r} /\ r # SeedSnapshot
    BY <2>1 DEF DataInv, Holding, InFlight, Finished
  <2> QED
    BY <2>1, <2>2 DEF Put, DataInv, ManifestsAlone
<1>3. ASSUME NEW r \in Request, PublishCleanup(r) PROVE ManifestsAlone'
  BY <1>3 DEF PublishCleanup, Without, DataInv, ManifestsAlone
<1> QED
  BY <1>1, <1>2, <1>3 DEF Next, Publish

LEMMA EarlyStep == ASSUME Always, DataInv, [Next]_vars PROVE NothingEarly'
<1>0. HistoryInv /\ Typed /\ RestTyped /\ ManifestInv
  BY AlwaysParts
<1>1. ASSUME NEW r \in Request, Acts(r), small'[r] \subseteq SeedFile,
             pc'[r] = "clone" => small'[r] = {} /\ expired'[r] = {},
             pc'[r] # "idle"
      PROVE  NothingEarly'
  <2>1. \A q \in Request \ {r} : pc'[q] = pc[q] /\ small'[q] = small[q] /\ expired'[q] = expired[q]
    BY <1>0, <1>1, OthersAside DEF Aside
  <2> QED
    BY <1>1, <2>1 DEF DataInv, NothingEarly
<1>2. ASSUME NEW r \in Request,
             StartCommit(r) \/ StartCleanup(r) \/ StartCompaction(r) \/ GetTable(r)
      PROVE  NothingEarly'
  <2>1. UNCHANGED <<small, expired>> /\ pc[r] = "idle" /\ pc'[r] # "idle"
    BY <1>0, <1>2 DEF StartCommit, StartCleanup, StartCompaction, GetTable, Accept, Goto, Typed
  <2> QED
    BY <1>1, <1>2, <2>1 DEF DataInv, NothingEarly, Acts
<1>3. ASSUME NEW r \in Request,
             \/ RejectUnknownTable(r) \/ Abandon(r) \/ CloneForCommit(r) \/ NothingToExpire(r)
             \/ CloneForCleanup(r) \/ DeleteManifest(r) \/ ListData(r) \/ DeleteOrphan(r)
             \/ NothingToCompact(r) \/ ReadSmallFile(r) \/ SmallFileUnreadable(r)
      PROVE  NothingEarly'
  <2>1. UNCHANGED small /\ pc'[r] \notin {"idle", "clone"}
    BY <1>0, <1>3 DEF RejectUnknownTable, Abandon, CloneForCommit, NothingToExpire, CloneForCleanup,
       DeleteManifest, ListData, DeleteOrphan, NothingToCompact, ReadSmallFile, SmallFileUnreadable,
       Goto, Typed
  <2> QED
    BY <1>1, <1>3, <2>1 DEF DataInv, NothingEarly, Acts
<1>4. ASSUME NEW r \in Request,
             \/ WriteCompacted(r) \/ DeleteSmallFile(r) \/ StampCompaction(r) \/ WriteManifest(r)
             \/ WriteMetadata(r) \/ GetManifestFiles(r) \/ PublishSnapshot(r) \/ PublishCleanup(r)
      PROVE  NothingEarly'
  <2>1. UNCHANGED small /\ pc'[r] \notin {"idle", "clone"}
    BY <1>0, <1>4 DEF WriteCompacted, DeleteSmallFile, StampCompaction, WriteManifest, WriteMetadata,
       GetManifestFiles, PublishSnapshot, PublishCleanup, Goto, Typed
  <2> QED
    BY <1>1, <1>4, <2>1 DEF DataInv, NothingEarly, Acts
<1>5. ASSUME NEW r \in Request, CloneForCompaction(r) PROVE NothingEarly'
  <2>1. pc'[r] = "scan" /\ small'[r] = SeedFile
    BY <1>0, <1>5, OnlySeedCompacts DEF CloneForCompaction, Goto, Typed
  <2> QED
    BY <1>1, <1>5, <2>1 DEF Acts
<1>6. CASE \/ \E f \in SeedFile : WriteParquet(f)
           \/ Tick \/ UNCHANGED vars
  <2>1. UNCHANGED <<pc, small, expired>>
    BY <1>6 DEF WriteParquet, Tick, vars, local
  <2> QED
    BY <2>1 DEF DataInv, NothingEarly
<1> QED
  BY <1>2, <1>3, <1>4, <1>5, <1>6 DEF Next, Publish, Work

LEMMA HoldingStep ==
    ASSUME Serial, Always, DataInv, [Next]_vars PROVE \A r \in InFlight' : Holding(r)'
<1> USE CatalogAssumption
<1>0. HistoryInv /\ Typed /\ RestTyped /\ ManifestInv /\ Alone
  BY AlwaysParts DEF SerialInv
<1>1. ASSUME NEW r \in Request, Acts(r), r \in InFlight' => Holding(r)'
      PROVE  \A q \in InFlight' : Holding(q)'
  <2>1. InFlight' \subseteq {r}
    BY <1>0, <1>1, TurnOf
  <2> QED
    BY <1>1, <2>1
<1>2. ASSUME NEW r \in Request,
             \/ RejectUnknownTable(r) \/ Abandon(r) \/ NothingToExpire(r) \/ NothingToCompact(r)
             \/ SmallFileUnreadable(r) \/ GetManifestFiles(r) \/ PublishSnapshot(r) \/ PublishCleanup(r)
      PROVE  r \notin InFlight'
  BY <1>0, <1>2 DEF RejectUnknownTable, Abandon, NothingToExpire, NothingToCompact, SmallFileUnreadable,
     GetManifestFiles, PublishSnapshot, PublishCleanup, Goto, InFlight, Finished, Typed
<1>3. ASSUME NEW r \in Request, StartCommit(r) PROVE Holding(r)'
  <2>1. op'[r] = "commit" /\ entries'[r] = {r} /\ r \in stored' /\ pc'[r] = "clone"
    BY <1>0, <1>3 DEF StartCommit, Accept, Goto, Typed, RestTyped
  <2> QED
    BY <2>1 DEF Holding
<1>4. ASSUME NEW r \in Request, StartCleanup(r) \/ StartCompaction(r) PROVE Holding(r)'
  <2>1. op'[r] \in {"cleanup", "compact"} /\ pc'[r] = "clone"
    BY <1>0, <1>4 DEF StartCleanup, StartCompaction, Accept, Goto, Typed
  <2> QED
    BY <2>1 DEF Holding
<1>5. ASSUME NEW r \in Request, GetTable(r) PROVE Holding(r)'
  <2>1. op'[r] = "get" /\ pc'[r] = "files"
    BY <1>0, <1>5 DEF GetTable, Accept, Goto, Typed
  <2> QED
    BY <2>1 DEF Holding
<1>6. ASSUME NEW r \in Request, CloneForCommit(r) PROVE Holding(r)'
  <2>1. /\ UNCHANGED <<stored, avro, table, op, entries, small, todo>>
        /\ pc[r] = "clone" /\ pc'[r] = "manifest" /\ op[r] = "commit"
    BY <1>0, <1>6 DEF CloneForCommit, Goto, vfs, Typed
  <2>2. Holding(r)
    BY <2>1 DEF DataInv, InFlight, Finished
  <2> QED
    BY <2>1, <2>2 DEF Holding
<1>7. ASSUME NEW r \in Request, CloneForCleanup(r) PROVE Holding(r)'
  <2>1. pc'[r] = "expire" /\ op'[r] = "cleanup" /\ todo'[r] = expired'[r]
    BY <1>0, <1>7 DEF CloneForCleanup, Goto, Typed, RestTyped
  <2> QED
    BY <2>1 DEF Holding
<1>8. ASSUME NEW r \in Request, CloneForCompaction(r) PROVE Holding(r)'
  <2>1. UNCHANGED table /\ pc'[r] = "scan" /\ op'[r] = "compact"
    BY <1>0, <1>8 DEF CloneForCompaction, Goto, Typed
  <2>2. table.current = SeedSnapshot /\ small'[r] = SeedFile /\ entries'[r] = {r}
    BY <1>8, OnlySeedCompacts
  <2> QED
    BY <2>1, <2>2 DEF Holding
<1>9. ASSUME NEW r \in Request, DeleteManifest(r) \/ ListData(r) \/ DeleteOrphan(r) PROVE Holding(r)'
  <2>1. /\ UNCHANGED <<op, entries, expired>>
        /\ \/ pc[r] = "expire" /\ pc'[r] = "expire" /\ todo'[r] \subseteq todo[r]
           \/ pc[r] = "expire" /\ pc'[r] = "purge" /\ todo'[r] \cap entries[r] = {}
           \/ pc[r] = "purge" /\ pc'[r] = "purge" /\ todo'[r] \subseteq todo[r]
    BY <1>0, <1>9 DEF DeleteManifest, ListData, Orphans, DeleteOrphan, Goto, Typed, RestTyped
  <2>2. Holding(r) /\ Progress(r)
    BY <1>0, <2>1, AlwaysParts DEF DataInv, SerialInv, InFlight, Finished
  <2>3. op[r] = "cleanup"
    BY <2>1, <2>2 DEF Progress, Cuts
  <2> QED
    BY <2>1, <2>2, <2>3 DEF Holding
<1>10. ASSUME NEW r \in Request, ReadSmallFile(r) PROVE Holding(r)'
  <2>1. UNCHANGED <<stored, avro, table, op, entries, small>> /\ pc[r] = "scan" /\ pc'[r] = "scan"
    BY <1>10 DEF ReadSmallFile, vfs
  <2>2. Holding(r) /\ op[r] = "compact"
    BY <1>0, <2>1 DEF DataInv, ManifestInv, InFlight, Finished
  <2> QED
    BY <2>1, <2>2 DEF Holding
<1>11. ASSUME NEW r \in Request, WriteCompacted(r) PROVE Holding(r)'
  <2>1. /\ UNCHANGED <<table, op, entries, small>>
        /\ pc[r] = "scan" /\ pc'[r] = "unlink"
        /\ r \in stored' /\ todo'[r] = small[r]
    BY <1>0, <1>11 DEF WriteCompacted, Goto, Typed, RestTyped
  <2>2. Holding(r) /\ op[r] = "compact"
    BY <1>0, <2>1 DEF DataInv, ManifestInv, InFlight, Finished
  <2> QED
    BY <2>1, <2>2 DEF Holding
<1>12. ASSUME NEW r \in Request, DeleteSmallFile(r) PROVE Holding(r)'
  <2>1. PICK f \in todo[r] : stored' = stored \ {f} /\ todo' = [todo EXCEPT ![r] = todo[r] \ {f}]
    BY <1>12 DEF DeleteSmallFile
  <2>2. /\ UNCHANGED <<table, op, entries, small>>
        /\ pc[r] = "unlink" /\ pc'[r] = "unlink"
        /\ todo'[r] = todo[r] \ {f}
    BY <1>0, <1>12, <2>1 DEF DeleteSmallFile, RestTyped
  <2>3. Holding(r) /\ op[r] = "compact"
    BY <1>0, <2>2 DEF DataInv, ManifestInv, InFlight, Finished
  <2>4. f # r
    BY <2>1, <2>2, <2>3 DEF Holding
  <2> QED
    BY <2>1, <2>2, <2>3, <2>4 DEF Holding
<1>13. ASSUME NEW r \in Request, StampCompaction(r) PROVE Holding(r)'
  <2>1. /\ UNCHANGED <<stored, avro, table, op, entries, small, todo>>
        /\ pc[r] = "unlink" /\ pc'[r] = "manifest"
    BY <1>0, <1>13 DEF StampCompaction, Goto, vfs, Typed
  <2>2. Holding(r) /\ op[r] = "compact"
    BY <1>0, <2>1 DEF DataInv, ManifestInv, InFlight, Finished
  <2> QED
    BY <2>1, <2>2 DEF Holding
<1>14. ASSUME NEW r \in Request, WriteManifest(r) PROVE Holding(r)'
  <2>1. /\ UNCHANGED <<stored, table, op, entries, small, todo>>
        /\ pc[r] = "manifest" /\ pc'[r] = "metadata" /\ r \in avro'
    BY <1>0, <1>14 DEF WriteManifest, Goto, Typed
  <2>2. Holding(r)
    BY <2>1 DEF DataInv, InFlight, Finished
  <2> QED
    BY <2>1, <2>2 DEF Holding
<1>15. ASSUME NEW r \in Request, WriteMetadata(r) PROVE Holding(r)'
  <2>1. /\ UNCHANGED <<stored, avro, table, op, entries, small, todo>>
        /\ pc[r] \in {"metadata", "purge"} /\ pc'[r] = "publish"
    BY <1>0, <1>15 DEF WriteMetadata, Goto, Typed
  <2>2. Holding(r) /\ Progress(r)
    BY <1>0, <2>1, AlwaysParts DEF DataInv, SerialInv, InFlight, Finished
  <2>3. pc[r] = "purge" => op[r] = "cleanup"
    BY <2>2 DEF Progress, Cuts
  <2> QED
    BY <2>1, <2>2, <2>3 DEF Holding
<1>16. CASE \/ \E f \in SeedFile : WriteParquet(f)
            \/ Tick \/ UNCHANGED vars
  <2>1. /\ UNCHANGED <<pc, op, entries, small, todo, expired, avro, table>>
        /\ stored \subseteq stored'
    BY <1>16 DEF WriteParquet, Tick, vars, vfs, local
  <2>2. InFlight' = InFlight
    BY <2>1 DEF InFlight
  <2>3. ASSUME NEW r \in InFlight PROVE Holding(r)'
    BY <2>1 DEF DataInv, Holding
  <2> QED
    BY <2>2, <2>3
<1>17. ASSUME NEW r \in Request,
              \/ StartCommit(r) \/ StartCleanup(r) \/ StartCompaction(r) \/ GetTable(r)
              \/ CloneForCommit(r) \/ CloneForCleanup(r) \/ CloneForCompaction(r) \/ DeleteManifest(r)
              \/ ListData(r) \/ DeleteOrphan(r) \/ ReadSmallFile(r) \/ WriteCompacted(r)
              \/ DeleteSmallFile(r) \/ StampCompaction(r) \/ WriteManifest(r) \/ WriteMetadata(r)
       PROVE  Acts(r) /\ Holding(r)'
  BY <1>17, <1>3, <1>4, <1>5, <1>6, <1>7, <1>8, <1>9, <1>10, <1>11, <1>12, <1>13, <1>14, <1>15 DEF Acts
<1>18. CASE \E r \in Request :
              \/ StartCommit(r) \/ StartCleanup(r) \/ StartCompaction(r) \/ GetTable(r)
              \/ CloneForCommit(r) \/ CloneForCleanup(r) \/ CloneForCompaction(r) \/ DeleteManifest(r)
              \/ ListData(r) \/ DeleteOrphan(r) \/ ReadSmallFile(r) \/ WriteCompacted(r)
              \/ DeleteSmallFile(r) \/ StampCompaction(r) \/ WriteManifest(r) \/ WriteMetadata(r)
  BY <1>1, <1>17, <1>18
<1>19. CASE \E r \in Request :
              \/ RejectUnknownTable(r) \/ Abandon(r) \/ NothingToExpire(r) \/ NothingToCompact(r)
              \/ SmallFileUnreadable(r) \/ GetManifestFiles(r) \/ PublishSnapshot(r) \/ PublishCleanup(r)
  BY <1>1, <1>2, <1>19 DEF Acts
<1> QED
  BY <1>16, <1>18, <1>19 DEF Next, Publish, Work

\* Only a published snapshot becomes the current one.
LEMMA CurrentStep ==
    ASSUME Serial, Always, DataInv, [Next]_vars
    PROVE  /\ \A r \in Request : PublishSnapshot(r) => table'.current = r
           /\ \A r \in Request : PublishCleanup(r) => Published("compact")' = Published("compact")
           /\ (\A r \in Request : ~PublishSnapshot(r)) => table'.current = table.current
<1>0. HistoryInv /\ Typed /\ RestTyped /\ ManifestInv /\ SerialInv /\ CatalogInv
  BY AlwaysParts DEF Always
<1>1. Work \/ UNCHANGED vars => UNCHANGED table
  BY WorkFrame
<1>2. ASSUME NEW r \in Request, PublishSnapshot(r) PROVE table'.current = r
  <2>1. /\ op[r] \in {"commit", "compact"} /\ pc[r] = "publish" /\ table' = clone[r]
    BY <1>2 DEF PublishSnapshot, Goto
  <2>2. Adds(r)
    BY <1>0, <2>1 DEF SerialInv, Progress, Cuts, InFlight, Finished
  <2> QED
    BY <2>1, <2>2 DEF Adds, Push
<1>3. ASSUME NEW r \in Request, PublishCleanup(r)
      PROVE  table'.current = table.current /\ Published("compact")' = Published("compact")
  <2>1. /\ op[r] = "cleanup" /\ pc[r] = "publish" /\ table' = clone[r] /\ UNCHANGED op
        /\ \A q \in Request \ {r} : pc'[q] = pc[q]
    BY <1>0, <1>3 DEF PublishCleanup, Goto, Typed
  <2>2. Cuts(r)
    BY <1>0, <2>1 DEF SerialInv, Progress, Adds, InFlight, Finished
  <2>3. table'.current = table.current
    BY <2>1, <2>2 DEF Cuts, Prune
  <2> QED
    BY <2>1, <2>3 DEF Published
<1> QED
  BY <1>1, <1>2, <1>3 DEF Next, Publish

LEMMA UncompactedStep == ASSUME Serial, Always, DataInv, [Next]_vars PROVE SeedUncompacted'
<1> USE CatalogAssumption
<1>1. CASE Work \/ UNCHANGED vars
  BY <1>1, WorkFrame DEF DataInv, SeedUncompacted
<1>2. CASE \E r \in Request : PublishSnapshot(r)
  BY <1>2, CurrentStep DEF SeedUncompacted
<1>3. CASE \E r \in Request : PublishCleanup(r)
  <2>1. \A r \in Request : PublishSnapshot(r) => table'.current # SeedSnapshot
    BY CurrentStep
  <2> QED
    BY <1>3, <2>1, CurrentStep DEF DataInv, SeedUncompacted
<1> QED
  BY <1>1, <1>2, <1>3 DEF Next, Publish

\* Which snapshots are listed after a step.
LEMMA ListedStep ==
    ASSUME Serial, Always, [Next]_vars, NEW id \in Ids(table)'
    PROVE  id \in Ids(table) \/ (id \in Request /\ PublishSnapshot(id))
<1>0. HistoryInv /\ SerialInv /\ CatalogInv /\ table \in Table
  BY AlwaysParts DEF Always, HistoryInv, Good
<1>1. ASSUME NEW r \in Request, Grows(r)
      PROVE  id \in Ids(table) \/ (id \in Request /\ PublishSnapshot(id))
  <2>1. \A now : Ids(Push(table, r, now)) = Ids(table) \cup {r}
    BY <1>0, PushIds
  <2>2. PICK now \in Nat : table' = Push(table, r, now)
    BY <1>1 DEF Grows
  <2>3. Ids(table)' = Ids(Push(table, r, now))
    BY <2>2 DEF Ids
  <2> QED
    BY <1>1, <2>1, <2>3 DEF Grows
<1>2. ASSUME NEW r \in Request, Shrinks(r) PROVE id \in Ids(table)
  <2>1. table' = clone[r]
    BY <1>2 DEF Shrinks, PublishCleanup
  <2>2. Ids(clone[r]) \subseteq Ids(table)
    BY <1>0, <1>2, CutsIds DEF Shrinks
  <2> QED
    BY <2>1, <2>2 DEF Ids
<1> QED
  BY <1>0, <1>1, <1>2, TableStep DEF Ids

\* Of the files of a listed snapshot that no cleanup set out to expire, only a compaction
\* that took them for input deletes any; and nothing deletes its manifest list.
LEMMA ListedKept ==
    ASSUME Serial, Always, DataInv, [Next]_vars, NEW id \in Ids(table) \ EverExpired
    PROVE  /\ \A f \in FilesOf(id) \cap (stored \ stored') :
                \E r \in Request : DeleteSmallFile(r) /\ f \in todo[r] /\ f \notin todo'[r]
           /\ id \in avro => id \in avro'
<1>0. HistoryInv /\ SerialInv /\ CatalogInv
  BY AlwaysParts DEF Always
<1>1. ASSUME NEW f \in FilesOf(id), NEW r \in Request, DeleteOrphan(r), f \in todo[r] PROVE FALSE
  <2>1. pc[r] = "purge"
    BY <1>1 DEF DeleteOrphan
  <2>2. Cuts(r) /\ todo[r] \cap entries[r] = {}
    BY <1>0, <2>1 DEF SerialInv, Progress, DataInv, Holding, InFlight, Finished
  <2>3. id \in Ids(clone[r])
    BY <1>0, <2>2, CutsIds DEF EverExpired
  <2>4. f \in entries[r]
    BY <1>1, <2>2, <2>3 DEF Cuts
  <2> QED
    BY <1>1, <2>2, <2>4
<1>2. ASSUME NEW r \in Request, DeleteManifest(r), id \in todo[r] PROVE FALSE
  <2>1. pc[r] = "expire"
    BY <1>2 DEF DeleteManifest
  <2>2. todo[r] \subseteq expired[r]
    BY <2>1 DEF DataInv, Holding, InFlight, Finished
  <2> QED
    BY <1>2, <2>2 DEF EverExpired
<1> QED
  BY <1>1, <1>2, VfsStep

LEMMA OwnDataStep == ASSUME Serial, Always, DataInv, [Next]_vars PROVE OwnDataKept'
<1> USE CatalogAssumption
<1>0. HistoryInv /\ Typed /\ RestTyped /\ ManifestInv /\ SerialInv /\ CatalogInv
  BY AlwaysParts DEF Always
<1> SUFFICES ASSUME NEW id \in Ids(table)', id \notin EverExpired', id # SeedSnapshot
             PROVE  id \in stored' /\ id \in avro'
  BY DEF OwnDataKept
<1>1. id \notin EverExpired
  BY VfsStep
<1>2. CASE id \in Ids(table)
  <2>1. id \in stored /\ id \in avro
    BY <1>1, <1>2 DEF DataInv, OwnDataKept
  <2>2. id \in DOMAIN manifests /\ id \in Request
    BY <1>0, <1>2 DEF SerialInv, ManifestsExact, ManifestInv, SnapshotId
  <2>3. FilesOf(id) = {id}
    BY <2>2 DEF FilesOf, DataInv, ManifestsAlone
  <2>4. ASSUME NEW r \in Request, DeleteSmallFile(r), id \in todo[r] PROVE FALSE
    <3>1. pc[r] = "unlink"
      BY <2>4 DEF DeleteSmallFile
    <3>2. todo[r] \subseteq SeedFile
      BY <3>1 DEF DataInv, Holding, NothingEarly, InFlight, Finished
    <3> QED
      BY <2>2, <2>4, <3>2
  <2> QED
    BY <1>1, <1>2, <2>1, <2>3, <2>4, ListedKept
<1>3. CASE id \in Request /\ PublishSnapshot(id)
  <2>1. /\ op[id] \in {"commit", "compact"} /\ pc[id] = "publish"
        /\ UNCHANGED <<stored, avro>>
    BY <1>3 DEF PublishSnapshot, Goto, vfs
  <2>2. Holding(id)
    BY <1>3, <2>1 DEF DataInv, InFlight, Finished
  <2> QED
    BY <2>1, <2>2 DEF Holding
<1> QED
  BY <1>2, <1>3, ListedStep

\* What a compaction has merged stays merged by it.
LEMMA MergedStep ==
    ASSUME Serial, Always, DataInv, [Next]_vars, NEW r \in Request, NEW f, MayHaveMerged(r, f)
    PROVE  /\ MayHaveMerged(r, f)'
           /\ pc'[r] = "done" => pc[r] = "done" \/ PublishSnapshot(r)
<1>0. HistoryInv /\ Typed /\ RestTyped /\ ManifestInv /\ SerialInv /\ CatalogInv /\ Alone
  BY AlwaysParts DEF Always, SerialInv
<1>1. op[r] = "compact" /\ f \in small[r] \ todo[r] /\ pc[r] \notin {"scan", "failed", "idle", "clone"}
  BY DEF MayHaveMerged, DataInv, NothingEarly
<1>2. ASSUME NEW q \in Request, q # r, Acts(q)
      PROVE  MayHaveMerged(r, f)' /\ pc'[r] = pc[r]
  <2>1. Aside(r)
    BY <1>0, <1>2, OthersAside
  <2> QED
    BY <1>1, <2>1 DEF Aside, MayHaveMerged
<1>3. ASSUME Acts(r)
      PROVE  /\ MayHaveMerged(r, f)'
             /\ pc'[r] = "done" => PublishSnapshot(r)
  <2>1. r \in InFlight
    BY <1>0, <1>1, <1>3, TurnOf DEF InFlight
  <2>2. pc[r] \notin {"expire", "purge", "files"}
    BY <1>0, <1>1, <2>1 DEF SerialInv, Progress, Cuts, DataInv, Holding
  <2>3. \/ Abandon(r) \/ DeleteSmallFile(r) \/ StampCompaction(r) \/ WriteManifest(r)
        \/ WriteMetadata(r) \/ PublishSnapshot(r)
    BY <1>1, <1>3, <2>2 DEF Acts, StartCommit, StartCleanup, StartCompaction, GetTable, Accept,
       RejectUnknownTable, CloneForCommit, NothingToExpire, CloneForCleanup, DeleteManifest, ListData,
       DeleteOrphan, NothingToCompact, CloneForCompaction, ReadSmallFile, SmallFileUnreadable,
       WriteCompacted, GetManifestFiles, PublishCleanup, Goto
  <2>4. /\ UNCHANGED <<op, small>> /\ todo'[r] \subseteq todo[r]
        /\ pc'[r] \notin {"scan", "failed"}
        /\ pc'[r] = "done" => PublishSnapshot(r)
    BY <1>0, <1>1, <2>3 DEF Abandon, DeleteSmallFile, StampCompaction, WriteManifest, WriteMetadata,
       PublishSnapshot, Goto, Typed, RestTyped
  <2> QED
    BY <1>1, <2>4 DEF MayHaveMerged
<1>4. CASE \/ \E g \in SeedFile : WriteParquet(g)
           \/ Tick \/ UNCHANGED vars
  <2>1. UNCHANGED <<pc, op, small, todo>>
    BY <1>4 DEF WriteParquet, Tick, vars, local
  <2> QED
    BY <1>1, <2>1 DEF MayHaveMerged
<1> QED
  BY <1>2, <1>3, <1>4 DEF Next, Publish, Work, Acts

LEMMA SeedDataStep == ASSUME Serial, Always, DataInv, [MetricsNext]_metricsVars PROVE SeedDataKept'
<1> USE CatalogAssumption
<1>0. HistoryInv /\ Typed /\ RestTyped /\ ManifestInv /\ SerialInv /\ CatalogInv
  BY AlwaysParts DEF Always
<1>1. [Next]_vars /\ uploaded' \ uploaded \subseteq stored'
  <2>1. CASE UNCHANGED metricsVars
    BY <2>1 DEF metricsVars
  <2>2. CASE \E r \in Request : AnswerCommit(r) \/ AnswerCleanup(r) \/ AnswerCompaction(r)
    BY <2>2 DEF AnswerCommit, AnswerCleanup, AnswerCompaction, Next, Publish
  <2>3. CASE Work /\ uploaded' = uploaded \cup ((stored' \ stored) \cap SeedFile)
    BY <2>3 DEF Next
  <2> QED
    BY <2>1, <2>2, <2>3 DEF MetricsNext
<1> SUFFICES ASSUME SeedSnapshot \in Ids(table)', SeedSnapshot \notin EverExpired',
                    NEW f \in SeedFile, f \in uploaded', f \notin stored'
             PROVE  \E r \in Request :
                      MayHaveMerged(r, f)' /\ (table'.current = SeedSnapshot => pc'[r] # "done")
  BY DEF SeedDataKept
<1>2. SeedSnapshot \in Ids(table) \ EverExpired
  BY <1>1, ListedStep, VfsStep
<1>3. f \in uploaded
  BY <1>1
<1>4. table'.current = SeedSnapshot =>
        table.current = SeedSnapshot /\ \A r \in Request : ~PublishSnapshot(r)
  BY <1>1, CurrentStep
<1>5. CASE f \notin stored
  <2>1. PICK r \in Request :
           MayHaveMerged(r, f) /\ (table.current = SeedSnapshot => pc[r] # "done")
    BY <1>2, <1>3, <1>5 DEF DataInv, SeedDataKept
  <2>2. /\ MayHaveMerged(r, f)'
        /\ pc'[r] = "done" => pc[r] = "done" \/ PublishSnapshot(r)
    BY <1>1, <2>1, MergedStep
  <2> QED
    BY <1>4, <2>1, <2>2
<1>6. CASE f \in stored
  <2>1. f \in FilesOf(SeedSnapshot)
    BY <1>0, <1>2 DEF SerialInv, ManifestsExact, FilesOf, DataInv, ManifestsAlone
  <2>2. PICK r \in Request : DeleteSmallFile(r) /\ f \in todo[r] /\ f \notin todo'[r]
    BY <1>1, <1>2, <1>6, <2>1, ListedKept
  <2>3. pc[r] = "unlink" /\ UNCHANGED <<pc, op, small>>
    BY <2>2 DEF DeleteSmallFile
  <2>4. op[r] = "compact" /\ todo[r] \subseteq small[r]
    BY <1>0, <2>3 DEF ManifestInv, DataInv, Holding, InFlight, Finished
  <2> QED
    BY <2>2, <2>3, <2>4 DEF MayHaveMerged
<1> QED
  BY <1>5, <1>6

LEMMA MetricsImplyCatalog == MetricsSpec => Spec
<1>1. MetricsInit => Init
  BY DEF MetricsInit
<1>2. [MetricsNext]_metricsVars => [Next]_vars
  BY DEF MetricsNext, metricsVars, AnswerCommit, AnswerCleanup, AnswerCompaction, Next, Publish
<1> QED
  BY <1>1, <1>2, PTL DEF MetricsSpec, Spec

LEMMA AlwaysDataInv == ASSUME Serial PROVE MetricsSpec => [](Always /\ DataInv)
<1>1. Spec => []Always
  BY AlwaysSerialInv DEF Always
<1>2. Always /\ DataInv /\ [MetricsNext]_metricsVars => DataInv'
  <2> SUFFICES ASSUME Always, DataInv, [MetricsNext]_metricsVars PROVE DataInv'
    OBVIOUS
  <2>1. [Next]_vars
    BY DEF MetricsNext, metricsVars, AnswerCommit, AnswerCleanup, AnswerCompaction, Next, Publish
  <2> QED
    BY <2>1, PlainStep, EarlyStep, HoldingStep, UncompactedStep, OwnDataStep, SeedDataStep DEF DataInv
<1> QED
  BY <1>1, <1>2, DataInit, MetricsImplyCatalog, PTL DEF MetricsSpec

\* One request at a time: data or a manifest list of a listed, unexpired snapshot is gone
\* only if a compaction took the data for input; of the current snapshot, only while that
\* compaction is under way or because it was dropped before it published.
THEOREM LostDataExplainedHolds == ASSUME Serial PROVE MetricsSpec => []LostDataExplained
<1> USE CatalogAssumption
<1>1. ASSUME Always, DataInv, NEW id \in Ids(table) \ EverExpired
      PROVE  /\ id = SeedSnapshot \/ id \in avro
             /\ \A f \in (FilesOf(id) \cap (uploaded \cup Request)) \ stored :
                   \E r \in Request : MayHaveMerged(r, f) /\ (id = table.current => pc[r] # "done")
  <2>1. id \in DOMAIN manifests
    BY <1>1, AlwaysParts DEF SerialInv, ManifestsExact
  <2>2. CASE id = SeedSnapshot
    <3>1. FilesOf(id) = SeedFile
      BY <1>1, <2>1, <2>2 DEF FilesOf, DataInv, ManifestsAlone
    <3> QED
      BY <1>1, <2>2, <3>1 DEF DataInv, SeedDataKept
  <2>3. CASE id # SeedSnapshot
    <3>1. FilesOf(id) = {id}
      BY <1>1, <2>1, <2>3 DEF FilesOf, DataInv, ManifestsAlone
    <3> QED
      BY <1>1, <2>3, <3>1 DEF DataInv, OwnDataKept
  <2> QED
    BY <2>2, <2>3
<1>2. Always /\ DataInv => LostDataExplained
  BY <1>1 DEF LostDataExplained
<1> QED
  BY <1>2, AlwaysDataInv, PTL

-----------------------------------------------------------------------------
(* The gauges *)

Distinct ==
    \A i, j \in 1..Len(table.snapshots) :
        table.snapshots[i].id = table.snapshots[j].id => i = j

GaugeInv ==
    /\ Distinct
    /\ IsFiniteSet(Published("commit")) /\ IsFiniteSet(Published("compact"))
    /\ GaugesExplained

LEMMA GaugeInit == MetricsInit => GaugeInv
<1> SUFFICES ASSUME MetricsInit PROVE GaugeInv
  OBVIOUS
<1>1. Published("commit") = {} /\ Published("compact") = {} /\ Merged = {}
  BY DEF MetricsInit, Init, Published, Merged
<1>2. Len(table.snapshots) = 1
  BY DEF MetricsInit, Init, SeedTable
<1>3. iceberg_snapshots = 1 /\ iceberg_data_files = 2
  BY DEF MetricsInit
<1>4. (SeedFile \cup Published("commit") \cup Published("compact")) \ Merged = SeedFile
  BY <1>1
<1> QED
  BY <1>1, <1>2, <1>3, <1>4, SeedAssumption, FS_EmptySet DEF GaugeInv, GaugesExplained, Distinct

LEMMA IdsFinite ==
    ASSUME NEW t \in Table PROVE IsFiniteSet(Ids(t))
<1> DEFINE s == t.snapshots
           f == [i \in 1..Len(s) |-> s[i].id]
<1>1. s \in Seq(Snapshot) /\ Len(s) \in Nat
  BY DEF Table
<1>2. IsFiniteSet(1..Len(s))
  BY <1>1, FS_Interval
<1>3. f \in Surjection(1..Len(s), Ids(t))
  BY DEF Ids, Surjection
<1> QED
  BY <1>2, <1>3, FS_Surjection

\* A cleanup reports as many expired snapshots as it takes from the list.
LEMMA ExpiredCount ==
    ASSUME Serial, Always, Distinct, NEW r \in Request, Shrinks(r)
    PROVE  Len(table'.snapshots) = Len(table.snapshots) - Cardinality(expired[r])
<1> DEFINE s == table.snapshots
           u == table'.snapshots
<1>0. /\ s \in Seq(Snapshot) /\ Len(s) \in Nat
      /\ expired[r] = Ids(table) \ Ids(clone[r]) /\ table' = clone[r]
  BY AlwaysParts DEF HistoryInv, Good, Table, Shrinks, PublishCleanup, Cuts
<1>1. PICK d \in 0..Len(s) :
         /\ Len(u) = Len(s) - d
         /\ \A j \in 1..(Len(s) - d) : u[j] = s[d + j]
  BY DEF Shrinks
<1> DEFINE f == [i \in 1..d |-> s[i].id]
           E == expired[r]
<1>2. Ids(clone[r]) = {s[i].id : i \in (d + 1)..Len(s)}
  <2>1. Ids(clone[r]) = {u[j].id : j \in 1..Len(u)}
    BY <1>0 DEF Ids
  <2>2. \A j \in 1..Len(u) : d + j \in (d + 1)..Len(s) /\ u[j].id = s[d + j].id
    BY <1>0, <1>1
  <2>3. \A i \in (d + 1)..Len(s) : i - d \in 1..Len(u) /\ u[i - d].id = s[i].id
    <3> SUFFICES ASSUME NEW i \in (d + 1)..Len(s)
                 PROVE  i - d \in 1..Len(u) /\ u[i - d].id = s[i].id
      OBVIOUS
    <3>1. i - d \in 1..(Len(s) - d) /\ d + (i - d) = i
      BY <1>0
    <3> QED
      BY <1>1, <3>1
  <2>4. \A id \in Ids(clone[r]) : \E i \in (d + 1)..Len(s) : s[i].id = id
    BY <2>1, <2>2
  <2>5. \A i \in (d + 1)..Len(s) : s[i].id \in Ids(clone[r])
    BY <2>1, <2>3
  <2> HIDE DEF s, u
  <2> QED
    BY <2>4, <2>5
<1>3. \A i \in 1..d : s[i].id \in Ids(table) /\ s[i].id \notin Ids(clone[r])
  <2> SUFFICES ASSUME NEW i \in 1..d PROVE s[i].id \in Ids(table) /\ s[i].id \notin Ids(clone[r])
    OBVIOUS
  <2>1. i \in 1..Len(s)
    BY <1>0
  <2>2. \A j \in (d + 1)..Len(s) : j \in 1..Len(s) /\ j # i
    BY <1>0
  <2> QED
    BY <1>2, <2>1, <2>2 DEF Distinct, Ids
<1>4. \A id \in E : \E i \in 1..d : s[i].id = id
  <2> SUFFICES ASSUME NEW id \in E PROVE \E i \in 1..d : s[i].id = id
    OBVIOUS
  <2>1. PICK i \in 1..Len(s) : s[i].id = id
    BY <1>0 DEF Ids
  <2>2. i \notin (d + 1)..Len(s)
    BY <1>0, <1>2, <2>1
  <2>3. i \in 1..d
    BY <1>0, <2>2
  <2> QED
    BY <2>1, <2>3
<1>5. \A i, j \in 1..d : f[i] = f[j] => i = j
  BY <1>0 DEF Distinct
<1>6. f \in [1..d -> E] /\ \A id \in E : \E i \in 1..d : f[i] = id
  BY <1>0, <1>3, <1>4
<1> HIDE DEF f, E
<1>7. ExistsBijection(1..d, E)
  BY <1>5, <1>6 DEF ExistsBijection, Bijection, Injection, Surjection, IsInjective
<1>8. IsFiniteSet(1..d) /\ Cardinality(1..d) = d
  BY FS_Interval
<1>9. Cardinality(E) = d
  BY <1>7, <1>8, FS_Bijection
<1> QED
  BY <1>1, <1>9 DEF E

LEMMA DistinctStep == ASSUME Serial, Always, Distinct, [Next]_vars PROVE Distinct'
<1> DEFINE s == table.snapshots
           u == table'.snapshots
<1>0. /\ s \in Seq(Snapshot) /\ Len(s) \in Nat
      /\ CatalogInv /\ SerialInv
  BY AlwaysParts DEF HistoryInv, Good, Table, Always
<1>1. ASSUME NEW r \in Request, Grows(r) PROVE Distinct'
  <2>1. PICK e : u = Append(s, e) /\ e.id = r
    BY <1>1 DEF Grows, Push
  <2>2. /\ Len(u) = Len(s) + 1
        /\ \A i \in 1..Len(s) : u[i] = s[i] /\ s[i].id # r
        /\ u[Len(s) + 1].id = r
    BY <1>0, <1>1, <2>1 DEF Grows, Ids
  <2> SUFFICES ASSUME NEW i \in 1..Len(u), NEW j \in 1..Len(u), u[i].id = u[j].id PROVE i = j
    BY DEF Distinct
  <2>3. \A k \in 1..Len(u) : k \in 1..Len(s) \/ k = Len(s) + 1
    BY <1>0, <2>2
  <2> HIDE DEF s, u
  <2>4. CASE i \in 1..Len(s) /\ j \in 1..Len(s)
    <3>1. s[i].id = s[j].id
      BY <2>2, <2>4
    <3> QED
      BY <2>4, <3>1 DEF Distinct, s
  <2> QED
    BY <2>2, <2>3, <2>4
<1>2. ASSUME NEW r \in Request, Shrinks(r) PROVE Distinct'
  <2>1. PICK d \in 0..Len(s) :
           /\ Len(u) = Len(s) - d
           /\ \A j \in 1..(Len(s) - d) : u[j] = s[d + j]
    BY <1>2 DEF Shrinks
  <2>2. \A j \in 1..Len(u) : d + j \in 1..Len(s) /\ u[j] = s[d + j]
    BY <1>0, <2>1
  <2>3. \A i, j \in 1..Len(u) : d + i = d + j => i = j
    BY <1>0, <2>1
  <2> SUFFICES ASSUME NEW i \in 1..Len(u), NEW j \in 1..Len(u), u[i].id = u[j].id PROVE i = j
    BY DEF Distinct
  <2>4. s[d + i].id = s[d + j].id
    BY <2>2
  <2>5. d + i = d + j
    BY <2>2, <2>4 DEF Distinct
  <2> QED
    BY <2>3, <2>5
<1> QED
  BY <1>0, <1>1, <1>2, TableStep DEF Distinct

LEMMA GaugeStep ==
    ASSUME Serial, Always, DataInv, GaugeInv, [MetricsNext]_metricsVars PROVE GaugeInv'
<1> USE CatalogAssumption
<1> DEFINE C == Published("commit")
           P == Published("compact")
           Counted == (SeedFile \cup C \cup P) \ Merged
<1>0. /\ HistoryInv /\ Typed /\ RestTyped /\ ManifestInv /\ SerialInv /\ CatalogInv
      /\ Len(table.snapshots) \in Nat /\ table.snapshots \in Seq(Snapshot)
  BY AlwaysParts DEF Always, HistoryInv, Good, Table
<1>1. [Next]_vars
  BY DEF MetricsNext, metricsVars, AnswerCommit, AnswerCleanup, AnswerCompaction, Next, Publish
<1>2. Distinct'
  BY <1>1, DistinctStep DEF GaugeInv
<1>3. /\ IsFiniteSet(C) /\ Cardinality(C) \in Nat
      /\ IsFiniteSet(P) /\ Cardinality(P) \in Nat
      /\ IsFiniteSet(SeedFile) /\ Cardinality(SeedFile) = 2
      /\ IsFiniteSet(Counted) /\ Cardinality(Counted) \in Nat
      /\ Merged \subseteq SeedFile
  <2>1. IsFiniteSet(C) /\ IsFiniteSet(P) /\ IsFiniteSet(SeedFile) /\ Cardinality(SeedFile) = 2
    BY SeedAssumption DEF GaugeInv
  <2>2. IsFiniteSet(SeedFile \cup C \cup P)
    BY <2>1, FS_Union
  <2>3. IsFiniteSet(Counted)
    BY <2>2, FS_Subset
  <2>4. Merged \subseteq SeedFile
    BY DEF Merged, Published, DataInv, NothingEarly
  <2> HIDE DEF C, P, Counted
  <2> QED
    BY <2>1, <2>3, <2>4, FS_CardinalityType
<1>4. /\ iceberg_snapshots = Len(table.snapshots) - Cardinality(P)
      /\ iceberg_data_files = Cardinality(Counted)
  BY DEF GaugeInv, GaugesExplained
\* Who publishes a snapshot is new among the published, and the list grows by one.
<1>5. ASSUME NEW r \in Request, PublishSnapshot(r)
      PROVE  /\ r \notin C /\ r \notin P /\ UNCHANGED <<op, small>>
             /\ Len(table'.snapshots) = Len(table.snapshots) + 1
             /\ pc[r] = "publish" /\ pc'[r] = "done"
             /\ \A q \in Request \ {r} : pc'[q] = pc[q]
  <2>1. /\ UNCHANGED <<op, small>> /\ pc[r] = "publish" /\ pc'[r] = "done" /\ table' = clone[r]
        /\ op[r] \in {"commit", "compact"}
        /\ \A q \in Request \ {r} : pc'[q] = pc[q]
    BY <1>0, <1>5 DEF PublishSnapshot, Goto, Typed
  <2>2. Adds(r)
    BY <1>0, <2>1 DEF SerialInv, Progress, Cuts, InFlight, Finished
  <2>3. PICK e : table'.snapshots = Append(table.snapshots, e)
    BY <2>1, <2>2 DEF Adds, Push
  <2>4. Len(table'.snapshots) = Len(table.snapshots) + 1
    BY <1>0, <2>3
  <2> QED
    BY <2>1, <2>4 DEF Published
<1>6. ASSUME NEW r \in Request, AnswerCommit(r) PROVE GaugeInv'
  <2>1. /\ PublishSnapshot(r) /\ op[r] = "commit"
        /\ iceberg_snapshots' = iceberg_snapshots + 1
        /\ iceberg_data_files' = iceberg_data_files + 1
    BY <1>6 DEF AnswerCommit
  <2>2. C' = C \cup {r} /\ P' = P /\ Merged' = Merged
    BY <1>5, <2>1 DEF Published, Merged
  <2>3. Counted' = Counted \cup {r} /\ r \notin Counted
    BY <1>3, <1>5, <2>1, <2>2
  <2> HIDE DEF C, P, Counted
  <2>4. Cardinality(Counted') = Cardinality(Counted) + 1 /\ IsFiniteSet(C')
    BY <1>3, <2>2, <2>3, FS_AddElement
  <2>5. /\ iceberg_snapshots' = Len(table'.snapshots) - Cardinality(P')
        /\ iceberg_data_files' = Cardinality(Counted')
    BY <1>0, <1>3, <1>4, <1>5, <2>1, <2>2, <2>4
  <2> QED
    BY <1>2, <1>3, <2>2, <2>4, <2>5 DEF GaugeInv, GaugesExplained, C, P, Counted
<1>7. ASSUME NEW r \in Request, AnswerCompaction(r) PROVE GaugeInv'
  <2>1. /\ PublishSnapshot(r) /\ op[r] = "compact"
        /\ iceberg_data_files' = iceberg_data_files - (Cardinality(small[r]) - 1)
        /\ iceberg_snapshots' = iceberg_snapshots
    BY <1>7 DEF AnswerCompaction
  <2>2. C' = C /\ P' = P \cup {r}
    BY <1>5, <2>1 DEF Published
  <2>3. small[r] = SeedFile /\ P = {}
    <3>1. Holding(r)
      BY <1>5, <2>1 DEF DataInv, InFlight, Finished
    <3>2. small[r] = SeedFile /\ table.current = SeedSnapshot
      BY <1>5, <2>1, <3>1 DEF Holding
    <3> QED
      BY <3>2 DEF DataInv, SeedUncompacted
  <2>4. Merged = {} /\ Merged' = SeedFile
    BY <1>5, <2>1, <2>2, <2>3 DEF Merged
  <2>5. C \cap SeedFile = {} /\ r \notin C /\ r \notin SeedFile
    BY <1>5, <2>1 DEF Published
  <2>6. Counted = SeedFile \cup C /\ Counted' = C \cup {r}
    BY <2>2, <2>3, <2>4, <2>5
  <2> HIDE DEF C, P, Counted
  <2>7. Cardinality(Counted) = 2 + Cardinality(C)
    <3>1. Cardinality(SeedFile \cup C) = 2 + Cardinality(C) - Cardinality(SeedFile \cap C)
      BY <1>3, FS_Union
    <3>2. Cardinality(SeedFile \cap C) = 0
      <4>1. SeedFile \cap C = {}
        BY <2>5
      <4> QED
        BY <4>1, FS_EmptySet
    <3> QED
      BY <1>3, <2>6, <3>1, <3>2
  <2>8. Cardinality(Counted') = Cardinality(C) + 1
    BY <1>3, <2>5, <2>6, FS_AddElement
  <2>9. IsFiniteSet(P') /\ Cardinality(P') = 1 /\ Cardinality(P) = 0
    <3>1. P' = {r}
      BY <2>2, <2>3
    <3>2. IsFiniteSet(P') /\ Cardinality(P') = 1
      BY <3>1, FS_Singleton
    <3>3. Cardinality(P) = 0
      BY <2>3, FS_EmptySet
    <3> QED
      BY <3>2, <3>3
  <2>10. /\ iceberg_snapshots' = Len(table'.snapshots) - Cardinality(P')
         /\ iceberg_data_files' = Cardinality(Counted')
    BY <1>0, <1>3, <1>4, <1>5, <2>1, <2>3, <2>7, <2>8, <2>9
  <2> QED
    BY <1>2, <1>3, <2>2, <2>9, <2>10 DEF GaugeInv, GaugesExplained, C, P, Counted
<1>8. ASSUME NEW r \in Request, AnswerCleanup(r) PROVE GaugeInv'
  <2>1. /\ PublishCleanup(r) /\ op[r] = "cleanup"
        /\ iceberg_snapshots' = iceberg_snapshots - Cardinality(expired[r])
        /\ iceberg_data_files' = iceberg_data_files
    BY <1>8 DEF AnswerCleanup, PublishCleanup
  <2>2. /\ UNCHANGED <<op, small>>
        /\ \A q \in Request \ {r} : pc'[q] = pc[q]
    BY <1>0, <2>1 DEF PublishCleanup, Goto, Typed
  <2>3. C' = C /\ P' = P
    BY <2>1, <2>2 DEF Published
  <2>4. Merged' = Merged
    BY <2>2, <2>3 DEF Merged
  <2>5. Counted' = Counted
    BY <2>3, <2>4
  <2>6. Shrinks(r)
    BY <1>0, <2>1, CleanupShrinks
  <2>7. Len(table'.snapshots) = Len(table.snapshots) - Cardinality(expired[r])
    BY <2>6, ExpiredCount DEF GaugeInv
  <2>8. Cardinality(expired[r]) \in Nat
    <3>1. expired[r] = Ids(table) \ Ids(clone[r])
      BY <2>6 DEF Shrinks, Cuts
    <3>2. IsFiniteSet(expired[r])
      BY <1>0, <3>1, IdsFinite, FS_Subset DEF HistoryInv, Good
    <3> QED
      BY <3>2, FS_CardinalityType
  <2> HIDE DEF C, P, Counted
  <2>9. /\ iceberg_snapshots' = Len(table'.snapshots) - Cardinality(P')
        /\ iceberg_data_files' = Cardinality(Counted')
    BY <1>0, <1>3, <1>4, <2>1, <2>3, <2>5, <2>7, <2>8
  <2> QED
    BY <1>2, <1>3, <2>3, <2>9 DEF GaugeInv, GaugesExplained, C, P, Counted
<1>9. CASE (Work /\ UNCHANGED gauges) \/ UNCHANGED metricsVars
  <2>1. /\ UNCHANGED <<table, iceberg_snapshots, iceberg_data_files>>
        /\ C' = C /\ P' = P /\ Merged' = Merged
    BY <1>9, WorkFrame DEF metricsVars, gauges
  <2> QED
    BY <1>2, <2>1 DEF GaugeInv, GaugesExplained
<1> QED
  BY <1>6, <1>7, <1>8, <1>9 DEF MetricsNext

\* One request at a time: how far the two gauges are from what they are named for.
THEOREM GaugesExplainedHolds == ASSUME Serial PROVE MetricsSpec => []GaugesExplained
<1>1. Always /\ DataInv /\ GaugeInv /\ [MetricsNext]_metricsVars => GaugeInv'
  BY GaugeStep
<1>2. MetricsSpec => []GaugeInv
  BY <1>1, GaugeInit, AlwaysDataInv, PTL DEF MetricsSpec
<1>3. GaugeInv => GaugesExplained
  BY DEF GaugeInv
<1> QED
  BY <1>2, <1>3, PTL
=============================================================================
