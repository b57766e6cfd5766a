--------------------------- MODULE CatalogMetrics ---------------------------
(***************************************************************************)
(* The catalog together with the two Prometheus gauges of telemetry.rs     *)
(* that its handlers adjust.  A gauge is never read back from the catalog: *)
(* each handler adds to it, or takes from it, what its own report says,    *)
(* once the catalog call has returned and before anything is awaited.  A   *)
(* request that is dropped inside the call leaves the gauges alone.        *)
(*                                                                         *)
(* `uploaded' is a history variable: the seed files ever written, which    *)
(* tells data that was lost from data that never was.                      *)
(***************************************************************************)
EXTENDS IcebergCatalog

VARIABLES
    iceberg_snapshots,      \* datacore_iceberg_snapshots_total
    iceberg_data_files,     \* datacore_iceberg_data_files_total
    uploaded

gauges      == <<iceberg_snapshots, iceberg_data_files>>
metricsVars == <<vars, gauges, uploaded>>

\* MetricsCollector::new assumes what IcebergCatalog::new installs.
MetricsInit ==
    /\ Init
    /\ iceberg_snapshots = 1
    /\ iceberg_data_files = 2
    /\ uploaded = {}

AnswerCommit(r) ==
    /\ op[r] = "commit"
    /\ PublishSnapshot(r)
    /\ iceberg_snapshots' = iceberg_snapshots + 1
    /\ iceberg_data_files' = iceberg_data_files + 1
    /\ UNCHANGED uploaded

AnswerCleanupDropped(r) ==                                         \* mutated form
    PublishCleanup(r) /\ UNCHANGED <<gauges, uploaded>>

AnswerCleanup(r) ==
    /\ PublishCleanup(r)
    /\ iceberg_snapshots' = iceberg_snapshots - Cardinality(expired[r])
    /\ UNCHANGED <<iceberg_data_files, uploaded>>

\* files_merged_count files became one; that there is one more snapshot is not counted.
AnswerCompaction(r) ==
    /\ op[r] = "compact"
    /\ PublishSnapshot(r)
    /\ iceberg_data_files' = iceberg_data_files - (Cardinality(small[r]) - 1)
    /\ UNCHANGED <<iceberg_snapshots, uploaded>>

MetricsNext ==
    \/ \E r \in Request : AnswerCommit(r) \/ AnswerCleanup(r) \/ AnswerCompaction(r)
    \/ /\ Work
       /\ uploaded' = uploaded \cup ((stored' \ stored) \cap SeedFile)
       /\ UNCHANGED gauges

MetricsSpec == MetricsInit /\ [][MetricsNext]_metricsVars

-----------------------------------------------------------------------------
(* Properties: one request at a time *)

Merged == UNION {small[r] : r \in Published("compact")}

\* What is left of "Current number of active snapshots" and "Total number of tracked
\* Parquet data files" (telemetry.rs): the first gauge is short by one for each
\* compaction ever answered, and exact otherwise; the second counts the files that were
\* ever published and not merged since, whether a cleanup has removed them or not.
\* Dropped, refused and empty requests leave no trace in either.
GaugesExplained ==
    /\ iceberg_snapshots = Len(table.snapshots) - Cardinality(Published("compact"))
    /\ iceberg_data_files =
         Cardinality((SeedFile \cup Published("commit") \cup Published("compact")) \ Merged)

\* Compaction r took f for input and has, or may have, deleted it.
MayHaveMerged(r, f) ==
    op[r] = "compact" /\ f \in small[r] \ todo[r] /\ pc[r] \notin {"scan", "failed"}

\* A listed snapshot that no cleanup set out to expire keeps its manifest list, and it
\* keeps the data that was ever written for it unless a compaction took that for input;
\* the current snapshot even then, unless that compaction is still under way or was
\* dropped between deleting its inputs and publishing what replaces them.
LostDataExplained ==
    \A id \in Ids(table) \ EverExpired :
        /\ id = SeedSnapshot \/ id \in avro
        /\ \A f \in (FilesOf(id) \cap (uploaded \cup Request)) \ stored :
              \E r \in Request : MayHaveMerged(r, f) /\ (id = table.current => pc[r] # "done")
=============================================================================
