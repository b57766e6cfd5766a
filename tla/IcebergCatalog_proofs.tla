----------------------- MODULE IcebergCatalog_proofs -----------------------
(***************************************************************************)
(* Proofs about IcebergCatalog, for any set of requests served at the same *)
(* time, any clock and any arguments: type correctness, that the snapshot  *)
(* list is always one line of descent ordered by age, which listed         *)
(* snapshots may lack a manifest, and what a reader of both maps gets.     *)
(***************************************************************************)
EXTENDS IcebergCatalog, FiniteSetTheorems, TLAPS

-----------------------------------------------------------------------------
(* Which positions a cleanup keeps, and what it makes of the list *)

\* A subset of 1..n that contains all that is above its elements is an interval ending at n.
LEMMA UpperSet ==
    ASSUME NEW n \in Nat, NEW K \in SUBSET (1..n),
           \A i \in K : \A j \in 1..n : i =< j => j \in K
    PROVE  /\ IsFiniteSet(K)
           /\ Cardinality(K) \in 0..n
           /\ K = (n - Cardinality(K) + 1)..n
<1>1. /\ IsFiniteSet(1..n)
      /\ Cardinality(1..n) = n
  BY FS_Interval
<1>2. /\ IsFiniteSet(K)
      /\ Cardinality(K) \in Nat
      /\ Cardinality(K) =< n
  BY <1>1, FS_Subset, FS_CardinalityType
<1> DEFINE c == Cardinality(K)
           T == (n - c + 1)..n
<1>3. K \subseteq T
  <2> SUFFICES ASSUME NEW i \in K PROVE i \in T
    OBVIOUS
  <2>1. i..n \subseteq K
    OBVIOUS
  <2>2. /\ i \in 1..n
        /\ Cardinality(i..n) = n - i + 1
    BY FS_Interval
  <2>3. Cardinality(i..n) =< c
    BY <2>1, <1>2, FS_Subset
  <2> QED
    BY <2>2, <2>3, <1>2
<1>4. /\ IsFiniteSet(T)
      /\ Cardinality(T) = c
  <2>1. /\ c \in Nat /\ c =< n
        /\ n - c + 1 \in Int /\ n \in Int
    BY <1>2
  <2> HIDE DEF c
  <2>2. /\ IsFiniteSet((n - c + 1)..n)
        /\ Cardinality((n - c + 1)..n) = IF n - c + 1 > n THEN 0 ELSE n - (n - c + 1) + 1
    BY <2>1, FS_Interval
  <2> QED
    BY <2>1, <2>2
<1>5. K = T
  BY <1>3, <1>4, FS_Subset
<1> QED
  BY <1>2, <1>5

\* The j-th smallest element of an interval.
LEMMA NthOfInterval ==
    ASSUME NEW n \in Nat, NEW c \in 0..n, NEW j \in 1..c
    PROVE  LET K == (n - c + 1)..n
           IN  (CHOOSE i \in K : Cardinality({k \in K : k =< i}) = j) = n - c + j
<1> DEFINE K == (n - c + 1)..n
           Count(i) == Cardinality({k \in K : k =< i})
<1>1. ASSUME NEW i \in K PROVE Count(i) = i - (n - c)
  <2>1. {k \in K : k =< i} = (n - c + 1)..i
    OBVIOUS
  <2>2. Cardinality((n - c + 1)..i) = i - (n - c)
    BY FS_Interval
  <2> QED
    BY <2>1, <2>2
<1> HIDE DEF Count
<1>2. n - c + j \in K /\ Count(n - c + j) = j
  <2>1. n - c + j \in K
    OBVIOUS
  <2>2. Count(n - c + j) = (n - c + j) - (n - c)
    BY <1>1, <2>1
  <2> QED
    BY <2>1, <2>2
<1>3. \A i \in K : Count(i) = j => i = n - c + j
  BY <1>1
<1>4. (CHOOSE i \in K : Count(i) = j) = n - c + j
  BY <1>2, <1>3
<1> QED
  BY <1>4 DEF Count

\* Selecting an upper set of positions leaves a suffix of the sequence.
LEMMA SelectSuffix ==
    ASSUME NEW S, NEW s \in Seq(S), NEW K \in SUBSET (1..Len(s)),
           \A i \in K : \A j \in 1..Len(s) : i =< j => j \in K
    PROVE  \E d \in 0..Len(s) :
             /\ Select(s, K) \in Seq(S)
             /\ Len(Select(s, K)) = Len(s) - d
             /\ \A j \in 1..(Len(s) - d) : Select(s, K)[j] = s[d + j]
             /\ K = (d + 1)..Len(s)
<1> DEFINE n == Len(s)
           c == Cardinality(K)
           d == n - c
<1>1. /\ n \in Nat
      /\ c \in 0..n
      /\ K = (n - c + 1)..n
  BY UpperSet
<1>2. ASSUME NEW j \in 1..c
      PROVE  (CHOOSE i \in K : Cardinality({k \in K : k =< i}) = j) = d + j
  <2> HIDE DEF n, c
  <2>1. LET I == (n - c + 1)..n
        IN  (CHOOSE i \in I : Cardinality({k \in I : k =< i}) = j) = n - c + j
    BY <1>1, NthOfInterval
  <2> QED
    BY <1>1, <2>1
<1>3. Select(s, K) = [j \in 1..c |-> s[d + j]]
  <2> DEFINE At(j) == CHOOSE i \in K : Cardinality({k \in K : k =< i}) = j
  <2>1. Select(s, K) = [j \in 1..c |-> s[At(j)]]
    BY DEF Select
  <2>2. \A j \in 1..c : At(j) = d + j
    BY <1>2
  <2> HIDE DEF At, c, d
  <2> QED
    BY <2>1, <2>2
<1>4. \A j \in 1..c : s[d + j] \in S
  BY <1>1
<1>5. /\ Select(s, K) \in Seq(S)
      /\ Len(Select(s, K)) = c
  BY <1>1, <1>3, <1>4
<1>6. /\ d \in 0..n
      /\ n - d = c
      /\ K = (d + 1)..n
  BY <1>1
<1> HIDE DEF c, d, n
<1> QED
  BY <1>3, <1>5, <1>6 DEF n

-----------------------------------------------------------------------------
(* Good tables, and the operations that preserve them *)

Good(t, now) ==
    /\ t \in Table
    /\ Linear(t)
    /\ Ordered(t)
    /\ \A i \in 1..Len(t.snapshots) : t.snapshots[i].ts =< now

LEMMA PushGood ==
    ASSUME NEW t, NEW now \in Nat, Good(t, now), NEW id \in SnapshotId
    PROVE  Good(Push(t, id, now), now)
<1> DEFINE e == [id |-> id, parent |-> t.current, ts |-> now]
           u == Push(t, id, now)
           s == t.snapshots
<1>1. /\ s \in Seq(Snapshot)
      /\ t.current \in SnapshotId
      /\ t.version \in Nat
      /\ e \in Snapshot
      /\ \A i \in 1..Len(s) : s[i] \in Snapshot
      /\ \A i \in 1..Len(s) : s[i].ts \in Nat
      /\ Len(s) \in Nat
  <2>1. t \in Table
    BY DEF Good
  <2>2. /\ s \in Seq(Snapshot)
        /\ t.current \in SnapshotId
        /\ t.version \in Nat
    BY <2>1 DEF Table
  <2>3. \A i \in 1..Len(s) : s[i] \in Snapshot
    BY <2>2
  <2>4. e \in Snapshot
    BY <2>2 DEF Snapshot
  <2> QED
    BY <2>2, <2>3, <2>4 DEF Snapshot
<1>2. /\ e.ts = now
      /\ e.id = id
      /\ e.parent = t.current
  OBVIOUS
<1>3. /\ u.snapshots = Append(s, e)
      /\ u.current = id
      /\ u.version = t.version + 1
  BY DEF Push
<1>4. u \in Table
  BY <1>1, <1>3 DEF Push, Table
<1>5. /\ \A i \in 1..Len(s) : s[i].ts =< now
      /\ Linear(t)
      /\ Ordered(t)
  BY DEF Good
<1> HIDE DEF e, u
<1>6. /\ Len(u.snapshots) = Len(s) + 1
      /\ \A i \in 1..Len(s) : u.snapshots[i] = s[i]
      /\ u.snapshots[Len(s) + 1] = e
  BY <1>1, <1>3
<1>7. Linear(u)
  <2>1. ASSUME NEW i \in 2..Len(u.snapshots)
        PROVE  u.snapshots[i].parent = u.snapshots[i-1].id
    <3>1. CASE i = Len(s) + 1
      BY <3>1, <1>1, <1>2, <1>5, <1>6 DEF Linear
    <3>2. CASE i \in 2..Len(s)
      <4>1. /\ i \in 1..Len(s)
            /\ i - 1 \in 1..Len(s)
        BY <3>2, <1>1
      <4>2. /\ u.snapshots[i] = s[i]
            /\ u.snapshots[i-1] = s[i-1]
        BY <4>1, <1>6
      <4> QED
        BY <3>2, <4>2, <1>5 DEF Linear
    <3> QED
      BY <3>1, <3>2, <1>1, <1>6
  <2> QED
    BY <2>1, <1>1, <1>2, <1>3, <1>6 DEF Linear
<1>8. \A i \in 1..Len(u.snapshots) :
        \/ i \in 1..Len(s) /\ u.snapshots[i] = s[i]
        \/ i = Len(s) + 1 /\ u.snapshots[i].ts = now
  BY <1>1, <1>2, <1>6
<1>9. /\ Ordered(u)
      /\ \A i \in 1..Len(u.snapshots) : u.snapshots[i].ts =< now
  <2>1. ASSUME NEW i \in 1..Len(u.snapshots)
        PROVE  u.snapshots[i].ts =< now
    BY <1>1, <1>5, <1>8
  <2>2. ASSUME NEW i \in 1..Len(u.snapshots), NEW j \in 1..Len(u.snapshots), i < j
        PROVE  u.snapshots[i].ts =< u.snapshots[j].ts
    <3>1. CASE j = Len(s) + 1
      BY <3>1, <2>1, <2>2, <1>1, <1>2, <1>6
    <3>2. CASE j \in 1..Len(s)
      <4>1. i \in 1..Len(s) /\ u.snapshots[i] = s[i] /\ u.snapshots[j] = s[j]
        BY <3>2, <2>2, <1>1, <1>6
      <4> QED
        BY <3>2, <4>1, <2>2, <1>5 DEF Ordered
    <3> QED
      BY <3>1, <3>2, <1>1, <1>6
  <2> QED
    BY <2>1, <2>2 DEF Ordered
<1> QED
  BY <1>4, <1>7, <1>9 DEF Good, u

LEMMA PruneGood ==
    ASSUME NEW t, NEW now \in Nat, Good(t, now), NEW n \in Nat, NEW cut \in Int
    PROVE  Good(Prune(t, n, cut), now)
<1> DEFINE s == t.snapshots
           K == KeptAt(s, n, cut)
           u == Prune(t, n, cut)
<1>1. /\ t \in Table
      /\ Linear(t)
      /\ Ordered(t)
      /\ \A i \in 1..Len(s) : s[i].ts =< now
  BY DEF Good
<1>2. /\ s \in Seq(Snapshot)
      /\ t.current \in SnapshotId
      /\ t.version \in Nat
  BY <1>1 DEF Table
<1>3. /\ \A i \in 1..Len(s) : s[i] \in Snapshot
      /\ \A i \in 1..Len(s) : s[i].ts \in Nat
  <2> HIDE DEF s
  <2>1. \A i \in 1..Len(s) : s[i] \in Snapshot
    BY <1>2
  <2> QED
    BY <2>1 DEF Snapshot
<1>4. /\ K \in SUBSET (1..Len(s))
      /\ \A i \in K : \A j \in 1..Len(s) : i =< j => j \in K
  BY <1>1, <1>2, <1>3 DEF KeptAt, Ordered
<1>5. PICK d \in 0..Len(s) :
         /\ Select(s, K) \in Seq(Snapshot)
         /\ Len(Select(s, K)) = Len(s) - d
         /\ \A j \in 1..(Len(s) - d) : Select(s, K)[j] = s[d + j]
  <2> HIDE DEF K, s
  <2> QED
    BY <1>2, <1>4, SelectSuffix
<1>6. /\ u.snapshots = Select(s, K)
      /\ u.current = t.current
      /\ u.version = t.version + 1
      /\ u = [snapshots |-> u.snapshots, current |-> u.current, version |-> u.version]
  BY DEF Prune
<1> HIDE DEF u, K
<1>7. /\ Len(s) \in Nat
      /\ Len(u.snapshots) = Len(s) - d
      /\ \A j \in 1..(Len(s) - d) : u.snapshots[j] = s[d + j]
  BY <1>2, <1>5, <1>6
<1>8. u \in Table
  BY <1>2, <1>5, <1>6 DEF Table
<1>9. Linear(u)
  <2>1. ASSUME NEW i \in 2..Len(u.snapshots)
        PROVE  u.snapshots[i].parent = u.snapshots[i-1].id
    <3>1. /\ d + i \in 2..Len(s)
          /\ u.snapshots[i] = s[d + i]
          /\ u.snapshots[i-1] = s[(d + i) - 1]
      BY <1>7
    <3> QED
      BY <3>1, <1>1 DEF Linear
  <2>2. ASSUME Len(u.snapshots) > 0
        PROVE  u.current = u.snapshots[Len(u.snapshots)].id
    <3>1. /\ Len(u.snapshots) \in 1..(Len(s) - d)
          /\ d + Len(u.snapshots) = Len(s)
          /\ Len(s) > 0
      BY <2>2, <1>7
    <3>2. u.snapshots[Len(u.snapshots)] = s[Len(s)]
      BY <3>1, <1>7
    <3> QED
      BY <3>1, <3>2, <1>1, <1>6 DEF Linear
  <2> QED
    BY <2>1, <2>2 DEF Linear
<1>10. /\ Ordered(u)
       /\ \A i \in 1..Len(u.snapshots) : u.snapshots[i].ts =< now
  <2>1. \A i \in 1..Len(u.snapshots) : d + i \in 1..Len(s) /\ u.snapshots[i] = s[d + i]
    BY <1>7
  <2>2. \A i, j \in 1..Len(u.snapshots) : i < j => d + i < d + j
    BY <1>7
  <2>3. ASSUME NEW i \in 1..Len(u.snapshots), NEW j \in 1..Len(u.snapshots), i < j
        PROVE  u.snapshots[i].ts =< u.snapshots[j].ts
    BY <2>1, <2>2, <2>3, <1>1 DEF Ordered
  <2> QED
    BY <2>1, <2>3, <1>1 DEF Ordered
<1> QED
  BY <1>8, <1>9, <1>10 DEF Good, u

-----------------------------------------------------------------------------
(* The inductive invariant: the table and every task's clone are good.  Tasks *)
(* publish stale clones over each other, but never a clone that is not good.  *)

Typed ==
    /\ clock \in Nat
    /\ pc \in [Request -> Phase]
    /\ op \in [Request -> {"none", "commit", "cleanup", "compact", "get"}]
    /\ cutoff \in [Request -> Int]
    /\ clone \in [Request -> Table]

HistoryInv ==
    /\ Typed
    /\ Good(table, clock)
    /\ \A r \in Request : Good(clone[r], clock)

LEMMA SeedGood == Good(SeedTable, 0)
<1>1. /\ SeedTable.snapshots = <<[id |-> SeedSnapshot, parent |-> NoSnapshot, ts |-> 0]>>
      /\ SeedTable.current = SeedSnapshot
      /\ SeedTable.version = 1
  BY DEF SeedTable
<1>2. SeedTable \in Table
  BY DEF SeedTable, Table, Snapshot, SnapshotId
<1>3. /\ Len(SeedTable.snapshots) = 1
      /\ SeedTable.snapshots[1].id = SeedSnapshot
      /\ SeedTable.snapshots[1].ts = 0
  BY <1>1
<1> QED
  BY <1>1, <1>2, <1>3 DEF Good, Linear, Ordered

LEMMA HistoryInit == Init => HistoryInv
  BY SeedGood DEF Init, HistoryInv, Typed, Phase, Good

\* A task whose clone is left alone or replaced by a good table preserves the invariant.
LEMMA HistoryStep == HistoryInv /\ [Next]_vars => HistoryInv'
<1> SUFFICES ASSUME HistoryInv, [Next]_vars PROVE HistoryInv'
  OBVIOUS
<1> USE CatalogAssumption DEF HistoryInv
\* Time passing keeps every table good.
<1>1. ASSUME NEW t, NEW now \in Nat, NEW later \in Nat, now =< later, Good(t, now)
      PROVE  Good(t, later)
  <2>1. t.snapshots \in Seq(Snapshot)
    BY <1>1 DEF Good, Table
  <2>2. \A i \in 1..Len(t.snapshots) : t.snapshots[i] \in Snapshot
    BY <2>1
  <2>3. \A i \in 1..Len(t.snapshots) : t.snapshots[i].ts \in Nat
    BY <2>2 DEF Snapshot
  <2> QED
    BY <1>1, <2>3 DEF Good
<1>2. ASSUME NEW r \in Request, UNCHANGED <<table, clock>>, Typed',
             NEW t, Good(t, clock), clone' = [clone EXCEPT ![r] = t]
      PROVE  HistoryInv'
  BY <1>2 DEF Typed
<1>3. ASSUME NEW r \in Request, UNCHANGED <<clone, clock>>, Typed', table' = clone[r]
      PROVE  HistoryInv'
  BY <1>3
<1>4. ASSUME UNCHANGED <<table, clone, clock>>, Typed'
      PROVE  HistoryInv'
  BY <1>4
<1>5. ASSUME NEW r \in Request, StartCleanup(r) PROVE HistoryInv'
  <2>1. PICK age \in AgeChoice : cutoff' = [cutoff EXCEPT ![r] = clock - age]
    BY <1>5 DEF StartCleanup
  <2>2. clock - age \in Int
    BY DEF Typed
  <2> QED
    BY <1>4, <1>5, <2>1, <2>2 DEF StartCleanup, Accept, Goto, Typed, Phase
<1>6. ASSUME NEW r \in Request,
             \/ StartCommit(r) \/ StartCompaction(r) \/ RejectUnknownTable(r) \/ Abandon(r)
             \/ NothingToExpire(r) \/ ListData(r) \/ NothingToCompact(r) \/ SmallFileUnreadable(r)
             \/ WriteCompacted(r) \/ WriteManifest(r) \/ WriteMetadata(r) \/ GetManifestFiles(r)
      PROVE  HistoryInv'
  <2>1. Typed'
    BY <1>6 DEF StartCommit, StartCompaction, RejectUnknownTable, Abandon, NothingToExpire, ListData,
                NothingToCompact, SmallFileUnreadable, WriteCompacted, WriteManifest, WriteMetadata,
                GetManifestFiles, Accept, Goto, Typed, Phase, Finished
  <2>2. UNCHANGED <<table, clone, clock>>
    BY <1>6 DEF StartCommit, StartCompaction, RejectUnknownTable, Abandon, NothingToExpire, ListData,
                NothingToCompact, SmallFileUnreadable, WriteCompacted, WriteManifest, WriteMetadata,
                GetManifestFiles
  <2> QED
    BY <1>4, <2>1, <2>2
<1>7. ASSUME NEW r \in Request,
             \/ DeleteManifest(r) \/ DeleteOrphan(r) \/ ReadSmallFile(r) \/ DeleteSmallFile(r)
      PROVE  HistoryInv'
  BY <1>4, <1>7 DEF DeleteManifest, DeleteOrphan, ReadSmallFile, DeleteSmallFile, Typed
<1>8. ASSUME NEW r \in Request, CloneForCommit(r) PROVE HistoryInv'
  <2>1. Good(Push(table, r, clock), clock)
    BY PushGood DEF Typed, SnapshotId
  <2>2. Typed'
    BY <1>8, <2>1 DEF CloneForCommit, Goto, Typed, Phase, Good
  <2> QED
    BY <1>2, <1>8, <2>1, <2>2 DEF CloneForCommit
<1>9. ASSUME NEW r \in Request, CloneForCleanup(r) PROVE HistoryInv'
  <2>1. PICK n \in RetainChoice :
          clone' = [clone EXCEPT ![r] = Prune(table, n, cutoff[r])]
    BY <1>9 DEF CloneForCleanup
  <2>2. Good(Prune(table, n, cutoff[r]), clock)
    BY PruneGood DEF Typed
  <2>3. Typed'
    BY <1>9, <2>1, <2>2 DEF CloneForCleanup, Goto, Typed, Phase, Good
  <2> QED
    BY <1>2, <1>9, <2>1, <2>2, <2>3 DEF CloneForCleanup
<1>10. ASSUME NEW r \in Request, CloneForCompaction(r) PROVE HistoryInv'
  <2>1. Typed'
    BY <1>10 DEF CloneForCompaction, Goto, Typed, Phase, Good
  <2> QED
    BY <1>2, <1>10, <2>1 DEF CloneForCompaction
<1>11. ASSUME NEW r \in Request, GetTable(r) PROVE HistoryInv'
  <2>1. Typed'
    BY <1>11 DEF GetTable, Accept, Goto, Typed, Phase, Good
  <2> QED
    BY <1>2, <1>11, <2>1 DEF GetTable
<1>12. ASSUME NEW r \in Request, StampCompaction(r) PROVE HistoryInv'
  <2>1. Good(Push(clone[r], r, clock), clock)
    BY PushGood DEF Typed, SnapshotId
  <2>2. Typed'
    BY <1>12, <2>1 DEF StampCompaction, Goto, Typed, Phase, Good
  <2> QED
    BY <1>2, <1>12, <2>1, <2>2 DEF StampCompaction, Typed
<1>13. ASSUME NEW r \in Request, PublishSnapshot(r) \/ PublishCleanup(r) PROVE HistoryInv'
  <2>1. Typed'
    BY <1>13 DEF PublishSnapshot, PublishCleanup, Goto, Typed, Phase, Finished
  <2> QED
    BY <1>3, <1>13, <2>1 DEF PublishSnapshot, PublishCleanup
<1>14. ASSUME NEW f \in SeedFile, WriteParquet(f) PROVE HistoryInv'
  BY <1>4, <1>14 DEF WriteParquet, local, Typed
<1>15. CASE Tick
  <2>1. /\ clock \in Nat
        /\ clock' = clock + 1
        /\ UNCHANGED <<table, clone, pc, op, cutoff>>
    BY <1>15 DEF Tick, Typed, local
  <2>2. /\ clock' \in Nat
        /\ clock =< clock'
    BY <2>1
  <2>3. /\ Good(table, clock')
        /\ \A r \in Request : Good(clone[r], clock')
    BY <1>1, <2>1, <2>2
  <2>4. Typed'
    BY <2>1, <2>2 DEF Typed
  <2> QED
    BY <2>1, <2>3, <2>4
<1>16. CASE UNCHANGED vars
  BY <1>4, <1>16 DEF vars, local, Typed
<1> QED
  BY <1>5, <1>6, <1>7, <1>8, <1>9, <1>10, <1>11, <1>12, <1>13, <1>14, <1>15, <1>16 DEF Next, Publish, Work

\* The snapshots the catalog lists are one line of descent that ends in the
\* current one, however commits, compactions, cleanups and abandoned requests overlap.
THEOREM LinearHistoryHolds == Spec => []LinearHistory
<1>1. HistoryInv => LinearHistory
  BY DEF HistoryInv, Good, LinearHistory
<1> QED
  BY <1>1, HistoryInit, HistoryStep, PTL DEF Spec

\* That line is ordered by age, so that expiring by age can only cut its oldest end.
THEOREM TimeOrderedHolds == Spec => []TimeOrdered
<1>1. HistoryInv => TimeOrdered
  BY DEF HistoryInv, Good, TimeOrdered
<1> QED
  BY <1>1, HistoryInit, HistoryStep, PTL DEF Spec

-----------------------------------------------------------------------------
(* Type correctness *)

Rest == <<manifests, stored, avro, metadata, entries, small, todo, expired>>

RestTyped ==
    /\ DOMAIN manifests \subseteq SnapshotId
    /\ manifests \in [DOMAIN manifests -> SUBSET File]
    /\ stored \subseteq File
    /\ avro \subseteq SnapshotId
    /\ DOMAIN metadata \subseteq Nat
    /\ metadata \in [DOMAIN metadata -> Table]
    /\ entries \in [Request -> SUBSET File]
    /\ small \in [Request -> SUBSET File]
    /\ todo \in [Request -> SUBSET (File \cup SnapshotId)]
    /\ expired \in [Request -> SUBSET SnapshotId]

LEMMA FilesOfType == RestTyped => \A id : FilesOf(id) \in SUBSET File
  BY DEF RestTyped, FilesOf

LEMMA IdsType == ASSUME NEW t \in Table PROVE Ids(t) \subseteq SnapshotId
<1>1. t.snapshots \in Seq(Snapshot)
  BY DEF Table
<1>2. \A i \in 1..Len(t.snapshots) : t.snapshots[i] \in Snapshot
  BY <1>1
<1> QED
  BY <1>2 DEF Ids, Snapshot

LEMMA RestInit == Init => RestTyped
  BY DEF Init, RestTyped, SnapshotId, File

LEMMA RestStep == HistoryInv /\ RestTyped /\ [Next]_vars => RestTyped'
<1> SUFFICES ASSUME HistoryInv, RestTyped, [Next]_vars PROVE RestTyped'
  OBVIOUS
<1>1. /\ \A r \in Request : r \in File /\ r \in SnapshotId
      /\ \A f \in SeedFile : f \in File
      /\ \A r \in Request : clone[r] \in Table /\ clone[r].version \in Nat
      /\ \A id : FilesOf(id) \in SUBSET File
  BY FilesOfType DEF File, SnapshotId, HistoryInv, Typed, Table
<1>2. ASSUME UNCHANGED Rest PROVE RestTyped'
  BY <1>2 DEF Rest, RestTyped
<1>3. ASSUME NEW r \in Request,
             \/ StartCleanup(r) \/ StartCompaction(r) \/ RejectUnknownTable(r) \/ Abandon(r)
             \/ CloneForCommit(r) \/ NothingToExpire(r) \/ NothingToCompact(r)
             \/ SmallFileUnreadable(r) \/ StampCompaction(r) \/ GetTable(r)
      PROVE  RestTyped'
  BY <1>2, <1>3 DEF StartCleanup, StartCompaction, RejectUnknownTable, Abandon, CloneForCommit,
     NothingToExpire, NothingToCompact, SmallFileUnreadable, StampCompaction, GetTable, vfs, Rest
<1>4. ASSUME NEW r \in Request, StartCommit(r) PROVE RestTyped'
  BY <1>1, <1>4 DEF StartCommit, RestTyped
<1>5. ASSUME NEW r \in Request, CloneForCleanup(r) PROVE RestTyped'
  <2>1. PICK n \in RetainChoice :
          LET pruned == Prune(table, n, cutoff[r])
              gone   == Ids(table) \ Ids(pruned)
          IN  /\ entries' = [entries EXCEPT ![r] = UNION {FilesOf(id) : id \in Ids(pruned)}]
              /\ expired' = [expired EXCEPT ![r] = gone]
              /\ todo' = [todo EXCEPT ![r] = gone]
    BY <1>5 DEF CloneForCleanup
  <2>2. /\ Ids(table) \subseteq SnapshotId
        /\ UNION {FilesOf(id) : id \in Ids(Prune(table, n, cutoff[r]))} \subseteq File
    BY <1>1, IdsType DEF HistoryInv, Good
  <2>3. UNCHANGED <<manifests, stored, avro, metadata, small>>
    BY <1>5 DEF CloneForCleanup, vfs
  <2> QED
    BY <2>1, <2>2, <2>3 DEF RestTyped
<1>6. ASSUME NEW r \in Request, DeleteManifest(r) \/ DeleteOrphan(r) \/ DeleteSmallFile(r)
      PROVE  RestTyped'
  BY <1>6 DEF DeleteManifest, DeleteOrphan, DeleteSmallFile, RestTyped
<1>7. ASSUME NEW r \in Request, ListData(r) PROVE RestTyped'
  BY <1>7 DEF ListData, Orphans, vfs, RestTyped
<1>8. ASSUME NEW r \in Request, CloneForCompaction(r) PROVE RestTyped'
  <2>1. PICK bytes \in Threshold :
          LET S == SmallFiles(bytes)
          IN  /\ small' = [small EXCEPT ![r] = S]
              /\ todo' = [todo EXCEPT ![r] = S]
              /\ entries' = [entries EXCEPT ![r] = (FilesOf(table.current) \ S) \cup {r}]
    BY <1>8 DEF CloneForCompaction
  <2>2. SmallFiles(bytes) \subseteq File
    BY <1>1 DEF SmallFiles
  <2>3. UNCHANGED <<manifests, stored, avro, metadata, expired>>
    BY <1>8 DEF CloneForCompaction, vfs
  <2> QED
    BY <1>1, <2>1, <2>2, <2>3 DEF RestTyped
<1>9. ASSUME NEW r \in Request, ReadSmallFile(r) \/ WriteCompacted(r) PROVE RestTyped'
  BY <1>1, <1>9 DEF ReadSmallFile, WriteCompacted, vfs, RestTyped
<1>10. ASSUME NEW r \in Request, WriteManifest(r) \/ GetManifestFiles(r) PROVE RestTyped'
  BY <1>1, <1>10 DEF WriteManifest, GetManifestFiles, vfs, RestTyped
<1>11. ASSUME NEW r \in Request, WriteMetadata(r) PROVE RestTyped'
  BY <1>1, <1>11 DEF WriteMetadata, MetadataVersion, Put, RestTyped
<1>12. ASSUME NEW r \in Request, PublishSnapshot(r) \/ PublishCleanup(r) PROVE RestTyped'
  BY <1>1, <1>12 DEF PublishSnapshot, PublishCleanup, Put, Without, vfs, RestTyped
<1>13. ASSUME NEW f \in SeedFile, WriteParquet(f) PROVE RestTyped'
  BY <1>1, <1>13 DEF WriteParquet, local, RestTyped
<1>14. CASE Tick \/ UNCHANGED vars
  BY <1>2, <1>14 DEF Tick, vars, vfs, local, Rest
<1> QED
  BY <1>3, <1>4, <1>5, <1>6, <1>7, <1>8, <1>9, <1>10, <1>11, <1>12, <1>13, <1>14 DEF Next, Publish, Work

\* No reachable state leaves the types of the Rust values.
THEOREM TypeCorrect == Spec => []TypeOK
<1>1. HistoryInv /\ RestTyped => TypeOK
  BY DEF HistoryInv, Typed, Good, RestTyped, TypeOK
<1> QED
  BY <1>1, RestInit, HistoryInit, HistoryStep, RestStep, PTL DEF Spec

-----------------------------------------------------------------------------
(* Where the manifests are, however many requests overlap *)

\* A cleanup keeps the end of the list; all it leaves out is older than the cutoff.
LEMMA PruneCuts ==
    ASSUME NEW t, NEW now \in Nat, Good(t, now), NEW n \in Nat, NEW cut \in Int
    PROVE  LET s == t.snapshots
               u == Prune(t, n, cut).snapshots
           IN  \E d \in 0..Len(s) :
                 /\ u \in Seq(Snapshot)
                 /\ Len(u) = Len(s) - d
                 /\ \A j \in 1..(Len(s) - d) : u[j] = s[d + j]
                 /\ \A i \in 1..d : s[i].ts < cut
<1> DEFINE s == t.snapshots
           K == KeptAt(s, n, cut)
<1>1. /\ s \in Seq(Snapshot)
      /\ Ordered(t)
  BY DEF Good, Table
<1>2. \A i \in 1..Len(s) : s[i].ts \in Nat
  <2>1. \A i \in 1..Len(s) : s[i] \in Snapshot
    BY <1>1
  <2> QED
    BY <2>1 DEF Snapshot
<1>3. /\ K \in SUBSET (1..Len(s))
      /\ \A i \in K : \A j \in 1..Len(s) : i =< j => j \in K
  BY <1>1, <1>2 DEF KeptAt, Ordered
<1>4. PICK d \in 0..Len(s) :
         /\ Select(s, K) \in Seq(Snapshot)
         /\ Len(Select(s, K)) = Len(s) - d
         /\ \A j \in 1..(Len(s) - d) : Select(s, K)[j] = s[d + j]
         /\ K = (d + 1)..Len(s)
  <2> HIDE DEF K, s
  <2> QED
    BY <1>1, <1>3, SelectSuffix
<1>5. \A i \in 1..d : s[i].ts < cut
  <2> SUFFICES ASSUME NEW i \in 1..d PROVE s[i].ts < cut
    OBVIOUS
  <2>1. i \in 1..Len(s) /\ i \notin K
    BY <1>1, <1>4
  <2> QED
    BY <2>1, <1>2 DEF KeptAt
<1>6. Prune(t, n, cut).snapshots = Select(s, K)
  BY DEF Prune
<1> HIDE DEF K
<1> QED
  BY <1>4, <1>5, <1>6

LEMMA PruneIds ==
    ASSUME NEW t, NEW now \in Nat, Good(t, now), NEW n \in Nat, NEW cut \in Int
    PROVE  Ids(Prune(t, n, cut)) \subseteq Ids(t)
<1> DEFINE s == t.snapshots
           u == Prune(t, n, cut).snapshots
<1>1. s \in Seq(Snapshot)
  BY DEF Good, Table
<1>2. PICK d \in 0..Len(s) :
         /\ u \in Seq(Snapshot)
         /\ Len(u) = Len(s) - d
         /\ \A j \in 1..(Len(s) - d) : u[j] = s[d + j]
         /\ \A i \in 1..d : s[i].ts < cut
  BY PruneCuts, Zenon
<1>3. \A j \in 1..Len(u) : d + j \in 1..Len(s) /\ u[j] = s[d + j]
  BY <1>1, <1>2
<1> QED
  BY <1>3 DEF Ids

LEMMA PushIds ==
    ASSUME NEW t \in Table, NEW id, NEW ts
    PROVE  Ids(Push(t, id, ts)) = Ids(t) \cup {id}
<1> DEFINE s == t.snapshots
           e == [id |-> id, parent |-> t.current, ts |-> ts]
<1>1. s \in Seq(Snapshot)
  BY DEF Table
<1>2. Push(t, id, ts).snapshots = Append(s, e)
  BY DEF Push
<1>3. e.id = id
  OBVIOUS
<1> HIDE DEF s, e
<1>4. /\ Len(Append(s, e)) = Len(s) + 1
      /\ Len(s) \in Nat
      /\ \A i \in 1..Len(s) : Append(s, e)[i] = s[i]
      /\ Append(s, e)[Len(s) + 1] = e
  BY <1>1
<1> QED
  BY <1>2, <1>3, <1>4 DEF Ids, s

LEMMA NewestIn ==
    ASSUME NEW t \in Table
    PROVE  NewestId(t) = NoSnapshot \/ NewestId(t) \in Ids(t)
<1>1. t.snapshots \in Seq(Snapshot)
  BY DEF Table
<1>2. t.snapshots # <<>> => Len(t.snapshots) \in 1..Len(t.snapshots)
  BY <1>1
<1> QED
  BY <1>2 DEF NewestId, Ids

ExpiredByNow == UNION {expired[q] : q \in Published("cleanup")}
Known == DOMAIN manifests \cup ExpiredByNow
Own(r) == IF op[r] \in {"commit", "compact"} THEN {r} ELSE {}

\* A manifest appears when its snapshot is published and goes when a cleanup is; a task
\* knows no snapshot but those and the one it makes itself.
ManifestInv ==
    /\ \A r \in Request : pc[r] = "idle" => op[r] = "none"
    /\ \A r \in Request : pc[r] \in {"scan", "unlink"} => op[r] = "compact"
    /\ \A r \in Request : r \in DOMAIN manifests => pc[r] = "done"
    /\ DOMAIN manifests \subseteq SnapshotId
    /\ Ids(table) \subseteq Known
    /\ \A r \in Request : Ids(clone[r]) \subseteq Known \cup Own(r)
    /\ ReadSeesItsSnapshot

LEMMA ManifestInit == Init => ManifestInv
<1> SUFFICES ASSUME Init PROVE ManifestInv
  OBVIOUS
<1> USE CatalogAssumption
<1>1. SeedTable \in Table /\ Ids(SeedTable) = {SeedSnapshot}
  <2>1. /\ SeedTable.snapshots = <<[id |-> SeedSnapshot, parent |-> NoSnapshot, ts |-> 0]>>
        /\ Len(SeedTable.snapshots) = 1
        /\ SeedTable.snapshots[1].id = SeedSnapshot
    BY DEF SeedTable
  <2> QED
    BY <2>1, SeedGood DEF Ids, Good
<1>2. DOMAIN manifests = {SeedSnapshot}
  BY DEF Init
<1>3. Published("get") = {}
  BY DEF Init, Published
<1> QED
  BY <1>1, <1>2, <1>3 DEF Init, ManifestInv, Known, SnapshotId, ReadSeesItsSnapshot

LEMMA ManifestStep == HistoryInv /\ RestTyped /\ ManifestInv /\ [Next]_vars => ManifestInv'
<1> SUFFICES ASSUME HistoryInv, RestTyped, ManifestInv, [Next]_vars PROVE ManifestInv'
  OBVIOUS
<1> USE CatalogAssumption
<1> DEFINE Others(r) == \A q \in Request \ {r} :
              /\ pc'[q] = pc[q] /\ op'[q] = op[q] /\ clone'[q] = clone[q]
              /\ entries'[q] = entries[q] /\ expired'[q] = expired[q]
\* A request that is not yet done, and makes no change to the catalog maps.
<1>1. ASSUME NEW r \in Request, Others(r), pc[r] # "done", pc'[r] # "idle",
             UNCHANGED <<table, manifests>>,
             pc'[r] \in {"scan", "unlink"} => op'[r] = "compact",
             Ids(clone'[r]) \subseteq Known \cup (IF op'[r] \in {"commit", "compact"} THEN {r} ELSE {}),
             pc'[r] = "done" /\ op'[r] = "get" => entries'[r] = FilesOf(NewestId(clone'[r]))
      PROVE  ManifestInv'
  <2>1. ExpiredByNow \subseteq ExpiredByNow'
    BY <1>1 DEF ExpiredByNow, Published
  <2>2. Known \subseteq Known'
    BY <1>1, <2>1 DEF Known
  <2>3. \A q \in Request : Ids(clone'[q]) \subseteq Known' \cup (Own(q))'
    BY <1>1, <2>2 DEF ManifestInv, Own
  <2>4. ReadSeesItsSnapshot'
    <3> SUFFICES ASSUME NEW q \in Published("get")'
                 PROVE  \/ entries'[q] = FilesOf(NewestId(clone'[q]))
                        \/ NewestId(clone'[q]) \in ExpiredByNow'
      BY <1>1 DEF ReadSeesItsSnapshot, ExpiredByNow, FilesOf
    <3>1. CASE q = r
      BY <3>1, <1>1 DEF Published
    <3>2. CASE q # r
      <4>1. q \in Published("get") /\ entries'[q] = entries[q] /\ clone'[q] = clone[q]
        BY <3>2, <1>1 DEF Published
      <4> QED
        BY <4>1, <2>1 DEF ManifestInv, ReadSeesItsSnapshot, ExpiredByNow
    <3> QED
      BY <3>1, <3>2
  <2> QED
    BY <1>1, <2>2, <2>3, <2>4 DEF ManifestInv
<1>2. ASSUME NEW r \in Request,
             \/ StartCommit(r) \/ StartCleanup(r) \/ StartCompaction(r)
             \/ RejectUnknownTable(r) \/ Abandon(r) \/ NothingToExpire(r) \/ ListData(r)
             \/ NothingToCompact(r) \/ SmallFileUnreadable(r) \/ WriteCompacted(r)
             \/ WriteManifest(r) \/ WriteMetadata(r)
             \/ DeleteManifest(r) \/ DeleteOrphan(r) \/ ReadSmallFile(r) \/ DeleteSmallFile(r)
      PROVE  ManifestInv'
  <2> USE DEF StartCommit, StartCleanup, StartCompaction, RejectUnknownTable, Abandon, NothingToExpire,
              ListData, NothingToCompact, SmallFileUnreadable, WriteCompacted, WriteManifest,
              WriteMetadata, DeleteManifest, DeleteOrphan, ReadSmallFile, DeleteSmallFile
  <2>1. Others(r) /\ UNCHANGED <<table, manifests, clone>>
    BY <1>2 DEF Accept, Goto, HistoryInv, Typed, RestTyped
  <2>2. /\ pc[r] # "done" /\ pc'[r] # "idle"
        /\ pc'[r] = "done" => op'[r] = "cleanup"
        /\ pc'[r] \in {"scan", "unlink"} => op'[r] = "compact"
    BY <1>2 DEF Accept, Goto, HistoryInv, Typed, RestTyped, InFlight, Finished, ManifestInv
  <2>3. op'[r] = op[r] \/ op[r] = "none"
    BY <1>2 DEF Accept, Goto, HistoryInv, Typed, RestTyped, ManifestInv
  <2>4. Ids(clone[r]) \subseteq Known \cup (IF op'[r] \in {"commit", "compact"} THEN {r} ELSE {})
    BY <2>3 DEF ManifestInv, Own
  <2> HIDE DEF StartCommit, StartCleanup, StartCompaction, RejectUnknownTable, Abandon, NothingToExpire,
              ListData, NothingToCompact, SmallFileUnreadable, WriteCompacted, WriteManifest,
              WriteMetadata, DeleteManifest, DeleteOrphan, ReadSmallFile, DeleteSmallFile, Others
  <2> QED
    BY <1>1, <2>1, <2>2, <2>4
<1>3. ASSUME NEW r \in Request, CloneForCommit(r) PROVE ManifestInv'
  <2>1. /\ Others(r) /\ UNCHANGED <<table, manifests, op>>
        /\ pc[r] = "clone" /\ pc'[r] = "manifest" /\ op[r] = "commit"
        /\ clone'[r] = Push(table, r, clock)
    BY <1>3 DEF CloneForCommit, Goto, HistoryInv, Typed, RestTyped
  <2>2. Ids(clone'[r]) \subseteq Known \cup {r}
    BY <2>1, PushIds DEF HistoryInv, Good, ManifestInv
  <2> HIDE DEF Others
  <2> QED
    BY <1>1, <2>1, <2>2
<1>4. ASSUME NEW r \in Request, CloneForCleanup(r) PROVE ManifestInv'
  <2>1. PICK n \in RetainChoice : clone' = [clone EXCEPT ![r] = Prune(table, n, cutoff[r])]
    BY <1>4 DEF CloneForCleanup
  <2>2. /\ Others(r) /\ UNCHANGED <<table, manifests, op>>
        /\ pc[r] = "clone" /\ pc'[r] = "expire"
        /\ clone'[r] = Prune(table, n, cutoff[r])
    BY <1>4, <2>1 DEF CloneForCleanup, Goto, HistoryInv, Typed, RestTyped
  <2>3. Ids(clone'[r]) \subseteq Known
    BY <2>2, PruneIds DEF HistoryInv, Typed, ManifestInv
  <2> HIDE DEF Others
  <2> QED
    BY <1>1, <2>2, <2>3
<1>5. ASSUME NEW r \in Request, CloneForCompaction(r) \/ GetTable(r) PROVE ManifestInv'
  <2>1. /\ Others(r) /\ UNCHANGED <<table, manifests>>
        /\ pc[r] \in {"clone", "idle"} /\ pc'[r] \in {"scan", "files"}
        /\ pc'[r] = "scan" => op'[r] = "compact"
        /\ clone'[r] = table
    BY <1>5 DEF CloneForCompaction, GetTable, Accept, Goto, HistoryInv, Typed, RestTyped
  <2>2. Ids(clone'[r]) \subseteq Known
    BY <2>1 DEF ManifestInv
  <2> HIDE DEF Others
  <2> QED
    BY <1>1, <2>1, <2>2
<1>6. ASSUME NEW r \in Request, StampCompaction(r) PROVE ManifestInv'
  <2>1. /\ Others(r) /\ UNCHANGED <<table, manifests, op>>
        /\ pc[r] = "unlink" /\ pc'[r] = "manifest"
        /\ clone'[r] = Push(clone[r], r, clock)
        /\ op[r] = "compact" /\ clone[r] \in Table
    BY <1>6 DEF StampCompaction, Goto, HistoryInv, Typed, RestTyped, ManifestInv
  <2>2. Ids(clone'[r]) \subseteq Known \cup {r}
    BY <2>1, PushIds DEF ManifestInv, Own
  <2> HIDE DEF Others
  <2> QED
    BY <1>1, <2>1, <2>2
<1>7. ASSUME NEW r \in Request, GetManifestFiles(r) PROVE ManifestInv'
  <2>1. /\ Others(r) /\ UNCHANGED <<table, manifests, op, clone>>
        /\ pc[r] = "files" /\ pc'[r] = "done"
        /\ entries'[r] = FilesOf(NewestId(clone[r]))
    BY <1>7 DEF GetManifestFiles, Goto, HistoryInv, Typed, RestTyped
  <2>2. Ids(clone'[r]) \subseteq Known \cup (IF op'[r] \in {"commit", "compact"} THEN {r} ELSE {})
    BY <2>1 DEF ManifestInv, Own
  <2> HIDE DEF Others
  <2> QED
    BY <1>1, <2>1, <2>2
\* The two steps that change the catalog maps.
<1>8. ASSUME NEW r \in Request, PublishSnapshot(r) PROVE ManifestInv'
  <2>1. /\ Others(r) /\ UNCHANGED <<op, clone, expired, entries>>
        /\ op[r] \in {"commit", "compact"} /\ pc[r] = "publish" /\ pc'[r] = "done"
        /\ table' = clone[r] /\ DOMAIN manifests' = DOMAIN manifests \cup {r}
        /\ \A id \in DOMAIN manifests \ {r} : manifests'[id] = manifests[id]
    BY <1>8 DEF PublishSnapshot, Put, Goto, HistoryInv, Typed, RestTyped
  <2>2. ExpiredByNow \subseteq ExpiredByNow'
    BY <2>1 DEF ExpiredByNow, Published
  <2>3. Known \cup {r} \subseteq Known'
    BY <2>1, <2>2 DEF Known
  <2>4. /\ Ids(table') \subseteq Known'
        /\ \A q \in Request : Ids(clone'[q]) \subseteq Known' \cup (Own(q))'
    BY <2>1, <2>3 DEF ManifestInv, Own
  <2>5. ASSUME NEW q \in Published("get")'
        PROVE  \/ entries'[q] = (FilesOf(NewestId(clone[q])))'
               \/ NewestId(clone'[q]) \in ExpiredByNow'
    <3> DEFINE id == NewestId(clone[q])
    <3>1. q \in Published("get") /\ q # r
      BY <2>1 DEF Published
    <3>2. entries[q] = FilesOf(id) \/ id \in ExpiredByNow
      BY <3>1 DEF ManifestInv, ReadSeesItsSnapshot, ExpiredByNow
    <3>3. CASE id = r
      <4>1. id \in Ids(clone[q])
        BY <3>3, <3>1, NewestIn DEF HistoryInv, Typed, Published, SnapshotId
      <4>2. id \in Known /\ id \notin DOMAIN manifests
        BY <4>1, <3>1, <3>3, <2>1 DEF ManifestInv, Own, Published
      <4> QED
        BY <4>2, <2>1, <2>2 DEF Known
    <3>4. CASE id # r
      <4>1. (FilesOf(id))' = FilesOf(id)
        BY <3>4, <2>1 DEF FilesOf, NewestId
      <4> QED
        BY <4>1, <3>2, <2>1, <2>2
    <3> QED
      BY <3>3, <3>4
  <2>6. ReadSeesItsSnapshot'
    BY <2>5 DEF ReadSeesItsSnapshot, ExpiredByNow
  <2> QED
    BY <2>1, <2>4, <2>6 DEF ManifestInv, SnapshotId
<1>9. ASSUME NEW r \in Request, PublishCleanup(r) PROVE ManifestInv'
  <2>1. /\ Others(r) /\ UNCHANGED <<op, clone, expired, entries>>
        /\ op[r] = "cleanup" /\ pc[r] = "publish" /\ pc'[r] = "done"
        /\ table' = clone[r] /\ DOMAIN manifests' = DOMAIN manifests \ expired[r]
        /\ \A id \in DOMAIN manifests \ expired[r] : manifests'[id] = manifests[id]
    BY <1>9 DEF PublishCleanup, Without, Goto, HistoryInv, Typed, RestTyped
  <2>2. ExpiredByNow \cup expired[r] \subseteq ExpiredByNow'
    BY <2>1 DEF ExpiredByNow, Published
  <2>3. Known \subseteq Known'
    BY <2>1, <2>2 DEF Known
  <2>4. /\ Ids(table') \subseteq Known'
        /\ \A q \in Request : Ids(clone'[q]) \subseteq Known' \cup (Own(q))'
    BY <2>1, <2>3 DEF ManifestInv, Own
  <2>5. ASSUME NEW q \in Published("get")'
        PROVE  \/ entries'[q] = (FilesOf(NewestId(clone[q])))'
               \/ NewestId(clone'[q]) \in ExpiredByNow'
    <3> DEFINE id == NewestId(clone[q])
    <3>1. q \in Published("get")
      BY <2>1 DEF Published
    <3>2. entries[q] = FilesOf(id) \/ id \in ExpiredByNow
      BY <3>1 DEF ManifestInv, ReadSeesItsSnapshot, ExpiredByNow
    <3>3. id \in expired[r] \/ (FilesOf(id))' = FilesOf(id)
      BY <2>1 DEF FilesOf, NewestId
    <3> QED
      BY <3>2, <3>3, <2>1, <2>2
  <2>6. ReadSeesItsSnapshot'
    BY <2>5 DEF ReadSeesItsSnapshot, ExpiredByNow
  <2> QED
    BY <2>1, <2>4, <2>6 DEF ManifestInv
<1>10. ASSUME NEW f \in SeedFile, WriteParquet(f) PROVE ManifestInv'
  BY <1>10 DEF WriteParquet, local, ManifestInv, Known, Own, ExpiredByNow, Published,
               ReadSeesItsSnapshot, FilesOf
<1>11. CASE Tick \/ UNCHANGED vars
  BY <1>11 DEF Tick, vars, local, vfs, ManifestInv, Known, Own, ExpiredByNow, Published,
               ReadSeesItsSnapshot, FilesOf
<1> QED
  BY <1>2, <1>3, <1>4, <1>5, <1>6, <1>7, <1>8, <1>9, <1>10, <1>11 DEF Next, Publish, Work

\* What always holds of the catalog, for any overlap of requests.
CatalogInv == HistoryInv /\ RestTyped /\ ManifestInv

LEMMA AlwaysCatalogInv == Spec => []CatalogInv
<1>1. Init => CatalogInv
  BY HistoryInit, RestInit, ManifestInit DEF CatalogInv
<1>2. CatalogInv /\ [Next]_vars => CatalogInv'
  BY HistoryStep, RestStep, ManifestStep DEF CatalogInv
<1> QED
  BY <1>1, <1>2, PTL DEF Spec

\* A snapshot that is listed has its manifest, unless a cleanup has expired it and a task
\* with an older clone has put it back.
THEOREM MissingManifestWasExpiredHolds == Spec => []MissingManifestWasExpired
<1>1. CatalogInv => MissingManifestWasExpired
  BY DEF CatalogInv, ManifestInv, MissingManifestWasExpired, Known, ExpiredByNow
<1> QED
  BY <1>1, AlwaysCatalogInv, PTL

\* Who reads table and manifest under two locks, one after the other, gets the files of
\* the snapshot it was shown, unless a cleanup has expired that.
THEOREM ReadSeesItsSnapshotHolds == Spec => []ReadSeesItsSnapshot
<1>1. CatalogInv => ReadSeesItsSnapshot
  BY DEF CatalogInv, ManifestInv
<1> QED
  BY <1>1, AlwaysCatalogInv, PTL

-----------------------------------------------------------------------------
(* What data is lost when requests overlap *)

\* Each manifest names the seed's two files or the one file of its own request: compactions
\* find two small files in the seed's manifest alone.
ManifestsAlone ==
    \A id \in DOMAIN manifests : manifests[id] = IF id = SeedSnapshot THEN SeedFile ELSE {id}

Compacting == {"scan", "unlink", "manifest", "metadata", "publish"}

\* What a request carries from one await to the next.
Carries(r) ==
    /\ r \in DOMAIN manifests => op[r] \in {"commit", "compact"}
    /\ op[r] = "commit" \/ (op[r] = "compact" /\ pc[r] \in Compacting) => entries[r] = {r}
    /\ small[r] \subseteq SeedFile
    /\ pc[r] = "unlink" => todo[r] \subseteq small[r]
    /\ pc[r] = "purge" => todo[r] \cap entries[r] = {}
    /\ pc[r] \in {"expire", "purge"} => op[r] = "cleanup"
    /\ pc[r] = "files" => op[r] = "get"

\* The files of what a cleanup retains are active for it, up to what another has expired.
Spares(q) ==
    op[q] = "cleanup" /\ pc[q] \in {"expire", "purge"} =>
        Ids(clone[q]) \cap Request \subseteq entries[q] \cup ExpiredByNow

HasWritten(r) ==
    \/ op[r] = "commit"
    \/ op[r] = "compact" /\ pc[r] \in (Compacting \cup {"done"}) \ {"scan"}

\* A cleanup that has cloned did not retain r.
Unseen(q, r) ==
    /\ op[q] = "cleanup" /\ pc[q] \notin {"idle", "clone"}
    /\ r \notin entries[q]
    /\ r \in Ids(clone[q]) => r \in ExpiredByNow

Kept(r) == HasWritten(r) => r \in stored \/ \E q \in Request : Unseen(q, r)

LossInv == ManifestsAlone /\ \A r \in Request : Carries(r) /\ Spares(r) /\ Kept(r)

LEMMA LossInit == Init => LossInv
  BY CatalogAssumption DEF Init, LossInv, ManifestsAlone, Carries, Spares, Kept, HasWritten, Compacting, SnapshotId

\* r moves; the other requests, and what a cleanup has cloned, stay as they are.
Moves(r) ==
    /\ \A q \in Request \ {r} :
         /\ pc'[q] = pc[q] /\ op'[q] = op[q] /\ clone'[q] = clone[q] /\ entries'[q] = entries[q]
         /\ small'[q] = small[q] /\ todo'[q] = todo[q] /\ expired'[q] = expired[q]
    /\ pc[r] # "done" /\ pc'[r] # "idle"
    /\ op[r] = "cleanup" /\ pc[r] \notin {"idle", "clone"} =>
         /\ op'[r] = "cleanup" /\ pc'[r] # "clone"
         /\ clone'[r] = clone[r] /\ entries'[r] = entries[r] /\ expired'[r] = expired[r]

\* Whoever moves, what was expired stays so, and what a cleanup has not seen stays unseen.
LEMMA MovesKeep ==
    ASSUME NEW r \in Request, Moves(r)
    PROVE  /\ ExpiredByNow \subseteq ExpiredByNow'
           /\ \A q, s \in Request : Unseen(q, s) => Unseen(q, s)'
<1>1. ExpiredByNow \subseteq ExpiredByNow'
  BY DEF Moves, ExpiredByNow, Published
<1>2. ASSUME NEW q \in Request, NEW s \in Request, Unseen(q, s) PROVE Unseen(q, s)'
  <2>1. /\ op'[q] = "cleanup" /\ pc'[q] \notin {"idle", "clone"}
        /\ entries'[q] = entries[q] /\ clone'[q] = clone[q]
    BY <1>2 DEF Moves, Unseen
  <2> QED
    BY <1>1, <1>2, <2>1 DEF Unseen, Ids
<1> QED
  BY <1>1, <1>2

\* A step that leaves manifests and data files alone, or adds a data file.
LEMMA LossFrame ==
    ASSUME LossInv, NEW r \in Request, Moves(r), UNCHANGED manifests, stored \subseteq stored',
           Carries(r)', Spares(r)', HasWritten(r)' => HasWritten(r) \/ r \in stored'
    PROVE  LossInv'
<1>1. ManifestsAlone'
  BY DEF LossInv, ManifestsAlone
<1>2. ASSUME NEW q \in Request PROVE Carries(q)' /\ Spares(q)'
  BY MovesKeep DEF LossInv, Moves, Carries, Spares, Ids
<1>3. ASSUME NEW q \in Request PROVE Kept(q)'
  BY MovesKeep DEF LossInv, Moves, Kept, HasWritten
<1> QED
  BY <1>1, <1>2, <1>3 DEF LossInv

\* Compactions take the seed's files and no others.
LEMMA CompactsSeed ==
    ASSUME LossInv, RestTyped, NEW r \in Request, NEW bytes, Cardinality(SmallFiles(bytes)) >= 2
    PROVE  SmallFiles(bytes) = SeedFile /\ FilesOf(table.current) = SeedFile
<1> DEFINE S == SmallFiles(bytes)
           F == FilesOf(table.current)
           T == {table.current}
<1>1. S \subseteq F
  BY DEF SmallFiles
<1>2. F = SeedFile \/ F \subseteq T
  BY DEF LossInv, ManifestsAlone, FilesOf
<1>3. IsFiniteSet(T) /\ Cardinality(T) = 1
  BY FS_Singleton
<1> HIDE DEF S, T, F
<1>4. ASSUME F \subseteq T PROVE FALSE
  <2>1. S \subseteq T
    BY <1>1, <1>4
  <2>2. IsFiniteSet(S) /\ Cardinality(S) =< Cardinality(T)
    BY <2>1, <1>3, FS_Subset
  <2>3. Cardinality(S) \in Nat /\ Cardinality(S) >= 2
    BY <2>2, FS_CardinalityType DEF S
  <2> QED
    BY <1>3, <2>2, <2>3
<1>5. F = SeedFile
  BY <1>2, <1>4
<1>6. /\ IsFiniteSet(S) /\ Cardinality(S) =< Cardinality(SeedFile)
      /\ Cardinality(SeedFile) = Cardinality(S) => SeedFile = S
  BY <1>1, <1>5, SeedAssumption, FS_Subset
<1>7. Cardinality(S) \in Nat /\ Cardinality(S) >= 2
  BY <1>6, FS_CardinalityType DEF S
<1>8. S = SeedFile
  BY <1>6, <1>7, SeedAssumption
<1> QED
  BY <1>5, <1>8 DEF S, F

LEMMA LossStep == CatalogInv /\ LossInv /\ [Next]_vars => LossInv'
<1> SUFFICES ASSUME CatalogInv, LossInv, [Next]_vars PROVE LossInv'
  OBVIOUS
<1> USE CatalogAssumption
<1>0. Typed /\ RestTyped /\ ManifestInv
  BY DEF CatalogInv, HistoryInv
\* Requests that begin, end early or only note something.
<1>1. ASSUME NEW r \in Request,
             \/ StartCommit(r) \/ StartCleanup(r) \/ StartCompaction(r) \/ GetTable(r)
      PROVE  LossInv'
  <2>1. /\ pc[r] = "idle" /\ op[r] = "none"
        /\ UNCHANGED <<manifests, small>> /\ stored \subseteq stored'
        /\ pc'[r] \in {"clone", "files"}
        /\ pc'[r] = "files" <=> op'[r] = "get"
        /\ op'[r] = "commit" => r \in stored' /\ entries'[r] = {r}
    BY <1>0, <1>1 DEF StartCommit, StartCleanup, StartCompaction, GetTable, Accept, Goto, vfs, Typed,
                      RestTyped, ManifestInv
  <2>2. Moves(r)
    BY <1>0, <1>1, <2>1 DEF StartCommit, StartCleanup, StartCompaction, GetTable, Accept, Goto, Typed,
                            RestTyped, Moves
  <2>3. r \notin DOMAIN manifests
    BY <1>0, <2>1 DEF ManifestInv
  <2>4. Carries(r)' /\ Spares(r)' /\ (HasWritten(r)' => r \in stored')
    BY <2>1, <2>3 DEF LossInv, Carries, Spares, HasWritten, Compacting
  <2> QED
    BY <2>1, <2>2, <2>4, LossFrame
<1>2. ASSUME NEW r \in Request,
             \/ RejectUnknownTable(r) \/ Abandon(r) \/ NothingToExpire(r) \/ NothingToCompact(r)
             \/ SmallFileUnreadable(r) \/ CloneForCommit(r) \/ StampCompaction(r) \/ WriteManifest(r)
             \/ WriteMetadata(r)
      PROVE  LossInv'
  <2>1. /\ UNCHANGED <<manifests, small, stored, op, entries, expired, todo>>
        /\ \A q \in Request \ {r} : pc'[q] = pc[q] /\ clone'[q] = clone[q]
        /\ pc[r] \notin Finished \cup {"idle"}
        /\ pc'[r] \in {"failed", "abandoned", "done", "manifest", "metadata", "publish"}
        /\ pc'[r] = "done" => op[r] = "cleanup"
        /\ pc'[r] \in Compacting => pc[r] \in (Compacting \ {"scan"}) \cup {"purge"} \/ op[r] = "commit"
        /\ clone'[r] = clone[r] \/ op[r] \in {"commit", "compact"}
    BY <1>0, <1>2 DEF RejectUnknownTable, Abandon, NothingToExpire, NothingToCompact, SmallFileUnreadable,
         CloneForCommit, StampCompaction, WriteManifest, WriteMetadata, Goto, vfs, Typed, RestTyped,
         ManifestInv, InFlight, Finished, Compacting
  <2>2. Moves(r)
    BY <2>1 DEF Moves, Finished
  <2>3. pc[r] = "purge" => op[r] = "cleanup"
    BY DEF LossInv, Carries
  <2>4. op'[r] = "compact" /\ pc'[r] \in Compacting => op[r] = "compact" /\ pc[r] \in Compacting \ {"scan"}
    BY <2>1, <2>3
  <2>5. Carries(r)'
    BY <2>1, <2>4 DEF LossInv, Carries
  <2>6. Spares(r)'
    BY <2>1 DEF Spares, Compacting
  <2>7. HasWritten(r)' => HasWritten(r)
    BY <2>1, <2>4 DEF HasWritten, Compacting
  <2> QED
    BY <2>1, <2>2, <2>5, <2>6, <2>7, LossFrame
<1>3. ASSUME NEW r \in Request, CloneForCleanup(r) PROVE LossInv'
  <2>1. PICK n \in RetainChoice :
          /\ clone' = [clone EXCEPT ![r] = Prune(table, n, cutoff[r])]
          /\ entries' = [entries EXCEPT ![r] = UNION {FilesOf(id) : id \in Ids(Prune(table, n, cutoff[r]))}]
    BY <1>3 DEF CloneForCleanup
  <2>2. /\ UNCHANGED <<manifests, small, stored, op>>
        /\ op[r] = "cleanup" /\ pc[r] = "clone" /\ pc'[r] = "expire"
        /\ \A q \in Request \ {r} :
             pc'[q] = pc[q] /\ clone'[q] = clone[q] /\ entries'[q] = entries[q]
             /\ todo'[q] = todo[q] /\ expired'[q] = expired[q]
    BY <1>0, <1>3 DEF CloneForCleanup, Goto, vfs, Typed, RestTyped
  <2>3. Moves(r)
    BY <2>2 DEF Moves
  <2>4. /\ clone'[r] = Prune(table, n, cutoff[r])
        /\ entries'[r] = UNION {FilesOf(id) : id \in Ids(clone'[r])}
        /\ Ids(clone'[r]) \subseteq Known
    BY <1>0, <2>1, PruneIds DEF Typed, RestTyped, ManifestInv, CatalogInv, HistoryInv
  <2>5. ASSUME NEW id \in Ids(clone'[r]) \cap Request PROVE id \in entries'[r] \cup ExpiredByNow
    <3>1. id \in DOMAIN manifests => id \in FilesOf(id)
      BY DEF LossInv, ManifestsAlone, FilesOf
    <3> QED
      BY <2>4, <3>1 DEF Known
  <2>6. Spares(r)'
    BY <2>3, <2>5, MovesKeep DEF Spares, Ids
  <2>7. Carries(r)' /\ ~HasWritten(r)'
    BY <2>2 DEF LossInv, Carries, HasWritten, Compacting
  <2> QED
    BY <2>2, <2>3, <2>6, <2>7, LossFrame
<1>4. ASSUME NEW r \in Request,
             DeleteManifest(r) \/ ListData(r) \/ ReadSmallFile(r) \/ WriteCompacted(r)
      PROVE  LossInv'
  <2>1. /\ UNCHANGED <<manifests, small, op, clone, entries, expired>> /\ stored \subseteq stored'
        /\ \A q \in Request \ {r} : pc'[q] = pc[q] /\ todo'[q] = todo[q]
        /\ <<pc[r], pc'[r]>> \in {<<"expire", "expire">>, <<"expire", "purge">>, <<"scan", "scan">>,
                                 <<"scan", "unlink">>}
        /\ pc'[r] = "purge" => todo'[r] \cap entries[r] = {}
        /\ pc'[r] = "unlink" => todo'[r] = small[r] /\ r \in stored'
    BY <1>0, <1>4 DEF DeleteManifest, ListData, ReadSmallFile, WriteCompacted, Orphans, Goto, vfs, Typed,
                      RestTyped
  <2>2. Moves(r)
    BY <2>1 DEF Moves
  <2>3. Carries(r)' /\ (HasWritten(r)' => HasWritten(r) \/ r \in stored')
    BY <1>0, <2>1 DEF LossInv, Carries, HasWritten, Compacting, ManifestInv
  <2>4. Spares(r)'
    BY <2>1, <2>2, MovesKeep DEF LossInv, Spares, Ids
  <2> QED
    BY <2>1, <2>2, <2>3, <2>4, LossFrame
<1>5. ASSUME NEW r \in Request, CloneForCompaction(r) PROVE LossInv'
  <2>1. PICK bytes \in Threshold :
          /\ Cardinality(SmallFiles(bytes)) >= 2
          /\ small' = [small EXCEPT ![r] = SmallFiles(bytes)]
          /\ entries' = [entries EXCEPT ![r] = (FilesOf(table.current) \ SmallFiles(bytes)) \cup {r}]
    BY <1>5 DEF CloneForCompaction
  <2>2. SmallFiles(bytes) = SeedFile /\ FilesOf(table.current) = SeedFile
    BY <1>0, <2>1, CompactsSeed
  <2>3. small'[r] = SeedFile /\ entries'[r] = {r}
    BY <1>0, <2>1, <2>2 DEF RestTyped
  <2>4. /\ UNCHANGED <<manifests, stored, op, expired>>
        /\ op[r] = "compact" /\ pc[r] = "clone" /\ pc'[r] = "scan"
        /\ \A q \in Request \ {r} :
             /\ pc'[q] = pc[q] /\ clone'[q] = clone[q] /\ entries'[q] = entries[q]
             /\ small'[q] = small[q] /\ todo'[q] = todo[q]
    BY <1>0, <1>5 DEF CloneForCompaction, Goto, vfs, Typed, RestTyped
  <2>5. Moves(r)
    BY <2>4 DEF Moves
  <2>6. Carries(r)' /\ Spares(r)' /\ ~HasWritten(r)'
    BY <2>3, <2>4 DEF LossInv, Carries, Spares, HasWritten, Compacting
  <2> QED
    BY <2>4, <2>5, <2>6, LossFrame
<1>6. ASSUME NEW r \in Request, GetManifestFiles(r) PROVE LossInv'
  <2>1. /\ UNCHANGED <<manifests, stored, op, clone, small, todo, expired>>
        /\ pc[r] = "files" /\ pc'[r] = "done"
        /\ \A q \in Request \ {r} : pc'[q] = pc[q] /\ entries'[q] = entries[q]
    BY <1>0, <1>6 DEF GetManifestFiles, Goto, vfs, Typed, RestTyped
  <2>2. op[r] = "get"
    BY <2>1 DEF LossInv, Carries
  <2>3. Moves(r)
    BY <2>1, <2>2 DEF Moves
  <2>4. Carries(r)' /\ Spares(r)' /\ ~HasWritten(r)'
    BY <2>1, <2>2 DEF LossInv, Carries, Spares, HasWritten
  <2> QED
    BY <2>1, <2>3, <2>4, LossFrame
\* Data files that go: a cleanup has not seen their snapshots, or they are the seed's.
<1>7. ASSUME NEW r \in Request, DeleteOrphan(r) \/ DeleteSmallFile(r) PROVE LossInv'
  <2>1. PICK f \in todo[r] : stored' = stored \ {f} /\ todo' = [todo EXCEPT ![r] = @ \ {f}]
    BY <1>7 DEF DeleteOrphan, DeleteSmallFile
  <2>2. /\ UNCHANGED <<manifests, pc, op, clone, entries, small, expired>>
        /\ pc[r] \in {"purge", "unlink"}
        /\ pc[r] = "purge" <=> DeleteOrphan(r)
    BY <1>7 DEF DeleteOrphan, DeleteSmallFile
  <2>3. /\ \A q \in Request \ {r} : todo'[q] = todo[q]
        /\ todo'[r] = todo[r] \ {f}
    BY <1>0, <2>1 DEF RestTyped
  <2>4. Moves(r)
    BY <2>2, <2>3 DEF Moves
  <2>5. ManifestsAlone'
    BY <2>2 DEF LossInv, ManifestsAlone
  <2>6. ASSUME NEW q \in Request PROVE Carries(q)'
    BY <2>2, <2>3 DEF LossInv, Carries
  <2>7. ASSUME NEW q \in Request PROVE Spares(q)'
    BY <2>2, <2>4, MovesKeep DEF LossInv, Spares, Ids
  <2>8. ASSUME f \in Request PROVE Unseen(r, f)
    <3>1. f \notin SeedFile
      BY <2>8
    <3>2. pc[r] = "purge" /\ op[r] = "cleanup" /\ f \notin entries[r]
      BY <2>1, <2>2, <3>1 DEF LossInv, Carries
    <3> QED
      BY <2>8, <3>2 DEF LossInv, Spares, Unseen
  <2>9. ASSUME NEW q \in Request PROVE Kept(q)'
    <3>1. CASE q = f
      BY <2>4, <2>8, <3>1, MovesKeep DEF Kept
    <3>2. CASE q # f
      <4>1. HasWritten(q)' <=> HasWritten(q)
        BY <2>2 DEF HasWritten
      <4> QED
        BY <2>1, <2>4, <3>2, <4>1, MovesKeep DEF LossInv, Kept
    <3> QED
      BY <3>1, <3>2
  <2> QED
    BY <2>5, <2>6, <2>7, <2>9 DEF LossInv
\* What is published.
<1>8. ASSUME NEW r \in Request, PublishSnapshot(r) \/ PublishCleanup(r) PROVE LossInv'
  <2>1. /\ UNCHANGED <<stored, op, clone, entries, small, todo, expired>>
        /\ pc[r] = "publish" /\ pc'[r] = "done"
        /\ \A q \in Request \ {r} : pc'[q] = pc[q]
    BY <1>0, <1>8 DEF PublishSnapshot, PublishCleanup, Goto, vfs, Typed
  <2>2. Moves(r)
    BY <2>1 DEF Moves
  <2>3. /\ DOMAIN manifests' \subseteq DOMAIN manifests \cup (IF PublishSnapshot(r) THEN {r} ELSE {})
        /\ \A id \in DOMAIN manifests' :
             manifests'[id] = IF PublishSnapshot(r) /\ id = r THEN entries[r] ELSE manifests[id]
    <3>1. PublishSnapshot(r) => op[r] \in {"commit", "compact"} /\ manifests' = Put(manifests, r, entries[r])
      BY DEF PublishSnapshot
    <3>2. ~PublishSnapshot(r) => manifests' = Without(manifests, expired[r])
      BY <1>8 DEF PublishCleanup
    <3> QED
      BY <3>1, <3>2 DEF Put, Without
  <2>4. PublishSnapshot(r) => op[r] \in {"commit", "compact"} /\ entries[r] = {r}
    BY <2>1 DEF PublishSnapshot, LossInv, Carries, Compacting
  <2>5. ManifestsAlone'
    BY <2>3, <2>4 DEF LossInv, ManifestsAlone
  <2>6. ASSUME NEW q \in Request PROVE Carries(q)'
    <3>1. q \in DOMAIN manifests' => op[q] \in {"commit", "compact"}
      BY <2>3, <2>4 DEF LossInv, Carries
    <3> QED
      BY <2>1, <3>1 DEF LossInv, Carries, Compacting
  <2>7. ASSUME NEW q \in Request PROVE Spares(q)'
    BY <2>1, <2>2, MovesKeep DEF LossInv, Spares, Ids
  <2>8. ASSUME NEW q \in Request PROVE Kept(q)'
    <3>1. HasWritten(q)' => HasWritten(q)
      BY <2>1 DEF HasWritten, Compacting
    <3> QED
      BY <2>1, <2>2, <3>1, MovesKeep DEF LossInv, Kept
  <2> QED
    BY <2>5, <2>6, <2>7, <2>8 DEF LossInv
<1>9. CASE (\E f \in SeedFile : WriteParquet(f)) \/ Tick \/ UNCHANGED vars
  <2>1. UNCHANGED <<manifests, pc, op, clone, entries, small, todo, expired>> /\ stored \subseteq stored'
    BY <1>9 DEF WriteParquet, Tick, vars, local, vfs
  <2> QED
    BY <2>1 DEF LossInv, ManifestsAlone, Carries, Spares, Kept, HasWritten, Unseen, ExpiredByNow, Published, Ids
<1> QED
  BY <1>1, <1>2, <1>3, <1>4, <1>5, <1>6, <1>7, <1>8, <1>9 DEF Next, Publish, Work

\* However requests overlap (commits, cleanups and compactions of iceberg.rs), the data of a
\* listed, unexpired snapshot is lost only to a cleanup that had not seen the snapshot.
THEOREM OverlapLossExplainedHolds == Spec => []OverlapLossExplained
<1>1. CatalogInv /\ LossInv => OverlapLossExplained
  <2> SUFFICES ASSUME CatalogInv, LossInv, NEW id \in Ids(table) \ EverExpired,
                      NEW f \in FilesOf(id) \ (stored \cup SeedFile)
               PROVE  \E q \in Request : op[q] = "cleanup" /\ f \notin entries[q] /\ id \notin Ids(clone[q])
    BY DEF OverlapLossExplained
  <2>1. id \in DOMAIN manifests /\ f = id /\ id # SeedSnapshot
    BY DEF FilesOf, LossInv, ManifestsAlone
  <2>2. id \in Request
    BY <2>1 DEF CatalogInv, ManifestInv, SnapshotId
  <2>3. pc[id] = "done" /\ op[id] \in {"commit", "compact"}
    BY <2>1, <2>2 DEF CatalogInv, ManifestInv, LossInv, Carries
  <2>4. PICK q \in Request : Unseen(q, id)
    BY <2>1, <2>2, <2>3 DEF LossInv, Kept, HasWritten
  <2>5. id \notin ExpiredByNow
    BY DEF ExpiredByNow, EverExpired, Published
  <2> QED
    BY <2>1, <2>4, <2>5 DEF Unseen
<1>2. Init => LossInv
  BY LossInit
<1> QED
  BY <1>1, <1>2, LossStep, AlwaysCatalogInv, PTL DEF Spec
=============================================================================
