--------------------------- MODULE VaultDb_proofs ---------------------------
(***************************************************************************)
(* Proofs about VaultDb for any number of requests: who can hold which     *)
(* lock, that a lease always has its database user, and that the cycle of  *)
(* the two lock orders is the only way to block.                           *)
(***************************************************************************)
EXTENDS VaultDb, TLAPS

\* A lock is held exactly by those that wait for the other one.
LocksInv ==
    /\ leasesLock \notin Issuer
    /\ catalogLock \in Issuer \cup {Free}
    /\ \A t \in Revoker \cup {Purger} : pc[t] = "wantCatalog" <=> leasesLock = t
    /\ \A i \in Issuer : pc[i] = "wantLeases" <=> catalogLock = i

\* A lease appears when its issuer is done and a removed one never comes back;
\* a revocation that holds the leases has removed its target.
LeasesInv ==
    /\ \A i \in leases : pc[i] = "done"
    /\ \A q \in Revoker : pc[q] = "wantCatalog" => target[q] \notin leases /\ pc[target[q]] = "done"

\* Users come before their leases and go after them.
UsersInv ==
    /\ leases \subseteq users
    /\ \A i \in Issuer : pc[i] = "wantLeases" => i \in users
    /\ \A u \in users : pc[u] \in {"wantLeases", "done", "abandoned"}
    /\ LeaselessUserExplained

\* The purge works with a time that has come.
PurgeInv == now =< clock

Inv == TypeOK /\ LocksInv /\ LeasesInv /\ UsersInv /\ PurgeInv

LEMMA InitInv == Init => Inv
  BY VaultAssumption DEF Init, Inv, TypeOK, LocksInv, LeasesInv, UsersInv, PurgeInv,
     LeaselessUserExplained, Task, Request

LEMMA StepInv == Inv /\ [Next]_vars => Inv'
<1> SUFFICES ASSUME Inv, [Next]_vars PROVE Inv'
  OBVIOUS
<1> USE VaultAssumption DEF Inv, TypeOK, LocksInv, LeasesInv, UsersInv, PurgeInv,
                            LeaselessUserExplained, Task, Request, Goto
<1>1. ASSUME NEW i \in Issuer, RejectRole(i) PROVE Inv'
  BY <1>1 DEF RejectRole
<1>2. ASSUME NEW i \in Issuer, Issue(i) PROVE Inv'
  <2>1. PICK ttl \in TtlChoice : expire' = [expire EXCEPT ![i] = clock + Capped(ttl)]
    BY <1>2 DEF Issue
  <2>2. clock + Capped(ttl) \in Int
    BY DEF Capped
  <2> QED
    BY <1>2, <2>1, <2>2 DEF Issue
<1>3. ASSUME NEW i \in Issuer, CreateUser(i) PROVE Inv'
  BY <1>3 DEF CreateUser
<1>4. ASSUME NEW i \in Issuer, CreateLease(i) PROVE Inv'
  BY <1>4 DEF CreateLease
<1>5. ASSUME NEW q \in Revoker, Revoke(q) PROVE Inv'
  BY <1>5 DEF Revoke
<1>6. ASSUME NEW q \in Revoker, LeaseNotFound(q) PROVE Inv'
  BY <1>6 DEF LeaseNotFound
<1>7. ASSUME NEW q \in Revoker, RemoveLease(q) PROVE Inv'
  BY <1>7 DEF RemoveLease
<1>8. ASSUME NEW q \in Revoker, DropUser(q) PROVE Inv'
  BY <1>8 DEF DropUser
<1>9. CASE PurgeTick
  BY <1>9 DEF PurgeTick
<1>10. CASE PurgeLockLeases
  BY <1>10 DEF PurgeLockLeases
<1>11. CASE Purge
  BY <1>11 DEF Purge
<1>12. ASSUME NEW r \in Request, Abandon(r) PROVE Inv'
  BY <1>12 DEF Abandon
<1>13. CASE Tick
  BY <1>13 DEF Tick
<1>14. CASE UNCHANGED vars
  BY <1>14 DEF vars
<1> QED
  BY <1>1, <1>2, <1>3, <1>4, <1>5, <1>6, <1>7, <1>8, <1>9, <1>10, <1>11, <1>12, <1>13, <1>14 DEF Next

\* The variables keep the types of the Rust values; no handler panics.
THEOREM TypeCorrect == Spec => []TypeOK
  BY InitInv, StepInv, PTL DEF Spec, Inv

\* A lease that can be listed always has its database user.
THEOREM LeaseHasUserHolds == Spec => []LeaseHasUser
<1>1. Inv => LeaseHasUser
  BY DEF Inv, UsersInv, LeaseHasUser
<1> QED
  BY <1>1, InitInv, StepInv, PTL DEF Spec

\* A user is left behind only by a request that is under way or was abandoned.
THEOREM LeaselessUserExplainedHolds == Spec => []LeaselessUserExplained
<1>1. Inv => LeaselessUserExplained
  BY DEF Inv, UsersInv
<1> QED
  BY <1>1, InitInv, StepInv, PTL DEF Spec

\* Whenever a lock is held, its holder can go on or the two lock orders have met.
THEOREM OnlyThisCycleBlocksHolds == Spec => []OnlyThisCycleBlocks
<1>1. Inv => OnlyThisCycleBlocks
  BY VaultAssumption DEF Inv, TypeOK, LocksInv, OnlyThisCycleBlocks, LockCycle, Task, Request
<1> QED
  BY <1>1, InitInv, StepInv, PTL DEF Spec

\* A purge removes no credential before its time, though it compares with a clock that
\* it read before it waited for both locks.
THEOREM PurgesOnlyExpiredHolds == Spec => PurgesOnlyExpired
<1>1. ASSUME Inv, Purge, NEW i \in leases, i \notin leases' PROVE expire[i] =< clock
  <2>1. expire[i] =< now
    BY <1>1 DEF Purge, Due
  <2> QED
    BY <1>1, <2>1 DEF Inv, TypeOK, PurgeInv
<1>2. Inv => [Purge => \A i \in leases \ leases' : expire[i] =< clock]_vars
  BY <1>1
<1> QED
  BY <1>2, InitInv, StepInv, PTL DEF Spec, PurgesOnlyExpired
=============================================================================
