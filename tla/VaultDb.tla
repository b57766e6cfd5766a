------------------------------ MODULE VaultDb ------------------------------
(***************************************************************************)
(* The dynamic database credentials of src/src/vault_db.rs.  A credential  *)
(* is a lease in active_leases and a user in pg_roles_catalog, two maps    *)
(* each behind its own lock.  generate_credentials takes the catalog lock  *)
(* and, holding it, the leases lock; revoke_lease and the purge task take  *)
(* them in the opposite order.  The locks are therefore part of the state: *)
(* an action is what a task does from one lock acquisition to the next.    *)
(***************************************************************************)
EXTENDS Integers, FiniteSets

CONSTANTS
    Issuer,     \* requests to generate a credential; the lease and the user are named after the request
    Revoker,    \* requests to revoke a lease
    Purger,     \* the background purge task
    Free,       \* a lock nobody holds
    TtlChoice,  \* values of ttl_seconds, or the role's default
    MaxTtl,     \* max_ttl_secs of the role
    MaxClock    \* BOUND: last value of the clock

Request == Issuer \cup Revoker
Task    == Request \cup {Purger}

ASSUME VaultAssumption ==
    /\ Issuer \cap Revoker = {}
    /\ Purger \notin Request
    /\ Free \notin Task
    /\ TtlChoice \subseteq Int
    /\ MaxTtl \in Int
    /\ MaxClock \in Nat

VARIABLES
    leases,     \* active_leases
    users,      \* pg_roles_catalog
    expire,     \* expire_time of each credential
    leasesLock, \* who holds active_leases for writing
    catalogLock,\* who holds pg_roles_catalog for writing
    pc,         \* where each task is
    target,     \* the lease each revocation names
    now,        \* the purge task's reading of the clock
    clock       \* wall clock, in seconds

vars == <<leases, users, expire, leasesLock, catalogLock, pc, target, now, clock>>

Init ==
    /\ leases = {} /\ users = {}
    /\ expire = [i \in Issuer |-> 0]
    /\ leasesLock = Free /\ catalogLock = Free
    /\ pc = [t \in Task |-> "idle"]
    /\ target \in [Revoker -> Issuer]
    /\ now = 0 /\ clock = 0

Goto(t, from, to) == pc[t] = from /\ pc' = [pc EXCEPT ![t] = to]

-----------------------------------------------------------------------------
(* generate_credentials *)

Capped(ttl) == IF ttl =< MaxTtl THEN ttl ELSE MaxTtl

\* The role is not configured.
RejectRole(i) ==
    /\ Goto(i, "idle", "failed")
    /\ UNCHANGED <<leases, users, expire, leasesLock, catalogLock, target, now, clock>>

\* The expiry is computed before any lock is taken.
Issue(i) ==
    /\ Goto(i, "idle", "wantCatalog")
    /\ \E ttl \in TtlChoice : expire' = [expire EXCEPT ![i] = clock + Capped(ttl)]
    /\ UNCHANGED <<leases, users, leasesLock, catalogLock, target, now, clock>>

CreateUser(i) ==
    /\ Goto(i, "wantCatalog", "wantLeases")
    /\ catalogLock = Free
    /\ catalogLock' = i
    /\ users' = users \cup {i}
    /\ UNCHANGED <<leases, expire, leasesLock, target, now, clock>>

CreateLeaseKeepGuard(i) ==                                         \* mutated form
    /\ Goto(i, "wantLeases", "done")
    /\ leasesLock = Free
    /\ leases' = leases \cup {i}
    /\ UNCHANGED <<users, expire, leasesLock, catalogLock, target, now, clock>>

\* The catalog guard lives to the end of the function.
CreateLease(i) ==
    /\ Goto(i, "wantLeases", "done")
    /\ leasesLock = Free
    /\ leases' = leases \cup {i}
    /\ catalogLock' = Free
    /\ UNCHANGED <<users, expire, leasesLock, target, now, clock>>

-----------------------------------------------------------------------------
(* revoke_lease *)

Revoke(q) ==
    /\ Goto(q, "idle", "wantLeases")
    /\ UNCHANGED <<leases, users, expire, leasesLock, catalogLock, target, now, clock>>

LeaseNotFound(q) ==
    /\ Goto(q, "wantLeases", "failed")
    /\ leasesLock = Free
    /\ target[q] \notin leases
    /\ UNCHANGED <<leases, users, expire, leasesLock, catalogLock, target, now, clock>>

GetLease(q) ==                                                     \* mutated form
    /\ Goto(q, "wantLeases", "wantCatalog")
    /\ leasesLock = Free
    /\ target[q] \in leases
    /\ leasesLock' = q
    /\ UNCHANGED <<leases, users, expire, catalogLock, target, now, clock>>

RemoveLease(q) ==
    /\ Goto(q, "wantLeases", "wantCatalog")
    /\ leasesLock = Free
    /\ target[q] \in leases
    /\ leasesLock' = q
    /\ leases' = leases \ {target[q]}
    /\ UNCHANGED <<users, expire, catalogLock, target, now, clock>>

DropUser(q) ==
    /\ Goto(q, "wantCatalog", "done")
    /\ catalogLock = Free
    /\ users' = users \ {target[q]}
    /\ leasesLock' = Free
    /\ UNCHANGED <<leases, expire, catalogLock, target, now, clock>>

-----------------------------------------------------------------------------
(* purge_expired_leases, called every five seconds by the portal's task *)

PurgeTick ==
    /\ Goto(Purger, "idle", "wantLeases")
    /\ now' = clock
    /\ UNCHANGED <<leases, users, expire, leasesLock, catalogLock, target, clock>>

PurgeLockLeases ==
    /\ Goto(Purger, "wantLeases", "wantCatalog")
    /\ leasesLock = Free
    /\ leasesLock' = Purger
    /\ UNCHANGED <<leases, users, expire, catalogLock, target, now, clock>>

DueInverted(i) == expire[i] >= now                                 \* mutated form
Due(i) == expire[i] =< now

PurgeLeasesOnly ==                                                 \* mutated form
    /\ Goto(Purger, "wantCatalog", "idle")
    /\ catalogLock = Free
    /\ leases' = leases \ {i \in leases : Due(i)}
    /\ leasesLock' = Free
    /\ UNCHANGED <<users, expire, catalogLock, target, now, clock>>

Purge ==
    /\ Goto(Purger, "wantCatalog", "idle")
    /\ catalogLock = Free
    /\ LET due == {i \in leases : Due(i)}
       IN  leases' = leases \ due /\ users' = users \ due
    /\ leasesLock' = Free
    /\ UNCHANGED <<expire, catalogLock, target, now, clock>>

-----------------------------------------------------------------------------
(* The environment *)

\* The client disconnects; the dropped future releases the locks it holds and
\* leaves the maps as they are.
Abandon(r) ==
    /\ pc[r] \in {"wantCatalog", "wantLeases"}
    /\ pc' = [pc EXCEPT ![r] = "abandoned"]
    /\ leasesLock' = IF leasesLock = r THEN Free ELSE leasesLock
    /\ catalogLock' = IF catalogLock = r THEN Free ELSE catalogLock
    /\ UNCHANGED <<leases, users, expire, target, now, clock>>

Tick ==
    /\ clock < MaxClock
    /\ clock' = clock + 1
    /\ UNCHANGED <<leases, users, expire, leasesLock, catalogLock, pc, target, now>>

Next ==
    \/ \E i \in Issuer : RejectRole(i) \/ Issue(i) \/ CreateUser(i) \/ CreateLease(i)
    \/ \E q \in Revoker : Revoke(q) \/ LeaseNotFound(q) \/ RemoveLease(q) \/ DropUser(q)
    \/ PurgeTick \/ PurgeLockLeases \/ Purge
    \/ \E r \in Request : Abandon(r)
    \/ Tick

Spec == Init /\ [][Next]_vars

\* The runtime keeps running every task that can go on, and tokio's RwLock hands
\* the lock to its waiters in order, so nobody waits forever for a lock that
\* keeps being released.  Clients need not call, disconnect or keep waiting.
Fairness ==
    /\ \A i \in Issuer : SF_vars(CreateUser(i)) /\ SF_vars(CreateLease(i))
    /\ \A q \in Revoker : SF_vars(LeaseNotFound(q) \/ RemoveLease(q)) /\ SF_vars(DropUser(q))
    /\ WF_vars(PurgeTick) /\ SF_vars(PurgeLockLeases) /\ SF_vars(Purge)

FairSpec == Spec /\ Fairness

-----------------------------------------------------------------------------
(* Properties *)

\* Every variable has the type of the Rust value it stands for.
TypeOK ==
    /\ leases \subseteq Issuer
    /\ users \subseteq Issuer
    /\ expire \in [Issuer -> Int]
    /\ leasesLock \in Task \cup {Free}
    /\ catalogLock \in Task \cup {Free}
    /\ pc \in [Task -> {"idle", "wantCatalog", "wantLeases", "done", "failed", "abandoned"}]
    /\ target \in [Revoker -> Issuer]
    /\ now \in Int
    /\ clock \in Nat

\* Whoever sees a lease finds its database user: revocations, purges and dropped
\* handlers never leave a credential that cannot log in.
LeaseHasUser == leases \subseteq users

\* A database user without a lease, which nothing would ever drop, exists only
\* while its request is under way or because that request was abandoned half way.
LeaselessUserExplained ==
    \A u \in users \ leases :
        \/ pc[u] \in {"wantLeases", "abandoned"}
        \/ \E q \in Revoker : target[q] = u /\ pc[q] \in {"wantCatalog", "abandoned"}

\* The purge removes a credential only after its time.
PurgesOnlyExpired == [][Purge => \A i \in leases \ leases' : expire[i] =< clock]_vars

\* An issuer holds the catalog and waits for the leases, which are held by a task
\* that waits for the catalog.
LockCycle ==
    /\ catalogLock \in Issuer /\ leasesLock \in Revoker \cup {Purger}
    /\ pc[catalogLock] = "wantLeases" /\ pc[leasesLock] = "wantCatalog"

\* A task waits for a lock that is taken only behind a task that can go on, or in
\* the one cycle that the opposite lock orders allow.
OnlyThisCycleBlocks ==
    LET Running(t) == \/ pc[t] = "wantCatalog" /\ catalogLock = Free
                      \/ pc[t] = "wantLeases" /\ leasesLock = Free
        Holder == {leasesLock, catalogLock} \ {Free}
    IN  Holder # {} => LockCycle \/ \E t \in Holder : Running(t)

Expired(i) == i \in leases /\ expire[i] =< clock

\* The lock cycle is all that keeps an expired credential alive.
ExpiredPurgedUnlessCycle == \A i \in Issuer : Expired(i) ~> (i \notin leases \/ LockCycle)

\* What "ephemeral PostgreSQL user (TTL)" and "Auto-expired lease" say: an expired
\* credential is dropped by the purge task.
ExpiredPurged == \A i \in Issuer : Expired(i) ~> i \notin leases
=============================================================================
