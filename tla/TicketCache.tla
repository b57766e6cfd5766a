---------------------------- MODULE TicketCache ----------------------------
(***************************************************************************)
(* The Kerberos ticket cache of src/src/kerberos.rs with the calls that    *)
(* fill it (src/src/security.rs, renew_tgt_handler of src/src/portal.rs)   *)
(* and the gauge that shows when the ticket expires                        *)
(* (src/src/telemetry.rs).  kinit_from_keytab reads the clock, waits for   *)
(* the lock of the tickets, inserts, waits for the lock of the principal   *)
(* and returns; both locks are kept until then.  One kinit runs in a task  *)
(* of its own from start-up; the others are renewals, which a client may   *)
(* drop where they wait and which set the gauge when kinit has returned.   *)
(***************************************************************************)
EXTENDS Keytab

CONSTANTS
    Boot,           \* the kinit that SecurityKernel::new spawns
    Renewer,        \* requests to renew, each of which may come again
    None,
    Keytabs,        \* the lists of entries that the kernel may be built with
    BootLifetime,   \* 36000 in the code
    RenewLifetime,  \* 43200 in the code
    MaxClock        \* bound of the model: the clock stops there

ASSUME TicketAssumption ==
    /\ Boot \notin Renewer
    /\ None \notin Renewer \cup {Boot}
    /\ BootLifetime \in Nat /\ RenewLifetime \in Nat /\ BootLifetime < RenewLifetime
    /\ MaxClock \in Nat

\* The kernel's entries fit the format, each record the 31 bits of its size.
ASSUME KeytabAssumption ==
    /\ Keytabs \subseteq Seq(KeytabKeyEntry)
    /\ \A k \in Keytabs : \A i \in DOMAIN k : Len(Record(k[i])) \in Size31

Caller == Renewer \cup {Boot}

VARIABLES
    entries,        \* the synthetic entries the kernel was built with
    vault,          \* the secret keytab_raw, in hexadecimal
    now,            \* the clock, in units of the lifetimes
    serving,        \* the portal has started: metrics exist, requests arrive
    tickets,        \* TicketCacheManager.tickets: server -> ticket
    principal,      \* TicketCacheManager.principal
    holder,         \* who holds the lock of the tickets
    phase,          \* caller -> where its kinit is
    tgt,            \* caller -> the ticket its kinit has built
    gauge,          \* kerberos_tgt_expiry
    cachedBy,       \* history: whose ticket is cached, None once its call was dropped
    gaugeBy         \* history: who set the gauge last

vars == <<entries, vault, now, serving, tickets, principal, holder, phase, tgt, gauge, cachedBy, gaugeBy>>

\* krbtgt/REALM@REALM: one per realm.
Server(entry) == entry.realm

Ticket(entry, lifetime) ==
    [client |-> [parts |-> entry.parts, realm |-> entry.realm], server |-> Server(entry),
     start |-> now, end |-> now + lifetime, renewTill |-> now + 7 * lifetime]

Init ==
    /\ entries \in Keytabs
    /\ vault = Hex(Serialize(entries))
    /\ now = 0
    /\ serving = FALSE
    /\ tickets = {}
    /\ principal = [parts |-> entries[1].parts, realm |-> entries[1].realm]
    /\ holder = None
    /\ phase = [c \in Caller |-> IF c = Boot THEN "spawned" ELSE "idle"]
    /\ tgt = [c \in Caller |-> None]
    /\ gauge = 0
    /\ cachedBy = None
    /\ gaugeBy = None

\* The start-up kinit does not go through the keytab.
BootKinit ==
    /\ phase[Boot] = "spawned"
    /\ phase' = [phase EXCEPT ![Boot] = "waiting"]
    /\ tgt' = [tgt EXCEPT ![Boot] = Ticket(entries[1], BootLifetime)]
    /\ UNCHANGED <<entries, vault, now, serving, tickets, principal, holder, gauge, cachedBy, gaugeBy>>

\* The gauge starts from a ticket that is assumed, whatever the cache holds.
StartMetrics ==
    /\ ~serving
    /\ serving' = TRUE
    /\ gauge' = now + BootLifetime
    /\ UNCHANGED <<entries, vault, now, tickets, principal, holder, phase, tgt, cachedBy, gaugeBy>>

ParsedKeytab == Parse(Unhex(vault))

RenewRest == RenewLifetime - now                                    \* mutated form
RenewLength == RenewLifetime

\* The request is refused, and changes nothing, when the keytab is corrupt or empty.
RenewTgt(r) ==
    /\ serving
    /\ phase[r] = "idle"
    /\ ParsedKeytab.ok /\ ParsedKeytab.entries # <<>>
    /\ phase' = [phase EXCEPT ![r] = "waiting"]
    /\ tgt' = [tgt EXCEPT ![r] = Ticket(ParsedKeytab.entries[1], RenewLength)]
    /\ UNCHANGED <<entries, vault, now, serving, tickets, principal, holder, gauge, cachedBy, gaugeBy>>

Insert(c) ==
    /\ phase[c] = "waiting" /\ holder = None
    /\ holder' = c
    /\ tickets' = {t \in tickets : t.server # tgt[c].server} \cup {tgt[c]}
    /\ phase' = [phase EXCEPT ![c] = "inserted"]
    /\ cachedBy' = c
    /\ UNCHANGED <<entries, vault, now, serving, principal, tgt, gauge, gaugeBy>>

\* kinit returns and frees its locks.
SetPrincipal(c) ==
    /\ phase[c] = "inserted"
    /\ principal' = tgt[c].client
    /\ holder' = None
    /\ phase' = [phase EXCEPT ![c] = IF c = Boot THEN "done" ELSE "returned"]
    /\ UNCHANGED <<entries, vault, now, serving, tickets, tgt, gauge, cachedBy, gaugeBy>>

Answered(r) ==
    /\ phase[r] = "returned"
    /\ phase' = [phase EXCEPT ![r] = "idle"]
    /\ tgt' = [tgt EXCEPT ![r] = None]
    /\ gaugeBy' = r
    /\ UNCHANGED <<entries, vault, now, serving, tickets, principal, holder, cachedBy>>

SetGaugeFromNow(r) == Answered(r) /\ gauge' = now + RenewLength     \* mutated form

\* From the ticket that kinit returned; nothing is awaited since then.
SetGauge(r) == Answered(r) /\ gauge' = tgt[r].end

DropKeepsLock(r) ==                                                 \* mutated form
    /\ phase[r] \in {"waiting", "inserted"}
    /\ phase' = [phase EXCEPT ![r] = "idle"]
    /\ tgt' = [tgt EXCEPT ![r] = None]
    /\ cachedBy' = IF phase[r] = "inserted" THEN None ELSE cachedBy
    /\ UNCHANGED <<entries, vault, now, serving, tickets, principal, holder, gauge, gaugeBy>>

\* The request goes away at one of the two awaits.
Drop(r) ==
    /\ phase[r] \in {"waiting", "inserted"}
    /\ phase' = [phase EXCEPT ![r] = "idle"]
    /\ tgt' = [tgt EXCEPT ![r] = None]
    /\ holder' = IF holder = r THEN None ELSE holder
    /\ cachedBy' = IF phase[r] = "inserted" THEN None ELSE cachedBy
    /\ UNCHANGED <<entries, vault, now, serving, tickets, principal, gauge, gaugeBy>>

Tick ==
    /\ now < MaxClock
    /\ now' = now + 1
    /\ UNCHANGED <<entries, vault, serving, tickets, principal, holder, phase, tgt, gauge, cachedBy, gaugeBy>>

Next ==
    \/ BootKinit
    \/ StartMetrics
    \/ Tick
    \/ \E c \in Caller : Insert(c) \/ SetPrincipal(c)
    \/ \E r \in Renewer : RenewTgt(r) \/ SetGauge(r) \/ Drop(r)

Spec == Init /\ [][Next]_vars

-----------------------------------------------------------------------------
\* The state keeps to its types; a caller holds the tickets exactly while it is inserting.
TypeOK ==
    /\ now \in 0..MaxClock
    /\ serving \in BOOLEAN
    /\ holder \in Caller \cup {None}
    /\ phase \in [Caller -> {"spawned", "idle", "waiting", "inserted", "returned", "done"}]
    /\ \A c \in Caller : (holder = c) <=> (phase[c] = "inserted")
    /\ gauge \in Nat
    /\ cachedBy \in Caller \cup {None}
    /\ gaugeBy \in Renewer \cup {None}

\* What Keytab::serialize wrote into the Vault secret, Keytab::parse reads back: every
\* entry, with its key version whether or not it fits the old field of 8 bits.
KeytabReadsBack == ParsedKeytab = Parsed(entries)

\* The gauge shows the end of the cached ticket, unless the cached ticket is that of the
\* start-up kinit, or of a renewal that was dropped before it could set the gauge or has
\* still to set it, or another renewal that returned earlier has set the gauge later.
GaugeExplained ==
    \A t \in tickets :
        gauge = t.end
        \/ cachedBy \in {None, Boot}
        \/ phase[cachedBy] \in {"inserted", "returned"}
        \/ gaugeBy # cachedBy

\* A cached ticket gives way to one that ends earlier only when the start-up kinit comes
\* late, or when a renewal that read the clock earlier was overtaken on its way to the lock.
ShortenedOnlyByStale ==
    [][\A t \in tickets, u \in tickets' :
           t.server = u.server /\ u.end < t.end
           => u.start < t.start \/ cachedBy' = Boot]_vars

=============================================================================
