----------------------------- MODULE ZoneCrypto -----------------------------
(***************************************************************************)
(* Transparent encryption of the VFS: the read, write, delete and          *)
(* re-encryption paths of src/src/hdfs.rs and the key management of        *)
(* src/src/kms.rs.                                                         *)
(*                                                                         *)
(* The VFS keeps a file's bytes in one map and its crypto header in        *)
(* another, each behind its own lock.  A header wraps the file's data key  *)
(* under a version of the zone's master key.  AES-CTR is modelled by what  *)
(* it does: decrypting gives the plaintext back under the key and the      *)
(* initialisation vector (IV) that encrypted it, and garbage under others. *)
(***************************************************************************)
EXTENDS Naturals, FiniteSets

CONSTANTS
    Writer,      \* calls of write_file_as; a writer's data, data key and IV are named after it
    Reader,      \* calls of read_file_as
    Deleter,     \* calls of delete_file_as
    Reencrypter, \* calls of reencrypt_zone_edeks
    Path,        \* files, by clean path
    Zone,        \* those under the encryption zone's prefix
    None,        \* no value, or a lock nobody holds
    Garbage,     \* bytes that are nobody's data
    MaxVersion   \* BOUND: versions of the master key

Task == Writer \cup Reader \cup Deleter \cup Reencrypter
IV   == Writer \cup (Reencrypter \X Path)

\* A data key wrapped under a master key version with an IV.
Edek   == [dek : Writer, version : Nat, iv : IV]
Header == [version : Nat, iv : IV, edek : Edek]
\* Stored bytes: data under a key and an IV, or as it is (None).
Blob   == [data : Writer, dek : Writer \cup {None}, iv : IV \cup {None}]

ASSUME ZoneAssumption ==
    /\ Writer # {}
    /\ Zone \subseteq Path
    /\ Writer \cap (Reader \cup Deleter \cup Reencrypter) = {}
    /\ Reader \cap (Deleter \cup Reencrypter) = {}
    /\ Deleter \cap Reencrypter = {}
    /\ None \notin Task \cup IV \cup Header
    /\ Garbage \notin Writer \cup {None}
    /\ MaxVersion \in Nat \ {0}

VARIABLES
    latest,      \* the zone key's newest version; all from 1 are kept
    vfs,         \* path -> Blob, local_cluster_vfs
    xattrs,      \* path -> Header, xattr_crypto_storage
    vfsLock,     \* who holds local_cluster_vfs for writing
    xattrsLock,  \* who holds xattr_crypto_storage for writing across an await
    pc,          \* where each call is
    path,        \* the file it is about
    blob,        \* a writer's payload_to_store, a reader's raw_stored_bytes
    header,      \* a writer's crypto_header
    result,      \* what a reader returns
    wanted,      \* a re-encryption's target version
    scope,       \* the files under the zone path it was given
    todo         \* those it has still to visit

keys   == <<latest>>
store  == <<vfs, xattrs, vfsLock, xattrsLock>>
writes == <<blob, header>>
sweep  == <<wanted, scope, todo>>
vars   == <<keys, store, pc, path, writes, result, sweep>>

Goto(t, from, to) == pc[t] = from /\ pc' = [pc EXCEPT ![t] = to]
Put(f, k, v) == [x \in DOMAIN f \cup {k} |-> IF x = k THEN v ELSE f[x]]
Without(f, k) == [x \in DOMAIN f \ {k} |-> f[x]]

NoBlob == [data |-> CHOOSE w \in Writer : TRUE, dek |-> None, iv |-> None]

\* None of the files considered exists yet: the one that WebHdfsClient::new creates
\* is left aside.
Init ==
    /\ latest = 1
    /\ vfs = [p \in {} |-> NoBlob]
    /\ xattrs = [p \in {} |-> None]
    /\ vfsLock = None /\ xattrsLock = None
    /\ pc = [t \in Task |-> "idle"]
    /\ path \in [Task -> Path]
    /\ blob = [t \in Writer \cup Reader |-> NoBlob]
    /\ header = [w \in Writer |-> None]
    /\ result = [r \in Reader |-> None]
    /\ wanted = [e \in Reencrypter |-> 0]
    /\ scope = [e \in Reencrypter |-> {}]
    /\ todo = [e \in Reencrypter |-> {}]

-----------------------------------------------------------------------------
(* kms.rs *)

Wrap(dek, version, iv) == [version |-> version, iv |-> iv,
                           edek |-> [dek |-> dek, version |-> version, iv |-> iv]]

\* decrypt_edek: the version must exist; the wrong master key or IV gives garbage.
Unwrap(h) ==
    IF h.version \in 1..latest /\ h.edek.version = h.version /\ h.edek.iv = h.iv
    THEN h.edek.dek ELSE Garbage

\* reencrypt_single_edek: the data key is wrapped anew under a fresh IV, which
\* takes the place of the one that encrypted the file.
RewrapFreshKey(h, iv) == Wrap(CHOOSE d \in Writer : TRUE, latest, iv)                 \* mutated form
RewrapOldVersion(h, iv) == [Wrap(Unwrap(h), latest, iv) EXCEPT !.version = h.version]  \* mutated form
Rewrap(h, iv) == IF h.version = latest THEN h ELSE Wrap(Unwrap(h), latest, iv)

\* roll_new_master_key_version
Roll ==
    /\ latest < MaxVersion
    /\ latest' = latest + 1
    /\ UNCHANGED <<store, pc, path, writes, result, sweep>>

-----------------------------------------------------------------------------
(* write_file_as *)

\* The zone is looked up by the path as the caller spells it: without its leading
\* slash it is in no zone.  The key is wrapped before any lock is taken.
GenerateEdek(w) ==
    /\ Goto(w, "idle", "store")
    /\ path[w] \in Zone
    /\ blob' = [blob EXCEPT ![w] = [data |-> w, dek |-> w, iv |-> w]]
    /\ header' = [header EXCEPT ![w] = Wrap(w, latest, w)]
    /\ UNCHANGED <<keys, store, path, result, sweep>>

NoZone(w) ==
    /\ Goto(w, "idle", "store")
    /\ blob' = [blob EXCEPT ![w] = [data |-> w, dek |-> None, iv |-> None]]
    /\ UNCHANGED <<keys, store, path, header, result, sweep>>

StoreBytesUnlocked(w) ==                                           \* mutated form
    /\ vfsLock = None
    /\ vfs' = Put(vfs, path[w], blob[w])
    /\ Goto(w, "store", IF header[w] = None THEN "done" ELSE "label")
    /\ UNCHANGED <<keys, xattrs, vfsLock, xattrsLock, path, writes, result, sweep>>

StoreBytes(w) ==
    /\ vfsLock = None
    /\ vfs' = Put(vfs, path[w], blob[w])
    /\ IF header[w] = None
       THEN Goto(w, "store", "done") /\ UNCHANGED vfsLock
       ELSE Goto(w, "store", "label") /\ vfsLock' = w
    /\ UNCHANGED <<keys, xattrs, xattrsLock, path, writes, result, sweep>>

\* The VFS stays locked until the header is in.
StoreHeader(w) ==
    /\ Goto(w, "label", "done")
    /\ xattrsLock = None
    /\ xattrs' = Put(xattrs, path[w], header[w])
    /\ vfsLock' = None
    /\ UNCHANGED <<keys, vfs, xattrsLock, path, writes, result, sweep>>

-----------------------------------------------------------------------------
(* read_file_as *)

FileNotFound(r) ==
    /\ Goto(r, "idle", "done")
    /\ vfsLock = None
    /\ path[r] \notin DOMAIN vfs
    /\ UNCHANGED <<keys, store, path, writes, result, sweep>>

\* The VFS lock is released before the header is looked up.
ReadBytes(r) ==
    /\ Goto(r, "idle", "decrypt")
    /\ vfsLock = None
    /\ path[r] \in DOMAIN vfs
    /\ blob' = [blob EXCEPT ![r] = vfs[path[r]]]
    /\ UNCHANGED <<keys, store, path, header, result, sweep>>

\* decrypt_payload, or the bytes as they are when there is no header.
Plaintext(b, h) ==
    CASE h = None -> IF b.dek = None THEN b.data ELSE Garbage
      [] OTHER    -> IF b.dek = Unwrap(h) /\ b.iv = h.iv THEN b.data ELSE Garbage

HeaderOf(p) == IF p \in DOMAIN xattrs THEN xattrs[p] ELSE None

Decrypt(r) ==
    /\ Goto(r, "decrypt", "done")
    /\ xattrsLock = None
    /\ result' = [result EXCEPT ![r] = Plaintext(blob[r], HeaderOf(path[r]))]
    /\ UNCHANGED <<keys, store, path, writes, sweep>>

-----------------------------------------------------------------------------
(* delete_file_as *)

RemoveBytes(d) ==
    /\ Goto(d, "idle", "label")
    /\ vfsLock = None
    /\ vfs' = Without(vfs, path[d])
    /\ vfsLock' = d
    /\ UNCHANGED <<keys, xattrs, xattrsLock, path, writes, result, sweep>>

RemoveHeader(d) ==
    /\ Goto(d, "label", "done")
    /\ xattrsLock = None
    /\ xattrs' = Without(xattrs, path[d])
    /\ vfsLock' = None
    /\ UNCHANGED <<keys, vfs, xattrsLock, path, writes, result, sweep>>

-----------------------------------------------------------------------------
(* reencrypt_zone_edeks *)

\* The target is the newest version before the headers are locked.
ChooseTarget(e) ==
    /\ Goto(e, "idle", "lock")
    /\ wanted' = [wanted EXCEPT ![e] = latest]
    /\ \E S \in SUBSET Zone : scope' = [scope EXCEPT ![e] = S]
    /\ UNCHANGED <<keys, store, path, writes, result, todo>>

\* The path it was given is in no zone.
ZoneNotFound(e) ==
    /\ Goto(e, "idle", "done")
    /\ UNCHANGED <<keys, store, path, writes, result, sweep>>

LockHeaders(e) ==
    /\ Goto(e, "lock", "sweep")
    /\ xattrsLock = None
    /\ xattrsLock' = e
    /\ todo' = [todo EXCEPT ![e] = {p \in scope[e] \cap DOMAIN xattrs : xattrs[p].version # wanted[e]}]
    /\ UNCHANGED <<keys, vfs, xattrs, vfsLock, path, writes, result, wanted, scope>>

\* Every header waits for the key map, so the key may be rolled between two.
RewrapOne(e) ==
    /\ pc[e] = "sweep"
    /\ \E p \in todo[e] :
         /\ xattrs' = [xattrs EXCEPT ![p] = Rewrap(@, <<e, p>>)]
         /\ todo' = [todo EXCEPT ![e] = @ \ {p}]
    /\ UNCHANGED <<keys, vfs, vfsLock, xattrsLock, pc, path, writes, result, wanted, scope>>

UnlockNothing(e) ==                                                \* mutated form
    /\ Goto(e, "sweep", "done")
    /\ todo[e] = {}
    /\ UNCHANGED <<keys, vfs, xattrs, vfsLock, xattrsLock, path, writes, result, sweep>>

UnlockHeaders(e) ==
    /\ Goto(e, "sweep", "done")
    /\ todo[e] = {}
    /\ xattrsLock' = None
    /\ UNCHANGED <<keys, vfs, xattrs, vfsLock, path, writes, result, sweep>>

-----------------------------------------------------------------------------
(* The caller goes away: the call's locks are released where it stands. *)
Abandon(t) ==
    /\ pc[t] \notin {"idle", "done", "abandoned"}
    /\ pc' = [pc EXCEPT ![t] = "abandoned"]
    /\ vfsLock' = IF vfsLock = t THEN None ELSE vfsLock
    /\ xattrsLock' = IF xattrsLock = t THEN None ELSE xattrsLock
    /\ UNCHANGED <<keys, vfs, xattrs, path, writes, result, sweep>>

WriteStep(w) == GenerateEdek(w) \/ NoZone(w) \/ StoreBytes(w) \/ StoreHeader(w)
ReadStep(r) == FileNotFound(r) \/ ReadBytes(r) \/ Decrypt(r)
DeleteStep(d) == RemoveBytes(d) \/ RemoveHeader(d)
SweepStep(e) == ZoneNotFound(e) \/ ChooseTarget(e) \/ LockHeaders(e) \/ RewrapOne(e) \/ UnlockHeaders(e)

Next ==
    \/ Roll
    \/ \E w \in Writer : WriteStep(w)
    \/ \E r \in Reader : ReadStep(r)
    \/ \E d \in Deleter : DeleteStep(d)
    \/ \E e \in Reencrypter : SweepStep(e)
    \/ \E t \in Task : Abandon(t)

Spec == Init /\ [][Next]_vars

-----------------------------------------------------------------------------
(* Properties *)

\* Every variable has the type of the Rust value it stands for.
TypeOK ==
    /\ latest \in 1..MaxVersion
    /\ DOMAIN vfs \subseteq Path /\ vfs \in [DOMAIN vfs -> Blob]
    /\ DOMAIN xattrs \subseteq Path /\ xattrs \in [DOMAIN xattrs -> Header]
    /\ vfsLock \in Writer \cup Deleter \cup {None}
    /\ xattrsLock \in Reencrypter \cup {None}
    /\ pc \in [Task -> {"idle", "store", "label", "decrypt", "lock", "sweep", "done", "abandoned"}]
    /\ path \in [Task -> Path]
    /\ blob \in [Writer \cup Reader -> Blob]
    /\ header \in [Writer -> Header \cup {None}]
    /\ result \in [Reader -> Writer \cup {Garbage, None}]
    /\ wanted \in [Reencrypter -> Nat]
    /\ scope \in [Reencrypter -> SUBSET Path]
    /\ todo \in [Reencrypter -> SUBSET Path]

\* Whatever was rolled and re-encrypted meanwhile, every header's data key can be
\* unwrapped: the version it names exists and is the one that wrapped it.
KeysRecoverable == \A p \in DOMAIN xattrs : Unwrap(xattrs[p]) # Garbage

\* Files whose bytes and header one writer put there and nobody disturbed half way.
Settled(p) ==
    /\ p \in DOMAIN vfs \cap DOMAIN xattrs
    /\ vfs[p].dek # None
    /\ vfsLock = None
    /\ \A t \in Writer \cup Deleter : path[t] = p => pc[t] # "abandoned"

\* Re-encryption preserves data keys: a settled file's header always yields the
\* key its bytes are encrypted with.
DekMatchesBytes == \A p \in DOMAIN vfs : Settled(p) => Unwrap(xattrs[p]) = vfs[p].dek

\* When a sweep ends, no header in its scope is older than its target, even if
\* the key was rolled again while it ran.
SweepReachesTarget ==
    [][\A e \in Reencrypter : UnlockHeaders(e) =>
          \A p \in scope[e] \cap DOMAIN xattrs : xattrs[p].version >= wanted[e]]_vars

\* A read comes out garbled only if a sweep, a delete, a second write or an
\* abandoned call touched the same file; one write and its readers never clash.
GarbageReadExplained ==
    \A r \in Reader : result[r] = Garbage =>
        LET Others == {t \in Task \ Reader : path[t] = path[r] /\ pc[t] # "idle"}
        IN  \/ Cardinality(Others \cap Writer) > 1
            \/ Others \cap Deleter # {}
            \/ \E t \in Others : pc[t] = "abandoned"
            \/ \E e \in Reencrypter : path[r] \in scope[e]

\* Writers and deleters take the VFS lock before the header lock and a sweep takes
\* the header lock only: whoever holds a lock can go on, or waits for one who can.
LocksNeverBlock ==
    LET CanGoOn(t) == \/ pc[t] = "label" /\ xattrsLock = None
                      \/ pc[t] = "sweep"
    IN  /\ vfsLock # None => CanGoOn(vfsLock) \/ CanGoOn(xattrsLock)
        /\ xattrsLock # None => CanGoOn(xattrsLock)

\* What "zero-copy" re-encryption says: it leaves the bytes alone, so a settled
\* file still decrypts to its data.
SettledReadable == \A p \in DOMAIN vfs : Settled(p) => Plaintext(vfs[p], xattrs[p]) = vfs[p].data
=============================================================================
