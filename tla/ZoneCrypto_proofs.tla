------------------------- MODULE ZoneCrypto_proofs -------------------------
(***************************************************************************)
(* Proofs about ZoneCrypto for any number of calls, files and key          *)
(* versions: its types, who holds which lock, that a data key is never     *)
(* lost to key rotation and fits the bytes it is for, that a sweep reaches *)
(* its target, and what it takes for a read to come out garbled.           *)
(***************************************************************************)
EXTENDS ZoneCrypto, FiniteSetTheorems, TLAPS

\* A lock is held exactly by the call that stands between its two halves.
LocksInv ==
    /\ \A t \in Writer \cup Deleter : vfsLock = t <=> pc[t] = "label"
    /\ \A e \in Reencrypter : xattrsLock = e <=> pc[e] = "sweep"

\* A header is consistent with the wrapped key inside it and names a version that exists.
Sound(h) == h.version = h.edek.version /\ h.iv = h.edek.iv /\ h.version \in 1..latest

\* The headers that are stored, and those that are about to be, are sound.
HeadersInv ==
    /\ \A p \in DOMAIN xattrs : Sound(xattrs[p])
    /\ \A w \in Writer : header[w] # None => Sound(header[w])
    /\ \A w \in Writer : pc[w] = "label" => header[w] # None

\* A sweep visits files that have headers.
SweepInv == \A e \in Reencrypter : pc[e] = "sweep" => todo[e] \subseteq DOMAIN xattrs

Inv == TypeOK /\ LocksInv /\ HeadersInv /\ SweepInv

-----------------------------------------------------------------------------
(* Lemmas on headers *)

\* A newly wrapped key is sound.
LEMMA WrapSound ==
  ASSUME Inv, NEW w \in Writer, NEW iv \in IV
  PROVE  Wrap(w, latest, iv) \in Header /\ Sound(Wrap(w, latest, iv))
  BY DEF Inv, TypeOK, Wrap, Header, Edek, Sound

\* Re-encryption gives back a sound header, whatever version it was at.
LEMMA RewrapSound ==
  ASSUME Inv, NEW h \in Header, Sound(h), NEW iv \in IV
  PROVE  Rewrap(h, iv) \in Header /\ Sound(Rewrap(h, iv))
<1>1. Unwrap(h) \in Writer
  BY DEF Unwrap, Sound, Header, Edek
<1> QED
  BY <1>1, WrapSound DEF Rewrap

-----------------------------------------------------------------------------
(* The invariant *)

LEMMA InitInv == Init => Inv
<1> SUFFICES ASSUME Init PROVE Inv
  OBVIOUS
<1>1. NoBlob \in Blob
  BY ZoneAssumption DEF NoBlob, Blob
<1>2. latest \in 1..MaxVersion /\ pc \in [Task -> {"idle"}] /\ path \in [Task -> Path]
  BY ZoneAssumption DEF Init
<1>3. /\ DOMAIN vfs = {} /\ vfs \in [{} -> Blob]
      /\ DOMAIN xattrs = {} /\ xattrs \in [{} -> Header]
  BY DEF Init
<1>4. TypeOK
  BY <1>1, <1>2, <1>3 DEF Init, TypeOK
<1> QED
  BY <1>4, ZoneAssumption DEF Init, Inv, LocksInv, HeadersInv, SweepInv, Task

LEMMA StepInv == Inv /\ [Next]_vars => Inv'
<1> SUFFICES ASSUME Inv, [Next]_vars PROVE Inv'
  OBVIOUS
<1> USE ZoneAssumption DEF Inv, vars, keys, store, writes, sweep, Goto, Task
<1>1. CASE Roll
  BY <1>1 DEF Roll, TypeOK, LocksInv, HeadersInv, SweepInv, Sound
<1>2. ASSUME NEW w \in Writer, GenerateEdek(w) PROVE Inv'
  <2>1. Wrap(w, latest, w) \in Header /\ Sound(Wrap(w, latest, w))
    BY WrapSound DEF IV
  <2>2. TypeOK'
    BY <1>2, <2>1 DEF GenerateEdek, TypeOK, Blob, IV
  <2> QED
    BY <1>2, <2>1, <2>2 DEF GenerateEdek, TypeOK, LocksInv, HeadersInv, SweepInv, Sound
<1>3. ASSUME NEW w \in Writer, NoZone(w) PROVE Inv'
  <2>1. TypeOK'
    BY <1>3 DEF NoZone, TypeOK, Blob
  <2> QED
    BY <1>3, <2>1 DEF NoZone, TypeOK, LocksInv, HeadersInv, SweepInv, Sound
<1>4. ASSUME NEW w \in Writer, StoreBytes(w) PROVE Inv'
  <2>0. DOMAIN vfs \subseteq Path /\ vfs \in [DOMAIN vfs -> Blob]
    BY DEF TypeOK
  <2>1. path[w] \in Path /\ blob[w] \in Blob
    BY DEF TypeOK
  <2>2. DOMAIN vfs' \subseteq Path /\ vfs' \in [DOMAIN vfs' -> Blob]
    BY <1>4, <2>0, <2>1 DEF StoreBytes, Put
  <2>3. TypeOK'
    BY <1>4, <2>2 DEF StoreBytes, TypeOK
  <2> QED
    BY <1>4, <2>3 DEF StoreBytes, TypeOK, LocksInv, HeadersInv, SweepInv, Sound
<1>5. ASSUME NEW w \in Writer, StoreHeader(w) PROVE Inv'
  <2>0. DOMAIN xattrs \subseteq Path /\ xattrs \in [DOMAIN xattrs -> Header]
    BY DEF TypeOK
  <2>1. path[w] \in Path /\ header[w] \in Header /\ Sound(header[w])
    BY <1>5 DEF StoreHeader, TypeOK, HeadersInv
  <2>2. /\ DOMAIN xattrs' = DOMAIN xattrs \cup {path[w]} /\ xattrs' \in [DOMAIN xattrs' -> Header]
        /\ \A p \in DOMAIN xattrs' : Sound(xattrs'[p])
    BY <1>5, <2>0, <2>1 DEF StoreHeader, Put, HeadersInv
  <2>3. TypeOK'
    BY <1>5, <2>1, <2>2 DEF StoreHeader, TypeOK
  <2> QED
    BY <1>5, <2>2, <2>3 DEF StoreHeader, TypeOK, LocksInv, HeadersInv, SweepInv, Sound
<1>6. ASSUME NEW r \in Reader, FileNotFound(r) PROVE Inv'
  BY <1>6 DEF FileNotFound, TypeOK, LocksInv, HeadersInv, SweepInv, Sound
<1>7. ASSUME NEW r \in Reader, ReadBytes(r) PROVE Inv'
  <2>1. TypeOK'
    BY <1>7 DEF ReadBytes, TypeOK
  <2> QED
    BY <1>7, <2>1 DEF ReadBytes, TypeOK, LocksInv, HeadersInv, SweepInv, Sound
<1>8. ASSUME NEW r \in Reader, Decrypt(r) PROVE Inv'
  <2>1. Plaintext(blob[r], HeaderOf(path[r])) \in Writer \cup {Garbage}
    BY DEF Plaintext, TypeOK, Blob
  <2>2. TypeOK'
    BY <1>8, <2>1 DEF Decrypt, TypeOK
  <2> QED
    BY <1>8, <2>2 DEF Decrypt, TypeOK, LocksInv, HeadersInv, SweepInv, Sound
<1>9. ASSUME NEW d \in Deleter, RemoveBytes(d) PROVE Inv'
  <2>0. DOMAIN vfs \subseteq Path /\ vfs \in [DOMAIN vfs -> Blob]
    BY DEF TypeOK
  <2>1. path[d] \in Path
    BY DEF TypeOK
  <2>2. DOMAIN vfs' \subseteq Path /\ vfs' \in [DOMAIN vfs' -> Blob]
    BY <1>9, <2>0, <2>1 DEF RemoveBytes, Without
  <2>3. TypeOK'
    BY <1>9, <2>2 DEF RemoveBytes, TypeOK
  <2> QED
    BY <1>9, <2>3 DEF RemoveBytes, TypeOK, LocksInv, HeadersInv, SweepInv, Sound
<1>10. ASSUME NEW d \in Deleter, RemoveHeader(d) PROVE Inv'
  <2>0. DOMAIN xattrs \subseteq Path /\ xattrs \in [DOMAIN xattrs -> Header]
    BY DEF TypeOK
  <2>1. path[d] \in Path /\ \A e \in Reencrypter : pc[e] # "sweep"
    BY <1>10 DEF RemoveHeader, TypeOK, LocksInv
  <2>2. /\ DOMAIN xattrs' = DOMAIN xattrs \ {path[d]} /\ xattrs' \in [DOMAIN xattrs' -> Header]
        /\ \A p \in DOMAIN xattrs' : Sound(xattrs'[p])
    BY <1>10, <2>0, <2>1 DEF RemoveHeader, Without, HeadersInv, Sound
  <2>3. TypeOK'
    BY <1>10, <2>1, <2>2 DEF RemoveHeader, TypeOK
  <2> QED
    BY <1>10, <2>1, <2>2, <2>3 DEF RemoveHeader, TypeOK, LocksInv, HeadersInv, SweepInv, Sound
<1>11. ASSUME NEW e \in Reencrypter, ChooseTarget(e) PROVE Inv'
  <2>1. PICK S \in SUBSET Zone : scope' = [scope EXCEPT ![e] = S]
    BY <1>11 DEF ChooseTarget
  <2>2. TypeOK'
    BY <1>11, <2>1 DEF ChooseTarget, TypeOK
  <2> QED
    BY <1>11, <2>2 DEF ChooseTarget, TypeOK, LocksInv, HeadersInv, SweepInv, Sound
<1>12. ASSUME NEW e \in Reencrypter, ZoneNotFound(e) PROVE Inv'
  BY <1>12 DEF ZoneNotFound, TypeOK, LocksInv, HeadersInv, SweepInv, Sound
<1>13. ASSUME NEW e \in Reencrypter, LockHeaders(e) PROVE Inv'
  <2>1. TypeOK'
    BY <1>13 DEF LockHeaders, TypeOK
  <2> QED
    BY <1>13, <2>1 DEF LockHeaders, TypeOK, LocksInv, HeadersInv, SweepInv, Sound
<1>14. ASSUME NEW e \in Reencrypter, RewrapOne(e) PROVE Inv'
  <2>1. PICK p \in todo[e] : /\ xattrs' = [xattrs EXCEPT ![p] = Rewrap(xattrs[p], <<e, p>>)]
                             /\ todo' = [todo EXCEPT ![e] = todo[e] \ {p}]
    BY <1>14 DEF RewrapOne
  <2>2. p \in DOMAIN xattrs /\ p \in Path /\ <<e, p>> \in IV
    BY <1>14 DEF RewrapOne, SweepInv, TypeOK, IV
  <2>3. Rewrap(xattrs[p], <<e, p>>) \in Header /\ Sound(Rewrap(xattrs[p], <<e, p>>))
    BY <2>2, RewrapSound DEF TypeOK, HeadersInv
  <2>4. DOMAIN xattrs' = DOMAIN xattrs /\ xattrs' \in [DOMAIN xattrs' -> Header]
    BY <2>1, <2>3 DEF TypeOK
  <2>5. TypeOK'
    BY <1>14, <2>1, <2>4 DEF RewrapOne, TypeOK
  <2>6. \A q \in DOMAIN xattrs' : Sound(xattrs'[q])
    BY <1>14, <2>1, <2>3 DEF HeadersInv, RewrapOne
  <2> QED
    BY <1>14, <2>1, <2>4, <2>5, <2>6 DEF RewrapOne, TypeOK, LocksInv, HeadersInv, SweepInv, Sound
<1>15. ASSUME NEW e \in Reencrypter, UnlockHeaders(e) PROVE Inv'
  BY <1>15 DEF UnlockHeaders, TypeOK, LocksInv, HeadersInv, SweepInv, Sound
<1>16. ASSUME NEW t \in Task, Abandon(t) PROVE Inv'
  BY <1>16 DEF Abandon, TypeOK, LocksInv, HeadersInv, SweepInv, Sound
<1>17. CASE UNCHANGED vars
  BY <1>17 DEF TypeOK, LocksInv, HeadersInv, SweepInv, Sound
<1> QED
  BY <1>1, <1>2, <1>3, <1>4, <1>5, <1>6, <1>7, <1>8, <1>9, <1>10, <1>11, <1>12, <1>13, <1>14,
     <1>15, <1>16, <1>17 DEF Next, WriteStep, ReadStep, DeleteStep, SweepStep

LEMMA AlwaysInv == Spec => []Inv
  BY InitInv, StepInv, PTL DEF Spec

-----------------------------------------------------------------------------

\* The stores and the calls keep to their types (hdfs.rs, kms.rs).
THEOREM TypeCorrect == Spec => []TypeOK
<1>1. Inv => TypeOK
  BY DEF Inv
<1> QED
  BY <1>1, AlwaysInv, PTL

\* However rolls, sweeps, writes and abandoned calls interleave, every stored
\* header can be unwrapped (roll_new_master_key_version, reencrypt_single_edek).
THEOREM KeysRecoverableHolds == Spec => []KeysRecoverable
<1>1. Inv => KeysRecoverable
  BY ZoneAssumption DEF Inv, TypeOK, HeadersInv, Sound, KeysRecoverable, Unwrap, Header, Edek
<1> QED
  BY <1>1, AlwaysInv, PTL

\* The two locks are taken in one order: there is always a holder that can go on.
THEOREM LocksNeverBlockHold == Spec => []LocksNeverBlock
<1>1. Inv => LocksNeverBlock
  BY ZoneAssumption DEF Inv, TypeOK, LocksInv, LocksNeverBlock
<1> QED
  BY <1>1, AlwaysInv, PTL

-----------------------------------------------------------------------------
(* A sweep reaches its target: only the sweep itself changes headers while it *)
(* holds them, and it re-wraps under a version no older than the target.      *)

TargetInv ==
    /\ \A e \in Reencrypter : pc[e] \in {"lock", "sweep"} => wanted[e] =< latest
    /\ \A e \in Reencrypter : pc[e] = "sweep" =>
          \A p \in (scope[e] \cap DOMAIN xattrs) \ todo[e] : xattrs[p].version >= wanted[e]

\* Re-encryption brings a header to the newest version.
LEMMA RewrapNewest ==
  ASSUME NEW h, NEW iv
  PROVE  Rewrap(h, iv).version = latest
  BY DEF Rewrap, Wrap

LEMMA TargetStep == Inv /\ TargetInv /\ [Next]_vars => TargetInv'
<1> SUFFICES ASSUME Inv, TargetInv, [Next]_vars PROVE TargetInv'
  OBVIOUS
<1> USE ZoneAssumption DEF vars, keys, store, writes, sweep, Goto, Task
<1>0. /\ latest \in Nat /\ wanted \in [Reencrypter -> Nat]
      /\ pc \in [Task -> {"idle", "store", "label", "decrypt", "lock", "sweep", "done", "abandoned"}]
      /\ \A e \in Reencrypter : xattrsLock = e <=> pc[e] = "sweep"
  BY DEF Inv, TypeOK, LocksInv
<1>1. CASE Roll
  BY <1>0, <1>1 DEF Roll, TargetInv
<1>2. ASSUME NEW w \in Writer, GenerateEdek(w) \/ NoZone(w) \/ StoreBytes(w) PROVE TargetInv'
  BY <1>0, <1>2 DEF GenerateEdek, NoZone, StoreBytes, TargetInv
<1>3. ASSUME NEW w \in Writer, StoreHeader(w) PROVE TargetInv'
  BY <1>0, <1>3 DEF StoreHeader, TargetInv
<1>4. ASSUME NEW r \in Reader, ReadStep(r) PROVE TargetInv'
  BY <1>0, <1>4 DEF ReadStep, FileNotFound, ReadBytes, Decrypt, TargetInv
<1>5. ASSUME NEW d \in Deleter, DeleteStep(d) PROVE TargetInv'
  BY <1>0, <1>5 DEF DeleteStep, RemoveBytes, RemoveHeader, TargetInv
<1>6. ASSUME NEW e \in Reencrypter, ZoneNotFound(e) \/ UnlockHeaders(e) PROVE TargetInv'
  BY <1>0, <1>6 DEF ZoneNotFound, UnlockHeaders, TargetInv
<1>7. ASSUME NEW e \in Reencrypter, ChooseTarget(e) PROVE TargetInv'
  <2>1. PICK S \in SUBSET Zone : scope' = [scope EXCEPT ![e] = S]
    BY <1>7 DEF ChooseTarget
  <2> QED
    BY <1>0, <1>7, <2>1 DEF ChooseTarget, TargetInv, Inv, TypeOK
<1>8. ASSUME NEW e \in Reencrypter, LockHeaders(e) PROVE TargetInv'
  <2>1. \A p \in (scope[e] \cap DOMAIN xattrs) \ todo'[e] : xattrs[p].version = wanted[e]
    BY <1>8 DEF LockHeaders, Inv, TypeOK
  <2>2. \A f \in Reencrypter : pc'[f] = "sweep" => f = e
    BY <1>0, <1>8 DEF LockHeaders
  <2> QED
    BY <1>0, <1>8, <2>1, <2>2 DEF LockHeaders, TargetInv
<1>9. ASSUME NEW e \in Reencrypter, RewrapOne(e) PROVE TargetInv'
  <2>1. PICK p \in todo[e] : /\ xattrs' = [xattrs EXCEPT ![p] = Rewrap(xattrs[p], <<e, p>>)]
                             /\ todo' = [todo EXCEPT ![e] = todo[e] \ {p}]
    BY <1>9 DEF RewrapOne
  <2>2. p \in DOMAIN xattrs => xattrs'[p].version = latest
    BY <2>1, RewrapNewest
  <2>3. todo'[e] = todo[e] \ {p} /\ DOMAIN xattrs' = DOMAIN xattrs
    BY <2>1 DEF Inv, TypeOK
  <2>4. \A q \in (scope[e] \cap DOMAIN xattrs) \ todo'[e] : xattrs'[q].version >= wanted[e]
    BY <1>0, <1>9, <2>1, <2>2, <2>3 DEF RewrapOne, TargetInv
  <2>5. \A f \in Reencrypter : pc[f] = "sweep" => f = e
    BY <1>0, <1>9 DEF RewrapOne
  <2> QED
    BY <1>0, <1>9, <2>3, <2>4, <2>5 DEF RewrapOne, TargetInv
<1>10. ASSUME NEW t \in Task, Abandon(t) PROVE TargetInv'
  BY <1>0, <1>10 DEF Abandon, TargetInv
<1>11. CASE UNCHANGED vars
  BY <1>11 DEF TargetInv
<1> QED
  BY <1>1, <1>2, <1>3, <1>4, <1>5, <1>6, <1>7, <1>8, <1>9, <1>10, <1>11
  DEF Next, WriteStep, SweepStep

\* Even if the key is rolled while a sweep runs, the sweep leaves no header in its
\* scope older than the version it set out for (reencrypt_zone_edeks).
THEOREM SweepReachesTargetHolds == Spec => SweepReachesTarget
<1>1. Init => TargetInv
  BY DEF Init, TargetInv, Task
<1>2. ASSUME TargetInv, NEW e \in Reencrypter, UnlockHeaders(e)
      PROVE  \A p \in scope[e] \cap DOMAIN xattrs : xattrs[p].version >= wanted[e]
  BY <1>2 DEF TargetInv, UnlockHeaders, Goto
<1>3. TargetInv => [\A e \in Reencrypter : UnlockHeaders(e) =>
          \A p \in scope[e] \cap DOMAIN xattrs : xattrs[p].version >= wanted[e]]_vars
  BY <1>2
<1> QED
  BY <1>1, <1>3, TargetStep, AlwaysInv, PTL DEF Spec, SweepReachesTarget

-----------------------------------------------------------------------------
(* Bytes and header fit, where one writer put both. *)

\* A writer's header wraps the key its bytes are under, and names their IV.
WriterInv ==
    \A w \in Writer :
       /\ pc[w] = "idle" => header[w] = None
       /\ header[w] # None => header[w].edek.dek = blob[w].dek /\ header[w].iv = blob[w].iv
       /\ pc[w] # "idle" /\ header[w] = None => blob[w].dek = None

\* Behind the VFS lock the bytes are the writer's, or gone.
HolderInv ==
    /\ \A w \in Writer : pc[w] = "label" => path[w] \in DOMAIN vfs /\ vfs[path[w]] = blob[w]
    /\ \A d \in Deleter : pc[d] = "label" => path[d] \notin DOMAIN vfs

\* Nobody stands, or was dropped, between the two halves of a change to the file.
Undisturbed(p) ==
    /\ \A t \in Writer \cup Deleter : path[t] = p => pc[t] # "abandoned"
    /\ \A w \in Writer : path[w] = p => pc[w] # "label"

PairInv ==
    \A p \in DOMAIN vfs \cap DOMAIN xattrs :
       vfs[p].dek # None /\ Undisturbed(p) => xattrs[p].edek.dek = vfs[p].dek

DekInv == WriterInv /\ HolderInv /\ PairInv

\* Re-encryption keeps the data key.
LEMMA RewrapKeepsDek ==
  ASSUME NEW h \in Header, Sound(h), NEW iv
  PROVE  Rewrap(h, iv).edek.dek = h.edek.dek
  BY DEF Rewrap, Wrap, Unwrap, Sound

LEMMA DekStep == Inv /\ DekInv /\ [Next]_vars => DekInv'
<1> SUFFICES ASSUME Inv, DekInv, [Next]_vars PROVE DekInv'
  OBVIOUS
<1> USE ZoneAssumption DEF vars, keys, store, writes, sweep, Goto, Task
<1>0. /\ pc \in [Task -> {"idle", "store", "label", "decrypt", "lock", "sweep", "done", "abandoned"}]
      /\ path \in [Task -> Path]
      /\ blob \in [Writer \cup Reader -> Blob]
      /\ header \in [Writer -> Header \cup {None}]
      /\ \A t \in Writer \cup Deleter : vfsLock = t <=> pc[t] = "label"
      /\ \A w \in Writer : pc[w] = "label" => header[w] # None
  BY DEF Inv, TypeOK, LocksInv, HeadersInv
<1>1. CASE Roll
  BY <1>1 DEF Roll, DekInv, WriterInv, HolderInv, PairInv, Undisturbed
<1>2. ASSUME NEW w \in Writer, GenerateEdek(w) PROVE DekInv'
  <2>0. /\ Wrap(w, latest, w) \in Header
        /\ Wrap(w, latest, w).edek.dek = w
        /\ Wrap(w, latest, w).iv = w
    BY WrapSound DEF IV, Wrap
  <2>1. WriterInv'
    <3>1. /\ pc'[w] = "store" /\ blob'[w].dek = w /\ blob'[w].iv = w
          /\ header'[w] # None /\ header'[w].edek.dek = w /\ header'[w].iv = w
      BY <1>0, <1>2, <2>0 DEF GenerateEdek
    <3>2. \A v \in Writer : v # w => pc'[v] = pc[v] /\ blob'[v] = blob[v] /\ header'[v] = header[v]
      BY <1>0, <1>2 DEF GenerateEdek
    <3> QED
      BY <3>1, <3>2 DEF DekInv, WriterInv
  <2> QED
    BY <1>0, <1>2, <2>1 DEF GenerateEdek, DekInv, HolderInv, PairInv, Undisturbed
<1>3. ASSUME NEW w \in Writer, NoZone(w) PROVE DekInv'
  <2>1. WriterInv'
    BY <1>0, <1>3 DEF NoZone, DekInv, WriterInv
  <2> QED
    BY <1>0, <1>3, <2>1 DEF NoZone, DekInv, HolderInv, PairInv, Undisturbed
<1>4. ASSUME NEW w \in Writer, StoreBytes(w) PROVE DekInv'
  <2>1. /\ DOMAIN vfs' = DOMAIN vfs \cup {path[w]}
        /\ vfs'[path[w]] = blob[w]
        /\ \A q \in DOMAIN vfs : q # path[w] => vfs'[q] = vfs[q]
    BY <1>4 DEF StoreBytes, Put
  <2>2. /\ \A t \in Writer \cup Deleter : pc[t] # "label"
        /\ \A t \in Writer \cup Deleter : pc'[t] = "label" => t = w
        /\ header[w] # None => pc'[w] = "label"
        /\ pc[w] = "store"
    BY <1>0, <1>4 DEF StoreBytes
  <2>3. WriterInv'
    BY <1>0, <1>4 DEF StoreBytes, DekInv, WriterInv
  <2>4. HolderInv'
    BY <1>0, <1>4, <2>1, <2>2 DEF StoreBytes, HolderInv
  <2>5. \A t \in Writer \cup Deleter : pc'[t] = "abandoned" <=> pc[t] = "abandoned"
    BY <1>0, <1>4 DEF StoreBytes
  <2>6. ASSUME NEW p \in DOMAIN vfs' \cap DOMAIN xattrs, vfs'[p].dek # None, Undisturbed(p)'
        PROVE  xattrs[p].edek.dek = vfs'[p].dek
    <3>1. p # path[w]
      BY <1>4, <2>1, <2>2, <2>6 DEF StoreBytes, Undisturbed, DekInv, WriterInv
    <3>2. Undisturbed(p)
      BY <1>4, <2>2, <2>5, <2>6 DEF StoreBytes, Undisturbed
    <3> QED
      BY <2>1, <2>6, <3>1, <3>2 DEF DekInv, PairInv
  <2> QED
    BY <1>4, <2>3, <2>4, <2>6 DEF StoreBytes, DekInv, PairInv
<1>5. ASSUME NEW w \in Writer, StoreHeader(w) PROVE DekInv'
  <2>1. /\ DOMAIN xattrs' = DOMAIN xattrs \cup {path[w]}
        /\ xattrs'[path[w]] = header[w]
        /\ \A q \in DOMAIN xattrs : q # path[w] => xattrs'[q] = xattrs[q]
    BY <1>5 DEF StoreHeader, Put
  <2>2. WriterInv' /\ HolderInv'
    BY <1>0, <1>5 DEF StoreHeader, DekInv, WriterInv, HolderInv
  <2>3. ASSUME NEW p \in DOMAIN vfs \cap DOMAIN xattrs', vfs[p].dek # None, Undisturbed(p)'
        PROVE  xattrs'[p].edek.dek = vfs[p].dek
    <3>1. CASE p = path[w]
      BY <1>0, <1>5, <2>1, <3>1 DEF StoreHeader, DekInv, WriterInv, HolderInv
    <3>2. CASE p # path[w]
      <4>1. Undisturbed(p)
        BY <1>0, <1>5, <2>3, <3>2 DEF StoreHeader, Undisturbed
      <4> QED
        BY <2>1, <2>3, <3>2, <4>1 DEF DekInv, PairInv
    <3> QED
      BY <3>1, <3>2
  <2> QED
    BY <1>5, <2>2, <2>3 DEF StoreHeader, DekInv, PairInv
<1>6. ASSUME NEW r \in Reader, ReadStep(r) PROVE DekInv'
  BY <1>0, <1>6 DEF ReadStep, FileNotFound, ReadBytes, Decrypt, DekInv, WriterInv, HolderInv, PairInv, Undisturbed
<1>7. ASSUME NEW d \in Deleter, RemoveBytes(d) PROVE DekInv'
  <2>1. /\ DOMAIN vfs' = DOMAIN vfs \ {path[d]}
        /\ \A q \in DOMAIN vfs' : vfs'[q] = vfs[q]
    BY <1>7 DEF RemoveBytes, Without
  <2>2. \A t \in Writer : pc'[t] = pc[t] /\ pc[t] # "label"
    BY <1>0, <1>7 DEF RemoveBytes
  <2>3. \A t \in Writer \cup Deleter : /\ pc'[t] = "abandoned" <=> pc[t] = "abandoned"
                                       /\ t \in Deleter /\ pc'[t] = "label" => t = d
    BY <1>0, <1>7 DEF RemoveBytes
  <2> QED
    BY <1>7, <2>1, <2>2, <2>3 DEF RemoveBytes, DekInv, WriterInv, HolderInv, PairInv, Undisturbed
<1>8. ASSUME NEW d \in Deleter, RemoveHeader(d) PROVE DekInv'
  <2>1. /\ DOMAIN xattrs' = DOMAIN xattrs \ {path[d]}
        /\ \A q \in DOMAIN xattrs' : xattrs'[q] = xattrs[q]
    BY <1>8 DEF RemoveHeader, Without
  <2>2. /\ \A t \in Writer : pc'[t] = pc[t]
        /\ \A t \in Writer \cup Deleter : /\ pc'[t] = "abandoned" <=> pc[t] = "abandoned"
                                          /\ pc'[t] = "label" => pc[t] = "label"
    BY <1>0, <1>8 DEF RemoveHeader
  <2> QED
    BY <1>8, <2>1, <2>2 DEF RemoveHeader, DekInv, WriterInv, HolderInv, PairInv, Undisturbed
<1>9. ASSUME NEW e \in Reencrypter,
             ZoneNotFound(e) \/ ChooseTarget(e) \/ LockHeaders(e) \/ UnlockHeaders(e)
      PROVE  DekInv'
  <2>1. \A t \in Writer \cup Deleter : pc'[t] = pc[t]
    BY <1>0, <1>9 DEF ZoneNotFound, ChooseTarget, LockHeaders, UnlockHeaders
  <2>2. UNCHANGED <<vfs, xattrs, path, blob, header>>
    BY <1>9 DEF ZoneNotFound, ChooseTarget, LockHeaders, UnlockHeaders
  <2> QED
    BY <2>1, <2>2 DEF DekInv, WriterInv, HolderInv, PairInv, Undisturbed
<1>10. ASSUME NEW e \in Reencrypter, RewrapOne(e) PROVE DekInv'
  <2>1. PICK p \in todo[e] : xattrs' = [xattrs EXCEPT ![p] = Rewrap(xattrs[p], <<e, p>>)]
    BY <1>10 DEF RewrapOne
  <2>2. \A q \in DOMAIN xattrs : xattrs[q] \in Header /\ Sound(xattrs[q])
    BY DEF Inv, TypeOK, HeadersInv
  <2>3. /\ DOMAIN xattrs' = DOMAIN xattrs
        /\ \A q \in DOMAIN xattrs : xattrs'[q].edek.dek = xattrs[q].edek.dek
    BY <2>1, <2>2, RewrapKeepsDek
  <2> QED
    BY <1>10, <2>3 DEF RewrapOne, DekInv, WriterInv, HolderInv, PairInv, Undisturbed
<1>11. ASSUME NEW t \in Task, Abandon(t) PROVE DekInv'
  <2>1. \A u \in Task : u # t => pc'[u] = pc[u]
    BY <1>0, <1>11 DEF Abandon
  <2>2. pc'[t] = "abandoned"
    BY <1>0, <1>11 DEF Abandon
  <2> QED
    BY <1>11, <2>1, <2>2 DEF Abandon, DekInv, WriterInv, HolderInv, PairInv, Undisturbed
<1>12. CASE UNCHANGED vars
  BY <1>12 DEF DekInv, WriterInv, HolderInv, PairInv, Undisturbed
<1> QED
  BY <1>1, <1>2, <1>3, <1>4, <1>5, <1>6, <1>7, <1>8, <1>9, <1>10, <1>11, <1>12
  DEF Next, WriteStep, DeleteStep, SweepStep

\* Where one writer put bytes and header and nobody was dropped half way, the header
\* yields the key of the bytes, whatever was rolled and swept since.
THEOREM DekMatchesBytesHolds == Spec => []DekMatchesBytes
<1>1. Init => DekInv
  BY DEF Init, DekInv, WriterInv, HolderInv, PairInv, Task
<1>2. ASSUME Inv, DekInv, NEW p \in DOMAIN vfs, Settled(p)
      PROVE  Unwrap(xattrs[p]) = vfs[p].dek
  <2>1. Undisturbed(p)
    BY <1>2, ZoneAssumption DEF Settled, Undisturbed, Inv, LocksInv, Task
  <2>2. xattrs[p].edek.dek = vfs[p].dek /\ Sound(xattrs[p])
    BY <1>2, <2>1 DEF Settled, DekInv, PairInv, Inv, HeadersInv
  <2> QED
    BY <2>2 DEF Unwrap, Sound
<1>3. Inv /\ DekInv => DekMatchesBytes
  BY <1>2 DEF DekMatchesBytes
<1> QED
  BY <1>1, <1>3, DekStep, AlwaysInv, PTL DEF Spec

-----------------------------------------------------------------------------
(* What a reader gets of a file that only one write has touched. *)

\* At most one write, no delete, nothing dropped half way and no sweep.
Quiet(p) ==
    /\ \A w, v \in Writer : path[w] = p /\ path[v] = p /\ pc[w] # "idle" /\ pc[v] # "idle" => w = v
    /\ \A w \in Writer : path[w] = p => pc[w] # "abandoned"
    /\ \A d \in Deleter : path[d] = p => pc[d] = "idle"
    /\ \A e \in Reencrypter : p \notin scope[e]

\* A sweep visits files in its scope, which it has once it has begun.
ScopeInv ==
    \A e \in Reencrypter :
       /\ pc[e] = "sweep" => todo[e] \subseteq scope[e]
       /\ pc[e] = "idle" => scope[e] = {}

\* Bytes and header in the stores are those of the write.
StoredAt(p) ==
    /\ p \in DOMAIN vfs =>
         \E w \in Writer : path[w] = p /\ pc[w] \in {"label", "done"} /\ vfs[p] = blob[w]
    /\ p \in DOMAIN xattrs =>
         \E w \in Writer : path[w] = p /\ pc[w] = "done" /\ header[w] # None
    /\ \A w \in Writer : path[w] = p /\ pc[w] = "done" /\ header[w] # None =>
         p \in DOMAIN xattrs /\ xattrs[p] = header[w]

\* A reader gets bytes only after the writer has put its header too.
ReaderAt(r) ==
    /\ result[r] # Garbage
    /\ pc[r] = "decrypt" =>
         \E w \in Writer : path[w] = path[r] /\ pc[w] = "done" /\ blob[r] = blob[w]

ReadInv ==
    /\ ScopeInv
    /\ \A p \in Path : Quiet(p) => StoredAt(p)
    /\ \A r \in Reader : Quiet(path[r]) => ReaderAt(r)

\* Whoever has touched a file has touched it for good.
LEMMA QuietBefore ==
  ASSUME Inv, ScopeInv, [Next]_vars, NEW p \in Path, Quiet(p)'
  PROVE  Quiet(p)
<1> USE ZoneAssumption DEF Task, Goto, Next, vars, keys, store, writes, sweep, Roll, WriteStep, GenerateEdek, NoZone, StoreBytes, StoreHeader,
         ReadStep, FileNotFound, ReadBytes, Decrypt, DeleteStep, RemoveBytes, RemoveHeader, SweepStep,
         ZoneNotFound, ChooseTarget, LockHeaders, RewrapOne, UnlockHeaders, Abandon
<1>0. /\ pc \in [Task -> {"idle", "store", "label", "decrypt", "lock", "sweep", "done", "abandoned"}]
      /\ scope \in [Reencrypter -> SUBSET Path]
  BY DEF Inv, TypeOK
<1>1. path' = path
  OBVIOUS
<1>2. \A t \in Task : pc'[t] = "idle" => pc[t] = "idle"
  BY <1>0
<1>3. \A t \in Task : pc[t] = "abandoned" => pc'[t] = "abandoned"
  BY <1>0
<1>4. \A e \in Reencrypter : scope[e] \subseteq scope'[e]
  BY <1>0 DEF ScopeInv
<1> QED
  BY <1>1, <1>2, <1>3, <1>4 DEF Quiet

LEMMA ScopeStep == Inv /\ ScopeInv /\ [Next]_vars => ScopeInv'
<1> SUFFICES ASSUME Inv, ScopeInv, [Next]_vars PROVE ScopeInv'
  OBVIOUS
<1> USE ZoneAssumption DEF vars, keys, store, writes, sweep, Goto, Task
<1>0. /\ pc \in [Task -> {"idle", "store", "label", "decrypt", "lock", "sweep", "done", "abandoned"}]
      /\ scope \in [Reencrypter -> SUBSET Path] /\ todo \in [Reencrypter -> SUBSET Path]
  BY DEF Inv, TypeOK
<1>1. ASSUME \A e \in Reencrypter : pc'[e] = pc[e] \/ pc'[e] \in {"done", "abandoned"},
             UNCHANGED <<scope, todo>>
      PROVE  ScopeInv'
  BY <1>1 DEF ScopeInv
<1>2. CASE Roll
  BY <1>1, <1>2 DEF Roll
<1>3. ASSUME NEW w \in Writer, WriteStep(w) PROVE ScopeInv'
  BY <1>0, <1>1, <1>3 DEF WriteStep, GenerateEdek, NoZone, StoreBytes, StoreHeader
<1>4. ASSUME NEW r \in Reader, ReadStep(r) PROVE ScopeInv'
  BY <1>0, <1>1, <1>4 DEF ReadStep, FileNotFound, ReadBytes, Decrypt
<1>5. ASSUME NEW d \in Deleter, DeleteStep(d) PROVE ScopeInv'
  BY <1>0, <1>1, <1>5 DEF DeleteStep, RemoveBytes, RemoveHeader
<1>6. ASSUME NEW e \in Reencrypter, ZoneNotFound(e) \/ UnlockHeaders(e) PROVE ScopeInv'
  BY <1>0, <1>1, <1>6 DEF ZoneNotFound, UnlockHeaders
<1>7. ASSUME NEW e \in Reencrypter, ChooseTarget(e) PROVE ScopeInv'
  BY <1>0, <1>7 DEF ChooseTarget, ScopeInv
<1>8. ASSUME NEW e \in Reencrypter, LockHeaders(e) PROVE ScopeInv'
  BY <1>0, <1>8 DEF LockHeaders, ScopeInv
<1>9. ASSUME NEW e \in Reencrypter, RewrapOne(e) PROVE ScopeInv'
  <2>1. \E p \in todo[e] : todo' = [todo EXCEPT ![e] = todo[e] \ {p}]
    BY <1>9 DEF RewrapOne
  <2> QED
    BY <1>0, <1>9, <2>1 DEF RewrapOne, ScopeInv
<1>10. ASSUME NEW t \in Task, Abandon(t) PROVE ScopeInv'
  BY <1>0, <1>1, <1>10 DEF Abandon
<1>11. CASE UNCHANGED vars
  BY <1>1, <1>11
<1> QED
  BY <1>2, <1>3, <1>4, <1>5, <1>6, <1>7, <1>8, <1>9, <1>10, <1>11 DEF Next, SweepStep

LEMMA StoredStep ==
  ASSUME Inv, DekInv, ScopeInv, [Next]_vars,
         NEW p \in Path, Quiet(p), Quiet(p)', StoredAt(p)
  PROVE  StoredAt(p)'
<1> USE ZoneAssumption DEF vars, keys, store, writes, sweep, Goto, Task
<1>0. /\ pc \in [Task -> {"idle", "store", "label", "decrypt", "lock", "sweep", "done", "abandoned"}]
      /\ path \in [Task -> Path]
      /\ blob \in [Writer \cup Reader -> Blob]
      /\ header \in [Writer -> Header \cup {None}]
      /\ \A w \in Writer : pc[w] = "label" => header[w] # None
  BY DEF Inv, TypeOK, HeadersInv
<1>1. CASE Roll
  BY <1>1 DEF Roll, StoredAt
<1>2. ASSUME NEW w \in Writer, GenerateEdek(w) \/ NoZone(w) PROVE StoredAt(p)'
  <2>1. /\ pc[w] = "idle" /\ pc'[w] = "store"
        /\ \A v \in Writer : v # w => pc'[v] = pc[v] /\ blob'[v] = blob[v] /\ header'[v] = header[v]
        /\ UNCHANGED <<vfs, xattrs, path>>
    BY <1>0, <1>2 DEF GenerateEdek, NoZone
  <2> QED
    BY <2>1 DEF StoredAt
<1>3. ASSUME NEW w \in Writer, StoreBytes(w) PROVE StoredAt(p)'
  <2>1. /\ DOMAIN vfs' = DOMAIN vfs \cup {path[w]}
        /\ vfs'[path[w]] = blob[w]
        /\ \A q \in DOMAIN vfs : q # path[w] => vfs'[q] = vfs[q]
    BY <1>3 DEF StoreBytes, Put
  <2>2. /\ pc[w] = "store" /\ pc'[w] = IF header[w] = None THEN "done" ELSE "label"
        /\ \A v \in Writer : v # w => pc'[v] = pc[v]
        /\ UNCHANGED <<xattrs, path, blob, header>>
    BY <1>0, <1>3 DEF StoreBytes
  <2>3. CASE path[w] = p
    <3>1. \A v \in Writer : path[v] = p /\ pc[v] = "done" => FALSE
      BY <2>2, <2>3 DEF Quiet
    <3> QED
      BY <2>1, <2>2, <2>3, <3>1 DEF StoredAt
  <2>4. CASE path[w] # p
    BY <2>1, <2>2, <2>4 DEF StoredAt
  <2> QED
    BY <2>3, <2>4
<1>4. ASSUME NEW w \in Writer, StoreHeader(w) PROVE StoredAt(p)'
  <2>1. /\ DOMAIN xattrs' = DOMAIN xattrs \cup {path[w]}
        /\ xattrs'[path[w]] = header[w]
        /\ \A q \in DOMAIN xattrs : q # path[w] => xattrs'[q] = xattrs[q]
    BY <1>4 DEF StoreHeader, Put
  <2>2. /\ pc[w] = "label" /\ pc'[w] = "done" /\ header[w] # None
        /\ \A v \in Writer : v # w => pc'[v] = pc[v]
        /\ UNCHANGED <<vfs, path, blob, header>>
    BY <1>0, <1>4 DEF StoreHeader
  <2>3. CASE path[w] = p
    <3>1. \A v \in Writer : path[v] = p /\ pc[v] # "idle" => v = w
      BY <2>2, <2>3 DEF Quiet
    <3> QED
      BY <2>1, <2>2, <2>3, <3>1 DEF StoredAt
  <2>4. CASE path[w] # p
    BY <2>1, <2>2, <2>4 DEF StoredAt
  <2> QED
    BY <2>3, <2>4
<1>5. ASSUME NEW r \in Reader, ReadStep(r) PROVE StoredAt(p)'
  <2>1. /\ \A w \in Writer : pc'[w] = pc[w] /\ blob'[w] = blob[w]
        /\ UNCHANGED <<vfs, xattrs, path, header>>
    BY <1>0, <1>5 DEF ReadStep, FileNotFound, ReadBytes, Decrypt
  <2> QED
    BY <2>1 DEF StoredAt
<1>6. ASSUME NEW d \in Deleter, DeleteStep(d) PROVE StoredAt(p)'
  <2>1. /\ \A w \in Writer : pc'[w] = pc[w]
        /\ path[d] # p
        /\ UNCHANGED <<path, blob, header>>
    BY <1>0, <1>6 DEF DeleteStep, RemoveBytes, RemoveHeader, Quiet
  <2>2. /\ p \in DOMAIN vfs' <=> p \in DOMAIN vfs
        /\ p \in DOMAIN xattrs' <=> p \in DOMAIN xattrs
        /\ p \in DOMAIN vfs => vfs'[p] = vfs[p]
        /\ p \in DOMAIN xattrs => xattrs'[p] = xattrs[p]
    BY <1>6, <2>1 DEF DeleteStep, RemoveBytes, RemoveHeader, Without
  <2> QED
    BY <2>1, <2>2 DEF StoredAt
<1>7. ASSUME NEW e \in Reencrypter, SweepStep(e) PROVE StoredAt(p)'
  <2>1. /\ \A w \in Writer : pc'[w] = pc[w]
        /\ UNCHANGED <<vfs, path, blob, header>>
    BY <1>0, <1>7 DEF SweepStep, ZoneNotFound, ChooseTarget, LockHeaders, RewrapOne, UnlockHeaders
  <2>2. /\ DOMAIN xattrs' = DOMAIN xattrs
        /\ p \in DOMAIN xattrs => xattrs'[p] = xattrs[p]
    BY <1>7 DEF SweepStep, ZoneNotFound, ChooseTarget, LockHeaders, RewrapOne, UnlockHeaders, ScopeInv, Quiet
  <2> QED
    BY <2>1, <2>2 DEF StoredAt
<1>8. ASSUME NEW t \in Task, Abandon(t) PROVE StoredAt(p)'
  <2>1. /\ \A w \in Writer : path[w] = p => pc'[w] = pc[w]
        /\ UNCHANGED <<vfs, xattrs, path, blob, header>>
    BY <1>0, <1>8 DEF Abandon, Quiet
  <2> QED
    BY <2>1 DEF StoredAt
<1>9. CASE UNCHANGED vars
  BY <1>9 DEF StoredAt
<1> QED
  BY <1>1, <1>2, <1>3, <1>4, <1>5, <1>6, <1>7, <1>8, <1>9 DEF Next, WriteStep

LEMMA ReaderStep ==
  ASSUME Inv, DekInv, ScopeInv, [Next]_vars, NEW r \in Reader, Quiet(path[r]), Quiet(path[r])',
         StoredAt(path[r]), ReaderAt(r)
  PROVE  ReaderAt(r)'
<1> USE ZoneAssumption DEF vars, keys, store, writes, sweep, Goto, Task
<1>0. /\ pc \in [Task -> {"idle", "store", "label", "decrypt", "lock", "sweep", "done", "abandoned"}]
      /\ path \in [Task -> Path]
      /\ blob \in [Writer \cup Reader -> Blob]
      /\ header \in [Writer -> Header \cup {None}]
      /\ result \in [Reader -> Writer \cup {Garbage, None}]
      /\ \A t \in Writer \cup Deleter : vfsLock = t <=> pc[t] = "label"
  BY DEF Inv, TypeOK, LocksInv
<1>1. ASSUME UNCHANGED <<path, result>>, blob'[r] = blob[r], pc'[r] = "decrypt" => pc[r] = "decrypt",
             \A w \in Writer : pc[w] = "done" => pc'[w] = "done" /\ blob'[w] = blob[w]
      PROVE  ReaderAt(r)'
  BY <1>1 DEF ReaderAt
<1>2. CASE Roll
  BY <1>1, <1>2 DEF Roll
<1>3. ASSUME NEW w \in Writer, WriteStep(w) PROVE ReaderAt(r)'
  BY <1>0, <1>1, <1>3 DEF WriteStep, GenerateEdek, NoZone, StoreBytes, StoreHeader
<1>4. ASSUME NEW q \in Reader, q # r, ReadStep(q) PROVE ReaderAt(r)'
  BY <1>0, <1>4 DEF ReadStep, FileNotFound, ReadBytes, Decrypt, ReaderAt
<1>5. CASE FileNotFound(r)
  BY <1>0, <1>5 DEF FileNotFound, ReaderAt
<1>6. CASE ReadBytes(r)
  <2>1. PICK w \in Writer : path[w] = path[r] /\ pc[w] \in {"label", "done"} /\ vfs[path[r]] = blob[w]
    BY <1>6 DEF ReadBytes, StoredAt
  <2>2. pc[w] = "done"
    BY <1>0, <1>6, <2>1 DEF ReadBytes
  <2>3. path' = path /\ result' = result /\ blob'[r] = blob[w] /\ blob'[w] = blob[w] /\ pc'[w] = "done"
    BY <1>0, <1>6, <2>1, <2>2 DEF ReadBytes
  <2> QED
    BY <2>1, <2>3 DEF ReaderAt
<1>7. CASE Decrypt(r)
  <2>1. PICK w \in Writer : path[w] = path[r] /\ pc[w] = "done" /\ blob[r] = blob[w]
    BY <1>7 DEF Decrypt, ReaderAt
  <2>2. HeaderOf(path[r]) = header[w]
    <3>1. path[r] \in DOMAIN xattrs => header[w] # None
      BY <2>1 DEF StoredAt, Quiet
    <3> QED
      BY <2>1, <3>1 DEF StoredAt, HeaderOf
  <2>3. blob[w].data \in Writer
    BY <1>0 DEF Blob
  <2>4. Plaintext(blob[r], HeaderOf(path[r])) # Garbage
    <3>1. CASE header[w] = None
      BY <2>1, <2>2, <2>3, <3>1 DEF Plaintext, DekInv, WriterInv
    <3>2. CASE header[w] # None
      <4>1. Sound(header[w]) /\ header[w].edek.dek = blob[w].dek /\ header[w].iv = blob[w].iv
        BY <3>2 DEF Inv, HeadersInv, DekInv, WriterInv
      <4> QED
        BY <2>1, <2>2, <2>3, <3>2, <4>1 DEF Plaintext, Unwrap, Sound
    <3> QED
      BY <3>1, <3>2
  <2>5. result'[r] # Garbage /\ pc'[r] = "done"
    BY <1>0, <1>7, <2>4 DEF Decrypt
  <2> QED
    BY <2>5 DEF ReaderAt
<1>8. ASSUME NEW d \in Deleter, DeleteStep(d) PROVE ReaderAt(r)'
  BY <1>0, <1>1, <1>8 DEF DeleteStep, RemoveBytes, RemoveHeader
<1>9. ASSUME NEW e \in Reencrypter, SweepStep(e) PROVE ReaderAt(r)'
  BY <1>0, <1>1, <1>9 DEF SweepStep, ZoneNotFound, ChooseTarget, LockHeaders, RewrapOne, UnlockHeaders
<1>10. ASSUME NEW t \in Task, Abandon(t) PROVE ReaderAt(r)'
  BY <1>0, <1>1, <1>10 DEF Abandon
<1>11. CASE UNCHANGED vars
  BY <1>1, <1>11
<1> QED
  BY <1>2, <1>3, <1>4, <1>5, <1>6, <1>7, <1>8, <1>9, <1>10, <1>11 DEF Next, ReadStep

LEMMA PathFixed == [Next]_vars => path' = path
  BY DEF Next, vars, keys, store, writes, sweep, Roll, WriteStep, GenerateEdek, NoZone, StoreBytes,
     StoreHeader, ReadStep, FileNotFound, ReadBytes, Decrypt, DeleteStep, RemoveBytes, RemoveHeader,
     SweepStep, ZoneNotFound, ChooseTarget, LockHeaders, RewrapOne, UnlockHeaders, Abandon

LEMMA ReadInvStep == Inv /\ DekInv /\ ReadInv /\ [Next]_vars => ReadInv'
<1> SUFFICES ASSUME Inv, DekInv, ReadInv, [Next]_vars PROVE ReadInv'
  OBVIOUS
<1>1. ScopeInv /\ ScopeInv' /\ path' = path /\ \A r \in Reader : path[r] \in Path
  BY ScopeStep, PathFixed DEF ReadInv, Inv, TypeOK, Task
<1>2. ASSUME NEW p \in Path, Quiet(p)' PROVE Quiet(p) /\ StoredAt(p) /\ StoredAt(p)'
  <2>1. Quiet(p) /\ StoredAt(p)
    BY <1>1, <1>2, QuietBefore DEF ReadInv
  <2> QED
    BY <1>1, <1>2, <2>1, StoredStep
<1>3. ASSUME NEW r \in Reader, Quiet(path[r])' PROVE ReaderAt(r)'
  <2>1. PICK p \in Path : p = path[r]
    BY <1>1
  <2>2. Quiet(p)'
    BY <1>1, <1>3, <2>1 DEF Quiet
  <2>3. Quiet(p) /\ StoredAt(p)
    BY <1>2, <2>2
  <2>4. Quiet(path[r]) /\ StoredAt(path[r]) /\ ReaderAt(r)
    BY <2>1, <2>3 DEF ReadInv
  <2> QED
    BY <1>1, <1>3, <2>4, ReaderStep
<1> QED
  BY <1>1, <1>2, <1>3 DEF ReadInv

\* A garbled read has one of four causes: a second write, a delete or an abandoned call of
\* the same file, or a sweep over it.  A write and its readers alone never clash, wherever
\* a reader comes between the two halves (write_file_as, read_file_as).
THEOREM GarbageReadExplainedHolds ==
  ASSUME IsFiniteSet(Writer)
  PROVE  Spec => []GarbageReadExplained
<1>1. Init => DekInv /\ ReadInv
  BY ZoneAssumption DEF Init, DekInv, WriterInv, HolderInv, PairInv, Task, ReadInv, ScopeInv, StoredAt, ReaderAt
<1>2. ASSUME Inv, ReadInv, NEW r \in Reader, result[r] = Garbage
      PROVE  LET Others == {t \in Task \ Reader : path[t] = path[r] /\ pc[t] # "idle"}
             IN  \/ Cardinality(Others \cap Writer) > 1
                 \/ Others \cap Deleter # {}
                 \/ \E t \in Others : pc[t] = "abandoned"
                 \/ \E e \in Reencrypter : path[r] \in scope[e]
  <2> DEFINE Others == {t \in Task \ Reader : path[t] = path[r] /\ pc[t] # "idle"}
  <2>1. ~Quiet(path[r])
    BY <1>2 DEF ReadInv, ReaderAt
  <2>2. ASSUME NEW w \in Writer, NEW v \in Writer, w # v, path[w] = path[r], path[v] = path[r],
               pc[w] # "idle", pc[v] # "idle"
        PROVE  Cardinality(Others \cap Writer) > 1
    <3>1. {w, v} \subseteq Others \cap Writer
      BY <2>2, ZoneAssumption DEF Task
    <3>2. IsFiniteSet(Others \cap Writer)
      BY FS_Subset
    <3>3. Cardinality({w, v}) = 2
      <4>1. {w, v} = {w} \cup {v} /\ v \notin {w}
        BY <2>2
      <4>2. IsFiniteSet({w}) /\ Cardinality({w}) = 1
        BY FS_Singleton
      <4>3. Cardinality({w} \cup {v}) = Cardinality({w}) + 1
        BY <4>1, <4>2, FS_AddElement
      <4> QED
        BY <4>1, <4>2, <4>3
    <3>4. Cardinality({w, v}) =< Cardinality(Others \cap Writer)
      BY <3>1, <3>2, FS_Subset
    <3>5. Cardinality(Others \cap Writer) \in Nat
      BY <3>2, FS_CardinalityType
    <3> QED
      BY <3>3, <3>4, <3>5
  <2>3. ASSUME NEW t \in Writer \cup Deleter, path[t] = path[r], pc[t] # "idle"
        PROVE  t \in Others
    BY <2>3, ZoneAssumption DEF Task
  <2>4. CASE \E w \in Writer : path[w] = path[r] /\ pc[w] = "abandoned"
    BY <2>3, <2>4
  <2>5. CASE \E d \in Deleter : path[d] = path[r] /\ pc[d] # "idle"
    BY <2>3, <2>5
  <2> HIDE DEF Others
  <2> QED
    BY <2>1, <2>2, <2>4, <2>5 DEF Quiet, Others
<1>3. Inv /\ ReadInv => GarbageReadExplained
  BY <1>2 DEF GarbageReadExplained
<1> QED
  BY <1>1, <1>3, DekStep, ReadInvStep, AlwaysInv, PTL DEF Spec
=============================================================================
