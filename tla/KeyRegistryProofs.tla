------------------------- MODULE KeyRegistryProofs -------------------------
(***************************************************************************)
(* Proofs, for any number of handles and threads and for every clock       *)
(* reading, that the registry keeps its invariant, that the reaper spares  *)
(* live keys and that the registry implements KeyLifecycle; and, for       *)
(* SecretMemory, that no copy of a secret outlives the vault it came from. *)
(***************************************************************************)
EXTENDS SecretMemory, FiniteSetTheorems, TLAPS

(* Most steps below are about sets, records and functions alone, and are   *)
(* left to Zenon; a step that needs more says so.                          *)
USE Zenon

-----------------------------------------------------------------------------
(* The number of threads that hold a record is a natural number, and it is *)
(* zero exactly when no thread does.                                       *)
LEMMA OwnerCount ==
  ASSUME NEW h
  PROVE  /\ IsFiniteSet(Owner(h))
         /\ Cardinality(Owner(h)) \in Nat
         /\ Cardinality(Owner(h)) = 0 <=> Owner(h) = {}
<1>1. Owner(h) \subseteq Thread
  BY DEF Owner
<1>2. IsFiniteSet(Owner(h))
  BY <1>1, RegistryAssumption, FS_Subset
<1> QED
  BY <1>2, FS_CardinalityType, FS_EmptySet

(* A thread that takes hold of h adds one owner to h and none to others.   *)
LEMMA AcquireOwners ==
  ASSUME TypeOK, NEW t \in Thread, NEW h \in KeyHandle, held[t] = None,
         held' = [held EXCEPT ![t] = h],
         NEW g \in KeyHandle
  PROVE  Cardinality(Owner(g))' =
           Cardinality(Owner(g)) + (IF g = h THEN 1 ELSE 0)
<1>0. None \notin KeyHandle
  BY RegistryAssumption
<1>1. CASE g = h
  <2>1. Owner(g)' = Owner(g) \cup {t} /\ t \notin Owner(g)
    BY <1>0, <1>1 DEF TypeOK, Owner
  <2>2. Cardinality(Owner(g) \cup {t}) = Cardinality(Owner(g)) + 1
    BY <2>1, OwnerCount, FS_AddElement
  <2> QED
    BY <1>1, <2>1, <2>2
<1>2. CASE g # h
  <2>1. Owner(g)' = Owner(g)
    BY <1>0, <1>2 DEF TypeOK, Owner
  <2> QED
    BY SMT, <1>2, <2>1, OwnerCount
<1> QED
  BY <1>1, <1>2

(* A thread that lets go of the record it holds takes one owner from it.   *)
LEMMA ReleaseOwners ==
  ASSUME TypeOK, NEW t \in Thread, held[t] \in KeyHandle,
         held' = [held EXCEPT ![t] = None],
         NEW g \in KeyHandle
  PROVE  Cardinality(Owner(g))' =
           Cardinality(Owner(g)) - (IF g = held[t] THEN 1 ELSE 0)
<1>0. None \notin KeyHandle
  BY RegistryAssumption
<1>1. CASE g = held[t]
  <2>1. Owner(g)' = Owner(g) \ {t} /\ t \in Owner(g)
    BY <1>0, <1>1 DEF TypeOK, Owner
  <2>2. Cardinality(Owner(g) \ {t}) = Cardinality(Owner(g)) - 1
    BY <2>1, OwnerCount, FS_RemoveElement
  <2> QED
    BY <1>1, <2>1, <2>2
<1>2. CASE g # held[t]
  <2>1. Owner(g)' = Owner(g)
    BY <1>0, <1>2 DEF TypeOK, Owner
  <2> QED
    BY SMT, <1>2, <2>1, OwnerCount
<1> QED
  BY <1>1, <1>2

(* Dropping Arcs of records that have an owner keeps the counts natural    *)
(* and zeroizes exactly the material whose count reaches zero.             *)
LEMMA DropArcsEffect ==
  ASSUME TypeOK, SecretWhileCounted,
         NEW S \in SUBSET KeyHandle, \A h \in S : refs[h] > 0,
         DropArcs(S)
  PROVE  /\ refs' \in [KeyHandle -> Nat]
         /\ vault' \in [KeyHandle -> {"unborn", "secret", "zeroized"}]
         /\ SecretWhileCounted'
         /\ \A h \in KeyHandle :
              refs'[h] = refs[h] - (IF h \in S THEN 1 ELSE 0)
<1>1. \A h \in KeyHandle : refs[h] \in Nat /\ (h \in S => refs[h] - 1 \in Nat)
  BY SMT DEF TypeOK
<1>2. \A h \in KeyHandle :
        refs'[h] = IF h \in S THEN refs[h] - 1 ELSE refs[h]
  BY DEF DropArcs
<1>3. refs' \in [KeyHandle -> Nat]
  BY <1>1 DEF DropArcs
<1>4. \A h \in KeyHandle :
        vault'[h] = IF h \in S /\ refs[h] = 1 THEN "zeroized" ELSE vault[h]
  BY DEF DropArcs
<1>5. vault' \in [KeyHandle -> {"unborn", "secret", "zeroized"}]
  BY DEF DropArcs, TypeOK
<1>6. SecretWhileCounted'
  BY SMT, <1>1, <1>2, <1>4 DEF SecretWhileCounted
<1>7. \A h \in KeyHandle : refs'[h] = refs[h] - (IF h \in S THEN 1 ELSE 0)
  BY SMT, <1>1, <1>2
<1> QED
  BY <1>3, <1>5, <1>6, <1>7

(* The map's own Arc counts.                                               *)
LEMMA StoredIsCounted ==
  ASSUME RegistryInv, NEW h \in keys
  PROVE  h \in KeyHandle /\ refs[h] > 0 /\ vault[h] = "secret"
BY SMT, OwnerCount DEF RegistryInv, TypeOK, RefsCountOwners, SecretWhileCounted

(* So does the reference of a thread that is not idle.                     *)
LEMMA HeldIsCounted ==
  ASSUME RegistryInv, NEW t \in Thread, pc[t] # "idle"
  PROVE  held[t] \in KeyHandle /\ refs[held[t]] > 0 /\ vault[held[t]] = "secret"
<1>1. held[t] \in KeyHandle
  BY DEF RegistryInv, TypeOK, IdleHoldsNothing
<1>2. t \in Owner(held[t])
  BY DEF Owner
<1>3. Cardinality(Owner(held[t])) > 0
  BY SMT, <1>2, OwnerCount
<1> QED
  BY SMT, <1>1, <1>3, OwnerCount DEF RegistryInv, RefsCountOwners, SecretWhileCounted

-----------------------------------------------------------------------------
(* The invariant holds when the process starts.                            *)
LEMMA InitInv == Init => RegistryInv
<1> SUFFICES ASSUME Init PROVE RegistryInv
  OBVIOUS
<1>0. None \notin KeyHandle
  BY RegistryAssumption
<1>1. TypeOK
  BY DEF Init, TypeOK
<1>2. \A h \in KeyHandle : Owner(h) = {}
  BY <1>0 DEF Init, Owner
<1>3. RefsCountOwners
  BY SMT, <1>2, OwnerCount DEF Init, RefsCountOwners
<1> QED
  BY SMT, <1>1, <1>3 DEF Init, RegistryInv, SecretWhileCounted, IdleHoldsNothing,
                    PendingIsPrivate, ReaperBehindClock

(* An action of thread t that takes hold of h keeps the other threads'     *)
(* pending records private and idle threads empty-handed.                  *)
LEMMA AcquireKeepsThreads ==
  ASSUME RegistryInv, NEW t \in Thread, NEW h \in KeyHandle, pc[t] = "idle",
         NEW p \in {"created", "got", "removed"},
         Acquire(t, h, p), keys' \subseteq keys,
         p = "created" => h \notin keys /\ Owner(h) = {},
         p # "created" => h \in keys
  PROVE  /\ pc' \in [Thread -> {"idle", "created", "got", "removed"}]
         /\ held' \in [Thread -> KeyHandle \cup {None}]
         /\ IdleHoldsNothing'
         /\ PendingIsPrivate'
<1>0. None \notin KeyHandle
  BY RegistryAssumption
<1>1. /\ pc' = [pc EXCEPT ![t] = p]
      /\ held' = [held EXCEPT ![t] = h]
  BY DEF Acquire
<1>2. pc \in [Thread -> {"idle", "created", "got", "removed"}]
      /\ held \in [Thread -> KeyHandle \cup {None}]
  BY DEF RegistryInv, TypeOK
<1>3. IdleHoldsNothing'
  BY <1>0, <1>1, <1>2 DEF RegistryInv, IdleHoldsNothing
<1>4. PendingIsPrivate'
  <2> SUFFICES ASSUME NEW u \in Thread, pc'[u] = "created"
               PROVE  held'[u] \notin keys' /\ Owner(held[u])' = {u}
    BY DEF PendingIsPrivate
  <2>1. CASE u = t
    <3>1. p = "created" /\ held'[u] = h
      BY <1>1, <1>2, <2>1
    <3>2. Owner(h)' = {u}
      BY <1>1, <1>2, <2>1, <3>1 DEF Owner
    <3> QED
      BY <3>1, <3>2
  <2>2. CASE u # t
    <3>1. pc[u] = "created" /\ held'[u] = held[u]
      BY <1>1, <1>2, <2>2
    <3>2. held[u] \notin keys /\ Owner(held[u]) = {u}
      BY <3>1 DEF RegistryInv, PendingIsPrivate
    <3>3. h # held[u]
      <4>1. CASE p = "created"
        BY <3>2, <4>1
      <4>2. CASE p # "created"
        BY <3>2, <4>2
      <4> QED
        BY <4>1, <4>2
    <3>4. \A v \in Thread : held'[v] = held[u] <=> held[v] = held[u]
      <4>1. held[t] # held[u]
        BY SMT, <2>2, <3>2 DEF Owner
      <4> QED
        BY <1>1, <1>2, <3>3, <4>1
    <3> QED
      BY <3>1, <3>2, <3>4 DEF Owner
  <2> QED
    BY <2>1, <2>2
<1> QED
  BY <1>1, <1>2, <1>3, <1>4

(* An action of thread t that lets go of its record, with no new record in *)
(* the map but that one, does the same.                                    *)
LEMMA ReleaseKeepsThreads ==
  ASSUME RegistryInv, NEW t \in Thread, pc[t] # "idle",
         Release(t), keys' \subseteq keys \cup {held[t]}
  PROVE  /\ pc' \in [Thread -> {"idle", "created", "got", "removed"}]
         /\ held' \in [Thread -> KeyHandle \cup {None}]
         /\ IdleHoldsNothing'
         /\ PendingIsPrivate'
<1>0. None \notin KeyHandle
  BY RegistryAssumption
<1>1. /\ pc' = [pc EXCEPT ![t] = "idle"]
      /\ held' = [held EXCEPT ![t] = None]
  BY DEF Release, Acquire
<1>2. pc \in [Thread -> {"idle", "created", "got", "removed"}]
      /\ held \in [Thread -> KeyHandle \cup {None}]
  BY DEF RegistryInv, TypeOK
<1>3. IdleHoldsNothing'
  BY <1>0, <1>1, <1>2 DEF RegistryInv, IdleHoldsNothing
<1>4. PendingIsPrivate'
  <2> SUFFICES ASSUME NEW u \in Thread, pc'[u] = "created"
               PROVE  held'[u] \notin keys' /\ Owner(held[u])' = {u}
    BY DEF PendingIsPrivate
  <2>1. u # t /\ pc[u] = "created" /\ held'[u] = held[u]
    BY <1>1, <1>2
  <2>2. held[u] \notin keys /\ Owner(held[u]) = {u}
    BY <2>1 DEF RegistryInv, PendingIsPrivate
  <2>3. held[t] # held[u]
    BY <2>1, <2>2 DEF Owner
  <2>4. held[u] \in KeyHandle
    BY <2>1, HeldIsCounted
  <2>5. \A v \in Thread : held'[v] = held[u] <=> held[v] = held[u]
    BY <1>0, <1>1, <1>2, <2>3, <2>4
  <2> QED
    BY <2>1, <2>2, <2>3, <2>5 DEF Owner
<1> QED
  BY <1>1, <1>2, <1>3, <1>4

(* Every step keeps the invariant.                                         *)
LEMMA NextInv == RegistryInv /\ [Next]_vars => RegistryInv'
<1> SUFFICES ASSUME RegistryInv, [Next]_vars PROVE RegistryInv'
  OBVIOUS
<1> USE RegistryAssumption
<1>0. TypeOK /\ RefsCountOwners /\ SecretWhileCounted /\ IdleHoldsNothing
      /\ PendingIsPrivate /\ ReaperBehindClock
  BY DEF RegistryInv
<1>1. ASSUME NEW t \in Thread, NEW h \in KeyHandle, NEW life \in Lifespan,
             CreateKey(t, h, life)
      PROVE  RegistryInv'
  <2>1. held[t] = None /\ now + life \in Nat
    BY SMT, <1>0, <1>1 DEF CreateKey, IdleHoldsNothing, TypeOK
  <2>2. refs[h] = 0 /\ h \notin keys /\ Owner(h) = {}
    <3>1. ~(refs[h] > 0) /\ refs[h] \in Nat
      BY <1>0, <1>1 DEF CreateKey, SecretWhileCounted, TypeOK
    <3> QED
      BY SMT, <1>0, <3>1, OwnerCount DEF RefsCountOwners
  <2>3. IdleHoldsNothing' /\ PendingIsPrivate'
        /\ pc' \in [Thread -> {"idle", "created", "got", "removed"}]
        /\ held' \in [Thread -> KeyHandle \cup {None}]
    BY <1>1, <2>2, AcquireKeepsThreads DEF CreateKey
  <2>4. TypeOK'
    BY <1>0, <1>1, <2>1, <2>3 DEF CreateKey, TypeOK
  <2>5. RefsCountOwners'
    <3> SUFFICES ASSUME NEW g \in KeyHandle
                 PROVE  refs'[g] = Cardinality(Owner(g))'
                                   + (IF g \in keys' THEN 1 ELSE 0)
      BY DEF RefsCountOwners
    <3>1. Cardinality(Owner(g))' =
            Cardinality(Owner(g)) + (IF g = h THEN 1 ELSE 0)
      BY <1>0, <1>1, <2>1, AcquireOwners DEF CreateKey, Acquire
    <3>2. refs'[g] = IF g = h THEN 1 ELSE refs[g]
      BY <1>0, <1>1 DEF CreateKey, TypeOK
    <3> QED
      BY SMT, <1>0, <1>1, <2>2, <3>1, <3>2, OwnerCount
      DEF CreateKey, RefsCountOwners
  <2>6. SecretWhileCounted'
    BY SMT, <1>0, <1>1 DEF CreateKey, TypeOK, SecretWhileCounted
  <2> QED
    BY <1>0, <1>1, <2>3, <2>4, <2>5, <2>6
    DEF CreateKey, RegistryInv, ReaperBehindClock
<1>2. ASSUME NEW t \in Thread, NEW h \in KeyHandle, NEW life \in Lifespan,
             CreateKeyOverflow(t, h, life)
      PROVE  RegistryInv'
  <2>1. TypeOK' /\ SecretWhileCounted'
    BY <1>0, <1>2 DEF CreateKeyOverflow, TypeOK, SecretWhileCounted
  <2> QED
    BY <1>0, <1>2, <2>1
    DEF CreateKeyOverflow, RegistryInv, RefsCountOwners, Owner,
        IdleHoldsNothing, PendingIsPrivate, ReaperBehindClock
<1>3. ASSUME NEW t \in Thread, AddKey(t)
      PROVE  RegistryInv'
  <2>1. held[t] \in KeyHandle /\ held[t] \notin keys /\ pc[t] # "idle"
    BY <1>0, <1>3, HeldIsCounted DEF AddKey, PendingIsPrivate
  <2>2. IdleHoldsNothing' /\ PendingIsPrivate'
        /\ pc' \in [Thread -> {"idle", "created", "got", "removed"}]
        /\ held' \in [Thread -> KeyHandle \cup {None}]
    BY <1>3, <2>1, ReleaseKeepsThreads DEF AddKey
  <2>3. TypeOK'
    BY <1>0, <1>3, <2>1, <2>2 DEF AddKey, TypeOK
  <2>4. RefsCountOwners'
    <3> SUFFICES ASSUME NEW g \in KeyHandle
                 PROVE  refs'[g] = Cardinality(Owner(g))'
                                   + (IF g \in keys' THEN 1 ELSE 0)
      BY DEF RefsCountOwners
    <3>1. Cardinality(Owner(g))' =
            Cardinality(Owner(g)) - (IF g = held[t] THEN 1 ELSE 0)
      BY <1>0, <1>3, <2>1, ReleaseOwners DEF AddKey, Release, Acquire
    <3>2. refs'[g] = refs[g] /\ keys' = keys \cup {held[t]}
      BY <1>3 DEF AddKey
    <3> QED
      BY SMT, <1>0, <2>1, <3>1, <3>2, OwnerCount DEF RefsCountOwners
  <2> QED
    BY <1>0, <1>3, <2>2, <2>3, <2>4
    DEF AddKey, RegistryInv, SecretWhileCounted, ReaperBehindClock
<1>4. ASSUME NEW t \in Thread, NEW h \in KeyHandle, GetKey(t, h)
      PROVE  RegistryInv'
  <2>1. held[t] = None
    BY <1>0, <1>4 DEF GetKey, IdleHoldsNothing
  <2>2. IdleHoldsNothing' /\ PendingIsPrivate'
        /\ pc' \in [Thread -> {"idle", "created", "got", "removed"}]
        /\ held' \in [Thread -> KeyHandle \cup {None}]
    BY <1>4, AcquireKeepsThreads DEF GetKey
  <2>3. \A g \in KeyHandle : refs'[g] = IF g = h THEN refs[g] + 1 ELSE refs[g]
    BY <1>0, <1>4 DEF GetKey, TypeOK
  <2>4. TypeOK'
    BY SMT, <1>0, <1>4, <2>2 DEF GetKey, TypeOK
  <2>5. RefsCountOwners'
    <3> SUFFICES ASSUME NEW g \in KeyHandle
                 PROVE  refs'[g] = Cardinality(Owner(g))'
                                   + (IF g \in keys' THEN 1 ELSE 0)
      BY DEF RefsCountOwners
    <3>1. Cardinality(Owner(g))' =
            Cardinality(Owner(g)) + (IF g = h THEN 1 ELSE 0)
      BY <1>0, <1>4, <2>1, AcquireOwners DEF GetKey, Acquire
    <3> QED
      BY SMT, <1>0, <1>4, <2>3, <3>1, OwnerCount DEF GetKey, RefsCountOwners
  <2>6. SecretWhileCounted'
    <3>1. vault' = vault /\ refs[h] > 0
      BY <1>4, StoredIsCounted DEF GetKey
    <3> QED
      BY SMT, <1>0, <2>3, <3>1 DEF SecretWhileCounted, TypeOK
  <2> QED
    BY <1>0, <1>4, <2>2, <2>4, <2>5, <2>6
    DEF GetKey, RegistryInv, ReaperBehindClock
<1>5. ASSUME NEW t \in Thread, NEW h \in KeyHandle, RemoveKey(t, h)
      PROVE  RegistryInv'
  <2>1. held[t] = None
    BY <1>0, <1>5 DEF RemoveKey, IdleHoldsNothing
  <2>2. IdleHoldsNothing' /\ PendingIsPrivate'
        /\ pc' \in [Thread -> {"idle", "created", "got", "removed"}]
        /\ held' \in [Thread -> KeyHandle \cup {None}]
    BY <1>5, AcquireKeepsThreads DEF RemoveKey
  <2>3. TypeOK'
    BY <1>0, <1>5, <2>2 DEF RemoveKey, TypeOK
  <2>4. RefsCountOwners'
    <3> SUFFICES ASSUME NEW g \in KeyHandle
                 PROVE  refs'[g] = Cardinality(Owner(g))'
                                   + (IF g \in keys' THEN 1 ELSE 0)
      BY DEF RefsCountOwners
    <3>1. Cardinality(Owner(g))' =
            Cardinality(Owner(g)) + (IF g = h THEN 1 ELSE 0)
      BY <1>0, <1>5, <2>1, AcquireOwners DEF RemoveKey, Acquire
    <3> QED
      BY SMT, <1>0, <1>5, <3>1, OwnerCount DEF RemoveKey, RefsCountOwners
  <2> QED
    BY <1>0, <1>5, <2>2, <2>3, <2>4
    DEF RemoveKey, RegistryInv, SecretWhileCounted, ReaperBehindClock
<1>6. ASSUME NEW t \in Thread, DropRecord(t)
      PROVE  RegistryInv'
  <2>1. held[t] \in KeyHandle /\ refs[held[t]] > 0 /\ pc[t] # "idle"
    BY <1>6, HeldIsCounted DEF DropRecord
  <2>2. IdleHoldsNothing' /\ PendingIsPrivate'
        /\ pc' \in [Thread -> {"idle", "created", "got", "removed"}]
        /\ held' \in [Thread -> KeyHandle \cup {None}]
    BY <1>6, <2>1, ReleaseKeepsThreads DEF DropRecord
  <2>3. /\ refs' \in [KeyHandle -> Nat]
        /\ vault' \in [KeyHandle -> {"unborn", "secret", "zeroized"}]
        /\ SecretWhileCounted'
        /\ \A h \in KeyHandle :
             refs'[h] = refs[h] - (IF h \in {held[t]} THEN 1 ELSE 0)
    BY SMT, <1>0, <1>6, <2>1, DropArcsEffect DEF DropRecord
  <2>4. TypeOK'
    BY <1>0, <1>6, <2>2, <2>3 DEF DropRecord, TypeOK
  <2>5. RefsCountOwners'
    <3> SUFFICES ASSUME NEW g \in KeyHandle
                 PROVE  refs'[g] = Cardinality(Owner(g))'
                                   + (IF g \in keys' THEN 1 ELSE 0)
      BY DEF RefsCountOwners
    <3>1. Cardinality(Owner(g))' =
            Cardinality(Owner(g)) - (IF g = held[t] THEN 1 ELSE 0)
      BY <1>0, <1>6, <2>1, ReleaseOwners DEF DropRecord, Release, Acquire
    <3> QED
      BY SMT, <1>0, <1>6, <2>3, <3>1, OwnerCount DEF DropRecord, RefsCountOwners
  <2> QED
    BY <1>0, <1>6, <2>2, <2>3, <2>4, <2>5
    DEF DropRecord, RegistryInv, ReaperBehindClock
<1>7. ASSUME NEW t \in Thread, RemoveAllKeys(t)
      PROVE  RegistryInv'
  <2>1. /\ refs' \in [KeyHandle -> Nat]
        /\ vault' \in [KeyHandle -> {"unborn", "secret", "zeroized"}]
        /\ SecretWhileCounted'
        /\ \A h \in KeyHandle :
             refs'[h] = refs[h] - (IF h \in keys THEN 1 ELSE 0)
    BY <1>0, <1>7, StoredIsCounted, DropArcsEffect DEF RemoveAllKeys, TypeOK
  <2>2. TypeOK'
    BY <1>0, <1>7, <2>1 DEF RemoveAllKeys, TypeOK
  <2>3. RefsCountOwners'
    <3> SUFFICES ASSUME NEW g \in KeyHandle
                 PROVE  refs'[g] = Cardinality(Owner(g))'
                                   + (IF g \in keys' THEN 1 ELSE 0)
      BY DEF RefsCountOwners
    <3>1. Owner(g)' = Owner(g) /\ keys' = {}
      BY <1>7 DEF RemoveAllKeys, Owner
    <3> QED
      BY SMT, <1>0, <2>1, <3>1, OwnerCount DEF RefsCountOwners
  <2> QED
    BY <1>0, <1>7, <2>1, <2>2, <2>3
    DEF RemoveAllKeys, RegistryInv, IdleHoldsNothing, PendingIsPrivate, Owner,
        ReaperBehindClock
<1>8. CASE ReaperReadClock
  BY SMT, <1>0, <1>8
  DEF ReaperReadClock, RegistryInv, TypeOK, RefsCountOwners, Owner,
      SecretWhileCounted, IdleHoldsNothing, PendingIsPrivate, ReaperBehindClock
<1>9. CASE ReaperRetain
  <2> DEFINE S == {h \in keys : delete_after[h] <= reaperNow}
  <2>1. /\ refs' \in [KeyHandle -> Nat]
        /\ vault' \in [KeyHandle -> {"unborn", "secret", "zeroized"}]
        /\ SecretWhileCounted'
        /\ \A h \in KeyHandle :
             refs'[h] = refs[h] - (IF h \in S THEN 1 ELSE 0)
    BY <1>0, <1>9, StoredIsCounted, DropArcsEffect DEF ReaperRetain, TypeOK
  <2>2. keys' = keys \ S
    BY SMT, <1>0, <1>9 DEF ReaperRetain, TypeOK
  <2>3. TypeOK'
    BY <1>0, <1>9, <2>1, <2>2 DEF ReaperRetain, TypeOK
  <2>4. RefsCountOwners'
    <3> SUFFICES ASSUME NEW g \in KeyHandle
                 PROVE  refs'[g] = Cardinality(Owner(g))'
                                   + (IF g \in keys' THEN 1 ELSE 0)
      BY DEF RefsCountOwners
    <3>1. Owner(g)' = Owner(g)
      BY <1>9 DEF ReaperRetain, Owner
    <3> HIDE DEF S
    <3>2. S \subseteq keys
      BY DEF S
    <3> QED
      BY SMT, <1>0, <2>1, <2>2, <3>1, <3>2, OwnerCount DEF RefsCountOwners
  <2> QED
    BY <1>0, <1>9, <2>1, <2>2, <2>3, <2>4
    DEF ReaperRetain, RegistryInv, IdleHoldsNothing, PendingIsPrivate, Owner,
        ReaperBehindClock
<1>10. CASE Tick
  BY SMT, <1>0, <1>10
  DEF Tick, RegistryInv, TypeOK, RefsCountOwners, Owner,
      SecretWhileCounted, IdleHoldsNothing, PendingIsPrivate, ReaperBehindClock
<1>11. CASE UNCHANGED vars
  BY SMT, <1>0, <1>11
  DEF vars, RegistryInv, TypeOK, RefsCountOwners, Owner,
      SecretWhileCounted, IdleHoldsNothing, PendingIsPrivate, ReaperBehindClock
<1> QED
  BY <1>1, <1>2, <1>3, <1>4, <1>5, <1>6, <1>7, <1>8, <1>9, <1>10, <1>11
  DEF Next, Reaper, ThreadStep

-----------------------------------------------------------------------------
(* Type correctness of the registry and the invariant that carries the     *)
(* other proofs, in every state of every execution.                        *)
THEOREM RegistryInvariance == Spec => []RegistryInv
BY InitInv, NextInv, PTL DEF Spec

(* Every variable of the registry keeps its type: in particular no Arc's   *)
(* count ever goes below zero.                                             *)
THEOREM TypeCorrect == Spec => []TypeOK
<1>1. RegistryInv => TypeOK
  BY DEF RegistryInv
<1> QED
  BY <1>1, RegistryInvariance, PTL

(* Key material is in memory exactly while the map or an FFI call owns the *)
(* record (get_key, remove_key, the reaper and Vault's Drop).              *)
THEOREM SecretOwnership == Spec => []SecretIffOwned
<1>1. RegistryInv => SecretIffOwned
  BY SMT, OwnerCount
  DEF RegistryInv, RefsCountOwners, SecretWhileCounted, SecretIffOwned
<1> QED
  BY <1>1, RegistryInvariance, PTL

(* The reaper's stale reading of the clock never costs a live key.         *)
THEOREM ReaperSafe == Spec => ReaperSparesLiveKeys
<1>1. RegistryInv /\ ReaperRetain => \A h \in keys \ keys' : Expired(h)
  <2> SUFFICES ASSUME RegistryInv, ReaperRetain, NEW h \in keys \ keys'
               PROVE  Expired(h)
    OBVIOUS
  <2>1. reaperNow \in Nat /\ reaperNow <= now /\ now \in Nat
    BY DEF RegistryInv, TypeOK, ReaperRetain, ReaperBehindClock
  <2>2. delete_after[h] \in Nat /\ ~(delete_after[h] > reaperNow)
    BY DEF RegistryInv, TypeOK, ReaperRetain
  <2> QED
    BY SMT, <2>1, <2>2 DEF Expired
<1> QED
  BY <1>1, RegistryInvariance, PTL DEF ReaperSparesLiveKeys

-----------------------------------------------------------------------------
(* What one step may do to key h.                                          *)
KeyStep(h) ==
  /\ vault[h] = "zeroized" => vault'[h] = "zeroized"
  /\ vault[h] = "unborn" =>
       vault'[h] \in {"unborn", "zeroized"} \/ Pending(h)'
  /\ vault[h] = "secret" => vault'[h] \in {"secret", "zeroized"}
  /\ Pending(h) => vault'[h] = "secret"
  /\ vault[h] = "secret" /\ ~Pending(h) =>
       /\ ~Pending(h)'
       /\ h \in keys' => h \in keys
  /\ vault[h] = "secret" => delete_after'[h] = delete_after[h]
  /\ now' >= now

(* A pending record is owned by its thread alone, outside the map.         *)
LEMMA PendingFacts ==
  ASSUME RegistryInv, NEW h \in KeyHandle, Pending(h)
  PROVE  h \notin keys /\ vault[h] = "secret"
         /\ \A t \in Thread : held[t] = h => pc[t] = "created"
<1>1. PICK t \in Thread : pc[t] = "created" /\ held[t] = h
  BY DEF Pending
<1>2. h \notin keys /\ Owner(h) = {t}
  BY <1>1 DEF RegistryInv, PendingIsPrivate
<1>3. vault[h] = "secret"
  BY <1>1, HeldIsCounted
<1> QED
  BY <1>1, <1>2, <1>3 DEF Owner

(* Every step of the registry respects KeyStep, for every key.             *)
LEMMA NextKeyStep ==
  ASSUME RegistryInv, [Next]_vars, NEW h \in KeyHandle
  PROVE  KeyStep(h)
<1> USE RegistryAssumption
<1>0. TypeOK
  BY DEF RegistryInv
<1>1. ASSUME NEW t \in Thread, NEW g \in KeyHandle, NEW life \in Lifespan,
             CreateKey(t, g, life)
      PROVE  KeyStep(h)
  <2>1. CASE g = h
    <3>1. vault[h] = "unborn" /\ vault'[h] = "secret" /\ now' = now
      BY <1>0, <1>1, <2>1 DEF CreateKey, TypeOK
    <3>2. pc'[t] = "created" /\ held'[t] = h
      BY <1>0, <1>1, <2>1 DEF CreateKey, Acquire, TypeOK
    <3>3. ~Pending(h)
      BY <3>1, PendingFacts
    <3>4. Pending(h)'
      BY <3>2 DEF Pending
    <3> QED
      BY SMT, <1>0, <3>1, <3>3, <3>4 DEF KeyStep, TypeOK
  <2>2. CASE g # h
    <3>1. vault'[h] = vault[h] /\ delete_after'[h] = delete_after[h]
          /\ now' = now /\ keys' = keys
      BY <1>0, <1>1, <2>2 DEF CreateKey, TypeOK
    <3>2. Pending(h)' => Pending(h)
      BY <1>0, <1>1, <2>2 DEF CreateKey, Acquire, Pending, TypeOK
    <3> QED
      BY SMT, <1>0, <3>1, <3>2, PendingFacts DEF KeyStep, TypeOK
  <2> QED
    BY <2>1, <2>2
<1>2. ASSUME NEW t \in Thread, NEW g \in KeyHandle, NEW life \in Lifespan,
             CreateKeyOverflow(t, g, life)
      PROVE  KeyStep(h)
  BY SMT, <1>0, <1>2, PendingFacts DEF CreateKeyOverflow, KeyStep, Pending, TypeOK
<1>3. ASSUME NEW t \in Thread, AddKey(t)
      PROVE  KeyStep(h)
  <2>1. Pending(h)' => Pending(h)
    BY <1>0, <1>3 DEF AddKey, Release, Acquire, Pending, TypeOK
  <2>2. h \in keys' => h \in keys \/ Pending(h)
    BY <1>3 DEF AddKey, Pending
  <2> QED
    BY SMT, <1>0, <1>3, <2>1, <2>2, PendingFacts DEF AddKey, KeyStep, TypeOK
<1>4. ASSUME NEW t \in Thread, NEW g \in KeyHandle, GetKey(t, g)
      PROVE  KeyStep(h)
  <2>1. Pending(h)' => Pending(h)
    BY <1>0, <1>4 DEF GetKey, Acquire, Pending, TypeOK
  <2> QED
    BY SMT, <1>0, <1>4, <2>1, PendingFacts DEF GetKey, KeyStep, TypeOK
<1>5. ASSUME NEW t \in Thread, NEW g \in KeyHandle, RemoveKey(t, g)
      PROVE  KeyStep(h)
  <2>1. Pending(h)' => Pending(h)
    BY <1>0, <1>5 DEF RemoveKey, Acquire, Pending, TypeOK
  <2> QED
    BY SMT, <1>0, <1>5, <2>1, PendingFacts DEF RemoveKey, KeyStep, TypeOK
<1>6. ASSUME NEW t \in Thread, DropRecord(t)
      PROVE  KeyStep(h)
  <2>1. Pending(h)' => Pending(h)
    BY <1>0, <1>6 DEF DropRecord, Release, Acquire, Pending, TypeOK
  <2>2. vault'[h] = IF h = held[t] /\ refs[h] = 1 THEN "zeroized" ELSE vault[h]
    BY <1>6 DEF DropRecord, DropArcs
  <2>3. vault[held[t]] = "secret"
    BY <1>6, HeldIsCounted DEF DropRecord
  <2>4. Pending(h) => h # held[t]
    BY <1>6, PendingFacts DEF DropRecord
  <2> QED
    BY SMT, <1>0, <1>6, <2>1, <2>2, <2>3, <2>4, PendingFacts
    DEF DropRecord, KeyStep, TypeOK
<1>7. ASSUME NEW t \in Thread, RemoveAllKeys(t)
      PROVE  KeyStep(h)
  <2>1. vault'[h] = IF h \in keys /\ refs[h] = 1 THEN "zeroized" ELSE vault[h]
    BY <1>7 DEF RemoveAllKeys, DropArcs
  <2>2. Pending(h)' => Pending(h)
    BY <1>7 DEF RemoveAllKeys, Pending
  <2>3. h \in keys => vault[h] = "secret"
    BY StoredIsCounted
  <2> QED
    BY SMT, <1>0, <1>7, <2>1, <2>2, <2>3, PendingFacts
    DEF RemoveAllKeys, KeyStep, TypeOK
<1>8. CASE ReaperReadClock
  BY SMT, <1>0, <1>8, PendingFacts DEF ReaperReadClock, KeyStep, Pending, TypeOK
<1>9. CASE ReaperRetain
  <2>1. vault'[h] = IF h \in {k \in keys : delete_after[k] <= reaperNow}
                       /\ refs[h] = 1 THEN "zeroized" ELSE vault[h]
    BY <1>9 DEF ReaperRetain, DropArcs
  <2>2. Pending(h)' => Pending(h)
    BY <1>9 DEF ReaperRetain, Pending
  <2>3. h \in keys => vault[h] = "secret"
    BY StoredIsCounted
  <2> QED
    BY SMT, <1>0, <1>9, <2>1, <2>2, <2>3, PendingFacts
    DEF ReaperRetain, KeyStep, TypeOK
<1>10. CASE Tick
  BY SMT, <1>0, <1>10, PendingFacts DEF Tick, KeyStep, Pending, TypeOK
<1>11. CASE UNCHANGED vars
  BY SMT, <1>0, <1>11, PendingFacts DEF vars, KeyStep, Pending, TypeOK
<1> QED
  BY <1>1, <1>2, <1>3, <1>4, <1>5, <1>6, <1>7, <1>8, <1>9, <1>10, <1>11
  DEF Next, Reaper, ThreadStep

(* KeyStep on the registry's state is a legal step of the key's phase.     *)
LEMMA PhaseStep ==
  ASSUME TypeOK, TypeOK', NEW h \in KeyHandle, KeyStep(h)
  PROVE  /\ PhaseOf(h)' \in Lifecycle!Phase
         /\ PhaseOf(h)' \in Lifecycle!Successor(PhaseOf(h))
<1>1. vault[h] \in {"unborn", "secret", "zeroized"}
      /\ vault'[h] \in {"unborn", "secret", "zeroized"}
      /\ delete_after[h] \in Nat /\ now \in Nat
      /\ delete_after'[h] \in Nat /\ now' \in Nat
  BY DEF TypeOK
<1>2. vault[h] = "secret" /\ Expired(h) => Expired(h)'
  BY SMT, <1>1 DEF KeyStep, Expired
<1>3. CASE vault[h] = "unborn"
  BY <1>1, <1>3 DEF KeyStep, PhaseOf, Lifecycle!Phase, Lifecycle!Successor
<1>4. CASE vault[h] = "zeroized"
  BY <1>1, <1>4 DEF KeyStep, PhaseOf, Lifecycle!Phase, Lifecycle!Successor
<1>5. CASE vault[h] = "secret"
  BY <1>1, <1>2, <1>5 DEF KeyStep, PhaseOf, Lifecycle!Phase, Lifecycle!Successor
<1> QED
  BY <1>1, <1>3, <1>4, <1>5

(* The registry implements the one-way lifecycle: a key that was destroyed,*)
(* purged or expired is never usable again, and erased material stays      *)
(* erased, for any number of threads and keys.                             *)
THEOREM RegistryImplementsLifecycle == Spec => OneWayLifecycle
<1>1. Init => Lifecycle!Init
  BY DEF Init, Lifecycle!Init, PhaseOf
<1>2. RegistryInv /\ RegistryInv' /\ [Next]_vars
        => [Lifecycle!Next]_([h \in KeyHandle |-> PhaseOf(h)])
  <2> SUFFICES ASSUME RegistryInv, RegistryInv', [Next]_vars
               PROVE  Lifecycle!Next
    OBVIOUS
  <2>1. \A h \in KeyHandle :
          /\ PhaseOf(h)' \in Lifecycle!Phase
          /\ PhaseOf(h)' \in Lifecycle!Successor(PhaseOf(h))
    BY NextKeyStep, PhaseStep DEF RegistryInv
  <2> QED
    BY <2>1 DEF Lifecycle!Next
<1> QED
  BY <1>1, <1>2, RegistryInvariance, PTL DEF Spec, OneWayLifecycle, Lifecycle!Spec

-----------------------------------------------------------------------------
(* SecretMemory.  A step of it is a step of KeyRegistry or leaves the      *)
(* registry's variables alone, so the registry's invariant carries over;   *)
(* MemoryInv adds what a call holds at each of its steps.                  *)

(* Every step of SecretMemory is a step of the registry or a stutter.      *)
LEMMA StepOfRegistry == SMNext => [Next]_vars
<1> SUFFICES ASSUME SMNext PROVE [Next]_vars
  OBVIOUS
<1>1. CASE OtherStep
  BY <1>1 DEF OtherStep, Next, ThreadStep
<1>2. ASSUME NEW t \in Thread, SecretStep(t) PROVE [Next]_vars
  <2>1. CASE VaultFilled(t)
    BY <2>1 DEF VaultFilled, Next, ThreadStep
  <2>2. CASE DropArc(t)
    BY <2>2 DEF DropArc, Next, ThreadStep
  <2>3. CASE ~VaultFilled(t) /\ ~DropArc(t)
    BY <1>2, <2>3
    DEF SecretStep, GenerateKeypair, VaultFails, GetPrivateKey, ComputeSharedKey,
        DecapsFails, DeriveAndSeal, HpkeOpen, DropLocals, CopyOut
  <2> QED
    BY <2>1, <2>2, <2>3
<1> QED
  BY <1>1, <1>2 DEF SMNext

(* The calls with their copies of the secrets implement the registry: what *)
(* is proved of Spec, the one-way lifecycle included, holds with the       *)
(* cryptographic operations and their boxes in place.                      *)
THEOREM MemoryImplementsRegistry == SMSpec => Spec
<1>1. SMInit => Init
  BY DEF SMInit
<1>2. [SMNext]_<<vars, memory>> => [Next]_vars
  BY StepOfRegistry
<1> QED
  BY <1>1, <1>2, PTL DEF SMSpec, Spec

(* The registry's invariant holds in SecretMemory too.                     *)
LEMMA RegistryCarriesOver == SMSpec => []RegistryInv
BY MemoryImplementsRegistry, RegistryInvariance, PTL

(* SecretBox::new leaves nothing behind in freed memory.                   *)
LEMMA BoxLeavesNothing ==
  ASSUME residue = {}, NEW s, SecretBoxNew(s)
  PROVE  residue' = {}
BY DEF SecretBoxNew, Zeroize

(* One thread's step: the others keep what they have.                      *)
LEMMA ProceedKeeps ==
  ASSUME MemoryInv, NEW t \in Thread,
         NEW w \in Working \cup {"none", "generated", "dropped", "plaintext"},
         NEW b \in SUBSET Secret, NEW s \in SUBSET Secret,
         Proceed(t, w, b, s), residue' = {},
         \A u \in Thread \ {t} : pc'[u] = pc[u],
         w \in Working \cup {"dropped"} => pc'[t] = "got",
         w \in {"none", "dropped"} => b = {},
         w = "plaintext" => b \subseteq {"plaintext"},
         w = "ending" => "plaintext" \notin b,
         w # "agreed" => s = {}
  PROVE  MemoryInv'
<1>1. /\ work' \in [Thread -> Working \cup {"none", "generated", "dropped", "plaintext"}]
      /\ boxes' \in [Thread -> SUBSET Secret]
      /\ stack' \in [Thread -> SUBSET Secret]
  BY DEF MemoryInv, Proceed
<1>2. ASSUME NEW u \in Thread
      PROVE  /\ work'[u] \in Working \cup {"dropped"} => pc'[u] = "got"
             /\ work'[u] \in {"none", "dropped"} => boxes'[u] = {}
             /\ work'[u] = "plaintext" => boxes'[u] \subseteq {"plaintext"}
             /\ work'[u] = "ending" => "plaintext" \notin boxes'[u]
             /\ work'[u] # "agreed" => stack'[u] = {}
  <2>1. CASE u = t
    <3>1. work'[u] = w /\ boxes'[u] = b /\ stack'[u] = s
      BY <2>1 DEF MemoryInv, Proceed
    <3> QED
      BY <2>1, <3>1
  <2>2. CASE u # t
    <3>1. work'[u] = work[u] /\ boxes'[u] = boxes[u] /\ stack'[u] = stack[u]
          /\ pc'[u] = pc[u]
      BY <2>2 DEF MemoryInv, Proceed
    <3> QED
      BY <3>1 DEF MemoryInv
  <2> QED
    BY <2>1, <2>2
<1> QED
  BY <1>1, <1>2 DEF MemoryInv

(* MemoryInv is preserved: one step per action.                            *)
LEMMA MemoryStep ==
  ASSUME RegistryInv, MemoryInv, [SMNext]_<<vars, memory>>
  PROVE  MemoryInv'
<1> USE DEF Secret, Working
<1>0. TypeOK /\ residue = {}
  BY DEF RegistryInv, MemoryInv
<1>1. CASE UNCHANGED <<vars, memory>>
  BY <1>1 DEF vars, memory, MemoryInv
<1>2. CASE OtherStep
  <2>1. UNCHANGED memory
    BY <1>2 DEF OtherStep
  <2>2. CASE pc' = pc
    BY <2>1, <2>2 DEF memory, MemoryInv
  <2>3. ASSUME NEW t \in Thread, work[t] = "none",
               \A u \in Thread \ {t} : pc'[u] = pc[u]
        PROVE  MemoryInv'
    BY <2>1, <2>3 DEF memory, MemoryInv
  <2>4. CASE Tick \/ Reaper
    BY <2>2, <2>4 DEF Tick, Reaper, ReaperReadClock, ReaperRetain
  <2>5. ASSUME NEW t \in Thread, work[t] = "none", AddKey(t) PROVE MemoryInv'
    BY <1>0, <2>3, <2>5 DEF AddKey, Release, Acquire, TypeOK
  <2>6. ASSUME NEW t \in Thread, work[t] = "none", RemoveAllKeys(t) PROVE MemoryInv'
    BY <2>2, <2>6 DEF RemoveAllKeys
  <2>7. ASSUME NEW t \in Thread, work[t] = "none", NEW h \in KeyHandle,
               GetKey(t, h) \/ RemoveKey(t, h)
        PROVE  MemoryInv'
    BY <1>0, <2>3, <2>7 DEF GetKey, RemoveKey, Acquire, TypeOK
  <2> QED
    BY <1>2, <2>4, <2>5, <2>6, <2>7 DEF OtherStep
<1>3. ASSUME NEW t \in Thread, GenerateKeypair(t) PROVE MemoryInv'
  <2>1. Proceed(t, "generated", {"private key"}, {}) /\ residue' = {} /\ pc' = pc
    BY <1>0, <1>3, BoxLeavesNothing DEF GenerateKeypair, vars
  <2> QED
    BY <2>1, ProceedKeeps
<1>4. ASSUME NEW t \in Thread, VaultFails(t) PROVE MemoryInv'
  <2>1. Proceed(t, "none", {}, {}) /\ residue' = {} /\ pc' = pc
    BY <1>0, <1>4 DEF VaultFails, vars
  <2> QED
    BY <2>1, ProceedKeeps
<1>5. ASSUME NEW t \in Thread, VaultFilled(t) PROVE MemoryInv'
  <2>1. Proceed(t, "none", {}, {}) /\ residue' = {}
    BY <1>0, <1>5 DEF VaultFilled
  <2>2. \A u \in Thread \ {t} : pc'[u] = pc[u]
    BY <1>0, <1>5 DEF VaultFilled, CreateKey, CreateKeyOverflow, Acquire, TypeOK
  <2> QED
    BY <2>1, <2>2, ProceedKeeps
<1>6. ASSUME NEW t \in Thread, GetPrivateKey(t) PROVE MemoryInv'
  <2>1. /\ Proceed(t, "private", {"private key"}, {}) /\ residue' = {} /\ pc' = pc
        /\ pc[t] = "got"
    BY <1>0, <1>6, BoxLeavesNothing DEF GetPrivateKey, vars
  <2> QED
    BY <2>1, ProceedKeeps
<1>7. ASSUME NEW t \in Thread, ComputeSharedKey(t) PROVE MemoryInv'
  <2>1. /\ Proceed(t, "agreed", {"private key", "shared key"},
                   {"private key", "shared key"})
        /\ residue' = {} /\ pc' = pc /\ pc[t] = "got"
    BY <1>0, <1>7, BoxLeavesNothing DEF ComputeSharedKey, vars, MemoryInv
  <2> QED
    BY <2>1, ProceedKeeps
<1>8. ASSUME NEW t \in Thread, DecapsFails(t) PROVE MemoryInv'
  <2>1. /\ Proceed(t, "ending", {"private key"}, {}) /\ residue' = {} /\ pc' = pc
        /\ pc[t] = "got"
    BY <1>0, <1>8 DEF DecapsFails, vars, MemoryInv
  <2> QED
    BY <2>1, ProceedKeeps
<1>9. ASSUME NEW t \in Thread, DeriveAndSeal(t) PROVE MemoryInv'
  <2>1. /\ Proceed(t, "ending", {"private key", "shared secret"}, {})
        /\ residue' = {} /\ pc' = pc /\ pc[t] = "got"
    BY <1>0, <1>9, BoxLeavesNothing DEF DeriveAndSeal, vars, MemoryInv
  <2> QED
    BY <2>1, ProceedKeeps
<1>10. ASSUME NEW t \in Thread, HpkeOpen(t) PROVE MemoryInv'
  <2>1. residue' = {} /\ pc' = pc /\ pc[t] = "got"
    BY <1>0, <1>10, BoxLeavesNothing DEF HpkeOpen, vars, MemoryInv
  <2>2. CASE Proceed(t, "opened", {"private key", "plaintext"}, {})
    BY <2>1, <2>2, ProceedKeeps
  <2>3. CASE Proceed(t, "ending", {"private key"}, {})
    BY <2>1, <2>3, ProceedKeeps
  <2> QED
    BY <1>10, <2>2, <2>3 DEF HpkeOpen
<1>11. ASSUME NEW t \in Thread, DropLocals(t) PROVE MemoryInv'
  <2>1. /\ residue' = {} /\ pc' = pc /\ pc[t] = "got" /\ stack[t] = {}
        /\ boxes[t] \cap {"plaintext"} \in SUBSET Secret
    BY <1>0, <1>11 DEF DropLocals, vars, MemoryInv
  <2>2. CASE work[t] = "opened"
    <3>1. Proceed(t, "plaintext", boxes[t] \cap {"plaintext"}, {})
      BY <1>11, <2>1, <2>2 DEF DropLocals
    <3> QED
      BY <2>1, <3>1, ProceedKeeps
  <2>3. CASE work[t] = "ending"
    <3>1. Proceed(t, "dropped", {}, {})
      <4>1. boxes[t] \cap {"plaintext"} = {}
        BY <2>3 DEF MemoryInv
      <4> QED
        BY <1>11, <2>1, <2>3, <4>1 DEF DropLocals
    <3> QED
      BY <2>1, <3>1, ProceedKeeps
  <2> QED
    BY <1>11, <2>2, <2>3 DEF DropLocals
<1>12. ASSUME NEW t \in Thread, DropArc(t) PROVE MemoryInv'
  <2>1. /\ residue' = {}
        /\ \A u \in Thread \ {t} : pc'[u] = pc[u]
        /\ boxes[t] \in SUBSET Secret /\ stack[t] = {}
    BY <1>0, <1>12 DEF DropArc, DropRecord, Release, Acquire, TypeOK, MemoryInv
  <2>2. CASE work[t] = "plaintext"
    <3>1. Proceed(t, "plaintext", boxes[t], {}) /\ boxes[t] \subseteq {"plaintext"}
      BY <1>12, <2>1, <2>2 DEF DropArc, MemoryInv
    <3> QED
      BY <2>1, <3>1, ProceedKeeps
  <2>3. CASE work[t] \in {"none", "dropped"}
    <3>1. Proceed(t, "none", {}, {})
      BY <1>12, <2>1, <2>3 DEF DropArc, MemoryInv
    <3> QED
      BY <2>1, <3>1, ProceedKeeps
  <2> QED
    BY <1>12, <2>2, <2>3 DEF DropArc
<1>13. ASSUME NEW t \in Thread, CopyOut(t) PROVE MemoryInv'
  <2>1. Proceed(t, "none", {}, {}) /\ residue' = {} /\ pc' = pc
    BY <1>0, <1>13 DEF CopyOut, vars, MemoryInv
  <2> QED
    BY <2>1, ProceedKeeps
<1> QED
  BY <1>1, <1>2, <1>3, <1>4, <1>5, <1>6, <1>7, <1>8, <1>9, <1>10, <1>11, <1>12,
     <1>13 DEF SMNext, SecretStep

(* What every call holds at each of its steps, in every behaviour.         *)
LEMMA MemoryInvariance == SMSpec => []MemoryInv
<1>1. SMInit => MemoryInv
  BY DEF SMInit, MemoryInv, Working, Secret
<1>2. RegistryInv /\ MemoryInv /\ [SMNext]_<<vars, memory>> => MemoryInv'
  BY MemoryStep
<1> QED
  BY <1>1, <1>2, RegistryCarriesOver, PTL DEF SMSpec

(* No copy of a private key, and no secret derived from it, outlives the   *)
(* vault (get_private_key, decaps, hpke_open, the drop order of the        *)
(* internal functions' locals, Vault's Drop), however many threads work    *)
(* on however many keys while others destroy them.                         *)
THEOREM NoCopyOutlivesVault == SMSpec => []ZeroizedMeansGone
<1>1. RegistryInv /\ MemoryInv => ZeroizedMeansGone
  <2> SUFFICES ASSUME RegistryInv, MemoryInv, NEW t \in Thread,
                      boxes[t] \cup stack[t] # {}
               PROVE  \/ work[t] = "generated"
                      \/ work[t] = "plaintext" /\ boxes[t] \cup stack[t] = {"plaintext"}
                      \/ held[t] # None /\ vault[held[t]] = "secret"
    BY DEF ZeroizedMeansGone, MemoryInv
  <2>1. CASE work[t] \in Working
    <3>1. pc[t] = "got"
      BY <2>1 DEF MemoryInv
    <3> QED
      BY <3>1, HeldIsCounted, RegistryAssumption
  <2>2. CASE work[t] = "plaintext"
    BY <2>2 DEF MemoryInv
  <2>3. CASE work[t] \in {"none", "dropped"}
    BY <2>3 DEF MemoryInv
  <2> QED
    BY <2>1, <2>2, <2>3 DEF MemoryInv
<1> QED
  BY <1>1, RegistryCarriesOver, MemoryInvariance, PTL

===========================================================================
