---------------------------- MODULE KeyRegistry ----------------------------
(***************************************************************************)
(* The key registry of the custody core (km_common/src/key_types.rs): a    *)
(* map of reference-counted key records behind one RwLock, shared by the   *)
(* threads that make FFI calls and by a reaper thread.                     *)
(*                                                                         *)
(* Every critical section of the lock is one action.  What a thread does   *)
(* between two critical sections (building a record before add_key, using  *)
(* the Arc that get_key returned, dropping the one remove_key returned) is *)
(* a step of its own, so that the other threads, the reaper and the clock  *)
(* interleave with it.                                                     *)
(***************************************************************************)
EXTENDS Naturals, FiniteSets

CONSTANTS
  KeyHandle,    \* the UUIDs that will be drawn: no two keys share one
  Thread,       \* the threads that make FFI calls
  Lifespan,     \* the expiry durations callers ask for
  MaxInstant,   \* the largest representable Instant
  Horizon,      \* bound on the clock
  None          \* "no key" and "no reading of the clock"

ASSUME RegistryAssumption ==
  /\ IsFiniteSet(Thread)
  /\ Lifespan \subseteq Nat
  /\ MaxInstant \in Nat
  /\ Horizon \in Nat
  /\ None \notin KeyHandle
  /\ None \notin Nat

VARIABLES
  now,         \* the monotonic clock behind Instant::now()
  keys,        \* the handles in the registry's HashMap
  delete_after,\* metadata of the record, by handle
  refs,        \* owners of the record: Arc's strong count
  vault,       \* the private key's memory: "unborn", "secret", "zeroized"
  pc,          \* what a thread is doing
  held,        \* the record a thread owns or shares, or None
  reaperNow    \* the instant the reaper read before it took the write lock

vars == <<now, keys, delete_after, refs, vault, pc, held, reaperNow>>

-----------------------------------------------------------------------------
Init ==
  /\ now = 0
  /\ keys = {}
  /\ delete_after = [h \in KeyHandle |-> 0]
  /\ refs = [h \in KeyHandle |-> 0]
  /\ vault = [h \in KeyHandle |-> "unborn"]
  /\ pc = [t \in Thread |-> "idle"]
  /\ held = [t \in Thread |-> None]
  /\ reaperNow = None

Tick ==
  /\ now < Horizon
  /\ now' = now + 1
  /\ UNCHANGED <<keys, delete_after, refs, vault, pc, held, reaperNow>>

(* Dropping one Arc of each record in S; Vault's Drop zeroizes the         *)
(* material with the last one.                                             *)
DropArcs(S) ==
  /\ refs' = [h \in KeyHandle |-> IF h \in S THEN refs[h] - 1 ELSE refs[h]]
  /\ vault' = [h \in KeyHandle |->
                 IF h \in S /\ refs[h] = 1 THEN "zeroized" ELSE vault[h]]

(* Thread t takes hold of record h at step p; it lets go of it at Release. *)
Acquire(t, h, p) ==
  /\ pc' = [pc EXCEPT ![t] = p]
  /\ held' = [held EXCEPT ![t] = h]

Release(t) == Acquire(t, None, "idle")

(* Mutant: a handle can be drawn again once its key is gone.               *)
CreateKeyReusingHandle(t, h, life) ==
  /\ pc[t] = "idle"
  /\ vault[h] # "secret"
  /\ now + life <= MaxInstant
  /\ delete_after' = [delete_after EXCEPT ![h] = now + life]
  /\ refs' = [refs EXCEPT ![h] = 1]
  /\ vault' = [vault EXCEPT ![h] = "secret"]
  /\ Acquire(t, h, "created")
  /\ UNCHANGED <<now, keys, reaperNow>>

(* create_key_internal: draw a handle, generate the key pair, move the     *)
(* private key into a vault, read the clock.                               *)
CreateKey(t, h, life) ==
  /\ pc[t] = "idle"
  /\ vault[h] = "unborn"
  /\ now + life <= MaxInstant
  /\ delete_after' = [delete_after EXCEPT ![h] = now + life]
  /\ refs' = [refs EXCEPT ![h] = 1]
  /\ vault' = [vault EXCEPT ![h] = "secret"]
  /\ Acquire(t, h, "created")
  /\ UNCHANGED <<now, keys, reaperNow>>

(* checked_add fails once the vault exists: UnsupportedAlgorithm is        *)
(* returned and the vault dropped.                                         *)
CreateKeyOverflow(t, h, life) ==
  /\ pc[t] = "idle"
  /\ vault[h] = "unborn"
  /\ now + life > MaxInstant
  /\ vault' = [vault EXCEPT ![h] = "zeroized"]
  /\ UNCHANGED <<now, keys, delete_after, refs, pc, held, reaperNow>>

(* add_key: the record moves from the thread into the map.                 *)
AddKey(t) ==
  /\ pc[t] = "created"
  /\ keys' = keys \cup {held[t]}
  /\ Release(t)
  /\ UNCHANGED <<now, delete_after, refs, vault, reaperNow>>

Expired(h) == delete_after[h] <= now

(* get_key: the Arc of an unexpired record is cloned.  The other answer,   *)
(* None, changes nothing.                                                  *)
GetKey(t, h) ==
  /\ pc[t] = "idle"
  /\ h \in keys
  /\ ~Expired(h)
  /\ refs' = [refs EXCEPT ![h] = @ + 1]
  /\ Acquire(t, h, "got")
  /\ UNCHANGED <<now, keys, delete_after, vault, reaperNow>>

(* Mutant: destroying a key zeroizes it although a decapsulation holds it. *)
RemoveKeyZeroizing(t, h) ==
  /\ pc[t] = "idle"
  /\ h \in keys
  /\ keys' = keys \ {h}
  /\ vault' = [vault EXCEPT ![h] = "zeroized"]
  /\ Acquire(t, h, "removed")
  /\ UNCHANGED <<now, delete_after, refs, reaperNow>>

(* remove_key: the map's Arc moves to the caller, expired or not.          *)
RemoveKey(t, h) ==
  /\ pc[t] = "idle"
  /\ h \in keys
  /\ keys' = keys \ {h}
  /\ Acquire(t, h, "removed")
  /\ UNCHANGED <<now, delete_after, refs, vault, reaperNow>>

(* Mutant: the call may drop its Arc twice.                                *)
DropRecordTwice(t) ==
  /\ pc[t] \in {"got", "removed"}
  /\ DropArcs({held[t]})
  /\ \/ Release(t)
     \/ UNCHANGED <<pc, held>>
  /\ UNCHANGED <<now, keys, delete_after, reaperNow>>

(* The end of the FFI call that got or removed a record.                   *)
DropRecord(t) ==
  /\ pc[t] \in {"got", "removed"}
  /\ DropArcs({held[t]})
  /\ Release(t)
  /\ UNCHANGED <<now, keys, delete_after, reaperNow>>

(* remove_all_keys: the map's Arcs are dropped under the write lock.       *)
RemoveAllKeys(t) ==
  /\ pc[t] = "idle"
  /\ keys # {}
  /\ DropArcs(keys)
  /\ keys' = {}
  /\ UNCHANGED <<now, delete_after, pc, held, reaperNow>>

(* Mutant: the reaper rounds the instant it read up.                       *)
ReaperReadClockRoundedUp ==
  /\ reaperNow = None
  /\ reaperNow' = now + 1
  /\ UNCHANGED <<now, keys, delete_after, refs, vault, pc, held>>

(* The reaper wakes up and reads the clock before it asks for the lock.    *)
ReaperReadClock ==
  /\ reaperNow = None
  /\ reaperNow' = now
  /\ UNCHANGED <<now, keys, delete_after, refs, vault, pc, held>>

(* Mutant: try_write in place of write, so that a pass is skipped when a   *)
(* call is in progress.                                                    *)
ReaperRetainTrying ==
  /\ reaperNow # None
  /\ reaperNow' = None
  /\ LET gone == IF \A t \in Thread : pc[t] = "idle"
                   THEN {h \in keys : delete_after[h] <= reaperNow} ELSE {}
     IN keys' = keys \ gone /\ DropArcs(gone)
  /\ UNCHANGED <<now, delete_after, pc, held>>

(* retain, under the write lock, with the instant read earlier.            *)
ReaperRetain ==
  /\ reaperNow # None
  /\ keys' = {h \in keys : delete_after[h] > reaperNow}
  /\ DropArcs({h \in keys : delete_after[h] <= reaperNow})
  /\ reaperNow' = None
  /\ UNCHANGED <<now, delete_after, pc, held>>

-----------------------------------------------------------------------------
ThreadStep(t) ==
  \/ \E h \in KeyHandle, life \in Lifespan : CreateKey(t, h, life)
  \/ \E h \in KeyHandle, life \in Lifespan : CreateKeyOverflow(t, h, life)
  \/ AddKey(t)
  \/ \E h \in KeyHandle : GetKey(t, h)
  \/ \E h \in KeyHandle : RemoveKey(t, h)
  \/ DropRecord(t)
  \/ RemoveAllKeys(t)

Reaper == ReaperReadClock \/ ReaperRetain

Next == Tick \/ Reaper \/ \E t \in Thread : ThreadStep(t)

Spec == Init /\ [][Next]_vars

(* The reaper loops for ever, and an FFI call that has begun ends.  Nobody *)
(* promises that another call is made, nor that the clock reaches any      *)
(* particular reading within the bound.                                    *)
Fairness ==
  /\ WF_vars(Reaper)
  /\ \A t \in Thread : WF_vars(AddKey(t) \/ DropRecord(t))

FairSpec == Spec /\ Fairness

-----------------------------------------------------------------------------
TypeOK ==
  /\ now \in Nat
  /\ keys \subseteq KeyHandle
  /\ delete_after \in [KeyHandle -> Nat]
  /\ refs \in [KeyHandle -> Nat]
  /\ vault \in [KeyHandle -> {"unborn", "secret", "zeroized"}]
  /\ pc \in [Thread -> {"idle", "created", "got", "removed"}]
  /\ held \in [Thread -> KeyHandle \cup {None}]
  /\ reaperNow \in Nat \cup {None}

Owner(h) == {t \in Thread : held[t] = h}

(* The strengthening that makes the properties below inductive.            *)
RefsCountOwners ==
  \A h \in KeyHandle :
    refs[h] = Cardinality(Owner(h)) + (IF h \in keys THEN 1 ELSE 0)

SecretWhileCounted ==
  \A h \in KeyHandle : vault[h] = "secret" <=> refs[h] > 0

IdleHoldsNothing ==
  \A t \in Thread : pc[t] = "idle" <=> held[t] = None

PendingIsPrivate ==
  \A t \in Thread :
    pc[t] = "created" => held[t] \notin keys /\ Owner(held[t]) = {t}

ReaperBehindClock == reaperNow # None => reaperNow <= now

RegistryInv ==
  /\ TypeOK
  /\ RefsCountOwners
  /\ SecretWhileCounted
  /\ IdleHoldsNothing
  /\ PendingIsPrivate
  /\ ReaperBehindClock

(* Private key material is in memory exactly while somebody owns the       *)
(* record: no FFI call in progress works on zeroized memory when the key   *)
(* is destroyed, reaped or purged under it, and no material outlives its   *)
(* last owner.                                                             *)
SecretIffOwned ==
  \A h \in KeyHandle :
    vault[h] = "secret" <=> (h \in keys \/ Owner(h) # {})

(* The reaper decides with an instant that is stale by the time it holds   *)
(* the lock; still it never deletes a key that has not expired.            *)
ReaperSparesLiveKeys ==
  [][ReaperRetain => \A h \in keys \ keys' : Expired(h)]_vars

(* Once a key has expired, its material is zeroized, whoever holds the     *)
(* record and whether or not anybody destroys it.                          *)
ExpiredKeyErased ==
  \A h \in KeyHandle :
    (vault[h] = "secret" /\ Expired(h)) ~> (vault[h] = "zeroized")

-----------------------------------------------------------------------------
Pending(h) == \E t \in Thread : pc[t] = "created" /\ held[t] = h

(* What an outside observer can tell about a key.                          *)
PhaseOf(h) ==
  CASE vault[h] = "unborn"   -> "unborn"
    [] vault[h] = "zeroized" -> "erased"
    [] vault[h] = "secret"   ->
         IF Pending(h) THEN "pending"
         ELSE IF h \in keys /\ ~Expired(h) THEN "usable"
         ELSE "retired"

Lifecycle == INSTANCE KeyLifecycle WITH phase <- [h \in KeyHandle |-> PhaseOf(h)]

(* The registry implements the one-way lifecycle of a key: a key that was  *)
(* once not found after having been usable, because it was destroyed,      *)
(* purged or expired, is never handed out again, and zeroized material     *)
(* never comes back.                                                       *)
OneWayLifecycle == Lifecycle!Spec

=============================================================================
