---------------------------- MODULE SecretMemory ----------------------------
(***************************************************************************)
(* Where secret bytes are while the threads of KeyRegistry make their FFI  *)
(* calls: besides the vaults, in SecretBoxes on the heap, in plain arrays  *)
(* on the stack of the cryptographic functions, and in heap memory that    *)
(* was freed as it was.  Every step here is a step of KeyRegistry or       *)
(* leaves the registry alone.                                              *)
(***************************************************************************)
EXTENDS KeyRegistry

VARIABLES
  work,     \* how far the call of a thread has got with secrets
  boxes,    \* the SecretBoxes that the thread's frames own
  stack,    \* secret arrays in the frames below clear_stack_on_return
  residue   \* secrets in heap memory freed without being zeroized

memory == <<work, boxes, stack, residue>>

Secret == {"private key", "shared key", "shared secret", "plaintext"}

SMInit ==
  /\ Init
  /\ work = [t \in Thread |-> "none"]
  /\ boxes = [t \in Thread |-> {}]
  /\ stack = [t \in Thread |-> {}]
  /\ residue = {}

(* Thread t goes on to step w, owning these boxes and stack arrays.        *)
Proceed(t, w, b, s) ==
  /\ work' = [work EXCEPT ![t] = w]
  /\ boxes' = [boxes EXCEPT ![t] = b]
  /\ stack' = [stack EXCEPT ![t] = s]

(* SecretBox::new: a Vec with spare capacity is copied and then freed,     *)
(* holding what zeroize has left of it; another one becomes the box.       *)
Zeroize(bytes) == {}

SecretBoxNew(secret) ==
  \E spare \in BOOLEAN :
    residue' = residue \cup (IF spare THEN Zeroize({secret}) ELSE {})

-----------------------------------------------------------------------------
(* generate_keypair: the library's private key goes into a box.            *)
GenerateKeypair(t) ==
  /\ pc[t] = "idle" /\ work[t] = "none"
  /\ SecretBoxNew("private key")
  /\ Proceed(t, "generated", {"private key"}, {})
  /\ UNCHANGED vars

(* Vault::new: memfd_secret, set_len or the mapping fails, and the box is  *)
(* dropped with the error.                                                 *)
VaultFails(t) ==
  /\ work[t] = "generated"
  /\ Proceed(t, "none", {}, {})
  /\ UNCHANGED <<vars, residue>>

(* Vault::new copies the box into the mapping and drops it; the record is  *)
(* made, or its expiry does not fit and the vault is dropped.              *)
VaultFilled(t) ==
  /\ work[t] = "generated"
  /\ \E h \in KeyHandle, life \in Lifespan :
       CreateKey(t, h, life) \/ CreateKeyOverflow(t, h, life)
  /\ Proceed(t, "none", {}, {})
  /\ UNCHANGED residue

(* get_private_key: a copy of the vault's content in a box.                *)
GetPrivateKey(t) ==
  /\ pc[t] = "got" /\ work[t] = "none"
  /\ SecretBoxNew("private key")
  /\ Proceed(t, "private", {"private key"}, {})
  /\ UNCHANGED vars

(* decaps, up to the Diffie-Hellman key: both are arrays on its stack.     *)
ComputeSharedKey(t) ==
  /\ work[t] = "private"
  /\ SecretBoxNew("shared key")
  /\ Proceed(t, "agreed", {"private key", "shared key"}, {"private key", "shared key"})
  /\ UNCHANGED vars

(* decaps refuses the encapsulated key, or the expansion fails: its boxes  *)
(* are dropped, its stack is cleared.                                      *)
DecapsFails(t) ==
  /\ work[t] \in {"private", "agreed"}
  /\ Proceed(t, "ending", {"private key"}, {})
  /\ UNCHANGED <<vars, residue>>

(* decaps returns the shared secret; then hpke_seal, whose result and      *)
(* failure leave no other secret.                                          *)
DeriveAndSeal(t) ==
  /\ work[t] = "agreed"
  /\ SecretBoxNew("shared secret")
  /\ Proceed(t, "ending", {"private key", "shared secret"}, {})
  /\ UNCHANGED vars

(* hpke_open, in the other core: the plaintext in a box, or a failure.     *)
HpkeOpen(t) ==
  /\ work[t] = "private"
  /\ \/ SecretBoxNew("plaintext") /\ Proceed(t, "opened", {"private key", "plaintext"}, {})
     \/ UNCHANGED residue /\ Proceed(t, "ending", {"private key"}, {})
  /\ UNCHANGED vars

(* The locals of the internal function are dropped in the reverse order of *)
(* their declaration: the private key and the shared secret first.  The    *)
(* plaintext of open is its result and lives on.  Nobody but the           *)
(* cryptographic functions clears the stack.                               *)
DropLocals(t) ==
  /\ work[t] \in {"ending", "opened"}
  /\ Proceed(t, IF work[t] = "opened" THEN "plaintext" ELSE "dropped",
             boxes[t] \cap {"plaintext"}, stack[t])
  /\ UNCHANGED <<vars, residue>>

(* Mutant: the record may be dropped while the private key is in use.      *)
DropArcEarly(t) ==
  /\ DropRecord(t)
  /\ Proceed(t, IF work[t] = "dropped" THEN "none" ELSE work[t], boxes[t], stack[t])
  /\ UNCHANGED residue

(* ... and the record, which was declared first, last.                     *)
DropArc(t) ==
  /\ work[t] \in {"none", "dropped", "plaintext"}
  /\ DropRecord(t)
  /\ Proceed(t, IF work[t] = "dropped" THEN "none" ELSE work[t], boxes[t], stack[t])
  /\ UNCHANGED residue

(* key_manager_open copies the plaintext out, or its length is wrong; then *)
(* the box is dropped.                                                     *)
CopyOut(t) ==
  /\ work[t] = "plaintext" /\ pc[t] = "idle"
  /\ Proceed(t, "none", {}, stack[t])
  /\ UNCHANGED <<vars, residue>>

(* The calls that touch no secret, and the reaper and the clock.           *)
OtherStep ==
  /\ \/ Tick
     \/ Reaper
     \/ \E t \in Thread :
          /\ work[t] = "none"
          /\ \/ AddKey(t)
             \/ \E h \in KeyHandle : GetKey(t, h) \/ RemoveKey(t, h)
             \/ RemoveAllKeys(t)
  /\ UNCHANGED memory

SecretStep(t) ==
  \/ GenerateKeypair(t)
  \/ VaultFails(t)
  \/ VaultFilled(t)
  \/ GetPrivateKey(t)
  \/ ComputeSharedKey(t)
  \/ DecapsFails(t)
  \/ DeriveAndSeal(t)
  \/ HpkeOpen(t)
  \/ DropLocals(t)
  \/ DropArc(t)
  \/ CopyOut(t)

SMNext == OtherStep \/ \E t \in Thread : SecretStep(t)

SMSpec == SMInit /\ [][SMNext]_<<vars, memory>>

-----------------------------------------------------------------------------
(* How far a call has got says what it holds: the strengthening that makes *)
(* the property below inductive, together with the registry's.             *)
Working == {"private", "agreed", "ending", "opened"}

MemoryInv ==
  /\ work \in [Thread -> Working \cup {"none", "generated", "dropped", "plaintext"}]
  /\ boxes \in [Thread -> SUBSET Secret]
  /\ stack \in [Thread -> SUBSET Secret]
  /\ residue = {}
  /\ \A t \in Thread :
       /\ work[t] \in Working \cup {"dropped"} => pc[t] = "got"
       /\ work[t] \in {"none", "dropped"} => boxes[t] = {}
       /\ work[t] = "plaintext" => boxes[t] \subseteq {"plaintext"}
       /\ work[t] = "ending" => "plaintext" \notin boxes[t]
       /\ work[t] # "agreed" => stack[t] = {}

(* Secrets exist outside a vault only under it: while a thread has a copy  *)
(* of the private key, or a secret derived from it, in a box or on its     *)
(* stack, the vault of the key it works with is not zeroized.  So once     *)
(* destroying, purging or expiring a key has zeroized its vault, no copy   *)
(* is left in any thread.  Only the key that is not in its vault yet and   *)
(* the plaintext that is being copied out have no vault to answer to, and  *)
(* freed memory never holds a secret.                                      *)
ZeroizedMeansGone ==
  /\ residue = {}
  /\ \A t \in Thread :
       boxes[t] \cup stack[t] # {} =>
         \/ work[t] = "generated"
         \/ work[t] = "plaintext" /\ boxes[t] \cup stack[t] = {"plaintext"}
         \/ held[t] # None /\ vault[held[t]] = "secret"

=============================================================================
