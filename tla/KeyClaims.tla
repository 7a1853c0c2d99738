------------------------------ MODULE KeyClaims ------------------------------
(***************************************************************************)
(* What clients are told about the expiry of a KEM key: by the answer to   *)
(* generate_key, by an entry of GET /v1/keys, by GetKeyClaims (of the KPS, *)
(* or of the WSD when the KPS is emulated) and by the endorsement of the   *)
(* attestation service.  The registry keeps a deadline of the monotonic    *)
(* clock; the claims carry a number of whole seconds and a Unix time,      *)
(* computed at another moment than the remaining lifespan was read.        *)
(***************************************************************************)
EXTENDS Integers

CONSTANTS
  Request,         \* requests under way
  Key,             \* the handles the KPS will draw
  Lifespan,        \* lifespans asked for, in seconds
  TicksPerSecond,  \* ticks of the clock in a second: nanoseconds, in the code
  MaxInt64,        \* the longest time.Duration, in ticks
  Horizon,         \* bound on the clock
  None

ASSUME KeyClaimsAssumption ==
  /\ Lifespan \subseteq Nat
  /\ TicksPerSecond \in Nat \ {0}
  /\ MaxInt64 \in Nat
  /\ Horizon \in Nat
  /\ None \notin Nat

VARIABLES
  now,          \* the monotonic clock
  phase,        \* the Unix time at its origin, below one second
  deleteAfter,  \* of every key ever made, or None
  registry,     \* the keys in the KPS's registry
  removed,      \* history: keys destroyed, or lost with the KPS's process
  pc,           \* where a request is
  req,          \* the key it is about, the remaining seconds and when they were read
  said          \* what a request told its client last, and when

vars == <<now, phase, deleteAfter, registry, removed, pc, req, said>>

Init ==
  /\ now = 0
  /\ phase \in 0 .. TicksPerSecond - 1
  /\ deleteAfter = [k \in Key |-> None]
  /\ registry = {} /\ removed = {}
  /\ pc = [r \in Request |-> "idle"]
  /\ req = [r \in Request |-> None]
  /\ said = [r \in Request |-> None]

(* time.Now().Unix()                                                       *)
Unix == (now + phase) \div TicksPerSecond

(* Mutant: the registry is trusted to hold no expired key.                 *)
LiveUntilReaped(k) == k \in registry

(* get_key: an expired key that was not reaped yet is hidden.              *)
Live(k) == k \in registry /\ deleteAfter[k] > now

Goto(r, label) == pc' = [pc EXCEPT ![r] = label]

End(r) == Goto(r, "idle") /\ req' = [req EXCEPT ![r] = None]

-----------------------------------------------------------------------------
(* 64-bit signed arithmetic.                                               *)
Wrap(x) == ((x + MaxInt64 + 1) % (2 * (MaxInt64 + 1))) - (MaxInt64 + 1)

(* Mutant: the seconds are multiplied without a look at their number.      *)
DurationUnchecked(secs) == Wrap(secs * TicksPerSecond)

(* The remaining lifespan as a time.Duration: with more than               *)
(* maxDurationSeconds the longest one.                                     *)
Duration(secs) ==
  IF secs > MaxInt64 \div TicksPerSecond THEN MaxInt64
  ELSE Wrap(secs * TicksPerSecond)

(* Mutant: the Unix time is rounded up.                                    *)
ExpirationTimeRoundedUp(secs) == Unix + 1 + secs

(* ExpirationTime, computed from the wall clock when the answer is made.   *)
ExpirationTime(secs) == Unix + secs

Say(r, remaining) ==
  said' = [said EXCEPT ![r] =
    [key |-> req[r].key, expiration |-> ExpirationTime(req[r].secs),
     remaining |-> remaining, readAt |-> req[r].readAt, saidAt |-> now]]

-----------------------------------------------------------------------------
(* The KEM key is made with its deadline; the answer comes later.          *)
GenerateKey(r, k, life) ==
  /\ pc[r] = "idle"
  /\ deleteAfter[k] = None
  /\ deleteAfter' = [deleteAfter EXCEPT ![k] = now + life * TicksPerSecond]
  /\ registry' = registry \cup {k}
  /\ req' = [req EXCEPT ![r] = [key |-> k, secs |-> life, readAt |-> now]]
  /\ Goto(r, "made")
  /\ UNCHANGED <<now, phase, removed, said>>

(* generateKEMKey's answer: the lifespan asked for, from now on.           *)
AnswerGenerate(r) ==
  /\ pc[r] = "made"
  /\ Say(r, 0)
  /\ End(r)
  /\ UNCHANGED <<now, phase, deleteAfter, registry, removed>>

(* get_kem_key_internal finds the record; a key that is not live ends the  *)
(* request with NOT_FOUND and changes nothing.  list_all_keys finds the    *)
(* entries of a page by the same test.                                     *)
GetKey(r, k) ==
  /\ pc[r] = "idle"
  /\ Live(k)
  /\ req' = [req EXCEPT ![r] = [key |-> k, secs |-> 0, readAt |-> now]]
  /\ Goto(r, "found")
  /\ UNCHANGED <<now, phase, deleteAfter, registry, removed, said>>

(* ... and reads the clock again: saturating_duration_since, as_secs.  The *)
(* record is held, so it does not matter whether the key is still there.   *)
ReadRemaining(r) ==
  /\ pc[r] = "found"
  /\ req' = [req EXCEPT
       ![r].secs = IF deleteAfter[req[r].key] < now THEN 0
                   ELSE (deleteAfter[req[r].key] - now) \div TicksPerSecond,
       ![r].readAt = now]
  /\ Goto(r, "read")
  /\ UNCHANGED <<now, phase, deleteAfter, registry, removed, said>>

(* An entry of handleEnumerateKeys' answer, from the WSD's own clock.      *)
EnumerateEntry(r) ==
  /\ pc[r] = "read"
  /\ Say(r, 0)
  /\ End(r)
  /\ UNCHANGED <<now, phase, deleteAfter, registry, removed>>

(* GetKeyClaims, with the answer of GetKEMKey.                             *)
GetKeyClaims(r) ==
  /\ pc[r] = "read"
  /\ Say(r, Duration(req[r].secs))
  /\ Goto(r, "claimed")
  /\ UNCHANGED <<now, phase, deleteAfter, registry, removed, req>>

(* GetKeyEndorsement: the evidence over the claims is returned or fails,   *)
(* however long that takes; a client of GetKeyClaims itself is done.       *)
Endorse(r) ==
  /\ pc[r] = "claimed"
  /\ End(r)
  /\ UNCHANGED <<now, phase, deleteAfter, registry, removed, said>>

(* defaultKPSTimeout or RPCTimeout ends the request before it has claims.  *)
ClaimsTimeout(r) ==
  /\ pc[r] \in {"found", "read"}
  /\ End(r)
  /\ UNCHANGED <<now, phase, deleteAfter, registry, removed, said>>

-----------------------------------------------------------------------------
(* A key is destroyed, or all go with the process of the KPS.              *)
Remove(gone) ==
  /\ registry' = registry \ gone
  /\ removed' = removed \cup gone
  /\ UNCHANGED <<now, phase, deleteAfter, pc, req, said>>

Reap ==
  /\ \E t \in 0 .. now : registry' = {k \in registry : deleteAfter[k] > t}
  /\ UNCHANGED <<now, phase, deleteAfter, removed, pc, req, said>>

Tick ==
  /\ now < Horizon
  /\ now' = now + 1
  /\ UNCHANGED <<phase, deleteAfter, registry, removed, pc, req, said>>

Next ==
  \/ \E r \in Request :
       \/ \E k \in Key, life \in Lifespan : GenerateKey(r, k, life)
       \/ AnswerGenerate(r)
       \/ \E k \in Key : GetKey(r, k)
       \/ ReadRemaining(r)
       \/ EnumerateEntry(r)
       \/ GetKeyClaims(r)
       \/ Endorse(r)
       \/ ClaimsTimeout(r)
  \/ \E k \in registry : Remove({k})
  \/ Remove(registry)
  \/ Reap
  \/ Tick

Spec == Init /\ [][Next]_vars

-----------------------------------------------------------------------------
(* From two seconds after the expiration time that any answer gave for a   *)
(* key, the KPS does not use the key any more, although the claims round   *)
(* twice, to the second, and read the clocks at different moments.         *)
GoneByExpiration ==
  \A r \in Request :
    said[r] # None /\ Live(said[r].key) =>
      now + phase < (said[r].expiration + 2) * TicksPerSecond

(* Unless it is destroyed or lost, a key is there until the expiration     *)
(* time that was given for it, less the time that passed between the       *)
(* reading of its remaining lifespan and the answer: no answer promises    *)
(* more than the delay of its own making.                                  *)
KeptUntilExpiration ==
  \A r \in Request :
    (/\ said[r] # None
     /\ said[r].key \notin removed
     /\ now + phase + (said[r].saidAt - said[r].readAt)
          < said[r].expiration * TicksPerSecond)
      => Live(said[r].key)

(* The remaining lifespan of the claims is never negative and never longer *)
(* than what the key had left when it was read, for any lifespan a key can *)
(* have been made with.                                                    *)
RemainingNotOverstated ==
  \A r \in Request :
    pc[r] = "claimed" =>
      /\ said[r].remaining >= 0
      /\ said[r].remaining > 0 =>
           said[r].remaining <= deleteAfter[said[r].key] - said[r].readAt

=============================================================================
