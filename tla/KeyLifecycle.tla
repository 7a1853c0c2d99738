---------------------------- MODULE KeyLifecycle ----------------------------
(***************************************************************************)
(* What a key goes through, whatever threads, reapers, restarts and the    *)
(* clock do: its phases come once, in one direction.  The key custody core *)
(* promises it of a key of its registry, the WSD and the KPS together of a *)
(* key pair whose halves they keep apart.                                  *)
(*                                                                         *)
(*   unborn   no key material exists                                       *)
(*   pending  generated, not yet handed out                                *)
(*   usable   a new operation on it can succeed                            *)
(*   retired  none can succeed any more, but something of it is left       *)
(*   erased   nothing is left: in the custody core, zeroized               *)
(***************************************************************************)

CONSTANT KeyHandle

VARIABLE phase

Phase == {"unborn", "pending", "usable", "retired", "erased"}

(* The phases a key may be in after one step of the system.  A failed      *)
(* creation goes from unborn to erased, a lifespan that runs out before    *)
(* the insertion from pending to retired.                                  *)
Successor(p) ==
  CASE p = "unborn"  -> {"unborn", "pending", "erased"}
    [] p = "pending" -> {"pending", "usable", "retired"}
    [] p = "usable"  -> {"usable", "retired", "erased"}
    [] p = "retired" -> {"retired", "erased"}
    [] p = "erased"  -> {"erased"}

Init == phase = [h \in KeyHandle |-> "unborn"]

(* One step may move several keys: the clock and DestroyAllKeys do.        *)
Next ==
  /\ phase' \in [KeyHandle -> Phase]
  /\ \A h \in KeyHandle : phase'[h] \in Successor(phase[h])

Spec == Init /\ [][Next]_phase

=============================================================================
