-------------------------- MODULE MCKeyProtection --------------------------
(* TLC instances of KeyProtection.                                         *)
EXTENDS KeyProtection, TLC

(* Requests, KEM keys and binding keys are interchangeable.                *)
Interchangeable ==
  Permutations(Request) \cup Permutations(KemKey) \cup Permutations(BindingKey)

=============================================================================
