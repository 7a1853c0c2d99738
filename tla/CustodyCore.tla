----------------------------- MODULE CustodyCore -----------------------------
(***************************************************************************)
(* The eleven FFI functions of the two custody cores, one action each: the *)
(* KPS's, which holds the KEM keys, and the workload service's, which      *)
(* holds the binding keys.  The registries are plain maps here (their      *)
(* threads and their clock are KeyRegistry's); what is kept is the order   *)
(* of the checks, what each call computes (Hpke) and what it writes to the *)
(* caller.  The private key of a record is named by the record's handle.   *)
(***************************************************************************)
EXTENDS Hpke, TLC

CONSTANTS
  BindingHandle,  \* the UUIDs the workload service's core will draw
  KemHandle,      \* the UUIDs the KPS's core will draw
  Ephemeral,      \* the ephemeral keys of the clients
  SealKey,        \* the ephemeral key of the KPS's hpke_seal
  Aad             \* associated data of requests

VARIABLES
  bindings,   \* the workload service's registry: handle -> KeySpec::Binding
  kems,       \* the KPS's registry: handle -> KeySpec::KemWithBindingPub
  drawn,      \* handles that have been in a registry
  announced,  \* what callers were told about binding keys
  published,  \* what callers were told about KEM keys
  wire,       \* what the last successful decap_and_seal wrote
  opened,     \* what the last successful open wrote
  reply       \* the function called last, its arguments and its status

vars == <<bindings, kems, drawn, announced, published, wire, opened, reply>>

(* How the pointers and lengths of a call are: all as documented, one of   *)
(* them null or empty, a message that does not decode, or an output buffer *)
(* of another length than the value to be written.                         *)
Argument == {"valid", "null", "undecodable", "misfit"}

(* What happens to create_key_internal besides its arguments.              *)
Fate == {"created", "vault fails", "instant overflows"}

Nothing == [kem |-> "none"]

Init ==
  /\ bindings = <<>>
  /\ kems = <<>>
  /\ drawn = {}
  /\ announced = {}
  /\ published = {}
  /\ wire = Nothing
  /\ opened = Nothing
  /\ reply = [op |-> "none", arg |-> "valid", status |-> "SUCCESS"]

(* The operation an FFI function names to ffi_call, as events spell it.     *)
KccOperation ==
  [GenerateKemKeypair |-> "generate_kem_keypair",
   DestroyKemKey |-> "destroy_kem_key",
   EnumerateKemKeys |-> "enumerate_kem_keys",
   DecapAndSeal |-> "decap_and_seal",
   GetKemKey |-> "get_kem_key",
   GenerateBindingKeypair |-> "generate_binding_keypair",
   DestroyBindingKey |-> "destroy_binding_key",
   DestroyAllBindingKeys |-> "destroy_all_binding_keys",
   Open |-> "open",
   EnumerateBindingKeys |-> "enumerate_binding_keys",
   GetBindingKey |-> "get_binding_key"]

Reply(op, arg, status) == reply' = [op |-> op, arg |-> arg, status |-> status]

(* A value is written only if the caller's buffers have its length.        *)
Fitted(r, arg) == IF IsOk(r) /\ arg = "misfit" THEN Err("INVALID_ARGUMENT") ELSE r

(* A null or empty argument ends a call before anything else.              *)
Given(r, arg) == IF arg = "null" THEN Err("INVALID_ARGUMENT") ELSE r

Decoded(r, arg) == IF arg = "undecodable" THEN Err("INVALID_ARGUMENT") ELSE r

(* The two kinds of KeySpec.                                               *)
KemWithBindingPub(algo, pk, binding) ==
  [algo |-> algo, kem_public_key |-> pk, binding_public_key |-> binding]
Binding(algo, pk) == [algo |-> algo, binding_public_key |-> pk]

(* get_key of a handle that may not be registered.                         *)
Find(registry, h) ==
  IF h \in DOMAIN registry THEN Ok(registry[h]) ELSE Err("NOT_FOUND")

(* A registry with one more record, and without the record of h.           *)
With(registry, h, record) ==
  [k \in DOMAIN registry \cup {h} |-> IF k = h THEN record ELSE registry[k]]
Without(registry, h) == [k \in DOMAIN registry \ {h} |-> registry[k]]

-----------------------------------------------------------------------------
(* Mutant: only the KEM algorithm is looked at.                            *)
CreateKeyAnySuite(spec, fate) ==
  IF spec.algo.kem # KemAlgorithm.DhkemX25519HkdfSha256
    THEN Err("UNSUPPORTED_ALGORITHM")
  ELSE IF fate = "vault fails" THEN Err("CRYPTO_ERROR")
  ELSE IF fate = "instant overflows" THEN Err("UNSUPPORTED_ALGORITHM")
  ELSE Ok(spec)

(* create_key_internal.                                                    *)
CreateKey(spec, fate) ==
  IF ~SupportedSuite(spec.algo) THEN Err("UNSUPPORTED_ALGORITHM")
  ELSE IF fate = "vault fails" THEN Err("CRYPTO_ERROR")
  ELSE IF fate = "instant overflows" THEN Err("UNSUPPORTED_ALGORITHM")
  ELSE Ok(spec)

CreateBoundKemKey(h, algo, pk, fate) ==
  IF algo.kem # KemAlgorithm.DhkemX25519HkdfSha256 THEN Err("INVALID_KEY")
  ELSE CreateKey(KemWithBindingPub(algo, Point(h), pk), fate)

(* What a caller learns of a binding key.                                  *)
PublicOf(h, spec) == [binding |-> h, pk |-> spec.binding_public_key]

(* The record is registered before the length of out_pubkey is looked at.  *)
GenerateBindingKeypair(h, algo, arg, fate) ==
  LET record == Given(Decoded(CreateKey(Binding(algo, Point(h)), fate), arg), arg) IN
    /\ h \notin drawn
    /\ bindings' = IF IsOk(record) THEN With(bindings, h, record.value) ELSE bindings
    /\ drawn' = IF IsOk(record) THEN drawn \cup {h} ELSE drawn
    /\ announced' = IF IsOk(Fitted(record, arg))
                      THEN announced \cup {PublicOf(h, record.value)}
                      ELSE announced
    /\ Reply(KccOperation.GenerateBindingKeypair, arg, Fitted(record, arg).status)
    /\ UNCHANGED <<kems, published, wire, opened>>

(* What a caller learns of a KEM key.                                      *)
Described(h, spec) ==
  [kem |-> h, pk |-> spec.kem_public_key, binding |-> spec.binding_public_key]

GenerateKemKeypair(h, bytes, algo, arg, fate) ==
  LET pk == PublicKeyTryFrom(bytes)
      record == Given(IF IsOk(pk)
                        THEN Decoded(CreateBoundKemKey(h, algo, pk.value, fate), arg)
                        ELSE pk, arg)
  IN /\ h \notin drawn
     /\ kems' = IF IsOk(record) THEN With(kems, h, record.value) ELSE kems
     /\ drawn' = IF IsOk(record) THEN drawn \cup {h} ELSE drawn
     /\ published' = IF IsOk(Fitted(record, arg))
                       THEN published \cup {Described(h, record.value)}
                       ELSE published
     /\ Reply(KccOperation.GenerateKemKeypair, arg, Fitted(record, arg).status)
     /\ UNCHANGED <<bindings, announced, wire, opened>>

DestroyKemKey(h, arg) ==
  LET found == Given(Find(kems, h), arg) IN
    /\ kems' = IF IsOk(found) THEN Without(kems, h) ELSE kems
    /\ Reply(KccOperation.DestroyKemKey, arg, found.status)
    /\ UNCHANGED <<bindings, drawn, announced, published, wire, opened>>

DestroyBindingKey(h, arg) ==
  LET found == Given(Find(bindings, h), arg) IN
    /\ bindings' = IF IsOk(found) THEN Without(bindings, h) ELSE bindings
    /\ Reply(KccOperation.DestroyBindingKey, arg, found.status)
    /\ UNCHANGED <<kems, drawn, announced, published, wire, opened>>

DestroyAllBindingKeys ==
  /\ bindings' = <<>>
  /\ Reply(KccOperation.DestroyAllBindingKeys, "valid", "SUCCESS")
  /\ UNCHANGED <<kems, drawn, announced, published, wire, opened>>

-----------------------------------------------------------------------------
DecapAndSealInternal(h, enc, aad) ==
  LET record == Find(kems, h) IN
    IF ~IsOk(record) THEN record
    ELSE LET secret == Decaps(h, enc) IN
      IF ~IsOk(secret) THEN secret
      ELSE HpkeSeal(record.value.binding_public_key, secret.value, aad,
                    record.value.algo, SealKey)

(* Mutant: the buffers' lengths are compared after they were written.      *)
DecapAndSealWritingFirst(h, enc, aad, arg) ==
  LET sealed == Given(DecapAndSealInternal(h, enc, aad), arg) IN
    /\ wire' = IF IsOk(sealed)
                 THEN [kem |-> h, sent |-> enc, aad |-> aad, msg |-> sealed.value]
                 ELSE wire
    /\ Reply(KccOperation.DecapAndSeal, arg, Fitted(sealed, arg).status)
    /\ UNCHANGED <<bindings, kems, drawn, announced, published, opened>>

DecapAndSeal(h, enc, aad, arg) ==
  LET sealed == Fitted(Given(DecapAndSealInternal(h, enc, aad), arg), arg) IN
    /\ wire' = IF IsOk(sealed)
                 THEN [kem |-> h, sent |-> enc, aad |-> aad, msg |-> sealed.value]
                 ELSE wire
    /\ Reply(KccOperation.DecapAndSeal, arg, sealed.status)
    /\ UNCHANGED <<bindings, kems, drawn, announced, published, opened>>

OpenInternal(h, enc, ct, aad) ==
  LET record == Find(bindings, h) IN
    IF ~IsOk(record) THEN record
    ELSE HpkeOpen(h, enc, ct, aad, record.value.algo)

Open(h, enc, aad, arg) ==
  LET plain == Fitted(Given(OpenInternal(h, enc, wire.msg.ct, aad), arg), arg) IN
    /\ wire # Nothing
    /\ opened' = IF IsOk(plain)
                   THEN [kem |-> wire.kem, sent |-> wire.sent, sealedAad |-> wire.aad,
                         binding |-> h, aad |-> aad, secret |-> plain.value]
                   ELSE opened
    /\ Reply(KccOperation.Open, arg, plain.status)
    /\ UNCHANGED <<bindings, kems, drawn, announced, published, wire>>

GetKemKey(h, arg) ==
  LET found == Fitted(Given(Find(kems, h), arg), arg) IN
    /\ published' = IF IsOk(found) THEN published \cup {Described(h, found.value)}
                    ELSE published
    /\ Reply(KccOperation.GetKemKey, arg, found.status)
    /\ UNCHANGED <<bindings, kems, drawn, announced, wire, opened>>

GetBindingKey(h, arg) ==
  LET found == Fitted(Given(Find(bindings, h), arg), arg) IN
    /\ announced' = IF IsOk(found) THEN announced \cup {PublicOf(h, found.value)}
                    ELSE announced
    /\ Reply(KccOperation.GetBindingKey, arg, found.status)
    /\ UNCHANGED <<bindings, kems, drawn, published, wire, opened>>

(* The enumerations, of a page of the registry: which keys a page holds is *)
(* Enumeration's subject, what it says of them is this module's.           *)
EnumerateKemKeys(page, arg) ==
  /\ published' = IF arg = "null" THEN published
                  ELSE published \cup {Described(h, kems[h]) : h \in page}
  /\ Reply(KccOperation.EnumerateKemKeys, arg, Given(Ok(page), arg).status)
  /\ UNCHANGED <<bindings, kems, drawn, announced, wire, opened>>

EnumerateBindingKeys(page, arg) ==
  /\ announced' = IF arg = "null" THEN announced
                  ELSE announced \cup {PublicOf(h, bindings[h]) : h \in page}
  /\ Reply(KccOperation.EnumerateBindingKeys, arg, Given(Ok(page), arg).status)
  /\ UNCHANGED <<bindings, kems, drawn, published, wire, opened>>

-----------------------------------------------------------------------------
Enc == KeyBytes({Point(e) : e \in Ephemeral})

(* The suites callers ask for: at most one field unspecified.              *)
Suite ==
  {a \in HpkeAlgorithm : \E f \in DOMAIN a : \A g \in DOMAIN a \ {f} :
     a[f] \in 0 .. 1 /\ a[g] = 1}

(* A generation meets at most one mishap besides its suite and key.        *)
Mishap ==
  {m \in [arg : Argument, fate : Fate] : m.arg = "valid" \/ m.fate = "created"}

Next ==
  \/ \E h \in BindingHandle, algo \in Suite, m \in Mishap :
       GenerateBindingKeypair(h, algo, m.arg, m.fate)
  \/ \E h \in KemHandle, bytes \in KeyBytes({a.pk : a \in announced}),
        algo \in Suite, m \in Mishap :
       GenerateKemKeypair(h, bytes, algo, m.arg, m.fate)
  \/ \E h \in KemHandle, arg \in {"valid", "null"} : DestroyKemKey(h, arg)
  \/ \E h \in BindingHandle, arg \in {"valid", "null"} : DestroyBindingKey(h, arg)
  \/ DestroyAllBindingKeys
  \/ \E h \in KemHandle, enc \in Enc, aad \in Aad,
        arg \in Argument \ {"undecodable"} : DecapAndSeal(h, enc, aad, arg)
  \/ \E h \in BindingHandle, enc \in KeyBytes({Point(SealKey)}), aad \in Aad,
        arg \in Argument \ {"undecodable"} : Open(h, enc, aad, arg)
  \/ \E h \in KemHandle, arg \in Argument \ {"undecodable"} : GetKemKey(h, arg)
  \/ \E h \in BindingHandle, arg \in Argument \ {"undecodable"} :
       GetBindingKey(h, arg)
  \/ \E page \in SUBSET DOMAIN kems, arg \in {"valid", "null"} :
       EnumerateKemKeys(page, arg)
  \/ \E page \in SUBSET DOMAIN bindings, arg \in {"valid", "null"} :
       EnumerateBindingKeys(page, arg)

Spec == Init /\ [][Next]_vars

Symmetry == Permutations(BindingHandle) \cup Permutations(KemHandle)

-----------------------------------------------------------------------------
(* What the workload opens is what the client encapsulated: for every      *)
(* description of the KEM key that any call ever gave out, the secret is   *)
(* the one the client derived from that public key, it was opened with the *)
(* binding key that description names, and under the associated data it    *)
(* was sealed with.  No path through the two cores yields anything else    *)
(* with a successful status.                                               *)
OpensWhatClientEncapsulated ==
  opened # Nothing =>
    /\ opened.aad = opened.sealedAad
    /\ \A p \in published :
         p.kem = opened.kem =>
           /\ Encap(p.pk, opened.sent.sk).value.secret = opened.secret
           /\ p.binding = Point(opened.binding)

(* A key that could be created can be used: whatever algorithm and binding *)
(* key it was asked for with, no later call on it fails for its algorithm. *)
(* A call on a key ends in one of these statuses only.                     *)
UsableOnceCreated ==
  LET status(op) ==
        CASE op = KccOperation.DecapAndSeal ->
               {"NOT_FOUND", "DECAPSULATION_FAILURE", "ENCRYPTION_FAILURE"}
          [] op = KccOperation.Open -> {"NOT_FOUND", "DECRYPTION_FAILURE"}
          [] op = KccOperation.GenerateKemKeypair ->
               {"INVALID_KEY", "UNSUPPORTED_ALGORITHM", "CRYPTO_ERROR"}
          [] op = KccOperation.GenerateBindingKeypair ->
               {"UNSUPPORTED_ALGORITHM", "CRYPTO_ERROR"}
          [] OTHER -> {"NOT_FOUND"}
  IN reply.status \in {"SUCCESS", "INVALID_ARGUMENT"} \cup status(reply.op)

(* A failed call leaves no trace, with one exception: a generation whose   *)
(* out_pubkey has the wrong length, its only mistake, is refused with      *)
(* INVALID_ARGUMENT after exactly one key, a new one, was registered, and  *)
(* the caller never learns its handle.                                     *)
FailureLeavesNoTrace ==
  [][reply'.status # "SUCCESS" =>
       /\ UNCHANGED <<announced, published, wire, opened>>
       /\ \/ UNCHANGED <<bindings, kems>>
          \/ /\ reply'.arg = "misfit" /\ reply'.status = "INVALID_ARGUMENT"
             /\ \E h \in drawn' \ drawn :
                  \/ /\ reply'.op = KccOperation.GenerateBindingKeypair
                     /\ bindings' = With(bindings, h, bindings'[h]) /\ kems' = kems
                  \/ /\ reply'.op = KccOperation.GenerateKemKeypair
                     /\ kems' = With(kems, h, kems'[h]) /\ bindings' = bindings]_vars

=============================================================================
