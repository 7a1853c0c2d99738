------------------------- MODULE CustodyCoreProofs -------------------------
(***************************************************************************)
(* Proofs about the two custody cores, for any number of keys, clients and *)
(* calls in any order: what is opened is what the client encapsulated, a   *)
(* key that could be created can be used, and a failed call leaves no      *)
(* trace.                                                                  *)
(***************************************************************************)
EXTENDS CustodyCore, TLAPS

(* Most steps below are about sets, records and functions alone, and are   *)
(* left to Zenon; a step that needs more says so.                          *)
USE Zenon

(* The secret that a client and the holder of KEM key h derive from the    *)
(* encapsulation sent.                                                     *)
SecretOf(h, sent) == SharedSecret({h, sent.sk}, sent, Point(h))

(* Everything that is known of KEM key h, to callers and in the registry,  *)
(* names binding key pk.                                                   *)
BoundTo(h, pk) ==
  /\ \A p \in published : p.kem = h => p.binding = pk
  /\ h \in DOMAIN kems => kems[h].binding_public_key = pk

RegistriesOK ==
  /\ DOMAIN kems \subseteq drawn
  /\ \A h \in DOMAIN kems :
       /\ kems[h].kem_public_key = Point(h)
       /\ SupportedSuite(kems[h].algo)
       /\ BoundTo(h, kems[h].binding_public_key)
  /\ \A h \in DOMAIN bindings : SupportedSuite(bindings[h].algo)

PublishedOK == \A p \in published : p.kem \in drawn /\ p.pk = Point(p.kem)

WireOK ==
  wire # Nothing =>
    /\ wire.kem \in drawn
    /\ wire.sent = Point(wire.sent.sk)
    /\ wire.msg.ct.pt = SecretOf(wire.kem, wire.sent)
    /\ wire.msg.ct.aad = wire.aad
    /\ BoundTo(wire.kem, wire.msg.ct.ctx.pk)

OpenedOK ==
  opened # Nothing =>
    /\ opened.kem \in drawn
    /\ opened.sent = Point(opened.sent.sk)
    /\ opened.secret = SecretOf(opened.kem, opened.sent)
    /\ opened.aad = opened.sealedAad
    /\ BoundTo(opened.kem, Point(opened.binding))

Inv == RegistriesOK /\ PublishedOK /\ WireOK /\ OpenedOK /\ UsableOnceCreated

-----------------------------------------------------------------------------
(* What the results of the functions say.                                  *)
LEMMA Results ==
  /\ \A v : IsOk(Ok(v)) /\ Ok(v).value = v /\ Ok(v).status = "SUCCESS"
  /\ \A s : Err(s).status = s /\ (IsOk(Err(s)) <=> s = "SUCCESS")
BY DEF Ok, Err, IsOk

(* A check of the arguments lets a result through or refuses the call.     *)
LEMMA Checks ==
  ASSUME NEW r, NEW arg
  PROVE  /\ IsOk(Given(r, arg)) => Given(r, arg) = r /\ IsOk(r)
         /\ IsOk(Fitted(r, arg)) => Fitted(r, arg) = r /\ IsOk(r)
         /\ IsOk(Decoded(r, arg)) => Decoded(r, arg) = r /\ IsOk(r)
         /\ Given(r, arg).status \in {r.status, "INVALID_ARGUMENT"}
         /\ Fitted(r, arg).status \in {r.status, "INVALID_ARGUMENT"}
         /\ Decoded(r, arg).status \in {r.status, "INVALID_ARGUMENT"}
         /\ IsOk(r) /\ ~IsOk(Fitted(r, arg)) =>
              Fitted(r, arg).status = "INVALID_ARGUMENT" /\ arg = "misfit"
<1>1. IsOk(r) <=> r.status = "SUCCESS"
  BY DEF IsOk
<1> QED
  BY SMT, <1>1, Results DEF Given, Fitted, Decoded

(* create_key_internal makes a key of a supported suite or none.           *)
LEMMA Creates ==
  ASSUME NEW spec, NEW fate \in Fate
  PROVE  /\ IsOk(CreateKey(spec, fate)) =>
              CreateKey(spec, fate).value = spec /\ SupportedSuite(spec.algo)
         /\ CreateKey(spec, fate).status \in {"SUCCESS", "UNSUPPORTED_ALGORITHM", "CRYPTO_ERROR"}
<1>1. CASE ~SupportedSuite(spec.algo)
  BY SMT, <1>1, Results DEF CreateKey
<1>2. CASE SupportedSuite(spec.algo) /\ fate # "created"
  <2>1. CreateKey(spec, fate) \in {Err("CRYPTO_ERROR"), Err("UNSUPPORTED_ALGORITHM")}
    BY <1>2 DEF CreateKey, Fate
  <2> QED
    BY SMT, <2>1, Results
<1>3. CASE SupportedSuite(spec.algo) /\ fate = "created"
  <2>1. CreateKey(spec, fate) = Ok(spec)
    BY <1>3 DEF CreateKey
  <2> QED
    BY <1>3, <2>1, Results
<1> QED
  BY <1>1, <1>2, <1>3

(* ... and a KEM key is bound to the binding key it was asked for with.    *)
LEMMA CreatesBound ==
  ASSUME NEW h, NEW algo, NEW pk, NEW fate \in Fate
  PROVE  LET r == CreateBoundKemKey(h, algo, pk, fate) IN
           /\ IsOk(r) =>
                /\ r.value.kem_public_key = Point(h)
                /\ r.value.binding_public_key = pk
                /\ SupportedSuite(r.value.algo)
           /\ r.status \in {"SUCCESS", "INVALID_KEY", "UNSUPPORTED_ALGORITHM", "CRYPTO_ERROR"}
<1> DEFINE spec == KemWithBindingPub(algo, Point(h), pk)
<1>1. spec.kem_public_key = Point(h) /\ spec.binding_public_key = pk /\ spec.algo = algo
  BY DEF KemWithBindingPub
<1> HIDE DEF spec
<1>2. CASE algo.kem # KemAlgorithm.DhkemX25519HkdfSha256
  BY <1>2, Results DEF CreateBoundKemKey
<1>3. CASE ~(algo.kem # KemAlgorithm.DhkemX25519HkdfSha256)
  <2>1. CreateBoundKemKey(h, algo, pk, fate) = CreateKey(spec, fate)
    BY <1>3 DEF CreateBoundKemKey, spec
  <2> QED
    BY SMT, <1>1, <2>1, Creates
<1> QED
  BY <1>2, <1>3

(* The key agreement.                                                      *)
LEMMA Agrees ==
  ASSUME NEW sk, NEW bytes
  PROVE  /\ IsOk(ComputeSharedKey(sk, bytes)) =>
              bytes.form = "point" /\ ComputeSharedKey(sk, bytes).value = {sk, bytes.sk}
         /\ bytes.form = "point" => IsOk(ComputeSharedKey(sk, bytes))
BY Results DEF ComputeSharedKey

(* The holder of a KEM key and the client derive the same secret.          *)
LEMMA SameSecret ==
  ASSUME NEW h, NEW e
  PROVE  Encap(Point(h), e).value.secret = SecretOf(h, Point(e))
<1>1. Point(h).form = "point" /\ Point(h).sk = h /\ Point(e).sk = e
  BY DEF Point
<1>2. /\ IsOk(ComputeSharedKey(e, Point(h)))
      /\ ComputeSharedKey(e, Point(h)).value = {e, h}
  BY SMT, <1>1, Agrees
<1> DEFINE secret == SharedSecret({e, h}, Point(e), Point(h))
           v == [secret |-> secret, enc |-> Point(e)]
<1>3. Encap(Point(h), e) = Ok(v)
  BY <1>2 DEF Encap
<1>4. secret = SecretOf(h, Point(e))
  <2>1. {e, h} = {h, Point(e).sk}
    BY <1>1
  <2> QED
    BY <2>1 DEF SecretOf
<1> HIDE DEF secret
<1>5. v.secret = secret
  OBVIOUS
<1> HIDE DEF v
<1> QED
  BY <1>3, <1>4, <1>5, Results

(* decap_and_seal_internal of a key whose suite is supported.              *)
LEMMA Seals ==
  ASSUME RegistriesOK, NEW h, NEW enc, NEW aad
  PROVE  LET r == DecapAndSealInternal(h, enc, aad) IN
           /\ IsOk(r) =>
                /\ h \in DOMAIN kems /\ enc.form = "point"
                /\ r.value.ct.pt = SecretOf(h, enc)
                /\ r.value.ct.aad = aad
                /\ r.value.ct.ctx.pk = kems[h].binding_public_key
           /\ r.status \in {"SUCCESS", "NOT_FOUND", "DECAPSULATION_FAILURE",
                            "ENCRYPTION_FAILURE"}
<1> DEFINE r == DecapAndSealInternal(h, enc, aad)
           pk == kems[h].binding_public_key
           secret == Decaps(h, enc)
           sealed == HpkeSeal(pk, secret.value, aad, kems[h].algo, SealKey)
           ctx == SenderContext(pk, SealKey)
<1>1. CASE h \notin DOMAIN kems
  BY <1>1, Results DEF DecapAndSealInternal, Find
<1>2. CASE h \in DOMAIN kems
  <2>1. Find(kems, h) = Ok(kems[h])
    BY <1>2 DEF Find
  <2>2. r = IF ~IsOk(secret) THEN secret ELSE sealed
    BY <2>1, Results DEF DecapAndSealInternal
  <2>3. /\ IsOk(secret) => enc.form = "point" /\ secret.value = SecretOf(h, enc)
        /\ secret.status \in {"SUCCESS", "DECAPSULATION_FAILURE"}
    <3> DEFINE dh == ComputeSharedKey(h, enc)
    <3>1. IsOk(dh) => enc.form = "point" /\ dh.value = {h, enc.sk}
      BY Agrees
    <3>2. secret = IF IsOk(dh) THEN Ok(SharedSecret(dh.value, enc, Point(h)))
                   ELSE Err("DECAPSULATION_FAILURE")
      BY DEF Decaps
    <3>3. IsOk(dh) => SharedSecret(dh.value, enc, Point(h)) = SecretOf(h, enc)
      BY <3>1 DEF SecretOf
    <3> HIDE DEF dh, secret
    <3> QED
      BY <3>1, <3>2, <3>3, Results
  <2>4. IsOk(ctx) => ctx.value.pk = pk
    BY SMT, Results, Agrees DEF SenderContext, Context
  <2>5. /\ IsOk(sealed) => /\ sealed.value.ct.pt = secret.value /\ sealed.value.ct.aad = aad
                           /\ sealed.value.ct.ctx.pk = pk
        /\ sealed.status \in {"SUCCESS", "ENCRYPTION_FAILURE"}
    <3>1. sealed = IF ~IsOk(ctx) THEN Err("ENCRYPTION_FAILURE")
                   ELSE Ok([enc |-> Point(SealKey),
                            ct |-> [ctx |-> ctx.value, aad |-> aad, pt |-> secret.value]])
      BY <1>2 DEF HpkeSeal, RegistriesOK
    <3> HIDE DEF sealed, ctx, secret, pk
    <3> QED
      BY SMT, <2>4, <3>1, Results
  <2> HIDE DEF sealed, ctx, secret, pk, r
  <2>6. IsOk(secret) \/ secret.status = "DECAPSULATION_FAILURE"
    BY <2>3 DEF IsOk
  <2> QED
    BY <1>2, <2>2, <2>3, <2>5, <2>6, Results DEF r, pk, IsOk
<1> QED
  BY <1>1, <1>2


(* open_internal of a key whose suite is supported: a ciphertext opens     *)
(* with the key, and under the associated data, it was sealed for.         *)
LEMMA OpensItsOwn ==
  ASSUME RegistriesOK, NEW h, NEW enc, NEW ct, NEW aad
  PROVE  LET r == OpenInternal(h, enc, ct, aad) IN
           /\ IsOk(r) => r.value = ct.pt /\ ct.aad = aad /\ ct.ctx.pk = Point(h)
           /\ r.status \in {"SUCCESS", "NOT_FOUND", "DECRYPTION_FAILURE"}
<1> DEFINE r == OpenInternal(h, enc, ct, aad)
           ctx == RecipientContext(h, enc)
<1>1. CASE h \notin DOMAIN bindings
  BY <1>1, Results DEF OpenInternal, Find
<1>2. CASE h \in DOMAIN bindings
  <2>1. Find(bindings, h) = Ok(bindings[h])
    BY <1>2 DEF Find
  <2>2. r = HpkeOpen(h, enc, ct, aad, bindings[h].algo)
    BY <2>1, Results DEF OpenInternal
  <2>3. IsOk(ctx) => ctx.value.pk = Point(h)
    BY SMT, Results, Agrees DEF RecipientContext, Context
  <2>4. r = IF ~IsOk(ctx) THEN Err("DECRYPTION_FAILURE")
            ELSE IF ct.ctx # ctx.value \/ ct.aad # aad THEN Err("DECRYPTION_FAILURE")
            ELSE Ok(ct.pt)
    BY <1>2, <2>2 DEF HpkeOpen, RegistriesOK
  <2> HIDE DEF r, ctx
  <2>5. CASE IsOk(ctx) /\ ct.ctx = ctx.value /\ ct.aad = aad
    <3>1. r = Ok(ct.pt)
      BY <2>4, <2>5
    <3> QED
      BY <2>3, <2>5, <3>1, Results DEF r
  <2>6. CASE ~(IsOk(ctx) /\ ct.ctx = ctx.value /\ ct.aad = aad)
    <3>1. r = Err("DECRYPTION_FAILURE")
      BY <2>4, <2>6
    <3> QED
      BY <3>1, Results DEF r
  <2> QED
    BY <2>5, <2>6
<1> QED
  BY <1>1, <1>2

-----------------------------------------------------------------------------
(* What a call may do to the KEM keys: a handle that was drawn keeps its   *)
(* record or loses it, a new one gets a supported record bound to itself,  *)
(* and callers are told what the records say.                              *)
KemsKept ==
  /\ drawn \subseteq drawn' /\ published \subseteq published'
  /\ \A h \in DOMAIN kems' \cap drawn : h \in DOMAIN kems /\ kems'[h] = kems[h]
  /\ \A h \in DOMAIN kems' \ drawn :
       /\ h \in drawn'
       /\ kems'[h].kem_public_key = Point(h)
       /\ SupportedSuite(kems'[h].algo)
  /\ \A p \in published' \ published :
       p.kem \in DOMAIN kems' /\ p = Described(p.kem, kems'[p.kem])

BindingsKept == \A h \in DOMAIN bindings' : SupportedSuite(bindings'[h].algo)

(* What is known of a drawn KEM key stays so.                              *)
LEMMA BoundStays ==
  ASSUME RegistriesOK, PublishedOK, KemsKept, NEW h \in drawn, NEW pk, BoundTo(h, pk)
  PROVE  BoundTo(h, pk)'
<1>1. h \in DOMAIN kems' => kems'[h].binding_public_key = pk
  BY DEF KemsKept, BoundTo
<1>2. ASSUME NEW p \in published', p.kem = h PROVE p.binding = pk
  <2>1. CASE p \in published
    BY <1>2, <2>1 DEF BoundTo
  <2>2. CASE p \notin published
    <3>1. h \in DOMAIN kems' /\ p = Described(h, kems'[h])
      BY <1>2, <2>2 DEF KemsKept
    <3>2. p.binding = kems'[h].binding_public_key
      BY <3>1 DEF Described
    <3> QED
      BY <1>1, <3>1, <3>2
  <2> QED
    BY <2>1, <2>2
<1> QED
  BY <1>1, <1>2 DEF BoundTo

(* The registries and what callers know stay consistent.                   *)
LEMMA KeptConsistent ==
  ASSUME RegistriesOK, PublishedOK, KemsKept, BindingsKept
  PROVE  RegistriesOK' /\ PublishedOK'
<1>1. DOMAIN kems' \subseteq drawn'
  BY DEF KemsKept
<1>2. ASSUME NEW h \in DOMAIN kems'
      PROVE  /\ kems'[h].kem_public_key = Point(h)
             /\ SupportedSuite(kems'[h].algo)
             /\ \A p \in published' : p.kem = h => p.binding = kems'[h].binding_public_key
  <2>1. CASE h \in drawn
    <3>1. h \in DOMAIN kems /\ kems'[h] = kems[h]
      BY <2>1 DEF KemsKept
    <3>2. PICK pk : pk = kems[h].binding_public_key
      OBVIOUS
    <3>3. BoundTo(h, pk)'
      BY <2>1, <3>1, <3>2, BoundStays DEF RegistriesOK
    <3> QED
      BY <3>1, <3>2, <3>3 DEF RegistriesOK, BoundTo
  <2>2. CASE h \notin drawn
    <3>1. \A p \in published' : p.kem = h => p = Described(h, kems'[h])
      BY <2>2 DEF KemsKept, PublishedOK
    <3>2. Described(h, kems'[h]).binding = kems'[h].binding_public_key
      BY DEF Described
    <3> QED
      BY <2>2, <3>1, <3>2 DEF KemsKept
  <2> QED
    BY <2>1, <2>2
<1>3. RegistriesOK'
  BY <1>1, <1>2 DEF RegistriesOK, BoundTo, BindingsKept
<1>4. ASSUME NEW p \in published' PROVE p.kem \in drawn' /\ p.pk = Point(p.kem)
  <2>1. CASE p \in published
    BY <2>1 DEF PublishedOK, KemsKept
  <2>2. CASE p \notin published
    <3>1. p.kem \in DOMAIN kems' /\ p = Described(p.kem, kems'[p.kem])
      BY <2>2 DEF KemsKept
    <3>2. Described(p.kem, kems'[p.kem]).pk = kems'[p.kem].kem_public_key
      BY DEF Described
    <3> QED
      BY <1>1, <1>2, <3>1, <3>2
  <2> QED
    BY <2>1, <2>2
<1> QED
  BY <1>3, <1>4 DEF PublishedOK


-----------------------------------------------------------------------------
(* What generate_binding_keypair registers: a record with a supported      *)
(* suite, or one of the errors it may return.                              *)
LEMMA GeneratesBinding ==
  ASSUME NEW h, NEW algo, NEW arg, NEW fate \in Fate
  PROVE  LET r == Given(Decoded(CreateKey(Binding(algo, Point(h)), fate), arg), arg) IN
           /\ IsOk(r) => SupportedSuite(r.value.algo)
           /\ r.status \in {"SUCCESS", "INVALID_ARGUMENT", "UNSUPPORTED_ALGORITHM",
                            "CRYPTO_ERROR"}
<1> DEFINE c == CreateKey(Binding(algo, Point(h)), fate)
<1>1. /\ IsOk(c) => /\ c.value = Binding(algo, Point(h))
                    /\ SupportedSuite(Binding(algo, Point(h)).algo)
      /\ c.status \in {"SUCCESS", "UNSUPPORTED_ALGORITHM", "CRYPTO_ERROR"}
  BY Creates
<1> HIDE DEF c
<1>2. /\ IsOk(Decoded(c, arg)) => Decoded(c, arg) = c /\ IsOk(c)
      /\ Decoded(c, arg).status \in {c.status, "INVALID_ARGUMENT"}
  BY Checks
<1>3. PICK d : d = Decoded(c, arg)
  OBVIOUS
<1>4. /\ IsOk(Given(d, arg)) => Given(d, arg) = d /\ IsOk(d)
      /\ Given(d, arg).status \in {d.status, "INVALID_ARGUMENT"}
  BY Checks
<1>5. /\ IsOk(Given(d, arg)) => SupportedSuite(Given(d, arg).value.algo)
      /\ Given(d, arg).status \in {"SUCCESS", "INVALID_ARGUMENT", "UNSUPPORTED_ALGORITHM",
                                   "CRYPTO_ERROR"}
  BY <1>1, <1>2, <1>3, <1>4
<1> QED
  BY <1>3, <1>5 DEF c

(* The record a KEM key gets, before out_pubkey's length is looked at.     *)
KemRecord(h, bytes, algo, arg, fate) ==
  Given(IF IsOk(PublicKeyTryFrom(bytes))
          THEN Decoded(CreateBoundKemKey(h, algo, PublicKeyTryFrom(bytes).value, fate), arg)
          ELSE PublicKeyTryFrom(bytes), arg)

(* What generate_kem_keypair registers: a record with the key's own public *)
(* key and a supported suite, or one of the errors it may return.          *)
LEMMA GeneratesKem ==
  ASSUME NEW h, NEW bytes, NEW algo, NEW arg, NEW fate \in Fate
  PROVE  LET r == KemRecord(h, bytes, algo, arg, fate) IN
           /\ IsOk(r) => r.value.kem_public_key = Point(h) /\ SupportedSuite(r.value.algo)
           /\ r.status \in {"SUCCESS", "INVALID_ARGUMENT", "INVALID_KEY",
                            "UNSUPPORTED_ALGORITHM", "CRYPTO_ERROR"}
<1> DEFINE pk == PublicKeyTryFrom(bytes)
           c == CreateBoundKemKey(h, algo, pk.value, fate)
           d == IF IsOk(pk) THEN Decoded(c, arg) ELSE pk
<1>1. /\ IsOk(c) => c.value.kem_public_key = Point(h) /\ SupportedSuite(c.value.algo)
      /\ c.status \in {"SUCCESS", "INVALID_KEY", "UNSUPPORTED_ALGORITHM", "CRYPTO_ERROR"}
  BY SMT, CreatesBound
<1>2. pk.status \in {"SUCCESS", "INVALID_ARGUMENT"}
  BY Results DEF PublicKeyTryFrom
<1> HIDE DEF c, pk
<1>3. /\ IsOk(Decoded(c, arg)) => Decoded(c, arg) = c /\ IsOk(c)
      /\ Decoded(c, arg).status \in {c.status, "INVALID_ARGUMENT"}
  BY Checks
<1>4. /\ IsOk(d) => d = c /\ IsOk(c)
      /\ d.status \in {c.status, "INVALID_ARGUMENT"}
  BY <1>2, <1>3 DEF IsOk
<1> HIDE DEF d
<1>5. /\ IsOk(Given(d, arg)) => Given(d, arg) = d /\ IsOk(d)
      /\ Given(d, arg).status \in {d.status, "INVALID_ARGUMENT"}
  BY Checks
<1>6. KemRecord(h, bytes, algo, arg, fate) = Given(d, arg)
  BY DEF KemRecord, d, c, pk
<1> QED
  BY <1>1, <1>4, <1>5, <1>6

(* A call that leaves the KEM keys and what is known of them alone.        *)
LEMMA FrameKept ==
  ASSUME Inv, UNCHANGED <<kems, published>>, drawn \subseteq drawn'
  PROVE  KemsKept
BY DEF Inv, RegistriesOK, KemsKept

(* What GetKemKey and EnumerateKemKeys tell is what the registry holds.    *)
LEMMA ToldKept ==
  ASSUME Inv, UNCHANGED <<kems, drawn>>, NEW page \in SUBSET DOMAIN kems,
         published' = published \cup {Described(h, kems[h]) : h \in page}
  PROVE  KemsKept
<1>1. \A h : Described(h, kems[h]).kem = h
  BY DEF Described
<1>2. ASSUME NEW p \in published' \ published
      PROVE  p.kem \in DOMAIN kems /\ p = Described(p.kem, kems[p.kem])
  BY <1>1, <1>2
<1> QED
  BY <1>2 DEF Inv, RegistriesOK, KemsKept


-----------------------------------------------------------------------------
(* The names of the functions.                                             *)
LEMMA Operations ==
  /\ KccOperation.GenerateBindingKeypair = "generate_binding_keypair"
  /\ KccOperation.GenerateKemKeypair = "generate_kem_keypair"
  /\ KccOperation.DecapAndSeal = "decap_and_seal"
  /\ KccOperation.Open = "open"
  /\ {KccOperation.DestroyKemKey, KccOperation.EnumerateKemKeys, KccOperation.GetKemKey,
      KccOperation.DestroyBindingKey, KccOperation.DestroyAllBindingKeys,
      KccOperation.EnumerateBindingKeys, KccOperation.GetBindingKey}
       \subseteq {"destroy_kem_key", "enumerate_kem_keys", "get_kem_key",
                  "destroy_binding_key", "destroy_all_binding_keys",
                  "enumerate_binding_keys", "get_binding_key"}
BY DEF KccOperation

Lookup ==
  {"destroy_kem_key", "enumerate_kem_keys", "get_kem_key", "destroy_binding_key",
   "destroy_all_binding_keys", "enumerate_binding_keys", "get_binding_key"}

(* The statuses a call on an existing key may end in.                      *)
LEMMA Usable ==
  ASSUME NEW op, NEW arg, NEW status, Reply(op, arg, status),
         \/ status \in {"SUCCESS", "INVALID_ARGUMENT"}
         \/ /\ op = "decap_and_seal"
            /\ status \in {"NOT_FOUND", "DECAPSULATION_FAILURE", "ENCRYPTION_FAILURE"}
         \/ op = "open" /\ status \in {"NOT_FOUND", "DECRYPTION_FAILURE"}
         \/ /\ op = "generate_kem_keypair"
            /\ status \in {"INVALID_KEY", "UNSUPPORTED_ALGORITHM", "CRYPTO_ERROR"}
         \/ /\ op = "generate_binding_keypair"
            /\ status \in {"UNSUPPORTED_ALGORITHM", "CRYPTO_ERROR"}
         \/ op \in Lookup /\ status = "NOT_FOUND"
  PROVE  UsableOnceCreated'
<1>1. reply'.op = op /\ reply'.status = status
  BY DEF Reply
<1> QED
  BY <1>1, Operations DEF UsableOnceCreated, Lookup

(* A step that fails leaves no trace, see FailureLeavesNoTrace.            *)
NoTrace ==
  reply'.status # "SUCCESS" =>
    /\ UNCHANGED <<announced, published, wire, opened>>
    /\ \/ UNCHANGED <<bindings, kems>>
       \/ /\ reply'.arg = "misfit" /\ reply'.status = "INVALID_ARGUMENT"
          /\ \E h \in drawn' \ drawn :
               \/ /\ reply'.op = KccOperation.GenerateBindingKeypair
                  /\ bindings' = With(bindings, h, bindings'[h]) /\ kems' = kems
               \/ /\ reply'.op = KccOperation.GenerateKemKeypair
                  /\ kems' = With(kems, h, kems'[h]) /\ bindings' = bindings

(* What every call does, besides what it writes to wire and opened.        *)
CallOK == KemsKept /\ BindingsKept /\ UsableOnceCreated' /\ NoTrace

(* generate_binding_keypair adds at most one usable binding key.           *)
LEMMA GenerateBindingOK ==
  ASSUME Inv, NEW h, NEW algo, NEW arg, NEW fate \in Fate,
         GenerateBindingKeypair(h, algo, arg, fate)
  PROVE  CallOK /\ UNCHANGED <<wire, opened>>
<1> DEFINE r == Given(Decoded(CreateKey(Binding(algo, Point(h)), fate), arg), arg)
           f == Fitted(r, arg)
<1>1. /\ IsOk(r) => SupportedSuite(r.value.algo)
      /\ r.status \in {"SUCCESS", "INVALID_ARGUMENT", "UNSUPPORTED_ALGORITHM", "CRYPTO_ERROR"}
  BY GeneratesBinding
<1>2. /\ h \notin drawn
      /\ bindings' = IF IsOk(r) THEN With(bindings, h, r.value) ELSE bindings
      /\ drawn' = IF IsOk(r) THEN drawn \cup {h} ELSE drawn
      /\ announced' = announced \/ IsOk(f)
      /\ Reply(KccOperation.GenerateBindingKeypair, arg, f.status)
      /\ UNCHANGED <<kems, published, wire, opened>>
  BY DEF GenerateBindingKeypair
<1> HIDE DEF r
<1>3. /\ IsOk(f) => f = r /\ IsOk(r)
      /\ f.status \in {r.status, "INVALID_ARGUMENT"}
      /\ IsOk(r) /\ ~IsOk(f) => f.status = "INVALID_ARGUMENT" /\ arg = "misfit"
  BY Checks
<1> HIDE DEF f
<1>4. KemsKept
  BY <1>2, FrameKept
<1>5. BindingsKept
  <2>1. \A k \in DOMAIN bindings : SupportedSuite(bindings[k].algo)
    BY DEF Inv, RegistriesOK
  <2>2. CASE ~IsOk(r)
    BY <1>2, <2>1, <2>2 DEF BindingsKept
  <2>3. CASE IsOk(r)
    <3>1. /\ DOMAIN bindings' = DOMAIN bindings \cup {h} /\ bindings'[h] = r.value
          /\ \A k \in DOMAIN bindings \ {h} : bindings'[k] = bindings[k]
      BY <1>2, <2>3 DEF With
    <3> QED
      BY <1>1, <2>1, <2>3, <3>1 DEF BindingsKept
  <2> QED
    BY <2>2, <2>3
<1>6. UsableOnceCreated'
  BY <1>1, <1>2, <1>3, Usable, Operations
<1>7. NoTrace
  <2>1. /\ reply'.op = KccOperation.GenerateBindingKeypair
        /\ reply'.arg = arg /\ reply'.status = f.status
    BY <1>2 DEF Reply
  <2>2. ASSUME IsOk(r)
        PROVE  h \in drawn' \ drawn /\ bindings' = With(bindings, h, bindings'[h])
    <3>1. With(bindings, h, r.value)[h] = r.value
      BY DEF With
    <3> QED
      BY <1>2, <2>2, <3>1
  <2> QED
    BY <1>2, <1>3, <2>1, <2>2 DEF NoTrace, IsOk
<1> QED
  BY <1>2, <1>4, <1>5, <1>6, <1>7 DEF CallOK

(* generate_kem_keypair adds at most one usable KEM key.                   *)
LEMMA GenerateKemOK ==
  ASSUME Inv, NEW h, NEW bytes, NEW algo, NEW arg, NEW fate \in Fate,
         GenerateKemKeypair(h, bytes, algo, arg, fate)
  PROVE  CallOK /\ UNCHANGED <<wire, opened>>
<1> DEFINE r == KemRecord(h, bytes, algo, arg, fate)
           f == Fitted(r, arg)
<1>1. /\ IsOk(r) => r.value.kem_public_key = Point(h) /\ SupportedSuite(r.value.algo)
      /\ r.status \in {"SUCCESS", "INVALID_ARGUMENT", "INVALID_KEY",
                       "UNSUPPORTED_ALGORITHM", "CRYPTO_ERROR"}
  BY GeneratesKem
<1>2. /\ h \notin drawn
      /\ kems' = IF IsOk(r) THEN With(kems, h, r.value) ELSE kems
      /\ drawn' = IF IsOk(r) THEN drawn \cup {h} ELSE drawn
      /\ published' = IF IsOk(f) THEN published \cup {Described(h, r.value)} ELSE published
      /\ Reply(KccOperation.GenerateKemKeypair, arg, f.status)
      /\ UNCHANGED <<bindings, announced, wire, opened>>
  BY DEF GenerateKemKeypair, KemRecord
<1> HIDE DEF r
<1>3. /\ IsOk(f) => f = r /\ IsOk(r)
      /\ f.status \in {r.status, "INVALID_ARGUMENT"}
      /\ IsOk(r) /\ ~IsOk(f) => f.status = "INVALID_ARGUMENT" /\ arg = "misfit"
  BY Checks
<1> HIDE DEF f
<1>4. KemsKept
  <2>1. CASE ~IsOk(r)
    BY <1>2, <1>3, <2>1, FrameKept
  <2>2. CASE IsOk(r)
    <3>1. /\ DOMAIN kems' = DOMAIN kems \cup {h} /\ kems'[h] = r.value
          /\ \A k \in DOMAIN kems \ {h} : kems'[k] = kems[k]
      BY <1>2, <2>2 DEF With
    <3>2. DOMAIN kems \subseteq drawn
      BY DEF Inv, RegistriesOK
    <3>3. \A p \in published' \ published : p.kem = h /\ p = Described(h, kems'[h])
      BY SMT, <1>2, <3>1 DEF Described
    <3>4. drawn' = drawn \cup {h} /\ published \subseteq published'
      BY <1>2, <2>2
    <3>5. \A k \in DOMAIN kems' \cap drawn : k \in DOMAIN kems /\ kems'[k] = kems[k]
      BY <1>2, <3>1
    <3>6. \A k \in DOMAIN kems' \ drawn :
            /\ k \in drawn'
            /\ kems'[k].kem_public_key = Point(k) /\ SupportedSuite(kems'[k].algo)
      BY <1>1, <2>2, <3>1, <3>2, <3>4
    <3>7. \A p \in published' \ published :
            p.kem \in DOMAIN kems' /\ p = Described(p.kem, kems'[p.kem])
      BY <3>1, <3>3
    <3> QED
      BY <3>4, <3>5, <3>6, <3>7 DEF KemsKept
  <2> QED
    BY <2>1, <2>2
<1>5. BindingsKept
  BY <1>2 DEF BindingsKept, Inv, RegistriesOK
<1>6. UsableOnceCreated'
  BY <1>1, <1>2, <1>3, Usable, Operations
<1>7. NoTrace
  <2>1. /\ reply'.op = KccOperation.GenerateKemKeypair
        /\ reply'.arg = arg /\ reply'.status = f.status
    BY <1>2 DEF Reply
  <2>2. ASSUME IsOk(r)
        PROVE  h \in drawn' \ drawn /\ kems' = With(kems, h, kems'[h])
    <3>1. With(kems, h, r.value)[h] = r.value
      BY DEF With
    <3> QED
      BY <1>2, <2>2, <3>1
  <2> QED
    BY <1>2, <1>3, <2>1, <2>2 DEF NoTrace, IsOk
<1> QED
  BY <1>2, <1>4, <1>5, <1>6, <1>7 DEF CallOK


(* A lookup finds the record or answers NOT_FOUND.                         *)
LEMMA Finds ==
  ASSUME NEW registry, NEW h, NEW arg
  PROVE  LET g == Given(Find(registry, h), arg)
             f == Fitted(g, arg)
         IN /\ IsOk(g) => h \in DOMAIN registry /\ g.value = registry[h]
            /\ IsOk(f) => f = g /\ IsOk(g)
            /\ {g.status, f.status} \subseteq {"SUCCESS", "NOT_FOUND", "INVALID_ARGUMENT"}
<1> DEFINE s == Find(registry, h)
           g == Given(s, arg)
           f == Fitted(g, arg)
<1>1. /\ IsOk(s) => h \in DOMAIN registry /\ s.value = registry[h]
      /\ s.status \in {"SUCCESS", "NOT_FOUND"}
  BY Results DEF Find
<1> HIDE DEF s
<1>2. /\ IsOk(g) => g = s /\ IsOk(s)
      /\ g.status \in {s.status, "INVALID_ARGUMENT"}
  BY Checks
<1> HIDE DEF g
<1>3. /\ IsOk(f) => f = g /\ IsOk(g)
      /\ f.status \in {g.status, "INVALID_ARGUMENT"}
  BY Checks
<1> HIDE DEF f
<1>4. /\ IsOk(g) => h \in DOMAIN registry /\ g.value = registry[h]
      /\ IsOk(f) => f = g /\ IsOk(g)
      /\ {g.status, f.status} \subseteq {"SUCCESS", "NOT_FOUND", "INVALID_ARGUMENT"}
  BY <1>1, <1>2, <1>3
<1> QED
  BY <1>4 DEF f, g, s

(* The calls that look up, list or destroy keys.                           *)
LEMMA LookupOK ==
  ASSUME Inv,
         \/ \E h, arg : \/ DestroyKemKey(h, arg) \/ DestroyBindingKey(h, arg)
                        \/ GetKemKey(h, arg) \/ GetBindingKey(h, arg)
         \/ DestroyAllBindingKeys
         \/ \E arg : \E page \in SUBSET DOMAIN kems : EnumerateKemKeys(page, arg)
         \/ \E arg : \E page \in SUBSET DOMAIN bindings : EnumerateBindingKeys(page, arg)
  PROVE  CallOK /\ UNCHANGED <<wire, opened>>
<1>0. /\ \A h \in DOMAIN bindings : SupportedSuite(bindings[h].algo)
      /\ bindings' = bindings => BindingsKept
  BY DEF Inv, RegistriesOK, BindingsKept
(* The reply of such a call, and what it leaves when it is not a success.  *)
<1>1. ASSUME NEW op, {op} \subseteq Lookup, NEW arg, NEW status, Reply(op, arg, status),
             status \in {"SUCCESS", "NOT_FOUND", "INVALID_ARGUMENT"}
      PROVE  UsableOnceCreated' /\ reply'.status = status
  BY <1>1, Usable DEF Reply
<1>2. ASSUME NEW h, NEW arg, DestroyKemKey(h, arg)
      PROVE  CallOK /\ UNCHANGED <<wire, opened>>
  <2> DEFINE g == Given(Find(kems, h), arg)
  <2>1. /\ kems' = IF IsOk(g) THEN Without(kems, h) ELSE kems
        /\ Reply(KccOperation.DestroyKemKey, arg, g.status)
        /\ UNCHANGED <<bindings, drawn, announced, published, wire, opened>>
    BY <1>2 DEF DestroyKemKey
  <2>2. g.status \in {"SUCCESS", "NOT_FOUND", "INVALID_ARGUMENT"}
    BY Finds
  <2> HIDE DEF g
  <2>3. UsableOnceCreated' /\ reply'.status = g.status
    BY <1>1, <2>1, <2>2, Operations DEF Lookup
  <2>4. KemsKept
    BY <2>1 DEF KemsKept, Without, Inv, RegistriesOK
  <2> QED
    BY <1>0, <2>1, <2>3, <2>4 DEF CallOK, NoTrace, IsOk
<1>3. ASSUME NEW h, NEW arg, DestroyBindingKey(h, arg)
      PROVE  CallOK /\ UNCHANGED <<wire, opened>>
  <2> DEFINE g == Given(Find(bindings, h), arg)
  <2>1. /\ bindings' = IF IsOk(g) THEN Without(bindings, h) ELSE bindings
        /\ Reply(KccOperation.DestroyBindingKey, arg, g.status)
        /\ UNCHANGED <<kems, drawn, announced, published, wire, opened>>
    BY <1>3 DEF DestroyBindingKey
  <2>2. g.status \in {"SUCCESS", "NOT_FOUND", "INVALID_ARGUMENT"}
    BY Finds
  <2> HIDE DEF g
  <2>3. UsableOnceCreated' /\ reply'.status = g.status
    BY <1>1, <2>1, <2>2, Operations DEF Lookup
  <2>4. KemsKept /\ BindingsKept
    BY <1>0, <2>1, FrameKept DEF BindingsKept, Without
  <2> QED
    BY <2>1, <2>3, <2>4 DEF CallOK, NoTrace, IsOk
<1>4. CASE DestroyAllBindingKeys
  <2>1. UsableOnceCreated' /\ reply'.status = "SUCCESS"
    BY <1>1, <1>4, Operations DEF DestroyAllBindingKeys, Lookup
  <2>2. KemsKept /\ BindingsKept /\ UNCHANGED <<wire, opened>>
    BY SMT, <1>4, FrameKept DEF DestroyAllBindingKeys, BindingsKept
  <2> QED
    BY <2>1, <2>2 DEF CallOK, NoTrace
<1>5. ASSUME NEW h, NEW arg, GetKemKey(h, arg)
      PROVE  CallOK /\ UNCHANGED <<wire, opened>>
  <2> DEFINE g == Given(Find(kems, h), arg)
             f == Fitted(g, arg)
  <2>1. /\ published' = IF IsOk(f) THEN published \cup {Described(h, f.value)} ELSE published
        /\ Reply(KccOperation.GetKemKey, arg, f.status)
        /\ UNCHANGED <<bindings, kems, drawn, announced, wire, opened>>
    BY <1>5 DEF GetKemKey
  <2>2. /\ f.status \in {"SUCCESS", "NOT_FOUND", "INVALID_ARGUMENT"}
        /\ IsOk(f) => h \in DOMAIN kems /\ f.value = kems[h]
    BY SMT, Finds
  <2> HIDE DEF g, f
  <2>3. UsableOnceCreated' /\ reply'.status = f.status
    BY <1>1, <2>1, <2>2, Operations DEF Lookup
  <2>4. KemsKept
    <3>1. CASE IsOk(f)
      <4>1. {h} \in SUBSET DOMAIN kems
        BY <2>2, <3>1
      <4>2. published' = published \cup {Described(k, kems[k]) : k \in {h}}
        BY <2>1, <2>2, <3>1
      <4> QED
        BY <2>1, <4>1, <4>2, ToldKept
    <3>2. CASE ~IsOk(f)
      BY <2>1, <3>2, FrameKept
    <3> QED
      BY <3>1, <3>2
  <2> QED
    BY <1>0, <2>1, <2>3, <2>4 DEF CallOK, NoTrace, IsOk
<1>6. ASSUME NEW h, NEW arg, GetBindingKey(h, arg)
      PROVE  CallOK /\ UNCHANGED <<wire, opened>>
  <2> DEFINE g == Given(Find(bindings, h), arg)
             f == Fitted(g, arg)
  <2>1. /\ announced' = announced \/ IsOk(f)
        /\ Reply(KccOperation.GetBindingKey, arg, f.status)
        /\ UNCHANGED <<bindings, kems, drawn, published, wire, opened>>
    BY <1>6 DEF GetBindingKey
  <2>2. f.status \in {"SUCCESS", "NOT_FOUND", "INVALID_ARGUMENT"}
    BY Finds
  <2> HIDE DEF g, f
  <2>3. UsableOnceCreated' /\ reply'.status = f.status
    BY <1>1, <2>1, <2>2, Operations DEF Lookup
  <2>4. KemsKept
    BY <2>1, FrameKept
  <2> QED
    BY <1>0, <2>1, <2>3, <2>4 DEF CallOK, NoTrace, IsOk
<1>7. ASSUME NEW page \in SUBSET DOMAIN kems, NEW arg, EnumerateKemKeys(page, arg)
      PROVE  CallOK /\ UNCHANGED <<wire, opened>>
  <2> DEFINE g == Given(Ok(page), arg)
  <2>1. /\ published' = IF arg = "null" THEN published
                        ELSE published \cup {Described(h, kems[h]) : h \in page}
        /\ Reply(KccOperation.EnumerateKemKeys, arg, g.status)
        /\ UNCHANGED <<bindings, kems, drawn, announced, wire, opened>>
    BY <1>7 DEF EnumerateKemKeys
  <2>2. g.status = IF arg = "null" THEN "INVALID_ARGUMENT" ELSE "SUCCESS"
    BY Results DEF Given
  <2> HIDE DEF g
  <2>3. UsableOnceCreated' /\ reply'.status = g.status
    BY <1>1, <2>1, <2>2, Operations DEF Lookup
  <2>4. KemsKept
    BY <2>1, FrameKept, ToldKept
  <2> QED
    BY <1>0, <2>1, <2>2, <2>3, <2>4 DEF CallOK, NoTrace
<1>8. ASSUME NEW page \in SUBSET DOMAIN bindings, NEW arg, EnumerateBindingKeys(page, arg)
      PROVE  CallOK /\ UNCHANGED <<wire, opened>>
  <2> DEFINE g == Given(Ok(page), arg)
  <2>1. /\ arg = "null" => announced' = announced
        /\ Reply(KccOperation.EnumerateBindingKeys, arg, g.status)
        /\ UNCHANGED <<bindings, kems, drawn, published, wire, opened>>
    BY <1>8 DEF EnumerateBindingKeys
  <2>2. g.status = IF arg = "null" THEN "INVALID_ARGUMENT" ELSE "SUCCESS"
    BY Results DEF Given
  <2> HIDE DEF g
  <2>3. UsableOnceCreated' /\ reply'.status = g.status
    BY <1>1, <2>1, <2>2, Operations DEF Lookup
  <2>4. KemsKept
    BY <2>1, FrameKept
  <2> QED
    BY <1>0, <2>1, <2>2, <2>3, <2>4 DEF CallOK, NoTrace
<1> QED
  BY <1>2, <1>3, <1>4, <1>5, <1>6, <1>7, <1>8


(* What was sealed or opened stays right, whatever is called meanwhile.    *)
LEMMA WireStays ==
  ASSUME Inv, KemsKept, wire' = wire
  PROVE  WireOK'
<1> SUFFICES ASSUME wire # Nothing
             PROVE  /\ wire.kem \in drawn'
                    /\ wire.sent = Point(wire.sent.sk)
                    /\ wire.msg.ct.pt = SecretOf(wire.kem, wire.sent)
                    /\ wire.msg.ct.aad = wire.aad
                    /\ BoundTo(wire.kem, wire.msg.ct.ctx.pk)'
  BY DEF WireOK
<1>1. PICK h, pk : h = wire.kem /\ pk = wire.msg.ct.ctx.pk
  OBVIOUS
<1>2. BoundTo(h, pk)'
  BY <1>1, BoundStays DEF Inv, WireOK
<1>3. BoundTo(wire.kem, wire.msg.ct.ctx.pk)'
  BY <1>1, <1>2 DEF BoundTo
<1> QED
  BY <1>3 DEF Inv, WireOK, KemsKept

(* The same of what was opened.                                            *)
LEMMA OpenedStays ==
  ASSUME Inv, KemsKept, opened' = opened
  PROVE  OpenedOK'
<1> SUFFICES ASSUME opened # Nothing
             PROVE  /\ opened.kem \in drawn'
                    /\ opened.sent = Point(opened.sent.sk)
                    /\ opened.secret = SecretOf(opened.kem, opened.sent)
                    /\ opened.aad = opened.sealedAad
                    /\ BoundTo(opened.kem, Point(opened.binding))'
  BY DEF OpenedOK
<1>1. PICK h, pk : h = opened.kem /\ pk = Point(opened.binding)
  OBVIOUS
<1>2. BoundTo(h, pk)'
  BY <1>1, BoundStays DEF Inv, OpenedOK
<1>3. BoundTo(opened.kem, Point(opened.binding))'
  BY <1>1, <1>2 DEF BoundTo
<1> QED
  BY <1>3 DEF Inv, OpenedOK, KemsKept

(* decap_and_seal writes the client's secret, sealed to the binding key of *)
(* the KEM key.                                                            *)
LEMMA SealOK ==
  ASSUME Inv, NEW h, NEW enc \in Enc, NEW aad, NEW arg, DecapAndSeal(h, enc, aad, arg)
  PROVE  CallOK /\ WireOK' /\ OpenedOK'
<1> DEFINE r == DecapAndSealInternal(h, enc, aad)
           g == Given(r, arg)
           f == Fitted(g, arg)
<1>0. RegistriesOK /\ BindingsKept
  BY DEF Inv, RegistriesOK, BindingsKept, DecapAndSeal
<1>1. /\ IsOk(r) => /\ h \in DOMAIN kems /\ enc.form = "point"
                    /\ r.value.ct.pt = SecretOf(h, enc) /\ r.value.ct.aad = aad
                    /\ r.value.ct.ctx.pk = kems[h].binding_public_key
      /\ r.status \in {"SUCCESS", "NOT_FOUND", "DECAPSULATION_FAILURE", "ENCRYPTION_FAILURE"}
  BY SMT, <1>0, Seals
<1>2. /\ wire' = IF IsOk(f) THEN [kem |-> h, sent |-> enc, aad |-> aad, msg |-> f.value]
                 ELSE wire
      /\ Reply(KccOperation.DecapAndSeal, arg, f.status)
      /\ UNCHANGED <<bindings, kems, drawn, announced, published, opened>>
  BY DEF DecapAndSeal
<1> HIDE DEF r
<1>3. (IsOk(g) => g = r /\ IsOk(r)) /\ g.status \in {r.status, "INVALID_ARGUMENT"}
  BY Checks
<1> HIDE DEF g
<1>4. (IsOk(f) => f = g /\ IsOk(g)) /\ f.status \in {g.status, "INVALID_ARGUMENT"}
  BY Checks
<1> HIDE DEF f
<1>5. KemsKept
  BY <1>2, FrameKept
<1>6. UsableOnceCreated'
  BY <1>1, <1>2, <1>3, <1>4, Usable, Operations
<1>7. NoTrace
  <2>1. reply'.status = f.status
    BY <1>2 DEF Reply
  <2> QED
    BY <1>2, <2>1 DEF NoTrace, IsOk
<1>8. WireOK'
  <2>1. CASE ~IsOk(f)
    BY <1>2, <1>5, <2>1, WireStays
  <2>2. CASE IsOk(f)
    <3>1. f = r /\ IsOk(r)
      BY <1>3, <1>4, <2>2
    <3>2. /\ wire'.kem = h /\ wire'.sent = enc /\ wire'.aad = aad /\ wire'.msg = r.value
      BY <1>2, <2>2, <3>1
    <3>3. enc = Point(enc.sk)
      <4>1. LowOrder.form # "point" /\ OtherLength.form # "point"
        BY DEF LowOrder, OtherLength
      <4>2. PICK e \in Ephemeral : enc = Point(e)
        BY <1>1, <3>1, <4>1 DEF Enc, KeyBytes
      <4>3. Point(e).sk = e
        BY DEF Point
      <4> QED
        BY <4>2, <4>3
    <3>4. h \in drawn /\ BoundTo(h, kems[h].binding_public_key)
      BY <1>0, <1>1, <3>1 DEF RegistriesOK
    <3>5. BoundTo(wire.kem, wire.msg.ct.ctx.pk)'
      BY <1>1, <1>2, <3>1, <3>2, <3>4 DEF BoundTo
    <3> QED
      BY <1>1, <1>2, <3>1, <3>2, <3>3, <3>4, <3>5 DEF WireOK
  <2> QED
    BY <2>1, <2>2
<1>9. OpenedOK'
  BY <1>2, <1>5, OpenedStays
<1> QED
  BY <1>0, <1>5, <1>6, <1>7, <1>8, <1>9 DEF CallOK

(* open yields what was sealed, to the binding key and under the           *)
(* associated data it was sealed for.                                      *)
LEMMA OpenOK ==
  ASSUME Inv, NEW h, NEW enc, NEW aad, NEW arg, Open(h, enc, aad, arg)
  PROVE  CallOK /\ WireOK' /\ OpenedOK'
<1> DEFINE ct == wire.msg.ct
           r == OpenInternal(h, enc, ct, aad)
           g == Given(r, arg)
           f == Fitted(g, arg)
<1>0. RegistriesOK /\ BindingsKept /\ wire # Nothing
  BY DEF Inv, RegistriesOK, BindingsKept, Open
<1>1. /\ IsOk(r) => r.value = ct.pt /\ ct.aad = aad /\ ct.ctx.pk = Point(h)
      /\ r.status \in {"SUCCESS", "NOT_FOUND", "DECRYPTION_FAILURE"}
  BY <1>0, OpensItsOwn
<1>2. /\ opened' = IF IsOk(f)
                     THEN [kem |-> wire.kem, sent |-> wire.sent, sealedAad |-> wire.aad,
                           binding |-> h, aad |-> aad, secret |-> f.value]
                     ELSE opened
      /\ Reply(KccOperation.Open, arg, f.status)
      /\ UNCHANGED <<bindings, kems, drawn, announced, published, wire>>
  BY DEF Open
<1> HIDE DEF r
<1>3. (IsOk(g) => g = r /\ IsOk(r)) /\ g.status \in {r.status, "INVALID_ARGUMENT"}
  BY Checks
<1> HIDE DEF g
<1>4. (IsOk(f) => f = g /\ IsOk(g)) /\ f.status \in {g.status, "INVALID_ARGUMENT"}
  BY Checks
<1> HIDE DEF f
<1>5. KemsKept
  BY <1>2, FrameKept
<1>6. UsableOnceCreated'
  BY <1>1, <1>2, <1>3, <1>4, Usable, Operations
<1>7. NoTrace
  <2>1. reply'.status = f.status
    BY <1>2 DEF Reply
  <2> QED
    BY <1>2, <2>1 DEF NoTrace, IsOk
<1>8. WireOK'
  BY <1>2, <1>5, WireStays
<1>9. OpenedOK'
  <2>1. CASE ~IsOk(f)
    BY <1>2, <1>5, <2>1, OpenedStays
  <2>2. CASE IsOk(f)
    <3>1. f = r /\ IsOk(r)
      BY <1>3, <1>4, <2>2
    <3>2. /\ opened'.kem = wire.kem /\ opened'.sent = wire.sent
          /\ opened'.sealedAad = wire.aad /\ opened'.binding = h /\ opened'.aad = aad
          /\ opened'.secret = r.value
      BY <1>2, <2>2, <3>1
    <3>3. /\ wire.kem \in drawn /\ wire.sent = Point(wire.sent.sk)
          /\ r.value = SecretOf(wire.kem, wire.sent) /\ aad = wire.aad
          /\ BoundTo(wire.kem, Point(h))
      BY <1>0, <1>1, <3>1 DEF Inv, WireOK
    <3>4. BoundTo(opened.kem, Point(opened.binding))'
      BY <1>2, <3>2, <3>3 DEF BoundTo
    <3>5. SecretOf(wire.kem, wire.sent) = SecretOf(opened'.kem, opened'.sent)
      BY <3>2
    <3> QED
      BY <1>2, <3>2, <3>3, <3>4, <3>5 DEF OpenedOK
  <2> QED
    BY <2>1, <2>2
<1> QED
  BY <1>0, <1>5, <1>6, <1>7, <1>8, <1>9 DEF CallOK


-----------------------------------------------------------------------------
(* Every call keeps the invariant, and leaves no trace when it fails.      *)
LEMMA EveryCall ==
  ASSUME Inv, Next
  PROVE  CallOK /\ WireOK' /\ OpenedOK'
<1>1. CASE CallOK /\ UNCHANGED <<wire, opened>>
  BY <1>1, WireStays, OpenedStays DEF CallOK
<1>2. ASSUME NEW h \in BindingHandle, NEW algo \in Suite, NEW m \in Mishap,
             GenerateBindingKeypair(h, algo, m.arg, m.fate)
      PROVE  CallOK /\ UNCHANGED <<wire, opened>>
  <2>1. m.fate \in Fate
    BY DEF Mishap
  <2> QED
    BY <1>2, <2>1, GenerateBindingOK
<1>3. ASSUME NEW h \in KemHandle, NEW bytes, NEW algo \in Suite, NEW m \in Mishap,
             GenerateKemKeypair(h, bytes, algo, m.arg, m.fate)
      PROVE  CallOK /\ UNCHANGED <<wire, opened>>
  <2>1. m.fate \in Fate
    BY DEF Mishap
  <2> QED
    BY <1>3, <2>1, GenerateKemOK
<1>4. ASSUME NEW h, NEW enc \in Enc, NEW aad, NEW arg, DecapAndSeal(h, enc, aad, arg)
      PROVE  CallOK /\ WireOK' /\ OpenedOK'
  BY <1>4, SealOK
<1>5. ASSUME NEW h, NEW enc, NEW aad, NEW arg, Open(h, enc, aad, arg)
      PROVE  CallOK /\ WireOK' /\ OpenedOK'
  BY <1>5, OpenOK
<1>6. CASE \/ \E h, arg : \/ DestroyKemKey(h, arg) \/ DestroyBindingKey(h, arg)
                          \/ GetKemKey(h, arg) \/ GetBindingKey(h, arg)
           \/ DestroyAllBindingKeys
           \/ \E arg : \E page \in SUBSET DOMAIN kems : EnumerateKemKeys(page, arg)
           \/ \E arg : \E page \in SUBSET DOMAIN bindings : EnumerateBindingKeys(page, arg)
  BY <1>1, <1>6, LookupOK
<1> QED
  BY <1>1, <1>2, <1>3, <1>4, <1>5, <1>6 DEF Next

(* Inv is an invariant.                                                    *)
LEMMA Invariance == Spec => []Inv
<1>1. Init => Inv
  <2> SUFFICES ASSUME Init PROVE Inv
    OBVIOUS
  <2>1. DOMAIN kems = {} /\ DOMAIN bindings = {} /\ published = {}
    BY SMT DEF Init
  <2>2. reply.status = "SUCCESS"
    BY DEF Init
  <2>3. wire = Nothing /\ opened = Nothing
    BY DEF Init
  <2> QED
    BY <2>1, <2>2, <2>3 DEF Inv, RegistriesOK, PublishedOK, WireOK, OpenedOK, UsableOnceCreated
<1>2. Inv /\ [Next]_vars => Inv'
  <2> SUFFICES ASSUME Inv, [Next]_vars PROVE Inv'
    OBVIOUS
  <2>1. CASE Next
    BY <2>1, EveryCall, KeptConsistent DEF Inv, CallOK
  <2>2. CASE UNCHANGED vars
    BY <2>2 DEF vars, Inv, RegistriesOK, PublishedOK, WireOK, OpenedOK, UsableOnceCreated,
       BoundTo
  <2> QED
    BY <2>1, <2>2
<1> QED
  BY <1>1, <1>2, PTL DEF Spec

(* Whatever is generated, described, destroyed, sealed and opened in       *)
(* whatever order, what open returns with SUCCESS is the secret the client *)
(* derived from any description of the KEM key it was ever given.          *)
THEOREM OpensTheClientsSecret == Spec => []OpensWhatClientEncapsulated
<1>1. ASSUME Inv PROVE OpensWhatClientEncapsulated
  <2> SUFFICES ASSUME opened # Nothing
               PROVE  /\ opened.aad = opened.sealedAad
                      /\ \A p \in published :
                           p.kem = opened.kem =>
                             /\ Encap(p.pk, opened.sent.sk).value.secret = opened.secret
                             /\ p.binding = Point(opened.binding)
    BY DEF OpensWhatClientEncapsulated
  <2>1. /\ opened.sent = Point(opened.sent.sk)
        /\ opened.secret = SecretOf(opened.kem, opened.sent)
        /\ opened.aad = opened.sealedAad
        /\ BoundTo(opened.kem, Point(opened.binding))
    BY <1>1 DEF Inv, OpenedOK
  <2>2. ASSUME NEW p \in published, p.kem = opened.kem
        PROVE  /\ Encap(p.pk, opened.sent.sk).value.secret = opened.secret
               /\ p.binding = Point(opened.binding)
    <3>1. p.pk = Point(opened.kem)
      BY <1>1, <2>2 DEF Inv, PublishedOK
    <3>2. Encap(Point(opened.kem), opened.sent.sk).value.secret
            = SecretOf(opened.kem, Point(opened.sent.sk))
      BY SameSecret
    <3> QED
      BY <2>1, <2>2, <3>1, <3>2 DEF BoundTo
  <2> QED
    BY <2>1, <2>2
<1> QED
  BY <1>1, Invariance, PTL

(* No call on a key that could be created fails for its algorithm.         *)
THEOREM CreatedKeyUsable == Spec => []UsableOnceCreated
<1>1. Inv => UsableOnceCreated
  BY DEF Inv
<1> QED
  BY <1>1, Invariance, PTL

(* A call that answers with an error has changed nothing, but for the      *)
(* generation whose out_pubkey has the wrong length, which has registered  *)
(* one new key.                                                            *)
THEOREM NoTraceOfFailure == Spec => FailureLeavesNoTrace
<1>1. Inv /\ [Next]_vars => [NoTrace]_vars
  BY EveryCall DEF CallOK
<1> QED
  BY <1>1, Invariance, PTL DEF Spec, FailureLeavesNoTrace, NoTrace

=============================================================================
