-------------------------------- MODULE Hpke --------------------------------
(***************************************************************************)
(* The cryptography of the custody cores (km_common/src/crypto.rs and      *)
(* crypto/x25519.rs), symbolically: a byte string is the term that         *)
(* computes it, two terms are equal only if they are the same computation, *)
(* and what cannot be computed from a term is not in it.  A function       *)
(* answers with a status and, on success, a value.                         *)
(***************************************************************************)
EXTENDS Naturals

Ok(v) == [status |-> "SUCCESS", value |-> v]
Err(s) == [status |-> s]
IsOk(r) == r.status = "SUCCESS"

-----------------------------------------------------------------------------
(* The algorithm suite of a request.  The wire carries any number; only    *)
(* the ones below name an algorithm.                                       *)
KemAlgorithm == [Unspecified |-> 0, DhkemX25519HkdfSha256 |-> 1]
KdfAlgorithm == [Unspecified |-> 0, HkdfSha256 |-> 1]
AeadAlgorithm == [Unspecified |-> 0, Aes256Gcm |-> 1]

HpkeAlgorithm == [kem : 0 .. 2, kdf : 0 .. 2, aead : 0 .. 2]

(* The three-way match that guards key creation, sealing and opening.      *)
SupportedSuite(algo) ==
  /\ algo.kem = KemAlgorithm.DhkemX25519HkdfSha256
  /\ algo.kdf = KdfAlgorithm.HkdfSha256
  /\ algo.aead = AeadAlgorithm.Aes256Gcm

-----------------------------------------------------------------------------
(* Byte strings given as a public or an encapsulated key: the point of a   *)
(* scalar, 32 bytes with which the shared key is all zero, or another      *)
(* number of bytes.                                                        *)
Point(sk) == [form |-> "point", sk |-> sk]
LowOrder == [form |-> "low order"]
OtherLength == [form |-> "other length"]
KeyBytes(points) == points \cup {LowOrder, OtherLength}

(* TryFrom<Vec<u8>> for PublicKey looks at the length only.                *)
PublicKeyTryFrom(bytes) ==
  IF bytes = OtherLength THEN Err("INVALID_ARGUMENT") ELSE Ok(bytes)

(* x25519::PrivateKey::compute_shared_key: both sides compute the same     *)
(* key, and an all-zero one is refused.                                    *)
ComputeSharedKey(sk, bytes) ==
  IF bytes.form = "point" THEN Ok({sk, bytes.sk}) ELSE Err("no shared key")

LabeledExtract(label, ikm) == [extract |-> <<"HPKE-v1", "KEM", label>>, ikm |-> ikm]
LabeledExpand(prk, label, info) ==
  [prk |-> prk, expand |-> <<"HPKE-v1", "KEM", label>>, info |-> info]

SharedSecret(dh, enc, pk) ==
  LabeledExpand(LabeledExtract("eae_prk", dh), "shared_secret", <<enc, pk>>)

(* encap: the client's half of the key encapsulation, with its ephemeral   *)
(* key.                                                                    *)
Encap(pk, skE) ==
  LET dh == ComputeSharedKey(skE, pk) IN
    IF IsOk(dh)
      THEN Ok([secret |-> SharedSecret(dh.value, Point(skE), pk), enc |-> Point(skE)])
      ELSE Err("CRYPTO_ERROR")

(* Mutant: the receiver's public key is left out of the KDF's context.     *)
DecapsWithoutReceiver(sk, enc) ==
  LET dh == ComputeSharedKey(sk, enc) IN
    IF IsOk(dh) THEN Ok(SharedSecret(dh.value, enc, enc))
    ELSE Err("DECAPSULATION_FAILURE")

(* decaps: an encapsulation of another length, or without a shared key, is *)
(* refused; one made for another key yields another secret.                *)
Decaps(sk, enc) ==
  LET dh == ComputeSharedKey(sk, enc) IN
    IF IsOk(dh) THEN Ok(SharedSecret(dh.value, enc, Point(sk)))
    ELSE Err("DECAPSULATION_FAILURE")

-----------------------------------------------------------------------------
(* The HPKE contexts of the cryptographic library: a context is known to   *)
(* the two ends of a key agreement, and a ciphertext opens only under its  *)
(* own context and associated data.                                        *)
Context(sk, bytes, enc, pk) ==
  LET dh == ComputeSharedKey(sk, bytes) IN
    IF IsOk(dh) THEN Ok([dh |-> dh.value, enc |-> enc, pk |-> pk]) ELSE dh
SenderContext(pk, skE) == Context(skE, pk, Point(skE), pk)
RecipientContext(sk, enc) == Context(sk, enc, enc, Point(sk))

HpkeSeal(pk, plaintext, aad, algo, skE) ==
  LET ctx == SenderContext(pk, skE) IN
    IF ~SupportedSuite(algo) THEN Err("UNSUPPORTED_ALGORITHM")
    ELSE IF ~IsOk(ctx) THEN Err("ENCRYPTION_FAILURE")
    ELSE Ok([enc |-> Point(skE),
             ct |-> [ctx |-> ctx.value, aad |-> aad, pt |-> plaintext]])

HpkeOpen(sk, enc, ct, aad, algo) ==
  LET ctx == RecipientContext(sk, enc) IN
    IF ~SupportedSuite(algo) THEN Err("UNSUPPORTED_ALGORITHM")
    ELSE IF ~IsOk(ctx) THEN Err("DECRYPTION_FAILURE")
    ELSE IF ct.ctx # ctx.value \/ ct.aad # aad THEN Err("DECRYPTION_FAILURE")
    ELSE Ok(ct.pt)

=============================================================================
