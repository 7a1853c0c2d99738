# Verification of the Key Protection Module

TLA+ models of the Key Protection Module, checked with TLC on small instances.
Every safety property that the runs check, refinements included, is also proved with
TLAPS for every instance.

## The system

The module keeps KEM private keys away from the workload that uses them. Two
services share the work, each a Go *orchestration layer* (KOL) over a Rust *key
custody core* (KCC) reached through FFI:

| part | source | state |
|---|---|---|
| key registry | `km_common/src/key_types.rs`, `protected_mem.rs` | map of `Arc<KeyRecord>` behind a `RwLock`, a reaper thread, one vault per key |
| KPS custody core | `key_protection_service/key_custody_core` | a registry of KEM keys, each bound to a binding public key |
| KPS (key protection service) | `key_protection_service/*.go` | a boot token per process |
| WSD custody core | `workload_service/key_custody_core` | a registry of binding keys |
| WSD (workload service daemon) | `workload_service/server.go` | `kemToBindingMap` behind a mutex; HTTP handlers |
| remote client | `workload_service/server.go` | gRPC calls to the KPS with `RPCTimeout` |
| heartbeat | `workload_service/server.go` | `cachedToken`, backoff; purges the WSD's keys |
| status mapping | `km_common/proto/status.go` and both servers | none |
| claims, attestation | `keymanager/attestation_service`, `GetKeyClaims` | none; reads two clocks |
| enumeration | `list_all_keys` and its callers | none |
| cryptography | `km_common/src/crypto.rs`, `crypto/x25519.rs`, `secret_box.rs` | short-lived copies of secrets |
| FFI boundary, telemetry | `km_common/src/lib.rs`, `telemetry.rs` | service name, subscriber, panic hook, each set once |
| agent executable | `cmd/agent/main.go`, `NewServer`, `Serve`, `Shutdown` | listeners, connection, requests in progress |

To generate a key the WSD makes a binding key, asks the KPS for a KEM key bound
to it, and remembers the pair. To decapsulate, the KPS opens the ciphertext and
seals the secret to the binding key in the KEM key's metadata, and the WSD opens
that. Nothing is persistent: a restart of either process loses its keys, and the
heartbeat tells the WSD when the KPS has restarted.

## Modules

**`KeyLifecycle`** is the abstract promise about one key: unborn, pending,
usable, retired, erased, only ever forwards. It is implemented twice: by one
registry for a key of its own, and by WSD and KPS together for a pair.

**`KeyRegistry`** is `key_types.rs`. One action per critical section of the
`RwLock`. `refs` is the strong count of a record, `vault` its private key memory,
`held` the record an FFI call has got, created or removed and not yet dropped.
`CreateKey` is `create_key_internal`, `CreateKeyOverflow` its `checked_add`
failure, `AddKey`, `GetKey`, `RemoveKey`, `RemoveAllKeys` the methods of that
name, `DropRecord` the end of the FFI call. The reaper takes two steps, because
it reads the clock before it takes the lock. Failures before a vault exists
leave no trace and are left out. `KeyRegistry` implements `KeyLifecycle` through
`PhaseOf`.

**`StatusMapping`** has the translation tables as operators;
**`ErrorPath`** runs the three handlers over every pair of statuses the custody
cores return.

**`Heartbeat`** is the heartbeat goroutine and the boots of the KPS. Tokens are
numbered by boot (the code draws UUIDs); 0 is the empty string. The actions that
run `cleanupState` are separate so that the next module can say what is purged.

**`KeyProtection`** composes the WSD, the KPS, the network and the heartbeat. The
registries are sets of handles with expiries. A handler is cut at its calls to
the KPS, at its calls to its own custody core, and at the mutex; `Open` is cut once
more, after `get_key`, since it goes on with the record when the lock is released:

| handler | actions |
|---|---|
| `generateKEMKey` | `GenerateBindingKey`, `GenerateReturns`, `StoreMapping` |
| `handleDecaps` | `DecapLookup`, `DecapReturns`, `OpenGetKey`, `OpenSucceeds` or `OpenFails` |
| `handleDestroy` | `DestroyLookup`, `DestroyReturns`, `DestroyBinding`, `Unmap` |
| KPS | `KpsGenerate`, `KpsGenerateFails`, `KpsDecapAndSeal`, `KpsDestroy` |
| network | `RpcLost`, `RpcReturns`, `RpcFails` |
| `performHeartbeat`, `cleanupState` | `HeartbeatStep`, `CleanupState` |
| reapers, clock, restarts | `ReapBindings`, `ReapKems`, `Tick`, `KpsEnvironment`, `WsdRestart` |

A call that failed on the WSD's side stays in flight and may be executed later,
by the same or by a restarted KPS; the slot of its request is not reused before.
Answers that change nothing (a handle that is not mapped, a malformed request, a
binding key that cannot be made) are left out, so is a lookup that returns 404.
The AAD and the algorithms are left out: each handler computes them from its own
arguments. A KPS in the WSD's process shows a subset of these behaviours.
`KpsDecapAndSeal` is one step, at its `get_key`: what it computes with the record it
holds shows only in the answer, which may come at any time after.
`cleanupState` is one step: it holds the mutex of the map throughout, and a
binding key made between its two halves is as good as one made after it.
`acked`, `destroyed` and `disowned` are history variables, as is the `watched`
flag of a KEM key (a token had been cached when it was made). `PairPhase` maps a pair
to its phase of `KeyLifecycle`: pending until the handle is announced, usable while it
is mapped and both custody cores hold a live half, retired while anything of it is
left in a registry or in the map, or an `Open` still holds its binding key.

**`Enumeration`** is `list_all_keys` and what is built on it. `ListAllKeys` cuts a
page by offset out of the sorted live keys (`Sorted`, by `Before`),
`EnumerateInternal` adds `has_more`, `EnumerateKEMKeys` is the KPS's call, and
`HandleEnumerateKeys` the WSD's `GET /v1/keys`, which takes one page. Handles are
numbers because the sort breaks ties by handle. A record gets its `created_at` in
`CreateKey` and enters the map later in `AddKey`, as in the code, so a key may arrive
in front of keys already listed. The client that follows `has_more` (`FirstPage`, `NextPage`) is not in the
repository: the KPS's interface offers paging, and the WSD does not use it.
`atStart`, `came` and `gone` are history variables.

**`Hpke`** is the cryptography, symbolically: a byte string is the term that
computes it. `Encap`, `Decaps`, `HpkeSeal` and `HpkeOpen` follow the functions of
`x25519.rs`, with the order of their checks and their error statuses;
`ComputeSharedKey` and the contexts are the library's. Public keys of a wrong
length and keys without a shared key are among the inputs.

**`CustodyCore`** has the eleven FFI functions of the two cores, one action each.
An action's `arg` says how its pointers and buffers are (valid, null, not
decodable, wrong length), `fate` what happens to `create_key_internal` (the vault
fails, the expiry overflows). `Given`, `Decoded` and `Fitted` are the three kinds
of argument check, in the code's order: in the two generate functions the length
of `out_pubkey` is compared last, after `add_key`. `announced` and `published`
are what callers have been told, `wire` and `opened` the output of the last
`decap_and_seal` and `open`. Calls are atomic here: their interleaving is the
subject of `KeyRegistry` and `KeyProtection`. Null pointers and
empty arguments share one early return and one input.

**`SecretMemory`** extends `KeyRegistry` with the places secret bytes are in besides
the vaults: `boxes` (the `SecretBox`es a thread owns), `stack` (arrays in the
frames of the cryptographic functions, wiped by `clear_stack_on_return`) and
`residue` (heap memory freed as it was). `GenerateKeypair`, `VaultFails` and
`VaultFilled` are a generation; `GetPrivateKey`, `ComputeSharedKey`,
`DecapsFails`, `DeriveAndSeal` a decap-and-seal; `HpkeOpen` and `CopyOut` an open;
`DropLocals` and `DropArc` the end of an internal function, in Rust's order of
drops. Every step is a step of `KeyRegistry` or leaves its variables alone.

**`FfiTelemetry`** is `ffi_call` and `telemetry.rs`. The two `Once` have a state
"running", in which other threads wait. `SetName`, `EnsureTelemetryInitialized`
and `InstallSanitizedPanicHook` are `key_manager_init_telemetry`; `FfiCall`,
`Panic` and `EndCall` a call: the closure runs, the panic hook in force runs on
the panicking thread, and one of the three arms of `catch_unwind` returns. A panic
so leaves two events, the hook's `fatal_panic_occurred` and `kcc_operation_failed`.

**`KeyClaims`** has a clock of ticks, several to the second, and the Unix time as
that clock with a phase, rounded down. `GetKey` and `ReadRemaining` are the two
readings of the clock in `get_kem_key_internal`, `GetKeyClaims` computes the
duration and the expiration time at a third moment, `AnswerGenerate` is the
expiration in the answer of `generate_key`, `EnumerateEntry` the one in an entry of
`GET /v1/keys`, whose lifespan `enumerate_kem_keys_internal` reads like
`get_kem_key_internal`, once for finding the key and once for the rest. `Wrap` is 64-bit arithmetic with a
small `MaxInt64`.

**`Agent`** is a process, as KPS, as WSD with a remote KPS or as WSD with the KPS
emulated. `Opens`, `After` and `Closes` tabulate the start-up: what each step
opens, the step after it, what is closed when it fails. The servers' `Serve` may
begin at any time after main has started it, also after `Shutdown`. `GrpcDrained`,
`GrpcForced`, `HttpDrained` and `CloseConn` are `Shutdown`, under one context
whose timeout is `Deadline`.

The theorems about a module `M` and their proofs are in **`MProofs`**:
`KeyRegistryProofs` (with `SecretMemory`'s), `KeyProtectionProofs`,
`EnumerationProofs`, `CustodyCoreProofs`, `KeyClaimsProofs`, `ErrorPathProofs`,
`AgentProofs` and `FfiTelemetryProofs`.

## Runs

| run | instance | shows |
|---|---|---|
| `registry` | 2 handles, 3 threads, lifespans 1 and 3, clock to 4 | `SecretIffOwned`, `ReaperSparesLiveKeys`, refinement `OneWayLifecycle`, liveness `ExpiredKeyErased` |
| `error_path` | all statuses, both modes | `RemoteAnswersAsLocal`, `SuccessMeansBoth` |
| `key_pairs` | 2 requests, 2 key pairs, KPS crash without restart, no expiry | `SealedForOpener`, `AckedKeyUsable`, `NoOpenAfterDestroy` |
| `kps_restart` | 2 requests, 1 key pair, 2 boots, expiry, backoff 2 then 3 | `StaleBindingsPurged`, `AckedKeyUsable`, `DestroyIsFinal`, refinement `PairsOneWay` |
| `heartbeat_live` | 1 request, 1 key pair, 2 boots, expiry | `RestartPurgesBindings`, `OutagePurgesBindings`, `RequestsAnswered` |
| `enumeration` | 3 handles, pages of 1 and 2, lifespans 1 and 2, clock to 2 | `MissesAtMostGone`, `RepeatsAtMostCame`, `ListsUpToLimit`, `ScanEnds` |
| `listing_truncated` | the same, WSD limit 2 | violates `ListsAllKeys` |
| `custody_core` | 2 binding keys, 2 KEM keys, 4 suites, 2 AADs | `OpensWhatClientEncapsulated`, `UsableOnceCreated`, `FailureLeavesNoTrace` |
| `secret_memory` | 2 handles, 2 threads, lifespans 1 and 2, clock to 2 | `ZeroizedMeansGone` |
| `ffi_telemetry` | 2 threads, 2 names | `FailuresReportedOnce`, `OneServiceName`, `PanicsSanitized` |
| `key_claims` | 1 request, 2 keys, lifespans 1 and 4 s, 2 ticks to the second | `GoneByExpiration`, `KeptUntilExpiration`, `RemainingNotOverstated` |
| `agent` | 3 roles, 2 HTTP and 2 gRPC requests | `FailedStartClosesAll`, `CleanExitCutsNothing`, `ShutdownEnds` |

`listing_truncated` is a disagreement of code and documentation. `api.proto` says
`EnumerateKeysResponse` contains "a list of all active keys managed by the
daemon"; `handleEnumerateKeys` asks for one page of `defaultEnumerateLimit` keys
and drops `has_more`. The run puts that limit at 2 where the code has 10000. Up to the
limit the listing is complete (`ListsUpToLimit`).

*Bounds.* Two handles let one key interfere with another; three threads let one
remove a record two others share. Lifespan 1 expires within the horizon, and
lifespan 3 at clock 2 passes `MaxInstant`, so that the overflow happens. Two
boots are one restart; a third adds nothing to a comparison with one cached
token. `key_pairs` and `kps_restart` split what one instance would make too
large: two pairs without restarts and expiry, one pair with both. A backoff of 2
with a maximum of 3 makes the cap bind. Three handles with pages of one or two
give scans of several pages in which keys before and after the offset come and
go; the page size 0 is there to be refused. `Horizon` and `MaxBoot` are bounds of the
model only. Two binding and two KEM keys let every handle, public key and message
be mixed up with another; the suites are the supported one and those
with one field unspecified (a number that names no algorithm takes the same
branches). One client and one sealing key are enough, as
a second only renames terms. In `key_claims`, lifespan 4 exceeds the longest
duration (7 ticks) and makes the unchecked product wrap, and lifespan 1 expires and
is reaped within the horizon; one request is enough because requests do not touch
each other's state (the history of a request's answer is kept until its next
one). Two requests on each server let one be answered while the other is
not.

*Fairness.* In `registry` the reaper loops for ever and a call that has
begun ends. In `heartbeat_live` the WSD's goroutines take their steps: every call
they wait for has a deadline (`RPCTimeout`, `heartbeatTimeout`), so `RpcFails`
and `HeartbeatFailure` are always possible ends. In `enumeration` a client that has
been told `has_more` asks again; that is an assumption about the client. In `agent`
the main goroutine runs and the five seconds of the shutdown context pass;
handlers may never return, but grpc's `Stop`, a library call, is taken to return
without waiting for them. Without that timeout `ShutdownEnds` fails: it is what
keeps a stuck handler from stopping the shutdown, and the attestation service's
server, which shuts down without one, is not covered. Nothing is assumed of the
KPS, the network or the clock.

*Limits the properties state.* `StaleBindingsPurged` and `RestartPurgesBindings`
except keys made before the first token was cached: the code takes the first
answer without a cleanup. `AckedKeyUsable` excepts binding keys a cleanup
destroyed, also while their generate request was still under way: that request
answers 200 for a key that no longer works, and by `PairsOneWay` never will.
`NoOpenAfterDestroy` is about `get_key`: an `Open` that holds the record when a destroy
removes the key still returns the secret, also after the destroy was answered 204.
`FailureLeavesNoTrace` excepts a generation whose only mistake is the length of
`out_pubkey`: its key, and no other, stays registered until it expires. `GoneByExpiration` allows two seconds: the remaining lifespan and the
Unix time are both rounded down. `KeptUntilExpiration` allows for the time
between the reading of the remaining lifespan and the answer, which the code adds
to the expiration it announces.

## Proofs

Every theorem is about the specification that the runs check, for all values of
its constants that the named assumptions allow. The assumptions only give the
constants their types (a number, a non-empty range), and keep `None` and `"unset"`
apart from the values that they stand for the absence of, as an `Option`, a nil
entry or an empty `OnceLock` are in the code. Nothing else is assumed; in particular
no set of requests, threads, keys or messages needs to be finite, but for the
threads of `KeyRegistry`, where owners are counted. In `Enumeration` any natural number
may be a handle; the registry is finite because it is filled key by key.

| module | theorems | property of a run |
|---|---|---|
| `KeyRegistryProofs` | `TypeCorrect`, `SecretOwnership`, `ReaperSafe`, `RegistryImplementsLifecycle`; `RegistryInvariance` | `TypeOK`, `SecretIffOwned`, `ReaperSparesLiveKeys`, `OneWayLifecycle`; the inductive invariant |
| | `NoCopyOutlivesVault`; `MemoryImplementsRegistry` | `ZeroizedMeansGone`; `SecretMemory` refines `KeyRegistry` |
| `KeyProtectionProofs` | `TypeCorrect`, `SealedForItsOpener`, `AnnouncedKeyUsable`, `NoStaleBinding`, `DestroyedForGood`, `NoOpenOnceDestroyed`, `PairsImplementLifecycle`; `BindingNotShared` | `TypeOK`, `SealedForOpener`, `AckedKeyUsable`, `StaleBindingsPurged`, `DestroyIsFinal`, `NoOpenAfterDestroy`, `PairsOneWay`; part of the invariant |
| | `MismatchMeansRestart`, `TokenMovesForward` | what a step of the heartbeat may never do |
| `EnumerationProofs` | `ScanMisses`, `ScanRepeats`, `ListingComplete`; `PagesAdvance` | `MissesAtMostGone`, `RepeatsAtMostCame`, `ListsUpToLimit`; a property of steps |
| `CustodyCoreProofs` | `OpensTheClientsSecret`, `CreatedKeyUsable`, `NoTraceOfFailure` | `OpensWhatClientEncapsulated`, `UsableOnceCreated`, `FailureLeavesNoTrace` |
| `KeyClaimsProofs` | `ExpiredWhenSaid`, `KeptAsSaid`, `ClaimsNotOverstated` | `GoneByExpiration`, `KeptUntilExpiration`, `RemainingNotOverstated` |
| `ErrorPathProofs` | `RemoteAsLocal`, `SuccessOfBoth`; `GrpcIsTransparent` | `RemoteAnswersAsLocal`, `SuccessMeansBoth`; a fact about the tables |
| `AgentProofs` | `FailedStartLeaksNothing`, `CleanExit` | `FailedStartClosesAll`, `CleanExitCutsNothing` |
| `FfiTelemetryProofs` | `EachFailureReportedOnce`, `EventsCarryOneName`, `NoPanicPrinted` | `FailuresReportedOnce`, `OneServiceName`, `PanicsSanitized` |

Hardly any of these properties is inductive by itself. Each module names its
inductive invariant (`Inv`, or `RegistryInv` and `MemoryInv`), and each invariant was
model-checked on the instance of the component's run before it was proved. What
they add, and why:

**The registry.** `RegistryInv` adds that the strong count of
a record is the number of calls that hold it plus one for the map
(`RefsCountOwners`), that material is in memory while that count is positive
(`SecretWhileCounted`), that a record not yet added is known to its maker alone
(`PendingIsPrivate`), and that the reaper's instant is not ahead of the clock
(`ReaperBehindClock`). Lemmas on how a step changes the set of owners of a handle
carry the counting; `NextKeyStep` collects what a step can do to one key, and
`PhaseStep` turns that into a step of the lifecycle.

**The memory.** `MemoryInv` says which boxes and arrays a call owns at each point,
and that a call that owns any of a registered key still holds that key's record
(`pc` is "got"). `StepOfRegistry` shows that every step is a step of the registry or a
stutter, so `SecretMemory` implements `KeyRegistry` and `RegistryInv` carries over; and
the ownership proved there turns "holds the record" into "the vault is not zeroized".

**WSD and KPS.** The invariant has a part for each place a fact about a key can be:
the local variables of a handler (`HandlerOK`), a call on its way, also one
whose handler has given up (`CallOK`), an answer on its way back (`AnswerOK`), the
registries (`BindingsOK`, `KemsOK`), the map (`MapOK`) and the tokens (`TokensOK`). Two
facts hold it together. `OneMaker`: at most one request, its late calls included, is
making a KEM key for a given binding key; with it `OneKemPerBinding` is inductive, and
so a pair that a handler looked up is the pair that any other handler or any late
call means. And in `CallOK`: a destroy that is still under way is of a key whose
binding key has been given up (`disowned`), so that its late execution cannot hurt a
key that a client may rely on. Type correctness rests on the backoff being capped when
it is doubled. `NoOpenOnceDestroyed` is a property of steps: the handler that opens
has looked up the one binding key of its KEM key, and that key is gone once the
destroy was answered.

`PairsImplementLifecycle` follows a pair through every step. `Grows` is what no step
takes back (metadata of a key once drawn, its absence from a registry, the history,
the clock). With it and `MapOK`, an announced pair that is usable, or of which
something is left, after a step was so before it (`UsableBefore`, `LeftBefore`): the map
gets an entry only for a handle not yet announced, which `HandlerOK` and `OneMaker`
give for any number of generate requests, and an `Open` gets hold of a record only
while the registry has it (`HeldBefore`). The two theorems about tokens need that an
answer on its way is not older than the cached token (`AnswerNotOlder`): the heartbeat
has one call under way, begun after the last answer was taken.

**The paging.** No two pages need be cut from the same list, so the proof does not
compare lists. A *front* of length n (`IsFront`) is a set of n live keys, or of all of
them if there are fewer, that has with a key every live key sorted before it; a page
at offset n is the part of a longer front behind the front of length n
(`PageFront`). The invariant (`Accounts`) balances books for the front F that the
offset stands for: keys that stayed, are in F and were not told are no more than the keys that went, and the
keys told twice, with those outside F that were told already, no more than the keys
that came. A key that goes moves at most one key into the front, a key that comes
pushes at most one out (`RemoveAccounts`, `AddAccounts`), and turning a page moves the
told keys into the front (`PageAccounts`). When `has_more` is false the front is the
whole registry, and the balance is `MissesAtMostGone`. That a finite set has a sorted
list (`ListExists`) is shown without induction: a key's place is the number of keys
not after it.

**The custody cores.** The invariant follows a secret from the client to the
workload: everything that callers were ever told of a KEM key names the binding key
in its record (`BoundTo`), what is on the wire is the secret that client and record
agree on, sealed to that binding key (`WireOK`), and so is what was opened
(`OpenedOK`). `SameSecret` and `OpensItsOwn` are the facts about `Encap`, `Decaps`,
`HpkeSeal` and `HpkeOpen` that it needs; they use that equal terms have equal parts,
which is what the symbolic model takes from the cryptography. Two facts about every
record, its public key and its supported suite, give `CreatedKeyUsable`.

**The claims.** `ExpirationIsOK` bounds an announced expiration against the registry's
deadline from three roundings: the remaining seconds, the Unix time, and the
seconds that pass between the two readings. `DurationBounds` shows that the product
cannot wrap, because it is only taken when the seconds fit: for any `MaxInt64` and
any number of ticks to the second.

**The error paths.** `RemoteAlike` compares, for every status, what
`httpStatusFromError` tells apart before and after the two gRPC tables.
`GrpcIsTransparent` extends that to any set of joined errors of which any part
crossed gRPC, more than the handlers join. The invariant records how far a handler
has got with which statuses.

**The agent.** `StartOK` says what may be open at each step of the start-up, and that it
is among what the step closes when it fails; `DrainOK` that a drain which ended
without an error left no request behind; `ExitOK` that an error is collected before a
request is cut.

**Telemetry.** `OnceOK` says what a thread that is past a `Once` may rely on, and
`Reported` what the subscriber has got from a call at each point of `ffi_call`, event
by event.

*Only model-checked.* All liveness properties (`ExpiredKeyErased`,
`RestartPurgesBindings`, `OutagePurgesBindings`, `RequestsAnswered`, `ScanEnds`,
`ShutdownEnds`): fairness and `ENABLED` are out of the prover's reach. `PagesAdvance` is the
safety half of `ScanEnds`: every page that announces another moves the offset on. That
the cryptographic primitives behave as terms is an assumption of the model, not a
theorem.

## Not modelled, and the plan

Not modelled: the primitives of the cryptographic library, `memfd` and `mmap`
themselves, the Go side of telemetry (it formats log records), JSON and protobuf
conversion, generated code, flags and environment, `GET /v1/capabilities` (a
constant answer). The claims about binding keys are a lookup in `kemToBindingMap`
followed by one in the registry; that the two agree is `AckedKeyUsable`. The
models of time have no adjustments of the wall clock, and `float64` represents
every Unix time in use exactly. The attestation evidence comes from an agent
outside the repository. The models assume the heartbeat runs (`KPS_IP` is set). A
lock poisoned by a panic is left out: no critical section of the registry panics
short of memory exhaustion. The rest of the Rust sources is tests.

Next, in this order:

1. *Registry under the service*: `KeyProtection`'s registries shown to be
   implemented by `KeyRegistry`.
2. *Listing and mapping*: what `GET /v1/keys` shows of KEM keys the WSD does not
   map (a generate call given up on, a WSD restart).
