--------------------------- MODULE KeyProtection ---------------------------
(***************************************************************************)
(* The workload service daemon (WSD) with its binding keys, the key        *)
(* protection service (KPS) with its KEM keys, the gRPC calls between them *)
(* and the heartbeat.                                                      *)
(*                                                                         *)
(* HTTP handlers run concurrently.  A handler is cut where it calls the    *)
(* KPS, where it calls the WSD's own custody core, where a call holds a    *)
(* record past the registry's lock (Open), and where it takes the mutex of *)
(* kemToBindingMap; each registry is the one of KeyRegistry seen  *)
(* from outside: a set of handles with their expiry.  A call to the KPS    *)
(* may be lost, may be answered too late, and may be executed after the    *)
(* handler has given it up.                                                *)
(***************************************************************************)
EXTENDS Heartbeat, StatusMapping

CONSTANTS
  Request,      \* concurrent HTTP requests
  KemKey,       \* the handles the KPS will draw
  BindingKey,   \* the handles the WSD's custody core will draw
  Lifespan,     \* the lifespans workloads ask for
  Horizon,      \* bound on the clock
  None

(* What the KPS keeps with a KEM key.  boot and watched are history: the   *)
(* boot that made it, and whether the WSD knew a boot token by then.       *)
KemInfo ==
  [binding : BindingKey, expiry : Nat, boot : 1..MaxBoot, watched : BOOLEAN]

ASSUME KeyProtectionAssumption ==
  /\ Lifespan \subseteq Nat \ {0}
  /\ Horizon \in Nat
  /\ None \notin KemKey \cup BindingKey \cup Nat \cup KemInfo

VARIABLES
  now,             \* the clock of both machines
  bindings,        \* the WSD custody core's registry
  bindingExpiry,   \* delete_after of every binding key ever drawn, or None
  kems,            \* the KPS custody core's registry
  kemInfo,         \* the metadata of every KEM key ever drawn, or None
  kemToBindingMap, \* binding key, or None for an absent entry
  pc,              \* where the handler of a request is
  kemOf, bindingOf, sealedTo, errs, \* its local variables
  rpc,             \* its call to the KPS
  acked,           \* history: KEM keys announced by a 200 response
  destroyed,       \* history: KEM keys whose destroy was answered 204
  disowned         \* history: binding keys destroyed or purged on purpose

registries == <<bindings, bindingExpiry, kems, kemInfo>>
locals == <<kemOf, bindingOf, sealedTo, errs>>
history == <<acked, destroyed, disowned>>
vars == <<hbVars, now, registries, kemToBindingMap, pc, locals, rpc, history>>

(* A call of method m, or with m = "answered" what it returned; binding is *)
(* the key a KEM key is bound to, or a secret sealed to.                   *)
Rpc(m, k, b, life, status) ==
  [method |-> m, kem |-> k, binding |-> b, life |-> life, status |-> status]

NoRpc == Rpc("none", None, None, 0, "SUCCESS")

Waiting == {"awaitKem", "awaitSeal", "awaitDestroy"}

Init ==
  /\ KpsInit
  /\ HeartbeatInit
  /\ now = 0
  /\ bindings = {}
  /\ bindingExpiry = [b \in BindingKey |-> None]
  /\ kems = {}
  /\ kemInfo = [k \in KemKey |-> None]
  /\ kemToBindingMap = [k \in KemKey |-> None]
  /\ pc = [r \in Request |-> "idle"]
  /\ kemOf = [r \in Request |-> None]
  /\ bindingOf = [r \in Request |-> None]
  /\ sealedTo = [r \in Request |-> None]
  /\ errs = [r \in Request |-> {}]
  /\ rpc = [r \in Request |-> NoRpc]
  /\ acked = {}
  /\ destroyed = {}
  /\ disowned = {}

Minted == {b \in BindingKey : bindingExpiry[b] # None}

LiveBinding(b) == b \in bindings /\ bindingExpiry[b] > now

LiveKem(k) == k \in kems /\ kemInfo[k].expiry > now

-----------------------------------------------------------------------------
(* Building blocks of the handlers.                                        *)

(* A request can use slot r: the last one ended, and so did its KPS call.  *)
Free(r) == pc[r] = "idle" /\ rpc[r] = NoRpc

Goto(r, label) == pc' = [pc EXCEPT ![r] = label]

Call(r, m, k, b, life) == rpc' = [rpc EXCEPT ![r] = Rpc(m, k, b, life, "SUCCESS")]

(* Handler r answers: its local variables are gone.                        *)
Finish(r) ==
  /\ Goto(r, "idle")
  /\ kemOf' = [kemOf EXCEPT ![r] = None]
  /\ bindingOf' = [bindingOf EXCEPT ![r] = None]
  /\ sealedTo' = [sealedTo EXCEPT ![r] = None]
  /\ errs' = [errs EXCEPT ![r] = {}]

-----------------------------------------------------------------------------
(* POST /v1/keys:generate_key: generateKEMKey.  When the binding key       *)
(* cannot be made the handler answers at once and nothing has changed.     *)

(* GenerateBindingKeypair draws b; then the KPS is called.                 *)
GenerateBindingKey(r, b, life) ==
  /\ Free(r)
  /\ b \notin Minted
  /\ bindings' = bindings \cup {b}
  /\ bindingExpiry' = [bindingExpiry EXCEPT ![b] = now + life]
  /\ bindingOf' = [bindingOf EXCEPT ![r] = b]
  /\ Goto(r, "awaitKem")
  /\ Call(r, "generate", None, b, life)
  /\ UNCHANGED <<hbVars, now, kems, kemInfo, kemToBindingMap, kemOf, sealedTo,
                 errs, history>>

(* The KPS's answer: an error ends the request and leaves the binding key  *)
(* where it is.                                                            *)
GenerateReturns(r, status, k) ==
  /\ pc[r] = "awaitKem"
  /\ IF status = "SUCCESS"
       THEN /\ Goto(r, "store")
            /\ kemOf' = [kemOf EXCEPT ![r] = k]
            /\ UNCHANGED <<bindingOf, sealedTo, errs>>
       ELSE Finish(r)

(* Mutant: the binding key is read back from a field that every request    *)
(* overwrites.                                                             *)
StoreMappingOfAnyRequest(r) ==
  /\ pc[r] = "store"
  /\ \E q \in Request :
       /\ bindingOf[q] # None
       /\ kemToBindingMap' = [kemToBindingMap EXCEPT ![kemOf[r]] = bindingOf[q]]
  /\ Finish(r)
  /\ acked' = acked \cup {kemOf[r]}
  /\ UNCHANGED <<hbVars, now, registries, rpc, destroyed, disowned>>

(* The mapping is stored under the mutex and the handle returned.          *)
StoreMapping(r) ==
  /\ pc[r] = "store"
  /\ kemToBindingMap' = [kemToBindingMap EXCEPT ![kemOf[r]] = bindingOf[r]]
  /\ Finish(r)
  /\ acked' = acked \cup {kemOf[r]}
  /\ UNCHANGED <<hbVars, now, registries, rpc, destroyed, disowned>>

-----------------------------------------------------------------------------
(* POST /v1/keys:decap: handleDecaps.  A handle that is not mapped is      *)
(* answered 404 at once.                                                   *)

DecapLookup(r, k) ==
  LET b == kemToBindingMap[k]
  IN /\ Free(r)
     /\ b # None
     /\ kemOf' = [kemOf EXCEPT ![r] = k]
     /\ bindingOf' = [bindingOf EXCEPT ![r] = b]
     /\ Goto(r, "awaitSeal")
     /\ Call(r, "decap", k, None, 0)
     /\ UNCHANGED <<hbVars, now, registries, kemToBindingMap, sealedTo, errs,
                    history>>

DecapReturns(r, status, b) ==
  /\ pc[r] = "awaitSeal"
  /\ IF status = "SUCCESS"
       THEN /\ Goto(r, "open")
            /\ sealedTo' = [sealedTo EXCEPT ![r] = b]
            /\ UNCHANGED <<kemOf, bindingOf, errs>>
       ELSE Finish(r)

(* Mutant: the record is kept from before the call to the KPS.             *)
OpenGetKeyUnchecked(r) ==
  /\ pc[r] = "open"
  /\ Goto(r, "opening")
  /\ UNCHANGED <<hbVars, now, registries, kemToBindingMap, locals, rpc, history>>

(* open_internal: get_key returns the record of a live key.  The lock is   *)
(* released, and the call holds the record whatever happens to the key.    *)
OpenGetKey(r) ==
  /\ pc[r] = "open"
  /\ LiveBinding(bindingOf[r])
  /\ Goto(r, "opening")
  /\ UNCHANGED <<hbVars, now, registries, kemToBindingMap, locals, rpc, history>>

(* hpke_open opens the secret with the key it was sealed to: 200.          *)
OpenSucceeds(r) ==
  /\ pc[r] = "opening"
  /\ sealedTo[r] = bindingOf[r]
  /\ Finish(r)
  /\ UNCHANGED <<hbVars, now, registries, kemToBindingMap, rpc, history>>

(* The binding key went away before get_key, or is another than the one    *)
(* the secret was sealed to.                                               *)
OpenError(r) ==
  \/ pc[r] = "open" /\ ~LiveBinding(bindingOf[r])
  \/ pc[r] = "opening" /\ sealedTo[r] # bindingOf[r]

(* Mutant: the handler puts back the entry of the map that it has read.    *)
OpenFailsAndRemaps(r) ==
  /\ OpenError(r)
  /\ kemToBindingMap' = [kemToBindingMap EXCEPT ![kemOf[r]] = bindingOf[r]]
  /\ Finish(r)
  /\ UNCHANGED <<hbVars, now, registries, rpc, history>>

(* The status of the error is answered, and nothing else changes.          *)
OpenFails(r) ==
  /\ OpenError(r)
  /\ Finish(r)
  /\ UNCHANGED <<hbVars, now, registries, kemToBindingMap, rpc, history>>

-----------------------------------------------------------------------------
(* POST /v1/keys:destroy: handleDestroy.  A handle that is not mapped is   *)
(* answered 404 at once.                                                   *)

DestroyLookup(r, k) ==
  LET b == kemToBindingMap[k]
  IN /\ Free(r)
     /\ b # None
     /\ kemOf' = [kemOf EXCEPT ![r] = k]
     /\ bindingOf' = [bindingOf EXCEPT ![r] = b]
     /\ Goto(r, "awaitDestroy")
     /\ Call(r, "destroy", k, None, 0)
     /\ disowned' = disowned \cup {b}
     /\ UNCHANGED <<hbVars, now, registries, kemToBindingMap, sealedTo, errs,
                    acked, destroyed>>

(* An error of the KPS is kept, and the handler goes on.                   *)
DestroyReturns(r, status) ==
  /\ pc[r] = "awaitDestroy"
  /\ errs' = [errs EXCEPT ![r] = {status}]
  /\ Goto(r, "destroyBinding")
  /\ UNCHANGED <<kemOf, bindingOf, sealedTo>>

(* Mutant: destroy_all_keys is called for destroy_binding_key.             *)
DestroyAllBindings(r) ==
  /\ pc[r] = "destroyBinding"
  /\ bindings' = {}
  /\ errs' = [errs EXCEPT ![r] = @ \cup {"SUCCESS"}]
  /\ Goto(r, "unmap")
  /\ UNCHANGED <<hbVars, now, bindingExpiry, kems, kemInfo, kemToBindingMap,
                 kemOf, bindingOf, sealedTo, rpc, history>>

(* DestroyBindingKey; remove_key does not look at the expiry.              *)
DestroyBinding(r) ==
  LET b == bindingOf[r]
      status == IF b \in bindings THEN "SUCCESS" ELSE "NOT_FOUND"
  IN /\ pc[r] = "destroyBinding"
     /\ bindings' = bindings \ {b}
     /\ errs' = [errs EXCEPT ![r] = @ \cup {status}]
     /\ Goto(r, "unmap")
     /\ UNCHANGED <<hbVars, now, bindingExpiry, kems, kemInfo, kemToBindingMap,
                    kemOf, bindingOf, sealedTo, rpc, history>>

(* Mutant: the errors of the two destructions are not looked at.           *)
UnmapIgnoringErrors(r) ==
  /\ pc[r] = "unmap"
  /\ kemToBindingMap' = [kemToBindingMap EXCEPT ![kemOf[r]] = None]
  /\ Finish(r)
  /\ destroyed' = destroyed \cup {kemOf[r]}
  /\ UNCHANGED <<hbVars, now, registries, rpc, acked, disowned>>

(* The mapping goes whatever the two destructions returned; the answer is  *)
(* 204 if neither failed.                                                  *)
Unmap(r) ==
  /\ pc[r] = "unmap"
  /\ kemToBindingMap' = [kemToBindingMap EXCEPT ![kemOf[r]] = None]
  /\ Finish(r)
  /\ destroyed' =
       IF Response("destroy", errs[r]) = 204 THEN destroyed \cup {kemOf[r]}
                                             ELSE destroyed
  /\ UNCHANGED <<hbVars, now, registries, rpc, acked, disowned>>

-----------------------------------------------------------------------------
(* The KPS's side of the calls.  A call whose handler gave up is executed  *)
(* all the same, and nobody reads the answer.                              *)

Answer(r, status, k, b) ==
  /\ up
  /\ rpc' = [rpc EXCEPT ![r] =
       IF pc[r] \in Waiting THEN Rpc("answered", k, b, 0, RemoteStatus(status))
                            ELSE NoRpc]
  /\ UNCHANGED <<hbVars, now, bindings, bindingExpiry, kemToBindingMap, pc, locals,
                 history>>

(* GenerateKEMKeypair draws k and binds it to the binding key of the call. *)
KpsGenerate(r, k) ==
  /\ rpc[r].method = "generate"
  /\ kemInfo[k] = None
  /\ kems' = kems \cup {k}
  /\ kemInfo' = [kemInfo EXCEPT ![k] =
       [binding |-> rpc[r].binding, expiry |-> now + rpc[r].life,
        boot |-> boot, watched |-> cachedToken # 0]]
  /\ Answer(r, "SUCCESS", k, None)

KpsGenerateFails(r) ==
  /\ rpc[r].method = "generate"
  /\ Answer(r, "CRYPTO_ERROR", None, None)
  /\ UNCHANGED <<kems, kemInfo>>

(* DecapAndSeal: the secret is sealed to the key in k's metadata.  The     *)
(* ciphertext is the workload's, and may be malformed.                     *)
KpsDecapAndSeal(r) ==
  LET k == rpc[r].kem
  IN /\ rpc[r].method = "decap"
     /\ \/ LiveKem(k) /\ Answer(r, "SUCCESS", k, kemInfo[k].binding)
        \/ LiveKem(k) /\ Answer(r, "DECAPSULATION_FAILURE", k, None)
        \/ ~LiveKem(k) /\ Answer(r, "NOT_FOUND", k, None)
     /\ UNCHANGED <<kems, kemInfo>>

KpsDestroy(r) ==
  LET k == rpc[r].kem
  IN /\ rpc[r].method = "destroy"
     /\ kems' = kems \ {k}
     /\ Answer(r, IF k \in kems THEN "SUCCESS" ELSE "NOT_FOUND", k, None)
     /\ UNCHANGED kemInfo

KpsStep(r) ==
  \/ \E k \in KemKey : KpsGenerate(r, k)
  \/ KpsGenerateFails(r)
  \/ KpsDecapAndSeal(r)
  \/ KpsDestroy(r)

(* The network loses the call.                                             *)
RpcLost(r) ==
  /\ rpc[r].method \in {"generate", "decap", "destroy"}
  /\ rpc' = [rpc EXCEPT ![r] = NoRpc]
  /\ UNCHANGED <<hbVars, now, registries, kemToBindingMap, pc, locals, history>>

(* What a handler does when its call has ended.                            *)
Resume(r, status, k, b) ==
  /\ \/ GenerateReturns(r, status, k)
     \/ DecapReturns(r, status, b)
     \/ DestroyReturns(r, status)
  /\ UNCHANGED <<hbVars, now, registries, kemToBindingMap, history>>

RpcReturns(r) ==
  /\ rpc[r].method = "answered"
  /\ rpc' = [rpc EXCEPT ![r] = NoRpc]
  /\ Resume(r, rpc[r].status, rpc[r].kem, rpc[r].binding)

(* Mutant: a call without a deadline ends only when the connection does.   *)
RpcFailsWithoutDeadline(r) ==
  /\ ~up
  /\ rpc' = [rpc EXCEPT ![r] = IF @.method = "answered" THEN NoRpc ELSE @]
  /\ Resume(r, "RPC", None, None)

(* The call fails on the WSD's side (deadline, closed connection, client   *)
(* gone).  If it is still under way, the KPS may yet execute it.           *)
RpcFails(r) ==
  /\ rpc' = [rpc EXCEPT ![r] = IF @.method = "answered" THEN NoRpc ELSE @]
  /\ Resume(r, "RPC", None, None)

-----------------------------------------------------------------------------
(* The heartbeat's cleanup, the reapers, the clock and the restarts.       *)

(* Mutant: cleanupState forgets the mapping and keeps the binding keys.    *)
CleanupStateMapOnly ==
  /\ kemToBindingMap' = [k \in KemKey |-> None]
  /\ disowned' = disowned \cup Minted
  /\ UNCHANGED <<bindings, now, bindingExpiry, kems, kemInfo, pc, locals, rpc, acked, destroyed>>

(* DestroyAllKeys, then an empty map, under the mutex that every access to *)
(* the map takes: nobody sees the state in between.                        *)
CleanupState ==
  /\ bindings' = {}
  /\ kemToBindingMap' = [k \in KemKey |-> None]
  /\ disowned' = disowned \cup Minted
  /\ UNCHANGED <<now, bindingExpiry, kems, kemInfo, pc, locals, rpc, acked, destroyed>>

HeartbeatStep ==
  \/ /\ HeartbeatTick \/ HeartbeatFailure \/ HeartbeatSuccess \/ BackoffRetry
     /\ UNCHANGED <<now, registries, kemToBindingMap, pc, locals, rpc, history>>
  \/ TokenMismatch /\ CleanupState
  \/ BackoffExhausted /\ CleanupState

(* Mutant: the reaper is one unit of time ahead of the clock.              *)
ReapBindingsEarly ==
  \E t \in 0..now :
    /\ bindings' = {b \in bindings : bindingExpiry[b] > t + 1}
    /\ UNCHANGED <<hbVars, now, bindingExpiry, kems, kemInfo, kemToBindingMap,
                   pc, locals, rpc, history>>

(* A reaper drops the keys that had expired when it last read the clock.   *)
ReapBindings ==
  \E t \in 0..now :
    /\ bindings' = {b \in bindings : bindingExpiry[b] > t}
    /\ UNCHANGED <<hbVars, now, bindingExpiry, kems, kemInfo, kemToBindingMap,
                   pc, locals, rpc, history>>

ReapKems ==
  \E t \in 0..now :
    /\ kems' = {k \in kems : kemInfo[k].expiry > t}
    /\ UNCHANGED <<hbVars, now, bindings, bindingExpiry, kemInfo,
                   kemToBindingMap, pc, locals, rpc, history>>

Tick ==
  /\ now < Horizon
  /\ now' = now + 1
  /\ UNCHANGED <<hbVars, registries, kemToBindingMap, pc, locals, rpc, history>>

(* The KPS side of the environment: it answers heartbeats, dies with its   *)
(* registry, and comes back with an empty one and another boot token.      *)
KpsEnvironment ==
  /\ \/ HeartbeatAnswer /\ UNCHANGED kems
     \/ KpsCrash /\ kems' = {}
     \/ KpsStart /\ UNCHANGED kems
  /\ UNCHANGED <<now, bindings, bindingExpiry, kemInfo, kemToBindingMap, pc,
                 locals, rpc, history>>

(* The WSD restarts: NewServer starts from empty state, the requests under *)
(* way are gone, and the calls they made may still reach the KPS.          *)
WsdRestart ==
  /\ hb' = "calling" /\ token' = 0 /\ backoff' = InitialBackoff
  /\ cachedToken' = 0
  /\ bindings' = {}
  /\ kemToBindingMap' = [k \in KemKey |-> None]
  /\ pc' = [r \in Request |-> "idle"]
  /\ kemOf' = [r \in Request |-> None]
  /\ bindingOf' = [r \in Request |-> None]
  /\ sealedTo' = [r \in Request |-> None]
  /\ errs' = [r \in Request |-> {}]
  /\ rpc' = [r \in Request |-> IF rpc[r].method = "answered" THEN NoRpc ELSE rpc[r]]
  /\ disowned' = disowned \cup Minted
  /\ UNCHANGED <<up, boot, now, bindingExpiry, kems, kemInfo, acked, destroyed>>

-----------------------------------------------------------------------------
NewRequest(r) ==
  \/ \E b \in BindingKey, life \in Lifespan : GenerateBindingKey(r, b, life)
  \/ \E k \in KemKey : DecapLookup(r, k) \/ DestroyLookup(r, k)

HandlerStep(r) ==
  \/ RpcReturns(r)
  \/ RpcFails(r)
  \/ StoreMapping(r)
  \/ OpenGetKey(r)
  \/ OpenSucceeds(r)
  \/ OpenFails(r)
  \/ DestroyBinding(r)
  \/ Unmap(r)

Next ==
  \/ \E r \in Request : NewRequest(r) \/ HandlerStep(r) \/ KpsStep(r) \/ RpcLost(r)
  \/ HeartbeatStep
  \/ ReapBindings
  \/ ReapKems
  \/ Tick
  \/ KpsEnvironment
  \/ WsdRestart

Spec == Init /\ [][Next]_vars

(* The WSD's goroutines run, and its calls have deadlines (RPCTimeout,     *)
(* heartbeatTimeout).  Nothing is asked of the KPS, of the network or of   *)
(* the clock.                                                              *)
Fairness ==
  /\ WF_vars(HeartbeatStep)
  /\ \A r \in Request : WF_vars(HandlerStep(r))

FairSpec == Spec /\ Fairness

-----------------------------------------------------------------------------
(* The WSD still holds the binding key of KEM key k.                       *)
Openable(k) == kemInfo[k] # None /\ kemInfo[k].binding \in bindings

(* A decap of k that begins now can succeed: k is mapped to its binding    *)
(* key, and both custody cores hold their half.                            *)
Usable(k) ==
  LET b == kemInfo[k].binding
  IN kemToBindingMap[k] = b /\ LiveBinding(b) /\ LiveKem(k)

(* Every variable has its type: in particular the backoff never passes     *)
(* maxBackoff, and an entry of kemToBindingMap is a binding key.           *)
TypeOK ==
  /\ HeartbeatTypeOK
  /\ now \in 0..Horizon
  /\ bindings \subseteq BindingKey
  /\ bindingExpiry \in [BindingKey -> Nat \cup {None}]
  /\ kems \subseteq KemKey
  /\ kemInfo \in [KemKey -> KemInfo \cup {None}]
  /\ kemToBindingMap \in [KemKey -> BindingKey \cup {None}]
  /\ pc \in [Request -> Waiting \cup {"idle", "store", "open", "opening",
                                      "destroyBinding", "unmap"}]
  /\ kemOf \in [Request -> KemKey \cup {None}]
  /\ bindingOf \in [Request -> BindingKey \cup {None}]
  /\ sealedTo \in [Request -> BindingKey \cup {None}]
  /\ errs \in [Request -> SUBSET (Error \cup {"SUCCESS"})]
  /\ rpc \in [Request ->
       [method : {"none", "generate", "decap", "destroy", "answered"},
        kem : KemKey \cup {None}, binding : BindingKey \cup {None},
        life : Lifespan \cup {0}, status : Error \cup {"SUCCESS"}]]
  /\ acked \subseteq KemKey
  /\ destroyed \subseteq KemKey
  /\ disowned \subseteq BindingKey

(* A secret the KPS has sealed for a decap request is sealed to the very   *)
(* binding key handleDecaps looked up before it called the KPS, whatever   *)
(* was generated, destroyed, purged or restarted in between: Open never    *)
(* meets another key's ciphertext.                                         *)
SealedForOpener ==
  \A r \in Request : pc[r] \in {"open", "opening"} => sealedTo[r] = bindingOf[r]

(* Once performHeartbeat has cached a token, no binding key is left whose  *)
(* KEM key died with an earlier boot of the KPS.  The exception is a KEM   *)
(* key made while cachedToken was still empty: the first answer is taken   *)
(* without a cleanup, so a restart before it goes unseen.                  *)
StaleBindingsPurged ==
  \A k \in KemKey :
    Openable(k) /\ kemInfo[k].watched => kemInfo[k].boot >= cachedToken

(* A key announced by a 200 of generateKEMKey can be used (it is mapped,   *)
(* and both custody cores hold its halves) until its binding key expires,  *)
(* the KPS that made it stops, or the WSD destroys or purges it: no other  *)
(* request, no late call and no reaper takes it away sooner.               *)
AckedKeyUsable ==
  \A k \in acked :
    LET b == kemInfo[k].binding
    IN b \notin disowned /\ bindingExpiry[b] > now /\ up /\ kemInfo[k].boot = boot
         => Usable(k)

(* A destroy answered 204 has left neither key nor the mapping behind, and *)
(* no call that was still under way brings one of them back.               *)
DestroyIsFinal ==
  \A k \in destroyed :
    k \notin kems /\ ~Openable(k) /\ kemToBindingMap[k] = None

(* Once a destroy has been answered 204, no decap that overlaps it gets    *)
(* hold of the binding key any more, even when the KPS had sealed its      *)
(* secret before: only an Open whose get_key came before the key was       *)
(* removed, and which holds the record since, can still return a secret.   *)
NoOpenAfterDestroy ==
  [][\A r \in Request : OpenGetKey(r) => kemOf[r] \notin destroyed]_vars

(* An Open holds the record of k's binding key.                            *)
HeldOpen(k) == \E r \in Request : pc[r] = "opening" /\ kemOf[r] = k

(* How far a key pair is.  A pair that is not yet announced is pending,    *)
(* though its halves may be gone by then; of a retired one a half, its     *)
(* entry in the map, or a record that an Open holds is left.               *)
PairPhase(k) ==
  CASE kemInfo[k] = None -> "unborn"
    [] kemInfo[k] # None /\ k \notin acked -> "pending"
    [] kemInfo[k] # None /\ k \in acked ->
         IF Usable(k) THEN "usable"
         ELSE IF \/ k \in kems \/ Openable(k) \/ kemToBindingMap[k] # None
                 \/ HeldOpen(k) THEN "retired"
         ELSE "erased"

PairLifecycle ==
  INSTANCE KeyLifecycle
    WITH KeyHandle <- KemKey, phase <- [k \in KemKey |-> PairPhase(k)]

(* The WSD and the KPS together implement the one-way lifecycle of a key   *)
(* for a pair whose halves live on two machines: once an announced handle  *)
(* is of no use to a new decap, because one half, the other one or the     *)
(* map's entry is gone, it never is again, and a pair of which nothing is  *)
(* left in a registry, in the map or in the hands of an Open stays so,     *)
(* whatever late call, restart or heartbeat comes.                         *)
PairsOneWay == PairLifecycle!Spec

(* When the KPS that made a KEM key has been replaced, and the WSD knew    *)
(* the old token, the heartbeat gets rid of the key's binding key: by the  *)
(* new token if it gets an answer, by its backoff running out if not.      *)
RestartPurgesBindings ==
  \A k \in KemKey :
    (/\ Openable(k)
     /\ 0 < cachedToken /\ cachedToken <= kemInfo[k].boot
     /\ kemInfo[k].boot < boot)
      ~> ~Openable(k)

(* When the KPS stops for good, every binding key is destroyed in the end, *)
(* even if the clock is never late enough to expire it.                    *)
OutagePurgesBindings ==
  <>[](~up) => \A b \in BindingKey : []<>(b \notin bindings)

(* Every HTTP request is answered: RPCTimeout ends a call the network or   *)
(* the KPS has swallowed.                                                  *)
RequestsAnswered ==
  \A r \in Request : pc[r] # "idle" ~> pc[r] = "idle"

=============================================================================
