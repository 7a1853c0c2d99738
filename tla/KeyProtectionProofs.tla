------------------------ MODULE KeyProtectionProofs ------------------------
(***************************************************************************)
(* Proofs about the WSD and the KPS together, for any number of concurrent *)
(* requests, keys, restarts and lost or late calls: a secret is sealed for *)
(* the key that opens it, an announced key stays usable, a destroyed one   *)
(* stays destroyed, and a restart of the KPS leaves no stale binding key.  *)
(***************************************************************************)
EXTENDS KeyProtection, TLAPS

(* Most steps below are about sets, records and functions alone, and are   *)
(* left to Zenon; a step that needs more says so.                          *)
USE Zenon

(* KEM key k was made, bound to binding key b.                             *)
Bound(k, b) == kemInfo[k] # None /\ kemInfo[k].binding = b

(* The handlers that looked k up in kemToBindingMap.                       *)
Destroying == {"awaitDestroy", "destroyBinding", "unmap"}
Using == Destroying \cup {"awaitSeal", "open", "opening"}

(* Request r is making a KEM key for binding key b: its handler has not    *)
(* stored the pair, or its call may still reach the KPS.                   *)
Makes(r, b) ==
  \/ pc[r] \in {"awaitKem", "store"} /\ bindingOf[r] = b
  \/ rpc[r].method = "generate" /\ rpc[r].binding = b

(* What the local variables of r's handler mean, at each of its steps.     *)
HandlerOK(r) ==
  /\ pc[r] = "awaitKem" => bindingOf[r] \in Minted
  /\ pc[r] = "store" =>
       kemOf[r] \in KemKey \ acked /\ Bound(kemOf[r], bindingOf[r])
  /\ pc[r] \in Using => kemOf[r] \in acked /\ Bound(kemOf[r], bindingOf[r])
  /\ pc[r] \in {"open", "opening"} => sealedTo[r] = bindingOf[r]
  /\ pc[r] \in Destroying => bindingOf[r] \in disowned
  /\ pc[r] \in {"destroyBinding", "unmap"} /\ errs[r] \subseteq {"SUCCESS"} =>
       kemOf[r] \notin kems
  /\ pc[r] = "unmap" => bindingOf[r] \notin bindings

(* What a call on its way to the KPS means, whether or not its handler     *)
(* still waits for it.                                                     *)
CallOK(r) ==
  /\ rpc[r].method = "generate" =>
       /\ pc[r] \in {"awaitKem", "idle"}
       /\ pc[r] = "awaitKem" => rpc[r].binding = bindingOf[r]
       /\ rpc[r].life \in Lifespan
       /\ rpc[r].binding \in Minted
       /\ bindingExpiry[rpc[r].binding] <= now + rpc[r].life
       /\ \A k \in KemKey : ~Bound(k, rpc[r].binding)
  /\ rpc[r].method = "decap" =>
       /\ pc[r] \in {"awaitSeal", "idle"}
       /\ pc[r] = "awaitSeal" => rpc[r].kem = kemOf[r]
       /\ rpc[r].kem \in acked
  /\ rpc[r].method = "destroy" =>
       /\ pc[r] \in Destroying \cup {"idle"}
       /\ pc[r] = "awaitDestroy" => rpc[r].kem = kemOf[r]
       /\ rpc[r].kem \in acked
       /\ kemInfo[rpc[r].kem].binding \in disowned

(* What an answer on its way back means: the KEM key of a generate call is *)
(* the one made for r, a secret is sealed to the key r looked up, and a    *)
(* destroyed key is gone.                                                  *)
AnswerOK(r) ==
  rpc[r].method = "answered" =>
    /\ pc[r] \in Waiting
    /\ rpc[r].status = "SUCCESS" =>
         /\ pc[r] = "awaitKem" =>
              rpc[r].kem \in KemKey \ acked /\ Bound(rpc[r].kem, bindingOf[r])
         /\ pc[r] = "awaitSeal" => rpc[r].binding = bindingOf[r]
         /\ pc[r] = "awaitDestroy" => kemOf[r] \notin kems

(* A binding key is made for one request and bound to one KEM key.         *)
OneMaker ==
  \A q, r \in Request, b \in BindingKey : Makes(q, b) /\ Makes(r, b) => q = r

OneKemPerBinding ==
  \A j, k \in KemKey, b \in BindingKey : Bound(j, b) /\ Bound(k, b) => j = k

(* The registries: a key leaves one for a reason that disowned, the clock  *)
(* or a boot remembers, and a binding key never outlives its KEM key's     *)
(* lifespan.                                                               *)
BindingsOK ==
  /\ bindings \subseteq Minted
  /\ \A b \in Minted \ disowned : bindingExpiry[b] > now => b \in bindings

KemsOK ==
  /\ \A k \in kems : kemInfo[k] # None
  /\ \A k \in KemKey : kemInfo[k] # None =>
       /\ kemInfo[k].binding \in Minted
       /\ kemInfo[k].boot <= boot
       /\ bindingExpiry[kemInfo[k].binding] <= kemInfo[k].expiry
       /\ (/\ kemInfo[k].binding \notin disowned
           /\ kemInfo[k].expiry > now
           /\ up /\ kemInfo[k].boot = boot) => k \in kems

(* The map holds announced pairs only, and all that were not disowned.     *)
MapOK ==
  /\ \A k \in KemKey : kemToBindingMap[k] # None =>
       k \in acked /\ Bound(k, kemToBindingMap[k])
  /\ \A k \in acked :
       /\ kemInfo[k] # None
       /\ kemInfo[k].binding \notin disowned =>
            kemToBindingMap[k] = kemInfo[k].binding

(* No token is from the future, and what was made under a token is         *)
(* purged before a later one is cached.                                    *)
TokensOK ==
  /\ token <= boot
  /\ cachedToken <= boot
  /\ \A k \in KemKey : Openable(k) /\ kemInfo[k].watched =>
       cachedToken # 0 /\ cachedToken <= kemInfo[k].boot

DestroyedOK == destroyed \subseteq acked /\ DestroyIsFinal

Inv ==
  /\ TypeOK
  /\ \A r \in Request : HandlerOK(r) /\ CallOK(r) /\ AnswerOK(r)
  /\ OneMaker
  /\ OneKemPerBinding
  /\ BindingsOK
  /\ KemsOK
  /\ MapOK
  /\ TokensOK
  /\ DestroyedOK

-----------------------------------------------------------------------------
(* The status tables: a success stays one over gRPC, an error an error,    *)
(* and handleDestroy answers 204 only without an error.                    *)
LEMMA StatusTables ==
  /\ RemoteStatus("SUCCESS") = "SUCCESS"
  /\ \A s \in {"CRYPTO_ERROR", "DECAPSULATION_FAILURE", "NOT_FOUND"} :
       RemoteStatus(s) \in Error
  /\ "SUCCESS" \notin Error /\ "RPC" \in Error /\ "NOT_FOUND" \in Error
  /\ \A statuses : Response("destroy", statuses) = 204 => statuses \subseteq {"SUCCESS"}
<1>1. RemoteStatus("SUCCESS") = "SUCCESS"
  BY DEF RemoteStatus
<1>2. \A s \in {"CRYPTO_ERROR", "DECAPSULATION_FAILURE", "NOT_FOUND"} :
        RemoteStatus(s) \in Error
  BY DEF RemoteStatus, FfiStatusFromGrpcError, GrpcCodeFromError, Error, Status
<1>3. "SUCCESS" \notin Error /\ "RPC" \in Error /\ "NOT_FOUND" \in Error
  BY DEF Error, Status
<1>4. ASSUME NEW statuses, Response("destroy", statuses) = 204
      PROVE  statuses \subseteq {"SUCCESS"}
  <2> DEFINE e == statuses \ {"SUCCESS"}
  <2>1. HttpStatusFromError(e) # 204
    BY SMT DEF HttpStatusFromError
  <2>2. e = {}
    BY <1>4, <2>1 DEF Response
  <2> QED
    BY <2>2
<1> QED
  BY <1>1, <1>2, <1>3, <1>4

(* The facts about the constants that the provers need apart.              *)
LEMMA Constants ==
  /\ None \notin KemKey /\ None \notin BindingKey /\ None \notin Nat
  /\ None \notin KemInfo
  /\ Lifespan \subseteq Nat \ {0}
BY KeyProtectionAssumption

(* The fields of a call.                                                   *)
LEMMA RpcFields ==
  /\ NoRpc.method = "none"
  /\ \A m, k, b, life, status :
       /\ Rpc(m, k, b, life, status).method = m
       /\ Rpc(m, k, b, life, status).kem = k
       /\ Rpc(m, k, b, life, status).binding = b
       /\ Rpc(m, k, b, life, status).life = life
       /\ Rpc(m, k, b, life, status).status = status
BY SMT DEF NoRpc, Rpc

(* All that most steps need of the types: where the functions are defined. *)
Shaped ==
  /\ DOMAIN pc = Request /\ DOMAIN kemOf = Request /\ DOMAIN bindingOf = Request
  /\ DOMAIN sealedTo = Request /\ DOMAIN errs = Request /\ DOMAIN rpc = Request
  /\ DOMAIN kemInfo = KemKey /\ DOMAIN kemToBindingMap = KemKey
  /\ DOMAIN bindingExpiry = BindingKey

(* The domains of the functions, from their types.                         *)
LEMMA Shape == TypeOK => Shaped
BY DEF TypeOK, Shaped

-----------------------------------------------------------------------------
(* Request q is where it was.                                              *)
Keeps(q) ==
  /\ pc'[q] = pc[q] /\ kemOf'[q] = kemOf[q] /\ bindingOf'[q] = bindingOf[q]
  /\ sealedTo'[q] = sealedTo[q] /\ errs'[q] = errs[q] /\ rpc'[q] = rpc[q]

RequestStep(r) == NewRequest(r) \/ HandlerStep(r) \/ KpsStep(r) \/ RpcLost(r)

(* The steps that end a handler without the KPS.                           *)
LEMMA Finishes ==
  ASSUME NEW r \in Request,
         StoreMapping(r) \/ OpenSucceeds(r) \/ OpenFails(r) \/ Unmap(r)
  PROVE  /\ Finish(r) /\ rpc' = rpc /\ UNCHANGED registries
         /\ pc[r] \in {"store", "open", "opening", "unmap"}
<1>1. CASE StoreMapping(r)
  BY <1>1 DEF StoreMapping
<1>2. CASE OpenSucceeds(r) \/ OpenFails(r)
  BY <1>2 DEF OpenSucceeds, OpenFails, OpenError
<1>3. CASE Unmap(r)
  BY <1>3 DEF Unmap
<1> QED
  BY <1>1, <1>2, <1>3

(* A step of one request leaves the others where they are.                 *)
LEMMA OthersKeep ==
  ASSUME TypeOK, NEW r \in Request, RequestStep(r), NEW q \in Request, q # r
  PROVE  Keeps(q)
<1> USE DEF Keeps, locals
<1>1. CASE NewRequest(r)
  BY <1>1, Shape
  DEF NewRequest, GenerateBindingKey, DecapLookup, DestroyLookup, Goto, Call, Shaped
<1>2. CASE RpcReturns(r) \/ RpcFails(r)
  <2>1. rpc'[q] = rpc[q]
    BY <1>2, Shape DEF RpcReturns, RpcFails, Shaped
  <2>2. CASE Finish(r)
    BY <2>1, <2>2, Shape DEF Finish, Goto, Shaped
  <2>3. CASE ~Finish(r)
    BY <1>2, <2>1, <2>3, Shape
    DEF RpcReturns, RpcFails, Resume, GenerateReturns, DecapReturns, DestroyReturns,
        Goto, Shaped
  <2> QED
    BY <2>2, <2>3
<1>3. CASE StoreMapping(r) \/ OpenSucceeds(r) \/ OpenFails(r) \/ Unmap(r)
  <2>1. Finish(r) /\ rpc' = rpc
    BY SMT, <1>3, Finishes
  <2> QED
    BY <2>1, Shape DEF Finish, Goto, Shaped
<1>4. CASE OpenGetKey(r) \/ DestroyBinding(r)
  BY <1>4, Shape DEF OpenGetKey, DestroyBinding, Goto, Shaped
<1>5. CASE KpsStep(r)
  BY <1>5, Shape DEF KpsStep, KpsGenerate, KpsGenerateFails, KpsDecapAndSeal, KpsDestroy,
              Answer, Shaped
<1>6. CASE RpcLost(r)
  BY <1>6, Shape DEF RpcLost, Shaped
<1> QED
  BY <1>1, <1>2, <1>3, <1>4, <1>5, <1>6 DEF RequestStep, HandlerStep

(* The steps that are not of a request.                                    *)
LEMMA QuietSteps ==
  ASSUME HeartbeatStep \/ ReapBindings \/ ReapKems \/ Tick \/ KpsEnvironment
  PROVE  /\ UNCHANGED <<pc, kemOf, bindingOf, sealedTo, errs, rpc>>
         /\ UNCHANGED <<bindingExpiry, kemInfo, acked, destroyed>>
BY DEF HeartbeatStep, CleanupState, ReapBindings, ReapKems, Tick, KpsEnvironment,
       registries, locals, history

-----------------------------------------------------------------------------
(* Types.  The heartbeat first.                                            *)
LEMMA HeartbeatType ==
  ASSUME Inv, [Next]_vars
  PROVE  HeartbeatTypeOK'
<1> USE HeartbeatAssumption DEF HeartbeatTypeOK, hbVars, hbState
<1>0. HeartbeatTypeOK
  BY DEF Inv, TypeOK
<1>1. CASE UNCHANGED hbVars
  BY <1>0, <1>1
<1>2. CASE HeartbeatTick \/ HeartbeatFailure \/ HeartbeatSuccess \/ BackoffRetry
           \/ TokenMismatch \/ BackoffExhausted
  <2>1. CASE HeartbeatTick \/ HeartbeatFailure
    BY SMT, <1>0, <2>1 DEF HeartbeatTick, HeartbeatFailure
  <2>2. CASE BackoffRetry
    BY SMT, <1>0, <2>2 DEF BackoffRetry
  <2>3. CASE HeartbeatSuccess \/ TokenMismatch \/ BackoffExhausted
    BY SMT, <1>0, <2>3 DEF HeartbeatSuccess, TokenMismatch, BackoffExhausted
  <2> QED
    BY <1>2, <2>1, <2>2, <2>3
<1>3. CASE HeartbeatAnswer \/ KpsCrash \/ KpsStart
  <2>1. up' \in BOOLEAN
    BY <1>0, <1>3, Zenon DEF HeartbeatAnswer, KpsCrash, KpsStart
  <2>2. CASE HeartbeatAnswer \/ KpsCrash
    BY SMT, <1>0, <2>1, <2>2 DEF HeartbeatAnswer, KpsCrash
  <2>3. CASE KpsStart
    BY SMT, <1>0, <2>1, <2>3 DEF KpsStart
  <2> QED
    BY <1>3, <2>2, <2>3
<1>4. CASE WsdRestart
  BY SMT, <1>0, <1>4 DEF WsdRestart
<1>5. ASSUME NEW r \in Request, RequestStep(r) PROVE UNCHANGED hbVars
  BY <1>5 DEF RequestStep, NewRequest, GenerateBindingKey, DecapLookup, DestroyLookup,
     HandlerStep, RpcReturns, RpcFails, Resume, StoreMapping, OpenGetKey,
     OpenSucceeds, OpenFails, DestroyBinding, Unmap, KpsStep, KpsGenerate,
     KpsGenerateFails, KpsDecapAndSeal, KpsDestroy, Answer, RpcLost
<1>6. CASE ReapBindings \/ ReapKems \/ Tick
  BY <1>1, <1>6 DEF ReapBindings, ReapKems, Tick
<1>7. CASE HeartbeatStep \/ KpsEnvironment
  BY <1>2, <1>3, <1>7 DEF HeartbeatStep, KpsEnvironment
<1> QED
  BY <1>1, <1>4, <1>5, <1>6, <1>7 DEF Next, vars, RequestStep

(* The local variables of the handlers have their types.                   *)
LocalsTyped ==
  /\ pc \in [Request -> Waiting \cup {"idle", "store", "open", "opening",
                                      "destroyBinding", "unmap"}]
  /\ kemOf \in [Request -> KemKey \cup {None}]
  /\ bindingOf \in [Request -> BindingKey \cup {None}]
  /\ sealedTo \in [Request -> BindingKey \cup {None}]
  /\ errs \in [Request -> SUBSET (Error \cup {"SUCCESS"})]

(* A handler that goes on after its call keeps the types of its locals.    *)
LEMMA ResumeType ==
  ASSUME LocalsTyped, NEW r \in Request,
         NEW s \in Error \cup {"SUCCESS"}, NEW k \in KemKey \cup {None},
         NEW b \in BindingKey \cup {None}, Resume(r, s, k, b)
  PROVE  LocalsTyped'
<1> USE DEF LocalsTyped, Goto, Waiting
<1>1. CASE Finish(r)
  BY <1>1 DEF Finish
<1>2. CASE GenerateReturns(r, s, k) /\ ~Finish(r)
  BY <1>2 DEF GenerateReturns
<1>3. CASE DecapReturns(r, s, b) /\ ~Finish(r)
  BY <1>3 DEF DecapReturns
<1>4. CASE DestroyReturns(r, s)
  <2>1. {s} \in SUBSET (Error \cup {"SUCCESS"})
    OBVIOUS
  <2> QED
    BY <1>4, <2>1 DEF DestroyReturns
<1> QED
  BY <1>1, <1>2, <1>3, <1>4 DEF Resume

(* So does every other step of a request.                                  *)
LEMMA LocalsType ==
  ASSUME Inv, NEW r \in Request, RequestStep(r)
  PROVE  LocalsTyped'
<1>0. TypeOK /\ LocalsTyped
  BY DEF Inv, TypeOK, LocalsTyped
<1>1. CASE Finish(r)
  BY <1>0, <1>1 DEF Finish, Goto, LocalsTyped
<1>2. ASSUME NEW b \in BindingKey, NEW life \in Lifespan, GenerateBindingKey(r, b, life)
      PROVE  LocalsTyped'
  BY <1>0, <1>2 DEF GenerateBindingKey, Goto, LocalsTyped, Waiting
<1>3. ASSUME NEW k \in KemKey, DecapLookup(r, k) \/ DestroyLookup(r, k)
      PROVE  LocalsTyped'
  <2>1. kemToBindingMap[k] \in BindingKey \cup {None}
    BY <1>0 DEF TypeOK
  <2>2. CASE DecapLookup(r, k)
    BY <1>0, <2>1, <2>2 DEF DecapLookup, Goto, LocalsTyped, Waiting
  <2>3. CASE DestroyLookup(r, k)
    BY <1>0, <2>1, <2>3 DEF DestroyLookup, Goto, LocalsTyped, Waiting
  <2> QED
    BY <1>3, <2>2, <2>3
<1>4. CASE RpcReturns(r)
  <2>1. /\ rpc[r].status \in Error \cup {"SUCCESS"}
        /\ rpc[r].kem \in KemKey \cup {None}
        /\ rpc[r].binding \in BindingKey \cup {None}
    BY <1>0 DEF TypeOK
  <2> QED
    BY <1>0, <1>4, <2>1, ResumeType DEF RpcReturns
<1>5. CASE RpcFails(r)
  BY <1>0, <1>5, ResumeType, StatusTables DEF RpcFails
<1>6. CASE StoreMapping(r) \/ OpenSucceeds(r) \/ OpenFails(r) \/ Unmap(r)
  <2>1. Finish(r)
    BY SMT, <1>6, Finishes
  <2> QED
    BY <1>1, <2>1
<1>7. CASE OpenGetKey(r)
  BY <1>0, <1>7 DEF OpenGetKey, Goto, LocalsTyped, locals
<1>9. CASE DestroyBinding(r)
  BY SMT, <1>0, <1>9, StatusTables DEF DestroyBinding, Goto, LocalsTyped
<1>8. CASE KpsStep(r) \/ RpcLost(r)
  BY <1>0, <1>8 DEF KpsStep, KpsGenerate, KpsGenerateFails, KpsDecapAndSeal, KpsDestroy,
                    Answer, RpcLost, LocalsTyped, locals
<1> QED
  BY <1>2, <1>3, <1>4, <1>5, <1>6, <1>7, <1>8, <1>9
  DEF RequestStep, NewRequest, HandlerStep

(* The type of a call.                                                     *)
RpcType ==
  [method : {"none", "generate", "decap", "destroy", "answered"},
   kem : KemKey \cup {None}, binding : BindingKey \cup {None},
   life : Lifespan \cup {0}, status : Error \cup {"SUCCESS"}]

(* An answer has the type of a call.                                       *)
LEMMA AnswerType ==
  ASSUME TypeOK, NEW r \in Request, NEW k \in KemKey \cup {None},
         NEW b \in BindingKey \cup {None},
         NEW s \in {"SUCCESS", "CRYPTO_ERROR", "DECAPSULATION_FAILURE", "NOT_FOUND"},
         Answer(r, s, k, b)
  PROVE  rpc' \in [Request -> RpcType]
<1>1. RemoteStatus(s) \in Error \cup {"SUCCESS"}
  BY StatusTables
<1> QED
  BY <1>1 DEF Answer, Rpc, NoRpc, RpcType, TypeOK

(* A call, its execution by the KPS and its end keep the type of rpc.      *)
LEMMA CallsType ==
  ASSUME Inv, NEW r \in Request, RequestStep(r)
  PROVE  rpc' \in [Request -> RpcType]
<1>0. TypeOK /\ rpc \in [Request -> RpcType] /\ NoRpc \in RpcType
  BY DEF Inv, TypeOK, RpcType, NoRpc, Rpc
<1>1. CASE NewRequest(r)
  BY SMT, <1>0, <1>1
  DEF NewRequest, GenerateBindingKey, DecapLookup, DestroyLookup, Call, Rpc, RpcType
<1>2. CASE HandlerStep(r) \/ RpcLost(r)
  BY <1>0, <1>2 DEF HandlerStep, RpcReturns, RpcFails, StoreMapping, OpenGetKey,
                    OpenSucceeds, OpenFails, DestroyBinding, Unmap, RpcLost
<1>3. CASE KpsStep(r)
  <2>1. rpc[r].kem \in KemKey \cup {None}
    BY <1>0 DEF RpcType
  <2>2. ASSUME NEW k \in KemKey, KpsGenerate(r, k) PROVE rpc' \in [Request -> RpcType]
    BY <1>0, <2>2, AnswerType DEF KpsGenerate
  <2>3. CASE KpsGenerateFails(r)
    BY <1>0, <2>3, AnswerType DEF KpsGenerateFails
  <2>4. CASE KpsDecapAndSeal(r)
    <3>1. CASE Answer(r, "SUCCESS", rpc[r].kem, kemInfo[rpc[r].kem].binding)
               /\ LiveKem(rpc[r].kem)
      <4>1. kemInfo[rpc[r].kem].binding \in BindingKey
        BY SMT, <3>1 DEF LiveKem, Inv, KemsOK, TypeOK, KemInfo
      <4> QED
        BY <1>0, <2>1, <3>1, <4>1, AnswerType
    <3> QED
      BY <1>0, <2>1, <2>4, <3>1, AnswerType DEF KpsDecapAndSeal
  <2>5. CASE KpsDestroy(r)
    BY <1>0, <2>1, <2>5, AnswerType DEF KpsDestroy
  <2> QED
    BY <1>3, <2>2, <2>3, <2>4, <2>5 DEF KpsStep
<1> QED
  BY <1>1, <1>2, <1>3 DEF RequestStep

(* The KEM key a generate call makes.                                      *)
LEMMA MadeKey ==
  ASSUME TypeOK, NEW r \in Request, CallOK(r), NEW k \in KemKey, KpsGenerate(r, k)
  PROVE  /\ rpc[r].binding \in Minted
         /\ now + rpc[r].life \in Nat
         /\ kemInfo[k] = None
         /\ kemInfo' \in [KemKey -> KemInfo \cup {None}]
         /\ kemInfo'[k] \in KemInfo /\ kemInfo'[k] # None
         /\ kemInfo'[k].binding = rpc[r].binding
         /\ kemInfo'[k].expiry = now + rpc[r].life
         /\ kemInfo'[k].boot = boot
         /\ kemInfo'[k].watched = (cachedToken # 0)
         /\ \A j \in KemKey \ {k} : kemInfo'[j] = kemInfo[j]
<1> DEFINE made == [binding |-> rpc[r].binding, expiry |-> now + rpc[r].life,
                    boot |-> boot, watched |-> cachedToken # 0]
<1>1. rpc[r].binding \in Minted /\ rpc[r].life \in Lifespan
  <2>1. rpc[r].method = "generate"
    BY DEF KpsGenerate
  <2> QED
    BY <2>1 DEF CallOK
<1>2. now + rpc[r].life \in Nat
  <2>1. now \in Nat
    BY SMT, KeyProtectionAssumption DEF TypeOK
  <2>2. rpc[r].life \in Nat
    BY <1>1, Constants
  <2> QED
    BY SMT, <2>1, <2>2
<1>3. made \in KemInfo
  <2>1. boot \in 1..MaxBoot /\ (cachedToken # 0) \in BOOLEAN
    BY DEF TypeOK, HeartbeatTypeOK
  <2> QED
    BY <1>1, <1>2, <2>1 DEF KemInfo, Minted
<1>4. kemInfo[k] = None /\ kemInfo' = [kemInfo EXCEPT ![k] = made]
  BY DEF KpsGenerate
<1>5. kemInfo \in [KemKey -> KemInfo \cup {None}]
  BY DEF TypeOK
<1> HIDE DEF made
<1>6. /\ kemInfo'[k] = made /\ kemInfo' \in [KemKey -> KemInfo \cup {None}]
      /\ \A j \in KemKey \ {k} : kemInfo'[j] = kemInfo[j]
  BY <1>3, <1>4, <1>5
<1> QED
  BY <1>1, <1>2, <1>3, <1>4, <1>6, Constants DEF made

(* The registries, the map and the history keep their types.               *)
StoresTyped ==
  /\ now \in 0..Horizon
  /\ bindings \subseteq BindingKey
  /\ bindingExpiry \in [BindingKey -> Nat \cup {None}]
  /\ kems \subseteq KemKey
  /\ kemInfo \in [KemKey -> KemInfo \cup {None}]
  /\ kemToBindingMap \in [KemKey -> BindingKey \cup {None}]
  /\ acked \subseteq KemKey
  /\ destroyed \subseteq KemKey
  /\ disowned \subseteq BindingKey

(* Every step keeps the types of the registries, the map and the history.  *)
LEMMA StoresType ==
  ASSUME Inv, [Next]_vars
  PROVE  StoresTyped'
<1> USE DEF StoresTyped, registries, history
<1>0. /\ TypeOK /\ StoresTyped /\ now \in Nat
      /\ Minted \subseteq BindingKey
  BY SMT, KeyProtectionAssumption DEF Inv, TypeOK, Minted
<1>1. CASE UNCHANGED <<now, registries, kemToBindingMap, history>>
  BY <1>0, <1>1
<1>2. ASSUME NEW r \in Request, NewRequest(r) PROVE StoresTyped'
  <2>1. ASSUME NEW b \in BindingKey, NEW life \in Lifespan, GenerateBindingKey(r, b, life)
        PROVE  StoresTyped'
    <3>1. now + life \in Nat
      BY SMT, <1>0, Constants
    <3> QED
      BY <1>0, <2>1, <3>1 DEF GenerateBindingKey
  <2>2. ASSUME NEW k \in KemKey, DecapLookup(r, k) PROVE StoresTyped'
    BY <1>1, <2>2 DEF DecapLookup
  <2>3. ASSUME NEW k \in KemKey, DestroyLookup(r, k) PROVE StoresTyped'
    <3>1. kemToBindingMap[k] \in BindingKey
      BY <1>0, <2>3 DEF DestroyLookup
    <3> QED
      BY <1>0, <2>3, <3>1 DEF DestroyLookup
  <2> QED
    BY <1>2, <2>1, <2>2, <2>3 DEF NewRequest
<1>3. ASSUME NEW r \in Request, HandlerStep(r) \/ RpcLost(r) PROVE StoresTyped'
  <2>1. CASE StoreMapping(r)
    <3>1. kemOf[r] \in KemKey /\ bindingOf[r] \in BindingKey \cup {None}
      BY <1>0, <2>1 DEF StoreMapping, Inv, HandlerOK, TypeOK
    <3> QED
      BY <1>0, <2>1, <3>1 DEF StoreMapping
  <2>2. CASE DestroyBinding(r)
    BY <1>0, <2>2 DEF DestroyBinding
  <2>3. CASE Unmap(r)
    <3>1. kemOf[r] \in KemKey
      BY <1>0, <2>3, Shape DEF Unmap, Inv, HandlerOK, Shaped, Using, Destroying
    <3> QED
      BY SMT, <1>0, <2>3, <3>1 DEF Unmap
  <2>4. CASE \/ RpcReturns(r) \/ RpcFails(r) \/ RpcLost(r)
             \/ OpenGetKey(r) \/ OpenSucceeds(r) \/ OpenFails(r)
    BY <1>1, <2>4 DEF RpcReturns, RpcFails, Resume, RpcLost, OpenGetKey, OpenSucceeds,
                      OpenFails
  <2> QED
    BY <1>3, <2>1, <2>2, <2>3, <2>4 DEF HandlerStep
<1>4. ASSUME NEW r \in Request, KpsStep(r) PROVE StoresTyped'
  <2>1. ASSUME NEW k \in KemKey, KpsGenerate(r, k) PROVE StoresTyped'
    <3>1. kemInfo' \in [KemKey -> KemInfo \cup {None}]
      BY <1>0, <2>1, MadeKey DEF Inv
    <3> QED
      BY <1>0, <2>1, <3>1 DEF KpsGenerate, Answer
  <2>2. CASE KpsGenerateFails(r) \/ KpsDecapAndSeal(r)
    BY <1>1, <2>2 DEF KpsGenerateFails, KpsDecapAndSeal, Answer
  <2>3. CASE KpsDestroy(r)
    BY <1>0, <2>3 DEF KpsDestroy, Answer
  <2> QED
    BY <1>4, <2>1, <2>2, <2>3 DEF KpsStep
<1>5. CASE HeartbeatStep
  <2>1. CASE CleanupState
    BY <1>0, <2>1 DEF CleanupState
  <2> QED
    BY <1>1, <1>5, <2>1 DEF HeartbeatStep
<1>6. CASE ReapBindings \/ ReapKems
  BY <1>0, <1>6 DEF ReapBindings, ReapKems
<1>7. CASE Tick
  BY SMT, <1>0, <1>7, KeyProtectionAssumption DEF Tick
<1>8. CASE KpsEnvironment
  BY <1>0, <1>8 DEF KpsEnvironment
<1>9. CASE WsdRestart
  BY <1>0, <1>9 DEF WsdRestart
<1> QED
  BY <1>1, <1>2, <1>3, <1>4, <1>5, <1>6, <1>7, <1>8, <1>9 DEF Next, vars

(* Every variable keeps its type.                                          *)
LEMMA TypeStep ==
  ASSUME Inv, [Next]_vars
  PROVE  TypeOK'
<1>0. TypeOK /\ LocalsTyped /\ rpc \in [Request -> RpcType] /\ NoRpc \in RpcType
  BY DEF Inv, TypeOK, LocalsTyped, RpcType, NoRpc, Rpc
<1>1. LocalsTyped' /\ rpc' \in [Request -> RpcType]
  <2>1. CASE UNCHANGED <<pc, kemOf, bindingOf, sealedTo, errs, rpc>>
    BY <1>0, <2>1 DEF LocalsTyped
  <2>2. CASE WsdRestart
    BY <1>0, <2>2 DEF WsdRestart, LocalsTyped
  <2>3. ASSUME NEW r \in Request, RequestStep(r)
        PROVE  LocalsTyped' /\ rpc' \in [Request -> RpcType]
    BY <2>3, LocalsType, CallsType
  <2> QED
    BY <2>1, <2>2, <2>3, QuietSteps DEF Next, RequestStep, vars, locals
<1> QED
  BY <1>1, HeartbeatType, StoresType DEF TypeOK, LocalsTyped, StoresTyped, RpcType

-----------------------------------------------------------------------------
(* What no step takes back: a key that was drawn keeps its metadata and    *)
(* does not come back to a registry, and the history only grows.           *)
Grows ==
  /\ \A b \in Minted : bindingExpiry'[b] = bindingExpiry[b]
  /\ \A k \in KemKey : kemInfo[k] # None => kemInfo'[k] = kemInfo[k]
  /\ \A b \in Minted : b \in bindings' => b \in bindings
  /\ \A k \in KemKey : kemInfo[k] # None /\ k \in kems' => k \in kems
  /\ acked \subseteq acked'
  /\ disowned \subseteq disowned'
  /\ now <= now'

(* Every step grows the history: what was made, announced or given up once *)
(* stays so, and a key that left a registry does not come back.            *)
LEMMA StepGrows ==
  ASSUME Inv, [Next]_vars
  PROVE  Grows
<1> USE DEF Grows, registries, history
<1>0. TypeOK /\ StoresTyped /\ now \in Nat
  BY SMT, KeyProtectionAssumption DEF Inv, TypeOK, StoresTyped
<1>1. CASE UNCHANGED <<now, registries, history>>
  BY SMT, <1>0, <1>1
<1>2. ASSUME NEW r \in Request, NewRequest(r) PROVE Grows
  <2>1. ASSUME NEW b \in BindingKey, NEW life \in Lifespan, GenerateBindingKey(r, b, life)
        PROVE  Grows
    BY SMT, <1>0, <2>1 DEF GenerateBindingKey, Minted, StoresTyped
  <2>2. ASSUME NEW k \in KemKey, DecapLookup(r, k) \/ DestroyLookup(r, k) PROVE Grows
    BY SMT, <1>0, <2>2 DEF DecapLookup, DestroyLookup
  <2> QED
    BY <1>2, <2>1, <2>2 DEF NewRequest
<1>3. ASSUME NEW r \in Request, HandlerStep(r) \/ RpcLost(r) PROVE Grows
  BY SMT, <1>0, <1>3 DEF HandlerStep, RpcLost, RpcReturns, RpcFails, Resume, StoreMapping,
                    OpenGetKey, OpenSucceeds, OpenFails, DestroyBinding, Unmap
<1>4. ASSUME NEW r \in Request, KpsStep(r) PROVE Grows
  <2>1. ASSUME NEW k \in KemKey, KpsGenerate(r, k) PROVE Grows
    <3>1. /\ kems' = kems \cup {k} /\ kemInfo[k] = None
          /\ UNCHANGED <<now, bindings, bindingExpiry, acked, disowned>>
      BY <2>1 DEF KpsGenerate, Answer
    <3>2. \A j \in KemKey : j # k => kemInfo'[j] = kemInfo[j]
      BY <1>0, <2>1, Shape DEF KpsGenerate, Shaped
    <3> QED
      BY SMT, <1>0, <3>1, <3>2
  <2>2. CASE KpsGenerateFails(r) \/ KpsDecapAndSeal(r)
    BY SMT, <1>0, <2>2 DEF KpsGenerateFails, KpsDecapAndSeal, Answer
  <2>3. CASE KpsDestroy(r)
    BY SMT, <1>0, <2>3 DEF KpsDestroy, Answer
  <2> QED
    BY <1>4, <2>1, <2>2, <2>3 DEF KpsStep
<1>5. CASE HeartbeatStep
  BY SMT, <1>0, <1>5 DEF HeartbeatStep, CleanupState
<1>6. CASE ReapBindings \/ ReapKems \/ Tick
  BY SMT, <1>0, <1>6 DEF ReapBindings, ReapKems, Tick
<1>7. CASE KpsEnvironment \/ WsdRestart
  BY SMT, <1>0, <1>7 DEF KpsEnvironment, WsdRestart
<1> QED
  BY <1>1, <1>2, <1>3, <1>4, <1>5, <1>6, <1>7 DEF Next, vars

(* Only KpsGenerate makes a KEM key, and only StoreMapping announces one.  *)
LEMMA WhoMakes ==
  ASSUME Next
  PROVE  /\ \/ kemInfo' = kemInfo
            \/ \E r \in Request, k \in KemKey : KpsGenerate(r, k)
         /\ acked' = acked \/ \E r \in Request : StoreMapping(r)
<1> USE DEF registries, history
<1>1. ASSUME NEW r \in Request, RequestStep(r)
      PROVE  /\ kemInfo' = kemInfo \/ \E k \in KemKey : KpsGenerate(r, k)
             /\ acked' = acked \/ StoreMapping(r)
  BY <1>1 DEF RequestStep, NewRequest, GenerateBindingKey, DecapLookup, DestroyLookup,
     HandlerStep, RpcReturns, RpcFails, Resume, OpenGetKey, OpenSucceeds, OpenFails,
     StoreMapping, DestroyBinding, Unmap, KpsStep, KpsGenerate, KpsGenerateFails,
     KpsDecapAndSeal, KpsDestroy, Answer, RpcLost
<1>2. CASE WsdRestart
  BY <1>2 DEF WsdRestart
<1> QED
  BY <1>1, <1>2, QuietSteps DEF Next, RequestStep

(* The keys two requests make are different ones, so what one stores is    *)
(* not what the other one waits for.                                       *)
LEMMA OwnKey ==
  ASSUME Inv, NEW q \in Request, NEW r \in Request, q # r, pc[r] = "store"
  PROVE  /\ pc[q] = "store" => kemOf[q] # kemOf[r]
         /\ (/\ pc[q] = "awaitKem" /\ rpc[q].method = "answered"
             /\ rpc[q].status = "SUCCESS") => rpc[q].kem # kemOf[r]
<1>1. /\ HandlerOK(q) /\ HandlerOK(r) /\ AnswerOK(q)
      /\ OneMaker /\ bindingOf[r] \in BindingKey
  <2>1. HandlerOK(q) /\ HandlerOK(r) /\ AnswerOK(q) /\ OneMaker
    BY DEF Inv
  <2>2. /\ kemInfo \in [KemKey -> KemInfo \cup {None}]
        /\ kemOf[r] \in KemKey /\ Bound(kemOf[r], bindingOf[r])
    BY <2>1 DEF Inv, TypeOK, HandlerOK
  <2>3. kemInfo[kemOf[r]] \in KemInfo
    BY <2>2 DEF Bound
  <2> QED
    BY <2>1, <2>2, <2>3 DEF Bound, KemInfo
<1>2. pc[q] \in {"awaitKem", "store"} => bindingOf[q] # bindingOf[r]
  BY <1>1 DEF OneMaker, Makes
<1> QED
  BY <1>1, <1>2 DEF HandlerOK, AnswerOK, Bound

-----------------------------------------------------------------------------
RequestOK(r) == HandlerOK(r) /\ CallOK(r) /\ AnswerOK(r)

(* A request that keeps still stays consistent, whatever others do.        *)
LEMMA StillConsistent ==
  ASSUME Inv, Next, TypeOK', NEW q \in Request, Keeps(q)
  PROVE  RequestOK(q)'
<1>0. /\ TypeOK /\ HandlerOK(q) /\ CallOK(q) /\ AnswerOK(q) /\ Grows
      /\ KemsOK /\ MapOK /\ OneMaker /\ acked \subseteq KemKey
  BY StepGrows DEF Inv, TypeOK
<1>1. Minted \subseteq Minted'
  BY <1>0 DEF Grows, Minted
<1>2. \A k \in KemKey : \A b : Bound(k, b) => Bound(k, b)'
  BY <1>0 DEF Grows, Bound
<1>3. /\ pc[q] = "store" => kemOf[q] \notin acked'
      /\ (pc[q] = "awaitKem" /\ rpc[q].method = "answered" /\ rpc[q].status = "SUCCESS")
           => rpc[q].kem \notin acked'
  <2>1. CASE acked' = acked
    BY <1>0, <2>1 DEF HandlerOK, AnswerOK
  <2>2. ASSUME NEW r \in Request, StoreMapping(r) PROVE <1>3!:
    <3>1. /\ pc[r] = "store" /\ acked' = acked \cup {kemOf[r]}
          /\ pc'[r] = "idle" /\ r # q
      BY <1>0, <2>2, Shape DEF StoreMapping, Finish, Goto, Shaped, Keeps
    <3> QED
      BY <1>0, <3>1, OwnKey DEF HandlerOK, AnswerOK
  <2> QED
    BY <2>1, <2>2, WhoMakes
<1>4. rpc[q].method = "generate" => \A k \in KemKey : ~Bound(k, rpc[q].binding)'
  <2> SUFFICES ASSUME rpc[q].method = "generate", NEW k \in KemKey
               PROVE  ~Bound(k, rpc[q].binding)'
    OBVIOUS
  <2>0. ~Bound(k, rpc[q].binding) /\ rpc[q].binding \in BindingKey /\ rpc'[q] = rpc[q]
    BY <1>0 DEF CallOK, Minted, Keeps
  <2>1. CASE kemInfo' = kemInfo
    BY <2>0, <2>1 DEF Bound
  <2>2. ASSUME NEW r \in Request, NEW j \in KemKey, KpsGenerate(r, j)
        PROVE  ~Bound(k, rpc[q].binding)'
    <3>1. r # q
      <4>1. rpc[r].method = "generate" /\ rpc'[r].method \in {"answered", "none"}
        BY <1>0, <2>2, Shape DEF KpsGenerate, Answer, Rpc, NoRpc, Shaped
      <4> QED
        BY <4>1 DEF Keeps
    <3>2. rpc[r].binding # rpc[q].binding
      BY <1>0, <2>0, <2>2, <3>1 DEF OneMaker, Makes, KpsGenerate
    <3>3. k # j => kemInfo'[k] = kemInfo[k]
      BY <1>0, <2>2, Shape DEF KpsGenerate, Shaped
    <3>4. k = j => kemInfo'[k].binding = rpc[r].binding
      BY <1>0, <2>2, Shape DEF KpsGenerate, Shaped
    <3> QED
      BY <2>0, <3>2, <3>3, <3>4 DEF Bound
  <2> QED
    BY <2>1, <2>2, WhoMakes
<1>5. HandlerOK(q)'
  <2>1. pc[q] \in Using => bindingOf[q] \in Minted
    BY <1>0 DEF HandlerOK, KemsOK, Bound
  <2>2. pc[q] \in Using => kemOf[q] \in KemKey /\ kemInfo[kemOf[q]] # None
    BY <1>0 DEF HandlerOK, Bound
  <2>3. /\ pc[q] = "awaitKem" => bindingOf[q] \in Minted'
        /\ pc[q] = "store" =>
             kemOf[q] \in KemKey \ acked' /\ Bound(kemOf[q], bindingOf[q])'
    BY <1>0, <1>1, <1>2, <1>3 DEF HandlerOK, Keeps
  <2>4. pc[q] \in Using => kemOf[q] \in acked' /\ Bound(kemOf[q], bindingOf[q])'
    BY <1>0, <1>2, <2>2 DEF HandlerOK, Keeps, Grows
  <2>5. pc[q] \in Destroying => bindingOf[q] \in disowned'
    BY <1>0 DEF HandlerOK, Grows
  <2>6. /\ pc[q] \in {"destroyBinding", "unmap"} /\ errs[q] \subseteq {"SUCCESS"} =>
             kemOf[q] \notin kems'
        /\ pc[q] = "unmap" => bindingOf[q] \notin bindings'
    BY <1>0, <2>1, <2>2 DEF HandlerOK, Grows, Using, Destroying
  <2> QED
    BY <1>0, <2>3, <2>4, <2>5, <2>6 DEF HandlerOK, Keeps, Bound
<1>6. CallOK(q)'
  <2>1. ASSUME rpc[q].method = "generate"
        PROVE  /\ rpc[q].binding \in Minted'
               /\ bindingExpiry'[rpc[q].binding] <= now' + rpc[q].life
    <3>1. /\ rpc[q].binding \in Minted /\ rpc[q].life \in Nat
          /\ bindingExpiry[rpc[q].binding] <= now + rpc[q].life
          /\ bindingExpiry'[rpc[q].binding] = bindingExpiry[rpc[q].binding]
      BY <1>0, <2>1, Constants DEF CallOK, Grows
    <3>2. bindingExpiry[rpc[q].binding] \in Nat /\ now \in Nat /\ now' \in Nat /\ now <= now'
      BY SMT, <1>0, <3>1, KeyProtectionAssumption DEF TypeOK, Minted, Grows
    <3> QED
      BY SMT, <1>1, <3>1, <3>2
  <2>2. ASSUME rpc[q].method \in {"decap", "destroy"}
        PROVE  rpc[q].kem \in acked' /\ kemInfo'[rpc[q].kem] = kemInfo[rpc[q].kem]
    BY <1>0, <2>2 DEF CallOK, MapOK, Grows
  <2>3. CASE rpc[q].method = "generate"
    BY <1>0, <1>4, <2>1, <2>3 DEF CallOK, Keeps, Bound
  <2>4. CASE rpc[q].method # "generate"
    BY <1>0, <2>2, <2>4 DEF CallOK, Keeps, Grows
  <2> QED
    BY <2>3, <2>4
<1>7. AnswerOK(q)'
  <2>1. pc[q] = "awaitDestroy" => kemOf[q] \in KemKey /\ kemInfo[kemOf[q]] # None
    BY <1>0 DEF HandlerOK, Bound, Using, Destroying
  <2> QED
    BY <1>0, <1>2, <1>3, <2>1 DEF AnswerOK, Keeps, Grows, Bound
<1> QED
  BY <1>5, <1>6, <1>7 DEF RequestOK

(* A handler that has ended, with a call the KPS may still execute or      *)
(* none, is consistent.                                                    *)
LEMMA EndedConsistent ==
  ASSUME Inv, [Next]_vars, NEW r \in Request, pc'[r] = "idle",
         \/ rpc'[r] = NoRpc
         \/ rpc'[r] = rpc[r] /\ rpc[r].method # "answered" /\ UNCHANGED registries
  PROVE  RequestOK(r)'
<1>0. TypeOK /\ CallOK(r) /\ Grows /\ MapOK /\ acked \subseteq KemKey
  BY StepGrows DEF Inv, TypeOK
<1>1. HandlerOK(r)' /\ AnswerOK(r)'
  BY RpcFields DEF HandlerOK, AnswerOK, Using, Destroying
<1>2. CASE rpc'[r] = NoRpc
  BY <1>1, <1>2, RpcFields DEF RequestOK, CallOK
<1>3. CASE rpc'[r] = rpc[r] /\ rpc[r].method # "answered" /\ UNCHANGED registries
  <2>1. ASSUME rpc[r].method = "generate"
        PROVE  bindingExpiry[rpc[r].binding] <= now' + rpc[r].life
    <3>1. /\ rpc[r].binding \in Minted /\ rpc[r].life \in Nat
          /\ bindingExpiry[rpc[r].binding] <= now + rpc[r].life
      BY <1>0, <2>1, Constants DEF CallOK
    <3>2. bindingExpiry[rpc[r].binding] \in Nat /\ now \in Nat /\ now' \in Nat /\ now <= now'
      BY SMT, <1>0, <3>1, KeyProtectionAssumption, TypeStep DEF TypeOK, Minted, Grows
    <3> QED
      BY SMT, <3>1, <3>2
  <2>2. CallOK(r)'
    BY <1>0, <1>3, <2>1 DEF CallOK, Grows, registries, Minted, Bound
  <2> QED
    BY <1>1, <2>2 DEF RequestOK
<1> QED
  BY <1>2, <1>3

(* A new request is consistent.                                            *)
LEMMA NewConsistent ==
  ASSUME Inv, Next, NEW r \in Request, NewRequest(r)
  PROVE  RequestOK(r)'
<1>0. /\ TypeOK /\ KemsOK /\ MapOK /\ Grows
  BY StepGrows, Shape DEF Inv, Shaped
<1>1. ASSUME NEW b \in BindingKey, NEW life \in Lifespan, GenerateBindingKey(r, b, life)
      PROVE  RequestOK(r)'
  <2>1. /\ pc'[r] = "awaitKem" /\ bindingOf'[r] = b
        /\ rpc'[r] = Rpc("generate", None, b, life, "SUCCESS")
        /\ bindingExpiry'[b] = now + life /\ b \notin Minted
        /\ now' = now /\ kemInfo' = kemInfo
    BY <1>0, <1>1, Shape DEF GenerateBindingKey, Goto, Call, Shaped
  <2>2. now + life \in Nat
    BY SMT, <1>0, Constants, KeyProtectionAssumption DEF TypeOK
  <2>3. b \in Minted' /\ bindingExpiry'[b] <= now' + life
    BY SMT, <2>1, <2>2, Constants DEF Minted
  <2>4. \A k \in KemKey : ~Bound(k, b)'
    BY <1>0, <2>1 DEF KemsOK, Bound
  <2>5. rpc'[r].method = "generate" /\ rpc'[r].binding = b /\ rpc'[r].life = life
    BY SMT, <2>1, RpcFields
  <2>6. HandlerOK(r)' /\ AnswerOK(r)'
    BY <2>1, <2>3, <2>5 DEF HandlerOK, AnswerOK, Using, Destroying
  <2>7. CallOK(r)'
    BY <2>1, <2>3, <2>4, <2>5 DEF CallOK
  <2> QED
    BY <2>6, <2>7 DEF RequestOK
<1>2. ASSUME NEW k \in KemKey, DecapLookup(r, k) PROVE RequestOK(r)'
  <2>1. /\ pc'[r] = "awaitSeal" /\ kemOf'[r] = k /\ bindingOf'[r] = kemToBindingMap[k]
        /\ rpc'[r] = Rpc("decap", k, None, 0, "SUCCESS")
        /\ kemInfo' = kemInfo /\ acked' = acked /\ kemToBindingMap[k] # None
    BY <1>0, <1>2, Shape DEF DecapLookup, Goto, Call, Shaped, registries, history
  <2>2. rpc'[r].method = "decap" /\ rpc'[r].kem = k
    BY SMT, <2>1, RpcFields
  <2>3. k \in acked' /\ Bound(k, bindingOf[r])'
    BY <1>0, <2>1 DEF MapOK, Bound
  <2> QED
    BY <2>1, <2>2, <2>3
    DEF RequestOK, HandlerOK, CallOK, AnswerOK, Using, Destroying
<1>3. ASSUME NEW k \in KemKey, DestroyLookup(r, k) PROVE RequestOK(r)'
  <2>1. /\ pc'[r] = "awaitDestroy" /\ kemOf'[r] = k /\ bindingOf'[r] = kemToBindingMap[k]
        /\ rpc'[r] = Rpc("destroy", k, None, 0, "SUCCESS")
        /\ kemInfo' = kemInfo /\ acked' = acked /\ kemToBindingMap[k] # None
        /\ kemToBindingMap[k] \in disowned'
    BY <1>0, <1>3, Shape DEF DestroyLookup, Goto, Call, Shaped, registries
  <2>2. rpc'[r].method = "destroy" /\ rpc'[r].kem = k
    BY SMT, <2>1, RpcFields
  <2>3. k \in acked' /\ Bound(k, bindingOf[r])' /\ bindingOf'[r] \in disowned'
    BY <1>0, <2>1 DEF MapOK, Bound
  <2>4. kemInfo'[k].binding \in disowned'
    BY <2>3 DEF Bound
  <2> QED
    BY <2>1, <2>2, <2>3, <2>4
    DEF RequestOK, HandlerOK, CallOK, AnswerOK, Using, Destroying
<1> QED
  BY <1>1, <1>2, <1>3 DEF NewRequest

(* A handler whose call has ended is consistent.                           *)
LEMMA ResumedConsistent ==
  ASSUME Inv, Next, NEW r \in Request, RpcReturns(r) \/ RpcFails(r)
  PROVE  RequestOK(r)'
<1>0. /\ TypeOK /\ HandlerOK(r) /\ CallOK(r) /\ AnswerOK(r)
      /\ UNCHANGED <<registries, acked, disowned, now>>
      /\ \/ rpc'[r] = NoRpc
         \/ rpc'[r] = rpc[r] /\ rpc[r].method # "answered" /\ RpcFails(r)
  BY Shape DEF Inv, Shaped, RpcReturns, RpcFails, Resume, history
<1>1. CASE Finish(r)
  <2>1. pc'[r] = "idle"
    BY <1>0, <1>1, Shape DEF Finish, Goto, Shaped
  <2> QED
    BY <1>0, <2>1, EndedConsistent
<1>2. CASE ~Finish(r) /\ RpcReturns(r) /\ pc[r] = "awaitKem"
  <2>1. /\ pc'[r] = "store" /\ kemOf'[r] = rpc[r].kem /\ bindingOf'[r] = bindingOf[r]
        /\ rpc[r].status = "SUCCESS" /\ rpc[r].method = "answered" /\ rpc'[r] = NoRpc
    BY <1>0, <1>2, Shape
    DEF RpcReturns, Resume, GenerateReturns, DecapReturns, DestroyReturns, Goto, Shaped
  <2> QED
    BY <1>0, <1>2, <2>1, RpcFields
    DEF RequestOK, HandlerOK, CallOK, AnswerOK, Using, Destroying, Bound, registries
<1>3. CASE ~Finish(r) /\ RpcReturns(r) /\ pc[r] = "awaitSeal"
  <2>1. /\ pc'[r] = "open" /\ kemOf'[r] = kemOf[r] /\ bindingOf'[r] = bindingOf[r]
        /\ sealedTo'[r] = rpc[r].binding
        /\ rpc[r].status = "SUCCESS" /\ rpc[r].method = "answered" /\ rpc'[r] = NoRpc
    BY <1>0, <1>3, Shape
    DEF RpcReturns, Resume, GenerateReturns, DecapReturns, DestroyReturns, Goto, Shaped
  <2> QED
    BY <1>0, <1>3, <2>1, RpcFields
    DEF RequestOK, HandlerOK, CallOK, AnswerOK, Using, Destroying, Bound, registries
<1>4. CASE pc[r] = "awaitDestroy"
  <2>1. /\ pc'[r] = "destroyBinding" /\ kemOf'[r] = kemOf[r] /\ bindingOf'[r] = bindingOf[r]
        /\ \/ /\ errs'[r] = {rpc[r].status} /\ rpc[r].method = "answered"
              /\ rpc'[r] = NoRpc
           \/ errs'[r] = {"RPC"}
    BY <1>0, <1>4, Shape DEF RpcReturns, RpcFails, Resume, GenerateReturns, DecapReturns,
                      DestroyReturns, Goto, Shaped
  <2>2. HandlerOK(r)'
    BY <1>0, <1>4, <2>1 DEF HandlerOK, AnswerOK, Using, Destroying, Bound, registries
  <2>3. CallOK(r)' /\ AnswerOK(r)'
    BY <1>0, <1>4, <2>1, RpcFields DEF CallOK, AnswerOK, Using, Destroying, registries
  <2> QED
    BY <2>2, <2>3 DEF RequestOK
<1> QED
  <2>1. RpcFails(r) /\ ~Finish(r) => pc[r] = "awaitDestroy"
    BY DEF RpcFails, Resume, GenerateReturns, DecapReturns, DestroyReturns
  <2>2. pc[r] \in {"awaitKem", "awaitSeal", "awaitDestroy"}
    BY DEF RpcReturns, RpcFails, Resume, GenerateReturns, DecapReturns, DestroyReturns
  <2> QED
    BY <1>1, <1>2, <1>3, <1>4, <2>1, <2>2

(* So is one that goes on without the KPS.                                 *)
LEMMA HandlerConsistent ==
  ASSUME Inv, Next, NEW r \in Request,
         \/ StoreMapping(r) \/ OpenGetKey(r) \/ OpenSucceeds(r) \/ OpenFails(r)
         \/ DestroyBinding(r) \/ Unmap(r)
  PROVE  RequestOK(r)'
<1>0. TypeOK /\ HandlerOK(r) /\ CallOK(r) /\ AnswerOK(r)
  BY DEF Inv
<1>1. CASE StoreMapping(r) \/ OpenSucceeds(r) \/ OpenFails(r) \/ Unmap(r)
  <2>0. /\ Finish(r) /\ rpc' = rpc /\ UNCHANGED registries
        /\ pc[r] \in {"store", "open", "opening", "unmap"}
    BY SMT, <1>1, Finishes
  <2>1. pc'[r] = "idle" /\ rpc'[r] = rpc[r]
    BY <1>0, <2>0, Shape DEF Finish, Goto, Shaped
  <2>2. rpc[r].method # "answered"
    BY <1>0, <2>0 DEF AnswerOK, Waiting
  <2> QED
    BY <2>0, <2>1, <2>2, EndedConsistent
<1>2. CASE DestroyBinding(r)
  <2>1. /\ pc[r] = "destroyBinding" /\ pc'[r] = "unmap" /\ rpc'[r] = rpc[r]
        /\ kemOf'[r] = kemOf[r] /\ bindingOf'[r] = bindingOf[r]
        /\ errs[r] \subseteq errs'[r] /\ bindings' = bindings \ {bindingOf[r]}
        /\ UNCHANGED <<kems, kemInfo, acked, disowned>>
    BY <1>0, <1>2, Shape DEF DestroyBinding, Goto, Shaped, history
  <2>2. HandlerOK(r)'
    BY <1>0, <2>1 DEF HandlerOK, Using, Destroying, Bound
  <2>3. CallOK(r)' /\ AnswerOK(r)'
    BY <1>0, <2>1 DEF CallOK, AnswerOK, Waiting, Destroying
  <2> QED
    BY <2>2, <2>3 DEF RequestOK
<1>3. CASE OpenGetKey(r)
  <2>1. /\ pc[r] = "open" /\ pc'[r] = "opening" /\ rpc'[r] = rpc[r]
        /\ UNCHANGED <<kemOf, bindingOf, sealedTo, kemInfo, acked>>
    BY <1>0, <1>3, Shape DEF OpenGetKey, Goto, Shaped, history, locals, registries
  <2>2. HandlerOK(r)'
    BY <1>0, <2>1 DEF HandlerOK, Using, Destroying, Bound
  <2>3. CallOK(r)' /\ AnswerOK(r)'
    BY <1>0, <2>1 DEF CallOK, AnswerOK, Waiting, Destroying
  <2> QED
    BY <2>2, <2>3 DEF RequestOK
<1> QED
  BY <1>1, <1>2, <1>3

(* A request whose call the KPS executes, or the network loses.  The       *)
(* handler's side does not move.                                           *)
LEMMA CalledConsistent ==
  ASSUME Inv, Next, NEW r \in Request, KpsStep(r) \/ RpcLost(r)
  PROVE  RequestOK(r)'
<1>0. /\ TypeOK /\ HandlerOK(r) /\ CallOK(r) /\ AnswerOK(r) /\ Grows /\ KemsOK /\ MapOK
      /\ acked \subseteq KemKey
  BY StepGrows DEF Inv, TypeOK
<1>1. /\ UNCHANGED <<pc, kemOf, bindingOf, sealedTo, errs, acked, disowned, bindings,
                     bindingExpiry>>
      /\ rpc[r].method \in {"generate", "decap", "destroy"}
  BY DEF KpsStep, KpsGenerate, KpsGenerateFails, KpsDecapAndSeal, KpsDestroy, Answer,
         RpcLost, locals, history, registries
<1>2. HandlerOK(r)'
  <2>1. pc[r] \in Using => kemOf[r] \in KemKey /\ kemInfo[kemOf[r]] # None
    BY <1>0 DEF HandlerOK, Bound
  <2>2. pc[r] = "store" => FALSE
    BY <1>0, <1>1 DEF CallOK, Destroying
  <2>3. pc[r] \in Using => Bound(kemOf[r], bindingOf[r])'
    BY <1>0, <1>1, <2>1 DEF HandlerOK, Bound, Grows
  <2>4. pc[r] \in {"destroyBinding", "unmap"} /\ errs[r] \subseteq {"SUCCESS"} =>
          kemOf[r] \notin kems'
    BY <1>0, <2>1 DEF HandlerOK, Grows, Using, Destroying
  <2> QED
    BY <1>0, <1>1, <2>2, <2>3, <2>4 DEF HandlerOK, Bound, Minted
<1>3. CASE rpc'[r].method = "none"
  BY <1>2, <1>3 DEF RequestOK, CallOK, AnswerOK
<1>4. ASSUME NEW s, NEW k, NEW b, Answer(r, s, k, b)
      PROVE  /\ \/ rpc'[r].method = "none"
                \/ /\ pc[r] \in Waiting
                   /\ rpc'[r] = Rpc("answered", k, b, 0, RemoteStatus(s))
             /\ CallOK(r)'
  BY <1>0, <1>4, Shape DEF Answer, NoRpc, Rpc, CallOK, Shaped
<1>a. ASSUME NEW s \in {"CRYPTO_ERROR", "DECAPSULATION_FAILURE", "NOT_FOUND"}, NEW k, NEW b,
             Answer(r, s, k, b)
      PROVE  RequestOK(r)'
  <2>1. RemoteStatus(s) # "SUCCESS"
    BY StatusTables
  <2>2. CASE pc[r] \in Waiting /\ rpc'[r] = Rpc("answered", k, b, 0, RemoteStatus(s))
    <3>1. pc'[r] \in Waiting /\ rpc'[r].status # "SUCCESS"
      BY SMT, <1>1, <2>1, <2>2, RpcFields
    <3> QED
      BY <1>2, <1>4, <1>a, <3>1 DEF RequestOK, AnswerOK
  <2> QED
    BY <1>3, <1>4, <1>a, <2>2
<1>5. CASE RpcLost(r)
  BY <1>0, <1>3, <1>5, Shape DEF RpcLost, NoRpc, Rpc, Shaped
<1>6. ASSUME NEW k \in KemKey, KpsGenerate(r, k) PROVE RequestOK(r)'
  <2>1. /\ rpc[r].method = "generate" /\ kemInfo[k] = None /\ k \notin acked
        /\ kemInfo'[k] # None /\ kemInfo'[k].binding = rpc[r].binding
        /\ Answer(r, "SUCCESS", k, None)
    BY <1>0, <1>6, MadeKey DEF KpsGenerate, MapOK
  <2>2. AnswerOK(r)'
    <3>1. CASE rpc'[r].method = "none"
      BY <3>1 DEF AnswerOK
    <3>2. CASE pc[r] \in Waiting
               /\ rpc'[r] = Rpc("answered", k, None, 0, RemoteStatus("SUCCESS"))
      <4>1. pc[r] = "awaitKem" /\ rpc[r].binding = bindingOf[r]
        BY <1>0, <2>1, <3>2 DEF CallOK, Waiting
      <4>2. Bound(k, bindingOf[r])'
        BY <1>1, <2>1, <4>1 DEF Bound
      <4>3. rpc'[r].kem = k
        BY SMT, <3>2, RpcFields
      <4> QED
        BY <1>1, <2>1, <4>1, <4>2, <4>3 DEF AnswerOK, Waiting, Bound
    <3> QED
      BY <1>4, <2>1, <3>1, <3>2
  <2> QED
    BY <1>2, <1>4, <2>1, <2>2 DEF RequestOK
<1>7. CASE KpsGenerateFails(r)
  <2>1. Answer(r, "CRYPTO_ERROR", None, None)
    BY <1>7 DEF KpsGenerateFails
  <2> QED
    BY <1>a, <2>1
<1>8. CASE KpsDecapAndSeal(r)
  <2>1. CASE Answer(r, "SUCCESS", rpc[r].kem, kemInfo[rpc[r].kem].binding)
    <3>1. pc[r] \in Waiting => pc[r] = "awaitSeal"
                               /\ kemInfo[rpc[r].kem].binding = bindingOf[r]
      BY <1>0, <1>8 DEF KpsDecapAndSeal, CallOK, HandlerOK, Bound, Waiting, Using
    <3>2. CASE pc[r] \in Waiting /\ rpc'[r] = Rpc("answered", rpc[r].kem,
                 kemInfo[rpc[r].kem].binding, 0, RemoteStatus("SUCCESS"))
      <4>1. rpc'[r].binding = bindingOf[r] /\ pc'[r] = "awaitSeal" /\ pc'[r] \in Waiting
        BY SMT, <1>1, <3>1, <3>2, RpcFields
      <4> QED
        BY <1>1, <1>2, <1>4, <2>1, <4>1 DEF RequestOK, AnswerOK
    <3> QED
      BY <1>3, <1>4, <2>1, <3>2
  <2>2. ASSUME NEW s \in {"DECAPSULATION_FAILURE", "NOT_FOUND"},
               Answer(r, s, rpc[r].kem, None)
        PROVE  RequestOK(r)'
    BY <1>a, <2>2
  <2> QED
    BY <1>8, <2>1, <2>2 DEF KpsDecapAndSeal
<1>9. CASE KpsDestroy(r)
  <2>1. /\ \E s : Answer(r, s, rpc[r].kem, None)
        /\ kems' = kems \ {rpc[r].kem}
        /\ pc[r] \in Waiting => pc[r] = "awaitDestroy" /\ kemOf[r] = rpc[r].kem
    BY <1>0, <1>9 DEF KpsDestroy, CallOK, Waiting, Destroying
  <2> QED
    BY <1>1, <1>2, <1>3, <1>4, <2>1 DEF RequestOK, AnswerOK, Rpc
<1> QED
  BY <1>5, <1>6, <1>7, <1>8, <1>9 DEF KpsStep

(* Every request is consistent after every step.                           *)
LEMMA RequestsConsistent ==
  ASSUME Inv, Next, NEW q \in Request
  PROVE  RequestOK(q)'
<1>0. TypeOK /\ TypeOK'
  BY TypeStep DEF Inv
<1>1. CASE HeartbeatStep \/ ReapBindings \/ ReapKems \/ Tick \/ KpsEnvironment
  BY <1>0, <1>1, QuietSteps, StillConsistent DEF Keeps
<1>2. CASE WsdRestart
  <2>1. /\ pc'[q] = "idle"
        /\ \/ rpc'[q] = NoRpc
           \/ rpc'[q] = rpc[q] /\ rpc[q].method # "answered"
    BY <1>2 DEF WsdRestart
  <2>2. /\ HandlerOK(q)' /\ AnswerOK(q)'
    BY <2>1, RpcFields DEF HandlerOK, AnswerOK, Using, Destroying
  <2>3. CallOK(q) /\ UNCHANGED <<bindingExpiry, kemInfo, acked, now>>
        /\ disowned \subseteq disowned'
    <3>1. CallOK(q)
      BY DEF Inv
    <3> QED
      BY <1>2, <3>1 DEF WsdRestart
  <2>4. CASE rpc'[q] = NoRpc
    BY <2>2, <2>4, RpcFields DEF RequestOK, CallOK
  <2>5. CASE rpc'[q] = rpc[q]
    BY <2>1, <2>2, <2>3, <2>5 DEF RequestOK, CallOK, Minted, Bound, Destroying
  <2> QED
    BY <2>1, <2>4, <2>5
<1>3. ASSUME NEW r \in Request, RequestStep(r) PROVE RequestOK(q)'
  <2>1. CASE q # r
    BY <1>0, <1>3, <2>1, OthersKeep, StillConsistent
  <2>2. CASE q = r
    BY <1>3, <2>2, NewConsistent, ResumedConsistent, HandlerConsistent, CalledConsistent
    DEF RequestStep, HandlerStep
  <2> QED
    BY <2>1, <2>2
<1> QED
  BY <1>1, <1>2, <1>3 DEF Next, RequestStep

-----------------------------------------------------------------------------
(* Only a request that draws a new binding key becomes a maker.            *)
LEMMA NewMakers ==
  ASSUME Inv, Next, NEW q \in Request, NEW b \in BindingKey, Makes(q, b)'
  PROVE  \/ Makes(q, b)
         \/ b \notin Minted /\ \E life \in Lifespan : GenerateBindingKey(q, b, life)
<1>0. TypeOK /\ CallOK(q) /\ AnswerOK(q)
  BY DEF Inv
<1>1. CASE Keeps(q)
  BY <1>1 DEF Makes, Keeps
<1>2. CASE HeartbeatStep \/ ReapBindings \/ ReapKems \/ Tick \/ KpsEnvironment
  BY <1>1, <1>2, QuietSteps DEF Keeps
<1>3. CASE WsdRestart
  BY <1>3 DEF WsdRestart, Makes, NoRpc, Rpc
<1>4. CASE NewRequest(q)
  <2>1. ASSUME NEW c \in BindingKey, NEW life \in Lifespan, GenerateBindingKey(q, c, life)
        PROVE  c = b /\ b \notin Minted
    BY <1>0, <2>1, Shape DEF GenerateBindingKey, Goto, Call, Rpc, Makes, Shaped
  <2>2. ASSUME NEW k \in KemKey, DecapLookup(q, k) \/ DestroyLookup(q, k) PROVE FALSE
    <3>1. /\ pc'[q] \in {"awaitSeal", "awaitDestroy"}
          /\ \/ rpc'[q] = Rpc("decap", k, None, 0, "SUCCESS")
             \/ rpc'[q] = Rpc("destroy", k, None, 0, "SUCCESS")
      BY <1>0, <2>2, Shape DEF DecapLookup, DestroyLookup, Goto, Call, Shaped
    <3>2. rpc'[q].method # "generate"
      BY SMT, <3>1, RpcFields
    <3> QED
      BY <3>1, <3>2 DEF Makes
  <2> QED
    BY <1>4, <2>1, <2>2 DEF NewRequest
<1>5. CASE RpcReturns(q) \/ RpcFails(q)
  <2>1. rpc'[q] = NoRpc \/ rpc'[q] = rpc[q]
    BY <1>0, <1>5, Shape DEF RpcReturns, RpcFails, Shaped
  <2>2. pc'[q] = "store" => pc[q] = "awaitKem" /\ bindingOf'[q] = bindingOf[q]
    BY <1>0, <1>5, Shape DEF RpcReturns, RpcFails, Resume, GenerateReturns, DecapReturns,
                      DestroyReturns, Finish, Goto, Shaped
  <2>3. pc'[q] # "awaitKem"
    BY <1>0, <1>5, Shape DEF RpcReturns, RpcFails, Resume, GenerateReturns, DecapReturns,
                      DestroyReturns, Finish, Goto, Shaped
  <2> QED
    BY <2>1, <2>2, <2>3, RpcFields DEF Makes
<1>6. CASE \/ StoreMapping(q) \/ OpenGetKey(q) \/ OpenSucceeds(q) \/ OpenFails(q)
           \/ Unmap(q) \/ DestroyBinding(q)
  <2>1. rpc'[q] = rpc[q] /\ pc'[q] \in {"idle", "opening", "unmap"}
    BY <1>0, <1>6, Shape
    DEF StoreMapping, OpenGetKey, OpenSucceeds, OpenFails, Unmap, DestroyBinding, Finish,
        Goto, Shaped
  <2> QED
    BY <2>1 DEF Makes
<1>7. CASE KpsStep(q) \/ RpcLost(q)
  <2>1. pc'[q] = pc[q] /\ bindingOf'[q] = bindingOf[q]
    BY <1>7 DEF KpsStep, KpsGenerate, KpsGenerateFails, KpsDecapAndSeal, KpsDestroy,
                Answer, RpcLost, locals
  <2>2. ASSUME NEW status, NEW k, NEW c, Answer(q, status, k, c)
        PROVE  rpc'[q].method # "generate"
    <3>1. \/ rpc'[q] = NoRpc
          \/ rpc'[q] = Rpc("answered", k, c, 0, RemoteStatus(status))
      BY <1>0, <2>2, Shape DEF Answer, Shaped
    <3> QED
      BY SMT, <3>1, RpcFields
  <2>3. ASSUME RpcLost(q) PROVE rpc'[q].method # "generate"
    <3>1. rpc'[q] = NoRpc
      BY <1>0, <2>3, Shape DEF RpcLost, Shaped
    <3> QED
      BY SMT, <3>1, RpcFields
  <2>4. rpc'[q].method # "generate"
    BY <1>7, <2>2, <2>3 DEF KpsStep, KpsGenerate, KpsGenerateFails, KpsDecapAndSeal,
                            KpsDestroy
  <2> QED
    BY <2>1, <2>4 DEF Makes
<1>8. ASSUME NEW r \in Request, RequestStep(r), r # q PROVE Keeps(q)
  BY <1>0, <1>8, OthersKeep
<1> QED
  BY <1>1, <1>2, <1>3, <1>4, <1>5, <1>6, <1>7, <1>8 DEF Next, RequestStep, HandlerStep

(* A maker's binding key has been drawn.                                   *)
LEMMA MakersMinted ==
  ASSUME Inv, NEW q \in Request, NEW b \in BindingKey, Makes(q, b)
  PROVE  b \in Minted
<1>1. HandlerOK(q) /\ CallOK(q) /\ KemsOK
  BY DEF Inv
<1> QED
  BY <1>1 DEF Makes, HandlerOK, CallOK, KemsOK, Bound

(* Two requests never come to make a KEM key for one binding key.          *)
LEMMA OneMakerStep ==
  ASSUME Inv, Next
  PROVE  OneMaker'
<1> SUFFICES ASSUME NEW q \in Request, NEW r \in Request, NEW b \in BindingKey,
                    Makes(q, b)', Makes(r, b)'
             PROVE  q = r
  BY DEF OneMaker
<1>1. CASE Makes(q, b) /\ Makes(r, b)
  BY <1>1 DEF Inv, OneMaker
<1>2. CASE b \notin Minted
  <2>1. /\ \E life \in Lifespan : GenerateBindingKey(q, b, life)
        /\ \E life \in Lifespan : GenerateBindingKey(r, b, life)
    BY <1>2, NewMakers, MakersMinted
  <2> SUFFICES ASSUME q # r PROVE FALSE
    OBVIOUS
  <2>2. PICK life \in Lifespan : GenerateBindingKey(q, b, life)
    BY <2>1
  <2>3. PICK span \in Lifespan : GenerateBindingKey(r, b, span)
    BY <2>1
  <2>4. TypeOK
    BY DEF Inv
  <2>5. pc[r] = "idle" /\ pc'[r] = "awaitKem"
    BY <2>3, <2>4, Shape DEF GenerateBindingKey, Free, Goto, Shaped
  <2>6. pc'[r] = pc[r]
    BY <2>2, <2>4, Shape DEF GenerateBindingKey, Goto, Shaped
  <2> QED
    BY <2>5, <2>6
<1> QED
  BY <1>1, <1>2, NewMakers, MakersMinted

(* No step binds a second KEM key to a binding key.                        *)
LEMMA OneKemStep ==
  ASSUME Inv, Next
  PROVE  OneKemPerBinding'
<1> SUFFICES ASSUME NEW i \in KemKey, NEW j \in KemKey, NEW b \in BindingKey,
                    Bound(i, b)', Bound(j, b)'
             PROVE  i = j
  BY DEF OneKemPerBinding
<1>1. CASE kemInfo' = kemInfo
  BY <1>1 DEF Inv, OneKemPerBinding, Bound
<1>2. ASSUME NEW r \in Request, NEW k \in KemKey, KpsGenerate(r, k) PROVE i = j
  <2>1. TypeOK /\ CallOK(r) /\ OneKemPerBinding /\ rpc[r].method = "generate"
    BY <1>2 DEF Inv, KpsGenerate
  <2>2. \A l \in KemKey : ~Bound(l, rpc[r].binding)
    BY <2>1 DEF CallOK
  <2>3. /\ kemInfo'[k].binding = rpc[r].binding
        /\ \A l \in KemKey \ {k} : kemInfo'[l] = kemInfo[l]
    BY <1>2, <2>1, MadeKey
  <2> QED
    BY <2>1, <2>2, <2>3 DEF Bound, OneKemPerBinding
<1> QED
  BY <1>1, <1>2, WhoMakes

-----------------------------------------------------------------------------
(* Times are natural numbers.                                              *)
LEMMA Times ==
  ASSUME TypeOK
  PROVE  /\ now \in Nat
         /\ \A b \in Minted : bindingExpiry[b] \in Nat
         /\ \A k \in KemKey : kemInfo[k] # None =>
              /\ kemInfo[k] \in KemInfo /\ kemInfo[k].binding \in BindingKey
              /\ kemInfo[k].expiry \in Nat /\ kemInfo[k].boot \in Nat
         /\ boot \in Nat /\ token \in Nat /\ cachedToken \in Nat
<1>1. now \in Nat /\ \A b \in Minted : bindingExpiry[b] \in Nat
  BY SMT, KeyProtectionAssumption DEF TypeOK, Minted
<1>2. ASSUME NEW k \in KemKey, kemInfo[k] # None
      PROVE  /\ kemInfo[k] \in KemInfo /\ kemInfo[k].binding \in BindingKey
             /\ kemInfo[k].expiry \in Nat /\ kemInfo[k].boot \in Nat
  <2>1. kemInfo[k] \in KemInfo
    BY <1>2 DEF TypeOK
  <2>2. kemInfo[k].binding \in BindingKey /\ kemInfo[k].expiry \in Nat
    BY <2>1 DEF KemInfo
  <2>3. kemInfo[k].boot \in 1..MaxBoot
    BY <2>1 DEF KemInfo
  <2> QED
    BY SMT, <2>1, <2>2, <2>3, HeartbeatAssumption
<1>3. boot \in Nat /\ token \in Nat /\ cachedToken \in Nat
  BY SMT, HeartbeatAssumption DEF TypeOK, HeartbeatTypeOK
<1> QED
  BY <1>1, <1>2, <1>3

(* The same of the clock and the boot counter after a step.                *)
LEMMA TimesNext ==
  ASSUME TypeOK'
  PROVE  now' \in Nat /\ boot' \in Nat
BY SMT, KeyProtectionAssumption, HeartbeatAssumption DEF TypeOK, HeartbeatTypeOK

(* What a step does to the WSD's registry.                                 *)
LEMMA BindingsStep ==
  ASSUME Inv, Next
  PROVE  BindingsOK'
<1>0. /\ TypeOK /\ TypeOK' /\ Grows /\ BindingsOK
      /\ now \in Nat /\ now' \in Nat
  BY TypeStep, StepGrows, Times, TimesNext DEF Inv
<1>1. CASE /\ bindingExpiry' = bindingExpiry /\ bindings' \subseteq bindings
           /\ \A b \in bindings \ bindings' : b \in disowned' \/ bindingExpiry[b] <= now
  <2>1. Minted' = Minted /\ \A b \in Minted : bindingExpiry[b] \in Nat
    BY <1>0, <1>1, Times DEF Minted
  <2>2. ASSUME NEW b \in Minted, b \notin disowned', bindingExpiry[b] > now'
        PROVE  b \in bindings'
    <3>1. b \notin disowned /\ bindingExpiry[b] > now
      BY SMT, <1>0, <2>1, <2>2 DEF Grows
    <3> QED
      BY SMT, <1>0, <1>1, <2>1, <2>2, <3>1 DEF BindingsOK
  <2> QED
    BY <1>0, <1>1, <2>1, <2>2 DEF BindingsOK
<1>2. ASSUME NEW r \in Request, NewRequest(r) PROVE BindingsOK'
  <2>1. ASSUME NEW b \in BindingKey, NEW life \in Lifespan, GenerateBindingKey(r, b, life)
        PROVE  BindingsOK'
    <3>1. /\ bindings' = bindings \cup {b} /\ now' = now /\ disowned' = disowned
          /\ bindingExpiry'[b] = now + life
          /\ \A c \in BindingKey \ {b} : bindingExpiry'[c] = bindingExpiry[c]
      BY <1>0, <2>1, Shape DEF GenerateBindingKey, Shaped, history
    <3>2. bindingExpiry'[b] # None
      BY SMT, <1>0, <3>1, Constants
    <3> QED
      BY <1>0, <3>1, <3>2 DEF BindingsOK, Minted
  <2>2. ASSUME NEW k \in KemKey, DecapLookup(r, k) \/ DestroyLookup(r, k) PROVE BindingsOK'
    BY <1>1, <2>2 DEF DecapLookup, DestroyLookup, registries
  <2> QED
    BY <1>2, <2>1, <2>2 DEF NewRequest
<1>3. ASSUME NEW r \in Request, HandlerStep(r) \/ KpsStep(r) \/ RpcLost(r) PROVE BindingsOK'
  <2>1. CASE DestroyBinding(r)
    <3>1. bindingOf[r] \in disowned
      BY <2>1 DEF DestroyBinding, Inv, HandlerOK, Destroying
    <3>2. bindings' = bindings \ {bindingOf[r]} /\ bindingExpiry' = bindingExpiry
      BY <2>1 DEF DestroyBinding
    <3> QED
      BY <1>0, <1>1, <3>1, <3>2 DEF Grows
  <2>2. CASE ~DestroyBinding(r)
    <3>1. bindings' = bindings /\ bindingExpiry' = bindingExpiry
      BY <1>3, <2>2
      DEF HandlerStep, RpcReturns, RpcFails, Resume, StoreMapping, OpenGetKey, OpenSucceeds,
          OpenFails, Unmap, KpsStep, KpsGenerate, KpsGenerateFails, KpsDecapAndSeal,
          KpsDestroy, Answer, RpcLost, registries
    <3> QED
      BY <1>1, <3>1
  <2> QED
    BY <2>1, <2>2
<1>4. CASE HeartbeatStep \/ WsdRestart
  <2>1. CASE CleanupState \/ WsdRestart
    <3>1. bindings' = {} /\ disowned' = disowned \cup Minted /\ bindingExpiry' = bindingExpiry
      BY <2>1 DEF CleanupState, WsdRestart
    <3> QED
      BY <1>0, <1>1, <3>1 DEF BindingsOK
  <2>2. CASE UNCHANGED registries
    BY <1>1, <2>2 DEF registries
  <2> QED
    BY <1>4, <2>1, <2>2 DEF HeartbeatStep
<1>5. CASE ReapBindings
  <2>1. PICK t \in 0..now : /\ bindings' = {b \in bindings : bindingExpiry[b] > t}
                            /\ bindingExpiry' = bindingExpiry
    BY <1>5 DEF ReapBindings
  <2>2. \A b \in bindings \ bindings' : bindingExpiry[b] <= now
    BY SMT, <1>0, <2>1, Times DEF BindingsOK
  <2> QED
    BY <1>1, <2>1, <2>2
<1>6. CASE ReapKems \/ Tick \/ KpsEnvironment
  BY <1>1, <1>6 DEF ReapKems, Tick, KpsEnvironment, registries
<1> QED
  BY <1>2, <1>3, <1>4, <1>5, <1>6 DEF Next

(* What a step does to the KPS's registry.                                 *)
LEMMA KemsStep ==
  ASSUME Inv, Next
  PROVE  KemsOK'
<1>0. /\ TypeOK /\ TypeOK' /\ Grows /\ KemsOK
      /\ now \in Nat /\ now' \in Nat /\ boot \in Nat /\ boot' \in Nat
  BY TypeStep, StepGrows, Times, TimesNext DEF Inv
<1>1. CASE /\ kemInfo' = kemInfo /\ kems' \subseteq kems /\ boot' >= boot
           /\ up' /\ boot' = boot => up
           /\ \A k \in kems \ kems' :
                \/ kemInfo[k].binding \in disowned
                \/ kemInfo[k].expiry <= now
                \/ ~up'
  <2>1. ASSUME NEW k \in KemKey, kemInfo[k] # None
        PROVE  /\ kemInfo[k].binding \in Minted'
               /\ kemInfo[k].boot <= boot'
               /\ bindingExpiry'[kemInfo[k].binding] <= kemInfo[k].expiry
    <3>1. /\ kemInfo[k].binding \in Minted /\ kemInfo[k].boot <= boot
          /\ bindingExpiry[kemInfo[k].binding] <= kemInfo[k].expiry
          /\ kemInfo[k].boot \in Nat
      BY <1>0, <2>1, Times DEF KemsOK
    <3>2. bindingExpiry'[kemInfo[k].binding] = bindingExpiry[kemInfo[k].binding]
      BY <1>0, <3>1 DEF Grows
    <3> QED
      BY SMT, <1>0, <1>1, <3>1, <3>2 DEF Minted
  <2>2. ASSUME NEW k \in KemKey, kemInfo[k] # None, kemInfo[k].binding \notin disowned',
               kemInfo[k].expiry > now', up', kemInfo[k].boot = boot'
        PROVE  k \in kems'
    <3>1. /\ kemInfo[k].binding \notin disowned /\ kemInfo[k].expiry > now
      BY SMT, <1>0, <2>2, Times DEF Grows
    <3>2. kemInfo[k].boot <= boot
      BY <1>0, <2>2 DEF KemsOK
    <3>3. boot' = boot /\ up
      BY SMT, <1>0, <1>1, <2>2, <3>2
    <3>4. k \in kems
      BY <1>0, <2>2, <3>1, <3>3 DEF KemsOK
    <3>5. ~(kemInfo[k].expiry <= now)
      BY SMT, <1>0, <2>2, <3>1, Times
    <3> QED
      BY <1>1, <2>2, <3>1, <3>4, <3>5
  <2> QED
    BY <1>0, <1>1, <2>1, <2>2 DEF KemsOK
<1>2. ASSUME NEW r \in Request, NEW k \in KemKey, KpsGenerate(r, k) PROVE KemsOK'
  <2>1. CallOK(r) /\ rpc[r].method = "generate"
    BY <1>2 DEF Inv, KpsGenerate
  <2>2. /\ kems' = kems \cup {k}
        /\ UNCHANGED <<up, boot, now, bindingExpiry, disowned>>
    BY <1>2 DEF KpsGenerate, Answer, hbVars, history
  <2>3. /\ kemInfo'[k] # None /\ kemInfo'[k].binding \in Minted
        /\ kemInfo'[k].boot = boot
        /\ kemInfo'[k].expiry = now + rpc[r].life
        /\ bindingExpiry[kemInfo'[k].binding] <= now + rpc[r].life
        /\ \A j \in KemKey \ {k} : kemInfo'[j] = kemInfo[j]
    BY <1>0, <1>2, <2>1, MadeKey DEF CallOK
  <2>4. ASSUME NEW j \in KemKey, kemInfo'[j] # None
        PROVE  /\ kemInfo'[j].binding \in Minted'
               /\ kemInfo'[j].boot <= boot'
               /\ bindingExpiry'[kemInfo'[j].binding] <= kemInfo'[j].expiry
               /\ (/\ kemInfo'[j].binding \notin disowned'
                   /\ kemInfo'[j].expiry > now'
                   /\ up' /\ kemInfo'[j].boot = boot') => j \in kems'
    <3>1. CASE j = k
      BY SMT, <1>0, <2>2, <2>3, <3>1 DEF Minted
    <3>2. CASE j # k
      BY <1>0, <2>2, <2>3, <2>4, <3>2 DEF KemsOK, Minted
    <3> QED
      BY <3>1, <3>2
  <2>5. \A j \in kems' : kemInfo'[j] # None
    BY <1>0, <2>2, <2>3 DEF KemsOK, TypeOK
  <2> QED
    BY <2>4, <2>5 DEF KemsOK
<1>3. ASSUME NEW r \in Request, KpsDestroy(r) PROVE KemsOK'
  <2>1. kemInfo[rpc[r].kem].binding \in disowned
    BY <1>3 DEF KpsDestroy, Inv, CallOK
  <2>2. /\ kems' = kems \ {rpc[r].kem} /\ kemInfo' = kemInfo
        /\ up' = up /\ boot' = boot
    BY <1>3 DEF KpsDestroy, Answer, hbVars
  <2> QED
    BY SMT, <1>0, <1>1, <2>1, <2>2
<1>4. CASE ReapKems
  <2>1. PICK t \in 0..now : /\ kems' = {k \in kems : kemInfo[k].expiry > t}
                            /\ kemInfo' = kemInfo /\ up' = up /\ boot' = boot
    BY <1>4 DEF ReapKems, hbVars
  <2>2. \A k \in kems \ kems' : kemInfo[k].expiry <= now
    BY SMT, <1>0, <2>1, Times DEF KemsOK, TypeOK
  <2> QED
    BY SMT, <1>0, <1>1, <2>1, <2>2
<1>5. CASE KpsEnvironment
  <2>1. CASE HeartbeatAnswer /\ UNCHANGED kems
    BY SMT, <1>0, <1>1, <1>5, <2>1 DEF KpsEnvironment, HeartbeatAnswer
  <2>2. CASE KpsCrash /\ kems' = {}
    <3>1. kemInfo' = kemInfo /\ boot' = boot /\ up /\ ~up'
      BY <1>5, <2>2 DEF KpsEnvironment, KpsCrash
    <3> QED
      BY SMT, <1>0, <1>1, <2>2, <3>1
  <2>3. CASE KpsStart /\ UNCHANGED kems
    <3>1. kemInfo' = kemInfo /\ boot' = boot + 1
      BY <1>5, <2>3 DEF KpsEnvironment, KpsStart
    <3> QED
      BY SMT, <1>0, <1>1, <2>3, <3>1
  <2> QED
    BY <1>5, <2>1, <2>2, <2>3 DEF KpsEnvironment
<1>6. CASE UNCHANGED <<kems, kemInfo, up, boot>>
  BY SMT, <1>0, <1>1, <1>6
<1>7. ASSUME NEW r \in Request, RequestStep(r), ~KpsDestroy(r),
             \A k \in KemKey : ~KpsGenerate(r, k)
      PROVE  UNCHANGED <<kems, kemInfo, up, boot>>
  BY <1>7 DEF RequestStep, NewRequest, GenerateBindingKey, DecapLookup, DestroyLookup,
     HandlerStep, RpcReturns, RpcFails, Resume, StoreMapping, OpenGetKey,
     OpenSucceeds, OpenFails, DestroyBinding, Unmap, KpsStep, KpsGenerateFails,
     KpsDecapAndSeal, Answer, RpcLost, hbVars, registries
<1>8. CASE HeartbeatStep \/ ReapBindings \/ Tick \/ WsdRestart
  BY <1>6, <1>8 DEF HeartbeatStep, HeartbeatTick, HeartbeatFailure, HeartbeatSuccess,
     BackoffRetry, TokenMismatch, BackoffExhausted, CleanupState, ReapBindings, Tick,
     WsdRestart, hbVars, registries
<1> QED
  BY <1>2, <1>3, <1>4, <1>5, <1>6, <1>7, <1>8 DEF Next, RequestStep

-----------------------------------------------------------------------------
(* The map is written by four steps only.                                  *)
LEMMA WhoMaps ==
  ASSUME Next
  PROVE  \/ UNCHANGED <<kemToBindingMap, acked, destroyed>>
         \/ \E r \in Request : StoreMapping(r) \/ Unmap(r)
         \/ /\ kemToBindingMap' = [k \in KemKey |-> None]
            /\ disowned' = disowned \cup Minted
            /\ UNCHANGED <<acked, destroyed>>
<1> USE DEF history
<1>1. ASSUME NEW r \in Request, RequestStep(r), ~StoreMapping(r), ~Unmap(r)
      PROVE  UNCHANGED <<kemToBindingMap, acked, destroyed>>
  BY <1>1 DEF RequestStep, NewRequest, GenerateBindingKey, DecapLookup, DestroyLookup,
     HandlerStep, RpcReturns, RpcFails, Resume, OpenGetKey, OpenSucceeds, OpenFails,
     DestroyBinding, KpsStep, KpsGenerate, KpsGenerateFails, KpsDecapAndSeal, KpsDestroy,
     Answer, RpcLost
<1>2. CASE HeartbeatStep
  BY <1>2 DEF HeartbeatStep, CleanupState
<1>3. CASE ReapBindings \/ ReapKems \/ Tick \/ KpsEnvironment
  BY <1>3 DEF ReapBindings, ReapKems, Tick, KpsEnvironment
<1>4. CASE WsdRestart
  BY <1>4 DEF WsdRestart
<1> QED
  BY <1>1, <1>2, <1>3, <1>4 DEF Next, RequestStep

(* No step maps a key to a binding key that is not its own, and none but a *)
(* destroy, a cleanup or a restart of the WSD unmaps one.                  *)
LEMMA MapStep ==
  ASSUME Inv, Next
  PROVE  MapOK'
<1>0. TypeOK /\ Grows /\ MapOK /\ KemsOK /\ acked \subseteq KemKey
  BY StepGrows DEF Inv, TypeOK
<1>1. \A k \in acked : kemInfo[k] # None /\ kemInfo'[k] = kemInfo[k]
  BY <1>0 DEF MapOK, Grows
<1>2. CASE UNCHANGED <<kemToBindingMap, acked, destroyed>>
  BY <1>0, <1>1, <1>2 DEF MapOK, Bound, Grows
<1>3. ASSUME NEW r \in Request, StoreMapping(r) PROVE MapOK'
  <2>1. kemOf[r] \in KemKey /\ Bound(kemOf[r], bindingOf[r])
    BY <1>3 DEF StoreMapping, Inv, HandlerOK
  <2>2. /\ acked' = acked \cup {kemOf[r]} /\ kemInfo' = kemInfo /\ disowned' = disowned
        /\ kemToBindingMap'[kemOf[r]] = bindingOf[r]
        /\ \A k \in KemKey \ {kemOf[r]} : kemToBindingMap'[k] = kemToBindingMap[k]
    BY <1>0, <1>3, <2>1, Shape DEF StoreMapping, Shaped, registries
  <2> QED
    BY <1>0, <2>1, <2>2 DEF MapOK, Bound
<1>4. ASSUME NEW r \in Request, Unmap(r) PROVE MapOK'
  <2>1. /\ kemOf[r] \in acked /\ Bound(kemOf[r], bindingOf[r]) /\ bindingOf[r] \in disowned
    BY <1>4 DEF Unmap, Inv, HandlerOK, Using, Destroying
  <2>2. /\ acked' = acked /\ kemInfo' = kemInfo /\ disowned' = disowned
        /\ kemToBindingMap'[kemOf[r]] = None
        /\ \A k \in KemKey \ {kemOf[r]} : kemToBindingMap'[k] = kemToBindingMap[k]
    BY <1>0, <1>4, <2>1, Shape DEF Unmap, Shaped, registries
  <2> QED
    BY <1>0, <2>1, <2>2 DEF MapOK, Bound
<1>5. CASE /\ kemToBindingMap' = [k \in KemKey |-> None]
           /\ disowned' = disowned \cup Minted
           /\ UNCHANGED <<acked, destroyed>>
  BY <1>0, <1>1, <1>5 DEF MapOK, KemsOK
<1> QED
  BY <1>2, <1>3, <1>4, <1>5, WhoMaps

(* A key that can be opened after a step could be opened before it, unless *)
(* the step made it.                                                       *)
LEMMA OpenableBefore ==
  ASSUME Inv, Next, NEW k \in KemKey, Openable(k)', kemInfo[k] # None
  PROVE  Openable(k) /\ kemInfo'[k] = kemInfo[k]
<1>1. Grows /\ KemsOK
  BY StepGrows DEF Inv
<1> QED
  BY <1>1 DEF Openable, Grows, KemsOK

(* A binding key made under a token is gone before a later token is        *)
(* cached.                                                                 *)
LEMMA TokensStep ==
  ASSUME Inv, Next
  PROVE  TokensOK'
<1>0. /\ TypeOK /\ TypeOK' /\ TokensOK /\ KemsOK
      /\ boot \in Nat /\ token \in Nat /\ cachedToken \in Nat
  BY TypeStep, Times DEF Inv
<1>1. CASE /\ UNCHANGED <<boot, token, cachedToken>>
           /\ \A k \in KemKey : Openable(k)' => kemInfo[k] # None
  <2>1. ASSUME NEW k \in KemKey, Openable(k)', kemInfo'[k].watched
        PROVE  cachedToken # 0 /\ cachedToken <= kemInfo'[k].boot
    BY <1>0, <1>1, <2>1, OpenableBefore DEF TokensOK
  <2> QED
    BY <1>0, <1>1, <2>1 DEF TokensOK
<1>2. ASSUME NEW r \in Request, NEW k \in KemKey, KpsGenerate(r, k) PROVE TokensOK'
  <2>1. UNCHANGED <<boot, token, cachedToken>>
    BY <1>2 DEF KpsGenerate, Answer, hbVars
  <2>2. /\ kemInfo'[k].boot = boot /\ kemInfo'[k].watched = (cachedToken # 0)
        /\ \A j \in KemKey \ {k} : kemInfo'[j] = kemInfo[j]
    BY <1>0, <1>2, MadeKey DEF Inv
  <2>3. ASSUME NEW j \in KemKey, Openable(j)', kemInfo'[j].watched
        PROVE  cachedToken # 0 /\ cachedToken <= kemInfo'[j].boot
    <3>1. CASE j = k
      BY <1>0, <2>2, <2>3, <3>1 DEF TokensOK
    <3>2. CASE j # k
      <4>1. kemInfo[j] # None
        BY <2>2, <2>3, <3>2 DEF Openable
      <4> QED
        BY <1>0, <2>3, <4>1, OpenableBefore DEF TokensOK
    <3> QED
      BY <3>1, <3>2
  <2> QED
    BY <1>0, <2>1, <2>3 DEF TokensOK
<1>3. CASE kemInfo' = kemInfo /\ UNCHANGED <<boot, token, cachedToken>>
  BY <1>1, <1>3 DEF Openable
<1>4. CASE bindings' = {} /\ token' <= boot' /\ cachedToken' <= boot'
  BY <1>4 DEF TokensOK, Openable
<1>5. CASE HeartbeatStep
  <2>1. CASE HeartbeatTick \/ HeartbeatFailure \/ BackoffRetry
    <3>1. /\ boot' = boot /\ cachedToken' = cachedToken /\ token' \in {0, token}
          /\ UNCHANGED <<kemInfo, bindings>>
      BY <1>5, <2>1 DEF HeartbeatStep, HeartbeatTick, HeartbeatFailure, BackoffRetry,
         TokenMismatch, BackoffExhausted, registries, CleanupState
    <3> QED
      BY SMT, <1>0, <3>1 DEF TokensOK, Openable
  <2>2. CASE HeartbeatSuccess /\ UNCHANGED registries
    <3>1. /\ boot' = boot /\ token' = 0 /\ cachedToken' = token
          /\ cachedToken \in {0, token} /\ UNCHANGED <<kemInfo, bindings>>
      BY <2>2 DEF HeartbeatSuccess, registries
    <3> QED
      BY SMT, <1>0, <3>1 DEF TokensOK, Openable
  <2>3. CASE (TokenMismatch \/ BackoffExhausted) /\ CleanupState
    <3>1. /\ boot' = boot /\ token' \in {0, token} /\ cachedToken' \in {token, cachedToken}
          /\ bindings' = {}
      BY <2>3 DEF TokenMismatch, BackoffExhausted, CleanupState
    <3> QED
      BY SMT, <1>0, <1>4, <3>1 DEF TokensOK
  <2> QED
    BY <1>5, <2>1, <2>2, <2>3 DEF HeartbeatStep
<1>6. CASE KpsEnvironment
  <2>1. /\ boot' \in {boot, boot + 1} /\ token' \in {token, boot}
        /\ UNCHANGED <<cachedToken, kemInfo, bindings>>
    BY <1>6 DEF KpsEnvironment, HeartbeatAnswer, KpsCrash, KpsStart, hbState
  <2> QED
    BY SMT, <1>0, <2>1 DEF TokensOK, Openable
<1>7. CASE WsdRestart
  BY SMT, <1>0, <1>4, <1>7 DEF WsdRestart, TokensOK
<1>8. CASE ReapBindings \/ ReapKems \/ Tick
  BY <1>3, <1>8 DEF ReapBindings, ReapKems, Tick, hbVars, registries
<1>9. ASSUME NEW r \in Request, RequestStep(r), kemInfo' = kemInfo
      PROVE  UNCHANGED <<boot, token, cachedToken>>
  BY <1>9 DEF RequestStep, NewRequest, GenerateBindingKey, DecapLookup, DestroyLookup,
     HandlerStep, RpcReturns, RpcFails, Resume, StoreMapping, OpenGetKey,
     OpenSucceeds, OpenFails, DestroyBinding, Unmap, KpsStep, KpsGenerate,
     KpsGenerateFails, KpsDecapAndSeal, KpsDestroy, Answer, RpcLost, hbVars
<1> QED
  BY <1>2, <1>3, <1>5, <1>6, <1>7, <1>8, <1>9, WhoMakes DEF Next, RequestStep

(* What a destroy left behind, nothing, is what every later step leaves.   *)
LEMMA DestroyedStep ==
  ASSUME Inv, Next
  PROVE  DestroyedOK'
<1>0. /\ TypeOK /\ Grows /\ MapOK /\ KemsOK /\ DestroyedOK /\ acked \subseteq KemKey
      /\ acked \subseteq acked'
  BY StepGrows DEF Inv, TypeOK, Grows
(* What was destroyed before the step: both keys stay away.                *)
<1>1. ASSUME NEW k \in destroyed
      PROVE  k \in acked /\ k \notin kems' /\ ~Openable(k)'
  <2>1. k \in acked /\ k \in KemKey /\ kemInfo[k] # None /\ k \notin kems /\ ~Openable(k)
    BY <1>0 DEF DestroyedOK, DestroyIsFinal, MapOK
  <2> QED
    BY <1>0, <2>1, OpenableBefore DEF Grows
<1>2. CASE UNCHANGED <<kemToBindingMap, acked, destroyed>>
  BY <1>0, <1>1, <1>2 DEF DestroyedOK, DestroyIsFinal
<1>3. ASSUME NEW r \in Request, StoreMapping(r) PROVE DestroyedOK'
  <2>1. kemOf[r] \in KemKey \ acked
    BY <1>3 DEF StoreMapping, Inv, HandlerOK
  <2>2. /\ destroyed' = destroyed
        /\ \A k \in KemKey \ {kemOf[r]} : kemToBindingMap'[k] = kemToBindingMap[k]
    BY <1>0, <1>3, <2>1, Shape DEF StoreMapping, Shaped
  <2> QED
    BY <1>0, <1>1, <2>1, <2>2 DEF DestroyedOK, DestroyIsFinal
<1>4. ASSUME NEW r \in Request, Unmap(r) PROVE DestroyedOK'
  <2>1. HandlerOK(r) /\ pc[r] = "unmap"
    BY <1>4 DEF Unmap, Inv
  <2>2. /\ kemOf[r] \in acked /\ kemOf[r] \in KemKey
        /\ bindingOf[r] \notin bindings /\ Bound(kemOf[r], bindingOf[r])
    BY <1>0, <2>1 DEF HandlerOK, Using, Destroying
  <2>3. /\ acked' = acked /\ UNCHANGED registries
        /\ kemToBindingMap'[kemOf[r]] = None
        /\ \A k \in KemKey \ {kemOf[r]} : kemToBindingMap'[k] = kemToBindingMap[k]
    BY <1>0, <1>4, <2>2, Shape DEF Unmap, Shaped
  <2>4. CASE destroyed' = destroyed
    BY <1>0, <1>1, <2>3, <2>4 DEF DestroyedOK, DestroyIsFinal
  <2>5. CASE Response("destroy", errs[r]) = 204
    <3>1. kemOf[r] \notin kems
      BY SMT, <2>1, <2>5, StatusTables DEF HandlerOK
    <3>2. \A k \in KemKey : k = kemOf[r] => k \notin kems' /\ ~Openable(k)'
      BY <2>2, <2>3, <3>1 DEF registries, Openable, Bound
    <3>3. destroyed' = destroyed \cup {kemOf[r]}
      BY <1>4, <2>5 DEF Unmap
    <3> QED
      BY <1>0, <1>1, <2>2, <2>3, <3>2, <3>3 DEF DestroyedOK, DestroyIsFinal
  <2> QED
    BY <1>4, <2>4, <2>5 DEF Unmap
<1>5. CASE /\ kemToBindingMap' = [k \in KemKey |-> None]
           /\ UNCHANGED <<acked, destroyed>>
  BY <1>0, <1>1, <1>5 DEF DestroyedOK, DestroyIsFinal
<1> QED
  BY <1>2, <1>3, <1>4, <1>5, WhoMaps

-----------------------------------------------------------------------------
(* The state NewServer starts from is consistent.                          *)
LEMMA InitInv ==
  ASSUME Init
  PROVE  Inv
<1> USE Constants DEF Init, KpsInit, HeartbeatInit
<1>1. TypeOK
  <2>1. HeartbeatTypeOK
    BY SMT, HeartbeatAssumption DEF HeartbeatTypeOK
  <2>2. /\ now \in 0..Horizon
        /\ bindings \subseteq BindingKey /\ kems \subseteq KemKey
        /\ acked \subseteq KemKey /\ destroyed \subseteq KemKey
        /\ disowned \subseteq BindingKey
    BY SMT, KeyProtectionAssumption
  <2>3. /\ bindingExpiry \in [BindingKey -> Nat \cup {None}]
        /\ kemInfo \in [KemKey -> KemInfo \cup {None}]
        /\ kemToBindingMap \in [KemKey -> BindingKey \cup {None}]
        /\ pc \in [Request -> Waiting \cup {"idle", "store", "open", "opening",
                                            "destroyBinding", "unmap"}]
        /\ kemOf \in [Request -> KemKey \cup {None}]
        /\ bindingOf \in [Request -> BindingKey \cup {None}]
        /\ sealedTo \in [Request -> BindingKey \cup {None}]
        /\ errs \in [Request -> SUBSET (Error \cup {"SUCCESS"})]
    OBVIOUS
  <2>4. NoRpc \in RpcType
    BY DEF NoRpc, Rpc, RpcType
  <2>5. rpc \in [Request -> RpcType]
    BY <2>4
  <2> QED
    BY <2>1, <2>2, <2>3, <2>5 DEF TypeOK, RpcType
<1>2. \A r \in Request : pc[r] = "idle" /\ rpc[r].method = "none"
  <2>1. NoRpc.method = "none"
    BY DEF NoRpc, Rpc
  <2> QED
    BY <2>1
<1>3. \A r \in Request : HandlerOK(r) /\ CallOK(r) /\ AnswerOK(r)
  BY <1>2 DEF HandlerOK, CallOK, AnswerOK, Using, Destroying
<1>4. OneMaker
  BY <1>2 DEF OneMaker, Makes
<1>5. Minted = {}
  BY DEF Minted
<1>6. OneKemPerBinding /\ BindingsOK /\ KemsOK /\ MapOK /\ DestroyedOK
  BY <1>5
  DEF OneKemPerBinding, Bound, BindingsOK, KemsOK, MapOK, DestroyedOK, DestroyIsFinal
<1>7. TokensOK
  BY SMT DEF TokensOK, Openable
<1> QED
  BY <1>1, <1>3, <1>4, <1>6, <1>7 DEF Inv

(* Every step keeps the inductive invariant.                               *)
LEMMA InvStep ==
  ASSUME Inv, [Next]_vars
  PROVE  Inv'
<1>1. CASE Next
  <2>1. TypeOK'
    BY TypeStep
  <2>2. \A r \in Request : HandlerOK(r)' /\ CallOK(r)' /\ AnswerOK(r)'
    BY <1>1, RequestsConsistent DEF RequestOK
  <2> QED
    BY <1>1, <2>1, <2>2, OneMakerStep, OneKemStep, BindingsStep, KemsStep, MapStep,
       TokensStep, DestroyedStep DEF Inv
<1>2. CASE UNCHANGED vars
  <2> USE <1>2 DEF vars, hbVars, registries, locals, history
  <2>1. TypeOK'
    BY DEF Inv, TypeOK, HeartbeatTypeOK
  <2>2. \A r \in Request : HandlerOK(r)' /\ CallOK(r)' /\ AnswerOK(r)'
    <3>1. ASSUME NEW r \in Request PROVE HandlerOK(r)'
      BY DEF Inv, HandlerOK, Bound, Minted
    <3>2. ASSUME NEW r \in Request PROVE CallOK(r)'
      BY DEF Inv, CallOK, Bound, Minted
    <3>3. ASSUME NEW r \in Request PROVE AnswerOK(r)'
      BY DEF Inv, AnswerOK, Bound
    <3> QED
      BY <3>1, <3>2, <3>3
  <2>3. OneMaker' /\ OneKemPerBinding'
    BY DEF Inv, OneMaker, Makes, OneKemPerBinding, Bound
  <2>4. BindingsOK' /\ KemsOK' /\ MapOK'
    BY DEF Inv, BindingsOK, KemsOK, MapOK, Bound, Minted
  <2>5. TokensOK' /\ DestroyedOK'
    BY DEF Inv, TokensOK, Openable, DestroyedOK, DestroyIsFinal
  <2> QED
    BY <2>1, <2>2, <2>3, <2>4, <2>5 DEF Inv
<1> QED
  BY <1>1, <1>2

(* Inv is an invariant.                                                    *)
LEMMA Invariance == Spec => []Inv
BY InitInv, InvStep, PTL DEF Spec

(* Every variable keeps its type, for any number of requests, keys and     *)
(* restarts: in particular the doubling backoff stays under maxBackoff.    *)
THEOREM TypeCorrect == Spec => []TypeOK
<1>1. Inv => TypeOK
  BY DEF Inv
<1> QED
  BY <1>1, Invariance, PTL

(* The binding key handleDecaps looked up is the one the KPS sealed to.    *)
THEOREM SealedForItsOpener == Spec => []SealedForOpener
<1>1. Inv => SealedForOpener
  BY DEF Inv, HandlerOK, SealedForOpener
<1> QED
  BY <1>1, Invariance, PTL

(* A key announced by generateKEMKey stays mapped and in both custody      *)
(* cores until it expires, its KPS stops, or the WSD gives it up.          *)
THEOREM AnnouncedKeyUsable == Spec => []AckedKeyUsable
<1>1. ASSUME Inv PROVE AckedKeyUsable
  <2> SUFFICES ASSUME NEW k \in acked,
                      kemInfo[k].binding \notin disowned,
                      bindingExpiry[kemInfo[k].binding] > now,
                      up, kemInfo[k].boot = boot
               PROVE  /\ kemToBindingMap[k] = kemInfo[k].binding
                      /\ LiveBinding(kemInfo[k].binding) /\ LiveKem(k)
    BY DEF AckedKeyUsable, Usable
  <2>1. TypeOK /\ MapOK /\ KemsOK /\ BindingsOK /\ k \in KemKey /\ kemInfo[k] # None
    BY <1>1 DEF Inv, TypeOK, MapOK
  <2>2. /\ kemInfo[k].binding \in Minted
        /\ bindingExpiry[kemInfo[k].binding] <= kemInfo[k].expiry
    BY <2>1 DEF KemsOK
  <2>3. /\ now \in Nat /\ bindingExpiry[kemInfo[k].binding] \in Nat
        /\ kemInfo[k].expiry \in Nat
    BY <2>1, <2>2, Times
  <2>4. kemInfo[k].expiry > now
    BY SMT, <2>2, <2>3
  <2>5. k \in kems
    BY <2>1, <2>4 DEF KemsOK
  <2>6. kemInfo[k].binding \in bindings
    BY <2>1, <2>2 DEF BindingsOK
  <2> QED
    BY <2>1, <2>4, <2>5, <2>6 DEF MapOK, LiveBinding, LiveKem
<1> QED
  BY <1>1, Invariance, PTL

(* No binding key outlives the boot of the KPS that made its KEM key, once *)
(* performHeartbeat has cached a later token.                              *)
THEOREM NoStaleBinding == Spec => []StaleBindingsPurged
<1>1. ASSUME Inv PROVE StaleBindingsPurged
  <2>1. /\ TokensOK /\ cachedToken \in Nat
        /\ \A k \in KemKey : kemInfo[k] # None => kemInfo[k].boot \in Nat
    BY <1>1, Times DEF Inv
  <2> QED
    BY <2>1 DEF TokensOK, StaleBindingsPurged, Openable
<1> QED
  BY <1>1, Invariance, PTL

(* A destroy answered 204 is final: late calls bring nothing back.         *)
THEOREM DestroyedForGood == Spec => []DestroyIsFinal
<1>1. Inv => DestroyIsFinal
  BY DEF Inv, DestroyedOK
<1> QED
  BY <1>1, Invariance, PTL

(* A binding key is bound to one KEM key at most: what is sealed to it, or *)
(* destroyed with it, belongs to that key.                                 *)
THEOREM BindingNotShared == Spec => []OneKemPerBinding
<1>1. Inv => OneKemPerBinding
  BY DEF Inv
<1> QED
  BY <1>1, Invariance, PTL

(* After the 204 of a destroy no overlapping decap gets hold of the key.   *)
THEOREM NoOpenOnceDestroyed == Spec => NoOpenAfterDestroy
<1>1. ASSUME Inv
      PROVE  \A r \in Request : OpenGetKey(r) => kemOf[r] \notin destroyed
  <2> SUFFICES ASSUME NEW r \in Request, OpenGetKey(r), kemOf[r] \in destroyed
               PROVE  FALSE
    OBVIOUS
  <2>1. Bound(kemOf[r], bindingOf[r])
    BY <1>1 DEF OpenGetKey, Inv, HandlerOK, Using
  <2>2. bindingOf[r] \in bindings
    BY DEF OpenGetKey, LiveBinding
  <2> QED
    BY <1>1, <2>1, <2>2 DEF Inv, DestroyedOK, DestroyIsFinal, Openable, Bound
<1> QED
  BY <1>1, Invariance, PTL DEF NoOpenAfterDestroy


-----------------------------------------------------------------------------
(* The lifecycle of a pair.  An entry of the map that an announced key has *)
(* after a step it had before it.                                          *)
LEMMA MappedBefore ==
  ASSUME Inv, Next, NEW k \in acked, kemToBindingMap'[k] # None
  PROVE  kemToBindingMap'[k] = kemToBindingMap[k]
<1>0. TypeOK /\ k \in KemKey
  BY DEF Inv, TypeOK
<1>1. ASSUME NEW r \in Request, StoreMapping(r)
      PROVE  kemToBindingMap'[k] = kemToBindingMap[k]
  <2>1. kemOf[r] # k
    BY <1>1 DEF StoreMapping, Inv, HandlerOK
  <2> QED
    BY <1>0, <1>1, <2>1, Shape DEF StoreMapping, Shaped
<1>2. ASSUME NEW r \in Request, Unmap(r)
      PROVE  kemToBindingMap'[k] = kemToBindingMap[k]
  <2>1. kemOf[r] # k
    BY <1>0, <1>2, Shape DEF Unmap, Shaped
  <2> QED
    BY <1>0, <1>2, <2>1, Shape DEF Unmap, Shaped
<1>3. kemToBindingMap' # [j \in KemKey |-> None]
  BY <1>0
<1> QED
  BY <1>1, <1>2, <1>3, WhoMaps

(* An announced key that can be used after a step could be used before it. *)
LEMMA UsableBefore ==
  ASSUME Inv, Next, NEW k \in acked, Usable(k)'
  PROVE  Usable(k)
<1> DEFINE b == kemInfo[k].binding
<1>1. TypeOK /\ TypeOK' /\ KemsOK /\ MapOK /\ Grows /\ k \in KemKey /\ kemInfo[k] # None
  BY TypeStep, StepGrows DEF Inv, TypeOK, MapOK
<1>2. b \in Minted /\ b \in BindingKey /\ kemInfo'[k] = kemInfo[k]
  BY <1>1, Times DEF KemsOK, Grows
<1>3. /\ kemToBindingMap'[k] = b
      /\ b \in bindings' /\ bindingExpiry'[b] > now'
      /\ k \in kems' /\ kemInfo[k].expiry > now'
  BY <1>2 DEF Usable, LiveBinding, LiveKem
<1>4. kemToBindingMap[k] = b
  BY <1>2, <1>3, MappedBefore, Constants
<1>5. b \in bindings /\ k \in kems /\ bindingExpiry'[b] = bindingExpiry[b] /\ now <= now'
  BY <1>1, <1>2, <1>3 DEF Grows
<1>6. /\ now \in Nat /\ now' \in Nat
      /\ bindingExpiry[b] \in Nat /\ kemInfo[k].expiry \in Nat
  BY <1>1, <1>2, Times, TimesNext
<1>7. bindingExpiry[b] > now
  BY SMT, <1>3, <1>5, <1>6
<1>8. kemInfo[k].expiry > now
  BY SMT, <1>3, <1>5, <1>6
<1> QED
  BY <1>4, <1>5, <1>7, <1>8 DEF Usable, LiveBinding, LiveKem

(* Something of k is left in a registry, in the map or held by an Open.    *)
Left(k) == k \in kems \/ Openable(k) \/ kemToBindingMap[k] # None \/ HeldOpen(k)

(* The phase of a pair, one case at a time.                                *)
LEMMA PhaseIs ==
  ASSUME NEW k \in KemKey
  PROVE  /\ kemInfo[k] = None => PairPhase(k) = "unborn"
         /\ kemInfo[k] # None =>
              /\ k \notin acked => PairPhase(k) = "pending"
              /\ k \in acked =>
                   /\ Usable(k) => PairPhase(k) = "usable"
                   /\ ~Usable(k) /\ Left(k) => PairPhase(k) = "retired"
                   /\ ~Usable(k) /\ ~Left(k) => PairPhase(k) = "erased"
BY DEF PairPhase, Left

(* An Open gets hold of a record only while the registry has the key.      *)
LEMMA HeldBefore ==
  ASSUME Inv, Next, NEW k \in KemKey, HeldOpen(k)'
  PROVE  HeldOpen(k) \/ Openable(k)
<1>0. TypeOK
  BY DEF Inv
<1>1. PICK r \in Request : pc'[r] = "opening" /\ kemOf'[r] = k
  BY DEF HeldOpen
<1>2. CASE pc'[r] = pc[r] /\ kemOf'[r] = kemOf[r]
  BY <1>1, <1>2 DEF HeldOpen
<1>3. CASE OpenGetKey(r)
  <2>1. pc[r] = "open" /\ kemOf'[r] = kemOf[r] /\ bindingOf[r] \in bindings
    BY <1>3 DEF OpenGetKey, LiveBinding, locals
  <2>2. HandlerOK(r)
    BY DEF Inv
  <2>3. Bound(k, bindingOf[r])
    BY <1>1, <2>1, <2>2 DEF HandlerOK, Using
  <2> QED
    BY <2>1, <2>3 DEF Openable, Bound
<1>4. CASE RequestStep(r) /\ ~OpenGetKey(r)
  <2>1. ~NewRequest(r)
    BY <1>0, <1>1, Shape
    DEF NewRequest, GenerateBindingKey, DecapLookup, DestroyLookup, Goto, Shaped
  <2>2. ~RpcReturns(r) /\ ~RpcFails(r)
    BY <1>0, <1>1, Shape DEF RpcReturns, RpcFails, Resume, GenerateReturns, DecapReturns,
                      DestroyReturns, Finish, Goto, Shaped
  <2>3. ~StoreMapping(r) /\ ~OpenSucceeds(r) /\ ~OpenFails(r) /\ ~Unmap(r)
    BY <1>0, <1>1, Shape
    DEF StoreMapping, OpenSucceeds, OpenFails, Unmap, Finish, Goto, Shaped
  <2>4. ~DestroyBinding(r)
    BY <1>0, <1>1, Shape DEF DestroyBinding, Goto, Shaped
  <2>5. KpsStep(r) \/ RpcLost(r)
    BY <1>4, <2>1, <2>2, <2>3, <2>4 DEF RequestStep, HandlerStep
  <2>6. pc' = pc /\ kemOf' = kemOf
    BY <2>5 DEF KpsStep, KpsGenerate, KpsGenerateFails, KpsDecapAndSeal, KpsDestroy,
                Answer, RpcLost, locals
  <2> QED
    BY <1>2, <2>6
<1>5. ASSUME NEW q \in Request, RequestStep(q), q # r
      PROVE  HeldOpen(k) \/ Openable(k)
  BY <1>0, <1>2, <1>5, OthersKeep DEF Keeps
<1>6. CASE HeartbeatStep \/ ReapBindings \/ ReapKems \/ Tick \/ KpsEnvironment
  BY <1>2, <1>6, QuietSteps
<1>7. ~WsdRestart
  BY <1>1 DEF WsdRestart
<1> QED
  BY <1>3, <1>4, <1>5, <1>6, <1>7 DEF Next, RequestStep

(* Nothing of an announced key comes back.                                 *)
LEMMA LeftBefore ==
  ASSUME Inv, Next, NEW k \in acked, Left(k)'
  PROVE  Left(k)
<1>1. KemsOK /\ MapOK /\ Grows /\ k \in KemKey /\ kemInfo[k] # None
  BY StepGrows DEF Inv, TypeOK, MapOK
<1>2. CASE k \in kems'
  BY <1>1, <1>2 DEF Grows, Left
<1>3. CASE Openable(k)'
  BY <1>1, <1>3, OpenableBefore DEF Left
<1>4. CASE kemToBindingMap'[k] # None
  BY <1>4, MappedBefore DEF Left
<1>5. CASE HeldOpen(k)'
  BY <1>1, <1>5, HeldBefore DEF Left
<1> QED
  BY <1>2, <1>3, <1>4, <1>5 DEF Left

(* A key that a step announces was made before, and is in the map.         *)
LEMMA AnnouncedNow ==
  ASSUME Inv, Next, NEW k \in acked', k \notin acked
  PROVE  kemInfo[k] # None /\ kemToBindingMap'[k] # None
<1>1. PICK r \in Request : StoreMapping(r)
  BY WhoMakes
<1>2. k = kemOf[r] /\ k \in KemKey /\ Bound(k, bindingOf[r]) /\ TypeOK
  BY <1>1 DEF StoreMapping, Inv, HandlerOK
<1>3. kemInfo[k] # None /\ bindingOf[r] \in BindingKey
  BY <1>2, Times DEF Bound
<1>4. kemToBindingMap'[k] = bindingOf[r]
  BY <1>1, <1>2, Shape DEF StoreMapping, Shaped
<1> QED
  BY <1>3, <1>4, Constants

(* Every step moves a pair along its lifecycle, or leaves it where it is.  *)
LEMMA PairStep ==
  ASSUME Inv, Inv', Next, NEW k \in KemKey
  PROVE  /\ PairPhase(k)' \in PairLifecycle!Phase
         /\ PairPhase(k)' \in PairLifecycle!Successor(PairPhase(k))
<1> USE DEF PairLifecycle!Phase, PairLifecycle!Successor
<1>1. MapOK /\ MapOK' /\ Grows
  BY StepGrows DEF Inv
<1>2. CASE kemInfo[k] = None
  <2>1. k \notin acked'
    BY <1>1, <1>2, AnnouncedNow DEF MapOK
  <2>2. PairPhase(k)' \in {"unborn", "pending"}
    BY <2>1 DEF PairPhase
  <2>3. PairPhase(k) = "unborn"
    BY <1>2, PhaseIs
  <2> QED
    BY <2>2, <2>3
<1>3. CASE kemInfo[k] # None /\ k \notin acked
  <2>1. kemInfo'[k] # None
    BY <1>1, <1>3 DEF Grows
  <2>2. k \in acked' => Left(k)'
    BY <1>3, AnnouncedNow DEF Left
  <2>3. PairPhase(k)' \in {"pending", "usable", "retired"}
    BY <2>1, <2>2 DEF PairPhase, Left
  <2>4. PairPhase(k) = "pending"
    BY <1>3, PhaseIs
  <2> QED
    BY <2>3, <2>4
<1>4. CASE kemInfo[k] # None /\ k \in acked
  <2>1. kemInfo'[k] # None /\ k \in acked'
    BY <1>1, <1>4 DEF Grows
  <2>2. PairPhase(k)' \in {"usable", "retired", "erased"}
    BY <2>1 DEF PairPhase
  <2>3. CASE Usable(k)
    BY <1>4, <2>2, <2>3, PhaseIs
  <2>4. CASE ~Usable(k) /\ Left(k)
    <3>1. PairPhase(k)' \in {"retired", "erased"}
      BY <1>4, <2>1, <2>4, UsableBefore DEF PairPhase
    <3> QED
      BY <1>4, <2>4, <3>1, PhaseIs
  <2>5. CASE ~Usable(k) /\ ~Left(k)
    <3>1. ~Usable(k)' /\ ~Left(k)'
      BY <1>4, <2>5, UsableBefore, LeftBefore
    <3>2. PairPhase(k)' = "erased"
      BY <2>1, <3>1 DEF PairPhase, Left
    <3> QED
      BY <1>4, <2>5, <3>2, PhaseIs
  <2> QED
    BY <2>3, <2>4, <2>5
<1> QED
  BY <1>2, <1>3, <1>4

(* The WSD and the KPS implement the one-way lifecycle for every pair: an  *)
(* announced handle that is of no use to a new decap never is again, and   *)
(* what was destroyed or purged, and is held by no Open, stays away.       *)
THEOREM PairsImplementLifecycle == Spec => PairsOneWay
<1>1. Init => PairLifecycle!Init
  BY DEF Init, PairLifecycle!Init, PairPhase
<1>2. Inv /\ Inv' /\ [Next]_vars
        => [PairLifecycle!Next]_([k \in KemKey |-> PairPhase(k)])
  <2>1. ASSUME Inv, Inv', Next PROVE PairLifecycle!Next
    BY <2>1, PairStep DEF PairLifecycle!Next
  <2>2. ASSUME UNCHANGED vars PROVE UNCHANGED [k \in KemKey |-> PairPhase(k)]
    BY <2>2 DEF vars, registries, history, locals, PairPhase, Usable, Openable,
                LiveBinding, LiveKem, HeldOpen
  <2> QED
    BY <2>1, <2>2
<1> QED
  BY <1>1, <1>2, Invariance, PTL DEF Spec, PairsOneWay, PairLifecycle!Spec


-----------------------------------------------------------------------------
(* The answer to a heartbeat is not from a boot before the cached one's:   *)
(* one call is under way at a time, and it began after the last answer was *)
(* taken.                                                                  *)
AnswerNotOlder == hb = "answered" => cachedToken <= token

(* The handlers, the reapers and the clock leave the heartbeat alone.      *)
LEMMA HeartbeatAlone ==
  ASSUME [Next]_vars
  PROVE  \/ UNCHANGED hbVars
         \/ HeartbeatStep \/ KpsEnvironment \/ WsdRestart
<1>1. ASSUME NEW r \in Request, RequestStep(r) PROVE UNCHANGED hbVars
  BY <1>1 DEF RequestStep, NewRequest, GenerateBindingKey, DecapLookup, DestroyLookup,
     HandlerStep, RpcReturns, RpcFails, Resume, StoreMapping, OpenGetKey,
     OpenSucceeds, OpenFails, DestroyBinding, Unmap, KpsStep, KpsGenerate,
     KpsGenerateFails, KpsDecapAndSeal, KpsDestroy, Answer, RpcLost
<1> QED
  BY <1>1 DEF Next, RequestStep, ReapBindings, ReapKems, Tick, vars

(* AnswerNotOlder is kept: a call is answered with the boot token of now,  *)
(* and the cached token changes only when no answer is on its way.         *)
LEMMA AnswerNotOlderStep ==
  ASSUME Inv, AnswerNotOlder, [Next]_vars
  PROVE  AnswerNotOlder'
<1>1. cachedToken <= boot
  BY DEF Inv, TokensOK
<1>2. CASE UNCHANGED hbVars
  BY <1>2 DEF hbVars, AnswerNotOlder
<1>3. CASE HeartbeatStep \/ WsdRestart
  <2>1. hb' # "answered"
    BY <1>3 DEF HeartbeatStep, HeartbeatTick, HeartbeatFailure, HeartbeatSuccess,
       BackoffRetry, TokenMismatch, BackoffExhausted, WsdRestart
  <2> QED
    BY <2>1 DEF AnswerNotOlder
<1>4. CASE KpsEnvironment
  BY <1>1, <1>4 DEF KpsEnvironment, HeartbeatAnswer, KpsCrash, KpsStart, hbState,
     AnswerNotOlder
<1> QED
  BY <1>2, <1>3, <1>4, HeartbeatAlone

(* AnswerNotOlder is an invariant.                                         *)
LEMMA AnswerNotOlderAlways == Spec => []AnswerNotOlder
<1>1. Init => AnswerNotOlder
  BY DEF Init, HeartbeatInit, AnswerNotOlder
<1> QED
  BY <1>1, AnswerNotOlderStep, Invariance, PTL DEF Spec

(* performHeartbeat cleans up for another token only when the KPS really   *)
(* has been restarted since the cached one, and the token it caches is a   *)
(* later one: a late or retried answer never passes for a restart, and     *)
(* never brings an older token back.                                       *)
THEOREM MismatchMeansRestart ==
  Spec => [][TokenMismatch => cachedToken < boot /\ cachedToken < cachedToken']_vars
<1>1. ASSUME Inv, AnswerNotOlder, TokenMismatch
      PROVE  cachedToken < boot /\ cachedToken < cachedToken'
  <2>1. /\ cachedToken # token /\ cachedToken' = token
        /\ cachedToken <= token /\ token <= boot
        /\ boot \in Nat /\ token \in Nat /\ cachedToken \in Nat
    BY <1>1, Times DEF Inv, TokensOK, TokenMismatch, AnswerNotOlder
  <2> QED
    BY SMT, <2>1
<1> QED
  BY <1>1, AnswerNotOlderAlways, Invariance, PTL

(* The cached token moves forward only, but for a restart of the WSD,      *)
(* which forgets it.                                                       *)
THEOREM TokenMovesForward ==
  Spec => [][~WsdRestart => cachedToken <= cachedToken']_vars
<1>1. ASSUME Inv, AnswerNotOlder, [Next]_vars, ~WsdRestart
      PROVE  cachedToken <= cachedToken'
  <2>0. cachedToken \in Nat
    BY <1>1, Times DEF Inv
  <2>1. CASE cachedToken' = cachedToken
    BY SMT, <2>0, <2>1
  <2>2. CASE HeartbeatSuccess \/ TokenMismatch
    BY <1>1, <2>2 DEF HeartbeatSuccess, TokenMismatch, AnswerNotOlder
  <2>3. \/ cachedToken' = cachedToken
        \/ HeartbeatSuccess \/ TokenMismatch
    BY <1>1, HeartbeatAlone DEF HeartbeatStep, HeartbeatTick, HeartbeatFailure,
       BackoffRetry, BackoffExhausted, KpsEnvironment, HeartbeatAnswer, KpsCrash,
       KpsStart, hbState, hbVars
  <2> QED
    BY <2>1, <2>2, <2>3
<1> QED
  BY <1>1, AnswerNotOlderAlways, Invariance, PTL DEF Spec

=============================================================================
