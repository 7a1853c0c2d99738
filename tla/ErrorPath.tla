----------------------------- MODULE ErrorPath -----------------------------
(***************************************************************************)
(* The error paths of the workload service's HTTP handlers that call both  *)
(* its own custody core (ws) and the KPS's (kps), the latter in process or *)
(* behind gRPC.  Each handler calls them in its own order, stops at the    *)
(* first error or goes on, and answers with one HTTP status.               *)
(***************************************************************************)
EXTENDS StatusMapping

VARIABLES
  op,      \* which handler
  mode,    \* "KEY_PROTECTION_VM" (remote KPS) or "KEY_PROTECTION_VM_EMULATED"
  kps, ws, \* how the two calls end, if they are made
  errKps, errWs, \* what the handler sees of them
  stage, http

vars == <<op, mode, kps, ws, errKps, errWs, stage, http>>

(* The statuses the FFI functions of the two custody cores return; a      *)
(* panic is an INTERNAL_ERROR.                                             *)
AnyCall == {"SUCCESS", "INVALID_ARGUMENT", "INTERNAL_ERROR"}

GenerateKemStatus ==
  AnyCall \cup {"INVALID_KEY", "UNSUPPORTED_ALGORITHM", "CRYPTO_ERROR"}
DecapAndSealStatus ==
  AnyCall \cup {"NOT_FOUND", "UNSUPPORTED_ALGORITHM", "DECAPSULATION_FAILURE",
                "ENCRYPTION_FAILURE"}
DestroyKemStatus == AnyCall \cup {"NOT_FOUND"}

GenerateBindingStatus == AnyCall \cup {"UNSUPPORTED_ALGORITHM", "CRYPTO_ERROR"}
OpenStatus ==
  AnyCall \cup {"NOT_FOUND", "UNSUPPORTED_ALGORITHM", "DECRYPTION_FAILURE"}
DestroyBindingStatus == AnyCall \cup {"NOT_FOUND"}

KpsStatus(o) ==
  CASE o = "generate" -> GenerateKemStatus
    [] o = "decap"    -> DecapAndSealStatus
    [] o = "destroy"  -> DestroyKemStatus

WsStatus(o) ==
  CASE o = "generate" -> GenerateBindingStatus
    [] o = "decap"    -> OpenStatus
    [] o = "destroy"  -> DestroyBindingStatus

Init ==
  /\ op \in {"generate", "decap", "destroy"}
  /\ mode \in {"KEY_PROTECTION_VM", "KEY_PROTECTION_VM_EMULATED"}
  /\ kps \in KpsStatus(op)
  /\ ws \in WsStatus(op)
  /\ errKps = "SUCCESS"
  /\ errWs = "SUCCESS"
  /\ stage = IF op = "generate" THEN "ws" ELSE "kps"
  /\ http = 0

(* generateKEMKey goes on to the KPS only with a binding key, handleDecaps *)
(* and handleDestroy call the workload service last.                       *)
CallWs ==
  /\ stage = "ws"
  /\ errWs' = ws
  /\ stage' = IF op = "generate" /\ ws = "SUCCESS" THEN "kps" ELSE "respond"
  /\ UNCHANGED <<op, mode, kps, ws, errKps, http>>

(* handleDestroy goes on to the binding key whatever the KPS said.         *)
AfterKps(err) ==
  IF op = "destroy" \/ (op = "decap" /\ err = "SUCCESS") THEN "ws" ELSE "respond"

(* The KPS in the same process.                                            *)
CallLocalKps ==
  /\ stage = "kps"
  /\ mode = "KEY_PROTECTION_VM_EMULATED"
  /\ errKps' = kps
  /\ stage' = AfterKps(kps)
  /\ UNCHANGED <<op, mode, kps, ws, errWs, http>>

(* The remote KPS answers in time.                                         *)
CallRemoteKps ==
  /\ stage = "kps"
  /\ mode = "KEY_PROTECTION_VM"
  /\ errKps' = RemoteStatus(kps)
  /\ stage' = AfterKps(errKps')
  /\ UNCHANGED <<op, mode, kps, ws, errWs, http>>

(* The call's deadline passes, or the remote KPS cannot be reached.        *)
RemoteKpsFails ==
  /\ stage = "kps"
  /\ mode = "KEY_PROTECTION_VM"
  /\ kps' = "RPC"
  /\ errKps' = "RPC"
  /\ stage' = AfterKps("RPC")
  /\ UNCHANGED <<op, mode, ws, errWs, http>>

(* Mutant: the KPS's error is dropped.                                     *)
RespondIgnoringKps ==
  /\ stage = "respond"
  /\ http' = Response(op, {errWs})
  /\ stage' = "done"
  /\ UNCHANGED <<op, mode, kps, ws, errKps, errWs>>

Respond ==
  /\ stage = "respond"
  /\ http' = Response(op, {errKps, errWs})
  /\ stage' = "done"
  /\ UNCHANGED <<op, mode, kps, ws, errKps, errWs>>

Next ==
  \/ CallWs
  \/ CallLocalKps
  \/ CallRemoteKps
  \/ RemoteKpsFails
  \/ Respond

Spec == Init /\ [][Next]_vars

-----------------------------------------------------------------------------
(* The calls this handler makes, one after the other, when the KPS runs in *)
(* the workload service's own process.                                     *)
LocalStatuses ==
  CASE op = "generate" -> IF ws = "SUCCESS" THEN {ws, kps} ELSE {ws}
    [] op = "decap"    -> IF kps = "SUCCESS" THEN {kps, ws} ELSE {kps}
    [] op = "destroy"  -> {kps, ws}

(* Whatever the two custody cores answer, the caller of the HTTP API       *)
(* cannot tell a remote KPS from one in the same process: the statuses     *)
(* that share a gRPC code, and those that have none, share an HTTP status, *)
(* alone and joined with the other service's error.                        *)
RemoteAnswersAsLocal ==
  stage = "done" => http = Response(op, LocalStatuses)

(* A handler answers with success only if both custody cores did their     *)
(* part; no error of one is hidden by what the other one said.             *)
SuccessMeansBoth ==
  stage = "done" => (http \in {200, 204} <=> {kps, ws} = {"SUCCESS"})

=============================================================================
