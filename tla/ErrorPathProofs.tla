-------------------------- MODULE ErrorPathProofs --------------------------
(***************************************************************************)
(* Proofs about the error paths: the way through gRPC and back does not    *)
(* change the HTTP status of any set of joined errors, and so the handlers *)
(* answer the same with a remote KPS as with one in their process.         *)
(***************************************************************************)
EXTENDS ErrorPath, TLAPS

BadRequest == {"INVALID_ARGUMENT", "UNSUPPORTED_ALGORITHM", "INVALID_KEY"}

(* What httpStatusFromError tells apart in two statuses is the same.       *)
Alike(s, t) ==
  /\ s = "SUCCESS" <=> t = "SUCCESS"
  /\ s = "NOT_FOUND" <=> t = "NOT_FOUND"
  /\ s \in BadRequest <=> t \in BadRequest
  /\ s = "PERMISSION_DENIED" <=> t = "PERMISSION_DENIED"
  /\ s = "UNAUTHENTICATED" <=> t = "UNAUTHENTICATED"
  /\ s = "ALREADY_EXISTS" <=> t = "ALREADY_EXISTS"

(* What the handler sees of a call that ended with status s.               *)
Sees(err, s) == err \in {s, RemoteStatus(s)}

(* The two tables, grpcCodeFromError and ffiStatusFromGrpcError, lose only *)
(* what httpStatusFromError does not look at, whatever the status.         *)
LEMMA RemoteAlike ==
  ASSUME NEW s
  PROVE  Alike(s, RemoteStatus(s))
BY DEF Alike, BadRequest, RemoteStatus, FfiStatusFromGrpcError, GrpcCodeFromError

(* Two sets of statuses that are alike one by one get the same answer.     *)
LEMMA AlikeResponse ==
  ASSUME NEW o, NEW S, NEW T,
         \A s \in S : \E t \in T : Alike(s, t),
         \A t \in T : \E s \in S : Alike(s, t)
  PROVE  Response(o, S) = Response(o, T)
<1> DEFINE E == S \ {"SUCCESS"}
           F == T \ {"SUCCESS"}
<1> USE DEF Alike, BadRequest
<1>1. E = {} <=> F = {}
  OBVIOUS
<1>2. E \cap {"NOT_FOUND"} = {} <=> F \cap {"NOT_FOUND"} = {}
  OBVIOUS
<1>3. E \cap BadRequest = {} <=> F \cap BadRequest = {}
  OBVIOUS
<1>4. E \cap {"PERMISSION_DENIED"} = {} <=> F \cap {"PERMISSION_DENIED"} = {}
  OBVIOUS
<1>5. E \cap {"UNAUTHENTICATED"} = {} <=> F \cap {"UNAUTHENTICATED"} = {}
  OBVIOUS
<1>6. E \cap {"ALREADY_EXISTS"} = {} <=> F \cap {"ALREADY_EXISTS"} = {}
  OBVIOUS
<1>7. HttpStatusFromError(E) = HttpStatusFromError(F)
  BY <1>1, <1>2, <1>3, <1>4, <1>5, <1>6 DEF HttpStatusFromError
<1> QED
  BY <1>1, <1>7 DEF Response

(* However many errors a handler joins, and whatever they are, sending     *)
(* some of them over gRPC does not change its answer.                      *)
THEOREM GrpcIsTransparent ==
  ASSUME NEW o, NEW S, NEW Remote
  PROVE  Response(o, {IF s \in Remote THEN RemoteStatus(s) ELSE s : s \in S})
           = Response(o, S)
<1> DEFINE see(s) == IF s \in Remote THEN RemoteStatus(s) ELSE s
<1>1. \A s \in S : Alike(s, see(s))
  BY RemoteAlike DEF Alike
<1>2. \A s : Alike(s, see(s)) => Alike(see(s), s)
  BY DEF Alike
<1>3. /\ \A t \in {see(s) : s \in S} : \E s \in S : Alike(t, s)
      /\ \A s \in S : \E t \in {see(r) : r \in S} : Alike(t, s)
  BY <1>1, <1>2
<1> HIDE DEF see
<1>4. Response(o, {see(s) : s \in S}) = Response(o, S)
  BY <1>3, AlikeResponse
<1> QED
  BY <1>4 DEF see

-----------------------------------------------------------------------------
(* What the handlers know at each stage.                                   *)
Progress ==
  CASE op = "generate" ->
         /\ stage = "ws" => errKps = "SUCCESS"
         /\ stage = "kps" => errKps = "SUCCESS" /\ errWs = ws /\ ws = "SUCCESS"
         /\ stage = "respond" =>
              errWs = ws /\ IF ws = "SUCCESS" THEN Sees(errKps, kps) ELSE errKps = "SUCCESS"
    [] op = "decap" ->
         /\ stage = "kps" => errWs = "SUCCESS"
         /\ stage = "ws" => errKps = kps /\ kps = "SUCCESS"
         /\ stage = "respond" =>
              Sees(errKps, kps) /\ IF kps = "SUCCESS" THEN errWs = ws ELSE errWs = "SUCCESS"
    [] op = "destroy" ->
         /\ stage = "ws" => Sees(errKps, kps)
         /\ stage = "respond" => Sees(errKps, kps) /\ errWs = ws

Inv ==
  /\ op \in {"generate", "decap", "destroy"}
  /\ stage \in {"ws", "kps", "respond", "done"}
  /\ Progress
  /\ RemoteAnswersAsLocal

(* A status is SUCCESS on one side of the wire if it is on the other.      *)
LEMMA SeesSuccess ==
  ASSUME NEW err, NEW s, Sees(err, s)
  PROVE  Alike(err, s) /\ (err = "SUCCESS" <=> s = "SUCCESS")
BY RemoteAlike DEF Sees, Alike

(* Every stage of a handler keeps what it knows.                           *)
LEMMA InvStep ==
  ASSUME Inv, [Next]_vars
  PROVE  Inv'
<1> USE DEF Inv
<1>1. CASE CallWs
  BY <1>1 DEF CallWs, Progress, RemoteAnswersAsLocal, Sees
<1>2. CASE CallLocalKps
  BY <1>2 DEF CallLocalKps, AfterKps, Progress, RemoteAnswersAsLocal, Sees
<1>3. CASE CallRemoteKps
  <2>1. errKps' = RemoteStatus(kps) /\ Sees(errKps', kps)
    BY <1>3 DEF CallRemoteKps, Sees
  <2>2. errKps' = "SUCCESS" <=> kps = "SUCCESS"
    BY <2>1, SeesSuccess
  <2> QED
    BY <1>3, <2>1, <2>2 DEF CallRemoteKps, AfterKps, Progress, RemoteAnswersAsLocal, Sees
<1>4. CASE RemoteKpsFails
  BY <1>4 DEF RemoteKpsFails, AfterKps, Progress, RemoteAnswersAsLocal, Sees
<1>5. CASE Respond
  <2>1. /\ \A s \in {errKps, errWs} : \E t \in LocalStatuses \cup {"SUCCESS"} : Alike(s, t)
        /\ \A t \in LocalStatuses \cup {"SUCCESS"} :
             \E s \in {errKps, errWs, "SUCCESS"} : Alike(s, t)
    <3>1. \A s : Alike(s, s)
      BY DEF Alike
    <3> QED
      BY <1>5, <3>1, SeesSuccess DEF Respond, Progress, LocalStatuses
  <2>2. Response(op, {errKps, errWs, "SUCCESS"}) = Response(op, LocalStatuses \cup {"SUCCESS"})
    <3>1. Alike("SUCCESS", "SUCCESS")
      BY DEF Alike
    <3>2. \A s \in {errKps, errWs, "SUCCESS"} :
            \E t \in LocalStatuses \cup {"SUCCESS"} : Alike(s, t)
      BY <2>1, <3>1
    <3> QED
      BY <2>1, <3>2, AlikeResponse
  <2>3. /\ {errKps, errWs, "SUCCESS"} \ {"SUCCESS"} = {errKps, errWs} \ {"SUCCESS"}
        /\ (LocalStatuses \cup {"SUCCESS"}) \ {"SUCCESS"} = LocalStatuses \ {"SUCCESS"}
    OBVIOUS
  <2>4. http' = Response(op, LocalStatuses)
    BY <1>5, <2>2, <2>3 DEF Respond, Response
  <2>5. stage' = "done" /\ UNCHANGED <<op, kps, ws>>
    BY <1>5 DEF Respond
  <2>6. RemoteAnswersAsLocal'
    BY <2>4, <2>5 DEF RemoteAnswersAsLocal, LocalStatuses
  <2> QED
    BY <2>5, <2>6 DEF Progress
<1>6. CASE UNCHANGED vars
  BY <1>6 DEF vars, Progress, RemoteAnswersAsLocal, LocalStatuses, Sees
<1> QED
  BY <1>1, <1>2, <1>3, <1>4, <1>5, <1>6 DEF Next

(* Inv is an invariant.                                                    *)
LEMMA Invariance == Spec => []Inv
<1>1. Init => Inv
  BY DEF Init, Inv, Progress, RemoteAnswersAsLocal
<1> QED
  BY <1>1, InvStep, PTL DEF Spec

(* The caller of the HTTP API cannot tell where the KPS runs.              *)
THEOREM RemoteAsLocal == Spec => []RemoteAnswersAsLocal
<1>1. Inv => RemoteAnswersAsLocal
  BY DEF Inv
<1> QED
  BY <1>1, Invariance, PTL

(* A success is answered if, and only if, both custody cores reported one. *)
THEOREM SuccessOfBoth == Spec => []SuccessMeansBoth
<1>1. ASSUME Inv PROVE SuccessMeansBoth
  <2> SUFFICES ASSUME stage = "done"
               PROVE  http \in {200, 204} <=> {kps, ws} = {"SUCCESS"}
    BY DEF SuccessMeansBoth
  <2>1. http = Response(op, LocalStatuses)
    BY <1>1 DEF Inv, RemoteAnswersAsLocal
  <2>2. LocalStatuses \ {"SUCCESS"} = {} <=> {kps, ws} = {"SUCCESS"}
    BY <1>1 DEF Inv, LocalStatuses
  <2>3. \A errs : HttpStatusFromError(errs) \in {200, 204} <=> errs = {}
    BY DEF HttpStatusFromError
  <2> QED
    BY <2>1, <2>2, <2>3 DEF Response
<1> QED
  BY <1>1, Invariance, PTL

=============================================================================
