--------------------------- MODULE StatusMapping ---------------------------
(***************************************************************************)
(* How the status of a custody-core call becomes an HTTP status of the     *)
(* workload service: directly when the KPS is in the same process, through *)
(* a gRPC code and back when it is remote.  An error is the FFI status it  *)
(* carries, or "RPC" for a gRPC error without an FFI analogue (a deadline, *)
(* an unreachable server, codes.Internal).                                 *)
(***************************************************************************)
EXTENDS Naturals

(* keymanager.Status, without the STATUS_ prefix.                          *)
Status ==
  {"UNSPECIFIED", "SUCCESS", "INTERNAL_ERROR", "INVALID_ARGUMENT", "NOT_FOUND",
   "ALREADY_EXISTS", "PERMISSION_DENIED", "UNAUTHENTICATED",
   "UNSUPPORTED_ALGORITHM", "INVALID_KEY", "CRYPTO_ERROR",
   "DECRYPTION_FAILURE", "ENCRYPTION_FAILURE", "DECAPSULATION_FAILURE"}

Error == (Status \ {"SUCCESS"}) \cup {"RPC"}

(* Mutant: INVALID_KEY is missing from the server's table.                 *)
GrpcCodeWithoutInvalidKey(err) ==
  CASE err = "NOT_FOUND"         -> "NotFound"
    [] err \in {"INVALID_ARGUMENT", "UNSUPPORTED_ALGORITHM"} -> "InvalidArgument"
    [] err = "PERMISSION_DENIED" -> "PermissionDenied"
    [] err = "UNAUTHENTICATED"   -> "Unauthenticated"
    [] err = "ALREADY_EXISTS"    -> "AlreadyExists"
    [] OTHER                     -> "Internal"

(* grpcCodeFromError, on the KPS: several statuses share a code.           *)
GrpcCodeFromError(err) ==
  CASE err = "NOT_FOUND"         -> "NotFound"
    [] err \in {"INVALID_ARGUMENT", "UNSUPPORTED_ALGORITHM", "INVALID_KEY"} ->
         "InvalidArgument"
    [] err = "PERMISSION_DENIED" -> "PermissionDenied"
    [] err = "UNAUTHENTICATED"   -> "Unauthenticated"
    [] err = "ALREADY_EXISTS"    -> "AlreadyExists"
    [] OTHER                     -> "Internal"

(* ffiStatusFromGrpcError, on the WSD.                                     *)
FfiStatusFromGrpcError(code) ==
  CASE code = "NotFound"         -> "NOT_FOUND"
    [] code = "InvalidArgument"  -> "INVALID_ARGUMENT"
    [] code = "PermissionDenied" -> "PERMISSION_DENIED"
    [] code = "Unauthenticated"  -> "UNAUTHENTICATED"
    [] code = "AlreadyExists"    -> "ALREADY_EXISTS"
    [] OTHER                     -> "RPC"

(* What the WSD sees of a call that ended with status s on a remote KPS.   *)
RemoteStatus(s) ==
  IF s = "SUCCESS" THEN s ELSE FfiStatusFromGrpcError(GrpcCodeFromError(s))

(* httpStatusFromError of the errors in errs, joined: errors.Is finds a    *)
(* status anywhere in the join, so the order of the cases decides.         *)
HttpStatusFromError(errs) ==
  LET joins(S) == errs \cap S # {}
  IN IF errs = {} THEN 200
     ELSE IF joins({"NOT_FOUND"}) THEN 404
     ELSE IF joins({"INVALID_ARGUMENT", "UNSUPPORTED_ALGORITHM", "INVALID_KEY"})
       THEN 400
     ELSE IF joins({"PERMISSION_DENIED"}) THEN 403
     ELSE IF joins({"UNAUTHENTICATED"}) THEN 401
     ELSE IF joins({"ALREADY_EXISTS"}) THEN 409
     ELSE 500

(* What a handler answers once its calls have ended with these statuses:   *)
(* handleDestroy has no body to send.                                      *)
Response(op, statuses) ==
  LET errs == statuses \ {"SUCCESS"}
  IN IF errs = {} /\ op = "destroy" THEN 204 ELSE HttpStatusFromError(errs)

=============================================================================
