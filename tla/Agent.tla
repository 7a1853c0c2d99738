-------------------------------- MODULE Agent --------------------------------
(***************************************************************************)
(* The life of an agent process, a WSD or a KPS: the steps of its start-up *)
(* and what each failure closes, the servers' goroutines, and Shutdown     *)
(* after a signal, which drains the gRPC server, then the HTTP server,     *)
(* within one deadline, and then closes the connection to the KPS.         *)
(***************************************************************************)

CONSTANTS
  HttpRequest,  \* requests of workloads, on the WSD's HTTP server
  GrpcRequest   \* calls of the gRPC server: key claims, or the KPS's methods

VARIABLES
  role,      \* "KPS", "WSD" with a remote KPS, or "emulated": a WSD without one
  main,      \* where the main goroutine is
  open,      \* the listeners and the connection that are open
  serving,   \* the servers whose Serve runs
  stopping,  \* the servers that were told to stop
  deadline,  \* the 5 seconds of Shutdown's context have passed
  request,   \* what became of every request
  errs,      \* the errors Shutdown has collected
  exit       \* how the process ended, or "none"

vars == <<role, main, open, serving, stopping, deadline, request, errs, exit>>

Request == HttpRequest \cup GrpcRequest

ServerOf(r) == IF r \in HttpRequest THEN "http" ELSE "grpc"

Active(server) == {r \in Request : request[r] = "active" /\ ServerOf(r) = server}

Init ==
  /\ role \in {"KPS", "WSD", "emulated"}
  /\ main = IF role = "KPS" THEN "grpcListen" ELSE "dial"
  /\ open = {} /\ serving = {} /\ stopping = {}
  /\ deadline = FALSE
  /\ request = [r \in Request |-> "none"]
  /\ errs = {}
  /\ exit = "none"

(* The process ends: a request that is active then is never answered.      *)
Exit(code) ==
  /\ main' = "exited"
  /\ exit' = code
  /\ serving' = {}

(* A forced stop of a server cuts its active requests off.                 *)
Cut(server) ==
  [r \in Request |-> IF r \in Active(server) THEN "cut" ELSE request[r]]

-----------------------------------------------------------------------------
(* New and NewServer of the WSD, NewServer of the KPS.                     *)

(* What a step opens, and the step after it.                               *)
Opens ==
  [dial |-> IF role = "WSD" THEN {"conn"} ELSE {}, httpListen |-> {"http"},
   httpChmod |-> {}, grpcListen |-> {"grpc"}, grpcChmod |-> {}]

After ==
  [dial |-> "httpListen", httpListen |-> "httpChmod", httpChmod |-> "grpcListen",
   grpcListen |-> IF role = "KPS" THEN "serve" ELSE "grpcChmod",
   grpcChmod |-> "serve"]

(* Mutant: the last failure forgets the first listener.                    *)
ClosesOwnListener ==
  [dial |-> {}, httpListen |-> {}, httpChmod |-> {"http"}, grpcListen |-> {"http"},
   grpcChmod |-> {"grpc"}]

(* What NewServer closes when a step fails.                                *)
Closes ==
  [dial |-> {}, httpListen |-> {}, httpChmod |-> {"http"}, grpcListen |-> {"http"},
   grpcChmod |-> {"http", "grpc"}]

StartStep ==
  /\ main \in DOMAIN Opens
  /\ open' = open \cup Opens[main]
  /\ main' = After[main]
  /\ UNCHANGED <<role, serving, stopping, deadline, request, errs, exit>>

(* New closes the connection when NewServer has failed.                    *)
StartFails ==
  /\ main \in DOMAIN Opens
  /\ open' = open \ (Closes[main] \cup {"conn"})
  /\ main' = "startFailed"
  /\ exit' = "error"
  /\ UNCHANGED <<role, serving, stopping, deadline, request, errs>>

(* The goroutine that calls Serve, and main at its select.                 *)
GoServe ==
  /\ main = "serve"
  /\ main' = "select"
  /\ UNCHANGED <<role, open, serving, stopping, deadline, request, errs, exit>>

-----------------------------------------------------------------------------
(* A server's Serve begins, at once or long after; one that was told to    *)
(* stop closes its listener and returns.                                   *)
ServeBegins(server) ==
  /\ main \notin DOMAIN Opens \cup {"startFailed", "serve", "exited"}
  /\ server \in open \ serving
  /\ IF server \in stopping THEN open' = open \ {server} /\ UNCHANGED serving
     ELSE serving' = serving \cup {server} /\ UNCHANGED open
  /\ UNCHANGED <<role, main, stopping, deadline, request, errs, exit>>

(* Serve fails: for the server main waits for, that is the end of the      *)
(* process; the WSD only logs it, and the calls its gRPC server has        *)
(* accepted go on.                                                         *)
ServeFails(server) ==
  /\ main = "select"
  /\ server \in serving
  /\ open' = open \ {server}
  /\ IF role = "KPS" \/ server = "http" THEN Exit("error")
     ELSE serving' = serving \ {server} /\ UNCHANGED <<main, exit>>
  /\ UNCHANGED <<role, stopping, deadline, request, errs>>

Accept(r) ==
  /\ request[r] = "none"
  /\ ServerOf(r) \in serving \ stopping
  /\ request' = [request EXCEPT ![r] = "active"]
  /\ UNCHANGED <<role, main, open, serving, stopping, deadline, errs, exit>>

(* A handler answers.  A workload's request may have needed the KPS, which *)
(* cannot be reached once the connection is closed.                        *)
Answer(r) ==
  /\ request[r] = "active" /\ main # "exited"
  /\ request' = [request EXCEPT ![r] =
       IF r \in HttpRequest /\ role = "WSD" /\ "conn" \notin open THEN "cut"
       ELSE "answered"]
  /\ UNCHANGED <<role, main, open, serving, stopping, deadline, errs, exit>>

-----------------------------------------------------------------------------
(* SIGTERM or an interrupt: main leaves its select and calls Shutdown,     *)
(* which begins with GracefulStop.                                         *)
Signal ==
  /\ main = "select"
  /\ main' = "drainGrpc"
  /\ stopping' = {"grpc"}
  /\ open' = IF "grpc" \in serving THEN open \ {"grpc"} ELSE open
  /\ UNCHANGED <<role, serving, deadline, request, errs, exit>>

(* Mutant: context.Background() in place of a context with a timeout.      *)
DeadlineNever ==
  /\ FALSE
  /\ UNCHANGED vars

(* The timeout of Shutdown's context.                                      *)
Deadline ==
  /\ main \in {"drainGrpc", "drainHttp"} /\ ~deadline
  /\ deadline' = TRUE
  /\ UNCHANGED <<role, main, open, serving, stopping, request, errs, exit>>

(* The KPS is done with its gRPC server; the WSD goes on to its HTTP       *)
(* server, whose Shutdown closes the listener first.                       *)
AfterGrpc(e) ==
  IF role = "KPS"
    THEN /\ Exit(IF e = {} THEN "success" ELSE "error")
         /\ UNCHANGED <<open, stopping>>
    ELSE /\ main' = IF Active("http") = {} THEN "closeConn" ELSE "drainHttp"
         /\ stopping' = stopping \cup {"http"}
         /\ open' = IF "http" \in serving THEN open \ {"http"} ELSE open
         /\ UNCHANGED <<serving, exit>>

(* shutdownDone: GracefulStop has waited for the calls under way.          *)
GrpcDrained ==
  /\ main = "drainGrpc"
  /\ Active("grpc") = {}
  /\ AfterGrpc({})
  /\ UNCHANGED <<role, deadline, request, errs>>

(* Mutant: the forced stop is not an error of Shutdown.                    *)
GrpcForcedSilently ==
  /\ main = "drainGrpc" /\ deadline
  /\ request' = Cut("grpc")
  /\ AfterGrpc({})
  /\ UNCHANGED <<role, deadline, errs>>

(* ctx.Done() first: Stop cancels the calls that are left, and is taken to *)
(* return (grpc's, like Cut) without waiting for their handlers.           *)
GrpcForced ==
  /\ main = "drainGrpc" /\ deadline
  /\ request' = Cut("grpc")
  /\ errs' = errs \cup {"grpc"}
  /\ AfterGrpc({"grpc"})
  /\ UNCHANGED <<role, deadline>>

(* httpServer.Shutdown returns when no request is active, or with the      *)
(* context's error; then the handlers go on.                               *)
HttpDrained ==
  /\ main = "drainHttp"
  /\ \/ Active("http") = {} /\ errs' = errs
     \/ deadline /\ errs' = errs \cup {"http"}
  /\ main' = "closeConn"
  /\ UNCHANGED <<role, open, serving, stopping, deadline, request, exit>>

CloseConn ==
  /\ main = "closeConn"
  /\ open' = open \ {"conn"}
  /\ main' = "return"
  /\ UNCHANGED <<role, serving, stopping, deadline, request, errs, exit>>

(* runWsd returns the joined errors, main exits with them.                 *)
Return ==
  /\ main = "return"
  /\ Exit(IF errs = {} THEN "success" ELSE "error")
  /\ UNCHANGED <<role, open, stopping, deadline, request, errs>>

ShutdownStep == GrpcDrained \/ GrpcForced \/ HttpDrained \/ CloseConn \/ Return

Next ==
  \/ StartStep \/ StartFails \/ GoServe
  \/ \E server \in {"http", "grpc"} : ServeBegins(server) \/ ServeFails(server)
  \/ \E r \in Request : Accept(r) \/ Answer(r)
  \/ Signal
  \/ Deadline
  \/ ShutdownStep

Spec == Init /\ [][Next]_vars

(* The main goroutine runs and time passes; handlers may never return.     *)
FairSpec == Spec /\ WF_vars(ShutdownStep) /\ WF_vars(Deadline)

-----------------------------------------------------------------------------
(* When a start-up fails, at whichever step, nothing that an earlier step  *)
(* opened is left open by New.                                             *)
FailedStartClosesAll == main = "startFailed" => open = {}

(* Exit code 0 means that every request a server had accepted was answered *)
(* and none was cut off, by a forced stop, by the end of the process or by *)
(* the connection to the KPS closing under it.                             *)
CleanExitCutsNothing ==
  exit = "success" => \A r \in Request : request[r] \in {"none", "answered"}

(* After a signal the process ends, even when handlers never return,       *)
(* provided that grpc's Stop does (see GrpcForced).                        *)
ShutdownEnds == main = "drainGrpc" ~> main = "exited"

=============================================================================
