---------------------------- MODULE AgentProofs ----------------------------
(***************************************************************************)
(* Proofs about the life of an agent process, for any number of requests:  *)
(* a start-up that fails closes what it opened, and exit code 0 means that *)
(* no request was cut off.                                                 *)
(***************************************************************************)
EXTENDS Agent, TLAPS

Starting == {"dial", "httpListen", "httpChmod", "grpcListen", "grpcChmod"}
Draining == {"drainGrpc", "drainHttp", "closeConn", "return"}

TypeOK ==
  /\ role \in {"KPS", "WSD", "emulated"}
  /\ main \in Starting \cup Draining \cup {"startFailed", "serve", "select", "exited"}
  /\ open \subseteq {"conn", "http", "grpc"}
  /\ serving \subseteq {"http", "grpc"}
  /\ request \in [Request -> {"none", "active", "answered", "cut"}]

(* What can be open at each step of the start-up.                          *)
MayBeOpen ==
  [dial |-> {}, httpListen |-> {"conn"}, httpChmod |-> {"conn", "http"},
   grpcListen |-> IF role = "KPS" THEN {} ELSE {"conn", "http"},
   grpcChmod |-> {"conn", "http", "grpc"}]

StartOK ==
  /\ main \in Starting => open \subseteq MayBeOpen[main]
  /\ main = "startFailed" => open = {}
  /\ main \in Starting \cup {"startFailed", "serve"} =>
       serving = {} /\ \A r \in Request : request[r] = "none"
  /\ role = "KPS" => main \notin Starting \ {"grpcListen"} /\ "http" \notin open \cup serving
  /\ role = "WSD" /\ main \notin {"dial", "startFailed", "return", "exited"} =>
       "conn" \in open

(* The server of a drain that is under way or done accepts nothing, and a  *)
(* drain that ended without an error has left no request behind.           *)
DrainOK ==
  /\ role = "KPS" => Active("http") = {} /\ main \notin {"drainHttp", "closeConn", "return"}
  /\ main \in Draining => "grpc" \in stopping
  /\ main \in Draining \ {"drainGrpc"} =>
       "http" \in stopping /\ (errs = {} => Active("grpc") = {})
  /\ main \in {"closeConn", "return"} /\ errs = {} => Active("http") = {}

(* An error is collected, or is the exit code, before a request is cut.    *)
ExitOK ==
  /\ main = "exited" => serving = {}
  /\ exit # "none" => main \in {"startFailed", "exited"}
  /\ errs # {} => main \in {"drainHttp", "closeConn", "return", "exited"}
  /\ errs = {} /\ exit # "error" => \A r \in Request : request[r] # "cut"
  /\ CleanExitCutsNothing

Inv == TypeOK /\ StartOK /\ DrainOK /\ ExitOK

-----------------------------------------------------------------------------
(* The names of the steps of a start-up.                                   *)
LEMMA StartSteps == DOMAIN Opens = Starting
BY DEF Opens, Starting

(* Requests change one at a time, so a server without an active one gets   *)
(* none unless it accepts.                                                 *)
LEMMA ActiveUnchanged ==
  ASSUME request' = request
  PROVE  \A server : Active(server)' = Active(server)
BY DEF Active

(* The steps of the start-up: what fails closes what was opened.           *)
LEMMA StartKeeps ==
  ASSUME Inv, StartStep \/ StartFails \/ GoServe
  PROVE  Inv'
<1> USE DEF Starting, Draining
<1>0. main \in Starting \cup {"serve"} /\ TypeOK /\ StartOK /\ DrainOK /\ ExitOK
  BY StartSteps DEF Inv, StartStep, StartFails, GoServe
<1>1. /\ UNCHANGED <<role, serving, stopping, deadline, request, errs>>
      /\ Active("http")' = Active("http")
  BY ActiveUnchanged DEF StartStep, StartFails, GoServe
<1>2. CASE StartStep
  <2>1. main \in Starting /\ exit' = exit /\ open' = open \cup Opens[main] /\ main' = After[main]
    BY <1>2, StartSteps DEF StartStep
  <2>2. \/ /\ main = "dial" /\ main' = "httpListen"
           /\ open' = open \cup IF role = "WSD" THEN {"conn"} ELSE {}
        \/ main = "httpListen" /\ main' = "httpChmod" /\ open' = open \cup {"http"}
        \/ main = "httpChmod" /\ main' = "grpcListen" /\ open' = open
        \/ /\ main = "grpcListen" /\ main' = IF role = "KPS" THEN "serve" ELSE "grpcChmod"
           /\ open' = open \cup {"grpc"}
        \/ main = "grpcChmod" /\ main' = "serve" /\ open' = open
    BY <2>1 DEF Opens, After
  <2>3. TypeOK'
    BY <1>0, <1>1, <2>2 DEF TypeOK
  <2>4. StartOK'
    <3>1. /\ main' \in Starting => open' \subseteq MayBeOpen'[main']
          /\ main' # "startFailed"
      BY <1>0, <1>1, <2>2 DEF StartOK, MayBeOpen
    <3> QED
      BY <1>0, <1>1, <2>2, <3>1 DEF StartOK
  <2>5. DrainOK' /\ ExitOK'
    BY <1>0, <1>1, <2>1 DEF TypeOK, DrainOK, ExitOK, After, CleanExitCutsNothing
  <2> QED
    BY <2>3, <2>4, <2>5 DEF Inv
<1>3. CASE StartFails
  <2>1. /\ main \in Starting /\ exit' = "error" /\ main' = "startFailed"
        /\ open' = open \ (Closes[main] \cup {"conn"})
    BY <1>3, StartSteps DEF StartFails
  <2>2. open' = {}
    BY <1>0, <2>1 DEF StartOK, MayBeOpen, Closes
  <2> QED
    BY <1>0, <1>1, <2>1, <2>2
       DEF Inv, TypeOK, StartOK, DrainOK, ExitOK, CleanExitCutsNothing
<1>4. CASE GoServe
  BY <1>0, <1>1, <1>4
     DEF GoServe, Inv, TypeOK, StartOK, DrainOK, ExitOK, CleanExitCutsNothing
<1> QED
  BY <1>2, <1>3, <1>4

(* Serve's beginning and its failure.                                      *)
LEMMA ServeKeeps ==
  ASSUME Inv, NEW server \in {"http", "grpc"}, ServeBegins(server) \/ ServeFails(server)
  PROVE  Inv'
<1> USE DEF Starting, Draining
<1>0. TypeOK /\ StartOK /\ DrainOK /\ ExitOK
  BY DEF Inv
<1>1. /\ UNCHANGED <<role, stopping, deadline, request, errs>>
      /\ \A s : Active(s)' = Active(s)
  BY ActiveUnchanged DEF ServeBegins, ServeFails
<1>2. CASE ServeBegins(server)
  <2>1. /\ main \notin Starting \cup {"startFailed", "serve", "exited"}
        /\ UNCHANGED <<main, exit>>
        /\ open' \in {open, open \ {server}}
        /\ serving' \in {serving, serving \cup {server}} /\ server \in open
    BY <1>2, StartSteps DEF ServeBegins
  <2> QED
    BY <1>0, <1>1, <2>1
       DEF Inv, TypeOK, StartOK, DrainOK, ExitOK, CleanExitCutsNothing
<1>3. CASE ServeFails(server)
  <2>1. /\ main = "select" /\ open' = open \ {server}
        /\ \/ main' = "exited" /\ exit' = "error" /\ serving' = {}
           \/ UNCHANGED <<main, exit>> /\ serving' = serving \ {server}
    BY <1>3 DEF ServeFails, Exit
  <2> QED
    BY <1>0, <1>1, <2>1
       DEF Inv, TypeOK, StartOK, DrainOK, ExitOK, CleanExitCutsNothing
<1> QED
  BY <1>2, <1>3

(* Accept and Answer.                                                      *)
LEMMA RequestKeeps ==
  ASSUME Inv, NEW r \in Request, Accept(r) \/ Answer(r)
  PROVE  Inv'
<1> USE DEF Starting, Draining
<1>0. TypeOK /\ StartOK /\ DrainOK /\ ExitOK
  BY DEF Inv
<1>1. UNCHANGED <<role, main, open, serving, stopping, deadline, errs, exit>>
  BY DEF Accept, Answer
<1>2. CASE Accept(r)
  <2>1. /\ ServerOf(r) \in serving \ stopping
        /\ request' = [request EXCEPT ![r] = "active"]
    BY <1>2 DEF Accept
  <2>2. /\ TypeOK'
        /\ \A q \in Request \ {r} : request'[q] = request[q]
        /\ request'[r] = "active"
        /\ \A s : Active(s)' \subseteq Active(s) \cup (IF s = ServerOf(r) THEN {r} ELSE {})
    BY <1>0, <1>1, <2>1 DEF TypeOK, Active
  <2>3. StartOK'
    BY <1>0, <1>1, <2>1, <2>2 DEF StartOK, MayBeOpen
  <2>4. DrainOK'
    BY <1>0, <1>1, <2>1, <2>2 DEF DrainOK, StartOK
  <2>5. ExitOK'
    BY <1>0, <1>1, <2>1, <2>2 DEF StartOK, ExitOK, CleanExitCutsNothing
  <2> QED
    BY <2>2, <2>3, <2>4, <2>5 DEF Inv
<1>3. CASE Answer(r)
  <2>1. /\ request[r] = "active" /\ main # "exited"
        /\ \/ request' = [request EXCEPT ![r] = "answered"]
           \/ /\ r \in HttpRequest /\ role = "WSD" /\ "conn" \notin open
              /\ request' = [request EXCEPT ![r] = "cut"]
    BY <1>3 DEF Answer
  <2>2. /\ TypeOK'
        /\ \A q \in Request \ {r} : request'[q] = request[q]
        /\ request'[r] \in {"answered", "cut"}
        /\ \A s : Active(s)' \subseteq Active(s)
    BY <1>0, <1>1, <2>1 DEF TypeOK, Active
  <2>3. StartOK'
    BY <1>0, <1>1, <2>1, <2>2 DEF StartOK, MayBeOpen
  <2>4. DrainOK'
    BY <1>0, <1>1, <2>1, <2>2 DEF DrainOK
  <2>5. ASSUME request'[r] = "cut" PROVE errs # {}
    <3>1. r \in Active("http") /\ role = "WSD" /\ "conn" \notin open
      BY <1>0, <2>1, <2>5 DEF TypeOK, Active, ServerOf
    <3>2. main = "return"
      BY <1>0, <2>1, <3>1 DEF StartOK
    <3> QED
      BY <1>0, <3>1, <3>2 DEF DrainOK
  <2>6. ExitOK'
    BY <1>0, <1>1, <2>1, <2>2, <2>5 DEF ExitOK, CleanExitCutsNothing
  <2> QED
    BY <2>2, <2>3, <2>4, <2>6 DEF Inv
<1> QED
  BY <1>2, <1>3

(* Shutdown begins, or its deadline passes.                                *)
LEMMA SignalKeeps ==
  ASSUME Inv, Signal \/ Deadline
  PROVE  Inv'
<1> USE DEF Starting, Draining
<1>0. TypeOK /\ StartOK /\ DrainOK /\ ExitOK
  BY DEF Inv
<1>1. UNCHANGED <<role, serving, request, errs, exit>> /\ \A s : Active(s)' = Active(s)
  BY ActiveUnchanged DEF Signal, Deadline
<1>2. CASE Signal
  <2>1. /\ main = "select" /\ main' = "drainGrpc" /\ stopping' = {"grpc"}
        /\ open' \in {open, open \ {"grpc"}}
    BY <1>2 DEF Signal
  <2> QED
    BY <1>0, <1>1, <2>1
       DEF Inv, TypeOK, StartOK, DrainOK, ExitOK, CleanExitCutsNothing
<1>3. CASE Deadline
  <2>1. UNCHANGED <<main, open, stopping>>
    BY <1>3 DEF Deadline
  <2> QED
    BY <1>0, <1>1, <2>1
       DEF Inv, TypeOK, StartOK, MayBeOpen, DrainOK, ExitOK, CleanExitCutsNothing
<1> QED
  BY <1>2, <1>3

(* The gRPC server has stopped, of itself or by force.  What a forced stop *)
(* cuts off is an error of Shutdown.                                       *)
LEMMA GrpcStopKeeps ==
  ASSUME Inv, GrpcDrained \/ GrpcForced
  PROVE  Inv'
<1> USE DEF Starting, Draining
<1>0. TypeOK /\ StartOK /\ DrainOK /\ ExitOK /\ main = "drainGrpc" /\ errs = {} /\ role' = role
  BY DEF Inv, GrpcDrained, GrpcForced, ExitOK
<1>1. \/ request' = request /\ errs' = {} /\ Active("grpc") = {} /\ AfterGrpc({})
      \/ request' = Cut("grpc") /\ errs' = {"grpc"} /\ AfterGrpc({"grpc"})
  BY <1>0 DEF GrpcDrained, GrpcForced
<1>2. /\ request' \in [Request -> {"none", "active", "answered", "cut"}]
      /\ Active("http")' = Active("http")
      /\ errs' = {} => request' = request /\ Active("grpc")' = {}
  BY <1>0, <1>1 DEF TypeOK, Cut, Active, ServerOf
<1>3. CASE role = "KPS"
  <2>1. /\ main' = "exited" /\ serving' = {} /\ UNCHANGED <<open, stopping>>
        /\ exit' = IF errs' = {} THEN "success" ELSE "error"
    BY <1>1, <1>3 DEF AfterGrpc, Exit
  <2>2. ASSUME errs' = {}
        PROVE  \A r \in Request : request'[r] \in {"none", "answered"}
    BY <1>0, <1>1, <1>2, <1>3, <2>2 DEF TypeOK, DrainOK, ExitOK, Active, ServerOf
  <2>3. TypeOK' /\ StartOK'
    BY <1>0, <1>2, <1>3, <2>1 DEF TypeOK, StartOK
  <2>4. DrainOK'
    BY <1>0, <1>2, <1>3, <2>1 DEF DrainOK
  <2>5. ExitOK'
    BY <1>1, <2>1, <2>2 DEF ExitOK, CleanExitCutsNothing
  <2> QED
    BY <2>3, <2>4, <2>5 DEF Inv
<1>4. CASE role # "KPS"
  <2>1. /\ main' = IF Active("http") = {} THEN "closeConn" ELSE "drainHttp"
        /\ stopping' = stopping \cup {"http"}
        /\ open' \in {open, open \ {"http"}}
        /\ UNCHANGED <<serving, exit>>
    BY <1>1, <1>4 DEF AfterGrpc
  <2>2. TypeOK' /\ StartOK'
    BY <1>0, <1>2, <1>4, <2>1 DEF TypeOK, StartOK
  <2>3. DrainOK'
    BY <1>0, <1>2, <1>4, <2>1 DEF DrainOK
  <2>4. ExitOK'
    BY <1>0, <1>1, <1>2, <2>1 DEF ExitOK, CleanExitCutsNothing
  <2> QED
    BY <2>2, <2>3, <2>4 DEF Inv
<1> QED
  BY <1>3, <1>4

(* The rest of Shutdown.                                                   *)
LEMMA HttpStopKeeps ==
  ASSUME Inv, HttpDrained \/ CloseConn \/ Return
  PROVE  Inv'
<1> USE DEF Starting, Draining
<1>0. TypeOK /\ StartOK /\ DrainOK /\ ExitOK
  BY DEF Inv
<1>1. UNCHANGED <<role, stopping, request>> /\ \A s : Active(s)' = Active(s)
  BY ActiveUnchanged DEF HttpDrained, CloseConn, Return
<1>2. CASE HttpDrained
  <2>1. /\ main = "drainHttp" /\ main' = "closeConn" /\ UNCHANGED <<open, serving, exit>>
        /\ \/ Active("http") = {} /\ errs' = errs
           \/ errs' = errs \cup {"http"}
    BY <1>2 DEF HttpDrained
  <2> QED
    BY <1>0, <1>1, <2>1
       DEF Inv, TypeOK, StartOK, DrainOK, ExitOK, CleanExitCutsNothing
<1>3. CASE CloseConn
  BY <1>0, <1>1, <1>3
     DEF CloseConn, Inv, TypeOK, StartOK, DrainOK, ExitOK, CleanExitCutsNothing
<1>4. CASE Return
  <2>1. /\ main = "return" /\ main' = "exited" /\ serving' = {} /\ UNCHANGED <<open, errs>>
        /\ exit' = IF errs = {} THEN "success" ELSE "error"
    BY <1>4 DEF Return, Exit
  <2>2. ASSUME errs = {} PROVE \A r \in Request : request[r] \in {"none", "answered"}
    <3>1. \A r \in Request : request[r] # "cut"
      BY <1>0, <2>1, <2>2 DEF ExitOK
    <3>2. Active("http") = {} /\ Active("grpc") = {}
      BY <1>0, <2>1, <2>2 DEF DrainOK
    <3> QED
      BY <1>0, <3>1, <3>2 DEF TypeOK, Active, ServerOf
  <2> QED
    BY <1>0, <1>1, <2>1, <2>2
       DEF Inv, TypeOK, StartOK, DrainOK, ExitOK, CleanExitCutsNothing
<1> QED
  BY <1>2, <1>3, <1>4

-----------------------------------------------------------------------------
(* Inv is an invariant.                                                    *)
LEMMA Invariance == Spec => []Inv
<1>1. Init => Inv
  <2>1. Init => TypeOK /\ StartOK
    BY DEF Init, TypeOK, StartOK, MayBeOpen, Starting, Draining
  <2>2. Init => DrainOK /\ ExitOK
    BY DEF Init, DrainOK, ExitOK, CleanExitCutsNothing, Active, Starting, Draining
  <2> QED
    BY <2>1, <2>2 DEF Inv
<1>2. Inv /\ [Next]_vars => Inv'
  <2> SUFFICES ASSUME Inv, [Next]_vars PROVE Inv'
    OBVIOUS
  <2>1. CASE Next
    BY <2>1, StartKeeps, ServeKeeps, RequestKeeps, SignalKeeps, GrpcStopKeeps,
       HttpStopKeeps DEF Next, ShutdownStep
  <2>2. CASE UNCHANGED vars
    BY <2>2 DEF vars, Inv, TypeOK, StartOK, MayBeOpen, DrainOK, ExitOK,
       CleanExitCutsNothing, Active
  <2> QED
    BY <2>1, <2>2
<1> QED
  BY <1>1, <1>2, PTL DEF Spec

(* When New fails, at whichever step, every listener and the connection    *)
(* that an earlier step opened is closed.                                  *)
THEOREM FailedStartLeaksNothing == Spec => []FailedStartClosesAll
<1>1. Inv => FailedStartClosesAll
  BY DEF Inv, StartOK, FailedStartClosesAll
<1> QED
  BY <1>1, Invariance, PTL

(* Exit code 0 is only returned when every accepted request was answered,  *)
(* for any number of requests and wherever the deadline of Shutdown falls. *)
THEOREM CleanExit == Spec => []CleanExitCutsNothing
<1>1. Inv => CleanExitCutsNothing
  BY DEF Inv, ExitOK
<1> QED
  BY <1>1, Invariance, PTL

=============================================================================
