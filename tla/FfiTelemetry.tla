---------------------------- MODULE FfiTelemetry ----------------------------
(***************************************************************************)
(* The FFI boundary (ffi_call) and the telemetry behind it: the service    *)
(* name in a OnceLock, the event subscriber and the panic hook each set by *)
(* a Once, initialised by key_manager_init_telemetry while other threads   *)
(* may be in the middle of a call.                                         *)
(***************************************************************************)
EXTENDS Naturals, Sequences, Functions

CONSTANTS
  Thread,   \* the threads that make FFI calls
  Name,     \* the service names callers give
  Default   \* "key_protection_service": no name, or not UTF-8

(* An empty OnceLock is told from any name that it may hold.               *)
ASSUME TelemetryAssumption == "unset" \notin Name \cup {Default}

VARIABLES
  SERVICE_NAME,     \* the OnceLock: its content, or "unset"
  INIT_TELEMETRY,   \* the Once that sets the subscriber: "new", "running", "done"
  PANIC_HOOK,       \* the Once that sets the panic hook
  subscriber, hook, \* what they set
  initialized,      \* key_manager_init_telemetry has returned to some caller
  pc,               \* what a thread is doing
  call,             \* the result of its last call, as its caller sees it
  queue,            \* the events the subscriber got from that call
  stderr            \* the default panic hook has written a panic's message

vars == <<SERVICE_NAME, INIT_TELEMETRY, PANIC_HOOK, subscriber, hook, initialized,
          pc, call, queue, stderr>>

statics == <<SERVICE_NAME, INIT_TELEMETRY, PANIC_HOOK, subscriber, hook, initialized>>

NoCall == [status |-> "none", ready |-> FALSE]

Init ==
  /\ SERVICE_NAME = "unset"
  /\ INIT_TELEMETRY = "new" /\ PANIC_HOOK = "new"
  /\ subscriber = FALSE /\ hook = FALSE /\ initialized = FALSE
  /\ pc = [t \in Thread |-> "idle"]
  /\ call = [t \in Thread |-> NoCall]
  /\ queue = [t \in Thread |-> <<>>]
  /\ stderr = FALSE

Goto(t, p) == pc' = [pc EXCEPT ![t] = p]

-----------------------------------------------------------------------------
(* Mutant: the last caller's name wins.                                    *)
SetNameAgain(t, name) ==
  /\ pc[t] = "idle"
  /\ SERVICE_NAME' = name
  /\ Goto(t, "subscriber")
  /\ UNCHANGED <<INIT_TELEMETRY, PANIC_HOOK, subscriber, hook, initialized,
                 call, queue, stderr>>

(* key_manager_init_telemetry begins: the OnceLock keeps the first name.   *)
SetName(t, name) ==
  /\ pc[t] = "idle"
  /\ SERVICE_NAME' = IF SERVICE_NAME = "unset" THEN name ELSE SERVICE_NAME
  /\ Goto(t, "subscriber")
  /\ UNCHANGED <<INIT_TELEMETRY, PANIC_HOOK, subscriber, hook, initialized,
                 call, queue, stderr>>

(* ensure_telemetry_initialized: the first thread runs the closure, the    *)
(* ones that come while it runs wait for it.                               *)
EnsureTelemetryInitialized(t) ==
  /\ \/ /\ pc[t] = "subscriber" /\ INIT_TELEMETRY = "new"
        /\ INIT_TELEMETRY' = "running" /\ subscriber' = subscriber
        /\ Goto(t, "subscribing")
     \/ /\ pc[t] = "subscribing"
        /\ INIT_TELEMETRY' = "done" /\ subscriber' = TRUE
        /\ Goto(t, "hook")
     \/ /\ pc[t] = "subscriber" /\ INIT_TELEMETRY = "done"
        /\ UNCHANGED <<INIT_TELEMETRY, subscriber>>
        /\ Goto(t, "hook")
  /\ UNCHANGED <<SERVICE_NAME, PANIC_HOOK, hook, initialized, call, queue, stderr>>

(* Mutant: a flag in place of the Once, which nobody waits for.            *)
InstallSanitizedPanicHookUnlessBegun(t) ==
  /\ \/ /\ pc[t] = "hook" /\ PANIC_HOOK = "new"
        /\ PANIC_HOOK' = "running" /\ Goto(t, "hooking")
        /\ UNCHANGED <<hook, initialized>>
     \/ /\ pc[t] = "hooking"
        /\ PANIC_HOOK' = "done" /\ hook' = TRUE
        /\ Goto(t, "idle") /\ initialized' = TRUE
     \/ /\ pc[t] = "hook" /\ PANIC_HOOK # "new"
        /\ UNCHANGED <<PANIC_HOOK, hook>>
        /\ Goto(t, "idle") /\ initialized' = TRUE
  /\ UNCHANGED <<SERVICE_NAME, INIT_TELEMETRY, subscriber, call, queue, stderr>>

(* install_sanitized_panic_hook, the last thing the initialisation does.   *)
InstallSanitizedPanicHook(t) ==
  /\ \/ /\ pc[t] = "hook" /\ PANIC_HOOK = "new"
        /\ PANIC_HOOK' = "running" /\ Goto(t, "hooking")
        /\ UNCHANGED <<hook, initialized>>
     \/ /\ pc[t] = "hooking"
        /\ PANIC_HOOK' = "done" /\ hook' = TRUE
        /\ Goto(t, "idle") /\ initialized' = TRUE
     \/ /\ pc[t] = "hook" /\ PANIC_HOOK = "done"
        /\ UNCHANGED <<PANIC_HOOK, hook>>
        /\ Goto(t, "idle") /\ initialized' = TRUE
  /\ UNCHANGED <<SERVICE_NAME, INIT_TELEMETRY, subscriber, call, queue, stderr>>

-----------------------------------------------------------------------------
GetServiceName == IF SERVICE_NAME = "unset" THEN Default ELSE SERVICE_NAME

(* tracing::error!: without a subscriber the event is lost.                *)
Emit(t, event) ==
  queue' = [queue EXCEPT ![t] = IF subscriber THEN Append(@, event) ELSE @]

Failure(kind, status) == [kind |-> kind, status |-> status]

ReportFailure(t, failure) ==
  Emit(t, [event |-> "kcc_operation_failed", name |-> GetServiceName,
           kind |-> failure.kind, status |-> failure.status])

(* ffi_call: the closure runs under catch_unwind and ends in one of three  *)
(* ways.                                                                   *)
FfiCall(t) ==
  /\ pc[t] = "idle"
  /\ \E end \in {"return", "error", "panic"} : Goto(t, end)
  /\ call' = [call EXCEPT ![t] = [status |-> "running", ready |-> initialized]]
  /\ queue' = [queue EXCEPT ![t] = <<>>]
  /\ UNCHANGED <<statics, stderr>>

(* The panic hook in force runs on the panicking thread, before unwinding. *)
Panic(t) ==
  /\ pc[t] = "panic"
  /\ IF hook
       THEN /\ Emit(t, [event |-> "fatal_panic_occurred", name |-> GetServiceName,
                       kind |-> "panic"])
            /\ UNCHANGED stderr
       ELSE /\ stderr' = TRUE
            /\ UNCHANGED queue
  /\ Goto(t, "caught")
  /\ UNCHANGED <<statics, call>>

(* The status an arm of ffi_call returns; ffi_call_i32 returns its         *)
(* negation, and the value in place of SUCCESS.                            *)
Result(arm) ==
  CASE arm = "return" -> "SUCCESS"
    [] arm = "error" -> "NOT_FOUND"
    [] arm = "caught" -> "INTERNAL_ERROR"

(* Mutant: a caught panic is left to the panic hook.                       *)
EndCallSilently(t) ==
  /\ pc[t] \in {"return", "error", "caught"}
  /\ call' = [call EXCEPT ![t].status = Result(pc[t])]
  /\ IF pc[t] = "error" THEN ReportFailure(t, Failure("error", Result(pc[t])))
                        ELSE UNCHANGED queue
  /\ Goto(t, "idle")
  /\ UNCHANGED <<statics, stderr>>

(* The three arms of ffi_call: an error (NOT_FOUND stands for them all)    *)
(* and a panic are reported; a panic becomes INTERNAL_ERROR.               *)
EndCall(t) ==
  /\ pc[t] \in {"return", "error", "caught"}
  /\ call' = [call EXCEPT ![t].status = Result(pc[t])]
  /\ CASE pc[t] = "return" -> UNCHANGED queue
       [] pc[t] = "error" -> ReportFailure(t, Failure("error", Result(pc[t])))
       [] pc[t] = "caught" -> ReportFailure(t, Failure("panic", Result(pc[t])))
  /\ Goto(t, "idle")
  /\ UNCHANGED <<statics, stderr>>

Next ==
  \E t \in Thread :
    \/ \E name \in Name \cup {Default} : SetName(t, name)
    \/ EnsureTelemetryInitialized(t)
    \/ InstallSanitizedPanicHook(t)
    \/ FfiCall(t)
    \/ Panic(t)
    \/ EndCall(t)

Spec == Init /\ [][Next]_vars

-----------------------------------------------------------------------------
(* Once key_manager_init_telemetry has returned to any of its callers, no  *)
(* panic's message is printed any more, even if another thread is still    *)
(* inside its own initialisation.                                          *)
PanicsSanitized == [][initialized => stderr' = stderr]_vars

(* A failed call that began after the initialisation queues exactly one    *)
(* kcc_operation_failed event, with the status its caller got, and a       *)
(* successful one none: no failure is lost or reported twice, whatever the *)
(* other threads initialise.  The panic hook's own event is another one.   *)
FailuresReportedOnce ==
  \A t \in Thread :
    pc[t] = "idle" /\ call[t].ready =>
      LET failures == {i \in DOMAIN queue[t] : queue[t][i].event = "kcc_operation_failed"}
      IN IF call[t].status = "SUCCESS" THEN failures = {}
         ELSE \E i \in failures : failures = {i} /\ queue[t][i].status = call[t].status

(* Events of calls that began after the initialisation all carry one name, *)
(* whoever initialises again with another one.                             *)
OneServiceName ==
  \A t, u \in Thread :
    call[t].ready /\ call[u].ready =>
      \A e \in Range(queue[t]), f \in Range(queue[u]) : e.name = f.name

=============================================================================
