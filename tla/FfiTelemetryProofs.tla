------------------------- MODULE FfiTelemetryProofs -------------------------
(***************************************************************************)
(* What ffi_call promises about failures, panics and names for any set of  *)
(* threads and of names.  The inductive invariant says what each step of   *)
(* key_manager_init_telemetry leaves set for the threads behind it, and    *)
(* what the subscriber has got from a call at each point of ffi_call.      *)
(***************************************************************************)
EXTENDS FfiTelemetry, TLAPS

Initialising == {"subscriber", "subscribing", "hook", "hooking"}

Calling == {"return", "error", "panic", "caught"}

(* The events that the code emits: the panic hook's, and ffi_call's own.   *)
PanicEvent(name) == [event |-> "fatal_panic_occurred", name |-> name, kind |-> "panic"]

FailureEvent(name, kind, status) ==
  [event |-> "kcc_operation_failed", name |-> name, kind |-> kind, status |-> status]

TypeOK ==
  /\ SERVICE_NAME \in Name \cup {Default, "unset"}
  /\ INIT_TELEMETRY \in {"new", "running", "done"}
  /\ PANIC_HOOK \in {"new", "running", "done"}
  /\ subscriber \in BOOLEAN /\ hook \in BOOLEAN /\ initialized \in BOOLEAN
  /\ pc \in [Thread -> {"idle"} \cup Initialising \cup Calling]
  /\ call \in [Thread -> [status : {"none", "running", "SUCCESS", "NOT_FOUND",
                                    "INTERNAL_ERROR"}, ready : BOOLEAN]]
  /\ DOMAIN queue = Thread

(* Whoever finds a Once done, or is past one, finds what it sets.          *)
OnceOK ==
  /\ INIT_TELEMETRY = "done" => subscriber
  /\ PANIC_HOOK = "done" => hook
  /\ \A t \in Thread :
       /\ pc[t] \in Initialising => SERVICE_NAME # "unset"
       /\ pc[t] \in {"hook", "hooking"} => subscriber
  /\ initialized => SERVICE_NAME # "unset" /\ subscriber /\ hook

(* What the subscriber has got from a call that began when initialised.    *)
Reported(t) ==
  CASE pc[t] \in {"return", "error", "panic"} -> queue[t] = <<>>
    [] pc[t] = "caught" -> queue[t] = <<PanicEvent(SERVICE_NAME)>>
    [] OTHER ->
         \/ call[t].status = "SUCCESS" /\ queue[t] = <<>>
         \/ /\ call[t].status = "NOT_FOUND"
            /\ queue[t] = <<FailureEvent(SERVICE_NAME, "error", "NOT_FOUND")>>
         \/ /\ call[t].status = "INTERNAL_ERROR"
            /\ queue[t] = <<PanicEvent(SERVICE_NAME),
                            FailureEvent(SERVICE_NAME, "panic", "INTERNAL_ERROR")>>

ReportOK == \A t \in Thread : call[t].ready => initialized /\ Reported(t)

Inv == TypeOK /\ OnceOK /\ ReportOK

-----------------------------------------------------------------------------
(* Nothing is set, and nobody has called.                                  *)
LEMMA InitInv == Init => Inv
  <1> SUFFICES ASSUME Init PROVE Inv
    OBVIOUS
  <1>1. TypeOK
    BY DEF Init, TypeOK, NoCall, Initialising, Calling
  <1>2. OnceOK
    BY DEF Init, OnceOK, Initialising
  <1>3. ReportOK
    BY DEF Init, ReportOK, NoCall
  <1> QED
    BY <1>1, <1>2, <1>3 DEF Inv

(* A step that leaves the calls and the queues alone, and moves no thread  *)
(* in or out of a call, keeps what was reported, if it keeps a name that   *)
(* is set and does not undo the initialisation.                            *)
LEMMA InitialisingKeepsReports ==
  ASSUME Inv, UNCHANGED <<call, queue>>,
         initialized => initialized',
         SERVICE_NAME # "unset" => SERVICE_NAME' = SERVICE_NAME,
         NEW t \in Thread, pc[t] \notin Calling,
         NEW p \in {"idle"} \cup Initialising, Goto(t, p)
  PROVE  ReportOK'
  <1> SUFFICES ASSUME NEW u \in Thread, call[u].ready
               PROVE  initialized' /\ Reported(u)'
    BY DEF ReportOK
  <1>1. initialized /\ Reported(u)
    BY DEF Inv, ReportOK
  <1>2. SERVICE_NAME' = SERVICE_NAME
    BY <1>1 DEF Inv, OnceOK
  <1>3. pc'[u] = IF u = t THEN p ELSE pc[u]
    BY DEF Goto, Inv, TypeOK
  <1>4. pc[t] \in {"idle"} \cup Initialising
    BY DEF Inv, TypeOK
  <1>5. Reported(u)'
    <2>1. CASE u = t
      BY <1>1, <1>2, <1>3, <1>4, <2>1 DEF Reported, Initialising
    <2>2. CASE u # t
      BY <1>1, <1>2, <1>3, <2>2 DEF Reported
    <2> QED
      BY <2>1, <2>2
  <1> QED
    BY <1>1, <1>5

(* The OnceLock keeps its name, so that no event's name becomes another.   *)
LEMMA SetNameInv ==
  ASSUME Inv, NEW t \in Thread, NEW name \in Name \cup {Default}, SetName(t, name)
  PROVE  Inv'
  <1>1. TypeOK'
    BY DEF Inv, TypeOK, SetName, Goto, Initialising
  <1>2. SERVICE_NAME' # "unset"
    BY TelemetryAssumption DEF SetName
  <1>3. OnceOK'
    BY <1>2 DEF Inv, TypeOK, OnceOK, SetName, Goto
  <1>4. ReportOK'
    BY InitialisingKeepsReports DEF SetName, Initialising, Calling
  <1> QED
    BY <1>1, <1>3, <1>4 DEF Inv

(* A thread goes on to the panic hook only when there is a subscriber.     *)
LEMMA EnsureTelemetryInitializedInv ==
  ASSUME Inv, NEW t \in Thread, EnsureTelemetryInitialized(t)
  PROVE  Inv'
  <1>1. TypeOK'
    BY DEF Inv, TypeOK, EnsureTelemetryInitialized, Goto, Initialising
  <1>2. OnceOK'
    BY DEF Inv, TypeOK, OnceOK, EnsureTelemetryInitialized, Goto, Initialising
  <1>3. ReportOK'
    <2>1. PICK p \in {"subscribing", "hook"} : Goto(t, p)
      BY DEF EnsureTelemetryInitialized
    <2> QED
      BY <2>1, InitialisingKeepsReports
      DEF EnsureTelemetryInitialized, Initialising, Calling
  <1> QED
    BY <1>1, <1>2, <1>3 DEF Inv

(* Nobody returns from the initialisation before the panic hook is set.    *)
LEMMA InstallSanitizedPanicHookInv ==
  ASSUME Inv, NEW t \in Thread, InstallSanitizedPanicHook(t)
  PROVE  Inv'
  <1>1. TypeOK'
    BY DEF Inv, TypeOK, InstallSanitizedPanicHook, Goto, Initialising
  <1>2. OnceOK'
    BY DEF Inv, TypeOK, OnceOK, InstallSanitizedPanicHook, Goto, Initialising
  <1>3. ReportOK'
    <2>1. PICK p \in {"hooking", "idle"} : Goto(t, p)
      BY DEF InstallSanitizedPanicHook
    <2> QED
      BY <2>1, InitialisingKeepsReports
      DEF InstallSanitizedPanicHook, Initialising, Calling
  <1> QED
    BY <1>1, <1>2, <1>3 DEF Inv


-----------------------------------------------------------------------------
(* A step of one call leaves what the others reported as it was.           *)
LEMMA OthersReports ==
  ASSUME Inv, UNCHANGED statics, NEW t \in Thread,
         NEW u \in Thread, u # t, call[u].ready,
         pc'[u] = pc[u], call'[u] = call[u], queue'[u] = queue[u]
  PROVE  initialized' /\ Reported(u)'
  <1>1. initialized /\ Reported(u)
    BY DEF Inv, ReportOK
  <1>2. SERVICE_NAME' = SERVICE_NAME /\ initialized' = initialized
    BY DEF statics
  <1> QED
    BY <1>1, <1>2 DEF Reported

(* ffi_call begins with nothing reported.                                  *)
LEMMA FfiCallInv ==
  ASSUME Inv, NEW t \in Thread, FfiCall(t)
  PROVE  Inv'
  <1>0. PICK end \in {"return", "error", "panic"} : Goto(t, end)
    BY DEF FfiCall
  <1>1. TypeOK'
    BY <1>0 DEF Inv, TypeOK, FfiCall, Goto, Calling, statics
  <1>2. OnceOK'
    BY <1>0 DEF Inv, TypeOK, OnceOK, FfiCall, Goto, Initialising, statics
  <1>3. ASSUME NEW u \in Thread, call'[u].ready
        PROVE  initialized' /\ Reported(u)'
    <2>1. CASE u = t
      <3>1. pc'[t] = end /\ queue'[t] = <<>> /\ call'[t].ready = initialized
        BY <1>0 DEF Inv, TypeOK, FfiCall, Goto
      <3> QED
        BY <1>3, <2>1, <3>1 DEF Reported, FfiCall, statics
    <2>2. CASE u # t
      <3>1. pc'[u] = pc[u] /\ call'[u] = call[u] /\ queue'[u] = queue[u]
        BY <1>0, <2>2 DEF Inv, TypeOK, FfiCall, Goto
      <3> QED
        BY <1>3, <2>2, <3>1, OthersReports DEF FfiCall
    <2> QED
      BY <2>1, <2>2
  <1> QED
    BY <1>1, <1>2, <1>3 DEF Inv, ReportOK

(* When initialised, a panic is reported by the sanitizing hook.           *)
LEMMA PanicInv ==
  ASSUME Inv, NEW t \in Thread, Panic(t)
  PROVE  Inv'
  <1>1. TypeOK'
    BY DEF Inv, TypeOK, Panic, Emit, Goto, Calling, statics
  <1>2. OnceOK'
    BY DEF Inv, TypeOK, OnceOK, Panic, Goto, Initialising, statics
  <1>3. ASSUME NEW u \in Thread, call'[u].ready
        PROVE  initialized' /\ Reported(u)'
    <2>0. call' = call /\ UNCHANGED statics
      BY DEF Panic
    <2>1. CASE u = t
      <3>1. initialized /\ queue[t] = <<>>
        BY <1>3, <2>0, <2>1 DEF Inv, ReportOK, Reported, Panic
      <3>2. subscriber /\ hook /\ SERVICE_NAME # "unset"
        BY <3>1 DEF Inv, OnceOK
      <3>3. queue'[t] = Append(queue[t], PanicEvent(SERVICE_NAME))
        BY <3>2 DEF Panic, Emit, GetServiceName, PanicEvent, Inv, TypeOK
      <3>4. queue'[t] = <<PanicEvent(SERVICE_NAME)>>
        BY <3>1, <3>3
      <3>5. pc'[t] = "caught"
        BY DEF Panic, Goto, Inv, TypeOK
      <3> QED
        BY <2>0, <2>1, <3>1, <3>4, <3>5 DEF Reported, statics
    <2>2. CASE u # t
      <3>1. pc'[u] = pc[u] /\ call'[u] = call[u] /\ queue'[u] = queue[u]
        BY <2>2 DEF Inv, TypeOK, Panic, Emit, Goto
      <3> QED
        BY <1>3, <2>0, <2>2, <3>1, OthersReports
    <2> QED
      BY <2>1, <2>2
  <1> QED
    BY <1>1, <1>2, <1>3 DEF Inv, ReportOK

(* The two events of a panic, in the order they are emitted.               *)
LEMMA AppendToOne ==
  ASSUME NEW e, NEW f
  PROVE  Append(<<e>>, f) = <<e, f>>
  <1> DEFINE s == Append(<<e>>, f)
             p == <<e, f>>
  <1>1. <<e>> \in Seq({e, f}) /\ p \in Seq({e, f})
    OBVIOUS
  <1>2. s \in Seq({e, f}) /\ Len(s) = 2 /\ Len(p) = 2
    BY <1>1
  <1>3. s[1] = p[1] /\ s[2] = p[2]
    BY <1>1
  <1>4. \A i \in 1 .. 2 : i = 1 \/ i = 2
    OBVIOUS
  <1> HIDE DEF s, p
  <1>5. \A i \in 1 .. Len(s) : s[i] = p[i]
    BY <1>2, <1>3, <1>4
  <1>6. s = p
    BY <1>1, <1>2, <1>5
  <1> QED
    BY <1>6 DEF s, p

(* ffi_call ends: an error and a caught panic are reported once each, with *)
(* the status that the caller gets.                                        *)
LEMMA EndCallInv ==
  ASSUME Inv, NEW t \in Thread, EndCall(t)
  PROVE  Inv'
  <1>0. /\ pc'[t] = "idle"
        /\ call'[t] = [call[t] EXCEPT !.status = Result(pc[t])]
        /\ UNCHANGED statics
    BY DEF EndCall, Goto, Inv, TypeOK
  <1>1. Result(pc[t]) \in {"SUCCESS", "NOT_FOUND", "INTERNAL_ERROR"}
    BY DEF EndCall, Result
  <1>2. DOMAIN queue' = Thread
    BY DEF EndCall, ReportFailure, Emit, Inv, TypeOK
  <1>3. TypeOK'
    <2>1. pc' \in [Thread -> {"idle"} \cup Initialising \cup Calling]
      BY DEF Inv, TypeOK, EndCall, Goto
    <2>2. call' \in [Thread -> [status : {"none", "running", "SUCCESS", "NOT_FOUND",
                                          "INTERNAL_ERROR"}, ready : BOOLEAN]]
      BY <1>1 DEF Inv, TypeOK, EndCall
    <2> QED
      BY <1>0, <1>2, <2>1, <2>2 DEF Inv, TypeOK, statics
  <1>4. OnceOK'
    BY DEF Inv, TypeOK, OnceOK, EndCall, Goto, Initialising, statics
  <1>5. ASSUME NEW u \in Thread, call'[u].ready
        PROVE  initialized' /\ Reported(u)'
    <2>1. CASE u = t
      <3>1. call[t].ready
        BY <1>0, <1>5, <2>1 DEF Inv, TypeOK
      <3>2. initialized /\ Reported(t)
        BY <3>1 DEF Inv, ReportOK
      <3>3. subscriber /\ GetServiceName = SERVICE_NAME
        BY <3>2 DEF Inv, OnceOK, GetServiceName
      <3>4. call'[t].status = Result(pc[t])
        BY <1>0 DEF Inv, TypeOK
      <3>5. CASE pc[t] = "return"
        <4>1. queue'[t] = <<>>
          BY <3>2, <3>5 DEF EndCall, Reported
        <4> QED
          BY <1>0, <2>1, <3>2, <3>4, <3>5, <4>1 DEF Reported, Result, statics
      <3>6. CASE pc[t] = "error"
        <4>1. queue'[t] = Append(queue[t], FailureEvent(SERVICE_NAME, "error", "NOT_FOUND"))
          BY <3>3, <3>6
          DEF EndCall, ReportFailure, Failure, FailureEvent, Emit, Result, Inv, TypeOK
        <4>2. queue[t] = <<>>
          BY <3>2, <3>6 DEF Reported
        <4>3. queue'[t] = <<FailureEvent(SERVICE_NAME, "error", "NOT_FOUND")>>
          BY <4>1, <4>2
        <4> QED
          BY <1>0, <2>1, <3>2, <3>4, <3>6, <4>3 DEF Reported, Result, statics
      <3>7. CASE pc[t] = "caught"
        <4>1. queue'[t] = Append(queue[t],
                                 FailureEvent(SERVICE_NAME, "panic", "INTERNAL_ERROR"))
          BY <3>3, <3>7
          DEF EndCall, ReportFailure, Failure, FailureEvent, Emit, Result, Inv, TypeOK
        <4>2. queue[t] = <<PanicEvent(SERVICE_NAME)>>
          BY <3>2, <3>7 DEF Reported
        <4>3. queue'[t] = <<PanicEvent(SERVICE_NAME),
                            FailureEvent(SERVICE_NAME, "panic", "INTERNAL_ERROR")>>
          BY <4>1, <4>2, AppendToOne
        <4> QED
          BY <1>0, <2>1, <3>2, <3>4, <3>7, <4>3 DEF Reported, Result, statics
      <3> QED
        BY <3>5, <3>6, <3>7 DEF EndCall
    <2>2. CASE u # t
      <3>1. pc'[u] = pc[u] /\ call'[u] = call[u]
        BY <2>2 DEF Inv, TypeOK, EndCall, Goto
      <3>2. queue'[u] = queue[u]
        BY <2>2 DEF Inv, TypeOK, EndCall, ReportFailure, Emit
      <3> QED
        BY <1>0, <1>5, <2>2, <3>1, <3>2, OthersReports
    <2> QED
      BY <2>1, <2>2
  <1> QED
    BY <1>3, <1>4, <1>5 DEF Inv, ReportOK


-----------------------------------------------------------------------------
(* Every step of the FFI boundary and of the initialisation keeps Inv.     *)
LEMMA NextInv == Inv /\ [Next]_vars => Inv'
  <1> SUFFICES ASSUME Inv, [Next]_vars PROVE Inv'
    OBVIOUS
  <1>1. CASE UNCHANGED vars
    BY <1>1 DEF Inv, TypeOK, OnceOK, ReportOK, Reported, vars
  <1>2. CASE Next
    BY <1>2, SetNameInv, EnsureTelemetryInitializedInv, InstallSanitizedPanicHookInv,
       FfiCallInv, PanicInv, EndCallInv DEF Next
  <1> QED
    BY <1>1, <1>2

(* Inv holds in every state of the FFI boundary.                           *)
LEMMA InvAlways == Spec => []Inv
  BY InitInv, NextInv, PTL DEF Spec

(* What a call has reported is what its caller was told: one failure with  *)
(* the caller's status, or none after a success.                           *)
LEMMA InvReports == Inv => FailuresReportedOnce
  <1> SUFFICES ASSUME Inv, NEW t \in Thread, pc[t] = "idle", call[t].ready
               PROVE  LET failures == {i \in DOMAIN queue[t] :
                                         queue[t][i].event = "kcc_operation_failed"}
                      IN IF call[t].status = "SUCCESS" THEN failures = {}
                         ELSE \E i \in failures : /\ failures = {i}
                                                  /\ queue[t][i].status = call[t].status
    BY DEF FailuresReportedOnce
  <1> DEFINE failures == {i \in DOMAIN queue[t] :
                            queue[t][i].event = "kcc_operation_failed"}
  <1>1. Reported(t)
    BY DEF Inv, ReportOK
  <1>2. CASE call[t].status = "SUCCESS"
    <2>1. queue[t] = <<>>
      BY <1>1, <1>2 DEF Reported
    <2> QED
      BY <1>2, <2>1
  <1>3. CASE call[t].status = "NOT_FOUND"
    <2>1. queue[t] = <<FailureEvent(SERVICE_NAME, "error", "NOT_FOUND")>>
      BY <1>1, <1>3 DEF Reported
    <2>2. DOMAIN queue[t] = {1}
      BY <2>1
    <2>3. /\ queue[t][1].event = "kcc_operation_failed"
          /\ queue[t][1].status = "NOT_FOUND"
      BY <2>1 DEF FailureEvent
    <2>4. failures = {1}
      BY <2>2, <2>3
    <2> QED
      BY <1>3, <2>3, <2>4
  <1>4. CASE call[t].status = "INTERNAL_ERROR"
    <2>1. queue[t] = <<PanicEvent(SERVICE_NAME),
                       FailureEvent(SERVICE_NAME, "panic", "INTERNAL_ERROR")>>
      BY <1>1, <1>4 DEF Reported
    <2>2. DOMAIN queue[t] = {1, 2}
      BY <2>1
    <2>3. /\ queue[t][1].event = "fatal_panic_occurred"
          /\ queue[t][2].event = "kcc_operation_failed"
          /\ queue[t][2].status = "INTERNAL_ERROR"
      BY <2>1 DEF PanicEvent, FailureEvent
    <2>4. failures = {2}
      BY <2>2, <2>3
    <2> QED
      BY <1>4, <2>3, <2>4
  <1> QED
    BY <1>1, <1>2, <1>3, <1>4 DEF Reported

(* All events of a call that began when initialised carry the name that is *)
(* in the OnceLock now.                                                    *)
LEMMA ReportedName ==
  ASSUME Inv, NEW t \in Thread, call[t].ready,
         NEW e \in Range(queue[t])
  PROVE  e.name = SERVICE_NAME
  <1>1. Reported(t)
    BY DEF Inv, ReportOK
  <1>2. PICK i \in DOMAIN queue[t] : e = queue[t][i]
    BY DEF Range
  <1>3. queue[t] # <<>>
    BY <1>2
  <1>4. \A n : PanicEvent(n).name = n /\ \A k, s : FailureEvent(n, k, s).name = n
    BY DEF PanicEvent, FailureEvent
  <1>5. PICK f, g : /\ f.name = SERVICE_NAME /\ g.name = SERVICE_NAME
                    /\ queue[t] = <<f>> \/ queue[t] = <<f, g>>
    BY <1>1, <1>3, <1>4 DEF Reported
  <1>6. e = f \/ e = g
    BY <1>2, <1>5
  <1> QED
    BY <1>5, <1>6

(* FailuresReportedOnce for any number of threads: whatever the others     *)
(* initialise, a call that ffi_call began after key_manager_init_telemetry *)
(* returned reports its failure exactly once, with its caller's status.    *)
THEOREM EachFailureReportedOnce == Spec => []FailuresReportedOnce
  BY InvAlways, InvReports, PTL

(* OneServiceName for any number of threads and names: the OnceLock that   *)
(* key_manager_init_telemetry fills first keeps its name, and no call can  *)
(* begin ready before it is filled.                                        *)
THEOREM EventsCarryOneName == Spec => []OneServiceName
  <1>1. Inv => OneServiceName
    BY ReportedName DEF OneServiceName
  <1> QED
    BY <1>1, InvAlways, PTL

(* PanicsSanitized for any number of threads: nobody returns from          *)
(* key_manager_init_telemetry before install_sanitized_panic_hook's Once   *)
(* is done, so that no later panic reaches the default hook.               *)
THEOREM NoPanicPrinted == Spec => PanicsSanitized
  <1>1. Inv /\ [Next]_vars => [initialized => stderr' = stderr]_vars
    <2> SUFFICES ASSUME Inv, Next, initialized PROVE stderr' = stderr
      OBVIOUS
    <2>1. hook
      BY DEF Inv, OnceOK
    <2> QED
      BY <2>1 DEF Next, SetName, EnsureTelemetryInitialized, InstallSanitizedPanicHook,
                  FfiCall, Panic, EndCall
  <1> QED
    BY <1>1, InvAlways, PTL DEF Spec, PanicsSanitized

=============================================================================
