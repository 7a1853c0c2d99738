----------------------------- MODULE Heartbeat -----------------------------
(***************************************************************************)
(* The heartbeat goroutine of the workload service (startHeartbeat and     *)
(* performHeartbeat in workload_service/server.go) and the boots of the    *)
(* KPS process it watches.  The KPS draws a new boot token at every start; *)
(* tokens are numbered 1, 2, ... here, and 0 is the empty string.          *)
(*                                                                         *)
(* A step that runs cleanupState is an action of its own (TokenMismatch,   *)
(* BackoffExhausted): the module that composes this one with the key       *)
(* stores says what is purged.                                             *)
(***************************************************************************)
EXTENDS Naturals

CONSTANTS
  MaxBoot,          \* bound on the starts of the KPS
  InitialBackoff, MaxBackoff

ASSUME HeartbeatAssumption ==
  /\ MaxBoot \in Nat \ {0}
  /\ InitialBackoff \in Nat \ {0}
  /\ MaxBackoff \in Nat
  /\ InitialBackoff <= MaxBackoff

VARIABLES
  up, boot,     \* is the KPS running, and its boot token
  hb,           \* what the goroutine is doing
  token,        \* the token in the response on its way back
  backoff,      \* the delay before the next attempt
  cachedToken

hbState == <<hb, token, backoff, cachedToken>>
hbVars == <<up, boot, hb, token, backoff, cachedToken>>

-----------------------------------------------------------------------------
HeartbeatInit ==
  /\ hb = "calling"
  /\ token = 0
  /\ backoff = InitialBackoff
  /\ cachedToken = 0

KpsInit == up = TRUE /\ boot = 1

(* The KPS process dies with everything it holds in memory ...             *)
KpsCrash ==
  /\ up
  /\ up' = FALSE
  /\ UNCHANGED <<boot, hbState>>

(* ... and systemd starts it again.                                        *)
KpsStart ==
  /\ ~up
  /\ boot < MaxBoot
  /\ up' = TRUE
  /\ boot' = boot + 1
  /\ UNCHANGED hbState

(* The ticker fires: performHeartbeat begins.                              *)
HeartbeatTick ==
  /\ hb = "waiting"
  /\ hb' = "calling"
  /\ backoff' = InitialBackoff
  /\ UNCHANGED <<up, boot, token, cachedToken>>

(* The KPS handles the Heartbeat call.                                     *)
HeartbeatAnswer ==
  /\ hb = "calling"
  /\ up
  /\ hb' = "answered"
  /\ token' = boot
  /\ UNCHANGED <<up, boot, backoff, cachedToken>>

(* The call or its answer is lost, refused or too late.                    *)
HeartbeatFailure ==
  /\ hb \in {"calling", "answered"}
  /\ hb' = "backingOff"
  /\ token' = 0
  /\ UNCHANGED <<up, boot, backoff, cachedToken>>

(* Mutant: any token is as good as the cached one.                         *)
HeartbeatSuccessAnyToken ==
  /\ hb = "answered"
  /\ cachedToken' = token
  /\ hb' = "waiting"
  /\ token' = 0
  /\ UNCHANGED <<up, boot, backoff>>

(* A known token, or the first one ever.                                   *)
HeartbeatSuccess ==
  /\ hb = "answered"
  /\ cachedToken \in {0, token}
  /\ cachedToken' = token
  /\ hb' = "waiting"
  /\ token' = 0
  /\ UNCHANGED <<up, boot, backoff>>

(* Another token than the last time: cleanupState, then cache it.          *)
TokenMismatch ==
  /\ hb = "answered"
  /\ cachedToken \notin {0, token}
  /\ cachedToken' = token
  /\ hb' = "waiting"
  /\ token' = 0
  /\ UNCHANGED <<up, boot, backoff>>

(* Mutant: the delay doubles without the cap.                              *)
BackoffRetryUncapped ==
  /\ hb = "backingOff"
  /\ backoff < MaxBackoff
  /\ hb' = "calling"
  /\ backoff' = 2 * backoff
  /\ UNCHANGED <<up, boot, token, cachedToken>>

(* Mutant: the loop retries for ever at the longest delay and never cleans *)
(* up.                                                                     *)
BackoffRetryForEver ==
  /\ hb = "backingOff"
  /\ hb' = "calling"
  /\ backoff' = IF 2 * backoff > MaxBackoff THEN MaxBackoff ELSE 2 * backoff
  /\ UNCHANGED <<up, boot, token, cachedToken>>

(* The timer fires: try again, after twice the delay next time.            *)
BackoffRetry ==
  /\ hb = "backingOff"
  /\ backoff < MaxBackoff
  /\ hb' = "calling"
  /\ backoff' = IF 2 * backoff > MaxBackoff THEN MaxBackoff ELSE 2 * backoff
  /\ UNCHANGED <<up, boot, token, cachedToken>>

(* The timer fires after the longest delay: cleanupState, and wait for the *)
(* ticker.  The cached token is kept.                                      *)
BackoffExhausted ==
  /\ hb = "backingOff"
  /\ backoff >= MaxBackoff
  /\ hb' = "waiting"
  /\ UNCHANGED <<up, boot, token, backoff, cachedToken>>

HeartbeatTypeOK ==
  /\ up \in BOOLEAN
  /\ boot \in 1..MaxBoot
  /\ hb \in {"waiting", "calling", "answered", "backingOff"}
  /\ token \in 0..MaxBoot
  /\ backoff \in InitialBackoff..MaxBackoff
  /\ cachedToken \in 0..MaxBoot

=============================================================================
