-------------------------- MODULE KeyClaimsProofs --------------------------
(***************************************************************************)
(* Proofs about what clients are told of the expiry of a key, for every    *)
(* resolution of the clock, every lifespan and any number of requests.     *)
(***************************************************************************)
EXTENDS KeyClaims, TLAPS

(* Most steps below are about sets, records and functions alone, and are   *)
(* left to Zenon; a step that needs more says so.                          *)
USE Zenon

(* secs is what as_secs makes of the time from at to the deadline d: the   *)
(* whole seconds, or none when d had passed.                               *)
Reads(secs, d, at) ==
  /\ d - at < (secs + 1) * TicksPerSecond
  /\ secs = 0 \/ secs * TicksPerSecond <= d - at

-----------------------------------------------------------------------------
(* Division by the ticks of a second rounds down.                          *)
LEMMA DivRoundsDown ==
  ASSUME NEW x \in Nat
  PROVE  /\ x \div TicksPerSecond \in Nat
         /\ (x \div TicksPerSecond) * TicksPerSecond <= x
         /\ x < (x \div TicksPerSecond + 1) * TicksPerSecond
BY SMT, KeyClaimsAssumption

(* Multiplication of seconds by the ticks of a second.                     *)
LEMMA SecondsInTicks ==
  /\ \A a \in Int : a * TicksPerSecond \in Int
  /\ 0 * TicksPerSecond = 0
BY SMT, KeyClaimsAssumption

(* The remaining lifespan of a key is read as whole seconds.               *)
LEMMA ReadsRemaining ==
  ASSUME NEW d \in Nat, NEW at \in Nat,
         NEW secs, secs = IF d < at THEN 0 ELSE (d - at) \div TicksPerSecond
  PROVE  secs \in Nat /\ Reads(secs, d, at)
<1>1. CASE d < at
  BY SMT, <1>1, KeyClaimsAssumption DEF Reads
<1>2. CASE ~(d < at)
  <2>1. d - at \in Nat
    BY SMT, <1>2
  <2> QED
    BY <1>2, <2>1, DivRoundsDown DEF Reads
<1> QED
  BY <1>1, <1>2

(* The lifespan asked for is what the key has when it is made.             *)
LEMMA ReadsLifespan ==
  ASSUME NEW life \in Nat, NEW at \in Nat
  PROVE  /\ at + life * TicksPerSecond \in Nat
         /\ Reads(life, at + life * TicksPerSecond, at)
<1>1. /\ life * TicksPerSecond \in Nat /\ TicksPerSecond \in Nat \ {0}
      /\ (life + 1) * TicksPerSecond = life * TicksPerSecond + TicksPerSecond
  BY SMT, KeyClaimsAssumption
<1> DEFINE ticks == life * TicksPerSecond
<1> HIDE DEF ticks
<1>2. at + ticks \in Nat /\ (at + ticks) - at = ticks
  BY SMT, <1>1 DEF ticks
<1> QED
  BY SMT, <1>1, <1>2 DEF ticks, Reads

(* Duration neither overflows nor overstates: it is not negative, and not  *)
(* longer than the seconds it is made from.                                *)
LEMMA DurationBounds ==
  ASSUME NEW secs \in Nat
  PROVE  /\ Duration(secs) \in Nat
         /\ Duration(secs) <= secs * TicksPerSecond
<1> DEFINE ticks == secs * TicksPerSecond
           q == MaxInt64 \div TicksPerSecond
<1>1. /\ ticks \in Nat /\ MaxInt64 \in Nat /\ q \in Nat
      /\ q * TicksPerSecond <= MaxInt64 /\ MaxInt64 < (q + 1) * TicksPerSecond
  BY SMT, KeyClaimsAssumption, DivRoundsDown
<1>2. CASE secs > q
  <2>1. (q + 1) * TicksPerSecond <= ticks
    BY SMT, <1>1, <1>2, KeyClaimsAssumption
  <2> QED
    BY SMT, <1>1, <1>2, <2>1, KeyClaimsAssumption DEF Duration
<1>3. CASE ~(secs > q)
  <2>1. ticks <= MaxInt64
    <3>1. ticks <= q * TicksPerSecond
      BY SMT, <1>1, <1>3, KeyClaimsAssumption
    <3> QED
      BY SMT, <1>1, <3>1, KeyClaimsAssumption
  <2> HIDE DEF ticks
  <2>2. (ticks + MaxInt64 + 1) % (2 * (MaxInt64 + 1)) = ticks + MaxInt64 + 1
    BY SMT, <1>1, <2>1
  <2>3. Wrap(ticks) = ticks
    BY SMT, <1>1, <2>2 DEF Wrap
  <2> QED
    BY SMT, <1>1, <1>3, <2>3 DEF Duration, ticks
<1> QED
  BY <1>2, <1>3

-----------------------------------------------------------------------------
Made == {k \in Key : deleteAfter[k] # None}

TypeOK ==
  /\ now \in Nat
  /\ phase \in 0 .. TicksPerSecond - 1
  /\ deleteAfter \in [Key -> Nat \cup {None}]
  /\ registry \subseteq Made
  /\ DOMAIN pc = Request /\ DOMAIN req = Request /\ DOMAIN said = Request

(* Only time, a destroy and the end of the process take a key away.        *)
RegistryOK ==
  \A k \in Made \ removed : deleteAfter[k] > now => k \in registry

(* What a request knows of its key.                                        *)
RequestOK(r) ==
  /\ pc[r] \in {"idle", "made", "found", "read", "claimed"}
  /\ pc[r] # "idle" =>
       /\ req[r] \in [key : Made, secs : Nat, readAt : Nat]
       /\ req[r].readAt <= now
  /\ pc[r] \in {"made", "read"} =>
       Reads(req[r].secs, deleteAfter[req[r].key], req[r].readAt)

(* The expiration time e, given at time t, for a key with deadline d whose *)
(* remaining lifespan was read at time a.                                  *)
ExpirationOK(e, d, a, t) ==
  /\ d + phase < (e + 2) * TicksPerSecond
  /\ \/ e * TicksPerSecond <= t + phase
     \/ e * TicksPerSecond <= t + phase + (d - a)

SaidOK(r) ==
  said[r] # None =>
    /\ said[r].key \in Made
    /\ said[r].expiration \in Nat /\ said[r].readAt \in Nat /\ said[r].saidAt \in Nat
    /\ said[r].readAt <= said[r].saidAt /\ said[r].saidAt <= now
    /\ ExpirationOK(said[r].expiration, deleteAfter[said[r].key], said[r].readAt,
                    said[r].saidAt)

ClaimOK(r) ==
  pc[r] = "claimed" =>
    /\ said[r].key \in Made
    /\ said[r].remaining >= 0
    /\ said[r].remaining > 0 =>
         said[r].remaining <= deleteAfter[said[r].key] - said[r].readAt

Inv ==
  /\ TypeOK
  /\ RegistryOK
  /\ \A r \in Request : RequestOK(r) /\ SaidOK(r) /\ ClaimOK(r)


-----------------------------------------------------------------------------
(* The expiration time of an answer, for seconds that were read earlier.   *)
LEMMA ExpirationIsOK ==
  ASSUME TypeOK, NEW secs \in Nat, NEW d \in Nat, NEW a \in Nat, a <= now, Reads(secs, d, a)
  PROVE  /\ ExpirationTime(secs) \in Nat
         /\ ExpirationOK(ExpirationTime(secs), d, a, now)
<1> DEFINE U == Unix
           T == TicksPerSecond
<1>1. now \in Nat /\ phase \in Nat /\ now + phase \in Nat /\ T \in Nat
  BY SMT, KeyClaimsAssumption DEF TypeOK
<1>2. U \in Nat /\ U * T <= now + phase /\ now + phase < (U + 1) * T
  BY <1>1, DivRoundsDown DEF Unix
<1> HIDE DEF U
<1>3. /\ (U + secs) * T = U * T + secs * T
      /\ (U + secs + 2) * T = (U + 1) * T + (secs + 1) * T
      /\ U * T \in Int /\ secs * T \in Int /\ (U + 1) * T \in Int /\ (secs + 1) * T \in Int
      /\ secs = 0 => secs * T = 0
  BY SMT, <1>2, KeyClaimsAssumption
<1>4. /\ d - a < (secs + 1) * T
      /\ secs * T = 0 \/ secs * T <= d - a
  BY <1>3 DEF Reads
<1>5. \A x, y, z, w \in Int :
        /\ d - a < y /\ now + phase < x => d + phase < x + y
        /\ z <= now + phase /\ w = 0 => z + w <= now + phase
        /\ z <= now + phase /\ w <= d - a => z + w <= now + phase + (d - a)
  BY SMT, <1>1
<1>6. d + phase < (U + secs + 2) * T
  BY <1>2, <1>3, <1>4, <1>5
<1>7. \/ (U + secs) * T <= now + phase
      \/ (U + secs) * T <= now + phase + (d - a)
  BY <1>2, <1>3, <1>4, <1>5
<1> QED
  BY SMT, <1>2, <1>6, <1>7 DEF ExpirationTime, ExpirationOK, U

(* A request that keeps still stays consistent, whatever others do.        *)
LEMMA StillConsistent ==
  ASSUME Inv, NEW q \in Request, pc'[q] = pc[q], req'[q] = req[q], said'[q] = said[q],
         \A k \in Made : k \in Made' /\ deleteAfter'[k] = deleteAfter[k],
         now' \in Nat, now <= now', phase' = phase
  PROVE  RequestOK(q)' /\ SaidOK(q)' /\ ClaimOK(q)'
<1>0. now \in Nat /\ RequestOK(q) /\ SaidOK(q) /\ ClaimOK(q)
  BY DEF Inv, TypeOK
<1>1. RequestOK(q)'
  <2>1. CASE pc[q] = "idle"
    BY <2>1 DEF RequestOK
  <2>2. CASE pc[q] # "idle"
    <3>1. /\ req[q] \in [key : Made, secs : Nat, readAt : Nat]
          /\ req[q].readAt <= now /\ req[q].readAt \in Nat /\ req[q].key \in Made
      BY <1>0, <2>2 DEF RequestOK
    <3>2. req'[q] \in [key : Made', secs : Nat, readAt : Nat] /\ req'[q].readAt <= now'
      BY SMT, <1>0, <3>1
    <3> QED
      BY <1>0, <3>1, <3>2 DEF RequestOK, Reads
  <2> QED
    BY <2>1, <2>2
<1>2. SaidOK(q)'
  BY SMT, <1>0 DEF SaidOK, ExpirationOK
<1>3. ClaimOK(q)'
  BY <1>0 DEF ClaimOK
<1> QED
  BY <1>1, <1>2, <1>3

(* The registry and the clock: what is drawn, dropped, reaped or lost.     *)
LEMMA StoreStep ==
  ASSUME Inv, [Next]_vars
  PROVE  /\ TypeOK' /\ RegistryOK'
         /\ \A k \in Made : k \in Made' /\ deleteAfter'[k] = deleteAfter[k]
         /\ now <= now' /\ phase' = phase
<1>0. /\ TypeOK /\ RegistryOK /\ now \in Nat
      /\ \A k \in Made : deleteAfter[k] \in Nat
  BY DEF Inv, TypeOK, Made
<1>1. ASSUME NEW r \in Request, NEW k \in Key, NEW life \in Lifespan, GenerateKey(r, k, life)
      PROVE  /\ TypeOK' /\ RegistryOK'
             /\ \A j \in Made : j \in Made' /\ deleteAfter'[j] = deleteAfter[j]
             /\ now <= now' /\ phase' = phase
  <2>1. now + life * TicksPerSecond \in Nat
    BY <1>0, ReadsLifespan, KeyClaimsAssumption
  <2>2. /\ UNCHANGED <<now, phase, removed>> /\ registry' = registry \cup {k}
        /\ deleteAfter'[k] = now + life * TicksPerSecond /\ deleteAfter[k] = None
        /\ \A j \in Key \ {k} : deleteAfter'[j] = deleteAfter[j]
    BY <1>0, <1>1 DEF GenerateKey, TypeOK
  <2>3. Made' = Made \cup {k} /\ k \notin Made
    BY <2>1, <2>2, KeyClaimsAssumption DEF Made
  <2>4. TypeOK'
    BY <1>0, <1>1, <2>1, <2>2, <2>3 DEF GenerateKey, Goto, TypeOK
  <2> QED
    BY SMT, <1>0, <2>2, <2>3, <2>4 DEF RegistryOK, Made
<1>2. CASE UNCHANGED <<now, phase, deleteAfter, registry, removed>> /\ TypeOK'
  BY SMT, <1>0, <1>2 DEF RegistryOK, Made
<1>3. ASSUME NEW r \in Request,
             \/ AnswerGenerate(r) \/ (\E k \in Key : GetKey(r, k)) \/ ReadRemaining(r)
             \/ EnumerateEntry(r) \/ GetKeyClaims(r) \/ Endorse(r) \/ ClaimsTimeout(r)
      PROVE  UNCHANGED <<now, phase, deleteAfter, registry, removed>> /\ TypeOK'
  BY <1>0, <1>3 DEF AnswerGenerate, GetKey, ReadRemaining, EnumerateEntry, GetKeyClaims,
     Endorse, ClaimsTimeout, End, Goto, Say, TypeOK, Made
<1>4. CASE UNCHANGED vars
  BY <1>0, <1>2, <1>4 DEF vars, TypeOK, Made
<1>5. ASSUME NEW gone, Remove(gone)
      PROVE  /\ TypeOK' /\ RegistryOK'
             /\ \A j \in Made : j \in Made' /\ deleteAfter'[j] = deleteAfter[j]
             /\ now <= now' /\ phase' = phase
  BY SMT, <1>0, <1>5 DEF Remove, TypeOK, RegistryOK, Made
<1>6. CASE Reap
  <2>1. PICK t \in 0 .. now : registry' = {k \in registry : deleteAfter[k] > t}
    BY <1>6 DEF Reap
  <2>2. UNCHANGED <<now, phase, deleteAfter, removed, pc, req, said>>
    BY <1>6 DEF Reap
  <2>3. RegistryOK'
    BY SMT, <1>0, <2>1, <2>2 DEF RegistryOK, Made
  <2> QED
    BY SMT, <1>0, <2>1, <2>2, <2>3 DEF TypeOK, Made
<1>7. CASE Tick
  <2>1. now' = now + 1 /\ UNCHANGED <<phase, deleteAfter, registry, removed, pc, req, said>>
    BY <1>7 DEF Tick
  <2>2. RegistryOK'
    BY SMT, <1>0, <2>1 DEF RegistryOK, Made
  <2> QED
    BY SMT, <1>0, <2>1, <2>2 DEF TypeOK, Made
<1> QED
  BY <1>1, <1>2, <1>3, <1>4, <1>5, <1>6, <1>7 DEF Next


(* A step of request r.                                                    *)
RequestStep(r) ==
  \/ \E k \in Key, life \in Lifespan : GenerateKey(r, k, life)
  \/ AnswerGenerate(r)
  \/ \E k \in Key : GetKey(r, k)
  \/ ReadRemaining(r)
  \/ EnumerateEntry(r)
  \/ GetKeyClaims(r)
  \/ Endorse(r)
  \/ ClaimsTimeout(r)

(* A step of one request leaves the others where they are.                 *)
LEMMA OthersKeep ==
  ASSUME TypeOK, NEW r \in Request, RequestStep(r), NEW q \in Request, q # r
  PROVE  pc'[q] = pc[q] /\ req'[q] = req[q] /\ said'[q] = said[q]
BY DEF TypeOK, RequestStep, GenerateKey, AnswerGenerate, GetKey, ReadRemaining,
   EnumerateEntry, GetKeyClaims, Endorse, ClaimsTimeout, Say, End, Goto

(* What an answer says of the key of its request is right.                 *)
LEMMA SaysRight ==
  ASSUME Inv, NEW r \in Request, pc[r] \in {"made", "read"}, NEW remaining,
         Say(r, remaining), UNCHANGED <<now, phase, deleteAfter>>
  PROVE  /\ SaidOK(r)'
         /\ said'[r].key = req[r].key /\ said'[r].readAt = req[r].readAt
         /\ said'[r].remaining = remaining
<1>1. /\ TypeOK /\ RequestOK(r)
  BY DEF Inv
<1>2. /\ req[r].key \in Made /\ req[r].secs \in Nat /\ req[r].readAt \in Nat
      /\ req[r].readAt <= now /\ now \in Nat
      /\ Reads(req[r].secs, deleteAfter[req[r].key], req[r].readAt)
  BY <1>1 DEF RequestOK, TypeOK
<1>3. deleteAfter[req[r].key] \in Nat
  BY <1>1, <1>2 DEF TypeOK, Made
<1>4. /\ ExpirationTime(req[r].secs) \in Nat
      /\ ExpirationOK(ExpirationTime(req[r].secs), deleteAfter[req[r].key],
                      req[r].readAt, now)
  BY <1>1, <1>2, <1>3, ExpirationIsOK
<1>5. said'[r] = [key |-> req[r].key, expiration |-> ExpirationTime(req[r].secs),
                  remaining |-> remaining, readAt |-> req[r].readAt, saidAt |-> now]
  BY <1>1 DEF Say, TypeOK
<1>6. /\ said'[r].key = req[r].key /\ said'[r].expiration = ExpirationTime(req[r].secs)
      /\ said'[r].remaining = remaining
      /\ said'[r].readAt = req[r].readAt /\ said'[r].saidAt = now
  BY SMT, <1>5
<1>7. Made' = Made
  BY DEF Made
<1>8. SaidOK(r)'
  BY SMT, <1>2, <1>4, <1>6, <1>7 DEF SaidOK, ExpirationOK
<1> QED
  BY <1>6, <1>8

(* A request that moves stays consistent.                                  *)
LEMMA MovedConsistent ==
  ASSUME Inv, TypeOK', NEW r \in Request, RequestStep(r)
  PROVE  RequestOK(r)' /\ SaidOK(r)' /\ ClaimOK(r)'
<1>0. TypeOK /\ RequestOK(r) /\ SaidOK(r) /\ ClaimOK(r) /\ now \in Nat
  BY DEF Inv, TypeOK
<1>1. ASSUME NEW k \in Key, NEW life \in Lifespan, GenerateKey(r, k, life)
      PROVE  RequestOK(r)' /\ SaidOK(r)' /\ ClaimOK(r)'
  <2>1. /\ pc'[r] = "made" /\ said'[r] = said[r] /\ UNCHANGED <<now, phase>>
        /\ req'[r] = [key |-> k, secs |-> life, readAt |-> now]
        /\ deleteAfter'[k] = now + life * TicksPerSecond /\ deleteAfter[k] = None
        /\ \A j \in Key \ {k} : deleteAfter'[j] = deleteAfter[j]
    BY <1>0, <1>1 DEF GenerateKey, Goto, TypeOK
  <2>2. /\ life \in Nat /\ now + life * TicksPerSecond \in Nat
        /\ Reads(life, now + life * TicksPerSecond, now)
    BY <1>0, ReadsLifespan, KeyClaimsAssumption
  <2>3. Made' = Made \cup {k} /\ k \notin Made
    BY <2>1, <2>2, KeyClaimsAssumption DEF Made
  <2>4. RequestOK(r)'
    <3>1. /\ req'[r] \in [key : Made', secs : Nat, readAt : Nat]
          /\ req'[r].key = k /\ req'[r].secs = life /\ req'[r].readAt = now
      BY SMT, <1>0, <2>1, <2>2, <2>3
    <3> QED
      BY SMT, <1>0, <2>1, <2>2, <3>1 DEF RequestOK
  <2>5. SaidOK(r)'
    BY <1>0, <2>1, <2>3 DEF SaidOK, ExpirationOK, Made
  <2> QED
    BY <2>1, <2>4, <2>5 DEF ClaimOK
<1>2. CASE AnswerGenerate(r) \/ EnumerateEntry(r)
  <2>1. /\ pc'[r] = "idle" /\ pc[r] \in {"made", "read"} /\ Say(r, 0)
        /\ UNCHANGED <<now, phase, deleteAfter>>
    BY <1>0, <1>2 DEF AnswerGenerate, EnumerateEntry, End, Goto, TypeOK
  <2> QED
    BY <2>1, SaysRight DEF RequestOK, ClaimOK
<1>3. ASSUME NEW k \in Key, GetKey(r, k)
      PROVE  RequestOK(r)' /\ SaidOK(r)' /\ ClaimOK(r)'
  <2>1. /\ pc'[r] = "found" /\ said'[r] = said[r] /\ UNCHANGED <<now, phase, deleteAfter>>
        /\ req'[r] = [key |-> k, secs |-> 0, readAt |-> now] /\ k \in Made'
    BY <1>0, <1>3 DEF GetKey, Live, Goto, TypeOK, Made
  <2>2. req'[r] \in [key : Made', secs : Nat, readAt : Nat] /\ req'[r].readAt <= now'
    BY SMT, <1>0, <2>1
  <2> QED
    BY <1>0, <2>1, <2>2 DEF RequestOK, SaidOK, ExpirationOK, ClaimOK, Made
<1>4. CASE ReadRemaining(r)
  <2> DEFINE d == deleteAfter[req[r].key]
             secs == IF d < now THEN 0 ELSE (d - now) \div TicksPerSecond
  <2>1. /\ pc[r] = "found" /\ pc'[r] = "read" /\ said'[r] = said[r]
        /\ UNCHANGED <<now, phase, deleteAfter>>
        /\ req[r] \in [key : Made, secs : Nat, readAt : Nat]
    BY <1>0, <1>4 DEF ReadRemaining, Goto, TypeOK, RequestOK
  <2>2. d \in Nat
    BY <1>0, <2>1 DEF TypeOK, Made
  <2>3. secs \in Nat /\ Reads(secs, d, now)
    BY <1>0, <2>2, ReadsRemaining
  <2>4. req'[r] = [req[r] EXCEPT !.secs = secs, !.readAt = now]
    BY <1>0, <1>4 DEF ReadRemaining, TypeOK
  <2> HIDE DEF secs, d
  <2>5. /\ req'[r] \in [key : Made, secs : Nat, readAt : Nat]
        /\ req'[r].key = req[r].key /\ req'[r].secs = secs /\ req'[r].readAt = now
    BY <1>0, <2>1, <2>3, <2>4
  <2>6. RequestOK(r)'
    BY SMT, <1>0, <2>1, <2>3, <2>5 DEF RequestOK, Made, d
  <2> QED
    BY <1>0, <2>1, <2>6 DEF SaidOK, ExpirationOK, ClaimOK, Made
<1>5. CASE GetKeyClaims(r)
  <2>1. /\ pc'[r] = "claimed" /\ pc[r] = "read" /\ Say(r, Duration(req[r].secs))
        /\ UNCHANGED <<now, phase, deleteAfter, req>>
    BY <1>0, <1>5 DEF GetKeyClaims, Goto, TypeOK
  <2>2. /\ SaidOK(r)' /\ said'[r].key = req[r].key /\ said'[r].readAt = req[r].readAt
        /\ said'[r].remaining = Duration(req[r].secs)
    BY <2>1, SaysRight
  <2>3. /\ req[r].key \in Made /\ req[r].secs \in Nat /\ req[r].readAt \in Nat
        /\ Reads(req[r].secs, deleteAfter[req[r].key], req[r].readAt)
    BY <1>0, <2>1 DEF RequestOK
  <2>4. deleteAfter[req[r].key] - req[r].readAt \in Int
    BY SMT, <1>0, <2>3 DEF TypeOK, Made
  <2>5. /\ Duration(req[r].secs) \in Nat
        /\ Duration(req[r].secs) > 0 =>
             Duration(req[r].secs) <= deleteAfter[req[r].key] - req[r].readAt
    <3>1. /\ Duration(req[r].secs) \in Nat
          /\ Duration(req[r].secs) <= req[r].secs * TicksPerSecond
      BY <2>3, DurationBounds
    <3>2. /\ req[r].secs = 0 => req[r].secs * TicksPerSecond = 0
          /\ req[r].secs * TicksPerSecond \in Int
      <4>1. \A n \in Nat : n * TicksPerSecond \in Int /\ (n = 0 => n * TicksPerSecond = 0)
        BY SMT, SecondsInTicks
      <4> QED
        BY <2>3, <4>1
    <3>3. \/ req[r].secs * TicksPerSecond = 0
          \/ req[r].secs * TicksPerSecond <= deleteAfter[req[r].key] - req[r].readAt
      BY <2>3, <3>2 DEF Reads
    <3> QED
      BY SMT, <2>4, <3>1, <3>2, <3>3
  <2>6. ClaimOK(r)'
    BY SMT, <2>1, <2>2, <2>3, <2>5 DEF ClaimOK, Made
  <2>7. RequestOK(r)'
    BY <1>0, <2>1 DEF RequestOK, Made
  <2> QED
    BY <2>2, <2>6, <2>7
<1>6. CASE Endorse(r) \/ ClaimsTimeout(r)
  <2>1. pc'[r] = "idle" /\ said'[r] = said[r] /\ UNCHANGED <<now, phase, deleteAfter>>
    BY <1>0, <1>6 DEF Endorse, ClaimsTimeout, End, Goto, TypeOK
  <2> QED
    BY <1>0, <2>1 DEF RequestOK, SaidOK, ExpirationOK, ClaimOK, Made
<1> QED
  BY <1>1, <1>2, <1>3, <1>4, <1>5, <1>6 DEF RequestStep


-----------------------------------------------------------------------------
(* Inv is an invariant.                                                    *)
LEMMA Invariance == Spec => []Inv
<1>1. Init => Inv
  BY SMT, KeyClaimsAssumption
     DEF Init, Inv, TypeOK, RegistryOK, RequestOK, SaidOK, ClaimOK, Made
<1>2. Inv /\ [Next]_vars => Inv'
  <2> SUFFICES ASSUME Inv, [Next]_vars PROVE Inv'
    OBVIOUS
  <2>1. /\ TypeOK' /\ RegistryOK' /\ TypeOK
        /\ \A k \in Made : k \in Made' /\ deleteAfter'[k] = deleteAfter[k]
        /\ now' \in Nat /\ now <= now' /\ phase' = phase
    BY StoreStep DEF Inv, TypeOK
  <2>2. ASSUME NEW q \in Request PROVE RequestOK(q)' /\ SaidOK(q)' /\ ClaimOK(q)'
    <3>1. CASE pc'[q] = pc[q] /\ req'[q] = req[q] /\ said'[q] = said[q]
      BY <2>1, <3>1, StillConsistent
    <3>2. CASE \E r \in Request : RequestStep(r)
      BY <2>1, <3>1, <3>2, OthersKeep, MovedConsistent
    <3>3. CASE (\E k \in registry : Remove({k})) \/ Remove(registry) \/ Reap \/ Tick
      BY <3>1, <3>3 DEF Remove, Reap, Tick
    <3>4. CASE UNCHANGED vars
      BY <3>1, <3>4 DEF vars
    <3> QED
      BY <3>2, <3>3, <3>4 DEF Next, RequestStep
  <2> QED
    BY <2>1, <2>2 DEF Inv
<1> QED
  BY <1>1, <1>2, PTL DEF Spec

(* Two seconds after any expiration time that ExpirationTime or the answer *)
(* to generate_key gave for it, a key is not used any more.                *)
THEOREM ExpiredWhenSaid == Spec => []GoneByExpiration
<1>1. ASSUME Inv PROVE GoneByExpiration
  <2> SUFFICES ASSUME NEW r \in Request, said[r] # None, Live(said[r].key)
               PROVE  now + phase < (said[r].expiration + 2) * TicksPerSecond
    BY DEF GoneByExpiration
  <2> DEFINE d == deleteAfter[said[r].key]
             e == (said[r].expiration + 2) * TicksPerSecond
  <2>1. now \in Nat /\ phase \in Nat /\ d \in Nat /\ e \in Int
    BY SMT, <1>1, KeyClaimsAssumption DEF Inv, TypeOK, SaidOK, Made
  <2>2. d + phase < e /\ now < d
    BY <1>1, <2>1 DEF Inv, SaidOK, ExpirationOK, Live
  <2> HIDE DEF d, e
  <2>3. now + phase < e
    BY SMT, <2>1, <2>2
  <2> QED
    BY <2>3 DEF e
<1> QED
  BY <1>1, Invariance, PTL

(* Until the expiration time given for it, less the delay between the      *)
(* reading and the answer, a key that is not destroyed is there.           *)
THEOREM KeptAsSaid == Spec => []KeptUntilExpiration
<1>1. ASSUME Inv PROVE KeptUntilExpiration
  <2> SUFFICES ASSUME NEW r \in Request, said[r] # None, said[r].key \notin removed,
                      now + phase + (said[r].saidAt - said[r].readAt)
                        < said[r].expiration * TicksPerSecond
               PROVE  Live(said[r].key)
    BY DEF KeptUntilExpiration
  <2> DEFINE d == deleteAfter[said[r].key]
             e == said[r].expiration * TicksPerSecond
             a == said[r].readAt
             t == said[r].saidAt
  <2>1. now \in Nat /\ phase \in Nat /\ d \in Nat /\ e \in Int /\ a \in Nat /\ t \in Nat
    BY SMT, <1>1, KeyClaimsAssumption DEF Inv, TypeOK, SaidOK, Made
  <2>2. /\ a <= t /\ t <= now /\ said[r].key \in Made
        /\ e <= t + phase \/ e <= t + phase + (d - a)
    BY <1>1, <2>1 DEF Inv, SaidOK, ExpirationOK
  <2>3. now + phase + (t - a) < e
    OBVIOUS
  <2> HIDE DEF d, e, a, t
  <2>4. now < d
    BY SMT, <2>1, <2>2, <2>3
  <2>5. said[r].key \in registry
    BY <1>1, <2>1, <2>2, <2>4 DEF Inv, RegistryOK, d
  <2> QED
    BY <2>1, <2>4, <2>5 DEF Live, d
<1> QED
  BY <1>1, Invariance, PTL

(* The remaining lifespan in the claims is neither negative nor longer     *)
(* than what the key had left, whatever its lifespan: the multiplication   *)
(* to a 64-bit time.Duration does not overflow.                            *)
THEOREM ClaimsNotOverstated == Spec => []RemainingNotOverstated
<1>1. Inv => RemainingNotOverstated
  BY DEF Inv, ClaimOK, RemainingNotOverstated
<1> QED
  BY <1>1, Invariance, PTL

=============================================================================
