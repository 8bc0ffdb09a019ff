------------------------ MODULE ProviderCircuitProofs ------------------------
(* Theorems about ProviderCircuit for every value of its constants.        *)
EXTENDS ProviderCircuit, TLAPS

USE RequestsAssumption, ConfigAssumption, WindowAssumption

\* The owner of the half-open row knows its lease exactly.
LeaseTold ==
  \A r \in Requests : state = "half_open" /\ Owns(r) => granted[r] = leaseLeft

\* A closed circuit is below the threshold.
BelowThreshold == state = "closed" => failureCount < FailuresToOpen

\* The inductive invariant: what a probe was told is what the row says
\* (LeaseHonoured), and the other way round (LeaseTold).
IInv == TypeOK /\ LeaseHonoured /\ LeaseTold /\ BelowThreshold

LEMMA ForgottenType == Forgotten \in Nat /\ Forgotten > 0
  BY DEF Forgotten

LEMMA LessType ==
  ASSUME NEW n \in Nat
  PROVE  /\ Less(n) \in Nat /\ Less(n) <= n
         /\ Less(n) > 0 => n > 0
  BY DEF Less

LEMMA InitInv == Init => IInv
  <1> SUFFICES ASSUME Init PROVE IInv
    OBVIOUS
  <1>1. probeOwned \in BOOLEAN
    BY Zenon DEF Init
  <1>2. token \in [Requests -> BOOLEAN]
    BY Zenon DEF Init
  <1>3. waitLeft \in [Requests -> 0..Cooldown] /\ granted \in [Requests -> Nat]
    BY DEF Init
  <1>4. phase \in [Requests -> {"idle", "waiting", "running", "reported"}]
    BY DEF Init
  <1>5. TypeOK
    BY <1>1, <1>2, <1>3, <1>4, ForgottenType DEF Init, TypeOK
  <1>6. LeaseHonoured /\ LeaseTold /\ BelowThreshold
    BY DEF Init, LeaseHonoured, LeaseTold, BelowThreshold
  <1>7. QED
    BY <1>5, <1>6 DEF IInv

-----------------------------------------------------------------------------
(* getProviderCircuitDecision keeps the invariant                          *)

\* With no live lease in the row nobody has been granted one.
LEMMA NobodyGranted ==
  ASSUME IInv, state # "half_open" \/ ~probeOwned \/ leaseLeft = 0, NEW r \in Requests
  PROVE  granted[r] = 0
  BY DEF IInv, TypeOK, LeaseHonoured

LEMMA AdmitAsProbeInv ==
  ASSUME IInv, NEW r \in Requests, AdmitAsProbe(r),
         state # "half_open" \/ ~probeOwned
  PROVE  IInv'
  <1>1. \A s \in Requests : granted[s] = 0
    BY NobodyGranted
  <1>2. TypeOK'
    BY DEF IInv, TypeOK, AdmitAsProbe, HalfOpenCircuit
  <1>3. \A s \in Requests : granted'[s] = IF s = r THEN Window[r] ELSE 0
    BY <1>1 DEF IInv, TypeOK, AdmitAsProbe
  <1>4. LeaseHonoured' /\ LeaseTold' /\ BelowThreshold'
    BY <1>3 DEF IInv, TypeOK, AdmitAsProbe, HalfOpenCircuit, LeaseHonoured, LeaseTold,
                Owns, BelowThreshold
  <1>5. QED
    BY <1>2, <1>4 DEF IInv

LEMMA RefuseType ==
  ASSUME TypeOK, NEW r \in Requests, NEW left \in 0..Cooldown, Refuse(r, left)
  PROVE  /\ phase' \in [Requests -> {"idle", "waiting", "running", "reported"}]
         /\ waitLeft' \in [Requests -> 0..Cooldown]
         /\ UNCHANGED <<token, granted>>
  BY DEF TypeOK, Refuse

LEMMA OpenCircuitInv ==
  ASSUME IInv, OpenCircuit, failureCount' \in 0..FailuresToOpen,
         \A r \in Requests : granted'[r] = 0,
         phase' \in [Requests -> {"idle", "waiting", "running", "reported"}],
         waitLeft' \in [Requests -> 0..Cooldown],
         granted' \in [Requests -> Nat],
         UNCHANGED token
  PROVE  IInv'
  <1>1. TypeOK'
    <2>1. probeOwned' \in BOOLEAN /\ token' \in [Requests -> BOOLEAN]
      BY Zenon DEF OpenCircuit, IInv, TypeOK
    <2>2. failureAge' \in 0..Forgotten
      BY ForgottenType DEF OpenCircuit
    <2>3. QED
      BY <2>1, <2>2 DEF TypeOK, OpenCircuit
  <1>2. LeaseHonoured' /\ LeaseTold' /\ BelowThreshold'
    BY DEF OpenCircuit, LeaseHonoured, LeaseTold, BelowThreshold
  <1>3. QED
    BY <1>1, <1>2 DEF IInv

LEMMA DecideInv ==
  ASSUME IInv, NEW r \in Requests, Decide(r)
  PROVE  IInv'
  <1>1. CASE state = "closed"
    BY <1>1 DEF Decide, Admit, row, IInv, TypeOK, LeaseHonoured, LeaseTold, Owns,
                BelowThreshold
  <1>2. CASE AdmitAsProbe(r) /\ (state # "half_open" \/ ~probeOwned)
    BY <1>2, AdmitAsProbeInv
  <1>3. CASE UNCHANGED row /\ \E left \in 0..Cooldown : Refuse(r, left)
    BY <1>3, RefuseType DEF row, IInv, TypeOK, LeaseHonoured, LeaseTold, Owns,
                            BelowThreshold
  <1>4. CASE /\ state = "half_open" /\ probeOwned /\ leaseLeft = 0
             /\ OpenCircuit /\ Refuse(r, Cooldown) /\ UNCHANGED failureCount
    <2>1. \A s \in Requests : granted[s] = 0
      BY <1>4, NobodyGranted
    <2>2. Cooldown \in 0..Cooldown
      OBVIOUS
    <2>3. QED
      BY <1>4, <2>1, <2>2, RefuseType, OpenCircuitInv DEF IInv, TypeOK
  <1>5. openLeft \in 0..Cooldown /\ 0 \in 0..Cooldown
    BY DEF IInv, TypeOK
  <1>6. QED
    BY <1>1, <1>2, <1>3, <1>4, <1>5 DEF Decide, IInv, TypeOK

-----------------------------------------------------------------------------
(* The reports of a request in flight keep the invariant                   *)

LEMMA RenewLeaseInv ==
  ASSUME IInv, NEW r \in Requests, RenewLease(r)
  PROVE  IInv'
  <1>1. CASE leaseLeft = 0
    <2>1. \A s \in Requests : granted[s] = 0
      BY <1>1, NobodyGranted
    <2>2. QED
      BY <1>1, <2>1, OpenCircuitInv DEF RenewLease, IInv, TypeOK
  <1>2. CASE leaseLeft > 0
    <2>1. leaseLeft' \in Nat /\ granted' = [granted EXCEPT ![r] = leaseLeft']
      BY <1>2 DEF RenewLease, IInv, TypeOK
    <2>2. \A s \in Requests : granted'[s] = IF s = r THEN leaseLeft' ELSE granted[s]
      BY <2>1 DEF IInv, TypeOK
    <2>3. /\ state = "half_open" /\ Owns(r)
          /\ UNCHANGED <<state, failureCount, openLeft, probeToken, probeOwned,
                         failureAge, phase, token, waitLeft>>
      BY <1>2 DEF RenewLease
    <2>4. TypeOK'
      BY <2>1, <2>3 DEF IInv, TypeOK
    <2>5. \A s \in Requests : s # r => granted[s] = 0
      BY <2>3 DEF IInv, TypeOK, LeaseHonoured, Owns
    <2>6. LeaseHonoured' /\ LeaseTold' /\ BelowThreshold'
      BY <2>2, <2>3, <2>5 DEF IInv, LeaseHonoured, LeaseTold, Owns, BelowThreshold
    <2>7. QED
      BY <2>4, <2>6 DEF IInv
  <1>3. QED
    BY <1>1, <1>2 DEF IInv, TypeOK

LEMMA ReportedType ==
  ASSUME TypeOK, NEW r \in Requests, NEW held \in BOOLEAN, Reported(r, held)
  PROVE  /\ phase' \in [Requests -> {"idle", "waiting", "running", "reported"}]
         /\ granted' \in [Requests -> Nat]
         /\ \A s \in Requests : granted'[s] = IF s = r /\ ~held THEN 0 ELSE granted[s]
         /\ UNCHANGED <<token, waitLeft>>
  BY DEF TypeOK, Reported

\* A report that leaves the row alone: of a request that owns no probe, or one
\* that says nothing about the provider.
LEMMA ReportIgnoredInv ==
  ASSUME IInv, NEW r \in Requests, NEW held \in BOOLEAN, Reported(r, held),
         UNCHANGED row,
         held \/ state # "half_open" \/ ~Owns(r)
  PROVE  IInv'
  <1>1. TypeOK'
    BY ReportedType DEF IInv, TypeOK, row
  <1>2. \A s \in Requests : granted'[s] = IF s = r /\ ~held THEN 0 ELSE granted[s]
    BY ReportedType DEF IInv
  <1>3. UNCHANGED token
    BY DEF Reported
  <1>4. LeaseHonoured' /\ LeaseTold' /\ BelowThreshold'
    BY <1>2, <1>3 DEF IInv, row, LeaseHonoured, LeaseTold, Owns, BelowThreshold
  <1>5. QED
    BY <1>1, <1>4 DEF IInv

\* An outcome that is not stale leaves nobody with a lease.
LEMMA OutcomeSettles ==
  ASSUME IInv, NEW r \in Requests, ~Stale(r), Reported(r, FALSE)
  PROVE  \A s \in Requests : granted'[s] = 0
  <1>1. \A s \in Requests : s # r => granted[s] = 0
    BY DEF IInv, TypeOK, LeaseHonoured, Stale, Owns
  <1>2. QED
    BY <1>1, ReportedType DEF IInv

LEMMA CountFailureInv ==
  ASSUME IInv, NEW r \in Requests, ~Stale(r), Reported(r, FALSE), CountFailure(r)
  PROVE  IInv'
  <1>1. \A s \in Requests : granted'[s] = 0
    BY OutcomeSettles
  <1>2. /\ phase' \in [Requests -> {"idle", "waiting", "running", "reported"}]
        /\ granted' \in [Requests -> Nat]
        /\ UNCHANGED <<token, waitLeft>>
    BY ReportedType DEF IInv
  <1>3. waitLeft' \in [Requests -> 0..Cooldown]
    BY <1>2 DEF IInv, TypeOK
  <1>4. CASE state = "half_open"
    BY <1>1, <1>2, <1>3, <1>4, OpenCircuitInv DEF CountFailure
  <1>5. CASE state = "open"
    <2>1. /\ failureAge' = 0
          /\ UNCHANGED <<state, failureCount, openLeft, leaseLeft, probeToken, probeOwned>>
      BY <1>5 DEF CountFailure
    <2>2. TypeOK'
      BY <1>2, <1>3, <2>1, ForgottenType DEF IInv, TypeOK
    <2>3. LeaseHonoured' /\ LeaseTold' /\ BelowThreshold'
      BY <1>1, <1>5, <2>1 DEF LeaseHonoured, LeaseTold, BelowThreshold
    <2>4. QED
      BY <2>2, <2>3 DEF IInv
  <1>6. CASE state = "closed"
    <2>1. failureCount' \in 0..FailuresToOpen
      BY <1>6 DEF CountFailure, IInv, TypeOK, BelowThreshold
    <2>2. CASE failureCount' >= FailuresToOpen
      BY <1>1, <1>2, <1>3, <1>6, <2>1, <2>2, OpenCircuitInv DEF CountFailure
    <2>3. CASE ~(failureCount' >= FailuresToOpen)
      <3>1. /\ failureAge' = 0
            /\ UNCHANGED <<state, openLeft, leaseLeft, probeToken, probeOwned>>
        BY <1>6, <2>3 DEF CountFailure
      <3>2. TypeOK'
        BY <1>2, <1>3, <2>1, <3>1, ForgottenType DEF IInv, TypeOK
      <3>3. LeaseHonoured' /\ LeaseTold' /\ BelowThreshold'
        BY <1>1, <1>6, <2>1, <2>3, <3>1 DEF LeaseHonoured, LeaseTold, BelowThreshold
      <3>4. QED
        BY <3>2, <3>3 DEF IInv
    <2>4. QED
      BY <2>2, <2>3
  <1>7. QED
    BY <1>4, <1>5, <1>6 DEF IInv, TypeOK

LEMMA ReportFailureInv ==
  ASSUME IInv, NEW r \in Requests, NEW reason, ReportFailure(r, reason)
  PROVE  IInv'
  <1> DEFINE ignored == reason = "policy_blocked" \/ (reason = "timeout" /\ state = "closed")
  <1>1. /\ IF ignored \/ Stale(r) THEN UNCHANGED row ELSE CountFailure(r)
        /\ Reported(r, ignored)
    BY DEF ReportFailure
  <1>2. CASE ignored
    BY <1>1, <1>2, ReportIgnoredInv
  <1>3. CASE ~ignored /\ Stale(r)
    BY <1>1, <1>3, ReportIgnoredInv DEF Stale
  <1>4. CASE ~ignored /\ ~Stale(r)
    <2>1. Reported(r, FALSE)
      BY <1>1, <1>4
    <2>2. QED
      BY <1>1, <1>4, <2>1, CountFailureInv
  <1>5. QED
    BY <1>2, <1>3, <1>4

LEMMA ReportSuccessInv ==
  ASSUME IInv, NEW r \in Requests, ReportSuccess(r)
  PROVE  IInv'
  <1>1. Reported(r, FALSE)
    BY DEF ReportSuccess
  <1>2. CASE Stale(r) \/ state = "open"
    <2>1. UNCHANGED row
      BY <1>2 DEF ReportSuccess
    <2>2. QED
      BY <1>1, <1>2, <2>1, ReportIgnoredInv DEF Stale
  <1>3. CASE ~Stale(r) /\ state # "open"
    <2>1. \A s \in Requests : granted'[s] = 0
      BY <1>1, <1>3, OutcomeSettles
    <2>2. /\ phase' \in [Requests -> {"idle", "waiting", "running", "reported"}]
          /\ granted' \in [Requests -> Nat]
          /\ UNCHANGED <<token, waitLeft>>
      BY <1>1, ReportedType DEF IInv
    <2>3. waitLeft' \in [Requests -> 0..Cooldown] /\ failureCount \in 0..FailuresToOpen
      BY <2>2 DEF IInv, TypeOK
    <2>4. CASE state = "half_open" /\ leaseLeft = 0
      BY <1>3, <2>1, <2>2, <2>3, <2>4, OpenCircuitInv DEF ReportSuccess
    <2>5. CASE ~(state = "half_open" /\ leaseLeft = 0)
      <3>1. CloseCircuit
        BY <1>3, <2>5 DEF ReportSuccess
      <3>2. TypeOK'
        <4>1. probeOwned' \in BOOLEAN /\ token' \in [Requests -> BOOLEAN]
          BY <2>2, <3>1, Zenon DEF CloseCircuit, IInv, TypeOK
        <4>2. failureAge' \in 0..Forgotten /\ failureCount' \in 0..FailuresToOpen
          BY <3>1 DEF CloseCircuit, IInv, TypeOK
        <4>3. QED
          BY <2>2, <2>3, <3>1, <4>1, <4>2 DEF TypeOK, CloseCircuit
      <3>3. LeaseHonoured' /\ LeaseTold' /\ BelowThreshold'
        BY <2>1, <3>1 DEF CloseCircuit, LeaseHonoured, LeaseTold, BelowThreshold
      <3>4. QED
        BY <3>2, <3>3 DEF IInv
    <2>6. QED
      BY <2>4, <2>5
  <1>4. QED
    BY <1>2, <1>3

LEMMA EndRequestInv ==
  ASSUME IInv, NEW r \in Requests, EndRequest(r)
  PROVE  IInv'
  <1>1. TypeOK'
    BY DEF EndRequest, row, IInv, TypeOK
  <1>2. \A s \in Requests : granted'[s] = IF s = r THEN 0 ELSE granted[s]
    BY DEF EndRequest, IInv, TypeOK
  <1>3. \A s \in Requests : token'[s] => s # r /\ token[s]
    BY DEF EndRequest, IInv, TypeOK
  <1>4. UNCHANGED <<state, failureCount, leaseLeft, probeToken, probeOwned>>
    BY DEF EndRequest, row
  <1>5. LeaseHonoured'
    <2>1. ASSUME NEW s \in Requests, granted'[s] > 0
          PROVE  granted'[s] = granted[s] /\ granted[s] > 0
      BY <1>2, <2>1
    <2>2. QED
      BY <1>4, <2>1 DEF IInv, LeaseHonoured
  <1>6. ASSUME NEW s \in Requests, state' = "half_open", Owns(s)'
        PROVE  granted'[s] = leaseLeft'
    <2>1. s # r /\ Owns(s)
      BY <1>4, <1>6, <1>3 DEF Owns
    <2>2. QED
      BY <1>2, <1>4, <1>6, <2>1 DEF IInv, LeaseTold
  <1>7. LeaseTold' /\ BelowThreshold'
    BY <1>4, <1>6 DEF IInv, LeaseTold, BelowThreshold
  <1>8. QED
    BY <1>1, <1>5, <1>7 DEF IInv

-----------------------------------------------------------------------------
(* The clock and the process keep the invariant                            *)

LEMMA TickInv ==
  ASSUME IInv, Tick
  PROVE  IInv'
  <1>1. \A r \in Requests : granted'[r] = Less(granted[r]) /\ waitLeft'[r] = Less(waitLeft[r])
    BY DEF Tick
  <1>2. \A n \in Nat : Less(n) \in Nat /\ Less(n) <= n
    BY LessType
  <1>3. openLeft' \in 0..Cooldown /\ leaseLeft' \in Nat /\ failureAge' \in 0..Forgotten
    BY <1>2, ForgottenType DEF Tick, IInv, TypeOK
  <1>4. waitLeft' \in [Requests -> 0..Cooldown] /\ granted' \in [Requests -> Nat]
    <2>1. \A r \in Requests : waitLeft[r] \in 0..Cooldown /\ granted[r] \in Nat
      BY DEF IInv, TypeOK
    <2>2. ASSUME NEW r \in Requests
          PROVE  Less(waitLeft[r]) \in 0..Cooldown /\ Less(granted[r]) \in Nat
      BY <2>1 DEF Less
    <2>3. QED
      BY <2>2 DEF Tick
  <1>5. TypeOK'
    BY <1>3, <1>4 DEF Tick, IInv, TypeOK
  <1>6. LeaseHonoured' /\ LeaseTold' /\ BelowThreshold'
    BY <1>1, LessType DEF Tick, IInv, TypeOK, LeaseHonoured, LeaseTold, Owns, BelowThreshold
  <1>7. QED
    BY <1>5, <1>6 DEF IInv

LEMMA RestartInv ==
  ASSUME IInv, Restart
  PROVE  IInv'
  <1>1. probeOwned' \in BOOLEAN /\ token' \in [Requests -> BOOLEAN]
    BY Zenon DEF Restart
  <1>2. /\ waitLeft' \in [Requests -> 0..Cooldown]
        /\ granted' \in [Requests -> Nat]
        /\ phase' \in [Requests -> {"idle", "waiting", "running", "reported"}]
    BY DEF Restart
  <1>3. TypeOK'
    BY <1>1, <1>2 DEF Restart, IInv, TypeOK
  <1>4. LeaseHonoured' /\ BelowThreshold'
    BY DEF Restart, IInv, LeaseHonoured, BelowThreshold
  <1>5. LeaseTold'
    BY DEF Restart, LeaseTold, Owns
  <1>6. QED
    BY <1>3, <1>4, <1>5 DEF IInv

LEMMA NextInv == IInv /\ [Next]_vars => IInv'
  <1> SUFFICES ASSUME IInv, [Next]_vars PROVE IInv'
    OBVIOUS
  <1>1. CASE Tick
    BY <1>1, TickInv
  <1>2. CASE Restart
    BY <1>2, RestartInv
  <1>3. ASSUME NEW r \in Requests, RequestStep(r) PROVE IInv'
    BY <1>3, DecideInv, RenewLeaseInv, ReportFailureInv, ReportSuccessInv, EndRequestInv
       DEF RequestStep
  <1>4. CASE UNCHANGED vars
    BY <1>4 DEF vars, row, reqs, IInv, TypeOK, LeaseHonoured, LeaseTold, Owns, BelowThreshold
  <1>5. QED
    BY <1>1, <1>2, <1>3, <1>4 DEF Next

\* The invariant the other theorems rest on holds in every reachable state.
THEOREM Invariance == Spec => []IInv
  BY InitInv, NextInv, PTL DEF Spec

\* Every variable of the breaker keeps its type.
THEOREM TypeCorrect == Spec => []TypeOK
  <1>1. IInv => TypeOK
    BY DEF IInv
  <1>2. QED
    BY <1>1, Invariance, PTL

\* The lease a probe was told of is the lease the row enforces.
THEOREM LeaseKept == Spec => []LeaseHonoured
  <1>1. IInv => LeaseHonoured
    BY DEF IInv
  <1>2. QED
    BY <1>1, Invariance, PTL

-----------------------------------------------------------------------------
(* Action properties                                                       *)

\* What a step other than a decision does to the phase of a request.
LEMMA OnlyDecideStarts ==
  ASSUME IInv, [Next]_vars, NEW s \in Requests, ~InFlight(s), InFlight(s)'
  PROVE  /\ Decide(s)
         /\ state = "closed" \/ AdmitAsProbe(s)
  <1>1. phase[s] \in {"idle", "waiting"}
    BY DEF InFlight, IInv, TypeOK
  <1>2. phase'[s] # phase[s]
    BY DEF InFlight
  <1>3. ~Tick /\ ~Restart /\ ~(UNCHANGED vars)
    BY <1>2 DEF Tick, Restart, vars, reqs, InFlight
  <1>4. PICK r \in Requests : RequestStep(r)
    BY <1>3 DEF Next
  <1>5. ASSUME NEW reason PROVE ReportFailure(r, reason) => s = r /\ phase[r] = "running"
    BY <1>2 DEF ReportFailure, Reported, IInv, TypeOK
  <1>6. ReportSuccess(r) => s = r /\ phase[r] = "running"
    BY <1>2 DEF ReportSuccess, Reported, IInv, TypeOK
  <1>7. ~RenewLease(r) /\ ~EndRequest(r)
    BY <1>2 DEF RenewLease, EndRequest, InFlight, IInv, TypeOK
  <1>8. Decide(r)
    BY <1>1, <1>4, <1>5, <1>6, <1>7 DEF RequestStep
  <1>9. s = r
    BY <1>2, <1>8 DEF Decide, Admit, AdmitAsProbe, Refuse, IInv, TypeOK
  <1>10. ASSUME NEW left, Refuse(s, left) PROVE FALSE
    BY <1>1, <1>10 DEF Refuse, InFlight, IInv, TypeOK
  <1>11. QED
    BY <1>8, <1>9, <1>10 DEF Decide, IInv, TypeOK

\* While a probe in flight has a lease no other request reaches the provider.
THEOREM SingleProbe == Spec => OneProbeAtATime
  <1> DEFINE A == \A r, s \in Requests :
                    granted[r] > 0 /\ phase[s] \notin {"running", "reported"}
                      => phase'[s] \notin {"running", "reported"}
  <1>1. IInv /\ [Next]_vars => A
    <2> SUFFICES ASSUME IInv, [Next]_vars, NEW r \in Requests, NEW s \in Requests,
                        granted[r] > 0, ~InFlight(s), InFlight(s)'
                 PROVE  FALSE
      BY DEF InFlight
    <2>1. state = "half_open" /\ probeOwned /\ leaseLeft > 0
      BY DEF IInv, TypeOK, LeaseHonoured
    <2>2. Decide(s) /\ AdmitAsProbe(s)
      BY <2>1, OnlyDecideStarts
    <2>3. granted'[s] = Window[s] /\ phase'[s] = "running"
      BY <2>2 DEF AdmitAsProbe, IInv, TypeOK
    <2>4. PICK left : Refuse(s, left)
      BY <2>1, <2>2 DEF Decide
    <2>5. QED
      BY <2>3, <2>4 DEF Refuse, IInv, TypeOK
  <1>2. QED
    BY <1>1, Invariance, PTL DEF Spec, OneProbeAtATime

\* A failure that comes late never prolongs the cooldown.
THEOREM CooldownKept == Spec => CooldownNeverSlides
  <1> DEFINE A == state = "open" /\ state' = "open" => openLeft' <= openLeft
  <1>1. IInv /\ [Next]_vars => A
    <2> SUFFICES ASSUME IInv, [Next]_vars, state = "open", state' = "open"
                 PROVE  openLeft' <= openLeft
      OBVIOUS
    <2>1. openLeft \in Nat
      BY DEF IInv, TypeOK
    <2>2. CASE Tick
      BY <2>1, <2>2, LessType DEF Tick
    <2>3. CASE Restart \/ UNCHANGED vars
      BY <2>1, <2>3 DEF Restart, vars, row
    <2>4. ASSUME NEW r \in Requests, RequestStep(r) PROVE openLeft' <= openLeft
      <3>1. CASE Decide(r)
        BY <2>1, <3>1 DEF Decide, AdmitAsProbe, HalfOpenCircuit, row
      <3>2. CASE RenewLease(r)
        BY <3>2 DEF RenewLease
      <3>3. ASSUME NEW reason, ReportFailure(r, reason) PROVE openLeft' <= openLeft
        BY <2>1, <3>3 DEF ReportFailure, CountFailure, row
      <3>4. CASE ReportSuccess(r)
        BY <2>1, <3>4 DEF ReportSuccess, row
      <3>5. CASE EndRequest(r)
        BY <2>1, <3>5 DEF EndRequest, row
      <3>6. QED
        BY <2>4, <3>1, <3>2, <3>3, <3>4, <3>5 DEF RequestStep
    <2>5. QED
      BY <2>2, <2>3, <2>4 DEF Next
  <1>2. QED
    BY <1>1, Invariance, PTL DEF Spec, CooldownNeverSlides

\* Only the request that holds the lease, reporting in time, ends an outage.
THEOREM ClosedByProbe == Spec => OnlyTheProbeCloses
  <1> DEFINE A == state # "closed" /\ state' = "closed" =>
                    \E r \in Requests : /\ granted[r] > 0
                                        /\ phase[r] = "running" /\ phase'[r] = "reported"
  <1>1. IInv /\ [Next]_vars => A
    <2> SUFFICES ASSUME IInv, [Next]_vars, state # "closed", state' = "closed"
                 PROVE  \E r \in Requests : /\ granted[r] > 0
                                            /\ phase[r] = "running" /\ phase'[r] = "reported"
      OBVIOUS
    <2>1. ~Tick /\ ~Restart /\ ~(UNCHANGED vars)
      BY DEF Tick, Restart, vars, row
    <2>2. PICK r \in Requests : RequestStep(r)
      BY <2>1 DEF Next
    <2>3. ~Decide(r) /\ ~RenewLease(r) /\ ~EndRequest(r)
      BY DEF Decide, AdmitAsProbe, HalfOpenCircuit, OpenCircuit, RenewLease, EndRequest, row
    <2>4. ASSUME NEW reason, ReportFailure(r, reason) PROVE FALSE
      BY <2>4 DEF ReportFailure, CountFailure, OpenCircuit, row
    <2>5. ReportSuccess(r)
      BY <2>2, <2>3, <2>4 DEF RequestStep
    <2>6. ~Stale(r) /\ state # "open" /\ ~(state = "half_open" /\ leaseLeft = 0)
      BY <2>5 DEF ReportSuccess, OpenCircuit, row
    <2>7. state = "half_open" /\ Owns(r) /\ leaseLeft > 0
      BY <2>6 DEF Stale, IInv, TypeOK
    <2>8. granted[r] > 0
      BY <2>7 DEF IInv, LeaseTold
    <2>9. phase[r] = "running" /\ phase'[r] = "reported"
      BY <2>5 DEF ReportSuccess, Reported, IInv, TypeOK
    <2>10. QED
      BY <2>8, <2>9
  <1>2. QED
    BY <1>1, Invariance, PTL DEF Spec, OnlyTheProbeCloses
=============================================================================
