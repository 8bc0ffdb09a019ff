--------------------------- MODULE ProviderCircuit ---------------------------
(***************************************************************************)
(* The circuit breaker of packages/providers/src/provider-circuit-breaker  *)
(* .ts: one durable row per model provider, shared by the requests of all  *)
(* chats.  Every function of that file reads the row, decides and writes   *)
(* it back in one synchronous step, so each is one action; what interleaves*)
(* is the requests of core/src/orchestrator/message-loop.ts that call them.*)
(*                                                                         *)
(* Deadlines are kept as the time left (0: now >= deadline) and the last   *)
(* failure as its age, so the clock needs no bound.  A probe token is the  *)
(* request it was issued to: a request holds at most one, it asks for one  *)
(* only when it starts, and the tokens of requests that are over matter to *)
(* nobody.  The boot epoch inside a token is probeOwned: the token in the  *)
(* row was issued by the process that runs now.                            *)
(***************************************************************************)
EXTENDS Integers

CONSTANTS Requests,        \* requests that use the provider
          NoToken,         \* the null of half_open_probe_token
          FailuresToOpen,  \* config.failuresToOpen
          Cooldown,        \* config.cooldownMs
          FailureWindow,   \* config.failureWindowMs
          Window           \* resolveProbeLeaseWindowMs of each request

ASSUME RequestsAssumption == NoToken \notin Requests
ASSUME ConfigAssumption   == /\ FailuresToOpen \in Nat \ {0}
                             /\ Cooldown \in Nat \ {0}
                             /\ FailureWindow \in Nat \ {0}
\* normalizeConfig: a lease is never shorter than the cooldown.
ASSUME WindowAssumption   == /\ Window \in [Requests -> Nat]
                             /\ \A r \in Requests : Window[r] >= Cooldown

VARIABLES
  \* the row
  state, failureCount, openLeft, leaseLeft, probeToken, probeOwned, failureAge,
  \* the requests: where they are, whether they were given a token, how long
  \* they still wait for a cooldown, and the lease they were last told of
  phase, token, waitLeft, granted

row  == <<state, failureCount, openLeft, leaseLeft, probeToken, probeOwned, failureAge>>
reqs == <<phase, token, waitLeft, granted>>
vars == <<row, reqs>>

\* "No failure yet" and "a failure that left the window" are the same age:
\* the count restarts in the second case and is 0 in the first.
Forgotten == FailureWindow + 1

Init ==
  /\ state = "closed"
  /\ failureCount = 0
  /\ openLeft = 0
  /\ leaseLeft = 0
  /\ probeToken = NoToken
  /\ probeOwned = FALSE
  /\ failureAge = Forgotten
  /\ phase = [r \in Requests |-> "idle"]
  /\ token = [r \in Requests |-> FALSE]
  /\ waitLeft = [r \in Requests |-> 0]
  /\ granted = [r \in Requests |-> 0]

InFlight(r) == phase[r] \in {"running", "reported"}

\* The request's token is the one in the row.
Owns(r) == token[r] /\ probeOwned /\ probeToken = r

-----------------------------------------------------------------------------
(* The row                                                                 *)

OpenCircuit ==
  /\ state' = "open"
  /\ openLeft' = Cooldown
  /\ leaseLeft' = 0
  /\ probeToken' = NoToken
  /\ probeOwned' = FALSE
  /\ failureAge' = 0

\* The age of the last failure survives a success.
CloseCircuit ==
  /\ state' = "closed"
  /\ failureCount' = 0
  /\ openLeft' = 0
  /\ leaseLeft' = 0
  /\ probeToken' = NoToken
  /\ probeOwned' = FALSE
  /\ UNCHANGED failureAge

HalfOpenCircuit(r) ==
  /\ state' = "half_open"
  /\ openLeft' = 0
  /\ leaseLeft' = Window[r]
  /\ probeToken' = r
  /\ probeOwned' = TRUE
  /\ UNCHANGED <<failureCount, failureAge>>

-----------------------------------------------------------------------------
(* getProviderCircuitDecision                                              *)

Admit(r) ==
  /\ phase' = [phase EXCEPT ![r] = "running"]
  /\ UNCHANGED <<token, waitLeft, granted>>

AdmitAsProbe(r) ==
  /\ HalfOpenCircuit(r)
  /\ phase' = [phase EXCEPT ![r] = "running"]
  /\ token' = [token EXCEPT ![r] = TRUE]
  /\ granted' = [granted EXCEPT ![r] = Window[r]]
  /\ UNCHANGED waitLeft

\* A refused request goes elsewhere or fails.  On the primary path it first
\* waits out a cooldown it was told of, once, and asks again.
Refuse(r, left) ==
  /\ \/ phase' = [phase EXCEPT ![r] = "idle"] /\ UNCHANGED waitLeft
     \/ /\ phase[r] = "idle" /\ left > 0
        /\ phase' = [phase EXCEPT ![r] = "waiting"]
        /\ waitLeft' = [waitLeft EXCEPT ![r] = left]
  /\ UNCHANGED <<token, granted>>

\* Mutant: a half-open circuit lets every request try its luck.
DecideWithoutLease(r) ==
  /\ phase[r] = "idle" \/ (phase[r] = "waiting" /\ waitLeft[r] = 0)
  /\ \/ state = "closed" /\ Admit(r) /\ UNCHANGED row
     \/ state = "open" /\ openLeft = 0 /\ AdmitAsProbe(r)
     \/ state = "open" /\ openLeft > 0 /\ Refuse(r, openLeft) /\ UNCHANGED row
     \/ state = "half_open" /\ AdmitAsProbe(r)

\* Mutant: the lease of a process that is gone blocks the new one, for ever.
DecideWithoutTakeover(r) ==
  /\ phase[r] = "idle" \/ (phase[r] = "waiting" /\ waitLeft[r] = 0)
  /\ \/ state = "closed" /\ Admit(r) /\ UNCHANGED row
     \/ state = "open" /\ openLeft = 0 /\ AdmitAsProbe(r)
     \/ state = "open" /\ openLeft > 0 /\ Refuse(r, openLeft) /\ UNCHANGED row
     \/ state = "half_open" /\ Refuse(r, 0) /\ UNCHANGED row

Decide(r) ==
  /\ phase[r] = "idle" \/ (phase[r] = "waiting" /\ waitLeft[r] = 0)
  /\ \/ /\ state = "closed"
        /\ Admit(r)
        /\ UNCHANGED row
     \/ /\ state = "open" /\ openLeft = 0
        /\ AdmitAsProbe(r)
     \/ /\ state = "open" /\ openLeft > 0
        /\ Refuse(r, openLeft)
        /\ UNCHANGED row
     \* A half-open row of another boot has no live probe: take it over.
     \/ /\ state = "half_open" /\ ~probeOwned
        /\ AdmitAsProbe(r)
     \/ /\ state = "half_open" /\ probeOwned /\ leaseLeft = 0
        /\ OpenCircuit
        /\ Refuse(r, Cooldown)
        /\ UNCHANGED failureCount
     \/ /\ state = "half_open" /\ probeOwned /\ leaseLeft > 0
        /\ Refuse(r, 0)
        /\ UNCHANGED row

-----------------------------------------------------------------------------
(* What a request in flight reports                                        *)

\* renewProviderCircuitProbeLease, on every sign of life.  The token of a
\* request that does not own the probe is ignored.
RenewLease(r) ==
  /\ InFlight(r) /\ state = "half_open" /\ Owns(r)
  /\ \/ /\ leaseLeft = 0
        /\ OpenCircuit
        /\ UNCHANGED <<failureCount, granted>>
     \/ /\ leaseLeft > 0
        /\ LET left == IF leaseLeft > Window[r] THEN leaseLeft ELSE Window[r]
           IN /\ leaseLeft' = left
              /\ granted' = [granted EXCEPT ![r] = left]
        /\ UNCHANGED <<state, failureCount, openLeft, probeToken, probeOwned, failureAge>>
  /\ UNCHANGED <<phase, token, waitLeft>>

\* Mutant: a failure that comes late restarts the cooldown.
FailureSlides(r) ==
  IF state = "half_open" /\ ~Owns(r)
  THEN UNCHANGED row
  ELSE OpenCircuit /\ failureCount' = FailuresToOpen

\* Mutant: the circuit opens one failure too late.
CountFailureOffByOne(r) ==
  \/ /\ state = "half_open"
     /\ OpenCircuit
     /\ failureCount' = FailuresToOpen
  \/ state = "open" /\ UNCHANGED row
  \/ /\ state = "closed"
     /\ failureCount' = failureCount + 1
     /\ IF failureCount' > FailuresToOpen
        THEN OpenCircuit
        ELSE /\ failureAge' = 0
             /\ UNCHANGED <<state, openLeft, leaseLeft, probeToken, probeOwned>>

\* A failure the row takes note of: of a probe, or of a request without one.
\* Counts past FailuresToOpen are only reported, so the model stops there.
CountFailure(r) ==
  \/ /\ state = "half_open"
     /\ OpenCircuit
     /\ failureCount' = FailuresToOpen
  \/ /\ state = "open"
     /\ failureAge' = 0
     /\ UNCHANGED <<state, failureCount, openLeft, leaseLeft, probeToken, probeOwned>>
  \/ /\ state = "closed"
     /\ failureCount' = (IF failureAge > FailureWindow THEN 0 ELSE failureCount) + 1
     /\ IF failureCount' >= FailuresToOpen
        THEN OpenCircuit
        ELSE /\ failureAge' = 0
             /\ UNCHANGED <<state, openLeft, leaseLeft, probeToken, probeOwned>>

\* An outcome of a probe counts only for the lease in the row; an outcome of a
\* request admitted without a token never counts while a probe is out.
Stale(r) == IF state = "half_open" THEN ~Owns(r) ELSE token[r]

\* The request reports once (createProviderCircuitOutcomeLatch); it is told no
\* more of its lease then, unless the report was not about the provider.
Reported(r, held) ==
  /\ phase' = [phase EXCEPT ![r] = "reported"]
  /\ granted' = [granted EXCEPT ![r] = IF held THEN @ ELSE 0]
  /\ UNCHANGED <<token, waitLeft>>

\* recordProviderCircuitFailure
ReportFailure(r, reason) ==
  /\ phase[r] = "running"
  /\ LET ignored == reason = "policy_blocked" \/ (reason = "timeout" /\ state = "closed")
     IN /\ IF ignored \/ Stale(r) THEN UNCHANGED row ELSE CountFailure(r)
        /\ Reported(r, ignored)

\* Mutant: the late answer of an expired probe closes the circuit.
SuccessWithoutExpiry(r) ==
  /\ phase[r] = "running"
  /\ Reported(r, FALSE)
  /\ IF Stale(r) \/ state = "open" THEN UNCHANGED row ELSE CloseCircuit

\* recordProviderCircuitSuccess
ReportSuccess(r) ==
  /\ phase[r] = "running"
  /\ Reported(r, FALSE)
  /\ IF Stale(r) \/ state = "open"
     THEN UNCHANGED row
     ELSE IF state = "half_open" /\ leaseLeft = 0
     THEN OpenCircuit /\ UNCHANGED failureCount
     ELSE CloseCircuit

\* The turn is over, possibly without an outcome: stopped by its owner, or cut
\* after a side effect.  The row is not told.
EndRequest(r) ==
  /\ InFlight(r)
  /\ phase' = [phase EXCEPT ![r] = "idle"]
  /\ token' = [token EXCEPT ![r] = FALSE]
  /\ granted' = [granted EXCEPT ![r] = 0]
  /\ UNCHANGED <<row, waitLeft>>

-----------------------------------------------------------------------------
(* The clock and the process                                               *)

Less(n) == IF n > 0 THEN n - 1 ELSE 0

Tick ==
  /\ openLeft' = Less(openLeft)
  /\ leaseLeft' = Less(leaseLeft)
  /\ failureAge' = IF failureAge < Forgotten THEN failureAge + 1 ELSE Forgotten
  /\ waitLeft' = [r \in Requests |-> Less(waitLeft[r])]
  /\ granted' = [r \in Requests |-> Less(granted[r])]
  /\ UNCHANGED <<state, failureCount, probeToken, probeOwned, phase, token>>

\* The requests die with the process; the row does not, and the new process
\* has another boot epoch.
Restart ==
  /\ phase' = [r \in Requests |-> "idle"]
  /\ token' = [r \in Requests |-> FALSE]
  /\ waitLeft' = [r \in Requests |-> 0]
  /\ granted' = [r \in Requests |-> 0]
  /\ probeOwned' = FALSE
  /\ UNCHANGED <<state, failureCount, openLeft, leaseLeft, probeToken, failureAge>>

RequestStep(r) ==
  \/ Decide(r)
  \/ RenewLease(r)
  \/ \E reason \in {"policy_blocked", "timeout", "error"} : ReportFailure(r, reason)
  \/ ReportSuccess(r)
  \/ EndRequest(r)

Next == Tick \/ Restart \/ \E r \in Requests : RequestStep(r)

Spec == Init /\ [][Next]_vars

\* Time passes, turns end (every runtime has a timeout), and requests keep
\* coming: the last is what the liveness property supposes, not a promise.
FairSpec == /\ Spec
            /\ WF_vars(Tick)
            /\ \A r \in Requests : WF_vars(EndRequest(r))
            /\ WF_vars(\E r \in Requests : Decide(r))
-----------------------------------------------------------------------------
(* Properties                                                              *)

\* Every variable has its type.
TypeOK ==
  /\ state \in {"closed", "open", "half_open"}
  /\ failureCount \in 0..FailuresToOpen
  /\ openLeft \in 0..Cooldown
  /\ leaseLeft \in Nat
  /\ probeToken \in Requests \cup {NoToken}
  /\ probeOwned \in BOOLEAN
  /\ failureAge \in 0..Forgotten
  /\ phase \in [Requests -> {"idle", "waiting", "running", "reported"}]
  /\ token \in [Requests -> BOOLEAN]
  /\ waitLeft \in [Requests -> 0..Cooldown]
  /\ granted \in [Requests -> Nat]

\* What a probe was told is what the row says: while the lease it was last
\* granted has time left, the circuit is half-open, in its name, for exactly
\* that time, whatever stragglers, other probes' remains and refused requests
\* did in between.
LeaseHonoured ==
  \A r \in Requests :
    granted[r] > 0 => /\ state = "half_open"
                      /\ probeOwned /\ probeToken = r
                      /\ leaseLeft = granted[r]

\* One probe at a time: while a probe in flight has a lease, no other request
\* reaches the provider.
OneProbeAtATime ==
  [][\A r, s \in Requests :
       granted[r] > 0 /\ phase[s] \notin {"running", "reported"}
         => phase'[s] \notin {"running", "reported"}]_vars

\* The cooldown of an open circuit only runs down: stragglers that fail late
\* never slide it (the comment in recordProviderCircuitFailure).
CooldownNeverSlides ==
  [][state = "open" /\ state' = "open" => openLeft' <= openLeft]_vars

\* An outage ends only by a probe that answered in time: a circuit that opened
\* goes through half-open, and closes in the step in which the request that
\* holds the lease reports, before the lease is over.
OnlyTheProbeCloses ==
  [][state # "closed" /\ state' = "closed" =>
       \E r \in Requests : /\ granted[r] > 0
                           /\ phase[r] = "running" /\ phase'[r] = "reported"]_vars

\* No lock-out: as long as requests come, one reaches the provider again and
\* again, though probes vanish without a report and the process restarts.
NeverLockedOut == []<>(\E r \in Requests : phase[r] = "running")
=============================================================================
