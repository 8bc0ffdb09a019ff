------------------------------ MODULE Payments ------------------------------
(***************************************************************************)
(* Paid plans: packages/payments/src/payment-service.ts and                *)
(* payment-activation.ts, driven by the maintenance sweep at the end of    *)
(* core/src/orchestrator/message-loop.ts.  The subscription store is a     *)
(* file, the quota a row of SQLite, the order is kept by the payment       *)
(* provider: three places that a sweep brings together one write at a time.*)
(*                                                                         *)
(* The orders are those of one account; orders of other accounts meet them *)
(* only in the lists of the sweep.  A sweep is a coroutine: it gives way   *)
(* where it awaits the provider or the channel.  Quota and store are       *)
(* written without giving way, but either write may fail, and the process  *)
(* may die between the two.                                                *)
(***************************************************************************)
EXTENDS Integers

CONSTANTS Orders, NoOrder,
          Level,                \* the entitlement of each order's plan
          Floor,                \* defaultWeeklyLimitCredits
          MaxSweeps, MaxCrashes, MaxFaults \* bounds of the model

\* An unlimited plan is a level above every finite one.
ASSUME OrdersAssumption == NoOrder \notin Orders
ASSUME LevelsAssumption == Level \in [Orders -> Nat] /\ Floor \in Nat
ASSUME BoundsAssumption == MaxSweeps \in Nat /\ MaxCrashes \in Nat /\ MaxFaults \in Nat

\* Ticks of the timer whose sweep is under way; a new one takes the first number
\* that is free.
Sweeps == 1..MaxSweeps

VARIABLES
  record, lapsed,     \* the store: status, and whether expiresAt has passed
  quota,              \* the limit the account has
  order, gateway,     \* the provider: its orders, and whether it answers
  provider,           \* activePaymentGateway: one is configured
  sweeping, sweep,    \* the flag of the timer, and the coroutines
  told,               \* how often the payer was told of the activation
  crashes, faults, blind  \* blind: an activation could not read the limit

storeVars == <<record, lapsed>>
worldVars == <<order, gateway, provider>>
faultVars == <<crashes, faults, blind>>
vars == <<storeVars, quota, worldVars, sweeping, sweep, told, faultVars>>

\* Where a sweep is: the list it works through (pending orders, lapsed ones,
\* active ones), the orders left and those kept for the last list, the order
\* in hand and what the provider said of it.
Beginning(stage, todo, kept) ==
  [stage |-> stage, step |-> "next", todo |-> todo, kept |-> kept,
   cur |-> NoOrder, answer |-> "none"]

NoSweep == Beginning("idle", {}, {})

Init ==
  /\ record = [o \in Orders |-> "none"]
  /\ lapsed = [o \in Orders |-> FALSE]
  /\ quota = Floor
  /\ order = [o \in Orders |-> "none"]
  /\ gateway = "up"
  /\ provider \in BOOLEAN
  /\ sweeping = FALSE
  /\ sweep = [s \in Sweeps |-> NoSweep]
  /\ told = [o \in Orders |-> 0]
  /\ crashes = 0
  /\ faults = 0
  /\ blind = FALSE

-----------------------------------------------------------------------------
(* Entitlements                                                            *)

Greatest(S) == {x \in S : \A y \in S : y <= x}

\* Mutant: the remaining plans are forgotten.
RemainingNone(o) == {Floor}
\* bestRemainingEntitlement: the other active plans that have not lapsed.
Remaining(o) ==
  {Floor} \cup {Level[p] : p \in {q \in Orders \ {o} : record[q] = "active" /\ ~lapsed[q]}}

\* Mutant: a limit that is as strong as the plan that ends is kept.
KeptIfAsStrong(o, current) == IF current >= Level[o] THEN {current} ELSE {}
\* A limit stronger than the plan that ends comes from elsewhere and is kept.
KeptByOthers(o, current) == IF current > Level[o] THEN {current} ELSE {}

\* buildPlanActivation: never below what the account has, if that can be read.
Activated(o) == {Level[o], Floor, quota}
ActivatedBlind(o) == {Level[o], Floor}
\* Mutant: the level of the plan that ends is taken off the limit.
DeactivatedByDifference(o) == {quota - Level[o]}
\* buildPlanDeactivation
Deactivated(o) == Remaining(o) \cup KeptByOthers(o, quota)
DeactivatedBlind(o) == Remaining(o)

\* setQuotaPlanLimit
SetLimit(levels) == \E limit \in Greatest(levels) : quota' = limit

-----------------------------------------------------------------------------
(* Orders, the provider and the clock                                      *)

worldRest == <<quota, sweeping, sweep, told, faultVars>>

\* startPlanPurchase.  An order that could not be recorded, or whose creation
\* timed out, has no link that anybody could pay: it is left out.
Purchase(o) ==
  /\ provider /\ record[o] = "none"
  /\ record' = [record EXCEPT ![o] = "pending"]
  /\ order' = [order EXCEPT ![o] = "open"]
  /\ UNCHANGED <<lapsed, gateway, provider, worldRest>>

\* An order is paid, paid in a way that does not fit the record, or void.
Pay(o) ==
  /\ order[o] = "open"
  /\ \E state \in {"paid", "misfit", "void"} : order' = [order EXCEPT ![o] = state]
  /\ UNCHANGED <<storeVars, gateway, provider, worldRest>>

\* A paid order is refunded, or charged back.
TakeBack(o) ==
  /\ order[o] = "paid"
  /\ \E state \in {"refunded", "void"} : order' = [order EXCEPT ![o] = state]
  /\ UNCHANGED <<storeVars, gateway, provider, worldRest>>

GatewayChanges ==
  /\ gateway' = IF gateway = "up" THEN "flaky" ELSE "up"
  /\ UNCHANGED <<storeVars, order, provider, worldRest>>

Lapse(o) ==
  /\ record[o] = "active" /\ ~lapsed[o]
  /\ lapsed' = [lapsed EXCEPT ![o] = TRUE]
  /\ UNCHANGED <<record, worldVars, worldRest>>

-----------------------------------------------------------------------------
(* The sweep                                                               *)

At(s, stage, step) == sweep[s].stage = stage /\ sweep[s].step = step

Write(o, status) == record' = [record EXCEPT ![o] = status]

\* Within a stage: the orders left, the order in hand, the step it is at.
Within(s, todo, cur, step, answer) ==
  sweep' = [sweep EXCEPT ![s] =
    [stage |-> sweep[s].stage, step |-> step, todo |-> todo, kept |-> sweep[s].kept,
     cur |-> cur, answer |-> answer]]

Take(s, o, step) == Within(s, sweep[s].todo \ {o}, o, step, "none")
Skip(s, o) == Within(s, sweep[s].todo \ {o}, NoOrder, "next", "none")
Goto(s, step) == Within(s, sweep[s].todo, sweep[s].cur, step, sweep[s].answer)
NextOrder(s) == Within(s, sweep[s].todo, NoOrder, "next", "none")

Active == {o \in Orders : record[o] = "active"}

\* reconcileActiveSubscriptions: the list of active orders, split by expiry.
Reconciling == Beginning("expire", {o \in Active : lapsed[o]}, {o \in Active : ~lapsed[o]})

BeginReconcile(s) ==
  /\ sweep' = [sweep EXCEPT ![s] = Reconciling]
  /\ UNCHANGED sweeping

\* Mutant: a way out of the sweep that leaves the flag set.
LeaveWithFlag(s) ==
  /\ sweep' = [sweep EXCEPT ![s] = NoSweep]
  /\ UNCHANGED sweeping
\* The `finally` of the tick.
EndSweep(s) ==
  /\ sweep' = [sweep EXCEPT ![s] = NoSweep]
  /\ sweeping' = FALSE

\* A tick of the timer: the pending orders first, if a provider is configured.
BeginSweep(s) ==
  /\ sweep[s].stage = "idle" /\ \A r \in Sweeps : r < s => sweep[r].stage # "idle"
  /\ sweep' = [sweep EXCEPT ![s] =
       IF provider THEN Beginning("confirm", {o \in Orders : record[o] = "pending"}, {})
       ELSE Reconciling]
  /\ sweeping' = TRUE
  /\ UNCHANGED <<storeVars, quota, worldVars, told, faultVars>>

\* Mutant: the flag is not looked at.
TickUnguarded(s) == BeginSweep(s)
\* A tick that finds the flag set does nothing.
Tick(s) == ~sweeping /\ BeginSweep(s)

sweepRest == <<lapsed, worldVars, faultVars>>

\* The next order of the list.  confirmPlanPurchase reads the record again: if
\* it is active by now the sweep takes that for its own doing and tells the
\* payer, and any other status is left alone.
Ask(s, o) ==
  /\ sweep[s].stage \in {"confirm", "check"} /\ sweep[s].step = "next"
  /\ o \in sweep[s].todo
  /\ Take(s, o, IF sweep[s].stage = "check" \/ record[o] = "pending" THEN "asking"
                ELSE IF record[o] = "active" THEN "telling" ELSE "next")
  /\ UNCHANGED <<record, quota, sweeping, told, sweepRest>>

\* getOrder; what it says may be stale when the coroutine goes on.
Reply(s) ==
  /\ sweep[s].step = "asking"
  /\ Within(s, sweep[s].todo, sweep[s].cur, "got", order[sweep[s].cur])
  /\ UNCHANGED <<record, quota, sweeping, told, sweepRest>>

\* An error about this order only: the next one.
OrderError(s) ==
  /\ sweep[s].step = "asking" /\ gateway = "flaky"
  /\ NextOrder(s)
  /\ UNCHANGED <<record, quota, sweeping, told, sweepRest>>

\* isGatewayDown, a timeout among others: the rest of the list is given up.
Outage(s) ==
  /\ sweep[s].step = "asking" /\ gateway = "flaky"
  /\ \/ sweep[s].stage = "confirm" /\ BeginReconcile(s)
     \/ sweep[s].stage = "check" /\ EndSweep(s)
  /\ UNCHANGED <<record, quota, told, sweepRest>>

\* confirmPlanPurchase, after getOrder: the quota comes before the record.
Confirm(s) ==
  /\ At(s, "confirm", "got")
  /\ LET o == sweep[s].cur IN
     \/ /\ sweep[s].answer \in {"paid", "refunded"}
        /\ SetLimit(Activated(o))
        /\ Goto(s, "applied")
        /\ UNCHANGED record
     \/ /\ \/ sweep[s].answer = "misfit" /\ Write(o, "review")
           \/ sweep[s].answer = "void" /\ Write(o, "failed")
           \/ sweep[s].answer = "open" /\ Write(o, "pending")
        /\ NextOrder(s)
        /\ UNCHANGED quota
  /\ UNCHANGED <<sweeping, told, sweepRest>>

\* reconcileActiveSubscriptions, first pass: no provider is asked.
Expire(s, o) ==
  /\ At(s, "expire", "next")
  /\ o \in sweep[s].todo
  /\ SetLimit(Deactivated(o))
  /\ Take(s, o, "applied")
  /\ UNCHANGED <<record, sweeping, told, sweepRest>>

\* ... second pass: the order was refunded or charged back, or it stands (an
\* answer whose binding cannot be verified counts as standing).
Check(s) ==
  /\ At(s, "check", "got")
  /\ LET o == sweep[s].cur IN
     \/ /\ sweep[s].answer \in {"refunded", "void"}
        /\ SetLimit(Deactivated(o))
        /\ Goto(s, "applied")
        /\ UNCHANGED record
     \/ /\ Write(o, "active")
        /\ NextOrder(s)
        /\ UNCHANGED quota
  /\ UNCHANGED <<sweeping, told, sweepRest>>

\* The record follows the quota.
Persist(s) ==
  /\ sweep[s].step = "applied"
  /\ LET o == sweep[s].cur IN
     \/ /\ sweep[s].stage = "confirm"
        /\ Write(o, "active") /\ lapsed' = [lapsed EXCEPT ![o] = FALSE]
        /\ Goto(s, "telling")
     \/ /\ \/ sweep[s].stage = "expire" /\ Write(o, "expired")
           \/ sweep[s].stage = "check" /\ Write(o, "failed")
        /\ NextOrder(s)
        /\ UNCHANGED lapsed
  /\ UNCHANGED <<quota, sweeping, told, worldVars, faultVars>>

\* onActivated: the channel is awaited, its errors are swallowed.
Tell(s) ==
  /\ sweep[s].step = "telling"
  /\ told' = [told EXCEPT ![sweep[s].cur] = IF @ < 2 THEN @ + 1 ELSE @]
  /\ NextOrder(s)
  /\ UNCHANGED <<record, quota, sweeping, sweepRest>>

\* The list is done.
NextList(s) ==
  /\ sweep[s].stage # "idle" /\ sweep[s].step = "next" /\ sweep[s].todo = {}
  /\ \/ sweep[s].stage = "confirm" /\ BeginReconcile(s)
     \/ /\ sweep[s].stage = "expire" /\ provider
        /\ sweep' = [sweep EXCEPT ![s] = Beginning("check", sweep[s].kept, {})]
        /\ UNCHANGED sweeping
     \/ /\ sweep[s].stage = "check" \/ (sweep[s].stage = "expire" /\ ~provider)
        /\ EndSweep(s)
  /\ UNCHANGED <<record, quota, told, sweepRest>>

-----------------------------------------------------------------------------
(* Faults                                                                  *)

\* The quota, or the store, cannot be written: the error is logged and the
\* sweep goes on with the next order.
WriteFails(s) ==
  /\ faults < MaxFaults
  /\ faults' = faults + 1
  /\ \/ /\ sweep[s].step \in {"got", "applied"}
        /\ NextOrder(s)
     \/ \E o \in sweep[s].todo :
          /\ At(s, "expire", "next")
          /\ Skip(s, o)
  /\ UNCHANGED <<storeVars, quota, worldVars, sweeping, told, crashes, blind>>

\* The current limit cannot be read; it is set all the same.
ReadFails(s) ==
  /\ faults < MaxFaults
  /\ faults' = faults + 1
  /\ LET o == sweep[s].cur IN
     \/ /\ At(s, "confirm", "got") /\ sweep[s].answer \in {"paid", "refunded"}
        /\ SetLimit(ActivatedBlind(o))
        /\ Goto(s, "applied")
        /\ blind' = TRUE
     \/ /\ At(s, "check", "got") /\ sweep[s].answer \in {"refunded", "void"}
        /\ SetLimit(DeactivatedBlind(o))
        /\ Goto(s, "applied")
        /\ UNCHANGED blind
     \/ \E p \in sweep[s].todo :
          /\ At(s, "expire", "next")
          /\ SetLimit(DeactivatedBlind(p))
          /\ Take(s, p, "applied")
          /\ UNCHANGED blind
  /\ UNCHANGED <<storeVars, worldVars, sweeping, told, crashes>>

\* The process dies; another starts, perhaps with another configuration.
Crash ==
  /\ crashes < MaxCrashes
  /\ crashes' = crashes + 1
  /\ provider' \in BOOLEAN
  /\ sweeping' = FALSE
  /\ sweep' = [s \in Sweeps |-> NoSweep]
  /\ UNCHANGED <<storeVars, quota, order, gateway, told, faults, blind>>

-----------------------------------------------------------------------------
SweepStep(s) ==
  \/ \E o \in Orders : Ask(s, o) \/ Expire(s, o)
  \/ Reply(s)
  \/ OrderError(s)
  \/ Outage(s)
  \/ Confirm(s)
  \/ Check(s)
  \/ Persist(s)
  \/ Tell(s)
  \/ NextList(s)

Next ==
  \/ \E o \in Orders : Purchase(o) \/ Pay(o) \/ TakeBack(o) \/ Lapse(o)
  \/ \E s \in Sweeps : Tick(s) \/ SweepStep(s) \/ WriteFails(s) \/ ReadFails(s)
  \/ GatewayChanges
  \/ Crash

Spec == Init /\ [][Next]_vars

\* The timer fires; what a sweep awaits ends, by its timeout if not before.
FairSpec ==
  /\ Spec
  /\ WF_vars(\E s \in Sweeps : Tick(s))
  /\ \A s \in Sweeps : WF_vars(SweepStep(s))
-----------------------------------------------------------------------------
(* Properties                                                              *)

Coroutine ==
  [stage : {"idle", "confirm", "expire", "check"},
   step : {"next", "asking", "got", "applied", "telling"},
   todo : SUBSET Orders, kept : SUBSET Orders, cur : Orders \cup {NoOrder},
   answer : {"none", "open", "paid", "misfit", "refunded", "void"}]

\* Every variable has its type.
TypeOK ==
  /\ record \in [Orders -> {"none", "pending", "review", "active", "failed", "expired"}]
  /\ lapsed \in [Orders -> BOOLEAN]
  /\ quota \in Nat
  /\ order \in [Orders -> {"none", "open", "paid", "misfit", "refunded", "void"}]
  /\ gateway \in {"up", "flaky"}
  /\ provider \in BOOLEAN
  /\ sweeping \in BOOLEAN
  /\ sweep \in [Sweeps -> Coroutine]
  /\ told \in [Orders -> 0..2]
  /\ crashes \in 0..MaxCrashes
  /\ faults \in 0..MaxFaults
  /\ blind \in BOOLEAN

\* Who pays is served: while an active order stands and has not lapsed, the
\* account has at least its level, whatever other orders of the account come
\* and go and wherever a sweep was cut off, unless an activation was blind.
PaidIsServed ==
  blind \/ \A o \in Orders :
    record[o] = "active" /\ ~lapsed[o] /\ order[o] = "paid" => quota >= Level[o]

\* Nothing for nothing: unless a sweep was cut off, a limit above the floor is
\* that of an order which is active or about to be.
NothingForFree ==
  crashes + faults = 0 =>
    \/ quota = Floor
    \/ \E o \in Orders :
         /\ quota = Level[o]
         /\ \/ record[o] = "active"
            \/ \E s \in Sweeps : At(s, "confirm", "applied") /\ sweep[s].cur = o

\* Terminal and operator-review states are never re-opened, and an active order
\* only ends, however long the provider kept a sweep waiting.
SettledStays ==
  [][\A o \in Orders :
       /\ record[o] \in {"review", "failed", "expired"} => record'[o] = record[o]
       /\ record[o] = "active" => record'[o] \in {"active", "failed", "expired"}]_vars

\* The payer is told once at most (the comment at the flag of the timer, L4).
ToldOnce == \A o \in Orders : told[o] <= 1

\* "A hung or disabled provider can never prevent an expired entitlement from
\* being retried": a lapsed order ends, with or without a provider.
LapsedExpires == \A o \in Orders : record[o] = "active" /\ lapsed[o] ~> record[o] # "active"

\* A paid order is settled as long as the provider answers.
PaidSettles ==
  \A o \in Orders : order[o] = "paid" /\ record[o] = "pending"
                      ~> record[o] # "pending" \/ gateway = "flaky" \/ ~provider

\* "Reverting quota to the remaining entitlement" (H3, H4): when no order can
\* be paid or is active, the account is back at the floor.
ReversalTakesAll ==
  (/\ ~sweeping
   /\ \A o \in Orders : record[o] \in {"none", "review", "failed", "expired"})
     => quota = Floor
=============================================================================
