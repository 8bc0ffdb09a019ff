--------------------------- MODULE PaymentsProofs ---------------------------
(* Theorems about Payments for any set of orders and any levels of plans.  *)
EXTENDS Payments, TLAPS

USE OrdersAssumption, LevelsAssumption, BoundsAssumption

-----------------------------------------------------------------------------
(* Types                                                                   *)

\* What an entitlement is computed from are natural numbers, and the limit set
\* is the greatest of them.
LEMMA LimitIsGreatest ==
  ASSUME NEW levels, SetLimit(levels)
  PROVE  quota' \in levels /\ \A x \in levels : x <= quota'
  BY DEF SetLimit, Greatest

LEMMA LevelsAreNat ==
  ASSUME quota \in Nat, NEW o \in Orders
  PROVE  /\ Remaining(o) \subseteq Nat
         /\ Deactivated(o) \subseteq Nat /\ DeactivatedBlind(o) \subseteq Nat
         /\ Activated(o) \subseteq Nat /\ ActivatedBlind(o) \subseteq Nat
  BY DEF Remaining, KeptByOthers, Deactivated, DeactivatedBlind, Activated, ActivatedBlind

LEMMA LimitType ==
  ASSUME quota \in Nat, NEW o \in Orders,
         \/ SetLimit(Deactivated(o)) \/ SetLimit(DeactivatedBlind(o))
         \/ SetLimit(Activated(o)) \/ SetLimit(ActivatedBlind(o))
  PROVE  quota' \in Nat
  BY LimitIsGreatest, LevelsAreNat

LEMMA BeginningType ==
  ASSUME NEW stage \in {"idle", "confirm", "expire", "check"},
         NEW todo \in SUBSET Orders, NEW kept \in SUBSET Orders
  PROVE  Beginning(stage, todo, kept) \in Coroutine
  BY DEF Beginning, Coroutine

LEMMA NoSweepType == NoSweep \in Coroutine
  BY BeginningType DEF NoSweep

LEMMA ReconcilingType == Reconciling \in Coroutine
  BY BeginningType DEF Reconciling, Active

\* A sweep that stays within its stage.
LEMMA WithinType ==
  ASSUME sweep \in [Sweeps -> Coroutine], NEW s \in Sweeps,
         NEW todo \in SUBSET Orders, NEW cur \in Orders \cup {NoOrder},
         NEW step \in {"next", "asking", "got", "applied", "telling"},
         NEW answer \in {"none", "open", "paid", "misfit", "refunded", "void"},
         Within(s, todo, cur, step, answer)
  PROVE  sweep' \in [Sweeps -> Coroutine]
  BY DEF Within, Coroutine

LEMMA MoveType ==
  ASSUME sweep \in [Sweeps -> Coroutine], NEW s \in Sweeps, NEW o \in Orders,
         NEW step \in {"next", "asking", "got", "applied", "telling"},
         NextOrder(s) \/ Goto(s, step) \/ Take(s, o, step) \/ Skip(s, o)
  PROVE  sweep' \in [Sweeps -> Coroutine]
  <1>1. /\ sweep[s].todo \in SUBSET Orders /\ sweep[s].todo \ {o} \in SUBSET Orders
        /\ sweep[s].cur \in Orders \cup {NoOrder}
        /\ sweep[s].answer \in {"none", "open", "paid", "misfit", "refunded", "void"}
    BY DEF Coroutine
  <1>2. CASE NextOrder(s)
    BY <1>1, <1>2 DEF NextOrder, Within, Coroutine
  <1>3. CASE Goto(s, step)
    BY <1>1, <1>3 DEF Goto, Within, Coroutine
  <1>4. CASE Take(s, o, step)
    BY <1>1, <1>4 DEF Take, Within, Coroutine
  <1>5. CASE Skip(s, o)
    BY <1>1, <1>5 DEF Skip, Within, Coroutine
  <1>6. QED
    BY <1>2, <1>3, <1>4, <1>5

-----------------------------------------------------------------------------
(* The invariant of the sweep                                              *)

\* One tick at a time is at work.
OneSweep ==
  /\ \A s \in Sweeps : sweep[s].stage # "idle" => sweeping
  /\ \A r, s \in Sweeps : sweep[r].stage # "idle" /\ sweep[s].stage # "idle" => r = s

\* The orders in its lists and in its hand have the status the lists were made for.
Sound(c) ==
  /\ c.stage = "idle" => c.step = "next"
  /\ c.stage = "expire" => c.step \in {"next", "applied"}
  /\ c.step = "telling" => c.stage = "confirm"
  /\ c.step # "next" => c.cur \in Orders \ (c.todo \cup c.kept)
  /\ c.todo \cap c.kept = {}
  /\ c.stage = "confirm" => c.kept = {} /\ \A o \in c.todo : record[o] = "pending"
  /\ c.stage \in {"expire", "check"} => \A o \in c.todo \cup c.kept : record[o] = "active"
  /\ c.stage = "expire" => \A o \in c.todo : lapsed[o]
  /\ c.stage = "expire" /\ c.step # "next" => lapsed[c.cur]
  /\ c.step # "next" =>
       record[c.cur] = IF c.stage = "confirm" /\ c.step # "telling"
                       THEN "pending" ELSE "active"

SweepInv == TypeOK /\ OneSweep /\ \A s \in Sweeps : Sound(sweep[s])

LEMMA InitSweep == Init => SweepInv
  <1> SUFFICES ASSUME Init PROVE SweepInv
    OBVIOUS
  <1>1. sweep \in [Sweeps -> Coroutine]
    BY NoSweepType DEF Init
  <1>2. /\ lapsed \in [Orders -> BOOLEAN] /\ sweeping \in BOOLEAN
        /\ provider \in BOOLEAN /\ blind \in BOOLEAN
    BY Zenon DEF Init
  <1>3. TypeOK
    BY <1>1, <1>2 DEF Init, TypeOK
  <1>4. OneSweep /\ \A s \in Sweeps : Sound(sweep[s])
    BY DEF Init, OneSweep, Sound, NoSweep, Beginning
  <1>5. QED
    BY <1>3, <1>4 DEF SweepInv

LEMMA AskInv ==
  ASSUME SweepInv, NEW s \in Sweeps, NEW o \in Orders, Ask(s, o)
  PROVE  SweepInv'
  <1>1. TypeOK'
    BY WithinType DEF SweepInv, TypeOK, Ask, Take, sweepRest, worldVars, faultVars, Coroutine
  <1>2. OneSweep'
    BY DEF SweepInv, TypeOK, OneSweep, Ask, Take, Within
  <1>3. \A r \in Sweeps : Sound(sweep[r])'
    BY DEF SweepInv, TypeOK, Coroutine, OneSweep, Sound, Ask, Take, Within, sweepRest
  <1>4. QED
    BY <1>1, <1>2, <1>3 DEF SweepInv


LEMMA ReplyInv ==
  ASSUME SweepInv, NEW s \in Sweeps, Reply(s)
  PROVE  SweepInv'
  <1>1. TypeOK'
    <2>1. sweep' \in [Sweeps -> Coroutine]
      <3>1. sweep[s] \in Coroutine /\ sweep[s].cur \in Orders
        BY DEF SweepInv, TypeOK, Reply, Sound
      <3>2. order[sweep[s].cur] \in {"none", "open", "paid", "misfit", "refunded", "void"}
        BY <3>1 DEF SweepInv, TypeOK
      <3>3. QED
        BY <3>1, <3>2 DEF SweepInv, TypeOK, Reply, Within, Coroutine
    <2>2. QED
      BY <2>1, LimitType DEF SweepInv, TypeOK, Sound, Coroutine, Reply, sweepRest, worldVars, faultVars
  <1>2. OneSweep'
    BY DEF SweepInv, TypeOK, OneSweep, Reply, Within, sweepRest
  <1>3. \A r \in Sweeps : Sound(sweep[r])'
    BY DEF SweepInv, TypeOK, Coroutine, OneSweep, Sound, Reply, Within, sweepRest
  <1>4. QED
    BY <1>1, <1>2, <1>3 DEF SweepInv

LEMMA OrderErrorInv ==
  ASSUME SweepInv, NEW s \in Sweeps, OrderError(s)
  PROVE  SweepInv'
  <1>1. TypeOK'
    <2>1. sweep' \in [Sweeps -> Coroutine]
      BY WithinType DEF SweepInv, TypeOK, Coroutine, OrderError, NextOrder, sweepRest, worldVars, faultVars
    <2>2. QED
      BY <2>1, LimitType DEF SweepInv, TypeOK, Coroutine, OrderError, NextOrder, sweepRest, worldVars, faultVars
  <1>2. OneSweep'
    BY DEF SweepInv, TypeOK, OneSweep, OrderError, NextOrder, Within, sweepRest
  <1>3. \A r \in Sweeps : Sound(sweep[r])'
    BY DEF SweepInv, TypeOK, Coroutine, OneSweep, Sound, OrderError, NextOrder, Within, sweepRest
  <1>4. QED
    BY <1>1, <1>2, <1>3 DEF SweepInv

LEMMA OutageInv ==
  ASSUME SweepInv, NEW s \in Sweeps, Outage(s)
  PROVE  SweepInv'
  <1>1. TypeOK'
    <2>1. sweep' \in [Sweeps -> Coroutine]
      BY NoSweepType, ReconcilingType DEF SweepInv, TypeOK, Outage, BeginReconcile, EndSweep, sweepRest, worldVars, faultVars
    <2>2. QED
      BY <2>1, LimitType DEF SweepInv, TypeOK, Outage, BeginReconcile, EndSweep, sweepRest, worldVars, faultVars
  <1>2. OneSweep'
    <2>1. sweep[s].stage # "idle" /\ \A r \in Sweeps \ {s} : sweep'[r] = sweep[r]
      BY DEF SweepInv, TypeOK, Outage, BeginReconcile, EndSweep
    <2>2. CASE BeginReconcile(s)
      BY <2>1, <2>2 DEF SweepInv, OneSweep, BeginReconcile
    <2>3. CASE EndSweep(s)
      <3>1. sweep'[s].stage = "idle"
        BY <2>3 DEF SweepInv, TypeOK, EndSweep, NoSweep, Beginning
      <3>2. QED
        BY <2>1, <3>1 DEF SweepInv, OneSweep
    <2>4. QED
      BY <2>2, <2>3 DEF Outage
  <1>3. \A r \in Sweeps : Sound(sweep[r])'
    BY DEF SweepInv, TypeOK, Coroutine, OneSweep, Sound, Outage, BeginReconcile, EndSweep, Reconciling, NoSweep, Beginning, Active, sweepRest
  <1>4. QED
    BY <1>1, <1>2, <1>3 DEF SweepInv

LEMMA ConfirmInv ==
  ASSUME SweepInv, NEW s \in Sweeps, Confirm(s)
  PROVE  SweepInv'
  <1>1. TypeOK'
    <2>1. sweep' \in [Sweeps -> Coroutine]
      <3>1. sweep \in [Sweeps -> Coroutine] /\ sweep[s].cur \in Orders
        BY DEF SweepInv, TypeOK, Confirm, At, Sound
      <3>2. NextOrder(s) \/ Goto(s, "applied")
        BY DEF Confirm
      <3>3. QED
        BY <3>1, <3>2, MoveType
    <2>2. QED
      BY <2>1, LimitType DEF SweepInv, TypeOK, Coroutine, Sound, Confirm, Goto, NextOrder, At, Write, sweepRest, worldVars, faultVars
  <1>2. OneSweep'
    BY DEF SweepInv, TypeOK, OneSweep, Confirm, Goto, NextOrder, At, Write, Within, sweepRest
  <1>3. \A r \in Sweeps : Sound(sweep[r])'
    BY DEF SweepInv, TypeOK, Coroutine, OneSweep, Sound, Confirm, Goto, NextOrder, At, Write, Within, sweepRest
  <1>4. QED
    BY <1>1, <1>2, <1>3 DEF SweepInv

LEMMA ExpireInv ==
  ASSUME SweepInv, NEW s \in Sweeps, NEW o \in Orders, Expire(s, o)
  PROVE  SweepInv'
  <1>1. TypeOK'
    <2>1. sweep' \in [Sweeps -> Coroutine]
      BY WithinType, LimitType DEF SweepInv, TypeOK, Coroutine, Expire, Take, At, sweepRest, worldVars, faultVars
    <2>2. QED
      BY <2>1, LimitType DEF SweepInv, TypeOK, Coroutine, Expire, Take, At, sweepRest, worldVars, faultVars
  <1>2. OneSweep'
    BY DEF SweepInv, TypeOK, OneSweep, Expire, Take, At, Within, sweepRest
  <1>3. \A r \in Sweeps : Sound(sweep[r])'
    BY DEF SweepInv, TypeOK, Coroutine, OneSweep, Sound, Expire, Take, At, Within, sweepRest
  <1>4. QED
    BY <1>1, <1>2, <1>3 DEF SweepInv

LEMMA CheckInv ==
  ASSUME SweepInv, NEW s \in Sweeps, Check(s)
  PROVE  SweepInv'
  <1>1. TypeOK'
    <2>1. sweep' \in [Sweeps -> Coroutine]
      <3>1. sweep \in [Sweeps -> Coroutine] /\ sweep[s].cur \in Orders
        BY DEF SweepInv, TypeOK, Check, At, Sound
      <3>2. NextOrder(s) \/ Goto(s, "applied")
        BY DEF Check
      <3>3. QED
        BY <3>1, <3>2, MoveType
    <2>2. QED
      BY <2>1, LimitType DEF SweepInv, TypeOK, Coroutine, Sound, Check, Goto, NextOrder, At, Write, sweepRest, worldVars, faultVars
  <1>2. OneSweep'
    BY DEF SweepInv, TypeOK, OneSweep, Check, Goto, NextOrder, At, Write, Within, sweepRest
  <1>3. \A r \in Sweeps : Sound(sweep[r])'
    BY DEF SweepInv, TypeOK, Coroutine, OneSweep, Sound, Check, Goto, NextOrder, At, Write, Within, sweepRest
  <1>4. QED
    BY <1>1, <1>2, <1>3 DEF SweepInv

LEMMA PersistInv ==
  ASSUME SweepInv, NEW s \in Sweeps, Persist(s)
  PROVE  SweepInv'
  <1>1. TypeOK'
    <2>1. sweep' \in [Sweeps -> Coroutine]
      <3>1. sweep \in [Sweeps -> Coroutine] /\ sweep[s].cur \in Orders
        BY DEF SweepInv, TypeOK, Persist, Sound
      <3>2. NextOrder(s) \/ Goto(s, "telling")
        BY DEF Persist
      <3>3. QED
        BY <3>1, <3>2, MoveType
    <2>2. /\ record' \in [Orders -> {"none", "pending", "review", "active", "failed", "expired"}]
          /\ lapsed' \in [Orders -> BOOLEAN]
      BY DEF SweepInv, TypeOK, Persist, Write
    <2>3. QED
      BY <2>1, <2>2 DEF SweepInv, TypeOK, Persist, worldVars, faultVars
  <1>2. OneSweep'
    BY DEF SweepInv, TypeOK, OneSweep, Persist, Goto, NextOrder, Write, Within
  <1>3. \A r \in Sweeps : Sound(sweep[r])'
    BY DEF SweepInv, TypeOK, Coroutine, OneSweep, Sound, Persist, Goto, NextOrder, Write, Within
  <1>4. QED
    BY <1>1, <1>2, <1>3 DEF SweepInv

LEMMA TellInv ==
  ASSUME SweepInv, NEW s \in Sweeps, Tell(s)
  PROVE  SweepInv'
  <1>1. TypeOK'
    <2>1. sweep' \in [Sweeps -> Coroutine]
      BY WithinType DEF SweepInv, TypeOK, Coroutine, Sound, Tell, NextOrder, sweepRest, worldVars, faultVars
    <2>2. QED
      BY <2>1, LimitType DEF SweepInv, TypeOK, Coroutine, Sound, Tell, NextOrder, sweepRest, worldVars, faultVars
  <1>2. OneSweep'
    BY DEF SweepInv, TypeOK, OneSweep, Tell, NextOrder, Within, sweepRest
  <1>3. \A r \in Sweeps : Sound(sweep[r])'
    BY DEF SweepInv, TypeOK, Coroutine, OneSweep, Sound, Tell, NextOrder, Within, sweepRest
  <1>4. QED
    BY <1>1, <1>2, <1>3 DEF SweepInv

LEMMA NextListInv ==
  ASSUME SweepInv, NEW s \in Sweeps, NextList(s)
  PROVE  SweepInv'
  <1>1. TypeOK'
    <2>1. sweep' \in [Sweeps -> Coroutine]
      <3>1. sweep \in [Sweeps -> Coroutine] /\ sweep[s].kept \in SUBSET Orders
        BY DEF SweepInv, TypeOK, Coroutine
      <3>2. Beginning("check", sweep[s].kept, {}) \in Coroutine
        BY <3>1, BeginningType
      <3>3. QED
        BY <3>1, <3>2, NoSweepType, ReconcilingType DEF NextList, BeginReconcile, EndSweep
    <2>2. QED
      BY <2>1 DEF SweepInv, TypeOK, NextList, BeginReconcile, EndSweep, sweepRest, worldVars, faultVars
  <1>2. OneSweep'
    BY DEF SweepInv, TypeOK, OneSweep, NextList, BeginReconcile, EndSweep, Reconciling, NoSweep, Beginning, Active, sweepRest
  <1>3. \A r \in Sweeps : Sound(sweep[r])'
    BY DEF SweepInv, TypeOK, Coroutine, OneSweep, Sound, NextList, BeginReconcile, EndSweep, Reconciling, NoSweep, Beginning, Active, sweepRest
  <1>4. QED
    BY <1>1, <1>2, <1>3 DEF SweepInv

LEMMA WriteFailsInv ==
  ASSUME SweepInv, NEW s \in Sweeps, WriteFails(s)
  PROVE  SweepInv'
  <1>1. TypeOK'
    <2>1. sweep' \in [Sweeps -> Coroutine]
      BY WithinType DEF SweepInv, TypeOK, Coroutine, WriteFails, NextOrder, Skip, At, storeVars, worldVars
    <2>2. QED
      BY <2>1, LimitType DEF SweepInv, TypeOK, Coroutine, WriteFails, NextOrder, Skip, At, storeVars, worldVars
  <1>2. OneSweep'
    BY DEF SweepInv, TypeOK, OneSweep, WriteFails, NextOrder, Skip, At, Within, storeVars
  <1>3. \A r \in Sweeps : Sound(sweep[r])'
    BY DEF SweepInv, TypeOK, Coroutine, OneSweep, Sound, WriteFails, NextOrder, Skip, At, Within, storeVars
  <1>4. QED
    BY <1>1, <1>2, <1>3 DEF SweepInv

LEMMA ReadFailsInv ==
  ASSUME SweepInv, NEW s \in Sweeps, ReadFails(s)
  PROVE  SweepInv'
  <1>1. TypeOK'
    <2>1. sweep' \in [Sweeps -> Coroutine]
      <3>1. /\ sweep \in [Sweeps -> Coroutine] /\ sweep[s].todo \subseteq Orders
            /\ sweep[s].step = "got" => sweep[s].cur \in Orders
        BY DEF SweepInv, TypeOK, Sound, Coroutine
      <3>2. \/ sweep[s].step = "got" /\ Goto(s, "applied")
            \/ \E p \in Orders : Take(s, p, "applied")
        BY <3>1 DEF ReadFails, At
      <3>3. ASSUME NEW p \in Orders, Take(s, p, "applied") PROVE sweep' \in [Sweeps -> Coroutine]
        BY <3>1, <3>3, MoveType
      <3>4. ASSUME sweep[s].step = "got", Goto(s, "applied") PROVE sweep' \in [Sweeps -> Coroutine]
        BY <3>1, <3>4, MoveType
      <3>5. QED
        BY <3>2, <3>3, <3>4
    <2>2. quota' \in Nat
      <3>1. /\ sweep[s].step = "got" => sweep[s].cur \in Orders
            /\ sweep[s].todo \subseteq Orders
        BY DEF SweepInv, TypeOK, Coroutine, Sound
      <3>2. \E p \in Orders : SetLimit(ActivatedBlind(p)) \/ SetLimit(DeactivatedBlind(p))
        BY <3>1 DEF ReadFails, At
      <3>3. QED
        BY <3>2, LimitType DEF SweepInv, TypeOK
    <2>3. blind' \in BOOLEAN
      BY Zenon DEF SweepInv, TypeOK, ReadFails
    <2>4. QED
      BY <2>1, <2>2, <2>3 DEF SweepInv, TypeOK, ReadFails, storeVars, worldVars
  <1>2. OneSweep'
    BY DEF SweepInv, TypeOK, OneSweep, ReadFails, Goto, Take, At, Within, storeVars
  <1>3. \A r \in Sweeps : Sound(sweep[r])'
    BY DEF SweepInv, TypeOK, Coroutine, OneSweep, Sound, ReadFails, Goto, Take, At, Within, storeVars
  <1>4. QED
    BY <1>1, <1>2, <1>3 DEF SweepInv

LEMMA TickInv ==
  ASSUME SweepInv, NEW s \in Sweeps, Tick(s)
  PROVE  SweepInv'
  <1>1. TypeOK'
    <2>1. sweep' \in [Sweeps -> Coroutine]
      BY BeginningType, ReconcilingType DEF SweepInv, TypeOK, Tick, BeginSweep, storeVars, worldVars, faultVars
    <2>2. QED
      BY <2>1, LimitType DEF SweepInv, TypeOK, Tick, BeginSweep, storeVars, worldVars, faultVars
  <1>2. OneSweep'
    BY DEF SweepInv, TypeOK, OneSweep, Tick, BeginSweep, Reconciling, Beginning, Active, storeVars
  <1>3. \A r \in Sweeps : Sound(sweep[r])'
    BY DEF SweepInv, TypeOK, Coroutine, OneSweep, Sound, Tick, BeginSweep, Reconciling, Beginning, Active, storeVars
  <1>4. QED
    BY <1>1, <1>2, <1>3 DEF SweepInv

LEMMA PurchaseInv ==
  ASSUME SweepInv, NEW o \in Orders, Purchase(o)
  PROVE  SweepInv'
  <1>1. TypeOK'
    <2>1. sweep' \in [Sweeps -> Coroutine]
      BY DEF SweepInv, TypeOK, Purchase, worldRest, storeVars, worldVars, faultVars
    <2>2. QED
      BY <2>1, LimitType DEF SweepInv, TypeOK, Purchase, worldRest, storeVars, worldVars, faultVars
  <1>2. OneSweep'
    BY DEF SweepInv, TypeOK, OneSweep, Purchase, worldRest, storeVars, worldVars, faultVars
  <1>3. \A r \in Sweeps : Sound(sweep[r])'
    BY DEF SweepInv, TypeOK, Coroutine, OneSweep, Sound, Purchase, worldRest, storeVars, worldVars, faultVars
  <1>4. QED
    BY <1>1, <1>2, <1>3 DEF SweepInv

LEMMA PayInv ==
  ASSUME SweepInv, NEW o \in Orders, Pay(o)
  PROVE  SweepInv'
  <1>1. TypeOK'
    <2>1. sweep' \in [Sweeps -> Coroutine]
      BY DEF SweepInv, TypeOK, Pay, worldRest, storeVars, worldVars, faultVars
    <2>2. QED
      BY <2>1, LimitType DEF SweepInv, TypeOK, Pay, worldRest, storeVars, worldVars, faultVars
  <1>2. OneSweep'
    BY DEF SweepInv, TypeOK, OneSweep, Pay, worldRest, storeVars, worldVars, faultVars
  <1>3. \A r \in Sweeps : Sound(sweep[r])'
    BY DEF SweepInv, TypeOK, Coroutine, OneSweep, Sound, Pay, worldRest, storeVars, worldVars, faultVars
  <1>4. QED
    BY <1>1, <1>2, <1>3 DEF SweepInv

LEMMA TakeBackInv ==
  ASSUME SweepInv, NEW o \in Orders, TakeBack(o)
  PROVE  SweepInv'
  <1>1. TypeOK'
    <2>1. sweep' \in [Sweeps -> Coroutine]
      BY DEF SweepInv, TypeOK, TakeBack, worldRest, storeVars, worldVars, faultVars
    <2>2. QED
      BY <2>1, LimitType DEF SweepInv, TypeOK, TakeBack, worldRest, storeVars, worldVars, faultVars
  <1>2. OneSweep'
    BY DEF SweepInv, TypeOK, OneSweep, TakeBack, worldRest, storeVars, worldVars, faultVars
  <1>3. \A r \in Sweeps : Sound(sweep[r])'
    BY DEF SweepInv, TypeOK, Coroutine, OneSweep, Sound, TakeBack, worldRest, storeVars, worldVars, faultVars
  <1>4. QED
    BY <1>1, <1>2, <1>3 DEF SweepInv

LEMMA GatewayChangesInv ==
  ASSUME SweepInv, GatewayChanges
  PROVE  SweepInv'
  <1>1. TypeOK'
    <2>1. sweep' \in [Sweeps -> Coroutine]
      BY DEF SweepInv, TypeOK, GatewayChanges, worldRest, storeVars, worldVars, faultVars
    <2>2. QED
      BY <2>1, LimitType DEF SweepInv, TypeOK, GatewayChanges, worldRest, storeVars, worldVars, faultVars
  <1>2. OneSweep'
    BY DEF SweepInv, TypeOK, OneSweep, GatewayChanges, worldRest, storeVars, worldVars, faultVars
  <1>3. \A r \in Sweeps : Sound(sweep[r])'
    BY DEF SweepInv, TypeOK, Coroutine, OneSweep, Sound, GatewayChanges, worldRest, storeVars, worldVars, faultVars
  <1>4. QED
    BY <1>1, <1>2, <1>3 DEF SweepInv

LEMMA LapseInv ==
  ASSUME SweepInv, NEW o \in Orders, Lapse(o)
  PROVE  SweepInv'
  <1>1. TypeOK'
    <2>1. sweep' \in [Sweeps -> Coroutine]
      BY DEF SweepInv, TypeOK, Lapse, worldRest, storeVars, worldVars, faultVars
    <2>2. QED
      BY <2>1, LimitType DEF SweepInv, TypeOK, Lapse, worldRest, storeVars, worldVars, faultVars
  <1>2. OneSweep'
    BY DEF SweepInv, TypeOK, OneSweep, Lapse, worldRest, storeVars, worldVars, faultVars
  <1>3. \A r \in Sweeps : Sound(sweep[r])'
    BY DEF SweepInv, TypeOK, Coroutine, OneSweep, Sound, Lapse, worldRest, storeVars, worldVars, faultVars
  <1>4. QED
    BY <1>1, <1>2, <1>3 DEF SweepInv

LEMMA CrashInv ==
  ASSUME SweepInv, Crash
  PROVE  SweepInv'
  <1>1. TypeOK'
    <2>1. sweep' \in [Sweeps -> Coroutine]
      BY NoSweepType DEF SweepInv, TypeOK, Crash, storeVars
    <2>2. provider' \in BOOLEAN /\ sweeping' \in BOOLEAN
      BY Zenon DEF Crash
    <2>3. QED
      BY <2>1, <2>2 DEF SweepInv, TypeOK, Crash, storeVars
  <1>2. OneSweep'
    BY DEF SweepInv, TypeOK, OneSweep, Crash, NoSweep, Beginning, storeVars
  <1>3. \A r \in Sweeps : Sound(sweep[r])'
    BY DEF SweepInv, TypeOK, Coroutine, OneSweep, Sound, Crash, NoSweep, Beginning, storeVars
  <1>4. QED
    BY <1>1, <1>2, <1>3 DEF SweepInv

-----------------------------------------------------------------------------
(* Theorems: types, and records that only move on                          *)

LEMMA SweepStepInv == SweepInv /\ [Next]_vars => SweepInv'
  <1> SUFFICES ASSUME SweepInv, [Next]_vars PROVE SweepInv'
    OBVIOUS
  <1>1. ASSUME NEW o \in Orders, Purchase(o) \/ Pay(o) \/ TakeBack(o) \/ Lapse(o)
        PROVE  SweepInv'
    BY <1>1, PurchaseInv, PayInv, TakeBackInv, LapseInv
  <1>2. ASSUME NEW s \in Sweeps, SweepStep(s)
        PROVE  SweepInv'
    BY <1>2, AskInv, ExpireInv, ReplyInv, OrderErrorInv, OutageInv, ConfirmInv, CheckInv,
       PersistInv, TellInv, NextListInv DEF SweepStep
  <1>3. ASSUME NEW s \in Sweeps, Tick(s) \/ WriteFails(s) \/ ReadFails(s)
        PROVE  SweepInv'
    BY <1>3, TickInv, WriteFailsInv, ReadFailsInv
  <1>4. CASE UNCHANGED vars
    BY <1>4 DEF SweepInv, TypeOK, OneSweep, Sound, vars, storeVars, worldVars, faultVars
  <1>5. QED
    BY <1>1, <1>2, <1>3, <1>4, GatewayChangesInv, CrashInv DEF Next

LEMMA SweepInvariant == Spec => []SweepInv
  BY InitSweep, SweepStepInv, PTL DEF Spec

\* Every variable keeps its type; the limit is never negative.
THEOREM TypeCorrect == Spec => []TypeOK
  <1>1. SweepInv => TypeOK
    BY DEF SweepInv
  <1>2. QED
    BY <1>1, SweepInvariant, PTL

\* A record that is settled is not reopened, and an active one only ends, for any
\* number of orders and wherever a sweep was waiting when they changed.
THEOREM RecordsSettle == Spec => SettledStays
  <1> DEFINE Moves ==
        \A o \in Orders :
          /\ record[o] \in {"review", "failed", "expired"} => record'[o] = record[o]
          /\ record[o] = "active" => record'[o] \in {"active", "failed", "expired"}
  <1>1. SweepInv /\ [Next]_vars => [Moves]_vars
    <2> SUFFICES ASSUME SweepInv, Next PROVE Moves
      BY DEF vars
    <2>1. ASSUME NEW o \in Orders, Purchase(o) PROVE Moves
      BY <2>1 DEF SweepInv, TypeOK, Purchase
    <2>2. ASSUME NEW s \in Sweeps, Confirm(s) PROVE Moves
      BY <2>2 DEF SweepInv, TypeOK, Sound, Confirm, At, Write
    <2>3. ASSUME NEW s \in Sweeps, Check(s) PROVE Moves
      BY <2>3 DEF SweepInv, TypeOK, Sound, Check, At, Write
    <2>4. ASSUME NEW s \in Sweeps, Persist(s) PROVE Moves
      BY <2>4 DEF SweepInv, TypeOK, Sound, Persist, Write
    <2>5. CASE UNCHANGED record
      BY <2>5
    <2>6. QED
      BY <2>1, <2>2, <2>3, <2>4, <2>5
         DEF Next, SweepStep, Pay, TakeBack, Lapse, GatewayChanges, Crash, Tick, BeginSweep,
             WriteFails, ReadFails, Ask, Expire, Reply, OrderError, Outage, Tell, NextList,
             storeVars
  <1>2. QED
    BY <1>1, SweepInvariant, PTL DEF Spec, SettledStays

-----------------------------------------------------------------------------
(* Theorem: the payer is told once                                         *)

\* Nobody has been told of an order that was never active, nor of the one a sweep
\* is about to tell.
ToldInv ==
  /\ ToldOnce
  /\ \A o \in Orders : record[o] \in {"none", "pending"} => told[o] = 0
  /\ \A s \in Sweeps : sweep[s].step = "telling" => told[sweep[s].cur] = 0

LEMMA InitTold == Init => ToldInv
  BY DEF Init, ToldInv, ToldOnce, NoSweep, Beginning

\* What a step that tells nobody must not do.
LEMMA NothingTold ==
  ASSUME SweepInv, ToldInv, UNCHANGED told,
         \A o \in Orders : record'[o] \in {"none", "pending"} => record[o] \in {"none", "pending"},
         \A s \in Sweeps : sweep'[s].step = "telling" => sweep'[s] = sweep[s]
  PROVE  ToldInv'
  BY DEF ToldInv, ToldOnce

LEMMA ToldStep == SweepInv /\ ToldInv /\ [Next]_vars => ToldInv'
  <1> SUFFICES ASSUME SweepInv, ToldInv, [Next]_vars PROVE ToldInv'
    OBVIOUS
  <1> USE DEF SweepInv, TypeOK
  <1>1. ASSUME NEW o \in Orders, Purchase(o) \/ Pay(o) \/ TakeBack(o) \/ Lapse(o)
        PROVE  ToldInv'
    BY <1>1, NothingTold DEF Purchase, Pay, TakeBack, Lapse, worldRest, storeVars
  <1>2. ASSUME NEW s \in Sweeps, NEW o \in Orders, Ask(s, o)
        PROVE  ToldInv'
    BY <1>2, NothingTold DEF Ask, Take, Within, Sound
  <1>3. ASSUME NEW s \in Sweeps, NEW o \in Orders, Expire(s, o)
        PROVE  ToldInv'
    BY <1>3, NothingTold DEF Expire, Take, Within
  <1>4. ASSUME NEW s \in Sweeps, Reply(s) \/ OrderError(s)
        PROVE  ToldInv'
    BY <1>4, NothingTold DEF Reply, OrderError, NextOrder, Within
  <1>5. ASSUME NEW s \in Sweeps, Outage(s) \/ NextList(s)
        PROVE  ToldInv'
    BY <1>5, NothingTold DEF Outage, NextList, BeginReconcile, EndSweep, NoSweep, Reconciling,
       Beginning
  <1>6. ASSUME NEW s \in Sweeps, Confirm(s)
        PROVE  ToldInv'
    BY <1>6, NothingTold DEF Confirm, Goto, NextOrder, Within, Write, At, Sound
  <1>7. ASSUME NEW s \in Sweeps, Check(s)
        PROVE  ToldInv'
    BY <1>7, NothingTold DEF Check, Goto, NextOrder, Within, Write, At, Sound
  <1>8. ASSUME NEW s \in Sweeps, Persist(s)
        PROVE  ToldInv'
    BY <1>8 DEF Persist, Goto, NextOrder, Within, Write, Sound, ToldInv, ToldOnce
  <1>9. ASSUME NEW s \in Sweeps, Tell(s)
        PROVE  ToldInv'
    BY <1>9 DEF Tell, NextOrder, Within, Sound, OneSweep, ToldInv, ToldOnce, Coroutine
  <1>10. ASSUME NEW s \in Sweeps, Tick(s) \/ WriteFails(s) \/ ReadFails(s)
         PROVE  ToldInv'
    BY <1>10, NothingTold DEF Tick, BeginSweep, WriteFails, ReadFails, Reconciling, Beginning,
       NextOrder, Skip, Take, Goto, Within, storeVars
  <1>11. CASE GatewayChanges \/ Crash
    BY <1>11, NothingTold DEF GatewayChanges, Crash, NoSweep, Beginning, worldRest, storeVars
  <1>12. CASE UNCHANGED vars
    BY <1>12 DEF ToldInv, ToldOnce, vars, storeVars
  <1>13. QED
    BY <1>1, <1>2, <1>3, <1>4, <1>5, <1>6, <1>7, <1>8, <1>9, <1>10, <1>11, <1>12
       DEF Next, SweepStep

\* The payer hears once of an activation, for any number of orders and ticks: no
\* second sweep begins while one is under way, and an order is only told of on its
\* way from pending.
THEOREM PayerToldOnce == Spec => []ToldOnce
  <1>1. ToldInv => ToldOnce
    BY DEF ToldInv
  <1>2. QED
    BY <1>1, InitTold, ToldStep, SweepInvariant, PTL DEF Spec

-----------------------------------------------------------------------------
(* Theorem: who pays is served                                             *)

Charged == {"paid", "refunded", "void"}

\* What the provider said is still true as far as it matters: an order that was
\* charged is so, and one that was taken back is not paid again.
AnswerTrue ==
  /\ \A o \in Orders : record[o] = "active" => order[o] \in Charged
  /\ \A s \in Sweeps :
       \/ At(s, "confirm", "applied")
       \/ At(s, "confirm", "got") /\ sweep[s].answer \in {"paid", "refunded"}
       => order[sweep[s].cur] \in Charged
  /\ \A s \in Sweeps :
       At(s, "check", "got") /\ sweep[s].answer \in {"refunded", "void"}
         => order[sweep[s].cur] \in {"refunded", "void"}

\* PaidIsServed, also of the order whose quota is written and whose record is not.
ServedInv ==
  /\ AnswerTrue
  /\ PaidIsServed
  /\ blind \/ \A s \in Sweeps : At(s, "confirm", "applied") => quota >= Level[sweep[s].cur]

LEMMA InitServed == Init => ServedInv
  BY DEF Init, ServedInv, AnswerTrue, PaidIsServed, At, NoSweep, Beginning

LEMMA DeactivationServes ==
  ASSUME TypeOK, NEW o \in Orders,
         SetLimit(Deactivated(o)) \/ SetLimit(DeactivatedBlind(o)),
         NEW p \in Orders \ {o}, record[p] = "active", ~lapsed[p]
  PROVE  quota' >= Level[p]
  <1>1. Level[p] \in Remaining(o)
    BY DEF Remaining
  <1>2. Level[p] \in Deactivated(o) /\ Level[p] \in DeactivatedBlind(o)
    BY <1>1 DEF Deactivated, DeactivatedBlind
  <1>3. quota' \in Nat /\ Level[p] \in Nat
    BY LimitType DEF TypeOK
  <1>4. QED
    BY <1>2, <1>3, LimitIsGreatest

LEMMA ActivationServes ==
  ASSUME TypeOK, NEW o \in Orders, SetLimit(Activated(o))
  PROVE  quota' \in Nat /\ quota' >= quota /\ quota' >= Level[o]
  <1>1. quota' \in Nat
    BY LimitType DEF TypeOK
  <1>2. QED
    BY <1>1, LimitIsGreatest DEF TypeOK, Activated

\* What becomes of a charged order.
OrdersMove ==
  \A o \in Orders :
    record[o] # "none" /\ order[o] \in Charged
      => order'[o] = order[o] \/ order'[o] \in {"refunded", "void"}

\* A step that leaves the limit alone and activates nothing.
LEMMA NothingServed ==
  ASSUME SweepInv, ServedInv, UNCHANGED <<quota, blind>>, OrdersMove,
         \A o \in Orders : record'[o] = "active" => record[o] = "active",
         \A o \in Orders : record'[o] = "active" /\ ~lapsed'[o] => ~lapsed[o],
         \A s \in Sweeps : sweep'[s].step \in {"got", "applied"} => sweep'[s] = sweep[s]
  PROVE  ServedInv'
  <1>1. \A o \in Orders : record'[o] = "active" => order'[o] \in Charged
    BY DEF ServedInv, AnswerTrue, OrdersMove, Charged
  <1>2. \A s \in Sweeps : sweep'[s].step \in {"got", "applied"}
                            => sweep[s].cur \in Orders /\ record[sweep[s].cur] # "none"
    BY DEF SweepInv, Sound
  <1>3. AnswerTrue'
    BY <1>1, <1>2 DEF ServedInv, AnswerTrue, OrdersMove, Charged, At
  <1>4. PaidIsServed'
    BY DEF ServedInv, PaidIsServed, AnswerTrue, OrdersMove, Charged
  <1>5. (blind \/ \A s \in Sweeps : At(s, "confirm", "applied") => quota >= Level[sweep[s].cur])'
    BY DEF ServedInv, At
  <1>6. QED
    BY <1>3, <1>4, <1>5 DEF ServedInv

LEMMA ServedWorld ==
  ASSUME SweepInv, ServedInv, NEW o \in Orders, Purchase(o) \/ Pay(o) \/ TakeBack(o) \/ Lapse(o)
  PROVE  ServedInv'
  <1>1. OrdersMove /\ UNCHANGED <<quota, blind, sweep>>
    BY DEF SweepInv, TypeOK, OrdersMove, Charged, Purchase, Pay, TakeBack, Lapse, worldRest,
           worldVars, faultVars, storeVars
  <1>2. \A p \in Orders : record'[p] = "active" => record[p] = "active" /\ (~lapsed'[p] => ~lapsed[p])
    BY DEF SweepInv, TypeOK, Purchase, Pay, TakeBack, Lapse, storeVars
  <1>3. QED
    BY <1>1, <1>2, NothingServed

LEMMA ServedSweep ==
  ASSUME SweepInv, ServedInv, NEW s \in Sweeps,
         \/ \E o \in Orders : Ask(s, o)
         \/ OrderError(s) \/ Outage(s) \/ Tell(s) \/ NextList(s) \/ Tick(s) \/ WriteFails(s)
  PROVE  ServedInv'
  <1>1. UNCHANGED <<quota, blind, order, record, lapsed>>
    BY DEF Ask, OrderError, Outage, Tell, NextList, Tick, BeginSweep, WriteFails,
           sweepRest, worldVars, faultVars, storeVars
  <1>2. \A r \in Sweeps : sweep'[r].step \in {"got", "applied"} => sweep'[r] = sweep[r]
    <2>1. CASE \E o \in Orders : Ask(s, o)
      BY <2>1 DEF SweepInv, TypeOK, Ask, Take, Within
    <2>2. CASE OrderError(s) \/ Tell(s) \/ WriteFails(s)
      BY <2>2 DEF SweepInv, TypeOK, OrderError, Tell, WriteFails, NextOrder, Skip, Within
    <2>3. CASE Outage(s) \/ NextList(s) \/ Tick(s)
      BY <2>3 DEF SweepInv, TypeOK, Outage, NextList, Tick, BeginSweep, BeginReconcile, EndSweep,
                  NoSweep, Reconciling, Beginning
    <2>4. QED
      BY <2>1, <2>2, <2>3
  <1>3. QED
    BY <1>1, <1>2, NothingServed DEF OrdersMove

LEMMA ServedReply ==
  ASSUME SweepInv, ServedInv, NEW s \in Sweeps, Reply(s)
  PROVE  ServedInv'
  <1>1. UNCHANGED <<quota, blind, order, record, lapsed>>
    BY DEF Reply, sweepRest, worldVars, faultVars
  <1>2. /\ sweep'[s].step = "got" /\ sweep'[s].answer = order[sweep[s].cur]
        /\ sweep'[s].cur = sweep[s].cur /\ sweep'[s].stage = sweep[s].stage
        /\ \A r \in Sweeps \ {s} : sweep'[r] = sweep[r]
    BY DEF SweepInv, TypeOK, Reply, Within
  <1>3. AnswerTrue'
    BY <1>1, <1>2 DEF ServedInv, AnswerTrue, Charged, At
  <1>4. PaidIsServed'
    BY <1>1 DEF ServedInv, PaidIsServed
  <1>5. (blind \/ \A r \in Sweeps : At(r, "confirm", "applied") => quota >= Level[sweep[r].cur])'
    BY <1>1, <1>2 DEF ServedInv, At
  <1>6. QED
    BY <1>3, <1>4, <1>5 DEF ServedInv

\* A plan that lapsed or was taken back ends: the others are served.
LEMMA ServedDeactivation ==
  ASSUME SweepInv, ServedInv, NEW s \in Sweeps, NEW o \in Orders,
         SetLimit(Deactivated(o)) \/ SetLimit(DeactivatedBlind(o)),
         lapsed[o] \/ order[o] # "paid", sweep[s].stage \in {"expire", "check"},
         UNCHANGED <<record, lapsed, order, blind>>,
         sweep'[s].stage = sweep[s].stage, sweep'[s].step = "applied",
         \A r \in Sweeps \ {s} : sweep'[r] = sweep[r]
  PROVE  ServedInv'
  <1>1. \A r \in Sweeps \ {s} : sweep'[r].stage = "idle"
    BY DEF SweepInv, OneSweep
  <1>2. AnswerTrue'
    BY <1>1 DEF ServedInv, AnswerTrue, At
  <1>3. PaidIsServed'
    BY DeactivationServes DEF SweepInv, ServedInv, PaidIsServed
  <1>4. \A r \in Sweeps : ~At(r, "confirm", "applied")'
    BY <1>1 DEF At
  <1>5. QED
    BY <1>2, <1>3, <1>4 DEF ServedInv

LEMMA ServedExpire ==
  ASSUME SweepInv, ServedInv, NEW s \in Sweeps, NEW o \in Orders, Expire(s, o)
  PROVE  ServedInv'
  <1>1. /\ sweep[s].stage = "expire" /\ lapsed[o]
        /\ sweep'[s].stage = sweep[s].stage /\ sweep'[s].step = "applied"
        /\ \A r \in Sweeps \ {s} : sweep'[r] = sweep[r]
    BY DEF SweepInv, TypeOK, Sound, Expire, At, Take, Within
  <1>2. SetLimit(Deactivated(o)) /\ UNCHANGED <<record, lapsed, order, blind>>
    BY DEF Expire, sweepRest, worldVars, faultVars
  <1>3. QED
    BY <1>1, <1>2, ServedDeactivation

LEMMA ServedCheck ==
  ASSUME SweepInv, ServedInv, NEW s \in Sweeps, Check(s)
  PROVE  ServedInv'
  <1>1. /\ sweep[s].stage = "check" /\ sweep[s].cur \in Orders
        /\ record[sweep[s].cur] = "active"
        /\ UNCHANGED <<lapsed, order, blind>>
    BY DEF SweepInv, Sound, Check, At, sweepRest, worldVars, faultVars
  <1>2. CASE Goto(s, "applied") /\ sweep[s].answer \in {"refunded", "void"}
             /\ SetLimit(Deactivated(sweep[s].cur)) /\ UNCHANGED record
    <2>1. /\ sweep'[s].stage = sweep[s].stage /\ sweep'[s].step = "applied"
          /\ \A r \in Sweeps \ {s} : sweep'[r] = sweep[r]
      BY <1>2 DEF SweepInv, TypeOK, Goto, Within
    <2>2. order[sweep[s].cur] # "paid"
      BY <1>2 DEF ServedInv, AnswerTrue, Check
    <2>3. QED
      BY <1>1, <1>2, <2>1, <2>2, ServedDeactivation
  <1>3. CASE NextOrder(s) /\ Write(sweep[s].cur, "active") /\ UNCHANGED quota
    <2>1. \A r \in Sweeps : sweep'[r].step \in {"got", "applied"} => sweep'[r] = sweep[r]
      BY <1>3 DEF SweepInv, TypeOK, NextOrder, Within
    <2>2. record' = record
      BY <1>1, <1>3 DEF SweepInv, TypeOK, Write
    <2>3. QED
      BY <1>1, <1>3, <2>1, <2>2, NothingServed DEF OrdersMove
  <1>4. QED
    BY <1>2, <1>3 DEF Check

LEMMA ServedConfirm ==
  ASSUME SweepInv, ServedInv, NEW s \in Sweeps, Confirm(s)
  PROVE  ServedInv'
  <1>1. /\ sweep[s].stage = "confirm" /\ sweep[s].step = "got" /\ sweep[s].cur \in Orders
        /\ record[sweep[s].cur] = "pending"
        /\ UNCHANGED <<lapsed, order, blind>>
    BY DEF SweepInv, Sound, Confirm, At, sweepRest, worldVars, faultVars
  <1>2. CASE /\ Goto(s, "applied") /\ sweep[s].answer \in {"paid", "refunded"}
             /\ SetLimit(Activated(sweep[s].cur)) /\ UNCHANGED record
    <2>1. /\ sweep'[s].stage = "confirm" /\ sweep'[s].step = "applied"
          /\ sweep'[s].cur = sweep[s].cur
          /\ \A r \in Sweeps \ {s} : sweep'[r] = sweep[r]
      BY <1>1, <1>2 DEF SweepInv, TypeOK, Goto, Within
    <2>2. quota' \in Nat /\ quota' >= quota /\ quota' >= Level[sweep[s].cur]
      BY <1>1, <1>2, ActivationServes DEF SweepInv
    <2>3. AnswerTrue'
      BY <1>1, <1>2, <2>1 DEF ServedInv, AnswerTrue, At
    <2>4. PaidIsServed'
      BY <1>1, <1>2, <2>2 DEF SweepInv, TypeOK, ServedInv, PaidIsServed
    <2>5. \A r \in Sweeps \ {s} : sweep'[r].stage = "idle"
      BY <1>1, <2>1 DEF SweepInv, OneSweep
    <2>6. QED
      BY <2>1, <2>2, <2>3, <2>4, <2>5 DEF ServedInv, At
  <1>3. CASE /\ NextOrder(s) /\ UNCHANGED quota
             /\ \E status \in {"review", "failed", "pending"} : Write(sweep[s].cur, status)
    <2>1. \A r \in Sweeps : sweep'[r].step \in {"got", "applied"} => sweep'[r] = sweep[r]
      BY <1>3 DEF SweepInv, TypeOK, NextOrder, Within
    <2>2. \A o \in Orders : record'[o] = "active" => record[o] = "active"
      BY <1>3 DEF SweepInv, TypeOK, Write
    <2>3. QED
      BY <1>1, <1>3, <2>1, <2>2, NothingServed DEF OrdersMove
  <1>4. QED
    BY <1>2, <1>3 DEF Confirm

LEMMA ServedPersist ==
  ASSUME SweepInv, ServedInv, NEW s \in Sweeps, Persist(s)
  PROVE  ServedInv'
  <1>1. /\ sweep[s].step = "applied" /\ sweep[s].cur \in Orders
        /\ UNCHANGED <<quota, order, blind>>
    BY DEF SweepInv, Sound, Persist, worldVars, faultVars
  <1>2. CASE /\ sweep[s].stage = "confirm" /\ Goto(s, "telling")
             /\ Write(sweep[s].cur, "active") /\ lapsed' = [lapsed EXCEPT ![sweep[s].cur] = FALSE]
    <2>1. \A r \in Sweeps : sweep'[r].step \in {"got", "applied"} => sweep'[r] = sweep[r]
      BY <1>2 DEF SweepInv, TypeOK, Goto, Within
    <2>2. /\ order[sweep[s].cur] \in Charged
          /\ blind \/ quota >= Level[sweep[s].cur]
      BY <1>1, <1>2 DEF ServedInv, AnswerTrue, At
    <2>3. \A o \in Orders \ {sweep[s].cur} : record'[o] = record[o] /\ lapsed'[o] = lapsed[o]
      BY <1>2 DEF SweepInv, TypeOK, Write
    <2>4. \A r \in Sweeps \ {s} : sweep[r].stage = "idle"
      BY <1>2 DEF SweepInv, OneSweep
    <2>5. AnswerTrue'
      BY <1>1, <2>1, <2>2, <2>3 DEF ServedInv, AnswerTrue, At
    <2>6. PaidIsServed'
      BY <1>1, <2>2, <2>3 DEF ServedInv, PaidIsServed
    <2>7. (blind \/ \A r \in Sweeps : At(r, "confirm", "applied") => quota >= Level[sweep[r].cur])'
      BY <1>1, <2>1 DEF ServedInv, At
    <2>8. QED
      BY <2>5, <2>6, <2>7 DEF ServedInv
  <1>3. CASE /\ NextOrder(s) /\ UNCHANGED lapsed
             /\ Write(sweep[s].cur, "expired") \/ Write(sweep[s].cur, "failed")
    <2>1. \A r \in Sweeps : sweep'[r].step \in {"got", "applied"} => sweep'[r] = sweep[r]
      BY <1>3 DEF SweepInv, TypeOK, NextOrder, Within
    <2>2. \A o \in Orders : record'[o] = "active" => record[o] = "active"
      BY <1>3 DEF SweepInv, TypeOK, Write
    <2>3. QED
      BY <1>1, <1>3, <2>1, <2>2, NothingServed DEF OrdersMove
  <1>4. QED
    BY <1>2, <1>3 DEF Persist

LEMMA ServedReadFails ==
  ASSUME SweepInv, ServedInv, NEW s \in Sweeps, ReadFails(s)
  PROVE  ServedInv'
  <1>1. UNCHANGED <<record, lapsed, order>>
    BY DEF ReadFails, storeVars, worldVars
  <1>2. CASE /\ At(s, "confirm", "got") /\ sweep[s].answer \in {"paid", "refunded"}
             /\ Goto(s, "applied") /\ blind' = TRUE
    <2>1. /\ sweep'[s].stage = "confirm" /\ sweep'[s].cur = sweep[s].cur
          /\ \A r \in Sweeps \ {s} : sweep'[r] = sweep[r]
      BY <1>2 DEF SweepInv, TypeOK, Goto, Within, At
    <2>2. AnswerTrue'
      BY <1>1, <1>2, <2>1 DEF ServedInv, AnswerTrue, At
    <2>3. QED
      BY <1>2, <2>2 DEF ServedInv, PaidIsServed
  <1>3. CASE /\ At(s, "check", "got") /\ sweep[s].answer \in {"refunded", "void"}
             /\ SetLimit(DeactivatedBlind(sweep[s].cur)) /\ Goto(s, "applied")
             /\ UNCHANGED blind
    <2>1. /\ sweep[s].stage = "check" /\ sweep[s].cur \in Orders
          /\ sweep'[s].stage = sweep[s].stage /\ sweep'[s].step = "applied"
          /\ \A r \in Sweeps \ {s} : sweep'[r] = sweep[r]
      BY <1>3 DEF SweepInv, TypeOK, Sound, Goto, Within, At
    <2>2. order[sweep[s].cur] # "paid"
      BY <1>3 DEF ServedInv, AnswerTrue
    <2>3. QED
      BY <1>1, <1>3, <2>1, <2>2, ServedDeactivation
  <1>4. CASE \E p \in sweep[s].todo :
               /\ At(s, "expire", "next") /\ SetLimit(DeactivatedBlind(p))
               /\ Take(s, p, "applied") /\ UNCHANGED blind
    <2>1. PICK p \in sweep[s].todo :
               /\ At(s, "expire", "next") /\ SetLimit(DeactivatedBlind(p))
               /\ Take(s, p, "applied") /\ UNCHANGED blind
      BY <1>4
    <2>2. /\ p \in Orders /\ lapsed[p] /\ sweep[s].stage = "expire"
          /\ sweep'[s].stage = sweep[s].stage /\ sweep'[s].step = "applied"
          /\ \A r \in Sweeps \ {s} : sweep'[r] = sweep[r]
      BY <2>1 DEF SweepInv, TypeOK, Coroutine, Sound, Take, Within, At
    <2>3. QED
      BY <1>1, <2>1, <2>2, ServedDeactivation
  <1>5. QED
    BY <1>2, <1>3, <1>4 DEF ReadFails

LEMMA ServedStep == SweepInv /\ ServedInv /\ [Next]_vars => ServedInv'
  <1> SUFFICES ASSUME SweepInv, ServedInv, [Next]_vars PROVE ServedInv'
    OBVIOUS
  <1>1. CASE GatewayChanges \/ UNCHANGED vars
    BY <1>1, NothingServed
       DEF GatewayChanges, OrdersMove, vars, worldRest, worldVars, faultVars, storeVars
  <1>2. CASE Crash
    <2>1. \A s \in Sweeps : sweep'[s].step = "next"
      BY <1>2 DEF Crash, NoSweep, Beginning
    <2>2. QED
      BY <1>2, <2>1, NothingServed DEF Crash, OrdersMove, storeVars
  <1>3. QED
    BY <1>1, <1>2, ServedWorld, ServedSweep, ServedReply, ServedExpire, ServedCheck,
       ServedConfirm, ServedPersist, ServedReadFails DEF Next, SweepStep

\* For any orders of any levels, whatever ends, fails or is cut off beside it: while
\* a paid order runs, the account has at least its level.
THEOREM PayerServed == Spec => []PaidIsServed
  <1>1. ServedInv => PaidIsServed
    BY DEF ServedInv
  <1>2. QED
    BY <1>1, InitServed, ServedStep, SweepInvariant, PTL DEF Spec

-----------------------------------------------------------------------------
(* Theorem: nothing for nothing                                            *)

\* A limit above the floor is that of an active order other than `o`.
HeldByOther(o) ==
  quota = Floor \/ \E p \in Orders \ {o} : record[p] = "active" /\ quota = Level[p]

HeldByActive == quota = Floor \/ \E p \in Orders : record[p] = "active" /\ quota = Level[p]

\* NothingForFree, and that the order which is about to end no longer counts.
FreeInv ==
  crashes + faults = 0 =>
    /\ HeldByActive \/ \E s \in Sweeps : /\ At(s, "confirm", "applied")
                                         /\ quota = Level[sweep[s].cur]
    /\ \A s \in Sweeps :
         sweep[s].stage \in {"expire", "check"} /\ sweep[s].step = "applied"
           => HeldByOther(sweep[s].cur)

LEMMA FreeEnough == SweepInv /\ FreeInv => NothingForFree
  <1> SUFFICES ASSUME SweepInv, FreeInv, crashes + faults = 0
               PROVE  \/ quota = Floor
                      \/ \E o \in Orders :
                           /\ quota = Level[o]
                           /\ \/ record[o] = "active"
                              \/ \E s \in Sweeps : At(s, "confirm", "applied") /\ sweep[s].cur = o
    BY DEF NothingForFree
  <1>1. CASE HeldByActive
    BY <1>1 DEF HeldByActive
  <1>2. CASE \E s \in Sweeps : At(s, "confirm", "applied") /\ quota = Level[sweep[s].cur]
    <2>1. PICK s \in Sweeps : At(s, "confirm", "applied") /\ quota = Level[sweep[s].cur]
      BY <1>2
    <2>2. sweep[s].cur \in Orders
      BY <2>1 DEF SweepInv, Sound, At
    <2>3. QED
      BY <2>1, <2>2
  <1>3. QED
    BY <1>1, <1>2 DEF FreeInv

LEMMA InitFree == Init => FreeInv
  BY DEF Init, FreeInv, HeldByActive, NoSweep, Beginning

\* A step that leaves limit and active orders alone.
LEMMA NothingTaken ==
  ASSUME FreeInv, UNCHANGED quota,
         crashes' + faults' = 0 => crashes + faults = 0,
         \A o \in Orders : record[o] = "active" => record'[o] = "active",
         \A s \in Sweeps : sweep[s].step = "applied" \/ sweep'[s].step = "applied"
                             => sweep'[s] = sweep[s]
  PROVE  FreeInv'
  BY DEF FreeInv, HeldByActive, HeldByOther, At

\* Without a fault the end of a plan leaves a limit that another plan holds.
LEMMA DeactivationTakes ==
  ASSUME TypeOK, NEW o \in Orders, HeldByActive, SetLimit(Deactivated(o)), UNCHANGED record
  PROVE  HeldByOther(o)'
  <1>1. quota' \in Remaining(o) \cup KeptByOthers(o, quota)
    BY LimitIsGreatest DEF Deactivated
  <1>2. CASE quota' \in Remaining(o)
    BY <1>2 DEF Remaining, HeldByOther
  <1>3. CASE quota' \in KeptByOthers(o, quota)
    <2>1. quota' = quota /\ quota > Level[o]
      BY <1>3 DEF KeptByOthers
    <2>2. QED
      BY <2>1 DEF TypeOK, HeldByActive, HeldByOther
  <1>4. QED
    BY <1>1, <1>2, <1>3

\* No sweep but the one at work has an order in hand.
LEMMA OthersIdle ==
  ASSUME SweepInv, NEW s \in Sweeps, sweep[s].stage # "idle"
  PROVE  \A r \in Sweeps \ {s} : sweep[r].stage = "idle" /\ sweep[r].step = "next"
  BY DEF SweepInv, OneSweep, Sound

LEMMA FreeDeactivation ==
  ASSUME SweepInv, FreeInv, NEW s \in Sweeps, NEW o \in Orders, SetLimit(Deactivated(o)),
         sweep[s].stage \in {"expire", "check"}, sweep[s].step # "applied",
         UNCHANGED <<record, crashes, faults>>,
         sweep'[s].stage = sweep[s].stage, sweep'[s].cur = o,
         \A r \in Sweeps \ {s} : sweep'[r] = sweep[r]
  PROVE  FreeInv'
  <1> SUFFICES ASSUME crashes + faults = 0 PROVE FreeInv'
    BY DEF FreeInv
  <1>1. \A r \in Sweeps \ {s} : sweep[r].stage = "idle" /\ sweep[r].step = "next"
    BY OthersIdle
  <1>2. HeldByActive
    BY <1>1 DEF FreeInv, At
  <1>3. HeldByOther(o)'
    BY <1>2, DeactivationTakes DEF SweepInv
  <1>4. HeldByActive'
    BY <1>3 DEF HeldByOther, HeldByActive
  <1>5. QED
    BY <1>1, <1>3, <1>4 DEF FreeInv

LEMMA FreeRest ==
  ASSUME SweepInv, FreeInv,
         \/ \E o \in Orders : Purchase(o) \/ Pay(o) \/ TakeBack(o) \/ Lapse(o)
         \/ GatewayChanges
         \/ \E s \in Sweeps : \/ \E o \in Orders : Ask(s, o)
                              \/ Reply(s) \/ OrderError(s) \/ Outage(s) \/ Tell(s)
                              \/ NextList(s) \/ Tick(s)
  PROVE  FreeInv'
  <1>1. ASSUME NEW o \in Orders, Purchase(o) \/ Pay(o) \/ TakeBack(o) \/ Lapse(o)
        PROVE  FreeInv'
    BY <1>1, NothingTaken
       DEF SweepInv, TypeOK, Purchase, Pay, TakeBack, Lapse, worldRest, storeVars, faultVars
  <1>2. CASE GatewayChanges
    BY <1>2, NothingTaken DEF GatewayChanges, worldRest, storeVars, faultVars
  <1>3. ASSUME NEW s \in Sweeps,
               \/ \E o \in Orders : Ask(s, o)
               \/ Reply(s) \/ OrderError(s) \/ Tell(s)
        PROVE  FreeInv'
    <2>1. UNCHANGED <<quota, record, crashes, faults>>
      BY <1>3 DEF Ask, Reply, OrderError, Tell, sweepRest, faultVars
    <2>2. \A r \in Sweeps : sweep[r].step = "applied" \/ sweep'[r].step = "applied"
                              => sweep'[r] = sweep[r]
      BY <1>3 DEF SweepInv, TypeOK, Ask, Reply, OrderError, Tell, Take, NextOrder, Within
    <2>3. QED
      BY <2>1, <2>2, NothingTaken
  <1>4. ASSUME NEW s \in Sweeps, Outage(s) \/ NextList(s) \/ Tick(s)
        PROVE  FreeInv'
    <2>1. UNCHANGED <<quota, record, crashes, faults>>
      BY <1>4 DEF Outage, NextList, Tick, BeginSweep, sweepRest, storeVars, faultVars
    <2>2. sweep[s].step # "applied"
      BY <1>4 DEF SweepInv, Sound, Outage, NextList, Tick, BeginSweep
    <2>3. sweep'[s].step = "next" /\ \A r \in Sweeps \ {s} : sweep'[r] = sweep[r]
      BY <1>4 DEF SweepInv, TypeOK, Outage, NextList, Tick, BeginSweep, BeginReconcile, EndSweep,
                  NoSweep, Reconciling, Beginning
    <2>4. QED
      BY <2>1, <2>2, <2>3, NothingTaken
  <1>5. QED
    BY <1>1, <1>2, <1>3, <1>4

LEMMA FreeFault ==
  ASSUME TypeOK, Crash \/ \E s \in Sweeps : WriteFails(s) \/ ReadFails(s)
  PROVE  FreeInv'
  <1>1. crashes' + faults' # 0
    BY DEF TypeOK, Crash, WriteFails, ReadFails
  <1>2. QED
    BY <1>1 DEF FreeInv

LEMMA FreeConfirm ==
  ASSUME SweepInv, FreeInv, NEW s \in Sweeps, Confirm(s)
  PROVE  FreeInv'
  <1>1. /\ sweep[s].stage = "confirm" /\ sweep[s].step = "got" /\ sweep[s].cur \in Orders
        /\ record[sweep[s].cur] = "pending"
        /\ UNCHANGED <<crashes, faults>>
    BY DEF SweepInv, Sound, Confirm, At, sweepRest, faultVars
  <1>2. \A r \in Sweeps \ {s} : sweep[r].stage = "idle" /\ sweep[r].step = "next"
    BY <1>1, OthersIdle
  <1>3. CASE /\ Goto(s, "applied") /\ SetLimit(Activated(sweep[s].cur)) /\ UNCHANGED record
    <2> SUFFICES ASSUME crashes + faults = 0 PROVE FreeInv'
      BY <1>1 DEF FreeInv
    <2>1. /\ sweep'[s].stage = "confirm" /\ sweep'[s].step = "applied"
          /\ sweep'[s].cur = sweep[s].cur
          /\ \A r \in Sweeps \ {s} : sweep'[r] = sweep[r]
      BY <1>1, <1>3 DEF SweepInv, TypeOK, Goto, Within
    <2>2. HeldByActive
      BY <1>1, <1>2 DEF FreeInv, At
    <2>3. quota' \in {Level[sweep[s].cur], Floor, quota}
      BY <1>3, LimitIsGreatest DEF Activated
    <2>4. HeldByActive' \/ quota' = Level[sweep'[s].cur]
      BY <1>3, <2>1, <2>2, <2>3 DEF HeldByActive
    <2>5. QED
      BY <1>2, <2>1, <2>4 DEF FreeInv, At
  <1>4. CASE /\ NextOrder(s) /\ UNCHANGED quota
             /\ \E status \in {"review", "failed", "pending"} : Write(sweep[s].cur, status)
    <2>1. \A r \in Sweeps : sweep[r].step = "applied" \/ sweep'[r].step = "applied"
                              => sweep'[r] = sweep[r]
      BY <1>1, <1>4 DEF SweepInv, TypeOK, NextOrder, Within
    <2>2. \A o \in Orders : record[o] = "active" => record'[o] = "active"
      BY <1>1, <1>4 DEF SweepInv, TypeOK, Write
    <2>3. QED
      BY <1>1, <1>4, <2>1, <2>2, NothingTaken
  <1>5. QED
    BY <1>3, <1>4 DEF Confirm

LEMMA FreeExpire ==
  ASSUME SweepInv, FreeInv, NEW s \in Sweeps, NEW o \in Orders, Expire(s, o)
  PROVE  FreeInv'
  <1>1. /\ sweep[s].stage = "expire" /\ sweep[s].step = "next"
        /\ sweep'[s].stage = sweep[s].stage /\ sweep'[s].cur = o
        /\ \A r \in Sweeps \ {s} : sweep'[r] = sweep[r]
    BY DEF SweepInv, TypeOK, Expire, At, Take, Within
  <1>2. SetLimit(Deactivated(o)) /\ UNCHANGED <<record, crashes, faults>>
    BY DEF Expire, sweepRest, faultVars
  <1>3. QED
    BY <1>1, <1>2, FreeDeactivation

LEMMA FreeCheck ==
  ASSUME SweepInv, FreeInv, NEW s \in Sweeps, Check(s)
  PROVE  FreeInv'
  <1>1. /\ sweep[s].stage = "check" /\ sweep[s].step = "got" /\ sweep[s].cur \in Orders
        /\ record[sweep[s].cur] = "active"
        /\ UNCHANGED <<crashes, faults>>
    BY DEF SweepInv, Sound, Check, At, sweepRest, faultVars
  <1>2. CASE Goto(s, "applied") /\ SetLimit(Deactivated(sweep[s].cur)) /\ UNCHANGED record
    <2>1. /\ sweep'[s].stage = sweep[s].stage /\ sweep'[s].cur = sweep[s].cur
          /\ \A r \in Sweeps \ {s} : sweep'[r] = sweep[r]
      BY <1>2 DEF SweepInv, TypeOK, Goto, Within
    <2>2. QED
      BY <1>1, <1>2, <2>1, FreeDeactivation
  <1>3. CASE NextOrder(s) /\ Write(sweep[s].cur, "active") /\ UNCHANGED quota
    <2>1. \A r \in Sweeps : sweep[r].step = "applied" \/ sweep'[r].step = "applied"
                              => sweep'[r] = sweep[r]
      BY <1>1, <1>3 DEF SweepInv, TypeOK, NextOrder, Within
    <2>2. record' = record
      BY <1>1, <1>3 DEF SweepInv, TypeOK, Write
    <2>3. QED
      BY <1>1, <1>3, <2>1, <2>2, NothingTaken
  <1>4. QED
    BY <1>2, <1>3 DEF Check

LEMMA FreePersist ==
  ASSUME SweepInv, FreeInv, NEW s \in Sweeps, Persist(s)
  PROVE  FreeInv'
  <1> SUFFICES ASSUME crashes + faults = 0 PROVE FreeInv'
    BY DEF Persist, faultVars, FreeInv
  <1>1. /\ sweep[s].step = "applied" /\ sweep[s].cur \in Orders /\ sweep[s].stage # "idle"
        /\ UNCHANGED quota
    BY DEF SweepInv, Sound, Persist
  <1>2. \A r \in Sweeps \ {s} : sweep[r].stage = "idle" /\ sweep[r].step = "next"
    BY <1>1, OthersIdle
  <1>3. sweep'[s].step # "applied" /\ \A r \in Sweeps \ {s} : sweep'[r] = sweep[r]
    BY DEF SweepInv, TypeOK, Persist, Goto, NextOrder, Within
  <1>4. HeldByActive'
    <2>1. CASE sweep[s].stage = "confirm" /\ Write(sweep[s].cur, "active")
      BY <1>1, <1>2, <2>1 DEF SweepInv, TypeOK, FreeInv, HeldByActive, At, Write
    <2>2. CASE /\ sweep[s].stage \in {"expire", "check"}
               /\ Write(sweep[s].cur, "expired") \/ Write(sweep[s].cur, "failed")
      <3>1. HeldByOther(sweep[s].cur)
        BY <1>1, <2>2 DEF FreeInv
      <3>2. QED
        BY <1>1, <2>2, <3>1 DEF SweepInv, TypeOK, HeldByOther, HeldByActive, Write
    <2>3. QED
      BY <2>1, <2>2 DEF Persist
  <1>5. QED
    BY <1>2, <1>3, <1>4 DEF FreeInv

LEMMA FreeStep == SweepInv /\ FreeInv /\ [Next]_vars => FreeInv'
  <1> SUFFICES ASSUME SweepInv, FreeInv, [Next]_vars PROVE FreeInv'
    OBVIOUS
  <1>1. TypeOK
    BY DEF SweepInv
  <1>2. CASE UNCHANGED vars
    BY <1>2, NothingTaken DEF vars, storeVars, faultVars
  <1>3. QED
    BY <1>1, <1>2, FreeRest, FreeFault, FreeConfirm, FreeExpire, FreeCheck, FreePersist
       DEF Next, SweepStep

\* As long as no write fails and no sweep is cut off, a limit above the floor is that
\* of an order which is active, or about to be recorded as such.
THEOREM NobodyServedFree == Spec => []NothingForFree
  BY FreeEnough, InitFree, FreeStep, SweepInvariant, PTL DEF Spec
=============================================================================
