------------------------- MODULE TaskSchedulerProofs -------------------------
(* Theorems about TaskScheduler for every value of its constants.          *)
EXTENDS TaskScheduler, TLAPS

USE TasksAssumption, LimitsAssumption

\* While the queue or a run holds a task that exists, the task has a lease.
LeaseHeld == \A t \in Tasks : held[t] # "none" /\ Row(t) => lease[t] >= 0

\* A task that does not exist yet is not held and has no run behind it.
NewIsIdle ==
  \A t \in Tasks : status[t] = "new" => held[t] = "none" /\ unsettled[t] = 0

\* A queued task was claimed when no run of it could be under way.
QueuedIsFresh == \A t \in Tasks : held[t] = "queued" => unsettled[t] = 0

\* What the proofs say of leases, as one invariant.
LeaseInv == LeaseCoversRun /\ LeaseHeld /\ NewIsIdle /\ NoLeakedLease /\ QueuedIsFresh

\* An active task at the limit of failures is pardoned, outside the
\* bookkeeping of a run; so is a queued one, and a success forgets failures.
LimitKnown ==
  \A t \in Tasks :
    /\ status[t] = "new" => streak[t] = 0
    /\ held[t] = "succeeded" /\ Row(t) => streak[t] = 0
    /\ held[t] = "queued" /\ streak[t] = MaxFailures => pardoned[t]
    /\ status[t] = "active" /\ streak[t] = MaxFailures
       /\ held[t] \notin {"succeeded", "failed", "uncertain"} => pardoned[t]

\* The inductive invariant.
IInv == TypeOK /\ LeaseInv /\ LimitKnown

LEMMA MoreType ==
  ASSUME NEW n \in 0..MaxFailures
  PROVE  More(n) \in 0..MaxFailures /\ More(n) > 0
  BY DEF More

LEMMA LessType ==
  ASSUME NEW low \in {-1, 0}, NEW high \in Nat, NEW n \in low..high
  PROVE  /\ Less(n) \in low..high
         /\ (Less(n) >= 0) = (n >= 0)
         /\ Less(n) > 0 => n > 0
         /\ Less(n) = IF n > 0 THEN n - 1 ELSE n
  BY DEF Less

LEMMA InitInv == Init => IInv
  <1> SUFFICES ASSUME Init PROVE IInv
    OBVIOUS
  <1>1. pardoned \in [Tasks -> BOOLEAN]
    BY Zenon DEF Init
  <1>2. stopping \in BOOLEAN
    BY Zenon DEF Init
  <1>3. /\ status \in [Tasks -> {"new", "active", "paused", "completed", "cancelled",
                                "deleted"}]
        /\ kind \in [Tasks -> {"once", "recurring"}]
        /\ nextRun \in [Tasks -> {"null", "due", "later"}]
        /\ held \in [Tasks -> {"none", "queued", "running", "succeeded", "failed",
                              "uncertain", "givenUp", "settling"}]
        /\ captured \in [Tasks -> {"none", "once", "recurring"}]
    BY DEF Init
  <1>4. /\ streak \in [Tasks -> 0..MaxFailures]
        /\ lease \in [Tasks -> -1..LeaseTtl]
        /\ unsettled \in [Tasks -> 0..LeaseTtl]
        /\ gate \in 0..GateTtl
        /\ crashes \in 0..MaxCrashes
        /\ gates \in 0..MaxGates
    BY DEF Init
  <1>5. cancelling \in Tasks \cup {NoTask} /\ cleaning \in SUBSET Tasks
    BY DEF Init
  <1>6. TypeOK
    BY <1>1, <1>2, <1>3, <1>4, <1>5, Zenon DEF TypeOK
  <1>7. LeaseInv /\ LimitKnown
    BY DEF Init, LeaseInv, LeaseCoversRun, LeaseHeld, NewIsIdle, NoLeakedLease, QueuedIsFresh,
           LimitKnown, Row
  <1>8. QED
    BY <1>6, <1>7 DEF IInv

-----------------------------------------------------------------------------
(* Type correctness, action by action                                      *)

LEMMA SchedulerType ==
  ASSUME TypeOK, NEW t \in Tasks, Scheduler(t)
  PROVE  TypeOK'
  <1> USE DEF TypeOK, rowVars, leaseVars, runVars, ipcVars, procVars
  <1>1. CASE Poll(t)
    BY <1>1 DEF Poll, RenewLease
  <1>2. CASE StartRun(t)
    <2>1. streak' \in [Tasks -> 0..MaxFailures]
      BY <1>2, MoreType DEF StartRun
    <2>2. status' \in [Tasks -> {"new", "active", "paused", "completed", "cancelled",
                                "deleted"}]
      BY <1>2 DEF StartRun, SetStatus
    <2>3. /\ held' \in [Tasks -> {"none", "queued", "running", "succeeded", "failed",
                                 "uncertain", "givenUp", "settling"}]
          /\ UNCHANGED <<kind, nextRun>>
      BY <1>2 DEF StartRun
    <2>4. /\ lease' \in [Tasks -> -1..LeaseTtl]
          /\ unsettled' \in [Tasks -> 0..LeaseTtl]
      BY <1>2 DEF StartRun, RenewLease
    <2>5. QED
      BY <1>2, <2>1, <2>2, <2>3, <2>4 DEF StartRun
  <1>3. ASSUME NEW result \in {"succeeded", "failed", "uncertain"}, RunEnds(t, result)
        PROVE  TypeOK'
    <2>1. streak' \in [Tasks -> 0..MaxFailures]
      BY <1>3, MoreType DEF RunEnds
    <2>2. pardoned' \in [Tasks -> BOOLEAN]
      BY <1>3, Zenon DEF RunEnds
    <2>3. QED
      BY <1>3, <2>1, <2>2 DEF RunEnds
  <1>4. CASE RunThrows(t)
    <2>1. streak' \in [Tasks -> 0..MaxFailures]
      BY <1>4, MoreType DEF RunThrows
    <2>2. pardoned' \in [Tasks -> BOOLEAN]
      BY <1>4, Zenon DEF RunThrows
    <2>3. QED
      BY <1>4, <2>1, <2>2 DEF RunThrows
  <1>5. CASE Bookkeep(t)
    BY <1>5 DEF Bookkeep, SetStatus
  <1>6. CASE PauseGivenUp(t)
    BY <1>6 DEF PauseGivenUp, SetStatus
  <1>7. CASE Release(t)
    BY <1>7 DEF Release
  <1>8. QED
    BY <1>1, <1>2, <1>3, <1>4, <1>5, <1>6, <1>7 DEF Scheduler, Ends

LEMMA ResumeType ==
  ASSUME TypeOK, NEW t \in Tasks, Resume(t)
  PROVE  /\ status' = [status EXCEPT ![t] = "active"]
         /\ nextRun' \in [Tasks -> {"null", "due", "later"}]
         /\ pardoned' \in [Tasks -> BOOLEAN]
         /\ UNCHANGED <<kind, streak>>
  <1>1. ResumedNextRun(t) \subseteq {"null", "due", "later"}
    BY DEF TypeOK, ResumedNextRun
  <1>2. nextRun' \in [Tasks -> {"null", "due", "later"}]
    BY <1>1 DEF TypeOK, Resume
  <1>3. pardoned' \in [Tasks -> BOOLEAN]
    BY Zenon DEF TypeOK, Resume
  <1>4. QED
    BY <1>2, <1>3 DEF Resume

LEMMA DeleteType ==
  ASSUME TypeOK, NEW t \in Tasks, DeleteRow(t)
  PROVE  /\ status' \in [Tasks -> {"new", "active", "paused", "completed", "cancelled",
                                   "deleted"}]
         /\ nextRun' \in [Tasks -> {"null", "due", "later"}]
         /\ streak' \in [Tasks -> 0..MaxFailures]
         /\ UNCHANGED kind
  BY DEF TypeOK, DeleteRow

LEMMA CommandType ==
  ASSUME TypeOK, NEW t \in Tasks, Ipc(t) \/ Dashboard(t) \/ SlotComes(t)
  PROVE  TypeOK'
  <1> USE DEF TypeOK, rowVars, leaseVars, runVars, ipcVars, procVars, ipcRest
  <1>1. CASE ScheduleTask(t)
    BY <1>1 DEF ScheduleTask
  <1>2. CASE PauseTask(t)
    BY <1>2 DEF PauseTask, SetStatus
  <1>3. CASE ResumeTask(t)
    BY <1>3, ResumeType DEF ResumeTask
  <1>4. CASE UpdateTask(t)
    BY <1>4 DEF UpdateTask
  <1>5. CASE CancelBegin(t)
    BY <1>5 DEF CancelBegin
  <1>6. CASE CancelEnd(t)
    BY <1>6 DEF CancelEnd, SetStatus
  <1>7. CASE CleanupStep(t)
    BY <1>7, DeleteType DEF CleanupStep
  <1>8. CASE DashboardPause(t)
    BY <1>8 DEF DashboardPause, SetStatus
  <1>9. CASE DashboardResume(t)
    BY <1>9, ResumeType DEF DashboardResume
  <1>10. CASE DashboardRunNow(t)
    BY <1>10 DEF DashboardRunNow
  <1>11. CASE DashboardDelete(t)
    BY <1>11, DeleteType DEF DashboardDelete
  <1>12. CASE SlotComes(t)
    BY <1>12 DEF SlotComes
  <1>13. QED
    BY <1>1, <1>2, <1>3, <1>4, <1>5, <1>6, <1>7, <1>8, <1>9, <1>10, <1>11, <1>12
       DEF Ipc, Dashboard

LEMMA SystemType ==
  ASSUME TypeOK, CleanupBegin \/ Tick \/ RestartGate \/ Shutdown \/ Crash
  PROVE  TypeOK'
  <1> USE DEF TypeOK, rowVars, leaseVars, runVars, ipcVars, procVars, ipcRest
  <1>1. CASE CleanupBegin
    BY <1>1 DEF CleanupBegin
  <1>2. CASE Tick
    <2>1. /\ lease' \in [Tasks -> -1..LeaseTtl]
          /\ unsettled' \in [Tasks -> 0..LeaseTtl]
      BY <1>2, LessType DEF Tick
    <2>2. gate' \in 0..GateTtl
      BY <1>2, LessType DEF Tick
    <2>3. QED
      BY <1>2, <2>1, <2>2 DEF Tick
  <1>3. CASE RestartGate
    BY <1>3 DEF RestartGate
  <1>4. CASE Shutdown
    BY <1>4 DEF Shutdown
  <1>5. CASE Crash
    <2>1. pardoned' \in [Tasks -> BOOLEAN]
      BY <1>5, Zenon DEF Crash
    <2>2. stopping' \in BOOLEAN
      BY <1>5, Zenon DEF Crash
    <2>3. /\ held' \in [Tasks -> {"none", "queued", "running", "succeeded", "failed",
                                 "uncertain", "givenUp", "settling"}]
          /\ captured' \in [Tasks -> {"none", "once", "recurring"}]
          /\ crashes' \in 0..MaxCrashes
          /\ cancelling' = NoTask /\ cleaning' = {}
          /\ UNCHANGED <<rowVars, leaseVars, gates>>
      BY <1>5 DEF Crash
    <2>4. QED
      BY <2>1, <2>2, <2>3
  <1>6. QED
    BY <1>1, <1>2, <1>3, <1>4, <1>5

LEMMA TypeStep == TypeOK /\ [Next]_vars => TypeOK'
  <1> SUFFICES ASSUME TypeOK, [Next]_vars PROVE TypeOK'
    OBVIOUS
  <1>1. CASE UNCHANGED vars
    BY <1>1 DEF vars, TypeOK, rowVars, leaseVars, runVars, ipcVars, procVars
  <1>2. CASE Next
    BY <1>2, SchedulerType, CommandType, SystemType DEF Next
  <1>3. QED
    BY <1>1, <1>2

-----------------------------------------------------------------------------
(* The lease invariants                                                    *)

LEMMA SetStatusValue ==
  ASSUME TypeOK, NEW t \in Tasks, NEW value, SetStatus(t, value)
  PROVE  /\ status'[t] = IF Row(t) THEN value ELSE status[t]
         /\ \A s \in Tasks \ {t} : status'[s] = status[s]
  BY DEF TypeOK, SetStatus

\* The scheduler pauses or completes a task, and never makes a row.
LEMMA SchedulerStatus ==
  ASSUME TypeOK, NEW t \in Tasks, StartRun(t) \/ Bookkeep(t) \/ PauseGivenUp(t)
  PROVE  status'[t] = status[t] \/ (Row(t) /\ status'[t] \in {"paused", "completed"})
  <1>1. \/ UNCHANGED status
        \/ SetStatus(t, "paused")
        \/ SetStatus(t, "completed")
    BY DEF StartRun, Bookkeep, PauseGivenUp, rowVars
  <1>2. CASE SetStatus(t, "paused")
    <2>1. status'[t] = IF Row(t) THEN "paused" ELSE status[t]
      BY <1>2, SetStatusValue
    <2>2. QED
      BY <2>1 DEF Row
  <1>3. CASE SetStatus(t, "completed")
    <2>1. status'[t] = IF Row(t) THEN "completed" ELSE status[t]
      BY <1>3, SetStatusValue
    <2>2. QED
      BY <2>1 DEF Row
  <1>4. QED
    BY <1>1, <1>2, <1>3 DEF Row

\* A command changes no lease and no run, and only schedule_task makes a row.
LEMMA CommandFrame ==
  ASSUME TypeOK, NEW t \in Tasks,
         \/ PauseTask(t) \/ ResumeTask(t) \/ UpdateTask(t) \/ CancelBegin(t)
         \/ CancelEnd(t) \/ CleanupStep(t) \/ DashboardPause(t)
         \/ DashboardResume(t) \/ DashboardRunNow(t) \/ SlotComes(t)
  PROVE  /\ UNCHANGED <<lease, unsettled, held, crashes>>
         /\ \A s \in Tasks : status'[s] = "new" => status[s] = "new"
         /\ \A s \in Tasks : Row(s)' => Row(s)
  <1> USE DEF TypeOK, Row, rowVars, leaseVars, runVars, ipcVars, procVars, ipcRest
  <1>1. CASE PauseTask(t) \/ DashboardPause(t)
    BY <1>1 DEF PauseTask, DashboardPause, SetStatus
  <1>2. CASE ResumeTask(t) \/ DashboardResume(t)
    BY <1>2 DEF ResumeTask, DashboardResume, Resume
  <1>3. CASE UpdateTask(t) \/ CancelBegin(t)
    BY <1>3 DEF UpdateTask, CancelBegin
  <1>4. CASE CancelEnd(t)
    BY <1>4 DEF CancelEnd, SetStatus
  <1>5. CASE CleanupStep(t)
    BY <1>5 DEF CleanupStep, DeleteRow
  <1>6. CASE DashboardRunNow(t) \/ SlotComes(t)
    BY <1>6 DEF DashboardRunNow, SlotComes
  <1>7. QED
    BY <1>1, <1>2, <1>3, <1>4, <1>5, <1>6

LEMMA CommandLease ==
  ASSUME TypeOK, LeaseInv, NEW t \in Tasks, Ipc(t) \/ Dashboard(t) \/ SlotComes(t)
  PROVE  LeaseInv'
  <1> USE DEF LeaseInv, LeaseCoversRun, LeaseHeld, NewIsIdle, NoLeakedLease, QueuedIsFresh
  <1>1. CASE ScheduleTask(t)
    BY <1>1 DEF TypeOK, ScheduleTask, Row, ipcRest, leaseVars, runVars, procVars
  <1>2. CASE DashboardDelete(t)
    <2>1. /\ \A s \in Tasks \ {t} : status'[s] = status[s] /\ lease'[s] = lease[s]
          /\ status'[t] = "deleted" /\ lease'[t] = -1
          /\ UNCHANGED <<unsettled, held, crashes>>
      BY <1>2 DEF TypeOK, DashboardDelete, DeleteRow, runVars, procVars
    <2>2. QED
      BY <2>1 DEF Row
  <1>3. CASE ~ScheduleTask(t) /\ ~DashboardDelete(t)
    <2>1. /\ UNCHANGED <<lease, unsettled, held, crashes>>
          /\ \A s \in Tasks : status'[s] = "new" => status[s] = "new"
          /\ \A s \in Tasks : Row(s)' => Row(s)
      BY <1>3, CommandFrame DEF Ipc, Dashboard
    <2>2. QED
      BY <2>1
  <1>4. QED
    BY <1>1, <1>2, <1>3

\* What a step of the scheduler does to the task it is about, seen from the
\* lease: nothing else of any task changes.
LEMMA SchedulerLease ==
  ASSUME TypeOK, LeaseInv, NEW t \in Tasks, Scheduler(t)
  PROVE  LeaseInv'
  <1> USE DEF TypeOK, Row, rowVars, leaseVars, runVars, ipcVars, procVars
  <1> DEFINE Same(s) == /\ status'[s] = status[s] /\ held'[s] = held[s]
                        /\ lease'[s] = lease[s] /\ unsettled'[s] = unsettled[s]
             Good(s) == /\ Row(s) /\ unsettled[s] > 0 => lease[s] >= unsettled[s]
                        /\ held[s] # "none" /\ Row(s) => lease[s] >= 0
                        /\ status[s] = "new" => held[s] = "none" /\ unsettled[s] = 0
                        /\ crashes = 0 /\ lease[s] >= 0 => held[s] # "none"
                        /\ held[s] = "queued" => unsettled[s] = 0
  <1>1. \A s \in Tasks : Good(s)
    BY DEF LeaseInv, LeaseCoversRun, LeaseHeld, NewIsIdle, NoLeakedLease, QueuedIsFresh
  <1>2. crashes' = crashes /\ \A s \in Tasks \ {t} : Same(s)
    <2>1. CASE Poll(t)
      BY <2>1 DEF Poll, RenewLease
    <2>2. CASE StartRun(t)
      BY <2>2 DEF StartRun, RenewLease, SetStatus
    <2>3. CASE Ends(t)
      BY <2>3 DEF Ends, RunEnds, RunThrows
    <2>4. CASE Bookkeep(t)
      BY <2>4 DEF Bookkeep, SetStatus
    <2>5. CASE PauseGivenUp(t)
      BY <2>5 DEF PauseGivenUp, SetStatus
    <2>6. CASE Release(t)
      BY <2>6 DEF Release
    <2>7. QED
      BY <2>1, <2>2, <2>3, <2>4, <2>5, <2>6 DEF Scheduler
  <1>3. Good(t)'
    <2>1. CASE Poll(t)
      BY <2>1, <1>1 DEF Poll, RenewLease, Due, Claimable
    <2>2. CASE StartRun(t)
      <3>1. /\ lease'[t] = IF lease[t] >= 0 THEN LeaseTtl ELSE lease[t]
            /\ unsettled'[t] = IF Row(t) THEN LeaseTtl ELSE 0
        BY <2>2 DEF StartRun, RenewLease
      <3>2. held[t] = "queued" /\ held'[t] \in {"running", "settling"}
        BY <2>2 DEF StartRun
      <3>3. status'[t] = status[t] \/ (Row(t) /\ status'[t] \in {"paused", "completed"})
        BY <2>2, SchedulerStatus
      <3>4. QED
        BY <3>1, <3>2, <3>3, <1>1, <1>2
    <2>3. CASE Ends(t)
      <3>1. UNCHANGED <<status, lease, unsettled>>
        BY <2>3 DEF Ends, RunEnds, RunThrows
      <3>a. held[t] # "none"
        BY <2>3 DEF Ends, RunEnds, RunThrows
      <3>b. held'[t] \notin {"none", "queued"}
        BY <2>3 DEF Ends, RunEnds, RunThrows
      <3>2. QED
        BY <3>1, <3>a, <3>b, <1>1, <1>2
    <2>4. CASE Bookkeep(t)
      <3>1. UNCHANGED <<lease, unsettled>>
        BY <2>4 DEF Bookkeep
      <3>a. status'[t] = status[t] \/ (Row(t) /\ status'[t] \in {"paused", "completed"})
        BY <2>4, SchedulerStatus
      <3>b. held[t] # "none" /\ held'[t] \notin {"none", "queued"}
        BY <2>4 DEF Bookkeep
      <3>2. QED
        BY <3>1, <3>a, <3>b, <1>1, <1>2
    <2>5. CASE PauseGivenUp(t)
      <3>1. UNCHANGED <<lease, unsettled>>
        BY <2>5 DEF PauseGivenUp
      <3>a. status'[t] = status[t] \/ (Row(t) /\ status'[t] \in {"paused", "completed"})
        BY <2>5, SchedulerStatus
      <3>b. held[t] # "none" /\ held'[t] \notin {"none", "queued"}
        BY <2>5 DEF PauseGivenUp
      <3>2. QED
        BY <3>1, <3>a, <3>b, <1>1, <1>2
    <2>6. CASE Release(t)
      BY <2>6, <1>1 DEF Release
    <2>7. QED
      BY <2>1, <2>2, <2>3, <2>4, <2>5, <2>6 DEF Scheduler
  <1>4. \A s \in Tasks : Good(s)'
    BY <1>1, <1>2, <1>3
  <1>5. QED
    BY <1>4 DEF LeaseInv, LeaseCoversRun, LeaseHeld, NewIsIdle, NoLeakedLease, QueuedIsFresh

LEMMA SystemLease ==
  ASSUME TypeOK, LeaseInv, CleanupBegin \/ Tick \/ RestartGate \/ Shutdown \/ Crash
  PROVE  LeaseInv'
  <1> USE DEF LeaseInv, LeaseCoversRun, LeaseHeld, NewIsIdle, NoLeakedLease, QueuedIsFresh, Row,
              rowVars, leaseVars, runVars, procVars, ipcRest
  <1>1. CASE CleanupBegin
    BY <1>1 DEF CleanupBegin
  <1>2. CASE Tick
    <2>1. \A t \in Tasks : /\ lease'[t] = IF lease[t] > 0 THEN lease[t] - 1 ELSE lease[t]
                          /\ unsettled'[t] = IF unsettled[t] > 0 THEN unsettled[t] - 1
                                             ELSE unsettled[t]
      BY <1>2 DEF Tick, Less
    <2>2. UNCHANGED <<status, held, crashes>>
      BY <1>2 DEF Tick
    <2>3. \A t \in Tasks : lease[t] \in Int /\ unsettled[t] \in Nat
      BY DEF TypeOK
    <2>4. QED
      BY <2>1, <2>2, <2>3
  <1>3. CASE RestartGate
    BY <1>3 DEF RestartGate
  <1>4. CASE Shutdown
    BY <1>4 DEF Shutdown
  <1>5. CASE Crash
    BY <1>5 DEF Crash, TypeOK
  <1>6. QED
    BY <1>1, <1>2, <1>3, <1>4, <1>5

-----------------------------------------------------------------------------
(* The limit of failures                                                   *)

\* A command that makes a task active pardons it; a deleted task has no
\* failures, and the other commands touch neither failures nor pardons.
LEMMA CommandLimit ==
  ASSUME TypeOK, LimitKnown, NEW t \in Tasks, Ipc(t) \/ Dashboard(t) \/ SlotComes(t)
  PROVE  LimitKnown'
  <1> USE DEF LimitKnown, Row, rowVars, runVars, ipcRest
  <1>0. /\ \A s \in Tasks : streak[s] \in Nat
        /\ MaxFailures > 0
    BY DEF TypeOK
  <1>1. CASE ScheduleTask(t)
    BY <1>1, <1>0 DEF TypeOK, ScheduleTask, Settled
  <1>2. CASE PauseTask(t) \/ DashboardPause(t)
    BY <1>2 DEF TypeOK, PauseTask, DashboardPause, SetStatus
  <1>3. CASE ResumeTask(t) \/ DashboardResume(t)
    <2>1. /\ \A s \in Tasks \ {t} : status'[s] = status[s] /\ pardoned'[s] = pardoned[s]
          /\ status'[t] = "active" /\ pardoned'[t]
          /\ UNCHANGED <<streak, held>>
          /\ Row(t)
      BY <1>3 DEF TypeOK, ResumeTask, DashboardResume, Resume
    <2>2. QED
      BY <2>1
  <1>4. CASE UpdateTask(t) \/ CancelBegin(t)
    BY <1>4 DEF UpdateTask, CancelBegin
  <1>5. CASE CancelEnd(t)
    BY <1>5 DEF TypeOK, CancelEnd, SetStatus
  <1>6. CASE CleanupStep(t) \/ DashboardDelete(t)
    <2>1. CASE UNCHANGED rowVars
      BY <1>6, <2>1 DEF CleanupStep, DashboardDelete
    <2>2. CASE DeleteRow(t)
      <3>1. /\ \A s \in Tasks \ {t} : status'[s] = status[s] /\ streak'[s] = streak[s]
            /\ status'[t] = "deleted" /\ streak'[t] = 0
            /\ UNCHANGED <<held, pardoned>>
        BY <1>6, <2>2 DEF TypeOK, CleanupStep, DashboardDelete, DeleteRow
      <3>2. QED
        BY <3>1, <1>0
    <2>3. QED
      BY <1>6, <2>1, <2>2 DEF CleanupStep, DashboardDelete
  <1>7. CASE DashboardRunNow(t) \/ SlotComes(t)
    BY <1>7 DEF DashboardRunNow, SlotComes
  <1>8. QED
    BY <1>1, <1>2, <1>3, <1>4, <1>5, <1>6, <1>7 DEF Ipc, Dashboard

LEMMA SchedulerLimit ==
  ASSUME TypeOK, LimitKnown, NewIsIdle, NEW t \in Tasks, Scheduler(t)
  PROVE  LimitKnown'
  <1> USE DEF Row, rowVars, runVars, leaseVars
  <1> DEFINE Same(s) == /\ status'[s] = status[s] /\ held'[s] = held[s]
                        /\ streak'[s] = streak[s] /\ pardoned'[s] = pardoned[s]
             Good(s) == /\ status[s] = "new" => streak[s] = 0
                        /\ held[s] = "succeeded" /\ Row(s) => streak[s] = 0
                        /\ held[s] = "queued" /\ streak[s] = MaxFailures => pardoned[s]
                        /\ status[s] = "active" /\ streak[s] = MaxFailures
                           /\ held[s] \notin {"succeeded", "failed", "uncertain"}
                           => pardoned[s]
  <1>0. /\ \A s \in Tasks : streak[s] \in 0..MaxFailures
        /\ MaxFailures \in Nat /\ MaxFailures > 0
    BY DEF TypeOK
  <1>1. \A s \in Tasks : Good(s)
    BY DEF LimitKnown
  <1>2. (\A s \in Tasks \ {t} : Same(s)) /\ Good(t)'
    <2>1. CASE Poll(t)
      BY <2>1, <1>1 DEF TypeOK, Poll, Due
    <2>2. CASE StartRun(t)
      <3>1. /\ \A s \in Tasks \ {t} : Same(s)
            /\ held[t] = "queued"
            /\ pardoned' = pardoned
        BY <2>2 DEF TypeOK, StartRun, SetStatus
      <3>2. \/ /\ status'[t] = status[t] /\ streak'[t] = streak[t]
               /\ held'[t] = "running"
            \/ /\ held'[t] = "settling"
               /\ status'[t] = "paused" \/ (~Row(t) /\ status'[t] = status[t])
        BY <2>2 DEF TypeOK, StartRun, SetStatus
      <3>3. status[t] # "new"
        BY <3>1 DEF NewIsIdle
      <3>4. QED
        BY <3>1, <3>2, <3>3, <1>1
    <2>3. ASSUME NEW result \in {"succeeded", "failed", "uncertain"}, RunEnds(t, result)
          PROVE  (\A s \in Tasks \ {t} : Same(s)) /\ Good(t)'
      <3>1. /\ \A s \in Tasks \ {t} : Same(s)
            /\ held[t] = "running" /\ status' = status
        BY <2>3 DEF TypeOK, RunEnds
      <3>2. /\ held'[t] = IF status[t] \in {"cancelled", "deleted"} THEN "settling"
                          ELSE result
            /\ result = "succeeded" /\ Row(t) => streak'[t] = 0
        BY <2>3 DEF TypeOK, RunEnds
      <3>3. status[t] # "new"
        BY <3>1 DEF NewIsIdle
      <3>4. QED
        BY <3>1, <3>2, <3>3
    <2>4. CASE RunThrows(t)
      <3>1. /\ \A s \in Tasks \ {t} : Same(s)
            /\ held[t] = "running" /\ status' = status
            /\ held'[t] = IF Row(t) THEN "failed" ELSE "settling"
        BY <2>4 DEF TypeOK, RunThrows
      <3>2. status[t] # "new"
        BY <3>1 DEF NewIsIdle
      <3>3. QED
        BY <3>1, <3>2
    <2>5. CASE Bookkeep(t)
      <3>1. /\ \A s \in Tasks \ {t} : Same(s)
            /\ streak' = streak /\ pardoned' = pardoned
            /\ held'[t] = IF GivesUpOn(t) THEN "givenUp" ELSE "settling"
        BY <2>5 DEF TypeOK, Bookkeep, SetStatus
      <3>2. held[t] \in {"succeeded", "failed", "uncertain"}
        BY <2>5 DEF Bookkeep
      <3>3. status'[t] = status[t] \/ status'[t] = "completed"
        BY <2>5, SchedulerStatus DEF TypeOK, Bookkeep, SetStatus
      <3>4. GivesUpOn(t) => status'[t] = "completed" \/ ~Row(t)
        BY <2>5 DEF TypeOK, Bookkeep, SetStatus
      <3>5. GivesUpOn(t) \/ ~Row(t) \/ streak[t] < MaxFailures
        BY <3>2, <1>0, <1>1 DEF GivesUpOn
      <3>6. QED
        BY <3>1, <3>3, <3>4, <3>5, <1>0, <1>1
    <2>6. CASE PauseGivenUp(t)
      <3>1. /\ \A s \in Tasks \ {t} : Same(s)
            /\ streak' = streak /\ pardoned' = pardoned
            /\ held[t] = "givenUp" /\ held'[t] = "settling"
            /\ status'[t] = IF Row(t) THEN "paused" ELSE status[t]
        BY <2>6 DEF TypeOK, PauseGivenUp, SetStatus
      <3>2. QED
        BY <3>1, <1>1
    <2>7. CASE Release(t)
      BY <2>7, <1>1 DEF TypeOK, Release
    <2>8. QED
      BY <2>1, <2>2, <2>3, <2>4, <2>5, <2>6, <2>7 DEF Scheduler, Ends
  <1>3. \A s \in Tasks : Good(s)'
    BY <1>1, <1>2
  <1>4. QED
    BY <1>3 DEF LimitKnown

LEMMA SystemLimit ==
  ASSUME TypeOK, LimitKnown, CleanupBegin \/ Tick \/ RestartGate \/ Shutdown \/ Crash
  PROVE  LimitKnown'
  <1> USE DEF LimitKnown, Row, rowVars, runVars, ipcRest
  <1>1. CASE CleanupBegin \/ Tick \/ RestartGate \/ Shutdown
    <2>1. UNCHANGED <<status, streak, held, pardoned>>
      BY <1>1 DEF CleanupBegin, Tick, RestartGate, Shutdown
    <2>2. QED
      BY <2>1
  <1>2. CASE Crash
    <2>1. /\ UNCHANGED <<status, streak>>
          /\ \A s \in Tasks : held'[s] = "none"
      BY <1>2 DEF Crash
    <2>2. \A s \in Tasks :
            pardoned[s] \/ held[s] \in {"succeeded", "failed", "uncertain"} => pardoned'[s]
      BY <1>2, Zenon DEF Crash
    <2>3. QED
      BY <2>1, <2>2
  <1>3. QED
    BY <1>1, <1>2

-----------------------------------------------------------------------------
(* The theorems                                                            *)

LEMMA InvStep == IInv /\ [Next]_vars => IInv'
  <1> SUFFICES ASSUME IInv, [Next]_vars PROVE IInv'
    OBVIOUS
  <1>1. TypeOK /\ LeaseInv /\ LimitKnown /\ NewIsIdle
    BY DEF IInv, LeaseInv
  <1>2. TypeOK'
    BY <1>1, TypeStep
  <1>3. CASE UNCHANGED vars
    BY <1>1, <1>2, <1>3
       DEF vars, rowVars, leaseVars, runVars, ipcVars, procVars, IInv, LeaseInv,
           LeaseCoversRun, LeaseHeld, NewIsIdle, NoLeakedLease, QueuedIsFresh, LimitKnown, Row
  <1>4. CASE Next
    <2>1. LeaseInv'
      BY <1>1, <1>4, SchedulerLease, CommandLease, SystemLease DEF Next
    <2>2. LimitKnown'
      BY <1>1, <1>4, SchedulerLimit, CommandLimit, SystemLimit DEF Next
    <2>3. QED
      BY <1>2, <2>1, <2>2 DEF IInv
  <1>5. QED
    BY <1>3, <1>4

\* The inductive invariant holds in every state of every behaviour.
THEOREM Invariance == Spec => []IInv
  BY InitInv, InvStep, PTL DEF Spec

\* Every variable has its type; the failures counted never pass the limit.
THEOREM TypeCorrect == Spec => []TypeOK
  <1>1. IInv => TypeOK
    BY DEF IInv
  <1>2. QED
    BY Invariance, <1>1, PTL

\* For any tasks and any lease: the lease of a run that did not settle lives a
\* TTL from the start of that run.
THEOREM LeaseKept == Spec => []LeaseCoversRun
  <1>1. IInv => LeaseCoversRun
    BY DEF IInv, LeaseInv
  <1>2. QED
    BY Invariance, <1>1, PTL

\* Only a crash leaves a lease nobody will release.
THEOREM LeaseReleased == Spec => []NoLeakedLease
  <1>1. IInv => NoLeakedLease
    BY DEF IInv, LeaseInv
  <1>2. QED
    BY Invariance, <1>1, PTL

\* No run starts within a TTL of the start of another run of the same task
\* that did not settle, across crashes, restarts and shutdowns.
THEOREM SingleRun == Spec => NoSecondRun
  <1>1. IInv /\ [Next]_vars =>
          [\A t \in Tasks : held[t] = "queued" /\ held'[t] \in {"running", "settling"}
                           => unsettled[t] = 0]_vars
    BY DEF IInv, LeaseInv, QueuedIsFresh
  <1>2. QED
    BY Invariance, <1>1, PTL DEF Spec, NoSecondRun

\* A task at the limit of failures starts only when it is pardoned.
THEOREM FailuresLimited == Spec => GivesUp
  <1>1. IInv /\ [Next]_vars =>
          [\A t \in Tasks : held[t] = "queued" /\ held'[t] = "running"
                             /\ streak[t] = MaxFailures => pardoned[t]]_vars
    BY DEF IInv, LimitKnown
  <1>2. QED
    BY Invariance, <1>1, PTL DEF Spec, GivesUp
=============================================================================
