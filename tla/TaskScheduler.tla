---------------------------- MODULE TaskScheduler ----------------------------
(***************************************************************************)
(* Scheduled tasks: core/src/orchestrator/task-scheduler.ts with the rows  *)
(* it reads and writes (db.ts, task-next-run.ts) and their other writers,  *)
(* the IPC commands of the agents (ipc.ts) and the buttons of the dashboard*)
(* (dashboard/src/actions.ts), which is a process of its own.              *)
(*                                                                         *)
(* The orchestrator runs one callback at a time, but each SQL statement    *)
(* commits by itself: the writes that follow a run are separate steps, and *)
(* between two of them the dashboard may write or the process may die.     *)
(* `Settled` keeps the other callbacks of the orchestrator out.            *)
(*                                                                         *)
(* The chat's queue is GroupQueue; here it is `held`, what the queue and   *)
(* the run's closure are doing with the task (TaskHeldOnce of GroupQueue   *)
(* is why one value per task is enough).                                   *)
(***************************************************************************)
EXTENDS Integers, FiniteSets

CONSTANTS Tasks,        \* task ids; an id is never used twice
          NoTask,
          MaxFailures,  \* MAX_CONSECUTIVE_TASK_FAILURES
          LeaseTtl,     \* computeLeaseTtlMs
          GateTtl,      \* how long a restart gate lasts
          MaxCrashes, MaxGates   \* bounds of the model

ASSUME TasksAssumption  == NoTask \notin Tasks
ASSUME LimitsAssumption == /\ MaxFailures \in Nat \ {0}
                           /\ LeaseTtl \in Nat \ {0}
                           /\ GateTtl \in Nat \ {0}
                           /\ MaxCrashes \in Nat
                           /\ MaxGates \in Nat

VARIABLES
  \* rows of scheduled_tasks; next_run is null, in the past or in the future
  status, kind, nextRun,
  \* task_run_logs: how many of the last runs in a row failed
  streak,
  \* rows of task_leases as the time left, -1 without a row; the gate row
  lease, gate,
  \* the queue and the closure of the run, and the schedule type of the row
  \* the closure captured when it was dispatched
  held, captured,
  \* the IPC command that awaits the calendar: IPC files are read one by one
  cancelling, cleaning,
  \* GroupQueue.shuttingDown; crashes and restart gates so far
  stopping, crashes, gates,
  \* history: time left of the TTL since the start of a run that did not
  \* settle; the owner resumed the task, or a crash ate the bookkeeping
  unsettled, pardoned

rowVars   == <<status, kind, nextRun, streak>>
leaseVars == <<lease, gate, unsettled>>
runVars   == <<held, captured>>
ipcVars   == <<cancelling, cleaning>>
procVars  == <<stopping, crashes, gates>>
vars      == <<rowVars, leaseVars, runVars, ipcVars, procVars, pardoned>>

Init ==
  /\ status = [t \in Tasks |-> "new"]
  /\ kind = [t \in Tasks |-> "once"]
  /\ nextRun = [t \in Tasks |-> "null"]
  /\ streak = [t \in Tasks |-> 0]
  /\ lease = [t \in Tasks |-> -1]
  /\ gate = 0
  /\ held = [t \in Tasks |-> "none"]
  /\ captured = [t \in Tasks |-> "none"]
  /\ cancelling = NoTask
  /\ cleaning = {}
  /\ stopping = FALSE
  /\ crashes = 0
  /\ gates = 0
  /\ unsettled = [t \in Tasks |-> 0]
  /\ pardoned = [t \in Tasks |-> FALSE]

-----------------------------------------------------------------------------
(* Helpers                                                                 *)

Row(t) == status[t] \notin {"new", "deleted"}
Due(t) == status[t] = "active" /\ nextRun[t] = "due"

\* An UPDATE of a row that is gone changes nothing.
SetStatus(t, s) == status' = [status EXCEPT ![t] = IF Row(t) THEN s ELSE @]

\* No orchestrator callback is between two of its writes.
Settled == \A t \in Tasks :
             held[t] \notin {"succeeded", "failed", "uncertain", "givenUp"}
IpcIdle == cancelling = NoTask /\ cleaning = {}

More(n) == IF n < MaxFailures THEN n + 1 ELSE n

\* Mutant: a lease that is there is left as it is.
KeepLease(t) == lease' = lease
\* Mutant: the TTL is added to what is left of the lease.
AddToLease(t) ==
  lease' = [lease EXCEPT ![t] = IF @ >= 0 THEN @ + LeaseTtl ELSE @]
\* renewTaskLease: MAX(locked_until, now + TTL), of an existing row only.
RenewLease(t) == lease' = [lease EXCEPT ![t] = IF @ >= 0 THEN LeaseTtl ELSE @]

\* deleteTask: the run log goes with the row.
DeleteRow(t) ==
  /\ status' = [status EXCEPT ![t] = "deleted"]
  /\ nextRun' = [nextRun EXCEPT ![t] = "null"]
  /\ streak' = [streak EXCEPT ![t] = 0]
  /\ UNCHANGED kind

\* nextRunForResumedTask: a recurring task at its next slot; a once-task that
\* is paused at its own time, or at once; NULL stays for any other.
ResumedNextRun(t) ==
  CASE nextRun[t] # "null"                             -> {nextRun[t]}
    [] nextRun[t] = "null" /\ kind[t] = "recurring"    -> {"later"}
    [] nextRun[t] = "null" /\ kind[t] = "once"
                           /\ status[t] = "paused"     -> {"due", "later"}
    [] OTHER                                           -> {"null"}

Resume(t) ==
  /\ status' = [status EXCEPT ![t] = "active"]
  /\ \E next \in ResumedNextRun(t) : nextRun' = [nextRun EXCEPT ![t] = next]
  /\ pardoned' = [pardoned EXCEPT ![t] = TRUE]
  /\ UNCHANGED <<kind, streak>>

-----------------------------------------------------------------------------
(* The scheduler loop                                                      *)

\* Mutant: a lease row blocks for good, expired or not.
ClaimableOnce(t) == gate = 0 /\ lease[t] = -1
\* claimTaskForRun: no live restart gate, and no live lease of this task.
Claimable(t) == gate = 0 /\ lease[t] <= 0

\* Mutant: the queue is not asked first; it drops the duplicate, and the lease
\* that was just claimed for it is released (finding #68 of the comment).
PollWithoutHasTask(t) ==
  /\ Settled /\ Due(t)
  /\ Claimable(t)
  /\ IF stopping \/ held[t] # "none"
     THEN /\ lease' = [lease EXCEPT ![t] = -1]
          /\ UNCHANGED runVars
     ELSE /\ lease' = [lease EXCEPT ![t] = LeaseTtl]
          /\ held' = [held EXCEPT ![t] = "queued"]
          /\ captured' = [captured EXCEPT ![t] = kind[t]]
  /\ UNCHANGED <<rowVars, gate, unsettled, ipcVars, procVars, pardoned>>

\* Mutant: a dispatch the queue refused keeps its lease.
PollKeepsLease(t) ==
  /\ Settled /\ Due(t)
  /\ IF held[t] # "none"
     THEN /\ RenewLease(t)
          /\ UNCHANGED runVars
     ELSE /\ Claimable(t)
          /\ lease' = [lease EXCEPT ![t] = LeaseTtl]
          /\ IF stopping
             THEN UNCHANGED runVars
             ELSE /\ held' = [held EXCEPT ![t] = "queued"]
                  /\ captured' = [captured EXCEPT ![t] = kind[t]]
  /\ UNCHANGED <<rowVars, gate, unsettled, ipcVars, procVars, pardoned>>

\* One due task of one poll.  A task the queue holds only has its lease
\* renewed; another is claimed, unless a live lease or the restart gate is in
\* the way, and handed to the queue, which refuses it while shutting down.
Poll(t) ==
  /\ Settled /\ Due(t)
  /\ \/ /\ held[t] # "none"
        /\ RenewLease(t)
        /\ UNCHANGED runVars
     \/ /\ held[t] = "none" /\ Claimable(t)
        /\ IF stopping
           THEN /\ lease' = [lease EXCEPT ![t] = -1]
                /\ UNCHANGED runVars
           ELSE /\ lease' = [lease EXCEPT ![t] = LeaseTtl]
                /\ held' = [held EXCEPT ![t] = "queued"]
                /\ captured' = [captured EXCEPT ![t] = kind[t]]
  /\ UNCHANGED <<rowVars, gate, unsettled, ipcVars, procVars, pardoned>>

\* The queue starts the closure: the lease is renewed, then runTask begins.
StartRun(t) ==
  /\ Settled /\ ~stopping
  /\ held[t] = "queued"
  /\ RenewLease(t)
  /\ unsettled' = [unsettled EXCEPT ![t] = IF Row(t) THEN LeaseTtl ELSE 0]
  /\ \/ /\ held' = [held EXCEPT ![t] = "running"]
        /\ UNCHANGED rowVars
     \* invalid group folder, or the group is not registered
     \/ /\ held' = [held EXCEPT ![t] = "settling"]
        /\ SetStatus(t, "paused")
        /\ streak' = [streak EXCEPT ![t] = IF Row(t) THEN More(@) ELSE @]
        /\ UNCHANGED <<kind, nextRun>>
  /\ UNCHANGED <<gate, captured, ipcVars, procVars, pardoned>>

\* runTask after the agent: the row is read and the run is logged.  A task
\* that is gone, or was cancelled meanwhile, is left alone.
RunEnds(t, result) ==
  /\ Settled
  /\ held[t] = "running"
  /\ held' = [held EXCEPT ![t] =
       IF status[t] \in {"cancelled", "deleted"} THEN "settling" ELSE result]
  /\ streak' = [streak EXCEPT ![t] =
       IF ~Row(t) THEN @ ELSE IF result = "succeeded" THEN 0 ELSE More(@)]
  /\ pardoned' = [pardoned EXCEPT ![t] = @ /\ result = "succeeded"]
  /\ UNCHANGED <<status, kind, nextRun, leaseVars, captured, ipcVars, procVars>>

\* finalizeUnhandledTaskFailure: runTask threw before it called the agent.
RunThrows(t) ==
  /\ Settled
  /\ held[t] = "running"
  /\ held' = [held EXCEPT ![t] = IF Row(t) THEN "failed" ELSE "settling"]
  /\ streak' = [streak EXCEPT ![t] = IF Row(t) THEN More(@) ELSE @]
  /\ pardoned' = [pardoned EXCEPT ![t] = FALSE]
  /\ UNCHANGED <<status, kind, nextRun, leaseVars, captured, ipcVars, procVars>>

\* Mutant: the failure that reaches the limit is retried.
RetriesAtLimit(t) == held[t] = "uncertain"
\* An action with external effects may have happened, or too many failures.
GivesUpOn(t) ==
  \/ held[t] = "uncertain"
  \/ held[t] = "failed" /\ streak[t] >= MaxFailures

\* computeNextRunAfterTaskAttempt, of the captured row; updateTaskAfterRun
\* completes a task that has no next run.
Bookkeep(t) ==
  /\ held[t] \in {"succeeded", "failed", "uncertain"}
  /\ LET done == GivesUpOn(t) \/ (held[t] = "succeeded" /\ captured[t] = "once")
     IN /\ nextRun' = [nextRun EXCEPT ![t] =
             IF ~Row(t) THEN @ ELSE IF done THEN "null" ELSE "later"]
        /\ IF done THEN SetStatus(t, "completed") ELSE UNCHANGED status
  /\ held' = [held EXCEPT ![t] = IF GivesUpOn(t) THEN "givenUp" ELSE "settling"]
  /\ UNCHANGED <<kind, streak, leaseVars, captured, ipcVars, procVars, pardoned>>

\* The second write of the same bookkeeping: paused, not completed.
PauseGivenUp(t) ==
  /\ held[t] = "givenUp"
  /\ SetStatus(t, "paused")
  /\ held' = [held EXCEPT ![t] = "settling"]
  /\ UNCHANGED <<kind, nextRun, streak, leaseVars, captured, ipcVars, procVars,
                 pardoned>>

\* The notice is sent, the closure's finally runs, the queue drops the task.
Release(t) ==
  /\ Settled
  /\ held[t] = "settling"
  /\ held' = [held EXCEPT ![t] = "none"]
  /\ captured' = [captured EXCEPT ![t] = "none"]
  /\ lease' = [lease EXCEPT ![t] = -1]
  /\ unsettled' = [unsettled EXCEPT ![t] = 0]
  /\ UNCHANGED <<rowVars, gate, ipcVars, procVars, pardoned>>

-----------------------------------------------------------------------------
(* The commands of the agents, one IPC file at a time                      *)

ipcRest == <<leaseVars, runVars, procVars>>

\* schedule_task; the slot may come at once.
ScheduleTask(t) ==
  /\ Settled /\ IpcIdle
  /\ status[t] = "new"
  /\ status' = [status EXCEPT ![t] = "active"]
  /\ \E k \in {"once", "recurring"} : kind' = [kind EXCEPT ![t] = k]
  /\ nextRun' = [nextRun EXCEPT ![t] = "later"]
  /\ UNCHANGED <<streak, ipcVars, ipcRest, pardoned>>

\* pause_task refuses a cancelled task, and only that.
PauseTask(t) ==
  /\ Settled /\ IpcIdle
  /\ Row(t) /\ status[t] # "cancelled"
  /\ SetStatus(t, "paused")
  /\ UNCHANGED <<kind, nextRun, streak, ipcVars, ipcRest, pardoned>>

\* resume_task
ResumeTask(t) ==
  /\ Settled /\ IpcIdle
  /\ Row(t) /\ status[t] # "cancelled"
  /\ Resume(t)
  /\ UNCHANGED <<ipcVars, ipcRest>>

\* update_task: a recurring schedule has its next slot recomputed; a once-task,
\* or an interval that is no number, keeps the next run the row had.
UpdateTask(t) ==
  /\ Settled /\ IpcIdle
  /\ Row(t)
  /\ \/ /\ kind' = [kind EXCEPT ![t] = "recurring"]
        /\ nextRun' = [nextRun EXCEPT ![t] = "later"]
     \/ /\ \E k \in {"once", "recurring"} : kind' = [kind EXCEPT ![t] = k]
        /\ UNCHANGED nextRun
  /\ UNCHANGED <<status, streak, ipcVars, ipcRest, pardoned>>

\* cancel_task looks the task up, then waits for the calendar ...
CancelBegin(t) ==
  /\ Settled /\ IpcIdle
  /\ Row(t)
  /\ cancelling' = t
  /\ UNCHANGED <<rowVars, cleaning, ipcRest, pardoned>>

\* ... and cancels whatever the row is by then.
CancelEnd(t) ==
  /\ Settled
  /\ cancelling = t
  /\ SetStatus(t, "cancelled")
  /\ nextRun' = [nextRun EXCEPT ![t] = IF Row(t) THEN "null" ELSE @]
  /\ cancelling' = NoTask
  /\ UNCHANGED <<kind, streak, cleaning, ipcRest, pardoned>>

\* cleanup_tasks takes the finished tasks of the requested statuses ...
CleanupBegin ==
  /\ Settled /\ IpcIdle
  /\ \E finished \in {{"completed"}, {"cancelled"}, {"completed", "cancelled"}} :
       cleaning' = {t \in Tasks : status[t] \in finished}
  /\ UNCHANGED <<rowVars, cancelling, ipcRest, pardoned>>

\* ... and waits for the calendar before it deletes each; the tasks of the
\* owner are skipped when a guest asks.
CleanupStep(t) ==
  /\ Settled
  /\ t \in cleaning
  /\ cleaning' = cleaning \ {t}
  /\ DeleteRow(t) \/ UNCHANGED rowVars
  /\ UNCHANGED <<cancelling, ipcRest, pardoned>>

-----------------------------------------------------------------------------
(* The dashboard, another process: between any two writes                  *)

Finished(t) == status[t] \in {"completed", "cancelled"}

\* task_pause, with true and with false
DashboardPause(t) ==
  /\ Row(t) /\ ~Finished(t)
  /\ SetStatus(t, "paused")
  /\ UNCHANGED <<kind, nextRun, streak, ipcVars, ipcRest, pardoned>>

DashboardResume(t) ==
  /\ Row(t) /\ ~Finished(t)
  /\ Resume(t)
  /\ UNCHANGED <<ipcVars, ipcRest>>

\* task_run_now
DashboardRunNow(t) ==
  /\ status[t] = "active"
  /\ nextRun' = [nextRun EXCEPT ![t] = "due"]
  /\ UNCHANGED <<status, kind, streak, ipcVars, ipcRest, pardoned>>

\* task_delete: the lease goes in the same transaction.
DashboardDelete(t) ==
  /\ Row(t)
  /\ DeleteRow(t)
  /\ lease' = [lease EXCEPT ![t] = -1]
  /\ UNCHANGED <<gate, unsettled, ipcVars, runVars, procVars, pardoned>>

-----------------------------------------------------------------------------
(* The clock, the restart worker and the process                           *)

SlotComes(t) ==
  /\ nextRun[t] = "later"
  /\ nextRun' = [nextRun EXCEPT ![t] = "due"]
  /\ UNCHANGED <<status, kind, streak, ipcVars, ipcRest, pardoned>>

Less(n) == IF n > 0 THEN n - 1 ELSE n

Tick ==
  /\ lease' = [t \in Tasks |-> Less(lease[t])]
  /\ gate' = Less(gate)
  /\ unsettled' = [t \in Tasks |-> Less(unsettled[t])]
  /\ UNCHANGED <<rowVars, runVars, ipcVars, procVars, pardoned>>

\* The restart worker takes the gate when no lease is live.
RestartGate ==
  /\ gates < MaxGates
  /\ gate = 0 /\ \A t \in Tasks : lease[t] <= 0
  /\ gate' = GateTtl
  /\ gates' = gates + 1
  /\ UNCHANGED <<rowVars, lease, unsettled, runVars, ipcVars, stopping, crashes,
                 pardoned>>

Shutdown ==
  /\ Settled /\ ~stopping
  /\ stopping' = TRUE
  /\ UNCHANGED <<rowVars, leaseVars, runVars, ipcVars, crashes, gates, pardoned>>

\* The process dies, after a shutdown or without one, and another starts: the
\* rows and the leases are what is left.
Crash ==
  /\ crashes < MaxCrashes
  /\ crashes' = crashes + 1
  /\ held' = [t \in Tasks |-> "none"]
  /\ captured' = [t \in Tasks |-> "none"]
  /\ cancelling' = NoTask
  /\ cleaning' = {}
  /\ stopping' = FALSE
  /\ pardoned' = [t \in Tasks |-> pardoned[t]
                     \/ held[t] \in {"succeeded", "failed", "uncertain", "givenUp"}]
  /\ UNCHANGED <<rowVars, leaseVars, gates>>

-----------------------------------------------------------------------------
Ends(t) ==
  \/ \E result \in {"succeeded", "failed", "uncertain"} : RunEnds(t, result)
  \/ RunThrows(t)

Scheduler(t) ==
  \/ Poll(t)
  \/ StartRun(t)
  \/ Ends(t)
  \/ Bookkeep(t)
  \/ PauseGivenUp(t)
  \/ Release(t)

Ipc(t) ==
  \/ ScheduleTask(t)
  \/ PauseTask(t)
  \/ ResumeTask(t)
  \/ UpdateTask(t)
  \/ CancelBegin(t)
  \/ CancelEnd(t)
  \/ CleanupStep(t)

Dashboard(t) ==
  \/ DashboardPause(t)
  \/ DashboardResume(t)
  \/ DashboardRunNow(t)
  \/ DashboardDelete(t)

Next ==
  \/ \E t \in Tasks : Scheduler(t) \/ Ipc(t) \/ Dashboard(t) \/ SlotComes(t)
  \/ CleanupBegin
  \/ Tick
  \/ RestartGate
  \/ Shutdown
  \/ Crash

Spec == Init /\ [][Next]_vars

\* The loop polls once a minute, the queue serves the chat (WaitersServed of
\* GroupQueue), every run ends by its timeout, and callbacks run to their end.
FairSpec ==
  /\ Spec
  /\ WF_vars(Tick)
  /\ \A t \in Tasks :
       /\ WF_vars(Poll(t))
       /\ WF_vars(StartRun(t))
       /\ WF_vars(Ends(t))
       /\ WF_vars(Bookkeep(t))
       /\ WF_vars(PauseGivenUp(t))
       /\ WF_vars(Release(t))
-----------------------------------------------------------------------------
(* Properties                                                              *)

\* Every variable has its type.
TypeOK ==
  /\ status \in [Tasks -> {"new", "active", "paused", "completed", "cancelled",
                           "deleted"}]
  /\ kind \in [Tasks -> {"once", "recurring"}]
  /\ nextRun \in [Tasks -> {"null", "due", "later"}]
  /\ streak \in [Tasks -> 0..MaxFailures]
  /\ lease \in [Tasks -> -1..LeaseTtl]
  /\ gate \in 0..GateTtl
  /\ held \in [Tasks -> {"none", "queued", "running", "succeeded", "failed",
                         "uncertain", "givenUp", "settling"}]
  /\ captured \in [Tasks -> {"none", "once", "recurring"}]
  /\ cancelling \in Tasks \cup {NoTask}
  /\ cleaning \in SUBSET Tasks
  /\ stopping \in BOOLEAN
  /\ crashes \in 0..MaxCrashes
  /\ gates \in 0..MaxGates
  /\ unsettled \in [Tasks -> 0..LeaseTtl]
  /\ pardoned \in [Tasks -> BOOLEAN]

\* The lease of a task whose run has not settled lives at least a TTL from the
\* start of that run, however long the task waited in the queue before it and
\* whatever was done to its row, its chat or the process since.
LeaseCoversRun ==
  \A t \in Tasks : Row(t) /\ unsettled[t] > 0 => lease[t] >= unsettled[t]

\* That is what the lease is for: no run of a task starts within a TTL of the
\* start of another that did not settle, not even one a dead process left.
NoSecondRun ==
  [][\A t \in Tasks :
       held[t] = "queued" /\ held'[t] \in {"running", "settling"}
         => unsettled[t] = 0]_vars

\* Only a crash leaves a lease that no queued task and no run will release: a
\* dispatch the queue refuses does not (finding #68 of the comment).
NoLeakedLease ==
  crashes = 0 => \A t \in Tasks : lease[t] >= 0 => held[t] # "none"

\* MAX_CONSECUTIVE_TASK_FAILURES: a task that failed that often in a row does
\* not run again until somebody resumes it, unless the process died before it
\* could write that down.
GivesUp ==
  [][\A t \in Tasks :
       held[t] = "queued" /\ held'[t] = "running" /\ streak[t] = MaxFailures
         => pardoned[t]]_vars

\* A due task is run, unless its owner, a shutdown or its own run prevents it:
\* leases left by dead processes and restart gates run out.
DueServed ==
  \A t \in Tasks : Due(t) ~> (~Due(t) \/ stopping \/ held[t] \notin {"none", "queued"})

\* cancel_task: "a cancelled task is history, not a schedule".
CancelledIsFinal ==
  [][\A t \in Tasks : status[t] = "cancelled" => status'[t] \in {"cancelled", "deleted"}]_vars

\* pause_task: "it will not run until resume_task".
OnlyActiveStarts ==
  [][\A t \in Tasks : held[t] = "queued" /\ held'[t] = "running"
                        => status[t] = "active"]_vars

\* nextRunForResumedTask: a paused once-task without a next run is one the
\* scheduler gave up on, and it never ran successfully.
GaveUpNeverSucceeded ==
  \A t \in Tasks :
    status[t] = "paused" /\ kind[t] = "once" /\ nextRun[t] = "null" => streak[t] > 0
=============================================================================
