----------------------------- MODULE GroupQueue -----------------------------
(***************************************************************************)
(* The per-chat run queue of packages/core/src/orchestrator/group-queue.ts.*)
(* Every chat ("group") has at most one agent run, a chat turn or a        *)
(* scheduled task; all chats share MaxConcurrent slots.                    *)
(*                                                                         *)
(* JavaScript runs one callback at a time, so a method of the class is one *)
(* action.  The two loops that follow the end of a run (drainGroup and     *)
(* drainWaiting) are the exception: they are cut into steps with the       *)
(* control point `draining`, and no other action is enabled between two of *)
(* their steps.                                                            *)
(*                                                                         *)
(* The run itself is a coroutine that outlives the method which started    *)
(* it.  chatRuns and taskRuns count the coroutines whose `finally` has not *)
(* run yet, independently of the `active` flag the class keeps: that the   *)
(* two agree is a theorem, not an assumption.                              *)
(***************************************************************************)
EXTENDS Integers, Sequences, FiniteSets

CONSTANTS Groups,         \* the chats
          Tasks,          \* names of scheduled tasks within one chat
          NoTask,         \* "no task": the null of runningTaskId
          MaxConcurrent,  \* MAX_CONCURRENT_CONTAINERS
          MaxRetries,     \* MAX_RETRIES
          MaxTimers       \* bound of the model: retry timers armed per chat

ASSUME GroupsAssumption == /\ IsFiniteSet(Groups)
                           /\ Groups \cap {"idle", "waiting"} = {}
ASSUME TasksAssumption  == NoTask \notin Tasks
ASSUME LimitsAssumption == /\ MaxConcurrent \in Nat \ {0}
                           /\ MaxRetries \in Nat
                           /\ MaxTimers \in Nat

VARIABLES
  \* GroupState, one entry per chat
  active, isTaskContainer, runningTaskId, pendingMessages, pendingTasks,
  idleWaiting, process, cancelRequested, retryCount,
  \* GroupQueue
  activeCount, waitingGroups, shuttingDown,
  \* armed setTimeout callbacks of scheduleRetry
  retryTimers,
  \* control point of the drain loops
  draining,
  \* coroutines in flight: runForGroup per chat, runTask per chat and task
  chatRuns, taskRuns,
  \* what reached the runner process: a signal, the _close file
  killed, closeFile

flagVars  == <<active, isTaskContainer, runningTaskId, cancelRequested,
               activeCount>>
workVars  == <<pendingMessages, pendingTasks, waitingGroups>>
retryVars == <<retryCount, retryTimers>>
runVars   == <<chatRuns, taskRuns>>
procVars  == <<process, killed, closeFile, idleWaiting>>
ctlVars   == <<shuttingDown, draining>>
vars      == <<flagVars, workVars, retryVars, runVars, procVars, ctlVars>>

Init ==
  /\ active = [g \in Groups |-> FALSE]
  /\ isTaskContainer = [g \in Groups |-> FALSE]
  /\ runningTaskId = [g \in Groups |-> NoTask]
  /\ pendingMessages = [g \in Groups |-> FALSE]
  /\ pendingTasks = [g \in Groups |-> <<>>]
  /\ idleWaiting = [g \in Groups |-> FALSE]
  /\ process = [g \in Groups |-> FALSE]
  /\ cancelRequested = [g \in Groups |-> FALSE]
  /\ retryCount = [g \in Groups |-> 0]
  /\ activeCount = 0
  /\ waitingGroups = <<>>
  /\ shuttingDown = FALSE
  /\ retryTimers = [g \in Groups |-> 0]
  /\ draining = "idle"
  /\ chatRuns = [g \in Groups |-> 0]
  /\ taskRuns = [g \in Groups |-> {}]
  /\ killed = [g \in Groups |-> FALSE]
  /\ closeFile = [g \in Groups |-> FALSE]

-----------------------------------------------------------------------------
(* Helpers                                                                 *)

InSeq(x, s) == \E i \in 1..Len(s) : s[i] = x

AppendNew(s, x) == IF InSeq(x, s) THEN s ELSE Append(s, x)

\* Mutant: only the running task counts as held.
HasTaskRunning(g, t) == runningTaskId[g] = t
HasTask(g, t) == runningTaskId[g] = t \/ InSeq(t, pendingTasks[g])

HasWork(g) == pendingTasks[g] # <<>> \/ pendingMessages[g]

\* A coroutine of g is in flight.
HasRun(g) == chatRuns[g] > 0 \/ taskRuns[g] # {}

\* Mutant: the limit is off by one.
SlotFreeOffByOne == activeCount <= MaxConcurrent
SlotFree == activeCount < MaxConcurrent

\* No drain loop is between two of its steps, and the queue accepts work.
Ready     == draining = "idle"
Accepting == Ready /\ ~shuttingDown

\* signalActiveRun on an active run: the process tree is terminated when one
\* is registered.  Without a process there is no group folder either, and its
\* closeStdin fallback returns at once.
Signal(g) == killed' = [killed EXCEPT ![g] = @ \/ process[g]]

\* closeStdin: the _close file is written only for an active run whose group
\* folder is known, that is, after its process has registered.
CloseStdin(S) ==
  closeFile' = [g \in Groups |-> closeFile[g] \/ (g \in S /\ active[g] /\ process[g])]

-----------------------------------------------------------------------------
(* Starting a run: the synchronous part of runForGroup and runTask          *)

RunForGroup(g) ==
  /\ active' = [active EXCEPT ![g] = TRUE]
  /\ isTaskContainer' = [isTaskContainer EXCEPT ![g] = FALSE]
  /\ idleWaiting' = [idleWaiting EXCEPT ![g] = FALSE]
  /\ pendingMessages' = [pendingMessages EXCEPT ![g] = FALSE]
  /\ cancelRequested' = [cancelRequested EXCEPT ![g] = FALSE]
  /\ activeCount' = activeCount + 1
  /\ chatRuns' = [chatRuns EXCEPT ![g] = @ + 1]
  /\ UNCHANGED <<runningTaskId, taskRuns, process, killed, closeFile>>

RunTask(g, t) ==
  /\ active' = [active EXCEPT ![g] = TRUE]
  /\ isTaskContainer' = [isTaskContainer EXCEPT ![g] = TRUE]
  /\ runningTaskId' = [runningTaskId EXCEPT ![g] = t]
  /\ idleWaiting' = [idleWaiting EXCEPT ![g] = FALSE]
  /\ cancelRequested' = [cancelRequested EXCEPT ![g] = FALSE]
  /\ activeCount' = activeCount + 1
  /\ taskRuns' = [taskRuns EXCEPT ![g] = @ \cup {t}]
  /\ UNCHANGED <<pendingMessages, chatRuns, process, killed, closeFile>>

-----------------------------------------------------------------------------
(* Admission                                                               *)

\* Whether the run is stale (no sign of life for STALE_ACTIVE_MS) and whether
\* the signal cooldown has passed are questions about the clock, which the
\* model leaves open: an active run may be signalled at each check, or not.
SignalIfStale(g) == Signal(g) \/ UNCHANGED killed

\* Mutant: the slot of a run that looks wedged is cleared by force.
EnqueueForceClear(g) ==
  /\ RunForGroup(g)
  /\ UNCHANGED <<waitingGroups, pendingTasks, retryCount, ctlVars>>

\* Mutant: with every slot taken the chat is not put in the waiting line.
EnqueueWithoutLine(g) ==
  /\ IF active[g] \/ ~SlotFree
     THEN /\ pendingMessages' = [pendingMessages EXCEPT ![g] = TRUE]
          /\ UNCHANGED <<flagVars, runVars, procVars>>
     ELSE RunForGroup(g)
  /\ UNCHANGED <<waitingGroups, pendingTasks, retryCount, ctlVars>>

EnqueueMessageCheck(g) ==
  /\ \/ /\ active[g]
        /\ SignalIfStale(g)
        /\ pendingMessages' = [pendingMessages EXCEPT ![g] = TRUE]
        /\ CloseStdin({h \in {g} : idleWaiting[h]})
        /\ UNCHANGED <<flagVars, runVars, process, idleWaiting, waitingGroups>>
     \/ /\ ~active[g]
        /\ ~SlotFree
        /\ pendingMessages' = [pendingMessages EXCEPT ![g] = TRUE]
        /\ waitingGroups' = AppendNew(waitingGroups, g)
        /\ UNCHANGED <<flagVars, runVars, procVars>>
     \/ /\ ~active[g]
        /\ SlotFree
        /\ RunForGroup(g)
        /\ UNCHANGED waitingGroups
  /\ UNCHANGED <<pendingTasks, retryCount, ctlVars>>

\* A message arrives; refused, without a trace, while shutting down.
MessageArrives(g) ==
  /\ Accepting
  /\ EnqueueMessageCheck(g)
  /\ UNCHANGED retryTimers

\* A duplicate, or any task while shutting down, is refused without a trace.
EnqueueTask(g, t) ==
  /\ Accepting
  /\ ~HasTask(g, t)
  /\ \/ /\ active[g]
        /\ pendingTasks' = [pendingTasks EXCEPT ![g] = Append(@, t)]
        /\ CloseStdin({h \in {g} : idleWaiting[h]})
        /\ UNCHANGED <<flagVars, runVars, process, killed, idleWaiting,
                       waitingGroups, pendingMessages>>
     \/ /\ ~active[g]
        /\ ~SlotFree
        /\ pendingTasks' = [pendingTasks EXCEPT ![g] = Append(@, t)]
        /\ waitingGroups' = AppendNew(waitingGroups, g)
        /\ UNCHANGED <<flagVars, runVars, procVars, pendingMessages>>
     \/ /\ ~active[g]
        /\ SlotFree
        /\ RunTask(g, t)
        /\ UNCHANGED <<pendingTasks, waitingGroups>>
  /\ UNCHANGED <<retryVars, ctlVars>>

\* The callback armed by scheduleRetry.
RetryTimer(g) ==
  /\ Ready
  /\ retryTimers[g] > 0
  /\ retryTimers' = [retryTimers EXCEPT ![g] = @ - 1]
  /\ IF shuttingDown
     THEN UNCHANGED <<flagVars, workVars, runVars, procVars, ctlVars, retryCount>>
     ELSE EnqueueMessageCheck(g)

-----------------------------------------------------------------------------
(* Callbacks of a run in flight                                            *)

\* Mutant: a stop that came before the registration is not repeated.
RegisterWithoutStop(g) ==
  /\ Ready /\ HasRun(g) /\ ~idleWaiting[g]
  /\ process' = [process EXCEPT ![g] = TRUE]
  /\ closeFile' = [closeFile EXCEPT ![g] = FALSE]
  /\ UNCHANGED <<flagVars, workVars, retryVars, runVars, ctlVars, idleWaiting, killed>>

\* A process registers once its runner is spawned, and the runner removes a
\* stale _close file when it boots.  A fallback runtime registers a second
\* process within the same run; neither happens once the runner is idle.
RegisterProcess(g) ==
  /\ Ready /\ HasRun(g) /\ ~idleWaiting[g]
  /\ process' = [process EXCEPT ![g] = TRUE]
  /\ killed' = [killed EXCEPT ![g] = cancelRequested[g] /\ ~isTaskContainer[g]]
  /\ closeFile' = [closeFile EXCEPT ![g] = FALSE]
  /\ UNCHANGED <<flagVars, workVars, retryVars, runVars, ctlVars, idleWaiting>>

\* The runner boots some time after the registration: a _close file written
\* in between is removed with the stale ones.
RunnerBoot(g) ==
  /\ Ready /\ process[g] /\ closeFile[g] /\ ~idleWaiting[g]
  /\ closeFile' = [closeFile EXCEPT ![g] = FALSE]
  /\ UNCHANGED <<flagVars, workVars, retryVars, runVars, ctlVars, process,
                 killed, idleWaiting>>

\* Mutant: an idle runner is not told about the tasks that wait.
NotifyIdleKeepsStdin(g) ==
  /\ Ready /\ HasRun(g) /\ process[g]
  /\ idleWaiting' = [idleWaiting EXCEPT ![g] = TRUE]
  /\ UNCHANGED <<flagVars, workVars, retryVars, runVars, ctlVars, process,
                 killed, closeFile>>

\* The runner reported the end of a turn and waits for a follow-up.
NotifyIdle(g) ==
  /\ Ready /\ HasRun(g) /\ process[g]
  /\ idleWaiting' = [idleWaiting EXCEPT ![g] = TRUE]
  /\ CloseStdin({h \in {g} : pendingTasks[h] # <<>>})
  /\ UNCHANGED <<flagVars, workVars, retryVars, runVars, ctlVars, process, killed>>

\* closeStdin called by the message loop and the task scheduler: the current
\* turn is the runner's last.
CloseRequested(g) ==
  /\ Ready /\ HasRun(g)
  /\ CloseStdin({g})
  /\ UNCHANGED <<flagVars, workVars, retryVars, runVars, ctlVars, process,
                 killed, idleWaiting>>

\* sendMessage, with canPipeMessage before it: a stale run gets the message
\* as pending work and a signal, any other chat run gets it piped.
SendMessage(g) ==
  /\ Ready
  /\ active[g] /\ process[g] /\ ~isTaskContainer[g]
  /\ \/ /\ idleWaiting' = [idleWaiting EXCEPT ![g] = FALSE]
        /\ UNCHANGED <<pendingMessages, killed>>
     \/ /\ pendingMessages' = [pendingMessages EXCEPT ![g] = TRUE]
        /\ SignalIfStale(g)
        /\ UNCHANGED idleWaiting
  /\ UNCHANGED <<flagVars, pendingTasks, waitingGroups, retryVars, runVars,
                 ctlVars, process, closeFile>>

\* noteFollowUpTurnStarted
FollowUpTurnStarted(g) ==
  /\ Ready /\ active[g]
  /\ idleWaiting' = [idleWaiting EXCEPT ![g] = FALSE]
  /\ UNCHANGED <<flagVars, workVars, retryVars, runVars, ctlVars, process,
                 killed, closeFile>>

-----------------------------------------------------------------------------
(* Owner and admin commands                                                *)

\* cancelActiveChatRun ("stop"); a scheduled task is protected from it.
CancelActiveChatRun(g) ==
  /\ Ready
  /\ active[g] /\ ~isTaskContainer[g]
  /\ cancelRequested' = [cancelRequested EXCEPT ![g] = TRUE]
  /\ pendingMessages' = [pendingMessages EXCEPT ![g] = FALSE]
  /\ Signal(g)
  /\ UNCHANGED <<active, isTaskContainer, runningTaskId, activeCount,
                 pendingTasks, waitingGroups, retryVars, runVars, ctlVars,
                 process, closeFile, idleWaiting>>

ForceUnstick(g) ==
  /\ Ready
  /\ active[g]
  /\ pendingMessages' = [pendingMessages EXCEPT ![g] = TRUE]
  /\ Signal(g)
  /\ UNCHANGED <<flagVars, pendingTasks, waitingGroups, retryVars, runVars,
                 ctlVars, process, closeFile, idleWaiting>>

Shutdown ==
  /\ Accepting
  /\ shuttingDown' = TRUE
  /\ UNCHANGED <<flagVars, workVars, retryVars, runVars, procVars, draining>>

-----------------------------------------------------------------------------
(* The end of a run and the drain loops                                    *)

\* Mutant: one retry too many.
ScheduleRetryOffByOne(g) ==
  IF retryCount[g] <= MaxRetries
  THEN /\ retryTimers[g] < MaxTimers
       /\ retryCount' = [retryCount EXCEPT ![g] = @ + 1]
       /\ retryTimers' = [retryTimers EXCEPT ![g] = @ + 1]
  ELSE /\ retryCount' = [retryCount EXCEPT ![g] = 0]
       /\ UNCHANGED retryTimers

\* Past the budget the count starts over and nothing is armed.
ScheduleRetry(g) ==
  IF retryCount[g] < MaxRetries
  THEN /\ retryTimers[g] < MaxTimers   \* bound of the model
       /\ retryCount' = [retryCount EXCEPT ![g] = @ + 1]
       /\ retryTimers' = [retryTimers EXCEPT ![g] = @ + 1]
  ELSE /\ retryCount' = [retryCount EXCEPT ![g] = 0]
       /\ UNCHANGED retryTimers

\* The `finally` blocks: the slot is free, drainGroup is next.  A _close file
\* that is left behind is removed by the next runner's boot.
ReleaseSlot(g) ==
  /\ active' = [active EXCEPT ![g] = FALSE]
  /\ process' = [process EXCEPT ![g] = FALSE]
  /\ killed' = [killed EXCEPT ![g] = FALSE]
  /\ closeFile' = [closeFile EXCEPT ![g] = FALSE]
  /\ cancelRequested' = [cancelRequested EXCEPT ![g] = FALSE]
  /\ activeCount' = activeCount - 1
  /\ draining' = g
  /\ UNCHANGED <<workVars, idleWaiting, shuttingDown>>

\* Mutant: a stopped run keeps the retry count of the turns before it.
ChatRunEndsKeepsCount(g, success) ==
  /\ Ready
  /\ chatRuns[g] > 0
  /\ chatRuns' = [chatRuns EXCEPT ![g] = @ - 1]
  /\ IF cancelRequested[g]
     THEN UNCHANGED retryVars
     ELSE IF success
     THEN retryCount' = [retryCount EXCEPT ![g] = 0] /\ UNCHANGED retryTimers
     ELSE ScheduleRetry(g)
  /\ ReleaseSlot(g)
  /\ UNCHANGED <<isTaskContainer, runningTaskId, taskRuns>>

\* processMessagesFn answered true, answered false, or threw; a stopped run
\* is never retried.
ChatRunEnds(g, success) ==
  /\ Ready
  /\ chatRuns[g] > 0
  /\ chatRuns' = [chatRuns EXCEPT ![g] = @ - 1]
  /\ IF cancelRequested[g] \/ success
     THEN /\ retryCount' = [retryCount EXCEPT ![g] = 0]
          /\ UNCHANGED retryTimers
     ELSE ScheduleRetry(g)
  /\ ReleaseSlot(g)
  /\ UNCHANGED <<isTaskContainer, runningTaskId, taskRuns>>

TaskRunEnds(g, t) ==
  /\ Ready
  /\ t \in taskRuns[g]
  /\ taskRuns' = [taskRuns EXCEPT ![g] = @ \ {t}]
  /\ isTaskContainer' = [isTaskContainer EXCEPT ![g] = FALSE]
  /\ runningTaskId' = [runningTaskId EXCEPT ![g] = NoTask]
  /\ ReleaseSlot(g)
  /\ UNCHANGED <<retryVars, chatRuns>>

\* The next work of g: its tasks come before its messages.
StartOwnWork(g) ==
  IF pendingTasks[g] # <<>>
  THEN /\ RunTask(g, Head(pendingTasks[g]))
       /\ pendingTasks' = [pendingTasks EXCEPT ![g] = Tail(@)]
  ELSE /\ RunForGroup(g)
       /\ UNCHANGED pendingTasks

NothingStarts ==
  UNCHANGED <<flagVars, runVars, procVars, pendingMessages, pendingTasks>>

\* Mutant: the chat takes its own slot back while others wait.
DrainGroupGreedy(g) ==
  /\ draining = g
  /\ IF HasWork(g)
     THEN StartOwnWork(g) /\ UNCHANGED waitingGroups /\ draining' = "idle"
     ELSE NothingStarts /\ UNCHANGED waitingGroups /\ draining' = "waiting"
  /\ UNCHANGED <<retryVars, shuttingDown>>

\* Mutant: a chat without work of its own leaves the others waiting.
DrainGroupStops(g) ==
  /\ draining = g
  /\ IF HasWork(g) /\ waitingGroups = <<>>
     THEN StartOwnWork(g) /\ UNCHANGED waitingGroups
     ELSE NothingStarts /\ UNCHANGED waitingGroups
  /\ draining' = "idle"
  /\ UNCHANGED <<retryVars, shuttingDown>>

\* A chat with work of its own goes behind the chats that already wait.
DrainGroup(g) ==
  /\ draining = g
  /\ IF shuttingDown
     THEN NothingStarts /\ UNCHANGED waitingGroups /\ draining' = "idle"
     ELSE IF HasWork(g) /\ waitingGroups = <<>>
     THEN StartOwnWork(g) /\ UNCHANGED waitingGroups /\ draining' = "idle"
     ELSE /\ NothingStarts
          /\ waitingGroups' = IF HasWork(g) THEN AppendNew(waitingGroups, g)
                                            ELSE waitingGroups
          /\ draining' = "waiting"
  /\ UNCHANGED <<retryVars, shuttingDown>>

\* One iteration of the loop of drainWaiting, or its exit.
DrainWaiting ==
  /\ draining = "waiting"
  /\ IF waitingGroups # <<>> /\ SlotFree
     THEN LET g == Head(waitingGroups)
          IN /\ waitingGroups' = Tail(waitingGroups)
             /\ IF HasWork(g) THEN StartOwnWork(g) ELSE NothingStarts
             /\ UNCHANGED draining
     ELSE /\ draining' = "idle"
          /\ NothingStarts
          /\ UNCHANGED waitingGroups
  /\ UNCHANGED <<retryVars, shuttingDown>>

-----------------------------------------------------------------------------
RunEnds(g) == \/ \E success \in BOOLEAN : ChatRunEnds(g, success)
              \/ \E t \in Tasks : TaskRunEnds(g, t)

Drain == DrainWaiting \/ \E g \in Groups : DrainGroup(g)

GroupStep(g) ==
  \/ MessageArrives(g)
  \/ \E t \in Tasks : EnqueueTask(g, t)
  \/ RetryTimer(g)
  \/ RegisterProcess(g)
  \/ RunnerBoot(g)
  \/ NotifyIdle(g)
  \/ CloseRequested(g)
  \/ SendMessage(g)
  \/ FollowUpTurnStarted(g)
  \/ CancelActiveChatRun(g)
  \/ ForceUnstick(g)
  \/ RunEnds(g)

Next == Shutdown \/ Drain \/ \E g \in Groups : GroupStep(g)

Spec == Init /\ [][Next]_vars

\* Every run ends: the runtime kills a runner at its timeout and processMessages
\* and a task's closure settle after that.  The drain loops are synchronous and
\* an armed timer fires.
Fairness == /\ WF_vars(Drain)
            /\ \A g \in Groups : /\ WF_vars(RunEnds(g))
                                 /\ WF_vars(RetryTimer(g))

FairSpec == Spec /\ Fairness
-----------------------------------------------------------------------------
(* Properties                                                              *)

\* Every variable has its type.
TypeOK ==
  /\ active \in [Groups -> BOOLEAN]
  /\ isTaskContainer \in [Groups -> BOOLEAN]
  /\ runningTaskId \in [Groups -> Tasks \cup {NoTask}]
  /\ pendingMessages \in [Groups -> BOOLEAN]
  /\ pendingTasks \in [Groups -> Seq(Tasks)]
  /\ idleWaiting \in [Groups -> BOOLEAN]
  /\ process \in [Groups -> BOOLEAN]
  /\ cancelRequested \in [Groups -> BOOLEAN]
  /\ retryCount \in [Groups -> 0..MaxRetries]
  /\ activeCount \in Int
  /\ waitingGroups \in Seq(Groups)
  /\ shuttingDown \in BOOLEAN
  /\ retryTimers \in [Groups -> 0..MaxTimers]
  /\ draining \in Groups \cup {"idle", "waiting"}
  /\ chatRuns \in [Groups -> Nat]
  /\ taskRuns \in [Groups -> SUBSET Tasks]
  /\ killed \in [Groups -> BOOLEAN]
  /\ closeFile \in [Groups -> BOOLEAN]

Busy == {g \in Groups : HasRun(g)}

\* One run per chat (the isolation the comment in enqueueMessageCheck is
\* about): the coroutines in flight are exactly the one the flags describe,
\* whatever signals, stops, timers and late callbacks came in between.
OneRunPerGroup ==
  \A g \in Groups :
    /\ chatRuns[g] = IF active[g] /\ ~isTaskContainer[g] THEN 1 ELSE 0
    /\ taskRuns[g] = IF active[g] /\ isTaskContainer[g] THEN {runningTaskId[g]} ELSE {}

\* activeCount never drifts from the runs really in flight, and these never
\* exceed MAX_CONCURRENT_CONTAINERS.
SlotLimit ==
  /\ activeCount = Cardinality(Busy)
  /\ Cardinality(Busy) <= MaxConcurrent

\* No lost wake-up: between two callbacks a chat with pending work and no run
\* is in waitingGroups, and a chat waits only while every slot is taken.
WorkConserving ==
  Accepting =>
    /\ \A g \in Groups : HasWork(g) /\ ~active[g] => InSeq(g, waitingGroups)
    /\ waitingGroups # <<>> => activeCount >= MaxConcurrent

\* The waiting line holds a chat once, and never a chat that already runs:
\* drainWaiting starts what it takes from the line without looking.
WaitingLineSound ==
  /\ \A i, j \in 1..Len(waitingGroups) :
       waitingGroups[i] = waitingGroups[j] => i = j
  /\ \A i \in 1..Len(waitingGroups) : ~active[waitingGroups[i]]

\* A scheduled task is held once: running, or pending at one place.
TaskHeldOnce ==
  \A g \in Groups :
    /\ \A i, j \in 1..Len(pendingTasks[g]) :
         pendingTasks[g][i] = pendingTasks[g][j] => i = j
    /\ \A i \in 1..Len(pendingTasks[g]) : pendingTasks[g][i] # runningTaskId[g]

\* A failed turn is never forgotten: until a later turn succeeds, is stopped or
\* the budget runs out, a retry timer is armed, or a chat run is in flight or
\* pending.
FailedTurnRemembered ==
  \A g \in Groups :
    retryCount[g] > 0 /\ ~shuttingDown =>
      retryTimers[g] > 0 \/ chatRuns[g] > 0 \/ pendingMessages[g]

\* A stop reaches the runner in both orders of the race between the owner's
\* "stop" and the registration of the process; a task never gets one.
StopReachesProcess ==
  \A g \in Groups :
    cancelRequested[g] => /\ chatRuns[g] > 0
                          /\ process[g] => killed[g]

\* A runner that only waits for a follow-up gives its slot to a waiting task:
\* it has been told to close, whichever of the two came first.
IdleRunYieldsToTask ==
  \A g \in Groups :
    active[g] /\ idleWaiting[g] /\ process[g] /\ pendingTasks[g] # <<>> => closeFile[g]

\* A slot goes to the head of the waiting line when there is one: a chat that
\* keeps feeding itself work cannot pass the chats that wait (the comment in
\* drainGroup).
NoBarging ==
  [][\A g \in Groups : active'[g] /\ ~active[g]
        => waitingGroups = <<>> \/ g = Head(waitingGroups)]_vars

\* The queue implements the abstract slots.
Slots == INSTANCE RunSlots
           WITH holder <- [g \in Groups |-> IF taskRuns[g] # {} THEN "task"
                                            ELSE IF chatRuns[g] > 0 THEN "chat"
                                            ELSE "none"],
                line   <- waitingGroups

\* Every behaviour of the queue, seen as slots and a waiting line, is one of
\* RunSlots: one slot per chat, the limit, and first come first served, at
\* every step of the drain loops.
ImplementsRunSlots == Slots!Spec

\* A chat in the waiting line gets a slot, unless the queue shuts down.
WaitersServed ==
  \A g \in Groups : InSeq(g, waitingGroups) ~> (active[g] \/ shuttingDown)

\* Pending messages get a chat run, are dropped by a stop, or meet a shutdown;
\* only scheduled tasks of the same chat can hold them back for ever.
MessagesServed ==
  \A g \in Groups :
    \/ pendingMessages[g] ~> (~pendingMessages[g] \/ shuttingDown)
    \/ []<>(active[g] /\ isTaskContainer[g])
=============================================================================
