-------------------------- MODULE GroupQueueProofs --------------------------
(* Theorems about GroupQueue for every value of its constants.             *)
EXTENDS GroupQueue, FiniteSetTheorems, TLAPS

USE LimitsAssumption

LEMMA AppendNewType ==
  ASSUME NEW S, NEW s \in Seq(S), NEW x \in S
  PROVE  AppendNew(s, x) \in Seq(S)
  BY DEF AppendNew

\* Starting a run keeps the types of everything it touches.
StartedOK ==
  /\ active' \in [Groups -> BOOLEAN]
  /\ isTaskContainer' \in [Groups -> BOOLEAN]
  /\ runningTaskId' \in [Groups -> Tasks \cup {NoTask}]
  /\ pendingMessages' \in [Groups -> BOOLEAN]
  /\ idleWaiting' \in [Groups -> BOOLEAN]
  /\ process' \in [Groups -> BOOLEAN]
  /\ cancelRequested' \in [Groups -> BOOLEAN]
  /\ activeCount' \in Int
  /\ chatRuns' \in [Groups -> Nat]
  /\ taskRuns' \in [Groups -> SUBSET Tasks]
  /\ killed' \in [Groups -> BOOLEAN]
  /\ closeFile' \in [Groups -> BOOLEAN]

LEMMA RunForGroupType ==
  ASSUME TypeOK, NEW g \in Groups, RunForGroup(g)
  PROVE  StartedOK
  BY DEF TypeOK, RunForGroup, StartedOK

LEMMA RunTaskType ==
  ASSUME TypeOK, NEW g \in Groups, NEW t \in Tasks, RunTask(g, t)
  PROVE  StartedOK
  BY DEF TypeOK, RunTask, StartedOK

LEMMA StartOwnWorkType ==
  ASSUME TypeOK, NEW g \in Groups, StartOwnWork(g)
  PROVE  StartedOK /\ pendingTasks' \in [Groups -> Seq(Tasks)]
  <1>1. CASE pendingTasks[g] # <<>>
    <2>1. Head(pendingTasks[g]) \in Tasks /\ Tail(pendingTasks[g]) \in Seq(Tasks)
      BY <1>1 DEF TypeOK
    <2>2. RunTask(g, Head(pendingTasks[g]))
          /\ pendingTasks' = [pendingTasks EXCEPT ![g] = Tail(@)]
      BY <1>1 DEF StartOwnWork
    <2>3. QED
      BY <2>1, <2>2, RunTaskType DEF TypeOK
  <1>2. CASE pendingTasks[g] = <<>>
    BY <1>2, RunForGroupType DEF StartOwnWork, TypeOK
  <1>3. QED
    BY <1>1, <1>2

LEMMA NothingStartsType ==
  ASSUME TypeOK, NothingStarts
  PROVE  StartedOK /\ pendingTasks' \in [Groups -> Seq(Tasks)]
  BY DEF TypeOK, NothingStarts, StartedOK, flagVars, runVars, procVars

LEMMA EnqueueMessageCheckType ==
  ASSUME TypeOK, NEW g \in Groups, EnqueueMessageCheck(g)
  PROVE  /\ StartedOK
         /\ pendingTasks' \in [Groups -> Seq(Tasks)]
         /\ waitingGroups' \in Seq(Groups)
         /\ retryCount' = retryCount
         /\ UNCHANGED ctlVars
  <1>1. UNCHANGED <<pendingTasks, retryCount, ctlVars>>
    BY DEF EnqueueMessageCheck
  <1>2. CASE active[g]
    BY <1>1, <1>2 DEF EnqueueMessageCheck, TypeOK, StartedOK, flagVars, runVars,
                 SignalIfStale, Signal, CloseStdin
  <1>3. CASE ~active[g] /\ ~SlotFree
    <2>1. AppendNew(waitingGroups, g) \in Seq(Groups)
      BY AppendNewType DEF TypeOK
    <2>2. /\ pendingMessages' = [pendingMessages EXCEPT ![g] = TRUE]
          /\ waitingGroups' = AppendNew(waitingGroups, g)
          /\ UNCHANGED <<flagVars, runVars, procVars>>
      BY <1>3 DEF EnqueueMessageCheck
    <2>3. QED
      BY <1>1, <2>1, <2>2 DEF TypeOK, StartedOK, flagVars, runVars, procVars
  <1>4. CASE ~active[g] /\ SlotFree
    <2>1. RunForGroup(g) /\ UNCHANGED waitingGroups
      BY <1>4 DEF EnqueueMessageCheck
    <2>2. QED
      BY <1>1, <2>1, RunForGroupType DEF TypeOK
  <1>5. QED
    BY <1>2, <1>3, <1>4

\* So does the end of a run, whatever kind of run it was.
ReleasedOK(g) ==
  /\ active' \in [Groups -> BOOLEAN]
  /\ process' \in [Groups -> BOOLEAN]
  /\ killed' \in [Groups -> BOOLEAN]
  /\ closeFile' \in [Groups -> BOOLEAN]
  /\ cancelRequested' \in [Groups -> BOOLEAN]
  /\ activeCount' \in Int
  /\ draining' = g
  /\ UNCHANGED <<workVars, idleWaiting, shuttingDown>>

LEMMA ReleaseSlotType ==
  ASSUME TypeOK, NEW g \in Groups, ReleaseSlot(g)
  PROVE  ReleasedOK(g)
  BY DEF TypeOK, ReleaseSlot, ReleasedOK

\* Each step keeps the types: one step per action.
LEMMA TypeStep == TypeOK /\ [Next]_vars => TypeOK'
  <1> SUFFICES ASSUME TypeOK, [Next]_vars PROVE TypeOK'
    OBVIOUS
  <1> USE DEF flagVars, workVars, retryVars, runVars, procVars, ctlVars
  <1>1. CASE UNCHANGED vars
    BY <1>1 DEF TypeOK, vars
  <1>2. CASE Shutdown
    BY <1>2 DEF TypeOK, Shutdown
  <1>3. CASE DrainWaiting
    <2>1. waitingGroups # <<>> => /\ Head(waitingGroups) \in Groups
                                  /\ Tail(waitingGroups) \in Seq(Groups)
      BY DEF TypeOK
    <2>2. StartedOK /\ pendingTasks' \in [Groups -> Seq(Tasks)]
      <3>1. NothingStarts \/ (waitingGroups # <<>> /\ StartOwnWork(Head(waitingGroups)))
        BY <1>3 DEF DrainWaiting
      <3>2. QED
        BY <2>1, <3>1, StartOwnWorkType, NothingStartsType
    <2>3. /\ waitingGroups' \in Seq(Groups)
          /\ draining' \in {"idle", "waiting"}
          /\ UNCHANGED <<retryCount, retryTimers, shuttingDown>>
      BY <1>3, <2>1 DEF DrainWaiting, TypeOK
    <2>4. QED
      BY <2>2, <2>3 DEF TypeOK, StartedOK
  <1>4. ASSUME NEW g \in Groups, DrainGroup(g) PROVE TypeOK'
    <2>2. StartedOK /\ pendingTasks' \in [Groups -> Seq(Tasks)]
      BY <1>4, StartOwnWorkType, NothingStartsType DEF DrainGroup
    <2>3. /\ waitingGroups' \in Seq(Groups)
          /\ draining' \in {"idle", "waiting"}
          /\ UNCHANGED <<retryCount, retryTimers, shuttingDown>>
      BY <1>4, AppendNewType DEF DrainGroup, TypeOK
    <2>4. QED
      BY <2>2, <2>3 DEF TypeOK, StartedOK
  <1>5. ASSUME NEW g \in Groups, GroupStep(g) PROVE TypeOK'
    <2>1. CASE MessageArrives(g)
      BY <2>1, EnqueueMessageCheckType DEF MessageArrives, TypeOK, StartedOK
    <2>2. ASSUME NEW t \in Tasks, EnqueueTask(g, t) PROVE TypeOK'
      <3>1. UNCHANGED <<retryVars, ctlVars>>
        BY <2>2 DEF EnqueueTask
      <3> DEFINE longer == [pendingTasks EXCEPT ![g] = Append(@, t)]
      <3>a. longer \in [Groups -> Seq(Tasks)]
        BY DEF TypeOK
      <3>b. AppendNew(waitingGroups, g) \in Seq(Groups)
        BY AppendNewType DEF TypeOK
      <3>2. CASE active[g]
        <4>1. /\ pendingTasks' = longer
              /\ CloseStdin({h \in {g} : idleWaiting[h]})
              /\ UNCHANGED <<flagVars, runVars, process, killed, idleWaiting,
                             waitingGroups, pendingMessages>>
          BY <2>2, <3>2 DEF EnqueueTask
        <4> HIDE DEF longer
        <4>2. QED
          BY <3>1, <3>a, <4>1 DEF TypeOK, CloseStdin
      <3>3. CASE ~active[g] /\ ~SlotFree
        <4>1. /\ pendingTasks' = longer
              /\ waitingGroups' = AppendNew(waitingGroups, g)
              /\ UNCHANGED <<flagVars, runVars, procVars, pendingMessages>>
          BY <2>2, <3>3 DEF EnqueueTask
        <4> HIDE DEF longer
        <4>2. QED
          BY <3>1, <3>a, <3>b, <4>1 DEF TypeOK
      <3>4. CASE ~active[g] /\ SlotFree
        BY <2>2, <3>1, <3>4, RunTaskType DEF EnqueueTask, TypeOK, StartedOK
      <3>5. QED
        BY <3>2, <3>3, <3>4
    <2>3. CASE RetryTimer(g)
      <3>1. retryTimers' \in [Groups -> 0..MaxTimers]
        BY <2>3 DEF RetryTimer, TypeOK
      <3>2. CASE shuttingDown
        BY <2>3, <3>1, <3>2 DEF RetryTimer, TypeOK
      <3>3. CASE ~shuttingDown
        BY <2>3, <3>1, <3>3, EnqueueMessageCheckType DEF RetryTimer, TypeOK, StartedOK
      <3>4. QED
        BY <3>2, <3>3
    <2>4. CASE RegisterProcess(g)
      BY <2>4 DEF RegisterProcess, TypeOK
    <2>5. CASE RunnerBoot(g)
      BY <2>5 DEF RunnerBoot, TypeOK
    <2>6. CASE NotifyIdle(g)
      BY <2>6 DEF NotifyIdle, TypeOK, CloseStdin
    <2>7. CASE CloseRequested(g)
      BY <2>7 DEF CloseRequested, TypeOK, CloseStdin
    <2>8. CASE SendMessage(g)
      BY <2>8 DEF SendMessage, TypeOK, SignalIfStale, Signal
    <2>9. CASE FollowUpTurnStarted(g)
      BY <2>9 DEF FollowUpTurnStarted, TypeOK
    <2>10. CASE CancelActiveChatRun(g)
      BY <2>10 DEF CancelActiveChatRun, TypeOK, Signal
    <2>11. CASE ForceUnstick(g)
      BY <2>11 DEF ForceUnstick, TypeOK, Signal
    <2>12. ASSUME NEW success \in BOOLEAN, ChatRunEnds(g, success) PROVE TypeOK'
      <3>1. ReleaseSlot(g) /\ UNCHANGED <<isTaskContainer, runningTaskId, taskRuns>>
        BY <2>12 DEF ChatRunEnds
      <3>2. chatRuns' \in [Groups -> Nat]
        <4>1. chatRuns[g] - 1 \in Nat /\ chatRuns' = [chatRuns EXCEPT ![g] = @ - 1]
          BY <2>12 DEF ChatRunEnds, TypeOK
        <4>2. QED
          BY <4>1 DEF TypeOK
      <3>3. /\ retryCount' \in [Groups -> 0..MaxRetries]
            /\ retryTimers' \in [Groups -> 0..MaxTimers]
        <4>1. \/ /\ retryCount' = [retryCount EXCEPT ![g] = 0]
                 /\ retryTimers' = retryTimers
              \/ ScheduleRetry(g)
          BY <2>12 DEF ChatRunEnds
        <4>2. retryCount[g] \in 0..MaxRetries /\ retryTimers[g] \in 0..MaxTimers
          BY DEF TypeOK
        <4>3. 0 \in 0..MaxRetries /\ (retryCount[g] < MaxRetries => retryCount[g] + 1 \in 0..MaxRetries)
          BY <4>2
        <4>4. retryTimers[g] < MaxTimers => retryTimers[g] + 1 \in 0..MaxTimers
          BY <4>2
        <4>5. CASE /\ retryTimers[g] < MaxTimers /\ retryCount[g] < MaxRetries
                   /\ retryCount' = [retryCount EXCEPT ![g] = @ + 1]
                   /\ retryTimers' = [retryTimers EXCEPT ![g] = @ + 1]
          <5>1. \A n \in 0..MaxRetries : [retryCount EXCEPT ![g] = n] \in [Groups -> 0..MaxRetries]
            BY DEF TypeOK
          <5>2. \A n \in 0..MaxTimers : [retryTimers EXCEPT ![g] = n] \in [Groups -> 0..MaxTimers]
            BY DEF TypeOK
          <5>3. QED
            BY <4>3, <4>4, <4>5, <5>1, <5>2
        <4>6. CASE /\ retryCount' = [retryCount EXCEPT ![g] = 0]
                   /\ retryTimers' = retryTimers
          BY <4>3, <4>6 DEF TypeOK
        <4>7. QED
          BY <4>1, <4>5, <4>6 DEF ScheduleRetry
      <3>4. ReleasedOK(g)
        BY <3>1, ReleaseSlotType
      <3>5. QED
        BY <3>1, <3>2, <3>3, <3>4 DEF ReleasedOK, TypeOK
    <2>13. ASSUME NEW t \in Tasks, TaskRunEnds(g, t) PROVE TypeOK'
      BY <2>13, ReleaseSlotType DEF TaskRunEnds, ReleasedOK, TypeOK
    <2>14. QED
      BY <1>5, <2>1, <2>2, <2>3, <2>4, <2>5, <2>6, <2>7, <2>8, <2>9, <2>10, <2>11,
         <2>12, <2>13 DEF GroupStep, RunEnds
  <1>6. QED
    BY <1>1, <1>2, <1>3, <1>4, <1>5 DEF Next, Drain

LEMMA TypeInit == Init => TypeOK
  <1> SUFFICES ASSUME Init PROVE TypeOK
    OBVIOUS
  <1>1. pendingTasks \in [Groups -> Seq(Tasks)] /\ waitingGroups \in Seq(Groups)
    BY DEF Init
  <1>2. retryCount \in [Groups -> 0..MaxRetries] /\ retryTimers \in [Groups -> 0..MaxTimers]
    BY DEF Init
  <1>3. chatRuns \in [Groups -> Nat] /\ taskRuns \in [Groups -> SUBSET Tasks]
    BY DEF Init
  <1>4. runningTaskId \in [Groups -> Tasks \cup {NoTask}]
    BY DEF Init
  <1>5. /\ active \in [Groups -> BOOLEAN] /\ isTaskContainer \in [Groups -> BOOLEAN]
        /\ pendingMessages \in [Groups -> BOOLEAN] /\ idleWaiting \in [Groups -> BOOLEAN]
        /\ process \in [Groups -> BOOLEAN] /\ cancelRequested \in [Groups -> BOOLEAN]
        /\ killed \in [Groups -> BOOLEAN] /\ closeFile \in [Groups -> BOOLEAN]
    BY DEF Init
  <1>6. activeCount \in Int
    BY DEF Init
  <1>7. shuttingDown \in BOOLEAN /\ draining \in Groups \cup {"idle", "waiting"}
    BY Zenon DEF Init
  <1>8. QED
    BY <1>1, <1>2, <1>3, <1>4, <1>5, <1>6, <1>7 DEF TypeOK

\* Every variable of the queue keeps its type in every behaviour: among others
\* the retry count never passes MAX_RETRIES.
THEOREM TypeCorrect == Spec => []TypeOK
  BY TypeInit, TypeStep, PTL DEF Spec

-----------------------------------------------------------------------------
(* The inductive invariant of the slots.  OneRunPerGroup, SlotLimit,       *)
(* WorkConserving and WaitingLineSound do not carry themselves: they need  *)
(* the agreement of the flags, and what is true at the control points of   *)
(* the drain loops.                                                        *)

Holders == {g \in Groups : active[g]}

FlagsAgree ==
  \A g \in Groups : /\ isTaskContainer[g] => active[g]
                    /\ isTaskContainer[g] <=> runningTaskId[g] # NoTask

CountAgrees == activeCount = Cardinality(Holders) /\ activeCount <= MaxConcurrent

\* What waits in the line is idle and has work.
LineIdle ==
  \A i \in 1..Len(waitingGroups) : /\ ~active[waitingGroups[i]]
                                   /\ HasWork(waitingGroups[i])

LineOnce ==
  \A i, j \in 1..Len(waitingGroups) : waitingGroups[i] = waitingGroups[j] => i = j

\* drainGroup is entered with the slot of its chat just released.
DrainPoint == draining \in Groups => ~active[draining] /\ activeCount < MaxConcurrent

\* The waiting line and the slots between two callbacks.
LineOnlyWhenFull ==
  draining = "idle" /\ ~shuttingDown /\ waitingGroups # <<>>
    => activeCount >= MaxConcurrent

\* Work is held by a run, by the line, or by the chat being drained.
WorkIsHeld ==
  ~shuttingDown => \A g \in Groups : HasWork(g) /\ ~active[g] /\ draining # g
                                       => InSeq(g, waitingGroups)

IInv == /\ TypeOK
        /\ OneRunPerGroup
        /\ FlagsAgree
        /\ CountAgrees
        /\ LineIdle
        /\ LineOnce
        /\ DrainPoint
        /\ LineOnlyWhenFull
        /\ WorkIsHeld

(* What a step can do to the slots and the waiting line.                   *)

slotVars == <<active, isTaskContainer, runningTaskId, activeCount, chatRuns, taskRuns>>

Served(g) == \/ waitingGroups = <<>> /\ waitingGroups' = <<>>
             \/ /\ waitingGroups # <<>>
                /\ g = Head(waitingGroups)
                /\ waitingGroups' = Tail(waitingGroups)

Starts(g) == /\ ~active[g]
             /\ activeCount < MaxConcurrent
             /\ RunForGroup(g) \/ \E t \in Tasks : RunTask(g, t)
             /\ Served(g)

Ends(g) == /\ active[g]
           /\ ReleaseSlot(g)
           /\ \/ /\ ~isTaskContainer[g]
                 /\ chatRuns' = [chatRuns EXCEPT ![g] = 0]
                 /\ UNCHANGED <<isTaskContainer, runningTaskId, taskRuns>>
              \/ /\ isTaskContainer[g]
                 /\ taskRuns' = [taskRuns EXCEPT ![g] = {}]
                 /\ isTaskContainer' = [isTaskContainer EXCEPT ![g] = FALSE]
                 /\ runningTaskId' = [runningTaskId EXCEPT ![g] = NoTask]
                 /\ UNCHANGED chatRuns

Joins(g) == /\ ~active[g]
            /\ HasWork(g)'
            /\ ~InSeq(g, waitingGroups)
            /\ draining = "idle" => ~SlotFree
            /\ waitingGroups' = Append(waitingGroups, g)
            /\ UNCHANGED slotVars

Stays == UNCHANGED <<slotVars, waitingGroups>>

Moves(g) == Stays \/ Starts(g) \/ Ends(g) \/ Joins(g)

LEMMA EnqueueMessageCheckMoves ==
  ASSUME IInv, NEW g \in Groups, EnqueueMessageCheck(g), draining = "idle", ~shuttingDown
  PROVE  Moves(g)
  <1>1. CASE active[g]
    BY <1>1 DEF EnqueueMessageCheck, Moves, Stays, slotVars, flagVars, runVars
  <1>2. CASE ~active[g] /\ ~SlotFree
    <2>1. /\ pendingMessages' = [pendingMessages EXCEPT ![g] = TRUE]
          /\ waitingGroups' = AppendNew(waitingGroups, g)
          /\ UNCHANGED <<flagVars, runVars, procVars, pendingTasks>>
      BY <1>2 DEF EnqueueMessageCheck
    <2>2. HasWork(g)'
      BY <2>1 DEF HasWork, IInv, TypeOK
    <2>3. QED
      BY <1>2, <2>1, <2>2 DEF AppendNew, Moves, Joins, Stays, slotVars, flagVars, runVars
  <1>3. CASE ~active[g] /\ SlotFree
    <2>1. RunForGroup(g) /\ UNCHANGED waitingGroups /\ activeCount < MaxConcurrent
      BY <1>3 DEF EnqueueMessageCheck, SlotFree
    <2>2. waitingGroups = <<>>
      BY <2>1 DEF IInv, LineOnlyWhenFull, TypeOK
    <2>3. QED
      BY <1>3, <2>1, <2>2 DEF Moves, Starts, Served
  <1>4. QED
    BY <1>1, <1>2, <1>3

LEMMA EnqueueTaskMoves ==
  ASSUME IInv, NEW g \in Groups, NEW t \in Tasks, EnqueueTask(g, t)
  PROVE  Moves(g)
  <1>1. CASE active[g]
    BY <1>1 DEF EnqueueTask, Moves, Stays, slotVars, flagVars, runVars
  <1>2. CASE ~active[g] /\ ~SlotFree
    <2>1. /\ pendingTasks' = [pendingTasks EXCEPT ![g] = Append(@, t)]
          /\ waitingGroups' = AppendNew(waitingGroups, g)
          /\ UNCHANGED <<flagVars, runVars, procVars, pendingMessages>>
      BY <1>2 DEF EnqueueTask
    <2>2. Append(pendingTasks[g], t) # <<>>
      <3>1. pendingTasks[g] \in Seq(Tasks)
        BY DEF IInv, TypeOK
      <3>2. QED
        BY <3>1
    <2>3. HasWork(g)'
      BY <2>1, <2>2 DEF HasWork, IInv, TypeOK
    <2>4. QED
      BY <1>2, <2>1, <2>3 DEF AppendNew, Moves, Joins, Stays, slotVars, flagVars, runVars
  <1>3. CASE ~active[g] /\ SlotFree
    <2>1. RunTask(g, t) /\ UNCHANGED waitingGroups /\ activeCount < MaxConcurrent
      BY <1>3 DEF EnqueueTask, SlotFree
    <2>2. waitingGroups = <<>>
      BY <2>1 DEF IInv, LineOnlyWhenFull, TypeOK, EnqueueTask, Accepting, Ready
    <2>3. QED
      BY <1>3, <2>1, <2>2 DEF Moves, Starts, Served
  <1>4. QED
    BY <1>1, <1>2, <1>3

LEMMA StartOwnWorkStarts ==
  ASSUME TypeOK, NEW g \in Groups, StartOwnWork(g)
  PROVE  RunForGroup(g) \/ \E t \in Tasks : RunTask(g, t)
  <1>1. pendingTasks[g] # <<>> => Head(pendingTasks[g]) \in Tasks
    BY DEF TypeOK
  <1>2. QED
    BY <1>1 DEF StartOwnWork

LEMMA DrainMoves ==
  ASSUME IInv, Drain
  PROVE  Stays \/ \E g \in Groups : Moves(g)
  <1>1. ASSUME NEW g \in Groups, DrainGroup(g) PROVE Moves(g)
    <2>1. ~active[g] /\ activeCount < MaxConcurrent
      BY <1>1 DEF DrainGroup, IInv, DrainPoint
    <2>2. CASE StartOwnWork(g) /\ HasWork(g) /\ waitingGroups = <<>> /\ UNCHANGED waitingGroups
      BY <2>1, <2>2, StartOwnWorkStarts DEF IInv, Moves, Starts, Served
    <2>3. CASE NothingStarts /\ HasWork(g) /\ waitingGroups' = AppendNew(waitingGroups, g)
      <3>1. HasWork(g)'
        BY <2>3 DEF NothingStarts, HasWork
      <3>2. draining # "idle"
        BY <1>1, GroupsAssumption DEF DrainGroup
      <3>3. QED
        BY <2>1, <2>3, <3>1, <3>2 DEF NothingStarts, AppendNew, Moves, Joins, Stays, slotVars,
                                flagVars, runVars
    <2>4. CASE NothingStarts /\ UNCHANGED waitingGroups
      BY <2>4 DEF NothingStarts, Moves, Stays, slotVars, flagVars, runVars
    <2>5. QED
      BY <1>1, <2>2, <2>3, <2>4 DEF DrainGroup
  <1>2. ASSUME DrainWaiting, waitingGroups # <<>>, SlotFree
        PROVE  \E g \in Groups : Moves(g)
    <2> DEFINE g == Head(waitingGroups)
    <2>1. g \in Groups /\ 1 \in 1..Len(waitingGroups) /\ g = waitingGroups[1]
      BY <1>2 DEF IInv, TypeOK
    <2>2. ~active[g] /\ HasWork(g)
      BY <2>1 DEF IInv, LineIdle
    <2>3. StartOwnWork(g) /\ waitingGroups' = Tail(waitingGroups)
      BY <1>2, <2>2 DEF DrainWaiting
    <2> HIDE DEF g
    <2>4. RunForGroup(g) \/ \E t \in Tasks : RunTask(g, t)
      BY <2>1, <2>3, StartOwnWorkStarts DEF IInv
    <2>5. Served(g)
      BY <1>2, <2>3 DEF Served, g
    <2>6. QED
      BY <1>2, <2>1, <2>2, <2>4, <2>5 DEF Moves, Starts, SlotFree
  <1>3. ASSUME DrainWaiting, ~(waitingGroups # <<>> /\ SlotFree)
        PROVE  Stays
    BY <1>3 DEF DrainWaiting, NothingStarts, Stays, slotVars, flagVars, runVars
  <1>4. QED
    <2>1. CASE \E g \in Groups : DrainGroup(g)
      BY <1>1, <2>1
    <2>2. CASE DrainWaiting
      BY <1>2, <1>3, <2>2
    <2>3. QED
      BY <2>1, <2>2 DEF Drain

LEMMA RunEndsMoves ==
  ASSUME IInv, NEW g \in Groups, RunEnds(g)
  PROVE  Ends(g)
  <1>1. ASSUME NEW success \in BOOLEAN, ChatRunEnds(g, success) PROVE Ends(g)
    <2>1. chatRuns[g] > 0
      BY <1>1 DEF ChatRunEnds
    <2>2. active[g] /\ ~isTaskContainer[g] /\ chatRuns[g] = 1
      BY <2>1 DEF IInv, TypeOK, OneRunPerGroup, FlagsAgree
    <2>3. chatRuns' = [chatRuns EXCEPT ![g] = 0]
      BY <1>1, <2>2 DEF ChatRunEnds
    <2>4. ReleaseSlot(g) /\ UNCHANGED <<isTaskContainer, runningTaskId, taskRuns>>
      BY <1>1 DEF ChatRunEnds
    <2>5. QED
      BY <2>2, <2>3, <2>4 DEF Ends
  <1>2. ASSUME NEW t \in Tasks, TaskRunEnds(g, t) PROVE Ends(g)
    <2>1. t \in taskRuns[g]
      BY <1>2 DEF TaskRunEnds
    <2>2. active[g] /\ isTaskContainer[g] /\ taskRuns[g] = {t}
      BY <2>1 DEF IInv, TypeOK, OneRunPerGroup, FlagsAgree
    <2>3. QED
      BY <1>2, <2>2 DEF TaskRunEnds, Ends
  <1>3. QED
    BY <1>1, <1>2 DEF RunEnds

\* The callbacks and commands that neither start nor end a run.
Aside(g) ==
  \/ RegisterProcess(g) \/ RunnerBoot(g) \/ NotifyIdle(g) \/ CloseRequested(g)
  \/ SendMessage(g) \/ FollowUpTurnStarted(g) \/ CancelActiveChatRun(g) \/ ForceUnstick(g)

LEMMA AsideStays ==
  ASSUME NEW g \in Groups, Aside(g)
  PROVE  Stays
  BY DEF Aside, RegisterProcess, RunnerBoot, NotifyIdle, CloseRequested, SendMessage,
         FollowUpTurnStarted, CancelActiveChatRun, ForceUnstick, Stays, slotVars,
         flagVars, workVars, runVars

\* Every step leaves slots and line alone, or starts a run, ends one, or lets
\* one chat join the line.
LEMMA SlotStep ==
  ASSUME IInv, [Next]_vars
  PROVE  Stays \/ \E g \in Groups : Starts(g) \/ Ends(g) \/ Joins(g)
  <1>1. CASE UNCHANGED vars
    BY <1>1 DEF vars, flagVars, workVars, runVars, Stays, slotVars
  <1>2. CASE Shutdown
    BY <1>2 DEF Shutdown, flagVars, workVars, runVars, Stays, slotVars
  <1>3. CASE Drain
    BY <1>3, DrainMoves DEF Moves
  <1>4. ASSUME NEW g \in Groups, GroupStep(g) PROVE Moves(g)
    <2>1. CASE MessageArrives(g)
      BY <2>1, EnqueueMessageCheckMoves DEF MessageArrives, Accepting, Ready
    <2>2. CASE \E t \in Tasks : EnqueueTask(g, t)
      BY <2>2, EnqueueTaskMoves
    <2>3. CASE RetryTimer(g)
      <3>1. CASE shuttingDown
        BY <2>3, <3>1 DEF RetryTimer, Moves, Stays, slotVars, flagVars, workVars, runVars
      <3>2. CASE ~shuttingDown
        BY <2>3, <3>2, EnqueueMessageCheckMoves DEF RetryTimer, Ready
      <3>3. QED
        BY <3>1, <3>2
    <2>4. CASE RunEnds(g)
      BY <2>4, RunEndsMoves DEF Moves
    <2>5. CASE Aside(g)
      BY <2>5, AsideStays DEF Moves
    <2>6. QED
      BY <1>4, <2>1, <2>2, <2>3, <2>4, <2>5 DEF GroupStep, Aside
  <1>5. QED
    BY <1>1, <1>2, <1>3, <1>4 DEF Next, Moves

-----------------------------------------------------------------------------
(* The parts of the inductive invariant that follow from SlotStep.         *)

LEMMA RunsStep ==
  ASSUME IInv, [Next]_vars
  PROVE  OneRunPerGroup' /\ FlagsAgree'
  <1>1. CASE Stays
    BY <1>1 DEF IInv, TypeOK, OneRunPerGroup, FlagsAgree, Stays, slotVars
  <1>2. ASSUME NEW g \in Groups, ~active[g], RunForGroup(g)
        PROVE  OneRunPerGroup' /\ FlagsAgree'
    <2>1. ~isTaskContainer[g] /\ chatRuns[g] = 0 /\ taskRuns[g] = {} /\ runningTaskId[g] = NoTask
      BY <1>2 DEF IInv, TypeOK, OneRunPerGroup, FlagsAgree
    <2>2. /\ active' = [active EXCEPT ![g] = TRUE]
          /\ isTaskContainer' = [isTaskContainer EXCEPT ![g] = FALSE]
          /\ chatRuns' = [chatRuns EXCEPT ![g] = @ + 1]
          /\ UNCHANGED <<runningTaskId, taskRuns>>
      BY <1>2 DEF RunForGroup
    <2>3. OneRunPerGroup'
      BY <2>1, <2>2 DEF IInv, TypeOK, OneRunPerGroup
    <2>4. FlagsAgree'
      <3> SUFFICES ASSUME NEW h \in Groups
                   PROVE  /\ isTaskContainer'[h] => active'[h]
                          /\ isTaskContainer'[h] <=> runningTaskId'[h] # NoTask
        BY DEF FlagsAgree
      <3>1. CASE h = g
        BY <2>1, <2>2, <3>1 DEF IInv, TypeOK
      <3>2. CASE h # g
        <4>1. active'[h] = active[h] /\ isTaskContainer'[h] = isTaskContainer[h]
              /\ runningTaskId'[h] = runningTaskId[h]
          BY <2>2, <3>2 DEF IInv, TypeOK
        <4>2. QED
          BY <4>1 DEF IInv, FlagsAgree
      <3>3. QED
        BY <3>1, <3>2
    <2>5. QED
      BY <2>3, <2>4
  <1>3. ASSUME NEW g \in Groups, NEW t \in Tasks, ~active[g], RunTask(g, t)
        PROVE  OneRunPerGroup' /\ FlagsAgree'
    <2>1. chatRuns[g] = 0 /\ taskRuns[g] = {} /\ t # NoTask
      BY <1>3, TasksAssumption DEF IInv, TypeOK, OneRunPerGroup, FlagsAgree
    <2>2. taskRuns[g] \cup {t} = {t}
      BY <2>1
    <2>3. QED
      BY <1>3, <2>1, <2>2 DEF RunTask, IInv, TypeOK, OneRunPerGroup, FlagsAgree
  <1>4. ASSUME NEW g \in Groups, Ends(g)
        PROVE  OneRunPerGroup' /\ FlagsAgree'
    <2>1. active' = [active EXCEPT ![g] = FALSE]
      BY <1>4 DEF Ends, ReleaseSlot
    <2>2. /\ active'[g] = FALSE /\ isTaskContainer'[g] = FALSE
          /\ runningTaskId'[g] = NoTask
          /\ chatRuns'[g] = 0 /\ taskRuns'[g] = {}
      BY <1>4, <2>1 DEF Ends, IInv, TypeOK, OneRunPerGroup, FlagsAgree
    <2>3. ASSUME NEW h \in Groups, h # g
          PROVE  /\ active'[h] = active[h] /\ isTaskContainer'[h] = isTaskContainer[h]
                 /\ runningTaskId'[h] = runningTaskId[h]
                 /\ chatRuns'[h] = chatRuns[h] /\ taskRuns'[h] = taskRuns[h]
      BY <1>4, <2>1, <2>3 DEF Ends, IInv, TypeOK
    <2>4. OneRunPerGroup'
      BY <2>2, <2>3 DEF IInv, OneRunPerGroup
    <2>5. FlagsAgree'
      BY <2>2, <2>3 DEF IInv, FlagsAgree
    <2>6. QED
      BY <2>4, <2>5
  <1>5. ASSUME NEW g \in Groups, Joins(g)
        PROVE  OneRunPerGroup' /\ FlagsAgree'
    BY <1>5 DEF Joins, slotVars, IInv, TypeOK, OneRunPerGroup, FlagsAgree
  <1>6. QED
    BY <1>1, <1>2, <1>3, <1>4, <1>5, SlotStep DEF Starts

LEMMA HoldersFinite == IsFiniteSet(Holders)
  BY GroupsAssumption, FS_Subset DEF Holders

LEMMA CountStep ==
  ASSUME IInv, [Next]_vars
  PROVE  CountAgrees'
  <1> USE DEF IInv, TypeOK, CountAgrees
  <1>1. CASE Stays
    BY <1>1 DEF Stays, slotVars, Holders
  <1>2. ASSUME NEW g \in Groups, Starts(g) PROVE CountAgrees'
    <2>1. active' = [active EXCEPT ![g] = TRUE] /\ activeCount' = activeCount + 1
      BY <1>2 DEF Starts, RunForGroup, RunTask
    <2>2. Holders' = Holders \cup {g} /\ g \notin Holders
      BY <1>2, <2>1 DEF Holders, Starts
    <2>3. Cardinality(Holders') = Cardinality(Holders) + 1
      BY <2>2, HoldersFinite, FS_AddElement
    <2>4. QED
      BY <1>2, <2>1, <2>3 DEF Starts
  <1>3. ASSUME NEW g \in Groups, Ends(g) PROVE CountAgrees'
    <2>1. active' = [active EXCEPT ![g] = FALSE] /\ activeCount' = activeCount - 1
      BY <1>3 DEF Ends, ReleaseSlot
    <2>2. Holders' = Holders \ {g} /\ g \in Holders
      BY <1>3, <2>1 DEF Holders, Ends
    <2>3. Cardinality(Holders') = Cardinality(Holders) - 1
      BY <2>2, HoldersFinite, FS_RemoveElement
    <2>4. QED
      BY <2>1, <2>3
  <1>4. ASSUME NEW g \in Groups, Joins(g) PROVE CountAgrees'
    BY <1>4 DEF Joins, slotVars, Holders
  <1>5. QED
    BY <1>1, <1>2, <1>3, <1>4, SlotStep

-----------------------------------------------------------------------------
(* The waiting line and the work that is pending.                          *)

LEMMA StartOwnWorkWork ==
  ASSUME TypeOK, NEW g \in Groups, NEW h \in Groups, StartOwnWork(g)
  PROVE  /\ active' = [active EXCEPT ![g] = TRUE]
         /\ h # g => (HasWork(h)' <=> HasWork(h))
  BY DEF TypeOK, StartOwnWork, RunForGroup, RunTask, HasWork

LEMMA EnqueueMessageCheckWork ==
  ASSUME IInv, NEW g \in Groups, NEW h \in Groups, EnqueueMessageCheck(g), ~active'[h]
  PROVE  /\ HasWork(h) => HasWork(h)'
         /\ HasWork(h)' => HasWork(h) \/ InSeq(h, waitingGroups')
  <1>1. CASE active[g]
    BY <1>1 DEF IInv, TypeOK, HasWork, EnqueueMessageCheck, flagVars
  <1>2. CASE ~active[g] /\ ~SlotFree
    <2>1. InSeq(g, AppendNew(waitingGroups, g))
      <3>1. waitingGroups \in Seq(Groups)
        BY DEF IInv, TypeOK
      <3>2. QED
        BY <3>1 DEF InSeq, AppendNew
    <2>2. /\ pendingMessages' = [pendingMessages EXCEPT ![g] = TRUE]
          /\ waitingGroups' = AppendNew(waitingGroups, g)
          /\ UNCHANGED pendingTasks
      BY <1>2 DEF EnqueueMessageCheck
    <2>3. CASE h = g
      BY <2>1, <2>2, <2>3 DEF IInv, TypeOK, HasWork
    <2>4. CASE h # g
      BY <2>2, <2>4 DEF IInv, TypeOK, HasWork
    <2>5. QED
      BY <2>3, <2>4
  <1>3. CASE ~active[g] /\ SlotFree
    BY <1>3 DEF IInv, TypeOK, HasWork, EnqueueMessageCheck, RunForGroup
  <1>4. QED
    BY <1>1, <1>2, <1>3

LEMMA EnqueueTaskWork ==
  ASSUME IInv, NEW g \in Groups, NEW h \in Groups, NEW t \in Tasks,
         EnqueueTask(g, t), ~active'[h]
  PROVE  /\ HasWork(h) => HasWork(h)'
         /\ HasWork(h)' => HasWork(h) \/ InSeq(h, waitingGroups')
  <1>1. CASE active[g]
    <2>1. /\ pendingTasks' = [pendingTasks EXCEPT ![g] = Append(@, t)]
          /\ UNCHANGED <<active, pendingMessages>>
      BY <1>1 DEF EnqueueTask, flagVars
    <2>2. h # g
      BY <1>1, <2>1
    <2>3. pendingTasks'[h] = pendingTasks[h]
      BY <2>1, <2>2 DEF IInv, TypeOK
    <2>4. QED
      BY <2>1, <2>3 DEF HasWork
  <1>2. CASE ~active[g] /\ ~SlotFree
    <2>1. /\ pendingTasks' = [pendingTasks EXCEPT ![g] = Append(@, t)]
          /\ waitingGroups' = AppendNew(waitingGroups, g)
          /\ UNCHANGED pendingMessages
      BY <1>2 DEF EnqueueTask
    <2>2. waitingGroups \in Seq(Groups)
      BY DEF IInv, TypeOK
    <2>3. InSeq(g, AppendNew(waitingGroups, g))
      BY <2>2 DEF InSeq, AppendNew
    <2>4. Append(pendingTasks[g], t) # <<>>
      <3>1. pendingTasks[g] \in Seq(Tasks)
        BY DEF IInv, TypeOK
      <3>2. QED
        BY <3>1
    <2>5. CASE h = g
      BY <2>1, <2>3, <2>4, <2>5 DEF HasWork, IInv, TypeOK
    <2>6. CASE h # g
      <3>1. pendingTasks'[h] = pendingTasks[h]
        BY <2>1, <2>6 DEF IInv, TypeOK
      <3>2. QED
        BY <2>1, <3>1 DEF HasWork
    <2>7. QED
      BY <2>5, <2>6
  <1>3. CASE ~active[g] /\ SlotFree
    <2>1. RunTask(g, t) /\ UNCHANGED pendingTasks
      BY <1>3 DEF EnqueueTask
    <2>2. QED
      BY <2>1 DEF RunTask, HasWork
  <1>4. QED
    BY <1>1, <1>2, <1>3

LEMMA AsideWork ==
  ASSUME IInv, NEW g \in Groups, NEW h \in Groups, Aside(g), ~active'[h]
  PROVE  HasWork(h)' <=> HasWork(h)
  <1> USE DEF IInv, TypeOK, HasWork
  <1>1. CASE \/ RegisterProcess(g) \/ RunnerBoot(g) \/ NotifyIdle(g)
             \/ CloseRequested(g) \/ FollowUpTurnStarted(g)
    BY <1>1 DEF RegisterProcess, RunnerBoot, NotifyIdle, CloseRequested,
                FollowUpTurnStarted, workVars
  <1>2. CASE SendMessage(g) \/ CancelActiveChatRun(g) \/ ForceUnstick(g)
    BY <1>2 DEF SendMessage, CancelActiveChatRun, ForceUnstick, flagVars
  <1>3. QED
    BY <1>1, <1>2 DEF Aside

\* The work of a chat without a run changes only by being started, and is new
\* only together with a place in the line.
LEMMA WorkStep ==
  ASSUME IInv, [Next]_vars, NEW h \in Groups, ~active'[h]
  PROVE  /\ HasWork(h) => HasWork(h)'
         /\ HasWork(h)' => HasWork(h) \/ InSeq(h, waitingGroups')
  <1>1. CASE UNCHANGED vars
    BY <1>1 DEF vars, workVars, HasWork
  <1>2. CASE Shutdown
    BY <1>2 DEF Shutdown, workVars, HasWork
  <1>3. CASE Drain
    <2>1. CASE NothingStarts
      BY <2>1 DEF NothingStarts, HasWork
    <2>2. ASSUME NEW g \in Groups, StartOwnWork(g)
          PROVE  HasWork(h)' <=> HasWork(h)
      BY <2>2, StartOwnWorkWork DEF IInv, TypeOK
    <2>3. waitingGroups # <<>> => Head(waitingGroups) \in Groups
      BY DEF IInv, TypeOK
    <2>4. QED
      BY <1>3, <2>1, <2>2, <2>3 DEF Drain, DrainGroup, DrainWaiting
  <1>4. ASSUME NEW g \in Groups, GroupStep(g)
        PROVE  /\ HasWork(h) => HasWork(h)'
               /\ HasWork(h)' => HasWork(h) \/ InSeq(h, waitingGroups')
    <2>1. CASE MessageArrives(g)
      BY <2>1, EnqueueMessageCheckWork DEF MessageArrives
    <2>2. CASE \E t \in Tasks : EnqueueTask(g, t)
      BY <2>2, EnqueueTaskWork
    <2>3. CASE RetryTimer(g)
      BY <2>3, EnqueueMessageCheckWork DEF RetryTimer, workVars, HasWork
    <2>4. CASE RunEnds(g)
      BY <2>4, RunEndsMoves DEF Ends, ReleaseSlot, workVars, HasWork
    <2>5. CASE Aside(g)
      BY <2>5, AsideWork
    <2>6. QED
      BY <1>4, <2>1, <2>2, <2>3, <2>4, <2>5 DEF GroupStep, Aside
  <1>5. QED
    BY <1>1, <1>2, <1>3, <1>4 DEF Next

(* The line: each part of the invariant that speaks of it.                 *)

LEMMA InSeqAppend ==
  ASSUME NEW S, NEW s \in Seq(S), NEW x \in S, NEW y
  PROVE  InSeq(y, Append(s, x)) <=> InSeq(y, s) \/ y = x
  <1>1. /\ Len(Append(s, x)) = Len(s) + 1 /\ Len(s) \in Nat
        /\ \A i \in 1..Len(s) : Append(s, x)[i] = s[i]
        /\ Append(s, x)[Len(s) + 1] = x
    OBVIOUS
  <1>2. ASSUME InSeq(y, Append(s, x)) PROVE InSeq(y, s) \/ y = x
    <2>1. PICK i \in 1..(Len(s) + 1) : Append(s, x)[i] = y
      BY <1>1, <1>2 DEF InSeq
    <2>2. CASE i \in 1..Len(s)
      BY <1>1, <2>1, <2>2 DEF InSeq
    <2>3. CASE i = Len(s) + 1
      BY <1>1, <2>1, <2>3
    <2>4. QED
      BY <1>1, <2>2, <2>3
  <1>3. ASSUME InSeq(y, s) PROVE InSeq(y, Append(s, x))
    <2>1. PICK i \in 1..Len(s) : s[i] = y
      BY <1>3 DEF InSeq
    <2>2. i \in 1..(Len(s) + 1) /\ Append(s, x)[i] = y
      BY <1>1, <2>1
    <2>3. QED
      BY <1>1, <2>2 DEF InSeq
  <1>4. InSeq(x, Append(s, x))
    <2>1. Len(s) + 1 \in 1..Len(Append(s, x))
      BY <1>1
    <2>2. QED
      BY <1>1, <2>1 DEF InSeq
  <1>5. QED
    BY <1>2, <1>3, <1>4

LEMMA InSeqTail ==
  ASSUME NEW S, NEW s \in Seq(S), s # <<>>, NEW y
  PROVE  InSeq(y, s) <=> y = Head(s) \/ InSeq(y, Tail(s))
  <1>1. /\ Len(Tail(s)) = Len(s) - 1
        /\ \A i \in 1..Len(Tail(s)) : Tail(s)[i] = s[i + 1]
        /\ Head(s) = s[1] /\ Len(s) \in Nat /\ Len(s) >= 1
    OBVIOUS
  <1>2. ASSUME InSeq(y, s) PROVE y = Head(s) \/ InSeq(y, Tail(s))
    <2>1. PICK i \in 1..Len(s) : s[i] = y
      BY <1>2 DEF InSeq
    <2>2. CASE i = 1
      BY <1>1, <2>1, <2>2
    <2>3. CASE i # 1
      <3>1. i - 1 \in 1..Len(Tail(s)) /\ Tail(s)[i - 1] = y
        BY <1>1, <2>1, <2>3
      <3>2. QED
        BY <3>1 DEF InSeq
    <2>4. QED
      BY <2>2, <2>3
  <1>3. ASSUME InSeq(y, Tail(s)) PROVE InSeq(y, s)
    <2>1. PICK i \in 1..Len(Tail(s)) : Tail(s)[i] = y
      BY <1>3 DEF InSeq
    <2>2. i + 1 \in 1..Len(s) /\ s[i + 1] = y
      BY <1>1, <2>1
    <2>3. QED
      BY <2>2 DEF InSeq
  <1>4. ASSUME y = Head(s) PROVE InSeq(y, s)
    BY <1>1, <1>4 DEF InSeq
  <1>5. QED
    BY <1>2, <1>3, <1>4

\* What a line without repetitions looks like after one step of its own.
Once(s) == \A i, j \in 1..Len(s) : s[i] = s[j] => i = j

LEMMA OnceAppend ==
  ASSUME NEW S, NEW s \in Seq(S), NEW x \in S, Once(s), ~InSeq(x, s)
  PROVE  Once(Append(s, x))
  <1>1. /\ Len(Append(s, x)) = Len(s) + 1 /\ Len(s) \in Nat
        /\ \A i \in 1..Len(s) : Append(s, x)[i] = s[i]
        /\ Append(s, x)[Len(s) + 1] = x
    OBVIOUS
  <1>2. \A i \in 1..Len(s) : s[i] # x
    BY DEF InSeq
  <1>3. SUFFICES ASSUME NEW i \in 1..(Len(s) + 1), NEW j \in 1..(Len(s) + 1),
                        Append(s, x)[i] = Append(s, x)[j]
                 PROVE  i = j
    BY <1>1 DEF Once
  <1>4. CASE i = Len(s) + 1 \/ j = Len(s) + 1
    BY <1>1, <1>2, <1>3, <1>4
  <1>5. CASE i \in 1..Len(s) /\ j \in 1..Len(s)
    BY <1>1, <1>3, <1>5 DEF Once
  <1>6. QED
    BY <1>1, <1>4, <1>5

LEMMA OnceTail ==
  ASSUME NEW S, NEW s \in Seq(S), s # <<>>, Once(s)
  PROVE  Once(Tail(s)) /\ ~InSeq(Head(s), Tail(s))
  <1>1. /\ Len(Tail(s)) = Len(s) - 1
        /\ \A i \in 1..Len(Tail(s)) : Tail(s)[i] = s[i + 1]
        /\ Head(s) = s[1] /\ Len(s) \in Nat /\ Len(s) >= 1
    OBVIOUS
  <1>2. \A i \in 1..Len(Tail(s)) : i + 1 \in 1..Len(s)
    BY <1>1
  <1>3. Once(Tail(s))
    <2> SUFFICES ASSUME NEW i \in 1..Len(Tail(s)), NEW j \in 1..Len(Tail(s)),
                        Tail(s)[i] = Tail(s)[j]
                 PROVE  i = j
      BY DEF Once
    <2>1. s[i + 1] = s[j + 1] /\ i + 1 \in 1..Len(s) /\ j + 1 \in 1..Len(s)
      BY <1>1, <1>2
    <2>2. i + 1 = j + 1
      BY <2>1 DEF Once
    <2>3. QED
      BY <1>1, <2>2
  <1>4. ASSUME NEW i \in 1..Len(Tail(s)), Tail(s)[i] = Head(s) PROVE FALSE
    <2>1. s[i + 1] = s[1] /\ i + 1 \in 1..Len(s) /\ 1 \in 1..Len(s)
      BY <1>1, <1>2, <1>4
    <2>2. i + 1 = 1
      BY <2>1 DEF Once
    <2>3. QED
      BY <1>1, <2>2
  <1>5. QED
    BY <1>3, <1>4 DEF InSeq

LEMMA LineStep ==
  ASSUME IInv, [Next]_vars
  PROVE  LineOnce' /\ LineIdle'
  <1> DEFINE line == waitingGroups
  <1>1. line \in Seq(Groups) /\ Once(line)
        /\ \A h \in Groups : InSeq(h, line) => ~active[h] /\ HasWork(h)
    BY DEF IInv, TypeOK, LineOnce, Once, LineIdle, InSeq
  <1>2. ASSUME line' \in Seq(Groups), Once(line'),
               \A h \in Groups : InSeq(h, line') => ~active'[h] /\ HasWork(h)'
        PROVE  LineOnce' /\ LineIdle'
    BY <1>2 DEF LineOnce, Once, LineIdle, InSeq
  <1>3. line' \in Seq(Groups)
    BY TypeStep DEF IInv, TypeOK
  <1>4. active \in [Groups -> BOOLEAN]
    BY DEF IInv, TypeOK
  <1> HIDE DEF line
  <1>5. CASE Stays
    <2>1. line' = line /\ active' = active
      BY <1>5 DEF Stays, slotVars, line
    <2>2. QED
      BY <1>1, <1>2, <1>3, <2>1, WorkStep
  <1>6. ASSUME NEW g \in Groups, Starts(g) PROVE LineOnce' /\ LineIdle'
    <2>1. active' = [active EXCEPT ![g] = TRUE] /\ ~active[g]
      BY <1>6 DEF Starts, RunForGroup, RunTask
    <2>2. Once(line') /\ ~InSeq(g, line') /\ \A h \in Groups : InSeq(h, line') => InSeq(h, line)
      <3>1. CASE line = <<>> /\ line' = <<>>
        BY <3>1 DEF Once, InSeq
      <3>2. CASE line # <<>> /\ g = Head(line) /\ line' = Tail(line)
        BY <1>1, <3>2, OnceTail, InSeqTail
      <3>3. QED
        BY <1>6, <3>1, <3>2 DEF Starts, Served, line
    <2>3. QED
      BY <1>1, <1>2, <1>3, <1>4, <2>1, <2>2, WorkStep
  <1>7. ASSUME NEW g \in Groups, Ends(g) PROVE LineOnce' /\ LineIdle'
    <2>1. line' = line /\ active' = [active EXCEPT ![g] = FALSE]
      BY <1>7 DEF Ends, ReleaseSlot, workVars, line
    <2>2. QED
      BY <1>1, <1>2, <1>3, <1>4, <2>1, WorkStep
  <1>8. ASSUME NEW g \in Groups, Joins(g) PROVE LineOnce' /\ LineIdle'
    <2>1. line' = Append(line, g) /\ active' = active /\ ~InSeq(g, line) /\ ~active[g] /\ HasWork(g)'
      BY <1>8 DEF Joins, slotVars, line
    <2>2. Once(line')
      BY <1>1, <2>1, OnceAppend
    <2>3. \A h \in Groups : InSeq(h, line') => InSeq(h, line) \/ h = g
      BY <1>1, <2>1, InSeqAppend
    <2>4. QED
      BY <1>1, <1>2, <1>3, <2>1, <2>2, <2>3, WorkStep
  <1>9. QED
    BY <1>5, <1>6, <1>7, <1>8, SlotStep

-----------------------------------------------------------------------------
(* The control points of the drain loops.                                  *)

\* A step that is neither of a drain loop nor the end of a run is taken, and
\* ends, between two callbacks.
LEMMA ControlStep ==
  ASSUME IInv, [Next]_vars
  PROVE  \/ UNCHANGED vars
         \/ draining = "idle" /\ draining' = "idle"
         \/ \E g \in Groups : Ends(g) /\ draining = "idle" /\ draining' = g
         \/ Drain
  <1>1. ASSUME NEW g \in Groups, GroupStep(g), ~RunEnds(g)
        PROVE  draining = "idle" /\ draining' = "idle"
    <2>1. CASE MessageArrives(g) \/ \E t \in Tasks : EnqueueTask(g, t)
      BY <2>1 DEF MessageArrives, EnqueueTask, Accepting, Ready, EnqueueMessageCheck, ctlVars
    <2>2. CASE RetryTimer(g)
      BY <2>2 DEF RetryTimer, Ready, EnqueueMessageCheck, ctlVars
    <2>3. CASE Aside(g)
      BY <2>3 DEF Aside, RegisterProcess, RunnerBoot, NotifyIdle, CloseRequested, SendMessage,
              FollowUpTurnStarted, CancelActiveChatRun, ForceUnstick, Ready, ctlVars
    <2>4. QED
      BY <1>1, <2>1, <2>2, <2>3 DEF GroupStep, Aside
  <1>2. ASSUME NEW g \in Groups, RunEnds(g)
        PROVE  Ends(g) /\ draining = "idle" /\ draining' = g
    BY <1>2, RunEndsMoves DEF Ends, ReleaseSlot, RunEnds, ChatRunEnds, TaskRunEnds, Ready
  <1>3. CASE Shutdown
    BY <1>3 DEF Shutdown, Accepting, Ready
  <1>4. QED
    BY <1>1, <1>2, <1>3 DEF Next

LEMMA DrainPointStep ==
  ASSUME IInv, [Next]_vars
  PROVE  DrainPoint'
  <1>1. CASE UNCHANGED vars
    BY <1>1 DEF vars, ctlVars, flagVars, IInv, DrainPoint
  <1>2. CASE draining' = "idle"
    BY <1>2, GroupsAssumption DEF DrainPoint
  <1>3. ASSUME NEW g \in Groups, Ends(g), draining' = g PROVE DrainPoint'
    <2>1. active'[g] = FALSE
      BY <1>3 DEF Ends, ReleaseSlot, IInv, TypeOK
    <2>2. activeCount' = activeCount - 1 /\ activeCount <= MaxConcurrent /\ activeCount \in Int
      BY <1>3 DEF Ends, ReleaseSlot, IInv, TypeOK, CountAgrees
    <2>3. activeCount' < MaxConcurrent
      BY <2>2
    <2>4. QED
      BY <1>3, <2>1, <2>3 DEF DrainPoint
  <1>4. CASE Drain
    <2>1. draining' \in {"idle", "waiting"}
      BY <1>4 DEF Drain, DrainGroup, DrainWaiting
    <2>2. QED
      BY <2>1, GroupsAssumption DEF DrainPoint
  <1>5. QED
    BY <1>1, <1>2, <1>3, <1>4, ControlStep

LEMMA LineOnlyWhenFullStep ==
  ASSUME IInv, [Next]_vars
  PROVE  LineOnlyWhenFull'
  <1>1. CASE UNCHANGED vars
    BY <1>1 DEF vars, ctlVars, flagVars, workVars, IInv, LineOnlyWhenFull
  <1>2. CASE draining = "idle" /\ draining' = "idle"
    <2> SUFFICES ASSUME ~shuttingDown', waitingGroups' # <<>>
                 PROVE  activeCount' >= MaxConcurrent
      BY DEF LineOnlyWhenFull
    <2>1. ~shuttingDown
      <3>1. shuttingDown' = shuttingDown \/ Shutdown
        BY <1>2, GroupsAssumption
           DEF Next, Drain, DrainGroup, DrainWaiting, GroupStep, RunEnds, ChatRunEnds, TaskRunEnds,
               ReleaseSlot, MessageArrives, EnqueueTask, EnqueueMessageCheck, RetryTimer,
               RegisterProcess, RunnerBoot, NotifyIdle, CloseRequested, SendMessage,
               FollowUpTurnStarted, CancelActiveChatRun, ForceUnstick, ctlVars, vars
      <3>2. QED
        BY <3>1 DEF Shutdown
    <2>2. waitingGroups # <<>> => activeCount >= MaxConcurrent
      BY <1>2, <2>1 DEF IInv, LineOnlyWhenFull
    <2>3. CASE Stays
      BY <2>2, <2>3 DEF Stays, slotVars
    <2>4. ASSUME NEW g \in Groups, Starts(g) PROVE FALSE
      <3>1. activeCount < MaxConcurrent /\ activeCount \in Int
        BY <2>4 DEF Starts, IInv, TypeOK
      <3>2. waitingGroups = <<>>
        BY <2>2, <3>1
      <3>3. QED
        BY <2>4, <3>2 DEF Starts, Served
    <2>5. ASSUME NEW g \in Groups, Ends(g) PROVE FALSE
      BY <1>2, <2>5, GroupsAssumption DEF Ends, ReleaseSlot
    <2>6. ASSUME NEW g \in Groups, Joins(g) PROVE activeCount' >= MaxConcurrent
      BY <1>2, <2>6 DEF Joins, slotVars, SlotFree, IInv, TypeOK
    <2>7. QED
      BY <2>3, <2>4, <2>5, <2>6, SlotStep
  <1>3. ASSUME NEW g \in Groups, draining' = g PROVE LineOnlyWhenFull'
    BY <1>3, GroupsAssumption DEF LineOnlyWhenFull
  <1>4. CASE Drain
    <2>1. CASE DrainWaiting
      <3>1. draining' = "idle" => /\ ~(waitingGroups # <<>> /\ SlotFree)
                                  /\ UNCHANGED <<waitingGroups, activeCount>>
        BY <2>1 DEF DrainWaiting, NothingStarts, flagVars
      <3>2. QED
        BY <3>1 DEF LineOnlyWhenFull, SlotFree, IInv, TypeOK
    <2>2. ASSUME NEW g \in Groups, DrainGroup(g) PROVE LineOnlyWhenFull'
      <3>1. draining' = "idle" /\ ~shuttingDown' => waitingGroups' = <<>>
        BY <2>2 DEF DrainGroup
      <3>2. QED
        BY <3>1 DEF LineOnlyWhenFull
    <2>3. QED
      BY <1>4, <2>1, <2>2 DEF Drain
  <1>5. QED
    BY <1>1, <1>2, <1>3, <1>4, ControlStep

LEMMA WorkIsHeldStep ==
  ASSUME IInv, [Next]_vars
  PROVE  WorkIsHeld'
  <1> SUFFICES ASSUME ~shuttingDown', NEW h \in Groups, HasWork(h)', ~active'[h], draining' # h
               PROVE  InSeq(h, waitingGroups')
    BY DEF WorkIsHeld
  <1>1. CASE InSeq(h, waitingGroups')
    BY <1>1
  <1>2. CASE HasWork(h)
    <2>1. ~active[h]
      <3>1. ASSUME NEW g \in Groups, Ends(g) PROVE g # h
        BY <3>1 DEF Ends, ReleaseSlot
      <3>2. ASSUME NEW g \in Groups, Starts(g) PROVE ~active[h]
        BY <3>2 DEF Starts, RunForGroup, RunTask, IInv, TypeOK
      <3>3. ASSUME NEW g \in Groups, Ends(g), g # h PROVE ~active[h]
        BY <3>3 DEF Ends, ReleaseSlot, IInv, TypeOK
      <3>4. QED
        BY <3>1, <3>2, <3>3, SlotStep DEF Stays, Joins, slotVars
    <2>2. CASE draining # h
      <3>1. ~shuttingDown
        <4>1. shuttingDown => shuttingDown'
          BY DEF Next, Shutdown, Drain, DrainGroup, DrainWaiting, GroupStep, RunEnds, ChatRunEnds,
                 TaskRunEnds, ReleaseSlot, MessageArrives, EnqueueTask, EnqueueMessageCheck,
                 RetryTimer, RegisterProcess, RunnerBoot, NotifyIdle, CloseRequested, SendMessage,
                 FollowUpTurnStarted, CancelActiveChatRun, ForceUnstick, ctlVars, vars
        <4>2. QED
          BY <4>1
      <3>2. InSeq(h, waitingGroups) /\ waitingGroups \in Seq(Groups)
        BY <1>2, <2>1, <2>2, <3>1 DEF IInv, WorkIsHeld, TypeOK
      <3>3. CASE UNCHANGED waitingGroups
        BY <3>2, <3>3
      <3>4. ASSUME NEW g \in Groups, Joins(g) PROVE InSeq(h, waitingGroups')
        BY <3>2, <3>4, InSeqAppend DEF Joins
      <3>5. ASSUME NEW g \in Groups, Starts(g) PROVE InSeq(h, waitingGroups')
        <4>1. g # h
          BY <3>5 DEF Starts, RunForGroup, RunTask, IInv, TypeOK
        <4>2. waitingGroups # <<>>
          BY <3>2 DEF InSeq
        <4>3. g = Head(waitingGroups) /\ waitingGroups' = Tail(waitingGroups)
          BY <3>5, <4>2 DEF Starts, Served
        <4>4. QED
          BY <3>2, <4>1, <4>2, <4>3, InSeqTail
      <3>6. ASSUME NEW g \in Groups, Ends(g) PROVE UNCHANGED waitingGroups
        BY <3>6 DEF Ends, ReleaseSlot, workVars
      <3>7. QED
        BY <3>3, <3>4, <3>5, <3>6, SlotStep DEF Stays
    <2>3. CASE draining = h
      <3>1. DrainGroup(h)
        <4>1. draining # "idle" /\ draining # "waiting"
          BY <2>3, GroupsAssumption
        <4>2. ~UNCHANGED vars
          BY <2>3 DEF vars, ctlVars
        <4>3. Drain
          BY <4>1, <4>2, ControlStep
        <4>4. PICK g \in Groups : DrainGroup(g)
          BY <4>1, <4>3 DEF Drain, DrainWaiting
        <4>5. g = h
          BY <2>3, <4>4 DEF DrainGroup
        <4>6. QED
          BY <4>4, <4>5
      <3>2. ~StartOwnWork(h)
        BY StartOwnWorkWork DEF IInv, TypeOK
      <3>3. waitingGroups' = AppendNew(waitingGroups, h)
        BY <1>2, <3>1, <3>2 DEF DrainGroup
      <3>4. waitingGroups \in Seq(Groups)
        BY DEF IInv, TypeOK
      <3>5. QED
        BY <3>3, <3>4, InSeqAppend DEF AppendNew
    <2>4. QED
      BY <2>2, <2>3
  <1>3. QED
    BY <1>1, <1>2, WorkStep

-----------------------------------------------------------------------------
LEMMA IInvInit == Init => IInv
  <1> SUFFICES ASSUME Init PROVE IInv
    OBVIOUS
  <1>1. TypeOK
    BY TypeInit
  <1>2. OneRunPerGroup /\ FlagsAgree /\ DrainPoint /\ WorkIsHeld
    BY GroupsAssumption DEF Init, OneRunPerGroup, FlagsAgree, DrainPoint, WorkIsHeld, HasWork
  <1>3. CountAgrees
    <2>1. Holders = {}
      BY DEF Init, Holders
    <2>2. QED
      BY <2>1, FS_EmptySet DEF Init, CountAgrees
  <1>4. LineIdle /\ LineOnce /\ LineOnlyWhenFull
    BY DEF Init, LineIdle, LineOnce, LineOnlyWhenFull
  <1>5. QED
    BY <1>1, <1>2, <1>3, <1>4 DEF IInv

LEMMA IInvStep == IInv /\ [Next]_vars => IInv'
  <1> SUFFICES ASSUME IInv, [Next]_vars PROVE IInv'
    OBVIOUS
  <1>1. TypeOK'
    BY TypeStep DEF IInv
  <1>2. QED
    BY <1>1, RunsStep, CountStep, LineStep, DrainPointStep, LineOnlyWhenFullStep, WorkIsHeldStep
       DEF IInv

LEMMA Inductive == Spec => []IInv
  BY IInvInit, IInvStep, PTL DEF Spec

\* A chat never has two runs, and the flags of GroupState describe exactly the
\* runs in flight: the isolation that enqueueMessageCheck, the stale signal and
\* force-unstick must not break, for any number of chats and tasks.
THEOREM RunsIsolated == Spec => []OneRunPerGroup
  <1>1. IInv => OneRunPerGroup
    BY DEF IInv
  <1>2. QED
    BY Inductive, <1>1, PTL

\* activeCount is the number of runs really in flight and never passes
\* MAX_CONCURRENT_CONTAINERS.
THEOREM SlotsBounded == Spec => []SlotLimit
  <1>1. IInv => SlotLimit
    <2> SUFFICES ASSUME IInv PROVE SlotLimit
      OBVIOUS
    <2>1. ASSUME NEW g \in Groups PROVE HasRun(g) <=> active[g]
      <3>1. CASE active[g] /\ isTaskContainer[g]
        BY <3>1 DEF IInv, OneRunPerGroup, HasRun
      <3>2. CASE active[g] /\ ~isTaskContainer[g]
        <4>1. chatRuns[g] = 1
          BY <3>2 DEF IInv, OneRunPerGroup
        <4>2. QED
          BY <3>2, <4>1 DEF HasRun
      <3>3. CASE ~active[g]
        <4>1. chatRuns[g] = 0 /\ taskRuns[g] = {}
          BY <3>3 DEF IInv, OneRunPerGroup
        <4>2. QED
          BY <3>3, <4>1 DEF HasRun
      <3>4. QED
        BY <3>1, <3>2, <3>3
    <2>2. Busy = Holders
      BY <2>1 DEF Busy, Holders
    <2>3. QED
      BY <2>2 DEF IInv, CountAgrees, SlotLimit
  <1>2. QED
    BY Inductive, <1>1, PTL

\* No lost wake-up: whatever the order of arrivals, ends of runs, stops and
\* timers, pending work is in the line and the line is empty while a slot is
\* free.
THEOREM NoLostWakeup == Spec => []WorkConserving
  <1>1. IInv => WorkConserving
    BY GroupsAssumption DEF IInv, WorkConserving, Accepting, Ready, WorkIsHeld, LineOnlyWhenFull
  <1>2. QED
    BY Inductive, <1>1, PTL

\* The line holds no chat twice and no chat that runs.
THEOREM LineSound == Spec => []WaitingLineSound
  <1>1. IInv => WaitingLineSound
    BY DEF IInv, LineOnce, LineIdle, WaitingLineSound
  <1>2. QED
    BY Inductive, <1>1, PTL

\* A slot is given to the head of the line when there is one.
THEOREM NobodyPasses == Spec => NoBarging
  <1>1. IInv /\ [Next]_vars => [\A g \in Groups : active'[g] /\ ~active[g]
                                   => waitingGroups = <<>> \/ g = Head(waitingGroups)]_vars
    <2> SUFFICES ASSUME IInv, [Next]_vars, NEW g \in Groups, active'[g], ~active[g]
                 PROVE  waitingGroups = <<>> \/ g = Head(waitingGroups)
      OBVIOUS
    <2>1. active \in [Groups -> BOOLEAN]
      BY DEF IInv, TypeOK
    <2>2. PICK h \in Groups : Starts(h) \/ Ends(h) \/ Joins(h)
      BY SlotStep DEF Stays, slotVars
    <2>3. Starts(h)
      BY <2>1, <2>2 DEF Ends, ReleaseSlot, Joins, slotVars
    <2>4. h = g
      BY <2>1, <2>3 DEF Starts, RunForGroup, RunTask
    <2>5. QED
      BY <2>3, <2>4 DEF Starts, Served
  <1>2. QED
    BY Inductive, <1>1, PTL DEF Spec, NoBarging

-----------------------------------------------------------------------------
(* The queue implements RunSlots: SlotStep again, read through the         *)
(* refinement mapping.                                                     *)

\* The mapped value of holder.
Use(g) == IF taskRuns[g] # {} THEN "task" ELSE IF chatRuns[g] > 0 THEN "chat" ELSE "none"

LEMMA UseOf ==
  ASSUME IInv, NEW g \in Groups
  PROVE  Use(g) = IF ~active[g] THEN "none" ELSE IF isTaskContainer[g] THEN "task" ELSE "chat"
  <1>1. CASE active[g] /\ isTaskContainer[g]
    BY <1>1 DEF IInv, OneRunPerGroup, Use
  <1>2. CASE active[g] /\ ~isTaskContainer[g]
    <2>1. chatRuns[g] = 1 /\ taskRuns[g] = {}
      BY <1>2 DEF IInv, OneRunPerGroup
    <2>2. QED
      BY <1>2, <2>1 DEF Use
  <1>3. CASE ~active[g]
    <2>1. chatRuns[g] = 0 /\ taskRuns[g] = {}
      BY <1>3 DEF IInv, OneRunPerGroup
    <2>2. QED
      BY <1>3, <2>1 DEF Use
  <1>4. QED
    BY <1>1, <1>2, <1>3

LEMMA UseOfNext ==
  ASSUME IInv', NEW g \in Groups
  PROVE  Use(g)' = IF ~active'[g] THEN "none" ELSE IF isTaskContainer'[g] THEN "task" ELSE "chat"
  <1>1. CASE active'[g] /\ isTaskContainer'[g]
    BY <1>1 DEF IInv, OneRunPerGroup, Use
  <1>2. CASE active'[g] /\ ~isTaskContainer'[g]
    <2>1. chatRuns'[g] = 1 /\ taskRuns'[g] = {}
      BY <1>2 DEF IInv, OneRunPerGroup
    <2>2. QED
      BY <1>2, <2>1 DEF Use
  <1>3. CASE ~active'[g]
    <2>1. chatRuns'[g] = 0 /\ taskRuns'[g] = {}
      BY <1>3 DEF IInv, OneRunPerGroup
    <2>2. QED
      BY <1>3, <2>1 DEF Use
  <1>4. QED
    BY <1>1, <1>2, <1>3

LEMMA SameCardinality == \A S : Slots!Cardinality(S) = Cardinality(S)
  BY DEF Cardinality, Slots!Cardinality

LEMMA SlotsInit == Init => Slots!Init
  BY DEF Init, Slots!Init

LEMMA SlotsStep == IInv /\ [Next]_vars => [Slots!Next]_<<[g \in Groups |-> Use(g)], waitingGroups>>
  <1> SUFFICES ASSUME IInv, [Next]_vars
               PROVE  [Slots!Next]_<<[g \in Groups |-> Use(g)], waitingGroups>>
    OBVIOUS
  <1> DEFINE use == [g \in Groups |-> Use(g)]
  <1>1. IInv'
    BY IInvStep
  <1>2. active \in [Groups -> BOOLEAN] /\ isTaskContainer \in [Groups -> BOOLEAN]
        /\ waitingGroups \in Seq(Groups) /\ activeCount = Cardinality(Holders)
    BY DEF IInv, TypeOK, CountAgrees
  <1>3. CASE Stays
    BY <1>3 DEF Stays, slotVars, Use
  <1>4. ASSUME NEW g \in Groups, Joins(g) PROVE Slots!Join(g)
    <2>1. Use(g) = "none"
      BY <1>4, UseOf DEF Joins
    <2>2. UNCHANGED use
      BY <1>4 DEF Joins, slotVars, Use
    <2>3. QED
      BY <1>4, <2>1, <2>2 DEF Joins, InSeq, Slots!Join, Use
  <1>5. ASSUME NEW g \in Groups, Starts(g)
        PROVE  \E u \in {"chat", "task"} : Slots!Grant(g, u)
    <2>1. Use(g) = "none" /\ Slots!Held = Holders
      BY <1>5, UseOf DEF Starts, Slots!Held, Holders, Use
    <2>2. PICK u \in {"chat", "task"} : use' = [use EXCEPT ![g] = u]
      <3>1. active' = [active EXCEPT ![g] = TRUE]
            /\ \A h \in Groups : h # g => isTaskContainer'[h] = isTaskContainer[h]
        BY <1>2, <1>5 DEF Starts, RunForGroup, RunTask
      <3>2. \A h \in Groups : h # g => Use(h)' = Use(h)
        BY <1>1, <1>2, <3>1, UseOf, UseOfNext
      <3>3. Use(g)' \in {"chat", "task"}
        BY <1>1, <1>2, <3>1, UseOfNext
      <3>4. QED
        BY <3>2, <3>3
    <2>3. Slots!Cardinality(Slots!Held) < MaxConcurrent
      BY <1>2, <1>5, <2>1, SameCardinality DEF Starts
    <2>4. QED
      BY <1>2, <1>5, <2>1, <2>2, <2>3 DEF Starts, Served, Slots!Grant, Use
  <1>6. ASSUME NEW g \in Groups, Ends(g) PROVE Slots!Release(g)
    <2>1. active[g] /\ active' = [active EXCEPT ![g] = FALSE] /\ UNCHANGED waitingGroups
          /\ \A h \in Groups : h # g => isTaskContainer'[h] = isTaskContainer[h]
      BY <1>2, <1>6 DEF Ends, ReleaseSlot, workVars
    <2>2. Use(g) # "none" /\ Use(g)' = "none"
      BY <1>1, <1>2, <2>1, UseOf, UseOfNext
    <2>3. \A h \in Groups : h # g => Use(h)' = Use(h)
      BY <1>1, <1>2, <2>1, UseOf, UseOfNext
    <2>4. use' = [use EXCEPT ![g] = "none"]
      BY <2>2, <2>3
    <2>5. QED
      BY <2>1, <2>2, <2>4 DEF Slots!Release, Use
  <1>7. QED
    BY <1>3, <1>4, <1>5, <1>6, SlotStep DEF Slots!Next

\* The class keeps the promise RunSlots states, for any number of chats and
\* slots: a chat holds at most one slot, the limit is kept, and slots are
\* granted in the order of the line.
THEOREM Refinement == Spec => ImplementsRunSlots
  BY SlotsInit, SlotsStep, Inductive, PTL DEF Spec, ImplementsRunSlots, Slots!Spec, Use

-----------------------------------------------------------------------------
(* The tasks of a chat, its failed turns, its stop and its idle runner.    *)

LEMMA DrainStarts ==
  ASSUME TypeOK, Drain
  PROVE  /\ NothingStarts \/ \E g \in Groups : StartOwnWork(g)
         /\ UNCHANGED <<retryVars, shuttingDown>>
  <1>1. waitingGroups # <<>> => Head(waitingGroups) \in Groups
    BY DEF TypeOK
  <1>2. QED
    BY <1>1 DEF Drain, DrainGroup, DrainWaiting

\* No task is pending twice, and none is pending while it runs.
HeldOnce(g) == Once(pendingTasks[g]) /\ ~InSeq(runningTaskId[g], pendingTasks[g])

LEMMA HeldOnceIs == TaskHeldOnce <=> \A g \in Groups : HeldOnce(g)
  BY DEF TaskHeldOnce, HeldOnce, Once, InSeq

LEMMA StartOwnWorkHeldOnce ==
  ASSUME TypeOK, NEW g \in Groups, StartOwnWork(g), NEW h \in Groups, HeldOnce(h)
  PROVE  HeldOnce(h)'
  <1>1. CASE pendingTasks[g] # <<>>
    <2>1. pendingTasks[g] \in Seq(Tasks)
      BY DEF TypeOK
    <2>2. /\ runningTaskId' = [runningTaskId EXCEPT ![g] = Head(pendingTasks[g])]
          /\ pendingTasks' = [pendingTasks EXCEPT ![g] = Tail(@)]
      BY <1>1 DEF StartOwnWork, RunTask
    <2>3. CASE h = g
      <3>1. runningTaskId'[h] = Head(pendingTasks[h]) /\ pendingTasks'[h] = Tail(pendingTasks[h])
        BY <2>2, <2>3 DEF TypeOK
      <3>2. Once(Tail(pendingTasks[h])) /\ ~InSeq(Head(pendingTasks[h]), Tail(pendingTasks[h]))
        BY <1>1, <2>1, <2>3, OnceTail DEF HeldOnce
      <3>3. QED
        BY <3>1, <3>2 DEF HeldOnce
    <2>4. CASE h # g
      <3>1. runningTaskId'[h] = runningTaskId[h] /\ pendingTasks'[h] = pendingTasks[h]
        BY <2>2, <2>4 DEF TypeOK
      <3>2. QED
        BY <3>1 DEF HeldOnce
    <2>5. QED
      BY <2>3, <2>4
  <1>2. CASE pendingTasks[g] = <<>>
    BY <1>2 DEF StartOwnWork, RunForGroup, HeldOnce
  <1>3. QED
    BY <1>1, <1>2

LEMMA EnqueueTaskHeldOnce ==
  ASSUME TypeOK, NEW g \in Groups, NEW t \in Tasks, EnqueueTask(g, t),
         NEW h \in Groups, HeldOnce(h)
  PROVE  HeldOnce(h)'
  <1>1. runningTaskId[g] # t /\ ~InSeq(t, pendingTasks[g]) /\ pendingTasks[g] \in Seq(Tasks)
    BY DEF EnqueueTask, HasTask, TypeOK
  <1>2. CASE /\ pendingTasks' = [pendingTasks EXCEPT ![g] = Append(@, t)]
             /\ UNCHANGED runningTaskId
    <2>1. CASE h = g
      <3>1. pendingTasks'[h] = Append(pendingTasks[h], t)
        BY <1>2, <2>1 DEF TypeOK
      <3>2. Once(Append(pendingTasks[h], t))
        BY <1>1, <2>1, OnceAppend DEF HeldOnce
      <3>3. ~InSeq(runningTaskId[h], Append(pendingTasks[h], t))
        BY <1>1, <2>1 DEF HeldOnce, InSeq
      <3>4. QED
        BY <1>2, <3>1, <3>2, <3>3 DEF HeldOnce
    <2>2. CASE h # g
      <3>1. pendingTasks'[h] = pendingTasks[h]
        BY <1>2, <2>2 DEF TypeOK
      <3>2. QED
        BY <1>2, <3>1 DEF HeldOnce
    <2>3. QED
      BY <2>1, <2>2
  <1>3. CASE RunTask(g, t) /\ UNCHANGED pendingTasks
    <2>1. runningTaskId'[h] = IF h = g THEN t ELSE runningTaskId[h]
      BY <1>3 DEF RunTask, TypeOK
    <2>2. QED
      BY <1>1, <1>3, <2>1 DEF HeldOnce
  <1>4. QED
    BY <1>2, <1>3 DEF EnqueueTask, flagVars

\* Every step keeps the tasks of every chat held once: only EnqueueTask adds
\* one, and it looks first.
LEMMA TaskHeldOnceStep ==
  ASSUME TypeOK, TaskHeldOnce, [Next]_vars
  PROVE  TaskHeldOnce'
  <1> SUFFICES ASSUME NEW h \in Groups, HeldOnce(h) PROVE HeldOnce(h)'
    BY HeldOnceIs DEF TaskHeldOnce, HeldOnce, Once, InSeq
  <1>1. CASE UNCHANGED <<pendingTasks, runningTaskId>>
    BY <1>1 DEF HeldOnce
  <1>2. CASE Drain
    <2>1. CASE NothingStarts
      BY <1>1, <2>1 DEF NothingStarts, flagVars
    <2>2. QED
      BY <1>2, <2>1, DrainStarts, StartOwnWorkHeldOnce
  <1>3. ASSUME NEW g \in Groups, GroupStep(g) PROVE HeldOnce(h)'
    <2> USE DEF flagVars, workVars, runVars
    <2>1. CASE MessageArrives(g) \/ RetryTimer(g)
      BY <1>1, <2>1 DEF MessageArrives, RetryTimer, EnqueueMessageCheck, RunForGroup
    <2>2. CASE \E t \in Tasks : EnqueueTask(g, t)
      BY <2>2, EnqueueTaskHeldOnce
    <2>3. CASE \E success \in BOOLEAN : ChatRunEnds(g, success)
      BY <1>1, <2>3 DEF ChatRunEnds, ReleaseSlot
    <2>4. CASE \E t \in Tasks : TaskRunEnds(g, t)
      <3>1. runningTaskId' = [runningTaskId EXCEPT ![g] = NoTask] /\ UNCHANGED pendingTasks
        BY <2>4 DEF TaskRunEnds, ReleaseSlot
      <3>2. runningTaskId'[h] \in {NoTask, runningTaskId[h]} /\ pendingTasks[h] \in Seq(Tasks)
        BY <3>1 DEF TypeOK
      <3>3. ~InSeq(NoTask, pendingTasks[h])
        BY <3>2, TasksAssumption DEF InSeq
      <3>4. QED
        BY <3>1, <3>2, <3>3 DEF HeldOnce
    <2>5. CASE Aside(g)
      BY <1>1, <2>5 DEF Aside, RegisterProcess, RunnerBoot, NotifyIdle, CloseRequested,
         SendMessage, FollowUpTurnStarted, CancelActiveChatRun, ForceUnstick
    <2>6. QED
      BY <1>3, <2>1, <2>2, <2>3, <2>4, <2>5 DEF GroupStep, RunEnds, Aside
  <1>4. CASE Shutdown \/ UNCHANGED vars
    BY <1>1, <1>4 DEF Shutdown, vars, flagVars, workVars
  <1>5. QED
    BY <1>2, <1>3, <1>4 DEF Next

\* A scheduled task is held once, running or pending at one place, whatever
\* duplicate enqueues and drains come in between (the check of enqueueTask).
THEOREM TasksHeldOnce == Spec => []TaskHeldOnce
  <1>1. Init => TaskHeldOnce
    BY DEF Init, TaskHeldOnce
  <1>2. QED
    BY <1>1, TypeCorrect, TaskHeldOnceStep, PTL DEF Spec

-----------------------------------------------------------------------------
\* One chat's share of FailedTurnRemembered.
Remembers(g) ==
  retryCount[g] > 0 /\ ~shuttingDown =>
    retryTimers[g] > 0 \/ chatRuns[g] > 0 \/ pendingMessages[g]

LEMMA EnqueueMessageCheckRemembers ==
  ASSUME TypeOK, NEW g \in Groups, EnqueueMessageCheck(g)
  PROVE  /\ chatRuns'[g] > 0 \/ pendingMessages'[g]
         /\ \A h \in Groups : h # g => /\ pendingMessages'[h] = pendingMessages[h]
                                       /\ chatRuns'[h] = chatRuns[h]
         /\ UNCHANGED retryCount
  <1>1. CASE RunForGroup(g)
    <2>1. chatRuns' = [chatRuns EXCEPT ![g] = @ + 1] /\ chatRuns[g] \in Nat
          /\ pendingMessages' = [pendingMessages EXCEPT ![g] = FALSE]
      BY <1>1 DEF RunForGroup, TypeOK
    <2>2. chatRuns'[g] = chatRuns[g] + 1
      BY <2>1 DEF TypeOK
    <2>3. QED
      BY <2>1, <2>2 DEF EnqueueMessageCheck, TypeOK
  <1>2. CASE /\ pendingMessages' = [pendingMessages EXCEPT ![g] = TRUE]
             /\ UNCHANGED chatRuns
    BY <1>2 DEF EnqueueMessageCheck, TypeOK
  <1>3. QED
    BY <1>1, <1>2 DEF EnqueueMessageCheck, runVars

\* Every step remembers the failed turns: a timer that fires hands over to a
\* pending check or to a run, and a run that fails again arms the next.
LEMMA RemembersStep ==
  ASSUME TypeOK, OneRunPerGroup, FailedTurnRemembered, [Next]_vars
  PROVE  FailedTurnRemembered'
  <1> SUFFICES ASSUME NEW h \in Groups, Remembers(h) PROVE Remembers(h)'
    BY DEF FailedTurnRemembered, Remembers
  <1> USE DEF flagVars, workVars, retryVars, runVars, procVars, ctlVars
  <1>1. CASE UNCHANGED <<retryCount, retryTimers, shuttingDown, chatRuns, pendingMessages>>
    BY <1>1 DEF Remembers
  <1>2. CASE Drain
    <2>1. CASE NothingStarts
      BY <1>1, <1>2, <2>1, DrainStarts DEF NothingStarts
    <2>2. ASSUME NEW g \in Groups, StartOwnWork(g) PROVE Remembers(h)'
      <3>1. CASE RunForGroup(g)
        <4>1. chatRuns' = [chatRuns EXCEPT ![g] = @ + 1] /\ chatRuns[g] \in Nat
              /\ pendingMessages' = [pendingMessages EXCEPT ![g] = FALSE]
          BY <3>1 DEF RunForGroup, TypeOK
        <4>2. h = g => chatRuns'[h] > 0
          BY <4>1 DEF TypeOK
        <4>3. h # g => chatRuns'[h] = chatRuns[h] /\ pendingMessages'[h] = pendingMessages[h]
          BY <4>1 DEF TypeOK
        <4>4. QED
          BY <1>2, <4>2, <4>3, DrainStarts DEF Remembers
      <3>2. CASE \E t \in Tasks : RunTask(g, t)
        BY <1>1, <1>2, <3>2, DrainStarts DEF RunTask
      <3>3. QED
        BY <2>2, <3>1, <3>2, StartOwnWorkStarts
    <2>3. QED
      BY <1>2, <2>1, <2>2, DrainStarts
  <1>3. ASSUME NEW g \in Groups, GroupStep(g) PROVE Remembers(h)'
    <2>1. CASE MessageArrives(g)
      BY <2>1, EnqueueMessageCheckRemembers DEF MessageArrives, Accepting, Remembers
    <2>2. CASE \E t \in Tasks : EnqueueTask(g, t)
      BY <1>1, <2>2 DEF EnqueueTask, RunTask
    <2>3. CASE RetryTimer(g)
      <3>1. CASE shuttingDown
        BY <2>3, <3>1 DEF RetryTimer, Remembers
      <3>2. CASE ~shuttingDown
        <4>1. retryTimers' = [retryTimers EXCEPT ![g] = @ - 1] /\ EnqueueMessageCheck(g)
          BY <2>3, <3>2 DEF RetryTimer
        <4>2. CASE h = g
          BY <4>1, <4>2, EnqueueMessageCheckRemembers DEF Remembers
        <4>3. CASE h # g
          <5>1. retryTimers'[h] = retryTimers[h]
            BY <4>1, <4>3 DEF TypeOK
          <5>2. QED
            BY <2>3, <3>2, <4>1, <4>3, <5>1, EnqueueMessageCheckRemembers DEF Remembers
        <4>4. QED
          BY <4>2, <4>3
      <3>3. QED
        BY <3>1, <3>2
    <2>4. ASSUME NEW success \in BOOLEAN, ChatRunEnds(g, success) PROVE Remembers(h)'
      <3>1. /\ chatRuns' = [chatRuns EXCEPT ![g] = @ - 1]
            /\ UNCHANGED <<pendingMessages, shuttingDown>>
        BY <2>4 DEF ChatRunEnds, ReleaseSlot
      <3>2. retryTimers[g] \in 0..MaxTimers /\ retryCount[g] \in 0..MaxRetries
        BY DEF TypeOK
      <3>3. retryCount'[g] = 0 \/ retryTimers'[g] > 0
        BY <2>4, <3>2 DEF ChatRunEnds, ScheduleRetry, TypeOK
      <3>4. h # g => retryCount'[h] = retryCount[h] /\ retryTimers'[h] = retryTimers[h]
        BY <2>4 DEF ChatRunEnds, ScheduleRetry, TypeOK
      <3>5. h # g => chatRuns'[h] = chatRuns[h]
        BY <3>1 DEF TypeOK
      <3>6. CASE h = g
        BY <3>3, <3>6 DEF Remembers
      <3>7. CASE h # g
        BY <3>1, <3>4, <3>5, <3>7 DEF Remembers
      <3>8. QED
        BY <3>6, <3>7
    <2>5. CASE \E t \in Tasks : TaskRunEnds(g, t)
      BY <1>1, <2>5 DEF TaskRunEnds, ReleaseSlot
    <2>6. CASE CancelActiveChatRun(g)
      <3>1. chatRuns[g] = 1 /\ UNCHANGED <<retryCount, retryTimers, shuttingDown, chatRuns>>
        BY <2>6 DEF CancelActiveChatRun, OneRunPerGroup
      <3>2. h # g => pendingMessages'[h] = pendingMessages[h]
        BY <2>6 DEF CancelActiveChatRun, TypeOK
      <3>3. QED
        BY <3>1, <3>2 DEF Remembers
    <2>7. CASE SendMessage(g) \/ ForceUnstick(g)
      <3>1. UNCHANGED <<retryCount, retryTimers, shuttingDown, chatRuns>>
        BY <2>7 DEF SendMessage, ForceUnstick
      <3>2. pendingMessages[h] => pendingMessages'[h]
        BY <2>7 DEF SendMessage, ForceUnstick, TypeOK
      <3>3. QED
        BY <3>1, <3>2 DEF Remembers
    <2>8. CASE \/ RegisterProcess(g) \/ RunnerBoot(g) \/ NotifyIdle(g)
               \/ CloseRequested(g) \/ FollowUpTurnStarted(g)
      BY <1>1, <2>8 DEF RegisterProcess, RunnerBoot, NotifyIdle, CloseRequested,
                        FollowUpTurnStarted
    <2>9. QED
      BY <1>3, <2>1, <2>2, <2>3, <2>4, <2>5, <2>6, <2>7, <2>8 DEF GroupStep, RunEnds
  <1>4. CASE Shutdown
    BY <1>4 DEF Shutdown, Remembers
  <1>5. CASE UNCHANGED vars
    BY <1>1, <1>5 DEF vars
  <1>6. QED
    BY <1>2, <1>3, <1>4, <1>5 DEF Next

\* A failed turn is never forgotten: scheduleRetry, its timer, the drops of a
\* stop and the refusals of enqueueMessageCheck leave a timer, a pending check
\* or a run behind until the count is back at zero.
THEOREM FailuresRemembered == Spec => []FailedTurnRemembered
  <1>1. Init => FailedTurnRemembered
    BY DEF Init, FailedTurnRemembered
  <1>2. QED
    BY <1>1, TypeCorrect, RunsIsolated, RemembersStep, PTL DEF Spec

-----------------------------------------------------------------------------
\* One chat's share of StopReachesProcess.
Reached(g) == cancelRequested[g] => chatRuns[g] > 0 /\ (process[g] => killed[g])

LEMMA RunForGroupReached ==
  ASSUME TypeOK, NEW g \in Groups, RunForGroup(g), NEW h \in Groups, Reached(h)
  PROVE  Reached(h)'
  <1>1. /\ cancelRequested' = [cancelRequested EXCEPT ![g] = FALSE]
        /\ chatRuns' = [chatRuns EXCEPT ![g] = @ + 1]
        /\ UNCHANGED <<process, killed>>
    BY DEF RunForGroup
  <1>2. cancelRequested'[h] => h # g /\ cancelRequested[h]
    BY <1>1 DEF TypeOK
  <1>3. h # g => chatRuns'[h] = chatRuns[h]
    BY <1>1 DEF TypeOK
  <1>4. QED
    BY <1>1, <1>2, <1>3 DEF Reached

LEMMA RunTaskReached ==
  ASSUME TypeOK, NEW g \in Groups, NEW t \in Tasks, RunTask(g, t), NEW h \in Groups, Reached(h)
  PROVE  Reached(h)'
  <1>1. /\ cancelRequested' = [cancelRequested EXCEPT ![g] = FALSE]
        /\ UNCHANGED <<process, killed, chatRuns>>
    BY DEF RunTask
  <1>2. cancelRequested'[h] => cancelRequested[h]
    BY <1>1 DEF TypeOK
  <1>3. QED
    BY <1>1, <1>2 DEF Reached

LEMMA ReleaseSlotReached ==
  ASSUME TypeOK, NEW g \in Groups, ReleaseSlot(g), NEW h \in Groups, Reached(h),
         h # g => chatRuns'[h] = chatRuns[h]
  PROVE  Reached(h)'
  <1>1. CASE h = g
    <2>1. ~cancelRequested'[h]
      BY <1>1 DEF ReleaseSlot, TypeOK
    <2>2. QED
      BY <2>1 DEF Reached
  <1>2. CASE h # g
    <2>1. /\ cancelRequested'[h] = cancelRequested[h]
          /\ process'[h] = process[h] /\ killed'[h] = killed[h]
      BY <1>2 DEF ReleaseSlot, TypeOK
    <2>2. QED
      BY <1>2, <2>1 DEF Reached
  <1>3. QED
    BY <1>1, <1>2

\* A signal, or a stale check that may send one, takes nothing back.
LEMMA SignalReached ==
  ASSUME TypeOK, NEW g \in Groups, SignalIfStale(g), NEW h \in Groups, Reached(h),
         UNCHANGED <<cancelRequested, chatRuns, process>>
  PROVE  Reached(h)'
  <1>1. killed[h] => killed'[h]
    BY DEF SignalIfStale, Signal, TypeOK
  <1>2. QED
    BY <1>1 DEF Reached

LEMMA EnqueueMessageCheckReached ==
  ASSUME TypeOK, NEW g \in Groups, EnqueueMessageCheck(g), NEW h \in Groups, Reached(h)
  PROVE  Reached(h)'
  <1>1. CASE SignalIfStale(g) /\ UNCHANGED <<cancelRequested, chatRuns, process>>
    BY <1>1, SignalReached
  <1>2. CASE RunForGroup(g)
    BY <1>2, RunForGroupReached
  <1>3. QED
    BY <1>1, <1>2 DEF EnqueueMessageCheck, SignalIfStale, flagVars, runVars, procVars

\* Every step keeps a stop and the process it is meant for together: the stop
\* signals the process that is there, the registration the one that comes.
LEMMA ReachedStep ==
  ASSUME TypeOK, OneRunPerGroup, StopReachesProcess, [Next]_vars
  PROVE  StopReachesProcess'
  <1> SUFFICES ASSUME NEW h \in Groups, Reached(h) PROVE Reached(h)'
    BY DEF StopReachesProcess, Reached
  <1> USE DEF flagVars, workVars, retryVars, runVars, procVars, ctlVars
  <1>1. CASE UNCHANGED <<cancelRequested, chatRuns, process, killed>>
    BY <1>1 DEF Reached
  <1>2. CASE Drain
    <2>1. CASE NothingStarts
      BY <1>1, <2>1 DEF NothingStarts
    <2>2. ASSUME NEW g \in Groups, StartOwnWork(g) PROVE Reached(h)'
      BY <2>2, StartOwnWorkStarts, RunForGroupReached, RunTaskReached
    <2>3. QED
      BY <1>2, <2>1, <2>2, DrainStarts
  <1>3. ASSUME NEW g \in Groups, GroupStep(g) PROVE Reached(h)'
    <2>1. CASE MessageArrives(g)
      BY <2>1, EnqueueMessageCheckReached DEF MessageArrives
    <2>2. ASSUME NEW t \in Tasks, EnqueueTask(g, t) PROVE Reached(h)'
      BY <1>1, <2>2, RunTaskReached DEF EnqueueTask
    <2>3. CASE RetryTimer(g)
      BY <1>1, <2>3, EnqueueMessageCheckReached DEF RetryTimer
    <2>4. ASSUME NEW success \in BOOLEAN, ChatRunEnds(g, success) PROVE Reached(h)'
      <3>1. ReleaseSlot(g) /\ (h # g => chatRuns'[h] = chatRuns[h])
        BY <2>4 DEF ChatRunEnds, TypeOK
      <3>2. QED
        BY <3>1, ReleaseSlotReached
    <2>5. ASSUME NEW t \in Tasks, TaskRunEnds(g, t) PROVE Reached(h)'
      BY <2>5, ReleaseSlotReached DEF TaskRunEnds
    <2>6. CASE RegisterProcess(g)
      <3>1. /\ killed'[h] = IF h = g THEN cancelRequested[h] /\ ~isTaskContainer[h] ELSE killed[h]
            /\ h # g => process'[h] = process[h]
            /\ UNCHANGED <<cancelRequested, chatRuns>>
        BY <2>6 DEF RegisterProcess, TypeOK
      <3>2. chatRuns[h] > 0 => ~isTaskContainer[h]
        BY DEF OneRunPerGroup, TypeOK
      <3>3. QED
        BY <3>1, <3>2 DEF Reached
    <2>7. CASE CancelActiveChatRun(g)
      <3>1. /\ chatRuns[g] = 1
            /\ h # g => cancelRequested'[h] = cancelRequested[h]
            /\ UNCHANGED <<chatRuns, process>>
        BY <2>7 DEF CancelActiveChatRun, OneRunPerGroup, TypeOK
      <3>2. /\ killed[h] => killed'[h]
            /\ process[g] => killed'[g]
        BY <2>7 DEF CancelActiveChatRun, Signal, TypeOK
      <3>3. chatRuns[g] > 0
        BY <3>1
      <3>4. QED
        BY <3>1, <3>2, <3>3, Zenon DEF Reached
    <2>8. CASE SendMessage(g) \/ ForceUnstick(g)
      BY <1>1, <2>8, SignalReached DEF SendMessage, ForceUnstick, SignalIfStale
    <2>9. CASE RunnerBoot(g) \/ NotifyIdle(g) \/ CloseRequested(g) \/ FollowUpTurnStarted(g)
      BY <1>1, <2>9 DEF RunnerBoot, NotifyIdle, CloseRequested, FollowUpTurnStarted
    <2>10. QED
      BY <1>3, <2>1, <2>2, <2>3, <2>4, <2>5, <2>6, <2>7, <2>8, <2>9 DEF GroupStep, RunEnds
  <1>4. CASE Shutdown \/ UNCHANGED vars
    BY <1>1, <1>4 DEF Shutdown, vars
  <1>5. QED
    BY <1>2, <1>3, <1>4 DEF Next

\* The owner's "stop" reaches the runner, whether the process registers before
\* it (cancelActiveChatRun signals) or after it (registerProcess repeats the
\* signal), and only a chat run is ever stopped.
THEOREM StopsReachTheirProcess == Spec => []StopReachesProcess
  <1>1. Init => StopReachesProcess
    BY DEF Init, StopReachesProcess
  <1>2. QED
    BY <1>1, TypeCorrect, RunsIsolated, ReachedStep, PTL DEF Spec

-----------------------------------------------------------------------------
\* One chat's share of IdleRunYieldsToTask.
Yields(g) ==
  active[g] /\ idleWaiting[g] /\ process[g] /\ pendingTasks[g] # <<>> => closeFile[g]

\* A run that starts is not idle: the flag is cleared with the first write.
LEMMA StartedYields ==
  ASSUME TypeOK, NEW g \in Groups, NEW h \in Groups, Yields(h),
         RunForGroup(g) \/ \E t \in Tasks : RunTask(g, t),
         h # g => pendingTasks'[h] = pendingTasks[h]
  PROVE  Yields(h)'
  <1>1. /\ active' = [active EXCEPT ![g] = TRUE]
        /\ idleWaiting' = [idleWaiting EXCEPT ![g] = FALSE]
        /\ UNCHANGED <<process, closeFile>>
    BY DEF RunForGroup, RunTask
  <1>2. CASE h = g
    BY <1>1, <1>2 DEF Yields, TypeOK
  <1>3. CASE h # g
    <2>1. active'[h] = active[h] /\ idleWaiting'[h] = idleWaiting[h]
      BY <1>1, <1>3 DEF TypeOK
    <2>2. QED
      BY <1>1, <1>3, <2>1 DEF Yields
  <1>4. QED
    BY <1>2, <1>3

\* closeStdin takes no _close file back, and writes the one of a chat it is
\* called for while that chat has a process.
LEMMA CloseStdinWrites ==
  ASSUME NEW S, CloseStdin(S), NEW h \in Groups
  PROVE  closeFile'[h] <=> closeFile[h] \/ (h \in S /\ active[h] /\ process[h])
  BY DEF CloseStdin

LEMMA EnqueueMessageCheckYields ==
  ASSUME TypeOK, NEW g \in Groups, EnqueueMessageCheck(g), NEW h \in Groups, Yields(h)
  PROVE  Yields(h)'
  <1>1. UNCHANGED pendingTasks
    BY DEF EnqueueMessageCheck
  <1>2. CASE RunForGroup(g)
    BY <1>1, <1>2, StartedYields
  <1>3. CASE /\ UNCHANGED <<active, process, idleWaiting>>
             /\ CloseStdin({k \in {g} : idleWaiting[k]}) \/ UNCHANGED closeFile
    BY <1>1, <1>3, CloseStdinWrites DEF Yields
  <1>4. QED
    BY <1>2, <1>3 DEF EnqueueMessageCheck, flagVars, procVars

LEMMA EnqueueTaskYields ==
  ASSUME TypeOK, NEW g \in Groups, NEW t \in Tasks, EnqueueTask(g, t),
         NEW h \in Groups, Yields(h)
  PROVE  Yields(h)'
  <1>1. CASE active[g]
    <2>1. /\ pendingTasks' = [pendingTasks EXCEPT ![g] = Append(@, t)]
          /\ CloseStdin({k \in {g} : idleWaiting[k]})
          /\ UNCHANGED <<active, process, idleWaiting>>
      BY <1>1 DEF EnqueueTask, flagVars
    <2>2. h # g => pendingTasks'[h] = pendingTasks[h]
      BY <2>1 DEF TypeOK
    <2>3. QED
      BY <2>1, <2>2, CloseStdinWrites DEF Yields
  <1>2. CASE ~active[g] /\ ~SlotFree
    <2>1. /\ pendingTasks' = [pendingTasks EXCEPT ![g] = Append(@, t)]
          /\ UNCHANGED <<active, process, idleWaiting, closeFile>>
      BY <1>2 DEF EnqueueTask, flagVars, procVars
    <2>2. h # g => pendingTasks'[h] = pendingTasks[h]
      BY <2>1 DEF TypeOK
    <2>3. QED
      BY <1>2, <2>1, <2>2 DEF Yields
  <1>3. CASE ~active[g] /\ SlotFree
    <2>1. RunTask(g, t) /\ UNCHANGED pendingTasks
      BY <1>3 DEF EnqueueTask
    <2>2. QED
      BY <2>1, StartedYields
  <1>4. QED
    BY <1>1, <1>2, <1>3

\* Every step keeps the promise: what makes the runner idle and what makes a
\* task wait both look for the other and close.
LEMMA YieldsStep ==
  ASSUME TypeOK, IdleRunYieldsToTask, [Next]_vars
  PROVE  IdleRunYieldsToTask'
  <1> SUFFICES ASSUME NEW h \in Groups, Yields(h) PROVE Yields(h)'
    BY DEF IdleRunYieldsToTask, Yields
  <1> USE DEF flagVars, workVars, retryVars, runVars, procVars, ctlVars
  <1>1. CASE UNCHANGED <<active, idleWaiting, process, pendingTasks, closeFile>>
    BY <1>1 DEF Yields
  <1>2. CASE Drain
    <2>1. CASE NothingStarts
      BY <1>1, <2>1 DEF NothingStarts
    <2>2. ASSUME NEW g \in Groups, StartOwnWork(g) PROVE Yields(h)'
      <3>1. h # g => pendingTasks'[h] = pendingTasks[h]
        BY <2>2 DEF StartOwnWork, TypeOK
      <3>2. QED
        BY <2>2, <3>1, StartOwnWorkStarts, StartedYields
    <2>3. QED
      BY <1>2, <2>1, <2>2, DrainStarts
  <1>3. ASSUME NEW g \in Groups, GroupStep(g) PROVE Yields(h)'
    <2>1. CASE MessageArrives(g)
      BY <2>1, EnqueueMessageCheckYields DEF MessageArrives
    <2>2. CASE \E t \in Tasks : EnqueueTask(g, t)
      BY <2>2, EnqueueTaskYields
    <2>3. CASE RetryTimer(g)
      BY <1>1, <2>3, EnqueueMessageCheckYields DEF RetryTimer
    <2>4. CASE RunEnds(g)
      <3>1. ReleaseSlot(g)
        BY <2>4 DEF RunEnds, ChatRunEnds, TaskRunEnds
      <3>2. CASE h = g
        BY <3>1, <3>2 DEF ReleaseSlot, Yields, TypeOK
      <3>3. CASE h # g
        <4>1. /\ active'[h] = active[h] /\ process'[h] = process[h]
              /\ closeFile'[h] = closeFile[h]
              /\ UNCHANGED <<idleWaiting, pendingTasks>>
          BY <3>1, <3>3 DEF ReleaseSlot, TypeOK
        <4>2. QED
          BY <4>1 DEF Yields
      <3>4. QED
        BY <3>2, <3>3
    <2>5. CASE RegisterProcess(g) \/ RunnerBoot(g)
      <3>1. UNCHANGED <<active, idleWaiting, pendingTasks>> /\ ~idleWaiting[g]
        BY <2>5 DEF RegisterProcess, RunnerBoot
      <3>2. h # g => process'[h] = process[h] /\ closeFile'[h] = closeFile[h]
        BY <2>5 DEF RegisterProcess, RunnerBoot, TypeOK
      <3>3. QED
        BY <3>1, <3>2 DEF Yields
    <2>6. CASE NotifyIdle(g)
      <3>1. /\ CloseStdin({k \in {g} : pendingTasks[k] # <<>>})
            /\ h # g => idleWaiting'[h] = idleWaiting[h]
            /\ UNCHANGED <<active, process, pendingTasks>>
        BY <2>6 DEF NotifyIdle, TypeOK
      <3>2. QED
        BY <3>1, CloseStdinWrites DEF Yields
    <2>7. CASE CloseRequested(g)
      BY <2>7, CloseStdinWrites DEF CloseRequested, Yields
    <2>8. CASE SendMessage(g) \/ FollowUpTurnStarted(g)
      <3>1. idleWaiting'[h] => idleWaiting[h]
        BY <2>8 DEF SendMessage, FollowUpTurnStarted, TypeOK
      <3>2. UNCHANGED <<active, process, pendingTasks, closeFile>>
        BY <2>8 DEF SendMessage, FollowUpTurnStarted
      <3>3. QED
        BY <3>1, <3>2 DEF Yields
    <2>9. CASE CancelActiveChatRun(g) \/ ForceUnstick(g)
      BY <1>1, <2>9 DEF CancelActiveChatRun, ForceUnstick
    <2>10. QED
      BY <1>3, <2>1, <2>2, <2>3, <2>4, <2>5, <2>6, <2>7, <2>8, <2>9 DEF GroupStep
  <1>4. CASE Shutdown \/ UNCHANGED vars
    BY <1>1, <1>4 DEF Shutdown, vars
  <1>5. QED
    BY <1>2, <1>3, <1>4 DEF Next

\* A runner that only waits for a follow-up has been told to close as soon as
\* a task waits for its slot, in both orders of notifyIdle and enqueueTask.
THEOREM IdleRunsYield == Spec => []IdleRunYieldsToTask
  <1>1. Init => IdleRunYieldsToTask
    BY DEF Init, IdleRunYieldsToTask
  <1>2. QED
    BY <1>1, TypeCorrect, YieldsStep, PTL DEF Spec

=============================================================================
