---------------------------- MODULE MessagePipe ----------------------------
(***************************************************************************)
(* The message loop of packages/core/src/orchestrator/message-loop.ts for  *)
(* one chat of the owner on the Codex path: which of the chat's messages   *)
(* have been confirmed, piped, covered by the active run, held for a       *)
(* replay or left in an input file, and when the next run is asked for.    *)
(*                                                                         *)
(* Messages are numbered in the order of their ingestion cursors, so a     *)
(* cursor is a number, 0 the initial or absent one.  An input file stands  *)
(* for the messages it carries.  `runner` is the child process (external): *)
(* it takes input files, folds them into its turn or starts another, and   *)
(* writes frames which the host handles in order and possibly late.        *)
(*                                                                         *)
(* JavaScript runs to the next await, so an action is what happens between *)
(* two awaits: a send that is awaited ends one action and its outcome is   *)
(* the next.  Not in the model: the stop command, host-answered pings,     *)
(* admin commands, quota, images, media, triggers and threads, timeout     *)
(* continuations, and the Claude fallback.                                 *)
(***************************************************************************)
EXTENDS Integers, Sequences, FiniteSets

CONSTANTS MaxMessage,   \* bound of the model: messages of the chat
          Hooked,       \* those that come through a webhook
          MaxRetries,   \* MAX_RETRIES of the group queue
          MaxFiles,     \* bound of the model: input files at once
          MaxFrames,    \* bound of the model: frames the host lags behind
          MaxFaults,    \* bound of the model: IPC envelopes, and crashes of the host
          TrackAnswers  \* whether the history of answers is recorded

ASSUME BoundsAssumption ==
  /\ MaxMessage \in Nat /\ MaxRetries \in Nat
  /\ MaxFiles \in Nat /\ MaxFrames \in Nat /\ MaxFaults \in Nat
ASSUME HookedAssumption == Hooked \subseteq 1..MaxMessage
ASSUME TrackAssumption == TrackAnswers \in BOOLEAN

VARIABLES
  \* rows of the database, and the cursors saved with them
  arrived, seen, confirmed,
  \* the held pre-start series and the expired one whose notice is being sent
  \* (in memory), each by its cursor, 0: none
  held, expiring,
  \* message ids with a delivery receipt
  receipts,
  \* memory of the loop for this chat
  piped, batches, activeTarget, ipcConfirmed, surviving, prior, polled,
  \* the chat's entry of the group queue
  work, retry, retryCount,
  \* the run in progress: control point and locals
  phase, run,
  \* the child process, its input directory, its output, its IPC envelopes
  runner, files, frames, outbox,
  \* history, for the properties: messages put before a model; messages
  \* answered by a turn or given up with a word to the user; the queue let go of the
  \* chat although messages wait; envelopes and crashes so far
  handed, settled, parked, faults

seriesVars == <<held, expiring>>
storeVars  == <<arrived, seen, confirmed, seriesVars, receipts>>
loopVars   == <<piped, batches, activeTarget, ipcConfirmed, surviving, prior, polled>>
queueVars  == <<work, retry, retryCount>>
runVars    == <<phase, run>>
childVars  == <<runner, files, frames, outbox>>
ghostVars  == <<handed, settled, parked, faults>>
vars == <<storeVars, loopVars, queueVars, runVars, childVars, ghostVars>>

Messages == 1..MaxMessage
Cursors  == 0..MaxMessage

None  == [from |-> 0, to |-> 0]
NoRun == [target |-> 0, orig |-> 0, from |-> 0, boundary |-> 0,
          deferredAtStart |-> FALSE, prompt |-> {}, initial |-> FALSE,
          sent |-> FALSE, answered |-> FALSE, err |-> FALSE, side |-> FALSE,
          preStart |-> FALSE]
NoRunner == [st |-> "off", msgs |-> {}, fresh |-> FALSE]

Init ==
  /\ arrived = 0 /\ seen = 0 /\ confirmed = 0 /\ receipts = {}
  /\ held = 0 /\ expiring = 0
  /\ piped = 0 /\ batches = <<>> /\ activeTarget = 0 /\ ipcConfirmed = FALSE
  /\ surviving = 0 /\ prior = 0 /\ polled = None
  /\ work = FALSE /\ retry = FALSE /\ retryCount = 0
  /\ phase = "none" /\ run = NoRun
  /\ runner = NoRunner /\ files = {} /\ frames = <<>> /\ outbox = <<>>
  /\ handed = {} /\ settled = {} /\ parked = FALSE /\ faults = 0

Disturbed == faults < MaxFaults /\ faults' = faults + 1

-----------------------------------------------------------------------------
(* Cursors and files                                                       *)

Larger(a, b)  == IF a > b THEN a ELSE b
Smaller(a, b) == IF a < b THEN a ELSE b

\* Mutant: the current cursor is not folded in.
ConfirmedSendForgets(current, target, pipedCursor) == Larger(target, pipedCursor)
CursorAfterConfirmedSend(current, target, pipedCursor) ==
  Larger(current, Larger(target, pipedCursor))

\* cursorAfterRunnerTurn and cursorAfterDeliveredIpc: the piped window counts
\* only from the second delivery of the run on.
CursorAfterTurn(first, target) ==
  CursorAfterConfirmedSend(confirmed, target, IF first THEN 0 ELSE piped)

HasUnconfirmedPiped == piped > confirmed

DropFirst(s, n) == SubSeq(s, Smaller(n, Len(s)) + 1, Len(s))

\* An input file: its name, its messages, what the runner makes of it, and
\* whether its receipt was saved before a crash.
File(id, msgs, mode, done) == [id |-> id, msgs |-> msgs, mode |-> mode, done |-> done]

MessagesIn(F)     == UNION {f.msgs : f \in F}
InMode(mode)      == {f \in files : f.mode = mode}
WithMode(F, mode) == (files \ F) \cup {File(f.id, f.msgs, mode, f.done) : f \in F}
Leftover          == files # {}

\* A file name nothing refers to.
UsedIds == {f.id : f \in files} \cup UNION {frames[i].names : i \in DOMAIN frames}
FreshId == CHOOSE n \in 1..(Cardinality(UsedIds) + 1) : n \notin UsedIds

Frame(kind, n, names, msgs, text) ==
  [kind |-> kind, n |-> n, names |-> names, msgs |-> msgs, text |-> text]

\* One entry of a chat: its messages lead to a run as long as it is queued.
Enqueue == work' = TRUE

Handed(S)  == handed' = handed \cup S
Track(S)   == IF TrackAnswers THEN S ELSE {}
Settled(S) == settled' = settled \cup Track(S)
UpTo(c)    == 1..c

-----------------------------------------------------------------------------
(* The poll loop                                                           *)

\* A message row is stored.  A webhook's ingestion asks for a run at once,
\* a channel's message waits for the poll.
Arrive ==
  /\ arrived < MaxMessage
  /\ arrived' = arrived + 1
  /\ IF arrived' \in Hooked THEN Enqueue ELSE UNCHANGED work
  /\ UNCHANGED <<seen, confirmed, seriesVars, receipts, loopVars, retry, retryCount,
                 runVars, childVars, ghostVars>>

PendingMessageCursor == Larger(confirmed, Larger(piped, activeTarget))

\* The seen cursor is saved first; then the chat's unclaimed messages are
\* read.  The batch is used after further awaits (PollDispatch).
PollRead ==
  /\ polled = None
  /\ arrived > seen
  /\ seen' = arrived
  /\ polled' = IF arrived > PendingMessageCursor
               THEN [from |-> PendingMessageCursor + 1, to |-> arrived] ELSE None
  /\ UNCHANGED <<arrived, confirmed, seriesVars, receipts, piped, batches, activeTarget,
                 ipcConfirmed, surviving, prior, queueVars, runVars, childVars,
                 ghostVars>>

\* A process is registered from its start to the end of the whole run.
CanPipe == phase \notin {"none", "prep"}

\* sendMessage: the sources are registered and the input file is written.
PipeBatch ==
  LET msgs == polled.from..polled.to IN
  /\ CanPipe
  /\ Cardinality(files) < MaxFiles
  /\ files' = files \cup {File(FreshId, msgs, "waiting", FALSE)}
  /\ piped' = polled.to
  /\ batches' = Append(batches, polled.to)
  /\ Handed(msgs)
  /\ UNCHANGED work

\* Mutant: the window is moved although sendMessage wrote no file.
EnqueueMovesWindow ==
  /\ piped' = polled.to
  /\ Enqueue
  /\ UNCHANGED <<files, batches, handed>>
EnqueueBatch ==
  /\ Enqueue
  /\ UNCHANGED <<piped, files, batches, handed>>

\* A pipe that cannot be written (or a runner that looks stale) falls back to
\* the queue like a chat without a run.
PollDispatch ==
  /\ polled # None
  /\ PipeBatch \/ EnqueueBatch
  /\ polled' = None
  /\ UNCHANGED <<storeVars, activeTarget, ipcConfirmed, surviving, prior, retry,
                 retryCount, runVars, runner, frames, outbox, settled, parked,
                 faults>>

-----------------------------------------------------------------------------
(* End of processGroupMessages and of runForGroup                          *)

\* The held series is over once the cursor has passed it.
HeldAfter(h, cursor) == IF h # 0 /\ cursor >= h THEN 0 ELSE h

\* Mutant: the tail that came during the run is not queued.
NeedsRunNever(ok, cursor) == FALSE
ChatNeedsRunAfterRun(ok, cursor) == ok /\ cursor > run.from /\ arrived > cursor

\* Mutant: one retry more than MAX_RETRIES.
RetryCountOffByOne(ok) ==
  IF ok \/ retryCount > MaxRetries THEN 0 ELSE retryCount + 1
RetryCountAfter(ok) ==
  IF ok \/ retryCount >= MaxRetries THEN 0 ELSE retryCount + 1

\* The run returns ok: the wrapper's finally, then the queue's retry policy.
\* A chat is parked, until its next message, when its retries are used up and
\* when a run ends well without having moved the cursor.
Finish(ok, cursor, heldNow, more) ==
  /\ confirmed' = cursor
  /\ held' = HeldAfter(heldNow, cursor)
  /\ work' = (work \/ more \/ ChatNeedsRunAfterRun(ok, cursor))
  /\ retry' = (retry \/ (~ok /\ retryCount < MaxRetries))
  /\ retryCount' = RetryCountAfter(ok)
  /\ parked' = IF ok THEN cursor = run.from ELSE retryCount >= MaxRetries
  /\ phase' = "none"
  /\ run' = NoRun

RetryTimer ==
  /\ retry
  /\ retry' = FALSE
  /\ Enqueue
  /\ UNCHANGED <<storeVars, loopVars, retryCount, runVars, childVars, ghostVars>>

-----------------------------------------------------------------------------
(* A run: processGroupMessagesInner up to the child process                *)

\* Delivered inputs are cleaned up first; the prompt is the messages of the
\* inputs left over and everything past the cursor, less what has a receipt.
StillOwed(F) == {f \in F : ~f.done}

\* Mutant: leftover inputs are taken by their files, receipts are not asked.
PromptOfFiles(F) == MessagesIn(F) \cup ((confirmed + 1)..arrived)
PromptOf(F) == (MessagesIn(F) \cup ((confirmed + 1)..arrived)) \ receipts

Last(S) == CHOOSE m \in S : \A n \in S : n <= m

StartRun ==
  /\ phase = "none" /\ work
  /\ LET owed == StillOwed(files)
         prompt == PromptOf(owed) IN
     /\ files' = owed
     /\ IF prompt = {}
        THEN /\ confirmed' = arrived
             /\ held' = HeldAfter(held, arrived)
             /\ retryCount' = 0
             /\ UNCHANGED runVars
        ELSE /\ phase' = "prep"
             /\ run' = [NoRun EXCEPT !.target = Last(prompt), !.orig = Last(prompt),
                          !.from = confirmed, !.deferredAtStart = owed # {},
                          !.prompt = prompt]
             /\ UNCHANGED <<confirmed, held, retryCount>>
  /\ work' = FALSE
  /\ parked' = FALSE
  /\ UNCHANGED <<arrived, seen, expiring, receipts, loopVars, retry, runner, frames,
                 outbox, handed, settled, faults>>

\* Finding #24: the boundary of a run whose envelope is still on its way is
\* set aside before this run's own takes its place.
PriorBoundary ==
  IF surviving # 0 /\ confirmed < surviving /\ prior = 0 THEN surviving ELSE prior

BeginActiveRun ==
  /\ phase = "prep"
  /\ prior' = PriorBoundary
  /\ activeTarget' = run.target
  /\ ipcConfirmed' = FALSE
  /\ surviving' = Larger(surviving, run.target)
  /\ phase' = "live"
  /\ run' = [run EXCEPT !.boundary = surviving]
  /\ runner' = [st |-> "boot", msgs |-> Track(run.prompt), fresh |-> TRUE]
  /\ Handed(run.prompt)
  /\ UNCHANGED <<storeVars, piped, batches, polled, queueVars, files, frames, outbox,
                 settled, parked, faults>>

-----------------------------------------------------------------------------
(* The child process (src/agent/runner, external to this module)           *)

Emits(fs)   == /\ Len(frames) + Len(fs) <= MaxFrames
               /\ frames' = frames \o fs
HostSide    == <<storeVars, loopVars, queueVars, runVars>>
RunnerGone  == runner' = [runner EXCEPT !.st = "gone"]

\* Files that wait at the start belong to the first turn; they stay on disk.
RunnerBoots ==
  /\ runner.st = "boot"
  /\ runner' = [runner EXCEPT !.st = "turn", !.msgs = @ \cup Track(MessagesIn(files))]
  /\ files' = WithMode(files, "deferred")
  /\ UNCHANGED <<HostSide, frames, outbox, ghostVars>>

\* An early turn is restarted with everything in the directory folded in.
RunnerSupersedes ==
  /\ runner.st = "turn"
  /\ InMode("deferred") = {} /\ files # {}
  /\ Emits(<<Frame("absorbed", Cardinality(files), {}, {}, FALSE)>>)
  /\ runner' = [runner EXCEPT !.msgs = @ \cup Track(MessagesIn(files)), !.fresh = FALSE]
  /\ files' = {}
  /\ UNCHANGED <<HostSide, outbox, ghostVars>>

\* The hold before an answer takes the waiting files into it ...
RunnerHolds ==
  /\ runner.st = "turn"
  /\ InMode("waiting") # {}
  /\ Emits(<<Frame("absorbed", Cardinality(InMode("waiting")), {}, {}, FALSE)>>)
  /\ runner' = [runner EXCEPT !.msgs = @ \cup Track(MessagesIn(InMode("waiting"))),
                              !.fresh = FALSE]
  /\ files' = files \ InMode("waiting")
  /\ UNCHANGED <<HostSide, outbox, ghostVars>>

\* ... or keeps them on disk and goes on with the turn.
RunnerDefers ==
  /\ runner.st = "turn"
  /\ InMode("waiting") # {}
  /\ runner' = [runner EXCEPT !.msgs = @ \cup Track(MessagesIn(InMode("waiting"))),
                              !.fresh = FALSE]
  /\ files' = WithMode(InMode("waiting"), "deferred")
  /\ UNCHANGED <<HostSide, frames, outbox, ghostVars>>

\* A message sent with a tool in the middle of the turn.
RunnerSends ==
  /\ runner.st = "turn"
  /\ Disturbed
  /\ outbox' = Append(outbox, runner.msgs)
  /\ runner' = [runner EXCEPT !.fresh = FALSE]
  /\ run' = [run EXCEPT !.side = TRUE]
  /\ UNCHANGED <<storeVars, loopVars, queueVars, phase, files, frames, handed, settled,
                 parked>>

\* The turn's answer, with or without text.
RunnerAnswers(text) ==
  LET kept  == InMode("deferred")
      names == {f.id : f \in kept} IN
  /\ runner.st = "turn"
  /\ Emits((IF kept = {} THEN <<>>
            ELSE <<Frame("absorbed", Cardinality(kept), {}, {}, FALSE)>>)
           \o <<Frame("result", 0, names, runner.msgs, text)>>)
  /\ files' = WithMode(kept, "final")
  /\ runner' = [runner EXCEPT !.st = "wait", !.fresh = FALSE]
  /\ UNCHANGED <<HostSide, outbox, ghostVars>>

\* The files that wait after an answer are taken off the disk: the next turn.
RunnerTakesNext ==
  /\ runner.st = "wait"
  /\ InMode("waiting") # {}
  /\ Emits(<<Frame("consumed", Cardinality(InMode("waiting")), {}, {}, FALSE)>>)
  /\ runner' = [runner EXCEPT !.st = "turn",
                              !.msgs = Track(MessagesIn(InMode("waiting")))]
  /\ files' = files \ InMode("waiting")
  /\ UNCHANGED <<HostSide, outbox, ghostVars>>

RunnerLeaves ==
  /\ runner.st = "wait"
  /\ RunnerGone
  /\ UNCHANGED <<HostSide, files, frames, outbox, ghostVars>>

\* A turn fails; early enough, Codex had not started at all.
RunnerFails ==
  /\ runner.st \in {"boot", "turn"}
  /\ \E early \in {FALSE, runner.fresh} :
       Emits(<<Frame("error", 0, {}, {}, early)>>)
  /\ RunnerGone
  /\ UNCHANGED <<HostSide, files, outbox, ghostVars>>

-----------------------------------------------------------------------------
(* Frames of the child, in order                                           *)

NextFrame(kind) == frames # <<>> /\ Head(frames).kind = kind

\* The answer to come covers the first n piped batches.
FollowUpsAbsorbed ==
  LET n     == Smaller(Head(frames).n, Len(batches))
      above == IF n = 0 THEN 0 ELSE batches[n] IN
  /\ NextFrame("absorbed")
  /\ batches' = DropFirst(batches, n)
  /\ IF above > run.target
     THEN /\ run' = [run EXCEPT !.target = above]
          /\ activeTarget' = Larger(activeTarget, above)
          /\ surviving' = Larger(surviving, above)
     ELSE UNCHANGED <<run, activeTarget, surviving>>
  /\ frames' = Tail(frames)
  /\ UNCHANGED <<storeVars, piped, ipcConfirmed, prior, polled, queueVars, phase,
                 runner, files, outbox, ghostVars>>

FollowUpsConsumed ==
  /\ NextFrame("consumed")
  /\ batches' = DropFirst(batches, Head(frames).n)
  /\ frames' = Tail(frames)
  /\ UNCHANGED <<storeVars, piped, activeTarget, ipcConfirmed, surviving, prior,
                 polled, queueVars, runVars, runner, files, outbox, ghostVars>>

ErrorFrame ==
  /\ NextFrame("error")
  /\ run' = [run EXCEPT !.err = TRUE, !.preStart = Head(frames).text]
  /\ frames' = Tail(frames)
  /\ UNCHANGED <<storeVars, loopVars, queueVars, phase, runner, files, outbox, ghostVars>>

\* A turn that answered by IPC and kept files gets a text from the host.
IsRouted(f) == f.text \/ (f.names # {} /\ ipcConfirmed)

\* acknowledgeDeferredInputCheckpoints: the receipts of the files the answer
\* covers are saved, then the files are removed.
Acknowledged(names) == {f \in files : f.id \in names}
Receipted(names)    == receipts \cup MessagesIn(Acknowledged(names))

\* The answer reached the chat.
ResultDelivered ==
  LET f == Head(frames) IN
  /\ NextFrame("result") /\ IsRouted(f)
  /\ receipts' = Receipted(f.names)
  /\ files' = files \ Acknowledged(f.names)
  /\ confirmed' = CursorAfterTurn(~run.initial, run.target)
  /\ piped' = IF run.initial THEN 0 ELSE piped
  /\ run' = [run EXCEPT !.initial = TRUE, !.sent = TRUE, !.answered = TRUE]
  /\ Settled(f.msgs)
  /\ frames' = Tail(frames)
  /\ UNCHANGED <<arrived, seen, seriesVars, batches, activeTarget, ipcConfirmed, surviving,
                 prior, polled, queueVars, phase, runner, outbox, handed, parked,
                 faults>>

\* The send failed, or there was nothing to send.
ResultNotDelivered ==
  /\ NextFrame("result")
  /\ run' = [run EXCEPT !.answered = @ \/ Head(frames).text]
  /\ Settled(Head(frames).msgs)
  /\ frames' = Tail(frames)
  /\ UNCHANGED <<storeVars, loopVars, queueVars, phase, runner, files, outbox, handed,
                 parked, faults>>

-----------------------------------------------------------------------------
(* IPC envelopes: advanceCursorAfterDeliveredIpc                           *)

ClearSurviving(cursor, target) ==
  IF target = 0 /\ cursor >= surviving THEN 0 ELSE surviving

\* A late envelope of the run before: only to that run's boundary.
IsPriorRun == prior # 0 /\ confirmed < prior

PriorRunEnvelope ==
  /\ confirmed' = prior
  /\ UNCHANGED <<piped, ipcConfirmed, surviving>>

CurrentEnvelope ==
  LET target == IF activeTarget # 0 THEN activeTarget ELSE surviving
      cursor == CursorAfterTurn(~ipcConfirmed, target) IN
  IF target = 0 /\ piped = 0
  THEN UNCHANGED <<confirmed, piped, ipcConfirmed, surviving>>
  ELSE /\ confirmed' = cursor
       /\ piped' = IF ipcConfirmed THEN 0 ELSE piped
       /\ ipcConfirmed' = (ipcConfirmed \/ activeTarget # 0)
       /\ surviving' = ClearSurviving(cursor, activeTarget)

EnvelopeDelivered ==
  /\ outbox # <<>>
  /\ prior' = 0
  /\ IF IsPriorRun THEN PriorRunEnvelope ELSE CurrentEnvelope
  /\ Settled(Head(outbox))
  /\ outbox' = Tail(outbox)
  /\ UNCHANGED <<arrived, seen, seriesVars, receipts, batches, activeTarget, polled,
                 queueVars, runVars, runner, files, frames, handed, parked, faults>>

\* A scheduled task of the chat sends a message: no turn stands behind it.
TaskSends ==
  /\ phase = "none"
  /\ Disturbed
  /\ outbox' = Append(outbox, {})
  /\ UNCHANGED <<HostSide, runner, files, frames, handed, settled, parked>>

-----------------------------------------------------------------------------
(* After the child: what becomes of the run                                *)

Ambiguous == run.side /\ (run.err \/ ~run.sent)

\* endActiveRun, then the synchronous decision which notice, if any, is due.
AfterChild ==
  IF ~run.sent /\ (run.err \/ ~run.answered) /\ ~Leftover /\ ~Ambiguous
  THEN IF run.err /\ run.preStart THEN "holding" ELSE "failing"
  ELSE IF run.err /\ ~run.sent THEN "noticing" ELSE "settling"

RunEnds ==
  /\ phase = "live"
  /\ runner.st = "gone" /\ frames = <<>>
  /\ activeTarget' = 0 /\ batches' = <<>> /\ ipcConfirmed' = FALSE
  /\ surviving' = ClearSurviving(confirmed, 0)
  /\ phase' = AfterChild
  /\ runner' = NoRunner
  /\ files' = WithMode(files, "waiting")
  /\ UNCHANGED <<storeVars, piped, prior, polled, queueVars, run, frames, outbox,
                 ghostVars>>

\* deliverCodexOnlyFailure: the apology, delivered or not, ends the run.
FailureReplied(ok) ==
  LET cursor == IF ok THEN CursorAfterConfirmedSend(confirmed, run.target, 0)
                ELSE confirmed IN
  /\ phase = "failing"
  /\ Finish(ok, cursor, held, FALSE)
  /\ Settled(IF ok THEN UpTo(run.target) ELSE {})
  /\ UNCHANGED <<arrived, seen, expiring, receipts, loopVars, childVars, handed,
                 faults>>

\* holdCodexPreStartFailure: the window and, unless it was there before the
\* run, the surviving boundary are dropped ...
HoldClears ==
  /\ phase = "holding"
  /\ piped' = 0
  /\ surviving' = IF run.boundary > confirmed THEN run.boundary ELSE 0
HeldCursor == Larger(held, run.target)

\* ... and the messages stay before the cursor for the replay,
PreStartHeld ==
  /\ HoldClears
  /\ Finish(TRUE, confirmed, HeldCursor, FALSE)
  /\ UNCHANGED <<arrived, seen, expiring, receipts, batches, activeTarget,
                 ipcConfirmed, prior, polled, childVars, handed, settled, faults>>

\* or the series is past its age, the cursor passes it and a notice is sent.
PreStartExpired ==
  /\ HoldClears
  /\ held # 0 /\ expiring = 0
  /\ confirmed' = Larger(confirmed, HeldCursor)
  /\ expiring' = confirmed'
  /\ held' = 0
  /\ phase' = "expiring"
  /\ Settled(UpTo(HeldCursor))
  /\ UNCHANGED <<arrived, seen, receipts, batches, activeTarget, ipcConfirmed, prior,
                 polled, queueVars, run, childVars, handed, parked, faults>>

\* notifyExpiredPreStartSeries: after the notice, sent or not, what came since
\* is queued.  A run that gave the series up itself ends here.
ExpiryNoticed ==
  /\ expiring # 0
  /\ expiring' = 0
  /\ IF phase = "expiring"
     THEN Finish(TRUE, confirmed, held, arrived > expiring)
     ELSE /\ work' = (work \/ arrived > expiring)
          /\ UNCHANGED <<confirmed, held, retry, retryCount, parked, runVars>>
  /\ UNCHANGED <<arrived, seen, receipts, loopVars, childVars, handed, settled, faults>>

\* The notice of a run that failed after side effects or with inputs left.
NoticeReplied(ok) ==
  LET moves == ok /\ ~(run.deferredAtStart /\ Leftover) IN
  /\ phase = "noticing"
  /\ run' = [run EXCEPT !.sent = ok]
  /\ confirmed' = IF moves THEN Larger(confirmed, run.target) ELSE confirmed
  /\ Settled(IF moves THEN UpTo(run.target) ELSE {})
  /\ phase' = "settling"
  /\ UNCHANGED <<arrived, seen, seriesVars, receipts, loopVars, queueVars, childVars, handed,
                 parked, faults>>

\* deferredContinuationRecovery: inputs are left over; the original batch is
\* not replayed, the inputs are.
SettleLeftover ==
  LET passes == ~run.deferredAtStart /\ confirmed < run.orig IN
  /\ Leftover
  /\ Finish(FALSE, IF passes THEN run.orig ELSE confirmed, held, FALSE)
  /\ piped' = 0
  /\ Settled(IF passes THEN UpTo(run.orig) ELSE {})

\* A host action was done and no answer delivered: never replayed.
SettleAmbiguous ==
  LET cursor == CursorAfterTurn(~run.initial, run.target) IN
  /\ ~Leftover /\ Ambiguous
  /\ Finish(TRUE, cursor, held, FALSE)
  /\ piped' = 0
  /\ Settled(UpTo(cursor))

\* The window is dropped; follow-ups it held without an answer ask for a
\* fresh run.  A clean run whose answer could not be sent ends well.
SettleWindow ==
  /\ ~Leftover /\ ~Ambiguous
  /\ Finish(~HasUnconfirmedPiped /\ ~(run.err /\ ~run.sent), confirmed, held, FALSE)
  /\ piped' = IF run.err /\ run.sent /\ ~HasUnconfirmedPiped THEN piped ELSE 0
  /\ UNCHANGED settled

Settle ==
  /\ phase = "settling"
  /\ SettleLeftover \/ SettleAmbiguous \/ SettleWindow
  /\ UNCHANGED <<arrived, seen, expiring, receipts, batches, activeTarget, ipcConfirmed,
                 surviving, prior, polled, childVars, handed, faults>>

-----------------------------------------------------------------------------
(* The held series, at the top of a tick of the loop                       *)

TickOfIdleChat == polled = None /\ held # 0 /\ phase = "none"

SettleHeld ==
  /\ polled = None /\ held # 0
  /\ confirmed >= held
  /\ held' = 0
  /\ parked' = (parked \/ arrived > confirmed)
  /\ UNCHANGED <<arrived, seen, confirmed, expiring, receipts, loopVars, queueVars,
                 runVars, childVars, handed, settled, faults>>

\* The pause is over: run again, or drop a series with nothing behind it.
ReplayDue ==
  /\ TickOfIdleChat /\ confirmed < held
  /\ Enqueue
  /\ UNCHANGED <<storeVars, loopVars, retry, retryCount, runVars, childVars, ghostVars>>

\* The series is too old: the cursor passes it, the notice is sent in the
\* background.  (One notice at a time: bound of the model.)
ReplayExpires ==
  /\ TickOfIdleChat /\ confirmed < held /\ expiring = 0
  /\ held' = 0
  /\ confirmed' = held
  /\ expiring' = held
  /\ piped' = 0
  /\ Settled(UpTo(held))
  /\ UNCHANGED <<arrived, seen, receipts, batches, activeTarget, ipcConfirmed,
                 surviving, prior, polled, queueVars, runVars, childVars, handed,
                 parked, faults>>

-----------------------------------------------------------------------------
(* Crash and restart                                                       *)

\* Memory is gone, the child with it; the rows, the files and the envelopes
\* stay.  recoverPendingMessages asks for a run for what is past the cursor or
\* left in a file, unless the held series has outlived its age.
Restart(store) ==
  /\ Disturbed
  /\ store
  /\ piped' = 0 /\ batches' = <<>> /\ activeTarget' = 0 /\ ipcConfirmed' = FALSE
  /\ surviving' = 0 /\ prior' = 0 /\ polled' = None
  /\ retry' = FALSE /\ retryCount' = 0
  /\ \E expired \in {FALSE, held # 0} :
       /\ work' = (~expired /\ (arrived > confirmed \/ files # {}))
       /\ parked' = (expired /\ confirmed >= held)
  /\ phase' = "none" /\ run' = NoRun
  /\ runner' = NoRunner /\ frames' = <<>>
  /\ expiring' = 0
  /\ UNCHANGED <<arrived, seen, confirmed, held, outbox, handed>>

Crash ==
  Restart(/\ files' = WithMode(files, "waiting")
          /\ UNCHANGED <<receipts, settled>>)

\* After the receipt of a delivered answer was saved and before the files are
\* removed and the cursor moved.
MarkDone(names) ==
  {File(f.id, f.msgs, "waiting", f.done \/ f.id \in names) : f \in files}
CrashAfterReceipt ==
  /\ NextFrame("result") /\ IsRouted(Head(frames))
  /\ Restart(/\ receipts' = Receipted(Head(frames).names)
             /\ files' = MarkDone(Head(frames).names)
             /\ Settled(Head(frames).msgs))

-----------------------------------------------------------------------------
PollLoop == Arrive \/ PollRead \/ PollDispatch \/ SettleHeld \/ ReplayDue \/ ReplayExpires
HostRun  == \/ RetryTimer \/ StartRun \/ BeginActiveRun
            \/ FollowUpsAbsorbed \/ FollowUpsConsumed \/ ErrorFrame
            \/ ResultDelivered \/ ResultNotDelivered \/ RunEnds
            \/ \E ok \in BOOLEAN : FailureReplied(ok) \/ NoticeReplied(ok)
            \/ PreStartHeld \/ PreStartExpired \/ ExpiryNoticed
            \/ Settle
Child    == \/ RunnerBoots \/ RunnerSupersedes \/ RunnerHolds \/ RunnerDefers
            \/ RunnerSends \/ (\E text \in BOOLEAN : RunnerAnswers(text))
            \/ RunnerTakesNext \/ RunnerLeaves \/ RunnerFails
Envelope == EnvelopeDelivered \/ TaskSends

Next == PollLoop \/ HostRun \/ Child \/ Envelope \/ Crash \/ CrashAfterReceipt

Spec == Init /\ [][Next]_vars

-----------------------------------------------------------------------------
(* Properties                                                              *)

Phases    == {"none", "prep", "live", "failing", "holding", "expiring", "noticing",
              "settling"}
FileType  == [id : Nat, msgs : (SUBSET Messages) \ {{}}, done : BOOLEAN,
              mode : {"waiting", "deferred", "final"}]
FrameType == [kind : {"absorbed", "consumed", "result", "error"}, n : Nat,
              names : SUBSET Nat, msgs : SUBSET Messages, text : BOOLEAN]
RunType   == [target : Cursors, orig : Cursors, from : Cursors, boundary : Cursors,
              deferredAtStart : BOOLEAN, prompt : SUBSET Messages, initial : BOOLEAN,
              sent : BOOLEAN, answered : BOOLEAN, err : BOOLEAN, side : BOOLEAN,
              preStart : BOOLEAN]

TypeOK ==
  /\ arrived \in Cursors /\ seen \in Cursors /\ confirmed \in Cursors
  /\ held \in Cursors /\ expiring \in Cursors
  /\ receipts \subseteq Messages
  /\ piped \in Cursors /\ activeTarget \in Cursors
  /\ surviving \in Cursors /\ prior \in Cursors
  /\ batches \in Seq(Messages) /\ ipcConfirmed \in BOOLEAN
  /\ polled \in [from : Cursors, to : Cursors]
  /\ work \in BOOLEAN /\ retry \in BOOLEAN /\ retryCount \in 0..MaxRetries
  /\ phase \in Phases /\ run \in RunType
  /\ runner \in [st : {"off", "boot", "turn", "wait", "gone"}, msgs : SUBSET Messages,
                 fresh : BOOLEAN]
  /\ files \subseteq FileType /\ IsFiniteSet(files)
  /\ frames \in Seq(FrameType)
  /\ outbox \in Seq(SUBSET Messages)
  /\ handed \subseteq Messages /\ settled \subseteq Messages
  /\ parked \in BOOLEAN /\ faults \in 0..MaxFaults

\* The confirmed cursor never moves back, through any mix of deliveries,
\* envelopes of earlier runs, failures, replays and crashes.
CursorMonotone == [][confirmed' >= confirmed]_vars

\* The cursor passes a message only after the message was put before a model
\* or into an input file.
HandedBeforePassed == UpTo(confirmed) \subseteq handed

\* A chat without a run that has seen messages past its cursor is queued, waits
\* for a retry, a replay or the end of a notice, or the poll is about to
\* dispatch it, unless the queue let go of it (`parked`).
NothingForgotten ==
  phase = "none" /\ polled = None /\ seen > confirmed
    => work \/ retry \/ held # 0 \/ expiring # 0 \/ parked

\* An answer that was delivered and receipted is not asked for again after a
\* crash before its inputs were removed and its cursor saved: a run starts with
\* none of its messages in the prompt and none of its inputs in the directory.
ReceiptedNotReplayed ==
  phase = "prep" => /\ run.prompt \cap receipts = {}
                    /\ \A f \in files : ~f.done

\* A message the cursor has passed was answered by a turn, delivered or not, or
\* given up with a word to the user, or is in an input file: a runner that dies
\* before it answers the follow-ups in the window does not lose them.
FollowUpsNotLost ==
  phase = "none" /\ outbox = <<>>
    => UpTo(confirmed) \subseteq settled \cup MessagesIn(files)
=============================================================================
