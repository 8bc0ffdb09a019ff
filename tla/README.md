# Skoobi Agent: TLA+ models and proofs

Skoobi Agent is a self-hosted, Telegram-first assistant written in TypeScript.
One orchestrator process owns a SQLite database; it starts one sandboxed runner
process per agent run and talks to it through files; a dashboard is a second
process on the same database. This directory holds TLA+ modules of the parts
whose correctness depends on the order of events, the TLC configurations that
check them on small instances, and theorems about them checked by TLAPS for
every value of the constants.

## 1. Inventory

Paths are under `src/packages` unless they start with `src/`; `orchestrator/`
is `src/packages/core/src/orchestrator`.

| Component | State it keeps | Operations | Correct when |
|---|---|---|---|
| Group queue (`orchestrator/group-queue.ts`) | per chat: run flags, pending messages and tasks, process, stop flag, retry count; slot count, waiting line, timers | enqueue message / task, register process, idle notice, pipe a message, close, stop, end of run, drain, retry, shutdown | one run per chat; slots never leak; no lost wake-up; first come first served; a stop and a failed turn are not lost |
| Provider circuit breaker (`providers/src/provider-circuit-breaker.ts`) | one row per provider: state, failure count, deadlines, probe token | decide, renew, success, failure | one probe at a time; only it closes the circuit; stragglers change nothing; never locked out |
| Task scheduler (`orchestrator/task-scheduler.ts`, `task-next-run.ts`) | rows of tasks, run log, leases, restart gate | poll, claim, renew, run, bookkeeping, release | no second run within a lease, also over a restart; leases do not leak; failures are limited; due tasks run |
| Task commands (`orchestrator/ipc.ts`), task buttons (`dashboard/src/actions.ts`) | the same rows, from other actors | schedule, pause, resume, update, cancel, cleanup; pause, run now, delete | a status changes only as the tools promise |
| Message loop (`orchestrator/message-loop.ts`, `ingestion.ts`) | cursors of confirmed, piped and targeted messages | poll, pipe, run, outcome of a turn, recovery at start | each message answered, none twice |
| Continuation and replay (`timeout-continuation.ts`, `deferred-continuation.ts`, `prestart-replay.ts`) | durable records plus files in the runner's input directory | stage, claim, cache delivery, settle, retire | a timed-out turn is executed at most once more; its answer may retry transport only |
| Payments (`payments/src/payment-service.ts`) | a JSON store of subscriptions | start, confirm, polling sweep, reconciliation | paid iff entitled, sooner or later; a settled order is not reopened |
| Peer inbox (`orchestrator/peer-inbox.ts`) | events and delivery parts in SQLite, envelope files | ingest, context notice, deliver, receipt | a part is sent at most once; superseded results are not sent |
| Image jobs (`image-pipeline.ts`, rows in `db.ts`) | job row with attempts, artifacts, deliveries, notices | claim, record, retry, deliver, notify | an old attempt cannot fail a newer one; one notice |
| Media intake (`media-intake-store.ts`) | job rows with leases and revisions, notices | enqueue, claim, advance, settle, recover | every write is fenced by token and revision |
| Task authorization (`task-authorization.ts`) | capabilities and one-use grants in memory | issue, derive, consume, revoke, expire | a grant is used once, within its turn |
| Quota (`billing/src/quota.ts`) | accounts and a ledger | preflight, charge, plan changes | a turn is charged once |
| Memory state (`memory-state-store.ts`) | revisioned records | mutate, forget | a mutation applies once, to the revision it read |
| Event store, traces, artifacts, registries, router, heartbeat, channels, runtimes, runner, gateways, voice, telemetry, setup | see `PROJECT.json`, "components" | | not planned, with the reason beside each |

How they interact:

- a channel stores a message and calls `enqueueMessageCheck`; the queue starts
  `processGroupMessages`, which asks the circuit whether the provider may be
  used, starts a runner, registers its process with the queue, pipes later
  messages into it, and reports the outcome to the circuit;
- the scheduler's poll claims a lease and calls `enqueueTask`; the queue starts
  the closure when the chat has a slot;
- agents send commands as files that the orchestrator handles one at a time;
  the dashboard writes the same rows from its own process;
- a restart loses everything in memory: queue, timers, runs, grants. Rows
  survive, and each component has its own way to tell a live row from a dead
  one (boot epoch in the circuit, lease in the scheduler, `sending` rows in the
  peer inbox).

What is hard: callbacks of many runs, timers and commands meet in one process;
handlers read state before an `await` and use it after; rows are written one
statement at a time, with another process in between; restarts happen anywhere.
`PROJECT.json`, "hazards", lists these at their lines, with the properties that
watch them.

## 2. Plan

Done, in this order, the core of the system first:

1. `GroupQueue` with the abstract `RunSlots` it implements; `GroupQueueProofs`.
2. `ProviderCircuit`; `ProviderCircuitProofs`.
3. `TaskScheduler` with the commands and buttons that write its rows;
   `TaskSchedulerProofs`.
4. `Payments`; `PaymentsProofs`.
5. `MessagePipe`, the cursors and input files of one chat over its runs;
   `MessagePipeProofs`.
6. `PeerInbox`, the delivery of a remote worker's results; `PeerInboxProofs`.
7. `Continuation`, the one continuation of a turn that ran into its time limit;
   `ContinuationProofs`.

Every type invariant and every safety property of the passing runs is a theorem now.
Left are refinements:

- An abstract specification `Entitlement` (a payer has what the largest standing order
  gives), which `Payments` would implement as long as nothing fails, beside
  `NothingForFree`.
- An abstract `OneContinuation` (requested, started, answered, told), with the `starts`,
  `answered` and `record` of `Continuation` as its refinement mapping; the invariant of
  `ContinuationProofs` is the one such a proof would use.
- An abstract `AtMostOnceChannel` for the parts of `PeerInbox`.

How they compose: `GroupQueue` refines `RunSlots`; the other modules take from it
what its properties say, one run of a chat at a time (`OneRunPerGroup`), a task held
once (`TaskHeldOnce`), and the queue as one flag and a retry timer of a chat
(`MessagePipe`). `Continuation` looks closely, write by write, at the beginning and
the end of a run that `MessagePipe` follows message by message.

Not modelled, and why: section 7.

## 3. The modules and the code

### GroupQueue

JavaScript runs one callback at a time, so a public method of the class is one
action. `runForGroup` and `runTask` are coroutines: their synchronous beginning
belongs to the action that starts them, their `finally` is `RunEnds`, and
`chatRuns`/`taskRuns` count the ones in flight independently of the flags of the
class. `drainGroup` and `drainWaiting` loop; they are cut into steps by
`draining`, and nothing else is enabled in between, because they are synchronous.

| Code | Model |
|---|---|
| `GroupState.active`, `isTaskContainer`, `runningTaskId`, `pendingMessages`, `pendingTasks`, `idleWaiting`, `cancelRequested`, `retryCount` | variables of the same names, functions of the chat |
| `process`, `containerName`, `groupFolder` | one flag, `process`: all callers of `registerProcess` pass the folder |
| `activeCount`, `waitingGroups`, `shuttingDown` | variables of the same names |
| callbacks of `scheduleRetry` | `retryTimers`, a count per chat |
| termination of the process tree, the `_close` file | `killed`, `closeFile` |

Free choices: whether a run looks stale and whether the signal cooldown has
passed (both read the clock). Left out: notices of long runs and their texts,
notifiers of retries, timestamps, and a `_close` file that cannot be written, which the
code ignores (such a run ends when its idle time is over). A `_close` file left by a run is cleared at its
end; in the code the next runner removes it at boot before it looks for it.
`MaxTimers` is the only artificial bound: a message failing while a timer of an
earlier failure is still armed arms another one, and the model stops at
`MaxTimers` per chat. After `Shutdown` the queue really stops, so its run does
not check deadlock.

`RunSlots` is what the queue promises about slots: a chat holds at most one, at
most `MaxConcurrent` are held, the waiting line is served in order. The
refinement reads the slots off the coroutines in flight, not off the flags, so
that it speaks about runs and not about bookkeeping.

### ProviderCircuit

Each function of the breaker reads the row, decides and writes in one synchronous
step, so each is one action; requests interleave. Deadlines are kept as the time
left and the last failure as its age, capped just past the window, so that the
clock needs no bound. A token is the request it was issued to; the boot epoch in
it is `probeOwned`. `granted` is what a request was last told of its lease: the
properties compare it with the row. A request reports once (the outcome latch), or
ends without a report: stopped, or cut after a side effect. On the primary path a
refused request waits out a cooldown once and asks again.

Left out: `resetProviderCircuit` (nothing in the repository calls it), the
wrappers in the message loop that let a request pass when the database throws,
counts beyond `FailuresToOpen` (only reported), jumps of the wall clock.

### TaskScheduler

The orchestrator runs one callback at a time but every SQL statement commits by
itself, so what follows a run is a sequence of actions: `RunEnds` (read the row,
write the log), `Bookkeep`, `PauseGivenUp`, `Release`. `Settled` keeps the other
callbacks of the orchestrator out between them; the dashboard and a crash may come
between any two. `held` is what the queue and the closure do with the task; that
one value per task is enough is `TaskHeldOnce` of `GroupQueue`. `captured` is the
schedule type in the row the closure captured at dispatch. IPC files are handled
one by one, and `cancel_task` and `cleanup_tasks` await the calendar in the middle:
`cancelling`, `cleaning`. The commands allow for a task at any status the code
does not refuse.

`lease` and `gate` are times left. The restart worker, which takes the gate row
when no lease is live, is not in the repository; it is modelled from how
`claimTaskForRun` reads the row. `unsettled` and `pardoned` are history: the time
left of a TTL counted from the start of a run that has not settled, and that
somebody resumed the task or a crash ate the bookkeeping. Runners that outlive a
dead orchestrator are killed at boot (`sandbox-runner.ts`, called before the
loops start), so a run and an orphan of the same task do not overlap.

Left out: calendar events, authorization (whose task it is), prompts and results,
schedules that do not parse (such a task is completed at its next bookkeeping). The pause
and the log entry of a run that is refused at its beginning are one step.

### Payments

Three places hold what a plan is worth: the provider's order, the record in the
store, the limit in the quota. The module has the orders of one account; orders of
other accounts meet them only in the lists of a sweep.

| Code | Model |
|---|---|
| status and `expiresAt` of a record | `record`, `lapsed` (the clock passes `expiresAt` in `Lapse`) |
| `weekly_limit_credits`, `quota_enabled` | `quota`, one number: an unlimited plan is a level above every finite one |
| the in-flight flag of the timer | `sweeping` |
| one tick: `runPaymentPollingSweep`, then `reconcileActiveSubscriptions` in two passes | the coroutine `sweep[s]`, with stages "confirm", "expire", "check" |
| a point of the coroutine | its `step`: before an order, awaiting `getOrder`, holding its answer, quota written, awaiting the channel |
| `paid`/`final`, amount, currency and binding of an `OrderInfo` | `order`: open, paid, misfit (paid, but refused by `planOrderMismatchReason`), refunded, void (final and not paid) |

`MaxSweeps` is two so that a second tick may begin while a first one is
awaiting: with the flag it never does, and the mutated `Tick` shows what then
happens. The quota and the record are two writes (`Confirm`, `Expire`, `Check`, then
`Persist`), either of which may fail or be the last one before a crash. An answer of
the provider may be stale when it is used.

Left out: `maxPendingAgeMs`, which no caller sets; the webhook that the comments of
`confirmPlanPurchase` mention, which has no caller; validation of records and of the
catalogue; changes of the limit by an operator; a store that cannot be read, which
skips an order, or a tick, like a write that fails; an order created at the provider
of which the process has no record.

### MessagePipe

One chat of the owner on the Codex path. Messages are numbered by their ingestion
cursors, so a cursor is a number; an action is what the loop does between two
awaits.

| Code | Model |
|---|---|
| `lastTimestamp`, `lastAgentTimestamp` (saved) | `seen`, `confirmed` |
| `lastPipedTimestamp`, `pipedBatchCursors`, `activeRunTargetTimestamp` | `piped`, `batches`, `activeTarget` |
| `ipcInitialDeliveryConfirmed`, `lastDeliveredIpcTarget`, `pendingPriorIpcBoundary` | `ipcConfirmed`, `surviving`, `prior` |
| the rows one poll read, before it dispatches them | `polled` |
| the chat's entry of the queue | `work`, `retry`, `retryCount` |
| `processGroupMessagesInner`, cut at its awaits | `phase` and its locals `run` |
| `PreStartReplayBook` | `held`, `expiring` |
| delivery receipts of the router state | `receipts` |
| the runner process (external), its input directory, its frames, IPC envelopes | `runner`, `files`, `frames`, `outbox` |

The child takes input files, folds them into its turn or keeps them until the final,
and writes frames that the host may handle late. `parked` is history: the queue gave
the chat up (retries used up, or a run that ended well with messages left), which
`NothingForgotten` allows for, because the code does. `TrackAnswers` switches the
history of answers, `settled`, that only `FollowUpsNotLost` reads.

A child leaves by itself only while it waits for input; one that ends in the middle of a
turn ends with an error (`RunnerFails`), and an error frame carries no text. Left out: pings
that the host answers, admin commands and the stop command, quota, images, media and the
media frontier, triggers and threads, timeout continuations (`Continuation`), the Claude
fallback, which shares the cursors but not the input files.

### PeerInbox

The events of one job, numbered by authority, so that "current" is "greatest". The
pump is one coroutine: `pc` is its control point, a segment between two awaits is
uninterrupted but for a crash or a throw, and each write in it is a step.

| Code | Model |
|---|---|
| rows of `peer_results`, `context_state`, `context_notified_at` | `order`, `stale`, `notified` |
| rows of `peer_result_deliveries` | `parts`, part 0 the text |
| envelope files, receipt files | `inbox`, `rejected`, `receipts` |
| the tick: files, context recheck, rows, parts | `pc`, `todo`, `rows`, `left`, `sends` |
| `contextIsCurrent`, artifact bytes, `ownerAvailable`, `canDeliver` | `current`, `damaged`, `owner`, `connected`, changed by the environment |
| a send, awaited up to a deadline | `handed`: how often the channel was given the part; `wire`: on its way, or of unknown fate for good; `delivered`: known to have arrived |
| no pump: between two processes, or `createPeerInboxPump` threw | `pc = "down"` |

What the pump records of a send is what `outbound-router.ts` answers. For the text that
is the truth: `route` returns the text sent, returns null if a hook dropped it, and
throws otherwise. For a file it is not: `sendPhoto` and `sendDocument` return false
when no channel takes the file, when it is refused, and also on every error of the
channel, after which it may have arrived (`FileOutcomeLost`); they return true also when
a Telegram bot that has stopped returned without sending (`FileAckedUnsent`). After the
deadline nothing is learnt: the part stays on `wire`, which stands for every fate of it.
`SentAtMostOnce` says of the text that its record is true, and of files what remains:
given to the channel once, and none left out of a complete receipt.

A throw while the pump is made is caught by the message loop, and the process goes on
without an inbox until it is restarted: `StartupThrows` leads back to "down". A result
that is published again may come under its own id or another one; it makes no row.

Left out: the routes of factory jobs, malformed envelopes, the caps of 50 files and 50
rechecked rows, and the context the inbox gives to prompts.

### Continuation

What decides whether a timed-out request is executed again is what a crash leaves on
disk: a record, receipts, retired ids, the saved cursor, names of files. The module
therefore keeps the writes that lie ahead of the next await as a sequence, `todo`;
one step does one of them, and `Crash` may come before each. `WriteThrows`,
`RemoveFails` and `ExposeThrows` are the errors the code catches; any other throw ends
the run like a crash does.

| Code | Model |
|---|---|
| `TimeoutContinuation` (state, noticeSent, finalizedInputFiles, handled...) | `record` |
| `deferred_input_deliveries`, `timeout_superseded_inputs`, `lastAgentTimestamp` | `receipts`, `retired`, `cursor` |
| files of the input directory and their suffixes (.blocked, .superseded, quarantine) | `file` |
| the run: prompt, target cursor, piped batches, kept files | `run` |

The record is followed for the first request of the chat that is continued; the chat
has one owner and is eligible, except where `Ineligible` says otherwise. `attempts` is
1 exactly from "running" on, so it is not kept apart. Left out: the caps of 1000 names
and 5000 ids of the lists.

## 4. The runs

| Run | Module, cfg | Question | Instance |
|---|---|---|---|
| `queue` | MCGroupQueue, GroupQueue | everything about the queue: isolation, order, tasks, retries, stops, idle runs, refinement, liveness | 2 chats, 1 slot, 2 tasks, 1 retry, 1 timer; 223 720 states |
| `circuit` | MCProviderCircuit, ProviderCircuit | everything about the circuit | 3 requests with two lease lengths, opens at 2 failures; 7 695 states |
| `tasks` | MCTaskScheduler, TaskScheduler | everything about leases and runs of a task | 1 task, limit 2, 1 crash, 1 gate; 111 168 states |
| `tasks_cancelled`, `tasks_paused`, `tasks_resumed` | MCTaskScheduler | three promises the code does not keep | as `tasks` |
| `payments` | MCPayments, Payments | quota, records and notices over any course of orders and faults | 2 orders with a small and a large plan, 2 ticks, 1 crash, 1 fault; 161 148 states |
| `payments_reversal` | MCPayments | a promise the code does not keep | as `payments` |
| `pipe` | MCMessagePipe, MessagePipe | cursors, receipts and the next run over any life of a chat | 2 messages, the second by a webhook, 1 retry, 2 files, 2 frames, 2 envelopes or crashes; 2 407 318 states |
| `pipe_lost` | MCMessagePipe, MessagePipeLost | a promise the code does not keep | 3 messages, no crash and no envelope |
| `peer` | MCPeerInbox, PeerInbox | at most once, nothing superseded, an end for every event | a result with 2 files and a later notice, 2 sends a tick, 1 fault; 627 837 states |
| `continuation` | MCContinuation, Continuation | at most once, no second answer, an end with a word | 3 messages, 2 crashes, 1 failing write; 185 634 states |

Why the bounds are enough. In `queue` one slot makes a chat wait behind another, a
second task wait behind a first, and one retry distinguishes a failure that is retried
from one that is given up; liveness is checked, so there is no symmetry. What three
chats on two slots could add, that a third one passes a waiting one, or that the count
drifts, is excluded for every number of chats and slots by the theorems
(`SlotsBounded`, `LineSound`, `NobodyPasses`, `Refinement`). Three requests are a probe, a
straggler and a newcomer; the cooldown is longer than the failure window, so that
a count can be forgotten while a circuit is open. Tasks meet each other only
through the gate, `Settled` and the one command in progress, none of which names a
task; one task against all the actors is the hard case, and the theorems cover
any number. The real limit of failures is 5; with 2 there is a failure below the
limit and one at it. One crash is enough for a lease without an owner, and a
second gate would meet the same rows as the first. Two orders of different levels
are the least in which one plan ends while another stands, in both orders of size;
`Remaining` and `Deactivated` lead to a maximum, so a third adds nothing that
the larger of two does not. A fault or a crash leaves a quota without its
record; what may follow it is all in the run, and a second one meets the same
state.

In `pipe` two messages are a batch and a follow-up: one can be asked and the other
piped, absorbed, kept, left in a file or come too late; two frames let the host lag
behind the runner by one, and of two envelopes and crashes one envelope can be that of a
run which is over when it arrives, the second of its run, or cut off by a crash. That
either message comes by a webhook or not was checked too (5 095 500 states). A third message is needed only for a window that is folded too far, and
`pipe_lost` has it. A chat at rest with all messages stored does nothing more, so
deadlock is not checked in the two. In `peer` the notice can
supersede the result in the middle of its parts, and the result can come too late; three
parts and two sends a tick make a row wait, with a context that changes between two
sends, and one fault hits each write once. In `continuation` three messages are the request, a follow-up with a
file of its own and a message that comes after the answer; two crashes let the recovery
itself be cut off; 4 messages, or 3 crashes with 2 failing writes, were checked too, for
the two invariants (1 536 387 and 559 537 states).

Fairness. `GroupQueue`: a run ends because the runtime enforces a timeout on
every runner; armed timers fire; the drain loops are synchronous. Nothing is
assumed of messages, stops or shutdown. `ProviderCircuit`: time passes, turns
end, and requests keep coming, which is the premise of `NeverLockedOut`.
`TaskScheduler`: the poll repeats, the queue starts what it holds
(`WaitersServed`), a run ends, callbacks run to their end, time passes; nothing
is assumed of commands, buttons, gates or crashes. `Payments`: the timer fires and a
sweep goes on, as every await of a provider ends by its timeout (and the channel's
send by its own); whether the provider answers is not assumed, so `PaidSettles`
allows for one that does not and `LapsedExpires` holds without one. `PeerInbox`: the
message loop calls the tick again and an awaited send ends by its deadline (30 s by
default), no more. A start of the service may fail to make the pump, so that a pump, the
owner and the connection are there from some time on is the premise of
`PublishedSettles`. `Continuation`: a run goes on until it ends, and of the sends
that are tried again at every run one succeeds in the end (strong fairness, since they
are tried only then and now); that the chat is run again, by a retry, the next message
or the recovery at start, is the premise of `ClaimedEndsWithWord`.

What passes shows, beyond the tables: `MessagesServed` allows for one thing, that
scheduled tasks of the same chat can hold its messages back as long as new tasks
keep coming, since the drain takes tasks first.

### Disagreements found

- **A cancelled task can come back** (`CancelledIsFinal`). A task whose group is
  gone is paused without a look at its status, as is one that throws before the
  agent starts; from "paused" it can be resumed.
- **A paused task can run** (`OnlyActiveStarts`). The status is checked at
  dispatch, not when the queue starts the closure.
- **A finished once-task can run again** (`GaveUpNeverSucceeded`). `pause_task`
  accepts a completed task, and `resume_task` takes a paused once-task without a
  next run for one that failed.
- **A raised limit can outlive its order** (`ReversalTakesAll`). The quota is raised
  before the record is written. If the process dies in between and the order is
  charged back before the next sweep, that sweep marks the order failed without
  taking the limit back; only active records are reconciled.
- **A follow-up can be lost** (`FollowUpsNotLost`). The second answer of a run moves
  the cursor over every message piped so far, also over one piped after that turn began.
  If the runner dies before it answers that one, nobody reads it again.

`PROJECT.json`, "findings", quotes the lines.

Met while modelling, without a run of their own (the models have the behaviour, and the
properties are stated so as to allow for it):

- `message-loop.ts:12920` says an activation only raises the limit. When the current
  limit cannot be read, the plan's own level is written, even over that of a larger
  active plan.
- `message-loop.ts:8983`: an answer that could not be sent "the next recovery/loop will
  try to deliver again". A run that ends so returns true with the cursor where it was;
  the next attempt comes with the next message or restart.
- `message-loop.ts:12470`: at start, an expired held series is passed over ("continue"),
  also when newer messages wait behind it; the first tick then settles the series without
  asking for a run.
- Settling a held series, the apology of a run that had only leftover inputs, and the
  side-effect rule end without asking for a run for messages that were piped meanwhile.
- `message-loop.ts:3412`: an envelope of a scheduled task, or a second late one, that
  arrives during a run is taken for that run's and moves the cursor over its batch.
- The count of absorbed follow-ups includes leftover files of an earlier run, which are not
  among the piped batches, so that the cursor can pass a batch that is still in a file.
- A message with a receipt can be piped once more by the poll when the process died between
  its receipt and the cursor; a message piped into a runner that is already gone stays in
  its file until something else starts the chat.
- `message-loop.ts:6626` says the originals of a continuation are never run again. One that
  has an input file of its own is (it was a leftover when the request was staged), and all
  are when the process dies between the renaming of the continuation's file and the cursor.
- `message-loop.ts:9031`: "a bookkeeping error must never rerun the model". The quarantine
  protects inputs that have a file; an ordinary message that the answer covered, beyond the
  cursor, is run again. A crash in the middle of the quarantine does the same to an input.
- A crash while the reply to a stop is awaited leaves a pending continuation to run though
  the stop was consumed; a continuation that ends as cancelled with an error status is
  announced as interrupted later on.
- A file of the peer inbox that may have arrived is recorded as `suppressed`: the router
  returns false on every error of the channel (`outbound-router.ts:211-217`, `285-291`), a
  timeout included, though its own trace says `outcome_unknown` there, and
  `peer-inbox.ts:1063` takes false for held back. `src/ops/peer/MAIN-BRIDGE.md:106-107`
  has "`unknown`: the API threw, timed out, or the service restarted while sending" and
  "`suppressed`: stale, superseded, rejected, or deliberately not sent";
  `outbound-router.ts:144-145` and `peer-inbox.ts:837` ("an elapsed deadline is unknown,
  not failure") say the same of the text. Nothing is sent again for it.
- A file that was never sent can be recorded as `confirmed`, and its receipt as complete:
  `telegram.ts:5341-5344` and `5378-5381` return silently when the bot has stopped, which
  the router takes for success, and a Telegram channel of several bots is connected if any
  of them is (`5560-5562`). `MAIN-BRIDGE.md:105` has "`confirmed`: the channel API returned
  successfully".
- A receipt that cannot be written at start (`peer-inbox.ts:876-877`) throws out of
  `createPeerInboxPump`; `message-loop.ts:12102` logs "Peer result bridge configuration is
  unavailable; ordinary chat remains active", and results wait until the service is
  started again.
- `peer-inbox.ts`: a throw after the row was written, but before its file was renamed, puts a
  valid file aside as rejected (the row is served); a throw after a send leaves its part
  "sending" until the next restart; a crash between a row and its receipt leaves the receipt
  old until the row changes again.

## 5. The proofs

All theorems are about `Spec`, for every set of chats, requests, tasks and orders and
every limit allowed by the ASSUMEs of the modules: limits are positive or
natural, "none" values are not members of the sets they stand beside, the set of
chats is finite, and a lease of a probe is not shorter than the cooldown (which
`normalizeConfig` enforces).

**GroupQueueProofs.** `TypeCorrect`, `RunsIsolated` (OneRunPerGroup),
`SlotsBounded` (SlotLimit), `NoLostWakeup` (WorkConserving), `LineSound`
(WaitingLineSound), `NobodyPasses` (NoBarging) and `Refinement`
(ImplementsRunSlots). The invariant is

    TypeOK /\ OneRunPerGroup /\ FlagsAgree /\ CountAgrees /\ LineIdle /\ LineOnce
    /\ DrainPoint /\ LineOnlyWhenFull /\ WorkIsHeld

`SlotLimit` alone is not inductive: the count is right only if no run starts for
a chat that runs, which needs the line to hold idle chats only, which in the
middle of a drain needs to know where the loop is (`DrainPoint`).
`LineOnlyWhenFull` says when a chat may wait, at each point of the loop, and
gives first come first served. The lemma `SlotStep` classifies every action by
what it does to slots and line; the refinement and the action property follow
from it.

Four more theorems need of this only the types and, the middle two,
`OneRunPerGroup`: `TasksHeldOnce` (TaskHeldOnce),
`FailuresRemembered` (FailedTurnRemembered), `StopsReachTheirProcess`
(StopReachesProcess) and `IdleRunsYield` (IdleRunYieldsToTask). Each is inductive chat
by chat: its proof says what every action does to one chat's share (`HeldOnce`,
`Remembers`, `Reached`, `Yields`), and a drain, which starts another chat's work, is
the case that needs care.

`SlotLimit`, `WaitingLineSound` and `NoBarging` are not checked by the run: for the
bounded slots and the order of the line it has `ImplementsRunSlots`, of which they are
the concrete side.

**ProviderCircuitProofs.** `TypeCorrect`, `LeaseKept` (LeaseHonoured, the strengthening
`OneProbeAtATime` rests on),
`SingleProbe` (OneProbeAtATime), `CooldownKept` (CooldownNeverSlides),
`ClosedByProbe` (OnlyTheProbeCloses). The invariant adds to `LeaseHonoured` its
converse, that the holder of the live lease was told of it and has not reported
(`LeaseTold`), and that a closed circuit counts below the limit.

**TaskSchedulerProofs.** `TypeCorrect`, `LeaseKept` (LeaseCoversRun),
`LeaseReleased` (NoLeakedLease), `SingleRun` (NoSecondRun), `FailuresLimited`
(GivesUp). The lease part of the invariant says that a task in the queue or in a
run has its lease unless its row is gone (`LeaseHeld`) and that a queued task has
no unsettled run (`QueuedIsFresh`); the failure part (`LimitKnown`) says that a task
at the limit which is not pardoned is on its way to "paused", or is there.

**PaymentsProofs.** `TypeCorrect`, `RecordsSettle` (SettledStays), `PayerToldOnce`
(ToldOnce), `PayerServed` (PaidIsServed) and `NobodyServedFree` (NothingForFree).
The invariant all of them rest on, `SweepInv`, says that one tick is at work
(`OneSweep`) and that the orders in its lists and in its hand still have the status
the lists were made for (`Sound`): this is what makes it safe to write a record back
that was read before an await. Each of the last three theorems adds its own layer:
nobody was told of an order that is not active yet (`ToldInv`); an answer that a
sweep holds is still true as far as it matters, and the order whose quota is written
but whose record is not is served too (`ServedInv`); the order that is about to end no
longer counts (`FreeInv`). `PayerServed` allows for any number of crashes and faults.

**PeerInboxProofs.** `TypeCorrect`, `PartsSentOnce` (SentAtMostOnce) and
`NothingSupersededSent` (NoSupersededSent), for any number of events, parts, sends a
tick and faults. That a part is handed to the channel once does not carry itself. The
invariant adds what each state of a part says of the channel (`PartsSound`: pending
means not handed out, confirmed means handed out, nothing is under way that was not; of
the text, the row says confirmed exactly when it is known to have arrived, and sending or
unknown while it may), what a receipt says (`ReceiptsSound`), and that the locals of the pump still agree with the row
they were read from when it comes back from an await (`HandSound`), which is also why
nothing superseded is sent: the row is compared again between claim and send.

**MessagePipeProofs.** `TypeCorrect`, `NothingPassedUnread` (HandedBeforePassed),
`NothingLeftBehind` (NothingForgotten), `ReceiptsHonoured` (ReceiptedNotReplayed) and
`CursorNeverBack` (CursorMonotone), for any number of messages, retries, files, frames
and faults. The saved cursor moves to cursors noted earlier by a batch, a held series, an
envelope, an earlier run; `CursorsCovered` therefore says of each of them that all
messages up to it were handed over, `RunSound` says the same of the run's locals (before
the child starts, its prompt counts), and `HandedSound` and `ChildSound` of what lies in
files and frames. `NothingForgotten` needs one thing the property does not say: a window
that was piped past the cursor is not forgotten either (`ChatKept`), since a poll that
finds everything inside it dispatches nothing.

**ContinuationProofs.** `TypeCorrect` and `ContinuedAtMostOnce` (NeverRepeated), for any
number of messages, crashes and caught errors. The property speaks of launches; what makes
it true is the order of the writes, any of which may be the last before a crash. The
invariant is

    TypeOK /\ RecordSound /\ WritesSound /\ RunSound /\ TakenUp
    /\ BatchFresh /\ BatchPassed /\ (throws = 0 => AnsweredSound /\ WindowSound)

- `RecordSound`: the record goes its way once, and an execution is counted only after the
  claim was saved.
- `WritesSound`: which writes can be ahead together and in which order (`Wrong`, `Late`,
  `Lasting` are the forbidden pairs): receipts before removals, ids retired before the
  record is blocked, the cursor last.
- `RunSound`, `TakenUp`: what the locals of a run know at each point, and that a run goes
  past its beginning with the continuation's file in the directory only if it is pending
  or receipted.
- `BatchFresh`, `BatchPassed`: a pending batch is not settled otherwise; a started one, if
  nothing crashed, is untouched, set aside or behind the cursor.
- `AnsweredSound`, `WindowSound`: an answered message is covered by the record's inputs
  until it is behind the cursor or settled by its id. The second bounds the cursor an
  answer will cover by the window of piped messages, the files the child kept and those it
  folded; its absorb and answer steps are the ones with arithmetic on cardinalities.

Both halves of the last layer fail after a caught error (the run has such behaviours, and
`NotAnsweredAgain` allows for them), which is why they are conditional.

**NumberLemmas** holds what several of these rest on: a non-empty set of naturals has a
least element, a bounded one a greatest, the image of a finite set is finite. The
library's induction theorems take an operator as a parameter, which no installed backend
can instantiate; where an induction over numbers is needed it is an argument from the
least element, which is a plain set.

Only model-checked: the liveness properties (`WaitersServed`, `MessagesServed`,
`NeverLockedOut`, `DueServed`, `LapsedExpires`, `PaidSettles`, `PublishedSettles`,
`ClaimedEndsWithWord`), which are beyond the prover, as are fairness and ENABLED. The
properties of the runs that expect a violation are of course not theorems.

## 6. Running

    tlc -config GroupQueue.cfg MCGroupQueue.tla
    tlapm GroupQueueProofs.tla

`PROJECT.json` lists the runs, for each property a mutated definition under which
it fails, the source lines of every definition, the hazards and the theorems.

## 7. Not modelled

Most of the repository is not a protocol: adapters to messengers, prompts and their
assembly, rules over the content of messages and files, installation, a dashboard that
reads. A model of these would repeat the code and tell nothing, which is why the modules
stand for a small part of its lines. Of the parts that do have an order to get wrong:

- **Image jobs, media intake, quota.** Each transition is one SQL statement or
  transaction that compares the attempt, the lease token and revision, or a unique key
  with the row; the steps between are calls to external services. The comparison is the
  whole mechanism, and it can be read off one line.
- **Task authorization.** Grants live in maps in memory and are taken in one synchronous
  call. What can be wrong is who may hold one, which is data.
- **Memory state, event store, traces, artifacts.** One writer, one transaction for a
  change, no later step that depends on an earlier one.
- **Game factory, Google workspace, calendar.** Workflows over external services. The
  awaits that calendar calls put into task commands are in `TaskScheduler`.
- **Runtimes and runner.** `GroupQueue` takes of them that a run ends; `MessagePipe` and
  `Continuation` have the runner's handling of input files. Models, tools and sandboxes
  are outside.
- **Inside modelled parts:** what each section above lists as left out.
