----------------------------- MODULE PeerInbox -----------------------------
(***************************************************************************)
(* The inbox of results that a remote worker's coordinator publishes for   *)
(* the owner, packages/core/src/orchestrator/peer-inbox.ts: signed files   *)
(* become rows, every row is piped once to a running model and its parts   *)
(* (the text is part 0, the files follow) are sent to the owner's chat.    *)
(*                                                                         *)
(* The events are those of one job, numbered by authority (revision, kind, *)
(* time), so a greater number supersedes a smaller one; they are published *)
(* and received in any order.  The pump runs in one process: everything    *)
(* between two awaits is one segment in which only a crash can come, and   *)
(* the steps of a segment are the writes a crash can fall between.  The    *)
(* coordinator, the owner's context, the channel and the network are       *)
(* external.  What the pump is told of a send is what outbound-router.ts   *)
(* answers, which is not always what became of it.  Not in the model:      *)
(* factory jobs with a route of their own, malformed envelopes, and the    *)
(* caps of 50 files and 50 rechecked rows.                                 *)
(***************************************************************************)
EXTENDS Integers, Sequences, FiniteSets

CONSTANTS mode,         \* what each event of the job asks for (signed, never changes)
          files,        \* how many files each event carries
          MaxEvent,     \* bound of the model: events of the job
          MaxPart,      \* bound of the model: files of an event
          RowLimit,     \* LIMIT 12 of the rows a tick serves
          SendLimit,    \* the 4 sends of a tick
          MaxFaults     \* bound of the model: crashes, failing writes, damaged files, files
                        \* published again, losses of the owner or the connection

\* The text and the files, the text alone (progress, or work not accepted), nothing
\* (notify is false), or a notice of the host, which has no files.
ASSUME EventsAssumption ==
  /\ mode \in [1..MaxEvent -> {"full", "text", "silent", "notice"}]
  /\ files \in [1..MaxEvent -> 0..MaxPart]
  /\ \A e \in 1..MaxEvent : mode[e] = "notice" => files[e] = 0
ASSUME LimitsAssumption ==
  /\ {MaxEvent, RowLimit, SendLimit} \subseteq Nat \ {0}
  /\ {MaxPart, MaxFaults} \subseteq Nat

VARIABLES
  inbox,      \* events whose file waits
  rejected,   \* events whose file was put aside
  order,      \* received events, oldest first
  stale,      \* events with context_state 'stale'
  notified,   \* events with context_notified_at
  parts,      \* state of every part, "none" before the event is received
  receipts,   \* the receipt file of every event
  pc,         \* control point of the pump; "down": there is none, between processes
              \* or in a process that could not make one
  todo,       \* the files, or at the start the receipts, still to do
  rows,       \* positions in order of the rows still to serve, the lowest in hand
  left,       \* the parts of the row in hand still to send, the lowest in hand
  sends,      \* sends of the tick
  current,    \* events whose context still holds
  damaged,    \* events whose files no longer have their recorded bytes
  owner,      \* ownerAvailable
  connected,  \* canDeliver
  handed,     \* how often a part was handed to the channel
  wire,       \* parts on their way; once their answer is no longer awaited they have
              \* arrived, or will, or are lost, and no one learns it
  delivered,  \* parts that are known to have arrived
  faults      \* the faults so far

rowVars  == <<order, stale, notified, parts>>
tickVars == <<todo, rows, left, sends>>
envVars  == <<current, damaged, owner, connected>>
chanVars == <<handed, wire, delivered>>
vars == <<inbox, rejected, rowVars, receipts, pc, tickVars, envVars, chanVars,
          faults>>

Events == 1..MaxEvent
Parts  == 0..MaxPart
States == {"none", "pending", "sending", "confirmed", "unknown", "suppressed"}
Known  == {order[i] : i \in DOMAIN order}
Quiet  == pc \in {"idle", "await", "down"}

NoReceipt == [delivery |-> "none", stale |-> FALSE]

Init ==
  /\ inbox = {} /\ rejected = {}
  /\ order = <<>> /\ stale = {} /\ notified = {}
  /\ parts = [e \in Events |-> [p \in Parts |-> "none"]]
  /\ receipts = [e \in Events |-> NoReceipt]
  /\ pc = "idle" /\ todo = {} /\ rows = {} /\ left = {} /\ sends = 0
  /\ current = Events /\ damaged = {} /\ owner = TRUE /\ connected = TRUE
  /\ handed = [e \in Events |-> [p \in Parts |-> 0]]
  /\ wire = {} /\ delivered = {} /\ faults = 0

-----------------------------------------------------------------------------
(* Rows and receipts                                                       *)

\* Part 0 is the text; only accepted work has its files delivered.
Carries(e, p) == p <= files[e]
Deliverable(e, p) ==
  /\ mode[e] # "silent"
  /\ p > 0 => mode[e] = "full"
Received(e) == [p \in Parts |-> IF ~Carries(e, p) THEN "none"
                                ELSE IF Deliverable(e, p) THEN "pending" ELSE "suppressed"]

PartsIn(e, state) == {p \in Parts : parts[e][p] = state}
Suppressed(e) ==
  [p \in Parts |-> IF parts[e][p] = "pending" THEN "suppressed" ELSE parts[e][p]]

\* Mutant: the event received last is taken for the latest.
IsLatestReceived(e) == e = order[Len(order)]
IsCurrentEvent(e) == \A d \in Known : d <= e

Delivery(e) ==
  IF mode[e] = "silent" THEN "disabled"
  ELSE IF PartsIn(e, "unknown") # {} THEN "unknown"
  ELSE IF PartsIn(e, "suppressed") # {} THEN "suppressed"
  ELSE IF \A p \in Parts : Carries(e, p) => parts[e][p] = "confirmed" THEN "complete"
  ELSE "pending"
ReceiptOf(e) == [delivery |-> Delivery(e), stale |-> e \notin current]
WriteReceipt(e) == receipts' = [receipts EXCEPT ![e] = ReceiptOf(e)]

Lowest(S) == CHOOSE e \in S : \A d \in S : e <= d

\* The row in hand, and its part in hand.
Row  == order[Lowest(rows)]
Part == Lowest(left)

-----------------------------------------------------------------------------
(* A tick: the files first                                                 *)

\* A tick while one is under way returns at once (busy).
TickStarts ==
  /\ pc = "idle"
  /\ pc' = "ingest"
  /\ todo' = IF owner THEN inbox ELSE {}
  /\ UNCHANGED <<inbox, rejected, rowVars, receipts, rows, left, sends, envVars,
                 chanVars, faults>>

\* The files of a current event must have their recorded bytes.
Unfit(e) == e \in current /\ e \in damaged /\ mode[e] # "notice"

FileRejected ==
  /\ pc = "ingest" /\ todo # {}
  /\ LET e == Lowest(todo) IN
     /\ Unfit(e)
     /\ inbox' = inbox \ {e}
     /\ rejected' = rejected \cup {e}
     /\ todo' = todo \ {e}
  /\ UNCHANGED <<rowVars, receipts, pc, rows, left, sends, envVars, chanVars, faults>>

\* ingestPeerInboxEvent: one transaction; an event seen before, under its own id or,
\* with the same result, under another, is a duplicate: no row, the file is done with.
EventReceived ==
  /\ pc = "ingest" /\ todo # {}
  /\ LET e == Lowest(todo) IN
     /\ ~Unfit(e)
     /\ IF e \in Known THEN UNCHANGED <<order, parts>>
        ELSE /\ order' = Append(order, e)
             /\ parts' = [parts EXCEPT ![e] = Received(e)]
  /\ pc' = "rename"
  /\ UNCHANGED <<inbox, rejected, stale, notified, receipts, tickVars, envVars,
                 chanVars, faults>>

FileProcessed ==
  /\ pc = "rename"
  /\ inbox' = inbox \ {Lowest(todo)}
  /\ todo' = todo \ {Lowest(todo)}
  /\ pc' = "ingest"
  /\ UNCHANGED <<rejected, rowVars, receipts, rows, left, sends, envVars, chanVars,
                 faults>>

-----------------------------------------------------------------------------
(* ... then received results whose context no longer holds                 *)

Outdated == {e \in Known : e \notin stale /\ e \notin current}

ContextRechecked ==
  /\ pc = "ingest" /\ todo = {}
  /\ \E i \in DOMAIN order :
       LET e == order[i] IN
       /\ e \in Outdated
       /\ stale' = stale \cup {e}
       /\ notified' = notified \ {e}
       /\ parts' = IF mode[e] = "notice" THEN parts
                   ELSE [parts EXCEPT ![e] = Suppressed(e)]
       /\ rows' = {i}
  /\ pc' = "recheck"
  /\ UNCHANGED <<inbox, rejected, order, receipts, todo, left, sends, envVars,
                 chanVars, faults>>

RecheckReceipt ==
  /\ pc = "recheck"
  /\ WriteReceipt(Row)
  /\ rows' = {}
  /\ pc' = "ingest"
  /\ UNCHANGED <<inbox, rejected, rowVars, todo, left, sends, envVars, chanVars,
                 faults>>

-----------------------------------------------------------------------------
(* ... then the rows with something left to do                             *)

\* Mutant: a piped result is done with.
DueUntilPiped(e) == e \notin notified
Due(e) == e \notin notified \/ PartsIn(e, "pending") # {}
DueRows == {i \in DOMAIN order : Due(order[i])}
FirstOf(S, n) == {i \in S : Cardinality({j \in S : j < i}) < n}

RowsRead ==
  /\ pc = "ingest" /\ todo = {} /\ Outdated = {}
  /\ rows' = FirstOf(DueRows, RowLimit)
  /\ sends' = 0
  /\ pc' = "rows"
  /\ UNCHANGED <<inbox, rejected, rowVars, receipts, todo, left, envVars, chanVars,
                 faults>>

RowsDone ==
  /\ pc = "rows" /\ rows = {}
  /\ pc' = "idle"
  /\ UNCHANGED <<inbox, rejected, rowVars, receipts, tickVars, envVars, chanVars,
                 faults>>

RowSkipped ==
  /\ pc = "rows" /\ rows # {} /\ ~owner
  /\ rows' = rows \ {Lowest(rows)}
  /\ UNCHANGED <<inbox, rejected, rowVars, receipts, pc, todo, left, sends, envVars,
                 chanVars, faults>>

RowSuperseded ==
  /\ pc = "rows" /\ rows # {} /\ owner
  /\ ~IsCurrentEvent(Row)
  /\ parts' = [parts EXCEPT ![Row] = Suppressed(Row)]
  /\ notified' = notified \cup {Row}
  /\ pc' = "receipt"
  /\ UNCHANGED <<inbox, rejected, order, stale, receipts, tickVars, envVars,
                 chanVars, faults>>

\* The result is piped to a running model, once, and its parts are read.
RowOpened ==
  /\ pc = "rows" /\ rows # {} /\ owner
  /\ IsCurrentEvent(Row)
  /\ notified' = notified \cup {Row}
  /\ left' = PartsIn(Row, "pending")
  /\ pc' = "parts"
  /\ UNCHANGED <<inbox, rejected, order, stale, parts, receipts, todo, rows, sends,
                 envVars, chanVars, faults>>

-----------------------------------------------------------------------------
(* ... and their parts, one by one                                         *)

SetPart(e, p, state) == parts' = [parts EXCEPT ![e][p] = state]

\* Mutant: one send too many.
SendsUsedUpLate == sends > SendLimit
SendsUsedUp == sends >= SendLimit

Held == SendsUsedUp \/ ~owner \/ ~connected
\* A result that is out of date is not sent, a notice of the host is.
OutOfDate(e) == e \notin current /\ mode[e] # "notice"

PartsEnd ==
  /\ pc = "parts"
  /\ left = {} \/ Held
  /\ left' = {}
  /\ pc' = "receipt"
  /\ UNCHANGED <<inbox, rejected, rowVars, receipts, todo, rows, sends, envVars,
                 chanVars, faults>>

PartsOutOfDate ==
  /\ pc = "parts" /\ left # {} /\ ~Held
  /\ OutOfDate(Row)
  /\ parts' = [parts EXCEPT ![Row] = Suppressed(Row)]
  /\ left' = {}
  /\ pc' = "receipt"
  /\ UNCHANGED <<inbox, rejected, order, stale, notified, receipts, todo, rows,
                 sends, envVars, chanVars, faults>>

FileDamaged(e, p) == p > 0 /\ e \in damaged

PartDamaged ==
  /\ pc = "parts" /\ left # {} /\ ~Held
  /\ ~OutOfDate(Row) /\ FileDamaged(Row, Part)
  /\ SetPart(Row, Part, "suppressed")
  /\ left' = left \ {Part}
  /\ UNCHANGED <<inbox, rejected, order, stale, notified, receipts, pc, todo, rows,
                 sends, envVars, chanVars, faults>>

PartClaimed ==
  /\ pc = "parts" /\ left # {} /\ ~Held
  /\ ~OutOfDate(Row) /\ ~FileDamaged(Row, Part)
  /\ SetPart(Row, Part, "sending")
  /\ sends' = sends + 1
  /\ pc' = "claimed"
  /\ UNCHANGED <<inbox, rejected, order, stale, notified, receipts, todo, rows,
                 left, envVars, chanVars, faults>>

PartHanded ==
  /\ pc = "claimed"
  /\ handed' = [handed EXCEPT ![Row][Part] = @ + 1]
  /\ wire' = wire \cup {<<Row, Part>>}
  /\ pc' = "await"
  /\ UNCHANGED <<inbox, rejected, rowVars, receipts, tickVars, envVars, delivered,
                 faults>>

-----------------------------------------------------------------------------
(* ... whose answer is awaited, for a limited time                         *)

HandIsOver(state) ==
  /\ pc = "await"
  /\ SetPart(Row, Part, state)
  /\ left' = left \ {Part}
  /\ pc' = "parts"
  /\ UNCHANGED <<inbox, rejected, order, stale, notified, receipts, todo, rows,
                 sends, envVars, handed, faults>>

InHand == <<Row, Part>>

\* What the router answers about a file says less than what it answers about the text.
FileInHand == Part > 0

NothingSent == wire' = wire \ {InHand} /\ UNCHANGED delivered

PartAcked ==
  /\ HandIsOver("confirmed")
  /\ wire' = wire \ {InHand}
  /\ delivered' = delivered \cup {InHand}

\* For the text: a hook dropped it; for a file: no channel takes it, it was refused or
\* is gone.
PartDropped == HandIsOver("suppressed") /\ NothingSent

\* sendPhoto and sendDocument of a bot that has stopped return without a word, and the
\* router takes that for success.
FileAckedUnsent == HandIsOver("confirmed") /\ FileInHand /\ NothingSent

\* The router answers false to every error of the channel, whatever became of the file.
FileOutcomeLost ==
  HandIsOver("suppressed") /\ FileInHand /\ UNCHANGED <<wire, delivered>>

\* The deadline or, for the text, an error.
PartUnknown == HandIsOver("unknown") /\ UNCHANGED <<wire, delivered>>

RowReceipt ==
  /\ pc = "receipt"
  /\ WriteReceipt(Row)
  /\ rows' = rows \ {Lowest(rows)}
  /\ pc' = "rows"
  /\ UNCHANGED <<inbox, rejected, rowVars, todo, left, sends, envVars, chanVars,
                 faults>>

-----------------------------------------------------------------------------
(* Faults                                                                  *)

Disturbed == faults < MaxFaults /\ faults' = faults + 1

\* Whatever throws while a file is received puts the file aside, received or not.
ReceptionFails ==
  /\ pc \in {"ingest", "rename"} /\ todo # {} /\ Disturbed
  /\ inbox' = inbox \ {Lowest(todo)}
  /\ rejected' = rejected \cup {Lowest(todo)}
  /\ todo' = todo \ {Lowest(todo)}
  /\ pc' = "ingest"
  /\ UNCHANGED <<rowVars, receipts, rows, left, sends, envVars, chanVars>>

LocalsGone == todo' = {} /\ rows' = {} /\ left' = {} /\ sends' = 0

\* A write fails; the tick ends and the next one reads everything anew.
TickThrows ==
  /\ pc \notin {"idle", "startup", "down"} /\ Disturbed
  /\ pc' = "idle"
  /\ LocalsGone
  /\ UNCHANGED <<inbox, rejected, rowVars, receipts, envVars, chanVars>>

Crash ==
  /\ pc # "down" /\ Disturbed
  /\ pc' = "down"
  /\ LocalsGone
  /\ UNCHANGED <<inbox, rejected, rowVars, receipts, envVars, chanVars>>

Interrupted == {e \in Known : PartsIn(e, "sending") # {}}
PartsFrom(from, to) ==
  [e \in Events |-> [p \in Parts |-> IF parts[e][p] = from THEN to ELSE parts[e][p]]]

\* Mutant: an attempt without an answer is made again.
AfterRestartReplayed == PartsFrom("sending", "pending")
AfterRestart == PartsFrom("sending", "unknown")

\* The process makes its pump, once; if that throws the process goes on without, and
\* only the next process tries again.
Startup ==
  /\ pc = "down"
  /\ parts' = AfterRestart
  /\ todo' = Interrupted
  /\ pc' = "startup"
  /\ UNCHANGED <<inbox, rejected, order, stale, notified, receipts, rows, left,
                 sends, envVars, chanVars, faults>>

StartupReceipt ==
  /\ pc = "startup" /\ todo # {}
  /\ \E e \in todo : WriteReceipt(e) /\ todo' = todo \ {e}
  /\ UNCHANGED <<inbox, rejected, rowVars, pc, rows, left, sends, envVars, chanVars,
                 faults>>

\* A receipt cannot be written; what was changed before stays changed.  (A throw at
\* the schema or the update changes nothing: "down" lasts on.)
StartupThrows ==
  /\ pc = "startup" /\ todo # {}
  /\ pc' = "down"
  /\ LocalsGone
  /\ UNCHANGED <<inbox, rejected, rowVars, receipts, envVars, chanVars, faults>>

StartupDone ==
  /\ pc = "startup" /\ todo = {}
  /\ pc' = "idle"
  /\ UNCHANGED <<inbox, rejected, rowVars, receipts, tickVars, envVars, chanVars,
                 faults>>

-----------------------------------------------------------------------------
(* The coordinator, the owner's context, the network                       *)

\* A tick lists the files once: what comes within a segment might as well come after.
CoordinatorPublishes ==
  /\ Quiet
  /\ \E e \in Events \ (inbox \cup rejected \cup Known) : inbox' = inbox \cup {e}
  /\ UNCHANGED <<rejected, rowVars, receipts, pc, tickVars, envVars, chanVars, faults>>

\* Under its own id or another one.
PublishedAgain ==
  /\ Quiet /\ Disturbed
  /\ \E e \in Known \ inbox : inbox' = inbox \cup {e}
  /\ UNCHANGED <<rejected, rowVars, receipts, pc, tickVars, envVars, chanVars>>

\* Corrected, forgotten or expired, in the same process or by the clock.
ContextChanges ==
  /\ Quiet
  /\ \E e \in current : current' = current \ {e}
  /\ UNCHANGED <<inbox, rejected, rowVars, receipts, pc, tickVars, damaged, owner,
                 connected, chanVars, faults>>

ArtifactChanges ==
  /\ Quiet /\ Disturbed
  /\ \E e \in Events \ damaged : mode[e] # "notice" /\ damaged' = damaged \cup {e}
  /\ UNCHANGED <<inbox, rejected, rowVars, receipts, pc, tickVars, current, owner,
                 connected, chanVars>>

OwnerLost ==
  /\ Quiet /\ owner /\ Disturbed
  /\ owner' = FALSE
  /\ UNCHANGED <<inbox, rejected, rowVars, receipts, pc, tickVars, current, damaged,
                 connected, chanVars>>

OwnerBack ==
  /\ Quiet /\ ~owner
  /\ owner' = TRUE
  /\ UNCHANGED <<inbox, rejected, rowVars, receipts, pc, tickVars, current, damaged,
                 connected, chanVars, faults>>

ConnectionLost ==
  /\ Quiet /\ connected /\ Disturbed
  /\ connected' = FALSE
  /\ UNCHANGED <<inbox, rejected, rowVars, receipts, pc, tickVars, current, damaged,
                 owner, chanVars>>

ConnectionBack ==
  /\ Quiet /\ ~connected
  /\ connected' = TRUE
  /\ UNCHANGED <<inbox, rejected, rowVars, receipts, pc, tickVars, current, damaged,
                 owner, chanVars, faults>>

-----------------------------------------------------------------------------
Tick ==
  \/ FileRejected \/ EventReceived \/ FileProcessed
  \/ ContextRechecked \/ RecheckReceipt
  \/ RowsRead \/ RowsDone \/ RowSkipped \/ RowSuperseded \/ RowOpened \/ RowReceipt
  \/ PartsEnd \/ PartsOutOfDate \/ PartDamaged \/ PartClaimed \/ PartHanded
  \/ PartAcked \/ PartDropped \/ PartUnknown \/ FileAckedUnsent \/ FileOutcomeLost
Pump == TickStarts \/ Tick
Environment ==
  \/ CoordinatorPublishes \/ PublishedAgain \/ ContextChanges \/ ArtifactChanges
  \/ OwnerLost \/ OwnerBack \/ ConnectionLost \/ ConnectionBack
Next ==
  \/ Pump \/ Environment
  \/ Startup \/ StartupReceipt \/ StartupThrows \/ StartupDone
  \/ ReceptionFails \/ TickThrows \/ Crash

Spec == Init /\ [][Next]_vars
\* The loop calls the tick again and again, and an awaited send ends by its deadline.
\* Nothing is asked of the environment, nor that a pump is made at all.
FairSpec == Spec /\ WF_vars(Pump)

-----------------------------------------------------------------------------
(* Properties                                                              *)

\* Type invariant; with it the control points agree with the locals, and no tick
\* sends more than SendLimit parts of no more than RowLimit rows.
TypeOK ==
  /\ inbox \subseteq Events /\ rejected \subseteq Events
  /\ order \in Seq(Events) /\ \A i, j \in DOMAIN order : order[i] = order[j] => i = j
  /\ stale \subseteq Known /\ notified \subseteq Known
  /\ parts \in [Events -> [Parts -> States]]
  /\ receipts \in [Events -> [delivery : {"none", "disabled", "unknown", "suppressed",
                                        "complete", "pending"}, stale : BOOLEAN]]
  /\ pc \in {"idle", "ingest", "rename", "recheck", "rows", "parts", "claimed", "await",
             "receipt", "down", "startup"}
  /\ todo \subseteq Events
  /\ rows \subseteq DOMAIN order /\ Cardinality(rows) <= RowLimit
  /\ left \subseteq Parts /\ sends \in 0..SendLimit
  /\ current \subseteq Events /\ damaged \subseteq Events
  /\ owner \in BOOLEAN /\ connected \in BOOLEAN
  /\ handed \in [Events -> [Parts -> Nat]]
  /\ wire \subseteq Events \X Parts /\ delivered \subseteq Events \X Parts
  /\ faults \in 0..MaxFaults
  /\ pc \in {"recheck", "parts", "claimed", "await", "receipt"} => rows # {}
  /\ pc \in {"claimed", "await"} => left # {}

\* A part is handed to the channel at most once, and is never again one still to be
\* sent, whatever throws, crashes or is published again.  Of the text rows and receipts
\* tell the truth: confirmed means arrived, and one that is held back never arrives.
\* A complete receipt leaves nothing out (of a file the row may be wrong: see
\* FileAckedUnsent and FileOutcomeLost).
SentAtMostOnce ==
  \A e \in Events :
    /\ \A p \in Parts :
         /\ handed[e][p] <= 1
         /\ handed[e][p] = 1 => parts[e][p] \notin {"none", "pending"}
    /\ parts[e][0] = "confirmed" => <<e, 0>> \in delivered
    /\ <<e, 0>> \in delivered \cup wire => parts[e][0] \in {"sending", "confirmed", "unknown"}
    /\ receipts[e].delivery = "complete" =>
         /\ <<e, 0>> \in delivered
         /\ \A p \in Parts : Carries(e, p) => handed[e][p] = 1

\* What is handed to the owner's channel is of the greatest event received so far,
\* with a context that holds at that moment (a notice of the host has none), though
\* the row was read, and opened, before the parts ahead of it were awaited.
NoSupersededSent ==
  [][\A e \in Events, p \in Parts :
       handed'[e][p] > handed[e][p] =>
         /\ \A d \in Known : d <= e
         /\ e \in current \/ mode[e] = "notice"]_vars

Settled(e) ==
  \/ e \in rejected
  \/ e \in Known /\ e \in notified /\ PartsIn(e, "pending") = {}

HasPump == pc \notin {"down", "startup"}

\* With the owner, the channel and a pump there from some time on, a published file
\* comes to an end: put aside, or received, piped and with no part left to send; a
\* tick that threw, a crash or a row ahead of it does not stop it.  (A process whose
\* pump could not be made serves nothing until it is restarted.)
PublishedSettles ==
  <>[](owner /\ connected /\ HasPump) => \A e \in Events : (e \in inbox) ~> Settled(e)
=============================================================================
