---------------------------- MODULE Continuation ----------------------------
(***************************************************************************)
(* The one automatic continuation of a turn that ran into its time limit:  *)
(* orchestrator/timeout-continuation.ts and the parts of                   *)
(* processGroupMessagesInner (orchestrator/message-loop.ts) that stage,    *)
(* claim, answer, retire and announce it, for one chat of the owner and    *)
(* the first request of the chat that is continued.                        *)
(*                                                                         *)
(* What survives a crash is a record in the router state, receipts and     *)
(* retired ids there, the saved cursor, and files in the runner's input    *)
(* directory.  They are written one by one, so the model keeps the writes  *)
(* that the code still has to do before its next await in `todo`: each is  *)
(* a step, a crash may fall before any of them, and no other callback of   *)
(* the host runs in between.  A write that throws ends the run like a      *)
(* crash, except where the code catches it (WriteThrows).                  *)
(*                                                                         *)
(* Messages are numbered by their cursors.  Names of input files: Timeout  *)
(* for the continuation's own file, m for the file a follow-up m was piped *)
(* in.  An ordinary run here ends with an answer, the time limit, a stop,  *)
(* or a failure and its apology; the rest of its life is MessagePipe.      *)
(***************************************************************************)
EXTENDS Integers, Sequences, FiniteSets

CONSTANTS MaxMessage,  \* bound of the model: messages of the chat
          MaxCrashes,  \* bound of the model: crashes and uncaught write errors
          MaxThrows    \* bound of the model: caught errors of a write

ASSUME BoundsAssumption == MaxMessage \in Nat /\ MaxCrashes \in Nat /\ MaxThrows \in Nat

VARIABLES
  \* rows: the last message, the saved cursor, the continuation's record, the
  \* receipts of delivered inputs, the ids of timeout_superseded_inputs
  arrived, cursor, record, receipts, retired,
  \* the input directory: what became of each file
  file,
  \* the run of the chat: control point, writes still to do, locals
  pc, todo, run,
  \* history: runs of the model under the claim, messages a cached answer
  \* covers, crashes and throws so far
  starts, answered, crashes, throws

storeVars == <<cursor, record, receipts, retired, file>>
runVars   == <<pc, todo, run>>
ghostVars == <<starts, answered, crashes, throws>>
vars      == <<arrived, storeVars, runVars, ghostVars>>

Messages == 1..MaxMessage
Cursors  == 0..MaxMessage
Timeout  == 0
Names    == {Timeout} \cup Messages

NoRecord == [st |-> "none", batch |-> {}, kept |-> {}, covered |-> {},
             through |-> 0, noticed |-> FALSE]
NoRun    == [prompt |-> {}, target |-> 0, orig |-> 0, window |-> <<>>, kept |-> {},
             folded |-> {}, active |-> FALSE, recovered |-> FALSE]

Init ==
  /\ arrived = 0 /\ cursor = 0 /\ record = NoRecord
  /\ receipts = [names |-> {}, ids |-> {}] /\ retired = {}
  /\ file = [n \in Names |-> "none"]
  /\ pc = "idle" /\ todo = <<>> /\ run = NoRun
  /\ starts = 0 /\ answered = {} /\ crashes = 0 /\ throws = 0

-----------------------------------------------------------------------------
(* Cursors, files and the writes                                           *)

Larger(a, b)  == IF a > b THEN a ELSE b
Smaller(a, b) == IF a < b THEN a ELSE b
Last(S)       == CHOOSE m \in S : \A n \in S : n <= m

Inputs     == {n \in Names : file[n] = "input"}
InMode(st) == {n \in Names : file[n] = st}

\* The registered source of a file: message ids only the host can name.
Source(n)  == IF n = Timeout THEN record.batch ELSE {n}
Sources(S) == UNION {Source(n) : n \in S}

\* A write: the field or file it is about, a cursor, names or ids.
Write(do, to, set) == [do |-> do, to |-> to, set |-> set]
Set(do)         == Write(do, 0, {})
MoveCursor(to)  == Write("cursor", to, {})
Files(do, set)  == Write(do, 0, set)

\* Mutant: the file first.
BlockFileFirst == <<Files("block", {Timeout}), Set("blocked")>>
\* blockTimeoutContinuation: the record first, then the file.
Block == <<Set("blocked"), Files("block", {Timeout})>>

\* retireTimeoutContinuationFinal, after the covered ids and the cursor.
Retire ==
  <<Set("retired"), MoveCursor(record.through)>> \o Block
    \o <<Set("noticed"), Files("supersede", record.kept \ {Timeout})>>

\* A delivered final: the record, its receipt, the cursor, then the files,
\* the receipts of the files before the files are removed.
Acknowledge(names) == <<Files("acknowledge", names), Files("remove", names)>>
Delivered(names, through) ==
  <<Set("completed"), Set("receipt"), Write("confirm", through, {})>>
    \o Acknowledge(names)

\* Nothing is written: the host may go on to the next await or callback.
Free == todo = <<>>
Then(writes, next) == todo' = writes /\ pc' = next
NextWrite(op) == todo # <<>> /\ Head(todo).do \in op /\ todo' = Tail(todo)

\* writes of the record
SaveRecord ==
  LET op == Head(todo) IN
  /\ NextWrite({"pending", "running", "delivery", "completed", "blocked", "noticed"})
  /\ record' =
       CASE op.do = "pending"  -> [record EXCEPT !.st = "pending", !.batch = op.set]
         [] op.do = "delivery" ->
              [record EXCEPT !.st = "delivery", !.kept = op.set, !.through = op.to,
                             !.covered = run.prompt \cup Sources(op.set)]
         [] op.do = "noticed"  -> [record EXCEPT !.noticed = TRUE]
         [] OTHER              -> [record EXCEPT !.st = op.do]
  /\ answered' = IF op.do = "delivery" THEN answered \cup record'.covered \cup run.folded
                 ELSE answered
  /\ UNCHANGED <<arrived, cursor, receipts, retired, file, pc, run, starts, crashes,
                 throws>>

SaveCursor ==
  /\ NextWrite({"confirm", "cursor"})
  /\ cursor' = Larger(cursor, Head(todo).to)
  /\ UNCHANGED <<arrived, record, receipts, retired, file, pc, run, ghostVars>>

\* The receipts of the delivered final, or of the files among the inputs.
SaveReceipts ==
  LET named == Head(todo).set \cap Inputs IN
  /\ NextWrite({"receipt", "acknowledge", "settle"})
  /\ receipts' = IF Head(todo).do = "receipt"
                 THEN [names |-> receipts.names \cup {Timeout},
                       ids   |-> receipts.ids \cup record.covered]
                 ELSE [names |-> receipts.names \cup named,
                       ids   |-> receipts.ids \cup Sources(named)]
  /\ UNCHANGED <<arrived, cursor, record, retired, file, pc, run, ghostVars>>

SaveRetired ==
  /\ NextWrite({"retired"})
  /\ retired' = retired \cup record.covered
  /\ UNCHANGED <<arrived, cursor, record, receipts, file, pc, run, ghostVars>>

ExposeFile ==
  /\ NextWrite({"expose"})
  /\ file' = [file EXCEPT ![Timeout] = "input"]
  /\ UNCHANGED <<arrived, cursor, record, receipts, retired, pc, run, ghostVars>>

\* Files are renamed or removed one after another; one that is gone is passed.
NewMode(do) == CASE do = "block"      -> "blocked"
                 [] do = "supersede"  -> "superseded"
                 [] do = "quarantine" -> "confirmed"
                 [] OTHER             -> "none"
MoveFile ==
  LET op   == Head(todo)
      left == op.set \cap Inputs IN
  /\ todo # <<>> /\ op.do \in {"block", "supersede", "quarantine", "remove"}
  /\ IF left = {} THEN todo' = Tail(todo) /\ UNCHANGED file
     ELSE \E n \in left :
            /\ file' = [file EXCEPT ![n] = NewMode(op.do)]
            /\ todo' = IF left = {n} THEN Tail(todo) ELSE todo
  /\ UNCHANGED <<arrived, cursor, record, receipts, retired, pc, run, ghostVars>>

Throws == throws < MaxThrows /\ throws' = throws + 1

\* The transport has succeeded and the bookkeeping fails: the inputs are set
\* aside under another name; the cursor still moves where it follows.
WriteThrows ==
  LET names == UNION {w.set : w \in {todo[i] : i \in {j \in DOMAIN todo :
                                                        todo[j].do = "acknowledge"}}}
      last  == todo[Len(todo)] IN
  /\ todo # <<>>
  /\ Head(todo).do \in {"completed", "receipt", "confirm", "acknowledge"}
  /\ Throws
  /\ todo' = <<Files("quarantine", names)>>
               \o (IF last.do = "cursor" THEN <<last>> ELSE <<>>)
  /\ UNCHANGED <<arrived, storeVars, pc, run, starts, answered, crashes>>

\* A removal that fails is passed over: the receipt decides.
RemoveFails ==
  /\ todo # <<>> /\ Head(todo).do = "remove" /\ Head(todo).set \cap Inputs # {}
  /\ Throws
  /\ todo' = Tail(todo)
  /\ UNCHANGED <<arrived, storeVars, pc, run, starts, answered, crashes>>

\* The record is there and its file cannot be written: the request is given up.
ExposeThrows ==
  /\ todo # <<>> /\ Head(todo).do = "expose"
  /\ Throws
  /\ Then(<<Set("blocked")>>, "idle")
  /\ UNCHANGED <<arrived, storeVars, run, starts, answered, crashes>>

Store == \/ SaveRecord \/ SaveCursor \/ SaveReceipts \/ SaveRetired \/ ExposeFile
         \/ MoveFile \/ WriteThrows \/ RemoveFails \/ ExposeThrows

-----------------------------------------------------------------------------
(* The beginning of a run: what an earlier run, or process, left behind    *)

Arrive ==
  /\ Free /\ arrived < MaxMessage
  /\ arrived' = arrived + 1
  /\ UNCHANGED <<storeVars, runVars, ghostVars>>

Exposed(st) == file[Timeout] = "input" /\ record.st \in st

\* A claim that was persisted is never run again; an answer that was cached
\* is sent again, unless a newer message has come.
TakeUp ==
  CASE Exposed({"running", "blocked"}) ->
         Then(Block \o <<MoveCursor(Last(record.batch))>>, "notices")
    [] Exposed({"completed"}) ->
         Then(<<MoveCursor(record.through), Files("settle", record.kept),
                Files("remove", record.kept)>>, "notices")
    [] Exposed({"delivery"}) -> IF arrived > record.through THEN Then(Retire, "notices")
                                ELSE Then(<<>>, "resend")
    [] OTHER -> Then(<<>>, "notices")

Begin ==
  /\ Free /\ pc = "idle"
  /\ TakeUp
  /\ run' = NoRun
  /\ UNCHANGED <<arrived, storeVars, ghostVars>>

\* The cached answer reached the chat, or the run ends here.
Resent(ok) ==
  /\ Free /\ pc = "resend"
  /\ IF ok THEN Then(Delivered(record.kept, record.through), "notices")
     ELSE Then(<<>>, "idle")
  /\ UNCHANGED <<arrived, storeVars, run, ghostVars>>

\* The warning that the continuation was interrupted too.
IsNoticeDue == file[Timeout] = "blocked" /\ record.st = "blocked" /\ ~record.noticed

Noticed(ok) ==
  /\ Free /\ pc = "notices" /\ IsNoticeDue
  /\ IF ok THEN Then(<<Set("noticed")>>, "clean") ELSE Then(<<>>, "idle")
  /\ UNCHANGED <<arrived, storeVars, run, ghostVars>>

\* Interrupted retirements and removals are finished.
Clean ==
  /\ Free
  /\ pc = "clean" \/ (pc = "notices" /\ ~IsNoticeDue)
  /\ Then(<<Files("supersede", {n \in Inputs : Source(n) \subseteq retired}),
            Files("remove", receipts.names)>>, "collect")
  /\ UNCHANGED <<arrived, storeVars, run, ghostVars>>

\* What the run is asked: the inputs' sources and the messages past the cursor, without
\* what a receipt, a retirement or a quarantine says is done.
Prompt ==
  (Sources(Inputs) \cup ((cursor + 1)..arrived))
    \ (receipts.ids \cup retired \cup Sources(InMode("confirmed")))

\* A delivered input that cannot be removed holds the chat.
Collect ==
  /\ Free /\ pc = "collect"
  /\ IF Inputs \cap receipts.names # {}
     THEN Then(<<>>, "idle") /\ UNCHANGED run
     ELSE IF Prompt = {}
     THEN Then(<<MoveCursor(arrived)>>, "idle") /\ UNCHANGED run
     ELSE /\ Then(<<>>, "claim")
          /\ run' = [NoRun EXCEPT !.prompt = Prompt, !.target = Last(Prompt),
                       !.orig = Last(Prompt), !.kept = Inputs,
                       !.active = Timeout \in Inputs, !.recovered = Inputs # {}]
  /\ UNCHANGED <<arrived, storeVars, ghostVars>>

\* The newest message says stop: it is consumed, answered (an await), and only
\* then is a pending continuation given up.
StopCommand ==
  /\ Free /\ pc = "claim"
  /\ run.target \notin record.batch
  /\ Then(<<MoveCursor(run.target)>>, "stopping")
  /\ UNCHANGED <<arrived, storeVars, run, ghostVars>>
StopReplied ==
  /\ Free /\ pc = "stopping"
  /\ Then(IF run.active THEN Block \o <<Set("noticed")>> ELSE <<>>, "idle")
  /\ UNCHANGED <<arrived, storeVars, run, ghostVars>>

-----------------------------------------------------------------------------
(* The run of the model                                                    *)

\* Mutant: the model is started without the claim.
ClaimNothing ==
  /\ Free /\ pc = "claim"
  /\ Then(<<>>, "launch")
  /\ UNCHANGED <<arrived, storeVars, run, ghostVars>>
\* The sole execution claim is saved before the model is started; only a pending
\* request is claimed.
Claim ==
  /\ Free /\ pc = "claim"
  /\ run.active => record.st = "pending"
  /\ Then(IF run.active THEN <<Set("running")>> ELSE <<>>, "launch")
  /\ UNCHANGED <<arrived, storeVars, run, ghostVars>>

\* Another provider, foreign content, an image job or a stop: not continued.
Ineligible ==
  /\ Free /\ pc = "claim" /\ run.active
  /\ Then(Block, "idle")
  /\ UNCHANGED <<arrived, storeVars, run, ghostVars>>

Launch ==
  /\ Free /\ pc = "launch"
  /\ Then(<<>>, "model")
  /\ starts' = starts + (IF run.active THEN 1 ELSE 0)
  /\ UNCHANGED <<arrived, storeVars, run, answered, crashes, throws>>

\* The poll pipes the next message into the run: its source is registered and
\* its file written.
Piped == Larger(Larger(cursor, run.target),
                IF run.window = <<>> THEN 0 ELSE run.window[Len(run.window)])
Pipe ==
  /\ Free /\ pc = "model" /\ Piped < arrived
  /\ file' = [file EXCEPT ![Piped + 1] = "input"]
  /\ run' = [run EXCEPT !.window = Append(@, Piped + 1)]
  /\ UNCHANGED <<arrived, cursor, record, receipts, retired, pc, todo, ghostVars>>

\* onFollowUpsAbsorbed: the answer to come covers the first n of the window.
Covering(r, n) ==
  LET k == Smaller(n, Len(r.window)) IN
  [r EXCEPT !.target = IF k = 0 THEN @ ELSE Larger(@, r.window[k]),
            !.window = SubSeq(@, k + 1, Len(@))]

\* The child folds the files that wait into its turn and removes them ...
Absorb ==
  LET waiting == Inputs \ run.kept IN
  /\ Free /\ pc = "model" /\ waiting # {}
  /\ file' = [n \in Names |-> IF n \in waiting THEN "none" ELSE file[n]]
  /\ run' = [Covering(run, Cardinality(waiting)) EXCEPT !.folded = @ \cup waiting]
  /\ UNCHANGED <<arrived, cursor, record, receipts, retired, pc, todo, ghostVars>>

\* ... or keeps them until its answer is acknowledged.
Keep ==
  /\ Free /\ pc = "model" /\ Inputs \ run.kept # {}
  /\ run' = [run EXCEPT !.kept = Inputs]
  /\ UNCHANGED <<arrived, storeVars, pc, todo, ghostVars>>

\* The turn answers; a continuation's answer is cached before it is sent.
Answer ==
  LET covering == Covering(run, Cardinality(run.kept)) IN
  /\ Free /\ pc = "model"
  /\ run' = covering
  /\ Then(IF run.active THEN <<Write("delivery", covering.target, run.kept)>> ELSE <<>>,
          "send")
  /\ UNCHANGED <<arrived, storeVars, ghostVars>>

\* The send of the answer: the one turn of a continuation ends its run.
Sent(ok) ==
  /\ Free /\ pc = "send"
  /\ Then(IF ~ok THEN <<>>
          ELSE (IF run.active THEN Delivered(run.kept, record.through)
                ELSE IF run.kept # {} THEN Acknowledge(run.kept) ELSE <<>>)
               \o <<MoveCursor(run.target)>>, "ending")
  /\ run' = [run EXCEPT !.active = @ /\ ~ok]
  /\ UNCHANGED <<arrived, storeVars, ghostVars>>

\* A turn without a text of its own (it spoke through a tool).
Silent ==
  /\ Free /\ pc = "model"
  /\ Then(<<>>, "ending")
  /\ UNCHANGED <<arrived, storeVars, run, ghostVars>>

\* stageTimeoutContinuation: the time limit of an ordinary run that has said
\* nothing and has had no follow-up.
\* Mutant: the file is exposed before the record that claims its identity.
StageFileFirst ==
  /\ Free /\ pc = "model" /\ ~run.active
  /\ run.target = run.orig /\ run.window = <<>> /\ record.st = "none"
  /\ Then(<<Set("expose"), Write("pending", 0, run.prompt)>>, "apology")
  /\ UNCHANGED <<arrived, storeVars, run, ghostVars>>
TimeLimit ==
  /\ Free /\ pc = "model" /\ ~run.active
  /\ run.target = run.orig /\ run.window = <<>> /\ record.st = "none"
  /\ Then(<<Write("pending", 0, run.prompt), Set("expose")>>, "apology")
  /\ UNCHANGED <<arrived, storeVars, run, ghostVars>>

\* The turn fails otherwise, or the limit is that of the continuation itself.
Fail ==
  /\ Free /\ pc = "model"
  /\ Then(<<>>, "apology")
  /\ UNCHANGED <<arrived, storeVars, run, ghostVars>>

\* The word about it: a status notice is not the completion of inputs that
\* were there before the run.
Apology(ok) ==
  /\ Free /\ pc = "apology"
  /\ Then((IF ok /\ run.active THEN <<Set("noticed")>> ELSE <<>>)
          \o (IF ok /\ ~(run.recovered /\ Inputs # {}) THEN <<MoveCursor(run.target)>>
              ELSE <<>>), "ending")
  /\ UNCHANGED <<arrived, storeVars, run, ghostVars>>

\* The owner stops the run: the cursor passes it.  A stop seen as an error
\* status leaves a continuation to the next start; seen only in the output, it
\* is blocked here.
Stopped ==
  /\ Free /\ pc = "model"
  /\ \/ Then(<<MoveCursor(run.target)>>, "idle")
     \/ Then((IF run.active THEN Block \o <<Set("noticed")>> ELSE <<>>)
             \o <<MoveCursor(run.target)>>, "idle")
  /\ UNCHANGED <<arrived, storeVars, run, ghostVars>>

\* A continuation that has no answer is over; inputs that are left are run
\* again, the original batch is not.
End ==
  /\ Free /\ pc = "ending"
  /\ Then(IF run.active /\ record.st = "running" THEN Block \o <<MoveCursor(run.orig)>>
          ELSE IF Inputs # {} /\ ~run.recovered THEN <<MoveCursor(run.orig)>>
          ELSE <<>>, "idle")
  /\ UNCHANGED <<arrived, storeVars, run, ghostVars>>

\* The process dies, or a write throws where nobody catches it.
Crash ==
  /\ crashes < MaxCrashes
  /\ pc # "idle" \/ ~Free
  /\ crashes' = crashes + 1
  /\ Then(<<>>, "idle")
  /\ run' = NoRun
  /\ UNCHANGED <<arrived, storeVars, starts, answered, throws>>

-----------------------------------------------------------------------------
Start == \/ Clean \/ Collect \/ StopCommand \/ StopReplied
         \/ \E ok \in BOOLEAN : Resent(ok) \/ Noticed(ok)
Model == \/ Claim \/ Ineligible \/ Launch \/ Pipe \/ Absorb \/ Keep \/ Answer
         \/ Silent \/ TimeLimit \/ Fail \/ Stopped \/ End
         \/ \E ok \in BOOLEAN : Sent(ok) \/ Apology(ok)

Next == Arrive \/ Begin \/ Store \/ Start \/ Model \/ Crash

Spec == Init /\ [][Next]_vars
\* A run goes on until it ends, and a send that is tried for ever succeeds once.
\* That the queue runs the chat again is not assumed here.
FairSpec == /\ Spec
            /\ WF_vars(Store \/ Start \/ Model)
            /\ SF_vars(Resent(TRUE)) /\ SF_vars(Noticed(TRUE))

-----------------------------------------------------------------------------
(* Properties                                                              *)

States == {"none", "pending", "running", "delivery", "blocked", "completed"}
Modes  == {"none", "input", "blocked", "superseded", "confirmed"}
Points == {"idle", "resend", "notices", "clean", "collect", "claim", "stopping",
           "launch", "model", "send", "apology", "ending"}
Ops    == {"pending", "running", "delivery", "completed", "blocked", "noticed",
           "confirm", "cursor", "receipt", "acknowledge", "settle", "retired",
           "expose", "block", "supersede", "quarantine", "remove"}
RecordType == [st : States, batch : SUBSET Messages, kept : SUBSET Names,
               covered : SUBSET Messages, through : Cursors, noticed : BOOLEAN]
RunType    == [prompt : SUBSET Messages, target : Cursors, orig : Cursors,
               window : Seq(Messages), kept : SUBSET Names, folded : SUBSET Messages,
               active : BOOLEAN, recovered : BOOLEAN]
WriteType  == [do : Ops, to : Cursors, set : SUBSET Names]

TypeOK ==
  /\ arrived \in Cursors /\ cursor \in Cursors
  /\ record \in RecordType
  /\ receipts \in [names : SUBSET Names, ids : SUBSET Messages]
  /\ retired \subseteq Messages
  /\ file \in [Names -> Modes]
  /\ file[Timeout] # "none" => record.st # "none"
  /\ pc \in Points /\ todo \in Seq(WriteType) /\ run \in RunType
  /\ starts \in Nat /\ answered \subseteq Messages
  /\ crashes \in 0..MaxCrashes /\ throws \in 0..MaxThrows

\* A request is continued at most once.
ContinuedOnce == starts <= 1

\* What a cached answer covers is not put before a model again while the bookkeeping
\* can be written.
NotAnsweredAgain ==
  pc = "launch" /\ Free /\ throws = 0 => run.prompt \cap answered = {}

\* Without a crash the batch of a continuation that started is not run again either,
\* except for messages that have an input file of their own, which the code keeps on
\* purpose.
BatchNotRunAgain ==
  pc = "launch" /\ Free /\ starts = 1 /\ crashes = 0
    => run.prompt \cap record.batch \subseteq run.kept

\* All of it whatever sends are refused, whoever stops it, whichever newer messages
\* come and between whichever two writes the process dies.
NeverRepeated == ContinuedOnce /\ NotAnsweredAgain /\ BatchNotRunAgain

\* A continuation that was claimed ends, as long as the chat keeps being run
\* and a send tried again and again succeeds at last: its answer delivered, or
\* the owner told, or its inputs set aside because the answer was delivered.
Claimed  == record.st = "running"
Ended    == record.st = "completed" \/ record.noticed \/ file[Timeout] = "confirmed"
ClaimedEndsWithWord == []<>(pc # "idle") => (Claimed ~> Ended)
=============================================================================
