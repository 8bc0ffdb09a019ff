------------------------- MODULE ContinuationProofs -------------------------
(* Theorems about Continuation for every number of messages, crashes and   *)
(* caught write errors.                                                    *)
EXTENDS Continuation, NumberLemmas, FiniteSetTheorems, TLAPS

USE BoundsAssumption
USE DEF storeVars, runVars, ghostVars, Messages, Cursors, Names, Timeout

-----------------------------------------------------------------------------
(* The inductive invariant                                                 *)

\* Writes still to do as sets, and what may not precede what among them.
Writes(s) == {s[i] : i \in DOMAIN s}
Dos(s)    == {w.do : w \in Writes(s)}
OrderedBy(s, V) == \A i, j \in DOMAIN s : i < j => <<s[i].do, s[j].do>> \notin V

\* Booking is the bookkeeping of a delivered answer.  Of a pair in Wrong the second write
\* never follows the first; nor in Late while an answer has still to be retired, nor in
\* Lasting while it has to be booked.
Booking == {"completed", "receipt", "confirm", "acknowledge"}
Wrong   == ({"acknowledge", "cursor", "remove"} \X Booking)
             \cup {<<"remove", "settle">>, <<"supersede", "settle">>, <<"settle", "cursor">>,
                   <<"blocked", "retired">>, <<"block", "blocked">>}
Late    == {<<"blocked", "cursor">>}
Lasting == {"cursor"} \X Ops

Upto(n)   == 1..n
Answering == record.covered # {}
AtWork    == {"claim", "stopping", "launch", "model", "send", "apology", "ending"}

\* The record goes its way once: what it says at each of its states.
RecordSound ==
  /\ record.st = "none" <=> record.batch = {}
  /\ record.st \in {"none", "pending"} => starts = 0
  /\ starts <= 1
  /\ record.st \in {"none", "pending", "running"} => ~Answering
  /\ record.st \in {"delivery", "completed"} => Answering
  /\ Answering => /\ Timeout \in record.kept /\ Sources(record.kept) \subseteq record.covered
                  /\ record.covered \subseteq answered
                  /\ record.batch \subseteq Upto(record.through)
  /\ ~Answering => /\ answered = {} /\ retired = {}
                   /\ Timeout \notin receipts.names /\ receipts.ids \subseteq receipts.names

\* The writes of a record that goes on: staged, claimed, answered.
Staging  == /\ todo = <<Write("pending", 0, run.prompt), Set("expose")>>
            /\ pc = "apology" /\ ~run.active /\ record.st = "none"
Exposing == /\ todo = <<Set("expose")>>
            /\ pc = "apology" /\ ~run.active /\ record.st = "pending"
Claiming == /\ todo = <<Set("running")>>
            /\ pc = "launch" /\ run.active /\ record.st = "pending"
Caching  == /\ todo = <<Write("delivery", run.target, run.kept)>>
            /\ pc = "send" /\ run.active /\ record.st = "running"
            /\ Timeout \in run.kept /\ record.batch \subseteq Upto(run.target)
Special  == {"pending", "expose", "running", "delivery"}

WritesSound ==
  /\ OrderedBy(todo, Wrong)
  /\ Dos(todo) \cap Special # {} => Staging \/ Exposing \/ Claiming \/ Caching
  /\ Dos(todo) \cap {"blocked", "block", "completed", "noticed"} # {} => record.st # "none"
  /\ Dos(todo) \cap {"completed", "receipt", "confirm", "settle", "retired"} # {} => Answering
  /\ Dos(todo) \cap {"completed", "receipt", "confirm"} # {}
       => /\ Timeout \in Inputs
          /\ \E w \in Writes(todo) : w.do = "acknowledge" /\ Timeout \in w.set
  /\ Dos(todo) \cap Booking # {} => /\ Dos(todo) \subseteq Booking \cup {"remove", "cursor"}
                                    /\ OrderedBy(todo, Lasting)
  /\ "quarantine" \in Dos(todo) => Dos(todo) \subseteq {"quarantine", "cursor"}
  /\ \A w \in Writes(todo) :
       /\ w.do = "settle" => w.set = record.kept
       /\ w.do \in {"acknowledge", "remove", "supersede"} /\ Timeout \in w.set => Answering

\* The locals of a run: what it was asked and which files it keeps, at each point.
RunSound ==
  /\ pc \in AtWork => run.prompt # {} /\ run.prompt \subseteq Upto(run.orig) /\ run.orig <= run.target
  /\ run.active => record.st # "none"
  /\ pc \in {"claim", "launch", "model", "send"} =>
       /\ run.kept \subseteq Inputs
       /\ run.active <=> Timeout \in Inputs
       /\ run.active <=> Timeout \in run.kept
  /\ pc \in {"claim", "launch"} =>
       run.kept = Inputs /\ run.window = <<>> /\ run.folded = {} /\ run.target = run.orig
  /\ pc \in {"claim", "launch"} /\ Timeout \notin Inputs =>
       run.prompt \cap Upto(cursor) \subseteq run.kept
  /\ pc \in {"claim", "stopping"} /\ run.active => record.st = "pending"
  /\ pc \in {"claim", "model", "resend"} => Free
  /\ pc = "launch" /\ ~Free => Claiming
  /\ pc = "send" /\ ~Free => Caching
  /\ pc = "launch" /\ run.active /\ Free => record.st = "running" /\ starts = 0
  /\ pc = "model" /\ run.active => record.st = "running"
  /\ pc = "send" /\ run.active /\ Free =>
       Answering /\ record.kept = run.kept /\ record.through = run.target
  /\ pc = "resend" => Answering /\ Timeout \in Inputs
  /\ pc = "stopping" => Dos(todo) \subseteq {"cursor"}
  /\ pc \in {"notices", "clean", "collect"} /\ "blocked" \in Dos(todo)
       => record.st # "pending"

\* The beginning of a run leaves the continuation's file only where it is still to
\* be claimed, or was answered and cannot be removed.
TakenUp ==
  pc \in {"notices", "clean", "collect"} /\ Timeout \in Inputs =>
    \/ record.st = "pending" \/ Timeout \in receipts.names \/ "receipt" \in Dos(todo)
    \/ \E w \in Writes(todo) : w.do \in {"block", "quarantine", "settle"} /\ Timeout \in w.set

Excluded  == receipts.ids \cup retired \cup Sources(InMode("confirmed"))
Excluding == {"receipt", "settle", "acknowledge", "retired", "quarantine"}

\* Nothing of a batch that is to be continued is settled otherwise.
BatchFresh ==
  /\ pc \in {"claim", "launch", "model"} \/ "pending" \in Dos(todo) => run.prompt \cap Excluded = {}
  /\ record.st = "pending" /\ (Timeout \in Inputs \/ "expose" \in Dos(todo))
       => record.batch \cap Excluded = {} /\ Dos(todo) \cap Excluding = {}
  /\ run.active /\ pc \in AtWork => record.batch \subseteq Upto(run.orig)

\* The file of a started request stands and nothing is to be done to it ...
Untouched == /\ Timeout \in Inputs /\ Timeout \notin receipts.names
             /\ \A w \in Writes(todo) :
                  w.do \in {"block", "remove", "supersede", "settle", "acknowledge"}
                    => Timeout \notin w.set
\* ... or it is set aside, or about to be.
SetAside  == \/ file[Timeout] = "confirmed"
             \/ /\ Timeout \in Inputs
                /\ \E w \in Writes(todo) : w.do = "quarantine" /\ Timeout \in w.set
\* The cursor passes the batch, or is about to.
Passing(b) == \/ b \subseteq Upto(cursor)
              \/ \E w \in Writes(todo) : w.do \in {"cursor", "confirm"} /\ b \subseteq Upto(w.to)
\* Without a crash the batch of a started request stays out of other runs.
BatchPassed ==
  starts = 1 /\ crashes = 0 => Untouched \/ SetAside \/ Passing(record.batch)

\* The cursor has passed the answer; a write of op will take it there; the answered
\* inputs are settled; the continuation's file is about to leave the inputs.
Past     == cursor >= record.through
Moves(op) == \E w \in Writes(todo) : w.do = op /\ w.to >= record.through
Closed   == answered \cap Inputs \subseteq receipts.ids \cup retired
Removing == \E w \in Writes(todo) : /\ w.do \in {"acknowledge", "remove", "supersede"}
                                    /\ Timeout \in w.set

\* While no caught write has failed: an answered message is covered by the record's
\* inputs, until it is behind the cursor or settled by its id.
AnsweredSound ==
  /\ InMode("confirmed") = {} /\ "quarantine" \notin Dos(todo)
  /\ Answering => /\ answered \subseteq Upto(record.through)
                  /\ answered \cap Inputs \subseteq record.kept
                  /\ Timeout \in Inputs \/ (Past /\ Closed)
  /\ Timeout \in receipts.names => Closed
  /\ Answering /\ record.st = "blocked" => record.covered \subseteq retired /\ Past
  /\ Answering /\ "blocked" \in Dos(todo) /\ "retired" \notin Dos(todo)
       => record.covered \subseteq retired
  /\ Answering /\ "block" \in Dos(todo) /\ "blocked" \notin Dos(todo) => record.st = "blocked"
  /\ Answering /\ Timeout \in Inputs /\ "blocked" \in Dos(todo)
       => Past \/ (Moves("cursor") /\ OrderedBy(todo, Late))
  /\ Answering /\ Removing /\ Dos(todo) \cap {"receipt", "settle"} = {} => Closed
  /\ Answering /\ Removing /\ Timeout \in Inputs =>
       Past \/ Moves("confirm") \/ ("settle" \in Dos(todo) /\ Moves("cursor"))
  /\ Answering /\ Timeout \in Inputs /\ pc \in {"notices", "clean", "collect"}
       => Past \/ Moves("confirm") \/ Moves("cursor")
  /\ pc \in {"claim", "launch"} => run.prompt \cap answered = {}
  /\ pc \in {"claim", "launch"} /\ run.active => run.kept \ {Timeout} \subseteq Upto(run.orig)
  /\ "delivery" \in Dos(todo) =>
       LET m == run.prompt \cup Sources(run.kept) \cup run.folded IN
       m \subseteq Upto(run.target) /\ m \cap Inputs \subseteq run.kept

\* The window of a continuation, its files and the cursor its answer will cover.
WindowSound ==
  pc = "model" /\ run.active =>
    LET b == Larger(cursor, run.orig)
        L == Len(run.window) IN
    \E q \in b..Piped :
      /\ \A i \in 1..L : run.window[i] = Piped - L + i
      /\ Inputs \ run.kept = (q + 1)..Piped
      /\ Piped - q <= L /\ L <= (Piped - q) + Cardinality(run.kept) /\ L <= Piped - b
      /\ run.folded \cup (run.kept \ {Timeout}) \subseteq Upto(run.orig) \cup ((b + 1)..q)
      /\ Piped - L > b => run.target >= Piped - L
NoThrow == throws = 0 => AnsweredSound /\ WindowSound

\* The inductive invariant.  The goals speak of launches only; these say why each write
\* that is skipped by a crash, or is still to come, keeps what was answered out of the
\* next prompt.
IInv == /\ TypeOK /\ RecordSound /\ WritesSound /\ RunSound /\ TakenUp
        /\ BatchFresh /\ BatchPassed /\ NoThrow

USE DEF Upto

-----------------------------------------------------------------------------
(* Sequences of writes                                                     *)

LEMMA Popped ==
  ASSUME NEW s \in Seq(WriteType), s # <<>>
  PROVE  /\ Head(s) \in WriteType /\ Tail(s) \in Seq(WriteType)
         /\ \A w : w \in Writes(s) <=> w = Head(s) \/ w \in Writes(Tail(s))
         /\ \A d : d \in Dos(s) <=> d = Head(s).do \/ d \in Dos(Tail(s))
         /\ \A V : OrderedBy(s, V) => /\ OrderedBy(Tail(s), V)
                                      /\ \A d \in Dos(Tail(s)) : <<Head(s).do, d>> \notin V
  <1> DEFINE t == Tail(s)
  <1>1. Len(s) \in Nat /\ Len(s) # 0 /\ DOMAIN s = 1..Len(s) /\ \A i \in DOMAIN s : s[i] \in WriteType
    OBVIOUS
  <1>2. Head(s) = s[1] /\ s[1] \in WriteType /\ t \in Seq(WriteType) /\ 1 \in DOMAIN s
    BY <1>1
  <1>3. Len(t) = Len(s) - 1 /\ DOMAIN t = 1..(Len(s) - 1)
    BY <1>1, <1>2
  <1>4. \A i \in 1..(Len(s) - 1) : i + 1 \in DOMAIN s /\ t[i] = s[i+1]
    BY <1>1, <1>3
  <1> HIDE DEF t
  <1>5. \A i \in DOMAIN s : i = 1 \/ (i - 1 \in DOMAIN t /\ t[i - 1] = s[i])
    <2> TAKE i \in DOMAIN s
    <2>1. i \in Nat /\ i >= 1 /\ i <= Len(s)
      BY <1>1
    <2>2. i # 1 => i - 1 \in 1..(Len(s) - 1) /\ (i - 1) + 1 = i
      BY <2>1, <1>1
    <2>3. QED
      BY <2>2, <1>3, <1>4
  <1>6. Writes(s) = {s[1]} \cup Writes(t)
    <2>1. Writes(t) \subseteq Writes(s)
      BY <1>3, <1>4 DEF Writes
    <2>2. Writes(s) \subseteq {s[1]} \cup Writes(t)
      BY <1>5 DEF Writes
    <2>3. s[1] \in Writes(s)
      BY <1>2 DEF Writes
    <2>4. QED
      BY <2>1, <2>2, <2>3
  <1>7. Dos(s) = {s[1].do} \cup Dos(t)
    BY <1>6 DEF Dos
  <1>8. ASSUME NEW V, OrderedBy(s, V)
        PROVE  OrderedBy(t, V) /\ \A d \in Dos(t) : <<s[1].do, d>> \notin V
    <2>1. OrderedBy(t, V)
      <3> SUFFICES ASSUME NEW i \in DOMAIN t, NEW j \in DOMAIN t, i < j
                   PROVE  <<t[i].do, t[j].do>> \notin V
        BY DEF OrderedBy
      <3>1. i + 1 \in DOMAIN s /\ j + 1 \in DOMAIN s /\ i + 1 < j + 1
        BY <1>3, <1>4
      <3>2. t[i] = s[i + 1] /\ t[j] = s[j + 1]
        BY <1>3, <1>4
      <3>3. QED
        BY <3>1, <3>2, <1>8 DEF OrderedBy
    <2>2. ASSUME NEW d \in Dos(t) PROVE <<s[1].do, d>> \notin V
      <3>1. PICK j \in DOMAIN t : d = t[j].do
        BY DEF Dos, Writes
      <3>2. j + 1 \in DOMAIN s /\ 1 < j + 1 /\ t[j] = s[j + 1]
        BY <1>3, <1>4
      <3>3. QED
        BY <3>1, <3>2, <1>2, <1>8 DEF OrderedBy
    <2>3. QED
      BY <2>1, <2>2
  <1>9. QED
    BY <1>2, <1>6, <1>7, <1>8 DEF t

LEMMA Nothing ==
  /\ <<>> \in Seq(WriteType) /\ Writes(<<>>) = {} /\ Dos(<<>>) = {}
  /\ \A V : OrderedBy(<<>>, V)
  BY DEF Writes, Dos, OrderedBy

LEMMA Single ==
  ASSUME NEW a \in WriteType
  PROVE  /\ <<a>> \in Seq(WriteType)
         /\ \A w : w \in Writes(<<a>>) <=> w = a
         /\ \A d : d \in Dos(<<a>>) <=> d = a.do
         /\ <<a>> # <<>> /\ Head(<<a>>) = a /\ Tail(<<a>>) = <<>>
         /\ \A V : OrderedBy(<<a>>, V)
  <1>1. <<a>> = [i \in 1..1 |-> a] /\ DOMAIN <<a>> = 1..1 /\ \A i \in 1..1 : i = 1
    OBVIOUS
  <1>2. <<a>> \in Seq(WriteType)
    BY <1>1
  <1>3. Writes(<<a>>) = {a} /\ \A V : OrderedBy(<<a>>, V)
    BY <1>1 DEF Writes, OrderedBy
  <1>4. QED
    BY <1>2, <1>3 DEF Dos

LEMMA Double ==
  ASSUME NEW a \in WriteType, NEW b \in WriteType
  PROVE  /\ <<a, b>> \in Seq(WriteType)
         /\ \A w : w \in Writes(<<a, b>>) <=> w = a \/ w = b
         /\ \A d : d \in Dos(<<a, b>>) <=> d = a.do \/ d = b.do
         /\ <<a, b>> # <<>> /\ Head(<<a, b>>) = a /\ Tail(<<a, b>>) = <<b>>
         /\ \A V : <<a.do, b.do>> \notin V => OrderedBy(<<a, b>>, V)
  <1> DEFINE s == <<a, b>>
  <1>1. DOMAIN s = 1..2 /\ s[1] = a /\ s[2] = b /\ \A i \in 1..2 : i = 1 \/ i = 2
    OBVIOUS
  <1>2. s = [i \in 1..2 |-> IF i = 1 THEN a ELSE b]
    BY <1>1
  <1>3. s \in Seq(WriteType)
    BY <1>2
  <1>4. Writes(s) = {a, b} /\ \A V : <<a.do, b.do>> \notin V => OrderedBy(s, V)
    BY <1>1 DEF Writes, OrderedBy
  <1>5. s # <<>> /\ Head(s) = a /\ Tail(s) = <<b>>
    OBVIOUS
  <1>6. QED
    BY <1>3, <1>4, <1>5 DEF Dos

LEMMA Triple ==
  ASSUME NEW a \in WriteType, NEW b \in WriteType, NEW c \in WriteType
  PROVE  /\ <<a, b, c>> \in Seq(WriteType)
         /\ \A V : /\ <<a.do, b.do>> \notin V /\ <<a.do, c.do>> \notin V
                  /\ <<b.do, c.do>> \notin V
                  => OrderedBy(<<a, b, c>>, V)
  <1> DEFINE s == <<a, b, c>>
  <1>1. /\ DOMAIN s = 1..3 /\ s[1] = a /\ s[2] = b /\ s[3] = c
        /\ \A i \in 1..3 : i = 1 \/ i = 2 \/ i = 3
    OBVIOUS
  <1>2. s = [i \in 1..3 |-> IF i = 1 THEN a ELSE IF i = 2 THEN b ELSE c]
    BY <1>1
  <1>3. s \in Seq(WriteType)
    BY <1>2
  <1>4. ASSUME NEW V, <<a.do, b.do>> \notin V, <<a.do, c.do>> \notin V, <<b.do, c.do>> \notin V
        PROVE  OrderedBy(s, V)
    BY <1>1, <1>4 DEF OrderedBy
  <1>5. QED
    BY <1>3, <1>4

LEMMA Joined ==
  ASSUME NEW s \in Seq(WriteType), NEW t \in Seq(WriteType)
  PROVE  /\ s \o t \in Seq(WriteType)
         /\ Writes(s \o t) = Writes(s) \cup Writes(t)
         /\ Dos(s \o t) = Dos(s) \cup Dos(t)
         /\ \A V : OrderedBy(s, V) /\ OrderedBy(t, V)
                     /\ (\A a \in Dos(s), b \in Dos(t) : <<a, b>> \notin V)
                     => OrderedBy(s \o t, V)
  <1> DEFINE u == s \o t
             m == Len(s)
             n == Len(t)
  <1>1. m \in Nat /\ n \in Nat /\ DOMAIN s = 1..m /\ DOMAIN t = 1..n
    OBVIOUS
  <1>2. u \in Seq(WriteType) /\ DOMAIN u = 1..(m + n)
    OBVIOUS
  <1>3. /\ \A i \in 1..m : i \in 1..(m + n) /\ u[i] = s[i]
        /\ \A i \in 1..n : m + i \in 1..(m + n) /\ u[m + i] = t[i]
    BY <1>1
  <1>4. \A i \in 1..(m + n) : \/ i \in 1..m
                              \/ i - m \in 1..n /\ i = m + (i - m)
    BY <1>1
  <1> HIDE DEF u, m, n
  <1>5. \A i \in 1..(m + n) : \/ i \in DOMAIN s /\ u[i] = s[i]
                              \/ i \notin DOMAIN s /\ i - m \in DOMAIN t /\ u[i] = t[i - m]
    <2> TAKE i \in 1..(m + n)
    <2>1. CASE i \in 1..m
      BY <2>1, <1>1, <1>3
    <2>2. CASE i \notin 1..m
      <3>1. i - m \in 1..n /\ i = m + (i - m)
        BY <2>2, <1>4
      <3>2. u[m + (i - m)] = t[i - m]
        BY <3>1, <1>3
      <3>3. QED
        BY <2>2, <3>1, <3>2, <1>1
    <2>3. QED
      BY <2>1, <2>2
  <1>6. Writes(u) = Writes(s) \cup Writes(t)
    <2>1. Writes(s) \subseteq Writes(u)
      BY <1>1, <1>2, <1>3 DEF Writes
    <2>2. Writes(t) \subseteq Writes(u)
      BY <1>1, <1>2, <1>3 DEF Writes
    <2>3. Writes(u) \subseteq Writes(s) \cup Writes(t)
      BY <1>2, <1>5 DEF Writes
    <2>4. QED
      BY <2>1, <2>2, <2>3
  <1>7. Dos(u) = Dos(s) \cup Dos(t)
    BY <1>6 DEF Dos
  <1>8. ASSUME NEW V, OrderedBy(s, V), OrderedBy(t, V),
               \A a \in Dos(s), b \in Dos(t) : <<a, b>> \notin V
        PROVE  OrderedBy(u, V)
    <2> SUFFICES ASSUME NEW i \in 1..(m + n), NEW j \in 1..(m + n), i < j
                 PROVE  <<u[i].do, u[j].do>> \notin V
      BY <1>2 DEF OrderedBy
    <2>1. CASE i \in DOMAIN s /\ j \in DOMAIN s
      BY <2>1, <1>5, <1>8, <1>1, <1>3 DEF OrderedBy
    <2>2. CASE i \notin DOMAIN s /\ j \notin DOMAIN s
      <3>1. i - m \in DOMAIN t /\ j - m \in DOMAIN t /\ i - m < j - m
        BY <2>2, <1>5, <1>1
      <3>2. u[i] = t[i - m] /\ u[j] = t[j - m]
        BY <2>2, <1>5
      <3>3. QED
        BY <3>1, <3>2, <1>8 DEF OrderedBy
    <2>3. CASE i \in DOMAIN s /\ j \notin DOMAIN s
      <3>1. j - m \in DOMAIN t /\ u[j] = t[j - m]
        BY <2>3, <1>5
      <3>2. u[i] = s[i]
        BY <2>3, <1>5
      <3>3. u[i].do \in Dos(s) /\ u[j].do \in Dos(t)
        BY <3>1, <3>2, <2>3 DEF Dos, Writes
      <3>4. QED
        BY <3>3, <1>8
    <2>4. CASE i \notin DOMAIN s /\ j \in DOMAIN s
      BY <2>4, <1>1
    <2>5. QED
      BY <2>1, <2>2, <2>3, <2>4
  <1>9. QED
    BY <1>2, <1>6, <1>7, <1>8 DEF u

LEMMA WriteTypes ==
  /\ \A do \in Ops : Set(do) \in WriteType /\ Set(do).do = do /\ Set(do).set = {}
  /\ \A to \in Cursors : /\ MoveCursor(to) \in WriteType /\ MoveCursor(to).do = "cursor"
                         /\ MoveCursor(to).to = to
  /\ \A do \in Ops : \A S \in SUBSET Names :
       Files(do, S) \in WriteType /\ Files(do, S).do = do /\ Files(do, S).set = S
  /\ \A do \in Ops : \A to \in Cursors : \A S \in SUBSET Names :
       /\ Write(do, to, S) \in WriteType /\ Write(do, to, S).do = do
       /\ Write(do, to, S).to = to /\ Write(do, to, S).set = S
  <1>1. 0 \in Cursors /\ {} \in SUBSET Names /\ "cursor" \in Ops
    BY DEF Ops
  <1>2. \A do \in Ops : \A to \in Cursors : \A S \in SUBSET Names :
          /\ Write(do, to, S) \in WriteType /\ Write(do, to, S).do = do
          /\ Write(do, to, S).to = to /\ Write(do, to, S).set = S
    BY DEF Write, WriteType
  <1>3. QED
    BY <1>1, <1>2 DEF Set, MoveCursor, Files

LEMMA BlockWrites ==
  /\ Block \in Seq(WriteType)
  /\ Writes(Block) = {Set("blocked"), Files("block", {Timeout})}
  /\ Dos(Block) = {"blocked", "block"}
  /\ OrderedBy(Block, Wrong) /\ OrderedBy(Block, Late)
  <1> DEFINE a == Set("blocked")
             b == Files("block", {Timeout})
  <1>1. a \in WriteType /\ b \in WriteType /\ a.do = "blocked" /\ b.do = "block"
    BY WriteTypes DEF Ops
  <1>2. Block = <<a, b>>
    BY DEF Block
  <1>3. <<"blocked", "block">> \notin Wrong /\ <<"blocked", "block">> \notin Late
    BY DEF Wrong, Booking, Late
  <1> HIDE DEF a, b
  <1>4. /\ <<a, b>> \in Seq(WriteType) /\ \A w : w \in Writes(<<a, b>>) <=> w = a \/ w = b
        /\ \A d : d \in Dos(<<a, b>>) <=> d = a.do \/ d = b.do
        /\ \A V : <<a.do, b.do>> \notin V => OrderedBy(<<a, b>>, V)
    BY <1>1, Double
  <1>5. QED
    BY <1>1, <1>2, <1>3, <1>4 DEF a, b

\* A sequence of writes and one more at its end.
LEMMA OneMore ==
  ASSUME NEW s \in Seq(WriteType), NEW w \in WriteType
  PROVE  /\ s \o <<w>> \in Seq(WriteType)
         /\ \A v : v \in Writes(s \o <<w>>) <=> v \in Writes(s) \/ v = w
         /\ \A d : d \in Dos(s \o <<w>>) <=> d \in Dos(s) \/ d = w.do
         /\ \A V : OrderedBy(s, V) /\ (\A d \in Dos(s) : <<d, w.do>> \notin V)
                     => OrderedBy(s \o <<w>>, V)
  <1>1. <<w>> \in Seq(WriteType) /\ Writes(<<w>>) = {w} /\ Dos(<<w>>) = {w.do}
    <2>1. /\ <<w>> \in Seq(WriteType) /\ \A v : v \in Writes(<<w>>) <=> v = w
          /\ \A d : d \in Dos(<<w>>) <=> d = w.do
      BY Single
    <2>2. QED
      BY <2>1
  <1>2. \A V : OrderedBy(<<w>>, V)
    BY Single
  <1> DEFINE t == <<w>>
  <1> HIDE DEF t
  <1>3. /\ s \o t \in Seq(WriteType) /\ Writes(s \o t) = Writes(s) \cup Writes(t)
        /\ Dos(s \o t) = Dos(s) \cup Dos(t)
    BY <1>1, Joined DEF t
  <1>4. ASSUME NEW V, OrderedBy(s, V), \A d \in Dos(s) : <<d, w.do>> \notin V
        PROVE  OrderedBy(s \o t, V)
    <2>1. \A a \in Dos(s), b \in Dos(t) : <<a, b>> \notin V
      BY <1>1, <1>4 DEF t
    <2>2. OrderedBy(t, V)
      BY <1>2 DEF t
    <2>3. QED
      BY <1>1, <1>4, <2>1, <2>2, Joined DEF t
  <1>5. QED
    BY <1>1, <1>3, <1>4 DEF t

LEMMA AcknowledgeWrites ==
  ASSUME NEW S \in SUBSET Names
  PROVE  /\ Acknowledge(S) \in Seq(WriteType)
         /\ Writes(Acknowledge(S)) = {Files("acknowledge", S), Files("remove", S)}
         /\ Dos(Acknowledge(S)) = {"acknowledge", "remove"}
         /\ OrderedBy(Acknowledge(S), Wrong)
  <1> DEFINE a == Files("acknowledge", S)
             b == Files("remove", S)
  <1>1. a \in WriteType /\ b \in WriteType /\ a.do = "acknowledge" /\ b.do = "remove"
    BY WriteTypes DEF Ops
  <1>2. Acknowledge(S) = <<a, b>>
    BY DEF Acknowledge
  <1>3. <<"acknowledge", "remove">> \notin Wrong
    BY DEF Wrong, Booking
  <1> HIDE DEF a, b
  <1>4. /\ <<a, b>> \in Seq(WriteType) /\ \A w : w \in Writes(<<a, b>>) <=> w = a \/ w = b
        /\ \A d : d \in Dos(<<a, b>>) <=> d = a.do \/ d = b.do
        /\ \A V : <<a.do, b.do>> \notin V => OrderedBy(<<a, b>>, V)
    BY <1>1, Double
  <1>5. QED
    BY <1>1, <1>2, <1>3, <1>4 DEF a, b

LEMMA DeliveredWrites ==
  ASSUME NEW S \in SUBSET Names, NEW to \in Cursors
  PROVE  /\ Delivered(S, to) \in Seq(WriteType)
         /\ Writes(Delivered(S, to)) =
              {Set("completed"), Set("receipt"), Write("confirm", to, {}),
               Files("acknowledge", S), Files("remove", S)}
         /\ Dos(Delivered(S, to)) = {"completed", "receipt", "confirm", "acknowledge", "remove"}
         /\ OrderedBy(Delivered(S, to), Wrong)
  <1> DEFINE a == Set("completed")
             b == Set("receipt")
             c == Write("confirm", to, {})
             u == Acknowledge(S)
             v == <<a, b, c>>
  <1>1. /\ a \in WriteType /\ b \in WriteType /\ c \in WriteType
        /\ a.do = "completed" /\ b.do = "receipt" /\ c.do = "confirm"
    <2>1. {} \in SUBSET Names /\ {"completed", "receipt", "confirm"} \subseteq Ops
      BY DEF Ops
    <2>2. QED
      BY <2>1, WriteTypes
  <1>2. Delivered(S, to) = v \o u
    BY DEF Delivered
  <1>3. /\ u \in Seq(WriteType) /\ Writes(u) = {Files("acknowledge", S), Files("remove", S)}
        /\ Dos(u) = {"acknowledge", "remove"} /\ OrderedBy(u, Wrong)
    BY AcknowledgeWrites
  <1> HIDE DEF a, b, c, u
  <1>4. /\ v \in Seq(WriteType) /\ \A w : w \in Writes(v) <=> w = a \/ w = b \/ w = c
        /\ \A d : d \in Dos(v) <=> d = a.do \/ d = b.do \/ d = c.do
    <2>1. v \in Seq(WriteType)
      BY <1>1, Triple
    <2>2. \A w : w \in Writes(v) <=> w = a \/ w = b \/ w = c
      <3>1. /\ DOMAIN v = 1..3 /\ v[1] = a /\ v[2] = b /\ v[3] = c
            /\ \A i \in 1..3 : i = 1 \/ i = 2 \/ i = 3
        OBVIOUS
      <3>2. QED
        BY <3>1 DEF Writes
    <2>3. \A d : d \in Dos(v) <=> d = a.do \/ d = b.do \/ d = c.do
      BY <2>2 DEF Dos
    <2>4. QED
      BY <2>1, <2>2, <2>3
  <1>5. OrderedBy(v, Wrong)
    <2>1. <<a.do, b.do>> \notin Wrong /\ <<a.do, c.do>> \notin Wrong /\ <<b.do, c.do>> \notin Wrong
      BY <1>1 DEF Wrong, Booking
    <2>2. QED
      BY <1>1, <2>1, Triple
  <1>6. \A d \in Dos(v), e \in Dos(u) : <<d, e>> \notin Wrong
    BY <1>1, <1>3, <1>4 DEF Wrong, Booking
  <1>7. Writes(v) = {a, b, c} /\ Dos(v) = {"completed", "receipt", "confirm"}
    BY <1>1, <1>4
  <1> HIDE DEF v
  <1>8. /\ v \o u \in Seq(WriteType) /\ Writes(v \o u) = Writes(v) \cup Writes(u)
        /\ Dos(v \o u) = Dos(v) \cup Dos(u) /\ OrderedBy(v \o u, Wrong)
    BY <1>3, <1>4, <1>5, <1>6, Joined
  <1>9. QED
    BY <1>2, <1>3, <1>7, <1>8 DEF a, b, c

LEMMA RetireWrites ==
  ASSUME TypeOK
  PROVE  /\ Retire \in Seq(WriteType)
         /\ Writes(Retire) = {Set("retired"), MoveCursor(record.through), Set("blocked"),
                             Files("block", {Timeout}), Set("noticed"),
                             Files("supersede", record.kept \ {Timeout})}
         /\ Dos(Retire) = {"retired", "cursor", "blocked", "block", "noticed", "supersede"}
         /\ OrderedBy(Retire, Wrong) /\ OrderedBy(Retire, Late)
  <1> DEFINE a == Set("retired")
             b == MoveCursor(record.through)
             c == Set("noticed")
             d == Files("supersede", record.kept \ {Timeout})
             s == <<a, b>>
             t == <<c, d>>
             u == Block
  <1>1. /\ a \in WriteType /\ b \in WriteType /\ c \in WriteType /\ d \in WriteType
        /\ a.do = "retired" /\ b.do = "cursor" /\ c.do = "noticed" /\ d.do = "supersede"
    <2>1. /\ record.kept \ {Timeout} \in SUBSET Names /\ record.through \in Cursors
          /\ {"retired", "cursor", "noticed", "supersede"} \subseteq Ops
      BY DEF Ops, TypeOK, RecordType
    <2> HIDE DEF Names, Cursors
    <2>2. QED
      BY <2>1, WriteTypes
  <1>2. Retire = (s \o u) \o t
    BY DEF Retire
  <1>3. /\ u \in Seq(WriteType) /\ Writes(u) = {Set("blocked"), Files("block", {Timeout})}
        /\ Dos(u) = {"blocked", "block"} /\ OrderedBy(u, Wrong) /\ OrderedBy(u, Late)
    BY BlockWrites
  <1> HIDE DEF a, b, c, d, u
  <1>4. /\ s \in Seq(WriteType) /\ Writes(s) = {a, b} /\ Dos(s) = {"retired", "cursor"}
        /\ OrderedBy(s, Wrong) /\ OrderedBy(s, Late)
    <2>1. /\ s \in Seq(WriteType) /\ \A w : w \in Writes(s) <=> w = a \/ w = b
          /\ \A e : e \in Dos(s) <=> e = a.do \/ e = b.do
      BY <1>1, Double
    <2>2. <<a.do, b.do>> \notin Wrong /\ <<a.do, b.do>> \notin Late
      BY <1>1 DEF Wrong, Booking, Late
    <2>3. OrderedBy(s, Wrong) /\ OrderedBy(s, Late)
      BY <1>1, <2>2, Double
    <2>4. QED
      BY <1>1, <2>1, <2>3
  <1>5. /\ t \in Seq(WriteType) /\ Writes(t) = {c, d} /\ Dos(t) = {"noticed", "supersede"}
        /\ OrderedBy(t, Wrong) /\ OrderedBy(t, Late)
    <2>1. /\ t \in Seq(WriteType) /\ \A w : w \in Writes(t) <=> w = c \/ w = d
          /\ \A e : e \in Dos(t) <=> e = c.do \/ e = d.do
      BY <1>1, Double
    <2>2. <<c.do, d.do>> \notin Wrong /\ <<c.do, d.do>> \notin Late
      BY <1>1 DEF Wrong, Booking, Late
    <2>3. OrderedBy(t, Wrong) /\ OrderedBy(t, Late)
      BY <1>1, <2>2, Double
    <2>4. QED
      BY <1>1, <2>1, <2>3
  <1> HIDE DEF s, t
  <1>6. /\ s \o u \in Seq(WriteType) /\ Writes(s \o u) = Writes(s) \cup Writes(u)
        /\ Dos(s \o u) = Dos(s) \cup Dos(u)
        /\ OrderedBy(s \o u, Wrong) /\ OrderedBy(s \o u, Late)
    <2>1. \A e \in Dos(s), f \in Dos(u) : <<e, f>> \notin Wrong /\ <<e, f>> \notin Late
      BY <1>3, <1>4 DEF Wrong, Booking, Late
    <2>2. QED
      BY <2>1, <1>3, <1>4, Joined
  <1> DEFINE v == s \o u
  <1>7. \A e \in Dos(v), f \in Dos(t) : <<e, f>> \notin Wrong /\ <<e, f>> \notin Late
    BY <1>3, <1>4, <1>5, <1>6 DEF Wrong, Booking, Late
  <1>8. /\ v \in Seq(WriteType) /\ Writes(v) = {a, b} \cup {Set("blocked"), Files("block", {Timeout})}
        /\ Dos(v) = {"retired", "cursor", "blocked", "block"}
        /\ OrderedBy(v, Wrong) /\ OrderedBy(v, Late)
    BY <1>3, <1>4, <1>6
  <1> HIDE DEF v
  <1>9. /\ v \o t \in Seq(WriteType) /\ Writes(v \o t) = Writes(v) \cup Writes(t)
        /\ Dos(v \o t) = Dos(v) \cup Dos(t)
        /\ OrderedBy(v \o t, Wrong) /\ OrderedBy(v \o t, Late)
    BY <1>5, <1>7, <1>8, Joined
  <1>10. Retire = v \o t
    BY <1>2 DEF v
  <1>11. QED
    BY <1>5, <1>8, <1>9, <1>10 DEF a, b, c, d

-----------------------------------------------------------------------------
(* The operators of the model                                              *)

LEMMA LastIn ==
  ASSUME NEW S, S \subseteq Messages, S # {}
  PROVE  Last(S) \in S /\ S \subseteq Upto(Last(S)) /\ Last(S) \in Messages
  <1>1. \E m \in S : \A n \in S : n <= m
    BY GreatestExists
  <1>2. Last(S) \in S /\ \A m \in S : m <= Last(S)
    BY <1>1, Zenon DEF Last
  <1> DEFINE l == Last(S)
  <1> HIDE DEF l
  <1>3. l \in S /\ \A m \in S : m <= l /\ m \in Messages
    BY <1>2 DEF l
  <1>4. S \subseteq 1..l
    BY <1>3
  <1>5. QED
    BY <1>3, <1>4 DEF l

LEMMA NamesFinite ==
  ASSUME NEW S, S \subseteq Names
  PROVE  IsFiniteSet(S) /\ Cardinality(S) \in Nat
  <1>1. IsFiniteSet(0..MaxMessage)
    BY FS_Interval
  <1>2. S \subseteq 0..MaxMessage
    OBVIOUS
  <1>3. QED
    BY <1>1, <1>2, FS_Subset, FS_CardinalityType

LEMMA StoreTyped ==
  ASSUME TypeOK
  PROVE  /\ Inputs \subseteq Names
         /\ \A st : InMode(st) \subseteq Names
         /\ \A S : S \subseteq Names => Sources(S) \subseteq Messages
         /\ Excluded \subseteq Messages
         /\ Prompt \subseteq Messages
         /\ Piped \in Cursors /\ cursor <= Piped /\ run.target <= Piped
  <1>1. Inputs \subseteq Names /\ \A st : InMode(st) \subseteq Names
    BY DEF Inputs, InMode
  <1>2. ASSUME NEW S, S \subseteq Names PROVE Sources(S) \subseteq Messages
    <2>1. \A n \in S : Source(n) \subseteq Messages
      BY <1>2 DEF Source, TypeOK, RecordType
    <2>2. QED
      BY <2>1 DEF Sources
  <1>3. Excluded \subseteq Messages
    BY <1>1, <1>2 DEF Excluded, TypeOK
  <1>4. Prompt \subseteq Messages
    <2>1. (cursor + 1)..arrived \subseteq Messages
      BY DEF TypeOK
    <2>2. QED
      BY <2>1, <1>1, <1>2 DEF Prompt
  <1>5. Piped \in Cursors /\ cursor <= Piped /\ run.target <= Piped
    <2>1. cursor \in Cursors /\ run.target \in Cursors /\ run.window \in Seq(Messages)
      BY DEF TypeOK, RunType
    <2>2. run.window # <<>> => run.window[Len(run.window)] \in Messages
      BY <2>1
    <2>3. QED
      BY <2>1, <2>2 DEF Piped, Larger
  <1>6. QED
    BY <1>1, <1>2, <1>3, <1>4, <1>5

LEMMA CoveringFacts ==
  ASSUME NEW r \in RunType, NEW n \in Nat
  PROVE  LET c == Covering(r, n)
             L == Len(r.window)
             k == Smaller(n, L) IN
         /\ c \in RunType
         /\ c.prompt = r.prompt /\ c.orig = r.orig /\ c.kept = r.kept /\ c.folded = r.folded
         /\ c.active = r.active /\ c.recovered = r.recovered
         /\ L \in Nat /\ k \in 0..L
         /\ c.target = (IF k = 0 THEN r.target ELSE Larger(r.target, r.window[k]))
         /\ r.target <= c.target
         /\ Len(c.window) = L - k
         /\ \A i \in 1..(L - k) : c.window[i] = r.window[k + i]
  <1> DEFINE c == Covering(r, n)
             L == Len(r.window)
             k == Smaller(n, L)
             w == SubSeq(r.window, k + 1, L)
             to == IF k = 0 THEN r.target ELSE Larger(r.target, r.window[k])
  <1>1. r.window \in Seq(Messages) /\ L \in Nat /\ k \in 0..L /\ r.target \in Cursors
    BY DEF RunType, Smaller
  <1>2. c = [r EXCEPT !.target = to, !.window = w]
    BY DEF Covering
  <1>3. w = [i \in 1..(L - k) |-> r.window[k + i]]
    <2>1. L - (k + 1) + 1 = L - k /\ \A i \in 1..(L - k) : (k + 1) + i - 1 = k + i
      BY <1>1
    <2> HIDE DEF k
    <2>2. QED
      BY <1>1, <2>1
  <1> HIDE DEF c, L, k, w
  <1>4. \A i \in 1..(L - k) : k + i \in 1..L /\ r.window[k + i] \in Messages
    BY <1>1 DEF L
  <1>5. w \in Seq(Messages) /\ Len(w) = L - k /\ \A i \in 1..(L - k) : w[i] = r.window[k + i]
    <2>1. L - k \in Nat
      BY <1>1
    <2>2. w \in Seq(Messages)
      BY <2>1, <1>3, <1>4
    <2>3. Len(w) = L - k
      BY <2>1, <1>3
    <2>4. QED
      BY <2>2, <2>3, <1>3
  <1>6. k # 0 => r.window[k] \in Messages
    BY <1>1 DEF L
  <1>7. to \in Cursors /\ r.target <= to
    BY <1>1, <1>6 DEF Larger
  <1> HIDE DEF to
  <1>8. c \in RunType /\ c.target = to /\ c.window = w
        /\ c.prompt = r.prompt /\ c.orig = r.orig /\ c.kept = r.kept /\ c.folded = r.folded
        /\ c.active = r.active /\ c.recovered = r.recovered
    BY <1>2, <1>5, <1>7 DEF RunType
  <1>9. QED
    BY <1>1, <1>5, <1>7, <1>8 DEF c, L, k, to

LEMMA NoRunTyped == NoRun \in RunType /\ ~NoRun.active /\ NoRun.window = <<>> /\ NoRun.folded = {}
  BY DEF NoRun, RunType

\* Steps that leave the store leave what is read off it.
LEMMA SameStore ==
  ASSUME UNCHANGED <<storeVars>>
  PROVE  /\ Inputs' = Inputs /\ Excluded' = Excluded /\ Answering' = Answering
         /\ InMode("confirmed")' = InMode("confirmed")
         /\ \A S : Sources(S)' = Sources(S)
  <1>1. Inputs' = Inputs /\ Answering' = Answering /\ InMode("confirmed")' = InMode("confirmed")
    BY DEF Inputs, Answering, InMode
  <1>2. \A n : Source(n)' = Source(n)
    BY DEF Source
  <1>3. \A S : Sources(S)' = Sources(S)
    BY <1>2 DEF Sources
  <1>4. QED
    BY <1>1, <1>3 DEF Excluded

LEMMA Mild ==
  ASSUME NEW s \in Seq(WriteType), NEW V, \A a, b \in Dos(s) : <<a, b>> \notin V
  PROVE  OrderedBy(s, V)
  <1>1. \A i \in DOMAIN s : s[i].do \in Dos(s)
    BY DEF Dos, Writes
  <1>2. QED
    BY <1>1 DEF OrderedBy

LEMMA WhenFree ==
  ASSUME Free
  PROVE  Writes(todo) = {} /\ Dos(todo) = {}
  BY Nothing DEF Free

\* Steps that go on from where nothing is to be written, keep the store and ask at
\* most for moves of the cursor or the note that the owner was told.
LEMMA Quiet ==
  ASSUME IInv, Free, UNCHANGED <<arrived, storeVars, ghostVars>>,
         todo' \in Seq(WriteType), Dos(todo') \subseteq {"cursor", "noticed"},
         "noticed" \in Dos(todo') => record.st # "none",
         pc' \in Points \ {"claim", "launch", "model"},
         pc' \in {"notices", "clean", "collect"} =>
           \/ pc \in {"notices", "clean", "collect"}
           \/ Timeout \notin Inputs \/ record.st = "pending",
         run' \in RunType, RunSound',
         run'.active /\ pc' \in AtWork => record.batch \subseteq Upto(run'.orig)
  PROVE  IInv'
  <1>1. TypeOK'
    BY DEF IInv, TypeOK
  <1>s. /\ Inputs' = Inputs /\ Excluded' = Excluded /\ Answering' = Answering
        /\ InMode("confirmed")' = InMode("confirmed")
        /\ Sources(record.kept)' = Sources(record.kept)
    BY SameStore
  <1>f. Writes(todo) = {} /\ Dos(todo) = {}
    BY WhenFree
  <1>d. \A w \in Writes(todo') : w.do \in Dos(todo')
    BY DEF Dos
  <1>2. RecordSound'
    BY <1>s DEF IInv, RecordSound
  <1>3. WritesSound'
    <2>1. OrderedBy(todo', Wrong)
      <3>1. \A a, b \in Dos(todo') : <<a, b>> \notin Wrong
        BY DEF Wrong, Booking
      <3>2. QED
        BY <3>1, Mild
    <2>2. QED
      BY <2>1, <1>d, <1>s DEF WritesSound, Special, Booking
  <1>4. TakenUp'
    BY <1>s, <1>f DEF TakenUp, IInv
  <1>5. BatchFresh'
    BY <1>s, <1>f DEF IInv, BatchFresh, Excluding
  <1>6. BatchPassed'
    <2>1. Untouched => Untouched'
      BY <1>s, <1>d DEF Untouched
    <2>2. SetAside => SetAside'
      BY <1>s, <1>f DEF SetAside
    <2>3. Passing(record.batch) => Passing(record.batch)'
      BY <1>f DEF Passing
    <2>4. QED
      BY <2>1, <2>2, <2>3 DEF IInv, BatchPassed
  <1>7. NoThrow'
    <2>1. ASSUME throws = 0 PROVE AnsweredSound'
      <3>1. AnsweredSound
        BY <2>1 DEF IInv, NoThrow
      <3>2. ~Removing'
        BY <1>d DEF Removing
      <3>3. Past' = Past /\ Closed' = Closed
        BY <1>s DEF Past, Closed
      <3>4. QED
        <4>1. Answering /\ Timeout \in Inputs /\ pc' \in {"notices", "clean", "collect"} => Past
          <5>1. ~Moves("confirm") /\ ~Moves("cursor")
            BY <1>f DEF Moves
          <5>2. Answering => record.st # "pending"
            BY DEF IInv, RecordSound
          <5>3. QED
            BY <3>1, <5>1, <5>2 DEF AnsweredSound
        <4>2. QED
          BY <3>1, <3>2, <3>3, <4>1, <1>s, <1>f DEF AnsweredSound
    <2>2. WindowSound'
      BY DEF WindowSound
    <2>3. QED
      BY <2>1, <2>2 DEF NoThrow
  <1>8. QED
    BY <1>1, <1>2, <1>3, <1>4, <1>5, <1>6, <1>7 DEF IInv

\* Such a step where the run keeps its locals and does not begin.
LEMMA QuietRun ==
  ASSUME IInv, Free, UNCHANGED <<arrived, storeVars, ghostVars>>,
         todo' \in Seq(WriteType), Dos(todo') \subseteq {"cursor", "noticed"},
         "noticed" \in Dos(todo') => record.st # "none",
         pc' \in {"idle", "notices", "clean", "collect", "apology", "ending", "stopping"},
         pc' \in {"notices", "clean", "collect"} =>
           \/ pc \in {"notices", "clean", "collect"}
           \/ Timeout \notin Inputs \/ record.st = "pending",
         run' = run \/ run' = NoRun, pc' \in AtWork => run' = run /\ pc \in AtWork,
         pc' = "stopping" => pc = "claim" /\ Dos(todo') \subseteq {"cursor"}
  PROVE  IInv'
  <1>1. pc' \in Points /\ pc' \notin {"claim", "launch", "model"}
    BY DEF Points
  <1>2. run' \in RunType
    BY NoRunTyped DEF IInv, TypeOK
  <1>3. RunSound'
    <2>1. run'.active => run' = run
      BY NoRunTyped
    <2>2. QED
      BY <2>1 DEF IInv, RunSound
  <1>4. run'.active /\ pc' \in AtWork => record.batch \subseteq Upto(run'.orig)
    BY DEF IInv, BatchFresh
  <1>5. QED
    BY <1>1, <1>2, <1>3, <1>4, Quiet

LEMMA NoWrites == <<>> \in Seq(WriteType) /\ Dos(<<>>) = {} /\ Writes(<<>>) = {}
  BY Nothing

LEMMA CursorWrite ==
  ASSUME NEW to \in Cursors
  PROVE  LET s == <<MoveCursor(to)>> IN
         /\ s \in Seq(WriteType) /\ Dos(s) = {"cursor"} /\ Writes(s) = {MoveCursor(to)}
         /\ s # <<>>
  <1> DEFINE w == MoveCursor(to)
  <1>1. w \in WriteType /\ w.do = "cursor"
    BY WriteTypes
  <1> HIDE DEF w
  <1>2. /\ <<w>> \in Seq(WriteType) /\ \A v : v \in Writes(<<w>>) <=> v = w
        /\ \A d : d \in Dos(<<w>>) <=> d = w.do
    BY <1>1, Single
  <1>3. QED
    BY <1>1, <1>2 DEF w

LEMMA NoteWrite ==
  ASSUME NEW do \in Ops
  PROVE  LET s == <<Set(do)>> IN
         /\ s \in Seq(WriteType) /\ Dos(s) = {do} /\ Writes(s) = {Set(do)} /\ s # <<>>
  <1> DEFINE w == Set(do)
  <1>1. w \in WriteType /\ w.do = do
    BY WriteTypes
  <1> HIDE DEF w
  <1>2. /\ <<w>> \in Seq(WriteType) /\ \A v : v \in Writes(<<w>>) <=> v = w
        /\ \A d : d \in Dos(<<w>>) <=> d = w.do
    BY <1>1, Single
  <1>3. QED
    BY <1>1, <1>2 DEF w

LEMMA ResentFails ==
  ASSUME IInv, Resent(FALSE)  PROVE IInv'
  BY QuietRun, NoWrites DEF Resent, Then, AtWork

LEMMA NoticedKept ==
  ASSUME IInv, NEW ok \in BOOLEAN, Noticed(ok)  PROVE IInv'
  <1>1. "noticed" \in Ops
    BY DEF Ops
  <1>2. todo' \in Seq(WriteType) /\ Dos(todo') \subseteq {"noticed"}
    BY <1>1, NoWrites, NoteWrite DEF Noticed, Then
  <1>3. record.st # "none"
    BY DEF Noticed, IsNoticeDue
  <1>4. pc = "notices" /\ pc' \in {"clean", "idle"}
    BY DEF Noticed, Then
  <1>5. QED
    BY <1>2, <1>3, <1>4, QuietRun DEF Noticed, Then, AtWork

LEMMA StopCommandKept ==
  ASSUME IInv, StopCommand  PROVE IInv'
  <1>1. run.target \in Cursors
    BY DEF IInv, TypeOK, RunType
  <1>2. todo' \in Seq(WriteType) /\ Dos(todo') = {"cursor"}
    BY <1>1, CursorWrite DEF StopCommand, Then
  <1>3. QED
    BY <1>2, QuietRun DEF StopCommand, Then, AtWork

LEMMA SilentKept ==
  ASSUME IInv, Silent  PROVE IInv'
  BY QuietRun, NoWrites DEF Silent, Then, AtWork

LEMMA FailKept ==
  ASSUME IInv, Fail  PROVE IInv'
  BY QuietRun, NoWrites DEF Fail, Then, AtWork

\* Steps that give a continuation up: the record, the file, a word, the cursor.
LEMMA Blocking ==
  ASSUME IInv, Free, UNCHANGED <<arrived, storeVars, ghostVars>>,
         todo' \in Seq(WriteType), OrderedBy(todo', Wrong),
         Dos(todo') \subseteq {"blocked", "block", "noticed", "cursor"},
         record.st # "none", Answering => record.st = "blocked",
         pc' \in {"idle", "notices"}, run' = run \/ run' = NoRun,
         pc' = "notices" => /\ record.st # "pending"
                            /\ \E w \in Writes(todo') : w.do = "block" /\ Timeout \in w.set,
         starts = 1 => \E w \in Writes(todo') : w.do = "cursor" /\ record.batch \subseteq Upto(w.to)
  PROVE  IInv'
  <1>r. run' \in RunType /\ (run'.active => run' = run)
    BY NoRunTyped DEF IInv, TypeOK
  <1>1. TypeOK'
    BY <1>r DEF IInv, TypeOK, Points
  <1>s. /\ Inputs' = Inputs /\ Excluded' = Excluded /\ Answering' = Answering
        /\ InMode("confirmed")' = InMode("confirmed")
        /\ Sources(record.kept)' = Sources(record.kept)
    BY SameStore
  <1>f. Writes(todo) = {} /\ Dos(todo) = {}
    BY WhenFree
  <1>d. \A w \in Writes(todo') : w.do \in Dos(todo')
    BY DEF Dos
  <1>2. RecordSound'
    BY <1>s DEF IInv, RecordSound
  <1>3. WritesSound'
    BY <1>d, <1>s DEF WritesSound, Special, Booking
  <1>4. RunSound'
    BY <1>r DEF IInv, RunSound, AtWork
  <1>5. TakenUp'
    BY DEF TakenUp
  <1>6. BatchFresh'
    BY <1>s, <1>f DEF IInv, BatchFresh, Excluding, AtWork
  <1>7. BatchPassed'
    BY DEF BatchPassed, Passing
  <1>8. NoThrow'
    <2>1. ASSUME throws = 0 PROVE AnsweredSound'
      <3>1. AnsweredSound
        BY <2>1 DEF IInv, NoThrow
      <3>2. ~Removing'
        BY <1>d DEF Removing
      <3>3. Past' = Past /\ Closed' = Closed
        BY <1>s DEF Past, Closed
      <3>4. Answering => record.covered \subseteq retired /\ Past
        BY <3>1 DEF AnsweredSound
      <3>5. QED
        BY <3>1, <3>2, <3>3, <3>4, <1>s, <1>f DEF AnsweredSound
    <2>2. WindowSound'
      BY DEF WindowSound
    <2>3. QED
      BY <2>1, <2>2 DEF NoThrow
  <1>9. QED
    BY <1>1, <1>2, <1>3, <1>4, <1>5, <1>6, <1>7, <1>8 DEF IInv

LEMMA BlockAnd ==
  ASSUME NEW w \in WriteType, w.do \in {"noticed", "cursor"}
  PROVE  LET s == Block \o <<w>> IN
         /\ s \in Seq(WriteType) /\ OrderedBy(s, Wrong)
         /\ Dos(s) = {"blocked", "block", w.do}
         /\ Writes(s) = {Set("blocked"), Files("block", {Timeout}), w}
  <1> DEFINE b == Block
             s == b \o <<w>>
  <1>1. /\ b \in Seq(WriteType) /\ Writes(b) = {Set("blocked"), Files("block", {Timeout})}
        /\ Dos(b) = {"blocked", "block"} /\ OrderedBy(b, Wrong)
    BY BlockWrites
  <1> HIDE DEF b
  <1>2. \A d \in Dos(b) : <<d, w.do>> \notin Wrong
    BY <1>1 DEF Wrong, Booking
  <1>3. /\ s \in Seq(WriteType) /\ \A v : v \in Writes(s) <=> v \in Writes(b) \/ v = w
        /\ \A d : d \in Dos(s) <=> d \in Dos(b) \/ d = w.do
    BY <1>1, OneMore
  <1>4. OrderedBy(s, Wrong)
    BY <1>1, <1>2, OneMore
  <1>5. QED
    BY <1>1, <1>3, <1>4 DEF b

LEMMA BlockNotedAnd ==
  ASSUME NEW to \in Cursors
  PROVE  LET s == (Block \o <<Set("noticed")>>) \o <<MoveCursor(to)>> IN
         /\ s \in Seq(WriteType) /\ OrderedBy(s, Wrong)
         /\ Dos(s) = {"blocked", "block", "noticed", "cursor"}
         /\ MoveCursor(to) \in Writes(s)
  <1> DEFINE b == Block \o <<Set("noticed")>>
             w == MoveCursor(to)
             s == b \o <<w>>
  <1>1. Set("noticed") \in WriteType /\ Set("noticed").do = "noticed"
    BY WriteTypes DEF Ops
  <1>2. /\ b \in Seq(WriteType) /\ OrderedBy(b, Wrong)
        /\ Dos(b) = {"blocked", "block", "noticed"}
    BY <1>1, BlockAnd
  <1>3. w \in WriteType /\ w.do = "cursor"
    BY WriteTypes
  <1> HIDE DEF b, w
  <1>4. \A d \in Dos(b) : <<d, w.do>> \notin Wrong
    BY <1>2, <1>3 DEF Wrong, Booking
  <1>5. /\ s \in Seq(WriteType) /\ \A v : v \in Writes(s) <=> v \in Writes(b) \/ v = w
        /\ \A d : d \in Dos(s) <=> d \in Dos(b) \/ d = w.do
    BY <1>2, <1>3, OneMore
  <1>6. OrderedBy(s, Wrong)
    BY <1>2, <1>3, <1>4, OneMore
  <1>7. QED
    BY <1>2, <1>3, <1>5, <1>6 DEF b, w

LEMMA StopRepliedKept ==
  ASSUME IInv, StopReplied  PROVE IInv'
  <1>1. CASE run.active
    <2> DEFINE s == Block \o <<Set("noticed")>>
    <2>1. record.st = "pending" /\ starts # 1 /\ ~Answering
      BY <1>1 DEF IInv, RunSound, StopReplied, RecordSound
    <2>2. Set("noticed") \in WriteType /\ Set("noticed").do = "noticed"
      BY WriteTypes DEF Ops
    <2>3. /\ s \in Seq(WriteType) /\ OrderedBy(s, Wrong)
          /\ Dos(s) = {"blocked", "block", "noticed"}
      BY <2>2, BlockAnd
    <2>4. todo' = s /\ pc' = "idle" /\ Free /\ run' = run
          /\ UNCHANGED <<arrived, storeVars, ghostVars>>
      BY <1>1 DEF StopReplied, Then
    <2> HIDE DEF s
    <2>5. QED
      BY <2>1, <2>3, <2>4, Blocking
  <1>2. CASE ~run.active
    BY <1>2, QuietRun, NoWrites DEF StopReplied, Then, AtWork
  <1>3. QED
    BY <1>1, <1>2

LEMMA IneligibleKept ==
  ASSUME IInv, Ineligible  PROVE IInv'
  <1>1. record.st = "pending" /\ starts # 1 /\ ~Answering
    BY DEF IInv, RunSound, Ineligible, RecordSound
  <1>2. todo' = Block /\ pc' = "idle" /\ Free /\ run' = run
        /\ UNCHANGED <<arrived, storeVars, ghostVars>>
    BY DEF Ineligible, Then
  <1>3. QED
    BY <1>1, <1>2, BlockWrites, Blocking

LEMMA StoppedKept ==
  ASSUME IInv, Stopped  PROVE IInv'
  <1> DEFINE w == MoveCursor(run.target)
  <1>1. run.target \in Cursors
    BY DEF IInv, TypeOK, RunType
  <1>2. Free /\ run' = run /\ pc = "model" /\ pc' = "idle"
        /\ UNCHANGED <<arrived, storeVars, ghostVars>>
    BY DEF Stopped, Then
  <1>3. CASE todo' = <<w>>
    <2>1. todo' \in Seq(WriteType) /\ Dos(todo') = {"cursor"}
      BY <1>1, <1>3, CursorWrite
    <2>2. QED
      BY <1>2, <2>1, QuietRun DEF AtWork
  <1>4. CASE run.active /\ todo' = (Block \o <<Set("noticed")>>) \o <<w>>
    <2> DEFINE s == (Block \o <<Set("noticed")>>) \o <<w>>
    <2>1. /\ s \in Seq(WriteType) /\ OrderedBy(s, Wrong)
          /\ Dos(s) = {"blocked", "block", "noticed", "cursor"} /\ w \in Writes(s)
      BY <1>1, BlockNotedAnd
    <2>2. record.st = "running" /\ ~Answering
      BY <1>2, <1>4 DEF IInv, RunSound, RecordSound
    <2>3. record.batch \subseteq Upto(run.target)
      <3>1. record.batch \subseteq Upto(run.orig) /\ run.orig <= run.target
        BY <1>2, <1>4 DEF IInv, BatchFresh, RunSound, AtWork
      <3>2. run.orig \in Cursors
        BY DEF IInv, TypeOK, RunType
      <3>3. QED
        BY <3>1, <3>2, <1>1
    <2>4. w.do = "cursor" /\ w.to = run.target
      BY <1>1, WriteTypes
    <2>5. todo' = s
      BY <1>4
    <2> HIDE DEF s, w
    <2>6. QED
      BY <1>2, <2>1, <2>2, <2>3, <2>4, <2>5, Blocking
  <1>5. CASE ~run.active /\ todo' = <<>> \o <<w>>
    <2>1. <<>> \o <<w>> = <<w>>
      OBVIOUS
    <2>2. QED
      BY <2>1, <1>3, <1>5
  <1>6. QED
    BY <1>3, <1>4, <1>5 DEF Stopped, Then

LEMMA EndKept ==
  ASSUME IInv, End  PROVE IInv'
  <1> DEFINE w == MoveCursor(run.orig)
  <1>1. run.orig \in Cursors
    BY DEF IInv, TypeOK, RunType
  <1>2. Free /\ run' = run /\ pc = "ending" /\ pc' = "idle"
        /\ UNCHANGED <<arrived, storeVars, ghostVars>>
    BY DEF End, Then
  <1>3. CASE run.active /\ record.st = "running"
    <2> DEFINE s == Block \o <<w>>
    <2>1. w \in WriteType /\ w.do = "cursor" /\ w.to = run.orig
      BY <1>1, WriteTypes
    <2>2. todo' = s
      BY <1>3 DEF End, Then
    <2> HIDE DEF w
    <2>3. /\ s \in Seq(WriteType) /\ OrderedBy(s, Wrong)
          /\ Dos(s) = {"blocked", "block", "cursor"} /\ w \in Writes(s)
      BY <2>1, BlockAnd
    <2>4. ~Answering /\ record.batch \subseteq Upto(run.orig)
      BY <1>2, <1>3 DEF IInv, RecordSound, BatchFresh, AtWork
    <2> HIDE DEF s
    <2>5. QED
      BY <1>2, <1>3, <2>1, <2>2, <2>3, <2>4, Blocking
  <1>4. CASE ~(run.active /\ record.st = "running")
    <2>1. todo' = <<w>> \/ todo' = <<>>
      BY <1>4 DEF End, Then
    <2>2. todo' \in Seq(WriteType) /\ Dos(todo') \subseteq {"cursor"}
      BY <2>1, <1>1, CursorWrite, NoWrites
    <2>3. QED
      BY <1>2, <2>2, QuietRun DEF AtWork
  <1>5. QED
    BY <1>3, <1>4

LEMMA ApologyKept ==
  ASSUME IInv, NEW ok \in BOOLEAN, Apology(ok)  PROVE IInv'
  <1> DEFINE a == IF ok /\ run.active THEN <<Set("noticed")>> ELSE <<>>
             b == IF ok /\ ~(run.recovered /\ Inputs # {}) THEN <<MoveCursor(run.target)>>
                  ELSE <<>>
  <1>1. run.target \in Cursors /\ "noticed" \in Ops
    BY DEF IInv, TypeOK, RunType, Ops
  <1>2. a \in Seq(WriteType) /\ Dos(a) \subseteq {"noticed"}
        /\ ("noticed" \in Dos(a) => run.active)
    BY <1>1, NoteWrite, NoWrites
  <1>3. b \in Seq(WriteType) /\ Dos(b) \subseteq {"cursor"}
    BY <1>1, CursorWrite, NoWrites
  <1>4. todo' = a \o b /\ pc = "apology" /\ pc' = "ending" /\ Free /\ run' = run
        /\ UNCHANGED <<arrived, storeVars, ghostVars>>
    BY DEF Apology, Then
  <1> HIDE DEF a, b
  <1>5. a \o b \in Seq(WriteType) /\ Dos(a \o b) = Dos(a) \cup Dos(b)
    BY <1>2, <1>3, Joined
  <1>6. run.active => record.st # "none"
    BY DEF IInv, RunSound
  <1>7. QED
    BY <1>2, <1>3, <1>4, <1>5, <1>6, QuietRun DEF AtWork

LEMMA SettleWrites ==
  ASSUME NEW to \in Cursors, NEW S \in SUBSET Names
  PROVE  LET s == <<MoveCursor(to), Files("settle", S), Files("remove", S)>> IN
         /\ s \in Seq(WriteType) /\ OrderedBy(s, Wrong)
         /\ Writes(s) = {MoveCursor(to), Files("settle", S), Files("remove", S)}
         /\ Dos(s) = {"cursor", "settle", "remove"}
  <1> DEFINE a == MoveCursor(to)
             b == Files("settle", S)
             c == Files("remove", S)
             s == <<a, b, c>>
  <1>1. /\ a \in WriteType /\ b \in WriteType /\ c \in WriteType
        /\ a.do = "cursor" /\ b.do = "settle" /\ c.do = "remove"
    <2>1. {"cursor", "settle", "remove"} \subseteq Ops
      BY DEF Ops
    <2> HIDE DEF Cursors, Names
    <2>2. QED
      BY <2>1, WriteTypes
  <1>2. <<a.do, b.do>> \notin Wrong /\ <<a.do, c.do>> \notin Wrong /\ <<b.do, c.do>> \notin Wrong
    BY <1>1 DEF Wrong, Booking
  <1> HIDE DEF a, b, c
  <1>3. s \in Seq(WriteType) /\ OrderedBy(s, Wrong)
    BY <1>1, <1>2, Triple
  <1>4. /\ DOMAIN s = 1..3 /\ s[1] = a /\ s[2] = b /\ s[3] = c
        /\ \A i \in 1..3 : i = 1 \/ i = 2 \/ i = 3
    OBVIOUS
  <1>5. \A w : w \in Writes(s) <=> w = a \/ w = b \/ w = c
    BY <1>4 DEF Writes
  <1>6. \A d : d \in Dos(s) <=> d = "cursor" \/ d = "settle" \/ d = "remove"
    BY <1>1, <1>5 DEF Dos
  <1>7. Writes(s) = {a, b, c} /\ Dos(s) = {"cursor", "settle", "remove"}
    BY <1>5, <1>6
  <1>8. QED
    BY <1>3, <1>7 DEF a, b, c

LEMMA BatchLast ==
  ASSUME IInv, record.st # "none"
  PROVE  /\ record.batch \subseteq Upto(Last(record.batch))
         /\ Last(record.batch) \in Cursors
  <1>1. record.batch \subseteq Messages /\ record.batch # {}
    BY DEF IInv, TypeOK, RecordType, RecordSound
  <1>2. /\ record.batch \subseteq Upto(Last(record.batch))
        /\ Last(record.batch) \in Messages
    BY <1>1, LastIn
  <1>3. QED
    BY <1>2

\* The start of a run finds a claim that was not finished.
LEMMA BeginBlocks ==
  ASSUME IInv, Begin, Exposed({"running", "blocked"})
  PROVE  IInv'
  <1> DEFINE w == MoveCursor(Last(record.batch))
             s == Block \o <<w>>
  <1>1. record.st \in {"running", "blocked"}
    BY DEF Exposed
  <1>2. todo' = s /\ pc' = "notices" /\ run' = NoRun /\ Free
        /\ UNCHANGED <<arrived, storeVars, ghostVars>>
    BY <1>1 DEF Begin, TakeUp, Then, Exposed
  <1>3. /\ record.batch \subseteq Upto(Last(record.batch))
        /\ Last(record.batch) \in Cursors
    BY <1>1, BatchLast
  <1>4. w \in WriteType /\ w.do = "cursor" /\ w.to = Last(record.batch)
    BY <1>3, WriteTypes
  <1> HIDE DEF w
  <1>5. /\ s \in Seq(WriteType) /\ OrderedBy(s, Wrong)
        /\ Dos(s) = {"blocked", "block", "cursor"} /\ w \in Writes(s)
        /\ Files("block", {Timeout}) \in Writes(s)
    BY <1>4, BlockAnd
  <1>6. Files("block", {Timeout}).do = "block" /\ Timeout \in Files("block", {Timeout}).set
    BY DEF Files, Write
  <1>7. Answering => record.st = "blocked"
    BY <1>1 DEF IInv, RecordSound
  <1> HIDE DEF s
  <1>8. QED
    BY <1>1, <1>2, <1>3, <1>4, <1>5, <1>6, <1>7, Blocking

\* It finds an answer that was delivered but whose inputs are still there.
LEMMA BeginSettles ==
  ASSUME IInv, Begin, Exposed({"completed"})
  PROVE  IInv'
  <1> DEFINE c == MoveCursor(record.through)
             f == Files("settle", record.kept)
             g == Files("remove", record.kept)
             s == <<c, f, g>>
  <1>1. record.st = "completed" /\ Timeout \in Inputs
    BY DEF Exposed, Inputs
  <1>2. todo' = s /\ pc' = "notices" /\ run' = NoRun /\ Free
        /\ UNCHANGED <<arrived, storeVars, ghostVars>>
    BY <1>1 DEF Begin, TakeUp, Then, Exposed
  <1>3. record.through \in Cursors /\ record.kept \in SUBSET Names
    BY DEF IInv, TypeOK, RecordType
  <1>4. /\ s \in Seq(WriteType) /\ OrderedBy(s, Wrong) /\ Writes(s) = {c, f, g}
        /\ Dos(s) = {"cursor", "settle", "remove"}
    BY <1>3, SettleWrites
  <1>5. /\ c.do = "cursor" /\ c.to = record.through
        /\ f.do = "settle" /\ f.set = record.kept
        /\ g.do = "remove" /\ g.set = record.kept
    BY DEF MoveCursor, Files, Write
  <1>6. /\ Answering /\ Timeout \in record.kept
        /\ record.batch \subseteq Upto(record.through)
    BY <1>1 DEF IInv, RecordSound
  <1> HIDE DEF c, f, g, s
  <1>s. /\ Inputs' = Inputs /\ Excluded' = Excluded /\ Answering' = Answering
        /\ InMode("confirmed")' = InMode("confirmed")
        /\ Sources(record.kept)' = Sources(record.kept)
    BY <1>2, SameStore
  <1>7. TypeOK'
    BY <1>2, <1>4, NoRunTyped DEF IInv, TypeOK, Points
  <1>8. RecordSound'
    BY <1>2, <1>s DEF IInv, RecordSound
  <1>9. WritesSound'
    BY <1>2, <1>4, <1>5, <1>6, <1>s DEF WritesSound, Special, Booking
  <1>10. RunSound'
    BY <1>2, <1>4, NoRunTyped DEF RunSound, AtWork
  <1>11. TakenUp'
    BY <1>2, <1>4, <1>5, <1>6 DEF TakenUp
  <1>12. BatchFresh'
    BY <1>1, <1>2, <1>4, NoRunTyped DEF BatchFresh, AtWork
  <1>13. BatchPassed'
    BY <1>2, <1>4, <1>5, <1>6 DEF BatchPassed, Passing
  <1>14. NoThrow'
    <2>1. ASSUME throws = 0 PROVE AnsweredSound'
      <3>1. AnsweredSound
        BY <2>1 DEF IInv, NoThrow
      <3>2. Moves("cursor")'
        BY <1>2, <1>4, <1>5, <1>3 DEF Moves
      <3>3. Past' = Past /\ Closed' = Closed
        BY <1>2, <1>s DEF Past, Closed
      <3>4. QED
        BY <3>1, <3>2, <3>3, <1>1, <1>2, <1>4, <1>s DEF AnsweredSound
    <2>2. WindowSound'
      BY <1>2 DEF WindowSound
    <2>3. QED
      BY <2>1, <2>2, <1>2 DEF NoThrow
  <1>15. QED
    BY <1>7, <1>8, <1>9, <1>10, <1>11, <1>12, <1>13, <1>14 DEF IInv

\* It finds an answer that was not delivered and that newer messages overtook.
LEMMA BeginRetires ==
  ASSUME IInv, Begin, Exposed({"delivery"}), arrived > record.through
  PROVE  IInv'
  <1> DEFINE c == MoveCursor(record.through)
             b == Files("block", {Timeout})
             k == Files("supersede", record.kept \ {Timeout})
             s == Retire
  <1>1. record.st = "delivery" /\ Timeout \in Inputs
    BY DEF Exposed, Inputs
  <1>2. todo' = s /\ pc' = "notices" /\ run' = NoRun /\ Free
        /\ UNCHANGED <<arrived, storeVars, ghostVars>>
    BY <1>1 DEF Begin, TakeUp, Then, Exposed
  <1>3. record.through \in Cursors
    BY DEF IInv, TypeOK, RecordType
  <1>4. /\ s \in Seq(WriteType) /\ OrderedBy(s, Wrong) /\ OrderedBy(s, Late)
        /\ Writes(s) = {Set("retired"), c, Set("blocked"), b, Set("noticed"), k}
        /\ Dos(s) = {"retired", "cursor", "blocked", "block", "noticed", "supersede"}
    BY RetireWrites DEF IInv
  <1>5. /\ c.do = "cursor" /\ c.to = record.through
        /\ b.do = "block" /\ Timeout \in b.set
        /\ k.do = "supersede" /\ Timeout \notin k.set
        /\ Set("retired").do = "retired" /\ Set("blocked").do = "blocked"
        /\ Set("noticed").do = "noticed"
    BY DEF MoveCursor, Files, Write, Set
  <1>6. Answering /\ record.batch \subseteq Upto(record.through)
    BY <1>1 DEF IInv, RecordSound
  <1> HIDE DEF c, b, k, s
  <1>s. /\ Inputs' = Inputs /\ Excluded' = Excluded /\ Answering' = Answering
        /\ InMode("confirmed")' = InMode("confirmed")
        /\ Sources(record.kept)' = Sources(record.kept)
    BY <1>2, SameStore
  <1>7. TypeOK'
    BY <1>2, <1>4, NoRunTyped DEF IInv, TypeOK, Points
  <1>8. RecordSound'
    BY <1>2, <1>s DEF IInv, RecordSound
  <1>9. WritesSound'
    BY <1>1, <1>2, <1>4, <1>5, <1>6, <1>s DEF WritesSound, Special, Booking
  <1>10. RunSound'
    BY <1>1, <1>2, NoRunTyped DEF RunSound, AtWork
  <1>11. TakenUp'
    BY <1>2, <1>4, <1>5, <1>6 DEF TakenUp
  <1>12. BatchFresh'
    BY <1>1, <1>2, <1>4, NoRunTyped DEF BatchFresh, AtWork
  <1>13. BatchPassed'
    BY <1>2, <1>4, <1>5, <1>6 DEF BatchPassed, Passing
  <1>14. NoThrow'
    <2>1. ASSUME throws = 0 PROVE AnsweredSound'
      <3>1. AnsweredSound
        BY <2>1 DEF IInv, NoThrow
      <3>2. Moves("cursor")'
        BY <1>2, <1>4, <1>5, <1>3 DEF Moves
      <3>3. Past' = Past /\ Closed' = Closed
        BY <1>2, <1>s DEF Past, Closed
      <3>4. ~Removing'
        BY <1>2, <1>4, <1>5 DEF Removing
      <3>5. QED
        BY <3>1, <3>2, <3>3, <3>4, <1>1, <1>2, <1>4, <1>s DEF AnsweredSound
    <2>2. WindowSound'
      BY <1>2 DEF WindowSound
    <2>3. QED
      BY <2>1, <2>2, <1>2 DEF NoThrow
  <1>15. QED
    BY <1>7, <1>8, <1>9, <1>10, <1>11, <1>12, <1>13, <1>14 DEF IInv

LEMMA BeginKept ==
  ASSUME IInv, Begin  PROVE IInv'
  <1>1. CASE Exposed({"delivery"}) /\ ~(arrived > record.through)
    <2>1. /\ record.st = "delivery" /\ todo' = <<>> /\ pc' = "resend" /\ run' = NoRun /\ Free
          /\ UNCHANGED <<arrived, storeVars, ghostVars>>
      BY <1>1 DEF Begin, TakeUp, Then, Exposed
    <2>2. Answering' /\ Timeout \in Inputs'
      BY <1>1, <2>1, SameStore DEF IInv, RecordSound, Exposed, Inputs
    <2>3. RunSound'
      BY <2>1, <2>2, NoRunTyped DEF RunSound, AtWork, Free
    <2>4. pc' \in Points \ {"claim", "launch", "model"}
      BY <2>1 DEF Points
    <2>5. QED
      BY <2>1, <2>3, <2>4, NoRunTyped, NoWrites, Quiet DEF AtWork
  <1>2. CASE ~Exposed({"running", "blocked"}) /\ ~Exposed({"completed"}) /\ ~Exposed({"delivery"})
    <2>1. /\ todo' = <<>> /\ pc' = "notices" /\ run' = NoRun /\ Free
          /\ UNCHANGED <<arrived, storeVars, ghostVars>>
      BY <1>2 DEF Begin, TakeUp, Then
    <2>2. Timeout \in Inputs => record.st = "pending"
      <3>1. record.st \in States /\ (file[Timeout] # "none" => record.st # "none")
        BY DEF IInv, TypeOK, RecordType
      <3>2. QED
        BY <3>1, <1>2 DEF Exposed, Inputs, States
    <2>3. QED
      BY <2>1, <2>2, NoWrites, QuietRun DEF AtWork
  <1>3. QED
    BY <1>1, <1>2, BeginBlocks, BeginSettles, BeginRetires

\* Where nothing is to be written, a file that is still there at the start of a run
\* is to be claimed or was answered.
LEMMA AtStart ==
  ASSUME IInv, Free, pc \in {"notices", "clean", "collect"}, Timeout \in Inputs
  PROVE  \/ record.st = "pending" /\ starts = 0 /\ ~Answering
         \/ Timeout \in receipts.names
  BY WhenFree DEF IInv, TakenUp, RecordSound

LEMMA CleanKept ==
  ASSUME IInv, Clean  PROVE IInv'
  <1> DEFINE X == {n \in Inputs : Source(n) \subseteq retired}
             f == Files("supersede", X)
             g == Files("remove", receipts.names)
             s == <<f, g>>
  <1>1. /\ todo' = s /\ pc' = "collect" /\ Free /\ pc \in {"clean", "notices"}
        /\ UNCHANGED <<arrived, storeVars, run, ghostVars>>
    BY DEF Clean, Then
  <1>2. X \in SUBSET Names /\ receipts.names \in SUBSET Names
    BY StoreTyped DEF IInv, TypeOK
  <1>3. /\ f \in WriteType /\ f.do = "supersede" /\ f.set = X
        /\ g \in WriteType /\ g.do = "remove" /\ g.set = receipts.names
    <2>1. {"supersede", "remove"} \subseteq Ops
      BY DEF Ops
    <2> HIDE DEF Names, X
    <2>2. QED
      BY <1>2, <2>1, WriteTypes
  <1>4. Timeout \in X => Answering /\ Timeout \in Inputs
    <2>1. Timeout \in X => record.batch \subseteq retired /\ Timeout \in Inputs
      BY DEF Source
    <2>2. Timeout \in Inputs => record.batch # {}
      BY DEF IInv, TypeOK, RecordSound, Inputs
    <2>3. QED
      BY <2>1, <2>2 DEF IInv, RecordSound
  <1> HIDE DEF f, g, X
  <1>5. <<f.do, g.do>> \notin Wrong
    BY <1>3 DEF Wrong, Booking
  <1>6. /\ s \in Seq(WriteType) /\ OrderedBy(s, Wrong)
        /\ \A w : w \in Writes(s) <=> w = f \/ w = g
        /\ \A d : d \in Dos(s) <=> d = f.do \/ d = g.do
    BY <1>3, <1>5, Double
  <1> HIDE DEF s
  <1>7. Writes(s) = {f, g} /\ Dos(s) = {"supersede", "remove"}
    BY <1>3, <1>6
  <1>s. /\ Inputs' = Inputs /\ Excluded' = Excluded /\ Answering' = Answering
        /\ InMode("confirmed")' = InMode("confirmed")
        /\ Sources(record.kept)' = Sources(record.kept)
    BY <1>1, SameStore
  <1>f. Writes(todo) = {} /\ Dos(todo) = {}
    BY <1>1, WhenFree
  <1>a. Timeout \in Inputs => \/ record.st = "pending" /\ starts = 0 /\ ~Answering
                              \/ Timeout \in receipts.names
    BY <1>1, AtStart
  <1>n. Timeout \in receipts.names => Answering
    BY DEF IInv, RecordSound
  <1>8. TypeOK'
    BY <1>1, <1>6 DEF IInv, TypeOK, Points
  <1>9. RecordSound'
    BY <1>1, <1>s DEF IInv, RecordSound
  <1>10. WritesSound'
    BY <1>1, <1>3, <1>4, <1>6, <1>7, <1>n, <1>s DEF WritesSound, Special, Booking
  <1>11. RunSound'
    BY <1>1, <1>7 DEF IInv, RunSound, AtWork
  <1>12. TakenUp'
    BY <1>1, <1>a, <1>s DEF TakenUp
  <1>13. BatchFresh'
    BY <1>1, <1>7, <1>f, <1>s DEF IInv, BatchFresh, Excluding, AtWork
  <1>14. BatchPassed'
    <2>1. Untouched => starts # 1
      BY <1>a DEF Untouched
    <2>2. SetAside => file[Timeout] = "confirmed"
      BY <1>f DEF SetAside
    <2>3. Passing(record.batch) => record.batch \subseteq Upto(cursor)
      BY <1>f DEF Passing
    <2>4. starts = 1 /\ crashes = 0 => \/ file[Timeout] = "confirmed"
                                       \/ record.batch \subseteq Upto(cursor)
      BY <2>1, <2>2, <2>3 DEF IInv, BatchPassed
    <2>5. QED
      BY <2>4, <1>1 DEF BatchPassed, SetAside, Passing
  <1>15. NoThrow'
    <2>1. ASSUME throws = 0 PROVE AnsweredSound'
      <3>1. AnsweredSound
        BY <2>1 DEF IInv, NoThrow
      <3>2. Past' = Past /\ Closed' = Closed
        BY <1>1, <1>s DEF Past, Closed
      <3>3. Removing' => Timeout \in receipts.names
        BY <1>1, <1>3, <1>4, <1>7, <1>a DEF Removing
      <3>4. Answering /\ Timeout \in Inputs => Past
        <4>1. ~Moves("confirm") /\ ~Moves("cursor")
          BY <1>f DEF Moves
        <4>2. QED
          BY <3>1, <4>1, <1>1 DEF AnsweredSound
      <3>5. QED
        BY <3>1, <3>2, <3>3, <3>4, <1>1, <1>7, <1>s DEF AnsweredSound
    <2>2. WindowSound'
      BY <1>1 DEF WindowSound
    <2>3. QED
      BY <2>1, <2>2, <1>1 DEF NoThrow
  <1>16. QED
    BY <1>8, <1>9, <1>10, <1>11, <1>12, <1>13, <1>14, <1>15 DEF IInv

\* What a run is asked has nothing of a delivered or cached answer in it.
LEMMA PromptFresh ==
  ASSUME IInv, Free, pc = "collect", Inputs \cap receipts.names = {}, throws = 0
  PROVE  Prompt \cap answered = {}
  <1>1. CASE ~Answering
    BY <1>1 DEF IInv, RecordSound
  <1>2. CASE Answering
    <2>1. Timeout \notin Inputs
      BY <1>2, AtStart
    <2>2. /\ answered \subseteq Upto(record.through) /\ cursor >= record.through
          /\ answered \cap Inputs \subseteq receipts.ids \cup retired
      BY <1>2, <2>1 DEF IInv, NoThrow, AnsweredSound, Past, Closed
    <2>3. Sources(Inputs) = Inputs
      <3>1. \A n \in Inputs : Source(n) = {n}
        BY <2>1 DEF Source
      <3>2. QED
        BY <3>1 DEF Sources
    <2>4. ASSUME NEW m \in Prompt, m \in answered PROVE FALSE
      <3>1. m \in Inputs \/ m \in (cursor + 1)..arrived
        BY <2>3, <2>4 DEF Prompt
      <3>2. m \notin receipts.ids \cup retired
        BY <2>4 DEF Prompt
      <3>3. m \in 1..record.through /\ cursor \in Int /\ record.through \in Int
        BY <2>2, <2>4 DEF IInv, TypeOK, RecordType
      <3>4. m \notin (cursor + 1)..arrived
        BY <3>3, <2>2
      <3>5. QED
        BY <3>1, <3>2, <3>4, <2>2, <2>4
    <2>5. QED
      BY <2>4
  <1>3. QED
    BY <1>1, <1>2

\* A run that continues is asked for the whole batch and every input.
LEMMA PromptWhole ==
  ASSUME IInv, Free, pc = "collect", Inputs \cap receipts.names = {}, Timeout \in Inputs
  PROVE  /\ record.st = "pending" /\ starts = 0
         /\ record.batch \subseteq Prompt
         /\ throws = 0 => Inputs \ {Timeout} \subseteq Prompt
  <1>1. record.st = "pending" /\ starts = 0 /\ ~Answering
    BY AtStart
  <1>2. record.batch \cap Excluded = {}
    BY <1>1 DEF IInv, BatchFresh
  <1>3. \A n \in Inputs : Source(n) \subseteq Sources(Inputs)
    BY DEF Sources
  <1>4. record.batch \subseteq Prompt
    <2>1. record.batch \subseteq Sources(Inputs)
      BY <1>3 DEF Source
    <2>2. QED
      BY <2>1, <1>2 DEF Prompt, Excluded
  <1>5. ASSUME throws = 0, NEW m \in Inputs, m # Timeout PROVE m \in Prompt
    <2>1. m \in Sources(Inputs)
      BY <1>3, <1>5 DEF Source
    <2>2. InMode("confirmed") = {}
      BY <1>5 DEF IInv, NoThrow, AnsweredSound
    <2>3. Sources(InMode("confirmed")) = {}
      BY <2>2 DEF Sources
    <2>4. retired = {} /\ receipts.ids \subseteq receipts.names
      BY <1>1 DEF IInv, RecordSound
    <2>5. QED
      BY <2>1, <2>3, <2>4 DEF Prompt
  <1>6. QED
    BY <1>1, <1>4, <1>5

\* A run that does not continue is asked below the cursor only for its inputs.
LEMMA PromptBelow ==
  ASSUME IInv, Timeout \notin Inputs
  PROVE  Prompt \cap Upto(cursor) \subseteq Inputs
  <1>1. \A n \in Inputs : Source(n) = {n}
    BY DEF Source
  <1>2. Sources(Inputs) = Inputs
    BY <1>1 DEF Sources
  <1>3. cursor \in Int /\ arrived \in Int
    BY DEF IInv, TypeOK
  <1>4. QED
    BY <1>2, <1>3 DEF Prompt

LEMMA CollectEnds ==
  ASSUME IInv, Collect, pc' = "idle"  PROVE IInv'
  <1>1. Free /\ pc = "collect" /\ UNCHANGED <<arrived, storeVars, ghostVars>>
    BY DEF Collect
  <1>2. arrived \in Cursors
    BY DEF IInv, TypeOK
  <1>3. run' = run /\ (todo' = <<>> \/ todo' = <<MoveCursor(arrived)>>)
    BY DEF Collect, Then
  <1>4. todo' \in Seq(WriteType) /\ Dos(todo') \subseteq {"cursor"}
    BY <1>2, <1>3, CursorWrite, NoWrites
  <1>5. QED
    BY <1>1, <1>3, <1>4, QuietRun DEF AtWork

LEMMA CollectAsks ==
  ASSUME IInv, Collect, pc' # "idle"  PROVE IInv'
  <1>1. /\ Free /\ pc = "collect" /\ UNCHANGED <<arrived, storeVars, ghostVars>>
        /\ Inputs \cap receipts.names = {} /\ Prompt # {}
        /\ todo' = <<>> /\ pc' = "claim"
        /\ run' = [NoRun EXCEPT !.prompt = Prompt, !.target = Last(Prompt),
                     !.orig = Last(Prompt), !.kept = Inputs,
                     !.active = Timeout \in Inputs, !.recovered = Inputs # {}]
    BY DEF Collect, Then
  <1>2. Prompt \subseteq Messages /\ Inputs \subseteq Names
    BY StoreTyped DEF IInv
  <1>3. Prompt \subseteq Upto(Last(Prompt)) /\ Last(Prompt) \in Messages
    BY <1>1, <1>2, LastIn
  <1>4. /\ run' \in RunType /\ run'.prompt = Prompt /\ run'.target = Last(Prompt)
        /\ run'.orig = Last(Prompt) /\ run'.kept = Inputs /\ run'.window = <<>>
        /\ run'.folded = {} /\ (run'.active <=> Timeout \in Inputs)
    <2> DEFINE l == Last(Prompt)
               a == (Timeout \in Inputs)
               r == (Inputs # {})
               n == [prompt |-> Prompt, target |-> l, orig |-> l, window |-> <<>>,
                     kept |-> Inputs, folded |-> {}, active |-> a, recovered |-> r]
    <2>1. l \in Cursors /\ a \in BOOLEAN /\ r \in BOOLEAN
      BY <1>3
    <2>2. run' = [NoRun EXCEPT !.prompt = Prompt, !.target = l, !.orig = l,
                    !.kept = Inputs, !.active = a, !.recovered = r]
      BY <1>1
    <2> HIDE DEF l, a, r
    <2>3. run' = n
      BY <2>2 DEF NoRun
    <2>4. <<>> \in Seq(Messages) /\ {} \in SUBSET Messages
      OBVIOUS
    <2>5. n \in RunType
      BY <1>2, <2>1, <2>4 DEF RunType
    <2>6. QED
      BY <2>3, <2>5 DEF l, a
  <1>s. /\ Inputs' = Inputs /\ Excluded' = Excluded /\ Answering' = Answering
        /\ InMode("confirmed")' = InMode("confirmed")
        /\ Sources(record.kept)' = Sources(record.kept)
    BY <1>1, SameStore
  <1>f. Writes(todo) = {} /\ Dos(todo) = {} /\ Writes(todo') = {} /\ Dos(todo') = {}
    BY <1>1, WhenFree, NoWrites
  <1>t. todo' = todo /\ todo' \in Seq(WriteType)
    BY <1>1, NoWrites DEF Free
  <1>w. Timeout \in Inputs => /\ record.st = "pending" /\ starts = 0
                              /\ record.batch \subseteq Prompt
                              /\ throws = 0 => Inputs \ {Timeout} \subseteq Prompt
    BY <1>1, PromptWhole
  <1>8. TypeOK'
    BY <1>1, <1>4, <1>t DEF IInv, TypeOK, Points
  <1>9. RecordSound'
    BY <1>1, <1>s DEF IInv, RecordSound
  <1>10. WritesSound'
    BY <1>1, <1>t, <1>f, <1>s DEF IInv, WritesSound
  <1>11. RunSound'
    <2>1. Timeout \notin Inputs => Prompt \cap Upto(cursor) \subseteq Inputs
      BY PromptBelow
    <2>2. QED
      BY <2>1, <1>1, <1>3, <1>4, <1>s, <1>w DEF RunSound, AtWork, Free
  <1>12. TakenUp'
    BY <1>1 DEF TakenUp
  <1>13. BatchFresh'
    <2>1. Prompt \cap Excluded = {}
      BY DEF Prompt, Excluded
    <2>2. QED
      BY <2>1, <1>1, <1>3, <1>4, <1>f, <1>s, <1>w DEF IInv, BatchFresh, AtWork
  <1>14. BatchPassed'
    <2>1. Untouched' = Untouched /\ SetAside' = SetAside /\ Passing(record.batch)' = Passing(record.batch)
      BY <1>1, <1>f, <1>s DEF Untouched, SetAside, Passing
    <2>2. QED
      BY <2>1, <1>1 DEF IInv, BatchPassed
  <1>15. NoThrow'
    <2>1. ASSUME throws = 0 PROVE AnsweredSound'
      <3>1. AnsweredSound
        BY <2>1 DEF IInv, NoThrow
      <3>2. Past' = Past /\ Closed' = Closed /\ ~Removing'
        BY <1>1, <1>s, <1>f DEF Past, Closed, Removing
      <3>3. Prompt \cap answered = {}
        BY <1>1, <2>1, PromptFresh
      <3>4. Timeout \in Inputs => Inputs \ {Timeout} \subseteq Upto(Last(Prompt))
        BY <1>w, <1>3, <2>1
      <3>5. QED
        BY <3>1, <3>2, <3>3, <3>4, <1>1, <1>4, <1>f, <1>s DEF AnsweredSound
    <2>2. WindowSound'
      BY <1>1 DEF WindowSound
    <2>3. QED
      BY <2>1, <2>2, <1>1 DEF NoThrow
  <1>16. QED
    BY <1>8, <1>9, <1>10, <1>11, <1>12, <1>13, <1>14, <1>15 DEF IInv

LEMMA ClaimKept ==
  ASSUME IInv, Claim  PROVE IInv'
  <1>1. /\ Free /\ pc = "claim" /\ UNCHANGED <<arrived, storeVars, run, ghostVars>>
        /\ pc' = "launch" /\ todo' = (IF run.active THEN <<Set("running")>> ELSE <<>>)
        /\ run.active => record.st = "pending"
    BY DEF Claim, Then
  <1>2. "running" \in Ops
    BY DEF Ops
  <1>3. /\ todo' \in Seq(WriteType) /\ Dos(todo') = (IF run.active THEN {"running"} ELSE {})
        /\ (todo' # <<>> <=> run.active)
    BY <1>1, <1>2, NoteWrite, NoWrites
  <1>d. \A w \in Writes(todo') : w.do = "running"
    BY <1>3 DEF Dos
  <1>s. /\ Inputs' = Inputs /\ Excluded' = Excluded /\ Answering' = Answering
        /\ InMode("confirmed")' = InMode("confirmed")
        /\ Sources(record.kept)' = Sources(record.kept)
    BY <1>1, SameStore
  <1>f. Writes(todo) = {} /\ Dos(todo) = {}
    BY <1>1, WhenFree
  <1>8. TypeOK'
    BY <1>1, <1>3 DEF IInv, TypeOK, Points
  <1>9. RecordSound'
    BY <1>1, <1>s DEF IInv, RecordSound
  <1>10. WritesSound'
    <2>1. OrderedBy(todo', Wrong)
      <3>1. \A a, b \in Dos(todo') : <<a, b>> \notin Wrong
        BY <1>3 DEF Wrong, Booking
      <3>2. QED
        BY <3>1, <1>3, Mild
    <2>2. run.active => Claiming'
      BY <1>1 DEF Claiming
    <2>3. QED
      BY <2>1, <2>2, <1>3, <1>d DEF WritesSound, Special, Booking
  <1>11. RunSound'
    <2>1. run.active => Claiming'
      BY <1>1 DEF Claiming
    <2>2. QED
      BY <1>1, <1>3, <1>s, <2>1 DEF IInv, RunSound, AtWork, Free
  <1>12. TakenUp'
    BY <1>1 DEF TakenUp
  <1>13. BatchFresh'
    BY <1>1, <1>3, <1>f, <1>s DEF IInv, BatchFresh, AtWork, Excluding
  <1>14. BatchPassed'
    <2>1. Untouched => Untouched'
      BY <1>1, <1>d, <1>s DEF Untouched
    <2>2. SetAside => SetAside'
      BY <1>1, <1>s, <1>f DEF SetAside
    <2>3. Passing(record.batch) => Passing(record.batch)'
      BY <1>1, <1>f DEF Passing
    <2>4. QED
      BY <2>1, <2>2, <2>3, <1>1 DEF IInv, BatchPassed
  <1>15. NoThrow'
    <2>1. ASSUME throws = 0 PROVE AnsweredSound'
      <3>1. AnsweredSound
        BY <2>1 DEF IInv, NoThrow
      <3>2. Past' = Past /\ Closed' = Closed /\ ~Removing'
        BY <1>1, <1>s, <1>d DEF Past, Closed, Removing
      <3>3. QED
        BY <3>1, <3>2, <1>1, <1>3, <1>s DEF AnsweredSound
    <2>2. WindowSound'
      BY <1>1 DEF WindowSound
    <2>3. QED
      BY <2>1, <2>2, <1>1 DEF NoThrow
  <1>16. QED
    BY <1>8, <1>9, <1>10, <1>11, <1>12, <1>13, <1>14, <1>15 DEF IInv

LEMMA LaunchKept ==
  ASSUME IInv, Launch  PROVE IInv'
  <1>1. /\ Free /\ pc = "launch" /\ UNCHANGED <<arrived, storeVars, run, answered, crashes, throws>>
        /\ pc' = "model" /\ todo' = <<>>
        /\ starts' = starts + (IF run.active THEN 1 ELSE 0)
    BY DEF Launch, Then
  <1>2. run.active => record.st = "running" /\ starts = 0 /\ starts' = 1
    BY <1>1 DEF IInv, RunSound
  <1>3. ~run.active => starts' = starts
    BY <1>1 DEF IInv, TypeOK
  <1>s. /\ Inputs' = Inputs /\ Excluded' = Excluded /\ Answering' = Answering
        /\ InMode("confirmed")' = InMode("confirmed")
        /\ Sources(record.kept)' = Sources(record.kept)
    BY <1>1, SameStore
  <1>f. Writes(todo) = {} /\ Dos(todo) = {} /\ Writes(todo') = {} /\ Dos(todo') = {}
    BY <1>1, WhenFree, NoWrites
  <1>t. todo' = todo /\ todo' \in Seq(WriteType)
    BY <1>1, NoWrites DEF Free
  <1>8. TypeOK'
    BY <1>1, <1>2, <1>3, <1>t DEF IInv, TypeOK, Points
  <1>9. RecordSound'
    BY <1>1, <1>2, <1>3, <1>s DEF IInv, RecordSound
  <1>10. WritesSound'
    BY <1>1, <1>t, <1>f, <1>s DEF IInv, WritesSound
  <1>11. RunSound'
    BY <1>1, <1>2, <1>s DEF IInv, RunSound, AtWork, Free
  <1>12. TakenUp'
    BY <1>1 DEF TakenUp
  <1>13. BatchFresh'
    BY <1>1, <1>f, <1>s DEF IInv, BatchFresh, AtWork
  <1>14. BatchPassed'
    <2>1. run.active => Untouched'
      <3>1. run.active => Timeout \in Inputs /\ ~Answering
        BY <1>1, <1>2 DEF IInv, RunSound, RecordSound
      <3>2. QED
        BY <3>1, <1>1, <1>f, <1>s DEF IInv, RecordSound, Untouched
    <2>2. Untouched' = Untouched /\ SetAside' = SetAside /\ Passing(record.batch)' = Passing(record.batch)
      BY <1>1, <1>f, <1>s DEF Untouched, SetAside, Passing
    <2>3. QED
      BY <2>1, <2>2, <1>1, <1>3 DEF IInv, BatchPassed
  <1>15. NoThrow'
    <2>1. ASSUME throws = 0 PROVE AnsweredSound'
      <3>1. AnsweredSound
        BY <2>1 DEF IInv, NoThrow
      <3>2. Past' = Past /\ Closed' = Closed /\ ~Removing'
        BY <1>1, <1>s, <1>f DEF Past, Closed, Removing
      <3>3. QED
        BY <3>1, <3>2, <1>1, <1>f, <1>s DEF AnsweredSound
    <2>2. ASSUME throws = 0, run.active PROVE WindowSound'
      <3> DEFINE b == Larger(cursor, run.orig)
      <3>1. /\ run.kept = Inputs /\ run.window = <<>> /\ run.folded = {}
            /\ run.target = run.orig
        BY <1>1 DEF IInv, RunSound
      <3>2. run.kept \ {Timeout} \subseteq Upto(run.orig)
        BY <1>1, <2>2 DEF IInv, NoThrow, AnsweredSound
      <3>3. cursor \in Cursors /\ run.orig \in Cursors
        BY DEF IInv, TypeOK, RunType
      <3>4. Piped' = b /\ b \in Nat /\ Piped' \in Nat
        BY <1>1, <3>1, <3>3 DEF Piped, Larger
      <3>5. Larger(cursor, run.orig)' = b /\ b \in b..Piped'
        BY <1>1, <3>4
      <3>6. Len(run.window)' = 0 /\ Cardinality(run.kept)' \in Nat
        <4>1. run.kept \subseteq Names
          BY DEF IInv, TypeOK, RunType
        <4>2. QED
          BY <1>1, <3>1, <4>1, NamesFinite
      <3>7. Inputs' \ run'.kept = (b + 1)..Piped'
        <4>1. (b + 1)..b = {}
          BY <3>4
        <4>2. QED
          BY <4>1, <3>4, <3>1, <1>1, <1>s
      <3>8. run'.folded \cup (run'.kept \ {Timeout}) \subseteq Upto(run.orig) \cup ((b + 1)..b)
        BY <3>1, <3>2, <1>1
      <3> HIDE DEF b
      <3>9. QED
        BY <3>1, <3>4, <3>5, <3>6, <3>7, <3>8, <1>1 DEF WindowSound
    <2>3. ~run.active => WindowSound'
      BY <1>1 DEF WindowSound
    <2>4. QED
      BY <2>1, <2>2, <2>3, <1>1 DEF NoThrow
  <1>16. QED
    BY <1>8, <1>9, <1>10, <1>11, <1>12, <1>13, <1>14, <1>15 DEF IInv

\* Steps that deliver a cached answer: its bookkeeping is all still to do.
LEMMA Delivering ==
  ASSUME IInv, Free, UNCHANGED <<arrived, storeVars, ghostVars>>, Answering,
         todo' \in Seq(WriteType), OrderedBy(todo', Wrong), OrderedBy(todo', Lasting),
         Timeout \in Inputs,
         Dos(todo') \subseteq {"completed", "receipt", "confirm", "acknowledge", "remove", "cursor"},
         "receipt" \in Dos(todo'),
         \E w \in Writes(todo') : w.do = "acknowledge" /\ Timeout \in w.set,
         \E w \in Writes(todo') : w.do = "confirm" /\ w.to = record.through,
         pc' = "notices" \/ (pc' = "ending" /\ ~run'.active),
         run' \in RunType, RunSound'
  PROVE  IInv'
  <1>1. /\ record.batch \subseteq Upto(record.through) /\ record.st # "none"
        /\ record.st # "pending" /\ record.through \in Cursors
    BY DEF IInv, RecordSound, TypeOK, RecordType
  <1>s. /\ Inputs' = Inputs /\ Excluded' = Excluded /\ Answering' = Answering
        /\ InMode("confirmed")' = InMode("confirmed")
        /\ Sources(record.kept)' = Sources(record.kept)
    BY SameStore
  <1>f. Writes(todo) = {} /\ Dos(todo) = {}
    BY WhenFree
  <1>d. \A w \in Writes(todo') : w.do \in Dos(todo')
    BY DEF Dos
  <1>2. TypeOK'
    BY DEF IInv, TypeOK, Points
  <1>3. RecordSound'
    BY <1>s DEF IInv, RecordSound
  <1>4. WritesSound'
    BY <1>1, <1>d, <1>s DEF WritesSound, Special, Booking
  <1>5. TakenUp'
    BY DEF TakenUp
  <1>6. BatchFresh'
    BY <1>1 DEF BatchFresh, AtWork
  <1>7. BatchPassed'
    BY <1>1 DEF BatchPassed, Passing
  <1>8. NoThrow'
    <2>1. ASSUME throws = 0 PROVE AnsweredSound'
      <3>1. AnsweredSound
        BY <2>1 DEF IInv, NoThrow
      <3>2. Moves("confirm")'
        BY <1>1 DEF Moves
      <3>3. Past' = Past /\ Closed' = Closed
        BY <1>s DEF Past, Closed
      <3>4. QED
        BY <3>1, <3>2, <3>3, <1>s DEF AnsweredSound
    <2>2. WindowSound'
      BY DEF WindowSound
    <2>3. QED
      BY <2>1, <2>2 DEF NoThrow
  <1>9. QED
    BY <1>2, <1>3, <1>4, <1>5, <1>6, <1>7, <1>8 DEF IInv

LEMMA ResentKept ==
  ASSUME IInv, Resent(TRUE)  PROVE IInv'
  <1> DEFINE S == record.kept
             n == record.through
             s == Delivered(S, n)
  <1>1. /\ Free /\ pc = "resend" /\ pc' = "notices" /\ todo' = s /\ run' = run
        /\ UNCHANGED <<arrived, storeVars, ghostVars>>
    BY DEF Resent, Then
  <1>2. Answering /\ Timeout \in S /\ Timeout \in Inputs
    BY <1>1 DEF IInv, RunSound, RecordSound
  <1>3. S \in SUBSET Names /\ n \in Cursors
    BY DEF IInv, TypeOK, RecordType
  <1>4. /\ s \in Seq(WriteType) /\ OrderedBy(s, Wrong)
        /\ Write("confirm", n, {}) \in Writes(s) /\ Files("acknowledge", S) \in Writes(s)
        /\ Dos(s) = {"completed", "receipt", "confirm", "acknowledge", "remove"}
    BY <1>3, DeliveredWrites
  <1>5. /\ Files("acknowledge", S).do = "acknowledge" /\ Files("acknowledge", S).set = S
        /\ Write("confirm", n, {}).do = "confirm" /\ Write("confirm", n, {}).to = n
    BY DEF Files, Write
  <1>6. RunSound' /\ run' \in RunType
    BY <1>1, <1>4 DEF IInv, RunSound, AtWork, TypeOK
  <1> HIDE DEF s
  <1>9. OrderedBy(s, Lasting)
    <2>1. \A a, b \in Dos(s) : <<a, b>> \notin Lasting
      BY <1>4 DEF Lasting
    <2>2. QED
      BY <2>1, <1>4, Mild
  <1>7. /\ \E w \in Writes(todo') : w.do = "acknowledge" /\ Timeout \in w.set
        /\ \E w \in Writes(todo') : w.do = "confirm" /\ w.to = record.through
    BY <1>1, <1>2, <1>4, <1>5
  <1>8. QED
    BY <1>1, <1>2, <1>4, <1>6, <1>7, <1>9, Delivering

\* The answer of a continuation reaches the chat.
LEMMA SentContinuation ==
  ASSUME IInv, Sent(TRUE), run.active  PROVE IInv'
  <1> DEFINE S == record.kept
             n == record.through
             d == Delivered(S, n)
             c == MoveCursor(n)
             s == d \o <<c>>
  <1>1. /\ Free /\ pc = "send" /\ pc' = "ending"
        /\ UNCHANGED <<arrived, storeVars, ghostVars>>
        /\ run' = [run EXCEPT !.active = run.active /\ ~TRUE]
    BY DEF Sent, Then
  <1>2. Answering /\ S = run.kept /\ n = run.target /\ Timeout \in Inputs
    BY <1>1 DEF IInv, RunSound
  <1>3. todo' = s
    BY <1>2 DEF Sent, Then
  <1>4. S \in SUBSET Names /\ n \in Cursors /\ Timeout \in S
    BY <1>2 DEF IInv, TypeOK, RecordType, RecordSound
  <1>5. /\ d \in Seq(WriteType) /\ OrderedBy(d, Wrong)
        /\ Write("confirm", n, {}) \in Writes(d) /\ Files("acknowledge", S) \in Writes(d)
        /\ Dos(d) = {"completed", "receipt", "confirm", "acknowledge", "remove"}
    BY <1>4, DeliveredWrites
  <1>6. c \in WriteType /\ c.do = "cursor"
    BY <1>4, WriteTypes
  <1>7. /\ Files("acknowledge", S).do = "acknowledge" /\ Files("acknowledge", S).set = S
        /\ Write("confirm", n, {}).do = "confirm" /\ Write("confirm", n, {}).to = n
    BY DEF Files, Write
  <1> HIDE DEF d, c
  <1>8. /\ s \in Seq(WriteType) /\ \A v : v \in Writes(s) <=> v \in Writes(d) \/ v = c
        /\ \A e : e \in Dos(s) <=> e \in Dos(d) \/ e = c.do
    BY <1>5, <1>6, OneMore
  <1>9. OrderedBy(s, Wrong) /\ OrderedBy(s, Lasting)
    <2>1. \A e \in Dos(d) : <<e, c.do>> \notin Wrong /\ <<e, c.do>> \notin Lasting
      BY <1>5, <1>6 DEF Wrong, Booking, Lasting
    <2>2. \A a, b \in Dos(d) : <<a, b>> \notin Lasting
      BY <1>5 DEF Lasting
    <2>3. OrderedBy(d, Lasting)
      BY <2>2, <1>5, Mild
    <2>4. QED
      BY <2>1, <2>3, <1>5, <1>6, OneMore
  <1> HIDE DEF s
  <1>10. /\ run' \in RunType /\ ~run'.active /\ run'.prompt = run.prompt
         /\ run'.orig = run.orig /\ run'.target = run.target
    <2>1. run' = [run EXCEPT !.active = FALSE]
      BY <1>1
    <2>2. QED
      BY <2>1 DEF IInv, TypeOK, RunType
  <1>11. RunSound'
    BY <1>1, <1>10 DEF IInv, RunSound, AtWork
  <1>12. /\ \E w \in Writes(todo') : w.do = "acknowledge" /\ Timeout \in w.set
         /\ \E w \in Writes(todo') : w.do = "confirm" /\ w.to = record.through
    BY <1>3, <1>4, <1>5, <1>7, <1>8
  <1>13. /\ Dos(todo') \subseteq {"completed", "receipt", "confirm", "acknowledge", "remove", "cursor"}
         /\ "receipt" \in Dos(todo')
    BY <1>3, <1>5, <1>6, <1>8
  <1>14. QED
    BY <1>1, <1>2, <1>3, <1>8, <1>9, <1>10, <1>11, <1>12, <1>13, Delivering

\* The answer of a run that is no continuation and had inputs.
LEMMA SentInputs ==
  ASSUME IInv, Sent(TRUE), ~run.active, run.kept # {}  PROVE IInv'
  <1> DEFINE S == run.kept
             a == Acknowledge(S)
             f == Files("acknowledge", S)
             g == Files("remove", S)
             c == MoveCursor(run.target)
             s == a \o <<c>>
  <1>1. /\ Free /\ pc = "send" /\ pc' = "ending"
        /\ UNCHANGED <<arrived, storeVars, ghostVars>>
        /\ run' = [run EXCEPT !.active = run.active /\ ~TRUE]
        /\ todo' = s
    BY DEF Sent, Then
  <1>2. S \in SUBSET Names /\ run.target \in Cursors
    BY DEF IInv, TypeOK, RunType
  <1>3. Timeout \notin S /\ Timeout \notin Inputs
    BY <1>1 DEF IInv, RunSound
  <1>4. /\ a \in Seq(WriteType) /\ OrderedBy(a, Wrong) /\ Writes(a) = {f, g}
        /\ Dos(a) = {"acknowledge", "remove"}
    BY <1>2, AcknowledgeWrites
  <1>5. /\ c \in WriteType /\ c.do = "cursor"
        /\ f.do = "acknowledge" /\ f.set = S /\ g.do = "remove" /\ g.set = S
    BY <1>2, WriteTypes DEF Files, Write
  <1> HIDE DEF a, c, f, g
  <1>6. /\ s \in Seq(WriteType) /\ \A v : v \in Writes(s) <=> v \in Writes(a) \/ v = c
        /\ \A e : e \in Dos(s) <=> e \in Dos(a) \/ e = c.do
    BY <1>4, <1>5, OneMore
  <1>7. OrderedBy(s, Wrong) /\ OrderedBy(s, Lasting)
    <2>1. \A e \in Dos(a) : <<e, c.do>> \notin Wrong /\ <<e, c.do>> \notin Lasting
      BY <1>4, <1>5 DEF Wrong, Booking, Lasting
    <2>2. \A d, e \in Dos(a) : <<d, e>> \notin Lasting
      BY <1>4 DEF Lasting
    <2>3. OrderedBy(a, Lasting)
      BY <2>2, <1>4, Mild
    <2>4. QED
      BY <2>1, <2>3, <1>4, <1>5, OneMore
  <1>8. Writes(s) = {f, g, c} /\ Dos(s) = {"acknowledge", "remove", "cursor"}
    BY <1>4, <1>5, <1>6
  <1> HIDE DEF s
  <1>9. /\ run' \in RunType /\ ~run'.active /\ run'.prompt = run.prompt
        /\ run'.orig = run.orig /\ run'.target = run.target
    <2>1. run' = [run EXCEPT !.active = FALSE]
      BY <1>1
    <2>2. QED
      BY <2>1 DEF IInv, TypeOK, RunType
  <1>s. /\ Inputs' = Inputs /\ Excluded' = Excluded /\ Answering' = Answering
        /\ InMode("confirmed")' = InMode("confirmed")
        /\ Sources(record.kept)' = Sources(record.kept)
    BY <1>1, SameStore
  <1>f. Writes(todo) = {} /\ Dos(todo) = {}
    BY <1>1, WhenFree
  <1>10. TypeOK'
    BY <1>1, <1>6, <1>9 DEF IInv, TypeOK, Points
  <1>11. RecordSound'
    BY <1>1, <1>s DEF IInv, RecordSound
  <1>12. WritesSound'
    BY <1>1, <1>3, <1>5, <1>7, <1>8, <1>s DEF WritesSound, Special, Booking
  <1>13. RunSound'
    BY <1>1, <1>9 DEF IInv, RunSound, AtWork
  <1>14. TakenUp'
    BY <1>1 DEF TakenUp
  <1>15. BatchFresh'
    BY <1>1, <1>3, <1>8, <1>9, <1>s DEF BatchFresh
  <1>16. BatchPassed'
    <2>1. ~Untouched /\ (SetAside => SetAside')
      BY <1>1, <1>3, <1>s DEF Untouched, SetAside
    <2>2. Passing(record.batch) => Passing(record.batch)'
      BY <1>1, <1>f DEF Passing
    <2>3. QED
      BY <2>1, <2>2, <1>1 DEF IInv, BatchPassed
  <1>17. NoThrow'
    <2>1. ASSUME throws = 0 PROVE AnsweredSound'
      <3>1. AnsweredSound
        BY <2>1 DEF IInv, NoThrow
      <3>2. ~Removing'
        BY <1>1, <1>3, <1>5, <1>8 DEF Removing
      <3>3. Past' = Past /\ Closed' = Closed
        BY <1>1, <1>s DEF Past, Closed
      <3>4. QED
        BY <3>1, <3>2, <3>3, <1>1, <1>8, <1>s DEF AnsweredSound
    <2>2. WindowSound'
      BY <1>1 DEF WindowSound
    <2>3. QED
      BY <2>1, <2>2, <1>1 DEF NoThrow
  <1>18. QED
    BY <1>10, <1>11, <1>12, <1>13, <1>14, <1>15, <1>16, <1>17 DEF IInv

LEMMA SentKept ==
  ASSUME IInv, NEW ok \in BOOLEAN, Sent(ok)  PROVE IInv'
  <1>1. CASE ok /\ run.active
    BY <1>1, SentContinuation
  <1>2. CASE ok /\ ~run.active /\ run.kept # {}
    BY <1>2, SentInputs
  <1>3. CASE ~ok \/ (~run.active /\ run.kept = {})
    <2>1. /\ Free /\ pc = "send" /\ pc' = "ending"
          /\ UNCHANGED <<arrived, storeVars, ghostVars>>
      BY DEF Sent, Then
    <2>2. run' = run
      <3>1. run' = [run EXCEPT !.active = run.active /\ ~ok] /\ (run.active /\ ~ok) = run.active
        BY <1>3 DEF Sent, IInv, TypeOK, RunType
      <3>2. run' = [run EXCEPT !.active = run.active] /\ run \in RunType
        BY <3>1 DEF IInv, TypeOK
      <3>3. QED
        BY <3>2 DEF RunType
    <2>3. run.target \in Cursors
      BY DEF IInv, TypeOK, RunType
    <2>4. todo' = <<>> \/ todo' = <<MoveCursor(run.target)>>
      <3>1. CASE ~ok
        BY <3>1 DEF Sent, Then
      <3>2. CASE ok
        <4>1. todo' = <<>> \o <<MoveCursor(run.target)>>
          BY <3>2, <1>3 DEF Sent, Then
        <4>2. <<>> \o <<MoveCursor(run.target)>> = <<MoveCursor(run.target)>>
          OBVIOUS
        <4>3. QED
          BY <4>1, <4>2
      <3>3. QED
        BY <3>1, <3>2
    <2>5. todo' \in Seq(WriteType) /\ Dos(todo') \subseteq {"cursor"}
      BY <2>3, <2>4, CursorWrite, NoWrites
    <2>6. QED
      BY <2>1, <2>2, <2>5, QuietRun DEF AtWork
  <1>4. QED
    BY <1>1, <1>2, <1>3

\* A turn that ran into its limit: the request to continue it, then its file.
LEMMA TimeLimitKept ==
  ASSUME IInv, TimeLimit  PROVE IInv'
  <1> DEFINE a == Write("pending", 0, run.prompt)
             b == Set("expose")
             s == <<a, b>>
  <1>1. /\ Free /\ pc = "model" /\ pc' = "apology" /\ ~run.active /\ record.st = "none"
        /\ UNCHANGED <<arrived, storeVars, run, ghostVars>>
        /\ todo' = s
    BY DEF TimeLimit, Then
  <1>2. a \in WriteType /\ a.do = "pending" /\ b \in WriteType /\ b.do = "expose"
    <2>1. run.prompt \in SUBSET Names /\ 0 \in Cursors
      BY DEF IInv, TypeOK, RunType
    <2>2. {"pending", "expose"} \subseteq Ops
      BY DEF Ops
    <2> HIDE DEF Names, Cursors
    <2>3. QED
      BY <2>1, <2>2, WriteTypes
  <1>3. starts = 0 /\ ~Answering
    BY <1>1 DEF IInv, RecordSound
  <1>4. Staging'
    BY <1>1 DEF Staging
  <1> HIDE DEF a, b
  <1>5. /\ s \in Seq(WriteType) /\ \A w : w \in Writes(s) <=> w = a \/ w = b
        /\ \A d : d \in Dos(s) <=> d = a.do \/ d = b.do
    BY <1>2, Double
  <1>6. OrderedBy(s, Wrong)
    <2>1. <<a.do, b.do>> \notin Wrong
      BY <1>2 DEF Wrong, Booking
    <2>2. QED
      BY <2>1, <1>2, Double
  <1>7. Writes(s) = {a, b} /\ Dos(s) = {"pending", "expose"}
    BY <1>2, <1>5
  <1> HIDE DEF s
  <1>s. /\ Inputs' = Inputs /\ Excluded' = Excluded /\ Answering' = Answering
        /\ InMode("confirmed")' = InMode("confirmed")
        /\ Sources(record.kept)' = Sources(record.kept)
    BY <1>1, SameStore
  <1>8. TypeOK'
    BY <1>1, <1>5 DEF IInv, TypeOK, Points
  <1>9. RecordSound'
    BY <1>1, <1>s DEF IInv, RecordSound
  <1>10. WritesSound'
    BY <1>1, <1>2, <1>4, <1>6, <1>7, <1>s DEF WritesSound, Special, Booking
  <1>11. RunSound'
    BY <1>1 DEF IInv, RunSound, AtWork
  <1>12. TakenUp'
    BY <1>1 DEF TakenUp
  <1>13. BatchFresh'
    BY <1>1, <1>s DEF IInv, BatchFresh, AtWork
  <1>14. BatchPassed'
    BY <1>1, <1>3 DEF BatchPassed
  <1>15. NoThrow'
    <2>1. ASSUME throws = 0 PROVE AnsweredSound'
      <3>1. AnsweredSound
        BY <2>1 DEF IInv, NoThrow
      <3>2. Closed' = Closed
        BY <1>1, <1>s DEF Closed
      <3>3. QED
        BY <3>1, <3>2, <1>1, <1>3, <1>7, <1>s DEF AnsweredSound
    <2>2. WindowSound'
      BY <1>1 DEF WindowSound
    <2>3. QED
      BY <2>1, <2>2, <1>1 DEF NoThrow
  <1>16. QED
    BY <1>8, <1>9, <1>10, <1>11, <1>12, <1>13, <1>14, <1>15 DEF IInv

\* A crash loses what was still to be written, and nothing else.
LEMMA CrashKept ==
  ASSUME IInv, Crash  PROVE IInv'
  <1>1. /\ crashes < MaxCrashes /\ crashes' = crashes + 1 /\ todo' = <<>> /\ pc' = "idle"
        /\ run' = NoRun /\ UNCHANGED <<arrived, storeVars, starts, answered, throws>>
    BY DEF Crash, Then
  <1>2. todo' \in Seq(WriteType) /\ Dos(todo') = {} /\ Writes(todo') = {}
    BY <1>1, NoWrites
  <1>s. /\ Inputs' = Inputs /\ Excluded' = Excluded /\ Answering' = Answering
        /\ InMode("confirmed")' = InMode("confirmed")
        /\ Sources(record.kept)' = Sources(record.kept)
    BY <1>1, SameStore
  <1>3. TypeOK' /\ crashes' # 0
    BY <1>1, <1>2, NoRunTyped DEF IInv, TypeOK, Points
  <1>4. RecordSound'
    BY <1>1, <1>s DEF IInv, RecordSound
  <1>5. WritesSound'
    <2>1. OrderedBy(todo', Wrong)
      BY <1>1, Nothing
    <2>2. QED
      BY <2>1, <1>2 DEF WritesSound
  <1>6. RunSound'
    BY <1>1, NoRunTyped DEF RunSound, AtWork
  <1>7. TakenUp'
    BY <1>1 DEF TakenUp
  <1>8. BatchFresh'
    BY <1>1, <1>2, <1>s, NoRunTyped DEF IInv, BatchFresh
  <1>9. BatchPassed'
    BY <1>3 DEF BatchPassed
  <1>10. NoThrow'
    <2>1. ASSUME throws = 0 PROVE AnsweredSound'
      <3>1. AnsweredSound
        BY <2>1 DEF IInv, NoThrow
      <3>2. Past' = Past /\ Closed' = Closed /\ ~Removing'
        BY <1>1, <1>2, <1>s DEF Past, Closed, Removing
      <3>3. QED
        BY <3>1, <3>2, <1>1, <1>2, <1>s DEF AnsweredSound
    <2>2. WindowSound'
      BY <1>1 DEF WindowSound
    <2>3. QED
      BY <2>1, <2>2, <1>1 DEF NoThrow
  <1>11. QED
    BY <1>3, <1>4, <1>5, <1>6, <1>7, <1>8, <1>9, <1>10 DEF IInv

\* Messages may have come, and nothing else has happened.
LEMMA OnlyArrivals ==
  ASSUME IInv, arrived' \in Cursors, UNCHANGED <<storeVars, runVars, ghostVars>>
  PROVE  IInv'
  <1>1. arrived' \in Cursors /\ UNCHANGED <<storeVars, runVars, ghostVars>>
    OBVIOUS
  <1>s. /\ Inputs' = Inputs /\ Excluded' = Excluded /\ Answering' = Answering
        /\ InMode("confirmed")' = InMode("confirmed")
        /\ Sources(record.kept)' = Sources(record.kept)
    BY <1>1, SameStore
  <1>2. TypeOK'
    BY <1>1 DEF IInv, TypeOK
  <1>3. RecordSound'
    BY <1>1, <1>s DEF IInv, RecordSound
  <1>4. WritesSound'
    <2>1. /\ Staging' = Staging /\ Exposing' = Exposing /\ Claiming' = Claiming
          /\ Caching' = Caching
      BY <1>1 DEF Staging, Exposing, Claiming, Caching
    <2>2. QED
      BY <2>1, <1>1, <1>s DEF IInv, WritesSound
  <1>5. RunSound'
    <2>1. Claiming' = Claiming /\ Caching' = Caching
      BY <1>1 DEF Claiming, Caching
    <2>2. QED
      BY <2>1, <1>1, <1>s DEF IInv, RunSound, Free
  <1>6. TakenUp'
    BY <1>1, <1>s DEF IInv, TakenUp
  <1>7. BatchFresh'
    BY <1>1, <1>s DEF IInv, BatchFresh
  <1>8. BatchPassed'
    <2>1. Untouched' = Untouched /\ SetAside' = SetAside /\ Passing(record.batch)' = Passing(record.batch)
      BY <1>1, <1>s DEF Untouched, SetAside, Passing
    <2>2. QED
      BY <2>1, <1>1 DEF IInv, BatchPassed
  <1>9. NoThrow'
    <2>1. AnsweredSound' = AnsweredSound
      <3>1. Past' = Past /\ Closed' = Closed /\ Removing' = Removing
            /\ Moves("confirm")' = Moves("confirm") /\ Moves("cursor")' = Moves("cursor")
        BY <1>1, <1>s DEF Past, Closed, Removing, Moves
      <3>2. \A S : Sources(S)' = Sources(S)
        BY <1>1, SameStore
      <3>3. QED
        BY <3>1, <3>2, <1>1, <1>s DEF AnsweredSound
    <2>2. WindowSound' = WindowSound
      <3>1. Piped' = Piped
        BY <1>1 DEF Piped
      <3>2. QED
        BY <3>1, <1>1, <1>s DEF WindowSound
    <2>3. QED
      BY <2>1, <2>2, <1>1 DEF IInv, NoThrow
  <1>10. QED
    BY <1>2, <1>3, <1>4, <1>5, <1>6, <1>7, <1>8, <1>9 DEF IInv

LEMMA ArriveKept ==
  ASSUME IInv, Arrive  PROVE IInv'
  <1>1. arrived' \in Cursors /\ UNCHANGED <<storeVars, runVars, ghostVars>>
    BY DEF Arrive, IInv, TypeOK
  <1>2. QED
    BY <1>1, OnlyArrivals

LEMMA StretchSize ==
  ASSUME NEW q \in Cursors, NEW p \in Cursors, q <= p, NEW S, S \subseteq Names
  PROVE  /\ Cardinality((q + 1)..p) = p - q
         /\ S \cap ((q + 1)..p) = {} => Cardinality(S \cup ((q + 1)..p)) = Cardinality(S) + (p - q)
  <1> DEFINE a == q + 1
             T == a..p
  <1>1. a \in Int /\ p \in Int /\ p - q \in Nat
    OBVIOUS
  <1>2. IsFiniteSet(T) /\ Cardinality(T) = IF a > p THEN 0 ELSE p - a + 1
    <2> HIDE DEF a
    <2>1. QED
      BY <1>1, FS_Interval
  <1>3. Cardinality(T) = p - q
    <2> DEFINE c == Cardinality(T)
    <2>1. c = IF a > p THEN 0 ELSE p - a + 1
      BY <1>2
    <2> HIDE DEF c
    <2>2. c = p - q
      BY <2>1
    <2>3. QED
      BY <2>2 DEF c
  <1> HIDE DEF T
  <1>4. IsFiniteSet(S) /\ Cardinality(S) \in Nat
    BY NamesFinite
  <1>5. ASSUME S \cap T = {} PROVE Cardinality(S \cup T) = Cardinality(S) + (p - q)
    <2>1. Cardinality(S \cup T) = Cardinality(S) + Cardinality(T) - Cardinality(S \cap T)
      BY <1>2, <1>4, FS_Union
    <2>2. Cardinality(S \cap T) = 0
      BY <1>5, FS_EmptySet
    <2>3. QED
      BY <2>1, <2>2, <1>1, <1>3, <1>4
  <1>6. QED
    BY <1>3, <1>5 DEF T

\* What a continuation answers, or folded into its turn, is below the cursor of its
\* answer, and of it only the inputs the run keeps have a file.
LEMMA AnswerCovers ==
  ASSUME IInv, pc = "model", run.active, throws = 0,
         NEW c, c = Covering(run, Cardinality(run.kept))
  PROVE  LET m == run.prompt \cup Sources(run.kept) \cup run.folded IN
         m \subseteq Upto(c.target) /\ m \cap Inputs \subseteq run.kept
  <1> DEFINE b == Larger(cursor, run.orig)
             L == Len(run.window)
             n == Cardinality(run.kept)
             k == Smaller(n, L)
             m == run.prompt \cup Sources(run.kept) \cup run.folded
  <1>1. /\ run \in RunType /\ cursor \in Cursors /\ run.orig \in Cursors
        /\ run.target \in Cursors /\ run.kept \subseteq Names
    BY DEF IInv, TypeOK, RunType
  <1>2. n \in Nat
    BY <1>1, NamesFinite
  <1>3. /\ L \in Nat /\ k \in 0..L /\ run.target <= c.target /\ c \in RunType
        /\ c.target = (IF k = 0 THEN run.target ELSE Larger(run.target, run.window[k]))
    BY <1>1, <1>2, CoveringFacts
  <1>4. c.target \in Cursors
    BY <1>3 DEF RunType
  <1>5. PICK q \in b..Piped :
          /\ \A i \in 1..L : run.window[i] = Piped - L + i
          /\ Inputs \ run.kept = (q + 1)..Piped
          /\ Piped - q <= L /\ L <= (Piped - q) + n /\ L <= Piped - b
          /\ run.folded \cup (run.kept \ {Timeout}) \subseteq Upto(run.orig) \cup ((b + 1)..q)
          /\ Piped - L > b => run.target >= Piped - L
    BY DEF IInv, NoThrow, WindowSound
  <1>6. /\ run.prompt \subseteq Upto(run.orig) /\ run.orig <= run.target
        /\ record.batch \subseteq Upto(run.orig) /\ Timeout \in run.kept
    BY DEF IInv, RunSound, BatchFresh, AtWork
  <1>7. n # 0
    BY <1>1, <1>6, NamesFinite, FS_EmptySet
  <1>8. Piped \in Cursors /\ b \in Cursors /\ b >= run.orig
    BY <1>1, StoreTyped DEF IInv, Larger
  <1>9. q > b => c.target >= q
    <2>1. CASE L = 0
      BY <2>1, <1>1, <1>3, <1>4, <1>5, <1>8
    <2>2. CASE L # 0 /\ k = L
      <3>1. run.window[L] = Piped
        <4>1. L \in 1..L
          BY <2>2, <1>3
        <4>2. run.window[L] = Piped - L + L
          BY <4>1, <1>5
        <4> HIDE DEF L
        <4>3. QED
          BY <4>2, <1>3, <1>8
      <3>2. QED
        BY <2>2, <3>1, <1>1, <1>3, <1>5, <1>8 DEF Larger
    <2>3. CASE L # 0 /\ k # L
      <3>1. k = n /\ k \in 1..L
        BY <2>3, <1>2, <1>3, <1>7 DEF Smaller
      <3>2. run.window[k] = Piped - L + k
        BY <3>1, <1>5
      <3> HIDE DEF k, n, L, b
      <3>3. Piped - L + k >= q
        BY <3>1, <1>3, <1>5, <1>8
      <3>4. c.target = Larger(run.target, Piped - L + k)
        BY <3>1, <3>2, <1>3
      <3>5. QED
        BY <3>1, <3>3, <3>4, <1>1, <1>3, <1>5, <1>8 DEF Larger
    <2>4. QED
      BY <2>1, <2>2, <2>3
  <1>10. m \subseteq Upto(run.orig) \cup ((b + 1)..q)
    <2>1. \A x \in run.kept : x # Timeout => Source(x) = {x}
      BY DEF Source
    <2>2. Sources(run.kept) \subseteq record.batch \cup (run.kept \ {Timeout})
      BY <2>1 DEF Sources, Source
    <2>3. QED
      BY <2>2, <1>5, <1>6
  <1> HIDE DEF m, b
  <1>11. Upto(run.orig) \cup ((b + 1)..q) \subseteq Upto(c.target)
    <2>1. Upto(run.orig) \subseteq Upto(c.target)
      BY <1>1, <1>3, <1>4, <1>6
    <2>2. ASSUME NEW x \in (b + 1)..q PROVE x \in Upto(c.target)
      BY <2>2, <1>4, <1>5, <1>8, <1>9
    <2>3. QED
      BY <2>1, <2>2
  <1>12. ASSUME NEW x \in m, x \in Inputs, x \notin run.kept PROVE FALSE
    <2>1. x \in (q + 1)..Piped
      BY <1>5, <1>12
    <2>2. x \in Upto(run.orig) \cup ((b + 1)..q)
      BY <1>10
    <2>3. QED
      BY <2>1, <2>2, <1>1, <1>5, <1>8
  <1>13. m \subseteq Upto(c.target) /\ m \cap Inputs \subseteq run.kept
    BY <1>10, <1>11, <1>12
  <1>14. QED
    BY <1>13 DEF m

LEMMA AnswerKept ==
  ASSUME IInv, Answer  PROVE IInv'
  <1> DEFINE n == Cardinality(run.kept)
             c == Covering(run, n)
  <1>1. /\ Free /\ pc = "model" /\ pc' = "send" /\ run' = c
        /\ UNCHANGED <<arrived, storeVars, ghostVars>>
        /\ todo' = (IF run.active THEN <<Write("delivery", c.target, run.kept)>> ELSE <<>>)
    BY DEF Answer, Then
  <1>2. run \in RunType /\ run.kept \subseteq Names
    BY DEF IInv, TypeOK, RunType
  <1>3. n \in Nat
    BY <1>2, NamesFinite
  <1>4. /\ c \in RunType /\ c.prompt = run.prompt /\ c.orig = run.orig /\ c.kept = run.kept
        /\ c.folded = run.folded /\ c.active = run.active /\ run.target <= c.target
    BY <1>2, <1>3, CoveringFacts
  <1>5. c = Covering(run, Cardinality(run.kept))
    OBVIOUS
  <1> HIDE DEF c
  <1>6. run.prompt # {} /\ run.prompt \subseteq Upto(run.orig) /\ run.orig <= c.target
    <2>1. run.orig \in Cursors /\ run.target \in Cursors /\ c.target \in Cursors
      BY <1>2, <1>4 DEF RunType
    <2>2. QED
      BY <2>1, <1>1, <1>4 DEF IInv, RunSound, AtWork
  <1>s. /\ Inputs' = Inputs /\ Excluded' = Excluded /\ Answering' = Answering
        /\ InMode("confirmed")' = InMode("confirmed")
        /\ Sources(record.kept)' = Sources(record.kept)
    BY <1>1, SameStore
  <1>7. CASE ~run.active
    <2>1. RunSound'
      BY <1>1, <1>4, <1>6, <1>7, <1>s DEF IInv, RunSound, AtWork, Free
    <2>2. pc' \in Points \ {"claim", "launch", "model"}
      BY <1>1 DEF Points
    <2>3. QED
      BY <1>1, <1>4, <1>7, <2>1, <2>2, NoWrites, Quiet
  <1>8. CASE run.active
    <2> DEFINE w == Write("delivery", c.target, run.kept)
    <2>1. w \in WriteType /\ w.do = "delivery" /\ w.to = c.target /\ w.set = run.kept
      <3>1. run.kept \in SUBSET Names /\ c.target \in Cursors /\ "delivery" \in Ops
        BY <1>2, <1>4 DEF Ops, RunType
      <3> HIDE DEF Names, Cursors
      <3>2. QED
        BY <3>1, WriteTypes
    <2>2. todo' = <<w>> /\ todo' = <<Write("delivery", run'.target, run'.kept)>>
      BY <1>1, <1>4, <1>8
    <2> HIDE DEF w
    <2>3. /\ <<w>> \in Seq(WriteType) /\ \A v : v \in Writes(<<w>>) <=> v = w
          /\ \A d : d \in Dos(<<w>>) <=> d = w.do
          /\ \A V : OrderedBy(<<w>>, V)
          /\ <<w>> # <<>>
      BY <2>1, Single
    <2>4. Writes(todo') = {w} /\ Dos(todo') = {"delivery"} /\ todo' # <<>>
          /\ todo' \in Seq(WriteType) /\ OrderedBy(todo', Wrong)
      BY <2>1, <2>2, <2>3
    <2>5. /\ record.st = "running" /\ ~Answering /\ answered = {} /\ retired = {}
          /\ Timeout \in Inputs /\ Timeout \in run.kept /\ Timeout \notin receipts.names
          /\ record.batch \subseteq Upto(run.orig)
      BY <1>1, <1>8 DEF IInv, RunSound, RecordSound, BatchFresh, AtWork
    <2>6. Caching'
      <3>1. record.batch \subseteq Upto(c.target)
        <4>1. run.orig \in Cursors /\ c.target \in Cursors
          BY <1>2, <1>4 DEF RunType
        <4>2. QED
          BY <4>1, <2>5, <1>6
      <3>2. QED
        BY <3>1, <2>2, <2>5, <1>1, <1>4, <1>8 DEF Caching
    <2>7. TypeOK'
      BY <2>4, <1>1, <1>4 DEF IInv, TypeOK, Points
    <2>8. RecordSound'
      BY <1>1, <1>s DEF IInv, RecordSound
    <2>9. WritesSound'
      BY <2>1, <2>4, <2>6 DEF WritesSound, Special, Booking
    <2>10. RunSound'
      BY <1>1, <1>4, <1>6, <1>8, <1>s, <2>4, <2>5, <2>6 DEF IInv, RunSound, AtWork, Free
    <2>11. TakenUp'
      BY <1>1 DEF TakenUp
    <2>12. BatchFresh'
      BY <1>1, <1>4, <2>4, <2>5 DEF BatchFresh
    <2>13. BatchPassed'
      BY <1>1, <1>s, <2>1, <2>4, <2>5 DEF BatchPassed, Untouched
    <2>14. NoThrow'
      <3>1. ASSUME throws = 0 PROVE AnsweredSound'
        <4>1. AnsweredSound
          BY <3>1 DEF IInv, NoThrow
        <4>2. LET m == run'.prompt \cup Sources(run'.kept) \cup run'.folded IN
              m \subseteq Upto(run'.target) /\ m \cap Inputs \subseteq run'.kept
          BY <3>1, <1>1, <1>4, <1>5, <1>8, AnswerCovers
        <4>3. Sources(run.kept)' = Sources(run'.kept)
          <5>1. \A x : Source(x)' = Source(x)
            BY <1>1 DEF Source
          <5>2. QED
            BY <5>1 DEF Sources
        <4>4. QED
          BY <4>1, <4>2, <4>3, <1>1, <1>s, <2>4, <2>5 DEF AnsweredSound
      <3>2. WindowSound'
        BY <1>1 DEF WindowSound
      <3>3. QED
        BY <3>1, <3>2, <1>1 DEF NoThrow
    <2>15. QED
      BY <2>7, <2>8, <2>9, <2>10, <2>11, <2>12, <2>13, <2>14 DEF IInv
  <1>9. QED
    BY <1>7, <1>8

\* The files that wait come to be kept.
LEMMA KeepKept ==
  ASSUME IInv, Keep  PROVE IInv'
  <1>1. /\ Free /\ pc = "model" /\ run' = [run EXCEPT !.kept = Inputs] /\ pc' = pc /\ todo' = todo
        /\ UNCHANGED <<arrived, storeVars, ghostVars>>
    BY DEF Keep
  <1>2. run \in RunType /\ Inputs \subseteq Names
    BY StoreTyped DEF IInv, TypeOK
  <1>3. /\ run' \in RunType /\ run'.kept = Inputs /\ run'.prompt = run.prompt
        /\ run'.target = run.target /\ run'.orig = run.orig /\ run'.window = run.window
        /\ run'.folded = run.folded /\ run'.active = run.active
    BY <1>1, <1>2 DEF RunType
  <1>s. /\ Inputs' = Inputs /\ Excluded' = Excluded /\ Answering' = Answering
        /\ InMode("confirmed")' = InMode("confirmed")
        /\ Sources(record.kept)' = Sources(record.kept)
    BY <1>1, SameStore
  <1>f. Writes(todo) = {} /\ Dos(todo) = {}
    BY <1>1, WhenFree
  <1>4. TypeOK'
    BY <1>1, <1>3 DEF IInv, TypeOK
  <1>5. RecordSound'
    BY <1>1, <1>s DEF IInv, RecordSound
  <1>6. WritesSound'
    BY <1>1, <1>f, <1>s DEF IInv, WritesSound
  <1>7. RunSound'
    BY <1>1, <1>3, <1>s DEF IInv, RunSound, AtWork, Free
  <1>8. TakenUp'
    BY <1>1 DEF TakenUp
  <1>9. BatchFresh'
    BY <1>1, <1>3, <1>f, <1>s DEF IInv, BatchFresh, AtWork
  <1>10. BatchPassed'
    <2>1. Untouched' = Untouched /\ SetAside' = SetAside /\ Passing(record.batch)' = Passing(record.batch)
      BY <1>1, <1>f, <1>s DEF Untouched, SetAside, Passing
    <2>2. QED
      BY <2>1, <1>1 DEF IInv, BatchPassed
  <1>11. NoThrow'
    <2>1. ASSUME throws = 0 PROVE AnsweredSound'
      <3>1. AnsweredSound
        BY <2>1 DEF IInv, NoThrow
      <3>2. Past' = Past /\ Closed' = Closed /\ ~Removing'
        BY <1>1, <1>f, <1>s DEF Past, Closed, Removing
      <3>3. QED
        BY <3>1, <3>2, <1>1, <1>f, <1>s DEF AnsweredSound
    <2>2. ASSUME throws = 0, run.active PROVE WindowSound'
      <3> DEFINE b == Larger(cursor, run.orig)
                 L == Len(run.window)
      <3>1. PICK q \in b..Piped :
              /\ \A i \in 1..L : run.window[i] = Piped - L + i
              /\ Inputs \ run.kept = (q + 1)..Piped
              /\ Piped - q <= L /\ L <= (Piped - q) + Cardinality(run.kept) /\ L <= Piped - b
              /\ run.folded \cup (run.kept \ {Timeout}) \subseteq Upto(run.orig) \cup ((b + 1)..q)
              /\ Piped - L > b => run.target >= Piped - L
        BY <1>1, <2>2 DEF IInv, NoThrow, WindowSound
      <3>2. /\ Piped \in Cursors /\ cursor \in Cursors /\ run.orig \in Cursors /\ b \in Cursors
            /\ L \in Nat
        BY <1>2, StoreTyped DEF IInv, TypeOK, RunType, Larger
      <3>3. Piped' = Piped /\ Larger(cursor, run.orig)' = b /\ Len(run.window)' = L
        BY <1>1, <1>3 DEF Piped
      <3>4. Inputs = run.kept \cup ((q + 1)..Piped) /\ run.kept \cap ((q + 1)..Piped) = {}
        BY <3>1, <1>1 DEF IInv, RunSound
      <3>5. Cardinality(Inputs) = Cardinality(run.kept) + (Piped - q)
        <4>1. run.kept \subseteq Names /\ q \in Cursors /\ q <= Piped
          BY <1>2, <3>1, <3>2 DEF RunType
        <4>2. QED
          BY <3>2, <3>4, <4>1, StretchSize
      <3>6. (Piped + 1)..Piped = {} /\ Piped \in b..Piped
        BY <3>1, <3>2
      <3>7. run.folded \cup (Inputs \ {Timeout}) \subseteq Upto(run.orig) \cup ((b + 1)..Piped)
        <4>1. (b + 1)..q \subseteq (b + 1)..Piped /\ (q + 1)..Piped \subseteq (b + 1)..Piped
          BY <3>1, <3>2
        <4>2. QED
          BY <4>1, <3>1, <3>4
      <3>8. Cardinality(run.kept) \in Nat
        BY <1>2, NamesFinite DEF RunType
      <3>9. Inputs' \ run'.kept = (Piped + 1)..Piped
        BY <3>6, <1>3, <1>s
      <3>10. Cardinality(run'.kept) = Cardinality(run.kept) + (Piped - q)
        BY <3>5, <1>3
      <3>11. run'.folded \cup (run'.kept \ {Timeout}) \subseteq Upto(run'.orig) \cup ((b + 1)..Piped)
        BY <3>7, <1>3
      <3>12. Piped - Piped <= L /\ L <= (Piped - Piped) + Cardinality(run'.kept)
        BY <3>1, <3>2, <3>8, <3>10
      <3> HIDE DEF b, L
      <3>13. QED
        BY <3>1, <3>3, <3>6, <3>9, <3>11, <3>12, <1>3 DEF WindowSound
    <2>3. ~run.active => WindowSound'
      BY <1>3 DEF WindowSound
    <2>4. QED
      BY <2>1, <2>2, <2>3, <1>1 DEF NoThrow
  <1>12. QED
    BY <1>4, <1>5, <1>6, <1>7, <1>8, <1>9, <1>10, <1>11 DEF IInv

\* While the model runs a continuation its record says so, and nothing is answered.
LEMMA AtModel ==
  ASSUME IInv, pc = "model"
  PROVE  /\ Free /\ run.kept \subseteq Inputs /\ (run.active <=> Timeout \in Inputs)
         /\ (run.active <=> Timeout \in run.kept)
         /\ Timeout \in Inputs => ~Answering /\ answered = {} /\ record.st = "running"
         /\ run.prompt \cap Excluded = {}
         /\ run.prompt # {} /\ run.prompt \subseteq Upto(run.orig) /\ run.orig <= run.target
         /\ run.active => record.batch \subseteq Upto(run.orig)
  BY DEF IInv, RunSound, RecordSound, BatchFresh, AtWork

\* The next message gets a file of its own in a run that is under way.
LEMMA PipeKept ==
  ASSUME IInv, Pipe  PROVE IInv'
  <1> DEFINE m == Piped + 1
  <1>1. /\ Free /\ pc = "model" /\ Piped < arrived
        /\ file' = [file EXCEPT ![m] = "input"]
        /\ run' = [run EXCEPT !.window = Append(run.window, m)]
        /\ UNCHANGED <<arrived, cursor, record, receipts, retired, pc, todo, ghostVars>>
    BY DEF Pipe
  <1>2. /\ run \in RunType /\ run.window \in Seq(Messages) /\ file \in [Names -> Modes]
        /\ Piped \in Cursors /\ cursor <= Piped /\ run.target <= Piped
        /\ cursor \in Cursors /\ run.target \in Cursors /\ run.orig \in Cursors
        /\ run.kept \subseteq Names
    BY StoreTyped DEF IInv, TypeOK, RunType
  <1>3. m \in Messages /\ m # Timeout /\ m \in Names
    BY <1>1, <1>2 DEF IInv, TypeOK
  <1>4. /\ run' \in RunType /\ run'.window = Append(run.window, m) /\ run'.kept = run.kept
        /\ run'.prompt = run.prompt /\ run'.target = run.target /\ run'.orig = run.orig
        /\ run'.folded = run.folded /\ run'.active = run.active
    <2> DEFINE w == Append(run.window, m)
    <2>1. w \in Seq(Messages)
      BY <1>2, <1>3
    <2> HIDE DEF w
    <2>2. run' = [run EXCEPT !.window = w]
      BY <1>1 DEF w
    <2>3. QED
      BY <1>2, <2>1, <2>2 DEF RunType, w
  <1>a. run' \in RunType /\ run'.window = Append(run.window, m)
    BY <1>4
  <1> HIDE DEF m
  <1>5. /\ Inputs' = Inputs \cup {m} /\ InMode("confirmed")' \subseteq InMode("confirmed")
        /\ file'[Timeout] = file[Timeout] /\ (Timeout \in Inputs' <=> Timeout \in Inputs)
    BY <1>1, <1>2, <1>3 DEF Inputs, InMode
  <1>6. /\ Answering' = Answering /\ \A S : Sources(S)' = Sources(S)
    <2>1. \A n : Source(n)' = Source(n)
      BY <1>1 DEF Source
    <2>2. QED
      BY <2>1, <1>1 DEF Sources, Answering
  <1>7. Excluded' \subseteq Excluded
    <2>1. Sources(InMode("confirmed"))' \subseteq Sources(InMode("confirmed"))
      <3>1. \A n : Source(n)' = Source(n)
        BY <1>1 DEF Source
      <3>2. QED
        BY <3>1, <1>5 DEF Sources
    <2>2. QED
      BY <2>1, <1>1 DEF Excluded
  <1>f. Writes(todo) = {} /\ Dos(todo) = {}
    BY <1>1, WhenFree
  <1>8. TypeOK'
    <2>1. file' \in [Names -> Modes]
      BY <1>1, <1>2, <1>3 DEF Modes
    <2>2. QED
      BY <2>1, <1>1, <1>a, <1>5 DEF IInv, TypeOK
  <1>9. RecordSound'
    BY <1>1, <1>6 DEF IInv, RecordSound
  <1>10. WritesSound'
    BY <1>1, <1>f, <1>6 DEF IInv, WritesSound
  <1>11. RunSound'
    BY <1>1, <1>4, <1>5, <1>6, AtModel DEF IInv, RunSound, AtWork, Free
  <1>12. TakenUp'
    BY <1>1 DEF TakenUp
  <1>13. BatchFresh'
    <2>1. run'.prompt \cap Excluded' = {}
      BY <1>1, <1>4, <1>7, AtModel
    <2>2. record.st = "pending" => Timeout \notin Inputs
      BY <1>1, AtModel
    <2>3. QED
      BY <2>1, <2>2, <1>1, <1>4, <1>5, <1>f, AtModel DEF BatchFresh, AtWork
  <1>14. BatchPassed'
    <2>1. Untouched' = Untouched /\ SetAside' = SetAside /\ Passing(record.batch)' = Passing(record.batch)
      BY <1>1, <1>f, <1>5 DEF Untouched, SetAside, Passing
    <2>2. QED
      BY <2>1, <1>1 DEF IInv, BatchPassed
  <1>15. NoThrow'
    <2>1. ASSUME throws = 0 PROVE AnsweredSound'
      <3>1. AnsweredSound
        BY <2>1 DEF IInv, NoThrow
      <3>2. Past' = Past /\ ~Removing'
        BY <1>1, <1>f DEF Past, Removing
      <3>3. m \notin answered
        <4>1. CASE ~Answering
          BY <4>1 DEF IInv, RecordSound
        <4>2. CASE Answering
          <5>1. Past /\ answered \subseteq Upto(record.through)
            BY <4>2, <3>1, <1>1, AtModel DEF AnsweredSound
          <5>2. record.through \in Cursors
            BY DEF IInv, TypeOK, RecordType
          <5>3. m \notin Upto(record.through)
            BY <5>1, <5>2, <1>2 DEF Past, m
          <5>4. QED
            BY <5>1, <5>3
        <4>3. QED
          BY <4>1, <4>2
      <3>4. answered' \cap Inputs' = answered \cap Inputs
        BY <3>3, <1>1, <1>5
      <3>5. Closed' = Closed
        BY <3>4, <1>1 DEF Closed
      <3>6. InMode("confirmed")' = {}
        BY <3>1, <1>5 DEF AnsweredSound
      <3>7. QED
        BY <3>1, <3>2, <3>4, <3>5, <3>6, <1>1, <1>f, <1>5, <1>6 DEF AnsweredSound
    <2>2. ASSUME throws = 0, run.active PROVE WindowSound'
      <3> DEFINE b == Larger(cursor, run.orig)
                 L == Len(run.window)
                 n == Cardinality(run.kept)
                 v == run'.window
      <3>1. PICK q \in b..Piped :
              /\ \A i \in 1..L : run.window[i] = Piped - L + i
              /\ Inputs \ run.kept = (q + 1)..Piped
              /\ Piped - q <= L /\ L <= (Piped - q) + n /\ L <= Piped - b
              /\ run.folded \cup (run.kept \ {Timeout}) \subseteq Upto(run.orig) \cup ((b + 1)..q)
              /\ Piped - L > b => run.target >= Piped - L
        BY <1>1, <2>2 DEF IInv, NoThrow, WindowSound
      <3>2. L \in Nat /\ n \in Nat /\ b \in Cursors /\ b >= run.orig
        BY <1>2, NamesFinite DEF Larger
      <3>3. /\ Len(v) = L + 1 /\ v # <<>> /\ v[L + 1] = m /\ \A i \in 1..L : v[i] = run.window[i]
        <4> DEFINE u == run.window
        <4>1. u \in Seq(Messages) /\ v = Append(u, m)
          BY <1>2, <1>4
        <4> HIDE DEF u, v
        <4>2. Len(v) = Len(u) + 1 /\ v[Len(u) + 1] = m /\ \A i \in 1..Len(u) : v[i] = u[i]
          BY <4>1, <1>3
        <4>3. v # <<>>
          BY <4>1, <1>3
        <4>4. QED
          BY <4>2, <4>3 DEF u
      <3>4. Piped' = m
        <4>1. Piped' = Larger(Larger(cursor, run.target), m)
          BY <3>3, <1>1, <1>4 DEF Piped
        <4>2. QED
          BY <4>1, <1>2 DEF Larger, m
      <3>5. Larger(cursor, run.orig)' = b
        BY <1>1, <1>4
      <3> HIDE DEF b, L, n, v
      <3>6. \A i \in 1..(L + 1) : v[i] = m - (L + 1) + i
        <4> TAKE i \in 1..(L + 1)
        <4>1. CASE i = L + 1
          BY <4>1, <3>2, <3>3, <1>2 DEF m
        <4>2. CASE i # L + 1
          <5>1. i \in 1..L
            BY <4>2, <3>2
          <5>2. v[i] = Piped - L + i
            BY <5>1, <3>1, <3>3
          <5>3. QED
            BY <5>1, <5>2, <3>2, <1>2 DEF m
        <4>3. QED
          BY <4>1, <4>2
      <3>7. m \notin run.kept
        <4>1. m \notin Upto(run.orig) \cup ((b + 1)..q)
          BY <3>1, <3>2, <1>2 DEF m
        <4>2. QED
          BY <4>1, <3>1, <1>3
      <3>8. Inputs' \ run'.kept = (q + 1)..m
        <4>1. (q + 1)..m = ((q + 1)..Piped) \cup {m}
          BY <3>1, <3>2, <1>2 DEF m
        <4>2. QED
          BY <4>1, <3>1, <3>7, <1>4, <1>5
      <3>9. /\ q \in b..m /\ m - q <= L + 1 /\ L + 1 <= (m - q) + n /\ L + 1 <= m - b
            /\ m - (L + 1) = Piped - L
        BY <3>1, <3>2, <1>2 DEF m
      <3>10. Len(run'.window) = L + 1 /\ Cardinality(run'.kept) = n /\ run'.window = v
        BY <3>3, <1>4 DEF v, n
      <3>11. run'.folded \cup (run'.kept \ {Timeout}) \subseteq Upto(run'.orig) \cup ((b + 1)..q)
        BY <3>1, <1>4
      <3>12. m - (L + 1) > b => run'.target >= m - (L + 1)
        BY <3>1, <3>9, <1>4
      <3>13. QED
        BY <3>4, <3>5, <3>6, <3>8, <3>9, <3>10, <3>11, <3>12 DEF WindowSound
    <2>3. ~run.active => WindowSound'
      BY <1>4 DEF WindowSound
    <2>4. QED
      BY <2>1, <2>2, <2>3, <1>1 DEF NoThrow
  <1>16. QED
    BY <1>8, <1>9, <1>10, <1>11, <1>12, <1>13, <1>14, <1>15 DEF IInv

\* The files that wait are folded into the turn: the window loses as many messages,
\* and the answer to come covers them.
LEMMA AbsorbKept ==
  ASSUME IInv, Absorb  PROVE IInv'
  <1> DEFINE W == Inputs \ run.kept
             n == Cardinality(W)
             c == Covering(run, n)
  <1>1. /\ Free /\ pc = "model" /\ W # {}
        /\ file' = [x \in Names |-> IF x \in W THEN "none" ELSE file[x]]
        /\ run' = [c EXCEPT !.folded = c.folded \cup W]
        /\ UNCHANGED <<arrived, cursor, record, receipts, retired, pc, todo, ghostVars>>
    BY DEF Absorb
  <1>2. /\ run \in RunType /\ file \in [Names -> Modes]
        /\ Piped \in Cursors /\ cursor <= Piped /\ run.target <= Piped
        /\ cursor \in Cursors /\ run.target \in Cursors /\ run.orig \in Cursors
        /\ run.kept \subseteq Names /\ Inputs \subseteq Names
    BY StoreTyped DEF IInv, TypeOK, RunType
  <1>3. W \subseteq Messages /\ Timeout \notin W
    BY <1>1, <1>2, AtModel
  <1>4. n \in Nat
    BY <1>2, NamesFinite
  <1>5. LET L == Len(run.window)
            k == Smaller(n, L) IN
        /\ c \in RunType
        /\ c.prompt = run.prompt /\ c.orig = run.orig /\ c.kept = run.kept /\ c.folded = run.folded
        /\ c.active = run.active /\ c.recovered = run.recovered
        /\ L \in Nat /\ k \in 0..L
        /\ c.target = (IF k = 0 THEN run.target ELSE Larger(run.target, run.window[k]))
        /\ run.target <= c.target
        /\ Len(c.window) = L - k
        /\ \A i \in 1..(L - k) : c.window[i] = run.window[k + i]
    BY <1>2, <1>4, CoveringFacts
  <1>6. /\ run' \in RunType /\ run'.window = c.window /\ run'.kept = run.kept
        /\ run'.prompt = run.prompt /\ run'.target = c.target /\ run'.orig = run.orig
        /\ run'.folded = run.folded \cup W /\ run'.active = run.active
    <2> HIDE DEF c, W
    <2>1. c.folded \cup W \in SUBSET Messages
      BY <1>3, <1>5 DEF RunType
    <2>2. QED
      BY <2>1, <1>1, <1>5 DEF RunType
  <1> HIDE DEF c
  <1>7. c.target \in Cursors /\ run.orig <= c.target
    BY <1>1, <1>2, <1>5, AtModel DEF RunType
  <1>8. /\ Inputs' = run.kept /\ InMode("confirmed")' = InMode("confirmed")
        /\ file'[Timeout] = file[Timeout] /\ (Timeout \in Inputs' <=> Timeout \in Inputs)
    <2>1. \A x \in W : file[x] = "input" /\ file'[x] = "none"
      BY <1>1, <1>2 DEF Inputs
    <2>2. \A x \in Names \ W : file'[x] = file[x]
      BY <1>1
    <2>3. Inputs' = Inputs \ W /\ InMode("confirmed")' = InMode("confirmed")
      BY <2>1, <2>2 DEF Inputs, InMode
    <2>4. run.kept \subseteq Inputs
      BY <1>1, AtModel
    <2>5. QED
      BY <2>2, <2>3, <2>4, <1>3
  <1>9. /\ Answering' = Answering /\ \A S : Sources(S)' = Sources(S)
    <2>1. \A x : Source(x)' = Source(x)
      BY <1>1 DEF Source
    <2>2. QED
      BY <2>1, <1>1 DEF Sources, Answering
  <1>10. Excluded' = Excluded
    <2>1. Sources(InMode("confirmed"))' = Sources(InMode("confirmed"))
      <3>1. \A x : Source(x)' = Source(x)
        BY <1>1 DEF Source
      <3>2. QED
        BY <3>1, <1>8 DEF Sources
    <2>2. QED
      BY <2>1, <1>1 DEF Excluded
  <1>f. Writes(todo) = {} /\ Dos(todo) = {}
    BY <1>1, WhenFree
  <1>11. TypeOK'
    <2>1. file' \in [Names -> Modes]
      BY <1>1, <1>2 DEF Modes
    <2>2. QED
      BY <2>1, <1>1, <1>6, <1>8 DEF IInv, TypeOK
  <1>12. RecordSound'
    BY <1>1, <1>9 DEF IInv, RecordSound
  <1>13. WritesSound'
    BY <1>1, <1>f, <1>9 DEF IInv, WritesSound
  <1>14. RunSound'
    BY <1>1, <1>6, <1>7, <1>8, <1>9, AtModel DEF IInv, RunSound, AtWork, Free
  <1>15. TakenUp'
    BY <1>1 DEF TakenUp
  <1>16. BatchFresh'
    <2>1. record.st = "pending" => Timeout \notin Inputs
      BY <1>1, AtModel
    <2>2. QED
      BY <2>1, <1>1, <1>6, <1>8, <1>10, <1>f, AtModel DEF BatchFresh, AtWork
  <1>17. BatchPassed'
    <2>1. Untouched' = Untouched /\ SetAside' = SetAside /\ Passing(record.batch)' = Passing(record.batch)
      BY <1>1, <1>f, <1>8 DEF Untouched, SetAside, Passing
    <2>2. QED
      BY <2>1, <1>1 DEF IInv, BatchPassed
  <1>18. NoThrow'
    <2>1. ASSUME throws = 0 PROVE AnsweredSound'
      <3>1. AnsweredSound
        BY <2>1 DEF IInv, NoThrow
      <3>2. Past' = Past /\ ~Removing'
        BY <1>1, <1>f DEF Past, Removing
      <3>3. answered' \cap Inputs' \subseteq answered \cap Inputs
        BY <1>1, <1>8, AtModel
      <3>4. Closed => Closed'
        BY <3>3, <1>1 DEF Closed
      <3>5. QED
        BY <3>1, <3>2, <3>3, <3>4, <1>1, <1>f, <1>8, <1>9 DEF AnsweredSound
    <2>2. ASSUME throws = 0, run.active PROVE WindowSound'
      <3> DEFINE b == Larger(cursor, run.orig)
                 L == Len(run.window)
                 h == Cardinality(run.kept)
                 k == Smaller(n, L)
                 v == c.window
      <3>1. PICK q \in b..Piped :
              /\ \A i \in 1..L : run.window[i] = Piped - L + i
              /\ W = (q + 1)..Piped
              /\ Piped - q <= L /\ L <= (Piped - q) + h /\ L <= Piped - b
              /\ run.folded \cup (run.kept \ {Timeout}) \subseteq Upto(run.orig) \cup ((b + 1)..q)
              /\ Piped - L > b => run.target >= Piped - L
        BY <1>1, <2>2 DEF IInv, NoThrow, WindowSound
      <3>2. L \in Nat /\ h \in Nat /\ b \in Cursors /\ b >= run.orig /\ q \in Cursors /\ q <= Piped
        BY <1>2, <1>5, <3>1, NamesFinite DEF Larger
      <3>3. n = Piped - q
        <4>1. {} \subseteq Names
          OBVIOUS
        <4>2. QED
          BY <3>1, <3>2, <4>1, <1>2, StretchSize
      <3>4. q < Piped
        <4>1. \E x : x \in (q + 1)..Piped
          BY <3>1, <1>1
        <4>2. QED
          BY <4>1, <3>2, <1>2
      <3>5. k = Piped - q /\ k \in 1..L
        <4>1. k = Smaller(Piped - q, L)
          BY <3>3
        <4> HIDE DEF k, n, L
        <4>2. Piped - q <= L
          BY <3>1
        <4>3. QED
          BY <4>1, <4>2, <3>2, <3>4, <1>2 DEF Smaller
      <3>6. /\ Len(v) = L - k /\ \A i \in 1..(L - k) : v[i] = run.window[k + i]
            /\ c.target = (IF k = 0 THEN run.target ELSE Larger(run.target, run.window[k]))
        BY <1>5
      <3>7. Larger(cursor, run.orig)' = b /\ v \in Seq(Messages)
        BY <1>1, <1>5, <1>6 DEF RunType
      <3> HIDE DEF b, L, h, k, n, v, W
      <3>8. \A i \in 1..(L - k) : v[i] = Piped - (L - k) + i
        <4> TAKE i \in 1..(L - k)
        <4>1. k + i \in 1..L
          BY <3>2, <3>5
        <4>2. v[i] = Piped - L + (k + i)
          BY <4>1, <3>1, <3>6
        <4>3. QED
          BY <4>2, <3>2, <3>5, <1>2
      <3>9. /\ c.target = Larger(run.target, Piped - (L - k))
            /\ c.target >= Piped - (L - k) /\ c.target <= Piped
        <4>1. run.window[k] = Piped - L + k
          BY <3>1, <3>5
        <4>2. Piped - L + k = Piped - (L - k)
          BY <3>2, <3>5, <1>2
        <4>3. c.target = Larger(run.target, Piped - (L - k))
          BY <3>5, <3>6, <4>1, <4>2
        <4>4. QED
          BY <4>3, <3>2, <3>5, <1>2 DEF Larger
      <3>10. Piped' = Piped
        <4>1. CASE v = <<>>
          <5>1. L - k = 0
            BY <4>1, <3>6
          <5>2. c.target = Piped
            BY <5>1, <3>2, <3>5, <3>9, <1>2, <1>7
          <5>3. Piped' = Larger(Larger(cursor, c.target), 0)
            BY <4>1, <1>1, <1>6 DEF Piped, v
          <5>4. QED
            BY <5>2, <5>3, <1>2 DEF Larger
        <4>2. CASE v # <<>>
          <5>1. Len(v) \in 1..(L - k)
            BY <4>2, <3>2, <3>5, <3>6, <3>7
          <5>2. v[Len(v)] = Piped
            BY <5>1, <3>2, <3>5, <3>6, <3>8, <1>2
          <5>3. Piped' = Larger(Larger(cursor, c.target), v[Len(v)])
            BY <4>2, <1>1, <1>6 DEF Piped, v
          <5>4. QED
            BY <5>2, <5>3, <3>9, <1>2, <1>7 DEF Larger
        <4>3. QED
          BY <4>1, <4>2
      <3>11. (Piped + 1)..Piped = {} /\ Piped \in b..Piped
        BY <3>1, <3>2, <1>2
      <3>12. Inputs' \ run'.kept = (Piped + 1)..Piped
        BY <3>11, <1>6, <1>8
      <3>13. run'.folded \cup (run'.kept \ {Timeout}) \subseteq Upto(run'.orig) \cup ((b + 1)..Piped)
        <4>1. (b + 1)..q \subseteq (b + 1)..Piped /\ (q + 1)..Piped \subseteq (b + 1)..Piped
          BY <3>1, <3>2, <1>2
        <4>2. QED
          BY <4>1, <3>1, <1>6
      <3>14. /\ Piped - Piped <= L - k /\ L - k <= (Piped - Piped) + h /\ L - k <= Piped - b
        BY <3>1, <3>2, <3>5, <1>2
      <3>15. Len(run'.window) = L - k /\ Cardinality(run'.kept) = h /\ run'.window = v
        BY <3>6, <1>6 DEF v, h
      <3>16. run'.target >= Piped - (L - k)
        BY <3>9, <1>6
      <3>17. QED
        BY <3>7, <3>8, <3>10, <3>11, <3>12, <3>13, <3>14, <3>15, <3>16 DEF WindowSound
    <2>3. ~run.active => WindowSound'
      BY <1>6 DEF WindowSound
    <2>4. QED
      BY <2>1, <2>2, <2>3, <1>1 DEF NoThrow
  <1>19. QED
    BY <1>11, <1>12, <1>13, <1>14, <1>15, <1>16, <1>17, <1>18 DEF IInv

-----------------------------------------------------------------------------
(* The writes, one after another                                           *)

\* What follows the first write, where it is none of those that carry a record on.
LEMMA AfterHead ==
  ASSUME IInv, todo # <<>>, Head(todo).do \notin Special
  PROVE  LET h == Head(todo)
             t == Tail(todo) IN
         /\ h \in WriteType /\ t \in Seq(WriteType)
         /\ h \in Writes(todo) /\ Writes(t) \subseteq Writes(todo)
         /\ \A w \in Writes(todo) : w = h \/ w \in Writes(t)
         /\ h.do \in Dos(todo) /\ Dos(t) \subseteq Dos(todo)
         /\ \A d \in Dos(todo) : d = h.do \/ d \in Dos(t)
         /\ \A d \in Dos(t) : <<h.do, d>> \notin Wrong
         /\ OrderedBy(t, Wrong)
         /\ \A V : OrderedBy(todo, V) =>
                     OrderedBy(t, V) /\ \A d \in Dos(t) : <<h.do, d>> \notin V
         /\ Dos(todo) \cap Special = {}
         /\ pc \notin {"claim", "launch", "model", "send", "resend"}
         /\ pc = "stopping" => h.do = "cursor"
  <1> DEFINE h == Head(todo)
             t == Tail(todo)
  <1>1. todo \in Seq(WriteType) /\ OrderedBy(todo, Wrong)
    BY DEF IInv, TypeOK, WritesSound
  <1>2. /\ h \in WriteType /\ t \in Seq(WriteType)
        /\ \A w : w \in Writes(todo) <=> w = h \/ w \in Writes(t)
        /\ \A d : d \in Dos(todo) <=> d = h.do \/ d \in Dos(t)
        /\ \A V : OrderedBy(todo, V) => OrderedBy(t, V) /\ \A d \in Dos(t) : <<h.do, d>> \notin V
    BY <1>1, Popped
  <1>3. ~Staging /\ ~Exposing /\ ~Claiming /\ ~Caching
    <2>1. /\ \A to, S : Write("pending", to, S).do = "pending"
          /\ \A to, S : Write("delivery", to, S).do = "delivery"
          /\ Set("expose").do = "expose" /\ Set("running").do = "running"
      BY DEF Write, Set
    <2>2. ~Staging
      BY <2>1 DEF Staging, Special
    <2>3. ~Exposing
      BY <2>1 DEF Exposing, Special
    <2>4. ~Claiming
      BY <2>1 DEF Claiming, Special
    <2>5. ~Caching
      BY <2>1 DEF Caching, Special
    <2>6. QED
      BY <2>2, <2>3, <2>4, <2>5
  <1>4. Dos(todo) \cap Special = {}
    BY <1>3 DEF IInv, WritesSound
  <1>5. pc \notin {"claim", "launch", "model", "send", "resend"}
    BY <1>3 DEF IInv, RunSound, Free
  <1>6. pc = "stopping" => h.do = "cursor"
    BY <1>2 DEF IInv, RunSound
  <1> HIDE DEF h, t
  <1>7. QED
    BY <1>1, <1>2, <1>4, <1>5, <1>6 DEF h, t

\* A write of a row that is neither a request, its claim nor its answer.
LEMMA SaveKept ==
  ASSUME IInv, todo # <<>>, todo' = Tail(todo),
         Head(todo).do \notin Special \cup {"block", "supersede", "quarantine", "remove"},
         UNCHANGED <<arrived, file, pc, run, starts, answered, crashes, throws>>,
         TypeOK', RecordSound',
         record'.kept = record.kept, record'.covered = record.covered,
         record'.through = record.through, record'.batch = record.batch,
         \/ record'.st = record.st
         \/ Head(todo).do \in {"blocked", "completed"} /\ record'.st = Head(todo).do,
         Head(todo).do = "blocked" => record'.st = "blocked",
         cursor' >= cursor, Head(todo).do \in {"cursor", "confirm"} => cursor' >= Head(todo).to,
         receipts.names \subseteq receipts'.names, receipts.ids \subseteq receipts'.ids,
         retired \subseteq retired',
         Head(todo).do = "receipt" => Timeout \in receipts'.names,
         Head(todo).do = "retired" => record.covered \subseteq retired',
         Head(todo).do = "settle" /\ Timeout \in Inputs => Timeout \in receipts'.names,
         Excluded' \subseteq Excluded \/ Head(todo).do \in Excluding,
         Timeout \in receipts'.names =>
           \/ Timeout \in receipts.names \/ Head(todo).do = "receipt"
           \/ Head(todo).do \in {"settle", "acknowledge"} /\ Timeout \in Head(todo).set,
         throws = 0 /\ Head(todo).do \in {"receipt", "settle"} => Closed',
         throws = 0 /\ Timeout \in receipts'.names => Timeout \in receipts.names \/ Closed'
  PROVE  IInv'
  <1> DEFINE h == Head(todo)
             t == Tail(todo)
  <1>a. /\ h \in WriteType /\ t \in Seq(WriteType)
        /\ h \in Writes(todo) /\ Writes(t) \subseteq Writes(todo)
        /\ \A w \in Writes(todo) : w = h \/ w \in Writes(t)
        /\ h.do \in Dos(todo) /\ Dos(t) \subseteq Dos(todo)
        /\ \A d \in Dos(todo) : d = h.do \/ d \in Dos(t)
        /\ \A d \in Dos(t) : <<h.do, d>> \notin Wrong
        /\ OrderedBy(t, Wrong)
        /\ \A V : OrderedBy(todo, V) =>
                    OrderedBy(t, V) /\ \A d \in Dos(t) : <<h.do, d>> \notin V
        /\ Dos(todo) \cap Special = {}
        /\ pc \notin {"claim", "launch", "model", "send", "resend"}
        /\ pc = "stopping" => h.do = "cursor"
    BY AfterHead
  <1>b. /\ h.do \notin Special \cup {"block", "supersede", "quarantine", "remove"}
        /\ record'.st = record.st \/ (h.do \in {"blocked", "completed"} /\ record'.st = h.do)
        /\ h.do = "blocked" => record'.st = "blocked"
        /\ cursor' >= cursor /\ (h.do \in {"cursor", "confirm"} => cursor' >= h.to)
        /\ h.do = "receipt" => Timeout \in receipts'.names
        /\ h.do = "retired" => record.covered \subseteq retired'
        /\ h.do = "settle" /\ Timeout \in Inputs => Timeout \in receipts'.names
        /\ Excluded' \subseteq Excluded \/ h.do \in Excluding
        /\ Timeout \in receipts'.names =>
             \/ Timeout \in receipts.names \/ h.do = "receipt"
             \/ h.do \in {"settle", "acknowledge"} /\ Timeout \in h.set
        /\ throws = 0 /\ h.do \in {"receipt", "settle"} => Closed'
        /\ todo' = t
    OBVIOUS
  <1> HIDE DEF h, t
  <1>s. /\ Inputs' = Inputs /\ InMode("confirmed")' = InMode("confirmed")
        /\ Answering' = Answering /\ \A S : Sources(S)' = Sources(S)
    <2>1. \A n : Source(n)' = Source(n)
      BY DEF Source
    <2>2. QED
      BY <2>1 DEF Inputs, InMode, Answering, Sources
  <1>w. WritesSound
    BY DEF IInv
  <1>c. cursor \in Cursors /\ cursor' \in Cursors /\ record.through \in Cursors /\ h.to \in Cursors
    BY <1>a DEF IInv, TypeOK, RecordType, WriteType
  <1>1. WritesSound'
    <2>1. record.st # "none" => record'.st # "none"
      BY <1>b
    <2>2. Dos(t) \cap {"completed", "receipt", "confirm"} # {} =>
            /\ Timeout \in Inputs
            /\ \E w \in Writes(t) : w.do = "acknowledge" /\ Timeout \in w.set
      <3>1. SUFFICES ASSUME NEW d \in Dos(t), d \in {"completed", "receipt", "confirm"}
                     PROVE  /\ Timeout \in Inputs
                            /\ \E w \in Writes(t) : w.do = "acknowledge" /\ Timeout \in w.set
        OBVIOUS
      <3>2. PICK w \in Writes(todo) : w.do = "acknowledge" /\ Timeout \in w.set
        BY <3>1, <1>a, <1>w DEF WritesSound
      <3>3. h.do # "acknowledge"
        BY <3>1, <1>a DEF Wrong, Booking
      <3>4. w \in Writes(t)
        BY <3>2, <3>3, <1>a
      <3>5. QED
        BY <3>1, <3>2, <3>4, <1>a, <1>w DEF WritesSound
    <2>3. Dos(t) \cap Booking # {} => /\ Dos(t) \subseteq Booking \cup {"remove", "cursor"}
                                      /\ OrderedBy(t, Lasting)
      BY <1>a, <1>w DEF WritesSound
    <2>4. QED
      BY <2>1, <2>2, <2>3, <1>a, <1>b, <1>s, <1>w DEF WritesSound
  <1>2. RunSound'
    BY <1>a, <1>b, <1>s DEF IInv, RunSound, AtWork
  <1>3. TakenUp'
    <2>1. SUFFICES ASSUME pc \in {"notices", "clean", "collect"}, Timeout \in Inputs
                   PROVE  \/ record'.st = "pending" \/ Timeout \in receipts'.names
                          \/ "receipt" \in Dos(t)
                          \/ \E w \in Writes(t) :
                               w.do \in {"block", "quarantine", "settle"} /\ Timeout \in w.set
      BY <1>b, <1>s DEF TakenUp
    <2>2. CASE record.st = "pending"
      <3>1. h.do # "completed"
        BY <2>2, <1>a, <1>w DEF WritesSound, IInv, RecordSound
      <3>2. h.do # "blocked"
        BY <2>1, <2>2, <1>a DEF IInv, RunSound
      <3>3. QED
        BY <2>2, <3>1, <3>2, <1>b
    <2>3. CASE Timeout \in receipts.names
      BY <2>3
    <2>4. CASE "receipt" \in Dos(todo)
      BY <2>4, <1>a, <1>b
    <2>5. CASE \E w \in Writes(todo) : w.do \in {"block", "quarantine", "settle"} /\ Timeout \in w.set
      BY <2>1, <2>5, <1>a, <1>b
    <2>6. QED
      BY <2>1, <2>2, <2>3, <2>4, <2>5 DEF IInv, TakenUp
  <1>4. BatchFresh'
    <2>1. ASSUME record'.st = "pending", Timeout \in Inputs \/ "expose" \in Dos(t)
          PROVE  record.batch \cap Excluded' = {} /\ Dos(t) \cap Excluding = {}
      <3>1. record.st = "pending"
        BY <2>1, <1>b
      <3>2. record.batch \cap Excluded = {} /\ Dos(todo) \cap Excluding = {}
        BY <2>1, <3>1, <1>a DEF IInv, BatchFresh
      <3>3. QED
        BY <3>2, <1>a, <1>b
    <2>2. "pending" \notin Dos(t)
      BY <1>a DEF Special
    <2>3. QED
      BY <2>1, <2>2, <1>a, <1>b, <1>s DEF IInv, BatchFresh
  <1>5. BatchPassed'
    <2>1. ASSUME Untouched PROVE Untouched'
      <3>1. h.do # "receipt"
        <4>1. "receipt" \in Dos(todo) =>
                \E w \in Writes(todo) : w.do = "acknowledge" /\ Timeout \in w.set
          BY <1>w DEF WritesSound
        <4>2. QED
          BY <2>1, <4>1, <1>a DEF Untouched
      <3>2. ~(h.do \in {"settle", "acknowledge"} /\ Timeout \in h.set)
        BY <2>1, <1>a DEF Untouched
      <3>3. Timeout \notin receipts'.names
        BY <2>1, <3>1, <3>2, <1>b DEF Untouched
      <3>4. QED
        BY <2>1, <3>3, <1>a, <1>b, <1>s DEF Untouched
    <2>2. SetAside => SetAside'
      BY <1>a, <1>b, <1>s DEF SetAside
    <2>3. Passing(record.batch) => Passing(record.batch)'
      <3>1. ASSUME NEW n \in Cursors, record.batch \subseteq Upto(n), n <= cursor'
            PROVE  record.batch \subseteq Upto(cursor')
        BY <3>1, <1>c
      <3>2. ASSUME record.batch \subseteq Upto(cursor)  PROVE Passing(record.batch)'
        BY <3>1, <3>2, <1>b, <1>c DEF Passing
      <3>3. ASSUME NEW w \in Writes(todo), w.do \in {"cursor", "confirm"},
                   record.batch \subseteq Upto(w.to)
            PROVE  Passing(record.batch)'
        <4>1. CASE w = h
          BY <3>1, <3>3, <4>1, <1>b, <1>c DEF Passing
        <4>2. CASE w \in Writes(t)
          BY <3>3, <4>2, <1>b DEF Passing
        <4>3. QED
          BY <4>1, <4>2, <1>a
      <3>4. QED
        BY <3>2, <3>3 DEF Passing
    <2>4. QED
      BY <2>1, <2>2, <2>3 DEF IInv, BatchPassed
  <1>6. ASSUME throws = 0 PROVE AnsweredSound'
    <2>1. AnsweredSound
      BY <1>6 DEF IInv, NoThrow
    <2>2. (Past => Past') /\ (Closed => Closed')
      BY <1>b, <1>c, <1>s DEF Past, Closed
    <2>3. /\ Moves("cursor") => Moves("cursor")' \/ (h.do = "cursor" /\ Past')
          /\ Moves("confirm") => Moves("confirm")' \/ (h.do = "confirm" /\ Past')
      <3>1. ASSUME NEW w \in Writes(todo), w.do \in {"cursor", "confirm"}, w.to >= record.through
            PROVE  \/ w \in Writes(todo') /\ w.to >= record'.through
                   \/ w = h /\ Past'
        <4>1. CASE w = h
          BY <3>1, <4>1, <1>b, <1>c DEF Past
        <4>2. CASE w \in Writes(t)
          BY <3>1, <4>2, <1>b
        <4>3. QED
          BY <4>1, <4>2, <1>a
      <3>2. QED
        BY <3>1 DEF Moves
    <2>4. Removing' => Removing
      BY <1>a, <1>b DEF Removing
    <2>5. Timeout \in receipts'.names => Closed'
      BY <1>6, <2>1, <2>2 DEF AnsweredSound
    <2>6. Answering /\ "blocked" \in Dos(t) /\ "retired" \notin Dos(t)
            => record.covered \subseteq retired'
      BY <2>1, <1>a, <1>b DEF AnsweredSound
    <2>7. Answering /\ record'.st = "blocked" => record.covered \subseteq retired' /\ Past'
      <3>1. CASE record.st = "blocked"
        BY <2>1, <2>2, <3>1 DEF AnsweredSound
      <3>2. CASE h.do = "blocked"
        <4>1. "retired" \notin Dos(todo)
          BY <3>2, <1>a DEF Wrong
        <4>2. Answering => record.covered \subseteq retired
          BY <2>1, <3>2, <4>1, <1>a DEF AnsweredSound
        <4>3. Moves("cursor") => ~OrderedBy(todo, Late)
          <5>1. SUFFICES ASSUME Moves("cursor"), OrderedBy(todo, Late) PROVE FALSE
            OBVIOUS
          <5>2. "cursor" \in Dos(t)
            BY <5>1, <3>2, <1>a DEF Moves, Dos
          <5>3. QED
            BY <5>1, <5>2, <3>2, <1>a DEF Late
        <4>4. Answering => Past
          BY <2>1, <3>2, <4>3, <1>a DEF AnsweredSound
        <4>5. QED
          BY <4>2, <4>4, <2>2
      <3>3. QED
        BY <3>1, <3>2, <1>b
    <2>8. Answering /\ "block" \in Dos(t) /\ "blocked" \notin Dos(t) => record'.st = "blocked"
      <3>1. "block" \in Dos(t) => h.do # "completed"
        BY <1>a, <1>w DEF WritesSound, Booking
      <3>2. QED
        BY <2>1, <3>1, <1>a, <1>b DEF AnsweredSound
    <2>9. Answering /\ Timeout \in Inputs /\ "blocked" \in Dos(t)
            => Past' \/ (Moves("cursor")' /\ OrderedBy(t, Late))
      BY <2>1, <2>2, <2>3, <1>a DEF AnsweredSound
    <2>10. Answering /\ Removing' /\ Dos(t) \cap {"receipt", "settle"} = {} => Closed'
      BY <1>6, <2>1, <2>2, <2>4, <1>a, <1>b DEF AnsweredSound
    <2>11. Answering /\ Removing' /\ Timeout \in Inputs =>
             Past' \/ Moves("confirm")' \/ ("settle" \in Dos(t) /\ Moves("cursor")')
      <3>1. h.do = "settle" => ~Moves("cursor")
        <4>1. h.do = "settle" => "cursor" \notin Dos(todo)
          BY <1>a DEF Wrong
        <4>2. QED
          BY <4>1 DEF Moves, Dos
      <3>2. QED
        BY <2>1, <2>2, <2>3, <2>4, <3>1, <1>a DEF AnsweredSound
    <2>12. Answering /\ Timeout \in Inputs /\ pc \in {"notices", "clean", "collect"}
             => Past' \/ Moves("confirm")' \/ Moves("cursor")'
      BY <2>1, <2>2, <2>3 DEF AnsweredSound
    <2>13. "quarantine" \notin Dos(t) /\ "delivery" \notin Dos(t)
      BY <2>1, <1>a DEF AnsweredSound, Special
    <2>14. QED
      BY <2>1, <2>2, <2>5, <2>6, <2>7, <2>8, <2>9, <2>10, <2>11, <2>12, <2>13, <1>a, <1>b, <1>s
         DEF AnsweredSound
  <1>7. NoThrow'
    <2>1. WindowSound'
      BY <1>a DEF WindowSound
    <2>2. QED
      BY <1>6, <2>1 DEF NoThrow
  <1>8. QED
    BY <1>1, <1>2, <1>3, <1>4, <1>5, <1>7 DEF IInv

LEMMA SameSources ==
  ASSUME record'.batch = record.batch
  PROVE  \A S : Sources(S)' = Sources(S)
  <1>1. \A n : Source(n)' = Source(n)
    BY DEF Source
  <1>2. QED
    BY <1>1 DEF Sources

\* Answered inputs other than the continuation's file are covered by the record.
LEMMA KeptCovered ==
  ASSUME IInv, Answering, throws = 0
  PROVE  /\ answered \cap Inputs \subseteq record.kept \ {Timeout}
         /\ record.kept \ {Timeout} \subseteq record.covered
  <1>1. answered \cap Inputs \subseteq record.kept
    BY DEF IInv, NoThrow, AnsweredSound
  <1>2. Timeout \notin answered
    BY DEF IInv, TypeOK
  <1>3. ASSUME NEW n \in record.kept, n # Timeout PROVE n \in record.covered
    <2>1. n \in Sources(record.kept)
      BY <1>3 DEF Sources, Source
    <2>2. QED
      BY <2>1 DEF IInv, RecordSound
  <1>4. QED
    BY <1>1, <1>2, <1>3

LEMMA StateKept ==
  ASSUME IInv, SaveRecord, Head(todo).do \in {"completed", "blocked", "noticed"}
  PROVE  IInv'
  <1> DEFINE h == Head(todo)
  <1>1. /\ todo # <<>> /\ todo' = Tail(todo) /\ h.do \in {"completed", "blocked", "noticed"}
        /\ UNCHANGED <<arrived, cursor, receipts, retired, file, pc, run, starts, crashes, throws>>
    BY DEF SaveRecord, NextWrite
  <1>2. answered' = answered
    BY DEF SaveRecord
  <1>3. h.do \notin Special /\ h.do \notin Excluding
    BY <1>1 DEF Special, Excluding
  <1>a. h \in WriteType /\ Tail(todo) \in Seq(WriteType) /\ h.do \in Dos(todo)
    BY <1>1, <1>3, AfterHead
  <1>4. \/ h.do = "noticed" /\ record' = [record EXCEPT !.noticed = TRUE]
        \/ h.do # "noticed" /\ record' = [record EXCEPT !.st = h.do]
    BY <1>1 DEF SaveRecord
  <1>5. record \in RecordType
    BY DEF IInv, TypeOK
  <1>6. /\ record' \in RecordType /\ record'.kept = record.kept /\ record'.batch = record.batch
        /\ record'.covered = record.covered /\ record'.through = record.through
        /\ record'.st = (IF h.do = "noticed" THEN record.st ELSE h.do)
    <2>1. h.do # "noticed" => h.do \in States
      BY <1>1 DEF States
    <2>2. CASE h.do = "noticed"
      BY <2>2, <1>4, <1>5 DEF RecordType
    <2>3. CASE h.do # "noticed"
      <3> DEFINE d == h.do
      <3>1. record' = [record EXCEPT !.st = d] /\ d \in States
        BY <2>1, <2>3, <1>4
      <3> HIDE DEF d, h
      <3>2. record' \in RecordType /\ record'.kept = record.kept /\ record'.batch = record.batch
            /\ record'.covered = record.covered /\ record'.through = record.through
            /\ record'.st = d
        BY <3>1, <1>5 DEF RecordType
      <3>3. QED
        BY <3>2, <2>3 DEF d
    <2>4. QED
      BY <2>2, <2>3
  <1>7. record.st # "none" /\ (h.do = "completed" => Answering)
    BY <1>1, <1>a DEF IInv, WritesSound
  <1> HIDE DEF h
  <1>8. TypeOK'
    BY <1>1, <1>2, <1>a, <1>6, <1>7 DEF IInv, TypeOK
  <1>s. /\ Answering' = Answering /\ \A S : Sources(S)' = Sources(S)
        /\ Inputs' = Inputs /\ InMode("confirmed")' = InMode("confirmed")
    BY <1>1, <1>6, SameSources DEF Answering, Inputs, InMode
  <1>9. RecordSound'
    BY <1>1, <1>2, <1>6, <1>7, <1>s DEF IInv, RecordSound
  <1>10. Excluded' = Excluded
    BY <1>1, <1>s DEF Excluded
  <1>11. cursor \in Cursors
    BY DEF IInv, TypeOK
  <1>12. QED
    BY <1>1, <1>2, <1>3, <1>6, <1>8, <1>9, <1>10, <1>11, SaveKept DEF h

LEMMA CursorKept ==
  ASSUME IInv, SaveCursor  PROVE IInv'
  <1> DEFINE h == Head(todo)
  <1>1. /\ todo # <<>> /\ todo' = Tail(todo) /\ h.do \in {"confirm", "cursor"}
        /\ cursor' = Larger(cursor, h.to)
        /\ UNCHANGED <<arrived, record, receipts, retired, file, pc, run, ghostVars>>
    BY DEF SaveCursor, NextWrite
  <1>3. h.do \notin Special /\ h.do \notin Excluding
    BY <1>1 DEF Special, Excluding
  <1>a. h \in WriteType /\ Tail(todo) \in Seq(WriteType)
    BY <1>1, <1>3, AfterHead
  <1>4. cursor \in Cursors /\ h.to \in Cursors
    BY <1>a DEF IInv, TypeOK, WriteType
  <1> HIDE DEF h
  <1>5. cursor' \in Cursors /\ cursor' >= cursor /\ cursor' >= h.to
    BY <1>1, <1>4 DEF Larger
  <1>6. TypeOK'
    BY <1>1, <1>a, <1>5 DEF IInv, TypeOK
  <1>s. /\ Answering' = Answering /\ \A S : Sources(S)' = Sources(S)
        /\ Inputs' = Inputs /\ InMode("confirmed")' = InMode("confirmed")
    BY <1>1, SameSources DEF Answering, Inputs, InMode
  <1>7. RecordSound'
    BY <1>1, <1>s DEF IInv, RecordSound
  <1>8. Excluded' = Excluded
    BY <1>1, <1>s DEF Excluded
  <1>9. QED
    BY <1>1, <1>3, <1>5, <1>6, <1>7, <1>8, SaveKept DEF h

LEMMA ReceiptsKept ==
  ASSUME IInv, SaveReceipts  PROVE IInv'
  <1> DEFINE h == Head(todo)
             N == h.set \cap Inputs
  <1>1. /\ todo # <<>> /\ todo' = Tail(todo) /\ h.do \in {"receipt", "acknowledge", "settle"}
        /\ UNCHANGED <<arrived, cursor, record, retired, file, pc, run, ghostVars>>
    BY DEF SaveReceipts, NextWrite
  <1>3. h.do \notin Special \cup {"block", "supersede", "quarantine", "remove"} /\ h.do \in Excluding
    BY <1>1 DEF Special, Excluding
  <1>a. /\ h \in WriteType /\ Tail(todo) \in Seq(WriteType) /\ h \in Writes(todo)
        /\ h.do \in Dos(todo) /\ \A d \in Dos(Tail(todo)) : <<h.do, d>> \notin Wrong
        /\ \A d \in Dos(todo) : d = h.do \/ d \in Dos(Tail(todo))
    BY <1>1, <1>3, AfterHead
  <1>4. receipts' = IF h.do = "receipt"
                    THEN [names |-> receipts.names \cup {Timeout},
                          ids   |-> receipts.ids \cup record.covered]
                    ELSE [names |-> receipts.names \cup N,
                          ids   |-> receipts.ids \cup Sources(N)]
    BY DEF SaveReceipts
  <1>5. /\ N \subseteq Names /\ Sources(N) \subseteq Messages /\ record.covered \subseteq Messages
        /\ receipts.names \subseteq Names /\ receipts.ids \subseteq Messages
    BY StoreTyped DEF IInv, TypeOK, RecordType
  <1>6. CASE h.do = "receipt"
    <2>1. receipts'.names = receipts.names \cup {Timeout}
          /\ receipts'.ids = receipts.ids \cup record.covered
          /\ receipts' \in [names : SUBSET Names, ids : SUBSET Messages]
      BY <1>4, <1>5, <1>6
    <2>2. Answering
      BY <1>6, <1>a DEF IInv, WritesSound
    <2> HIDE DEF h
    <2>3. TypeOK'
      BY <1>1, <1>a, <2>1 DEF IInv, TypeOK
    <2>s. /\ Answering' = Answering /\ \A S : Sources(S)' = Sources(S) /\ Inputs' = Inputs
      BY <1>1, SameSources DEF Answering, Inputs
    <2>4. RecordSound'
      BY <1>1, <2>2, <2>s DEF IInv, RecordSound
    <2>5. throws = 0 => Closed'
      BY <2>1, <2>2, <2>s, <1>1, KeptCovered DEF Closed
    <2>6. cursor \in Cursors
      BY DEF IInv, TypeOK
    <2>7. QED
      BY <1>1, <1>3, <1>6, <2>1, <2>3, <2>4, <2>5, <2>6, SaveKept DEF h
  <1>7. CASE h.do # "receipt"
    <2>1. receipts'.names = receipts.names \cup N
          /\ receipts'.ids = receipts.ids \cup Sources(N)
          /\ receipts' \in [names : SUBSET Names, ids : SUBSET Messages]
      BY <1>4, <1>5, <1>7
    <2>2. h.do = "settle" => Answering /\ h.set = record.kept
      BY <1>a DEF IInv, WritesSound
    <2>3. h.do = "acknowledge" /\ Timeout \in h.set => Answering
      BY <1>a DEF IInv, WritesSound
    <2>4. Timeout \in N => Answering
      BY <1>1, <1>7, <2>2, <2>3
    <2>5. \A n \in N : n # Timeout => Source(n) = {n}
      BY DEF Source
    <2>6. Timeout \notin N => Sources(N) = N
      BY <2>5 DEF Sources
    <2>7. N \ {Timeout} \subseteq Sources(N)
      BY <2>5 DEF Sources
    <2>8. N \subseteq h.set /\ N \subseteq Inputs /\ (h.do = "settle" => record.kept \cap Inputs \subseteq N)
      BY <2>2
    <2> HIDE DEF h, N
    <2>9. TypeOK'
      BY <1>1, <1>a, <2>1 DEF IInv, TypeOK
    <2>s. /\ Answering' = Answering /\ \A S : Sources(S)' = Sources(S) /\ Inputs' = Inputs
      BY <1>1, SameSources DEF Answering, Inputs
    <2>10. RecordSound'
      BY <1>1, <2>1, <2>4, <2>6, <2>s DEF IInv, RecordSound
    <2>11. throws = 0 /\ h.do = "settle" => Closed'
      BY <2>1, <2>2, <2>7, <2>8, <2>s, <1>1, KeptCovered DEF Closed
    <2>12. throws = 0 /\ Timeout \in N => Closed'
      <3>1. SUFFICES ASSUME throws = 0, Timeout \in N, h.do = "acknowledge" PROVE Closed'
        BY <1>1, <1>7, <2>11
      <3>2. Removing /\ Answering
        BY <3>1, <2>4, <2>8, <1>a DEF Removing
      <3>3. "receipt" \notin Dos(todo)
        BY <3>1, <1>a DEF Wrong, Booking
      <3>4. "settle" \notin Dos(todo)
        BY <3>1, <1>a DEF IInv, WritesSound, Booking
      <3>5. Closed
        BY <3>1, <3>2, <3>3, <3>4 DEF IInv, NoThrow, AnsweredSound
      <3>6. QED
        BY <3>5, <2>1, <2>s, <1>1 DEF Closed
    <2>13. h.do = "settle" /\ Timeout \in Inputs => Timeout \in receipts'.names
      BY <2>1, <2>2, <2>8 DEF IInv, RecordSound
    <2>14. cursor \in Cursors
      BY DEF IInv, TypeOK
    <2>15. /\ Timeout \in receipts'.names =>
                \/ Timeout \in receipts.names
                \/ h.do \in {"settle", "acknowledge"} /\ Timeout \in h.set
           /\ throws = 0 /\ Timeout \in receipts'.names => Timeout \in receipts.names \/ Closed'
           /\ h.do \notin {"receipt", "cursor", "confirm", "blocked", "retired"}
      BY <1>1, <1>7, <2>1, <2>8, <2>12
    <2>16. QED
      BY <1>1, <1>3, <1>7, <2>1, <2>9, <2>10, <2>11, <2>13, <2>14, <2>15, SaveKept DEF h
  <1>8. QED
    BY <1>6, <1>7

LEMMA RetiredKept ==
  ASSUME IInv, SaveRetired  PROVE IInv'
  <1> DEFINE h == Head(todo)
  <1>1. /\ todo # <<>> /\ todo' = Tail(todo) /\ h.do = "retired"
        /\ retired' = retired \cup record.covered
        /\ UNCHANGED <<arrived, cursor, record, receipts, file, pc, run, ghostVars>>
    BY DEF SaveRetired, NextWrite
  <1>2. /\ h.do \notin Special \cup {"block", "supersede", "quarantine", "remove"}
        /\ h.do \in Excluding
    BY <1>1 DEF Special, Excluding
  <1>a. h \in WriteType /\ Tail(todo) \in Seq(WriteType) /\ h.do \in Dos(todo)
    BY <1>1, <1>2, AfterHead
  <1>3. Answering
    BY <1>1, <1>a DEF IInv, WritesSound
  <1> HIDE DEF h
  <1>4. TypeOK'
    BY <1>1, <1>a DEF IInv, TypeOK, RecordType
  <1>5. /\ Answering' = Answering /\ \A S : Sources(S)' = Sources(S)
    BY <1>1, SameSources DEF Answering
  <1>6. RecordSound'
    BY <1>1, <1>3, <1>5 DEF IInv, RecordSound
  <1>7. cursor \in Cursors
    BY DEF IInv, TypeOK
  <1>8. QED
    BY <1>1, <1>2, <1>4, <1>6, <1>7, SaveKept DEF h

\* The writes that carry a record on stand alone.
LEMMA Shapes ==
  ASSUME IInv, todo # <<>>, Head(todo).do \in Special
  PROVE  /\ Head(todo).do = "pending" =>
              /\ Staging /\ Head(todo) = Write("pending", 0, run.prompt)
              /\ Tail(todo) = <<Set("expose")>>
         /\ Head(todo).do = "expose" => Exposing /\ Tail(todo) = <<>>
         /\ Head(todo).do = "running" => Claiming /\ Tail(todo) = <<>>
         /\ Head(todo).do = "delivery" =>
              /\ Caching /\ Head(todo) = Write("delivery", run.target, run.kept)
              /\ Tail(todo) = <<>>
         /\ Head(todo).do \in Dos(todo)
  <1>1. Head(todo).do \in Dos(todo)
    BY Popped DEF IInv, TypeOK
  <1>2. Staging \/ Exposing \/ Claiming \/ Caching
    BY <1>1 DEF IInv, WritesSound
  <1>3. /\ \A to, S : Write("pending", to, S).do = "pending"
        /\ \A to, S : Write("delivery", to, S).do = "delivery"
        /\ Set("expose").do = "expose" /\ Set("running").do = "running"
    BY DEF Write, Set
  <1>4. CASE Staging
    <2> DEFINE a == Write("pending", 0, run.prompt)
               b == Set("expose")
    <2>1. todo = <<a, b>> /\ a.do = "pending"
      BY <1>3, <1>4 DEF Staging
    <2> HIDE DEF a, b
    <2>2. Head(todo) = a /\ Tail(todo) = <<b>>
      BY <2>1
    <2>3. QED
      BY <1>1, <1>4, <2>1, <2>2 DEF a, b
  <1>5. CASE Exposing
    <2> DEFINE b == Set("expose")
    <2>1. todo = <<b>> /\ b.do = "expose"
      BY <1>3, <1>5 DEF Exposing
    <2> HIDE DEF b
    <2>2. Head(todo) = b /\ Tail(todo) = <<>>
      BY <2>1
    <2>3. QED
      BY <1>1, <1>5, <2>1, <2>2
  <1>6. CASE Claiming
    <2> DEFINE b == Set("running")
    <2>1. todo = <<b>> /\ b.do = "running"
      BY <1>3, <1>6 DEF Claiming
    <2> HIDE DEF b
    <2>2. Head(todo) = b /\ Tail(todo) = <<>>
      BY <2>1
    <2>3. QED
      BY <1>1, <1>6, <2>1, <2>2
  <1>7. CASE Caching
    <2> DEFINE b == Write("delivery", run.target, run.kept)
    <2>1. todo = <<b>> /\ b.do = "delivery"
      BY <1>3, <1>7 DEF Caching
    <2> HIDE DEF b
    <2>2. Head(todo) = b /\ Tail(todo) = <<>>
      BY <2>1
    <2>3. QED
      BY <1>1, <1>7, <2>1, <2>2 DEF b
  <1>8. QED
    BY <1>2, <1>4, <1>5, <1>6, <1>7

\* The request is recorded: its batch is what the run was asked.
LEMMA PendingKept ==
  ASSUME IInv, SaveRecord, Head(todo).do = "pending"  PROVE IInv'
  <1> DEFINE h == Head(todo)
             b == Set("expose")
  <1>1. /\ todo # <<>> /\ todo' = Tail(todo) /\ h.do = "pending"
        /\ UNCHANGED <<arrived, cursor, receipts, retired, file, pc, run, starts, crashes, throws>>
        /\ answered' = answered /\ record' = [record EXCEPT !.st = "pending", !.batch = h.set]
    BY DEF SaveRecord, NextWrite
  <1>2. /\ Staging /\ h = Write("pending", 0, run.prompt) /\ todo' = <<b>> /\ h.do \in Dos(todo)
    BY <1>1, Shapes DEF Special
  <1>3. /\ pc = "apology" /\ ~run.active /\ record.st = "none" /\ h.set = run.prompt
        /\ run.prompt # {} /\ run.prompt \subseteq Messages
    BY <1>2 DEF Staging, Write, IInv, RunSound, AtWork, TypeOK, RunType
  <1> HIDE DEF h
  <1>4. /\ record' \in RecordType /\ record'.st = "pending" /\ record'.batch = run.prompt
        /\ record'.kept = record.kept /\ record'.covered = record.covered
        /\ record'.through = record.through
    <2>1. "pending" \in States
      BY DEF States
    <2>2. record' = [record EXCEPT !.st = "pending", !.batch = run.prompt]
      BY <1>1, <1>3
    <2>3. QED
      BY <2>1, <2>2, <1>3 DEF IInv, TypeOK, RecordType
  <1>5. starts = 0 /\ ~Answering /\ answered = {} /\ Timeout \notin receipts.names
        /\ run.prompt \cap Excluded = {} /\ file[Timeout] = "none"
    BY <1>1, <1>2, <1>3 DEF IInv, RecordSound, BatchFresh, TypeOK
  <1>6. b \in WriteType /\ b.do = "expose"
    BY WriteTypes DEF Ops
  <1>7. Writes(todo') = {b} /\ Dos(todo') = {"expose"} /\ todo' \in Seq(WriteType)
        /\ OrderedBy(todo', Wrong)
    <2> HIDE DEF b
    <2>1. /\ <<b>> \in Seq(WriteType) /\ \A w : w \in Writes(<<b>>) <=> w = b
          /\ \A d : d \in Dos(<<b>>) <=> d = b.do
          /\ \A V : OrderedBy(<<b>>, V)
      BY <1>6, Single
    <2>2. QED
      BY <2>1, <1>2, <1>6
  <1>8. Exposing'
    BY <1>1, <1>2, <1>3, <1>4 DEF Exposing
  <1>s. Answering' = Answering /\ Inputs' = Inputs /\ InMode("confirmed")' = InMode("confirmed")
    BY <1>1, <1>4 DEF Answering, Inputs, InMode
  <1>9. Excluded' = Excluded
    <2>1. \A n \in InMode("confirmed") : n # Timeout /\ Source(n)' = Source(n)
      BY <1>5 DEF InMode, Source
    <2>2. Sources(InMode("confirmed"))' = Sources(InMode("confirmed"))
      BY <2>1, <1>s DEF Sources
    <2>3. QED
      BY <2>2, <1>1 DEF Excluded
  <1>10. TypeOK'
    BY <1>1, <1>4, <1>7 DEF IInv, TypeOK
  <1>11. RecordSound'
    BY <1>1, <1>3, <1>4, <1>5, <1>s DEF IInv, RecordSound
  <1>12. WritesSound'
    BY <1>6, <1>7, <1>8 DEF WritesSound, Special, Booking
  <1>13. RunSound'
    BY <1>1, <1>3, <1>4, <1>7 DEF IInv, RunSound, AtWork
  <1>14. TakenUp'
    BY <1>1, <1>3 DEF TakenUp
  <1>15. BatchFresh'
    BY <1>1, <1>3, <1>4, <1>5, <1>7, <1>9 DEF BatchFresh, Excluding
  <1>16. BatchPassed'
    BY <1>1, <1>5 DEF BatchPassed
  <1>17. NoThrow'
    <2>1. ASSUME throws = 0 PROVE AnsweredSound'
      <3>1. AnsweredSound
        BY <2>1 DEF IInv, NoThrow
      <3>2. QED
        BY <3>1, <1>1, <1>3, <1>5, <1>7, <1>s DEF AnsweredSound
    <2>2. WindowSound'
      BY <1>1, <1>3 DEF WindowSound
    <2>3. QED
      BY <2>1, <2>2, <1>1 DEF NoThrow
  <1>18. QED
    BY <1>10, <1>11, <1>12, <1>13, <1>14, <1>15, <1>16, <1>17 DEF IInv

\* Its file appears.
LEMMA ExposeKept ==
  ASSUME IInv, ExposeFile  PROVE IInv'
  <1>1. /\ todo # <<>> /\ todo' = Tail(todo) /\ Head(todo).do = "expose"
        /\ file' = [file EXCEPT ![Timeout] = "input"]
        /\ UNCHANGED <<arrived, cursor, record, receipts, retired, pc, run, ghostVars>>
    BY DEF ExposeFile, NextWrite
  <1>2. Exposing /\ todo' = <<>> /\ "expose" \in Dos(todo)
    BY <1>1, Shapes DEF Special
  <1>3. pc = "apology" /\ ~run.active /\ record.st = "pending"
    BY <1>2 DEF Exposing
  <1>4. /\ file' \in [Names -> Modes] /\ file'[Timeout] = "input"
        /\ InMode("confirmed")' \subseteq InMode("confirmed")
    BY <1>1 DEF IInv, TypeOK, Modes, InMode
  <1>5. starts = 0 /\ ~Answering /\ answered = {} /\ Timeout \notin receipts.names
        /\ record.batch \cap Excluded = {}
    BY <1>2, <1>3 DEF IInv, RecordSound, BatchFresh
  <1>6. todo' \in Seq(WriteType) /\ Dos(todo') = {} /\ Writes(todo') = {} /\ OrderedBy(todo', Wrong)
    BY <1>2, Nothing
  <1>s. Answering' = Answering /\ \A S : Sources(S)' = Sources(S)
    BY <1>1, SameSources DEF Answering
  <1>7. Excluded' \subseteq Excluded
    <2>1. Sources(InMode("confirmed"))' \subseteq Sources(InMode("confirmed"))
      <3>1. \A x : Source(x)' = Source(x)
        BY <1>1 DEF Source
      <3>2. QED
        BY <3>1, <1>4 DEF Sources
    <2>2. QED
      BY <2>1, <1>1 DEF Excluded
  <1>8. TypeOK'
    BY <1>1, <1>3, <1>4, <1>6 DEF IInv, TypeOK
  <1>9. RecordSound'
    BY <1>1, <1>s DEF IInv, RecordSound
  <1>10. WritesSound'
    BY <1>6 DEF WritesSound
  <1>11. RunSound'
    BY <1>1, <1>3, <1>6 DEF IInv, RunSound, AtWork
  <1>12. TakenUp'
    BY <1>1, <1>3 DEF TakenUp
  <1>13. BatchFresh'
    BY <1>1, <1>3, <1>5, <1>6, <1>7 DEF BatchFresh
  <1>14. BatchPassed'
    BY <1>1, <1>5 DEF BatchPassed
  <1>15. NoThrow'
    <2>1. ASSUME throws = 0 PROVE AnsweredSound'
      <3>1. AnsweredSound
        BY <2>1 DEF IInv, NoThrow
      <3>2. QED
        BY <3>1, <1>1, <1>3, <1>4, <1>5, <1>6, <1>s DEF AnsweredSound
    <2>2. WindowSound'
      BY <1>1, <1>3 DEF WindowSound
    <2>3. QED
      BY <2>1, <2>2, <1>1 DEF NoThrow
  <1>16. QED
    BY <1>8, <1>9, <1>10, <1>11, <1>12, <1>13, <1>14, <1>15 DEF IInv

\* The sole claim is saved.
LEMMA RunningKept ==
  ASSUME IInv, SaveRecord, Head(todo).do = "running"  PROVE IInv'
  <1>1. /\ todo # <<>> /\ todo' = Tail(todo) /\ Head(todo).do = "running"
        /\ UNCHANGED <<arrived, cursor, receipts, retired, file, pc, run, starts, crashes, throws>>
        /\ answered' = answered /\ record' = [record EXCEPT !.st = "running"]
    BY DEF SaveRecord, NextWrite
  <1>2. Claiming /\ todo' = <<>>
    BY <1>1, Shapes DEF Special
  <1>3. pc = "launch" /\ run.active /\ record.st = "pending"
    BY <1>2 DEF Claiming
  <1>4. /\ record' \in RecordType /\ record'.st = "running" /\ record'.batch = record.batch
        /\ record'.kept = record.kept /\ record'.covered = record.covered
        /\ record'.through = record.through
    <2>1. "running" \in States
      BY DEF States
    <2>2. QED
      BY <2>1, <1>1 DEF IInv, TypeOK, RecordType
  <1>5. starts = 0 /\ ~Answering /\ answered = {} /\ record.batch # {}
        /\ Timeout \notin receipts.names
    BY <1>3 DEF IInv, RecordSound
  <1>6. todo' \in Seq(WriteType) /\ Dos(todo') = {} /\ Writes(todo') = {} /\ OrderedBy(todo', Wrong)
    BY <1>2, Nothing
  <1>s. /\ Answering' = Answering /\ \A S : Sources(S)' = Sources(S)
        /\ Inputs' = Inputs /\ InMode("confirmed")' = InMode("confirmed")
    BY <1>1, <1>4, SameSources DEF Answering, Inputs, InMode
  <1>7. Excluded' = Excluded
    BY <1>1, <1>s DEF Excluded
  <1>8. TypeOK'
    BY <1>1, <1>4, <1>6 DEF IInv, TypeOK
  <1>9. RecordSound'
    BY <1>1, <1>4, <1>5, <1>s DEF IInv, RecordSound
  <1>10. WritesSound'
    BY <1>6 DEF WritesSound
  <1>11. RunSound'
    BY <1>1, <1>2, <1>3, <1>4, <1>5, <1>s DEF IInv, RunSound, AtWork, Free
  <1>12. TakenUp'
    BY <1>1, <1>3 DEF TakenUp
  <1>13. BatchFresh'
    BY <1>1, <1>3, <1>4, <1>6, <1>7 DEF IInv, BatchFresh
  <1>14. BatchPassed'
    BY <1>1, <1>5 DEF BatchPassed
  <1>15. NoThrow'
    <2>1. ASSUME throws = 0 PROVE AnsweredSound'
      <3>1. AnsweredSound
        BY <2>1 DEF IInv, NoThrow
      <3>2. QED
        BY <3>1, <1>1, <1>3, <1>5, <1>6, <1>s DEF AnsweredSound
    <2>2. WindowSound'
      BY <1>1, <1>3 DEF WindowSound
    <2>3. QED
      BY <2>1, <2>2, <1>1 DEF NoThrow
  <1>16. QED
    BY <1>8, <1>9, <1>10, <1>11, <1>12, <1>13, <1>14, <1>15 DEF IInv

\* The answer is cached: what it covers is answered from here on.
LEMMA DeliveryKept ==
  ASSUME IInv, SaveRecord, Head(todo).do = "delivery"  PROVE IInv'
  <1> DEFINE h == Head(todo)
             c == run.prompt \cup Sources(run.kept)
  <1>1. /\ todo # <<>> /\ todo' = Tail(todo) /\ h.do = "delivery"
        /\ UNCHANGED <<arrived, cursor, receipts, retired, file, pc, run, starts, crashes, throws>>
        /\ record' = [record EXCEPT !.st = "delivery", !.kept = h.set, !.through = h.to,
                        !.covered = run.prompt \cup Sources(h.set)]
        /\ answered' = answered \cup record'.covered \cup run.folded
    BY DEF SaveRecord, NextWrite
  <1>2. Caching /\ todo' = <<>> /\ h = Write("delivery", run.target, run.kept) /\ h.do \in Dos(todo)
    BY <1>1, Shapes DEF Special
  <1>3. /\ pc = "send" /\ run.active /\ record.st = "running" /\ Timeout \in run.kept
        /\ record.batch \subseteq Upto(run.target)
        /\ h.set = run.kept /\ h.to = run.target
    BY <1>2 DEF Caching, Write
  <1>4. /\ run.prompt \subseteq Messages /\ run.kept \subseteq Names /\ run.target \in Cursors
        /\ run.folded \subseteq Messages /\ c \subseteq Messages
    BY StoreTyped DEF IInv, TypeOK, RunType
  <1>5. /\ ~Answering /\ answered = {} /\ retired = {} /\ record.batch # {} /\ run.prompt # {}
        /\ Timeout \notin receipts.names /\ Timeout \in Inputs
    BY <1>3 DEF IInv, RecordSound, RunSound, AtWork
  <1> HIDE DEF h
  <1>6. /\ record' \in RecordType /\ record'.st = "delivery" /\ record'.batch = record.batch
        /\ record'.kept = run.kept /\ record'.covered = c /\ record'.through = run.target
    <2>1. "delivery" \in States
      BY DEF States
    <2>2. record' = [record EXCEPT !.st = "delivery", !.kept = run.kept, !.through = run.target,
                       !.covered = c]
      BY <1>1, <1>3
    <2> HIDE DEF c
    <2>3. QED
      BY <2>1, <2>2, <1>4 DEF IInv, TypeOK, RecordType
  <1>7. todo' \in Seq(WriteType) /\ Dos(todo') = {} /\ Writes(todo') = {} /\ OrderedBy(todo', Wrong)
    BY <1>2, Nothing
  <1>s. /\ \A S : Sources(S)' = Sources(S)
        /\ Inputs' = Inputs /\ InMode("confirmed")' = InMode("confirmed")
    BY <1>1, <1>6, SameSources DEF Inputs, InMode
  <1>8. Answering' /\ Sources(record.kept)' = Sources(run.kept)
    <2>1. Answering'
      BY <1>5, <1>6 DEF Answering
    <2>2. \A n : Source(n)' = Source(n)
      BY <1>6 DEF Source
    <2>3. Sources(record.kept)' = Sources(run.kept)
      BY <2>2, <1>6 DEF Sources
    <2>4. QED
      BY <2>1, <2>3
  <1>9. answered' = c \cup run.folded
    BY <1>1, <1>5, <1>6
  <1>10. TypeOK'
    BY <1>1, <1>4, <1>6, <1>7, <1>9 DEF IInv, TypeOK
  <1>11. RecordSound'
    <2>1. Sources(run.kept) \subseteq c /\ c \subseteq answered'
      BY <1>9
    <2> HIDE DEF c
    <2>2. QED
      BY <2>1, <1>1, <1>3, <1>5, <1>6, <1>8 DEF IInv, RecordSound
  <1> HIDE DEF c
  <1>12. WritesSound'
    BY <1>7 DEF WritesSound
  <1>13. RunSound'
    BY <1>1, <1>2, <1>3, <1>6, <1>8, <1>s DEF IInv, RunSound, AtWork, Free
  <1>14. TakenUp'
    BY <1>1, <1>3 DEF TakenUp
  <1>15. BatchFresh'
    BY <1>1, <1>3, <1>6, <1>7 DEF IInv, BatchFresh
  <1>16. BatchPassed'
    <2>1. Untouched'
      BY <1>1, <1>5, <1>7, <1>s DEF Untouched
    <2>2. QED
      BY <2>1 DEF BatchPassed
  <1>17. NoThrow'
    <2>1. ASSUME throws = 0 PROVE AnsweredSound'
      <3>1. AnsweredSound
        BY <2>1 DEF IInv, NoThrow
      <3>2. c \cup run.folded \subseteq Upto(run.target) /\ (c \cup run.folded) \cap Inputs \subseteq run.kept
        BY <3>1, <1>1, <1>2 DEF AnsweredSound, c
      <3>3. ~Removing'
        BY <1>7 DEF Removing
      <3>4. QED
        BY <3>1, <3>2, <3>3, <1>1, <1>3, <1>5, <1>6, <1>7, <1>9, <1>s DEF AnsweredSound
    <2>2. WindowSound'
      BY <1>1, <1>3 DEF WindowSound
    <2>3. QED
      BY <2>1, <2>2, <1>1 DEF NoThrow
  <1>18. QED
    BY <1>10, <1>11, <1>12, <1>13, <1>14, <1>15, <1>16, <1>17 DEF IInv

LEMMA SaveRecordKept ==
  ASSUME IInv, SaveRecord  PROVE IInv'
  BY StateKept, PendingKept, RunningKept, DeliveryKept DEF SaveRecord, NextWrite

\* A file or none is renamed or removed; the write is over when none of its files is left.
LEMMA MoveFacts ==
  ASSUME IInv, MoveFile
  PROVE  LET h == Head(todo)
             t == Tail(todo) IN
         /\ todo # <<>> /\ h.do \in {"block", "supersede", "quarantine", "remove"}
         /\ UNCHANGED <<arrived, cursor, record, receipts, retired, pc, run, ghostVars>>
         /\ file' \in [Names -> Modes]
         /\ \E N : /\ N \subseteq h.set \cap Inputs
                   /\ todo' = todo \/ (todo' = t /\ h.set \cap Inputs \subseteq N)
                   /\ Inputs' = Inputs \ N
                   /\ InMode("confirmed")' =
                        InMode("confirmed") \cup (IF h.do = "quarantine" THEN N ELSE {})
                   /\ Timeout \notin N => file'[Timeout] = file[Timeout]
                   /\ Timeout \in N /\ h.do = "quarantine" => file'[Timeout] = "confirmed"
  <1> DEFINE h == Head(todo)
             t == Tail(todo)
             m == NewMode(h.do)
             left == h.set \cap Inputs
  <1>1. /\ todo # <<>> /\ h.do \in {"block", "supersede", "quarantine", "remove"}
        /\ UNCHANGED <<arrived, cursor, record, receipts, retired, pc, run, ghostVars>>
        /\ \/ left = {} /\ todo' = t /\ file' = file
           \/ \E n \in left : /\ file' = [file EXCEPT ![n] = m]
                              /\ todo' = IF left = {n} THEN t ELSE todo
    BY DEF MoveFile
  <1>2. file \in [Names -> Modes] /\ left \subseteq Inputs /\ Inputs \subseteq Names
    BY StoreTyped DEF IInv, TypeOK
  <1>3. m \in Modes /\ m # "input" /\ (m = "confirmed" <=> h.do = "quarantine")
    BY <1>1 DEF NewMode, Modes
  <1> HIDE DEF h, t, m, left
  <1>4. CASE left = {} /\ todo' = t /\ file' = file
    <2>1. Inputs' = Inputs /\ InMode("confirmed")' = InMode("confirmed")
      BY <1>4 DEF Inputs, InMode
    <2>2. /\ {} \subseteq left /\ left \subseteq {} /\ Inputs' = Inputs \ {}
          /\ InMode("confirmed")' =
               InMode("confirmed") \cup (IF h.do = "quarantine" THEN {} ELSE {})
      BY <2>1, <1>4
    <2>3. QED
      BY <1>1, <1>2, <1>4, <2>2 DEF left, h, t
  <1>5. ASSUME NEW n \in left, file' = [file EXCEPT ![n] = m],
               todo' = IF left = {n} THEN t ELSE todo
        PROVE  /\ file' \in [Names -> Modes]
               /\ {n} \subseteq left /\ (todo' = todo \/ (todo' = t /\ left \subseteq {n}))
               /\ Inputs' = Inputs \ {n}
               /\ InMode("confirmed")' =
                    InMode("confirmed") \cup (IF h.do = "quarantine" THEN {n} ELSE {})
               /\ Timeout \notin {n} => file'[Timeout] = file[Timeout]
               /\ Timeout \in {n} /\ h.do = "quarantine" => file'[Timeout] = "confirmed"
    <2>1. n \in Names /\ file[n] = "input"
      BY <1>2, <1>5 DEF Inputs
    <2>2. /\ file'[n] = m /\ file' \in [Names -> Modes]
          /\ \A x \in Names : x # n => file'[x] = file[x]
      BY <1>2, <1>3, <1>5, <2>1
    <2>3. Inputs' = Inputs \ {n}
      BY <1>3, <2>1, <2>2 DEF Inputs
    <2>4. InMode("confirmed")' =
            InMode("confirmed") \cup (IF h.do = "quarantine" THEN {n} ELSE {})
      BY <1>3, <2>1, <2>2 DEF InMode
    <2>5. QED
      BY <1>3, <1>5, <2>1, <2>2, <2>3, <2>4
  <1>6. QED
    BY <1>1, <1>4, <1>5 DEF left, h, t

LEMMA MoveFileKept ==
  ASSUME IInv, MoveFile  PROVE IInv'
  <1> DEFINE h == Head(todo)
             t == Tail(todo)
  <1>1. /\ todo # <<>> /\ h.do \in {"block", "supersede", "quarantine", "remove"}
        /\ UNCHANGED <<arrived, cursor, record, receipts, retired, pc, run, ghostVars>>
        /\ file' \in [Names -> Modes]
    BY MoveFacts
  <1>2. PICK N : /\ N \subseteq h.set \cap Inputs
                 /\ todo' = todo \/ (todo' = t /\ h.set \cap Inputs \subseteq N)
                 /\ Inputs' = Inputs \ N
                 /\ InMode("confirmed")' =
                      InMode("confirmed") \cup (IF h.do = "quarantine" THEN N ELSE {})
                 /\ Timeout \notin N => file'[Timeout] = file[Timeout]
                 /\ Timeout \in N /\ h.do = "quarantine" => file'[Timeout] = "confirmed"
    BY MoveFacts
  <1>3. h.do \notin Special
    BY <1>1 DEF Special
  <1>a. /\ h \in WriteType /\ t \in Seq(WriteType)
        /\ h \in Writes(todo) /\ Writes(t) \subseteq Writes(todo)
        /\ \A w \in Writes(todo) : w = h \/ w \in Writes(t)
        /\ h.do \in Dos(todo) /\ Dos(t) \subseteq Dos(todo)
        /\ \A d \in Dos(todo) : d = h.do \/ d \in Dos(t)
        /\ \A d \in Dos(t) : <<h.do, d>> \notin Wrong
        /\ OrderedBy(t, Wrong)
        /\ \A V : OrderedBy(todo, V) =>
                    OrderedBy(t, V) /\ \A d \in Dos(t) : <<h.do, d>> \notin V
        /\ Dos(todo) \cap Special = {}
        /\ pc \notin {"claim", "launch", "model", "send", "resend"}
        /\ pc = "stopping" => h.do = "cursor"
    BY <1>1, <1>3, AfterHead
  <1>w. WritesSound /\ todo \in Seq(WriteType)
    BY DEF IInv, TypeOK
  <1> HIDE DEF h, t
  <1>b. /\ todo' \in Seq(WriteType) /\ Writes(todo') \subseteq Writes(todo)
        /\ Dos(todo') \subseteq Dos(todo)
        /\ \A w \in Writes(todo) : w \in Writes(todo') \/ (w = h /\ h.set \cap Inputs \subseteq N)
        /\ \A d \in Dos(todo) : d \in Dos(todo') \/ d = h.do
        /\ \A V : OrderedBy(todo, V) => OrderedBy(todo', V)
    BY <1>2, <1>a, <1>w
  <1>s. Answering' = Answering /\ \A S : Sources(S)' = Sources(S)
    BY <1>1, SameSources DEF Answering
  <1>c. h.do # "quarantine" => Excluded' = Excluded
    <2>1. SUFFICES ASSUME h.do # "quarantine" PROVE Excluded' = Excluded
      OBVIOUS
    <2>2. InMode("confirmed")' = InMode("confirmed")
      BY <2>1, <1>2
    <2>3. \A n : Source(n)' = Source(n)
      BY <1>1 DEF Source
    <2>4. Sources(InMode("confirmed"))' = Sources(InMode("confirmed"))
      BY <2>2, <2>3 DEF Sources
    <2>5. QED
      BY <2>4, <1>1 DEF Excluded
  <1>4. TypeOK'
    <2>1. Timeout \in N => record.st # "none"
      BY <1>2 DEF IInv, TypeOK, Inputs
    <2>2. QED
      BY <2>1, <1>1, <1>2, <1>b DEF IInv, TypeOK
  <1>5. RecordSound'
    BY <1>1, <1>s DEF IInv, RecordSound
  <1>6. WritesSound'
    <2>1. Dos(todo') \cap {"completed", "receipt", "confirm"} # {} =>
            /\ Timeout \in Inputs'
            /\ \E w \in Writes(todo') : w.do = "acknowledge" /\ Timeout \in w.set
      <3>1. SUFFICES ASSUME NEW d \in Dos(todo'), d \in {"completed", "receipt", "confirm"}
                     PROVE  FALSE
        OBVIOUS
      <3>2. d \in Dos(todo) /\ d # h.do /\ d \in Dos(t)
        BY <3>1, <1>1, <1>a, <1>b
      <3>3. Dos(todo) \subseteq Booking \cup {"remove", "cursor"}
        BY <3>1, <3>2, <1>w DEF WritesSound, Booking
      <3>4. h.do = "remove"
        BY <3>3, <1>1, <1>a DEF Booking
      <3>5. QED
        BY <3>1, <3>2, <3>4, <1>a DEF Wrong, Booking
    <2>2. Dos(todo') \cap Booking # {} => /\ Dos(todo') \subseteq Booking \cup {"remove", "cursor"}
                                          /\ OrderedBy(todo', Lasting)
      BY <1>b, <1>w DEF WritesSound
    <2>3. QED
      BY <2>1, <2>2, <1>1, <1>a, <1>b, <1>s, <1>w DEF WritesSound
  <1>7. RunSound'
    BY <1>1, <1>a, <1>b, <1>s DEF IInv, RunSound, AtWork
  <1>8. TakenUp'
    <2>1. SUFFICES ASSUME pc \in {"notices", "clean", "collect"}, Timeout \in Inputs'
                   PROVE  TakenUp'
      BY <1>1 DEF TakenUp
    <2>2. Timeout \in Inputs /\ Timeout \notin N
      BY <2>1, <1>2
    <2>3. \A w \in Writes(todo) : Timeout \in w.set => w \in Writes(todo')
      BY <2>2, <1>b
    <2>4. "receipt" \in Dos(todo) => "receipt" \in Dos(todo')
      BY <1>1, <1>b
    <2>5. QED
      BY <2>1, <2>2, <2>3, <2>4, <1>1 DEF IInv, TakenUp
  <1>9. BatchFresh'
    <2>1. ASSUME record.st = "pending", Timeout \in Inputs' \/ "expose" \in Dos(todo')
          PROVE  record.batch \cap Excluded' = {} /\ Dos(todo') \cap Excluding = {}
      <3>1. record.batch \cap Excluded = {} /\ Dos(todo) \cap Excluding = {}
        BY <2>1, <1>2, <1>b DEF IInv, BatchFresh
      <3>2. h.do # "quarantine"
        BY <3>1, <1>a DEF Excluding
      <3>3. QED
        BY <3>1, <3>2, <1>b, <1>c
    <2>2. "pending" \notin Dos(todo')
      BY <1>a, <1>b DEF Special
    <2>3. QED
      BY <2>1, <2>2, <1>1, <1>a DEF IInv, BatchFresh
  <1>10. BatchPassed'
    <2>1. ASSUME Untouched PROVE Untouched' \/ SetAside'
      <3>1. CASE Timeout \in N
        <4>1. h.do = "quarantine"
          BY <2>1, <3>1, <1>1, <1>2, <1>a DEF Untouched
        <4>2. QED
          BY <3>1, <4>1, <1>2 DEF SetAside
      <3>2. CASE Timeout \notin N
        BY <2>1, <3>2, <1>1, <1>2, <1>b DEF Untouched
      <3>3. QED
        BY <3>1, <3>2
    <2>2. ASSUME SetAside PROVE SetAside'
      <3>1. CASE file[Timeout] = "confirmed"
        <4>1. Timeout \notin N
          BY <3>1, <1>2 DEF Inputs
        <4>2. QED
          BY <3>1, <4>1, <1>2 DEF SetAside
      <3>2. CASE /\ Timeout \in Inputs
                 /\ \E w \in Writes(todo) : w.do = "quarantine" /\ Timeout \in w.set
        <4>1. PICK w \in Writes(todo) : w.do = "quarantine" /\ Timeout \in w.set
          BY <3>2
        <4>2. h.do = "quarantine"
          <5>1. "quarantine" \in Dos(todo)
            BY <4>1 DEF Dos
          <5>2. QED
            BY <5>1, <1>1, <1>a, <1>w DEF WritesSound
        <4>3. CASE Timeout \in N
          BY <4>2, <4>3, <1>2 DEF SetAside
        <4>4. CASE Timeout \notin N
          BY <3>2, <4>1, <4>4, <1>2, <1>b DEF SetAside
        <4>5. QED
          BY <4>3, <4>4
      <3>3. QED
        BY <2>2, <3>1, <3>2 DEF SetAside
    <2>3. Passing(record.batch) => Passing(record.batch)'
      BY <1>1, <1>b DEF Passing
    <2>4. QED
      BY <2>1, <2>2, <2>3, <1>1 DEF IInv, BatchPassed
  <1>11. ASSUME throws = 0 PROVE AnsweredSound'
    <2>1. AnsweredSound
      BY <1>11 DEF IInv, NoThrow
    <2>2. h.do # "quarantine" /\ "quarantine" \notin Dos(todo') /\ "delivery" \notin Dos(todo')
      BY <2>1, <1>a, <1>b DEF AnsweredSound, Special
    <2>3. InMode("confirmed")' = {}
      BY <2>1, <2>2, <1>2 DEF AnsweredSound
    <2>4. Past' = Past /\ (Closed => Closed') /\ (Removing' => Removing)
      BY <1>1, <1>2, <1>b DEF Past, Closed, Removing
    <2>5. Moves("cursor") => Moves("cursor")'
      BY <1>1, <1>b DEF Moves
    <2>6. Moves("confirm") => Moves("confirm")'
      BY <1>1, <1>b DEF Moves
    <2>7. ASSUME Answering, Timeout \in N PROVE Past /\ Closed'
      <3>1. Timeout \in Inputs /\ Timeout \in h.set
        BY <2>7, <1>2
      <3>2. CASE h.do = "block"
        <4>1. "blocked" \notin Dos(todo)
          BY <3>2, <1>a DEF Wrong
        <4>2. record.covered \subseteq retired /\ Past
          BY <2>1, <2>7, <3>2, <4>1, <1>a DEF AnsweredSound
        <4>3. QED
          BY <4>2, <2>7, <1>1, <1>2, <1>11, KeptCovered DEF Closed
      <3>3. CASE h.do \in {"supersede", "remove"}
        <4>1. Removing
          BY <3>1, <3>3, <1>a DEF Removing
        <4>2. "settle" \notin Dos(todo)
          BY <3>3, <1>a DEF Wrong
        <4>3. "receipt" \notin Dos(todo) /\ "confirm" \notin Dos(todo)
          <5>1. CASE h.do = "remove"
            BY <5>1, <1>a DEF Wrong, Booking
          <5>2. CASE h.do = "supersede"
            BY <5>2, <1>a, <1>w DEF WritesSound, Booking
          <5>3. QED
            BY <3>3, <5>1, <5>2
        <4>4. ~Moves("confirm")
          BY <4>3 DEF Moves, Dos
        <4>5. Closed /\ Past
          BY <2>1, <2>7, <3>1, <4>1, <4>2, <4>3, <4>4 DEF AnsweredSound
        <4>6. QED
          BY <4>5, <2>4
      <3>4. QED
        BY <3>2, <3>3, <2>2, <1>1
    <2>8. Answering => /\ answered \cap Inputs' \subseteq record.kept
                       /\ Timeout \in Inputs' \/ (Past /\ Closed')
      BY <2>1, <2>4, <2>7, <1>2 DEF AnsweredSound
    <2>9. Answering /\ "block" \in Dos(todo') /\ "blocked" \notin Dos(todo') => record.st = "blocked"
      BY <2>1, <1>1, <1>b DEF AnsweredSound
    <2>10. Answering /\ "blocked" \in Dos(todo') /\ "retired" \notin Dos(todo')
             => record.covered \subseteq retired
      BY <2>1, <1>1, <1>b DEF AnsweredSound
    <2>11. Answering /\ Timeout \in Inputs' /\ "blocked" \in Dos(todo')
             => Past \/ (Moves("cursor")' /\ OrderedBy(todo', Late))
      BY <2>1, <2>5, <1>2, <1>b DEF AnsweredSound
    <2>12. Answering /\ Removing' /\ Dos(todo') \cap {"receipt", "settle"} = {} => Closed'
      BY <2>1, <2>4, <1>1, <1>b DEF AnsweredSound
    <2>13. Answering /\ Removing' /\ Timeout \in Inputs' =>
             Past \/ Moves("confirm")' \/ ("settle" \in Dos(todo') /\ Moves("cursor")')
      BY <2>1, <2>4, <2>5, <2>6, <1>1, <1>2, <1>b DEF AnsweredSound
    <2>14. QED
      BY <2>1, <2>2, <2>3, <2>4, <2>5, <2>6, <2>8, <2>9, <2>10, <2>11, <2>12, <2>13,
         <1>1, <1>2, <1>a, <1>s DEF AnsweredSound
  <1>12. NoThrow'
    <2>1. WindowSound'
      BY <1>1, <1>a DEF WindowSound
    <2>2. QED
      BY <1>11, <2>1, <1>1 DEF NoThrow
  <1>13. QED
    BY <1>4, <1>5, <1>6, <1>7, <1>8, <1>9, <1>10, <1>12 DEF IInv

\* A caught error of the bookkeeping leaves the writes that set the inputs aside and,
\* where it follows, the cursor's.
LEMMA ThrowFacts ==
  ASSUME IInv, WriteThrows
  PROVE  \E q \in WriteType :
           /\ q.do = "quarantine"
           /\ \A w \in Writes(todo) : w.do = "acknowledge" => w.set \subseteq q.set
           /\ todo' \in Seq(WriteType) /\ q \in Writes(todo')
           /\ \A w \in Writes(todo) : w.do = "cursor" => w \in Writes(todo')
           /\ Dos(todo') \subseteq {"quarantine", "cursor"}
           /\ OrderedBy(todo', Wrong)
  <1> DEFINE names == UNION {w.set : w \in {todo[i] : i \in {j \in DOMAIN todo :
                                                              todo[j].do = "acknowledge"}}}
             last  == todo[Len(todo)]
             q     == Files("quarantine", names)
  <1>1. /\ todo # <<>> /\ Head(todo).do \in Booking
        /\ todo' = <<q>> \o (IF last.do = "cursor" THEN <<last>> ELSE <<>>)
    BY DEF WriteThrows, Booking
  <1>2. todo \in Seq(WriteType)
    BY DEF IInv, TypeOK
  <1>3. /\ Len(todo) \in Nat /\ DOMAIN todo = 1..Len(todo) /\ Len(todo) \in DOMAIN todo
        /\ \A i \in DOMAIN todo : todo[i] \in WriteType
    BY <1>1, <1>2
  <1>4. names \subseteq Names
    BY <1>3 DEF WriteType
  <1>5. \A w \in Writes(todo) : w.do = "acknowledge" => w.set \subseteq names
    BY DEF Writes
  <1> HIDE DEF names
  <1>6. q \in WriteType /\ q.do = "quarantine" /\ q.set = names
    BY <1>4, WriteTypes DEF Ops
  <1>7. last \in WriteType
    BY <1>3
  <1>8. ASSUME NEW w \in Writes(todo), w.do = "cursor" PROVE w = last
    <2>1. PICK i \in DOMAIN todo : w = todo[i]
      BY DEF Writes
    <2>2. OrderedBy(todo, Lasting)
      <3>1. Head(todo).do \in Dos(todo)
        BY <1>1, <1>2, Popped
      <3>2. QED
        BY <3>1, <1>1 DEF IInv, WritesSound
    <2>3. ~(i < Len(todo))
      BY <1>3, <1>7, <1>8, <2>1, <2>2 DEF OrderedBy, Lasting, WriteType
    <2>4. QED
      BY <2>1, <2>3, <1>3
  <1> HIDE DEF q, last
  <1>9. CASE last.do = "cursor"
    <2>1. todo' = <<q>> \o <<last>>
      BY <1>1, <1>9
    <2>2. <<q>> \in Seq(WriteType) /\ (\A w : w \in Writes(<<q>>) <=> w = q)
          /\ (\A d : d \in Dos(<<q>>) <=> d = q.do) /\ \A V : OrderedBy(<<q>>, V)
      BY <1>6, Single
    <2> DEFINE s == <<q>>
    <2>3. s \in Seq(WriteType) /\ todo' = s \o <<last>> /\ OrderedBy(s, Wrong)
          /\ (\A w : w \in Writes(s) <=> w = q) /\ \A d : d \in Dos(s) <=> d = q.do
      BY <2>1, <2>2
    <2> HIDE DEF s
    <2>4. \A d \in Dos(s) : <<d, last.do>> \notin Wrong
      BY <2>3, <1>6, <1>9 DEF Wrong, Booking
    <2>5. /\ todo' \in Seq(WriteType) /\ \A w : w \in Writes(todo') <=> w = q \/ w = last
          /\ \A d : d \in Dos(todo') <=> d = q.do \/ d = last.do
          /\ OrderedBy(todo', Wrong)
      BY <2>3, <2>4, <1>7, OneMore
    <2>6. QED
      BY <2>5, <1>5, <1>6, <1>8, <1>9
  <1>10. CASE last.do # "cursor"
    <2>1. todo' = <<q>>
      BY <1>1, <1>10
    <2>2. /\ todo' \in Seq(WriteType) /\ \A w : w \in Writes(todo') <=> w = q
          /\ \A d : d \in Dos(todo') <=> d = q.do
          /\ OrderedBy(todo', Wrong)
      BY <2>1, <1>6, Single
    <2>3. \A w \in Writes(todo) : w.do # "cursor"
      BY <1>8, <1>10
    <2>4. QED
      BY <2>2, <2>3, <1>5, <1>6
  <1>11. QED
    BY <1>9, <1>10

LEMMA WriteThrowsKept ==
  ASSUME IInv, WriteThrows  PROVE IInv'
  <1> DEFINE h == Head(todo)
  <1>1. /\ todo # <<>> /\ h.do \in Booking
        /\ throws' = throws + 1 /\ throws < MaxThrows
        /\ UNCHANGED <<arrived, storeVars, pc, run, starts, answered, crashes>>
    BY DEF WriteThrows, Throws, Booking
  <1>2. h.do \notin Special /\ h.do # "cursor"
    BY <1>1 DEF Special, Booking
  <1>3. /\ h.do \in Dos(todo) /\ pc \notin {"claim", "launch", "model", "send", "resend", "stopping"}
    BY <1>1, <1>2, AfterHead
  <1> HIDE DEF h
  <1>4. /\ Dos(todo) \subseteq Booking \cup {"remove", "cursor"}
        /\ Dos(todo) \cap {"completed", "receipt", "confirm"} # {}
             => /\ Timeout \in Inputs /\ Answering
                /\ \E w \in Writes(todo) : w.do = "acknowledge" /\ Timeout \in w.set
    BY <1>1, <1>3 DEF IInv, WritesSound
  <1>5. PICK q \in WriteType :
           /\ q.do = "quarantine"
           /\ \A w \in Writes(todo) : w.do = "acknowledge" => w.set \subseteq q.set
           /\ todo' \in Seq(WriteType) /\ q \in Writes(todo')
           /\ \A w \in Writes(todo) : w.do = "cursor" => w \in Writes(todo')
           /\ Dos(todo') \subseteq {"quarantine", "cursor"}
           /\ OrderedBy(todo', Wrong)
    BY ThrowFacts
  <1>6. \A w \in Writes(todo') : w.do \in {"quarantine", "cursor"}
    BY <1>5 DEF Dos
  <1>s. /\ Inputs' = Inputs /\ Excluded' = Excluded /\ Answering' = Answering
        /\ InMode("confirmed")' = InMode("confirmed")
        /\ \A S : Sources(S)' = Sources(S)
    BY <1>1, SameStore
  <1>7. TypeOK'
    BY <1>1, <1>5 DEF IInv, TypeOK
  <1>8. RecordSound'
    BY <1>1, <1>s DEF IInv, RecordSound
  <1>9. WritesSound'
    BY <1>5, <1>6 DEF WritesSound, Special, Booking
  <1>10. RunSound'
    BY <1>1, <1>3, <1>5, <1>s DEF IInv, RunSound, AtWork
  <1>11. TakenUp'
    <2>1. SUFFICES ASSUME pc \in {"notices", "clean", "collect"}, Timeout \in Inputs
                   PROVE  TakenUp'
      BY <1>1, <1>s DEF TakenUp
    <2>2. CASE "receipt" \in Dos(todo)
      <3>1. Timeout \in q.set
        BY <2>2, <1>4, <1>5
      <3>2. QED
        BY <3>1, <1>5 DEF TakenUp
    <2>3. \A w \in Writes(todo) : w.do \notin {"block", "quarantine", "settle"}
      BY <1>4 DEF Dos, Booking
    <2>4. QED
      BY <2>1, <2>2, <2>3, <1>1 DEF IInv, TakenUp
  <1>12. BatchFresh'
    <2>1. ~(record.st = "pending" /\ Timeout \in Inputs)
      <3>1. SUFFICES ASSUME record.st = "pending", Timeout \in Inputs PROVE FALSE
        OBVIOUS
      <3>2. h.do \notin Excluding /\ ~Answering
        BY <3>1, <1>3 DEF IInv, BatchFresh, RecordSound
      <3>3. QED
        BY <3>2, <1>1, <1>3, <1>4 DEF Booking, Excluding
    <2>2. "expose" \notin Dos(todo') /\ "pending" \notin Dos(todo')
      BY <1>5
    <2>3. QED
      BY <2>1, <2>2, <1>1, <1>3, <1>s DEF IInv, BatchFresh, AtWork
  <1>13. BatchPassed'
    <2>1. ASSUME Untouched PROVE Untouched'
      BY <2>1, <1>1, <1>6, <1>s DEF Untouched
    <2>2. ASSUME SetAside PROVE SetAside'
      <3>1. "quarantine" \notin Dos(todo)
        BY <1>4 DEF Booking
      <3>2. file[Timeout] = "confirmed"
        BY <2>2, <3>1 DEF SetAside, Dos
      <3>3. QED
        BY <3>2, <1>1 DEF SetAside
    <2>3. ASSUME Passing(record.batch) PROVE Passing(record.batch)' \/ SetAside'
      <3>1. CASE record.batch \subseteq Upto(cursor)
        BY <3>1, <1>1 DEF Passing
      <3>2. CASE \E w \in Writes(todo) : w.do = "cursor" /\ record.batch \subseteq Upto(w.to)
        BY <3>2, <1>1, <1>5 DEF Passing
      <3>3. CASE "confirm" \in Dos(todo)
        <4>1. Timeout \in Inputs /\ Timeout \in q.set
          BY <3>3, <1>4, <1>5
        <4>2. QED
          BY <4>1, <1>5, <1>s DEF SetAside
      <3>4. QED
        BY <2>3, <3>1, <3>2, <3>3 DEF Passing, Dos
    <2>4. QED
      BY <2>1, <2>2, <2>3, <1>1 DEF IInv, BatchPassed
  <1>14. NoThrow'
    <2>1. throws \in Nat
      BY DEF IInv, TypeOK
    <2>2. QED
      BY <2>1, <1>1 DEF NoThrow
  <1>15. QED
    BY <1>7, <1>8, <1>9, <1>10, <1>11, <1>12, <1>13, <1>14 DEF IInv

LEMMA RemoveFailsKept ==
  ASSUME IInv, RemoveFails  PROVE IInv'
  <1> DEFINE h == Head(todo)
             t == Tail(todo)
  <1>1. /\ todo # <<>> /\ h.do = "remove" /\ todo' = t
        /\ throws' = throws + 1 /\ throws < MaxThrows
        /\ UNCHANGED <<arrived, storeVars, pc, run, starts, answered, crashes>>
    BY DEF RemoveFails, Throws
  <1>2. h.do \notin Special /\ h.do # "cursor"
    BY <1>1 DEF Special
  <1>a. /\ t \in Seq(WriteType) /\ Writes(t) \subseteq Writes(todo)
        /\ \A w \in Writes(todo) : w = h \/ w \in Writes(t)
        /\ h.do \in Dos(todo) /\ Dos(t) \subseteq Dos(todo)
        /\ \A d \in Dos(todo) : d = h.do \/ d \in Dos(t)
        /\ \A d \in Dos(t) : <<h.do, d>> \notin Wrong
        /\ OrderedBy(t, Wrong)
        /\ \A V : OrderedBy(todo, V) => OrderedBy(t, V)
        /\ Dos(todo) \cap Special = {}
        /\ pc \notin {"claim", "launch", "model", "send", "resend", "stopping"}
    BY <1>1, <1>2, AfterHead
  <1> HIDE DEF h, t
  <1>s. /\ Inputs' = Inputs /\ Excluded' = Excluded /\ Answering' = Answering
        /\ InMode("confirmed")' = InMode("confirmed")
        /\ \A S : Sources(S)' = Sources(S)
    BY <1>1, SameStore
  <1>3. TypeOK'
    BY <1>1, <1>a DEF IInv, TypeOK
  <1>4. RecordSound'
    BY <1>1, <1>s DEF IInv, RecordSound
  <1>5. WritesSound'
    <2>1. WritesSound
      BY DEF IInv
    <2>2. Dos(t) \cap Booking = {}
      BY <1>1, <1>a DEF Wrong
    <2>3. QED
      BY <2>1, <2>2, <1>1, <1>a, <1>s DEF WritesSound, Booking
  <1>6. RunSound'
    BY <1>1, <1>a, <1>s DEF IInv, RunSound, AtWork
  <1>7. TakenUp'
    BY <1>1, <1>a, <1>s DEF IInv, TakenUp
  <1>8. BatchFresh'
    <2>1. "pending" \notin Dos(t) /\ "expose" \notin Dos(t)
      BY <1>a DEF Special
    <2>2. QED
      BY <2>1, <1>1, <1>a, <1>s DEF IInv, BatchFresh, AtWork
  <1>9. BatchPassed'
    <2>1. Untouched => Untouched'
      BY <1>1, <1>a, <1>s DEF Untouched
    <2>2. SetAside => SetAside'
      BY <1>1, <1>a, <1>s DEF SetAside
    <2>3. Passing(record.batch) => Passing(record.batch)'
      BY <1>1, <1>a DEF Passing
    <2>4. QED
      BY <2>1, <2>2, <2>3, <1>1 DEF IInv, BatchPassed
  <1>10. NoThrow'
    <2>1. throws \in Nat
      BY DEF IInv, TypeOK
    <2>2. QED
      BY <2>1, <1>1 DEF NoThrow
  <1>11. QED
    BY <1>3, <1>4, <1>5, <1>6, <1>7, <1>8, <1>9, <1>10 DEF IInv

LEMMA ExposeThrowsKept ==
  ASSUME IInv, ExposeThrows  PROVE IInv'
  <1> DEFINE b == Set("blocked")
  <1>1. /\ todo # <<>> /\ Head(todo).do = "expose" /\ todo' = <<b>> /\ pc' = "idle"
        /\ throws' = throws + 1 /\ throws < MaxThrows
        /\ UNCHANGED <<arrived, storeVars, run, starts, answered, crashes>>
    BY DEF ExposeThrows, Throws, Then
  <1>2. Exposing /\ Head(todo).do \in Dos(todo)
    BY <1>1, Shapes DEF Special
  <1>3. ~run.active /\ record.st = "pending"
    BY <1>2 DEF Exposing
  <1>4. starts = 0 /\ record.batch \cap Excluded = {}
    BY <1>1, <1>2, <1>3 DEF IInv, RecordSound, BatchFresh
  <1>5. b \in WriteType /\ b.do = "blocked"
    BY WriteTypes DEF Ops
  <1> HIDE DEF b
  <1>6. /\ todo' \in Seq(WriteType) /\ \A w : w \in Writes(todo') <=> w = b
        /\ \A d : d \in Dos(todo') <=> d = "blocked"
        /\ OrderedBy(todo', Wrong)
    BY <1>1, <1>5, Single
  <1>s. /\ Inputs' = Inputs /\ Excluded' = Excluded /\ Answering' = Answering
        /\ InMode("confirmed")' = InMode("confirmed")
        /\ \A S : Sources(S)' = Sources(S)
    BY <1>1, SameStore
  <1>7. TypeOK'
    BY <1>1, <1>6 DEF IInv, TypeOK, Points
  <1>8. RecordSound'
    BY <1>1, <1>s DEF IInv, RecordSound
  <1>9. WritesSound'
    BY <1>1, <1>3, <1>5, <1>6 DEF WritesSound, Special, Booking
  <1>10. RunSound'
    BY <1>1, <1>3 DEF RunSound, AtWork
  <1>11. TakenUp'
    BY <1>1 DEF TakenUp
  <1>12. BatchFresh'
    BY <1>1, <1>3, <1>4, <1>6, <1>s DEF BatchFresh, Excluding, AtWork
  <1>13. BatchPassed'
    BY <1>1, <1>4 DEF BatchPassed
  <1>14. NoThrow'
    <2>1. throws \in Nat
      BY DEF IInv, TypeOK
    <2>2. QED
      BY <2>1, <1>1 DEF NoThrow
  <1>15. QED
    BY <1>7, <1>8, <1>9, <1>10, <1>11, <1>12, <1>13, <1>14 DEF IInv

LEMMA StoreKept ==
  ASSUME IInv, Store  PROVE IInv'
  BY SaveRecordKept, CursorKept, ReceiptsKept, RetiredKept, ExposeKept, MoveFileKept,
     WriteThrowsKept, RemoveFailsKept, ExposeThrowsKept DEF Store

-----------------------------------------------------------------------------
(* The specification                                                       *)

LEMMA StutterKept ==
  ASSUME IInv, UNCHANGED vars  PROVE IInv'
  <1>1. arrived' \in Cursors /\ UNCHANGED <<storeVars, runVars, ghostVars>>
    BY DEF vars, IInv, TypeOK
  <1>2. QED
    BY <1>1, OnlyArrivals

LEMMA InvInit ==
  ASSUME Init  PROVE IInv
  <1>1. /\ arrived = 0 /\ cursor = 0 /\ record = NoRecord
        /\ receipts = [names |-> {}, ids |-> {}] /\ retired = {}
        /\ file = [n \in Names |-> "none"]
        /\ pc = "idle" /\ todo = <<>> /\ run = NoRun
        /\ starts = 0 /\ answered = {} /\ crashes = 0 /\ throws = 0
    BY DEF Init
  <1>2. record \in RecordType /\ record.st = "none" /\ record.batch = {} /\ record.covered = {}
        /\ record.kept = {}
    BY <1>1 DEF NoRecord, RecordType, States
  <1>3. file \in [Names -> Modes] /\ file[Timeout] = "none"
        /\ Inputs = {} /\ InMode("confirmed") = {}
    BY <1>1 DEF Modes, Inputs, InMode
  <1>4. todo \in Seq(WriteType) /\ Dos(todo) = {} /\ Writes(todo) = {} /\ OrderedBy(todo, Wrong)
    BY <1>1, Nothing
  <1>5. receipts.names = {} /\ receipts.ids = {} /\ run \in RunType /\ ~run.active
    BY <1>1, NoRunTyped
  <1>6. TypeOK
    BY <1>1, <1>2, <1>3, <1>4, <1>5 DEF TypeOK, Points
  <1>7. RecordSound
    BY <1>1, <1>2, <1>5 DEF RecordSound, Answering
  <1>8. WritesSound
    BY <1>4 DEF WritesSound
  <1>9. RunSound
    BY <1>1, <1>5 DEF RunSound, AtWork
  <1>10. TakenUp
    BY <1>1 DEF TakenUp
  <1>11. BatchFresh
    BY <1>1, <1>2, <1>4, <1>5 DEF BatchFresh
  <1>12. BatchPassed
    BY <1>1 DEF BatchPassed
  <1>13. NoThrow
    <2>1. AnsweredSound
      BY <1>1, <1>2, <1>3, <1>4, <1>5 DEF AnsweredSound, Answering
    <2>2. WindowSound
      BY <1>1 DEF WindowSound
    <2>3. QED
      BY <2>1, <2>2 DEF NoThrow
  <1>14. QED
    BY <1>6, <1>7, <1>8, <1>9, <1>10, <1>11, <1>12, <1>13 DEF IInv

LEMMA InvStep ==
  ASSUME IInv, [Next]_vars  PROVE IInv'
  <1>1. ASSUME Start PROVE IInv'
    <2>1. CASE \E ok \in BOOLEAN : Resent(ok)
      BY <2>1, ResentFails, ResentKept
    <2>2. CASE \E ok \in BOOLEAN : Noticed(ok)
      BY <2>2, NoticedKept
    <2>3. CASE Clean \/ Collect \/ StopCommand \/ StopReplied
      BY <2>3, CleanKept, CollectEnds, CollectAsks, StopCommandKept, StopRepliedKept
    <2>4. QED
      BY <1>1, <2>1, <2>2, <2>3 DEF Start
  <1>2. ASSUME Model PROVE IInv'
    <2>1. CASE \E ok \in BOOLEAN : Sent(ok)
      BY <2>1, SentKept
    <2>2. CASE \E ok \in BOOLEAN : Apology(ok)
      BY <2>2, ApologyKept
    <2>3. CASE Claim \/ Ineligible \/ Launch \/ Pipe \/ Absorb \/ Keep \/ Answer
      BY <2>3, ClaimKept, IneligibleKept, LaunchKept, PipeKept, AbsorbKept, KeepKept, AnswerKept
    <2>4. CASE Silent \/ TimeLimit \/ Fail \/ Stopped \/ End
      BY <2>4, SilentKept, TimeLimitKept, FailKept, StoppedKept, EndKept
    <2>5. QED
      BY <1>2, <2>1, <2>2, <2>3, <2>4 DEF Model
  <1>3. QED
    BY <1>1, <1>2, ArriveKept, BeginKept, StoreKept, CrashKept, StutterKept DEF Next

LEMMA InvAlways == Spec => []IInv
  <1>1. Init => IInv
    BY InvInit
  <1>2. IInv /\ [Next]_vars => IInv'
    BY InvStep
  <1>3. QED
    BY <1>1, <1>2, PTL DEF Spec

\* In every state of every run the rows, the files, the run's locals and the writes
\* still to do have the values the code gives them, and a file of the continuation
\* in the input directory has a record.
THEOREM TypeCorrect == Spec => []TypeOK
  <1>1. IInv => TypeOK
    BY DEF IInv
  <1>2. QED
    BY <1>1, InvAlways, PTL

\* The batch of a continuation that has started is past the cursor, set aside, or not
\* yet out of the continuation's own hands.
LEMMA BatchOut ==
  ASSUME IInv  PROVE BatchNotRunAgain
  <1>1. SUFFICES ASSUME pc = "launch", Free, starts = 1, crashes = 0
                 PROVE  run.prompt \cap record.batch \subseteq run.kept
    BY DEF BatchNotRunAgain
  <1>2. Writes(todo) = {}
    BY <1>1, Nothing DEF Free
  <1>3. Untouched \/ SetAside \/ Passing(record.batch)
    BY <1>1 DEF IInv, BatchPassed
  <1>4. Timeout \notin Inputs
    BY <1>1 DEF IInv, RunSound
  <1>5. CASE SetAside
    <2>1. Timeout \in InMode("confirmed")
      BY <1>2, <1>5 DEF SetAside, InMode
    <2>2. record.batch \subseteq Excluded
      BY <2>1 DEF Excluded, Sources, Source
    <2>3. run.prompt \cap Excluded = {}
      BY <1>1 DEF IInv, BatchFresh
    <2>4. QED
      BY <2>2, <2>3
  <1>6. CASE Passing(record.batch)
    <2>1. record.batch \subseteq Upto(cursor)
      BY <1>2, <1>6 DEF Passing
    <2>2. run.prompt \cap Upto(cursor) \subseteq run.kept
      BY <1>1, <1>4 DEF IInv, RunSound
    <2>3. QED
      BY <2>1, <2>2
  <1>7. QED
    BY <1>3, <1>4, <1>5, <1>6 DEF Untouched

\* However sends fail, the owner stops the run, newer messages come and the process dies
\* between two writes: a request is continued at most once, what a cached answer covers
\* is not put before a model again unless the bookkeeping could not be written, and
\* without a crash neither is the batch of a continuation that started.
THEOREM ContinuedAtMostOnce == Spec => []NeverRepeated
  <1>1. IInv => ContinuedOnce
    BY DEF IInv, RecordSound, ContinuedOnce
  <1>2. IInv => NotAnsweredAgain
    BY DEF IInv, NoThrow, AnsweredSound, NotAnsweredAgain
  <1>3. IInv => BatchNotRunAgain
    BY BatchOut
  <1>4. IInv => NeverRepeated
    BY <1>1, <1>2, <1>3 DEF NeverRepeated
  <1>5. QED
    BY <1>4, InvAlways, PTL
=============================================================================
