-------------------------- MODULE MessagePipeProofs --------------------------
(* Theorems about MessagePipe for every number of messages, retries, files, *)
(* frames and faults.                                                      *)
EXTENDS MessagePipe, NumberLemmas, FiniteSetTheorems, TLAPS

USE BoundsAssumption, HookedAssumption, TrackAssumption
USE DEF seriesVars, storeVars, loopVars, queueVars, runVars, childVars, ghostVars, HostSide

-----------------------------------------------------------------------------
(* The operators of the model                                              *)

LEMMA LastIn ==
  ASSUME NEW S, S \subseteq Messages, S # {}
  PROVE  Last(S) \in S /\ \A m \in S : m <= Last(S)
  <1>1. \E m \in S : \A n \in S : n <= m
    BY GreatestExists DEF Messages
  <1>2. QED
    BY <1>1, Zenon DEF Last

LEMMA HeadTailIn ==
  ASSUME NEW T, NEW s \in Seq(T), s # <<>>
  PROVE  /\ Head(s) \in T /\ Head(s) = s[1] /\ 1 \in DOMAIN s
         /\ Tail(s) \in Seq(T)
         /\ \A i \in DOMAIN Tail(s) : i + 1 \in DOMAIN s /\ Tail(s)[i] = s[i+1]
  <1>1. Len(s) \in Nat /\ Len(s) # 0 /\ DOMAIN s = 1..Len(s)
    OBVIOUS
  <1>2. Head(s) = s[1] /\ s[1] \in T /\ Tail(s) \in Seq(T)
    BY <1>1
  <1>3. Len(Tail(s)) = Len(s) - 1 /\ DOMAIN Tail(s) = 1..(Len(s) - 1)
    BY <1>1, <1>2
  <1>4. \A i \in 1..(Len(s) - 1) : i + 1 \in DOMAIN s /\ Tail(s)[i] = s[i+1]
    BY <1>1, <1>3
  <1>5. QED
    BY <1>1, <1>2, <1>3, <1>4

\* What is left of a sequence when n are dropped is a part of it.
LEMMA DropFirstIn ==
  ASSUME NEW T, NEW s \in Seq(T), NEW n \in Nat
  PROVE  /\ DropFirst(s, n) \in Seq(T)
         /\ \A i \in DOMAIN DropFirst(s, n) : \E j \in DOMAIN s : DropFirst(s, n)[i] = s[j]
  <1> DEFINE k == Smaller(n, Len(s))
             d == DropFirst(s, n)
  <1>1. Len(s) \in Nat /\ k \in 0..Len(s) /\ DOMAIN s = 1..Len(s)
    BY DEF Smaller
  <1>2. d = SubSeq(s, k + 1, Len(s))
    BY DEF DropFirst
  <1> HIDE DEF d, k
  <1>3. d = [i \in 1..(Len(s) - k) |-> s[k + i]]
    <2>1. Len(s) - (k + 1) + 1 = Len(s) - k /\ \A i \in 1..(Len(s) - k) : (k + 1) + i - 1 = k + i
      BY <1>1
    <2>2. QED
      BY <1>1, <1>2, <2>1
  <1>4. \A i \in 1..(Len(s) - k) : k + i \in DOMAIN s /\ s[k + i] \in T
    BY <1>1
  <1>5. d \in Seq(T)
    BY <1>1, <1>3, <1>4
  <1>6. QED
    BY <1>3, <1>4, <1>5 DEF d

LEMMA FilesSound ==
  ASSUME TypeOK
  PROVE  /\ MessagesIn(files) \subseteq Messages
         /\ \A F : F \subseteq files =>
              /\ IsFiniteSet(F) /\ Cardinality(F) \in Nat
              /\ MessagesIn(F) \subseteq MessagesIn(files)
              /\ MessagesIn(F) \subseteq Messages
  <1>1. \A F : F \subseteq files => IsFiniteSet(F) /\ Cardinality(F) \in Nat
    BY FS_Subset, FS_CardinalityType DEF TypeOK
  <1>2. \A f \in files : f.msgs \subseteq Messages
    BY DEF TypeOK, FileType
  <1>3. MessagesIn(files) \subseteq Messages
    BY <1>2 DEF MessagesIn
  <1>4. \A F : F \subseteq files => MessagesIn(F) \subseteq MessagesIn(files)
    BY DEF MessagesIn
  <1>5. QED
    BY <1>1, <1>3, <1>4, Zenon

LEMMA WithModeSound ==
  ASSUME TypeOK, NEW F, F \subseteq files, NEW mode \in {"waiting", "deferred", "final"}
  PROVE  /\ WithMode(F, mode) \subseteq FileType
         /\ IsFiniteSet(WithMode(F, mode))
         /\ MessagesIn(WithMode(F, mode)) \subseteq MessagesIn(files)
         /\ (\A f \in files : ~f.done) => \A g \in WithMode(F, mode) : ~g.done
  <1> DEFINE changed == {File(f.id, f.msgs, mode, f.done) : f \in F}
             c == [f \in F |-> File(f.id, f.msgs, mode, f.done)]
  <1>1. \A f \in files : f \in FileType
    BY DEF TypeOK
  <1>2. changed \subseteq FileType
    BY <1>1 DEF File, FileType
  <1>3. IsFiniteSet(changed)
    <2>1. changed = {c[f] : f \in F} /\ DOMAIN c = F
      OBVIOUS
    <2>2. IsFiniteSet(F)
      BY FilesSound
    <2> HIDE DEF changed, c
    <2>3. QED
      BY <2>1, <2>2, ImageFinite
  <1>4. \A g \in changed : \E f \in files : g.msgs = f.msgs /\ g.done = f.done
    BY DEF File
  <1>5. WithMode(F, mode) = (files \ F) \cup changed
    BY DEF WithMode
  <1> HIDE DEF changed, c
  <1>6. \A g \in WithMode(F, mode) : \E f \in files : g.msgs = f.msgs /\ g.done = f.done
    BY <1>4, <1>5
  <1>7. IsFiniteSet(files \ F)
    BY FilesSound
  <1>8. WithMode(F, mode) \subseteq FileType /\ IsFiniteSet(WithMode(F, mode))
    BY <1>1, <1>2, <1>3, <1>5, <1>7, FS_Union
  <1>9. MessagesIn(WithMode(F, mode)) \subseteq MessagesIn(files)
    BY <1>6 DEF MessagesIn
  <1>10. QED
    BY <1>6, <1>8, <1>9

LEMMA MarkDoneSound ==
  ASSUME TypeOK, NEW names
  PROVE  /\ MarkDone(names) \subseteq FileType
         /\ IsFiniteSet(MarkDone(names))
         /\ MessagesIn(MarkDone(names)) \subseteq MessagesIn(files)
  <1> DEFINE c == [f \in files |-> File(f.id, f.msgs, "waiting", f.done \/ f.id \in names)]
  <1>1. \A f \in files : f \in FileType
    BY DEF TypeOK
  <1>2. MarkDone(names) \subseteq FileType
    <2>1. ASSUME NEW f \in files, NEW d \in BOOLEAN
          PROVE  File(f.id, f.msgs, "waiting", d) \in FileType
      BY <1>1 DEF File, FileType
    <2>2. \A f \in files : (f.done \/ f.id \in names) \in BOOLEAN
      OBVIOUS
    <2>3. QED
      BY <2>1, <2>2, Zenon DEF MarkDone
  <1>3. IsFiniteSet(MarkDone(names))
    <2>1. MarkDone(names) = {c[f] : f \in files} /\ DOMAIN c = files
      BY DEF MarkDone
    <2>2. IsFiniteSet(files)
      BY DEF TypeOK
    <2> HIDE DEF c
    <2>3. QED
      BY <2>1, <2>2, ImageFinite
  <1>4. \A g \in MarkDone(names) : \E f \in files : g.msgs = f.msgs
    BY DEF File, MarkDone
  <1>5. QED
    BY <1>2, <1>3, <1>4 DEF MessagesIn

\* There is always a fresh name: one number more than the names in use cannot all
\* be in use.
LEMMA FreshIdSound ==
  ASSUME TypeOK, \A i \in DOMAIN frames : IsFiniteSet(frames[i].names)
  PROVE  FreshId \in Nat /\ FreshId \notin UsedIds
  <1> DEFINE k == Cardinality(UsedIds)
  <1>1. IsFiniteSet({f.id : f \in files})
    <2> DEFINE c == [f \in files |-> f.id]
               ids == {f.id : f \in files}
    <2>1. ids = {c[f] : f \in files} /\ DOMAIN c = files
      OBVIOUS
    <2>2. IsFiniteSet(files)
      BY DEF TypeOK
    <2> HIDE DEF c, ids
    <2>3. IsFiniteSet(ids)
      BY <2>1, <2>2, ImageFinite
    <2>4. QED
      BY <2>3 DEF ids
  <1>2. IsFiniteSet({frames[i].names : i \in DOMAIN frames})
    <2> DEFINE c == [i \in DOMAIN frames |-> frames[i].names]
               named == {frames[i].names : i \in DOMAIN frames}
    <2>1. named = {c[i] : i \in DOMAIN frames} /\ DOMAIN c = DOMAIN frames
      OBVIOUS
    <2>2. IsFiniteSet(DOMAIN frames)
      <3>1. Len(frames) \in Nat /\ DOMAIN frames = 1..Len(frames)
        BY DEF TypeOK
      <3>2. QED
        BY <3>1, FS_Interval
    <2> HIDE DEF c, named
    <2>3. IsFiniteSet(named)
      BY <2>1, <2>2, ImageFinite
    <2>4. QED
      BY <2>3 DEF named
  <1>3. IsFiniteSet(UNION {frames[i].names : i \in DOMAIN frames})
    BY <1>2, FS_UNION
  <1>4. IsFiniteSet(UsedIds)
    BY <1>1, <1>3, FS_Union DEF UsedIds
  <1>5. k \in Nat
    BY <1>4, FS_CardinalityType
  <1>6. \E n \in 1..(k + 1) : n \notin UsedIds
    <2> SUFFICES ASSUME 1..(k + 1) \subseteq UsedIds PROVE FALSE
      OBVIOUS
    <2>1. Cardinality(1..(k + 1)) <= k
      BY <1>4, FS_Subset
    <2> HIDE DEF k
    <2>2. Cardinality(1..(k + 1)) = k + 1
      BY <1>5, FS_Interval
    <2>3. QED
      BY <1>5, <2>1, <2>2
  <1>7. FreshId \in 1..(k + 1) /\ FreshId \notin UsedIds
    BY <1>6, Zenon DEF FreshId
  <1>8. QED
    BY <1>5, <1>7
-----------------------------------------------------------------------------
(* The inductive invariant.  HandedBeforePassed does not carry itself: a   *)
(* run, an envelope, a notice or a replay moves the cursor to a cursor     *)
(* noted earlier, so each of these is covered by what was handed over.     *)

Covered(c) == UpTo(c) \subseteq handed

CursorsCovered ==
  /\ Covered(confirmed) /\ Covered(held) /\ Covered(expiring) /\ Covered(piped)
  /\ Covered(activeTarget) /\ Covered(surviving) /\ Covered(prior)
  /\ \A i \in DOMAIN batches : Covered(batches[i])

\* A batch in hand begins where what was handed over ends, or earlier.
PolledSound ==
  polled # None => /\ 1 <= polled.from /\ polled.from <= polled.to
                   /\ polled.to <= arrived
                   /\ Covered(polled.from - 1)

\* Until the child starts, the run's own prompt counts as handed over.
RunSound ==
  /\ phase = "none" => run = NoRun
  /\ phase = "prep" => /\ UpTo(run.target) \subseteq handed \cup run.prompt
                       /\ run.orig = run.target /\ run.boundary = 0
  /\ phase \notin {"none", "prep"} =>
       Covered(run.target) /\ Covered(run.orig) /\ Covered(run.boundary)
  /\ run.from <= confirmed

HandedSound ==
  /\ handed \subseteq UpTo(arrived) /\ run.prompt \subseteq UpTo(arrived)
  /\ receipts \subseteq handed
  /\ MessagesIn(files) \subseteq handed
  /\ seen <= arrived

ChildSound ==
  /\ phase # "live" => runner = NoRunner /\ frames = <<>> /\ activeTarget = 0
  /\ phase # "none" => \A f \in files : ~f.done
  /\ phase = "prep" => run.prompt \cap receipts = {}
  /\ \A i \in DOMAIN frames : IsFiniteSet(frames[i].names)

\* NothingForgotten, and that a window past the cursor is not forgotten either: a
\* poll that finds everything in the window dispatches nothing.
ChatKept ==
  /\ expiring # 0 => confirmed >= expiring
  /\ phase = "none" /\ ((polled = None /\ seen > confirmed) \/ piped > confirmed)
       => work \/ retry \/ held # 0 \/ expiring # 0 \/ parked

IInv == /\ TypeOK /\ CursorsCovered /\ PolledSound /\ RunSound /\ HandedSound
        /\ ChildSound /\ ChatKept

-----------------------------------------------------------------------------
(* Types                                                                   *)

LEMMA LargerIn ==
  ASSUME NEW a \in Cursors, NEW b \in Cursors
  PROVE  Larger(a, b) \in Cursors /\ Larger(a, b) \in {a, b}
         /\ Larger(a, b) >= a /\ Larger(a, b) >= b
  BY DEF Larger, Cursors

LEMMA TurnType ==
  ASSUME TypeOK, NEW first, NEW t \in Cursors
  PROVE  /\ CursorAfterTurn(first, t) \in Cursors
         /\ CursorAfterTurn(first, t) \in {confirmed, t, piped, 0}
         /\ CursorAfterTurn(first, t) >= confirmed
  <1> DEFINE w == IF first THEN 0 ELSE piped
  <1>1. 0 \in Cursors /\ piped \in Cursors /\ confirmed \in Cursors
    BY DEF TypeOK, Cursors
  <1>2. w \in Cursors /\ w \in {0, piped}
    BY <1>1
  <1>3. CursorAfterTurn(first, t) = Larger(confirmed, Larger(t, w))
    BY DEF CursorAfterTurn, CursorAfterConfirmedSend
  <1> HIDE DEF w
  <1>4. Larger(t, w) \in Cursors /\ Larger(t, w) \in {t, w}
    BY <1>2, LargerIn
  <1>5. QED
    BY <1>1, <1>2, <1>3, <1>4, LargerIn

LEMMA DisturbedType ==
  ASSUME TypeOK, Disturbed
  PROVE  faults' \in 0..MaxFaults
  <1>1. faults \in 0..MaxFaults /\ faults < MaxFaults /\ faults' = faults + 1
    BY DEF TypeOK, Disturbed
  <1>2. QED
    BY <1>1

LEMMA TrackType ==
  ASSUME NEW S, S \subseteq Messages
  PROVE  Track(S) \subseteq Messages
  BY DEF Track

LEMMA SettledType ==
  ASSUME TypeOK, NEW S, S \subseteq Messages, Settled(S)
  PROVE  settled' \subseteq Messages
  BY TrackType DEF TypeOK, Settled

LEMMA UpToType ==
  ASSUME NEW c \in Cursors
  PROVE  UpTo(c) \subseteq Messages
  BY DEF UpTo, Cursors, Messages

LEMMA EmitsType ==
  ASSUME TypeOK, NEW fs \in Seq(FrameType), Emits(fs)
  PROVE  frames' \in Seq(FrameType)
  BY DEF TypeOK, Emits

LEMMA FrameIn ==
  ASSUME TypeOK, frames # <<>>
  PROVE  /\ Head(frames) \in FrameType /\ Head(frames) = frames[1] /\ 1 \in DOMAIN frames
         /\ Head(frames).n \in Nat /\ Head(frames).names \subseteq Nat
         /\ Head(frames).msgs \subseteq Messages /\ Head(frames).text \in BOOLEAN
         /\ Tail(frames) \in Seq(FrameType)
         /\ \A i \in DOMAIN Tail(frames) : i + 1 \in DOMAIN frames
                                          /\ Tail(frames)[i] = frames[i+1]
  <1>1. frames \in Seq(FrameType)
    BY DEF TypeOK
  <1>2. /\ Head(frames) \in FrameType /\ Head(frames) = frames[1] /\ 1 \in DOMAIN frames
        /\ Tail(frames) \in Seq(FrameType)
        /\ \A i \in DOMAIN Tail(frames) : i + 1 \in DOMAIN frames
                                         /\ Tail(frames)[i] = frames[i+1]
    BY <1>1, HeadTailIn
  <1>3. \A f \in FrameType : /\ f.n \in Nat /\ f.names \subseteq Nat
                            /\ f.msgs \subseteq Messages /\ f.text \in BOOLEAN
    BY DEF FrameType
  <1>4. QED
    BY <1>2, <1>3

LEMMA OneFrame ==
  ASSUME NEW f \in FrameType
  PROVE  <<f>> \in Seq(FrameType)
  OBVIOUS

LEMMA CountFrame ==
  ASSUME NEW kind \in {"absorbed", "consumed"}, NEW n \in Nat
  PROVE  <<Frame(kind, n, {}, {}, FALSE)>> \in Seq(FrameType)
  <1>1. Frame(kind, n, {}, {}, FALSE) \in FrameType
    BY DEF Frame, FrameType
  <1>2. QED
    BY <1>1, OneFrame, Zenon

\* The end of a run leaves the types of what it writes.
LEMMA FinishType ==
  ASSUME TypeOK, NEW ok \in BOOLEAN, NEW cursor \in Cursors, NEW h \in Cursors,
         NEW more \in BOOLEAN, Finish(ok, cursor, h, more)
  PROVE  /\ confirmed' \in Cursors /\ held' \in Cursors
         /\ work' \in BOOLEAN /\ retry' \in BOOLEAN /\ retryCount' \in 0..MaxRetries
         /\ parked' \in BOOLEAN /\ phase' \in Phases /\ run' \in RunType
  <1>1. held' \in Cursors
    BY DEF Finish, HeldAfter, Cursors
  <1>2. retryCount' \in 0..MaxRetries
    BY DEF Finish, RetryCountAfter, TypeOK
  <1>3. run' \in RunType /\ phase' \in Phases
    BY DEF Finish, NoRun, RunType, Cursors, Phases
  <1>4. work' \in BOOLEAN
    <2>1. work' = (work \/ more \/ ChatNeedsRunAfterRun(ok, cursor))
      BY DEF Finish
    <2>2. QED
      BY <2>1, Zenon
  <1>5. retry' \in BOOLEAN
    <2>1. retry' = (retry \/ (~ok /\ retryCount < MaxRetries))
      BY DEF Finish
    <2>2. QED
      BY <2>1, Zenon
  <1>6. parked' \in BOOLEAN
    <2>1. CASE ok
      <3>1. parked' = (cursor = run.from)
        BY <2>1 DEF Finish
      <3>2. QED
        BY <3>1, Zenon
    <2>2. CASE ~ok
      <3>1. parked' = (retryCount >= MaxRetries)
        BY <2>2, Zenon DEF Finish
      <3>2. retryCount \in Int /\ MaxRetries \in Int
        BY DEF TypeOK
      <3>3. QED
        BY <3>1, <3>2
    <2>3. QED
      BY <2>1, <2>2
  <1>7. QED
    BY <1>1, <1>2, <1>3, <1>4, <1>5, <1>6 DEF Finish

LEMMA TypeInit == Init => TypeOK
  <1> SUFFICES ASSUME Init PROVE TypeOK
    OBVIOUS
  <1>1. IsFiniteSet(files)
    BY FS_EmptySet DEF Init
  <1>2. 0 \in Cursors
    BY DEF Cursors
  <1>3. run \in RunType
    BY <1>2 DEF Init, NoRun, RunType
  <1>4. /\ polled \in [from : Cursors, to : Cursors] /\ phase \in Phases
        /\ runner \in [st : {"off", "boot", "turn", "wait", "gone"},
                       msgs : SUBSET Messages, fresh : BOOLEAN]
    BY <1>2 DEF Init, None, NoRunner, Phases
  <1>5. /\ batches \in Seq(Messages) /\ frames \in Seq(FrameType)
        /\ outbox \in Seq(SUBSET Messages)
    BY DEF Init
  <1>6. retryCount \in 0..MaxRetries /\ faults \in 0..MaxFaults
    BY DEF Init
  <1>7. QED
    BY <1>1, <1>2, <1>3, <1>4, <1>5, <1>6 DEF Init, TypeOK
RunnerType == [st : {"off", "boot", "turn", "wait", "gone"}, msgs : SUBSET Messages,
               fresh : BOOLEAN]

LEMMA WaitingSound ==
  ASSUME TypeOK, NEW mode
  PROVE  /\ InMode(mode) \subseteq files
         /\ Cardinality(InMode(mode)) \in Nat
         /\ Track(MessagesIn(InMode(mode))) \subseteq Messages
         /\ files \ InMode(mode) \subseteq FileType /\ IsFiniteSet(files \ InMode(mode))
  <1>1. InMode(mode) \subseteq files
    BY DEF InMode
  <1>2. files \ InMode(mode) \subseteq files
    OBVIOUS
  <1>3. QED
    BY <1>1, <1>2, FilesSound, TrackType DEF TypeOK

\* The child touches its files, its frames and its envelopes.
LEMMA ChildType ==
  ASSUME TypeOK, Child
  PROVE  TypeOK'
  <1>0. /\ runner \in RunnerType /\ runner.msgs \subseteq Messages
        /\ files \subseteq FileType /\ IsFiniteSet(files) /\ frames \in Seq(FrameType)
    BY DEF TypeOK, RunnerType
  <1>1. ASSUME files' \subseteq FileType, IsFiniteSet(files'), frames' \in Seq(FrameType),
               runner' \in RunnerType, UNCHANGED <<HostSide, outbox, ghostVars>>
        PROVE  TypeOK'
    BY <1>1 DEF TypeOK, RunnerType
  <1>2. CASE RunnerBoots
    <2>1. files' \subseteq FileType /\ IsFiniteSet(files')
      BY <1>2, WithModeSound DEF RunnerBoots
    <2>2. runner' \in RunnerType
      BY <1>0, <1>2, FilesSound, TrackType DEF RunnerBoots, RunnerType
    <2>3. QED
      BY <1>0, <1>1, <1>2, <2>1, <2>2 DEF RunnerBoots
  <1>3. CASE RunnerSupersedes
    <2>1. files' \subseteq FileType /\ IsFiniteSet(files')
      BY <1>3, FS_EmptySet DEF RunnerSupersedes
    <2>2. runner' \in RunnerType
      BY <1>0, <1>3, FilesSound, TrackType DEF RunnerSupersedes, RunnerType
    <2>3. frames' \in Seq(FrameType)
      BY <1>3, FilesSound, CountFrame, EmitsType DEF RunnerSupersedes
    <2>4. QED
      BY <1>1, <1>3, <2>1, <2>2, <2>3 DEF RunnerSupersedes
  <1>4. CASE RunnerHolds
    <2>1. files' \subseteq FileType /\ IsFiniteSet(files')
      BY <1>4, WaitingSound DEF RunnerHolds
    <2>2. runner' \in RunnerType
      BY <1>0, <1>4, WaitingSound DEF RunnerHolds, RunnerType
    <2>3. frames' \in Seq(FrameType)
      BY <1>4, WaitingSound, CountFrame, EmitsType DEF RunnerHolds
    <2>4. QED
      BY <1>1, <1>4, <2>1, <2>2, <2>3 DEF RunnerHolds
  <1>5. CASE RunnerDefers
    <2>1. files' \subseteq FileType /\ IsFiniteSet(files')
      BY <1>5, WaitingSound, WithModeSound DEF RunnerDefers
    <2>2. runner' \in RunnerType
      BY <1>0, <1>5, WaitingSound DEF RunnerDefers, RunnerType
    <2>3. QED
      BY <1>0, <1>1, <1>5, <2>1, <2>2 DEF RunnerDefers
  <1>6. CASE RunnerSends
    <2>1. outbox' \in Seq(SUBSET Messages)
      BY <1>0, <1>6 DEF RunnerSends, TypeOK
    <2>2. runner' \in RunnerType /\ run' \in RunType
      BY <1>0, <1>6 DEF RunnerSends, RunnerType, TypeOK, RunType
    <2>3. QED
      BY <1>6, <2>1, <2>2, DisturbedType DEF RunnerSends, TypeOK, RunnerType
  <1>7. ASSUME NEW text \in BOOLEAN, RunnerAnswers(text) PROVE TypeOK'
    <2> DEFINE kept == InMode("deferred")
               names == {f.id : f \in kept}
               result == Frame("result", 0, names, runner.msgs, text)
               before == IF kept = {} THEN <<>>
                         ELSE <<Frame("absorbed", Cardinality(kept), {}, {}, FALSE)>>
    <2>1. /\ Emits(before \o <<result>>) /\ files' = WithMode(kept, "final")
          /\ runner' = [runner EXCEPT !.st = "wait", !.fresh = FALSE]
          /\ UNCHANGED <<HostSide, outbox, ghostVars>>
      BY <1>7 DEF RunnerAnswers
    <2>2. files' \subseteq FileType /\ IsFiniteSet(files')
      BY <2>1, WaitingSound, WithModeSound
    <2>3. result \in FrameType
      <3>1. names \subseteq Nat
        BY <1>0 DEF InMode, FileType
      <3> HIDE DEF names
      <3>2. QED
        BY <1>0, <3>1 DEF Frame, FrameType
    <2>4. before \in Seq(FrameType)
      <3>1. Cardinality(kept) \in Nat
        BY WaitingSound
      <3>2. <<Frame("absorbed", Cardinality(kept), {}, {}, FALSE)>> \in Seq(FrameType)
        BY <3>1, CountFrame
      <3>3. <<>> \in Seq(FrameType)
        OBVIOUS
      <3>4. QED
        BY <3>2, <3>3, Zenon
    <2>5. <<result>> \in Seq(FrameType)
      BY <2>3, OneFrame
    <2> HIDE DEF before, result
    <2>6. before \o <<result>> \in Seq(FrameType)
      BY <2>4, <2>5
    <2>7. frames' \in Seq(FrameType)
      BY <2>1, <2>6, EmitsType
    <2>8. runner' \in RunnerType
      BY <1>0, <2>1 DEF RunnerType
    <2>9. QED
      BY <1>1, <2>1, <2>2, <2>7, <2>8
  <1>8. CASE RunnerTakesNext
    <2>1. files' \subseteq FileType /\ IsFiniteSet(files')
      BY <1>8, WaitingSound DEF RunnerTakesNext
    <2>2. runner' \in RunnerType
      BY <1>0, <1>8, WaitingSound DEF RunnerTakesNext, RunnerType
    <2>3. frames' \in Seq(FrameType)
      BY <1>8, WaitingSound, CountFrame, EmitsType DEF RunnerTakesNext
    <2>4. QED
      BY <1>1, <1>8, <2>1, <2>2, <2>3 DEF RunnerTakesNext
  <1>9. CASE RunnerLeaves
    BY <1>0, <1>1, <1>9 DEF RunnerLeaves, RunnerGone, RunnerType
  <1>10. CASE RunnerFails
    <2>1. PICK early \in {FALSE, runner.fresh} : Emits(<<Frame("error", 0, {}, {}, early)>>)
      BY <1>10 DEF RunnerFails
    <2>2. Frame("error", 0, {}, {}, early) \in FrameType
      BY <1>0 DEF Frame, FrameType, RunnerType
    <2>3. frames' \in Seq(FrameType)
      BY <2>1, <2>2, OneFrame, EmitsType
    <2>4. runner' \in RunnerType
      BY <1>0, <1>10 DEF RunnerFails, RunnerGone, RunnerType
    <2>5. QED
      BY <1>0, <1>1, <1>10, <2>3, <2>4 DEF RunnerFails
  <1>11. QED
    BY <1>2, <1>3, <1>4, <1>5, <1>6, <1>7, <1>8, <1>9, <1>10 DEF Child

LEMMA RestartType ==
  ASSUME TypeOK, Crash \/ CrashAfterReceipt
  PROVE  TypeOK'
  <1>0. 0 \in Cursors
    BY DEF Cursors
  <1>1. /\ receipts' \subseteq Messages /\ settled' \subseteq Messages
        /\ files' \subseteq FileType /\ IsFiniteSet(files')
        /\ Restart(TRUE)
    <2>1. CASE Crash
      BY <2>1, WithModeSound DEF Crash, Restart, TypeOK
    <2>2. CASE CrashAfterReceipt
      <3>1. frames # <<>>
        BY <2>2 DEF CrashAfterReceipt, NextFrame
      <3>2. Head(frames).msgs \subseteq Messages
        BY <3>1, FrameIn
      <3>3. settled' \subseteq Messages
        BY <2>2, <3>2, SettledType DEF CrashAfterReceipt, Restart
      <3>4. Acknowledged(Head(frames).names) \subseteq files
        BY DEF Acknowledged
      <3>5. receipts' \subseteq Messages
        BY <2>2, <3>4, FilesSound DEF CrashAfterReceipt, Restart, Receipted, TypeOK
      <3>6. files' \subseteq FileType /\ IsFiniteSet(files')
        BY <2>2, MarkDoneSound DEF CrashAfterReceipt, Restart
      <3>7. QED
        BY <2>2, <3>3, <3>5, <3>6 DEF CrashAfterReceipt, Restart
    <2>3. QED
      BY <2>1, <2>2
  <1>2. work' \in BOOLEAN /\ parked' \in BOOLEAN
    <2>1. PICK expired \in {FALSE, held # 0} :
             /\ work' = (~expired /\ (arrived > confirmed \/ files # {}))
             /\ parked' = (expired /\ confirmed >= held)
      BY <1>1 DEF Restart
    <2>2. QED
      BY <2>1, Zenon
  <1>3. faults' \in 0..MaxFaults
    BY <1>1, DisturbedType DEF Restart
  <1>4. run' \in RunType /\ runner' \in RunnerType /\ phase' \in Phases
    BY <1>0, <1>1 DEF Restart, NoRun, RunType, NoRunner, RunnerType, Phases
  <1>5. polled' \in [from : Cursors, to : Cursors]
    BY <1>0, <1>1 DEF Restart, None
  <1>6. batches' \in Seq(Messages) /\ frames' \in Seq(FrameType) /\ retryCount' \in 0..MaxRetries
    BY <1>1 DEF Restart
  <1>7. QED
    BY <1>0, <1>1, <1>2, <1>3, <1>4, <1>5, <1>6 DEF Restart, TypeOK, RunnerType

LEMMA TypeStep == TypeOK /\ PolledSound /\ ChildSound /\ [Next]_vars => TypeOK'
  <1> SUFFICES ASSUME TypeOK, PolledSound, ChildSound, [Next]_vars PROVE TypeOK'
    OBVIOUS
  <1>0. 0 \in Cursors /\ MaxMessage \in Nat
    BY DEF Cursors
  <1>1. CASE UNCHANGED vars
    BY <1>1 DEF TypeOK, vars
  <1>2. CASE Arrive
    <2>1. arrived' \in Cursors
      BY <1>2 DEF TypeOK, Arrive, Cursors
    <2>2. work' \in BOOLEAN
      BY <1>2 DEF TypeOK, Arrive, Enqueue
    <2>3. QED
      BY <1>2, <2>1, <2>2 DEF TypeOK, Arrive
  <1>3. CASE PollRead
    <2>1. PendingMessageCursor \in Cursors
      BY LargerIn DEF TypeOK, PendingMessageCursor
    <2>2. polled' \in [from : Cursors, to : Cursors]
      BY <1>0, <1>3, <2>1 DEF TypeOK, PollRead, None, Cursors
    <2>3. QED
      BY <1>3, <2>2 DEF TypeOK, PollRead
  <1>4. CASE PollDispatch
    <2>1. polled' \in [from : Cursors, to : Cursors]
      BY <1>0, <1>4 DEF PollDispatch, None
    <2>2. CASE EnqueueBatch
      BY <1>4, <2>1, <2>2 DEF TypeOK, PollDispatch, EnqueueBatch, Enqueue
    <2>3. CASE PipeBatch
      <3>1. /\ polled.from \in Messages /\ polled.to \in Messages
            /\ polled.from..polled.to \subseteq Messages /\ polled.from..polled.to # {}
        BY <1>0, <1>4 DEF PollDispatch, PolledSound, TypeOK, Cursors, Messages
      <3>2. FreshId \in Nat
        BY FreshIdSound DEF ChildSound
      <3>3. files' = files \cup {File(FreshId, polled.from..polled.to, "waiting", FALSE)}
        BY <2>3 DEF PipeBatch
      <3>4. File(FreshId, polled.from..polled.to, "waiting", FALSE) \in FileType
        BY <3>1, <3>2 DEF File, FileType
      <3>5. files' \subseteq FileType /\ IsFiniteSet(files')
        BY <3>3, <3>4, FS_AddElement DEF TypeOK
      <3>6. batches' \in Seq(Messages) /\ handed' \subseteq Messages /\ piped' \in Cursors
        BY <2>3, <3>1 DEF PipeBatch, Handed, TypeOK
      <3>7. QED
        BY <1>4, <2>1, <2>3, <3>5, <3>6 DEF TypeOK, PollDispatch, PipeBatch
    <2>4. QED
      BY <1>4, <2>2, <2>3 DEF PollDispatch
  <1>5. CASE SettleHeld
    BY <1>0, <1>5 DEF TypeOK, SettleHeld
  <1>6. CASE ReplayDue
    BY <1>6 DEF TypeOK, ReplayDue, Enqueue
  <1>7. CASE ReplayExpires
    <2>1. settled' \subseteq Messages
      BY <1>7, UpToType, SettledType DEF TypeOK, ReplayExpires
    <2>2. QED
      BY <1>0, <1>7, <2>1 DEF TypeOK, ReplayExpires
  <1>8. CASE RetryTimer
    BY <1>8 DEF TypeOK, RetryTimer, Enqueue
  <1>9. CASE StartRun
    <2> DEFINE owed == StillOwed(files)
               prompt == PromptOf(owed)
    <2>1. owed \subseteq files
      BY DEF StillOwed
    <2>2. prompt \subseteq Messages
      <3>1. MessagesIn(owed) \subseteq Messages
        BY <2>1, FilesSound
      <3>2. (confirmed + 1)..arrived \subseteq Messages
        BY <1>0 DEF TypeOK, Cursors, Messages
      <3>3. QED
        BY <3>1, <3>2 DEF PromptOf
    <2>3. files' \subseteq FileType /\ IsFiniteSet(files')
      BY <1>9, <2>1, FilesSound DEF StartRun, TypeOK
    <2>4. CASE prompt = {}
      <3>1. confirmed' = arrived /\ held' = HeldAfter(held, arrived) /\ retryCount' = 0
            /\ UNCHANGED <<phase, run>>
        BY <1>9, <2>4 DEF StartRun
      <3>2. held' \in Cursors /\ confirmed' \in Cursors /\ retryCount' \in 0..MaxRetries
            /\ phase' \in Phases /\ run' \in RunType
        BY <1>0, <3>1 DEF HeldAfter, TypeOK
      <3> HIDE DEF owed, prompt
      <3>3. QED
        BY <1>9, <2>3, <3>2 DEF StartRun, TypeOK
    <2>5. CASE prompt # {}
      <3>1. /\ phase' = "prep"
            /\ run' = [NoRun EXCEPT !.target = Last(prompt), !.orig = Last(prompt),
                         !.from = confirmed, !.deferredAtStart = owed # {},
                         !.prompt = prompt]
            /\ UNCHANGED <<confirmed, held, retryCount>>
        BY <1>9, <2>5 DEF StartRun
      <3> HIDE DEF prompt
      <3>2. Last(prompt) \in Messages
        BY <2>2, <2>5, LastIn
      <3>3. Last(prompt) \in Cursors /\ confirmed \in Cursors
        BY <3>2 DEF Messages, Cursors, TypeOK
      <3>4. run' \in RunType
        <4>1. \A c \in Cursors, d \in BOOLEAN :
                [NoRun EXCEPT !.target = c, !.orig = c, !.from = confirmed,
                   !.deferredAtStart = d, !.prompt = prompt] \in RunType
          BY <1>0, <2>2, <3>3 DEF NoRun, RunType
        <4>2. (owed # {}) \in BOOLEAN
          OBVIOUS
        <4>3. QED
          BY <3>1, <3>3, <4>1, <4>2, Zenon
      <3>5. QED
        BY <1>9, <2>3, <3>1, <3>4 DEF StartRun, TypeOK, Phases
    <2>6. QED
      BY <2>4, <2>5
  <1>10. CASE BeginActiveRun
    <2>1. run.target \in Cursors /\ run.prompt \subseteq Messages
      BY DEF TypeOK, RunType
    <2>2. surviving' \in Cursors /\ prior' \in Cursors
      BY <1>10, <2>1, LargerIn DEF TypeOK, BeginActiveRun, PriorBoundary
    <2>3. run' \in RunType
      BY <1>10 DEF TypeOK, BeginActiveRun, RunType
    <2>4. runner' \in [st : {"off", "boot", "turn", "wait", "gone"},
                       msgs : SUBSET Messages, fresh : BOOLEAN]
      BY <1>10, <2>1, TrackType DEF BeginActiveRun
    <2>5. handed' \subseteq Messages
      BY <1>10, <2>1 DEF TypeOK, BeginActiveRun, Handed
    <2>6. QED
      BY <1>10, <2>1, <2>2, <2>3, <2>4, <2>5 DEF TypeOK, BeginActiveRun, Phases
  <1>11. CASE FollowUpsAbsorbed
    <2> DEFINE n == Smaller(Head(frames).n, Len(batches))
               above == IF n = 0 THEN 0 ELSE batches[n]
    <2>1. frames # <<>> /\ frames' = Tail(frames)
      BY <1>11 DEF FollowUpsAbsorbed, NextFrame
    <2>2. Head(frames).n \in Nat /\ frames' \in Seq(FrameType)
      BY <2>1, FrameIn
    <2>3. batches \in Seq(Messages) /\ Len(batches) \in Nat
      BY DEF TypeOK
    <2>4. n \in Nat /\ n <= Len(batches)
      BY <2>2, <2>3 DEF Smaller
    <2>5. above \in Cursors
      <3>1. CASE n = 0
        BY <1>0, <3>1
      <3>2. CASE n # 0
        <4>1. n \in DOMAIN batches
          BY <2>3, <2>4, <3>2
        <4>2. above \in Messages
          BY <2>3, <3>2, <4>1
        <4>3. QED
          BY <4>2 DEF Messages, Cursors
      <3>3. QED
        BY <3>1, <3>2
    <2>6. batches' = DropFirst(batches, n)
      BY <1>11 DEF FollowUpsAbsorbed
    <2>7. /\ above > run.target => /\ run' = [run EXCEPT !.target = above]
                                   /\ activeTarget' = Larger(activeTarget, above)
                                   /\ surviving' = Larger(surviving, above)
          /\ ~(above > run.target) => UNCHANGED <<run, activeTarget, surviving>>
      BY <1>11 DEF FollowUpsAbsorbed
    <2> HIDE DEF n, above
    <2>8. batches' \in Seq(Messages)
      BY <2>3, <2>4, <2>6, DropFirstIn
    <2>9. run' \in RunType /\ activeTarget' \in Cursors /\ surviving' \in Cursors
      <3>1. run \in RunType /\ activeTarget \in Cursors /\ surviving \in Cursors
        BY DEF TypeOK
      <3>2. CASE above > run.target
        <4>1. [run EXCEPT !.target = above] \in RunType
          BY <2>5, <3>1 DEF RunType
        <4>2. QED
          BY <2>5, <2>7, <3>1, <3>2, <4>1, LargerIn
      <3>3. QED
        BY <2>7, <3>1, <3>2
    <2>10. QED
      BY <1>11, <2>2, <2>8, <2>9 DEF FollowUpsAbsorbed, TypeOK
  <1>12. CASE FollowUpsConsumed
    <2>1. frames # <<>> /\ frames' = Tail(frames)
      BY <1>12 DEF FollowUpsConsumed, NextFrame
    <2>2. Head(frames).n \in Nat /\ frames' \in Seq(FrameType)
      BY <2>1, FrameIn
    <2>3. batches' \in Seq(Messages)
      BY <1>12, <2>2, DropFirstIn DEF FollowUpsConsumed, TypeOK
    <2>4. QED
      BY <1>12, <2>2, <2>3 DEF FollowUpsConsumed, TypeOK
  <1>13. CASE ErrorFrame
    <2>1. frames # <<>> /\ frames' = Tail(frames)
      BY <1>13 DEF ErrorFrame, NextFrame
    <2>2. Head(frames).text \in BOOLEAN /\ frames' \in Seq(FrameType)
      BY <2>1, FrameIn
    <2>3. run' \in RunType
      BY <1>13, <2>2 DEF ErrorFrame, TypeOK, RunType
    <2>4. QED
      BY <1>13, <2>2, <2>3 DEF ErrorFrame, TypeOK
  <1>14. CASE ResultDelivered
    <2>1. frames # <<>> /\ frames' = Tail(frames)
      BY <1>14 DEF ResultDelivered, NextFrame
    <2>2. Head(frames).msgs \subseteq Messages /\ frames' \in Seq(FrameType)
      BY <2>1, FrameIn
    <2>3. receipts' \subseteq Messages
      <3>1. Acknowledged(Head(frames).names) \subseteq files
        BY DEF Acknowledged
      <3>2. QED
        BY <1>14, <3>1, FilesSound DEF ResultDelivered, Receipted, TypeOK
    <2>4. files' \subseteq FileType /\ IsFiniteSet(files')
      <3>1. files' \subseteq files
        BY <1>14 DEF ResultDelivered
      <3>2. QED
        BY <3>1, FilesSound DEF TypeOK
    <2>5. confirmed' \in Cursors
      <3>1. run.target \in Cursors
        BY DEF TypeOK, RunType
      <3>2. QED
        BY <1>14, <3>1, TurnType DEF ResultDelivered
    <2>6. piped' \in Cursors /\ run' \in RunType
      BY <1>0, <1>14 DEF ResultDelivered, TypeOK, RunType
    <2>7. settled' \subseteq Messages
      BY <1>14, <2>2, SettledType DEF ResultDelivered
    <2>8. QED
      BY <1>14, <2>2, <2>3, <2>4, <2>5, <2>6, <2>7 DEF ResultDelivered, TypeOK
  <1>15. CASE ResultNotDelivered
    <2>1. frames # <<>> /\ frames' = Tail(frames)
      BY <1>15 DEF ResultNotDelivered, NextFrame
    <2>2. /\ Head(frames).text \in BOOLEAN /\ Head(frames).msgs \subseteq Messages
          /\ frames' \in Seq(FrameType)
      BY <2>1, FrameIn
    <2>3. run' \in RunType
      <3>1. (run.answered \/ Head(frames).text) \in BOOLEAN
        OBVIOUS
      <3>2. run' = [run EXCEPT !.answered = run.answered \/ Head(frames).text]
        BY <1>15 DEF ResultNotDelivered
      <3>3. \A b \in BOOLEAN : [run EXCEPT !.answered = b] \in RunType
        BY DEF TypeOK, RunType
      <3>4. QED
        BY <3>1, <3>2, <3>3, Zenon
    <2>4. settled' \subseteq Messages
      BY <1>15, <2>2, SettledType DEF ResultNotDelivered
    <2>5. QED
      BY <1>15, <2>2, <2>3, <2>4 DEF ResultNotDelivered, TypeOK
  <1>16. CASE RunEnds
    <2>1. files' \subseteq FileType /\ IsFiniteSet(files')
      BY <1>16, WithModeSound DEF RunEnds
    <2>2. surviving' \in Cursors /\ batches' \in Seq(Messages)
      BY <1>0, <1>16 DEF RunEnds, ClearSurviving, TypeOK
    <2>3. phase' \in Phases
      BY <1>16 DEF RunEnds, AfterChild, Phases
    <2>4. runner' \in [st : {"off", "boot", "turn", "wait", "gone"},
                       msgs : SUBSET Messages, fresh : BOOLEAN]
      BY <1>16 DEF RunEnds, NoRunner
    <2>5. QED
      BY <1>0, <1>16, <2>1, <2>2, <2>3, <2>4 DEF RunEnds, TypeOK
  <1>17. ASSUME NEW ok \in BOOLEAN, FailureReplied(ok) PROVE TypeOK'
    <2> DEFINE cursor == IF ok THEN CursorAfterConfirmedSend(confirmed, run.target, 0)
                         ELSE confirmed
    <2>1. run.target \in Cursors /\ confirmed \in Cursors /\ held \in Cursors
      BY DEF TypeOK, RunType
    <2>2. cursor \in Cursors
      BY <1>0, <2>1, LargerIn DEF CursorAfterConfirmedSend
    <2>3. Finish(ok, cursor, held, FALSE)
      BY <1>17 DEF FailureReplied
    <2>4. settled' \subseteq Messages
      <3>1. (IF ok THEN UpTo(run.target) ELSE {}) \subseteq Messages
        BY <2>1, UpToType
      <3>2. QED
        BY <1>17, <3>1, SettledType DEF FailureReplied
    <2> HIDE DEF cursor
    <2>5. /\ confirmed' \in Cursors /\ held' \in Cursors
          /\ work' \in BOOLEAN /\ retry' \in BOOLEAN /\ retryCount' \in 0..MaxRetries
          /\ parked' \in BOOLEAN /\ phase' \in Phases /\ run' \in RunType
      BY <2>1, <2>2, <2>3, FinishType
    <2>6. QED
      BY <1>17, <2>4, <2>5 DEF FailureReplied, TypeOK
  <1>18. ASSUME NEW ok \in BOOLEAN, NoticeReplied(ok) PROVE TypeOK'
    <2>1. run.target \in Cursors
      BY DEF TypeOK, RunType
    <2>2. confirmed' \in Cursors
      BY <1>18, <2>1, LargerIn DEF NoticeReplied, TypeOK
    <2>3. settled' \subseteq Messages
      BY <1>18, <2>1, UpToType, SettledType DEF NoticeReplied
    <2>4. run' \in RunType /\ phase' \in Phases
      BY <1>18 DEF NoticeReplied, TypeOK, RunType, Phases
    <2>5. QED
      BY <1>18, <2>2, <2>3, <2>4 DEF NoticeReplied, TypeOK
  <1>19. CASE PreStartHeld
    <2>1. run.boundary \in Cursors /\ HeldCursor \in Cursors /\ confirmed \in Cursors
      BY LargerIn DEF TypeOK, RunType, HeldCursor
    <2>2. Finish(TRUE, confirmed, HeldCursor, FALSE)
      BY <1>19 DEF PreStartHeld
    <2>3. /\ confirmed' \in Cursors /\ held' \in Cursors
          /\ work' \in BOOLEAN /\ retry' \in BOOLEAN /\ retryCount' \in 0..MaxRetries
          /\ parked' \in BOOLEAN /\ phase' \in Phases /\ run' \in RunType
      BY <2>1, <2>2, FinishType
    <2>4. piped' \in Cursors /\ surviving' \in Cursors
      BY <1>0, <1>19, <2>1 DEF PreStartHeld, HoldClears
    <2>5. QED
      BY <1>19, <2>3, <2>4 DEF PreStartHeld, TypeOK
  <1>20. CASE PreStartExpired
    <2>1. run.boundary \in Cursors /\ HeldCursor \in Cursors /\ confirmed \in Cursors
      BY LargerIn DEF TypeOK, RunType, HeldCursor
    <2>2. confirmed' \in Cursors /\ expiring' \in Cursors
      BY <1>20, <2>1, LargerIn DEF PreStartExpired
    <2>3. settled' \subseteq Messages
      BY <1>20, <2>1, UpToType, SettledType DEF PreStartExpired
    <2>4. piped' \in Cursors /\ surviving' \in Cursors
      BY <1>0, <1>20, <2>1 DEF PreStartExpired, HoldClears
    <2>5. QED
      BY <1>0, <1>20, <2>2, <2>3, <2>4 DEF PreStartExpired, TypeOK, Phases
  <1>21. CASE ExpiryNoticed
    <2>1. confirmed \in Cursors /\ held \in Cursors
      BY DEF TypeOK
    <2>2. /\ confirmed' \in Cursors /\ held' \in Cursors
          /\ work' \in BOOLEAN /\ retry' \in BOOLEAN /\ retryCount' \in 0..MaxRetries
          /\ parked' \in BOOLEAN /\ phase' \in Phases /\ run' \in RunType
      <3>1. CASE phase = "expiring"
        <4>1. Finish(TRUE, confirmed, held, arrived > expiring)
          BY <1>21, <3>1 DEF ExpiryNoticed
        <4>2. (arrived > expiring) \in BOOLEAN
          BY DEF TypeOK, Cursors
        <4>3. QED
          BY <2>1, <4>1, <4>2, FinishType
      <3>2. CASE phase # "expiring"
        <4>1. work' = (work \/ arrived > expiring)
          BY <1>21, <3>2 DEF ExpiryNoticed
        <4>2. work' \in BOOLEAN
          BY <4>1, Zenon
        <4>3. QED
          BY <1>21, <3>2, <4>2 DEF ExpiryNoticed, TypeOK
      <3>3. QED
        BY <3>1, <3>2
    <2>3. QED
      BY <1>0, <1>21, <2>2 DEF ExpiryNoticed, TypeOK
  <1>22. CASE Settle
    <2>1. /\ confirmed \in Cursors /\ held \in Cursors
          /\ run.orig \in Cursors /\ run.target \in Cursors
      BY DEF TypeOK, RunType
    <2>2. /\ confirmed' \in Cursors /\ held' \in Cursors
          /\ work' \in BOOLEAN /\ retry' \in BOOLEAN /\ retryCount' \in 0..MaxRetries
          /\ parked' \in BOOLEAN /\ phase' \in Phases /\ run' \in RunType
          /\ piped' \in Cursors /\ settled' \subseteq Messages
      <3>1. CASE SettleLeftover
        <4> DEFINE passes == ~run.deferredAtStart /\ confirmed < run.orig
                   cursor == IF passes THEN run.orig ELSE confirmed
        <4>1. Finish(FALSE, cursor, held, FALSE) /\ piped' = 0
              /\ Settled(IF passes THEN UpTo(run.orig) ELSE {})
          BY <3>1 DEF SettleLeftover
        <4>2. cursor \in Cursors /\ (IF passes THEN UpTo(run.orig) ELSE {}) \subseteq Messages
          BY <2>1, UpToType
        <4> HIDE DEF cursor, passes
        <4>3. QED
          BY <1>0, <2>1, <4>1, <4>2, FinishType, SettledType
      <3>2. CASE SettleAmbiguous
        <4> DEFINE cursor == CursorAfterTurn(~run.initial, run.target)
        <4>1. Finish(TRUE, cursor, held, FALSE) /\ piped' = 0 /\ Settled(UpTo(cursor))
          BY <3>2 DEF SettleAmbiguous
        <4>2. cursor \in Cursors
          BY <2>1, TurnType
        <4> HIDE DEF cursor
        <4>3. QED
          BY <1>0, <2>1, <4>1, <4>2, UpToType, FinishType, SettledType
      <3>3. CASE SettleWindow
        <4> DEFINE ok == ~HasUnconfirmedPiped /\ ~(run.err /\ ~run.sent)
        <4>1. Finish(ok, confirmed, held, FALSE)
          BY <3>3 DEF SettleWindow
        <4>2. ok \in BOOLEAN
          BY Zenon
        <4>3. piped' \in Cursors /\ settled' \subseteq Messages
          BY <1>0, <3>3 DEF SettleWindow, TypeOK
        <4> HIDE DEF ok
        <4>4. QED
          BY <2>1, <4>1, <4>2, <4>3, FinishType
      <3>4. QED
        BY <1>22, <3>1, <3>2, <3>3 DEF Settle
    <2>3. QED
      BY <1>22, <2>2 DEF Settle, TypeOK
  <1>23. CASE Child
    BY <1>23, ChildType
  <1>24. CASE EnvelopeDelivered
    <2>1. /\ outbox # <<>> /\ outbox \in Seq(SUBSET Messages)
          /\ outbox' = Tail(outbox) /\ Settled(Head(outbox))
      BY <1>24 DEF EnvelopeDelivered, TypeOK
    <2>2. Head(outbox) \subseteq Messages /\ outbox' \in Seq(SUBSET Messages)
      BY <2>1, HeadTailIn
    <2>3. settled' \subseteq Messages
      BY <2>1, <2>2, SettledType
    <2>4. /\ confirmed' \in Cursors /\ piped' \in Cursors
          /\ ipcConfirmed' \in BOOLEAN /\ surviving' \in Cursors
      <3>1. CASE IsPriorRun
        BY <1>24, <3>1 DEF EnvelopeDelivered, PriorRunEnvelope, TypeOK
      <3>2. CASE ~IsPriorRun
        <4> DEFINE target == IF activeTarget # 0 THEN activeTarget ELSE surviving
                   cursor == CursorAfterTurn(~ipcConfirmed, target)
        <4>1. CASE target = 0 /\ piped = 0
          BY <1>24, <3>2, <4>1 DEF EnvelopeDelivered, CurrentEnvelope, TypeOK
        <4>2. CASE ~(target = 0 /\ piped = 0)
          <5>1. /\ confirmed' = cursor
                /\ piped' = IF ipcConfirmed THEN 0 ELSE piped
                /\ ipcConfirmed' = (ipcConfirmed \/ activeTarget # 0)
                /\ surviving' = ClearSurviving(cursor, activeTarget)
            BY <1>24, <3>2, <4>2 DEF EnvelopeDelivered, CurrentEnvelope
          <5>2. target \in Cursors
            BY DEF TypeOK
          <5> HIDE DEF target
          <5>3. cursor \in Cursors
            BY <5>2, TurnType
          <5>4. ipcConfirmed' \in BOOLEAN
            BY <5>1, Zenon
          <5>5. surviving' \in Cursors /\ piped' \in Cursors
            BY <1>0, <5>1 DEF ClearSurviving, TypeOK
          <5>6. QED
            BY <5>1, <5>3, <5>4, <5>5
        <4>3. QED
          BY <4>1, <4>2
      <3>3. QED
        BY <3>1, <3>2
    <2>5. QED
      BY <1>0, <1>24, <2>2, <2>3, <2>4 DEF EnvelopeDelivered, TypeOK
  <1>25. CASE TaskSends
    <2>1. outbox' \in Seq(SUBSET Messages)
      BY <1>25 DEF TaskSends, TypeOK
    <2>2. QED
      BY <1>25, <2>1, DisturbedType DEF TaskSends, TypeOK
  <1>26. CASE Crash \/ CrashAfterReceipt
    BY <1>26, RestartType
  <1>99. QED
    BY <1>1, <1>2, <1>3, <1>4, <1>5, <1>6, <1>7, <1>8, <1>9, <1>10, <1>11, <1>12, <1>13,
       <1>14, <1>15, <1>16, <1>17, <1>18, <1>19, <1>20, <1>21, <1>22, <1>23, <1>24, <1>25,
       <1>26
    DEF Next, PollLoop, HostRun, Envelope
-----------------------------------------------------------------------------
(* What was handed over covers the cursors                                 *)

LEMMA UpToZero == UpTo(0) = {}
  BY DEF UpTo

LEMMA CoveredCursors ==
  /\ Covered(0)
  /\ \A a, b : Covered(a) /\ Covered(b) => Covered(Larger(a, b))
  /\ \A first, t : Covered(confirmed) /\ Covered(piped) /\ Covered(t)
                     => Covered(CursorAfterTurn(first, t))
  <1>1. Covered(0)
    BY UpToZero DEF Covered
  <1>2. \A a, b : Covered(a) /\ Covered(b) => Covered(Larger(a, b))
    BY DEF Larger
  <1>3. ASSUME NEW first, NEW t, Covered(confirmed), Covered(piped), Covered(t)
        PROVE  Covered(CursorAfterTurn(first, t))
    <2> DEFINE w == IF first THEN 0 ELSE piped
    <2>1. Covered(w)
      BY <1>1, <1>3
    <2>2. CursorAfterTurn(first, t) = Larger(confirmed, Larger(t, w))
      BY DEF CursorAfterTurn, CursorAfterConfirmedSend
    <2> HIDE DEF w
    <2>3. QED
      BY <1>2, <1>3, <2>1, <2>2
  <1>4. QED
    BY <1>1, <1>2, <1>3

LEMMA FinishCovered ==
  ASSUME NEW ok, NEW cursor, NEW h, NEW more, Finish(ok, cursor, h, more),
         Covered(cursor), Covered(h), handed' = handed
  PROVE  Covered(confirmed)' /\ Covered(held)'
  BY UpToZero DEF Finish, HeldAfter, Covered

\* A run starts with everything past the cursor in its prompt, but for what was
\* receipted: its last message covers all before it.
LEMMA PromptCovers ==
  ASSUME IInv, NEW F, F \subseteq files
  PROVE  /\ PromptOf(F) \subseteq UpTo(arrived)
         /\ PromptOf(F) = {} => Covered(arrived)
         /\ PromptOf(F) # {} => UpTo(Last(PromptOf(F))) \subseteq handed \cup PromptOf(F)
  <1> DEFINE S == PromptOf(F)
  <1>1. /\ arrived \in Nat /\ confirmed \in Nat /\ arrived <= MaxMessage /\ MaxMessage \in Nat
        /\ receipts \subseteq handed /\ handed \subseteq 1..arrived
        /\ 1..confirmed \subseteq handed
    BY DEF IInv, TypeOK, HandedSound, CursorsCovered, Covered, UpTo, Cursors
  <1>2. MessagesIn(F) \subseteq handed
    BY FilesSound DEF IInv, HandedSound
  <1>3. S = (MessagesIn(F) \cup ((confirmed + 1)..arrived)) \ receipts
    BY DEF PromptOf
  <1> HIDE DEF S
  <1>4. S \subseteq 1..arrived
    <2>1. (confirmed + 1)..arrived \subseteq 1..arrived
      BY <1>1
    <2>2. QED
      BY <1>1, <1>2, <1>3, <2>1
  <1>5. ASSUME NEW m \in 1..arrived PROVE m \in handed \cup S
    <2>1. m \in 1..confirmed \/ m \in (confirmed + 1)..arrived
      BY <1>1
    <2>2. QED
      BY <1>1, <1>3, <2>1
  <1>6. S # {} => Last(S) \in S
    <2>1. S \subseteq Messages
      <3>1. 1..arrived \subseteq Messages
        BY <1>1 DEF Messages
      <3>2. QED
        BY <1>4, <3>1
    <2>2. QED
      BY <2>1, LastIn
  <1>7. S # {} => 1..Last(S) \subseteq 1..arrived
    <2>1. S # {} => Last(S) \in 1..arrived
      BY <1>4, <1>6
    <2>2. \A k \in 1..arrived : 1..k \subseteq 1..arrived
      BY <1>1
    <2>3. QED
      BY <2>1, <2>2
  <1>8. QED
    BY <1>4, <1>5, <1>7 DEF S, UpTo, Covered

LEMMA CursorsStep ==
  ASSUME IInv, [Next]_vars
  PROVE  CursorsCovered'
  <1> USE DEF IInv
  <1> USE CoveredCursors
  <1>0. /\ Covered(confirmed) /\ Covered(held) /\ Covered(expiring) /\ Covered(piped)
        /\ Covered(activeTarget) /\ Covered(surviving) /\ Covered(prior)
        /\ \A i \in DOMAIN batches : Covered(batches[i])
    BY DEF CursorsCovered
  <1>a. ASSUME handed \subseteq handed', NEW c, Covered(c)
        PROVE  UpTo(c) \subseteq handed'
    BY <1>a DEF Covered
  \* What covers the new cursors covers them.
  <1>b. ASSUME handed \subseteq handed',
               UpTo(confirmed') \subseteq handed', UpTo(held') \subseteq handed',
               UpTo(expiring') \subseteq handed', UpTo(piped') \subseteq handed',
               UpTo(activeTarget') \subseteq handed', UpTo(surviving') \subseteq handed',
               UpTo(prior') \subseteq handed',
               \A i \in DOMAIN batches' : UpTo(batches'[i]) \subseteq handed'
        PROVE  CursorsCovered'
    BY <1>b DEF CursorsCovered, Covered
  <1>1. CASE UNCHANGED vars
    BY <1>0, <1>1, <1>b DEF vars, Covered
  <1>2. CASE Arrive \/ PollRead \/ ReplayDue \/ RetryTimer \/ ErrorFrame \/ TaskSends
             \/ ResultNotDelivered
    <2>1. UNCHANGED <<confirmed, held, expiring, piped, activeTarget, surviving, prior,
                      batches, handed>>
      BY <1>2 DEF Arrive, PollRead, ReplayDue, RetryTimer, ErrorFrame, TaskSends,
                  ResultNotDelivered
    <2>2. QED
      BY <1>0, <1>b, <2>1 DEF Covered
  <1>3. CASE Child
    <2>1. UNCHANGED <<confirmed, held, expiring, piped, activeTarget, surviving, prior,
                      batches, handed>>
      BY <1>3 DEF Child, RunnerBoots, RunnerSupersedes, RunnerHolds, RunnerDefers,
                  RunnerSends, RunnerAnswers, RunnerTakesNext, RunnerLeaves, RunnerFails
    <2>2. QED
      BY <1>0, <1>b, <2>1 DEF Covered
  <1>4. CASE PollDispatch
    <2>1. UNCHANGED <<confirmed, held, expiring, activeTarget, surviving, prior>>
      BY <1>4 DEF PollDispatch
    <2>2. CASE EnqueueBatch
      BY <1>0, <1>b, <2>1, <2>2 DEF EnqueueBatch, Covered
    <2>3. CASE PipeBatch
      <3>1. /\ polled.from \in Nat /\ polled.to \in Nat /\ 1 <= polled.from
            /\ Covered(polled.from - 1)
        BY <1>4 DEF PollDispatch, PolledSound, TypeOK, Cursors
      <3>2. /\ piped' = polled.to /\ batches' = Append(batches, polled.to)
            /\ handed' = handed \cup (polled.from..polled.to)
        BY <2>3 DEF PipeBatch, Handed
      <3>3. 1..polled.to \subseteq (1..(polled.from - 1)) \cup (polled.from..polled.to)
        BY <3>1
      <3>4. UpTo(polled.to) \subseteq handed'
        BY <3>1, <3>2, <3>3 DEF UpTo, Covered
      <3>5. \A i \in DOMAIN batches' : UpTo(batches'[i]) \subseteq handed'
        <4>1. batches \in Seq(Messages) /\ Len(batches) \in Nat
          BY DEF TypeOK
        <4>2. \A i \in DOMAIN batches' :
                \/ i \in DOMAIN batches /\ batches'[i] = batches[i]
                \/ batches'[i] = polled.to
          BY <3>2, <4>1
        <4>3. QED
          BY <1>0, <1>a, <3>2, <3>4, <4>2
      <3>6. QED
        BY <1>0, <1>a, <1>b, <2>1, <3>2, <3>4, <3>5
    <2>4. QED
      BY <1>4, <2>2, <2>3 DEF PollDispatch
  <1>5. CASE SettleHeld
    BY <1>0, <1>5, <1>b DEF SettleHeld, Covered
  <1>6. CASE ReplayExpires
    BY <1>0, <1>6, <1>b DEF ReplayExpires, Covered
  <1>7. CASE StartRun
    <2> DEFINE F == StillOwed(files)
    <2>1. F \subseteq files
      BY DEF StillOwed
    <2>2. /\ UNCHANGED <<expiring, piped, activeTarget, surviving, prior, batches, handed>>
          /\ \/ PromptOf(F) = {} /\ confirmed' = arrived /\ held' = HeldAfter(held, arrived)
             \/ UNCHANGED <<confirmed, held>>
      BY <1>7 DEF StartRun
    <2>3. PromptOf(F) = {} => Covered(arrived)
      BY <2>1, PromptCovers
    <2> HIDE DEF F
    <2>4. UpTo(confirmed') \subseteq handed' /\ UpTo(held') \subseteq handed'
      BY <1>0, <2>2, <2>3 DEF HeldAfter, Covered
    <2>5. QED
      BY <1>0, <1>b, <2>2, <2>4 DEF Covered
  <1>8. CASE BeginActiveRun
    <2>1. handed' = handed \cup run.prompt /\ UpTo(run.target) \subseteq handed'
      BY <1>8 DEF BeginActiveRun, Handed, RunSound
    <2>2. /\ activeTarget' = run.target /\ surviving' \in {surviving, run.target}
          /\ prior' \in {prior, surviving}
          /\ UNCHANGED <<confirmed, held, expiring, piped, batches>>
      BY <1>8 DEF BeginActiveRun, Larger, PriorBoundary
    <2>3. QED
      BY <1>0, <1>a, <1>b, <2>1, <2>2
  <1>9. CASE FollowUpsAbsorbed
    <2> DEFINE n == Smaller(Head(frames).n, Len(batches))
               above == IF n = 0 THEN 0 ELSE batches[n]
    <2>1. frames # <<>>
      BY <1>9 DEF FollowUpsAbsorbed, NextFrame
    <2>2. batches \in Seq(Messages) /\ Len(batches) \in Nat
      BY DEF TypeOK
    <2>3. n \in Nat /\ n <= Len(batches)
      BY <2>1, <2>2, FrameIn DEF Smaller
    <2>4. Covered(above)
      <3>1. n # 0 => n \in DOMAIN batches
        BY <2>2, <2>3
      <3> HIDE DEF n
      <3>2. QED
        BY <1>0, <3>1
    <2>5. /\ UNCHANGED <<confirmed, held, expiring, piped, prior, handed>>
          /\ batches' = DropFirst(batches, n)
          /\ activeTarget' \in {activeTarget, above} /\ surviving' \in {surviving, above}
      BY <1>9 DEF FollowUpsAbsorbed, Larger
    <2> HIDE DEF n, above
    <2>6. \A i \in DOMAIN batches' : \E j \in DOMAIN batches : batches'[i] = batches[j]
      BY <2>2, <2>3, <2>5, DropFirstIn
    <2>7. QED
      BY <1>0, <1>b, <2>4, <2>5, <2>6 DEF Covered
  <1>10. CASE FollowUpsConsumed
    <2>1. frames # <<>>
      BY <1>10 DEF FollowUpsConsumed, NextFrame
    <2>2. batches \in Seq(Messages) /\ Head(frames).n \in Nat
      BY <2>1, FrameIn DEF TypeOK
    <2>3. /\ UNCHANGED <<confirmed, held, expiring, piped, activeTarget, surviving, prior,
                         handed>>
          /\ batches' = DropFirst(batches, Head(frames).n)
      BY <1>10 DEF FollowUpsConsumed
    <2>4. \A i \in DOMAIN batches' : \E j \in DOMAIN batches : batches'[i] = batches[j]
      BY <2>2, <2>3, DropFirstIn
    <2>5. QED
      BY <1>0, <1>b, <2>3, <2>4 DEF Covered
  <1>11. CASE ResultDelivered
    <2>1. phase = "live"
      BY <1>11 DEF ResultDelivered, NextFrame, ChildSound
    <2>2. Covered(CursorAfterTurn(~run.initial, run.target))
      BY <1>0, <2>1 DEF RunSound
    <2>3. /\ UNCHANGED <<held, expiring, activeTarget, surviving, prior, batches, handed>>
          /\ confirmed' = CursorAfterTurn(~run.initial, run.target)
          /\ piped' \in {0, piped}
      BY <1>11 DEF ResultDelivered
    <2>4. QED
      BY <1>0, <1>b, <2>2, <2>3 DEF Covered
  <1>12. CASE RunEnds
    <2>1. /\ UNCHANGED <<confirmed, held, expiring, piped, prior, handed>>
          /\ activeTarget' = 0 /\ batches' = <<>> /\ surviving' \in {0, surviving}
      BY <1>12 DEF RunEnds, ClearSurviving
    <2>2. QED
      BY <1>0, <1>b, <2>1 DEF Covered
  <1>13. ASSUME NEW ok \in BOOLEAN, FailureReplied(ok) PROVE CursorsCovered'
    <2> DEFINE cursor == IF ok THEN CursorAfterConfirmedSend(confirmed, run.target, 0)
                         ELSE confirmed
    <2>1. Covered(run.target)
      BY <1>13 DEF FailureReplied, RunSound
    <2>2. Covered(cursor)
      BY <1>0, <2>1 DEF CursorAfterConfirmedSend
    <2>3. Finish(ok, cursor, held, FALSE) /\ UNCHANGED <<expiring, loopVars, handed>>
      BY <1>13 DEF FailureReplied
    <2> HIDE DEF cursor
    <2>4. Covered(confirmed)' /\ Covered(held)'
      BY <1>0, <2>2, <2>3, FinishCovered
    <2>5. QED
      BY <1>0, <1>b, <2>3, <2>4 DEF Covered
  <1>14. ASSUME NEW ok \in BOOLEAN, NoticeReplied(ok) PROVE CursorsCovered'
    <2>1. Covered(run.target)
      BY <1>14 DEF NoticeReplied, RunSound
    <2>2. /\ confirmed' \in {confirmed, Larger(confirmed, run.target)}
          /\ UNCHANGED <<seriesVars, loopVars, handed>>
      BY <1>14 DEF NoticeReplied
    <2>3. QED
      BY <1>0, <1>b, <2>1, <2>2 DEF Covered
  <1>15. CASE PreStartHeld
    <2>1. Covered(HeldCursor) /\ Covered(run.boundary)
      BY <1>0, <1>15 DEF PreStartHeld, HoldClears, RunSound, HeldCursor
    <2>2. /\ Finish(TRUE, confirmed, HeldCursor, FALSE)
          /\ piped' = 0 /\ surviving' \in {run.boundary, 0}
          /\ UNCHANGED <<expiring, batches, activeTarget, prior, handed>>
      BY <1>15 DEF PreStartHeld, HoldClears
    <2>3. Covered(confirmed)' /\ Covered(held)'
      BY <1>0, <2>1, <2>2, FinishCovered
    <2>4. QED
      BY <1>0, <1>b, <2>1, <2>2, <2>3 DEF Covered
  <1>16. CASE PreStartExpired
    <2>1. Covered(HeldCursor) /\ Covered(run.boundary)
      BY <1>0, <1>16 DEF PreStartExpired, HoldClears, RunSound, HeldCursor
    <2>2. /\ confirmed' = Larger(confirmed, HeldCursor) /\ expiring' = confirmed' /\ held' = 0
          /\ piped' = 0 /\ surviving' \in {run.boundary, 0}
          /\ UNCHANGED <<batches, activeTarget, prior, handed>>
      BY <1>16 DEF PreStartExpired, HoldClears
    <2>3. QED
      BY <1>0, <1>b, <2>1, <2>2 DEF Covered
  <1>17. CASE ExpiryNoticed
    <2>1. expiring' = 0 /\ UNCHANGED <<loopVars, handed>>
      BY <1>17 DEF ExpiryNoticed
    <2>2. Covered(confirmed)' /\ Covered(held)'
      <3>1. CASE phase = "expiring"
        BY <1>0, <1>17, <2>1, <3>1, FinishCovered DEF ExpiryNoticed
      <3>2. CASE phase # "expiring"
        BY <1>0, <1>17, <2>1, <3>2 DEF ExpiryNoticed, Covered
      <3>3. QED
        BY <3>1, <3>2
    <2>3. QED
      BY <1>0, <1>b, <2>1, <2>2 DEF Covered
  <1>18. CASE Settle
    <2>1. Covered(run.target) /\ Covered(run.orig)
      BY <1>18 DEF Settle, RunSound
    <2>2. UNCHANGED <<expiring, batches, activeTarget, surviving, prior, handed>>
      BY <1>18 DEF Settle
    <2>3. PICK ok, cursor : /\ Finish(ok, cursor, held, FALSE)
                            /\ Covered(cursor) /\ piped' \in {0, piped}
      <3>1. CASE SettleLeftover
        BY <1>0, <2>1, <3>1 DEF SettleLeftover
      <3>2. CASE SettleAmbiguous
        BY <1>0, <2>1, <3>2 DEF SettleAmbiguous
      <3>3. CASE SettleWindow
        BY <1>0, <3>3 DEF SettleWindow
      <3>4. QED
        BY <1>18, <3>1, <3>2, <3>3 DEF Settle
    <2>4. Covered(confirmed)' /\ Covered(held)'
      BY <1>0, <2>2, <2>3, FinishCovered
    <2>5. QED
      BY <1>0, <1>b, <2>2, <2>3, <2>4 DEF Covered
  <1>19. CASE EnvelopeDelivered
    <2>1. /\ prior' = 0
          /\ UNCHANGED <<held, expiring, activeTarget, batches, handed>>
      BY <1>19 DEF EnvelopeDelivered
    <2>2. /\ UpTo(confirmed') \subseteq handed' /\ piped' \in {0, piped}
          /\ surviving' \in {0, surviving}
      <3>1. CASE IsPriorRun
        BY <1>0, <1>19, <2>1, <3>1 DEF EnvelopeDelivered, PriorRunEnvelope, Covered
      <3>2. CASE ~IsPriorRun
        <4> DEFINE target == IF activeTarget # 0 THEN activeTarget ELSE surviving
                   cursor == CursorAfterTurn(~ipcConfirmed, target)
        <4>1. Covered(cursor)
          <5>1. Covered(target)
            BY <1>0
          <5> HIDE DEF target
          <5>2. QED
            BY <1>0, <5>1
        <4>2. /\ confirmed' \in {confirmed, cursor} /\ piped' \in {0, piped}
              /\ surviving' \in {0, surviving}
          BY <1>19, <3>2 DEF EnvelopeDelivered, CurrentEnvelope, ClearSurviving
        <4> HIDE DEF cursor
        <4>3. QED
          BY <1>0, <2>1, <4>1, <4>2 DEF Covered
      <3>3. QED
        BY <3>1, <3>2
    <2>3. QED
      BY <1>0, <1>b, <2>1, <2>2 DEF Covered
  <1>20. CASE Crash \/ CrashAfterReceipt
    <2>1. /\ piped' = 0 /\ batches' = <<>> /\ activeTarget' = 0 /\ surviving' = 0
          /\ prior' = 0 /\ expiring' = 0 /\ UNCHANGED <<confirmed, held, handed>>
      BY <1>20 DEF Crash, CrashAfterReceipt, Restart
    <2>2. QED
      BY <1>0, <1>b, <2>1 DEF Covered
  <1>99. QED
    BY <1>1, <1>2, <1>3, <1>4, <1>5, <1>6, <1>7, <1>8, <1>9, <1>10, <1>11, <1>12, <1>13,
       <1>14, <1>15, <1>16, <1>17, <1>18, <1>19, <1>20
    DEF Next, PollLoop, HostRun, Envelope

-----------------------------------------------------------------------------
(* The cursor, the batch in hand, the run and the child                    *)

\* What is covered has arrived.
LEMMA CoveredArrived ==
  ASSUME IInv, NEW c \in Cursors, Covered(c)
  PROVE  c <= arrived
  <1>1. /\ c \in Nat /\ arrived \in Nat /\ 1..c \subseteq 1..arrived
    BY DEF IInv, TypeOK, HandedSound, Covered, UpTo, Cursors
  <1>2. c # 0 => c \in 1..c
    BY <1>1
  <1>3. QED
    BY <1>1, <1>2

LEMMA Grows ==
  ASSUME IInv, [Next]_vars
  PROVE  /\ confirmed' >= confirmed
         /\ arrived' >= arrived /\ arrived \in Nat /\ arrived' \in Nat
         /\ handed \subseteq handed'
  <1>0. /\ confirmed \in Cursors /\ held \in Cursors /\ arrived \in Cursors
        /\ prior \in Cursors /\ surviving \in Cursors /\ activeTarget \in Cursors
        /\ run.target \in Cursors /\ run.orig \in Cursors /\ 0 \in Cursors
        /\ \A c \in Cursors : c \in Int
    BY DEF IInv, TypeOK, RunType, Cursors
  <1>1. confirmed <= arrived
    BY <1>0, CoveredArrived DEF IInv, CursorsCovered
  <1>2. \/ confirmed' = confirmed
        \/ confirmed' = arrived
        \/ \E c \in Cursors : confirmed' = Larger(confirmed, c)
        \/ \E first : \E t \in Cursors : confirmed' = CursorAfterTurn(first, t)
        \/ confirmed' \in Cursors /\ confirmed < confirmed'
    <2>1. CASE UNCHANGED vars
      BY <2>1 DEF vars
    <2>2. CASE PollLoop
      BY <1>0, <2>2 DEF PollLoop, Arrive, PollRead, PollDispatch, SettleHeld, ReplayDue,
                        ReplayExpires
    <2>3. CASE Child
      BY <2>3 DEF Child, RunnerBoots, RunnerSupersedes, RunnerHolds, RunnerDefers,
                  RunnerSends, RunnerAnswers, RunnerTakesNext, RunnerLeaves, RunnerFails
    <2>4. CASE Crash \/ CrashAfterReceipt \/ TaskSends \/ RetryTimer \/ StartRun
               \/ BeginActiveRun \/ FollowUpsAbsorbed \/ FollowUpsConsumed \/ ErrorFrame
               \/ ResultNotDelivered \/ RunEnds
      BY <2>4 DEF Crash, CrashAfterReceipt, Restart, TaskSends, RetryTimer, StartRun,
                  BeginActiveRun, FollowUpsAbsorbed, FollowUpsConsumed, ErrorFrame,
                  ResultNotDelivered, RunEnds
    <2>5. CASE ResultDelivered
      BY <1>0, <2>5, Zenon DEF ResultDelivered
    <2>6. ASSUME NEW ok \in BOOLEAN, FailureReplied(ok)
          PROVE  \E c \in Cursors : confirmed' = Larger(confirmed, c)
      <3>1. CASE ok
        <4>1. confirmed' = Larger(confirmed, Larger(run.target, 0))
          BY <2>6, <3>1 DEF FailureReplied, Finish, CursorAfterConfirmedSend
        <4>2. QED
          BY <1>0, <4>1, LargerIn
      <3>2. CASE ~ok
        <4>1. confirmed' = confirmed
          BY <2>6, <3>2 DEF FailureReplied, Finish
        <4>2. Larger(confirmed, confirmed) = confirmed
          BY DEF Larger
        <4>3. QED
          BY <1>0, <4>1, <4>2
      <3>3. QED
        BY <3>1, <3>2
    <2>7. ASSUME NEW ok \in BOOLEAN, NoticeReplied(ok)
          PROVE  confirmed' = confirmed \/ \E c \in Cursors : confirmed' = Larger(confirmed, c)
      BY <1>0, <2>7 DEF NoticeReplied
    <2>8. CASE PreStartHeld
      BY <2>8 DEF PreStartHeld, Finish
    <2>9. CASE PreStartExpired
      <3>1. HeldCursor \in Cursors
        BY <1>0, LargerIn DEF HeldCursor
      <3>2. QED
        BY <2>9, <3>1 DEF PreStartExpired
    <2>10. CASE ExpiryNoticed
      BY <2>10 DEF ExpiryNoticed, Finish
    <2>11. CASE Settle
      <3>1. CASE SettleLeftover
        BY <1>0, <3>1 DEF SettleLeftover, Finish
      <3>2. CASE SettleAmbiguous
        BY <1>0, <3>2, Zenon DEF SettleAmbiguous, Finish
      <3>3. CASE SettleWindow
        BY <3>3 DEF SettleWindow, Finish
      <3>4. QED
        BY <2>11, <3>1, <3>2, <3>3 DEF Settle
    <2>12. CASE EnvelopeDelivered
      <3>1. CASE IsPriorRun
        BY <1>0, <2>12, <3>1 DEF EnvelopeDelivered, PriorRunEnvelope, IsPriorRun
      <3>2. CASE ~IsPriorRun
        <4> DEFINE target == IF activeTarget # 0 THEN activeTarget ELSE surviving
        <4>1. target \in Cursors
          BY <1>0
        <4>2. \/ confirmed' = confirmed
              \/ confirmed' = CursorAfterTurn(~ipcConfirmed, target)
          BY <2>12, <3>2 DEF EnvelopeDelivered, CurrentEnvelope
        <4> HIDE DEF target
        <4>3. QED
          BY <4>1, <4>2, Zenon
      <3>3. QED
        BY <3>1, <3>2
    <2>13. QED
      BY <2>1, <2>2, <2>3, <2>4, <2>5, <2>6, <2>7, <2>8, <2>9, <2>10, <2>11, <2>12
      DEF Next, HostRun, Envelope
  <1>3. confirmed' >= confirmed
    <2>1. \A c \in Cursors : Larger(confirmed, c) >= confirmed
      BY <1>0, LargerIn
    <2>2. \A first : \A t \in Cursors : CursorAfterTurn(first, t) >= confirmed
      BY TurnType DEF IInv
    <2>3. QED
      BY <1>0, <1>1, <1>2, <2>1, <2>2
  <1>4. arrived' = arrived \/ (arrived' = arrived + 1 /\ handed' = handed)
    <2>1. CASE Arrive
      BY <2>1 DEF Arrive
    <2>2. CASE ~Arrive
      <3>1. CASE UNCHANGED vars
        BY <3>1 DEF vars
      <3>2. CASE PollLoop
        BY <2>2, <3>2 DEF PollLoop, PollRead, PollDispatch, SettleHeld, ReplayDue,
                          ReplayExpires
      <3>3. CASE Child
        BY <3>3 DEF Child, RunnerBoots, RunnerSupersedes, RunnerHolds, RunnerDefers,
                    RunnerSends, RunnerAnswers, RunnerTakesNext, RunnerLeaves, RunnerFails
      <3>4. CASE HostRun
        BY <3>4 DEF HostRun, RetryTimer, StartRun, BeginActiveRun, FollowUpsAbsorbed,
          FollowUpsConsumed, ErrorFrame, ResultDelivered, ResultNotDelivered, RunEnds,
          FailureReplied, NoticeReplied, PreStartHeld, PreStartExpired, ExpiryNoticed, Settle
      <3>5. CASE Envelope \/ Crash \/ CrashAfterReceipt
        BY <3>5 DEF Envelope, EnvelopeDelivered, TaskSends, Crash, CrashAfterReceipt, Restart
      <3>6. QED
        BY <3>1, <3>2, <3>3, <3>4, <3>5 DEF Next
    <2>3. QED
      BY <2>1, <2>2
  <1>5. handed \subseteq handed'
    <2>1. CASE PollDispatch
      BY <2>1 DEF PollDispatch, PipeBatch, EnqueueBatch, Handed
    <2>2. CASE BeginActiveRun
      BY <2>2 DEF BeginActiveRun, Handed
    <2>3. CASE ~PollDispatch /\ ~BeginActiveRun
      <3>1. CASE UNCHANGED vars
        BY <3>1 DEF vars
      <3>2. CASE PollLoop
        BY <2>3, <3>2 DEF PollLoop, Arrive, PollRead, SettleHeld, ReplayDue, ReplayExpires
      <3>3. CASE Child
        BY <3>3 DEF Child, RunnerBoots, RunnerSupersedes, RunnerHolds, RunnerDefers,
                    RunnerSends, RunnerAnswers, RunnerTakesNext, RunnerLeaves, RunnerFails
      <3>4. CASE HostRun
        BY <2>3, <3>4 DEF HostRun, RetryTimer, StartRun, FollowUpsAbsorbed,
          FollowUpsConsumed, ErrorFrame, ResultDelivered, ResultNotDelivered, RunEnds,
          FailureReplied, NoticeReplied, PreStartHeld, PreStartExpired, ExpiryNoticed, Settle
      <3>5. CASE Envelope \/ Crash \/ CrashAfterReceipt
        BY <3>5 DEF Envelope, EnvelopeDelivered, TaskSends, Crash, CrashAfterReceipt, Restart
      <3>6. QED
        BY <3>1, <3>2, <3>3, <3>4, <3>5 DEF Next
    <2>4. QED
      BY <2>1, <2>2, <2>3
  <1>6. QED
    BY <1>0, <1>3, <1>4, <1>5 DEF Cursors

LEMMA PolledStep ==
  ASSUME IInv, [Next]_vars
  PROVE  PolledSound'
  <1> USE DEF IInv
  <1>1. CASE polled' = None
    BY <1>1 DEF PolledSound
  <1>2. CASE UNCHANGED polled
    BY <1>2, Grows DEF PolledSound, TypeOK, Cursors, Covered
  <1>3. CASE PollRead
    <2> DEFINE c == PendingMessageCursor
    <2>1. c \in Cursors /\ Covered(c)
      BY LargerIn, CoveredCursors DEF TypeOK, CursorsCovered, PendingMessageCursor
    <2>2. /\ handed' = handed /\ arrived' = arrived
          /\ polled' = None \/ (arrived > c /\ polled' = [from |-> c + 1, to |-> arrived])
      BY <1>3 DEF PollRead
    <2> HIDE DEF c
    <2>3. c \in Nat /\ arrived \in Nat
      BY <2>1 DEF TypeOK, Cursors
    <2>4. CASE arrived > c /\ polled' = [from |-> c + 1, to |-> arrived]
      <3>1. /\ polled'.from = c + 1 /\ polled'.to = arrived /\ polled'.from - 1 = c
        BY <2>3, <2>4
      <3>2. QED
        BY <2>1, <2>2, <2>3, <2>4, <3>1 DEF PolledSound, Covered
    <2>5. QED
      BY <1>1, <2>2, <2>4
  <1>4. PollRead \/ polled' = None \/ UNCHANGED polled
    <2>1. CASE UNCHANGED vars
      BY <2>1 DEF vars
    <2>2. CASE PollLoop
      BY <2>2 DEF PollLoop, Arrive, PollDispatch, SettleHeld, ReplayDue, ReplayExpires
    <2>3. CASE Child
      BY <2>3 DEF Child, RunnerBoots, RunnerSupersedes, RunnerHolds, RunnerDefers,
                  RunnerSends, RunnerAnswers, RunnerTakesNext, RunnerLeaves, RunnerFails
    <2>4. CASE HostRun
      BY <2>4 DEF HostRun, RetryTimer, StartRun, BeginActiveRun, FollowUpsAbsorbed,
        FollowUpsConsumed, ErrorFrame, ResultDelivered, ResultNotDelivered, RunEnds,
        FailureReplied, NoticeReplied, PreStartHeld, PreStartExpired, ExpiryNoticed, Settle
    <2>5. CASE Envelope \/ Crash \/ CrashAfterReceipt
      BY <2>5 DEF Envelope, EnvelopeDelivered, TaskSends, Crash, CrashAfterReceipt, Restart
    <2>6. QED
      BY <2>1, <2>2, <2>3, <2>4, <2>5 DEF Next
  <1>5. QED
    BY <1>1, <1>2, <1>3, <1>4

LEMMA RunStep ==
  ASSUME IInv, [Next]_vars
  PROVE  RunSound'
  <1> USE DEF IInv
  <1>0. /\ run \in RunType /\ confirmed' >= confirmed /\ handed \subseteq handed'
        /\ confirmed \in Nat /\ confirmed' \in Nat /\ run.from \in Nat
        /\ confirmed' >= run.from
    <2>1. TypeOK'
      BY TypeStep
    <2>2. confirmed \in Nat /\ confirmed' \in Nat /\ run.from \in Nat /\ run \in RunType
      BY <2>1 DEF TypeOK, Cursors, RunType
    <2>3. QED
      BY <2>2, Grows DEF RunSound
  \* A run under way goes on with what it has, and a target that is covered.
  <1>a. ASSUME phase \notin {"none", "prep"}, phase' \notin {"none", "prep"},
               run'.orig = run.orig, run'.boundary = run.boundary, run'.from = run.from,
               run'.target = run.target \/ UpTo(run'.target) \subseteq handed'
        PROVE  RunSound'
    BY <1>0, <1>a DEF RunSound, Covered
  <1>b. ASSUME phase' = "none", run' = NoRun PROVE RunSound'
    <2>1. run'.from = 0
      BY <1>b DEF NoRun
    <2>2. QED
      BY <1>0, <1>b, <2>1 DEF RunSound
  <1>c. ASSUME UNCHANGED <<phase, run>> PROVE RunSound'
    BY <1>0, <1>c DEF RunSound, Covered
  <1>1. CASE UNCHANGED vars
    BY <1>1, <1>c DEF vars
  <1>2. CASE PollLoop
    BY <1>2, <1>c DEF PollLoop, Arrive, PollRead, PollDispatch, SettleHeld, ReplayDue,
                      ReplayExpires
  <1>3. CASE RunnerSends
    <2>1. phase = "live" /\ phase' = phase /\ run' = [run EXCEPT !.side = TRUE]
      BY <1>3 DEF RunnerSends, ChildSound, NoRunner
    <2>2. QED
      BY <1>0, <1>a, <2>1 DEF RunType
  <1>4. CASE Child /\ ~RunnerSends
    BY <1>4, <1>c DEF Child, RunnerBoots, RunnerSupersedes, RunnerHolds, RunnerDefers,
                      RunnerAnswers, RunnerTakesNext, RunnerLeaves, RunnerFails
  <1>5. CASE Envelope \/ RetryTimer \/ FollowUpsConsumed
    BY <1>5, <1>c DEF Envelope, EnvelopeDelivered, TaskSends, RetryTimer, FollowUpsConsumed
  <1>6. CASE Crash \/ CrashAfterReceipt
    BY <1>6, <1>b DEF Crash, CrashAfterReceipt, Restart
  <1>7. CASE StartRun
    <2> DEFINE F == StillOwed(files)
               S == PromptOf(F)
    <2>1. F \subseteq files
      BY DEF StillOwed
    <2>2. S = {} => UNCHANGED <<phase, run>>
      BY <1>7 DEF StartRun
    <2>3. S # {} => /\ phase' = "prep" /\ handed' = handed /\ confirmed' = confirmed
                    /\ run' = [NoRun EXCEPT !.target = Last(S), !.orig = Last(S),
                         !.from = confirmed, !.deferredAtStart = F # {}, !.prompt = S]
      BY <1>7 DEF StartRun
    <2>4. S # {} => UpTo(Last(S)) \subseteq handed \cup S
      BY <2>1, PromptCovers
    <2> HIDE DEF S, F
    <2>5. CASE S # {}
      <3>1. /\ run'.target = Last(S) /\ run'.orig = Last(S) /\ run'.boundary = 0
            /\ run'.from = confirmed /\ run'.prompt = S
        BY <2>3, <2>5 DEF NoRun
      <3>2. QED
        BY <1>0, <2>3, <2>4, <2>5, <3>1 DEF RunSound
    <2>6. QED
      BY <1>c, <2>2, <2>5
  <1>8. CASE BeginActiveRun
    <2>1. /\ phase = "prep" /\ phase' = "live" /\ run' = [run EXCEPT !.boundary = surviving]
          /\ handed' = handed \cup run.prompt
      BY <1>8 DEF BeginActiveRun, Handed
    <2>2. /\ run'.target = run.target /\ run'.orig = run.target /\ run'.from = run.from
          /\ run'.boundary = surviving
      BY <1>0, <2>1 DEF RunType, RunSound
    <2>3. UpTo(run.target) \subseteq handed' /\ UpTo(surviving) \subseteq handed'
      BY <2>1 DEF RunSound, CursorsCovered, Covered
    <2>4. QED
      BY <1>0, <2>1, <2>2, <2>3 DEF RunSound, Covered
  <1>9. CASE FollowUpsAbsorbed
    <2>1. phase = "live" /\ phase' = phase
      BY <1>9 DEF FollowUpsAbsorbed, NextFrame, ChildSound
    <2> DEFINE n == Smaller(Head(frames).n, Len(batches))
               above == IF n = 0 THEN 0 ELSE batches[n]
    <2>2. frames # <<>>
      BY <1>9 DEF FollowUpsAbsorbed, NextFrame
    <2>3. batches \in Seq(Messages) /\ Len(batches) \in Nat
      BY DEF TypeOK
    <2>4. n \in Nat /\ n <= Len(batches)
      BY <2>2, <2>3, FrameIn DEF Smaller
    <2>5. Covered(above)
      <3>1. n # 0 => n \in DOMAIN batches
        BY <2>3, <2>4
      <3> HIDE DEF n
      <3>2. QED
        BY <3>1, CoveredCursors DEF CursorsCovered
    <2>6. run' = run \/ run' = [run EXCEPT !.target = above]
      BY <1>9 DEF FollowUpsAbsorbed
    <2> HIDE DEF n, above
    <2>7. QED
      BY <1>0, <1>a, <2>1, <2>5, <2>6 DEF RunType, Covered
  <1>10. CASE ErrorFrame \/ ResultDelivered \/ ResultNotDelivered
    <2>1. phase = "live" /\ phase' = phase
      BY <1>10 DEF ErrorFrame, ResultDelivered, ResultNotDelivered, NextFrame, ChildSound
    <2>2. \/ run' = [run EXCEPT !.err = TRUE, !.preStart = Head(frames).text]
          \/ run' = [run EXCEPT !.initial = TRUE, !.sent = TRUE, !.answered = TRUE]
          \/ run' = [run EXCEPT !.answered = @ \/ Head(frames).text]
      BY <1>10 DEF ErrorFrame, ResultDelivered, ResultNotDelivered
    <2>3. QED
      BY <1>0, <1>a, <2>1, <2>2 DEF RunType
  <1>11. CASE RunEnds
    <2>1. phase = "live" /\ phase' \notin {"none", "prep"} /\ run' = run
      BY <1>11 DEF RunEnds, AfterChild
    <2>2. QED
      BY <1>a, <2>1
  <1>12. ASSUME NEW ok \in BOOLEAN, FailureReplied(ok) PROVE RunSound'
    BY <1>12, <1>b DEF FailureReplied, Finish
  <1>13. ASSUME NEW ok \in BOOLEAN, NoticeReplied(ok) PROVE RunSound'
    <2>1. phase = "noticing" /\ phase' = "settling" /\ run' = [run EXCEPT !.sent = ok]
      BY <1>13 DEF NoticeReplied
    <2>2. QED
      BY <1>0, <1>a, <2>1 DEF RunType
  <1>14. CASE PreStartHeld
    BY <1>14, <1>b DEF PreStartHeld, Finish
  <1>15. CASE PreStartExpired
    BY <1>15, <1>a DEF PreStartExpired, HoldClears
  <1>16. CASE ExpiryNoticed
    BY <1>16, <1>b, <1>c DEF ExpiryNoticed, Finish
  <1>17. CASE Settle
    BY <1>17, <1>b DEF Settle, SettleLeftover, SettleAmbiguous, SettleWindow, Finish
  <1>18. QED
    BY <1>1, <1>2, <1>3, <1>4, <1>5, <1>6, <1>7, <1>8, <1>9, <1>10, <1>11, <1>12, <1>13,
       <1>14, <1>15, <1>16, <1>17
    DEF Next, HostRun

\* The messages in files and with a receipt were handed over, and have arrived.
LEMMA HandedStep ==
  ASSUME IInv, [Next]_vars
  PROVE  HandedSound'
  <1> USE DEF IInv
  <1>0. /\ handed \subseteq UpTo(arrived) /\ run.prompt \subseteq UpTo(arrived)
        /\ receipts \subseteq handed /\ MessagesIn(files) \subseteq handed
        /\ seen <= arrived /\ seen \in Nat /\ run \in RunType
    BY DEF HandedSound, TypeOK, Cursors
  <1>1. handed \subseteq handed' /\ UpTo(arrived) \subseteq UpTo(arrived')
        /\ arrived \in Nat /\ arrived' \in Nat /\ arrived <= arrived'
    BY Grows DEF UpTo
  <1>2. handed' \subseteq UpTo(arrived')
    <2>1. CASE PipeBatch /\ PollDispatch
      <3>1. handed' = handed \cup (polled.from..polled.to) /\ polled # None
        BY <2>1 DEF PipeBatch, PollDispatch, Handed
      <3>2. polled.from..polled.to \subseteq UpTo(arrived)
        BY <3>1, <1>1 DEF PolledSound, UpTo, TypeOK, Cursors
      <3>3. QED
        BY <1>0, <1>1, <3>1, <3>2
    <2>2. CASE BeginActiveRun
      BY <1>0, <1>1, <2>2 DEF BeginActiveRun, Handed
    <2>3. handed' = handed \/ (PipeBatch /\ PollDispatch) \/ BeginActiveRun
      <3>1. CASE UNCHANGED vars
        BY <3>1 DEF vars
      <3>2. CASE PollLoop
        BY <3>2 DEF PollLoop, Arrive, PollRead, PollDispatch, EnqueueBatch, SettleHeld,
                    ReplayDue, ReplayExpires
      <3>3. CASE Child
        BY <3>3 DEF Child, RunnerBoots, RunnerSupersedes, RunnerHolds, RunnerDefers,
                    RunnerSends, RunnerAnswers, RunnerTakesNext, RunnerLeaves, RunnerFails
      <3>4. CASE HostRun
        BY <3>4 DEF HostRun, RetryTimer, StartRun, FollowUpsAbsorbed,
          FollowUpsConsumed, ErrorFrame, ResultDelivered, ResultNotDelivered, RunEnds,
          FailureReplied, NoticeReplied, PreStartHeld, PreStartExpired, ExpiryNoticed, Settle
      <3>5. CASE Envelope \/ Crash \/ CrashAfterReceipt
        BY <3>5 DEF Envelope, EnvelopeDelivered, TaskSends, Crash, CrashAfterReceipt, Restart
      <3>6. QED
        BY <3>1, <3>2, <3>3, <3>4, <3>5 DEF Next
    <2>4. QED
      BY <1>0, <1>1, <2>1, <2>2, <2>3
  <1>3. run'.prompt \subseteq UpTo(arrived')
    <2>1. \/ run'.prompt = run.prompt
          \/ run'.prompt = {}
          \/ StartRun
      <3>1. CASE UNCHANGED vars
        BY <3>1 DEF vars
      <3>2. CASE PollLoop
        BY <3>2 DEF PollLoop, Arrive, PollRead, PollDispatch, SettleHeld, ReplayDue,
                    ReplayExpires
      <3>3. CASE Child
        <4>1. run' = run \/ run' = [run EXCEPT !.side = TRUE]
          BY <3>3 DEF Child, RunnerBoots, RunnerSupersedes, RunnerHolds, RunnerDefers,
            RunnerSends, RunnerAnswers, RunnerTakesNext, RunnerLeaves, RunnerFails
        <4>2. QED
          BY <1>0, <4>1 DEF RunType
      <3>4. CASE RetryTimer \/ BeginActiveRun \/ FollowUpsAbsorbed \/ FollowUpsConsumed
                 \/ ErrorFrame \/ ResultDelivered \/ ResultNotDelivered \/ RunEnds
                 \/ PreStartExpired
        <4>1. \/ run' = run \/ run' = [run EXCEPT !.boundary = surviving]
              \/ \E c : run' = [run EXCEPT !.target = c]
              \/ run' = [run EXCEPT !.err = TRUE, !.preStart = Head(frames).text]
              \/ run' = [run EXCEPT !.initial = TRUE, !.sent = TRUE, !.answered = TRUE]
              \/ run' = [run EXCEPT !.answered = @ \/ Head(frames).text]
          BY <3>4, Zenon DEF RetryTimer, BeginActiveRun, FollowUpsAbsorbed,
            FollowUpsConsumed, ErrorFrame, ResultDelivered, ResultNotDelivered, RunEnds,
            PreStartExpired
        <4>2. QED
          BY <1>0, <4>1 DEF RunType
      <3>5. ASSUME NEW ok \in BOOLEAN, FailureReplied(ok) \/ NoticeReplied(ok)
            PROVE  run'.prompt = run.prompt \/ run'.prompt = {}
        BY <1>0, <3>5 DEF FailureReplied, NoticeReplied, Finish, NoRun, RunType
      <3>6. CASE PreStartHeld \/ ExpiryNoticed
        <4>1. run' = NoRun \/ run' = run
          BY <3>6 DEF PreStartHeld, ExpiryNoticed, Finish
        <4>2. QED
          BY <4>1 DEF NoRun
      <3>7. CASE Settle
        <4>1. run' = NoRun
          BY <3>7 DEF Settle, SettleLeftover, SettleAmbiguous, SettleWindow, Finish
        <4>2. QED
          BY <4>1 DEF NoRun
      <3>8. CASE Envelope \/ Crash \/ CrashAfterReceipt
        BY <3>8 DEF Envelope, EnvelopeDelivered, TaskSends, Crash, CrashAfterReceipt,
                    Restart, NoRun
      <3>9. QED
        BY <3>1, <3>2, <3>3, <3>4, <3>5, <3>6, <3>7, <3>8 DEF Next, HostRun
    <2>2. CASE StartRun
      <3> DEFINE F == StillOwed(files)
                 S == PromptOf(F)
      <3>1. F \subseteq files
        BY DEF StillOwed
      <3>2. \/ run' = run
            \/ run' = [NoRun EXCEPT !.target = Last(S), !.orig = Last(S),
                         !.from = confirmed, !.deferredAtStart = F # {}, !.prompt = S]
        BY <2>2 DEF StartRun
      <3>3. S \subseteq UpTo(arrived)
        BY <3>1, PromptCovers
      <3> HIDE DEF F, S
      <3>4. run'.prompt = run.prompt \/ run'.prompt = S
        BY <3>2 DEF NoRun
      <3>5. QED
        BY <1>0, <1>1, <3>3, <3>4
    <2>3. QED
      BY <1>0, <1>1, <2>1, <2>2
  <1>4. MessagesIn(files') \subseteq handed'
    <2>1. CASE PollDispatch
      <3>1. CASE EnqueueBatch
        BY <1>0, <1>1, <2>1, <3>1 DEF PollDispatch, EnqueueBatch
      <3>2. CASE PipeBatch
        <4>1. /\ files' = files \cup {File(FreshId, polled.from..polled.to, "waiting", FALSE)}
              /\ handed' = handed \cup (polled.from..polled.to)
          BY <3>2 DEF PipeBatch, Handed
        <4>2. File(FreshId, polled.from..polled.to, "waiting", FALSE).msgs
                = polled.from..polled.to
          BY DEF File
        <4>3. QED
          BY <1>0, <4>1, <4>2 DEF MessagesIn
      <3>3. QED
        BY <2>1, <3>1, <3>2 DEF PollDispatch
    <2>2. CASE Child
      <3>1. \/ files' \subseteq files
            \/ files' = WithMode(files, "deferred")
            \/ files' = WithMode(InMode("waiting"), "deferred")
            \/ files' = WithMode(InMode("deferred"), "final")
        BY <2>2 DEF Child, RunnerBoots, RunnerSupersedes, RunnerHolds, RunnerDefers,
                    RunnerSends, RunnerAnswers, RunnerTakesNext, RunnerLeaves, RunnerFails
      <3>2. InMode("waiting") \subseteq files /\ InMode("deferred") \subseteq files
        BY DEF InMode
      <3>3. QED
        BY <1>0, <1>1, <3>1, <3>2, WithModeSound, FilesSound
    <2>3. CASE StartRun \/ ResultDelivered
      <3>1. files' \subseteq files
        BY <2>3 DEF StartRun, StillOwed, ResultDelivered
      <3>2. QED
        BY <1>0, <1>1, <3>1, FilesSound
    <2>4. CASE RunEnds \/ Crash
      <3>1. files' = WithMode(files, "waiting")
        BY <2>4 DEF RunEnds, Crash, Restart
      <3>2. QED
        BY <1>0, <1>1, <3>1, WithModeSound
    <2>5. CASE CrashAfterReceipt
      BY <1>0, <1>1, <2>5, MarkDoneSound DEF CrashAfterReceipt, Restart
    <2>6. CASE UNCHANGED vars \/ Arrive \/ PollRead \/ SettleHeld \/ ReplayDue \/ ReplayExpires
               \/ Envelope \/ RetryTimer \/ BeginActiveRun \/ FollowUpsAbsorbed
               \/ FollowUpsConsumed \/ ErrorFrame \/ ResultNotDelivered \/ PreStartHeld
               \/ PreStartExpired \/ ExpiryNoticed \/ Settle
               \/ \E ok \in BOOLEAN : FailureReplied(ok) \/ NoticeReplied(ok)
      <3>1. files' = files
        BY <2>6 DEF vars, Arrive, PollRead, SettleHeld, ReplayDue, ReplayExpires,
          Envelope, EnvelopeDelivered, TaskSends, RetryTimer, BeginActiveRun,
          FollowUpsAbsorbed, FollowUpsConsumed, ErrorFrame, ResultNotDelivered,
          PreStartHeld, PreStartExpired, ExpiryNoticed, Settle, FailureReplied, NoticeReplied
      <3>2. QED
        BY <1>0, <1>1, <3>1
    <2>7. QED
      BY <2>1, <2>2, <2>3, <2>4, <2>5, <2>6 DEF Next, PollLoop, HostRun
  <1>5. receipts' \subseteq handed'
    <2>1. CASE ResultDelivered \/ CrashAfterReceipt
      <3>1. receipts' = Receipted(Head(frames).names)
        BY <2>1 DEF ResultDelivered, CrashAfterReceipt, Restart
      <3>2. Acknowledged(Head(frames).names) \subseteq files
        BY DEF Acknowledged
      <3>3. QED
        BY <1>0, <1>1, <3>1, <3>2, FilesSound DEF Receipted
    <2>2. receipts' = receipts \/ ResultDelivered \/ CrashAfterReceipt
      <3>1. CASE UNCHANGED vars
        BY <3>1 DEF vars
      <3>2. CASE PollLoop
        BY <3>2 DEF PollLoop, Arrive, PollRead, PollDispatch, SettleHeld, ReplayDue,
                    ReplayExpires
      <3>3. CASE Child
        BY <3>3 DEF Child, RunnerBoots, RunnerSupersedes, RunnerHolds, RunnerDefers,
                    RunnerSends, RunnerAnswers, RunnerTakesNext, RunnerLeaves, RunnerFails
      <3>4. CASE HostRun
        BY <3>4 DEF HostRun, RetryTimer, StartRun, BeginActiveRun, FollowUpsAbsorbed,
          FollowUpsConsumed, ErrorFrame, ResultNotDelivered, RunEnds,
          FailureReplied, NoticeReplied, PreStartHeld, PreStartExpired, ExpiryNoticed, Settle
      <3>5. CASE Envelope \/ Crash
        BY <3>5 DEF Envelope, EnvelopeDelivered, TaskSends, Crash, Restart
      <3>6. QED
        BY <3>1, <3>2, <3>3, <3>4, <3>5 DEF Next
    <2>3. QED
      BY <1>0, <1>1, <2>1, <2>2
  <1>6. seen' <= arrived'
    <2>1. CASE PollRead
      BY <1>1, <2>1 DEF PollRead
    <2>2. seen' = seen \/ PollRead
      <3>1. CASE UNCHANGED vars
        BY <3>1 DEF vars
      <3>2. CASE PollLoop
        BY <3>2 DEF PollLoop, Arrive, PollDispatch, SettleHeld, ReplayDue, ReplayExpires
      <3>3. CASE Child
        BY <3>3 DEF Child, RunnerBoots, RunnerSupersedes, RunnerHolds, RunnerDefers,
                    RunnerSends, RunnerAnswers, RunnerTakesNext, RunnerLeaves, RunnerFails
      <3>4. CASE HostRun
        BY <3>4 DEF HostRun, RetryTimer, StartRun, BeginActiveRun, FollowUpsAbsorbed,
          FollowUpsConsumed, ErrorFrame, ResultDelivered, ResultNotDelivered, RunEnds,
          FailureReplied, NoticeReplied, PreStartHeld, PreStartExpired, ExpiryNoticed, Settle
      <3>5. CASE Envelope \/ Crash \/ CrashAfterReceipt
        BY <3>5 DEF Envelope, EnvelopeDelivered, TaskSends, Crash, CrashAfterReceipt, Restart
      <3>6. QED
        BY <3>1, <3>2, <3>3, <3>4, <3>5 DEF Next
    <2>3. QED
      BY <1>0, <1>1, <2>1, <2>2
  <1>7. MessagesIn(files)' = MessagesIn(files')
    BY DEF MessagesIn
  <1>8. QED
    BY <1>2, <1>3, <1>4, <1>5, <1>6, <1>7 DEF HandedSound

LEMMA ChildLives ==
  ASSUME ChildSound, Child
  PROVE  phase = "live" /\ UNCHANGED <<phase, expiring>>
  <1>1. runner.st \in {"boot", "turn", "wait"} /\ UNCHANGED <<phase, expiring>>
    BY DEF Child, RunnerBoots, RunnerSupersedes, RunnerHolds, RunnerDefers, RunnerSends,
           RunnerAnswers, RunnerTakesNext, RunnerLeaves, RunnerFails
  <1>2. NoRunner.st = "off"
    BY DEF NoRunner
  <1>3. QED
    BY <1>1, <1>2 DEF ChildSound

LEMMA TwoMore ==
  ASSUME NEW T, NEW s \in Seq(T), NEW a, NEW b, NEW t,
         t = <<>> \/ t = <<a>>
  PROVE  \A i \in DOMAIN (s \o (t \o <<b>>)) :
           LET e == (s \o (t \o <<b>>))[i] IN
             (i \in DOMAIN s /\ e = s[i]) \/ e = a \/ e = b
  <1> DEFINE U == T \cup {a, b}
             w == t \o <<b>>
  <1>1. s \in Seq(U) /\ t \in Seq(U) /\ <<b>> \in Seq(U)
    <2>1. T \subseteq U /\ a \in U /\ b \in U
      OBVIOUS
    <2> HIDE DEF U
    <2>2. s \in Seq(U) /\ <<a>> \in Seq(U) /\ <<b>> \in Seq(U) /\ <<>> \in Seq(U)
      BY <2>1
    <2>3. QED
      BY <2>2
  <1>2. w \in Seq(U) /\ \A i \in DOMAIN w : w[i] = a \/ w[i] = b
    <2>1. \A i \in DOMAIN t : t[i] = a
      OBVIOUS
    <2>2. <<b>>[1] = b /\ Len(<<b>>) = 1
      OBVIOUS
    <2> HIDE DEF U
    <2>3. \A i \in DOMAIN w : (i \in DOMAIN t /\ w[i] = t[i]) \/ w[i] = <<b>>[1]
      BY <1>1, <2>2
    <2>4. w \in Seq(U)
      BY <1>1
    <2>5. QED
      BY <2>1, <2>2, <2>3, <2>4
  <1> HIDE DEF w, U
  <1>3. \A i \in DOMAIN (s \o w) :
          \/ i \in DOMAIN s /\ (s \o w)[i] = s[i]
          \/ (i - Len(s)) \in DOMAIN w /\ (s \o w)[i] = w[i - Len(s)]
    BY <1>1, <1>2
  <1>4. QED
    BY <1>2, <1>3 DEF w

LEMMA ChildStep ==
  ASSUME IInv, [Next]_vars
  PROVE  ChildSound'
  <1> USE DEF IInv
  <1>0. /\ phase # "live" => runner = NoRunner /\ frames = <<>> /\ activeTarget = 0
        /\ phase # "none" => \A f \in files : ~f.done
        /\ phase = "prep" => run.prompt \cap receipts = {}
        /\ \A i \in DOMAIN frames : IsFiniteSet(frames[i].names)
    BY DEF ChildSound
  <1>a. ASSUME UNCHANGED <<phase, run, runner, frames, activeTarget, files, receipts>>
        PROVE  ChildSound'
    BY <1>0, <1>a DEF ChildSound
  \* The child is gone: what is left is to settle the run.
  <1>b. ASSUME phase \notin {"live", "none"}, phase' \notin {"live", "prep"},
               UNCHANGED <<runner, frames, activeTarget, files>>
        PROVE  ChildSound'
    BY <1>0, <1>b DEF ChildSound
  \* The child lives.
  <1>c. ASSUME phase' = "live", \A f \in files' : ~f.done,
               \A i \in DOMAIN frames' : IsFiniteSet(frames'[i].names)
        PROVE  ChildSound'
    BY <1>c DEF ChildSound
  <1>d. ASSUME frames # <<>>, frames' = Tail(frames)
        PROVE  \A i \in DOMAIN frames' : IsFiniteSet(frames'[i].names)
    BY <1>0, <1>d, FrameIn
  <1>e. ASSUME NEW k, NEW n, NEW m, NEW t, Emits(<<Frame(k, n, {}, m, t)>>)
        PROVE  \A i \in DOMAIN frames' : IsFiniteSet(frames'[i].names)
    <2>1. frames \in Seq(FrameType) /\ frames' = frames \o <<Frame(k, n, {}, m, t)>>
      BY <1>e DEF Emits, TypeOK
    <2>2. \A i \in DOMAIN frames' : \/ i \in DOMAIN frames /\ frames'[i] = frames[i]
                                    \/ frames'[i] = Frame(k, n, {}, m, t)
      BY <2>1
    <2>3. Frame(k, n, {}, m, t).names = {}
      BY DEF Frame
    <2>4. QED
      BY <1>0, <2>2, <2>3, FS_EmptySet
  <1>1. CASE UNCHANGED vars
    BY <1>1, <1>a DEF vars
  <1>2. CASE Arrive \/ PollRead \/ SettleHeld \/ ReplayDue \/ ReplayExpires \/ RetryTimer
             \/ Envelope
    BY <1>2, <1>a DEF Arrive, PollRead, SettleHeld, ReplayDue, ReplayExpires, RetryTimer,
                      Envelope, TaskSends, EnvelopeDelivered
  <1>3. CASE PollDispatch
    <2>1. UNCHANGED <<phase, run, runner, frames, activeTarget, receipts>>
      BY <1>3 DEF PollDispatch
    <2>2. CASE EnqueueBatch
      BY <1>a, <2>1, <2>2 DEF EnqueueBatch
    <2>3. CASE PipeBatch
      <3>1. /\ phase \notin {"none", "prep"}
            /\ files' = files \cup {File(FreshId, polled.from..polled.to, "waiting", FALSE)}
        BY <2>3 DEF PipeBatch, CanPipe
      <3>2. File(FreshId, polled.from..polled.to, "waiting", FALSE).done = FALSE
        BY DEF File
      <3>3. \A f \in files' : ~f.done
        BY <1>0, <3>1, <3>2
      <3>4. QED
        BY <1>0, <2>1, <3>1, <3>3 DEF ChildSound
    <2>4. QED
      BY <1>3, <2>2, <2>3 DEF PollDispatch
  <1>4. CASE StartRun
    <2>1. /\ phase = "none" /\ files' = StillOwed(files)
          /\ UNCHANGED <<runner, frames, activeTarget, receipts>>
      BY <1>4 DEF StartRun
    <2>2. \A f \in files' : ~f.done
      BY <2>1 DEF StillOwed
    <2> DEFINE F == StillOwed(files)
               S == PromptOf(F)
    <2>3. \/ UNCHANGED <<phase, run>>
          \/ /\ phase' = "prep"
             /\ run' = [NoRun EXCEPT !.target = Last(S), !.orig = Last(S),
                         !.from = confirmed, !.deferredAtStart = F # {}, !.prompt = S]
      BY <1>4 DEF StartRun
    <2>4. S \cap receipts = {}
      BY DEF PromptOf
    <2> HIDE DEF S, F
    <2>5. CASE UNCHANGED <<phase, run>>
      BY <1>0, <2>1, <2>5 DEF ChildSound
    <2>6. CASE phase' = "prep" /\ run'.prompt = S
      BY <1>0, <2>1, <2>2, <2>4, <2>6 DEF ChildSound
    <2>7. QED
      BY <2>3, <2>5, <2>6 DEF NoRun
  <1>5. CASE BeginActiveRun
    BY <1>0, <1>5, <1>c DEF BeginActiveRun
  <1>6. CASE FollowUpsAbsorbed \/ FollowUpsConsumed \/ ErrorFrame \/ ResultNotDelivered
    <2>1. /\ frames # <<>> /\ frames' = Tail(frames) /\ phase' = phase /\ files' = files
      BY <1>6 DEF FollowUpsAbsorbed, FollowUpsConsumed, ErrorFrame, ResultNotDelivered,
                  NextFrame
    <2>2. QED
      BY <1>0, <1>c, <1>d, <2>1
  <1>7. CASE ResultDelivered
    <2>1. /\ frames # <<>> /\ frames' = Tail(frames) /\ phase' = phase
          /\ files' \subseteq files
      BY <1>7 DEF ResultDelivered, NextFrame
    <2>2. phase = "live"
      BY <1>0, <2>1
    <2>3. QED
      BY <1>0, <1>c, <1>d, <2>1, <2>2
  <1>8. CASE RunEnds
    <2>1. /\ phase = "live" /\ phase' \notin {"live", "prep", "none"}
          /\ runner' = NoRunner /\ frames' = <<>> /\ activeTarget' = 0
          /\ files' = WithMode(files, "waiting")
      BY <1>8 DEF RunEnds, AfterChild
    <2>2. \A f \in files' : ~f.done
      BY <1>0, <2>1, WithModeSound
    <2>3. QED
      BY <2>1, <2>2 DEF ChildSound
  <1>9. ASSUME NEW ok \in BOOLEAN, FailureReplied(ok) \/ NoticeReplied(ok)
        PROVE  ChildSound'
    BY <1>9, <1>b DEF FailureReplied, NoticeReplied, Finish
  <1>10. CASE PreStartHeld \/ PreStartExpired
    BY <1>10, <1>b DEF PreStartHeld, PreStartExpired, HoldClears, Finish
  <1>11. CASE ExpiryNoticed
    <2>1. CASE phase = "expiring"
      BY <1>11, <1>b, <2>1 DEF ExpiryNoticed, Finish
    <2>2. CASE phase # "expiring"
      BY <1>11, <1>a, <2>2 DEF ExpiryNoticed
    <2>3. QED
      BY <2>1, <2>2
  <1>12. CASE Settle
    BY <1>12, <1>b DEF Settle, SettleLeftover, SettleAmbiguous, SettleWindow, Finish
  <1>13. CASE Child
    <2>1. phase = "live" /\ phase' = phase
      BY <1>13, ChildLives
    <2>2. \A f \in files' : ~f.done
      <3>1. \/ files' \subseteq files
            \/ files' = WithMode(files, "deferred")
            \/ files' = WithMode(InMode("waiting"), "deferred")
            \/ files' = WithMode(InMode("deferred"), "final")
        BY <1>13 DEF Child, RunnerBoots, RunnerSupersedes, RunnerHolds, RunnerDefers,
                    RunnerSends, RunnerAnswers, RunnerTakesNext, RunnerLeaves, RunnerFails
      <3>2. InMode("waiting") \subseteq files /\ InMode("deferred") \subseteq files
        BY DEF InMode
      <3>3. \A f \in files : ~f.done
        BY <1>0, <2>1
      <3>4. \A mode \in {"waiting", "deferred", "final"} : \A F \in SUBSET files :
               \A g \in WithMode(F, mode) : ~g.done
        BY <3>3, WithModeSound
      <3>5. QED
        BY <3>1, <3>2, <3>3, <3>4
    <2>3. \A i \in DOMAIN frames' : IsFiniteSet(frames'[i].names)
      <3>1. CASE RunnerBoots \/ RunnerDefers \/ RunnerSends \/ RunnerLeaves
        BY <1>0, <3>1 DEF RunnerBoots, RunnerDefers, RunnerSends, RunnerLeaves
      <3>2. CASE RunnerSupersedes
        BY <1>e, <3>2 DEF RunnerSupersedes
      <3>3. CASE RunnerHolds
        BY <1>e, <3>3 DEF RunnerHolds
      <3>4. CASE RunnerTakesNext
        BY <1>e, <3>4 DEF RunnerTakesNext
      <3>5. CASE RunnerFails
        BY <1>e, <3>5 DEF RunnerFails
      <3>6. ASSUME NEW text \in BOOLEAN, RunnerAnswers(text)
            PROVE  \A i \in DOMAIN frames' : IsFiniteSet(frames'[i].names)
        <4> DEFINE kept == InMode("deferred")
                   names == {f.id : f \in kept}
                   result == Frame("result", 0, names, runner.msgs, text)
                   count == Frame("absorbed", Cardinality(kept), {}, {}, FALSE)
        <4>1. frames' = frames \o ((IF kept = {} THEN <<>> ELSE <<count>>) \o <<result>>)
          BY <3>6 DEF RunnerAnswers, Emits
        <4>2. IsFiniteSet(names)
          <5> DEFINE c == [f \in kept |-> f.id]
          <5>1. names = {c[f] : f \in kept} /\ DOMAIN c = kept
            OBVIOUS
          <5>2. IsFiniteSet(kept)
            BY WaitingSound, FilesSound
          <5> HIDE DEF c, names
          <5>3. QED
            BY <5>1, <5>2, ImageFinite
        <4>3. result.names = names /\ count.names = {}
          BY DEF Frame
        <4> HIDE DEF kept, names, result, count
        <4>4. frames \in Seq(FrameType)
          BY DEF TypeOK
        <4>5. PICK t : (t = <<>> \/ t = <<count>>) /\ frames' = frames \o (t \o <<result>>)
          BY <4>1
        <4>6. \A i \in DOMAIN frames' : \/ i \in DOMAIN frames /\ frames'[i] = frames[i]
                                        \/ frames'[i] = count \/ frames'[i] = result
          BY <4>4, <4>5, TwoMore
        <4>7. QED
          BY <1>0, <4>2, <4>3, <4>6, FS_EmptySet
      <3>7. QED
        BY <1>13, <3>1, <3>2, <3>3, <3>4, <3>5, <3>6 DEF Child
    <2>4. QED
      BY <1>c, <2>1, <2>2, <2>3
  <1>14. CASE Crash \/ CrashAfterReceipt
    <2>1. phase' = "none" /\ runner' = NoRunner /\ frames' = <<>> /\ activeTarget' = 0
      BY <1>14 DEF Crash, CrashAfterReceipt, Restart
    <2>2. QED
      BY <2>1 DEF ChildSound
  <1>15. QED
    BY <1>1, <1>2, <1>3, <1>4, <1>5, <1>6, <1>7, <1>8, <1>9, <1>10, <1>11, <1>12, <1>13, <1>14
    DEF Next, PollLoop, HostRun

-----------------------------------------------------------------------------
(* A chat with messages past its cursor is waited for                      *)

LEMMA IntervalBound ==
  ASSUME NEW c \in Nat, NEW n \in Nat, UpTo(c) \subseteq UpTo(n)
  PROVE  c <= n
  <1>1. c # 0 => c \in 1..c
    OBVIOUS
  <1>2. QED
    BY <1>1 DEF UpTo

\* The end of a run leaves work, a retry or a parked chat when a message is past
\* the cursor.
LEMMA FinishKeeps ==
  ASSUME TypeOK, NEW ok \in BOOLEAN, NEW cursor \in Cursors, NEW h, NEW more \in BOOLEAN,
         Finish(ok, cursor, h, more), cursor >= run.from
  PROVE  confirmed' = cursor /\ (arrived > cursor => work' \/ retry' \/ parked')
  <1>1. run.from \in Int /\ cursor \in Int /\ arrived \in Int /\ retryCount \in Int
        /\ MaxRetries \in Int
    BY DEF TypeOK, RunType, Cursors
  <1>2. CASE ok /\ cursor = run.from
    BY <1>2 DEF Finish
  <1>3. CASE ok /\ cursor # run.from
    <2>1. arrived > cursor => ChatNeedsRunAfterRun(ok, cursor)
      BY <1>1, <1>3 DEF ChatNeedsRunAfterRun
    <2>2. QED
      BY <2>1 DEF Finish
  <1>4. CASE ~ok
    <2>1. /\ confirmed' = cursor /\ retry' = (retry \/ (~ok /\ retryCount < MaxRetries))
          /\ parked' = IF ok THEN cursor = run.from ELSE retryCount >= MaxRetries
      BY DEF Finish
    <2>2. CASE retryCount < MaxRetries
      BY <1>4, <2>1, <2>2
    <2>3. CASE retryCount >= MaxRetries
      BY <1>4, <2>1, <2>3
    <2>4. QED
      BY <1>1, <2>2, <2>3
  <1>5. QED
    BY <1>2, <1>3, <1>4

LEMMA ChatStep ==
  ASSUME IInv, [Next]_vars, TypeOK', CursorsCovered', HandedSound'
  PROVE  ChatKept'
  <1> USE DEF IInv
  <1> DEFINE waits == work \/ retry \/ held # 0 \/ expiring # 0 \/ parked
  <1>0. /\ confirmed \in Nat /\ confirmed' \in Nat /\ confirmed' >= confirmed
        /\ confirmed' \in Cursors /\ expiring \in Nat /\ expiring' \in Nat
        /\ held \in Nat /\ seen \in Nat
        /\ seen' \in Nat /\ arrived \in Nat /\ arrived' \in Nat /\ piped \in Nat
        /\ piped' \in Nat /\ run.from \in Nat /\ confirmed' >= run.from
    <2>1. /\ confirmed \in Nat /\ expiring \in Nat /\ held \in Nat /\ seen \in Nat
          /\ arrived \in Nat /\ piped \in Nat /\ run.from \in Nat
      BY DEF TypeOK, RunType, Cursors
    <2>2. /\ confirmed' \in Cursors /\ confirmed' \in Nat /\ expiring' \in Nat
          /\ seen' \in Nat /\ arrived' \in Nat /\ piped' \in Nat
      BY DEF TypeOK, Cursors
    <2>3. confirmed' >= confirmed /\ run.from <= confirmed
      BY Grows DEF RunSound
    <2>4. QED
      BY <2>1, <2>2, <2>3
  <1>1. seen' <= arrived' /\ piped' <= arrived'
    <2>1. UpTo(piped') \subseteq UpTo(arrived') /\ seen' <= arrived'
      BY DEF CursorsCovered, HandedSound, Covered
    <2>2. QED
      BY <1>0, <2>1, IntervalBound
  <1>2. /\ expiring # 0 => confirmed >= expiring
        /\ phase = "none" /\ ((polled = None /\ seen > confirmed) \/ piped > confirmed)
             => waits
    BY DEF ChatKept
  <1>a. ASSUME UNCHANGED <<phase, seen, polled>>, piped' \in {0, piped},
               expiring' = expiring, waits => waits'
        PROVE  ChatKept'
    BY <1>0, <1>2, <1>a DEF ChatKept
  <1>f. ASSUME arrived' > confirmed' => waits',
               expiring' = 0 \/ expiring' = expiring \/ expiring' = confirmed'
        PROVE  ChatKept'
    BY <1>0, <1>1, <1>2, <1>f DEF ChatKept
  <1>n. ASSUME phase' # "none",
               expiring' = 0 \/ expiring' = expiring \/ expiring' = confirmed'
        PROVE  ChatKept'
    BY <1>0, <1>2, <1>n DEF ChatKept
  <1>3. CASE UNCHANGED vars
    BY <1>3, <1>a DEF vars
  <1>4. CASE Arrive \/ ReplayDue \/ RetryTimer \/ TaskSends
    BY <1>4, <1>a DEF Arrive, ReplayDue, RetryTimer, TaskSends, Enqueue
  <1>5. CASE PollRead
    <2>1. CASE phase # "none"
      BY <1>5, <1>n, <2>1 DEF PollRead
    <2>2. CASE phase = "none"
      <3>1. activeTarget = 0 /\ PendingMessageCursor \in Cursors
        BY <2>2, LargerIn DEF ChildSound, PendingMessageCursor, TypeOK
      <3>2. PendingMessageCursor \in Nat
            /\ (PendingMessageCursor = confirmed \/ PendingMessageCursor = piped
                \/ PendingMessageCursor = 0)
        BY <3>1 DEF PendingMessageCursor, Larger, Cursors
      <3>3. /\ UNCHANGED <<phase, confirmed, piped, work, retry, held, expiring, parked>>
            /\ seen' = arrived
            /\ polled' = IF arrived > PendingMessageCursor
                         THEN [from |-> PendingMessageCursor + 1, to |-> arrived] ELSE None
        BY <1>5 DEF PollRead
      <3>4. CASE arrived > PendingMessageCursor
        <4>1. polled'.from = PendingMessageCursor + 1 /\ None.from = 0
          BY <3>3, <3>4 DEF None
        <4>2. polled' # None
          BY <3>2, <4>1
        <4>3. QED
          BY <1>0, <1>2, <2>2, <3>3, <4>2 DEF ChatKept
      <3>5. CASE ~(arrived > PendingMessageCursor)
        <4>1. arrived <= confirmed \/ arrived <= piped
          BY <1>0, <3>2, <3>5
        <4>2. QED
          BY <1>0, <1>2, <2>2, <3>3, <4>1 DEF ChatKept
      <3>6. QED
        BY <3>4, <3>5
    <2>3. QED
      BY <2>1, <2>2
  <1>6. CASE PollDispatch
    <2>1. UNCHANGED <<phase, expiring>>
      BY <1>6 DEF PollDispatch
    <2>2. CASE EnqueueBatch
      BY <1>f, <2>1, <2>2 DEF EnqueueBatch, Enqueue
    <2>3. CASE PipeBatch
      BY <1>n, <2>1, <2>3 DEF PipeBatch, CanPipe
    <2>4. QED
      BY <1>6, <2>2, <2>3 DEF PollDispatch
  <1>7. CASE SettleHeld
    BY <1>7, <1>f DEF SettleHeld
  <1>8. CASE ReplayExpires
    BY <1>8, <1>f DEF ReplayExpires, TickOfIdleChat
  <1>9. CASE StartRun
    <2>1. \/ confirmed' = arrived /\ UNCHANGED <<arrived, expiring>>
          \/ phase' = "prep" /\ UNCHANGED expiring
      BY <1>9 DEF StartRun
    <2>2. QED
      BY <1>0, <1>f, <1>n, <2>1
  <1>10. CASE BeginActiveRun \/ RunEnds \/ PreStartExpired
    BY <1>10, <1>n DEF BeginActiveRun, RunEnds, AfterChild, PreStartExpired
  <1>11. CASE FollowUpsAbsorbed \/ FollowUpsConsumed \/ ErrorFrame \/ ResultDelivered
              \/ ResultNotDelivered
    <2>1. frames # <<>> /\ UNCHANGED <<phase, expiring>>
      BY <1>11 DEF FollowUpsAbsorbed, FollowUpsConsumed, ErrorFrame, ResultDelivered,
                   ResultNotDelivered, NextFrame
    <2>2. QED
      BY <1>n, <2>1 DEF ChildSound
  <1>12. ASSUME NEW ok \in BOOLEAN, FailureReplied(ok) PROVE ChatKept'
    <2>1. /\ \E cursor \in Cursors : Finish(ok, cursor, held, FALSE) /\ confirmed' = cursor
          /\ UNCHANGED <<arrived, expiring>>
      BY <1>0, <1>12 DEF FailureReplied, Finish
    <2>2. arrived > confirmed' => work' \/ retry' \/ parked'
      BY <1>0, <2>1, FinishKeeps
    <2>3. QED
      BY <1>f, <2>1, <2>2
  <1>13. ASSUME NEW ok \in BOOLEAN, NoticeReplied(ok) PROVE ChatKept'
    BY <1>13, <1>n DEF NoticeReplied
  <1>14. CASE PreStartHeld
    <2>1. /\ Finish(TRUE, confirmed, HeldCursor, FALSE) /\ confirmed' = confirmed
          /\ confirmed \in Cursors /\ UNCHANGED <<arrived, expiring>>
      BY <1>14 DEF PreStartHeld, Finish, TypeOK
    <2>2. arrived > confirmed' => work' \/ retry' \/ parked'
      BY <1>0, <2>1, FinishKeeps
    <2>3. QED
      BY <1>f, <2>1, <2>2
  <1>15. CASE ExpiryNoticed
    <2>1. expiring # 0 /\ expiring' = 0 /\ arrived' = arrived
      BY <1>15 DEF ExpiryNoticed
    <2>2. CASE phase = "expiring"
      <3>1. /\ Finish(TRUE, confirmed, held, arrived > expiring) /\ confirmed' = confirmed
            /\ confirmed \in Cursors
        BY <1>15, <2>2 DEF ExpiryNoticed, Finish, TypeOK
      <3>2. (arrived > expiring) \in BOOLEAN
        BY <1>0
      <3>3. arrived > confirmed' => work' \/ retry' \/ parked'
        BY <1>0, <3>1, <3>2, FinishKeeps
      <3>4. QED
        BY <1>f, <2>1, <3>3
    <2>3. CASE phase # "expiring"
      <3>1. work' = (work \/ arrived > expiring) /\ confirmed' = confirmed
        BY <1>15, <2>3 DEF ExpiryNoticed
      <3>2. arrived' > confirmed' => arrived > expiring
        BY <1>0, <1>2, <2>1, <3>1
      <3>3. QED
        BY <1>f, <2>1, <3>1, <3>2
    <2>4. QED
      BY <2>2, <2>3
  <1>16. CASE Settle
    <2>1. UNCHANGED <<arrived, expiring>>
      BY <1>16 DEF Settle
    <2>2. \E ok \in BOOLEAN : Finish(ok, confirmed', held, FALSE)
      <3>1. CASE SettleLeftover
        BY <3>1 DEF SettleLeftover, Finish
      <3>2. CASE SettleAmbiguous
        BY <3>2 DEF SettleAmbiguous, Finish
      <3>3. CASE SettleWindow
        <4> DEFINE ok == ~HasUnconfirmedPiped /\ ~(run.err /\ ~run.sent)
        <4>1. Finish(ok, confirmed, held, FALSE)
          BY <3>3 DEF SettleWindow
        <4>2. ok \in BOOLEAN
          BY Zenon
        <4> HIDE DEF ok
        <4>3. confirmed' = confirmed
          BY <4>1 DEF Finish
        <4>4. QED
          BY <4>1, <4>2, <4>3
      <3>4. QED
        BY <1>16, <3>1, <3>2, <3>3 DEF Settle
    <2>3. arrived > confirmed' => work' \/ retry' \/ parked'
      BY <1>0, <2>2, FinishKeeps
    <2>4. QED
      BY <1>f, <2>1, <2>3
  <1>17. CASE Child
    <2>1. phase = "live" /\ UNCHANGED <<phase, expiring>>
      BY <1>17, ChildLives
    <2>2. QED
      BY <1>n, <2>1
  <1>18. CASE EnvelopeDelivered
    <2>1. /\ UNCHANGED <<phase, seen, polled, expiring, work, retry, held, parked>>
          /\ piped' \in {0, piped}
      BY <1>18 DEF EnvelopeDelivered, PriorRunEnvelope, CurrentEnvelope
    <2>2. QED
      BY <1>a, <2>1
  <1>19. CASE Crash \/ CrashAfterReceipt
    <2>1. /\ expiring' = 0 /\ UNCHANGED <<arrived, confirmed, held>>
          /\ \E expired \in {FALSE, held # 0} :
               work' = (~expired /\ (arrived > confirmed \/ files # {}))
      BY <1>19 DEF Crash, CrashAfterReceipt, Restart
    <2>2. arrived > confirmed => work' \/ held # 0
      BY <2>1
    <2>3. QED
      BY <1>f, <2>1, <2>2
  <1>20. QED
    BY <1>3, <1>4, <1>5, <1>6, <1>7, <1>8, <1>9, <1>10, <1>11, <1>12, <1>13, <1>14, <1>15,
       <1>16, <1>17, <1>18, <1>19
    DEF Next, PollLoop, HostRun, Envelope

-----------------------------------------------------------------------------
(* Theorems                                                                *)

LEMMA InvInit == Init => IInv
  <1> SUFFICES ASSUME Init PROVE IInv
    OBVIOUS
  <1>1. TypeOK
    BY TypeInit
  <1>2. MessagesIn(files) = {}
    BY DEF Init, MessagesIn
  <1>3. run.prompt = {} /\ run.from = 0
    BY DEF Init, NoRun
  <1>4. CursorsCovered /\ PolledSound
    BY UpToZero DEF Init, CursorsCovered, PolledSound, Covered
  <1>5. RunSound /\ HandedSound
    BY <1>2, <1>3 DEF Init, RunSound, HandedSound
  <1>6. ChildSound /\ ChatKept
    BY DEF Init, ChildSound, ChatKept
  <1>7. QED
    BY <1>1, <1>4, <1>5, <1>6 DEF IInv

LEMMA InvStep == IInv /\ [Next]_vars => IInv'
  <1> SUFFICES ASSUME IInv, [Next]_vars PROVE IInv'
    OBVIOUS
  <1>1. TypeOK'
    BY TypeStep DEF IInv
  <1>2. CursorsCovered' /\ PolledSound' /\ RunSound' /\ HandedSound' /\ ChildSound'
    BY CursorsStep, PolledStep, RunStep, HandedStep, ChildStep
  <1>3. ChatKept'
    BY <1>1, <1>2, ChatStep
  <1>4. QED
    BY <1>1, <1>2, <1>3 DEF IInv

LEMMA Inductive == Spec => []IInv
  BY InvInit, InvStep, PTL DEF Spec

\* For any number of messages, retries, files, frames and faults, every variable of
\* the loop, of the queue's entry and of the child keeps its type.
THEOREM TypeCorrect == Spec => []TypeOK
  BY Inductive, PTL DEF IInv

\* The cursor passes nothing unread: whatever moves it, a delivery, an envelope of
\* this run or the one before, a failure, a notice, a leftover input or a replay that
\* expired, everything up to it was put before a model or into an input file.
THEOREM NothingPassedUnread == Spec => []HandedBeforePassed
  <1>1. IInv => HandedBeforePassed
    BY DEF IInv, CursorsCovered, Covered, HandedBeforePassed
  <1>2. QED
    BY <1>1, Inductive, PTL

\* A chat without a run that has seen messages past its cursor is queued, waits for a
\* retry, a replay or a notice, or was let go of by the queue's policy.
THEOREM NothingLeftBehind == Spec => []NothingForgotten
  <1>1. IInv => NothingForgotten
    BY DEF IInv, ChatKept, NothingForgotten
  <1>2. QED
    BY <1>1, Inductive, PTL

\* What has a receipt is not asked for again, also after a crash between the receipt
\* of an answer and the removal of its inputs.
THEOREM ReceiptsHonoured == Spec => []ReceiptedNotReplayed
  <1>1. IInv => ReceiptedNotReplayed
    BY DEF IInv, ChildSound, ReceiptedNotReplayed
  <1>2. QED
    BY <1>1, Inductive, PTL

\* No step takes the confirmed cursor back: what moves it is at or past it, since
\* everything noted as a cursor has arrived and the rest is folded with the old one.
THEOREM CursorNeverBack == Spec => CursorMonotone
  <1>1. IInv /\ [Next]_vars => confirmed' >= confirmed
    BY Grows
  <1>2. QED
    BY <1>1, Inductive, PTL DEF Spec, CursorMonotone
=============================================================================
