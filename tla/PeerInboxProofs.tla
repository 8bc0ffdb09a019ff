-------------------------- MODULE PeerInboxProofs --------------------------
(* Theorems about PeerInbox for every number of events, files and faults.  *)
EXTENDS PeerInbox, NumberLemmas, FiniteSetTheorems, TLAPS

LEMMA Limits ==
  /\ MaxEvent \in Nat /\ MaxPart \in Nat /\ MaxFaults \in Nat
  /\ RowLimit \in Nat /\ RowLimit >= 1
  /\ SendLimit \in Nat /\ SendLimit >= 1
  <1>1. MaxEvent \in Nat \ {0} /\ RowLimit \in Nat \ {0} /\ SendLimit \in Nat \ {0}
    BY LimitsAssumption, Zenon
  <1>2. MaxPart \in Nat /\ MaxFaults \in Nat
    BY LimitsAssumption, Zenon
  <1>3. QED
    BY <1>1, <1>2

USE Limits

-----------------------------------------------------------------------------
(* The least element of a set of numbers, and how many a LIMIT lets pass.  *)

LEMMA LowestIn ==
  ASSUME NEW T, T \subseteq Nat, T # {}
  PROVE  Lowest(T) \in T /\ \A k \in T : Lowest(T) <= k
  BY LeastExists, Zenon DEF Lowest

\* FirstOf really takes no more than n: its greatest member has fewer than n
\* members of the set, hence of FirstOf, before it.
LEMMA FirstOfBound ==
  ASSUME NEW m \in Nat, NEW S, S \subseteq 1..m, NEW n \in Nat
  PROVE  /\ FirstOf(S, n) \subseteq S
         /\ IsFiniteSet(FirstOf(S, n))
         /\ Cardinality(FirstOf(S, n)) <= n
  <1> DEFINE F == FirstOf(S, n)
  <1>1. F \subseteq S
    BY DEF FirstOf
  <1>2. IsFiniteSet(1..m)
    BY FS_Interval
  <1>3. \A T : T \subseteq S => IsFiniteSet(T) /\ Cardinality(T) \in Nat
    BY <1>2, FS_Subset, FS_CardinalityType
  <1>4. CASE F = {}
    BY <1>1, <1>3, <1>4, FS_EmptySet
  <1>5. CASE F # {}
    <2>1. PICK g \in F : \A k \in F : k <= g
      <3>1. F \subseteq 1..m
        BY <1>1
      <3> HIDE DEF F
      <3>2. QED
        BY <1>5, <3>1, GreatestExists
    <2> DEFINE B == {j \in S : j < g}
    <2>2. g \in S /\ Cardinality(B) < n
      BY <1>1, <2>1 DEF FirstOf
    <2>3. F \ {g} \subseteq B
      <3>1. ASSUME NEW k \in F, k # g PROVE k \in B
        <4>1. k <= g /\ k \in S /\ k \in 1..m /\ g \in 1..m
          BY <1>1, <2>1
        <4>2. k < g
          BY <3>1, <4>1
        <4>3. QED
          BY <4>1, <4>2
      <3> HIDE DEF F, B
      <3>2. QED
        BY <3>1
    <2>4. B \subseteq S
      OBVIOUS
    <2> HIDE DEF F, B
    <2>5. Cardinality(F \ {g}) <= Cardinality(B)
      BY <1>3, <2>3, <2>4, FS_Subset
    <2>6. Cardinality(F \ {g}) = Cardinality(F) - 1
      BY <1>1, <1>3, <2>1, FS_RemoveElement
    <2>7. Cardinality(F) \in Nat /\ Cardinality(B) \in Nat
      BY <1>1, <1>3, <2>4
    <2>8. QED
      BY <1>1, <1>3, <2>2, <2>5, <2>6, <2>7 DEF F
  <1>6. QED
    BY <1>4, <1>5

-----------------------------------------------------------------------------
(* The inductive invariant.  SentAtMostOnce does not carry itself: it needs *)
(* what each state of a part says of the channel, and that the locals of   *)
(* the pump still agree with the row they were read from.                  *)

\* What is known of one part: one that was not handed out is not under way, one still
\* to be sent was not handed out, a confirmed one was; of the text, the row says
\* "confirmed" exactly when it is known to have arrived, and an attempt is recorded
\* while it may.
PartStory(e, p) ==
  /\ handed[e][p] \in {0, 1}
  /\ parts[e][p] \in {"none", "pending"} => handed[e][p] = 0
  /\ parts[e][p] = "confirmed" => handed[e][p] = 1
  /\ handed[e][p] = 0 => <<e, p>> \notin wire \cup delivered
  /\ <<e, p>> \in delivered => parts[e][p] = "confirmed"
  /\ p = 0 /\ <<e, p>> \in wire => parts[e][p] \in {"sending", "unknown"}
  /\ p = 0 /\ parts[e][p] = "confirmed" => <<e, p>> \in delivered
  /\ e \notin Known => parts[e][p] = "none"

PartsSound == \A e \in Events, p \in Parts : PartStory(e, p)

\* A receipt says "complete" when the text arrived and all files were handed out.
ReceiptsSound ==
  \A e \in Events : receipts[e].delivery = "complete" =>
    /\ <<e, 0>> \in delivered
    /\ \A p \in Parts : Carries(e, p) => handed[e][p] = 1

\* What the pump's locals say of the row and the part in hand.
HandSound ==
  /\ pc = "parts" => \A p \in left : parts[Row][p] = "pending"
  /\ pc \in {"claimed", "await"} => /\ parts[Row][Part] = "sending"
                                    /\ \A p \in left \ {Part} : parts[Row][p] = "pending"
  /\ pc = "claimed" => handed[Row][Part] = 0 /\ ~OutOfDate(Row)
  /\ pc = "await" => handed[Row][Part] = 1
  /\ pc \in {"parts", "claimed", "await"} => IsCurrentEvent(Row)

IInv == TypeOK /\ PartsSound /\ ReceiptsSound /\ HandSound

\* The ways an awaited send can end.
Answered ==
  PartAcked \/ PartDropped \/ PartUnknown \/ FileAckedUnsent \/ FileOutcomeLost

-----------------------------------------------------------------------------
LEMMA RowIn ==
  ASSUME TypeOK, rows # {}
  PROVE  /\ Lowest(rows) \in rows
         /\ Lowest(rows) \in DOMAIN order
         /\ Row \in Events /\ Row \in Known
  <1>1. rows \subseteq Nat /\ order \in Seq(Events)
    BY DEF TypeOK
  <1>2. Lowest(rows) \in rows
    BY <1>1, LowestIn
  <1>3. Lowest(rows) \in DOMAIN order
    BY <1>2 DEF TypeOK
  <1>4. QED
    BY <1>1, <1>2, <1>3 DEF Row, Known

LEMMA PartIn ==
  ASSUME TypeOK, left # {}
  PROVE  Part \in left /\ Part \in Parts
  <1>1. left \subseteq Parts /\ Parts \subseteq Nat
    BY DEF TypeOK, Parts
  <1>2. QED
    BY <1>1, LowestIn DEF Part

LEMMA FileIn ==
  ASSUME TypeOK, todo # {}
  PROVE  Lowest(todo) \in todo /\ Lowest(todo) \in Events
  <1>1. todo \subseteq Events /\ Events \subseteq Nat
    BY DEF TypeOK, Events
  <1>2. QED
    BY <1>1, LowestIn

\* One row less keeps the limit.
LEMMA FewerRows ==
  ASSUME TypeOK, NEW i
  PROVE  Cardinality(rows \ {i}) <= RowLimit
  <1>1. IsFiniteSet(rows)
    <2>1. Len(order) \in Nat /\ rows \subseteq 1..Len(order)
      BY DEF TypeOK
    <2>2. IsFiniteSet(1..Len(order))
      BY <2>1, FS_Interval
    <2>3. QED
      BY <2>1, <2>2, FS_Subset
  <1>2. Cardinality(rows \ {i}) <= Cardinality(rows) /\ IsFiniteSet(rows \ {i})
    BY <1>1, FS_Subset
  <1>3. Cardinality(rows) \in Nat /\ Cardinality(rows \ {i}) \in Nat
    BY <1>1, <1>2, FS_CardinalityType
  <1>4. QED
    BY <1>2, <1>3 DEF TypeOK

LEMMA KnownEvents ==
  ASSUME TypeOK
  PROVE  Known \subseteq Events
  BY DEF TypeOK, Known

LEMMA ReceiptType ==
  ASSUME TypeOK, NEW e \in Events, WriteReceipt(e)
  PROVE  receipts' \in [Events -> [delivery : {"none", "disabled", "unknown", "suppressed",
                                        "complete", "pending"}, stale : BOOLEAN]]
  BY DEF TypeOK, WriteReceipt, ReceiptOf, Delivery

LEMMA SetPartType ==
  ASSUME TypeOK, NEW e \in Events, NEW p \in Parts, NEW s \in States, SetPart(e, p, s)
  PROVE  parts' \in [Events -> [Parts -> States]]
  BY DEF TypeOK, SetPart

LEMMA SuppressedType ==
  ASSUME TypeOK, NEW e \in Events
  PROVE  [parts EXCEPT ![e] = Suppressed(e)] \in [Events -> [Parts -> States]]
  <1>1. Suppressed(e) \in [Parts -> States]
    BY DEF TypeOK, Suppressed, States
  <1>2. QED
    BY <1>1 DEF TypeOK

LEMMA DisturbedType ==
  ASSUME TypeOK, Disturbed
  PROVE  faults' \in 0..MaxFaults
  <1>1. faults \in 0..MaxFaults /\ faults < MaxFaults /\ faults' = faults + 1
    BY DEF TypeOK, Disturbed
  <1>2. QED
    BY <1>1

LEMMA TypeInit == Init => TypeOK
  <1> SUFFICES ASSUME Init PROVE TypeOK
    OBVIOUS
  <1>1. Known = {}
    BY DEF Init, Known
  <1>2. Cardinality(rows) = 0
    BY FS_EmptySet DEF Init
  <1>3. receipts \in [Events -> [delivery : {"none", "disabled", "unknown", "suppressed",
                                      "complete", "pending"}, stale : BOOLEAN]]
    BY DEF Init, NoReceipt
  <1>4. parts \in [Events -> [Parts -> States]] /\ handed \in [Events -> [Parts -> Nat]]
    BY DEF Init, States
  <1>5. order \in Seq(Events) /\ \A i, j \in DOMAIN order : order[i] = order[j] => i = j
    BY DEF Init
  <1>6. sends \in 0..SendLimit /\ faults \in 0..MaxFaults /\ rows \subseteq DOMAIN order
        /\ Cardinality(rows) <= RowLimit
    BY <1>2 DEF Init
  <1>7. QED
    BY <1>1, <1>3, <1>4, <1>5, <1>6 DEF Init, TypeOK

LEMMA TypeStep == TypeOK /\ [Next]_vars => TypeOK'
  <1> SUFFICES ASSUME TypeOK, [Next]_vars PROVE TypeOK'
    OBVIOUS
  <1> USE DEF rowVars, tickVars, envVars, chanVars
  <1> USE KnownEvents
  <1>0. Known' = Known \/ order' # order
    BY DEF Known
  <1>1. CASE UNCHANGED vars
    BY <1>0, <1>1 DEF TypeOK, vars
  <1>2. CASE TickStarts
    BY <1>0, <1>2 DEF TypeOK, TickStarts
  <1>3. CASE FileRejected
    BY <1>0, <1>3, FileIn DEF TypeOK, FileRejected
  <1>4. CASE EventReceived
    <2>1. Lowest(todo) \in Events
      BY <1>4, FileIn DEF EventReceived
    <2>2. CASE Lowest(todo) \in Known
      BY <1>0, <1>4, <2>2 DEF TypeOK, EventReceived
    <2>3. CASE Lowest(todo) \notin Known
      <3> DEFINE e == Lowest(todo)
      <3>1. order' = Append(order, e) /\ parts' = [parts EXCEPT ![e] = Received(e)]
        BY <1>4, <2>3 DEF EventReceived
      <3>2. Received(e) \in [Parts -> States]
        BY DEF Received, States
      <3>3. parts' \in [Events -> [Parts -> States]]
        BY <3>1, <3>2 DEF TypeOK
      <3>4. /\ order \in Seq(Events) /\ Len(order) \in Nat
            /\ \A i \in 1..Len(order) : order[i] # e
            /\ \A i, j \in 1..Len(order) : order[i] = order[j] => i = j
        <4>1. order \in Seq(Events) /\ \A i, j \in DOMAIN order : order[i] = order[j] => i = j
          BY DEF TypeOK
        <4>2. Len(order) \in Nat /\ DOMAIN order = 1..Len(order)
          BY <4>1
        <4>3. \A i \in DOMAIN order : order[i] # e
          BY <2>3 DEF Known
        <4>4. QED
          BY <4>1, <4>2, <4>3
      <3>5. /\ order' \in Seq(Events)
            /\ Len(order') = Len(order) + 1
            /\ \A i \in 1..Len(order) : order'[i] = order[i]
            /\ order'[Len(order) + 1] = e
            /\ DOMAIN order' = 1..(Len(order) + 1) /\ DOMAIN order = 1..Len(order)
        BY <2>1, <3>1, <3>4
      <3>6. \A i, j \in DOMAIN order' : order'[i] = order'[j] => i = j
        BY <3>4, <3>5
      <3>7. Known \subseteq Known' /\ DOMAIN order \subseteq DOMAIN order'
        <4>1. DOMAIN order \subseteq DOMAIN order'
          BY <3>4, <3>5
        <4>2. \A i \in DOMAIN order : order'[i] = order[i]
          BY <3>5
        <4>3. QED
          BY <4>1, <4>2 DEF Known
      <3> HIDE DEF e
      <3>8. QED
        BY <1>4, <3>3, <3>5, <3>6, <3>7 DEF TypeOK, EventReceived
    <2>4. QED
      BY <2>2, <2>3
  <1>5. CASE FileProcessed
    BY <1>0, <1>5 DEF TypeOK, FileProcessed
  <1>6. CASE ContextRechecked
    <2>1. PICK i \in DOMAIN order :
            /\ stale' = stale \cup {order[i]}
            /\ notified' = notified \ {order[i]}
            /\ parts' = IF mode[order[i]] = "notice" THEN parts
                        ELSE [parts EXCEPT ![order[i]] = Suppressed(order[i])]
            /\ rows' = {i}
      BY <1>6 DEF ContextRechecked
    <2>2. order[i] \in Known /\ order[i] \in Events
      BY KnownEvents DEF Known
    <2>3. parts' \in [Events -> [Parts -> States]]
      BY <2>1, <2>2, SuppressedType DEF TypeOK
    <2>4. Cardinality(rows') <= RowLimit /\ rows' # {}
      <3>1. Cardinality({i}) = 1
        BY FS_Singleton, Zenon
      <3>2. QED
        BY <2>1, <3>1
    <2>5. QED
      BY <1>0, <1>6, <2>1, <2>2, <2>3, <2>4 DEF TypeOK, ContextRechecked
  <1>7. CASE RecheckReceipt
    <2>1. WriteReceipt(Row) /\ Row \in Events
      BY <1>7, RowIn DEF RecheckReceipt, TypeOK
    <2>2. Cardinality({}) <= RowLimit
      BY FS_EmptySet
    <2>3. QED
      BY <1>0, <1>7, <2>1, <2>2, ReceiptType DEF TypeOK, RecheckReceipt
  <1>8. CASE RowsRead
    <2>1. /\ DueRows \subseteq 1..Len(order) /\ Len(order) \in Nat
          /\ DOMAIN order = 1..Len(order)
      BY DEF DueRows, TypeOK
    <2>2. rows' \subseteq DOMAIN order /\ Cardinality(rows') <= RowLimit
      BY <1>8, <2>1, FirstOfBound DEF RowsRead
    <2>3. QED
      BY <1>0, <1>8, <2>2 DEF TypeOK, RowsRead
  <1>9. CASE RowsDone
    BY <1>0, <1>9 DEF TypeOK, RowsDone
  <1>10. CASE RowSkipped
    BY <1>0, <1>10, FewerRows DEF TypeOK, RowSkipped
  <1>11. CASE RowSuperseded
    BY <1>0, <1>11, RowIn, SuppressedType DEF TypeOK, RowSuperseded
  <1>12. CASE RowOpened
    BY <1>0, <1>12, RowIn DEF TypeOK, RowOpened, PartsIn
  <1>13. CASE RowReceipt
    BY <1>0, <1>13, RowIn, ReceiptType, FewerRows DEF TypeOK, RowReceipt
  <1>14. CASE PartsEnd
    BY <1>0, <1>14 DEF TypeOK, PartsEnd
  <1>15. CASE PartsOutOfDate
    BY <1>0, <1>15, RowIn, SuppressedType DEF TypeOK, PartsOutOfDate
  <1>16. CASE PartDamaged
    BY <1>0, <1>16, RowIn, PartIn, SetPartType DEF TypeOK, PartDamaged, States
  <1>17. CASE PartClaimed
    <2>1. parts' \in [Events -> [Parts -> States]]
      BY <1>17, RowIn, PartIn, SetPartType DEF TypeOK, PartClaimed, States
    <2>2. sends \in 0..SendLimit /\ ~(sends >= SendLimit) /\ sends' = sends + 1
      BY <1>17 DEF TypeOK, PartClaimed, Held, SendsUsedUp
    <2>3. sends' \in 0..SendLimit
      BY <2>2
    <2>4. rows # {} /\ left # {}
      BY <1>17 DEF TypeOK, PartClaimed
    <2>5. QED
      BY <1>0, <1>17, <2>1, <2>3, <2>4 DEF TypeOK, PartClaimed
  <1>18. CASE PartHanded
    <2>1. Row \in Events /\ Part \in Parts
      BY <1>18, RowIn, PartIn DEF TypeOK, PartHanded
    <2>2. handed' = [handed EXCEPT ![Row][Part] = @ + 1]
      BY <1>18 DEF PartHanded
    <2>3. handed' \in [Events -> [Parts -> Nat]]
      BY <2>1, <2>2 DEF TypeOK
    <2>4. wire' \subseteq Events \X Parts
      <3>1. wire' = wire \cup {<<Row, Part>>}
        BY <1>18 DEF PartHanded
      <3>2. <<Row, Part>> \in Events \X Parts
        BY <2>1
      <3>3. QED
        BY <3>1, <3>2 DEF TypeOK
    <2>5. /\ pc = "claimed" /\ pc' = "await"
          /\ UNCHANGED <<inbox, rejected, rowVars, receipts, tickVars, envVars, delivered, faults>>
      BY <1>18 DEF PartHanded
    <2>6. QED
      BY <1>0, <2>3, <2>4, <2>5 DEF TypeOK
  <1>19. ASSUME NEW s \in {"confirmed", "suppressed", "unknown"}, HandIsOver(s),
                wire' \subseteq wire, delivered' \subseteq delivered \cup {InHand}
         PROVE  TypeOK'
    <2>1. rows # {} /\ left # {}
      BY <1>19 DEF TypeOK, HandIsOver
    <2>2. SetPart(Row, Part, s) /\ s \in States
      BY <1>19 DEF HandIsOver, States
    <2>3. parts' \in [Events -> [Parts -> States]]
      BY <2>1, <2>2, RowIn, PartIn, SetPartType
    <2>4. wire' \subseteq Events \X Parts /\ delivered' \subseteq Events \X Parts
      <3>1. InHand \in Events \X Parts
        BY <2>1, RowIn, PartIn DEF InHand
      <3>2. QED
        BY <1>19, <3>1 DEF TypeOK
    <2>5. /\ pc' = "parts" /\ left' = left \ {Part}
          /\ UNCHANGED <<inbox, rejected, order, stale, notified, receipts, todo, rows,
                         sends, envVars, handed, faults>>
      BY <1>19 DEF HandIsOver
    <2>6. QED
      BY <1>0, <2>1, <2>3, <2>4, <2>5 DEF TypeOK
  <1>20. CASE Answered
    BY <1>19, <1>20 DEF Answered, PartAcked, PartDropped, PartUnknown, FileAckedUnsent,
       FileOutcomeLost, NothingSent
  <1>21. CASE ReceptionFails
    BY <1>0, <1>21, FileIn, DisturbedType DEF TypeOK, ReceptionFails
  <1>22. CASE TickThrows \/ Crash \/ StartupThrows
    <2>1. Cardinality({}) <= RowLimit
      BY FS_EmptySet
    <2>2. 0 \in 0..SendLimit
      OBVIOUS
    <2>3. faults' \in 0..MaxFaults /\ pc' \in {"idle", "down"} /\ LocalsGone
          /\ UNCHANGED <<inbox, rejected, rowVars, receipts, envVars, chanVars>>
      <3>1. Disturbed \/ UNCHANGED faults
        BY <1>22 DEF TickThrows, Crash, StartupThrows
      <3>2. faults' \in 0..MaxFaults
        BY <3>1, DisturbedType DEF TypeOK
      <3>3. QED
        BY <1>22, <3>2 DEF TickThrows, Crash, StartupThrows
    <2>4. QED
      BY <1>0, <2>1, <2>2, <2>3 DEF TypeOK, LocalsGone
  <1>23. CASE Startup
    <2>1. AfterRestart \in [Events -> [Parts -> States]]
      BY DEF TypeOK, AfterRestart, PartsFrom, States
    <2>2. Interrupted \subseteq Events
      BY KnownEvents DEF Interrupted
    <2>3. QED
      BY <1>0, <1>23, <2>1, <2>2 DEF TypeOK, Startup
  <1>24. CASE StartupReceipt
    <2>1. PICK e \in todo : WriteReceipt(e) /\ todo' = todo \ {e}
      BY <1>24 DEF StartupReceipt
    <2>2. e \in Events
      BY DEF TypeOK
    <2>3. QED
      BY <1>0, <1>24, <2>1, <2>2, ReceiptType DEF TypeOK, StartupReceipt
  <1>25. CASE StartupDone
    BY <1>0, <1>25 DEF TypeOK, StartupDone
  <1>26. CASE CoordinatorPublishes \/ PublishedAgain
    <2>1. Known \subseteq Events
      BY KnownEvents
    <2>2. PICK e \in Events : inbox' = inbox \cup {e}
      BY <1>26, <2>1 DEF CoordinatorPublishes, PublishedAgain
    <2>3. Disturbed \/ UNCHANGED faults
      BY <1>26 DEF CoordinatorPublishes, PublishedAgain
    <2>4. faults' \in 0..MaxFaults
      BY <2>3, DisturbedType DEF TypeOK
    <2>5. UNCHANGED <<rejected, rowVars, receipts, pc, tickVars, envVars, chanVars>>
      BY <1>26 DEF CoordinatorPublishes, PublishedAgain
    <2>6. QED
      BY <1>0, <2>2, <2>4, <2>5 DEF TypeOK
  <1>27. CASE ContextChanges \/ ArtifactChanges
    BY <1>0, <1>27, DisturbedType DEF TypeOK, ContextChanges, ArtifactChanges
  <1>28. CASE OwnerLost \/ OwnerBack \/ ConnectionLost \/ ConnectionBack
    <2>1. faults' \in 0..MaxFaults
      <3>1. Disturbed \/ UNCHANGED faults
        BY <1>28 DEF OwnerLost, OwnerBack, ConnectionLost, ConnectionBack
      <3>2. QED
        BY <3>1, DisturbedType DEF TypeOK
    <2>2. /\ owner' \in BOOLEAN /\ connected' \in BOOLEAN
          /\ UNCHANGED <<inbox, rejected, rowVars, receipts, pc, tickVars, current, damaged,
                         chanVars>>
      BY <1>28 DEF TypeOK, OwnerLost, OwnerBack, ConnectionLost, ConnectionBack
    <2>3. QED
      BY <1>0, <2>1, <2>2 DEF TypeOK
  <1>30. QED
    BY <1>1, <1>2, <1>3, <1>4, <1>5, <1>6, <1>7, <1>8, <1>9, <1>10, <1>11, <1>12, <1>13,
       <1>14, <1>15, <1>16, <1>17, <1>18, <1>20, <1>21, <1>22, <1>23, <1>24, <1>25, <1>26,
       <1>27, <1>28 DEF Next, Pump, Tick, Environment, Answered

\* Every variable of the inbox keeps its type, the control points agree with the
\* locals of the pump, no tick serves more than its LIMIT of rows nor sends more
\* than its share of parts, for any number of events and files.
THEOREM TypeCorrect == Spec => []TypeOK
  BY TypeInit, TypeStep, PTL DEF Spec
-----------------------------------------------------------------------------
(* What a step does to the parts of a row.                                 *)

LEMMA SetPartAt ==
  ASSUME TypeOK, NEW e \in Events, NEW p \in Parts, NEW s, SetPart(e, p, s),
         NEW d \in Events, NEW q \in Parts
  PROVE  parts'[d][q] = IF d = e /\ q = p THEN s ELSE parts[d][q]
  BY DEF TypeOK, SetPart

LEMMA SuppressedAt ==
  ASSUME TypeOK, NEW e \in Events, parts' = [parts EXCEPT ![e] = Suppressed(e)],
         NEW d \in Events, NEW q \in Parts
  PROVE  parts'[d][q] = IF d = e /\ parts[d][q] = "pending" THEN "suppressed"
                        ELSE parts[d][q]
  BY DEF TypeOK, Suppressed

\* Nothing about parts or channel changes, or pending parts are held back.
LEMMA QuietParts ==
  ASSUME TypeOK, PartsSound, UNCHANGED <<handed, wire, delivered>>,
         Known \subseteq Known',
         NEW e \in Events,
         parts' = parts \/ parts' = [parts EXCEPT ![e] = Suppressed(e)]
  PROVE  PartsSound'
  <1> SUFFICES ASSUME NEW d \in Events, NEW q \in Parts PROVE PartStory(d, q)'
    BY DEF PartsSound
  <1>1. PartStory(d, q)
    BY DEF PartsSound
  <1>2. parts'[d][q] = parts[d][q] \/ (parts[d][q] = "pending" /\ parts'[d][q] = "suppressed")
    BY SuppressedAt
  <1>3. d \notin Known' => parts[d][q] = "none"
    BY <1>1 DEF PartStory
  <1>4. CASE parts'[d][q] = parts[d][q]
    BY <1>1, <1>3, <1>4 DEF PartStory
  <1>5. CASE parts[d][q] = "pending" /\ parts'[d][q] = "suppressed"
    BY <1>1, <1>3, <1>5 DEF PartStory
  <1>6. QED
    BY <1>2, <1>4, <1>5

\* One part takes a new state, which must tell the same story.
LEMMA OnePart ==
  ASSUME TypeOK, PartsSound, UNCHANGED order,
         NEW e \in Events, NEW p \in Parts, NEW s, SetPart(e, p, s),
         \A d \in Events, q \in Parts : <<d, q>> # <<e, p>> =>
           /\ handed'[d][q] = handed[d][q]
           /\ <<d, q>> \in wire' <=> <<d, q>> \in wire
           /\ <<d, q>> \in delivered' <=> <<d, q>> \in delivered,
         PartStory(e, p)'
  PROVE  PartsSound'
  <1> SUFFICES ASSUME NEW d \in Events, NEW q \in Parts, <<d, q>> # <<e, p>>
               PROVE  PartStory(d, q)'
    BY DEF PartsSound
  <1>1. PartStory(d, q) /\ parts'[d][q] = parts[d][q] /\ Known' = Known
    BY SetPartAt DEF PartsSound, Known
  <1>2. QED
    BY <1>1 DEF PartStory

LEMMA EventReceivedParts ==
  ASSUME IInv, EventReceived
  PROVE  PartsSound'
  <1> DEFINE e == Lowest(todo)
  <1>1. e \in Events /\ UNCHANGED chanVars
    BY FileIn DEF EventReceived, IInv
  <1>2. CASE e \in Known
    BY <1>1, <1>2, QuietParts DEF EventReceived, IInv, Known, chanVars
  <1>3. CASE e \notin Known
    <2>1. order' = Append(order, e) /\ parts' = [parts EXCEPT ![e] = Received(e)]
      BY <1>3 DEF EventReceived
    <2>2. Known' = Known \cup {e}
      <3> HIDE DEF e
      <3>1. order \in Seq(Events) /\ Len(order) \in Nat
        BY DEF IInv, TypeOK
      <3>2. /\ DOMAIN order = 1..Len(order) /\ DOMAIN order' = 1..(Len(order) + 1)
            /\ \A i \in 1..Len(order) : order'[i] = order[i]
            /\ order'[Len(order) + 1] = e
        BY <1>1, <2>1, <3>1
      <3>3. QED
        BY <3>1, <3>2 DEF Known
    <2> HIDE DEF e
    <2> SUFFICES ASSUME NEW d \in Events, NEW q \in Parts PROVE PartStory(d, q)'
      BY DEF PartsSound
    <2>3. PartStory(d, q)
      BY DEF PartsSound, IInv
    <2>4. CASE d # e
      <3>1. parts'[d][q] = parts[d][q]
        BY <2>1, <2>4 DEF IInv, TypeOK
      <3>2. QED
        BY <1>1, <2>2, <2>3, <2>4, <3>1 DEF PartStory, chanVars
    <2>5. CASE d = e
      <3>1. parts'[d][q] \in {"none", "pending", "suppressed"}
        <4>1. parts'[d] = Received(e)
          BY <1>1, <2>1, <2>5 DEF IInv, TypeOK
        <4>2. QED
          BY <4>1 DEF Received
      <3>2. parts[d][q] = "none" /\ d \in Known'
        BY <1>3, <2>2, <2>3, <2>5 DEF PartStory
      <3>3. handed[d][q] = 0 /\ <<d, q>> \notin wire \cup delivered
        BY <2>3, <3>2 DEF PartStory
      <3>4. QED
        BY <1>1, <3>1, <3>2, <3>3 DEF PartStory, chanVars
    <2>6. QED
      BY <2>4, <2>5
  <1>4. QED
    BY <1>2, <1>3

LEMMA StartupParts ==
  ASSUME IInv, Startup
  PROVE  PartsSound'
  <1> SUFFICES ASSUME NEW d \in Events, NEW q \in Parts PROVE PartStory(d, q)'
    BY DEF PartsSound
  <1>1. PartStory(d, q) /\ Known' = Known /\ UNCHANGED chanVars
    BY DEF PartsSound, IInv, Startup, Known
  <1>2. parts'[d][q] = IF parts[d][q] = "sending" THEN "unknown" ELSE parts[d][q]
    BY DEF Startup, AfterRestart, PartsFrom
  <1>3. QED
    BY <1>1, <1>2 DEF PartStory, chanVars

\* Every step keeps the story of every part.
LEMMA PartsStep ==
  ASSUME IInv, [Next]_vars
  PROVE  PartsSound'
  <1> USE DEF rowVars, tickVars, envVars, chanVars
  <1>0. TypeOK /\ PartsSound /\ HandSound
    BY DEF IInv
  <1>1. CASE UNCHANGED <<order, parts, handed, wire, delivered>>
    <2>1. UNCHANGED Known
      BY <1>1 DEF Known
    <2>2. QED
      BY <1>0, <1>1, <2>1 DEF PartsSound, PartStory
  <1>2. CASE EventReceived
    BY <1>2, EventReceivedParts
  <1>3. CASE Startup
    BY <1>3, StartupParts
  <1>4. CASE ContextRechecked \/ RowSuperseded \/ PartsOutOfDate
    <2>1. UNCHANGED <<order, handed, wire, delivered>>
      BY <1>4 DEF ContextRechecked, RowSuperseded, PartsOutOfDate
    <2>2. PICK e \in Events : parts' = parts \/ parts' = [parts EXCEPT ![e] = Suppressed(e)]
      <3>1. CASE ContextRechecked
        <4>1. PICK i \in DOMAIN order :
                 parts' = IF mode[order[i]] = "notice" THEN parts
                          ELSE [parts EXCEPT ![order[i]] = Suppressed(order[i])]
          BY <3>1 DEF ContextRechecked
        <4>2. order[i] \in Events
          BY <1>0 DEF TypeOK
        <4>3. QED
          BY <4>1, <4>2
      <3>2. CASE RowSuperseded \/ PartsOutOfDate
        BY <1>0, <3>2, RowIn DEF RowSuperseded, PartsOutOfDate, TypeOK
      <3>3. QED
        BY <1>4, <3>1, <3>2
    <2>3. Known' = Known
      BY <2>1 DEF Known
    <2>4. QED
      BY <1>0, <2>1, <2>2, <2>3, QuietParts
  <1>5. CASE PartDamaged \/ PartClaimed
    <2>1. rows # {} /\ left # {} /\ UNCHANGED <<order, handed, wire, delivered>>
      BY <1>0, <1>5 DEF PartDamaged, PartClaimed, TypeOK
    <2>2. PICK e \in Events, p \in Parts : e = Row /\ p = Part /\ e \in Known /\ p \in left
      BY <1>0, <2>1, RowIn, PartIn
    <2>3. parts[e][p] = "pending"
      BY <1>0, <1>5, <2>2 DEF HandSound, PartDamaged, PartClaimed
    <2>4. PICK s \in {"suppressed", "sending"} : SetPart(e, p, s)
      BY <1>5, <2>2 DEF PartDamaged, PartClaimed
    <2>5. parts'[e][p] = s /\ Known' = Known
      BY <1>0, <2>1, <2>4, SetPartAt DEF Known
    <2>6. PartStory(e, p)
      BY <1>0 DEF PartsSound
    <2>7. PartStory(e, p)'
      BY <2>1, <2>2, <2>3, <2>5, <2>6 DEF PartStory
    <2>8. QED
      BY <1>0, <2>1, <2>4, <2>7, OnePart
  <1>6. CASE PartHanded
    <2>1. rows # {} /\ left # {} /\ UNCHANGED <<order, parts, delivered>>
      BY <1>0, <1>6 DEF PartHanded, TypeOK
    <2>2. PICK e \in Events, p \in Parts : e = Row /\ p = Part /\ e \in Known
      BY <1>0, <2>1, RowIn, PartIn
    <2>3. parts[e][p] = "sending" /\ handed[e][p] = 0
      BY <1>0, <1>6, <2>2 DEF HandSound, PartHanded
    <2>4. handed' = [handed EXCEPT ![e][p] = @ + 1] /\ wire' = wire \cup {<<e, p>>}
      BY <1>6, <2>2 DEF PartHanded
    <2>5. \A d \in Events, q \in Parts :
            handed'[d][q] = IF d = e /\ q = p THEN 1 ELSE handed[d][q]
      BY <1>0, <2>3, <2>4 DEF TypeOK
    <2>6. PartsSound /\ Known' = Known
      BY <1>0, <2>1 DEF Known
    <2> SUFFICES ASSUME NEW d \in Events, NEW q \in Parts PROVE PartStory(d, q)'
      BY DEF PartsSound
    <2>7. PartStory(d, q)
      BY <2>6 DEF PartsSound
    <2>8. CASE d = e /\ q = p
      <3>1. handed'[d][q] = 1
        BY <2>5, <2>8
      <3>2. <<d, q>> \notin delivered
        BY <2>3, <2>7, <2>8 DEF PartStory
      <3>3. QED
        BY <2>1, <2>2, <2>3, <2>4, <2>6, <2>7, <2>8, <3>1, <3>2 DEF PartStory
    <2>9. CASE ~(d = e /\ q = p)
      <3>1. handed'[d][q] = handed[d][q] /\ (<<d, q>> \in wire' <=> <<d, q>> \in wire)
        BY <2>4, <2>5, <2>9
      <3>2. QED
        BY <2>1, <2>6, <2>7, <3>1 DEF PartStory
    <2>10. QED
      BY <2>8, <2>9
  <1>7. CASE Answered
    <2>1. rows # {} /\ left # {} /\ pc = "await" /\ UNCHANGED <<order, handed>>
      BY <1>0, <1>7 DEF Answered, PartAcked, PartDropped, PartUnknown, FileAckedUnsent,
         FileOutcomeLost, HandIsOver, TypeOK
    <2>2. PICK e \in Events, p \in Parts : e = Row /\ p = Part /\ e \in Known
      BY <1>0, <2>1, RowIn, PartIn
    <2>3. parts[e][p] = "sending" /\ handed[e][p] = 1
      BY <1>0, <2>1, <2>2 DEF HandSound
    <2>4. PICK s \in {"confirmed", "suppressed", "unknown"} :
             /\ SetPart(e, p, s)
             /\ wire' \in {wire, wire \ {<<e, p>>}}
             /\ delivered' \in {delivered, delivered \cup {<<e, p>>}}
             /\ delivered' # delivered => s = "confirmed"
             /\ p = 0 /\ s = "confirmed" => <<e, p>> \in delivered'
             /\ p = 0 /\ s # "unknown" => <<e, p>> \notin wire'
      <3>1. CASE PartAcked
        BY <2>2, <3>1 DEF PartAcked, HandIsOver, InHand
      <3>2. CASE PartDropped
        BY <2>2, <3>2 DEF PartDropped, NothingSent, HandIsOver, InHand
      <3>3. CASE PartUnknown
        BY <2>2, <3>3 DEF PartUnknown, HandIsOver
      <3>4. p \in Nat
        BY DEF Parts
      <3>5. CASE FileAckedUnsent
        BY <2>2, <3>4, <3>5 DEF FileAckedUnsent, FileInHand, NothingSent, HandIsOver, InHand
      <3>6. CASE FileOutcomeLost
        BY <2>2, <3>4, <3>6 DEF FileOutcomeLost, FileInHand, HandIsOver
      <3>7. QED
        BY <1>7, <3>1, <3>2, <3>3, <3>5, <3>6 DEF Answered
    <2>5. parts'[e][p] = s /\ Known' = Known
      BY <1>0, <2>1, <2>4, SetPartAt DEF Known
    <2>6. PartStory(e, p)
      BY <1>0 DEF PartsSound
    <2>7. <<e, p>> \notin delivered
      BY <2>3, <2>6 DEF PartStory
    <2>8. PartStory(e, p)'
      BY <2>1, <2>2, <2>3, <2>4, <2>5, <2>7 DEF PartStory
    <2>9. \A d \in Events, q \in Parts : <<d, q>> # <<e, p>> =>
            /\ <<d, q>> \in wire' <=> <<d, q>> \in wire
            /\ <<d, q>> \in delivered' <=> <<d, q>> \in delivered
      BY <2>4
    <2>10. QED
      BY <1>0, <2>1, <2>4, <2>8, <2>9, OnePart
  <1>9. CASE \/ TickStarts \/ FileRejected \/ FileProcessed \/ RecheckReceipt \/ RowsRead
             \/ RowsDone \/ RowSkipped \/ RowOpened \/ RowReceipt \/ PartsEnd
    BY <1>1, <1>9 DEF TickStarts, FileRejected, FileProcessed, RecheckReceipt, RowsRead,
       RowsDone, RowSkipped, RowOpened, RowReceipt, PartsEnd
  <1>10. CASE \/ StartupReceipt \/ StartupThrows \/ StartupDone \/ ReceptionFails
              \/ TickThrows \/ Crash \/ UNCHANGED vars
    BY <1>1, <1>10 DEF StartupReceipt, StartupThrows, StartupDone, ReceptionFails,
       TickThrows, Crash, vars
  <1>11. CASE Environment
    BY <1>1, <1>11 DEF Environment, CoordinatorPublishes, PublishedAgain, ContextChanges,
       ArtifactChanges, OwnerLost, OwnerBack, ConnectionLost, ConnectionBack
  <1>12. QED
    BY <1>2, <1>3, <1>4, <1>5, <1>6, <1>7, <1>9, <1>10, <1>11 DEF Next, Pump, Tick, Answered

\* A receipt is read from the rows at the moment it is written.
LEMMA ReceiptsStep ==
  ASSUME IInv, [Next]_vars
  PROVE  ReceiptsSound'
  <1> USE DEF rowVars, tickVars, envVars, chanVars
  <1>0. TypeOK /\ PartsSound /\ ReceiptsSound
    BY DEF IInv
  <1>1. delivered \subseteq delivered'
        /\ \A d \in Events, q \in Parts : handed[d][q] = 1 => handed'[d][q] = 1
    <2>1. CASE PartHanded
      <3>1. /\ pc = "claimed" /\ UNCHANGED delivered
            /\ handed' = [handed EXCEPT ![Row][Part] = @ + 1]
        BY <2>1 DEF PartHanded
      <3>2. handed[Row][Part] = 0
        BY <3>1 DEF IInv, HandSound
      <3>3. ASSUME NEW d \in Events, NEW q \in Parts, handed[d][q] = 1
            PROVE  handed'[d][q] = 1
        <4>1. ~(d = Row /\ q = Part)
          BY <3>2, <3>3
        <4>2. QED
          BY <1>0, <3>1, <3>3, <4>1 DEF TypeOK
      <3>4. QED
        BY <3>1, <3>3
    <2>2. CASE ~PartHanded
      BY <2>2 DEF Next, Pump, Tick, Environment, TickStarts, FileRejected, EventReceived,
         FileProcessed, ContextRechecked, RecheckReceipt, RowsRead, RowsDone, RowSkipped,
         RowSuperseded, RowOpened, RowReceipt, PartsEnd, PartsOutOfDate, PartDamaged,
         PartClaimed, PartAcked, PartDropped, PartUnknown, FileAckedUnsent, FileOutcomeLost,
         NothingSent, HandIsOver, Startup, StartupReceipt, StartupThrows, StartupDone,
         ReceptionFails, TickThrows, Crash, CoordinatorPublishes, PublishedAgain,
         ContextChanges, ArtifactChanges, OwnerLost, OwnerBack, ConnectionLost,
         ConnectionBack, vars
    <2>3. QED
      BY <2>1, <2>2
  <1>2. ASSUME NEW d \in Events, receipts'[d] = receipts[d],
               receipts'[d].delivery = "complete"
        PROVE  <<d, 0>> \in delivered' /\ \A p \in Parts : Carries(d, p) => handed'[d][p] = 1
    BY <1>0, <1>1, <1>2 DEF ReceiptsSound
  <1>3. ASSUME NEW e \in Events, WriteReceipt(e), UNCHANGED <<handed, delivered>>
        PROVE  ReceiptsSound'
    <2> SUFFICES ASSUME NEW d \in Events, receipts'[d].delivery = "complete", d = e
                 PROVE  /\ <<d, 0>> \in delivered'
                        /\ \A p \in Parts : Carries(d, p) => handed'[d][p] = 1
      <3>1. \A d \in Events : d # e => receipts'[d] = receipts[d]
        BY <1>0, <1>3 DEF WriteReceipt, TypeOK
      <3>2. QED
        BY <1>2, <3>1 DEF ReceiptsSound, Carries
    <2>1. Delivery(d) = "complete"
      <3>1. receipts'[d] = ReceiptOf(d)
        BY <1>0, <1>3 DEF WriteReceipt, TypeOK
      <3>2. QED
        BY <3>1 DEF ReceiptOf
    <2>2. \A p \in Parts : Carries(d, p) => parts[d][p] = "confirmed"
      BY <2>1 DEF Delivery
    <2>3. \A p \in Parts : PartStory(d, p)
      BY <1>0 DEF PartsSound
    <2>4. 0 \in Parts /\ Carries(d, 0)
      <3>1. files[d] \in 0..MaxPart
        BY EventsAssumption DEF Events
      <3>2. QED
        BY <3>1 DEF Parts, Carries
    <2>5. QED
      BY <1>3, <2>2, <2>3, <2>4 DEF PartStory
  <1>4. CASE RecheckReceipt \/ RowReceipt
    BY <1>0, <1>3, <1>4, RowIn DEF RecheckReceipt, RowReceipt, TypeOK
  <1>5. CASE StartupReceipt
    BY <1>0, <1>3, <1>5 DEF StartupReceipt, TypeOK
  <1>6. CASE ~(RecheckReceipt \/ RowReceipt \/ StartupReceipt)
    <2>1. UNCHANGED receipts
      BY <1>6 DEF Next, Pump, Tick, Environment, TickStarts, FileRejected, EventReceived,
         FileProcessed, ContextRechecked, RowsRead, RowsDone, RowSkipped, RowSuperseded,
         RowOpened, PartsEnd, PartsOutOfDate, PartDamaged, PartClaimed, PartHanded,
         PartAcked, PartDropped, PartUnknown, FileAckedUnsent, FileOutcomeLost, HandIsOver,
         Startup, StartupThrows, StartupDone, ReceptionFails, TickThrows, Crash,
         CoordinatorPublishes, PublishedAgain, ContextChanges, ArtifactChanges, OwnerLost,
         OwnerBack, ConnectionLost, ConnectionBack, vars
    <2>2. QED
      BY <1>2, <2>1 DEF ReceiptsSound, Carries
  <1>7. QED
    BY <1>4, <1>5, <1>6

\* The row and the part in hand do not move under the pump: while they are in
\* hand no row is received, only their own part changes, and a context that ends
\* between the check and the send can only do so once the part is out.
LEMMA HandStep ==
  ASSUME IInv, [Next]_vars
  PROVE  HandSound'
  <1> USE DEF rowVars, tickVars, envVars, chanVars
  <1>0. TypeOK /\ HandSound
    BY DEF IInv
  <1>1. CASE pc' \notin {"parts", "claimed", "await"}
    BY <1>1 DEF HandSound
  <1>2. CASE RowOpened
    <2>1. pc' = "parts" /\ left' = PartsIn(Row, "pending") /\ IsCurrentEvent(Row)
          /\ UNCHANGED <<order, rows, parts>>
      BY <1>2 DEF RowOpened
    <2>2. Row' = Row /\ Known' = Known
      BY <2>1 DEF Row, Known
    <2>3. \A p \in left' : parts'[Row'][p] = "pending"
      BY <2>1, <2>2 DEF PartsIn
    <2>4. IsCurrentEvent(Row)'
      BY <2>1, <2>2 DEF IsCurrentEvent
    <2>5. QED
      BY <2>1, <2>3, <2>4 DEF HandSound
  <1>3. CASE PartDamaged
    <2>1. rows # {} /\ left # {} /\ UNCHANGED <<order, rows>> /\ left' = left \ {Part}
          /\ pc = "parts" /\ pc' = "parts" /\ SetPart(Row, Part, "suppressed")
      BY <1>0, <1>3 DEF PartDamaged, TypeOK
    <2>2. Row' = Row /\ Known' = Known /\ Row \in Events /\ Part \in Parts
      BY <1>0, <2>1, RowIn, PartIn DEF Row, Known
    <2>3. \A p \in left' : parts'[Row'][p] = "pending"
      <3>1. left \subseteq Parts
        BY <1>0 DEF TypeOK
      <3>2. QED
        BY <1>0, <2>1, <2>2, <3>1, SetPartAt DEF HandSound
    <2>4. IsCurrentEvent(Row)'
      BY <1>0, <2>1, <2>2 DEF HandSound, IsCurrentEvent
    <2>5. QED
      BY <2>1, <2>3, <2>4 DEF HandSound
  <1>4. CASE PartClaimed
    <2>1. rows # {} /\ left # {} /\ UNCHANGED <<order, rows, left, handed, current>>
          /\ pc = "parts" /\ pc' = "claimed" /\ SetPart(Row, Part, "sending") /\ ~OutOfDate(Row)
      BY <1>0, <1>4 DEF PartClaimed, TypeOK
    <2>2. /\ Row' = Row /\ Part' = Part /\ Known' = Known
          /\ Row \in Events /\ Part \in Parts /\ Part \in left
      BY <1>0, <2>1, RowIn, PartIn DEF Row, Part, Known
    <2>3. /\ parts'[Row'][Part'] = "sending"
          /\ \A p \in left' \ {Part'} : parts'[Row'][p] = "pending"
      <3>1. left \subseteq Parts
        BY <1>0 DEF TypeOK
      <3>2. QED
        BY <1>0, <2>1, <2>2, <3>1, SetPartAt DEF HandSound
    <2>4. handed'[Row'][Part'] = 0
      <3>1. parts[Row][Part] = "pending"
        BY <1>0, <2>1, <2>2 DEF HandSound
      <3>2. QED
        BY <2>1, <2>2, <3>1 DEF IInv, PartsSound, PartStory
    <2>5. IsCurrentEvent(Row)' /\ ~OutOfDate(Row)'
      BY <1>0, <2>1, <2>2 DEF HandSound, IsCurrentEvent, OutOfDate
    <2>6. QED
      BY <2>1, <2>3, <2>4, <2>5 DEF HandSound
  <1>5. CASE /\ pc \in {"claimed", "await"} /\ pc' = "await"
             /\ UNCHANGED <<order, rows, left, parts>>
             /\ handed'[Row][Part] = 1
    <2>1. Row' = Row /\ Part' = Part /\ Known' = Known
      BY <1>5 DEF Row, Part, Known
    <2>2. QED
      BY <1>0, <1>5, <2>1 DEF HandSound, IsCurrentEvent
  <1>6. CASE PartHanded
    <2>1. /\ pc = "claimed" /\ pc' = "await" /\ UNCHANGED <<order, rows, left, parts>>
          /\ handed' = [handed EXCEPT ![Row][Part] = @ + 1]
      BY <1>6 DEF PartHanded
    <2>2. Row \in Events /\ Part \in Parts
      BY <1>0, <2>1, RowIn, PartIn DEF TypeOK
    <2>3. handed'[Row][Part] = 1
      BY <1>0, <2>1, <2>2 DEF TypeOK, HandSound
    <2>4. QED
      BY <1>5, <2>1, <2>3
  <1>7. CASE Answered
    <2>1. PICK s \in {"confirmed", "suppressed", "unknown"} : HandIsOver(s)
      BY <1>7 DEF Answered, PartAcked, PartDropped, PartUnknown, FileAckedUnsent,
         FileOutcomeLost
    <2>2. rows # {} /\ left # {} /\ UNCHANGED <<order, rows>> /\ left' = left \ {Part}
          /\ pc = "await" /\ pc' = "parts" /\ SetPart(Row, Part, s)
      BY <1>0, <2>1 DEF HandIsOver, TypeOK
    <2>3. Row' = Row /\ Known' = Known /\ Row \in Events /\ Part \in Parts
      BY <1>0, <2>2, RowIn, PartIn DEF Row, Known
    <2>4. \A p \in left' : parts'[Row'][p] = "pending"
      <3>1. left \subseteq Parts
        BY <1>0 DEF TypeOK
      <3>2. QED
        BY <1>0, <2>2, <2>3, <3>1, SetPartAt DEF HandSound
    <2>5. IsCurrentEvent(Row)'
      BY <1>0, <2>2, <2>3 DEF HandSound, IsCurrentEvent
    <2>6. QED
      BY <2>2, <2>4, <2>5 DEF HandSound
  <1>8. CASE Environment
    <2>1. Quiet /\ UNCHANGED <<pc, order, rows, left, parts, handed>>
      BY <1>8 DEF Environment, CoordinatorPublishes, PublishedAgain, ContextChanges,
         ArtifactChanges, OwnerLost, OwnerBack, ConnectionLost, ConnectionBack
    <2>2. QED
      BY <1>0, <1>1, <1>5, <2>1 DEF Quiet, HandSound
  <1>9. CASE UNCHANGED vars
    <2>1. Row' = Row /\ Part' = Part /\ Known' = Known
      BY <1>9 DEF Row, Part, Known, vars
    <2>2. QED
      BY <1>0, <1>9, <2>1 DEF HandSound, IsCurrentEvent, OutOfDate, vars
  <1>10. CASE \/ TickStarts \/ FileRejected \/ EventReceived \/ FileProcessed
              \/ ContextRechecked \/ RecheckReceipt \/ RowsRead \/ RowsDone \/ RowSkipped
              \/ RowSuperseded \/ RowReceipt \/ PartsEnd \/ PartsOutOfDate
    BY <1>1, <1>10 DEF TickStarts, FileRejected, EventReceived, FileProcessed,
       ContextRechecked, RecheckReceipt, RowsRead, RowsDone, RowSkipped, RowSuperseded,
       RowReceipt, PartsEnd, PartsOutOfDate
  <1>11. CASE \/ Startup \/ StartupReceipt \/ StartupThrows \/ StartupDone \/ ReceptionFails
              \/ TickThrows \/ Crash
    BY <1>1, <1>11 DEF Startup, StartupReceipt, StartupThrows, StartupDone, ReceptionFails,
       TickThrows, Crash
  <1>12. QED
    BY <1>2, <1>3, <1>4, <1>6, <1>7, <1>8, <1>9, <1>10, <1>11 DEF Next, Pump, Tick, Answered

-----------------------------------------------------------------------------
LEMMA Inductive == Spec => []IInv
  <1>1. Init => IInv
    <2> SUFFICES ASSUME Init PROVE IInv
      OBVIOUS
    <2>1. PartsSound
      BY DEF Init, PartsSound, PartStory
    <2>2. ReceiptsSound
      BY DEF Init, ReceiptsSound, NoReceipt
    <2>3. HandSound
      BY DEF Init, HandSound
    <2>4. QED
      BY <2>1, <2>2, <2>3, TypeInit DEF IInv
  <1>2. IInv /\ [Next]_vars => IInv'
    <2>1. IInv => TypeOK
      BY DEF IInv
    <2>2. QED
      BY <2>1, TypeStep, PartsStep, ReceiptsStep, HandStep DEF IInv
  <1>3. QED
    BY <1>1, <1>2, PTL DEF Spec

\* No part of a result is handed to the channel twice, however ticks throw, the service
\* restarts or files come again: the claim is written before the send, and a claim
\* without an answer is never taken back.  Rows and receipts tell the truth about the
\* text, and a complete receipt leaves no part out.
THEOREM PartsSentOnce == Spec => []SentAtMostOnce
  <1>1. IInv => SentAtMostOnce
    <2> SUFFICES ASSUME IInv, NEW e \in Events
                 PROVE  /\ \A p \in Parts :
                             /\ handed[e][p] <= 1
                             /\ handed[e][p] = 1 => parts[e][p] \notin {"none", "pending"}
                        /\ parts[e][0] = "confirmed" => <<e, 0>> \in delivered
                        /\ <<e, 0>> \in delivered \cup wire =>
                             parts[e][0] \in {"sending", "confirmed", "unknown"}
                        /\ receipts[e].delivery = "complete" =>
                             /\ <<e, 0>> \in delivered
                             /\ \A p \in Parts : Carries(e, p) => handed[e][p] = 1
      BY DEF SentAtMostOnce
    <2>1. ASSUME NEW p \in Parts PROVE PartStory(e, p)
      BY DEF IInv, PartsSound
    <2>2. ReceiptsSound
      BY DEF IInv
    <2>3. ASSUME NEW p \in Parts
          PROVE  /\ handed[e][p] <= 1
                 /\ handed[e][p] = 1 => parts[e][p] \notin {"none", "pending"}
      <3>1. /\ handed[e][p] \in {0, 1}
            /\ parts[e][p] \in {"none", "pending"} => handed[e][p] = 0
        BY <2>1 DEF PartStory
      <3>2. QED
        BY <3>1
    <2>4. PartStory(e, 0)
      <3>1. 0 \in Parts
        BY DEF Parts
      <3>2. QED
        BY <2>1, <3>1
    <2>5. QED
      BY <2>2, <2>3, <2>4 DEF PartStory, ReceiptsSound
  <1>2. QED
    BY <1>1, Inductive, PTL

\* What reaches the owner's chat is of the greatest event received so far and its
\* context held: the check of the row, made before the parts ahead of it were
\* awaited, is still true when the part leaves.
THEOREM NothingSupersededSent == Spec => NoSupersededSent
  <1>1. IInv /\ [Next]_vars =>
          \A e \in Events, p \in Parts : handed'[e][p] > handed[e][p] =>
            /\ \A d \in Known : d <= e
            /\ e \in current \/ mode[e] = "notice"
    <2> SUFFICES ASSUME IInv, [Next]_vars, NEW e \in Events, NEW p \in Parts,
                        handed'[e][p] > handed[e][p]
                 PROVE  /\ \A d \in Known : d <= e
                        /\ e \in current \/ mode[e] = "notice"
      OBVIOUS
    <2>0. handed[e][p] \in {0, 1}
      BY DEF IInv, PartsSound, PartStory
    <2>1. handed'[e][p] # handed[e][p]
      BY <2>0
    <2>2. PartHanded
      BY <2>1 DEF Next, Pump, Tick, Environment, TickStarts, FileRejected, EventReceived,
         FileProcessed, ContextRechecked, RecheckReceipt, RowsRead, RowsDone, RowSkipped,
         RowSuperseded, RowOpened, RowReceipt, PartsEnd, PartsOutOfDate, PartDamaged,
         PartClaimed, PartAcked, PartDropped, PartUnknown, FileAckedUnsent, FileOutcomeLost,
         HandIsOver, Startup, StartupReceipt, StartupThrows, StartupDone, ReceptionFails,
         TickThrows, Crash, CoordinatorPublishes, PublishedAgain, ContextChanges,
         ArtifactChanges, OwnerLost, OwnerBack, ConnectionLost, ConnectionBack, vars, chanVars
    <2>3. e = Row
      BY <2>1, <2>2 DEF PartHanded, IInv, TypeOK
    <2>4. IsCurrentEvent(e) /\ ~OutOfDate(e)
      BY <2>2, <2>3 DEF PartHanded, IInv, HandSound
    <2>5. QED
      BY <2>4 DEF IsCurrentEvent, OutOfDate
  <1>2. QED
    BY Inductive, <1>1, PTL DEF Spec, NoSupersededSent

=============================================================================
