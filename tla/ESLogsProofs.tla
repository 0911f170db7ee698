---------------------------- MODULE ESLogsProofs ----------------------------
(***************************************************************************)
(* Proofs about ESLogs for every set of services, events and deliveries,    *)
(* every age limit, and whether or not Rollover's container stays warm.     *)
(***************************************************************************)
EXTENDS ESLogs, TLAPS

-----------------------------------------------------------------------------
(* The parts of the inductive invariant                                     *)

\* A delivery that may be started is not out of attempts.
AttemptsLeft == \A b \in Batch : wpc[b] = "waiting" => attempt[b] < MaxAttempts

\* Rollover has a key in hand whenever it is about to use it.
KeyInHand == rpc \in {"alias", "roll"} => rKey \in Index

TypeInv == TypeOK /\ AttemptsLeft /\ KeyInHand

\* The events an invocation has put in its bulk body.
Queued(b) == {x[1] : x \in bulk[b]}

\* No event that passes the filter falls between transform's loop, the bulk
\* body and the store.
NothingSlips ==
  \A b \in Batch :
    /\ wpc[b] = "transform" => Content[b] \ Foreign \subseteq todo[b] \cup Queued(b)
    /\ wpc[b] = "post" => Content[b] \ Foreign \subseteq Queued(b)
    /\ wpc[b] = "done" => Content[b] \ Foreign \subseteq seen

\* A bulk body names, for each event, an index of the event's own service.
OwnBulk ==
  \A b \in Batch : \A x \in bulk[b] : x[1] \notin Foreign /\ Owner[x[1]] = x[2][1]

\* What Delete_Old_Logs has still to look at is as its copy shows it: nobody
\* else deletes, and an index keeps its creation date.
CopyHolds == \A i \in dTodo : i \in live /\ dBorn[i] = born[i]

-----------------------------------------------------------------------------
(* Type correctness                                                         *)

\* The index an event falls back on, and every index an alias resolves to, is
\* one of the alias' own.
LEMMA FirstIndexIsIndex == \A a \in Alias : FirstIndex(a) \in Index
  BY NumberAssumption DEF FirstIndex, Index

LEMMA ResolvedAreIndices ==
  ASSUME TypeOK, NEW a \in Alias
  PROVE  \A i \in Resolved(a) : i \in Index /\ i[1] = a
  BY FirstIndexIsIndex DEF TypeOK, Resolved, WriteIndices, FirstIndex

\* The initial state has the type and satisfies the two supporting facts.
LEMMA TypeInit == Init => TypeInv
  BY NumberAssumption
  DEF Init, TypeInv, TypeOK, AttemptsLeft, KeyInHand, Job, NoKey

\* A failed invocation leaves its batch well-typed and countable.
LEMMA EndAttemptType ==
  ASSUME TypeInv, NEW b \in Batch, EndAttempt(b)
  PROVE  /\ wpc' \in [Batch -> {"waiting", "transform", "post", "done", "lost"}]
         /\ attempt' \in [Batch -> 0 .. MaxAttempts]
         /\ todo' \in [Batch -> SUBSET Event]
         /\ bulk' \in [Batch -> SUBSET (Event \X Index)]
         /\ AttemptsLeft'
  BY DEF TypeInv, TypeOK, AttemptsLeft, EndAttempt

\* Storing bulk items of known events in known indices keeps the cluster and
\* the history well-typed.
LEMMA StoreItemsType ==
  ASSUME TypeOK, NEW acc \in SUBSET (Event \X Index), StoreItems(acc)
  PROVE  /\ live' \in SUBSET Index
         /\ born' \in [Index -> Nat]
         /\ role' = role
         /\ docs' \in [Index -> SUBSET Event]
         /\ seen' \in SUBSET Event
         /\ storedAt' \in [Event -> Nat]
  <1>1. \A x \in acc : x[1] \in Event /\ x[2] \in Index
    OBVIOUS
  <1> QED
    BY <1>1 DEF TypeOK, StoreItems

\* Every step of a LogsToES invocation keeps the type.
LEMMA LogsToESType == TypeInv /\ LogsToES => TypeInv'
  <1> SUFFICES ASSUME TypeInv, NEW b \in Batch,
                      \/ Deliver(b)
                      \/ \E e \in Event : Transform(b, e) \/ TransformThrows(b, e)
                      \/ Transformed(b)
                      \/ Post(b)
                      \/ LogsCrash(b)
               PROVE  TypeInv'
    BY DEF LogsToES
  <1> USE DEF clock, es, history, rollVars, delVars
  <1>1. CASE Deliver(b)
    <2>1. todo' \in [Batch -> SUBSET Event]
      BY <1>1, DataAssumption DEF TypeInv, TypeOK, Deliver
    <2>2. /\ attempt' \in [Batch -> 0 .. MaxAttempts]
          /\ wpc' \in [Batch -> {"waiting", "transform", "post", "done", "lost"}]
          /\ AttemptsLeft'
      BY <1>1, NumberAssumption DEF TypeInv, TypeOK, AttemptsLeft, Deliver
    <2> QED
      BY <1>1, <2>1, <2>2 DEF TypeInv, TypeOK, KeyInHand, Deliver
  <1>2. ASSUME NEW e \in Event, Transform(b, e)
        PROVE  TypeInv'
    <2>1. Owner[e] \in Alias
      BY DataAssumption
    <2>2. \A i \in Resolved(Owner[e]) \cup {FirstIndex(Owner[e])} : i \in Index
      BY <2>1, FirstIndexIsIndex, ResolvedAreIndices DEF TypeInv
    <2>3. /\ bulk' \in [Batch -> SUBSET (Event \X Index)]
          /\ faults' \in 0 .. MaxFaults
      BY <1>2, <2>2, NumberAssumption DEF TypeInv, TypeOK, Transform, Fault
    <2> QED
      BY <1>2, <2>3 DEF TypeInv, TypeOK, AttemptsLeft, KeyInHand, Transform
  <1>3. ASSUME NEW e \in Event, TransformThrows(b, e)
        PROVE  TypeInv'
    BY <1>3, EndAttemptType DEF TypeInv, TypeOK, KeyInHand, TransformThrows
  <1>4. CASE Transformed(b)
    BY <1>4 DEF TypeInv, TypeOK, AttemptsLeft, KeyInHand, Transformed
  <1>5. CASE Post(b)
    <2>1. CASE /\ StoreItems(bulk[b])
               /\ wpc' = [wpc EXCEPT ![b] = "done"]
               /\ bulk' = [bulk EXCEPT ![b] = {}]
               /\ UNCHANGED <<faults, attempt, todo>>
      <3>1. bulk[b] \in SUBSET (Event \X Index)
        BY DEF TypeInv, TypeOK
      <3> QED
        BY <1>5, <2>1, <3>1, StoreItemsType
        DEF TypeInv, TypeOK, AttemptsLeft, KeyInHand, Post
    <2>2. ASSUME NEW acc \in SUBSET bulk[b],
                 Fault, StoreItems(acc), EndAttempt(b)
          PROVE  TypeInv'
      <3>1. acc \in SUBSET (Event \X Index)
        BY DEF TypeInv, TypeOK
      <3>2. faults' \in 0 .. MaxFaults
        BY <2>2, NumberAssumption DEF TypeInv, TypeOK, Fault
      <3> QED
        BY <1>5, <2>2, <3>1, <3>2, StoreItemsType, EndAttemptType
        DEF TypeInv, TypeOK, KeyInHand, Post
    <2> QED
      BY <1>5, <2>1, <2>2 DEF Post
  <1>6. CASE LogsCrash(b)
    <2>1. faults' \in 0 .. MaxFaults
      BY <1>6, NumberAssumption DEF TypeInv, TypeOK, LogsCrash, Fault
    <2> QED
      BY <1>6, <2>1, EndAttemptType DEF TypeInv, TypeOK, KeyInHand, LogsCrash
  <1> QED
    BY <1>1, <1>2, <1>3, <1>4, <1>5, <1>6

\* Every step of a Rollover run keeps the type, and a key stays in hand until
\* the request is made.
LEMMA RolloverType == TypeInv /\ (RolloverSteps \/ RolloverCrash) => TypeInv'
  <1> SUFFICES ASSUME TypeInv, RolloverSteps \/ RolloverCrash
               PROVE  TypeInv'
    OBVIOUS
  <1> USE DEF clock, es, history, logVars, delVars
  <1>1. CASE RolloverStart
    BY <1>1, NumberAssumption
    DEF TypeInv, TypeOK, AttemptsLeft, KeyInHand, RolloverStart, Fault
  <1>2. CASE CreateAlias
    <2>1. /\ role' \in [Index -> {"none", "read", "write"}]
          /\ faults' \in 0 .. MaxFaults
      BY <1>2, NumberAssumption DEF TypeInv, TypeOK, CreateAlias, Fault
    <2> QED
      BY <1>2, <2>1 DEF TypeInv, TypeOK, AttemptsLeft, KeyInHand, CreateAlias
  <1>3. CASE Rollover
    <2>1. rKey \in Index /\ rKey[1] \in Alias
      BY <1>3 DEF TypeInv, KeyInHand, Rollover, Index
    <2>2. \/ UNCHANGED es
          \/ \E w \in WriteIndices(rKey[1]) : RollOver(w)
      BY <1>3 DEF Rollover, RolloverRequest
    <2>3. /\ live' \in SUBSET Index
          /\ born' \in [Index -> Nat]
          /\ role' \in [Index -> {"none", "read", "write"}]
          /\ docs' \in [Index -> SUBSET Event]
      <3>1. CASE UNCHANGED es
        BY <3>1 DEF TypeInv, TypeOK
      <3>2. ASSUME NEW w \in WriteIndices(rKey[1]), RollOver(w)
            PROVE  /\ live' \in SUBSET Index
                   /\ born' \in [Index -> Nat]
                   /\ role' \in [Index -> {"none", "read", "write"}]
                   /\ docs' \in [Index -> SUBSET Event]
        BY <3>2 DEF TypeInv, TypeOK, RollOver, WriteIndices
      <3> QED
        BY <2>2, <3>1, <3>2
    <2>4. rolled' \in SUBSET Alias /\ faults' \in 0 .. MaxFaults
      BY <1>3, <2>1, NumberAssumption DEF TypeInv, TypeOK, Rollover, Fault
    <2> QED
      BY <1>3, <2>3, <2>4 DEF TypeInv, TypeOK, AttemptsLeft, KeyInHand, Rollover
  <1>4. CASE RolloverEnd
    BY <1>4 DEF TypeInv, TypeOK, AttemptsLeft, KeyInHand, RolloverEnd
  <1>5. ASSUME NEW i \in Index, RolloverKey(i)
        PROVE  TypeInv'
    BY <1>5 DEF TypeInv, TypeOK, AttemptsLeft, KeyInHand, RolloverKey
  <1>6. CASE RolloverCrash
    BY <1>6, NumberAssumption
    DEF TypeInv, TypeOK, AttemptsLeft, KeyInHand, RolloverCrash, Fault
  <1> QED
    BY <1>1, <1>2, <1>3, <1>4, <1>5, <1>6 DEF RolloverSteps

\* Every step of a Delete_Old_Logs run keeps the type.
LEMMA DeleteType == TypeInv /\ (DeleteSteps \/ DeleteCrash) => TypeInv'
  <1> SUFFICES ASSUME TypeInv, DeleteSteps \/ DeleteCrash
               PROVE  TypeInv'
    OBVIOUS
  <1> USE DEF clock, es, history, logVars, rollVars
  <1>1. CASE DeleteStart
    BY <1>1, NumberAssumption
    DEF TypeInv, TypeOK, AttemptsLeft, KeyInHand, DeleteStart, Fault
  <1>2. ASSUME NEW i \in Index, DeleteKey(i)
        PROVE  TypeInv'
    <2>1. /\ live' \in SUBSET Index
          /\ born' \in [Index -> Nat]
          /\ role' \in [Index -> {"none", "read", "write"}]
          /\ docs' \in [Index -> SUBSET Event]
          /\ faults' \in 0 .. MaxFaults
      BY <1>2, NumberAssumption DEF TypeInv, TypeOK, DeleteKey, Drop, Fault
    <2> QED
      BY <1>2, <2>1 DEF TypeInv, TypeOK, AttemptsLeft, KeyInHand, DeleteKey
  <1>3. CASE DeleteEnd
    BY <1>3 DEF TypeInv, TypeOK, AttemptsLeft, KeyInHand, DeleteEnd
  <1>4. CASE DeleteCrash
    BY <1>4, NumberAssumption
    DEF TypeInv, TypeOK, AttemptsLeft, KeyInHand, DeleteCrash, Fault
  <1> QED
    BY <1>1, <1>2, <1>3, <1>4 DEF DeleteSteps

\* Every step of the pipeline keeps the type.
LEMMA TypeStep == TypeInv /\ [Next]_vars => TypeInv'
  <1> SUFFICES ASSUME TypeInv, [Next]_vars
               PROVE  TypeInv'
    OBVIOUS
  <1> USE DEF clock, es, history, logVars, rollVars, delVars
  <1>1. CASE Snapshot
    <2>1. saved' \in SUBSET Event /\ faults' \in 0 .. MaxFaults
      BY <1>1, NumberAssumption DEF TypeInv, TypeOK, Snapshot, Stored, Fault
    <2> QED
      BY <1>1, <2>1 DEF TypeInv, TypeOK, AttemptsLeft, KeyInHand, Snapshot
  <1>2. CASE NextDay
    BY <1>2 DEF TypeInv, TypeOK, AttemptsLeft, KeyInHand, NextDay
  <1>3. CASE UNCHANGED vars
    BY <1>3 DEF TypeInv, TypeOK, AttemptsLeft, KeyInHand, vars
  <1> QED
    BY <1>1, <1>2, <1>3, LogsToESType, RolloverType, DeleteType DEF Next

\* The state of the cluster, of the functions and of the history always has
\* its type: in particular no batch is ever delivered more than MaxAttempts
\* times, and Rollover never acts without a key.
THEOREM TypeCorrect == Spec => []TypeOK
  <1>1. TypeInv => TypeOK
    BY DEF TypeInv
  <1> QED
    BY <1>1, TypeInit, TypeStep, PTL DEF Spec

-----------------------------------------------------------------------------
(* Delete_Old_Logs removes only what is old enough                          *)

\* Only Delete_Old_Logs removes an index, one it has still to look at, and
\* only it changes its copy; an index keeps its creation date while it lives.
LEMMA OthersKeepIndices ==
  ASSUME TypeInv, [Next]_vars, ~DeleteSteps, ~DeleteCrash
  PROVE  /\ live \subseteq live'
         /\ \A i \in live : born'[i] = born[i]
         /\ dTodo' = dTodo /\ dBorn' = dBorn
  <1> USE DEF clock, es, history, logVars, rollVars, delVars
  <1> DEFINE Keeps == /\ live \subseteq live'
                      /\ \A i \in live : born'[i] = born[i]
  <1>1. \A acc : StoreItems(acc) => Keeps
    BY DEF StoreItems, TypeInv, TypeOK
  <1>2. ASSUME LogsToES PROVE Keeps /\ dTodo' = dTodo /\ dBorn' = dBorn
    BY <1>1, <1>2 DEF LogsToES, Deliver, Transform, TransformThrows, Transformed,
                      Post, LogsCrash
  <1>3. \A a : RolloverRequest(a) => Keeps
    BY DEF RolloverRequest, RollOver, TypeInv, TypeOK
  <1>4. ASSUME RolloverSteps \/ RolloverCrash
        PROVE  Keeps /\ dTodo' = dTodo /\ dBorn' = dBorn
    BY <1>3, <1>4 DEF RolloverSteps, RolloverStart, RolloverKey, CreateAlias,
                      Rollover, RolloverEnd, RolloverCrash
  <1> QED
    BY <1>2, <1>4 DEF Next, Snapshot, NextDay, vars

\* The copy that Delete_Old_Logs works from never goes out of date for the
\* indices it has still to look at.
LEMMA CopyStep == TypeInv /\ CopyHolds /\ [Next]_vars => CopyHolds'
  <1> SUFFICES ASSUME TypeInv, CopyHolds, [Next]_vars
               PROVE  CopyHolds'
    OBVIOUS
  <1>1. CASE ~DeleteSteps /\ ~DeleteCrash
    BY <1>1, OthersKeepIndices DEF CopyHolds
  <1>2. CASE DeleteStart
    BY <1>2 DEF DeleteStart, CopyHolds, es, TypeInv, TypeOK
  <1>3. ASSUME NEW i \in Index, DeleteKey(i)
        PROVE  CopyHolds'
    BY <1>3 DEF DeleteKey, Drop, CopyHolds, es, TypeInv, TypeOK
  <1>4. CASE DeleteEnd \/ DeleteCrash
    BY <1>4 DEF DeleteEnd, DeleteCrash, CopyHolds
  <1> QED
    BY <1>1, <1>2, <1>3, <1>4 DEF DeleteSteps

\* An index that goes is one whose copied creation date passed the age test.
LEMMA DeletedStep ==
  ASSUME TypeInv, CopyHolds, [Next]_vars, NEW i \in Index, i \in live, i \notin live'
  PROVE  now - born[i] >= Retention
  <1>1. DeleteSteps \/ DeleteCrash
    BY OthersKeepIndices
  <1>2. PICK k \in Index : DeleteKey(k) /\ UNCHANGED <<now>>
    BY <1>1 DEF DeleteSteps, DeleteCrash, DeleteStart, DeleteEnd, DeleteKey, es, clock
  <1>3. AgeMay(dBorn[k], Retention) /\ k = i
    BY <1>2 DEF DeleteKey, Drop, es
  <1> QED
    BY <1>2, <1>3 DEF AgeMay, CopyHolds, DeleteKey

\* Delete_Old_Logs (index.js, handler) removes an index only when it is at
\* least the retention old, however long ago it copied the creation dates and
\* whatever the other functions did meanwhile.
THEOREM DeletesOnlyExpired == Spec => DeletedOnlyExpired
  <1>1. Init => TypeInv /\ CopyHolds
    BY TypeInit DEF Init, CopyHolds
  <1>2. TypeInv /\ CopyHolds /\ [Next]_vars => (TypeInv /\ CopyHolds)'
    BY TypeStep, CopyStep
  <1>3. TypeInv /\ CopyHolds /\ [Next]_vars
          => [\A i \in Index : i \in live /\ i \notin live' =>
                now - born[i] >= Retention]_vars
    BY DeletedStep
  <1> QED
    BY <1>1, <1>2, <1>3, PTL DEF Spec, DeletedOnlyExpired

-----------------------------------------------------------------------------
(* A delivery is acknowledged only with its events in the store             *)

\* What StoreItems adds to the history is exactly what it was given.
LEMMA StoreItemsSeen ==
  ASSUME NEW acc, StoreItems(acc)
  PROVE  seen' = seen \cup {x[1] : x \in acc}
  BY DEF StoreItems

\* A failed invocation is neither in flight nor acknowledged, and touches no
\* other batch.
LEMMA EndAttemptOthers ==
  ASSUME TypeInv, NEW b \in Batch, EndAttempt(b)
  PROVE  /\ wpc'[b] \in {"waiting", "lost"}
         /\ bulk'[b] = {}
         /\ \A c \in Batch \ {b} : /\ wpc'[c] = wpc[c] /\ todo'[c] = todo[c]
                                   /\ bulk'[c] = bulk[c]
  BY DEF EndAttempt, TypeInv, TypeOK

\* A step of one invocation leaves the promise about the others alone.
LEMMA NothingSlipsElsewhere ==
  ASSUME NothingSlips, seen \subseteq seen', NEW c \in Batch,
         wpc'[c] = wpc[c], todo'[c] = todo[c], bulk'[c] = bulk[c]
  PROVE  /\ wpc'[c] = "transform" =>
              Content[c] \ Foreign \subseteq todo'[c] \cup Queued(c)'
         /\ wpc'[c] = "post" => Content[c] \ Foreign \subseteq Queued(c)'
         /\ wpc'[c] = "done" => Content[c] \ Foreign \subseteq seen'
  BY DEF NothingSlips, Queued

\* Deliver, transform's loop, its return and post each hand every event on.
LEMMA NothingSlipsStep == TypeInv /\ NothingSlips /\ [Next]_vars => NothingSlips'
  <1> SUFFICES ASSUME TypeInv, NothingSlips, [Next]_vars, NEW c \in Batch
               PROVE  /\ wpc'[c] = "transform" =>
                           Content[c] \ Foreign \subseteq todo'[c] \cup Queued(c)'
                      /\ wpc'[c] = "post" => Content[c] \ Foreign \subseteq Queued(c)'
                      /\ wpc'[c] = "done" => Content[c] \ Foreign \subseteq seen'
    BY DEF NothingSlips
  <1> USE DEF clock, es, history, logVars, rollVars, delVars
  <1>1. CASE UNCHANGED <<wpc, todo, bulk, seen>>
    BY <1>1, NothingSlipsElsewhere
  <1>2. ASSUME NEW b \in Batch,
               \/ Deliver(b)
               \/ \E e \in Event : Transform(b, e) \/ TransformThrows(b, e)
               \/ Transformed(b)
               \/ Post(b)
               \/ LogsCrash(b),
               b # c
        PROVE  /\ wpc'[c] = wpc[c] /\ todo'[c] = todo[c] /\ bulk'[c] = bulk[c]
               /\ seen \subseteq seen'
    BY <1>2, EndAttemptOthers, StoreItemsSeen
    DEF TypeInv, TypeOK, Deliver, Transform, TransformThrows, Transformed, Post,
        LogsCrash
  <1>3. CASE Deliver(c)
    BY <1>3 DEF Deliver, TypeInv, TypeOK
  <1>4. ASSUME NEW e \in Event, Transform(c, e)
        PROVE  /\ wpc'[c] = "transform"
               /\ Content[c] \ Foreign \subseteq todo'[c] \cup Queued(c)'
    <2>1. Content[c] \ Foreign \subseteq todo[c] \cup Queued(c)
      BY <1>4 DEF Transform, NothingSlips
    <2>2. wpc'[c] = "transform" /\ todo'[c] = todo[c] \ {e}
      BY <1>4 DEF Transform, TypeInv, TypeOK
    <2>3. CASE e \in Foreign /\ bulk' = bulk
      BY <2>1, <2>2, <2>3 DEF Queued
    <2>4. ASSUME NEW i, bulk' = [bulk EXCEPT ![c] = @ \cup {<<e, i>>}]
          PROVE  Queued(c) \cup {e} \subseteq Queued(c)'
      <3>1. bulk'[c] = bulk[c] \cup {<<e, i>>}
        BY <2>4 DEF TypeInv, TypeOK
      <3>2. <<e, i>>[1] = e
        OBVIOUS
      <3> QED
        BY <3>1, <3>2 DEF Queued
    <2> QED
      BY <1>4, <2>1, <2>2, <2>3, <2>4 DEF Transform
  <1>5. ASSUME NEW e \in Event, TransformThrows(c, e)
        PROVE  wpc'[c] \in {"waiting", "lost"}
    BY <1>5, EndAttemptOthers DEF TransformThrows
  <1>6. CASE Transformed(c)
    <2>1. Content[c] \ Foreign \subseteq Queued(c)
      BY <1>6 DEF Transformed, NothingSlips
    <2>2. bulk[c] = {} => Content[c] \ Foreign \subseteq {}
      BY <2>1 DEF Queued
    <2> QED
      BY <1>6, <2>1, <2>2 DEF Transformed, Queued, TypeInv, TypeOK
  <1>7. CASE Post(c)
    <2>1. Content[c] \ Foreign \subseteq Queued(c)
      BY <1>7 DEF Post, NothingSlips
    <2>2. CASE StoreItems(bulk[c]) /\ wpc' = [wpc EXCEPT ![c] = "done"]
      BY <2>1, <2>2, StoreItemsSeen DEF Queued, TypeInv, TypeOK
    <2>3. CASE EndAttempt(c)
      BY <2>3, EndAttemptOthers
    <2> QED
      BY <1>7, <2>2, <2>3 DEF Post
  <1>8. CASE LogsCrash(c)
    BY <1>8, EndAttemptOthers DEF LogsCrash
  <1>9. CASE LogsToES
    BY <1>9, <1>2, <1>3, <1>4, <1>5, <1>6, <1>7, <1>8, NothingSlipsElsewhere
    DEF LogsToES
  <1>10. CASE ~LogsToES
    BY <1>1, <1>10 DEF Next, RolloverSteps, RolloverStart, RolloverKey, CreateAlias,
                       Rollover, RolloverEnd, RolloverCrash, DeleteSteps, DeleteStart,
                       DeleteKey, DeleteEnd, DeleteCrash, Snapshot, NextDay, vars
  <1> QED
    BY <1>9, <1>10

\* LogsToES (index.js, handler and post) tells CloudWatch Logs that a delivery
\* succeeded only when every event the filter lets through has been indexed,
\* through any number of redeliveries, partly refused bulks and crashes.
THEOREM AcknowledgedIsStored == Spec => []AckedMeansStored
  <1>1. Init => TypeInv /\ NothingSlips
    BY TypeInit DEF Init, NothingSlips
  <1>2. TypeInv /\ NothingSlips /\ [Next]_vars => (TypeInv /\ NothingSlips)'
    BY TypeStep, NothingSlipsStep
  <1>3. NothingSlips => AckedMeansStored
    BY DEF NothingSlips, AckedMeansStored
  <1> QED
    BY <1>1, <1>2, <1>3, PTL DEF Spec

-----------------------------------------------------------------------------
(* No service's events land in another's indices                            *)

OwnInv == TypeInv /\ OwnBulk /\ OwnIndex

\* Storing items that name their events' own indices keeps indices pure.
LEMMA StoreItemsOwn ==
  ASSUME OwnInv, NEW b \in Batch, NEW acc \in SUBSET bulk[b], StoreItems(acc)
  PROVE  OwnIndex'
  BY DEF OwnInv, OwnBulk, OwnIndex, StoreItems, TypeInv, TypeOK

\* A failed invocation leaves no bulk body behind.
LEMMA EndAttemptOwn ==
  ASSUME OwnInv, NEW b \in Batch, EndAttempt(b)
  PROVE  OwnBulk'
  BY DEF OwnInv, OwnBulk, EndAttempt, TypeInv, TypeOK

\* Resolving, falling back and storing all stay with the event's own service.
LEMMA LogsToESOwn == OwnInv /\ LogsToES => OwnBulk' /\ OwnIndex'
  <1> SUFFICES ASSUME OwnInv, NEW b \in Batch,
                      \/ Deliver(b)
                      \/ \E e \in Event : Transform(b, e) \/ TransformThrows(b, e)
                      \/ Transformed(b)
                      \/ Post(b)
                      \/ LogsCrash(b)
               PROVE  OwnBulk' /\ OwnIndex'
    BY DEF LogsToES
  <1> USE DEF es, OwnInv
  <1>1. CASE Deliver(b) \/ Transformed(b)
    BY <1>1 DEF Deliver, Transformed, OwnBulk, OwnIndex
  <1>2. ASSUME NEW e \in Event, Transform(b, e)
        PROVE  OwnBulk' /\ OwnIndex'
    <2>1. Owner[e] \in Alias
      BY DataAssumption
    <2>2. \A i \in Resolved(Owner[e]) \cup {FirstIndex(Owner[e])} : i[1] = Owner[e]
      BY <2>1, ResolvedAreIndices DEF TypeInv, FirstIndex
    <2>3. \/ bulk' = bulk
          \/ /\ e \notin Foreign
             /\ \E i \in Resolved(Owner[e]) \cup {FirstIndex(Owner[e])} :
                  bulk' = [bulk EXCEPT ![b] = @ \cup {<<e, i>>}]
      BY <1>2 DEF Transform
    <2> QED
      BY <1>2, <2>2, <2>3 DEF Transform, OwnBulk, OwnIndex, TypeInv, TypeOK
  <1>3. ASSUME NEW e \in Event, TransformThrows(b, e)
        PROVE  OwnBulk' /\ OwnIndex'
    BY <1>3, EndAttemptOwn DEF TransformThrows, OwnIndex
  <1>4. CASE Post(b)
    <2>1. OwnIndex'
      BY <1>4, StoreItemsOwn DEF Post
    <2>2. OwnBulk'
      BY <1>4, EndAttemptOwn DEF Post, OwnBulk, TypeInv, TypeOK
    <2> QED
      BY <2>1, <2>2
  <1>5. CASE LogsCrash(b)
    BY <1>5, EndAttemptOwn DEF LogsCrash, OwnIndex
  <1> QED
    BY <1>1, <1>2, <1>3, <1>4, <1>5

\* The other functions put no document anywhere.
LEMMA OthersOwn ==
  ASSUME OwnInv, [Next]_vars, ~LogsToES
  PROVE  OwnBulk' /\ OwnIndex'
  <1> USE DEF es, logVars, OwnInv
  <1>1. bulk' = bulk
    BY DEF Next, RolloverSteps, RolloverStart, RolloverKey, CreateAlias, Rollover,
           RolloverEnd, RolloverCrash, DeleteSteps, DeleteStart, DeleteKey,
           DeleteEnd, DeleteCrash, Snapshot, NextDay, vars
  <1>2. \A a : RolloverRequest(a) => docs' = docs
    BY DEF RolloverRequest, RollOver
  <1>3. \A i \in Index : docs'[i] \subseteq docs[i]
    BY <1>2 DEF Next, RolloverSteps, RolloverStart, RolloverKey, CreateAlias,
                Rollover, RolloverEnd, RolloverCrash, DeleteSteps, DeleteStart,
                DeleteKey, Drop, DeleteEnd, DeleteCrash, Snapshot, NextDay, vars,
                TypeInv, TypeOK
  <1> QED
    BY <1>1, <1>3 DEF OwnBulk, OwnIndex

\* An event is only ever found in the indices of the service that logged it,
\* and never when its namespace fails the filter: LogsToES resolves the index
\* long before it posts, but what is resolved cannot change hands.
THEOREM IndicesArePure == Spec => []OwnIndex
  <1>1. Init => OwnInv
    BY TypeInit DEF Init, OwnInv, OwnBulk, OwnIndex
  <1>2. OwnInv /\ [Next]_vars => OwnInv'
    BY TypeStep, LogsToESOwn, OthersOwn DEF OwnInv
  <1>3. OwnInv => OwnIndex
    BY DEF OwnInv
  <1> QED
    BY <1>1, <1>2, <1>3, PTL DEF Spec

=============================================================================
