------------------------ MODULE ESLogsCalendarProofs ------------------------
(***************************************************************************)
(* Proofs about the calendar of ESLogs: the daily Rollover and the daily    *)
(* Delete_Old_Logs keep up with the indices, and together with Snapshot     *)
(* they keep what LogStore promises.  For every set of services, events and *)
(* deliveries, every retention and any interleaving of the functions.       *)
(***************************************************************************)
EXTENDS ESLogsProofs, Integers

\* What is assumed of the constants, where it is: indices are rolled over by
\* the day, the container of Rollover is a new one every day, and the bound on
\* index numbers is beyond what the days to MaxNow can use up.
DailyRollover == RolloverAge # 0 /\ MaxNow < MaxSuffix /\ ~MayStayWarm

-----------------------------------------------------------------------------
(* The parts of the inductive invariant                                     *)

Age(i) == now - born[i]
HasWriter(a) == \E w \in live : w[1] = a /\ role[w] = "write"

\* Failures so far are too few for a write index to be deleted for its age.
Slack == RolloverAge + 1 + faults < Retention

\* A run belongs to a job that is due, nothing is left of a run that is over,
\* and the day's snapshot is its last job.
DeletionIsDue ==
  /\ dpc # "idle" => "delete" \in due
  /\ dpc = "idle" => dTodo = {}
RolloverIsDue ==
  /\ rpc # "idle" => "rollover" \in due
  /\ rpc = "idle" => rTodo = {} /\ rolled = {}
SnapshotIsLast == due # {} => "snapshot" \in due
RunsAreDue == DeletionIsDue /\ RolloverIsDue /\ SnapshotIsLast

\* No index is from the future, its number grows by at most one a day, and the
\* indices that bulk bodies name are no different.
Dated ==
  /\ now <= MaxNow
  /\ \A i \in live : born[i] <= now /\ i[2] <= born[i] + 1
  /\ \A b \in Batch : \A x \in bulk[b] : x[2][2] <= now + 1

\* What does not exist is in no alias and holds nothing.
Blank == \A i \in Index \ live : role[i] = "none" /\ docs[i] = {}

\* Only an invocation in flight has a bulk body.
BulksInFlight == \A b \in Batch : bulk[b] # {} => b \in InFlight

\* The write index is the last of its alias.
LastWrites == \A i, j \in live : i[1] = j[1] /\ role[i] = "write" => j[2] <= i[2]

\* An alias without a write index has at most its first index, bare.
OnlyFirstBare == \A i \in live : ~HasWriter(i[1]) => i[2] = 1 /\ role[i] = "none"

\* Today's rollover is still to come to the alias.
Ahead(a) ==
  /\ "rollover" \in due
  /\ \/ rpc = "idle"
     \/ rpc \in {"alias", "roll"} /\ rKey[1] = a
     \/ a \notin rolled /\ \E k \in rTodo : k[1] = a

\* A write index older than the rollover age is one that today's rollover is
\* still to come to, but for failures.
YoungWriters ==
  \A i \in live : role[i] = "write" =>
    \/ Age(i) <= RolloverAge + faults
    \/ Age(i) <= RolloverAge + 1 + faults /\ Ahead(i[1])

\* Today's rollover is still to give the bare index its alias.
Adopting(i) ==
  /\ "rollover" \in due
  /\ \/ rpc = "idle"
     \/ rpc = "alias" /\ rKey = i
     \/ i[1] \notin rolled /\ i \in rTodo \cap rBare

\* A bare index of an alias without a write index is of today, or today's
\* rollover is still to adopt it, but for failures.
YoungBare ==
  \A i \in live : ~HasWriter(i[1]) =>
    \/ Age(i) <= faults
    \/ Age(i) <= 1 + faults /\ Adopting(i)

\* What Rollover's copy shows of an alias without a write index is its first
\* index, bare, and no key comes twice.
KeysKnown ==
  /\ \A k \in rTodo : k[2] # 1 \/ k \notin rBare => HasWriter(k[1])
  /\ rpc \in {"alias", "roll"} =>
       rKey \notin rTodo /\ (rKey[2] # 1 => HasWriter(rKey[1]))

\* A bulk body names first indices, and indices that will outlive the day.
BulkTargets ==
  \A b \in Batch : \A x \in bulk[b] :
    x[2][2] = 1 \/ (x[2] \in live /\ Age(x[2]) < Retention)

Rolling ==
  /\ LastWrites /\ OnlyFirstBare /\ YoungWriters /\ YoungBare /\ KeysKnown
  /\ BulkTargets

Calendar == TypeInv /\ CopyHolds /\ RunsAreDue /\ Dated /\ Blank /\ BulksInFlight

RollInv == Calendar /\ (Slack => Rolling)

-----------------------------------------------------------------------------
(* Runs, dates and what does not exist                                      *)

\* An index is its alias and its number.
LEMMA IndexPair ==
  /\ \A i \in Index : i[1] \in Alias /\ i[2] \in Nat /\ i[2] >= 1 /\ i[2] <= MaxSuffix
  /\ \A i, j \in Index : i[1] = j[1] /\ i[2] = j[2] => i = j
  BY NumberAssumption DEF Index

\* A fault adds one to their number.
LEMMA FaultAdds == TypeInv /\ Fault => faults' = faults + 1
  BY DEF Fault

\* Failures are only added to.
LEMMA FaultsGrow ==
  ASSUME TypeInv, [Next]_vars
  PROVE  /\ faults \in Nat /\ faults' \in Nat /\ 0 <= faults /\ faults <= faults'
         /\ faults' = faults \/ faults' = faults + 1
  <1>1. faults \in Nat
    BY NumberAssumption DEF TypeInv, TypeOK
  <1>2. UNCHANGED faults \/ Fault
    BY DEF Next, LogsToES, Deliver, Transform, TransformThrows, Transformed, Post,
           LogsCrash, RolloverSteps, RolloverStart, RolloverKey, CreateAlias,
           Rollover, RolloverEnd, RolloverCrash, DeleteSteps, DeleteStart,
           DeleteKey, DeleteEnd, DeleteCrash, Snapshot, NextDay, vars
  <1> QED
    BY <1>1, <1>2 DEF Fault

\* Runs begin with a job that is due and end with it, or are begun again.
LEMMA DeletionStep ==
  ASSUME TypeInv, DeletionIsDue, [Next]_vars
  PROVE  DeletionIsDue'
  <1> USE DEF clock, DeletionIsDue
  <1>1. CASE LogsToES \/ RolloverSteps
    BY <1>1 DEF LogsToES, Deliver, Transform, TransformThrows, Transformed, Post,
                LogsCrash, RolloverSteps, RolloverStart, RolloverKey, CreateAlias,
                Rollover, RolloverEnd, delVars
  <1>2. CASE RolloverCrash
    BY <1>2 DEF RolloverCrash, delVars
  <1>3. CASE DeleteSteps
    BY <1>3 DEF DeleteSteps, DeleteStart, DeleteKey, DeleteEnd
  <1>4. CASE DeleteCrash
    BY <1>4 DEF DeleteCrash
  <1>5. CASE Snapshot \/ NextDay
    BY <1>5 DEF Snapshot, NextDay, delVars, Job
  <1>6. CASE UNCHANGED vars
    BY <1>6 DEF vars, delVars
  <1> QED
    BY <1>1, <1>2, <1>3, <1>4, <1>5, <1>6 DEF Next

\* Jobs begin when they are due and end as the day's schedule has them.
LEMMA RunsStep ==
  ASSUME DailyRollover, TypeInv, RunsAreDue, [Next]_vars
  PROVE  RunsAreDue'
  <1> USE DEF clock, RolloverIsDue, SnapshotIsLast
  <1> SUFFICES RolloverIsDue' /\ SnapshotIsLast'
    BY DeletionStep DEF RunsAreDue
  <1> USE DEF RunsAreDue
  <1>1. CASE LogsToES
    BY <1>1 DEF LogsToES, Deliver, Transform, TransformThrows, Transformed, Post,
                LogsCrash, rollVars
  <1>2. CASE RolloverSteps
    BY <1>2 DEF RolloverSteps, RolloverStart, RolloverKey, CreateAlias, Rollover,
                RolloverEnd, DailyRollover
  <1>3. CASE RolloverCrash
    BY <1>3 DEF RolloverCrash
  <1>4. CASE DeleteSteps
    BY <1>4 DEF DeleteSteps, DeleteStart, DeleteKey, DeleteEnd, rollVars
  <1>5. CASE DeleteCrash
    BY <1>5 DEF DeleteCrash, rollVars
  <1>6. CASE Snapshot \/ NextDay
    BY <1>6 DEF Snapshot, NextDay, rollVars, Job, DeletionIsDue
  <1>7. CASE UNCHANGED vars
    BY <1>7 DEF vars, rollVars
  <1> QED
    BY <1>1, <1>2, <1>3, <1>4, <1>5, <1>6, <1>7 DEF Next

\* Only invocations in flight work on a bulk body, and leave none behind.
LEMMA BulksStep ==
  ASSUME TypeInv, BulksInFlight, [Next]_vars
  PROVE  BulksInFlight'
  <1> USE DEF BulksInFlight, InFlight
  <1>1. CASE UNCHANGED <<wpc, bulk>>
    BY <1>1
  <1>2. ASSUME NEW b \in Batch,
               \/ Deliver(b)
               \/ \E e \in Event : Transform(b, e) \/ TransformThrows(b, e)
               \/ Transformed(b)
               \/ Post(b)
               \/ LogsCrash(b)
        PROVE  BulksInFlight'
    <2>1. /\ \A c \in Batch \ {b} : wpc'[c] = wpc[c] /\ bulk'[c] = bulk[c]
          /\ wpc'[b] \in {"transform", "post"} \/ bulk'[b] = {}
      BY <1>2, EndAttemptOthers
      DEF TypeInv, TypeOK, Deliver, Transform, TransformThrows, Transformed, Post,
          LogsCrash
    <2> QED
      BY <2>1
  <1>3. CASE ~LogsToES
    BY <1>1, <1>3 DEF Next, RolloverSteps, RolloverStart, RolloverKey, CreateAlias,
                      Rollover, RolloverEnd, RolloverCrash, DeleteSteps, DeleteStart,
                      DeleteKey, DeleteEnd, DeleteCrash, Snapshot, NextDay, vars,
                      logVars
  <1> QED
    BY <1>2, <1>3 DEF LogsToES

\* What a step may do to the cluster: store the items of a bulk body, change an
\* alias, roll an alias over, drop an index, or nothing.
LEMMA ClusterSteps ==
  ASSUME TypeInv, [Next]_vars
  PROVE  \/ UNCHANGED es
         \/ \E b \in Batch : \E acc \in SUBSET bulk[b] : StoreItems(acc) /\ Post(b)
         \/ CreateAlias
         \/ \E w \in WriteIndices(rKey[1]) :
              Rollover /\ AgeMay(born[w], RolloverAge) /\ RollOver(w)
         \/ \E i \in Index : DeleteKey(i) /\ Drop(i) /\ AgeMay(dBorn[i], Retention)
  <1> USE DEF es
  <1>1. CASE LogsToES
    BY <1>1 DEF LogsToES, Deliver, Transform, TransformThrows, Transformed, Post,
                LogsCrash
  <1>2. CASE RolloverSteps \/ RolloverCrash
    BY <1>2 DEF RolloverSteps, RolloverStart, RolloverKey, Rollover,
                RolloverRequest, RolloverEnd, RolloverCrash
  <1>3. CASE DeleteSteps \/ DeleteCrash
    BY <1>3 DEF DeleteSteps, DeleteStart, DeleteKey, DeleteEnd, DeleteCrash
  <1> QED
    BY <1>1, <1>2, <1>3 DEF Next, Snapshot, NextDay, vars

\* An index that does not exist stays out of every alias and holds nothing.
LEMMA BlankStep ==
  ASSUME TypeInv, Blank, [Next]_vars
  PROVE  Blank'
  <1> USE DEF Blank, TypeInv, TypeOK
  <1>1. CASE UNCHANGED es
    BY <1>1 DEF es
  <1>2. ASSUME NEW b \in Batch, NEW acc \in SUBSET bulk[b], StoreItems(acc)
        PROVE  Blank'
    BY <1>2 DEF StoreItems
  <1>3. CASE CreateAlias
    BY <1>3 DEF CreateAlias
  <1>4. ASSUME NEW w \in WriteIndices(rKey[1]), RollOver(w)
        PROVE  Blank'
    BY <1>4 DEF RollOver, WriteIndices
  <1>5. ASSUME NEW i \in Index, Drop(i)
        PROVE  Blank'
    BY <1>5 DEF Drop
  <1> QED
    BY <1>1, <1>2, <1>3, <1>4, <1>5, ClusterSteps

\* Bulk bodies are only added to by transform, and with an index the alias
\* resolves to, or its first.
LEMMA BulkSteps ==
  ASSUME TypeInv, [Next]_vars
  PROVE  \/ \A b \in Batch : bulk'[b] \subseteq bulk[b]
         \/ \E b \in Batch, e \in Event :
              /\ Transform(b, e)
              /\ \E i \in Resolved(Owner[e]) \cup {FirstIndex(Owner[e])} :
                   /\ bulk' = [bulk EXCEPT ![b] = @ \cup {<<e, i>>}]
                   /\ i \in Resolved(Owner[e]) \/ Fault
  <1> USE DEF TypeInv, TypeOK
  <1>1. ASSUME NEW b \in Batch, EndAttempt(b)
        PROVE  \A c \in Batch : bulk'[c] \subseteq bulk[c]
    BY <1>1 DEF EndAttempt
  <1>2. ASSUME NEW b \in Batch, NEW e \in Event, Transform(b, e)
        PROVE  \/ bulk' = bulk
               \/ \E i \in Resolved(Owner[e]) \cup {FirstIndex(Owner[e])} :
                    /\ bulk' = [bulk EXCEPT ![b] = @ \cup {<<e, i>>}]
                    /\ i \in Resolved(Owner[e]) \/ Fault
    BY <1>2 DEF Transform
  <1>3. CASE LogsToES
    BY <1>1, <1>2, <1>3 DEF LogsToES, Deliver, TransformThrows, Transformed, Post,
                            LogsCrash
  <1>4. CASE ~LogsToES
    BY <1>4 DEF Next, RolloverSteps, RolloverStart, RolloverKey, CreateAlias,
                Rollover, RolloverEnd, RolloverCrash, DeleteSteps, DeleteStart,
                DeleteKey, DeleteEnd, DeleteCrash, Snapshot, NextDay, vars, logVars
  <1> QED
    BY <1>3, <1>4

\* The clock only advances at NextDay, when no invocation is in flight and no
\* run is under way.
LEMMA ClockSteps ==
  ASSUME TypeInv, [Next]_vars
  PROVE  \/ now' = now
         \/ NextDay
  BY DEF Next, LogsToES, Deliver, Transform, TransformThrows, Transformed, Post,
         LogsCrash, RolloverSteps, RolloverStart, RolloverKey, CreateAlias,
         Rollover, RolloverEnd, RolloverCrash, DeleteSteps, DeleteStart,
         DeleteKey, DeleteEnd, DeleteCrash, Snapshot, vars, clock

\* What an alias resolves to has a number no greater than the days gone by.
LEMMA ResolvedDated ==
  ASSUME TypeInv, Dated, NEW a \in Alias, NEW i \in Resolved(a) \cup {FirstIndex(a)}
  PROVE  i[2] <= now + 1
  BY DEF TypeInv, TypeOK, Dated, Resolved, FirstIndex, WriteIndices, Index

\* An index' number grows by one with a rollover, and that takes a day.
LEMMA DatedStep ==
  ASSUME DailyRollover, TypeInv, Dated, BulksInFlight, [Next]_vars
  PROVE  Dated'
  <1> USE DEF TypeInv, TypeOK
  <1>1. now' <= MaxNow
    BY ClockSteps, NumberAssumption DEF Dated, NextDay
  <1>2. now \in Nat /\ now' \in Nat /\ now <= now'
    BY ClockSteps DEF NextDay
  <1>3. ASSUME NEW i \in live'
        PROVE  born'[i] <= now' /\ i[2] <= born'[i] + 1
    <2>1. CASE UNCHANGED <<live, born>>
      BY <1>2, <1>3, <2>1, IndexPair DEF Dated
    <2>2. ASSUME NEW b \in Batch, NEW acc \in SUBSET bulk[b], StoreItems(acc), Post(b)
          PROVE  born'[i] <= now' /\ i[2] <= born'[i] + 1
      <3>1. now' = now
        BY <2>2 DEF Post, clock
      <3>2. CASE i \in live
        BY <2>2, <3>1, <3>2 DEF StoreItems, Dated
      <3>3. CASE i \notin live
        <4>1. PICK x \in bulk[b] : x[2] = i
          BY <1>3, <2>2, <3>3 DEF StoreItems
        <4>2. i \in Index /\ i[2] <= now + 1
          BY <4>1 DEF Dated
        <4>3. born'[i] = now
          BY <1>3, <2>2, <3>3, <4>2 DEF StoreItems
        <4> QED
          BY <3>1, <4>2, <4>3
      <3> QED
        BY <3>2, <3>3
    <2>3. ASSUME NEW w \in WriteIndices(rKey[1]), AgeMay(born[w], RolloverAge), RollOver(w),
                 Rollover
          PROVE  born'[i] <= now' /\ i[2] <= born'[i] + 1
      <3>1. now' = now
        BY <2>3 DEF Rollover, clock
      <3>2. CASE i \in live
        BY <2>3, <3>1, <3>2 DEF RollOver, Dated
      <3>3. CASE i \notin live
        <4>1. w \in live /\ w \in Index /\ born[w] <= now /\ w[2] <= born[w] + 1
          BY <2>3 DEF WriteIndices, Dated
        <4>2. i = Following(w) /\ i \in Index /\ born'[i] = now /\ i[2] = w[2] + 1
          BY <1>3, <2>3, <3>3 DEF RollOver, Following
        <4>3. now - born[w] >= RolloverAge /\ RolloverAge >= 1
          BY <2>3, NumberAssumption DEF AgeMay, DailyRollover
        <4>4. w[2] \in Nat /\ born[w] \in Nat /\ RolloverAge \in Nat
          BY <4>1, IndexPair, NumberAssumption
        <4> QED
          BY <1>2, <3>1, <4>1, <4>2, <4>3, <4>4
      <3> QED
        BY <3>2, <3>3
    <2>4. ASSUME NEW k \in Index, DeleteKey(k), Drop(k)
          PROVE  born'[i] <= now' /\ i[2] <= born'[i] + 1
      BY <1>3, <2>4 DEF DeleteKey, Drop, Dated, clock
    <2>5. CASE CreateAlias
      BY <2>1, <2>5 DEF CreateAlias
    <2> QED
      BY <2>1, <2>2, <2>3, <2>4, <2>5, ClusterSteps DEF es
  <1>4. ASSUME NEW b \in Batch, NEW x \in bulk'[b]
        PROVE  x[2][2] <= now' + 1
    <2>1. CASE x \in bulk[b]
      <3>1. x[2] \in Index /\ x[2][2] <= now + 1
        BY <2>1 DEF Dated
      <3> QED
        BY <1>2, <3>1, IndexPair
    <2>2. CASE x \notin bulk[b]
      <3>1. PICK c \in Batch, e \in Event :
              /\ Transform(c, e)
              /\ \E i \in Resolved(Owner[e]) \cup {FirstIndex(Owner[e])} :
                   bulk' = [bulk EXCEPT ![c] = @ \cup {<<e, i>>}]
        BY <1>4, <2>2, BulkSteps
      <3>2. PICK i \in Resolved(Owner[e]) \cup {FirstIndex(Owner[e])} :
              bulk' = [bulk EXCEPT ![c] = @ \cup {<<e, i>>}]
        BY <3>1
      <3>3. x = <<e, i>>
        BY <1>4, <2>2, <3>2
      <3>4. Owner[e] \in Alias /\ now' = now
        BY <3>1, DataAssumption DEF Transform, clock
      <3> QED
        BY <3>3, <3>4, ResolvedDated
    <2> QED
      BY <2>1, <2>2
  <1> QED
    BY <1>1, <1>3, <1>4 DEF Dated

\* The calendar's supporting facts hold from the start and are kept.
LEMMA CalendarInit == Init => Calendar
  <1> SUFFICES ASSUME Init PROVE Calendar
    OBVIOUS
  <1>1. TypeInv
    BY TypeInit
  <1> QED
    BY <1>1, NumberAssumption
    DEF Init, Calendar, CopyHolds, RunsAreDue, DeletionIsDue, RolloverIsDue,
        SnapshotIsLast, Dated, Blank, BulksInFlight

\* Every step keeps the calendar.
LEMMA CalendarStep ==
  ASSUME DailyRollover, Calendar, [Next]_vars
  PROVE  Calendar'
  BY TypeStep, CopyStep, RunsStep, DatedStep, BlankStep, BulksStep DEF Calendar

-----------------------------------------------------------------------------
(* Delete_Old_Logs keeps up                                                 *)

\* An index past the retention is one that today's deletion is still to come
\* to, but for failures.
Expiring ==
  \A i \in live :
    \/ Age(i) <= Retention + faults
    \/ /\ Age(i) <= Retention + 1 + faults
       /\ "delete" \in due /\ (dpc = "idle" \/ i \in dTodo)

\* A run of Delete_Old_Logs passes over an index only if it is young enough or
\* a call fails; what it was not shown was made today or is gone.
LEMMA ExpiringStep ==
  ASSUME TypeInv, CopyHolds, DeletionIsDue, Expiring, [Next]_vars
  PROVE  Expiring'
  <1> SUFFICES ASSUME NEW i \in live'
               PROVE  \/ Age(i)' <= Retention + faults'
                      \/ /\ Age(i)' <= Retention + 1 + faults'
                         /\ "delete" \in due' /\ (dpc' = "idle" \/ i \in dTodo')
    BY DEF Expiring
  <1>1. /\ faults \in Nat /\ faults' \in Nat /\ 0 <= faults /\ faults <= faults'
        /\ Retention \in Nat /\ now \in Nat
    BY FaultsGrow, NumberAssumption DEF TypeInv, TypeOK
  <1>2. TypeInv' /\ i \in Index /\ born[i] \in Nat /\ born'[i] \in Nat
    BY TypeStep DEF TypeInv, TypeOK
  <1>3. CASE NextDay
    <2>1. now' = now + 1 /\ UNCHANGED <<live, born, faults, dpc>> /\ due = {}
          /\ due' = Job
      BY <1>3 DEF NextDay, es, delVars
    <2>2. Age(i) <= Retention + faults /\ dpc = "idle"
      BY <2>1 DEF Expiring, DeletionIsDue
    <2> QED
      BY <1>1, <1>2, <2>1, <2>2 DEF Age, Job
  <1>4. CASE now' = now /\ i \notin live
    <2>1. born'[i] = now
      BY <1>2, <1>4, ClusterSteps
      DEF es, StoreItems, CreateAlias, RollOver, Drop, TypeInv, TypeOK
    <2>2. CASE faults' = faults
      BY <1>1, <1>4, <2>1, <2>2 DEF Age
    <2>3. CASE faults' = faults + 1
      BY <1>1, <1>4, <2>1, <2>3 DEF Age
    <2> QED
      BY <2>2, <2>3, FaultsGrow
  <1>5. CASE now' = now /\ i \in live
    <2>1. born'[i] = born[i]
      BY <1>2, <1>5, ClusterSteps
      DEF es, StoreItems, CreateAlias, RollOver, Drop, TypeInv, TypeOK
    <2>2. Age(i)' = Age(i)
      BY <1>5, <2>1 DEF Age
    <2>3. CASE Age(i) <= Retention + faults
      BY <1>1, <1>2, <2>2, <2>3 DEF Age
    <2>4. CASE /\ Age(i) <= Retention + 1 + faults
               /\ "delete" \in due /\ (dpc = "idle" \/ i \in dTodo)
      <3>1. Age(i) \in Int
        BY <1>1, <1>2 DEF Age
      <3>2. CASE faults' = faults + 1
        BY <1>1, <2>2, <2>4, <3>1, <3>2
      <3>3. CASE ~DeleteSteps /\ ~DeleteCrash
        <4>1. "delete" \in due' /\ UNCHANGED <<dpc, dTodo>>
          BY <1>5, <2>4, <3>3
          DEF Next, LogsToES, Deliver, Transform, TransformThrows, Transformed, Post,
              LogsCrash, RolloverSteps, RolloverStart, RolloverKey, CreateAlias,
              Rollover, RolloverEnd, RolloverCrash, Snapshot, NextDay, vars, clock,
              delVars
        <4> QED
          BY <1>1, <2>2, <2>4, <3>1, <4>1
      <3>4. CASE DeleteStart /\ UNCHANGED faults
        <4>1. dTodo' = live /\ due' = due
          BY <1>1, <3>4 DEF DeleteStart, Fault, clock
        <4> QED
          BY <1>5, <2>2, <2>4, <3>4, <4>1
      <3>5. ASSUME NEW k \in Index, DeleteKey(k), UNCHANGED faults
            PROVE  \/ Age(i)' <= Retention + faults'
                   \/ /\ Age(i)' <= Retention + 1 + faults'
                      /\ "delete" \in due' /\ (dpc' = "idle" \/ i \in dTodo')
        <4>1. i # k \/ ~AgeMust(dBorn[i], Retention)
          BY <1>1, <3>5 DEF DeleteKey, Drop, Fault
        <4>2. i \in dTodo => dBorn[i] = born[i]
          BY DEF CopyHolds
        <4>3. i \in dTodo /\ k \in dTodo
          BY <2>4, <3>5 DEF DeleteKey, DeletionIsDue
        <4>4. dTodo' = dTodo \ {k} /\ due' = due
          BY <3>5 DEF DeleteKey, clock
        <4> QED
          BY <1>1, <1>2, <2>2, <2>4, <3>1, <3>5, <4>1, <4>2, <4>3, <4>4
          DEF AgeMust, Age
      <3>6. CASE DeleteEnd
        BY <2>4, <3>6 DEF DeleteEnd
      <3>7. CASE DeleteCrash
        BY <1>1, <3>2, <3>7, FaultAdds DEF DeleteCrash
      <3>8. faults' = faults \/ faults' = faults + 1
        BY FaultsGrow
      <3> QED
        BY <3>2, <3>3, <3>4, <3>5, <3>6, <3>7, <3>8 DEF DeleteSteps
    <2> QED
      BY <1>5, <2>3, <2>4 DEF Expiring
  <1> QED
    BY <1>3, <1>4, <1>5, ClockSteps

\* No index outlives the retention by more than a day and the failures, however
\* Delete_Old_Logs (index.js, handler) interleaves with what makes indices.
THEOREM OldIndicesGo == Spec => []IndicesExpire
  <1> DEFINE Inv == TypeInv /\ CopyHolds /\ DeletionIsDue /\ Expiring
  <1>1. Init => Inv
    BY TypeInit DEF Init, CopyHolds, DeletionIsDue, Expiring
  <1>2. Inv /\ [Next]_vars => Inv'
    BY TypeStep, CopyStep, DeletionStep, ExpiringStep
  <1>3. Inv => IndicesExpire
    <2> SUFFICES ASSUME TypeInv, Expiring, NEW i \in live
                 PROVE  now - born[i] <= Retention + 1 + faults
      BY DEF IndicesExpire
    <2>1. /\ faults \in Nat /\ Retention \in Nat /\ now \in Nat /\ born[i] \in Nat
      BY NumberAssumption DEF TypeInv, TypeOK
    <2> QED
      BY <2>1 DEF Expiring, Age
  <1> QED
    BY <1>1, <1>2, <1>3, PTL DEF Spec

-----------------------------------------------------------------------------
(* What a step may do to write indices, bare indices and bulk bodies        *)

\* What there was is slack if there still is.
LEMMA SlackWas ==
  ASSUME TypeInv, [Next]_vars, Slack'
  PROVE  Slack
  <1>1. /\ faults \in Nat /\ RolloverAge \in Nat /\ Retention \in Nat
        /\ faults' = faults \/ faults' = faults + 1
    BY FaultsGrow, NumberAssumption
  <1>2. CASE faults' = faults
    BY <1>2 DEF Slack
  <1>3. CASE faults' = faults + 1
    BY <1>1, <1>3 DEF Slack
  <1> QED
    BY <1>1, <1>2, <1>3

\* Ages are integers, and no write index is near the retention.
LEMMA WritersAge ==
  ASSUME Calendar, Slack, Rolling
  PROVE  /\ \A i \in live : i \in Index /\ Age(i) \in Int
         /\ \A i \in live : role[i] = "write" =>
              Age(i) <= RolloverAge + 1 + faults /\ Age(i) < Retention
  <1>1. /\ faults \in Nat /\ RolloverAge \in Nat /\ Retention \in Nat
        /\ now \in Nat /\ \A i \in live : i \in Index /\ born[i] \in Nat
    BY NumberAssumption DEF Calendar, TypeInv, TypeOK
  <1>2. \A i \in live : Age(i) \in Int
    BY <1>1 DEF Age
  <1> QED
    BY <1>1, <1>2 DEF Rolling, YoungWriters, Slack

\* An index that goes is past the retention.
LEMMA DropsOld ==
  ASSUME Calendar, NEW i \in Index, DeleteKey(i), AgeMay(dBorn[i], Retention)
  PROVE  i \in live /\ Age(i) >= Retention
  BY DEF DeleteKey, AgeMay, Age, Calendar, CopyHolds

\* What a bulk body creates is the first index of an alias.
LEMMA StoredFirst ==
  ASSUME Rolling, NEW b \in Batch, NEW acc \in SUBSET bulk[b], StoreItems(acc),
         NEW i \in live' \ live
  PROVE  i[2] = 1
  BY DEF Rolling, BulkTargets, StoreItems

\* An alias once given a write index has one from then on.
LEMMA WritersStay ==
  ASSUME Calendar, Slack, Rolling, [Next]_vars, NEW a, HasWriter(a)
  PROVE  HasWriter(a)'
  <1>1. PICK u \in live : u[1] = a /\ role[u] = "write"
    BY DEF HasWriter
  <1>2. u \in Index /\ Age(u) \in Int /\ Age(u) < Retention /\ Retention \in Nat
    BY <1>1, WritersAge, NumberAssumption
  <1> USE DEF Calendar, TypeInv, TypeOK
  <1>3. CASE UNCHANGED es
    BY <1>1, <1>3 DEF es, HasWriter
  <1>4. ASSUME NEW b \in Batch, NEW acc \in SUBSET bulk[b], StoreItems(acc)
        PROVE  HasWriter(a)'
    BY <1>1, <1>4 DEF StoreItems, HasWriter
  <1>5. CASE CreateAlias
    <2>1. live' = live /\ role'[u] = "write"
      BY <1>1, <1>2, <1>5 DEF CreateAlias
    <2> QED
      BY <1>1, <2>1 DEF HasWriter
  <1>6. ASSUME NEW w \in WriteIndices(rKey[1]), RollOver(w)
        PROVE  HasWriter(a)'
    <2>1. w \in live /\ w \in Index
      BY DEF WriteIndices
    <2>2. CASE u = w
      <3>1. Following(w) \in live' /\ role'[Following(w)] = "write"
        BY <1>6, <2>1 DEF RollOver
      <3>2. Following(w)[1] = a
        BY <1>1, <2>2 DEF Following
      <3> QED
        BY <3>1, <3>2 DEF HasWriter
    <2>3. CASE u # w
      <3>1. u \in live' /\ role'[u] = "write"
        BY <1>1, <1>2, <1>6, <2>1, <2>3 DEF RollOver
      <3> QED
        BY <1>1, <3>1 DEF HasWriter
    <2> QED
      BY <2>2, <2>3
  <1>7. ASSUME NEW i \in Index, DeleteKey(i), Drop(i), AgeMay(dBorn[i], Retention)
        PROVE  HasWriter(a)'
    <2>1. u # i
      BY <1>2, <1>7, DropsOld
    <2>2. u \in live' /\ role'[u] = "write"
      BY <1>1, <1>2, <1>7, <2>1 DEF Drop
    <2> QED
      BY <1>1, <2>2 DEF HasWriter
  <1> QED
    BY <1>3, <1>4, <1>5, <1>6, <1>7, ClusterSteps

\* The write index stays the last of its alias.
LEMMA LastWritesStep ==
  ASSUME Calendar, Slack, Rolling, [Next]_vars
  PROVE  LastWrites'
  <1> SUFFICES ASSUME NEW i \in live', NEW j \in live', i[1] = j[1], role'[i] = "write"
               PROVE  j[2] <= i[2]
    BY DEF LastWrites
  <1>1. i \in Index /\ j \in Index /\ live \subseteq Index
    BY TypeStep DEF Calendar, TypeInv, TypeOK
  <1>2. \A u, v \in live : u[1] = v[1] /\ role[u] = "write" => v[2] <= u[2]
    BY DEF Rolling, LastWrites
  <1> USE DEF Calendar, TypeInv, TypeOK
  <1>3. CASE UNCHANGED es
    BY <1>2, <1>3 DEF es
  <1>4. ASSUME NEW b \in Batch, NEW acc \in SUBSET bulk[b], StoreItems(acc)
        PROVE  j[2] <= i[2]
    <2>1. role' = role /\ i \in live
      BY <1>1, <1>4 DEF StoreItems, Blank
    <2>2. j \in live \/ j[2] = 1
      BY <1>4, StoredFirst
    <2> QED
      BY <1>1, <1>2, <2>1, <2>2, IndexPair
  <1>5. CASE CreateAlias
    <2>1. live' = live /\ (role[i] = "write" \/ (i = rKey /\ WriteIndices(i[1]) \subseteq {i}))
      BY <1>1, <1>5 DEF CreateAlias
    <2>2. CASE role[i] = "write"
      BY <1>2, <2>1, <2>2
    <2>3. CASE role[i] # "write" /\ WriteIndices(i[1]) \subseteq {i}
      <3>1. ~HasWriter(j[1])
        BY <2>3 DEF HasWriter, WriteIndices
      <3>2. j[2] = 1
        BY <2>1, <3>1 DEF Rolling, OnlyFirstBare
      <3> QED
        BY <1>1, <3>2, IndexPair
    <2> QED
      BY <2>1, <2>2, <2>3
  <1>6. ASSUME NEW w \in WriteIndices(rKey[1]), RollOver(w)
        PROVE  j[2] <= i[2]
    <2> DEFINE n == Following(w)
    <2>1. w \in live /\ w \in Index /\ role[w] = "write"
      BY DEF WriteIndices
    <2>2. n \in Index \ live /\ n[1] = w[1] /\ n[2] = w[2] + 1 /\ w[2] \in Nat
      BY <1>6, <2>1, IndexPair DEF RollOver, Following
    <2>3. live' = live \cup {n} /\ role' = [role EXCEPT ![w] = "read", ![n] = "write"]
      BY <1>6 DEF RollOver
    <2>4. CASE i = n
      <3>1. j = n \/ j[2] <= w[2]
        BY <1>2, <2>1, <2>2, <2>3, <2>4
      <3> QED
        BY <1>1, <2>2, <2>4, <3>1, IndexPair
    <2>5. CASE i # n
      <3>1. i \in live /\ role[i] = "write" /\ i # w
        BY <1>1, <2>1, <2>2, <2>3, <2>5
      <3>2. CASE i[1] = w[1]
        <4>1. i[2] <= w[2] /\ w[2] <= i[2]
          BY <1>2, <2>1, <3>1, <3>2
        <4> QED
          BY <1>1, <2>1, <3>1, <3>2, <4>1, IndexPair
      <3>3. CASE i[1] # w[1]
        BY <1>2, <2>2, <2>3, <3>1, <3>3
      <3> QED
        BY <3>2, <3>3
    <2> QED
      BY <2>4, <2>5
  <1>7. ASSUME NEW k \in Index, Drop(k)
        PROVE  j[2] <= i[2]
    BY <1>1, <1>2, <1>7 DEF Drop
  <1> QED
    BY <1>3, <1>4, <1>5, <1>6, <1>7, ClusterSteps

\* Without a write index an alias keeps to its first index.
LEMMA OnlyFirstStep ==
  ASSUME Calendar, Slack, Rolling, [Next]_vars
  PROVE  OnlyFirstBare'
  <1> SUFFICES ASSUME NEW i \in live', ~HasWriter(i[1])'
               PROVE  i[2] = 1 /\ role'[i] = "none"
    BY DEF OnlyFirstBare
  <1>1. i \in Index /\ live \subseteq Index
    BY TypeStep DEF Calendar, TypeInv, TypeOK
  <1>2. ~HasWriter(i[1])
    BY WritersStay
  <1>3. i \in live => i[2] = 1 /\ role[i] = "none"
    BY <1>2 DEF Rolling, OnlyFirstBare
  <1>4. role'[i] # "write"
    BY DEF HasWriter
  <1> USE DEF Calendar, TypeInv, TypeOK
  <1>5. CASE UNCHANGED es
    BY <1>3, <1>5 DEF es
  <1>6. ASSUME NEW b \in Batch, NEW acc \in SUBSET bulk[b], StoreItems(acc)
        PROVE  i[2] = 1 /\ role'[i] = "none"
    <2>1. i \in live \/ i[2] = 1
      BY <1>6, StoredFirst
    <2> QED
      BY <1>1, <1>3, <1>6, <2>1 DEF StoreItems, Blank
  <1>7. CASE CreateAlias
    BY <1>1, <1>3, <1>4, <1>7 DEF CreateAlias
  <1>8. ASSUME NEW w \in WriteIndices(rKey[1]), RollOver(w)
        PROVE  i[2] = 1 /\ role'[i] = "none"
    <2>1. w \in live /\ w \in Index /\ role[w] = "write"
      BY DEF WriteIndices
    <2>2. i # w
      BY <1>2, <2>1 DEF HasWriter
    <2> QED
      BY <1>1, <1>3, <1>4, <1>8, <2>1, <2>2 DEF RollOver
  <1>9. ASSUME NEW k \in Index, Drop(k)
        PROVE  i[2] = 1 /\ role'[i] = "none"
    BY <1>1, <1>3, <1>9 DEF Drop
  <1> QED
    BY <1>5, <1>6, <1>7, <1>8, <1>9, ClusterSteps

\* The date of an index does not change, and one that is made is of today.
LEMMA DatesStay ==
  ASSUME Calendar, [Next]_vars
  PROVE  /\ \A i \in live \cap live' : born'[i] = born[i]
         /\ \A i \in live' \ live : born'[i] = now
  <1> USE DEF Calendar, TypeInv, TypeOK
  <1>1. CASE UNCHANGED es
    BY <1>1 DEF es
  <1>2. ASSUME NEW b \in Batch, NEW acc \in SUBSET bulk[b], StoreItems(acc)
        PROVE  /\ \A i \in live \cap live' : born'[i] = born[i]
               /\ \A i \in live' \ live : born'[i] = now
    BY <1>2 DEF StoreItems
  <1>3. CASE CreateAlias
    BY <1>3 DEF CreateAlias
  <1>4. ASSUME NEW w \in WriteIndices(rKey[1]), RollOver(w)
        PROVE  /\ \A i \in live \cap live' : born'[i] = born[i]
               /\ \A i \in live' \ live : born'[i] = now
    BY <1>4 DEF RollOver
  <1>5. ASSUME NEW k \in Index, Drop(k)
        PROVE  /\ \A i \in live \cap live' : born'[i] = born[i]
               /\ \A i \in live' \ live : born'[i] = now
    BY <1>5 DEF Drop
  <1> QED
    BY <1>1, <1>2, <1>3, <1>4, <1>5, ClusterSteps

\* A young index lives through the day.
LEMMA YoungLive ==
  ASSUME Calendar, [Next]_vars, NEW i \in live, Age(i) < Retention, now' = now
  PROVE  i \in live' /\ Age(i)' = Age(i)
  <1>1. /\ i \in Index /\ Age(i) \in Int /\ Retention \in Nat
    BY NumberAssumption DEF Calendar, TypeInv, TypeOK, Age
  <1>2. ASSUME NEW k \in Index, DeleteKey(k), Drop(k), AgeMay(dBorn[k], Retention)
        PROVE  i \in live'
    <2>1. i # k
      BY <1>1, <1>2, DropsOld
    <2> QED
      BY <1>2, <2>1 DEF Drop
  <1>3. i \in live'
    BY <1>2, ClusterSteps DEF es, StoreItems, CreateAlias, RollOver, Calendar
  <1> QED
    BY <1>3, DatesStay DEF Age

\* What transform resolves is a write index, far from the retention, or the
\* first index of the alias.
LEMMA TargetsStep ==
  ASSUME Calendar, Slack, Rolling, [Next]_vars
  PROVE  BulkTargets'
  <1> SUFFICES ASSUME NEW b \in Batch, NEW x \in bulk'[b]
               PROVE  x[2][2] = 1 \/ (x[2] \in live' /\ Age(x[2])' < Retention)
    BY DEF BulkTargets
  <1>1. CASE NextDay
    BY <1>1 DEF NextDay, logVars, Calendar, BulksInFlight
  <1>2. CASE now' = now
    <2>1. x[2][2] = 1 \/ (x[2] \in live /\ Age(x[2]) < Retention)
      <3>1. CASE x \in bulk[b]
        BY <3>1 DEF Rolling, BulkTargets
      <3>2. CASE x \notin bulk[b]
        <4>1. PICK c \in Batch, e \in Event :
                \E i \in Resolved(Owner[e]) \cup {FirstIndex(Owner[e])} :
                  bulk' = [bulk EXCEPT ![c] = @ \cup {<<e, i>>}]
          BY <3>2, BulkSteps DEF Calendar
        <4>2. PICK i \in Resolved(Owner[e]) \cup {FirstIndex(Owner[e])} :
                bulk' = [bulk EXCEPT ![c] = @ \cup {<<e, i>>}]
          BY <4>1
        <4>3. x[2] = i
          BY <3>2, <4>2 DEF Calendar, TypeInv, TypeOK
        <4>4. i[2] = 1 \/ i \in WriteIndices(Owner[e])
          BY DEF Resolved, FirstIndex
        <4> QED
          BY <4>3, <4>4, WritersAge DEF WriteIndices
      <3> QED
        BY <3>1, <3>2
    <2>2. CASE x[2] \in live /\ Age(x[2]) < Retention
      BY <1>2, <2>2, YoungLive
    <2> QED
      BY <2>1, <2>2
  <1> QED
    BY <1>1, <1>2, ClockSteps DEF Calendar

-----------------------------------------------------------------------------
(* The daily rollover keeps up                                              *)

\* A write index is one of before the step, with its age, or new; so is an
\* index that its alias has no write index for.
LEMMA WritersWere ==
  ASSUME Calendar, Slack, Rolling, [Next]_vars, now' = now, ~CreateAlias, NEW i \in live'
  PROVE  /\ role'[i] = "write" =>
              Age(i)' = 0 \/ (i \in live /\ role[i] = "write" /\ Age(i)' = Age(i))
         /\ ~HasWriter(i[1])' =>
              Age(i)' = 0 \/ (i \in live /\ ~HasWriter(i[1]) /\ Age(i)' = Age(i))
  <1>1. i \in Index /\ now \in Nat
    BY TypeStep DEF Calendar, TypeInv, TypeOK
  <1>2. CASE i \notin live
    BY <1>1, <1>2, DatesStay DEF Age
  <1>3. CASE i \in live
    <2>1. Age(i)' = Age(i)
      BY <1>3, DatesStay DEF Age
    <2>2. role'[i] = "write" => role[i] = "write"
      BY <1>1, <1>3, ClusterSteps
      DEF es, StoreItems, RollOver, Drop, Calendar, TypeInv, TypeOK
    <2> QED
      BY <1>3, <2>1, <2>2, WritersStay
  <1> QED
    BY <1>2, <1>3

\* The other functions and the snapshot leave the rollover run alone.
LEMMA RunUndisturbed ==
  ASSUME TypeInv, [Next]_vars, ~RolloverSteps, ~RolloverCrash, ~NextDay
  PROVE  /\ now' = now /\ UNCHANGED rollVars
         /\ "rollover" \in due' <=> "rollover" \in due
  BY DEF Next, LogsToES, Deliver, Transform, TransformThrows, Transformed, Post,
         LogsCrash, DeleteSteps, DeleteStart, DeleteKey, DeleteEnd, DeleteCrash,
         Snapshot, vars, clock, rollVars

\* A step that leaves a run ahead of the aliases it was ahead of keeps the
\* promises about the day's rollover.
LEMMA KeptIfAhead ==
  ASSUME Calendar, Slack, Rolling, [Next]_vars, now' = now, ~CreateAlias,
         \A i \in live : role[i] = "write" /\ Age(i) > RolloverAge + faults'
                           /\ i \in live' /\ role'[i] = "write" /\ Ahead(i[1])
                           => Ahead(i[1])',
         \A i \in live : ~HasWriter(i[1]) /\ Age(i) > faults' /\ i \in live' /\ Adopting(i)
                           => Adopting(i)'
  PROVE  YoungWriters' /\ YoungBare'
  <1>1. /\ faults \in Nat /\ RolloverAge \in Nat
        /\ faults' = faults \/ faults' = faults + 1
    BY FaultsGrow, NumberAssumption DEF Calendar
  <1>2. \A i \in live : Age(i) \in Int
    BY WritersAge
  <1>3. ASSUME NEW i \in live', role'[i] = "write"
        PROVE  \/ Age(i)' <= RolloverAge + faults'
               \/ Age(i)' <= RolloverAge + 1 + faults' /\ Ahead(i[1])'
    <2>1. Age(i)' = 0 \/ (i \in live /\ role[i] = "write" /\ Age(i)' = Age(i))
      BY <1>3, WritersWere
    <2>2. i \in live /\ role[i] = "write" =>
            \/ Age(i) <= RolloverAge + faults
            \/ Age(i) <= RolloverAge + 1 + faults /\ Ahead(i[1])
      BY DEF Rolling, YoungWriters
    <2>3. CASE faults' = faults
      BY <1>1, <1>2, <1>3, <2>1, <2>2, <2>3
    <2>4. CASE faults' = faults + 1
      BY <1>1, <1>2, <1>3, <2>1, <2>2, <2>4
    <2> QED
      BY <1>1, <2>3, <2>4
  <1>4. ASSUME NEW i \in live', ~HasWriter(i[1])'
        PROVE  \/ Age(i)' <= faults'
               \/ Age(i)' <= 1 + faults' /\ Adopting(i)'
    <2>1. Age(i)' = 0 \/ (i \in live /\ ~HasWriter(i[1]) /\ Age(i)' = Age(i))
      BY <1>4, WritersWere
    <2>2. i \in live /\ ~HasWriter(i[1]) =>
            Age(i) <= faults \/ (Age(i) <= 1 + faults /\ Adopting(i))
      BY DEF Rolling, YoungBare
    <2>3. CASE faults' = faults
      BY <1>1, <1>2, <1>4, <2>1, <2>2, <2>3
    <2>4. CASE faults' = faults + 1
      BY <1>1, <1>2, <1>4, <2>1, <2>2, <2>4
    <2> QED
      BY <1>1, <2>3, <2>4
  <1> QED
    BY <1>3, <1>4 DEF YoungWriters, YoungBare

\* A failure gives every index another day.
LEMMA KeptIfFault ==
  ASSUME Calendar, Slack, Rolling, [Next]_vars, now' = now, ~CreateAlias,
         faults' = faults + 1
  PROVE  YoungWriters' /\ YoungBare'
  <1>1. /\ faults \in Nat /\ RolloverAge \in Nat
        /\ \A i \in live : Age(i) \in Int
    BY FaultsGrow, NumberAssumption, WritersAge DEF Calendar
  <1>2. \A i \in live : role[i] = "write" => ~(Age(i) > RolloverAge + faults')
    BY <1>1, WritersAge
  <1>3. \A i \in live : ~HasWriter(i[1]) => ~(Age(i) > faults')
    BY <1>1 DEF Rolling, YoungBare
  <1> QED
    BY <1>2, <1>3, KeptIfAhead

\* The keys of a copy are known as long as it is not changed.
LEMMA KeysKept ==
  ASSUME Calendar, Slack, Rolling, [Next]_vars, UNCHANGED <<rTodo, rBare, rKey>>,
         rpc' = rpc \/ rpc' \notin {"alias", "roll"}
  PROVE  KeysKnown'
  BY WritersStay DEF Rolling, KeysKnown

\* The other functions only make young indices, and take old ones away.
LEMMA OthersRoll ==
  ASSUME Calendar, Slack, Rolling, [Next]_vars, ~RolloverSteps, ~RolloverCrash, ~NextDay
  PROVE  YoungWriters' /\ YoungBare' /\ KeysKnown'
  <1>1. /\ now' = now /\ UNCHANGED <<rpc, rTodo, rBare, rKey, rolled>>
        /\ "rollover" \in due' <=> "rollover" \in due
    BY RunUndisturbed DEF Calendar, rollVars
  <1>2. \A i : (Ahead(i[1]) => Ahead(i[1])') /\ (Adopting(i) => Adopting(i)')
    BY <1>1 DEF Ahead, Adopting
  <1> QED
    BY <1>1, <1>2, KeptIfAhead, KeysKept DEF RolloverSteps

\* At midnight the indices age, and a new rollover is ahead of all of them.
LEMMA NextDayRolls ==
  ASSUME Calendar, Slack, Rolling, NextDay
  PROVE  YoungWriters' /\ YoungBare' /\ KeysKnown'
  <1>1. /\ now' = now + 1 /\ UNCHANGED <<live, born, role, faults, rpc, rTodo, rBare, rKey>>
        /\ due = {} /\ "rollover" \in due' /\ rpc = "idle"
    BY DEF NextDay, es, rollVars, Job, Calendar, RunsAreDue, RolloverIsDue
  <1>2. /\ \A a : Ahead(a)' /\ ~Ahead(a)
        /\ \A i : Adopting(i)' /\ ~Adopting(i)
        /\ \A a : HasWriter(a)' <=> HasWriter(a)
    BY <1>1 DEF Ahead, Adopting, HasWriter
  <1>3. /\ faults \in Nat /\ RolloverAge \in Nat /\ now \in Nat
        /\ \A i \in live : born[i] \in Nat
    BY NumberAssumption DEF Calendar, TypeInv, TypeOK
  <1>4. \A i \in live : Age(i)' = Age(i) + 1 /\ Age(i) \in Int
    BY <1>1, <1>3 DEF Age
  <1>5. YoungWriters'
    BY <1>1, <1>2, <1>3, <1>4 DEF Rolling, YoungWriters
  <1>6. YoungBare'
    BY <1>1, <1>2, <1>3, <1>4 DEF Rolling, YoungBare
  <1>7. KeysKnown'
    BY <1>1, <1>2 DEF Rolling, KeysKnown
  <1> QED
    BY <1>5, <1>6, <1>7

\* A run that was shown the cluster is ahead of every index.
LEMMA StartRolls ==
  ASSUME Calendar, Slack, Rolling, [Next]_vars, RolloverStart
  PROVE  YoungWriters' /\ YoungBare' /\ KeysKnown'
  <1>1. now' = now /\ due' = due /\ rolled' = {} /\ UNCHANGED es /\ rpc' = "loop"
        /\ "rollover" \in due
    BY DEF RolloverStart, clock, Calendar, RunsAreDue, RolloverIsDue
  <1>2. CASE Fault
    <2>1. YoungWriters' /\ YoungBare'
      BY <1>1, <1>2, KeptIfFault, FaultAdds DEF Calendar, RolloverStart, CreateAlias
    <2>2. rTodo' = {} \/ (rTodo' = live /\ rBare' = {i \in live : role[i] = "none"})
      BY DEF RolloverStart
    <2>3. KeysKnown'
      BY <1>1, <2>2, WritersStay DEF KeysKnown, Rolling, OnlyFirstBare
    <2> QED
      BY <2>1, <2>3
  <1>3. CASE rTodo' = live /\ rBare' = {i \in live : role[i] = "none"}
    <2>1. \A i \in live : role[i] = "write" => Ahead(i[1])'
      BY <1>1, <1>3 DEF Ahead
    <2>2. \A i \in live : ~HasWriter(i[1]) => Adopting(i)'
      BY <1>1, <1>3 DEF Adopting, Rolling, OnlyFirstBare
    <2>3. YoungWriters' /\ YoungBare'
      BY <1>1, <2>1, <2>2, KeptIfAhead DEF RolloverStart, CreateAlias
    <2>4. KeysKnown'
      BY <1>1, <1>3, WritersStay DEF KeysKnown, Rolling, OnlyFirstBare
    <2> QED
      BY <2>3, <2>4
  <1> QED
    BY <1>2, <1>3 DEF RolloverStart

\* The next key is passed over only if its alias was rolled over.
LEMMA KeyRolls ==
  ASSUME Calendar, Slack, Rolling, [Next]_vars, NEW k \in Index, RolloverKey(k)
  PROVE  YoungWriters' /\ YoungBare' /\ KeysKnown'
  <1>1. /\ now' = now /\ UNCHANGED <<due, rBare, rolled>> /\ UNCHANGED es
        /\ rpc = "loop" /\ k \in rTodo /\ rTodo' = rTodo \ {k} /\ ~CreateAlias
        /\ \/ k[1] \in rolled /\ rpc' = "loop"
           \/ /\ rKey' = k /\ rpc' = IF k \in rBare THEN "alias" ELSE "roll"
    BY DEF RolloverKey, CreateAlias, clock
  <1>2. \A i \in live : Ahead(i[1]) => Ahead(i[1])'
    BY <1>1 DEF Ahead
  <1>3. \A i \in live : Adopting(i) => Adopting(i)'
    BY <1>1 DEF Adopting
  <1>4. KeysKnown'
    BY <1>1, WritersStay DEF Rolling, KeysKnown
  <1> QED
    BY <1>1, <1>2, <1>3, <1>4, KeptIfAhead

\* An index adopted is rolled over next.
LEMMA AliasRolls ==
  ASSUME Calendar, Slack, Rolling, [Next]_vars, CreateAlias
  PROVE  YoungWriters' /\ YoungBare' /\ KeysKnown'
  <1>1. /\ now' = now /\ UNCHANGED <<due, live, born, rTodo, rBare, rKey, rolled>>
        /\ rpc = "alias" /\ rpc' = "roll" /\ "rollover" \in due
        /\ \A i \in live : Age(i)' = Age(i)
    BY DEF CreateAlias, clock, Calendar, RunsAreDue, RolloverIsDue, Age
  <1>2. /\ faults \in Nat /\ RolloverAge \in Nat
        /\ faults' = faults \/ faults' = faults + 1
        /\ \A i \in live : Age(i) \in Int /\ i \in Index
    BY FaultsGrow, NumberAssumption, WritersAge DEF Calendar
  <1>3. \A a : Ahead(a) => Ahead(a)'
    BY <1>1 DEF Ahead
  <1>4. ASSUME NEW i \in live, role'[i] = "write"
        PROVE  Age(i) <= RolloverAge + faults
                 \/ (Age(i) <= RolloverAge + 1 + faults /\ Ahead(i[1])')
    <2>1. CASE role[i] = "write"
      BY <1>3, <2>1 DEF Rolling, YoungWriters
    <2>2. CASE role[i] # "write"
      <3>1. i = rKey /\ WriteIndices(i[1]) \subseteq {i}
        BY <1>2, <1>4, <2>2 DEF CreateAlias, Calendar, TypeInv, TypeOK
      <3>2. ~HasWriter(i[1])
        BY <2>2, <3>1 DEF HasWriter, WriteIndices
      <3>3. Age(i) <= 1 + faults
        BY <1>2, <3>2 DEF Rolling, YoungBare
      <3> QED
        BY <1>1, <1>2, <3>1, <3>3 DEF Ahead
    <2> QED
      BY <2>1, <2>2
  <1>5. YoungWriters'
    <2>1. CASE faults' = faults
      BY <1>1, <1>2, <1>4, <2>1 DEF YoungWriters
    <2>2. CASE faults' = faults + 1
      BY <1>1, <1>2, <1>4, <2>2 DEF YoungWriters
    <2> QED
      BY <1>2, <2>1, <2>2
  <1>6. ASSUME NEW i \in live, ~HasWriter(i[1])'
        PROVE  Age(i) <= faults \/ (Age(i) <= 1 + faults /\ (Adopting(i)' \/ faults' = faults + 1))
    <2>1. ~HasWriter(i[1])
      BY <1>6, WritersStay
    <2>2. Age(i) <= faults \/ (Age(i) <= 1 + faults /\ Adopting(i))
      BY <2>1 DEF Rolling, YoungBare
    <2>3. CASE rKey = i /\ UNCHANGED faults
      <3>1. WriteIndices(rKey[1]) \subseteq {rKey}
        BY <2>1, <2>3 DEF HasWriter, WriteIndices
      <3>2. role' = [role EXCEPT ![rKey] = "write"]
        BY <1>2, <2>3, <3>1 DEF CreateAlias, Fault
      <3>3. role'[i] = "write" /\ i \in live'
        BY <1>1, <1>2, <2>3, <3>2 DEF Calendar, TypeInv, TypeOK
      <3> QED
        BY <1>6, <3>3 DEF HasWriter
    <2>4. CASE rKey # i
      BY <1>1, <2>2, <2>4 DEF Adopting
    <2> QED
      BY <1>2, <2>2, <2>3, <2>4
  <1>7. YoungBare'
    <2>1. CASE faults' = faults
      BY <1>1, <1>2, <1>6, <2>1 DEF YoungBare
    <2>2. CASE faults' = faults + 1
      BY <1>1, <1>2, <1>6, <2>2 DEF YoungBare
    <2> QED
      BY <1>2, <2>1, <2>2
  <1>8. KeysKnown'
    BY <1>1, WritersStay DEF Rolling, KeysKnown
  <1> QED
    BY <1>5, <1>7, <1>8

\* The index that would follow a write index of some age can be made.
LEMMA FollowingFree ==
  ASSUME DailyRollover, Calendar, Slack, Rolling, NEW w \in live, role[w] = "write",
         Age(w) >= RolloverAge
  PROVE  Following(w) \in Index \ live
  <1>1. /\ w \in Index /\ w[1] \in Alias /\ w[2] \in Nat /\ w[2] >= 1
        /\ born[w] \in Nat /\ now \in Nat
        /\ MaxNow \in Nat /\ MaxSuffix \in Nat /\ RolloverAge \in Nat
    BY IndexPair, NumberAssumption DEF Calendar, TypeInv, TypeOK
  <1>2. w[2] <= born[w] + 1 /\ now <= MaxNow
    BY DEF Calendar, Dated
  <1>3. w[2] + 1 \in 1 .. MaxSuffix
    BY <1>1, <1>2 DEF Age, DailyRollover
  <1>4. Following(w) \in Index
    BY <1>1, <1>3 DEF Following, Index
  <1>5. Following(w) \notin live
    <2>1. Following(w)[1] = w[1] /\ Following(w)[2] = w[2] + 1
      BY DEF Following
    <2> QED
      BY <1>1, <2>1 DEF Rolling, LastWrites
  <1> QED
    BY <1>4, <1>5

\* An answered rollover request leaves the alias with a write index that is not
\* past its age.
LEMMA RequestRolls ==
  ASSUME DailyRollover, Calendar, Slack, Rolling, [Next]_vars, Rollover, UNCHANGED faults
  PROVE  YoungWriters' /\ YoungBare' /\ KeysKnown'
  <1> DEFINE a == rKey[1]
  <1>1. /\ now' = now /\ due' = due /\ UNCHANGED <<rTodo, rBare, rKey>>
        /\ rpc = "roll" /\ rpc' = "loop" /\ ~CreateAlias
        /\ RolloverRequest(a) /\ rolled' = rolled \cup {a}
    <2>1. ~Fault
      BY FaultsGrow DEF Fault, Calendar
    <2> QED
      BY <2>1 DEF Rollover, clock, CreateAlias
  <1>2. /\ RolloverAge \in Nat /\ faults \in Nat /\ now \in Nat
        /\ \A i \in live : Age(i) \in Int /\ i \in Index /\ born[i] \in Nat
    BY FaultsGrow, NumberAssumption, WritersAge DEF Calendar, TypeInv, TypeOK
  <1>3. ASSUME NEW i \in live, role[i] = "write", Age(i) > RolloverAge + faults,
               role'[i] = "write", Ahead(i[1])
        PROVE  Ahead(i[1])'
    <2>1. Age(i) > RolloverAge
      BY <1>2, <1>3
    <2>2. CASE i[1] = a
      <3>1. i \in WriteIndices(a)
        BY <1>3, <2>2 DEF WriteIndices
      <3>2. ASSUME NEW w \in WriteIndices(a), RollOver(w)
            PROVE  FALSE
        <4>1. w \in live /\ w \in Index /\ role[w] = "write" /\ w[1] = i[1]
          BY <1>2, <2>2 DEF WriteIndices
        <4>2. w[2] <= i[2] /\ i[2] <= w[2]
          BY <1>3, <4>1 DEF Rolling, LastWrites
        <4>3. i = w
          BY <1>2, <4>1, <4>2, IndexPair
        <4>4. Following(w) # w
          BY <4>1, IndexPair DEF Following
        <4> QED
          BY <1>3, <3>2, <4>1, <4>3, <4>4 DEF RollOver, Calendar, TypeInv, TypeOK
      <3>3. Following(i) \in Index \ live
        BY <1>2, <1>3, <2>1, FollowingFree
      <3>4. AgeMust(born[i], RolloverAge)
        BY <2>1 DEF AgeMust, Age
      <3> QED
        BY <1>1, <3>1, <3>2, <3>3, <3>4 DEF RolloverRequest
    <2>3. CASE i[1] # a
      BY <1>1, <1>3, <2>3 DEF Ahead
    <2> QED
      BY <2>2, <2>3
  <1>4. ASSUME NEW i \in live, ~HasWriter(i[1]), Adopting(i)
        PROVE  Adopting(i)'
    <2>1. "rollover" \in due /\ i[1] \notin rolled /\ i \in rTodo \cap rBare
      BY <1>1, <1>4 DEF Adopting
    <2>2. i[1] # a
      <3>1. i[2] = 1
        BY <1>4 DEF Rolling, OnlyFirstBare
      <3>2. i[1] = a => rKey[2] = 1 /\ rKey \in Index /\ rKey \notin rTodo
        BY <1>1, <1>4 DEF Rolling, KeysKnown, Calendar, TypeInv, KeyInHand
      <3> QED
        BY <1>2, <2>1, <3>1, <3>2, IndexPair
    <2> QED
      BY <1>1, <2>1, <2>2 DEF Adopting
  <1>5. YoungWriters' /\ YoungBare'
    BY <1>1, <1>3, <1>4, KeptIfAhead
  <1>6. KeysKnown'
    BY <1>1, KeysKept
  <1> QED
    BY <1>5, <1>6

\* Every step of the pipeline keeps the rollover up to date.
LEMMA RollStep ==
  ASSUME DailyRollover, RollInv, [Next]_vars
  PROVE  RollInv'
  <1>1. Calendar'
    BY CalendarStep DEF RollInv
  <1> SUFFICES ASSUME Slack' PROVE Rolling'
    BY <1>1 DEF RollInv
  <1>2. Calendar /\ Slack /\ Rolling
    BY SlackWas DEF RollInv, Calendar
  <1>3. LastWrites' /\ OnlyFirstBare' /\ BulkTargets'
    BY <1>2, LastWritesStep, OnlyFirstStep, TargetsStep
  <1>4. YoungWriters' /\ YoungBare' /\ KeysKnown'
    <2>1. CASE ~RolloverSteps /\ ~RolloverCrash /\ ~NextDay
      BY <1>2, <2>1, OthersRoll
    <2>2. CASE NextDay
      BY <1>2, <2>2, NextDayRolls
    <2>3. CASE RolloverStart
      BY <1>2, <2>3, StartRolls
    <2>4. ASSUME NEW k \in Index, RolloverKey(k)
          PROVE  YoungWriters' /\ YoungBare' /\ KeysKnown'
      BY <1>2, <2>4, KeyRolls
    <2>5. CASE CreateAlias
      BY <1>2, <2>5, AliasRolls
    <2>6. CASE Rollover
      <3>1. now' = now /\ ~CreateAlias /\ UNCHANGED <<rTodo, rBare, rKey>> /\ rpc' = "loop"
        BY <2>6 DEF Rollover, CreateAlias, clock
      <3>2. CASE faults' = faults + 1
        BY <1>2, <3>1, <3>2, KeptIfFault, KeysKept
      <3> QED
        BY <1>2, <2>6, <3>2, RequestRolls, FaultsGrow DEF Calendar
    <2>7. CASE RolloverEnd
      <3>1. /\ now' = now /\ UNCHANGED rTodo /\ rpc = "loop" /\ rTodo = {}
            /\ rpc' = "idle" /\ ~CreateAlias
        BY <2>7 DEF RolloverEnd, CreateAlias
      <3>2. /\ \A i \in live : ~Ahead(i[1]) /\ ~Adopting(i)
            /\ rTodo' = {}
        BY <3>1 DEF Ahead, Adopting
      <3>3. KeysKnown'
        BY <3>1, <3>2 DEF KeysKnown
      <3> QED
        BY <1>2, <3>1, <3>2, <3>3, KeptIfAhead
    <2>8. CASE RolloverCrash
      <3>1. now' = now /\ rTodo' = {} /\ rpc' = "idle" /\ Fault /\ ~CreateAlias
        BY <2>8 DEF RolloverCrash, CreateAlias, es
      <3>2. KeysKnown'
        BY <3>1 DEF KeysKnown
      <3> QED
        BY <1>2, <3>1, <3>2, KeptIfFault, FaultAdds DEF Calendar
    <2> QED
      BY <2>1, <2>2, <2>3, <2>4, <2>5, <2>6, <2>7, <2>8 DEF RolloverSteps
  <1> QED
    BY <1>3, <1>4 DEF Rolling

\* There is nothing to roll over at first.
LEMMA RollInit == Init => RollInv
  <1> SUFFICES ASSUME Init PROVE RollInv
    OBVIOUS
  <1>1. Calendar
    BY CalendarInit
  <1> QED
    BY <1>1 DEF Init, RollInv, Rolling, LastWrites, OnlyFirstBare, YoungWriters,
                YoungBare, KeysKnown, BulkTargets

\* The write index of every alias is rolled over within the rollover age, a day
\* of jitter and a day for every failure, whatever LogsToES makes and adopts in
\* between, while failures are too few to bring it to the retention (Rollover,
\* index.js, handler).
THEOREM WriteIndexIsYoung == ASSUME DailyRollover PROVE Spec => []WriteIndexYoung
  <1>1. RollInv => WriteIndexYoung
    <2> SUFFICES ASSUME RollInv, Slack, NEW i \in live, role[i] = "write"
                 PROVE  now - born[i] <= RolloverAge + 1 + faults
      BY DEF WriteIndexYoung, Slack
    <2> QED
      BY WritersAge DEF RollInv, Age
  <1> QED
    BY <1>1, RollInit, RollStep, PTL DEF Spec

\* Once the day's rollover has run and nothing failed, every service that had an
\* index before today has a write index, if the retention exceeds the rollover
\* age by more than the day of jitter.
THEOREM BareIsAdopted ==
  ASSUME DailyRollover, RolloverAge + 1 < Retention
  PROVE  Spec => []AliasAdopted
  <1>1. RollInv => AliasAdopted
    <2> SUFFICES ASSUME RollInv, faults = 0, "rollover" \notin due,
                        NEW i \in live, born[i] < now, ~HasWriter(i[1])
                 PROVE  FALSE
      BY DEF AliasAdopted, HasWriter, WriteIndices
    <2>1. Slack
      BY NumberAssumption DEF Slack
    <2>2. Age(i) <= 0
      BY <2>1 DEF RollInv, Rolling, YoungBare, Adopting
    <2>3. born[i] \in Nat /\ now \in Nat
      BY DEF RollInv, Calendar, TypeInv, TypeOK
    <2> QED
      BY <2>2, <2>3 DEF Age
  <1> QED
    BY <1>1, RollInit, RollStep, PTL DEF Spec

-----------------------------------------------------------------------------
(* While nothing fails, ESLogs implements LogStore                          *)

NoFault == faults = 0

\* An index that is still written is at most the rollover age and a day old,
\* and a day less once the jobs of the day are over.
Fresh(i) == Age(i) <= RolloverAge + 1 /\ (due = {} => Age(i) <= RolloverAge)

\* A bulk body adds to fresh indices only.
BulkFresh == \A b \in Batch : \A x \in bulk[b] : x[2] \in live => Fresh(x[2])

\* What no snapshot holds is in fresh indices.
UnsavedFresh == \A i \in live : \A e \in docs[i] \ saved : Fresh(i)

\* No event was stored in the future, and one that is in the store was stored
\* while its index was fresh.
InTime ==
  /\ \A e \in Event : storedAt[e] <= now
  /\ \A i \in live : \A e \in docs[i] :
       e \in seen /\ storedAt[e] <= born[i] + RolloverAge + 1

KeepInv == RollInv /\ NothingSlips /\ BulkFresh /\ UnsavedFresh /\ InTime

\* While nothing fails nothing stands in the way of the rollover.
LEMMA KeepFacts ==
  ASSUME KeepInv, NoFault, RolloverAge + 1 < Retention
  PROVE  /\ Calendar /\ Slack /\ Rolling /\ TypeInv
         /\ RolloverAge \in Nat /\ Retention \in Nat /\ now \in Nat
         /\ \A i \in live : i \in Index /\ Age(i) \in Int /\ born[i] \in Nat
  <1>1. Slack
    BY NumberAssumption DEF NoFault, Slack
  <1>2. Calendar /\ Rolling /\ TypeInv
    BY <1>1 DEF KeepInv, RollInv, Calendar
  <1>3. \A i \in live : i \in Index /\ born[i] \in Nat
    BY <1>2 DEF TypeInv, TypeOK
  <1> QED
    BY <1>1, <1>2, <1>3, WritersAge, NumberAssumption DEF TypeInv, TypeOK

\* An index that a bulk body gets from the alias is fresh if it exists.
LEMMA ResolvedFresh ==
  ASSUME DailyRollover, KeepInv, NoFault, RolloverAge + 1 < Retention, NEW a \in Alias,
         NEW i \in Resolved(a), i \in live
  PROVE  Fresh(i)
  <1>1. /\ Rolling /\ Age(i) \in Int /\ RolloverAge \in Nat /\ RolloverAge # 0
    BY KeepFacts DEF DailyRollover
  <1>2. CASE i \in WriteIndices(a)
    <2>1. Age(i) <= RolloverAge \/ (Age(i) <= RolloverAge + 1 /\ due # {})
      BY <1>1, <1>2 DEF WriteIndices, Rolling, YoungWriters, Ahead, NoFault
    <2> QED
      BY <1>1, <2>1 DEF Fresh
  <1>3. CASE i = FirstIndex(a) /\ WriteIndices(a) = {}
    <2>1. ~HasWriter(i[1])
      BY <1>3 DEF FirstIndex, HasWriter, WriteIndices
    <2>2. Age(i) <= 0 \/ (Age(i) <= 1 /\ due # {})
      BY <1>1, <2>1 DEF Rolling, YoungBare, Adopting, NoFault
    <2> QED
      BY <1>1, <2>2 DEF Fresh
  <1> QED
    BY <1>2, <1>3 DEF Resolved

\* The jobs of the day are over only with its snapshot.
LEMMA DueEnds ==
  ASSUME RunsAreDue, TypeInv, [Next]_vars
  PROVE  due' = {} => due = {} \/ Snapshot
  <1> USE DEF clock
  <1>1. CASE LogsToES
    BY <1>1 DEF LogsToES, Deliver, Transform, TransformThrows, Transformed, Post,
                LogsCrash
  <1>2. CASE RolloverSteps \/ RolloverCrash
    BY <1>2 DEF RolloverSteps, RolloverStart, RolloverKey, CreateAlias, Rollover,
                RolloverEnd, RolloverCrash, RunsAreDue, SnapshotIsLast
  <1>3. CASE DeleteSteps \/ DeleteCrash
    BY <1>3 DEF DeleteSteps, DeleteStart, DeleteKey, DeleteEnd, DeleteCrash,
                RunsAreDue, SnapshotIsLast
  <1>4. CASE NextDay
    BY <1>4 DEF NextDay, Job
  <1> QED
    BY <1>1, <1>2, <1>3, <1>4 DEF Next, vars

\* A fresh index stays fresh through the day, unless it is the day's snapshot
\* that is taken; and an index that is made is fresh.
LEMMA FreshStays ==
  ASSUME KeepInv, NoFault, RolloverAge + 1 < Retention, [Next]_vars, now' = now,
         NEW i \in live', i \in live => Fresh(i) /\ ~(Snapshot /\ due # {})
  PROVE  Fresh(i)'
  <1>1. /\ Calendar /\ TypeInv /\ RolloverAge \in Nat /\ now \in Nat
    BY KeepFacts
  <1>2. CASE i \notin live
    <2>1. Age(i)' = 0
      BY <1>1, <1>2, DatesStay DEF Age
    <2> QED
      BY <1>1, <2>1 DEF Fresh
  <1>3. CASE i \in live
    <2>1. Age(i)' = Age(i)
      BY <1>1, <1>3, DatesStay DEF Age
    <2>2. due' = {} => due = {}
      BY <1>1, <1>3, DueEnds DEF Calendar
    <2> QED
      BY <1>3, <2>1, <2>2 DEF Fresh
  <1> QED
    BY <1>2, <1>3

\* What an alias resolves to is fresh, and stays so while the body is in flight.
LEMMA BulkFreshStep ==
  ASSUME DailyRollover, KeepInv, NoFault, NoFault', RolloverAge + 1 < Retention, [Next]_vars
  PROVE  BulkFresh'
  <1> SUFFICES ASSUME NEW b \in Batch, NEW x \in bulk'[b], x[2] \in live'
               PROVE  Fresh(x[2])'
    BY DEF BulkFresh
  <1>1. Calendar /\ TypeInv
    BY KeepFacts
  <1>2. CASE NextDay
    BY <1>1, <1>2 DEF NextDay, logVars, Calendar, BulksInFlight
  <1>3. CASE now' = now
    <2>1. CASE x \in bulk[b]
      <3>1. x[2] \in live => Fresh(x[2])
        BY <2>1 DEF KeepInv, BulkFresh
      <3>2. ~Snapshot
        BY <1>1, <2>1 DEF Snapshot, Calendar, BulksInFlight
      <3> QED
        BY <1>3, <3>1, <3>2, FreshStays
    <2>2. CASE x \notin bulk[b]
      <3>1. PICK c \in Batch, e \in Event :
              /\ Transform(c, e)
              /\ \E i \in Resolved(Owner[e]) \cup {FirstIndex(Owner[e])} :
                   /\ bulk' = [bulk EXCEPT ![c] = @ \cup {<<e, i>>}]
                   /\ i \in Resolved(Owner[e]) \/ Fault
        BY <1>1, <2>2, BulkSteps
      <3>2. PICK i \in Resolved(Owner[e]) \cup {FirstIndex(Owner[e])} :
              /\ bulk' = [bulk EXCEPT ![c] = @ \cup {<<e, i>>}]
              /\ i \in Resolved(Owner[e]) \/ Fault
        BY <3>1
      <3>3. x[2] = i /\ i \in Resolved(Owner[e])
        BY <1>1, <2>2, <3>2, FaultAdds DEF TypeInv, TypeOK, NoFault
      <3>4. Owner[e] \in Alias /\ live' = live /\ due' = due
        BY <3>1, DataAssumption DEF Transform, es, clock
      <3>5. Fresh(x[2])
        BY <3>3, <3>4, ResolvedFresh
      <3>6. ~(Snapshot /\ due # {})
        BY <3>4 DEF Snapshot
      <3> QED
        BY <1>3, <3>5, <3>6, FreshStays
    <2> QED
      BY <2>1, <2>2
  <1> QED
    BY <1>1, <1>2, <1>3, ClockSteps

\* Documents are added by a bulk request alone, to the indices it names.
LEMMA DocsStep ==
  ASSUME TypeInv, [Next]_vars
  PROVE  \/ \E b \in Batch : \E acc \in SUBSET bulk[b] : StoreItems(acc) /\ Post(b)
         \/ /\ UNCHANGED <<seen, storedAt>>
            /\ \A i \in Index : docs'[i] \subseteq docs[i]
  <1>1. CASE \E b \in Batch : Post(b)
    BY <1>1 DEF Post
  <1>2. CASE ~\E b \in Batch : Post(b)
    <2>1. UNCHANGED <<seen, storedAt>>
      BY <1>2 DEF Next, LogsToES, Deliver, Transform, TransformThrows, Transformed,
                  LogsCrash, RolloverSteps, RolloverStart, RolloverKey, CreateAlias,
                  Rollover, RolloverEnd, RolloverCrash, DeleteSteps, DeleteStart,
                  DeleteKey, DeleteEnd, DeleteCrash, Snapshot, NextDay, vars, history
    <2>2. \A i \in Index : docs'[i] \subseteq docs[i]
      BY <1>2, ClusterSteps DEF es, CreateAlias, RollOver, Drop, TypeInv, TypeOK
    <2> QED
      BY <2>1, <2>2
  <1> QED
    BY <1>1, <1>2

\* A snapshot that does not fail saves all there is.
LEMMA UnsavedStep ==
  ASSUME KeepInv, NoFault, NoFault', RolloverAge + 1 < Retention, [Next]_vars
  PROVE  UnsavedFresh'
  <1> SUFFICES ASSUME NEW i \in live', NEW e \in docs'[i], e \notin saved'
               PROVE  Fresh(i)'
    BY DEF UnsavedFresh
  <1>1. /\ Calendar /\ TypeInv /\ RolloverAge \in Nat /\ now \in Nat
        /\ \A j \in live : j \in Index /\ Age(j) \in Int /\ born[j] \in Nat
    BY KeepFacts
  <1>2. i \in Index
    BY <1>1, TypeStep DEF TypeInv, TypeOK
  <1>3. i \in live /\ e \in docs[i] /\ e \notin saved => Fresh(i)
    BY DEF KeepInv, UnsavedFresh
  <1>4. CASE NextDay
    <2>1. /\ i \in live /\ e \in docs[i] /\ e \notin saved /\ due = {} /\ due' # {}
          /\ now' = now + 1 /\ born' = born
      BY <1>4 DEF NextDay, es, Job
    <2>2. Age(i) <= RolloverAge
      BY <1>3, <2>1 DEF Fresh
    <2> QED
      BY <1>1, <2>1, <2>2 DEF Fresh, Age
  <1>5. CASE now' = now
    <2>1. saved \subseteq saved'
      BY DEF Next, LogsToES, Deliver, Transform, TransformThrows, Transformed, Post,
             LogsCrash, RolloverSteps, RolloverStart, RolloverKey, CreateAlias,
             Rollover, RolloverEnd, RolloverCrash, DeleteSteps, DeleteStart,
             DeleteKey, DeleteEnd, DeleteCrash, Snapshot, NextDay, vars
    <2>2. CASE i \in live /\ e \in docs[i]
      <3>1. ~Snapshot
        BY <1>1, <2>2, FaultAdds DEF Snapshot, Stored, NoFault
      <3> QED
        BY <1>3, <1>5, <2>1, <2>2, <3>1, FreshStays
    <2>3. CASE i \notin live
      BY <1>5, <2>3, FreshStays
    <2>4. CASE i \in live /\ e \notin docs[i]
      <3>1. PICK b \in Batch : \E acc \in SUBSET bulk[b] : StoreItems(acc) /\ Post(b)
        BY <1>1, <1>2, <2>4, DocsStep
      <3>2. PICK x \in bulk[b] : x[2] = i
        BY <1>2, <2>4, <3>1 DEF StoreItems
      <3>3. Fresh(i)
        BY <2>4, <3>2 DEF KeepInv, BulkFresh
      <3>4. ~(Snapshot /\ due # {})
        BY <3>1 DEF Snapshot, Post, clock
      <3> QED
        BY <1>5, <3>3, <3>4, FreshStays
    <2> QED
      BY <2>2, <2>3, <2>4
  <1> QED
    BY <1>1, <1>4, <1>5, ClockSteps

\* An event is stored, or stored again, while its index is fresh.
LEMMA InTimeStep ==
  ASSUME KeepInv, NoFault, RolloverAge + 1 < Retention, [Next]_vars
  PROVE  InTime'
  <1>1. /\ Calendar /\ TypeInv /\ RolloverAge \in Nat /\ now \in Nat
        /\ \A j \in live : j \in Index /\ Age(j) \in Int /\ born[j] \in Nat
        /\ \A e \in Event : storedAt[e] \in Nat /\ storedAt[e] <= now
        /\ \A j \in live : \A e \in docs[j] :
             e \in seen /\ storedAt[e] <= born[j] + RolloverAge + 1
    BY KeepFacts DEF KeepInv, InTime, TypeInv, TypeOK
  <1>2. /\ live' \subseteq Index
        /\ \A i \in live \cap live' : born'[i] = born[i]
        /\ \A i \in live' \ live : born'[i] = now
    BY <1>1, TypeStep, DatesStay DEF TypeInv, TypeOK
  <1>3. CASE /\ UNCHANGED <<seen, storedAt>>
             /\ \A i \in Index : docs'[i] \subseteq docs[i]
    <2>1. \A i \in live' : i \notin live => docs[i] = {}
      BY <1>1, <1>2 DEF Calendar, Blank
    <2>2. now' = now \/ now' = now + 1
      BY <1>1, ClockSteps DEF NextDay
    <2> QED
      BY <1>1, <1>2, <1>3, <2>1, <2>2 DEF InTime
  <1>4. ASSUME NEW b \in Batch, NEW acc \in SUBSET bulk[b], StoreItems(acc), Post(b)
        PROVE  InTime'
    <2>1. now' = now
      BY <1>4 DEF Post, clock
    <2>2. \A e \in Event : storedAt'[e] = now \/ storedAt'[e] = storedAt[e]
      BY <1>4 DEF StoreItems
    <2>3. \A e \in Event : storedAt'[e] \in Nat /\ storedAt'[e] <= now
      BY <1>1, <2>2
    <2>4. ASSUME NEW i \in live', NEW e \in docs'[i]
          PROVE  e \in seen' /\ storedAt'[e] <= born'[i] + RolloverAge + 1
      <3>1. e \in Event /\ i \in Index
        BY <1>1, <1>2, TypeStep DEF TypeInv, TypeOK
      <3>2. CASE <<e, i>> \in acc
        <4>1. e \in seen'
          BY <1>4, <3>2 DEF StoreItems
        <4>2. CASE i \in live
          <5>1. Fresh(i)
            BY <3>2, <4>2 DEF KeepInv, BulkFresh
          <5>2. now <= born[i] + RolloverAge + 1 /\ born'[i] = born[i]
            BY <1>1, <1>2, <4>2, <5>1 DEF Fresh, Age
          <5> QED
            BY <1>1, <2>3, <3>1, <4>1, <4>2, <5>2
        <4>3. CASE i \notin live
          BY <1>1, <1>2, <2>3, <3>1, <4>1, <4>3
        <4> QED
          BY <4>2, <4>3
      <3>3. CASE <<e, i>> \notin acc
        <4>1. e \in docs[i]
          BY <1>4, <3>1, <3>3 DEF StoreItems
        <4>2. i \in live
          BY <1>1, <3>1, <4>1 DEF Calendar, Blank
        <4>3. e \in seen' /\ storedAt'[e] = storedAt[e]
          BY <1>1, <1>4, <3>1, <4>1, <4>2 DEF StoreItems
        <4> QED
          BY <1>1, <1>2, <4>1, <4>2, <4>3
      <3> QED
        BY <3>2, <3>3
    <2> QED
      BY <1>1, <2>1, <2>3, <2>4 DEF InTime
  <1> QED
    BY <1>1, <1>3, <1>4, DocsStep

\* The invariant of the refinement holds at the start.
LEMMA KeepInit == Init => KeepInv
  <1> SUFFICES ASSUME Init PROVE KeepInv
    OBVIOUS
  <1>1. RollInv
    BY RollInit
  <1> QED
    BY <1>1 DEF Init, KeepInv, NothingSlips, BulkFresh, UnsavedFresh, InTime

\* While nothing fails every step preserves the invariant of the refinement.
LEMMA KeepStep ==
  ASSUME DailyRollover, RolloverAge + 1 < Retention, KeepInv, NoFault, NoFault', [Next]_vars
  PROVE  KeepInv'
  <1>1. TypeInv
    BY KeepFacts
  <1>2. RollInv' /\ NothingSlips'
    BY <1>1, RollStep, NothingSlipsStep DEF KeepInv
  <1> QED
    BY <1>2, BulkFreshStep, UnsavedStep, InTimeStep DEF KeepInv

\* A reader sees of a state what is stored, what was ever indexed, the calendar,
\* the snapshots and the acknowledgements.
Acked == {b \in Batch : wpc[b] = "done"}

\* A step that changes neither what is stored nor what is acknowledged is a stutter.
LEMMA UnseenStep ==
  ASSUME UNCHANGED <<now, seen, storedAt, saved>>, Stored' = Stored, Acked' = Acked
  PROVE  UNCHANGED Kept!storeVars
  BY DEF Kept!storeVars, Acked

\* Documents leave the store with their index, all of them in a snapshot and
\* old enough.
LEMMA DropExpires ==
  ASSUME KeepInv, NoFault, RolloverAge + 1 < Retention, NEW i \in Index, DeleteKey(i),
         Drop(i), AgeMay(dBorn[i], Retention)
  PROVE  \E events \in SUBSET Event : Kept!Expire(events)
  <1>1. PICK gone : gone = Stored \ Stored'
    OBVIOUS
  <1>2. /\ Calendar /\ TypeInv /\ RolloverAge \in Nat /\ Retention \in Nat /\ now \in Nat
        /\ \A j \in live : j \in Index /\ Age(j) \in Int /\ born[j] \in Nat
    BY KeepFacts
  <1>3. i \in live /\ Age(i) >= Retention
    BY <1>2, DropsOld
  <1>4. Stored' \subseteq Stored /\ gone \subseteq docs[i] /\ gone \subseteq Event
    BY <1>1, <1>2 DEF Drop, Stored, TypeInv, TypeOK
  <1>5. docs[i] \subseteq saved
    BY <1>2, <1>3 DEF KeepInv, UnsavedFresh, Fresh
  <1>6. Stored \subseteq seen
    BY DEF KeepInv, InTime, Stored
  <1>7. ASSUME NEW e \in gone
        PROVE  e \in saved /\ now - storedAt[e] >= Retention - (RolloverAge + 1)
    <2>1. storedAt[e] <= born[i] + RolloverAge + 1 /\ storedAt[e] \in Nat
      BY <1>2, <1>3, <1>4 DEF KeepInv, InTime, TypeInv, TypeOK
    <2> QED
      BY <1>2, <1>3, <1>4, <1>5, <2>1 DEF Age
  <1>8. UNCHANGED <<now, seen, storedAt, saved, wpc>>
    BY DEF DeleteKey, clock, history, logVars
  <1>9. \A e \in Event : e \in Stored' <=> e \in Stored /\ e \notin gone
    BY <1>1, <1>4
  <1>10. \A e \in gone : e \in Stored /\ e \in seen
    BY <1>1, <1>6
  <1>11. Kept!Expire(gone)
    BY <1>4, <1>7, <1>8, <1>9, <1>10 DEF Kept!Expire
  <1> QED
    BY <1>4, <1>11

\* A bulk request that succeeds stores its events and acknowledges its batch.
LEMMA PostStores ==
  ASSUME KeepInv, NoFault, RolloverAge + 1 < Retention, NEW b \in Batch, Post(b),
         StoreItems(bulk[b]), wpc' = [wpc EXCEPT ![b] = "done"]
  PROVE  \E events \in SUBSET Event, batches \in SUBSET Batch : Kept!Store(events, batches)
  <1> DEFINE events == Queued(b)
  <1>1. TypeInv /\ Calendar
    BY KeepFacts
  <1>2. \A x \in bulk[b] : x[1] \in Event /\ x[2] \in Index /\ x = <<x[1], x[2]>>
    BY <1>1 DEF TypeInv, TypeOK
  <1>3. events \subseteq Event /\ events = {x[1] : x \in bulk[b]}
    BY <1>2 DEF Queued
  <1>4. \A e \in Event : e \in Stored' <=> e \in Stored \/ e \in events
    <2>1. ASSUME NEW e \in events
          PROVE  e \in Stored'
      <3>1. PICK x \in bulk[b] : x[1] = e
        BY <1>3
      <3>2. x[2] \in live' /\ e \in docs'[x[2]]
        BY <1>2, <3>1 DEF StoreItems
      <3> QED
        BY <3>2 DEF Stored
    <2>2. ASSUME NEW e \in Stored
          PROVE  e \in Stored'
      <3>1. PICK i \in live : e \in docs[i]
        BY DEF Stored
      <3>2. i \in live' /\ e \in docs'[i]
        BY <1>1, <3>1 DEF StoreItems, TypeInv, TypeOK
      <3> QED
        BY <3>2 DEF Stored
    <2>3. ASSUME NEW e \in Stored', e \notin events
          PROVE  e \in Stored
      <3>1. PICK i \in live' : e \in docs'[i]
        BY DEF Stored
      <3>2. i \in Index
        BY <1>1, <1>2 DEF StoreItems, TypeInv, TypeOK
      <3>3. e \in docs[i]
        BY <1>3, <2>3, <3>1, <3>2 DEF StoreItems
      <3>4. i \in live
        BY <1>1, <3>2, <3>3 DEF Calendar, Blank
      <3> QED
        BY <3>3, <3>4 DEF Stored
    <2> QED
      BY <2>1, <2>2, <2>3
  <1>5. Stored \subseteq seen /\ seen' = seen \cup events
    BY <1>3 DEF KeepInv, InTime, Stored, StoreItems
  <1>6. storedAt' = [e \in Event |-> IF e \in events \ seen THEN now ELSE storedAt[e]]
    BY <1>3 DEF StoreItems
  <1>7. Content[b] \ Foreign \subseteq events
    BY DEF KeepInv, NothingSlips, Post
  <1>8. now' = now /\ saved' = saved /\ Acked' = Acked \cup {b}
    BY <1>1 DEF Post, clock, Acked, TypeInv, TypeOK
  <1> HIDE DEF events
  <1>9. Kept!Store(events, {b})
    BY <1>4, <1>5, <1>6, <1>7, <1>8, DataAssumption DEF Kept!Store, Acked
  <1> QED
    BY <1>3, <1>9

\* A batch with nothing to index is acknowledged for what it is.
LEMMA EmptyIsAcked ==
  ASSUME KeepInv, NoFault, RolloverAge + 1 < Retention, NEW b \in Batch, Transformed(b),
         bulk[b] = {}
  PROVE  \E events \in SUBSET Event, batches \in SUBSET Batch : Kept!Store(events, batches)
  <1>1. TypeInv
    BY KeepFacts
  <1>2. Content[b] \ Foreign \subseteq {}
    <2>1. Queued(b) = {}
      BY DEF Queued
    <2> QED
      BY <2>1 DEF KeepInv, NothingSlips, Transformed
  <1>3. /\ UNCHANGED <<now, seen, storedAt, saved>> /\ Stored' = Stored
        /\ Acked' = Acked \cup {b}
    BY <1>1 DEF Transformed, clock, history, es, Stored, Acked, TypeInv, TypeOK
  <1>4. Kept!Store({}, {b})
    BY <1>1, <1>2, <1>3 DEF Kept!Store, Acked, TypeInv, TypeOK
  <1> QED
    BY <1>4

\* While nothing fails every step of the pipeline is one of LogStore, or none
\* that its reader sees.
LEMMA KeptStep ==
  ASSUME KeepInv, NoFault, NoFault', RolloverAge + 1 < Retention, [Next]_vars
  PROVE  [Kept!StoreNext]_(Kept!storeVars)
  <1>1. TypeInv /\ Calendar
    BY KeepFacts
  <1>2. ~Fault
    BY <1>1, FaultAdds DEF NoFault
  <1> USE DEF clock, history, es, Kept!StoreNext
  <1>3. ASSUME NEW b \in Batch, Deliver(b) \/ \E e \in Event : Transform(b, e)
        PROVE  UNCHANGED Kept!storeVars
    <2>1. UNCHANGED <<now, seen, storedAt, saved>> /\ Stored' = Stored /\ Acked' = Acked
      BY <1>1, <1>3 DEF Deliver, Transform, Stored, Acked, TypeInv, TypeOK
    <2> QED
      BY <2>1, UnseenStep
  <1>4. ASSUME NEW b \in Batch, NEW e \in Event, TransformThrows(b, e)
        PROVE  UNCHANGED Kept!storeVars
    <2>1. UNCHANGED <<now, seen, storedAt, saved>> /\ Stored' = Stored
      BY <1>4 DEF TransformThrows, Stored
    <2>2. wpc[b] = "transform" /\ wpc'[b] # "done" /\ \A c \in Batch \ {b} : wpc'[c] = wpc[c]
      BY <1>1, <1>4, EndAttemptOthers DEF TransformThrows
    <2> QED
      BY <2>1, <2>2, UnseenStep DEF Acked
  <1>5. ASSUME NEW b \in Batch, Transformed(b)
        PROVE  [Kept!StoreNext]_(Kept!storeVars)
    <2>1. CASE bulk[b] = {}
      BY <1>5, <2>1, EmptyIsAcked
    <2>2. CASE bulk[b] # {}
      <3>1. UNCHANGED <<now, seen, storedAt, saved>> /\ Stored' = Stored /\ Acked' = Acked
        BY <1>1, <1>5, <2>2 DEF Transformed, Stored, Acked, TypeInv, TypeOK
      <3> QED
        BY <3>1, UnseenStep
    <2> QED
      BY <2>1, <2>2
  <1>6. ASSUME NEW b \in Batch, Post(b)
        PROVE  Kept!StoreNext
    BY <1>2, <1>6, PostStores DEF Post
  <1>7. CASE LogsToES
    BY <1>2, <1>3, <1>4, <1>5, <1>6, <1>7 DEF LogsToES, LogsCrash
  <1>8. CASE RolloverSteps \/ RolloverCrash
    <2>1. UNCHANGED <<now, seen, storedAt, saved>> /\ Acked' = Acked
      BY <1>8 DEF RolloverSteps, RolloverStart, RolloverKey, CreateAlias, Rollover,
                  RolloverEnd, RolloverCrash, logVars, Acked
    <2>2. ASSUME NEW w \in WriteIndices(rKey[1]), RollOver(w)
          PROVE  Stored' = Stored
      <3>1. docs[Following(w)] = {}
        BY <1>1, <2>2 DEF RollOver, Calendar, Blank
      <3> QED
        BY <2>2, <3>1 DEF RollOver, Stored
    <2>3. Stored' = Stored
      <3>1. CASE UNCHANGED <<live, docs>>
        BY <3>1 DEF Stored
      <3> QED
        BY <1>8, <2>2, <3>1
        DEF RolloverSteps, RolloverStart, RolloverKey, CreateAlias, Rollover,
            RolloverRequest, RolloverEnd, RolloverCrash
    <2> QED
      BY <2>1, <2>3, UnseenStep
  <1>9. CASE DeleteSteps \/ DeleteCrash
    <2>1. CASE UNCHANGED es
      <3>1. UNCHANGED <<now, seen, storedAt, saved>> /\ Stored' = Stored /\ Acked' = Acked
        BY <1>9, <2>1 DEF DeleteSteps, DeleteStart, DeleteKey, DeleteEnd, DeleteCrash,
                          logVars, Stored, Acked
      <3> QED
        BY <3>1, UnseenStep
    <2>2. CASE ~UNCHANGED es
      <3>1. PICK i \in Index : DeleteKey(i) /\ Drop(i) /\ AgeMay(dBorn[i], Retention)
        BY <1>9, <2>2 DEF DeleteSteps, DeleteStart, DeleteKey, DeleteEnd, DeleteCrash
      <3> QED
        BY <3>1, DropExpires
    <2> QED
      BY <2>1, <2>2
  <1>10. CASE Snapshot
    <2>1. saved' = saved \cup Stored /\ UNCHANGED <<now, seen, storedAt, live, docs, wpc>>
      BY <1>2, <1>10 DEF Snapshot, logVars
    <2>2. Stored' = Stored /\ Stored \subseteq Event
      BY <1>1, <2>1 DEF Stored, TypeInv, TypeOK
    <2>3. Kept!Save
      BY <2>1, <2>2 DEF Kept!Save
    <2> QED
      BY <2>3
  <1>11. CASE NextDay
    <2>1. now' = now + 1 /\ UNCHANGED <<saved, seen, storedAt, live, docs, wpc>>
      BY <1>11 DEF NextDay, logVars
    <2>2. Kept!Tomorrow
      BY <2>1 DEF Kept!Tomorrow, Stored
    <2> QED
      BY <2>2
  <1>12. CASE UNCHANGED vars
    <2>1. UNCHANGED <<now, seen, storedAt, saved>> /\ Stored' = Stored /\ Acked' = Acked
      BY <1>12 DEF vars, logVars, Stored, Acked
    <2> QED
      BY <2>1, UnseenStep
  <1> QED
    BY <1>7, <1>8, <1>9, <1>10, <1>11, <1>12 DEF Next

\* At first the store is empty.
LEMMA KeptInit == Init => Kept!StoreInit
  BY DEF Init, Kept!StoreInit, Stored

\* While nothing fails, LogsToES, Rollover, Delete_Old_Logs and Snapshot keep
\* together what LogStore promises a reader: what is acknowledged is stored, and
\* what is stored is kept for the retention less the rollover age and a day, and
\* goes only when a snapshot holds it.  No function checks any of this: it rests
\* on when each of them runs.
THEOREM LogsAreKept ==
  ASSUME DailyRollover, RolloverAge + 1 < Retention
  PROVE  Spec /\ [](faults = 0) => KeptAsPromised
  <1>1. Init => KeepInv /\ Kept!StoreInit
    BY KeepInit, KeptInit
  <1>2. KeepInv /\ NoFault /\ NoFault' /\ [Next]_vars => KeepInv'
    BY KeepStep
  <1>3. KeepInv /\ NoFault /\ NoFault' /\ [Next]_vars =>
          [Kept!StoreNext]_(Kept!storeVars)
    BY KeptStep
  <1>4. NoFault <=> faults = 0
    BY DEF NoFault
  <1> QED
    BY <1>1, <1>2, <1>3, <1>4, PTL DEF Spec, KeptAsPromised, Kept!StoreSpec
=============================================================================
