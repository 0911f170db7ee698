------------------------- MODULE RdsSnapshotsProofs -------------------------
(***************************************************************************)
(* Proofs about RdsSnapshots for every set of snapshots, every retention,   *)
(* page size, export limit and number of attempts.                          *)
(***************************************************************************)
EXTENDS RdsSnapshots, TLAPS

-----------------------------------------------------------------------------
(* The parts of the inductive invariant                                     *)

\* Between attempts a job has one left and nothing selected, and it is between
\* attempts when the day is over.
Paused ==
  /\ ~running => attempt < MaxAttempts /\ selected = {}
  /\ stage = "over" => ~running

\* The jobs only know snapshots that were taken.
OnlyMade ==
  /\ live \subseteq made /\ selected \subseteq made
  /\ \A j \in DailyJob : shown[j] \subseteq made

\* What delete has selected is past the retention, and stays so.
SelectedExpired == stage = "delete" => \A s \in selected : ExpiredForDelete(s)

\* Of what archive was shown and found old enough, all has a task or is yet to
\* get one; once archive is over, all has a task.
ArchiveCovers ==
  \A s \in shown["archive"] : ExpiredForArchive(s) =>
    /\ stage = "archive" /\ running => s \in selected \/ task[s] # "none"
    /\ stage \in {"delete", "over"} => task[s] # "none"

TypeInv == TypeOK /\ Paused /\ OnlyMade

\* Of what delete was shown and found old enough, what is left is still selected
\* by the attempt under way; before an attempt delete was shown nothing.
DeleteCovers ==
  /\ stage = "archive" \/ (stage = "delete" /\ ~running) => shown["delete"] = {}
  /\ \A s \in live \cap shown["delete"] : ExpiredForDelete(s) =>
       stage = "delete" /\ running /\ s \in selected

-----------------------------------------------------------------------------
(* Type correctness                                                         *)

\* No listing makes a snapshot up.
LEMMA ListingsAreLive == \A listing \in Listings : listing \subseteq live
  BY DEF Listings, OfKind

\* The initial state has the type, no attempt under way and no snapshot.
LEMMA TypeInit == Init => TypeInv
  <1> SUFFICES ASSUME Init PROVE TypeInv
    OBVIOUS
  <1>1. TypeOK
    <2>1. 0 \in 0 .. MaxFaults /\ 0 \in 0 .. MaxAttempts
      BY LimitAssumption
    <2> QED
      BY <2>1 DEF Init, TypeOK
  <1>2. Paused
    BY LimitAssumption DEF Init, Paused
  <1>3. OnlyMade
    BY DEF Init, OnlyMade
  <1> QED
    BY <1>1, <1>2, <1>3 DEF TypeInv

\* A fault is one of at most MaxFaults.
LEMMA FaultType == TypeOK /\ Fault => faults' \in 0 .. MaxFaults
  BY LimitAssumption DEF TypeOK, Fault

\* A failed attempt leaves the jobs well-typed and between attempts.
LEMMA RaiseType ==
  ASSUME TypeInv, NEW j \in DailyJob, stage = j, running, Raise(j)
  PROVE  /\ stage' \in DailyJob \cup {"over"} /\ attempt' \in 0 .. MaxAttempts
         /\ running' = FALSE /\ selected' = {}
         /\ shown' \in [DailyJob -> SUBSET Snap]
         /\ \A k \in DailyJob : shown'[k] \subseteq made
         /\ attempt' < MaxAttempts
  BY LimitAssumption DEF TypeInv, TypeOK, OnlyMade, DailyJob, Raise, EndJob

\* Every step keeps the type.
LEMMA TypeStep == TypeInv /\ [Next]_vars => TypeInv'
  <1> SUFFICES ASSUME TypeInv, [Next]_vars
               PROVE  TypeInv'
    OBVIOUS
  <1> USE DEF crrVars, rds, jobVars
  <1>1. ASSUME NEW s \in Snap, CrrSnapshot(s)
        PROVE  TypeInv'
    BY <1>1 DEF TypeInv, TypeOK, Paused, OnlyMade, CrrSnapshot
  <1>2. ASSUME NEW s \in Snap, CrrCopy(s) \/ CrrFail(s)
        PROVE  TypeInv'
    <2>1. faults' \in 0 .. MaxFaults
      BY <1>2, FaultType DEF CrrCopy, CrrFail, TypeInv, TypeOK
    <2> QED
      BY <1>2, <2>1 DEF TypeInv, TypeOK, Paused, OnlyMade, CrrCopy, CrrFail
  <1>3. ASSUME NEW j \in DailyJob, StartJob(j)
        PROVE  TypeInv'
    <2>1. PICK listing \in Listings :
            /\ shown' = [shown EXCEPT ![j] = listing]
            /\ selected' \subseteq listing
      BY <1>3 DEF StartJob
    <2>2. listing \subseteq live
      BY ListingsAreLive
    <2>3. shown' \in [DailyJob -> SUBSET Snap] /\ selected' \subseteq Snap
      BY <2>1, <2>2 DEF TypeInv, TypeOK
    <2>4. attempt' \in 0 .. MaxAttempts /\ stage' \in DailyJob
      BY <1>3, LimitAssumption DEF StartJob, TypeInv, TypeOK, Paused
    <2>5. OnlyMade'
      BY <1>3, <2>1, <2>2 DEF StartJob, TypeInv, TypeOK, OnlyMade
    <2> QED
      BY <1>3, <2>3, <2>4, <2>5 DEF StartJob, TypeInv, TypeOK, Paused, DailyJob
  <1>4. ASSUME NEW j \in DailyJob, FinishJob(j)
        PROVE  TypeInv'
    <2>1. attempt' = 0 /\ stage' \in DailyJob \cup {"over"}
      BY <1>4 DEF FinishJob, EndJob, DailyJob
    <2>2. 0 \in 0 .. MaxAttempts /\ 0 < MaxAttempts
      BY LimitAssumption
    <2> QED
      BY <1>4, <2>1, <2>2 DEF FinishJob, TypeInv, TypeOK, Paused, OnlyMade
  <1>5. ASSUME NEW s \in Snap, ArchiveOne(s)
        PROVE  TypeInv'
    <2>1. /\ task' \in [Snap -> {"none", "running", "complete", "failed"}]
          /\ faults' \in 0 .. MaxFaults
      <3>1. faults' = faults \/ Fault
        BY <1>5 DEF ArchiveOne
      <3>2. task' = task \/ task' = [task EXCEPT ![s] = "running"]
        BY <1>5 DEF ArchiveOne
      <3> QED
        BY <3>1, <3>2, FaultType DEF TypeInv, TypeOK
    <2>2. "archive" \in DailyJob
      BY DEF DailyJob
    <2>3. CASE Raise("archive")
      BY <1>5, <2>1, <2>2, <2>3, RaiseType
      DEF ArchiveOne, TypeInv, TypeOK, Paused, OnlyMade
    <2>4. CASE ~Raise("archive")
      BY <1>5, <2>1, <2>4 DEF ArchiveOne, TypeInv, TypeOK, Paused, OnlyMade
    <2> QED
      BY <2>3, <2>4
  <1>6. ASSUME NEW s \in Snap, DeleteOne(s)
        PROVE  TypeInv'
    <2>1. live' \subseteq live /\ faults' \in 0 .. MaxFaults
      <3>1. faults' = faults \/ Fault
        BY <1>6 DEF DeleteOne
      <3> QED
        BY <1>6, <3>1, FaultType DEF DeleteOne, TypeInv, TypeOK
    <2>2. "delete" \in DailyJob
      BY DEF DailyJob
    <2>3. CASE Raise("delete")
      BY <1>6, <2>1, <2>2, <2>3, RaiseType
      DEF DeleteOne, TypeInv, TypeOK, Paused, OnlyMade
    <2>4. CASE ~Raise("delete")
      BY <1>6, <2>1, <2>4 DEF DeleteOne, TypeInv, TypeOK, Paused, OnlyMade
    <2> QED
      BY <2>3, <2>4
  <1>7. ASSUME NEW j \in DailyJob, JobFails(j)
        PROVE  TypeInv'
    BY <1>7, RaiseType, FaultType DEF JobFails, TypeInv, TypeOK, Paused, OnlyMade
  <1>8. ASSUME NEW s \in Snap, ExportEnds(s)
        PROVE  TypeInv'
    <2>1. /\ task' \in [Snap -> {"none", "running", "complete", "failed"}]
          /\ faults' \in 0 .. MaxFaults
      <3>1. faults' = faults \/ Fault
        BY <1>8 DEF ExportEnds
      <3> QED
        BY <1>8, <3>1, FaultType DEF ExportEnds, TypeInv, TypeOK
    <2> QED
      BY <1>8, <2>1 DEF ExportEnds, TypeInv, TypeOK, Paused, OnlyMade
  <1>9. CASE NextDay
    BY <1>9 DEF NextDay, TypeInv, TypeOK, Paused, OnlyMade, DailyJob
  <1>10. CASE UNCHANGED vars
    BY <1>10 DEF vars, TypeInv, TypeOK, Paused, OnlyMade
  <1> QED
    BY <1>1, <1>2, <1>3, <1>4, <1>5, <1>6, <1>7, <1>8, <1>9, <1>10
    DEF Next, Crr, JobSteps

\* The snapshots, the export tasks and the jobs always have their types: no job
\* is invoked more than MaxAttempts times a day.
THEOREM SnapshotsTypeCorrect == Spec => []TypeOK
  <1>1. TypeInv => TypeOK
    BY DEF TypeInv
  <1> QED
    BY <1>1, TypeInit, TypeStep, PTL DEF Spec

-----------------------------------------------------------------------------
(* Nothing young is deleted                                                 *)

\* A selection made by delete only ages while the loop works on it.
LEMMA SelectedExpiredStep == TypeInv /\ SelectedExpired /\ [Next]_vars => SelectedExpired'
  <1> SUFFICES ASSUME TypeInv, SelectedExpired, [Next]_vars,
                      stage' = "delete", NEW s \in selected'
               PROVE  ExpiredForDelete(s)'
    BY DEF SelectedExpired
  <1> USE DEF crrVars, rds, jobVars, ExpiredForDelete
  <1>1. ASSUME NEW t \in Snap, CrrSnapshot(t)
        PROVE  ExpiredForDelete(s)'
    BY <1>1 DEF CrrSnapshot, SelectedExpired, TypeInv, TypeOK, OnlyMade
  <1>2. ASSUME NEW j \in DailyJob, StartJob(j)
        PROVE  ExpiredForDelete(s)'
    BY <1>2 DEF StartJob, DailyJob
  <1>3. ASSUME NEW j \in DailyJob, FinishJob(j) \/ JobFails(j)
        PROVE  ExpiredForDelete(s)'
    BY <1>3 DEF FinishJob, JobFails, Raise
  <1>4. ASSUME NEW t \in Snap, ArchiveOne(t) \/ DeleteOne(t)
        PROVE  ExpiredForDelete(s)'
    BY <1>4 DEF ArchiveOne, DeleteOne, Raise, SelectedExpired
  <1>5. CASE UNCHANGED <<now, date, stage, selected>>
    BY <1>5 DEF SelectedExpired
  <1> QED
    BY <1>1, <1>2, <1>3, <1>4, <1>5
    DEF Next, Crr, JobSteps, CrrCopy, CrrFail, ExportEnds, NextDay, vars

\* A snapshot that goes is one that delete had selected.
LEMMA GoneWasSelected ==
  ASSUME TypeInv, [Next]_vars, NEW s \in live, s \notin live'
  PROVE  stage = "delete" /\ s \in selected
  BY DEF Next, Crr, JobSteps, CrrSnapshot, CrrCopy, CrrFail, StartJob, FinishJob,
         ArchiveOne, DeleteOne, IsNext, JobFails, ExportEnds, NextDay, vars, rds

\* The delete function (rds-snapshot-delete-config) removes no snapshot whose
\* creation date is not retention_days ago, whatever fails and is retried.
THEOREM SnapshotsAreKept == Spec => KeptForRetention
  <1>1. Init => TypeInv /\ SelectedExpired
    BY TypeInit DEF Init, SelectedExpired
  <1>2. TypeInv /\ SelectedExpired /\ [Next]_vars => (TypeInv /\ SelectedExpired)'
    BY TypeStep, SelectedExpiredStep
  <1>3. TypeInv /\ SelectedExpired /\ [Next]_vars
          => [\A s \in Snap : s \in live /\ s \notin live' =>
                now - date[s] >= RetentionDays]_vars
    BY GoneWasSelected DEF SelectedExpired, ExpiredForDelete
  <1> QED
    BY <1>1, <1>2, <1>3, PTL DEF Spec, KeptForRetention

-----------------------------------------------------------------------------
(* What archive was shown is exported before it is deleted                  *)

\* Archive's loop drops from its selection only what has got a task, and gives
\* up its claim to have covered the listing when an attempt fails.
LEMMA ArchiveCoversStep == TypeInv /\ ArchiveCovers /\ [Next]_vars => ArchiveCovers'
  <1> SUFFICES ASSUME TypeInv, ArchiveCovers, [Next]_vars,
                      NEW s \in shown'["archive"], ExpiredForArchive(s)'
               PROVE  /\ stage' = "archive" /\ running' =>
                           s \in selected' \/ task'[s] # "none"
                      /\ stage' \in {"delete", "over"} => task'[s] # "none"
    BY DEF ArchiveCovers
  <1> DEFINE Goal == /\ stage' = "archive" /\ running' =>
                          s \in selected' \/ task'[s] # "none"
                     /\ stage' \in {"delete", "over"} => task'[s] # "none"
  <1> USE DEF crrVars, rds, jobVars, ExpiredForArchive, DailyJob
  <1>1. ASSUME NEW t \in Snap, CrrSnapshot(t)
        PROVE  Goal
    BY <1>1 DEF CrrSnapshot, ArchiveCovers, TypeInv, TypeOK, OnlyMade
  <1>2. CASE StartJob("archive")
    BY <1>2 DEF StartJob, TypeInv, TypeOK
  <1>3. CASE StartJob("delete")
    BY <1>3 DEF StartJob, ArchiveCovers, TypeInv, TypeOK
  <1>4. ASSUME NEW j \in DailyJob, FinishJob(j)
        PROVE  Goal
    BY <1>4 DEF FinishJob, EndJob, ArchiveCovers, TypeInv, TypeOK
  <1>5. ASSUME NEW j \in DailyJob, stage = j, running, Raise(j), UNCHANGED <<now, date>>,
               \A t \in Snap : task[t] # "none" => task'[t] # "none"
        PROVE  Goal
    BY <1>5 DEF Raise, EndJob, ArchiveCovers, TypeInv, TypeOK
  <1>6. ASSUME NEW t \in Snap, ArchiveOne(t)
        PROVE  Goal
    <2>1. CASE Raise("archive")
      BY <1>5, <1>6, <2>1 DEF ArchiveOne, TypeInv, TypeOK
    <2>2. CASE ~Raise("archive")
      BY <1>6, <2>2 DEF ArchiveOne, ArchiveCovers, TypeInv, TypeOK
    <2> QED
      BY <2>1, <2>2
  <1>7. ASSUME NEW t \in Snap, DeleteOne(t)
        PROVE  Goal
    <2>1. CASE Raise("delete")
      BY <1>5, <1>7, <2>1 DEF DeleteOne
    <2>2. CASE ~Raise("delete")
      BY <1>7, <2>2 DEF DeleteOne, ArchiveCovers
    <2> QED
      BY <2>1, <2>2
  <1>8. ASSUME NEW j \in DailyJob, JobFails(j)
        PROVE  Goal
    BY <1>5, <1>8 DEF JobFails
  <1>9. ASSUME NEW t \in Snap, ExportEnds(t)
        PROVE  Goal
    BY <1>9 DEF ExportEnds, ArchiveCovers, TypeInv, TypeOK
  <1>10. CASE NextDay
    BY <1>10 DEF NextDay
  <1>11. CASE UNCHANGED <<now, date, task, jobVars>>
    BY <1>11 DEF ArchiveCovers
  <1> QED
    BY <1>1, <1>2, <1>3, <1>4, <1>6, <1>7, <1>8, <1>9, <1>10, <1>11
    DEF Next, Crr, JobSteps, CrrCopy, CrrFail, vars

\* The archive and delete functions keep step: whatever the day's archive run
\* was shown, if it returned, has its export task before delete removes it.
THEOREM ExportsComeFirst == Spec => ExportedBeforeDeleted
  <1> DEFINE Inv == TypeInv /\ SelectedExpired /\ ArchiveCovers
  <1>1. Init => Inv
    BY TypeInit DEF Init, SelectedExpired, ArchiveCovers, DailyJob
  <1>2. Inv /\ [Next]_vars => Inv'
    BY TypeStep, SelectedExpiredStep, ArchiveCoversStep
  <1>3. Inv /\ [Next]_vars
          => [\A s \in shown["archive"] :
                s \in live /\ s \notin live' => task[s] # "none"]_vars
    BY GoneWasSelected
    DEF SelectedExpired, ArchiveCovers, ExpiredForDelete, ExpiredForArchive
  <1> QED
    BY <1>1, <1>2, <1>3, PTL DEF Spec, ExportedBeforeDeleted

-----------------------------------------------------------------------------
(* What delete was shown is gone                                            *)

\* Delete's loop drops from its selection only what it has deleted, and gives up
\* its claim to have swept the listing when an attempt fails.
LEMMA DeleteCoversStep == TypeInv /\ DeleteCovers /\ [Next]_vars => DeleteCovers'
  <1> SUFFICES ASSUME TypeInv, DeleteCovers, [Next]_vars
               PROVE  DeleteCovers'
    OBVIOUS
  <1> USE DEF crrVars, rds, jobVars, ExpiredForDelete, DailyJob
  <1>1. ASSUME NEW t \in Snap, CrrSnapshot(t)
        PROVE  DeleteCovers'
    BY <1>1 DEF CrrSnapshot, DeleteCovers, TypeInv, TypeOK, OnlyMade
  <1>2. CASE StartJob("archive")
    BY <1>2 DEF StartJob, DeleteCovers, TypeInv, TypeOK
  <1>3. CASE StartJob("delete")
    BY <1>3 DEF StartJob, DeleteCovers, TypeInv, TypeOK
  <1>4. ASSUME NEW j \in DailyJob, FinishJob(j)
        PROVE  DeleteCovers'
    BY <1>4 DEF FinishJob, EndJob, DeleteCovers, TypeInv, TypeOK
  <1>5. ASSUME NEW j \in DailyJob, stage = j, running, Raise(j), UNCHANGED <<now, date>>,
               live' \subseteq live
        PROVE  DeleteCovers'
    BY <1>5 DEF Raise, EndJob, DeleteCovers, TypeInv, TypeOK
  <1>6. ASSUME NEW t \in Snap, ArchiveOne(t)
        PROVE  DeleteCovers'
    <2>1. CASE Raise("archive")
      BY <1>5, <1>6, <2>1 DEF ArchiveOne
    <2>2. CASE ~Raise("archive")
      BY <1>6, <2>2 DEF ArchiveOne, DeleteCovers
    <2> QED
      BY <2>1, <2>2
  <1>7. ASSUME NEW t \in Snap, DeleteOne(t)
        PROVE  DeleteCovers'
    <2>1. CASE Raise("delete")
      BY <1>5, <1>7, <2>1 DEF DeleteOne
    <2>2. CASE ~Raise("delete")
      BY <1>7, <2>2 DEF DeleteOne, DeleteCovers
    <2> QED
      BY <2>1, <2>2
  <1>8. ASSUME NEW j \in DailyJob, JobFails(j)
        PROVE  DeleteCovers'
    BY <1>5, <1>8 DEF JobFails
  <1>9. CASE NextDay
    BY <1>9 DEF NextDay, DeleteCovers
  <1>10. CASE UNCHANGED <<now, live, date, jobVars>>
    BY <1>10 DEF DeleteCovers
  <1> QED
    BY <1>1, <1>2, <1>3, <1>4, <1>6, <1>7, <1>8, <1>9, <1>10
    DEF Next, Crr, JobSteps, CrrCopy, CrrFail, ExportEnds, vars

\* The delete function leaves nothing old behind of what its last attempt of the
\* day was shown, however many attempts failed before.
THEOREM DeleteSweeps == Spec => []SweptClean
  <1>1. Init => TypeInv /\ DeleteCovers
    BY TypeInit DEF Init, DeleteCovers, DailyJob
  <1>2. TypeInv /\ DeleteCovers /\ [Next]_vars => (TypeInv /\ DeleteCovers)'
    BY TypeStep, DeleteCoversStep
  <1>3. TypeInv /\ DeleteCovers => SweptClean
    <2> SUFFICES ASSUME TypeInv, DeleteCovers, stage = "over",
                        NEW s \in live \cap shown["delete"]
                 PROVE  now - date[s] < RetentionDays
      BY DEF SweptClean
    <2>1. ~ExpiredForDelete(s)
      BY DEF DeleteCovers
    <2>2. now \in Nat /\ date[s] \in Nat /\ RetentionDays \in Nat
      BY LimitAssumption DEF TypeInv, TypeOK
    <2> QED
      BY <2>1, <2>2 DEF ExpiredForDelete
  <1> QED
    BY <1>1, <1>2, <1>3, PTL DEF Spec

=============================================================================
