---------------------------- MODULE RdsSnapshots ----------------------------
(***************************************************************************)
(* The life of the manual RDS snapshots of one region.                      *)
(*                                                                          *)
(*   crr      hourly: takes a snapshot, waits for it, copies it to the DR   *)
(*            region (rds-cluster-crr-config, rds-instance-crr-config).     *)
(*   archive  daily at 03:00: starts an S3 export task for every snapshot   *)
(*            RetentionDays old (rds-snapshot-archive-config).              *)
(*   delete   daily at 05:00: deletes every snapshot RetentionDays old      *)
(*            (rds-snapshot-delete-config).                                 *)
(*                                                                          *)
(* archive and delete share nothing but RDS: each lists the snapshots for   *)
(* itself and works through its selection, cluster snapshots first, until   *)
(* a call fails.  Lambda then invokes it again, up to MaxAttempts times;    *)
(* 15 minutes an attempt, it is over before the other starts.  The listing  *)
(* is one step: what is old enough to be selected does not change under it. *)
(***************************************************************************)
EXTENDS Naturals, FiniteSets

CONSTANTS
  Snap,           \* snapshots by time stamp, numbers in the order of creation
  Kind,           \* [Snap -> {"cluster", "instance"}]
  RetentionDays,  \* retention_days of both functions
  PageSize,       \* MaxRecords of a listing
  ExportLimit,    \* export tasks RDS runs at a time
  MaxAttempts,    \* invocations of a failing asynchronous Lambda event
  MaxNow,         \* bound: last day
  MaxFaults       \* bound: calls that fail of themselves

ASSUME SnapAssumption ==
  /\ Snap \subseteq Nat
  /\ Kind \in [Snap -> {"cluster", "instance"}]
ASSUME LimitAssumption ==
  /\ RetentionDays \in Nat /\ PageSize \in Nat /\ ExportLimit \in Nat
  /\ MaxAttempts \in Nat \ {0} /\ MaxNow \in Nat /\ MaxFaults \in Nat

VARIABLES
  now, faults,
  made,      \* snapshots ever taken
  live,      \* those RDS holds
  date,      \* SnapshotCreateTime, in days
  task,      \* the export task of each: "none", "running", "complete", "failed"
  dr,        \* those with a copy in the DR region
  crr,       \* snapshots that a crr invocation waits for
  stage,     \* the job of the day: "archive", "delete", then "over"
  attempt,   \* its invocations so far
  running,   \* whether one is in its loop
  selected,  \* what that one has still to work on
  shown      \* what the last listing of each job returned; {} if it gave up

jobVars == <<stage, attempt, running, selected, shown>>
crrVars == <<made, dr, crr>>
rds == <<live, date, task>>
vars == <<now, faults, crrVars, rds, jobVars>>

DailyJob == {"archive", "delete"}
Fault == faults < MaxFaults /\ faults' = faults + 1

Init ==
  /\ now = 0 /\ faults = 0
  /\ made = {} /\ live = {} /\ dr = {} /\ crr = {}
  /\ date = [s \in Snap |-> 0]
  /\ task = [s \in Snap |-> "none"]
  /\ stage = "over" /\ attempt = 0 /\ running = FALSE /\ selected = {}
  /\ shown = [j \in DailyJob |-> {}]

-----------------------------------------------------------------------------
(* crr: create_db_(cluster_)snapshot, the waiter, copy_db_(cluster_)snapshot *)

CrrSnapshot(s) ==
  /\ s \notin made /\ \A t \in Snap : t < s => t \in made
  /\ made' = made \cup {s} /\ live' = live \cup {s} /\ crr' = crr \cup {s}
  /\ date' = [date EXCEPT ![s] = now]
  /\ UNCHANGED <<now, faults, dr, task, jobVars>>

CrrCopy(s) ==
  /\ s \in crr
  /\ crr' = crr \ {s} /\ dr' = dr \cup {s}
  /\ UNCHANGED <<now, faults, made, rds, jobVars>>

\* The waiter gives up (and its handler raises NameError: botocore is not
\* imported), the copy fails, or the 900 seconds are over.  The invocation is
\* retried, but a retry takes a snapshot of its own.
CrrFail(s) ==
  /\ s \in crr /\ Fault
  /\ crr' = crr \ {s}
  /\ UNCHANGED <<now, made, dr, rds, jobVars>>

-----------------------------------------------------------------------------
(* What archive and delete have in common                                   *)

OfKind(k) == {s \in live : Kind[s] = k}

\* What the two listings return: everything, unless there are more cluster
\* snapshots than a page.  The instances are then asked for with the marker of
\* the last cluster page, and RDS returns those it takes to be after it.
Listings ==
  IF Cardinality(OfKind("cluster")) <= PageSize THEN {live}
  ELSE {OfKind("cluster") \cup {s \in OfKind("instance") : s > m} : m \in {0} \cup Snap}

\* Cluster snapshots come first, and each kind in the order of its names.
Before(s, t) ==
  \/ Kind[s] = "cluster" /\ Kind[t] = "instance"
  \/ Kind[s] = Kind[t] /\ s <= t
IsNext(s) == s \in selected /\ \A t \in selected : Before(s, t)

\* The job of the day is over, and with it its attempts.
EndJob(j) ==
  /\ stage' = IF j = "archive" THEN "delete" ELSE "over"
  /\ attempt' = 0

\* Mutated form of Raise: one attempt too many.
RaiseOnceMore(j) ==
  /\ running' = FALSE /\ selected' = {}
  /\ shown' = [shown EXCEPT ![j] = {}]
  /\ IF attempt <= MaxAttempts THEN UNCHANGED <<stage, attempt>> ELSE EndJob(j)

\* Mutated form of Raise: a failed attempt is not counted.
RaiseUncounted(j) ==
  /\ running' = FALSE /\ selected' = {}
  /\ shown' = [shown EXCEPT ![j] = {}]
  /\ UNCHANGED stage /\ attempt' = 0

\* "raise": the attempt fails, and is repeated or was the last.
Raise(j) ==
  /\ running' = FALSE /\ selected' = {}
  /\ shown' = [shown EXCEPT ![j] = {}]
  /\ IF attempt < MaxAttempts THEN UNCHANGED <<stage, attempt>> ELSE EndJob(j)

\* Mutated forms of ExpiredForArchive and ExpiredForDelete: "<" for "<=", and
\* a day too soon.
LongExpired(s) == now - date[s] > RetentionDays
SoonExpired(s) == now + 1 - date[s] >= RetentionDays

\* SnapshotCreateTime.date() <= today - delta, in either function.
ExpiredForArchive(s) == now - date[s] >= RetentionDays
ExpiredForDelete(s) == now - date[s] >= RetentionDays

StartJob(j) ==
  /\ stage = j /\ ~running
  /\ attempt' = attempt + 1
  /\ running' = TRUE
  /\ \E listing \in Listings :
       /\ shown' = [shown EXCEPT ![j] = listing]
       /\ selected' = {s \in listing : IF j = "archive" THEN ExpiredForArchive(s)
                                       ELSE ExpiredForDelete(s)}
  /\ UNCHANGED <<now, faults, crrVars, rds, stage>>

\* The loop is done: the handler returns.
FinishJob(j) ==
  /\ stage = j /\ running /\ selected = {}
  /\ running' = FALSE
  /\ EndJob(j)
  /\ UNCHANGED <<now, faults, crrVars, rds, selected, shown>>

-----------------------------------------------------------------------------
(* The loops of archive and delete, and RDS' export tasks                   *)

Exporting == {s \in Snap : task[s] = "running"}

\* start_export_task under the name archive-task-<id>: RDS refuses a name it
\* has seen and a task beyond its limit.
Accepts(s) == task[s] = "none" /\ Cardinality(Exporting) < ExportLimit

\* One turn of archive's loop; a call that fails may still have had effect.
ArchiveOne(s) ==
  /\ stage = "archive" /\ running /\ IsNext(s)
  /\ \/ /\ Accepts(s)
        /\ task' = [task EXCEPT ![s] = "running"]
        /\ selected' = selected \ {s}
        /\ UNCHANGED <<faults, stage, attempt, running, shown>>
     \/ ~Accepts(s) /\ Raise("archive") /\ UNCHANGED <<task, faults>>
     \/ /\ Accepts(s) /\ Fault /\ Raise("archive")
        /\ task' \in {task, [task EXCEPT ![s] = "running"]}
  /\ UNCHANGED <<now, crrVars, live, date>>

\* Mutated form of DeleteOne: the loop ends at the first failure, as a success.
DeleteOneBreaking(s) ==
  /\ stage = "delete" /\ running /\ IsNext(s)
  /\ \/ live' = live \ {s} /\ selected' = selected \ {s} /\ UNCHANGED faults
     \/ live' = live /\ selected' = {} /\ Fault
  /\ UNCHANGED <<now, crrVars, date, task, stage, attempt, running, shown>>

\* One turn of delete's loop: nothing is asked about the export.
DeleteOne(s) ==
  /\ stage = "delete" /\ running /\ IsNext(s)
  /\ \/ /\ live' = live \ {s} /\ selected' = selected \ {s}
        /\ UNCHANGED <<faults, stage, attempt, running, shown>>
     \/ Fault /\ Raise("delete") /\ live' \in {live, live \ {s}}
  /\ UNCHANGED <<now, crrVars, date, task>>

\* The attempt times out, or a listing is refused.
JobFails(j) ==
  /\ stage = j /\ running /\ Fault /\ Raise(j)
  /\ UNCHANGED <<now, crrVars, rds>>

\* A task ends; it needs the snapshot no longer.
ExportEnds(s) ==
  /\ s \in Exporting
  /\ \/ task' = [task EXCEPT ![s] = "complete"] /\ UNCHANGED faults
     \/ task' = [task EXCEPT ![s] = "failed"] /\ Fault
  /\ UNCHANGED <<now, crrVars, live, date, jobVars>>

NextDay ==
  /\ stage = "over" /\ now < MaxNow
  /\ now' = now + 1 /\ stage' = "archive"
  /\ shown' = [j \in DailyJob |-> {}]
  /\ UNCHANGED <<faults, crrVars, rds, attempt, running, selected>>

Crr == \E s \in Snap : CrrSnapshot(s) \/ CrrCopy(s) \/ CrrFail(s)
JobSteps ==
  \/ \E j \in DailyJob : StartJob(j) \/ FinishJob(j)
  \/ \E s \in Snap : ArchiveOne(s) \/ DeleteOne(s)

Next ==
  \/ Crr
  \/ JobSteps
  \/ \E j \in DailyJob : JobFails(j)
  \/ \E s \in Snap : ExportEnds(s)
  \/ NextDay

Spec == Init /\ [][Next]_vars

\* Lambda runs what it started; exports, snapshots and days come as they will.
FairSpec == Spec /\ WF_vars(JobSteps)

-----------------------------------------------------------------------------
(* Properties                                                               *)

TypeOK ==
  /\ now \in Nat /\ faults \in 0 .. MaxFaults
  /\ made \in SUBSET Snap /\ live \in SUBSET Snap
  /\ dr \in SUBSET Snap /\ crr \in SUBSET Snap
  /\ date \in [Snap -> Nat]
  /\ task \in [Snap -> {"none", "running", "complete", "failed"}]
  /\ stage \in DailyJob \cup {"over"} /\ attempt \in 0 .. MaxAttempts
  /\ running \in BOOLEAN /\ selected \in SUBSET Snap
  /\ shown \in [DailyJob -> SUBSET Snap]

\* A snapshot stays for the retention: the delete function removes none whose
\* creation date is younger, in any attempt and after any failure.
KeptForRetention ==
  [][\A s \in Snap : s \in live /\ s \notin live' => now - date[s] >= RetentionDays]_vars

\* The two functions agree: when the day's archive run returned and its listing
\* showed a snapshot, delete removes that snapshot only with an export task.
ExportedBeforeDeleted ==
  [][\A s \in shown["archive"] :
       s \in live /\ s \notin live' => task[s] # "none"]_vars

\* When the day is over, no snapshot past the retention is left of those that
\* the delete function was shown in its last attempt.
SweptClean ==
  stage = "over" => \A s \in live \cap shown["delete"] : now - date[s] < RetentionDays

\* The day's jobs end, however their attempts fail.
DayEnds == stage = "archive" ~> stage = "over"

\* What the template says: "Snapshot Retention in days before export to S3",
\* for the bucket of the archive.  No snapshot goes without an export task.
ArchiveIsComplete ==
  [][\A s \in Snap : s \in live /\ s \notin live' => task[s] # "none"]_vars

=============================================================================
