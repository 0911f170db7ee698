------------------------------- MODULE ESLogs -------------------------------
(***************************************************************************)
(* The Elasticsearch log pipeline: four Lambda functions that share nothing *)
(* but the cluster's indices and aliases.                                   *)
(*                                                                          *)
(*   LogsToES         CloudWatch Logs delivers a batch of log events; every *)
(*                    event is indexed under its _id into the index that    *)
(*                    the service's alias "<env>_<ns>_<app>_logs_write"     *)
(*                    names as write index, or into "<alias>-00001".        *)
(*   Rollover         daily: gives every bare index its alias and rolls the *)
(*                    alias over when its write index is a day old.         *)
(*   Delete_Old_Logs  daily: deletes the indices older than the retention.  *)
(*   Snapshot         daily: snapshots the cluster.                         *)
(*                                                                          *)
(* An alias stands for one service; index <<a, n>> is "<a>-<n>".  A tick of *)
(* the clock is a day: an index born on day d has on day k an age in        *)
(* (k-d-1, k-d], plus the jitter of the cron jobs, so at equality an age    *)
(* test may go either way (AgeMay).  Every HTTP call that fails, and every  *)
(* invocation that dies, spends one of MaxFaults.                           *)
(***************************************************************************)
EXTENDS Naturals, FiniteSets

CONSTANTS
  Alias,        \* the services' write aliases
  Event,        \* log events, by their CloudWatch id
  Owner,        \* [Event -> Alias], from the event's namespace and app label
  Foreign,      \* events whose namespace fails filtering_namespace
  Malformed,    \* events whose message JSON.parse rejects
  Batch,        \* CloudWatch deliveries
  Content,      \* [Batch -> SUBSET Event]
  MaxAttempts,  \* deliveries of a batch before CloudWatch gives up
  RolloverAge,  \* max_age of the rollover request, in days
  Retention,    \* retention_period, in days
  MayStayWarm,  \* whether a Rollover container may serve two daily runs
  MaxSuffix,    \* bound: highest index number
  MaxNow,       \* bound: last day
  MaxFaults     \* bound: failed calls and dead invocations

ASSUME DataAssumption ==
  /\ Owner \in [Event -> Alias]
  /\ Content \in [Batch -> SUBSET Event]
  /\ Foreign \subseteq Event /\ Malformed \subseteq Event
  /\ MayStayWarm \in BOOLEAN

ASSUME NumberAssumption ==
  /\ MaxAttempts \in Nat \ {0} /\ MaxSuffix \in Nat \ {0}
  /\ RolloverAge \in Nat /\ Retention \in Nat
  /\ MaxNow \in Nat /\ MaxFaults \in Nat

Index == Alias \X (1 .. MaxSuffix)
Job == {"rollover", "delete", "snapshot"}

VARIABLES
  now,       \* the day
  due,       \* the daily jobs still to run today
  faults,    \* faults spent
  \* Elasticsearch
  live,      \* indices that exist
  born,      \* creation_date of each live index
  role,      \* "write": in its alias as write index, "read": in it, "none"
  docs,      \* the documents of each index, by _id
  saved,     \* documents some snapshot holds
  \* LogsToES invocations, one per batch
  wpc, attempt, todo, bulk,
  \* Rollover invocation; rolled is the module-level rolledIndices
  rpc, rTodo, rBare, rKey, rolled,
  \* Delete_Old_Logs invocation
  dpc, dTodo, dBorn,
  \* history: the day each event was first indexed
  seen, storedAt

clock == <<now, due>>
es == <<live, born, role, docs>>
history == <<seen, storedAt>>
logVars == <<wpc, attempt, todo, bulk>>
rollVars == <<rpc, rTodo, rBare, rKey, rolled>>
delVars == <<dpc, dTodo, dBorn>>
vars == <<clock, faults, es, saved, logVars, rollVars, delVars, history>>

NoKey == <<>>
FirstIndex(a) == <<a, 1>>
Following(i) == <<i[1], i[2] + 1>>
WriteIndices(a) == {i \in live : i[1] = a /\ role[i] = "write"}
Stored == UNION {docs[i] : i \in live}

\* An age test in whole days: certain beyond the limit, either way at it.
AgeMay(day, limit) == now - day >= limit
AgeMust(day, limit) == now - day > limit

Fault == faults < MaxFaults /\ faults' = faults + 1
InFlight == {b \in Batch : wpc[b] \in {"transform", "post"}}

Init ==
  /\ now = 0 /\ due = {} /\ faults = 0
  /\ live = {} /\ saved = {}
  /\ born = [i \in Index |-> 0]
  /\ role = [i \in Index |-> "none"]
  /\ docs = [i \in Index |-> {}]
  /\ wpc = [b \in Batch |-> "waiting"]
  /\ attempt = [b \in Batch |-> 0]
  /\ todo = [b \in Batch |-> {}]
  /\ bulk = [b \in Batch |-> {}]
  /\ rpc = "idle" /\ rTodo = {} /\ rBare = {} /\ rKey = NoKey /\ rolled = {}
  /\ dpc = "idle" /\ dTodo = {} /\ dBorn = [i \in Index |-> 0]
  /\ seen = {} /\ storedAt = [e \in Event |-> 0]

-----------------------------------------------------------------------------
(* LogsToES: handler, transform, getIndexName, post                         *)

\* CloudWatch Logs invokes the function, the first time or again.
Deliver(b) ==
  /\ wpc[b] = "waiting"
  /\ wpc' = [wpc EXCEPT ![b] = "transform"]
  /\ attempt' = [attempt EXCEPT ![b] = @ + 1]
  /\ todo' = [todo EXCEPT ![b] = Content[b]]
  /\ UNCHANGED <<clock, faults, es, saved, bulk, rollVars, delVars, history>>

\* The invocation fails: CloudWatch delivers the batch again, or drops it.
EndAttempt(b) ==
  /\ wpc' = [wpc EXCEPT ![b] = IF attempt[b] < MaxAttempts
                               THEN "waiting" ELSE "lost"]
  /\ todo' = [todo EXCEPT ![b] = {}]
  /\ bulk' = [bulk EXCEPT ![b] = {}]
  /\ UNCHANGED attempt

\* Mutated form of Resolved: the alias name is not compared.
ResolvedAnyAlias(a) ==
  LET writes == {i \in live : role[i] = "write"}
  IN  IF writes = {} THEN {FirstIndex(a)} ELSE writes

\* The index of getIndexName: the alias' write index as the cluster shows it
\* at this moment, or "" (no such index, or a failed call), read as -00001.
Resolved(a) ==
  IF WriteIndices(a) = {} THEN {FirstIndex(a)} ELSE WriteIndices(a)

\* One turn of transform's loop: filtered out, or named an index and put in
\* the bulk body.
Transform(b, e) ==
  /\ wpc[b] = "transform" /\ e \in todo[b] /\ e \notin Malformed
  /\ todo' = [todo EXCEPT ![b] = @ \ {e}]
  /\ \/ e \in Foreign /\ UNCHANGED <<bulk, faults>>
     \/ /\ e \notin Foreign
        /\ \E i \in Resolved(Owner[e]) :
             bulk' = [bulk EXCEPT ![b] = @ \cup {<<e, i>>}]
        /\ UNCHANGED faults
     \/ /\ e \notin Foreign /\ Fault
        /\ bulk' = [bulk EXCEPT ![b] = @ \cup {<<e, FirstIndex(Owner[e])>>}]
  /\ UNCHANGED <<clock, es, saved, wpc, attempt, rollVars, delVars, history>>

\* Mutated form of TransformThrows: the exception is caught, what the batch has
\* is dropped, and the loop starts over at the same event.
TransformThrowsCaught(b, e) ==
  /\ wpc[b] = "transform" /\ e \in todo[b] \cap Malformed
  /\ bulk' = [bulk EXCEPT ![b] = {}]
  /\ UNCHANGED <<clock, faults, es, saved, wpc, attempt, todo, rollVars, delVars,
                 history>>

\* JSON.parse throws inside the async callback: the invocation dies.
TransformThrows(b, e) ==
  /\ wpc[b] = "transform" /\ e \in todo[b] \cap Malformed
  /\ EndAttempt(b)
  /\ UNCHANGED <<clock, faults, es, saved, rollVars, delVars, history>>

\* The invocation times out or its runtime exits.
LogsCrash(b) ==
  /\ b \in InFlight /\ Fault
  /\ EndAttempt(b)
  /\ UNCHANGED <<clock, es, saved, rollVars, delVars, history>>

\* transform returns; an empty body is taken for a control message.
Transformed(b) ==
  /\ wpc[b] = "transform" /\ todo[b] = {}
  /\ wpc' = [wpc EXCEPT ![b] = IF bulk[b] = {} THEN "done" ELSE "post"]
  /\ UNCHANGED <<clock, faults, es, saved, attempt, todo, bulk, rollVars,
                 delVars, history>>

\* The cluster takes the bulk items in acc: same _id overwrites, a missing
\* index is created bare.
StoreItems(acc) ==
  LET into == {x[2] : x \in acc}
      events == {x[1] : x \in acc}
  IN  /\ live' = live \cup into
      /\ born' = [i \in Index |-> IF i \in into \ live THEN now ELSE born[i]]
      /\ docs' = [i \in Index |-> docs[i] \cup {e \in events : <<e, i>> \in acc}]
      /\ seen' = seen \cup events
      /\ storedAt' = [e \in Event |-> IF e \in events \ seen THEN now
                                      ELSE storedAt[e]]
      /\ UNCHANGED role

\* Mutated form of Post: info.errors is not looked at.
PostIgnoringItemErrors(b) ==
  /\ wpc[b] = "post"
  /\ \E acc \in SUBSET bulk[b] :
       /\ StoreItems(acc)
       /\ IF acc = bulk[b] THEN UNCHANGED faults ELSE Fault
  /\ wpc' = [wpc EXCEPT ![b] = "done"]
  /\ bulk' = [bulk EXCEPT ![b] = {}]
  /\ UNCHANGED <<attempt, todo, clock, saved, rollVars, delVars>>

\* post: succeeds only if the answer arrives, is a 200 and reports no errors.
Post(b) ==
  /\ wpc[b] = "post"
  /\ \/ /\ StoreItems(bulk[b])
        /\ wpc' = [wpc EXCEPT ![b] = "done"]
        /\ bulk' = [bulk EXCEPT ![b] = {}]
        /\ UNCHANGED <<faults, attempt, todo>>
     \/ \E acc \in SUBSET bulk[b] :
          Fault /\ StoreItems(acc) /\ EndAttempt(b)
  /\ UNCHANGED <<clock, saved, rollVars, delVars>>

LogsToES ==
  \E b \in Batch :
    \/ Deliver(b)
    \/ \E e \in Event : Transform(b, e) \/ TransformThrows(b, e)
    \/ Transformed(b)
    \/ Post(b)
    \/ LogsCrash(b)

-----------------------------------------------------------------------------
(* Rollover: handler, getIndices, createAlias, rollover                     *)

\* The daily run starts with getIndices: a copy of the cluster's state, or
\* nothing at all when the call fails.
RolloverStart ==
  /\ "rollover" \in due /\ rpc = "idle"
  /\ rpc' = "loop"
  /\ \/ rTodo' = live /\ rBare' = {i \in live : role[i] = "none"}
        /\ UNCHANGED faults
     \/ rTodo' = {} /\ rBare' = {} /\ Fault
  /\ UNCHANGED <<clock, es, saved, logVars, rKey, rolled, delVars, history>>

\* Mutated form of RolloverKey: a bare index is not given its alias.
RolloverKeyNoAlias(i) ==
  /\ rpc = "loop" /\ i \in rTodo
  /\ rTodo' = rTodo \ {i}
  /\ IF i[1] \in rolled THEN UNCHANGED <<rpc, rKey>>
                         ELSE rpc' = "roll" /\ rKey' = i
  /\ UNCHANGED <<clock, faults, es, saved, logVars, rBare, rolled, delVars,
                 history>>

\* The next key of the copy: skipped if its alias is in rolledIndices, given
\* its alias first if the copy shows it bare.
RolloverKey(i) ==
  /\ rpc = "loop" /\ i \in rTodo
  /\ rTodo' = rTodo \ {i}
  /\ IF i[1] \in rolled
     THEN UNCHANGED <<rpc, rKey>>
     ELSE /\ rpc' = IF i \in rBare THEN "alias" ELSE "roll"
          /\ rKey' = i
  /\ UNCHANGED <<clock, faults, es, saved, logVars, rBare, rolled, delVars,
                 history>>

\* createAlias: the cluster refuses a second write index and a missing index;
\* a refusal and a failed call both end in a rollover request all the same.
CreateAlias ==
  /\ rpc = "alias"
  /\ rpc' = "roll"
  /\ \/ /\ role' = IF rKey \in live /\ WriteIndices(rKey[1]) \subseteq {rKey}
                   THEN [role EXCEPT ![rKey] = "write"] ELSE role
        /\ UNCHANGED faults
     \/ Fault /\ UNCHANGED role
  /\ UNCHANGED <<clock, live, born, docs, saved, logVars, rTodo, rBare, rKey,
                 rolled, delVars, history>>

\* What _rollover does to write index w when its conditions are met.
RollOver(w) ==
  LET n == Following(w)
  IN  /\ n \in Index \ live
      /\ live' = live \cup {n}
      /\ born' = [born EXCEPT ![n] = now]
      /\ role' = [role EXCEPT ![w] = "read", ![n] = "write"]
      /\ UNCHANGED docs

\* The cluster's answer to POST /<alias>/_rollover: rolled over when due,
\* otherwise (too young, no such alias, next index exists) nothing.
RolloverRequest(a) ==
  \/ \E w \in WriteIndices(a) : AgeMay(born[w], RolloverAge) /\ RollOver(w)
  \/ /\ \A w \in WriteIndices(a) :
          Following(w) \in Index \ live => ~AgeMust(born[w], RolloverAge)
     /\ UNCHANGED es

\* Mutated form of Rollover: rolledIndices gets the index, not the alias.
RolloverPushingIndex ==
  /\ rpc = "roll"
  /\ rpc' = "loop"
  /\ RolloverRequest(rKey[1])
  /\ rolled' = rolled \cup {rKey}
  /\ UNCHANGED <<clock, faults, saved, logVars, rTodo, rBare, rKey, delVars, history>>

\* rollover: any answer puts the alias in rolledIndices, an error status too, and
\* then no other key of the alias asks again that day.  An answer that never
\* comes does not.  Either way the cluster may have done as asked.
Rollover ==
  /\ rpc = "roll"
  /\ rpc' = "loop"
  /\ \/ /\ RolloverRequest(rKey[1])
        /\ rolled' = rolled \cup {rKey[1]}
        /\ UNCHANGED faults
     \/ /\ RolloverRequest(rKey[1]) \/ UNCHANGED es
        /\ rolled' \in {rolled, rolled \cup {rKey[1]}}
        /\ Fault
  /\ UNCHANGED <<clock, saved, logVars, rTodo, rBare, rKey, delVars, history>>

\* Mutated form of RolloverEnd: rolledIndices survives into the next run.
RolloverEndKeepingList ==
  /\ rpc = "loop" /\ rTodo = {}
  /\ rpc' = "idle" /\ rKey' = NoKey /\ rBare' = {}
  /\ due' = due \ {"rollover"}
  /\ UNCHANGED <<now, faults, es, saved, logVars, rTodo, rolled, delVars,
                 history>>

\* The handler succeeds.  Its container, with rolledIndices, may be kept.
RolloverEnd ==
  /\ rpc = "loop" /\ rTodo = {}
  /\ rpc' = "idle" /\ rKey' = NoKey /\ rBare' = {}
  /\ due' = due \ {"rollover"}
  /\ rolled' \in {{}} \cup (IF MayStayWarm THEN {rolled} ELSE {})
  /\ UNCHANGED <<now, faults, es, saved, logVars, rTodo, delVars, history>>

\* The invocation dies with its container; it is retried, or out of retries.
RolloverCrash ==
  /\ rpc # "idle" /\ Fault
  /\ rpc' = "idle" /\ rKey' = NoKey /\ rBare' = {} /\ rTodo' = {}
  /\ rolled' = {}
  /\ due' \in {due, due \ {"rollover"}}
  /\ UNCHANGED <<now, es, saved, logVars, delVars, history>>

RolloverSteps ==
  \/ RolloverStart \/ CreateAlias \/ Rollover \/ RolloverEnd
  \/ \E i \in Index : RolloverKey(i)

-----------------------------------------------------------------------------
(* Delete_Old_Logs: handler, getIndices, delIndices                         *)

\* The daily run starts with a copy of the indices and their creation dates.
DeleteStart ==
  /\ "delete" \in due /\ dpc = "idle"
  /\ dpc' = "loop"
  /\ \/ /\ dTodo' = live
        /\ dBorn' = [i \in Index |-> IF i \in live THEN born[i] ELSE 0]
        /\ UNCHANGED faults
     \/ dTodo' = {} /\ Fault /\ UNCHANGED dBorn
  /\ UNCHANGED <<clock, es, saved, logVars, rollVars, history>>

\* DELETE /<index>: its documents and its alias entry go with it.
Drop(i) ==
  /\ live' = live \ {i}
  /\ role' = [role EXCEPT ![i] = "none"]
  /\ docs' = [docs EXCEPT ![i] = {}]
  /\ born' = [born EXCEPT ![i] = 0]

\* Mutated form of DeleteKey: the age is rounded up to whole days.
DeleteKeyEarly(i) ==
  /\ dpc = "loop" /\ i \in dTodo
  /\ dTodo' = dTodo \ {i}
  /\ \/ AgeMay(dBorn[i], Retention - 1) /\ Drop(i) /\ UNCHANGED faults
     \/ ~AgeMust(dBorn[i], Retention) /\ UNCHANGED <<es, faults>>
     \/ AgeMay(dBorn[i], Retention) /\ Fault /\ UNCHANGED es
  /\ UNCHANGED <<clock, saved, logVars, rollVars, dpc, dBorn, history>>

\* Mutated form of DeleteKey: the first index kept ends the loop.
DeleteKeyStops(i) ==
  /\ dpc = "loop" /\ i \in dTodo
  /\ \/ AgeMay(dBorn[i], Retention) /\ Drop(i) /\ dTodo' = dTodo \ {i}
     \/ ~AgeMust(dBorn[i], Retention) /\ dTodo' = {} /\ UNCHANGED es
  /\ UNCHANGED <<clock, faults, saved, logVars, rollVars, dpc, dBorn, history>>

\* The next key of the copy: deleted if older than the retention by the
\* copy's creation date; a failed call is logged and the loop goes on.
DeleteKey(i) ==
  /\ dpc = "loop" /\ i \in dTodo
  /\ dTodo' = dTodo \ {i}
  /\ \/ AgeMay(dBorn[i], Retention) /\ Drop(i) /\ UNCHANGED faults
     \/ ~AgeMust(dBorn[i], Retention) /\ UNCHANGED <<es, faults>>
     \/ AgeMay(dBorn[i], Retention) /\ Fault /\ UNCHANGED es
  /\ UNCHANGED <<clock, saved, logVars, rollVars, dpc, dBorn, history>>

DeleteEnd ==
  /\ dpc = "loop" /\ dTodo = {}
  /\ dpc' = "idle" /\ due' = due \ {"delete"}
  /\ dBorn' = [i \in Index |-> 0]
  /\ UNCHANGED <<now, faults, es, saved, logVars, rollVars, dTodo, history>>

DeleteCrash ==
  /\ dpc # "idle" /\ Fault
  /\ dpc' = "idle" /\ dTodo' = {} /\ dBorn' = [i \in Index |-> 0]
  /\ due' \in {due, due \ {"delete"}}
  /\ UNCHANGED <<now, es, saved, logVars, rollVars, history>>

DeleteSteps == DeleteStart \/ DeleteEnd \/ \E i \in Index : DeleteKey(i)

-----------------------------------------------------------------------------
(* Snapshot, the calendar, the specification                                *)

\* PUT /_snapshot/<env>/<timestamp>; errors are swallowed.  It runs hours
\* after the other jobs of the day, with their invocations long over.
Snapshot ==
  /\ due = {"snapshot"} /\ InFlight = {}
  /\ due' = {}
  /\ \/ saved' = saved \cup Stored /\ UNCHANGED faults
     \/ Fault /\ UNCHANGED saved
  /\ UNCHANGED <<now, es, logVars, rollVars, delVars, history>>

\* Midnight: the jobs of the day are over (each run or given up, with its
\* retries, within minutes), and so is every LogsToES invocation.
NextDay ==
  /\ due = {} /\ InFlight = {} /\ now < MaxNow
  /\ now' = now + 1
  /\ due' = Job
  /\ UNCHANGED <<faults, es, saved, logVars, rollVars, delVars, history>>

Next ==
  \/ LogsToES
  \/ RolloverSteps \/ RolloverCrash
  \/ DeleteSteps \/ DeleteCrash
  \/ Snapshot
  \/ NextDay

Spec == Init /\ [][Next]_vars

\* Lambda runs what it started and CloudWatch Logs redelivers what failed;
\* nothing obliges a service to log, a call to fail or a day to pass.
FairSpec ==
  /\ Spec
  /\ \A b \in Batch :
       /\ WF_vars(attempt[b] > 0 /\ Deliver(b))
       /\ WF_vars(Transformed(b) \/ Post(b)
                  \/ \E e \in Event : Transform(b, e) \/ TransformThrows(b, e))

-----------------------------------------------------------------------------
(* Properties                                                               *)

TypeOK ==
  /\ now \in Nat /\ due \in SUBSET Job /\ faults \in 0 .. MaxFaults
  /\ live \in SUBSET Index
  /\ born \in [Index -> Nat]
  /\ role \in [Index -> {"none", "read", "write"}]
  /\ docs \in [Index -> SUBSET Event]
  /\ saved \in SUBSET Event /\ seen \in SUBSET Event
  /\ storedAt \in [Event -> Nat]
  /\ wpc \in [Batch -> {"waiting", "transform", "post", "done", "lost"}]
  /\ attempt \in [Batch -> 0 .. MaxAttempts]
  /\ todo \in [Batch -> SUBSET Event]
  /\ bulk \in [Batch -> SUBSET (Event \X Index)]
  /\ rpc \in {"idle", "loop", "alias", "roll"}
  /\ rTodo \in SUBSET Index /\ rBare \in SUBSET Index
  /\ rKey \in Index \cup {NoKey} /\ rolled \in SUBSET Alias
  /\ dpc \in {"idle", "loop"} /\ dTodo \in SUBSET Index
  /\ dBorn \in [Index -> Nat]

\* A delivery that CloudWatch Logs takes as handled has every event that
\* passes the namespace filter indexed: the bulk answer's errors are looked at,
\* and an empty body is acknowledged only when there was nothing to index.
AckedMeansStored ==
  \A b \in Batch : wpc[b] = "done" => Content[b] \ Foreign \subseteq seen

\* The logs of one service never land in the indices of another, whatever
\* index name was resolved and however stale it was when the bulk was posted.
OwnIndex ==
  \A i \in Index : \A e \in docs[i] : Owner[e] = i[1] /\ e \notin Foreign

\* Delete_Old_Logs removes only indices at least the retention old, though it
\* decides from a copy of the cluster that may be long out of date.
DeletedOnlyExpired ==
  [][\A i \in Index : i \in live /\ i \notin live' =>
       now - born[i] >= Retention]_vars

\* An alias' write index is rolled over in time: what the daily rollover lets
\* slip is one day of jitter, and one more day for every failure, as long as the
\* failures are too few for the write index itself to reach the retention.
WriteIndexYoung ==
  RolloverAge + 1 + faults < Retention =>
    \A i \in live : role[i] = "write" => now - born[i] <= RolloverAge + 1 + faults

\* No index outlives the retention by more than a day and the failures.
IndicesExpire == \A i \in live : now - born[i] <= Retention + 1 + faults

\* Once the day's rollover has run without failures, every service that had
\* an index before today has a write index: bare indices do not stay bare.
AliasAdopted ==
  faults = 0 /\ "rollover" \notin due =>
    \A i \in live : born[i] < now => WriteIndices(i[1]) # {}

\* A delivery once started is acknowledged or given up: no invocation hangs.
BatchesFinish ==
  \A b \in Batch : attempt[b] > 0 ~> wpc[b] \in {"done", "lost"}

\* Read as a service's reader does, LogStore: an event is kept a calendar day
\* less than the retention minus the age an index may reach while it is
\* written, and a snapshot holds it before it goes.
Kept == INSTANCE LogStore WITH
  Content <- [b \in Batch |-> Content[b] \ Foreign],
  KeepDays <- Retention - (RolloverAge + 1),
  day <- now,
  status <- [e \in Event |-> IF e \in Stored THEN "stored"
                             ELSE IF e \in seen THEN "expired" ELSE "absent"],
  at <- storedAt,
  acked <- {b \in Batch : wpc[b] = "done"}
KeptAsPromised == Kept!StoreSpec
=============================================================================
