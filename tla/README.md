# TLA+ models of the AWS/EKS platform repository

The repository deploys and runs a platform on AWS: CloudFormation templates and
Helm charts, Jenkins pipelines, and some twenty Lambda functions and stored
procedures. The behaviour worth verifying is in the functions and scripts:
small programs, each of them simple, that run on schedules, are retried by AWS,
fail half-way and share nothing but the state of a service (Elasticsearch, RDS,
Redshift, a Kubernetes cluster). This directory models them, checks the models
with TLC and proves the main properties with TLAPS.

Paths below: `L` = `src/aws_main_infra/lambda_code`,
`T` = `src/aws_main_infra/cf_templates/stacker/templates`,
`C` = `src/aws_main_infra/cf_templates/stacker/conf`,
`S` = `src/aws_main_infra/scripts`.

## Inventory

| Component | Code | State it keeps | Operations |
|---|---|---|---|
| Elasticsearch log pipeline | `T/elasticsearch/{LogsToES,Rollover,Delete_Old_Logs,Snapshot}/index.js` | none of its own but `rolledIndices` (module level, Rollover); indices, aliases, write roles and documents in Elasticsearch | index a CloudWatch batch; adopt and roll over indices; delete old indices; snapshot |
| RDS snapshot life cycle | `L/rds-{cluster,instance}-crr-config`, `L/rds-snapshot-{archive,delete}-config` | manual snapshots, export tasks and copies in RDS | take and copy (hourly), export (03:00), delete (05:00) |
| SonarQube database copies | `L/sonar-rds-cluster-{crr,cleanup}-config` | copies in the DR region | copy yesterday's snapshots, delete old copies (weekly) |
| Data warehouse refresh | state machine in `T/datalake-resources/data-resources-part2.yaml`, `L/dwh-load-function`, `L/dwh-almis-function`, procedures in `L/redshift-db-init-custom-resource/db-scripts/procedures` | tables in Redshift, the extract file in S3, `stg_extract_log` | truncate in parallel, load in a transaction, rename the extract |
| CloudFormation custom resources | `L/*-custom-resource`, `T/base/base-template-lambda-code`, `T/elasticsearch/Snapshot-Register` | `responseStatus`, `responseData` (module level, Node functions); the resource made | Create, Update, Delete, each answered to a URL |
| CI/CD machine images | functions and automation documents in `T/main-templates/cicd-infra-with-init.yaml` | images, an SSM parameter, running automations | delete the old image, build, copy encrypted, name, answer CloudFormation |
| User sign-up | `L/os-signup-lmabda`, `os-changeusername-lambda`, `os-resetpassword-lambda`, `os-validation-lambda` | users in Cognito; signing keys cached at cold start | sign up (four calls), rename, reset, validate a token |
| Service delivery | `src/vars/*.groovy`, `S/deployment/*.sh` | the node's kubeconfig and AWS profiles, images in ECR, Helm releases | build, test, gate, image, push, deploy |
| Infrastructure delivery | `src/aws_main_infra/*Jenkinsfile`, `S/infra`, `S/monitoring` | stacks, certificates, records | create and delete stacks in order |
| Templates and charts | `T`, `src/helm_charts` | - | declarative |

The functions call no other function. They interact through the service they
share and through the clock: the archive function at 03:00 and the delete
function at 05:00 know nothing of each other but the retention both are given.
What is hard is the same everywhere: decisions taken from a listing that is old
when they are carried out; loops that fail half-way and begin again; AWS retrying
a whole invocation; module-level variables that survive in a warm container;
exceptions that are swallowed and those that are not; two runs at once.
`PROJECT.json` lists these hazards line by line with the properties on each.

Vendored code (pymysql, psycopg2, jose, rsa, ecdsa, pyasn1) is left aside.

## Modules

| Module | Models | Extends |
|---|---|---|
| `ESLogs` | the log pipeline: LogsToES invocations, the three daily jobs, the cluster | |
| `LogStore` | what the log pipeline promises a reader; abstract, refined by `ESLogs` | |
| `MCESLogs`, `ESLogs*.cfg` | its instances | `ESLogs` |
| `ESLogsProofs` | its theorems: types, delivery, what is deleted | `ESLogs`, TLAPS |
| `ESLogsCalendarProofs` | its theorems on days: ages, rollover, the refinement of `LogStore` | `ESLogs`, TLAPS |
| `RdsSnapshots` | the four snapshot functions of a region | |
| `MCRdsSnapshots`, `Rds*.cfg` | its instances | `RdsSnapshots` |
| `RdsSnapshotsProofs` | its theorems | `RdsSnapshots`, TLAPS |
| `DwhRefresh` | the refresh state machine, its functions and procedures | |
| `MCDwhRefresh`, `Dwh*.cfg` | its instances | `DwhRefresh` |
| `DwhRefreshProofs` | its theorems | `DwhRefresh`, TLAPS |
| `ServiceDeploy` | the service pipeline: jobs on shared nodes, images, kubeconfig, Helm releases | |
| `GatedRelease` | what the pipeline promises an environment; abstract, refined by `ServiceDeploy` | |
| `StackRequests` | a custom resource as CloudFormation and Lambda see it: requests, answers, attempts | |
| `CustomResource` | the six functions behind custom resources, by kind | `StackRequests` |
| `GoldenImage` | the seventh kind: the invoker function and the automation it starts | `StackRequests` |
| `StackResources` | the composition of the three, with the end of a stack | `CustomResource`, `GoldenImage` |
| `MCStackResources`, `StackResources.cfg`, `ImageCleanup.cfg` | its instances | `StackResources` |
| `StackResourcesProofs` | its theorems | `StackResources`, TLAPS |
| `UserAccounts` | sign-up, reset and rename on the user pool | |
| `TokenValidation` | the pool's keys and tokens, and the validation with its cached keys | |
| `UserPool` | the composition of the two | `UserAccounts`, `TokenValidation` |
| `MCUserPool`, `UserPool.cfg` | its instance | `UserPool` |
| `UserPoolProofs` | its theorems | `UserPool`, TLAPS |
| `MCServiceDeploy`, `Service*.cfg` | its instances | `ServiceDeploy` |
| `ServiceDeployProofs` | its theorems | `ServiceDeploy`, TLAPS |

Definitions named "Mutated form of ..." above an action are plausible wrong
versions of that action. No action uses them; they document which bug each
property would catch, and TLC finds the property violated when one is put in
the place of the original.

### ESLogs

An alias stands for a service; the index `<alias>-0000n` is the pair `<<a, n>>`.

| Model | Code |
|---|---|
| `Deliver`, `EndAttempt`, `LogsCrash` | CloudWatch Logs invoking `LogsToES`, again after a failure, at most `MaxAttempts` times (external) |
| `Transform` | one turn of `transform`'s loop: filter, alias, `getIndexName`, bulk entry (`index.js:58-109`) |
| `Resolved` | `getPromise`/`getIndexName`: the alias' write index, else `-00001`; a failed call also gives `-00001` |
| `TransformThrows` | `JSON.parse` throwing inside the async callback |
| `Transformed` | back in the handler: an empty body is "a control message" |
| `Post`, `StoreItems` | `post` and what `_bulk` does: any subset of the items may be stored when the answer is an error |
| `RolloverStart`, `RolloverKey`, `CreateAlias`, `Rollover`, `RolloverEnd` | `Rollover`'s handler, one action per await; `rTodo`, `rBare` are the copy of the cluster it works from, `rolled` is `rolledIndices` |
| `DeleteStart`, `DeleteKey`, `DeleteEnd` | `Delete_Old_Logs`' handler; `dTodo`, `dBorn` are its copy |
| `Snapshot` | `Snapshot`'s handler, errors swallowed |
| `RolloverCrash`, `DeleteCrash` | a dead invocation, retried or not (external) |
| `NextDay` | the schedules of `C/elasticsearch.env` |

A tick is a day. An index born on day d has on day k an age between k-d-1 and
k-d days give or take the jitter of the schedules, so an age test at equality is
a free choice (`AgeMay`, `AgeMust`). Failures cost one of `MaxFaults`; several
properties count them (`... + faults`), so they say how much each failure may
delay. `seen` and `storedAt` are history variables.

### RdsSnapshots

| Model | Code |
|---|---|
| `CrrSnapshot`, `CrrCopy`, `CrrFail` | the handlers of `rds-*-crr-config`: create, wait and copy, or fail in between |
| `StartJob` | listing and selection of the archive or delete function, one step; `Listings` has the reuse of the cluster listing's marker for the instances |
| `ExpiredForArchive`, `ExpiredForDelete` | the age test of each function, two definitions because there are two |
| `ArchiveOne`, `DeleteOne` | one turn of each loop |
| `Raise`, `EndJob`, `JobFails` | an exception or timeout: Lambda repeats the event up to `MaxAttempts` times |
| `Accepts`, `ExportEnds` | RDS: names of export tasks are unique, their number is limited (external) |

### DwhRefresh

The contents of a table that `Clean` truncates are abstracted to how many times
the source is in it. `dimcurrency` and `factapplication` (`Appended`) are never
truncated and keep what earlier loads put there; of each, one row of its source is
followed, and how many rows the table has of each of its contents.

| Model | Code |
|---|---|
| `StartExecution` | `ScheduledRule`, or an operator |
| `Truncate`, `TruncateFails` | a branch of the state `Clean`: `dwh-load-function` with a `truncate` |
| `CleanDone`, `Load`, `Commit`, `LoadFails`, `LoadTimesOut` | the state `RefreshDWH`: `begin; call prc_load_dwh(); commit` in one Lambda call |
| `MissingCurrencies`, `MissingApplications` | the anti-joins of `prc_load_dimcurrency` and of the first insert of `prc_load_factapplication` |
| `RevisedApplications` | the second insert: a changed application, once more for each row that differs from it |
| `Matches` | what the joins with the customer, the product and the currency multiply an application by |
| `SourceChanges` | the data lake (external): a currency renamed, an application's status or amount changed |
| `CallAddressLines` | `prc_addresslines` called by hand (its readme) |
| `Rename` | `dwh-almis-function` |

`Reloaded` stands for the tables that `Clean` truncates, and `Joined` for those of
them that `prc_load_factapplication` joins. A procedure evaluates its joins when it
runs (`Load`, on what its transaction sees), and its rows become everybody's at
`Commit`; `seen` and `adds` keep the one for the other. Redshift's rules are
external and stated in the module's header: TRUNCATE commits, a transaction reads
the snapshot of its first statement and its own rows, an error in a procedure
undoes the transaction although the procedure catches it, and of two loads that
overlap the later to commit fails (serializable isolation, the default).

What the code does and no property denies: a changed application keeps its old row,
differs from it at every later load and is inserted again (`ApplicationOnce` is
about a source that stands, `LoadIsCurrent` about one that changes), although
`prc_load_unittestresult` compares the numbers of rows; a renamed currency keeps its
old row too, and doubles the applications joined with it; `prc_addresslines`,
which its readme says truncates, called by hand doubles its table until the next
`Clean` (`LoadedOnce` is about the execution after it).

### ServiceDeploy

A job is a service on the branch of an environment; its commits are numbered in
the order of the branch. An environment has its cluster and one namespace
(`S/namespaces`).

| Model | Code |
|---|---|
| `StartBuild`, `Busy` | `disableConcurrentBuilds`, `pollSCM`, `upstream`; the executors of `T/main-templates/cicd-infra-with-init.yaml` (default 1) |
| `Configure` | the stage AWS Config with its `catchError` blocks |
| `Verify` | Build, Unit Tests, SonarQube Analysis: a failure ends the build |
| `GatePasses`, `GateEnds` | `waitForQualityGate abortPipeline: true` within one hour |
| `BuildImage` | `docker-build.sh`; its status is that of `docker tag` |
| `DeleteTag`, `Push`, `Expire` | `docker-push.sh`: the commit's tag is deleted, pushed, and the local image removed, whose status is the script's; the lifecycle policy |
| `RemoveConfig`, `UpdateConfig` | `rm ~/.kube/config`, `aws eks update-kubeconfig` |
| `FindCommon`, `AddCommon`, `CommonAdded` | `helm ls`, and `helmCommonDeploy` from its start to its end |
| `Find`, `ReadStatus` | the two listings of the service's release, two actions because there are two |
| `Uninstall`, `Install`, `Upgrade` | the three commands on the service's release |
| `UpgradeCommon`, `CommonUpgraded` | `helmCommonUpgrade` from its start to its end; the script's status |
| `Abort` | a build aborted or a node lost (external) |

Helm's rules (external): an install is refused if the name is in use, an upgrade
if nothing was deployed under the name or an operation on it is pending, a
release is looked for in one namespace. A helm command on the common release
takes two steps because others work on that release too; a service's own release
belongs to one job, which runs one build at a time, so a command on it is one
step. Every command reads the kubeconfig of its node when it runs (`Reached`).

`clashed` is a history variable: the jobs that were ever in the script, after
its `rm`, beside another job on the same node. Two such jobs do reach each
other's cluster: nothing in the code prevents it but a single executor. What
`OwnCluster` and the others say is what holds of jobs without that clash, in
every interleaving with clashes of the rest.

### StackRequests, CustomResource, GoldenImage

A behaviour is about one custom resource; `kind` says which function is behind
it and never changes. CloudFormation's side is external and stands for what its
documentation and the templates rely on: one request at a time, rollback of what
failed, a `Cleanup` (a Delete to the function) of the old physical id after an
update that answered with a new one, an hour's patience, the first answer counts.

| Model | Code |
|---|---|
| `Request`, `NextTypes`, `Outcome`, `Answer`, `TimeOut`, `StackGone` | CloudFormation (external); the stacks are made and deleted by `InfraJenkinsfile` and `S/infra/stacker.sh` |
| `Begins`, `Returns`, `Raises`, `Dies`, `Recycle`, `Emptied` | Lambda: asynchronous events, up to three attempts, containers (external) |
| `Calls`, `CallsFor`, `Refused`, `Commits` | what the calls of a function are: the scripts of `redshift-db-init`, `init.sql`, the two calls of `redshift-prod-config`, the six attributes of `ns-logdeliverystatus`; which of them fail a second time (`create table` without `if not exists`, the grant), which commit, which request types make them |
| `CallWorks`, `CallFails`, `CallIgnored` | one call: in Python a failure ends in `except`, in Node.js it is logged; `Snapshot-Register` looks at no status |
| `Remember`, `mem` | `responseStatus`, which outlives the invocation |
| `Conclude`, `Send`, `SendFails`, `Ends` | the answer: `send` and `raise`, or `sendResponse` and `context.done()` |
| `Replaces`, `phys` | the physical id: a name in Python (of a domain its distribution, which stays), the container's log stream in Node.js |
| `Freeze` | the answer to a deletion that `Snapshot-Register` does not await |
| `InvokerWorks`, `StartsAutomation` | `AMIAutomationInvokerFunction`; `{{ssm:...}}` is resolved when the automation starts |
| `DeleteOldImage` ... `CallbackStack` | the steps of the document that change images, the parameter or the request; `launchInstance` to `createImage` are `Build` |
| `Abort` | `onFailure: Abort`: no step answers after it |
| `Gone` | the rest of a deleted stack goes with the resource: the parameter, the functions of automations still running (`stale`), the topic |

`redshift-db-init` never commits, and yet everything it does stays once it answers
SUCCESS: psycopg2 sends BEGIN before the first `execute` only, `xyz_EXT_DML.sql`
ends with a `commit;` that psycopg2 does not notice, and each later `execute` is
outside a transaction and commits by itself. So call 1 of the kind `dwh`
(`xyz_DWH_DDL`) is open until call 2 (the `xyz_EXT` scripts), and call 3
(`xyz_STG_DDL`) and call 4 (procedures and views, each of which may be repeated)
need nobody's commit. `SuccessIsEarned` asks for all four.

An automation's step on an image takes longer than Lambda's retries of the
invoker: `Build` waits for the events to be over. `stale` and `old` are what
makes an automation of one request meet the images of another.

### UserAccounts, TokenValidation

User j is the one that the sign-up of call j makes; a call knows users by
address only (`Known`), as Cognito does with `UsernameAttributes: email`.

| Model | Code |
|---|---|
| `Invoke` | the OutSystems application (external): sign-ups, resets and renames at any time |
| `CreateUser`, `InitiateAuth`, `Respond`, `MarkVerified` | the four awaits of `os-signup` |
| `NameTaken`, `AuthRefused`, `ChallengeRefused`, `AliasTaken`, `UserMissing` | Cognito's refusals (external); each ends the function with what was done before left in place |
| `SetPassword`, `ChangeUserName` | `os-resetpassword`, `os-changeusername` |
| `CallFails` | a failure of the service, the network or the 30 seconds; a call that took effect without an answer is a failure before the next one, and so is the SDK's own retry of `adminCreateUser`, which finds the name taken |
| `ColdStart`, `keys` | the download at module level of `os-validation-lambda/lambda_function.py:25` |
| `Judged` | its handler; it has no effect, so it is an operator and not an action, and `TokensJudged` says of every state what it would answer for every token |
| `Rotate`, `Withdraw`, `Issue`, `SignIn` | Cognito (external): a key stays published as long as a token it signed is valid |

`changed` is a history variable: which calls changed a user.

## Checks

| Run | Instance | Distinct states | Shows |
|---|---|---|---|
| `eslogs_calendar` | 1 service, 2 deliveries, ages 1 and 3 as deployed, days 0-5, no faults | 702 321 | `IndicesExpire`, `AliasAdopted`; `ESLogs` implements `LogStore` (`KeptAsPromised`) |
| `eslogs_rollover` | as before, ages 1 and 4, days 0-4, 1 fault | 1 413 301 | `WriteIndexYoung` |
| `eslogs_delivery` | 2 services, filtered and malformed events, 2 deliveries of each batch, 1 fault, days 0-1, warm containers | 217 059 | `TypeOK`, `AckedMeansStored`, `OwnIndex`, `DeletedOnlyExpired`, `BatchesFinish` |
| `rds_snapshots` | 3 snapshots, page 1, 1 export at a time, 3 attempts, 2 faults, days 0-2 | 190 563 | `TypeOK`, `SweptClean`, `KeptForRetention`, `ExportedBeforeDeleted`, `DayEnds` |
| `rds_archive_loss` | 1 fault, no limits | violation | `ArchiveIsComplete` fails |
| `dwh_refresh` | 2 executions, 2 reloaded tables (one of them joined), the 2 appended ones, 2 contents, 2 changes of the source, 1 call by hand, 3 faults | 117 325 | `TypeOK`, `CurrencyOnce`, `ApplicationOnce`, `LoadedOnce`, `AllOrNothing`, `LoadIsCurrent`, `ExecutionsEnd` |
| `service_clusters` | 1 service in 2 environments, 1 node with 2 executors, 2 builds and 1, a fault each | 290 896 | `TypeOK`, `OwnCluster`, `BuildsEnd`; `ServiceDeploy` implements `GatedRelease` (`GatedAsPromised`) |
| `service_common` | 2 services of an environment, 2 nodes with 1 executor, 3 builds and 1, 2 images kept, a fault each | 838 300 | `Pullable`, `SuccessIsDeployed`, `OnlyContentionFails` |
| `service_failed` | as `service_clusters` | violation | `FailedIsDeleted` fails |
| `stack_requests` | 7 kinds, 3 requests, 3 attempts, 2 containers, 2 attributes, 3 faults (1 for images) | 179 446 | `TypeOK`, `SuccessIsEarned`, `FailureHasCause`, `MadeOnce`, `OnlyLossTimesOut`, `BuiltImageStands`, `NoLeftovers`, `RequestsEnd` |
| `image_cleanup` | the kind `image`, 3 requests, no faults | violation | `InstancesHaveImage` fails |
| `user_pool` | 3 calls, 2 addresses, 2 passwords, 1 fault, 1 environment, 2 keys, 1 token, times 0-1 | 4 099 406 (up to symmetry) | `TypeOK`, `SignedUpUsable`, `LeftoverHasCause`, `TokensJudged` |

Why the bounds are enough. Calendar: six days are retention plus rollover age
plus two, so an index lives its whole life twice over, with
suffixes up to 6: a rollover a day cannot use them up before the last day, so none
is missed for want of a name. Rollover: `WriteIndexYoung` speaks of states in which
`RolloverAge + 1 + faults < Retention`, so with the deployed ages no failure is
allowed for; a retention of 4 leaves room for one, which may be any call's, and five
days let an index miss its rollover and be late for the next. Delivery: a day
boundary with retention 1 makes every pair of function steps possible, two services
are needed for `OwnIndex` and two attempts for a redelivery; a second fault only
repeats the first. RDS: with a page and an export limit of one, three snapshots (two cluster, one instance)
exceed both; three attempts and two faults reach the last attempt and the
success before it. DWH: two executions overlap, follow each other, or meet what a
call that timed out left behind, with a fault of their own left; for more executions the safety properties are
proved. A change makes a row outdated and a second one makes the old row current
again; the initial contents are fixed (`MCInit`), which loses nothing, as
contents are only compared; `MaxCopies` 5 is more than two loads and a call can
reach, so no commit is blocked by it. Services: two executors on one node are what a
kubeconfig clash needs, one executor on each of two nodes what leaves only the common release
shared; three builds of one job exceed the two images kept, as more than twenty
exceed the policy's twenty (with `Keep` 1 a push would expire what runs: two is
the least that stands for twenty); a fault for each job reaches any command of
any build, a second one of the same job only repeats it. Custom resources: three requests are a Create, an Update
and its clean-up, or a Create that fails, its rollback and a new Create; three
attempts are Lambda's number, three faults can spoil a call, an answer and an
invocation of one request, or one of each request; two containers are a warm and
a cold one; two attributes stand for six (some work, some fail). One fault of an
image is a doubled automation, an abort or an image that is not deleted. Users: a
sign-up, one call that interferes and one that makes the interfering one possible;
two keys and a token make a warm environment too old, or the only one that still
knows the key. With four calls or more the state space is out of reach: that is
what the proofs are for, and one of them corrected a property that held of three
calls (`SignedUpUsable` without `Untouched` fails with five). All runs disable the
deadlock check: the calendar ends at `MaxNow`, executions, requests and calls are
finitely many.

Fairness. Weak fairness of the steps of an invocation once it has begun, and of
the daily jobs of `RdsSnapshots`: Lambda runs what it started, EventBridge and
CloudWatch Logs invoke again what failed. The daily jobs of `ESLogs` need none: no
property there waits for them but at the end of a day, which comes when they are
over. Failures, new log events, new snapshots, the end of an
export, the start of an execution and the passing of a day are not fair: nothing
in the code brings them about. A build's own steps are fair, and `GateEnds` among
them because the wait ends after an hour; that the gate passes, a commit appears,
an image expires or a build is aborted is not. Redelivery is fair only after the first delivery.
For a custom resource: Lambda invokes what is queued and runs what it has begun,
and an hour passes (`FairSpec`). An automation is not fair, it may take longer
than CloudFormation waits; no request is ever sent, and no container dropped, of
itself. `user_pool` has no liveness property: a function there ends within its 30
seconds whatever happens.

### What the violations say

* `ArchiveIsComplete`: one failed `start_export_task` makes every retry fail on
  the task name of the first snapshot; what was left is deleted unexported.
* `FailedIsDeleted`: `deploy_service.sh` echoes "Deleting the existing failing
  deployment." and calls `helm uninstall` without the namespace it installed in
  (line 125; compare line 86). The release stays, the next install is refused,
  and so is every later one. In the counterexample the build whose install failed
  ends as a success: the script's last command upgraded the common release.
* `InstancesHaveImage`: every automation begins with `deleteOldImage`, which
  deletes what the parameter names when the automation starts. After an update of
  `CreateJenkinsImage` CloudFormation deletes the old physical id; the automation
  of that Delete reads the parameter, which names the new image by now, and
  deletes it. The old one was deleted by the update's own first step. The stack is
  complete and its launch configuration refers to an image that is gone; nothing
  failed on the way. The same holds of the three sister images.

## Proofs

For every value of the constants that satisfies the named ASSUMEs:

| Theorem | Of | Argument |
|---|---|---|
| `TypeCorrect` | `ESLogs` | `TypeInv`: a waiting batch has an attempt left (`AttemptsLeft`), and Rollover has a key while it works on one (`KeyInHand`) |
| `AcknowledgedIsStored` | `[]AckedMeansStored` | `NothingSlips`: every event of a batch in flight is still to do, in the bulk, or filtered; a done batch has its events seen |
| `IndicesArePure` | `[]OwnIndex` | `OwnBulk`: bulk entries pair an event with an index of its owner, and `StoreItems` adds nothing else |
| `DeletesOnlyExpired` | `DeletedOnlyExpired` | `CopyHolds`: what the deletion has still to look at is live and as old as its copy says, because nothing else deletes |
| `OldIndicesGo` | `[]IndicesExpire` | `Expiring`: an index past the retention is one that the day's deletion is still to come to, but for failures |
| `WriteIndexIsYoung`, `BareIsAdopted` | `[]WriteIndexYoung`, `[]AliasAdopted`, under `DailyRollover` | `Rolling`, see below |
| `LogsAreKept` | `ESLogs` without failures implements `LogStore` (`KeptAsPromised`), under `DailyRollover` | `KeepInv`, see below |
| `SnapshotsTypeCorrect` | `RdsSnapshots` | `TypeInv`: with `Paused` (no attempt under way, one is left) and `OnlyMade` |
| `SnapshotsAreKept` | `KeptForRetention` | `SelectedExpired`: what delete has selected is expired, and dates do not change |
| `ExportsComeFirst` | `ExportedBeforeDeleted` | `ArchiveCovers`: what archive was shown and has passed has a task, or is too young for both functions |
| `DeleteSweeps` | `SweptClean` | `DeleteCovers`: what delete was shown and is expired is gone, or selected by the attempt under way |
| `RefreshTypeCorrect` | `DwhRefresh` | inductive as it stands |
| `LoneRunLoadsOnce` | `LoadedOnce` | `Solitude`: an execution that met no other is the only active one, so what it truncated is still empty when its transaction commits |
| `LoadIsAtomic` | `AllOrNothing` | only `Commit` adds, to all tables at once |
| `CurrenciesAreOnce`, `LoadsAreCurrent` | `[]CurrencyOnce`, `LoadIsCurrent` | `Serial`: of the transactions that may still commit, a currency to be inserted is still missing (`StillMissing`) and the row that was found is in the table or on its way (`StillCurrent`), because a commit dooms those that have begun to load |
| `ApplicationsAreOnce` | `[]ApplicationOnce` | `Settled`, with `Solitude`: without overlap and change the appended tables are as their source or empty, for everyone |
| `TypeCorrect` | `ServiceDeploy` | `TypeInv`: a build under way has a commit (`HasCommit`) |
| `ReleasesAreGated` | `GatedAsPromised` | `Gated`: from the image stages on a build's commit has passed, and no release runs a commit later than its job's; each step maps to a pass, a roll or a stutter |
| `StaysInOwnCluster` | `[]OwnCluster` | `OwnConfig`: a job that did not clash is alone in the script on its node, so the kubeconfig it reads is its own or absent |
| `SuccessfulIsDeployed` | `[]SuccessIsDeployed` | `OnTrack`: where a job without failed calls is in the script says what its release's status is |
| `RunningIsPullable` | `[]Pullable`, for `Keep >= 2` | `InRegistry`: what a job runs is in the registry or about to be pushed again, and nothing there is newer but the commit it is deploying |
| `ContentionIsTheCause` | `[]OnlyContentionFails` | `CommonHeld`: as long as nothing failed, a common release is pending only while a job of its environment works on it |
| `TypeCorrect`, `SuccessEarned`, `FailureCaused`, `CreatedOnce`, `LossTimesOut`, `ImageStands`, `NothingLeft` | `StackResources` | `IInv`, see below |
| `TypeCorrect`, `SignUpIsUsable`, `LeftoverCaused`, `TokensAreJudged` | `UserPool` | `IInv`, see below |

The invariant of `StackResources` has a conjunct for each of the ways in which an
answer can outlive what it was about. `Sequenced`: requests come one after the
other, only the last is unanswered. `Behind` and `InPlace`: what an invocation has
behind it is in place or in its open transaction, and stays so. `Past` and
`Owned`: at most one invocation, of all attempts of all requests, is past the call
that can be made only once, which is why a second success is impossible even while
a first attempt runs beside a rollback. `Contained` and `Remembered`: in Node.js
an answered request has no invocation left, no two share a container, and what a
container remembers is true of some request. `Accounted`: an event ends unanswered
only by a loss. `Ordered` (`Sound`, `Built`, `Referred`): an automation deletes
only what an earlier request built. `Tidy` (`Single`, `Rests`, `Leaves`): as long
as nothing failed or was lost, each request has one automation and no other way to
an answer, so at most one works at a time, and the step it has reached bounds the
images there are; a removed stack has none left, so that the parameter of the next
one may begin with no image. Each conjunct is preserved by a lemma of its own.

The calendar of `ESLogs` (`ESLogsCalendarProofs`). `Calendar` says which jobs the
day has still due and that the jobs' copies agree with the cluster as far as they
must. `Rolling` says of the rollover what `Expiring` says of the deletion: a write
index is the last of its alias; an alias without one has at most its first index,
bare; an index that is late for its rollover or its adoption is one that today's
run is still to come to (`Ahead`, `Adopting`), but for failures; a bulk body names
first indices and indices that outlive the day. `KeepInv` adds for `LogStore` that
what no snapshot holds, and what a bulk may still add to, is in a fresh index.
`DailyRollover` is assumed of the constants: a rollover age of a day or more
(`max_age` is `1d`, `Rollover/index.js:141`), a container of Rollover that does not
stay warm from one day to the next (Lambda drops one that is idle for hours), and a
bound on suffixes that the days to `MaxNow` cannot reach.
`BareIsAdopted` and `LogsAreKept` also assume that the rollover age and the day of
jitter are less than the retention, as deployed (1 and 3).

`Rollover` takes any answer for a rollover and lists the alias in `rolled`, so that
no other key of the alias is tried that day. An answer with an error status, or one
that never came, costs a failure in the model, and with it a day in `Ahead`.

The hypothesis of `WriteIndexYoung`, `RolloverAge + 1 + faults < Retention`, came
from its proof. Failures enough bring a write index to the retention; the deletion
takes it between the moment `LogsToES` resolves its alias and the `_bulk`, which
makes it again without the alias, in the way of every later rollover to its name.
From then on no count of failures bounds the age of a write index.

The registry and the common release. `Pullable` needs that the policy keeps two
images or more, and it keeps twenty (`countNumber`, `docker-push.sh:23`): with one,
a push expires what still runs. `CommonHeld` pairs a pending release with the job
whose command will end it, which only a failure or an abort can undo; a job that
clashed on its node is another matter, and neither property speaks of it.

That of `UserPool`: names are unique (`OneEach`); as long as nobody else has
touched the user of a sign-up, the sign-up is where the user's state says
(`OnTrack`), so none of its calls can be refused or find another user; the keys of
an environment are those published at some earlier time, and a key that is no
longer published has no valid token (`Windows`). It assumes that users are
numbered like calls (`HolderAssumption`).

None of the invariants is inductive alone: each speaks of one variable and
depends on what a function's local copy (`bulk`, `dBorn`, `selected`) says of it.
Model-checked only: the liveness properties (`BatchesFinish`,
`DayEnds`, `ExecutionsEnd`, `BuildsEnd`, `RequestsEnd`), because fairness is out of
the prover's reach. Every invariant and every action property of the passing runs,
and both refinements, are stated by a theorem.

## Plan

1. (done) `ESLogs` with `LogStore`; `RdsSnapshots`; `DwhRefresh`; `ServiceDeploy`
   with `GatedRelease`; each with proofs.
2. (done) `StackRequests`, `CustomResource`, `GoldenImage`, composed by
   `StackResources`; `UserAccounts`, `TokenValidation`, composed by `UserPool`; with
   proofs.
3. (done) Proofs of the calendar of `ESLogs` (`IndicesExpire`, `WriteIndexYoung`,
   `AliasAdopted`, the refinement of `LogStore`), of `Pullable` and
   `OnlyContentionFails`, and of `NoLeftovers`.
4. `SonarCopy`: the weekly copy and cleanup, as a second instance of the snapshot
   functions.

## Not modelled

Request signing, the contents of documents and rows, log output, IAM and network
configuration, the templates themselves (but for the functions and automations
they contain), and the components whose status in `PROJECT.json` is
`not_modelled`, each with its reason.

More than four fifths of the code lines of the repository are libraries copied
into the functions' directories (pymysql, psycopg2, jose, rsa, ecdsa, pyasn1,
requests). They are third-party code, used through a handful of calls whose
effect the models state where they occur (a statement, a transaction, a
signature that fits or does not), so the map covers a small share of all lines
although it covers most of the functions that are the repository's own.
`T/base/base-template-lambda-code` does nothing when invoked: its handler
assigns another handler and ends, before any answer is sent.
