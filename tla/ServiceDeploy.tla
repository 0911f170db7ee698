--------------------------- MODULE ServiceDeploy ----------------------------
(***************************************************************************)
(* The service pipeline (vars/initial_pipeline.groovy) and its scripts      *)
(* (scripts/deployment): multibranch jobs, one per service and environment, *)
(* run on Jenkins nodes they share.  A build verifies a commit, makes and   *)
(* pushes an image and deploys it with Helm.                                *)
(*                                                                          *)
(* A job never runs two builds at once (disableConcurrentBuilds); different *)
(* jobs do, also on one node when it has several executors.  What they      *)
(* share there is the node's ~/.kube/config, which decides the cluster that *)
(* every helm command reaches, and in a cluster the environment's "common"  *)
(* release.                                                                 *)
(*                                                                          *)
(* The scripts run without "set -e": a command that fails does not stop     *)
(* them, and their exit status is that of their last command.  catchError   *)
(* turns a failed stage into result FAILURE and goes on.                    *)
(* Every environment has one namespace (scripts/namespaces), so the         *)
(* script's loop has one turn.                                              *)
(*                                                                          *)
(* Left out: the values handed to the charts, the contents of images, the   *)
(* tag "latest" (an image has it or not together with its commit's tag),    *)
(* certificates, and services of which one's name begins the other's (grep  *)
(* takes the one's release for the other's).  A release's status is         *)
(* "absent", "deployed" or "failed", which stands for every status of helm  *)
(* ls that is not "deployed".                                               *)
(***************************************************************************)
EXTENDS Naturals, FiniteSets

CONSTANTS
  Job,        \* a service on the branch of an environment
  Env,        \* environments, each with its cluster and its namespace
  EnvOf,      \* [Job -> Env]: the environment of the job's branch
  Node,       \* Jenkins nodes
  None,       \* no cluster: there is no kubeconfig
  Executors,  \* executors of a node
  Keep,       \* images the lifecycle policy of a repository keeps
  MaxBuilds,  \* [Job -> Nat]: bound on the builds of a job
  MaxFaults   \* bound on the calls of a job that fail and its builds killed

ASSUME JobsAssumption == EnvOf \in [Job -> Env] /\ None \notin Env
ASSUME BoundsAssumption ==
  /\ Executors \in Nat /\ Keep \in Nat \ {0} /\ MaxFaults \in Nat
  /\ MaxBuilds \in [Job -> Nat]

Commit == Nat \ {0}   \* in the order of the branch
Cluster == Env

\* The steps of deploy_service.sh after its "rm ~/.kube/config".
InScript == {"kubeconfig", "findcommon", "addcommon", "addingcommon", "find",
             "status", "uninstall", "install", "upgrade", "upcommon",
             "uppingcommon"}
\* The steps of a build from "Image Build" on.
Imaging == {"build", "untag", "push", "rmconfig"} \cup InScript

VARIABLES
  pc,       \* pc[j]: where the job's build is, or "idle"
  builds,   \* builds[j]: builds started
  commit,   \* commit[j]: GIT_COMMIT of the current or last build, 0 at first
  node,     \* node[j]: the node of the current or last build
  result,   \* result[j]: currentBuild.result
  passed,   \* passed[j]: the commits that passed the gate
  kube,     \* kube[n]: the cluster of node n's ~/.kube/config, or None
  images,   \* <<n, j, c>>: node n has job j's image of commit c
  ecr,      \* ecr[j]: the commits whose tag is in the job's repository
  status,   \* status[<<c, j>>]: job j's release in cluster c
  running,  \* running[<<c, j>>]: the commit of its last good revision, or 0
  common,   \* common[<<c, e>>]: environment e's common release in cluster c
  target,   \* target[j]: the cluster a helm command of j on "common" works on
  clashed,  \* jobs that shared a node with another deployment while deploying
  faults    \* faults[j]: calls of job j that failed

build == <<builds, commit, node>>
registry == <<images, ecr>>
helm == <<status, running>>
shared == <<common, target>>
vars == <<pc, build, result, passed, kube, registry, helm, shared, clashed,
          faults>>

Goes(j, to) == pc' = [pc EXCEPT ![j] = to]
Fails(j) == result' = [result EXCEPT ![j] = "FAILURE"]
Fault(j) == faults[j] < MaxFaults /\ faults' = [faults EXCEPT ![j] = @ + 1]

\* The cluster the job's kubectl and helm commands reach at this moment.
Reached(j) == kube[node[j]]
Mine(j) == <<Reached(j), j>>
Commons(j) == <<Reached(j), EnvOf[j]>>

Init ==
  /\ pc = [j \in Job |-> "idle"]
  /\ builds = [j \in Job |-> 0] /\ commit = [j \in Job |-> 0]
  /\ node \in [Job -> Node]
  /\ result = [j \in Job |-> "SUCCESS"]
  /\ passed = [j \in Job |-> {}]
  /\ kube = [n \in Node |-> None]
  /\ images = {} /\ ecr = [j \in Job |-> {}]
  /\ status = [x \in Cluster \X Job |-> "absent"]
  /\ running = [x \in Cluster \X Job |-> 0]
  /\ common = [x \in Cluster \X Env |-> "absent"]
  /\ target = [j \in Job |-> None]
  /\ clashed = {} /\ faults = [j \in Job |-> 0]

-----------------------------------------------------------------------------
(* The pipeline up to the quality gate                                      *)

Busy(n) == {k \in Job : pc[k] # "idle" /\ node[k] = n}

\* Mutated form of StartBuild: GIT_COMMIT may be empty.
StartBuildEmpty(j) ==
  /\ pc[j] = "idle" /\ builds[j] < MaxBuilds[j]
  /\ \E n \in Node : Cardinality(Busy(n)) < Executors /\ node' = [node EXCEPT ![j] = n]
  /\ \E c \in {commit[j], commit[j] + 1} : commit' = [commit EXCEPT ![j] = c]
  /\ builds' = [builds EXCEPT ![j] = @ + 1]
  /\ result' = [result EXCEPT ![j] = "SUCCESS"]
  /\ Goes(j, "config")
  /\ UNCHANGED <<passed, kube, registry, helm, shared, clashed, faults>>

\* pollSCM finds a commit, or the upstream job starts a build of the same one.
\* The build waits for an executor of any node.
StartBuild(j) ==
  /\ pc[j] = "idle" /\ builds[j] < MaxBuilds[j]
  /\ \E n \in Node : Cardinality(Busy(n)) < Executors /\ node' = [node EXCEPT ![j] = n]
  /\ \E c \in {commit[j], commit[j] + 1} \ {0} : commit' = [commit EXCEPT ![j] = c]
  /\ builds' = [builds EXCEPT ![j] = @ + 1]
  /\ result' = [result EXCEPT ![j] = "SUCCESS"]
  /\ Goes(j, "config")
  /\ UNCHANGED <<passed, kube, registry, helm, shared, clashed, faults>>

\* AWS Config: a failure is caught.  Without properties the Sonar stage dies
\* on run_dependency_check; with those of an earlier checkout it does not.
Configure(j) ==
  /\ pc[j] = "config"
  /\ \/ Goes(j, "verify") /\ UNCHANGED <<result, faults>>
     \/ Fault(j) /\ Fails(j) /\ (Goes(j, "verify") \/ Goes(j, "idle"))
  /\ UNCHANGED <<build, passed, kube, registry, helm, shared, clashed>>

\* Build, Unit Tests, SonarQube Analysis: a failing stage ends the build.
Verify(j) ==
  /\ pc[j] = "verify"
  /\ \/ Goes(j, "gate") /\ UNCHANGED result
     \/ Goes(j, "idle") /\ Fails(j)
  /\ UNCHANGED <<build, passed, kube, registry, helm, shared, clashed, faults>>

GatePasses(j) ==
  /\ pc[j] = "gate"
  /\ Goes(j, "build")
  /\ passed' = [passed EXCEPT ![j] = @ \cup {commit[j]}]
  /\ UNCHANGED <<build, result, kube, registry, helm, shared, clashed, faults>>

\* Mutated form of GateEnds: abortPipeline is off.
GateEndsGoingOn(j) ==
  /\ pc[j] = "gate"
  /\ Goes(j, "build") /\ Fails(j)
  /\ UNCHANGED <<build, passed, kube, registry, helm, shared, clashed, faults>>

\* Mutated form of GateEnds: a wait that timed out is begun again.
GateEndsRetrying(j) ==
  /\ pc[j] = "gate"
  /\ Fails(j)
  /\ UNCHANGED <<pc, build, passed, kube, registry, helm, shared, clashed,
                 faults>>

\* The answer is a failure, or has not come in an hour: the build ends.
GateEnds(j) ==
  /\ pc[j] = "gate"
  /\ Goes(j, "idle") /\ Fails(j)
  /\ UNCHANGED <<build, passed, kube, registry, helm, shared, clashed, faults>>

-----------------------------------------------------------------------------
(* docker-build.sh, docker-push.sh                                          *)

Image(j) == <<node[j], j, commit[j]>>
Untagged(j) == ecr[j] \ {commit[j]}

\* The exit status is that of docker tag, which needs the image only.
BuildImage(j) ==
  /\ pc[j] = "build"
  /\ Goes(j, "untag")
  /\ \/ images' = images \cup {Image(j)} /\ UNCHANGED <<result, faults>>
     \/ /\ Fault(j) /\ UNCHANGED images
        /\ IF Image(j) \in images THEN UNCHANGED result ELSE Fails(j)
  /\ UNCHANGED <<build, passed, kube, ecr, helm, shared, clashed>>

\* batch-delete-image of the commit's tag, "|| echo".
DeleteTag(j) ==
  /\ pc[j] = "untag"
  /\ Goes(j, "push")
  /\ \/ ecr' = [ecr EXCEPT ![j] = Untagged(j)] /\ UNCHANGED faults
     \/ Fault(j) /\ UNCHANGED ecr
  /\ UNCHANGED <<build, result, passed, kube, images, helm, shared, clashed>>

\* Mutated form of Push: the tags are deleted after the push, not before it.
PushUntagging(j) ==
  /\ pc[j] = "push"
  /\ Goes(j, "rmconfig")
  /\ images' = images \ {Image(j)}
  /\ IF Image(j) \in images THEN UNCHANGED result ELSE Fails(j)
  /\ ecr' = [ecr EXCEPT ![j] = Untagged(j)]
  /\ UNCHANGED <<build, passed, kube, helm, shared, clashed, faults>>

\* docker push and docker image rm, whose status is the script's.
Push(j) ==
  /\ pc[j] = "push"
  /\ Goes(j, "rmconfig")
  /\ images' = images \ {Image(j)}
  /\ IF Image(j) \in images THEN UNCHANGED result ELSE Fails(j)
  /\ \/ /\ Image(j) \in images
        /\ ecr' = [ecr EXCEPT ![j] = Untagged(j) \cup {commit[j]}]
        /\ UNCHANGED faults
     \/ Image(j) \notin images /\ UNCHANGED <<ecr, faults>>
     \/ Fault(j) /\ UNCHANGED ecr
  /\ UNCHANGED <<build, passed, kube, helm, shared, clashed>>

\* ECR expires what exceeds the lifecycle policy, some time within a day,
\* the image pushed first: commits are pushed in their order.
Expire(j) ==
  /\ Cardinality(ecr[j]) > Keep
  /\ \E c \in ecr[j] :
       /\ \A d \in ecr[j] : c <= d
       /\ ecr' = [ecr EXCEPT ![j] = @ \ {c}]
  /\ UNCHANGED <<pc, build, result, passed, kube, images, helm, shared, clashed,
                 faults>>

-----------------------------------------------------------------------------
(* deploy_service.sh                                                        *)

\* Jobs in the script on the node of job j at this moment.
Beside(j) == {k \in Job \ {j} : pc[k] \in InScript /\ node[k] = node[j]}

\* Mutated form of RemoveConfig: the file of the last deployment stays.
KeepConfig(j) ==
  /\ pc[j] = "rmconfig"
  /\ Goes(j, "kubeconfig")
  /\ clashed' = IF Beside(j) = {} THEN clashed ELSE clashed \cup Beside(j) \cup {j}
  /\ UNCHANGED <<build, result, passed, kube, registry, helm, shared, faults>>

\* rm ~/.kube/config
RemoveConfig(j) ==
  /\ pc[j] = "rmconfig"
  /\ Goes(j, "kubeconfig")
  /\ kube' = [kube EXCEPT ![node[j]] = None]
  /\ clashed' = IF Beside(j) = {} THEN clashed ELSE clashed \cup Beside(j) \cup {j}
  /\ UNCHANGED <<build, result, passed, registry, helm, shared, faults>>

\* aws eks update-kubeconfig
UpdateConfig(j) ==
  /\ pc[j] = "kubeconfig"
  /\ Goes(j, "findcommon")
  /\ \/ kube' = [kube EXCEPT ![node[j]] = EnvOf[j]] /\ UNCHANGED faults
     \/ Fault(j) /\ UNCHANGED kube
  /\ UNCHANGED <<build, result, passed, registry, helm, shared, clashed>>

\* Mutated form of FindCommon: without the grep there is always a line.
FindCommonNoGrep(j) ==
  /\ pc[j] = "findcommon"
  /\ Goes(j, "find")
  /\ UNCHANGED <<build, result, passed, kube, registry, helm, shared, clashed,
                 faults>>

\* helm ls | grep ...-common; a listing that fails looks like an empty one.
FindCommon(j) ==
  /\ pc[j] = "findcommon"
  /\ \/ /\ Goes(j, IF Reached(j) # None /\ common[Commons(j)] # "absent"
                   THEN "find" ELSE "addcommon")
        /\ UNCHANGED faults
     \/ Fault(j) /\ Goes(j, "addcommon")
  /\ UNCHANGED <<build, result, passed, kube, registry, helm, shared, clashed>>

\* helm install ...-common: refused if the name is in use.
AddCommon(j) ==
  /\ pc[j] = "addcommon"
  /\ IF Reached(j) # None /\ common[Commons(j)] = "absent"
     THEN /\ Goes(j, "addingcommon")
          /\ common' = [common EXCEPT ![Commons(j)] = "pending"]
          /\ target' = [target EXCEPT ![j] = Reached(j)]
     ELSE Goes(j, "find") /\ UNCHANGED shared
  /\ UNCHANGED <<build, result, passed, kube, registry, helm, clashed, faults>>

\* The install ends; one that failed leaves a release nothing was deployed of.
CommonAdded(j) ==
  /\ pc[j] = "addingcommon"
  /\ Goes(j, "find")
  /\ target' = [target EXCEPT ![j] = None]
  /\ \/ common' = [common EXCEPT ![<<target[j], EnvOf[j]>>] = "deployed"]
        /\ UNCHANGED faults
     \/ Fault(j) /\ common' = [common EXCEPT ![<<target[j], EnvOf[j]>>] = "failed"]
  /\ UNCHANGED <<build, result, passed, kube, registry, helm, clashed>>

\* helm ls | grep ...-<service>: is there a release?
Find(j) ==
  /\ pc[j] = "find"
  /\ \/ /\ Goes(j, IF Reached(j) # None /\ status[Mine(j)] # "absent"
                   THEN "status" ELSE "install")
        /\ UNCHANGED faults
     \/ Fault(j) /\ Goes(j, "install")
  /\ UNCHANGED <<build, result, passed, kube, registry, helm, shared, clashed>>

\* Mutated form of ReadStatus: compared with Helm 2's "DEPLOYED".
ReadStatusHelm2(j) ==
  /\ pc[j] = "status"
  /\ Goes(j, "uninstall")
  /\ UNCHANGED <<build, result, passed, kube, registry, helm, shared, clashed,
                 faults>>

\* A second helm ls: is its status "deployed"?
ReadStatus(j) ==
  /\ pc[j] = "status"
  /\ \/ /\ Goes(j, IF Reached(j) # None /\ status[Mine(j)] = "deployed"
                   THEN "upgrade" ELSE "uninstall")
        /\ UNCHANGED faults
     \/ Fault(j) /\ Goes(j, "uninstall")
  /\ UNCHANGED <<build, result, passed, kube, registry, helm, shared, clashed>>

\* helm uninstall without --namespace looks for the release in the namespace
\* "default", where it is not.
Uninstall(j) ==
  /\ pc[j] = "uninstall"
  /\ Goes(j, "install")
  /\ UNCHANGED <<build, result, passed, kube, registry, helm, shared, clashed,
                 faults>>

\* A new revision of the service's release.
Deploys(j) ==
  /\ status' = [status EXCEPT ![Mine(j)] = "deployed"]
  /\ running' = [running EXCEPT ![Mine(j)] = commit[j]]

\* helm install: refused if the name is in use.
Install(j) ==
  /\ pc[j] = "install"
  /\ Goes(j, "upcommon")
  /\ \/ /\ Reached(j) # None /\ status[Mine(j)] = "absent"
        /\ \/ Deploys(j) /\ UNCHANGED faults
           \/ /\ Fault(j) /\ UNCHANGED running
              /\ \/ status' = [status EXCEPT ![Mine(j)] = "failed"]
                 \/ UNCHANGED status
     \/ /\ ~(Reached(j) # None /\ status[Mine(j)] = "absent")
        /\ UNCHANGED <<helm, faults>>
  /\ UNCHANGED <<build, result, passed, kube, registry, shared, clashed>>

\* helm upgrade: refused if nothing was ever deployed under the name, and it
\* may be if the last operation on it is not over.
Upgrade(j) ==
  /\ pc[j] = "upgrade"
  /\ Goes(j, "upcommon")
  /\ \/ /\ Reached(j) # None /\ running[Mine(j)] # 0
        /\ \/ Deploys(j) /\ UNCHANGED faults
           \/ /\ Fault(j) /\ UNCHANGED running
              /\ \/ status' = [status EXCEPT ![Mine(j)] = "failed"]
                 \/ UNCHANGED status
     \/ /\ ~(Reached(j) # None /\ status[Mine(j)] = "deployed")
        /\ UNCHANGED <<helm, faults>>
  /\ UNCHANGED <<build, result, passed, kube, registry, shared, clashed>>

\* helm upgrade ...-common, the script's last command: refused while another
\* operation on it is pending and when no revision was deployed.
UpgradeCommon(j) ==
  /\ pc[j] = "upcommon"
  /\ IF Reached(j) # None /\ common[Commons(j)] = "deployed"
     THEN /\ Goes(j, "uppingcommon")
          /\ common' = [common EXCEPT ![Commons(j)] = "pending"]
          /\ target' = [target EXCEPT ![j] = Reached(j)]
          /\ UNCHANGED result
     ELSE Goes(j, "idle") /\ Fails(j) /\ UNCHANGED shared
  /\ UNCHANGED <<build, passed, kube, registry, helm, clashed, faults>>

\* The upgrade and with it the build ends; after one that failed the next
\* upgrade is still accepted.
CommonUpgraded(j) ==
  /\ pc[j] = "uppingcommon"
  /\ Goes(j, "idle")
  /\ common' = [common EXCEPT ![<<target[j], EnvOf[j]>>] = "deployed"]
  /\ target' = [target EXCEPT ![j] = None]
  /\ \/ UNCHANGED <<result, faults>>
     \/ Fault(j) /\ Fails(j)
  /\ UNCHANGED <<build, passed, kube, registry, helm, clashed>>

\* The build is aborted or its node is lost.  A helm command it was running
\* leaves its release pending.
Abort(j) ==
  /\ pc[j] # "idle" /\ Fault(j)
  /\ Goes(j, "idle")
  /\ Fails(j)
  /\ target' = [target EXCEPT ![j] = None]
  /\ UNCHANGED <<build, passed, kube, registry, helm, common, clashed>>

-----------------------------------------------------------------------------

DeployScript(j) ==
  \/ RemoveConfig(j) \/ UpdateConfig(j)
  \/ FindCommon(j) \/ AddCommon(j) \/ CommonAdded(j)
  \/ Find(j) \/ ReadStatus(j) \/ Uninstall(j) \/ Install(j) \/ Upgrade(j)
  \/ UpgradeCommon(j) \/ CommonUpgraded(j)

\* The steps a build takes by itself; the gate's answer is SonarQube's.
BuildStep(j) ==
  \/ Configure(j) \/ Verify(j) \/ GateEnds(j)
  \/ BuildImage(j) \/ DeleteTag(j) \/ Push(j)
  \/ DeployScript(j)

Next ==
  \E j \in Job :
    StartBuild(j) \/ GatePasses(j) \/ BuildStep(j) \/ Expire(j) \/ Abort(j)

Spec == Init /\ [][Next]_vars

\* Jenkins goes on with what it started.  Nothing makes a commit appear, the
\* gate pass, an image expire or a build be aborted.
FairSpec == Spec /\ \A j \in Job : WF_vars(BuildStep(j))

-----------------------------------------------------------------------------
(* Properties                                                               *)

TypeOK ==
  /\ pc \in [Job -> {"idle", "config", "verify", "gate"} \cup Imaging]
  /\ builds \in [Job -> Nat] /\ commit \in [Job -> Nat]
  /\ node \in [Job -> Node]
  /\ result \in [Job -> {"SUCCESS", "FAILURE"}]
  /\ passed \in [Job -> SUBSET Commit]
  /\ kube \in [Node -> Cluster \cup {None}]
  /\ images \in SUBSET (Node \X Job \X Commit)
  /\ ecr \in [Job -> SUBSET Commit]
  /\ status \in [Cluster \X Job -> {"absent", "deployed", "failed"}]
  /\ running \in [Cluster \X Job -> Nat]
  /\ common \in [Cluster \X Env -> {"absent", "pending", "deployed", "failed"}]
  /\ target \in [Job -> Cluster \cup {None}]
  /\ clashed \in SUBSET Job
  /\ faults \in [Job -> 0 .. MaxFaults]

\* A job whose deployments shared their node with no other never has a release
\* in the cluster of another environment, even when update-kubeconfig fails
\* and the file of an earlier deployment would do.
OwnCluster ==
  \A j \in Job \ clashed : \A c \in Cluster \ {EnvOf[j]} :
    status[<<c, j>>] = "absent"

\* The image a release runs can be pulled again, when a node is replaced or
\* a pod moves: if no call of its own job failed it is in the repository, but
\* for the moment in which a rebuild of the same commit replaces it.
Pullable ==
  \A j \in Job \ clashed : LET r == running[<<EnvOf[j], j>>] IN
    faults[j] = 0 =>
      r = 0 \/ pc[j] = "push" \/ r \in ecr[j]

\* If no call of its own job failed, a build that ends as a success has its
\* commit running, though its status is that of the common release's upgrade
\* and whatever befell other services.
SuccessIsDeployed ==
  \A j \in Job \ clashed :
    faults[j] = 0 /\ pc[j] = "idle" /\ builds[j] > 0 /\ result[j] = "SUCCESS" =>
      LET r == <<EnvOf[j], j>>
      IN  status[r] = "deployed" /\ running[r] = commit[j]

Faultless == \A j \in Job : faults[j] = 0

\* When nothing failed anywhere, what makes the deployment of a gated build a
\* failure is that another service of its environment has a helm operation on
\* the common release under way at that very moment.
OnlyContentionFails ==
  [][\A j \in Job \ clashed :
       pc[j] = "upcommon" /\ pc'[j] = "idle" /\ Faultless' =>
         \E k \in Job \ {j} : EnvOf[k] = EnvOf[j] /\ target[k] = EnvOf[j]]_vars

\* Every build ends: the gate is waited for an hour, and no step waits for
\* another build.
BuildsEnd == \A j \in Job : pc[j] # "idle" ~> pc[j] = "idle"

\* Whatever fails and whoever shares a node, what an environment runs has
\* passed the gate and is no older than what it ran before.
Promise == INSTANCE GatedRelease WITH
  serving <- [j \in Job |-> running[<<EnvOf[j], j>>]]
GatedAsPromised == Promise!ReleaseSpec

\* What the script says it does with a release that is not deployed, "Deleting
\* the existing failing deployment.": when it goes on to install the service
\* again, the failed release is gone.
FailedIsDeleted ==
  [][\A j \in Job :
       /\ pc[j] = "uninstall" /\ pc'[j] = "install"
       /\ Reached(j) # None /\ status[Mine(j)] = "failed"
       => status'[Mine(j)] = "absent"]_vars

=============================================================================
