------------------------ MODULE ServiceDeployProofs -------------------------
(***************************************************************************)
(* Proofs about ServiceDeploy for every set of jobs, environments, nodes,   *)
(* executors and faults.                                                    *)
(***************************************************************************)
EXTENDS ServiceDeploy, FiniteSetTheorems, TLAPS

-----------------------------------------------------------------------------
(* The parts of the inductive invariants                                    *)

\* A build has a commit.
HasCommit == \A j \in Job : pc[j] # "idle" => commit[j] # 0

TypeInv == TypeOK /\ HasCommit

\* What is deployed has passed the gate and is not ahead of the branch.
Gated ==
  \A j \in Job :
    /\ pc[j] \in Imaging => commit[j] \in passed[j]
    /\ running[<<EnvOf[j], j>>] <= commit[j]

\* Two deployments on one node have clashed; a deployment that has not
\* has its own kubeconfig or none.
OwnConfig ==
  \A j \in Job \ clashed :
    /\ pc[j] \in InScript => Beside(j) = {} /\ Reached(j) \in {None, EnvOf[j]}

\* As long as no call of it failed: the script has its own cluster, takes the
\* branch that fits the release, and a finished build's commit is running.
OnTrack(j) ==
  LET r == <<EnvOf[j], j>> IN
    /\ \/ status[r] = "absent"
       \/ status[r] = "deployed" /\ running[r] # 0
    /\ pc[j] \in InScript \ {"kubeconfig"} => Reached(j) = EnvOf[j]
    /\ pc[j] = "install" => status[r] = "absent"
    /\ pc[j] = "status" \/ pc[j] = "upgrade" => status[r] = "deployed"
    /\ pc[j] # "uninstall"
    /\ pc[j] \in {"upcommon", "uppingcommon"} =>
         status[r] = "deployed" /\ running[r] = commit[j]
    /\ pc[j] = "idle" /\ builds[j] > 0 /\ result[j] = "SUCCESS" =>
         status[r] = "deployed" /\ running[r] = commit[j]

AllOnTrack == \A j \in Job \ clashed : faults[j] = 0 => OnTrack(j)

-----------------------------------------------------------------------------
(* Type correctness                                                         *)

\* A job's fault count stays within its bound.
LEMMA FaultType ==
  ASSUME TypeOK, NEW j \in Job, Fault(j)
  PROVE  faults' \in [Job -> 0 .. MaxFaults]
  BY BoundsAssumption DEF TypeOK, Fault

\* No build is under way at first.
LEMMA TypeInit == Init => TypeInv
  <1> SUFFICES ASSUME Init PROVE TypeInv
    OBVIOUS
  <1>1. TypeOK
    <2>1. 0 \in 0 .. MaxFaults
      BY BoundsAssumption
    <2> QED
      BY <2>1 DEF Init, TypeOK, Cluster
  <1> QED
    BY <1>1 DEF Init, TypeInv, HasCommit

\* The steps before the image is built keep the type.
LEMMA TypePipeline ==
  ASSUME TypeInv, NEW j \in Job,
         StartBuild(j) \/ Configure(j) \/ Verify(j) \/ GatePasses(j) \/ GateEnds(j)
  PROVE  TypeInv'
  <1> USE DEF TypeInv, TypeOK, HasCommit, Goes, Fails, build, registry, helm,
              shared, Commit
  <1>1. CASE StartBuild(j)
    BY <1>1 DEF StartBuild
  <1>2. CASE Configure(j)
    BY <1>2, FaultType DEF Configure
  <1>3. CASE Verify(j)
    BY <1>3 DEF Verify
  <1>4. CASE GatePasses(j)
    BY <1>4 DEF GatePasses, Imaging
  <1>5. CASE GateEnds(j)
    BY <1>5 DEF GateEnds
  <1> QED
    BY <1>1, <1>2, <1>3, <1>4, <1>5

\* The steps that make and push the image keep the type.
LEMMA TypeImage ==
  ASSUME TypeInv, NEW j \in Job,
         BuildImage(j) \/ DeleteTag(j) \/ Push(j) \/ Expire(j) \/ Abort(j)
  PROVE  TypeInv'
  <1> USE DEF TypeInv, TypeOK, HasCommit, Goes, Fails, build, registry, helm,
              shared, Commit, Imaging
  <1>1. CASE BuildImage(j)
    BY <1>1, FaultType DEF BuildImage, Image
  <1>2. CASE DeleteTag(j)
    BY <1>2, FaultType DEF DeleteTag, Untagged
  <1>3. CASE Push(j)
    <2>1. ecr' \in [Job -> SUBSET Commit]
      BY <1>3 DEF Push, Untagged
    <2>2. faults' \in [Job -> 0 .. MaxFaults]
      BY <1>3, FaultType DEF Push
    <2>3. images' \in SUBSET (Node \X Job \X Commit)
      BY <1>3 DEF Push
    <2> QED
      BY <1>3, <2>1, <2>2, <2>3 DEF Push
  <1>4. CASE Expire(j)
    BY <1>4 DEF Expire
  <1>5. CASE Abort(j)
    BY <1>5, FaultType DEF Abort
  <1> QED
    BY <1>1, <1>2, <1>3, <1>4, <1>5

\* The steps of the script keep the type.
LEMMA TypeScript ==
  ASSUME TypeInv, NEW j \in Job, DeployScript(j)
  PROVE  TypeInv'
  <1> USE JobsAssumption DEF TypeInv, TypeOK, HasCommit, Goes, Fails, build,
              registry, helm, shared, Cluster, Imaging, InScript
  <1>1. CASE RemoveConfig(j)
    BY <1>1 DEF RemoveConfig, Beside
  <1>2. CASE UpdateConfig(j)
    BY <1>2, FaultType DEF UpdateConfig
  <1>3. CASE FindCommon(j)
    BY <1>3, FaultType DEF FindCommon
  <1>4. CASE AddCommon(j)
    BY <1>4 DEF AddCommon, Commons, Reached
  <1>5. CASE CommonAdded(j)
    BY <1>5, FaultType DEF CommonAdded
  <1>6. CASE Find(j) \/ ReadStatus(j) \/ Uninstall(j)
    BY <1>6, FaultType DEF Find, ReadStatus, Uninstall
  <1>7. CASE Install(j)
    BY <1>7, FaultType DEF Install, Deploys, Mine, Reached
  <1>8. CASE Upgrade(j)
    <2>1. faults' \in [Job -> 0 .. MaxFaults]
      BY <1>8, FaultType DEF Upgrade
    <2>2. status' \in [Cluster \X Job -> {"absent", "deployed", "failed"}]
      BY <1>8 DEF Upgrade, Deploys
    <2>3. running' \in [Cluster \X Job -> Nat]
      BY <1>8 DEF Upgrade, Deploys
    <2> QED
      BY <1>8, <2>1, <2>2, <2>3 DEF Upgrade
  <1>9. CASE UpgradeCommon(j)
    BY <1>9 DEF UpgradeCommon, Commons, Reached
  <1>10. CASE CommonUpgraded(j)
    BY <1>10, FaultType DEF CommonUpgraded
  <1> QED
    BY <1>1, <1>2, <1>3, <1>4, <1>5, <1>6, <1>7, <1>8, <1>9, <1>10 DEF DeployScript

\* Every step keeps the type.
LEMMA TypeStep == TypeInv /\ [Next]_vars => TypeInv'
  <1> SUFFICES ASSUME TypeInv, [Next]_vars PROVE TypeInv'
    OBVIOUS
  <1>1. ASSUME UNCHANGED vars PROVE TypeInv'
    BY <1>1 DEF vars, build, registry, helm, shared, TypeInv, TypeOK, HasCommit
  <1>2. ASSUME NEW j \in Job,
               StartBuild(j) \/ GatePasses(j) \/ BuildStep(j) \/ Expire(j) \/ Abort(j)
        PROVE  TypeInv'
    BY <1>2, TypePipeline, TypeImage, TypeScript DEF BuildStep
  <1> QED
    BY <1>1, <1>2 DEF Next

\* The variables keep their types: fault counts stay within their bounds, and
\* no build runs without a commit.
THEOREM TypeCorrect == Spec => []TypeOK
  <1>1. Init => TypeInv
    BY TypeInit
  <1>2. TypeInv /\ [Next]_vars => TypeInv'
    BY TypeStep
  <1>3. TypeInv => TypeOK
    BY DEF TypeInv
  <1> QED
    BY <1>1, <1>2, <1>3, PTL DEF Spec

-----------------------------------------------------------------------------
(* ServiceDeploy implements GatedRelease                                    *)

\* The steps of the script that touch no release of a service.
LEMMA ScriptKeepsReleases ==
  ASSUME NEW j \in Job, DeployScript(j), ~Install(j), ~Upgrade(j)
  PROVE  UNCHANGED <<build, passed, helm>>
  BY DEF DeployScript, RemoveConfig, UpdateConfig, FindCommon, AddCommon,
         CommonAdded, Find, ReadStatus, Uninstall, UpgradeCommon, CommonUpgraded

\* Within the script the build stays past its gate, or ends.
LEMMA ScriptImages ==
  ASSUME TypeOK, NEW j \in Job, DeployScript(j)
  PROVE  /\ pc[j] \in Imaging
         /\ \A k \in Job \ {j} : pc'[k] = pc[k]
         /\ UNCHANGED <<build, passed>>
  BY DEF TypeOK, DeployScript, RemoveConfig, UpdateConfig, FindCommon, AddCommon,
         CommonAdded, Find, ReadStatus, Uninstall, Install, Upgrade,
         UpgradeCommon, CommonUpgraded, Goes, Imaging, InScript

\* A new revision in the job's own cluster is of the build's commit.
LEMMA DeployedCommit ==
  ASSUME TypeOK, NEW j \in Job, Install(j) \/ Upgrade(j)
  PROVE  /\ running' = running
            \/ running' = [running EXCEPT ![Mine(j)] = commit[j]]
         /\ UNCHANGED <<build, passed>>
  BY DEF Install, Upgrade, Deploys, helm

\* A release of its own is never touched by another job.
LEMMA DeployedGated ==
  ASSUME TypeInv, Gated, NEW j \in Job, Install(j) \/ Upgrade(j)
  PROVE  Gated'
  <1>1. pc[j] \in Imaging /\ commit[j] \in passed[j]
    BY DEF Install, Upgrade, Imaging, InScript, Gated
  <1>2. \A k \in Job : commit'[k] = commit[k] /\ passed'[k] = passed[k]
    BY DeployedCommit DEF TypeInv, build
  <1>3. \A k \in Job : pc'[k] \in Imaging => pc[k] \in Imaging
    BY <1>1 DEF Install, Upgrade, Goes, TypeInv, TypeOK
  <1>4. ASSUME NEW k \in Job
        PROVE  running'[<<EnvOf[k], k>>] <= commit[k]
    <2>1. running[<<EnvOf[k], k>>] <= commit[k] /\ commit[k] \in Nat
      BY DEF Gated, TypeInv, TypeOK
    <2>2. <<EnvOf[k], k>> \in Cluster \X Job
      BY JobsAssumption DEF Cluster
    <2>3. CASE running' = running
      BY <2>1, <2>3
    <2>4. CASE running' = [running EXCEPT ![Mine(j)] = commit[j]]
      <3>1. CASE <<EnvOf[k], k>> = Mine(j)
        <4>1. k = j
          BY <3>1 DEF Mine
        <4> QED
          BY <2>1, <2>2, <2>4, <3>1, <4>1 DEF TypeInv, TypeOK
      <3>2. CASE <<EnvOf[k], k>> # Mine(j)
        BY <2>1, <2>2, <2>4, <3>2 DEF TypeInv, TypeOK
      <3> QED
        BY <3>1, <3>2
    <2> QED
      BY <2>3, <2>4, DeployedCommit DEF TypeInv
  <1> QED
    BY <1>2, <1>3, <1>4 DEF Gated

\* Every step keeps what is deployed gated.
LEMMA GatedStep == TypeInv /\ Gated /\ [Next]_vars => Gated'
  <1> SUFFICES ASSUME TypeInv, Gated, [Next]_vars PROVE Gated'
    OBVIOUS
  <1> USE DEF build, registry, helm, shared, Goes
  <1>1. CASE UNCHANGED vars
    BY <1>1 DEF vars, Gated
  <1>2. ASSUME NEW j \in Job, StartBuild(j) PROVE Gated'
    <2>1. commit' \in [Job -> Nat] /\ \A k \in Job : commit[k] <= commit'[k]
      BY <1>2 DEF StartBuild, TypeInv, TypeOK
    <2>2. UNCHANGED <<running, passed>>
      BY <1>2 DEF StartBuild
    <2>3. \A k \in Job : pc'[k] \in Imaging => k # j /\ pc[k] \in Imaging
      BY <1>2 DEF StartBuild, TypeInv, TypeOK, Imaging, InScript
    <2>4. \A k \in Job \ {j} : commit'[k] = commit[k]
      BY <1>2 DEF StartBuild, TypeInv, TypeOK
    <2>5. ASSUME NEW k \in Job
          PROVE  running'[<<EnvOf[k], k>>] <= commit'[k]
      <3>1. running[<<EnvOf[k], k>>] \in Nat /\ commit[k] \in Nat
        BY JobsAssumption DEF TypeInv, TypeOK, Cluster
      <3> QED
        BY <2>1, <2>2, <3>1 DEF Gated
    <2> QED
      BY <2>2, <2>3, <2>4, <2>5 DEF Gated
  <1>3. ASSUME NEW j \in Job, Configure(j) \/ Verify(j) \/ GateEnds(j) \/ Abort(j)
        PROVE  Gated'
    BY <1>3 DEF Configure, Verify, GateEnds, Abort, TypeInv, TypeOK, Gated,
                Imaging, InScript
  <1>4. ASSUME NEW j \in Job, GatePasses(j) PROVE Gated'
    BY <1>4 DEF GatePasses, TypeInv, TypeOK, Gated
  <1>5. ASSUME NEW j \in Job, BuildImage(j) \/ DeleteTag(j) \/ Push(j) \/ Expire(j)
        PROVE  Gated'
    BY <1>5 DEF BuildImage, DeleteTag, Push, Expire, TypeInv, TypeOK, Gated,
                Imaging
  <1>6. ASSUME NEW j \in Job, Install(j) \/ Upgrade(j) PROVE Gated'
    BY <1>6, DeployedGated
  <1>7. ASSUME NEW j \in Job, DeployScript(j), ~Install(j), ~Upgrade(j)
        PROVE  Gated'
    <2>1. UNCHANGED <<commit, passed, running>>
      BY <1>7, ScriptKeepsReleases
    <2>2. \A k \in Job : pc'[k] \in Imaging => pc[k] \in Imaging
      BY <1>7, ScriptImages DEF TypeInv
    <2> QED
      BY <2>1, <2>2 DEF Gated
  <1> QED
    BY <1>1, <1>2, <1>3, <1>4, <1>5, <1>6, <1>7 DEF Next, BuildStep

\* The initial state is one of GatedRelease.
LEMMA PromiseInit == Init => Promise!Start
  BY JobsAssumption DEF Init, Promise!Start, Cluster

\* A deployment in the job's own cluster is a Roll, one elsewhere a stutter.
LEMMA DeployRolls ==
  ASSUME TypeInv, Gated, NEW j \in Job, Install(j) \/ Upgrade(j)
  PROVE  [Promise!Deliver]_(Promise!releases)
  <1> DEFINE serving == [k \in Job |-> running[<<EnvOf[k], k>>]]
  <1>1. commit[j] \in passed[j] /\ commit[j] >= serving[j]
    BY JobsAssumption DEF Install, Upgrade, Imaging, InScript, Gated, TypeInv,
                          TypeOK, Cluster
  <1>2. passed' = passed
    BY DeployedCommit DEF TypeInv
  <1>3. CASE running' = running
    BY <1>2, <1>3 DEF Promise!releases
  <1>4. CASE running' = [running EXCEPT ![Mine(j)] = commit[j]] /\ Reached(j) = EnvOf[j]
    <2>1. \A k \in Job : <<EnvOf[k], k>> \in Cluster \X Job
      BY JobsAssumption DEF Cluster
    <2>2. \A k \in Job : <<EnvOf[k], k>> = Mine(j) <=> k = j
      BY <1>4 DEF Mine
    <2>3. serving' = [serving EXCEPT ![j] = commit[j]]
      BY <1>4, <2>1, <2>2 DEF TypeInv, TypeOK
    <2>4. Promise!Roll(j)
      BY <1>1, <1>2, <2>3 DEF Promise!Roll
    <2> QED
      BY <2>4 DEF Promise!Deliver
  <1>5. CASE running' = [running EXCEPT ![Mine(j)] = commit[j]] /\ Reached(j) # EnvOf[j]
    <2>1. \A k \in Job : <<EnvOf[k], k>> # Mine(j)
      BY <1>5 DEF Mine
    <2>2. serving' = serving
      BY <1>5, <2>1, JobsAssumption DEF TypeInv, TypeOK, Cluster
    <2> QED
      BY <1>2, <2>2 DEF Promise!releases
  <1> QED
    BY <1>3, <1>4, <1>5, DeployedCommit DEF TypeInv

\* Every step is a Pass, a Roll or a stutter.
LEMMA PromiseStep ==
  TypeInv /\ Gated /\ [Next]_vars =>
    [Promise!Deliver]_(Promise!releases)
  <1> SUFFICES ASSUME TypeInv, Gated, [Next]_vars
               PROVE  [Promise!Deliver]_(Promise!releases)
    OBVIOUS
  <1>1. CASE UNCHANGED vars
    BY <1>1 DEF vars, helm, Promise!releases
  <1>2. ASSUME NEW j \in Job, GatePasses(j)
        PROVE  Promise!Deliver
    <2>1. commit[j] \in passed'[j]
      BY <1>2 DEF GatePasses, TypeInv, TypeOK
    <2>2. Promise!Pass(j)
      BY <1>2, <2>1 DEF GatePasses, Promise!Pass, helm
    <2> QED
      BY <2>2 DEF Promise!Deliver
  <1>3. ASSUME NEW j \in Job, Install(j) \/ Upgrade(j)
        PROVE  [Promise!Deliver]_(Promise!releases)
    BY <1>3, DeployRolls
  <1>4. ASSUME NEW j \in Job,
               \/ StartBuild(j) \/ Configure(j) \/ Verify(j) \/ GateEnds(j)
               \/ BuildImage(j) \/ DeleteTag(j) \/ Push(j) \/ Expire(j) \/ Abort(j)
        PROVE  UNCHANGED <<passed, running>>
    BY <1>4 DEF StartBuild, Configure, Verify, GateEnds, BuildImage, DeleteTag,
                Push, Expire, Abort, helm
  <1>5. ASSUME NEW j \in Job, DeployScript(j), ~Install(j), ~Upgrade(j)
        PROVE  UNCHANGED <<passed, running>>
    BY <1>5, ScriptKeepsReleases DEF helm
  <1> QED
    BY <1>1, <1>2, <1>3, <1>4, <1>5 DEF Next, BuildStep, Promise!releases

\* Whatever fails and whoever shares a node, an environment runs only gated
\* commits and never goes back to an older one.
THEOREM ReleasesAreGated == Spec => GatedAsPromised
  <1>1. Init => TypeInv /\ Gated
    <2>1. Init => Gated
      BY JobsAssumption DEF Init, Gated, Imaging, InScript, Cluster
    <2> QED
      BY <2>1, TypeInit
  <1>2. TypeInv /\ Gated /\ [Next]_vars => (TypeInv /\ Gated)'
    BY TypeStep, GatedStep
  <1>3. Init => Promise!Start
    BY PromiseInit
  <1>4. TypeInv /\ Gated /\ [Next]_vars =>
          [Promise!Deliver]_(Promise!releases)
    BY PromiseStep
  <1> QED
    BY <1>1, <1>2, <1>3, <1>4, PTL
    DEF Spec, GatedAsPromised, Promise!ReleaseSpec

-----------------------------------------------------------------------------
(* A deployment alone on its node has its own cluster                       *)

\* A step that leaves every kubeconfig alone and brings no job into the script
\* keeps the configurations apart.
LEMMA ConfigKept ==
  ASSUME OwnConfig, UNCHANGED <<kube, clashed>>,
         \A k \in Job : pc'[k] \in InScript => pc[k] \in InScript /\ node'[k] = node[k]
  PROVE  OwnConfig'
  <1> SUFFICES ASSUME NEW j \in Job \ clashed, pc'[j] \in InScript
               PROVE  Beside(j)' = {} /\ Reached(j)' \in {None, EnvOf[j]}
    BY DEF OwnConfig
  <1>1. Beside(j) = {} /\ Reached(j) \in {None, EnvOf[j]} /\ node'[j] = node[j]
    BY DEF OwnConfig
  <1>2. Beside(j)' = {}
    BY <1>1 DEF Beside
  <1> QED
    BY <1>1, <1>2 DEF Reached

\* Removing the kubeconfig under another deployment marks both.
LEMMA ConfigRemoved ==
  ASSUME TypeInv, OwnConfig, NEW k \in Job, RemoveConfig(k)
  PROVE  OwnConfig'
  <1> SUFFICES ASSUME NEW j \in Job, j \notin clashed', pc'[j] \in InScript
               PROVE  Beside(j)' = {} /\ Reached(j)' \in {None, EnvOf[j]}
    BY DEF OwnConfig
  <1>1. j \notin clashed
    BY DEF RemoveConfig
  <1>2. /\ \A i \in Job \ {k} : pc'[i] = pc[i]
        /\ node' = node /\ kube' = [kube EXCEPT ![node[k]] = None]
        /\ \A i \in Job : node[i] \in Node
    BY DEF RemoveConfig, Goes, build, TypeInv, TypeOK
  <1>3. CASE j = k
    <2>1. Beside(j) = {}
      BY <1>3 DEF RemoveConfig
    <2>2. Beside(j)' = {}
      BY <1>2, <1>3, <2>1 DEF Beside
    <2> QED
      BY <1>2, <1>3, <2>2 DEF Reached, TypeInv, TypeOK
  <1>4. CASE j # k
    <2>1. node[j] # node[k]
      BY <1>2, <1>4 DEF RemoveConfig, Beside
    <2>2. Beside(j) = {} /\ Reached(j) \in {None, EnvOf[j]}
      BY <1>1, <1>2, <1>4 DEF OwnConfig
    <2>3. Beside(j)' = {}
      BY <1>2, <2>1, <2>2 DEF Beside
    <2> QED
      BY <1>2, <2>1, <2>2, <2>3 DEF Reached, TypeInv, TypeOK
  <1> QED
    BY <1>3, <1>4

\* Writing the kubeconfig concerns a deployment alone on its node, or a clash.
LEMMA ConfigUpdated ==
  ASSUME TypeInv, OwnConfig, NEW k \in Job, UpdateConfig(k)
  PROVE  OwnConfig'
  <1> SUFFICES ASSUME NEW j \in Job \ clashed, pc'[j] \in InScript
               PROVE  Beside(j)' = {} /\ Reached(j)' \in {None, EnvOf[j]}
    BY DEF OwnConfig, UpdateConfig
  <1>1. /\ \A i \in Job \ {k} : pc'[i] = pc[i]
        /\ pc[k] \in InScript /\ node' = node
        /\ \A i \in Job : node[i] \in Node
    BY DEF UpdateConfig, Goes, build, InScript, TypeInv, TypeOK
  <1>2. Beside(j) = {} /\ Reached(j) \in {None, EnvOf[j]}
    BY <1>1 DEF OwnConfig
  <1>3. Beside(j)' = {}
    BY <1>1, <1>2 DEF Beside
  <1>4. kube' = kube \/ kube' = [kube EXCEPT ![node[k]] = EnvOf[k]]
    BY DEF UpdateConfig
  <1>5. CASE j = k
    BY <1>1, <1>2, <1>3, <1>4, <1>5 DEF Reached, TypeInv, TypeOK
  <1>6. CASE j # k
    <2>1. node[j] # node[k]
      BY <1>1, <1>2, <1>6 DEF Beside
    <2> QED
      BY <1>1, <1>2, <1>3, <1>4, <2>1 DEF Reached, TypeInv, TypeOK
  <1> QED
    BY <1>5, <1>6

\* Every step keeps the configurations of deployments that have not clashed.
LEMMA ConfigStep == TypeInv /\ OwnConfig /\ [Next]_vars => OwnConfig'
  <1> SUFFICES ASSUME TypeInv, OwnConfig, [Next]_vars PROVE OwnConfig'
    OBVIOUS
  <1> USE DEF Goes, build
  <1>1. CASE UNCHANGED vars
    BY <1>1, ConfigKept DEF vars
  <1>2. ASSUME NEW k \in Job,
               \/ StartBuild(k) \/ Configure(k) \/ Verify(k) \/ GatePasses(k)
               \/ GateEnds(k)
        PROVE  OwnConfig'
    <2>1. UNCHANGED <<kube, clashed>>
      BY <1>2 DEF StartBuild, Configure, Verify, GatePasses, GateEnds
    <2>2. pc'[k] \notin InScript
      BY <1>2 DEF StartBuild, Configure, Verify, GatePasses, GateEnds, TypeInv,
                  TypeOK, InScript
    <2>3. \A i \in Job \ {k} : pc'[i] = pc[i] /\ node'[i] = node[i]
      BY <1>2 DEF StartBuild, Configure, Verify, GatePasses, GateEnds, TypeInv,
                  TypeOK
    <2> QED
      BY <2>1, <2>2, <2>3, ConfigKept
  <1>3. ASSUME NEW k \in Job,
               BuildImage(k) \/ DeleteTag(k) \/ Push(k) \/ Expire(k) \/ Abort(k)
        PROVE  OwnConfig'
    <2>1. UNCHANGED <<kube, clashed, node>>
      BY <1>3 DEF BuildImage, DeleteTag, Push, Expire, Abort
    <2>2. \A i \in Job : pc'[i] \in InScript => pc[i] \in InScript
      BY <1>3 DEF BuildImage, DeleteTag, Push, Expire, Abort, TypeInv, TypeOK,
                  InScript
    <2> QED
      BY <2>1, <2>2, ConfigKept
  <1>4. ASSUME NEW k \in Job, RemoveConfig(k) \/ UpdateConfig(k) PROVE OwnConfig'
    BY <1>4, ConfigRemoved, ConfigUpdated
  <1>5. ASSUME NEW k \in Job,
               \/ FindCommon(k) \/ AddCommon(k) \/ CommonAdded(k) \/ Find(k)
               \/ ReadStatus(k) \/ Uninstall(k) \/ Install(k) \/ Upgrade(k)
               \/ UpgradeCommon(k) \/ CommonUpgraded(k)
        PROVE  OwnConfig'
    <2>1. UNCHANGED <<kube, clashed, node>>
      BY <1>5 DEF FindCommon, AddCommon, CommonAdded, Find, ReadStatus, Uninstall,
                  Install, Upgrade, UpgradeCommon, CommonUpgraded
    <2>2. pc[k] \in InScript /\ \A i \in Job \ {k} : pc'[i] = pc[i]
      BY <1>5 DEF FindCommon, AddCommon, CommonAdded, Find, ReadStatus, Uninstall,
                  Install, Upgrade, UpgradeCommon, CommonUpgraded, TypeInv, TypeOK,
                  InScript
    <2> QED
      BY <2>1, <2>2, ConfigKept
  <1> QED
    BY <1>1, <1>2, <1>3, <1>4, <1>5 DEF Next, BuildStep, DeployScript

\* A job never changes the releases of another.
LEMMA OthersRelease ==
  ASSUME TypeInv, NEW k \in Job, Install(k) \/ Upgrade(k), NEW j \in Job \ {k},
         NEW c \in Cluster
  PROVE  status'[<<c, j>>] = status[<<c, j>>] /\ running'[<<c, j>>] = running[<<c, j>>]
  <1>1. <<c, j>> # Mine(k)
    BY DEF Mine
  <1> QED
    BY <1>1 DEF Install, Upgrade, Deploys, helm, TypeInv, TypeOK

\* Steps other than Install and Upgrade leave the releases alone.
LEMMA ReleasesKept ==
  ASSUME [Next]_vars, \A k \in Job : ~Install(k) /\ ~Upgrade(k)
  PROVE  UNCHANGED helm
  BY ScriptKeepsReleases
  DEF Next, BuildStep, vars, StartBuild, Configure, Verify, GatePasses, GateEnds,
      BuildImage, DeleteTag, Push, Expire, Abort

\* A deployment that has not clashed puts its release in its own cluster.
LEMMA ClusterStep ==
  TypeInv /\ OwnConfig /\ OwnCluster /\ [Next]_vars => OwnCluster'
  <1> SUFFICES ASSUME TypeInv, OwnConfig, OwnCluster, [Next]_vars
               PROVE  OwnCluster'
    OBVIOUS
  <1>1. clashed \subseteq clashed'
    BY DEF Next, BuildStep, DeployScript, vars, StartBuild, Configure, Verify,
           GatePasses, GateEnds, BuildImage, DeleteTag, Push, Expire, Abort,
           RemoveConfig, UpdateConfig, FindCommon, AddCommon, CommonAdded, Find,
           ReadStatus, Uninstall, Install, Upgrade, UpgradeCommon, CommonUpgraded
  <1>2. CASE \A k \in Job : ~Install(k) /\ ~Upgrade(k)
    BY <1>1, <1>2, ReleasesKept DEF OwnCluster, helm
  <1>3. ASSUME NEW k \in Job, Install(k) \/ Upgrade(k)
        PROVE  OwnCluster'
    <2> SUFFICES ASSUME NEW j \in Job, j \notin clashed', NEW c \in Cluster \ {EnvOf[j]}
                 PROVE  status'[<<c, j>>] = "absent"
      BY DEF OwnCluster
    <2>1. status[<<c, j>>] = "absent"
      BY <1>1 DEF OwnCluster
    <2>2. CASE j # k
      BY <1>3, <2>1, <2>2, OthersRelease
    <2>3. CASE j = k
      <3>1. Reached(j) \in {None, EnvOf[j]}
        BY <1>1, <1>3, <2>3 DEF OwnConfig, Install, Upgrade, InScript
      <3>2. Reached(j) # None \/ status' = status
        BY <1>3, <2>3 DEF Install, Upgrade, helm
      <3>3. <<c, j>> # Mine(j) \/ status' = status
        BY <3>1, <3>2 DEF Mine
      <3> QED
        BY <1>3, <2>1, <2>3, <3>3 DEF Install, Upgrade, Deploys, helm, TypeInv, TypeOK
    <2> QED
      BY <2>2, <2>3
  <1> QED
    BY <1>2, <1>3

\* A job whose deployments shared their node with no other never has a release
\* in another environment's cluster.
THEOREM StaysInOwnCluster == Spec => []OwnCluster
  <1>1. Init => TypeInv /\ OwnConfig /\ OwnCluster
    <2>1. Init => OwnConfig /\ OwnCluster
      BY JobsAssumption DEF Init, OwnConfig, OwnCluster, InScript, Cluster
    <2> QED
      BY <2>1, TypeInit
  <1>2. TypeInv /\ OwnConfig /\ OwnCluster /\ [Next]_vars =>
          (TypeInv /\ OwnConfig /\ OwnCluster)'
    BY TypeStep, ConfigStep, ClusterStep
  <1> QED
    BY <1>1, <1>2, PTL DEF Spec

-----------------------------------------------------------------------------
(* A build that ends as a success has its commit running                    *)

\* A fault of a job is counted.
LEMMA FaultCounts ==
  ASSUME TypeOK, NEW j \in Job, Fault(j)
  PROVE  faults'[j] # 0
  BY BoundsAssumption DEF TypeOK, Fault

\* The steps of other jobs leave alone what OnTrack says of a job that has not
\* clashed, its kubeconfig included.
LEMMA OthersKeepTrack ==
  ASSUME TypeInv, OwnConfig, NEW k \in Job, NEW j \in Job \ {k}, j \notin clashed',
         StartBuild(k) \/ GatePasses(k) \/ BuildStep(k) \/ Expire(k) \/ Abort(k),
         OnTrack(j)
  PROVE  OnTrack(j)'
  <1> USE DEF build, helm, shared, registry
  <1>1. /\ pc'[j] = pc[j] /\ builds'[j] = builds[j] /\ result'[j] = result[j]
        /\ commit'[j] = commit[j] /\ node'[j] = node[j]
    BY DEF BuildStep, DeployScript, StartBuild, Configure, Verify, GatePasses,
           GateEnds, BuildImage, DeleteTag, Push, Expire, Abort, RemoveConfig,
           UpdateConfig, FindCommon, AddCommon, CommonAdded, Find, ReadStatus,
           Uninstall, Install, Upgrade, UpgradeCommon, CommonUpgraded, Goes, Fails,
           TypeInv, TypeOK
  <1>2. /\ status'[<<EnvOf[j], j>>] = status[<<EnvOf[j], j>>]
        /\ running'[<<EnvOf[j], j>>] = running[<<EnvOf[j], j>>]
    <2>1. CASE Install(k) \/ Upgrade(k)
      BY <2>1, OthersRelease, JobsAssumption DEF Cluster
    <2>2. CASE ~Install(k) /\ ~Upgrade(k)
      BY <2>2 DEF BuildStep, DeployScript, StartBuild, Configure, Verify,
              GatePasses, GateEnds, BuildImage, DeleteTag, Push, Expire, Abort,
              RemoveConfig, UpdateConfig, FindCommon, AddCommon, CommonAdded, Find,
              ReadStatus, Uninstall, UpgradeCommon, CommonUpgraded
    <2> QED
      BY <2>1, <2>2
  <1>3. ASSUME pc[j] \in InScript PROVE Reached(j)' = Reached(j)
    <2>1. CASE RemoveConfig(k)
      <3>1. node[j] # node[k]
        BY <1>3, <2>1 DEF RemoveConfig, Beside
      <3> QED
        BY <1>1, <2>1, <3>1 DEF RemoveConfig, Reached, TypeInv, TypeOK
    <2>2. CASE UpdateConfig(k)
      <3>1. Beside(j) = {}
        BY <1>3, <2>2 DEF UpdateConfig, OwnConfig
      <3>2. node[j] # node[k]
        BY <2>2, <3>1 DEF UpdateConfig, Beside, InScript
      <3> QED
        BY <1>1, <2>2, <3>2 DEF UpdateConfig, Reached, TypeInv, TypeOK
    <2>3. CASE ~RemoveConfig(k) /\ ~UpdateConfig(k)
      <3>1. kube' = kube
        BY <2>3 DEF BuildStep, DeployScript, StartBuild, Configure, Verify,
              GatePasses, GateEnds, BuildImage, DeleteTag, Push, Expire, Abort,
              FindCommon, AddCommon, CommonAdded, Find, ReadStatus, Uninstall,
              Install, Upgrade, UpgradeCommon, CommonUpgraded
      <3> QED
        BY <1>1, <3>1 DEF Reached
    <2> QED
      BY <2>1, <2>2, <2>3
  <1> QED
    BY <1>1, <1>2, <1>3 DEF OnTrack

\* So do the job's own steps before the script: none of them ends the build as
\* a success.
LEMMA PipelineOnTrack ==
  ASSUME TypeInv, NEW j \in Job, OnTrack(j), faults'[j] = 0,
         \/ StartBuild(j) \/ Configure(j) \/ Verify(j) \/ GatePasses(j) \/ GateEnds(j)
         \/ BuildImage(j) \/ DeleteTag(j) \/ Push(j) \/ RemoveConfig(j)
  PROVE  OnTrack(j)'
  <1>1. UNCHANGED <<status, running>>
    BY DEF StartBuild, Configure, Verify, GatePasses, GateEnds, BuildImage,
           DeleteTag, Push, RemoveConfig, helm
  <1>2. \/ pc'[j] \in {"config", "verify", "gate", "build", "untag", "push",
                       "rmconfig", "kubeconfig"}
        \/ pc'[j] = "idle" /\ result'[j] = "FAILURE"
    BY DEF StartBuild, Configure, Verify, GatePasses, GateEnds, BuildImage,
           DeleteTag, Push, RemoveConfig, Goes, Fails, TypeInv, TypeOK
  <1> QED
    BY <1>1, <1>2 DEF OnTrack, InScript

\* And the steps of the script, with the config its own.
LEMMA ScriptOnTrack ==
  ASSUME TypeInv, NEW j \in Job, OnTrack(j), faults'[j] = 0,
         DeployScript(j), ~RemoveConfig(j)
  PROVE  OnTrack(j)'
  <1> DEFINE r == <<EnvOf[j], j>>
  <1> USE DEF Goes, Fails, build
  <1>1. ~Fault(j)
    BY FaultCounts DEF TypeInv
  <1>2. EnvOf[j] \in Cluster /\ EnvOf[j] # None /\ r \in Cluster \X Job
    BY JobsAssumption DEF Cluster
  <1>3. pc[j] \in InScript \ {"kubeconfig"} => Reached(j) = EnvOf[j] /\ Mine(j) = r
    BY DEF OnTrack, Mine
  <1>4. CASE UpdateConfig(j)
    <2>1. Reached(j)' = EnvOf[j] /\ pc'[j] = "findcommon"
      BY <1>1, <1>4 DEF UpdateConfig, Reached, TypeInv, TypeOK
    <2> QED
      BY <1>4, <2>1 DEF UpdateConfig, OnTrack, helm
  <1>5. CASE FindCommon(j) \/ AddCommon(j) \/ CommonAdded(j)
    <2>1. /\ pc'[j] \in {"addcommon", "addingcommon", "find"}
          /\ UNCHANGED <<status, running, kube, node>>
          /\ pc[j] \in InScript \ {"kubeconfig"}
      BY <1>5 DEF FindCommon, AddCommon, CommonAdded, TypeInv, TypeOK, helm, InScript
    <2> QED
      BY <1>3, <2>1 DEF OnTrack, Reached
  <1>6. CASE Find(j)
    <2>1. Reached(j) = EnvOf[j] /\ Mine(j) = r
      BY <1>3, <1>6 DEF Find, InScript
    <2>2. \/ pc'[j] = "status" /\ status[r] # "absent"
          \/ pc'[j] = "install" /\ status[r] = "absent"
      BY <1>1, <1>2, <1>6, <2>1 DEF Find, TypeInv, TypeOK
    <2> QED
      BY <1>6, <2>1, <2>2 DEF Find, OnTrack, Reached, helm
  <1>7. CASE ReadStatus(j)
    <2>1. Reached(j) = EnvOf[j] /\ Mine(j) = r /\ status[r] = "deployed"
      BY <1>3, <1>7 DEF ReadStatus, InScript, OnTrack
    <2>2. pc'[j] = "upgrade"
      BY <1>1, <1>2, <1>7, <2>1 DEF ReadStatus, TypeInv, TypeOK
    <2> QED
      BY <1>7, <2>1, <2>2 DEF ReadStatus, OnTrack, Reached, helm
  <1>8. CASE Uninstall(j)
    BY <1>8 DEF Uninstall, OnTrack
  <1>9. CASE Install(j) \/ Upgrade(j)
    <2>1. Reached(j) = EnvOf[j] /\ Mine(j) = r
      BY <1>3, <1>9 DEF Install, Upgrade, InScript
    <2>2. Deploys(j) /\ pc'[j] = "upcommon" /\ UNCHANGED <<kube, node, commit>>
      <3>1. CASE Install(j)
        BY <1>1, <1>2, <2>1, <3>1 DEF Install, OnTrack, TypeInv, TypeOK
      <3>2. CASE Upgrade(j)
        BY <1>1, <1>2, <2>1, <3>2 DEF Upgrade, OnTrack, TypeInv, TypeOK
      <3> QED
        BY <1>9, <3>1, <3>2
    <2>3. status'[r] = "deployed" /\ running'[r] = commit[j]
      BY <1>2, <2>1, <2>2 DEF Deploys, TypeInv, TypeOK
    <2>4. commit[j] # 0
      BY <1>9 DEF Install, Upgrade, TypeInv, HasCommit
    <2> QED
      BY <2>1, <2>2, <2>3, <2>4 DEF OnTrack, Reached
  <1>10. CASE UpgradeCommon(j)
    <2>1. \/ pc'[j] = "uppingcommon"
          \/ pc'[j] = "idle" /\ result'[j] = "FAILURE"
      BY <1>10 DEF UpgradeCommon, TypeInv, TypeOK
    <2> QED
      BY <1>10, <2>1 DEF UpgradeCommon, OnTrack, Reached, helm, InScript
  <1>11. CASE CommonUpgraded(j)
    <2>1. pc'[j] = "idle"
      BY <1>11 DEF CommonUpgraded, TypeInv, TypeOK
    <2> QED
      BY <1>11, <2>1 DEF CommonUpgraded, OnTrack, helm, InScript
  <1> QED
    BY <1>4, <1>5, <1>6, <1>7, <1>8, <1>9, <1>10, <1>11 DEF DeployScript

\* Every step keeps the jobs on track.
LEMMA TrackStep ==
  TypeInv /\ OwnConfig /\ AllOnTrack /\ [Next]_vars => AllOnTrack'
  <1> SUFFICES ASSUME TypeInv, OwnConfig, AllOnTrack, [Next]_vars,
                      NEW j \in Job, j \notin clashed', faults'[j] = 0
               PROVE  OnTrack(j)'
    BY DEF AllOnTrack
  <1>1. CASE UNCHANGED vars
    BY <1>1 DEF vars, build, helm, AllOnTrack, OnTrack, Reached
  <1>2. ASSUME NEW k \in Job,
               StartBuild(k) \/ GatePasses(k) \/ BuildStep(k) \/ Expire(k) \/ Abort(k)
        PROVE  OnTrack(j)'
    <2>1. j \notin clashed
      BY <1>2 DEF BuildStep, DeployScript, StartBuild, Configure, Verify, GatePasses,
             GateEnds, BuildImage, DeleteTag, Push, Expire, Abort, RemoveConfig,
             UpdateConfig, FindCommon, AddCommon, CommonAdded, Find, ReadStatus,
             Uninstall, Install, Upgrade, UpgradeCommon, CommonUpgraded
    <2>2. faults[j] = 0
      <3>1. faults' = faults \/ Fault(k)
        BY <1>2 DEF BuildStep, DeployScript, StartBuild, Configure, Verify,
               GatePasses, GateEnds, BuildImage, DeleteTag, Push, Expire, Abort,
               RemoveConfig, UpdateConfig, FindCommon, AddCommon, CommonAdded, Find,
               ReadStatus, Uninstall, Install, Upgrade, UpgradeCommon, CommonUpgraded
      <3> QED
        BY <3>1, FaultCounts DEF Fault, TypeInv, TypeOK
    <2>3. OnTrack(j)
      BY <2>1, <2>2 DEF AllOnTrack
    <2>4. CASE j # k
      BY <1>2, <2>3, <2>4, OthersKeepTrack
    <2>5. CASE j = k /\ Abort(j)
      BY <2>5, FaultCounts DEF Abort, TypeInv
    <2>6. CASE j = k /\ Expire(j)
      BY <2>3, <2>6 DEF Expire, OnTrack, Reached, build, helm
    <2>7. CASE j = k /\ DeployScript(j) /\ ~RemoveConfig(j)
      BY <2>3, <2>7, ScriptOnTrack
    <2> QED
      BY <1>2, <2>3, <2>4, <2>5, <2>6, <2>7, PipelineOnTrack DEF BuildStep, DeployScript
  <1> QED
    BY <1>1, <1>2 DEF Next

\* A build without a failing call of its own that ends as a success has its
\* commit running in its environment, if its job did not clash.
THEOREM SuccessfulIsDeployed == Spec => []SuccessIsDeployed
  <1>1. Init => TypeInv /\ OwnConfig /\ AllOnTrack
    <2>1. Init => OwnConfig /\ AllOnTrack
      BY JobsAssumption DEF Init, OwnConfig, AllOnTrack, OnTrack, InScript, Cluster
    <2> QED
      BY <2>1, TypeInit
  <1>2. TypeInv /\ OwnConfig /\ AllOnTrack /\ [Next]_vars =>
          (TypeInv /\ OwnConfig /\ AllOnTrack)'
    BY TypeStep, ConfigStep, TrackStep
  <1>3. AllOnTrack => SuccessIsDeployed
    BY DEF AllOnTrack, OnTrack, SuccessIsDeployed
  <1> QED
    BY <1>1, <1>2, <1>3, PTL DEF Spec

-----------------------------------------------------------------------------
(* What runs can be pulled again                                            *)

\* The steps from the push to the deployment.
Pushed == {"rmconfig", "kubeconfig", "findcommon", "addcommon", "addingcommon",
           "find", "status", "uninstall", "install", "upgrade"}

\* As long as no call of a job failed: it has the image it is to push; what runs
\* is in the registry, or is about to be pushed again; and nothing is newer
\* there than what runs but the commit that is being deployed.
InRegistry(j) ==
  LET r == running[<<EnvOf[j], j>>] IN
    /\ pc[j] \in {"untag", "push"} => Image(j) \in images
    /\ r # 0 => r \in ecr[j] \/ (pc[j] = "push" /\ r = commit[j])
    /\ pc[j] \in Pushed => commit[j] \in ecr[j]
    /\ \A d \in ecr[j] : d <= r \/ (pc[j] \in Pushed /\ d = commit[j])

AllInRegistry == \A j \in Job \ clashed : faults[j] = 0 => InRegistry(j)

\* What a step of one job leaves alone of another.
LEMMA OthersStay ==
  ASSUME TypeInv, NEW k \in Job, NEW j \in Job \ {k},
         StartBuild(k) \/ GatePasses(k) \/ BuildStep(k) \/ Expire(k) \/ Abort(k)
  PROVE  /\ pc'[j] = pc[j] /\ commit'[j] = commit[j] /\ node'[j] = node[j]
         /\ ecr'[j] = ecr[j] /\ target'[j] = target[j]
         /\ Image(j) \in images => Image(j)' \in images'
         /\ running'[<<EnvOf[j], j>>] = running[<<EnvOf[j], j>>]
  <1> USE DEF build, helm, shared, registry
  <1>1. /\ pc'[j] = pc[j] /\ commit'[j] = commit[j] /\ node'[j] = node[j]
        /\ target'[j] = target[j]
    BY DEF BuildStep, DeployScript, StartBuild, Configure, Verify, GatePasses,
           GateEnds, BuildImage, DeleteTag, Push, Expire, Abort, RemoveConfig,
           UpdateConfig, FindCommon, AddCommon, CommonAdded, Find, ReadStatus,
           Uninstall, Install, Upgrade, UpgradeCommon, CommonUpgraded, Goes, Fails,
           TypeInv, TypeOK
  <1>2. ecr'[j] = ecr[j] /\ (images \ {Image(k)} \subseteq images')
    BY DEF BuildStep, DeployScript, StartBuild, Configure, Verify, GatePasses,
           GateEnds, BuildImage, DeleteTag, Push, Expire, Abort, RemoveConfig,
           UpdateConfig, FindCommon, AddCommon, CommonAdded, Find, ReadStatus,
           Uninstall, Install, Upgrade, UpgradeCommon, CommonUpgraded, TypeInv, TypeOK
  <1>3. Image(j)' = Image(j) /\ Image(j) # Image(k)
    BY <1>1 DEF Image
  <1>4. running'[<<EnvOf[j], j>>] = running[<<EnvOf[j], j>>]
    <2>1. CASE Install(k) \/ Upgrade(k)
      BY <2>1, OthersRelease, JobsAssumption DEF Cluster
    <2>2. CASE ~Install(k) /\ ~Upgrade(k)
      BY <2>2 DEF BuildStep, DeployScript, StartBuild, Configure, Verify,
              GatePasses, GateEnds, BuildImage, DeleteTag, Push, Expire, Abort,
              RemoveConfig, UpdateConfig, FindCommon, AddCommon, CommonAdded, Find,
              ReadStatus, Uninstall, UpgradeCommon, CommonUpgraded
    <2> QED
      BY <2>1, <2>2
  <1> QED
    BY <1>1, <1>2, <1>3, <1>4

\* Clashes and faults are only added to.
LEMMA TroubleGrows ==
  ASSUME TypeInv, NEW k \in Job,
         StartBuild(k) \/ GatePasses(k) \/ BuildStep(k) \/ Expire(k) \/ Abort(k)
  PROVE  /\ clashed \subseteq clashed'
         /\ \A j \in Job : faults'[j] = 0 => faults[j] = 0
  <1>1. clashed \subseteq clashed'
    BY DEF BuildStep, DeployScript, StartBuild, Configure, Verify, GatePasses,
           GateEnds, BuildImage, DeleteTag, Push, Expire, Abort, RemoveConfig,
           UpdateConfig, FindCommon, AddCommon, CommonAdded, Find, ReadStatus,
           Uninstall, Install, Upgrade, UpgradeCommon, CommonUpgraded
  <1>2. faults' = faults \/ Fault(k)
    BY DEF BuildStep, DeployScript, StartBuild, Configure, Verify, GatePasses,
           GateEnds, BuildImage, DeleteTag, Push, Expire, Abort, RemoveConfig,
           UpdateConfig, FindCommon, AddCommon, CommonAdded, Find, ReadStatus,
           Uninstall, Install, Upgrade, UpgradeCommon, CommonUpgraded
  <1> QED
    BY <1>1, <1>2, FaultCounts DEF Fault, TypeInv, TypeOK

\* A deployment on track is one of its commit, in its own cluster.
LEMMA DeploysOwn ==
  ASSUME TypeInv, NEW j \in Job, OnTrack(j), faults'[j] = 0, Install(j) \/ Upgrade(j)
  PROVE  running'[<<EnvOf[j], j>>] = commit[j]
  <1>1. ~Fault(j)
    BY FaultCounts DEF TypeInv
  <1>2. EnvOf[j] # None /\ <<EnvOf[j], j>> \in Cluster \X Job
    BY JobsAssumption DEF Cluster
  <1>3. Reached(j) = EnvOf[j] /\ Mine(j) = <<EnvOf[j], j>>
    BY DEF Install, Upgrade, InScript, OnTrack, Mine
  <1>4. Deploys(j)
    <2>1. CASE Install(j)
      BY <1>1, <1>2, <1>3, <2>1 DEF Install, OnTrack, TypeInv, TypeOK
    <2>2. CASE Upgrade(j)
      BY <1>1, <1>2, <1>3, <2>2 DEF Upgrade, OnTrack, TypeInv, TypeOK
    <2> QED
      BY <2>1, <2>2
  <1> QED
    BY <1>2, <1>3, <1>4 DEF Deploys, TypeInv, TypeOK

\* A set that holds two commits at most is not beyond a policy that keeps two.
LEMMA TwoAreKept ==
  ASSUME NEW a, NEW b, NEW S \in SUBSET {a, b}
  PROVE  Cardinality(S) \in Nat /\ Cardinality(S) <= 2
  <1>1. IsFiniteSet({a, b}) /\ Cardinality({a, b}) \in Nat /\ Cardinality({a, b}) <= 2
    <2>1. IsFiniteSet({b}) /\ Cardinality({b}) = 1
      BY FS_Singleton
    <2>2. {a, b} = {b} \cup {a}
      OBVIOUS
    <2>3. /\ IsFiniteSet({a, b})
          /\ Cardinality({a, b}) = Cardinality({b})
             \/ Cardinality({a, b}) = Cardinality({b}) + 1
      BY <2>1, <2>2, FS_AddElement
    <2> QED
      BY <2>1, <2>3
  <1>2. IsFiniteSet(S) /\ Cardinality(S) <= Cardinality({a, b})
    BY <1>1, FS_Subset
  <1>3. Cardinality(S) \in Nat
    BY <1>2, FS_CardinalityType
  <1> QED
    BY <1>1, <1>2, <1>3

\* What expires is older than what runs and than what is being deployed.
LEMMA ExpireSpares ==
  ASSUME Keep >= 2, TypeInv, Gated, NEW j \in Job, InRegistry(j), Expire(j)
  PROVE  InRegistry(j)'
  <1> DEFINE r == running[<<EnvOf[j], j>>]
  <1>1. PICK c \in ecr[j] : /\ \A d \in ecr[j] : c <= d
                            /\ ecr' = [ecr EXCEPT ![j] = @ \ {c}]
    BY DEF Expire
  <1>2. /\ UNCHANGED <<pc, commit, node, images, running>>
        /\ ecr'[j] = ecr[j] \ {c}
    BY <1>1 DEF Expire, build, helm, TypeInv, TypeOK
  <1>3. /\ r \in Nat /\ commit[j] \in Nat /\ r <= commit[j]
        /\ \A d \in ecr[j] : d \in Nat
    BY JobsAssumption DEF Gated, TypeInv, TypeOK, Cluster, Commit
  <1>4. ~(ecr[j] \subseteq {r, commit[j]})
    <2> SUFFICES ASSUME ecr[j] \subseteq {r, commit[j]} PROVE FALSE
      OBVIOUS
    <2>1. Cardinality(ecr[j]) \in Nat /\ Cardinality(ecr[j]) <= 2
      BY TwoAreKept
    <2> QED
      BY <2>1, BoundsAssumption DEF Expire
  <1>5. c # r /\ (pc[j] \in Pushed => c # commit[j])
    BY <1>1, <1>3, <1>4 DEF InRegistry
  <1> QED
    BY <1>2, <1>5 DEF InRegistry, Image

\* The job's own steps keep the registry in order: the tag is deleted with the
\* image at hand, pushed, and then deployed.
LEMMA OwnInRegistry ==
  ASSUME TypeInv, Gated, NEW j \in Job, OnTrack(j), InRegistry(j), faults'[j] = 0,
         StartBuild(j) \/ GatePasses(j) \/ BuildStep(j)
  PROVE  InRegistry(j)'
  <1> DEFINE r == running[<<EnvOf[j], j>>]
  <1> USE DEF Goes, Fails, build, helm, registry
  <1>1. ~Fault(j)
    BY FaultCounts DEF TypeInv
  <1>2. /\ r \in Nat /\ commit[j] \in Nat /\ r <= commit[j]
        /\ \A d \in ecr[j] : d \in Nat
    BY JobsAssumption DEF Gated, TypeInv, TypeOK, Cluster, Commit
  <1>3. CASE \/ StartBuild(j) \/ Configure(j) \/ Verify(j) \/ GatePasses(j)
             \/ GateEnds(j)
    <2>1. UNCHANGED <<running, ecr>>
      BY <1>3 DEF StartBuild, Configure, Verify, GatePasses, GateEnds
    <2>2. /\ pc[j] \notin Pushed \cup {"untag", "push"}
          /\ pc'[j] \notin Pushed \cup {"untag", "push"}
      BY <1>3 DEF StartBuild, Configure, Verify, GatePasses, GateEnds, TypeInv,
                  TypeOK, Pushed
    <2> QED
      BY <2>1, <2>2 DEF InRegistry
  <1>4. CASE BuildImage(j)
    <2>1. /\ pc[j] = "build" /\ pc'[j] = "untag"
          /\ UNCHANGED <<running, ecr, commit, node>> /\ Image(j) \in images'
      BY <1>1, <1>4 DEF BuildImage, TypeInv, TypeOK
    <2> QED
      BY <2>1 DEF InRegistry, Image, Pushed
  <1>5. CASE DeleteTag(j)
    <2>1. /\ pc[j] = "untag" /\ pc'[j] = "push"
          /\ UNCHANGED <<running, images, commit, node>>
          /\ ecr'[j] = ecr[j] \ {commit[j]}
      BY <1>1, <1>5 DEF DeleteTag, Untagged, TypeInv, TypeOK
    <2> QED
      BY <2>1 DEF InRegistry, Image, Pushed
  <1>6. CASE Push(j)
    <2>1. /\ pc[j] = "push" /\ pc'[j] = "rmconfig"
          /\ UNCHANGED <<running, commit, node>>
      BY <1>6 DEF Push, TypeInv, TypeOK
    <2>2. Image(j) \in images
      BY <2>1 DEF InRegistry
    <2>3. ecr'[j] = (ecr[j] \ {commit[j]}) \cup {commit[j]}
      BY <1>1, <1>6, <2>2 DEF Push, Untagged, TypeInv, TypeOK
    <2> QED
      BY <2>1, <2>3 DEF InRegistry, Pushed
  <1>7. CASE Install(j) \/ Upgrade(j)
    <2>1. running'[<<EnvOf[j], j>>] = commit[j]
      BY <1>7, DeploysOwn
    <2>2. /\ pc[j] \in Pushed /\ pc'[j] \notin Pushed \cup {"untag", "push"}
          /\ UNCHANGED <<ecr, commit>>
      BY <1>7 DEF Install, Upgrade, Pushed, TypeInv, TypeOK
    <2>3. commit[j] \in ecr[j] /\ \A d \in ecr[j] : d <= commit[j]
      BY <1>2, <2>2 DEF InRegistry
    <2> QED
      BY <2>1, <2>2, <2>3 DEF InRegistry
  <1>8. CASE DeployScript(j) /\ ~Install(j) /\ ~Upgrade(j)
    <2>1. UNCHANGED <<running, ecr, commit>>
      BY <1>8 DEF DeployScript, RemoveConfig, UpdateConfig, FindCommon, AddCommon,
                  CommonAdded, Find, ReadStatus, Uninstall, UpgradeCommon,
                  CommonUpgraded
    <2>2. /\ pc[j] \in Pushed \cup {"upcommon", "uppingcommon"}
          /\ pc[j] \in Pushed <=> pc'[j] \in Pushed
          /\ pc'[j] \notin {"untag", "push"}
      BY <1>8 DEF DeployScript, RemoveConfig, UpdateConfig, FindCommon, AddCommon,
                  CommonAdded, Find, ReadStatus, Uninstall, UpgradeCommon,
                  CommonUpgraded, Pushed, TypeInv, TypeOK
    <2> QED
      BY <2>1, <2>2 DEF InRegistry, Pushed
  <1> QED
    BY <1>3, <1>4, <1>5, <1>6, <1>7, <1>8 DEF BuildStep

\* Every step keeps the registry in order.
LEMMA RegistryStep ==
  ASSUME Keep >= 2, TypeInv, Gated, AllOnTrack, AllInRegistry, [Next]_vars
  PROVE  AllInRegistry'
  <1> SUFFICES ASSUME NEW j \in Job, j \notin clashed', faults'[j] = 0
               PROVE  InRegistry(j)'
    BY DEF AllInRegistry
  <1>1. CASE UNCHANGED vars
    BY <1>1 DEF vars, build, helm, registry, AllInRegistry, InRegistry, Image
  <1>2. ASSUME NEW k \in Job,
               StartBuild(k) \/ GatePasses(k) \/ BuildStep(k) \/ Expire(k) \/ Abort(k)
        PROVE  InRegistry(j)'
    <2>1. InRegistry(j) /\ OnTrack(j)
      BY <1>2, TroubleGrows DEF AllInRegistry, AllOnTrack
    <2>2. CASE j # k
      BY <1>2, <2>1, <2>2, OthersStay DEF InRegistry
    <2>3. CASE j = k /\ Expire(j)
      BY <2>1, <2>3, ExpireSpares
    <2>4. CASE j = k /\ Abort(j)
      BY <2>4, FaultCounts DEF Abort, TypeInv
    <2> QED
      BY <1>2, <2>1, <2>2, <2>3, <2>4, OwnInRegistry
  <1> QED
    BY <1>1, <1>2 DEF Next

\* What an environment runs can be pulled again if no call of its job failed,
\* except while a rebuild of the same commit replaces the image
\* (docker-push.sh), provided the lifecycle policy keeps two images or more; the
\* script's keeps twenty.
THEOREM RunningIsPullable == ASSUME Keep >= 2 PROVE Spec => []Pullable
  <1> DEFINE Inv == TypeInv /\ Gated /\ OwnConfig /\ AllOnTrack /\ AllInRegistry
  <1>1. Init => Inv
    <2>1. Init => OwnConfig /\ AllOnTrack /\ Gated
      BY JobsAssumption DEF Init, OwnConfig, AllOnTrack, OnTrack, InScript, Cluster,
                            Gated, Imaging
    <2>2. Init => AllInRegistry
      BY JobsAssumption DEF Init, AllInRegistry, InRegistry, Pushed, Cluster
    <2> QED
      BY <2>1, <2>2, TypeInit
  <1>2. Inv /\ [Next]_vars => Inv'
    BY TypeStep, GatedStep, ConfigStep, TrackStep, RegistryStep
  <1>3. Inv => Pullable
    BY DEF AllInRegistry, InRegistry, Pullable
  <1> QED
    BY <1>1, <1>2, <1>3, PTL DEF Spec

-----------------------------------------------------------------------------
(* Only contention for the common release fails a deployment                *)

\* A helm command on a common release is under way.
Commoning == {"addingcommon", "uppingcommon"}

\* The steps at which a deployment has seen to it that there is a common release.
Found == {"addingcommon", "find", "status", "uninstall", "install", "upgrade",
          "upcommon"}

\* As long as nothing failed: an environment's common release is pending only
\* while a job of the environment works on it, has never failed, and is there
\* for every deployment that has looked for it.
CommonHeld ==
  /\ \A e \in Env :
       /\ common[<<e, e>>] # "failed"
       /\ common[<<e, e>>] = "pending" =>
            \E k \in Job : EnvOf[k] = e /\ target[k] = e /\ pc[k] \in Commoning
  /\ \A j \in Job \ clashed :
       pc[j] \in Found => common[<<EnvOf[j], EnvOf[j]>>] # "absent"

\* What a step does to the common releases: begin a command of one, end one, or
\* nothing.
LEMMA CommonSteps ==
  ASSUME TypeInv, NEW k \in Job, ~Fault(k),
         StartBuild(k) \/ GatePasses(k) \/ BuildStep(k) \/ Expire(k) \/ Abort(k)
  PROVE  \/ /\ common' = common
            /\ pc[k] \in Commoning => UNCHANGED <<pc, target>>
         \/ /\ common' = [common EXCEPT ![Commons(k)] = "pending"]
            /\ Reached(k) # None /\ target'[k] = Reached(k)
            /\ pc[k] \notin Commoning /\ pc'[k] \in Commoning
         \/ /\ common' = [common EXCEPT ![<<target[k], EnvOf[k]>>] = "deployed"]
            /\ pc[k] \in Commoning
  <1> USE DEF Goes, shared, Commoning, TypeInv, TypeOK
  <1>1. CASE AddCommon(k)
    BY <1>1 DEF AddCommon
  <1>2. CASE UpgradeCommon(k)
    BY <1>2 DEF UpgradeCommon
  <1>3. CASE CommonAdded(k) \/ CommonUpgraded(k)
    BY <1>3 DEF CommonAdded, CommonUpgraded
  <1> QED
    BY <1>1, <1>2, <1>3
    DEF BuildStep, DeployScript, StartBuild, Configure, Verify, GatePasses,
        GateEnds, BuildImage, DeleteTag, Push, Expire, Abort, RemoveConfig,
        UpdateConfig, FindCommon, Find, ReadStatus, Uninstall, Install, Upgrade

\* A deployment on track goes past its listing only with a common release, its
\* own or one it found.
LEMMA FoundStep ==
  ASSUME TypeInv, NEW j \in Job, OnTrack(j), ~Fault(j),
         StartBuild(j) \/ GatePasses(j) \/ BuildStep(j) \/ Expire(j) \/ Abort(j),
         pc'[j] \in Found, pc[j] \notin Found
  PROVE  common'[<<EnvOf[j], EnvOf[j]>>] # "absent"
  <1> USE DEF Goes, shared, Found, TypeInv, TypeOK
  <1>1. <<EnvOf[j], EnvOf[j]>> \in Cluster \X Env /\ EnvOf[j] # None
    BY JobsAssumption DEF Cluster
  <1>2. FindCommon(j) \/ AddCommon(j)
    BY DEF BuildStep, DeployScript, StartBuild, Configure, Verify, GatePasses,
           GateEnds, BuildImage, DeleteTag, Push, Expire, Abort, RemoveConfig,
           UpdateConfig, CommonAdded, Find, ReadStatus, Uninstall, Install, Upgrade,
           UpgradeCommon, CommonUpgraded
  <1>3. Commons(j) = <<EnvOf[j], EnvOf[j]>> /\ Reached(j) = EnvOf[j]
    BY <1>2 DEF FindCommon, AddCommon, OnTrack, InScript, Commons
  <1> QED
    BY <1>1, <1>2, <1>3 DEF FindCommon, AddCommon

\* Every step without a failure keeps hold of the common releases.
LEMMA CommonStep ==
  ASSUME TypeInv, AllOnTrack, Faultless => CommonHeld, [Next]_vars, Faultless'
  PROVE  CommonHeld'
  <1>1. CASE UNCHANGED vars
    BY <1>1 DEF vars, shared, Faultless, CommonHeld
  <1>2. ASSUME NEW k \in Job,
               StartBuild(k) \/ GatePasses(k) \/ BuildStep(k) \/ Expire(k) \/ Abort(k)
        PROVE  CommonHeld'
    <2>1. CommonHeld /\ ~Fault(k) /\ clashed \subseteq clashed'
      BY <1>2, TroubleGrows, FaultCounts DEF Faultless, TypeInv
    <2>2. \A e \in Env : <<e, e>> \in Cluster \X Env
      BY DEF Cluster
    <2>3. ASSUME NEW e \in Env
          PROVE  common'[<<e, e>>] # "failed"
      BY <1>2, <2>1, <2>2, CommonSteps DEF CommonHeld, TypeInv, TypeOK
    <2>4. ASSUME NEW e \in Env, common'[<<e, e>>] = "pending"
          PROVE  \E i \in Job : EnvOf[i] = e /\ target'[i] = e /\ pc'[i] \in Commoning
      <3>1. CASE common[<<e, e>>] = "pending"
        <4>1. PICK i \in Job : EnvOf[i] = e /\ target[i] = e /\ pc[i] \in Commoning
          BY <2>1, <3>1 DEF CommonHeld
        <4>2. CASE i # k
          BY <1>2, <4>1, <4>2, OthersStay
        <4>3. CASE i = k
          <5>1. common' # [common EXCEPT ![<<target[k], EnvOf[k]>>] = "deployed"]
            BY <2>2, <2>4, <4>1, <4>3 DEF TypeInv, TypeOK
          <5> QED
            BY <1>2, <2>1, <2>2, <2>4, <4>1, <4>3, <5>1, CommonSteps
            DEF Commons, TypeInv, TypeOK
        <4> QED
          BY <4>2, <4>3
      <3>2. CASE common[<<e, e>>] # "pending"
        <4>1. /\ common' = [common EXCEPT ![Commons(k)] = "pending"]
              /\ target'[k] = Reached(k) /\ pc'[k] \in Commoning
          BY <1>2, <2>1, <2>2, <2>4, <3>2, CommonSteps DEF TypeInv, TypeOK
        <4>2. Commons(k) = <<e, e>>
          BY <2>2, <2>4, <3>2, <4>1 DEF TypeInv, TypeOK
        <4> QED
          BY <4>1, <4>2 DEF Commons
      <3> QED
        BY <3>1, <3>2
    <2>5. ASSUME NEW j \in Job, j \notin clashed', pc'[j] \in Found
          PROVE  common'[<<EnvOf[j], EnvOf[j]>>] # "absent"
      <3>1. common[<<EnvOf[j], EnvOf[j]>>] # "absent" =>
              common'[<<EnvOf[j], EnvOf[j]>>] # "absent"
        BY <1>2, <2>1, <2>2, CommonSteps, JobsAssumption DEF TypeInv, TypeOK
      <3>2. CASE pc[j] \in Found
        BY <2>1, <2>5, <3>1, <3>2 DEF CommonHeld
      <3>3. CASE pc[j] \notin Found
        <4>1. j = k
          BY <1>2, <2>5, <3>3, OthersStay
        <4>2. OnTrack(j)
          BY <1>2, <2>1, <2>5, TroubleGrows DEF AllOnTrack, Faultless
        <4> QED
          BY <1>2, <2>1, <2>5, <3>3, <4>1, <4>2, FoundStep
      <3> QED
        BY <3>2, <3>3
    <2> QED
      BY <2>3, <2>4, <2>5 DEF CommonHeld
  <1> QED
    BY <1>1, <1>2 DEF Next

\* A deployment that fails at its last command met another one on the common
\* release.
LEMMA ContentionStep ==
  ASSUME TypeInv, AllOnTrack, Faultless => CommonHeld, [Next]_vars, Faultless',
         NEW j \in Job \ clashed, pc[j] = "upcommon", pc'[j] = "idle"
  PROVE  \E k \in Job \ {j} : EnvOf[k] = EnvOf[j] /\ target[k] = EnvOf[j]
  <1>1. PICK i \in Job :
          StartBuild(i) \/ GatePasses(i) \/ BuildStep(i) \/ Expire(i) \/ Abort(i)
    BY DEF Next, vars
  <1>2. i = j /\ CommonHeld /\ OnTrack(j) /\ ~Fault(j)
    BY <1>1, OthersStay, TroubleGrows, FaultCounts DEF Faultless, AllOnTrack, TypeInv
  <1>3. UpgradeCommon(j)
    BY <1>1, <1>2
    DEF BuildStep, DeployScript, StartBuild, Configure, Verify, GatePasses,
        GateEnds, BuildImage, DeleteTag, Push, Expire, Abort, RemoveConfig,
        UpdateConfig, FindCommon, AddCommon, CommonAdded, Find, ReadStatus,
        Uninstall, Install, Upgrade, CommonUpgraded
  <1>4. /\ EnvOf[j] \in Env /\ EnvOf[j] # None /\ Reached(j) = EnvOf[j]
        /\ Commons(j) = <<EnvOf[j], EnvOf[j]>>
    BY <1>2, JobsAssumption DEF OnTrack, InScript, Commons
  <1>5. common[<<EnvOf[j], EnvOf[j]>>] # "deployed"
    BY <1>3, <1>4 DEF UpgradeCommon, Goes, TypeInv, TypeOK
  <1>6. common[<<EnvOf[j], EnvOf[j]>>] = "pending"
    <2>1. common[<<EnvOf[j], EnvOf[j]>>] \notin {"absent", "failed"}
      BY <1>2, <1>4 DEF CommonHeld, Found
    <2> QED
      BY <1>4, <1>5, <2>1 DEF TypeInv, TypeOK, Cluster
  <1>7. PICK k \in Job : EnvOf[k] = EnvOf[j] /\ target[k] = EnvOf[j]
                         /\ pc[k] \in Commoning
    BY <1>2, <1>4, <1>6 DEF CommonHeld
  <1> QED
    BY <1>7 DEF Commoning

\* When nothing failed anywhere, a deployment that has not clashed fails only
\* because another service of its environment has a helm command on the common
\* release under way (deploy_service.sh, helmCommonUpgrade), for any number of
\* services and nodes.
THEOREM ContentionIsTheCause == Spec => OnlyContentionFails
  <1> DEFINE Inv == TypeInv /\ OwnConfig /\ AllOnTrack /\ (Faultless => CommonHeld)
  <1>1. Init => Inv
    <2>1. Init => OwnConfig /\ AllOnTrack
      BY JobsAssumption DEF Init, OwnConfig, AllOnTrack, OnTrack, InScript, Cluster
    <2>2. Init => CommonHeld
      BY JobsAssumption DEF Init, CommonHeld, Found, Cluster
    <2> QED
      BY <2>1, <2>2, TypeInit
  <1>2. Inv /\ [Next]_vars => Inv'
    BY TypeStep, ConfigStep, TrackStep, CommonStep
  <1>3. Inv /\ [Next]_vars =>
          [\A j \in Job \ clashed :
             pc[j] = "upcommon" /\ pc'[j] = "idle" /\ Faultless' =>
               \E k \in Job \ {j} : EnvOf[k] = EnvOf[j] /\ target[k] = EnvOf[j]]_vars
    BY ContentionStep
  <1> QED
    BY <1>1, <1>2, <1>3, PTL DEF Spec, OnlyContentionFails
=============================================================================
