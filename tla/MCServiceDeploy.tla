-------------------------- MODULE MCServiceDeploy ---------------------------
(***************************************************************************)
(* Small instances of ServiceDeploy for TLC.                                *)
(***************************************************************************)
EXTENDS ServiceDeploy, TLC

CONSTANTS d1, d2, q1, dev, qa, n1, n2

\* Clusters: a service in two environments, on one node.
PairJob == {d1, q1}
PairEnvOf == (d1 :> dev) @@ (q1 :> qa)
PairBuilds == (d1 :> 2) @@ (q1 :> 1)

\* Common: two services in an environment, on a node each or on the same.
TwinJob == {d1, d2}
TwinEnvOf == (d1 :> dev) @@ (d2 :> dev)
TwinBuilds == (d1 :> 3) @@ (d2 :> 1)
=============================================================================
