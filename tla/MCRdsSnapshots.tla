--------------------------- MODULE MCRdsSnapshots ---------------------------
(***************************************************************************)
(* Small instances of RdsSnapshots for TLC.                                 *)
(***************************************************************************)
EXTENDS RdsSnapshots

\* Three snapshots: cluster, instance, cluster.
MCSnap == 1 .. 3
MCKind == [s \in MCSnap |-> IF s % 2 = 1 THEN "cluster" ELSE "instance"]
=============================================================================
