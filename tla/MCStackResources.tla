-------------------------- MODULE MCStackResources --------------------------
(***************************************************************************)
(* Small instances of StackResources for TLC.                               *)
(***************************************************************************)
EXTENDS StackResources

CONSTANTS c1, c2, FunctionFaults, ImageFaults

Faults == [k \in Kind |-> IF k = "image" THEN ImageFaults ELSE FunctionFaults]
=============================================================================
