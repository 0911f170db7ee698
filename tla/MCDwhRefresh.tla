---------------------------- MODULE MCDwhRefresh ----------------------------
(***************************************************************************)
(* A small instance of DwhRefresh for TLC: two executions; two reloaded     *)
(* tables, one of them addresslines_fscs and the other one that             *)
(* factapplication joins; two contents that a currency or an application    *)
(* may have.                                                                *)
(***************************************************************************)
EXTENDS DwhRefresh

CONSTANTS dimcustomer, addresslines, x1, x2, v1, v2

MCRun == {x1, x2}
MCReloaded == {dimcustomer, addresslines}
MCJoined == {dimcustomer}
MCValue == {v1, v2}

\* Contents are compared and no more: one source to begin with stands for all.
MCInit == Init /\ source = [t \in Appended |-> v1]
MCSpec == MCInit /\ [][Next]_vars /\ \A x \in Run : WF_vars(Executing(x))
=============================================================================
