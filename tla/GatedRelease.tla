---------------------------- MODULE GatedRelease ----------------------------
(***************************************************************************)
(* What the service pipeline promises an environment, whatever fails: a     *)
(* service runs only commits that passed the quality gate, and never goes   *)
(* back to an older one.                                                    *)
(***************************************************************************)
EXTENDS Naturals

CONSTANT Job

VARIABLES
  passed,   \* passed[j]: the commits of job j that passed the gate
  serving   \* serving[j]: the commit the job's environment runs, 0 for none

releases == <<passed, serving>>

Start == passed = [j \in Job |-> {}] /\ serving = [j \in Job |-> 0]

Pass(j) ==
  /\ \E c \in passed'[j] : passed' = [passed EXCEPT ![j] = @ \cup {c}]
  /\ UNCHANGED serving

Roll(j) ==
  /\ \E c \in passed[j] :
       /\ c >= serving[j]
       /\ serving' = [serving EXCEPT ![j] = c]
  /\ UNCHANGED passed

Deliver == \E j \in Job : Pass(j) \/ Roll(j)

ReleaseSpec == Start /\ [][Deliver]_releases
=============================================================================
