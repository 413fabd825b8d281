--------------------------- MODULE MCWifiManager ---------------------------
(***************************************************************************)
(* WifiManager for TLC.  The stacks of the config tasks are                *)
(* interchangeable: a symmetry set where no liveness property is checked;  *)
(* where one is, the first request is given the stack FirstTask.           *)
(***************************************************************************)
EXTENDS WifiManager, TLC

CONSTANT FirstTask

TaskSymmetry == Permutations(Tasks)

MCNext ==
    /\ Next
    /\ requests <= 1 => \A t \in Tasks \ {FirstTask} : pc'[t] = pc[t]

MCSpec == Init /\ [][MCNext]_vars /\ Fairness
=============================================================================
