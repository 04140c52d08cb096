----------------------------- MODULE MCEarlyExit -----------------------------
(* Instances of EarlyExit for TLC.                                          *)
EXTENDS EarlyExit, MCViews

\* A Deployment whose pods crash, recover and are replaced.
RecoveryViews ==
    WithPods(Workload, {Fresh(0), BackOff(0), BackOff(1)})
        \union WithPods(Current, {Ready(0), Ready(1)})
        \union {Broken}
=============================================================================
