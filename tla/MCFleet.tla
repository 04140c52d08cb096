------------------------------- MODULE MCFleet -------------------------------
(* Instances of Fleet for TLC: a Deployment and a Job share the caches.     *)
EXTENDS Fleet, MCViews

CONSTANTS deployment, job

DeploymentViews == WithPods(Current, {Ready(0)}) \union WithPods(Workload, {BackOff(0)})

JobTargetViews ==
    {JobView({}, pods, [u \in Pods |-> look]) : pods \in SUBSET Pods, look \in {BackOff(0), Dead(0)}}
        \union {JobView({"Complete"}, {}, [u \in Pods |-> NoPod])}

FleetViews == [w \in Targets |-> IF w = job THEN JobTargetViews ELSE DeploymentViews]
=============================================================================
