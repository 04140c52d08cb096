------------------------------ MODULE Snapshot ------------------------------
(***************************************************************************)
(* One observation of a target and its pods (internal/settle/snapshot.go,  *)
(* type snapshot) and the predicates that judge it                         *)
(* (internal/settle/evaluate.go).  Evaluation is pure: it reads nothing    *)
(* but the snapshot.                                                       *)
(*                                                                         *)
(* A pod is identified by its UID, a member of Pods.  A reason string is   *)
(* abstracted to whether it is empty: TerminalPodReason(p) is TRUE where   *)
(* the code returns a non-empty reason.  Container statuses are summarised *)
(* per pod: `waiting' is TRUE when some init or main container waits for   *)
(* one of terminalWaitingReasons, `restarts' is the sum of their restart   *)
(* counts.                                                                 *)
(***************************************************************************)
EXTENDS Integers, FiniteSets

CONSTANT Pods          \* the pod UIDs an observation can mention

ASSUME PodsAssumption == IsFiniteSet(Pods)

Phases == {"Pending", "Running", "Succeeded", "Failed"}

Pod == [phase : Phases, waiting : BOOLEAN, ready : BOOLEAN,
        terminating : BOOLEAN, restarts : Nat]

\* The statuses kstatus computes; every status that is neither Current nor
\* Failed is treated alike by the engine and is called InProgress here.
KStatus == {"Current", "InProgress", "Failed"}

\* `current' and `old' are the pods of currentPods and oldPods; `pod' gives
\* the attributes of the pods of `current' (those of others are not read).
Snapshots == [found : BOOLEAN,
              generation : Nat, observedGeneration : Nat,
              kstatus : KStatus,
              current : SUBSET Pods, old : SUBSET Pods,
              pod : [Pods -> Pod],
              completionTerminal : BOOLEAN,
              terminalFailure : BOOLEAN]

\* Marks the absence of a pod in a map from pods to counts.
Absent == -1

RestartMaps == [Pods -> Nat \union {Absent}]

----------------------------------------------------------------------------
TerminalWaitingReason(p) == p.waiting

TerminalPodReason(p) == p.phase = "Failed" \/ TerminalWaitingReason(p)

PodReady(p) == p.ready

HealthyNow(s) ==
    /\ s.found
    /\ s.observedGeneration >= s.generation
    /\ s.kstatus = "Current"
    /\ s.old = {}
    /\ \A u \in s.current : /\ ~ s.pod[u].terminating
                            /\ ~ TerminalPodReason(s.pod[u])
                            /\ PodReady(s.pod[u])

\* The map restartCounts builds: one entry per current pod.
RestartCounts(s) ==
    [u \in Pods |-> IF u \in s.current THEN s.pod[u].restarts ELSE Absent]

\* The zero value of a snapshot, which a tracker holds before it observes.
NoPod == [phase |-> "Pending", waiting |-> FALSE, ready |-> FALSE,
          terminating |-> FALSE, restarts |-> 0]

NoSnapshot == [found |-> FALSE, generation |-> 0, observedGeneration |-> 0,
               kstatus |-> "InProgress", current |-> {}, old |-> {},
               pod |-> [u \in Pods |-> NoPod],
               completionTerminal |-> FALSE, terminalFailure |-> FALSE]
=============================================================================
