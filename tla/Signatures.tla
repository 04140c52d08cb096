----------------------------- MODULE Signatures -----------------------------
(***************************************************************************)
(* The signature catalogue of internal/signatures: what each detector      *)
(* makes of one pod, its events, its node and its claims, and the order in *)
(* which they are asked.  A detector is the set of causes it finds: empty, *)
(* or one.  A cause says what it is on (a node, a claim, a container) and  *)
(* why; its wording and its evidence are left out.                         *)
(***************************************************************************)
EXTENDS Integers, Sequences

CONSTANT Slack            \* stuckTerminatingSlack

ASSUME SlackAssumption == Slack \in Nat

\* "" is the node of a pod that is not scheduled, the claim of one without
\* volumes and the UID an event may lack.  A cause is about the whole pod when
\* it is on "".
None == [signature |-> "none", on |-> "", why |-> ""]

Cause(on, why) == [on |-> on, why |-> why]

When(condition, cause) == IF condition THEN {cause} ELSE {}

----------------------------------------------------------------------------
(* Events *)

\* An event that repeats is stamped anew, by its own field or its series'.
EventTime(e) == IF e.last # 0 THEN e.last
                ELSE IF e.series # 0 THEN e.series ELSE e.created

\* Mutant: events are found by the name of their pod alone.
EventsForName(events, name, uid) == {e \in events : e.name = name}

\* A name may be used again (StatefulSet): the UID keeps a predecessor's out.
EventsFor(events, name, uid) ==
    {e \in events : e.name = name /\ (uid # "" /\ e.uid # "" => e.uid = uid)}

Latest(events, reasons) ==
    LET matching == {e \in events : e.reason \in reasons}
    IN  {e \in matching : \A f \in matching : EventTime(f) <= EventTime(e)}

----------------------------------------------------------------------------
(* Containers, init before regular *)

FirstContainer(pod, suspects) ==
    {i \in suspects : \A j \in suspects : i <= j}

Waits(c, reasons) == c.state = "waiting" /\ c.reason \in reasons

Ended(c, reasons) == c.state = "terminated" /\ c.reason \in reasons

startFailureReasons ==
    {"StartError", "ContainerCannotRun", "CreateContainerError", "RunContainerError"}

WaitingToStart(pod) ==
    /\ pod.node # "" /\ pod.phase = "Pending"
    /\ \A i \in DOMAIN pod.containers :
          Waits(pod.containers[i], {"ContainerCreating", "PodInitializing"})

----------------------------------------------------------------------------
(* Detectors *)

\* node is the status of its Ready condition, "" when it could not be read or
\* has none.
NodeNotReady(pod, node) ==
    When(pod.node # "" /\ ~ pod.ready /\ node \in {"False", "Unknown"}, Cause(pod.node, node))

StuckTerminating(pod, now) ==
    When(/\ pod.deleting /\ pod.finalizers
         /\ now >= pod.deletion + pod.grace + Slack,
         Cause("", "finalizers"))

PVCPending(pod, claim) ==
    When(pod.claim # "" /\ claim = "Pending", Cause(pod.claim, "Pending"))

StartupEvent(pod, events, reasons) ==
    {Cause("", e.reason) :
        e \in IF ~ pod.ready /\ WaitingToStart(pod) THEN Latest(events, reasons) ELSE {}}

SandboxFailed(pod, events) == StartupEvent(pod, events, {"FailedCreatePodSandBox"})

VolumeMountFailed(pod, events) ==
    StartupEvent(pod, events, {"FailedMount", "FailedAttachVolume"})

Unschedulable(pod) == When(pod.unschedulable, Cause("", "Unschedulable"))

Evicted(pod) ==
    When(pod.phase = "Failed" /\ pod.reason = "Evicted", Cause("", "Evicted"))

OOMKilled(pod) ==
    {Cause(pod.containers[i].name, "OOMKilled") :
        i \in FirstContainer(pod, {j \in DOMAIN pod.containers :
                 \/ Ended(pod.containers[j], {"OOMKilled"})
                 \/ pod.containers[j].last.reason = "OOMKilled"})}

ConfigMissing(pod) ==
    {Cause(pod.containers[i].name, "CreateContainerConfigError") :
        i \in FirstContainer(pod, {j \in DOMAIN pod.containers :
                 Waits(pod.containers[j], {"CreateContainerConfigError"})})}

\* A recovered pod keeps its last termination: it counts while unready only.
StartFailure(pod, c) ==
    IF Waits(c, startFailureReasons) \/ Ended(c, startFailureReasons) THEN c.reason
    ELSE IF c.last.reason \in startFailureReasons /\ ~ pod.ready THEN c.last.reason
    ELSE ""

StartFailed(pod) ==
    {Cause(pod.containers[i].name, StartFailure(pod, pod.containers[i])) :
        i \in FirstContainer(pod, {j \in DOMAIN pod.containers :
                 StartFailure(pod, pod.containers[j]) # ""})}

\* Between two crashes the container is seen running for a moment.
Restarting(pod, c) == c.restarts >= 2 /\ c.last.exit # 0 /\ ~ pod.ready

LivenessFails(events) ==
    \E e \in events : e.reason = "Unhealthy" /\ e.probe = "liveness"

CrashLooping(pod) ==
    FirstContainer(pod, {j \in DOMAIN pod.containers :
        \/ Waits(pod.containers[j], {"CrashLoopBackOff"})
        \/ Restarting(pod, pod.containers[j])})

CrashLoop(pod, events) ==
    {Cause(pod.containers[i].name, IF LivenessFails(events) THEN "liveness" ELSE "crash") :
        i \in CrashLooping(pod)}

FailedContainer(pod) ==
    IF pod.phase # "Failed" THEN {}
    ELSE FirstContainer(pod, {j \in DOMAIN pod.containers :
            pod.containers[j].state = "terminated" /\ pod.containers[j].exit # 0})

ContainerFailed(pod) == {Cause(pod.containers[i].name, "exit") : i \in FailedContainer(pod)}

ImagePull(pod) ==
    {Cause(pod.containers[i].name, "image") :
        i \in FirstContainer(pod, {j \in DOMAIN pod.containers :
                 Waits(pod.containers[j], {"ImagePullBackOff", "ErrImagePull"})})}

ProbeFailing(pod, events) ==
    {Cause("", e.probe) : e \in IF pod.ready THEN {} ELSE Latest(events, {"Unhealthy"})}

----------------------------------------------------------------------------
(* Precedence *)

podDetectors ==
    <<"NodeNotReady", "PodStuckTerminating", "PVCPending", "PodSandboxFailed",
      "VolumeMountFailed", "PodUnschedulable", "PodEvicted", "OOMKilled",
      "ConfigMissing", "ContainerStartFailed", "CrashLoopBackOff",
      "ContainerFailed", "ImagePullBackOff", "ProbeFailing">>

oldPodDetectors == <<"NodeNotReady", "PodStuckTerminating">>

\* known: what the reads of this diagnosis returned (node, claim, events, now).
Detect(signature, pod, known) ==
    LET events == EventsFor(known.events, pod.name, pod.uid)
    IN  CASE signature = "NodeNotReady"         -> NodeNotReady(pod, known.node)
          [] signature = "PodStuckTerminating"  -> StuckTerminating(pod, known.now)
          [] signature = "PVCPending"           -> PVCPending(pod, known.claim)
          [] signature = "PodSandboxFailed"     -> SandboxFailed(pod, events)
          [] signature = "VolumeMountFailed"    -> VolumeMountFailed(pod, events)
          [] signature = "PodUnschedulable"     -> Unschedulable(pod)
          [] signature = "PodEvicted"           -> Evicted(pod)
          [] signature = "OOMKilled"            -> OOMKilled(pod)
          [] signature = "ConfigMissing"        -> ConfigMissing(pod)
          [] signature = "ContainerStartFailed" -> StartFailed(pod)
          [] signature = "CrashLoopBackOff"     -> CrashLoop(pod, events)
          [] signature = "ContainerFailed"      -> ContainerFailed(pod)
          [] signature = "ImagePullBackOff"     -> ImagePull(pod)
          [] signature = "ProbeFailing"         -> ProbeFailing(pod, events)

\* The first detector that finds a cause: later ones are not asked.
FirstMatch(detectors, pod, known) ==
    LET hits == {i \in DOMAIN detectors : Detect(detectors[i], pod, known) # {}}
    IN  UNION {{[signature |-> detectors[i], on |-> c.on, why |-> c.why] :
                   c \in Detect(detectors[i], pod, known)} :
               i \in {j \in hits : \A k \in hits : j <= k}}

\* Mutant: the log is always that of the instance before.
ReadsPreviousAlways(c) == c.state # ""

\* The instance a crash log is read from: the current one while it sits
\* terminated, else its predecessor.
ReadsPrevious(c) == c.state # "terminated"

----------------------------------------------------------------------------
(* Rejected pods: messages are classes of texts *)

matchAdmission(message) == message \in {"webhook", "webhook on quota"}

matchQuota(message) == message \in {"quota", "webhook on quota", "quota of another"}

=============================================================================
