------------------------------- MODULE Kubelet -------------------------------
(***************************************************************************)
(* What Kubernetes writes about a pod in each kind of trouble the          *)
(* signature catalogue knows, at every instant of it: the status, the      *)
(* events, and (not visible to the diagnosis) what the trouble really is.  *)
(* External: the scheduler, the kubelet and the controllers.               *)
(***************************************************************************)
EXTENDS Signatures

CONSTANTS Now,            \* when the diagnosis runs
          Grace           \* terminationGracePeriodSeconds

\* Deletions are so and so long ago.
ASSUME KubeletAssumption == Now \in Nat /\ Grace \in Nat

\* A patient: the pod, its events, and
\*   truth      what is wrong with it
\*   apparent   what the detectors take it for, where they are known to lag
\*              behind the truth (Noticed, Deleted); else the truth
\*   needs      what must be readable to see that ("": the pod is enough)
\*   otherwise  what can be said without
\*   dies       whether its container goes on dying and being restarted
Patient(pod, events, truth) ==
    [pod |-> pod, events |-> events, truth |-> truth, apparent |-> truth,
     needs |-> "", otherwise |-> truth, dies |-> FALSE]

Trouble(signature, on, why) == [signature |-> signature, on |-> on, why |-> why]

BarePod(u, node) ==
    [name |-> u, uid |-> u, node |-> node, ready |-> FALSE, phase |-> "Running",
     reason |-> "", unschedulable |-> FALSE, claim |-> "", deleting |-> FALSE,
     finalizers |-> FALSE, deletion |-> 0, grace |-> Grace, containers |-> <<>>]

Event(u, reason, created, last, series) ==
    [name |-> u, uid |-> u, reason |-> reason, probe |-> "",
     created |-> created, last |-> last, series |-> series]

Unhealthy(u, probe, created, last, series) ==
    [Event(u, "Unhealthy", created, last, series) EXCEPT !.probe = probe]

Termination(reason, exit) == [reason |-> reason, exit |-> exit]

NoTermination == Termination("", 0)

Status(state, reason, exit, last, restarts) ==
    [name |-> "main", state |-> state, reason |-> reason, exit |-> exit,
     last |-> last, restarts |-> restarts]

Waiting(reason) == Status("waiting", reason, 0, NoTermination, 0)

Running == Status("running", "", 0, NoTermination, 0)

Dead(reason, exit) == Status("terminated", reason, exit, NoTermination, 0)

\* A second container in which nothing is wrong goes first.
Sidecar(pod) ==
    [(IF pod.phase = "Pending" THEN Waiting("ContainerCreating") ELSE Running)
        EXCEPT !.name = "side"]

Shown(pod, main) == {[pod EXCEPT !.containers = c] : c \in {<<main>>, <<Sidecar(pod), main>>}}

----------------------------------------------------------------------------
(* The cycle of the main container, and its logs *)

\* Where the main container, the last one, is in its cycle.
Instants == [state : {"running", "terminated", "waiting"}, restarts : Nat]

Instant(pod) ==
    IF pod.containers = <<>> THEN [state |-> "waiting", restarts |-> 0]
    ELSE LET c == pod.containers[Len(pod.containers)]
         IN  [state |-> c.state, restarts |-> c.restarts]

\* The instants that may come next.
NextInstants(now) ==
    LET at(state, restarts) == [state |-> state, restarts |-> restarts]
    IN  CASE now.state = "running"    -> {at("terminated", now.restarts)}
          [] now.state = "terminated" -> {at("running", now.restarts + 1)}
                \union (IF now.restarts > 0 THEN {at("waiting", now.restarts)} ELSE {})
          [] OTHER                    -> {at("running", now.restarts + 1)}

\* Instances are counted from 0.
NoLog == -1

\* The kubelet keeps one dead instance per container, and has no log of the
\* current one while it backs off.
LogOf(now, previous) ==
    CASE now.state = "running"    -> IF previous THEN now.restarts - 1 ELSE now.restarts
      [] now.state = "terminated" -> IF previous THEN NoLog ELSE now.restarts
      [] OTHER                    -> IF previous THEN now.restarts ELSE NoLog

\* The instance that crashed last.
LastCrash(now) == IF now.state = "running" THEN now.restarts - 1 ELSE now.restarts

----------------------------------------------------------------------------
(* Containers that keep dying of one cause *)

\* Every instant of the cycle: running, dead, waiting to be started again.  The
\* first restart is immediate.
LoopInstants(death) ==
    LET before == [k \in 0 .. 2 |-> IF k = 0 THEN NoTermination ELSE death]
    IN  {Status("running", "", 0, before[k], k) : k \in 0 .. 2}
        \union {Status("terminated", death.reason, death.exit, before[k], k) : k \in 0 .. 2}
        \union {Status("waiting", "CrashLoopBackOff", 0, death, k) : k \in 1 .. 2}

\* How often it died: once for each restart, and once more if it does not run.
Deaths(c) == IF c.state = "running" THEN c.restarts ELSE c.restarts + 1

\* How often it seems to have died: the second death goes unnoticed until the
\* container backs off or is restarted.
Noticed(c) == IF c.state = "terminated" /\ c.restarts = 1 THEN 1 ELSE Deaths(c)

Loops(u, node, death, events, TroubleAfter(_)) ==
    UNION {{[Patient(p, events, TroubleAfter(Deaths(c)))
                EXCEPT !.apparent = TroubleAfter(Noticed(c)), !.dies = TRUE] :
               p \in Shown(BarePod(u, node), c)} :
           c \in LoopInstants(death)}

StaleMountEvent(u) == Event(u, "FailedMount", 1, 1, 0)

\* Crash-looping is to have crashed repeatedly.
Crashing(u, node) ==
    Loops(u, node, Termination("Error", 1), {StaleMountEvent(u)},
          LAMBDA k : IF k >= 2 THEN Trouble("CrashLoopBackOff", "main", "crash") ELSE None)

OutOfMemory(u, node) ==
    Loops(u, node, Termination("OOMKilled", 137), {},
          LAMBDA k : IF k >= 1 THEN Trouble("OOMKilled", "main", "OOMKilled") ELSE None)

\* It is never seen running.
NotStarting(u, node) ==
    {[q EXCEPT !.dies = FALSE] :
        q \in {r \in Loops(u, node, Termination("StartError", 128), {},
                           LAMBDA k : Trouble("ContainerStartFailed", "main", "StartError")) :
                  Instant(r.pod).state # "running"}}

\* The kubelet kills what fails its liveness probe; the events tell.
Unlively(u, node) ==
    {[q EXCEPT !.needs = "events",
               !.otherwise = IF q.apparent.signature = "CrashLoopBackOff"
                             THEN [q.apparent EXCEPT !.why = "crash"] ELSE None] :
        q \in Loops(u, node, Termination("Error", 137), {Unhealthy(u, "liveness", 1, 0, 4)},
                    LAMBDA k : IF k >= 2 THEN Trouble("CrashLoopBackOff", "main", "liveness")
                               ELSE Trouble("ProbeFailing", "", "liveness"))}

----------------------------------------------------------------------------
(* Containers that do not get to run, or do not get Ready *)

Pending(u, node, reason) ==
    Shown([BarePod(u, node) EXCEPT !.phase = "Pending"], Waiting(reason))

OnlyEventsTell(q) == [q EXCEPT !.needs = "events", !.otherwise = None]

Held(u, node) ==
    {Patient(p, {StaleMountEvent(u)},
             Trouble("ConfigMissing", "main", "CreateContainerConfigError")) :
        p \in Pending(u, node, "CreateContainerConfigError")}
    \union {Patient(p, {}, Trouble("ContainerStartFailed", "main", "CreateContainerError")) :
               p \in Pending(u, node, "CreateContainerError")}
    \union {Patient(p, {StaleMountEvent(u)}, Trouble("ImagePullBackOff", "main", "image")) :
               p \in Pending(u, node, "ErrImagePull") \union Pending(u, node, "ImagePullBackOff")}

\* A volume that was attached late still cannot be mounted; a volume that was
\* mounted late, and now there is no sandbox (by an event without a UID).
NotCreated(u, node) ==
    {OnlyEventsTell(Patient(p, {Event(u, "FailedMount", 1, 4, 0),
                                Event(u, "FailedAttachVolume", 2, 3, 0)},
                            Trouble("VolumeMountFailed", "", "FailedMount"))) :
        p \in Pending(u, node, "ContainerCreating")}
    \union {OnlyEventsTell(Patient(p, {StaleMountEvent(u),
                                       [Event(u, "FailedCreatePodSandBox", 2, 3, 0)
                                           EXCEPT !.uid = ""]},
                                   Trouble("PodSandboxFailed", "", "FailedCreatePodSandBox"))) :
               p \in Pending(u, node, "ContainerCreating")}

NotPlaced(u) ==
    LET pod == [BarePod(u, "") EXCEPT !.phase = "Pending", !.unschedulable = TRUE]
        unplaced == Trouble("PodUnschedulable", "", "Unschedulable")
    IN  {Patient(pod, {}, unplaced)}
        \union {[Patient([pod EXCEPT !.claim = "c1"], {},
                         Trouble("PVCPending", "c1", "Pending"))
                    EXCEPT !.needs = "claims", !.otherwise = unplaced]}

\* The startup probe failed for a while, now the readiness probe does.  Or the
\* pod only needs longer, and a predecessor of its name had failed its probe.
NotReady(u, node) ==
    {OnlyEventsTell(Patient(p, {Unhealthy(u, "startup", 2, 2, 0),
                                Unhealthy(u, "readiness", 1, 0, 3)},
                            Trouble("ProbeFailing", "", "readiness"))) :
        p \in Shown(BarePod(u, node), Running)}
    \union {Patient(p, {[Unhealthy(u, "readiness", 1, 4, 0) EXCEPT !.uid = "before"]}, None) :
               p \in Shown(BarePod(u, node), Running)}

----------------------------------------------------------------------------
(* Pods that are over, on the way out, or well again *)

Over(u, node) ==
    LET failed == [BarePod(u, node) EXCEPT !.phase = "Failed"]
    IN  {Patient(p, {}, Trouble("PodEvicted", "", "Evicted")) :
            p \in Shown([failed EXCEPT !.reason = "Evicted"], Dead("Error", 137))}
        \union {Patient(p, {}, Trouble("ContainerFailed", "main", "exit")) :
                   p \in Shown(failed, Dead("Error", 1))}
        \union {Patient(p, {}, Trouble("OOMKilled", "main", "OOMKilled")) :
                   p \in Shown(failed, Dead("OOMKilled", 137))}

\* Deletion was asked for that long ago; the deletionTimestamp is the time at
\* which the grace period ends.
Leaving(u, node, since, held) ==
    [BarePod(u, node) EXCEPT !.deleting = TRUE, !.finalizers = held,
                             !.deletion = (Now - since) + Grace,
                             !.containers = <<Dead("Error", 137)>>]

\* A pod is stuck when something holds it for longer than its grace period and
\* the slack; it is told so only one grace period later.
HeldFor(since, held, limit) ==
    IF held /\ since >= limit THEN Trouble("PodStuckTerminating", "", "finalizers") ELSE None

Deleted(u, node) ==
    {[Patient(Leaving(u, node, since, held), {}, HeldFor(since, held, Grace + Slack))
         EXCEPT !.apparent = HeldFor(since, held, Grace + Grace + Slack)] :
        since \in 0 .. Now, held \in BOOLEAN}

\* What the container died of before is history, but for a kill for its memory,
\* which is reported by the "current or last termination".
Recovered(u, node) ==
    {Patient([BarePod(u, node) EXCEPT
                 !.ready = TRUE,
                 !.containers = <<[Running EXCEPT !.last = death, !.restarts = 3]>>],
             {Unhealthy(u, "readiness", 1, 1, 0)},
             IF death.reason = "OOMKilled" THEN Trouble("OOMKilled", "main", "OOMKilled") ELSE None) :
        death \in {Termination("StartError", 128), Termination("Error", 1),
                   Termination("OOMKilled", 137)}}

Patients(u, node) ==
    Crashing(u, node) \union OutOfMemory(u, node) \union NotStarting(u, node)
        \union Unlively(u, node) \union Held(u, node) \union NotCreated(u, node)
        \union NotPlaced(u) \union NotReady(u, node) \union Over(u, node)
        \union Deleted(u, node) \union Recovered(u, node)

=============================================================================
