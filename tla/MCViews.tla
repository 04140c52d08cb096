------------------------------- MODULE MCViews -------------------------------
(* Small sets of snapshots, one per kind of target, for the MC modules.     *)
EXTENDS Batch

\* How a pod can look.  Restart counts run from 0 to MaxRestarts.
CONSTANT MaxRestarts

ASSUME MaxRestarts \in Nat

Fresh(n)    == [NoPod EXCEPT !.phase = "Running", !.restarts = n]
Ready(n)    == [Fresh(n) EXCEPT !.ready = TRUE]
BackOff(n)  == [Fresh(n) EXCEPT !.waiting = TRUE]
Leaving(n)  == [Ready(n) EXCEPT !.terminating = TRUE]
Dead(n)     == [Fresh(n) EXCEPT !.phase = "Failed"]

Restarts == 0 .. MaxRestarts

\* The workload as its controller reports it.
Workload == [NoSnapshot EXCEPT !.found = TRUE, !.generation = 1,
                               !.observedGeneration = 1]
Current  == [Workload EXCEPT !.kstatus = "Current"]
Stale    == [Current EXCEPT !.generation = 2]
Draining(u) == [Current EXCEPT !.old = {u}]
Broken   == [Workload EXCEPT !.kstatus = "Failed"]

WithPods(w, shapes) ==
    {[w EXCEPT !.current = c, !.pod = [u \in Pods |-> IF u \in c THEN f[u] ELSE NoPod]] :
        c \in SUBSET Pods, f \in [Pods -> shapes]}

AllReady == {Ready(n) : n \in Restarts}

\* A Deployment whose pods come, go, swap and restart while Ready.
StabilityViews ==
    WithPods(Current, AllReady \union {Fresh(0)})
        \union WithPods(Stale, AllReady)
        \union WithPods(Workload, AllReady)
        \union {[Draining(u) EXCEPT !.pod = s.pod, !.current = s.current \ {u}] :
                    u \in Pods, s \in WithPods(Current, {Ready(0)})}

\* A Deployment whose pods crash, fail and recover.
WedgeViews ==
    WithPods(Workload, {Fresh(0), Ready(0), BackOff(0), Dead(0)})
        \union WithPods(Current, {Ready(0), Leaving(0)})
        \union WithPods(Broken, {Ready(0)})

\* A CronJob with no Job yet, with a Job whose failed and restarted pods are
\* retries, with an older one, and beside the Job of another CronJob.
Job(name, created, owner, conditions) ==
    [name |-> name, created |-> created, owner |-> owner, suspended |-> FALSE,
     conditions |-> conditions]

Running(name) == Job(name, 2, "cj", {})
Older         == Job(3, 1, "cj", {"Failed"})
Other         == Job(4, 3, "other", {"Complete"})

Histories ==
    {{}, {Older}, {Other}}
        \union {{j, Older, Other} : j \in {Job(1, 2, "cj", {"SuccessCriteriaMet", "Complete"}),
                                          Job(1, 2, "cj", {"FailureTarget", "Failed"}),
                                          [Running(1) EXCEPT !.suspended = TRUE],
                                          Running(1)}}

\* Two Jobs of the same second: the name decides.
SameSecond == {Job(2, 2, "cj", {"Complete"}), Running(1)}

JobShapes == {Fresh(0), Ready(0), BackOff(1), Dead(0)}

CronJobViews ==
    LET cj == [uid |-> "cj", suspended |-> FALSE]
    IN  UNION {CronJobSnapshot(cj, jobs, [name \in 1 .. 4 |-> IF name = 1 THEN c ELSE {}], looks) :
                  jobs \in Histories \union {SameSecond}, c \in SUBSET Pods,
                  looks \in [Pods -> JobShapes]}
        \union CronJobSnapshot([cj EXCEPT !.suspended = TRUE], Histories, <<>>, <<>>)

\* Whatever Jobs there are, the one that speaks for a CronJob is its own, there
\* is one as soon as it has any, and none was created after it.
ASSUME NewestIsOwn ==
    \A jobs \in SUBSET {Job(n, t, o, {}) : n \in 1 .. 2, t \in 1 .. 2, o \in {"cj", "other"}} :
        LET newest == NewestOwnedJob([uid |-> "cj"], jobs)
            owned == {j \in jobs : j.owner = "cj"}
        IN  /\ Cardinality(newest) = (IF owned = {} THEN 0 ELSE 1)
            /\ \A j \in newest, k \in owned : j.owner = "cj" /\ k.created <= j.created

\* A Job as a target of its own.
JobView(conditions, pods, looks) == SnapshotForJob(Job(1, 1, "", conditions), pods, looks)

\* A bare Pod.
PodViews ==
    UNION {PodSnapshots(u, p) :
              u \in Pods,
              p \in {Fresh(0), BackOff(1), Dead(0), Ready(0), Ready(1), Leaving(0),
                     [Fresh(0) EXCEPT !.phase = "Succeeded"]}}

\* A pod that was already restarted when the watch began.
RestartViews == WithPods(Workload, {Fresh(0), Fresh(1)})
=============================================================================
