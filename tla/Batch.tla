------------------------------- MODULE Batch --------------------------------
(***************************************************************************)
(* The snapshots of CronJobs, Jobs and bare Pods                           *)
(* (internal/settle/batch.go), which are judged by completion and not by   *)
(* held readiness.  Names and times of creation are numbers; a condition   *)
(* of a Job is listed when it is true.                                     *)
(***************************************************************************)
EXTENDS Snapshot

\* A suspended CronJob or Job will not run: that is terminal.
SuspendedSnapshot ==
    [NoSnapshot EXCEPT !.found = TRUE, !.completionTerminal = TRUE, !.terminalFailure = TRUE]

\* A started Job is not Current before it is complete.
JobStatus(j) ==
    CASE "Complete" \in j.conditions -> "Current"
      [] "Failed" \in j.conditions   -> "Failed"
      [] OTHER                       -> "InProgress"

\* listed: the pods the selector of the Job finds; looks: how pods look.
SnapshotForJob(j, listed, looks) ==
    IF j.suspended THEN SuspendedSnapshot
    ELSE [NoSnapshot EXCEPT
            !.found = TRUE,
            !.kstatus = JobStatus(j),
            !.current = listed,
            !.pod = [u \in Pods |-> IF u \in listed THEN looks[u] ELSE NoPod],
            !.completionTerminal = TRUE]

SortsBefore(j, k) ==
    j.created < k.created \/ (j.created = k.created /\ j.name < k.name)

\* The Job that is last in the order, as a set: empty when there is none.
NewestOwnedJob(cj, jobs) ==
    LET owned == {j \in jobs : j.owner = cj.uid}
    IN  {j \in owned : \A k \in owned \ {j} : SortsBefore(k, j)}

\* selected[j]: the pods the selector of Job j finds.
CronJobSnapshot(cj, jobs, selected, looks) ==
    LET newest == NewestOwnedJob(cj, jobs)
        nothingScheduled == [NoSnapshot EXCEPT !.found = TRUE, !.completionTerminal = TRUE]
    IN  IF cj.suspended THEN {SuspendedSnapshot}
        ELSE IF newest = {} THEN {nothingScheduled}
        ELSE {SnapshotForJob(j, selected[j.name], looks) : j \in newest}

\* What kstatus may say of a pod; a pod that waits may be crash-looping.
PodStatuses(p) ==
    CASE p.phase = "Succeeded"                             -> {"Current"}
      [] p.phase = "Failed"                                -> {"Failed"}
      [] p.phase = "Running" /\ p.ready                    -> {"Current"}
      [] p.phase = "Running" /\ ~ p.ready /\ p.waiting     -> {"Failed", "InProgress"}
      [] OTHER                                             -> {"InProgress"}

\* The target and its only pod are the same object.
PodSnapshots(u, p) ==
    {[NoSnapshot EXCEPT
        !.found = TRUE,
        !.kstatus = k,
        !.current = {u},
        !.pod = [v \in Pods |-> IF v = u THEN p ELSE NoPod],
        !.completionTerminal = (p.phase = "Succeeded")] : k \in PodStatuses(p)}

=============================================================================
