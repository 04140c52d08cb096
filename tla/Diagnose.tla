------------------------------ MODULE Diagnose ------------------------------
(***************************************************************************)
(* One diagnosis (internal/signatures/diagnose.go): the events are listed  *)
(* page by page, the rejections of pods are collected, then pod after pod  *)
(* goes through its detectors, which read nodes, claims and logs when they *)
(* need them.  The pods are those of the last snapshot of the watch; nodes *)
(* and claims go on changing, and containers go on dying and being         *)
(* restarted, while the diagnosis reads them, and a read may be denied,    *)
(* perhaps for one name only, or fail in another way.                      *)
(***************************************************************************)
EXTENDS Kubelet, FiniteSets, SequencesExt

CONSTANTS Cases,          \* the workloads that are diagnosed
          Nodes,          \* names; a name of a claim is none of them
          Pages,          \* of the event list
          MaxMoves        \* bound: changes of nodes, claims and containers

ASSUME DiagnoseAssumption ==
    /\ Pages \in Nat \ {0} /\ MaxMoves \in Nat
    /\ Nodes \intersect {"", "c1"} = {}

\* Who reports that it cannot create a pod of a workload of that kind: the
\* controller that creates it.
Reporter == [kind \in {"Deployment", "StatefulSet", "DaemonSet", "Job", "CronJob", "Rollout"} |->
                IF kind \in {"Deployment", "Rollout"} THEN "ReplicaSet"
                ELSE IF kind = "CronJob" THEN "Job" ELSE kind]

\* Every pod is one that Kubelet describes; no two have the same name, and none
\* has the UID of its predecessor ("before").
ASSUME CasesAssumption ==
    \A t \in Cases :
        /\ t.kind \in DOMAIN Reporter
        /\ IsFiniteSet(t.own) /\ IsFiniteSet(t.foreign)
        /\ t.current \in Seq(ToSet(t.current)) /\ t.old \in Seq(ToSet(t.old))
        /\ \A q \in ToSet(t.current \o t.old) :
              /\ q.pod.name \notin {"", "before"}
              /\ \E n \in Nodes : q \in Patients(q.pod.name, n)
        /\ \A u, v \in DOMAIN (t.current \o t.old) :
              (t.current \o t.old)[u].pod.name = (t.current \o t.old)[v].pod.name => u = v

VARIABLES target,         \* the one that is: kind, rejections of its pods and of its
                          \* neighbours' pods, patients
          world,          \* external: the condition of each node and claim
          live,           \* external: where the main container of each pod is by now
          moves,
          phase,          \* "events", "workload", "pods", "done"
          page, listed,   \* of the events; whether the list is complete
          turn,           \* of the patients
          reads,          \* cache, denied, degraded; history: failed
          findings,
          held            \* history: <<name, condition>> since the first pod had its turn

vars == <<target, world, live, moves, phase, page, listed, turn, reads, findings, held>>

Sick == target.current \o target.old

\* What the diagnosis can ask for.
Names == (UNION {{q.pod.node, q.pod.claim} : q \in ToSet(Sick)}) \ {""}

Resource(name) == IF name \in Nodes THEN "nodes" ELSE "claims"

Conditions(name) == IF name \in Nodes THEN {"True", "False", "Unknown"} ELSE {"Pending", "Bound"}

IsCurrent(u) == u <= Len(target.current)

\* Types; findings are of the pods that had their turn.
TypeOK ==
    /\ \A n \in Names : world[n] \in Conditions(n)
    /\ live \in [DOMAIN Sick -> Instants]
    /\ phase \in {"events", "workload", "pods", "done"}
    /\ page \in 1 .. Pages /\ listed \in BOOLEAN /\ moves \in 0 .. MaxMoves
    /\ turn \in 1 .. Len(Sick) + 1
    /\ \A n \in Names : reads.cache[n] \in Conditions(n) \union {"unread", ""}
    /\ reads.denied \subseteq {"nodes", "claims", "logs"}
    /\ \A f \in ToSet(findings) : f.pod = "" \/ \E u \in 1 .. turn - 1 : f.pod = Sick[u].pod.name

----------------------------------------------------------------------------
(* Reads: a name is read once, and no resource again after a denial *)

Answers == {"ok", "denied", "error"}

AnswersIf(asked) == IF asked THEN Answers ELSE {"ok"}

Denied(r, resource) ==
    [r EXCEPT !.denied = @ \union {resource}, !.degraded = @ \union {resource}]

\* Mutant: nothing is cached.
FreshAlways(r, name) == name # "" /\ Resource(name) \notin r.denied

Fresh(r, name) == name # "" /\ Resource(name) \notin r.denied /\ r.cache[name] = "unread"

Get(r, name, answer) ==
    IF ~ Fresh(r, name) THEN r
    ELSE CASE answer = "ok"     -> [r EXCEPT !.cache[name] = world[name]]
           [] answer = "denied" -> Denied([r EXCEPT !.cache[name] = ""], Resource(name))
           [] OTHER             -> [r EXCEPT !.cache[name] = "", !.failed = @ \union {name}]

\* A denial silences the names that were read before it, too.
Got(r, name) == IF name = "" \/ Resource(name) \in r.denied THEN "" ELSE r.cache[name]

GetLog(r, u, answer) ==
    IF "logs" \in r.denied THEN r
    ELSE CASE answer = "ok"     -> r
           [] answer = "denied" -> Denied(r, "logs")
           [] OTHER             -> [r EXCEPT !.failed = @ \union {u}]

\* Which instance is asked for is decided by the snapshot, what is answered by
\* where the container is now.
GotLog(r, c, now, answer) ==
    IF "logs" \in r.denied \/ answer # "ok" THEN NoLog ELSE LogOf(now, ReadsPrevious(c))

----------------------------------------------------------------------------
(* Workload findings *)

ReplicaSets ==
    {[owner |-> "target", message |-> m] : m \in target.own}
        \union {[owner |-> "other", message |-> f.message] :
                   f \in {g \in target.foreign : g.kind = "ReplicaSet"}}

ReplicaSetFailures == {rs.message : rs \in {r \in ReplicaSets : r.owner = "target"}}

FailedCreates ==
    {[kind |-> Reporter[target.kind], message |-> m] : m \in target.own} \union target.foreign

EventMessages ==
    {e.message : e \in {f \in FailedCreates : f.kind \in {"ReplicaSet", target.kind}}}

CreateFailureMessages(conditionsRead) ==
    (IF target.kind = "Deployment" /\ conditionsRead THEN SetToSeq(ReplicaSetFailures) ELSE <<>>)
        \o (IF listed THEN SetToSeq(EventMessages) ELSE <<>>)

Rejection(message) ==
    IF matchAdmission(message) THEN "AdmissionRejected"
    ELSE IF matchQuota(message) THEN "QuotaExceeded" ELSE "none"

Finding(pod, cause, log) ==
    [pod |-> pod, signature |-> cause.signature, on |-> cause.on, why |-> cause.why, log |-> log]

WorkloadFinding(message) == Finding("", Trouble(Rejection(message), message, ""), NoLog)

Rejections(messages) ==
    LET named[n \in 0 .. Len(messages)] ==
            IF n = 0 THEN <<>>
            ELSE IF Rejection(messages[n]) = "none" THEN named[n - 1]
            ELSE Append(named[n - 1], WorkloadFinding(messages[n]))
    IN  named[Len(messages)]

\* Mutant: a fact is reported once per source.
KeepAll(fs) == fs

\* Two findings are one when they state the same fact about the same pod.
Key(f) == <<f.signature, f.on, f.why, f.pod>>

DedupIdentical(fs) ==
    LET kept[n \in 0 .. Len(fs)] ==
            IF n = 0 THEN <<>>
            ELSE IF \E g \in ToSet(kept[n - 1]) : Key(g) = Key(fs[n]) THEN kept[n - 1]
            ELSE Append(kept[n - 1], fs[n])
    IN  kept[Len(fs)]

----------------------------------------------------------------------------

Init == /\ target \in Cases
        /\ world \in {w \in [Names -> UNION {Conditions(n) : n \in Names}] :
                         \A n \in Names : w[n] \in Conditions(n)}
        /\ live = [u \in DOMAIN Sick |-> Instant(Sick[u].pod)]
        /\ moves = 0
        /\ phase = "events" /\ page = 1 /\ listed = FALSE /\ turn = 1
        /\ reads = [cache |-> [n \in Names |-> "unread"], denied |-> {},
                    degraded |-> {}, failed |-> {}]
        /\ findings = <<>>
        /\ held = {<<n, world[n]>> : n \in Names}

\* A node fails or recovers, a claim is bound or lost; before the first pod has
\* its turn nothing has read them, after the last nothing will.
WorldMoves ==
    /\ phase = "pods" /\ turn <= Len(Sick) /\ moves < MaxMoves
    /\ \E n \in Names, c \in {"True", "False", "Unknown", "Pending", "Bound"} :
        /\ c \in Conditions(n) \ {world[n]}
        /\ world' = [world EXCEPT ![n] = c]
        /\ held' = held \union {<<n, c>>}
    /\ moves' = moves + 1
    /\ UNCHANGED <<target, live, phase, page, listed, turn, reads, findings>>

\* A container that keeps dying does so again, backs off, or is restarted.
ContainerMoves ==
    /\ phase = "pods" /\ moves < MaxMoves
    /\ \E u \in turn .. Len(Sick) :
        /\ Sick[u].dies
        /\ \E now \in NextInstants(live[u]) : live' = [live EXCEPT ![u] = now]
    /\ moves' = moves + 1
    /\ UNCHANGED <<target, world, phase, page, listed, turn, reads, findings, held>>

\* Mutant: an empty token is followed once more.
ListsEventsOverrun ==
    /\ phase = "events"
    /\ page' = page + 1
    /\ phase' = IF page > Pages THEN "workload" ELSE phase
    /\ listed' = (page > Pages)
    /\ UNCHANGED <<target, world, live, moves, turn, reads, findings, held>>

\* All pages or nothing; any error counts as a denial here.
ListsEvents ==
    /\ phase = "events"
    /\ \E answer \in {"ok", "error"} :
        IF answer = "error"
        THEN /\ phase' = "workload" /\ page' = 1
             /\ reads' = [reads EXCEPT !.degraded = @ \union {"events"}]
             /\ UNCHANGED listed
        ELSE /\ IF page = Pages
                THEN phase' = "workload" /\ listed' = TRUE /\ page' = 1
                ELSE page' = page + 1 /\ UNCHANGED <<phase, listed>>
             /\ UNCHANGED reads
    /\ UNCHANGED <<target, world, live, moves, turn, findings, held>>

WorkloadFindings ==
    /\ phase = "workload"
    /\ \E missing \in IF target.kind = "Deployment" THEN {{}, {"deployment"}, {"replicasets"}} ELSE {{}} :
        /\ findings' = Rejections(CreateFailureMessages(missing = {}))
        /\ reads' = [reads EXCEPT !.degraded = @ \union missing]
    /\ phase' = "pods"
    /\ UNCHANGED <<target, world, live, moves, page, listed, turn, held>>

\* The container whose crash a finding of that signature shows the log of.
Logged(signature, pod) ==
    CASE signature = "CrashLoopBackOff" -> CrashLooping(pod)
      [] signature = "ContainerFailed"  -> FailedContainer(pod)
      [] OTHER                          -> {}

\* The detectors are asked in order, so a claim is read only when the node and
\* the deletion explain nothing, and a log only for the match.
DiagnosePod ==
    /\ phase = "pods" /\ turn <= Len(Sick)
    /\ LET pod == Sick[turn].pod
           detectors == IF IsCurrent(turn) THEN podDetectors ELSE oldPodDetectors
           node == IF pod.ready THEN "" ELSE pod.node
           told == IF listed THEN UNION {Sick[u].events : u \in DOMAIN Sick} ELSE {}
       IN  \E nodeAnswer \in AnswersIf(Fresh(reads, node)) :
           LET first == Get(reads, node, nodeAnswer)
               claim == IF \/ ~ IsCurrent(turn)
                           \/ NodeNotReady(pod, Got(first, node)) # {}
                           \/ StuckTerminating(pod, Now) # {} THEN "" ELSE pod.claim
           IN  \E claimAnswer \in AnswersIf(Fresh(first, claim)) :
               LET second == Get(first, claim, claimAnswer)
                   match == FirstMatch(detectors, pod,
                               [node |-> Got(second, node), claim |-> Got(second, claim),
                                events |-> told, now |-> Now])
                   crashed == UNION {Logged(f.signature, pod) : f \in match}
               IN  \E logAnswer \in AnswersIf(crashed # {} /\ "logs" \notin second.denied) :
                   /\ reads' = IF crashed = {} THEN second ELSE GetLog(second, pod.name, logAnswer)
                   /\ findings' = findings \o SetToSeq(
                        {Finding(pod.name, f,
                                 IF crashed = {} THEN NoLog
                                 ELSE GotLog(second, pod.containers[CHOOSE i \in crashed : TRUE],
                                             live[turn], logAnswer)) : f \in match})
    /\ turn' = turn + 1
    /\ UNCHANGED <<target, world, live, moves, phase, page, listed, held>>

Reports ==
    /\ phase = "pods" /\ turn > Len(Sick)
    /\ findings' = DedupIdentical(findings)
    /\ phase' = "done"
    /\ UNCHANGED <<target, world, live, moves, page, listed, turn, reads, held>>

Next == WorldMoves \/ ContainerMoves \/ ListsEvents \/ WorkloadFindings \/ DiagnosePod \/ Reports

Spec == Init /\ [][Next]_vars

----------------------------------------------------------------------------
(* Properties *)

Verdicts(u) == {[signature |-> f.signature, on |-> f.on, why |-> f.why] :
                   f \in {g \in ToSet(findings) : g.pod = Sick[u].pod.name}}

\* The report says that the read is missing, or it failed without a denial.
Excused(name) == Resource(name) \in reads.degraded \/ name \in reads.failed

\* What is wrong with a pod apart from its node, as far as it can be known, or
\* what it is taken for at the instants at which a detector lags.
OwnTroubles(u) ==
    LET q == Sick[u]
        claim == q.pod.claim
    IN  IF ~ IsCurrent(u)
        THEN {IF t.signature = "PodStuckTerminating" THEN t ELSE None : t \in {q.truth, q.apparent}}
        ELSE CASE q.needs = ""       -> {q.truth, q.apparent}
               [] q.needs = "events" ->
                    IF "events" \in reads.degraded THEN {q.otherwise} ELSE {q.truth, q.apparent}
               [] q.needs = "claims" ->
                    {t \in {q.truth, q.otherwise} :
                        IF t = q.truth THEN <<claim, "Pending">> \in held
                        ELSE <<claim, "Bound">> \in held \/ Excused(claim)}

\* A dead node outranks everything, if it was dead at some instant of the
\* diagnosis; anything else may be said of an unready pod if its node was
\* healthy at some instant of it, or the report admits not knowing.
RightVerdicts(u) ==
    LET pod == Sick[u].pod
        onNode == pod.node # "" /\ ~ pod.ready
    IN  {Trouble("NodeNotReady", pod.node, c) :
            c \in {d \in {"False", "Unknown"} : onNode /\ <<pod.node, d>> \in held}}
        \union {t \in OwnTroubles(u) :
                   onNode => <<pod.node, "True">> \in held \/ Excused(pod.node)}

\* Each pod gets one finding, and it names what is wrong with it: the deeper
\* cause and not a symptom (a dead node before all, OOM and start failures
\* before the crash loop, a pending claim before the unscheduled pod), at every
\* instant of the backoff cycle, undisturbed by stale events, events of a
\* predecessor, a sidecar, or what nodes and claims do meanwhile.  Two detectors
\* lag, and only they may: the second crash is not called a loop before the
\* container backs off or is restarted (against the comment of detectCrashLoop),
\* and a pod stuck in its deletion is not called so for another grace period
\* (against docs/signatures.md:36).  Where else a verdict falls short, the report
\* says which read is missing (podDetectors, waitingToStart, Report.Degraded).
RootCause ==
    phase = "done" =>
        \A u \in DOMAIN Sick :
            /\ Cardinality({i \in DOMAIN findings : findings[i].pod = Sick[u].pod.name}) <= 1
            /\ (IF Verdicts(u) = {} THEN {None} ELSE Verdicts(u)) \subseteq RightVerdicts(u)

\* Pods that share a node agree on whether it is the cause, word for word, so
\* that the collapse layer folds them; likewise for a claim, which pods of an
\* old revision are not asked about.  A denial ends it.
SharedCauseIsShared ==
    phase = "done" =>
        \A u, v \in DOMAIN Sick :
            LET p == Sick[u].pod
                q == Sick[v].pod
                Blames(w, signature) == {f \in Verdicts(w) : f.signature = signature}
            IN  /\ p.node = q.node /\ ~ p.ready /\ ~ q.ready /\ "nodes" \notin reads.degraded
                       => Blames(u, "NodeNotReady") = Blames(v, "NodeNotReady")
                /\ /\ p.claim = q.claim /\ p.node = q.node
                   /\ IsCurrent(u) /\ IsCurrent(v) /\ "claims" \notin reads.degraded
                   => Blames(u, "PVCPending") = Blames(v, "PVCPending")

\* A rejection of the target's own pods is named once, though a condition and an
\* event both tell of it, unless neither could be read; but one of a CronJob's
\* pods never is, for its Jobs report it and the kind that is looked for is
\* CronJob (createFailureMessages).
RejectionsAreNamed ==
    phase = "done" /\ target.kind # "CronJob" =>
        \A m \in target.own :
            /\ Rejection(m) # "none"
            /\ listed \/ (target.kind = "Deployment" /\ reads.degraded \intersect {"deployment", "replicasets"} = {})
            => Cardinality({i \in DOMAIN findings :
                   findings[i].pod = "" /\ findings[i].on = m
                       /\ findings[i].signature = Rejection(m)}) = 1

\* What a log read may return, the kubelet permitting: the log of the last crash.
\* While the asked instance is gone, the container having died again or backed off
\* since the snapshot, it returns nothing, and nothing notes that; and when a dead
\* container was restarted since, it returns the output of the instance that runs
\* (against the comment of fetchCrashLogs).
LogMayBe(log, taken, now) ==
    \/ log = LastCrash(now)
    \/ /\ log = NoLog
       /\ \/ taken.state = "terminated" /\ now.state = "waiting"
          \/ taken.state # "terminated" /\ now.state = "terminated"
    \/ log = now.restarts /\ taken.state = "terminated" /\ now.state = "running"

\* The log that goes with a finding is that of the container's last crash at the
\* time of the read, whatever it did since the snapshot by which it was asked for,
\* apart from the two races above.  It is never that of an instance that was gone
\* before the crash in the snapshot, and one that is missing for another reason
\* could not be read.
LogIsOfLastCrash ==
    [][turn' > turn =>
          \A f \in ToSet(findings') :
              f.pod = Sick[turn].pod.name /\ f.signature \in {"CrashLoopBackOff", "ContainerFailed"} =>
                  LET taken == Instant(Sick[turn].pod)
                  IN  \/ /\ LogMayBe(f.log, taken, live[turn])
                         /\ f.log # NoLog => f.log >= LastCrash(taken)
                      \/ f.log = NoLog /\ ("logs" \in reads'.degraded \/ f.pod \in reads'.failed)]_vars

\* "Workload-level signatures come from the controller's own failure to create
\* pods" (docs/signatures.md:22).
CauseIsOwn == \A f \in ToSet(findings) : f.pod = "" => f.on \in target.own
=============================================================================
