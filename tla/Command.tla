------------------------------- MODULE Command -------------------------------
(***************************************************************************)
(* One invocation of the command, from the watches to the exit code:       *)
(* runFleet and diagnoseFleet of internal/cli/root.go, runContexts and     *)
(* runOneContext of internal/cli/contexts.go.                              *)
(*                                                                         *)
(* Over several contexts (mode "contexts") one goroutine per context       *)
(* watches, then diagnoses and fills its slot; over one cluster (mode      *)
(* "cluster") there is a single one and it has no context.  Within each,   *)
(* every target that did not settle is diagnosed by a goroutine of its     *)
(* own, DiagnosisLimit of them at a time.  The merge waits for them all.   *)
(*                                                                         *)
(* What a watch answers is Fleet's matter and here a choice; so is what a  *)
(* diagnosis reports.  A named target is one workload per context; over    *)
(* one cluster its verdict is Build's, here that of a fleet of one.        *)
(***************************************************************************)
EXTENDS Verdict

CONSTANTS Contexts,       \* the contexts asked for, sorted, as a sequence
          Workloads,      \* Workloads[c]: [ns, name] of what c matches, in fleet order;
                          \* name is <<kind, name>>
          DiagnosisLimit, \* how many diagnoses a context runs at a time
          Results,        \* of a target: [outcome, wedgedOut, restarted]
          Reports         \* of a diagnosis: findings [pod, cause] and degraded

ASSUME CommandAssumption ==
    /\ Contexts \in Seq(STRING) /\ IsInjective(Contexts) /\ Contexts # <<>>
    /\ Workloads \in [Range(Contexts) -> Seq([ns : STRING, name : STRING \X STRING])]

\* A context has a name; a workload is matched once.
ASSUME NamesAssumption ==
    /\ "" \notin Range(Contexts)
    /\ \A c \in Range(Contexts) : IsInjective(Workloads[c])

ASSUME LimitAssumption == DiagnosisLimit \in Nat \ {0}

ASSUME ReportsAssumption ==
    /\ Results \subseteq [outcome : TargetStatuses, wedgedOut : BOOLEAN, restarted : BOOLEAN]
    /\ Reports \subseteq [findings : Seq([pod : Seq(STRING), cause : STRING]),
                          degraded : Seq(STRING)]

VARIABLES mode,
          stage,          \* stage[c]: of the context's goroutine
          results,        \* results[c]: what its watch found
          permits,        \* permits[c]: sends into the semaphore not yet received
          diagnosis,      \* diagnosis[c][i]: of target i, "queued" at first
          reports,        \* reports[c]: slots of the diagnoses
          outs,           \* outs[c]: slot of the context
          verdict, exit   \* what is emitted

vars == <<mode, stage, results, permits, diagnosis, reports, outs, verdict, exit>>

\* NotFoundError and NoMatchError, PermissionError, anything else (no client,
\* an unreachable server, an interrupt, a selection over the
\* ceiling).
WatchErrors == {"no_match", "permission", "other"}

NoContext == ""

Running == -1             \* the exit code before there is one

Asked == IF mode = "contexts" THEN Contexts ELSE <<NoContext>>

\* In mode "cluster" the workloads are those of the current context.
WorkloadsOf(c) == Workloads[IF c = NoContext THEN Contexts[1] ELSE c]

Slots == Range(Contexts) \union {NoContext}

NoReport == [findings |-> <<>>, degraded |-> <<>>]

EmptyOut == [status |-> Unjudged, error |-> "none", targets |-> <<>>, findings |-> <<>>,
             degraded |-> <<>>, advisories |-> <<>>, earlyExit |-> FALSE]

Init == /\ mode \in {"cluster", "contexts"}
        /\ stage = [c \in Slots |-> "watching"]
        /\ results = [c \in Slots |-> <<>>]
        /\ permits = [c \in Slots |-> 0]
        /\ diagnosis = [c \in Slots |-> <<>>]
        /\ reports = [c \in Slots |-> <<>>]
        /\ outs = [c \in Slots |-> EmptyOut]
        /\ verdict = ErrorVerdict(Unjudged)
        /\ exit = Running

Unsettled(c) == {i \in DOMAIN results[c] : results[c][i].outcome # "settled"}

----------------------------------------------------------------------------
(* One context *)

\* contextErrorEntry; with a single cluster the error itself is kept.
ContextErrorEntry(e) ==
    [EmptyOut EXCEPT !.error = e,
                     !.status = CASE e = "no_match" -> "no_match"
                                  [] e = "permission" -> "permission_denied"
                                  [] OTHER -> "failed"]

WatchFails(c) ==
    /\ stage[c] = "watching"
    /\ \E e \in WatchErrors : outs' = [outs EXCEPT ![c] = ContextErrorEntry(e)]
    /\ stage' = [stage EXCEPT ![c] = "done"]
    /\ UNCHANGED <<mode, results, permits, diagnosis, reports, verdict, exit>>

\* A fleet of nothing is a NoMatchError.
WatchEnds(c) ==
    /\ stage[c] = "watching"
    /\ WorkloadsOf(c) # <<>>
    /\ \E found \in [1 .. Len(WorkloadsOf(c)) -> Results] :
        results' = [results EXCEPT ![c] = found]
    /\ diagnosis' = [diagnosis EXCEPT ![c] = [i \in 1 .. Len(WorkloadsOf(c)) |-> "queued"]]
    /\ reports' = [reports EXCEPT ![c] = [i \in 1 .. Len(WorkloadsOf(c)) |-> NoReport]]
    /\ stage' = [stage EXCEPT ![c] = "diagnosing"]
    /\ UNCHANGED <<mode, permits, outs, verdict, exit>>

Located(c, i) == [context |-> c, ns |-> WorkloadsOf(c)[i].ns, name |-> WorkloadsOf(c)[i].name]

\* Findings name the workload they are about and the path to the pod.
Reported(c, i, r) ==
    [r EXCEPT !.findings =
        [k \in DOMAIN @ |->
            LET w == Located(c, i)
            IN  [context |-> c, ns |-> w.ns, name |-> w.name, cause |-> @[k].cause,
                 pod |-> IF @[k].pod = NoPod THEN NoPod ELSE w.name \o @[k].pod]]]

Queued(c, i) ==
    stage[c] = "diagnosing" /\ i \in Unsettled(c) /\ diagnosis[c][i] = "queued"

\* Mutant: nobody waits for a free place.
DiagnosisStartsAnyway(c, i) ==
    /\ Queued(c, i)
    /\ permits' = [permits EXCEPT ![c] = @ + 1]
    /\ diagnosis' = [diagnosis EXCEPT ![c][i] = "running"]
    /\ UNCHANGED <<mode, stage, results, reports, outs, verdict, exit>>

DiagnosisStarts(c, i) ==
    /\ Queued(c, i)
    /\ permits[c] < DiagnosisLimit
    /\ permits' = [permits EXCEPT ![c] = @ + 1]
    /\ diagnosis' = [diagnosis EXCEPT ![c][i] = "running"]
    /\ UNCHANGED <<mode, stage, results, reports, outs, verdict, exit>>

\* Mutant: a diagnosis that ends keeps its place.
DiagnosisEndsHolding(c, i) ==
    /\ stage[c] = "diagnosing" /\ diagnosis[c] # <<>> /\ diagnosis[c][i] = "running"
    /\ \E r \in Reports : reports' = [reports EXCEPT ![c][i] = Reported(c, i, r)]
    /\ diagnosis' = [diagnosis EXCEPT ![c][i] = "over"]
    /\ UNCHANGED <<mode, stage, results, permits, outs, verdict, exit>>

\* Mutant: reports are appended as they come.
DiagnosisEndsAppending(c, i) ==
    /\ stage[c] = "diagnosing" /\ diagnosis[c] # <<>> /\ diagnosis[c][i] = "running"
    /\ LET free == {j \in Unsettled(c) : reports[c][j] = NoReport}
           slot == CHOOSE j \in free : \A o \in free : j <= o
       IN  \E r \in Reports : reports' = [reports EXCEPT ![c][slot] = Reported(c, i, r)]
    /\ diagnosis' = [diagnosis EXCEPT ![c][i] = "over"]
    /\ permits' = [permits EXCEPT ![c] = @ - 1]
    /\ UNCHANGED <<mode, stage, results, outs, verdict, exit>>

DiagnosisEnds(c, i) ==
    /\ stage[c] = "diagnosing" /\ diagnosis[c] # <<>> /\ diagnosis[c][i] = "running"
    /\ \E r \in Reports : reports' = [reports EXCEPT ![c][i] = Reported(c, i, r)]
    /\ diagnosis' = [diagnosis EXCEPT ![c][i] = "over"]
    /\ permits' = [permits EXCEPT ![c] = @ - 1]
    /\ UNCHANGED <<mode, stage, results, outs, verdict, exit>>

Diagnosed(c) == \A i \in Unsettled(c) : diagnosis[c][i] = "over"

TargetAt(c, i) ==
    [context |-> c, ns |-> WorkloadsOf(c)[i].ns, name |-> WorkloadsOf(c)[i].name,
     status |-> results[c][i].outcome]

\* The reports are merged in the order of the fleet.
Filled(c) ==
    LET found == results[c]
        settled == Picked([i \in DOMAIN found |-> i],
                          {i \in DOMAIN found : found[i].outcome = "settled" /\ found[i].restarted})
    IN  [status |-> Unjudged, error |-> "none",
         targets |-> [i \in DOMAIN found |-> TargetAt(c, i)],
         findings |-> FlattenSeq([i \in DOMAIN found |-> reports[c][i].findings]),
         degraded |-> Distinct(FlattenSeq([i \in DOMAIN found |-> reports[c][i].degraded])),
         advisories |-> [k \in DOMAIN settled |-> Located(c, settled[k])],
         earlyExit |-> \E i \in DOMAIN found : found[i].wedgedOut]

Fill(c) ==
    /\ stage[c] = "diagnosing"
    /\ Diagnosed(c)
    /\ outs' = [outs EXCEPT ![c] = Filled(c)]
    /\ stage' = [stage EXCEPT ![c] = "done"]
    /\ UNCHANGED <<mode, results, permits, diagnosis, reports, verdict, exit>>

----------------------------------------------------------------------------
(* The merge *)

\* Messages of a context are prefixed with its name.
Prefixed(c, messages) ==
    IF c = NoContext THEN messages ELSE [k \in DOMAIN messages |-> <<c, messages[k]>>]

\* What the slots hold, one after the other in the order of the contexts.
Across(held) == FlattenSeq([k \in DOMAIN Asked |-> held[Asked[k]]])

Merged ==
    [contexts |-> IF mode = "cluster" THEN <<>>
                  ELSE [k \in DOMAIN Asked |->
                           [context |-> Asked[k], status |-> outs[Asked[k]].status]],
     targets |-> Across([c \in Slots |-> outs[c].targets]),
     failures |-> Collapse(Across([c \in Slots |-> outs[c].findings])),
     degraded |-> Distinct(Across([c \in Slots |-> Prefixed(c, outs[c].degraded)])),
     advisories |-> Across([c \in Slots |-> outs[c].advisories]),
     earlyExit |-> \E k \in DOMAIN Asked : outs[Asked[k]].earlyExit]

Waited == exit = Running /\ \A k \in DOMAIN Asked : stage[Asked[k]] = "done"

\* With a single cluster a typed error is a verdict (errorVerdict,
\* fleetErrorVerdict) ...
EmitError ==
    /\ Waited
    /\ mode = "cluster" /\ outs[NoContext].error \in {"no_match", "permission"}
    /\ verdict' = ErrorVerdict(outs[NoContext].status)
    /\ exit' = ExitCode(outs[NoContext].status, "none")
    /\ UNCHANGED <<mode, stage, results, permits, diagnosis, reports, outs>>

\* ... and any other an error of the command.
Die ==
    /\ Waited
    /\ mode = "cluster" /\ outs[NoContext].error = "other"
    /\ UNCHANGED verdict
    /\ exit' = 1
    /\ UNCHANGED <<mode, stage, results, permits, diagnosis, reports, outs>>

Emit ==
    /\ Waited
    /\ mode = "cluster" => outs[NoContext].error = "none"
    /\ verdict' = BuildFleet(Merged)
    /\ exit' = ExitCode(verdict'.status, "none")
    /\ UNCHANGED <<mode, stage, results, permits, diagnosis, reports, outs>>

Next == \/ \E k \in DOMAIN Asked :
            \/ WatchFails(Asked[k])
            \/ WatchEnds(Asked[k])
            \/ \E i \in Unsettled(Asked[k]) :
                    DiagnosisStarts(Asked[k], i) \/ DiagnosisEnds(Asked[k], i)
            \/ Fill(Asked[k])
        \/ EmitError \/ Die \/ Emit

Spec == Init /\ [][Next]_vars

\* What EmitError, Die and Emit have in common; when all are waited for, one of
\* them can be taken.
Ends == Waited /\ exit' \in 0 .. 4

\* A watch ends (Fleet, Watch), a diagnosis that runs has a context of 15
\* seconds, and the main goroutine blocks on the others only.
Fairness ==
    /\ \A c \in Slots :
        /\ WF_vars(\E k \in DOMAIN Asked : Asked[k] = c /\ (WatchFails(c) \/ WatchEnds(c)))
        /\ WF_vars(\E i \in Unsettled(c) : DiagnosisStarts(c, i) \/ DiagnosisEnds(c, i))
        /\ WF_vars(Fill(c))
    /\ WF_exit(Ends)

FairSpec == Spec /\ Fairness
----------------------------------------------------------------------------
(* Properties *)

\* Every variable keeps its type; the semaphore never holds more than it can.
TypeOK ==
    /\ mode \in {"cluster", "contexts"}
    /\ stage \in [Slots -> {"watching", "diagnosing", "done"}]
    /\ \A c \in Slots :
        /\ results[c] \in {<<>>} \union [1 .. Len(WorkloadsOf(c)) -> Results]
        /\ permits[c] \in 0 .. DiagnosisLimit
        /\ \A i \in DOMAIN diagnosis[c] : diagnosis[c][i] \in {"queued", "running", "over"}
        /\ \A i \in DOMAIN reports[c] :
            \/ reports[c][i] = NoReport
            \/ \E r \in Reports, j \in DOMAIN reports[c] : reports[c][i] = Reported(c, j, r)
        /\ outs[c].status \in Statuses \union {Unjudged}
    /\ exit \in {Running} \union 0 .. 4

Answered(c) == outs[c].error = "none"

Places == UNION {{k} \X DOMAIN results[Asked[k]] : k \in DOMAIN Asked}

At(p) == results[Asked[p[1]]][p[2]]

\* The exit code tells the truth about every cluster and every target of the
\* run (BuildFleet: "a cluster the run could not verify can never hide behind
\* a settled or progressing one"; ExitProgressing: never roll back on a rollout
\* that is still moving): 0 only if every context was checked and everything in
\* it settled, 2 only if all were checked, nothing failed and something moves,
\* 3 and 4 never when something failed.
UnverifiedNeverHides ==
    exit # Running =>
        LET checked == \A k \in DOMAIN Asked : Answered(Asked[k])
            failed == \E p \in Places : At(p).outcome = "failed"
            moving == \E p \in Places : At(p).outcome = "progressing"
        IN  /\ exit = 0 <=> checked /\ ~ failed /\ ~ moving
            /\ exit = 2 <=> checked /\ ~ failed /\ moving
            /\ exit \in {3, 4} =>
                   /\ ~ failed
                   /\ \A k \in DOMAIN Asked : outs[Asked[k]].error # "other"

\* What was found about the target at p, in whatever slot it is.
FindingsAt(p) ==
    LET c == Asked[p[1]]
        l == Located(c, p[2])
    IN  {f \in UNION {Range(reports[c][i].findings) : i \in DOMAIN reports[c]} :
            f.ns = l.ns /\ f.name = l.name}

\* What goroutines found is in the verdict, once (fill, diagnoseFleet, Collapse,
\* namespaceVerdicts): every target that did not settle is listed, no other is,
\* every finding is counted under its cause and every resource once per cause
\* (a workload by its name without its kind, as anchorRef has it).
NothingLost ==
    exit # Running /\ (mode = "cluster" => Answered(NoContext)) =>
        LET groups == verdict.namespaces
            listed == UNION {{g} \X DOMAIN groups[g].targets : g \in DOMAIN groups}
            findings == UNION {FindingsAt(p) : p \in Places}
        IN  /\ \A p \in Places : At(p).outcome # "settled" =>
                 LET l == Located(Asked[p[1]], p[2])
                 IN  Cardinality({x \in listed :
                        /\ groups[x[1]].context = l.context /\ groups[x[1]].ns = l.ns
                        /\ groups[x[1]].targets[x[2]] =
                              [name |-> l.name, status |-> At(p).outcome]}) = 1
            /\ Cardinality(listed) = Cardinality({p \in Places : At(p).outcome # "settled"})
            /\ {verdict.failures[e].cause : e \in DOMAIN verdict.failures}
                    = {f.cause : f \in findings}
            /\ \A e \in DOMAIN verdict.failures :
                 verdict.failures[e].affected =
                    Cardinality({<<f.context, f.ns, f.name[2], f.pod>> :
                        f \in {g \in findings : g.cause = verdict.failures[e].cause}})

Before(p, q) == p[1] < q[1] \/ (p[1] = q[1] /\ p[2] <= q[2])

\* However the goroutines interleave, causes come in the order of the first
\* target that has them, context by context (diagnoseFleet: "merges the reports
\* in fleet order so the output stays deterministic").
InFleetOrder ==
    exit # Running =>
        \A a, b \in DOMAIN verdict.failures : a < b =>
            \E p \in Places :
                /\ \E f \in FindingsAt(p) : f.cause = verdict.failures[a].cause
                /\ \A q \in Places :
                    (\E f \in FindingsAt(q) : f.cause = verdict.failures[b].cause) => Before(p, q)

\* The semaphore counts the diagnoses that run (diagnoseFleet), at most
\* DiagnosisLimit per context, and none outlives its context: whatever slot is
\* filled, every place is free again.
DiagnosesBounded ==
    \A c \in Slots :
        /\ permits[c] = Cardinality({i \in DOMAIN diagnosis[c] : diagnosis[c][i] = "running"})
        /\ permits[c] <= DiagnosisLimit
        /\ stage[c] = "done" => permits[c] = 0

\* The command ends: no goroutine waits for a place or a slot that never comes.
CommandEnds == <>(exit # Running)
=============================================================================
