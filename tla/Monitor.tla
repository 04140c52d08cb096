------------------------------ MODULE Monitor ------------------------------
(***************************************************************************)
(* A monitor loop: the command with --since over the file it wrote the     *)
(* last time, again and again (loadSince and emit of internal/cli/root.go, *)
(* Diff, Apply and ExitCode).                                              *)
(*                                                                         *)
(* Between two runs anything may happen to the clusters: a run observes a  *)
(* world, any of Worlds.  How a run comes to its verdict is the matter of  *)
(* the other modules; here its targets have the statuses of the world.     *)
(* The caller keeps the file and may lose it.                              *)
(***************************************************************************)
EXTENDS Delta, Budget, Advisory

CONSTANTS Contexts,       \* the contexts asked for, sorted, as a sequence
          Workloads,      \* Workloads[c]: [ns, name] of what c matches, in fleet order;
                          \* name is <<kind, name>>
          Errors,         \* of a context that could not be watched
          Conditions,     \* Conditions[name]: of a workload, [status, pods, since]
          Loops,          \* <<mode, budget>>: --contexts, a fleet or a target; --budget
          CauseOf,        \* CauseOf[name]: why it does not settle
          EvidenceOf      \* EvidenceOf[cause]: sizes of the pieces of evidence

Matched == UNION {Range(Workloads[c]) : c \in Range(Contexts)}

ASSUME MonitorAssumption ==
    /\ Contexts \in Seq(STRING) /\ IsInjective(Contexts) /\ Contexts # <<>>
    /\ Workloads \in [Range(Contexts) -> Seq([ns : STRING, name : STRING \X STRING])]
    /\ Errors \subseteq {"no_match", "permission", "other"}
    /\ Loops \subseteq {"contexts", "cluster", "target"} \X Nat
    /\ (\E loop \in Loops : loop[1] = "target") => Workloads[Contexts[1]] # <<>>

\* A context lists a workload once; no namespace is called like all of them.
ASSUME WorkloadsAssumption ==
    /\ \A c \in Range(Contexts) : IsInjective(Workloads[c])
    /\ \A w \in Matched : w.ns # "*"

\* What a container last ended with, and the pods of a workload by the containers
\* that did.
Terminations == [finished : Nat, reason : STRING]

PodLists == Seq([init : Seq(Terminations), main : Seq(Terminations)])

\* What is known of a workload: the conditions it can be in, why it does not
\* settle, and the evidence of that.
ASSUME ConditionsAssumption ==
    \A w \in Matched :
        /\ w.name \in DOMAIN Conditions /\ Conditions[w.name] # {}
        /\ \A k \in Conditions[w.name] :
              /\ k.status \in TargetStatuses \union {"absent"}
              /\ k.pods \in PodLists /\ k.since \in Nat
        /\ w.name \in DOMAIN CauseOf
        /\ EvidenceOf[CauseOf[w.name]] \in Seq(Nat)

VARIABLES mode, budget,   \* the flags of the loop
          stored,         \* the file of --since
          seen,           \* the world the stored verdict was drawn from
          full,           \* the verdict of the last run before it was trimmed
          exit            \* its exit code

vars == <<mode, budget, stored, seen, full, exit>>

NoContext == ""

\* In the modes "cluster" and "target" there is one context, without a name.
Asked == IF mode = "contexts" THEN Contexts ELSE <<NoContext>>

WorkloadsOf(c) == Workloads[IF c = NoContext THEN Contexts[1] ELSE c]

\* The workloads that are watched: one only if it was named.
WatchedIn(c) == IF mode = "target" THEN SubSeq(WorkloadsOf(c), 1, 1) ELSE WorkloadsOf(c)

Places == UNION {{<<c, i>> : i \in DOMAIN WatchedIn(c)} : c \in Range(Asked)}

AnyCondition == UNION Range(Conditions)

Absent == [status |-> "absent", pods |-> <<>>, since |-> 0]

\* What a run may see of a context; what it cannot see is absent.
SightsOf(c) ==
    LET n == Len(WatchedIn(c))
    IN  {[answer |-> e, is |-> [i \in 1 .. n |-> Absent]] : e \in Errors}
        \union {[answer |-> "none", is |-> f] :
                    f \in {f \in [1 .. n -> AnyCondition] :
                            \A i \in 1 .. n : f[i] \in Conditions[WatchedIn(c)[i].name]}}

Worlds ==
    {w \in [Range(Asked) -> UNION {SightsOf(c) : c \in Range(Asked)}] :
        \A c \in Range(Asked) : w[c] \in SightsOf(c)}

\* A workload that is not there is not matched; none at all is an error.
ErrorOf(w, c) ==
    IF w[c].answer # "none" THEN w[c].answer
    ELSE IF \A i \in DOMAIN WatchedIn(c) : w[c].is[i].status = "absent" THEN "no_match"
    ELSE "none"

Answered(w, c) == ErrorOf(w, c) = "none"

StatusOfError(e) ==
    CASE e = "no_match" -> "no_match" [] e = "permission" -> "permission_denied"
      [] e = "other" -> "failed" [] OTHER -> Unjudged

----------------------------------------------------------------------------
(* One run *)

\* Only settled workloads are annotated.
NotesOn(condition) ==
    IF condition.status = "settled" THEN RecentRestarts(condition.pods, condition.since) ELSE <<>>

\* The workloads of a context that are in one of the conditions sought.
FoundIn(w, c, sought) ==
    IF ~ Answered(w, c) THEN <<>>
    ELSE LET found == Picked([i \in DOMAIN WatchedIn(c) |-> i],
                             {i \in DOMAIN WatchedIn(c) : w[c].is[i] \in sought})
         IN  [k \in DOMAIN found |->
                LET workload == WatchedIn(c)[found[k]]
                    condition == w[c].is[found[k]]
                IN  [context |-> c, ns |-> workload.ns, name |-> workload.name,
                     status |-> condition.status, notes |-> NotesOn(condition)]]

Found(w, sought) == FlattenSeq([k \in DOMAIN Asked |-> FoundIn(w, Asked[k], sought)])

Findings(w) ==
    LET unsettled == Found(w, {k \in AnyCondition : k.status \in {"progressing", "failed"}})
    IN  [i \in DOMAIN unsettled |->
            LET t == unsettled[i]
            IN  [context |-> t.context, ns |-> t.ns, name |-> t.name, pod |-> NoPod,
                 cause |-> CauseOf[t.name]]]

Input(w) ==
    [contexts |-> IF mode # "contexts" THEN <<>>
                  ELSE [k \in DOMAIN Asked |-> [context |-> Asked[k],
                            status |-> StatusOfError(ErrorOf(w, Asked[k]))]],
     targets |-> Found(w, {k \in AnyCondition : k.status # "absent"}),
     failures |-> LET entries == Collapse(Findings(w))
                  IN  [i \in DOMAIN entries |->
                        [cause |-> entries[i].cause, affected |-> entries[i].affected,
                         evidence |-> EvidenceOf[entries[i].cause]]],
     degraded |-> <<>>,
     advisories |-> LET killed == Found(w, {k \in AnyCondition : NotesOn(k) # <<>>})
                    IN  [i \in DOMAIN killed |->
                            LET t == killed[i]
                            IN  [context |-> t.context, ns |-> t.ns, name |-> t.name,
                                 finished |-> t.notes[1].finished, reason |-> t.notes[1].reason,
                                 count |-> t.notes[1].count, evidence |-> <<1>>]],
     earlyExit |-> FALSE]

NoTruncation == [failures |-> 0, evidence |-> 0, namespaces |-> 0, advisories |-> 0]

\* firstContext names a context only when there is just one.
Header == IF mode = "target"
          THEN Key(NoContext, WatchedIn(NoContext)[1].ns, WatchedIn(NoContext)[1].name)
          ELSE Key(IF Len(Asked) = 1 THEN Asked[1] ELSE NoContext, "*", "workloads")

Headed(v) ==
    [header |-> Header, transitions |-> {}, baseline |-> FALSE, truncated |-> NoTruncation,
     status |-> v.status, contexts |-> v.contexts, namespaces |-> v.namespaces,
     failures |-> v.failures, degraded |-> v.degraded, advisories |-> v.advisories,
     earlyExit |-> v.earlyExit]

\* An error that is no verdict ends the command; over several contexts there
\* is none.
Dies(w) == mode # "contexts" /\ ErrorOf(w, NoContext) = "other"

VerdictOn(w) ==
    Headed(IF mode # "contexts" /\ ~ Answered(w, NoContext)
           THEN ErrorVerdict(StatusOfError(ErrorOf(w, NoContext)))
           ELSE IF mode = "target" THEN Build(Input(w)) ELSE BuildFleet(Input(w)))

NoVerdict == Headed(ErrorVerdict(Unjudged))

NoFile == NoVerdict

Running == -1             \* the exit code before the first run

DeltaOf(v) == IF v.baseline THEN "baseline" ELSE IF v.transitions = {} THEN "same" ELSE "changed"

WithDelta(v) ==
    IF stored = NoFile THEN [v EXCEPT !.baseline = TRUE]
    ELSE [v EXCEPT !.transitions = Diff(stored, v)]

Init == /\ \E loop \in Loops : mode = loop[1] /\ budget = loop[2]
        /\ stored = NoFile
        /\ seen = CHOOSE w \in Worlds : TRUE
        /\ full = NoVerdict
        /\ exit = Running

\* Mutant: the budget comes before the delta.
RunTrimsFirst(w) ==
    /\ ~ Dies(w)
    /\ full' = WithDelta(VerdictOn(w))
    /\ stored' = WithDelta(Apply(VerdictOn(w), budget))
    /\ exit' = ExitCode(stored'.status, DeltaOf(stored'))
    /\ seen' = w
    /\ UNCHANGED <<mode, budget>>

\* emit: the delta rides before the budget, the exit code comes last.
Run(w) ==
    /\ ~ Dies(w)
    /\ full' = WithDelta(VerdictOn(w))
    /\ stored' = Apply(full', budget)
    /\ exit' = ExitCode(stored'.status, DeltaOf(stored'))
    /\ seen' = w
    /\ UNCHANGED <<mode, budget>>

\* Nothing is emitted, and the file stays.
RunDies(w) ==
    /\ Dies(w)
    /\ full' = NoVerdict
    /\ exit' = 1
    /\ UNCHANGED <<mode, budget, stored, seen>>

FileLost ==
    /\ stored' = NoFile
    /\ full' = NoVerdict
    /\ exit' = Running
    /\ UNCHANGED <<mode, budget, seen>>

Next == (\E w \in Worlds : Run(w) \/ RunDies(w)) \/ FileLost

Spec == Init /\ [][Next]_vars
----------------------------------------------------------------------------
(* Properties *)

\* Every variable keeps its type; the budget never cuts the skeleton: status,
\* contexts and the delta, which is that of the whole verdict (emit: "Delta rides
\* before the budget").
TypeOK ==
    /\ <<mode, budget>> \in Loops
    /\ seen \in Worlds
    /\ stored.status \in Statuses \union {Unjudged}
    /\ full # NoVerdict => /\ stored.status = full.status
                           /\ stored.contexts = full.contexts
                           /\ stored.transitions = full.transitions
    /\ exit \in {Running} \union 0 .. 5

\* A run that had a verdict to compare with.
Compared == full # NoVerdict /\ ~ full.baseline

\* What of a world a verdict can tell: the contexts that answered, the statuses
\* of their workloads (one that is gone is not listed, like a settled one) and
\* the freshest termination of those that are settled.
Freshest(k) == IF NotesOn(k) = <<>> THEN 0 ELSE NotesOn(k)[1].finished

Shown(w, p) ==
    LET k == w[p[1]].is[p[2]]
    IN  IF ~ Answered(w, p[1]) THEN <<"unknown", 0>>
        ELSE <<IF k.status = "absent" THEN "settled" ELSE k.status, Freshest(k)>>

Told(w) == [errors |-> [c \in Range(Asked) |-> ErrorOf(w, c)],
            places |-> [p \in Places |-> Shown(w, p)]]

StillIsQuiet == (full'.transitions = {}) <=> (Told(seen') = Told(seen))

\* With the whole verdict on file a run reports a change exactly when
\* something changed since the last one (--since: "report what changed since
\* it and exit 0 when nothing did"), a kill that was recovered from included,
\* unless the run itself could not be made.
QuietIffStill ==
    [][Compared' /\ Checked(stored') /\ budget = 0 => StillIsQuiet]_vars

\* The same with a budget.
QuietUnderBudget == [][Compared' /\ Checked(stored') => StillIsQuiet]_vars

StatusTransitions(p) ==
    LET w == WatchedIn(p[1])[p[2]]
    IN  {t \in full'.transitions : t.kind = "status" /\ t.key = <<p[1], w.ns, w.name>>}

\* Workload by workload, in the contexts that both runs could watch, a
\* transition is what the two runs saw, and there is one if they saw different
\* statuses (statusTransition).
TransitionsAreTrue ==
    [][Compared' /\ Checked(stored) /\ Checked(stored') /\ budget = 0 =>
        \A p \in Places : Answered(seen, p[1]) /\ Answered(seen', p[1]) =>
            LET from == Shown(seen, p)[1]
                to == Shown(seen', p)[1]
            IN  IF from = to THEN StatusTransitions(p) = {}
                ELSE \E t \in StatusTransitions(p) :
                        StatusTransitions(p) = {t} /\ t.from = from /\ t.to = to]_vars

\* A workload is reported settled only by a run that could watch its cluster
\* (Diff: only what a run checked supports "absent = settled").
SettledWasChecked ==
    [][Compared' => \A p \in Places :
        (\E t \in StatusTransitions(p) : t.to = "settled") => Answered(seen', p[1])]_vars

\* An advisory is reported cleared only if the last run had one and this run,
\* which could watch the cluster, found the workload settled or gone without a
\* recent termination: one that fails now did not recover (Diff: "a vanished
\* advisory on a now-failing target is not aged out").  A named target is not
\* listed, whatever its status, and is excepted.
ClearedIsHealthy ==
    [][Compared' /\ mode # "target" =>
        \A p \in Places :
            LET w == WatchedIn(p[1])[p[2]]
            IN  (/\ Answered(seen', p[1])
                 /\ \E t \in full'.transitions :
                        t.kind = "advisory-cleared" /\ t.key = <<p[1], w.ns, w.name>>)
                => Shown(seen', p) = <<"settled", 0>> /\ Shown(seen, p)[2] # 0]_vars

\* A run that could not be made exits 3 or 4 whatever the last one said, and
\* declares nothing settled and no advisory cleared (ExitCode: "a check that
\* broke is never nothing moved").
BrokenCheckIsLoud ==
    [][full' # NoVerdict /\ ~ Checked(stored') =>
        /\ exit' = IF stored'.status = "no_match" THEN 4 ELSE 3
        /\ \A t \in full'.transitions :
            t.kind # "advisory-cleared" /\ (t.kind = "status" => t.to # "settled")]_vars

Trimmed == full # NoVerdict /\ stored # full

\* Nothing is dropped unless it is counted: what is emitted is a prefix of what
\* was found, and the counts make up the difference (Apply: "Every drop is
\* counted in truncated").
DropsAreCounted ==
    full # NoVerdict =>
        /\ Len(stored.namespaces) + stored.truncated.namespaces = Len(full.namespaces)
        /\ Len(stored.failures) + stored.truncated.failures = Len(full.failures)
        /\ Len(stored.advisories) + stored.truncated.advisories = Len(full.advisories)
        /\ PiecesOf(stored.failures) + PiecesOf(stored.advisories) + stored.truncated.evidence
              = PiecesOf(SubSeq(full.failures, 1, Len(stored.failures)))
                + PiecesOf(full.advisories)
        /\ IsPrefix(stored.namespaces, full.namespaces)

\* Entries are lost tier by tier: a failure is dropped only if no namespace and no
\* advisory is left, a namespace only if no advisory is, and the verdict fits
\* unless only its skeleton remains (Apply).  Of evidence it says nothing: what
\* fits returns, round by round, to the failures that are kept, after others were
\* dropped (budget.go:82-99).
TrimmedInTiers ==
    Trimmed =>
        /\ stored.truncated.failures > 0 => stored.namespaces = <<>>
        /\ stored.truncated.namespaces + stored.truncated.failures > 0 => stored.advisories = <<>>
        /\ \/ Tokens(stored) <= budget
           \/ stored.namespaces = <<>> /\ stored.failures = <<>> /\ stored.advisories = <<>>
=============================================================================
