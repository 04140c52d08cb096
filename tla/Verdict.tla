------------------------------- MODULE Verdict -------------------------------
(***************************************************************************)
(* How results become a verdict and a verdict an exit code:                *)
(* internal/output/build.go and verdict.go, and the folding of findings,   *)
(* internal/collapse/collapse.go.                                          *)
(*                                                                         *)
(* A fleet target is [context, ns, name, status], a finding [context, ns,  *)
(* name, pod, cause]: name is the workload's <<kind, name>>, pod a path of *)
(* names, empty when the finding is about the workload; cause is signature *)
(* and cause text.  Reasons, counts per pod and evidence are left out;     *)
(* sequences are kept where the code promises an order.                    *)
(***************************************************************************)
EXTENDS Lists

TargetStatuses == {"settled", "progressing", "failed"}

\* The statuses by StatusRank, the most severe last.
ByRank == <<"settled", "progressing", "no_match", "permission_denied", "failed">>

Statuses == Range(ByRank)

StatusRank(s) == CHOOSE i \in 1 .. Len(ByRank) : ByRank[i] = s

\* The status of an entry the caller left to be judged from its targets.
Unjudged == ""

WorstStatus(statuses) ==
    IF "failed" \in statuses THEN "failed"
    ELSE IF "progressing" \in statuses THEN "progressing" ELSE "settled"

StatusesOf(entries) == {entries[i].status : i \in DOMAIN entries}

FillContextVerdicts(entries, targets) ==
    [i \in DOMAIN entries |->
        LET own == {t \in ToSet(targets) : t.context = entries[i].context}
        IN  IF entries[i].status # Unjudged THEN entries[i]
            ELSE [entries[i] EXCEPT !.status =
                    IF own = {} THEN "no_match" ELSE WorstStatus({t.status : t \in own})]]

\* Mutant: the merged status is folded like a fleet's.
ContextsStatusAsFleet(entries) == WorstStatus(StatusesOf(entries))

ContextsStatus(entries) ==
    CHOOSE s \in StatusesOf(entries) \union {"settled"} :
        \A o \in StatusesOf(entries) : StatusRank(s) >= StatusRank(o)

\* Targets that are not settled, grouped by context and namespace.
NamespaceVerdicts(targets) ==
    LET listed == Picked(targets, {i \in DOMAIN targets : targets[i].status # "settled"})
        home == [i \in DOMAIN listed |-> <<listed[i].context, listed[i].ns>>]
        Group(g) ==
            LET own == Picked(listed, {i \in DOMAIN listed : home[i] = g})
            IN  [context |-> g[1], ns |-> g[2], status |-> WorstStatus(StatusesOf(own)),
                 targets |-> [i \in DOMAIN own |->
                                [name |-> own[i].name, status |-> own[i].status]]]
    IN  [k \in DOMAIN Distinct(home) |-> Group(Distinct(home)[k])]

----------------------------------------------------------------------------
(* Collapse *)

NoPod == <<>>

\* The resource a finding is anchored to, by name: a workload without its kind.
AnchorRef(f) == <<f.context, f.ns>> \o (IF f.pod # NoPod THEN f.pod ELSE <<f.name[2]>>)

AnchorsOf(findings, cause) ==
    LET own == Picked(findings, {i \in DOMAIN findings : findings[i].cause = cause})
    IN  [i \in DOMAIN own |-> AnchorRef(own[i])]

CausesOf(findings) == Distinct([i \in DOMAIN findings |-> findings[i].cause])

Entry(cause, refs) ==
    [cause |-> cause, affected |-> Len(refs), examples |-> SubSeq(refs, 1, Min({3, Len(refs)}))]

\* Mutant: a second finding about the same resource counts once more.
CollapseAll(findings) ==
    LET causes == CausesOf(findings)
    IN  [k \in DOMAIN causes |-> Entry(causes[k], AnchorsOf(findings, causes[k]))]

\* Findings that share a cause are one entry, which counts the resources.
Collapse(findings) ==
    LET causes == CausesOf(findings)
    IN  [k \in DOMAIN causes |-> Entry(causes[k], Distinct(AnchorsOf(findings, causes[k])))]

----------------------------------------------------------------------------
(* The verdict *)

\* in: contexts, targets, failures, degraded, advisories and earlyExit of a
\* FleetInput.
BuildFleet(in) ==
    LET contexts == FillContextVerdicts(in.contexts, in.targets)
    IN  [status |-> IF contexts # <<>> THEN ContextsStatus(contexts)
                    ELSE WorstStatus(StatusesOf(in.targets)),
         contexts |-> contexts,
         namespaces |-> NamespaceVerdicts(in.targets),
         failures |-> in.failures,
         degraded |-> in.degraded,
         advisories |-> in.advisories,
         earlyExit |-> in.earlyExit]

\* The verdict about one named target, in a cluster: its header says what a
\* fleet enumerates.
Build(in) == [BuildFleet(in) EXCEPT !.namespaces = <<>>]

\* NoMatch, PermissionDenied and their fleet variants.
ErrorVerdict(status) ==
    [status |-> status, contexts |-> <<>>, namespaces |-> <<>>, failures |-> <<>>,
     degraded |-> <<>>, advisories |-> <<>>, earlyExit |-> FALSE]

\* delta: "none" and "baseline" without a previous verdict, else "changed" or
\* "same".
BaseExitCode(status) ==
    CASE status = "settled" -> 0
      [] status = "progressing" -> 2
      [] status = "permission_denied" -> 3
      [] status = "no_match" -> 4
      [] OTHER -> 1

\* Mutant: nothing moved is nothing wrong.
ExitCodeQuiet(status, delta) ==
    IF delta = "same" THEN 0
    ELSE IF delta = "changed" /\ status = "settled" THEN 5 ELSE BaseExitCode(status)

ExitCode(status, delta) ==
    IF delta \in {"none", "baseline"} \/ status \in {"permission_denied", "no_match"}
    THEN BaseExitCode(status)
    ELSE IF delta = "same" THEN 0
    ELSE IF status = "settled" THEN 5 ELSE BaseExitCode(status)
=============================================================================
