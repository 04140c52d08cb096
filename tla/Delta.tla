------------------------------- MODULE Delta -------------------------------
(***************************************************************************)
(* What moved between two verdicts: internal/output/delta.go.              *)
(*                                                                         *)
(* A verdict is one of module Verdict with the field header, the workload  *)
(* a single-target verdict is about, and advisories [context, ns, name,    *)
(* finished, reason, ...]: finished, the time of the freshest termination, *)
(* tells one kill from another (LastFinishedAt).                           *)
(* Transitions are a set: the code sorts them for display.                 *)
(***************************************************************************)
EXTENDS Verdict

\* A run that could enumerate its targets.
Checked(v) == v.status \notin {"permission_denied", "no_match"}

\* Mutant: workloads of different contexts share a key.
KeyWithoutContext(context, ns, name) == <<"", ns, name>>

Key(context, ns, name) == <<context, ns, name>>

\* targetStatuses: the targets that a verdict enumerates.
FailingList(v) ==
    LET listed == UNION {{<<g.context, g.ns, g.targets[j]>> : j \in DOMAIN g.targets} :
                            g \in Range(v.namespaces)}
    IN  [k \in {Key(e[1], e[2], e[3].name) : e \in listed} |->
            (CHOOSE e \in listed : Key(e[1], e[2], e[3].name) = k)[3].status]

\* contextStatuses
Rollup(v) ==
    [c \in {e.context : e \in Range(v.contexts)} |->
        (CHOOSE e \in Range(v.contexts) : e.context = c).status]

AdvisoryIndex(v) ==
    [k \in {Key(a.context, a.ns, a.name) : a \in Range(v.advisories)} |->
        (CHOOSE a \in Range(v.advisories) : Key(a.context, a.ns, a.name) = k)]

Transition(kind, key, from, to) == [kind |-> kind, key |-> key, from |-> from, to |-> to]

\* Mutant: the fallback (reason and exit code) is compared instead of the time,
\* and two kills look alike.
NewTerminationByReason(p, a) == p.reason # a.reason

\* The fallback for a file without the time is left out.
NewTermination(p, a) == p.finished # a.finished

StatusMoves(prev, cur) ==
    LET pt == FailingList(prev)
        ct == FailingList(cur)
        before(k) == IF k \in DOMAIN pt THEN pt[k] ELSE IF Checked(prev) THEN "settled" ELSE ""
    IN  {Transition("status", k, before(k), ct[k]) : k \in {k \in DOMAIN ct : before(k) # ct[k]}}
        \union {Transition("status", k, pt[k], "settled") :
                    k \in IF Checked(cur) THEN DOMAIN pt \ DOMAIN ct ELSE {}}

ContextMoves(prev, cur) ==
    LET pc == Rollup(prev)
        cc == Rollup(cur)
    IN  {Transition("context", c, pc[c], cc[c]) :
            c \in {c \in DOMAIN pc \intersect DOMAIN cc : pc[c] # cc[c]}}

\* The status of the whole, when nothing finer tells the story.
Moves(prev, cur) ==
    LET finer == StatusMoves(prev, cur) \union ContextMoves(prev, cur)
    IN  IF finer = {} /\ prev.status # cur.status
        THEN {Transition("status", cur.header, prev.status, cur.status)} ELSE finer

\* Mutant: the failing list is not consulted.
AdvisoryMovesOfFailing(prev, cur) ==
    LET pa == AdvisoryIndex(prev)
        ca == AdvisoryIndex(cur)
    IN  {Transition("advisory-appeared", k, "", "") : k \in DOMAIN ca \ DOMAIN pa}
        \union {Transition("new-termination", k, "", "") :
                    k \in {k \in DOMAIN ca \intersect DOMAIN pa : NewTermination(pa[k], ca[k])}}
        \union {Transition("advisory-cleared", k, "", "") :
                    k \in IF Checked(cur) THEN DOMAIN pa \ DOMAIN ca ELSE {}}

AdvisoryMoves(prev, cur) ==
    LET pa == AdvisoryIndex(prev)
        ca == AdvisoryIndex(cur)
    IN  {Transition("advisory-appeared", k, "", "") : k \in DOMAIN ca \ DOMAIN pa}
        \union {Transition("new-termination", k, "", "") :
                    k \in {k \in DOMAIN ca \intersect DOMAIN pa : NewTermination(pa[k], ca[k])}}
        \union {Transition("advisory-cleared", k, "", "") :
                    k \in IF Checked(cur)
                          THEN DOMAIN pa \ (DOMAIN ca \union DOMAIN FailingList(cur)) ELSE {}}

Diff(prev, cur) == Moves(prev, cur) \union AdvisoryMoves(prev, cur)
=============================================================================
