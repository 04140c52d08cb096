------------------------------ MODULE Discovery ------------------------------
(***************************************************************************)
(* How a fleet run finds its targets: Discover of internal/settle/fleet.go.*)
(* It lists one kind after the other, each list capped at the ceiling plus *)
(* one, and refuses a selection above the ceiling; meanwhile workloads     *)
(* come and go.  The API server is external: a list is the state of one    *)
(* kind at one instant, cut at the limit, with a continue token when it    *)
(* was cut.  The lists are of names; which labels select them is left out. *)
(* No name is one of Fleet, which watches what is found here.              *)
(***************************************************************************)
EXTENDS Integers, FiniteSets, Sequences, SequencesExt

CONSTANTS Kinds,          \* the kinds listed, as a sequence
          Names,          \* of workloads, for each kind
          Ceiling,        \* Scope.MaxTargets
          Changes         \* bound: how many workloads come or go meanwhile

ASSUME DiscoveryAssumption ==
    /\ Ceiling \in Nat \ {0}
    /\ Changes \in Nat
    /\ IsFiniteSet(Names)
    /\ Kinds \in Seq(STRING) /\ IsInjective(Kinds)

Workloads == Range(Kinds) \X Names

VARIABLES cluster,        \* the workloads the selection matches now
          next,           \* index of the next kind to list
          targets,        \* collected so far
          more,           \* whether a list was cut
          selection,      \* what Discover answers
          always, ever    \* history: workloads matched all along, or at some time

discoverVars == <<cluster, next, targets, more, selection, always, ever>>

DiscoverInit ==
    /\ cluster \in SUBSET Workloads
    /\ next = 1
    /\ targets = {}
    /\ more = FALSE
    /\ selection = [kind |-> "none", matched |-> 0]
    /\ always = cluster
    /\ ever = cluster

Running == selection.kind = "none"

OfKind(k) == {w \in cluster : w[1] = k}

\* Someone deploys or deletes a workload; Changes of them at most.
ClusterChanges ==
    /\ Running
    /\ Cardinality(ever) - Cardinality(always) < Changes
    /\ \E w \in Workloads :
        IF w \in cluster
        THEN cluster' = cluster \ {w} /\ always' = always \ {w} /\ UNCHANGED ever
        ELSE cluster' = cluster \union {w} /\ ever' = ever \union {w} /\ UNCHANGED always
    /\ UNCHANGED <<next, targets, more, selection>>

\* What the API server answers to a list with a limit.
Page(k, limit) ==
    {page \in SUBSET OfKind(k) :
        Cardinality(page) = IF Cardinality(OfKind(k)) <= limit
                            THEN Cardinality(OfKind(k)) ELSE limit}

\* Mutant: each list replaces the one before it.
ListReplaces ==
    /\ Running
    /\ next <= Len(Kinds)
    /\ \E page \in Page(Kinds[next], Ceiling + 1) :
        /\ targets' = page
        /\ more' = (more \/ page # OfKind(Kinds[next]))
    /\ next' = next + 1
    /\ UNCHANGED <<cluster, selection, always, ever>>

\* Mutant: the page is as large as the ceiling, and the token is not read.
ListCut ==
    /\ Running
    /\ next <= Len(Kinds)
    /\ \E page \in Page(Kinds[next], Ceiling) : targets' = targets \union page
    /\ next' = next + 1
    /\ UNCHANGED <<cluster, more, selection, always, ever>>

\* List the next kind.
List ==
    /\ Running
    /\ next <= Len(Kinds)
    /\ \E page \in Page(Kinds[next], Ceiling + 1) :
        /\ targets' = targets \union page
        /\ more' = (more \/ page # OfKind(Kinds[next]))
    /\ next' = next + 1
    /\ UNCHANGED <<cluster, selection, always, ever>>

\* A list is refused or fails.
ListFails ==
    /\ Running
    /\ next <= Len(Kinds)
    /\ \E e \in {"permission", "other"} : selection' = [kind |-> e, matched |-> 0]
    /\ UNCHANGED <<cluster, next, targets, more, always, ever>>

Decide ==
    /\ Running
    /\ next > Len(Kinds)
    /\ selection' = [kind |-> IF more \/ Cardinality(targets) > Ceiling THEN "over_ceiling"
                              ELSE IF targets = {} THEN "no_match" ELSE "targets",
                     matched |-> Cardinality(targets)]
    /\ UNCHANGED <<cluster, next, targets, more, always, ever>>

DiscoverNext == ClusterChanges \/ List \/ ListFails \/ Decide

DiscoverSpec == DiscoverInit /\ [][DiscoverNext]_discoverVars

----------------------------------------------------------------------------
(* Properties *)

\* Although the kinds are listed at different times, a fleet that is watched
\* contains every workload that matched all along, and none that never did
\* (Discover).
SelectionBracketed ==
    selection.kind = "targets" => always \subseteq targets /\ targets \subseteq ever

\* The ceiling refuses no selection that fits and lets through none that does
\* not, as far as a cluster that changes can tell; and nothing matched is only
\* said when nothing matched all along.  The number a refusal names counts no
\* workload that did not match (OverCeilingError, NoMatchError).
CeilingIsExact ==
    /\ selection.kind = "over_ceiling" =>
            Ceiling < selection.matched /\ selection.matched <= Cardinality(ever)
    /\ selection.kind \in {"targets", "no_match"} => Cardinality(always) <= Ceiling
    /\ selection.kind = "no_match" => always = {}
=============================================================================
