------------------------------- MODULE Custom -------------------------------
(***************************************************************************)
(* A resource mole has no typed support for (internal/settle/dynamic.go):  *)
(* its pods, and what is made of the generation its controller says it has *)
(* observed, which may be published as a number, as a text that reads as   *)
(* one, or as any other text (a hash).                                     *)
(***************************************************************************)
EXTENDS Integers

Forms == {"number", "numeral", "text", "none"}

\* Mutant: every text is dropped.
NormalizeDropsTexts(observed) ==
    IF observed.form \in {"numeral", "text"} THEN [observed EXCEPT !.form = "none"] ELSE observed

\* kstatus fails on a text, and skips its check without one.
NormalizeObservedGeneration(observed) ==
    CASE observed.form = "numeral" -> [observed EXCEPT !.form = "number"]
      [] observed.form = "text"    -> [observed EXCEPT !.form = "none"]
      [] OTHER                     -> observed

\* What kstatus computes of a resource with a Ready condition.
Compute(generation, observed, ready) ==
    IF ready /\ (observed.form = "number" => observed.value = generation)
    THEN "Current" ELSE "InProgress"

ResourceStatus(generation, observed, ready) ==
    Compute(generation, NormalizeObservedGeneration(observed), ready)

\* By the selector the resource declares, whoever owns the pods; else by
\* ownership, direct or through a ReplicaSet that is in the cache.
OwnedPods(resource, replicaSets, listed, pods) ==
    IF resource.selects THEN listed
    ELSE {u \in listed :
            \/ pods[u].owner = resource.uid
            \/ \E rs \in replicaSets : rs.uid = pods[u].owner /\ rs.owner = resource.uid}

=============================================================================
