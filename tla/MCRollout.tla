------------------------------ MODULE MCRollout ------------------------------
(* Instances of Rollout for TLC.                                            *)
EXTENDS Rollout, TLC

AnyPod == Permutations(Pods \ {Sibling})

Update == <<"v1", "v2">>

\* The sibling moves beside two of the custom resources: where it is given to the
\* resource it gets Ready and unready, where it is not it leaves.  Elsewhere it is
\* unready or draining for good.
Siblings ==
    [k \in Kinds |->
        CASE k = "Argo"        -> {Theirs(TRUE, FALSE), Theirs(FALSE, FALSE)}
          [] k = "Operator"    -> {Theirs(FALSE, TRUE), Gone}
          [] k = "StatefulSet" -> {Theirs(FALSE, TRUE)}
          [] OTHER             -> {Theirs(FALSE, FALSE)}]

\* The tracker's last snapshot is for the verdict of a deadline, which no step of
\* Rollout asks for: states that differ in it alone go on alike.
Told ==
    <<kind, cluster, cache, behind, time, due, [tracker EXCEPT !.lastSnap = NoSnapshot],
      outcome, good, calm>>
=============================================================================
