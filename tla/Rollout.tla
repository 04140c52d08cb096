------------------------------- MODULE Rollout -------------------------------
(***************************************************************************)
(* A watch of a rollout that really happens: the cluster rolls a workload  *)
(* of one replica from template to template, while the three informer      *)
(* caches a snapshot is computed from (the workload's, the revision        *)
(* objects', the pods') follow it independently, each late by up to Lag    *)
(* units.  The split of internal/settle/revision.go and the snapshot of    *)
(* internal/settle/snapshot.go (of internal/settle/dynamic.go for custom   *)
(* resources) read the caches as they are, and the tracker of Tracker      *)
(* judges.                                                                 *)
(*                                                                         *)
(* The cluster (spec, controllers, kubelet, API server) is external.  Of   *)
(* the controllers it is assumed that a status they publish was true when  *)
(* they published it (when, and how stale it grows, is left open), and     *)
(* that a new pod needs longer than the lag to become Ready.               *)
(*                                                                         *)
(* Time is counted in evaluations.  The cluster moves and the caches are   *)
(* filled between two of them.                                             *)
(***************************************************************************)
EXTENDS Tracker, Sequences

CONSTANTS Kinds,          \* of the workloads that are watched
          Templates,      \* the pod template of each generation
          Sibling,        \* a pod of another workload that shares the selector
          SiblingStates,  \* SiblingStates[kind]: that it can be in, beside such a workload
          Lag,            \* how long a cache can differ from the cluster
          MaxTime         \* bound: evaluations of the watch

Split == INSTANCE Revision

\* No template is called as something else is.
ASSUME RolloutAssumption ==
    /\ Kinds \subseteq {"Deployment", "StatefulSet", "DaemonSet", "Operator", "Argo", "Legacy"}
    /\ Sibling \in Pods
    /\ Lag \in Nat /\ MaxTime \in Nat
    /\ Templates \in Seq(STRING) /\ Templates # <<>>
    /\ \A g \in 1 .. Len(Templates) : Templates[g] \notin {"other", "drift", Split!NoHash}

\* Three kinds of custom resources: one owns its pods and publishes the
\* generation as a number, one has ReplicaSets and a selector and publishes it as
\* a numeral, one has ReplicaSets and publishes a hash.
Dynamic == INSTANCE Custom

PublishedForm == [Operator |-> "number", Argo |-> "numeral", Legacy |-> "text"]

Customs == DOMAIN PublishedForm

VARIABLES kind,           \* of the workload that is watched
          cluster,        \* workload, revisions, pods (their age, UIDs left): as they are
          cache,          \* ... and as the informer caches have them
          behind,         \* behind[part]: for how long the cache has differed
          time, due,      \* in evaluations, and whether its evaluation is due
          tracker, outcome,
          good,           \* history: how long ago generation g was last Good
          calm            \* history: for how long the cluster has been converged

rolloutVars == <<kind, cluster, cache, behind, time, due, tracker, outcome, good, calm>>

Lower(m, n) == IF m < n THEN m ELSE n

\* How long a new pod takes at least to become Ready.
StartUp == Lag + 1

Parts == {"workload", "revisions", "pods"}

Gone == [there |-> FALSE]

\* Revision objects are called by the template they hold; so are their hashes.
PodObject(owner, template) ==
    [there |-> TRUE, owner |-> owner, hash |-> template,
     ready |-> FALSE, terminating |-> FALSE]

\* The sibling is there (Ready or not, terminating or not), or has left.
Theirs(ready, terminating) ==
    [PodObject("other", "theirs") EXCEPT !.ready = ready, !.terminating = terminating]

AnySibling == {Theirs(r, t) : r, t \in BOOLEAN} \union {Gone}

\* Beside each kind of workload the sibling is some of that.
ASSUME SiblingAssumption == SiblingStates \in [Kinds -> SUBSET AnySibling]

OwnerOf(template) ==
    IF kind \in {"Deployment", "Argo", "Legacy"} THEN template ELSE "target"

RevisionObject(template, number, age) ==
    [uid |-> template, hash |-> template, owner |-> "target",
     revision |-> number, created |-> age]

Names(revisions) == {r.uid : r \in revisions}

Existing(pods) == {u \in Pods : pods[u].there}

Own(pods) == Existing(pods) \ {Sibling}

Generations == 1 .. Len(Templates)

\* The target has pods of generation g, all of them Ready, and none that is older.
Good(c, g) ==
    LET mine == {u \in Own(c.pods) : c.pods[u].hash = Templates[g]}
    IN  /\ mine # {}
        /\ \A u \in mine : c.pods[u].ready /\ ~ c.pods[u].terminating
        /\ \A u \in Own(c.pods), h \in 1 .. g : c.pods[u].hash = Templates[h] => u \in mine

\* A custom resource that declares a selector is given the sibling as well: no
\* owner is asked (dynamic.go:178-184).
Selecting == {"Argo"}

SiblingIsWell(c) ==
    LET o == c.pods[Sibling]
    IN  o.there => o.ready /\ ~ o.terminating

\* The rollout is over and the controller has said so; what is taken for a pod of
\* the target is well.
Converged(c) ==
    /\ kind \in Selecting => SiblingIsWell(c)
    /\ Good(c, c.workload.generation)
    /\ c.workload.observed = c.workload.generation
    /\ c.workload.complete
    /\ c.workload.updateRevision = Templates[c.workload.generation]

----------------------------------------------------------------------------
(* The cluster *)

first == Templates[1]

\* Pod u is Ready on the first template; past may name a template that was
\* rolled out before it.
Start(u, past, sibling) ==
    [workload |-> [generation |-> 1, observed |-> 1, complete |-> TRUE,
                   updateRevision |-> first],
     revisions |-> {RevisionObject(first, 1, 1)}
                       \union {RevisionObject(template, 0, 0) : template \in past},
     pods |-> [v \in Pods |->
                 CASE v = u -> [PodObject(OwnerOf(first), first) EXCEPT !.ready = TRUE]
                   [] v = Sibling -> sibling
                   [] OTHER -> Gone],
     age |-> [v \in Pods |-> IF v = u THEN StartUp ELSE 0],
     unused |-> Pods \ {u, Sibling}]

Edited(c) ==
    IF c.workload.generation < Len(Templates)
    THEN {[c EXCEPT !.workload.generation = @ + 1]} ELSE {}

\* The controller gives the template a revision object, or the one it has a
\* new number, and (StatefulSet) publishes what it updates to.
Reconciled(c) ==
    LET g == c.workload.generation
        t == Templates[g]
        born == IF t \in Names(c.revisions)
                THEN (CHOOSE r \in c.revisions : r.uid = t).created ELSE g
    IN  {[c EXCEPT !.revisions = {r \in @ : r.uid # t} \union {RevisionObject(t, g, born)},
                   !.workload.observed = g,
                   !.workload.complete = FALSE,
                   !.workload.updateRevision = t]}

\* Drift of the control plane mints a revision that no pod ever carries (bound:
\* not besides a rollback).
Drifted(c) ==
    IF kind = "DaemonSet" /\ \A r \in c.revisions : r.created > 0
    THEN {[c EXCEPT !.revisions = @ \union {RevisionObject("drift", Len(Templates) + 1, 9)}]}
    ELSE {}

\* The UID of a pod is not given again.
PodsMoved(c) ==
    LET newest == c.workload.updateRevision
        alive == {u \in Own(c.pods) : ~ c.pods[u].terminating}
    IN  {[c EXCEPT !.pods[u] = PodObject(OwnerOf(newest), newest), !.age[u] = 0,
                   !.unused = @ \ {u}] :
            u \in {v \in c.unused : \A w \in alive : c.pods[w].hash # newest}}
        \union {[c EXCEPT !.pods[u].ready = ~ c.pods[u].ready] : u \in {v \in Own(c.pods) : c.age[v] = StartUp}}
        \union {[c EXCEPT !.pods[u].terminating = TRUE] :
                   u \in {v \in alive : c.pods[v].hash # newest}}
        \union {[c EXCEPT !.pods[u] = Gone] :
                   u \in {v \in Own(c.pods) : c.pods[v].terminating}}

\* The controller publishes whether the rollout it observed is complete; pods
\* that are terminating are not counted.
Published(c) ==
    LET alive == {u \in Own(c.pods) : ~ c.pods[u].terminating}
    IN  {[c EXCEPT !.workload.complete =
            /\ alive # {}
            /\ \A u \in alive : c.pods[u].hash = c.workload.updateRevision /\ c.pods[u].ready]}

\* The sibling gets Ready and unready, and when it is deleted it leaves.
SiblingMoved(c) ==
    LET o == c.pods[Sibling]
        next == {[o EXCEPT !.ready = ~ o.ready], [o EXCEPT !.terminating = TRUE]}
                    \union (IF o.terminating THEN {Gone} ELSE {})
    IN  IF o.there THEN {[c EXCEPT !.pods[Sibling] = p] : p \in next \intersect SiblingStates[kind]}
        ELSE {}

ClusterSteps(c) == Edited(c) \union Reconciled(c) \union Drifted(c)
                       \union PodsMoved(c) \union Published(c) \union SiblingMoved(c)

----------------------------------------------------------------------------
(* The snapshot, computed from the caches *)

Shape(o) == [phase |-> "Running", waiting |-> FALSE, ready |-> o.there /\ o.ready,
             terminating |-> o.there /\ o.terminating, restarts |-> 0]

Ds(w) == [uid |-> "target", generation |-> w.generation, observedGeneration |-> w.observed,
          desired |-> 1, updated |-> IF w.complete THEN 1 ELSE 0,
          available |-> IF w.complete THEN 1 ELSE 0]

Splits(c) ==
    LET listed == Existing(c.pods)
    IN  CASE kind = "Deployment" ->
               Split!SplitDeployment("target", c.revisions, listed, c.pods)
          [] kind = "StatefulSet" ->
               {Split!SplitStatefulSet(
                    [uid |-> "target", updateRevision |-> c.workload.updateRevision],
                    listed, c.pods)}
          [] kind = "DaemonSet" ->
               Split!SplitDaemonSet(Ds(c.workload), c.revisions, listed, c.pods)
          [] kind \in Customs ->
               {[current |-> Dynamic!OwnedPods([uid |-> "target", selects |-> kind \in Selecting],
                                               c.revisions, listed, c.pods),
                 old |-> {}]}

\* kstatus calls a workload Current when its status is complete and belongs to
\* the generation.
StatusOf(w) ==
    IF kind \in Customs
    THEN Dynamic!ResourceStatus(w.generation, [form |-> PublishedForm[kind], value |-> w.observed],
                                w.complete)
    ELSE IF w.complete /\ w.observed = w.generation THEN "Current" ELSE "InProgress"

\* The snapshot of a custom resource has no generations.
SnapshotsOf(c) ==
    {[NoSnapshot EXCEPT
        !.found = TRUE,
        !.generation = IF kind \in Customs THEN 0 ELSE c.workload.generation,
        !.observedGeneration = IF kind \in Customs THEN 0 ELSE c.workload.observed,
        !.kstatus = StatusOf(c.workload),
        !.current = split.current,
        !.old = split.old,
        !.pod = [u \in Pods |-> IF u \in split.current THEN Shape(c.pods[u]) ELSE NoPod]] :
     split \in Splits(c)}

----------------------------------------------------------------------------
\* Histories are cut where the properties stop telling them apart.
GoodCap == Lag + 1
CalmCap == Lag + StableFor + 1

GoodAfter(c, elapsed) ==
    [g \in Generations |->
        IF g <= c.workload.generation /\ Good(c, g) THEN 0
        ELSE Lower(good[g] + elapsed, GoodCap)]

\* The workload is new, or the next template is one it rolled back from.
Pasts == {{}} \union {{template} : template \in IF kind \in Customs THEN {}
                                          ELSE {Templates[g] : g \in Generations} \ {first}}

RolloutInit ==
    /\ kind \in Kinds
    /\ \E u \in Pods \ {Sibling}, past \in Pasts, sibling \in SiblingStates[kind] :
          cluster = Start(u, past, sibling)
    /\ cache = [part \in Parts |-> cluster[part]]
    /\ behind = [part \in Parts |-> 0]
    /\ time = 0
    /\ due = TRUE
    /\ tracker = NewTracker
    /\ outcome = Open
    /\ good = [g \in Generations |-> IF g = 1 THEN 0 ELSE GoodCap]
    /\ calm = 0

\* The workload is edited, or a controller or kubelet acts.  What the sibling does
\* ends no calm, where the sibling is not taken for a pod of the target.
ClusterMoves ==
    /\ due
    /\ cluster' \in ClusterSteps(cluster) \ {cluster}
    /\ good' = GoodAfter(cluster', 0)
    /\ calm' = IF kind \notin Selecting /\ cluster' \in SiblingMoved(cluster) THEN calm ELSE 0
    /\ UNCHANGED <<kind, cache, behind, time, due, tracker, outcome>>

\* The watch behind one cache delivers.
CacheFollows(part) ==
    /\ due
    /\ cache[part] # cluster[part]
    /\ cache' = [cache EXCEPT ![part] = cluster[part]]
    /\ behind' = [behind EXCEPT ![part] = 0]
    /\ UNCHANGED <<kind, cluster, time, due, tracker, outcome, good, calm>>

Evaluate ==
    /\ due
    /\ outcome = Open
    /\ \E s \in SnapshotsOf(cache) :
        /\ tracker' = TrackerAfter(tracker, time, s)
        /\ outcome' = OutcomeAfter(tracker, time, s)
    /\ due' = FALSE
    /\ UNCHANGED <<kind, cluster, cache, behind, time, good, calm>>

\* The time of the next evaluation comes; no cache may fall further behind.
TickerFires ==
    /\ ~ due
    /\ outcome = Open
    /\ time < MaxTime
    /\ \A part \in Parts : cache[part] # cluster[part] => behind[part] < Lag
    /\ time' = time + 1
    /\ due' = TRUE
    /\ behind' = [part \in Parts |-> IF cache[part] = cluster[part] THEN 0 ELSE behind[part] + 1]
    /\ cluster' = [cluster EXCEPT !.age = [u \in Pods |-> Lower(@[u] + 1, StartUp)]]
    /\ good' = GoodAfter(cluster, 1)
    /\ calm' = IF Converged(cluster) THEN Lower(calm + 1, CalmCap) ELSE 0
    /\ UNCHANGED <<kind, cache, tracker, outcome>>

RolloutNext ==
    \/ ClusterMoves
    \/ \E part \in Parts : CacheFollows(part)
    \/ Evaluate
    \/ TickerFires

RolloutSpec == RolloutInit /\ [][RolloutNext]_rolloutVars

----------------------------------------------------------------------------
(* Properties *)

\* Settled is said of the cluster, not of the caches: at some instant at most
\* Lag before the verdict everything that existed of the target was Ready and
\* of the template of the generation that was judged, with no pod of an older
\* one still there, terminating ones included (the first two guarded failure
\* modes of DESIGN.md).  It takes a window longer than the lag (in one just as
\* long, both evaluations may read a new pod list beside an old workload); templates
\* that differ (when the judged one is changed and restored within the lag, the
\* window opened before the change goes on); and a controller that publishes the
\* generation it has observed in some readable form.
SettledIsTrue ==
    outcome = "settled" /\ kind # "Legacy" => good[cache.workload.generation] <= Lag

\* A cluster that has converged is found settled: no stale object, rollback or
\* stray revision keeps the watch from it for longer than the lag, the window and
\* one evaluation, and no sibling pod does, in whatever state and whatever it does
\* meanwhile (revision.go:15-20).  But a custom resource that declares a selector
\* is given every pod the selector matches (dynamic.go:178-184): an unready or
\* terminating sibling holds it for as long as it is so.  That is the one case
\* that Converged leaves out (SiblingIsWell).
ConvergedSettles ==
    ~ due /\ outcome = Open => calm <= Lag + StableFor
=============================================================================
