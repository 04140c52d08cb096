------------------------------ MODULE Revision ------------------------------
(***************************************************************************)
(* Which of the pods a workload's selector matches belong to its current   *)
(* revision, and which to an older one: internal/settle/revision.go.       *)
(*                                                                         *)
(* S is the set of pods listed from the cache, ref[u] what the split reads *)
(* of a pod: the UID of its controlling owner (NoOwner when it has none)   *)
(* and its controller-revision-hash.  Objects are records as the caches    *)
(* hold them.  Where the code sorts with ties, the operator gives the set  *)
(* of the results it can give.                                             *)
(***************************************************************************)
EXTENDS Integers

NoOwner == "no owner"

NoHash == ""              \* the empty hash or revision name

ForeignPod(p, owners) == p.owner # NoOwner /\ p.owner \notin owners

AllOld(S) == [current |-> {}, old |-> S]

\* The last ReplicaSets in the order of revision, then of creation.
NewestReplicaSets(owned) ==
    {r \in owned : \A q \in owned :
        \/ r.revision > q.revision
        \/ r.revision = q.revision /\ r.created >= q.created}

\* Mutant: pods that are terminating no longer count.
SplitDeploymentLiving(d, rss, S, ref) ==
    LET owned == {r \in rss : r.owner = d}
        ours == {u \in S : ~ ForeignPod(ref[u], {r.uid : r \in owned}) /\ ~ ref[u].terminating}
    IN  IF owned = {} THEN {AllOld(S)}
        ELSE {[current |-> {u \in ours : ref[u].owner = r.uid},
               old |-> {u \in ours : ref[u].owner # r.uid}] : r \in NewestReplicaSets(owned)}

SplitDeployment(d, rss, S, ref) ==
    LET owned == {r \in rss : r.owner = d}
        ours == {u \in S : ~ ForeignPod(ref[u], {r.uid : r \in owned})}
    IN  IF owned = {} THEN {AllOld(S)}
        ELSE {[current |-> {u \in ours : ref[u].owner = r.uid},
               old |-> {u \in ours : ref[u].owner # r.uid}] : r \in NewestReplicaSets(owned)}

SplitByHash(uid, hash, S, ref) ==
    LET ours == {u \in S : ~ ForeignPod(ref[u], {uid})}
    IN  [current |-> {u \in ours : hash # NoHash /\ ref[u].hash = hash},
         old |-> {u \in ours : hash = NoHash \/ ref[u].hash # hash}]

\* Mutant: pods of another revision are left out rather than kept as old.
SplitStatefulSetNew(sts, S, ref) ==
    IF sts.updateRevision = NoHash THEN AllOld(S)
    ELSE [SplitByHash(sts.uid, sts.updateRevision, S, ref) EXCEPT !.old = {}]

SplitStatefulSet(sts, S, ref) ==
    IF sts.updateRevision = NoHash THEN AllOld(S)
    ELSE SplitByHash(sts.uid, sts.updateRevision, S, ref)

DsConverged(ds) ==
    /\ ds.observedGeneration >= ds.generation
    /\ ds.updated = ds.desired
    /\ ds.available = ds.desired

\* The owned ControllerRevisions no other outranks; the code keeps the first
\* of equals in the order of the list.
NewestRevisions(ds, crs) ==
    LET owned == {c \in crs : c.owner = ds.uid}
    IN  {c \in owned : \A o \in owned : c.revision >= o.revision}

\* Mutant: the hash is consulted although the controller reports convergence.
SplitDaemonSetByHash(ds, crs, S, ref) ==
    IF NewestRevisions(ds, crs) = {} THEN {AllOld(S)}
    ELSE {SplitByHash(ds.uid, c.hash, S, ref) : c \in NewestRevisions(ds, crs)}

SplitDaemonSet(ds, crs, S, ref) ==
    IF DsConverged(ds)
    THEN {[current |-> {u \in S : ~ ForeignPod(ref[u], {ds.uid})}, old |-> {}]}
    ELSE IF NewestRevisions(ds, crs) = {} THEN {AllOld(S)}
    ELSE {SplitByHash(ds.uid, c.hash, S, ref) : c \in NewestRevisions(ds, crs)}
=============================================================================
