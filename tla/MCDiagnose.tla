------------------------------ MODULE MCDiagnose ------------------------------
(* Instances of Diagnose for TLC.                                           *)
EXTENDS Diagnose

\* The second pod shares a node, a claim, or neither with the first.
Companions ==
    {q \in Crashing("p2", "n1") \union NotPlaced("p2") :
        /\ Len(q.pod.containers) < 2
        /\ \A c \in ToSet(q.pod.containers) : c.state = "waiting" /\ c.restarts = 2}
    \union {q \in NotReady("p2", "n2") : q.truth = None /\ Len(q.pod.containers) = 1}

OldPods ==
    {q \in Crashing("o", "n1") :
        Len(q.pod.containers) < 2 /\ Instant(q.pod) = [state |-> "running", restarts |-> 2]}
    \union {q \in Deleted("o", "n1") : q.truth # None}
    \union NotPlaced("o")

Plain == [kind |-> "StatefulSet", own |-> {}, foreign |-> {}, current |-> <<>>, old |-> <<>>]

\* Pods in every kind of trouble, alone and in company; only a Deployment has
\* conditions and ReplicaSets to read, which its RejectionCases do.
PodCases ==
    {[Plain EXCEPT !.current = <<p>>, !.old = o] :
        p \in {r \in Patients("p1", "n1") : Len(r.pod.containers) < 2}, o \in {<<q>> : q \in OldPods}}
    \union {[Plain EXCEPT !.current = <<p>>] : p \in Patients("p1", "n1")}
    \union {[Plain EXCEPT !.current = <<p, q>>] :
               p \in {r \in Patients("p1", "n1") : Len(r.pod.containers) < 2}, q \in Companions}

Messages == {"webhook", "quota", "webhook on quota", "other"}

\* Rejections of the target's pods, and of those of its neighbours.
RejectionCases ==
    {[Plain EXCEPT !.kind = kind, !.own = own, !.foreign = foreign] :
        kind \in DOMAIN Reporter,
        own \in {m \in SUBSET Messages : Cardinality(m) <= 2},
        foreign \in {{}, {[kind |-> "ReplicaSet", message |-> "quota of another"]},
                     {[kind |-> "DaemonSet", message |-> "quota"]},
                     {[kind |-> "Job", message |-> "webhook"]}}}

AllCases == PodCases \union RejectionCases
=============================================================================
