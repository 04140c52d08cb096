------------------------------ MODULE Advisory ------------------------------
(***************************************************************************)
(* The note on a settled workload whose containers were killed not long    *)
(* ago: internal/output/advisory.go.                                       *)
(*                                                                         *)
(* A pod is [init, main]: the last terminations of its containers, each    *)
(* [finished, reason]; finished is 0 for a container that never ended.     *)
(* since is the time at which the window begins, now - window; with the    *)
(* window 0 it lies after every termination.                               *)
(***************************************************************************)
EXTENDS Lists

AllStatuses(p) == p.init \o p.main

InWindow(t, since) == t.finished # 0 /\ t.finished >= since

\* The terminations in the window, in the order of pods and containers.
RecentTerminations(pods, since) ==
    LET all == FlattenSeq([i \in DOMAIN pods |-> AllStatuses(pods[i])])
    IN  Picked(all, {i \in DOMAIN all : InWindow(all[i], since)})

\* The one that finished last, the first of those if several did.
FreshestTermination(pods, since) ==
    LET recent == RecentTerminations(pods, since)
        first == CHOOSE i \in DOMAIN recent :
                    \A j \in DOMAIN recent : \/ recent[i].finished > recent[j].finished
                                             \/ recent[i].finished = recent[j].finished /\ i <= j
    IN  recent[first]

\* At most one advisory: the freshest termination and how many there are.
RecentRestarts(pods, since) ==
    LET recent == RecentTerminations(pods, since)
        last == FreshestTermination(pods, since)
    IN  IF recent = <<>> THEN <<>>
        ELSE <<[finished |-> last.finished, reason |-> last.reason, count |-> Len(recent)]>>
=============================================================================
