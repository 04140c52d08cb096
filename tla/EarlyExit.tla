------------------------------ MODULE EarlyExit ------------------------------
(***************************************************************************)
(* What the early exit (Options.WedgedFor) changes of a verdict.  Two      *)
(* trackers are fed the same snapshots at the same times: `eager' has the  *)
(* WedgedFor of the run, `patient' has 0, the value with which a watch     *)
(* fails only at the deadline.  Each goes on until it decides; at the      *)
(* deadline timeoutVerdict decides for the one that has not.               *)
(*                                                                         *)
(* The watch around a tracker is the loop of Watch, reduced to what the    *)
(* trackers see of it: evaluations 1 to MaxGap units apart.                *)
(***************************************************************************)
EXTENDS Tracker

CONSTANTS Timeout, MaxGap,
          Views            \* the snapshots of this target

ASSUME EarlyExitAssumption ==
    /\ Timeout \in Nat
    /\ MaxGap \in Nat \ {0}
    /\ Views \subseteq Snapshots

Patiently == INSTANCE Tracker WITH WedgedFor <- 0

VARIABLES clock,
          eager, early,        \* the tracker with WedgedFor, and its verdict
          patient, late        \* the tracker without, and its verdict

vars == <<clock, eager, early, patient, late>>

Verdicts == {Open} \union Outcomes

TypeOK == /\ clock \in Nat
          /\ eager \in Trackers /\ patient \in Trackers
          /\ early \in Verdicts /\ late \in Verdicts

Init == /\ clock = 0
        /\ eager = NewTracker /\ early = Open
        /\ patient = NewTracker /\ late = Open

\* Restart counts of a pod never go down.
Follows(s) == \A u \in s.current : s.pod[u].restarts >= patient.seen[u]

EagerObserves(s) ==
    IF early = Open
    THEN /\ eager' = TrackerAfter(eager, clock', s)
         /\ early' = OutcomeAfter(eager, clock', s)
    ELSE UNCHANGED <<eager, early>>

PatientObserves(s) ==
    /\ patient' = Patiently!TrackerAfter(patient, clock', s)
    /\ late' = Patiently!OutcomeAfter(patient, clock', s)

\* One evaluation of the caches, seen by every tracker that is still watching.
Observe ==
    /\ late = Open
    /\ clock < Timeout
    /\ \E d \in 1 .. MaxGap : clock' = clock + d
    /\ \E s \in Views : Follows(s) /\ EagerObserves(s) /\ PatientObserves(s)

\* The deadline decides for those the snapshots did not.
DeadlinePasses ==
    /\ late = Open
    /\ Timeout <= clock + MaxGap
    /\ patient.lastObserve # Unset
    /\ late' = Patiently!TimeoutVerdict(patient)
    /\ early' = IF early = Open THEN TimeoutVerdict(eager) ELSE early
    /\ UNCHANGED <<clock, eager, patient>>

Next == Observe \/ DeadlinePasses

Spec == Init /\ [][Next]_vars

----------------------------------------------------------------------------
(* Properties *)

\* Everything but the wedge bookkeeping, which nothing but the early exit
\* may depend on.
Apart(t) == [t EXCEPT !.wedged = [u \in Pods |-> 0], !.wedgedOut = FALSE]

\* WedgedFor changes nothing but whether a watch exits early: a run that does
\* not give the same verdict at the same evaluation, through the same windows,
\* as one with WedgedFor = 0, whatever its wedged clocks accumulated on pods
\* that recovered or were replaced (tracker.observe, observeWedge).
SameUnlessEarly ==
    ~ eager.wedgedOut => early = late /\ Apart(eager) = Apart(patient)

\* The early verdict is final for a target that settles by readiness as long
\* as the pod it condemned does not recover: such a watch, let run, does not
\* settle and the deadline fails it (observeWedge: "anything failed here would
\* have been failed at the deadline anyway"; without the proviso it is false).
CondemnedUnlessRecovered ==
    /\ eager.wedgedOut
    /\ ~ patient.lastSnap.completionTerminal
    /\ late # Open
    /\ \E u \in eager.lastSnap.current \intersect patient.lastSnap.current :
            /\ WedgeReason(eager.lastSnap, u)
            /\ WedgeReason(patient.lastSnap, u)
    => late = "failed"
=============================================================================
