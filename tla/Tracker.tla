------------------------------- MODULE Tracker -------------------------------
(***************************************************************************)
(* The tracker of internal/settle/tracker.go: it consumes timestamped      *)
(* snapshots and decides when a watch is finished.  It does no I/O and     *)
(* holds no clock, so it is modelled as operators on a tracker record; the *)
(* modules that own trackers (a single watch, a fleet, a pair of trackers  *)
(* fed alike) apply Observe and TimeoutVerdict to the records they keep.   *)
(*                                                                         *)
(* A nil map is a map with no entry.  The reason strings (lastReason, the  *)
(* text of restartObserved) are abstracted: restartObserved is TRUE when   *)
(* the code's string is not empty.                                         *)
(***************************************************************************)
EXTENDS Snapshot

CONSTANTS StableFor,      \* Options.StableFor, in units of time
          WedgedFor       \* Options.WedgedFor; 0 waits for the timeout

ASSUME OptionsAssumption == StableFor \in Nat /\ WedgedFor \in Nat

Unset == -1               \* the zero time.Time

Times == Nat \union {Unset}

Trackers == [healthySince : Times,
             baseline : RestartMaps,
             seen : RestartMaps,
             restartObserved : BOOLEAN,
             wedged : [Pods -> Nat],
             lastObserve : Times,
             wedgedOut : BOOLEAN,
             lastSnap : Snapshots]

NoCounts == [u \in Pods |-> Absent]

NewTracker == [healthySince |-> Unset,
               baseline |-> NoCounts,
               seen |-> NoCounts,
               restartObserved |-> FALSE,
               wedged |-> [u \in Pods |-> 0],
               lastObserve |-> Unset,
               wedgedOut |-> FALSE,
               lastSnap |-> NoSnapshot]

Outcomes == {"settled", "progressing", "failed"}

Open == "open"            \* observe returned done = false

----------------------------------------------------------------------------
(* noteRestarts *)

RestartSeen(seen, s) ==
    \E u \in s.current :
        \/ seen[u] # Absent /\ s.pod[u].restarts > seen[u]
        \/ seen[u] = Absent /\ s.pod[u].restarts > 0

NoteRestarts(t, s) ==
    [t EXCEPT
        !.restartObserved = @ \/ RestartSeen(t.seen, s),
        !.seen = [u \in Pods |->
                    IF u \in s.current /\ (@[u] = Absent \/ s.pod[u].restarts > @[u])
                    THEN s.pod[u].restarts ELSE @[u]]]

(* observeWedge.  The code walks the pods by name and stops at the first   *)
(* whose clock crosses WedgedFor; the watch is over then and the clocks of *)
(* the pods after it are never read again, so all clocks are advanced.     *)

\* Mutant: any pod that is not Ready is charged.
WedgeReasonUnready(s, u) == TerminalPodReason(s.pod[u]) \/ ~ PodReady(s.pod[u])

WedgeReason(s, u) ==
    IF s.completionTerminal THEN TerminalWaitingReason(s.pod[u])
                            ELSE TerminalPodReason(s.pod[u])

\* Mutant: a recovered pod keeps the time it was charged.
ChargeUnforgiving(t, now, s) ==
    LET dt == IF t.lastObserve = Unset THEN 0 ELSE now - t.lastObserve
    IN  [u \in Pods |->
            IF u \in s.current /\ WedgeReason(s, u) THEN t.wedged[u] + dt
            ELSE t.wedged[u]]

\* Mutant: the interval is subtracted the wrong way round.
ChargeBackwards(t, now, s) ==
    LET dt == IF t.lastObserve = Unset THEN 0 ELSE t.lastObserve - now
    IN  [u \in Pods |->
            IF u \notin s.current THEN t.wedged[u]
            ELSE IF WedgeReason(s, u) THEN t.wedged[u] + dt
            ELSE IF PodReady(s.pod[u]) THEN 0
            ELSE t.wedged[u]]

Charge(t, now, s) ==
    LET dt == IF t.lastObserve = Unset THEN 0 ELSE now - t.lastObserve
    IN  [u \in Pods |->
            IF u \notin s.current THEN t.wedged[u]
            ELSE IF WedgeReason(s, u) THEN t.wedged[u] + dt
            ELSE IF PodReady(s.pod[u]) THEN 0
            ELSE t.wedged[u]]

\* Mutant: patience runs out only after WedgedFor.
CrossesLate(t, now, s) ==
    \E u \in s.current : WedgeReason(s, u) /\ Charge(t, now, s)[u] > WedgedFor

Crosses(t, now, s) ==
    \E u \in s.current : WedgeReason(s, u) /\ Charge(t, now, s)[u] >= WedgedFor

ObserveWedge(t, now, s) ==
    IF WedgedFor <= 0 THEN [t EXCEPT !.lastObserve = now]
    ELSE [t EXCEPT
            !.lastObserve = now,
            !.wedged = Charge(t, now, s),
            !.wedgedOut = Crosses(t, now, s)]

----------------------------------------------------------------------------
(* The stability window *)

\* Mutant: pods swapped one for one go unnoticed.
WindowViolationByNumber(baseline, s) ==
    \/ Cardinality(s.current) # Cardinality({u \in Pods : baseline[u] # Absent})
    \/ \E u \in s.current : baseline[u] # Absent /\ s.pod[u].restarts > baseline[u]

WindowViolation(baseline, s) ==
    \/ Cardinality(s.current) # Cardinality({u \in Pods : baseline[u] # Absent})
    \/ \E u \in s.current : \/ baseline[u] = Absent
                            \/ s.pod[u].restarts > baseline[u]

CloseWindow(t) == [t EXCEPT !.healthySince = Unset, !.baseline = NoCounts]

OpenWindow(t, now, s) ==
    [t EXCEPT !.healthySince = now, !.baseline = RestartCounts(s)]

WindowHolds(t, s) ==
    /\ HealthyNow(s)
    /\ t.healthySince # Unset
    /\ ~ WindowViolation(t.baseline, s)

\* Mutant: a violation refreshes the baseline but not the clock.
HoldWindowOn(t, now, s) ==
    IF ~ HealthyNow(s) THEN CloseWindow(t)
    ELSE IF t.healthySince # Unset THEN OpenWindow(t, t.healthySince, s)
    ELSE OpenWindow(t, now, s)

\* Mutant: a pod that was once charged keeps the window shut, even replaced.
HoldWindowUncharged(t, now, s) ==
    IF ~ HealthyNow(s) \/ \E u \in Pods : t.wedged[u] > 0 THEN CloseWindow(t)
    ELSE IF WindowHolds(t, s) THEN t
    ELSE OpenWindow(t, now, s)

HoldWindow(t, now, s) ==
    IF ~ HealthyNow(s) THEN CloseWindow(t)
    ELSE IF WindowHolds(t, s) THEN t
    ELSE OpenWindow(t, now, s)

----------------------------------------------------------------------------
(* observe: the tracker after the snapshot s taken at now, and whether the *)
(* verdict is final.  The early returns of the code, in their order.       *)

ControllerFailed(s) == s.terminalFailure \/ s.kstatus = "Failed"

Noted(t, s) == NoteRestarts([t EXCEPT !.lastSnap = s], s)

Charged(t, now, s) == ObserveWedge(Noted(t, s), now, s)

TrackerAfter(t, now, s) ==
    IF ControllerFailed(s) THEN Noted(t, s)
    ELSE IF Charged(t, now, s).wedgedOut \/ s.completionTerminal
         THEN Charged(t, now, s)
    ELSE HoldWindow(Charged(t, now, s), now, s)

OutcomeAfter(t, now, s) ==
    IF ControllerFailed(s) \/ Charged(t, now, s).wedgedOut THEN "failed"
    ELSE IF s.completionTerminal
         THEN IF s.kstatus = "Current" THEN "settled" ELSE Open
    ELSE IF WindowHolds(t, s) /\ now - t.healthySince >= StableFor
         THEN "settled" ELSE Open

(* timeoutVerdict: the class of a watch that hit its timeout.              *)

\* Mutant: a pod that waits is never terminal.
TerminalAtTimeoutOfDead(s) ==
    \E u \in s.current : ~ s.completionTerminal /\ s.pod[u].phase = "Failed"

TerminalAtTimeout(s) ==
    \E u \in s.current : \/ TerminalWaitingReason(s.pod[u])
                         \/ ~ s.completionTerminal /\ s.pod[u].phase = "Failed"

\* Mutant: restarts seen earlier in the watch are forgotten.
TimeoutVerdictForgetful(t) ==
    IF TerminalAtTimeout(t.lastSnap) THEN "failed" ELSE "progressing"

TimeoutVerdict(t) ==
    IF \/ TerminalAtTimeout(t.lastSnap)
       \/ ~ t.lastSnap.completionTerminal /\ t.restartObserved
    THEN "failed" ELSE "progressing"
=============================================================================
