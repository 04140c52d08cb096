-------------------------------- MODULE Watch --------------------------------
(***************************************************************************)
(* One watch of one target: Run and watchLoop of internal/settle/settle.go *)
(* (RunCustom of dynamic.go ends in the same loop).  A watch passes a      *)
(* preflight under a timeout of its own, fills its informer caches and     *)
(* evaluates them under a second one, and alternates evaluations with a    *)
(* select over the deadline and the ticker until the tracker or the        *)
(* deadline decides.                                                       *)
(*                                                                         *)
(* Time is a natural number, 0 when Run is called; the ticker's interval   *)
(* is one unit.  A tick is taken between 1 and MaxGap units after the      *)
(* evaluation before it (a late tick stays buffered, later ones are        *)
(* dropped); a preflight or a sync takes at most its timeout.  An          *)
(* evaluation itself takes no time, so at most one happens past the        *)
(* deadline: when a tick and the deadline are both ready select may take   *)
(* either.                                                                 *)
(*                                                                         *)
(* The cluster is the environment: each evaluation finds any member of     *)
(* Views[target] in the caches, but no restart count ever goes down.       *)
(***************************************************************************)
EXTENDS Tracker

CONSTANTS Timeout,        \* Options.Timeout
          MaxGap,         \* the longest time between two evaluations
          CallTimes,      \* how long a preflight or a sync may take
          Targets,        \* whom Run may be called for
          Views           \* Views[w]: the snapshots the caches can yield for w

ASSUME WatchAssumption ==
    /\ Timeout \in Nat
    /\ MaxGap \in Nat \ {0}
    /\ CallTimes \subseteq 0 .. Timeout
    /\ Views \in [Targets -> SUBSET Snapshots]

\* A target that can be seen unfinished with completionTerminal set is a Job
\* or a CronJob, and those set it always; a bare Pod sets it when Succeeded,
\* which kstatus calls Current.
ASSUME KindAssumption ==
    \A w \in Targets :
        (\E s \in Views[w] : s.completionTerminal /\ s.kstatus # "Current")
            => \A s \in Views[w] : s.completionTerminal

VARIABLES target,         \* what Run was called with
          phase,          \* where Run is
          clock,
          deadline,       \* of ctx, once the watch has one
          tracker,
          result,         \* what Run returned
          hist            \* history: what was seen, for the properties

vars == <<target, phase, clock, deadline, tracker, result, hist>>

LoopPhases == {"observe", "select"}

Phase == {"preflight", "sync"} \union LoopPhases \union {"done"}

\* The errors Run returns: NotFoundError, PermissionError, anything else.
Errors == {"not_found", "permission", "other"}

NoResult == [outcome |-> "none", wedgedOut |-> FALSE]

Results == [outcome : {"none"} \union Outcomes \union Errors, wedgedOut : BOOLEAN]

\* started: when the first evaluation happened.  ready[u]: when u was last
\* evaluated Ready with no terminal reason, or else started.  bad[u]: since
\* when every evaluation found u current with a terminal reason.  restarted:
\* a restart count rose between evaluations, or a pod that appeared after the
\* first evaluation came with one, in a target that settles by readiness.
History == [started : Times, ready : [Pods -> Times], bad : [Pods -> Times],
            restarted : BOOLEAN]

NoHistory == [started |-> Unset, ready |-> [u \in Pods |-> Unset],
              bad |-> [u \in Pods |-> Unset], restarted |-> FALSE]

HistoryAfter(h, t, now, s) ==
    [started |-> IF h.started = Unset THEN now ELSE h.started,
     ready |-> [u \in Pods |->
                  IF \/ h.started = Unset
                     \/ u \in s.current /\ PodReady(s.pod[u]) /\ ~ WedgeReason(s, u)
                  THEN now ELSE h.ready[u]],
     bad |-> [u \in Pods |->
                IF u \notin s.current \/ ~ WedgeReason(s, u) THEN Unset
                ELSE IF h.bad[u] = Unset THEN now ELSE h.bad[u]],
     restarted |-> h.restarted \/ (h.started # Unset /\ RestartSeen(t.seen, s))]

----------------------------------------------------------------------------
Init == /\ target \in Targets
        /\ phase = "preflight"
        /\ clock = 0
        /\ deadline = Unset
        /\ tracker = NewTracker
        /\ result = NoResult
        /\ hist = NoHistory

Return(r) == phase' = "done" /\ result' = r

Fail(e) == Return([outcome |-> e, wedgedOut |-> FALSE])

\* Mutant: the watch inherits no deadline from the options.
PreflightPassesUnbounded ==
    /\ phase = "preflight"
    /\ \E d \in CallTimes : clock' = clock + d
    /\ phase' = "sync"
    /\ UNCHANGED <<target, deadline, tracker, result, hist>>

\* The reads of preflight all succeed before its context expires; the watch's
\* own context starts counting now.
PreflightPasses ==
    /\ phase = "preflight"
    /\ \E d \in CallTimes : clock' = clock + d
    /\ deadline' = clock' + Timeout
    /\ phase' = "sync"
    /\ UNCHANGED <<target, tracker, result, hist>>

\* The target is missing, a read is forbidden, or a read fails otherwise (the
\* context of the preflight expired, the parent was cancelled, ...).
PreflightFails ==
    /\ phase = "preflight"
    /\ \E d \in CallTimes : clock' = clock + d
    /\ \E e \in Errors : Fail(e)
    /\ UNCHANGED <<target, deadline, tracker, hist>>

\* WaitForCacheSync reports every cache filled.
SyncCompletes ==
    /\ phase = "sync"
    /\ \E d \in CallTimes : clock' = clock + d
    /\ phase' = "observe"
    /\ UNCHANGED <<target, deadline, tracker, result, hist>>

\* The deadline passes, or the parent is cancelled, while a cache still fills.
SyncFails ==
    /\ phase = "sync"
    /\ \E d \in CallTimes : clock' = clock + d
    /\ Fail("other")
    /\ UNCHANGED <<target, deadline, tracker, hist>>

\* Restart counts of a pod never go down.
Follows(t, s) == \A u \in s.current : s.pod[u].restarts >= t.seen[u]

ResultOf(t, out) == [outcome |-> out, wedgedOut |-> t.wedgedOut]

Observe ==
    /\ phase = "observe"
    /\ \E s \in Views[target] :
        /\ Follows(tracker, s)
        /\ tracker' = TrackerAfter(tracker, clock, s)
        /\ hist' = HistoryAfter(hist, tracker, clock, s)
        /\ IF OutcomeAfter(tracker, clock, s) = Open
           THEN phase' = "select" /\ UNCHANGED result
           ELSE Return(ResultOf(tracker', OutcomeAfter(tracker, clock, s)))
    /\ UNCHANGED <<target, clock, deadline>>

\* The target is gone from the cache, or its snapshot cannot be computed.
SnapshotFails ==
    /\ phase = "observe"
    /\ \E e \in {"not_found", "other"} : Fail(e)
    /\ UNCHANGED <<target, clock, deadline, tracker, hist>>

\* Mutant: the tick is preferred to the deadline whenever both are ready.
TickerFiresLate ==
    /\ phase = "select"
    /\ \E d \in 1 .. MaxGap : clock' = clock + d
    /\ phase' = "observe"
    /\ UNCHANGED <<target, deadline, tracker, result, hist>>

\* select takes the tick: the next evaluation is due.
TickerFires ==
    /\ phase = "select"
    /\ clock < deadline
    /\ \E d \in 1 .. MaxGap : clock' = clock + d
    /\ phase' = "observe"
    /\ UNCHANGED <<target, deadline, tracker, result, hist>>

\* Mutant: a deadline that passed during the last tick is never noticed.
DeadlineMissed ==
    /\ phase = "select"
    /\ clock < deadline /\ deadline <= clock + MaxGap
    /\ clock' = deadline
    /\ Fail(TimeoutVerdict(tracker))
    /\ UNCHANGED <<target, deadline, tracker, hist>>

\* select takes ctx.Done() with the deadline passed: no earlier tick was due.
DeadlinePasses ==
    /\ phase = "select"
    /\ deadline <= clock + MaxGap
    /\ clock' = IF clock < deadline THEN deadline ELSE clock
    /\ Fail(TimeoutVerdict(tracker))
    /\ UNCHANGED <<target, deadline, tracker, hist>>

\* select takes ctx.Done() because the parent was cancelled.
Interrupted ==
    /\ phase = "select"
    /\ Fail("other")
    /\ UNCHANGED <<target, clock, deadline, tracker, hist>>

Next == \/ PreflightPasses \/ PreflightFails
        \/ SyncCompletes \/ SyncFails
        \/ Observe \/ SnapshotFails
        \/ TickerFires \/ DeadlinePasses \/ Interrupted

\* Every call Run makes is bounded by a context with a deadline, an evaluation
\* reads memory only, the ticker never stops and the loop blocks on nothing but
\* the ticker and the deadline.  Nobody need interrupt the run.
Fairness == /\ WF_vars(PreflightPasses \/ PreflightFails)
            /\ WF_vars(SyncCompletes \/ SyncFails)
            /\ WF_vars(Observe \/ SnapshotFails)
            /\ WF_vars(TickerFires \/ DeadlinePasses)

Spec == Init /\ [][Next]_vars

FairSpec == Spec /\ Fairness

----------------------------------------------------------------------------
(* Properties *)

\* Every variable keeps its type, and the deadline exists exactly once the
\* preflight has passed.
TypeOK ==
    /\ target \in Targets
    /\ phase \in Phase
    /\ clock \in Nat
    /\ deadline \in Times
    /\ phase \in {"sync"} \union LoopPhases => deadline \in Nat
    /\ tracker \in Trackers
    /\ result \in Results
    /\ hist \in History

\* The open window's baseline, captured possibly long ago, is still an exact
\* picture of the pods just evaluated: no pod left, came, swapped or restarted
\* since the window opened (tracker.observe and windowViolation).
WindowIsCurrent ==
    phase # "done" /\ tracker.healthySince # Unset =>
        /\ HealthyNow(tracker.lastSnap)
        /\ ~ tracker.lastSnap.completionTerminal
        /\ tracker.baseline = RestartCounts(tracker.lastSnap)
        /\ tracker.healthySince <= tracker.lastObserve

\* The wedged clock of a pod that is wedged now brackets the truth: it counts
\* at least the time over which every evaluation found it wedged, and at most
\* the time since it was last found Ready (observeWedge).
WedgeBracketed ==
    phase \in LoopPhases /\ WedgedFor > 0 /\ hist.started # Unset =>
        \A u \in Pods :
            /\ tracker.wedged[u] <= tracker.lastObserve - hist.ready[u]
            /\ hist.bad[u] # Unset =>
                    tracker.wedged[u] >= tracker.lastObserve - hist.bad[u]

\* Patience is bounded both ways (Options.WedgedFor): a watch that fails early
\* does so on a pod that has not been seen Ready for at least WedgedFor, and a
\* watch that goes on has no pod that was wedged at every evaluation over
\* WedgedFor or more.
PatienceKept ==
    /\ result.wedgedOut =>
        \E u \in tracker.lastSnap.current :
            /\ WedgeReason(tracker.lastSnap, u)
            /\ clock - hist.ready[u] >= WedgedFor
    /\ phase = "select" /\ WedgedFor > 0 =>
        \A u \in Pods : hist.bad[u] # Unset => clock - hist.bad[u] < WedgedFor

\* A failure declared early is one the deadline would have declared from the
\* same observation (comment of observeWedge: "the wedge signal mirrors
\* timeoutVerdict exactly").
EarlyMirrorsDeadline ==
    result.wedgedOut => /\ result.outcome = "failed"
                        /\ TimeoutVerdict(tracker) = "failed"

\* Exit 2 is only for legitimate progress (timeoutVerdict): the last look found
\* no pod wedged, none failed and none restarted in a target that settles by
\* readiness, and no window as long as StableFor had been held, unless it was
\* the look that opened it.
ProgressIsLegitimate ==
    result.outcome = "progressing" =>
        /\ \A u \in tracker.lastSnap.current : ~ WedgeReason(tracker.lastSnap, u)
        /\ tracker.lastSnap.completionTerminal \/ ~ hist.restarted
        /\ tracker.healthySince # Unset =>
                \/ tracker.lastObserve - tracker.healthySince < StableFor
                \/ tracker.lastObserve = tracker.healthySince

\* The promise of Stability, for the observations this watch makes.
VerdictGiven ==
    IF result.outcome \in Errors THEN "error"
    ELSE IF result.outcome = "settled" /\ tracker.lastSnap.completionTerminal
         THEN "completed"
    ELSE result.outcome

Promise == INSTANCE Stability WITH
              Observations <- RestartMaps,
              NotYet <- Unset,
              looked <- tracker.lastObserve,
              calm <- HealthyNow(tracker.lastSnap)
                        /\ ~ tracker.lastSnap.completionTerminal,
              held <- RestartCounts(tracker.lastSnap),
              since <- tracker.healthySince,
              verdict <- VerdictGiven

\* Every watch is a behaviour of the abstract observer, which knows no
\* baseline, no clocks per pod and no restart memory: settled means calm and
\* unchanged over StableFor, and progressing means it was not.
KeepsPromise == Promise!Spec

\* A verdict may be two timeouts away, one for the preflight and one for the
\* watch that follows, and one late evaluation, but no more, whatever the caches
\* show (settle.go:102 and settle.go:144 each start a timeout of their own).
EndsInTime == result # NoResult => clock <= 2 * Timeout + MaxGap

\* Run returns: whatever the caches show, a watch ends.
Terminates == <>(phase = "done")

\* Comment of noteRestarts: a failure for restarts is about "restart-count
\* increases seen at any point in the watch, including pods that appear
\* mid-watch already restarted".
RestartFailureIsEarned ==
    result.outcome = "failed" =>
        \/ ControllerFailed(tracker.lastSnap)
        \/ TerminalAtTimeout(tracker.lastSnap)
        \/ hist.restarted
=============================================================================
