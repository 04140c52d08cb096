----------------------------- MODULE WatchProofs -----------------------------
(***************************************************************************)
(* Theorems about Watch, for every set of pods and views, every timeout,   *)
(* window and patience.                                                    *)
(***************************************************************************)
EXTENDS Watch, TrackerProofs

\* The order of the times a watch keeps.
TimeOrder == tracker.lastObserve <= clock

\* The counts recorded for the whole watch cover the pods just evaluated.
SeenCovers ==
    \A u \in tracker.lastSnap.current :
        tracker.seen[u] >= tracker.lastSnap.pod[u].restarts

\* Run has returned nothing while it runs.
NotReturned == phase # "done" => result = NoResult

\* The last snapshot is one the caches could yield.
SnapFromViews == tracker.lastSnap \in Views[target] \union {NoSnapshot}

\* The inductive invariant behind the type invariant and the window.
WindowInv == /\ TypeOK /\ TimeOrder /\ SeenCovers /\ NotReturned /\ SnapFromViews
             /\ WindowIsCurrent

----------------------------------------------------------------------------
\* A watch begins with no window.
LEMMA InitWindowInv == Init => WindowInv
<1> SUFFICES ASSUME Init PROVE WindowInv
  OBVIOUS
<1>1. tracker \in Trackers
  BY NewTrackerType DEF Init
<1>2. hist \in History
  BY DEF Init, NoHistory, History, Times
<1>3. result \in Results
  BY DEF Init, NoResult, Results
<1>4. TypeOK
  BY <1>1, <1>2, <1>3 DEF Init, TypeOK, Phase, LoopPhases, Times
<1>5. tracker.lastObserve = Unset /\ tracker.healthySince = Unset
      /\ tracker.lastSnap = NoSnapshot
  BY DEF Init, NewTracker
<1>6. NoSnapshot.current = {}
  BY DEF NoSnapshot
<1> QED
  BY <1>4, <1>5, <1>6 DEF Init, WindowInv, TimeOrder, SeenCovers, NotReturned,
                          SnapFromViews, WindowIsCurrent, Unset

\* The history of an evaluation is well formed.
LEMMA HistoryType ==
    ASSUME NEW h \in History, NEW t, NEW s \in Snapshots, NEW now \in Nat
    PROVE  HistoryAfter(h, t, now, s) \in History
<1>1. RestartSeen(t.seen, s) \in BOOLEAN
  BY DEF RestartSeen
<1>2. h.restarted \in BOOLEAN /\ h.started \in Times
      /\ h.ready \in [Pods -> Times] /\ h.bad \in [Pods -> Times]
  BY DEF History
<1>3. (h.restarted \/ (h.started # Unset /\ RestartSeen(t.seen, s))) \in BOOLEAN
  OBVIOUS
<1>4. (IF h.started = Unset THEN now ELSE h.started) \in Times
  BY <1>2 DEF Times
<1>5. [u \in Pods |->
         IF \/ h.started = Unset
            \/ u \in s.current /\ PodReady(s.pod[u]) /\ ~ WedgeReason(s, u)
         THEN now ELSE h.ready[u]] \in [Pods -> Times]
  BY <1>2 DEF Times
<1>6. [u \in Pods |->
         IF u \notin s.current \/ ~ WedgeReason(s, u) THEN Unset
         ELSE IF h.bad[u] = Unset THEN now ELSE h.bad[u]] \in [Pods -> Times]
  BY <1>2 DEF Times
<1> QED
  BY <1>3, <1>4, <1>5, <1>6, Zenon DEF HistoryAfter, History

\* What an evaluation assigns, for the view it found.
LEMMA ObserveCases ==
    ASSUME WindowInv, Observe
    PROVE  \E s \in Views[target] :
              /\ s \in Snapshots
              /\ Follows(tracker, s)
              /\ tracker' = TrackerAfter(tracker, clock, s)
              /\ hist' = HistoryAfter(hist, tracker, clock, s)
              /\ target' = target /\ clock' = clock /\ deadline' = deadline
              /\ \/ /\ OutcomeAfter(tracker, clock, s) = Open
                    /\ phase' = "select" /\ result' = result
                 \/ /\ OutcomeAfter(tracker, clock, s) # Open
                    /\ phase' = "done"
                    /\ result' = ResultOf(tracker', OutcomeAfter(tracker, clock, s))
BY WatchAssumption DEF WindowInv, TypeOK, Observe, Return

\* After an evaluation every type still holds, and the counts cover the pods.
LEMMA ObserveType ==
    ASSUME WindowInv, Observe
    PROVE  TypeOK' /\ TimeOrder' /\ SeenCovers' /\ NotReturned' /\ SnapFromViews'
<1>1. PICK s \in Views[target] :
              /\ s \in Snapshots
              /\ Follows(tracker, s)
              /\ tracker' = TrackerAfter(tracker, clock, s)
              /\ hist' = HistoryAfter(hist, tracker, clock, s)
              /\ target' = target /\ clock' = clock /\ deadline' = deadline
              /\ \/ /\ OutcomeAfter(tracker, clock, s) = Open
                    /\ phase' = "select" /\ result' = result
                 \/ /\ OutcomeAfter(tracker, clock, s) # Open
                    /\ phase' = "done"
                    /\ result' = ResultOf(tracker', OutcomeAfter(tracker, clock, s))
  BY ObserveCases
<1>2. /\ target \in Targets /\ tracker \in Trackers /\ hist \in History /\ clock \in Nat
      /\ tracker.lastObserve <= clock /\ phase = "observe"
      /\ deadline \in Nat /\ result = NoResult
  BY DEF WindowInv, TypeOK, TimeOrder, NotReturned, Observe, LoopPhases
<1>3. /\ tracker' \in Trackers
      /\ tracker'.lastSnap = s
      /\ tracker'.seen = Noted(tracker, s).seen
      /\ tracker'.lastObserve \in {clock, tracker.lastObserve}
  <2>1. /\ TrackerAfter(tracker, clock, s) \in Trackers
        /\ TrackerAfter(tracker, clock, s).lastSnap = s
        /\ TrackerAfter(tracker, clock, s).seen = Noted(tracker, s).seen
        /\ ~ ControllerFailed(s) => TrackerAfter(tracker, clock, s).lastObserve = clock
        /\ ControllerFailed(s) =>
              TrackerAfter(tracker, clock, s).lastObserve = tracker.lastObserve
    BY <1>1, <1>2, AfterFields
  <2> QED
    BY <1>1, <2>1
<1>4. hist' \in History
  BY <1>1, <1>2, HistoryType
<1>5. result' \in Results
  <2>1. result \in Results
    BY DEF WindowInv, TypeOK
  <2>2. OutcomeAfter(tracker, clock, s) \in {Open, "settled", "failed"}
    BY OutcomeType
  <2>3. tracker'.wedgedOut \in BOOLEAN
    BY <1>3 DEF Trackers
  <2> QED
    BY <1>1, <2>1, <2>2, <2>3 DEF ResultOf, Results, Outcomes
<1>6. TypeOK'
  BY <1>1, <1>2, <1>3, <1>4, <1>5 DEF TypeOK, Phase, LoopPhases, Times
<1>7. TimeOrder'
  <2>1. tracker.lastObserve \in Nat \union {Unset}
    BY <1>2 DEF Trackers, Times
  <2> QED
    BY <1>1, <1>2, <1>3, <2>1 DEF TimeOrder, Unset
<1>8. SeenCovers'
  <2>1. \A u \in s.current : Noted(tracker, s).seen[u] >= s.pod[u].restarts
    BY <1>1, <1>2, NotedFields
  <2> QED
    BY <1>3, <2>1 DEF SeenCovers
<1>9. NotReturned'
  BY <1>1, <1>2 DEF NotReturned
<1>10. SnapFromViews'
  BY <1>1, <1>3 DEF SnapFromViews
<1> QED
  BY <1>6, <1>7, <1>8, <1>9, <1>10

\* The heart of the window: a window that holds was opened by pods that are
\* exactly the pods of today, because no count can have gone down in between.
LEMMA HeldWindowIsCurrent ==
    ASSUME NEW t \in Trackers, NEW s \in Snapshots,
           Follows(t, s), WindowHolds(t, s),
           t.baseline = RestartCounts(t.lastSnap),
           \A u \in t.lastSnap.current : t.seen[u] >= t.lastSnap.pod[u].restarts
    PROVE  t.baseline = RestartCounts(s)
<1>1. t.lastSnap \in Snapshots /\ t.baseline \in RestartMaps
  BY DEF Trackers
<1>2. /\ s.current = {u \in Pods : t.baseline[u] # Absent}
      /\ \A u \in s.current : s.pod[u].restarts <= t.baseline[u]
  BY <1>1, UnviolatedWindow DEF WindowHolds
<1>3. t.lastSnap.current = {u \in Pods : t.baseline[u] # Absent}
  BY <1>1, CountsType
<1>4. \A u \in s.current : s.pod[u].restarts = t.baseline[u]
  <2>1. TAKE u \in s.current
  <2>2. u \in Pods /\ u \in t.lastSnap.current
    BY <1>2, <1>3
  <2>3. t.baseline[u] = t.lastSnap.pod[u].restarts
    BY <2>2 DEF RestartCounts
  <2>4. /\ s.pod[u].restarts \in Nat
        /\ t.lastSnap.pod[u].restarts \in Nat
        /\ t.seen[u] \in Int
    BY <1>1, <2>2 DEF Snapshots, Pod, Trackers, RestartMaps, Absent
  <2>5. s.pod[u].restarts >= t.seen[u] /\ t.seen[u] >= t.lastSnap.pod[u].restarts
    BY <2>1, <2>2 DEF Follows
  <2> QED
    BY <1>2, <2>1, <2>3, <2>4, <2>5
<1>5. \A u \in Pods : t.baseline[u] = RestartCounts(s)[u]
  BY <1>2, <1>4 DEF RestartCounts
<1>6. t.baseline \in [Pods -> Nat \union {Absent}]
      /\ RestartCounts(s) \in [Pods -> Nat \union {Absent}]
  BY <1>1, CountsType DEF RestartMaps
<1> QED
  BY <1>5, <1>6

\* An evaluation that decides nothing finds no controller failure, no pod out
\* of patience and no finished completion.
LEMMA OpenOutcome ==
    ASSUME NEW t, NEW s, NEW now, OutcomeAfter(t, now, s) = Open
    PROVE  /\ ~ ControllerFailed(s)
           /\ ~ Charged(t, now, s).wedgedOut
           /\ s.completionTerminal => s.kstatus # "Current"
BY DEF OutcomeAfter, Open

\* After an evaluation that goes on an open window is a picture of its snapshot.
LEMMA ObserveWindow ==
    ASSUME WindowInv, Observe
    PROVE  WindowIsCurrent'
<1>1. PICK s \in Views[target] :
              /\ s \in Snapshots
              /\ Follows(tracker, s)
              /\ tracker' = TrackerAfter(tracker, clock, s)
              /\ hist' = HistoryAfter(hist, tracker, clock, s)
              /\ target' = target /\ clock' = clock /\ deadline' = deadline
              /\ \/ /\ OutcomeAfter(tracker, clock, s) = Open
                    /\ phase' = "select" /\ result' = result
                 \/ /\ OutcomeAfter(tracker, clock, s) # Open
                    /\ phase' = "done"
                    /\ result' = ResultOf(tracker', OutcomeAfter(tracker, clock, s))
  BY ObserveCases
<1>2. /\ target \in Targets /\ tracker \in Trackers /\ clock \in Nat
      /\ tracker.lastObserve <= clock /\ phase # "done"
  BY DEF WindowInv, TypeOK, TimeOrder, Observe
<1> SUFFICES ASSUME phase' = "select", tracker'.healthySince # Unset
             PROVE  /\ HealthyNow(s)
                    /\ ~ s.completionTerminal
                    /\ tracker'.baseline = RestartCounts(s)
                    /\ tracker'.healthySince <= clock
  <2>1. /\ TrackerAfter(tracker, clock, s).lastSnap = s
        /\ ~ ControllerFailed(s) => TrackerAfter(tracker, clock, s).lastObserve = clock
    BY <1>1, <1>2, AfterFields
  <2>2. phase' = "select" => ~ ControllerFailed(s)
    BY <1>1, OpenOutcome
  <2>3. phase' = "select" => tracker'.lastSnap = s /\ tracker'.lastObserve = clock
    BY <1>1, <2>1, <2>2
  <2>4. phase' \in {"select", "done"}
    BY <1>1
  <2> QED
    BY <2>3, <2>4 DEF WindowIsCurrent
<1>3. /\ ~ ControllerFailed(s)
      /\ ~ Charged(tracker, clock, s).wedgedOut
      /\ s.completionTerminal => s.kstatus # "Current"
  BY <1>1, OpenOutcome
<1>4. tracker.healthySince # Unset =>
         /\ HealthyNow(tracker.lastSnap)
         /\ ~ tracker.lastSnap.completionTerminal
         /\ tracker.baseline = RestartCounts(tracker.lastSnap)
         /\ tracker.healthySince <= tracker.lastObserve
         /\ tracker.lastSnap \in Views[target]
  <2>1. ~ HealthyNow(NoSnapshot)
    BY DEF HealthyNow, NoSnapshot
  <2> QED
    BY <1>2, <2>1 DEF WindowInv, WindowIsCurrent, SnapFromViews
<1>5. ~ s.completionTerminal
  <2> SUFFICES ASSUME s.completionTerminal PROVE FALSE
    OBVIOUS
  <2>1. \A v \in Views[target] : v.completionTerminal
    BY <1>1, <1>2, <1>3, KindAssumption
  <2>2. tracker.healthySince = Unset
    BY <1>4, <2>1
  <2>3. tracker'.healthySince = tracker.healthySince
    BY <1>1, <1>2, AfterNoWindow
  <2> QED
    BY <2>2, <2>3
<1>6. /\ ~ HealthyNow(s) => tracker'.healthySince = Unset
      /\ WindowHolds(tracker, s) =>
           /\ tracker'.healthySince = tracker.healthySince
           /\ tracker'.baseline = tracker.baseline
      /\ HealthyNow(s) /\ ~ WindowHolds(tracker, s) =>
           /\ tracker'.healthySince = clock
           /\ tracker'.baseline = RestartCounts(s)
  BY <1>1, <1>2, <1>3, <1>5, AfterWindow
<1>7. CASE WindowHolds(tracker, s)
  <2>1. tracker.healthySince # Unset /\ HealthyNow(s)
    BY <1>7 DEF WindowHolds
  <2>2. \A u \in tracker.lastSnap.current :
           tracker.seen[u] >= tracker.lastSnap.pod[u].restarts
    BY DEF WindowInv, SeenCovers
  <2>3. tracker.baseline = RestartCounts(s)
    BY <1>1, <1>2, <1>4, <1>7, <2>1, <2>2, HeldWindowIsCurrent
  <2>4. tracker.healthySince <= clock
    BY <1>2, <1>4, <2>1 DEF Trackers, Times, Unset
  <2> QED
    BY <1>5, <1>6, <1>7, <2>1, <2>3, <2>4
<1>8. CASE ~ WindowHolds(tracker, s)
  BY <1>2, <1>5, <1>6, <1>8
<1> QED
  BY <1>7, <1>8

\* A step that leaves the tracker and its history alone keeps the invariant as
\* long as time does not run backwards.
LEMMA QuietStep ==
    ASSUME WindowInv, UNCHANGED <<target, tracker, hist>>,
           phase # "done",
           phase' \in Phase,
           clock' \in Nat, clock' >= clock,
           deadline' \in Times,
           phase' \in {"sync"} \union LoopPhases => deadline' \in Nat,
           result' \in Results,
           phase' # "done" => result' = result
    PROVE  WindowInv'
<1>1. TypeOK'
  BY DEF WindowInv, TypeOK
<1>2. TimeOrder'
  <2>1. tracker.lastObserve \in Nat \union {Unset} /\ clock \in Nat
    BY DEF WindowInv, TypeOK, Trackers, Times
  <2> QED
    BY <2>1 DEF WindowInv, TimeOrder, Unset
<1>3. SeenCovers' /\ NotReturned' /\ SnapFromViews'
  BY DEF WindowInv, SeenCovers, NotReturned, SnapFromViews
<1>4. WindowIsCurrent'
  BY DEF WindowInv, WindowIsCurrent
<1> QED
  BY <1>1, <1>2, <1>3, <1>4 DEF WindowInv

\* Each action keeps the invariant.
LEMMA NextWindowInv ==
    ASSUME WindowInv, [Next]_vars
    PROVE  WindowInv'
<1>1. /\ phase \in Phase /\ clock \in Nat /\ deadline \in Times
      /\ phase \in {"sync"} \union LoopPhases => deadline \in Nat
      /\ result \in Results /\ tracker \in Trackers
      /\ Timeout \in Nat /\ MaxGap \in Nat \ {0} /\ CallTimes \subseteq Nat
  BY WatchAssumption DEF WindowInv, TypeOK
<1>2. \A e \in Errors \union Outcomes :
         [outcome |-> e, wedgedOut |-> FALSE] \in Results
  BY DEF Results
<1>3. CASE PreflightPasses
  BY <1>1, <1>3, QuietStep DEF PreflightPasses, Phase, LoopPhases, Times
<1>4. CASE PreflightFails
  BY <1>1, <1>2, <1>4, QuietStep DEF PreflightFails, Fail, Return, Phase, LoopPhases
<1>5. CASE SyncCompletes
  BY <1>1, <1>5, QuietStep DEF SyncCompletes, Phase, LoopPhases
<1>6. CASE SyncFails
  <2>1. "other" \in Errors
    BY DEF Errors
  <2> QED
    BY <1>1, <1>2, <1>6, <2>1, QuietStep DEF SyncFails, Fail, Return, Phase, LoopPhases
<1>7. CASE Observe
  BY <1>7, ObserveType, ObserveWindow DEF WindowInv
<1>8. CASE SnapshotFails
  BY <1>1, <1>2, <1>8, QuietStep
     DEF SnapshotFails, Fail, Return, Phase, LoopPhases, Errors
<1>9. CASE TickerFires
  <2>1. clock' \in Nat /\ clock' >= clock
    BY <1>1, <1>9 DEF TickerFires
  <2> QED
    BY <1>1, <1>9, <2>1, QuietStep DEF TickerFires, Phase, LoopPhases
<1>10. CASE DeadlinePasses
  <2>1. deadline \in Nat
    BY <1>1, <1>10 DEF DeadlinePasses, LoopPhases
  <2>2. clock' \in Nat /\ clock' >= clock
    BY <1>1, <1>10, <2>1 DEF DeadlinePasses
  <2>3. TimeoutVerdict(tracker) \in Outcomes
    BY DEF TimeoutVerdict, Outcomes
  <2> QED
    BY <1>1, <1>2, <1>10, <2>2, <2>3, QuietStep
       DEF DeadlinePasses, Fail, Return, Phase, LoopPhases
<1>11. CASE Interrupted
  BY <1>1, <1>2, <1>11, QuietStep
     DEF Interrupted, Fail, Return, Phase, LoopPhases, Errors
<1>12. CASE UNCHANGED vars
  BY <1>12 DEF vars, WindowInv, TypeOK, TimeOrder, SeenCovers, NotReturned,
               SnapFromViews, WindowIsCurrent
<1> QED
  BY <1>3, <1>4, <1>5, <1>6, <1>7, <1>8, <1>9, <1>10, <1>11, <1>12 DEF Next

\* The invariant holds throughout every watch.
LEMMA WindowInvAlways == Spec => []WindowInv
BY InitWindowInv, NextWindowInv, PTL DEF Spec

\* Every variable of a watch keeps its type (Run, watchLoop).
THEOREM TypeCorrect == Spec => []TypeOK
<1>1. WindowInv => TypeOK
  BY DEF WindowInv
<1> QED
  BY <1>1, WindowInvAlways, PTL

\* While a watch runs, the baseline of its open window pictures exactly the
\* pods just evaluated (tracker.observe), for every set of pods and views.
THEOREM WindowCorrect == Spec => []WindowIsCurrent
<1>1. WindowInv => WindowIsCurrent
  BY DEF WindowInv
<1> QED
  BY <1>1, WindowInvAlways, PTL

----------------------------------------------------------------------------
\* Where the clock can be, phase by phase: the deadline of the watch is at most
\* two timeouts away, and only a tick taken before it leads past it.
ClockBounded ==
    /\ phase = "preflight" => clock = 0
    /\ phase = "sync" => clock <= Timeout /\ deadline = clock + Timeout
    /\ phase \in LoopPhases => deadline <= 2 * Timeout /\ clock <= deadline + MaxGap
    /\ phase = "done" => clock <= 2 * Timeout + MaxGap

\* Each action keeps the bounds of the clock.
LEMMA NextClockBounded ==
    ASSUME TypeOK, ClockBounded, [Next]_vars
    PROVE  ClockBounded'
<1>1. /\ clock \in Nat /\ Timeout \in Nat /\ MaxGap \in Nat \ {0}
      /\ \A d \in CallTimes : d \in Nat /\ d <= Timeout
      /\ phase \in {"sync"} \union LoopPhases => deadline \in Nat
  BY WatchAssumption DEF TypeOK
<1>2. CASE PreflightPasses
  BY <1>1, <1>2 DEF PreflightPasses, ClockBounded, LoopPhases
<1>3. CASE PreflightFails
  BY <1>1, <1>3 DEF PreflightFails, Fail, Return, ClockBounded, LoopPhases
<1>4. CASE SyncCompletes
  BY <1>1, <1>4 DEF SyncCompletes, ClockBounded, LoopPhases
<1>5. CASE SyncFails
  BY <1>1, <1>5 DEF SyncFails, Fail, Return, ClockBounded, LoopPhases
<1>6. CASE Observe
  <2>1. phase' \in {"select", "done"} /\ clock' = clock /\ deadline' = deadline
    BY <1>6 DEF Observe, Return
  <2>2. phase = "observe"
    BY <1>6 DEF Observe
  <2> QED
    BY <1>1, <2>1, <2>2 DEF ClockBounded, LoopPhases
<1>7. CASE SnapshotFails
  BY <1>1, <1>7 DEF SnapshotFails, Fail, Return, ClockBounded, LoopPhases
<1>8. CASE TickerFires
  BY <1>1, <1>8 DEF TickerFires, ClockBounded, LoopPhases
<1>9. CASE DeadlinePasses
  BY <1>1, <1>9 DEF DeadlinePasses, Fail, Return, ClockBounded, LoopPhases
<1>10. CASE Interrupted
  BY <1>1, <1>10 DEF Interrupted, Fail, Return, ClockBounded, LoopPhases
<1>11. CASE UNCHANGED vars
  BY <1>11 DEF vars, ClockBounded
<1> QED
  BY <1>2, <1>3, <1>4, <1>5, <1>6, <1>7, <1>8, <1>9, <1>10, <1>11 DEF Next

\* Run gives its verdict within two timeouts and one late evaluation
\* (settle.go:102, settle.go:144), for every timeout and whatever it observes.
THEOREM EndsInTimeCorrect == Spec => []EndsInTime
<1>1. Init => ClockBounded
  BY DEF Init, ClockBounded, LoopPhases
<1>2. WindowInv => TypeOK
  BY DEF WindowInv
<1>3. WindowInv /\ ClockBounded => EndsInTime
  BY DEF WindowInv, NotReturned, ClockBounded, EndsInTime
<1>4. WindowInv /\ ClockBounded /\ [Next]_vars => ClockBounded'
  BY <1>2, NextClockBounded
<1> QED
  BY <1>1, <1>3, <1>4, WindowInvAlways, PTL DEF Spec

----------------------------------------------------------------------------
(* The early exit of a watch (observeWedge) *)

\* The wedged clock of u, as bracketed by what was seen of u.
Bracketed(t, h, u) ==
    /\ h.ready[u] \in Nat
    /\ t.wedged[u] <= t.lastObserve - h.ready[u]
    /\ h.bad[u] # Unset => t.wedged[u] >= t.lastObserve - h.bad[u]

\* Nothing is charged before the first evaluation, and every clock is bracketed
\* after it; `started' and lastObserve begin together.
ClocksBracketed ==
    phase # "done" /\ WedgedFor > 0 =>
        /\ hist.started = Unset <=> tracker.lastObserve = Unset
        /\ IF hist.started = Unset
           THEN \A u \in Pods : tracker.wedged[u] = 0 /\ hist.bad[u] = Unset
           ELSE \A u \in Pods : Bracketed(tracker, hist, u)

\* A watch that runs has not run out of patience.
NotWedgedOut == phase # "done" => ~ tracker.wedgedOut

PatienceInv == /\ WindowInv /\ ClocksBracketed /\ NotWedgedOut
               /\ PatienceKept /\ EarlyMirrorsDeadline

----------------------------------------------------------------------------
\* Before the first evaluation no clock runs.
LEMMA InitPatienceInv == Init => PatienceInv
<1> SUFFICES ASSUME Init PROVE PatienceInv
  OBVIOUS
<1>1. WindowInv
  BY InitWindowInv
<1>2. /\ tracker.lastObserve = Unset /\ ~ tracker.wedgedOut
      /\ \A u \in Pods : tracker.wedged[u] = 0
  BY DEF Init, NewTracker
<1>3. hist.started = Unset /\ \A u \in Pods : hist.bad[u] = Unset
  BY DEF Init, NoHistory
<1>4. ~ result.wedgedOut /\ phase = "preflight"
  BY DEF Init, NoResult
<1> QED
  BY <1>1, <1>2, <1>3, <1>4
     DEF PatienceInv, ClocksBracketed, NotWedgedOut, PatienceKept, EarlyMirrorsDeadline

\* One evaluation moves every wedged clock and its bracket together.
LEMMA ChargeBracketed ==
    ASSUME PatienceInv, phase # "done", WedgedFor > 0,
           NEW s \in Snapshots, NEW u \in Pods
    PROVE  LET h == HistoryAfter(hist, tracker, clock, s)
               c == Charge(tracker, clock, s)
           IN  /\ h.ready[u] \in Nat
               /\ c[u] \in Nat
               /\ c[u] <= clock - h.ready[u]
               /\ h.bad[u] # Unset => /\ c[u] >= clock - h.bad[u]
                                      /\ u \in s.current
                                      /\ WedgeReason(s, u)
<1> DEFINE h == HistoryAfter(hist, tracker, clock, s)
           c == Charge(tracker, clock, s)
           dt == IF tracker.lastObserve = Unset THEN 0 ELSE clock - tracker.lastObserve
<1>1. /\ tracker \in Trackers /\ hist \in History /\ clock \in Nat
      /\ tracker.lastObserve <= clock
  BY DEF PatienceInv, WindowInv, TypeOK, TimeOrder
<1>2. /\ tracker.wedged[u] \in Nat /\ hist.bad[u] \in Nat \union {Unset}
      /\ tracker.lastObserve \in Nat \union {Unset}
      /\ hist.started \in Nat \union {Unset}
  BY <1>1 DEF Trackers, History, Times
<1>3. h.ready[u] = IF \/ hist.started = Unset
                      \/ u \in s.current /\ PodReady(s.pod[u]) /\ ~ WedgeReason(s, u)
                   THEN clock ELSE hist.ready[u]
  BY DEF HistoryAfter
<1>4. h.bad[u] = IF u \notin s.current \/ ~ WedgeReason(s, u) THEN Unset
                 ELSE IF hist.bad[u] = Unset THEN clock ELSE hist.bad[u]
  BY DEF HistoryAfter
<1>5. c[u] = IF u \notin s.current THEN tracker.wedged[u]
             ELSE IF WedgeReason(s, u) THEN tracker.wedged[u] + dt
             ELSE IF PodReady(s.pod[u]) THEN 0
             ELSE tracker.wedged[u]
  BY DEF Charge
<1>6. /\ hist.started = Unset <=> tracker.lastObserve = Unset
      /\ hist.started = Unset => tracker.wedged[u] = 0 /\ hist.bad[u] = Unset
      /\ hist.started # Unset =>
            /\ hist.ready[u] \in Nat
            /\ tracker.wedged[u] <= tracker.lastObserve - hist.ready[u]
            /\ hist.bad[u] # Unset =>
                  tracker.wedged[u] >= tracker.lastObserve - hist.bad[u]
  BY DEF PatienceInv, ClocksBracketed, Bracketed
<1>7. dt \in Nat /\ (tracker.lastObserve # Unset => dt = clock - tracker.lastObserve)
  BY <1>1, <1>2 DEF Unset
<1> HIDE DEF h, c, dt
<1>8. /\ h.ready[u] \in Nat
      /\ c[u] \in Nat
      /\ c[u] <= clock - h.ready[u]
      /\ h.bad[u] # Unset => c[u] >= clock - h.bad[u]
  <2>1. CASE u \in s.current /\ WedgeReason(s, u)
    <3>1. /\ h.ready[u] = IF hist.started = Unset THEN clock ELSE hist.ready[u]
          /\ h.bad[u] = IF hist.bad[u] = Unset THEN clock ELSE hist.bad[u]
          /\ c[u] = tracker.wedged[u] + dt
      BY <1>3, <1>4, <1>5, <2>1
    <3>2. hist.started = Unset => dt = 0
      BY <1>6 DEF dt
    <3> QED
      BY <1>1, <1>2, <1>6, <1>7, <3>1, <3>2 DEF Unset
  <2>2. CASE u \in s.current /\ ~ WedgeReason(s, u) /\ PodReady(s.pod[u])
    <3>1. h.ready[u] = clock /\ h.bad[u] = Unset /\ c[u] = 0
      BY <1>3, <1>4, <1>5, <2>2
    <3> QED
      BY <1>1, <3>1
  <2>3. CASE u \notin s.current \/ (~ WedgeReason(s, u) /\ ~ PodReady(s.pod[u]))
    <3>1. /\ h.ready[u] = IF hist.started = Unset THEN clock ELSE hist.ready[u]
          /\ h.bad[u] = Unset
          /\ c[u] = tracker.wedged[u]
      BY <1>3, <1>4, <1>5, <2>3
    <3> QED
      BY <1>1, <1>2, <1>6, <3>1 DEF Unset
  <2> QED
    BY <2>1, <2>2, <2>3
<1>9. h.bad[u] # Unset => u \in s.current /\ WedgeReason(s, u)
  BY <1>4
<1> QED
  BY <1>8, <1>9 DEF h, c

\* A pod that is wedged for observeWedge is terminal for timeoutVerdict.
LEMMA WedgeIsTerminal ==
    ASSUME NEW s, NEW u \in s.current, WedgeReason(s, u)
    PROVE  TerminalAtTimeout(s)
BY DEF WedgeReason, TerminalAtTimeout, TerminalPodReason

\* An evaluation keeps the clocks bracketed and crosses WedgedFor only when it is due.
LEMMA ObservePatience ==
    ASSUME PatienceInv, Observe
    PROVE  PatienceInv'
<1>1. PICK s \in Views[target] :
              /\ s \in Snapshots
              /\ Follows(tracker, s)
              /\ tracker' = TrackerAfter(tracker, clock, s)
              /\ hist' = HistoryAfter(hist, tracker, clock, s)
              /\ clock' = clock /\ deadline' = deadline
              /\ \/ /\ OutcomeAfter(tracker, clock, s) = Open
                    /\ phase' = "select" /\ result' = result
                 \/ /\ OutcomeAfter(tracker, clock, s) # Open
                    /\ phase' = "done"
                    /\ result' = ResultOf(tracker', OutcomeAfter(tracker, clock, s))
  BY ObserveCases DEF PatienceInv
<1>2. WindowInv'
  BY ObserveType, ObserveWindow DEF PatienceInv, WindowInv
<1>3. /\ phase # "done" /\ ~ tracker.wedgedOut /\ result = NoResult
      /\ tracker \in Trackers /\ hist \in History
      /\ clock \in Nat /\ tracker.lastObserve <= clock
  BY DEF Observe, PatienceInv, NotWedgedOut, WindowInv, TypeOK, TimeOrder, NotReturned
<1>4. /\ tracker'.lastSnap = s
      /\ ~ ControllerFailed(s) => tracker'.lastObserve = clock
  BY <1>1, <1>3, AfterFields
<1>5. ControllerFailed(s) => ~ tracker'.wedgedOut
  <2>1. ControllerFailed(s) => tracker' = Noted(tracker, s)
    BY <1>1 DEF TrackerAfter
  <2>2. Noted(tracker, s).wedgedOut = tracker.wedgedOut
    BY <1>1, <1>3, NotedFields
  <2> QED
    BY <1>3, <2>1, <2>2
<1>6. ~ ControllerFailed(s) =>
         /\ tracker'.wedged = Charged(tracker, clock, s).wedged
         /\ tracker'.wedgedOut = Charged(tracker, clock, s).wedgedOut
  BY <1>1, <1>3, AfterWedge
<1>7. /\ WedgedFor = 0 => ~ Charged(tracker, clock, s).wedgedOut
      /\ WedgedFor > 0 =>
           /\ Charged(tracker, clock, s).wedged = Charge(tracker, clock, s)
           /\ Charged(tracker, clock, s).wedgedOut <=> Crosses(tracker, clock, s)
  <2>1. /\ WedgedFor = 0 => Charged(tracker, clock, s).wedgedOut = tracker.wedgedOut
        /\ WedgedFor > 0 =>
             /\ Charged(tracker, clock, s).wedged = Charge(tracker, clock, s)
             /\ Charged(tracker, clock, s).wedgedOut <=> Crosses(tracker, clock, s)
    BY <1>1, <1>3, ChargedFields
  <2> QED
    BY <1>3, <2>1
<1>8. WedgedFor > 0 => \A u \in Pods :
          /\ hist'.ready[u] \in Nat
          /\ Charge(tracker, clock, s)[u] \in Nat
          /\ Charge(tracker, clock, s)[u] <= clock - hist'.ready[u]
          /\ hist'.bad[u] # Unset =>
                /\ Charge(tracker, clock, s)[u] >= clock - hist'.bad[u]
                /\ u \in s.current
                /\ WedgeReason(s, u)
  BY <1>1, <1>3, ChargeBracketed
<1>9. WedgedFor \in Nat /\ (WedgedFor = 0 \/ WedgedFor > 0)
  BY OptionsAssumption
<1>10. hist'.started # Unset
  <2>1. hist'.started = IF hist.started = Unset THEN clock ELSE hist.started
    BY <1>1 DEF HistoryAfter
  <2> QED
    BY <1>3, <2>1 DEF Unset
<1>11. CASE phase' = "select"
  <2>1. ~ ControllerFailed(s) /\ ~ Charged(tracker, clock, s).wedgedOut
    BY <1>1, <1>11, OpenOutcome
  <2>2. result' = NoResult /\ ~ result'.wedgedOut
    BY <1>1, <1>3, <1>11 DEF NoResult
  <2>3. NotWedgedOut'
    BY <1>6, <2>1 DEF NotWedgedOut
  <2>4. EarlyMirrorsDeadline'
    BY <2>2 DEF EarlyMirrorsDeadline
  <2>5. ClocksBracketed'
    <3>1. ASSUME WedgedFor > 0 PROVE \A u \in Pods : Bracketed(tracker', hist', u)
      BY <1>4, <1>6, <1>7, <1>8, <2>1, <3>1 DEF Bracketed
    <3>2. tracker'.lastObserve # Unset
      BY <1>3, <1>4, <2>1 DEF Unset
    <3> QED
      BY <1>10, <3>1, <3>2 DEF ClocksBracketed, Bracketed
  <2>6. ASSUME WedgedFor > 0, NEW u \in Pods, hist'.bad[u] # Unset
        PROVE  clock' - hist'.bad[u] < WedgedFor
    <3>1. ~ Crosses(tracker, clock, s)
      BY <1>7, <2>1, <2>6
    <3>2. ~ (Charge(tracker, clock, s)[u] >= WedgedFor)
      BY <1>8, <2>6, <3>1 DEF Crosses
    <3>3. hist'.bad[u] \in Int
      BY <1>2 DEF WindowInv, TypeOK, History, Times, Unset
    <3> QED
      BY <1>1, <1>3, <1>8, <1>9, <2>6, <3>2, <3>3
  <2>7. PatienceKept'
    BY <1>9, <2>2, <2>6 DEF PatienceKept
  <2> QED
    BY <1>2, <2>3, <2>4, <2>5, <2>7 DEF PatienceInv
<1>12. CASE phase' = "done"
  <2>1. result'.wedgedOut = tracker'.wedgedOut
        /\ result'.outcome = OutcomeAfter(tracker, clock, s)
    BY <1>1, <1>12 DEF ResultOf
  <2>2. ASSUME result'.wedgedOut
        PROVE  /\ ~ ControllerFailed(s) /\ WedgedFor > 0
               /\ Crosses(tracker, clock, s)
               /\ result'.outcome = "failed"
    <3>1. ~ ControllerFailed(s) /\ Charged(tracker, clock, s).wedgedOut
      BY <1>5, <1>6, <2>1, <2>2
    <3> QED
      BY <1>7, <1>9, <2>1, <3>1 DEF OutcomeAfter
  <2>3. EarlyMirrorsDeadline'
    <3>1. Crosses(tracker, clock, s) => TerminalAtTimeout(s)
      BY WedgeIsTerminal DEF Crosses
    <3>2. result'.wedgedOut => TimeoutVerdict(tracker') = "failed"
      BY <1>4, <2>2, <3>1 DEF TimeoutVerdict
    <3> QED
      BY <2>2, <3>2 DEF EarlyMirrorsDeadline, TimeoutVerdict
  <2>4. PatienceKept'
    <3>1. ASSUME result'.wedgedOut
          PROVE  \E u \in s.current : /\ WedgeReason(s, u)
                                      /\ clock - hist'.ready[u] >= WedgedFor
      <4>1. PICK u \in s.current : /\ WedgeReason(s, u)
                                   /\ Charge(tracker, clock, s)[u] >= WedgedFor
        BY <2>2, <3>1 DEF Crosses
      <4>2. u \in Pods
        BY <1>1 DEF Snapshots
      <4>3. clock - hist'.ready[u] >= WedgedFor
        BY <1>3, <1>8, <1>9, <2>2, <3>1, <4>1, <4>2
      <4> QED
        BY <4>1, <4>3
    <3> QED
      BY <1>1, <1>4, <1>12, <3>1 DEF PatienceKept
  <2>5. ClocksBracketed' /\ NotWedgedOut'
    BY <1>12 DEF ClocksBracketed, NotWedgedOut
  <2> QED
    BY <1>2, <2>3, <2>4, <2>5 DEF PatienceInv
<1> QED
  BY <1>1, <1>11, <1>12

\* Steps that do not evaluate leave the clocks alone; only the ones that return
\* touch the result, and they return no early exit.
LEMMA QuietPatience ==
    ASSUME PatienceInv, WindowInv', UNCHANGED <<tracker, hist>>, phase # "done",
           phase' # "select", ~ result'.wedgedOut
    PROVE  PatienceInv'
BY DEF PatienceInv, ClocksBracketed, Bracketed, NotWedgedOut, PatienceKept,
       EarlyMirrorsDeadline

\* Every step keeps the invariant.
LEMMA NextPatienceInv ==
    ASSUME PatienceInv, [Next]_vars
    PROVE  PatienceInv'
<1>1. WindowInv'
  BY NextWindowInv DEF PatienceInv
<1>2. CASE Observe
  BY <1>2, ObservePatience
<1>3. CASE UNCHANGED vars
  BY <1>1, <1>3 DEF PatienceInv, ClocksBracketed, Bracketed, NotWedgedOut,
                    PatienceKept, EarlyMirrorsDeadline, vars
<1>4. CASE \/ PreflightPasses \/ PreflightFails \/ SyncCompletes \/ SyncFails
           \/ SnapshotFails \/ TickerFires \/ DeadlinePasses \/ Interrupted
  <2>1. /\ UNCHANGED <<tracker, hist>> /\ phase # "done" /\ phase' # "select"
        /\ result' = result \/ result'.wedgedOut = FALSE
    BY <1>4 DEF PreflightPasses, PreflightFails, SyncCompletes, SyncFails,
                SnapshotFails, TickerFires, DeadlinePasses, Interrupted, Fail, Return
  <2>2. ~ result.wedgedOut
    BY <2>1 DEF PatienceInv, WindowInv, NotReturned, NoResult
  <2>3. ~ result'.wedgedOut
    BY <2>1, <2>2
  <2> QED
    BY <1>1, <2>1, <2>3, QuietPatience
<1> QED
  BY <1>2, <1>3, <1>4 DEF Next

\* The invariant holds throughout every watch.
LEMMA PatienceInvAlways == Spec => []PatienceInv
BY InitPatienceInv, NextPatienceInv, PTL DEF Spec

\* The wedged clocks bracket the truth (observeWedge), for every set of pods and
\* every spacing of the evaluations.
THEOREM ClocksCorrect == Spec => []WedgeBracketed
<1>1. PatienceInv => WedgeBracketed
  BY DEF PatienceInv, ClocksBracketed, Bracketed, WedgeBracketed, LoopPhases
<1> QED
  BY <1>1, PatienceInvAlways, PTL

\* An early failure is never premature and never late (Options.WedgedFor): the
\* pod that ends the watch has not been seen Ready for WedgedFor, and no pod
\* that every evaluation finds wedged outlives WedgedFor.
THEOREM PatienceCorrect == Spec => []PatienceKept
<1>1. PatienceInv => PatienceKept
  BY DEF PatienceInv
<1> QED
  BY <1>1, PatienceInvAlways, PTL

\* An early failure is the failure the deadline would have declared from the
\* same observation (observeWedge against timeoutVerdict).
THEOREM EarlyCorrect == Spec => []EarlyMirrorsDeadline
<1>1. PatienceInv => EarlyMirrorsDeadline
  BY DEF PatienceInv
<1> QED
  BY <1>1, PatienceInvAlways, PTL

----------------------------------------------------------------------------
(* Watch implements Stability: the mapping is in Watch (Promise), the      *)
(* inductive invariant carries the argument.  From the same invariant:     *)
(* exit 2 is earned.                                                       *)

Calm(t) == HealthyNow(t.lastSnap) /\ ~ t.lastSnap.completionTerminal

\* A window is open exactly while the target is calm.
CalmMeansOpen ==
    phase # "done" /\ Calm(tracker) => tracker.healthySince # Unset

\* An open window that was long enough at an evaluation did not stay open.
WindowIsShort ==
    phase # "done" /\ tracker.healthySince # Unset =>
        \/ tracker.lastObserve - tracker.healthySince < StableFor
        \/ tracker.lastObserve = tracker.healthySince

PromiseInv == WindowInv /\ CalmMeansOpen /\ WindowIsShort

----------------------------------------------------------------------------
\* Observing the very counts of the baseline is no violation.
LEMMA SameCountsHold ==
    ASSUME NEW t, NEW s \in Snapshots, HealthyNow(s), t.healthySince # Unset,
           t.baseline = RestartCounts(s)
    PROVE  WindowHolds(t, s)
<1>1. {u \in Pods : t.baseline[u] # Absent} = s.current
  BY CountsType
<1>2. \A u \in s.current : /\ u \in Pods
                           /\ s.pod[u].restarts \in Nat
  BY DEF Snapshots, Pod
<1>3. \A u \in s.current : t.baseline[u] = s.pod[u].restarts
  BY <1>2 DEF RestartCounts
<1>4. Cardinality(s.current) = Cardinality({u \in Pods : t.baseline[u] # Absent})
  BY <1>1, Zenon
<1>5. \A u \in s.current : /\ t.baseline[u] # Absent
                           /\ ~ (s.pod[u].restarts > t.baseline[u])
  BY <1>2, <1>3 DEF Absent
<1>6. ~ WindowViolation(t.baseline, s)
  BY <1>4, <1>5, Zenon DEF WindowViolation
<1> QED
  BY <1>6 DEF WindowHolds

\* No window is open before the first evaluation.
LEMMA InitPromiseInv == Init => PromiseInv
<1> SUFFICES ASSUME Init PROVE PromiseInv
  OBVIOUS
<1>1. WindowInv
  BY InitWindowInv
<1>2. tracker.healthySince = Unset /\ tracker.lastSnap = NoSnapshot
  BY DEF Init, NewTracker
<1>3. ~ HealthyNow(NoSnapshot)
  BY DEF HealthyNow, NoSnapshot
<1> QED
  BY <1>1, <1>2, <1>3 DEF PromiseInv, CalmMeansOpen, WindowIsShort, Calm

\* What an evaluation does to the abstract observer: it fails or completes with
\* the window untouched, or it follows the streak exactly.
LEMMA ObserveStreak ==
    ASSUME PromiseInv, NEW s \in Views[target], Follows(tracker, s),
           ~ ControllerFailed(s), ~ Charged(tracker, clock, s).wedgedOut,
           s.completionTerminal => OutcomeAfter(tracker, clock, s) = Open,
           phase # "done"
    PROVE  LET a == TrackerAfter(tracker, clock, s)
               same == Calm(tracker) /\ RestartCounts(s) = RestartCounts(tracker.lastSnap)
           IN  /\ a.lastSnap = s
               /\ a.lastObserve = clock
               /\ ~ Calm(a) => a.healthySince = Unset
               /\ Calm(a) /\ same => a.healthySince = tracker.healthySince
               /\ Calm(a) /\ ~ same => a.healthySince = clock
               /\ Calm(a) /\ same /\ clock - tracker.healthySince >= StableFor
                    => OutcomeAfter(tracker, clock, s) = "settled"
               /\ OutcomeAfter(tracker, clock, s) # Open =>
                    /\ Calm(a) /\ same /\ clock - tracker.healthySince >= StableFor
                    /\ OutcomeAfter(tracker, clock, s) = "settled"
<1> DEFINE a == TrackerAfter(tracker, clock, s)
           same == Calm(tracker) /\ RestartCounts(s) = RestartCounts(tracker.lastSnap)
<1>1. /\ target \in Targets /\ tracker \in Trackers /\ clock \in Nat
      /\ tracker.lastObserve <= clock /\ s \in Snapshots
  BY WatchAssumption DEF PromiseInv, WindowInv, TypeOK, TimeOrder
<1>2. a.lastSnap = s /\ a.lastObserve = clock
  BY <1>1, AfterFields
<1>3. tracker.healthySince # Unset =>
         /\ Calm(tracker)
         /\ tracker.baseline = RestartCounts(tracker.lastSnap)
         /\ tracker.lastSnap \in Views[target]
  <2>1. ~ HealthyNow(NoSnapshot)
    BY DEF HealthyNow, NoSnapshot
  <2> QED
    BY <2>1 DEF PromiseInv, WindowInv, WindowIsCurrent, SnapFromViews, Calm
<1>4. Calm(tracker) => tracker.healthySince # Unset
  BY DEF PromiseInv, CalmMeansOpen
<1>5. CASE s.completionTerminal
  <2>1. s.kstatus # "Current"
    BY <1>5, OpenOutcome
  <2>2. tracker.healthySince = Unset
    <3>1. \A v \in Views[target] : v.completionTerminal
      BY <1>1, <1>5, <2>1, KindAssumption
    <3> QED
      BY <1>3, <3>1 DEF Calm
  <2>3. a.healthySince = tracker.healthySince
    BY <1>1, <1>5, AfterNoWindow
  <2>4. ~ Calm(a)
    BY <1>2, <1>5 DEF Calm
  <2> QED
    BY <1>2, <1>5, <2>2, <2>3, <2>4
<1>6. CASE ~ s.completionTerminal
  <2>1. /\ ~ HealthyNow(s) => a.healthySince = Unset
        /\ WindowHolds(tracker, s) => a.healthySince = tracker.healthySince
        /\ HealthyNow(s) /\ ~ WindowHolds(tracker, s) => a.healthySince = clock
    BY <1>1, <1>6, AfterWindow
  <2>2. Calm(a) <=> HealthyNow(s)
    BY <1>2, <1>6 DEF Calm
  <2>3. HealthyNow(s) /\ same => WindowHolds(tracker, s)
    BY <1>1, <1>3, <1>4, SameCountsHold
  <2>4. WindowHolds(tracker, s) => HealthyNow(s) /\ same
    <3> SUFFICES ASSUME WindowHolds(tracker, s) PROVE HealthyNow(s) /\ same
      OBVIOUS
    <3>1. HealthyNow(s) /\ tracker.healthySince # Unset
      BY DEF WindowHolds
    <3>2. tracker.baseline = RestartCounts(s)
      BY <1>1, <1>3, <3>1, HeldWindowIsCurrent DEF PromiseInv, WindowInv, SeenCovers
    <3> QED
      BY <1>3, <3>1, <3>2
  <2>5. OutcomeAfter(tracker, clock, s) =
           IF WindowHolds(tracker, s) /\ clock - tracker.healthySince >= StableFor
           THEN "settled" ELSE Open
    BY <1>6 DEF OutcomeAfter
  <2> HIDE DEF same, a
  <2>6. /\ ~ Calm(a) => a.healthySince = Unset
        /\ Calm(a) /\ same => a.healthySince = tracker.healthySince
        /\ Calm(a) /\ ~ same => a.healthySince = clock
    BY <2>1, <2>2, <2>3, <2>4
  <2>7. /\ Calm(a) /\ same /\ clock - tracker.healthySince >= StableFor
             => OutcomeAfter(tracker, clock, s) = "settled"
        /\ OutcomeAfter(tracker, clock, s) # Open =>
             /\ Calm(a) /\ same /\ clock - tracker.healthySince >= StableFor
             /\ OutcomeAfter(tracker, clock, s) = "settled"
    BY <2>2, <2>3, <2>4, <2>5
  <2> QED
    BY <1>2, <2>6, <2>7 DEF same, a
<1> QED
  BY <1>5, <1>6

----------------------------------------------------------------------------
(* The invariant *)

\* Steps that do not evaluate keep the two facts about the window.
LEMMA QuietPromise ==
    ASSUME PromiseInv, WindowInv', UNCHANGED tracker, phase # "done"
    PROVE  PromiseInv'
BY DEF PromiseInv, CalmMeansOpen, WindowIsShort, Calm

\* An evaluation opens a window exactly when it finds the target calm.
LEMMA ObservePromiseInv ==
    ASSUME PromiseInv, Observe
    PROVE  PromiseInv'
<1>1. WindowInv'
  BY ObserveType, ObserveWindow DEF PromiseInv, WindowInv
<1>2. PICK s \in Views[target] :
              /\ s \in Snapshots
              /\ Follows(tracker, s)
              /\ tracker' = TrackerAfter(tracker, clock, s)
              /\ hist' = HistoryAfter(hist, tracker, clock, s)
              /\ clock' = clock /\ deadline' = deadline
              /\ \/ /\ OutcomeAfter(tracker, clock, s) = Open
                    /\ phase' = "select" /\ result' = result
                 \/ /\ OutcomeAfter(tracker, clock, s) # Open
                    /\ phase' = "done"
                    /\ result' = ResultOf(tracker', OutcomeAfter(tracker, clock, s))
  BY ObserveCases DEF PromiseInv
<1>3. phase # "done"
  BY DEF Observe
<1>4. CASE phase' = "done"
  BY <1>1, <1>4 DEF PromiseInv, CalmMeansOpen, WindowIsShort
<1>5. CASE phase' # "done"
  <2>1. OutcomeAfter(tracker, clock, s) = Open
    BY <1>2, <1>5
  <2>2. ~ ControllerFailed(s) /\ ~ Charged(tracker, clock, s).wedgedOut
    BY <2>1, OpenOutcome
  <2> DEFINE a == TrackerAfter(tracker, clock, s)
             same == Calm(tracker) /\ RestartCounts(s) = RestartCounts(tracker.lastSnap)
  <2>3. /\ a.lastObserve = clock
        /\ ~ Calm(a) => a.healthySince = Unset
        /\ Calm(a) /\ same => a.healthySince = tracker.healthySince
        /\ Calm(a) /\ ~ same => a.healthySince = clock
        /\ Calm(a) /\ same /\ clock - tracker.healthySince >= StableFor
             => OutcomeAfter(tracker, clock, s) = "settled"
    BY <1>2, <1>3, <2>1, <2>2, ObserveStreak
  <2>4. Calm(tracker) => tracker.healthySince # Unset
    BY <1>3 DEF PromiseInv, CalmMeansOpen
  <2>5. clock \in Nat /\ clock # Unset /\ tracker.healthySince \in Int
    BY DEF PromiseInv, WindowInv, TypeOK, Trackers, Times, Unset
  <2> HIDE DEF a, same
  <2>6. Open # "settled"
    BY DEF Open
  <2>7. tracker' = a
    BY <1>2 DEF a
  <2>8. Calm(a) => a.healthySince # Unset
    BY <2>3, <2>4, <2>5 DEF same
  <2>9. a.healthySince # Unset =>
           \/ a.lastObserve - a.healthySince < StableFor
           \/ a.lastObserve = a.healthySince
    BY <2>1, <2>3, <2>5, <2>6, OptionsAssumption
  <2>10. Calm(tracker') <=> Calm(a)
    BY <2>7
  <2>11. CalmMeansOpen'
    BY <2>7, <2>8, <2>10 DEF CalmMeansOpen, Calm
  <2>12. WindowIsShort'
    BY <2>7, <2>9 DEF WindowIsShort
  <2> QED
    BY <1>1, <2>11, <2>12 DEF PromiseInv
<1> QED
  BY <1>4, <1>5

\* Every step keeps the invariant.
LEMMA NextPromiseInv ==
    ASSUME PromiseInv, [Next]_vars
    PROVE  PromiseInv'
<1>1. WindowInv'
  BY NextWindowInv DEF PromiseInv
<1>2. CASE Observe
  BY <1>2, ObservePromiseInv
<1>3. CASE UNCHANGED vars
  BY <1>1, <1>3 DEF PromiseInv, CalmMeansOpen, WindowIsShort, Calm, vars
<1>4. CASE \/ PreflightPasses \/ PreflightFails \/ SyncCompletes \/ SyncFails
           \/ SnapshotFails \/ TickerFires \/ DeadlinePasses \/ Interrupted
  <2>1. UNCHANGED tracker /\ phase # "done"
    BY <1>4 DEF PreflightPasses, PreflightFails, SyncCompletes, SyncFails,
                SnapshotFails, TickerFires, DeadlinePasses, Interrupted
  <2> QED
    BY <1>1, <2>1, QuietPromise
<1> QED
  BY <1>2, <1>3, <1>4 DEF Next

\* The invariant holds throughout every watch.
LEMMA PromiseInvAlways == Spec => []PromiseInv
BY InitPromiseInv, NextPromiseInv, PTL DEF Spec

----------------------------------------------------------------------------
(* The refinement *)

\* The abstract picture of the pods is always a map of counts.
LEMMA HeldType ==
    ASSUME NEW t \in Trackers
    PROVE  RestartCounts(t.lastSnap) \in RestartMaps
BY CountsType DEF Trackers

\* A watch begins like the abstract observer.
LEMMA InitRefines == Init => Promise!Init
<1> SUFFICES ASSUME Init PROVE Promise!Init
  OBVIOUS
<1>1. tracker \in Trackers
  BY NewTrackerType DEF Init
<1>2. /\ tracker.lastSnap = NoSnapshot /\ tracker.lastObserve = Unset
      /\ tracker.healthySince = Unset
  BY DEF Init, NewTracker
<1>3. ~ HealthyNow(NoSnapshot)
  BY DEF HealthyNow, NoSnapshot
<1>4. VerdictGiven = "none"
  BY DEF Init, NoResult, VerdictGiven, Errors
<1>5. (HealthyNow(tracker.lastSnap) /\ ~ tracker.lastSnap.completionTerminal) = FALSE
  BY <1>2, <1>3
<1> QED
  BY <1>1, <1>2, <1>4, <1>5, HeldType DEF Init, Promise!Init

\* The verdict is open while Run has not returned.
LEMMA OpenVerdict ==
    ASSUME WindowInv, phase # "done"
    PROVE  VerdictGiven = "none"
BY DEF WindowInv, NotReturned, NoResult, VerdictGiven, Errors

\* The abstract observer's variables after a step that leaves the tracker alone.
LEMMA QuietView ==
    ASSUME UNCHANGED tracker
    PROVE  /\ tracker'.lastObserve = tracker.lastObserve
           /\ tracker'.healthySince = tracker.healthySince
           /\ RestartCounts(tracker'.lastSnap) = RestartCounts(tracker.lastSnap)
           /\ (HealthyNow(tracker'.lastSnap) /\ ~ tracker'.lastSnap.completionTerminal)
                = (HealthyNow(tracker.lastSnap) /\ ~ tracker.lastSnap.completionTerminal)
OBVIOUS

\* Time passes for the abstract observer.
LEMMA WaitRefines ==
    ASSUME PromiseInv, PreflightPasses \/ SyncCompletes \/ TickerFires
    PROVE  Promise!Wait
<1>1. phase # "done" /\ phase' # "done" /\ UNCHANGED tracker /\ UNCHANGED result
  BY DEF PreflightPasses, SyncCompletes, TickerFires
<1>2. WindowInv /\ WindowInv'
  BY NextWindowInv DEF PromiseInv, Next
<1>3. VerdictGiven = "none" /\ VerdictGiven' = "none"
  <2>1. VerdictGiven = "none"
    BY <1>1, <1>2, OpenVerdict
  <2>2. VerdictGiven' = VerdictGiven
    BY <1>1 DEF VerdictGiven
  <2> QED
    BY <2>1, <2>2
<1>4. clock' \in Nat /\ clock' >= clock
  <2>1. clock \in Nat /\ CallTimes \subseteq Nat /\ MaxGap \in Nat
    BY <1>2, WatchAssumption DEF WindowInv, TypeOK
  <2> QED
    BY <2>1 DEF PreflightPasses, SyncCompletes, TickerFires
<1> QED
  BY <1>1, <1>3, <1>4, QuietView, Zenon DEF Promise!Wait, Promise!Undecided

\* The abstract observer stops with an error, or gives up as the deadline says.
LEMMA ErrorRefines ==
    ASSUME PromiseInv,
           PreflightFails \/ SyncFails \/ SnapshotFails \/ Interrupted
    PROVE  Promise!Stop
<1>1. phase # "done" /\ UNCHANGED tracker
  BY DEF PreflightFails, SyncFails, SnapshotFails, Interrupted
<1>2. WindowInv
  BY DEF PromiseInv
<1>3. VerdictGiven = "none"
  BY <1>1, <1>2, OpenVerdict
<1>4. VerdictGiven' = "error"
  <2>1. result'.outcome \in Errors
    BY DEF PreflightFails, SyncFails, SnapshotFails, Interrupted, Fail, Return, Errors
  <2> QED
    BY <2>1 DEF VerdictGiven
<1>5. clock' \in Nat /\ clock' >= clock
  <2>1. clock \in Nat /\ CallTimes \subseteq Nat
    BY <1>2, WatchAssumption DEF WindowInv, TypeOK
  <2> QED
    BY <2>1 DEF PreflightFails, SyncFails, SnapshotFails, Interrupted
<1>6. RestartCounts(tracker'.lastSnap) \in RestartMaps
  BY <1>1, <1>2, HeldType DEF WindowInv, TypeOK
<1>7. (HealthyNow(tracker'.lastSnap) /\ ~ tracker'.lastSnap.completionTerminal) \in BOOLEAN
  OBVIOUS
<1> QED
  BY <1>1, <1>3, <1>4, <1>5, <1>6, <1>7 DEF Promise!Stop, Promise!Undecided

\* The deadline is a failure or, when no streak was held, giving up.
LEMMA DeadlineRefines ==
    ASSUME PromiseInv, DeadlinePasses
    PROVE  Promise!Stop \/ Promise!GiveUp
<1>1. phase = "select" /\ phase # "done" /\ UNCHANGED tracker
  BY DEF DeadlinePasses
<1>2. WindowInv /\ tracker \in Trackers /\ clock \in Nat /\ deadline \in Nat
  BY <1>1 DEF PromiseInv, WindowInv, TypeOK, LoopPhases
<1>3. VerdictGiven = "none"
  BY <1>1, <1>2, OpenVerdict
<1>4. clock' \in Nat /\ clock' >= clock
  BY <1>2 DEF DeadlinePasses
<1>5. RestartCounts(tracker'.lastSnap) \in RestartMaps
  BY <1>1, <1>2, HeldType
<1>6. result'.outcome = TimeoutVerdict(tracker)
  BY DEF DeadlinePasses, Fail, Return
<1>7. CASE TimeoutVerdict(tracker) = "failed"
  <2>1. VerdictGiven' = "failed"
    BY <1>6, <1>7 DEF VerdictGiven, Errors
  <2>2. Promise!Stop
    BY <1>1, <1>3, <1>4, <1>5, <2>1 DEF Promise!Stop, Promise!Undecided
  <2> QED
    BY <2>2
<1>8. CASE TimeoutVerdict(tracker) = "progressing"
  <2>1. VerdictGiven' = "progressing"
    BY <1>6, <1>8 DEF VerdictGiven, Errors
  <2>2. \/ ~ Calm(tracker)
        \/ ~ (tracker.lastObserve - tracker.healthySince >= StableFor)
        \/ tracker.healthySince = tracker.lastObserve
    <3>1. Calm(tracker) => tracker.healthySince # Unset
      BY <1>1 DEF PromiseInv, CalmMeansOpen
    <3>2. tracker.healthySince # Unset =>
             \/ tracker.lastObserve - tracker.healthySince < StableFor
             \/ tracker.lastObserve = tracker.healthySince
      BY <1>1 DEF PromiseInv, WindowIsShort
    <3>3. tracker.lastObserve \in Int /\ tracker.healthySince \in Int
      BY <1>2 DEF Trackers, Times, Unset
    <3> QED
      BY <3>1, <3>2, <3>3, OptionsAssumption
  <2>3. Promise!GiveUp
    BY <1>1, <1>3, <1>4, <2>1, <2>2, QuietView, Zenon
       DEF Promise!GiveUp, Promise!Undecided, Promise!HeldFor, Calm
  <2> QED
    BY <2>3
<1> QED
  BY <1>7, <1>8 DEF TimeoutVerdict

\* An evaluation is a look of the abstract observer when the streak decides,
\* and its stop when the controller, a pod out of patience or completion does.
LEMMA ObserveRefines ==
    ASSUME PromiseInv, Observe
    PROVE  Promise!Look \/ Promise!Stop
<1>1. PICK s \in Views[target] :
              /\ s \in Snapshots
              /\ Follows(tracker, s)
              /\ tracker' = TrackerAfter(tracker, clock, s)
              /\ hist' = HistoryAfter(hist, tracker, clock, s)
              /\ clock' = clock /\ deadline' = deadline
              /\ \/ /\ OutcomeAfter(tracker, clock, s) = Open
                    /\ phase' = "select" /\ result' = result
                 \/ /\ OutcomeAfter(tracker, clock, s) # Open
                    /\ phase' = "done"
                    /\ result' = ResultOf(tracker', OutcomeAfter(tracker, clock, s))
  BY ObserveCases DEF PromiseInv
<1>2. /\ phase # "done" /\ WindowInv
      /\ tracker \in Trackers /\ clock \in Nat /\ tracker.lastObserve <= clock
      /\ tracker' \in Trackers
  <2>1. TypeOK'
    BY ObserveType DEF PromiseInv
  <2> QED
    BY <2>1 DEF Observe, PromiseInv, WindowInv, TypeOK, TimeOrder
<1>3. VerdictGiven = "none"
  BY <1>2, OpenVerdict
<1>4. RestartCounts(tracker'.lastSnap) \in RestartMaps
  BY <1>2, HeldType
<1>5. /\ tracker'.lastSnap = s
      /\ tracker'.lastObserve \in {tracker.lastObserve, clock}
  <2>1. /\ TrackerAfter(tracker, clock, s).lastSnap = s
        /\ ~ ControllerFailed(s) => TrackerAfter(tracker, clock, s).lastObserve = clock
        /\ ControllerFailed(s) =>
              TrackerAfter(tracker, clock, s).lastObserve = tracker.lastObserve
    BY <1>1, <1>2, AfterFields
  <2> QED
    BY <1>1, <2>1
<1>6. CASE ControllerFailed(s) \/ Charged(tracker, clock, s).wedgedOut
  <2>1. OutcomeAfter(tracker, clock, s) = "failed"
    BY <1>6 DEF OutcomeAfter
  <2>2. VerdictGiven' = "failed"
    BY <1>1, <2>1 DEF VerdictGiven, ResultOf, Errors, Open
  <2>3. tracker'.healthySince = tracker.healthySince
    BY <1>1, <1>2, <1>6, AfterNoWindow
  <2>4. Promise!Stop
    BY <1>1, <1>2, <1>3, <1>4, <1>5, <2>2, <2>3 DEF Promise!Stop, Promise!Undecided
  <2> QED
    BY <2>4
<1>7. CASE /\ ~ ControllerFailed(s) /\ ~ Charged(tracker, clock, s).wedgedOut
           /\ s.completionTerminal /\ OutcomeAfter(tracker, clock, s) # Open
  <2>1. OutcomeAfter(tracker, clock, s) = "settled"
    BY <1>7 DEF OutcomeAfter
  <2>2. VerdictGiven' = "completed"
    BY <1>1, <1>5, <1>7, <2>1 DEF VerdictGiven, ResultOf, Errors
  <2>3. tracker'.healthySince = tracker.healthySince
    BY <1>1, <1>2, <1>7, AfterNoWindow
  <2>4. Promise!Stop
    BY <1>1, <1>2, <1>3, <1>4, <1>5, <2>2, <2>3 DEF Promise!Stop, Promise!Undecided
  <2> QED
    BY <2>4
<1>8. CASE /\ ~ ControllerFailed(s) /\ ~ Charged(tracker, clock, s).wedgedOut
           /\ s.completionTerminal => OutcomeAfter(tracker, clock, s) = Open
  <2> DEFINE same == Calm(tracker)
                       /\ RestartCounts(s) = RestartCounts(tracker.lastSnap)
  <2>1. /\ tracker'.lastObserve = clock
        /\ ~ Calm(tracker') => tracker'.healthySince = Unset
        /\ Calm(tracker') /\ same => tracker'.healthySince = tracker.healthySince
        /\ Calm(tracker') /\ ~ same => tracker'.healthySince = clock
        /\ Calm(tracker') /\ same /\ clock - tracker.healthySince >= StableFor
             => OutcomeAfter(tracker, clock, s) = "settled"
        /\ OutcomeAfter(tracker, clock, s) # Open =>
             /\ Calm(tracker') /\ same /\ clock - tracker.healthySince >= StableFor
             /\ OutcomeAfter(tracker, clock, s) = "settled"
    BY <1>1, <1>2, <1>8, ObserveStreak
  <2>2. same <=> /\ Calm(tracker)
                 /\ RestartCounts(tracker'.lastSnap) = RestartCounts(tracker.lastSnap)
    BY <1>5
  <2> HIDE DEF same
  <2>3. CASE OutcomeAfter(tracker, clock, s) = Open
    <3>1. VerdictGiven' = "none"
      BY <1>1, <1>3, <2>3, <1>2, OpenVerdict
         DEF VerdictGiven, WindowInv, NotReturned, NoResult, Errors
    <3>2. ~ (Calm(tracker') /\ same /\ clock - tracker.healthySince >= StableFor)
      BY <2>1, <2>3 DEF Open
    <3>3. Promise!Look
      BY <1>1, <1>3, <1>4, <2>1, <2>2, <3>1, <3>2, Zenon
         DEF Promise!Look, Promise!Undecided, Calm
    <3> QED
      BY <3>3
  <2>4. CASE OutcomeAfter(tracker, clock, s) # Open
    <3>1. /\ OutcomeAfter(tracker, clock, s) = "settled"
          /\ Calm(tracker') /\ same /\ clock - tracker.healthySince >= StableFor
      BY <2>1, <2>4
    <3>2. ~ s.completionTerminal
      BY <1>8, <2>4
    <3>3. VerdictGiven' = "settled"
      BY <1>1, <1>5, <2>4, <3>1, <3>2 DEF VerdictGiven, ResultOf, Errors
    <3>4. Promise!Look
      BY <1>1, <1>3, <1>4, <2>1, <2>2, <3>1, <3>3, Zenon
         DEF Promise!Look, Promise!Undecided, Calm
    <3> QED
      BY <3>4
  <2> QED
    BY <2>3, <2>4
<1> QED
  BY <1>6, <1>7, <1>8

\* Every step of a watch is a step of the abstract observer or changes nothing
\* it can see.
LEMMA NextRefines ==
    ASSUME PromiseInv, [Next]_vars
    PROVE  [Promise!Next]_(Promise!vars)
<1>1. CASE PreflightPasses \/ SyncCompletes \/ TickerFires
  BY <1>1, WaitRefines DEF Promise!Next
<1>2. CASE PreflightFails \/ SyncFails \/ SnapshotFails \/ Interrupted
  BY <1>2, ErrorRefines DEF Promise!Next
<1>3. CASE DeadlinePasses
  BY <1>3, DeadlineRefines DEF Promise!Next
<1>4. CASE Observe
  BY <1>4, ObserveRefines DEF Promise!Next
<1>5. CASE UNCHANGED vars
  <2>1. UNCHANGED tracker /\ VerdictGiven' = VerdictGiven /\ clock' = clock
    BY <1>5 DEF vars, VerdictGiven
  <2> QED
    BY <2>1, QuietView, Zenon DEF Promise!vars
<1> QED
  BY <1>1, <1>2, <1>3, <1>4, <1>5 DEF Next

\* A watch keeps the promise of Stability (tracker.observe, timeoutVerdict): it
\* says settled only of a target found healthy with the same pods and restart
\* counts at every evaluation over StableFor, and never gives up on such a one.
THEOREM PromiseKept == Spec => KeepsPromise
<1>1. Init => Promise!Init
  BY InitRefines
<1>2. PromiseInv /\ [Next]_vars => [Promise!Next]_(Promise!vars)
  BY NextRefines
<1> QED
  BY <1>1, <1>2, PromiseInvAlways, PTL DEF Spec, KeepsPromise, Promise!Spec

----------------------------------------------------------------------------
(* Exit 2 is earned: what a watch that ends as progressing had seen. *)


\* A restart that was seen to happen stays on record (noteRestarts).
RestartsRemembered == hist.restarted => tracker.restartObserved

ProgressInv == PromiseInv /\ RestartsRemembered /\ ProgressIsLegitimate

----------------------------------------------------------------------------
\* Before the first evaluation nothing has restarted and nothing is decided.
LEMMA InitProgressInv == Init => ProgressInv
<1> SUFFICES ASSUME Init PROVE ProgressInv
  OBVIOUS
<1>1. PromiseInv
  BY InitPromiseInv
<1>2. ~ hist.restarted
  BY DEF Init, NoHistory
<1>3. result.outcome # "progressing"
  BY DEF Init, NoResult
<1> QED
  BY <1>1, <1>2, <1>3 DEF ProgressInv, RestartsRemembered, ProgressIsLegitimate

\* A tracker that would say progressing has no wedged pod, and no restart on
\* record if its target settles by readiness.
LEMMA ProgressVerdict ==
    ASSUME NEW t, TimeoutVerdict(t) = "progressing"
    PROVE  /\ \A u \in t.lastSnap.current : ~ WedgeReason(t.lastSnap, u)
           /\ t.lastSnap.completionTerminal \/ ~ t.restartObserved
<1>1. ~ TerminalAtTimeout(t.lastSnap)
  BY DEF TimeoutVerdict
<1>2. ~ (~ t.lastSnap.completionTerminal /\ t.restartObserved)
  BY DEF TimeoutVerdict
<1>3. \A u \in t.lastSnap.current : ~ WedgeReason(t.lastSnap, u)
  BY <1>1 DEF TerminalAtTimeout, WedgeReason, TerminalPodReason
<1> QED
  BY <1>2, <1>3, Zenon

\* An evaluation records the restarts it sees and never says progressing.
LEMMA ObserveProgress ==
    ASSUME ProgressInv, Observe
    PROVE  ProgressInv'
<1>1. PromiseInv'
  BY ObservePromiseInv DEF ProgressInv
<1>2. PICK s \in Views[target] :
              /\ s \in Snapshots
              /\ tracker' = TrackerAfter(tracker, clock, s)
              /\ hist' = HistoryAfter(hist, tracker, clock, s)
              /\ \/ /\ OutcomeAfter(tracker, clock, s) = Open
                    /\ result' = result
                 \/ result' = ResultOf(tracker', OutcomeAfter(tracker, clock, s))
  BY ObserveCases DEF ProgressInv, PromiseInv
<1>3. /\ tracker \in Trackers /\ clock \in Nat /\ tracker.lastObserve <= clock
      /\ result = NoResult
  BY DEF ProgressInv, PromiseInv, WindowInv, TypeOK, TimeOrder, NotReturned, Observe, LoopPhases
<1>4. RestartsRemembered'
  <2>1. TrackerAfter(tracker, clock, s).restartObserved = Noted(tracker, s).restartObserved
    BY <1>2, <1>3, AfterFields
  <2>2. Noted(tracker, s).restartObserved
            = (tracker.restartObserved \/ RestartSeen(tracker.seen, s))
    BY <1>2, <1>3, NotedFields
  <2>3. HistoryAfter(hist, tracker, clock, s).restarted
            => hist.restarted \/ RestartSeen(tracker.seen, s)
    BY DEF HistoryAfter
  <2>4. hist.restarted => tracker.restartObserved
    BY DEF ProgressInv, RestartsRemembered
  <2>5. hist'.restarted => tracker'.restartObserved
    BY <1>2, <2>1, <2>2, <2>3, <2>4, Zenon
  <2> QED
    BY <2>5 DEF RestartsRemembered
<1>5. result'.outcome # "progressing"
  BY <1>2, <1>3, OutcomeType DEF ResultOf, NoResult, Open
<1> QED
  BY <1>1, <1>4, <1>5 DEF ProgressInv, ProgressIsLegitimate

\* The deadline says progressing only of a tracker that justifies it.
LEMMA DeadlineProgress ==
    ASSUME ProgressInv, DeadlinePasses
    PROVE  ProgressIsLegitimate'
<1>1. /\ tracker' = tracker /\ hist' = hist /\ phase # "done"
      /\ result'.outcome = TimeoutVerdict(tracker)
  BY DEF DeadlinePasses, Fail, Return
<1>2. SUFFICES ASSUME TimeoutVerdict(tracker) = "progressing" PROVE ProgressIsLegitimate'
  BY <1>1 DEF ProgressIsLegitimate
<1>3. /\ \A u \in tracker.lastSnap.current : ~ WedgeReason(tracker.lastSnap, u)
      /\ tracker.lastSnap.completionTerminal \/ ~ tracker.restartObserved
  BY <1>2, ProgressVerdict
<1>4. tracker.lastSnap.completionTerminal \/ ~ hist.restarted
  BY <1>3 DEF ProgressInv, RestartsRemembered
<1>5. tracker.healthySince # Unset =>
         \/ tracker.lastObserve - tracker.healthySince < StableFor
         \/ tracker.lastObserve = tracker.healthySince
  BY <1>1 DEF ProgressInv, PromiseInv, WindowIsShort
<1> QED
  BY <1>1, <1>3, <1>4, <1>5 DEF ProgressIsLegitimate

\* Every step keeps the invariant.
LEMMA NextProgressInv ==
    ASSUME ProgressInv, [Next]_vars
    PROVE  ProgressInv'
<1>1. PromiseInv'
  BY NextPromiseInv DEF ProgressInv
<1>2. CASE Observe
  BY <1>2, ObserveProgress
<1>3. CASE UNCHANGED vars
  BY <1>1, <1>3 DEF ProgressInv, RestartsRemembered, ProgressIsLegitimate, vars
<1>4. CASE DeadlinePasses
  <2>1. tracker' = tracker /\ hist' = hist
    BY <1>4 DEF DeadlinePasses
  <2> QED
    BY <1>1, <1>4, <2>1, DeadlineProgress DEF ProgressInv, RestartsRemembered
<1>5. CASE \/ PreflightPasses \/ PreflightFails \/ SyncCompletes \/ SyncFails
           \/ SnapshotFails \/ TickerFires \/ Interrupted
  <2>1. /\ tracker' = tracker /\ hist' = hist
        /\ result'.outcome = result.outcome \/ result'.outcome \in Errors
    BY <1>5 DEF PreflightPasses, PreflightFails, SyncCompletes, SyncFails,
                SnapshotFails, TickerFires, Interrupted, Fail, Return, Errors
  <2>2. result'.outcome = "progressing" => result.outcome = "progressing"
    BY <2>1 DEF Errors
  <2> QED
    BY <1>1, <2>1, <2>2 DEF ProgressInv, RestartsRemembered, ProgressIsLegitimate
<1> QED
  BY <1>2, <1>3, <1>4, <1>5 DEF Next

\* Exit 2 is only for legitimate progress (timeoutVerdict), for every target,
\* every timing and every option.
THEOREM ProgressCorrect == Spec => []ProgressIsLegitimate
<1>1. ProgressInv => ProgressIsLegitimate
  BY DEF ProgressInv
<1> QED
  BY <1>1, InitProgressInv, NextProgressInv, PTL DEF Spec
=============================================================================
