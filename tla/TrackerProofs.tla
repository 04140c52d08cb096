---------------------------- MODULE TrackerProofs ----------------------------
(***************************************************************************)
(* Facts about the operators of Tracker, for every set of pods, every      *)
(* window and every patience.                                              *)
(***************************************************************************)
EXTENDS Tracker, FiniteSetTheorems, TLAPS

\* Recording restarts keeps the tracker well formed and touches nothing but the
\* counts and the sticky flag (noteRestarts).
LEMMA NotedFields ==
    ASSUME NEW t \in Trackers, NEW s \in Snapshots
    PROVE  /\ Noted(t, s) \in Trackers
           /\ Noted(t, s).lastSnap = s
           /\ Noted(t, s).healthySince = t.healthySince
           /\ Noted(t, s).baseline = t.baseline
           /\ Noted(t, s).wedged = t.wedged
           /\ Noted(t, s).lastObserve = t.lastObserve
           /\ Noted(t, s).wedgedOut = t.wedgedOut
           /\ Noted(t, s).restartObserved = (t.restartObserved \/ RestartSeen(t.seen, s))
           /\ \A u \in Pods : Noted(t, s).seen[u] >= t.seen[u]
           /\ \A u \in s.current : Noted(t, s).seen[u] >= s.pod[u].restarts
<1>1. /\ s.current \subseteq Pods
      /\ \A u \in Pods : s.pod[u].restarts \in Nat
  BY DEF Snapshots, Pod
<1>2. t.seen \in [Pods -> Nat \union {Absent}] /\ t.restartObserved \in BOOLEAN
  BY DEF Trackers, RestartMaps
<1>3. RestartSeen(t.seen, s) \in BOOLEAN
  BY DEF RestartSeen
<1> DEFINE seen == [u \in Pods |->
                      IF u \in s.current /\ (t.seen[u] = Absent \/ s.pod[u].restarts > t.seen[u])
                      THEN s.pod[u].restarts ELSE t.seen[u]]
<1>4. seen \in [Pods -> Nat \union {Absent}]
  BY <1>1, <1>2
<1>5. Noted(t, s) = [t EXCEPT !.lastSnap = s,
                              !.restartObserved = t.restartObserved \/ RestartSeen(t.seen, s),
                              !.seen = seen]
  BY DEF Noted, NoteRestarts, Trackers
<1>6. \A u \in Pods : seen[u] >= t.seen[u]
  BY <1>1, <1>2 DEF Absent
<1>7. \A u \in s.current : seen[u] >= s.pod[u].restarts
  BY <1>1, <1>2 DEF Absent
<1> HIDE DEF seen
<1> QED
  BY <1>2, <1>3, <1>4, <1>5, <1>6, <1>7 DEF Trackers, RestartMaps

\* Advancing the wedged clocks keeps the tracker well formed, provided time has
\* not run backwards since the evaluation before (observeWedge).
LEMMA ChargeType ==
    ASSUME NEW t \in Trackers, NEW s \in Snapshots, NEW now \in Nat,
           t.lastObserve <= now
    PROVE  Charge(t, now, s) \in [Pods -> Nat]
<1>1. t.lastObserve \in Nat \union {Unset} /\ t.wedged \in [Pods -> Nat]
  BY DEF Trackers, Times
<1>2. (IF t.lastObserve = Unset THEN 0 ELSE now - t.lastObserve) \in Nat
  BY <1>1
<1> QED
  BY <1>1, <1>2 DEF Charge

\* observeWedge keeps the tracker well formed and touches nothing but the clocks.
LEMMA WedgeFields ==
    ASSUME NEW t \in Trackers, NEW s \in Snapshots, NEW now \in Nat,
           t.lastObserve <= now
    PROVE  /\ ObserveWedge(t, now, s) \in Trackers
           /\ ObserveWedge(t, now, s).lastSnap = t.lastSnap
           /\ ObserveWedge(t, now, s).healthySince = t.healthySince
           /\ ObserveWedge(t, now, s).baseline = t.baseline
           /\ ObserveWedge(t, now, s).seen = t.seen
           /\ ObserveWedge(t, now, s).restartObserved = t.restartObserved
           /\ ObserveWedge(t, now, s).lastObserve = now
           /\ WedgedFor = 0 => /\ ObserveWedge(t, now, s).wedged = t.wedged
                               /\ ObserveWedge(t, now, s).wedgedOut = t.wedgedOut
           /\ WedgedFor > 0 =>
                /\ ObserveWedge(t, now, s).wedged = Charge(t, now, s)
                /\ ObserveWedge(t, now, s).wedgedOut <=> Crosses(t, now, s)
<1>1. Charge(t, now, s) \in [Pods -> Nat]
  BY ChargeType
<1>2. Crosses(t, now, s) \in BOOLEAN
  BY DEF Crosses
<1>3. CASE WedgedFor = 0
  <2>1. ObserveWedge(t, now, s) = [t EXCEPT !.lastObserve = now]
    BY <1>3 DEF ObserveWedge
  <2> QED
    BY <1>3, <2>1 DEF Trackers, Times
<1>4. CASE WedgedFor > 0
  <2>1. ObserveWedge(t, now, s) = [t EXCEPT !.lastObserve = now,
                                           !.wedged = Charge(t, now, s),
                                           !.wedgedOut = Crosses(t, now, s)]
    BY <1>4, OptionsAssumption DEF ObserveWedge
  <2>2. WedgedFor # 0
    BY <1>4
  <2>3. CASE Crosses(t, now, s)
    <3>1. ObserveWedge(t, now, s) = [t EXCEPT !.lastObserve = now,
                                              !.wedged = Charge(t, now, s),
                                              !.wedgedOut = TRUE]
      BY <2>1, <2>3
    <3>2. /\ ObserveWedge(t, now, s) \in Trackers
          /\ ObserveWedge(t, now, s).lastSnap = t.lastSnap
          /\ ObserveWedge(t, now, s).healthySince = t.healthySince
          /\ ObserveWedge(t, now, s).baseline = t.baseline
          /\ ObserveWedge(t, now, s).seen = t.seen
          /\ ObserveWedge(t, now, s).restartObserved = t.restartObserved
          /\ ObserveWedge(t, now, s).lastObserve = now
          /\ ObserveWedge(t, now, s).wedged = Charge(t, now, s)
          /\ ObserveWedge(t, now, s).wedgedOut = TRUE
      BY <1>1, <3>1 DEF Trackers, Times
    <3> QED
      BY <2>2, <2>3, <3>2, Zenon
  <2>4. CASE ~ Crosses(t, now, s)
    <3>1. ObserveWedge(t, now, s) = [t EXCEPT !.lastObserve = now,
                                              !.wedged = Charge(t, now, s),
                                              !.wedgedOut = FALSE]
      BY <1>2, <2>1, <2>4
    <3>2. /\ ObserveWedge(t, now, s) \in Trackers
          /\ ObserveWedge(t, now, s).lastSnap = t.lastSnap
          /\ ObserveWedge(t, now, s).healthySince = t.healthySince
          /\ ObserveWedge(t, now, s).baseline = t.baseline
          /\ ObserveWedge(t, now, s).seen = t.seen
          /\ ObserveWedge(t, now, s).restartObserved = t.restartObserved
          /\ ObserveWedge(t, now, s).lastObserve = now
          /\ ObserveWedge(t, now, s).wedged = Charge(t, now, s)
          /\ ObserveWedge(t, now, s).wedgedOut = FALSE
      BY <1>1, <3>1 DEF Trackers, Times
    <3> QED
      BY <2>2, <2>4, <3>2, Zenon
  <2> QED
    BY <2>3, <2>4
<1> QED
  BY <1>3, <1>4, OptionsAssumption

\* Of two finite sets of the same size one of which contains the other, both
\* are the same: why comparing the lengths of the two maps and looking up every
\* current pod is enough to notice a pod that left (windowViolation).
LEMMA SameSize ==
    ASSUME NEW A, NEW B, IsFiniteSet(B), A \subseteq B,
           Cardinality(A) = Cardinality(B)
    PROVE  A = B
BY FS_Subset, FS_CardinalityType

\* An unviolated window means exactly the pods of the baseline, none of them
\* with a higher count.
LEMMA UnviolatedWindow ==
    ASSUME NEW b \in RestartMaps, NEW s \in Snapshots, ~ WindowViolation(b, s)
    PROVE  /\ s.current = {u \in Pods : b[u] # Absent}
           /\ \A u \in s.current : s.pod[u].restarts <= b[u]
<1> DEFINE members == {u \in Pods : b[u] # Absent}
<1>1. s.current \subseteq Pods /\ \A u \in Pods : s.pod[u].restarts \in Nat
  BY DEF Snapshots, Pod
<1>2. Cardinality(s.current) = Cardinality(members)
  BY DEF WindowViolation
<1>3. s.current \subseteq members
  BY <1>1 DEF WindowViolation
<1>4. IsFiniteSet(members)
  BY PodsAssumption, FS_Subset
<1>5. s.current = members
  <2> HIDE DEF members
  <2> QED
    BY <1>2, <1>3, <1>4, SameSize
<1>6. \A u \in s.current : s.pod[u].restarts <= b[u]
  <2>1. \A u \in s.current : ~ (s.pod[u].restarts > b[u])
    BY DEF WindowViolation
  <2>2. \A u \in Pods : b[u] \in Int
    BY DEF RestartMaps, Absent
  <2> QED
    BY <1>1, <2>1, <2>2
<1> QED
  BY <1>5, <1>6

\* The map restartCounts builds is a map of counts over exactly the current pods.
LEMMA CountsType ==
    ASSUME NEW s \in Snapshots
    PROVE  /\ RestartCounts(s) \in RestartMaps
           /\ {u \in Pods : RestartCounts(s)[u] # Absent} = s.current
<1>1. s.current \subseteq Pods /\ \A u \in Pods : s.pod[u].restarts \in Nat
  BY DEF Snapshots, Pod
<1> QED
  BY <1>1 DEF RestartCounts, RestartMaps, Absent

----------------------------------------------------------------------------
(* One evaluation *)

\* The wedged clocks do not depend on the restart counts just recorded.
LEMMA ChargeOfNoted ==
    ASSUME NEW t \in Trackers, NEW s \in Snapshots, NEW now \in Nat
    PROVE  /\ Charge(Noted(t, s), now, s) = Charge(t, now, s)
           /\ Crosses(Noted(t, s), now, s) <=> Crosses(t, now, s)
<1>1. /\ Noted(t, s).wedged = t.wedged
      /\ Noted(t, s).lastObserve = t.lastObserve
  BY NotedFields
<1>2. Charge(Noted(t, s), now, s) = Charge(t, now, s)
  BY <1>1 DEF Charge
<1> QED
  BY <1>2 DEF Crosses

\* What noteRestarts and observeWedge leave behind together.
LEMMA ChargedFields ==
    ASSUME NEW t \in Trackers, NEW s \in Snapshots, NEW now \in Nat,
           t.lastObserve <= now
    PROVE  /\ Charged(t, now, s) \in Trackers
           /\ Charged(t, now, s).lastSnap = s
           /\ Charged(t, now, s).healthySince = t.healthySince
           /\ Charged(t, now, s).baseline = t.baseline
           /\ Charged(t, now, s).seen = Noted(t, s).seen
           /\ Charged(t, now, s).restartObserved = Noted(t, s).restartObserved
           /\ Charged(t, now, s).lastObserve = now
           /\ WedgedFor = 0 => /\ Charged(t, now, s).wedged = t.wedged
                               /\ Charged(t, now, s).wedgedOut = t.wedgedOut
           /\ WedgedFor > 0 =>
                /\ Charged(t, now, s).wedged = Charge(t, now, s)
                /\ Charged(t, now, s).wedgedOut <=> Crosses(t, now, s)
<1>1. /\ Noted(t, s) \in Trackers
      /\ Noted(t, s).lastSnap = s
      /\ Noted(t, s).healthySince = t.healthySince
      /\ Noted(t, s).baseline = t.baseline
      /\ Noted(t, s).wedged = t.wedged
      /\ Noted(t, s).wedgedOut = t.wedgedOut
      /\ Noted(t, s).lastObserve <= now
  BY NotedFields
<1> DEFINE n == Noted(t, s)
<1>2. /\ ObserveWedge(n, now, s) \in Trackers
      /\ ObserveWedge(n, now, s).lastSnap = n.lastSnap
      /\ ObserveWedge(n, now, s).healthySince = n.healthySince
      /\ ObserveWedge(n, now, s).baseline = n.baseline
      /\ ObserveWedge(n, now, s).seen = n.seen
      /\ ObserveWedge(n, now, s).restartObserved = n.restartObserved
      /\ ObserveWedge(n, now, s).lastObserve = now
      /\ WedgedFor = 0 => /\ ObserveWedge(n, now, s).wedged = n.wedged
                          /\ ObserveWedge(n, now, s).wedgedOut = n.wedgedOut
      /\ WedgedFor > 0 =>
           /\ ObserveWedge(n, now, s).wedged = Charge(n, now, s)
           /\ ObserveWedge(n, now, s).wedgedOut <=> Crosses(n, now, s)
  <2> HIDE DEF n
  <2>1. n \in Trackers /\ n.lastObserve <= now
    BY <1>1 DEF n
  <2> QED
    BY <2>1, WedgeFields
<1>3. /\ Charge(n, now, s) = Charge(t, now, s)
      /\ Crosses(n, now, s) <=> Crosses(t, now, s)
  BY ChargeOfNoted
<1>4. Charged(t, now, s) = ObserveWedge(n, now, s)
  BY DEF Charged
<1> QED
  BY <1>1, <1>2, <1>3, <1>4, Zenon

\* The three ways the window goes: it closes, it holds, or it opens anew.
LEMMA HoldWindowFields ==
    ASSUME NEW t \in Trackers, NEW s \in Snapshots, NEW now \in Nat
    PROVE  /\ HoldWindow(t, now, s) \in Trackers
           /\ HoldWindow(t, now, s).lastSnap = t.lastSnap
           /\ HoldWindow(t, now, s).seen = t.seen
           /\ HoldWindow(t, now, s).restartObserved = t.restartObserved
           /\ HoldWindow(t, now, s).wedged = t.wedged
           /\ HoldWindow(t, now, s).lastObserve = t.lastObserve
           /\ HoldWindow(t, now, s).wedgedOut = t.wedgedOut
           /\ ~ HealthyNow(s) => HoldWindow(t, now, s).healthySince = Unset
           /\ WindowHolds(t, s) => HoldWindow(t, now, s) = t
           /\ HealthyNow(s) /\ ~ WindowHolds(t, s) =>
                /\ HoldWindow(t, now, s).healthySince = now
                /\ HoldWindow(t, now, s).baseline = RestartCounts(s)
<1>1. RestartCounts(s) \in RestartMaps
  BY CountsType
<1>2. NoCounts \in RestartMaps
  BY DEF NoCounts, RestartMaps, Absent
<1>3. CASE ~ HealthyNow(s)
  <2>1. HoldWindow(t, now, s) = [t EXCEPT !.healthySince = Unset, !.baseline = NoCounts]
    BY <1>3 DEF HoldWindow, CloseWindow
  <2>2. ~ WindowHolds(t, s)
    BY <1>3 DEF WindowHolds
  <2> QED
    BY <1>2, <1>3, <2>1, <2>2 DEF Trackers, Times
<1>4. CASE WindowHolds(t, s)
  BY <1>4 DEF HoldWindow, WindowHolds
<1>5. CASE HealthyNow(s) /\ ~ WindowHolds(t, s)
  <2>1. HoldWindow(t, now, s) = [t EXCEPT !.healthySince = now,
                                          !.baseline = RestartCounts(s)]
    BY <1>5 DEF HoldWindow, OpenWindow
  <2> QED
    BY <1>1, <1>5, <2>1 DEF Trackers, Times
<1> QED
  BY <1>3, <1>4, <1>5

\* An evaluation leaves a well formed tracker that remembers what it saw.
LEMMA AfterFields ==
    ASSUME NEW t \in Trackers, NEW s \in Snapshots, NEW now \in Nat,
           t.lastObserve <= now
    PROVE  /\ TrackerAfter(t, now, s) \in Trackers
           /\ TrackerAfter(t, now, s).lastSnap = s
           /\ TrackerAfter(t, now, s).seen = Noted(t, s).seen
           /\ TrackerAfter(t, now, s).restartObserved = Noted(t, s).restartObserved
           /\ ~ ControllerFailed(s) => TrackerAfter(t, now, s).lastObserve = now
           /\ ControllerFailed(s) => TrackerAfter(t, now, s).lastObserve = t.lastObserve
<1>1. CASE ControllerFailed(s)
  BY <1>1, NotedFields DEF TrackerAfter
<1> DEFINE c == Charged(t, now, s)
<1>2. /\ c \in Trackers
      /\ c.lastSnap = s
      /\ c.seen = Noted(t, s).seen
      /\ c.restartObserved = Noted(t, s).restartObserved
      /\ c.lastObserve = now
  BY ChargedFields
<1>3. CASE ~ ControllerFailed(s) /\ (c.wedgedOut \/ s.completionTerminal)
  <2>1. TrackerAfter(t, now, s) = c
    BY <1>3 DEF TrackerAfter
  <2> QED
    BY <1>2, <1>3, <2>1
<1>4. CASE ~ ControllerFailed(s) /\ ~ (c.wedgedOut \/ s.completionTerminal)
  <2>1. TrackerAfter(t, now, s) = HoldWindow(c, now, s)
    BY <1>4 DEF TrackerAfter
  <2> HIDE DEF c
  <2>2. /\ HoldWindow(c, now, s) \in Trackers
        /\ HoldWindow(c, now, s).lastSnap = c.lastSnap
        /\ HoldWindow(c, now, s).seen = c.seen
        /\ HoldWindow(c, now, s).restartObserved = c.restartObserved
        /\ HoldWindow(c, now, s).lastObserve = c.lastObserve
    BY <1>2, HoldWindowFields
  <2> QED
    BY <1>2, <1>4, <2>1, <2>2
<1> QED
  BY <1>1, <1>3, <1>4

\* The wedged clocks after an evaluation (observeWedge runs before the returns
\* for completion and for an unhealthy target, and neither touches them).
LEMMA AfterWedge ==
    ASSUME NEW t \in Trackers, NEW s \in Snapshots, NEW now \in Nat,
           t.lastObserve <= now, ~ ControllerFailed(s)
    PROVE  /\ TrackerAfter(t, now, s).wedged = Charged(t, now, s).wedged
           /\ TrackerAfter(t, now, s).wedgedOut = Charged(t, now, s).wedgedOut
<1> DEFINE c == Charged(t, now, s)
<1>1. c \in Trackers
  BY ChargedFields
<1>2. TrackerAfter(t, now, s) \in {c, HoldWindow(c, now, s)}
  BY DEF TrackerAfter
<1> HIDE DEF c
<1>3. HoldWindow(c, now, s).wedged = c.wedged
      /\ HoldWindow(c, now, s).wedgedOut = c.wedgedOut
  BY <1>1, HoldWindowFields
<1> QED
  BY <1>2, <1>3, Zenon DEF c

\* The window after an evaluation that neither fails nor completes.
LEMMA AfterWindow ==
    ASSUME NEW t \in Trackers, NEW s \in Snapshots, NEW now \in Nat,
           t.lastObserve <= now, ~ ControllerFailed(s),
           ~ Charged(t, now, s).wedgedOut, ~ s.completionTerminal
    PROVE  /\ ~ HealthyNow(s) => TrackerAfter(t, now, s).healthySince = Unset
           /\ WindowHolds(t, s) =>
                /\ TrackerAfter(t, now, s).healthySince = t.healthySince
                /\ TrackerAfter(t, now, s).baseline = t.baseline
           /\ HealthyNow(s) /\ ~ WindowHolds(t, s) =>
                /\ TrackerAfter(t, now, s).healthySince = now
                /\ TrackerAfter(t, now, s).baseline = RestartCounts(s)
<1> DEFINE c == Charged(t, now, s)
<1>1. /\ c \in Trackers
      /\ c.healthySince = t.healthySince
      /\ c.baseline = t.baseline
  BY ChargedFields
<1>2. TrackerAfter(t, now, s) = HoldWindow(c, now, s)
  BY DEF TrackerAfter
<1>3. WindowHolds(c, s) <=> WindowHolds(t, s)
  BY <1>1 DEF WindowHolds
<1> HIDE DEF c
<1>4. /\ ~ HealthyNow(s) => HoldWindow(c, now, s).healthySince = Unset
      /\ WindowHolds(c, s) => HoldWindow(c, now, s) = c
      /\ HealthyNow(s) /\ ~ WindowHolds(c, s) =>
           /\ HoldWindow(c, now, s).healthySince = now
           /\ HoldWindow(c, now, s).baseline = RestartCounts(s)
  BY <1>1, HoldWindowFields
<1> QED
  BY <1>1, <1>2, <1>3, <1>4, Zenon

\* The window of an evaluation that fails, or finds a Job unfinished or done,
\* is the window before it.
LEMMA AfterNoWindow ==
    ASSUME NEW t \in Trackers, NEW s \in Snapshots, NEW now \in Nat,
           t.lastObserve <= now,
           \/ ControllerFailed(s)
           \/ Charged(t, now, s).wedgedOut
           \/ s.completionTerminal
    PROVE  /\ TrackerAfter(t, now, s).healthySince = t.healthySince
           /\ TrackerAfter(t, now, s).baseline = t.baseline
<1>1. TrackerAfter(t, now, s) \in {Noted(t, s), Charged(t, now, s)}
  BY DEF TrackerAfter
<1> QED
  BY <1>1, NotedFields, ChargedFields

\* A tracker that has observed nothing is well formed.
LEMMA NewTrackerType == NewTracker \in Trackers
<1>1. NoCounts \in RestartMaps
  BY DEF NoCounts, RestartMaps, Absent
<1>2. NoPod \in Pod
  BY DEF NoPod, Pod, Phases
<1>3. NoSnapshot \in Snapshots
  BY <1>2 DEF NoSnapshot, Snapshots, KStatus
<1> QED
  BY <1>1, <1>3 DEF NewTracker, Trackers, Times

\* An evaluation leaves the watch open, settles or fails it, and never says progressing.
LEMMA OutcomeType ==
    ASSUME NEW t, NEW s, NEW now
    PROVE  OutcomeAfter(t, now, s) \in {Open, "settled", "failed"}
BY DEF OutcomeAfter, Open
=============================================================================
