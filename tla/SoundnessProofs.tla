-------------------------- MODULE SoundnessProofs --------------------------
(***************************************************************************)
(* Theorems that a verdict is sound.  EarlyExit: a watch that may give up  *)
(* early judges as one that may not, for every set of pods and views,      *)
(* every timeout, window and patience, and every spacing of the            *)
(* evaluations.  Rollout: what is found settled is settled and what has    *)
(* converged is found settled, for every kind, number of pods, sequence of *)
(* templates, lag, window and length of the watch.                         *)
(***************************************************************************)
EXTENDS EarlyExit, Rollout, TrackerProofs

----------------------------------------------------------------------------
(* EarlyExit *)


\* Two trackers that differ at most in the wedge bookkeeping.
Alike(a, b) == /\ a.healthySince = b.healthySince
               /\ a.baseline = b.baseline
               /\ a.seen = b.seen
               /\ a.restartObserved = b.restartObserved
               /\ a.lastObserve = b.lastObserve
               /\ a.lastSnap = b.lastSnap

\* The trackers never run ahead of the clock.
TimeOrder == eager.lastObserve <= clock /\ patient.lastObserve <= clock

\* Without WedgedFor nothing exits early, and with it the exit is the end.
ExitEnds == ~ patient.wedgedOut /\ (eager.wedgedOut => early # Open)

\* The trackers stay alike until an early exit.
AlikeUnlessEarly == ~ eager.wedgedOut => early = late /\ Alike(eager, patient)

\* The inductive invariant.
EarlyExitInv == TypeOK /\ TimeOrder /\ ExitEnds /\ AlikeUnlessEarly

----------------------------------------------------------------------------
\* Alike means equal apart from the wedge bookkeeping.
LEMMA AlikeApart ==
  ASSUME NEW a \in Trackers, NEW b \in Trackers, Alike(a, b)
  PROVE  Apart(a) = Apart(b)
BY DEF Alike, Apart, Trackers

\* Alike trackers note the same restarts (noteRestarts).
LEMMA AlikeNoted ==
  ASSUME NEW a \in Trackers, NEW b \in Trackers, NEW s \in Snapshots, Alike(a, b)
  PROVE  Alike(Noted(a, s), Noted(b, s))
<1>1. Noted(a, s).seen = Noted(b, s).seen
  BY DEF Alike, Noted, NoteRestarts, Trackers
<1> QED
  BY <1>1, NotedFields DEF Alike

\* Alike trackers treat their windows alike.
LEMMA AlikeWindow ==
  ASSUME NEW a \in Trackers, NEW b \in Trackers, NEW s \in Snapshots, NEW now \in Nat,
         Alike(a, b)
  PROVE  /\ WindowHolds(a, s) <=> WindowHolds(b, s)
         /\ Alike(HoldWindow(a, now, s), HoldWindow(b, now, s))
<1>1. WindowHolds(a, s) <=> WindowHolds(b, s)
  BY DEF Alike, WindowHolds
<1>2. HoldWindow(a, now, s).baseline = HoldWindow(b, now, s).baseline
  BY <1>1 DEF Alike, HoldWindow, CloseWindow, OpenWindow, Trackers
<1>3. HoldWindow(a, now, s).healthySince = HoldWindow(b, now, s).healthySince
  BY <1>1 DEF Alike, HoldWindow, CloseWindow, OpenWindow, Trackers
<1> QED
  BY <1>1, <1>2, <1>3, HoldWindowFields DEF Alike

\* The tracker with WedgedFor = 0 keeps the time and nothing else of a wedge.
LEMMA PatientAfter ==
  ASSUME NEW t \in Trackers, NEW s \in Snapshots, NEW now \in Nat, ~ t.wedgedOut
  PROVE  LET q == [Noted(t, s) EXCEPT !.lastObserve = now]
         IN  /\ Patiently!TrackerAfter(t, now, s) =
                   IF ControllerFailed(s) THEN Noted(t, s)
                   ELSE IF s.completionTerminal THEN q
                   ELSE HoldWindow(q, now, s)
             /\ Patiently!OutcomeAfter(t, now, s) =
                   IF ControllerFailed(s) THEN "failed"
                   ELSE IF s.completionTerminal
                        THEN IF s.kstatus = "Current" THEN "settled" ELSE Open
                   ELSE IF WindowHolds(t, s) /\ now - t.healthySince >= StableFor
                        THEN "settled" ELSE Open
<1> DEFINE q == [Noted(t, s) EXCEPT !.lastObserve = now]
<1>1. Patiently!Noted(t, s) = Noted(t, s)
  BY DEF Patiently!Noted, Patiently!NoteRestarts, Patiently!RestartSeen,
         Noted, NoteRestarts, RestartSeen, Patiently!Absent, Absent
<1>2. Patiently!Charged(t, now, s) = q
  BY <1>1 DEF Patiently!Charged, Patiently!ObserveWedge
<1>3. ~ q.wedgedOut
  BY NotedFields DEF Trackers
<1>4. Patiently!ControllerFailed(s) <=> ControllerFailed(s)
  BY DEF Patiently!ControllerFailed, ControllerFailed
<1>5. Patiently!HealthyNow(s) <=> HealthyNow(s)
  BY DEF Patiently!HealthyNow, HealthyNow, Patiently!TerminalPodReason, TerminalPodReason,
         Patiently!TerminalWaitingReason, TerminalWaitingReason,
         Patiently!PodReady, PodReady
<1>6. ASSUME NEW x PROVE Patiently!WindowHolds(x, s) <=> WindowHolds(x, s)
  <2>1. Patiently!WindowViolation(x.baseline, s) <=> WindowViolation(x.baseline, s)
    BY Zenon DEF Patiently!WindowViolation, WindowViolation, Patiently!Cardinality,
                 Cardinality, Patiently!Absent, Absent
  <2> QED
    BY <1>5, <2>1 DEF Patiently!WindowHolds, WindowHolds, Patiently!Unset, Unset
<1>7. Patiently!HoldWindow(q, now, s) = HoldWindow(q, now, s)
  <2>1. Patiently!CloseWindow(q) = CloseWindow(q)
    BY DEF Patiently!CloseWindow, CloseWindow, Patiently!NoCounts, NoCounts,
           Patiently!Unset, Unset, Patiently!Absent, Absent
  <2>2. Patiently!OpenWindow(q, now, s) = OpenWindow(q, now, s)
    BY DEF Patiently!OpenWindow, OpenWindow, Patiently!RestartCounts, RestartCounts,
           Patiently!Absent, Absent
  <2> HIDE DEF q
  <2> QED
    BY <1>5, <1>6, <2>1, <2>2 DEF Patiently!HoldWindow, HoldWindow
<1>8. Patiently!TrackerAfter(t, now, s) =
        IF ControllerFailed(s) THEN Noted(t, s)
        ELSE IF s.completionTerminal THEN q ELSE HoldWindow(q, now, s)
  <2> HIDE DEF q
  <2> QED
    BY <1>1, <1>2, <1>3, <1>4, <1>7 DEF Patiently!TrackerAfter
<1>9. Patiently!OutcomeAfter(t, now, s) =
        IF ControllerFailed(s) THEN "failed"
        ELSE IF s.completionTerminal
             THEN IF s.kstatus = "Current" THEN "settled" ELSE Open
        ELSE IF WindowHolds(t, s) /\ now - t.healthySince >= StableFor
             THEN "settled" ELSE Open
  <2> HIDE DEF q
  <2> QED
    BY <1>2, <1>3, <1>4, <1>6 DEF Patiently!OutcomeAfter, Patiently!Open, Open
<1> QED
  BY <1>8, <1>9

\* The patient tracker is well formed after an evaluation and has not exited.
LEMMA PatientType ==
  ASSUME NEW t \in Trackers, NEW s \in Snapshots, NEW now \in Nat, ~ t.wedgedOut,
         t.lastObserve <= now
  PROVE  /\ Patiently!TrackerAfter(t, now, s) \in Trackers
         /\ ~ Patiently!TrackerAfter(t, now, s).wedgedOut
         /\ Patiently!TrackerAfter(t, now, s).lastObserve <= now
         /\ Patiently!OutcomeAfter(t, now, s) \in {Open, "settled", "failed"}
<1> DEFINE q == [Noted(t, s) EXCEPT !.lastObserve = now]
<1>1. /\ Noted(t, s) \in Trackers /\ ~ Noted(t, s).wedgedOut
      /\ Noted(t, s).lastObserve = t.lastObserve
  BY NotedFields
<1>2. q \in Trackers /\ ~ q.wedgedOut /\ q.lastObserve = now
  BY <1>1 DEF Trackers, Times
<1> HIDE DEF q
<1>3. /\ HoldWindow(q, now, s) \in Trackers
      /\ ~ HoldWindow(q, now, s).wedgedOut
      /\ HoldWindow(q, now, s).lastObserve = now
  BY <1>2, HoldWindowFields
<1>4. Patiently!TrackerAfter(t, now, s) \in {Noted(t, s), q, HoldWindow(q, now, s)}
  BY PatientAfter DEF q
<1>5. Patiently!OutcomeAfter(t, now, s) \in {Open, "settled", "failed"}
  BY PatientAfter
<1> QED
  BY <1>1, <1>2, <1>3, <1>4, <1>5

\* The heart: from alike trackers one evaluation makes alike trackers and one
\* verdict, unless it crosses WedgedFor (tracker.observe).
LEMMA AlikeAfter ==
  ASSUME NEW a \in Trackers, NEW b \in Trackers, NEW s \in Snapshots, NEW now \in Nat,
         Alike(a, b), a.lastObserve <= now, ~ a.wedgedOut, ~ b.wedgedOut,
         ~ TrackerAfter(a, now, s).wedgedOut
  PROVE  /\ Alike(TrackerAfter(a, now, s), Patiently!TrackerAfter(b, now, s))
         /\ OutcomeAfter(a, now, s) = Patiently!OutcomeAfter(b, now, s)
<1> DEFINE c == Charged(a, now, s)
           q == [Noted(b, s) EXCEPT !.lastObserve = now]
<1>1. Alike(Noted(a, s), Noted(b, s))
  BY AlikeNoted
<1>2. /\ c \in Trackers /\ c.lastSnap = s /\ c.healthySince = a.healthySince
      /\ c.baseline = a.baseline /\ c.seen = Noted(a, s).seen
      /\ c.restartObserved = Noted(a, s).restartObserved /\ c.lastObserve = now
  BY ChargedFields
<1>3. /\ Noted(b, s) \in Trackers /\ Noted(b, s).lastSnap = s
      /\ Noted(b, s).healthySince = b.healthySince /\ Noted(b, s).baseline = b.baseline
  BY NotedFields
<1>4. /\ q \in Trackers /\ q.lastSnap = s /\ q.healthySince = b.healthySince
      /\ q.baseline = b.baseline /\ q.seen = Noted(b, s).seen
      /\ q.restartObserved = Noted(b, s).restartObserved /\ q.lastObserve = now
  BY <1>3 DEF Trackers, Times
<1>5. Alike(c, q)
  <2> HIDE DEF c, q
  <2> QED
    BY <1>1, <1>2, <1>4 DEF Alike
<1>6. WindowHolds(a, s) <=> WindowHolds(b, s)
  BY AlikeWindow
<1>7. CASE ControllerFailed(s)
  <2>1. TrackerAfter(a, now, s) = Noted(a, s) /\ OutcomeAfter(a, now, s) = "failed"
    BY <1>7 DEF TrackerAfter, OutcomeAfter
  <2>2. /\ Patiently!TrackerAfter(b, now, s) = Noted(b, s)
        /\ Patiently!OutcomeAfter(b, now, s) = "failed"
    BY <1>7, PatientAfter
  <2> QED
    BY <1>1, <2>1, <2>2
<1>8. CASE ~ ControllerFailed(s)
  <2>1. ~ c.wedgedOut
    BY <1>8, AfterWedge
  <2>2. TrackerAfter(a, now, s) = IF s.completionTerminal THEN c ELSE HoldWindow(c, now, s)
    BY <1>8, <2>1 DEF TrackerAfter
  <2>3. Patiently!TrackerAfter(b, now, s) =
          IF s.completionTerminal THEN q ELSE HoldWindow(q, now, s)
    BY <1>8, PatientAfter
  <2>4. Alike(HoldWindow(c, now, s), HoldWindow(q, now, s))
    <3> HIDE DEF c, q
    <3> QED
      BY <1>2, <1>4, <1>5, AlikeWindow
  <2>5. Alike(TrackerAfter(a, now, s), Patiently!TrackerAfter(b, now, s))
    <3> HIDE DEF c, q
    <3> QED
      BY <1>5, <2>2, <2>3, <2>4
  <2>6. OutcomeAfter(a, now, s) =
          IF s.completionTerminal
          THEN IF s.kstatus = "Current" THEN "settled" ELSE Open
          ELSE IF WindowHolds(a, s) /\ now - a.healthySince >= StableFor
               THEN "settled" ELSE Open
    BY <1>8, <2>1 DEF OutcomeAfter
  <2>7. Patiently!OutcomeAfter(b, now, s) =
          IF s.completionTerminal
          THEN IF s.kstatus = "Current" THEN "settled" ELSE Open
          ELSE IF WindowHolds(b, s) /\ now - b.healthySince >= StableFor
               THEN "settled" ELSE Open
    BY <1>8, PatientAfter
  <2>8. a.healthySince = b.healthySince
    BY DEF Alike
  <2> QED
    BY <1>6, <2>5, <2>6, <2>7, <2>8
<1> QED
  BY <1>7, <1>8

\* An evaluation that exits early is final.
LEMMA ExitIsFinal ==
  ASSUME NEW t \in Trackers, NEW s \in Snapshots, NEW now \in Nat, t.lastObserve <= now,
         ~ t.wedgedOut, TrackerAfter(t, now, s).wedgedOut
  PROVE  OutcomeAfter(t, now, s) = "failed"
<1>1. CASE ControllerFailed(s)
  BY <1>1 DEF OutcomeAfter
<1>2. CASE ~ ControllerFailed(s)
  BY <1>2, AfterWedge DEF OutcomeAfter
<1> QED
  BY <1>1, <1>2

\* Two trackers that have seen nothing are alike.
LEMMA InitEarlyExitInv == Init => EarlyExitInv
<1> SUFFICES ASSUME Init PROVE EarlyExitInv
  OBVIOUS
<1>1. eager \in Trackers /\ patient \in Trackers /\ eager = patient
  BY NewTrackerType DEF Init
<1>2. ~ eager.wedgedOut /\ ~ patient.wedgedOut /\ eager.lastObserve = Unset
  BY DEF Init, NewTracker
<1>3. TypeOK
  BY <1>1 DEF Init, TypeOK, Verdicts
<1>4. TimeOrder
  BY <1>1, <1>2 DEF Init, TimeOrder, Unset
<1> QED
  BY <1>1, <1>2, <1>3, <1>4 DEF Init, EarlyExitInv, ExitEnds, AlikeUnlessEarly, Alike

\* One evaluation.
LEMMA ObserveStep ==
  ASSUME EarlyExitInv, Observe PROVE EarlyExitInv'
<1>1. PICK d \in 1 .. MaxGap : clock' = clock + d
  BY DEF Observe
<1>2. PICK s \in Views : EagerObserves(s) /\ PatientObserves(s)
  BY DEF Observe
<1>3. /\ s \in Snapshots /\ clock' \in Nat /\ clock <= clock' /\ late = Open
      /\ eager \in Trackers /\ patient \in Trackers
      /\ eager.lastObserve \in Int /\ patient.lastObserve \in Int
      /\ early \in Verdicts
  BY <1>1, EarlyExitAssumption DEF EarlyExitInv, TypeOK, Observe, Trackers, Times, Unset
<1>4. eager.lastObserve <= clock' /\ patient.lastObserve <= clock'
  BY <1>1, <1>3 DEF EarlyExitInv, TimeOrder, TypeOK
<1>5. ~ patient.wedgedOut /\ (eager.wedgedOut => early # Open)
  BY DEF EarlyExitInv, ExitEnds
<1>6. /\ patient' = Patiently!TrackerAfter(patient, clock', s)
      /\ late' = Patiently!OutcomeAfter(patient, clock', s)
  BY <1>2 DEF PatientObserves
<1>7. /\ patient' \in Trackers /\ ~ patient'.wedgedOut
      /\ patient'.lastObserve <= clock' /\ late' \in {Open, "settled", "failed"}
  BY <1>3, <1>4, <1>5, <1>6, PatientType
<1>8. late' \in Verdicts
  BY <1>7 DEF Verdicts, Outcomes
<1>9. CASE early # Open
  <2>1. UNCHANGED <<eager, early>>
    BY <1>2, <1>9 DEF EagerObserves
  <2>2. eager.wedgedOut
    BY <1>3, <1>9 DEF EarlyExitInv, AlikeUnlessEarly
  <2> QED
    BY <1>3, <1>4, <1>7, <1>8, <1>9, <2>1, <2>2
       DEF EarlyExitInv, TypeOK, TimeOrder, ExitEnds, AlikeUnlessEarly
<1>10. CASE early = Open
  <2>1. /\ eager' = TrackerAfter(eager, clock', s)
        /\ early' = OutcomeAfter(eager, clock', s)
    BY <1>2, <1>10 DEF EagerObserves
  <2>2. ~ eager.wedgedOut /\ Alike(eager, patient)
    BY <1>5, <1>10 DEF EarlyExitInv, AlikeUnlessEarly
  <2>3. /\ eager' \in Trackers
        /\ eager'.lastObserve = clock' \/ eager'.lastObserve = eager.lastObserve
    BY <1>3, <1>4, <2>1, AfterFields
  <2>4. early' \in Verdicts
    BY <2>1, OutcomeType DEF Verdicts, Outcomes
  <2>5. eager'.wedgedOut => early' = "failed"
    BY <1>3, <1>4, <2>1, <2>2, ExitIsFinal
  <2>6. ~ eager'.wedgedOut => early' = late' /\ Alike(eager', patient')
    BY <1>3, <1>4, <1>5, <1>6, <2>1, <2>2, AlikeAfter
  <2>7. TypeOK'
    BY <1>3, <1>7, <1>8, <2>3, <2>4 DEF TypeOK
  <2>8. TimeOrder'
    BY <1>3, <1>4, <1>7, <2>3 DEF TimeOrder
  <2>9. ExitEnds'
    BY <1>7, <2>5 DEF ExitEnds, Open
  <2>10. AlikeUnlessEarly'
    BY <2>6 DEF AlikeUnlessEarly
  <2> QED
    BY <2>7, <2>8, <2>9, <2>10 DEF EarlyExitInv
<1> QED
  BY <1>9, <1>10

\* The deadline.
LEMMA DeadlineStep ==
  ASSUME EarlyExitInv, DeadlinePasses PROVE EarlyExitInv'
<1>1. /\ late = Open
      /\ late' = Patiently!TimeoutVerdict(patient)
      /\ early' = IF early = Open THEN TimeoutVerdict(eager) ELSE early
      /\ UNCHANGED <<clock, eager, patient>>
  BY DEF DeadlinePasses
<1>2. Patiently!TimeoutVerdict(patient) = TimeoutVerdict(patient)
  BY DEF Patiently!TimeoutVerdict, TimeoutVerdict, Patiently!TerminalAtTimeout,
         TerminalAtTimeout, Patiently!TerminalWaitingReason, TerminalWaitingReason
<1>3. TimeoutVerdict(patient) \in Outcomes /\ TimeoutVerdict(eager) \in Outcomes
  BY DEF TimeoutVerdict, Outcomes
<1>4. Alike(eager, patient) => TimeoutVerdict(eager) = TimeoutVerdict(patient)
  BY DEF Alike, TimeoutVerdict
<1>5. TypeOK' /\ TimeOrder'
  BY <1>1, <1>2, <1>3 DEF EarlyExitInv, TypeOK, TimeOrder, Verdicts
<1>6. early' # Open
  BY <1>1, <1>3 DEF Outcomes, Open
<1>7. ExitEnds'
  BY <1>1, <1>6 DEF EarlyExitInv, ExitEnds
<1>8. AlikeUnlessEarly'
  <2> SUFFICES ASSUME ~ eager'.wedgedOut PROVE early' = late' /\ Alike(eager', patient')
    BY DEF AlikeUnlessEarly
  <2>1. early = Open /\ Alike(eager, patient)
    BY <1>1 DEF EarlyExitInv, AlikeUnlessEarly
  <2> QED
    BY <1>1, <1>2, <1>4, <2>1
<1> QED
  BY <1>5, <1>7, <1>8 DEF EarlyExitInv

\* The invariant of every reachable state.
LEMMA EarlyExitInvAlways == Spec => []EarlyExitInv
<1>1. ASSUME EarlyExitInv, [Next]_vars PROVE EarlyExitInv'
  <2>1. CASE UNCHANGED vars
    BY <1>1, <2>1 DEF vars, EarlyExitInv, TypeOK, TimeOrder, ExitEnds, AlikeUnlessEarly, Alike
  <2> QED
    BY <1>1, <2>1, ObserveStep, DeadlineStep DEF Next
<1> QED
  BY <1>1, InitEarlyExitInv, PTL DEF Spec

\* Both trackers and both verdicts keep their types.
THEOREM EarlyExitTypeCorrect == Spec => []TypeOK
<1>1. EarlyExitInv => TypeOK
  BY DEF EarlyExitInv
<1> QED
  BY <1>1, EarlyExitInvAlways, PTL

\* WedgedFor changes nothing but whether a watch exits early: until it does,
\* verdict, windows and restart records are those of a run without it (Options.WedgedFor,
\* observeWedge), for every patience and whatever is observed when.
THEOREM SameUnlessEarlyCorrect == Spec => []SameUnlessEarly
<1>1. EarlyExitInv => SameUnlessEarly
  <2> SUFFICES ASSUME EarlyExitInv, ~ eager.wedgedOut
               PROVE  early = late /\ Apart(eager) = Apart(patient)
    BY DEF SameUnlessEarly
  <2>1. early = late /\ Alike(eager, patient) /\ eager \in Trackers /\ patient \in Trackers
    BY DEF EarlyExitInv, AlikeUnlessEarly, TypeOK
  <2> QED
    BY <2>1, AlikeApart
<1> QED
  BY <1>1, EarlyExitInvAlways, PTL

----------------------------------------------------------------------------
(* The early verdict stands unless the pod recovers *)

\* What the late verdict says of the last snapshot it was drawn from.
LateFits ==
    LET s == patient.lastSnap
    IN  /\ late = "settled" /\ ~ s.completionTerminal => HealthyNow(s)
        /\ late = "progressing" => ~ TerminalAtTimeout(s)

\* An evaluation judges the snapshot it leaves behind (observe).
LEMMA PatientJudges ==
  ASSUME NEW t \in Trackers, NEW s \in Snapshots, NEW now \in Nat, ~ t.wedgedOut
  PROVE  /\ Patiently!TrackerAfter(t, now, s).lastSnap = s
         /\ Patiently!OutcomeAfter(t, now, s) = "settled" /\ ~ s.completionTerminal
               => HealthyNow(s)
<1> DEFINE q == [Noted(t, s) EXCEPT !.lastObserve = now]
<1>1. Noted(t, s) \in Trackers /\ Noted(t, s).lastSnap = s
  BY NotedFields
<1>2. q \in Trackers /\ q.lastSnap = s
  BY <1>1 DEF Trackers, Times
<1>3. HoldWindow(q, now, s).lastSnap = s
  <2> HIDE DEF q
  <2> QED
    BY <1>2, HoldWindowFields
<1>4. Patiently!TrackerAfter(t, now, s).lastSnap = s
  <2>1. Patiently!TrackerAfter(t, now, s) \in {Noted(t, s), q, HoldWindow(q, now, s)}
    BY PatientAfter
  <2> HIDE DEF q
  <2> QED
    BY <1>1, <1>2, <1>3, <2>1
<1>5. Patiently!OutcomeAfter(t, now, s) = "settled" /\ ~ s.completionTerminal => WindowHolds(t, s)
  BY PatientAfter DEF Open
<1> QED
  BY <1>4, <1>5 DEF WindowHolds

\* No step makes the late verdict disagree with the snapshot.
LEMMA LateFitsStep ==
  ASSUME EarlyExitInv, LateFits, [Next]_vars PROVE LateFits'
<1>1. CASE Observe
  <2>1. PICK s \in Views : PatientObserves(s)
    BY <1>1 DEF Observe
  <2>2. s \in Snapshots /\ patient \in Trackers /\ ~ patient.wedgedOut
    BY EarlyExitAssumption DEF EarlyExitInv, TypeOK, ExitEnds
  <2>3. clock' \in Nat
    BY <1>1, EarlyExitAssumption DEF Observe, EarlyExitInv, TypeOK
  <2>4. patient.lastObserve <= clock'
    BY <1>1, EarlyExitAssumption
       DEF Observe, EarlyExitInv, TimeOrder, TypeOK, Trackers, Times, Unset
  <2>5. /\ patient'.lastSnap = s
        /\ late' = "settled" /\ ~ s.completionTerminal => HealthyNow(s)
    BY <2>1, <2>2, <2>3, PatientJudges DEF PatientObserves
  <2>6. late' # "progressing"
    BY <2>1, <2>2, <2>3, <2>4, PatientType DEF PatientObserves, Open
  <2>7. LateFits' = ( /\ late' = "settled" /\ ~ patient'.lastSnap.completionTerminal
                            => HealthyNow(patient'.lastSnap)
                      /\ late' = "progressing" => ~ TerminalAtTimeout(patient'.lastSnap) )
    BY DEF LateFits
  <2> QED
    BY <2>5, <2>6, <2>7
<1>2. CASE DeadlinePasses
  <2>1. late' = Patiently!TimeoutVerdict(patient) /\ patient' = patient
    BY <1>2 DEF DeadlinePasses
  <2>2. Patiently!TimeoutVerdict(patient) = TimeoutVerdict(patient)
    BY DEF Patiently!TimeoutVerdict, TimeoutVerdict, Patiently!TerminalAtTimeout,
           TerminalAtTimeout, Patiently!TerminalWaitingReason, TerminalWaitingReason
  <2> QED
    BY <2>1, <2>2 DEF LateFits, TimeoutVerdict
<1>3. CASE UNCHANGED vars
  BY <1>3 DEF vars, LateFits
<1> QED
  BY <1>1, <1>2, <1>3 DEF Next

\* An early failure of a target that settles by readiness is what the deadline
\* would have said, if the condemned pod is still there and still in trouble
\* when the watch without WedgedFor ends (observeWedge: "anything failed here
\* would have been failed at the deadline anyway").
THEOREM CondemnedUnlessRecoveredCorrect == Spec => []CondemnedUnlessRecovered
<1>1. Init => LateFits
  BY DEF Init, LateFits, Open
<1>2. EarlyExitInv /\ LateFits => CondemnedUnlessRecovered
  <2> SUFFICES ASSUME EarlyExitInv, LateFits, ~ patient.lastSnap.completionTerminal, late # Open,
                      NEW u \in patient.lastSnap.current, WedgeReason(patient.lastSnap, u)
               PROVE  late = "failed"
    BY DEF CondemnedUnlessRecovered
  <2> DEFINE s == patient.lastSnap
  <2>1. TerminalPodReason(s.pod[u])
    BY DEF WedgeReason
  <2>2. ~ HealthyNow(s) /\ TerminalAtTimeout(s)
    BY <2>1 DEF HealthyNow, TerminalAtTimeout, TerminalPodReason
  <2>3. late \in {"settled", "progressing", "failed"}
    BY DEF EarlyExitInv, TypeOK, Verdicts, Outcomes
  <2> QED
    BY <2>2, <2>3 DEF LateFits
<1> QED
  BY <1>1, <1>2, EarlyExitInvAlways, LateFitsStep, PTL DEF Spec

----------------------------------------------------------------------------
(* Rollout: types and steps *)

\* What owners and hashes are called.
Labels == {Templates[g] : g \in Generations} \union {"other", "theirs", "target", "drift"}

Workloads == [generation : Generations, observed : Generations,
              complete : BOOLEAN, updateRevision : Labels]

RevisionObjects == [uid : Labels, hash : Labels, owner : {"target"},
                    revision : Nat, created : Nat]

PodObjects == [there : {TRUE}, owner : Labels, hash : Labels,
               ready : BOOLEAN, terminating : BOOLEAN]

PodMaps == [Pods -> PodObjects \union {Gone}]

Clusters == [workload : Workloads, revisions : SUBSET RevisionObjects, pods : PodMaps,
             age : [Pods -> 0 .. StartUp], unused : SUBSET Pods]

Caches == [workload : Workloads, revisions : SUBSET RevisionObjects, pods : PodMaps]

RolloutType ==
    /\ kind \in Kinds
    /\ cluster \in Clusters
    /\ cache \in Caches
    /\ behind \in [Parts -> 0 .. Lag]
    /\ time \in Nat /\ due \in BOOLEAN
    /\ tracker \in Trackers
    /\ tracker.lastObserve <= time /\ tracker.healthySince <= time /\ ~ tracker.wedgedOut
    /\ \A u \in Pods : tracker.baseline[u] \in {0, Absent}
    /\ outcome \in {Open, "settled"}
    /\ good \in [Generations -> 0 .. GoodCap]
    /\ calm \in 0 .. CalmCap

SamePods == cluster'.pods = cluster.pods /\ cluster'.age = cluster.age /\ cluster'.unused = cluster.unused

EditStep ==
    /\ cluster' \in Clusters /\ SamePods /\ cluster'.revisions = cluster.revisions
    /\ cluster'.workload.observed = cluster.workload.observed
    /\ cluster'.workload.complete = cluster.workload.complete
    /\ cluster'.workload.updateRevision = cluster.workload.updateRevision
    /\ cluster'.workload.generation = cluster.workload.generation + 1

ReconcileStep ==
    LET g == cluster.workload.generation
        t == Templates[g]
    IN  /\ cluster' \in Clusters /\ SamePods
        /\ cluster'.workload.generation = g
        /\ cluster'.workload.observed = g
        /\ ~ cluster'.workload.complete
        /\ cluster'.workload.updateRevision = t
        /\ \E born \in Nat : cluster'.revisions = {r \in cluster.revisions : r.uid # t}
                                                    \union {RevisionObject(t, g, born)}

DriftStep ==
    /\ cluster' \in Clusters /\ SamePods /\ cluster'.workload = cluster.workload
    /\ kind = "DaemonSet"
    /\ cluster'.revisions = cluster.revisions \union {RevisionObject("drift", Len(Templates) + 1, 9)}

PodStep ==
    /\ cluster' \in Clusters
    /\ cluster'.workload = cluster.workload /\ cluster'.revisions = cluster.revisions

NewPod == PodObject(OwnerOf(cluster.workload.updateRevision), cluster.workload.updateRevision)

BirthStep(u) ==
    /\ PodStep
    /\ u \in cluster.unused
    /\ cluster'.pods = [cluster.pods EXCEPT ![u] = NewPod]
    /\ cluster'.age = [cluster.age EXCEPT ![u] = 0]
    /\ cluster'.unused = cluster.unused \ {u}

FlipStep(u) ==
    /\ PodStep
    /\ u \in Own(cluster.pods) /\ cluster.age[u] = StartUp
    /\ cluster'.pods = [cluster.pods EXCEPT ![u] = [@ EXCEPT !.ready = ~ cluster.pods[u].ready]]
    /\ cluster'.age = cluster.age /\ cluster'.unused = cluster.unused

TerminateStep(u) ==
    /\ PodStep
    /\ u \in Own(cluster.pods)
    /\ cluster.pods[u].hash # cluster.workload.updateRevision
    /\ cluster'.pods = [cluster.pods EXCEPT ![u] = [@ EXCEPT !.terminating = TRUE]]
    /\ cluster'.age = cluster.age /\ cluster'.unused = cluster.unused

GoneStep(u) ==
    /\ PodStep
    /\ u \in Own(cluster.pods) /\ cluster.pods[u].terminating
    /\ cluster'.pods = [cluster.pods EXCEPT ![u] = Gone]
    /\ cluster'.age = cluster.age /\ cluster'.unused = cluster.unused

SiblingStep ==
    /\ PodStep
    /\ cluster.pods[Sibling].there
    /\ \E o \in AnySibling : cluster'.pods = [cluster.pods EXCEPT ![Sibling] = o]
    /\ cluster'.age = cluster.age /\ cluster'.unused = cluster.unused

Alive(P, u) == P[u].there /\ ~ P[u].terminating

PublishStep ==
    /\ cluster' \in Clusters /\ SamePods /\ cluster'.revisions = cluster.revisions
    /\ cluster'.workload.generation = cluster.workload.generation
    /\ cluster'.workload.observed = cluster.workload.observed
    /\ cluster'.workload.updateRevision = cluster.workload.updateRevision
    /\ cluster'.workload.complete =>
        /\ \E u \in Own(cluster.pods) : Alive(cluster.pods, u)
        /\ \A u \in Own(cluster.pods) : Alive(cluster.pods, u) =>
            cluster.pods[u].hash = cluster.workload.updateRevision /\ cluster.pods[u].ready

\* What the assumptions on the constants of Rollout amount to.
LEMMA RolloutParameters ==
    /\ Lag \in Nat /\ StartUp \in Nat /\ StartUp = Lag + 1
    /\ Len(Templates) \in Nat \ {0} /\ Generations = 1 .. Len(Templates)
    /\ 1 \in Generations
    /\ \A g \in Generations : Templates[g] \in Labels /\ Templates[g] # "other" /\ Templates[g] # "drift"
                                /\ Templates[g] # Split!NoHash
    /\ Sibling \in Pods
    /\ \A k \in Kinds : SiblingStates[k] \subseteq AnySibling
    /\ GoodCap \in Nat /\ CalmCap \in Nat /\ StableFor \in Nat
    /\ GoodCap = Lag + 1 /\ CalmCap = Lag + StableFor + 1
    /\ {"other", "theirs", "target", "drift"} \subseteq Labels
<1>1. \A k \in Kinds : SiblingStates[k] \subseteq AnySibling
  BY SiblingAssumption
<1> QED
  BY <1>1, RolloutAssumption, OptionsAssumption
     DEF StartUp, Generations, GoodCap, CalmCap, Labels

\* The sibling is another workload's pod, or nothing.
LEMMA SiblingFields ==
    ASSUME NEW o \in AnySibling
    PROVE  /\ o \in PodObjects \union {Gone}
           /\ o.there => o.owner = "other"
<1>1. CASE o = Gone
  BY <1>1 DEF Gone
<1>2. \A r, t \in BOOLEAN : Theirs(r, t) \in PodObjects /\ Theirs(r, t).owner = "other"
  BY RolloutParameters DEF Theirs, PodObject, PodObjects
<1>3. o = Gone \/ \E r, t \in BOOLEAN : o = Theirs(r, t)
  BY DEF AnySibling
<1> QED
  BY <1>1, <1>2, <1>3

\* A pod map has of every UID a pod or nothing.
LEMMA PodMapFields ==
    ASSUME NEW P \in PodMaps, NEW u \in Pods
    PROVE  /\ P[u].there \in BOOLEAN
           /\ ~ P[u].there => P[u] = Gone
           /\ P[u].there => P[u] \in PodObjects
           /\ u \in Existing(P) <=> P[u].there
           /\ u \in Own(P) <=> P[u].there /\ u # Sibling
<1>1. P[u] \in PodObjects \union {Gone}
  BY DEF PodMaps
<1>2. CASE P[u] \in PodObjects
  BY <1>2 DEF PodObjects, Existing, Own
<1>3. CASE P[u] = Gone
  BY <1>3 DEF Gone, Existing, Own
<1> QED
  BY <1>1, <1>2, <1>3

\* An edit raises the workload's generation and nothing else.
LEMMA EditIsStep ==
    ASSUME RolloutType, cluster' \in Edited(cluster)
    PROVE  EditStep
<1> DEFINE w == [cluster.workload EXCEPT !.generation = cluster.workload.generation + 1]
<1>1. cluster \in Clusters /\ cluster.workload \in Workloads
  BY DEF RolloutType, Clusters
<1>2. cluster' = [cluster EXCEPT !.workload = w]
  BY DEF Edited
<1>a. cluster.workload.generation < Len(Templates)
  BY DEF Edited
<1>3. w \in Workloads
  <2>1. cluster.workload.generation + 1 \in Generations
    BY <1>1, <1>a, RolloutParameters DEF Workloads
  <2> QED BY <1>1, <2>1 DEF Workloads
<1>4. cluster' \in Clusters /\ cluster'.workload = w /\ SamePods /\ cluster'.revisions = cluster.revisions
  BY <1>1, <1>2, <1>3 DEF Clusters, SamePods
<1>5. /\ w.observed = cluster.workload.observed
      /\ w.complete = cluster.workload.complete
      /\ w.updateRevision = cluster.workload.updateRevision
      /\ w.generation = cluster.workload.generation + 1
  BY <1>1 DEF Workloads
<1> QED BY <1>4, <1>5 DEF EditStep

\* The controller observes the generation and numbers its revision object.
LEMMA ReconcileIsStep ==
    ASSUME RolloutType, cluster' \in Reconciled(cluster)
    PROVE  ReconcileStep
<1> DEFINE g == cluster.workload.generation
           t == Templates[g]
           w == [cluster.workload EXCEPT !.observed = g, !.complete = FALSE, !.updateRevision = t]
           born == IF t \in Names(cluster.revisions)
                   THEN (CHOOSE r \in cluster.revisions : r.uid = t).created ELSE g
           R == {r \in cluster.revisions : r.uid # t} \union {RevisionObject(t, g, born)}
<1>1. cluster \in Clusters /\ cluster.workload \in Workloads /\ cluster.revisions \subseteq RevisionObjects
  BY DEF RolloutType, Clusters
<1>2. cluster' = [cluster EXCEPT !.revisions = R, !.workload = w]
  BY Zenon DEF Reconciled
<1>3. g \in Generations /\ g \in Nat /\ t \in Labels
  BY <1>1, RolloutParameters DEF Workloads, Labels
<1>8. w \in Workloads
  BY <1>1, <1>3 DEF Workloads
<1>4. born \in Nat
  BY <1>1, <1>3 DEF Names, RevisionObjects
<1>9. cluster' = [cluster EXCEPT !.revisions = R, !.workload = w]
  BY <1>2
<1> HIDE DEF born
<1>b. RevisionObject(t, g, born) \in RevisionObjects
  BY <1>3, <1>4, RolloutParameters DEF RevisionObject, RevisionObjects
<1>5. R \subseteq RevisionObjects
  BY <1>1, <1>b
<1> HIDE DEF t, w
<1>6. cluster' \in Clusters /\ cluster'.workload = w /\ SamePods /\ cluster'.revisions = R
  BY Zenon, <1>1, <1>9, <1>8, <1>5 DEF Clusters, SamePods
<1> USE DEF t, w
<1>7. /\ w.observed = g
      /\ ~ w.complete
      /\ w.updateRevision = t
      /\ w.generation = g
  BY <1>1 DEF Workloads
<1> QED BY <1>4, <1>6, <1>7 DEF ReconcileStep

\* A drift of the control plane adds a revision object and nothing else.
LEMMA DriftIsStep ==
    ASSUME RolloutType, cluster' \in Drifted(cluster)
    PROVE  DriftStep
<1> DEFINE d == RevisionObject("drift", Len(Templates) + 1, 9)
<1>1. cluster \in Clusters
  BY DEF RolloutType
<1>2. kind = "DaemonSet" /\ cluster' = [cluster EXCEPT !.revisions = cluster.revisions \union {d}]
  BY DEF Drifted
<1>3. d \in RevisionObjects
  BY RolloutParameters DEF RevisionObject, RevisionObjects
<1> QED BY <1>1, <1>2, <1>3 DEF DriftStep, Clusters, SamePods

\* What the controller publishes as complete is complete.
LEMMA PublishIsStep ==
    ASSUME RolloutType, cluster' \in Published(cluster)
    PROVE  PublishStep
<1> DEFINE alive == {u \in Own(cluster.pods) : ~ cluster.pods[u].terminating}
           b == /\ alive # {}
                /\ \A u \in alive : cluster.pods[u].hash = cluster.workload.updateRevision /\ cluster.pods[u].ready
           w == [cluster.workload EXCEPT !.complete = b]
<1>1. cluster \in Clusters /\ cluster.workload \in Workloads /\ cluster.pods \in PodMaps
  BY DEF RolloutType, Clusters
<1>2. cluster' = [cluster EXCEPT !.workload = w]
  BY DEF Published
<1>3. b \in BOOLEAN
  OBVIOUS
<1>4. b => /\ \E u \in Own(cluster.pods) : Alive(cluster.pods, u)
           /\ \A u \in Own(cluster.pods) : Alive(cluster.pods, u) =>
                 cluster.pods[u].hash = cluster.workload.updateRevision /\ cluster.pods[u].ready
  BY DEF Alive, Own, Existing
<1> HIDE DEF b
<1>5. /\ w \in Workloads
      /\ w.observed = cluster.workload.observed
      /\ w.complete = b
      /\ w.updateRevision = cluster.workload.updateRevision
      /\ w.generation = cluster.workload.generation
  BY <1>1, <1>3 DEF Workloads
<1>6. cluster' \in Clusters /\ cluster'.workload = w /\ SamePods /\ cluster'.revisions = cluster.revisions
  BY <1>1, <1>2, <1>5 DEF Clusters, SamePods
<1> HIDE DEF w
<1>7. cluster'.workload = w /\ cluster'.workload.complete = b
  BY <1>5, <1>6
<1>8. cluster'.workload.complete =>
        /\ \E u \in Own(cluster.pods) : Alive(cluster.pods, u)
        /\ \A u \in Own(cluster.pods) : Alive(cluster.pods, u) =>
              cluster.pods[u].hash = cluster.workload.updateRevision /\ cluster.pods[u].ready
  BY <1>4, <1>7
<1> QED BY <1>5, <1>6, <1>7, <1>8 DEF PublishStep

\* A move of the pods is the birth, the flip, the end or the removal of one.
LEMMA PodIsStep ==
    ASSUME RolloutType, cluster' \in PodsMoved(cluster)
    PROVE  \E u \in Pods : BirthStep(u) \/ FlipStep(u) \/ TerminateStep(u) \/ GoneStep(u)
<1>1. cluster \in Clusters /\ cluster.pods \in PodMaps /\ cluster.age \in [Pods -> 0 .. StartUp]
      /\ cluster.unused \subseteq Pods /\ cluster.workload \in Workloads
  BY DEF RolloutType, Clusters
<1>2. \A u \in Own(cluster.pods) : u \in Pods /\ cluster.pods[u] \in PodObjects
  BY <1>1, PodMapFields DEF Own, Existing
<1>3. ASSUME NEW u \in cluster.unused,
             cluster' = [cluster EXCEPT !.pods[u] = NewPod, !.age[u] = 0, !.unused = cluster.unused \ {u}]
      PROVE  BirthStep(u)
  <2>1. NewPod \in PodObjects
    BY <1>1, RolloutParameters DEF NewPod, PodObject, PodObjects, OwnerOf, Workloads
  <2>2. /\ [cluster.pods EXCEPT ![u] = NewPod] \in PodMaps
        /\ [cluster.age EXCEPT ![u] = 0] \in [Pods -> 0 .. StartUp]
    BY <1>1, <2>1, RolloutParameters DEF PodMaps
  <2> HIDE DEF NewPod
  <2> QED BY <1>1, <1>3, <2>2 DEF BirthStep, PodStep, Clusters
<1>4. ASSUME NEW u \in Own(cluster.pods), NEW o \in PodObjects \union {Gone},
             cluster' = [cluster EXCEPT !.pods[u] = o]
      PROVE  /\ PodStep
             /\ cluster'.pods = [cluster.pods EXCEPT ![u] = o]
             /\ cluster'.age = cluster.age /\ cluster'.unused = cluster.unused
  <2>1. u \in Pods /\ [cluster.pods EXCEPT ![u] = o] \in PodMaps
    BY <1>1, <1>2 DEF PodMaps
  <2> QED BY <1>1, <1>4, <2>1 DEF PodStep, Clusters
<1>5. ASSUME NEW u \in Own(cluster.pods), cluster.age[u] = StartUp,
             cluster' = [cluster EXCEPT !.pods[u].ready = ~ cluster.pods[u].ready]
      PROVE  FlipStep(u)
  <2> DEFINE o == [cluster.pods[u] EXCEPT !.ready = ~ cluster.pods[u].ready]
  <2>a. o \in PodObjects
    BY <1>2 DEF PodObjects
  <2>1. cluster' = [cluster EXCEPT !.pods[u] = o] /\ o \in PodObjects
    BY <2>a, <1>5
  <2> QED BY <1>2, <1>4, <1>5, <2>1 DEF FlipStep
<1>6. ASSUME NEW u \in Own(cluster.pods), cluster.pods[u].hash # cluster.workload.updateRevision,
             cluster' = [cluster EXCEPT !.pods[u].terminating = TRUE]
      PROVE  TerminateStep(u)
  <2> DEFINE o == [cluster.pods[u] EXCEPT !.terminating = TRUE]
  <2>a. o \in PodObjects
    BY <1>2 DEF PodObjects
  <2>1. cluster' = [cluster EXCEPT !.pods[u] = o] /\ o \in PodObjects
    BY Zenon, <2>a, <1>6
  <2> QED BY <1>2, <1>4, <1>6, <2>1 DEF TerminateStep
<1>7. ASSUME NEW u \in Own(cluster.pods), cluster.pods[u].terminating,
             cluster' = [cluster EXCEPT !.pods[u] = Gone]
      PROVE  GoneStep(u)
  BY <1>4, <1>7 DEF GoneStep
<1>8. \/ \E u \in cluster.unused :
            cluster' = [cluster EXCEPT !.pods[u] = NewPod, !.age[u] = 0, !.unused = cluster.unused \ {u}]
      \/ \E u \in Own(cluster.pods) : /\ cluster.age[u] = StartUp
            /\ cluster' = [cluster EXCEPT !.pods[u].ready = ~ cluster.pods[u].ready]
      \/ \E u \in Own(cluster.pods) : /\ cluster.pods[u].hash # cluster.workload.updateRevision
            /\ cluster' = [cluster EXCEPT !.pods[u].terminating = TRUE]
      \/ \E u \in Own(cluster.pods) : /\ cluster.pods[u].terminating
            /\ cluster' = [cluster EXCEPT !.pods[u] = Gone]
  BY Zenon DEF PodsMoved, NewPod
<1>9. ASSUME NEW u \in cluster.unused PROVE u \in Pods
  BY <1>1, <1>9
<1>10. ASSUME NEW u \in Own(cluster.pods) PROVE u \in Pods
  BY <1>2, <1>10
<1> HIDE DEF NewPod
<1>11. ASSUME NEW u \in cluster.unused,
              cluster' = [cluster EXCEPT !.pods[u] = NewPod, !.age[u] = 0, !.unused = cluster.unused \ {u}]
       PROVE  \E v \in Pods : BirthStep(v)
  BY Zenon, <1>3, <1>9, <1>11
<1>12. ASSUME NEW u \in Own(cluster.pods),
              FlipStep(u) \/ TerminateStep(u) \/ GoneStep(u)
       PROVE  \E v \in Pods : FlipStep(v) \/ TerminateStep(v) \/ GoneStep(v)
  BY <1>10, <1>12
<1> QED BY Zenon, <1>5, <1>6, <1>7, <1>8, <1>11, <1>12

\* What the sibling does changes nothing else.
LEMMA SiblingIsStep ==
    ASSUME RolloutType, cluster' \in SiblingMoved(cluster)
    PROVE  SiblingStep
<1>1. cluster \in Clusters /\ cluster.pods \in PodMaps /\ kind \in Kinds
  BY DEF RolloutType, Clusters
<1>2. /\ cluster.pods[Sibling].there
      /\ \E o \in SiblingStates[kind] : cluster' = [cluster EXCEPT !.pods[Sibling] = o]
  BY Zenon DEF SiblingMoved
<1>3. PICK o \in AnySibling : cluster' = [cluster EXCEPT !.pods[Sibling] = o]
  BY <1>1, <1>2, RolloutParameters
<1>4. o \in PodObjects \union {Gone}
  BY SiblingFields
<1> DEFINE P == [cluster.pods EXCEPT ![Sibling] = o]
<1>5. P \in PodMaps
  BY <1>1, <1>4 DEF PodMaps
<1>6. cluster' = [cluster EXCEPT !.pods = P]
  BY <1>3
<1> HIDE DEF P
<1>7. /\ cluster' \in Clusters /\ cluster'.pods = P
      /\ cluster'.workload = cluster.workload /\ cluster'.revisions = cluster.revisions
      /\ cluster'.age = cluster.age /\ cluster'.unused = cluster.unused
  BY <1>1, <1>5, <1>6 DEF Clusters
<1> QED
  BY <1>2, <1>7 DEF SiblingStep, PodStep, P

----------------------------------------------------------------------------
(* Snapshots *)

KindNames == {"Deployment", "StatefulSet", "DaemonSet", "Operator", "Argo", "Legacy"}

\* The names a pod's owner may have to be found by the split.
Belongs(c, u) ==
    /\ u \in Own(c.pods)
    /\ c.pods[u].owner = OwnerOf(c.pods[u].hash)
    /\ c.pods[u].hash \in Names(c.revisions)

\* No pod that belongs to the workload is lost.
SplitOK(c, split) ==
    /\ split.current \subseteq Existing(c.pods) /\ split.old \subseteq Existing(c.pods)
    /\ \A u \in Own(c.pods) : Belongs(c, u) => u \in split.current \union split.old

\* splitDeploymentPods loses no pod whose ReplicaSet is in the cache.
LEMMA DeploymentSplit ==
    ASSUME kind = "Deployment", NEW c \in Caches, \A r \in c.revisions : r.owner = "target",
           NEW split \in Splits(c)
    PROVE  SplitOK(c, split)
<1> DEFINE S == Existing(c.pods)
           owned == {r \in c.revisions : r.owner = "target"}
           ours == {u \in S : ~ Split!ForeignPod(c.pods[u], {r.uid : r \in owned})}
<1>1. split \in Split!SplitDeployment("target", c.revisions, S, c.pods)
  BY DEF Splits, Customs, PublishedForm
<1>2. owned = {} => split = Split!AllOld(S)
  BY <1>1 DEF Split!SplitDeployment
<1>3. owned # {} => \E r \in owned : split = [current |-> {u \in ours : c.pods[u].owner = r.uid},
                                             old |-> {u \in ours : c.pods[u].owner # r.uid}]
  BY <1>1 DEF Split!SplitDeployment, Split!NewestReplicaSets
<1>4. \A u \in Own(c.pods) : Belongs(c, u) => u \in ours
  BY DEF Belongs, OwnerOf, Names, Own, Split!ForeignPod
<1>5. CASE owned = {}
  BY <1>2, <1>5 DEF SplitOK, Split!AllOld, Own
<1>6. CASE owned # {}
  <2> HIDE DEF ours, owned
  <2>1. PICK r \in owned : split = [current |-> {u \in ours : c.pods[u].owner = r.uid},
                                    old |-> {u \in ours : c.pods[u].owner # r.uid}]
    BY <1>3, <1>6
  <2>2. /\ split.current = {u \in ours : c.pods[u].owner = r.uid}
        /\ split.old = {u \in ours : c.pods[u].owner # r.uid}
    BY <2>1
  <2>3. ours \subseteq S
    BY DEF ours
  <2> QED BY <1>4, <2>2, <2>3 DEF SplitOK
<1> QED BY <1>5, <1>6

\* splitByHash loses no pod the workload owns.
LEMMA HashSplit ==
    ASSUME NEW c \in Caches, NEW hash, kind \in {"StatefulSet", "DaemonSet"},
           NEW split, split = Split!SplitByHash("target", hash, Existing(c.pods), c.pods)
    PROVE  SplitOK(c, split)
BY DEF Split!SplitByHash, Split!ForeignPod, SplitOK, Belongs, OwnerOf, Own

\* A split that calls every pod old loses none.
LEMMA AllOldSplit ==
    ASSUME NEW c \in Caches, NEW split, split = Split!AllOld(Existing(c.pods))
    PROVE  SplitOK(c, split)
BY DEF Split!AllOld, SplitOK, Own

\* splitStatefulSetPods loses no pod the workload owns.
LEMMA StatefulSetSplit ==
    ASSUME kind = "StatefulSet", NEW c \in Caches, NEW split \in Splits(c)
    PROVE  SplitOK(c, split)
<1> DEFINE S == Existing(c.pods)
           sts == [uid |-> "target", updateRevision |-> c.workload.updateRevision]
<1>1. split = Split!SplitStatefulSet(sts, S, c.pods)
  BY DEF Splits, Customs, PublishedForm
<1>2. \/ split = Split!AllOld(S)
      \/ split = Split!SplitByHash("target", c.workload.updateRevision, S, c.pods)
  BY <1>1 DEF Split!SplitStatefulSet
<1> QED BY <1>2, HashSplit, AllOldSplit

\* splitDaemonSetPods loses no pod the workload owns, on either of its paths.
LEMMA DaemonSetSplit ==
    ASSUME kind = "DaemonSet", NEW c \in Caches, NEW split \in Splits(c)
    PROVE  SplitOK(c, split)
<1> DEFINE S == Existing(c.pods)
           ds == Ds(c.workload)
<1>1. split \in Split!SplitDaemonSet(ds, c.revisions, S, c.pods)
  BY DEF Splits, Customs, PublishedForm
<1>2. ds.uid = "target"
  BY DEF Ds
<1> HIDE DEF ds
<1>3. CASE Split!DsConverged(ds)
  <2>1. split = [current |-> {u \in S : ~ Split!ForeignPod(c.pods[u], {ds.uid})}, old |-> {}]
    BY <1>1, <1>3 DEF Split!SplitDaemonSet
  <2> QED BY <1>2, <2>1 DEF SplitOK, Belongs, OwnerOf, Own, Split!ForeignPod
<1>4. CASE ~ Split!DsConverged(ds)
  <2>1. \/ split = Split!AllOld(S)
        \/ \E r \in c.revisions : split = Split!SplitByHash(ds.uid, r.hash, S, c.pods)
    BY <1>1, <1>4 DEF Split!SplitDaemonSet, Split!NewestRevisions
  <2> QED BY <1>2, <2>1, HashSplit, AllOldSplit
<1> QED BY <1>3, <1>4

\* The pods of a custom resource (ownedPods) are all it owns and the cache can tell.
LEMMA CustomSplit ==
    ASSUME kind \in {"Operator", "Argo", "Legacy"}, NEW c \in Caches,
           \A r \in c.revisions : r.owner = "target", NEW split \in Splits(c)
    PROVE  SplitOK(c, split)
<1> DEFINE S == Existing(c.pods)
           mine == Dynamic!OwnedPods([uid |-> "target", selects |-> kind \in Selecting], c.revisions, S, c.pods)
<1>1. split = [current |-> mine, old |-> {}]
  BY DEF Splits, Customs, PublishedForm
<1>2. mine \subseteq S
  BY DEF Dynamic!OwnedPods
<1>3. ASSUME NEW u \in Own(c.pods), Belongs(c, u)
      PROVE  u \in mine
  <2>1. u \in S
    BY DEF Own
  <2>2. CASE kind = "Argo"
    BY <2>1, <2>2 DEF Dynamic!OwnedPods, Selecting
  <2>3. CASE kind = "Operator"
    BY <1>3, <2>1, <2>3 DEF Dynamic!OwnedPods, Belongs, OwnerOf
  <2>4. CASE kind = "Legacy"
    BY <1>3, <2>1, <2>4 DEF Dynamic!OwnedPods, Belongs, OwnerOf, Names
  <2> QED BY <2>2, <2>3, <2>4
<1> HIDE DEF mine
<1> QED BY <1>1, <1>2, <1>3 DEF SplitOK

\* Whatever the kind, the split puts every pod that belongs to the workload on one of its sides.
LEMMA SplitFacts ==
    ASSUME kind \in Kinds, NEW c \in Caches, \A r \in c.revisions : r.owner = "target",
           NEW split \in Splits(c)
    PROVE  SplitOK(c, split)
BY RolloutAssumption, DeploymentSplit, StatefulSetSplit, DaemonSetSplit, CustomSplit

\* What a snapshot says of each pod it calls current.
PodsSeen(c, s) ==
    \A u \in s.current : /\ c.pods[u].there
                         /\ s.pod[u].ready <=> c.pods[u].ready
                         /\ s.pod[u].terminating <=> c.pods[u].terminating

\* The status of a workload that rolls out is never Failed.
LEMMA StatusType ==
    ASSUME NEW w \in Workloads
    PROVE  StatusOf(w) \in {"Current", "InProgress"}
BY DEF StatusOf, Dynamic!ResourceStatus, Dynamic!Compute

\* A pod of a rollout never is in a terminal state.
LEMMA ShapeType ==
    ASSUME NEW P \in PodMaps, NEW u \in Pods
    PROVE  /\ Shape(P[u]) \in Pod
           /\ Shape(P[u]).restarts = 0
           /\ ~ TerminalPodReason(Shape(P[u]))
           /\ P[u].there => /\ Shape(P[u]).ready <=> P[u].ready
                            /\ Shape(P[u]).terminating <=> P[u].terminating
<1>1. CASE ~ P[u].there
  <2>1. Shape(P[u]) = [phase |-> "Running", waiting |-> FALSE, ready |-> FALSE,
                       terminating |-> FALSE, restarts |-> 0]
    BY <1>1 DEF Shape
  <2> QED BY <1>1, <2>1 DEF Pod, Phases, TerminalPodReason, TerminalWaitingReason
<1>2. CASE P[u].there
  <2>1. P[u] \in PodObjects
    BY <1>2, PodMapFields
  <2>2. PICK o \in PodObjects : o = P[u]
    BY <2>1
  <2>3. o.there /\ o.ready \in BOOLEAN /\ o.terminating \in BOOLEAN
    BY <2>2 DEF PodObjects
  <2>4. Shape(o) = [phase |-> "Running", waiting |-> FALSE, ready |-> o.ready,
                    terminating |-> o.terminating, restarts |-> 0]
    BY <2>3 DEF Shape
  <2>5. /\ Shape(o) \in Pod
        /\ Shape(o).restarts = 0
        /\ ~ TerminalPodReason(Shape(o))
        /\ Shape(o).ready = o.ready
        /\ Shape(o).terminating = o.terminating
    BY <2>3, <2>4 DEF Pod, Phases, TerminalPodReason, TerminalWaitingReason
  <2> QED BY <2>2, <2>5
<1> QED BY <1>1, <1>2, PodMapFields

\* What a snapshot computed from the caches says: the type, the generations, the
\* status, the pods (snapshot and dynamicSnapshot).
LEMMA SnapshotFacts ==
    ASSUME kind \in Kinds, NEW c \in Caches, \A r \in c.revisions : r.owner = "target",
           NEW s \in SnapshotsOf(c)
    PROVE  /\ s \in Snapshots
           /\ s.found /\ ~ s.completionTerminal /\ ~ ControllerFailed(s)
           /\ s.kstatus = StatusOf(c.workload)
           /\ s.generation = (IF kind \in Customs THEN 0 ELSE c.workload.generation)
           /\ s.observedGeneration = (IF kind \in Customs THEN 0 ELSE c.workload.observed)
           /\ \A u \in Pods : s.pod[u].restarts = 0 /\ ~ TerminalPodReason(s.pod[u])
           /\ s.current \subseteq Existing(c.pods) /\ s.old \subseteq Existing(c.pods)
           /\ PodsSeen(c, s)
           /\ \E split \in Splits(c) : s.current = split.current /\ s.old = split.old
           /\ \A u \in Own(c.pods) : Belongs(c, u) => u \in s.current \union s.old
<1> DEFINE g == IF kind \in Customs THEN 0 ELSE c.workload.generation
           o == IF kind \in Customs THEN 0 ELSE c.workload.observed
           st == StatusOf(c.workload)
<1>1. PICK split \in Splits(c) :
        s = [NoSnapshot EXCEPT
               !.found = TRUE,
               !.generation = g,
               !.observedGeneration = o,
               !.kstatus = st,
               !.current = split.current,
               !.old = split.old,
               !.pod = [u \in Pods |-> IF u \in split.current THEN Shape(c.pods[u]) ELSE NoPod]]
  BY DEF SnapshotsOf
<1> DEFINE pod == [u \in Pods |-> IF u \in split.current THEN Shape(c.pods[u]) ELSE NoPod]
<1>2. SplitOK(c, split)
  BY SplitFacts
<1>3. c.workload \in Workloads /\ c.pods \in PodMaps
  BY DEF Caches
<1>4. g \in Nat /\ o \in Nat
  BY <1>3, RolloutParameters DEF Workloads
<1>5. st \in KStatus /\ st # "Failed"
  BY <1>3, StatusType DEF KStatus
<1>6. /\ pod \in [Pods -> Pod]
      /\ \A u \in Pods : pod[u].restarts = 0 /\ ~ TerminalPodReason(pod[u])
  <2>1. NoPod \in Pod /\ NoPod.restarts = 0 /\ ~ TerminalPodReason(NoPod)
    BY DEF NoPod, Pod, Phases, TerminalPodReason, TerminalWaitingReason
  <2> QED BY <1>3, <2>1, ShapeType
<1>7. Existing(c.pods) \subseteq Pods
  BY DEF Existing
<1>8. \A u \in split.current : /\ c.pods[u].there
                               /\ pod[u].ready <=> c.pods[u].ready
                               /\ pod[u].terminating <=> c.pods[u].terminating
  BY <1>2, <1>3, <1>7, ShapeType, PodMapFields DEF SplitOK
<1> HIDE DEF g, o, st, pod
<1>9. /\ s.found = TRUE /\ s.generation = g /\ s.observedGeneration = o /\ s.kstatus = st
      /\ s.current = split.current /\ s.old = split.old /\ s.pod = pod
      /\ s.completionTerminal = FALSE /\ s.terminalFailure = FALSE
      /\ s = [found |-> TRUE, generation |-> g, observedGeneration |-> o, kstatus |-> st,
              current |-> split.current, old |-> split.old, pod |-> pod,
              completionTerminal |-> FALSE, terminalFailure |-> FALSE]
  BY <1>1 DEF NoSnapshot, pod
<1>10. s \in Snapshots
  BY <1>2, <1>4, <1>5, <1>6, <1>7, <1>9 DEF Snapshots, SplitOK
<1>11. PodsSeen(c, s)
  BY <1>8, <1>9 DEF PodsSeen
<1>12. ~ ControllerFailed(s)
  BY <1>5, <1>9 DEF ControllerFailed
<1>13. \A u \in Own(c.pods) : Belongs(c, u) => u \in s.current \union s.old
  BY <1>2, <1>9 DEF SplitOK
<1>14. s.current \subseteq Existing(c.pods) /\ s.old \subseteq Existing(c.pods)
  BY <1>2, <1>9 DEF SplitOK
<1>15. \A u \in Pods : s.pod[u].restarts = 0 /\ ~ TerminalPodReason(s.pod[u])
  BY <1>6, <1>9
<1> QED BY <1>9, <1>10, <1>11, <1>12, <1>13, <1>14, <1>15 DEF g, o, st

\* The pods a window was opened with.
Baseline == {u \in Pods : tracker.baseline[u] # Absent}

\* The three things an evaluation can do to the window.
Closes(s) == /\ ~ HealthyNow(s)
             /\ tracker'.healthySince = Unset
             /\ outcome' = Open

Holds(s) == /\ HealthyNow(s)
            /\ tracker.healthySince # Unset
            /\ Baseline = s.current
            /\ tracker'.healthySince = tracker.healthySince
            /\ Baseline' = Baseline
            /\ outcome' = IF time - tracker.healthySince >= StableFor THEN "settled" ELSE Open

Opens(s) == /\ HealthyNow(s)
            /\ ~ (tracker.healthySince # Unset /\ Baseline = s.current)
            /\ tracker'.healthySince = time
            /\ Baseline' = s.current
            /\ outcome' = Open

\* What an evaluation does: it closes the window, holds it, or opens one anew
\* (tracker.observe).
LEMMA EvaluateFacts ==
    ASSUME RolloutType, Evaluate, \A r \in cache.revisions : r.owner = "target"
    PROVE  \E s \in SnapshotsOf(cache) :
             /\ tracker' \in Trackers /\ tracker'.lastObserve = time /\ ~ tracker'.wedgedOut
             /\ \A u \in Pods : tracker'.baseline[u] \in {0, Absent}
             /\ Closes(s) \/ Holds(s) \/ Opens(s)
<1>1. PICK s \in SnapshotsOf(cache) : /\ tracker' = TrackerAfter(tracker, time, s)
                                     /\ outcome' = OutcomeAfter(tracker, time, s)
  BY DEF Evaluate
<1> DEFINE t == tracker
           c == Charged(t, time, s)
           n == TrackerAfter(t, time, s)
<1>2. /\ s \in Snapshots
      /\ ~ s.completionTerminal /\ ~ ControllerFailed(s)
      /\ \A u \in Pods : s.pod[u].restarts = 0 /\ ~ TerminalPodReason(s.pod[u])
  BY SnapshotFacts DEF RolloutType
<1>3. t \in Trackers /\ time \in Nat /\ t.lastObserve <= time /\ t.healthySince \in Times
      /\ t.baseline \in RestartMaps /\ ~ t.wedgedOut
  BY DEF RolloutType, Trackers
<1>4. ~ c.wedgedOut
  <2>1. ~ Crosses(t, time, s)
    BY <1>2 DEF Crosses, WedgeReason, Snapshots
  <2>2. /\ WedgedFor = 0 => c.wedgedOut = t.wedgedOut
        /\ WedgedFor > 0 => (c.wedgedOut <=> Crosses(t, time, s))
    BY <1>2, <1>3, ChargedFields
  <2> QED BY <1>3, <2>1, <2>2, OptionsAssumption
<1>5. n \in Trackers /\ n.lastObserve = time
  BY <1>2, <1>3, AfterFields
<1>6. ~ n.wedgedOut
  BY <1>2, <1>3, <1>4, AfterWedge
<1>7. /\ ~ HealthyNow(s) => n.healthySince = Unset
      /\ WindowHolds(t, s) => n.healthySince = t.healthySince /\ n.baseline = t.baseline
      /\ HealthyNow(s) /\ ~ WindowHolds(t, s) => n.healthySince = time /\ n.baseline = RestartCounts(s)
  BY <1>2, <1>3, <1>4, AfterWindow
<1>8. /\ s.current \subseteq Pods
      /\ {u \in Pods : RestartCounts(s)[u] # Absent} = s.current
      /\ \A u \in Pods : RestartCounts(s)[u] \in {0, Absent}
  BY <1>2, CountsType DEF RestartCounts, Snapshots
<1>9. WindowHolds(t, s) <=> HealthyNow(s) /\ t.healthySince # Unset /\ Baseline = s.current
  <2>1. ASSUME WindowHolds(t, s)
        PROVE  Baseline = s.current
    <3>1. ~ WindowViolation(t.baseline, s)
      BY <2>1 DEF WindowHolds
    <3> QED BY <1>2, <1>3, <3>1, UnviolatedWindow DEF Baseline
  <2>2. ASSUME Baseline = s.current
        PROVE  ~ WindowViolation(t.baseline, s)
    <3>1. \A u \in s.current : t.baseline[u] = 0 /\ s.pod[u].restarts = 0
      BY <1>2, <1>8, <2>2 DEF Baseline, RolloutType
    <3>2. \A u \in s.current : ~ (t.baseline[u] = Absent \/ s.pod[u].restarts > t.baseline[u])
      BY <3>1 DEF Absent
    <3> QED BY <2>2, <3>2 DEF WindowViolation, Baseline
  <2> QED BY <2>1, <2>2 DEF WindowHolds
<1>10. outcome' = IF WindowHolds(t, s) /\ time - t.healthySince >= StableFor THEN "settled" ELSE Open
  BY <1>1, <1>2, <1>4 DEF OutcomeAfter
<1>11. \A u \in Pods : n.baseline[u] \in {0, Absent}
  <2>1. CASE ~ HealthyNow(s)
    <3>1. n = CloseWindow(c)
      BY <1>2, <1>4, <2>1 DEF TrackerAfter, HoldWindow
    <3>2. c \in Trackers
      BY <1>2, <1>3, ChargedFields
    <3>3. n.baseline = NoCounts
      BY <3>1, <3>2 DEF CloseWindow, Trackers
    <3> QED BY <3>3 DEF NoCounts
  <2>2. CASE HealthyNow(s)
    BY <1>7, <1>8, <2>2 DEF RolloutType
  <2> QED BY <2>1, <2>2
<1>12. tracker' = n
  BY <1>1
<1> HIDE DEF n
<1>13. ~ HealthyNow(s) => Closes(s)
  BY <1>7, <1>9, <1>10, <1>12 DEF Closes
<1>14. WindowHolds(t, s) => Holds(s)
  BY <1>7, <1>9, <1>10, <1>12 DEF Holds, Baseline
<1>15. HealthyNow(s) /\ ~ WindowHolds(t, s) => Opens(s)
  <2>1. ASSUME HealthyNow(s), ~ WindowHolds(t, s)
        PROVE  Opens(s)
    <3>1. tracker'.healthySince = time /\ tracker'.baseline = RestartCounts(s)
      BY <1>7, <1>12, <2>1
    <3>2. Baseline' = s.current
      BY <1>8, <3>1 DEF Baseline
    <3> QED BY <1>9, <1>10, <2>1, <3>1, <3>2 DEF Opens
  <2> QED BY <2>1
<1> QED BY <1>5, <1>6, <1>11, <1>12, <1>13, <1>14, <1>15

----------------------------------------------------------------------------
(* What the steps do *)

\* An own pod of the cluster is the pod it was, or has just been born.
Kept(u) ==
    /\ u \in Own(cluster.pods)
    /\ cluster'.pods[u].hash = cluster.pods[u].hash
    /\ cluster'.pods[u].owner = cluster.pods[u].owner
    /\ cluster'.age[u] = cluster.age[u]
    /\ Alive(cluster'.pods, u) => Alive(cluster.pods, u)
    /\ cluster'.pods[u].ready => cluster.pods[u].ready \/ cluster.age[u] = StartUp

\* A pod that was not there, of a UID that was never used.
Born(u) ==
    /\ PodStep
    /\ u \in cluster.unused /\ u \notin cluster'.unused
    /\ cluster'.pods[u].hash = cluster.workload.updateRevision
    /\ cluster'.pods[u].owner = OwnerOf(cluster.workload.updateRevision)
    /\ ~ cluster'.pods[u].ready
    /\ cluster'.age[u] = 0

\* What a move can do to the pods.
PodsMove ==
    /\ cluster' \in Clusters
    /\ cluster'.unused \subseteq cluster.unused
    /\ \A u \in Own(cluster'.pods) : Kept(u) \/ Born(u)
    /\ Sibling \notin cluster.unused =>
         cluster'.pods[Sibling] \in {cluster.pods[Sibling]} \union AnySibling
    /\ \A u \in Own(cluster.pods) :
        Alive(cluster.pods, u) /\ cluster.pods[u].hash = cluster.workload.updateRevision
          => u \in Own(cluster'.pods) /\ Alive(cluster'.pods, u)
                /\ (u \notin cluster.unused => Kept(u))

\* The moves of a cluster.
Moves == EditStep \/ ReconcileStep \/ DriftStep \/ PublishStep \/ PodStep

\* A move that leaves the pods alone keeps them all.
LEMMA SamePodsMove ==
    ASSUME RolloutType, cluster' \in Clusters, SamePods
    PROVE  PodsMove
BY DEF PodsMove, SamePods, Kept

\* A birth keeps the other pods.
LEMMA BirthMoves ==
    ASSUME RolloutType, NEW v \in Pods, BirthStep(v)
    PROVE  PodsMove
<1>1. /\ cluster.pods \in PodMaps /\ cluster'.pods \in PodMaps
      /\ cluster.age \in [Pods -> 0 .. StartUp] /\ cluster' \in Clusters
  BY DEF RolloutType, Clusters, BirthStep, PodStep
<1>2. /\ \A u \in Pods : u # v => cluster'.pods[u] = cluster.pods[u] /\ cluster'.age[u] = cluster.age[u]
      /\ cluster'.pods[v] = NewPod /\ cluster'.age[v] = 0
  BY <1>1 DEF BirthStep, PodMaps
<1>3. /\ NewPod.hash = cluster.workload.updateRevision
      /\ NewPod.owner = OwnerOf(cluster.workload.updateRevision)
      /\ ~ NewPod.ready /\ NewPod.there /\ ~ NewPod.terminating
  BY DEF NewPod, PodObject
<1>4. PodStep /\ v \in cluster.unused /\ v \notin cluster'.unused /\ cluster'.unused \subseteq cluster.unused
  BY DEF BirthStep
<1> HIDE DEF NewPod
<1>5. Born(v)
  BY <1>2, <1>3, <1>4 DEF Born
<1>6. \A u \in Own(cluster'.pods) : u # v => Kept(u)
  BY <1>1, <1>2 DEF Own, Existing, Kept, Alive
<1>7. \A u \in Own(cluster.pods) : u # v => u \in Own(cluster'.pods) /\ Alive(cluster.pods, u) = Alive(cluster'.pods, u)
  BY <1>1, <1>2 DEF Own, Existing, Alive
<1>8. v # Sibling => v \in Own(cluster'.pods) /\ Alive(cluster'.pods, v)
  BY <1>1, <1>2, <1>3, PodMapFields DEF Alive
<1>9. \A u \in Own(cluster.pods) : u \in Pods /\ u # Sibling
  BY DEF Own, Existing
<1>10. Sibling \notin cluster.unused => cluster'.pods[Sibling] = cluster.pods[Sibling]
  BY <1>2, <1>4, RolloutParameters
<1> QED BY <1>1, <1>4, <1>5, <1>6, <1>7, <1>8, <1>9, <1>10 DEF PodsMove

\* A flip, the end and the removal of a pod keep the others, and none that is of
\* the newest template ends.
LEMMA ChangeMoves ==
    ASSUME RolloutType, NEW v \in Pods, FlipStep(v) \/ TerminateStep(v) \/ GoneStep(v)
    PROVE  PodsMove
<1>1. /\ cluster.pods \in PodMaps /\ cluster'.pods \in PodMaps
      /\ cluster.age \in [Pods -> 0 .. StartUp] /\ cluster' \in Clusters
      /\ cluster'.age = cluster.age /\ cluster'.unused = cluster.unused
      /\ v \in Own(cluster.pods)
  BY DEF RolloutType, Clusters, FlipStep, TerminateStep, GoneStep, PodStep
<1>2. \A u \in Pods : u # v => cluster'.pods[u] = cluster.pods[u]
  BY <1>1 DEF FlipStep, TerminateStep, GoneStep, PodMaps
<1>a. v # Sibling /\ cluster.pods[v] \in PodObjects
  BY <1>1, PodMapFields
<1>3. v \in Own(cluster'.pods) => Kept(v)
  <2>1. CASE FlipStep(v)
    <3>1. cluster'.pods[v] = [cluster.pods[v] EXCEPT !.ready = ~ cluster.pods[v].ready]
      BY <1>1, <2>1 DEF FlipStep, PodMaps
    <3>2. /\ cluster'.pods[v].hash = cluster.pods[v].hash
          /\ cluster'.pods[v].owner = cluster.pods[v].owner
          /\ cluster'.pods[v].there = cluster.pods[v].there
          /\ cluster'.pods[v].terminating = cluster.pods[v].terminating
      BY <1>a, <3>1 DEF PodObjects
    <3> QED BY <1>1, <2>1, <3>2 DEF FlipStep, Kept, Alive
  <2>2. CASE TerminateStep(v)
    <3>1. cluster'.pods[v] = [cluster.pods[v] EXCEPT !.terminating = TRUE]
      BY <1>1, <2>2 DEF TerminateStep, PodMaps
    <3>2. /\ cluster'.pods[v].hash = cluster.pods[v].hash
          /\ cluster'.pods[v].owner = cluster.pods[v].owner
          /\ cluster'.pods[v].ready = cluster.pods[v].ready
          /\ cluster'.pods[v].terminating
      BY <1>a, <3>1 DEF PodObjects
    <3> QED BY <1>1, <3>2 DEF Kept, Alive
  <2>3. CASE GoneStep(v)
    <3>1. cluster'.pods[v] = Gone
      BY <1>1, <2>3 DEF GoneStep, PodMaps
    <3> QED BY <3>1 DEF Own, Existing, Gone
  <2> QED BY <2>1, <2>2, <2>3
<1>4. \A u \in Own(cluster'.pods) : u # v => Kept(u)
  BY <1>1, <1>2 DEF Own, Existing, Kept, Alive
<1>5. \A u \in Own(cluster.pods) : u # v =>
        u \in Own(cluster'.pods) /\ Alive(cluster.pods, u) = Alive(cluster'.pods, u)
  BY <1>1, <1>2 DEF Own, Existing, Alive
<1>6. Alive(cluster.pods, v) /\ cluster.pods[v].hash = cluster.workload.updateRevision
        => v \in Own(cluster'.pods) /\ Alive(cluster'.pods, v)
  <2>1. CASE FlipStep(v)
    <3>1. cluster'.pods[v] = [cluster.pods[v] EXCEPT !.ready = ~ cluster.pods[v].ready]
      BY <1>1, <2>1 DEF FlipStep, PodMaps
    <3>2. /\ cluster'.pods[v].there = cluster.pods[v].there
          /\ cluster'.pods[v].terminating = cluster.pods[v].terminating
      BY <1>a, <3>1 DEF PodObjects
    <3> QED BY <1>1, <1>a, <3>2, PodMapFields DEF Alive
  <2>2. CASE TerminateStep(v)
    BY <2>2 DEF TerminateStep
  <2>3. CASE GoneStep(v)
    BY <2>3 DEF GoneStep, Alive
  <2> QED BY <2>1, <2>2, <2>3
<1>7. cluster'.pods[Sibling] = cluster.pods[Sibling]
  BY <1>2, <1>a, RolloutParameters
<1> QED BY <1>1, <1>3, <1>4, <1>5, <1>6, <1>7 DEF PodsMove

\* What the sibling does keeps the pods of the target.
LEMMA SiblingMoves ==
    ASSUME RolloutType, SiblingStep
    PROVE  PodsMove
<1>1. /\ cluster.pods \in PodMaps /\ cluster'.pods \in PodMaps /\ cluster' \in Clusters
      /\ cluster'.age = cluster.age /\ cluster'.unused = cluster.unused
  BY DEF RolloutType, Clusters, SiblingStep, PodStep
<1>2. PICK o \in AnySibling : cluster'.pods = [cluster.pods EXCEPT ![Sibling] = o]
  BY DEF SiblingStep
<1>3. /\ \A u \in Pods : u # Sibling => cluster'.pods[u] = cluster.pods[u]
      /\ cluster'.pods[Sibling] \in AnySibling
  BY <1>1, <1>2, RolloutParameters DEF PodMaps
<1>4. /\ Own(cluster'.pods) = Own(cluster.pods)
      /\ \A u \in Own(cluster.pods) : u \in Pods /\ u # Sibling
  BY <1>3 DEF Own, Existing
<1>5. \A u \in Own(cluster.pods) :
        Kept(u) /\ Alive(cluster'.pods, u) = Alive(cluster.pods, u)
  BY <1>1, <1>3, <1>4 DEF Kept, Alive
<1> QED
  BY <1>1, <1>3, <1>4, <1>5 DEF PodsMove

\* Every move of the cluster is one of the steps above, and does that to the pods.
LEMMA MoveFacts ==
    ASSUME RolloutType, ClusterMoves
    PROVE  Moves /\ PodsMove
<1>1. cluster' \in ClusterSteps(cluster)
  BY DEF ClusterMoves
<1>2. CASE cluster' \in Edited(cluster)
  BY <1>2, EditIsStep, SamePodsMove DEF EditStep, Moves
<1>3. CASE cluster' \in Reconciled(cluster)
  BY <1>3, ReconcileIsStep, SamePodsMove DEF ReconcileStep, Moves
<1>4. CASE cluster' \in Drifted(cluster)
  BY <1>4, DriftIsStep, SamePodsMove DEF DriftStep, Moves
<1>5. CASE cluster' \in PodsMoved(cluster)
  <2>1. PICK u \in Pods : BirthStep(u) \/ FlipStep(u) \/ TerminateStep(u) \/ GoneStep(u)
    BY <1>5, PodIsStep
  <2>2. PodStep
    BY <2>1 DEF BirthStep, FlipStep, TerminateStep, GoneStep
  <2> QED BY <2>1, <2>2, BirthMoves, ChangeMoves DEF Moves
<1>6. CASE cluster' \in Published(cluster)
  BY <1>6, PublishIsStep, SamePodsMove DEF PublishStep, Moves
<1>7. CASE cluster' \in SiblingMoved(cluster)
  BY <1>7, SiblingIsStep, SiblingMoves DEF SiblingStep, Moves
<1> QED BY <1>1, <1>2, <1>3, <1>4, <1>5, <1>6, <1>7 DEF ClusterSteps

\* One of the caches is filled.
WorkloadFollows ==
    /\ cache'.workload = cluster.workload /\ behind'["workload"] = 0
    /\ cache'.revisions = cache.revisions /\ behind'["revisions"] = behind["revisions"]
    /\ cache'.pods = cache.pods /\ behind'["pods"] = behind["pods"]

RevisionsFollow ==
    /\ cache'.workload = cache.workload /\ behind'["workload"] = behind["workload"]
    /\ cache'.revisions = cluster.revisions /\ behind'["revisions"] = 0
    /\ cache'.pods = cache.pods /\ behind'["pods"] = behind["pods"]

PodsFollow ==
    /\ cache'.workload = cache.workload /\ behind'["workload"] = behind["workload"]
    /\ cache'.revisions = cache.revisions /\ behind'["revisions"] = behind["revisions"]
    /\ cache'.pods = cluster.pods /\ behind'["pods"] = 0

Filled == WorkloadFollows \/ RevisionsFollow \/ PodsFollow

\* The watch behind one cache makes that cache what the cluster is.
LEMMA FollowFacts ==
    ASSUME RolloutType, NEW part \in Parts, CacheFollows(part)
    PROVE  /\ cache' \in Caches /\ behind' \in [Parts -> 0 .. Lag]
           /\ Filled
<1>1. cache \in Caches /\ cluster \in Clusters /\ behind \in [Parts -> 0 .. Lag] /\ Lag \in Nat
  BY RolloutParameters DEF RolloutType
<1>2. CASE part = "workload"
  <2>1. /\ cache' = [cache EXCEPT !.workload = cluster.workload]
        /\ behind' = [behind EXCEPT !["workload"] = 0]
    BY <1>2 DEF CacheFollows
  <2>2. WorkloadFollows /\ cache' \in Caches /\ behind' \in [Parts -> 0 .. Lag]
    BY <1>1, <2>1 DEF Caches, Clusters, WorkloadFollows, Parts
  <2> QED BY <2>2 DEF Filled
<1>3. CASE part = "revisions"
  <2>1. /\ cache' = [cache EXCEPT !.revisions = cluster.revisions]
        /\ behind' = [behind EXCEPT !["revisions"] = 0]
    BY <1>3 DEF CacheFollows
  <2>2. RevisionsFollow /\ cache' \in Caches /\ behind' \in [Parts -> 0 .. Lag]
    BY <1>1, <2>1 DEF Caches, Clusters, RevisionsFollow, Parts
  <2> QED BY <2>2 DEF Filled
<1>4. CASE part = "pods"
  <2>1. /\ cache' = [cache EXCEPT !.pods = cluster.pods]
        /\ behind' = [behind EXCEPT !["pods"] = 0]
    BY <1>4 DEF CacheFollows
  <2>2. PodsFollow /\ cache' \in Caches /\ behind' \in [Parts -> 0 .. Lag]
    BY <1>1, <2>1 DEF Caches, Clusters, PodsFollow, Parts
  <2> QED BY <2>2 DEF Filled
<1> QED BY <1>2, <1>3, <1>4 DEF Parts

\* A unit passes.
Passes ==
    /\ cluster' \in Clusters
    /\ cluster'.workload = cluster.workload /\ cluster'.revisions = cluster.revisions
    /\ cluster'.pods = cluster.pods /\ cluster'.unused = cluster.unused
    /\ \A u \in Pods : cluster'.age[u] = Lower(cluster.age[u] + 1, StartUp)
    /\ \A part \in Parts :
        IF cache[part] = cluster[part] THEN behind'[part] = 0
        ELSE behind[part] < Lag /\ behind'[part] = behind[part] + 1
    /\ behind' \in [Parts -> 0 .. Lag]

\* A unit of time ages the pods and the caches that differ.
LEMMA TickFacts ==
    ASSUME RolloutType, TickerFires
    PROVE  Passes
<1>1. cluster \in Clusters /\ behind \in [Parts -> 0 .. Lag] /\ cluster.age \in [Pods -> 0 .. StartUp]
  BY DEF RolloutType, Clusters
<1> DEFINE A == [u \in Pods |-> Lower(cluster.age[u] + 1, StartUp)]
<1>2. cluster' = [cluster EXCEPT !.age = A]
  BY DEF TickerFires
<1>3. A \in [Pods -> 0 .. StartUp]
  BY <1>1, RolloutParameters DEF Lower
<1>4. \A part \in Parts :
        IF cache[part] = cluster[part] THEN behind'[part] = 0
        ELSE behind[part] < Lag /\ behind'[part] = behind[part] + 1
  BY DEF TickerFires
<1>5. behind' = [part \in Parts |-> IF cache[part] = cluster[part] THEN 0 ELSE behind[part] + 1]
  BY DEF TickerFires
<1>6. behind' \in [Parts -> 0 .. Lag]
  <2>1. \A part \in Parts : (IF cache[part] = cluster[part] THEN 0 ELSE behind[part] + 1) \in 0 .. Lag
    BY <1>1, <1>4, RolloutParameters
  <2> QED BY <1>5, <2>1
<1>7. \A u \in Pods : A[u] = Lower(cluster.age[u] + 1, StartUp)
  OBVIOUS
<1> HIDE DEF A
<1>8. /\ cluster' \in Clusters /\ cluster'.age = A
      /\ cluster'.workload = cluster.workload /\ cluster'.revisions = cluster.revisions
      /\ cluster'.pods = cluster.pods /\ cluster'.unused = cluster.unused
  BY <1>1, <1>2, <1>3 DEF Clusters
<1> QED BY <1>4, <1>6, <1>7, <1>8 DEF Passes

----------------------------------------------------------------------------
(* Types *)

\* The history of what was Good keeps its type, and is reset when it is Good.
LEMMA GoodAfterType ==
    ASSUME good \in [Generations -> 0 .. GoodCap], NEW c, NEW elapsed \in Nat
    PROVE  /\ GoodAfter(c, elapsed) \in [Generations -> 0 .. GoodCap]
           /\ \A g \in Generations :
                /\ GoodAfter(c, elapsed)[g] <= good[g] + elapsed
                /\ g <= c.workload.generation /\ Good(c, g) => GoodAfter(c, elapsed)[g] = 0
<1> DEFINE v(g) == IF g <= c.workload.generation /\ Good(c, g) THEN 0
                   ELSE Lower(good[g] + elapsed, GoodCap)
<1>1. \A g \in Generations : v(g) \in 0 .. GoodCap /\ v(g) <= good[g] + elapsed
  BY RolloutParameters DEF Lower
<1>2. GoodAfter(c, elapsed) = [g \in Generations |-> v(g)]
  BY DEF GoodAfter
<1>3. \A g \in Generations : g <= c.workload.generation /\ Good(c, g) => v(g) = 0
  OBVIOUS
<1> HIDE DEF v
<1> QED BY <1>1, <1>2, <1>3

\* Every revision object in the cluster or a cache is the target's.
LEMMA OwnersLabelled ==
    ASSUME RolloutType
    PROVE  /\ \A r \in cache.revisions : r.owner = "target"
           /\ \A r \in cluster.revisions : r.owner = "target"
BY DEF RolloutType, Clusters, Caches, RevisionObjects

\* The cluster the watch begins with: one pod, Ready, of the first template.
LEMMA StartFacts ==
    ASSUME kind \in Kinds, NEW u \in Pods \ {Sibling}, NEW past \in Pasts,
           NEW q \in SiblingStates[kind]
    PROVE  /\ Start(u, past, q) \in Clusters
           /\ Start(u, past, q).workload.generation = 1
           /\ Start(u, past, q).workload.observed = 1
           /\ Start(u, past, q).workload.complete
           /\ Start(u, past, q).workload.updateRevision = first
           /\ RevisionObject(first, 1, 1) \in Start(u, past, q).revisions
           /\ \A r \in Start(u, past, q).revisions :
                /\ r.uid \in {Templates[g] : g \in Generations} /\ r.owner = "target" /\ r.hash = r.uid
                /\ r.revision = 0 \/ (r.revision = 1 /\ r.uid = first)
           /\ Own(Start(u, past, q).pods) = {u}
           /\ Start(u, past, q).pods[u].hash = first
           /\ Start(u, past, q).pods[u].owner = OwnerOf(first)
           /\ Start(u, past, q).pods[u].ready
           /\ ~ Start(u, past, q).pods[u].terminating
           /\ Start(u, past, q).age[u] = StartUp
           /\ Start(u, past, q).pods[Sibling] \in AnySibling
           /\ Start(u, past, q).unused = Pods \ {u, Sibling}
<1> DEFINE W == [generation |-> 1, observed |-> 1, complete |-> TRUE, updateRevision |-> first]
           R == {RevisionObject(first, 1, 1)} \union {RevisionObject(template, 0, 0) : template \in past}
           o == [PodObject(OwnerOf(first), first) EXCEPT !.ready = TRUE]
           P == [v \in Pods |-> CASE v = u -> o [] v = Sibling -> q [] OTHER -> Gone]
           A == [v \in Pods |-> IF v = u THEN StartUp ELSE 0]
           U == Pods \ {u, Sibling}
<1>1. Start(u, past, q) = [workload |-> W, revisions |-> R, pods |-> P, age |-> A, unused |-> U]
  BY DEF Start
<1>2. first \in Labels /\ first = Templates[1] /\ 1 \in Generations
  BY RolloutParameters DEF first
<1>3. past \subseteq {Templates[g] : g \in Generations} /\ past \subseteq Labels
  <2>1. past \subseteq {Templates[g] : g \in Generations}
    BY <1>2 DEF Pasts
  <2> QED BY <2>1 DEF Labels
<1>4. W \in Workloads
  BY <1>2 DEF Workloads
<1>5. /\ R \subseteq RevisionObjects
      /\ \A r \in R : /\ r.uid \in {Templates[g] : g \in Generations} /\ r.owner = "target" /\ r.hash = r.uid
                      /\ r.revision = 0 \/ (r.revision = 1 /\ r.uid = first)
  <2>1. \A template \in Labels, n \in Nat :
           /\ RevisionObject(template, n, n) \in RevisionObjects
           /\ RevisionObject(template, n, n).uid = template
           /\ RevisionObject(template, n, n).hash = template
           /\ RevisionObject(template, n, n).owner = "target"
           /\ RevisionObject(template, n, n).revision = n
    BY DEF RevisionObject, RevisionObjects
  <2>2. \A r \in R : \/ r = RevisionObject(first, 1, 1)
                    \/ \E template \in past : r = RevisionObject(template, 0, 0)
    OBVIOUS
  <2>3. ASSUME NEW r \in R
        PROVE  /\ r \in RevisionObjects
               /\ r.uid \in {Templates[g] : g \in Generations} /\ r.owner = "target" /\ r.hash = r.uid
               /\ r.revision = 0 \/ (r.revision = 1 /\ r.uid = first)
    <3>1. CASE r = RevisionObject(first, 1, 1)
      BY <1>2, <2>1, <3>1
    <3>2. CASE \E template \in past : r = RevisionObject(template, 0, 0)
      <4>1. PICK x \in past : r = RevisionObject(x, 0, 0)
        BY <3>2
      <4>2. x \in Labels /\ x \in {Templates[g] : g \in Generations}
        BY <1>3
      <4>3. r \in RevisionObjects /\ r.uid = x /\ r.owner = "target" /\ r.hash = x /\ r.revision = 0
        BY <2>1, <4>1, <4>2
      <4>4. r.hash = r.uid /\ r.uid \in {Templates[g] : g \in Generations}
        BY <4>2, <4>3
      <4> QED BY <4>3, <4>4
    <3> QED BY <2>2, <3>1, <3>2
  <2> HIDE DEF R
  <2> QED BY <2>3
<1>6. /\ o \in PodObjects /\ o.hash = first /\ o.owner = OwnerOf(first) /\ o.ready /\ ~ o.terminating /\ o.there
  BY <1>2, RolloutParameters DEF PodObject, PodObjects, OwnerOf
<1>a. q \in AnySibling /\ q \in PodObjects \union {Gone}
  BY RolloutParameters, SiblingFields
<1>7. A \in [Pods -> 0 .. StartUp] /\ A[u] = StartUp
  BY RolloutParameters
<1> HIDE DEF o, W, R
<1>8. /\ P \in PodMaps /\ P[u] = o /\ P[Sibling] = q
      /\ \A v \in Pods \ {u, Sibling} : P[v] = Gone
  BY <1>6, <1>a, RolloutParameters DEF PodMaps
<1>9. Own(P) = {u}
  BY <1>6, <1>8 DEF Own, Existing, Gone
<1>10. U \in SUBSET Pods
  OBVIOUS
<1> HIDE DEF P, A, U
<1>11. /\ Start(u, past, q) \in Clusters
       /\ Start(u, past, q).workload = W /\ Start(u, past, q).revisions = R
       /\ Start(u, past, q).pods = P /\ Start(u, past, q).age = A /\ Start(u, past, q).unused = U
  BY <1>1, <1>4, <1>5, <1>7, <1>8, <1>10 DEF Clusters
<1>12. RevisionObject(first, 1, 1) \in R
  BY DEF R
<1>13. W.generation = 1 /\ W.observed = 1 /\ W.complete /\ W.updateRevision = first
  BY DEF W
<1> QED BY <1>a, <1>5, <1>6, <1>7, <1>8, <1>9, <1>11, <1>12, <1>13 DEF U

\* The watch begins with the types it has.
LEMMA InitTypes ==
    ASSUME RolloutInit
    PROVE  RolloutType
<1>1. PICK u \in Pods \ {Sibling}, past \in Pasts, q \in SiblingStates[kind] :
          cluster = Start(u, past, q)
  BY DEF RolloutInit
<1>2. cluster \in Clusters
  BY <1>1, StartFacts DEF RolloutInit
<1>3. cache = [part \in Parts |-> cluster[part]] /\ behind = [part \in Parts |-> 0]
  BY DEF RolloutInit
<1>4. cache \in Caches
  BY <1>2, <1>3 DEF Clusters, Caches, Parts
<1>5. behind \in [Parts -> 0 .. Lag]
  BY <1>3, RolloutParameters
<1>6. /\ tracker \in Trackers /\ tracker.lastObserve <= time /\ tracker.healthySince <= time
      /\ ~ tracker.wedgedOut /\ \A u2 \in Pods : tracker.baseline[u2] \in {0, Absent}
  <2>1. tracker = NewTracker /\ time = 0
    BY DEF RolloutInit
  <2>2. NewTracker \in Trackers
    BY NewTrackerType
  <2>3. /\ NewTracker.lastObserve = -1 /\ NewTracker.healthySince = -1 /\ ~ NewTracker.wedgedOut
        /\ NewTracker.baseline = NoCounts
    BY DEF NewTracker, Unset
  <2>4. \A u2 \in Pods : NoCounts[u2] = Absent
    BY DEF NoCounts
  <2> QED BY <2>1, <2>2, <2>3, <2>4
<1>7. good \in [Generations -> 0 .. GoodCap] /\ calm \in 0 .. CalmCap
  BY RolloutParameters DEF RolloutInit
<1> QED BY <1>2, <1>4, <1>5, <1>6, <1>7 DEF RolloutInit, RolloutType

\* Every step keeps the types.
LEMMA StepTypes ==
    ASSUME RolloutType, [RolloutNext]_rolloutVars
    PROVE  RolloutType'
<1>1. CASE ClusterMoves
  <2>1. cluster' \in Clusters
    BY <1>1, MoveFacts DEF PodsMove
  <2>2. good' \in [Generations -> 0 .. GoodCap] /\ calm' \in 0 .. CalmCap
    BY <1>1, GoodAfterType, RolloutParameters DEF ClusterMoves, RolloutType
  <2> QED BY <1>1, <2>1, <2>2 DEF ClusterMoves, RolloutType
<1>2. CASE \E part \in Parts : CacheFollows(part)
  BY <1>2, FollowFacts DEF CacheFollows, RolloutType
<1>3. CASE Evaluate
  <2>1. /\ tracker' \in Trackers /\ tracker'.lastObserve = time /\ ~ tracker'.wedgedOut
        /\ \A u \in Pods : tracker'.baseline[u] \in {0, Absent}
        /\ \E s \in SnapshotsOf(cache) : Closes(s) \/ Holds(s) \/ Opens(s)
    BY <1>3, EvaluateFacts, OwnersLabelled
  <2>2. tracker'.healthySince <= time /\ outcome' \in {Open, "settled"}
    BY <2>1 DEF Closes, Holds, Opens, RolloutType, Unset
  <2>3. tracker'.lastObserve <= time
    BY <2>1 DEF RolloutType
  <2> QED BY <1>3, <2>1, <2>2, <2>3 DEF Evaluate, RolloutType
<1>4. CASE TickerFires
  <2>1. Passes
    BY <1>4, TickFacts
  <2>5. good' \in [Generations -> 0 .. GoodCap]
    BY <1>4, GoodAfterType DEF TickerFires, RolloutType
  <2>6. calm' \in 0 .. CalmCap
    BY <1>4, RolloutParameters DEF TickerFires, RolloutType, Lower
  <2>2. good' \in [Generations -> 0 .. GoodCap] /\ calm' \in 0 .. CalmCap
    BY <2>5, <2>6
  <2>3. time \in Nat /\ time' = time + 1 /\ tracker' = tracker
        /\ tracker.lastObserve \in Int /\ tracker.healthySince \in Int
    BY <1>4 DEF TickerFires, RolloutType, Trackers, Times, Unset
  <2>4. tracker'.lastObserve <= time' /\ tracker'.healthySince <= time'
    BY <2>3 DEF RolloutType
  <2> QED BY <1>4, <2>1, <2>2, <2>3, <2>4 DEF TickerFires, RolloutType, Passes
<1>5. CASE UNCHANGED rolloutVars
  BY <1>5 DEF rolloutVars, RolloutType
<1> QED BY <1>1, <1>2, <1>3, <1>4, <1>5 DEF RolloutNext

----------------------------------------------------------------------------
(* The cluster, and what the caches can know of it *)

\* The generation a workload says it has observed, and the template of it.
WorkloadOK(w) == w.observed <= w.generation /\ w.updateRevision = Templates[w.observed]

\* A revision object with the number of a generation holds its template.
RevisionsOK(R) ==
    \A r \in R : /\ r.uid # "other"
                 /\ r.revision \in Generations => r.uid = Templates[r.revision]
                 /\ \/ r.revision <= cluster.workload.observed
                    \/ (kind = "DaemonSet" /\ r.revision \notin Generations)

\* Some object has the number k or a later one.
Numbered(R, k) == \E r \in R : r.revision \in k .. Len(Templates)

\* Every pod has an owner, a revision object and an observed generation.
PodsOK(P) ==
    /\ P[Sibling] \in AnySibling
    /\ \A u \in Own(P) :
        /\ P[u].owner = OwnerOf(P[u].hash)
        /\ P[u].hash \in Names(cluster.revisions)
        /\ \E k \in Generations : k <= cluster.workload.observed /\ P[u].hash = Templates[k]

\* The cluster is coherent.
Managed ==
    /\ WorkloadOK(cluster.workload)
    /\ RevisionsOK(cluster.revisions)
    /\ \E r \in cluster.revisions : r.revision = cluster.workload.observed
    /\ PodsOK(cluster.pods)
    /\ Sibling \notin cluster.unused
    /\ \A u \in Own(cluster.pods) : cluster.pods[u].ready => cluster.age[u] = StartUp
    /\ cluster.workload.complete =>
         \A u \in Own(cluster.pods) :
            Alive(cluster.pods, u) => cluster.pods[u].hash = cluster.workload.updateRevision

\* What the caches hold was so once: late, never wrong.
Known ==
    /\ WorkloadOK(cache.workload)
    /\ cache.workload.observed <= cluster.workload.observed
    /\ RevisionsOK(cache.revisions)
    /\ Names(cache.revisions) \subseteq Names(cluster.revisions)
    /\ PodsOK(cache.pods)
    /\ \A u \in Own(cache.pods) : u \in Own(cluster.pods) =>
         /\ cache.pods[u].hash = cluster.pods[u].hash
         /\ Alive(cluster.pods, u) => Alive(cache.pods, u)
    /\ \A u \in cluster.unused : u \notin Existing(cluster.pods) /\ u \notin Existing(cache.pods)

\* The inductive type invariant.
Real == RolloutType /\ Managed /\ Known

\* The numbers and maps RolloutType holds.
LEMMA WorkloadNumbers ==
    ASSUME RolloutType
    PROVE  /\ cluster.workload.generation \in Generations /\ cluster.workload.observed \in Generations
           /\ cache.workload.generation \in Generations /\ cache.workload.observed \in Generations
           /\ cluster.workload.complete \in BOOLEAN /\ cache.workload.complete \in BOOLEAN
           /\ \A k \in Generations : k \in Nat
           /\ \A r \in cluster.revisions \union cache.revisions : r.revision \in Nat
           /\ cluster.age \in [Pods -> 0 .. StartUp]
           /\ cluster.pods \in PodMaps /\ cache.pods \in PodMaps
           /\ cluster.unused \subseteq Pods
           /\ behind \in [Parts -> 0 .. Lag]
<1>1. cluster \in Clusters /\ cache \in Caches /\ behind \in [Parts -> 0 .. Lag]
  BY DEF RolloutType
<1>2. /\ cluster.workload \in Workloads /\ cache.workload \in Workloads
      /\ cluster.revisions \subseteq RevisionObjects /\ cache.revisions \subseteq RevisionObjects
      /\ cluster.pods \in PodMaps /\ cache.pods \in PodMaps
      /\ cluster.age \in [Pods -> 0 .. StartUp] /\ cluster.unused \subseteq Pods
  BY <1>1 DEF Clusters, Caches
<1>3. \A w \in Workloads : w.generation \in Generations /\ w.observed \in Generations /\ w.complete \in BOOLEAN
  BY DEF Workloads
<1>4. \A r \in RevisionObjects : r.revision \in Nat
  BY DEF RevisionObjects
<1>5. \A k \in Generations : k \in Nat
  BY RolloutParameters
<1> QED BY <1>1, <1>2, <1>3, <1>4, <1>5

\* The watch begins with a cluster that is coherent, and with caches that know it.
LEMMA InitReal ==
    ASSUME RolloutInit
    PROVE  Real
<1>1. RolloutType
  BY InitTypes
<1>2. PICK u \in Pods \ {Sibling}, past \in Pasts, q \in SiblingStates[kind] :
          cluster = Start(u, past, q)
  BY DEF RolloutInit
<1>3. /\ cluster.workload.generation = 1 /\ cluster.workload.observed = 1
      /\ cluster.workload.updateRevision = first
      /\ RevisionObject(first, 1, 1) \in cluster.revisions
      /\ \A r \in cluster.revisions :
           /\ r.uid \in {Templates[g] : g \in Generations} /\ r.owner = "target" /\ r.hash = r.uid
           /\ r.revision = 0 \/ (r.revision = 1 /\ r.uid = first)
      /\ Own(cluster.pods) = {u}
      /\ cluster.pods[u].hash = first /\ cluster.pods[u].owner = OwnerOf(first)
      /\ cluster.age[u] = StartUp
      /\ cluster.pods[Sibling] \in AnySibling
      /\ cluster.unused = Pods \ {u, Sibling}
  <2>1. kind \in Kinds
    BY DEF RolloutInit
  <2>2. /\ cluster.workload.generation = 1 /\ cluster.workload.observed = 1
        /\ cluster.workload.updateRevision = first
        /\ RevisionObject(first, 1, 1) \in cluster.revisions
    BY <1>2, <2>1, StartFacts
  <2>3. \A r \in cluster.revisions :
           /\ r.uid \in {Templates[g] : g \in Generations} /\ r.owner = "target" /\ r.hash = r.uid
           /\ r.revision = 0 \/ (r.revision = 1 /\ r.uid = first)
    BY <1>2, <2>1, StartFacts
  <2>4. /\ Own(cluster.pods) = {u}
        /\ cluster.pods[u].hash = first /\ cluster.pods[u].owner = OwnerOf(first)
        /\ cluster.age[u] = StartUp
        /\ cluster.unused = Pods \ {u, Sibling}
    BY <1>2, <2>1, StartFacts
  <2>5. cluster.pods[Sibling] \in AnySibling
    BY <1>2, <2>1, StartFacts
  <2> QED BY <2>2, <2>3, <2>4, <2>5
<1>4. /\ cache.workload = cluster.workload /\ cache.revisions = cluster.revisions /\ cache.pods = cluster.pods
  BY DEF RolloutInit, Parts
<1>5. first = Templates[1] /\ 1 \in Generations
  BY RolloutParameters DEF first
<1>6. WorkloadOK(cluster.workload)
  BY <1>3, <1>5 DEF WorkloadOK
<1>7. RevisionsOK(cluster.revisions)
  BY <1>3, <1>5, RolloutParameters DEF RevisionsOK
<1>8. /\ RevisionObject(first, 1, 1).revision = 1
      /\ first \in Names(cluster.revisions)
  <2>1. RevisionObject(first, 1, 1).revision = 1 /\ RevisionObject(first, 1, 1).uid = first
    BY DEF RevisionObject
  <2> QED BY <1>3, <2>1 DEF Names
<1>9. PodsOK(cluster.pods)
  BY <1>3, <1>5, <1>8 DEF PodsOK
<1>10. Managed
  <2>1. \A v \in Own(cluster.pods) : cluster.pods[v].hash = cluster.workload.updateRevision
            /\ cluster.age[v] = StartUp
    BY <1>3
  <2>2. \E r \in cluster.revisions : r.revision = cluster.workload.observed
    BY <1>3, <1>8
  <2>3. Sibling \notin cluster.unused
    BY <1>3
  <2> QED BY <1>6, <1>7, <1>9, <2>1, <2>2, <2>3 DEF Managed
<1>11. \A v \in cluster.unused : v \notin Existing(cluster.pods)
  BY <1>3 DEF Own
<1>12. Known
  <2> HIDE DEF PodsOK, RevisionsOK, WorkloadOK
  <2>1. cache.workload.observed <= cluster.workload.observed
    BY <1>3, <1>4
  <2> QED BY <1>4, <1>6, <1>7, <1>9, <1>11, <2>1 DEF Known
<1> QED BY <1>1, <1>10, <1>12 DEF Real

\* What is observed and what has a revision object only grows.
LEMMA MovesGrow ==
    ASSUME RolloutType, Managed, ClusterMoves
    PROVE  /\ cluster'.workload.observed >= cluster.workload.observed
           /\ Names(cluster.revisions) \subseteq Names(cluster'.revisions)
           /\ kind' = kind
<1>1. Moves
  BY MoveFacts
<1>2. CASE ReconcileStep
  <2> DEFINE t == Templates[cluster.workload.generation]
  <2>1. PICK born \in Nat :
          cluster'.revisions = {r \in cluster.revisions : r.uid # t}
                                  \union {RevisionObject(t, cluster.workload.generation, born)}
    BY <1>2 DEF ReconcileStep
  <2>2. RevisionObject(t, cluster.workload.generation, born).uid = t
    BY DEF RevisionObject
  <2>3. Names(cluster.revisions) \subseteq Names(cluster'.revisions)
    BY <2>1, <2>2 DEF Names
  <2>4. cluster'.workload.observed >= cluster.workload.observed
    BY <1>2, WorkloadNumbers DEF ReconcileStep, Managed, WorkloadOK
  <2> QED BY <2>3, <2>4 DEF ClusterMoves
<1>3. CASE EditStep \/ PublishStep \/ PodStep
  BY <1>3, WorkloadNumbers DEF EditStep, PublishStep, PodStep, ClusterMoves
<1>4. CASE DriftStep
  BY <1>4, WorkloadNumbers DEF DriftStep, ClusterMoves, Names
<1> QED BY <1>1, <1>2, <1>3, <1>4 DEF Moves

\* A move keeps the numbers of the revision objects in order.
LEMMA MovedRevisions ==
    ASSUME RolloutType, Managed, ClusterMoves
    PROVE  /\ WorkloadOK(cluster'.workload)
           /\ RevisionsOK(cluster.revisions)'
           /\ \E r \in cluster'.revisions : r.revision = cluster'.workload.observed
<1>1. Moves
  BY MoveFacts
<1>2. /\ cluster.workload.generation \in Generations /\ cluster.workload.observed \in Generations
      /\ \A k \in Generations : k \in Nat
      /\ \A r \in cluster.revisions : r.revision \in Nat
      /\ kind' = kind
  BY WorkloadNumbers DEF ClusterMoves
<1>3. CASE ReconcileStep
  <2> DEFINE g == cluster.workload.generation
             t == Templates[g]
  <2>1. PICK born \in Nat :
          cluster'.revisions = {r \in cluster.revisions : r.uid # t} \union {RevisionObject(t, g, born)}
    BY <1>3 DEF ReconcileStep
  <2>2. /\ RevisionObject(t, g, born).uid = t /\ RevisionObject(t, g, born).revision = g
    BY DEF RevisionObject
  <2>3. t # "other"
    BY <1>2, RolloutParameters
  <2>4. /\ cluster'.workload.observed = g /\ cluster'.workload.generation = g
        /\ cluster'.workload.updateRevision = t
        /\ cluster.workload.observed <= g
    BY <1>3 DEF ReconcileStep, Managed, WorkloadOK
  <2>5. WorkloadOK(cluster'.workload)
    BY <1>2, <2>4 DEF WorkloadOK
  <2>6. ASSUME NEW r \in cluster'.revisions
        PROVE  /\ r.uid # "other"
               /\ r.revision \in Generations => r.uid = Templates[r.revision]
               /\ \/ r.revision <= g
                  \/ (kind = "DaemonSet" /\ r.revision \notin Generations)
    <3>1. CASE r \in cluster.revisions
      BY <1>2, <2>4, <3>1 DEF Managed, RevisionsOK
    <3>2. CASE r = RevisionObject(t, g, born)
      BY <1>2, <2>2, <2>3, <3>2
    <3> QED BY <2>1, <3>1, <3>2
  <2>7. RevisionsOK(cluster.revisions)'
    BY <1>2, <2>4, <2>6 DEF RevisionsOK
  <2>8. \E r \in cluster'.revisions : r.revision = cluster'.workload.observed
    BY <2>1, <2>2, <2>4
  <2> QED BY <2>5, <2>7, <2>8
<1>4. CASE EditStep \/ PublishStep \/ PodStep
  <2>1. /\ cluster'.workload.observed = cluster.workload.observed
        /\ cluster'.workload.updateRevision = cluster.workload.updateRevision
        /\ cluster'.workload.generation >= cluster.workload.generation
        /\ cluster'.revisions = cluster.revisions
        /\ cluster'.workload.generation \in Nat
    BY <1>2, <1>4 DEF EditStep, PublishStep, PodStep
  <2> QED BY <1>2, <2>1 DEF Managed, WorkloadOK, RevisionsOK
<1>5. CASE DriftStep
  <2> DEFINE d == RevisionObject("drift", Len(Templates) + 1, 9)
  <2>1. /\ cluster'.workload = cluster.workload /\ kind = "DaemonSet"
        /\ cluster'.revisions = cluster.revisions \union {d}
    BY <1>5 DEF DriftStep
  <2>2. d.uid = "drift" /\ d.revision = Len(Templates) + 1
    BY DEF RevisionObject
  <2>3. d.revision \notin Generations
    BY <2>2, RolloutParameters
  <2> QED BY <1>2, <2>1, <2>2, <2>3 DEF Managed, WorkloadOK, RevisionsOK
<1> QED BY <1>1, <1>3, <1>4, <1>5 DEF Moves

\* A move leaves no pod without an owner, a revision object and a generation.
LEMMA MovedPods ==
    ASSUME Real, ClusterMoves
    PROVE  PodsOK(cluster.pods)' /\ PodsOK(cache.pods)'
<1>1. /\ cluster'.workload.observed >= cluster.workload.observed
      /\ Names(cluster.revisions) \subseteq Names(cluster'.revisions)
      /\ kind' = kind /\ cache' = cache
  BY MovesGrow DEF ClusterMoves, Real
<1>2. PodsMove /\ Sibling \notin cluster.unused
  BY MoveFacts DEF Real, Managed
<1>3. /\ cluster.workload.observed \in Generations /\ cluster'.workload.observed \in Generations
      /\ \A k \in Generations : k \in Nat
  BY <1>2, WorkloadNumbers DEF PodsMove, Clusters, Workloads, Real
<1>4. /\ cluster.workload.updateRevision = Templates[cluster.workload.observed]
      /\ cluster.workload.updateRevision \in Names(cluster.revisions)
  BY <1>3 DEF Real, Managed, WorkloadOK, RevisionsOK, Names
<1>5. \A template : OwnerOf(template)' = OwnerOf(template)
  BY <1>1 DEF OwnerOf
<1>6. ASSUME NEW u \in Own(cluster'.pods)
      PROVE  /\ cluster'.pods[u].owner = OwnerOf(cluster'.pods[u].hash)
             /\ cluster'.pods[u].hash \in Names(cluster'.revisions)
             /\ \E k \in Generations : /\ k <= cluster'.workload.observed
                                       /\ cluster'.pods[u].hash = Templates[k]
  <2>1. CASE Kept(u)
    <3>1. /\ u \in Own(cluster.pods)
          /\ cluster'.pods[u].hash = cluster.pods[u].hash
          /\ cluster'.pods[u].owner = cluster.pods[u].owner
      BY <2>1 DEF Kept
    <3>2. /\ cluster.pods[u].owner = OwnerOf(cluster.pods[u].hash)
          /\ cluster.pods[u].hash \in Names(cluster.revisions)
          /\ \E k \in Generations : k <= cluster.workload.observed /\ cluster.pods[u].hash = Templates[k]
      BY <3>1 DEF Real, Managed, PodsOK
    <3> QED BY <1>1, <1>3, <3>1, <3>2
  <2>2. CASE Born(u)
    BY <1>1, <1>3, <1>4, <2>2 DEF Born
  <2> QED BY <1>2, <2>1, <2>2 DEF PodsMove
<1>7. cluster'.pods[Sibling] \in AnySibling /\ cache.pods[Sibling] \in AnySibling
  BY <1>1, <1>2 DEF PodsMove, Real, Managed, Known, PodsOK
<1>8. PodsOK(cluster.pods)'
  BY <1>5, <1>6, <1>7 DEF PodsOK
<1>9. ASSUME NEW u \in Own(cache.pods)
      PROVE  /\ cache.pods[u].owner = OwnerOf(cache.pods[u].hash)
             /\ cache.pods[u].hash \in Names(cluster'.revisions)
             /\ \E k \in Generations : /\ k <= cluster'.workload.observed
                                       /\ cache.pods[u].hash = Templates[k]
  <2>1. /\ cache.pods[u].owner = OwnerOf(cache.pods[u].hash)
        /\ cache.pods[u].hash \in Names(cluster.revisions)
        /\ \E k \in Generations : k <= cluster.workload.observed /\ cache.pods[u].hash = Templates[k]
    BY DEF Real, Known, PodsOK
  <2> QED BY <1>1, <1>3, <2>1
<1>10. PodsOK(cache.pods)'
  BY <1>1, <1>5, <1>7, <1>9 DEF PodsOK
<1> QED BY <1>8, <1>10

\* A move of the cluster keeps it coherent, and the caches knowing it.
LEMMA MovesAreReal ==
    ASSUME Real, ClusterMoves
    PROVE  Managed' /\ Known'
<1>1. /\ cluster'.workload.observed >= cluster.workload.observed
      /\ Names(cluster.revisions) \subseteq Names(cluster'.revisions)
      /\ kind' = kind /\ cache' = cache
  BY MovesGrow DEF ClusterMoves, Real
<1>2. PodsMove /\ Moves
  BY MoveFacts DEF Real
<1>3. /\ cluster.workload.observed \in Generations /\ cluster'.workload.observed \in Generations
      /\ \A k \in Generations : k \in Nat
      /\ cache.workload.observed \in Generations
      /\ \A r \in cache.revisions : r.revision \in Nat
      /\ cluster.pods \in PodMaps /\ cluster'.pods \in PodMaps /\ cache.pods \in PodMaps
  BY <1>2, WorkloadNumbers DEF PodsMove, Clusters, Workloads, Real
<1>4. /\ WorkloadOK(cluster'.workload)
      /\ RevisionsOK(cluster.revisions)'
      /\ \E r \in cluster'.revisions : r.revision = cluster'.workload.observed
  BY MovedRevisions DEF Real
<1>5. PodsOK(cluster.pods)' /\ PodsOK(cache.pods)'
  BY MovedPods
<1>6. \A u \in Own(cluster'.pods) : cluster'.pods[u].ready => cluster'.age[u] = StartUp
  BY <1>2 DEF PodsMove, Kept, Born, Real, Managed
<1>7. ASSUME cluster'.workload.complete, NEW u \in Own(cluster'.pods), Alive(cluster'.pods, u)
      PROVE  cluster'.pods[u].hash = cluster'.workload.updateRevision
  <2>1. CASE PublishStep
    <3>1. /\ cluster'.pods = cluster.pods
          /\ cluster'.workload.updateRevision = cluster.workload.updateRevision
      BY <2>1 DEF PublishStep, SamePods
    <3> QED BY <1>7, <2>1, <3>1 DEF PublishStep
  <2>2. CASE ReconcileStep
    BY <1>7, <2>2 DEF ReconcileStep
  <2>3. CASE EditStep \/ DriftStep \/ PodStep
    <3>1. /\ cluster'.workload.updateRevision = cluster.workload.updateRevision
          /\ cluster.workload.complete
      BY <1>7, <2>3 DEF EditStep, DriftStep, PodStep
    <3>2. CASE Kept(u)
      BY <1>7, <3>1, <3>2 DEF Kept, Real, Managed
    <3>3. CASE Born(u)
      BY <3>1, <3>3 DEF Born
    <3> QED BY <1>2, <3>2, <3>3 DEF PodsMove
  <2> QED BY <1>2, <2>1, <2>2, <2>3 DEF Moves
<1>8. Managed'
  <2>1. Sibling \notin cluster'.unused
    BY <1>2 DEF PodsMove, Real, Managed
  <2> QED BY <1>4, <1>5, <1>6, <1>7, <2>1 DEF Managed
<1>9. RevisionsOK(cache.revisions)'
  <2>1. \A r \in cache.revisions :
          /\ r.uid # "other"
          /\ r.revision \in Generations => r.uid = Templates[r.revision]
          /\ \/ r.revision <= cluster.workload.observed
             \/ (kind = "DaemonSet" /\ r.revision \notin Generations)
    BY DEF Real, Known, RevisionsOK
  <2> QED BY <1>1, <1>3, <2>1 DEF RevisionsOK
<1>10. ASSUME NEW u \in Own(cache.pods), u \in Own(cluster'.pods)
       PROVE  /\ cache.pods[u].hash = cluster'.pods[u].hash
              /\ Alive(cluster'.pods, u) => Alive(cache.pods, u)
  <2>1. u \notin cluster.unused
    BY DEF Real, Known, Own
  <2>2. Kept(u)
    BY <1>2, <1>10, <2>1 DEF PodsMove, Born
  <2> QED BY <2>2 DEF Kept, Real, Known
<1>11. ASSUME NEW u \in cluster'.unused
       PROVE  u \notin Existing(cluster'.pods) /\ u \notin Existing(cache.pods)
  <2>1. u \in cluster.unused
    BY <1>2 DEF PodsMove
  <2>2. u \notin Existing(cluster.pods) /\ u \notin Existing(cache.pods)
    BY <2>1 DEF Real, Known
  <2>3. u \notin Own(cluster'.pods)
    BY <1>2, <2>2 DEF PodsMove, Kept, Born, Own
  <2>4. u # Sibling
    BY <2>1 DEF Real, Managed
  <2> QED BY <2>2, <2>3, <2>4 DEF Own
<1>12. WorkloadOK(cache.workload) /\ cache.workload.observed <= cluster'.workload.observed
       /\ Names(cache.revisions) \subseteq Names(cluster'.revisions)
  BY <1>1, <1>3 DEF Real, Known
<1>13. Known'
  BY <1>1, <1>5, <1>9, <1>10, <1>11, <1>12 DEF Known, WorkloadOK
<1> QED BY <1>8, <1>13

\* A cache that follows knows no less of the cluster.
LEMMA FollowsAreReal ==
    ASSUME Real, NEW part \in Parts, CacheFollows(part)
    PROVE  Managed' /\ Known'
<1>1. Filled /\ cluster' = cluster /\ kind' = kind
  BY FollowFacts DEF CacheFollows, Real
<1>2. Managed'
  BY <1>1 DEF Real, Managed, PodsOK, RevisionsOK, OwnerOf
<1>3. \A template : OwnerOf(template)' = OwnerOf(template)
  BY <1>1 DEF OwnerOf
<1>4. cluster.workload.observed \in Nat /\ cache.workload.observed \in Nat
  BY WorkloadNumbers DEF Real
<1>6. CASE WorkloadFollows
  <2>1. /\ cache'.workload = cluster.workload
        /\ cache'.revisions = cache.revisions /\ cache'.pods = cache.pods
    BY <1>6 DEF WorkloadFollows
  <2> QED BY <1>1, <1>3, <1>4, <2>1 DEF Real, Managed, Known, PodsOK, RevisionsOK
<1>7. CASE RevisionsFollow
  <2>1. /\ cache'.workload = cache.workload
        /\ cache'.revisions = cluster.revisions /\ cache'.pods = cache.pods
    BY <1>7 DEF RevisionsFollow
  <2> QED BY <1>1, <1>3, <1>4, <2>1 DEF Real, Managed, Known, PodsOK, RevisionsOK
<1>8. CASE PodsFollow
  <2>1. /\ cache'.workload = cache.workload
        /\ cache'.revisions = cache.revisions /\ cache'.pods = cluster.pods
    BY <1>8 DEF PodsFollow
  <2> QED BY <1>1, <1>3, <1>4, <2>1 DEF Real, Managed, Known, PodsOK, RevisionsOK
<1> QED BY <1>1, <1>2, <1>6, <1>7, <1>8 DEF Filled

\* Time passing keeps the cluster coherent, and the caches knowing it.
LEMMA TicksAreReal ==
    ASSUME Real, TickerFires
    PROVE  Managed' /\ Known'
<1>1. /\ cluster'.workload = cluster.workload /\ cluster'.revisions = cluster.revisions
      /\ cluster'.pods = cluster.pods /\ cluster'.unused = cluster.unused
      /\ \A u \in Pods : cluster'.age[u] = Lower(cluster.age[u] + 1, StartUp)
      /\ kind' = kind /\ cache' = cache
  BY TickFacts DEF Passes, TickerFires, Real
<1>2. \A u \in Own(cluster.pods) : cluster.age[u] = StartUp => cluster'.age[u] = StartUp
  BY <1>1, RolloutParameters DEF Lower, Own, Existing
<1>3. PodsOK(cluster.pods)' /\ RevisionsOK(cluster.revisions)' /\ WorkloadOK(cluster.workload)'
  BY <1>1 DEF Real, Managed, PodsOK, RevisionsOK, WorkloadOK, OwnerOf
<1>4. PodsOK(cache.pods)' /\ RevisionsOK(cache.revisions)' /\ WorkloadOK(cache.workload)'
  BY <1>1 DEF Real, Known, PodsOK, RevisionsOK, WorkloadOK, OwnerOf
<1>5. Managed'
  <2> HIDE DEF PodsOK, RevisionsOK, WorkloadOK
  <2> QED BY <1>1, <1>2, <1>3 DEF Real, Managed
<1>6. Known'
  BY <1>1, <1>4 DEF Real, Known
<1> QED BY <1>5, <1>6

\* Every step keeps the cluster coherent, and the caches knowing it.
LEMMA RealStep ==
    ASSUME Real, [RolloutNext]_rolloutVars
    PROVE  Real'
<1>1. RolloutType'
  BY StepTypes DEF Real
<1>2. CASE ClusterMoves
  BY <1>1, <1>2, MovesAreReal DEF Real
<1>3. CASE \E part \in Parts : CacheFollows(part)
  BY <1>1, <1>3, FollowsAreReal DEF Real
<1>4. CASE TickerFires
  BY <1>1, <1>4, TicksAreReal DEF Real
<1>5. CASE Evaluate \/ UNCHANGED rolloutVars
  <2>1. kind' = kind /\ cluster' = cluster /\ cache' = cache
    BY <1>5 DEF Evaluate, rolloutVars
  <2>2. Managed'
    BY <2>1 DEF Real, Managed, PodsOK, RevisionsOK, WorkloadOK, OwnerOf
  <2>3. Known'
    BY <2>1 DEF Real, Known, PodsOK, RevisionsOK, WorkloadOK, OwnerOf
  <2> QED BY <1>1, <2>2, <2>3 DEF Real
<1> QED BY <1>2, <1>3, <1>4, <1>5 DEF RolloutNext


----------------------------------------------------------------------------
(* A cluster that has converged is found settled *)

\* The pods a split does not drop for their owner.
Regarded == IF kind \in Selecting THEN Pods ELSE Pods \ {Sibling}

\* A cache is late with something a split regards.
Differs(part) ==
    IF part = "pods" THEN \E u \in Regarded : cache.pods[u] # cluster.pods[u]
    ELSE cache[part] # cluster[part]

\* No cache is.
SameParts ==
    /\ cache.workload = cluster.workload
    /\ cache.revisions = cluster.revisions
    /\ \A u \in Regarded : cache.pods[u] = cluster.pods[u]

\* The pods the snapshot of a converged workload is made of.
Judged(P) == IF kind \in Selecting THEN Existing(P) ELSE Own(P)

\* Caches that are late with nothing have the pods of the cluster.
LEMMA SamePodsJudged ==
    ASSUME SameParts
    PROVE  /\ Judged(cache.pods) = Judged(cluster.pods)
           /\ Own(cache.pods) = Own(cluster.pods)
           /\ \A u \in Own(cluster.pods) : cache.pods[u] = cluster.pods[u]
           /\ kind \in Selecting => cache.pods[Sibling] = cluster.pods[Sibling]
<1>1. \A u \in Pods \ {Sibling} : cache.pods[u] = cluster.pods[u]
  BY DEF SameParts, Regarded
<1>2. kind \in Selecting => \A u \in Pods : cache.pods[u] = cluster.pods[u]
  BY DEF SameParts, Regarded
<1>3. /\ Own(cache.pods) = Own(cluster.pods)
      /\ \A u \in Own(cluster.pods) : cache.pods[u] = cluster.pods[u]
  BY <1>1 DEF Own, Existing
<1>4. Judged(cache.pods) = Judged(cluster.pods)
  BY <1>2, <1>3 DEF Judged, Existing
<1> QED
  BY <1>2, <1>3, <1>4, RolloutParameters

\* In a converged cluster every pod of the target is Ready and of the last template.
LEMMA ConvergedPods ==
    ASSUME Real, Converged(cluster)
    PROVE  LET t == Templates[cluster.workload.generation]
           IN  \A u \in Own(cluster.pods) :
                 /\ cluster.pods[u].hash = t /\ cluster.pods[u].owner = OwnerOf(t)
                 /\ t \in Names(cluster.revisions)
                 /\ cluster.pods[u].ready /\ ~ cluster.pods[u].terminating
<1> DEFINE g == cluster.workload.generation
           t == Templates[g]
           mine == {u \in Own(cluster.pods) : cluster.pods[u].hash = t}
<1>1. /\ g \in Generations /\ cluster.workload.observed = g
      /\ \A k \in Generations : k \in Nat
      /\ Generations = 1 .. Len(Templates)
  BY WorkloadNumbers, RolloutParameters DEF Real, Converged
<1>2. /\ \A u \in mine : cluster.pods[u].ready /\ ~ cluster.pods[u].terminating
      /\ \A u \in Own(cluster.pods), h \in 1 .. g : cluster.pods[u].hash = Templates[h] => u \in mine
  BY DEF Converged, Good
<1>3. ASSUME NEW u \in Own(cluster.pods)
      PROVE  u \in mine
  <2>1. PICK k \in Generations : k <= cluster.workload.observed /\ cluster.pods[u].hash = Templates[k]
    BY DEF Real, Managed, PodsOK
  <2>2. k \in 1 .. g
    BY <1>1, <2>1
  <2> QED BY <1>2, <2>1, <2>2
<1> QED BY <1>2, <1>3 DEF Real, Managed, PodsOK

\* From a converged cluster the split takes every pod of the target as current and
\* nothing as old: no older object or stray revision is mistaken for the newest,
\* and the sibling pod counts only where a selector is all there is
\* (internal/settle/revision.go, internal/settle/dynamic.go).
LEMMA ConvergedSplit ==
    ASSUME Real, SameParts, Converged(cluster), NEW split \in Splits(cache)
    PROVE  split.current = Judged(cache.pods) /\ split.old = {}
<1> DEFINE t == Templates[cluster.workload.generation]
           P == cache.pods
           R == cache.revisions
           S == Existing(P)
<1>1. /\ \A u \in Own(P) : /\ P[u].hash = t /\ P[u].owner = OwnerOf(t)
                           /\ t \in Names(R)
      /\ R = cluster.revisions /\ cache.workload = cluster.workload
  BY ConvergedPods, SamePodsJudged DEF SameParts
<1>2. /\ \A r \in R : r.owner = "target" /\ r.uid # "other"
      /\ Own(P) = S \ {Sibling}
      /\ Sibling \in S => P[Sibling].owner = "other"
  <2>1. P[Sibling] \in AnySibling
    BY DEF Real, Known, PodsOK
  <2>2. Sibling \in S => P[Sibling].owner = "other"
    BY <2>1, SiblingFields DEF Existing
  <2>3. \A r \in R : r.owner = "target" /\ r.uid # "other"
    BY <1>1, OwnersLabelled DEF Real, Managed, RevisionsOK
  <2> QED BY <2>2, <2>3 DEF Own
<1>3. /\ t # Split!NoHash
      /\ cache.workload.updateRevision = t
      /\ cache.workload.observed = cluster.workload.generation
      /\ cache.workload.generation = cluster.workload.generation
      /\ cache.workload.complete
  BY <1>1, WorkloadNumbers, RolloutParameters DEF Real, Converged
<1> HIDE DEF t
<1>4. CASE kind = "Deployment"
  <2> DEFINE owned == {r \in R : r.owner = "target"}
             ours == {u \in S : ~ Split!ForeignPod(P[u], {r.uid : r \in owned})}
  <2>1. split \in Split!SplitDeployment("target", R, S, P)
    BY <1>4 DEF Splits, Customs, PublishedForm
  <2>2. PICK n \in R : n.revision = cluster.workload.observed
    BY <1>1 DEF Real, Managed
  <2>3. owned = R /\ owned # {}
    BY <1>2, <2>2
  <2>4. ASSUME NEW r \in Split!NewestReplicaSets(owned)
        PROVE  r.uid = t
    <3>1. r \in R /\ r.revision >= n.revision
      BY <2>2, <2>3, WorkloadNumbers, <1>1 DEF Split!NewestReplicaSets, Real
    <3>2. r.revision <= cluster.workload.observed
      BY <1>1, <1>4, <3>1 DEF Real, Managed, RevisionsOK
    <3>3. r.revision = cluster.workload.generation /\ r.revision \in Generations
      BY <1>1, <1>3, <2>2, <3>1, <3>2, WorkloadNumbers DEF Real
    <3> QED BY <1>1, <3>1, <3>3 DEF Real, Managed, RevisionsOK, t
  <2>5. \E r \in Split!NewestReplicaSets(owned) :
           split = [current |-> {u \in ours : P[u].owner = r.uid},
                    old |-> {u \in ours : P[u].owner # r.uid}]
    BY <2>1, <2>3 DEF Split!SplitDeployment
  <2>6. split = [current |-> {u \in ours : P[u].owner = t}, old |-> {u \in ours : P[u].owner # t}]
    BY <2>4, <2>5
  <2>7. \A u \in Own(P) : P[u].owner = t /\ t \in {r.uid : r \in owned}
    BY <1>1, <1>4, <2>3 DEF OwnerOf, Names
  <2>8. "other" \notin {r.uid : r \in owned} /\ "other" # Split!NoOwner
    BY <1>2, <2>3 DEF Split!NoOwner
  <2> HIDE DEF owned
  <2>9. ours = Own(P)
    BY <1>2, <2>7, <2>8 DEF Split!ForeignPod
  <2> HIDE DEF ours
  <2>10. split.current = Own(P) /\ split.old = {}
    BY <2>6, <2>7, <2>9
  <2> QED BY <1>4, <2>10 DEF Judged, Selecting
<1>5. ASSUME kind \in {"StatefulSet", "DaemonSet"}
      PROVE  {u \in S : ~ Split!ForeignPod(P[u], {"target"})} = Own(P)
  <2>1. \A u \in Own(P) : P[u].owner = "target"
    BY <1>1, <1>5 DEF OwnerOf
  <2> QED BY Zenon, <1>2, <2>1 DEF Split!ForeignPod, Split!NoOwner
<1>6. CASE kind = "StatefulSet"
  <2> DEFINE ours == {u \in S : ~ Split!ForeignPod(P[u], {"target"})}
  <2>1. split = Split!SplitStatefulSet([uid |-> "target", updateRevision |-> t], S, P)
    BY <1>3, <1>6 DEF Splits, Customs, PublishedForm
  <2>2. split = Split!SplitByHash("target", t, S, P)
    BY <1>3, <2>1 DEF Split!SplitStatefulSet
  <2>3. split = [current |-> {u \in ours : P[u].hash = t}, old |-> {u \in ours : P[u].hash # t}]
    BY <1>3, <2>2 DEF Split!SplitByHash
  <2>4. ours = Own(P)
    BY <1>5, <1>6
  <2> HIDE DEF ours
  <2> QED BY <1>1, <1>6, <2>3, <2>4 DEF Judged, Selecting
<1>7. CASE kind = "DaemonSet"
  <2> DEFINE ours == {u \in S : ~ Split!ForeignPod(P[u], {"target"})}
             ds == Ds(cache.workload)
  <2>1. split \in Split!SplitDaemonSet(ds, R, S, P)
    BY <1>7 DEF Splits, Customs, PublishedForm
  <2>2. ds.uid = "target" /\ Split!DsConverged(ds)
    BY <1>3, WorkloadNumbers DEF Ds, Split!DsConverged, Real
  <2> HIDE DEF ds
  <2>3. split = [current |-> ours, old |-> {}]
    BY <2>1, <2>2 DEF Split!SplitDaemonSet
  <2>4. ours = Own(P)
    BY <1>5, <1>7
  <2> QED BY <1>7, <2>3, <2>4 DEF Judged, Selecting
<1>8. CASE kind \in {"Operator", "Argo", "Legacy"}
  <2> DEFINE mine == Dynamic!OwnedPods([uid |-> "target", selects |-> kind \in Selecting], R, S, P)
  <2>1. split = [current |-> mine, old |-> {}]
    BY <1>8 DEF Splits, Customs, PublishedForm
  <2>2. CASE kind = "Argo"
    <3>1. kind \in Selecting
      BY <2>2 DEF Selecting
    <3>2. mine = S
      BY <3>1 DEF Dynamic!OwnedPods
    <3> QED BY <2>1, <3>1, <3>2 DEF Judged
  <2>3. CASE kind \in {"Operator", "Legacy"}
    <3>1. mine = {u \in S : \/ P[u].owner = "target"
                           \/ \E rs \in R : rs.uid = P[u].owner /\ rs.owner = "target"}
      BY <2>3 DEF Dynamic!OwnedPods, Selecting
    <3>2. \A u \in Own(P) : \/ P[u].owner = "target"
                            \/ \E rs \in R : rs.uid = P[u].owner /\ rs.owner = "target"
      BY <1>1, <1>2, <2>3 DEF OwnerOf, Names
    <3>3. Sibling \in S => ~ (\/ P[Sibling].owner = "target"
                              \/ \E rs \in R : rs.uid = P[Sibling].owner /\ rs.owner = "target")
      BY <1>2
    <3>4. mine = Own(P)
      BY <1>2, <3>1, <3>2, <3>3
    <3> HIDE DEF mine
    <3> QED BY <2>1, <2>3, <3>4 DEF Judged, Selecting
  <2> QED BY <1>8, <2>2, <2>3
<1> QED BY <1>4, <1>6, <1>7, <1>8, RolloutAssumption DEF Real, RolloutType

\* The snapshot of a converged cluster is healthy.
LEMMA ConvergedSnapshot ==
    ASSUME Real, SameParts, Converged(cluster), NEW s \in SnapshotsOf(cache)
    PROVE  HealthyNow(s) /\ s.current = Judged(cluster.pods)
<1>1. /\ kind \in Kinds /\ cache \in Caches
      /\ \A r \in cache.revisions : r.owner = "target"
  BY OwnersLabelled DEF Real, RolloutType
<1>2. /\ s.found
      /\ s.kstatus = StatusOf(cache.workload)
      /\ s.generation = (IF kind \in Customs THEN 0 ELSE cache.workload.generation)
      /\ s.observedGeneration = (IF kind \in Customs THEN 0 ELSE cache.workload.observed)
      /\ \A u \in Pods : ~ TerminalPodReason(s.pod[u])
      /\ PodsSeen(cache, s)
      /\ \E split \in Splits(cache) : s.current = split.current /\ s.old = split.old
  BY <1>1, SnapshotFacts
<1>3. s.current = Judged(cache.pods) /\ s.old = {}
  BY <1>2, ConvergedSplit
<1>4. /\ cache.workload.observed = cache.workload.generation /\ cache.workload.complete
      /\ cache.workload.observed \in Nat
  BY WorkloadNumbers DEF Real, SameParts, Converged
<1>5. StatusOf(cache.workload) = "Current"
  BY <1>4 DEF StatusOf, Dynamic!ResourceStatus, Dynamic!Compute, Dynamic!NormalizeObservedGeneration,
              Customs, PublishedForm
<1>6. \A u \in Own(cache.pods) : cache.pods[u].ready /\ ~ cache.pods[u].terminating
  BY ConvergedPods, SamePodsJudged
<1>7. kind \in Selecting /\ Sibling \in Existing(cache.pods)
        => cache.pods[Sibling].ready /\ ~ cache.pods[Sibling].terminating
  BY SamePodsJudged DEF Converged, SiblingIsWell, Existing
<1>8. \A u \in Judged(cache.pods) : u \in Pods /\ cache.pods[u].ready /\ ~ cache.pods[u].terminating
  BY <1>6, <1>7 DEF Judged, Own, Existing
<1>a. s.current = Judged(cluster.pods)
  BY <1>3, SamePodsJudged
<1>9. \A u \in s.current : /\ ~ s.pod[u].terminating
                           /\ ~ TerminalPodReason(s.pod[u])
                           /\ PodReady(s.pod[u])
  BY <1>2, <1>3, <1>8 DEF PodsSeen, PodReady
<1> QED BY <1>2, <1>3, <1>4, <1>5, <1>9, <1>a DEF HealthyNow

\* Calm is counted only while the cluster is converged ...
CalmIsConverged == calm > 0 => Converged(cluster)

\* ... and a cache that is late has been since before it was.
LagCounted == \A part \in Parts : Differs(part) => calm <= behind[part]

\* Once calm for longer than the lag, the window is open on the pods there are.
CalmWindow ==
    (outcome = Open /\ Converged(cluster) /\ SameParts /\ calm >= Lag + (IF due THEN 1 ELSE 0)) =>
        /\ tracker.healthySince # Unset
        /\ time - tracker.healthySince >= calm - Lag
        /\ Baseline = Judged(cluster.pods)

\* No calm outlasts the window.
CalmBound == outcome = Open => calm <= Lag + StableFor + (IF due THEN 1 ELSE 0)

\* The inductive invariant.
ConvergedInv == Real /\ CalmIsConverged /\ LagCounted /\ CalmWindow /\ CalmBound

\* The invariant holds at the beginning.
LEMMA ConvergedInit ==
    ASSUME RolloutInit
    PROVE  ConvergedInv
<1>1. calm = 0 /\ due = TRUE
  BY DEF RolloutInit
<1>2. LagCounted
  BY <1>1, RolloutParameters DEF RolloutInit, LagCounted
<1>3. Real
  BY InitReal
<1> QED BY <1>1, <1>2, <1>3, RolloutParameters DEF ConvergedInv, CalmIsConverged, CalmWindow, CalmBound

\* A cache that is late differs.
LEMMA PartsAreSame ==
    /\ SameParts <=> \A part \in Parts : ~ Differs(part)
    /\ \A part \in Parts : Differs(part) => cache[part] # cluster[part]
<1>1. \A part \in Parts : Differs(part) => cache[part] # cluster[part]
  BY DEF Differs, Parts
<1>2. /\ Differs("workload") <=> cache.workload # cluster.workload
      /\ Differs("revisions") <=> cache.revisions # cluster.revisions
      /\ Differs("pods") <=> \E u \in Regarded : cache.pods[u] # cluster.pods[u]
  BY DEF Differs
<1>3. SameParts <=> ~ Differs("workload") /\ ~ Differs("revisions") /\ ~ Differs("pods")
  BY <1>2 DEF SameParts
<1> QED
  BY <1>1, <1>3 DEF Parts

\* The numbers the bounds are about.
LEMMA CalmNumbers ==
    ASSUME Real
    PROVE  /\ calm \in Nat /\ time \in Nat /\ Lag \in Nat /\ StableFor \in Nat
           /\ tracker.healthySince \in Int /\ tracker.healthySince <= time
           /\ \A part \in Parts : behind[part] \in Nat /\ behind[part] <= Lag
           /\ outcome \in {Open, "settled"} /\ due \in BOOLEAN
<1>1. tracker.healthySince \in Int
  BY DEF Real, RolloutType, Trackers, Times, Unset
<1> QED BY <1>1, RolloutParameters DEF Real, RolloutType

\* An evaluation of caches that caught up opens the window or holds it, and settles
\* when the window is over.
LEMMA ConvergedEvaluates ==
    ASSUME ConvergedInv, Evaluate
    PROVE  CalmWindow' /\ CalmBound'
<1>1. PICK s \in SnapshotsOf(cache) : Closes(s) \/ Holds(s) \/ Opens(s)
  BY EvaluateFacts, OwnersLabelled DEF ConvergedInv, Real
<1>2. /\ due /\ ~ due' /\ outcome = Open
      /\ calm' = calm /\ time' = time /\ cluster' = cluster /\ cache' = cache /\ kind' = kind
      /\ calm \in Nat /\ Lag \in Nat /\ StableFor \in Nat /\ time \in Nat
      /\ tracker.healthySince \in Int /\ tracker.healthySince <= time
  BY CalmNumbers DEF Evaluate, ConvergedInv
<1>3. ASSUME outcome' = Open, Converged(cluster), SameParts, calm >= Lag
      PROVE  /\ tracker'.healthySince # Unset
             /\ time - tracker'.healthySince >= calm - Lag
             /\ Baseline' = Judged(cluster.pods)
  <2>1. HealthyNow(s) /\ s.current = Judged(cluster.pods)
    BY <1>3, ConvergedSnapshot DEF ConvergedInv
  <2>2. CASE Holds(s)
    <3>1. calm > Lag => time - tracker.healthySince >= calm - Lag
      BY <1>2, <1>3 DEF ConvergedInv, CalmWindow
    <3> QED BY <1>2, <1>3, <2>1, <2>2, <3>1 DEF Holds
  <2>3. CASE Opens(s)
    <3>1. calm = Lag
      BY <1>2, <1>3, <2>1, <2>3 DEF ConvergedInv, CalmWindow, Opens
    <3> QED BY <1>2, <2>1, <2>3, <3>1 DEF Opens, Unset
  <2> QED BY <1>1, <2>1, <2>2, <2>3 DEF Closes
<1>4. ASSUME outcome' = Open, calm > Lag + StableFor
      PROVE  FALSE
  <2>1. Converged(cluster) /\ SameParts
    <3>1. \A part \in Parts : ~ Differs(part)
      BY <1>2, <1>4, CalmNumbers DEF ConvergedInv, LagCounted
    <3> QED BY <1>2, <1>4, <3>1, PartsAreSame DEF ConvergedInv, CalmIsConverged
  <2>2. /\ tracker.healthySince # Unset
        /\ time - tracker.healthySince >= StableFor
        /\ Baseline = Judged(cluster.pods)
    BY <1>2, <1>4, <2>1 DEF ConvergedInv, CalmWindow
  <2>3. HealthyNow(s) /\ s.current = Judged(cluster.pods)
    BY <2>1, ConvergedSnapshot DEF ConvergedInv
  <2> QED BY <1>1, <1>4, <2>2, <2>3 DEF Closes, Holds, Opens, Open
<1>5. CalmBound'
  BY <1>2, <1>4 DEF CalmBound
<1>6. Converged(cluster)' = Converged(cluster) /\ SameParts' = SameParts /\ Judged(cluster.pods)' = Judged(cluster.pods)
  BY <1>2 DEF Converged, SiblingIsWell, Good, SameParts, Regarded, Judged
<1> QED BY <1>2, <1>3, <1>5, <1>6 DEF CalmWindow

\* Time passing lengthens the calm by no more than the window.
LEMMA ConvergedTicks ==
    ASSUME ConvergedInv, TickerFires
    PROVE  CalmIsConverged' /\ LagCounted' /\ CalmWindow' /\ CalmBound'
<1>1. /\ cluster'.workload = cluster.workload /\ cluster'.revisions = cluster.revisions
      /\ cluster'.pods = cluster.pods
      /\ kind' = kind /\ cache' = cache /\ tracker' = tracker /\ outcome' = outcome
      /\ ~ due /\ due' /\ time' = time + 1
  BY TickFacts DEF Passes, TickerFires, ConvergedInv, Real
<1>2. /\ calm \in Nat /\ Lag \in Nat /\ StableFor \in Nat /\ time \in Nat /\ CalmCap \in Nat
      /\ tracker.healthySince \in Int /\ tracker.healthySince <= time
      /\ \A part \in Parts : behind[part] \in Nat
  BY CalmNumbers, RolloutParameters DEF ConvergedInv
<1>3. /\ calm' \in Nat /\ calm' <= calm + 1 /\ (calm' > 0 => Converged(cluster))
  BY <1>2 DEF TickerFires, Lower
<1>4. Converged(cluster)' = Converged(cluster) /\ SameParts' = SameParts /\ Judged(cluster.pods)' = Judged(cluster.pods)
      /\ Baseline' = Baseline
  <2>1. \A g : Good(cluster, g)' = Good(cluster, g)
    BY <1>1 DEF Good
  <2>2. Converged(cluster)' = Converged(cluster)
    BY <1>1, <2>1 DEF Converged, SiblingIsWell
  <2>3. SameParts' = SameParts
    BY <1>1 DEF SameParts, Regarded
  <2> QED BY <1>1, <2>2, <2>3 DEF Judged, Baseline
<1>5. CalmIsConverged'
  BY <1>3, <1>4 DEF CalmIsConverged
<1>6. LagCounted'
  <2>1. \A part \in Parts : cache[part] # cluster[part] => behind'[part] = behind[part] + 1
    BY TickFacts DEF Passes, ConvergedInv, Real
  <2>2. \A part \in Parts : Differs(part)' = Differs(part)
    BY <1>1 DEF Parts, Differs, Regarded
  <2> QED BY <1>2, <1>3, <2>1, <2>2, PartsAreSame DEF LagCounted, ConvergedInv
<1>7. CalmWindow'
  <2> SUFFICES ASSUME outcome' = Open, Converged(cluster)', SameParts', calm' >= Lag + 1
               PROVE  /\ tracker'.healthySince # Unset
                      /\ time' - tracker'.healthySince >= calm' - Lag
                      /\ Baseline' = Judged(cluster.pods)'
    BY <1>1 DEF CalmWindow
  <2>1. calm >= Lag /\ outcome = Open /\ SameParts /\ Converged(cluster)
    BY <1>1, <1>2, <1>3, <1>4
  <2>2. /\ tracker.healthySince # Unset
        /\ time - tracker.healthySince >= calm - Lag
        /\ Baseline = Judged(cluster.pods)
    BY <1>1, <1>2, <2>1 DEF ConvergedInv, CalmWindow
  <2> QED BY <1>1, <1>2, <1>3, <1>4, <2>2
<1>8. CalmBound'
  BY <1>1, <1>2, <1>3 DEF ConvergedInv, CalmBound
<1> QED BY <1>5, <1>6, <1>7, <1>8

\* Beside a workload it is not taken for a pod of, the sibling changes nothing that
\* is regarded.
LEMMA UnselectedSibling ==
    ASSUME RolloutType, kind \notin Selecting, kind' = kind, cache' = cache,
           cluster' \in SiblingMoved(cluster)
    PROVE  /\ Converged(cluster)' = Converged(cluster) /\ SameParts' = SameParts
           /\ Judged(cluster.pods)' = Judged(cluster.pods)
           /\ \A part \in Parts : Differs(part)' = Differs(part)
<1>1. SiblingStep
  BY SiblingIsStep
<1>2. cluster.pods \in PodMaps /\ cluster'.pods \in PodMaps
  BY <1>1 DEF RolloutType, Clusters, SiblingStep, PodStep
<1>3. \A u \in Pods \ {Sibling} : cluster'.pods[u] = cluster.pods[u]
  BY <1>1, <1>2 DEF SiblingStep, PodMaps
<1>4. cluster'.workload = cluster.workload /\ cluster'.revisions = cluster.revisions
  BY <1>1 DEF SiblingStep, PodStep
<1>5. Regarded = Pods \ {Sibling} /\ Regarded' = Regarded
  BY DEF Regarded
<1>6. /\ Own(cluster'.pods) = Own(cluster.pods)
      /\ \A u \in Own(cluster.pods) : cluster'.pods[u] = cluster.pods[u]
  BY <1>3 DEF Own, Existing
<1>7. Converged(cluster)' = Converged(cluster)
  <2>1. \A g : Good(cluster, g)' = Good(cluster, g)
    BY <1>6 DEF Good
  <2> QED BY <1>4, <2>1 DEF Converged
<1>8. Judged(cluster.pods)' = Judged(cluster.pods)
  BY <1>6 DEF Judged
<1>9. \A part \in Parts : Differs(part)' = Differs(part)
  BY <1>3, <1>4, <1>5 DEF Differs, Parts
<1>10. SameParts' = SameParts
  BY <1>3, <1>4, <1>5 DEF SameParts
<1> QED BY <1>7, <1>8, <1>9, <1>10

\* Every step keeps the invariant.
LEMMA ConvergedStep ==
    ASSUME ConvergedInv, [RolloutNext]_rolloutVars
    PROVE  ConvergedInv'
<1>1. Real'
  BY RealStep DEF ConvergedInv
<1>2. /\ calm \in Nat /\ Lag \in Nat /\ StableFor \in Nat
      /\ \A part \in Parts : behind[part] \in Nat /\ behind[part] <= Lag
  BY CalmNumbers DEF ConvergedInv
<1>3. CASE ClusterMoves
  <2>1. due /\ due' /\ behind' = behind /\ outcome' = outcome /\ kind' = kind /\ cache' = cache
        /\ time' = time /\ tracker' = tracker
    BY <1>3 DEF ClusterMoves
  <2>2. CASE calm' = 0
    BY <1>1, <1>2, <2>1, <2>2 DEF ConvergedInv, CalmIsConverged, LagCounted, CalmWindow, CalmBound
  <2>3. CASE kind \notin Selecting /\ cluster' \in SiblingMoved(cluster) /\ calm' = calm
    <3>1. /\ Converged(cluster)' = Converged(cluster) /\ SameParts' = SameParts
          /\ Judged(cluster.pods)' = Judged(cluster.pods)
          /\ \A part \in Parts : Differs(part)' = Differs(part)
      BY <2>1, <2>3, UnselectedSibling DEF ConvergedInv, Real
    <3>2. Baseline' = Baseline
      BY <2>1 DEF Baseline
    <3> QED BY <1>1, <2>1, <2>3, <3>1, <3>2
            DEF ConvergedInv, CalmIsConverged, LagCounted, CalmWindow, CalmBound
  <2> QED BY <1>3, <2>2, <2>3 DEF ClusterMoves
<1>4. CASE \E part \in Parts : CacheFollows(part)
  <2>1. PICK part \in Parts : CacheFollows(part)
    BY <1>4
  <2>2. /\ due /\ due' /\ calm' = calm /\ cluster' = cluster /\ outcome' = outcome
        /\ kind' = kind /\ time' = time /\ tracker' = tracker
    BY <2>1 DEF CacheFollows
  <2>3. CalmIsConverged'
    BY <2>2 DEF ConvergedInv, CalmIsConverged, Converged, SiblingIsWell, Good
  <2>4. ~ SameParts => calm <= Lag
    BY <1>2, PartsAreSame DEF ConvergedInv, LagCounted
  <2>5. LagCounted'
    <3>1. \A q \in Parts : Differs(q)' => Differs(q) /\ behind'[q] = behind[q]
      <4>1. /\ cache' = [cache EXCEPT ![part] = cluster[part]]
            /\ behind' = [behind EXCEPT ![part] = 0]
        BY <2>1 DEF CacheFollows
      <4>2. /\ DOMAIN cache = Parts /\ DOMAIN behind = Parts
        BY DEF ConvergedInv, Real, RolloutType, Caches, Parts
      <4>3. \A q \in Parts : q # part => cache'[q] = cache[q] /\ behind'[q] = behind[q]
        BY <4>1, <4>2
      <4>4. cache'[part] = cluster'[part]
        BY <2>2, <4>1, <4>2
      <4>5. ~ Differs(part)'
        BY <4>4 DEF Differs, Parts, Regarded
      <4>6. \A q \in Parts : q # part => Differs(q)' = Differs(q)
        BY <2>2, <4>3 DEF Differs, Regarded
      <4> QED BY <4>3, <4>5, <4>6
    <3> QED BY <2>2, <3>1 DEF ConvergedInv, LagCounted
  <2>6. /\ Converged(cluster)' = Converged(cluster) /\ Judged(cluster.pods)' = Judged(cluster.pods)
        /\ Baseline' = Baseline
    BY <2>2 DEF Converged, SiblingIsWell, Good, Judged, Baseline
  <2> QED BY <1>1, <1>2, <2>2, <2>3, <2>4, <2>5, <2>6 DEF ConvergedInv, CalmWindow, CalmBound
<1>5. CASE Evaluate
  <2>1. CalmIsConverged' /\ LagCounted'
    BY <1>5 DEF Evaluate, ConvergedInv, CalmIsConverged, LagCounted, Differs, Regarded,
                Converged, SiblingIsWell, Good
  <2> QED BY <1>1, <1>5, <2>1, ConvergedEvaluates DEF ConvergedInv
<1>6. CASE TickerFires
  BY <1>1, <1>6, ConvergedTicks DEF ConvergedInv
<1>7. CASE UNCHANGED rolloutVars
  <2>1. /\ kind' = kind /\ cluster' = cluster /\ cache' = cache /\ behind' = behind /\ time' = time
        /\ due' = due /\ tracker' = tracker /\ outcome' = outcome /\ calm' = calm
    BY <1>7 DEF rolloutVars
  <2> QED BY <1>1, <2>1 DEF ConvergedInv, CalmIsConverged, LagCounted, CalmWindow, CalmBound,
                            Converged, SiblingIsWell, Good, SameParts, Differs, Regarded,
                            Judged, Baseline
<1> QED BY <1>3, <1>4, <1>5, <1>6, <1>7 DEF RolloutNext

\* The inductive invariant behind ConvergedSettles.
LEMMA RolloutInvariant == RolloutSpec => []ConvergedInv
<1>1. RolloutInit => ConvergedInv
  BY ConvergedInit
<1>2. ConvergedInv /\ [RolloutNext]_rolloutVars => ConvergedInv'
  BY ConvergedStep
<1> QED BY <1>1, <1>2, PTL DEF RolloutSpec

\* Cluster, caches, tracker and histories keep their types, and the caches know
\* nothing the cluster never was: no name, owner or number a split reads is one
\* no object had.
THEOREM RolloutTypeCorrect == RolloutSpec => []Real
<1>1. ConvergedInv => Real
  BY DEF ConvergedInv
<1> QED BY <1>1, RolloutInvariant, PTL

\* A cluster that has converged is found settled within the lag, the window and
\* one evaluation: for every kind, every order of templates, rollbacks included,
\* every lag and window, and however the caches follow and the sibling pod behaves.
\* A custom resource that declares a selector has converged only if its sibling is
\* well, too (tracker.observe over internal/settle/revision.go and dynamic.go).
THEOREM ConvergedSettlesCorrect == RolloutSpec => []ConvergedSettles
<1>1. ConvergedInv => ConvergedSettles
  BY CalmNumbers DEF ConvergedInv, CalmBound, ConvergedSettles
<1> QED BY <1>1, RolloutInvariant, PTL

----------------------------------------------------------------------------
(* What is settled was true *)

\* No template comes back.
Distinct == \A g, h \in Generations : Templates[g] = Templates[h] => g = h

\* A cache that has the objects of a generation has those of all before it.
InOrder ==
    \A k, h \in Generations :
        h <= k /\ Numbered(cache.revisions, k) /\ Templates[h] \in Names(cluster.revisions)
          => Templates[h] \in Names(cache.revisions)

\* What a cache does not have of a pod is younger than the cache is late.
Young ==
    \A u \in Own(cluster.pods) :
        /\ ~ cache.pods[u].there => cluster.age[u] <= behind["pods"]
        /\ \A k \in Generations : cluster.pods[u].hash = Templates[k] =>
            /\ k > cache.workload.observed => cluster.age[u] <= behind["workload"]
            /\ ~ Numbered(cache.revisions, k) => cluster.age[u] <= behind["revisions"]

\* A pod the cache has as Ready is of a generation the cached workload has observed.
ReadyIsObserved ==
    \A u \in Own(cache.pods), k \in Generations :
        cache.pods[u].ready /\ cache.pods[u].hash = Templates[k] => k <= cache.workload.observed

\* No pod that is alive is older than generation j.
NoneOlder(P, j) ==
    \A u \in Own(P), k \in Generations :
        Alive(P, u) /\ P[u].hash = Templates[k] => k >= j

\* A pod of generation j that every cache has had the time to see.
Anchored(j) ==
    \E u \in Own(cluster.pods) : /\ Alive(cluster.pods, u)
                                 /\ cluster.pods[u].hash = Templates[j]
                                 /\ cluster.age[u] = StartUp

\* What a workload that says it is complete stands for.
Completed ==
    /\ cluster.workload.complete => Anchored(cluster.workload.observed)
    /\ cache.workload.complete =>
        /\ cluster.workload.observed = cache.workload.observed => Anchored(cache.workload.observed)
        /\ Numbered(cache.revisions, cache.workload.observed)
        /\ NoneOlder(cluster.pods, cache.workload.observed)
        /\ \/ NoneOlder(cache.pods, cache.workload.observed)
           \/ \E u \in Own(cache.pods) : cache.pods[u].hash = Templates[cache.workload.observed]

\* What is Good in the pod cache was so in the cluster no longer ago than it is late.
GoodRecent ==
    \A g \in Generations :
        /\ Good(cluster, g) => good[g] = 0
        /\ Good(cache, g) => good[g] <= behind["pods"]

\* A pod that is no longer alive, though the cache may not know it yet.
Dead(u) ==
    /\ ~ Alive(cluster.pods, u)
    /\ Alive(cache.pods, u) => behind["pods"] >= time - tracker.healthySince

OwnBaseline == Baseline \ {Sibling}

\* A window is open on the pods of one generation.
OneGeneration ==
    tracker.healthySince # Unset =>
        \E k \in Generations : \A u \in OwnBaseline :
            /\ u \notin cluster.unused
            /\ \/ Dead(u)
               \/ /\ cluster.pods[u].there => cluster.pods[u].hash = Templates[k]
                  /\ cache.pods[u].there => cache.pods[u].hash = Templates[k]

\* A window is open on no pod only while the caches are late.
NoPods ==
    (outcome = Open /\ tracker.healthySince # Unset /\ OwnBaseline = {}) =>
        /\ \/ /\ cluster.workload.observed > cache.workload.observed
              /\ behind["workload"] >= time - tracker.healthySince
           \/ (due /\ ~ cache.workload.complete)
        /\ \A u \in Own(cluster.pods) :
             IF due THEN cluster.age[u] < StartUp
             ELSE cache.pods[u].there => cache.pods[u].hash \notin Names(cache.revisions)

\* Every pod is of a generation that was observed and has its revision object.
LEMMA PodGeneration ==
    ASSUME Real
    PROVE  /\ \A u \in Own(cluster.pods) :
                \E k \in Generations : /\ k <= cluster.workload.observed
                                       /\ cluster.pods[u].hash = Templates[k]
                                       /\ Templates[k] \in Names(cluster.revisions)
           /\ \A u \in Own(cache.pods) :
                \E k \in Generations : /\ k <= cluster.workload.observed
                                       /\ cache.pods[u].hash = Templates[k]
                                       /\ Templates[k] \in Names(cluster.revisions)
           /\ cluster.workload.updateRevision = Templates[cluster.workload.observed]
           /\ Templates[cluster.workload.observed] \in Names(cluster.revisions)
           /\ \A k \in Generations : k <= cluster.workload.observed => Numbered(cluster.revisions, k)
<1>1. \A u \in Own(cluster.pods) :
        \E k \in Generations : /\ k <= cluster.workload.observed
                               /\ cluster.pods[u].hash = Templates[k]
                               /\ Templates[k] \in Names(cluster.revisions)
  BY DEF Real, Managed, PodsOK
<1>2. \A u \in Own(cache.pods) :
        \E k \in Generations : /\ k <= cluster.workload.observed
                               /\ cache.pods[u].hash = Templates[k]
                               /\ Templates[k] \in Names(cluster.revisions)
  BY DEF Real, Known, PodsOK
<1>3. PICK r \in cluster.revisions : r.revision = cluster.workload.observed
  BY DEF Real, Managed
<1>4. r.revision \in Generations /\ r.uid = Templates[r.revision]
  BY <1>3, WorkloadNumbers DEF Real, Managed, RevisionsOK
<1>5. Templates[cluster.workload.observed] \in Names(cluster.revisions)
  BY <1>3, <1>4 DEF Names
<1>6. \A k \in Generations : k <= cluster.workload.observed => Numbered(cluster.revisions, k)
  BY <1>3, <1>4, RolloutParameters DEF Numbered
<1> QED BY <1>1, <1>2, <1>5, <1>6 DEF Real, Managed, WorkloadOK

\* No cache is late by more than the lag, and no pod is counted older than StartUp.
LEMMA AgesAndDelays ==
    ASSUME Real
    PROVE  /\ \A u \in Pods : cluster.age[u] \in Nat /\ cluster.age[u] <= StartUp
           /\ \A part \in Parts : behind[part] \in Nat /\ behind[part] <= Lag
           /\ Lag \in Nat /\ StartUp = Lag + 1
           /\ \A u \in Own(cluster.pods) : u \in Pods /\ u # Sibling
           /\ \A u \in Own(cache.pods) : u \in Pods /\ u # Sibling
           /\ "workload" \in Parts /\ "revisions" \in Parts /\ "pods" \in Parts
BY WorkloadNumbers, RolloutParameters DEF Real, Own, Existing, Parts

\* Every step keeps the revision objects in a cache in order.
LEMMA InOrderStep ==
    ASSUME Distinct, Real, InOrder, [RolloutNext]_rolloutVars
    PROVE  InOrder'
<1>1. CASE ClusterMoves
  <2>1. cache' = cache /\ Moves
    BY <1>1, MoveFacts DEF ClusterMoves, Real
  <2>2. SUFFICES ASSUME NEW k \in Generations, NEW h \in Generations,
                        h <= k, Numbered(cache.revisions, k),
                        Templates[h] \in Names(cluster'.revisions)
                 PROVE  Templates[h] \in Names(cluster.revisions)
    BY <2>1, <2>2 DEF InOrder, Numbered
  <2>3. CASE EditStep \/ PublishStep \/ PodStep
    BY <2>2, <2>3 DEF EditStep, PublishStep, PodStep
  <2>4. CASE DriftStep
    <3>1. RevisionObject("drift", Len(Templates) + 1, 9).uid = "drift"
      BY DEF RevisionObject
    <3>2. Templates[h] # "drift"
      BY RolloutParameters
    <3> QED BY <2>2, <2>4, <3>1, <3>2 DEF DriftStep, Names
  <2>5. CASE ReconcileStep
    <3> DEFINE g == cluster.workload.generation
    <3>1. PICK born \in Nat :
            cluster'.revisions = {r \in cluster.revisions : r.uid # Templates[g]}
                                    \union {RevisionObject(Templates[g], g, born)}
      BY <2>5 DEF ReconcileStep
    <3>2. RevisionObject(Templates[g], g, born).uid = Templates[g]
      BY DEF RevisionObject
    <3>3. Templates[h] = Templates[g] \/ Templates[h] \in Names(cluster.revisions)
      BY <2>2, <3>1, <3>2 DEF Names
    <3>4. ASSUME Templates[h] = Templates[g]
          PROVE  Templates[h] \in Names(cluster.revisions)
      <4>1. g \in Generations /\ h = g
        BY <3>4, WorkloadNumbers DEF Distinct, Real
      <4>2. PICK r \in cache.revisions : r.revision \in k .. Len(Templates)
        BY <2>2 DEF Numbered
      <4>3. r.revision \in Generations /\ r.revision >= g
        BY <2>2, <4>1, <4>2, WorkloadNumbers, RolloutParameters DEF Real
      <4>4. r.revision <= cluster.workload.observed
        BY <4>3 DEF Real, Known, RevisionsOK
      <4>5. cluster.workload.observed = g
        BY <4>1, <4>3, <4>4, WorkloadNumbers DEF Real, Managed, WorkloadOK
      <4> QED BY <4>1, <4>5, PodGeneration
    <3> QED BY <3>3, <3>4
  <2> QED BY <2>1, <2>3, <2>4, <2>5 DEF Moves
<1>2. CASE \E part \in Parts : CacheFollows(part)
  <2>1. Filled /\ cluster' = cluster
    BY <1>2, FollowFacts DEF CacheFollows, Real
  <2>2. cache'.revisions = cache.revisions \/ cache'.revisions = cluster'.revisions
    BY <2>1 DEF Filled, WorkloadFollows, RevisionsFollow, PodsFollow
  <2> QED BY <2>1, <2>2 DEF InOrder
<1>3. CASE TickerFires
  <2>1. cluster'.revisions = cluster.revisions /\ cache' = cache
    BY <1>3, TickFacts DEF Passes, TickerFires, Real
  <2> QED BY <2>1 DEF InOrder
<1>4. CASE Evaluate \/ UNCHANGED rolloutVars
  BY <1>4 DEF Evaluate, rolloutVars, InOrder
<1> QED BY <1>1, <1>2, <1>3, <1>4 DEF RolloutNext

\* Every step keeps what a cache does not have of a pod younger than it is late.
LEMMA YoungStep ==
    ASSUME Distinct, Real, Young, [RolloutNext]_rolloutVars
    PROVE  Young'
<1>1. CASE ClusterMoves
  <2>1. PodsMove /\ cache' = cache /\ behind' = behind
    BY <1>1, MoveFacts DEF ClusterMoves, Real
  <2>2. ASSUME NEW u \in Own(cluster'.pods)
        PROVE  /\ ~ cache.pods[u].there => cluster'.age[u] <= behind["pods"]
               /\ \A k \in Generations : cluster'.pods[u].hash = Templates[k] =>
                   /\ k > cache.workload.observed => cluster'.age[u] <= behind["workload"]
                   /\ ~ Numbered(cache.revisions, k) => cluster'.age[u] <= behind["revisions"]
    <3>1. CASE Kept(u)
      BY <3>1 DEF Kept, Young
    <3>2. CASE Born(u)
      BY <3>2, AgesAndDelays DEF Born
    <3> QED BY <2>1, <3>1, <3>2 DEF PodsMove
  <2> QED BY <2>1, <2>2 DEF Young
<1>2. CASE \E part \in Parts : CacheFollows(part)
  <2>1. Filled /\ cluster' = cluster
    BY <1>2, FollowFacts DEF CacheFollows, Real
  <2>2. CASE WorkloadFollows
    <3>1. \A u \in Own(cluster.pods), k \in Generations :
             cluster.pods[u].hash = Templates[k] => ~ k > cluster.workload.observed
      BY PodGeneration, WorkloadNumbers DEF Distinct, Real
    <3> QED BY <2>1, <2>2, <3>1 DEF WorkloadFollows, Young
  <2>3. CASE RevisionsFollow
    <3>1. \A u \in Own(cluster.pods), k \in Generations :
             cluster.pods[u].hash = Templates[k] => Numbered(cluster.revisions, k)
      BY PodGeneration DEF Distinct
    <3> QED BY <2>1, <2>3, <3>1 DEF RevisionsFollow, Young
  <2>4. CASE PodsFollow
    <3>1. \A u \in Own(cluster.pods) : cluster.pods[u].there
      BY DEF Own, Existing
    <3> QED BY <2>1, <2>4, <3>1 DEF PodsFollow, Young
  <2> QED BY <2>1, <2>2, <2>3, <2>4 DEF Filled
<1>3. CASE TickerFires
  <2>1. /\ cluster'.pods = cluster.pods /\ cache' = cache
        /\ \A u \in Pods : cluster'.age[u] = Lower(cluster.age[u] + 1, StartUp)
        /\ \A part \in Parts :
            IF cache[part] = cluster[part] THEN behind'[part] = 0
            ELSE behind[part] < Lag /\ behind'[part] = behind[part] + 1
    BY <1>3, TickFacts DEF Passes, TickerFires, Real
  <2>2. \A u \in Own(cluster.pods) : cluster'.age[u] <= cluster.age[u] + 1
    BY <2>1, AgesAndDelays DEF Lower
  <2>3. ASSUME NEW u \in Own(cluster.pods)
        PROVE  /\ ~ cache.pods[u].there => cluster'.age[u] <= behind'["pods"]
               /\ \A k \in Generations : cluster.pods[u].hash = Templates[k] =>
                   /\ k > cache.workload.observed => cluster'.age[u] <= behind'["workload"]
                   /\ ~ Numbered(cache.revisions, k) => cluster'.age[u] <= behind'["revisions"]
    <3>0. /\ cluster'.age[u] <= cluster.age[u] + 1 /\ cluster.age[u] \in Nat /\ cluster'.age[u] \in Nat
          /\ \A part \in Parts : behind[part] \in Nat
      BY <2>1, <2>2, AgesAndDelays DEF Lower
    <3>1. ~ cache.pods[u].there => cluster'.age[u] <= behind'["pods"]
      <4>1. SUFFICES ASSUME ~ cache.pods[u].there
                     PROVE  cluster'.age[u] <= behind'["pods"]
        OBVIOUS
      <4>2. cluster.pods[u].there
        BY DEF Own, Existing
      <4>3. cache.pods # cluster.pods
        BY <4>1, <4>2
      <4>4. behind'["pods"] = behind["pods"] + 1 /\ cluster.age[u] <= behind["pods"]
        BY <2>1, <4>1, <4>3, AgesAndDelays DEF Young
      <4> QED BY <3>0, <4>4, AgesAndDelays
    <3>2. ASSUME NEW k \in Generations, cluster.pods[u].hash = Templates[k]
          PROVE  /\ k <= cluster.workload.observed /\ Numbered(cluster.revisions, k)
                 /\ k \in Nat /\ cluster.workload.observed \in Nat
      BY <3>2, PodGeneration, WorkloadNumbers DEF Distinct, Real
    <3>3. ASSUME NEW k \in Generations, cluster.pods[u].hash = Templates[k], k > cache.workload.observed
          PROVE  cluster'.age[u] <= behind'["workload"]
      <4>1. cache.workload # cluster.workload
        BY <3>2, <3>3
      <4>2. behind'["workload"] = behind["workload"] + 1 /\ cluster.age[u] <= behind["workload"]
        BY <2>1, <3>3, <4>1, AgesAndDelays DEF Young
      <4> QED BY <3>0, <4>2, AgesAndDelays
    <3>4. ASSUME NEW k \in Generations, cluster.pods[u].hash = Templates[k], ~ Numbered(cache.revisions, k)
          PROVE  cluster'.age[u] <= behind'["revisions"]
      <4>1. cache.revisions # cluster.revisions
        BY <3>2, <3>4
      <4>2. behind'["revisions"] = behind["revisions"] + 1 /\ cluster.age[u] <= behind["revisions"]
        BY <2>1, <3>4, <4>1, AgesAndDelays DEF Young
      <4> QED BY <3>0, <4>2, AgesAndDelays
    <3> QED BY <3>1, <3>3, <3>4
  <2> QED BY <2>1, <2>3 DEF Young
<1>4. CASE Evaluate \/ UNCHANGED rolloutVars
  <2>1. cluster' = cluster /\ cache' = cache /\ behind' = behind
    BY <1>4 DEF Evaluate, rolloutVars
  <2> QED BY <2>1 DEF Young
<1> QED BY <1>1, <1>2, <1>3, <1>4 DEF RolloutNext

\* Every step keeps Ready pods in the cache of a generation the cached workload has
\* observed: before a pod is Ready the workload's cache has had the time to follow.
LEMMA ReadyStep ==
    ASSUME Real, Young, ReadyIsObserved, [RolloutNext]_rolloutVars
    PROVE  ReadyIsObserved'
<1>1. CASE \E part \in Parts : CacheFollows(part)
  <2>1. Filled /\ cluster' = cluster
    BY <1>1, FollowFacts DEF CacheFollows, Real
  <2>2. CASE WorkloadFollows
    <3>1. cache.workload.observed <= cluster.workload.observed
      BY DEF Real, Known
    <3> QED BY <2>2, <3>1, WorkloadNumbers DEF WorkloadFollows, ReadyIsObserved, Real
  <2>3. CASE RevisionsFollow
    BY <2>3 DEF RevisionsFollow, ReadyIsObserved
  <2>4. CASE PodsFollow
    <3>1. ASSUME NEW u \in Own(cluster.pods), NEW k \in Generations,
                 cluster.pods[u].ready, cluster.pods[u].hash = Templates[k]
          PROVE  k <= cache.workload.observed
      <4>1. cluster.age[u] = Lag + 1
        BY <3>1, AgesAndDelays DEF Real, Managed
      <4>2. k > cache.workload.observed => cluster.age[u] <= behind["workload"]
        BY <3>1 DEF Young
      <4> QED BY <4>1, <4>2, AgesAndDelays, WorkloadNumbers DEF Real
    <3> QED BY <2>4, <3>1 DEF PodsFollow, ReadyIsObserved
  <2> QED BY <2>1, <2>2, <2>3, <2>4 DEF Filled
<1>2. CASE ClusterMoves \/ Evaluate \/ TickerFires \/ UNCHANGED rolloutVars
  <2>1. cache' = cache
    BY <1>2 DEF ClusterMoves, Evaluate, TickerFires, rolloutVars
  <2> QED BY <2>1 DEF ReadyIsObserved
<1> QED BY <1>1, <1>2 DEF RolloutNext


\* An anchored pod is in the cache, and its generation's revision object too.
LEMMA AnchoredIsKnown ==
    ASSUME Real, Young, NEW j \in Generations, Anchored(j)
    PROVE  /\ Numbered(cache.revisions, j)
           /\ \E u \in Own(cache.pods) : cache.pods[u].hash = Templates[j]
<1>1. PICK u \in Own(cluster.pods) : /\ Alive(cluster.pods, u)
                                     /\ cluster.pods[u].hash = Templates[j]
                                     /\ cluster.age[u] = StartUp
  BY DEF Anchored
<1>2. cluster.age[u] = Lag + 1 /\ behind["pods"] <= Lag /\ behind["revisions"] <= Lag
      /\ Lag \in Nat /\ behind["pods"] \in Nat /\ behind["revisions"] \in Nat
      /\ u \in Pods /\ u # Sibling
  BY <1>1, AgesAndDelays
<1>3. cache.pods[u].there /\ Numbered(cache.revisions, j)
  <2>1. /\ ~ cache.pods[u].there => cluster.age[u] <= behind["pods"]
        /\ ~ Numbered(cache.revisions, j) => cluster.age[u] <= behind["revisions"]
    BY <1>1 DEF Young
  <2> QED BY <1>2, <2>1
<1>4. u \in Own(cache.pods) /\ cache.pods[u].hash = Templates[j]
  <2>1. u \in Own(cache.pods)
    BY <1>2, <1>3 DEF Own, Existing
  <2> QED BY <1>1, <2>1 DEF Real, Known
<1> QED BY <1>3, <1>4

\* A move of the cluster takes nothing from what the cached workload says is complete.
LEMMA CompletedMoves ==
    ASSUME Distinct, Real, Completed, ClusterMoves
    PROVE  Completed'
<1>1. /\ PodsMove /\ Moves /\ cache' = cache
      /\ cluster'.workload.observed >= cluster.workload.observed
      /\ cluster'.workload.observed \in Nat
  BY MoveFacts, MovesGrow DEF ClusterMoves, Real, PodsMove, Clusters, Workloads, Generations
<1>2. /\ cluster.workload.observed \in Generations /\ cache.workload.observed \in Generations
      /\ \A k \in Generations : k \in Nat
  BY WorkloadNumbers DEF Real
<1>3. \A u \in Own(cluster.pods) : u \notin cluster.unused
  BY DEF Real, Known, Own
\* An anchor of what is observed stays one.
<1>4. ASSUME Anchored(cluster.workload.observed)
      PROVE  Anchored(cluster.workload.observed)' \/ cluster'.workload.observed # cluster.workload.observed
  <2>1. PICK u \in Own(cluster.pods) : /\ Alive(cluster.pods, u)
                                       /\ cluster.pods[u].hash = Templates[cluster.workload.observed]
                                       /\ cluster.age[u] = StartUp
    BY <1>4 DEF Anchored
  <2>2. cluster.pods[u].hash = cluster.workload.updateRevision
    BY <2>1, PodGeneration
  <2>3. u \in Own(cluster'.pods) /\ Alive(cluster'.pods, u) /\ Kept(u)
    BY <1>1, <1>3, <2>1, <2>2 DEF PodsMove
  <2>4. cluster'.pods[u].hash = cluster.pods[u].hash /\ cluster'.age[u] = StartUp
    BY <2>1, <2>3 DEF Kept
  <2>5. StartUp' = StartUp
    BY DEF StartUp
  <2> QED BY <2>1, <2>3, <2>4, <2>5 DEF Anchored
<1>5. cluster'.workload.complete => Anchored(cluster.workload.observed)'
  <2>1. SUFFICES ASSUME cluster'.workload.complete
                 PROVE  Anchored(cluster.workload.observed)'
    OBVIOUS
  <2>2. CASE ReconcileStep
    BY <2>1, <2>2 DEF ReconcileStep
  <2>3. CASE EditStep \/ DriftStep \/ PodStep
    <3>1. cluster.workload.complete /\ cluster'.workload.observed = cluster.workload.observed
      BY <2>1, <2>3 DEF EditStep, DriftStep, PodStep
    <3> QED BY <1>4, <3>1 DEF Completed
  <2>4. CASE PublishStep
    <3>1. PICK u \in Own(cluster.pods) : Alive(cluster.pods, u)
      BY <2>1, <2>4 DEF PublishStep
    <3>2. cluster.pods[u].hash = cluster.workload.updateRevision /\ cluster.pods[u].ready
      BY <2>1, <2>4, <3>1 DEF PublishStep
    <3>3. cluster.age[u] = StartUp
      BY <3>2 DEF Real, Managed
    <3>4. Anchored(cluster.workload.observed)
      BY <3>1, <3>2, <3>3, PodGeneration DEF Anchored
    <3>5. cluster'.workload.observed = cluster.workload.observed
      BY <2>4 DEF PublishStep
    <3> QED BY <1>4, <3>4, <3>5
  <2> QED BY <1>1, <2>2, <2>3, <2>4 DEF Moves
<1>6. ASSUME cache.workload.complete
      PROVE  /\ cluster'.workload.observed = cache.workload.observed => Anchored(cache.workload.observed)'
             /\ NoneOlder(cluster.pods, cache.workload.observed)'
  <2> DEFINE j == cache.workload.observed
  <2>1. j <= cluster.workload.observed /\ cache'.workload.observed = j
    BY <1>1 DEF Real, Known
  <2>2. ASSUME cluster'.workload.observed = j
        PROVE  Anchored(cache.workload.observed)'
    <3>1. cluster.workload.observed = j
      BY <1>1, <1>2, <2>1, <2>2
    <3>2. Anchored(cluster.workload.observed)
      BY <1>6, <3>1 DEF Completed
    <3>3. Anchored(cluster.workload.observed)'
      BY <1>4, <2>2, <3>1, <3>2
    <3> QED BY <1>1, <2>2, <3>3
  <2>3. ASSUME NEW u \in Own(cluster'.pods), NEW k \in Generations,
               Alive(cluster'.pods, u), cluster'.pods[u].hash = Templates[k]
        PROVE  k >= j
    <3>1. CASE Kept(u)
      <4>1. u \in Own(cluster.pods) /\ Alive(cluster.pods, u) /\ cluster.pods[u].hash = Templates[k]
        BY <2>3, <3>1 DEF Kept
      <4>2. NoneOlder(cluster.pods, j)
        BY <1>6 DEF Completed
      <4> QED BY <4>1, <4>2 DEF NoneOlder
    <3>2. CASE Born(u)
      <4>1. Templates[k] = Templates[cluster.workload.observed]
        BY <2>3, <3>2, PodGeneration DEF Born
      <4> QED BY <1>2, <2>1, <4>1 DEF Distinct
    <3> QED BY <1>1, <3>1, <3>2 DEF PodsMove
  <2>4. NoneOlder(cluster.pods, cache.workload.observed)'
    BY <2>1, <2>3 DEF NoneOlder
  <2> QED BY <2>2, <2>4
<1>7. ASSUME cache.workload.complete
      PROVE  /\ Numbered(cache.revisions, cache.workload.observed)'
             /\ \/ NoneOlder(cache.pods, cache.workload.observed)'
                \/ \E u \in Own(cache'.pods) : cache'.pods[u].hash = Templates[cache'.workload.observed]
  BY <1>1, <1>7 DEF Completed, Numbered, NoneOlder
<1> QED BY <1>1, <1>5, <1>6, <1>7 DEF Completed

\* A cache that follows keeps what the cached workload says is complete.
LEMMA CompletedFollows ==
    ASSUME Distinct, Real, Young, Completed, Filled, cluster' = cluster
    PROVE  Completed'
<1>1. /\ cluster.workload.observed \in Generations /\ cache.workload.observed \in Generations
      /\ \A k \in Generations : k \in Nat
  BY WorkloadNumbers DEF Real
<1>2. StartUp' = StartUp
  BY DEF StartUp
<1>3. \A j \in Generations : Anchored(j)' = Anchored(j)
  BY <1>2 DEF Anchored
<1>4. cluster'.workload.complete => Anchored(cluster.workload.observed)'
  BY <1>1, <1>3 DEF Completed
<1>5. CASE WorkloadFollows
  <2>1. /\ cache'.workload = cluster.workload /\ cache'.revisions = cache.revisions /\ cache'.pods = cache.pods
    BY <1>5 DEF WorkloadFollows
  <2> DEFINE j == cluster.workload.observed
  <2>2. ASSUME cluster.workload.complete
        PROVE  /\ Anchored(j)
               /\ Numbered(cache.revisions, j)
               /\ NoneOlder(cluster.pods, j)
               /\ \E u \in Own(cache.pods) : cache.pods[u].hash = Templates[j]
    <3>1. Anchored(j)
      BY <2>2 DEF Completed
    <3>2. ASSUME NEW u \in Own(cluster.pods), NEW k \in Generations,
                 Alive(cluster.pods, u), cluster.pods[u].hash = Templates[k]
          PROVE  k >= j
      <4>1. Templates[k] = Templates[j]
        BY <2>2, <3>2, PodGeneration DEF Real, Managed
      <4> QED BY <1>1, <4>1 DEF Distinct
    <3> QED BY <1>1, <3>1, <3>2, AnchoredIsKnown DEF NoneOlder
  <2> QED BY <1>1, <1>3, <1>4, <2>1, <2>2 DEF Completed
<1>6. CASE RevisionsFollow
  <2>1. /\ cache'.workload = cache.workload /\ cache'.revisions = cluster.revisions /\ cache'.pods = cache.pods
    BY <1>6 DEF RevisionsFollow
  <2>2. Numbered(cluster.revisions, cache.workload.observed)
    BY <1>1, PodGeneration DEF Real, Known
  <2> QED BY <1>1, <1>3, <1>4, <2>1, <2>2 DEF Completed
<1>7. CASE PodsFollow
  <2>1. /\ cache'.workload = cache.workload /\ cache'.revisions = cache.revisions /\ cache'.pods = cluster.pods
    BY <1>7 DEF PodsFollow
  <2> QED BY <1>1, <1>3, <1>4, <2>1 DEF Completed
<1> QED BY <1>5, <1>6, <1>7 DEF Filled

\* Every step keeps what the cached workload says is complete.
LEMMA CompletedStep ==
    ASSUME Distinct, Real, Young, Completed, [RolloutNext]_rolloutVars
    PROVE  Completed'
<1>1. CASE ClusterMoves
  BY <1>1, CompletedMoves
<1>2. CASE \E part \in Parts : CacheFollows(part)
  BY <1>2, CompletedFollows, FollowFacts DEF CacheFollows, Real
<1>3. CASE TickerFires
  <2>1. /\ cluster'.workload = cluster.workload /\ cluster'.pods = cluster.pods /\ cache' = cache
        /\ \A u \in Pods : cluster'.age[u] = Lower(cluster.age[u] + 1, StartUp)
    BY <1>3, TickFacts DEF Passes, TickerFires, Real
  <2>2. \A u \in Own(cluster.pods) : cluster.age[u] = StartUp => cluster'.age[u] = StartUp
    BY <2>1, AgesAndDelays DEF Lower
  <2>3. \A j : Anchored(j) => Anchored(j)'
    <3>1. StartUp' = StartUp
      BY DEF StartUp
    <3> QED BY <2>1, <2>2, <3>1 DEF Anchored
  <2> QED BY <2>1, <2>3 DEF Completed
<1>4. CASE Evaluate \/ UNCHANGED rolloutVars
  <2>1. cluster' = cluster /\ cache' = cache
    BY <1>4 DEF Evaluate, rolloutVars
  <2> QED BY <2>1 DEF Completed, Anchored, Numbered, NoneOlder
<1> QED BY <1>1, <1>2, <1>3, <1>4 DEF RolloutNext

\* Every step keeps that what is Good in the pod cache was Good in the cluster no
\* longer ago than the cache is late.
LEMMA GoodRecentStep ==
    ASSUME Distinct, Real, GoodRecent, [RolloutNext]_rolloutVars
    PROVE  GoodRecent'
<1>1. /\ good \in [Generations -> 0 .. GoodCap] /\ GoodCap \in Nat
      /\ \A k \in Generations : k \in Nat
      /\ \A part \in Parts : behind[part] \in Nat
  BY RolloutParameters, AgesAndDelays, WorkloadNumbers DEF Real, RolloutType
<1>2. CASE ClusterMoves
  <2>1. cache' = cache /\ behind' = behind /\ good' = GoodAfter(cluster', 0)
    BY <1>2 DEF ClusterMoves
  <2>2. \A g \in Generations : /\ good'[g] <= good[g] + 0 /\ good'[g] \in Nat
                               /\ g <= cluster'.workload.generation /\ Good(cluster', g) => good'[g] = 0
    BY <1>1, <2>1, GoodAfterType
  <2>3. Real'
    BY <1>2, RealStep DEF RolloutNext
  <2>4. ASSUME NEW g \in Generations, Good(cluster', g)
        PROVE  g <= cluster'.workload.generation
    <3>1. PICK u \in Own(cluster'.pods) : cluster'.pods[u].hash = Templates[g]
      BY <2>4 DEF Good
    <3>2. PICK k \in Generations : k <= cluster'.workload.observed /\ cluster'.pods[u].hash = Templates[k]
      BY <2>3, <3>1 DEF Real, Managed, PodsOK
    <3>3. k = g
      BY <3>1, <3>2 DEF Distinct
    <3>4. cluster'.workload.observed <= cluster'.workload.generation
          /\ cluster'.workload.observed \in Nat /\ cluster'.workload.generation \in Nat
      BY <2>3, <1>1 DEF Real, Managed, WorkloadOK, RolloutType, Clusters, Workloads
    <3> QED BY <1>1, <3>2, <3>3, <3>4
  <2>5. ASSUME NEW g \in Generations, Good(cache, g)
        PROVE  good'[g] <= behind'["pods"]
    <3>1. good[g] <= behind["pods"] /\ good[g] \in Nat
      BY <1>1, <2>5 DEF GoodRecent
    <3> QED BY <1>1, <2>1, <2>2, <3>1, AgesAndDelays
  <2> QED BY <2>1, <2>2, <2>4, <2>5 DEF GoodRecent
<1>3. CASE \E part \in Parts : CacheFollows(part)
  <2>1. Filled /\ cluster' = cluster /\ good' = good
    BY <1>3, FollowFacts DEF CacheFollows, Real
  <2>2. CASE cache'.pods = cache.pods /\ behind'["pods"] = behind["pods"]
    BY <2>1, <2>2 DEF GoodRecent, Good
  <2>3. CASE PodsFollow
    <3>1. \A g \in Generations : Good(cache', g) = Good(cluster, g)
      BY <2>3 DEF PodsFollow, Good
    <3> QED BY <1>1, <2>1, <2>3, <3>1 DEF PodsFollow, GoodRecent
  <2> QED BY <2>1, <2>2, <2>3 DEF Filled, WorkloadFollows, RevisionsFollow
<1>4. CASE TickerFires
  <2>1. /\ cluster'.pods = cluster.pods /\ cache' = cache
        /\ good' = GoodAfter(cluster, 1)
        /\ \A part \in Parts :
            IF cache[part] = cluster[part] THEN behind'[part] = 0
            ELSE behind[part] < Lag /\ behind'[part] = behind[part] + 1
    BY <1>4, TickFacts DEF Passes, TickerFires, Real
  <2>2. \A g \in Generations : /\ good'[g] <= good[g] + 1 /\ good'[g] \in Nat
                               /\ g <= cluster.workload.generation /\ Good(cluster, g) => good'[g] = 0
    BY <1>1, <2>1, GoodAfterType
  <2>3. ASSUME NEW g \in Generations, Good(cluster, g)
        PROVE  g <= cluster.workload.generation
    <3>1. PICK u \in Own(cluster.pods) : cluster.pods[u].hash = Templates[g]
      BY <2>3 DEF Good
    <3>2. g <= cluster.workload.observed
      BY <3>1, PodGeneration DEF Distinct
    <3> QED BY <3>2, WorkloadNumbers DEF Real, Managed, WorkloadOK
  <2>4. \A g \in Generations : Good(cluster', g) = Good(cluster, g) /\ Good(cache', g) = Good(cache, g)
    BY <2>1 DEF Good
  <2>5. ASSUME NEW g \in Generations, Good(cache, g)
        PROVE  good'[g] <= behind'["pods"]
    <3>1. CASE cache.pods = cluster.pods
      <4>1. Good(cluster, g)
        BY <2>5, <3>1 DEF Good
      <4>2. good'[g] = 0 /\ behind'["pods"] = 0
        BY <2>1, <2>2, <2>3, <3>1, <4>1, AgesAndDelays
      <4> QED BY <4>2
    <3>2. CASE cache.pods # cluster.pods
      <4>1. behind'["pods"] = behind["pods"] + 1 /\ good[g] <= behind["pods"]
        BY <2>1, <2>5, <3>2, AgesAndDelays DEF GoodRecent
      <4> QED BY <1>1, <2>2, <4>1, AgesAndDelays
    <3> QED BY <3>1, <3>2
  <2> QED BY <2>2, <2>3, <2>4, <2>5 DEF GoodRecent
<1>5. CASE Evaluate \/ UNCHANGED rolloutVars
  <2>1. cluster' = cluster /\ cache' = cache /\ good' = good /\ behind' = behind
    BY <1>5 DEF Evaluate, rolloutVars
  <2> QED BY <2>1 DEF GoodRecent, Good
<1> QED BY <1>2, <1>3, <1>4, <1>5 DEF RolloutNext


\* What a healthy snapshot says of the caches: the rollout complete, the generation
\* observed, every pod of the target that has a revision object current and Ready.
LEMMA HealthyFacts ==
    ASSUME Real, NEW s \in SnapshotsOf(cache), HealthyNow(s)
    PROVE  /\ cache.workload.complete
           /\ kind # "Legacy" => cache.workload.observed = cache.workload.generation
           /\ s.current \subseteq Existing(cache.pods)
           /\ \A u \in s.current : cache.pods[u].ready /\ Alive(cache.pods, u)
           /\ \A u \in Own(cache.pods) : cache.pods[u].hash \in Names(cache.revisions) => u \in s.current
<1>1. /\ kind \in Kinds /\ cache \in Caches
      /\ \A r \in cache.revisions : r.owner = "target"
  BY OwnersLabelled DEF Real, RolloutType
<1>2. /\ s.kstatus = StatusOf(cache.workload)
      /\ s.generation = (IF kind \in Customs THEN 0 ELSE cache.workload.generation)
      /\ s.observedGeneration = (IF kind \in Customs THEN 0 ELSE cache.workload.observed)
      /\ PodsSeen(cache, s)
      /\ s.current \subseteq Existing(cache.pods)
      /\ \A u \in Own(cache.pods) : Belongs(cache, u) => u \in s.current \union s.old
  BY <1>1, SnapshotFacts
<1>3. /\ s.observedGeneration >= s.generation /\ s.kstatus = "Current" /\ s.old = {}
      /\ \A u \in s.current : ~ s.pod[u].terminating /\ PodReady(s.pod[u])
  BY DEF HealthyNow
<1>4. cache.workload.complete
  BY <1>2, <1>3 DEF StatusOf, Dynamic!ResourceStatus, Dynamic!Compute
<1>5. ASSUME kind # "Legacy"
      PROVE  cache.workload.observed = cache.workload.generation
  <2>1. CASE kind \in Customs
    BY <1>2, <1>3, <1>5, <2>1 DEF StatusOf, Dynamic!ResourceStatus, Dynamic!Compute,
                                   Dynamic!NormalizeObservedGeneration, Customs, PublishedForm
  <2>2. CASE kind \notin Customs
    <3>1. cache.workload.observed >= cache.workload.generation
      BY <1>2, <1>3, <2>2
    <3> QED BY <3>1, WorkloadNumbers DEF Real, Known, WorkloadOK
  <2> QED BY <2>1, <2>2
<1>6. \A u \in s.current : cache.pods[u].ready /\ Alive(cache.pods, u)
  BY <1>2, <1>3 DEF PodsSeen, PodReady, Alive
<1>7. ASSUME NEW u \in Own(cache.pods), cache.pods[u].hash \in Names(cache.revisions)
      PROVE  u \in s.current
  <2>1. cache.pods[u].owner = OwnerOf(cache.pods[u].hash)
    BY DEF Real, Known, PodsOK
  <2> QED BY <1>2, <1>3, <1>7, <2>1 DEF Belongs
<1> QED BY <1>2, <1>4, <1>5, <1>6, <1>7

Facts == Distinct /\ Real /\ InOrder /\ Young /\ ReadyIsObserved /\ Completed /\ GoodRecent

\* A window is opened on the pods of the observed generation, and on older ones only
\* when they are dead already.
LEMMA OneGenerationEvaluates ==
    ASSUME Facts, OneGeneration, Evaluate
    PROVE  OneGeneration'
<1>1. PICK s \in SnapshotsOf(cache) : Closes(s) \/ Holds(s) \/ Opens(s)
  BY EvaluateFacts, OwnersLabelled DEF Facts, Real
<1>2. /\ cluster' = cluster /\ cache' = cache /\ behind' = behind /\ time' = time
      /\ time \in Nat
  BY DEF Evaluate, Facts, Real, RolloutType
<1>3. CASE Closes(s)
  BY <1>3 DEF Closes, OneGeneration
<1>4. CASE Holds(s)
  <2>1. tracker'.healthySince = tracker.healthySince /\ OwnBaseline' = OwnBaseline
    BY <1>4 DEF Holds, OwnBaseline
  <2>2. \A u : Dead(u)' = Dead(u)
    BY <1>2, <2>1 DEF Dead
  <2> QED BY <1>2, <2>1, <2>2 DEF OneGeneration
<1>5. CASE Opens(s)
  <2> DEFINE j == cache.workload.observed
  <2>1. /\ HealthyNow(s) /\ tracker'.healthySince = time /\ OwnBaseline' = s.current \ {Sibling}
        /\ j \in Generations /\ \A k \in Generations : k \in Nat
    BY <1>5, WorkloadNumbers DEF Opens, OwnBaseline, Facts, Real
  <2>2. ASSUME NEW u \in s.current \ {Sibling}
        PROVE  /\ u \notin cluster.unused
               /\ \/ Dead(u)'
                  \/ /\ cluster.pods[u].there => cluster.pods[u].hash = Templates[j]
                     /\ cache.pods[u].there => cache.pods[u].hash = Templates[j]
    <3>1. /\ u \in Own(cache.pods) /\ cache.pods[u].ready /\ Alive(cache.pods, u)
          /\ cache.workload.complete
      BY <2>1, HealthyFacts DEF Facts, Own
    <3>2. u \notin cluster.unused
      BY <3>1 DEF Facts, Real, Known, Own
    <3>3. PICK k \in Generations : cache.pods[u].hash = Templates[k]
      BY <3>1, PodGeneration DEF Facts
    <3>4. k <= j
      BY <3>1, <3>3 DEF Facts, ReadyIsObserved
    <3>5. CASE k = j
      <4>1. cluster.pods[u].there => u \in Own(cluster.pods)
        BY <3>1, AgesAndDelays DEF Own, Existing, Facts
      <4> QED BY <3>1, <3>2, <3>3, <3>5, <4>1 DEF Facts, Real, Known
    <3>6. CASE k < j
      <4>1. ASSUME Alive(cluster.pods, u)
            PROVE  FALSE
        <5>1. u \in Own(cluster.pods)
          BY <3>1, <4>1, AgesAndDelays DEF Own, Existing, Facts, Alive
        <5>2. cluster.pods[u].hash = Templates[k]
          BY <3>1, <3>3, <5>1 DEF Facts, Real, Known
        <5>3. NoneOlder(cluster.pods, j)
          BY <3>1 DEF Facts, Completed
        <5> QED BY <2>1, <3>6, <4>1, <5>1, <5>2, <5>3 DEF NoneOlder
      <4>2. behind["pods"] >= time - tracker'.healthySince
        BY <1>2, <2>1, AgesAndDelays DEF Facts
      <4> QED BY <1>2, <3>2, <4>1, <4>2 DEF Dead
    <3> QED BY <2>1, <3>4, <3>5, <3>6
  <2> QED BY <1>2, <2>1, <2>2 DEF OneGeneration
<1> QED BY <1>1, <1>3, <1>4, <1>5

\* Every step keeps an open window on the pods of one generation.
LEMMA OneGenerationStep ==
    ASSUME Facts, OneGeneration, [RolloutNext]_rolloutVars
    PROVE  OneGeneration'
<1> DEFINE Same(k, u) == /\ cluster.pods[u].there => cluster.pods[u].hash = Templates[k]
                         /\ cache.pods[u].there => cache.pods[u].hash = Templates[k]
<1>a. Real /\ cluster.pods \in PodMaps /\ cache.pods \in PodMaps /\ tracker.healthySince \in Int /\ time \in Nat
  BY WorkloadNumbers, CalmNumbers DEF Facts, Real
<1>b. OwnBaseline \subseteq Pods \ {Sibling}
  BY DEF OwnBaseline, Baseline
<1>0. ASSUME tracker'.healthySince = tracker.healthySince, Baseline' = Baseline,
             \A u \in OwnBaseline : u \notin cluster.unused => u \notin cluster'.unused,
             \A u \in OwnBaseline : u \notin cluster.unused /\ Dead(u) => Dead(u)',
             \A u \in OwnBaseline, k \in Generations : u \notin cluster.unused /\ Same(k, u) => Same(k, u)'
      PROVE  OneGeneration'
  <2>1. OwnBaseline' = OwnBaseline
    BY <1>0 DEF OwnBaseline
  <2> SUFFICES ASSUME tracker'.healthySince # Unset
               PROVE  \E k \in Generations : \A u \in OwnBaseline :
                        u \notin cluster'.unused /\ (Dead(u)' \/ Same(k, u)')
    BY <2>1 DEF OneGeneration
  <2>2. PICK k \in Generations : \A u \in OwnBaseline :
           u \notin cluster.unused /\ (Dead(u) \/ Same(k, u))
    BY <1>0 DEF OneGeneration
  <2> HIDE DEF Same
  <2> QED BY <1>0, <2>2
<1>1. CASE ClusterMoves
  <2>1. /\ PodsMove /\ cache' = cache /\ behind' = behind /\ time' = time /\ tracker' = tracker
        /\ Baseline' = Baseline
        /\ cluster'.pods \in PodMaps
    BY <1>1, <1>a, MoveFacts DEF ClusterMoves, PodsMove, Clusters, Baseline, Real
  <2>2. ASSUME NEW u \in OwnBaseline, u \notin cluster.unused, cluster'.pods[u].there
        PROVE  Kept(u)
    <3>1. u \in Own(cluster'.pods)
      BY <1>b, <2>2 DEF Own, Existing
    <3> QED BY <2>1, <2>2, <3>1 DEF PodsMove, Born
  <2>3. ASSUME NEW u \in OwnBaseline, u \notin cluster.unused, Dead(u)
        PROVE  Dead(u)'
    <3>1. ~ Alive(cluster'.pods, u)
      BY <2>2, <2>3 DEF Dead, Kept, Alive
    <3> QED BY <2>1, <2>3, <3>1 DEF Dead
  <2>4. ASSUME NEW u \in OwnBaseline, NEW k \in Generations, u \notin cluster.unused, Same(k, u)
        PROVE  Same(k, u)'
    <3>1. cluster'.pods[u].there => cluster'.pods[u].hash = Templates[k]
      BY <2>2, <2>4 DEF Kept, Own, Existing
    <3> QED BY <2>1, <2>4, <3>1
  <2>5. \A u \in OwnBaseline : u \notin cluster.unused => u \notin cluster'.unused
    BY <2>1 DEF PodsMove
  <2> HIDE DEF Same
  <2> QED BY <1>0, <2>1, <2>3, <2>4, <2>5
<1>2. CASE \E part \in Parts : CacheFollows(part)
  <2>1. /\ Filled /\ cluster' = cluster /\ time' = time /\ tracker' = tracker /\ Baseline' = Baseline
    BY <1>2, <1>a, FollowFacts DEF CacheFollows, Baseline, Real
  <2>2. CASE cache'.pods = cache.pods /\ behind'["pods"] = behind["pods"]
    <3>1. \A u : Dead(u)' = Dead(u)
      BY <2>1, <2>2 DEF Dead
    <3>2. \A u, k : Same(k, u)' = Same(k, u)
      BY <2>1, <2>2
    <3> HIDE DEF Same
    <3> QED BY <1>0, <2>1, <3>1, <3>2
  <2>3. CASE PodsFollow
    <3>1. \A u : Dead(u) => Dead(u)'
      BY <2>1, <2>3 DEF Dead, PodsFollow
    <3>2. \A u, k : Same(k, u) => Same(k, u)'
      BY <2>1, <2>3 DEF PodsFollow
    <3> HIDE DEF Same
    <3> QED BY <1>0, <2>1, <3>1, <3>2
  <2> QED BY <2>1, <2>2, <2>3 DEF Filled, WorkloadFollows, RevisionsFollow
<1>3. CASE Evaluate
  BY <1>3, OneGenerationEvaluates
<1>4. CASE TickerFires
  <2>1. /\ cluster'.pods = cluster.pods /\ cluster'.unused = cluster.unused /\ cache' = cache
        /\ tracker' = tracker /\ time' = time + 1 /\ Baseline' = Baseline
        /\ \A part \in Parts :
            IF cache[part] = cluster[part] THEN behind'[part] = 0
            ELSE behind[part] < Lag /\ behind'[part] = behind[part] + 1
    BY <1>4, <1>a, TickFacts DEF Passes, TickerFires, Baseline, Real
  <2>2. ASSUME NEW u, Dead(u)
        PROVE  Dead(u)'
    <3>1. ASSUME Alive(cache.pods, u)
          PROVE  behind'["pods"] >= time' - tracker.healthySince
      <4>1. cache.pods # cluster.pods
        BY <2>2, <3>1 DEF Dead
      <4>2. behind'["pods"] = behind["pods"] + 1 /\ behind["pods"] >= time - tracker.healthySince
        BY <2>1, <2>2, <3>1, <4>1, AgesAndDelays, <1>a DEF Dead
      <4> QED BY <1>a, <2>1, <4>2, AgesAndDelays
    <3> QED BY <2>1, <2>2, <3>1 DEF Dead
  <2>3. \A u, k : Same(k, u) => Same(k, u)'
    BY <2>1
  <2> HIDE DEF Same
  <2> QED BY <1>0, <2>1, <2>2, <2>3
<1>5. CASE UNCHANGED rolloutVars
  <2>1. cluster' = cluster /\ cache' = cache /\ behind' = behind /\ time' = time /\ tracker' = tracker
        /\ Baseline' = Baseline
    BY <1>5 DEF rolloutVars, Baseline
  <2>2. \A u : Dead(u)' = Dead(u)
    BY <2>1 DEF Dead
  <2>3. \A u, k : Same(k, u)' = Same(k, u)
    BY <2>1
  <2> HIDE DEF Same
  <2> QED BY <1>0, <2>1, <2>2, <2>3
<1> QED BY <1>1, <1>2, <1>3, <1>4, <1>5 DEF RolloutNext


\* An evaluation keeps a window open on no pod only while the workload's cache is late.
LEMMA NoPodsEvaluates ==
    ASSUME Facts, NoPods, Evaluate
    PROVE  NoPods'
<1>1. PICK s \in SnapshotsOf(cache) : Closes(s) \/ Holds(s) \/ Opens(s)
  BY EvaluateFacts, OwnersLabelled DEF Facts, Real
<1>2. /\ cluster' = cluster /\ cache' = cache /\ behind' = behind /\ time' = time
      /\ due /\ ~ due' /\ outcome = Open
      /\ time \in Nat
      /\ \A k \in Generations : k \in Nat
      /\ cache.workload.observed \in Generations /\ cluster.workload.observed \in Generations
  BY WorkloadNumbers DEF Evaluate, Facts, Real, RolloutType
<1>3. SUFFICES ASSUME outcome' = Open, tracker'.healthySince # Unset, OwnBaseline' = {}
               PROVE  /\ cluster.workload.observed > cache.workload.observed
                      /\ behind["workload"] >= time - tracker'.healthySince
                      /\ \A u \in Own(cluster.pods) :
                           cache.pods[u].there => cache.pods[u].hash \notin Names(cache.revisions)
  BY <1>2 DEF NoPods
<1>4. HealthyNow(s) /\ Baseline' = s.current
  BY <1>1, <1>3 DEF Closes, Holds, Opens
<1>5. s.current \ {Sibling} = {}
  BY <1>3, <1>4 DEF OwnBaseline
<1>6. \A u \in Own(cache.pods) : cache.pods[u].hash \notin Names(cache.revisions)
  <2>1. \A u \in Own(cache.pods) : u # Sibling
    BY DEF Own
  <2> QED BY <1>4, <1>5, <2>1, HealthyFacts DEF Facts
<1>7. \A u \in Own(cluster.pods) : cache.pods[u].there => cache.pods[u].hash \notin Names(cache.revisions)
  BY <1>6 DEF Own, Existing
<1>8. cache.workload.complete
  BY <1>4, HealthyFacts DEF Facts
<1>9. cluster.workload.observed > cache.workload.observed
  <2> DEFINE j == cache.workload.observed
  <2>1. SUFFICES ASSUME cluster.workload.observed = j
                 PROVE  FALSE
    BY <1>2 DEF Facts, Real, Known
  <2>2. Anchored(j) /\ Numbered(cache.revisions, j)
    BY <1>8, <2>1 DEF Facts, Completed
  <2>3. PICK u \in Own(cache.pods) : cache.pods[u].hash = Templates[j]
    BY <1>2, <2>2, AnchoredIsKnown DEF Facts
  <2>4. Templates[j] \in Names(cluster.revisions)
    BY <2>1, PodGeneration DEF Facts
  <2>5. Templates[j] \in Names(cache.revisions)
    BY <1>2, <2>2, <2>4 DEF Facts, InOrder
  <2> QED BY <1>6, <2>3, <2>5
<1>10. behind["workload"] >= time - tracker'.healthySince
  <2>1. CASE Opens(s)
    BY <1>2, <2>1, AgesAndDelays DEF Opens, Facts
  <2>2. CASE Holds(s)
    <3>1. tracker'.healthySince = tracker.healthySince /\ tracker.healthySince # Unset /\ OwnBaseline = {}
      BY <1>3, <2>2 DEF Holds, OwnBaseline
    <3>2. behind["workload"] >= time - tracker.healthySince
      BY <1>2, <1>8, <3>1 DEF NoPods
    <3> QED BY <3>1, <3>2
  <2> QED BY <1>1, <1>4, <2>1, <2>2 DEF Closes
<1> QED BY <1>7, <1>9, <1>10

\* Time passing keeps a window that is open on no pod behind the workload's cache.
LEMMA NoPodsTicks ==
    ASSUME Facts, NoPods, TickerFires
    PROVE  NoPods'
<1>1. /\ cluster'.workload = cluster.workload /\ cluster'.pods = cluster.pods /\ cache' = cache
      /\ tracker' = tracker /\ time' = time + 1 /\ Baseline' = Baseline /\ outcome' = outcome
      /\ ~ due /\ due'
      /\ \A u \in Pods : cluster'.age[u] = Lower(cluster.age[u] + 1, StartUp)
      /\ \A part \in Parts :
          IF cache[part] = cluster[part] THEN behind'[part] = 0
          ELSE behind[part] < Lag /\ behind'[part] = behind[part] + 1
  BY TickFacts DEF Passes, TickerFires, Baseline, Facts, Real
<1>2. /\ time \in Nat /\ tracker.healthySince \in Int
      /\ \A k \in Generations : k \in Nat
      /\ cache.workload.observed \in Generations /\ cluster.workload.observed \in Generations
  BY CalmNumbers, WorkloadNumbers DEF Facts, Real
<1>3. SUFFICES ASSUME outcome = Open, tracker.healthySince # Unset, OwnBaseline = {}
               PROVE  /\ cluster.workload.observed > cache.workload.observed
                      /\ behind'["workload"] >= (time + 1) - tracker.healthySince
                      /\ \A u \in Own(cluster.pods) : cluster'.age[u] < StartUp
  <2>1. OwnBaseline' = OwnBaseline /\ StartUp' = StartUp
    BY <1>1 DEF OwnBaseline, StartUp
  <2>2. ASSUME outcome' = Open, tracker'.healthySince # Unset, OwnBaseline' = {}
        PROVE  /\ cluster'.workload.observed > cache'.workload.observed
               /\ behind'["workload"] >= time' - tracker'.healthySince
               /\ \A u \in Own(cluster'.pods) : cluster'.age[u] < StartUp
    BY <1>1, <1>3, <2>1, <2>2
  <2> QED BY <1>1, <2>1, <2>2 DEF NoPods
<1>4. /\ cluster.workload.observed > cache.workload.observed
      /\ behind["workload"] >= time - tracker.healthySince
      /\ \A u \in Own(cluster.pods) : cache.pods[u].there => cache.pods[u].hash \notin Names(cache.revisions)
  BY <1>1, <1>3 DEF NoPods
<1>5. behind'["workload"] = behind["workload"] + 1 /\ behind["workload"] \in Nat
  <2>1. cache.workload # cluster.workload
    BY <1>2, <1>4
  <2> QED BY <1>1, <2>1, AgesAndDelays DEF Facts
<1>6. ASSUME NEW u \in Own(cluster.pods)
      PROVE  cluster'.age[u] < StartUp
  <2>1. cluster'.age[u] <= cluster.age[u] + 1 /\ cluster.age[u] \in Nat /\ cluster'.age[u] \in Nat
        /\ StartUp = Lag + 1 /\ Lag \in Nat
    BY <1>1, AgesAndDelays, RolloutParameters DEF Lower, Facts
  <2>2. CASE ~ cache.pods[u].there
    <3>1. cluster.pods[u].there
      BY DEF Own, Existing
    <3>2. cache.pods # cluster.pods
      BY <2>2, <3>1
    <3>3. behind["pods"] < Lag /\ behind["pods"] \in Nat
      BY <1>1, <3>2, AgesAndDelays DEF Facts
    <3>4. cluster.age[u] <= behind["pods"]
      BY <2>2 DEF Facts, Young
    <3> QED BY <2>1, <3>3, <3>4
  <2>3. CASE cache.pods[u].there
    <3>1. u \in Own(cache.pods)
      BY <2>3, AgesAndDelays DEF Own, Existing, Facts
    <3>2. cache.pods[u].hash = cluster.pods[u].hash /\ cache.pods[u].hash \notin Names(cache.revisions)
      BY <1>4, <2>3, <3>1 DEF Facts, Real, Known
    <3>3. PICK k \in Generations : /\ k <= cluster.workload.observed
                                   /\ cluster.pods[u].hash = Templates[k]
                                   /\ Templates[k] \in Names(cluster.revisions)
      BY PodGeneration DEF Facts
    <3>4. ~ Numbered(cache.revisions, k)
      BY <1>2, <3>2, <3>3 DEF Facts, InOrder
    <3>5. Numbered(cluster.revisions, k)
      BY <3>3, PodGeneration DEF Facts
    <3>6. behind["revisions"] < Lag /\ behind["revisions"] \in Nat
      BY <1>1, <3>4, <3>5, AgesAndDelays DEF Facts
    <3>7. cluster.age[u] <= behind["revisions"]
      BY <3>3, <3>4 DEF Facts, Young
    <3> QED BY <2>1, <3>6, <3>7
  <2> QED BY <2>2, <2>3
<1> QED BY <1>2, <1>4, <1>5, <1>6

\* Every step keeps a window open on no pod only while a cache is late.
LEMMA NoPodsStep ==
    ASSUME Facts, NoPods, [RolloutNext]_rolloutVars
    PROVE  NoPods'
<1>1. CASE Evaluate
  BY <1>1, NoPodsEvaluates
<1>2. CASE TickerFires
  BY <1>2, NoPodsTicks
<1>3. StartUp' = StartUp
  BY DEF StartUp
<1>4. CASE ClusterMoves
  <2>1. /\ PodsMove /\ cache' = cache /\ behind' = behind /\ time' = time /\ tracker' = tracker
        /\ outcome' = outcome /\ due /\ due'
        /\ cluster'.workload.observed >= cluster.workload.observed
    BY <1>4, MoveFacts, MovesGrow DEF ClusterMoves, Facts, Real
  <2>2. OwnBaseline' = OwnBaseline
    BY <2>1 DEF OwnBaseline, Baseline
  <2>3. (\A u \in Own(cluster.pods) : cluster.age[u] < StartUp) =>
           \A u \in Own(cluster'.pods) : cluster'.age[u] < StartUp
    BY <2>1, AgesAndDelays DEF PodsMove, Kept, Born, Facts
  <2>4. /\ cluster'.workload.observed \in Nat /\ cluster.workload.observed \in Nat
        /\ cache.workload.observed \in Nat
    BY <2>1, WorkloadNumbers DEF PodsMove, Clusters, Workloads, Generations, Facts, Real
  <2> QED BY <1>3, <2>1, <2>2, <2>3, <2>4 DEF NoPods
<1>5. CASE \E part \in Parts : CacheFollows(part)
  <2>1. /\ Filled /\ cluster' = cluster /\ time' = time /\ tracker' = tracker
        /\ outcome' = outcome /\ due /\ due'
    <3>1. PICK part \in Parts : CacheFollows(part)
      BY <1>5
    <3> QED BY <3>1, FollowFacts DEF CacheFollows, Facts, Real
  <2>2. OwnBaseline' = OwnBaseline
    BY <2>1 DEF OwnBaseline, Baseline
  <2>3. CASE cache'.workload = cache.workload /\ behind'["workload"] = behind["workload"]
    BY <1>3, <2>1, <2>2, <2>3 DEF NoPods
  <2>4. CASE WorkloadFollows
    <3>1. cache'.workload = cluster.workload
      BY <2>4 DEF WorkloadFollows
    <3>2. ASSUME \A u \in Own(cluster.pods) : cluster.age[u] < StartUp
          PROVE  ~ cluster.workload.complete
      <4>1. SUFFICES ASSUME cluster.workload.complete
                     PROVE  FALSE
        OBVIOUS
      <4>2. PICK u \in Own(cluster.pods) : cluster.age[u] = StartUp
        BY <4>1 DEF Facts, Completed, Anchored
      <4> QED BY <3>2, <4>2, AgesAndDelays DEF Facts
    <3> QED BY <1>3, <2>1, <2>2, <3>1, <3>2 DEF NoPods
  <2> QED BY <2>1, <2>3, <2>4 DEF Filled, RevisionsFollow, PodsFollow
<1>6. CASE UNCHANGED rolloutVars
  <2>1. /\ cluster' = cluster /\ cache' = cache /\ behind' = behind /\ time' = time /\ tracker' = tracker
        /\ outcome' = outcome /\ due' = due /\ OwnBaseline' = OwnBaseline
    BY <1>6 DEF rolloutVars, OwnBaseline, Baseline
  <2> QED BY <1>3, <2>1 DEF NoPods
<1> QED BY <1>1, <1>2, <1>4, <1>5, <1>6 DEF RolloutNext

\* An evaluation that says settled says it of a cluster that was Good at most the lag
\* ago: the window was open for longer than any cache is late.
LEMMA SettledEvaluates ==
    ASSUME Facts, OneGeneration, NoPods, StableFor > Lag, Evaluate
    PROVE  SettledIsTrue'
<1>1. PICK s \in SnapshotsOf(cache) : Closes(s) \/ Holds(s) \/ Opens(s)
  BY EvaluateFacts, OwnersLabelled DEF Facts, Real
<1>2. /\ cluster' = cluster /\ cache' = cache /\ behind' = behind /\ time' = time /\ good' = good /\ kind' = kind
      /\ outcome = Open
      /\ time \in Nat /\ tracker.healthySince \in Int /\ StableFor \in Nat /\ Lag \in Nat
      /\ \A k \in Generations : k \in Nat
      /\ cache.workload.observed \in Generations /\ cluster.workload.observed \in Generations
      /\ \A part \in Parts : behind[part] \in Nat /\ behind[part] <= Lag
  BY WorkloadNumbers, CalmNumbers DEF Evaluate, Facts, Real
<1> DEFINE j == cache.workload.observed
<1>3. SUFFICES ASSUME outcome' = "settled", kind # "Legacy"
               PROVE  good[cache.workload.generation] <= Lag
  BY <1>2 DEF SettledIsTrue
<1>4. /\ HealthyNow(s) /\ Baseline = s.current
      /\ tracker.healthySince # Unset
      /\ time - tracker.healthySince > Lag
  <2>1. Holds(s)
    BY <1>1, <1>3 DEF Closes, Opens, Open
  <2>2. time - tracker.healthySince >= StableFor
    BY <1>3, <2>1 DEF Holds, Open
  <2> QED BY <1>2, <2>1, <2>2 DEF Holds
<1>5. /\ cache.workload.complete /\ cache.workload.generation = j
      /\ \A u \in s.current : cache.pods[u].there /\ cache.pods[u].ready /\ Alive(cache.pods, u)
      /\ \A u \in Own(cache.pods) : cache.pods[u].hash \in Names(cache.revisions) => u \in s.current
  BY <1>3, <1>4, HealthyFacts DEF Facts, Alive
<1>6. s.current \ {Sibling} # {} /\ s.current \ {Sibling} \subseteq Own(cache.pods)
  <2>1. OwnBaseline # {}
    BY <1>2, <1>4, <1>5, AgesAndDelays DEF NoPods, Facts
  <2>2. s.current \subseteq Existing(cache.pods)
    BY <1>4, HealthyFacts DEF Facts
  <2> QED BY <1>4, <2>1, <2>2 DEF OwnBaseline, Own
<1>7. PICK k \in Generations : \A u \in s.current \ {Sibling} : cache.pods[u].hash = Templates[k]
  <2>1. PICK k \in Generations : \A u \in OwnBaseline :
            /\ u \notin cluster.unused
            /\ \/ Dead(u)
               \/ /\ cluster.pods[u].there => cluster.pods[u].hash = Templates[k]
                  /\ cache.pods[u].there => cache.pods[u].hash = Templates[k]
    BY <1>4 DEF OneGeneration
  <2>2. ASSUME NEW u \in s.current \ {Sibling}
        PROVE  cache.pods[u].hash = Templates[k]
    <3>1. u \in OwnBaseline
      BY <1>4 DEF OwnBaseline
    <3>2. ~ Dead(u)
      BY <1>2, <1>4, <1>5, AgesAndDelays DEF Dead, Facts
    <3> QED BY <1>5, <2>1, <3>1, <3>2
  <2> QED BY <2>2
<1>8. PICK v \in s.current \ {Sibling} : TRUE
  BY <1>6
<1>9. v \in Own(cache.pods) /\ cache.pods[v].hash = Templates[k] /\ cache.pods[v].ready /\ Alive(cache.pods, v)
  BY <1>5, <1>6, <1>7
<1>10. k <= j
  BY <1>9 DEF Facts, ReadyIsObserved
<1>11. Numbered(cache.revisions, j)
  BY <1>5 DEF Facts, Completed
\* Every pod the cache has of a generation up to j is in the snapshot.
<1>12. ASSUME NEW u \in Own(cache.pods), NEW h \in Generations, h <= j, cache.pods[u].hash = Templates[h]
       PROVE  u \in s.current \ {Sibling} /\ h = k
  <2>1. Templates[h] \in Names(cluster.revisions)
    BY <1>12, PodGeneration DEF Facts
  <2>2. Templates[h] \in Names(cache.revisions)
    BY <1>2, <1>11, <1>12, <2>1 DEF Facts, InOrder
  <2>3. u \in s.current \ {Sibling}
    BY <1>5, <1>12, <2>2, AgesAndDelays DEF Facts
  <2> QED BY <1>7, <1>12, <2>3 DEF Facts, Distinct
<1>13. k = j
  <2>1. \/ NoneOlder(cache.pods, j)
        \/ \E u \in Own(cache.pods) : cache.pods[u].hash = Templates[j]
    BY <1>5 DEF Facts, Completed
  <2>2. CASE NoneOlder(cache.pods, j)
    BY <1>2, <1>9, <1>10, <2>2 DEF NoneOlder
  <2>3. CASE \E u \in Own(cache.pods) : cache.pods[u].hash = Templates[j]
    BY <1>2, <1>12, <2>3
  <2> QED BY <2>1, <2>2, <2>3
<1>14. Good(cache, j)
  <2> DEFINE mine == {u \in Own(cache.pods) : cache.pods[u].hash = Templates[j]}
  <2>1. v \in mine
    BY <1>9, <1>13
  <2>2. \A u \in mine : cache.pods[u].ready /\ ~ cache.pods[u].terminating
    <3>1. \A u \in mine : u \in s.current
      BY <1>2, <1>12
    <3> QED BY <1>5, <3>1 DEF Alive
  <2>3. ASSUME NEW u \in Own(cache.pods), NEW h \in 1 .. j, cache.pods[u].hash = Templates[h]
        PROVE  u \in mine
    <3>1. h \in Generations /\ h <= j
      BY <1>2, RolloutParameters
    <3> QED BY <1>12, <1>13, <2>3, <3>1
  <2> QED BY <2>1, <2>2, <2>3 DEF Good
<1>15. good[j] <= behind["pods"] /\ good[j] \in Nat
  BY <1>2, <1>14, RolloutParameters DEF Facts, GoodRecent, Real, RolloutType
<1> QED BY <1>2, <1>5, <1>15, AgesAndDelays DEF Facts

\* Once the verdict is there no evaluation is due.
Over == due => outcome = Open

\* The inductive invariant.
TrueInv == Facts /\ OneGeneration /\ NoPods /\ Over /\ SettledIsTrue

\* The invariant holds at the beginning.
LEMMA TrueInit ==
    ASSUME Distinct, RolloutInit
    PROVE  TrueInv
<1>1. Real
  BY InitReal
<1>2. PICK u \in Pods \ {Sibling}, past \in Pasts, q \in SiblingStates[kind] :
          cluster = Start(u, past, q)
  BY DEF RolloutInit
<1>3. /\ cluster.workload.generation = 1 /\ cluster.workload.observed = 1
      /\ Own(cluster.pods) = {u}
      /\ cluster.pods[u].hash = first /\ cluster.pods[u].ready /\ ~ cluster.pods[u].terminating
      /\ cluster.age[u] = StartUp
      /\ kind \in Kinds
  <2>1. kind \in Kinds
    BY DEF RolloutInit
  <2> QED BY <1>2, <2>1, StartFacts
<1>4. /\ cache.workload = cluster.workload /\ cache.revisions = cluster.revisions /\ cache.pods = cluster.pods
      /\ tracker.healthySince = Unset /\ outcome = Open
      /\ good = [g \in Generations |-> IF g = 1 THEN 0 ELSE GoodCap]
      /\ \A part \in Parts : behind[part] = 0
  BY DEF RolloutInit, Parts, NewTracker
<1>5. /\ first = Templates[1] /\ 1 \in Generations /\ \A k \in Generations : k \in Nat
      /\ \A k \in Generations : first = Templates[k] => k = 1
  BY WorkloadNumbers, <1>1, RolloutParameters DEF first, Distinct, Real
<1>6. cluster.pods[u].there
  BY <1>3 DEF Own, Existing
<1>7. InOrder
  BY <1>4 DEF InOrder
<1>8. Young
  <2>1. \A k \in Generations : k <= 1 => Numbered(cluster.revisions, k)
    BY <1>1, <1>3, PodGeneration
  <2> QED BY <1>3, <1>4, <1>5, <1>6, <2>1 DEF Young
<1>9. ReadyIsObserved
  BY <1>3, <1>4, <1>5 DEF ReadyIsObserved
<1>10. Completed
  <2>1. Anchored(1)
    BY <1>3, <1>5, <1>6 DEF Anchored, Alive
  <2>2. Numbered(cluster.revisions, 1)
    BY <1>1, <1>3, <1>5, PodGeneration
  <2>3. NoneOlder(cluster.pods, 1)
    BY RolloutParameters, <1>5 DEF NoneOlder
  <2> QED BY <1>3, <1>4, <2>1, <2>2, <2>3 DEF Completed
<1>11. GoodRecent
  <2>1. ASSUME NEW g \in Generations, Good(cluster, g)
        PROVE  g = 1
    <3>1. PICK w \in Own(cluster.pods) : cluster.pods[w].hash = Templates[g]
      BY <2>1 DEF Good
    <3> QED BY <1>3, <1>5, <3>1
  <2>2. \A g \in Generations : Good(cache, g) = Good(cluster, g)
    BY <1>4 DEF Good
  <2>3. "pods" \in Parts
    BY DEF Parts
  <2> QED BY <1>4, <2>1, <2>2, <2>3 DEF GoodRecent
<1>12. OneGeneration /\ NoPods /\ Over /\ SettledIsTrue
  BY <1>4 DEF OneGeneration, NoPods, Over, SettledIsTrue, Open
<1> QED BY <1>1, <1>7, <1>8, <1>9, <1>10, <1>11, <1>12 DEF TrueInv, Facts

\* Every step keeps what was said of settled.
LEMMA SettledStep ==
    ASSUME TrueInv, StableFor > Lag, [RolloutNext]_rolloutVars
    PROVE  Over' /\ SettledIsTrue'
<1>1. CASE Evaluate
  <2>1. ~ due'
    BY <1>1 DEF Evaluate
  <2> QED BY <1>1, <2>1, SettledEvaluates DEF TrueInv, Over
<1>2. CASE TickerFires
  BY <1>2 DEF TickerFires, Over, SettledIsTrue, Open
<1>3. CASE UNCHANGED rolloutVars
  BY <1>3 DEF rolloutVars, TrueInv, Over, SettledIsTrue
<1>4. CASE ClusterMoves \/ \E part \in Parts : CacheFollows(part)
  <2>1. due /\ outcome' = outcome
    BY <1>4 DEF ClusterMoves, CacheFollows
  <2> QED BY <2>1 DEF TrueInv, Over, SettledIsTrue, Open
<1> QED BY <1>1, <1>2, <1>3, <1>4 DEF RolloutNext

\* Every step keeps the invariant.
LEMMA TrueStep ==
    ASSUME TrueInv, StableFor > Lag, [RolloutNext]_rolloutVars
    PROVE  TrueInv'
<1>1. Distinct' /\ Real' /\ InOrder' /\ Young' /\ ReadyIsObserved'
  <2>1. Distinct'
    BY DEF TrueInv, Facts, Distinct
  <2> QED BY <2>1, RealStep, InOrderStep, YoungStep, ReadyStep DEF TrueInv, Facts
<1>2. Completed' /\ GoodRecent'
  BY CompletedStep, GoodRecentStep DEF TrueInv, Facts
<1>3. OneGeneration' /\ NoPods' /\ Over' /\ SettledIsTrue'
  BY OneGenerationStep, NoPodsStep, SettledStep DEF TrueInv
<1> QED BY <1>1, <1>2, <1>3 DEF TrueInv, Facts

\* Settled was true of the cluster at most the lag before it was said, whatever
\* the caches showed in between, when the window is longer than the lag and no
\* template comes back (tracker.observe: the window is judged on the caches).
THEOREM SettledIsTrueCorrect ==
    ASSUME StableFor > Lag,
           \A g, h \in Generations : Templates[g] = Templates[h] => g = h
    PROVE  RolloutSpec => []SettledIsTrue
<1>1. Distinct
  BY DEF Distinct
<1>2. RolloutInit => TrueInv
  BY <1>1, TrueInit
<1>3. TrueInv /\ [RolloutNext]_rolloutVars => TrueInv'
  BY TrueStep
<1>4. TrueInv => SettledIsTrue
  BY DEF TrueInv
<1> QED BY <1>2, <1>3, <1>4, PTL DEF RolloutSpec
=============================================================================
