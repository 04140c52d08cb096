----------------------------- MODULE FleetProofs -----------------------------
(***************************************************************************)
(* Theorems about fleet runs: about Fleet, for every set of targets, pods  *)
(* and views, every timeout, window and patience; and at the end about     *)
(* Discovery, for every ceiling, all kinds and names and however many      *)
(* workloads come and go.                                                  *)
(***************************************************************************)
EXTENDS Fleet, Discovery, TrackerProofs, FunctionTheorems

\* The trackers never run ahead of the clock.
TimeOrder == \A w \in Targets : tracker[w].lastObserve <= clock

\* The loop reads its clock at most one late tick after the deadline.
ClockBounded ==
    /\ phase = "sync" => clock + Timeout = deadline
    /\ phase \in {"observe", "select"} => clock <= deadline + MaxGap

\* A judged target was judged within the deadline and one late tick.
JudgedInTime ==
    \A w \in Targets : Finished(w) =>
        /\ phase \notin {"preflight", "sync"}
        /\ deadline \in Nat
        /\ res[w].elapsed \in 0 .. deadline + MaxGap

\* There is an answer when the run is over, and results only for a fleet that
\* is judged.
AnswerIsFinal == /\ phase # "done" => answer = "none"
                 /\ answer = "results" => OpenTargets = {}

\* The inductive invariant.
FleetInv == TypeOK /\ TimeOrder /\ ClockBounded /\ JudgedInTime /\ AnswerIsFinal

----------------------------------------------------------------------------
\* The type of a Result.
ResultType == [outcome : {"none"} \union Outcomes, reason : Reasons,
               wedgedOut : BOOLEAN, elapsed : Times]

\* finish makes a result.
LEMMA FinishType ==
  ASSUME NEW t \in Trackers, NEW o \in Outcomes, NEW r \in Reasons, NEW e \in Nat
  PROVE  /\ Finish(t, o, r, e) \in ResultType
         /\ Finish(t, o, r, e).outcome = o
         /\ Finish(t, o, r, e).elapsed = e
<1>1. t.wedgedOut \in BOOLEAN
  BY DEF Trackers
<1>2. e \in Times
  BY DEF Times
<1> QED
  BY <1>1, <1>2 DEF Finish, ResultType

\* What an evaluation of an open target does: it changes the tracker and the
\* result of that target only, and a result it assigns is one of now.
LEMMA EvaluateCases ==
  ASSUME FleetInv, NEW w \in Targets, Evaluate(w)
  PROVE  /\ tracker' \in [Targets -> Trackers]
         /\ \A v \in Targets : tracker'[v].lastObserve <= clock
         /\ res' \in [Targets -> ResultType]
         /\ \A v \in Targets : Finished(v) => res'[v] = res[v]
         /\ \A v \in Targets : res'[v] = res[v] \/ res'[v].elapsed = clock
<1> USE DEF ResultType
<1>1. /\ tracker \in [Targets -> Trackers] /\ res \in [Targets -> ResultType]
      /\ clock \in Nat /\ tracker[w] \in Trackers /\ tracker[w].lastObserve <= clock
  BY DEF FleetInv, TypeOK, TimeOrder
<1>2. \A v \in Targets : tracker[v].lastObserve <= clock
  BY DEF FleetInv, TimeOrder
<1>3. CASE Finished(w)
  BY <1>1, <1>2, <1>3 DEF Evaluate
<1>4. CASE ~ Finished(w) /\ Judge(w)
  <2>1. PICK s \in Views[w] :
          /\ tracker' = [tracker EXCEPT ![w] = TrackerAfter(tracker[w], clock, s)]
          /\ IF OutcomeAfter(tracker[w], clock, s) = Open THEN UNCHANGED res
             ELSE res' = [res EXCEPT ![w] =
                            Finish(TrackerAfter(tracker[w], clock, s),
                                   OutcomeAfter(tracker[w], clock, s), "tracker", clock)]
    BY <1>4, Zenon DEF Judge
  <2>2. s \in Snapshots
    BY FleetAssumption
  <2> DEFINE t == TrackerAfter(tracker[w], clock, s)
             out == OutcomeAfter(tracker[w], clock, s)
  <2>3. /\ t \in Trackers
        /\ t.lastObserve = clock \/ t.lastObserve = tracker[w].lastObserve
    BY <1>1, <2>2, AfterFields
  <2>4. out \in {Open, "settled", "failed"}
    BY OutcomeType
  <2> HIDE DEF t, out
  <2>5. /\ tracker' \in [Targets -> Trackers]
        /\ \A v \in Targets : tracker'[v].lastObserve <= clock
    BY <1>1, <1>2, <2>1, <2>3 DEF t
  <2>6. CASE out = Open
    BY <1>1, <2>1, <2>5, <2>6 DEF out
  <2>7. CASE out # Open
    <3>1. out \in Outcomes /\ "tracker" \in Reasons
      BY <2>4, <2>7 DEF Outcomes, Reasons
    <3>2. /\ Finish(t, out, "tracker", clock) \in ResultType
          /\ Finish(t, out, "tracker", clock).elapsed = clock
      BY <1>1, <2>3, <3>1, FinishType
    <3>3. res' = [res EXCEPT ![w] = Finish(t, out, "tracker", clock)]
      BY <2>1, <2>7 DEF t, out
    <3> QED
      BY <1>1, <1>4, <2>5, <3>2, <3>3
  <2> QED
    BY <2>6, <2>7
<1>5. CASE ~ Finished(w) /\ (Miss(w) \/ Misread(w))
  <2>1. PICK r \in {"deleted", "other"} :
          res' = [res EXCEPT ![w] = Finish(tracker[w], "failed", r, clock)]
    BY <1>5 DEF Miss, Misread
  <2>2. UNCHANGED tracker
    BY <1>5 DEF Miss, Misread
  <2>3. "failed" \in Outcomes /\ r \in Reasons
    BY DEF Outcomes, Reasons
  <2>4. /\ Finish(tracker[w], "failed", r, clock) \in ResultType
        /\ Finish(tracker[w], "failed", r, clock).elapsed = clock
    BY <1>1, <2>3, FinishType
  <2> QED
    BY <1>1, <1>2, <1>5, <2>1, <2>2, <2>4
<1> QED
  BY <1>3, <1>4, <1>5 DEF Evaluate

\* What the deadline does: it judges whoever is open, now.
LEMMA DeadlineCases ==
  ASSUME FleetInv, DeadlinePasses
  PROVE  /\ clock' \in Nat /\ clock <= clock' /\ clock' <= deadline + MaxGap
         /\ res' \in [Targets -> ResultType]
         /\ \A v \in Targets : Finished(v) => res'[v] = res[v]
         /\ \A v \in Targets : ~ Finished(v) => /\ res'[v].elapsed = clock'
                                                /\ res'[v].outcome \in Outcomes
<1>1. /\ clock \in Nat /\ deadline \in Nat /\ MaxGap \in Nat /\ clock <= deadline + MaxGap
      /\ tracker \in [Targets -> Trackers] /\ res \in [Targets -> ResultType]
  BY FleetAssumption DEF FleetInv, TypeOK, ClockBounded, DeadlinePasses, ResultType
<1>2. clock' = IF clock < deadline THEN deadline ELSE clock
  BY DEF DeadlinePasses
<1>3. clock' \in Nat /\ clock <= clock' /\ clock' <= deadline + MaxGap
  BY <1>1, <1>2
<1>4. ASSUME NEW v \in Targets
      PROVE  /\ Finish(tracker[v], TimeoutVerdict(tracker[v]), "tracker", clock') \in ResultType
             /\ Finish(tracker[v], TimeoutVerdict(tracker[v]), "tracker", clock').elapsed = clock'
             /\ Finish(tracker[v], TimeoutVerdict(tracker[v]), "tracker", clock').outcome
                    \in Outcomes
  <2>1. TimeoutVerdict(tracker[v]) \in Outcomes /\ "tracker" \in Reasons
    BY DEF TimeoutVerdict, Outcomes, Reasons
  <2>2. tracker[v] \in Trackers
    BY <1>1
  <2> QED
    BY <1>3, <2>1, <2>2, FinishType
<1>5. res' = [w \in Targets |->
                IF Finished(w) THEN res[w]
                ELSE Finish(tracker[w], TimeoutVerdict(tracker[w]), "tracker", clock')]
  BY DEF DeadlinePasses
<1> QED
  BY <1>1, <1>3, <1>4, <1>5

\* No target is judged before the run begins.
LEMMA InitFleetInv == Init => FleetInv
<1> SUFFICES ASSUME Init PROVE FleetInv
  OBVIOUS
<1>1. tracker \in [Targets -> Trackers]
  BY NewTrackerType DEF Init
<1>2. Unfinished \in ResultType
  BY DEF Unfinished, ResultType, Reasons, Times
<1>3. res \in [Targets -> ResultType]
  BY <1>2 DEF Init
<1>4. TypeOK
  BY <1>1, <1>3 DEF Init, TypeOK, ResultType, Times
<1>5. TimeOrder
  BY DEF Init, TimeOrder, NewTracker, Unset
<1>6. JudgedInTime
  BY DEF Init, JudgedInTime, Finished, Unfinished
<1> QED
  BY <1>4, <1>5, <1>6 DEF Init, FleetInv, ClockBounded, AnswerIsFinal

\* A step that judges no one keeps the results in time.
LEMMA NoJudgement ==
  ASSUME FleetInv, UNCHANGED <<tracker, res>>, clock' \in Nat, clock <= clock'
  PROVE  /\ TimeOrder'
         /\ UNCHANGED deadline /\ phase' \notin {"preflight", "sync"} => JudgedInTime'
<1>1. \A w \in Targets : tracker[w].lastObserve \in Int
  BY DEF FleetInv, TypeOK, Trackers, Times, Unset
<1>2. TimeOrder'
  BY <1>1 DEF FleetInv, TimeOrder, TypeOK
<1> QED
  BY <1>2 DEF FleetInv, JudgedInTime, Finished

\* Every step preserves the invariant.
LEMMA NextFleetInv == FleetInv /\ [Next]_vars => FleetInv'
<1> SUFFICES ASSUME FleetInv, [Next]_vars PROVE FleetInv'
  OBVIOUS
<1>1. /\ clock \in Nat /\ Timeout \in Nat /\ MaxGap \in Nat \ {0}
      /\ \A d \in CallTimes : d \in Nat /\ d <= Timeout
  BY FleetAssumption DEF FleetInv, TypeOK
<1>2. \A w \in Targets : phase \in {"preflight", "sync"} => ~ Finished(w)
  BY DEF FleetInv, JudgedInTime
<1>3. CASE PreflightPasses
  <2>1. /\ clock' \in Nat /\ clock <= clock' /\ deadline' = clock' + Timeout
        /\ phase = "preflight" /\ phase' = "sync"
        /\ UNCHANGED <<tracker, pending, res, answer, hist>>
    BY <1>1, <1>3 DEF PreflightPasses
  <2>2. TypeOK'
    <3>1. deadline' \in Nat
      BY <1>1, <1>3 DEF PreflightPasses
    <3>2. deadline' \in Times
      BY <3>1 DEF Times
    <3> QED
      BY <2>1, <3>1, <3>2 DEF FleetInv, TypeOK
  <2>3. TimeOrder'
    BY <2>1, NoJudgement
  <2>4. ClockBounded' /\ AnswerIsFinal'
    BY <2>1 DEF FleetInv, ClockBounded, AnswerIsFinal, OpenTargets, Finished
  <2>5. JudgedInTime'
    BY <1>2, <2>1 DEF JudgedInTime, Finished
  <2> QED
    BY <2>2, <2>3, <2>4, <2>5 DEF FleetInv
<1>4. CASE PreflightFails \/ SyncFails
  <2>1. /\ clock' \in Nat /\ clock <= clock' /\ phase' = "done"
        /\ phase \in {"preflight", "sync"}
        /\ UNCHANGED <<deadline, tracker, pending, res, hist>>
    BY <1>1, <1>4 DEF PreflightFails, SyncFails, Return
  <2>2. answer' \in FleetErrors /\ answer' # "results"
    BY <1>4 DEF PreflightFails, SyncFails, Return, FleetErrors
  <2>3. TypeOK'
    BY <2>1, <2>2 DEF FleetInv, TypeOK
  <2>4. TimeOrder' /\ JudgedInTime'
    BY <2>1, NoJudgement
  <2> QED
    BY <2>1, <2>2, <2>3, <2>4 DEF FleetInv, ClockBounded, AnswerIsFinal
<1>5. CASE SyncCompletes
  <2>1. /\ clock' \in Nat /\ clock <= clock' /\ clock' <= clock + Timeout
        /\ phase = "sync" /\ phase' = "observe" /\ pending' = Targets
        /\ UNCHANGED <<deadline, tracker, res, answer, hist>>
    BY <1>1, <1>5 DEF SyncCompletes
  <2>2. TypeOK' /\ deadline \in Nat
    BY <2>1 DEF FleetInv, TypeOK
  <2>3. TimeOrder' /\ JudgedInTime'
    BY <2>1, NoJudgement
  <2>4. ClockBounded'
    BY <1>1, <2>1, <2>2 DEF FleetInv, ClockBounded
  <2>5. AnswerIsFinal'
    BY <2>1 DEF FleetInv, AnswerIsFinal, OpenTargets, Finished
  <2> QED
    BY <2>2, <2>3, <2>4, <2>5 DEF FleetInv
<1>6. ASSUME NEW w \in Targets, Evaluate(w) PROVE FleetInv'
  <2>1. /\ phase = "observe" /\ pending' = pending \ {w}
        /\ UNCHANGED <<phase, clock, deadline, answer>>
    BY <1>6 DEF Evaluate
  <2>2. /\ tracker' \in [Targets -> Trackers]
        /\ \A v \in Targets : tracker'[v].lastObserve <= clock
        /\ res' \in [Targets -> ResultType]
        /\ \A v \in Targets : res'[v] = res[v] \/ res'[v].elapsed = clock
    BY <1>6, EvaluateCases
  <2>3. TypeOK' /\ deadline \in Nat
    BY <2>1, <2>2 DEF FleetInv, TypeOK, ResultType
  <2>4. TimeOrder' /\ ClockBounded'
    BY <2>1, <2>2 DEF FleetInv, TimeOrder, ClockBounded
  <2>5. clock \in 0 .. deadline + MaxGap
    BY <1>1, <2>1, <2>3 DEF FleetInv, ClockBounded
  <2>6. JudgedInTime'
    BY <2>1, <2>2, <2>3, <2>5 DEF FleetInv, JudgedInTime, Finished
  <2>7. AnswerIsFinal'
    BY <2>1 DEF FleetInv, AnswerIsFinal
  <2> QED
    BY <2>3, <2>4, <2>6, <2>7 DEF FleetInv
<1>7. CASE RoundEnds
  <2>1. /\ phase = "observe" /\ phase' \in {"select", "done"}
        /\ UNCHANGED <<clock, deadline, tracker, res, hist, pending>>
        /\ \/ answer' = answer /\ phase' # "done"
           \/ answer' = "results" /\ phase' = "done" /\ OpenTargets = {}
    BY <1>7 DEF RoundEnds, Return
  <2>2. TypeOK' /\ deadline \in Nat
    BY <2>1 DEF FleetInv, TypeOK
  <2>3. TimeOrder' /\ JudgedInTime'
    BY <1>1, <2>1, NoJudgement
  <2>4. ClockBounded'
    BY <2>1 DEF FleetInv, ClockBounded
  <2>5. OpenTargets' = OpenTargets
    BY <2>1 DEF OpenTargets, Finished
  <2>6. AnswerIsFinal'
    BY <2>1, <2>5 DEF FleetInv, AnswerIsFinal
  <2> QED
    BY <2>2, <2>3, <2>4, <2>6 DEF FleetInv
<1>8. CASE TickerFires
  <2>1. PICK d \in 1 .. MaxGap : clock' = clock + d
    BY <1>8 DEF TickerFires
  <2>2. /\ phase = "select" /\ clock < deadline /\ phase' = "observe" /\ pending' = Targets
        /\ UNCHANGED <<deadline, tracker, res, answer, hist>>
    BY <1>8 DEF TickerFires
  <2>3. clock' \in Nat /\ clock <= clock'
    BY <1>1, <2>1
  <2>4. TypeOK' /\ deadline \in Nat
    BY <2>2, <2>3 DEF FleetInv, TypeOK
  <2>5. TimeOrder' /\ JudgedInTime'
    BY <2>2, <2>3, NoJudgement
  <2>6. ClockBounded'
    BY <1>1, <2>1, <2>2, <2>4 DEF ClockBounded
  <2>7. AnswerIsFinal'
    BY <2>2 DEF FleetInv, AnswerIsFinal, OpenTargets, Finished
  <2> QED
    BY <2>4, <2>5, <2>6, <2>7 DEF FleetInv
<1>9. CASE DeadlinePasses
  <2>1. /\ phase = "select" /\ phase' = "done" /\ answer' = "results"
        /\ UNCHANGED <<deadline, tracker, pending, hist>>
    BY <1>9 DEF DeadlinePasses, Return
  <2>2. /\ clock' \in Nat /\ clock <= clock' /\ clock' <= deadline + MaxGap
        /\ res' \in [Targets -> ResultType]
        /\ \A v \in Targets : Finished(v) => res'[v] = res[v]
        /\ \A v \in Targets : ~ Finished(v) => /\ res'[v].elapsed = clock'
                                               /\ res'[v].outcome \in Outcomes
    BY <1>9, DeadlineCases
  <2>3. TypeOK' /\ deadline \in Nat
    BY <2>1, <2>2 DEF FleetInv, TypeOK, ResultType
  <2>4. \A v \in Targets : tracker[v].lastObserve \in Int
    BY DEF FleetInv, TypeOK, Trackers, Times, Unset
  <2>5. TimeOrder'
    BY <1>1, <2>1, <2>2, <2>4 DEF FleetInv, TimeOrder
  <2>6. ClockBounded'
    BY <2>1 DEF ClockBounded
  <2>7. clock' \in 0 .. deadline + MaxGap
    BY <1>1, <2>2, <2>3
  <2>8. JudgedInTime'
    BY <2>1, <2>2, <2>3, <2>7 DEF FleetInv, JudgedInTime
  <2>9. \A v \in Targets : Finished(v)'
    BY <2>2 DEF Finished, Outcomes
  <2>10. AnswerIsFinal'
    BY <2>1, <2>9 DEF AnswerIsFinal, OpenTargets
  <2> QED
    BY <2>3, <2>5, <2>6, <2>8, <2>10 DEF FleetInv
<1>10. CASE Interrupted
  <2>1. /\ phase = "select" /\ phase' = "done" /\ answer' = "other"
        /\ UNCHANGED <<clock, deadline, tracker, pending, res, hist>>
    BY <1>10 DEF Interrupted, Return
  <2>2. TypeOK'
    BY <2>1 DEF FleetInv, TypeOK, FleetErrors
  <2>3. TimeOrder' /\ JudgedInTime'
    BY <1>1, <2>1, NoJudgement
  <2> QED
    BY <2>1, <2>2, <2>3 DEF FleetInv, ClockBounded, AnswerIsFinal
<1>11. CASE UNCHANGED vars
  BY <1>11 DEF vars, FleetInv, TypeOK, TimeOrder, ClockBounded, JudgedInTime, AnswerIsFinal,
               OpenTargets, Finished
<1> QED
  BY <1>3, <1>4, <1>5, <1>6, <1>7, <1>8, <1>9, <1>10, <1>11 DEF Next

\* The invariant of every reachable state.
LEMMA FleetInvAlways == Spec => []FleetInv
BY InitFleetInv, NextFleetInv, PTL DEF Spec

\* Every variable of a fleet run keeps its type (RunFleet, fleetWatch).
THEOREM FleetTypeCorrect == Spec => []TypeOK
<1>1. FleetInv => TypeOK
  BY DEF FleetInv
<1> QED
  BY <1>1, FleetInvAlways, PTL

\* Results are returned only when every target is judged, each within the
\* deadline and one late evaluation (RunFleet).
THEOREM AllJudgedCorrect == Spec => []AllJudged
<1>1. FleetInv => AllJudged
  <2> SUFFICES ASSUME FleetInv, answer = "results", NEW w \in Targets
               PROVE  Finished(w) /\ res[w].elapsed <= deadline + MaxGap
    BY DEF AllJudged
  <2>1. Finished(w)
    BY DEF FleetInv, AnswerIsFinal, OpenTargets
  <2> QED
    BY <2>1 DEF FleetInv, JudgedInTime
<1> QED
  BY <1>1, FleetInvAlways, PTL

\* No round and no deadline revises a judged target (fleetWatch.done).
THEOREM JudgedOnceCorrect == Spec => JudgedOnce
<1> DEFINE Kept == \A w \in Targets : Finished(w) => res'[w] = res[w]
<1>1. ASSUME FleetInv, [Next]_vars PROVE [Kept]_vars
  <2> SUFFICES ASSUME Next PROVE Kept
    BY <1>1
  <2>1. ASSUME NEW w \in Targets, Evaluate(w) PROVE Kept
    BY <1>1, <2>1, EvaluateCases
  <2>2. CASE DeadlinePasses
    BY <1>1, <2>2, DeadlineCases
  <2>3. CASE ~ DeadlinePasses /\ ~ \E w \in Targets : Evaluate(w)
    BY <2>3 DEF Next, PreflightPasses, PreflightFails, SyncCompletes, SyncFails, RoundEnds,
                TickerFires, Interrupted
  <2> QED
    BY <2>1, <2>2, <2>3
<1> QED
  BY <1>1, FleetInvAlways, PTL DEF Spec, JudgedOnce

----------------------------------------------------------------------------
(* Alone(w) is an instance of Watch, which brings its own copy of the      *)
(* operators of Tracker: the two agree.                                    *)

\* The copies of noteRestarts and observeWedge.
LEMMA CopyCharged ==
  ASSUME NEW w, NEW t, NEW s, NEW now
  PROVE  /\ Alone(w)!Noted(t, s) = Noted(t, s)
         /\ Alone(w)!Charged(t, now, s) = Charged(t, now, s)
<1>1. Alone(w)!Noted(t, s) = Noted(t, s)
  BY DEF Alone!Noted, Alone!NoteRestarts, Alone!RestartSeen, Alone!Absent,
         Noted, NoteRestarts, RestartSeen, Absent
<1>2. ASSUME NEW u PROVE Alone(w)!WedgeReason(s, u) <=> WedgeReason(s, u)
  BY DEF Alone!WedgeReason, WedgeReason, Alone!TerminalPodReason, TerminalPodReason,
         Alone!TerminalWaitingReason, TerminalWaitingReason
<1>3. ASSUME NEW x PROVE Alone(w)!Charge(x, now, s) = Charge(x, now, s)
  BY <1>2 DEF Alone!Charge, Charge, Alone!PodReady, PodReady, Alone!Unset, Unset
<1>4. ASSUME NEW x PROVE Alone(w)!Crosses(x, now, s) = Crosses(x, now, s)
  BY <1>2, <1>3 DEF Alone!Crosses, Crosses
<1>5. ASSUME NEW x PROVE Alone(w)!ObserveWedge(x, now, s) = ObserveWedge(x, now, s)
  BY <1>3, <1>4, Zenon DEF Alone!ObserveWedge, ObserveWedge
<1>6. Alone(w)!Charged(t, now, s) = Charged(t, now, s)
  BY <1>1, <1>5 DEF Alone!Charged, Charged
<1> QED
  BY <1>1, <1>6

\* The copy of the stability window.
LEMMA CopyWindow ==
  ASSUME NEW w, NEW t, NEW s, NEW now
  PROVE  /\ Alone(w)!WindowHolds(t, s) <=> WindowHolds(t, s)
         /\ Alone(w)!HoldWindow(t, now, s) = HoldWindow(t, now, s)
<1>1. Alone(w)!HealthyNow(s) <=> HealthyNow(s)
  BY DEF Alone!HealthyNow, HealthyNow, Alone!TerminalPodReason, TerminalPodReason,
         Alone!TerminalWaitingReason, TerminalWaitingReason, Alone!PodReady, PodReady
<1>2. Alone(w)!WindowViolation(t.baseline, s) <=> WindowViolation(t.baseline, s)
  BY Zenon DEF Alone!WindowViolation, WindowViolation, Alone!Cardinality, Cardinality,
               Alone!Absent, Absent
<1>3. Alone(w)!WindowHolds(t, s) <=> WindowHolds(t, s)
  BY <1>1, <1>2 DEF Alone!WindowHolds, WindowHolds, Alone!Unset, Unset
<1>4. Alone(w)!CloseWindow(t) = CloseWindow(t)
  BY DEF Alone!CloseWindow, CloseWindow, Alone!NoCounts, NoCounts, Alone!Unset, Unset,
         Alone!Absent, Absent
<1>5. Alone(w)!OpenWindow(t, now, s) = OpenWindow(t, now, s)
  BY DEF Alone!OpenWindow, OpenWindow, Alone!RestartCounts, RestartCounts,
         Alone!Absent, Absent
<1>6. Alone(w)!HoldWindow(t, now, s) = HoldWindow(t, now, s)
  BY <1>1, <1>3, <1>4, <1>5 DEF Alone!HoldWindow, HoldWindow
<1> QED
  BY <1>3, <1>6

\* The copies of observe and timeoutVerdict.
LEMMA CopyTracker ==
  ASSUME NEW w, NEW t, NEW s, NEW now
  PROVE  /\ Alone(w)!TrackerAfter(t, now, s) = TrackerAfter(t, now, s)
         /\ Alone(w)!OutcomeAfter(t, now, s) = OutcomeAfter(t, now, s)
         /\ Alone(w)!TimeoutVerdict(t) = TimeoutVerdict(t)
<1>1. Alone(w)!ControllerFailed(s) <=> ControllerFailed(s)
  BY DEF Alone!ControllerFailed, ControllerFailed
<1>2. Alone(w)!TrackerAfter(t, now, s) = TrackerAfter(t, now, s)
  BY <1>1, CopyCharged, CopyWindow, Zenon DEF Alone!TrackerAfter, TrackerAfter
<1>3. Alone(w)!OutcomeAfter(t, now, s) = OutcomeAfter(t, now, s)
  BY <1>1, CopyCharged, CopyWindow, Zenon DEF Alone!OutcomeAfter, OutcomeAfter, Alone!Open, Open
<1>4. Alone(w)!TimeoutVerdict(t) = TimeoutVerdict(t)
  BY DEF Alone!TimeoutVerdict, TimeoutVerdict, Alone!TerminalAtTimeout, TerminalAtTimeout,
         Alone!TerminalWaitingReason, TerminalWaitingReason
<1> QED
  BY <1>2, <1>3, <1>4

----------------------------------------------------------------------------
(* Each target is a Watch                                                  *)

\* A target that is open has no result yet, and its tracker has not exited
\* early; one that is done says why.
OpenOrJudged ==
    /\ DOMAIN hist = Targets
    /\ \A w \in Targets :
        \/ res[w] = Unfinished /\ ~ tracker[w].wedgedOut
        \/ res[w].outcome # "none" /\ res[w].reason \in Reasons \ {"none"}

AloneInv == FleetInv /\ OpenOrJudged

\* An evaluation after which a target stays open has not exited early.
LEMMA OpenStaysPatient ==
  ASSUME NEW t \in Trackers, NEW s \in Snapshots, NEW now \in Nat, t.lastObserve <= now,
         ~ t.wedgedOut, OutcomeAfter(t, now, s) = Open
  PROVE  ~ TrackerAfter(t, now, s).wedgedOut
<1>1. ~ ControllerFailed(s) /\ ~ Charged(t, now, s).wedgedOut
  BY DEF OutcomeAfter, Open
<1> QED
  BY <1>1, AfterWedge

\* What Judge does to its target.
LEMMA JudgeAlone ==
  ASSUME AloneInv, NEW w \in Targets, ~ Finished(w), Judge(w)
  PROVE  \E s \in Views[w] :
            /\ Alone(w)!Follows(tracker[w], s)
            /\ tracker'[w] = TrackerAfter(tracker[w], clock, s)
            /\ hist'[w] = Alone(w)!HistoryAfter(hist[w], tracker[w], clock, s)
            /\ \/ /\ OutcomeAfter(tracker[w], clock, s) = Open
                  /\ res' = res /\ ~ tracker'[w].wedgedOut
               \/ /\ OutcomeAfter(tracker[w], clock, s) \in {"settled", "failed"}
                  /\ res'[w] = Finish(tracker'[w], OutcomeAfter(tracker[w], clock, s),
                                      "tracker", clock)
<1>1. PICK s \in Views[w] :
        /\ Alone(w)!Follows(tracker[w], s)
        /\ tracker' = [tracker EXCEPT ![w] = TrackerAfter(tracker[w], clock, s)]
        /\ hist' = [hist EXCEPT ![w] = Alone(w)!HistoryAfter(@, tracker[w], clock, s)]
        /\ IF OutcomeAfter(tracker[w], clock, s) = Open THEN UNCHANGED res
           ELSE res' = [res EXCEPT ![w] =
                          Finish(TrackerAfter(tracker[w], clock, s),
                                 OutcomeAfter(tracker[w], clock, s), "tracker", clock)]
  BY Zenon DEF Judge
<1>2. /\ DOMAIN tracker = Targets /\ DOMAIN res = Targets /\ DOMAIN hist = Targets
      /\ tracker[w] \in Trackers /\ clock \in Nat /\ tracker[w].lastObserve <= clock
      /\ s \in Snapshots
  BY FleetAssumption DEF AloneInv, OpenOrJudged, FleetInv, TypeOK, TimeOrder
<1>3. ~ tracker[w].wedgedOut
  BY DEF AloneInv, OpenOrJudged, Finished
<1>4. /\ tracker'[w] = TrackerAfter(tracker[w], clock, s)
      /\ hist'[w] = Alone(w)!HistoryAfter(hist[w], tracker[w], clock, s)
  BY <1>1, <1>2
<1>5. CASE OutcomeAfter(tracker[w], clock, s) = Open
  <2>1. ~ tracker'[w].wedgedOut
    BY <1>2, <1>3, <1>4, <1>5, OpenStaysPatient
  <2> QED
    BY <1>1, <1>4, <1>5, <2>1
<1>6. CASE OutcomeAfter(tracker[w], clock, s) # Open
  <2>1. OutcomeAfter(tracker[w], clock, s) \in {"settled", "failed"}
    BY <1>6, OutcomeType
  <2>2. res'[w] = Finish(tracker'[w], OutcomeAfter(tracker[w], clock, s), "tracker", clock)
    BY <1>1, <1>2, <1>4, <1>6
  <2> QED
    BY <1>1, <1>4, <2>1, <2>2
<1> QED
  BY <1>5, <1>6

\* An evaluation touches its own target only, and what it leaves is open or
\* judged.
LEMMA EvaluateAlone ==
  ASSUME AloneInv, NEW w \in Targets, Evaluate(w)
  PROVE  /\ OpenOrJudged'
         /\ \A v \in Targets \ {w} : /\ tracker'[v] = tracker[v] /\ res'[v] = res[v]
                                     /\ hist'[v] = hist[v]
<1>1. DOMAIN tracker = Targets /\ DOMAIN res = Targets /\ DOMAIN hist = Targets
  BY DEF AloneInv, OpenOrJudged, FleetInv, TypeOK
<1>2. CASE Finished(w)
  <2>1. UNCHANGED <<tracker, hist, res>>
    BY <1>2 DEF Evaluate
  <2> QED
    BY <2>1 DEF AloneInv, OpenOrJudged
<1>3. CASE ~ Finished(w) /\ Judge(w)
  <2>1. /\ \E t : tracker' = [tracker EXCEPT ![w] = t]
        /\ \E h : hist' = [hist EXCEPT ![w] = h]
        /\ res' = res \/ \E r : res' = [res EXCEPT ![w] = r]
    BY <1>3, Zenon DEF Judge
  <2>2. /\ DOMAIN hist' = Targets
        /\ \A v \in Targets \ {w} : /\ tracker'[v] = tracker[v] /\ res'[v] = res[v]
                                    /\ hist'[v] = hist[v]
    BY <1>1, <2>1
  <2>3. \/ res' = res /\ ~ tracker'[w].wedgedOut
        \/ res'[w].outcome # "none" /\ res'[w].reason = "tracker"
    <3>1. \/ res' = res /\ ~ tracker'[w].wedgedOut
          \/ \E o \in {"settled", "failed"} : res'[w] = Finish(tracker'[w], o, "tracker", clock)
      BY <1>3, JudgeAlone, Zenon
    <3> QED
      BY <3>1 DEF Finish
  <2>4. res[w] = Unfinished
    BY <1>3 DEF AloneInv, OpenOrJudged, Finished
  <2>5. OpenOrJudged'
    BY <2>2, <2>3, <2>4 DEF AloneInv, OpenOrJudged, Reasons
  <2> QED
    BY <2>2, <2>5
<1>4. CASE ~ Finished(w) /\ (Miss(w) \/ Misread(w))
  <2>1. PICK reason \in {"deleted", "other"} :
            /\ res' = [res EXCEPT ![w] = Finish(tracker[w], "failed", reason, clock)]
            /\ UNCHANGED <<tracker, hist>>
    BY <1>4 DEF Miss, Misread
  <2>2. /\ res'[w].outcome # "none" /\ res'[w].reason \in Reasons \ {"none"}
        /\ \A v \in Targets \ {w} : res'[v] = res[v]
    BY <1>1, <2>1 DEF Finish, Reasons
  <2> QED
    BY <2>1, <2>2 DEF AloneInv, OpenOrJudged
<1> QED
  BY <1>2, <1>3, <1>4 DEF Evaluate

\* The inductive invariant of the refinement.
LEMMA InitAloneInv == Init => AloneInv
<1> SUFFICES ASSUME Init PROVE AloneInv
  OBVIOUS
<1>1. FleetInv
  BY InitFleetInv
<1>2. OpenOrJudged
  BY DEF Init, OpenOrJudged, NewTracker
<1> QED
  BY <1>1, <1>2 DEF AloneInv

\* Every step preserves it.
LEMMA NextAloneInv == AloneInv /\ [Next]_vars => AloneInv'
<1> SUFFICES ASSUME AloneInv, [Next]_vars PROVE AloneInv'
  OBVIOUS
<1>1. FleetInv'
  BY NextFleetInv DEF AloneInv
<1>2. CASE \E w \in Targets : Evaluate(w)
  BY <1>1, <1>2, EvaluateAlone DEF AloneInv
<1>3. CASE DeadlinePasses
  <2>1. UNCHANGED <<tracker, hist>>
    BY <1>3 DEF DeadlinePasses
  <2>2. \A w \in Targets :
           res'[w] = IF Finished(w) THEN res[w]
                     ELSE Finish(tracker[w], TimeoutVerdict(tracker[w]), "tracker", clock')
    BY <1>3 DEF DeadlinePasses
  <2>3. \A w \in Targets : /\ TimeoutVerdict(tracker[w]) # "none"
                           /\ "tracker" \in Reasons \ {"none"}
    BY DEF TimeoutVerdict, Reasons
  <2>4. ASSUME NEW w \in Targets
        PROVE  res'[w].outcome # "none" /\ res'[w].reason \in Reasons \ {"none"}
    <3>1. CASE Finished(w)
      <4>1. res'[w] = res[w]
        BY <2>2, <3>1
      <4> QED
        BY <3>1, <4>1 DEF AloneInv, OpenOrJudged, Finished, Unfinished
    <3>2. CASE ~ Finished(w)
      <4>1. res'[w] = Finish(tracker[w], TimeoutVerdict(tracker[w]), "tracker", clock')
        BY <2>2, <3>2
      <4> QED
        BY <2>3, <4>1 DEF Finish
    <3> QED
      BY <3>1, <3>2
  <2> QED
    BY <1>1, <2>1, <2>4 DEF AloneInv, OpenOrJudged
<1>4. CASE \/ PreflightPasses \/ PreflightFails \/ SyncCompletes \/ SyncFails
           \/ RoundEnds \/ TickerFires \/ Interrupted \/ UNCHANGED vars
  <2>1. UNCHANGED <<tracker, hist, res>>
    BY <1>4 DEF PreflightPasses, PreflightFails, SyncCompletes, SyncFails, RoundEnds,
                TickerFires, Interrupted, vars
  <2> QED
    BY <1>1, <2>1 DEF AloneInv, OpenOrJudged
<1> QED
  BY <1>2, <1>3, <1>4 DEF Next

\* The steps before the first round are steps of every target.
LEMMA CallsAlone ==
  ASSUME AloneInv, NEW w \in Targets,
         PreflightPasses \/ PreflightFails \/ SyncCompletes \/ SyncFails
  PROVE  Alone(w)!Next
<1>1. ~ Finished(w) /\ res[w] = Unfinished
  BY DEF AloneInv, FleetInv, JudgedInTime, OpenOrJudged, Finished,
         PreflightPasses, PreflightFails, SyncCompletes, SyncFails
<1>2. answer = "none"
  BY DEF AloneInv, FleetInv, AnswerIsFinal, PreflightPasses, PreflightFails,
         SyncCompletes, SyncFails
<1>3. CASE PreflightPasses
  <2>1. Alone(w)!PreflightPasses
    BY <1>1, <1>3 DEF PreflightPasses, Alone!PreflightPasses, Finished, AloneOutcome
  <2> QED
    BY <2>1 DEF Alone!Next
<1>4. CASE SyncCompletes
  <2>1. Alone(w)!SyncCompletes
    BY <1>1, <1>4 DEF SyncCompletes, Alone!SyncCompletes, Finished, AloneOutcome
  <2> QED
    BY <2>1 DEF Alone!Next
<1>5. CASE PreflightFails
  <2>1. PICK e \in FleetErrors : phase' = "done" /\ answer' = e
    BY <1>5 DEF PreflightFails, Return
  <2>2. /\ ~ Finished(w)' /\ res'[w].wedgedOut = FALSE
        /\ AloneOutcome(w)' = IF e = "no_match" THEN "not_found" ELSE e
    BY <1>1, <1>5, <2>1 DEF PreflightFails, Finished, AloneOutcome, Unfinished
  <2>3. AloneOutcome(w)' \in Alone(w)!Errors
    BY <2>2 DEF FleetErrors, Alone!Errors
  <2>4. \E x \in Alone(w)!Errors : Alone(w)!Fail(x)
    BY <2>1, <2>2, <2>3 DEF Alone!Fail, Alone!Return
  <2>5. Alone(w)!PreflightFails
    BY <1>1, <1>5, <2>2, <2>4 DEF PreflightFails, Alone!PreflightFails
  <2> QED
    BY <2>5 DEF Alone!Next
<1>6. CASE SyncFails
  <2>1. phase' = "done" /\ answer' = "other"
    BY <1>6 DEF SyncFails, Return
  <2>2. ~ Finished(w)' /\ res'[w].wedgedOut = FALSE /\ AloneOutcome(w)' = "other"
    BY <1>1, <1>6, <2>1 DEF SyncFails, Finished, AloneOutcome, Unfinished
  <2>3. Alone(w)!SyncFails
    BY <1>1, <1>6, <2>1, <2>2 DEF SyncFails, Alone!SyncFails, Alone!Fail, Alone!Return
  <2> QED
    BY <2>3 DEF Alone!Next
<1> QED
  BY <1>3, <1>4, <1>5, <1>6

\* A target that is done sees no more of the run.
LEMMA DoneAlone ==
  ASSUME AloneInv, NEW w \in Targets, Finished(w),
         tracker'[w] = tracker[w], hist'[w] = hist[w], res'[w] = res[w], deadline' = deadline
  PROVE  UNCHANGED Alone(w)!vars
<1>1. res[w].reason \in {"tracker", "deleted", "other"}
  BY DEF AloneInv, OpenOrJudged, Finished, Unfinished, Reasons
<1>2. AloneOutcome(w)' = AloneOutcome(w)
  BY <1>1 DEF AloneOutcome
<1> QED
  BY <1>2 DEF Alone!vars, Finished

\* The select of the loop is that of each open target.
LEMMA SelectAlone ==
  ASSUME AloneInv, NEW w \in Targets, ~ Finished(w),
         TickerFires \/ DeadlinePasses \/ Interrupted
  PROVE  Alone(w)!Next
<1>1. /\ res[w] = Unfinished /\ ~ tracker[w].wedgedOut /\ answer = "none"
      /\ tracker[w] \in Trackers
  BY DEF AloneInv, FleetInv, TypeOK, AnswerIsFinal, OpenOrJudged, Finished,
         TickerFires, DeadlinePasses, Interrupted
<1>2. CASE TickerFires
  <2>1. Alone(w)!TickerFires
    BY <1>1, <1>2 DEF TickerFires, Alone!TickerFires, Finished, AloneOutcome
  <2> QED
    BY <2>1 DEF Alone!Next
<1>3. CASE Interrupted
  <2>1. phase' = "done" /\ answer' = "other"
    BY <1>3 DEF Interrupted, Return
  <2>2. ~ Finished(w)' /\ res'[w].wedgedOut = FALSE /\ AloneOutcome(w)' = "other"
    BY <1>1, <1>3, <2>1 DEF Interrupted, Finished, AloneOutcome, Unfinished
  <2>3. Alone(w)!Interrupted
    BY <1>1, <1>3, <2>1, <2>2 DEF Interrupted, Alone!Interrupted, Alone!Fail, Alone!Return
  <2> QED
    BY <2>3 DEF Alone!Next
<1>4. CASE DeadlinePasses
  <2>1. res'[w] = Finish(tracker[w], TimeoutVerdict(tracker[w]), "tracker", clock')
    BY <1>4 DEF DeadlinePasses
  <2>2. /\ TimeoutVerdict(tracker[w]) # "none" /\ tracker[w].wedgedOut = FALSE
        /\ Alone(w)!TimeoutVerdict(tracker[w]) = TimeoutVerdict(tracker[w])
    BY <1>1, CopyTracker DEF TimeoutVerdict, Trackers
  <2>3. /\ Finished(w)' /\ AloneOutcome(w)' = TimeoutVerdict(tracker[w])
        /\ res'[w].wedgedOut = FALSE /\ res'[w].elapsed = clock'
    BY <2>1, <2>2 DEF Finished, AloneOutcome, Finish
  <2>4. Alone(w)!DeadlinePasses
    BY <1>4, <2>2, <2>3 DEF DeadlinePasses, Alone!DeadlinePasses, Alone!Fail, Alone!Return
  <2> QED
    BY <2>4 DEF Alone!Next
<1> QED
  BY <1>2, <1>3, <1>4

\* The turn of an open target is an evaluation of its own watch.
LEMMA TurnAlone ==
  ASSUME AloneInv, NEW w \in Targets, ~ Finished(w), Evaluate(w)
  PROVE  Alone(w)!Next
<1>1. /\ res[w] = Unfinished /\ ~ tracker[w].wedgedOut /\ answer = "none"
      /\ tracker[w] \in Trackers
      /\ phase = "observe" /\ w \in pending /\ w \notin pending'
      /\ UNCHANGED <<phase, clock, deadline, answer>>
  BY DEF AloneInv, FleetInv, TypeOK, AnswerIsFinal, OpenOrJudged, Finished, Evaluate
<1>2. AloneOutcome(w) = "none"
  BY <1>1 DEF AloneOutcome, Unfinished
<1>3. CASE Judge(w)
  <2>1. PICK s \in Views[w] :
            /\ Alone(w)!Follows(tracker[w], s)
            /\ tracker'[w] = TrackerAfter(tracker[w], clock, s)
            /\ hist'[w] = Alone(w)!HistoryAfter(hist[w], tracker[w], clock, s)
            /\ \/ /\ OutcomeAfter(tracker[w], clock, s) = Open
                  /\ res' = res /\ ~ tracker'[w].wedgedOut
               \/ /\ OutcomeAfter(tracker[w], clock, s) \in {"settled", "failed"}
                  /\ res'[w] = Finish(tracker'[w], OutcomeAfter(tracker[w], clock, s),
                                      "tracker", clock)
    BY <1>3, JudgeAlone
  <2> DEFINE out == OutcomeAfter(tracker[w], clock, s)
  <2>2. /\ Alone(w)!TrackerAfter(tracker[w], clock, s) = tracker'[w]
        /\ Alone(w)!OutcomeAfter(tracker[w], clock, s) = out
    BY <2>1, CopyTracker
  <2> HIDE DEF out
  <2>3. CASE out = Open
    <3>1. ~ Finished(w)' /\ AloneOutcome(w)' = "none" /\ res'[w] = res[w]
      BY <1>1, <2>1, <2>3 DEF out, Open, Finished, AloneOutcome, Unfinished
    <3>2. Alone(w)!Observe
      BY <1>1, <1>2, <2>1, <2>2, <2>3, <3>1 DEF Alone!Observe, Alone!Open, Open
    <3> QED
      BY <3>2 DEF Alone!Next
  <2>4. CASE out # Open
    <3>1. out \in {"settled", "failed"} /\ res'[w] = Finish(tracker'[w], out, "tracker", clock)
      BY <2>1, <2>4 DEF out
    <3>2. /\ Finished(w)' /\ AloneOutcome(w)' = out
          /\ res'[w].wedgedOut = tracker'[w].wedgedOut /\ res'[w].elapsed = clock
      BY <3>1 DEF Finished, AloneOutcome, Finish
    <3>3. Alone(w)!Observe
      BY <1>1, <1>2, <2>1, <2>2, <2>4, <3>2
         DEF Alone!Observe, Alone!Return, Alone!ResultOf, Alone!Open, Open
    <3> QED
      BY <3>3 DEF Alone!Next
  <2> QED
    BY <2>3, <2>4
<1>4. CASE Miss(w) \/ Misread(w)
  <2>1. PICK reason \in {"deleted", "other"} :
            /\ res' = [res EXCEPT ![w] = Finish(tracker[w], "failed", reason, clock)]
            /\ UNCHANGED <<tracker, hist>>
    BY <1>4 DEF Miss, Misread
  <2>2. DOMAIN res = Targets /\ tracker[w].wedgedOut = FALSE
    BY <1>1 DEF AloneInv, FleetInv, TypeOK, Trackers
  <2>3. /\ Finished(w)' /\ res'[w].wedgedOut = FALSE /\ res'[w].elapsed = clock
        /\ AloneOutcome(w)' \in {"not_found", "other"}
    BY <2>1, <2>2 DEF Finished, AloneOutcome, Finish
  <2>4. \E e \in {"not_found", "other"} : Alone(w)!Fail(e)
    BY <2>3 DEF Alone!Fail, Alone!Return
  <2>5. Alone(w)!SnapshotFails
    BY <1>1, <2>1, <2>3, <2>4 DEF Alone!SnapshotFails
  <2> QED
    BY <2>5 DEF Alone!Next
<1> QED
  BY <1>3, <1>4 DEF Evaluate

\* Every step of the fleet is a step of each watch or leaves it alone.
LEMMA StepAlone ==
  ASSUME AloneInv, [Next]_vars, NEW w \in Targets
  PROVE  [Alone(w)!Next]_(Alone(w)!vars)
<1>1. CASE PreflightPasses \/ PreflightFails \/ SyncCompletes \/ SyncFails
  BY <1>1, CallsAlone
<1>2. ASSUME NEW v \in Targets, Evaluate(v), v # w PROVE UNCHANGED Alone(w)!vars
  <2>1. /\ tracker'[w] = tracker[w] /\ res'[w] = res[w] /\ hist'[w] = hist[w]
    BY <1>2, EvaluateAlone
  <2>2. /\ UNCHANGED <<phase, clock, deadline, answer>>
        /\ w \in pending' <=> w \in pending
    BY <1>2 DEF Evaluate
  <2> QED
    BY <2>1, <2>2 DEF Alone!vars, Finished, AloneOutcome
<1>3. CASE Finished(w) /\ Evaluate(w)
  <2>1. UNCHANGED <<tracker, hist, res, deadline>>
    BY <1>3 DEF Evaluate
  <2> QED
    BY <1>3, <2>1, DoneAlone
<1>4. CASE ~ Finished(w) /\ Evaluate(w)
  BY <1>4, TurnAlone
<1>5. CASE RoundEnds
  <2>1. UNCHANGED <<clock, deadline, tracker, res, hist, pending>>
    BY <1>5 DEF RoundEnds
  <2>2. CASE Finished(w)
    BY <2>1, <2>2, DoneAlone
  <2>3. CASE ~ Finished(w)
    <3>1. phase = "observe" /\ pending = {} /\ phase' = "select" /\ answer' = answer
      BY <1>5, <2>3 DEF RoundEnds, OpenTargets
    <3> QED
      BY <2>1, <3>1 DEF Alone!vars, Finished, AloneOutcome
  <2> QED
    BY <2>2, <2>3
<1>6. CASE ~ Finished(w) /\ (TickerFires \/ DeadlinePasses \/ Interrupted)
  BY <1>6, SelectAlone
<1>7. CASE Finished(w) /\ (TickerFires \/ DeadlinePasses \/ Interrupted)
  <2>1. UNCHANGED <<tracker, hist, deadline>> /\ res'[w] = res[w]
    BY <1>7 DEF TickerFires, DeadlinePasses, Interrupted
  <2> QED
    BY <1>7, <2>1, DoneAlone
<1>8. CASE UNCHANGED vars
  BY <1>8 DEF vars, Alone!vars, Finished, AloneOutcome
<1> QED
  BY <1>1, <1>2, <1>3, <1>4, <1>5, <1>6, <1>7, <1>8 DEF Next

\* A fleet is, target by target, a watch of that target alone (RunFleet against
\* Run): what Watch promises of one target a fleet promises of each.
THEOREM EachIsAWatchCorrect == Spec => EachIsAWatch
<1> DEFINE Each == \A w \in Targets : [Alone(w)!Next]_(Alone(w)!vars)
<1>1. ASSUME Init PROVE \A w \in Targets : Alone(w)!Init
  <2> SUFFICES ASSUME NEW w \in Targets PROVE Alone(w)!Init
    OBVIOUS
  <2>1. /\ phase = "preflight" /\ clock = 0 /\ deadline = Unset /\ answer = "none"
        /\ tracker[w] = NewTracker /\ res[w] = Unfinished /\ hist[w] = Alone(w)!NoHistory
    BY <1>1, Zenon DEF Init
  <2>2. ~ Finished(w) /\ AloneOutcome(w) = "none" /\ res[w].wedgedOut = FALSE
    BY <2>1 DEF Finished, AloneOutcome, Unfinished
  <2>3. Alone(w)!NewTracker = NewTracker
    BY DEF Alone!NewTracker, NewTracker, Alone!Unset, Unset, Alone!NoCounts, NoCounts,
           Alone!Absent, Absent, Alone!NoSnapshot, NoSnapshot, Alone!NoPod, NoPod
  <2> QED
    BY <2>1, <2>2, <2>3 DEF Alone!Init, Alone!NoResult, Alone!Unset, Unset
<1>2. ASSUME AloneInv, [Next]_vars PROVE [Each]_vars
  BY <1>2, StepAlone
<1> HIDE DEF Each
<1>3. Spec => [][Each]_vars
  BY <1>2, InitAloneInv, NextAloneInv, PTL DEF Spec
<1> QED
  BY <1>1, <1>3 DEF EachIsAWatch, Each, Spec

----------------------------------------------------------------------------
(* Discovery *)

\* What matched all along still matches, what matches is on record, and so is
\* what was collected.
Bracketed == /\ always \subseteq cluster
             /\ cluster \subseteq ever
             /\ targets \subseteq ever
             /\ IsFiniteSet(ever) /\ ever \subseteq Workloads

\* Lists that were not cut have collected every workload of their kinds that
\* matched all along.
Complete == ~ more => \A i \in 1 .. next - 1 : \A w \in always :
                            w[1] = Kinds[i] => w \in targets

\* A list that was cut brought more than the ceiling.
CutIsFull == more => Ceiling < Cardinality(targets)

\* A decision is one about all the lists.
Decided == selection.kind \in {"over_ceiling", "targets", "no_match"} =>
    /\ next = Len(Kinds) + 1
    /\ selection = [kind |-> IF more \/ Cardinality(targets) > Ceiling THEN "over_ceiling"
                             ELSE IF targets = {} THEN "no_match" ELSE "targets",
                    matched |-> Cardinality(targets)]

\* The inductive invariant.
DiscoveryInv == /\ next \in 1 .. Len(Kinds) + 1
                /\ more \in BOOLEAN
                /\ Bracketed /\ Complete /\ CutIsFull /\ Decided

----------------------------------------------------------------------------
\* There are finitely many workloads.
LEMMA WorkloadsFinite == IsFiniteSet(Workloads)
<1>1. Kinds \in [1 .. Len(Kinds) -> STRING] /\ Len(Kinds) \in Nat
  BY DiscoveryAssumption
<1>2. IsFiniteSet(1 .. Len(Kinds))
  BY <1>1, FS_Interval
<1>3. Kinds \in Surjection(1 .. Len(Kinds), Range(Kinds))
  BY <1>1 DEF Surjection, Range
<1>4. IsFiniteSet(Range(Kinds))
  BY <1>2, <1>3, FS_Surjection
<1> QED
  BY <1>4, FS_Product, DiscoveryAssumption DEF Workloads

\* The invariant holds before the first list.
LEMMA InitDiscoveryInv == DiscoverInit => DiscoveryInv
<1> SUFFICES ASSUME DiscoverInit PROVE DiscoveryInv
  OBVIOUS
<1>1. Len(Kinds) \in Nat
  BY DiscoveryAssumption
<1>2. IsFiniteSet(ever) /\ ever \subseteq Workloads
  BY WorkloadsFinite, FS_Subset DEF DiscoverInit
<1>3. Bracketed
  BY <1>2 DEF DiscoverInit, Bracketed
<1>4. Complete /\ CutIsFull /\ Decided
  BY DEF DiscoverInit, Complete, CutIsFull, Decided
<1>5. next \in 1 .. Len(Kinds) + 1
  BY <1>1 DEF DiscoverInit
<1>6. more \in BOOLEAN
  BY DEF DiscoverInit
<1> QED
  BY <1>3, <1>4, <1>5, <1>6 DEF DiscoveryInv

\* Whatever comes and goes, what matched all along can only get less and what
\* matched at some time only more.
LEMMA ClusterChangesStep ==
  ASSUME DiscoveryInv, ClusterChanges PROVE DiscoveryInv'
<1>1. PICK w \in Workloads :
        IF w \in cluster
        THEN cluster' = cluster \ {w} /\ always' = always \ {w} /\ UNCHANGED ever
        ELSE cluster' = cluster \union {w} /\ ever' = ever \union {w} /\ UNCHANGED always
  BY DEF ClusterChanges
<1>2. UNCHANGED <<next, targets, more, selection>> /\ Running
  BY DEF ClusterChanges
<1>3. IsFiniteSet(ever')
  BY <1>1, FS_AddElement DEF DiscoveryInv, Bracketed
<1>4. Bracketed'
  BY <1>1, <1>2, <1>3 DEF DiscoveryInv, Bracketed
<1>5. always' \subseteq always
  BY <1>1
<1>6. Complete'
  BY <1>2, <1>5 DEF DiscoveryInv, Complete
<1>7. CutIsFull' /\ Decided'
  BY <1>2 DEF DiscoveryInv, CutIsFull, Decided, Running
<1> QED
  BY <1>2, <1>4, <1>6, <1>7 DEF DiscoveryInv

\* A page that is not the whole list fills the limit.
LEMMA PageFacts ==
  ASSUME NEW k, NEW limit \in Nat, NEW page \in Page(k, limit), IsFiniteSet(cluster)
  PROVE  /\ page \subseteq OfKind(k)
         /\ page # OfKind(k) => Cardinality(page) = limit
<1>1. page \subseteq OfKind(k)
  BY DEF Page
<1>2. IsFiniteSet(OfKind(k))
  BY FS_Subset DEF OfKind
<1>3. page # OfKind(k) => Cardinality(page) # Cardinality(OfKind(k))
  BY <1>1, <1>2, FS_Subset
<1> QED
  BY <1>1, <1>3 DEF Page

\* A list adds what it shows, and everything unless it was cut.
LEMMA ListStep ==
  ASSUME DiscoveryInv, List PROVE DiscoveryInv'
<1> DEFINE k == Kinds[next]
<1>1. PICK page \in Page(k, Ceiling + 1) :
        /\ targets' = targets \union page
        /\ more' = (more \/ page # OfKind(k))
  BY DEF List
<1>2. /\ Running /\ next <= Len(Kinds) /\ next' = next + 1
      /\ UNCHANGED <<cluster, selection, always, ever>>
  BY DEF List
<1>3. Len(Kinds) \in Nat /\ Ceiling \in Nat
  BY DiscoveryAssumption
<1>4. IsFiniteSet(cluster)
  BY FS_Subset DEF DiscoveryInv, Bracketed
<1>5. page \subseteq OfKind(k) /\ (page # OfKind(k) => Cardinality(page) = Ceiling + 1)
  BY <1>1, <1>3, <1>4, PageFacts
<1>6. OfKind(k) \subseteq cluster
  BY DEF OfKind
<1>7. Bracketed'
  BY <1>1, <1>2, <1>5, <1>6 DEF DiscoveryInv, Bracketed
<1>8. Complete'
  <2> SUFFICES ASSUME ~ more', NEW i \in 1 .. next' - 1, NEW w \in always', w[1] = Kinds[i]
               PROVE  w \in targets'
    BY DEF Complete
  <2>1. ~ more /\ page = OfKind(k)
    BY <1>1 DEF DiscoveryInv
  <2>2. w \in always /\ w \in cluster
    BY <1>2 DEF DiscoveryInv, Bracketed
  <2>3. CASE i = next
    BY <1>1, <2>1, <2>2, <2>3 DEF OfKind
  <2>4. CASE i # next
    <3>1. i \in 1 .. next - 1
      BY <1>2, <2>4 DEF DiscoveryInv
    <3> QED
      BY <1>1, <2>1, <2>2, <3>1 DEF DiscoveryInv, Complete
  <2> QED
    BY <2>3, <2>4
<1>9. CutIsFull'
  <2>1. IsFiniteSet(targets')
    BY <1>2, <1>7, FS_Subset DEF Bracketed
  <2>2. /\ Cardinality(targets) <= Cardinality(targets')
        /\ Cardinality(page) <= Cardinality(targets')
    BY <1>1, <2>1, FS_Subset
  <2>3. IsFiniteSet(targets) /\ IsFiniteSet(page)
    BY <1>1, <2>1, FS_Subset
  <2>4. Cardinality(targets) \in Nat /\ Cardinality(page) \in Nat /\ Cardinality(targets') \in Nat
    BY <2>1, <2>3, FS_CardinalityType
  <2> QED
    BY <1>1, <1>3, <1>5, <2>2, <2>4 DEF DiscoveryInv, CutIsFull
<1>10. Decided'
  BY <1>2 DEF Decided, Running
<1>11. next' \in 1 .. Len(Kinds) + 1 /\ more' \in BOOLEAN
  BY <1>1, <1>2, <1>3 DEF DiscoveryInv
<1> QED
  BY <1>7, <1>8, <1>9, <1>10, <1>11 DEF DiscoveryInv

\* Every step preserves the invariant.
LEMMA NextDiscoveryInv == DiscoveryInv /\ [DiscoverNext]_discoverVars => DiscoveryInv'
<1> SUFFICES ASSUME DiscoveryInv, [DiscoverNext]_discoverVars PROVE DiscoveryInv'
  OBVIOUS
<1>1. CASE ClusterChanges
  BY <1>1, ClusterChangesStep
<1>2. CASE List
  BY <1>2, ListStep
<1>3. CASE ListFails
  <2>1. selection'.kind \in {"permission", "other"}
    BY <1>3 DEF ListFails
  <2> QED
    BY <1>3, <2>1 DEF ListFails, DiscoveryInv, Bracketed, Complete, CutIsFull, Decided
<1>4. CASE Decide
  <2>1. next' = Len(Kinds) + 1
    BY <1>4, DiscoveryAssumption DEF Decide, DiscoveryInv
  <2>2. Decided'
    BY <1>4, <2>1 DEF Decide, Decided
  <2> QED
    BY <1>4, <2>2 DEF Decide, DiscoveryInv, Bracketed, Complete, CutIsFull
<1>5. CASE UNCHANGED discoverVars
  BY <1>5 DEF discoverVars, DiscoveryInv, Bracketed, Complete, CutIsFull, Decided
<1> QED
  BY <1>1, <1>2, <1>3, <1>4, <1>5 DEF DiscoverNext

\* When all lists are through and none was cut, whatever matched all along has
\* been collected.
LEMMA AllCollected ==
  ASSUME DiscoveryInv, ~ more, next = Len(Kinds) + 1
  PROVE  always \subseteq targets
<1> SUFFICES ASSUME NEW w \in always PROVE w \in targets
  OBVIOUS
<1>1. Kinds \in [1 .. Len(Kinds) -> STRING] /\ Len(Kinds) \in Nat
  BY DiscoveryAssumption
<1>2. w \in Range(Kinds) \X Names
  BY DEF DiscoveryInv, Bracketed, Workloads
<1>3. PICK i \in 1 .. Len(Kinds) : w[1] = Kinds[i]
  BY <1>1, <1>2 DEF Range
<1> QED
  BY <1>1, <1>3 DEF DiscoveryInv, Complete

\* The invariant says of a decision what the properties ask.
LEMMA InvImpliesProperties == DiscoveryInv => SelectionBracketed /\ CeilingIsExact
<1> SUFFICES ASSUME DiscoveryInv PROVE SelectionBracketed /\ CeilingIsExact
  OBVIOUS
<1>1. IsFiniteSet(targets) /\ IsFiniteSet(always) /\ IsFiniteSet(ever)
  BY FS_Subset DEF DiscoveryInv, Bracketed
<1>2. /\ Cardinality(targets) \in Nat /\ Cardinality(always) \in Nat
      /\ Cardinality(ever) \in Nat /\ Ceiling \in Nat
  BY <1>1, FS_CardinalityType, DiscoveryAssumption
<1>3. Cardinality(targets) <= Cardinality(ever)
  BY <1>1, FS_Subset DEF DiscoveryInv, Bracketed
<1>4. CASE selection.kind \in {"targets", "no_match"}
  <2>1. ~ more /\ Cardinality(targets) <= Ceiling /\ next = Len(Kinds) + 1
        /\ (selection.kind = "no_match" => targets = {})
    BY <1>2, <1>4 DEF DiscoveryInv, Decided
  <2>2. always \subseteq targets
    BY <2>1, AllCollected
  <2>3. Cardinality(always) <= Cardinality(targets)
    BY <1>1, <2>2, FS_Subset
  <2>4. Cardinality(always) <= Ceiling
    BY <1>2, <2>1, <2>3
  <2>5. targets \subseteq ever
    BY DEF DiscoveryInv, Bracketed
  <2> QED
    BY <1>4, <2>1, <2>2, <2>4, <2>5 DEF SelectionBracketed, CeilingIsExact
<1>5. CASE selection.kind = "over_ceiling"
  <2>1. selection.matched = Cardinality(targets) /\ (more \/ Cardinality(targets) > Ceiling)
    BY <1>5 DEF DiscoveryInv, Decided
  <2>2. Ceiling < Cardinality(targets)
    BY <1>2, <2>1 DEF DiscoveryInv, CutIsFull
  <2> QED
    BY <1>2, <1>3, <1>5, <2>1, <2>2 DEF SelectionBracketed, CeilingIsExact
<1>6. CASE selection.kind \notin {"targets", "no_match", "over_ceiling"}
  BY <1>6 DEF SelectionBracketed, CeilingIsExact
<1> QED
  BY <1>4, <1>5, <1>6

\* A fleet that is watched contains what matched all along and nothing that
\* never did, whatever comes and goes while the kinds are listed (Discover).
THEOREM SelectionBracketedCorrect == DiscoverSpec => []SelectionBracketed
<1>1. DiscoveryInv => SelectionBracketed
  BY InvImpliesProperties
<1> QED
  BY <1>1, InitDiscoveryInv, NextDiscoveryInv, PTL DEF DiscoverSpec

\* The ceiling refuses no selection that fits all along and passes none that
\* exceeds it, and "nothing matched" is only said if nothing matched all along
\* (OverCeilingError, NoMatchError).
THEOREM CeilingIsExactCorrect == DiscoverSpec => []CeilingIsExact
<1>1. DiscoveryInv => CeilingIsExact
  BY InvImpliesProperties
<1> QED
  BY <1>1, InitDiscoveryInv, NextDiscoveryInv, PTL DEF DiscoverSpec
=============================================================================
