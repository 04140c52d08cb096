-------------------------------- MODULE Fleet --------------------------------
(***************************************************************************)
(* A fleet run: RunFleet of internal/settle/fleet.go, from the preflight   *)
(* on (Discovery models how the targets are found).  One loop drives one   *)
(* tracker per target over shared caches; every open target is evaluated   *)
(* once per round, at the same `now', and keeps the result it finished     *)
(* with until the whole fleet is judged or the deadline judges the rest.   *)
(*                                                                         *)
(* Time is treated as in Watch.  A target leaves the workload cache when   *)
(* it is deleted and, because that cache is filtered by the selector, when *)
(* it is relabelled out of the selection.                                  *)
(***************************************************************************)
EXTENDS Tracker

CONSTANTS Targets,        \* what Discover found
          Timeout, MaxGap, CallTimes,   \* as in Watch
          Views           \* Views[w]: the snapshots the caches can yield for w

ASSUME FleetAssumption ==
    /\ Targets # {}
    /\ Timeout \in Nat
    /\ MaxGap \in Nat \ {0}
    /\ CallTimes \subseteq 0 .. Timeout
    /\ Views \in [Targets -> SUBSET Snapshots]

VARIABLES phase, clock, deadline,       \* as in Watch
          tracker,                      \* tracker[w], of fleetWatch
          pending,                      \* whom this round has still to visit
          res,                          \* res[w]: the Result of a done target
          answer,                       \* what RunFleet returned
          hist                          \* history, as in Watch, per target

vars == <<phase, clock, deadline, tracker, pending, res, answer, hist>>

\* The errors of Discover and fleetPreflight, and of a broken watch.
FleetErrors == {"no_match", "permission", "other"}

Reasons == {"none", "tracker", "deleted", "other"}

Unfinished == [outcome |-> "none", reason |-> "none", wedgedOut |-> FALSE,
               elapsed |-> Unset]

Finished(w) == res[w].outcome # "none"

OpenTargets == {w \in Targets : ~ Finished(w)}

----------------------------------------------------------------------------
(* One target of the fleet, seen as a watch of its own.  Leaving the cache *)
(* is what ends a single watch with NotFoundError.                         *)

AloneOutcome(w) ==
    CASE res[w].reason = "deleted" -> "not_found"
      [] res[w].reason = "other"   -> "other"
      [] res[w].reason = "tracker" -> res[w].outcome
      [] res[w].reason = "none"    -> IF answer = "no_match" THEN "not_found" ELSE answer

Alone(w) == INSTANCE Watch WITH
    target <- w,
    phase <- IF Finished(w) THEN "done"
             ELSE IF phase = "observe" /\ w \notin pending THEN "select"
             ELSE phase,
    clock <- IF Finished(w) THEN res[w].elapsed ELSE clock,
    tracker <- tracker[w],
    hist <- hist[w],
    result <- [outcome |-> AloneOutcome(w), wedgedOut |-> res[w].wedgedOut]

----------------------------------------------------------------------------
Init == /\ phase = "preflight"
        /\ clock = 0
        /\ deadline = Unset
        /\ tracker = [w \in Targets |-> NewTracker]
        /\ pending = {}
        /\ res = [w \in Targets |-> Unfinished]
        /\ answer = "none"
        /\ hist = [w \in Targets |-> Alone(w)!NoHistory]

Return(a) == phase' = "done" /\ answer' = a

\* Mutant: the watch inherits no deadline from the options.
PreflightPassesUnbounded ==
    /\ phase = "preflight"
    /\ \E d \in CallTimes : clock' = clock + d
    /\ phase' = "sync"
    /\ UNCHANGED <<deadline, tracker, pending, res, answer, hist>>

PreflightPasses ==
    /\ phase = "preflight"
    /\ \E d \in CallTimes : clock' = clock + d
    /\ deadline' = clock' + Timeout
    /\ phase' = "sync"
    /\ UNCHANGED <<tracker, pending, res, answer, hist>>

PreflightFails ==
    /\ phase = "preflight"
    /\ \E d \in CallTimes : clock' = clock + d
    /\ \E e \in FleetErrors : Return(e)
    /\ UNCHANGED <<deadline, tracker, pending, res, hist>>

SyncCompletes ==
    /\ phase = "sync"
    /\ \E d \in CallTimes : clock' = clock + d
    /\ phase' = "observe"
    /\ pending' = Targets
    /\ UNCHANGED <<deadline, tracker, res, answer, hist>>

SyncFails ==
    /\ phase = "sync"
    /\ \E d \in CallTimes : clock' = clock + d
    /\ Return("other")
    /\ UNCHANGED <<deadline, tracker, pending, res, hist>>

\* finish
Finish(t, outcome, reason, elapsed) ==
    [outcome |-> outcome, reason |-> reason, wedgedOut |-> t.wedgedOut,
     elapsed |-> elapsed]

\* fleetWatch.observe on a cached target: its tracker decides.
Judge(w) ==
    \E s \in Views[w] :
        LET t == TrackerAfter(tracker[w], clock, s)
            out == OutcomeAfter(tracker[w], clock, s)
        IN  /\ Alone(w)!Follows(tracker[w], s)
            /\ tracker' = [tracker EXCEPT ![w] = t]
            /\ hist' = [hist EXCEPT ![w] = Alone(w)!HistoryAfter(@, tracker[w], clock, s)]
            /\ IF out = Open THEN UNCHANGED res
               ELSE res' = [res EXCEPT ![w] = Finish(t, out, "tracker", clock)]

\* ... on a target that is no longer in the cache ...
Miss(w) ==
    /\ res' = [res EXCEPT ![w] = Finish(tracker[w], "failed", "deleted", clock)]
    /\ UNCHANGED <<tracker, hist>>

\* ... and on one whose snapshot cannot be computed.
Misread(w) ==
    /\ res' = [res EXCEPT ![w] = Finish(tracker[w], "failed", "other", clock)]
    /\ UNCHANGED <<tracker, hist>>

\* Mutant: a target that is done is evaluated like any other.
EvaluateAny(w) ==
    /\ phase = "observe"
    /\ w \in pending
    /\ Judge(w) \/ Miss(w) \/ Misread(w)
    /\ pending' = pending \ {w}
    /\ UNCHANGED <<phase, clock, deadline, answer>>

\* One turn of the loop over the watches; a target that is done is skipped.
Evaluate(w) ==
    /\ phase = "observe"
    /\ w \in pending
    /\ IF Finished(w) THEN UNCHANGED <<tracker, hist, res>>
       ELSE Judge(w) \/ Miss(w) \/ Misread(w)
    /\ pending' = pending \ {w}
    /\ UNCHANGED <<phase, clock, deadline, answer>>

\* Mutant: the count of open targets is reset in the loop.
RoundEndsEarly ==
    /\ phase = "observe"
    /\ pending = {}
    /\ IF \E w \in Targets : Finished(w) THEN Return("results")
       ELSE phase' = "select" /\ UNCHANGED answer
    /\ UNCHANGED <<clock, deadline, tracker, res, hist, pending>>

\* The loop is through: return when no target is open, else select.
RoundEnds ==
    /\ phase = "observe"
    /\ pending = {}
    /\ IF OpenTargets = {} THEN Return("results")
       ELSE phase' = "select" /\ UNCHANGED answer
    /\ UNCHANGED <<clock, deadline, tracker, res, hist, pending>>

TickerFires ==
    /\ phase = "select"
    /\ clock < deadline
    /\ \E d \in 1 .. MaxGap : clock' = clock + d
    /\ phase' = "observe"
    /\ pending' = Targets
    /\ UNCHANGED <<deadline, tracker, res, answer, hist>>

\* Mutant: whatever is still open at the deadline is progressing.
DeadlineForgives ==
    /\ phase = "select"
    /\ deadline <= clock + MaxGap
    /\ clock' = IF clock < deadline THEN deadline ELSE clock
    /\ res' = [w \in Targets |->
                 IF Finished(w) THEN res[w]
                 ELSE Finish(tracker[w], "progressing", "tracker", clock')]
    /\ Return("results")
    /\ UNCHANGED <<deadline, tracker, pending, hist>>

\* Mutant: a deadline that passed during the last tick is never noticed.
DeadlineMissed ==
    /\ phase = "select"
    /\ clock < deadline /\ deadline <= clock + MaxGap
    /\ clock' = deadline
    /\ Return("results")
    /\ UNCHANGED <<deadline, tracker, pending, res, hist>>

\* The deadline judges every target that is still open.
DeadlinePasses ==
    /\ phase = "select"
    /\ deadline <= clock + MaxGap
    /\ clock' = IF clock < deadline THEN deadline ELSE clock
    /\ res' = [w \in Targets |->
                 IF Finished(w) THEN res[w]
                 ELSE Finish(tracker[w], TimeoutVerdict(tracker[w]), "tracker", clock')]
    /\ Return("results")
    /\ UNCHANGED <<deadline, tracker, pending, hist>>

Interrupted ==
    /\ phase = "select"
    /\ Return("other")
    /\ UNCHANGED <<clock, deadline, tracker, pending, res, hist>>

Next == \/ PreflightPasses \/ PreflightFails
        \/ SyncCompletes \/ SyncFails
        \/ \E w \in Targets : Evaluate(w)
        \/ RoundEnds
        \/ TickerFires \/ DeadlinePasses \/ Interrupted

Spec == Init /\ [][Next]_vars

\* As for a single watch: bounded calls, a ticker and a deadline.
Fairness == /\ WF_vars(PreflightPasses \/ PreflightFails)
            /\ WF_vars(SyncCompletes \/ SyncFails)
            /\ WF_vars((\E w \in Targets : Evaluate(w)) \/ RoundEnds)
            /\ WF_vars(TickerFires \/ DeadlinePasses)

FairSpec == Spec /\ Fairness

----------------------------------------------------------------------------
(* Properties *)

\* Every variable keeps its type, and the deadline exists exactly once the
\* preflight has passed.
TypeOK ==
    /\ phase \in {"preflight", "sync", "observe", "select", "done"}
    /\ clock \in Nat
    /\ deadline \in Times
    /\ phase \in {"sync", "observe", "select"} => deadline \in Nat
    /\ tracker \in [Targets -> Trackers]
    /\ pending \subseteq Targets
    /\ res \in [Targets -> [outcome : {"none"} \union Outcomes, reason : Reasons,
                            wedgedOut : BOOLEAN, elapsed : Times]]
    /\ answer \in {"none", "results"} \union FleetErrors

\* Each target of a fleet is watched exactly as it would be alone, whatever
\* the other targets do, and however much earlier or later they are judged:
\* every behaviour of the fleet is, target by target, one of Watch.  This is
\* \A w : Alone(w)!Spec with the box pulled out.
EachIsAWatch ==
    /\ \A w \in Targets : Alone(w)!Init
    /\ [][\A w \in Targets : [Alone(w)!Next]_(Alone(w)!vars)]_vars

\* What a fleet reports of a target is the result it finished with: no later
\* round, and not the deadline, revises a judged target (the `done' flag).
JudgedOnce == [][\A w \in Targets : Finished(w) => res'[w] = res[w]]_vars

\* A fleet that returns results has judged every target, and no target longer
\* than the deadline and one late evaluation (RunFleet).
AllJudged ==
    answer = "results" =>
        \A w \in Targets : Finished(w) /\ res[w].elapsed <= deadline + MaxGap

\* Every fleet run ends.
FleetTerminates == <>(phase = "done")
=============================================================================
