---------------------------- MODULE CommandProofs ----------------------------
(***************************************************************************)
(* The command, for all contexts, fleets, results and reports, every limit *)
(* and every interleaving of the goroutines: its semaphore, and what the   *)
(* verdict and the exit code say of the slots the goroutines filled.       *)
(*                                                                         *)
(* First the semaphore (CommandInv); then the slots (RunInv), what is made *)
(* of them, and from these the exit code, the order of the causes, and the *)
(* groups and counts of the verdict.                                       *)
(***************************************************************************)
EXTENDS Command, SequenceFacts

Busy(d) == {i \in DOMAIN d : d[i] = "running"}

\* One slot per target in each of the arrays of a context; a diagnosis that was
\* started is that of a target that did not settle.
SlotsMatch ==
    \A c \in Slots :
        /\ IsFiniteSet(DOMAIN diagnosis[c])
        /\ stage[c] = "diagnosing" => DOMAIN results[c] = DOMAIN diagnosis[c]
        /\ \A i \in DOMAIN diagnosis[c] : diagnosis[c][i] = "running" => i \in Unsettled(c)

\* A place is taken by each diagnosis that runs; they run while their context
\* is at it.
PlacesCounted ==
    \A c \in Slots :
        /\ permits[c] \in 0 .. DiagnosisLimit
        /\ permits[c] = Cardinality(Busy(diagnosis[c]))
        /\ stage[c] # "diagnosing" => Busy(diagnosis[c]) = {}

\* The inductive invariant.
CommandInv ==
    /\ mode \in {"cluster", "contexts"}
    /\ DOMAIN stage = Slots /\ DOMAIN results = Slots
    /\ DOMAIN permits = Slots /\ DOMAIN diagnosis = Slots
    /\ SlotsMatch /\ PlacesCounted

----------------------------------------------------------------------------
\* A context that is asked for has a slot.
LEMMA AskedHasSlot ==
    ASSUME CommandInv, NEW k \in DOMAIN Asked
    PROVE  Asked[k] \in Slots
<1>1. CASE mode = "contexts"
  BY <1>1 DEF Asked, Slots, Range
<1>2. CASE mode # "contexts"
  BY <1>2 DEF Asked, Slots
<1> QED
  BY <1>1, <1>2

\* The workloads of a slot are those of a context that was asked for.
LEMMA ContextKnown ==
    ASSUME NEW c \in Slots
    PROVE  (IF c = NoContext THEN Contexts[1] ELSE c) \in Range(Contexts)
<1>1. Len(Contexts) \in Nat /\ Len(Contexts) # 0 /\ DOMAIN Contexts = 1 .. Len(Contexts)
  BY CommandAssumption
<1>2. Contexts[1] \in Range(Contexts)
  BY <1>1 DEF Range
<1> QED
  BY <1>2 DEF Slots

\* A fleet is a finite sequence.
LEMMA FleetIsFinite ==
    ASSUME NEW c \in Slots
    PROVE  IsFiniteSet(1 .. Len(WorkloadsOf(c)))
<1>1. (IF c = NoContext THEN Contexts[1] ELSE c) \in Range(Contexts)
  BY ContextKnown
<1>2. WorkloadsOf(c) \in Seq([ns : STRING, name : STRING \X STRING])
  BY <1>1, CommandAssumption DEF WorkloadsOf
<1>3. Len(WorkloadsOf(c)) \in Nat
  BY <1>2
<1> QED
  BY <1>3, FS_Interval

\* A diagnosis that starts is one more, ...
LEMMA OneMoreBusy ==
    ASSUME NEW d, IsFiniteSet(DOMAIN d), NEW i \in DOMAIN d, d[i] # "running"
    PROVE  Cardinality(Busy([d EXCEPT ![i] = "running"])) = Cardinality(Busy(d)) + 1
<1>1. Busy([d EXCEPT ![i] = "running"]) = Busy(d) \union {i} /\ i \notin Busy(d)
  BY DEF Busy
<1>2. IsFiniteSet(Busy(d))
  BY FS_Subset DEF Busy
<1> QED
  BY <1>1, <1>2, FS_AddElement

\* ... one that ends one less.
LEMMA OneLessBusy ==
    ASSUME NEW d, IsFiniteSet(DOMAIN d), NEW i \in DOMAIN d, d[i] = "running"
    PROVE  Cardinality(Busy([d EXCEPT ![i] = "over"])) = Cardinality(Busy(d)) - 1
<1>1. Busy([d EXCEPT ![i] = "over"]) = Busy(d) \ {i} /\ i \in Busy(d)
  BY DEF Busy
<1>2. IsFiniteSet(Busy(d))
  BY FS_Subset DEF Busy
<1> QED
  BY <1>1, <1>2, FS_RemoveElement

\* At the start nothing runs.
LEMMA InitCommandInv == Init => CommandInv
<1> SUFFICES ASSUME Init PROVE CommandInv
  OBVIOUS
<1>1. \A c \in Slots : DOMAIN diagnosis[c] = {} /\ Busy(diagnosis[c]) = {}
  BY DEF Init, Busy
<1>2. SlotsMatch
  BY <1>1, FS_EmptySet DEF Init, SlotsMatch
<1>3. PlacesCounted
  <2>1. \A c \in Slots : permits[c] = 0 /\ stage[c] = "watching"
    BY DEF Init
  <2>2. 0 \in 0 .. DiagnosisLimit
    BY LimitAssumption
  <2> QED
    BY <1>1, <2>1, <2>2, FS_EmptySet, Zenon DEF PlacesCounted
<1> QED
  BY <1>2, <1>3 DEF Init, CommandInv
----------------------------------------------------------------------------
\* A diagnosis starts when a place is free.
LEMMA StartKeepsInv ==
    ASSUME CommandInv, NEW c \in Slots, NEW i \in Unsettled(c), DiagnosisStarts(c, i)
    PROVE  CommandInv'
<1>1. /\ stage[c] = "diagnosing" /\ diagnosis[c][i] = "queued"
      /\ permits[c] < DiagnosisLimit
      /\ permits' = [permits EXCEPT ![c] = @ + 1]
      /\ diagnosis' = [diagnosis EXCEPT ![c][i] = "running"]
      /\ stage' = stage /\ results' = results /\ mode' = mode
  BY DEF DiagnosisStarts, Queued
<1>2. /\ IsFiniteSet(DOMAIN diagnosis[c])
      /\ i \in DOMAIN diagnosis[c]
      /\ DOMAIN permits = Slots /\ DOMAIN diagnosis = Slots
  BY <1>1 DEF CommandInv, SlotsMatch, Unsettled
<1>3. /\ diagnosis'[c] = [diagnosis[c] EXCEPT ![i] = "running"]
      /\ permits'[c] = permits[c] + 1
      /\ \A d \in Slots \ {c} : diagnosis'[d] = diagnosis[d] /\ permits'[d] = permits[d]
  BY <1>1, <1>2
<1>4. SlotsMatch'
  BY <1>1, <1>2, <1>3 DEF CommandInv, SlotsMatch, Unsettled
<1>5. PlacesCounted'
  <2>1. Cardinality(Busy(diagnosis'[c])) = Cardinality(Busy(diagnosis[c])) + 1
    BY <1>1, <1>2, <1>3, OneMoreBusy
  <2>2. /\ permits[c] \in 0 .. DiagnosisLimit
        /\ permits[c] = Cardinality(Busy(diagnosis[c]))
    BY DEF CommandInv, PlacesCounted
  <2>3. permits'[c] \in 0 .. DiagnosisLimit /\ permits'[c] = Cardinality(Busy(diagnosis'[c]))
    BY <1>1, <1>3, <2>1, <2>2, LimitAssumption
  <2> QED
    BY <1>1, <1>3, <2>3 DEF CommandInv, PlacesCounted
<1> QED
  BY <1>1, <1>4, <1>5 DEF CommandInv

\* One that ends gives its place back.
LEMMA EndKeepsInv ==
    ASSUME CommandInv, NEW c \in Slots, NEW i \in Unsettled(c), DiagnosisEnds(c, i)
    PROVE  CommandInv'
<1>1. /\ stage[c] = "diagnosing" /\ diagnosis[c][i] = "running"
      /\ permits' = [permits EXCEPT ![c] = @ - 1]
      /\ diagnosis' = [diagnosis EXCEPT ![c][i] = "over"]
      /\ stage' = stage /\ results' = results /\ mode' = mode
  BY DEF DiagnosisEnds
<1>2. /\ IsFiniteSet(DOMAIN diagnosis[c])
      /\ i \in DOMAIN diagnosis[c]
      /\ DOMAIN permits = Slots /\ DOMAIN diagnosis = Slots
  BY <1>1 DEF CommandInv, SlotsMatch, Unsettled
<1>3. /\ diagnosis'[c] = [diagnosis[c] EXCEPT ![i] = "over"]
      /\ permits'[c] = permits[c] - 1
      /\ \A d \in Slots \ {c} : diagnosis'[d] = diagnosis[d] /\ permits'[d] = permits[d]
  BY <1>1, <1>2
<1>4. SlotsMatch'
  BY <1>1, <1>2, <1>3 DEF CommandInv, SlotsMatch, Unsettled
<1>5. PlacesCounted'
  <2>1. Cardinality(Busy(diagnosis'[c])) = Cardinality(Busy(diagnosis[c])) - 1
    BY <1>1, <1>2, <1>3, OneLessBusy
  <2>2. Cardinality(Busy(diagnosis'[c])) \in Nat
    <3>1. Busy(diagnosis'[c]) \in SUBSET DOMAIN diagnosis'[c]
      BY DEF Busy
    <3>2. IsFiniteSet(DOMAIN diagnosis'[c])
      BY <1>2, <1>3
    <3> QED
      BY <3>1, <3>2, FS_Subset, FS_CardinalityType
  <2>3. /\ permits[c] \in 0 .. DiagnosisLimit
        /\ permits[c] = Cardinality(Busy(diagnosis[c]))
    BY DEF CommandInv, PlacesCounted
  <2>4. permits'[c] \in 0 .. DiagnosisLimit /\ permits'[c] = Cardinality(Busy(diagnosis'[c]))
    BY <1>1, <1>3, <2>1, <2>2, <2>3, LimitAssumption
  <2> QED
    BY <1>1, <1>3, <2>4 DEF CommandInv, PlacesCounted
<1> QED
  BY <1>1, <1>4, <1>5 DEF CommandInv

\* A watch that ends queues its diagnoses.
LEMMA WatchEndKeepsInv ==
    ASSUME CommandInv, NEW c \in Slots, WatchEnds(c)
    PROVE  CommandInv'
<1> DEFINE n == Len(WorkloadsOf(c))
<1>1. /\ stage[c] = "watching"
      /\ diagnosis' = [diagnosis EXCEPT ![c] = [i \in 1 .. n |-> "queued"]]
      /\ stage' = [stage EXCEPT ![c] = "diagnosing"]
      /\ permits' = permits /\ mode' = mode
  BY DEF WatchEnds
<1>2. PICK found \in [1 .. n -> Results] : results' = [results EXCEPT ![c] = found]
  BY DEF WatchEnds
<1>3. /\ DOMAIN stage = Slots /\ DOMAIN results = Slots /\ DOMAIN diagnosis = Slots
  BY DEF CommandInv
<1>4. /\ diagnosis'[c] = [i \in 1 .. n |-> "queued"]
      /\ results'[c] = found /\ DOMAIN results'[c] = 1 .. n
      /\ \A d \in Slots \ {c} : /\ diagnosis'[d] = diagnosis[d]
                                /\ results'[d] = results[d] /\ stage'[d] = stage[d]
  BY <1>1, <1>2, <1>3
<1>5. Busy(diagnosis'[c]) = {}
  BY <1>4 DEF Busy
<1>6. SlotsMatch'
  BY <1>1, <1>4, FleetIsFinite DEF CommandInv, SlotsMatch, Unsettled
<1>7. PlacesCounted'
  <2>1. Busy(diagnosis[c]) = {} /\ permits[c] = Cardinality(Busy(diagnosis[c]))
    BY <1>1 DEF CommandInv, PlacesCounted
  <2> QED
    BY <1>1, <1>4, <1>5, <2>1 DEF CommandInv, PlacesCounted
<1> QED
  BY <1>1, <1>2, <1>3, <1>6, <1>7 DEF CommandInv

\* A slot is filled when every diagnosis is over, and a watch that fails has
\* none.
LEMMA DoneKeepsInv ==
    ASSUME CommandInv, NEW c \in Slots, WatchFails(c) \/ Fill(c)
    PROVE  CommandInv'
<1>1. /\ stage' = [stage EXCEPT ![c] = "done"]
      /\ results' = results /\ permits' = permits /\ diagnosis' = diagnosis /\ mode' = mode
  BY DEF WatchFails, Fill
<1>2. \A d \in Slots : stage'[d] = IF d = c THEN "done" ELSE stage[d]
  BY <1>1 DEF CommandInv
<1>3. Busy(diagnosis[c]) = {}
  <2>1. CASE WatchFails(c)
    BY <2>1 DEF WatchFails, CommandInv, PlacesCounted
  <2>2. CASE Fill(c)
    <3>1. \A i \in Unsettled(c) : diagnosis[c][i] = "over"
      BY <2>2 DEF Fill, Diagnosed
    <3> QED
      BY <3>1 DEF Busy, CommandInv, SlotsMatch
  <2> QED
    BY <2>1, <2>2
<1>4. SlotsMatch'
  BY <1>1, <1>2 DEF CommandInv, SlotsMatch, Unsettled
<1>5. PlacesCounted'
  BY <1>1, <1>2, <1>3 DEF CommandInv, PlacesCounted
<1> QED
  BY <1>1, <1>4, <1>5 DEF CommandInv

\* Every step keeps the invariant.
LEMMA NextKeepsInv ==
    ASSUME CommandInv, [Next]_vars
    PROVE  CommandInv'
<1>1. CASE \E k \in DOMAIN Asked :
              \/ WatchFails(Asked[k])
              \/ WatchEnds(Asked[k])
              \/ \E i \in Unsettled(Asked[k]) :
                      DiagnosisStarts(Asked[k], i) \/ DiagnosisEnds(Asked[k], i)
              \/ Fill(Asked[k])
  BY <1>1, AskedHasSlot, StartKeepsInv, EndKeepsInv, WatchEndKeepsInv, DoneKeepsInv
<1>2. CASE EmitError \/ Die \/ Emit \/ UNCHANGED vars
  <2>1. /\ mode' = mode /\ stage' = stage /\ results' = results
        /\ permits' = permits /\ diagnosis' = diagnosis
    BY <1>2 DEF EmitError, Die, Emit, vars
  <2> QED
    BY <2>1 DEF CommandInv, SlotsMatch, PlacesCounted, Unsettled
<1> QED
  BY <1>1, <1>2 DEF Next

\* The semaphore counts the diagnoses that run, never more than its limit, and
\* none outlives its context (diagnoseFleet), whatever fails and in whatever
\* order goroutines run.
THEOREM DiagnosesBoundedCorrect == Spec => []DiagnosesBounded
<1>1. CommandInv => DiagnosesBounded
  <2> SUFFICES ASSUME CommandInv, NEW c \in Slots
               PROVE  /\ permits[c] = Cardinality(Busy(diagnosis[c]))
                      /\ permits[c] <= DiagnosisLimit
                      /\ stage[c] = "done" => permits[c] = 0
    BY DEF DiagnosesBounded, Busy
  <2>1. /\ permits[c] \in 0 .. DiagnosisLimit
        /\ permits[c] = Cardinality(Busy(diagnosis[c]))
        /\ stage[c] # "diagnosing" => Busy(diagnosis[c]) = {}
    BY DEF CommandInv, PlacesCounted
  <2>2. permits[c] <= DiagnosisLimit
    BY <2>1, LimitAssumption
  <2>3. stage[c] = "done" => permits[c] = 0
    <3>1. stage[c] = "done" => Busy(diagnosis[c]) = {}
      BY <2>1
    <3>2. Cardinality({}) = 0
      BY FS_EmptySet
    <3> QED
      BY <2>1, <3>1, <3>2, Zenon
  <2> QED
    BY <2>1, <2>2, <2>3
<1> QED
  BY <1>1, InitCommandInv, NextKeepsInv, PTL DEF Spec

----------------------------------------------------------------------------
(* What the slots hold *)

Fleet(c) == 1 .. Len(WorkloadsOf(c))

ReportOf(c, i, report) == report = NoReport \/ \E r \in Reports : report = Reported(c, i, r)

\* The watch gave a result for each target, and each report is in its slot.
Judged(c) ==
    /\ Fleet(c) # {} /\ results[c] \in [Fleet(c) -> Results]
    /\ DOMAIN reports[c] = Fleet(c)
    /\ \A i \in Fleet(c) : ReportOf(c, i, reports[c][i])

\* What the goroutine of a context has written, by where it is.
ContextInv(c) ==
    /\ stage[c] \in {"watching", "diagnosing", "done"}
    /\ \A i \in DOMAIN diagnosis[c] : diagnosis[c][i] \in {"queued", "running", "over"}
    /\ stage[c] = "watching" => results[c] = <<>> /\ reports[c] = <<>> /\ outs[c] = EmptyOut
    /\ stage[c] = "diagnosing" => Judged(c) /\ outs[c] = EmptyOut
    /\ stage[c] = "done" =>
         \/ /\ results[c] = <<>> /\ reports[c] = <<>>
            /\ \E e \in WatchErrors : outs[c] = ContextErrorEntry(e)
         \/ Judged(c) /\ outs[c] = Filled(c)

\* How the verdict came about.
Emitted ==
    \/ /\ mode = "cluster" /\ outs[NoContext].error \in {"no_match", "permission"}
       /\ verdict = ErrorVerdict(outs[NoContext].status)
       /\ exit = ExitCode(outs[NoContext].status, "none")
    \/ /\ mode = "cluster" /\ outs[NoContext].error = "other"
       /\ verdict = ErrorVerdict(Unjudged) /\ exit = 1
    \/ /\ mode = "cluster" => outs[NoContext].error = "none"
       /\ verdict = BuildFleet(Merged) /\ exit = ExitCode(verdict.status, "none")

\* There is no verdict before all slots are filled, and none but of them.
EndInv ==
    /\ exit = Running => verdict = ErrorVerdict(Unjudged)
    /\ exit # Running => Emitted /\ \A k \in DOMAIN Asked : stage[Asked[k]] = "done"

\* The inductive invariant.
RunInv ==
    /\ CommandInv
    /\ stage \in [Slots -> {"watching", "diagnosing", "done"}]
    /\ DOMAIN reports = Slots /\ DOMAIN outs = Slots
    /\ \A c \in Slots : ContextInv(c)
    /\ EndInv

----------------------------------------------------------------------------
(* The invariant is inductive *)

\* A fleet that is not empty has targets.
LEMMA FleetHasTargets ==
    ASSUME NEW c \in Slots
    PROVE  /\ WorkloadsOf(c) \in Seq([ns : STRING, name : STRING \X STRING])
           /\ WorkloadsOf(c) # <<>> => Fleet(c) # {}
<1>1. (IF c = NoContext THEN Contexts[1] ELSE c) \in Range(Contexts)
  BY ContextKnown
<1>2. WorkloadsOf(c) \in Seq([ns : STRING, name : STRING \X STRING])
  BY <1>1, CommandAssumption DEF WorkloadsOf
<1>3. WorkloadsOf(c) # <<>> => Len(WorkloadsOf(c)) \in Nat /\ Len(WorkloadsOf(c)) # 0
  BY <1>2
<1> QED
  BY <1>2, <1>3 DEF Fleet

\* An exit code is one of five.
LEMMA ExitCodeRange ==
    ASSUME NEW s
    PROVE  ExitCode(s, "none") = BaseExitCode(s) /\ BaseExitCode(s) \in 0 .. 4
BY DEF ExitCode, BaseExitCode

\* What fills a slot, of the variables it reads.
FilledFrom(c, found, held) ==
    LET settled == Picked([i \in DOMAIN found |-> i],
                          {i \in DOMAIN found : found[i].outcome = "settled" /\ found[i].restarted})
    IN  [status |-> Unjudged, error |-> "none",
         targets |-> [i \in DOMAIN found |->
            [context |-> c, ns |-> WorkloadsOf(c)[i].ns, name |-> WorkloadsOf(c)[i].name,
             status |-> found[i].outcome]],
         findings |-> FlattenSeq([i \in DOMAIN found |-> held[i].findings]),
         degraded |-> Distinct(FlattenSeq([i \in DOMAIN found |-> held[i].degraded])),
         advisories |-> [k \in DOMAIN settled |-> Located(c, settled[k])],
         earlyExit |-> \E i \in DOMAIN found : found[i].wedgedOut]

\* Filling a slot reads its results and its reports and nothing else, now and after
\* a step.
LEMMA FilledReads ==
    ASSUME NEW c
    PROVE  /\ Filled(c) = FilledFrom(c, results[c], reports[c])
           /\ Filled(c)' = FilledFrom(c, results'[c], reports'[c])
<1>1. Filled(c) = FilledFrom(c, results[c], reports[c])
  BY Zenon DEF Filled, FilledFrom, TargetAt
<1>2. Filled(c)' = FilledFrom(c, results'[c], reports'[c])
  BY Zenon DEF Filled, FilledFrom, TargetAt
<1> QED
  BY <1>1, <1>2

\* A context whose slots are left alone keeps its invariant.
LEMMA UntouchedKeeps ==
    ASSUME NEW c, ContextInv(c),
           stage'[c] = stage[c], results'[c] = results[c], diagnosis'[c] = diagnosis[c],
           reports'[c] = reports[c], outs'[c] = outs[c]
    PROVE  ContextInv(c)'
<1>1. Filled(c)' = Filled(c)
  BY FilledReads
<1>2. Judged(c)' <=> Judged(c)
  BY DEF Judged, Fleet
<1> QED
  BY <1>1, <1>2 DEF ContextInv

\* The verdict is not touched before the end.
LEMMA RunningKeepsEnd ==
    ASSUME RunInv, exit = Running, exit' = exit, verdict' = verdict
    PROVE  EndInv'
BY DEF RunInv, EndInv

\* After the end no context does anything.
LEMMA NothingAfterTheEnd ==
    ASSUME RunInv, NEW k \in DOMAIN Asked, stage[Asked[k]] # "done"
    PROVE  exit = Running
BY DEF RunInv, EndInv

\* A watch that fails leaves an error in its slot.
LEMMA WatchFailsKeepsRunInv ==
    ASSUME RunInv, NEW k \in DOMAIN Asked, WatchFails(Asked[k])
    PROVE  RunInv'
<1> DEFINE c == Asked[k]
<1>0. CommandInv /\ c \in Slots
  BY AskedHasSlot DEF RunInv
<1>1. /\ stage[c] = "watching" /\ stage' = [stage EXCEPT ![c] = "done"]
      /\ results' = results /\ diagnosis' = diagnosis /\ reports' = reports
      /\ verdict' = verdict /\ exit' = exit
  BY DEF WatchFails
<1>2. PICK e \in WatchErrors : outs' = [outs EXCEPT ![c] = ContextErrorEntry(e)]
  BY DEF WatchFails
<1>3. DOMAIN stage = Slots /\ DOMAIN outs = Slots
  BY DEF RunInv, CommandInv
<1>4. CommandInv'
  BY <1>0, DoneKeepsInv
<1>5. \A d \in Slots : ContextInv(d)'
  <2> SUFFICES ASSUME NEW d \in Slots PROVE ContextInv(d)'
    OBVIOUS
  <2>1. CASE d # c
    BY <2>1, <1>1, <1>2, <1>3, UntouchedKeeps DEF RunInv
  <2>2. CASE d = c
    <3>1. stage'[d] = "done" /\ outs'[d] = ContextErrorEntry(e)
      BY <2>2, <1>0, <1>1, <1>2, <1>3
    <3>2. ContextInv(d) /\ stage[d] = "watching"
      BY <2>2, <1>1 DEF RunInv
    <3> QED
      BY <3>1, <3>2, <1>1 DEF ContextInv
  <2> QED
    BY <2>1, <2>2
<1>6. EndInv'
  BY <1>1, NothingAfterTheEnd, RunningKeepsEnd
<1> QED
  BY <1>1, <1>2, <1>4, <1>5, <1>6 DEF RunInv

\* A watch that ends opens an empty slot for each target.
LEMMA WatchEndsKeepsRunInv ==
    ASSUME RunInv, NEW k \in DOMAIN Asked, WatchEnds(Asked[k])
    PROVE  RunInv'
<1> DEFINE c == Asked[k]
<1>0. CommandInv /\ c \in Slots
  BY AskedHasSlot DEF RunInv
<1>1. /\ stage[c] = "watching" /\ stage' = [stage EXCEPT ![c] = "diagnosing"]
      /\ WorkloadsOf(c) # <<>>
      /\ diagnosis' = [diagnosis EXCEPT ![c] = [i \in Fleet(c) |-> "queued"]]
      /\ reports' = [reports EXCEPT ![c] = [i \in Fleet(c) |-> NoReport]]
      /\ outs' = outs /\ verdict' = verdict /\ exit' = exit
  BY DEF WatchEnds, Fleet
<1>2. PICK found \in [Fleet(c) -> Results] : results' = [results EXCEPT ![c] = found]
  BY DEF WatchEnds, Fleet
<1>3. /\ DOMAIN stage = Slots /\ DOMAIN outs = Slots /\ DOMAIN results = Slots
      /\ DOMAIN reports = Slots /\ DOMAIN diagnosis = Slots
  BY DEF RunInv, CommandInv
<1>4. CommandInv'
  BY <1>0, WatchEndKeepsInv
<1>5. \A d \in Slots : ContextInv(d)'
  <2> SUFFICES ASSUME NEW d \in Slots PROVE ContextInv(d)'
    OBVIOUS
  <2>1. CASE d # c
    BY <2>1, <1>1, <1>2, <1>3, UntouchedKeeps DEF RunInv
  <2>2. CASE d = c
    <3>1. /\ stage'[d] = "diagnosing" /\ outs'[d] = outs[d] /\ results'[d] = found
          /\ reports'[d] = [i \in Fleet(d) |-> NoReport]
          /\ diagnosis'[d] = [i \in Fleet(d) |-> "queued"]
      BY <2>2, <1>0, <1>1, <1>2, <1>3
    <3>2. outs[d] = EmptyOut
      BY <2>2, <1>1 DEF RunInv, ContextInv
    <3>3. Fleet(d) # {}
      BY <2>2, <1>0, <1>1, FleetHasTargets
    <3>4. Judged(d)'
      BY <2>2, <3>1, <3>3 DEF Judged, ReportOf, Fleet
    <3> QED
      BY <3>1, <3>2, <3>4 DEF ContextInv
  <2> QED
    BY <2>1, <2>2
<1>6. EndInv'
  BY <1>1, NothingAfterTheEnd, RunningKeepsEnd
<1> QED
  BY <1>1, <1>2, <1>4, <1>5, <1>6 DEF RunInv

\* A diagnosis that starts touches no slot.
LEMMA StartKeepsRunInv ==
    ASSUME RunInv, NEW k \in DOMAIN Asked, NEW i \in Unsettled(Asked[k]),
           DiagnosisStarts(Asked[k], i)
    PROVE  RunInv'
<1> DEFINE c == Asked[k]
<1>0. CommandInv /\ c \in Slots
  BY AskedHasSlot DEF RunInv
<1>1. /\ stage[c] = "diagnosing" /\ stage' = stage
      /\ results' = results /\ reports' = reports /\ outs' = outs
      /\ diagnosis' = [diagnosis EXCEPT ![c][i] = "running"]
      /\ verdict' = verdict /\ exit' = exit
  BY DEF DiagnosisStarts, Queued
<1>2. CommandInv'
  BY <1>0, StartKeepsInv
<1>3. \A d \in Slots : ContextInv(d)'
  <2> SUFFICES ASSUME NEW d \in Slots PROVE ContextInv(d)'
    OBVIOUS
  <2>0. DOMAIN diagnosis = Slots /\ ContextInv(d)
    BY DEF RunInv, CommandInv
  <2>1. CASE d # c
    BY <2>0, <2>1, <1>1, UntouchedKeeps
  <2>2. CASE d = c
    <3>1. diagnosis'[d] = [diagnosis[d] EXCEPT ![i] = "running"]
      BY <2>0, <2>2, <1>0, <1>1
    <3>2. \A j \in DOMAIN diagnosis'[d] : diagnosis'[d][j] \in {"queued", "running", "over"}
      BY <3>1, <2>0 DEF ContextInv
    <3>3. Judged(d) /\ outs[d] = EmptyOut
      BY <2>0, <2>2, <1>1 DEF ContextInv
    <3>4. Judged(d)'
      BY <3>3, <1>1 DEF Judged, Fleet
    <3> QED
      BY <3>2, <3>3, <3>4, <2>2, <1>1 DEF ContextInv
  <2> QED
    BY <2>1, <2>2
<1>4. EndInv'
  BY <1>1, NothingAfterTheEnd, RunningKeepsEnd
<1> QED
  BY <1>1, <1>2, <1>3, <1>4 DEF RunInv

\* A diagnosis that ends fills its own slot, of the target it was started for.
LEMMA EndKeepsRunInv ==
    ASSUME RunInv, NEW k \in DOMAIN Asked, NEW i \in Unsettled(Asked[k]),
           DiagnosisEnds(Asked[k], i)
    PROVE  RunInv'
<1> DEFINE c == Asked[k]
<1>0. CommandInv /\ c \in Slots
  BY AskedHasSlot DEF RunInv
<1>1. /\ stage[c] = "diagnosing" /\ stage' = stage
      /\ results' = results /\ outs' = outs
      /\ diagnosis' = [diagnosis EXCEPT ![c][i] = "over"]
      /\ verdict' = verdict /\ exit' = exit
  BY DEF DiagnosisEnds
<1>2. PICK r \in Reports : reports' = [reports EXCEPT ![c][i] = Reported(c, i, r)]
  BY DEF DiagnosisEnds
<1>3. CommandInv'
  BY <1>0, EndKeepsInv
<1>4. \A d \in Slots : ContextInv(d)'
  <2> SUFFICES ASSUME NEW d \in Slots PROVE ContextInv(d)'
    OBVIOUS
  <2>0. DOMAIN diagnosis = Slots /\ DOMAIN reports = Slots /\ ContextInv(d)
    BY DEF RunInv, CommandInv
  <2>1. CASE d # c
    BY <2>0, <2>1, <1>1, <1>2, UntouchedKeeps
  <2>2. CASE d = c
    <3>1. /\ diagnosis'[d] = [diagnosis[d] EXCEPT ![i] = "over"]
          /\ reports'[d] = [reports[d] EXCEPT ![i] = Reported(d, i, r)]
      BY <2>0, <2>2, <1>0, <1>1, <1>2
    <3>2. \A j \in DOMAIN diagnosis'[d] : diagnosis'[d][j] \in {"queued", "running", "over"}
      BY <3>1, <2>0 DEF ContextInv
    <3>3. Judged(d) /\ outs[d] = EmptyOut
      BY <2>0, <2>2, <1>1 DEF ContextInv
    <3>4. /\ DOMAIN reports'[d] = Fleet(d)
          /\ \A j \in Fleet(d) : ReportOf(d, j, reports'[d][j])
      <4>1. DOMAIN reports[d] = Fleet(d) /\ \A j \in Fleet(d) : ReportOf(d, j, reports[d][j])
        BY <3>3 DEF Judged
      <4>2. ReportOf(d, i, Reported(d, i, r))
        BY DEF ReportOf
      <4> QED
        BY <3>1, <4>1, <4>2
    <3>5. Judged(d)'
      BY <3>3, <3>4, <1>1 DEF Judged, Fleet, ReportOf
    <3> QED
      BY <3>2, <3>3, <3>5, <2>2, <1>1 DEF ContextInv
  <2> QED
    BY <2>1, <2>2
<1>5. EndInv'
  BY <1>1, NothingAfterTheEnd, RunningKeepsEnd
<1> QED
  BY <1>1, <1>2, <1>3, <1>4, <1>5 DEF RunInv

\* The slot of a context is filled from the slots of its targets.
LEMMA FillKeepsRunInv ==
    ASSUME RunInv, NEW k \in DOMAIN Asked, Fill(Asked[k])
    PROVE  RunInv'
<1> DEFINE c == Asked[k]
<1>0. CommandInv /\ c \in Slots
  BY AskedHasSlot DEF RunInv
<1>1. /\ stage[c] = "diagnosing" /\ stage' = [stage EXCEPT ![c] = "done"]
      /\ outs' = [outs EXCEPT ![c] = Filled(c)]
      /\ results' = results /\ diagnosis' = diagnosis /\ reports' = reports
      /\ verdict' = verdict /\ exit' = exit
  BY DEF Fill
<1>2. DOMAIN stage = Slots /\ DOMAIN outs = Slots
  BY DEF RunInv, CommandInv
<1>3. CommandInv'
  BY <1>0, DoneKeepsInv
<1>4. \A d \in Slots : ContextInv(d)'
  <2> SUFFICES ASSUME NEW d \in Slots PROVE ContextInv(d)'
    OBVIOUS
  <2>1. CASE d # c
    BY <2>1, <1>1, <1>2, UntouchedKeeps DEF RunInv
  <2>2. CASE d = c
    <3>1. stage'[d] = "done" /\ outs'[d] = Filled(d)
      BY <2>2, <1>0, <1>1, <1>2
    <3>2. ContextInv(d) /\ stage[d] = "diagnosing"
      BY <2>2, <1>1 DEF RunInv
    <3>3. Judged(d)'
      <4>1. Judged(d)
        BY <3>2 DEF ContextInv
      <4> QED
        BY <4>1, <1>1 DEF Judged, Fleet
    <3>4. outs'[d] = Filled(d)'
      BY <3>1, <1>1, FilledReads
    <3> QED
      BY <3>1, <3>2, <3>3, <3>4, <1>1 DEF ContextInv
  <2> QED
    BY <2>1, <2>2
<1>5. EndInv'
  BY <1>1, NothingAfterTheEnd, RunningKeepsEnd
<1> QED
  BY <1>1, <1>3, <1>4, <1>5 DEF RunInv

\* What is merged, of the variables it reads.
MergedFrom(m, held) ==
    LET asked == IF m = "contexts" THEN Contexts ELSE <<NoContext>>
        All(kept) == FlattenSeq([k \in DOMAIN asked |-> kept[asked[k]]])
    IN  [contexts |-> IF m = "cluster" THEN <<>>
                  ELSE [k \in DOMAIN asked |->
                           [context |-> asked[k], status |-> held[asked[k]].status]],
         targets |-> All([c \in Slots |-> held[c].targets]),
         failures |-> Collapse(All([c \in Slots |-> held[c].findings])),
         degraded |-> Distinct(All([c \in Slots |-> Prefixed(c, held[c].degraded)])),
         advisories |-> All([c \in Slots |-> held[c].advisories]),
         earlyExit |-> \E k \in DOMAIN asked : held[asked[k]].earlyExit]

\* Merging reads the mode and the slots and nothing else, now and after a step.
LEMMA MergedReads == Merged = MergedFrom(mode, outs) /\ Merged' = MergedFrom(mode', outs')
<1>1. Merged = MergedFrom(mode, outs)
  BY Zenon DEF Merged, MergedFrom, Across, Asked
<1>2. Merged' = MergedFrom(mode', outs')
  BY Zenon DEF Merged, MergedFrom, Across, Asked
<1> QED
  BY <1>1, <1>2

\* At the end the slots stay as they are, and the verdict is of them.
LEMMA EndsKeepRunInv ==
    ASSUME RunInv, EmitError \/ Die \/ Emit
    PROVE  RunInv'
<1>1. /\ Waited /\ mode' = mode /\ stage' = stage /\ results' = results
      /\ diagnosis' = diagnosis /\ reports' = reports /\ outs' = outs
  BY DEF EmitError, Die, Emit
<1>2. CommandInv'
  BY NextKeepsInv DEF RunInv, Next
<1>3. \A d \in Slots : ContextInv(d)'
  BY <1>1, UntouchedKeeps DEF RunInv
<1>4. Merged' = Merged
  BY <1>1, MergedReads
<1>5. Emitted'
  <2>1. CASE EmitError
    BY <2>1 DEF EmitError, Emitted
  <2>2. CASE Die
    <3>1. verdict = ErrorVerdict(Unjudged)
      BY <1>1 DEF RunInv, EndInv, Waited
    <3> QED
      BY <2>2, <3>1 DEF Die, Emitted
  <2>3. CASE Emit
    BY <2>3, <1>4 DEF Emit, Emitted
  <2> QED
    BY <2>1, <2>2, <2>3
<1>6. exit' # Running
  BY ExitCodeRange DEF EmitError, Die, Emit, Running
<1>7. EndInv'
  BY <1>1, <1>5, <1>6 DEF EndInv, Waited, Asked, Running
<1> QED
  BY <1>1, <1>2, <1>3, <1>7 DEF RunInv

\* Every step keeps the invariant.
LEMMA NextKeepsRunInv ==
    ASSUME RunInv, [Next]_vars
    PROVE  RunInv'
<1>1. CASE \E k \in DOMAIN Asked :
              \/ WatchFails(Asked[k])
              \/ WatchEnds(Asked[k])
              \/ \E i \in Unsettled(Asked[k]) :
                      DiagnosisStarts(Asked[k], i) \/ DiagnosisEnds(Asked[k], i)
              \/ Fill(Asked[k])
  BY <1>1, WatchFailsKeepsRunInv, WatchEndsKeepsRunInv, StartKeepsRunInv, EndKeepsRunInv,
     FillKeepsRunInv
<1>2. CASE EmitError \/ Die \/ Emit
  BY <1>2, EndsKeepRunInv
<1>3. CASE UNCHANGED vars
  <2>1. /\ mode' = mode /\ stage' = stage /\ results' = results /\ permits' = permits
        /\ diagnosis' = diagnosis /\ reports' = reports /\ outs' = outs
        /\ verdict' = verdict /\ exit' = exit
    BY <1>3 DEF vars
  <2>2. CommandInv'
    BY NextKeepsInv DEF RunInv
  <2>3. \A d \in Slots : ContextInv(d)'
    BY <2>1, UntouchedKeeps DEF RunInv
  <2>4. Emitted' <=> Emitted
    <3>1. Merged' = Merged
      BY <2>1, MergedReads
    <3> QED
      BY <2>1, <3>1 DEF Emitted
  <2>5. EndInv'
    BY <2>1, <2>4 DEF RunInv, EndInv, Asked
  <2> QED
    BY <2>1, <2>2, <2>3, <2>5 DEF RunInv
<1> QED
  BY <1>1, <1>2, <1>3 DEF Next

\* At the start every slot is empty.
LEMMA InitRunInv == Init => RunInv
<1> SUFFICES ASSUME Init PROVE RunInv
  OBVIOUS
<1>1. CommandInv
  BY InitCommandInv
<1>2. \A c \in Slots : ContextInv(c)
  BY DEF Init, ContextInv
<1>3. EndInv
  BY DEF Init, EndInv
<1> QED
  BY <1>1, <1>2, <1>3 DEF Init, RunInv

\* The invariant of the run holds in every state.
LEMMA RunInvariant == Spec => []RunInv
BY InitRunInv, NextKeepsRunInv, PTL DEF Spec

----------------------------------------------------------------------------
\* The status of a slot is that of an error, or yet to be judged.
LEMMA SlotStatus ==
    ASSUME NEW c, ContextInv(c)
    PROVE  outs[c].status \in Statuses \union {Unjudged}
<1>1. \A e : ContextErrorEntry(e).status \in {"no_match", "permission_denied", "failed"}
  BY DEF ContextErrorEntry, EmptyOut
<1>2. {"no_match", "permission_denied", "failed"} \subseteq Statuses
  <2>1. Statuses = {ByRank[i] : i \in 1 .. 5}
    BY DEF Statuses, Range, ByRank
  <2>2. ByRank[3] = "no_match" /\ ByRank[4] = "permission_denied" /\ ByRank[5] = "failed"
    BY DEF ByRank
  <2> QED
    BY <2>1, <2>2
<1>3. EmptyOut.status = Unjudged /\ Filled(c).status = Unjudged
  BY DEF EmptyOut, Filled
<1> QED
  BY <1>1, <1>2, <1>3 DEF ContextInv

\* Every variable keeps its type: each slot holds what belongs in it, the
\* semaphore at most its limit, the exit code is one of five.
THEOREM CommandTypeCorrect == Spec => []TypeOK
<1>1. RunInv => TypeOK
  <2> SUFFICES ASSUME RunInv PROVE TypeOK
    OBVIOUS
  <2>1. mode \in {"cluster", "contexts"} /\ stage \in [Slots -> {"watching", "diagnosing", "done"}]
    BY DEF RunInv, CommandInv
  <2>2. ASSUME NEW c \in Slots
        PROVE  /\ results[c] \in {<<>>} \union [Fleet(c) -> Results]
               /\ permits[c] \in 0 .. DiagnosisLimit
               /\ \A i \in DOMAIN diagnosis[c] : diagnosis[c][i] \in {"queued", "running", "over"}
               /\ \A i \in DOMAIN reports[c] :
                    \/ reports[c][i] = NoReport
                    \/ \E r \in Reports, j \in DOMAIN reports[c] : reports[c][i] = Reported(c, j, r)
               /\ outs[c].status \in Statuses \union {Unjudged}
    <3>0. ContextInv(c)
      BY DEF RunInv
    <3>1. permits[c] \in 0 .. DiagnosisLimit
      BY DEF RunInv, CommandInv, PlacesCounted
    <3>2. (results[c] = <<>> /\ reports[c] = <<>>) \/ Judged(c)
      BY <3>0 DEF ContextInv
    <3>3. results[c] \in {<<>>} \union [Fleet(c) -> Results]
      BY <3>2 DEF Judged
    <3>4. ASSUME NEW i \in DOMAIN reports[c]
          PROVE  \/ reports[c][i] = NoReport
                 \/ \E r \in Reports, j \in DOMAIN reports[c] : reports[c][i] = Reported(c, j, r)
      <4>1. Judged(c) \/ DOMAIN reports[c] = {}
        BY <3>2
      <4> QED
        BY <4>1 DEF Judged, ReportOf
    <3> QED
      BY <3>0, <3>1, <3>3, <3>4, SlotStatus DEF ContextInv
  <2>3. exit \in {Running} \union 0 .. 4
    BY ExitCodeRange DEF RunInv, EndInv, Emitted
  <2> QED
    BY <2>1, <2>2, <2>3 DEF TypeOK, Fleet
<1> QED
  BY <1>1, RunInvariant, PTL

----------------------------------------------------------------------------
(* What is merged *)

\* The contexts asked for are distinct, and at least one.
LEMMA AskedFacts ==
    /\ Asked # <<>>
    /\ DOMAIN Asked = 1 .. Len(Asked) /\ Len(Asked) \in Nat /\ 1 \in DOMAIN Asked
    /\ \A j, k \in DOMAIN Asked : Asked[j] = Asked[k] => j = k
<1>1. CASE mode = "contexts"
  <2>1. Contexts \in Seq(STRING) /\ Contexts # <<>>
    BY CommandAssumption
  <2>2. \A j, k \in DOMAIN Contexts : Contexts[j] = Contexts[k] => j = k
    BY CommandAssumption DEF IsInjective
  <2>3. Asked = Contexts
    BY <1>1 DEF Asked
  <2> QED
    BY <2>1, <2>2, <2>3
<1>2. CASE mode # "contexts"
  <2>1. Asked = <<NoContext>>
    BY <1>2 DEF Asked
  <2> QED
    BY <2>1
<1> QED
  BY <1>1, <1>2

\* In a cluster there is one context, without a name.
LEMMA AskedInCluster ==
    ASSUME mode = "cluster"
    PROVE  Asked = <<NoContext>> /\ \A k \in DOMAIN Asked : k = 1 /\ Asked[k] = NoContext
<1>1. Asked = <<NoContext>>
  BY DEF Asked
<1> QED
  BY <1>1

\* A context that is done could not be watched, or has a slot for each target.
LEMMA SlotsAtTheEnd ==
    ASSUME RunInv, exit # Running, NEW k \in DOMAIN Asked
    PROVE  LET c == Asked[k]
           IN  \/ /\ results[c] = <<>> /\ reports[c] = <<>>
                  /\ \E e \in WatchErrors : outs[c] = ContextErrorEntry(e)
               \/ Judged(c) /\ outs[c] = Filled(c)
<1>1. Asked[k] \in Slots /\ stage[Asked[k]] = "done"
  BY AskedHasSlot DEF RunInv, EndInv
<1>2. ContextInv(Asked[k])
  BY <1>1 DEF RunInv
<1> QED
  BY <1>1, <1>2 DEF ContextInv

\* What an error leaves in a slot.
LEMMA ErrorSlot ==
    ASSUME NEW e \in WatchErrors
    PROVE  /\ ContextErrorEntry(e).error = e /\ e # "none"
           /\ ContextErrorEntry(e).targets = <<>> /\ ContextErrorEntry(e).findings = <<>>
           /\ e = "no_match" => ContextErrorEntry(e).status = "no_match"
           /\ e = "permission" => ContextErrorEntry(e).status = "permission_denied"
           /\ e = "other" => ContextErrorEntry(e).status = "failed"
BY DEF ContextErrorEntry, EmptyOut, WatchErrors

\* The targets of a slot are those of its fleet, as they were found.
LEMMA SlotTargets ==
    ASSUME RunInv, exit # Running, NEW k \in DOMAIN Asked
    PROVE  LET c == Asked[k]
           IN  outs[c].targets = [i \in DOMAIN results[c] |-> TargetAt(c, i)]
<1> DEFINE c == Asked[k]
<1>1. CASE results[c] = <<>> /\ \E e \in WatchErrors : outs[c] = ContextErrorEntry(e)
  <2>1. outs[c].targets = <<>>
    BY <1>1, ErrorSlot
  <2> QED
    BY <1>1, <2>1
<1>2. CASE outs[c] = Filled(c)
  BY <1>2 DEF Filled
<1> QED
  BY <1>1, <1>2, SlotsAtTheEnd

\* The fleet of a context is numbered from one, and each outcome is one of three.
LEMMA FoundFacts ==
    ASSUME RunInv, exit # Running, NEW k \in DOMAIN Asked
    PROVE  LET c == Asked[k]
           IN  /\ \E n \in Nat : DOMAIN results[c] = 1 .. n
               /\ \A i \in DOMAIN results[c] : results[c][i].outcome \in TargetStatuses
               /\ DOMAIN results[c] # {} <=> Answered(c)
<1> DEFINE c == Asked[k]
<1>0. c \in Slots
  BY AskedHasSlot DEF RunInv
<1>1. CASE results[c] = <<>> /\ \E e \in WatchErrors : outs[c] = ContextErrorEntry(e)
  <2>1. ~ Answered(c)
    BY <1>1, ErrorSlot DEF Answered
  <2>2. DOMAIN results[c] = 1 .. 0 /\ DOMAIN results[c] = {}
    BY <1>1
  <2> QED
    BY <2>1, <2>2
<1>2. CASE Judged(c) /\ outs[c] = Filled(c)
  <2>1. Answered(c)
    BY <1>2 DEF Filled, Answered
  <2>2. results[c] \in [Fleet(c) -> Results] /\ Fleet(c) # {}
    BY <1>2 DEF Judged
  <2>3. Len(WorkloadsOf(c)) \in Nat
    BY <1>0, FleetHasTargets
  <2>4. \A r \in Results : r.outcome \in TargetStatuses
    BY ReportsAssumption
  <2> QED
    BY <2>1, <2>2, <2>3, <2>4 DEF Fleet
<1> QED
  BY <1>1, <1>2, SlotsAtTheEnd

\* Where a target is.
LEMMA PlacesFacts ==
    ASSUME NEW p
    PROVE  p \in Places <=> \E k \in DOMAIN Asked : \E i \in DOMAIN results[Asked[k]] : p = <<k, i>>
BY DEF Places

\* A verdict enumerates the targets of all slots, in order.
LEMMA TargetsUnfold ==
    ASSUME RunInv, exit # Running
    PROVE  /\ \E S : Merged.targets \in Seq(S)
           /\ \E f : /\ Pairs(f, DOMAIN Merged.targets, Places)
                     /\ \A x \in DOMAIN Merged.targets :
                          Merged.targets[x] = TargetAt(Asked[f[x][1]], f[x][2])
                     /\ \A x, y \in DOMAIN Merged.targets : x < y => Earlier(f[x], f[y])
<1> DEFINE ss == [k \in DOMAIN Asked |-> [c \in Slots |-> outs[c].targets][Asked[k]]]
           T == Merged.targets
           S == {TargetAt(Asked[p[1]], p[2]) : p \in Places}
<1>1. T = FlattenSeq(ss)
  BY DEF Merged, Across
<1>2. \A k \in DOMAIN Asked : ss[k] = [i \in DOMAIN results[Asked[k]] |-> TargetAt(Asked[k], i)]
  <2> SUFFICES ASSUME NEW k \in DOMAIN Asked
               PROVE  ss[k] = [i \in DOMAIN results[Asked[k]] |-> TargetAt(Asked[k], i)]
    OBVIOUS
  <2>1. ss[k] = outs[Asked[k]].targets
    BY AskedHasSlot DEF RunInv
  <2> QED
    BY <2>1, SlotTargets
<1>3. DOMAIN ss = DOMAIN Asked
  OBVIOUS
<1> HIDE DEF ss, T, S
<1>4. ss \in Seq(Seq(S))
  <2> SUFFICES ASSUME NEW k \in DOMAIN Asked PROVE ss[k] \in Seq(S)
    <3>1. ss = [k \in 1 .. Len(Asked) |-> ss[k]]
      BY AskedFacts DEF ss
    <3> QED
      BY <3>1, AskedFacts
  <2>1. PICK n \in Nat : DOMAIN results[Asked[k]] = 1 .. n
    BY FoundFacts
  <2>2. ASSUME NEW i \in 1 .. n PROVE TargetAt(Asked[k], i) \in S
    <3>1. <<k, i>> \in Places
      BY <2>1, PlacesFacts
    <3> QED
      BY <3>1 DEF S
  <2>3. ss[k] = [i \in 1 .. n |-> TargetAt(Asked[k], i)]
    BY <1>2, <2>1
  <2> QED
    BY <2>2, <2>3
<1>5. PlacesOf(ss) = Places
  <2>1. \A k \in DOMAIN Asked : DOMAIN ss[k] = DOMAIN results[Asked[k]]
    BY <1>2
  <2>2. \A p : p \in PlacesOf(ss) <=> p \in Places
    BY <1>3, <2>1, PlaceIs, PlacesFacts
  <2> QED
    BY <2>2 DEF PlacesOf, Places
<1>6. PICK f : T \in Seq(S) /\ Unfolds(T, ss, Places, f)
  BY <1>1, <1>4, <1>5, FlattenUnfolds
<1>7. ASSUME NEW x \in DOMAIN T PROVE T[x] = TargetAt(Asked[f[x][1]], f[x][2])
  <2>1. f[x] \in Places /\ T[x] = ss[f[x][1]][f[x][2]]
    BY <1>6 DEF Unfolds, Pairs
  <2>2. PICK k \in DOMAIN Asked : \E i \in DOMAIN results[Asked[k]] : f[x] = <<k, i>>
    BY <2>1, PlacesFacts
  <2>3. PICK i \in DOMAIN results[Asked[k]] : f[x] = <<k, i>>
    BY <2>2
  <2>4. f[x][1] = k /\ f[x][2] = i
    BY <2>3
  <2>5. ss[k][i] = TargetAt(Asked[k], i)
    BY <1>2
  <2> QED
    BY <2>1, <2>4, <2>5
<1> QED
  BY <1>6, <1>7 DEF Unfolds, T

----------------------------------------------------------------------------
(* The exit code *)

\* The outcomes of the fleet of a context.
OutcomesOf(c) == {results[c][i].outcome : i \in DOMAIN results[c]}

\* Which targets a verdict has of a context: those of its fleet.
LEMMA OwnTargets ==
    ASSUME RunInv, exit # Running, NEW k \in DOMAIN Asked
    PROVE  {t.status : t \in {t \in ToSet(Merged.targets) : t.context = Asked[k]}}
             = OutcomesOf(Asked[k])
<1> DEFINE T == Merged.targets
<1> HIDE DEF T
<1>1. PICK f : /\ Pairs(f, DOMAIN T, Places)
               /\ \A x \in DOMAIN T : T[x] = TargetAt(Asked[f[x][1]], f[x][2])
  BY TargetsUnfold DEF T
<1>2. ASSUME NEW t \in ToSet(T), t.context = Asked[k]
      PROVE  t.status \in OutcomesOf(Asked[k])
  <2>1. PICK x \in DOMAIN T : t = T[x]
    BY DEF ToSet
  <2>2. f[x] \in Places
    BY <1>1 DEF Pairs
  <2>3. PICK j \in DOMAIN Asked : \E i \in DOMAIN results[Asked[j]] : f[x] = <<j, i>>
    BY <2>2, PlacesFacts
  <2>4. PICK i \in DOMAIN results[Asked[j]] : f[x] = <<j, i>>
    BY <2>3
  <2>5. t = TargetAt(Asked[j], i)
    BY <1>1, <2>1, <2>4
  <2>6. t.context = Asked[j] /\ t.status = results[Asked[j]][i].outcome
    BY <2>5 DEF TargetAt
  <2>7. j = k
    BY <1>2, <2>6, AskedFacts
  <2> QED
    BY <2>6, <2>7 DEF OutcomesOf
<1>3. ASSUME NEW i \in DOMAIN results[Asked[k]]
      PROVE  \E t \in ToSet(T) : t.context = Asked[k] /\ t.status = results[Asked[k]][i].outcome
  <2>1. <<k, i>> \in Places
    BY PlacesFacts
  <2>2. PICK x \in DOMAIN T : f[x] = <<k, i>>
    BY <1>1, <2>1 DEF Pairs
  <2>3. T[x] = TargetAt(Asked[k], i) /\ T[x] \in ToSet(T)
    BY <1>1, <2>2 DEF ToSet
  <2> QED
    BY <2>3 DEF TargetAt
<1>4. OutcomesOf(Asked[k]) \subseteq {t.status : t \in {t \in ToSet(T) : t.context = Asked[k]}}
  BY <1>3 DEF OutcomesOf
<1>5. {t.status : t \in {t \in ToSet(T) : t.context = Asked[k]}} \subseteq OutcomesOf(Asked[k])
  BY <1>2
<1> QED
  BY <1>4, <1>5 DEF T

\* The status of the entry of a context: that of its error, or the worst of what
\* is in it.
EntryStatus(k) ==
    IF Answered(Asked[k]) THEN WorstStatus(OutcomesOf(Asked[k])) ELSE outs[Asked[k]].status

\* The contexts of the verdict, one for each asked for, have those statuses.
LEMMA EntryStatuses ==
    ASSUME RunInv, exit # Running, mode = "contexts"
    PROVE  LET contexts == FillContextVerdicts(Merged.contexts, Merged.targets)
           IN  contexts # <<>> /\ StatusesOf(contexts) = {EntryStatus(k) : k \in DOMAIN Asked}
<1> DEFINE entries == Merged.contexts
           T == Merged.targets
           contexts == FillContextVerdicts(entries, T)
           Own(k) == {t \in ToSet(T) : t.context = Asked[k]}
<1>1. entries = [k \in DOMAIN Asked |-> [context |-> Asked[k], status |-> outs[Asked[k]].status]]
  BY DEF Merged
<1> HIDE DEF T, entries
<1>2. /\ DOMAIN entries = DOMAIN Asked
      /\ \A k \in DOMAIN Asked : /\ entries[k].context = Asked[k]
                                 /\ entries[k].status = outs[Asked[k]].status
                                 /\ [entries[k] EXCEPT !.status = 0].status = 0
  BY <1>1
<1>3. ASSUME NEW k \in DOMAIN Asked PROVE contexts[k].status = EntryStatus(k)
  <2>1. contexts[k] = IF entries[k].status # Unjudged THEN entries[k]
                      ELSE [entries[k] EXCEPT !.status =
                              IF Own(k) = {} THEN "no_match"
                              ELSE WorstStatus({t.status : t \in Own(k)})]
    BY <1>2 DEF FillContextVerdicts
  <2>2. {t.status : t \in Own(k)} = OutcomesOf(Asked[k])
    BY OwnTargets DEF T
  <2>3. CASE Judged(Asked[k]) /\ outs[Asked[k]] = Filled(Asked[k])
    <3>1. entries[k].status = Unjudged /\ Answered(Asked[k])
      BY <2>3, <1>2 DEF Filled, Answered
    <3>2. Own(k) # {}
      <4>1. OutcomesOf(Asked[k]) # {}
        BY <3>1, FoundFacts DEF OutcomesOf
      <4> QED
        BY <2>2, <4>1
    <3>3. contexts[k].status = WorstStatus({t.status : t \in Own(k)})
      BY <2>1, <3>1, <3>2, <1>1
    <3> QED
      BY <2>2, <3>1, <3>3 DEF EntryStatus
  <2>4. CASE \E e \in WatchErrors : outs[Asked[k]] = ContextErrorEntry(e)
    <3>1. ~ Answered(Asked[k]) /\ outs[Asked[k]].status # Unjudged
      BY <2>4, ErrorSlot DEF Answered, WatchErrors, Unjudged
    <3> QED
      BY <2>1, <3>1, <1>2 DEF EntryStatus
  <2> QED
    BY <2>3, <2>4, SlotsAtTheEnd
<1>4. DOMAIN contexts = DOMAIN Asked
  BY <1>2 DEF FillContextVerdicts
<1> HIDE DEF contexts
<1>5. contexts # <<>>
  BY <1>4, AskedFacts
<1>6. StatusesOf(contexts) = {EntryStatus(k) : k \in DOMAIN Asked}
  BY <1>3, <1>4 DEF StatusesOf
<1> QED
  BY <1>5, <1>6 DEF contexts, T, entries

\* The entry of a context that was not checked is an error's, and only there.
LEMMA EntryMeans ==
    ASSUME RunInv, exit # Running, NEW k \in DOMAIN Asked
    PROVE  LET c == Asked[k]
           IN  /\ Answered(c) =>
                    /\ EntryStatus(k) \in {"settled", "progressing", "failed"}
                    /\ EntryStatus(k) = "failed" <=> "failed" \in OutcomesOf(c)
                    /\ EntryStatus(k) = "progressing" <=>
                         "failed" \notin OutcomesOf(c) /\ "progressing" \in OutcomesOf(c)
               /\ ~ Answered(c) =>
                    /\ OutcomesOf(c) = {}
                    /\ EntryStatus(k) \in {"no_match", "permission_denied", "failed"}
                    /\ outs[c].error = "other" => EntryStatus(k) = "failed"
<1> DEFINE c == Asked[k]
<1>1. CASE Answered(c)
  BY <1>1 DEF EntryStatus, WorstStatus
<1>2. CASE ~ Answered(c)
  <2>0. Filled(c).error = "none"
    BY DEF Filled
  <2>1. \E e \in WatchErrors : outs[c] = ContextErrorEntry(e)
    BY <2>0, <1>2, SlotsAtTheEnd DEF Answered
  <2>2. DOMAIN results[c] = {}
    BY <1>2, FoundFacts
  <2>3. EntryStatus(k) = outs[c].status
    BY <1>2 DEF EntryStatus
  <2>4. OutcomesOf(c) = {}
    BY <2>2 DEF OutcomesOf
  <2>5. /\ outs[c].status \in {"no_match", "permission_denied", "failed"}
        /\ outs[c].error = "other" => outs[c].status = "failed"
    BY <2>1, ErrorSlot DEF WatchErrors
  <2> QED
    BY <1>2, <2>3, <2>4, <2>5
<1> QED
  BY <1>1, <1>2

\* What the outcomes of all contexts come to.
LEMMA PlacesOutcomes ==
    ASSUME NEW s
    PROVE  (\E p \in Places : At(p).outcome = s) <=> \E k \in DOMAIN Asked : s \in OutcomesOf(Asked[k])
<1>1. ASSUME NEW p \in Places, At(p).outcome = s
      PROVE  \E k \in DOMAIN Asked : s \in OutcomesOf(Asked[k])
  <2>1. PICK k \in DOMAIN Asked : \E i \in DOMAIN results[Asked[k]] : p = <<k, i>>
    BY PlacesFacts
  <2>2. PICK i \in DOMAIN results[Asked[k]] : p = <<k, i>>
    BY <2>1
  <2> QED
    BY <1>1, <2>2 DEF At, OutcomesOf
<1>2. ASSUME NEW k \in DOMAIN Asked, s \in OutcomesOf(Asked[k])
      PROVE  \E p \in Places : At(p).outcome = s
  <2>1. PICK i \in DOMAIN results[Asked[k]] : results[Asked[k]][i].outcome = s
    BY <1>2 DEF OutcomesOf
  <2>2. <<k, i>> \in Places
    BY PlacesFacts
  <2> QED
    BY <2>1, <2>2 DEF At
<1> QED
  BY <1>1, <1>2

\* The parts of the truth the exit code is of.
Checked == \A k \in DOMAIN Asked : Answered(Asked[k])
Somewhere(s) == \E p \in Places : At(p).outcome = s

TruthOf(code) ==
    /\ code = 0 <=> Checked /\ ~ Somewhere("failed") /\ ~ Somewhere("progressing")
    /\ code = 2 <=> Checked /\ ~ Somewhere("failed") /\ Somewhere("progressing")
    /\ code \in {3, 4} => /\ ~ Somewhere("failed")
                          /\ \A k \in DOMAIN Asked : outs[Asked[k]].error # "other"

\* With a single cluster a context that could not be watched is the only one.
LEMMA ErrorTruth ==
    ASSUME RunInv, exit # Running, mode = "cluster", ~ Answered(NoContext)
    PROVE  TruthOf(exit)
<1>1. \A k \in DOMAIN Asked : k = 1 /\ Asked[k] = NoContext
  BY AskedInCluster
<1>2. 1 \in DOMAIN Asked
  BY AskedFacts
<1>3. ~ Checked /\ ~ Somewhere("failed")
  <2>1. Asked[1] = NoContext
    BY <1>1, <1>2
  <2>2. \A k \in DOMAIN Asked : DOMAIN results[Asked[k]] = {}
    BY <1>1, <1>2, FoundFacts
  <2>3. \A p : p \notin Places
    BY <2>2, PlacesFacts
  <2> QED
    BY <1>2, <2>1, <2>3 DEF Checked, Somewhere
<1>4. PICK e \in WatchErrors : outs[NoContext] = ContextErrorEntry(e)
  <2>1. Filled(NoContext).error = "none"
    BY DEF Filled
  <2> QED
    BY <2>1, <1>1, <1>2, SlotsAtTheEnd DEF Answered
<1>5. Emitted /\ outs[NoContext].error = e
  BY <1>4, ErrorSlot DEF RunInv, EndInv
<1>6. CASE e = "other"
  <2>1. exit = 1
    BY <1>5, <1>6 DEF Emitted
  <2> QED
    BY <1>3, <2>1 DEF TruthOf
<1>7. CASE e # "other"
  <2>1. outs[NoContext].status \in {"no_match", "permission_denied"}
    BY <1>4, <1>7, ErrorSlot DEF WatchErrors
  <2>2. exit = ExitCode(outs[NoContext].status, "none")
    BY <1>5, <1>7, ErrorSlot DEF Emitted
  <2>3. exit \in {3, 4}
    BY <2>1, <2>2 DEF ExitCode, BaseExitCode
  <2>4. \A k \in DOMAIN Asked : outs[Asked[k]].error # "other"
    BY <1>1, <1>5, <1>7
  <2> QED
    BY <1>3, <2>3, <2>4 DEF TruthOf
<1> QED
  BY <1>6, <1>7

\* The status of one cluster is that of the worst target.
LEMMA ClusterTruth ==
    ASSUME RunInv, exit # Running, mode = "cluster", Answered(NoContext)
    PROVE  TruthOf(BaseExitCode(BuildFleet(Merged).status))
<1> DEFINE T == Merged.targets
           status == BuildFleet(Merged).status
<1>1. \A k \in DOMAIN Asked : k = 1 /\ Asked[k] = NoContext
  BY AskedInCluster
<1>2. 1 \in DOMAIN Asked /\ Asked[1] = NoContext
  BY <1>1, AskedFacts
<1>3. StatusesOf(T) = OutcomesOf(NoContext)
  <2>1. PICK f : /\ Pairs(f, DOMAIN T, Places)
                 /\ \A x \in DOMAIN T : T[x] = TargetAt(Asked[f[x][1]], f[x][2])
    BY TargetsUnfold
  <2>2. \A p \in Places : p[1] \in DOMAIN Asked /\ p[2] \in DOMAIN results[Asked[p[1]]]
    BY PlacesFacts
  <2>3. ASSUME NEW x \in DOMAIN T PROVE T[x].status \in OutcomesOf(NoContext)
    <3>1. f[x] \in Places
      BY <2>1 DEF Pairs
    <3>2. Asked[f[x][1]] = NoContext /\ f[x][2] \in DOMAIN results[NoContext]
      BY <3>1, <2>2, <1>1
    <3>3. T[x].status = results[NoContext][f[x][2]].outcome
      <4>1. T[x] = TargetAt(NoContext, f[x][2])
        BY <2>1, <3>2
      <4> HIDE DEF T
      <4> QED
        BY <4>1 DEF TargetAt
    <3> QED
      BY <3>2, <3>3 DEF OutcomesOf
  <2>4. ASSUME NEW i \in DOMAIN results[NoContext]
        PROVE  \E x \in DOMAIN T : T[x].status = results[NoContext][i].outcome
    <3>1. <<1, i>> \in Places
      BY <1>2, PlacesFacts
    <3>2. PICK x \in DOMAIN T : f[x] = <<1, i>>
      BY <2>1, <3>1 DEF Pairs
    <3>3. T[x] = TargetAt(NoContext, i)
      BY <2>1, <3>2, <1>2
    <3> QED
      BY <3>3 DEF TargetAt
  <2> HIDE DEF T
  <2> QED
    BY <2>3, <2>4 DEF StatusesOf, OutcomesOf
<1>4. status = WorstStatus(OutcomesOf(NoContext))
  <2>1. Merged.contexts = <<>>
    BY DEF Merged
  <2>2. FillContextVerdicts(<<>>, T) = <<>>
    BY DEF FillContextVerdicts
  <2>3. status = WorstStatus(StatusesOf(T))
    BY <2>1, <2>2 DEF BuildFleet
  <2> QED
    BY <1>3, <2>3
<1>5. /\ Checked
      /\ \A s : Somewhere(s) <=> s \in OutcomesOf(NoContext)
      /\ \A k \in DOMAIN Asked : outs[Asked[k]].error # "other"
  BY <1>1, <1>2, PlacesOutcomes DEF Checked, Somewhere, Answered
<1> HIDE DEF status
<1>6. /\ status \in {"settled", "progressing", "failed"}
      /\ status = "settled" <=> "failed" \notin OutcomesOf(NoContext) /\ "progressing" \notin OutcomesOf(NoContext)
      /\ status = "progressing" <=> "failed" \notin OutcomesOf(NoContext) /\ "progressing" \in OutcomesOf(NoContext)
  BY <1>4 DEF WorstStatus
<1>7. /\ BaseExitCode(status) = 0 <=> status = "settled"
      /\ BaseExitCode(status) = 2 <=> status = "progressing"
      /\ BaseExitCode(status) \notin {3, 4}
  BY <1>6 DEF BaseExitCode
<1>8. TruthOf(BaseExitCode(status))
  BY <1>5, <1>6, <1>7 DEF TruthOf
<1> QED
  BY <1>8 DEF status

\* The status of several contexts is that of the worst of them.
LEMMA ContextsTruth ==
    ASSUME RunInv, exit # Running, mode = "contexts"
    PROVE  TruthOf(BaseExitCode(BuildFleet(Merged).status))
<1> DEFINE contexts == FillContextVerdicts(Merged.contexts, Merged.targets)
           S == {EntryStatus(k) : k \in DOMAIN Asked}
           status == BuildFleet(Merged).status
<1>1. contexts # <<>> /\ StatusesOf(contexts) = S
  BY EntryStatuses
<1>2. status = ContextsStatus(contexts)
  BY <1>1 DEF BuildFleet
<1> HIDE DEF contexts, status
<1>3. S \subseteq {"settled", "progressing", "no_match", "permission_denied", "failed"} /\ S # {}
  BY EntryMeans, AskedFacts
<1>4. \A s : s \in S <=> \E k \in DOMAIN Asked : EntryStatus(k) = s
  OBVIOUS
<1> HIDE DEF S
<1>5. /\ status \in S
      /\ "failed" \in S => status = "failed"
      /\ status = "settled" => S \subseteq {"settled"}
      /\ status = "progressing" => S \subseteq {"settled", "progressing"}
  BY <1>1, <1>2, <1>3, ContextsStatusFacts
<1>6. \A s : Somewhere(s) <=> \E k \in DOMAIN Asked : s \in OutcomesOf(Asked[k])
  BY PlacesOutcomes DEF Somewhere
<1>7. /\ BaseExitCode(status) = 0 <=> status = "settled"
      /\ BaseExitCode(status) = 2 <=> status = "progressing"
      /\ BaseExitCode(status) \in {3, 4} => status \in {"permission_denied", "no_match"}
  BY DEF BaseExitCode
<1>8. status = "settled" <=> Checked /\ ~ Somewhere("failed") /\ ~ Somewhere("progressing")
  <2>1. ASSUME status = "settled"
        PROVE  Checked /\ ~ Somewhere("failed") /\ ~ Somewhere("progressing")
    <3>1. \A k \in DOMAIN Asked : EntryStatus(k) = "settled"
      BY <1>4, <1>5, <2>1
    <3> QED
      BY <3>1, <1>6, EntryMeans DEF Checked
  <2>2. ASSUME Checked, ~ Somewhere("failed"), ~ Somewhere("progressing")
        PROVE  status = "settled"
    <3>1. \A k \in DOMAIN Asked : EntryStatus(k) = "settled"
      BY <1>6, <2>2, EntryMeans DEF Checked
    <3> QED
      BY <3>1, <1>4, <1>5
  <2> QED
    BY <2>1, <2>2
<1>9. status = "progressing" <=> Checked /\ ~ Somewhere("failed") /\ Somewhere("progressing")
  <2>1. ASSUME status = "progressing"
        PROVE  Checked /\ ~ Somewhere("failed") /\ Somewhere("progressing")
    <3>1. /\ \A k \in DOMAIN Asked : EntryStatus(k) \in {"settled", "progressing"}
          /\ \E k \in DOMAIN Asked : EntryStatus(k) = "progressing"
      BY <1>4, <1>5, <2>1
    <3> QED
      BY <3>1, <1>6, EntryMeans DEF Checked
  <2>2. ASSUME Checked, ~ Somewhere("failed"), Somewhere("progressing")
        PROVE  status = "progressing"
    <3>1. /\ \A k \in DOMAIN Asked : EntryStatus(k) \in {"settled", "progressing"}
          /\ \E k \in DOMAIN Asked : EntryStatus(k) = "progressing"
      BY <1>6, <2>2, EntryMeans DEF Checked
    <3> QED
      BY <3>1, <1>4, <1>5
  <2> QED
    BY <2>1, <2>2
<1>10. ASSUME status \in {"permission_denied", "no_match"}
       PROVE  /\ ~ Somewhere("failed")
              /\ \A k \in DOMAIN Asked : outs[Asked[k]].error # "other"
  <2>1. \A k \in DOMAIN Asked : EntryStatus(k) # "failed"
    BY <1>4, <1>5, <1>10
  <2>2. ASSUME NEW k \in DOMAIN Asked
        PROVE  "failed" \notin OutcomesOf(Asked[k]) /\ outs[Asked[k]].error # "other"
    BY <2>1, EntryMeans DEF Answered
  <2> QED
    BY <2>2, <1>6
<1>11. TruthOf(BaseExitCode(status))
  BY <1>7, <1>8, <1>9, <1>10 DEF TruthOf
<1> QED
  BY <1>11 DEF status

\* The exit code tells the truth about every cluster and every target of the
\* run, whatever failed: 0 only if all was checked and settled, 2 only if all
\* was checked and what is not settled moves (BuildFleet, exitCode).
THEOREM UnverifiedCorrect == Spec => []UnverifiedNeverHides
<1>1. RunInv => UnverifiedNeverHides
  <2> SUFFICES ASSUME RunInv, exit # Running PROVE TruthOf(exit)
    BY DEF UnverifiedNeverHides, TruthOf, Checked, Somewhere
  <2>1. CASE mode = "cluster" /\ ~ Answered(NoContext)
    BY <2>1, ErrorTruth
  <2>2. CASE mode = "cluster" => Answered(NoContext)
    <3>1. exit = BaseExitCode(BuildFleet(Merged).status)
      <4>1. Emitted
        BY DEF RunInv, EndInv
      <4>2. verdict = BuildFleet(Merged) /\ exit = ExitCode(verdict.status, "none")
        BY <4>1, <2>2 DEF Emitted, Answered
      <4> QED
        BY <4>2, ExitCodeRange
    <3>2. CASE mode = "cluster"
      BY <2>2, <3>1, <3>2, ClusterTruth
    <3>3. CASE mode = "contexts"
      BY <3>1, <3>3, ContextsTruth
    <3> QED
      BY <3>2, <3>3 DEF RunInv, CommandInv
  <2> QED
    BY <2>1, <2>2
<1> QED
  BY <1>1, RunInvariant, PTL

----------------------------------------------------------------------------
(* What was found, in order *)

\* Workloads of a context are told apart by namespace and name.
LEMMA FleetDistinct ==
    ASSUME NEW c \in Slots, NEW i \in Fleet(c), NEW j \in Fleet(c),
           WorkloadsOf(c)[i].ns = WorkloadsOf(c)[j].ns,
           WorkloadsOf(c)[i].name = WorkloadsOf(c)[j].name
    PROVE  i = j
<1>1. (IF c = NoContext THEN Contexts[1] ELSE c) \in Range(Contexts)
  BY ContextKnown
<1>2. IsInjective(WorkloadsOf(c))
  BY <1>1, NamesAssumption DEF WorkloadsOf
<1> DEFINE W == WorkloadsOf(c)
<1>3. W \in Seq([ns : STRING, name : STRING \X STRING])
  BY FleetHasTargets
<1>4. DOMAIN W = Fleet(c)
  BY <1>3 DEF Fleet
<1>5. W[i] \in [ns : STRING, name : STRING \X STRING] /\ W[j] \in [ns : STRING, name : STRING \X STRING]
  <2> DEFINE T == [ns : STRING, name : STRING \X STRING]
  <2>1. W \in Seq(T) /\ DOMAIN W = Fleet(c)
    BY <1>3, <1>4
  <2> HIDE DEF T, W
  <2>2. W[i] \in T /\ W[j] \in T
    BY <2>1
  <2> QED
    BY <2>2 DEF T
<1>6. W[i] = W[j]
  BY <1>5
<1> QED
  BY <1>2, <1>4, <1>6 DEF IsInjective

\* A finding of the report about a target names it.
IsOf(f, c, i) ==
    /\ f.context = c /\ f.ns = WorkloadsOf(c)[i].ns /\ f.name = WorkloadsOf(c)[i].name
    /\ \/ f.pod = NoPod
       \/ \E path \in Seq(STRING) : path # NoPod /\ f.pod = f.name \o path

\* Every finding of a report about a target names that target.
LEMMA ReportedFacts ==
    ASSUME NEW c, NEW i, NEW report, ReportOf(c, i, report)
    PROVE  /\ \E S : report.findings \in Seq(S)
           /\ \A j \in DOMAIN report.findings : IsOf(report.findings[j], c, i)
<1>1. CASE report = NoReport
  <2>1. report.findings = <<>>
    BY <1>1 DEF NoReport
  <2>2. <<>> \in Seq({}) /\ DOMAIN <<>> = {}
    OBVIOUS
  <2> QED
    BY <2>1, <2>2
<1>2. CASE \E r \in Reports : report = Reported(c, i, r)
  <2>1. PICK r \in Reports : report = Reported(c, i, r)
    BY <1>2
  <2> DEFINE made(j) == [context |-> c, ns |-> WorkloadsOf(c)[i].ns, name |-> WorkloadsOf(c)[i].name,
                         cause |-> r.findings[j].cause,
                         pod |-> IF r.findings[j].pod = NoPod THEN NoPod
                                 ELSE WorkloadsOf(c)[i].name \o r.findings[j].pod]
  <2>2. report.findings = [j \in DOMAIN r.findings |-> made(j)]
    <3>1. /\ Located(c, i).ns = WorkloadsOf(c)[i].ns
          /\ Located(c, i).name = WorkloadsOf(c)[i].name
      BY DEF Located
    <3>2. r \in [findings : Seq([pod : Seq(STRING), cause : STRING]), degraded : Seq(STRING)]
      BY ReportsAssumption
    <3> QED
      BY <2>1, <3>1, <3>2 DEF Reported
  <2>3. r.findings \in Seq([pod : Seq(STRING), cause : STRING])
    BY ReportsAssumption
  <2> HIDE DEF made
  <2>4. /\ DOMAIN report.findings = 1 .. Len(r.findings) /\ Len(r.findings) \in Nat
        /\ \A j \in DOMAIN report.findings : report.findings[j] = made(j)
    BY <2>2, <2>3
  <2>5. \E S : report.findings \in Seq(S)
    <3> DEFINE S == {made(j) : j \in 1 .. Len(r.findings)}
    <3>1. report.findings = [j \in 1 .. Len(r.findings) |-> made(j)]
      BY <2>2, <2>4
    <3>2. \A j \in 1 .. Len(r.findings) : made(j) \in S
      OBVIOUS
    <3> HIDE DEF S
    <3>3. report.findings \in Seq(S)
      BY <3>1, <3>2, <2>4
    <3> QED
      BY <3>3
  <2>6. ASSUME NEW j \in DOMAIN report.findings PROVE IsOf(report.findings[j], c, i)
    <3>1. r.findings[j].pod \in Seq(STRING)
      <4> DEFINE T == [pod : Seq(STRING), cause : STRING]
                 fs == r.findings
      <4>1. fs \in Seq(T) /\ j \in 1 .. Len(fs)
        BY <2>3, <2>4
      <4> HIDE DEF T, fs
      <4>2. fs[j] \in T
        BY <4>1
      <4> QED
        BY <4>2 DEF T, fs
    <3>2. IsOf(made(j), c, i)
      BY <3>1 DEF IsOf, made
    <3> QED
      BY <2>4, <3>2
  <2> QED
    BY <2>5, <2>6
<1> QED
  BY <1>1, <1>2 DEF ReportOf

\* What was found about a target is the report in its slot.
LEMMA FindingsOfSlot ==
    ASSUME RunInv, exit # Running, NEW k \in DOMAIN Asked, NEW i \in DOMAIN results[Asked[k]]
    PROVE  LET c == Asked[k]
           IN  /\ Judged(c) /\ outs[c] = Filled(c) /\ c \in Slots /\ i \in Fleet(c)
               /\ ReportOf(c, i, reports[c][i])
               /\ FindingsAt(<<k, i>>) = ToSet(reports[c][i].findings)
<1> DEFINE c == Asked[k]
<1>1. Judged(c) /\ outs[c] = Filled(c) /\ c \in Slots
  <2>1. results[c] # <<>>
    OBVIOUS
  <2> QED
    BY <2>1, SlotsAtTheEnd, AskedHasSlot DEF RunInv
<1>2. /\ DOMAIN results[c] = Fleet(c) /\ DOMAIN reports[c] = Fleet(c)
      /\ \A j \in Fleet(c) : ReportOf(c, j, reports[c][j])
  BY <1>1 DEF Judged
<1>3. FindingsAt(<<k, i>>) =
        {f \in UNION {Range(reports[c][j].findings) : j \in Fleet(c)} :
            f.ns = WorkloadsOf(c)[i].ns /\ f.name = WorkloadsOf(c)[i].name}
  BY <1>2 DEF FindingsAt, Located
<1>4. ASSUME NEW j \in Fleet(c), NEW f \in ToSet(reports[c][j].findings)
      PROVE  f.ns = WorkloadsOf(c)[j].ns /\ f.name = WorkloadsOf(c)[j].name
  <2>1. PICK n \in DOMAIN reports[c][j].findings : f = reports[c][j].findings[n]
    BY DEF ToSet
  <2> QED
    BY <2>1, <1>2, ReportedFacts DEF IsOf
<1>5. \A j : Range(reports[c][j].findings) = ToSet(reports[c][j].findings)
  BY DEF Range, ToSet
<1>6. ASSUME NEW f PROVE f \in FindingsAt(<<k, i>>) <=> f \in ToSet(reports[c][i].findings)
  <2>1. f \in FindingsAt(<<k, i>>) <=>
          /\ \E j \in Fleet(c) : f \in ToSet(reports[c][j].findings)
          /\ f.ns = WorkloadsOf(c)[i].ns /\ f.name = WorkloadsOf(c)[i].name
    BY <1>3, <1>5
  <2> QED
    BY <2>1, <1>1, <1>2, <1>4, FleetDistinct
<1> QED
  BY <1>1, <1>2, <1>6

\* The findings of all slots, one context after the other.
AllFindings == Across([c \in Slots |-> outs[c].findings])

\* The findings of a context, target by target.
ByTarget(c) == [i \in DOMAIN results[c] |-> reports[c][i].findings]

\* A set that has what was found about each target.
Material == UNION {FindingsAt(p) : p \in Places}

\* Nothing is in no sequences.
LEMMA EmptyFlattens == FlattenSeq(<<>>) = <<>>
<1>1. Len(<<>>) = 0
  OBVIOUS
<1> QED
  BY <1>1, Zenon DEF FlattenSeq

\* A slot holds the findings about its targets, in the order of the fleet.
LEMMA SlotUnfolds ==
    ASSUME RunInv, exit # Running, NEW k \in DOMAIN Asked
    PROVE  LET c == Asked[k]
           IN  /\ outs[c].findings \in Seq(Material)
               /\ \E f : Unfolds(outs[c].findings, ByTarget(c), PlacesOf(ByTarget(c)), f)
<1> DEFINE c == Asked[k]
           B == ByTarget(c)
<1>1. outs[c].findings = FlattenSeq(B)
  <2>1. CASE results[c] = <<>> /\ \E e \in WatchErrors : outs[c] = ContextErrorEntry(e)
    <3>1. outs[c].findings = <<>>
      BY <2>1, ErrorSlot
    <3>2. B = <<>>
      BY <2>1 DEF ByTarget
    <3>3. FlattenSeq(<<>>) = <<>>
      BY Zenon, EmptyFlattens
    <3> QED
      BY <3>1, <3>2, <3>3
  <2>2. CASE outs[c] = Filled(c)
    BY <2>2 DEF Filled, ByTarget
  <2> QED
    BY <2>1, <2>2, SlotsAtTheEnd
<1>2. B \in Seq(Seq(Material))
  <2>1. PICK n \in Nat : DOMAIN results[c] = 1 .. n
    BY FoundFacts
  <2>2. ASSUME NEW i \in 1 .. n PROVE reports[c][i].findings \in Seq(Material)
    <3> DEFINE fs == reports[c][i].findings
    <3>1. ReportOf(c, i, reports[c][i]) /\ FindingsAt(<<k, i>>) = ToSet(fs)
      BY <2>1, FindingsOfSlot
    <3>2. PICK S : fs \in Seq(S)
      BY <3>1, ReportedFacts
    <3> HIDE DEF fs
    <3>3. fs \in Seq(ToSet(fs))
      BY <3>2, SeqOfOwn
    <3>4. <<k, i>> \in Places
      BY <2>1, PlacesFacts
    <3>5. ToSet(fs) \subseteq Material
      BY <3>1, <3>4 DEF Material
    <3>6. fs \in Seq(Material)
      BY <3>3, <3>5, SeqWiden
    <3> QED
      BY <3>6 DEF fs
  <2>3. B = [i \in 1 .. n |-> reports[c][i].findings]
    BY <2>1 DEF ByTarget
  <2> HIDE DEF B
  <2> QED
    BY <2>2, <2>3
<1> HIDE DEF B
<1>3. FlattenSeq(B) \in Seq(Material) /\ \E f : Unfolds(FlattenSeq(B), B, PlacesOf(B), f)
  BY <1>2, FlattenUnfolds
<1> QED
  BY <1>1, <1>3 DEF B

\* h tells of each of the findings, in order, about which target it is, and
\* every finding is about one.
Sorts(h) ==
    /\ h \in [DOMAIN AllFindings -> Places]
    /\ \A x \in DOMAIN AllFindings : AllFindings[x] \in FindingsAt(h[x])
    /\ \A q \in Places : \A f \in FindingsAt(q) :
         \E y \in DOMAIN AllFindings : AllFindings[y] = f /\ h[y] = q
    /\ \A x, y \in DOMAIN AllFindings : x < y => Before(h[x], h[y])

\* The findings a run reports are those of the slots, slot after slot and target
\* after target: a function tells of each where it came from, in that order.
LEMMA FindingsUnfold ==
    ASSUME RunInv, exit # Running
    PROVE  AllFindings \in Seq(Material) /\ \E h : Sorts(h)
<1> DEFINE ss == [k \in DOMAIN Asked |-> [c \in Slots |-> outs[c].findings][Asked[k]]]
           A == AllFindings
           Held(k) == ByTarget(Asked[k])
           Where(k) == CHOOSE f : Unfolds(ss[k], Held(k), PlacesOf(Held(k)), f)
<1>1. A = FlattenSeq(ss)
  BY DEF AllFindings, Across
<1>2. \A k \in DOMAIN Asked : ss[k] = outs[Asked[k]].findings
  BY AskedHasSlot DEF RunInv
<1>3. \A k \in DOMAIN Asked : ss[k] \in Seq(Material) /\ Unfolds(ss[k], Held(k), PlacesOf(Held(k)), Where(k))
  <2> SUFFICES ASSUME NEW k \in DOMAIN Asked
               PROVE  ss[k] \in Seq(Material) /\ Unfolds(ss[k], Held(k), PlacesOf(Held(k)), Where(k))
    OBVIOUS
  <2>1. ss[k] \in Seq(Material) /\ \E f : Unfolds(ss[k], Held(k), PlacesOf(Held(k)), f)
    BY <1>2, SlotUnfolds
  <2> HIDE DEF ss, Held
  <2> QED
    BY <2>1
<1>4. DOMAIN ss = DOMAIN Asked /\ ss \in Seq(Seq(Material))
  <2>1. ss = [k \in 1 .. Len(Asked) |-> ss[k]]
    BY AskedFacts
  <2>2. DOMAIN ss = DOMAIN Asked
    OBVIOUS
  <2>3. DOMAIN Asked = 1 .. Len(Asked) /\ Len(Asked) \in Nat
    BY AskedFacts
  <2>4. \A k \in 1 .. Len(Asked) : ss[k] \in Seq(Material)
    BY <1>3, <2>3
  <2> HIDE DEF ss
  <2>5. ss \in Seq(Seq(Material))
    BY <2>1, <2>3, <2>4
  <2> QED
    BY <2>2, <2>5
<1> HIDE DEF ss, A, Held, Where
<1>5. PICK f : A \in Seq(Material) /\ Unfolds(A, ss, PlacesOf(ss), f)
  BY <1>1, <1>4, FlattenUnfolds
<1> DEFINE h == [x \in DOMAIN A |-> <<f[x][1], Where(f[x][1])[f[x][2]][1]>>]
<1>6. ASSUME NEW k \in DOMAIN Asked, NEW n \in DOMAIN ss[k]
      PROVE  /\ Where(k)[n] \in PlacesOf(Held(k))
             /\ Where(k)[n][1] \in DOMAIN results[Asked[k]]
             /\ ss[k][n] \in FindingsAt(<<k, Where(k)[n][1]>>)
  <2>1. /\ Where(k)[n] \in PlacesOf(Held(k))
        /\ ss[k][n] = Held(k)[Where(k)[n][1]][Where(k)[n][2]]
    BY <1>3 DEF Unfolds, Pairs
  <2>2. PICK i \in DOMAIN Held(k) : \E j \in DOMAIN Held(k)[i] : Where(k)[n] = <<i, j>>
    BY <2>1, PlaceIs
  <2>3. PICK j \in DOMAIN Held(k)[i] : Where(k)[n] = <<i, j>>
    BY <2>2
  <2>4. i \in DOMAIN results[Asked[k]] /\ Held(k)[i] = reports[Asked[k]][i].findings
    BY DEF Held, ByTarget
  <2>5. ss[k][n] \in ToSet(Held(k)[i])
    BY <2>1, <2>3 DEF ToSet
  <2> QED
    BY <2>1, <2>3, <2>4, <2>5, FindingsOfSlot
<1>7. ASSUME NEW x \in DOMAIN A
      PROVE  /\ f[x][1] \in DOMAIN Asked /\ f[x][2] \in DOMAIN ss[f[x][1]]
             /\ f[x] = <<f[x][1], f[x][2]>>
             /\ A[x] = ss[f[x][1]][f[x][2]]
  <2>1. f[x] \in PlacesOf(ss) /\ A[x] = ss[f[x][1]][f[x][2]]
    BY <1>5 DEF Unfolds, Pairs
  <2>2. PICK k \in DOMAIN ss : \E n \in DOMAIN ss[k] : f[x] = <<k, n>>
    BY <2>1, PlaceIs
  <2> QED
    BY <2>1, <2>2, <1>4
<1>8. \A x \in DOMAIN A : h[x] \in Places /\ A[x] \in FindingsAt(h[x])
  <2> SUFFICES ASSUME NEW x \in DOMAIN A PROVE h[x] \in Places /\ A[x] \in FindingsAt(h[x])
    OBVIOUS
  <2>1. h[x] = <<f[x][1], Where(f[x][1])[f[x][2]][1]>>
    OBVIOUS
  <2> HIDE DEF h
  <2> QED
    BY <2>1, <1>6, <1>7, PlacesFacts
<1>9. ASSUME NEW q \in Places, NEW e \in FindingsAt(q)
      PROVE  \E y \in DOMAIN A : A[y] = e /\ h[y] = q
  <2>1. PICK k \in DOMAIN Asked : \E i \in DOMAIN results[Asked[k]] : q = <<k, i>>
    BY PlacesFacts
  <2>2. PICK i \in DOMAIN results[Asked[k]] : q = <<k, i>>
    BY <2>1
  <2>3. i \in DOMAIN Held(k) /\ e \in ToSet(Held(k)[i])
    <3>1. e \in ToSet(reports[Asked[k]][i].findings)
      BY <2>2, FindingsOfSlot
    <3> QED
      BY <3>1 DEF Held, ByTarget
  <2>4. PICK j \in DOMAIN Held(k)[i] : Held(k)[i][j] = e
    BY <2>3 DEF ToSet
  <2>5. <<i, j>> \in PlacesOf(Held(k))
    BY <2>3, PlaceIs
  <2>6. PICK n \in DOMAIN ss[k] : Where(k)[n] = <<i, j>>
    BY <2>5, <1>3 DEF Unfolds, Pairs
  <2>7. ss[k][n] = e
    BY <2>4, <2>6, <1>3 DEF Unfolds
  <2>8. <<k, n>> \in PlacesOf(ss)
    BY <1>4, PlaceIs
  <2>9. PICK y \in DOMAIN A : f[y] = <<k, n>>
    BY <2>8, <1>5 DEF Unfolds, Pairs
  <2>10. A[y] = e
    BY <2>7, <2>9, <1>7
  <2>11. h[y] = <<f[y][1], Where(f[y][1])[f[y][2]][1]>>
    OBVIOUS
  <2>12. h[y] = q
    BY <2>2, <2>6, <2>9, <2>11
  <2> QED
    BY <2>10, <2>12
<1>10. ASSUME NEW x \in DOMAIN A, NEW y \in DOMAIN A, x < y
       PROVE  Before(h[x], h[y])
  <2>1. Earlier(f[x], f[y])
    BY <1>5, <1>10 DEF Unfolds
  <2>2. /\ h[x] = <<f[x][1], Where(f[x][1])[f[x][2]][1]>>
        /\ h[y] = <<f[y][1], Where(f[y][1])[f[y][2]][1]>>
    OBVIOUS
  <2> HIDE DEF h
  <2>3. CASE f[x][1] < f[y][1]
    BY <2>2, <2>3 DEF Before
  <2>4. CASE f[x][1] = f[y][1] /\ f[x][2] < f[y][2]
    <3> DEFINE k == f[x][1]
               u == Where(k)[f[x][2]]
               v == Where(k)[f[y][2]]
    <3>1. k \in DOMAIN Asked /\ f[x][2] \in DOMAIN ss[k] /\ f[y][2] \in DOMAIN ss[k]
      BY <1>7, <2>4
    <3>2. Earlier(u, v)
      BY <3>1, <2>4, <1>3 DEF Unfolds
    <3>3. u[1] \in DOMAIN results[Asked[k]] /\ v[1] \in DOMAIN results[Asked[k]]
      BY <3>1, <1>6
    <3>4. PICK m \in Nat : DOMAIN results[Asked[k]] = 1 .. m
      BY <3>1, FoundFacts
    <3>5. h[x] = <<k, u[1]>> /\ h[y] = <<k, v[1]>>
      BY <2>2, <2>4
    <3> HIDE DEF k, u, v
    <3>6. u[1] <= v[1]
      BY <3>2, <3>3, <3>4 DEF Earlier
    <3> QED
      BY <3>5, <3>6 DEF Before
  <2> QED
    BY <2>1, <2>3, <2>4 DEF Earlier
<1>11. Sorts(h)
  BY <1>8, <1>9, <1>10 DEF Sorts, A
<1> QED
  BY <1>5, <1>11 DEF A

----------------------------------------------------------------------------
\* Each cause has an entry, in the order in which the causes were found first.
LEMMA CollapseFacts ==
    ASSUME NEW S, NEW findings \in Seq(S)
    PROVE  LET causes == [i \in DOMAIN findings |-> findings[i].cause]
               entries == Collapse(findings)
           IN  /\ DOMAIN entries = DOMAIN Distinct(causes)
               /\ \A a \in DOMAIN entries :
                    /\ entries[a].cause = Distinct(causes)[a]
                    /\ entries[a].affected = Len(Distinct(AnchorsOf(findings, entries[a].cause)))
               /\ {entries[a].cause : a \in DOMAIN entries} = {f.cause : f \in ToSet(findings)}
               /\ \A a, b \in DOMAIN entries : a < b =>
                    \E i \in DOMAIN findings :
                        /\ findings[i].cause = entries[a].cause
                        /\ \A j \in DOMAIN findings : findings[j].cause = entries[b].cause => i < j
<1> DEFINE causes == [i \in DOMAIN findings |-> findings[i].cause]
           d == Distinct(causes)
           entries == Collapse(findings)
           T == {findings[i].cause : i \in DOMAIN findings}
<1>1. causes \in Seq(T)
  <2>1. /\ causes = [i \in 1 .. Len(findings) |-> findings[i].cause] /\ Len(findings) \in Nat
        /\ DOMAIN findings = 1 .. Len(findings)
    OBVIOUS
  <2>2. \A i \in 1 .. Len(findings) : findings[i].cause \in T
    OBVIOUS
  <2> HIDE DEF T
  <2> QED
    BY <2>1, <2>2
<1>2. entries = [k \in DOMAIN d |-> Entry(d[k], Distinct(AnchorsOf(findings, d[k])))]
  BY DEF Collapse, CausesOf
<1>3. /\ DOMAIN causes = DOMAIN findings
      /\ \A i \in DOMAIN findings : causes[i] = findings[i].cause
  OBVIOUS
<1> HIDE DEF T, causes, entries
<1>4. /\ d \in Seq(T)
      /\ ToSet(d) = ToSet(causes)
      /\ \A a, b \in DOMAIN d : a < b =>
            \E i \in DOMAIN causes : /\ causes[i] = d[a]
                                     /\ \A j \in DOMAIN causes : causes[j] = d[b] => i < j
  BY <1>1, DistinctFacts
<1> HIDE DEF d
<1>5. /\ DOMAIN entries = DOMAIN d
      /\ \A a \in DOMAIN d : /\ entries[a].cause = d[a]
                             /\ entries[a].affected = Len(Distinct(AnchorsOf(findings, d[a])))
  BY <1>2 DEF Entry
<1>6. {entries[a].cause : a \in DOMAIN entries} = {f.cause : f \in ToSet(findings)}
  <2>1. {entries[a].cause : a \in DOMAIN entries} = ToSet(d)
    BY <1>5 DEF ToSet
  <2>2. ToSet(causes) = {f.cause : f \in ToSet(findings)}
    BY <1>3 DEF ToSet
  <2> QED
    BY <2>1, <2>2, <1>4
<1>7. ASSUME NEW a \in DOMAIN entries, NEW b \in DOMAIN entries, a < b
      PROVE  \E i \in DOMAIN findings :
                /\ findings[i].cause = entries[a].cause
                /\ \A j \in DOMAIN findings : findings[j].cause = entries[b].cause => i < j
  <2>1. PICK i \in DOMAIN causes : /\ causes[i] = d[a]
                                   /\ \A j \in DOMAIN causes : causes[j] = d[b] => i < j
    BY <1>4, <1>5, <1>7
  <2> QED
    BY <2>1, <1>3, <1>5
<1> QED
  BY <1>5, <1>6, <1>7 DEF d, causes, entries

\* A verdict has causes only of what was merged.
LEMMA FailuresAre ==
    ASSUME RunInv, exit # Running
    PROVE  verdict.failures = <<>> \/ verdict.failures = Collapse(AllFindings)
<1>1. Emitted
  BY DEF RunInv, EndInv
<1>2. \A s : ErrorVerdict(s).failures = <<>>
  BY DEF ErrorVerdict
<1>3. BuildFleet(Merged).failures = Collapse(AllFindings)
  <2>1. Merged.failures = Collapse(AllFindings)
    BY DEF Merged, AllFindings
  <2> QED
    BY <2>1 DEF BuildFleet
<1> QED
  BY <1>1, <1>2, <1>3 DEF Emitted

\* Causes come in the order of the first target that has them, context by
\* context, however the goroutines interleave (diagnoseFleet, runContexts).
THEOREM OrderCorrect == Spec => []InFleetOrder
<1>1. RunInv => InFleetOrder
  <2> SUFFICES ASSUME RunInv, exit # Running,
                      NEW a \in DOMAIN verdict.failures, NEW b \in DOMAIN verdict.failures, a < b
               PROVE  \E p \in Places :
                        /\ \E f \in FindingsAt(p) : f.cause = verdict.failures[a].cause
                        /\ \A q \in Places :
                            (\E f \in FindingsAt(q) : f.cause = verdict.failures[b].cause) => Before(p, q)
    BY DEF InFleetOrder
  <2> DEFINE A == AllFindings
             entries == Collapse(A)
  <2>1. verdict.failures = entries
    BY FailuresAre
  <2>2. PICK h : A \in Seq(Material) /\ Sorts(h)
    BY FindingsUnfold
  <2> HIDE DEF A
  <2>3. \A x, y \in DOMAIN entries : x < y =>
            \E i \in DOMAIN A :
                /\ A[i].cause = entries[x].cause
                /\ \A j \in DOMAIN A : A[j].cause = entries[y].cause => i < j
    BY <2>2, CollapseFacts
  <2> HIDE DEF entries
  <2>4. PICK i \in DOMAIN A :
            /\ A[i].cause = entries[a].cause
            /\ \A j \in DOMAIN A : A[j].cause = entries[b].cause => i < j
    BY <2>1, <2>3
  <2>5. h[i] \in Places /\ A[i] \in FindingsAt(h[i])
    BY <2>2 DEF Sorts, A
  <2>6. ASSUME NEW q \in Places, NEW f \in FindingsAt(q), f.cause = entries[b].cause
        PROVE  Before(h[i], q)
    <3>1. PICK y \in DOMAIN A : A[y] = f /\ h[y] = q
      BY <2>2 DEF Sorts, A
    <3>2. i < y
      BY <2>4, <2>6, <3>1
    <3> QED
      BY <2>2, <3>1, <3>2 DEF Sorts, A
  <2> QED
    BY <2>1, <2>4, <2>5, <2>6
<1> QED
  BY <1>1, RunInvariant, PTL

----------------------------------------------------------------------------
(* Nothing is lost *)

\* Pairings one after the other.
LEMMA PairsCompose ==
    ASSUME NEW A, NEW B, NEW C, NEW f, NEW g, Pairs(f, A, B), Pairs(g, B, C)
    PROVE  Pairs([x \in A |-> g[f[x]]], A, C)
<1> DEFINE h == [x \in A |-> g[f[x]]]
<1>1. \A x \in A : f[x] \in B /\ g[f[x]] \in C /\ h[x] = g[f[x]]
  BY DEF Pairs
<1>2. \A x, y \in A : h[x] = h[y] => x = y
  BY <1>1 DEF Pairs
<1>3. \A c \in C : \E x \in A : h[x] = c
  BY <1>1 DEF Pairs
<1> QED
  BY <1>1, <1>2, <1>3 DEF Pairs

\* A pairing of what is paired with members of a subset.
LEMMA PairsRestrict ==
    ASSUME NEW A, NEW B, NEW f, Pairs(f, A, B), NEW Q \in SUBSET B
    PROVE  Pairs([x \in {y \in A : f[y] \in Q} |-> f[x]], {y \in A : f[y] \in Q}, Q)
BY DEF Pairs

\* What is paired with a finite set is finite, and as many.
LEMMA PairsFinite ==
    ASSUME NEW A, NEW B, NEW f, Pairs(f, A, B), IsFiniteSet(B)
    PROVE  IsFiniteSet(A) /\ Cardinality(A) = Cardinality(B)
<1>1. f \in Injection(A, B)
  BY DEF Pairs, Injection, IsInjective
<1>2. IsFiniteSet(A)
  BY <1>1, FS_Injection
<1> QED
  BY <1>2, PairsCount

\* Distinct is as long as there are values.
LEMMA DistinctCount ==
    ASSUME NEW S, NEW s \in Seq(S)
    PROVE  IsFiniteSet(ToSet(s)) /\ Len(Distinct(s)) = Cardinality(ToSet(s))
<1> DEFINE d == Distinct(s)
<1>1. /\ d \in Seq(S) /\ ToSet(d) = ToSet(s)
      /\ \A a, b \in DOMAIN d : d[a] = d[b] => a = b
  BY DistinctFacts
<1> HIDE DEF d
<1>2. Pairs(d, DOMAIN d, ToSet(d))
  BY <1>1 DEF Pairs, ToSet
<1>3. DOMAIN d = 1 .. Len(d) /\ Len(d) \in Nat
  BY <1>1
<1>4. IsFiniteSet(DOMAIN d) /\ Cardinality(DOMAIN d) = Len(d)
  <2> DEFINE n == Len(d)
  <2>1. n \in Nat /\ DOMAIN d = 1 .. n
    BY <1>3
  <2> HIDE DEF n
  <2>2. IsFiniteSet(1 .. n) /\ Cardinality(1 .. n) = n
    BY <2>1, FS_Interval
  <2> QED
    BY <2>1, <2>2 DEF n
<1>5. IsFiniteSet(ToSet(d)) /\ Cardinality(ToSet(d)) = Cardinality(DOMAIN d)
  BY <1>2, <1>4, PairsCount
<1> QED
  BY <1>1, <1>4, <1>5 DEF d

\* Two ways to tell the members of a set apart that agree tell as many apart.
LEMMA TellAlike ==
    ASSUME NEW F, NEW u, NEW v, IsFiniteSet({u[f] : f \in F}),
           \A f, g \in F : u[f] = u[g] <=> v[f] = v[g]
    PROVE  Cardinality({v[f] : f \in F}) = Cardinality({u[f] : f \in F})
<1> DEFINE U == {u[f] : f \in F}
           V == {v[f] : f \in F}
           pick(x) == CHOOSE f \in F : u[f] = x
           b == [x \in U |-> v[pick(x)]]
<1>1. \A x \in U : pick(x) \in F /\ u[pick(x)] = x
  OBVIOUS
<1>2. \A x \in U : b[x] = v[pick(x)]
  OBVIOUS
<1>3. b \in [U -> V]
  <2>1. \A x \in U : v[pick(x)] \in V
    BY <1>1
  <2> HIDE DEF pick, V, U
  <2> QED
    BY <2>1
<1>4. \A f \in F : u[f] \in U /\ pick(u[f]) \in F /\ v[pick(u[f])] = v[f]
  <2> SUFFICES ASSUME NEW f \in F
               PROVE  u[f] \in U /\ pick(u[f]) \in F /\ v[pick(u[f])] = v[f]
    OBVIOUS
  <2>1. u[f] \in U
    OBVIOUS
  <2>2. pick(u[f]) \in F /\ u[pick(u[f])] = u[f]
    BY <1>1, <2>1
  <2> HIDE DEF pick
  <2> QED
    BY <2>1, <2>2
<1>5. \A x, y \in U : b[x] = b[y] => x = y
  <2> HIDE DEF pick, b, U
  <2> QED
    BY <1>1, <1>2
<1>6. \A z \in V : \E x \in U : b[x] = z
  <2>1. ASSUME NEW f \in F PROVE \E x \in U : b[x] = v[f]
    <3> HIDE DEF pick, b, U
    <3> QED
      BY <1>2, <1>4
  <2> HIDE DEF pick, b, U
  <2> QED
    BY <2>1
<1> HIDE DEF U, V, b
<1>7. Pairs(b, U, V)
  BY <1>3, <1>5, <1>6 DEF Pairs
<1>8. IsFiniteSet(U)
  BY DEF U
<1>9. Cardinality(V) = Cardinality(U)
  BY <1>7, <1>8, PairsCount
<1> QED
  BY <1>9 DEF U, V

----------------------------------------------------------------------------
(* The groups of a verdict *)

\* Where a target that did not settle is in its group.
ListedIn(groups) == UNION {{g} \X DOMAIN groups[g].targets : g \in DOMAIN groups}

\* A place is listed when it is of a target of some group.
LEMMA ListedIs ==
    ASSUME NEW groups, NEW x
    PROVE  x \in ListedIn(groups) <=>
             \E g \in DOMAIN groups : \E i \in DOMAIN groups[g].targets : x = <<g, i>>
BY DEF ListedIn

\* The targets that did not settle are each in a group, once, the one of their
\* context and namespace.
LEMMA GroupsPair ==
    ASSUME NEW S, NEW targets \in Seq(S)
    PROVE  LET groups == NamespaceVerdicts(targets)
               moving == {i \in DOMAIN targets : targets[i].status # "settled"}
           IN  \E m : /\ Pairs(m, ListedIn(groups), moving)
                      /\ \A x \in ListedIn(groups) :
                            LET t == targets[m[x]]
                            IN  /\ groups[x[1]].context = t.context /\ groups[x[1]].ns = t.ns
                                /\ groups[x[1]].targets[x[2]] = [name |-> t.name, status |-> t.status]
<1> DEFINE groups == NamespaceVerdicts(targets)
           moving == {i \in DOMAIN targets : targets[i].status # "settled"}
           listed == Picked(targets, moving)
           home == [i \in DOMAIN listed |-> <<listed[i].context, listed[i].ns>>]
           D == Distinct(home)
           In(k) == {i \in DOMAIN listed : home[i] = D[k]}
           own(k) == Picked(listed, In(k))
<1>1. moving \in SUBSET DOMAIN targets
  OBVIOUS
<1>2. PICK l : listed \in Seq(S) /\ Follows(listed, targets, moving, l)
  BY <1>1, PickedFacts
<1>3. /\ DOMAIN groups = DOMAIN D
      /\ \A k \in DOMAIN D :
            /\ groups[k].context = D[k][1] /\ groups[k].ns = D[k][2]
            /\ groups[k].targets =
                  [i \in DOMAIN own(k) |-> [name |-> own(k)[i].name, status |-> own(k)[i].status]]
  <2> DEFINE Group(g) ==
               LET mine == Picked(listed, {i \in DOMAIN listed : home[i] = g})
               IN  [context |-> g[1], ns |-> g[2], status |-> WorstStatus(StatusesOf(mine)),
                    targets |-> [i \in DOMAIN mine |->
                                  [name |-> mine[i].name, status |-> mine[i].status]]]
  <2>1. groups = [k \in DOMAIN D |-> Group(D[k])]
    BY Zenon DEF NamespaceVerdicts
  <2>2. ASSUME NEW k \in DOMAIN D
        PROVE  /\ Group(D[k]).context = D[k][1] /\ Group(D[k]).ns = D[k][2]
               /\ Group(D[k]).targets =
                    [i \in DOMAIN own(k) |-> [name |-> own(k)[i].name, status |-> own(k)[i].status]]
    OBVIOUS
  <2> HIDE DEF Group, groups, D, own
  <2> QED
    BY <2>1, <2>2
<1> HIDE DEF groups, listed, moving
<1>4. /\ DOMAIN home = DOMAIN listed
      /\ \A i \in DOMAIN listed : home[i] = <<listed[i].context, listed[i].ns>>
  OBVIOUS
<1>5. \E H : home \in Seq(H)
  <2> DEFINE H == {home[i] : i \in 1 .. Len(listed)}
  <2>1. DOMAIN listed = 1 .. Len(listed) /\ Len(listed) \in Nat
    BY <1>2
  <2>2. home = [i \in 1 .. Len(listed) |-> home[i]]
    BY <2>1
  <2>3. \A i \in 1 .. Len(listed) : home[i] \in H
    OBVIOUS
  <2> HIDE DEF H, home
  <2>4. home \in Seq(H)
    BY <2>1, <2>2, <2>3
  <2> QED
    BY <2>4
<1> HIDE DEF home
<1>6. /\ ToSet(D) = ToSet(home)
      /\ \A a, b \in DOMAIN D : D[a] = D[b] => a = b
  BY <1>5, DistinctFacts
<1> HIDE DEF D
<1> DEFINE Where(k) == CHOOSE g : Follows(own(k), listed, In(k), g)
<1>7. \A k \in DOMAIN D : Follows(own(k), listed, In(k), Where(k))
  <2> SUFFICES ASSUME NEW k \in DOMAIN D PROVE Follows(own(k), listed, In(k), Where(k))
    OBVIOUS
  <2>1. In(k) \in SUBSET DOMAIN listed
    OBVIOUS
  <2> HIDE DEF In
  <2>2. \E g : Follows(own(k), listed, In(k), g)
    BY <2>1, <1>2, PickedFacts
  <2> HIDE DEF own
  <2> QED
    BY <2>2
<1> HIDE DEF own, Where
<1>8. \A k \in DOMAIN D :
        /\ \A x \in DOMAIN own(k) : /\ Where(k)[x] \in DOMAIN listed /\ home[Where(k)[x]] = D[k]
                                    /\ own(k)[x] = listed[Where(k)[x]]
        /\ \A x, y \in DOMAIN own(k) : Where(k)[x] = Where(k)[y] => x = y
        /\ \A i \in DOMAIN listed : home[i] = D[k] => \E x \in DOMAIN own(k) : Where(k)[x] = i
  BY <1>7 DEF Follows, Pairs
<1> DEFINE A == ListedIn(groups)
           b == [x \in A |-> Where(x[1])[x[2]]]
<1>9. \A x : x \in A <=> \E k \in DOMAIN D : \E i \in DOMAIN own(k) : x = <<k, i>>
  <2>1. \A k \in DOMAIN D : DOMAIN groups[k].targets = DOMAIN own(k)
    BY <1>3
  <2> QED
    BY <1>3, <2>1, ListedIs
<1>10. \A x \in A : x[1] \in DOMAIN D /\ x[2] \in DOMAIN own(x[1]) /\ x = <<x[1], x[2]>>
  BY <1>9
<1> HIDE DEF A
<1>11. Pairs(b, A, DOMAIN listed)
  <2>1. \A x \in A : b[x] = Where(x[1])[x[2]] /\ b[x] \in DOMAIN listed
    BY <1>8, <1>10
  <2>2. ASSUME NEW x \in A, NEW y \in A, b[x] = b[y] PROVE x = y
    <3>1. home[b[x]] = D[x[1]] /\ home[b[y]] = D[y[1]]
      BY <1>8, <1>10, <2>1
    <3>2. x[1] = y[1]
      BY <1>6, <1>10, <2>2, <3>1
    <3>3. x[2] = y[2]
      BY <1>8, <1>10, <2>1, <2>2, <3>2
    <3> QED
      BY <1>10, <3>2, <3>3
  <2>3. ASSUME NEW i \in DOMAIN listed PROVE \E x \in A : b[x] = i
    <3>1. home[i] \in ToSet(D)
      BY <1>4, <1>6 DEF ToSet
    <3>2. PICK k \in DOMAIN D : D[k] = home[i]
      BY <3>1 DEF ToSet
    <3>3. PICK n \in DOMAIN own(k) : Where(k)[n] = i
      BY <1>8, <3>2
    <3>4. <<k, n>> \in A
      BY <1>9
    <3> QED
      BY <2>1, <3>3, <3>4
  <2> HIDE DEF b
  <2>4. b \in [A -> DOMAIN listed]
    BY <2>1 DEF b
  <2> QED
    BY <2>2, <2>3, <2>4 DEF Pairs
<1>12. Pairs(l, DOMAIN listed, moving) /\ \A i \in DOMAIN listed : listed[i] = targets[l[i]]
  BY <1>2 DEF Follows
<1> DEFINE m == [x \in A |-> l[b[x]]]
<1>13. Pairs(m, A, moving)
  BY <1>11, <1>12, PairsCompose
<1>14. ASSUME NEW x \in A
       PROVE  /\ groups[x[1]].context = targets[m[x]].context
              /\ groups[x[1]].ns = targets[m[x]].ns
              /\ groups[x[1]].targets[x[2]] =
                    [name |-> targets[m[x]].name, status |-> targets[m[x]].status]
  <2>1. m[x] = l[b[x]] /\ b[x] = Where(x[1])[x[2]]
    OBVIOUS
  <2>2. /\ b[x] \in DOMAIN listed /\ home[b[x]] = D[x[1]] /\ own(x[1])[x[2]] = listed[b[x]]
        /\ x[1] \in DOMAIN D /\ x[2] \in DOMAIN own(x[1])
    BY <1>8, <1>10, <2>1
  <2>3. listed[b[x]] = targets[m[x]]
    BY <1>12, <2>1, <2>2
  <2> HIDE DEF b, m
  <2>4. D[x[1]] = <<targets[m[x]].context, targets[m[x]].ns>>
    BY <1>4, <2>2, <2>3
  <2>5. groups[x[1]].context = D[x[1]][1] /\ groups[x[1]].ns = D[x[1]][2]
    BY <1>3, <2>2
  <2>6. groups[x[1]].targets[x[2]] = [name |-> own(x[1])[x[2]].name, status |-> own(x[1])[x[2]].status]
    BY <1>3, <2>2
  <2> QED
    BY <2>2, <2>3, <2>4, <2>5, <2>6
<1> HIDE DEF m
<1> QED
  BY <1>13, <1>14 DEF A, groups, moving

\* The targets that did not settle.
MovingPlaces == {p \in Places : At(p).outcome # "settled"}

\* What stands at x in a verdict is the target at p.
Stands(groups, x, p) ==
    /\ groups[x[1]].context = Located(Asked[p[1]], p[2]).context
    /\ groups[x[1]].ns = Located(Asked[p[1]], p[2]).ns
    /\ groups[x[1]].targets[x[2]] =
          [name |-> Located(Asked[p[1]], p[2]).name, status |-> At(p).outcome]

\* There are finitely many targets.
LEMMA FinitePlaces ==
    ASSUME RunInv, exit # Running
    PROVE  IsFiniteSet(Places)
<1> DEFINE T == Merged.targets
<1>1. PICK S : T \in Seq(S)
  BY TargetsUnfold
<1>2. PICK f : Pairs(f, DOMAIN T, Places)
  BY TargetsUnfold
<1> HIDE DEF T
<1>3. DOMAIN T = 1 .. Len(T) /\ Len(T) \in Nat
  BY <1>1
<1>4. IsFiniteSet(DOMAIN T)
  BY <1>3, FS_Interval
<1> QED
  BY <1>2, <1>4, PairsCount

\* The targets that did not settle are paired with what is listed.
LEMMA ListedPair ==
    ASSUME RunInv, exit # Running
    PROVE  LET groups == NamespaceVerdicts(Merged.targets)
           IN  \E m : /\ Pairs(m, ListedIn(groups), MovingPlaces)
                      /\ \A x \in ListedIn(groups) : Stands(groups, x, m[x])
<1> DEFINE T == Merged.targets
           groups == NamespaceVerdicts(T)
           moving == {i \in DOMAIN T : T[i].status # "settled"}
<1>1. PICK S : T \in Seq(S)
  BY TargetsUnfold
<1>2. PICK f : /\ Pairs(f, DOMAIN T, Places)
               /\ \A x \in DOMAIN T : T[x] = TargetAt(Asked[f[x][1]], f[x][2])
  BY TargetsUnfold
<1> HIDE DEF T
<1>3. PICK m : /\ Pairs(m, ListedIn(groups), moving)
               /\ \A x \in ListedIn(groups) :
                     LET t == T[m[x]]
                     IN  /\ groups[x[1]].context = t.context /\ groups[x[1]].ns = t.ns
                         /\ groups[x[1]].targets[x[2]] = [name |-> t.name, status |-> t.status]
  BY <1>1, GroupsPair
<1>4. ASSUME NEW i \in DOMAIN T
      PROVE  /\ f[i] \in Places
             /\ T[i].context = Located(Asked[f[i][1]], f[i][2]).context
             /\ T[i].ns = Located(Asked[f[i][1]], f[i][2]).ns
             /\ T[i].name = Located(Asked[f[i][1]], f[i][2]).name
             /\ T[i].status = At(f[i]).outcome
  <2>1. f[i] \in Places /\ T[i] = TargetAt(Asked[f[i][1]], f[i][2])
    BY <1>2 DEF Pairs
  <2> QED
    BY <2>1 DEF TargetAt, Located, At
<1> HIDE DEF groups
<1> DEFINE A == ListedIn(groups)
           g == [i \in {j \in DOMAIN T : f[j] \in MovingPlaces} |-> f[i]]
           h == [x \in A |-> g[m[x]]]
<1>5. moving = {j \in DOMAIN T : f[j] \in MovingPlaces}
  BY <1>4 DEF MovingPlaces
<1>6. Pairs(g, moving, MovingPlaces)
  <2>1. MovingPlaces \in SUBSET Places
    BY DEF MovingPlaces
  <2>2. Pairs(g, {j \in DOMAIN T : f[j] \in MovingPlaces}, MovingPlaces)
    BY <1>2, <2>1, PairsRestrict
  <2> QED
    BY <1>5, <2>2
<1>7. \A i \in moving : g[i] = f[i]
  BY <1>5
<1> HIDE DEF g, A
<1>8. Pairs(h, A, MovingPlaces)
  BY <1>3, <1>6, PairsCompose DEF A
<1>9. ASSUME NEW x \in A PROVE Stands(groups, x, h[x])
  <2>1. m[x] \in moving /\ m[x] \in DOMAIN T
    BY <1>3 DEF Pairs, A
  <2>2. h[x] = f[m[x]]
    BY <1>7, <2>1
  <2> HIDE DEF h
  <2>3. /\ groups[x[1]].context = T[m[x]].context /\ groups[x[1]].ns = T[m[x]].ns
        /\ groups[x[1]].targets[x[2]] = [name |-> T[m[x]].name, status |-> T[m[x]].status]
    BY <1>3 DEF A
  <2> QED
    BY <1>4, <2>1, <2>2, <2>3 DEF Stands
<1> HIDE DEF h
<1> QED
  BY <1>8, <1>9 DEF A, groups, T

\* A target is known by what stands for it.
LEMMA PlaceKnown ==
    ASSUME RunInv, exit # Running, NEW p \in Places, NEW q \in Places,
           LET l == Located(Asked[p[1]], p[2])
               o == Located(Asked[q[1]], q[2])
           IN  l.context = o.context /\ l.ns = o.ns /\ l.name = o.name
    PROVE  p = q
<1>1. PICK j \in DOMAIN Asked : \E i \in DOMAIN results[Asked[j]] : p = <<j, i>>
  BY PlacesFacts
<1>2. PICK i \in DOMAIN results[Asked[j]] : p = <<j, i>>
  BY <1>1
<1>3. PICK k \in DOMAIN Asked : \E n \in DOMAIN results[Asked[k]] : q = <<k, n>>
  BY PlacesFacts
<1>4. PICK n \in DOMAIN results[Asked[k]] : q = <<k, n>>
  BY <1>3
<1>5. /\ Located(Asked[j], i).context = Located(Asked[k], n).context
      /\ Located(Asked[j], i).ns = Located(Asked[k], n).ns
      /\ Located(Asked[j], i).name = Located(Asked[k], n).name
  BY <1>2, <1>4
<1>6. j = k
  <2>1. Asked[j] = Asked[k]
    BY <1>5 DEF Located
  <2> QED
    BY <2>1, AskedFacts
<1>7. i = n
  <2>1. WorkloadsOf(Asked[k])[i].ns = WorkloadsOf(Asked[k])[n].ns
    BY <1>5, <1>6 DEF Located
  <2>2. WorkloadsOf(Asked[k])[i].name = WorkloadsOf(Asked[k])[n].name
    BY <1>5, <1>6 DEF Located
  <2>3. Asked[k] \in Slots /\ i \in Fleet(Asked[k]) /\ n \in Fleet(Asked[k])
    BY <1>6, FindingsOfSlot
  <2> QED
    BY <2>1, <2>2, <2>3, FleetDistinct
<1> QED
  BY <1>2, <1>4, <1>6, <1>7

\* Every target that did not settle is listed, once, and no other is.
LEMMA ListedOnce ==
    ASSUME RunInv, exit # Running
    PROVE  LET groups == NamespaceVerdicts(Merged.targets)
           IN  /\ \A p \in MovingPlaces : Cardinality({x \in ListedIn(groups) : Stands(groups, x, p)}) = 1
               /\ Cardinality(ListedIn(groups)) = Cardinality(MovingPlaces)
<1> DEFINE groups == NamespaceVerdicts(Merged.targets)
<1>1. PICK m : /\ Pairs(m, ListedIn(groups), MovingPlaces)
               /\ \A x \in ListedIn(groups) : Stands(groups, x, m[x])
  BY ListedPair
<1> HIDE DEF groups
<1>2. ASSUME NEW p \in MovingPlaces
      PROVE  Cardinality({x \in ListedIn(groups) : Stands(groups, x, p)}) = 1
  <2>1. PICK x \in ListedIn(groups) : m[x] = p
    BY <1>1 DEF Pairs
  <2>2. ASSUME NEW y \in ListedIn(groups), Stands(groups, y, p) PROVE y = x
    <3>1. m[y] \in Places /\ p \in Places
      BY <1>1 DEF Pairs, MovingPlaces
    <3>2. Stands(groups, y, m[y])
      BY <1>1
    <3>3. m[y] = p
      <4> DEFINE l == Located(Asked[p[1]], p[2])
                 q == m[y]
                 o == Located(Asked[q[1]], q[2])
      <4>1. l.context = o.context /\ l.ns = o.ns
        BY <2>2, <3>2 DEF Stands
      <4>2. [name |-> l.name, status |-> At(p).outcome] = [name |-> o.name, status |-> At(q).outcome]
        BY <2>2, <3>2 DEF Stands
      <4>3. l.name = o.name
        <5>1. \A a, b, s, t : [name |-> a, status |-> s] = [name |-> b, status |-> t] => a = b
          <6> TAKE a, b, s, t
          <6> HAVE [name |-> a, status |-> s] = [name |-> b, status |-> t]
          <6>1. [name |-> a, status |-> s].name = [name |-> b, status |-> t].name
            OBVIOUS
          <6> QED
            BY <6>1
        <5> HIDE DEF l, o, q
        <5> QED
          BY <4>2, <5>1
      <4> QED
        BY <3>1, <4>1, <4>3, PlaceKnown
    <3> QED
      BY <1>1, <2>1, <3>3 DEF Pairs
  <2>3. {y \in ListedIn(groups) : Stands(groups, y, p)} = {x}
    BY <1>1, <2>1, <2>2
  <2> QED
    BY <2>3, FS_Singleton
<1>3. Cardinality(ListedIn(groups)) = Cardinality(MovingPlaces)
  <2>1. IsFiniteSet(MovingPlaces)
    BY FinitePlaces, FS_Subset DEF MovingPlaces
  <2> QED
    BY <1>1, <2>1, PairsFinite
<1> QED
  BY <1>2, <1>3 DEF groups

----------------------------------------------------------------------------
(* The resources of a cause *)

\* A path below a context and a namespace.
Below(a, b, s) == <<a, b>> \o s

\* Two paths are the same only when the context, the namespace and the rest are.
LEMMA BelowTells ==
    ASSUME NEW U, NEW a \in U, NEW b \in U, NEW c \in U, NEW d \in U, NEW s \in Seq(U), NEW t \in Seq(U)
    PROVE  Below(a, b, s) = Below(c, d, t) <=> a = c /\ b = d /\ s = t
<1> SUFFICES ASSUME <<a, b>> \o s = <<c, d>> \o t PROVE a = c /\ b = d /\ s = t
  BY DEF Below
<1> DEFINE x == <<a, b>> \o s
           y == <<c, d>> \o t
<1>1. Len(x) = Len(s) + 2 /\ Len(y) = Len(t) + 2 /\ Len(s) \in Nat /\ Len(t) \in Nat
  OBVIOUS
<1>2. /\ x[1] = a /\ x[2] = b /\ \A i \in 1 .. Len(s) : x[i + 2] = s[i]
      /\ y[1] = c /\ y[2] = d /\ \A i \in 1 .. Len(t) : y[i + 2] = t[i]
  OBVIOUS
<1> HIDE DEF x, y
<1>3. x = y
  BY DEF x, y
<1>4. Len(s) = Len(t) /\ \A i \in 1 .. Len(s) : s[i] = t[i]
  BY <1>1, <1>2, <1>3
<1>5. s = t
  BY <1>4, SeqEqual
<1> QED
  BY <1>2, <1>3, <1>5

\* What is known of every finding.
Typed(f) ==
    /\ f.context \in Slots /\ f.ns \in STRING /\ f.name \in STRING \X STRING
    /\ \/ f.pod = NoPod
       \/ \E path \in Seq(STRING) : path # NoPod /\ f.pod = f.name \o path

\* Every finding that the reports of a run that ended hold is of that kind.
LEMMA MaterialTyped ==
    ASSUME RunInv, exit # Running, NEW f \in Material
    PROVE  Typed(f)
<1>1. PICK p \in Places : f \in FindingsAt(p)
  BY DEF Material
<1>2. PICK k \in DOMAIN Asked : \E i \in DOMAIN results[Asked[k]] : p = <<k, i>>
  BY PlacesFacts
<1>3. PICK i \in DOMAIN results[Asked[k]] : p = <<k, i>>
  BY <1>2
<1> DEFINE c == Asked[k]
           fs == reports[c][i].findings
           W == WorkloadsOf(c)
           T == [ns : STRING, name : STRING \X STRING]
<1>4. c \in Slots /\ i \in Fleet(c) /\ ReportOf(c, i, reports[c][i]) /\ f \in ToSet(fs)
  BY <1>1, <1>3, FindingsOfSlot
<1>5. PICK j \in DOMAIN fs : f = fs[j]
  BY <1>4 DEF ToSet
<1>6. IsOf(f, c, i)
  BY <1>4, <1>5, ReportedFacts
<1>7. W \in Seq(T) /\ i \in 1 .. Len(W)
  BY <1>4, FleetHasTargets DEF Fleet
<1>8. W[i] \in T
  <2> HIDE DEF W, T
  <2> QED
    BY <1>7
<1>9. W[i].ns \in STRING /\ W[i].name \in STRING \X STRING
  <2> HIDE DEF W
  <2> QED
    BY <1>8
<1> QED
  BY <1>4, <1>6, <1>9 DEF IsOf, Typed

\* The path of an anchor below its namespace.
Rest(f) == IF f.pod # NoPod THEN f.pod ELSE <<f.name[2]>>

\* A sequence after another.
LEMMA ConcatFacts ==
    ASSUME NEW U, NEW t \in Seq(U), NEW s \in Seq(U), Len(t) = 2
    PROVE  t \o s \in Seq(U) /\ Len(t \o s) = Len(t) + Len(s) /\ (t \o s)[2] = t[2]
<1>1. /\ t \o s \in Seq(U) /\ Len(t \o s) = Len(t) + Len(s)
      /\ \A i \in 1 .. Len(t) + Len(s) : (t \o s)[i] = IF i <= Len(t) THEN t[i] ELSE s[i - Len(t)]
  BY ConcatProperties
<1>2. Len(s) \in Nat
  OBVIOUS
<1>3. 2 \in 1 .. Len(t) + Len(s) /\ 2 <= Len(t)
  BY <1>2
<1> QED
  BY <1>1, <1>3

\* A pod is below its workload.
LEMMA PairIsSeq ==
    ASSUME NEW U, NEW n \in U \X U, NEW s \in Seq(U), s # <<>>
    PROVE  LET p == n \o s
           IN  p \in Seq(U) /\ p[2] = n[2] /\ Len(p) # 1
<1>1. PICK a \in U, b \in U : n = <<a, b>>
  OBVIOUS
<1>2. <<a, b>> \in Seq(U) /\ Len(<<a, b>>) = 2 /\ <<a, b>>[2] = b
  OBVIOUS
<1> DEFINE t == <<a, b>>
<1>3. t \in Seq(U) /\ Len(t) = 2 /\ t[2] = b
  BY <1>2
<1> HIDE DEF t
<1>4. Len(s) \in Nat /\ Len(s) # 0
  OBVIOUS
<1>5. t \o s \in Seq(U) /\ Len(t \o s) = Len(t) + Len(s) /\ (t \o s)[2] = t[2]
  BY <1>3, ConcatFacts
<1>6. Len(t \o s) # 1
  BY <1>3, <1>4, <1>5
<1> QED
  BY <1>1, <1>3, <1>5, <1>6 DEF t

\* What identifies a finding below its namespace is a sequence of names: of one name
\* for a finding about the workload, of more for one about a pod.
LEMMA RestFacts ==
    ASSUME NEW f, Typed(f), NEW U, STRING \subseteq U
    PROVE  /\ Rest(f) \in Seq(U) /\ f.name[2] \in U
           /\ f.pod # NoPod => Rest(f) = f.pod /\ f.pod[2] = f.name[2] /\ Len(Rest(f)) # 1
           /\ f.pod = NoPod => Rest(f) = <<f.name[2]>> /\ Len(Rest(f)) = 1
<1> DEFINE n == f.name
<1>1. n \in U \X U /\ n[2] \in U
  <2>1. n \in STRING \X STRING
    BY DEF Typed
  <2> QED
    BY <2>1
<1>2. CASE f.pod = NoPod
  <2>1. Rest(f) = <<n[2]>>
    BY <1>2 DEF Rest
  <2> HIDE DEF n
  <2>2. <<n[2]>> \in Seq(U) /\ Len(<<n[2]>>) = 1
    BY <1>1
  <2> QED
    BY <1>1, <1>2, <2>1, <2>2 DEF n
<1>3. CASE f.pod # NoPod
  <2>1. PICK path \in Seq(STRING) : path # NoPod /\ f.pod = n \o path
    BY <1>3 DEF Typed
  <2>2. Rest(f) = f.pod
    BY <1>3 DEF Rest
  <2> HIDE DEF n
  <2>3. path \in Seq(U) /\ path # <<>>
    <3>1. path \in Seq(U)
      BY SeqWiden
    <3> QED
      BY <2>1, <3>1 DEF NoPod
  <2>4. f.pod \in Seq(U) /\ f.pod[2] = n[2] /\ Len(f.pod) # 1
    BY <1>1, <2>1, <2>3, PairIsSeq
  <2> QED
    BY <1>1, <1>3, <2>2, <2>4 DEF n
<1> QED
  BY <1>2, <1>3

\* Resources are the same if their context, namespace, workload's name and pod
\* are.
LEMMA AnchorTells ==
    ASSUME NEW f, NEW g, Typed(f), Typed(g)
    PROVE  AnchorRef(f) = AnchorRef(g) <=>
             <<f.context, f.ns, f.name[2], f.pod>> = <<g.context, g.ns, g.name[2], g.pod>>
<1> DEFINE U == STRING \union Slots
<1>1. /\ f.context \in U /\ f.ns \in U /\ g.context \in U /\ g.ns \in U
      /\ STRING \subseteq U
  BY DEF Typed
<1> HIDE DEF U
<1>2. AnchorRef(f) = <<f.context, f.ns>> \o Rest(f) /\ AnchorRef(g) = <<g.context, g.ns>> \o Rest(g)
  BY DEF AnchorRef, Rest
<1>3. /\ Rest(f) \in Seq(U) /\ f.name[2] \in U
      /\ f.pod # NoPod => Rest(f) = f.pod /\ f.pod[2] = f.name[2] /\ Len(Rest(f)) # 1
      /\ f.pod = NoPod => Rest(f) = <<f.name[2]>> /\ Len(Rest(f)) = 1
  BY <1>1, RestFacts
<1>4. /\ Rest(g) \in Seq(U) /\ g.name[2] \in U
      /\ g.pod # NoPod => Rest(g) = g.pod /\ g.pod[2] = g.name[2] /\ Len(Rest(g)) # 1
      /\ g.pod = NoPod => Rest(g) = <<g.name[2]>> /\ Len(Rest(g)) = 1
  BY <1>1, RestFacts
<1>5. AnchorRef(f) = AnchorRef(g) <=> f.context = g.context /\ f.ns = g.ns /\ Rest(f) = Rest(g)
  <2> DEFINE a == f.context
             b == f.ns
             c == g.context
             d == g.ns
             s == Rest(f)
             t == Rest(g)
  <2>1. a \in U /\ b \in U /\ c \in U /\ d \in U /\ s \in Seq(U) /\ t \in Seq(U)
    BY <1>1, <1>3, <1>4
  <2> HIDE DEF a, b, c, d, s, t
  <2>2. Below(a, b, s) = Below(c, d, t) <=> a = c /\ b = d /\ s = t
    BY <2>1, BelowTells
  <2>3. AnchorRef(f) = Below(a, b, s) /\ AnchorRef(g) = Below(c, d, t)
    BY <1>2 DEF a, b, c, d, s, t, Below
  <2> QED
    BY <2>2, <2>3 DEF a, b, c, d, s, t
<1>6. Rest(f) = Rest(g) <=> f.name[2] = g.name[2] /\ f.pod = g.pod
  <2>1. CASE f.pod = NoPod /\ g.pod = NoPod
    BY <2>1, <1>3, <1>4
  <2>2. CASE f.pod # NoPod /\ g.pod # NoPod
    BY <2>2, <1>3, <1>4
  <2>3. CASE f.pod = NoPod /\ g.pod # NoPod
    <3>1. Len(Rest(f)) = 1 /\ Len(Rest(g)) # 1
      BY <2>3, <1>3, <1>4
    <3>2. Rest(f) # Rest(g)
      BY <3>1
    <3> QED
      BY <2>3, <3>2
  <2>4. CASE f.pod # NoPod /\ g.pod = NoPod
    <3>1. Len(Rest(f)) # 1 /\ Len(Rest(g)) = 1
      BY <2>4, <1>3, <1>4
    <3>2. Rest(f) # Rest(g)
      BY <3>1
    <3> QED
      BY <2>4, <3>2
  <2> QED
    BY <2>1, <2>2, <2>3, <2>4
<1> QED
  BY <1>5, <1>6

\* The anchors of a cause are those of the findings that have it.
LEMMA AnchorsSet ==
    ASSUME NEW S, NEW findings \in Seq(S), NEW cause
    PROVE  LET refs == AnchorsOf(findings, cause)
           IN  /\ \E R : refs \in Seq(R)
               /\ ToSet(refs) = {AnchorRef(f) : f \in {g \in ToSet(findings) : g.cause = cause}}
<1> DEFINE refs == AnchorsOf(findings, cause)
           I == {i \in DOMAIN findings : findings[i].cause = cause}
           own == Picked(findings, I)
           R == {AnchorRef(own[i]) : i \in DOMAIN own}
<1>1. refs = [i \in DOMAIN own |-> AnchorRef(own[i])]
  BY DEF AnchorsOf
<1>2. I \in SUBSET DOMAIN findings
  OBVIOUS
<1> HIDE DEF own, refs
<1>3. PICK g : own \in Seq(S) /\ Follows(own, findings, I, g)
  BY <1>2, PickedFacts DEF own
<1>4. DOMAIN own = 1 .. Len(own) /\ Len(own) \in Nat
  BY <1>3
<1>5. refs \in Seq(R)
  <2>1. \A i \in 1 .. Len(own) : AnchorRef(own[i]) \in R
    BY <1>4
  <2>2. refs = [i \in 1 .. Len(own) |-> AnchorRef(own[i])]
    BY <1>1, <1>4
  <2> HIDE DEF R
  <2> QED
    BY <1>4, <2>1, <2>2
<1>6. ASSUME NEW x \in DOMAIN own
      PROVE  own[x] \in ToSet(findings) /\ own[x].cause = cause
  <2>1. g[x] \in I /\ own[x] = findings[g[x]]
    BY <1>3 DEF Follows, Pairs
  <2> QED
    BY <2>1 DEF ToSet
<1>7. ASSUME NEW f \in ToSet(findings), f.cause = cause
      PROVE  \E x \in DOMAIN own : own[x] = f
  <2>1. PICK i \in DOMAIN findings : findings[i] = f
    BY DEF ToSet
  <2>2. i \in I
    BY <1>7, <2>1
  <2> HIDE DEF I
  <2>3. PICK x \in DOMAIN own : g[x] = i
    BY <1>3, <2>2 DEF Follows, Pairs
  <2>4. own[x] = findings[i]
    BY <1>3, <2>3 DEF Follows
  <2> QED
    BY <2>1, <2>4
<1>8. ToSet(refs) = {AnchorRef(own[x]) : x \in DOMAIN own}
  BY <1>1 DEF ToSet
<1>9. {AnchorRef(own[x]) : x \in DOMAIN own}
        = {AnchorRef(f) : f \in {h \in ToSet(findings) : h.cause = cause}}
  BY <1>6, <1>7
<1> HIDE DEF R
<1> QED
  BY <1>5, <1>8, <1>9 DEF refs

\* What is merged is what was found.
LEMMA AllIsMaterial ==
    ASSUME RunInv, exit # Running
    PROVE  ToSet(AllFindings) = Material
<1>1. PICK h : Sorts(h)
  BY FindingsUnfold
<1>2. \A x \in DOMAIN AllFindings : AllFindings[x] \in Material
  BY <1>1 DEF Sorts, Material
<1>3. \A f \in Material : \E x \in DOMAIN AllFindings : AllFindings[x] = f
  BY <1>1 DEF Sorts, Material
<1> QED
  BY <1>2, <1>3 DEF ToSet

\* A resource by its context, namespace, workload's name and pod.
ResourceOf(f) == <<f.context, f.ns, f.name[2], f.pod>>

\* A cause counts its resources.
LEMMA AffectedCount ==
    ASSUME RunInv, exit # Running, NEW cause
    PROVE  Len(Distinct(AnchorsOf(AllFindings, cause)))
             = Cardinality({ResourceOf(f) : f \in {g \in Material : g.cause = cause}})
<1> DEFINE A == AllFindings
           refs == AnchorsOf(A, cause)
           F == {g \in Material : g.cause = cause}
           u == [f \in F |-> AnchorRef(f)]
           v == [f \in F |-> ResourceOf(f)]
<1>1. A \in Seq(Material) /\ ToSet(A) = Material
  BY FindingsUnfold, AllIsMaterial
<1> HIDE DEF A
<1>2. /\ \E R : refs \in Seq(R)
      /\ ToSet(refs) = {AnchorRef(f) : f \in {g \in ToSet(A) : g.cause = cause}}
  BY <1>1, AnchorsSet
<1> HIDE DEF refs
<1>3. IsFiniteSet(ToSet(refs)) /\ Len(Distinct(refs)) = Cardinality(ToSet(refs))
  BY <1>2, DistinctCount
<1>4. ToSet(refs) = {AnchorRef(f) : f \in F}
  BY <1>1, <1>2
<1>5. \A f, g \in F : AnchorRef(f) = AnchorRef(g) <=> ResourceOf(f) = ResourceOf(g)
  BY AnchorTells, MaterialTyped DEF ResourceOf
<1> HIDE DEF F
<1>6. {u[f] : f \in F} = {AnchorRef(f) : f \in F} /\ {v[f] : f \in F} = {ResourceOf(f) : f \in F}
  OBVIOUS
<1>7. \A f, g \in F : u[f] = u[g] <=> v[f] = v[g]
  BY <1>5
<1> HIDE DEF u, v
<1>8. IsFiniteSet({u[f] : f \in F})
  BY <1>3, <1>4, <1>6
<1>9. Cardinality({v[f] : f \in F}) = Cardinality({u[f] : f \in F})
  BY <1>7, <1>8, TellAlike
<1>10. Len(Distinct(refs)) = Cardinality({ResourceOf(f) : f \in F})
  BY <1>3, <1>4, <1>6, <1>9
<1> QED
  BY <1>10 DEF refs, A, F

\* What the goroutines found is in the verdict, once: every target that did not
\* settle is listed and no other is, every finding is counted under its cause
\* and every resource once per cause (fill, diagnoseFleet, Collapse,
\* namespaceVerdicts).
THEOREM NothingLostCorrect == Spec => []NothingLost
<1>1. RunInv => NothingLost
  <2> SUFFICES ASSUME RunInv, exit # Running, mode = "cluster" => Answered(NoContext)
               PROVE  LET groups == verdict.namespaces
                          listed == ListedIn(groups)
                          findings == UNION {FindingsAt(p) : p \in Places}
                      IN  /\ \A p \in Places : At(p).outcome # "settled" =>
                               Cardinality({x \in listed : Stands(groups, x, p)}) = 1
                          /\ Cardinality(listed)
                                = Cardinality({p \in Places : At(p).outcome # "settled"})
                          /\ {verdict.failures[e].cause : e \in DOMAIN verdict.failures}
                                = {f.cause : f \in findings}
                          /\ \A e \in DOMAIN verdict.failures :
                               verdict.failures[e].affected =
                                  Cardinality({ResourceOf(f) :
                                      f \in {g \in findings : g.cause = verdict.failures[e].cause}})
    BY Zenon DEF NothingLost, ListedIn, Stands, ResourceOf
  <2>1. verdict = BuildFleet(Merged)
    <3>1. Emitted
      BY DEF RunInv, EndInv
    <3>2. mode = "cluster" => outs[NoContext].error = "none"
      BY DEF Answered
    <3> QED
      BY <3>1, <3>2 DEF Emitted
  <2>2. verdict.namespaces = NamespaceVerdicts(Merged.targets) /\ verdict.failures = Collapse(AllFindings)
    <3>1. Merged.failures = Collapse(AllFindings)
      BY DEF Merged, AllFindings
    <3>2. /\ BuildFleet(Merged).namespaces = NamespaceVerdicts(Merged.targets)
          /\ BuildFleet(Merged).failures = Merged.failures
      BY DEF BuildFleet
    <3> QED
      BY <2>1, <3>1, <3>2
  <2> DEFINE groups == verdict.namespaces
             entries == verdict.failures
             A == AllFindings
  <2>3. /\ \A p \in MovingPlaces : Cardinality({x \in ListedIn(groups) : Stands(groups, x, p)}) = 1
        /\ Cardinality(ListedIn(groups)) = Cardinality(MovingPlaces)
    BY <2>2, ListedOnce
  <2>4. A \in Seq(Material) /\ ToSet(A) = Material
    BY FindingsUnfold, AllIsMaterial
  <2>5. /\ {entries[e].cause : e \in DOMAIN entries} = {f.cause : f \in Material}
        /\ \A e \in DOMAIN entries :
              entries[e].affected = Len(Distinct(AnchorsOf(A, entries[e].cause)))
    <3> DEFINE es == Collapse(A)
    <3>1. entries = es
      BY <2>2
    <3> HIDE DEF A
    <3>2. /\ {es[a].cause : a \in DOMAIN es} = {f.cause : f \in ToSet(A)}
          /\ \A a \in DOMAIN es : es[a].affected = Len(Distinct(AnchorsOf(A, es[a].cause)))
      BY <2>4, CollapseFacts
    <3> HIDE DEF es
    <3> QED
      BY <2>4, <3>1, <3>2
  <2>6. \A e \in DOMAIN entries :
           entries[e].affected =
              Cardinality({ResourceOf(f) : f \in {g \in Material : g.cause = entries[e].cause}})
    BY <2>5, AffectedCount
  <2> HIDE DEF groups, entries, A
  <2>7. Material = UNION {FindingsAt(p) : p \in Places}
    BY DEF Material
  <2>8. MovingPlaces = {p \in Places : At(p).outcome # "settled"}
    BY DEF MovingPlaces
  <2>9. \A p \in Places : At(p).outcome # "settled" =>
           Cardinality({x \in ListedIn(groups) : Stands(groups, x, p)}) = 1
    BY <2>3, <2>8
  <2>10. Cardinality(ListedIn(groups)) = Cardinality({p \in Places : At(p).outcome # "settled"})
    BY <2>3, <2>8
  <2>11. {entries[e].cause : e \in DOMAIN entries} = {f.cause : f \in UNION {FindingsAt(p) : p \in Places}}
    BY <2>5, <2>7
  <2>12. \A e \in DOMAIN entries :
            entries[e].affected =
               Cardinality({ResourceOf(f) :
                   f \in {g \in UNION {FindingsAt(p) : p \in Places} : g.cause = entries[e].cause}})
    BY <2>6, <2>7
  <2> QED
    BY <2>9, <2>10, <2>11, <2>12, Zenon DEF groups, entries
<1> QED
  BY <1>1, RunInvariant, PTL
=============================================================================
